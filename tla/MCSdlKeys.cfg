SPECIFICATION Spec
CONSTANTS
  Chars <- MCChars
  PolicyTypes <- MCPolicyTypes
  Instances <- MCInstances
  Handlers <- MCHandlers
  Threads = {d1, d2}
  MaxUsed = 2
INVARIANTS ListsExact StatusesExact
SYMMETRY MCSymmetry
