SPECIFICATION Spec
CONSTANTS
  Configs <- MCConfigs
  MaxSignals = 2
  MaxConns = 1
INVARIANTS TypeOK HookAfterDrain HookBeforeExit CutExplained
PROPERTIES SignalStops
