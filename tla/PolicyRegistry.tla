--------------------------- MODULE PolicyRegistry ---------------------------
(***************************************************************************)
(* What the A1 mediator promises about the two things its northbound API   *)
(* registers, policy types and policy instances, as an atomic              *)
(* specification: a type is created only where there is none, it is        *)
(* removed only when it has no instance, and an instance is stored only    *)
(* under an existing type whose schema accepts its body.  A1Policy, where  *)
(* every handler is a sequence of database calls that three kinds of       *)
(* threads interleave, is shown to implement it.                           *)
(***************************************************************************)
CONSTANTS PolicyTypes,  \* policy type ids
          Instances,    \* policy instance ids
          Schemas,      \* bodies of policy types (their create_schema)
          Bodies,       \* bodies of policy instances
          Conforms,     \* Conforms[s]: the bodies that schema s accepts
          None          \* "there is no such key in SDL"

VARIABLES types,        \* types[t]: the schema of type t, or None
          inst          \* inst[<<t, i>>]: the body of instance i of t, or None

vars == <<types, inst>>

Keys == PolicyTypes \X Instances

Init ==
    /\ types = [t \in PolicyTypes |-> None]
    /\ inst = [k \in Keys |-> None]

\* store_policy_type: "store a policy type if it doesn't already exist".
CreateType(t, s) ==
    /\ types[t] = None
    /\ types' = [types EXCEPT ![t] = s]
    /\ UNCHANGED inst

\* delete_policy_type: "can only be done if there are no instances".
DeleteType(t) ==
    /\ types[t] # None
    /\ \A i \in Instances : inst[<<t, i>>] = None
    /\ types' = [types EXCEPT ![t] = None]
    /\ UNCHANGED inst

\* store_policy_instance, for a body the type's schema accepts.
PutInstance(k, b) ==
    /\ types[k[1]] # None
    /\ b \in Conforms[types[k[1]]]
    /\ inst' = [inst EXCEPT ![k] = b]
    /\ UNCHANGED types

\* The end of _delete_after.
RemoveInstance(k) ==
    /\ inst' = [inst EXCEPT ![k] = None]
    /\ UNCHANGED types

Next ==
    \/ \E t \in PolicyTypes : DeleteType(t)
    \/ \E t \in PolicyTypes, s \in Schemas : CreateType(t, s)
    \/ \E k \in Keys : RemoveInstance(k)
    \/ \E k \in Keys, b \in Bodies : PutInstance(k, b)

Spec == Init /\ [][Next]_vars
=============================================================================
