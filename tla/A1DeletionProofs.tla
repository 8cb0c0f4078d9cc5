-------------------------- MODULE A1DeletionProofs --------------------------
EXTENDS A1PolicyProofs

-----------------------------------------------------------------------------
(***************************************************************************)
(* A deletion that was started stays pending: DeletionPending is inductive *)
(* together with ConformInv, which rules out that a delete thread gives up *)
(* because the type of an existing instance is gone.                       *)
(***************************************************************************)
PendingInv == ConformInv /\ DeletionPending

\* Somebody will take care of the lingering instance k.
Attended(k) == HandlerBusyWith(k) \/ \E d \in Deleters : WillRemove(d, k)

\* Nothing is marked deleted in an empty database.
LEMMA PendingInit == Init => PendingInv
  BY ConformInit DEF PendingInv, DeletionPending, Lingers, Init

\* A step of a request handler after which instance k lingers leaves k
\* attended: the handler itself goes on with k, or the thread that attended
\* to k is still there.
LEMMA PendingHttp ==
  ASSUME PendingInv, HttpStep, crashes = 0, faults = 0,
         NEW k \in Keys, Lingers(k)'
  PROVE  Attended(k)'
<1> USE DEF Reads, Writes, Require, sdl
<1>1. ~Lingers(k) \/ Attended(k)
  BY DEF PendingInv, DeletionPending, Attended
<1>2. \A pc : Goto(pc) => http'.pc = pc /\ Key' = Key
  BY DEF Goto, Key, PendingInv, ConformInv, TypeOK, HttpTypeOK
<1>3. CASE PutSet
  <2>1. Lingers(k) \/ Key = k
    BY <1>3 DEF PutSet, Lingers, PendingInv, ConformInv, TypeOK, SdlTypeOK
  <2>2. CASE Key = k
    BY <1>2, <1>3, <2>2 DEF PutSet, Attended, HandlerBusyWith
  <2>3. CASE Lingers(k)
    BY <1>1, <1>3, <2>3
    DEF PutSet, Attended, HandlerBusyWith, WillRemove
  <2> QED
    BY <2>1, <2>2, <2>3
<1>4. CASE PutMeta
  BY <1>1, <1>4
  DEF PutMeta, Lingers, Attended, HandlerBusyWith, WillRemove, PendingInv,
      ConformInv, TypeOK, SdlTypeOK
<1>5. CASE DeleteMark
  <2>1. Lingers(k) \/ Key = k
    BY <1>5 DEF DeleteMark, Lingers, PendingInv, ConformInv, TypeOK, SdlTypeOK
  <2>2. CASE Key = k
    BY <1>2, <1>5, <2>2 DEF DeleteMark, Attended, HandlerBusyWith
  <2>3. CASE Lingers(k)
    BY <1>1, <1>5, <2>3
    DEF DeleteMark, Attended, HandlerBusyWith, WillRemove
  <2> QED
    BY <2>1, <2>2, <2>3
<1>6. CASE DeleteSpawn
  <2>1. Lingers(k)
    BY <1>6 DEF DeleteSpawn, Lingers
  <2>2. PICK d \in Deleters :
          /\ del[d].pc = "idle"
          /\ del' = [del EXCEPT ![d] = [pc |-> "type", key |-> Key, keys |-> {}]]
    BY <1>6 DEF DeleteSpawn
  <2>3. CASE Key = k
    BY <2>2, <2>3
    DEF Attended, WillRemove, PendingInv, ConformInv, TypeOK, DelTypeOK
  <2>4. CASE Key # k
    <3>1. PICK e \in Deleters : WillRemove(e, k)
      BY <1>1, <2>1, <2>4 DEF Attended, HandlerBusyWith
    <3>2. e # d /\ del'[e] = del[e]
      BY <2>2, <3>1 DEF WillRemove, PendingInv, ConformInv, TypeOK, DelTypeOK
    <3> QED
      BY <3>1, <3>2 DEF Attended, WillRemove
  <2> QED
    BY <2>3, <2>4
<1>7. CASE Checks
  <2>1. Lingers(k) /\ UNCHANGED <<del, types, inst>>
    BY <1>7 DEF Checks, TypeIsValid, InstanceIsValid, Lingers
  <2>2. CASE HandlerBusyWith(k)
    <3>1. inst[Key] # None /\ types[http.t] # None
      BY <2>1, <2>2
      DEF Lingers, HandlerBusyWith, Key, Keys, PendingInv, ConformInv,
          InstancesConform
    <3>2. \/ http.pc = "DI_stype" /\ Goto("DI_sinst")
          \/ http.pc = "DI_sinst" /\ Goto("DI_statuses")
      BY <1>7, <2>2, <3>1 DEF HandlerBusyWith, Checks, TypeIsValid,
                              InstanceIsValid
    <3> QED
      BY <1>2, <2>2, <3>2 DEF Attended, HandlerBusyWith
  <2>3. CASE ~HandlerBusyWith(k)
    BY <1>1, <2>1, <2>3 DEF Attended, WillRemove
  <2> QED
    BY <2>2, <2>3
<1>8. CASE ~(PutSet \/ PutMeta \/ DeleteMark \/ DeleteSpawn \/ Checks)
  <2>1. UNCHANGED <<inst, meta, del>> /\ ~HandlerBusyWith(k)
    BY <1>8
    DEF HttpStep, GetTypeList, CreateTypeGet, CreateTypeSet, GetTypeRead,
        DeleteTypeList, DeleteTypeDelete, GetInstanceList, GetInstanceRead,
        GetStatusMetadata, GetStatusRead, PutSchema, PutGet, PutFindHandlers,
        PutClearHandler, PutQueue, DeleteMetadata, DeleteQueue, Queues,
        HandlerBusyWith
  <2> QED
    BY <1>1, <2>1 DEF Lingers, Attended, WillRemove
<1> QED
  BY <1>3, <1>4, <1>5, <1>6, <1>7, <1>8

\* A delete thread that goes back to sleep or ends does not leave behind an
\* instance it was to remove.
LEMMA PendingDeleter ==
  ASSUME PendingInv, NEW d \in Deleters, DeleterStep(d),
         crashes = 0, faults = 0, NEW k \in Keys, Lingers(k)'
  PROVE  Attended(k)'
<1> USE DEF DelAt, sdl
<1>1. Lingers(k) /\ UNCHANGED http
  <2> USE NoneAssumption
      DEF Lingers, PendingInv, ConformInv, TypeOK, SdlTypeOK, DelTypeOK, web
  <2>1. CASE DelType(d) \/ DelInst(d) \/ DelWake(d) \/ DelClear(d)
    BY <2>1 DEF DelType, DelInst, DelWake, DelClear
  <2>2. CASE DelInstance(d)
    BY <2>2 DEF DelInstance
  <2>3. CASE DelMetadata(d)
    BY <2>3 DEF DelMetadata
  <2> QED
    BY <2>1, <2>2, <2>3 DEF DeleterStep
<1>2. Attended(k)
  BY <1>1 DEF PendingInv, DeletionPending, Attended
<1>3. CASE HandlerBusyWith(k)
  BY <1>1, <1>3 DEF Attended, HandlerBusyWith, Key
<1>4. ASSUME NEW e \in Deleters, WillRemove(e, k)
      PROVE  WillRemove(e, k)'
  <2> USE DEF PendingInv, ConformInv, TypeOK, DelTypeOK, WillRemove
  <2>1. CASE e # d
    BY <1>4, <2>1
    DEF DeleterStep, DelType, DelInst, DelWake, DelClear, DelInstance,
        DelMetadata, DelRequire, DelExit
  <2>2. CASE e = d
    <3>1. types[k[1]] # None /\ inst[k] # None
      BY <1>1 DEF Lingers, InstancesConform
    <3>2. CASE DelType(d) \/ DelInst(d)
      BY <1>4, <2>2, <3>1, <3>2 DEF DelType, DelInst, DelRequire
    <3>3. CASE DelWake(d)
      BY <1>4, <2>2, <3>3 DEF DelWake
    <3>4. CASE DelClear(d)
      BY <1>4, <2>2, <3>4 DEF DelClear
    <3>5. ~DelInstance(d) /\ ~DelMetadata(d)
      BY <1>4, <2>2 DEF DelInstance, DelMetadata, Lingers, SdlTypeOK
    <3> QED
      BY <3>2, <3>3, <3>4, <3>5 DEF DeleterStep
  <2> QED
    BY <2>1, <2>2
<1> QED
  BY <1>2, <1>3, <1>4 DEF Attended

\* Every step preserves PendingInv.
LEMMA PendingNext == PendingInv /\ [Next]_vars => PendingInv'
<1> SUFFICES ASSUME PendingInv, [Next]_vars PROVE PendingInv'
  OBVIOUS
<1>1. ConformInv'
  BY ConformNext DEF PendingInv
<1> SUFFICES ASSUME crashes' = 0, faults' = 0, NEW k \in Keys, Lingers(k)'
             PROVE  Attended(k)'
  BY <1>1 DEF PendingInv, DeletionPending, Attended
<1>2. crashes \in Nat /\ faults \in Nat
  BY BoundsAssumption DEF PendingInv, ConformInv, TypeOK
<1>3. ~Failure
  BY <1>2 DEF Failure, HttpSdlError, RmrSdlError, DeleterSdlError, Crash, Fault
<1>4. CASE HttpStep
  <2>1. crashes = 0 /\ faults = 0
    BY <1>4
    DEF HttpStep, Checks, TypeIsValid, InstanceIsValid, GetTypeList,
        CreateTypeGet, CreateTypeSet, GetTypeRead, DeleteTypeList,
        DeleteTypeDelete, GetInstanceList, GetInstanceRead, GetStatusMetadata,
        GetStatusRead, PutSchema, PutGet, PutFindHandlers, PutClearHandler,
        PutSet, PutMeta, PutQueue, DeleteMetadata, DeleteMark, DeleteSpawn,
        DeleteQueue, Queues, Reads, Writes, bounds
  <2> QED
    BY <1>4, <2>1, PendingHttp
<1>5. ASSUME NEW d \in Deleters, DeleterStep(d)
      PROVE  Attended(k)'
  <2>1. crashes = 0 /\ faults = 0
    BY <1>5 DEF DeleterStep, DelType, DelInst, DelWake, DelClear, DelInstance,
                DelMetadata, DelAt, bounds
  <2> QED
    BY <1>5, <2>1, PendingDeleter
<1>6. CASE Request
  <2>1. UNCHANGED <<sdl, del, bounds>> /\ ~HandlerBusyWith(k)
    BY <1>6, RequestSame DEF HandlerBusyWith
  <2> QED
    BY <2>1 DEF PendingInv, DeletionPending, Lingers, Attended, WillRemove, sdl,
                bounds
<1>7. CASE Receive \/ RmrStep \/ UNCHANGED vars
  <2>1. UNCHANGED <<inst, meta, http, del, bounds>>
    BY <1>7
    DEF Receive, ReceiveQuery, ReceiveResponse, RmrStep, RmrTypeIsValid,
        AckInstanceIsValid, AckSet, QueryList, QueryNext, QueryInstanceIsValid,
        QueryGet, RmrAt, vars, sdl, web
  <2> QED
    BY <2>1 DEF PendingInv, DeletionPending, Lingers, Attended, WillRemove,
                HandlerBusyWith, Key, bounds
<1> QED
  BY <1>3, <1>4, <1>5, <1>6, <1>7 DEF Next

\* In a process that has not crashed, on a database that has not failed, an
\* instance that is marked deleted always has a thread that will remove it or
\* a handler that is about to start one or to make the instance live again.
THEOREM NoForgottenDeletion == Spec => []DeletionPending
<1>1. PendingInv => DeletionPending
  BY DEF PendingInv
<1> QED
  BY <1>1, PendingInit, PendingNext, PTL DEF Spec
=============================================================================
