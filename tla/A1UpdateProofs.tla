--------------------------- MODULE A1UpdateProofs ---------------------------
(***************************************************************************)
(* What a PUT leaves behind: an update leaves no status of the instance it *)
(* replaced, and the last message queued for an instance says what is      *)
(* stored; for any number of types, instances, xApps and delete threads.   *)
(***************************************************************************)
EXTENDS A1PolicyProofs

-----------------------------------------------------------------------------
(***************************************************************************)
(* UpdateResets.  A status recorded before the PUT is cleared while the    *)
(* rmr loop goes on writing statuses, so the invariant follows each old    *)
(* status from the search (PI_keys) through the deletions (PI_clear).      *)
(***************************************************************************)
ResetInv ==
  http.kind = "UPDATE" =>
    \A h \in prior :
      /\ http.pc = "PI_clear" => hdl[Key][h] = None \/ h \in http.keys
      /\ http.pc \in {"PI_set", "PI_meta", "PI_queue"} => hdl[Key][h] = None

\* The places of the web server for which ResetInv says something.
ResetPcs == {"PI_clear", "PI_set", "PI_meta", "PI_queue"}

\* A handler that is not there, or that creates, needs nothing.
LEMMA ResetElsewhere ==
  ASSUME http'.pc \notin ResetPcs \/ http'.kind # "UPDATE"
  PROVE  ResetInv'
BY DEF ResetInv, ResetPcs

\* Steps of a request handler preserve ResetInv.
LEMMA ResetHttp ==
  ASSUME TypeOK, ResetInv, HttpStep
  PROVE  ResetInv'
<1> USE DEF TypeOK, Reads, Writes
<1>1. ASSUME NEW pc, Goto(pc), pc \notin ResetPcs
      PROVE  ResetInv'
  BY <1>1, ResetElsewhere DEF Goto, HttpTypeOK
<1>2. ASSUME http' = HttpIdle
      PROVE  ResetInv'
  BY <1>2, ResetElsewhere DEF HttpIdle, ResetPcs
<1>3. ASSUME \/ \E pc : Goto(pc) /\ pc \notin ResetPcs
             \/ http' = HttpIdle
      PROVE  ResetInv'
  BY <1>1, <1>2, <1>3
<1>4. CASE Checks
  <2>1. \/ \E pc : Goto(pc) /\ pc \notin ResetPcs
        \/ http' = HttpIdle
    BY <1>4 DEF Checks, TypeIsValid, InstanceIsValid, Require, Respond, ResetPcs
  <2> QED
    BY <1>3, <2>1
<1>5. CASE \/ GetTypeList \/ CreateTypeGet \/ CreateTypeSet \/ GetTypeRead
           \/ DeleteTypeList \/ DeleteTypeDelete \/ GetInstanceList
           \/ GetInstanceRead \/ GetStatusMetadata \/ GetStatusRead \/ PutSchema
  <2>1. \/ \E pc : Goto(pc) /\ pc \notin ResetPcs
        \/ http' = HttpIdle
    BY <1>5
    DEF GetTypeList, CreateTypeGet, CreateTypeSet, GetTypeRead, DeleteTypeList,
        DeleteTypeDelete, GetInstanceList, GetInstanceRead, GetStatusMetadata,
        GetStatusRead, PutSchema, Require, Respond, ResetPcs
  <2> QED
    BY <1>3, <2>1
<1>6. CASE PutGet
  BY <1>6, ResetElsewhere DEF PutGet, HttpTypeOK, ResetPcs
<1>7. CASE PutFindHandlers
  <2>1. /\ Key' = Key /\ http'.keys = Recorded(Key) /\ UNCHANGED <<hdl, prior>>
        /\ http'.pc = IF Recorded(Key) = {} THEN "PI_set" ELSE "PI_clear"
    BY <1>7 DEF PutFindHandlers, HttpTypeOK, Key, sdl
  <2>2. \A h \in prior : hdl[Key][h] = None \/ h \in Recorded(Key)
    BY DEF Recorded
  <2> QED
    BY <2>1, <2>2 DEF ResetInv
<1>8. CASE PutClearHandler
  <2>1. PICK h \in http.keys :
          /\ hdl' = [hdl EXCEPT ![Key][h] = None]
          /\ http' = [http EXCEPT
                        !.keys = @ \ {h},
                        !.pc = IF http.keys = {h} THEN "PI_set" ELSE "PI_clear"]
    BY <1>8 DEF PutClearHandler
  <2>2. Key \in Keys /\ h \in Handlers /\ http.pc = "PI_clear"
    BY <1>8 DEF PutClearHandler, HttpTypeOK, PutPcs, InstPcs, Key, Keys
  <2>3. /\ Key' = Key /\ http'.keys = http.keys \ {h} /\ http'.kind = http.kind
        /\ http'.pc = IF http.keys = {h} THEN "PI_set" ELSE "PI_clear"
    BY <2>1 DEF HttpTypeOK, Key
  <2>4. /\ hdl'[Key][h] = None
        /\ \A g \in Handlers : hdl[Key][g] = None => hdl'[Key][g] = None
    BY <2>1, <2>2 DEF SdlTypeOK
  <2>5. prior' = prior /\ prior \subseteq Handlers
    BY <1>8 DEF PutClearHandler
  <2> SUFFICES ASSUME http.kind = "UPDATE", NEW g \in prior
               PROVE  hdl'[Key][g] = None \/ (g \in http.keys /\ g # h)
    BY <2>3, <2>5 DEF ResetInv
  <2> QED
    BY <2>2, <2>4, <2>5 DEF ResetInv
<1>9. CASE PutSet \/ PutMeta
  <2>1. http' = [http EXCEPT !.pc = IF http.pc = "PI_set" THEN "PI_meta" ELSE "PI_queue"]
    BY <1>9 DEF PutSet, PutMeta, Goto
  <2>2. http.pc \in {"PI_set", "PI_meta"} /\ UNCHANGED <<hdl, prior>>
    BY <1>9 DEF PutSet, PutMeta, Goto
  <2>3. Key' = Key /\ http'.kind = http.kind /\ http'.pc \in {"PI_meta", "PI_queue"}
    BY <2>1, <2>2 DEF HttpTypeOK, Key
  <2> QED
    BY <2>2, <2>3 DEF ResetInv
<1>10. CASE PutQueue \/ DeleteQueue
  BY <1>2, <1>10 DEF PutQueue, DeleteQueue, Queues, Respond
<1>11. CASE DeleteMetadata \/ DeleteMark \/ DeleteSpawn
  <2>1. \/ \E pc : Goto(pc) /\ pc \notin ResetPcs
        \/ http' = HttpIdle
    BY <1>11 DEF DeleteMetadata, DeleteMark, DeleteSpawn, Require, Respond, ResetPcs
  <2> QED
    BY <1>3, <2>1
<1> QED
  BY <1>4, <1>5, <1>6, <1>7, <1>8, <1>9, <1>10, <1>11 DEF HttpStep

\* The rmr loop records a status: it counts no longer as an old one.
LEMMA ResetAck ==
  ASSUME TypeOK, ResetInv, AckSet
  PROVE  ResetInv'
<1>1. UNCHANGED http /\ Key' = Key
  BY DEF AckSet, RmrAt, web, Key
<1>2. RmrKey \in Keys /\ rmr.h \in Handlers /\ prior \subseteq Handlers
  BY DEF AckSet, RmrAt, TypeOK, RmrTypeOK, AckPcs, QueryPcs, RmrKey, Keys
<1>3. hdl' = [hdl EXCEPT ![RmrKey][rmr.h] = rmr.st]
  BY DEF AckSet
<1>4. prior' = IF RmrKey = Key THEN prior \ {rmr.h} ELSE prior
  BY DEF AckSet
<1>5. ASSUME NEW h \in prior'
      PROVE  h \in prior /\ hdl'[Key][h] = hdl[Key][h]
  <2>1. h \in prior /\ (RmrKey = Key => h # rmr.h)
    BY <1>4, <1>5
  <2>2. CASE RmrKey = Key
    BY <1>2, <1>3, <2>1, <2>2 DEF TypeOK, SdlTypeOK
  <2>3. CASE RmrKey # Key
    BY <1>2, <1>3, <2>1, <2>3 DEF TypeOK, SdlTypeOK
  <2> QED
    BY <2>2, <2>3
<1> QED
  BY <1>1, <1>5 DEF ResetInv

\* Every step preserves ResetInv.
LEMMA ResetNext ==
  ASSUME TypeOK, ResetInv, [Next]_vars
  PROVE  ResetInv'
<1>1. CASE HttpStep
  BY <1>1, ResetHttp
<1>2. CASE AckSet
  BY <1>2, ResetAck
<1>3. CASE UNCHANGED <<http, hdl, prior>>
  BY <1>3 DEF ResetInv, Key
<1>4. CASE Request
  <2>1. http.pc = "idle"
    BY <1>4, RequestSame
  <2>2. ASSUME NEW op, NEW pc, NEW t, NEW i, NEW arg, Begin(op, pc, t, i, arg)
        PROVE  http'.kind = "none"
    BY <2>2 DEF Begin, HttpIdle
  <2>3. CASE CreateTypeMismatch
    BY <1>3, <2>3 DEF CreateTypeMismatch, sdl
  <2>4. CASE ~CreateTypeMismatch
    <3>1. http'.kind = "none"
      BY <1>4, <2>2, <2>4
      DEF Request, get_all_policy_types, create_policy_type, get_policy_type,
          delete_policy_type, get_all_instances_for_type, get_policy_instance,
          get_policy_instance_status, create_or_replace_policy_instance,
          delete_policy_instance
    <3> QED
      BY <3>1, ResetElsewhere
  <2> QED
    BY <2>3, <2>4
<1>5. ASSUME NEW d \in Deleters, DeleterStep(d)
      PROVE  ResetInv'
  <2>1. UNCHANGED <<http, prior>>
    BY <1>5 DEF DeleterStep, DelType, DelInst, DelWake, DelClear, DelInstance,
                DelMetadata, DelAt, web
  <2>2. CASE DelClear(d)
    <3>1. PICK h \in del[d].keys : hdl' = [hdl EXCEPT ![del[d].key][h] = None]
      BY <2>2 DEF DelClear
    <3>2. del[d].key \in Keys /\ h \in Handlers
      BY <2>2, <3>1 DEF DelClear, DelAt, TypeOK, DelTypeOK
    <3>3. \A k \in Keys, g \in Handlers : hdl[k][g] = None => hdl'[k][g] = None
      BY <3>1, <3>2 DEF TypeOK, SdlTypeOK
    <3>4. http.pc \in ResetPcs => Key \in Keys
      BY DEF TypeOK, HttpTypeOK, ResetPcs, InstPcs, PutPcs, Key, Keys
    <3> QED
      BY <2>1, <3>3, <3>4 DEF ResetInv, ResetPcs, Key, TypeOK
  <2>3. CASE ~DelClear(d)
    BY <1>3, <1>5, <2>1, <2>3
    DEF DeleterStep, DelType, DelInst, DelWake, DelInstance, DelMetadata, sdl
  <2> QED
    BY <2>2, <2>3
<1>6. CASE Receive \/ (RmrStep /\ ~AckSet)
  BY <1>3, <1>6
  DEF Receive, ReceiveQuery, ReceiveResponse, RmrStep, RmrTypeIsValid,
      AckInstanceIsValid, QueryList, QueryNext, QueryInstanceIsValid, QueryGet,
      RmrAt, web
<1>7. CASE Failure
  <2>1. CASE HttpSdlError \/ Crash
    BY <2>1, ResetElsewhere DEF HttpSdlError, Crash, Respond, HttpIdle
  <2>2. CASE RmrSdlError \/ \E d \in Deleters : DeleterSdlError(d)
    BY <1>3, <2>2 DEF RmrSdlError, DeleterSdlError, sdl, web
  <2> QED
    BY <1>7, <2>1, <2>2 DEF Failure
<1>8. CASE UNCHANGED vars
  BY <1>3, <1>8 DEF vars, sdl, web
<1> QED
  BY <1>1, <1>2, <1>4, <1>5, <1>6, <1>7, <1>8 DEF Next

\* When a PUT that replaces an instance is about to be answered, no status
\* that was recorded before it is left (data.py 211-213), whatever delete
\* threads, xApps, SDL errors and crashes do meanwhile.
THEOREM UpdatesReset == Spec => []UpdateResets
<1>1. Init => ResetInv
  BY DEF Init, ResetInv, HttpIdle
<1>2. ResetInv => UpdateResets
  BY DEF ResetInv, UpdateResets
<1>3. TypeOK /\ ResetInv /\ [Next]_vars => ResetInv'
  BY ResetNext
<1> QED
  BY <1>1, <1>2, <1>3, InitType, NextType, PTL DEF Spec

-----------------------------------------------------------------------------
(***************************************************************************)
(* ToldLatest.  Between PutSet and PutQueue the xApps have not been told   *)
(* what is stored, so the invariant allows for the instance that the       *)
(* running PUT is about; that what is queued then is what is stored needs  *)
(* that nobody but a delete thread touches it meanwhile.                   *)
(***************************************************************************)

\* The last message queued for k says what is stored.
Told(k) == notified[k].op \in {"CREATE", "UPDATE"} /\ notified[k].body = inst[k]

ActiveTold ==
  \A k \in Keys :
    inst[k] # None /\ meta[k] = "Live" =>
      Told(k) \/ (Key = k /\ http.pc \in {"PI_meta", "PI_queue"})

\* What was written by the running PUT is there, unless it was removed.
PutWritten ==
  http.pc \in {"PI_meta", "PI_queue"} => inst[Key] \in {None, http.arg}

\* A PUT knows whether it creates or updates.
PutKind ==
  http.pc \in {"PI_keys", "PI_clear", "PI_set", "PI_meta", "PI_queue"} =>
    http.kind \in {"CREATE", "UPDATE"}

\* What the running DELETE has marked stays marked, or is removed.
DeleteMarked ==
  http.pc \in {"DI_stype", "DI_sinst", "DI_statuses", "DI_queue"} =>
    meta[Key] # "Live"

ToldParts == ActiveTold /\ PutWritten /\ PutKind /\ DeleteMarked

ToldInv == crashes = 0 /\ faults = 0 => ToldParts

\* A step after which the web server is at none of the places above, and that
\* writes neither instances nor metadata nor the queue.
LEMMA ToldRead ==
  ASSUME ToldParts, UNCHANGED <<inst, meta, notified>>,
         http.pc \notin {"PI_meta", "PI_queue"},
         http'.pc \notin {"PI_keys", "PI_clear", "PI_set", "PI_meta", "PI_queue",
                          "DI_stype", "DI_sinst", "DI_statuses", "DI_queue"}
  PROVE  ToldParts'
BY DEF ToldParts, ActiveTold, PutWritten, PutKind, DeleteMarked, Told

\* A step of another thread, which may remove an instance or its metadata.
LEMMA ToldRemove ==
  ASSUME TypeOK, ToldParts, UNCHANGED <<http, notified>>,
         \A k \in Keys : /\ inst'[k] \in {inst[k], None}
                         /\ meta'[k] \in {meta[k], None}
  PROVE  ToldParts'
<1>1. Key' = Key
  BY DEF Key
<1>2. http.pc \in InstPcs => Key \in Keys
  BY DEF TypeOK, HttpTypeOK, Key, Keys
<1>3. ActiveTold'
  BY <1>1, NoneAssumption DEF ToldParts, ActiveTold, Told
<1>4. PutWritten'
  BY <1>1, <1>2 DEF ToldParts, PutWritten, InstPcs, PutPcs
<1>5. PutKind'
  BY DEF ToldParts, PutKind
<1>6. DeleteMarked'
  BY <1>1, <1>2, NoneAssumption DEF ToldParts, DeleteMarked, InstPcs
<1> QED
  BY <1>3, <1>4, <1>5, <1>6 DEF ToldParts

\* Steps of a request handler.
LEMMA ToldHttp ==
  ASSUME TypeOK, ToldParts, HttpStep
  PROVE  ToldParts'
<1> USE DEF TypeOK
<1>1. http.pc \in InstPcs => Key \in Keys
  BY DEF HttpTypeOK, Key, Keys
<1>2. \A pc : Goto(pc) => http'.pc = pc /\ Key' = Key /\ http'.kind = http.kind
                          /\ http'.arg = http.arg
  BY DEF Goto, Key, HttpTypeOK
<1>3. CASE \/ GetTypeList \/ CreateTypeGet \/ CreateTypeSet \/ GetTypeRead
           \/ DeleteTypeList \/ DeleteTypeDelete \/ GetInstanceList
           \/ GetInstanceRead \/ GetStatusRead
  <2>1. UNCHANGED <<inst, meta, notified>> /\ http.pc \notin {"PI_meta", "PI_queue"}
    BY <1>3
    DEF GetTypeList, CreateTypeGet, CreateTypeSet, GetTypeRead, DeleteTypeList,
        DeleteTypeDelete, GetInstanceList, GetInstanceRead, GetStatusRead, Reads,
        Writes, sdl
  <2>2. http'.pc \in {"idle", "CT_set", "DT_del"}
    BY <1>2, <1>3
    DEF GetTypeList, CreateTypeGet, CreateTypeSet, GetTypeRead, DeleteTypeList,
        DeleteTypeDelete, GetInstanceList, GetInstanceRead, GetStatusRead,
        Require, Respond, HttpIdle
  <2> QED
    BY <2>1, <2>2, ToldRead
<1>4. CASE PutSchema \/ GetStatusMetadata \/ DeleteMetadata
  <2>1. UNCHANGED <<inst, meta, notified>> /\ http.pc \notin {"PI_meta", "PI_queue"}
    BY <1>4 DEF PutSchema, GetStatusMetadata, DeleteMetadata, Reads, sdl
  <2>2. http'.pc \in {"idle", "PI_stype", "GS_stype", "DI_mset"}
    BY <1>2, <1>4 DEF PutSchema, GetStatusMetadata, DeleteMetadata, Require, Respond,
                      HttpIdle
  <2> QED
    BY <2>1, <2>2, ToldRead
<1>5. CASE Checks
  <2>1. UNCHANGED <<inst, meta, notified>> /\ http.pc \notin {"PI_meta", "PI_queue"}
    BY <1>5 DEF Checks, TypeIsValid, InstanceIsValid, Reads, sdl
  <2>2. \/ http'.pc \notin {"PI_keys", "PI_clear", "PI_set", "PI_meta", "PI_queue",
                            "DI_stype", "DI_sinst", "DI_statuses", "DI_queue"}
        \/ http.pc = "DI_stype" /\ Goto("DI_sinst")
        \/ http.pc = "DI_sinst" /\ Goto("DI_statuses")
    BY <1>2, <1>5 DEF Checks, TypeIsValid, InstanceIsValid, Reads, Require, Respond,
                      HttpIdle
  <2>3. CASE \/ http.pc = "DI_stype" /\ Goto("DI_sinst")
             \/ http.pc = "DI_sinst" /\ Goto("DI_statuses")
    <3>1. /\ http.pc \in {"DI_stype", "DI_sinst"} /\ Key' = Key
          /\ http'.pc \in {"DI_sinst", "DI_statuses"}
      BY <1>2, <2>3
    <3> QED
      BY <2>1, <3>1 DEF ToldParts, ActiveTold, PutWritten, PutKind, DeleteMarked, Told
  <2> QED
    BY <2>1, <2>2, <2>3, ToldRead
<1>6. CASE PutGet
  <2>1. UNCHANGED <<inst, meta, notified>> /\ http.pc = "PI_get"
    BY <1>6 DEF PutGet, Reads, sdl
  <2>2. http'.pc \in {"PI_set", "PI_keys"} /\ http'.kind \in {"CREATE", "UPDATE"}
    BY <1>6 DEF PutGet, HttpTypeOK
  <2> QED
    BY <2>1, <2>2 DEF ToldParts, ActiveTold, PutWritten, PutKind, DeleteMarked, Told
<1>7. CASE PutFindHandlers \/ PutClearHandler
  <2>1. UNCHANGED <<inst, meta, notified>> /\ http.pc \in {"PI_keys", "PI_clear"}
    BY <1>7 DEF PutFindHandlers, PutClearHandler, Reads, Writes, sdl
  <2>2. CASE PutFindHandlers
    <3>1. http'.pc \in {"PI_set", "PI_clear"} /\ http'.kind = http.kind
      BY <2>2 DEF PutFindHandlers, HttpTypeOK
    <3> QED
      BY <2>1, <3>1 DEF ToldParts, ActiveTold, PutWritten, PutKind, DeleteMarked, Told
  <2>3. CASE PutClearHandler
    <3>1. http'.pc \in {"PI_set", "PI_clear"} /\ http'.kind = http.kind
      BY <2>3 DEF PutClearHandler, HttpTypeOK
    <3> QED
      BY <2>1, <3>1 DEF ToldParts, ActiveTold, PutWritten, PutKind, DeleteMarked, Told
  <2> QED
    BY <1>7, <2>2, <2>3
<1>8. CASE PutSet
  <2>1. /\ http.pc = "PI_set" /\ Key \in Keys /\ UNCHANGED <<meta, notified>>
        /\ http'.pc = "PI_meta" /\ Key' = Key /\ http'.kind = http.kind
        /\ http'.arg = http.arg
    BY <1>1, <1>2, <1>8 DEF PutSet, Writes, InstPcs, PutPcs
  <2>2. inst' = [inst EXCEPT ![Key] = http.arg]
    BY <1>8 DEF PutSet
  <2>3. inst'[Key] = http.arg /\ \A k \in Keys : k # Key => inst'[k] = inst[k]
    BY <2>1, <2>2 DEF SdlTypeOK
  <2> QED
    BY <2>1, <2>3 DEF ToldParts, ActiveTold, PutWritten, PutKind, DeleteMarked, Told
<1>9. CASE PutMeta
  <2>1. /\ http.pc = "PI_meta" /\ Key \in Keys /\ UNCHANGED <<inst, notified>>
        /\ http'.pc = "PI_queue" /\ Key' = Key /\ http'.kind = http.kind
        /\ http'.arg = http.arg
    BY <1>1, <1>2, <1>9 DEF PutMeta, Writes, InstPcs, PutPcs
  <2>2. \A k \in Keys : k # Key => meta'[k] = meta[k]
    BY <1>9 DEF PutMeta, SdlTypeOK
  <2> QED
    BY <2>1, <2>2 DEF ToldParts, ActiveTold, PutWritten, PutKind, DeleteMarked, Told
<1>10. CASE PutQueue
  <2>1. http.pc = "PI_queue" /\ Key \in Keys /\ UNCHANGED <<inst, meta>>
    BY <1>1, <1>10 DEF PutQueue, Queues, InstPcs, PutPcs, sdl
  <2>2. http'.pc = "idle"
    BY <1>10 DEF PutQueue, Queues, Respond, HttpIdle
  <2>3. /\ notified'[Key] = [op |-> http.kind, body |-> http.arg]
        /\ \A k \in Keys : k # Key => notified'[k] = notified[k]
    BY <1>10, <2>1 DEF PutQueue, Queues, HttpTypeOK
  <2>4. http.kind \in {"CREATE", "UPDATE"} /\ inst[Key] \in {None, http.arg}
    BY <2>1 DEF ToldParts, PutKind, PutWritten
  <2>5. ActiveTold'
    BY <2>1, <2>3, <2>4 DEF ToldParts, ActiveTold, Told
  <2> QED
    BY <2>2, <2>5 DEF ToldParts, PutWritten, PutKind, DeleteMarked
<1>11. CASE DeleteMark
  <2>1. /\ http.pc = "DI_mset" /\ Key \in Keys /\ UNCHANGED <<inst, notified>>
        /\ http'.pc = "DI_stype" /\ Key' = Key
    BY <1>1, <1>2, <1>11 DEF DeleteMark, Writes, InstPcs
  <2>2. meta'[Key] = "Deleted" /\ \A k \in Keys : k # Key => meta'[k] = meta[k]
    BY <1>11, <2>1 DEF DeleteMark, SdlTypeOK
  <2> QED
    BY <2>1, <2>2 DEF ToldParts, ActiveTold, PutWritten, PutKind, DeleteMarked, Told
<1>12. CASE DeleteSpawn
  <2>1. /\ http.pc = "DI_statuses" /\ UNCHANGED <<inst, meta, notified>>
        /\ http'.pc = "DI_queue" /\ Key' = Key
    BY <1>2, <1>12 DEF DeleteSpawn, sdl
  <2> QED
    BY <2>1 DEF ToldParts, ActiveTold, PutWritten, PutKind, DeleteMarked, Told
<1>13. CASE DeleteQueue
  <2>1. http.pc = "DI_queue" /\ Key \in Keys /\ UNCHANGED <<inst, meta>>
    BY <1>1, <1>13 DEF DeleteQueue, Queues, InstPcs, sdl
  <2>2. http'.pc = "idle"
    BY <1>13 DEF DeleteQueue, Queues, Respond, HttpIdle
  <2>3. \A k \in Keys : k # Key => notified'[k] = notified[k]
    BY <1>13 DEF DeleteQueue, Queues, HttpTypeOK
  <2>4. ActiveTold'
    BY <2>1, <2>3 DEF ToldParts, ActiveTold, DeleteMarked, Told
  <2> QED
    BY <2>2, <2>4 DEF ToldParts, PutWritten, PutKind, DeleteMarked
<1> QED
  BY <1>3, <1>4, <1>5, <1>6, <1>7, <1>8, <1>9, <1>10, <1>11, <1>12, <1>13 DEF HttpStep

\* Every step preserves ToldInv.
LEMMA ToldNext ==
  ASSUME TypeOK, ToldInv, [Next]_vars
  PROVE  ToldInv'
<1> SUFFICES ASSUME crashes' = 0, faults' = 0 PROVE ToldParts'
  BY DEF ToldInv
<1>1. crashes \in Nat /\ faults \in Nat
  BY BoundsAssumption DEF TypeOK
<1>2. ~Failure
  BY <1>1 DEF Failure, HttpSdlError, RmrSdlError, DeleterSdlError, Crash, Fault
<1>3. ASSUME UNCHANGED <<inst, meta, http, notified, bounds>>
      PROVE  ToldParts'
  BY <1>3 DEF ToldInv, ToldParts, ActiveTold, PutWritten, PutKind, DeleteMarked, Told,
              Key, bounds
<1>4. CASE HttpStep
  <2>1. UNCHANGED bounds
    BY <1>4
    DEF HttpStep, Checks, TypeIsValid, InstanceIsValid, GetTypeList,
        CreateTypeGet, CreateTypeSet, GetTypeRead, DeleteTypeList,
        DeleteTypeDelete, GetInstanceList, GetInstanceRead, GetStatusMetadata,
        GetStatusRead, PutSchema, PutGet, PutFindHandlers, PutClearHandler,
        PutSet, PutMeta, PutQueue, DeleteMetadata, DeleteMark, DeleteSpawn,
        DeleteQueue, Queues, Reads, Writes
  <2>2. ToldParts
    BY <2>1 DEF ToldInv, bounds
  <2> QED
    BY <1>4, <2>2, ToldHttp
<1>5. CASE Request
  <2>1. UNCHANGED <<sdl, notified, bounds>> /\ http.pc = "idle"
    BY <1>5, RequestSame
  <2>2. ToldParts
    BY <2>1 DEF ToldInv, bounds
  <2>3. \A op, pc, t, i, arg : Begin(op, pc, t, i, arg) => http'.pc = pc
    BY DEF Begin, HttpIdle
  <2>4. http'.pc \notin {"PI_keys", "PI_clear", "PI_set", "PI_meta", "PI_queue",
                         "DI_stype", "DI_sinst", "DI_statuses", "DI_queue"}
    BY <1>5, <2>1, <2>3
    DEF Request, CreateTypeMismatch, get_all_policy_types, create_policy_type,
        get_policy_type, delete_policy_type, get_all_instances_for_type,
        get_policy_instance, get_policy_instance_status,
        create_or_replace_policy_instance, delete_policy_instance
  <2> QED
    BY <2>1, <2>2, <2>4, ToldRead DEF sdl
<1>6. ASSUME NEW d \in Deleters, DeleterStep(d)
      PROVE  ToldParts'
  <2>1. UNCHANGED <<http, notified, bounds>>
    BY <1>6 DEF DeleterStep, DelType, DelInst, DelWake, DelClear, DelInstance,
                DelMetadata, DelAt, web
  <2>2. ToldParts
    BY <2>1 DEF ToldInv, bounds
  <2>3. CASE DelInstance(d) \/ DelMetadata(d)
    <3>1. del[d].key \in Keys
      BY <2>3 DEF DelInstance, DelMetadata, DelAt, TypeOK, DelTypeOK
    <3>2. \A k \in Keys : inst'[k] \in {inst[k], None} /\ meta'[k] \in {meta[k], None}
      BY <2>3, <3>1 DEF DelInstance, DelMetadata, TypeOK, SdlTypeOK
    <3> QED
      BY <2>1, <2>2, <3>2, ToldRemove
  <2>4. CASE ~(DelInstance(d) \/ DelMetadata(d))
    BY <1>3, <1>6, <2>1, <2>4
    DEF DeleterStep, DelType, DelInst, DelWake, DelClear, sdl
  <2> QED
    BY <2>3, <2>4
<1>7. CASE Receive \/ RmrStep \/ UNCHANGED vars
  <2>1. UNCHANGED <<inst, meta, http, notified, bounds>>
    BY <1>7
    DEF Receive, ReceiveQuery, ReceiveResponse, RmrStep, RmrTypeIsValid,
        AckInstanceIsValid, AckSet, QueryList, QueryNext, QueryInstanceIsValid,
        QueryGet, RmrAt, vars, sdl, web
  <2> QED
    BY <1>3, <2>1
<1> QED
  BY <1>2, <1>4, <1>5, <1>6, <1>7 DEF Next

\* Between requests, what was last queued for the xApps is what is stored
\* (controller.py 180-184, 198-201), however delete threads come in between,
\* while the process and SDL do not fail.
THEOREM XappsToldLatest == Spec => []ToldLatest
<1>1. Init => ToldInv
  BY NoneAssumption DEF Init, ToldInv, ToldParts, ActiveTold, PutWritten, PutKind,
                        DeleteMarked, HttpIdle
<1>2. ToldInv => ToldLatest
  BY DEF ToldInv, ToldParts, ActiveTold, ToldLatest, Told
<1>3. TypeOK /\ ToldInv /\ [Next]_vars => ToldInv'
  BY ToldNext
<1> QED
  BY <1>1, <1>2, <1>3, InitType, NextType, PTL DEF Spec
=============================================================================
