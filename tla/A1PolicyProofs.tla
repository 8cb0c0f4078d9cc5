--------------------------- MODULE A1PolicyProofs ---------------------------
EXTENDS A1Policy, TLAPS

\* pc is a step that a handler at http.pc may go on with: it needs no more of
\* the handler's record than the handler has.
Follows(pc) ==
  /\ pc \in TypePcs \cup InstPcs
  /\ http.pc \in TypePcs \cup InstPcs
  /\ pc \in InstPcs => http.pc \in InstPcs
  /\ pc \in PutPcs => http.pc \in PutPcs
  /\ pc \in {"CT_get", "CT_set"} => http.pc \in {"CT_get", "CT_set"}

\* Going on with a step that the handler's record supports keeps its type.
LEMMA GotoType ==
  ASSUME HttpTypeOK, prior \in SUBSET Handlers, UNCHANGED notified,
         NEW pc, Follows(pc), Goto(pc)
  PROVE  HttpTypeOK' /\ prior' \in SUBSET Handlers
  BY DEF Goto, HttpTypeOK, Follows

\* The same for the steps of a PUT that change more of its record.
LEMMA PutStepType ==
  ASSUME HttpTypeOK, UNCHANGED <<reply, notified>>,
         NEW pc, Follows(pc), NEW keys \in SUBSET Handlers,
         NEW kind \in {"none", "CREATE", "UPDATE"},
         \/ http' = [http EXCEPT !.pc = pc, !.kind = kind]
         \/ http' = [http EXCEPT !.keys = keys, !.pc = pc]
  PROVE  HttpTypeOK'
<1>1. \E ks \in SUBSET Handlers, kd \in {"none", "CREATE", "UPDATE"} :
        http' = [pc |-> pc, op |-> http.op, t |-> http.t, i |-> http.i,
                 arg |-> http.arg, keys |-> ks, kind |-> kd]
  <2> DEFINE r(p, ks, kd) ==
        [pc |-> p, op |-> http.op, t |-> http.t, i |-> http.i,
         arg |-> http.arg, keys |-> ks, kind |-> kd]
  <2>1. http = r(http.pc, http.keys, http.kind)
    BY DEF HttpTypeOK
  <2>2. CASE http' = [http EXCEPT !.pc = pc, !.kind = kind]
    <3>1. http' = r(pc, http.keys, kind)
      BY <2>1, <2>2
    <3>2. http.keys \in SUBSET Handlers
      BY DEF HttpTypeOK
    <3> QED
      BY <3>1, <3>2
  <2>3. CASE http' = [http EXCEPT !.keys = keys, !.pc = pc]
    <3>1. http' = r(pc, keys, http.kind)
      BY <2>1, <2>3
    <3>2. http.kind \in {"none", "CREATE", "UPDATE"}
      BY DEF HttpTypeOK
    <3> QED
      BY <3>1, <3>2
  <2> QED
    BY <2>2, <2>3
<1> QED
  BY <1>1 DEF HttpTypeOK, Follows

\* Answering a request keeps the type of the web server's state.
LEMMA RespondType ==
  ASSUME HttpTypeOK, UNCHANGED notified,
         NEW code \in {200, 201, 202, 204, 400, 404, 500, 503},
         Respond(code)
  PROVE  HttpTypeOK' /\ prior' \in SUBSET Handlers
  BY DEF Respond, HttpTypeOK, HttpIdle, TypePcs, InstPcs, PutPcs

\* The state in which the mediator starts is well typed.
LEMMA InitType == Init => TypeOK
  BY BoundsAssumption
  DEF Init, TypeOK, SdlTypeOK, HttpTypeOK, DelTypeOK, RmrTypeOK, HttpIdle,
      NoReply, DelIdle, RmrWait, NotNotified, TypePcs, InstPcs, PutPcs,
      AckPcs, QueryPcs

\* Taking a request whose parameters passed the OpenAPI checks keeps every
\* type.
LEMMA BeginType ==
  ASSUME TypeOK, NEW op \in Ops, NEW pc \in {"LT_list"} \cup TypePcs \cup InstPcs,
         NEW t \in PolicyTypes \cup {None}, NEW i \in Instances \cup {None},
         NEW arg \in Schemas \cup Bodies \cup {None},
         pc \in TypePcs \cup InstPcs => t \in PolicyTypes,
         pc \in InstPcs => i \in Instances,
         pc \in {"CT_get", "CT_set"} => arg \in Schemas,
         pc \in PutPcs => arg \in Bodies,
         Begin(op, pc, t, i, arg)
  PROVE  TypeOK'
<1> USE DEF TypeOK, Begin
<1>1. HttpTypeOK'
  <2>1. http' = [pc |-> pc, op |-> op, t |-> t, i |-> i, arg |-> arg,
                 keys |-> {}, kind |-> "none"]
    BY DEF HttpIdle
  <2>2. /\ reply' \in [op : Ops \cup {"none"},
                       code : {0, 200, 201, 202, 204, 400, 404, 500, 503}]
        /\ notified' = notified
    BY DEF NoReply
  <2> QED
    BY <2>1, <2>2 DEF HttpTypeOK
<1>2. prior' \in SUBSET Handlers
  BY DEF Recorded
<1>3. SdlTypeOK' /\ DelTypeOK' /\ RmrTypeOK' /\ UNCHANGED <<crashes, faults>>
  BY DEF sdl, bounds, SdlTypeOK, DelTypeOK, RmrTypeOK
<1> QED
  BY <1>1, <1>2, <1>3

\* The arrival of a request changes only the web server's state, and that
\* only when the server is idle (run.py 40-43).
LEMMA RequestSame ==
  ASSUME Request
  PROVE  UNCHANGED <<sdl, notified, del, rmr, bounds>> /\ http.pc = "idle"
<1>1. \A op, pc, t, i, arg : Begin(op, pc, t, i, arg) =>
        UNCHANGED <<sdl, notified, del, rmr, bounds>> /\ http.pc = "idle"
  BY DEF Begin
<1>2. CreateTypeMismatch =>
        UNCHANGED <<sdl, notified, del, rmr, bounds>> /\ http.pc = "idle"
  BY DEF CreateTypeMismatch
<1> QED
  BY <1>1, <1>2
  DEF Request, get_all_policy_types, create_policy_type, get_policy_type,
      delete_policy_type, get_all_instances_for_type, get_policy_instance,
      get_policy_instance_status, create_or_replace_policy_instance,
      delete_policy_instance

\* The arrival of any request keeps every type.
LEMMA RequestType == TypeOK /\ Request => TypeOK'
<1> SUFFICES ASSUME TypeOK, Request PROVE TypeOK'
  OBVIOUS
<1> USE DEF Ops, TypePcs, InstPcs, PutPcs
<1>1. CASE CreateTypeMismatch
  BY <1>1 DEF CreateTypeMismatch, TypeOK, SdlTypeOK, HttpTypeOK, DelTypeOK,
              RmrTypeOK, sdl, bounds
<1>2. CASE get_all_policy_types
  BY <1>2, BeginType DEF get_all_policy_types
<1>3. ASSUME NEW t \in PolicyTypes, NEW s \in Schemas, create_policy_type(t, s)
      PROVE  TypeOK'
  BY <1>3, BeginType DEF create_policy_type
<1>4. ASSUME NEW t \in PolicyTypes,
             \/ get_policy_type(t) \/ delete_policy_type(t)
             \/ get_all_instances_for_type(t)
      PROVE  TypeOK'
  BY <1>4, BeginType
  DEF get_policy_type, delete_policy_type, get_all_instances_for_type
<1>5. ASSUME NEW t \in PolicyTypes, NEW i \in Instances,
             \/ get_policy_instance(t, i) \/ get_policy_instance_status(t, i)
             \/ delete_policy_instance(t, i)
      PROVE  TypeOK'
  BY <1>5, BeginType
  DEF get_policy_instance, get_policy_instance_status, delete_policy_instance
<1>6. ASSUME NEW t \in PolicyTypes, NEW i \in Instances, NEW b \in Bodies,
             create_or_replace_policy_instance(t, i, b)
      PROVE  TypeOK'
  BY <1>6, BeginType DEF create_or_replace_policy_instance
<1> QED
  BY <1>1, <1>2, <1>3, <1>4, <1>5, <1>6 DEF Request

\* _type_is_valid and _instance_is_valid keep every type (data.py 83-97).
LEMMA ChecksType == TypeOK /\ Checks => TypeOK'
<1> SUFFICES ASSUME TypeOK, Checks PROVE TypeOK'
  OBVIOUS
<1> USE DEF TypeOK
<1>1. UNCHANGED <<sdl, notified, del, rmr, bounds>>
  BY DEF Checks, TypeIsValid, InstanceIsValid, Reads
<1>2. \/ Respond(404)
      \/ \E pc \in TypePcs \cup InstPcs : Follows(pc) /\ Goto(pc)
  BY DEF Checks, TypeIsValid, InstanceIsValid, Reads, Require, Follows,
         TypePcs, InstPcs, PutPcs
<1>3. HttpTypeOK' /\ prior' \in SUBSET Handlers
  BY <1>1, <1>2, GotoType, RespondType
<1>4. SdlTypeOK' /\ DelTypeOK' /\ RmrTypeOK' /\ UNCHANGED <<crashes, faults>>
  BY <1>1 DEF sdl, bounds, SdlTypeOK, DelTypeOK, RmrTypeOK
<1> QED
  BY <1>3, <1>4

\* The steps of a handler that only read: they go on, or answer.
LEMMA ReadType ==
  ASSUME TypeOK, UNCHANGED <<sdl, notified, del, rmr, bounds>>,
         \/ \E pc \in TypePcs \cup InstPcs : Follows(pc) /\ Goto(pc)
         \/ \E code \in {200, 201, 202, 204, 400, 404, 500, 503} : Respond(code)
  PROVE  TypeOK'
<1> USE DEF TypeOK
<1>1. HttpTypeOK' /\ prior' \in SUBSET Handlers
  BY GotoType, RespondType
<1>2. SdlTypeOK' /\ DelTypeOK' /\ RmrTypeOK' /\ UNCHANGED <<crashes, faults>>
  BY DEF sdl, bounds, SdlTypeOK, DelTypeOK, RmrTypeOK
<1> QED
  BY <1>1, <1>2

\* A step of a handler that leaves the other threads alone.
LEMMA WebType ==
  ASSUME TypeOK, SdlTypeOK', HttpTypeOK', prior' \in SUBSET Handlers,
         UNCHANGED <<del, rmr, bounds>>
  PROVE  TypeOK'
BY DEF TypeOK, DelTypeOK, RmrTypeOK, bounds

\* Every SDL call of a request handler keeps every type (controller.py,
\* data.py).
LEMMA HttpStepType == TypeOK /\ HttpStep => TypeOK'
<1> SUFFICES ASSUME TypeOK, HttpStep PROVE TypeOK'
  OBVIOUS
<1> USE DEF Follows, TypePcs, InstPcs, PutPcs
<1>1. CASE Checks
  BY <1>1, ChecksType
<1>2. CASE GetTypeList \/ GetTypeRead \/ GetInstanceList \/ GetInstanceRead
  <2>1. UNCHANGED <<sdl, notified, del, rmr, bounds>>
    BY <1>2 DEF GetTypeList, GetTypeRead, GetInstanceList, GetInstanceRead, Reads
  <2>2. Respond(200) \/ Respond(204)
    BY <1>2 DEF GetTypeList, GetTypeRead, GetInstanceList, GetInstanceRead
  <2> QED
    BY <2>1, <2>2, ReadType
<1>3. CASE \/ CreateTypeGet \/ DeleteTypeList \/ GetStatusMetadata
           \/ PutSchema \/ DeleteMetadata
  <2> USE DEF CreateTypeGet, DeleteTypeList, GetStatusMetadata, PutSchema,
              DeleteMetadata, Reads, Require
  <2>1. UNCHANGED <<sdl, notified, del, rmr, bounds>>
    BY <1>3
  <2>2. \/ \E pc \in TypePcs \cup InstPcs : Follows(pc) /\ Goto(pc)
        \/ \E code \in {200, 201, 202, 204, 400, 404, 500, 503} : Respond(code)
    BY <1>3
  <2> QED
    BY <2>1, <2>2, ReadType
<1>4. CASE CreateTypeSet
  <2>1. SdlTypeOK' /\ UNCHANGED <<notified, del, rmr, bounds>>
    BY <1>4 DEF CreateTypeSet, Writes, TypeOK, SdlTypeOK, HttpTypeOK, Key, Keys
  <2>2. HttpTypeOK' /\ prior' \in SUBSET Handlers
    BY <1>4, <2>1, RespondType DEF CreateTypeSet, Writes, TypeOK
  <2> QED
    BY <2>1, <2>2, WebType
<1>5. CASE DeleteTypeDelete
  <2>1. SdlTypeOK' /\ UNCHANGED <<notified, del, rmr, bounds>>
    BY <1>5 DEF DeleteTypeDelete, Writes, TypeOK, SdlTypeOK, HttpTypeOK, Key, Keys
  <2>2. HttpTypeOK' /\ prior' \in SUBSET Handlers
    BY <1>5, <2>1, RespondType DEF DeleteTypeDelete, Writes, TypeOK
  <2> QED
    BY <2>1, <2>2, WebType
<1>6. CASE GetStatusRead
  BY <1>6, ReadType DEF GetStatusRead, Reads
<1>7. CASE PutGet
  <2>1. UNCHANGED <<sdl, notified, del, rmr, bounds, reply, prior>>
    BY <1>7, Zenon DEF PutGet, Reads
  <2>2. HttpTypeOK'
    <3>1. Follows("PI_set") /\ Follows("PI_keys")
      BY <1>7 DEF PutGet, Reads
    <3>2. \/ http' = [http EXCEPT !.pc = "PI_set", !.kind = "CREATE"]
          \/ http' = [http EXCEPT !.pc = "PI_keys", !.kind = "UPDATE"]
      BY <1>7 DEF PutGet
    <3>3. HttpTypeOK /\ UNCHANGED <<reply, notified>>
      BY <2>1 DEF TypeOK
    <3>4. CASE http' = [http EXCEPT !.pc = "PI_set", !.kind = "CREATE"]
      BY <3>1, <3>3, <3>4, PutStepType, Zenon
    <3>5. CASE http' = [http EXCEPT !.pc = "PI_keys", !.kind = "UPDATE"]
      BY <3>1, <3>3, <3>5, PutStepType, Zenon
    <3> QED
      BY <3>2, <3>4, <3>5
  <2> QED
    BY <2>1, <2>2, WebType DEF TypeOK, SdlTypeOK, sdl
<1>8. CASE PutFindHandlers
  <2>1. UNCHANGED <<sdl, notified, del, rmr, bounds, reply, prior>>
    BY <1>8 DEF PutFindHandlers, Reads
  <2>2. HttpTypeOK'
    <3>1. Follows("PI_set") /\ Follows("PI_clear")
      BY <1>8 DEF PutFindHandlers, Reads
    <3>2. Recorded(Key) \in SUBSET Handlers
      BY DEF Recorded
    <3>3. \E pc \in {"PI_set", "PI_clear"} :
            http' = [http EXCEPT !.keys = Recorded(Key), !.pc = pc]
      BY <1>8 DEF PutFindHandlers
    <3> QED
      BY <2>1, <3>1, <3>2, <3>3, PutStepType DEF TypeOK
  <2> QED
    BY <2>1, <2>2, WebType DEF TypeOK, SdlTypeOK, sdl
<1>9. CASE PutClearHandler
  <2>1. SdlTypeOK' /\ UNCHANGED <<notified, del, rmr, bounds, reply, prior>>
    BY <1>9 DEF PutClearHandler, Writes, TypeOK, SdlTypeOK, HttpTypeOK, Key, Keys
  <2>2. HttpTypeOK'
    <3>1. Follows("PI_set") /\ Follows("PI_clear")
      BY <1>9 DEF PutClearHandler, Writes
    <3>2. PICK h \in http.keys :
            http' = [http EXCEPT
                       !.keys = @ \ {h},
                       !.pc = IF http.keys = {h} THEN "PI_set" ELSE "PI_clear"]
      BY <1>9 DEF PutClearHandler
    <3>3. http.keys \ {h} \in SUBSET Handlers
      BY DEF TypeOK, HttpTypeOK
    <3>4. \E pc \in {"PI_set", "PI_clear"} :
            http' = [http EXCEPT !.keys = http.keys \ {h}, !.pc = pc]
      BY <3>2
    <3>5. HttpTypeOK /\ UNCHANGED <<reply, notified>>
      BY <2>1 DEF TypeOK
    <3>6. http.kind \in {"none", "CREATE", "UPDATE"}
      BY DEF TypeOK, HttpTypeOK
    <3> QED
      BY <3>1, <3>3, <3>4, <3>5, <3>6, PutStepType, Zenon
  <2> QED
    BY <2>1, <2>2, WebType DEF TypeOK
<1>10. CASE PutSet
  <2>1. SdlTypeOK' /\ UNCHANGED <<notified, del, rmr, bounds>>
    BY <1>10 DEF PutSet, Writes, TypeOK, SdlTypeOK, HttpTypeOK, Key, Keys
  <2>2. HttpTypeOK' /\ prior' \in SUBSET Handlers
    BY <1>10, <2>1, GotoType DEF PutSet, Writes, TypeOK
  <2> QED
    BY <2>1, <2>2, WebType
<1>11. CASE PutMeta
  <2>1. SdlTypeOK' /\ UNCHANGED <<notified, del, rmr, bounds>>
    BY <1>11 DEF PutMeta, Writes, TypeOK, SdlTypeOK, HttpTypeOK, Key, Keys
  <2>2. HttpTypeOK' /\ prior' \in SUBSET Handlers
    BY <1>11, <2>1, GotoType DEF PutMeta, Writes, TypeOK
  <2> QED
    BY <2>1, <2>2, WebType
<1>12. CASE PutQueue
  <2>1. SdlTypeOK' /\ UNCHANGED <<del, rmr, bounds>> /\ prior' \in SUBSET Handlers
    BY <1>12 DEF PutQueue, Queues, Respond, TypeOK, SdlTypeOK, sdl
  <2>2. HttpTypeOK'
    BY <1>12 DEF PutQueue, Queues, Respond, TypeOK, HttpTypeOK, HttpIdle, Key, Keys
  <2> QED
    BY <2>1, <2>2, WebType
<1>13. CASE DeleteMark
  <2>1. SdlTypeOK' /\ UNCHANGED <<notified, del, rmr, bounds>>
    BY <1>13 DEF DeleteMark, Writes, TypeOK, SdlTypeOK, HttpTypeOK, Key, Keys
  <2>2. HttpTypeOK' /\ prior' \in SUBSET Handlers
    BY <1>13, <2>1, GotoType DEF DeleteMark, Writes, TypeOK
  <2> QED
    BY <2>1, <2>2, WebType
<1>14. CASE DeleteSpawn
  <2>1. HttpTypeOK' /\ prior' \in SUBSET Handlers
    BY <1>14, GotoType DEF DeleteSpawn, TypeOK
  <2>2. DelTypeOK'
    BY <1>14 DEF DeleteSpawn, TypeOK, DelTypeOK, HttpTypeOK, Key, Keys, DelPcs
  <2>3. SdlTypeOK' /\ RmrTypeOK' /\ UNCHANGED <<crashes, faults>>
    BY <1>14 DEF DeleteSpawn, TypeOK, SdlTypeOK, RmrTypeOK, sdl, bounds
  <2> QED
    BY <2>1, <2>2, <2>3 DEF TypeOK
<1>15. CASE DeleteQueue
  <2>1. SdlTypeOK' /\ UNCHANGED <<del, rmr, bounds>> /\ prior' \in SUBSET Handlers
    BY <1>15 DEF DeleteQueue, Queues, Respond, TypeOK, SdlTypeOK, sdl
  <2>2. HttpTypeOK'
    BY <1>15 DEF DeleteQueue, Queues, Respond, TypeOK, HttpTypeOK, HttpIdle, Key, Keys
  <2> QED
    BY <2>1, <2>2, WebType
<1> QED
  BY <1>1, <1>2, <1>3, <1>4, <1>5, <1>6, <1>7, <1>8, <1>9, <1>10, <1>11,
     <1>12, <1>13, <1>14, <1>15
  DEF HttpStep

\* Every step of a delete thread keeps every type (data.py 138-154).
LEMMA DeleterType ==
  ASSUME TypeOK, NEW d \in Deleters, DeleterStep(d)
  PROVE  TypeOK'
<1> USE DEF TypeOK, DelAt
<1>1. UNCHANGED <<web, rmr, prior, bounds>>
  BY DEF DeleterStep, DelType, DelInst, DelWake, DelClear, DelInstance,
         DelMetadata
<1>2. HttpTypeOK' /\ RmrTypeOK' /\ UNCHANGED <<prior, crashes, faults>>
  BY <1>1 DEF web, bounds, HttpTypeOK, RmrTypeOK
<1>3. DelTypeOK'
  <2> USE DEF DelTypeOK, DelIdle, DelPcs, DelRequire, DelExit
  <2>1. CASE DelType(d) \/ DelInst(d)
    <3>1. del' = [del EXCEPT ![d] = DelIdle]
          \/ \E to \in {"inst", "sleep"} : del' = [del EXCEPT ![d].pc = to]
      BY <2>1, Zenon DEF DelType, DelInst
    <3>2. del[d].key \in Keys
      BY <2>1 DEF DelType, DelInst
    <3>3. CASE del' = [del EXCEPT ![d] = DelIdle]
      BY <3>3
    <3>4. CASE \E to \in {"inst", "sleep"} : del' = [del EXCEPT ![d].pc = to]
      BY <3>2, <3>4
    <3> QED
      BY <3>1, <3>3, <3>4
  <2>2. CASE DelWake(d)
    <3>1. PICK found \in SUBSET Handlers, pc \in {"dinst", "clear"} :
            del' = [del EXCEPT ![d].keys = found, ![d].pc = pc]
      BY <2>2, Zenon DEF DelWake, Recorded
    <3>2. \A e \in Deleters : e # d => del'[e] = del[e]
      BY <3>1
    <3>3. del'[d] = [pc |-> pc, key |-> del[d].key, keys |-> found]
      BY <3>1
    <3>4. del' = [e \in Deleters |-> del'[e]]
      BY <3>1
    <3>5. del[d].key \in Keys
      BY <2>2 DEF DelWake
    <3>6. /\ del'[d] \in [pc : DelPcs \cup {"idle"}, key : Keys \cup {None},
                          keys : SUBSET Handlers]
          /\ del'[d].key \in Keys
      BY <3>3, <3>5
    <3> QED
      BY <3>2, <3>4, <3>6
  <2>3. CASE DelClear(d)
    <3>1. PICK h \in del[d].keys :
            del' = [del EXCEPT ![d] =
                      [pc |-> IF @.keys = {h} THEN "dinst" ELSE "clear",
                       key |-> @.key, keys |-> @.keys \ {h}]]
      BY <2>3 DEF DelClear
    <3>2. \A e \in Deleters : e # d => del'[e] = del[e]
      BY <3>1
    <3>3. del'[d] = [pc |-> IF del[d].keys = {h} THEN "dinst" ELSE "clear",
                     key |-> del[d].key, keys |-> del[d].keys \ {h}]
      BY <3>1
    <3>4. del' = [e \in Deleters |-> del'[e]]
      BY <3>1
    <3>5. del[d].key \in Keys
      BY <2>3 DEF DelClear
    <3>6. /\ del'[d] \in [pc : DelPcs \cup {"idle"}, key : Keys \cup {None},
                          keys : SUBSET Handlers]
          /\ del'[d].key \in Keys
      BY <3>3, <3>5
    <3> QED
      BY <3>2, <3>4, <3>6
  <2>4. CASE DelInstance(d) \/ DelMetadata(d)
    BY <2>4 DEF DelInstance, DelMetadata
  <2> QED
    BY <2>1, <2>2, <2>3, <2>4 DEF DeleterStep
<1>4. SdlTypeOK'
  <2> USE DEF DelTypeOK, SdlTypeOK
  <2>1. CASE DelType(d) \/ DelInst(d) \/ DelWake(d)
    BY <2>1 DEF DelType, DelInst, DelWake, sdl
  <2>2. CASE DelClear(d)
    BY <2>2 DEF DelClear
  <2>3. CASE DelInstance(d) \/ DelMetadata(d)
    BY <2>3 DEF DelInstance, DelMetadata
  <2> QED
    BY <2>1, <2>2, <2>3 DEF DeleterStep
<1> QED
  BY <1>2, <1>3, <1>4

\* Receiving and handling a policy message keeps every type (a1rmr.py 201-235).
LEMMA RmrType == TypeOK /\ (Receive \/ RmrStep) => TypeOK'
<1> SUFFICES ASSUME TypeOK, Receive \/ RmrStep PROVE TypeOK'
  OBVIOUS
<1> USE DEF TypeOK, RmrAt
<1>1. UNCHANGED <<types, inst, meta, web, del, bounds>>
  BY DEF Receive, ReceiveQuery, ReceiveResponse, RmrStep, RmrTypeIsValid,
         AckInstanceIsValid, AckSet, QueryList, QueryNext,
         QueryInstanceIsValid, QueryGet
<1>2. HttpTypeOK' /\ DelTypeOK' /\ UNCHANGED <<crashes, faults>>
  BY <1>1 DEF web, bounds, HttpTypeOK, DelTypeOK
<1>3. SdlTypeOK' /\ prior' \in SUBSET Handlers
  <2>1. CASE AckSet
    BY <1>1, <2>1 DEF AckSet, SdlTypeOK, RmrTypeOK, RmrKey, Keys, AckPcs
  <2>2. CASE ~AckSet
    BY <1>1, <2>2
    DEF SdlTypeOK, Receive, ReceiveQuery, ReceiveResponse, RmrStep,
        RmrTypeIsValid, AckInstanceIsValid, QueryList, QueryNext,
        QueryInstanceIsValid, QueryGet
  <2> QED
    BY <2>1, <2>2
<1>4. RmrTypeOK'
  <2> USE DEF RmrTypeOK, RmrWait, AckPcs, QueryPcs
  <2>1. CASE \E t \in PolicyTypes : ReceiveQuery(t)
    BY <2>1 DEF ReceiveQuery
  <2>2. CASE \E t \in PolicyTypes, i \in Instances, h \in Handlers,
              st \in Statuses : ReceiveResponse(t, i, h, st)
    <3>1. PICK t \in PolicyTypes, i \in Instances, h \in Handlers,
               st \in Statuses : ReceiveResponse(t, i, h, st)
      BY <2>2
    <3>2. rmr' = [pc |-> "A_type", t |-> t, i |-> i, h |-> h, st |-> st,
                  todo |-> {}]
      BY <3>1 DEF ReceiveResponse
    <3> QED
      BY <3>2
  <2>3. CASE RmrTypeIsValid("A_type", "A_itype")
    BY <2>3 DEF RmrTypeIsValid, RmrRequire
  <2>4. CASE RmrTypeIsValid("A_itype", "A_inst")
    BY <2>4 DEF RmrTypeIsValid, RmrRequire
  <2>5. CASE RmrTypeIsValid("Q_type", "Q_list")
    BY <2>5 DEF RmrTypeIsValid, RmrRequire
  <2>6. CASE AckInstanceIsValid
    BY <2>6 DEF AckInstanceIsValid, RmrRequire
  <2>7. CASE AckSet
    BY <2>7 DEF AckSet
  <2>8. CASE QueryList
    BY <2>8 DEF QueryList
  <2>9. CASE QueryNext
    <3>1. CASE rmr' = RmrWait
      BY <3>1
    <3>2. CASE rmr' # RmrWait
      <4>1. PICK i \in rmr.todo :
              rmr' = [rmr EXCEPT !.i = i, !.todo = @ \ {i}, !.pc = "Q_inst"]
        BY <2>9, <3>2 DEF QueryNext
      <4>2. rmr = [pc |-> rmr.pc, t |-> rmr.t, i |-> rmr.i, h |-> rmr.h,
                   st |-> rmr.st, todo |-> rmr.todo]
        OBVIOUS
      <4>3. rmr' = [pc |-> "Q_inst", t |-> rmr.t, i |-> i, h |-> rmr.h,
                    st |-> rmr.st, todo |-> rmr.todo \ {i}]
        BY <4>1, <4>2
      <4> QED
        BY <2>9, <4>3 DEF QueryNext
    <3> QED
      BY <3>1, <3>2
  <2>10. CASE QueryInstanceIsValid
    BY <2>10 DEF QueryInstanceIsValid, RmrRequire
  <2>11. CASE QueryGet
    BY <2>11 DEF QueryGet
  <2> QED
    BY <2>1, <2>2, <2>3, <2>4, <2>5, <2>6, <2>7, <2>8, <2>9, <2>10, <2>11
    DEF Receive, RmrStep
<1> QED
  BY <1>2, <1>3, <1>4

\* A crash or an SDL error keeps every type.
LEMMA FailureType == TypeOK /\ Failure => TypeOK'
<1> SUFFICES ASSUME TypeOK, Failure PROVE TypeOK'
  OBVIOUS
<1> USE BoundsAssumption DEF TypeOK, Fault
<1>1. crashes' \in 0..MaxCrashes /\ faults' \in 0..MaxFaults
  BY DEF Failure, HttpSdlError, RmrSdlError, DeleterSdlError, Crash
<1>2. SdlTypeOK'
  BY DEF Failure, HttpSdlError, RmrSdlError, DeleterSdlError, Crash, sdl,
         SdlTypeOK
<1>3. CASE HttpSdlError
  <2>1. HttpTypeOK' /\ prior' \in SUBSET Handlers
    BY <1>3, RespondType DEF HttpSdlError
  <2> QED
    BY <1>1, <1>2, <1>3, <2>1 DEF HttpSdlError, DelTypeOK, RmrTypeOK
<1>4. CASE RmrSdlError
  <2>1. RmrTypeOK'
    BY <1>4 DEF RmrSdlError, RmrWait, RmrTypeOK, AckPcs, QueryPcs
  <2> QED
    BY <1>1, <1>2, <1>4, <2>1 DEF RmrSdlError, web, HttpTypeOK, DelTypeOK
<1>5. CASE \E d \in Deleters : DeleterSdlError(d)
  <2>1. DelTypeOK'
    BY <1>5 DEF DeleterSdlError, DelExit, DelIdle, DelTypeOK
  <2> QED
    BY <1>1, <1>2, <1>5, <2>1 DEF DeleterSdlError, web, HttpTypeOK, RmrTypeOK
<1>6. CASE Crash
  <2>1. HttpTypeOK' /\ prior' \in SUBSET Handlers
    BY <1>6 DEF Crash, HttpIdle, NoReply, HttpTypeOK, TypePcs, InstPcs, PutPcs
  <2>2. DelTypeOK' /\ RmrTypeOK'
    BY <1>6 DEF Crash, DelIdle, RmrWait, DelTypeOK, RmrTypeOK, AckPcs, QueryPcs
  <2> QED
    BY <1>1, <1>2, <2>1, <2>2
<1> QED
  BY <1>3, <1>4, <1>5, <1>6 DEF Failure

\* Every step keeps every type.
LEMMA NextType == TypeOK /\ [Next]_vars => TypeOK'
<1>1. TypeOK /\ UNCHANGED vars => TypeOK'
  BY DEF vars, sdl, web, bounds, TypeOK, SdlTypeOK, HttpTypeOK, DelTypeOK,
         RmrTypeOK
<1> QED
  BY <1>1, RequestType, HttpStepType, DeleterType, RmrType, FailureType
  DEF Next

\* Every reachable state is well typed, for any number of types, instances,
\* xApps, threads, crashes and SDL errors.
THEOREM TypeCorrect == Spec => []TypeOK
  BY InitType, NextType, PTL DEF Spec

-----------------------------------------------------------------------------
(***************************************************************************)
(* Stored instances conform to their types.  InstancesConform is not       *)
(* inductive: a PUT writes what it validated several SDL calls before, a   *)
(* DELETE of a type relies on a list that it read before.  ChecksHold says *)
(* that these readings are not stale.                                      *)
(***************************************************************************)
ConformInv == TypeOK /\ InstancesConform /\ ChecksHold

\* ConformInv holds in an empty database.
LEMMA ConformInit == Init => ConformInv
  BY InitType
  DEF ConformInv, Init, InstancesConform, ChecksHold, HttpIdle, Keys

\* Types and instances stay and the handler answers, or another thread steps.
LEMMA ConformIdle ==
  ASSUME ConformInv, TypeOK', UNCHANGED <<types, inst>>,
         http' = HttpIdle \/ UNCHANGED http
  PROVE  ConformInv'
  BY DEF ConformInv, InstancesConform, ChecksHold, HttpIdle

\* A new request has checked nothing yet.
LEMMA ConformRequest == ConformInv /\ Request => ConformInv'
<1> SUFFICES ASSUME ConformInv, Request PROVE ConformInv'
  OBVIOUS
<1>1. TypeOK'
  BY RequestType DEF ConformInv
<1>2. UNCHANGED <<types, inst>>
  BY RequestSame DEF sdl
<1>3. \/ UNCHANGED http
      \/ http'.pc \in {"LT_list", "CT_get", "GT_type", "DT_type", "LI_type",
                       "GI_type", "GS_type", "PI_type", "DI_type"}
  <2>1. \A op, pc, t, i, arg : Begin(op, pc, t, i, arg) => http'.pc = pc
    BY DEF Begin, HttpIdle
  <2>2. CASE CreateTypeMismatch \/ get_all_policy_types
    BY <2>1, <2>2 DEF CreateTypeMismatch, get_all_policy_types
  <2>3. ASSUME NEW t \in PolicyTypes,
               \/ \E s \in Schemas : create_policy_type(t, s)
               \/ get_policy_type(t) \/ delete_policy_type(t)
               \/ get_all_instances_for_type(t)
        PROVE  http'.pc \in {"CT_get", "GT_type", "DT_type", "LI_type"}
    BY <2>1, <2>3 DEF create_policy_type, get_policy_type, delete_policy_type,
                      get_all_instances_for_type
  <2>4. ASSUME NEW t \in PolicyTypes, NEW i \in Instances,
               \/ get_policy_instance(t, i)
               \/ get_policy_instance_status(t, i)
               \/ \E b \in Bodies : create_or_replace_policy_instance(t, i, b)
               \/ delete_policy_instance(t, i)
        PROVE  http'.pc \in {"GI_type", "GS_type", "PI_type", "DI_type"}
    BY <2>1, <2>4
    DEF get_policy_instance, get_policy_instance_status,
        create_or_replace_policy_instance, delete_policy_instance
  <2> QED
    BY <2>2, <2>3, <2>4 DEF Request
<1> QED
  BY <1>1, <1>2, <1>3 DEF ConformInv, InstancesConform, ChecksHold

\* Every SDL call of a request handler preserves ConformInv: the checks it
\* rests on were made in the same request, and requests are served one at a
\* time (run.py 40-43).
LEMMA ConformHttpStep == ConformInv /\ HttpStep => ConformInv'
<1> SUFFICES ASSUME ConformInv, HttpStep PROVE ConformInv'
  OBVIOUS
<1>0. TypeOK'
  BY HttpStepType DEF ConformInv
<1> USE DEF Reads, Writes, Require, sdl
<1>1. \A pc : Goto(pc) => /\ http'.pc = pc /\ http'.t = http.t
                         /\ http'.arg = http.arg
  BY DEF Goto, ConformInv, TypeOK, HttpTypeOK
<1>2. CASE Checks
  <2>1. UNCHANGED <<types, inst>>
    BY <1>2 DEF Checks, TypeIsValid, InstanceIsValid
  <2>2. \/ Respond(404)
        \/ types[http.t] # None /\ http.pc = "DT_type" /\ Goto("DT_list")
        \/ types[http.t] # None /\ http.pc = "PI_type" /\ Goto("PI_schema")
        \/ http.pc = "PI_stype" /\ Goto("PI_get")
        \/ \E pc \in InstPcs \ PutPcs : Goto(pc)
        \/ \E pc \in {"GT_get", "LI_list"} : Goto(pc)
    BY <1>2 DEF Checks, TypeIsValid, InstanceIsValid, InstPcs, PutPcs
  <2>3. InstancesConform'
    BY <2>1 DEF ConformInv, InstancesConform
  <2>4. ChecksHold'
    BY <1>1, <2>1, <2>2
    DEF ConformInv, ChecksHold, InstPcs, PutPcs, Respond, HttpIdle
  <2> QED
    BY <1>0, <2>3, <2>4 DEF ConformInv
<1>3. CASE \/ GetTypeList \/ GetTypeRead \/ GetInstanceList \/ GetInstanceRead
           \/ GetStatusRead \/ PutQueue \/ DeleteQueue
  <2>1. UNCHANGED <<types, inst>> /\ http' = HttpIdle
    BY <1>3 DEF GetTypeList, GetTypeRead, GetInstanceList, GetInstanceRead,
                GetStatusRead, PutQueue, DeleteQueue, Queues, Respond
  <2> QED
    BY <1>0, <2>1, ConformIdle
<1>4. CASE GetStatusMetadata \/ DeleteMetadata \/ DeleteMark \/ DeleteSpawn
  <2>1. UNCHANGED <<types, inst>>
    BY <1>4 DEF GetStatusMetadata, DeleteMetadata, DeleteMark, DeleteSpawn
  <2>2. \/ http' = HttpIdle
        \/ \E pc \in {"GS_stype", "DI_mset", "DI_stype", "DI_queue"} : Goto(pc)
    BY <1>4
    DEF GetStatusMetadata, DeleteMetadata, DeleteMark, DeleteSpawn, Respond
  <2> QED
    BY <1>0, <1>1, <2>1, <2>2, ConformIdle
    DEF ConformInv, InstancesConform, ChecksHold
<1>5. CASE CreateTypeGet
  BY <1>0, <1>1, <1>5, ConformIdle
  DEF CreateTypeGet, Respond, ConformInv, InstancesConform, ChecksHold
<1>6. CASE CreateTypeSet
  <2>1. http.t \in PolicyTypes /\ types[http.t] = None
    BY <1>6 DEF CreateTypeSet, ConformInv, ChecksHold, TypeOK, HttpTypeOK, TypePcs
  <2>2. \A k \in Keys : inst[k] # None => types'[k[1]] = types[k[1]]
    BY <1>6, <2>1
    DEF CreateTypeSet, ConformInv, InstancesConform, TypeOK, SdlTypeOK, Keys
  <2>3. InstancesConform'
    BY <1>6, <2>2 DEF CreateTypeSet, ConformInv, InstancesConform
  <2> QED
    BY <1>0, <1>6, <2>3 DEF CreateTypeSet, Respond, HttpIdle, ConformInv,
                            ChecksHold
<1>7. CASE DeleteTypeList
  BY <1>0, <1>1, <1>7, ConformIdle
  DEF DeleteTypeList, Respond, ConformInv, InstancesConform, ChecksHold
<1>8. CASE DeleteTypeDelete
  <2>1. /\ http.t \in PolicyTypes
        /\ \A i \in Instances : inst[<<http.t, i>>] = None
    BY <1>8
    DEF DeleteTypeDelete, ConformInv, ChecksHold, TypeOK, HttpTypeOK, TypePcs
  <2>2. \A k \in Keys : inst[k] # None => types'[k[1]] = types[k[1]]
    BY <1>8, <2>1 DEF DeleteTypeDelete, ConformInv, TypeOK, SdlTypeOK, Keys
  <2>3. InstancesConform'
    BY <1>8, <2>2 DEF DeleteTypeDelete, ConformInv, InstancesConform
  <2> QED
    BY <1>0, <1>8, <2>3 DEF DeleteTypeDelete, Respond, HttpIdle, ConformInv,
                            ChecksHold
<1>9. CASE PutSchema
  BY <1>0, <1>1, <1>9, ConformIdle
  DEF PutSchema, Respond, ConformInv, InstancesConform, ChecksHold
<1>10. CASE PutGet \/ PutFindHandlers \/ PutClearHandler
  <2>1. UNCHANGED <<types, inst>>
    BY <1>10 DEF PutGet, PutFindHandlers, PutClearHandler
  <2>2. /\ http.pc \in {"PI_get", "PI_keys", "PI_clear"}
        /\ http'.pc \in {"PI_keys", "PI_clear", "PI_set"}
        /\ http'.t = http.t /\ http'.arg = http.arg
    <3>1. DOMAIN http = {"pc", "op", "t", "i", "arg", "keys", "kind"}
      BY DEF ConformInv, TypeOK, HttpTypeOK
    <3>2. CASE PutGet
      BY <3>1, <3>2 DEF PutGet
    <3>3. CASE PutFindHandlers
      BY <3>1, <3>3 DEF PutFindHandlers
    <3>4. CASE PutClearHandler
      BY <3>1, <3>4 DEF PutClearHandler
    <3> QED
      BY <1>10, <3>2, <3>3, <3>4
  <2> QED
    BY <1>0, <2>1, <2>2 DEF ConformInv, InstancesConform, ChecksHold
<1>11. CASE PutSet
  <2>1. /\ Key \in Keys /\ types[Key[1]] # None
        /\ http.arg \in Conforms[types[Key[1]]]
    BY <1>11 DEF PutSet, ConformInv, ChecksHold, TypeOK, HttpTypeOK, InstPcs,
                 PutPcs, Key, Keys
  <2>2. InstancesConform'
    BY <1>11, <2>1
    DEF PutSet, ConformInv, InstancesConform, TypeOK, SdlTypeOK
  <2> QED
    BY <1>0, <1>1, <1>11, <2>2 DEF PutSet, ConformInv, ChecksHold
<1>12. CASE PutMeta
  BY <1>0, <1>1, <1>12 DEF PutMeta, ConformInv, InstancesConform, ChecksHold
<1> QED
  BY <1>2, <1>3, <1>4, <1>5, <1>6, <1>7, <1>8, <1>9, <1>10, <1>11, <1>12
  DEF HttpStep

\* A delete thread removes instances and never a type.
LEMMA ConformDeleter ==
  ASSUME ConformInv, NEW d \in Deleters, DeleterStep(d)
  PROVE  ConformInv'
<1>1. TypeOK' /\ UNCHANGED <<types, http>>
  BY DeleterType DEF ConformInv, DeleterStep, DelType, DelInst, DelWake,
     DelClear, DelInstance, DelMetadata, DelAt, web, sdl
<1>2. \A k \in Keys : inst'[k] \in {None, inst[k]}
  BY DEF DeleterStep, DelType, DelInst, DelWake, DelClear, DelInstance,
         DelMetadata, sdl, ConformInv, TypeOK, SdlTypeOK
<1>3. InstancesConform'
  BY <1>1, <1>2 DEF ConformInv, InstancesConform
<1>4. ChecksHold'
  BY <1>1, <1>2
  DEF ConformInv, ChecksHold, TypeOK, HttpTypeOK, TypePcs, Keys
<1> QED
  BY <1>1, <1>3, <1>4 DEF ConformInv

\* Every step preserves ConformInv.
LEMMA ConformNext == ConformInv /\ [Next]_vars => ConformInv'
<1> SUFFICES ASSUME ConformInv, [Next]_vars PROVE ConformInv'
  OBVIOUS
<1>1. TypeOK'
  BY NextType DEF ConformInv
<1>2. CASE Receive \/ RmrStep \/ Failure \/ UNCHANGED vars
  <2>1. UNCHANGED <<types, inst>> /\ (http' = HttpIdle \/ UNCHANGED http)
    BY <1>2
    DEF Receive, ReceiveQuery, ReceiveResponse, RmrStep, RmrTypeIsValid,
        AckInstanceIsValid, AckSet, QueryList, QueryNext, QueryInstanceIsValid,
        QueryGet, RmrAt, Failure, HttpSdlError, RmrSdlError, DeleterSdlError,
        Crash, Respond, vars, sdl, web
  <2> QED
    BY <1>1, <2>1, ConformIdle
<1> QED
  BY <1>2, ConformRequest, ConformHttpStep, ConformDeleter DEF Next

\* Every stored instance has a type that accepts it, in every behaviour of
\* the mediator with any number of threads, crashes and SDL errors.
THEOREM Conformance == Spec => []InstancesConform
<1>1. ConformInv => InstancesConform
  BY DEF ConformInv
<1> QED
  BY <1>1, ConformInit, ConformNext, PTL DEF Spec

\* No handler acts on a stale reading of a type.
THEOREM NoStaleCheck == Spec => []ChecksHold
<1>1. ConformInv => ChecksHold
  BY DEF ConformInv
<1> QED
  BY <1>1, ConformInit, ConformNext, PTL DEF Spec

-----------------------------------------------------------------------------
(***************************************************************************)
(* The mediator implements the registry: four of its steps are steps of    *)
(* the registry, the others leave types and instances alone.               *)
(***************************************************************************)
LEMMA RegistryStep ==
  ASSUME ConformInv, [Next]_vars
  PROVE  [Registry!Next]_(Registry!vars)
<1> USE DEF Registry!vars, Registry!Next, Registry!Keys, Keys
<1>1. CASE CreateTypeSet
  <2>1. http.t \in PolicyTypes /\ http.arg \in Schemas
    BY <1>1 DEF CreateTypeSet, Writes, ConformInv, TypeOK, HttpTypeOK, TypePcs
  <2>2. Registry!CreateType(http.t, http.arg)
    BY <1>1 DEF CreateTypeSet, Writes, ConformInv, ChecksHold,
                Registry!CreateType
  <2> QED
    BY <2>1, <2>2
<1>2. CASE DeleteTypeDelete
  <2>1. http.t \in PolicyTypes
    BY <1>2 DEF DeleteTypeDelete, Writes, ConformInv, TypeOK, HttpTypeOK, TypePcs
  <2>2. Registry!DeleteType(http.t)
    BY <1>2 DEF DeleteTypeDelete, Writes, ConformInv, ChecksHold,
                Registry!DeleteType
  <2> QED
    BY <2>1, <2>2
<1>3. CASE PutSet
  <2>1. Key \in PolicyTypes \X Instances /\ http.arg \in Bodies
    BY <1>3 DEF PutSet, Writes, ConformInv, TypeOK, HttpTypeOK, InstPcs, PutPcs,
                Key
  <2>2. Registry!PutInstance(Key, http.arg)
    BY <1>3 DEF PutSet, Writes, ConformInv, ChecksHold, Key,
                Registry!PutInstance
  <2> QED
    BY <2>1, <2>2
<1>4. ASSUME NEW d \in Deleters, DelInstance(d)
      PROVE  Registry!Next
  <2>1. del[d].key \in PolicyTypes \X Instances
    BY <1>4 DEF DelInstance, DelAt, ConformInv, TypeOK, DelTypeOK
  <2>2. Registry!RemoveInstance(del[d].key)
    BY <1>4 DEF DelInstance, Registry!RemoveInstance
  <2> QED
    BY <2>1, <2>2
<1>5. CASE Request \/ Receive \/ RmrStep \/ Failure \/ UNCHANGED vars
  <2>1. CASE Request
    BY <2>1, RequestSame DEF sdl
  <2>2. CASE Receive \/ RmrStep
    BY <2>2
    DEF Receive, ReceiveQuery, ReceiveResponse, RmrStep, RmrTypeIsValid,
        AckInstanceIsValid, AckSet, QueryList, QueryNext, QueryInstanceIsValid,
        QueryGet, RmrAt
  <2>3. CASE Failure \/ UNCHANGED vars
    BY <2>3 DEF Failure, HttpSdlError, RmrSdlError, DeleterSdlError, Crash,
                vars, sdl
  <2> QED
    BY <1>5, <2>1, <2>2, <2>3
<1>6. CASE HttpStep
  <2>1. CASE ~(CreateTypeSet \/ DeleteTypeDelete \/ PutSet)
    BY <1>6, <2>1
    DEF HttpStep, Checks, TypeIsValid, InstanceIsValid, GetTypeList,
        CreateTypeGet, GetTypeRead, DeleteTypeList, GetInstanceList,
        GetInstanceRead, GetStatusMetadata, GetStatusRead, PutSchema, PutGet,
        PutFindHandlers, PutClearHandler, PutMeta, PutQueue, DeleteMetadata,
        DeleteMark, DeleteSpawn, DeleteQueue, Queues, Reads, sdl
  <2> QED
    BY <1>1, <1>2, <1>3, <2>1
<1>7. ASSUME NEW d \in Deleters, DeleterStep(d)
      PROVE  [Registry!Next]_(Registry!vars)
  BY <1>4, <1>7 DEF DeleterStep, DelType, DelInst, DelWake, DelClear,
                    DelMetadata, sdl
<1> QED
  BY <1>5, <1>6, <1>7 DEF Next

\* Every behaviour of the mediator is a behaviour of the atomic registry.
THEOREM Refinement == Spec => RegistrySpec
<1>1. Init => Registry!Init
  BY DEF Init, Registry!Init, Registry!Keys, Keys
<1> QED
  BY <1>1, RegistryStep, ConformInit, ConformNext, PTL
  DEF Spec, RegistrySpec, Registry!Spec
=============================================================================
