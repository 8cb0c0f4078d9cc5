------------------------------ MODULE A1Policy ------------------------------
(***************************************************************************)
(* The policy part of the A1 mediator (src/a1): the SDL database as        *)
(* data.py uses it, the REST handlers of controller.py, the threads that   *)
(* delete_policy_instance starts to remove an instance after a time to     *)
(* live, and the policy handlers of the rmr loop of a1rmr.py.              *)
(*                                                                         *)
(* Every step is one SDL call with the local computation up to the next    *)
(* one.  The web server runs one handler at a time (a gevent WSGIServer in *)
(* a process that is not monkey-patched: a handler that waits for SDL does *)
(* not yield to another greenlet), but the rmr thread and the delete       *)
(* threads are threads of the operating system and run between any two of  *)
(* its SDL calls.                                                          *)
(*                                                                         *)
(* Not here: the sender threads and the enrichment information messages of *)
(* the rmr loop, the wire formats, durations (a time to live is an         *)
(* arbitrary delay), timestamps, logging and the Prometheus counters.      *)
(***************************************************************************)
EXTENDS Naturals, FiniteSets

CONSTANTS PolicyTypes, Instances, Handlers,
          Statuses,     \* what an xApp reports about an instance
          Schemas, Bodies, Conforms, None,
          Deleters,     \* slots for _delete_after threads: their number
                        \* bounds how many can run at the same time
          MaxCrashes,   \* bound: crashes of the process
          MaxFaults     \* bound: SDL calls that raise an SDL error

ASSUME ConformsAssumption == Conforms \in [Schemas -> SUBSET Bodies]
ASSUME NoneAssumption ==
  None \notin Schemas \cup Bodies \cup Statuses \cup {"Live", "Deleted"}
ASSUME StatusesAssumption == Statuses \subseteq {"OK", "ERROR", "DELETED"}
ASSUME BoundsAssumption == MaxCrashes \in Nat /\ MaxFaults \in Nat

VARIABLES
  types,      \* SDL a1.policy_type.<t>: the schema of type t, or None
  inst,       \* SDL a1.policy_instance.<t>.<i>: the body, or None
  meta,       \* SDL a1.policy_inst_metadata.<t>.<i>: has_been_deleted, or None
  hdl,        \* SDL a1.policy_handler.<t>.<i>.<h>: the status, or None
  http,       \* the handler the web server is running
  reply,      \* the response to the last request
  del,        \* the _delete_after threads
  rmr,        \* the rmr loop, in the handling of one message
  notified,   \* the last item put on instance_send_queue for an instance
  prior,      \* history: the handlers whose status for the instance being
              \* PUT was recorded before that PUT and not again since
  crashes, faults

sdl == <<types, inst, meta, hdl>>
web == <<http, reply, notified>>
bounds == <<crashes, faults>>
vars == <<sdl, web, del, rmr, prior, bounds>>

Keys == PolicyTypes \X Instances

HttpIdle == [pc |-> "idle", op |-> "none", t |-> None, i |-> None,
             arg |-> None, keys |-> {}, kind |-> "none"]
NoReply == [op |-> "none", code |-> 0]
DelIdle == [pc |-> "idle", key |-> None, keys |-> {}]
RmrWait == [pc |-> "wait", t |-> None, i |-> None, h |-> None,
            st |-> None, todo |-> {}]
NotNotified == [op |-> "none", body |-> None]

\* The process starts on an empty database.
Init ==
  /\ types = [t \in PolicyTypes |-> None]
  /\ inst = [k \in Keys |-> None]
  /\ meta = [k \in Keys |-> None]
  /\ hdl = [k \in Keys |-> [h \in Handlers |-> None]]
  /\ http = HttpIdle /\ reply = NoReply
  /\ del = [d \in Deleters |-> DelIdle]
  /\ rmr = RmrWait
  /\ notified = [k \in Keys |-> NotNotified]
  /\ prior = {}
  /\ crashes = 0 /\ faults = 0

-----------------------------------------------------------------------------
(***************************************************************************)
(* The web server: how a handler starts, goes on and ends.                 *)
(***************************************************************************)

\* The instance the running request is about.
Key == <<http.t, http.i>>

\* SDL.find_and_get of the statuses of an instance.
Recorded(k) == {h \in Handlers : hdl[k][h] # None}

\* A request is routed to its handler, which runs up to its first SDL call.
Begin(op, pc, t, i, arg) ==
  /\ http.pc = "idle"
  /\ http' = [HttpIdle EXCEPT !.pc = pc, !.op = op, !.t = t, !.i = i,
                              !.arg = arg]
  /\ reply' = NoReply
  /\ prior' = IF op = "PI" THEN Recorded(<<t, i>>) ELSE {}
  /\ UNCHANGED <<sdl, notified, del, rmr, bounds>>

Goto(pc) == http' = [http EXCEPT !.pc = pc] /\ UNCHANGED <<reply, prior>>

\* _try_func_return: the handler returns, or the exception it raised is
\* turned into a response code.
Respond(code) ==
  /\ http' = HttpIdle
  /\ reply' = [op |-> http.op, code |-> code]
  /\ prior' = {}

\* The handler goes on, or raises an exception that is answered with code.
Require(ok, to, code) == \/ ok /\ Goto(to)
                         \/ ~ok /\ Respond(code)

\* A step that writes nothing to SDL and starts no thread.
Reads(pc) == http.pc = pc /\ UNCHANGED <<sdl, notified, del, rmr, bounds>>

\* A step that writes to SDL.
Writes(pc) == http.pc = pc /\ UNCHANGED <<notified, del, rmr, bounds>>

\* A step that puts an item on instance_send_queue and answers 202.
Queues(pc, item) ==
  /\ http.pc = pc
  /\ notified' = [notified EXCEPT ![Key] = item]
  /\ Respond(202)
  /\ UNCHANGED <<sdl, del, rmr, bounds>>

-----------------------------------------------------------------------------
(***************************************************************************)
(* data.py: the steps of the handlers.                                     *)
(***************************************************************************)

\* _type_is_valid, as the step `from' of a handler that goes on with `to'.
TypeIsValid(from, to) == Reads(from) /\ Require(types[http.t] # None, to, 404)

\* The second SDL call of _instance_is_valid.
InstanceIsValid(from, to) == Reads(from) /\ Require(inst[Key] # None, to, 404)

\* get_type_list.
GetTypeList == Reads("LT_list") /\ Respond(200)

\* store_policy_type: PolicyTypeIdMismatch, raised before any SDL call.
CreateTypeMismatch ==
  /\ http.pc = "idle"
  /\ reply' = [op |-> "CT", code |-> 400]
  /\ UNCHANGED <<sdl, http, notified, del, rmr, prior, bounds>>

\* Bug: a type that exists is overwritten.
CreateTypeGet_NoExistsCheck == Reads("CT_get") /\ Goto("CT_set")

\* store_policy_type: PolicyTypeAlreadyExists, or go on ...
CreateTypeGet == Reads("CT_get") /\ Require(types[http.t] = None, "CT_set", 400)

\* ... and write the type.
CreateTypeSet ==
  /\ Writes("CT_set")
  /\ types' = [types EXCEPT ![http.t] = http.arg]
  /\ Respond(201)
  /\ UNCHANGED <<inst, meta, hdl>>

\* get_policy_type: read the type that _type_is_valid found.
GetTypeRead == Reads("GT_get") /\ Respond(200)

\* Bug: a type is deleted under its instances.
DeleteTypeList_NoEmptyCheck == Reads("DT_list") /\ Goto("DT_del")

\* delete_policy_type: list the instances; CantDeleteNonEmptyType, or go on ...
DeleteTypeList ==
  /\ Reads("DT_list")
  /\ Require(\A i \in Instances : inst[<<http.t, i>>] = None, "DT_del", 400)

\* ... and delete the type.
DeleteTypeDelete ==
  /\ Writes("DT_del")
  /\ types' = [types EXCEPT ![http.t] = None]
  /\ Respond(204)
  /\ UNCHANGED <<inst, meta, hdl>>

\* get_instance_list.
GetInstanceList == Reads("LI_list") /\ Respond(200)

\* get_policy_instance: read the instance that _instance_is_valid found.  If
\* a delete thread has removed it in between the handler returns None, which
\* connexion answers with 204 and no body.
GetInstanceRead ==
  Reads("GI_get") /\ Respond(IF inst[Key] # None THEN 200 ELSE 204)

\* get_policy_instance_status: read the metadata.  None has no items to
\* assign to: the TypeError is not caught and the request ends as a 500.
GetStatusMetadata ==
  Reads("GS_mget") /\ Require(meta[Key] # None, "GS_stype", 500)

\* Bug: the dictionary with the computed status is saved as the metadata.
GetStatusRead_Saves ==
  /\ Writes("GS_statuses")
  /\ meta' = [meta EXCEPT ![Key] = "IN EFFECT"]
  /\ Respond(200)
  /\ UNCHANGED <<types, inst, hdl>>

\* get_policy_instance_status: read the statuses, which make up the body of
\* the response and nothing else.
GetStatusRead == Reads("GS_statuses") /\ Respond(200)

\* Bug: the body is not validated.
PutSchema_NoValidation == Reads("PI_schema") /\ Goto("PI_stype")

\* put_instance_handler: read the schema and validate the body against it.
\* No body conforms to a create_schema that is not a JSON schema: validate
\* raises a SchemaError, which is not caught and ends the request as a 500.
PutSchema ==
  /\ Reads("PI_schema")
  /\ \/ Require(http.arg \in Conforms[types[http.t]], "PI_stype", 400)
     \/ Conforms[types[http.t]] = {} /\ Respond(500)

\* Bug: an update leaves the statuses of the overwritten instance.
PutGet_NoReset ==
  /\ Reads("PI_get")
  /\ http' = [http EXCEPT !.pc = "PI_set", !.kind = "UPDATE"]
  /\ UNCHANGED <<reply, prior>>

\* store_policy_instance: is this a CREATE or an UPDATE?
PutGet ==
  /\ Reads("PI_get")
  /\ http' = IF inst[Key] = None
             THEN [http EXCEPT !.pc = "PI_set", !.kind = "CREATE"]
             ELSE [http EXCEPT !.pc = "PI_keys", !.kind = "UPDATE"]
  /\ UNCHANGED <<reply, prior>>

\* _clear_handlers of an update: find the statuses ...
PutFindHandlers ==
  /\ Reads("PI_keys")
  /\ http' = [http EXCEPT
                !.keys = Recorded(Key),
                !.pc = IF Recorded(Key) = {} THEN "PI_set" ELSE "PI_clear"]
  /\ UNCHANGED <<reply, prior>>

\* Bug: the statuses are searched again after each deletion, for as long as
\* xApps report new ones.
PutClearHandler_Rescan ==
  /\ Writes("PI_clear")
  /\ \E h \in http.keys : hdl' = [hdl EXCEPT ![Key][h] = None]
  /\ Goto("PI_keys")
  /\ UNCHANGED <<types, inst, meta>>

\* ... and delete them one by one.
PutClearHandler ==
  /\ Writes("PI_clear")
  /\ \E h \in http.keys :
       /\ hdl' = [hdl EXCEPT ![Key][h] = None]
       /\ http' = [http EXCEPT
                     !.keys = @ \ {h},
                     !.pc = IF http.keys = {h} THEN "PI_set" ELSE "PI_clear"]
  /\ UNCHANGED <<types, inst, meta, reply, prior>>

\* store_policy_instance: write the instance ...
PutSet ==
  /\ Writes("PI_set")
  /\ inst' = [inst EXCEPT ![Key] = http.arg]
  /\ Goto("PI_meta")
  /\ UNCHANGED <<types, meta, hdl>>

\* ... and its metadata, not deleted.
PutMeta ==
  /\ Writes("PI_meta")
  /\ meta' = [meta EXCEPT ![Key] = "Live"]
  /\ Goto("PI_queue")
  /\ UNCHANGED <<types, inst, hdl>>

\* Bug: an update is not sent to the xApps.
PutQueue_CreateOnly ==
  IF http.kind = "CREATE"
  THEN Queues("PI_queue", [op |-> http.kind, body |-> http.arg])
  ELSE Reads("PI_queue") /\ Respond(202)

\* put_instance_handler: queue the send, answer 202.
PutQueue == Queues("PI_queue", [op |-> http.kind, body |-> http.arg])

\* delete_policy_instance: read the metadata; None has no "created_at".
DeleteMetadata ==
  Reads("DI_mget") /\ Require(meta[Key] # None, "DI_mset", 500)

\* Bug: an instance that is marked already is taken to have its thread.
DeleteMark_Once ==
  /\ Writes("DI_mset")
  /\ meta' = [meta EXCEPT ![Key] = "Deleted"]
  /\ Goto(IF meta[Key] = "Deleted" THEN "DI_queue" ELSE "DI_stype")
  /\ UNCHANGED <<types, inst, hdl>>

\* delete_policy_instance: set has_been_deleted.
DeleteMark ==
  /\ Writes("DI_mset")
  /\ meta' = [meta EXCEPT ![Key] = "Deleted"]
  /\ Goto("DI_stype")
  /\ UNCHANGED <<types, inst, hdl>>

\* Bug: no thread is started for an instance that no handler acknowledged.
DeleteSpawn_NoThread ==
  Reads("DI_statuses") /\ Recorded(Key) = {} /\ Goto("DI_queue")

\* delete_policy_instance: read the statuses, which choose the time to live,
\* and start the _delete_after thread.
DeleteSpawn ==
  /\ http.pc = "DI_statuses"
  /\ \E d \in Deleters :
       /\ del[d].pc = "idle"
       /\ del' = [del EXCEPT ![d] = [pc |-> "type", key |-> Key, keys |-> {}]]
  /\ Goto("DI_queue")
  /\ UNCHANGED <<sdl, notified, rmr, bounds>>

\* delete_instance_handler: queue the send, answer 202.
DeleteQueue == Queues("DI_queue", [op |-> "DELETE", body |-> None])

-----------------------------------------------------------------------------
\* The operations of controller.py, each up to its first SDL call.
get_all_policy_types == Begin("LT", "LT_list", None, None, None)
create_policy_type(t, s) == Begin("CT", "CT_get", t, None, s)
get_policy_type(t) == Begin("GT", "GT_type", t, None, None)
delete_policy_type(t) == Begin("DT", "DT_type", t, None, None)
get_all_instances_for_type(t) == Begin("LI", "LI_type", t, None, None)
get_policy_instance(t, i) == Begin("GI", "GI_type", t, i, None)
get_policy_instance_status(t, i) == Begin("GS", "GS_type", t, i, None)
create_or_replace_policy_instance(t, i, b) == Begin("PI", "PI_type", t, i, b)

\* Bound: a DELETE is accepted only while a slot for its thread is free.
delete_policy_instance(t, i) ==
  /\ \E d \in Deleters : del[d].pc = "idle"
  /\ Begin("DI", "DI_type", t, i, None)

Request ==
  \/ get_all_policy_types
  \/ CreateTypeMismatch
  \/ \E t \in PolicyTypes :
       \/ \E s \in Schemas : create_policy_type(t, s)
       \/ get_policy_type(t)
       \/ delete_policy_type(t)
       \/ get_all_instances_for_type(t)
       \/ \E i \in Instances :
            \/ get_policy_instance(t, i)
            \/ get_policy_instance_status(t, i)
            \/ \E b \in Bodies : create_or_replace_policy_instance(t, i, b)
            \/ delete_policy_instance(t, i)

\* The validity checks in the order in which the functions of data.py call
\* them: one for a get, a second one in store_policy_instance, three in
\* delete_policy_instance and in get_policy_instance_status.
Checks ==
  \/ TypeIsValid("GT_type", "GT_get")
  \/ TypeIsValid("DT_type", "DT_list")
  \/ TypeIsValid("LI_type", "LI_list")
  \/ TypeIsValid("GI_type", "GI_inst")
  \/ InstanceIsValid("GI_inst", "GI_get")
  \/ TypeIsValid("PI_type", "PI_schema")
  \/ TypeIsValid("PI_stype", "PI_get")
  \/ TypeIsValid("GS_type", "GS_inst")
  \/ InstanceIsValid("GS_inst", "GS_mtype")
  \/ TypeIsValid("GS_mtype", "GS_minst")
  \/ InstanceIsValid("GS_minst", "GS_mget")
  \/ TypeIsValid("GS_stype", "GS_sinst")
  \/ InstanceIsValid("GS_sinst", "GS_statuses")
  \/ TypeIsValid("DI_type", "DI_inst")
  \/ InstanceIsValid("DI_inst", "DI_mtype")
  \/ TypeIsValid("DI_mtype", "DI_minst")
  \/ InstanceIsValid("DI_minst", "DI_mget")
  \/ TypeIsValid("DI_stype", "DI_sinst")
  \/ InstanceIsValid("DI_sinst", "DI_statuses")

HttpStep ==
  \/ Checks
  \/ GetTypeList \/ CreateTypeGet \/ CreateTypeSet \/ GetTypeRead
  \/ DeleteTypeList \/ DeleteTypeDelete
  \/ GetInstanceList \/ GetInstanceRead
  \/ GetStatusMetadata \/ GetStatusRead
  \/ PutSchema \/ PutGet \/ PutFindHandlers \/ PutClearHandler
  \/ PutSet \/ PutMeta \/ PutQueue
  \/ DeleteMetadata \/ DeleteMark \/ DeleteSpawn \/ DeleteQueue

-----------------------------------------------------------------------------
(***************************************************************************)
(* _delete_after: thread d removes the instance del[d].key.                *)
(***************************************************************************)
DelAt(d, pc) == del[d].pc = pc /\ UNCHANGED <<web, rmr, prior, bounds>>

\* The thread ends, or an exception that nothing catches ends it.
DelExit(d) == del' = [del EXCEPT ![d] = DelIdle]

DelRequire(d, ok, to) == \/ ok /\ del' = [del EXCEPT ![d].pc = to]
                         \/ ~ok /\ DelExit(d)

\* _instance_is_valid raises if the type or the instance is gone.
DelType(d) ==
  /\ DelAt(d, "type")
  /\ DelRequire(d, types[del[d].key[1]] # None, "inst")
  /\ UNCHANGED sdl

DelInst(d) ==
  /\ DelAt(d, "inst")
  /\ DelRequire(d, inst[del[d].key] # None, "sleep")
  /\ UNCHANGED sdl

\* The time to live is over: _clear_handlers finds the statuses ...
DelWake(d) ==
  /\ DelAt(d, "sleep")
  /\ LET found == Recorded(del[d].key)
     IN  del' = [del EXCEPT ![d].keys = found,
                            ![d].pc = IF found = {} THEN "dinst" ELSE "clear"]
  /\ UNCHANGED sdl

\* ... and deletes them one by one.
DelClear(d) ==
  /\ DelAt(d, "clear")
  /\ \E h \in del[d].keys :
       /\ hdl' = [hdl EXCEPT ![del[d].key][h] = None]
       /\ del' = [del EXCEPT ![d] =
                    [pc |-> IF @.keys = {h} THEN "dinst" ELSE "clear",
                     key |-> @.key, keys |-> @.keys \ {h}]]
  /\ UNCHANGED <<types, inst, meta>>

DelInstance(d) ==
  /\ DelAt(d, "dinst")
  /\ inst' = [inst EXCEPT ![del[d].key] = None]
  /\ del' = [del EXCEPT ![d].pc = "dmeta"]
  /\ UNCHANGED <<types, meta, hdl>>

DelMetadata(d) ==
  /\ DelAt(d, "dmeta")
  /\ meta' = [meta EXCEPT ![del[d].key] = None]
  /\ DelExit(d)
  /\ UNCHANGED <<types, inst, hdl>>

DeleterStep(d) ==
  \/ DelType(d) \/ DelInst(d) \/ DelWake(d) \/ DelClear(d)
  \/ DelInstance(d) \/ DelMetadata(d)

-----------------------------------------------------------------------------
(***************************************************************************)
(* The rmr loop: A1_POLICY_RESPONSE (an xApp reports its status for an     *)
(* instance) and A1_POLICY_QUERY (an xApp asks for the instances of a      *)
(* type).                                                                  *)
(***************************************************************************)
RmrAt(pc) == rmr.pc = pc /\ UNCHANGED <<types, inst, meta, web, del, bounds>>

RmrKey == <<rmr.t, rmr.i>>

\* Go on with the message, or end its handling with next.
RmrRequire(ok, to, next) == \/ ok /\ rmr' = [rmr EXCEPT !.pc = to]
                            \/ ~ok /\ rmr' = next

\* The next message of the mailbox.
ReceiveResponse(t, i, h, st) ==
  /\ RmrAt("wait")
  /\ rmr' = [RmrWait EXCEPT !.pc = "A_type", !.t = t, !.i = i, !.h = h,
                            !.st = st]
  /\ UNCHANGED <<hdl, prior>>

ReceiveQuery(t) ==
  /\ RmrAt("wait")
  /\ rmr' = [RmrWait EXCEPT !.pc = "Q_type", !.t = t]
  /\ UNCHANGED <<hdl, prior>>

Receive ==
  \E t \in PolicyTypes :
    \/ ReceiveQuery(t)
    \/ \E i \in Instances, h \in Handlers, st \in Statuses :
         ReceiveResponse(t, i, h, st)

\* _type_is_valid: both handlers catch PolicyTypeNotFound.
RmrTypeIsValid(from, to) ==
  /\ RmrAt(from)
  /\ RmrRequire(types[rmr.t] # None, to, RmrWait)
  /\ UNCHANGED <<hdl, prior>>

\* set_policy_instance_status: PolicyInstanceNotFound is caught too.
AckInstanceIsValid ==
  /\ RmrAt("A_inst")
  /\ RmrRequire(inst[RmrKey] # None, "A_set", RmrWait)
  /\ UNCHANGED <<hdl, prior>>

\* set_policy_instance_status: record the status.
AckSet ==
  /\ RmrAt("A_set")
  /\ hdl' = [hdl EXCEPT ![RmrKey][rmr.h] = rmr.st]
  /\ prior' = IF RmrKey = Key THEN prior \ {rmr.h} ELSE prior
  /\ rmr' = RmrWait

\* The policy query: list the instances of the type.
QueryList ==
  /\ RmrAt("Q_list")
  /\ LET found == {i \in Instances : inst[<<rmr.t, i>>] # None}
     IN  rmr' = IF found = {} THEN RmrWait
                ELSE [rmr EXCEPT !.todo = found, !.pc = "Q_next"]
  /\ UNCHANGED <<hdl, prior>>

\* get_policy_instance of the next instance of the list: its type ...
QueryNext ==
  /\ RmrAt("Q_next")
  /\ \/ /\ types[rmr.t] # None
        /\ \E i \in rmr.todo :
             rmr' = [rmr EXCEPT !.i = i, !.todo = @ \ {i}, !.pc = "Q_inst"]
     \/ types[rmr.t] = None /\ rmr' = RmrWait
  /\ UNCHANGED <<hdl, prior>>

\* ... and itself: nothing catches PolicyInstanceNotFound, the thread ends.
QueryInstanceIsValid ==
  /\ RmrAt("Q_inst")
  /\ RmrRequire(inst[RmrKey] # None, "Q_get", [RmrWait EXCEPT !.pc = "dead"])
  /\ UNCHANGED <<hdl, prior>>

\* Read it and return it to the sender of the query as a CREATE.
QueryGet ==
  /\ RmrAt("Q_get")
  /\ rmr' = IF rmr.todo = {} THEN RmrWait ELSE [rmr EXCEPT !.pc = "Q_next"]
  /\ UNCHANGED <<hdl, prior>>

RmrStep ==
  \/ RmrTypeIsValid("A_type", "A_itype")
  \/ RmrTypeIsValid("A_itype", "A_inst")
  \/ AckInstanceIsValid \/ AckSet
  \/ RmrTypeIsValid("Q_type", "Q_list")
  \/ QueryList \/ QueryNext \/ QueryInstanceIsValid \/ QueryGet

-----------------------------------------------------------------------------
(***************************************************************************)
(* Failures.                                                               *)
(***************************************************************************)
Fault == faults < MaxFaults /\ faults' = faults + 1 /\ UNCHANGED crashes

\* An SDL call of the running handler raises RejectedByBackend, NotConnected
\* or BackendError: 503.
HttpSdlError ==
  /\ Fault
  /\ http.pc \notin {"idle", "PI_queue", "DI_queue"}
  /\ Respond(503)
  /\ UNCHANGED <<sdl, notified, del, rmr>>

\* An SDL call of a delete thread raises: the thread ends.
DeleterSdlError(d) ==
  /\ Fault
  /\ del[d].pc # "idle"
  /\ DelExit(d)
  /\ UNCHANGED <<sdl, web, rmr, prior>>

\* An SDL call of the rmr loop raises: the thread ends ("TODO: in the future
\* we may also have to catch SDL errors").
RmrSdlError ==
  /\ Fault
  /\ rmr.pc \notin {"wait", "dead"}
  /\ rmr' = [RmrWait EXCEPT !.pc = "dead"]
  /\ UNCHANGED <<sdl, web, del, prior>>

\* The process is killed and Kubernetes restarts it: main starts a new rmr
\* loop and a new web server; only what is in SDL is still there.
Crash ==
  /\ crashes < MaxCrashes
  /\ crashes' = crashes + 1
  /\ http' = HttpIdle /\ reply' = NoReply /\ prior' = {}
  /\ del' = [d \in Deleters |-> DelIdle]
  /\ rmr' = RmrWait
  /\ UNCHANGED <<sdl, notified, faults>>

Failure ==
  \/ HttpSdlError \/ RmrSdlError \/ Crash
  \/ \E d \in Deleters : DeleterSdlError(d)

-----------------------------------------------------------------------------
Next ==
  \/ Request
  \/ HttpStep
  \/ \E d \in Deleters : DeleterStep(d)
  \/ Receive
  \/ RmrStep
  \/ Failure

Spec == Init /\ [][Next]_vars

\* A handler that was called runs to its end, a thread that was started is
\* scheduled, and a message taken from the mailbox is processed.  Nobody has
\* to send requests or messages.
Fairness ==
  /\ WF_vars(HttpStep)
  /\ \A d \in Deleters : WF_vars(DeleterStep(d))
  /\ WF_vars(RmrStep)

FairSpec == Spec /\ Fairness

-----------------------------------------------------------------------------
(***************************************************************************)
(* Types.                                                                  *)
(***************************************************************************)
Ops == {"LT", "CT", "GT", "DT", "LI", "GI", "GS", "PI", "DI"}
TypePcs == {"CT_get", "CT_set", "GT_type", "GT_get", "DT_type", "DT_list",
            "DT_del", "LI_type", "LI_list"}
PutPcs == {"PI_type", "PI_schema", "PI_stype", "PI_get", "PI_keys",
           "PI_clear", "PI_set", "PI_meta", "PI_queue"}
InstPcs == PutPcs \cup
           {"GI_type", "GI_inst", "GI_get",
            "GS_type", "GS_inst", "GS_mtype", "GS_minst", "GS_mget",
            "GS_stype", "GS_sinst", "GS_statuses",
            "DI_type", "DI_inst", "DI_mtype", "DI_minst", "DI_mget",
            "DI_mset", "DI_stype", "DI_sinst", "DI_statuses", "DI_queue"}
DelPcs == {"type", "inst", "sleep", "clear", "dinst", "dmeta"}
AckPcs == {"A_type", "A_itype", "A_inst", "A_set"}
QueryPcs == {"Q_type", "Q_list", "Q_next", "Q_inst", "Q_get"}

SdlTypeOK ==
  /\ types \in [PolicyTypes -> Schemas \cup {None}]
  /\ inst \in [Keys -> Bodies \cup {None}]
  /\ meta \in [Keys -> {None, "Live", "Deleted"}]
  /\ hdl \in [Keys -> [Handlers -> Statuses \cup {None}]]

HttpTypeOK ==
  /\ http \in [pc : {"idle", "LT_list"} \cup TypePcs \cup InstPcs,
               op : Ops \cup {"none"},
               t : PolicyTypes \cup {None},
               i : Instances \cup {None},
               arg : Schemas \cup Bodies \cup {None},
               keys : SUBSET Handlers,
               kind : {"none", "CREATE", "UPDATE"}]
  /\ http.pc \in TypePcs \cup InstPcs => http.t \in PolicyTypes
  /\ http.pc \in InstPcs => http.i \in Instances
  /\ http.pc \in {"CT_get", "CT_set"} => http.arg \in Schemas
  /\ http.pc \in PutPcs => http.arg \in Bodies
  /\ reply \in [op : Ops \cup {"none"},
                code : {0, 200, 201, 202, 204, 400, 404, 500, 503}]
  /\ notified \in [Keys -> [op : {"none", "CREATE", "UPDATE", "DELETE"},
                            body : Bodies \cup {None}]]

DelTypeOK ==
  /\ del \in [Deleters -> [pc : DelPcs \cup {"idle"},
                            key : Keys \cup {None},
                            keys : SUBSET Handlers]]
  /\ \A d \in Deleters : del[d].pc # "idle" => del[d].key \in Keys

RmrTypeOK ==
  /\ rmr \in [pc : AckPcs \cup QueryPcs \cup {"wait", "dead"},
              t : PolicyTypes \cup {None},
              i : Instances \cup {None},
              h : Handlers \cup {None},
              st : Statuses \cup {None},
              todo : SUBSET Instances]
  /\ rmr.pc \in AckPcs \cup QueryPcs => rmr.t \in PolicyTypes
  /\ rmr.pc \in AckPcs => /\ rmr.i \in Instances
                          /\ rmr.h \in Handlers
                          /\ rmr.st \in Statuses
  /\ rmr.pc \in {"Q_inst", "Q_get"} => rmr.i \in Instances

\* Every variable has its type, and a handler or a thread has the type, the
\* instance and the body that its next SDL call uses.
TypeOK ==
  /\ SdlTypeOK /\ HttpTypeOK /\ DelTypeOK /\ RmrTypeOK
  /\ prior \in SUBSET Handlers
  /\ crashes \in 0..MaxCrashes
  /\ faults \in 0..MaxFaults

-----------------------------------------------------------------------------
(***************************************************************************)
(* Safety.                                                                 *)
(***************************************************************************)

\* Every stored instance has a stored type whose schema accepts its body,
\* whatever requests, threads, SDL errors and crashes come in between: the
\* type is read long before the instance is written, and the instances of a
\* type are listed before, not while, it is deleted (data.py 178-186,
\* 200-219; controller.py 176-181).
InstancesConform ==
  \A k \in Keys :
    inst[k] # None => /\ types[k[1]] # None
                      /\ inst[k] \in Conforms[types[k[1]]]

\* What a handler has read still holds when it acts on it, whatever the other
\* threads did in between: a type it found is there until it has written the
\* instance and the body still conforms, a type it did not find is absent
\* when it writes it, and a type it found empty is empty when it deletes it
\* (data.py 173-175, 182-184, 204-214).
ChecksHold ==
  /\ http.pc \in {"PI_schema", "PI_stype", "PI_get", "PI_keys", "PI_clear",
                 "PI_set", "DT_list", "DT_del"} => types[http.t] # None
  /\ http.pc \in {"PI_stype", "PI_get", "PI_keys", "PI_clear", "PI_set"} =>
       http.arg \in Conforms[types[http.t]]
  /\ http.pc = "CT_set" => types[http.t] = None
  /\ http.pc = "DT_del" => \A i \in Instances : inst[<<http.t, i>>] = None

\* The instance k was marked deleted and is still there.
Lingers(k) == inst[k] # None /\ meta[k] = "Deleted"

\* Thread d has still to delete the instance k.
WillRemove(d, k) ==
  del[d].key = k /\ del[d].pc \in {"type", "inst", "sleep", "clear", "dinst"}

\* The running handler will mark k live (a PUT) or start a thread for it.
HandlerBusyWith(k) ==
  Key = k /\ http.pc \in {"PI_meta", "DI_stype", "DI_sinst", "DI_statuses"}

\* The running handler has marked k deleted.
Deletes(k) ==
  Key = k /\ http.pc \in {"DI_stype", "DI_sinst", "DI_statuses", "DI_queue"}

\* As long as the process has not crashed and SDL has not failed, an instance
\* that is marked deleted is never left without a thread that will remove it,
\* however DELETEs, PUTs and the threads of earlier DELETEs of the same
\* instance interleave (data.py 138-151, 237-264).
DeletionPending ==
  crashes = 0 /\ faults = 0 =>
    \A k \in Keys :
      Lingers(k) => HandlerBusyWith(k) \/ \E d \in Deleters : WillRemove(d, k)

\* When a PUT that replaces an instance is about to answer 202, no status
\* that was recorded before the request is left (data.py 211-213); a status
\* recorded while the PUT runs may be.
UpdateResets ==
  http.pc = "PI_queue" /\ http.kind = "UPDATE" =>
    \A h \in prior : hdl[Key][h] = None

\* Between requests, the last message queued for an instance that is stored
\* and live is a CREATE or UPDATE with the body that is stored: the xApps are
\* told what a GET returns (controller.py 180-184, 198-201).
ToldLatest ==
  crashes = 0 /\ faults = 0 /\ http.pc = "idle" =>
    \A k \in Keys :
      inst[k] # None /\ meta[k] = "Live" =>
        /\ notified[k].op \in {"CREATE", "UPDATE"}
        /\ notified[k].body = inst[k]

\* The mediator implements the atomic registry: types are never overwritten,
\* never deleted under an instance, and no instance is stored that its type
\* does not accept at that very step (data.py 166-219).
Registry == INSTANCE PolicyRegistry
RegistrySpec == Registry!Spec

-----------------------------------------------------------------------------
(***************************************************************************)
(* Liveness, under FairSpec.                                               *)
(***************************************************************************)

\* An instance that a DELETE has marked is eventually gone, or live again by a
\* PUT, unless the process crashes again (data.py 237-264,
\* delete_policy_instance: "launches a thread that waits until the relevent
\* timer expires, and finally deletes the instance").  This includes an
\* instance that was marked before, whose thread a crash has taken: nothing
\* but a DELETE starts another, and every DELETE has to.
DeletedEventuallyGone ==
  \A k \in Keys :
    Lingers(k) /\ Deletes(k) /\ crashes = MaxCrashes ~> ~Lingers(k)

\* Every request is answered; the loop over the statuses of an instance ends
\* although xApps report new ones meanwhile (data.py 119-126).
RequestsAnswered == http.pc # "idle" ~> http.pc = "idle"

-----------------------------------------------------------------------------
(***************************************************************************)
(* What the repository says and the code does not do.                      *)
(***************************************************************************)

\* An instance that is not marked deleted does not vanish
\* (tests/test_controller.py 257-264: only a deleted instance becomes "gone";
\* data.py 212: a PUT makes "a new policy instance").
OnlyDeletedVanish ==
  [][\A k \in Keys : inst[k] # None /\ inst'[k] = None
                        => meta[k] = "Deleted"]_vars

\* A request for an instance or its status is answered with a code that
\* openapi.yaml 197-309 lists for it, whatever delete threads do meanwhile
\* (data.py 97, 132-135, 222-227, 284-286).
InstanceRepliesDocumented ==
  /\ reply.op \in {"GI", "GS"} => reply.code \in {200, 404, 503}
  /\ reply.op = "DI" => reply.code \in {202, 404, 503}
  /\ reply.op = "PI" => reply.code \in {202, 400, 404, 503}

\* The rmr thread never ends (a1rmr.py 184: "This loop runs forever").
LoopRunsForever == rmr.pc # "dead"
=============================================================================
