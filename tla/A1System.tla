------------------------------ MODULE A1System ------------------------------
(***************************************************************************)
(* The mediator together with an xApp: the REST handlers of policy         *)
(* instances, the queue and its sending, the wires of rmr in both          *)
(* directions, the xApp of integration_tests/testxappcode/receiver.go, the *)
(* rmr loop and the delete threads, with lost messages, kills of either    *)
(* side and the restart of the mediator whose loop has died.               *)
(*                                                                         *)
(* A step makes at most one SDL call that writes: a status is checked and  *)
(* then written, statuses are found and then deleted, an instance is       *)
(* removed after its statuses.  The one policy type, which the xApp        *)
(* queries, is stored all along; there is one handler id, so at most one   *)
(* status per instance.  Bodies are left out, and so are metadata: no step *)
(* depends on them but a DELETE that finds none, which fails and changes   *)
(* nothing.                                                                *)
(***************************************************************************)
EXTENDS Naturals, Sequences, SequencesExt

CONSTANTS
  Instances,
  DoQuery,       \* DO_QUERY is set in the environment of the xApp
  None,
  MaxRequests,   \* bound: PUTs and DELETEs
  Senders,       \* bound: _handle_sends threads with an item in work
  MaxWire,       \* messages that rmr holds in one direction
  MaxKills       \* bound: kills of the mediator or the xApp

ASSUME DoQueryAssumption == DoQuery \in BOOLEAN
ASSUME BoundsAssumption ==
  MaxRequests \in Nat /\ MaxKills \in Nat /\ MaxWire \in Nat \ {0}

VARIABLES
  stored,    \* SDL: is the instance there
  status,    \* SDL: the status recorded for the xApp's handler id, or None
  web,       \* the REST handler: its next step and the item it will queue
  sendQ,     \* instance_send_queue
  sending,   \* the item that each _handle_sends thread has in work, or None
  threads,   \* _delete_after threads, per instance and next step
  loop,      \* the rmr loop
  toXapp,    \* rmr, from the mediator to the xApp
  toA1,      \* rmr, from the xApp to the mediator, and what the loop has read
             \* of it and not yet dealt with
  xapp,      \* the xApp: rmrReady, and the message that messageLoop handles
  handled,   \* history: the operation the xApp last answered, per instance
  lossy,     \* history: a message to the xApp was lost
  restarts,  \* history: the mediator or the xApp was restarted
  requests, kills

sdl == <<stored, status>>
process == <<web, sendQ, sending, threads, loop>>
wires == <<toXapp, toA1>>
xappVars == <<xapp, handled>>
history == <<lossy, restarts>>
bounds == <<requests, kills>>
vars == <<sdl, process, wires, xappVars, history, bounds>>

Item(op, i) == [op |-> op, i |-> i]
Items == [op : {"CREATE", "UPDATE", "DELETE"}, i : Instances]
Query == [op |-> "query", i |-> None]
Answers == [op : {"OK", "DELETED", ""}, i : Instances]

ASSUME NoneAssumption == None \notin Instances \cup Items

WebIdle == [pc |-> "idle", item |-> None]
Stages == {"check", "sleep", "clear", "remove"}
NoThreads == [i \in Instances |-> [g \in Stages |-> 0]]
LoopStart == [pc |-> "recv", todo |-> {}]
XappStart == [ready |-> FALSE, msg |-> None]

\* SDL may hold instances of an earlier process.
Init ==
  /\ stored \in [Instances -> BOOLEAN]
  /\ status = [i \in Instances |-> None]
  /\ web = WebIdle /\ sendQ = <<>>
  /\ sending = [s \in Senders |-> None]
  /\ threads = NoThreads
  /\ loop = LoopStart
  /\ toXapp = <<>> /\ toA1 = <<>>
  /\ xapp = XappStart
  /\ handled = [i \in Instances |-> "none"]
  /\ lossy = FALSE /\ restarts = \E i \in Instances : stored[i]
  /\ requests = 0 /\ kills = 0

-----------------------------------------------------------------------------
(***************************************************************************)
(* REST handlers and delete threads.                                       *)
(***************************************************************************)
Request == web.pc = "idle" /\ requests < MaxRequests /\ requests' = requests + 1

\* create_or_replace_policy_instance and store_policy_instance: is it there?
PutInstance(i) ==
  /\ Request
  /\ web' = IF stored[i] THEN [pc |-> "find", item |-> Item("UPDATE", i)]
                         ELSE [pc |-> "set", item |-> Item("CREATE", i)]
  /\ UNCHANGED <<sdl, sendQ, sending, threads, loop, wires, xappVars, history, kills>>

\* _clear_handlers of an update: a status is found ...
PutFind ==
  /\ web.pc = "find"
  /\ web' = [web EXCEPT !.pc = IF status[web.item.i] = None THEN "set" ELSE "clear"]
  /\ UNCHANGED <<sdl, sendQ, sending, threads, loop, wires, xappVars, history, bounds>>

\* ... and deleted.
PutClear ==
  /\ web.pc = "clear"
  /\ status' = [status EXCEPT ![web.item.i] = None]
  /\ web' = [web EXCEPT !.pc = "set"]
  /\ UNCHANGED <<stored, sendQ, sending, threads, loop, wires, xappVars, history, bounds>>

\* Bug: the item of an update is not queued.
PutSet_QuietUpdate ==
  /\ web.pc = "set"
  /\ stored' = [stored EXCEPT ![web.item.i] = TRUE]
  /\ web' = IF web.item.op = "UPDATE" THEN WebIdle ELSE [web EXCEPT !.pc = "queue"]
  /\ UNCHANGED <<status, sendQ, sending, threads, loop, wires, xappVars, history, bounds>>

PutSet ==
  /\ web.pc = "set"
  /\ stored' = [stored EXCEPT ![web.item.i] = TRUE]
  /\ web' = [web EXCEPT !.pc = "queue"]
  /\ UNCHANGED <<status, sendQ, sending, threads, loop, wires, xappVars, history, bounds>>

\* delete_policy_instance up to the queue: a thread.
DeleteInstance(i) ==
  /\ Request
  /\ stored[i]
  /\ threads' = [threads EXCEPT ![i]["check"] = @ + 1]
  /\ web' = [pc |-> "queue", item |-> Item("DELETE", i)]
  /\ UNCHANGED <<sdl, sendQ, sending, loop, wires, xappVars, history, kills>>

\* Bug: the item is queued twice.
QueueSend_Twice ==
  /\ web.pc = "queue"
  /\ sendQ' = sendQ \o <<web.item, web.item>>
  /\ web' = WebIdle
  /\ UNCHANGED <<sdl, sending, threads, loop, wires, xappVars, history, bounds>>

\* queue_instance_send, and the response.
QueueSend ==
  /\ web.pc = "queue"
  /\ sendQ' = Append(sendQ, web.item)
  /\ web' = WebIdle
  /\ UNCHANGED <<sdl, sending, threads, loop, wires, xappVars, history, bounds>>

Moved(f, g, h) == [f EXCEPT ![g] = @ - 1, ![h] = @ + 1]

\* A delete thread of i comes from step g to step h.
ThreadGoes(i, g, h) ==
  /\ threads[i][g] > 0
  /\ threads' = [threads EXCEPT ![i] = Moved(@, g, h)]
  /\ UNCHANGED <<web, sendQ, sending, loop, wires, xappVars, history, bounds>>

ThreadEnds(i, g) ==
  /\ threads[i][g] > 0
  /\ threads' = [threads EXCEPT ![i][g] = @ - 1]
  /\ UNCHANGED <<web, sendQ, sending, loop, wires, xappVars, history, bounds>>

\* _delete_after: the check before the sleep, ...
ThreadCheck(i) ==
  /\ \/ stored[i] /\ ThreadGoes(i, "check", "sleep")
     \/ ~stored[i] /\ ThreadEnds(i, "check")
  /\ UNCHANGED sdl

\* ... after it _clear_handlers, ...
ThreadFind(i) ==
  /\ ThreadGoes(i, "sleep", IF status[i] = None THEN "remove" ELSE "clear")
  /\ UNCHANGED sdl

ThreadClear(i) ==
  /\ ThreadGoes(i, "clear", "remove")
  /\ status' = [status EXCEPT ![i] = None]
  /\ UNCHANGED stored

\* ... and the instance, whoever has stored it again meanwhile.
ThreadRemove(i) ==
  /\ ThreadEnds(i, "remove")
  /\ stored' = [stored EXCEPT ![i] = FALSE]
  /\ UNCHANGED status

DeleteAfter(i) == ThreadCheck(i) \/ ThreadFind(i) \/ ThreadClear(i) \/ ThreadRemove(i)

-----------------------------------------------------------------------------
(***************************************************************************)
(* Messages to the xApp.                                                   *)
(***************************************************************************)

\* rmr_send_msg and rmr_rts_msg: the message is on the wire, or gets lost and
\* nobody is told: on a full wire, where the retries come to nothing, and once
\* (bound) for any other reason.
Transmit(m) ==
  \/ /\ Len(toXapp) < MaxWire
     /\ toXapp' = Append(toXapp, m) /\ UNCHANGED lossy
  \/ /\ Len(toXapp) = MaxWire \/ ~lossy
     /\ lossy' = TRUE /\ UNCHANGED toXapp

\* The loop starts a _handle_sends thread every second, which takes the items
\* of the queue ...
SenderTake(s) ==
  /\ loop.pc # "dead" /\ sendQ # <<>>
  /\ sending[s] = None
  /\ sending' = [sending EXCEPT ![s] = Head(sendQ)]
  /\ sendQ' = Tail(sendQ)
  /\ UNCHANGED <<sdl, web, threads, loop, wires, xappVars, history, bounds>>

\* ... and sends them.
SenderSend(s) ==
  /\ sending[s] # None
  /\ Transmit(sending[s])
  /\ sending' = [sending EXCEPT ![s] = None]
  /\ UNCHANGED <<sdl, web, sendQ, threads, loop, toA1, xappVars, restarts, bounds>>

-----------------------------------------------------------------------------
(***************************************************************************)
(* The rmr loop.                                                           *)
(***************************************************************************)

\* The instances of a query's answer.
LoopQuery ==
  /\ loop.pc = "recv" /\ toA1 # <<>> /\ Head(toA1) = Query
  /\ toA1' = Tail(toA1)
  /\ loop' = [pc |-> "query", todo |-> {i \in Instances : stored[i]}]
  /\ UNCHANGED <<sdl, web, sendQ, sending, threads, toXapp, xappVars, history, bounds>>

\* set_policy_instance_status: a response is dropped if its instance is not
\* stored, ...
LoopReceive ==
  /\ loop.pc = "recv" /\ toA1 # <<>> /\ Head(toA1) # Query
  /\ IF stored[Head(toA1).i]
     THEN loop' = [loop EXCEPT !.pc = "write"] /\ UNCHANGED toA1
     ELSE toA1' = Tail(toA1) /\ UNCHANGED loop
  /\ UNCHANGED <<sdl, web, sendQ, sending, threads, toXapp, xappVars, history, bounds>>

\* ... and else recorded, whatever happened to the instance meanwhile.
LoopWrite ==
  /\ loop.pc = "write"
  /\ status' = [status EXCEPT ![Head(toA1).i] = Head(toA1).op]
  /\ toA1' = Tail(toA1)
  /\ loop' = LoopStart
  /\ UNCHANGED <<stored, web, sendQ, sending, threads, toXapp, xappVars, history, bounds>>

\* Bug: a query is answered with updates, which the xApp has no case for.
LoopAnswer_Update(i) ==
  /\ loop.pc = "query" /\ i \in loop.todo
  /\ IF ~stored[i]
     THEN loop' = [loop EXCEPT !.pc = "dead"] /\ UNCHANGED <<toXapp, lossy>>
     ELSE loop' = [loop EXCEPT !.todo = @ \ {i}] /\ Transmit(Item("UPDATE", i))
  /\ UNCHANGED <<sdl, web, sendQ, sending, threads, toA1, xappVars, restarts,
                 bounds>>

\* One instance of the answer; the exception for one that is gone since the
\* list was made is not caught and ends the loop.
LoopAnswer(i) ==
  /\ loop.pc = "query" /\ i \in loop.todo
  /\ IF ~stored[i]
     THEN loop' = [loop EXCEPT !.pc = "dead"] /\ UNCHANGED <<toXapp, lossy>>
     ELSE loop' = [loop EXCEPT !.todo = @ \ {i}] /\ Transmit(Item("CREATE", i))
  /\ UNCHANGED <<sdl, web, sendQ, sending, threads, toA1, xappVars, restarts,
                 bounds>>

LoopAnswered ==
  /\ loop.pc = "query" /\ loop.todo = {}
  /\ loop' = LoopStart
  /\ UNCHANGED <<sdl, web, sendQ, sending, threads, wires, xappVars, history,
                 bounds>>

Loop ==
  \/ LoopQuery \/ LoopReceive \/ LoopWrite \/ LoopAnswered
  \/ \E i \in Instances : LoopAnswer(i)

-----------------------------------------------------------------------------
(***************************************************************************)
(* The xApp.                                                               *)
(***************************************************************************)

\* The callback of SetReadyCB.
RmrReady ==
  /\ ~xapp.ready
  /\ xapp' = [xapp EXCEPT !.ready = TRUE]
  /\ UNCHANGED <<sdl, process, wires, handled, history, bounds>>

\* Consume hands the message to messageLoop over the unbuffered channel.
Consume ==
  /\ toXapp # <<>> /\ xapp.msg = None
  /\ xapp' = [xapp EXCEPT !.msg = Head(toXapp)]
  /\ toXapp' = Tail(toXapp)
  /\ UNCHANGED <<sdl, process, toA1, handled, history, bounds>>

\* handlePolicyReq: the status for an operation; an update has no case.
Answer(op) == CASE op = "CREATE" -> "OK" [] op = "DELETE" -> "DELETED" [] OTHER -> ""

\* sendMsgRetry: not before rmr is ready, and again until it is on the wire.
XappSend(m) ==
  /\ xapp.ready /\ Len(toA1) < MaxWire
  /\ toA1' = Append(toA1, m)

HandlePolicyReq ==
  /\ xapp.msg # None
  /\ XappSend([op |-> Answer(xapp.msg.op), i |-> xapp.msg.i])
  /\ handled' = [handled EXCEPT ![xapp.msg.i] = xapp.msg.op]
  /\ xapp' = [xapp EXCEPT !.msg = None]
  /\ UNCHANGED <<sdl, process, toXapp, history, bounds>>

\* sendQuery, once a second (bound: the mediator has read the last one).
SendQuery ==
  /\ DoQuery
  /\ Query \notin ToSet(toA1)
  /\ XappSend(Query)
  /\ UNCHANGED <<sdl, process, toXapp, xappVars, history, bounds>>

-----------------------------------------------------------------------------
(***************************************************************************)
(* Kills and restarts.                                                     *)
(***************************************************************************)

\* A restarted mediator has what is in SDL and nothing else.
StartA1 ==
  /\ web' = WebIdle /\ sendQ' = <<>>
  /\ sending' = [s \in Senders |-> None]
  /\ threads' = NoThreads
  /\ loop' = LoopStart
  /\ toA1' = <<>>
  /\ restarts' = TRUE
  /\ UNCHANGED <<sdl, toXapp, xappVars, lossy, requests>>

\* The health check has found the loop dead.
RestartA1 == loop.pc = "dead" /\ StartA1 /\ UNCHANGED kills

Kill == kills < MaxKills /\ kills' = kills + 1

KillA1 == Kill /\ StartA1

\* A restarted xApp knows nothing.
KillXapp ==
  /\ Kill
  /\ xapp' = XappStart /\ toXapp' = <<>>
  /\ handled' = [i \in Instances |-> "none"]
  /\ restarts' = TRUE
  /\ UNCHANGED <<sdl, process, toA1, lossy, requests>>

-----------------------------------------------------------------------------
Handler == PutFind \/ PutClear \/ PutSet \/ QueueSend
Web == Handler \/ \E i \in Instances : PutInstance(i) \/ DeleteInstance(i)
Sender == \E s \in Senders : SenderTake(s) \/ SenderSend(s)

Next ==
  \/ Web \/ Sender \/ Loop \/ RmrReady \/ Consume \/ HandlePolicyReq \/ SendQuery
  \/ RestartA1 \/ KillA1 \/ KillXapp
  \/ \E i \in Instances : DeleteAfter(i)

\* Threads and goroutines are scheduled, sleeps end, Kubernetes restarts the
\* mediator; nobody has to send requests.
Fairness ==
  /\ WF_vars(Handler) /\ WF_vars(Loop) /\ WF_vars(RestartA1)
  /\ WF_vars(RmrReady) /\ WF_vars(Consume) /\ WF_vars(HandlePolicyReq)
  /\ WF_vars(SendQuery)
  /\ \A i \in Instances : WF_vars(DeleteAfter(i))
  /\ WF_vars(\E s \in Senders : SenderTake(s))
  /\ \A s \in Senders : WF_vars(SenderSend(s))

Spec == Init /\ [][Next]_vars /\ Fairness

-----------------------------------------------------------------------------
(***************************************************************************)
(* Properties.                                                             *)
(***************************************************************************)

\* Every variable has its type; every request has at most one item in the
\* queue, and rmr holds no more than it can (controller.py 184, a1rmr.py
\* 314-319).
TypeOK ==
  /\ stored \in [Instances -> BOOLEAN]
  /\ status \in [Instances -> {"OK", "DELETED", "", None}]
  /\ web \in [pc : {"idle", "find", "clear", "set", "queue"}, item : Items \cup {None}]
  /\ web.pc # "idle" => web.item # None
  /\ sendQ \in Seq(Items) /\ Len(sendQ) <= requests
  /\ sending \in [Senders -> Items \cup {None}]
  /\ threads \in [Instances -> [Stages -> Nat]]
  /\ loop \in [pc : {"recv", "write", "query", "dead"}, todo : SUBSET Instances]
  /\ loop.pc = "write" => toA1 # <<>> /\ Head(toA1) # Query
  /\ toXapp \in Seq(Items) /\ Len(toXapp) <= MaxWire
  /\ toA1 \in Seq(Answers \cup {Query}) /\ Len(toA1) <= MaxWire
  /\ xapp \in [ready : BOOLEAN, msg : Items \cup {None}]
  /\ handled \in [Instances -> {"CREATE", "UPDATE", "DELETE", "none"}]

\* Nothing is on its way between a PUT or DELETE and the recorded status.
Quiet ==
  /\ web.pc = "idle" /\ sendQ = <<>> /\ \A s \in Senders : sending[s] = None
  /\ toXapp = <<>> /\ ToSet(toA1) \subseteq {Query}
  /\ xapp.msg = None

\* When all is quiet, nothing was lost and nobody restarted, the status
\* recorded for a stored instance is the xApp's answer to the last item it
\* handled for it: in whatever order senders and queries brought the items,
\* whatever PUTs and delete threads found and deleted between the check and
\* the write of a status, and although a status may outlive its instance and
\* meet the next one of that name.  Only a delete thread that is about to
\* remove the instance has already taken its status (a1rmr.py 210-225,
\* data.py 138-151, 200-219, 270-277, receiver.go 75-121).
QuietTruth ==
  Quiet /\ ~lossy /\ ~restarts =>
    \A i \in Instances :
      stored[i] /\ threads[i]["remove"] = 0 =>
        handled[i] # "none" /\ status[i] = Answer(handled[i])

\* When requests and failures cease, every instance that is still stored, also
\* one whose delete thread a crash took away, is in effect and stays so: the
\* xApp's query makes up for items that a crash took from the queue
\* (controller.py 184), for lost messages, for statuses taken by delete
\* threads and for its own restart, and Kubernetes for a loop that died.
SettlesInEffect == \A i \in Instances : <>[](stored[i] => status[i] = "OK")
=============================================================================
