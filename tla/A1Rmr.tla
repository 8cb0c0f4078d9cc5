------------------------------- MODULE A1Rmr --------------------------------
(***************************************************************************)
(* The rmr side of the A1 mediator (src/a1/a1rmr.py): the two job queues   *)
(* that the REST handlers fill, the threads that send the jobs, the loop   *)
(* that starts such a thread and reads the mailbox once a second, and the  *)
(* health check by which Kubernetes finds out that the loop is gone.       *)
(*                                                                         *)
(* A1Policy has what the messages A1_POLICY_RESPONSE and A1_POLICY_QUERY   *)
(* do to the database; here their SDL calls return, raise an exception     *)
(* that is caught, or raise one that is not.                               *)
(*                                                                         *)
(* The sender threads, the loop and the web server interleave between any  *)
(* two of their operations on a queue or on rmr.  The contents of a        *)
(* message is abstracted to its type and to whether it can be read.        *)
(***************************************************************************)
EXTENDS Naturals, Sequences, FiniteSets

CONSTANTS
  PolicyJobs,  \* work items for instance_send_queue
  EiJobs,      \* work items for ei_job_result_queue ...
  BadJobs,     \* ... of which these have no "job", or one that is no integer
  NoJob,
  Senders,     \* slots for _handle_sends threads: their number bounds how
               \* many can run at the same time
  MsgTypes,    \* the types of the messages the mailbox may hold
  MaxBatch,    \* bound: messages received in one pass of the loop
  MaxFound,    \* bound: instances of the type of a policy query
  RetryTimes   \* A1_RMR_RETRY_TIMES

Jobs == PolicyJobs \cup EiJobs

ASSUME JobsAssumption ==
  BadJobs \subseteq EiJobs /\ PolicyJobs \cap EiJobs = {} /\ NoJob \notin Jobs
ASSUME MsgTypesAssumption ==
  MsgTypes \subseteq {"response", "query", "ei_query", "ei_job", "other",
                      "malformed"}
ASSUME RmrBoundsAssumption ==
  MaxBatch \in Nat /\ MaxFound \in Nat /\ RetryTimes \in Nat

VARIABLES
  sendQ,     \* instance_send_queue and ei_job_result_queue
  snd,       \* the _handle_sends threads
  loop,      \* the thread of _RmrLoop.loop
  goOn,      \* keep_going
  stale,     \* last_ran is more than 30 seconds ago
  bufs,      \* the number of rmr message buffers that are not freed
  health,    \* the last answer of the health check
  accepted,  \* history: the jobs put on each queue, in that order
  tries,     \* how often a job was given to rmr_send_msg
  result     \* history: what became of a job

vars == <<sendQ, snd, loop, goOn, stale, bufs, health, accepted, tries, result>>
jobLog == <<tries, result>>

\* The queues in the order in which _handle_sends empties them.
QueueNames == {"policy", "ei"}
Messages == [type : MsgTypes, readable : BOOLEAN]
SendStates == {"OK", "RETRY", "ERROR"}

SndIdle == [pc |-> "idle", q |-> "policy", job |-> NoJob]
LoopStart == [pc |-> "top", mtype |-> "unbound", batch |-> <<>>,
              left |-> 0, tries |-> 0]

\* __init__, with the queues empty and the thread started.  last_ran was set
\* before rmr was ready, which may be long ago.
Init ==
  /\ sendQ = [q \in QueueNames |-> <<>>]
  /\ snd = [s \in Senders |-> SndIdle]
  /\ loop = LoopStart
  /\ goOn = TRUE
  /\ stale \in BOOLEAN
  /\ bufs = 0
  /\ health = 200
  /\ accepted = [q \in QueueNames |-> <<>>]
  /\ tries = [j \in Jobs |-> 0]
  /\ result = [j \in Jobs |-> "none"]

-----------------------------------------------------------------------------
(***************************************************************************)
(* The web server's side of the queues.                                    *)
(***************************************************************************)
Entries(s) == {s[i] : i \in 1..Len(s)}

\* Bound: a job is put on its queue at most once in the life of the process.
Put(q, j) ==
  /\ j \notin Entries(accepted[q])
  /\ sendQ' = [sendQ EXCEPT ![q] = Append(@, j)]
  /\ accepted' = [accepted EXCEPT ![q] = Append(@, j)]
  /\ UNCHANGED <<snd, loop, goOn, stale, bufs, health, jobLog>>

queue_instance_send(j) == Put("policy", j)
data_delivery(j) == Put("ei", j)

-----------------------------------------------------------------------------
(***************************************************************************)
(* _handle_sends: thread s empties the first queue, then the second.       *)
(***************************************************************************)
SndSame == UNCHANGED <<loop, goOn, stale, health, accepted>>

\* queue.empty()
SndCheck(s) ==
  /\ snd[s].pc = "check"
  /\ snd' = [snd EXCEPT ![s] =
       IF sendQ[@.q] # <<>> THEN [pc |-> "get", q |-> @.q, job |-> NoJob]
       ELSE IF @.q = "policy" THEN [pc |-> "check", q |-> "ei", job |-> NoJob]
       ELSE SndIdle]
  /\ UNCHANGED <<sendQ, bufs, jobLog>> /\ SndSame

\* Bug: the job is left in the queue until it has been sent.
SndGet_Peek(s) ==
  /\ snd[s].pc = "get"
  /\ sendQ[snd[s].q] # <<>>
  /\ snd' = [snd EXCEPT ![s] =
               [pc |-> "send", q |-> @.q, job |-> Head(sendQ[@.q])]]
  /\ bufs' = bufs + 1
  /\ UNCHANGED <<sendQ, jobLog>> /\ SndSame

\* Bug: the last job that was queued is taken first.
SndGet_Last(s) ==
  LET jobs == sendQ[snd[s].q] IN
  /\ snd[s].pc = "get"
  /\ jobs # <<>>
  /\ snd' = [snd EXCEPT ![s] =
               [pc |-> "send", q |-> @.q, job |-> jobs[Len(jobs)]]]
  /\ sendQ' = [sendQ EXCEPT ![snd[s].q] = SubSeq(@, 1, Len(@) - 1)]
  /\ bufs' = bufs + 1
  /\ UNCHANGED jobLog /\ SndSame

\* queue.get(block=False).  The queue may have been emptied by another sender
\* since the check: queue.Empty is not caught and the thread ends.  So it
\* does if the job number of a delivery is not an integer.  Otherwise the
\* message is built and its buffer allocated.
SndGet(s) ==
  LET q == snd[s].q  jobs == sendQ[snd[s].q] IN
  /\ snd[s].pc = "get"
  /\ \/ /\ jobs = <<>>
        /\ snd' = [snd EXCEPT ![s] = SndIdle]
        /\ UNCHANGED <<sendQ, bufs, result>>
     \/ /\ jobs # <<>> /\ Head(jobs) \in BadJobs
        /\ sendQ' = [sendQ EXCEPT ![q] = Tail(@)]
        /\ snd' = [snd EXCEPT ![s] = SndIdle]
        /\ result' = [result EXCEPT ![Head(jobs)] = "refused"]
        /\ UNCHANGED bufs
     \/ /\ jobs # <<>> /\ Head(jobs) \notin BadJobs
        /\ sendQ' = [sendQ EXCEPT ![q] = Tail(@)]
        /\ snd' = [snd EXCEPT ![s] =
                     [pc |-> "send", q |-> q, job |-> Head(jobs)]]
        /\ bufs' = bufs + 1
        /\ UNCHANGED result
  /\ UNCHANGED tries /\ SndSame

\* Bug: the buffer of a message is freed by the retry loop and again after it.
SndDone_FreesTwice(s, res) ==
  /\ result' = [result EXCEPT ![snd[s].job] = res]
  /\ bufs' = bufs - 2
  /\ snd' = [snd EXCEPT ![s] = [pc |-> "check", q |-> @.q, job |-> NoJob]]

\* The end of _send_msg: the buffer is freed and the thread looks for the
\* next job; with RETRY_TIMES = 0 the unbound msg_state ends it.
SndDone(s, res) ==
  /\ result' = [result EXCEPT ![snd[s].job] = res]
  /\ bufs' = bufs - 1
  /\ snd' = [snd EXCEPT ![s] = IF RetryTimes = 0 THEN SndIdle
                              ELSE [pc |-> "check", q |-> @.q, job |-> NoJob]]

\* Another send is due after one with the state st, n sends so far.
Again(st, n) == st = "RETRY" /\ n < RetryTimes

\* One rmr_send_msg of the loop of _send_msg: none with RETRY_TIMES = 0.
SndAttempt(s, st) ==
  LET j == snd[s].job
      n == IF RetryTimes = 0 THEN 0 ELSE tries[j] + 1 IN
  /\ snd[s].pc = "send"
  /\ tries' = [tries EXCEPT ![j] = n]
  /\ \/ Again(st, n) /\ UNCHANGED <<snd, bufs, result>>
     \/ /\ ~Again(st, n)
        /\ SndDone(s, IF st = "OK" /\ n > 0 THEN "sent" ELSE "failed")
  /\ UNCHANGED sendQ /\ SndSame

SenderStep(s) ==
  \/ SndCheck(s) \/ SndGet(s)
  \/ \E st \in SendStates : SndAttempt(s, st)

-----------------------------------------------------------------------------
(***************************************************************************)
(* loop: one pass starts a sender, handles the messages of the mailbox and *)
(* sleeps.                                                                 *)
(***************************************************************************)
LoopSame == UNCHANGED <<sendQ, goOn, health, accepted, jobLog>>

\* A step of the handling of the message at the head of the batch.
LoopAt(pc) == loop.pc = pc /\ UNCHANGED <<snd, stale, bufs>> /\ LoopSame
LoopGoto(pc) == loop' = [loop EXCEPT !.pc = pc]

\* An exception that loop does not catch ends the thread.
LoopDies == LoopGoto("dead")

\* Bug: a sender is started only if there is something to send, and the queue
\* of deliveries is forgotten.
SpawnSender_IfWork ==
  /\ loop.pc = "top" /\ goOn
  /\ \/ /\ sendQ["policy"] # <<>>
        /\ \E s \in Senders :
             /\ snd[s].pc = "idle"
             /\ snd' = [snd EXCEPT ![s] = [SndIdle EXCEPT !.pc = "check"]]
     \/ sendQ["policy"] = <<>> /\ UNCHANGED snd
  /\ LoopGoto("recv")
  /\ UNCHANGED <<stale, bufs>> /\ LoopSame

\* Bound: the loop waits for a free slot to start the sender in.
SpawnSender ==
  /\ loop.pc = "top" /\ goOn
  /\ \E s \in Senders :
       /\ snd[s].pc = "idle"
       /\ snd' = [snd EXCEPT ![s] = [SndIdle EXCEPT !.pc = "check"]]
  /\ LoopGoto("recv")
  /\ UNCHANGED <<stale, bufs>> /\ LoopSame

LoopEnds == LoopAt("top") /\ ~goOn /\ LoopGoto("ended")

\* rcv_func: the messages in the mailbox, each in a buffer of its own.
Receive ==
  /\ loop.pc = "recv"
  /\ \E n \in 0..MaxBatch : \E b \in [1..n -> Messages] :
       /\ loop' = [loop EXCEPT !.batch = b, !.pc = "next"]
       /\ bufs' = bufs + n
  /\ UNCHANGED <<snd, stale>> /\ LoopSame

\* A message without a type is reported as dropped and then treated as one
\* of the type of the message before it.
MessageType == LET m == Head(loop.batch) IN
  IF m.type = "malformed" THEN loop.mtype ELSE m.type

\* A message without a type has no payload either.
Payload == LET m == Head(loop.batch) IN
  IF m.type = "malformed" THEN "none" ELSE IF m.readable THEN "good" ELSE "bad"

\* Where the if of loop may go to.  The handlers of policy messages catch what
\* reading the payload raises, but for a UnicodeDecodeError of bytes that are
\* no text; the one of A1_EI_CREATE_JOB catches nothing, and the one of
\* A1_EI_QUERY_ALL does not read it.
Handler(type, payload) ==
  CASE type = "unbound"                                  -> {"dead"}
    [] type = "response" /\ payload = "good"             -> {"status"}
    [] type = "query" /\ payload = "good"                -> {"list"}
    [] type \in {"response", "query"} /\ payload = "bad" -> {"free", "dead"}
    [] type = "ei_query"                                 -> {"ei_query"}
    [] type = "ei_job" /\ payload = "good"               -> {"ei_job"}
    [] type = "ei_job" /\ payload # "good"               -> {"dead"}
    [] OTHER                                             -> {"free"}

\* Bug: `continue' after a malformed message skips the rmr_free_msg.
Dispatch_Continue ==
  /\ LoopAt("next") /\ loop.batch # <<>>
  /\ IF Head(loop.batch).type = "malformed"
     THEN loop' = [loop EXCEPT !.batch = Tail(@)]
     ELSE \E pc \in Handler(MessageType, Payload) :
            loop' = [loop EXCEPT !.mtype = MessageType, !.pc = pc]

\* The body of `for (msg, sbuf) in self.rcv_func()' up to its first call.
Dispatch ==
  /\ LoopAt("next") /\ loop.batch # <<>>
  /\ \E pc \in Handler(MessageType, Payload) :
       loop' = [loop EXCEPT !.mtype = MessageType, !.pc = pc]

\* set_policy_instance_status returns, raises a caught exception, or an SDL
\* error.
HandleResponse == LoopAt("status") /\ (LoopGoto("free") \/ LoopDies)

\* get_instance_list finds n instances, raises PolicyTypeNotFound, or an SDL
\* error.
HandleQuery ==
  /\ LoopAt("list")
  /\ \/ \E n \in 0..MaxFound :
          loop' = [loop EXCEPT !.pc = "instance", !.left = n]
     \/ LoopGoto("free")
     \/ LoopDies

\* get_policy_instance of the next one, which is returned to the sender;
\* PolicyInstanceNotFound and SDL errors are not caught.
QueryInstance ==
  /\ LoopAt("instance")
  /\ \/ loop.left = 0 /\ LoopGoto("free")
     \/ /\ loop.left > 0
        /\ \/ loop' = [loop EXCEPT !.pc = "rts", !.left = @ - 1, !.tries = 0]
           \/ loop' = [loop EXCEPT !.pc = "free", !.left = 0]
           \/ LoopDies

\* The answer of the A1-EI service to a query, whatever its status, is
\* returned to the sender; requests may raise, and so may resp.json().
EiQueryAnswer ==
  LoopAt("ei_query") /\ (loop' = [loop EXCEPT !.pc = "rts", !.tries = 0]
                         \/ LoopDies)

\* The job was created (200, 201), or not, or requests raises.
EiJobAnswer ==
  LoopAt("ei_job") /\ (\/ loop' = [loop EXCEPT !.pc = "rts", !.tries = 0]
                       \/ LoopGoto("free")
                       \/ LoopDies)

\* One rmr_rts_msg of the loop of _rts_msg; with RETRY_TIMES = 0 there is
\* none, and the unbound msg_state ends the loop.
Rts(st) ==
  /\ LoopAt("rts")
  /\ IF RetryTimes = 0 THEN LoopDies
     ELSE loop' = IF Again(st, loop.tries + 1)
                  THEN [loop EXCEPT !.tries = @ + 1]
                  ELSE [loop EXCEPT !.tries = 0,
                          !.pc = IF loop.mtype = "query" THEN "instance"
                                                         ELSE "free"]

\* rmr_free_msg, and on to the next message.
FreeMessage ==
  /\ loop.pc = "free"
  /\ loop' = [loop EXCEPT !.batch = Tail(@), !.pc = "next"]
  /\ bufs' = bufs - 1
  /\ UNCHANGED <<snd, stale>> /\ LoopSame

\* The end of the pass: last_ran is set, then the loop sleeps for a second.
PassDone ==
  /\ loop.pc = "next" /\ loop.batch = <<>>
  /\ stale' = FALSE
  /\ LoopGoto("top")
  /\ UNCHANGED <<snd, bufs>> /\ LoopSame

EiAnswer == EiQueryAnswer \/ EiJobAnswer

LoopStep ==
  \/ SpawnSender \/ LoopEnds \/ Receive \/ Dispatch \/ HandleResponse
  \/ HandleQuery \/ QueryInstance \/ FreeMessage \/ PassDone
  \/ \E st \in SendStates : Rts(st)

-----------------------------------------------------------------------------
(***************************************************************************)
(* Health.                                                                 *)
(***************************************************************************)

\* stop_rmr_thread
stop_rmr_thread ==
  /\ goOn /\ goOn' = FALSE
  /\ UNCHANGED <<sendQ, snd, loop, stale, bufs, health, accepted, jobLog>>

\* The thread has ended, or is in a call that may block: SDL, the A1-EI
\* service (requests are sent without a timeout), a first send to an xApp.
Blocked ==
  loop.pc \in {"dead", "ended", "status", "list", "instance", "ei_query",
               "ei_job", "rts"}

\* 30 seconds have passed since last_ran.
Elapse ==
  /\ ~stale /\ Blocked
  /\ stale' = TRUE
  /\ UNCHANGED <<sendQ, snd, loop, goOn, bufs, health, accepted, jobLog>>

\* Bug: a loop that is stuck passes for healthy.
RmrHealthy_AliveOnly == loop.pc \notin {"dead", "ended"}

\* healthcheck_rmr_thread
RmrHealthy == loop.pc \notin {"dead", "ended"} /\ ~stale

\* get_healthcheck; sdlOk is what SDL.healthcheck() returns.
get_healthcheck(sdlOk) ==
  /\ health' = IF RmrHealthy /\ sdlOk THEN 200 ELSE 500
  /\ UNCHANGED <<sendQ, snd, loop, goOn, stale, bufs, accepted, jobLog>>

\* Kubernetes restarts the process when its health check fails: the queues
\* are in memory.
Restart ==
  /\ health = 500
  /\ sendQ' = [q \in QueueNames |-> <<>>]
  /\ snd' = [s \in Senders |-> SndIdle]
  /\ loop' = LoopStart
  /\ goOn' = TRUE
  /\ stale' \in BOOLEAN
  /\ bufs' = 0
  /\ health' = 200
  /\ accepted' = [q \in QueueNames |-> <<>>]
  /\ tries' = [j \in Jobs |-> 0]
  /\ result' = [j \in Jobs |-> "none"]

-----------------------------------------------------------------------------
Next ==
  \/ \E j \in PolicyJobs : queue_instance_send(j)
  \/ \E j \in EiJobs : data_delivery(j)
  \/ \E s \in Senders : SenderStep(s)
  \/ LoopStep \/ EiAnswer
  \/ stop_rmr_thread \/ Elapse \/ Restart
  \/ \E ok \in BOOLEAN : get_healthcheck(ok)

Spec == Init /\ [][Next]_vars

\* The threads are scheduled, time passes, and Kubernetes probes the health
\* check and acts on it.  The A1-EI service need not answer.
Fairness ==
  /\ \A s \in Senders : WF_vars(SenderStep(s))
  /\ WF_vars(LoopStep)
  /\ WF_vars(Elapse)
  /\ WF_vars(\E ok \in BOOLEAN : get_healthcheck(ok))
  /\ WF_vars(Restart)

FairSpec == Spec /\ Fairness

-----------------------------------------------------------------------------
(***************************************************************************)
(* Safety.                                                                 *)
(***************************************************************************)
LoopPcs == {"top", "recv", "next", "status", "list", "instance", "ei_query",
            "ei_job", "rts", "free", "dead", "ended"}

\* Every variable has its type, and a sender that sends has a job to send.
TypeOK ==
  /\ sendQ \in [QueueNames -> Seq(Jobs)]
  /\ accepted \in [QueueNames -> Seq(Jobs)]
  /\ snd \in [Senders -> [pc : {"idle", "check", "get", "send"},
                          q : QueueNames, job : Jobs \cup {NoJob}]]
  /\ \A s \in Senders : snd[s].pc = "send" <=> snd[s].job \in Jobs
  /\ loop \in [pc : LoopPcs, mtype : MsgTypes \cup {"unbound"},
               batch : Seq(Messages), left : Nat, tries : Nat]
  /\ loop.pc \in LoopPcs \ {"top", "recv", "next", "dead", "ended"} =>
       loop.batch # <<>>
  /\ goOn \in BOOLEAN /\ stale \in BOOLEAN
  /\ bufs \in Nat /\ health \in {200, 500}
  /\ tries \in [Jobs -> Nat]
  /\ result \in [Jobs -> {"none", "sent", "failed", "refused"}]

Sending(s) == snd[s].pc = "send"
Waiting(j) == \E q \in QueueNames : j \in Entries(sendQ[q])
Held(j) == \E s \in Senders : Sending(s) /\ snd[s].job = j

\* However senders overlap, a job is never handed to two of them, and one
\* that is being sent or is done with does not wait in a queue any more: no
\* xApp gets the same request twice (a1rmr.py 163-180, 199).
HandedOnce ==
  /\ \A s1, s2 \in Senders :
       Sending(s1) /\ Sending(s2) /\ snd[s1].job = snd[s2].job => s1 = s2
  /\ \A j \in Jobs : Held(j) => ~Waiting(j) /\ result[j] = "none"
  /\ \A j \in Jobs : Waiting(j) => result[j] = "none"

\* A job that was taken from queue q has been or is being sent or refused.
Taken(q, i) == Held(accepted[q][i]) \/ result[accepted[q][i]] # "none"

\* The queues lose nothing and keep the order: what waits are the latest jobs
\* in the order in which they were put, and all earlier ones are being sent
\* or are done, although a sender may die on queue.Empty or on a bad job
\* number.  A job can be overtaken only by one that another sender takes
\* while it is being sent (a1rmr.py 163-180, 314-327).
QueuesKeepOrder ==
  \A q \in QueueNames :
    LET n == Len(accepted[q]) - Len(sendQ[q]) IN
    /\ n >= 0
    /\ \A i \in 1..Len(sendQ[q]) : sendQ[q][i] = accepted[q][n + i]
    /\ \A i \in 1..n : Taken(q, i)

\* Every rmr buffer, of a message to send or of a received one, is freed
\* exactly once on every path that does not end the loop (a1rmr.py 140, 277-278:
\* "we must free each sbuf").
BuffersFreed ==
  bufs = Cardinality({s \in Senders : Sending(s)}) + Len(loop.batch)

-----------------------------------------------------------------------------
(***************************************************************************)
(* Liveness, under FairSpec.                                               *)
(***************************************************************************)

\* A job that was put on a queue is sent, given up or refused, unless the
\* process is restarted: a sender that died has successors (a1rmr.py 199).
JobsHandled ==
  \A j \in Jobs :
    Waiting(j) \/ Held(j) ~> ~(Waiting(j) \/ Held(j))

\* The loop comes round again and again: if it dies, is stopped or is stuck
\* in a call, the health check tells and the process is restarted (a1rmr.py
\* 330-336; controller.py 71-85).
LoopKeepsRunning == []<>(loop.pc = "top")
=============================================================================
