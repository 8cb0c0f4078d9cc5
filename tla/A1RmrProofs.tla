----------------------------- MODULE A1RmrProofs -----------------------------
(***************************************************************************)
(* The job queues of the rmr loop lose no job, hand none out twice and     *)
(* keep their order, for any number of jobs, senders, messages and         *)
(* retries; and every rmr buffer is freed once.                            *)
(*                                                                         *)
(* HandedOnce and QueuesKeepOrder are not inductive: that a job taken from *)
(* a queue is not held by another sender already needs that what is held,  *)
(* or has a result, was taken from the queue before, and that no job was   *)
(* put on a queue twice.  JobInv adds this.                                *)
(***************************************************************************)
EXTENDS A1Rmr, FiniteSetTheorems, TLAPS

JobsOf(q) == IF q = "policy" THEN PolicyJobs ELSE EiJobs

\* How many jobs have been taken from queue q.
TakenCount(q) == Len(accepted[q]) - Len(sendQ[q])

\* The types of what the invariant is about.
JobTypeOK ==
  /\ sendQ \in [QueueNames -> Seq(Jobs)]
  /\ accepted \in [QueueNames -> Seq(Jobs)]
  /\ snd \in [Senders -> [pc : {"idle", "check", "get", "send"},
                          q : QueueNames, job : Jobs \cup {NoJob}]]
  /\ \A s \in Senders : snd[s].pc = "send" => snd[s].job \in Jobs
  /\ result \in [Jobs -> {"none", "sent", "failed", "refused"}]

\* A queue gets its own jobs, and each of them once.
AcceptedOnce ==
  \A q \in QueueNames :
    /\ \A i \in 1..Len(accepted[q]) : accepted[q][i] \in JobsOf(q)
    /\ \A i, k \in 1..Len(accepted[q]) :
         accepted[q][i] = accepted[q][k] => i = k

\* Job j is one of those that have been taken.
WasTaken(j) ==
  \E q \in QueueNames : \E i \in 1..TakenCount(q) : accepted[q][i] = j

OneHolder ==
  \A s1, s2 \in Senders :
    Sending(s1) /\ Sending(s2) /\ snd[s1].job = snd[s2].job => s1 = s2

HeldOpen ==
  \A s \in Senders :
    Sending(s) => WasTaken(snd[s].job) /\ result[snd[s].job] = "none"

ResultTaken == \A j \in Jobs : result[j] # "none" => WasTaken(j)

JobInv ==
  /\ JobTypeOK /\ AcceptedOnce /\ QueuesKeepOrder
  /\ OneHolder /\ HeldOpen /\ ResultTaken

\* JobInv holds when the process starts: nothing was accepted.
LEMMA JobInit == Init => JobInv
<1> SUFFICES ASSUME Init PROVE JobInv
  OBVIOUS
<1>1. JobTypeOK
  BY DEF Init, JobTypeOK, SndIdle, QueueNames
<1>2. AcceptedOnce
  BY DEF Init, AcceptedOnce
<1>3. QueuesKeepOrder
  BY DEF Init, QueuesKeepOrder
<1>4. \A s \in Senders : ~Sending(s)
  BY DEF Init, Sending, SndIdle
<1>5. ResultTaken
  BY DEF Init, ResultTaken
<1> QED
  BY <1>1, <1>2, <1>3, <1>4, <1>5 DEF JobInv, OneHolder, HeldOpen

\* A step that changes no queue, no result and no job that is being sent
\* preserves JobInv.
LEMMA SameJobs ==
  ASSUME JobInv, JobTypeOK', UNCHANGED <<sendQ, accepted, result>>,
         \A s \in Senders : /\ Sending(s)' <=> Sending(s)
                            /\ Sending(s) => snd'[s].job = snd[s].job
  PROVE  JobInv'
<1>1. AcceptedOnce' /\ ResultTaken'
  BY DEF JobInv, AcceptedOnce, ResultTaken, WasTaken, TakenCount
<1>2. \A j \in Jobs : Held(j)' <=> Held(j)
  BY DEF Held
<1>3. QueuesKeepOrder'
  <2> SUFFICES ASSUME NEW q \in QueueNames
               PROVE  LET n == Len(accepted[q]) - Len(sendQ[q]) IN
                      /\ n >= 0
                      /\ \A i \in 1..Len(sendQ[q]) :
                           sendQ[q][i] = accepted[q][n + i]
                      /\ \A i \in 1..n : Taken(q, i)'
    BY DEF QueuesKeepOrder
  <2>1. \A i \in 1..(Len(accepted[q]) - Len(sendQ[q])) :
          Taken(q, i) => Taken(q, i)'
    BY DEF Taken, Held
  <2> QED
    BY <2>1 DEF JobInv, QueuesKeepOrder
<1>4. OneHolder' /\ HeldOpen'
  BY DEF JobInv, OneHolder, HeldOpen, WasTaken, TakenCount
<1> QED
  BY <1>1, <1>3, <1>4 DEF JobInv

\* QueuesKeepOrder of one queue.
LEMMA KeepsOrder ==
  ASSUME JobInv, NEW q \in QueueNames
  PROVE  /\ Len(accepted[q]) \in Nat /\ Len(sendQ[q]) \in Nat
         /\ TakenCount(q) \in Nat
         /\ TakenCount(q) + Len(sendQ[q]) = Len(accepted[q])
         /\ \A i \in 1..Len(sendQ[q]) :
              /\ sendQ[q][i] = accepted[q][TakenCount(q) + i]
              /\ TakenCount(q) + i \in 1..Len(accepted[q])
         /\ \A i \in 1..TakenCount(q) :
              Taken(q, i) /\ i \in 1..Len(accepted[q])
<1>1. sendQ[q] \in Seq(Jobs) /\ accepted[q] \in Seq(Jobs)
  BY DEF JobInv, JobTypeOK
<1>2. Len(sendQ[q]) \in Nat /\ Len(accepted[q]) \in Nat
  BY <1>1
<1>3. /\ TakenCount(q) >= 0
      /\ \A i \in 1..Len(sendQ[q]) : sendQ[q][i] = accepted[q][TakenCount(q) + i]
      /\ \A i \in 1..TakenCount(q) : Taken(q, i)
  BY Zenon DEF JobInv, QueuesKeepOrder, TakenCount
<1>4. TakenCount(q) \in Nat /\ TakenCount(q) + Len(sendQ[q]) = Len(accepted[q])
  BY <1>2, <1>3 DEF TakenCount
<1>5. \A i \in 1..Len(sendQ[q]) : TakenCount(q) + i \in 1..Len(accepted[q])
  BY <1>2, <1>4
<1>6. \A i \in 1..TakenCount(q) : i \in 1..Len(accepted[q])
  BY <1>2, <1>4
<1> QED
  BY <1>2, <1>3, <1>4, <1>5, <1>6

\* The first job of a queue is the next of the accepted ones, and nobody has
\* taken it: it has no result and no sender.
LEMMA HeadFresh ==
  ASSUME JobInv, NEW q \in QueueNames, sendQ[q] # <<>>
  PROVE  /\ TakenCount(q) \in Nat
         /\ TakenCount(q) + 1 \in 1..Len(accepted[q])
         /\ Head(sendQ[q]) = accepted[q][TakenCount(q) + 1]
         /\ Head(sendQ[q]) \in Jobs
         /\ ~WasTaken(Head(sendQ[q]))
         /\ result[Head(sendQ[q])] = "none"
         /\ \A s \in Senders : Sending(s) => snd[s].job # Head(sendQ[q])
<1> DEFINE n == TakenCount(q)  j == Head(sendQ[q])
<1>1. sendQ[q] \in Seq(Jobs) /\ accepted[q] \in Seq(Jobs)
  BY DEF JobInv, JobTypeOK
<1>2. Len(sendQ[q]) \in Nat \ {0} /\ Len(accepted[q]) \in Nat
  BY <1>1
<1>3. n \in Nat /\ n + 1 \in 1..Len(accepted[q])
  BY <1>2, KeepsOrder
<1>4. j = sendQ[q][1] /\ j \in Jobs
  BY <1>1, <1>2
<1>5. j = accepted[q][n + 1]
  BY <1>2, <1>3, <1>4, KeepsOrder
<1>6. ~WasTaken(j)
  <2> SUFFICES ASSUME NEW p \in QueueNames, NEW i \in 1..TakenCount(p),
                      accepted[p][i] = j
               PROVE  FALSE
    BY DEF WasTaken
  <2>1. accepted[p] \in Seq(Jobs) /\ sendQ[p] \in Seq(Jobs)
    BY DEF JobInv, JobTypeOK
  <2>2. Len(accepted[p]) \in Nat /\ Len(sendQ[p]) \in Nat
    BY <2>1
  <2>3. i \in 1..Len(accepted[p])
    BY <2>2 DEF TakenCount
  <2>4. j \in JobsOf(p) /\ j \in JobsOf(q)
    BY <2>3, <1>3, <1>5 DEF JobInv, AcceptedOnce
  <2>5. p = q
    BY <2>4, JobsAssumption DEF JobsOf, QueueNames
  <2>6. i = n + 1
    BY <2>3, <2>5, <1>3, <1>5 DEF JobInv, AcceptedOnce
  <2> QED
    BY <2>5, <2>6, <1>3
<1>7. result[j] = "none"
  BY <1>4, <1>6 DEF JobInv, ResultTaken
<1>8. \A s \in Senders : Sending(s) => snd[s].job # j
  BY <1>6 DEF JobInv, HeldOpen
<1> QED
  BY <1>3, <1>4, <1>5, <1>6, <1>7, <1>8

\* Putting a job that was not accepted before at the end of its queue
\* preserves JobInv.
LEMMA PutInv ==
  ASSUME JobInv, NEW q \in QueueNames, NEW j \in JobsOf(q), Put(q, j)
  PROVE  JobInv'
<1>1. /\ j \in Jobs
      /\ sendQ \in [QueueNames -> Seq(Jobs)]
      /\ accepted \in [QueueNames -> Seq(Jobs)]
  BY DEF JobInv, JobTypeOK, JobsOf, Jobs
<1>2. /\ sendQ' = [sendQ EXCEPT ![q] = Append(sendQ[q], j)]
      /\ accepted' = [accepted EXCEPT ![q] = Append(accepted[q], j)]
      /\ UNCHANGED <<snd, result>>
      /\ j \notin Entries(accepted[q])
  BY DEF Put, jobLog
<1>3. JobTypeOK'
  BY <1>1, <1>2 DEF JobInv, JobTypeOK
<1>4. ASSUME NEW p \in QueueNames
      PROVE  /\ Len(accepted[p]) \in Nat /\ Len(sendQ[p]) \in Nat
             /\ TakenCount(p)' = TakenCount(p)
             /\ \A i \in 1..Len(accepted[p]) : accepted'[p][i] = accepted[p][i]
             /\ \A i \in 1..Len(sendQ[p]) : sendQ'[p][i] = sendQ[p][i]
  <2>1. accepted[p] \in Seq(Jobs) /\ sendQ[p] \in Seq(Jobs)
    BY <1>1
  <2>2. CASE p = q
    BY <2>1, <2>2, <1>1, <1>2 DEF TakenCount
  <2>3. CASE p # q
    BY <2>1, <2>3, <1>1, <1>2 DEF TakenCount
  <2> QED
    BY <2>2, <2>3
<1>5. /\ Len(accepted'[q]) = Len(accepted[q]) + 1
      /\ accepted'[q][Len(accepted[q]) + 1] = j
      /\ Len(sendQ'[q]) = Len(sendQ[q]) + 1
      /\ sendQ'[q][Len(sendQ[q]) + 1] = j
      /\ \A p \in QueueNames \ {q} :
           accepted'[p] = accepted[p] /\ sendQ'[p] = sendQ[p]
  BY <1>1, <1>2
<1>6. \A p \in QueueNames :
        TakenCount(p) \in Nat /\ TakenCount(p) <= Len(accepted[p])
  BY <1>4, KeepsOrder
<1>7. \A k \in Jobs : WasTaken(k) <=> WasTaken(k)'
  <2>1. \A p \in QueueNames : 1..TakenCount(p)' = 1..TakenCount(p)
    BY <1>4
  <2>2. \A p \in QueueNames : \A i \in 1..TakenCount(p) :
          accepted'[p][i] = accepted[p][i]
    BY <1>4, <1>6
  <2> QED
    BY <2>1, <2>2, Zenon DEF WasTaken
<1>8. AcceptedOnce'
  <2> SUFFICES ASSUME NEW p \in QueueNames
               PROVE  /\ \A i \in 1..Len(accepted'[p]) :
                           accepted'[p][i] \in JobsOf(p)
                      /\ \A i, k \in 1..Len(accepted'[p]) :
                           accepted'[p][i] = accepted'[p][k] => i = k
    BY DEF AcceptedOnce
  <2>1. CASE p # q
    BY <2>1, <1>5 DEF JobInv, AcceptedOnce
  <2>2. CASE p = q
    <3>1. \A i \in 1..Len(accepted[q]) : accepted[q][i] # j
      BY <1>2 DEF Entries
    <3>2. \A i \in 1..Len(accepted'[q]) :
            i \in 1..Len(accepted[q]) \/ i = Len(accepted[q]) + 1
      BY <1>4, <1>5
    <3>3. /\ \A i \in 1..Len(accepted[q]) : accepted[q][i] \in JobsOf(q)
          /\ \A i, k \in 1..Len(accepted[q]) :
               accepted[q][i] = accepted[q][k] => i = k
      BY DEF JobInv, AcceptedOnce
    <3>4. \A i \in 1..Len(accepted[q]) : accepted'[q][i] = accepted[q][i]
      BY <1>4
    <3>5. \A i \in 1..Len(accepted'[q]) : accepted'[q][i] \in JobsOf(q)
      BY <3>2, <3>3, <3>4, <1>5
    <3>6. ASSUME NEW i \in 1..Len(accepted'[q]), NEW k \in 1..Len(accepted'[q]),
                 accepted'[q][i] = accepted'[q][k]
          PROVE  i = k
      <4>1. CASE i \in 1..Len(accepted[q]) /\ k \in 1..Len(accepted[q])
        BY <4>1, <3>3, <3>4, <3>6
      <4>2. CASE i \in 1..Len(accepted[q]) /\ k = Len(accepted[q]) + 1
        BY <4>2, <3>1, <3>4, <3>6, <1>5
      <4>3. CASE i = Len(accepted[q]) + 1 /\ k \in 1..Len(accepted[q])
        BY <4>3, <3>1, <3>4, <3>6, <1>5
      <4>4. CASE i = Len(accepted[q]) + 1 /\ k = Len(accepted[q]) + 1
        BY <4>4
      <4> QED
        BY <3>2, <4>1, <4>2, <4>3, <4>4
    <3> QED
      BY <2>2, <3>5, <3>6
  <2> QED
    BY <2>1, <2>2
<1>9. QueuesKeepOrder'
  <2> SUFFICES ASSUME NEW p \in QueueNames
               PROVE  /\ TakenCount(p)' >= 0
                      /\ \A i \in 1..Len(sendQ'[p]) :
                           sendQ'[p][i] = accepted'[p][TakenCount(p)' + i]
                      /\ \A i \in 1..TakenCount(p)' : Taken(p, i)'
    BY DEF QueuesKeepOrder, TakenCount
  <2>1. /\ TakenCount(p)' = TakenCount(p)
        /\ TakenCount(p) \in Nat /\ TakenCount(p) <= Len(accepted[p])
    BY <1>4, <1>6
  <2>2. \A i \in 1..Len(sendQ[p]) :
          /\ sendQ[p][i] = accepted[p][TakenCount(p) + i]
          /\ TakenCount(p) + i \in 1..Len(accepted[p])
    BY KeepsOrder
  <2>3. \A i \in 1..Len(sendQ'[p]) :
          sendQ'[p][i] = accepted'[p][TakenCount(p) + i]
    <3>1. CASE p # q
      BY <3>1, <2>2, <1>5
    <3>2. CASE p = q
      <4>1. TakenCount(q) + Len(sendQ[q]) + 1 = Len(accepted[q]) + 1
        BY <1>4 DEF TakenCount
      <4>2. \A i \in 1..Len(sendQ'[q]) :
              i \in 1..Len(sendQ[q]) \/ i = Len(sendQ[q]) + 1
        BY <1>4, <1>5
      <4>3. \A i \in 1..Len(sendQ[q]) :
              sendQ'[q][i] = accepted'[q][TakenCount(q) + i]
        BY <3>2, <2>2, <1>4
      <4>4. sendQ'[q][Len(sendQ[q]) + 1]
              = accepted'[q][TakenCount(q) + (Len(sendQ[q]) + 1)]
        <5>1. TakenCount(q) \in Nat /\ Len(sendQ[q]) \in Nat
          BY <3>2, <2>1, <1>4
        <5>2. TakenCount(q) + (Len(sendQ[q]) + 1) = Len(accepted[q]) + 1
          BY <5>1, <4>1
        <5> QED
          BY <5>2, <1>5
      <4> QED
        BY <3>2, <4>2, <4>3, <4>4
    <3> QED
      BY <3>1, <3>2
  <2>4. \A i \in 1..TakenCount(p) : Taken(p, i)'
    <3> SUFFICES ASSUME NEW i \in 1..TakenCount(p) PROVE Taken(p, i)'
      OBVIOUS
    <3>1. Taken(p, i)
      BY DEF JobInv, QueuesKeepOrder, TakenCount
    <3>2. accepted'[p][i] = accepted[p][i]
      BY <1>4, <2>1
    <3> QED
      BY <3>1, <3>2, <1>2 DEF Taken, Held, Sending
  <2> QED
    BY <2>1, <2>3, <2>4
<1>10. OneHolder' /\ HeldOpen' /\ ResultTaken'
  BY <1>2, <1>7 DEF JobInv, JobTypeOK, OneHolder, HeldOpen, ResultTaken,
                    Sending
<1> QED
  BY <1>3, <1>8, <1>9, <1>10 DEF JobInv

\* A sender s that takes the first job of a queue, and either goes on to send
\* it or refuses it, preserves JobInv.
LEMMA TakeInv ==
  ASSUME JobInv, NEW s \in Senders, NEW q \in QueueNames, sendQ[q] # <<>>,
         NEW j, j = Head(sendQ[q]), ~Sending(s), JobTypeOK', UNCHANGED accepted,
         sendQ' = [sendQ EXCEPT ![q] = Tail(sendQ[q])],
         \A x \in Senders \ {s} : snd'[x] = snd[x],
         \/ /\ Sending(s)' /\ snd'[s].job = j
            /\ UNCHANGED result
         \/ /\ ~Sending(s)'
            /\ result' = [result EXCEPT ![j] = "refused"]
  PROVE  JobInv'
<1>1. /\ TakenCount(q) \in Nat
      /\ TakenCount(q) + 1 \in 1..Len(accepted[q])
      /\ j = accepted[q][TakenCount(q) + 1] /\ j \in Jobs
      /\ ~WasTaken(j) /\ result[j] = "none"
      /\ \A x \in Senders : Sending(x) => snd[x].job # j
  BY HeadFresh
<1>2. /\ sendQ \in [QueueNames -> Seq(Jobs)]
      /\ result \in [Jobs -> {"none", "sent", "failed", "refused"}]
      /\ sendQ[q] \in Seq(Jobs)
  BY DEF JobInv, JobTypeOK
<1>3. /\ Len(sendQ'[q]) = Len(sendQ[q]) - 1
      /\ \A i \in 1..Len(sendQ'[q]) : sendQ'[q][i] = sendQ[q][i + 1]
      /\ \A p \in QueueNames \ {q} : sendQ'[p] = sendQ[p]
  BY <1>2
<1>4. /\ TakenCount(q)' = TakenCount(q) + 1
      /\ \A p \in QueueNames \ {q} : TakenCount(p)' = TakenCount(p)
  <2>1. Len(accepted[q]) \in Nat /\ Len(sendQ[q]) \in Nat
    BY KeepsOrder
  <2>2. TakenCount(q)' = Len(accepted[q]) - (Len(sendQ[q]) - 1)
    BY <1>3 DEF TakenCount
  <2>3. \A p \in QueueNames \ {q} : TakenCount(p)' = TakenCount(p)
    BY <1>3 DEF TakenCount
  <2>4. Len(accepted[q]) - (Len(sendQ[q]) - 1) = TakenCount(q) + 1
    BY <2>1 DEF TakenCount
  <2> QED
    BY <2>2, <2>3, <2>4
<1>5. \A x \in Senders \ {s} : Sending(x)' <=> Sending(x)
  BY DEF Sending
<1>6. \A k \in Jobs : WasTaken(k) => WasTaken(k)'
  BY <1>1, <1>4 DEF WasTaken
<1>7. WasTaken(j)'
  BY <1>1, <1>4 DEF WasTaken
<1>8. \A k \in Jobs \ {j} : result'[k] = result[k]
  BY <1>1, <1>2
<1>9. \A k \in Jobs : Held(k) => Held(k)'
  BY <1>5 DEF Held
<1>10. Held(j)' \/ result'[j] # "none"
  BY <1>1, <1>2 DEF Held
<1>11. QueuesKeepOrder'
  <2> SUFFICES ASSUME NEW p \in QueueNames
               PROVE  /\ TakenCount(p)' >= 0
                      /\ \A i \in 1..Len(sendQ'[p]) :
                           sendQ'[p][i] = accepted'[p][TakenCount(p)' + i]
                      /\ \A i \in 1..TakenCount(p)' : Taken(p, i)'
    BY DEF QueuesKeepOrder, TakenCount
  <2>1. /\ Len(accepted[p]) \in Nat /\ Len(sendQ[p]) \in Nat
        /\ TakenCount(p) \in Nat
        /\ \A i \in 1..Len(sendQ[p]) :
             /\ sendQ[p][i] = accepted[p][TakenCount(p) + i]
             /\ TakenCount(p) + i \in 1..Len(accepted[p])
        /\ \A i \in 1..TakenCount(p) :
             Taken(p, i) /\ i \in 1..Len(accepted[p])
    BY KeepsOrder
  <2>2. \A i \in 1..TakenCount(p) : Taken(p, i)'
    <3> SUFFICES ASSUME NEW i \in 1..TakenCount(p) PROVE Taken(p, i)'
      OBVIOUS
    <3>1. accepted[p][i] \in Jobs
      BY <2>1 DEF JobInv, JobTypeOK
    <3>2. WasTaken(accepted[p][i])
      BY DEF WasTaken
    <3>3. accepted[p][i] # j
      BY <3>2, <1>1
    <3>4. Taken(p, i)
      BY <2>1
    <3> QED
      BY <3>1, <3>3, <3>4, <1>8, <1>9 DEF Taken
  <2>3. CASE p # q
    BY <2>1, <2>2, <2>3, <1>3, <1>4
  <2>4. CASE p = q
    <3>1. \A i \in 1..Len(sendQ'[q]) :
            sendQ'[q][i] = accepted'[q][(TakenCount(q) + 1) + i]
      <4> SUFFICES ASSUME NEW i \in 1..Len(sendQ'[q])
                   PROVE  sendQ'[q][i] = accepted[q][(TakenCount(q) + 1) + i]
        OBVIOUS
      <4>1. i + 1 \in 1..Len(sendQ[q])
        BY <2>1, <2>4, <1>3
      <4>2. sendQ[q][i + 1] = accepted[q][TakenCount(q) + (i + 1)]
        BY <4>1, <2>1, <2>4
      <4>3. TakenCount(q) + (i + 1) = (TakenCount(q) + 1) + i
        BY <1>1
      <4> QED
        BY <4>2, <4>3, <1>3
    <3>2. ASSUME NEW i \in 1..(TakenCount(q) + 1) PROVE Taken(q, i)'
      <4>1. i \in 1..TakenCount(q) \/ i = TakenCount(q) + 1
        BY <1>1
      <4>2. i = TakenCount(q) + 1 => accepted[q][i] = j
        BY <1>1
      <4> QED
        BY <4>1, <4>2, <2>2, <2>4, <1>10 DEF Taken
    <3> QED
      BY <2>4, <3>1, <3>2, <1>1, <1>4
  <2> QED
    BY <2>3, <2>4
<1>12. OneHolder'
  BY <1>1, <1>5 DEF JobInv, OneHolder
<1>13. HeldOpen'
  <2> SUFFICES ASSUME NEW x \in Senders, Sending(x)'
               PROVE  WasTaken(snd[x].job)' /\ result'[snd'[x].job] = "none"
    BY DEF HeldOpen
  <2>1. CASE x = s
    BY <2>1, <1>1, <1>7
  <2>2. CASE x # s
    <3>1. Sending(x) /\ snd'[x] = snd[x] /\ snd[x].job # j
      BY <2>2, <1>1, <1>5
    <3>2. snd[x].job \in Jobs
      BY <3>1 DEF JobInv, JobTypeOK, Sending
    <3>3. WasTaken(snd[x].job) /\ result[snd[x].job] = "none"
      BY <3>1 DEF JobInv, HeldOpen
    <3> QED
      BY <3>1, <3>2, <3>3, <1>6, <1>8 DEF WasTaken
  <2> QED
    BY <2>1, <2>2
<1>14. ResultTaken'
  BY <1>6, <1>7, <1>8 DEF JobInv, ResultTaken
<1>15. AcceptedOnce'
  BY DEF JobInv, AcceptedOnce
<1> QED
  BY <1>11, <1>12, <1>13, <1>14, <1>15 DEF JobInv

\* A sender s that ends the sending of its job with a result preserves
\* JobInv.
LEMMA DoneInv ==
  ASSUME JobInv, NEW s \in Senders, Sending(s), ~Sending(s)', JobTypeOK',
         UNCHANGED <<sendQ, accepted>>,
         \A x \in Senders \ {s} : snd'[x] = snd[x],
         NEW res \in {"sent", "failed"},
         result' = [result EXCEPT ![snd[s].job] = res]
  PROVE  JobInv'
<1> DEFINE j == snd[s].job
<1>1. /\ j \in Jobs /\ WasTaken(j)
      /\ result \in [Jobs -> {"none", "sent", "failed", "refused"}]
  BY DEF JobInv, JobTypeOK, HeldOpen, Sending
<1>2. result'[j] # "none" /\ \A k \in Jobs \ {j} : result'[k] = result[k]
  BY <1>1
<1>3. \A x \in Senders \ {s} : Sending(x)' <=> Sending(x)
  BY DEF Sending
<1>4. \A k \in Jobs \ {j} : Held(k) => Held(k)'
  BY <1>3 DEF Held
<1>5. \A k \in Jobs : WasTaken(k) <=> WasTaken(k)'
  BY DEF WasTaken, TakenCount
<1>6. QueuesKeepOrder'
  <2> SUFFICES ASSUME NEW p \in QueueNames
               PROVE  /\ TakenCount(p)' >= 0
                      /\ \A i \in 1..Len(sendQ'[p]) :
                           sendQ'[p][i] = accepted'[p][TakenCount(p)' + i]
                      /\ \A i \in 1..TakenCount(p)' : Taken(p, i)'
    BY DEF QueuesKeepOrder, TakenCount
  <2>1. /\ TakenCount(p) \in Nat
        /\ \A i \in 1..Len(sendQ[p]) :
             sendQ[p][i] = accepted[p][TakenCount(p) + i]
        /\ \A i \in 1..TakenCount(p) :
             Taken(p, i) /\ i \in 1..Len(accepted[p])
    BY KeepsOrder
  <2>2. TakenCount(p)' = TakenCount(p)
    BY DEF TakenCount
  <2>3. \A i \in 1..TakenCount(p) : accepted[p][i] \in Jobs
    BY <2>1 DEF JobInv, JobTypeOK
  <2>4. \A i \in 1..TakenCount(p) : Taken(p, i)'
    BY <2>1, <2>3, <1>2, <1>4 DEF Taken
  <2> QED
    BY <2>1, <2>2, <2>4
<1>7. OneHolder'
  BY <1>3 DEF JobInv, OneHolder
<1>8. HeldOpen'
  <2> SUFFICES ASSUME NEW x \in Senders, Sending(x)'
               PROVE  WasTaken(snd[x].job)' /\ result'[snd'[x].job] = "none"
    BY DEF HeldOpen
  <2>1. x # s /\ Sending(x) /\ snd'[x] = snd[x]
    BY <1>3
  <2>2. snd[x].job # j
    BY <2>1 DEF JobInv, OneHolder
  <2>3. /\ snd[x].job \in Jobs /\ WasTaken(snd[x].job)
        /\ result[snd[x].job] = "none"
    BY <2>1 DEF JobInv, JobTypeOK, HeldOpen, Sending
  <2> QED
    BY <2>1, <2>2, <2>3, <1>2, <1>5 DEF WasTaken
<1>9. ResultTaken'
  BY <1>1, <1>2, <1>5 DEF JobInv, ResultTaken
<1>10. AcceptedOnce'
  BY DEF JobInv, AcceptedOnce
<1> QED
  BY <1>6, <1>7, <1>8, <1>9, <1>10 DEF JobInv

\* The handling of messages, time and the health check do not touch a job.
LEMMA OtherInv ==
  ASSUME JobInv, UNCHANGED <<sendQ, snd, accepted, result>>
  PROVE  JobInv'
<1>1. JobTypeOK'
  BY DEF JobInv, JobTypeOK
<1>2. \A s \in Senders : Sending(s)' <=> Sending(s)
  BY DEF Sending
<1> QED
  BY <1>1, <1>2, SameJobs

\* Every step of a sender preserves JobInv.
LEMMA SenderInv ==
  ASSUME JobInv, NEW s \in Senders, SenderStep(s)
  PROVE  JobInv'
<1>1. /\ sendQ \in [QueueNames -> Seq(Jobs)]
      /\ accepted \in [QueueNames -> Seq(Jobs)]
      /\ snd \in [Senders -> [pc : {"idle", "check", "get", "send"},
                              q : QueueNames, job : Jobs \cup {NoJob}]]
      /\ \A x \in Senders : snd[x].pc = "send" => snd[x].job \in Jobs
      /\ result \in [Jobs -> {"none", "sent", "failed", "refused"}]
  BY DEF JobInv, JobTypeOK
<1>2. snd[s].q \in QueueNames
  BY <1>1
<1>3. ASSUME SndCheck(s) PROVE JobInv'
  <2> DEFINE next == IF sendQ[snd[s].q] # <<>>
                     THEN [pc |-> "get", q |-> snd[s].q, job |-> NoJob]
                     ELSE IF snd[s].q = "policy"
                     THEN [pc |-> "check", q |-> "ei", job |-> NoJob]
                     ELSE SndIdle
  <2>1. /\ snd[s].pc = "check" /\ UNCHANGED <<sendQ, accepted, result>>
        /\ snd' = [snd EXCEPT ![s] = next]
    BY <1>3 DEF SndCheck, SndSame, jobLog
  <2>a. next \in [pc : {"idle", "check", "get"}, q : QueueNames, job : {NoJob}]
    BY <1>2 DEF SndIdle, QueueNames
  <2>2. PICK new \in [pc : {"idle", "check", "get"}, q : QueueNames,
                      job : {NoJob}] : snd' = [snd EXCEPT ![s] = new]
    BY <2>1, <2>a, Zenon
  <2>3. JobTypeOK'
    BY <2>1, <2>2, <1>1 DEF JobTypeOK
  <2>4. \A x \in Senders : /\ Sending(x)' <=> Sending(x)
                           /\ Sending(x) => snd'[x].job = snd[x].job
    BY <2>1, <2>2, <1>1 DEF Sending
  <2> QED
    BY <2>1, <2>3, <2>4, SameJobs
<1>4. ASSUME SndGet(s) PROVE JobInv'
  <2>1. snd[s].pc = "get" /\ ~Sending(s) /\ UNCHANGED accepted
    BY <1>4 DEF SndGet, SndSame, Sending
  <2>2. CASE /\ sendQ[snd[s].q] = <<>> /\ snd' = [snd EXCEPT ![s] = SndIdle]
             /\ UNCHANGED <<sendQ, bufs, result>>
    <3>1. JobTypeOK'
      BY <2>1, <2>2, <1>1 DEF JobTypeOK, SndIdle, QueueNames
    <3>2. \A x \in Senders : /\ Sending(x)' <=> Sending(x)
                             /\ Sending(x) => snd'[x].job = snd[x].job
      BY <2>1, <2>2, <1>1 DEF Sending, SndIdle
    <3> QED
      BY <2>1, <2>2, <3>1, <3>2, SameJobs
  <2>3. CASE /\ sendQ[snd[s].q] # <<>> /\ Head(sendQ[snd[s].q]) \in BadJobs
             /\ sendQ' = [sendQ EXCEPT ![snd[s].q] = Tail(@)]
             /\ snd' = [snd EXCEPT ![s] = SndIdle]
             /\ result' = [result EXCEPT ![Head(sendQ[snd[s].q])] = "refused"]
    <3>1. PICK j : j = Head(sendQ[snd[s].q])
      OBVIOUS
    <3>2. JobTypeOK'
      BY <2>1, <2>3, <1>1, <1>2 DEF JobTypeOK, SndIdle, QueueNames
    <3>3. ~Sending(s)' /\ \A x \in Senders \ {s} : snd'[x] = snd[x]
      BY <2>3, <1>1 DEF Sending, SndIdle
    <3> QED
      BY <2>1, <2>3, <3>1, <3>2, <3>3, <1>2, TakeInv
  <2>4. CASE /\ sendQ[snd[s].q] # <<>> /\ Head(sendQ[snd[s].q]) \notin BadJobs
             /\ sendQ' = [sendQ EXCEPT ![snd[s].q] = Tail(@)]
             /\ snd' = [snd EXCEPT ![s] = [pc |-> "send", q |-> snd[s].q,
                                           job |-> Head(sendQ[snd[s].q])]]
             /\ UNCHANGED result
    <3>1. PICK j : j = Head(sendQ[snd[s].q])
      OBVIOUS
    <3>2. j \in Jobs
      BY <2>4, <3>1, <1>1, <1>2
    <3>3. JobTypeOK'
      BY <2>1, <2>4, <3>1, <3>2, <1>1, <1>2 DEF JobTypeOK
    <3>4. /\ Sending(s)' /\ snd'[s].job = j
          /\ \A x \in Senders \ {s} : snd'[x] = snd[x]
      BY <2>4, <3>1, <1>1 DEF Sending
    <3> QED
      BY <2>1, <2>4, <3>1, <3>3, <3>4, <1>2, TakeInv
  <2> QED
    BY <2>2, <2>3, <2>4, <1>4 DEF SndGet
<1>5. ASSUME NEW st \in SendStates, SndAttempt(s, st) PROVE JobInv'
  <2>1. snd[s].pc = "send" /\ Sending(s) /\ UNCHANGED <<sendQ, accepted>>
    BY <1>5 DEF SndAttempt, SndSame, Sending
  <2>2. CASE UNCHANGED <<snd, bufs, result>>
    BY <2>1, <2>2, OtherInv
  <2>3. ASSUME NEW res \in {"sent", "failed"}, SndDone(s, res) PROVE JobInv'
    <3> DEFINE next == IF RetryTimes = 0 THEN SndIdle
                       ELSE [pc |-> "check", q |-> snd[s].q, job |-> NoJob]
    <3>1. /\ result' = [result EXCEPT ![snd[s].job] = res]
          /\ snd' = [snd EXCEPT ![s] = next]
      BY <2>3 DEF SndDone
    <3>a. next \in [pc : {"idle", "check"}, q : QueueNames, job : {NoJob}]
      BY <1>2 DEF SndIdle, QueueNames
    <3>2. PICK new \in [pc : {"idle", "check"}, q : QueueNames,
                        job : {NoJob}] : snd' = [snd EXCEPT ![s] = new]
      BY <3>1, <3>a, Zenon
    <3>3. JobTypeOK'
      BY <2>1, <3>1, <3>2, <1>1 DEF JobTypeOK
    <3>4. ~Sending(s)' /\ \A x \in Senders \ {s} : snd'[x] = snd[x]
      BY <3>2, <1>1 DEF Sending
    <3> QED
      BY <2>1, <3>1, <3>3, <3>4, DoneInv
  <2> QED
    BY <2>2, <2>3, <1>5 DEF SndAttempt
<1> QED
  BY <1>3, <1>4, <1>5 DEF SenderStep

\* Every step preserves JobInv.
LEMMA JobNext == JobInv /\ [Next]_vars => JobInv'
<1> SUFFICES ASSUME JobInv, [Next]_vars PROVE JobInv'
  OBVIOUS
<1>1. ASSUME NEW j \in PolicyJobs, queue_instance_send(j) PROVE JobInv'
  BY <1>1, PutInv DEF queue_instance_send, QueueNames, JobsOf
<1>2. ASSUME NEW j \in EiJobs, data_delivery(j) PROVE JobInv'
  BY <1>2, PutInv DEF data_delivery, QueueNames, JobsOf
<1>3. ASSUME NEW s \in Senders, SenderStep(s) PROVE JobInv'
  BY <1>3, SenderInv
<1>4. CASE SpawnSender
  <2>1. UNCHANGED <<sendQ, accepted, result>>
    BY <1>4 DEF SpawnSender, LoopSame, jobLog
  <2>2. PICK s \in Senders :
          /\ snd[s].pc = "idle"
          /\ snd' = [snd EXCEPT ![s] = [SndIdle EXCEPT !.pc = "check"]]
    BY <1>4 DEF SpawnSender
  <2>3. [SndIdle EXCEPT !.pc = "check"]
          = [pc |-> "check", q |-> "policy", job |-> NoJob]
    BY DEF SndIdle
  <2>4. JobTypeOK'
    BY <2>1, <2>2, <2>3 DEF JobInv, JobTypeOK, QueueNames
  <2>5. \A x \in Senders : /\ Sending(x)' <=> Sending(x)
                           /\ Sending(x) => snd'[x].job = snd[x].job
    BY <2>2, <2>3 DEF JobInv, JobTypeOK, Sending
  <2> QED
    BY <2>1, <2>4, <2>5, SameJobs
<1>5. CASE \/ LoopEnds \/ Receive \/ Dispatch \/ HandleResponse
           \/ HandleQuery \/ QueryInstance \/ FreeMessage \/ PassDone
           \/ (\E st \in SendStates : Rts(st)) \/ EiAnswer
  <2>1. UNCHANGED <<sendQ, snd, accepted, result>>
    BY <1>5 DEF LoopEnds, Receive, Dispatch, HandleResponse, HandleQuery,
                QueryInstance, FreeMessage, PassDone, Rts, EiAnswer,
                EiQueryAnswer, EiJobAnswer, LoopAt, LoopSame, jobLog
  <2> QED
    BY <2>1, OtherInv
<1>6. CASE stop_rmr_thread \/ Elapse \/ \E ok \in BOOLEAN : get_healthcheck(ok)
  <2>1. UNCHANGED <<sendQ, snd, accepted, result>>
    BY <1>6 DEF stop_rmr_thread, Elapse, get_healthcheck, jobLog
  <2> QED
    BY <2>1, OtherInv
<1>7. CASE Restart
  <2>1. JobTypeOK'
    BY <1>7 DEF Restart, JobTypeOK, SndIdle, QueueNames
  <2>2. AcceptedOnce' /\ QueuesKeepOrder' /\ ResultTaken'
    BY <1>7 DEF Restart, AcceptedOnce, QueuesKeepOrder, ResultTaken
  <2>3. \A s \in Senders : ~Sending(s)'
    BY <1>7 DEF Restart, Sending, SndIdle
  <2> QED
    BY <2>1, <2>2, <2>3 DEF JobInv, OneHolder, HeldOpen
<1>8. CASE UNCHANGED vars
  BY <1>8, OtherInv DEF vars
<1> QED
  BY <1>1, <1>2, <1>3, <1>4, <1>5, <1>6, <1>7, <1>8 DEF Next, LoopStep

\* JobInv says that no job is handed out twice: what waits was not taken.
LEMMA JobInvHandedOnce == JobInv => HandedOnce
<1> SUFFICES ASSUME JobInv PROVE HandedOnce
  OBVIOUS
<1>1. ASSUME NEW j \in Jobs, Waiting(j), WasTaken(j) PROVE FALSE
  <2>a. PICK q \in QueueNames : \E i \in 1..Len(sendQ[q]) : j = sendQ[q][i]
    BY <1>1 DEF Waiting, Entries
  <2>1. PICK i \in 1..Len(sendQ[q]) : j = sendQ[q][i]
    BY <2>a
  <2>b. PICK p \in QueueNames : \E k \in 1..TakenCount(p) : accepted[p][k] = j
    BY <1>1 DEF WasTaken
  <2>2. PICK k \in 1..TakenCount(p) : accepted[p][k] = j
    BY <2>b
  <2>3. /\ TakenCount(q) \in Nat
        /\ j = accepted[q][TakenCount(q) + i]
        /\ TakenCount(q) + i \in 1..Len(accepted[q])
    BY <2>1, KeepsOrder
  <2>4. k \in 1..Len(accepted[p])
    BY <2>2, KeepsOrder
  <2>5. j \in JobsOf(p) /\ j \in JobsOf(q)
    BY <2>2, <2>3, <2>4 DEF JobInv, AcceptedOnce
  <2>6. p = q
    BY <2>5, JobsAssumption DEF JobsOf, QueueNames
  <2>7. k = TakenCount(q) + i
    BY <2>2, <2>3, <2>4, <2>6 DEF JobInv, AcceptedOnce
  <2>8. Len(sendQ[q]) \in Nat
    BY KeepsOrder
  <2> QED
    BY <2>2, <2>3, <2>6, <2>7, <2>8
<1>2. \A j \in Jobs : Held(j) => WasTaken(j) /\ result[j] = "none"
  BY DEF Held, JobInv, HeldOpen
<1>3. \A j \in Jobs : Waiting(j) => ~Held(j) /\ result[j] = "none"
  BY <1>1, <1>2 DEF JobInv, ResultTaken
<1> QED
  BY <1>2, <1>3 DEF HandedOnce, JobInv, OneHolder

\* JobInv is an invariant of the rmr side of the mediator.
LEMMA JobInvariant == Spec => []JobInv
  BY JobInit, JobNext, PTL DEF Spec

\* No job is ever handed to two senders, nor one that is done handed out
\* again, however many _handle_sends threads overlap (a1rmr.py 163-180).
THEOREM NoJobTwice == Spec => []HandedOnce
  BY JobInvariant, JobInvHandedOnce, PTL

\* The two queues lose no job and keep their order (a1rmr.py 163-180,
\* 314-327).
THEOREM NoJobLost == Spec => []QueuesKeepOrder
<1>1. JobInv => QueuesKeepOrder
  BY DEF JobInv
<1> QED
  BY <1>1, JobInvariant, PTL

-----------------------------------------------------------------------------
(***************************************************************************)
(* Types and buffers.  BuffersFreed needs that the mailbox is read only    *)
(* when the messages of the pass before are handled, and that bufs is a    *)
(* natural number needs BuffersFreed: the two are proved together.         *)
(***************************************************************************)
Loops == [pc : LoopPcs, mtype : MsgTypes \cup {"unbound"},
          batch : Seq(Messages), left : Nat, tries : Nat]

\* Where the loop is says whether there is a message at hand.
LoopTypeOK ==
  /\ loop \in Loops
  /\ loop.pc \in LoopPcs \ {"top", "recv", "next", "dead", "ended"} =>
       loop.batch # <<>>
  /\ loop.pc \in {"top", "recv"} => loop.batch = <<>>

\* The rest of TypeOK, without bufs.
FlagTypeOK ==
  /\ goOn \in BOOLEAN /\ stale \in BOOLEAN /\ health \in {200, 500}
  /\ tries \in [Jobs -> Nat]
  /\ \A s \in Senders : snd[s].pc # "send" => snd[s].job = NoJob

Sends == {s \in Senders : Sending(s)}

BufInv == IsFiniteSet(Sends) /\ BuffersFreed

RmrInv == JobInv /\ LoopTypeOK /\ FlagTypeOK /\ BufInv

\* RmrInv has all of TypeOK in it.
LEMMA RmrInvTypes == RmrInv => TypeOK
<1> SUFFICES ASSUME RmrInv PROVE TypeOK
  OBVIOUS
<1>1. Cardinality(Sends) \in Nat
  BY FS_CardinalityType DEF RmrInv, BufInv
<1>2. Len(loop.batch) \in Nat
  BY DEF RmrInv, LoopTypeOK, Loops
<1>3. bufs \in Nat
  BY <1>1, <1>2 DEF RmrInv, BufInv, BuffersFreed, Sends
<1>4. \A s \in Senders : snd[s].pc = "send" <=> snd[s].job \in Jobs
  BY JobsAssumption DEF RmrInv, JobInv, JobTypeOK, FlagTypeOK
<1> QED
  BY <1>3, <1>4 DEF RmrInv, JobInv, JobTypeOK, LoopTypeOK, FlagTypeOK, Loops, TypeOK

\* A record of the loop stays one when a member is given a value of its set.
LEMMA LoopMembers ==
  \A l \in Loops :
    /\ \A v \in LoopPcs : [l EXCEPT !.pc = v] \in Loops
    /\ \A v \in MsgTypes \cup {"unbound"} : [l EXCEPT !.mtype = v] \in Loops
    /\ \A v \in Seq(Messages) : [l EXCEPT !.batch = v] \in Loops
    /\ \A v \in Nat : [l EXCEPT !.left = v] \in Loops
    /\ \A v \in Nat : [l EXCEPT !.tries = v] \in Loops
BY DEF Loops

\* What the loop does with the message at hand leaves the batch as it is.
LEMMA HandleSame ==
  ASSUME LoopTypeOK,
         \/ LoopEnds \/ Dispatch \/ HandleResponse \/ HandleQuery \/ QueryInstance
         \/ EiAnswer \/ \E st \in SendStates : Rts(st)
  PROVE  /\ loop'.batch = loop.batch
         /\ UNCHANGED <<snd, stale, bufs>> /\ LoopSame
BY DEF LoopEnds, Dispatch, HandleResponse, HandleQuery, QueryInstance, EiAnswer,
       EiQueryAnswer, EiJobAnswer, Rts, LoopAt, LoopGoto, LoopDies, LoopTypeOK, Loops

\* The pcs at which a message is at hand.
AtHand == LoopPcs \ {"top", "recv", "next", "dead", "ended"}

\* The steps that handle a message keep LoopTypeOK.
LEMMA LoopTypeHandle ==
  ASSUME LoopTypeOK,
         \/ Dispatch \/ HandleResponse \/ HandleQuery \/ QueryInstance
         \/ EiAnswer \/ \E st \in SendStates : Rts(st)
  PROVE  LoopTypeOK'
<1>1. /\ loop \in Loops /\ loop.batch \in Seq(Messages)
      /\ loop.pc \in AtHand => loop.batch # <<>>
      /\ loop.left \in Nat /\ loop.tries \in Nat
      /\ loop'.batch = loop.batch
  BY HandleSame DEF LoopTypeOK, Loops, AtHand
<1>2. SUFFICES /\ loop' \in Loops
               /\ loop'.pc \in AtHand => loop.batch # <<>>
               /\ loop'.pc \notin {"top", "recv"}
  BY <1>1 DEF LoopTypeOK, AtHand
<1>3. ASSUME NEW pc \in AtHand \cup {"dead"}, LoopGoto(pc), loop.batch # <<>>
      PROVE  /\ loop' \in Loops
             /\ loop'.pc \in AtHand => loop.batch # <<>>
             /\ loop'.pc \notin {"top", "recv"}
  <2>1. pc \in LoopPcs
    BY DEF AtHand, LoopPcs
  <2>2. loop' \in Loops
    BY <1>1, <1>3, <2>1, LoopMembers DEF LoopGoto
  <2>3. loop'.pc = pc
    BY <1>1, <1>3 DEF LoopGoto, Loops
  <2> QED
    BY <1>3, <2>2, <2>3 DEF AtHand
<1>4. CASE Dispatch
  <2>1. loop.batch # <<>>
    BY <1>4 DEF Dispatch
  <2>2. Head(loop.batch) \in Messages
    BY <1>1, <2>1
  <2>3. MessageType \in MsgTypes \cup {"unbound"}
    BY <1>1, <2>2 DEF MessageType, Messages, Loops
  <2>4. PICK pc \in Handler(MessageType, Payload) :
               loop' = [loop EXCEPT !.mtype = MessageType, !.pc = pc]
    BY <1>4 DEF Dispatch
  <2>5. pc \in AtHand \cup {"dead"}
    <3>1. \A type, payload :
            Handler(type, payload) \subseteq {"dead", "status", "list", "ei_query",
                                              "ei_job", "free"}
      BY DEF Handler
    <3>2. pc \in {"dead", "status", "list", "ei_query", "ei_job", "free"}
      BY <2>4, <3>1
    <3> QED
      BY <3>2 DEF AtHand, LoopPcs
  <2>6. loop' \in Loops
    <3>1. pc \in LoopPcs
      BY <2>5 DEF AtHand, LoopPcs
    <3> QED
      BY <1>1, <2>3, <2>4, <3>1, LoopMembers
  <2>7. loop'.pc = pc
    BY <1>1, <2>4 DEF Loops
  <2> QED
    BY <2>1, <2>5, <2>6, <2>7 DEF AtHand
<1>5. CASE HandleResponse
  BY <1>1, <1>3, <1>5 DEF HandleResponse, LoopAt, LoopDies, AtHand, LoopPcs
<1>6. ASSUME NEW pc \in AtHand, NEW left \in Nat, NEW tries0 \in Nat,
             loop.batch # <<>>,
             \/ loop' = [loop EXCEPT !.pc = pc, !.left = left]
             \/ loop' = [loop EXCEPT !.pc = pc, !.tries = tries0]
             \/ loop' = [loop EXCEPT !.tries = tries0, !.pc = pc]
             \/ loop' = [loop EXCEPT !.pc = pc, !.left = left, !.tries = tries0]
      PROVE  /\ loop' \in Loops
             /\ loop'.pc \in AtHand => loop.batch # <<>>
             /\ loop'.pc \notin {"top", "recv"}
  <2>1. pc \in LoopPcs
    BY DEF AtHand
  <2>a. /\ [loop EXCEPT !.pc = pc, !.left = left] \in Loops
        /\ [loop EXCEPT !.pc = pc, !.tries = tries0] \in Loops
        /\ [loop EXCEPT !.tries = tries0, !.pc = pc] \in Loops
    BY <1>1, <2>1, LoopMembers
  <2>b. [loop EXCEPT !.pc = pc, !.left = left, !.tries = tries0] \in Loops
    BY <2>a, LoopMembers
  <2>2. loop' \in Loops
    BY <1>6, <2>a, <2>b
  <2>3. loop'.pc = pc
    BY <1>1, <1>6 DEF Loops
  <2> QED
    BY <1>6, <2>2, <2>3 DEF AtHand
<1>7. CASE HandleQuery
  <2>1. loop.batch # <<>>
    BY <1>1, <1>7 DEF HandleQuery, LoopAt, AtHand, LoopPcs
  <2>2. ASSUME NEW n \in 0..MaxFound, loop' = [loop EXCEPT !.pc = "instance", !.left = n]
        PROVE  /\ loop' \in Loops
               /\ loop'.pc \in AtHand => loop.batch # <<>>
               /\ loop'.pc \notin {"top", "recv"}
    <3>1. n \in Nat /\ "instance" \in AtHand
      BY RmrBoundsAssumption DEF AtHand, LoopPcs
    <3> QED
      BY <1>1, <1>6, <2>1, <2>2, <3>1
  <2>3. "free" \in AtHand \cup {"dead"} /\ "dead" \in AtHand \cup {"dead"}
    BY DEF AtHand, LoopPcs
  <2> QED
    BY <1>3, <1>7, <2>1, <2>2, <2>3 DEF HandleQuery, LoopDies
<1>8. CASE QueryInstance
  <2>1. loop.batch # <<>>
    BY <1>1, <1>8 DEF QueryInstance, LoopAt, AtHand, LoopPcs
  <2>2. "free" \in AtHand /\ "rts" \in AtHand /\ 0 \in Nat
    BY DEF AtHand, LoopPcs
  <2>3. CASE loop.left > 0 /\ loop' = [loop EXCEPT !.pc = "rts", !.left = @ - 1, !.tries = 0]
    <3>1. loop.left - 1 \in Nat
      BY <1>1, <2>3
    <3> QED
      BY <1>6, <2>1, <2>2, <2>3, <3>1
  <2>4. CASE loop' = [loop EXCEPT !.pc = "free", !.left = 0]
    BY <1>6, <2>1, <2>2, <2>4
  <2>5. CASE LoopGoto("free") \/ LoopDies
    BY <1>3, <2>1, <2>2, <2>5 DEF LoopDies
  <2> QED
    BY <1>8, <2>3, <2>4, <2>5 DEF QueryInstance
<1>9. CASE EiAnswer
  <2>1. loop.batch # <<>>
    BY <1>1, <1>9 DEF EiAnswer, EiQueryAnswer, EiJobAnswer, LoopAt, AtHand, LoopPcs
  <2>2. "free" \in AtHand /\ "rts" \in AtHand /\ 0 \in Nat
    BY DEF AtHand, LoopPcs
  <2>3. CASE loop' = [loop EXCEPT !.pc = "rts", !.tries = 0]
    BY <1>6, <2>1, <2>2, <2>3
  <2>4. CASE LoopGoto("free") \/ LoopDies
    BY <1>3, <2>1, <2>2, <2>4 DEF LoopDies
  <2> QED
    BY <1>9, <2>3, <2>4 DEF EiAnswer, EiQueryAnswer, EiJobAnswer
<1>10. ASSUME NEW st \in SendStates, Rts(st)
       PROVE  /\ loop' \in Loops
              /\ loop'.pc \in AtHand => loop.batch # <<>>
              /\ loop'.pc \notin {"top", "recv"}
  <2>1. loop.batch # <<>> /\ loop.pc = "rts"
    BY <1>1, <1>10 DEF Rts, LoopAt, AtHand, LoopPcs
  <2>2. CASE LoopDies
    BY <1>3, <2>1, <2>2 DEF LoopDies
  <2>3. CASE loop' = [loop EXCEPT !.tries = @ + 1]
    <3>1. loop.tries + 1 \in Nat
      BY <1>1
    <3>2. loop' \in Loops
      BY <1>1, <2>3, <3>1, LoopMembers
    <3>3. loop'.pc = loop.pc
      BY <1>1, <2>3 DEF Loops
    <3> QED
      BY <2>1, <3>2, <3>3
  <2>4. CASE loop' = [loop EXCEPT !.tries = 0,
                        !.pc = IF loop.mtype = "query" THEN "instance" ELSE "free"]
    <3> DEFINE pc == IF loop.mtype = "query" THEN "instance" ELSE "free"
    <3>1. pc \in AtHand /\ 0 \in Nat
      BY DEF AtHand, LoopPcs
    <3>2. loop' = [loop EXCEPT !.tries = 0, !.pc = pc]
      BY <2>4
    <3> HIDE DEF pc
    <3> QED
      BY <1>6, <2>1, <3>1, <3>2
  <2> QED
    BY <1>10, <2>2, <2>3, <2>4 DEF Rts
<1> QED
  BY <1>4, <1>5, <1>7, <1>8, <1>9, <1>10

\* Every step keeps LoopTypeOK.
LEMMA LoopTypeNext ==
  ASSUME LoopTypeOK, [Next]_vars
  PROVE  LoopTypeOK'
<1>1. /\ loop \in Loops /\ loop.batch \in Seq(Messages)
  BY DEF LoopTypeOK, Loops
<1>2. ASSUME NEW pc \in {"top", "recv", "ended"}, LoopGoto(pc),
             pc \in {"top", "recv"} => loop.batch = <<>>
      PROVE  LoopTypeOK'
  <2>1. pc \in LoopPcs
    BY DEF LoopPcs
  <2>2. loop' \in Loops
    BY <1>1, <1>2, <2>1, LoopMembers DEF LoopGoto
  <2>3. loop'.pc = pc /\ loop'.batch = loop.batch
    BY <1>1, <1>2 DEF LoopGoto, Loops
  <2> QED
    BY <1>2, <2>2, <2>3 DEF LoopTypeOK
<1>3. CASE SpawnSender
  BY <1>2, <1>3 DEF SpawnSender, LoopTypeOK
<1>4. CASE LoopEnds
  BY <1>2, <1>4 DEF LoopEnds
<1>5. CASE PassDone
  BY <1>2, <1>5 DEF PassDone
<1>6. CASE Receive
  <2>a. PICK n \in 0..MaxBatch : \E b \in [1..n -> Messages] :
          loop' = [loop EXCEPT !.batch = b, !.pc = "next"]
    BY <1>6 DEF Receive
  <2>1. PICK b \in [1..n -> Messages] : loop' = [loop EXCEPT !.batch = b, !.pc = "next"]
    BY <2>a
  <2>2. b \in Seq(Messages) /\ "next" \in LoopPcs
    BY RmrBoundsAssumption DEF LoopPcs
  <2>3. loop' \in Loops
    BY <1>1, <2>1, <2>2, LoopMembers
  <2>4. loop'.pc = "next"
    BY <1>1, <2>1 DEF Loops
  <2> QED
    BY <2>3, <2>4 DEF LoopTypeOK
<1>7. CASE FreeMessage
  <2>1. loop.batch # <<>>
    BY <1>7 DEF FreeMessage, LoopTypeOK, LoopPcs
  <2>2. Tail(loop.batch) \in Seq(Messages) /\ "next" \in LoopPcs
    BY <1>1, <2>1 DEF LoopPcs
  <2>3. loop' \in Loops
    BY <1>1, <1>7, <2>2, LoopMembers DEF FreeMessage
  <2>4. loop'.pc = "next"
    BY <1>1, <1>7 DEF FreeMessage, Loops
  <2> QED
    BY <2>3, <2>4 DEF LoopTypeOK
<1>8. CASE Restart
  BY <1>8 DEF Restart, LoopStart, LoopTypeOK, Loops, LoopPcs
<1>9. CASE \/ Dispatch \/ HandleResponse \/ HandleQuery \/ QueryInstance
           \/ EiAnswer \/ \E st \in SendStates : Rts(st)
  BY <1>9, LoopTypeHandle
<1>10. ASSUME UNCHANGED loop
       PROVE  LoopTypeOK'
  BY <1>10 DEF LoopTypeOK
<1>11. ASSUME NEW s \in Senders, SenderStep(s)
       PROVE  UNCHANGED loop
  BY <1>11 DEF SenderStep, SndCheck, SndGet, SndAttempt, SndSame
<1>12. CASE \/ \E j \in PolicyJobs : queue_instance_send(j)
            \/ \E j \in EiJobs : data_delivery(j)
            \/ stop_rmr_thread \/ Elapse
            \/ \E ok \in BOOLEAN : get_healthcheck(ok)
            \/ UNCHANGED vars
  BY <1>10, <1>12
  DEF queue_instance_send, data_delivery, Put, stop_rmr_thread, Elapse,
      get_healthcheck, vars
<1> QED
  BY <1>3, <1>4, <1>5, <1>6, <1>7, <1>8, <1>9, <1>10, <1>11, <1>12 DEF Next, LoopStep

\* Every step keeps FlagTypeOK.
LEMMA FlagTypeNext ==
  ASSUME JobTypeOK, FlagTypeOK, [Next]_vars
  PROVE  FlagTypeOK'
<1>1. /\ snd \in [Senders -> [pc : {"idle", "check", "get", "send"},
                              q : QueueNames, job : Jobs \cup {NoJob}]]
      /\ \A x \in Senders : snd[x].pc # "send" => snd[x].job = NoJob
      /\ \A x \in Senders : snd[x].pc = "send" => snd[x].job \in Jobs
      /\ tries \in [Jobs -> Nat]
  BY DEF JobTypeOK, FlagTypeOK
<1>2. ASSUME UNCHANGED <<snd, tries>>, goOn' \in BOOLEAN, stale' \in BOOLEAN,
             health' \in {200, 500}
      PROVE  FlagTypeOK'
  BY <1>2 DEF FlagTypeOK
<1>3. ASSUME NEW s \in Senders, NEW new, snd' = [snd EXCEPT ![s] = new],
             new.pc # "send" => new.job = NoJob,
             UNCHANGED <<goOn, stale, health>>, tries' \in [Jobs -> Nat]
      PROVE  FlagTypeOK'
  BY <1>1, <1>3 DEF FlagTypeOK
<1>4. ASSUME NEW s \in Senders, SndCheck(s)
      PROVE  FlagTypeOK'
  <2> DEFINE next == IF sendQ[snd[s].q] # <<>>
                     THEN [pc |-> "get", q |-> snd[s].q, job |-> NoJob]
                     ELSE IF snd[s].q = "policy"
                     THEN [pc |-> "check", q |-> "ei", job |-> NoJob]
                     ELSE SndIdle
  <2>1. snd' = [snd EXCEPT ![s] = next]
    BY <1>4 DEF SndCheck
  <2>2. next.job = NoJob
    BY DEF SndIdle
  <2>3. UNCHANGED <<goOn, stale, health>> /\ tries' \in [Jobs -> Nat]
    BY <1>1, <1>4 DEF SndCheck, SndSame, jobLog
  <2> HIDE DEF next
  <2>4. PICK new : new = next
    OBVIOUS
  <2> QED
    BY <1>3, <2>1, <2>2, <2>3, <2>4
<1>5. ASSUME NEW s \in Senders, SndGet(s)
      PROVE  FlagTypeOK'
  <2>1. UNCHANGED <<goOn, stale, health>> /\ tries' \in [Jobs -> Nat]
    BY <1>1, <1>5 DEF SndGet, SndSame
  <2>2. CASE snd' = [snd EXCEPT ![s] = SndIdle]
    BY <1>3, <2>1, <2>2 DEF SndIdle
  <2>3. CASE snd' = [snd EXCEPT ![s] = [pc |-> "send", q |-> snd[s].q,
                                        job |-> Head(sendQ[snd[s].q])]]
    <3>1. PICK new : new = [pc |-> "send", q |-> snd[s].q, job |-> Head(sendQ[snd[s].q])]
      OBVIOUS
    <3> QED
      BY <1>3, <2>1, <2>3, <3>1
  <2> QED
    BY <1>5, <2>2, <2>3 DEF SndGet
<1>6. ASSUME NEW s \in Senders, NEW st \in SendStates, SndAttempt(s, st)
      PROVE  FlagTypeOK'
  <2>1. snd[s].job \in Jobs
    BY <1>1, <1>6 DEF SndAttempt
  <2>2. tries' \in [Jobs -> Nat]
    BY <1>1, <1>6, <2>1 DEF SndAttempt
  <2>3. UNCHANGED <<goOn, stale, health>>
    BY <1>6 DEF SndAttempt, SndSame
  <2>4. CASE UNCHANGED snd
    BY <2>2, <2>3, <2>4 DEF FlagTypeOK
  <2>5. CASE snd' = [snd EXCEPT ![s] = IF RetryTimes = 0 THEN SndIdle
                              ELSE [pc |-> "check", q |-> @.q, job |-> NoJob]]
    <3>1. PICK new : new = IF RetryTimes = 0 THEN SndIdle
                           ELSE [pc |-> "check", q |-> snd[s].q, job |-> NoJob]
      OBVIOUS
    <3>2. new.job = NoJob
      BY <3>1 DEF SndIdle
    <3> QED
      BY <1>3, <2>2, <2>3, <2>5, <3>1, <3>2
  <2> QED
    BY <1>6, <2>4, <2>5 DEF SndAttempt, SndDone
<1>7. CASE SpawnSender
  <2>1. PICK s \in Senders : snd' = [snd EXCEPT ![s] = [SndIdle EXCEPT !.pc = "check"]]
    BY <1>7 DEF SpawnSender
  <2>2. [SndIdle EXCEPT !.pc = "check"].job = NoJob
    BY DEF SndIdle
  <2>3. UNCHANGED <<goOn, stale, health>> /\ tries' \in [Jobs -> Nat]
    BY <1>1, <1>7 DEF SpawnSender, LoopSame, jobLog
  <2> QED
    BY <1>3, <2>1, <2>2, <2>3
<1>8. CASE \/ LoopEnds \/ Receive \/ Dispatch \/ HandleResponse
           \/ HandleQuery \/ QueryInstance \/ FreeMessage \/ PassDone
           \/ (\E st \in SendStates : Rts(st)) \/ EiAnswer
  <2>1. UNCHANGED <<snd, tries, goOn, health>> /\ stale' \in {stale, FALSE}
    BY <1>8 DEF LoopEnds, Receive, Dispatch, HandleResponse, HandleQuery,
                QueryInstance, FreeMessage, PassDone, Rts, EiAnswer,
                EiQueryAnswer, EiJobAnswer, LoopAt, LoopSame, jobLog
  <2> QED
    BY <1>2, <2>1 DEF FlagTypeOK
<1>9. CASE \/ \E j \in PolicyJobs : queue_instance_send(j)
           \/ \E j \in EiJobs : data_delivery(j)
           \/ stop_rmr_thread \/ Elapse
           \/ \E ok \in BOOLEAN : get_healthcheck(ok)
           \/ UNCHANGED vars
  <2>1. UNCHANGED <<snd, tries>> /\ health' \in {health, 200, 500}
    BY <1>9 DEF queue_instance_send, data_delivery, Put, stop_rmr_thread, Elapse,
                get_healthcheck, vars, jobLog
  <2>2. goOn' = goOn \/ goOn' = FALSE
    BY <1>9 DEF queue_instance_send, data_delivery, Put, stop_rmr_thread, Elapse,
                get_healthcheck, vars
  <2>3. stale' = stale \/ stale' = TRUE
    BY <1>9 DEF queue_instance_send, data_delivery, Put, stop_rmr_thread, Elapse,
                get_healthcheck, vars
  <2>4. goOn' \in BOOLEAN /\ stale' \in BOOLEAN
    BY <2>2, <2>3, Zenon DEF FlagTypeOK
  <2>5. health' \in {200, 500}
    BY <2>1 DEF FlagTypeOK
  <2> QED
    BY <1>2, <2>1, <2>4, <2>5
<1>10. CASE Restart
  BY <1>10 DEF Restart, FlagTypeOK, SndIdle
<1> QED
  BY <1>4, <1>5, <1>6, <1>7, <1>8, <1>9, <1>10 DEF Next, LoopStep, SenderStep

\* Every step keeps the count of the buffers.
LEMMA BufNext ==
  ASSUME JobTypeOK, LoopTypeOK, BufInv, [Next]_vars
  PROVE  BufInv'
<1>1. /\ IsFiniteSet(Sends) /\ Cardinality(Sends) \in Nat
      /\ bufs = Cardinality(Sends) + Len(loop.batch)
      /\ loop.batch \in Seq(Messages) /\ Len(loop.batch) \in Nat
      /\ snd \in [Senders -> [pc : {"idle", "check", "get", "send"},
                              q : QueueNames, job : Jobs \cup {NoJob}]]
  BY FS_CardinalityType DEF JobTypeOK, LoopTypeOK, Loops, BufInv, BuffersFreed, Sends
<1>2. ASSUME Sends' = Sends, bufs' = bufs + Len(loop'.batch) - Len(loop.batch),
             Len(loop'.batch) \in Nat
      PROVE  BufInv'
  <2>a. \A c, l, m \in Nat : (c + l) + m - l = c + m
    OBVIOUS
  <2>1. bufs' = Cardinality(Sends) + Len(loop'.batch)
    BY <1>1, <1>2, <2>a
  <2> QED
    BY <1>1, <1>2, <2>1 DEF BufInv, BuffersFreed, Sends
<1>3. ASSUME Sends' = Sends, UNCHANGED bufs, loop'.batch = loop.batch
      PROVE  BufInv'
  BY <1>1, <1>2, <1>3
<1>4. ASSUME NEW s \in Senders, NEW new, snd' = [snd EXCEPT ![s] = new]
      PROVE  /\ new.pc = "send" => Sends' = Sends \cup {s}
             /\ new.pc # "send" => Sends' = Sends \ {s}
  <2>1. \A x \in Senders : Sending(x)' <=> IF x = s THEN new.pc = "send" ELSE Sending(x)
    BY <1>1, <1>4 DEF Sending
  <2> QED
    BY <2>1 DEF Sends
<1>5. ASSUME NEW s \in Senders, NEW new, snd' = [snd EXCEPT ![s] = new],
             snd[s].pc # "send", new.pc # "send", UNCHANGED bufs,
             loop'.batch = loop.batch
      PROVE  BufInv'
  <2>1. s \notin Sends
    BY <1>5 DEF Sends, Sending
  <2>2. Sends' = Sends
    BY <1>4, <1>5, <2>1
  <2> QED
    BY <1>3, <1>5, <2>2
<1>6. ASSUME NEW s \in Senders, SndCheck(s)
      PROVE  BufInv'
  <2>1. PICK new : /\ new = IF sendQ[snd[s].q] # <<>>
                            THEN [pc |-> "get", q |-> snd[s].q, job |-> NoJob]
                            ELSE IF snd[s].q = "policy"
                            THEN [pc |-> "check", q |-> "ei", job |-> NoJob]
                            ELSE SndIdle
                   /\ snd' = [snd EXCEPT ![s] = new]
    BY <1>6 DEF SndCheck
  <2>2. new.pc # "send"
    BY <2>1 DEF SndIdle
  <2> QED
    BY <1>5, <1>6, <2>1, <2>2 DEF SndCheck, SndSame
<1>7. ASSUME NEW s \in Senders, SndGet(s)
      PROVE  BufInv'
  <2>1. snd[s].pc = "get" /\ s \notin Sends /\ UNCHANGED loop
    BY <1>7 DEF SndGet, SndSame, Sends, Sending
  <2>2. CASE snd' = [snd EXCEPT ![s] = SndIdle] /\ UNCHANGED bufs
    <3>1. SndIdle.pc # "send"
      BY DEF SndIdle
    <3> QED
      BY <1>5, <2>1, <2>2, <3>1
  <2>3. CASE /\ snd' = [snd EXCEPT ![s] = [pc |-> "send", q |-> snd[s].q,
                                           job |-> Head(sendQ[snd[s].q])]]
             /\ bufs' = bufs + 1
    <3>1. PICK new : new = [pc |-> "send", q |-> snd[s].q, job |-> Head(sendQ[snd[s].q])]
      OBVIOUS
    <3>a. snd' = [snd EXCEPT ![s] = new] /\ new.pc = "send"
      BY <2>3, <3>1
    <3>2. Sends' = Sends \cup {s}
      BY <1>4, <3>a
    <3>3. IsFiniteSet(Sends') /\ Cardinality(Sends') = Cardinality(Sends) + 1
      BY <1>1, <2>1, <3>2, FS_AddElement
    <3> QED
      BY <1>1, <2>1, <2>3, <3>3 DEF BufInv, BuffersFreed, Sends
  <2> QED
    BY <1>7, <2>2, <2>3 DEF SndGet
<1>8. ASSUME NEW s \in Senders, NEW st \in SendStates, SndAttempt(s, st)
      PROVE  BufInv'
  <2>1. s \in Sends /\ UNCHANGED loop
    BY <1>8 DEF SndAttempt, SndSame, Sends, Sending
  <2>2. CASE UNCHANGED <<snd, bufs>>
    BY <1>3, <2>1, <2>2 DEF Sends, Sending
  <2>3. CASE /\ bufs' = bufs - 1
             /\ snd' = [snd EXCEPT ![s] = IF RetryTimes = 0 THEN SndIdle
                              ELSE [pc |-> "check", q |-> @.q, job |-> NoJob]]
    <3>1. PICK new : new = IF RetryTimes = 0 THEN SndIdle
                           ELSE [pc |-> "check", q |-> snd[s].q, job |-> NoJob]
      OBVIOUS
    <3>2. new.pc # "send"
      BY <3>1 DEF SndIdle
    <3>3. Sends' = Sends \ {s}
      BY <1>4, <2>3, <3>1, <3>2
    <3>4. IsFiniteSet(Sends') /\ Cardinality(Sends') = Cardinality(Sends) - 1
      BY <1>1, <2>1, <3>3, FS_RemoveElement
    <3> QED
      BY <1>1, <2>1, <2>3, <3>4 DEF BufInv, BuffersFreed, Sends
  <2> QED
    BY <1>8, <2>2, <2>3 DEF SndAttempt, SndDone
<1>9. CASE SpawnSender
  <2>1. PICK s \in Senders :
          /\ snd[s].pc = "idle"
          /\ snd' = [snd EXCEPT ![s] = [SndIdle EXCEPT !.pc = "check"]]
    BY <1>9 DEF SpawnSender
  <2>2. [SndIdle EXCEPT !.pc = "check"].pc = "check"
    BY DEF SndIdle
  <2>3. UNCHANGED bufs /\ loop'.batch = loop.batch
    BY <1>9 DEF SpawnSender, LoopGoto, LoopTypeOK, Loops
  <2> QED
    BY <1>5, <2>1, <2>2, <2>3
<1>10. ASSUME UNCHANGED <<snd, bufs>>, loop'.batch = loop.batch
       PROVE  BufInv'
  BY <1>3, <1>10 DEF Sends, Sending
<1>11. CASE \/ LoopEnds \/ Dispatch \/ HandleResponse \/ HandleQuery \/ QueryInstance
            \/ EiAnswer \/ \E st \in SendStates : Rts(st)
  BY <1>10, <1>11, HandleSame
<1>12. CASE PassDone
  <2>1. UNCHANGED <<snd, bufs>> /\ loop'.batch = loop.batch
    BY <1>12 DEF PassDone, LoopGoto, LoopTypeOK, Loops
  <2> QED
    BY <1>10, <2>1
<1>13. CASE Receive
  <2>a. PICK n \in 0..MaxBatch : \E b \in [1..n -> Messages] :
          loop' = [loop EXCEPT !.batch = b, !.pc = "next"] /\ bufs' = bufs + n
    BY <1>13 DEF Receive
  <2>1. PICK b \in [1..n -> Messages] :
          loop' = [loop EXCEPT !.batch = b, !.pc = "next"] /\ bufs' = bufs + n
    BY <2>a
  <2>2. loop'.batch = b /\ loop.batch = <<>>
    BY <1>13, <2>1 DEF Receive, LoopTypeOK, Loops
  <2>3. n \in Nat /\ Len(b) = n
    BY RmrBoundsAssumption
  <2>4. Sends' = Sends
    BY <1>13 DEF Receive, Sends, Sending
  <2>5. Len(loop.batch) = 0 /\ bufs \in Nat
    BY <1>1, <2>2
  <2> QED
    BY <1>2, <2>1, <2>2, <2>3, <2>4, <2>5
<1>14. CASE FreeMessage
  <2>1. loop.batch # <<>> /\ bufs' = bufs - 1
    BY <1>14 DEF FreeMessage, LoopTypeOK, LoopPcs
  <2>2. loop'.batch = Tail(loop.batch)
    BY <1>14 DEF FreeMessage, LoopTypeOK, Loops
  <2>3. Len(Tail(loop.batch)) = Len(loop.batch) - 1 /\ Len(Tail(loop.batch)) \in Nat
    BY <1>1, <2>1
  <2>4. Sends' = Sends
    BY <1>14 DEF FreeMessage, Sends, Sending
  <2>5. bufs' = bufs + Len(loop'.batch) - Len(loop.batch)
    BY <1>1, <2>1, <2>2, <2>3
  <2> QED
    BY <1>2, <2>2, <2>3, <2>4, <2>5
<1>15. CASE Restart
  <2>1. Sends' = {} /\ bufs' = 0 /\ loop'.batch = <<>>
    BY <1>15 DEF Restart, Sends, Sending, SndIdle, LoopStart
  <2>2. IsFiniteSet(Sends') /\ Cardinality(Sends') = 0 /\ Len(loop'.batch) = 0
    BY <2>1, FS_EmptySet
  <2> QED
    BY <2>1, <2>2 DEF BufInv, BuffersFreed, Sends
<1>16. CASE \/ \E j \in PolicyJobs : queue_instance_send(j)
            \/ \E j \in EiJobs : data_delivery(j)
            \/ stop_rmr_thread \/ Elapse
            \/ \E ok \in BOOLEAN : get_healthcheck(ok)
            \/ UNCHANGED vars
  BY <1>10, <1>16
  DEF queue_instance_send, data_delivery, Put, stop_rmr_thread, Elapse,
      get_healthcheck, vars
<1> QED
  BY <1>6, <1>7, <1>8, <1>9, <1>11, <1>12, <1>13, <1>14, <1>15, <1>16
  DEF Next, LoopStep, SenderStep

\* RmrInv is an invariant.
LEMMA RmrInductive == Spec => []RmrInv
<1>1. Init => RmrInv
  <2> SUFFICES ASSUME Init PROVE RmrInv
    OBVIOUS
  <2>1. LoopTypeOK
    BY DEF Init, LoopStart, LoopTypeOK, Loops, LoopPcs
  <2>2. FlagTypeOK
    BY DEF Init, FlagTypeOK, SndIdle
  <2>3. Sends = {} /\ bufs = 0 /\ loop.batch = <<>>
    BY DEF Init, Sends, Sending, SndIdle, LoopStart
  <2>4. BufInv
    BY <2>3, FS_EmptySet DEF BufInv, BuffersFreed, Sends
  <2> QED
    BY <2>1, <2>2, <2>4, JobInit DEF RmrInv
<1>2. RmrInv /\ [Next]_vars => RmrInv'
  BY JobNext, LoopTypeNext, FlagTypeNext, BufNext DEF RmrInv, JobInv
<1> QED
  BY <1>1, <1>2, PTL DEF Spec

\* Every variable of the rmr side has its type; a handler finds a message at
\* the head of the batch (a1rmr.py 200-278).
THEOREM RmrTypeCorrect == Spec => []TypeOK
BY RmrInductive, RmrInvTypes, PTL

\* No path through the loop and the senders, short of the end of the loop,
\* leaks a buffer or frees one twice, however many messages, senders and
\* retries there are (a1rmr.py 140, 277-278).
THEOREM NoBufferLeaks == Spec => []BuffersFreed
<1>1. RmrInv => BuffersFreed
  BY DEF RmrInv, BufInv
<1> QED
  BY <1>1, RmrInductive, PTL
=============================================================================
