--------------------------- MODULE A1SystemProofs ---------------------------
(***************************************************************************)
(* Theorems about A1System, for any instances, senders, requests and       *)
(* kills, and any capacity of the wires.                                   *)
(*                                                                         *)
(* QuietTruth speaks of quiet states only.  TruthInv follows an item all   *)
(* the way: from the REST handler, which may have cleared the status, to   *)
(* the xApp (OnItsWay), and its answer back to the write of its status     *)
(* (AnswerInv).                                                            *)
(***************************************************************************)
EXTENDS A1System, TLAPS

\* An item or answer of queue q is about instance i.
Has(q, i) == \E k \in 1..Len(q) : q[k].i = i

\* The last one in q about i, if there is one, says op.
LastSays(q, i, op) ==
  \A k \in 1..Len(q) :
    q[k].i = i /\ (\A l \in (k + 1)..Len(q) : q[l].i # i) => q[k].op = op

\* An item about i is between the REST handler and the xApp's answer.
OnItsWay(i) ==
  \/ web.pc # "idle" /\ web.item.i = i
  \/ Has(sendQ, i)
  \/ \E s \in Senders : sending[s] # None /\ sending[s].i = i
  \/ Has(toXapp, i)
  \/ xapp.msg # None /\ xapp.msg.i = i

\* The status is the xApp's last answer about i.
Truth(i) == handled[i] # "none" /\ status[i] = Answer(handled[i])

\* What is on the way back: the last answer about i is that to the item the
\* xApp handled last.
AnswerInv(i) ==
  /\ Has(toA1, i) => handled[i] # "none"
  /\ LastSays(toA1, i, Answer(handled[i]))

\* A delete thread has taken the status of i and is about to remove i.
Removing(i) == threads[i]["remove"] # 0

Ahead(i) == OnItsWay(i) \/ Removing(i)

\* With no answer on its way or in the hands of the loop, the status of a
\* stored instance is right, or an item is on its way, or it will be removed.
StatusInv(i) == stored[i] /\ ~Has(toA1, i) => Truth(i) \/ Ahead(i)

TruthInv ==
  ~restarts /\ ~lossy => \A i \in Instances : AnswerInv(i) /\ StatusInv(i)

\* What bounds the queue.
CountInv ==
  /\ requests \in 0..MaxRequests
  /\ Len(sendQ) + (IF web.pc = "idle" THEN 0 ELSE 1) <= requests

SystemInv == TypeOK /\ CountInv /\ TruthInv

-----------------------------------------------------------------------------
(***************************************************************************)
(* Queues.                                                                 *)
(***************************************************************************)

LEMMA HasAppend ==
  ASSUME NEW S, NEW q \in Seq(S), NEW m \in S, NEW i
  PROVE  Has(Append(q, m), i) <=> Has(q, i) \/ m.i = i
<1> DEFINE p == Append(q, m)
<1>1. /\ Len(q) \in Nat /\ Len(p) = Len(q) + 1 /\ p[Len(q) + 1] = m
      /\ \A k \in 1..Len(q) : p[k] = q[k] /\ k \in 1..(Len(q) + 1)
      /\ Len(q) + 1 \in 1..(Len(q) + 1)
      /\ \A k \in 1..(Len(q) + 1) : k \in 1..Len(q) \/ k = Len(q) + 1
  OBVIOUS
<1> HIDE DEF p
<1>2. Has(p, i) <=> Has(q, i) \/ m.i = i
  BY <1>1 DEF Has
<1> QED
  BY <1>2 DEF p

LEMMA HasTail ==
  ASSUME NEW S, NEW q \in Seq(S), q # <<>>, NEW i
  PROVE  Has(q, i) <=> Has(Tail(q), i) \/ Head(q).i = i
<1> DEFINE p == Tail(q)
<1>1. /\ Len(q) \in Nat \ {0} /\ Len(p) = Len(q) - 1 /\ Head(q) = q[1]
      /\ \A k \in 1..Len(p) : p[k] = q[k + 1] /\ k + 1 \in 1..Len(q)
      /\ 1 \in 1..Len(q)
      /\ \A k \in 1..Len(q) : k = 1 \/ (k - 1 \in 1..Len(p) /\ p[k - 1] = q[k])
  OBVIOUS
<1> HIDE DEF p
<1>2. Has(q, i) => Has(p, i) \/ Head(q).i = i
  BY <1>1 DEF Has
<1>3. Has(p, i) => Has(q, i)
  BY <1>1 DEF Has
<1>4. Head(q).i = i => Has(q, i)
  BY <1>1 DEF Has
<1> QED
  BY <1>2, <1>3, <1>4 DEF p

LEMMA HasEmpty == \A i : ~Has(<<>>, i)
BY DEF Has

LEMMA LastAppend ==
  ASSUME NEW S, NEW q \in Seq(S), NEW m \in S, NEW i, NEW op,
         IF m.i = i THEN m.op = op ELSE LastSays(q, i, op)
  PROVE  LastSays(Append(q, m), i, op)
<1> DEFINE p == Append(q, m)
<1>1. /\ Len(q) \in Nat /\ Len(p) = Len(q) + 1 /\ p[Len(q) + 1] = m
      /\ \A k \in 1..Len(q) : p[k] = q[k]
  OBVIOUS
<1> HIDE DEF p
<1>2. SUFFICES ASSUME NEW k \in 1..Len(p), p[k].i = i,
                      \A l \in (k + 1)..Len(p) : p[l].i # i
               PROVE  p[k].op = op
  BY DEF LastSays, p
<1>3. CASE k = Len(q) + 1
  BY <1>1, <1>2, <1>3
<1>4. CASE k \in 1..Len(q)
  <2>1. Len(q) + 1 \in (k + 1)..Len(p) /\ \A l \in (k + 1)..Len(q) : l \in (k + 1)..Len(p)
    BY <1>1, <1>4
  <2>2. m.i # i /\ \A l \in (k + 1)..Len(q) : q[l].i # i
    <3>1. \A l \in (k + 1)..Len(q) : l \in 1..Len(q)
      BY <1>1, <1>4
    <3> QED
      BY <1>1, <1>2, <2>1, <3>1
  <2> QED
    BY <1>1, <1>2, <1>4, <2>2 DEF LastSays
<1> QED
  BY <1>1, <1>3, <1>4

LEMMA LastTail ==
  ASSUME NEW S, NEW q \in Seq(S), q # <<>>, NEW i, NEW op, LastSays(q, i, op)
  PROVE  /\ LastSays(Tail(q), i, op)
         /\ Head(q).i = i /\ ~Has(Tail(q), i) => Head(q).op = op
<1> DEFINE p == Tail(q)
<1>1. /\ Len(q) \in Nat \ {0} /\ Len(p) = Len(q) - 1 /\ Head(q) = q[1]
      /\ \A k \in 1..Len(p) : p[k] = q[k + 1] /\ k + 1 \in 1..Len(q)
  OBVIOUS
<1> HIDE DEF p
<1>2. ASSUME NEW k \in 1..Len(p), p[k].i = i, \A l \in (k + 1)..Len(p) : p[l].i # i
      PROVE  p[k].op = op
  <2>1. ASSUME NEW l \in (k + 2)..Len(q)
        PROVE  q[l].i # i
    <3>1. l - 1 \in (k + 1)..Len(p) /\ l - 1 \in 1..Len(p) /\ (l - 1) + 1 = l
      BY <1>1
    <3> QED
      BY <1>1, <1>2, <3>1
  <2>2. k + 1 \in 1..Len(q) /\ q[k + 1] = p[k] /\ (k + 1) + 1 = k + 2
    BY <1>1
  <2> QED
    BY <1>2, <2>1, <2>2 DEF LastSays
<1>3. ASSUME Head(q).i = i, ~Has(p, i)
      PROVE  Head(q).op = op
  <2>1. ASSUME NEW l \in 2..Len(q)
        PROVE  q[l].i # i
    <3>1. l - 1 \in 1..Len(p) /\ (l - 1) + 1 = l
      BY <1>1
    <3> QED
      BY <1>1, <1>3, <3>1 DEF Has
  <2>2. 1 \in 1..Len(q) /\ 1 + 1 = 2
    BY <1>1
  <2> QED
    BY <1>1, <1>3, <2>1, <2>2 DEF LastSays
<1> QED
  BY <1>2, <1>3 DEF LastSays, p

LEMMA Ends ==
  ASSUME NEW S, NEW q \in Seq(S), q # <<>>
  PROVE  Head(q) \in S /\ Tail(q) \in Seq(S) /\ Len(q) \in Nat \ {0} /\ Len(Tail(q)) = Len(q) - 1
OBVIOUS

LEMMA Appends ==
  ASSUME NEW S, NEW q \in Seq(S), NEW m \in S
  PROVE  Append(q, m) \in Seq(S) /\ Len(q) \in Nat /\ Len(Append(q, m)) = Len(q) + 1
OBVIOUS

LEMMA HeadStays ==
  ASSUME NEW S, NEW q \in Seq(S), NEW m \in S
  PROVE  /\ Append(q, m) # <<>>
         /\ q # <<>> => Head(Append(q, m)) = Head(q)
<1>1. Append(q, m) # <<>>
  <2>1. Len(Append(q, m)) = Len(q) + 1 /\ Len(q) \in Nat
    BY Appends
  <2>2. Len(q) + 1 # 0
    BY <2>1
  <2> QED
    BY <2>1, <2>2
<1>2. ASSUME q # <<>>
      PROVE  Head(Append(q, m)) = Head(q)
  <2>1. 1 \in 1 .. Len(q)
    BY <1>2
  <2>2. Append(q, m)[1] = q[1]
    BY <2>1
  <2> QED
    BY <1>1, <1>2, <2>2, Appends
<1> QED
  BY <1>1, <1>2

-----------------------------------------------------------------------------
(***************************************************************************)
(* Types and counts.                                                       *)
(***************************************************************************)

LEMMA TransmitType ==
  ASSUME TypeOK, NEW m \in Items, Transmit(m)
  PROVE  toXapp' \in Seq(Items) /\ Len(toXapp') <= MaxWire
<1>1. CASE UNCHANGED toXapp
  BY <1>1 DEF TypeOK
<1>2. CASE Len(toXapp) < MaxWire /\ toXapp' = Append(toXapp, m)
  <2>1. toXapp \in Seq(Items)
    BY DEF TypeOK
  <2>2. toXapp' \in Seq(Items) /\ Len(toXapp) \in Nat /\ Len(toXapp') = Len(toXapp) + 1
    BY <1>2, <2>1, Appends
  <2> QED
    BY <1>2, <2>2, BoundsAssumption
<1> QED
  BY <1>1, <1>2 DEF Transmit

LEMMA ThreadMoves ==
  ASSUME TypeOK, NEW i \in Instances, NEW g \in Stages, NEW h \in Stages, g # h,
         ThreadGoes(i, g, h) \/ ThreadEnds(i, g)
  PROVE  /\ threads' \in [Instances -> [Stages -> Nat]]
         /\ \A j \in Instances \ {i} : threads'[j] = threads[j]
         /\ \A x \in Stages \ {g, h} : threads'[i][x] = threads[i][x]
         /\ ThreadGoes(i, g, h) => threads'[i][h] # 0
<1>1. threads \in [Instances -> [Stages -> Nat]] /\ threads[i] \in [Stages -> Nat]
  BY DEF TypeOK
<1>2. CASE ThreadGoes(i, g, h)
  <2> DEFINE f == Moved(threads[i], g, h)
  <2>1. threads[i][g] > 0 /\ threads' = [threads EXCEPT ![i] = f]
    BY <1>2 DEF ThreadGoes
  <2>2. /\ f \in [Stages -> Nat] /\ f[h] # 0
        /\ \A x \in Stages \ {g, h} : f[x] = threads[i][x]
    BY <1>1, <2>1 DEF Moved
  <2> HIDE DEF f
  <2> QED
    BY <1>1, <2>1, <2>2
<1>3. CASE ThreadEnds(i, g) /\ ~ThreadGoes(i, g, h)
  <2> DEFINE f == [threads[i] EXCEPT ![g] = @ - 1]
  <2>1. threads[i][g] > 0 /\ threads' = [threads EXCEPT ![i] = f]
    BY <1>3 DEF ThreadEnds
  <2>2. f \in [Stages -> Nat] /\ \A x \in Stages \ {g, h} : f[x] = threads[i][x]
    BY <1>1, <2>1
  <2> HIDE DEF f
  <2> QED
    BY <1>1, <1>3, <2>1, <2>2
<1> QED
  BY <1>2, <1>3

LEMMA InitTypes == Init => TypeOK /\ CountInv
<1> SUFFICES ASSUME Init
             PROVE  TypeOK /\ CountInv
  OBVIOUS
<1>1. LoopStart \in [pc : {"recv", "write", "query", "dead"}, todo : SUBSET Instances]
      /\ LoopStart.pc = "recv"
  BY DEF LoopStart
<1>3. /\ WebIdle.pc = "idle"
      /\ WebIdle \in [pc : {"idle", "find", "clear", "set", "queue"}, item : Items \cup {None}]
  BY DEF WebIdle
<1>4. NoThreads \in [Instances -> [Stages -> Nat]]
  BY DEF NoThreads
<1>2. XappStart \in [ready : BOOLEAN, msg : Items \cup {None}]
  BY DEF XappStart
<1> QED
  BY <1>1, <1>2, <1>3, <1>4, BoundsAssumption DEF Init, TypeOK, CountInv

LEMMA TypeStep == TypeOK /\ CountInv /\ [Next]_vars => TypeOK' /\ CountInv'
<1> SUFFICES ASSUME TypeOK, CountInv, [Next]_vars
             PROVE  TypeOK' /\ CountInv'
  OBVIOUS
<1> USE BoundsAssumption
<1>0. Len(sendQ) \in Nat /\ requests \in Nat /\ requests <= MaxRequests
  <2>1. sendQ \in Seq(Items) /\ requests \in 0..MaxRequests
    BY DEF TypeOK, CountInv
  <2> QED
    BY <2>1
<1>v. /\ web \in [pc : {"idle", "find", "clear", "set", "queue"}, item : Items \cup {None}]
      /\ web.pc # "idle" => web.item \in Items /\ web.item.i \in Instances
  BY DEF TypeOK, Items
<1>d. stored \in [Instances -> BOOLEAN] /\ status \in [Instances -> {"OK", "DELETED", "", None}]
  BY DEF TypeOK
<1>w. Len(toXapp) <= MaxWire /\ Len(toA1) <= MaxWire
  BY DEF TypeOK
<1>a. toA1 \in Seq(Answers \cup {Query})
  BY DEF TypeOK
<1>p. loop \in [pc : {"recv", "write", "query", "dead"}, todo : SUBSET Instances]
  BY DEF TypeOK
<1>i. \A op \in {"CREATE", "UPDATE", "DELETE"} : \A i \in Instances :
        Item(op, i) \in Items /\ Item(op, i) # None
  BY NoneAssumption DEF Item, Items
<1>l. LoopStart \in [pc : {"recv", "write", "query", "dead"}, todo : SUBSET Instances]
  BY DEF LoopStart
<1>1. ASSUME NEW i \in Instances, PutInstance(i) \/ DeleteInstance(i)
      PROVE  TypeOK' /\ CountInv'
  <2>1. /\ web' \in [pc : {"idle", "find", "clear", "set", "queue"}, item : Items \cup {None}]
        /\ web'.item # None /\ web'.pc # "idle"
    BY <1>1, <1>i DEF PutInstance, DeleteInstance
  <2>2. requests' = requests + 1 /\ requests < MaxRequests /\ web.pc = "idle"
    BY <1>1 DEF PutInstance, DeleteInstance, Request
  <2>3. UNCHANGED <<sdl, sendQ, sending, loop, wires, xappVars, history, kills>>
    BY <1>1 DEF PutInstance, DeleteInstance
  <2>4. threads' \in [Instances -> [Stages -> Nat]]
    <3>1. CASE PutInstance(i)
      BY <3>1 DEF PutInstance, TypeOK
    <3>2. CASE DeleteInstance(i)
      <4> DEFINE f == [threads[i] EXCEPT !["check"] = @ + 1]
      <4>1. threads \in [Instances -> [Stages -> Nat]] /\ threads[i] \in [Stages -> Nat]
        BY DEF TypeOK
      <4>2. threads' = [threads EXCEPT ![i] = f]
        BY <3>2 DEF DeleteInstance
      <4>3. f \in [Stages -> Nat]
        BY <4>1 DEF Stages
      <4> HIDE DEF f
      <4> QED
        BY <4>1, <4>2, <4>3
    <3> QED
      BY <1>1, <3>1, <3>2
  <2>5. CountInv' /\ Len(sendQ') <= requests'
    BY <1>0, <2>1, <2>2, <2>3 DEF CountInv
  <2> QED
    BY <2>1, <2>3, <2>4, <2>5 DEF TypeOK, sdl, wires, xappVars
<1>2. ASSUME PutFind \/ PutClear \/ PutSet
      PROVE  TypeOK' /\ CountInv'
  <2>1. /\ web.pc # "idle" /\ web'.pc # "idle" /\ web'.item = web.item
        /\ web' \in [pc : {"idle", "find", "clear", "set", "queue"}, item : Items \cup {None}]
    BY <1>2, <1>v DEF PutFind, PutClear, PutSet
  <2>2. stored' \in [Instances -> BOOLEAN] /\ status' \in [Instances -> {"OK", "DELETED", "", None}]
    BY <1>2, <1>v, <1>d, <2>1 DEF PutFind, PutClear, PutSet, sdl
  <2>3. UNCHANGED <<sendQ, sending, threads, loop, wires, xappVars, history, bounds>>
    BY <1>2 DEF PutFind, PutClear, PutSet
  <2>4. CountInv' /\ Len(sendQ') <= requests' /\ web'.item # None
    BY <2>1, <2>3 DEF CountInv, bounds, TypeOK
  <2> QED
    BY <2>1, <2>2, <2>3, <2>4 DEF TypeOK, wires, xappVars
<1>3. ASSUME QueueSend
      PROVE  TypeOK' /\ CountInv'
  <2>1. web.item \in Items /\ sendQ \in Seq(Items) /\ web.pc # "idle"
    BY <1>3, <1>v DEF QueueSend, TypeOK
  <2>2. /\ sendQ' \in Seq(Items) /\ Len(sendQ') = Len(sendQ) + 1 /\ web' = WebIdle
        /\ UNCHANGED <<sdl, sending, threads, loop, wires, xappVars, history, bounds>>
    BY <1>3, <2>1, Appends DEF QueueSend
  <2>3. /\ web'.pc = "idle"
        /\ web' \in [pc : {"idle", "find", "clear", "set", "queue"}, item : Items \cup {None}]
    BY <2>2 DEF WebIdle
  <2>4. CountInv' /\ Len(sendQ') <= requests'
    BY <1>0, <2>1, <2>2, <2>3 DEF CountInv, bounds
  <2> QED
    BY <2>2, <2>3, <2>4 DEF TypeOK, sdl, wires, xappVars
<1>4. ASSUME NEW i \in Instances, DeleteAfter(i)
      PROVE  TypeOK' /\ CountInv'
  <2>1. stored' \in [Instances -> BOOLEAN] /\ status' \in [Instances -> {"OK", "DELETED", "", None}]
    BY <1>4, <1>d DEF DeleteAfter, ThreadCheck, ThreadFind, ThreadClear, ThreadRemove, sdl
  <2>2. PICK g \in Stages, h \in Stages :
          g # h /\ (ThreadGoes(i, g, h) \/ ThreadEnds(i, g))
    BY <1>4 DEF DeleteAfter, ThreadCheck, ThreadFind, ThreadClear, ThreadRemove, Stages
  <2>3. threads' \in [Instances -> [Stages -> Nat]]
    BY <2>2, ThreadMoves
  <2>4. UNCHANGED <<web, sendQ, sending, loop, wires, xappVars, history, bounds>>
    BY <2>2 DEF ThreadGoes, ThreadEnds
  <2> QED
    BY <2>1, <2>3, <2>4 DEF TypeOK, CountInv, wires, xappVars, bounds
<1>5. ASSUME NEW s \in Senders, SenderTake(s)
      PROVE  TypeOK' /\ CountInv'
  <2>1. /\ Head(sendQ) \in Items /\ sendQ' \in Seq(Items)
        /\ Len(sendQ) \in Nat \ {0} /\ Len(sendQ') = Len(sendQ) - 1
    BY <1>5, Ends DEF SenderTake, TypeOK
  <2>2. sending' \in [Senders -> Items \cup {None}]
    BY <1>5, <2>1 DEF SenderTake, TypeOK
  <2>3. UNCHANGED <<sdl, web, threads, loop, wires, xappVars, history, bounds>>
    BY <1>5 DEF SenderTake
  <2>4. CountInv' /\ Len(sendQ') <= requests'
    BY <1>0, <2>1, <2>3 DEF CountInv, bounds
  <2> QED
    BY <2>1, <2>2, <2>3, <2>4 DEF TypeOK, sdl, wires, xappVars
<1>6. ASSUME NEW s \in Senders, SenderSend(s)
      PROVE  TypeOK' /\ CountInv'
  <2>1. sending[s] \in Items
    BY <1>6 DEF SenderSend, TypeOK
  <2>2. toXapp' \in Seq(Items) /\ Len(toXapp') <= MaxWire
    BY <1>6, <2>1, TransmitType DEF SenderSend
  <2>3. sending' \in [Senders -> Items \cup {None}]
    BY <1>6 DEF SenderSend, TypeOK
  <2>4. UNCHANGED <<sdl, web, sendQ, threads, loop, toA1, xappVars, restarts, bounds>>
    BY <1>6 DEF SenderSend
  <2> QED
    BY <2>2, <2>3, <2>4 DEF TypeOK, CountInv, sdl, xappVars, bounds
<1>7. ASSUME LoopQuery \/ LoopReceive \/ LoopWrite
      PROVE  TypeOK' /\ CountInv'
  <2> DEFINE m == Head(toA1)
  <2>0. toA1 # <<>>
    BY <1>7 DEF LoopQuery, LoopReceive, LoopWrite, TypeOK
  <2>1. /\ m \in Answers \cup {Query} /\ Tail(toA1) \in Seq(Answers \cup {Query})
        /\ Len(toA1) \in Nat /\ Len(Tail(toA1)) = Len(toA1) - 1
    BY <1>a, <2>0, Ends
  <2>2. toA1' \in Seq(Answers \cup {Query}) /\ Len(toA1') <= MaxWire
    <3>1. toA1' = toA1 \/ toA1' = Tail(toA1)
      BY <1>7 DEF LoopQuery, LoopReceive, LoopWrite
    <3> QED
      BY <1>a, <1>w, <2>1, <3>1
  <2>3. stored' = stored /\ status' \in [Instances -> {"OK", "DELETED", "", None}]
    <3>1. CASE LoopWrite
      <4>1. m \in Answers
        BY <2>1, <3>1 DEF LoopWrite, TypeOK
      <4> QED
        BY <1>d, <3>1, <4>1 DEF LoopWrite, Answers
    <3> QED
      BY <1>7, <1>d, <3>1 DEF LoopQuery, LoopReceive, sdl
  <2>4. /\ loop' \in [pc : {"recv", "write", "query", "dead"}, todo : SUBSET Instances]
        /\ loop'.pc = "write" => toA1' # <<>> /\ Head(toA1') # Query
    <3>1. CASE LoopQuery
      BY <3>1 DEF LoopQuery
    <3>2. CASE LoopReceive
      BY <1>p, <3>2 DEF LoopReceive
    <3>3. CASE LoopWrite
      BY <1>l, <3>3 DEF LoopWrite, LoopStart
    <3> QED
      BY <1>7, <3>1, <3>2, <3>3
  <2>5. UNCHANGED <<web, sendQ, sending, threads, toXapp, xappVars, history, bounds>>
    BY <1>7 DEF LoopQuery, LoopReceive, LoopWrite
  <2> QED
    BY <2>2, <2>3, <2>4, <2>5 DEF TypeOK, CountInv, xappVars, bounds
<1>8. ASSUME NEW i \in Instances, LoopAnswer(i)
      PROVE  TypeOK' /\ CountInv'
  <2>1. /\ loop' \in [pc : {"recv", "write", "query", "dead"}, todo : SUBSET Instances]
        /\ loop'.pc # "write"
    BY <1>8, <1>p DEF LoopAnswer
  <2>2. toXapp' \in Seq(Items) /\ Len(toXapp') <= MaxWire
    <3>1. CASE UNCHANGED toXapp
      BY <3>1 DEF TypeOK
    <3>2. CASE Transmit(Item("CREATE", i))
      BY <1>i, <3>2, TransmitType
    <3> QED
      BY <1>8, <3>1, <3>2 DEF LoopAnswer
  <2>3. UNCHANGED <<sdl, web, sendQ, sending, threads, toA1, xappVars, restarts, bounds>>
    BY <1>8 DEF LoopAnswer
  <2> QED
    BY <2>1, <2>2, <2>3 DEF TypeOK, CountInv, sdl, xappVars, bounds
<1>9. ASSUME LoopAnswered
      PROVE  TypeOK' /\ CountInv'
  BY <1>9, <1>l DEF LoopAnswered, LoopStart, TypeOK, CountInv, sdl, wires, xappVars, bounds
<1>10. ASSUME RmrReady
       PROVE  TypeOK' /\ CountInv'
  <2>1. xapp' \in [ready : BOOLEAN, msg : Items \cup {None}]
    BY <1>10 DEF RmrReady, TypeOK
  <2> QED
    BY <1>10, <2>1 DEF RmrReady, TypeOK, CountInv, sdl, process, wires, bounds
<1>11. ASSUME Consume
       PROVE  TypeOK' /\ CountInv'
  <2>1. /\ Head(toXapp) \in Items /\ toXapp' \in Seq(Items)
        /\ Len(toXapp) \in Nat /\ Len(toXapp') = Len(toXapp) - 1
    BY <1>11, Ends DEF Consume, TypeOK
  <2>2. xapp' \in [ready : BOOLEAN, msg : Items \cup {None}]
    BY <1>11, <2>1 DEF Consume, TypeOK
  <2>3. Len(toXapp') <= MaxWire
    BY <1>w, <2>1
  <2> QED
    BY <1>11, <2>1, <2>2, <2>3 DEF Consume, TypeOK, CountInv, sdl, process, bounds
<1>12. ASSUME HandlePolicyReq
       PROVE  TypeOK' /\ CountInv'
  <2>1. xapp.msg \in Items
    BY <1>12 DEF HandlePolicyReq, TypeOK
  <2>2. [op |-> Answer(xapp.msg.op), i |-> xapp.msg.i] \in Answers
    BY <2>1 DEF Items, Answers, Answer
  <2>3. toA1' \in Seq(Answers \cup {Query}) /\ Len(toA1) \in Nat /\ Len(toA1') = Len(toA1) + 1
    BY <1>12, <1>a, <2>2, Appends DEF HandlePolicyReq, XappSend
  <2>4. Len(toA1') <= MaxWire
    BY <1>12, <2>3 DEF HandlePolicyReq, XappSend
  <2>5. xapp' \in [ready : BOOLEAN, msg : Items \cup {None}]
    BY <1>12 DEF HandlePolicyReq, TypeOK
  <2>6. handled' \in [Instances -> {"CREATE", "UPDATE", "DELETE", "none"}]
    BY <1>12, <2>1 DEF HandlePolicyReq, TypeOK, Items
  <2>7. loop'.pc = "write" => toA1' # <<>> /\ Head(toA1') # Query
    <3>1. loop' = loop /\ (loop.pc = "write" => toA1 # <<>> /\ Head(toA1) # Query)
      BY <1>12 DEF HandlePolicyReq, process, TypeOK
    <3>2. toA1' # <<>> /\ (toA1 # <<>> => Head(toA1') = Head(toA1))
      BY <1>12, <1>a, <2>2, HeadStays DEF HandlePolicyReq, XappSend
    <3> QED
      BY <3>1, <3>2
  <2> QED
    BY <1>12, <2>3, <2>4, <2>5, <2>6, <2>7 DEF HandlePolicyReq, TypeOK, CountInv, sdl, process, bounds
<1>13. ASSUME SendQuery
       PROVE  TypeOK' /\ CountInv'
  <2>1. toA1' \in Seq(Answers \cup {Query}) /\ Len(toA1) \in Nat /\ Len(toA1') = Len(toA1) + 1
    BY <1>13, <1>a, Appends DEF SendQuery, XappSend
  <2>2. Len(toA1') <= MaxWire
    BY <1>13, <2>1 DEF SendQuery, XappSend
  <2>3. loop'.pc = "write" => toA1' # <<>> /\ Head(toA1') # Query
    <3>1. loop' = loop /\ (loop.pc = "write" => toA1 # <<>> /\ Head(toA1) # Query)
      BY <1>13 DEF SendQuery, process, TypeOK
    <3>2. toA1' # <<>> /\ (toA1 # <<>> => Head(toA1') = Head(toA1))
      BY <1>13, <1>a, HeadStays DEF SendQuery, XappSend
    <3> QED
      BY <3>1, <3>2
  <2> QED
    BY <1>13, <2>1, <2>2, <2>3 DEF SendQuery, TypeOK, CountInv, sdl, process, xappVars, bounds
<1>14. ASSUME StartA1
       PROVE  TypeOK' /\ CountInv'
  <2>1. /\ sendQ' = <<>> /\ web' = WebIdle /\ web'.pc = "idle" /\ UNCHANGED requests
    BY <1>14 DEF StartA1, WebIdle
  <2>2. CountInv' /\ Len(sendQ') <= requests'
    BY <1>0, <2>1 DEF CountInv
  <2>3. toA1' = <<>> /\ Len(toA1') <= MaxWire
    BY <1>14 DEF StartA1
  <2>4. /\ sending' \in [Senders -> Items \cup {None}]
        /\ threads' \in [Instances -> [Stages -> Nat]]
    BY <1>14 DEF StartA1, NoThreads
  <2>5. /\ loop' = LoopStart /\ loop'.pc = "recv" /\ UNCHANGED <<sdl, toXapp, xappVars>>
        /\ web' \in [pc : {"idle", "find", "clear", "set", "queue"}, item : Items \cup {None}]
    BY <1>14, <2>1 DEF StartA1, LoopStart, WebIdle
  <2>6. sendQ' \in Seq(Items) /\ toA1' \in Seq(Answers \cup {Query})
    BY <2>1, <2>3
  <2> QED
    BY <1>l, <2>1, <2>2, <2>3, <2>4, <2>5, <2>6 DEF TypeOK, sdl, xappVars
<1>15. ASSUME KillXapp
       PROVE  TypeOK' /\ CountInv'
  <2>1. XappStart \in [ready : BOOLEAN, msg : Items \cup {None}]
    BY DEF XappStart
  <2>2. /\ xapp' = XappStart /\ toXapp' = <<>>
        /\ handled' = [i \in Instances |-> "none"]
        /\ UNCHANGED <<sdl, process, toA1, requests>>
    BY <1>15 DEF KillXapp
  <2>3. CountInv' /\ Len(toXapp') <= MaxWire
    BY <2>2 DEF CountInv, process
  <2>4. /\ toXapp' \in Seq(Items)
        /\ handled' \in [Instances -> {"CREATE", "UPDATE", "DELETE", "none"}]
    BY <2>2
  <2> QED
    BY <2>1, <2>2, <2>3, <2>4 DEF TypeOK, sdl, process
<1>16. ASSUME UNCHANGED vars
       PROVE  TypeOK' /\ CountInv'
  BY <1>16 DEF TypeOK, CountInv, vars, sdl, process, wires, xappVars, bounds
<1> QED
  BY <1>1, <1>2, <1>3, <1>4, <1>5, <1>6, <1>7, <1>8, <1>9, <1>10, <1>11, <1>12, <1>13,
     <1>14, <1>15, <1>16
  DEF Next, Web, Handler, Sender, Loop, RestartA1, KillA1

-----------------------------------------------------------------------------
(***************************************************************************)
(* An item moves on, or is lost.                                           *)
(***************************************************************************)

LEMMA TransmitWay ==
  ASSUME TypeOK, NEW m \in Items, Transmit(m), NEW i
  PROVE  /\ Has(toXapp, i) \/ m.i = i => lossy' \/ Has(toXapp', i)
         /\ lossy => lossy'
<1>1. toXapp \in Seq(Items)
  BY DEF TypeOK
<1>2. CASE toXapp' = Append(toXapp, m) /\ UNCHANGED lossy
  <2>1. Has(toXapp', i) <=> Has(toXapp, i) \/ m.i = i
    BY <1>1, <1>2, HasAppend
  <2> QED
    BY <1>2, <2>1, Zenon
<1>3. CASE lossy' = TRUE /\ UNCHANGED toXapp
  BY <1>3
<1> QED
  BY <1>2, <1>3 DEF Transmit

\* Nothing changes but where items and delete threads are.
LEMMA KeepTruth ==
  ASSUME TruthInv, UNCHANGED <<stored, status, toA1, handled, restarts>>, lossy => lossy',
         \A i \in Instances : Ahead(i) => lossy' \/ Ahead(i)'
  PROVE  TruthInv'
<1>1. SUFFICES ASSUME ~restarts', ~lossy', NEW i \in Instances
               PROVE  AnswerInv(i)' /\ StatusInv(i)'
  BY Zenon DEF TruthInv
<1>2. AnswerInv(i) /\ StatusInv(i)
  BY <1>1, Zenon DEF TruthInv
<1>3. AnswerInv(i)'
  BY <1>2 DEF AnswerInv, Has, LastSays
<1>4. Has(toA1', i) <=> Has(toA1, i)
  BY DEF Has
<1>5. StatusInv(i)'
  BY <1>1, <1>2, <1>4, Zenon DEF StatusInv, Truth
<1> QED
  BY <1>3, <1>5

\* Items move, delete threads do not.
LEMMA MoveTruth ==
  ASSUME TruthInv, UNCHANGED <<stored, status, toA1, handled, restarts, threads>>,
         lossy => lossy', \A i \in Instances : OnItsWay(i) => lossy' \/ OnItsWay(i)'
  PROVE  TruthInv'
<1>1. \A i \in Instances : Removing(i) => Removing(i)'
  BY Zenon DEF Removing
<1>2. \A i \in Instances : Ahead(i) => lossy' \/ Ahead(i)'
  BY <1>1, Zenon DEF Ahead
<1> QED
  BY <1>2, KeepTruth

LEMMA QueueSendTruth == TypeOK /\ TruthInv /\ QueueSend => TruthInv'
<1> SUFFICES ASSUME TypeOK, TruthInv, QueueSend
             PROVE  TruthInv'
  OBVIOUS
<1>1. ASSUME NEW i \in Instances, OnItsWay(i)
      PROVE  OnItsWay(i)'
  <2>1. sendQ \in Seq(Items) /\ web.item \in Items /\ sendQ' = Append(sendQ, web.item)
    BY DEF TypeOK, QueueSend
  <2>2. Has(sendQ', i) <=> Has(sendQ, i) \/ web.item.i = i
    BY <2>1, HasAppend
  <2>3. UNCHANGED <<sending, toXapp, xapp>>
    BY DEF QueueSend, wires, xappVars
  <2> QED
    BY <1>1, <2>2, <2>3, Zenon DEF OnItsWay
<1>2. UNCHANGED <<stored, status, toA1, handled, restarts, lossy, threads>>
  BY DEF QueueSend, sdl, wires, xappVars, history
<1> QED
  BY <1>1, <1>2, MoveTruth

LEMMA SenderTakeTruth ==
  ASSUME TypeOK, TruthInv, NEW s \in Senders, SenderTake(s)
  PROVE  TruthInv'
<1>1. ASSUME NEW i \in Instances, OnItsWay(i)
      PROVE  OnItsWay(i)'
  <2> DEFINE m == Head(sendQ)
  <2>1. sendQ \in Seq(Items) /\ sendQ # <<>> /\ sendQ' = Tail(sendQ)
    BY DEF TypeOK, SenderTake
  <2>2. Has(sendQ, i) => Has(sendQ', i) \/ m.i = i
    BY <2>1, HasTail
  <2>3. m \in Items /\ m # None
    BY <2>1, Ends, NoneAssumption
  <2>4. sending[s] = None /\ sending' = [sending EXCEPT ![s] = m]
    BY DEF SenderTake
  <2>5. sending'[s] = m /\ \A r \in Senders : r # s => sending'[r] = sending[r]
    BY <2>4 DEF TypeOK
  <2>6. UNCHANGED <<web, toXapp, xapp>>
    BY DEF SenderTake, wires, xappVars
  <2> HIDE DEF m
  <2> QED
    BY <1>1, <2>2, <2>3, <2>4, <2>5, <2>6, Zenon DEF OnItsWay
<1>2. UNCHANGED <<stored, status, toA1, handled, restarts, lossy, threads>>
  BY DEF SenderTake, sdl, wires, xappVars, history
<1> QED
  BY <1>1, <1>2, MoveTruth

LEMMA SenderSendTruth ==
  ASSUME TypeOK, TruthInv, NEW s \in Senders, SenderSend(s)
  PROVE  TruthInv'
<1>0. sending[s] \in Items /\ Transmit(sending[s])
  BY DEF TypeOK, SenderSend
<1>1. ASSUME NEW i \in Instances, OnItsWay(i)
      PROVE  lossy' \/ OnItsWay(i)'
  <2>1. Has(toXapp, i) \/ sending[s].i = i => lossy' \/ Has(toXapp', i)
    BY <1>0, TransmitWay
  <2>2. \A r \in Senders : r # s => sending'[r] = sending[r]
    BY DEF SenderSend, TypeOK
  <2>3. UNCHANGED <<web, sendQ, xapp>>
    BY DEF SenderSend, xappVars
  <2> QED
    BY <1>1, <2>1, <2>2, <2>3, Zenon DEF OnItsWay
<1>2. UNCHANGED <<stored, status, toA1, handled, restarts, threads>>
  BY DEF SenderSend, sdl, xappVars
<1>3. lossy => lossy'
  BY <1>0, TransmitWay
<1> QED
  BY <1>1, <1>2, <1>3, MoveTruth

LEMMA LoopAnswerTruth ==
  ASSUME TypeOK, TruthInv, NEW j \in Instances, LoopAnswer(j)
  PROVE  TruthInv'
<1>1. ASSUME NEW i \in Instances
      PROVE  (lossy => lossy') /\ (Has(toXapp, i) => lossy' \/ Has(toXapp', i))
  <2>1. CASE UNCHANGED <<toXapp, lossy>>
    BY <2>1
  <2>2. CASE Transmit(Item("CREATE", j))
    <3>1. Item("CREATE", j) \in Items
      BY DEF Item, Items
    <3> QED
      BY <2>2, <3>1, TransmitWay
  <2> QED
    BY <2>1, <2>2 DEF LoopAnswer
<1>2. UNCHANGED <<stored, status, toA1, handled, restarts, threads, web, sendQ, sending, xapp>>
  BY DEF LoopAnswer, sdl, xappVars
<1>3. \A i \in Instances : OnItsWay(i) => lossy' \/ OnItsWay(i)'
  BY <1>1, <1>2, Zenon DEF OnItsWay
<1>4. lossy => lossy'
  BY <1>1
<1> QED
  BY <1>2, <1>3, <1>4, MoveTruth

LEMMA ConsumeTruth == TypeOK /\ TruthInv /\ Consume => TruthInv'
<1> SUFFICES ASSUME TypeOK, TruthInv, Consume
             PROVE  TruthInv'
  OBVIOUS
<1>1. ASSUME NEW i \in Instances, OnItsWay(i)
      PROVE  OnItsWay(i)'
  <2> DEFINE m == Head(toXapp)
  <2>1. toXapp \in Seq(Items) /\ toXapp # <<>> /\ toXapp' = Tail(toXapp)
    BY DEF TypeOK, Consume
  <2>2. Has(toXapp, i) => Has(toXapp', i) \/ m.i = i
    BY <2>1, HasTail
  <2>3. m \in Items /\ m # None
    BY <2>1, Ends, NoneAssumption
  <2>4. xapp.msg = None /\ xapp'.msg = m
    BY DEF Consume, TypeOK
  <2>5. UNCHANGED <<web, sendQ, sending>>
    BY DEF Consume, process
  <2> HIDE DEF m
  <2> QED
    BY <1>1, <2>2, <2>3, <2>4, <2>5, Zenon DEF OnItsWay
<1>2. UNCHANGED <<stored, status, toA1, handled, restarts, lossy, threads>>
  BY DEF Consume, sdl, process, history
<1> QED
  BY <1>1, <1>2, MoveTruth

\* Steps of the loop and the xApp that move no item.
LEMMA StillTruth ==
  ASSUME TypeOK, TruthInv, LoopAnswered \/ RmrReady \/ UNCHANGED vars
  PROVE  TruthInv'
<1>1. UNCHANGED <<stored, status, toA1, handled, restarts, lossy, threads>>
  BY DEF LoopAnswered, RmrReady, vars, sdl, process, wires, xappVars, history
<1>2. UNCHANGED <<web, sendQ, sending, toXapp>> /\ xapp'.msg = xapp.msg
  BY DEF TypeOK, LoopAnswered, RmrReady, vars, process, wires, xappVars
<1>3. \A i \in Instances : OnItsWay(i) => OnItsWay(i)'
  BY <1>1, <1>2, Zenon DEF OnItsWay
<1> QED
  BY <1>1, <1>3, MoveTruth

\* Steps of a REST handler that touch neither instances nor statuses: while
\* the handler is not idle its item is ahead.
LEMMA WebTruth ==
  ASSUME TypeOK, TruthInv, NEW j \in Instances, PutInstance(j) \/ PutFind
  PROVE  TruthInv'
<1>1. UNCHANGED <<stored, status, toA1, handled, restarts, lossy, threads>>
  BY DEF PutInstance, PutFind, sdl, wires, xappVars, history
<1>2. UNCHANGED <<sendQ, sending, toXapp, xapp>>
  BY DEF PutInstance, PutFind, wires, xappVars
<1>3. web.pc = "idle" \/ (web'.pc # "idle" /\ web'.item = web.item)
  BY DEF PutInstance, PutFind, Request, TypeOK
<1>4. \A i \in Instances : OnItsWay(i) => OnItsWay(i)'
  BY <1>2, <1>3, Zenon DEF OnItsWay
<1> QED
  BY <1>1, <1>4, MoveTruth

LEMMA DeleteInstanceTruth ==
  ASSUME TypeOK, TruthInv, NEW j \in Instances, DeleteInstance(j)
  PROVE  TruthInv'
<1>1. UNCHANGED <<stored, status, toA1, handled, restarts, lossy>>
  BY DEF DeleteInstance, sdl, wires, xappVars, history
<1>2. UNCHANGED <<sendQ, sending, toXapp, xapp>> /\ web.pc = "idle"
  BY DEF DeleteInstance, wires, xappVars, Request
<1>3. \A i \in Instances : OnItsWay(i) => OnItsWay(i)'
  BY <1>2, Zenon DEF OnItsWay
<1>4. ASSUME NEW i \in Instances
      PROVE  threads'[i]["remove"] = threads[i]["remove"]
  <2>1. /\ threads \in [Instances -> [Stages -> Nat]] /\ "remove" \in Stages
        /\ threads' = [threads EXCEPT ![j]["check"] = @ + 1]
    BY DEF DeleteInstance, TypeOK, Stages
  <2> QED
    BY <2>1
<1>5. \A i \in Instances : Ahead(i) => Ahead(i)'
  BY <1>3, <1>4, Zenon DEF Ahead, Removing
<1> QED
  BY <1>1, <1>5, KeepTruth

\* A delete thread is checked, or finds what it will delete.
LEMMA ThreadTruth ==
  ASSUME TypeOK, TruthInv, NEW j \in Instances, ThreadCheck(j) \/ ThreadFind(j)
  PROVE  TruthInv'
<1>0. /\ UNCHANGED <<stored, status>>
      /\ \/ \E g \in Stages, h \in Stages \ {"remove"} :
              /\ g \notin {h, "remove"}
              /\ ThreadGoes(j, g, h) \/ ThreadEnds(j, g)
         \/ ThreadGoes(j, "sleep", "remove")
  BY DEF ThreadCheck, ThreadFind, Stages, sdl
<1>1. UNCHANGED <<toA1, handled, restarts, lossy, web, sendQ, sending, toXapp, xapp>>
  BY <1>0 DEF ThreadGoes, ThreadEnds, wires, xappVars, history
<1>2. \A i \in Instances : OnItsWay(i) => OnItsWay(i)'
  BY <1>1, Zenon DEF OnItsWay
<1>3. ASSUME NEW i \in Instances
      PROVE  threads'[i]["remove"] = threads[i]["remove"] \/ threads'[i]["remove"] # 0
  <2>1. CASE ThreadGoes(j, "sleep", "remove")
    BY <2>1, ThreadMoves DEF Stages
  <2>2. ASSUME NEW g \in Stages, NEW h \in Stages \ {"remove"}, g \notin {h, "remove"},
               ThreadGoes(j, g, h) \/ ThreadEnds(j, g)
        PROVE  threads'[i]["remove"] = threads[i]["remove"]
    BY <2>2, ThreadMoves DEF Stages
  <2> QED
    BY <1>0, <2>1, <2>2
<1>4. \A i \in Instances : Ahead(i) => Ahead(i)'
  BY <1>2, <1>3, Zenon DEF Ahead, Removing
<1> QED
  BY <1>0, <1>1, <1>4, KeepTruth

-----------------------------------------------------------------------------
(***************************************************************************)
(* Steps that change an instance, a status or what the xApp has handled.   *)
(***************************************************************************)

\* The answers on their way stay as they are.
LEMMA KeepAnswers ==
  ASSUME NEW i, AnswerInv(i), UNCHANGED <<toA1, handled>>
  PROVE  AnswerInv(i)' /\ (Has(toA1', i) <=> Has(toA1, i))
BY DEF AnswerInv, Has, LastSays

\* One instance is stored, removed or loses its status.
LEMMA DataTruth ==
  ASSUME TypeOK, TruthInv, NEW j \in Instances, UNCHANGED <<toA1, handled, restarts, lossy>>,
         \A i \in Instances \ {j} : stored'[i] = stored[i] /\ status'[i] = status[i],
         \A i \in Instances \ {j} : Ahead(i) => Ahead(i)',
         Ahead(j)' \/ ~stored'[j]
  PROVE  TruthInv'
<1>1. SUFFICES ASSUME ~restarts, ~lossy, NEW i \in Instances
               PROVE  AnswerInv(i)' /\ StatusInv(i)'
  BY Zenon DEF TruthInv
<1>2. AnswerInv(i) /\ StatusInv(i)
  BY <1>1, Zenon DEF TruthInv
<1>3. AnswerInv(i)' /\ (Has(toA1', i) <=> Has(toA1, i))
  BY <1>2, KeepAnswers
<1>4. CASE i = j
  BY <1>3, <1>4, Zenon DEF StatusInv
<1>5. CASE i # j
  <2>1. /\ stored'[i] = stored[i] /\ status'[i] = status[i]
        /\ Ahead(i) => Ahead(i)'
    BY <1>5
  <2> QED
    BY <1>2, <1>3, <2>1, Zenon DEF StatusInv, Truth
<1> QED
  BY <1>4, <1>5

LEMMA PutDataTruth ==
  ASSUME TypeOK, TruthInv, PutClear \/ PutSet
  PROVE  TruthInv'
<1>1. UNCHANGED <<toA1, handled, restarts, lossy, threads, sendQ, sending, toXapp, xapp>>
  BY DEF PutClear, PutSet, wires, xappVars, history
<1>2. /\ web.pc # "idle" /\ web'.pc # "idle" /\ web'.item = web.item /\ web.item.i \in Instances
  BY DEF PutClear, PutSet, TypeOK, Items
<1>p. PICK j \in Instances : j = web.item.i
  BY <1>2
<1>3. \A i \in Instances \ {j} : stored'[i] = stored[i] /\ status'[i] = status[i]
  BY <1>p DEF PutClear, PutSet, TypeOK
<1>4. \A i \in Instances : Ahead(i) => Ahead(i)'
  BY <1>1, <1>2, Zenon DEF Ahead, OnItsWay, Removing
<1>5. Ahead(j)'
  BY <1>2, <1>p, Zenon DEF Ahead, OnItsWay
<1> QED
  BY <1>1, <1>2, <1>3, <1>4, <1>5, DataTruth

LEMMA ThreadDataTruth ==
  ASSUME TypeOK, TruthInv, NEW j \in Instances, ThreadClear(j) \/ ThreadRemove(j)
  PROVE  TruthInv'
<1>1. UNCHANGED <<toA1, handled, restarts, lossy, web, sendQ, sending, toXapp, xapp>>
  BY DEF ThreadClear, ThreadRemove, ThreadGoes, ThreadEnds, wires, xappVars, history
<1>2. \A i \in Instances \ {j} : stored'[i] = stored[i] /\ status'[i] = status[i]
  BY DEF ThreadClear, ThreadRemove, TypeOK
<1>3. \A i \in Instances \ {j} : threads'[i] = threads[i]
  BY ThreadMoves DEF ThreadClear, ThreadRemove, Stages
<1>4. \A i \in Instances \ {j} : Ahead(i) => Ahead(i)'
  BY <1>1, <1>3, Zenon DEF Ahead, OnItsWay, Removing
<1>5. CASE ThreadClear(j)
  <2>1. threads'[j]["remove"] # 0
    BY <1>5, ThreadMoves DEF ThreadClear, Stages
  <2>2. Ahead(j)'
    BY <2>1, Zenon DEF Ahead, Removing
  <2> QED
    BY <1>1, <1>2, <1>4, <2>2, DataTruth
<1>6. CASE ThreadRemove(j)
  <2>1. ~stored'[j]
    BY <1>6 DEF ThreadRemove, TypeOK
  <2> QED
    BY <1>1, <1>2, <1>4, <2>1, DataTruth
<1> QED
  BY <1>5, <1>6

\* A query is taken out, or the response to an instance that is gone.
LEMMA LoopReadTruth ==
  ASSUME TypeOK, TruthInv, LoopQuery \/ LoopReceive
  PROVE  TruthInv'
<1> DEFINE m == Head(toA1)
<1>1. UNCHANGED <<stored, status, web, sendQ, sending, threads, toXapp, xapp, handled, lossy,
                  restarts>>
  BY DEF LoopQuery, LoopReceive, sdl, xappVars, history
<1>2. \A i \in Instances : Ahead(i) => Ahead(i)'
  BY <1>1, Zenon DEF Ahead, OnItsWay, Removing
<1>3. CASE toA1' = toA1
  BY <1>1, <1>2, <1>3, KeepTruth
<1>4. CASE toA1' = Tail(toA1) /\ (m = Query \/ ~stored[m.i])
  <2>1. toA1 \in Seq(Answers \cup {Query}) /\ toA1 # <<>>
    BY DEF LoopQuery, LoopReceive, TypeOK
  <2>2. SUFFICES ASSUME ~restarts, ~lossy, NEW i \in Instances
                 PROVE  AnswerInv(i)' /\ StatusInv(i)'
    BY <1>1, Zenon DEF TruthInv
  <2>3. AnswerInv(i) /\ StatusInv(i)
    BY <2>2, Zenon DEF TruthInv
  <2>4. Has(toA1, i) <=> Has(toA1', i) \/ m.i = i
    BY <1>4, <2>1, HasTail
  <2>5. LastSays(toA1', i, Answer(handled[i]))
    BY <1>4, <2>1, <2>3, LastTail DEF AnswerInv
  <2>6. AnswerInv(i)'
    BY <1>1, <2>3, <2>4, <2>5 DEF AnswerInv
  <2>7. m.i # i \/ ~stored[i]
    BY <1>4, NoneAssumption DEF Query
  <2> HIDE DEF m
  <2>8. StatusInv(i)'
    BY <1>1, <1>2, <2>3, <2>4, <2>7, Zenon DEF StatusInv, Truth
  <2> QED
    BY <2>6, <2>8
<1> QED
  BY <1>3, <1>4 DEF LoopQuery, LoopReceive

\* An answer that is recorded is the last one, or a later one follows.
LEMMA LoopWriteTruth == TypeOK /\ TruthInv /\ LoopWrite => TruthInv'
<1> SUFFICES ASSUME TypeOK, TruthInv, LoopWrite
             PROVE  TruthInv'
  OBVIOUS
<1> DEFINE m == Head(toA1)
<1>1. UNCHANGED <<stored, web, sendQ, sending, threads, toXapp, xapp, handled, lossy, restarts>>
  BY DEF LoopWrite, xappVars, history
<1>2. /\ toA1 \in Seq(Answers \cup {Query}) /\ toA1 # <<>> /\ toA1' = Tail(toA1)
      /\ status' = [status EXCEPT ![m.i] = m.op]
  BY DEF LoopWrite, TypeOK
<1>3. SUFFICES ASSUME ~restarts, ~lossy, NEW i \in Instances
               PROVE  AnswerInv(i)' /\ StatusInv(i)'
  BY <1>1, Zenon DEF TruthInv
<1>4. AnswerInv(i) /\ StatusInv(i)
  BY <1>3, Zenon DEF TruthInv
<1>5. Has(toA1, i) <=> Has(toA1', i) \/ m.i = i
  BY <1>2, HasTail
<1>6. /\ LastSays(toA1', i, Answer(handled[i]))
      /\ m.i = i /\ ~Has(toA1', i) => m.op = Answer(handled[i])
  BY <1>2, <1>4, LastTail DEF AnswerInv
<1>7. AnswerInv(i)'
  BY <1>1, <1>4, <1>5, <1>6 DEF AnswerInv
<1>8. Ahead(i) => Ahead(i)'
  BY <1>1, Zenon DEF Ahead, OnItsWay, Removing
<1>9. CASE m.i = i
  <2>1. status'[i] = m.op
    BY <1>2, <1>9 DEF TypeOK
  <2>2. handled[i] # "none"
    BY <1>4, <1>5, <1>9 DEF AnswerInv
  <2>3. ~Has(toA1', i) => Truth(i)'
    BY <1>1, <1>6, <1>9, <2>1, <2>2 DEF Truth
  <2> HIDE DEF m
  <2> QED
    BY <1>7, <2>3, Zenon DEF StatusInv
<1>10. CASE m.i # i
  <2>1. status'[i] = status[i]
    BY <1>2, <1>10 DEF TypeOK
  <2> HIDE DEF m
  <2> QED
    BY <1>1, <1>4, <1>5, <1>7, <1>8, <1>10, <2>1, Zenon DEF StatusInv, Truth
<1> QED
  BY <1>9, <1>10

LEMMA HandlePolicyReqTruth == TypeOK /\ TruthInv /\ HandlePolicyReq => TruthInv'
<1> SUFFICES ASSUME TypeOK, TruthInv, HandlePolicyReq
             PROVE  TruthInv'
  OBVIOUS
<1> DEFINE n == xapp.msg
           m == [op |-> Answer(n.op), i |-> n.i]
<1>1. UNCHANGED <<stored, status, web, sendQ, sending, threads, toXapp, lossy, restarts>>
  BY DEF HandlePolicyReq, sdl, process, history
<1>2. n \in Items /\ n # None
  BY DEF HandlePolicyReq, TypeOK
<1>3. m \in Answers \cup {Query}
  BY <1>2 DEF Items, Answers, Answer
<1>4. toA1 \in Seq(Answers \cup {Query}) /\ toA1' = Append(toA1, m)
  BY DEF HandlePolicyReq, XappSend, TypeOK
<1>5. handled' = [handled EXCEPT ![n.i] = n.op] /\ xapp'.msg = None
  BY DEF HandlePolicyReq, TypeOK
<1>6. SUFFICES ASSUME ~restarts, ~lossy, NEW i \in Instances
               PROVE  AnswerInv(i)' /\ StatusInv(i)'
  BY <1>1, Zenon DEF TruthInv
<1>7. AnswerInv(i) /\ StatusInv(i)
  BY <1>6, Zenon DEF TruthInv
<1>8. Has(toA1', i) <=> Has(toA1, i) \/ m.i = i
  BY <1>3, <1>4, HasAppend
<1>9. CASE n.i = i
  <2>1. handled'[i] = n.op /\ n.op # "none" /\ m.op = Answer(n.op) /\ m.i = i
    BY <1>2, <1>5, <1>9 DEF TypeOK, Items
  <2>2. LastSays(toA1', i, Answer(handled'[i]))
    BY <1>3, <1>4, <2>1, LastAppend
  <2>3. Has(toA1, i)' <=> Has(toA1', i)
    BY DEF Has
  <2>4. AnswerInv(i)'
    BY <2>1, <2>2 DEF AnswerInv
  <2> QED
    BY <1>1, <1>7, <1>8, <2>1, <2>3, <2>4 DEF StatusInv
<1>10. CASE n.i # i
  <2>1. handled'[i] = handled[i] /\ m.i # i
    BY <1>5, <1>10 DEF TypeOK
  <2>2. LastSays(toA1', i, Answer(handled[i]))
    BY <1>3, <1>4, <1>7, <2>1, LastAppend DEF AnswerInv
  <2>3. Has(toA1', i) <=> Has(toA1, i)
    BY <1>8, <2>1
  <2> HIDE DEF m
  <2>4. AnswerInv(i)'
    BY <1>7, <2>1, <2>2, <2>3 DEF AnswerInv
  <2>5. Ahead(i) => Ahead(i)'
    BY <1>1, <1>10, Zenon DEF Ahead, OnItsWay, Removing
  <2> QED
    BY <1>1, <1>7, <2>1, <2>3, <2>4, <2>5, Zenon DEF StatusInv, Truth
<1> QED
  BY <1>9, <1>10

LEMMA SendQueryTruth == TypeOK /\ TruthInv /\ SendQuery => TruthInv'
<1> SUFFICES ASSUME TypeOK, TruthInv, SendQuery
             PROVE  TruthInv'
  OBVIOUS
<1>1. UNCHANGED <<stored, status, web, sendQ, sending, threads, toXapp, xapp, handled, lossy,
                  restarts>>
  BY DEF SendQuery, sdl, process, xappVars, history
<1>2. toA1 \in Seq(Answers \cup {Query}) /\ toA1' = Append(toA1, Query)
  BY DEF SendQuery, XappSend, TypeOK
<1>3. SUFFICES ASSUME ~restarts, ~lossy, NEW i \in Instances
               PROVE  AnswerInv(i)' /\ StatusInv(i)'
  BY <1>1, Zenon DEF TruthInv
<1>4. AnswerInv(i) /\ StatusInv(i)
  BY <1>3, Zenon DEF TruthInv
<1>5. Query.i # i
  BY NoneAssumption DEF Query
<1>6. Has(toA1', i) <=> Has(toA1, i)
  BY <1>2, <1>5, HasAppend
<1>7. LastSays(toA1', i, Answer(handled[i]))
  BY <1>2, <1>4, <1>5, LastAppend DEF AnswerInv
<1>8. AnswerInv(i)'
  BY <1>1, <1>4, <1>6, <1>7 DEF AnswerInv
<1>9. Ahead(i) => Ahead(i)'
  BY <1>1, Zenon DEF Ahead, OnItsWay, Removing
<1> QED
  BY <1>1, <1>4, <1>6, <1>8, <1>9, Zenon DEF StatusInv, Truth

-----------------------------------------------------------------------------
LEMMA InitTruth == Init => TruthInv
<1> SUFFICES ASSUME Init, ~restarts, NEW i \in Instances
             PROVE  AnswerInv(i) /\ StatusInv(i)
  BY Zenon DEF TruthInv
<1>1. ~Has(toA1, i) /\ LastSays(toA1, i, Answer(handled[i]))
  BY DEF Init, Has, LastSays
<1>2. ~stored[i]
  BY DEF Init
<1> QED
  BY <1>1, <1>2 DEF AnswerInv, StatusInv

LEMMA TruthStep == TypeOK /\ TruthInv /\ [Next]_vars => TruthInv'
<1> SUFFICES ASSUME TypeOK, TruthInv, [Next]_vars
             PROVE  TruthInv'
  OBVIOUS
<1>1. ASSUME Web \/ Sender \/ Loop
      PROVE  TruthInv'
  <2>1. ASSUME Web
        PROVE  TruthInv'
    <3>1. ASSUME PutFind
          PROVE  TruthInv'
      <4>1. web.item.i \in Instances
        BY <3>1 DEF PutFind, TypeOK, Items
      <4> QED
        BY <3>1, <4>1, WebTruth
    <3> QED
      BY <2>1, <3>1, QueueSendTruth, WebTruth, PutDataTruth, DeleteInstanceTruth
      DEF Web, Handler
  <2> QED
    BY <1>1, <2>1, SenderTakeTruth, SenderSendTruth, LoopReadTruth, LoopWriteTruth,
       LoopAnswerTruth, StillTruth
    DEF Sender, Loop
<1>2. ASSUME RmrReady \/ Consume \/ HandlePolicyReq \/ SendQuery
      PROVE  TruthInv'
  BY <1>2, StillTruth, ConsumeTruth, HandlePolicyReqTruth, SendQueryTruth
<1>3. ASSUME RestartA1 \/ KillA1 \/ KillXapp
      PROVE  TruthInv'
  BY <1>3 DEF RestartA1, KillA1, KillXapp, StartA1, TruthInv
<1>4. ASSUME UNCHANGED vars
      PROVE  TruthInv'
  BY <1>4, StillTruth
<1> QED
  BY <1>1, <1>2, <1>3, <1>4, ThreadTruth, ThreadDataTruth DEF Next, DeleteAfter

LEMMA Invariant == Spec => []SystemInv
<1>1. Init => SystemInv
  BY InitTypes, InitTruth DEF SystemInv
<1>2. SystemInv /\ [Next]_vars => SystemInv'
  BY TypeStep, TruthStep DEF SystemInv
<1> QED
  BY <1>1, <1>2, PTL DEF Spec

\* Variables keep their types, no request has more than one item in the queue
\* and no wire outgrows what rmr holds, whatever happens to messages and
\* processes (controller.py 171-215, a1rmr.py 71-117, receiver.go 60-121).
THEOREM SystemTypeCorrect == Spec => []TypeOK
<1>1. SystemInv => TypeOK
  BY DEF SystemInv
<1> QED
  BY <1>1, Invariant, PTL

\* When nothing is on its way, nothing was lost and nobody restarted, the
\* status of a stored instance that no delete thread is about to remove is
\* the xApp's answer to the item it handled last, for any number of instances,
\* senders, requests and delete threads and any wires (a1rmr.py 210-225,
\* data.py 138-151, 200-219, 270-277, receiver.go 75-121).
THEOREM QuietStatusTrue == Spec => []QuietTruth
<1>1. SystemInv => QuietTruth
  <2> SUFFICES ASSUME TypeOK, TruthInv, Quiet, ~lossy, ~restarts, NEW i \in Instances,
                      stored[i], threads[i]["remove"] = 0
               PROVE  handled[i] # "none" /\ status[i] = Answer(handled[i])
    BY Zenon DEF SystemInv, QuietTruth
  <2>1. ~Ahead(i)
    BY HasEmpty, Zenon DEF Quiet, Ahead, OnItsWay, Removing
  <2>2. ~Has(toA1, i)
    <3>1. toA1 \in Seq(Answers \cup {Query})
      BY DEF TypeOK
    <3>2. ASSUME NEW k \in 1..Len(toA1)
          PROVE  toA1[k].i # i
      <4>1. toA1[k] \in ToSet(toA1)
        BY <3>1, <3>2 DEF ToSet
      <4>2. toA1[k] = Query
        BY <4>1 DEF Quiet
      <4> QED
        BY <4>2, NoneAssumption DEF Query
    <3> QED
      BY <3>2 DEF Has
  <2>3. StatusInv(i)
    BY Zenon DEF TruthInv
  <2> QED
    BY <2>1, <2>2, <2>3, Zenon DEF StatusInv, Truth
<1> QED
  BY <1>1, Invariant, PTL
=============================================================================
