--------------------------- MODULE GoServerProofs ---------------------------
(***************************************************************************)
(* Theorems about GoServer: the safety properties of a graceful shutdown,  *)
(* for any set of listeners and any number of requests and signals.        *)
(***************************************************************************)
EXTENDS GoServer, FiniteSetTheorems, TLAPS

-----------------------------------------------------------------------------
(***************************************************************************)
(* The inductive invariant.                                                *)
(***************************************************************************)

\* The channel is closed if and only if the flag is set.
FlagInv == down.flag <=> down.closes = 1

\* How far main and handleShutdown have come with respect to each other.
PhaseInv ==
  /\ main.pc \in {"listen", "notify", "start", "shutdown"} => hs.pc = "none"
  /\ main.pc = "return" => hs.pc = "done"
  /\ exit = "0" => main.pc = "return"
  /\ hs.pc \in {"none", "wait"} => hs.success /\ stop = [s \in AllSchemes |-> "none"]

\* The servers whose result has not been received.
Open == {s \in Schemes : stop[s] # "done"}

\* handleShutdown waits for as many results as are open, and runs the hook if
\* and only if it received all of them and they were good.
CollectInv ==
  /\ hs.pc = "collect" => hs.left = Cardinality(Open)
  /\ hs.pc = "done" /\ hs.success => "post" \in hooks /\ Open = {}
  /\ "post" \in hooks => hs.pc = "done" /\ hs.success

\* Why a server may fail to shut down.
Explained == expired \/ \E s \in Schemes : listener[s] = "error"

\* A server that is shut down takes no requests; a good result means that it
\* has none, a bad one can be explained.
ServerInv(s) ==
  /\ InShutdown(s) /\ serving[s] = "serving" => listener[s] \in {"closed", "error"}
  /\ stop[s] = "ok" => conns[s] = 0 /\ listener[s] # "error"
  /\ stop[s] = "done" /\ hs.success => conns[s] = 0 /\ listener[s] # "error"
  /\ stop[s] = "failed" => Explained
  /\ listener[s] = "error" => s \in Schemes /\ InShutdown(s) /\ serving[s] # "started"
  /\ stop[s] # "none" => s \in Schemes

ServersInv == (\A s \in AllSchemes : ServerInv(s)) /\ (~hs.success => Explained)

Inv == TypeOK /\ FlagInv /\ PhaseInv /\ CollectInv /\ ServersInv

-----------------------------------------------------------------------------
(***************************************************************************)
(* Lemmas.                                                                 *)
(***************************************************************************)

\* There are three schemes at most.
LEMMA SchemesFinite ==
  ASSUME TypeOK
  PROVE  /\ Schemes \subseteq AllSchemes
         /\ IsFiniteSet(Schemes)
         /\ Cardinality(Schemes) \in 0..3
<1>1. Schemes \subseteq AllSchemes
  BY ConfigsAssumption DEF TypeOK, MainTypeOK, Schemes, AllSchemes
<1>2. IsFiniteSet({"unix"}) /\ Cardinality({"unix"}) = 1
  BY FS_Singleton
<1>3. IsFiniteSet({"unix", "http"}) /\ Cardinality({"unix", "http"}) = 2
  <2>1. {"unix", "http"} = {"unix"} \cup {"http"}
    OBVIOUS
  <2> QED
    BY <1>2, <2>1, FS_AddElement
<1>4. IsFiniteSet(AllSchemes) /\ Cardinality(AllSchemes) = 3
  <2>1. AllSchemes = {"unix", "http"} \cup {"https"}
    BY DEF AllSchemes
  <2> QED
    BY <1>3, <2>1, FS_AddElement
<1>5. IsFiniteSet(Schemes) /\ Cardinality(Schemes) <= 3
  BY <1>1, <1>4, FS_Subset
<1> QED
  BY <1>1, <1>5, FS_CardinalityType

\* The first scheme is one of the three.
LEMMA FirstScheme == \A S : First(S) \in AllSchemes
BY DEF First, AllSchemes

\* The initial state.
LEMMA InitInv == Init => Inv
<1> SUFFICES ASSUME Init PROVE Inv
  OBVIOUS
<1>1. Schemes \subseteq AllSchemes
  BY ConfigsAssumption DEF Init, Schemes, AllSchemes
<1>2. MainTypeOK /\ NetTypeOK
  BY <1>1, BoundsAssumption DEF Init, MainTypeOK, NetTypeOK
<1>3. SignalTypeOK /\ StopTypeOK
  <2>1. SignalTypeOK
    BY BoundsAssumption DEF Init, SignalTypeOK
  <2>2. hs \in [pc : {"none", "wait", "collect", "done"}, left : 0..3, success : BOOLEAN]
    <3>1. hs = [pc |-> "none", left |-> 0, success |-> TRUE]
      BY DEF Init
    <3>2. 0 \in 0..3 /\ TRUE \in BOOLEAN
      OBVIOUS
    <3> QED
      BY <3>1, <3>2
  <2>3. /\ stop \in [AllSchemes -> {"none", "begin", "drain", "ok", "failed", "done"}]
        /\ expired \in BOOLEAN
        /\ hooks \subseteq {"pre", "post"}
    BY DEF Init
  <2> QED
    BY <2>1, <2>2, <2>3 DEF StopTypeOK
<1>4. FlagInv /\ PhaseInv /\ CollectInv
  BY DEF Init, FlagInv, PhaseInv, CollectInv
<1>5. ServersInv
  BY DEF Init, ServersInv, ServerInv, InShutdown, Explained
<1> QED
  BY <1>2, <1>3, <1>4, <1>5 DEF Inv, TypeOK

\* The flag keeps the channel from being closed twice.
LEMMA ShutdownType ==
  ASSUME SignalTypeOK, FlagInv, Shutdown
  PROVE  /\ down' \in [flag : BOOLEAN, closes : {0, 1}]
         /\ FlagInv'
<1>1. CASE down.flag
  BY <1>1 DEF Shutdown, SignalTypeOK, FlagInv
<1>2. CASE ~down.flag
  BY <1>2 DEF Shutdown, SignalTypeOK, FlagInv
<1> QED
  BY <1>1, <1>2

\* Main's steps through the schemes keep its type.
LEMMA AdvanceType ==
  ASSUME TypeOK, NEW pc \in {"notify", "shutdown"}, Advance(pc)
  PROVE  main' \in [pc : {"listen", "notify", "start", "shutdown", "wait", "return"},
                    todo : SUBSET AllSchemes]
BY SchemesFinite DEF Advance, TypeOK, MainTypeOK

\* Every step keeps the types and the flag.
LEMMA TypeStep ==
  ASSUME TypeOK, FlagInv, [Next]_vars
  PROVE  TypeOK' /\ FlagInv'
<1> USE DEF TypeOK
<1>1. CASE Listen
  <2>1. MainTypeOK'
    BY <1>1, AdvanceType DEF Listen, MainTypeOK
  <2>2. NetTypeOK'
    BY <1>1, FirstScheme DEF Listen, NetTypeOK
  <2> QED
    BY <1>1, <2>1, <2>2 DEF Listen, signalVars, stopVars, SignalTypeOK, StopTypeOK, FlagInv
<1>2. CASE ListenError \/ TLSError \/ \E s \in AllSchemes : ServeError(s)
  <2>1. Fatal
    BY <1>2 DEF ListenError, TLSError, ServeError
  <2> QED
    BY <2>1 DEF Fatal, netVars, signalVars, stopVars, MainTypeOK, NetTypeOK,
                SignalTypeOK, StopTypeOK, FlagInv
<1>3. CASE SignalNotify
  <2>1. MainTypeOK' /\ NetTypeOK' /\ StopTypeOK' /\ FlagInv'
    BY <1>3 DEF SignalNotify, netVars, stopVars, MainTypeOK, NetTypeOK, StopTypeOK, FlagInv
  <2>2. SignalTypeOK'
    BY <1>3 DEF SignalNotify, SignalTypeOK
  <2> QED
    BY <2>1, <2>2
<1>4. CASE StartServer
  <2>1. MainTypeOK'
    BY <1>4, AdvanceType DEF StartServer, MainTypeOK
  <2>2. NetTypeOK'
    BY <1>4, FirstScheme DEF StartServer, NetTypeOK
  <2> QED
    BY <1>4, <2>1, <2>2 DEF StartServer, signalVars, stopVars, SignalTypeOK, StopTypeOK, FlagInv
<1>5. CASE StartShutdown
  <2>1. MainTypeOK' /\ StopTypeOK'
    BY <1>5 DEF StartShutdown, MainTypeOK, StopTypeOK
  <2> QED
    BY <1>5, <2>1 DEF StartShutdown, netVars, signalVars, NetTypeOK, SignalTypeOK, FlagInv
<1>6. CASE Wait
  <2>1. MainTypeOK'
    BY <1>6 DEF Wait, MainTypeOK
  <2> QED
    BY <1>6, <2>1 DEF Wait, netVars, signalVars, stopVars, NetTypeOK, SignalTypeOK,
                      StopTypeOK, FlagInv
<1>7. CASE Return
  <2>1. MainTypeOK' /\ NetTypeOK' /\ StopTypeOK'
    BY <1>7 DEF Return, netVars, stopVars, MainTypeOK, NetTypeOK, StopTypeOK
  <2>2. SignalTypeOK' /\ FlagInv'
    BY <1>7, ShutdownType DEF Return, signalVars, SignalTypeOK
  <2> QED
    BY <2>1, <2>2
<1>8. CASE Signal
  <2>1. SignalTypeOK' /\ MainTypeOK'
    BY <1>8, BoundsAssumption DEF Signal, SignalTypeOK, MainTypeOK
  <2> QED
    BY <1>8, <2>1 DEF Signal, netVars, stopVars, NetTypeOK, StopTypeOK, FlagInv
<1>9. CASE HandleInterrupt
  <2>1. MainTypeOK' /\ NetTypeOK' /\ StopTypeOK'
    BY <1>9 DEF HandleInterrupt, netVars, stopVars, MainTypeOK, NetTypeOK, StopTypeOK
  <2>2. CASE handler.interrupted
    BY <1>9, <2>1, <2>2 DEF HandleInterrupt, SignalTypeOK, FlagInv
  <2>3. CASE ~handler.interrupted
    BY <1>9, <2>1, <2>3, ShutdownType DEF HandleInterrupt, SignalTypeOK
  <2> QED
    BY <2>2, <2>3
<1>10. CASE BeginShutdown
  <2>1. StopTypeOK'
    BY <1>10, SchemesFinite DEF BeginShutdown, StopTypeOK
  <2> QED
    BY <1>10, <2>1 DEF BeginShutdown, netVars, signalVars, MainTypeOK, NetTypeOK,
                       SignalTypeOK, FlagInv
<1>11. CASE Grace
  <2>1. StopTypeOK'
    BY <1>11 DEF Grace, StopTypeOK
  <2> QED
    BY <1>11, <2>1 DEF Grace, netVars, signalVars, MainTypeOK, NetTypeOK, SignalTypeOK, FlagInv
<1>12. CASE EndShutdown
  <2>1. StopTypeOK'
    BY <1>12 DEF EndShutdown, StopTypeOK
  <2> QED
    BY <1>12, <2>1 DEF EndShutdown, netVars, signalVars, MainTypeOK, NetTypeOK,
                       SignalTypeOK, FlagInv
<1>13. ASSUME NEW s \in AllSchemes,
              BeginServe(s) \/ EndServe(s) \/ RequestBegins(s) \/ RequestEnds(s)
       PROVE  TypeOK' /\ FlagInv'
  <2>1. MainTypeOK' /\ SignalTypeOK' /\ StopTypeOK' /\ FlagInv'
    <3>1. UNCHANGED <<enabled, main, down, exit, signalVars, stopVars>>
      BY <1>13 DEF BeginServe, EndServe, RequestBegins, RequestEnds
    <3> QED
      BY <3>1 DEF signalVars, stopVars, MainTypeOK, SignalTypeOK, StopTypeOK, FlagInv
  <2>2. CASE BeginServe(s) \/ EndServe(s)
    BY <2>1, <2>2 DEF BeginServe, EndServe, NetTypeOK
  <2>3. CASE RequestBegins(s) \/ RequestEnds(s)
    BY <2>1, <2>3, BoundsAssumption DEF RequestBegins, RequestEnds, NetTypeOK
  <2> QED
    BY <1>13, <2>2, <2>3
<1>14. ASSUME NEW s \in AllSchemes, CloseListener(s) \/ Drain(s) \/ Collect(s)
       PROVE  TypeOK' /\ FlagInv'
  <2>1. MainTypeOK' /\ SignalTypeOK' /\ FlagInv'
    BY <1>14 DEF CloseListener, Drain, Collect, signalVars, MainTypeOK, SignalTypeOK, FlagInv
  <2>2. NetTypeOK'
    BY <1>14 DEF CloseListener, Drain, Collect, netVars, NetTypeOK
  <2>3. CASE CloseListener(s)
    BY <2>1, <2>2, <2>3 DEF CloseListener, StopTypeOK
  <2>4. CASE Drain(s)
    BY <2>1, <2>2, <2>4 DEF Drain, StopTypeOK
  <2>5. CASE Collect(s)
    <3>1. hs.left - 1 \in 0..3 /\ (stop[s] = "ok") \in BOOLEAN
      BY <2>5 DEF Collect, StopTypeOK
    <3>2. hs' \in [pc : {"none", "wait", "collect", "done"}, left : 0..3, success : BOOLEAN]
      BY <2>5, <3>1 DEF Collect, StopTypeOK
    <3> QED
      BY <2>1, <2>2, <2>5, <3>2 DEF Collect, StopTypeOK
  <2> QED
    BY <1>14, <2>3, <2>4, <2>5
<1>15. CASE UNCHANGED vars
  BY <1>15 DEF vars, netVars, signalVars, stopVars, MainTypeOK, NetTypeOK,
               SignalTypeOK, StopTypeOK, FlagInv
<1> QED
  BY <1>1, <1>2, <1>3, <1>4, <1>5, <1>6, <1>7, <1>8, <1>9, <1>10, <1>11, <1>12,
     <1>13, <1>14, <1>15 DEF Next, Main, Server, Exited

\* What stays the same in every step.
LEMMA SchemesStep ==
  ASSUME [Next]_vars
  PROVE  Schemes' = Schemes
<1>1. CASE Main \/ Signal \/ HandleInterrupt \/ UNCHANGED vars
  BY <1>1 DEF Main, vars, Listen, ListenError, SignalNotify, StartServer, TLSError,
              StartShutdown, Wait, Return, Signal, HandleInterrupt, Fatal, Schemes
<1>2. CASE BeginShutdown \/ Grace \/ EndShutdown
  BY <1>2 DEF BeginShutdown, Grace, EndShutdown, Schemes
<1>3. ASSUME NEW s \in AllSchemes,
             Server(s) \/ Collect(s) \/ ServeError(s) \/ RequestBegins(s) \/ RequestEnds(s)
      PROVE  Schemes' = Schemes
  BY <1>3 DEF Server, BeginServe, EndServe, CloseListener, Drain, Collect, ServeError,
              RequestBegins, RequestEnds, Fatal, Schemes
<1> QED
  BY <1>1, <1>2, <1>3 DEF Next, Exited

\* Main's steps through the schemes end at the given place.
LEMMA AdvancePc ==
  ASSUME TypeOK, NEW pc, Advance(pc)
  PROVE  main'.pc \in {main.pc, pc}
BY DEF Advance, TypeOK, MainTypeOK

\* Every step keeps main and handleShutdown in phase.
LEMMA PhaseStep ==
  ASSUME TypeOK, PhaseInv, ServersInv, [Next]_vars
  PROVE  PhaseInv'
<1> USE DEF TypeOK, PhaseInv
<1>1. CASE Listen \/ StartServer
  <2>1. main'.pc \in {"listen", "notify", "start", "shutdown"}
    BY <1>1, AdvancePc DEF Listen, StartServer, MainAt
  <2>2. main.pc \in {"listen", "start"} /\ UNCHANGED <<hs, stop, exit>> /\ exit = "no"
    BY <1>1 DEF Listen, StartServer, MainAt, stopVars
  <2> QED
    BY <2>1, <2>2
<1>2. CASE ListenError \/ TLSError \/ \E s \in AllSchemes : ServeError(s)
  <2>1. Fatal
    BY <1>2 DEF ListenError, TLSError, ServeError
  <2> QED
    BY <2>1 DEF Fatal, stopVars
<1>3. CASE SignalNotify
  BY <1>3 DEF SignalNotify, MainAt, stopVars, MainTypeOK
<1>4. CASE StartShutdown
  BY <1>4 DEF StartShutdown, MainAt, MainTypeOK, StopTypeOK
<1>5. CASE Wait
  BY <1>5 DEF Wait, MainAt, stopVars, MainTypeOK
<1>6. CASE Return
  BY <1>6 DEF Return, MainAt, stopVars
<1>7. CASE Signal \/ HandleInterrupt \/ UNCHANGED vars
  BY <1>7 DEF Signal, HandleInterrupt, vars, stopVars
<1>8. CASE BeginShutdown \/ EndShutdown
  <2>1. hs.pc \in {"wait", "collect"} /\ hs'.pc \in {"collect", "done"}
    BY <1>8 DEF BeginShutdown, EndShutdown, StopTypeOK
  <2>2. UNCHANGED <<main, exit>> /\ exit = "no"
    BY <1>8 DEF BeginShutdown, EndShutdown
  <2> QED
    BY <2>1, <2>2
<1>9. CASE Grace
  BY <1>9 DEF Grace
<1>10. ASSUME NEW s \in AllSchemes,
              BeginServe(s) \/ EndServe(s) \/ RequestBegins(s) \/ RequestEnds(s)
       PROVE  PhaseInv'
  BY <1>10 DEF BeginServe, EndServe, RequestBegins, RequestEnds, stopVars
<1>11. ASSUME NEW s \in AllSchemes, CloseListener(s) \/ Drain(s)
       PROVE  PhaseInv'
  <2>1. stop[s] # "none"
    BY <1>11 DEF CloseListener, Drain
  <2>2. hs.pc \notin {"none", "wait"}
    BY <2>1
  <2> QED
    BY <1>11, <2>2 DEF CloseListener, Drain
<1>12. ASSUME NEW s \in AllSchemes, Collect(s)
       PROVE  PhaseInv'
  BY <1>12 DEF Collect, StopTypeOK
<1> QED
  BY <1>1, <1>2, <1>3, <1>4, <1>5, <1>6, <1>7, <1>8, <1>9, <1>10, <1>11, <1>12
     DEF Next, Main, Server, Exited

\* Every step keeps the count of the results that are still to come.
LEMMA CollectStep ==
  ASSUME TypeOK, PhaseInv, CollectInv, ServersInv, [Next]_vars
  PROVE  CollectInv'
<1> USE DEF TypeOK
<1>1. Schemes' = Schemes /\ Schemes \subseteq AllSchemes
  BY SchemesStep, SchemesFinite
<1>2. IsFiniteSet(Open)
  BY SchemesFinite, FS_Subset DEF Open
<1>3. CASE UNCHANGED <<hs, stop, hooks>>
  BY <1>1, <1>3 DEF CollectInv, Open
<1>4. CASE StartShutdown
  BY <1>4 DEF StartShutdown, MainAt, PhaseInv, CollectInv, StopTypeOK
<1>5. CASE BeginShutdown
  <2>1. Open' = Schemes
    BY <1>1, <1>5 DEF BeginShutdown, Open
  <2>2. hs'.pc = "collect" /\ hs'.left = Cardinality(Schemes) /\ "post" \notin hooks'
    BY <1>5 DEF BeginShutdown, CollectInv, StopTypeOK
  <2> QED
    BY <2>1, <2>2 DEF CollectInv
<1>6. ASSUME NEW s \in AllSchemes, CloseListener(s) \/ Drain(s)
      PROVE  CollectInv'
  <2>1. UNCHANGED <<hs, hooks>>
    BY <1>6 DEF CloseListener, Drain
  <2>2. stop[s] # "done" /\ stop'[s] # "done"
    BY <1>6 DEF CloseListener, Drain, StopTypeOK
  <2>3. \A r \in AllSchemes : r # s => stop'[r] = stop[r]
    BY <1>6 DEF CloseListener, Drain, StopTypeOK
  <2>4. Open' = Open
    BY <1>1, <2>2, <2>3 DEF Open
  <2> QED
    BY <2>1, <2>4 DEF CollectInv
<1>7. ASSUME NEW s \in AllSchemes, Collect(s)
      PROVE  CollectInv'
  <2>1. s \in Open
    BY <1>7 DEF Collect, Open, ServersInv, ServerInv
  <2>2. Open' = Open \ {s}
    BY <1>1, <1>7 DEF Collect, Open, StopTypeOK
  <2>3. Cardinality(Open') = Cardinality(Open) - 1
    BY <1>2, <2>1, <2>2, FS_RemoveElement
  <2>4. hs'.pc = "collect" /\ hs'.left = hs.left - 1 /\ "post" \notin hooks'
    BY <1>7 DEF Collect, CollectInv, StopTypeOK
  <2>5. hs.left = Cardinality(Open)
    BY <1>7 DEF Collect, CollectInv
  <2> QED
    BY <2>3, <2>4, <2>5 DEF CollectInv
<1>8. CASE EndShutdown
  <2>1. Open' = Open
    BY <1>1, <1>8 DEF EndShutdown, Open
  <2>2. hs'.pc = "done" /\ hs'.success = hs.success /\ hs.pc = "collect"
    BY <1>8 DEF EndShutdown, StopTypeOK
  <2>3. "post" \notin hooks
    BY <2>2 DEF CollectInv
  <2>4. CASE hs.success
    <3>1. Cardinality(Open) = 0
      BY <1>8, <2>2, <2>4 DEF EndShutdown, CollectInv
    <3>2. Open = {}
      BY <1>2, <3>1, FS_EmptySet
    <3> QED
      BY <1>8, <2>1, <2>2, <2>4, <3>2 DEF EndShutdown, CollectInv
  <2>5. CASE ~hs.success
    BY <1>8, <2>2, <2>3, <2>5 DEF EndShutdown, CollectInv
  <2> QED
    BY <2>4, <2>5
<1>9. CASE \/ Listen \/ SignalNotify \/ StartServer \/ Wait \/ Return
           \/ Signal \/ HandleInterrupt \/ UNCHANGED vars
  BY <1>3, <1>9 DEF Listen, SignalNotify, StartServer, Wait, Return, Signal,
                    HandleInterrupt, vars, stopVars
<1>10. CASE ListenError \/ TLSError \/ Grace
  BY <1>3, <1>10 DEF ListenError, TLSError, Grace, Fatal, stopVars
<1>11. ASSUME NEW s \in AllSchemes,
              \/ BeginServe(s) \/ EndServe(s) \/ RequestBegins(s) \/ RequestEnds(s)
              \/ ServeError(s)
       PROVE  CollectInv'
  BY <1>3, <1>11 DEF BeginServe, EndServe, RequestBegins, RequestEnds, ServeError,
                     Fatal, stopVars
<1> QED
  BY <1>4, <1>5, <1>6, <1>7, <1>8, <1>9, <1>10, <1>11 DEF Next, Main, Server, Exited

\* An explanation stays one: a listener that gave an error is not touched.
LEMMA ExplainedStep ==
  ASSUME TypeOK, PhaseInv, ServersInv, [Next]_vars, Explained
  PROVE  Explained'
<1> USE DEF TypeOK
<1>1. Schemes' = Schemes /\ Schemes \subseteq AllSchemes
  BY SchemesStep, SchemesFinite
<1>2. ASSUME expired' = expired,
             \A s \in AllSchemes : listener[s] = "error" => listener'[s] = "error"
      PROVE  Explained'
  BY <1>1, <1>2 DEF Explained
<1>3. CASE Listen
  <2>1. \A s \in AllSchemes : listener[s] # "error"
    BY <1>3 DEF Listen, MainAt, PhaseInv, ServersInv, ServerInv, InShutdown
  <2> QED
    BY <1>2, <1>3, <2>1 DEF Listen, stopVars
<1>4. CASE Grace
  BY <1>4 DEF Grace, Explained
<1>5. ASSUME NEW s \in AllSchemes, BeginServe(s) \/ CloseListener(s)
      PROVE  Explained'
  <2>1. listener[s] # "error"
    BY <1>5 DEF BeginServe, CloseListener, ServersInv, ServerInv, InShutdown
  <2>2. \A r \in AllSchemes : r # s => listener'[r] = listener[r]
    BY <1>5 DEF BeginServe, CloseListener, NetTypeOK
  <2>3. expired' = expired
    BY <1>5 DEF BeginServe, CloseListener, stopVars
  <2> QED
    BY <1>2, <2>1, <2>2, <2>3
<1>6. CASE UNCHANGED <<expired, listener>>
  BY <1>2, <1>6
<1>7. CASE \/ SignalNotify \/ StartServer \/ StartShutdown \/ Wait \/ Return
           \/ Signal \/ HandleInterrupt \/ BeginShutdown \/ EndShutdown
           \/ UNCHANGED vars
  BY <1>6, <1>7 DEF SignalNotify, StartServer, StartShutdown, Wait, Return, Signal,
                    HandleInterrupt, BeginShutdown, EndShutdown, vars, stopVars, netVars
<1>8. ASSUME NEW s \in AllSchemes,
             \/ EndServe(s) \/ RequestBegins(s) \/ RequestEnds(s) \/ ServeError(s)
             \/ Drain(s) \/ Collect(s)
      PROVE  Explained'
  BY <1>6, <1>8 DEF EndServe, RequestBegins, RequestEnds, ServeError, Drain, Collect,
                    Fatal, stopVars, netVars
<1>9. CASE ListenError \/ TLSError
  BY <1>6, <1>9 DEF ListenError, TLSError, Fatal, stopVars, netVars
<1> QED
  BY <1>3, <1>4, <1>5, <1>7, <1>8, <1>9 DEF Next, Main, Server, Exited

\* A server for which nothing changes keeps its part of the invariant.
LEMMA OtherServer ==
  ASSUME TypeOK, PhaseInv, ServersInv, [Next]_vars, NEW s \in AllSchemes,
         listener'[s] = listener[s], serving'[s] = serving[s],
         conns'[s] = conns[s], stop'[s] = stop[s], hs'.success => hs.success
  PROVE  ServerInv(s)'
<1>1. Schemes' = Schemes /\ ServerInv(s)
  BY SchemesStep DEF ServersInv
<1>2. Explained => Explained'
  BY ExplainedStep
<1> QED
  BY <1>1, <1>2 DEF ServerInv, InShutdown

\* Every step keeps the servers' part of the invariant.
LEMMA ServersStep ==
  ASSUME TypeOK, PhaseInv, CollectInv, ServersInv, [Next]_vars
  PROVE  ServersInv'
<1> USE DEF TypeOK
<1>1. Schemes' = Schemes /\ Schemes \subseteq AllSchemes
  BY SchemesStep, SchemesFinite
<1>2. Explained => Explained'
  BY ExplainedStep
<1>3. CASE UNCHANGED <<listener, serving, conns, stop, hs>>
  BY <1>2, <1>3, OtherServer DEF ServersInv
<1>4. CASE Listen \/ StartServer
  <2>1. UNCHANGED <<hs, stop, conns>> /\ hs.success /\ \A s \in AllSchemes : stop[s] = "none"
    BY <1>4 DEF Listen, StartServer, MainAt, PhaseInv, stopVars
  <2>2. \A s \in AllSchemes : listener[s] # "error"
    BY <2>1 DEF ServersInv, ServerInv, InShutdown
  <2>3. \A s \in AllSchemes : listener'[s] # "error"
    BY <1>4, <2>2 DEF Listen, StartServer, NetTypeOK
  <2> QED
    BY <2>1, <2>3 DEF ServersInv, ServerInv, InShutdown
<1>5. CASE StartShutdown \/ EndShutdown
  <2>1. UNCHANGED <<listener, serving, conns, stop>> /\ hs'.success = hs.success
    BY <1>5 DEF StartShutdown, EndShutdown, netVars, StopTypeOK
  <2> QED
    BY <1>2, <2>1, OtherServer DEF ServersInv
<1>6. CASE BeginShutdown
  <2>1. UNCHANGED <<listener, serving, conns>> /\ hs'.success
    BY <1>6 DEF BeginShutdown, PhaseInv, StopTypeOK, netVars
  <2>2. \A s \in AllSchemes : listener[s] # "error"
    BY <1>6 DEF BeginShutdown, PhaseInv, ServersInv, ServerInv, InShutdown
  <2>3. \A s \in AllSchemes : /\ stop'[s] \in {"none", "begin"}
                              /\ stop'[s] # "none" => s \in Schemes
    BY <1>6 DEF BeginShutdown
  <2> QED
    BY <1>1, <2>1, <2>2, <2>3 DEF ServersInv, ServerInv, InShutdown
<1>7. ASSUME NEW s \in AllSchemes,
             BeginServe(s) \/ EndServe(s) \/ RequestBegins(s) \/ RequestEnds(s)
      PROVE  ServersInv'
  <2>1. UNCHANGED <<hs, stop>>
    BY <1>7 DEF BeginServe, EndServe, RequestBegins, RequestEnds, stopVars
  <2>2. \A r \in AllSchemes \ {s} : /\ listener'[r] = listener[r]
                                    /\ serving'[r] = serving[r]
                                    /\ conns'[r] = conns[r]
    BY <1>7 DEF BeginServe, EndServe, RequestBegins, RequestEnds, NetTypeOK
  <2>3. \A r \in AllSchemes \ {s} : ServerInv(r)'
    BY <2>1, <2>2, OtherServer
  <2>4. ServerInv(s)
    BY DEF ServersInv
  <2>5. ASSUME BeginServe(s) PROVE ServerInv(s)'
    BY <1>1, <1>2, <2>1, <2>4, <2>5 DEF BeginServe, ServerInv, InShutdown, NetTypeOK
  <2>6. ASSUME EndServe(s) PROVE ServerInv(s)'
    BY <1>1, <1>2, <2>1, <2>4, <2>6 DEF EndServe, ServerInv, InShutdown, NetTypeOK
  <2>7. ASSUME RequestBegins(s) PROVE ServerInv(s)'
    BY <1>1, <1>2, <2>1, <2>4, <2>7 DEF RequestBegins, ServerInv, InShutdown, NetTypeOK
  <2>8. ASSUME RequestEnds(s) PROVE ServerInv(s)'
    BY <1>1, <1>2, <2>1, <2>4, <2>8 DEF RequestEnds, ServerInv, InShutdown, NetTypeOK
  <2>9. ServerInv(s)'
    BY <1>7, <2>5, <2>6, <2>7, <2>8
  <2> QED
    BY <1>2, <2>1, <2>3, <2>9 DEF ServersInv
<1>8. ASSUME NEW s \in AllSchemes, CloseListener(s) \/ Drain(s) \/ Collect(s)
      PROVE  ServersInv'
  <2>1. UNCHANGED <<serving, conns>>
    BY <1>8 DEF CloseListener, Drain, Collect, netVars
  <2>2. \A r \in AllSchemes \ {s} : listener'[r] = listener[r] /\ stop'[r] = stop[r]
    BY <1>8 DEF CloseListener, Drain, Collect, NetTypeOK, StopTypeOK, netVars
  <2>3. hs'.success => hs.success
    BY <1>8 DEF CloseListener, Drain, Collect
  <2>4. \A r \in AllSchemes \ {s} : ServerInv(r)'
    BY <2>1, <2>2, <2>3, OtherServer
  <2>5. ServerInv(s) /\ stop[s] # "none" /\ s \in Schemes
    BY <1>8 DEF ServersInv, ServerInv, CloseListener, Drain, Collect
  <2>6. CASE CloseListener(s)
    <3>1. stop'[s] = "drain" /\ UNCHANGED hs
      BY <2>6 DEF CloseListener, StopTypeOK
    <3>2. serving[s] = "serving" => listener'[s] \in {"closed", "error"}
      BY <2>6 DEF CloseListener, NetTypeOK
    <3>3. listener'[s] = "error" => serving[s] = "serving"
      BY <2>5, <2>6 DEF CloseListener, ServerInv, InShutdown
    <3>4. ServerInv(s)'
      BY <1>1, <2>1, <2>5, <3>1, <3>2, <3>3 DEF ServerInv, InShutdown
    <3> QED
      BY <1>2, <2>4, <3>1, <3>4 DEF ServersInv
  <2>7. CASE Drain(s)
    <3>1. UNCHANGED <<hs, listener>> /\ stop[s] = "drain"
      BY <2>7 DEF Drain, netVars
    <3>2. stop'[s] \in {"ok", "failed"}
      BY <2>7 DEF Drain, StopTypeOK
    <3>3. stop'[s] = "ok" => conns[s] = 0 /\ listener[s] # "error"
      BY <2>7 DEF Drain, StopTypeOK
    <3>4. stop'[s] = "failed" => listener[s] = "error" \/ expired \/ hs.pc = "done"
      BY <2>7 DEF Drain, StopTypeOK
    <3>5. hs.pc = "done" => ~hs.success
      BY <2>5, <3>1 DEF CollectInv, Open
    <3>6. stop'[s] = "failed" => Explained
      BY <2>5, <3>4, <3>5 DEF ServersInv, Explained
    <3>7. ServerInv(s)'
      BY <1>1, <1>2, <2>1, <2>5, <3>1, <3>2, <3>3, <3>6 DEF ServerInv, InShutdown
    <3> QED
      BY <1>2, <2>4, <3>1, <3>7 DEF ServersInv
  <2>8. CASE Collect(s)
    <3>1. /\ stop'[s] = "done" /\ stop[s] \in {"ok", "failed"} /\ UNCHANGED listener
          /\ hs'.success = (stop[s] = "ok")
      BY <2>8 DEF Collect, StopTypeOK, netVars
    <3>2. ServerInv(s)'
      BY <1>1, <2>1, <2>5, <3>1 DEF ServerInv, InShutdown
    <3>3. ~hs'.success => Explained
      BY <2>5, <3>1 DEF ServerInv
    <3> QED
      BY <1>2, <2>4, <3>2, <3>3 DEF ServersInv
  <2> QED
    BY <1>8, <2>6, <2>7, <2>8
<1>9. CASE \/ SignalNotify \/ Wait \/ Return \/ Signal \/ HandleInterrupt \/ Grace
           \/ UNCHANGED vars
  BY <1>3, <1>9 DEF SignalNotify, Wait, Return, Signal, HandleInterrupt, Grace, vars,
                    stopVars, netVars
<1>10. CASE ListenError \/ TLSError \/ \E s \in AllSchemes : ServeError(s)
  BY <1>3, <1>10 DEF ListenError, TLSError, ServeError, Fatal, stopVars, netVars
<1> QED
  BY <1>4, <1>5, <1>6, <1>7, <1>8, <1>9, <1>10 DEF Next, Main, Server, Exited

-----------------------------------------------------------------------------
(***************************************************************************)
(* Theorems.                                                               *)
(***************************************************************************)

\* The invariant holds in every reachable state.
LEMMA SpecInv == Spec => []Inv
<1>1. Inv /\ [Next]_vars => Inv'
  BY TypeStep, PhaseStep, CollectStep, ServersStep DEF Inv
<1> QED
  BY InitInv, <1>1, PTL DEF Spec

\* Every variable of the server keeps its type; in particular the channel of
\* the shutdown is closed at most once, by whichever of the signal handler and
\* the deferred call of Run comes first (server.go 424-429).
THEOREM ServerTypeCorrect == Spec => []TypeOK
<1>1. Inv => TypeOK
  BY DEF Inv
<1> QED
  BY SpecInv, <1>1, PTL

\* The ServerShutdown hook runs only when no request is in flight and no
\* server can take another one (server.go 463-469).
THEOREM HookRunsAfterDrain == Spec => []HookAfterDrain
<1>1. Inv => HookAfterDrain
  <2> SUFFICES ASSUME Inv, "post" \in hooks, NEW s \in Schemes
               PROVE  /\ conns[s] = 0
                      /\ serving[s] = "serving" => listener[s] = "closed"
                      /\ serving[s] = "started" => InShutdown(s)
    BY DEF HookAfterDrain
  <2>1. s \in AllSchemes
    BY SchemesFinite DEF Inv
  <2>2. hs.success /\ stop[s] = "done"
    BY DEF Inv, CollectInv, Open
  <2> QED
    BY <2>1, <2>2 DEF Inv, ServersInv, ServerInv, InShutdown
<1> QED
  BY SpecInv, <1>1, PTL

\* The process does not end regularly before the hook has run, unless a server
\* failed to shut down (server.go 346, 432).
THEOREM HookRunsBeforeExit == Spec => []HookBeforeExit
<1>1. Inv => HookBeforeExit
  BY DEF Inv, PhaseInv, CollectInv, HookBeforeExit
<1> QED
  BY SpecInv, <1>1, PTL

\* A regular end cuts off a request only after the grace period or when a
\* listener could not be closed (server.go 440, 456).
THEOREM CutsAreExplained == Spec => []CutExplained
<1>1. Inv => CutExplained
  <2> SUFFICES ASSUME Inv, exit = "0", NEW s \in Schemes, conns[s] > 0
               PROVE  Explained
    BY DEF CutExplained, Explained
  <2>1. hs.pc = "done"
    BY DEF Inv, PhaseInv
  <2>2. CASE hs.success
    <3>1. stop[s] = "done" /\ s \in AllSchemes
      BY <2>1, <2>2, SchemesFinite DEF Inv, CollectInv, Open
    <3>2. conns[s] = 0
      BY <2>2, <3>1 DEF Inv, ServersInv, ServerInv
    <3> QED
      BY <3>2
  <2>3. CASE ~hs.success
    BY <2>3 DEF Inv, ServersInv
  <2> QED
    BY <2>2, <2>3
<1> QED
  BY SpecInv, <1>1, PTL
=============================================================================
