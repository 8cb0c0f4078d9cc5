------------------------------ MODULE GoServer ------------------------------
(***************************************************************************)
(* The life of the Go mediator's process: Run of pkg/restful and the       *)
(* server of pkg/restapi/server.go, from listening over the signal that    *)
(* stops it to its exit.                                                   *)
(*                                                                         *)
(* Goroutines: main (Run and Serve), the signal handler, one that serves   *)
(* for each scheme, handleShutdown, and one for each server that it shuts  *)
(* down.  They meet in the channels interrupt (one signal is buffered),    *)
(* shutdown (closed once) and shutdownChan (unbuffered), and in the wait   *)
(* group of Serve.  net, net/http and os/signal are external: a listener   *)
(* may fail, a request may take for ever, http.Server.Shutdown closes the  *)
(* listener and waits until no request is in flight or its context ends.   *)
(***************************************************************************)
EXTENDS Naturals, FiniteSets

CONSTANTS
  Configs,     \* values of EnabledListeners; restful.Run leaves it empty
  MaxSignals,  \* bound: SIGINT and SIGTERM sent to the process
  MaxConns     \* bound: requests of one server in flight

AllSchemes == {"unix", "http", "https"}

ASSUME ConfigsAssumption == Configs \subseteq SUBSET AllSchemes
ASSUME BoundsAssumption == MaxSignals \in Nat /\ MaxConns \in Nat

VARIABLES
  enabled,    \* s.EnabledListeners
  main,       \* main goroutine: what it does next, and for which schemes
  listener,   \* the listener of a scheme; error: closing it gave one
  serving,    \* the goroutine that serves a scheme
  conns,      \* requests in flight, per scheme
  interrupt,  \* signals buffered in s.interrupt
  handler,    \* the goroutine of handleInterrupt, with s.interrupted
  down,       \* s.shuttingDown, and how often s.shutdown was closed
  hs,         \* the goroutine of handleShutdown
  stop,       \* the goroutines that shut the servers down
  expired,    \* GracefulTimeout has passed since the context was made
  hooks,      \* hooks of the API that have run
  signals,    \* signals sent
  exit        \* how the process ended

netVars == <<listener, serving, conns>>
signalVars == <<interrupt, handler, signals>>
stopVars == <<hs, stop, expired, hooks>>
vars == <<enabled, main, down, exit, netVars, signalVars, stopVars>>

\* hasScheme: what is enabled, or http.
Schemes == IF enabled = {} THEN {"http"} ELSE enabled

\* NewServer: channels are open and nothing runs.
Init ==
  /\ enabled \in Configs
  /\ main = [pc |-> "listen", todo |-> Schemes]
  /\ listener = [s \in AllSchemes |-> "none"]
  /\ serving = [s \in AllSchemes |-> "none"]
  /\ conns = [s \in AllSchemes |-> 0]
  /\ interrupt = 0
  /\ handler = [runs |-> FALSE, interrupted |-> FALSE]
  /\ down = [flag |-> FALSE, closes |-> 0]
  /\ hs = [pc |-> "none", left |-> 0, success |-> TRUE]
  /\ stop = [s \in AllSchemes |-> "none"]
  /\ expired = FALSE
  /\ hooks = {}
  /\ signals = 0
  /\ exit = "no"

-----------------------------------------------------------------------------
(***************************************************************************)
(* The main goroutine.                                                     *)
(***************************************************************************)
MainAt(pc) == exit = "no" /\ main.pc = pc

\* The schemes are gone through in the order unix, http, https.
First(S) == IF "unix" \in S THEN "unix" ELSE IF "http" \in S THEN "http" ELSE "https"

\* Main has done its part for the first scheme; after the last comes pc.
Advance(pc) ==
  LET rest == main.todo \ {First(main.todo)}
  IN  main' = IF rest = {} THEN [pc |-> pc, todo |-> Schemes]
                           ELSE [main EXCEPT !.todo = rest]

\* log.Fatal of Run and Fatalf of the server: exit code 1, no deferred calls.
Fatal ==
  exit' = "1" /\ UNCHANGED <<enabled, main, down, netVars, signalVars, stopVars>>

\* Listen: one listener after the other; an error ends the process.
Listen ==
  /\ MainAt("listen")
  /\ listener' = [listener EXCEPT ![First(main.todo)] = "open"]
  /\ Advance("notify")
  /\ UNCHANGED <<enabled, serving, conns, down, exit, signalVars, stopVars>>

ListenError == MainAt("listen") /\ Fatal

\* Serve: from here on signals go to the channel.
SignalNotify ==
  /\ MainAt("notify")
  /\ main' = [main EXCEPT !.pc = "start"]
  /\ handler' = [handler EXCEPT !.runs = TRUE]
  /\ UNCHANGED <<enabled, interrupt, signals, down, exit, netVars, stopVars>>

\* Serve: wg.Add(1) and a goroutine for each server.
StartServer ==
  /\ MainAt("start")
  /\ serving' = [serving EXCEPT ![First(main.todo)] = "started"]
  /\ Advance("shutdown")
  /\ UNCHANGED <<enabled, listener, conns, down, exit, signalVars, stopVars>>

\* Serve: no certificate, or one that cannot be read.
TLSError == MainAt("start") /\ First(main.todo) = "https" /\ Fatal

\* Serve: wg.Add(1) and the goroutine of handleShutdown.
StartShutdown ==
  /\ MainAt("shutdown")
  /\ hs' = [hs EXCEPT !.pc = "wait"]
  /\ main' = [main EXCEPT !.pc = "wait"]
  /\ UNCHANGED <<enabled, down, exit, stop, expired, hooks, netVars, signalVars>>

\* Bug: handleShutdown is not in the wait group.
Wait_ServersOnly ==
  /\ MainAt("wait")
  /\ \A s \in Schemes : serving[s] = "stopped"
  /\ main' = [main EXCEPT !.pc = "return"]
  /\ UNCHANGED <<enabled, down, exit, netVars, signalVars, stopVars>>

\* wg.Wait
Wait ==
  /\ MainAt("wait")
  /\ \A s \in Schemes : serving[s] = "stopped"
  /\ hs.pc = "done"
  /\ main' = [main EXCEPT !.pc = "return"]
  /\ UNCHANGED <<enabled, down, exit, netVars, signalVars, stopVars>>

\* Bug: without the flag, close panics the second time.
Shutdown_Always == down' = [flag |-> TRUE, closes |-> down.closes + 1]

\* Bug: the flag is set and the channel is not closed.
Shutdown_NoClose == down' = [down EXCEPT !.flag = TRUE]

\* Shutdown: compare and swap of the flag, then close.
Shutdown ==
  down' = IF down.flag THEN down ELSE [flag |-> TRUE, closes |-> down.closes + 1]

\* Run: the deferred Shutdown, then the end of main.
Return ==
  /\ MainAt("return")
  /\ Shutdown
  /\ exit' = "0"
  /\ UNCHANGED <<enabled, main, netVars, signalVars, stopVars>>

Main ==
  \/ Listen \/ ListenError \/ SignalNotify \/ StartServer \/ TLSError
  \/ StartShutdown \/ Wait \/ Return

-----------------------------------------------------------------------------
(***************************************************************************)
(* Signals.                                                                *)
(***************************************************************************)

\* os/signal: a signal that finds the channel full is dropped; before
\* signalNotify it kills the process.
Signal ==
  /\ exit = "no" /\ signals < MaxSignals
  /\ signals' = signals + 1
  /\ IF handler.runs THEN interrupt' = 1 /\ UNCHANGED exit
                     ELSE exit' = "killed" /\ UNCHANGED interrupt
  /\ UNCHANGED <<enabled, main, handler, down, netVars, stopVars>>

\* handleInterrupt: only the first signal calls Shutdown.
HandleInterrupt ==
  /\ exit = "no" /\ handler.runs /\ interrupt = 1
  /\ interrupt' = 0
  /\ IF handler.interrupted
     THEN UNCHANGED <<handler, down>>
     ELSE handler' = [handler EXCEPT !.interrupted = TRUE] /\ Shutdown
  /\ UNCHANGED <<enabled, main, signals, exit, netVars, stopVars>>

-----------------------------------------------------------------------------
(***************************************************************************)
(* The servers.  http.Server.Shutdown closes only a listener that is being *)
(* served: if it comes first, Serve closes the listener and returns.       *)
(***************************************************************************)
InShutdown(s) == stop[s] \notin {"none", "begin"}

BeginServe(s) ==
  /\ exit = "no" /\ serving[s] = "started"
  /\ IF InShutdown(s)
     THEN /\ serving' = [serving EXCEPT ![s] = "stopped"]
          /\ listener' = [listener EXCEPT ![s] = "closed"]
     ELSE serving' = [serving EXCEPT ![s] = "serving"] /\ UNCHANGED listener
  /\ UNCHANGED <<enabled, main, conns, down, exit, signalVars, stopVars>>

\* An error of the listener that no Shutdown explains: Fatalf.
ServeError(s) ==
  exit = "no" /\ serving[s] = "serving" /\ ~InShutdown(s) /\ Fatal

\* ErrServerClosed, and wg.Done.
EndServe(s) ==
  /\ exit = "no" /\ serving[s] = "serving" /\ InShutdown(s)
  /\ serving' = [serving EXCEPT ![s] = "stopped"]
  /\ UNCHANGED <<enabled, main, listener, conns, down, exit, signalVars, stopVars>>

RequestBegins(s) ==
  /\ exit = "no" /\ serving[s] = "serving" /\ listener[s] = "open"
  /\ conns[s] < MaxConns
  /\ conns' = [conns EXCEPT ![s] = @ + 1]
  /\ UNCHANGED <<enabled, main, listener, serving, down, exit, signalVars, stopVars>>

RequestEnds(s) ==
  /\ exit = "no" /\ conns[s] > 0
  /\ conns' = [conns EXCEPT ![s] = @ - 1]
  /\ UNCHANGED <<enabled, main, listener, serving, down, exit, signalVars, stopVars>>

-----------------------------------------------------------------------------
(***************************************************************************)
(* handleShutdown.                                                         *)
(***************************************************************************)

\* The channel is closed: the context starts, the pre-shutdown hook runs and
\* every server gets a goroutine.
BeginShutdown ==
  /\ exit = "no" /\ hs.pc = "wait" /\ down.closes > 0
  /\ hooks' = hooks \cup {"pre"}
  /\ stop' = [s \in AllSchemes |-> IF s \in Schemes THEN "begin" ELSE "none"]
  /\ hs' = [hs EXCEPT !.pc = "collect", !.left = Cardinality(Schemes)]
  /\ UNCHANGED <<enabled, main, down, exit, expired, netVars, signalVars>>

\* http.Server.Shutdown closes the listener, which may give an error ...
CloseListener(s) ==
  /\ exit = "no" /\ stop[s] = "begin"
  /\ stop' = [stop EXCEPT ![s] = "drain"]
  /\ IF serving[s] = "serving"
     THEN \E r \in {"closed", "error"} : listener' = [listener EXCEPT ![s] = r]
     ELSE UNCHANGED listener
  /\ UNCHANGED <<enabled, main, serving, conns, down, exit, hs, expired, hooks,
                 signalVars>>

\* The grace period of the context is over.
Grace ==
  /\ exit = "no" /\ hs.pc \in {"collect", "done"} /\ ~expired
  /\ expired' = TRUE
  /\ UNCHANGED <<enabled, main, down, exit, hs, stop, hooks, netVars, signalVars>>

\* ... and waits until nothing is in flight, or the context ended: by the
\* grace period, or cancelled when handleShutdown returned.
Drain(s) ==
  /\ exit = "no" /\ stop[s] = "drain"
  /\ \/ /\ conns[s] = 0
        /\ stop' = [stop EXCEPT ![s] = IF listener[s] = "error" THEN "failed" ELSE "ok"]
     \/ /\ conns[s] > 0 /\ (expired \/ hs.pc = "done")
        /\ stop' = [stop EXCEPT ![s] = "failed"]
  /\ UNCHANGED <<enabled, main, down, exit, hs, expired, hooks, netVars, signalVars>>

\* Bug: what a server reports is not looked at.
Collect_Any(s) ==
  /\ exit = "no" /\ hs.pc = "collect" /\ hs.left > 0 /\ hs.success
  /\ stop[s] \in {"ok", "failed"}
  /\ hs' = [hs EXCEPT !.left = @ - 1]
  /\ stop' = [stop EXCEPT ![s] = "done"]
  /\ UNCHANGED <<enabled, main, down, exit, expired, hooks, netVars, signalVars>>

\* success && <-shutdownChan: after a failure nothing more is received, and
\* the goroutines that are left stay blocked in their send.
Collect(s) ==
  /\ exit = "no" /\ hs.pc = "collect" /\ hs.left > 0 /\ hs.success
  /\ stop[s] \in {"ok", "failed"}
  /\ hs' = [hs EXCEPT !.left = @ - 1, !.success = (stop[s] = "ok")]
  /\ stop' = [stop EXCEPT ![s] = "done"]
  /\ UNCHANGED <<enabled, main, down, exit, expired, hooks, netVars, signalVars>>

\* Bug: the last server is not waited for.
EndShutdown_Early ==
  /\ exit = "no" /\ hs.pc = "collect" /\ (hs.left <= 1 \/ ~hs.success)
  /\ hooks' = IF hs.success THEN hooks \cup {"post"} ELSE hooks
  /\ hs' = [hs EXCEPT !.pc = "done"]
  /\ UNCHANGED <<enabled, main, down, exit, stop, expired, netVars, signalVars>>

\* The hook if every server shut down; then cancel and wg.Done, deferred.
EndShutdown ==
  /\ exit = "no" /\ hs.pc = "collect" /\ (hs.left = 0 \/ ~hs.success)
  /\ hooks' = IF hs.success THEN hooks \cup {"post"} ELSE hooks
  /\ hs' = [hs EXCEPT !.pc = "done"]
  /\ UNCHANGED <<enabled, main, down, exit, stop, expired, netVars, signalVars>>

-----------------------------------------------------------------------------
Server(s) == BeginServe(s) \/ EndServe(s) \/ CloseListener(s) \/ Drain(s)

Exited == exit # "no" /\ UNCHANGED vars

Next ==
  \/ Main \/ Signal \/ HandleInterrupt \/ BeginShutdown \/ Grace
  \/ EndShutdown \/ Exited
  \/ \E s \in AllSchemes : \/ Server(s) \/ Collect(s) \/ ServeError(s)
                           \/ RequestBegins(s) \/ RequestEnds(s)

\* The scheduler runs every goroutine and the timer fires; requests need not
\* end.
Fairness ==
  /\ WF_vars(Main) /\ WF_vars(HandleInterrupt) /\ WF_vars(Grace)
  /\ WF_vars(BeginShutdown) /\ WF_vars(EndShutdown)
  /\ WF_vars(\E s \in AllSchemes : Collect(s))
  /\ \A s \in AllSchemes : WF_vars(Server(s))

Spec == Init /\ [][Next]_vars /\ Fairness

-----------------------------------------------------------------------------
(***************************************************************************)
(* Properties.                                                             *)
(***************************************************************************)

MainTypeOK ==
  /\ enabled \in Configs
  /\ main \in [pc : {"listen", "notify", "start", "shutdown", "wait", "return"},
               todo : SUBSET AllSchemes]
  /\ exit \in {"no", "0", "1", "killed"}
NetTypeOK ==
  /\ listener \in [AllSchemes -> {"none", "open", "closed", "error"}]
  /\ serving \in [AllSchemes -> {"none", "started", "serving", "stopped"}]
  /\ conns \in [AllSchemes -> 0..MaxConns]
SignalTypeOK ==
  /\ interrupt \in {0, 1}
  /\ handler \in [runs : BOOLEAN, interrupted : BOOLEAN]
  /\ signals \in 0..MaxSignals
  /\ down \in [flag : BOOLEAN, closes : {0, 1}]
StopTypeOK ==
  /\ hs \in [pc : {"none", "wait", "collect", "done"}, left : 0..3,
             success : BOOLEAN]
  /\ stop \in [AllSchemes -> {"none", "begin", "drain", "ok", "failed", "done"}]
  /\ expired \in BOOLEAN
  /\ hooks \subseteq {"pre", "post"}

\* Every variable has its type; in particular s.shutdown is closed at most
\* once, although the signal handler and the deferred call of Run both close
\* it (server.go 424-429).
TypeOK == MainTypeOK /\ NetTypeOK /\ SignalTypeOK /\ StopTypeOK

\* "Wait until all listeners have successfully shut down before calling
\* ServerShutdown" (server.go 463): once the hook has run no request is in
\* flight, and none will be: what is served has its listener closed, and what
\* is not yet served never will be.
HookAfterDrain ==
  "post" \in hooks =>
    \A s \in Schemes :
      /\ conns[s] = 0
      /\ serving[s] = "serving" => listener[s] = "closed"
      /\ serving[s] = "started" => InShutdown(s)

\* "wg.Done must occur last, after s.api.ServerShutdown()" (server.go 432):
\* the process does not end regularly before the hook has run, unless a
\* server failed to shut down.
HookBeforeExit == exit = "0" => "post" \in hooks \/ ~hs.success

\* A regular end cuts off requests in flight only if the grace period was
\* over or closing a listener failed (server.go 440, 456).
CutExplained ==
  exit = "0" /\ (\E s \in Schemes : conns[s] > 0) =>
    expired \/ \E s \in Schemes : listener[s] = "error"

\* A signal ends the process, whatever requests do (server.go 346, 513-527).
SignalStops == signals > 0 ~> exit # "no"
=============================================================================
