------------------------------ MODULE Lifecycle ------------------------------
(***************************************************************************)
(* From main to the end of the process: cmd/gateway/main.go,               *)
(* internal/server/server.go and pkg/tracing/tracing.go.                   *)
(*                                                                         *)
(* Actors: main, the goroutine that runs Start, the requests, the span     *)
(* exporter, the operating system with its signals.  One context bounds    *)
(* the whole Shutdown; the tracer is closed first and may use it up.       *)
(* A WebSocket session is a connection that fasthttp has given away and    *)
(* does not count among its open ones.                                     *)
(***************************************************************************)
EXTENDS Naturals, FiniteSets

CONSTANTS
  Requests,
  EnableTracing,     \* cfg.Tracing.Enable
  QueueSize,         \* spans that the batch processor keeps for export
  ShutdownTimeout    \* cfg.Server.ShutdownTimeout, in clock units

ASSUME LifecycleAssumption ==
  /\ EnableTracing \in BOOLEAN
  /\ QueueSize \in Nat \ {0}
  /\ ShutdownTimeout \in Nat

VARIABLES
  main,       \* where main is
  listener,   \* of the Start goroutine
  signaled,   \* SIGINT or SIGTERM is in the quit channel or was taken from it
  left,       \* what is left of Shutdown's context
  ended,      \* how the process ended, if it has
  request,    \* where each request is
  span,       \* and its span
  early       \* history: answered before Shutdown began

vars == <<main, listener, signaled, left, ended, request, span, early>>

Running == {r \in Requests : request[r] = "running"}
Queued  == {r \in Requests : span[r] = "queued"}

Up == ended = "no"

-----------------------------------------------------------------------------

Init ==
  /\ main = "boot"
  /\ listener = "none"
  /\ signaled = FALSE
  /\ left = ShutdownTimeout
  /\ ended = "no"
  /\ request = [r \in Requests |-> "none"]
  /\ span = [r \in Requests |-> "none"]
  /\ early = {}

(* A step of main.                                                         *)
Go(from, to) == Up /\ main = from /\ main' = to

(* The process is gone and with it everything that was going on.           *)
End(how) ==
  /\ ended' = how
  /\ request' = [r \in Requests |->
       IF request[r] \in {"running", "session"} THEN "cut" ELSE request[r]]
  /\ UNCHANGED <<main, listener, signaled, left, span, early>>

(* Load and New; the tracer is part of New.  Start gets its goroutine.     *)
Boot ==
  /\ Go("boot", "starting")
  /\ UNCHANGED <<listener, signaled, left, ended, request, span, early>>

(* Either fails, and logger.Fatal or a panic ends the process.             *)
BootFails == Up /\ main = "boot" /\ End("fatal")

(* Start: the port is bound, or it is not and logger.Fatal is called.      *)
Listen ==
  /\ Up /\ main # "boot" /\ listener = "none"
  /\ listener' = "open"
  /\ UNCHANGED <<main, signaled, left, ended, request, span, early>>

ListenFails == Up /\ main # "boot" /\ listener = "none" /\ End("fatal")

Notify ==
  /\ Go("starting", "waiting")
  /\ UNCHANGED <<listener, signaled, left, ended, request, span, early>>

(* Before signal.Notify the signal has its default effect.                 *)
SignalKills == Up /\ main \in {"boot", "starting"} /\ End("killed")

Signal ==
  /\ Up /\ main = "waiting" /\ ~signaled
  /\ signaled' = TRUE
  /\ UNCHANGED <<main, listener, left, ended, request, span, early>>

(* Shutdown makes its context and calls the tracer's cleanup, from when on *)
(* no span is taken any more.                                              *)
Shutdown ==
  /\ signaled
  /\ Go("waiting", IF EnableTracing THEN "flushing" ELSE "closing")
  /\ UNCHANGED <<listener, signaled, left, ended, request, span, early>>

(* Bug variants: the cleanup does not flush, and it has no context.        *)
FlushNothing ==
  /\ Go("flushing", "closing")
  /\ UNCHANGED <<listener, signaled, left, ended, request, span, early>>

FlushWithoutContext ==
  /\ Go("flushing", "closing")
  /\ Queued = {}
  /\ UNCHANGED <<listener, signaled, left, ended, request, span, early>>

(* It returns when everything has been exported or the context is done.    *)
Flush ==
  /\ Go("flushing", "closing")
  /\ Queued = {} \/ left = 0
  /\ UNCHANGED <<listener, signaled, left, ended, request, span, early>>

(* ShutdownWithContext returns at once when there is no listener yet, and  *)
(* otherwise closes it.                                                    *)
CloseListener ==
  /\ Go("closing", IF listener = "none" THEN "exiting" ELSE "draining")
  /\ listener' = IF listener = "none" THEN "none" ELSE "closed"
  /\ UNCHANGED <<signaled, left, ended, request, span, early>>

(* Bug variant: app.Shutdown in place of waiting.                          *)
DrainNothing ==
  /\ Go("draining", "exiting")
  /\ UNCHANGED <<listener, signaled, left, ended, request, span, early>>

(* It waits for the open connections or for the context.                   *)
Drain ==
  /\ Go("draining", "exiting")
  /\ Running = {} \/ left = 0
  /\ UNCHANGED <<listener, signaled, left, ended, request, span, early>>

(* main returns; an error of Shutdown was logged.                          *)
Exit == Up /\ main = "exiting" /\ End("exited")

(* Bug variant: requests without a listener.                               *)
AcceptAnyTime(r) ==
  /\ Up
  /\ request[r] = "none"
  /\ request' = [request EXCEPT ![r] = "running"]
  /\ UNCHANGED <<main, listener, signaled, left, ended, span, early>>

(* The listener takes connections until it is closed, also while the       *)
(* tracer is being flushed.                                                *)
Accept(r) ==
  /\ Up /\ listener = "open"
  /\ request[r] = "none"
  /\ request' = [request EXCEPT ![r] = "running"]
  /\ UNCHANGED <<main, listener, signaled, left, ended, span, early>>

(* What becomes of a span that ends now: the processor takes it unless it  *)
(* has been shut down, and loses it when its queue is full.                *)
Ends ==
  CASE ~EnableTracing -> {"none"}
    [] EnableTracing /\ main \notin {"starting", "waiting"} -> {"dropped"}
    [] OTHER -> {"queued"} \cup {as \in {"lost"} : Cardinality(Queued) >= QueueSize}

(* External: the answer is sent and the span ends.  Of a WebSocket this is *)
(* the end of the handshake.                                               *)
Finish(r, as) ==
  /\ Up /\ request[r] = "running"
  /\ request' = [request EXCEPT ![r] = as]
  /\ \E end \in Ends : span' = [span EXCEPT ![r] = end]
  /\ early' = IF main \in {"starting", "waiting"} THEN early \cup {r} ELSE early
  /\ UNCHANGED <<main, listener, signaled, left, ended>>

(* External: the batch processor's export, the last ones from inside its   *)
(* Shutdown.  It never tries a batch again that it could not export.       *)
Export(r) ==
  /\ Up
  /\ span[r] = "queued"
  /\ span' = [span EXCEPT ![r] = "exported"]
  /\ UNCHANGED <<main, listener, signaled, left, ended, request, early>>

ExportFails(r) ==
  /\ Up
  /\ span[r] = "queued"
  /\ span' = [span EXCEPT ![r] = "lost"]
  /\ UNCHANGED <<main, listener, signaled, left, ended, request, early>>

(* Time matters as long as Shutdown's context runs.                        *)
Tick ==
  /\ Up /\ main \in {"flushing", "closing", "draining"}
  /\ left > 0
  /\ left' = left - 1
  /\ UNCHANGED <<main, listener, signaled, ended, request, span, early>>

Main == Boot \/ Notify \/ Shutdown \/ Flush \/ CloseListener \/ Drain \/ Exit

Next ==
  \/ Main \/ BootFails
  \/ Listen \/ ListenFails
  \/ SignalKills \/ Signal
  \/ \E r \in Requests : Accept(r) \/ Export(r) \/ ExportFails(r)
  \/ \E r \in Requests, as \in {"answered", "session"} : Finish(r, as)
  \/ Tick

Spec == Init /\ [][Next]_vars

(* main goes on when it can and time passes.  Requests need not end, and   *)
(* an export need neither succeed nor fail.                                *)
FairSpec == Spec /\ WF_vars(Main) /\ WF_vars(Tick)

-----------------------------------------------------------------------------

(* Where things can be; there is no request without a listener.            *)
TypeOK ==
  /\ main \in {"boot", "starting", "waiting", "flushing", "closing", "draining", "exiting"}
  /\ listener \in {"none", "open", "closed"}
  /\ listener = "none" => \A r \in Requests : request[r] = "none"
  /\ signaled \in BOOLEAN
  /\ left \in 0 .. ShutdownTimeout
  /\ ended \in {"no", "fatal", "killed", "exited"}
  /\ request \in [Requests -> {"none", "running", "session", "answered", "cut"}]
  /\ span \in [Requests -> {"none", "queued", "exported", "lost", "dropped"}]
  /\ early \subseteq Requests

(* A shutdown that closes the listener cuts a request off only when its   *)
(* whole timeout has passed: the tracer, which spends the same context,    *)
(* never shortens it.  Sessions are not waited for, and a signal that      *)
(* comes before the port is bound finds no listener to close: main exits   *)
(* at once, whatever Start accepts meanwhile.                              *)
CutAtDeadline ==
  main = "exiting" /\ listener = "closed" /\ Running # {} => left = 0

(* Of the requests answered before the shutdown, none has its span still   *)
(* waiting when the server is closed: it is exported, or lost to a failed  *)
(* export or a full queue, unless the flush takes the whole timeout.       *)
(* Requests that are answered later are not traced: "Close tracer first".  *)
EarlySpansSettled ==
  EnableTracing /\ main \in {"closing", "draining", "exiting"} =>
    \A r \in early : span[r] \in {"exported", "lost"} \/ left = 0

(* After a signal the process ends, whatever the requests and the          *)
(* collector do.                                                           *)
SignalEnds == signaled ~> ended # "no"
=============================================================================
