--------------------------- MODULE LifecycleProofs ---------------------------
(***************************************************************************)
(* What a shutdown does to requests and to their spans, for any number of  *)
(* requests, any timeout, with and without tracing.                        *)
(***************************************************************************)
EXTENDS Lifecycle, TLAPS

(* Who was answered before the shutdown is not going to be answered again, *)
(* and its span met a working processor.                                   *)
EarlyTaken ==
  \A r \in early :
    /\ request[r] \notin {"none", "running"}
    /\ EnableTracing => span[r] \in {"queued", "exported", "lost"}

IInv == TypeOK /\ EarlyTaken /\ CutAtDeadline /\ EarlySpansSettled

(* The process starts in its invariant.                                    *)
LEMMA InitIInv == Init => IInv
<1> SUFFICES ASSUME Init PROVE IInv
  OBVIOUS
<1>1. left \in 0 .. ShutdownTimeout
  BY LifecycleAssumption DEF Init
<1>2. TypeOK
  BY <1>1 DEF Init, TypeOK
<1> QED BY <1>2 DEF Init, IInv, EarlyTaken, CutAtDeadline, EarlySpansSettled

(* A step of main that leaves requests, spans and the listener alone.      *)
LEMMA MainStep ==
  ASSUME IInv, Boot \/ Notify \/ Shutdown \/ Flush \/ Drain
  PROVE  IInv'
<1> USE DEF IInv, TypeOK, Go
<1>1. UNCHANGED <<listener, left, request, span, early>>
  BY DEF Boot, Notify, Shutdown, Flush, Drain
<1>2. TypeOK' /\ EarlyTaken'
  BY DEF EarlyTaken, Boot, Notify, Shutdown, Flush, Drain
<1>3. CutAtDeadline'
  BY <1>1 DEF CutAtDeadline, Running, Boot, Notify, Shutdown, Flush, Drain
<1>4. EarlySpansSettled'
  <2>1. CASE Flush
    BY <2>1 DEF Flush, EarlySpansSettled, EarlyTaken, Queued
  <2>2. CASE Boot \/ Notify \/ Shutdown \/ Drain
    BY <2>2 DEF Boot, Notify, Shutdown, Drain, EarlySpansSettled
  <2> QED BY <2>1, <2>2
<1> QED BY <1>2, <1>3, <1>4

(* The end of the process leaves nothing running.                          *)
LEMMA EndStep ==
  ASSUME IInv, NEW how \in {"fatal", "killed", "exited"}, End(how)
  PROVE  IInv'
<1> USE DEF IInv, TypeOK, End
<1>1. TypeOK'
  <2>1. request' \in [Requests -> {"none", "running", "session", "answered", "cut"}]
    OBVIOUS
  <2>2. listener' = "none" => \A r \in Requests : request'[r] = "none"
    OBVIOUS
  <2> QED BY <2>1, <2>2
<1>2. Running' = {}
  BY DEF Running
<1>3. EarlyTaken'
  BY DEF EarlyTaken
<1> QED BY <1>1, <1>2, <1>3 DEF CutAtDeadline, EarlySpansSettled

(* The listener: it is open only until Shutdown closes it.                 *)
LEMMA ListenerStep ==
  ASSUME IInv, Listen \/ CloseListener
  PROVE  IInv'
BY DEF IInv, TypeOK, Go, Listen, CloseListener, EarlyTaken, CutAtDeadline,
       EarlySpansSettled, Running

(* Requests and spans: a request that runs was not answered before.        *)
LEMMA RequestStep ==
  ASSUME IInv, NEW r \in Requests,
         \/ Accept(r) \/ Export(r) \/ ExportFails(r)
         \/ \E as \in {"answered", "session"} : Finish(r, as)
  PROVE  IInv'
<1> USE DEF IInv, TypeOK
<1>1. CASE Accept(r)
  <2>1. TypeOK' /\ EarlyTaken'
    BY <1>1 DEF Accept, EarlyTaken
  <2>2. CutAtDeadline' /\ EarlySpansSettled'
    BY <1>1 DEF Accept, CutAtDeadline, EarlySpansSettled
  <2> QED BY <2>1, <2>2
<1>2. CASE Export(r) \/ ExportFails(r)
  <2>1. TypeOK' /\ EarlyTaken'
    BY <1>2 DEF Export, ExportFails, EarlyTaken
  <2>2. CutAtDeadline' /\ EarlySpansSettled'
    BY <1>2 DEF Export, ExportFails, CutAtDeadline, EarlySpansSettled, Running
  <2> QED BY <2>1, <2>2
<1>3. ASSUME NEW as \in {"answered", "session"}, Finish(r, as)
      PROVE  IInv'
  <2>1. r \notin early /\ early' \subseteq early \cup {r}
    BY <1>3 DEF Finish, EarlyTaken
  <2>2. /\ request' = [request EXCEPT ![r] = as]
        /\ \A q \in Requests : q # r => span'[q] = span[q]
        /\ span' \in [Requests -> {"none", "queued", "exported", "lost", "dropped"}]
    BY <1>3 DEF Finish, Ends
  <2>3. r \in early' => /\ main \in {"starting", "waiting"}
                        /\ EnableTracing => span'[r] \in {"queued", "lost"}
    BY <1>3, <2>1 DEF Finish, Ends
  <2>4. TypeOK'
    <3>1. listener # "none"
      BY <1>3 DEF Finish
    <3>2. early' \subseteq Requests
      BY <2>1
    <3>3. request' \in [Requests -> {"none", "running", "session", "answered", "cut"}]
      BY <2>2
    <3>4. UNCHANGED <<main, listener, signaled, left, ended>>
      BY <1>3 DEF Finish
    <3> QED BY <2>2, <3>1, <3>2, <3>3, <3>4
  <2>5. EarlyTaken'
    BY <2>1, <2>2, <2>3 DEF EarlyTaken
  <2>6. CutAtDeadline'
    BY <1>3, <2>2 DEF Finish, CutAtDeadline, Running
  <2>7. EarlySpansSettled'
    BY <1>3, <2>1, <2>2, <2>3 DEF Finish, EarlySpansSettled
  <2> QED BY <2>4, <2>5, <2>6, <2>7
<1> QED BY <1>1, <1>2, <1>3

(* Time runs while main is in Shutdown, a signal before.                   *)
LEMMA ClockStep ==
  ASSUME IInv, Tick \/ Signal
  PROVE  IInv'
<1>1. left \in Nat /\ (left > 0 => left - 1 \in 0 .. ShutdownTimeout)
  BY LifecycleAssumption DEF IInv, TypeOK
<1>2. CASE Tick
  <2>1. TypeOK' /\ EarlyTaken'
    BY <1>1, <1>2 DEF IInv, TypeOK, Tick, EarlyTaken
  <2>2. CutAtDeadline'
    BY <1>2 DEF Tick, CutAtDeadline
  <2>3. left > 0 /\ UNCHANGED <<main, early, span>>
    BY <1>2 DEF Tick
  <2>4. left # 0
    BY <1>1, <2>3
  <2>5. EarlySpansSettled'
    BY <2>3, <2>4 DEF IInv, EarlySpansSettled
  <2> QED BY <2>1, <2>2, <2>5 DEF IInv
<1>3. CASE Signal
  BY <1>3 DEF IInv, TypeOK, Signal, EarlyTaken, CutAtDeadline, EarlySpansSettled, Running
<1> QED BY <1>2, <1>3

(* Every step stays in it.                                                 *)
LEMMA NextIInv == IInv /\ [Next]_vars => IInv'
<1> SUFFICES ASSUME IInv, [Next]_vars PROVE IInv'
  OBVIOUS
<1>1. CASE Main
  BY <1>1, MainStep, ListenerStep, EndStep DEF Main, Exit
<1>2. CASE BootFails \/ ListenFails \/ SignalKills
  BY <1>2, EndStep DEF BootFails, ListenFails, SignalKills
<1>3. CASE Listen
  BY <1>3, ListenerStep
<1>4. CASE Signal \/ Tick
  BY <1>4, ClockStep
<1>5. CASE \/ \E r \in Requests : Accept(r) \/ Export(r) \/ ExportFails(r)
           \/ \E r \in Requests, as \in {"answered", "session"} : Finish(r, as)
  BY <1>5, RequestStep
<1>6. CASE UNCHANGED vars
  BY <1>6 DEF vars, IInv, TypeOK, EarlyTaken, CutAtDeadline, EarlySpansSettled, Running
<1> QED BY <1>1, <1>2, <1>3, <1>4, <1>5, <1>6 DEF Next

-----------------------------------------------------------------------------

(* The inductive invariant holds throughout.                               *)
THEOREM LifecycleInvariant == Spec => []IInv
BY InitIInv, NextIInv, PTL DEF Spec

(* There is no request without a listener, and the rest of the types.      *)
THEOREM LifecycleTypeOK == Spec => []TypeOK
BY LifecycleInvariant, PTL DEF IInv

(* A shutdown that closes the listener cuts a request off only at its      *)
(* deadline.                                                               *)
THEOREM LifecycleCutAtDeadline == Spec => []CutAtDeadline
BY LifecycleInvariant, PTL DEF IInv

(* The spans of whoever was answered before the shutdown are exported, or  *)
(* lost in the attempt, before the server is closed, unless the deadline   *)
(* has passed.                                                             *)
THEOREM LifecycleEarlySpansSettled == Spec => []EarlySpansSettled
BY LifecycleInvariant, PTL DEF IInv
=============================================================================
