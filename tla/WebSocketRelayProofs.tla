------------------------ MODULE WebSocketRelayProofs ------------------------
(***************************************************************************)
(* Safety of one proxied WebSocket connection, for any number of messages: *)
(* what a peer receives is what the other sent, in order and without a     *)
(* gap, and the session ends only for a reason.                            *)
(*                                                                         *)
(* A direction is a pipe: the messages received, the one in the gateway's  *)
(* hands and those still queued are 1 .. sent in this order, as long as    *)
(* the direction flows.  When a message has been dropped the direction no  *)
(* longer flows, and then nothing more may be delivered.                   *)
(***************************************************************************)
EXTENDS WebSocketRelay, TLAPS

Hands(h) == IF h = None THEN 0 ELSE 1

(* The pipe of a direction: sent, queue, held, got.                        *)
Ordered(s, q, h, g) ==
  /\ s \in 0 .. MaxMsgs
  /\ q \in Seq(Nat)
  /\ g \in Seq(Nat)
  /\ h \in 1 .. MaxMsgs \cup {None}
  /\ \A i \in 1 .. Len(q) : q[i] = s - Len(q) + i
  /\ \A i \in 1 .. Len(g) : g[i] = i
  /\ h # None => h = s - Len(q)
  /\ Len(g) + Hands(h) + Len(q) <= s

Full(s, q, h, g) == Len(g) + Hands(h) + Len(q) = s

Before == {"dial", "readHello", "writeHello", "readReply", "writeReply"}

(* Nothing of this direction has been dropped, and more may be delivered.  *)
Flowing(d) ==
  /\ ~gone[Dest[d]]
  /\ \/ main \in Before
     \/ /\ fwd[d] \in {"check", "lookup", "read", "write"}
        /\ d = "t2c" => ~released

(* Where a message is in the gateway's hands.                              *)
Holding(d) ==
  \/ fwd[d] = "write"
  \/ d = "t2c" /\ main = "writeHello"
  \/ d = "c2t" /\ main = "writeReply"

Places ==
  /\ main \in {"dial", "readHello", "writeHello", "readReply", "writeReply",
               "relay", "closing", "returned"}
  /\ done \in BOOLEAN /\ targetOpen \in BOOLEAN
  /\ deadline \in {"none", "armed", "passed"}
  /\ fwd \in [Dirs -> {"off", "check", "lookup", "read", "write", "report", "stopped"}]
  /\ errs \in 0 .. 2
  /\ released \in BOOLEAN /\ reused \in BOOLEAN /\ panicked \in BOOLEAN
  /\ gone \in [Peers -> BOOLEAN]

(* The handler and the forwarders take turns: they start when it has done, *)
(* and what they may count on is there until it returns.                   *)
Control ==
  /\ main \in Before => \A d \in Dirs : fwd[d] = "off"
  /\ main \in {"dial", "relay"} => deadline = "none"
  /\ main \in {"readHello", "writeHello", "readReply", "writeReply", "relay"} => targetOpen
  /\ released => main = "returned"
  /\ reused => released
  /\ ErrorsHaveCause

Pipes ==
  /\ sent \in [Dirs -> 0 .. MaxMsgs]
  /\ queue \in [Dirs -> Seq(Nat)]
  /\ held \in [Dirs -> 1 .. MaxMsgs \cup {None}]
  /\ got \in [Dirs -> Seq(Nat)]
  /\ stray \subseteq 1 .. MaxMsgs
  /\ \A d \in Dirs :
       /\ held[d] # None <=> Holding(d)
       /\ Ordered(sent[d], queue[d], held[d], got[d])
       /\ Flowing(d) => Full(sent[d], queue[d], held[d], got[d])

RelayIInv == Places /\ Control /\ Pipes

-----------------------------------------------------------------------------
(* The pipe.                                                               *)

(* A peer sends.                                                           *)
LEMMA PipeSend ==
  ASSUME NEW s, NEW q, NEW h, NEW g, Ordered(s, q, h, g), s < MaxMsgs
  PROVE  /\ Ordered(s + 1, Append(q, s + 1), h, g)
         /\ Full(s, q, h, g) => Full(s + 1, Append(q, s + 1), h, g)
<1> DEFINE p == Append(q, s + 1)
<1>1. s \in Nat /\ MaxMsgs \in Nat /\ q \in Seq(Nat) /\ Len(q) \in Nat /\ Len(g) \in Nat
      /\ Hands(h) \in 0 .. 1
  BY RelayAssumption DEF Ordered, Hands
<1>2. p \in Seq(Nat) /\ Len(p) = Len(q) + 1
  BY <1>1
<1>3. ASSUME NEW i \in 1 .. Len(p) PROVE p[i] = (s + 1) - Len(p) + i
  <2>1. p[i] = IF i <= Len(q) THEN q[i] ELSE s + 1
    BY <1>1, <1>2, <1>3
  <2>2. i <= Len(q) => q[i] = s - Len(q) + i
    BY <1>1, <1>2, <1>3 DEF Ordered
  <2> HIDE DEF p
  <2> QED BY <1>1, <1>2, <1>3, <2>1, <2>2
<1>4. Len(g) + Hands(h) + Len(q) <= s
  BY DEF Ordered
<1>5. s + 1 \in 0 .. MaxMsgs /\ (s + 1) - Len(p) = s - Len(q)
  BY <1>1, <1>2
<1> HIDE DEF p
<1>6. Len(g) + Hands(h) + Len(p) <= s + 1
  BY <1>1, <1>2, <1>4
<1>7. Ordered(s + 1, p, h, g)
  <2>1. h # None => h = (s + 1) - Len(p)
    BY <1>5 DEF Ordered
  <2>2. g \in Seq(Nat) /\ h \in 1 .. MaxMsgs \cup {None} /\ \A i \in 1 .. Len(g) : g[i] = i
    BY DEF Ordered
  <2> QED BY <1>2, <1>3, <1>5, <1>6, <2>1, <2>2 DEF Ordered
<1>8. Full(s, q, h, g) => Full(s + 1, p, h, g)
  BY <1>1, <1>2 DEF Full
<1> QED BY <1>7, <1>8 DEF p

(* The gateway reads.                                                      *)
LEMMA PipeRead ==
  ASSUME NEW s, NEW q, NEW g, Ordered(s, q, None, g), q # <<>>
  PROVE  /\ Ordered(s, Tail(q), Head(q), g) /\ Head(q) # None
         /\ Full(s, q, None, g) => Full(s, Tail(q), Head(q), g)
<1> DEFINE p == Tail(q)
           h == Head(q)
<1>1. s \in 0 .. MaxMsgs /\ s \in Nat /\ MaxMsgs \in Nat /\ q \in Seq(Nat) /\ Len(q) \in Nat
      /\ Len(g) \in Nat /\ Len(q) > 0
  BY RelayAssumption DEF Ordered
<1>2. p \in Seq(Nat) /\ Len(p) = Len(q) - 1 /\ \A i \in 1 .. Len(p) : p[i] = q[i + 1]
  BY <1>1
<1>3. Len(g) + Len(q) <= s
  BY <1>1 DEF Ordered, Hands
<1>4. h = q[1] /\ q[1] = s - Len(q) + 1
  BY <1>1 DEF Ordered
<1>5. ASSUME NEW i \in 1 .. Len(p) PROVE p[i] = s - Len(p) + i
  <2>1. q[i + 1] = s - Len(q) + (i + 1)
    BY <1>1, <1>2 DEF Ordered
  <2> HIDE DEF p
  <2> QED BY <1>1, <1>2, <2>1
<1> HIDE DEF p, h
<1>6. h = s - Len(p) /\ h \in 1 .. MaxMsgs
  BY <1>1, <1>2, <1>3, <1>4
<1>7. h # None
  BY <1>6, RelayAssumption
<1>8. Len(g) + 1 + Len(p) <= s
  BY <1>1, <1>2, <1>3
<1>9. Ordered(s, p, h, g)
  BY <1>1, <1>2, <1>5, <1>6, <1>7, <1>8 DEF Ordered, Hands
<1>10. Full(s, q, None, g) => Full(s, p, h, g)
  BY <1>1, <1>2, <1>7 DEF Full, Hands
<1> QED BY <1>7, <1>9, <1>10 DEF p, h

(* It delivers.                                                            *)
LEMMA PipeDeliver ==
  ASSUME NEW s, NEW q, NEW h, NEW g, Ordered(s, q, h, g), h # None, Full(s, q, h, g)
  PROVE  /\ Ordered(s, q, None, Append(g, h))
         /\ Full(s, q, None, Append(g, h))
<1> DEFINE p == Append(g, h)
<1>1. s \in Nat /\ MaxMsgs \in Nat /\ q \in Seq(Nat) /\ g \in Seq(Nat) /\ Len(q) \in Nat
      /\ Len(g) \in Nat /\ h \in Nat
  BY RelayAssumption DEF Ordered
<1>2. h = s - Len(q) /\ Len(g) + 1 + Len(q) = s
  BY DEF Ordered, Full, Hands
<1>3. p \in Seq(Nat) /\ Len(p) = Len(g) + 1
  BY <1>1
<1>4. ASSUME NEW i \in 1 .. Len(p) PROVE p[i] = i
  <2>1. p[i] = IF i <= Len(g) THEN g[i] ELSE h
    BY <1>1, <1>3, <1>4
  <2>2. i <= Len(g) => g[i] = i
    BY <1>1, <1>3, <1>4 DEF Ordered
  <2>3. h = Len(g) + 1
    BY <1>1, <1>2
  <2> HIDE DEF p
  <2>4. i <= Len(g) \/ i = Len(g) + 1
    BY <1>1, <1>3, <1>4
  <2> QED BY <1>1, <1>3, <1>4, <2>1, <2>2, <2>3, <2>4
<1> HIDE DEF p
<1>5. Full(s, q, None, p)
  BY <1>1, <1>2, <1>3 DEF Full, Hands
<1>6. Ordered(s, q, None, p)
  BY <1>1, <1>3, <1>4, <1>5 DEF Ordered, Full
<1> QED BY <1>5, <1>6 DEF p

(* It drops what it holds.                                                 *)
LEMMA PipeDrop ==
  ASSUME NEW s, NEW q, NEW h, NEW g, Ordered(s, q, h, g)
  PROVE  Ordered(s, q, None, g)
<1>1. s \in Nat /\ Len(q) \in Nat /\ Len(g) \in Nat
  BY RelayAssumption DEF Ordered
<1>2. Len(g) + 0 + Len(q) <= s
  BY <1>1 DEF Ordered, Hands
<1> QED BY <1>2 DEF Ordered, Hands
-----------------------------------------------------------------------------
(* The pipes in the state.                                                 *)

(* A step that moves no message and starts no flow.                        *)
LEMMA PipesKept ==
  ASSUME Pipes, UNCHANGED <<sent, queue, held, got, stray>>,
         \A d \in Dirs : Flowing(d)' => Flowing(d),
         \A d \in Dirs : Holding(d)' <=> Holding(d)
  PROVE  Pipes'
BY DEF Pipes

(* A step that moves one message in the pipe of e.                         *)
LEMMA OnePipe ==
  ASSUME Pipes, NEW e \in Dirs,
         sent' \in [Dirs -> 0 .. MaxMsgs], queue' \in [Dirs -> Seq(Nat)],
         held' \in [Dirs -> 1 .. MaxMsgs \cup {None}], got' \in [Dirs -> Seq(Nat)],
         stray' \subseteq 1 .. MaxMsgs,
         \A d \in Dirs \ {e} :
           /\ sent'[d] = sent[d] /\ queue'[d] = queue[d]
           /\ held'[d] = held[d] /\ got'[d] = got[d]
           /\ Flowing(d)' => Flowing(d)
           /\ Holding(d)' <=> Holding(d),
         Ordered(sent'[e], queue'[e], held'[e], got'[e]),
         Flowing(e)' => Full(sent'[e], queue'[e], held'[e], got'[e]),
         held'[e] # None <=> Holding(e)'
  PROVE  Pipes'
<1>1. ASSUME NEW d \in Dirs
      PROVE  /\ held'[d] # None <=> Holding(d)'
             /\ Ordered(sent'[d], queue'[d], held'[d], got'[d])
             /\ Flowing(d)' => Full(sent'[d], queue'[d], held'[d], got'[d])
  <2>1. CASE d = e
    BY <2>1
  <2>2. CASE d # e
    <3>1. /\ held[d] # None <=> Holding(d)
          /\ Ordered(sent[d], queue[d], held[d], got[d])
          /\ Flowing(d) => Full(sent[d], queue[d], held[d], got[d])
      BY DEF Pipes
    <3>2. /\ sent'[d] = sent[d] /\ queue'[d] = queue[d]
          /\ held'[d] = held[d] /\ got'[d] = got[d]
          /\ Flowing(d)' => Flowing(d)
          /\ Holding(d)' <=> Holding(d)
      BY <2>2
    <3> QED BY <3>1, <3>2
  <2> QED BY <2>1, <2>2
<1> QED BY <1>1 DEF Pipes

(* A message is read.                                                      *)
LEMMA ReadsPipe ==
  ASSUME Pipes, NEW e \in Dirs, ~Holding(e), Reads(e), UNCHANGED <<sent, got, stray>>,
         Flowing(e)' => Flowing(e), Holding(e)',
         \A d \in Dirs \ {e} : (Flowing(d)' => Flowing(d)) /\ (Holding(d)' <=> Holding(d))
  PROVE  Pipes'
<1>1. /\ held[e] = None /\ queue[e] # <<>>
      /\ Ordered(sent[e], queue[e], None, got[e])
      /\ Flowing(e) => Full(sent[e], queue[e], None, got[e])
  BY DEF Pipes, Reads
<1>2. /\ Ordered(sent[e], Tail(queue[e]), Head(queue[e]), got[e]) /\ Head(queue[e]) # None
      /\ Flowing(e) => Full(sent[e], Tail(queue[e]), Head(queue[e]), got[e])
  BY <1>1, PipeRead
<1>3. held' = [held EXCEPT ![e] = Head(queue[e])] /\ queue' = [queue EXCEPT ![e] = Tail(queue[e])]
  BY DEF Reads
<1>4. /\ sent \in [Dirs -> 0 .. MaxMsgs] /\ queue \in [Dirs -> Seq(Nat)]
      /\ held \in [Dirs -> 1 .. MaxMsgs \cup {None}] /\ got \in [Dirs -> Seq(Nat)]
      /\ stray \subseteq 1 .. MaxMsgs
  BY DEF Pipes
<1>5. /\ Head(queue[e]) \in 1 .. MaxMsgs \cup {None} /\ Tail(queue[e]) \in Seq(Nat)
  BY <1>2 DEF Ordered
<1>6. /\ queue' \in [Dirs -> Seq(Nat)] /\ held' \in [Dirs -> 1 .. MaxMsgs \cup {None}]
      /\ queue'[e] = Tail(queue[e]) /\ held'[e] = Head(queue[e])
      /\ \A d \in Dirs \ {e} : queue'[d] = queue[d] /\ held'[d] = held[d]
  BY <1>3, <1>4, <1>5
<1>7. /\ Ordered(sent'[e], queue'[e], held'[e], got'[e])
      /\ Flowing(e)' => Full(sent'[e], queue'[e], held'[e], got'[e])
      /\ held'[e] # None
  BY <1>2, <1>6
<1> QED BY <1>4, <1>6, <1>7, OnePipe

(* A message leaves the gateway: it is delivered to a peer that is there,  *)
(* while the direction flows, or dropped.                                  *)
LEMMA LeavesPipe ==
  ASSUME Pipes, NEW e \in Dirs, Holding(e), UNCHANGED <<sent, queue>>,
         stray' \subseteq 1 .. MaxMsgs,
         held' = [held EXCEPT ![e] = None], ~Holding(e)',
         \/ got' = [got EXCEPT ![e] = Append(@, held[e])] /\ Flowing(e)
         \/ got' = got /\ ~Flowing(e)',
         \A d \in Dirs \ {e} : (Flowing(d)' => Flowing(d)) /\ (Holding(d)' <=> Holding(d))
  PROVE  Pipes'
<1>1. /\ held[e] # None /\ Ordered(sent[e], queue[e], held[e], got[e])
      /\ Flowing(e) => Full(sent[e], queue[e], held[e], got[e])
  BY DEF Pipes
<1>2. /\ sent \in [Dirs -> 0 .. MaxMsgs] /\ queue \in [Dirs -> Seq(Nat)]
      /\ held \in [Dirs -> 1 .. MaxMsgs \cup {None}] /\ got \in [Dirs -> Seq(Nat)]
  BY DEF Pipes
<1>3. /\ held' \in [Dirs -> 1 .. MaxMsgs \cup {None}] /\ held'[e] = None
      /\ \A d \in Dirs \ {e} : held'[d] = held[d]
  BY <1>2
<1>4. CASE got' = [got EXCEPT ![e] = Append(@, held[e])] /\ Flowing(e)
  <2>1. /\ Ordered(sent[e], queue[e], None, Append(got[e], held[e]))
        /\ Full(sent[e], queue[e], None, Append(got[e], held[e]))
    BY <1>1, <1>4, PipeDeliver
  <2>2. Append(got[e], held[e]) \in Seq(Nat)
    BY <2>1 DEF Ordered
  <2>3. /\ got' \in [Dirs -> Seq(Nat)] /\ got'[e] = Append(got[e], held[e])
        /\ \A d \in Dirs \ {e} : got'[d] = got[d]
    BY <1>2, <1>4, <2>2
  <2>4. /\ Ordered(sent'[e], queue'[e], held'[e], got'[e])
        /\ Full(sent'[e], queue'[e], held'[e], got'[e])
    BY <1>3, <2>1, <2>3
  <2> QED BY <1>2, <1>3, <2>3, <2>4, OnePipe
<1>5. CASE got' = got /\ ~Flowing(e)'
  <2>1. Ordered(sent[e], queue[e], None, got[e])
    BY <1>1, PipeDrop
  <2>2. Ordered(sent'[e], queue'[e], held'[e], got'[e])
    BY <1>3, <1>5, <2>1
  <2> QED BY <1>2, <1>3, <1>5, <2>2, OnePipe
<1> QED BY <1>4, <1>5

-----------------------------------------------------------------------------
(* The steps.                                                              *)

(* The handler and the forwarders take turns, whoever takes the step.      *)
LEMMA NextControl == RelayIInv /\ [Next]_vars => Places' /\ Control'
<1> SUFFICES ASSUME Places, Control, Pipes, [Next]_vars PROVE Places' /\ Control'
  BY DEF RelayIInv
<1> USE DEF Places, Control, Before, ErrorsHaveCause, conn, channels, target, peers, results,
            Dirs, Peers, Source, Dest
<1>1. ASSUME NEW d \in Dirs, PeerSends(d) PROVE Places' /\ Control'
  BY <1>1 DEF PeerSends
<1>2. ASSUME NEW p \in Peers, PeerLeaves(p) PROVE Places' /\ Control'
  BY <1>2 DEF PeerLeaves
<1>3. CASE DialFails
  BY <1>3 DEF DialFails
<1>4. ASSUME NEW k \in BOOLEAN, DialSucceeds(k) PROVE Places' /\ Control'
  BY <1>4 DEF DialSucceeds, StartForwarders
<1>5. CASE ReadHello \/ WriteHello \/ ReadReply
  BY <1>5 DEF ReadHello, WriteHello, ReadReply
<1>6. CASE WriteReply
  BY <1>6 DEF WriteReply, StartForwarders
<1>7. CASE HandshakeFails
  BY <1>7 DEF HandshakeFails
<1>8. CASE TakeError
  BY <1>8 DEF TakeError
<1>9. CASE Return
  BY <1>9 DEF Return
<1>10. CASE DeadlinePasses
  BY <1>10 DEF DeadlinePasses
<1>11. CASE Release
  BY <1>11 DEF Release
<1>12. CASE Reuse
  BY <1>12 DEF Reuse
<1>13. ASSUME NEW d \in Dirs, Check(d) PROVE Places' /\ Control'
  BY <1>13 DEF Check
<1>14. ASSUME NEW d \in Dirs, Read(d) PROVE Places' /\ Control'
  BY <1>14 DEF Read
<1>15. ASSUME NEW d \in Dirs, ReadFails(d) PROVE Places' /\ Control'
  BY <1>15 DEF ReadFails
<1>16. ASSUME NEW d \in Dirs, Write(d) PROVE Places' /\ Control'
  BY <1>16 DEF Write
<1>17. ASSUME NEW d \in Dirs, WriteFails(d) PROVE Places' /\ Control'
  BY <1>17 DEF WriteFails, CanWrite
<1>18. ASSUME NEW d \in Dirs, Report(d) PROVE Places' /\ Control'
  BY <1>18 DEF Report, ErrCap
<1>19. ASSUME NEW d \in Dirs, LatePanic(d) PROVE Places' /\ Control'
  BY <1>19 DEF LatePanic
<1>20. CASE Lookup
  BY <1>20 DEF Lookup
<1>21. CASE LateRead
  BY <1>21 DEF LateRead
<1>22. CASE LateWrite
  BY <1>22 DEF LateWrite
<1>23. CASE UNCHANGED vars
  BY <1>23 DEF vars
<1> QED BY <1>1, <1>2, <1>3, <1>4, <1>5, <1>6, <1>7, <1>8, <1>9, <1>10, <1>11, <1>12,
           <1>13, <1>14, <1>15, <1>16, <1>17, <1>18, <1>19, <1>20, <1>21, <1>22, <1>23
        DEF Next, Step, Handler, Forwarder

(* Every step keeps the pipes in order.                                    *)
LEMMA NextPipes == RelayIInv /\ [Next]_vars => Pipes'
<1> SUFFICES ASSUME Places, Control, Pipes, [Next]_vars PROVE Pipes'
  BY DEF RelayIInv
<1> USE DEF Places, Control, Before, Flowing, Holding, conn, channels, target, peers, results,
            Dirs, Peers, Source, Dest
<1>1. ASSUME NEW e \in Dirs, PeerSends(e) PROVE Pipes'
  <2>1. /\ sent[e] < MaxMsgs /\ sent' = [sent EXCEPT ![e] = sent[e] + 1]
        /\ queue' = [queue EXCEPT ![e] = Append(queue[e], sent[e] + 1)]
        /\ UNCHANGED <<main, fwd, held, gone, released, got, stray>>
    BY <1>1 DEF PeerSends
  <2>2. /\ Ordered(sent[e], queue[e], held[e], got[e])
        /\ Flowing(e) => Full(sent[e], queue[e], held[e], got[e])
        /\ held[e] # None <=> Holding(e)
        /\ sent \in [Dirs -> 0 .. MaxMsgs] /\ queue \in [Dirs -> Seq(Nat)]
        /\ held \in [Dirs -> 1 .. MaxMsgs \cup {None}] /\ got \in [Dirs -> Seq(Nat)]
        /\ stray \subseteq 1 .. MaxMsgs
    BY DEF Pipes
  <2> DEFINE n == sent[e] + 1
             q == Append(queue[e], sent[e] + 1)
  <2>3. /\ Ordered(n, q, held[e], got[e])
        /\ Flowing(e) => Full(n, q, held[e], got[e])
    BY <2>1, <2>2, PipeSend
  <2>4. n \in 0 .. MaxMsgs /\ q \in Seq(Nat)
    BY <2>3 DEF Ordered
  <2> HIDE DEF n, q
  <2>5. /\ sent' \in [Dirs -> 0 .. MaxMsgs] /\ queue' \in [Dirs -> Seq(Nat)]
        /\ sent'[e] = n /\ queue'[e] = q
        /\ \A d \in Dirs \ {e} : sent'[d] = sent[d] /\ queue'[d] = queue[d]
    BY <2>1, <2>2, <2>4 DEF n, q
  <2>6. \A d \in Dirs : (Flowing(d)' <=> Flowing(d)) /\ (Holding(d)' <=> Holding(d))
    BY <2>1
  <2> HIDE DEF Flowing, Holding
  <2> QED BY <2>1, <2>2, <2>3, <2>5, <2>6, OnePipe
<1>2. ASSUME NEW p \in Peers, PeerLeaves(p) PROVE Pipes'
  BY <1>2, PipesKept DEF PeerLeaves
<1>3. CASE DialFails
  BY <1>3, PipesKept DEF DialFails
<1>4. ASSUME NEW k \in BOOLEAN, DialSucceeds(k) PROVE Pipes'
  BY <1>4, PipesKept DEF DialSucceeds, StartForwarders
<1>5. CASE ReadHello
  BY <1>5, ReadsPipe DEF ReadHello
<1>6. CASE ReadReply
  BY <1>6, ReadsPipe DEF ReadReply
<1>7. ASSUME NEW e \in Dirs, Delivers(e), Holding(e), Flowing(e) \/ gone[Dest[e]],
             UNCHANGED <<sent, queue, stray, gone, released>>, ~Holding(e)',
             \A d \in Dirs \ {e} : (Flowing(d)' => Flowing(d)) /\ (Holding(d)' <=> Holding(d))
      PROVE  Pipes'
  <2>1. held' = [held EXCEPT ![e] = None] /\ stray' \subseteq 1 .. MaxMsgs
    BY <1>7 DEF Delivers, Pipes
  <2>2. \/ got' = [got EXCEPT ![e] = Append(@, held[e])] /\ Flowing(e)
        \/ got' = got /\ ~Flowing(e)'
    BY <1>7 DEF Delivers
  <2> HIDE DEF Flowing, Holding
  <2> QED BY <1>7, <2>1, <2>2, LeavesPipe
<1>8. CASE WriteHello
  BY <1>8, <1>7 DEF WriteHello
<1>9. CASE WriteReply
  BY <1>9, <1>7 DEF WriteReply, StartForwarders
<1>10. CASE HandshakeFails
  <2>1. /\ held' = [d \in Dirs |-> None] /\ main' = "closing" /\ fwd' = fwd
        /\ UNCHANGED <<sent, queue, got, stray>>
    BY <1>10 DEF HandshakeFails
  <2>2. \A d \in Dirs : fwd[d] = "off"
    BY <1>10 DEF HandshakeFails
  <2>3. \A d \in Dirs : ~Flowing(d)' /\ ~Holding(d)'
    BY <2>1, <2>2
  <2>4. \A d \in Dirs : Ordered(sent[d], queue[d], None, got[d])
    BY PipeDrop DEF Pipes
  <2>5. held' \in [Dirs -> 1 .. MaxMsgs \cup {None}] /\ \A d \in Dirs : held'[d] = None
    BY <2>1
  <2> HIDE DEF Flowing, Holding
  <2> QED BY <2>1, <2>3, <2>4, <2>5 DEF Pipes
<1>11. CASE TakeError
  BY <1>11, PipesKept DEF TakeError
<1>12. CASE Return
  BY <1>12, PipesKept DEF Return
<1>13. CASE DeadlinePasses
  BY <1>13, PipesKept DEF DeadlinePasses
<1>14. CASE Release
  BY <1>14, PipesKept DEF Release
<1>15. CASE Reuse
  BY <1>15, PipesKept DEF Reuse
<1>16. ASSUME NEW d \in Dirs, Check(d) PROVE Pipes'
  BY <1>16, PipesKept DEF Check
<1>17. ASSUME NEW d \in Dirs, Read(d) PROVE Pipes'
  BY <1>17, ReadsPipe DEF Read
<1>18. ASSUME NEW d \in Dirs, ReadFails(d) PROVE Pipes'
  BY <1>18, PipesKept DEF ReadFails
<1>19. ASSUME NEW d \in Dirs, Write(d) PROVE Pipes'
  BY <1>19, <1>7 DEF Write, CanWrite
<1>20. ASSUME NEW d \in Dirs, WriteFails(d) PROVE Pipes'
  <2>1. stray' \subseteq 1 .. MaxMsgs
    BY <1>20 DEF WriteFails, Pipes
  <2> QED BY <1>20, <2>1, LeavesPipe DEF WriteFails
<1>21. ASSUME NEW d \in Dirs, Report(d) PROVE Pipes'
  BY <1>21, PipesKept DEF Report
<1>22. ASSUME NEW d \in Dirs, LatePanic(d) PROVE Pipes'
  BY <1>22, PipesKept DEF LatePanic
<1>23. CASE Lookup
  BY <1>23, PipesKept DEF Lookup
<1>24. CASE LateRead
  BY <1>24, PipesKept DEF LateRead
<1>25. CASE LateWrite
  <2>1. held["t2c"] \in 1 .. MaxMsgs
    BY <1>25 DEF LateWrite, Pipes
  <2>2. stray' \subseteq 1 .. MaxMsgs
    BY <1>25, <2>1 DEF LateWrite, Pipes
  <2> QED BY <1>25, <2>2, LeavesPipe DEF LateWrite
<1>26. CASE UNCHANGED vars
  BY <1>26, PipesKept DEF vars
<1> QED BY <1>1, <1>2, <1>3, <1>4, <1>5, <1>6, <1>8, <1>9, <1>10, <1>11, <1>12,
           <1>13, <1>14, <1>15, <1>16, <1>17, <1>18, <1>19, <1>20, <1>21, <1>22, <1>23,
           <1>24, <1>25, <1>26
        DEF Next, Step, Handler, Forwarder

(* A session begins with empty pipes.                                      *)
LEMMA InitRelay == Init => RelayIInv
<1> SUFFICES ASSUME Init PROVE RelayIInv
  OBVIOUS
<1>1. Places /\ Control
  <2>1. Places
    <3>1. gone \in [Peers -> BOOLEAN]
      BY Zenon DEF Init
    <3>2. fwd \in [Dirs -> {"off", "check", "lookup", "read", "write", "report", "stopped"}]
      BY DEF Init
    <3>3. released \in BOOLEAN /\ reused \in BOOLEAN /\ panicked \in BOOLEAN
          /\ done \in BOOLEAN /\ targetOpen \in BOOLEAN
      BY Zenon DEF Init
    <3> QED BY <3>1, <3>2, <3>3 DEF Init, Places
  <2>2. \A d \in Dirs : fwd[d] = "off"
    BY DEF Init
  <2> QED BY <2>1, <2>2 DEF Init, Control, ErrorsHaveCause
<1>2. \A d \in Dirs : held[d] = None /\ sent[d] = 0 /\ queue[d] = <<>> /\ got[d] = <<>>
  BY DEF Init
<1>3. \A d \in Dirs : ~Holding(d)
  BY DEF Init, Holding, Dirs
<1>4. 0 \in 0 .. MaxMsgs
  BY RelayAssumption
<1>5. Ordered(0, <<>>, None, <<>>) /\ Full(0, <<>>, None, <<>>)
  BY <1>4 DEF Ordered, Full, Hands
<1>6. /\ sent \in [Dirs -> 0 .. MaxMsgs] /\ queue \in [Dirs -> Seq(Nat)]
      /\ held \in [Dirs -> 1 .. MaxMsgs \cup {None}] /\ got \in [Dirs -> Seq(Nat)]
      /\ stray \subseteq 1 .. MaxMsgs
  BY <1>4 DEF Init
<1>7. Pipes
  BY <1>2, <1>3, <1>5, <1>6 DEF Pipes
<1> QED BY <1>1, <1>7 DEF RelayIInv

(* What the invariant says of the properties the runs check.               *)
LEMMA RelayImplies == RelayIInv => TypeOK /\ DeliveredInOrder /\ ErrorsHaveCause
<1> SUFFICES ASSUME Places, Control, Pipes
             PROVE  TypeOK /\ DeliveredInOrder /\ ErrorsHaveCause
  BY DEF RelayIInv
<1>1. ASSUME NEW d \in Dirs
      PROVE  /\ Len(queue[d]) <= sent[d] /\ Len(got[d]) <= sent[d]
             /\ \A i \in DOMAIN got[d] : got[d][i] = i
             /\ fwd[d] = "write" => held[d] # None
  <2> DEFINE n == sent[d]
             q == queue[d]
             g == got[d]
  <2>1. Ordered(n, q, held[d], g)
    BY DEF Pipes
  <2> HIDE DEF n, q, g
  <2>2. /\ n \in Nat /\ Len(q) \in Nat /\ Len(g) \in Nat /\ Hands(held[d]) \in Nat
        /\ DOMAIN g = 1 .. Len(g)
    BY <2>1, RelayAssumption DEF Ordered, Hands
  <2>3. Len(g) + Hands(held[d]) + Len(q) <= n
    BY <2>1 DEF Ordered
  <2>4. Len(q) <= n /\ Len(g) <= n
    BY <2>2, <2>3
  <2>5. \A i \in DOMAIN g : g[i] = i
    BY <2>1, <2>2 DEF Ordered
  <2>6. fwd[d] = "write" => held[d] # None
    BY DEF Pipes, Holding
  <2> QED BY <2>4, <2>5, <2>6 DEF n, q, g
<1>2. TypeOK
  BY <1>1 DEF Places, Pipes, TypeOK
<1>3. DeliveredInOrder
  BY <1>1 DEF DeliveredInOrder
<1> QED BY <1>2, <1>3 DEF Control

-----------------------------------------------------------------------------

(* A session never leaves its invariant.                                   *)
THEOREM RelayInvariant == Spec => []RelayIInv
<1>1. RelayIInv /\ [Next]_vars => RelayIInv'
  BY NextControl, NextPipes DEF RelayIInv
<1> QED BY InitRelay, <1>1, PTL DEF Spec

(* Where the handler and the forwarders can be, and what they hold there.  *)
THEOREM RelayTypeOK == Spec => []TypeOK
<1> QED BY RelayInvariant, RelayImplies, PTL

(* Each peer receives what the other sent, in order and without a gap,     *)
(* however long the session is.                                            *)
THEOREM RelayDeliveredInOrder == Spec => []DeliveredInOrder
<1> QED BY RelayInvariant, RelayImplies, PTL

(* A forwarder has an error to report only when a peer has left or the     *)
(* handler is on its way out.                                              *)
THEOREM RelayErrorsHaveCause == Spec => []ErrorsHaveCause
<1> QED BY RelayInvariant, RelayImplies, PTL

=============================================================================
