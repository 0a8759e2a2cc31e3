--------------------------- MODULE WebSocketRelay ---------------------------
(***************************************************************************)
(* One proxied WebSocket connection: ProxyWebSocket in                     *)
(* internal/proxy/websocket.go.  The handler dials the target, passes the  *)
(* first message of a Socket.IO session each way itself, and then starts   *)
(* two goroutines, one per direction, and waits for the first error.       *)
(*                                                                         *)
(* The client connection belongs to fiber's websocket package.  When the   *)
(* handler has returned, the package drops it from the Conn it handed out, *)
(* closes it, and keeps the Conn for the next client.  The goroutines may  *)
(* still be running then, with the Conn in their hands.                    *)
(*                                                                         *)
(* Messages are numbered in the order their sender sent them.  Writes are  *)
(* assumed not to block for ever: there is no write deadline in the code,  *)
(* so this asks of a peer that is not reading to start again or to leave.  *)
(***************************************************************************)
EXTENDS Integers, Sequences

CONSTANTS
  MaxMsgs,   \* bound: messages each peer sends
  None       \* no message

ASSUME RelayAssumption == MaxMsgs \in Nat /\ None \notin Nat

VARIABLES
  main,        \* the handler
  done,        \* the channel that tells the forwarders to stop is closed
  targetOpen,  \* the gateway's end of the target connection
  deadline,    \* the target connection's read deadline
  fwd,         \* the two forwarding goroutines
  held,        \* the message each of them, or the handshake, has read
  errs,        \* errors in errChan
  released,    \* the handler's Conn no longer has a connection
  reused,      \* it has the next client's connection
  gone,        \* peers that closed their connection or lost it
  sent,        \* messages each source has sent
  queue,       \* sent and not read yet
  got,         \* what each destination has received
  stray,       \* messages of this session written to the next client
  panicked     \* a nil connection was used: the process is dead

channels == <<done, errs>>
target   == <<targetOpen, deadline>>
conn     == <<released, reused, panicked>>
peers    == <<gone, sent>>
results  == <<got, stray>>

vars == <<main, fwd, held, queue, channels, target, conn, peers, results>>

Peers == {"client", "target"}
Dirs  == {"c2t", "t2c"}

Source == [c2t |-> "client", t2c |-> "target"]
Dest   == [c2t |-> "target", t2c |-> "client"]

(* Bug variant: an unbuffered errChan.                                     *)
ErrCapNone == 0

(* errChan := make(chan error, 2)                                          *)
ErrCap == 2

Init ==
  /\ main = "dial"
  /\ done = FALSE
  /\ targetOpen = FALSE
  /\ deadline = "none"
  /\ fwd = [d \in Dirs |-> "off"]
  /\ held = [d \in Dirs |-> None]
  /\ errs = 0
  /\ released = FALSE
  /\ reused = FALSE
  /\ gone = [p \in Peers |-> FALSE]
  /\ sent = [d \in Dirs |-> 0]
  /\ queue = [d \in Dirs |-> <<>>]
  /\ got = [d \in Dirs |-> <<>>]
  /\ stray = {}
  /\ panicked = FALSE

-----------------------------------------------------------------------------
(* The peers.                                                              *)

Connected(p) ==
  /\ ~gone[p]
  /\ IF p = "client" THEN ~released ELSE targetOpen

PeerSends(d) ==
  /\ Connected(Source[d])
  /\ sent[d] < MaxMsgs
  /\ sent' = [sent EXCEPT ![d] = @ + 1]
  /\ queue' = [queue EXCEPT ![d] = Append(@, sent[d] + 1)]
  /\ UNCHANGED <<main, fwd, held, gone, channels, target, conn, results>>

PeerLeaves(p) ==
  /\ Connected(p)
  /\ gone' = [gone EXCEPT ![p] = TRUE]
  /\ UNCHANGED <<main, held, queue, fwd, sent, channels, target, conn,
                 results>>

-----------------------------------------------------------------------------
(* The handler.                                                            *)

(* Bug variant: the message stays where it was read from.                  *)
ReadsAgain(d) ==
  /\ queue[d] # <<>>
  /\ held' = [held EXCEPT ![d] = Head(queue[d])]
  /\ UNCHANGED queue

(* A read takes the next message.  What a peer sent before it left may or  *)
(* may not still be readable.                                              *)
Reads(d) ==
  /\ queue[d] # <<>>
  /\ held' = [held EXCEPT ![d] = Head(queue[d])]
  /\ queue' = [queue EXCEPT ![d] = Tail(@)]

(* A write to a peer that has left may fail, or succeed and be lost.       *)
Delivers(d) ==
  /\ got' = IF gone[Dest[d]] THEN got
            ELSE [got EXCEPT ![d] = Append(@, held[d])]
  /\ held' = [held EXCEPT ![d] = None]

StartForwarders == fwd' = [d \in Dirs |-> "check"]

DialFails ==
  /\ main = "dial"
  /\ main' = "returned"
  /\ UNCHANGED <<held, queue, fwd, channels, target, conn, peers, results>>

(* Bug variant: the first message may take for ever.                       *)
DialSucceedsNoDeadline(isSocketIO) ==
  /\ main = "dial"
  /\ targetOpen' = TRUE
  /\ IF isSocketIO THEN main' = "readHello" /\ UNCHANGED fwd
                   ELSE main' = "relay" /\ StartForwarders
  /\ UNCHANGED <<held, queue, deadline, channels, conn, peers, results>>

DialSucceeds(isSocketIO) ==
  /\ main = "dial"
  /\ targetOpen' = TRUE
  /\ IF isSocketIO
     THEN main' = "readHello" /\ deadline' = "armed" /\ UNCHANGED fwd
     ELSE main' = "relay" /\ StartForwarders /\ UNCHANGED deadline
  /\ UNCHANGED <<held, queue, channels, conn, peers, results>>

DeadlinePasses ==
  /\ deadline = "armed"
  /\ deadline' = "passed"
  /\ UNCHANGED <<held, queue, main, targetOpen, fwd, channels, conn, peers,
                 results>>

ReadHello ==
  /\ main = "readHello"
  /\ deadline # "passed"
  /\ Reads("t2c")
  /\ main' = "writeHello"
  /\ UNCHANGED <<fwd, channels, target, conn, peers, results>>

(* Bug variant: the first message is read and not passed on.               *)
DropHello ==
  /\ main = "writeHello"
  /\ held' = [held EXCEPT !["t2c"] = None]
  /\ main' = "readReply"
  /\ UNCHANGED <<fwd, queue, channels, target, conn, peers, results>>

WriteHello ==
  /\ main = "writeHello"
  /\ Delivers("t2c")
  /\ main' = "readReply"
  /\ UNCHANGED <<fwd, queue, stray, channels, target, conn, peers>>

(* No deadline here: the client may take its time.                         *)
ReadReply ==
  /\ main = "readReply"
  /\ Reads("c2t")
  /\ main' = "writeReply"
  /\ UNCHANGED <<fwd, channels, target, conn, peers, results>>

(* Bug variant: the deadline of the handshake stays.                       *)
WriteReplyKeepDeadline ==
  /\ main = "writeReply"
  /\ Delivers("c2t")
  /\ main' = "relay"
  /\ StartForwarders
  /\ UNCHANGED <<queue, stray, channels, target, conn, peers>>

WriteReply ==
  /\ main = "writeReply"
  /\ Delivers("c2t")
  /\ deadline' = "none"
  /\ main' = "relay"
  /\ StartForwarders
  /\ UNCHANGED <<targetOpen, queue, stray, channels, conn, peers>>

HandshakeFails ==
  /\ \/ main = "readHello" /\ (gone["target"] \/ deadline = "passed")
     \/ main \in {"writeHello", "readReply"} /\ gone["client"]
     \/ main = "writeReply" /\ gone["target"]
  /\ main' = "closing"
  /\ held' = [d \in Dirs |-> None]
  /\ UNCHANGED <<fwd, queue, channels, target, conn, peers, results>>

(* err = <-errChan, and the first deferred call, close(done).              *)
TakeError ==
  /\ main = "relay"
  /\ errs > 0
  /\ errs' = errs - 1
  /\ done' = TRUE
  /\ main' = "closing"
  /\ UNCHANGED <<held, queue, fwd, target, conn, peers, results>>

(* The second, targetConn.Close().                                         *)
Return ==
  /\ main = "closing"
  /\ targetOpen' = FALSE
  /\ main' = "returned"
  /\ UNCHANGED <<held, queue, deadline, fwd, channels, conn, peers, results>>

(* External: releaseConn, then the hijacked connection is closed.          *)
Release ==
  /\ main = "returned"
  /\ ~released
  /\ released' = TRUE
  /\ UNCHANGED <<main, held, queue, fwd, reused, panicked, channels, target,
                 peers, results>>

(* External: the pooled Conn is given to another client's session.         *)
Reuse ==
  /\ released
  /\ ~reused
  /\ reused' = TRUE
  /\ UNCHANGED <<main, held, queue, fwd, released, panicked, channels, target,
                 peers, results>>

-----------------------------------------------------------------------------
(* The forwarders.  The one that reads from the client looks its           *)
(* connection up in the Conn ("lookup") and then reads; the other looks it *)
(* up to write.                                                            *)

Check(d) ==
  /\ fwd[d] = "check"
  /\ fwd' = [fwd EXCEPT ![d] = IF done THEN "stopped"
                               ELSE IF d = "c2t" THEN "lookup" ELSE "read"]
  /\ UNCHANGED <<main, held, queue, channels, target, conn, peers, results>>

Lookup ==
  /\ fwd["c2t"] = "lookup"
  /\ ~released
  /\ fwd' = [fwd EXCEPT !["c2t"] = "read"]
  /\ UNCHANGED <<main, held, queue, channels, target, conn, peers, results>>

Read(d) ==
  /\ fwd[d] = "read"
  /\ d = "t2c" => targetOpen /\ deadline # "passed"
  /\ Reads(d)
  /\ fwd' = [fwd EXCEPT ![d] = "write"]
  /\ UNCHANGED <<main, channels, target, conn, peers, results>>

ReadFails(d) ==
  /\ fwd[d] = "read"
  /\ \/ gone[Source[d]]
     \/ d = "c2t" /\ released
     \/ d = "t2c" /\ (~targetOpen \/ deadline = "passed")
  /\ fwd' = [fwd EXCEPT ![d] = "report"]
  /\ UNCHANGED <<main, held, queue, channels, target, conn, peers, results>>

CanWrite(d) == IF d = "c2t" THEN targetOpen ELSE ~released

(* Bug variant: one message and no loop.                                   *)
WriteOnce(d) ==
  /\ fwd[d] = "write"
  /\ CanWrite(d)
  /\ Delivers(d)
  /\ fwd' = [fwd EXCEPT ![d] = "stopped"]
  /\ UNCHANGED <<main, queue, stray, channels, target, conn, peers>>

Write(d) ==
  /\ fwd[d] = "write"
  /\ CanWrite(d)
  /\ Delivers(d)
  /\ fwd' = [fwd EXCEPT ![d] = "check"]
  /\ UNCHANGED <<main, queue, stray, channels, target, conn, peers>>

WriteFails(d) ==
  /\ fwd[d] = "write"
  /\ IF CanWrite(d) THEN gone[Dest[d]] ELSE d = "c2t"
  /\ held' = [held EXCEPT ![d] = None]
  /\ fwd' = [fwd EXCEPT ![d] = "report"]
  /\ UNCHANGED <<main, queue, channels, target, conn, peers, results>>

(* Bug variant: the goroutine ends without a word.                         *)
ReportNothing(d) ==
  /\ fwd[d] = "report"
  /\ fwd' = [fwd EXCEPT ![d] = "stopped"]
  /\ UNCHANGED <<main, held, queue, channels, target, conn, peers, results>>

(* errChan <- err, then the goroutine ends.                                *)
Report(d) ==
  /\ fwd[d] = "report"
  /\ (errs < ErrCap) \/ (main = "relay" /\ errs = 0)
  /\ errs' = errs + 1
  /\ fwd' = [fwd EXCEPT ![d] = "stopped"]
  /\ UNCHANGED <<main, done, held, queue, target, conn, peers, results>>

(* The Conn is used after it was released: it has no connection, and the   *)
(* goroutine panics where nothing recovers, ...                            *)
LatePanic(d) ==
  /\ fwd[d] = IF d = "c2t" THEN "lookup" ELSE "write"
  /\ released /\ ~reused
  /\ panicked' = TRUE
  /\ UNCHANGED <<main, held, queue, fwd, released, reused, channels, target,
                 peers, results>>

(* ... or it has another client's connection: a message of theirs is read, *)
(* which can only fail to be written to our target, ...                    *)
LateRead ==
  /\ fwd["c2t"] = "lookup"
  /\ reused
  /\ fwd' = [fwd EXCEPT !["c2t"] = "report"]
  /\ UNCHANGED <<main, held, queue, channels, target, conn, peers, results>>

(* ... or one of ours is written to them.                                  *)
LateWrite ==
  /\ fwd["t2c"] = "write"
  /\ reused
  /\ stray' = stray \cup {held["t2c"]}
  /\ held' = [held EXCEPT !["t2c"] = None]
  /\ fwd' = [fwd EXCEPT !["t2c"] = "check"]
  /\ UNCHANGED <<main, queue, got, channels, target, conn, peers>>

-----------------------------------------------------------------------------

Handler ==
  \/ DialFails \/ \E isSocketIO \in BOOLEAN : DialSucceeds(isSocketIO)
  \/ ReadHello \/ WriteHello \/ ReadReply \/ WriteReply \/ HandshakeFails
  \/ TakeError \/ Return

Forwarder(d) ==
  \/ Check(d) \/ Read(d) \/ ReadFails(d) \/ Write(d) \/ WriteFails(d)
  \/ Report(d) \/ LatePanic(d)
  \/ d = "c2t" /\ Lookup
  \/ d = "t2c" /\ LateWrite

Step ==
  \/ \E d \in Dirs : PeerSends(d)
  \/ \E p \in Peers : PeerLeaves(p)
  \/ Handler
  \/ DeadlinePasses
  \/ Release
  \/ Reuse
  \/ \E d \in Dirs : Forwarder(d)
  \/ LateRead

(* After a panic there is no process left to take a step.                  *)
Next == ~panicked /\ Step

Spec == Init /\ [][Next]_vars

(* The goroutines run when they can, the deadline passes, the package      *)
(* releases the connection of a handler that has returned.  Peers need not *)
(* do anything, and nor need the next client, whom LateRead waits for.     *)
FairSpec ==
  /\ Spec
  /\ WF_vars(~panicked /\ Handler)
  /\ WF_vars(~panicked /\ DeadlinePasses)
  /\ WF_vars(~panicked /\ Release)
  /\ \A d \in Dirs : WF_vars(~panicked /\ Forwarder(d))

-----------------------------------------------------------------------------

(* No more errors than forwarders, no message both queued and held, and    *)
(* forwarders only once there is a target.                                 *)
TypeOK ==
  /\ main \in {"dial", "readHello", "writeHello", "readReply", "writeReply",
               "relay", "closing", "returned"}
  /\ done \in BOOLEAN /\ targetOpen \in BOOLEAN
  /\ deadline \in {"none", "armed", "passed"}
  /\ fwd \in [Dirs -> {"off", "check", "lookup", "read", "write", "report", "stopped"}]
  /\ held \in [Dirs -> 1 .. MaxMsgs \cup {None}]
  /\ errs \in 0 .. 2
  /\ released \in BOOLEAN /\ reused \in BOOLEAN /\ panicked \in BOOLEAN
  /\ gone \in [Peers -> BOOLEAN]
  /\ sent \in [Dirs -> 0 .. MaxMsgs]
  /\ \A d \in Dirs : /\ Len(queue[d]) <= sent[d]
                     /\ Len(got[d]) <= sent[d]
                     /\ fwd[d] = "write" => held[d] # None
  /\ stray \subseteq 1 .. MaxMsgs

(* What each peer receives is what the other sent, in order and without a  *)
(* gap, across the handover from the handshake to the forwarders; a        *)
(* message can only be missing at the end.                                 *)
DeliveredInOrder ==
  \A d \in Dirs : \A i \in DOMAIN got[d] : got[d][i] = i

(* The session is not ended by the gateway's own doing: a forwarder has an *)
(* error to report only when a peer has left or the handler is already on  *)
(* its way out.  In particular the handshake's deadline is forgotten.      *)
ErrorsHaveCause ==
  (\E d \in Dirs : fwd[d] = "report") =>
    (\E p \in Peers : gone[p]) \/ main \in {"closing", "returned"}

(* While both peers stay, everything sent gets through.                    *)
RelayDelivers ==
  \A d \in Dirs : \A i \in 1 .. MaxMsgs :
    main = "relay" /\ sent[d] >= i
      ~> Len(got[d]) >= i \/ (\E p \in Peers : gone[p])

(* A client that leaves ends the session, at whatever point it leaves.     *)
ClientGoneReturns == gone["client"] ~> main = "returned"

(* So does a target, except while the handler waits, without a deadline,   *)
(* for the client's part of the handshake.                                 *)
TargetGoneReturns == 
  gone["target"] ~>
    main = "returned" \/ (main = "readReply" /\ queue["c2t"] = <<>>)

(* No goroutine outlives its session for good, whichever error came first  *)
(* and whether or not anybody reads the second, unless it has begun to     *)
(* read from the client that was given the released Conn.                  *)
ForwardersStop ==
  main = "returned" ~>
    \/ panicked
    \/ \A d \in Dirs : \/ fwd[d] \in {"off", "stopped"}
                       \/ d = "c2t" /\ fwd[d] = "lookup" /\ reused

(* The goroutine that is to "forward messages from target to client"       *)
(* forwards them to that client and to nobody else.                        *)
ForwardsToItsClient == stray = {}
=============================================================================
