---------------------------- MODULE ClientPublish ----------------------------
(***************************************************************************)
(* The publish side of the client library, src/stan.go: a conn's          *)
(* pubAckMap of outstanding publishes, the pubAckChan that bounds them to  *)
(* MaxPubAcksInflight, the per-publish ack timer, the ack subscription     *)
(* (processAck) and Close.                                                 *)
(*                                                                         *)
(* Three kinds of goroutine act on a publish g: its publisher             *)
(* (PublishAsyncWithReply, then for PublishWithReply the wait on ch), the  *)
(* callback of its ack timer, and the ack subscription's goroutine, which  *)
(* handles the acks of all publishes one at a time, in arrival order.     *)
(* Each is a label `at[x]'; a step is what the code does between two       *)
(* points where another goroutine can run: sc.Lock sections, channel       *)
(* operations, timer calls.  removeAck is three steps (its locked part,    *)
(* the timer Stop, the token receive) shared by all three kinds.           *)
(* The server's answer to a publish is an ack that may be lost.            *)
(***************************************************************************)
EXTENDS Naturals, Sequences, FiniteSets

CONSTANTS
    Guids,               \* the publishes (newGUID() values)
    SyncGuids,           \* those made with PublishWithReply (wait on ch)
    MaxPubAcksInflight   \* capacity of pubAckChan

ASSUME SyncGuids \subseteq Guids /\ MaxPubAcksInflight \in Nat \ {0}

\* Goroutines: the ack subscription's, and per publish its publisher and
\* the callback of its timer.
AckG == <<"ack", "ack">>
Procs == {AckG} \cup ({"pub", "tmr"} \X Guids)

VARIABLES
    closed,    \* sc.nc == nil
    ackMap,    \* keys of sc.pubAckMap
    tset,      \* publishes whose ack struct has its field t assigned
    timer,     \* timer[g]: the AfterFunc timer of g
    pac,       \* len(sc.pubAckChan)
    sent,      \* publishes the server has and has not answered yet
    ackQ,      \* acks delivered to the ack subscription, not yet handled
    cur,       \* the publish the ack goroutine is handling
    at,        \* at[x]: where goroutine x is
    found,     \* found[x]: removeAck of x found the entry (a != nil)
    result,    \* result[g]: what the caller of PublishWithReply got
    calls      \* calls[g]: how many times the AckHandler of g was called

vars == <<closed, ackMap, tset, timer, pac, sent, ackQ, cur, at, found,
          result, calls>>

\* The publish goroutine x works on.
G(x) == IF x = AckG THEN cur ELSE x[2]

Init ==
    /\ closed = FALSE
    /\ ackMap = {}
    /\ tset = {}
    /\ timer = [g \in Guids |-> "none"]
    /\ pac = 0
    /\ sent = {}
    /\ ackQ = <<>>
    /\ cur = CHOOSE g \in Guids : TRUE
    /\ at = [x \in Procs |-> CASE x = AckG -> "idle"
                               [] x[1] = "pub" -> "idle"
                               [] OTHER -> "none"]
    /\ found = [x \in Procs |-> FALSE]
    /\ result = [g \in Guids |-> "none"]
    /\ calls = [g \in Guids |-> 0]

-----------------------------------------------------------------------------
(* removeAck(guid)                                                         *)

\* Faulty variant of the return from removeAck: PublishWithReply waits on
\* ch although PublishAsyncWithReply returned an error.
AfterRemoveWait(x, f) ==
    CASE x[1] = "pub" -> IF x[2] \in SyncGuids THEN "wait" ELSE "failed"
      [] x[1] = "tmr" -> "call"
      [] OTHER        -> IF f THEN "call" ELSE "idle"

\* Where x goes once removeAck returns: the publisher returns the publish
\* error, the timer callback calls ah, processAck calls ah only if the
\* entry was there.
AfterRemove(x, f) ==
    CASE x[1] = "pub" -> "failed"
      [] x[1] = "tmr" -> "call"
      [] OTHER        -> IF f THEN "call" ELSE "idle"

\* Under sc.Lock: a = pubAckMap[guid]; delete it; snapshot the channel.
RemoveLock(x) ==
    /\ at[x] = "rmLock"
    /\ found' = [found EXCEPT ![x] = G(x) \in ackMap]
    /\ ackMap' = ackMap \ {G(x)}
    /\ at' = [at EXCEPT ![x] = "rmStop"]
    /\ UNCHANGED <<closed, tset, timer, pac, sent, ackQ, cur, result, calls>>

\* Faulty variant of the unlocked part: a token is received whenever
\* len(pac) > 0, whether or not the entry was found.
RemoveStopAnyDrain(x) ==
    LET g == G(x) IN
    /\ at[x] = "rmStop"
    /\ timer' = IF found[x] /\ g \in tset /\ timer[g] = "armed"
                THEN [timer EXCEPT ![g] = "stopped"] ELSE timer
    /\ at' = [at EXCEPT ![x] = IF pac > 0 THEN "rmDrain"
                               ELSE AfterRemove(x, found[x])]
    /\ UNCHANGED <<closed, ackMap, tset, pac, sent, ackQ, cur, found, result, calls>>

\* Unlocked: a.t.Stop() if a and a.t are set (a fired timer is not
\* stopped), then, if a was found and len(pac) > 0, go receive a token.
RemoveStop(x) ==
    LET g == G(x) IN
    /\ at[x] = "rmStop"
    /\ timer' = IF found[x] /\ g \in tset /\ timer[g] = "armed"
                THEN [timer EXCEPT ![g] = "stopped"] ELSE timer
    /\ at' = [at EXCEPT ![x] = IF found[x] /\ pac > 0 THEN "rmDrain"
                               ELSE AfterRemove(x, found[x])]
    /\ UNCHANGED <<closed, ackMap, tset, pac, sent, ackQ, cur, found, result, calls>>

\* <-pac: blocks while the channel is empty.
RemoveDrain(x) ==
    /\ at[x] = "rmDrain"
    /\ pac > 0
    /\ pac' = pac - 1
    /\ at' = [at EXCEPT ![x] = AfterRemove(x, found[x])]
    /\ UNCHANGED <<closed, ackMap, tset, timer, sent, ackQ, cur, found, result, calls>>

-----------------------------------------------------------------------------
(* The AckHandler ah(guid, err)                                            *)

\* For PublishWithReply ah is `ch <- err' on an unbuffered channel: it
\* waits for the caller to reach <-ch and hands it err; once the caller
\* has returned nobody will receive, and it blocks for ever.  An
\* AckHandler of PublishAsync returns.
CallHandler(x, err) ==
    LET g == G(x)
        p == <<"pub", g>>
        back == IF x = AckG THEN "idle" ELSE "done"
    IN
    /\ at[x] = "call"
    /\ g \in SyncGuids => at[p] \in {"wait", "done"}
    /\ calls' = [calls EXCEPT ![g] = @ + 1]
    /\ IF g \in SyncGuids /\ at[p] = "wait"
       THEN /\ at' = [at EXCEPT ![p] = "done", ![x] = back]
            /\ result' = [result EXCEPT ![g] = err]
       ELSE /\ at' = [at EXCEPT ![x] = IF g \in SyncGuids THEN "blocked" ELSE back]
            /\ UNCHANGED result
    /\ UNCHANGED <<closed, ackMap, tset, timer, pac, sent, ackQ, cur, found>>

-----------------------------------------------------------------------------
(* PublishAsyncWithReply and PublishWithReply                              *)

\* Under sc.Lock: ErrConnectionClosed if closed, else map the ack to the
\* guid.
PublishStart(g) ==
    LET p == <<"pub", g>> IN
    /\ at[p] = "idle"
    /\ IF closed
       THEN /\ at' = [at EXCEPT ![p] = "done"]
            /\ result' = [result EXCEPT ![g] = "closed"]
            /\ UNCHANGED ackMap
       ELSE /\ at' = [at EXCEPT ![p] = "token"]
            /\ ackMap' = ackMap \cup {g}
            /\ UNCHANGED result
    /\ UNCHANGED <<closed, tset, timer, pac, sent, ackQ, cur, found, calls>>

\* Faulty variant of the token send: it does not wait for room.
PublishTokenUnbounded(g) ==
    LET p == <<"pub", g>> IN
    /\ at[p] = "token"
    /\ pac' = pac + 1
    /\ at' = [at EXCEPT ![p] = "send"]
    /\ UNCHANGED <<closed, ackMap, tset, timer, sent, ackQ, cur, found, result, calls>>

\* pac <- struct{}{}: blocks while MaxPubAcksInflight tokens are out.
PublishToken(g) ==
    LET p == <<"pub", g>> IN
    /\ at[p] = "token"
    /\ pac < MaxPubAcksInflight
    /\ pac' = pac + 1
    /\ at' = [at EXCEPT ![p] = "send"]
    /\ UNCHANGED <<closed, ackMap, tset, timer, sent, ackQ, cur, found, result, calls>>

\* nc.PublishRequest: fails once the connection is closed, and the
\* publisher then removes its ack and returns the error.
PublishSend(g) ==
    LET p == <<"pub", g>> IN
    /\ at[p] = "send"
    /\ IF closed
       THEN /\ at' = [at EXCEPT ![p] = "rmLock"]
            /\ UNCHANGED sent
       ELSE /\ at' = [at EXCEPT ![p] = "arm"]
            /\ sent' = sent \cup {g}
    /\ UNCHANGED <<closed, ackMap, tset, timer, pac, ackQ, cur, found, result, calls>>

\* Under sc.Lock: a.t = time.AfterFunc(ackTimeout, ...).  PublishAsync
\* returns; PublishWithReply goes on to wait on ch.
PublishArm(g) ==
    LET p == <<"pub", g>> IN
    /\ at[p] = "arm"
    /\ timer' = [timer EXCEPT ![g] = "armed"]
    /\ tset' = tset \cup {g}
    /\ at' = [at EXCEPT ![p] = IF g \in SyncGuids THEN "wait" ELSE "done"]
    /\ UNCHANGED <<closed, ackMap, pac, sent, ackQ, cur, found, result, calls>>

\* The error return after removeAck on a failed PublishRequest.
PublishFailed(g) ==
    LET p == <<"pub", g>> IN
    /\ at[p] = "failed"
    /\ at' = [at EXCEPT ![p] = "done"]
    /\ result' = [result EXCEPT ![g] = "error"]
    /\ UNCHANGED <<closed, ackMap, tset, timer, pac, sent, ackQ, cur, found, calls>>

-----------------------------------------------------------------------------
(* The server's answer, the ack subscription, the timer, Close             *)

\* The server acks the publish (ackPublisher) on the conn's ackSubject; a
\* closed conn has unsubscribed from it and the ack is dropped.
ServerAck(g) ==
    /\ g \in sent
    /\ sent' = sent \ {g}
    /\ ackQ' = IF closed THEN ackQ ELSE Append(ackQ, g)
    /\ UNCHANGED <<closed, ackMap, tset, timer, pac, cur, at, found, result, calls>>

\* The ack never arrives (the transport is at-most-once).
AckLost(g) ==
    /\ g \in sent
    /\ sent' = sent \ {g}
    /\ UNCHANGED <<closed, ackMap, tset, timer, pac, ackQ, cur, at, found, result, calls>>

\* processAck takes the next ack of the subscription and runs the locked
\* part of removeAck for its guid.
AckReceive ==
    /\ at[AckG] = "idle"
    /\ ackQ # <<>>
    /\ cur' = Head(ackQ)
    /\ ackQ' = Tail(ackQ)
    /\ found' = [found EXCEPT ![AckG] = Head(ackQ) \in ackMap]
    /\ ackMap' = ackMap \ {Head(ackQ)}
    /\ at' = [at EXCEPT ![AckG] = "rmStop"]
    /\ UNCHANGED <<closed, tset, timer, pac, sent, result, calls>>

\* The timer of g fires: its callback runs removeAck(guid), then calls ah
\* with ErrTimeout whatever removeAck returned.
TimerFires(g) ==
    LET x == <<"tmr", g>> IN
    /\ timer[g] = "armed"
    /\ timer' = [timer EXCEPT ![g] = "fired"]
    /\ at' = [at EXCEPT ![x] = "rmLock"]
    /\ UNCHANGED <<closed, ackMap, tset, pac, sent, ackQ, cur, found, result, calls>>

\* Close: sc.nc = nil and the ack subscription is unsubscribed, which
\* drops the acks it has not handled.  (The close request to the server
\* is the server's CloseClient.)
Close ==
    /\ ~closed
    /\ closed' = TRUE
    /\ ackQ' = <<>>
    /\ UNCHANGED <<ackMap, tset, timer, pac, sent, cur, at, found, result, calls>>

Next ==
    \/ Close \/ AckReceive
    \/ \E g \in Guids :
          \/ PublishStart(g) \/ PublishToken(g) \/ PublishSend(g)
          \/ PublishArm(g) \/ PublishFailed(g)
          \/ ServerAck(g) \/ AckLost(g) \/ TimerFires(g)
    \/ \E x \in Procs :
          \/ RemoveLock(x) \/ RemoveStop(x) \/ RemoveDrain(x)
          \/ CallHandler(x, IF x = AckG THEN "ok" ELSE "timeout")

Spec == Init /\ [][Next]_vars

\* Goroutines that have started run on: every step of a publisher, of a
\* timer callback and of the ack subscription is weakly fair, a blocked
\* channel send is served (Go queues blocked senders), and an armed timer
\* fires.  Publishing, the server's answer and Close are the
\* environment's.
FairSpec ==
    /\ Spec
    /\ WF_vars(AckReceive)
    /\ \A g \in Guids :
          /\ SF_vars(PublishToken(g)) /\ WF_vars(PublishSend(g))
          /\ WF_vars(PublishArm(g)) /\ WF_vars(PublishFailed(g))
          /\ WF_vars(TimerFires(g))
    /\ \A x \in Procs :
          /\ WF_vars(RemoveLock(x)) /\ WF_vars(RemoveStop(x)) /\ WF_vars(RemoveDrain(x))
          /\ WF_vars(CallHandler(x, IF x = AckG THEN "ok" ELSE "timeout"))

-----------------------------------------------------------------------------
(* Properties                                                              *)

Labels == {"idle", "token", "send", "arm", "wait", "done", "failed", "none",
           "rmLock", "rmStop", "rmDrain", "call", "blocked"}

TypeOK ==
    /\ closed \in BOOLEAN
    /\ ackMap \subseteq Guids /\ tset \subseteq Guids /\ sent \subseteq Guids
    /\ timer \in [Guids -> {"none", "armed", "fired", "stopped"}]
    /\ pac \in 0..MaxPubAcksInflight
    /\ ackQ \in Seq(Guids)
    /\ at \in [Procs -> Labels]
    /\ result \in [Guids -> {"none", "ok", "timeout", "closed", "error"}]

\* g has taken its pubAckChan token and no removeAck has taken its entry.
Outstanding ==
    { g \in ackMap : at[<<"pub", g>>] \notin {"idle", "token"} }

\* Flow control of PublishAsync ("use the buffered channel to control the
\* number of outstanding acks"): at most MaxPubAcksInflight publishes are
\* out at once, though removeAck returns a token whenever it found an
\* entry and len(pac) > 0, from the ack goroutine, a timer or the
\* publisher itself.
PubAckFlowControl == Cardinality(Outstanding) <= MaxPubAcksInflight

\* Every PublishWithReply that reached its wait returns: the ack or the
\* timer hands it a result, whatever the server and Close do.
PublishReturns ==
    \A g \in SyncGuids : at[<<"pub", g>>] = "wait" ~> at[<<"pub", g>>] = "done"

\* The AckHandler of a publish is called once, with the ACK or with the
\* error (PublishAsync: "asynchronously process the ACK or error state";
\* removeAck "cancels any state, e.g. timers").
AckHandlerOnce == \A g \in Guids : calls[g] <= 1

=============================================================================
