----------------------------- MODULE StanServer -----------------------------
(***************************************************************************)
(* The streaming server of src/server.go for one channel: clients, the    *)
(* channel's subStore (plain subscribers, queue groups, durables, ack     *)
(* inboxes), the per-subscription state (lastSent, acksPending, stalled,  *)
(* ackTimer), delivery, acks, ack-timer redelivery and heartbeats.        *)
(*                                                                         *)
(* Channels share nothing but the client registry, so one channel is      *)
(* modelled.  Each transport subscription of the server runs its handler  *)
(* on its own goroutine and time.AfterFunc runs each timer callback on a  *)
(* new one; a handler is one action where it holds the locks that make it *)
(* atomic, and is split where it releases them and another handler can    *)
(* really interleave (the subscribe handler, SubscribeRegister and        *)
(* SubscribeStart).  Time is a discrete clock `now'; a timer fires in any *)
(* state at or after its deadline.                                         *)
(***************************************************************************)
EXTENDS Integers, Sequences, FiniteSets, SequencesExt, Folds, Bags

CONSTANTS
    Clients,        \* client IDs (model values)
    SubIds,         \* identities of subState objects (model values)
    Groups,         \* queue group names (model values)
    None,           \* "" / nil
    MaxSeq,         \* bound on publishes
    MaxMsgs,        \* DefaultMsgStoreLimit
    MaxTime,        \* bound on the clock
    AckWait,        \* ackWaitInSecs, in clock ticks
    MaxInFlights,   \* maxInFlight values a subscription request may carry
    StartPositions, \* start positions a subscription request may carry
    Durability,     \* subset of BOOLEAN: may requests be durable / plain
    MaxFailedHB,    \* DefaultMaxFailedHeartBeats
    Width,          \* bits of the uint64 lastSent (2^Width > MaxSeq)
    MaxSendErrs     \* bound on the nc.Publish calls of delivery that fail

ASSUME 2^Width > MaxSeq + 1
ASSUME StartPositions \subseteq {"NewOnly", "LastReceived", "SequenceStart", "First",
                                  "TimeDeltaStart"}

Word == 2^Width

VARIABLES
    now,          \* the clock
    store,        \* the channel's msgStore (see MsgStore)
    chanExists,   \* the channel has been created (channelMap.LookupOrCreate)
    clients,      \* registered client IDs (clientStore)
    cliSubs,      \* client.subs: the subscriptions a client owns, in order
    fhb,          \* client.fhb: failed heartbeats
    hbStuck,      \* clients whose heartbeat goroutine holds the client lock forever
    closeStuck,   \* the close-request handler is blocked forever
    created,      \* subState objects that exist
    sub,          \* sub[s]: the fields of subState s
    orphans,      \* orphans[s]: bag of deadlines of armed timers of s no field refers to
    psubs,        \* subStore.psubs
    qs,           \* subStore.qsubs: qs[g] is the queueState of group g
    acksIdx,      \* subStore.acks: <<s, gen>> maps ackInbox number gen of s to s
    durables,     \* subStore.durables: durables[c] for key c-subject-durableName
    subReq,       \* the subscription request between its two steps, or None
    handle,       \* handle[s]: the client holding s after its SubscriptionResponse
    fresh,        \* history: sequences sent to s by sendMsgToSub, not redelivered
    redeliv,      \* history: sequences redelivered to s
    startAt,      \* history: the first sequence s asked for
    acked,        \* history: the sequences s has acked
    panicked,     \* a timer goroutine panicked, which ends the process
    sendErrs      \* nc.Publish calls of delivery that have failed so far

vars == <<now, store, chanExists, clients, cliSubs, fhb, hbStuck, closeStuck,
          created, sub, orphans, psubs, qs, acksIdx, durables, subReq, handle,
          fresh, redeliv, startAt, acked, panicked, sendErrs>>

MS == INSTANCE MsgStore WITH Times <- 0..MaxTime

-----------------------------------------------------------------------------
(* The ackTimer field: nil, a timer that fired or was stopped, or armed.  *)
Nil == [st |-> "nil", dl |-> 0]
Idle == [st |-> "idle", dl |-> 0]
Armed(d) == [st |-> "armed", dl |-> d]

\* The zero subState.
NoSub == [client |-> None, durable |-> FALSE, group |-> None, lastSent |-> 0,
          pending |-> {}, maxInFlight |-> 0, stalled |-> FALSE, ackGen |-> 0,
          timer |-> Nil]

\* The delivery engine works on a "world" of the state it changes, so that
\* a handler is a composition of the code's helpers.  fail is the sequence
\* whose nc.Publish to a subscriber inbox fails in this step (0: none).
Cur == [sub |-> sub, orph |-> orphans, fresh |-> fresh, redeliv |-> redeliv,
        qs |-> qs, psubs |-> psubs, acks |-> acksIdx, panicked |-> panicked,
        errs |-> sendErrs, fail |-> 0]

\* The transport may refuse a publish (connection closed or reconnecting
\* with a full buffer, payload too large): in a step that sends, at most one
\* send fails, while the bound allows.
FailChoice == IF sendErrs < MaxSendErrs THEN 0..MaxSeq ELSE {0}

CurF(f) == [Cur EXCEPT !.fail = f]

\* nc.Publish of q fails in this step.
SendFails(w, q) == q = w.fail

\* Record the failed publish.
Failed(w) == [w EXCEPT !.fail = 0, !.errs = @ + 1]

Commit(w) ==
    /\ sub' = w.sub
    /\ orphans' = w.orph
    /\ fresh' = w.fresh
    /\ redeliv' = w.redeliv
    /\ qs' = w.qs
    /\ psubs' = w.psubs
    /\ acksIdx' = w.acks
    /\ panicked' = w.panicked
    /\ sendErrs' = w.errs

NextSeq(n) == (n + 1) % Word

Load(w, s) == Cardinality(w.sub[s].pending)

Received(s) == Range(fresh[s]) \cup redeliv[s]

-----------------------------------------------------------------------------
(* Delivery engine                                                         *)

\* Faulty variant of sendMsgToSub: the cap compared with > (one too many).
SendMsgToSubOverCap(w, s, q, t, redelivered) ==
    LET r == w.sub[s] IN
    IF Cardinality(r.pending) > r.maxInFlight
    THEN [ok |-> FALSE, w |-> [w EXCEPT !.sub[s].stalled = TRUE]]
    ELSE IF SendFails(w, q) THEN [ok |-> FALSE, w |-> Failed(w)]
    ELSE [ok |-> TRUE,
          w |-> [w EXCEPT
                  !.sub[s] = [r EXCEPT !.lastSent = q, !.pending = @ \cup {q},
                                       !.timer = IF @.st = "nil"
                                                 THEN Armed(t + AckWait) ELSE @],
                  !.fresh[s] = IF redelivered THEN @ ELSE Append(@, q),
                  !.redeliv[s] = IF redelivered THEN @ \cup {q} ELSE @]]

\* Faulty variant of sendMsgToSub: a failed publish leaves lastSent at the
\* sequence it could not send (no sub.lastSent = oldLast).
SendMsgToSubNoRestore(w, s, q, t, redelivered) ==
    LET r == w.sub[s] IN
    IF Cardinality(r.pending) >= r.maxInFlight
    THEN [ok |-> FALSE, w |-> [w EXCEPT !.sub[s].stalled = TRUE]]
    ELSE IF SendFails(w, q) THEN [ok |-> FALSE, w |-> [Failed(w) EXCEPT !.sub[s].lastSent = q]]
    ELSE SendMsgToSubOverCap(w, s, q, t, redelivered)

\* sendMsgToSub: stall when at maxInFlight; otherwise publish, set lastSent,
\* record in acksPending and arm the ackTimer if it is nil.  A failed
\* publish restores lastSent and returns false: not stalled, nothing in
\* flight, no timer.
SendMsgToSub(w, s, q, t, redelivered) ==
    LET r == w.sub[s] IN
    IF Cardinality(r.pending) >= r.maxInFlight
    THEN [ok |-> FALSE, w |-> [w EXCEPT !.sub[s].stalled = TRUE]]
    ELSE IF SendFails(w, q) THEN [ok |-> FALSE, w |-> Failed(w)]
    ELSE [ok |-> TRUE,
          w |-> [w EXCEPT
                  !.sub[s] = [r EXCEPT !.lastSent = q,
                                       !.pending = @ \cup {q},
                                       !.timer = IF @.st = "nil"
                                                 THEN Armed(t + AckWait) ELSE @],
                  !.fresh[s] = IF redelivered THEN @ ELSE Append(@, q),
                  !.redeliv[s] = IF redelivered THEN @ \cup {q} ELSE @]]

\* Faulty variant of sendAvailableMessages: it returns after one send.
SendAvailableOnce(w, s, st, t) ==
    LET q == NextSeq(w.sub[s].lastSent) IN
    IF ~MS!Lookup(st, q) THEN w
    ELSE SendMsgToSub(w, s, q, t, FALSE).w

\* sendAvailableMessages: from lastSent+1 upward until a lookup fails or a
\* send does.
RECURSIVE SendAvailable(_, _, _, _)
SendAvailable(w, s, st, t) ==
    LET q == NextSeq(w.sub[s].lastSent) IN
    IF ~MS!Lookup(st, q) THEN w
    ELSE LET res == SendMsgToSub(w, s, q, t, FALSE) IN
         IF res.ok THEN SendAvailable(res.w, s, st, t) ELSE res.w

\* findBestQueueSub: the first member (in list order) with the fewest
\* acksPending.
FindBestQueueSub(w, members) ==
    IF members = <<>> THEN None
    ELSE members[CHOOSE i \in DOMAIN members :
                    /\ \A j \in 1..(i-1) : Load(w, members[j]) > Load(w, members[i])
                    /\ \A j \in (i+1)..Len(members) :
                          Load(w, members[j]) >= Load(w, members[i])]

\* Faulty variant of sendMsgToQueueGroup: a failed send that does not mark
\* the group stalled.
SendMsgToQueueGroupNoStall(w, g, q, t) ==
    LET best == FindBestQueueSub(w, w.qs[g].members) IN
    IF best = None THEN [ok |-> FALSE, w |-> w]
    ELSE LET res == SendMsgToSub(w, best, q, t, FALSE)
             ls  == res.w.sub[best].lastSent
         IN  IF ~res.ok THEN res
             ELSE [ok |-> TRUE,
                   w |-> [res.w EXCEPT !.qs[g].lastSent = IF ls > @ THEN ls ELSE @]]

\* sendMsgToQueueGroup
SendMsgToQueueGroup(w, g, q, t) ==
    LET best == FindBestQueueSub(w, w.qs[g].members) IN
    IF best = None THEN [ok |-> FALSE, w |-> w]
    ELSE LET res == SendMsgToSub(w, best, q, t, FALSE)
             ls  == res.w.sub[best].lastSent
         IN  IF ~res.ok
             THEN [ok |-> FALSE, w |-> [res.w EXCEPT !.qs[g].stalled = TRUE]]
             ELSE [ok |-> TRUE,
                   w |-> [res.w EXCEPT !.qs[g].lastSent = IF ls > @ THEN ls ELSE @]]

\* sendAvailableMessagesToQueue: from the group's lastSent+1 upward.
RECURSIVE SendAvailableToQueue(_, _, _, _)
SendAvailableToQueue(w, g, st, t) ==
    LET q == w.qs[g].lastSent + 1 IN
    IF ~MS!Lookup(st, q) THEN w
    ELSE LET res == SendMsgToQueueGroup(w, g, q, t) IN
         IF res.ok THEN SendAvailableToQueue(res.w, g, st, t) ELSE res.w

\* processMsg: every plain subscriber, then every queue group.  Distinct
\* subscribers and groups share no state here, so the order is immaterial.
ProcessMsg(w, st, t) ==
    LET plain == FoldSet(LAMBDA s, acc : SendAvailable(acc, s, st, t), w, w.psubs)
    IN  FoldSet(LAMBDA g, acc : SendAvailableToQueue(acc, g, st, t), plain,
                {g \in Groups : w.qs[g].exists})

-----------------------------------------------------------------------------
(* performRedelivery.  The callback captured sub.ackTimer in its snapshot; *)
(* cap records what became of that object while the loop runs: isNil (it  *)
(* was nil), isField (it is still the field of s), dl (its deadline while *)
(* armed and orphaned, else -1).                                           *)

\* subState.clearAckTimer: stop the timer and nil the field.
ClearAckTimer(w, x) == [w EXCEPT !.sub[x].timer = Nil]

\* Drop the field of x without stopping its timer (sub.ackTimer = nil): an
\* armed timer keeps running as an orphan.
NilField(w, x) ==
    LET f == w.sub[x].timer IN
    [w EXCEPT !.sub[x].timer = Nil,
              !.orph[x] = IF f.st = "armed" THEN @ (+) SetToBag({f.dl}) ELSE @]

\* ackTimer.Reset(remaining) on the captured timer.
ResetCaptured(w, s, cap, d) ==
    IF cap.isNil THEN [w EXCEPT !.panicked = TRUE]
    ELSE IF cap.isField THEN [w EXCEPT !.sub[s].timer = Armed(d)]
    ELSE [w EXCEPT !.orph[s] = (@ (-) (IF cap.dl >= 0 THEN SetToBag({cap.dl})
                                                      ELSE EmptyBag))
                               (+) SetToBag({d})]

\* One expired message of a plain subscriber: sub.ackTimer = nil, then
\* publish the redelivered copy to the inbox; a failed publish ends the
\* loop ("Break on error. FIXME(dlc) reset timer?").
RedeliverPlain(acc, s, q) ==
    LET w   == NilField(acc.w, s)
        cap == [acc.cap EXCEPT !.isField = FALSE]
    IN  IF SendFails(w, q)
        THEN [acc EXCEPT !.w = Failed(w), !.cap = cap, !.stop = TRUE]
        ELSE [acc EXCEPT !.w = [w EXCEPT !.redeliv[s] = @ \cup {q}], !.cap = cap]

\* One expired message of a queue subscriber: remove it from acksPending
\* (clearing the timer when none is left), pick the best member, nil its
\* ackTimer and sendMsgToSub it there; with no member, stop.
RedeliverQueue(acc, s, g, q, t) ==
    LET w1   == [acc.w EXCEPT !.sub[s].pending = @ \ {q}]
        clr  == w1.sub[s].pending = {}
        w2   == IF clr THEN ClearAckTimer(w1, s) ELSE w1
        cap2 == IF clr /\ acc.cap.isField
                THEN [acc.cap EXCEPT !.isField = FALSE, !.dl = -1] ELSE acc.cap
        best == FindBestQueueSub(w2, w2.qs[g].members)
        cap3 == IF best = s /\ cap2.isField THEN [cap2 EXCEPT !.isField = FALSE]
                ELSE cap2
    IN  IF best = None THEN [acc EXCEPT !.w = w2, !.cap = cap2, !.stop = TRUE]
        ELSE [acc EXCEPT !.w = SendMsgToSub(NilField(w2, best), best, q, t, TRUE).w,
                         !.cap = cap3]

RECURSIVE RedeliverLoop(_, _, _, _, _)
RedeliverLoop(acc, s, msgs, check, t) ==
    IF msgs = <<>> \/ acc.stop THEN acc
    ELSE LET q   == Head(msgs)
             dl  == store.ts[q] + AckWait
             g   == acc.w.sub[s].group
         IN  IF dl - t > 0 /\ check
             THEN [acc EXCEPT !.w = ResetCaptured(acc.w, s, acc.cap, dl), !.stop = TRUE]
             ELSE RedeliverLoop(IF g = None THEN RedeliverPlain(acc, s, q)
                                ELSE RedeliverQueue(acc, s, g, q, t),
                                s, Tail(msgs), check, t)

\* makeSortedMsgs: the in-flight sequences in increasing order.
SortedMsgs(r) == SetToSortSeq(r.pending, <)

\* performRedelivery(sub, checkExpiration): nothing while the owner is not
\* registered or has failed heartbeats; otherwise walk acksPending in
\* sequence order.
PerformRedelivery(w, s, check, t) ==
    LET r == w.sub[s]
        cap == [isNil |-> r.timer.st = "nil", isField |-> TRUE,
                dl |-> IF r.timer.st = "armed" THEN r.timer.dl ELSE -1]
    IN  IF r.client = None \/ r.client \notin clients \/ fhb[r.client] # 0
        THEN w
        ELSE RedeliverLoop([w |-> w, cap |-> cap, stop |-> FALSE], s,
                           SortedMsgs(r), check, t).w

-----------------------------------------------------------------------------
(* channelMap and subStore                                                 *)

\* channelMap.LookupOrCreate: the channel exists from now on.
LookupOrCreate == chanExists' = TRUE

\* subStore.LookupByDurable(durableKey(sr)): the durable of client c.
LookupByDurable(c) == durables[c]

\* subStore.LookupByAckInbox: the subStore knows the current ackInbox of s.
LookupByAckInbox(s) == <<s, sub[s].ackGen>> \in acksIdx

\* subStore.Store: index the new ackInbox, append to the group (created on
\* demand) or to psubs, and index a durable under its durableKey.
StoreSub(s, c, grp, dur) ==
    /\ acksIdx' = acksIdx \cup {<<s, 0>>}
    /\ qs' = IF grp = None THEN qs
             ELSE IF qs[grp].exists
                  THEN [qs EXCEPT ![grp].members = Append(@, s)]
                  ELSE [qs EXCEPT ![grp] = [exists |-> TRUE, lastSent |-> 0,
                                            members |-> <<s>>, stalled |-> FALSE]]
    /\ psubs' = IF grp = None THEN psubs \cup {s} ELSE psubs
    /\ durables' = IF dur THEN [durables EXCEPT ![c] = s] ELSE durables

-----------------------------------------------------------------------------
(* subStore.Remove and processAck                                          *)

\* subState.deleteFromList: the last element takes the removed one's place.
DeleteFromList(l, x) ==
    IF \E i \in DOMAIN l : l[i] = x
    THEN LET i == CHOOSE i \in DOMAIN l : l[i] = x
         IN  SubSeq([l EXCEPT ![i] = l[Len(l)]], 1, Len(l) - 1)
    ELSE l

\* subStore.Remove: clear clientID, drop the ack inbox, unlink from the
\* group's list or psubs.  The durables map is keyed by durableKey
\* (client-subject-name) but Remove deletes the key durableName, which is
\* never present, so durables is left as it is.
RemoveSub(w, s) ==
    LET r == w.sub[s] IN
    [w EXCEPT !.sub[s].client = None,
              !.acks = @ \ {<<s, r.ackGen>>},
              !.qs = IF r.group # None
                     THEN [@ EXCEPT ![r.group].members = DeleteFromList(@, s)]
                     ELSE @,
              !.psubs = IF r.group = None THEN @ \ {s} ELSE @]

\* Faulty variant of processAck: the stalled flag is read after the ack has
\* cleared it.
ProcessAckLateStall(w, s, q, t) ==
    LET r  == w.sub[s]
        p  == r.pending \ {q}
        w1 == [w EXCEPT !.sub[s] =
                 [r EXCEPT !.pending = p,
                           !.stalled = IF Cardinality(p) < r.maxInFlight THEN FALSE ELSE @,
                           !.timer = IF @.st = "nil" THEN @
                                     ELSE IF p = {} THEN Nil ELSE Armed(t + AckWait)]]
    IN  IF r.group = None /\ w1.sub[s].stalled THEN SendAvailable(w1, s, store, t)
        ELSE w1

\* Faulty variant of processAck: a queue member is resumed from its own
\* lastSent with sendAvailableMessages instead of from the group's.
ProcessAckNoGroup(w, s, q, t) ==
    LET r  == w.sub[s]
        p  == r.pending \ {q}
        w1 == [w EXCEPT !.sub[s] =
                 [r EXCEPT !.pending = p,
                           !.stalled = IF Cardinality(p) < r.maxInFlight THEN FALSE ELSE @,
                           !.timer = IF @.st = "nil" THEN @
                                     ELSE IF p = {} THEN Nil ELSE Armed(t + AckWait)]]
        g  == r.group
        stalled == IF g # None THEN w.qs[g].stalled ELSE r.stalled
        w2 == IF g # None THEN [w1 EXCEPT !.qs[g].stalled = FALSE] ELSE w1
    IN  IF ~stalled THEN w2 ELSE SendAvailable(w2, s, store, t)

\* processAck: drop the sequence, unstall when below maxInFlight, stop or
\* reset the timer, and when the sub (or, for a queue member, the group)
\* was stalled, send what is available.
ProcessAck(w, s, q, t) ==
    LET r  == w.sub[s]
        p  == r.pending \ {q}
        w1 == [w EXCEPT !.sub[s] =
                 [r EXCEPT !.pending = p,
                           !.stalled = IF Cardinality(p) < r.maxInFlight THEN FALSE ELSE @,
                           !.timer = IF @.st = "nil" THEN @
                                     ELSE IF p = {} THEN Nil ELSE Armed(t + AckWait)]]
        g  == r.group
        stalled == IF g # None THEN w.qs[g].stalled ELSE r.stalled
        w2 == IF g # None THEN [w1 EXCEPT !.qs[g].stalled = FALSE] ELSE w1
    IN  IF ~stalled THEN w2
        ELSE IF g # None THEN SendAvailableToQueue(w2, g, store, t)
        ELSE SendAvailable(w2, s, store, t)

\* sendMessagesFromSequence: lastSent = startSeq - 1 (uint64), then send
\* to the sub or to its group.
SendFromSequence(w, s, n) ==
    LET w1 == [w EXCEPT !.sub[s].lastSent = (n - 1) % Word]
        g  == w.sub[s].group
    IN  IF g = None THEN SendAvailable(w1, s, store, now)
        ELSE SendAvailableToQueue(w1, g, store, now)

\* The switch on StartPosition at the end of processSubscriptionRequest.
StartDelivery(w, s, sp, n) ==
    CASE sp = "NewOnly"       -> [w EXCEPT !.sub[s].lastSent = store.last]
      [] sp = "LastReceived"  -> SendFromSequence(w, s, store.last)
      [] sp = "SequenceStart" -> SendFromSequence(w, s, n)
      [] sp = "First"         -> SendFromSequence(w, s, store.first)
      [] sp = "TimeDeltaStart" ->
            SendFromSequence(w, s, MS!StartSeqFromTime(store, now - n))

\* The first sequence a request for sp asks for (spec.md 4.5).
Intended(sp, n) ==
    CASE sp = "NewOnly"       -> store.last + 1
      [] sp = "LastReceived"  -> IF store.last > 0 THEN store.last ELSE 1
      [] sp = "SequenceStart" -> n
      [] sp = "First"         -> store.first
      [] sp = "TimeDeltaStart" -> MS!FirstAtOrAfter(store, now - n)

\* startSequenceValid
SeqValid(n) == store.first <= n /\ n <= store.last

\* The range checks of processSubscriptionRequest: startSequenceValid for
\* SequenceStart, startTimeValid(time.Now() - StartTimeDelta) for
\* TimeDeltaStart.
StartValid(sp, n) ==
    /\ sp = "SequenceStart" => SeqValid(n)
    /\ sp = "TimeDeltaStart" => MS!TimeInRange(store, now - n)

\* startTimeValid on a channel with no message: FirstMsg and LastMsg are
\* nil and lastMsg.Timestamp dereferences nil.
TimePanics(sp) == sp = "TimeDeltaStart" /\ store.msgs = {}

\* The number a request carries for its start position: StartSequence,
\* StartTimeDelta (in clock ticks), or nothing.
ReqArgs(sp) ==
    CASE sp = "SequenceStart"  -> 1..MaxSeq
      [] sp = "TimeDeltaStart" -> 0..MaxTime
      [] OTHER                 -> {0}

-----------------------------------------------------------------------------
(* Handlers                                                                *)

Init ==
    /\ now = 0
    /\ store = MS!EmptyStore
    /\ chanExists = FALSE
    /\ clients = {}
    /\ cliSubs = [c \in Clients |-> <<>>]
    /\ fhb = [c \in Clients |-> 0]
    /\ hbStuck = {}
    /\ closeStuck = FALSE
    /\ created = {}
    /\ sub = [s \in SubIds |-> NoSub]
    /\ orphans = [s \in SubIds |-> EmptyBag]
    /\ psubs = {}
    /\ qs = [g \in Groups |-> [exists |-> FALSE, lastSent |-> 0,
                               members |-> <<>>, stalled |-> FALSE]]
    /\ acksIdx = {}
    /\ durables = [c \in Clients |-> None]
    /\ subReq = None
    /\ handle = [s \in SubIds |-> None]
    /\ fresh = [s \in SubIds |-> <<>>]
    /\ redeliv = [s \in SubIds |-> {}]
    /\ startAt = [s \in SubIds |-> 0]
    /\ acked = [s \in SubIds |-> {}]
    /\ panicked = FALSE
    /\ sendErrs = 0

Tick ==
    /\ ~panicked
    /\ now < MaxTime
    /\ now' = now + 1
    /\ UNCHANGED <<store, chanExists, clients, cliSubs, fhb, hbStuck, closeStuck,
                   created, sub, orphans, psubs, qs, acksIdx, durables, subReq,
                   handle, fresh, redeliv, startAt, acked, panicked, sendErrs>>

\* connectCB: register an unknown client (a known one gets an error).
Connect(c) ==
    /\ ~panicked
    /\ c \notin clients
    /\ clients' = clients \cup {c}
    /\ cliSubs' = [cliSubs EXCEPT ![c] = <<>>]
    /\ fhb' = [fhb EXCEPT ![c] = 0]
    /\ UNCHANGED <<now, store, chanExists, hbStuck, closeStuck, created, sub,
                   orphans, psubs, qs, acksIdx, durables, subReq, handle, fresh,
                   redeliv, startAt, acked, panicked, sendErrs>>

\* checkClientHealth, heartbeat answered: fhb = 0.
HeartbeatOk(c) ==
    /\ ~panicked
    /\ c \in clients \ hbStuck
    /\ fhb' = [fhb EXCEPT ![c] = 0]
    /\ UNCHANGED <<now, store, chanExists, clients, cliSubs, hbStuck, closeStuck,
                   created, sub, orphans, psubs, qs, acksIdx, durables, subReq,
                   handle, fresh, redeliv, startAt, acked, panicked, sendErrs>>

\* checkClientHealth, heartbeat timed out: fhb++.  Past the limit it defers
\* closeClient, which runs before the deferred client.Unlock and blocks in
\* removeAllNonDurableSubscribers on client.RLock: the goroutine keeps the
\* client's write lock for ever.
HeartbeatFailed(c) ==
    /\ ~panicked
    /\ c \in clients \ hbStuck
    /\ fhb' = [fhb EXCEPT ![c] = @ + 1]
    /\ hbStuck' = IF fhb[c] + 1 > MaxFailedHB THEN hbStuck \cup {c} ELSE hbStuck
    /\ UNCHANGED <<now, store, chanExists, clients, cliSubs, closeStuck, created,
                   sub, orphans, psubs, qs, acksIdx, durables, subReq, handle,
                   fresh, redeliv, startAt, acked, panicked, sendErrs>>

\* processClientPublish: ack the publisher, assignAndStore, processMsg.
Publish(c) ==
    /\ ~panicked
    /\ c \in clients
    /\ store.last < MaxSeq
    /\ LET st == MS!StoreMsg(store, now) IN
         /\ store' = st
         /\ \E f \in FailChoice : Commit(ProcessMsg(CurF(f), st, now))
    /\ LookupOrCreate
    /\ UNCHANGED <<now, clients, cliSubs, fhb, hbStuck, closeStuck, created,
                   durables, subReq, handle, startAt, acked>>

\* processSubscriptionRequest, the requests it answers with an error before
\* storing anything (the channel is created all the same): durable and
\* queue, a durable bound to a client, a start sequence out of range.
SubscribeRejected(c, grp, dur, sp, n) ==
    /\ ~panicked
    /\ subReq = None
    /\ c \in clients
    /\ \/ dur /\ grp # None
       \/ dur /\ grp = None /\ LookupByDurable(c) # None /\ sub[LookupByDurable(c)].client # None
       \/ ~(dur /\ LookupByDurable(c) # None) /\ ~TimePanics(sp) /\ ~StartValid(sp, n)
    /\ LookupOrCreate
    /\ UNCHANGED <<now, store, clients, cliSubs, fhb, hbStuck, closeStuck, created,
                   sub, orphans, psubs, qs, acksIdx, durables, subReq, handle,
                   fresh, redeliv, startAt, acked, panicked, sendErrs>>

\* processSubscriptionRequest for TimeDeltaStart on a channel with no
\* message, past the durable checks: startTimeValid dereferences nil and
\* the handler goroutine panics, which ends the process.
SubscribeTimePanic(c, grp, dur) ==
    /\ ~panicked
    /\ subReq = None
    /\ c \in clients
    /\ TimePanics("TimeDeltaStart")
    /\ "TimeDeltaStart" \in StartPositions
    /\ ~(dur /\ grp # None)
    /\ ~(dur /\ LookupByDurable(c) # None /\ sub[LookupByDurable(c)].client # None)
    /\ panicked' = TRUE
    /\ LookupOrCreate
    /\ UNCHANGED <<now, store, clients, cliSubs, fhb, hbStuck, closeStuck, created,
                   sub, orphans, psubs, qs, acksIdx, durables, subReq, handle,
                   fresh, redeliv, startAt, acked, sendErrs>>

\* processSubscriptionRequest up to the point it releases the subStore, for
\* a remembered durable whose clientID is "": take the new clientID and a
\* new ackInbox.  The start sequence is checked only afterwards, so an
\* invalid one returns an error with the durable already re-bound.
SubscribeReattach(c, sp, n) ==
    LET d == LookupByDurable(c) IN
    /\ ~panicked
    /\ subReq = None
    /\ c \in clients
    /\ TRUE \in Durability
    /\ d # None
    /\ sub[d].client = None
    /\ ~TimePanics(sp)
    /\ sub' = [sub EXCEPT ![d].client = c, ![d].ackGen = @ + 1]
    /\ subReq' = IF ~StartValid(sp, n) THEN None
                 ELSE [s |-> d, client |-> c, new |-> FALSE, start |-> sp, seq |-> n]
    /\ LookupOrCreate
    /\ UNCHANGED <<now, store, clients, cliSubs, fhb, hbStuck, closeStuck, created,
                   orphans, psubs, qs, acksIdx, durables, handle, fresh, redeliv,
                   startAt, acked, panicked, sendErrs>>

\* processSubscriptionRequest up to the point it releases the subStore, for
\* a new subscription: create the subState, subStore.Store it (ack inbox,
\* group or psubs, durables) and client.AddSub it.
SubscribeNew(c, s, grp, dur, mif, sp, n) ==
    /\ ~panicked
    /\ subReq = None
    /\ c \in clients
    /\ s \notin created
    /\ ~(dur /\ grp # None)
    /\ ~(dur /\ LookupByDurable(c) # None)
    /\ ~TimePanics(sp)
    /\ StartValid(sp, n)
    /\ created' = created \cup {s}
    /\ sub' = [sub EXCEPT ![s] = [NoSub EXCEPT !.client = c, !.durable = dur,
                                              !.group = grp, !.maxInFlight = mif]]
    /\ StoreSub(s, c, grp, dur)
    /\ cliSubs' = [cliSubs EXCEPT ![c] = Append(@, s)]
    /\ subReq' = [s |-> s, client |-> c, new |-> TRUE, start |-> sp, seq |-> n]
    /\ LookupOrCreate
    /\ UNCHANGED <<now, store, clients, fhb, hbStuck, closeStuck, orphans,
                   handle, fresh, redeliv, startAt, acked, panicked, sendErrs>>

\* Faulty variant of the rest of processSubscriptionRequest: a re-attached
\* durable is started from its requested start position like a new sub.
SubscribeStartRewind ==
    LET s == subReq.s IN
    /\ ~panicked
    /\ subReq # None
    /\ handle' = IF subReq.client \in clients
                 THEN [handle EXCEPT ![s] = subReq.client] ELSE handle
    /\ startAt' = IF subReq.new
                  THEN [startAt EXCEPT ![s] = Intended(subReq.start, subReq.seq)]
                  ELSE startAt
    /\ \E f \in FailChoice : Commit(StartDelivery(CurF(f), s, subReq.start, subReq.seq))
    /\ subReq' = None
    /\ UNCHANGED <<now, store, chanExists, clients, cliSubs, fhb, hbStuck,
                   closeStuck, created, durables, acked>>

\* The rest of processSubscriptionRequest: answer with the ackInbox (the
\* answer reaches only a client still registered); a
\* durable gets performDurableRedelivery then sendAvailableMessages, any
\* other sub the delivery its StartPosition asks for.
SubscribeStart ==
    LET s == subReq.s
        w(f) == IF sub[s].durable
                THEN SendAvailable(PerformRedelivery(CurF(f), s, FALSE, now), s, store, now)
                ELSE StartDelivery(CurF(f), s, subReq.start, subReq.seq)
    IN
    /\ ~panicked
    /\ subReq # None
    /\ handle' = IF subReq.client \in clients
                 THEN [handle EXCEPT ![s] = subReq.client] ELSE handle
    /\ startAt' = IF subReq.new
                  THEN [startAt EXCEPT ![s] = Intended(subReq.start, subReq.seq)]
                  ELSE startAt
    /\ \E f \in FailChoice : Commit(w(f))
    /\ subReq' = None
    /\ UNCHANGED <<now, store, chanExists, clients, cliSubs, fhb, hbStuck,
                   closeStuck, created, durables, acked>>

\* processUnSubscribeRequest, found by its ackInbox: subStore.Remove, and
\* client.RemoveSub from the requesting client.  The client library drops
\* its handle before sending the request.
Unsubscribe(s) ==
    LET c == handle[s] IN
    /\ ~panicked
    /\ c # None
    /\ chanExists
    /\ LookupByAckInbox(s)
    /\ handle' = [handle EXCEPT ![s] = None]
    /\ Commit(RemoveSub(Cur, s))
    /\ cliSubs' = IF c \in clients
                  THEN [cliSubs EXCEPT ![c] = SelectSeq(@, LAMBDA x : x # s)]
                  ELSE cliSubs
    /\ UNCHANGED <<now, store, chanExists, clients, fhb, hbStuck, closeStuck,
                   created, durables, subReq, startAt, acked>>

\* processUnSubscribeRequest for an ackInbox the subStore does not know:
\* ErrInvalidSub, and only the client's handle is gone.
UnsubscribeRejected(s) ==
    /\ ~panicked
    /\ handle[s] # None
    /\ ~(chanExists /\ LookupByAckInbox(s))
    /\ handle' = [handle EXCEPT ![s] = None]
    /\ UNCHANGED <<now, store, chanExists, clients, cliSubs, fhb, hbStuck,
                   closeStuck, created, sub, orphans, psubs, qs, acksIdx,
                   durables, subReq, fresh, redeliv, startAt, acked, panicked, sendErrs>>

\* The client side of Close drops every handle of the connection.
DropHandles(c) == [s \in SubIds |-> IF handle[s] = c THEN None ELSE handle[s]]

\* removeAllNonDurableSubscribers: walk client.subs, clear each ackTimer
\* (stopping it) and clientID, and Remove the non-durable ones.
RemoveAllNonDurable(w, c) ==
    LET step(acc, s) ==
            LET a1 == [ClearAckTimer(acc, s) EXCEPT !.sub[s].client = None]
            IN  IF acc.sub[s].durable THEN a1 ELSE RemoveSub(a1, s)
    IN  FoldLeft(step, w, cliSubs[c])

\* Faulty variant of closeClient: no check that the heartbeat goroutine of
\* the client has not already taken it over.
CloseClientUnguarded(c) ==
    /\ ~panicked
    /\ c \in clients
    /\ Commit(RemoveAllNonDurable(Cur, c))
    /\ clients' = clients \ {c}
    /\ cliSubs' = [cliSubs EXCEPT ![c] = <<>>]
    /\ fhb' = [fhb EXCEPT ![c] = 0]
    /\ handle' = DropHandles(c)
    /\ UNCHANGED <<now, store, chanExists, hbStuck, closeStuck, created,
                   durables, subReq, startAt, acked>>

\* processCloseRequest -> closeClient: removeAllNonDurableSubscribers, then
\* the client is unregistered.
CloseClient(c) ==
    /\ ~panicked
    /\ ~closeStuck
    /\ c \in clients \ hbStuck
    /\ Commit(RemoveAllNonDurable(Cur, c))
    /\ clients' = clients \ {c}
    /\ cliSubs' = [cliSubs EXCEPT ![c] = <<>>]
    /\ fhb' = [fhb EXCEPT ![c] = 0]
    /\ handle' = DropHandles(c)
    /\ UNCHANGED <<now, store, chanExists, hbStuck, closeStuck, created,
                   durables, subReq, startAt, acked>>

\* processCloseRequest for a client whose heartbeat goroutine holds its
\* lock: removeAllNonDurableSubscribers blocks on client.RLock, and with it
\* the close-request subscription, for ever.
CloseBlocked(c) ==
    /\ ~panicked
    /\ ~closeStuck
    /\ c \in hbStuck
    /\ closeStuck' = TRUE
    /\ handle' = DropHandles(c)
    /\ UNCHANGED <<now, store, chanExists, clients, cliSubs, fhb, hbStuck,
                   created, sub, orphans, psubs, qs, acksIdx, durables, subReq,
                   fresh, redeliv, startAt, acked, panicked, sendErrs>>

\* conn.processMsg: a message reaches the callback, and is auto-acked on
\* the sub's ackInbox, only while the connection is open and holds the sub
\* (subMap); the ack may repeat for a message delivered twice.
ClientAcks(s, q) == handle[s] # None /\ q \in Received(s)

\* processAckMsg: an ack the holder of s sends, for any message it got, on
\* its ackInbox; routed when the subStore knows that inbox.
ClientAck(s, q) ==
    /\ ~panicked
    /\ ClientAcks(s, q)
    /\ chanExists
    /\ LookupByAckInbox(s)
    /\ \E f \in FailChoice : Commit(ProcessAck(CurF(f), s, q, now))
    /\ acked' = [acked EXCEPT ![s] = @ \cup {q}]
    /\ UNCHANGED <<now, store, chanExists, clients, cliSubs, fhb, hbStuck,
                   closeStuck, created, durables, subReq, handle, startAt>>

\* The timer in sub.ackTimer fires: performAckExpirationRedelivery.
AckTimerFires(s) ==
    /\ ~panicked
    /\ sub[s].timer.st = "armed"
    /\ sub[s].timer.dl <= now
    /\ \E f \in FailChoice :
          Commit(PerformRedelivery([CurF(f) EXCEPT !.sub[s].timer = Idle], s, TRUE, now))
    /\ UNCHANGED <<now, store, chanExists, clients, cliSubs, fhb, hbStuck,
                   closeStuck, created, durables, subReq, handle, startAt, acked>>

\* A timer no field refers to any more fires: the same callback.
OrphanTimerFires(s) ==
    \E d \in BagToSet(orphans[s]) :
      /\ ~panicked
      /\ d <= now
      /\ \E f \in FailChoice :
           Commit(PerformRedelivery([CurF(f) EXCEPT !.orph[s] = @ (-) SetToBag({d})],
                                  s, TRUE, now))
      /\ UNCHANGED <<now, store, chanExists, clients, cliSubs, fhb, hbStuck,
                     closeStuck, created, durables, subReq, handle, startAt, acked>>

Next ==
    \/ Tick
    \/ \E c \in Clients :
          \/ Connect(c) \/ HeartbeatOk(c) \/ HeartbeatFailed(c) \/ Publish(c)
          \/ CloseClient(c) \/ CloseBlocked(c)
          \/ \E grp \in Groups \cup {None}, dur \in Durability :
                \/ SubscribeTimePanic(c, grp, dur)
                \/ \E sp \in StartPositions : \E n \in ReqArgs(sp) :
                      \/ SubscribeRejected(c, grp, dur, sp, n)
                      \/ \E s \in SubIds, mif \in MaxInFlights :
                            SubscribeNew(c, s, grp, dur, mif, sp, n)
          \/ \E sp \in StartPositions : \E n \in ReqArgs(sp) :
                SubscribeReattach(c, sp, n)
    \/ SubscribeStart
    \/ \E s \in SubIds :
          \/ Unsubscribe(s) \/ UnsubscribeRejected(s)
          \/ AckTimerFires(s) \/ OrphanTimerFires(s)
          \/ \E q \in 1..MaxSeq : ClientAck(s, q)

Spec == Init /\ [][Next]_vars

\* The fairness the code gives.  A subscribe handler that has stored its
\* sub runs on to its end (SubscribeStart).  The client library in its
\* default auto-ack mode acks every message it is handed once the callback
\* returns (conn.processMsg), so an ack of a message the holder received
\* is eventually sent.  Publishes, subscribes, closes, heartbeats and the
\* clock are the environment's and get no fairness.
AutoAck == \A s \in SubIds, q \in 1..MaxSeq : WF_vars(ClientAck(s, q))

FairSpec == Spec /\ WF_vars(SubscribeStart) /\ AutoAck

-----------------------------------------------------------------------------
(* Properties                                                              *)

TimerT == {Nil, Idle} \cup {Armed(d) : d \in 0..(MaxTime + AckWait)}

TypeOK ==
    /\ now \in 0..MaxTime
    /\ sendErrs \in 0..MaxSendErrs
    /\ clients \subseteq Clients /\ hbStuck \subseteq clients
    /\ created \subseteq SubIds /\ psubs \subseteq created
    /\ \A s \in SubIds :
         /\ sub[s].client \in Clients \cup {None}
         /\ sub[s].group \in Groups \cup {None}
         /\ sub[s].lastSent \in 0..(Word - 1)
         /\ sub[s].pending \subseteq 1..store.last
         /\ sub[s].timer \in TimerT
         /\ handle[s] \in Clients \cup {None}
    /\ acksIdx \subseteq created \X Nat
    /\ \A g \in Groups : Range(qs[g].members) \subseteq created
    /\ subReq = None \/ subReq.s \in created

\* s has finished its subscribe handler.
Settled(s) == subReq = None \/ subReq.s # s

\* Stored messages at or after the start s asked for that it was never sent.
Missed(s) == { q \in store.msgs : q >= startAt[s] /\ q \notin Range(fresh[s]) }

\* Members of group g, as a set.
Members(g) == Range(qs[g].members)

\* Stored messages the group g has not handed to any member yet.
QueueBacklog(g) == { q \in store.msgs : q > qs[g].lastSent }

\* Max-in-flight cap (spec.md 8): sendMsgToSub refuses a send at
\* maxInFlight, and neither redelivery to the best queue member, nor a
\* re-attach, nor an ack may push acksPending past the cap.
InFlightCap ==
    \A s \in created : Cardinality(sub[s].pending) <= sub[s].maxInFlight

\* No lost wake-up for plain subscribers: a stored message a subscribed
\* plain sub asked for and was never sent waits only while the sub is
\* stalled with messages in flight, so that the ack of one of them
\* (processAck reads the stalled flag it had) resumes sendAvailableMessages.
\* Publish, subscribe start positions, acks and retention all bear on it.
NoLostWakeup ==
    \A s \in psubs :
        Settled(s) /\ Missed(s) # {} => sub[s].stalled /\ sub[s].pending # {}

\* No lost wake-up for queue groups: while a settled group has a backlog
\* beyond its lastSent, it is marked stalled and some member has messages in
\* flight, so that an ack resumes sendAvailableMessagesToQueue (a group
\* without members has nobody to deliver to).
QueueNoLostWakeup ==
    \A g \in Groups :
        /\ Members(g) # {}
        /\ \A m \in Members(g) : Settled(m)
        /\ QueueBacklog(g) # {}
        => qs[g].stalled /\ \E m \in Members(g) : sub[m].pending # {}

\* s wants q: the client holds plain sub s, which is done subscribing, and
\* q is stored at or after the start s asked for.
Wants(s, q) ==
    /\ handle[s] # None
    /\ s \in psubs /\ Settled(s)
    /\ q \in store.msgs /\ q >= startAt[s]

\* At-least-once (spec.md 8): a message a subscriber asked for is
\* eventually sent to it while its client holds the subscription.
\* Delivery past maxInFlight depends on processAck resuming
\* sendAvailableMessages after the auto-ack of an earlier message.
EventuallyDelivered ==
    \A s \in SubIds, q \in 1..MaxSeq :
        Wants(s, q) ~> (q \in Received(s) \/ handle[s] = None)

\* A queue group hands each message out once: sendMsgToQueueGroup advances
\* the group's lastSent, so no sequence is freshly sent to two members of
\* the same group (redeliveries are not fresh sends).
QueueExclusive ==
    \A s1, s2 \in created :
        /\ s1 # s2
        /\ sub[s1].group # None
        /\ sub[s1].group = sub[s2].group
        => Range(fresh[s1]) \cap Range(fresh[s2]) = {}

\* Queue messages are not lost (spec.md 4.3): every message a member of a
\* group with live members was sent is acked by a member, or is in flight at
\* a current member, where an ack or a redelivery can still settle it.
QueueNoLoss ==
    \A g \in Groups : Members(g) # {} =>
        \A m \in { x \in created : sub[x].group = g } :
            \A q \in Received(m) :
                \/ \E x \in created : sub[x].group = g /\ q \in acked[x]
                \/ \E x \in Members(g) : q \in sub[x].pending

\* Monotonic delivery (spec.md 8): the messages sendMsgToSub sends a
\* subscription, redeliveries aside, have strictly increasing sequences.
MonotonicDelivery ==
    \A s \in created :
        \A i \in 1..(Len(fresh[s]) - 1) : fresh[s][i] < fresh[s][i + 1]

\* No skipped message (spec.md 8, at-least-once): every sequence a plain or
\* durable subscription's lastSent has moved past, from the start it asked
\* for, was really sent to it.  sendMsgToSub moves lastSent before the
\* nc.Publish and puts it back when the publish fails; a send failure, a
\* detach, a re-attach or a redelivery must never leave lastSent beyond a
\* message the subscriber was not sent.
NoSkippedMessage ==
    \A s \in created :
        sub[s].group = None =>
            \A q \in 1..sub[s].lastSent : q >= startAt[s] => q \in Range(fresh[s])

\* Start position honoured (spec.md 4.5): once its subscribe handler has
\* ended, a subscription that is not a queue member has never been freshly
\* sent a message older than the position it asked for (NewOnly: after the
\* last, SequenceStart: from the sequence asked for, ...).  A new durable
\* leaves processSubscriptionRequest before the switch on StartPosition
\* ("If we are a durable and have state") and is fed from lastSent 0.
StartRespected ==
    \A s \in created :
        Settled(s) /\ sub[s].group = None =>
            \A q \in Range(fresh[s]) : q >= startAt[s]

\* No goroutine of the server panics (spec.md 7: panics are for bootstrap
\* failures only; a bad request gets an error).  Reached by the ack-timer
\* callback's Reset of the timer it captured from sub.ackTimer, and by
\* startTimeValid on an empty channel.
NoPanic == ~panicked

\* Every subscription a client holds can be acked and unsubscribed: the
\* subStore knows its current ackInbox (spec.md 4.5, re-attach adopts a new
\* ackInbox).
AckRoutable ==
    \A s \in created : handle[s] # None => <<s, sub[s].ackGen>> \in acksIdx

\* The server lets go of what a client lets go of (spec.md 4.5: Close
\* detaches a durable, clearing its clientID; Unsubscribe removes the sub):
\* once its subscribe handler has ended, a subscription bound to a client is
\* held by that client.  Close reaches only the subs in client.subs, the
\* subStore finds an unsubscribe only by the current ackInbox, and a
\* blocked close releases nothing; a durable left bound refuses every later
\* re-attach as a duplicate.
BindingHeld ==
    \A s \in created :
        Settled(s) /\ sub[s].client # None => handle[s] = sub[s].client

=============================================================================
