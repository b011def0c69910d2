# TLA+ models of the NATS Streaming server (`src/server.go`) and its client (`src/stan.go`)

This directory holds TLA+ models of the early STAN server in `src/server.go` and of the publish path of its Go client in `src/stan.go`, with TLC configurations that check them. Every definition is translated from the Go source and mapped to its lines in `PROJECT.json`. Properties are stated from `spec.md` or from the code's own comments and tests.

## 1. Inventory of the system

| Part | Source | State it keeps | Operations |
|---|---|---|---|
| msgStore | `server.go` 252-316 | `first`, `last`, `msgs` (seq -> message with timestamp) | `Store` (assign `last+1`, evict `first` past `DefaultMsgStoreLimit`), `Lookup`, `First/LastSequence`, `First/LastMsg` |
| channelMap | 77-160 | subject -> channelStore | `LookupOrCreate`, `Lookup`, `New` |
| subStore | 89-106, 164-250 | `psubs`, `qsubs` (group -> queueState), `durables` (durableKey -> sub), `acks` (ackInbox -> sub) | `Store`, `Remove`, `LookupByDurable`, `LookupByAckInbox` |
| queueState | 99-106 | `lastSent`, `subs`, `stalled` | via `sendMsgToQueueGroup`, `sendAvailableMessagesToQueue` |
| subState | 108-125 | `clientID`, `ackInbox`, `lastSent` (uint64), `acksPending`, `maxInFlight`, `stalled`, `ackTimer` | `sendMsgToSub`, `sendAvailableMessages`, `processAck`, `performRedelivery`, `clearAckTimer`, `deleteFromList` |
| clients | `connectCB`, `checkClientHealth`, `closeClient`; clientStore is not in the repository | registered IDs, `fhb`, `subs` list, heartbeat timer | connect, heartbeat ok/timeout, close, AddSub/RemoveSub |
| handlers | `initSubscriptions` 403-439 | none | publish, subscribe, unsubscribe, close, connect, ack (one goroutine per transport subscription) |
| timers | `time.AfterFunc` in `sendMsgToSub` and `connectCB` | armed/fired/stopped timer objects | ack expiry -> `performAckExpirationRedelivery`; heartbeat -> `checkClientHealth` |
| client conn | `stan.go` 102-339 | `pubAckMap` (guid -> ack with timer `t` and handler `ah`), `pubAckChan` (buffered, capacity `MaxPubAcksInflight`), `nc` | `PublishAsyncWithReply`, `PublishWithReply`, `processAck`, `removeAck`, the per-publish timer, `Close`; `processMsg` auto-acks delivered messages |

How the parts interact:
- A publish stores the message, then fans it out: `processMsg` takes the subStore read lock and runs `sendAvailableMessages` for every plain sub and `sendAvailableMessagesToQueue` for every group.
- An ack arrives on the sub's ackInbox. `processAck` shrinks `acksPending` and, if the sub or group was stalled, resumes delivery.
- An ack timer fires on its own goroutine. `performRedelivery` resends expired messages. A queue member's messages go to the least-loaded member, and the timer is re-armed for the first unexpired one.
- Subscribing stores the sub, answers the client, and then applies the start position. A durable instead gets durable redelivery and forward delivery.
- Close and heartbeat timeout detach a client's subs: non-durables are removed, durables keep their state with clientID "".
- On the client, a publish maps its guid to an ack record, takes a token of `pubAckChan`, sends, and arms a timer. The server's ack (`ackPublisher`) reaches `processAck` on the ack subscription's goroutine; the ack or the timer runs `removeAck`, which gives the token back, and calls the handler. `PublishWithReply` waits on an unbuffered channel the handler sends on.

Hard behaviours in this code:
- The subscribe handler releases the subStore between storing a sub and positioning it, while publishes run concurrently.
- Timer callbacks capture `sub.ackTimer` and later act on a stale value.
- Deferred calls run in an order that matters in `checkClientHealth`.
- uint64 wrap appears in `startSeq - 1`.
- Retention can evict messages a slow subscriber still needs.
- Queue members leave with messages in flight.
- The durable index is keyed inconsistently.
- `ss.acks` is not updated when a durable re-attaches.
- TimeDeltaStart reads the wall clock twice, and its validation dereferences nil on an empty channel.
- On the client, the ack and the timer of one publish race; `removeAck` stops the timer after it has unlocked.

## 2. Modules

| Module | Models | State and actions |
|---|---|---|
| `MessageLog` | spec.md 3/4.1: what a channel log promises | `history` (timestamps by sequence), `retained` (the newest `Limit`); `AppendMsg` |
| `MsgStore` | `msgStore`, `channelMap.New`, the timestamp search of `sendMessagesToSubFromTime` | record `[first, last, msgs, ts]`; pure operators `StoreMsg`, `SearchTs` (RECURSIVE, `sort.Search`), `StartSeqFromTime`, `TimeInRange` used by the server; standalone `Publish`. Refines `MessageLog` (`Log!Spec`). |
| `StanServer` | one channel of `server.go`: subStore, subStates, delivery, acks, redelivery, subscribe/unsubscribe/close/connect/heartbeat handlers | see below |
| `ClientPublish` | the publish side of `stan.go` | `closed`, `ackMap`, `tset`, `timer`, `pac`, `sent`, `ackQ`, and per goroutine a label `at` (see below) |
| `MC_MsgStore`, `MC_StanServer`, `MC_ClientPublish` | model values and small sets for TLC | |

`StanServer` works on a "world" record (`Cur`/`Commit`), so that a handler is literally the composition of the Go helpers it calls: `SendMsgToSub`, `SendAvailable`, `FindBestQueueSub`, `SendMsgToQueueGroup`, `SendAvailableToQueue`, `ProcessMsg`, `PerformRedelivery` (`RedeliverLoop`, `RedeliverPlain`, `RedeliverQueue`, `ResetCaptured`, `NilField`), `RemoveSub`, `ClearAckTimer`, `ProcessAck`, `SendFromSequence`, `StartDelivery`, `RemoveAllNonDurable`.

The actions are:
- `Connect`, `HeartbeatOk`, `HeartbeatFailed`, `Publish`;
- `SubscribeRejected`, `SubscribeReattach`, `SubscribeNew`, `SubscribeTimePanic`, `SubscribeStart`;
- `Unsubscribe`, `UnsubscribeRejected`, `CloseClient`, `CloseBlocked`;
- `ClientAck`, `AckTimerFires`, `OrphanTimerFires`, `Tick`.

Correspondence to the code:
- **Subscribe is two actions.** `processSubscriptionRequest` runs on the subscribe goroutine but does not hold the subStore between `subStore.Store` (line 1086) and the start-position switch (1116-1127), and publishes run meanwhile. It is therefore split into the part up to `client.AddSub` (`SubscribeNew` / `SubscribeReattach`) and the rest (`SubscribeStart`). `subReq` carries the request between them.
- **The other handlers are one action each.** Each holds the locks that serialise its effect on the state it shares; for example, fan-out holds `ss.RLock` and each sub's lock while sending.
- **Timers.** `sub.ackTimer` is `Nil`, `Idle` (fired or stopped, still referenced) or `Armed(deadline)`. Armed timers that no field refers to any more (after `sub.ackTimer = nil`, lines 755/759) are kept in the bag `orphans[s]`. They still fire and run the same callback, which captures whatever `sub.ackTimer` holds then. `ResetCaptured` models `ackTimer.Reset` on that captured object: on nil it sets `panicked`, and after a panic nothing is enabled.
- **Heartbeats.** `checkClientHealth` holds `client.Lock` and defers `closeClient`, which runs before the deferred unlock and blocks on `client.RLock`. `HeartbeatFailed` past `MaxFailedHB` puts the client in `hbStuck`. A close request for it is `CloseBlocked`, which blocks the close-request subscription for good (`closeStuck`). The blocked redelivery goroutines are modelled by `PerformRedelivery` doing nothing while `fhb # 0`.
- **TimeDeltaStart.** `startTimeValid` (line 1227) reads `FirstMsg().Timestamp`; on an empty channel that is a nil dereference, the action `SubscribeTimePanic`. Otherwise the request is rejected unless `now - delta` lies between the first and last timestamps (`StartValid`), and `SubscribeStart` searches from a second reading of the clock (line 1122), which may have moved on (`Tick` between the halves). `SearchTs` is `sort.Search` as the code calls it; `SearchFindsStart` checks it against the linear `FirstAtOrAfter` in every store the `msgstore` run reaches. Timestamps come from `time.Now()` in `Store`; the model assumes the clock does not step back.
- **Transport errors.** Every `nc.Publish` of delivery may fail. A step that sends chooses `f \in FailChoice`, the sequence whose publish fails in that step (0: none), while `sendErrs < MaxSendErrs`. The code's error paths then apply:
  - `sendMsgToSub` restores `lastSent` and returns false (lines 790-795): no stall, nothing in flight, no timer;
  - a plain redelivery breaks its loop after nilling `sub.ackTimer` (759-764);
  - queue redelivery ignores the result (756), so the message is in nobody's `acksPending`.
- **lastSent.** It is a uint64, kept modulo `Word = 2^Width` (`NextSeq`, `SendFromSequence`).
- **History variables.** `fresh`, `redeliv`, `acked` and `startAt` record what subscribers were sent, what they acked and what they asked for, so the properties can state delivery guarantees. `startAt` is the first sequence the start position asks for (`Intended`, spec.md 4.5), evaluated on the store as `SubscribeStart` sees it; `StartRespected` compares the fresh sends with it.
- **The client library** appears in `StanServer` only as the holder of handles (`handle`). It acks only messages of a subscription it holds (`ClientAcks`, `conn.processMsg`), unsubscribes only subscriptions it holds, and `Close` drops its handles (`DropHandles`, `stan.go` 190-232). `Received` does not tell connections apart, so after a re-attach the model may ack a message the earlier connection received before it is redelivered; this adds behaviours, and no counterexample of the violation runs uses it.
- **Helpers as the code names them.** `LookupOrCreate`, `LookupByDurable`, `LookupByAckInbox`, `StoreSub` (`subStore.Store`) and `SortedMsgs` (`makeSortedMsgs`) are the channelMap and subStore calls the handlers make.

`ClientPublish` is a goroutine-level model. The goroutines are each publish's publisher (`<<"pub", g>>`), the callback of its timer (`<<"tmr", g>>`) and the ack subscription's goroutine (`AckG`, which handles acks one at a time in arrival order). A step is what the code does between two points where another goroutine can run:
- `PublishStart` (lock, map the guid, unlock, lines 286-297), `PublishToken` (`pac <-`, blocks while the channel is full), `PublishSend` (`PublishRequest`), `PublishFailed` (its error path: `removeAck`, return the error), `PublishArm` (`a.t = AfterFunc` under the lock);
- `removeAck` as three steps shared by all goroutines: `RemoveLock` (read and delete the entry), `RemoveStop` (`a.t.Stop()` outside the lock, so it can miss a timer not yet assigned or already firing), `RemoveDrain` (`<-pac` if the entry was found and `len(pac) > 0`);
- `CallHandler`: the handler `ah`. For `PublishWithReply` it is `ch <- err` on an unbuffered channel: a rendezvous with the waiting publisher, and a send that blocks for ever once the publisher has returned;
- `ServerAck` / `AckLost` (the server answers or the ack is lost), `AckReceive`, `TimerFires`, `Close` (`nc = nil`, the ack subscription is dropped with its queued acks).

## 3. Runs

Passing runs (all actions and all disjuncts of the `Next` relations fire across them):

| Run | Bounds | Properties | Shows |
|---|---|---|---|
| `msgstore` (`MsgStore.cfg`) | limit 3, 6 publishes, timestamps 0..3 (non-decreasing) | `TypeOK`, `Density`, `SearchFindsStart`, `LogSpec` | Store is dense within the limit; the binary search returns the first sequence at or after every time, wrapped stores and equal timestamps included; the store refines `MessageLog` (210 states) |
| `queue` (`Queue.cfg`) | 1 client, 2 subs, one group (subs plain or queue), 2 messages, clock 0..1, AckWait 1, maxInFlight 1 or 2, LastReceived | `TypeOK`, `InFlightCap`, `QueueNoLostWakeup`, `QueueExclusive` | group load balancing between members with equal and unequal caps, group stall/resume, redelivery to the best member (1.77M states) |
| `durable` (`Durable.cfg`) | 1 client, 1 durable sub, maxInFlight 1 or 2, First/SequenceStart, clock 0..2, one failing publish | `MonotonicDelivery`, `NoSkippedMessage` | close, reconnect, re-attach with durable redelivery, orphaned timers, unsubscribe of durables, and failed sends and redeliveries; fresh sends stay in order, and a failed `nc.Publish` puts `lastSent` back (server.go:790), so `lastSent` never passes a message the durable was not sent (159k states) |
| `delivery` (`Delivery.cfg`) | 1 plain sub, 3 messages, maxInFlight 1 or 2, every start but LastReceived, under `FairSpec` | `TypeOK`, `InFlightCap`, `NoLostWakeup`, `EventuallyDelivered` | flow control and stall/resume under publishes, acks, redelivery, close, heartbeats and time-based starts; at-least-once: every stored message at or after a settled subscriber's start is eventually received while it holds its handle (29k states) |
| `clientpublish` (`ClientPublish.cfg`) | 3 publishes (2 of them `PublishWithReply`), `MaxPubAcksInflight` 1, under `FairSpec` | `TypeOK`, `PubAckFlowControl`, `PublishReturns` | with lost acks, timers racing acks and Close, no more than `MaxPubAcksInflight` publishes are outstanding, and every `PublishWithReply` returns (97k states) |

Violation runs, each a finding in `PROJECT.json`:

| Run | Property | What TLC shows |
|---|---|---|
| `monotonic` | `MonotonicDelivery` | publish between the halves of a First subscribe; the rewind resends message 1 as new |
| `panic` | `NoPanic` | three unacked messages at t=0,1,2 (AckWait 2): plain redelivery nils `ackTimer` and re-arms nothing, an orphaned timer then calls `Reset` on nil, and the server panics |
| `ack_routable` | `AckRoutable` | a re-attached durable's new ackInbox is not in `ss.acks` |
| `durable_bound` | `BindingHeld` | a durable is unsubscribed (its durables entry survives, line 226), re-attached, and its client closes before the subscribe handler ends: the re-attached durable is not in `client.subs` (line 1089), so Close leaves it bound to a client that is gone, and every later re-attach is refused |
| `durable_start` | `StartRespected` | two publishes, then a new durable asks for SequenceStart 2: `SubscribeStart` takes the durable branch ("If we are a durable and have state", line 1107), skips the start-position switch and sends messages 1 and 2 from `lastSent` 0 |
| `queue_loss` | `QueueNoLoss` | a member leaving with messages in flight loses them |
| `double_ack` | `AckHandlerOnce` | the ack is handled, and before `removeAck` stops the timer it fires; both call the handler, and the second `ch <- err` of `PublishWithReply` blocks for ever |

Two more counterexamples have a cfg beside the runs but no run of their own (the number of runs is capped, and the findings above took the slots). Both break `EventuallyDelivered`, which the `delivery` run checks in the configurations where it holds:
- `LastReceived.cfg`: subscribe LastReceived on an empty channel; `sendMessagesFromSequence` sets `lastSent = 0 - 1` (7 with `Width = 3`, 2^64-1 in the code, "FIXME(dlc) - wrap?"), and message 1, published next, is never sent (line 1251).
- `SendError.cfg`: subscribe from First, then a publish whose send to the inbox fails: nothing stalls, nothing is in flight, no timer is armed, and with no later publish the message is never sent (lines 790-795). spec.md 4.7 calls such errors transient and says delivery "resumes on next trigger", so this is a gap in the spec rather than a plain bug.

Other code defects met while modelling are reachable in the model and are listed as hazards in `PROJECT.json` without a run of their own:
- the heartbeat's deferred `closeClient` deadlocks on the client lock, and a later close request blocks for ever (`CloseBlocked`); this also breaks `BindingHeld`;
- an invalid SequenceStart re-attach leaves the durable bound to a client that got an error (also `BindingHeld`);
- a failed publish of a redelivery leaves the rest of `acksPending` with no timer;
- a TimeDeltaStart subscribe on an empty channel panics (`SubscribeTimePanic`, reachable in `delivery`);
- a detached durable stays in `psubs` and keeps being sent messages;
- a durable re-attached by a connection that has missed a heartbeat is not redelivered what it had in flight, and its timer was stopped at close, so those messages wait for the next re-attach (server.go:697);
- an emptied non-durable queue group is never deleted, so a later group of that name resumes from the old `lastSent`;
- every ack that leaves messages in flight pushes the ack timer a full AckWait out ("FIXME(dlc) - This should be to next expiration"), postponing the redelivery of an older message; a repeated ack does it too, so acks are not idempotent as spec.md 8 states (messages 1 and 2 in flight from t=0, AckWait 2: acking 1 again at t=1 moves the deadline from 2 to 3);
- retention can evict the next message a stalled subscriber needs;
- a NewOnly member of a new queue group does not start from the group's last message.

Each passing property has a mutant in `PROJECT.json`, a variant of the code's operator that TLC finds violating it:
- server: an off-by-one cap, a stall flag read after it is cleared, a stalled queue member resumed from its own `lastSent`, a missing stall mark, a durable rewound by its start position, a failed send that leaves `lastSent` at the unsent message, a close without the heartbeat guard, store slips, a search with `>` for `>=`, a delivery loop that sends one message and stops;
- client: a token taken without waiting, a token given back although `removeAck` found nothing, a publisher that waits on `ch` after a failed send.

Why the bounds are enough:
- Two messages and `maxInFlight = 1` reach stall, ack-resume, redelivery and queue balancing.
- Two subs reach both two plain subscribers and a two-member queue group, whose members may have caps 1 and 2.
- One failing publish (`MaxSendErrs = 1`) reaches a failed fresh send, a failed durable redelivery and a failed re-attach redelivery; a second one adds nothing the first does not.
- A clock of 0..1 with `AckWait = 1` lets timers expire (plain, queue). The durable run's clock of 0..2 also lets them be reset and orphaned.
- The panic needs three distinct timestamps and `AckWait = 2`, and its run has them.
- `Width = 3` makes `Word = 8 > MaxSeq + 1`, so wrap is only reached through `0 - 1`, as in the code.
- The search run's stores of up to three messages over four times, after up to six publishes, include every order of equal and distinct timestamps and a `first` past 1.
- Three publishes with one token make a publisher wait for a token held by another, and let an ack, a timeout and a failed send of different publishes interleave. One publish suffices for the double call.

## 4. Fairness and liveness

Deadlock checking is off (`CHECK_DEADLOCK FALSE`) in every run. The model stops when its bounds on publishes, the clock and subscription identities are used up, after a panic, and when the heartbeat deadlock of the code has blocked the only client. The code's own deadlocks are checked through what they leave behind (`BindingHeld`, `AckHandlerOnce`), not through TLC's deadlock check.

`StanServer!FairSpec` assumes only what the code does on its own:
- `WF SubscribeStart`: the subscribe goroutine that has stored its sub runs on to the start-position switch.
- `AutoAck`, weak fairness of `ClientAck` for each sub and message: `conn.processMsg` (stan.go 386-396) publishes the ack right after the callback unless the subscription uses manual acks.

Publishes, subscribes, closes, heartbeats and the clock get no fairness; `EventuallyDelivered` therefore only asks for delivery while the subscriber holds its handle. A timer need not fire either: the auto-ack alone drains the in-flight set. The transport's failures are not constrained by fairness; `SendError.cfg` shows that a single one defeats `EventuallyDelivered`.

`ClientPublish!FairSpec` makes every started goroutine step on (weak fairness of the publisher's steps, the `removeAck` steps, the handler call, the ack goroutine and each armed timer) and takes strong fairness of `PublishToken`: a sender blocked on a full buffered channel is woken when a token is given back, although another receive may take it first. Publishing, the server's answer and Close are the environment's.

## 5. Not modelled, and why

- **Validation in the handlers** (unmarshal, AckWait, subject, clientID). These checks return errors before any state changes. Wildcard subjects and bad requests carry no state.
- **A wall clock that steps back.** `Store` timestamps with `time.Now()`; the model keeps them non-decreasing, which `sort.Search` needs.
- **Lost subscription responses** (line 1105 ignores the publish error): `SubscribeStart` hands the client its handle whenever the client is registered. Lost deliveries are modelled only as a failing publish, never as a message the transport accepts and drops, so a subscriber always has the first copy of what it was sent.
- **Multiple channels.** Channels share only the client registry.
- **clientStore.** Its code is not in the repository. `Register`/`Unregister`/`AddSub`/`RemoveSub` are modelled from spec.md. Whether `AddSub`/`RemoveSub` block on a client held by a stuck heartbeat is unknown.
- **Client subscription side and Connect** (`unnamed/part_000`, `Connect`): the handshake's only state is the connection both models start from; the subscription API is represented by the server model's handles and the auto-ack fairness.
- **Other parts.** Bootstrap, logging, shutdown, the monitor tests and `stores/common.go`: a generic store API that nothing in the repository calls; the concrete stores that embed it and the server that would use it are not in `src/`, so no behaviour of this code could be checked against a caller.

## 6. Plan for the next sittings

1. Runs for the defects that now have only a cfg or a hazard note: the LastReceived wrap (`LastReceived.cfg`), the failed send (`SendError.cfg`) and spec.md 8's ack idempotence. Each needs a run slot, which today go to the findings of section 3.
2. A lock-level module of the queue path: the `qs.subs` data race between `Remove` and `sendAvailableMessagesToQueue`, and `performRedelivery` split at its lock boundaries (the unlocked `sub.ackTimer = nil`).
3. Requests reordered across handlers (a subscribe handled after its client's close), and a lost SubscriptionResponse (line 1105).
4. Composing `ClientPublish` with the server's publish handler, so that a wedged ack subscription shows as publishes that only time out.

spec.md 8's queue fairness ("delivered to a member with the smallest in-flight count") is not planned as a property: in this code it is the choice `FindBestQueueSub` makes, and a property would restate it. What depends on that choice, a stall while another member has room (line 580), is checked by `QueueNoLostWakeup`.
