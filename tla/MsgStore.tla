------------------------------ MODULE MsgStore ------------------------------
(***************************************************************************)
(* The in-memory per-channel message store of src/server.go (type         *)
(* msgStore): a map from sequence to message with the first and last      *)
(* sequence, and count-based FIFO retention in Store.                      *)
(*                                                                         *)
(* A message is immutable once stored and is identified by its sequence;  *)
(* the only field any decision of the server reads is its timestamp, so   *)
(* the map is modelled by its key set `msgs' and the timestamp of every   *)
(* sequence ever assigned, `ts'.  Store is a pure operator on the store   *)
(* record so that the server module can use it inside its handlers.       *)
(***************************************************************************)
EXTENDS Integers, Sequences, FiniteSets

CONSTANTS MaxMsgs,    \* DefaultMsgStoreLimit
          Times,      \* the clock values a timestamp can take
          MaxSeq      \* bound on the sequences assigned in a model run

ASSUME MaxMsgs \in Nat \ {0}

\* channelMap.New: a fresh store has first = 1, last = 0 and no messages.
EmptyStore == [first |-> 1, last |-> 0, msgs |-> {}, ts |-> <<>>]

\* Faulty variants of msgStore.Store, each a slip the properties below
\* must reject: last not advanced, first not advanced on eviction, and an
\* eviction one message early.
StoreMsgKeepLast(st, now) ==
    [st EXCEPT !.msgs = @ \cup {st.last + 1}, !.ts = Append(@, now)]

StoreMsgKeepFirst(st, now) ==
    LET seq == st.last + 1 IN
    [st EXCEPT !.last = seq, !.ts = Append(@, now),
               !.msgs = IF Cardinality(@ \cup {seq}) > MaxMsgs
                        THEN (@ \cup {seq}) \ {st.first} ELSE @ \cup {seq}]

StoreMsgEarlyEvict(st, now) ==
    LET seq == st.last + 1 IN
    IF Cardinality(st.msgs \cup {seq}) >= MaxMsgs /\ st.msgs # {}
    THEN [st EXCEPT !.last = seq, !.msgs = (@ \cup {seq}) \ {st.first},
                    !.first = @ + 1, !.ts = Append(@, now)]
    ELSE [st EXCEPT !.last = seq, !.msgs = @ \cup {seq}, !.ts = Append(@, now)]

\* msgStore.Store: assign last+1, stamp it with the current time, and when
\* the map holds more than the limit, delete the message at `first' and
\* advance `first'.
StoreMsg(st, now) ==
    LET seq  == st.last + 1
        msgs == st.msgs \cup {seq}
    IN  IF Cardinality(msgs) > MaxMsgs
        THEN [st EXCEPT !.last = seq, !.msgs = msgs \ {st.first},
                        !.first = @ + 1, !.ts = Append(@, now)]
        ELSE [st EXCEPT !.last = seq, !.msgs = msgs, !.ts = Append(@, now)]

\* msgStore.Lookup: the message with that sequence, if still stored.
Lookup(st, seq) == seq \in st.msgs

\* Faulty variant of the search below: the predicate uses > for >=.
RECURSIVE SearchTsStrict(_, _, _, _)
SearchTsStrict(st, t, i, j) ==
    IF i >= j THEN i
    ELSE LET h == (i + j) \div 2 IN
         IF ~(st.ts[h + st.first] > t) THEN SearchTsStrict(st, t, h + 1, j)
         ELSE SearchTsStrict(st, t, i, h)

\* sort.Search(len(msgs), f) in sendMessagesToSubFromTime, with
\* f(i) = msgs[i + first].Timestamp >= t: the smallest index in i..j at
\* which f holds, assuming f is false then true along the indexes.
RECURSIVE SearchTs(_, _, _, _)
SearchTs(st, t, i, j) ==
    IF i >= j THEN i
    ELSE LET h == (i + j) \div 2 IN
         IF ~(st.ts[h + st.first] >= t) THEN SearchTs(st, t, h + 1, j)
         ELSE SearchTs(st, t, i, h)

\* sendMessagesToSubFromTime: the start sequence is the index found plus
\* first (last + 1 when every message is older than t).
StartSeqFromTime(st, t) == SearchTs(st, t, 0, Cardinality(st.msgs)) + st.first

\* startTimeValid on a channel with messages: t lies between the
\* timestamps of FirstMsg and LastMsg.  (On an empty channel both are nil
\* and the code dereferences them.)
TimeInRange(st, t) == st.ts[st.first] <= t /\ t <= st.ts[st.last]

\* The reference the search is checked against (spec.md 2, GetSequence-
\* FromTimestamp): the first retained sequence stamped at or after t, or
\* last + 1 when there is none.
FirstAtOrAfter(st, t) ==
    LET later == { q \in st.msgs : st.ts[q] >= t } IN
    IF later = {} THEN st.last + 1
    ELSE CHOOSE q \in later : \A p \in later : q <= p

-----------------------------------------------------------------------------
(* The store on its own, driven by publishes at arbitrary times.           *)

VARIABLE store

Init == store = EmptyStore

\* time.Now() as the server reads it for the stamp; the clock is taken not
\* to step back (see the README on wall-clock steps).
Publish(t) ==
    /\ store.last < MaxSeq
    /\ \A i \in DOMAIN store.ts : store.ts[i] <= t
    /\ store' = StoreMsg(store, t)

Next == \E t \in Times : Publish(t)

Spec == Init /\ [][Next]_store

TypeOK ==
    /\ store.first \in Nat \ {0}
    /\ store.last \in Nat
    /\ store.msgs \subseteq 1..store.last
    /\ store.ts \in Seq(Times)

\* Sequence density (spec.md 8): Lookup succeeds exactly on first..last, so
\* a subscriber walking forward from first never meets a hole, and the
\* count never exceeds the retention limit (msgStore.Store).
Density ==
    /\ store.msgs = store.first..store.last
    /\ Cardinality(store.msgs) <= MaxMsgs

\* Start by time (spec.md 4.5, TimeDeltaStart): for every start time the
\* binary search of sendMessagesToSubFromTime finds the first retained
\* message stamped at or after it, over any history of publishes and
\* evictions.
SearchFindsStart ==
    \A t \in Times : StartSeqFromTime(store, t) = FirstAtOrAfter(store, t)

\* The store implements the abstract log: its keys are the retained window
\* and ts is the history of assigned timestamps.
Log == INSTANCE MessageLog WITH Limit <- MaxMsgs,
                                history <- store.ts,
                                retained <- store.msgs

LogSpec == Log!Spec

=============================================================================
