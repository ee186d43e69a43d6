------------------------------ MODULE EventHub ------------------------------
(***************************************************************************)
(* The server's live event hub (internal/server/event_hub.go) and the SSE  *)
(* handlers that read from it (internal/server/event_handlers.go).         *)
(*                                                                         *)
(* Runs publish events; the hub numbers them, keeps a bounded history per  *)
(* graph session and offers each event to every matching subscriber.  A    *)
(* browser reconnects with the id of the last event it saw and is either   *)
(* replayed what it missed or told that there is a gap.  A whole hub       *)
(* operation runs under one mutex, so each is one step; the hub is one     *)
(* record and its operations are operators on it.                          *)
(*                                                                         *)
(* One browser is modelled, with all the connections it opens: the handler *)
(* of an abandoned connection lives on until it notices.                   *)
(***************************************************************************)
EXTENDS Integers, FiniteSets, SequencesExt

CONSTANTS
    HubBatch,           \* sequences of events that may be published: [key, kind, size]
    HubFilter,          \* the filters a browser may ask for: [keys, kinds]
    HubLimit,           \* [kind -> entries a ring may hold]
    HubBytes,           \* [kind -> bytes a ring may hold]
    HubEventBytes,      \* a larger event has its payload omitted
    HubOmittedSize,     \* the size of an event without its payload
    HubTTL,             \* how long streaming entries are kept
    HubBuffer,          \* capacity of a subscriber's channel
    HubMaxReplay,       \* the longest replay
    HubMaxPartitions,   \* the most sessions with a history
    HubPublishBound,    \* bound: events published
    HubConnBound,       \* bound: connections opened
    HubTimeBound        \* bound: the clock

VARIABLES
    hub,        \* the EventHub: [seq, part, subs, closed]; history: log of
                \* all events, and the unmarked ones (see NoSilentLoss)
    hubClock,   \* options.now()
    conn,       \* the SSE handlers: [connection -> "none" | "streaming" | "done"]
    browser     \* [cur, filter, cursor, base, got]

hubVars == <<hub, hubClock, conn, browser>>

HubKinds == {"regular", "streaming"}
HubKeys == UNION {{batch[i].key : i \in DOMAIN batch} : batch \in HubBatch}
HubConns == 1..HubConnBound
NoPartition == [last |-> -1]
NoSub == [open |-> FALSE, queue |-> <<>>]

-----------------------------------------------------------------------------
(* Histories: eventRing, eventHistoryPartition *)

EntryBytes(ring) == FoldSeq(LAMBDA e, n : e.size + n, 0, ring)

\* Mutant: one entry too many is kept.
EvictedLate(ring, size, kind) ==
    Min({Len(ring)} \cup
        {k \in 0..Len(ring) :
            /\ Len(ring) - k <= HubLimit[kind]
            /\ EntryBytes(SubSeq(ring, k + 1, Len(ring))) + size <= HubBytes[kind]})

\* append: the oldest entries make room, whatever the ring's count and bytes.
Evicted(ring, size, kind) ==
    Min({Len(ring)} \cup
        {k \in 0..Len(ring) :
            /\ Len(ring) - k < HubLimit[kind]
            /\ EntryBytes(SubSeq(ring, k + 1, Len(ring))) + size <= HubBytes[kind]})

\* Mutant: the marker of the entries that were dropped is not advanced.
DropUnmarked(p, kind, k) ==
    [p EXCEPT !.ring[kind] = SubSeq(@, k + 1, Len(@))]

\* removeOldest k times with recordEvictionLocked.
DropOldest(p, kind, k) ==
    LET ring == p.ring[kind]
    IN  IF k = 0 THEN p
        ELSE [p EXCEPT !.ring[kind] = SubSeq(ring, k + 1, Len(ring)),
                       !.evicted = IF ring[k].id > @ THEN ring[k].id ELSE @]

EvictExpiredStreaming(p, now) ==
    DropOldest(p, "streaming",
               Cardinality({i \in DOMAIN p.ring["streaming"] :
                               p.ring["streaming"][i].at < now - HubTTL}))

\* boundedEventLocked: an oversized event loses its payload.
BoundedSize(size) == IF size <= HubEventBytes THEN size ELSE HubOmittedSize

Retain(p, e) ==
    IF e.size <= HubBytes[e.kind]
    THEN LET q == DropOldest(p, e.kind, Evicted(p.ring[e.kind], e.size, e.kind))
         IN  [q EXCEPT !.ring[e.kind] = Append(@, e)]
    ELSE [p EXCEPT !.evicted = e.id]

\* partitionLocked: the hub as it is once the session `key` has a history.  At
\* the limit the history published to least recently is dropped.  The times
\* of publication order the histories as the sequence numbers do.
WithPartition(h, key) ==
    LET held == {k \in HubKeys : h.part[k] # NoPartition}
        new  == [ring |-> [kind \in HubKinds |-> <<>>], evicted |-> 0, last |-> 0]
        oldest == CHOOSE k \in held : \A j \in held : h.part[k].last <= h.part[j].last
    IN  IF h.part[key] # NoPartition THEN h
        ELSE IF Cardinality(held) < HubMaxPartitions
        THEN [h EXCEPT !.part[key] = new]
        ELSE [h EXCEPT !.part[oldest] = NoPartition, !.part[key] = new,
                       !.unmarked = @ \cup {i \in DOMAIN h.log : h.log[i].key = oldest}]

-----------------------------------------------------------------------------
(* Subscribers *)

Matches(filter, e) == e.key \in filter.keys /\ e.kind \in filter.kinds

\* closeSubscriberLocked: the channel is closed, what it holds can be read.
CloseSub(h, c) == [h EXCEPT !.subs[c].open = FALSE]

\* A subscriber that cannot take the event is disconnected.
Offer(h, e) ==
    [h EXCEPT !.subs = [c \in HubConns |->
        LET s == h.subs[c]
        IN  IF ~s.open \/ ~Matches(s.filter, e) THEN s
            ELSE IF Len(s.queue) < s.capacity
            THEN [s EXCEPT !.queue = Append(@, e.id)]
            ELSE [s EXCEPT !.open = FALSE]]]

\* publishLocked
PublishLocked(h, input, now) ==
    LET e == [id |-> h.seq + 1, key |-> input.key, kind |-> input.kind,
              size |-> BoundedSize(input.size), at |-> now]
        g == WithPartition(h, e.key)
        p == [g.part[e.key] EXCEPT !.last = e.id]
        q == IF e.kind = "streaming" THEN EvictExpiredStreaming(p, now) ELSE p
    IN  Offer([g EXCEPT !.seq = e.id, !.log = Append(@, input),
                        !.part[e.key] = Retain(q, e)], e)

\* matchingEntriesLocked, by sequence number
MatchingEntries(h, filter) ==
    LET held == {k \in filter.keys : h.part[k] # NoPartition}
    IN  {e.id : e \in UNION {Range(h.part[k].ring[kind]) :
                               k \in held, kind \in filter.kinds}}

\* eventsAfterLocked: cursor_not_retained, cursor_expired, replay_limit_exceeded
Gap(h, filter, cursor) ==
    /\ cursor # 0
    /\ \/ cursor \notin MatchingEntries(h, filter)
       \/ \E k \in filter.keys : h.part[k] # NoPartition /\ h.part[k].evicted > cursor
       \/ Cardinality({i \in MatchingEntries(h, filter) : i > cursor}) > HubMaxReplay

\* Mutant: the replay starts at the cursor instead of behind it.
ReplayFromCursor(h, filter, cursor) ==
    IF cursor = 0 \/ Gap(h, filter, cursor) THEN {}
    ELSE {i \in MatchingEntries(h, filter) : i >= cursor}

Replay(h, filter, cursor) ==
    IF cursor = 0 \/ Gap(h, filter, cursor) THEN {}
    ELSE {i \in MatchingEntries(h, filter) : i > cursor}

-----------------------------------------------------------------------------
(* The operations of the hub *)

HubInit ==
    /\ hub = [seq |-> 0, part |-> [k \in HubKeys |-> NoPartition],
              subs |-> [c \in HubConns |-> NoSub], closed |-> FALSE,
              log |-> <<>>, unmarked |-> {}]
    /\ hubClock = 0
    /\ conn = [c \in HubConns |-> "none"]
    /\ browser = [cur |-> 0, filter |-> CHOOSE f \in HubFilter : TRUE,
                  cursor |-> 0, base |-> 0, got |-> {}]

\* Publish and PublishBatch; a closed hub ignores them.
PublishBatch(inputs) ==
    /\ ~hub.closed
    /\ hub.seq + Len(inputs) <= HubPublishBound
    /\ hub' = FoldLeft(LAMBDA h, input : PublishLocked(h, input, hubClock), hub, inputs)
    /\ UNCHANGED <<hubClock, conn, browser>>

\* Subscribe, by the handler of a new connection: expired streaming entries go
\* first, the replay fills the channel.  The first connection brings no
\* cursor, a later one the last event the browser saw.  The hub is closed
\* after the HTTP engine stopped: no request arrives then.
Subscribe(c, filter) ==
    LET swept == [hub EXCEPT !.part = [k \in HubKeys |->
                    IF k \in filter.keys /\ hub.part[k] # NoPartition
                    THEN EvictExpiredStreaming(hub.part[k], hubClock)
                    ELSE hub.part[k]]]
        missed == Replay(swept, filter, browser.cursor)
        fresh  == browser.cursor = 0 \/ Gap(swept, filter, browser.cursor)
    IN  /\ browser.cur = 0 /\ ~hub.closed
        /\ conn[c] = "none"
        /\ \A d \in HubConns : d < c => conn[d] # "none"
        /\ c > 1 => filter = browser.filter
        /\ hub' = [swept EXCEPT !.subs[c] =
                     [open |-> TRUE, filter |-> filter,
                      queue |-> SetToSortSeq(missed, <),
                      capacity |-> IF Cardinality(missed) > HubBuffer
                                   THEN Cardinality(missed) ELSE HubBuffer]]
        /\ conn' = [conn EXCEPT ![c] = "streaming"]
        /\ browser' = [browser EXCEPT !.cur = c, !.filter = filter,
                         !.base = IF fresh THEN hub.seq ELSE @,
                         !.got = IF fresh THEN {} ELSE @]
        /\ UNCHANGED <<hubClock>>

\* The handler writes the next event of its channel.  Only the current
\* connection's frames reach the browser.
HandlerWrites(c) ==
    LET e == Head(hub.subs[c].queue)
    IN  /\ conn[c] = "streaming"
        /\ hub.subs[c].queue # <<>>
        /\ hub' = [hub EXCEPT !.subs[c].queue = Tail(@)]
        /\ browser' = IF browser.cur = c
                      THEN [browser EXCEPT !.cursor = e, !.got = @ \cup {e}]
                      ELSE browser
        /\ UNCHANGED <<hubClock, conn>>

\* The handler returns, its request gone or its subscription closed, and
\* unsubscribes.  A closed subscription may be noticed before the events still
\* in its channel.
HandlerReturns(c) ==
    /\ conn[c] = "streaming"
    /\ browser.cur # c \/ ~hub.subs[c].open
    /\ hub' = CloseSub(hub, c)
    /\ conn' = [conn EXCEPT ![c] = "done"]
    /\ browser' = IF browser.cur = c THEN [browser EXCEPT !.cur = 0] ELSE browser
    /\ UNCHANGED <<hubClock>>

\* The browser loses its connection; the handler does not know yet.
BrowserDisconnects ==
    /\ browser.cur # 0
    /\ browser' = [browser EXCEPT !.cur = 0]
    /\ UNCHANGED <<hub, hubClock, conn>>

\* DeleteGraph and Close end the subscriptions; the former drops the histories
\* of all sessions of the graph, the latter makes the hub ignore events.
DeleteGraph ==
    /\ ~hub.closed
    /\ \E k \in HubKeys : hub.part[k] # NoPartition
    /\ hub' = [hub EXCEPT !.part = [k \in HubKeys |-> NoPartition],
                          !.subs = [c \in HubConns |-> CloseSub(hub, c).subs[c]]]
    /\ UNCHANGED <<hubClock, conn, browser>>

HubClose ==
    /\ ~hub.closed
    /\ hub' = [hub EXCEPT !.closed = TRUE,
                          !.subs = [c \in HubConns |-> CloseSub(hub, c).subs[c]]]
    /\ UNCHANGED <<hubClock, conn, browser>>

\* Time passes: what was published before has expired.
HubTick ==
    /\ hubClock < HubTimeBound /\ ~hub.closed
    /\ hubClock' = hubClock + HubTTL + 1
    /\ UNCHANGED <<hub, conn, browser>>

HubHandlers == \E c \in HubConns : HandlerWrites(c) \/ HandlerReturns(c)

HubNext ==
    \/ \E inputs \in HubBatch : PublishBatch(inputs)
    \/ \E c \in HubConns, filter \in HubFilter : Subscribe(c, filter)
    \/ HubHandlers
    \/ BrowserDisconnects
    \/ DeleteGraph
    \/ HubClose
    \/ HubTick

HubSpec == HubInit /\ [][HubNext]_hubVars

-----------------------------------------------------------------------------
(* Properties *)

HubTypeOK ==
    /\ hub.seq = Len(hub.log)
    /\ \A k \in HubKeys : hub.part[k] # NoPartition =>
         /\ hub.part[k].evicted \in 0..hub.seq
         /\ \A kind \in HubKinds :
              /\ Len(hub.part[k].ring[kind]) <= HubLimit[kind]
              /\ EntryBytes(hub.part[k].ring[kind]) <= HubBytes[kind]
    /\ Cardinality({k \in HubKeys : hub.part[k] # NoPartition}) <= HubMaxPartitions
    /\ conn \in [HubConns -> {"none", "streaming", "done"}]
    /\ browser.cur \in 0..HubConnBound
    /\ browser.cursor \in 0..hub.seq

\* What a browser has not been told of and is not about to be told of, though
\* it was published since the browser last started afresh.
Missed ==
    {i \in DOMAIN hub.log :
        /\ i > browser.base
        /\ Matches(browser.filter, hub.log[i])
        /\ i \notin browser.got \cup Range(hub.subs[browser.cur].queue)}

\* A browser whose connection is open and that was not told of a gap has
\* received, or has in its channel, every matching event since it first
\* connected, across reconnections, evictions, expiry and overflow; the
\* exceptions are the events of a session whose whole history partitionLocked
\* dropped, because the marker of its evictions was dropped with it.
NoSilentLoss ==
    browser.cur # 0 /\ hub.subs[browser.cur].open => Missed \subseteq hub.unmarked

\* Events reach the browser in the order of their publication and none of them
\* twice, though a replay, the live channel and abandoned handlers overlap.
DeliveredInOrder ==
    browser.cur # 0 =>
        LET ahead == <<browser.cursor>> \o hub.subs[browser.cur].queue
        IN  \A i, j \in DOMAIN ahead : i < j => ahead[i] < ahead[j]

\* No subscriber is left that nobody reads: the handlers whose browser has
\* gone, or whose subscription was closed, have returned and unsubscribed.
NoAbandonedStream ==
    \A c \in HubConns : ~(conn[c] = "streaming" /\ browser.cur # c /\ hub.subs[c].open)

\* A browser that was not told of a gap has got every event, in order and once, over
\* reconnections with Last-Event-ID, evictions and full channels.
StreamIsFaithful ==
    NoSilentLoss /\ DeliveredInOrder
=============================================================================
