------------------------------- MODULE Bus -------------------------------
(***************************************************************************)
(* The in-process message bus of the gateway (gateway/internal/bus/bus.go) *)
(* together with the part of a WebSocket connection that calls it          *)
(* (gateway/internal/ws/ws.go: subscribe, ackAll and the forwarding        *)
(* goroutine).                                                             *)
(*                                                                         *)
(* Every operation of the bus holds the mutex b.mu for its whole body, so  *)
(* each is one atomic action.  The exception is AckAcross, whose loop over *)
(* the connection's mailboxes is kept as one step per mailbox: variable    *)
(* acking is then the lock section, and no other operation of the bus runs *)
(* until it is over.                                                       *)
(***************************************************************************)
EXTENDS Integers, FiniteSets, Sequences

CONSTANTS
    Subject,      \* opaque mailbox names
    Consumer,     \* per-device consumer ids (never the empty string)
    Legacy,       \* the empty consumer id of a legacy client
    Conn,         \* WebSocket connections (slots: reused after a disconnect)
    Id,           \* client-chosen message ids
    TTLs,         \* TTLs a client may ask for
    NoAck,        \* no AckAcross holds the lock
    DefaultTTL, MaxTTL,
    MaxPending,   \* maxPendingPerSubject
    MaxConsumers, \* maxConsumersPerSubject
    EvictionFloor,\* consumerEvictionFloor
    Retention,    \* consumerRetention
    MaxTracked,   \* maxTrackedSubjects
    Headroom,     \* the 16 live slots of a delivery channel
    Horizon,      \* bound: the clock stops here
    MaxPublish    \* bound: publications in one behaviour

ASSUME LegacyAssumption == Legacy \notin Consumer

ASSUME NumberAssumption ==
    /\ TTLs \subseteq Nat
    /\ DefaultTTL \in Nat \ {0} /\ MaxTTL \in Nat \ {0}
    /\ DefaultTTL <= MaxTTL
    /\ MaxPending \in Nat \ {0} /\ MaxConsumers \in Nat \ {0}
    /\ MaxTracked \in Nat \ {0} /\ Headroom \in Nat \ {0}
    /\ EvictionFloor \in Nat /\ Retention \in Nat
    /\ Horizon \in Nat /\ MaxPublish \in Nat

ASSUME FiniteAssumption == IsFiniteSet(Subject) /\ IsFiniteSet(Consumer)

ASSUME NoAckAssumption ==
    NoAck \notin [id : Id, pairs : SUBSET (Subject \X (Consumer \cup {Legacy}))]

VARIABLES
    now,       \* the bus clock (b.now)
    closed,    \* b.closed
    lastSeen,  \* b.consumers: subject -> consumer -> last subscribe or ack
    pending,   \* b.pending: subject -> held blobs, stamped in queue order
    published, \* how many blobs have been published (stamps the next one)
    alive,     \* connections whose read loop is running
    sub,       \* c.subjects and b.subscribers: conn -> subject -> consumer id
    channel,   \* conn -> subject -> content and capacity of the Go channel
    got,       \* conn -> subject -> what the connection has read from it
    missed,    \* conn -> subject -> stamps Publish skipped (channel was full)
    acking     \* the lock section of AckAcross: what is left to ack

vars == <<now, closed, lastSeen, pending, published, alive, sub, channel,
          got, missed, acking>>

queues == <<lastSeen, pending>>
wires  == <<sub, channel, got, missed>>

-----------------------------------------------------------------------------
Absent == -1                       \* not a key of the registry map
AnyConsumer == Consumer \cup {Legacy}
NotSubscribed == {}                \* sub is {} or a singleton consumer id

Blob == [n : Nat, id : Id, expiresAt : Nat, ackedBy : SUBSET Consumer]

\* A registry with no entry: the code never keeps an empty map for a subject.
NoRegistry == [c \in Consumer |-> Absent]

Registered(ls, s) == {c \in Consumer : ls[s][c] # Absent}
Tracked(ls) == {s \in Subject : Registered(ls, s) # {}}

Attached(s) == {k \in Conn : sub[k][s] # NotSubscribed}

-----------------------------------------------------------------------------
(* Helpers of bus.go, as functions of the maps they update.                *)

\* The expiry NewMessage stamps: absent TTLs are defaulted, large ones clamped.
Expiry(ttl) ==
    now + (IF ttl <= 0 THEN DefaultTTL ELSE IF ttl > MaxTTL THEN MaxTTL ELSE ttl)

\* Mutant: the cap is tested one too late.
hold_OffByOne(q, m) ==
    LET oldest == {h \in q : \A g \in q : h.n <= g.n}
    IN  (IF Cardinality(q) > MaxPending THEN q \ oldest ELSE q) \cup {m}

\* hold: append, dropping the oldest blob of a full queue.
hold(q, m) ==
    LET oldest == {h \in q : \A g \in q : h.n <= g.n}
    IN  (IF Cardinality(q) >= MaxPending THEN q \ oldest ELSE q) \cup {m}

\* Mutant: a full registry evicts its stalest entry however recent it is.
registerConsumer_NoFloor(ls, s, c) ==
    LET reg     == Registered(ls, s)
        stalest == {d \in reg : \A e \in reg : ls[s][d] <= ls[s][e]}
    IN  IF reg = {} /\ Cardinality(Tracked(ls)) >= MaxTracked THEN {ls}
        ELSE IF c \in reg \/ Cardinality(reg) < MaxConsumers
        THEN {[ls EXCEPT ![s] = [@ EXCEPT ![c] = now]]}
        ELSE {[ls EXCEPT ![s] = [@ EXCEPT ![d] = Absent, ![c] = now]] : d \in stalest}

\* registerConsumer: the registries it may leave.  Which of several equally
\* stale consumers is evicted depends on Go's map iteration order.
registerConsumer(ls, s, c) ==
    LET reg     == Registered(ls, s)
        stalest == {d \in reg : \A e \in reg : ls[s][d] <= ls[s][e]}
        refused == \/ reg = {} /\ Cardinality(Tracked(ls)) >= MaxTracked
                   \/ /\ c \notin reg /\ Cardinality(reg) >= MaxConsumers
                      /\ \E d \in stalest : now - ls[s][d] < EvictionFloor
        fits    == c \in reg \/ Cardinality(reg) < MaxConsumers
    IN  IF refused THEN {ls}
        ELSE IF fits THEN {[ls EXCEPT ![s] = [@ EXCEPT ![c] = now]]}
        ELSE {[ls EXCEPT ![s] = [@ EXCEPT ![d] = Absent, ![c] = now]] : d \in stalest}

\* Mutant: an idle registry lingers until its consumers expire.
pruneConsumerRegistry_Never(ls, s, listeners, q) == ls

\* pruneConsumerRegistry: a mailbox nobody listens to and nothing waits in.
pruneConsumerRegistry(ls, s, listeners, q) ==
    IF listeners = {} /\ q = {} THEN [ls EXCEPT ![s] = NoRegistry] ELSE ls

\* Mutant: the first ack drops the blob for everybody.
dropFullyAcked_FirstAck(q, reg) ==
    {h \in q : reg = {} \/ \A c \in reg : c \notin h.ackedBy}

\* dropFullyAcked: keep what some registered consumer has not acked; with no
\* registered consumer everything is kept.
dropFullyAcked(q, reg) ==
    {h \in q : reg = {} \/ \E c \in reg : c \notin h.ackedBy}

\* The blobs of a set in the order of the queue.
Queued(q) ==
    CHOOSE f \in [1..Cardinality(q) -> q] :
        \A i, j \in 1..Cardinality(q) : i < j => f[i].n < f[j].n

\* Mutant: a fixed-size channel truncates the flush.
Flush_Truncated(q, c) ==
    LET all == Queued({h \in q : c \notin h.ackedBy})
    IN  SubSeq(all, 1, IF Len(all) < Headroom THEN Len(all) ELSE Headroom)

\* What Subscribe loads into a fresh channel, oldest first.
Flush(q, c) == Queued({h \in q : c \notin h.ackedBy})

Wire(h) == [n |-> h.n, id |-> h.id]

-----------------------------------------------------------------------------
Init ==
    /\ now = 0
    /\ closed = FALSE
    /\ lastSeen = [s \in Subject |-> NoRegistry]
    /\ pending = [s \in Subject |-> {}]
    /\ published = 0
    /\ alive = Conn
    /\ sub = [k \in Conn |-> [s \in Subject |-> NotSubscribed]]
    /\ channel = [k \in Conn |-> [s \in Subject |-> [buf |-> <<>>, cap |-> 0]]]
    /\ got = [k \in Conn |-> [s \in Subject |-> <<>>]]
    /\ missed = [k \in Conn |-> [s \in Subject |-> {}]]
    /\ acking = NoAck

Unlocked == acking = NoAck

\* A channel a live publication would still fit in.
HasRoom(k, s) == Len(channel[k][s].buf) < channel[k][s].cap

\* Publish: a non-blocking send to every attached channel, then the hold.
Publish(s, id, ttl) ==
    LET m == [n |-> published, id |-> id, expiresAt |-> Expiry(ttl), ackedBy |-> {}]
        reached == {k \in Attached(s) : HasRoom(k, s)}
    IN  /\ Unlocked /\ ~closed
        /\ published < MaxPublish
        /\ published' = published + 1
        /\ channel' = [k \in Conn |->
              IF k \in reached
              THEN [channel[k] EXCEPT ![s].buf = Append(@, Wire(m))]
              ELSE channel[k]]
        /\ missed' = [k \in Conn |->
              IF k \in Attached(s) \ reached
              THEN [missed[k] EXCEPT ![s] = @ \cup {m.n}]
              ELSE missed[k]]
        /\ pending' = IF Registered(lastSeen, s) # {} \/ reached = {}
                      THEN [pending EXCEPT ![s] = hold(@, m)]
                      ELSE pending
        /\ UNCHANGED <<now, closed, lastSeen, alive, sub, got, acking>>

\* Attach a channel loaded with the flush; it joins the list under the lock.
Attach(k, s, c, q) ==
    LET flush == Flush(q, c)
    IN  /\ sub' = [sub EXCEPT ![k][s] = {c}]
        /\ channel' = [channel EXCEPT ![k][s] =
               [buf |-> [i \in 1..Len(flush) |-> Wire(flush[i])],
                cap |-> Len(flush) + Headroom]]
        /\ got' = [got EXCEPT ![k][s] = <<>>]
        /\ missed' = [missed EXCEPT ![k][s] = {}]

\* Subscribe with a consumer id: register, re-flush what it has not acked.
SubscribeConsumer(k, s, c) ==
    /\ Unlocked /\ ~closed
    /\ k \in alive /\ sub[k][s] = NotSubscribed
    /\ lastSeen' \in registerConsumer(lastSeen, s, c)
    /\ Attach(k, s, c, pending[s])
    /\ UNCHANGED <<now, closed, pending, published, alive, acking>>

\* Subscribe without one: flush everything, and forget it only when no
\* registered consumer has a cursor on the mailbox.
SubscribeLegacy(k, s) ==
    /\ Unlocked /\ ~closed
    /\ k \in alive /\ sub[k][s] = NotSubscribed
    /\ Attach(k, s, Legacy, pending[s])
    /\ pending' = IF Registered(lastSeen, s) = {}
                  THEN [pending EXCEPT ![s] = {}] ELSE pending
    /\ UNCHANGED <<now, closed, lastSeen, published, alive, acking>>

\* The forwarding goroutine takes one blob off the channel.
Receive(k, s) ==
    /\ k \in alive
    /\ channel[k][s].buf # <<>>
    /\ channel' = [channel EXCEPT ![k][s].buf = Tail(@)]
    /\ got' = [got EXCEPT ![k][s] = Append(@, Head(channel[k][s].buf))]
    /\ UNCHANGED <<now, closed, queues, published, alive, sub, missed, acking>>

\* The read loop returns: the connection's context is cancelled, and one
\* goroutine per subscription will detach its channel.
Disconnect(k) ==
    /\ k \in alive
    /\ alive' = alive \ {k}
    /\ UNCHANGED <<now, closed, queues, published, wires, acking>>

\* detach: close the channel, leave the list, prune an idle registry.
detach(k, s) ==
    /\ Unlocked
    /\ k \notin alive /\ sub[k][s] # NotSubscribed
    /\ sub' = [sub EXCEPT ![k][s] = NotSubscribed]
    /\ channel' = [channel EXCEPT ![k][s] = [buf |-> <<>>, cap |-> 0]]
    /\ got' = [got EXCEPT ![k][s] = <<>>]
    /\ missed' = [missed EXCEPT ![k][s] = {}]
    /\ lastSeen' = pruneConsumerRegistry(lastSeen, s, Attached(s) \ {k}, pending[s])
    /\ UNCHANGED <<now, closed, pending, published, alive, acking>>

\* A new connection takes a free slot.
Connect(k) ==
    /\ k \notin alive
    /\ \A s \in Subject : sub[k][s] = NotSubscribed
    /\ alive' = alive \cup {k}
    /\ UNCHANGED <<now, closed, queues, published, wires, acking>>

\* ackAll and the head of AckAcross: one Ack frame acks the id in every
\* mailbox of the connection.
AckAcross(k, id) ==
    LET pairs == {p \in Subject \X AnyConsumer : p[2] \in sub[k][p[1]]}
    IN  /\ Unlocked /\ ~closed
        /\ k \in alive /\ pairs # {}
        /\ acking' = [id |-> id, pairs |-> pairs]
        /\ UNCHANGED <<now, closed, queues, published, alive, wires>>

AfterPair(p) ==
    acking' = IF acking.pairs = {p} THEN NoAck
              ELSE [acking EXCEPT !.pairs = @ \ {p}]

\* ackLocked for a legacy pair: ignored under a registry, else dropMessage.
AckLegacy(p) ==
    /\ p[2] = Legacy
    /\ pending' = IF Registered(lastSeen, p[1]) = {}
                  THEN [pending EXCEPT ![p[1]] = {h \in @ : h.id # acking.id}]
                  ELSE pending
    /\ UNCHANGED lastSeen

Mark(q, id, c) ==
    {IF h.id = id THEN [h EXCEPT !.ackedBy = @ \cup {c}] ELSE h : h \in q}

\* Mutant: the empty consumer id is treated as a consumer of its own.
AckConsumer_EmptyToo(p) ==
    \E ls \in registerConsumer(lastSeen, p[1], p[2]) :
        LET rest == dropFullyAcked(Mark(pending[p[1]], acking.id, p[2]),
                                   Registered(ls, p[1]))
        IN  /\ pending' = [pending EXCEPT ![p[1]] = rest]
            /\ lastSeen' = pruneConsumerRegistry(ls, p[1], Attached(p[1]), rest)

\* ackLocked for a registered pair: refresh the cursor, mark every copy of the
\* id, drop what everybody acked, prune.
AckConsumer(p) ==
    /\ p[2] # Legacy
    /\ \E ls \in registerConsumer(lastSeen, p[1], p[2]) :
          LET rest == dropFullyAcked(Mark(pending[p[1]], acking.id, p[2]),
                                     Registered(ls, p[1]))
          IN  /\ pending' = [pending EXCEPT ![p[1]] = rest]
              /\ lastSeen' = pruneConsumerRegistry(ls, p[1], Attached(p[1]), rest)

ackLocked(p) ==
    /\ ~Unlocked /\ p \in acking.pairs
    /\ AckLegacy(p) \/ AckConsumer(p)
    /\ AfterPair(p)
    /\ UNCHANGED <<now, closed, published, alive, wires>>

\* sweep: expire blobs, then silent consumers, then drop and prune again.
Unexpired(s) == {h \in pending[s] : h.expiresAt > now}
Recent(s) == [c \in Consumer |->
    IF lastSeen[s][c] # Absent /\ now - lastSeen[s][c] > Retention
    THEN Absent ELSE lastSeen[s][c]]
Swept(s) == dropFullyAcked(Unexpired(s), {c \in Consumer : Recent(s)[c] # Absent})

sweep ==
    /\ Unlocked
    /\ pending' = [s \in Subject |-> Swept(s)]
    /\ lastSeen' = [s \in Subject |->
           IF Attached(s) = {} /\ Swept(s) = {} THEN NoRegistry ELSE Recent(s)]
    /\ UNCHANGED <<now, closed, published, alive, wires, acking>>

\* Close: every channel leaves the lists (what it holds can still be read) and
\* both maps are emptied.  c.subjects keeps its entries.
Close ==
    /\ Unlocked /\ ~closed
    /\ closed' = TRUE
    /\ pending' = [s \in Subject |-> {}]
    /\ lastSeen' = [s \in Subject |-> NoRegistry]
    /\ UNCHANGED <<now, published, alive, wires, acking>>

Tick ==
    /\ now < Horizon
    /\ now' = now + 1
    /\ UNCHANGED <<closed, queues, published, alive, wires, acking>>

Next ==
    \/ \E s \in Subject, id \in Id, ttl \in TTLs : Publish(s, id, ttl)
    \/ \E k \in Conn, s \in Subject, c \in Consumer : SubscribeConsumer(k, s, c)
    \/ \E k \in Conn, s \in Subject : SubscribeLegacy(k, s)
    \/ \E k \in Conn, s \in Subject : Receive(k, s)
    \/ \E k \in Conn : Disconnect(k)
    \/ \E k \in Conn, s \in Subject : detach(k, s)
    \/ \E k \in Conn : Connect(k)
    \/ \E k \in Conn, id \in Id : AckAcross(k, id)
    \/ \E p \in Subject \X AnyConsumer : ackLocked(p)
    \/ sweep
    \/ Close
    \/ Tick

Spec == Init /\ [][Next]_vars

-----------------------------------------------------------------------------
(* Properties.                                                             *)

\* Every variable has the shape of the Go field it stands for: registry times
\* and stamps are in the past, ackedBy never holds the empty consumer id.
TypeOK ==
    /\ now \in Nat /\ closed \in BOOLEAN /\ published \in Nat
    /\ lastSeen \in [Subject -> [Consumer -> Nat \cup {Absent}]]
    /\ pending \in [Subject -> SUBSET Blob]
    /\ alive \subseteq Conn
    /\ sub \in [Conn -> [Subject -> SUBSET AnyConsumer]]
    /\ acking \in [id : Id, pairs : SUBSET (Subject \X AnyConsumer)] \cup {NoAck}

\* The memory caps of the bus hold in every state: queue, registry and number
\* of tracked mailboxes, and no blob outlives MaxTTL from now ("every held
\* blob is eventually reaped", bus.go:48-50).
Bounded ==
    /\ \A s \in Subject :
          /\ Cardinality(pending[s]) <= MaxPending
          /\ Cardinality(Registered(lastSeen, s)) <= MaxConsumers
          /\ \A h \in pending[s] : h.expiresAt <= now + MaxTTL
    /\ Cardinality(Tracked(lastSeen)) <= MaxTracked

\* "Idle mailboxes are dropped at once" (bus.go:85-88): whatever emptied the
\* queue or detached the last channel also dropped the consumer registry.
IdleRegistryPruned ==
    \A s \in Subject :
        Registered(lastSeen, s) # {} => Attached(s) # {} \/ pending[s] # {}

\* Everything that went into the channel of k, oldest first.
ChannelLog(k, s) == got[k][s] \o channel[k][s].buf

\* The invariants claimed for the flush (bus.go:267-276): a subscriber sees its
\* backlog before live traffic and in publication order, and a held blob it has
\* not acked is in its channel unless the channel was full when it was sent.
BacklogCompleteAndFirst ==
    \A k \in Conn, s \in Subject : \A c \in sub[k][s] :
        LET log == ChannelLog(k, s)
        IN  /\ \A i, j \in DOMAIN log : i < j => log[i].n < log[j].n
            /\ \A h \in pending[s] : c \notin h.ackedBy =>
                  \/ \E i \in DOMAIN log : log[i].n = h.n
                  \/ h.n \in missed[k][s]

\* A held blob that a registered consumer has not acked stays held for it while
\* it stays registered: only its own ack, the blob's TTL or the overflow of the
\* queue removes it.  In particular no other consumer and no legacy client can.
HeldUntilAcked ==
    [][\A s \in Subject :
         \A c \in Registered(lastSeen, s) \cap Registered(lastSeen', s) :
           \A h \in pending[s] : c \notin h.ackedBy =>
             \/ \E g \in pending'[s] : g.n = h.n /\ c \notin g.ackedBy
             \/ ~Unlocked /\ <<s, c>> \in acking.pairs /\ acking.id = h.id
             \/ h.expiresAt <= now
             \/ /\ published' # published /\ Cardinality(pending[s]) >= MaxPending
                /\ \A g \in pending[s] : h.n <= g.n]_vars

\* A cursor is lost only for the reasons the constants document: silence past
\* the retention, eviction from a full registry once past the floor, a mailbox
\* gone fully idle, or shutdown.
CursorKept ==
    [][\A s \in Subject :
         \A c \in Registered(lastSeen, s) \ Registered(lastSeen', s) :
           \/ closed'
           \/ now - lastSeen[s][c] > Retention
           \/ /\ now - lastSeen[s][c] >= EvictionFloor
              /\ Cardinality(Registered(lastSeen, s)) >= MaxConsumers
           \/ pending'[s] = {} /\ Attached(s)' = {}]_vars

\* The comment at bus.go:165-166: a blob that a full channel could not take is
\* held, so that its subscriber picks it up on its next subscribe.
SlowConsumerCovered ==
    [][\A k \in Conn, s \in Subject :
         \A n \in missed'[k][s] \ missed[k][s] :
            \E h \in pending'[s] : h.n = n]_vars

=============================================================================
