----------------------------- MODULE Transport -----------------------------
(***************************************************************************)
(* The client's publish path (client/src/transport.ts) over one WebSocket  *)
(* (client/src/wsadapter.ts) to the flood-controlled publish handler of    *)
(* the gateway (gateway/internal/ws/ws.go, ratelimit.go), and the hand-off *)
(* of unfinished publishes when connectGateway dials a new socket.         *)
(*                                                                         *)
(* A frame is confirmed by a receipt only; a frame over the rate is        *)
(* dropped without one and answered by a RATE_LIMIT error that does not    *)
(* name it.  Time is abstracted: a timer that is armed may fire.           *)
(***************************************************************************)
EXTENDS Integers, Sequences

CONSTANTS
    Envelope,        \* envelopes the application publishes
    Burst,           \* tokens of the connection's publish bucket
    GapFloor, GapCap,\* PUBLISH_GAP_FLOOR_MS, PUBLISH_GAP_CAP_MS
    CleanStreak,     \* CLEAN_STREAK_TO_EASE
    MaxUnconfirmed,  \* MAX_UNCONFIRMED
    Paced,           \* at the slowest pace a gap outlasts a round trip and a refill
    MaxInFlight,     \* bound: frames under way in one direction
    MaxDrop,         \* bound: sockets lost
    MaxSubscribe     \* bound: Subscribe frames (they share the RATE_LIMIT error)

ASSUME TransportAssumption ==
    /\ Burst \in Nat \ {0} /\ CleanStreak \in Nat \ {0} /\ MaxUnconfirmed \in Nat \ {0}
    /\ GapFloor \in Nat \ {0} /\ GapCap \in Nat /\ GapFloor <= GapCap
    /\ Paced \in BOOLEAN
    /\ MaxInFlight \in Nat \ {0} /\ MaxDrop \in Nat /\ MaxSubscribe \in Nat

VARIABLES
    socket,      \* "connecting", "open" or "closed"
    queue,       \* publishQueue
    unconfirmed, \* the unconfirmed map, in insertion order
    timer,       \* publishTimer is armed
    retry,       \* retryTimer is armed
    gap,         \* currentGapMs
    clean,       \* cleanSinceBackoff
    up,          \* frames on their way to the gateway
    down,        \* frames on their way to the client
    tokens,      \* the gateway's bucket for this connection
    bus,         \* envelopes the gateway has handed to the bus
    twice,       \* envelopes it has handed to the bus more than once
    sent,        \* envelopes the application has published
    forgotten,   \* envelopes dropped when the unconfirmed map overflowed
    drops, subscribes

client == <<queue, unconfirmed, timer, retry, gap, clean, forgotten>>
bounds == <<drops, subscribes>>
onBus == <<bus, twice>>
vars == <<socket, client, up, down, tokens, onBus, sent, bounds>>

-----------------------------------------------------------------------------
In(m, s) == \E i \in DOMAIN s : s[i] = m
RemoveIndex(s, i) == SubSeq(s, 1, i - 1) \o SubSeq(s, i + 1, Len(s))
\* Map.delete: a key is in the map once.
Without(s, m) ==
    IF In(m, s) THEN RemoveIndex(s, CHOOSE i \in DOMAIN s : s[i] = m) ELSE s

Publish(m) == [kind |-> "publish", m |-> m]
Receipt(m) == [kind |-> "receipt", m |-> m]
SubscribeFrame == [kind |-> "subscribe"]
RateLimit  == [kind |-> "limit"]

\* What decodeServerFrame returns, of the frames a publisher gets.
ServerFrame == {Receipt(m) : m \in Envelope} \cup {RateLimit}

\* BrowserSocket's two flags: not open yet, open, closed for good.
SocketState == {"connecting", "open", "closed"}

\* A timer of one gap may fire.
Elapsed ==
    /\ Len(up) < MaxInFlight
    /\ Paced /\ gap = GapCap => socket = "closed" \/ (up = <<>> /\ down = <<>> /\ tokens > 0)

\* The pace after a RATE_LIMIT: Math.ceil(gap * 1.5), capped.
Slower(g) == LET s == (3 * g + 1) \div 2 IN IF s > GapCap THEN GapCap ELSE s
\* The pace after a clean streak: Math.floor(gap / 1.5), floored.
Faster(g) == LET s == (2 * g) \div 3 IN IF s < GapFloor THEN GapFloor ELSE s

\* Mutant: the pacer is not re-armed after a send.
drainPublishQueue_NoRearm(q, u) ==
    IF q = <<>> \/ socket = "closed"
    THEN queue' = q /\ unconfirmed' = u /\ timer' = FALSE /\ UNCHANGED <<up, forgotten>>
    ELSE LET all  == IF In(Head(q), u) THEN u ELSE Append(u, Head(q))
             over == Len(all) > MaxUnconfirmed
         IN  /\ queue' = Tail(q)
             /\ unconfirmed' = IF over THEN Tail(all) ELSE all
             /\ forgotten' = IF over THEN forgotten \cup {Head(all)} ELSE forgotten
             /\ up' = Append(up, Publish(Head(q)))
             /\ timer' = FALSE

\* drainPublishQueue with q queued and u unconfirmed, when the pacer is idle:
\* send the head, unless the socket is closed and throws.  Map.set on a key
\* that is present keeps its place.
drainPublishQueue(q, u) ==
    IF q = <<>> \/ socket = "closed"
    THEN /\ queue' = q /\ unconfirmed' = u /\ timer' = FALSE
         /\ UNCHANGED <<up, forgotten>>
    ELSE LET all  == IF In(Head(q), u) THEN u ELSE Append(u, Head(q))
             over == Len(all) > MaxUnconfirmed
         IN  /\ queue' = Tail(q)
             /\ unconfirmed' = IF over THEN Tail(all) ELSE all
             /\ forgotten' = IF over THEN forgotten \cup {Head(all)} ELSE forgotten
             /\ up' = Append(up, Publish(Head(q)))
             /\ timer' = TRUE

Init ==
    /\ socket = "connecting"
    /\ queue = <<>> /\ unconfirmed = <<>> /\ timer = FALSE /\ retry = FALSE
    /\ gap = GapFloor /\ clean = 0
    /\ up = <<>> /\ down = <<>>
    /\ tokens = Burst
    /\ bus = {} /\ twice = {} /\ sent = {} /\ forgotten = {}
    /\ drops = 0 /\ subscribes = 0

\* publish: queue, and drain unless the pacer will.
publish(m) ==
    /\ m \notin sent /\ Len(up) < MaxInFlight
    /\ sent' = sent \cup {m}
    /\ IF timer
       THEN queue' = Append(queue, m) /\ UNCHANGED <<unconfirmed, timer, up, forgotten>>
       ELSE drainPublishQueue(Append(queue, m), unconfirmed)
    /\ UNCHANGED <<socket, retry, gap, clean, down, tokens, onBus, bounds>>

\* The pacer's timeout.
PublishTimer ==
    /\ timer /\ Elapsed
    /\ drainPublishQueue(queue, unconfirmed)
    /\ UNCHANGED <<socket, retry, gap, clean, down, tokens, onBus, sent, bounds>>

\* subscribe: on the socket at once, never paced and never retried.
subscribe ==
    /\ subscribes < MaxSubscribe
    /\ socket # "closed" /\ Len(up) < MaxInFlight
    /\ subscribes' = subscribes + 1
    /\ up' = Append(up, SubscribeFrame)
    /\ UNCHANGED <<socket, client, down, tokens, onBus, sent, drops>>

Arrives(f) == socket = "open" /\ down # <<>> /\ Head(down) = f /\ down' = Tail(down)

\* dispatch of a RATE_LIMIT error, for whichever frame it was.
onRateLimited ==
    /\ Arrives(RateLimit)
    /\ gap' = Slower(gap) /\ clean' = 0
    /\ retry' = TRUE
    /\ UNCHANGED <<socket, queue, unconfirmed, timer, up, forgotten, tokens, onBus, sent, bounds>>

\* Mutant: the sweep drops what it was to retransmit.
RetryTimer_Forgets ==
    /\ retry /\ Elapsed
    /\ retry' = FALSE
    /\ IF timer
       THEN unconfirmed' = <<>> /\ UNCHANGED <<queue, timer, up, forgotten>>
       ELSE drainPublishQueue(queue, <<>>)
    /\ UNCHANGED <<socket, gap, clean, down, tokens, onBus, sent, bounds>>

\* The retry sweep: everything unconfirmed goes back to the front of the queue.
RetryTimer ==
    /\ retry /\ Elapsed
    /\ retry' = FALSE
    /\ IF timer
       THEN /\ queue' = unconfirmed \o queue /\ unconfirmed' = <<>>
            /\ UNCHANGED <<timer, up, forgotten>>
       ELSE drainPublishQueue(unconfirmed \o queue, <<>>)
    /\ UNCHANGED <<socket, gap, clean, down, tokens, onBus, sent, bounds>>

\* Mutant: the pace is eased on every clean streak, without the floor.
onDelivered_NoFloor(m) ==
    /\ Arrives(Receipt(m))
    /\ unconfirmed' = Without(unconfirmed, m)
    /\ gap' = (2 * gap) \div 3 /\ clean' = 0
    /\ UNCHANGED <<socket, queue, timer, retry, up, forgotten, tokens, onBus, sent, bounds>>

\* dispatch of a receipt: confirm, and ease the pace after a clean streak.
onDelivered(m) ==
    /\ Arrives(Receipt(m))
    /\ unconfirmed' = Without(unconfirmed, m)
    /\ IF gap = GapFloor THEN UNCHANGED <<gap, clean>>
       ELSE IF clean + 1 >= CleanStreak THEN gap' = Faster(gap) /\ clean' = 0
       ELSE clean' = clean + 1 /\ UNCHANGED gap
    /\ UNCHANGED <<socket, queue, timer, retry, up, forgotten, tokens, onBus, sent, bounds>>

-----------------------------------------------------------------------------
\* The socket opens: the adapter's backlog flows.
Open ==
    /\ socket = "connecting"
    /\ socket' = "open"
    /\ UNCHANGED <<client, up, down, tokens, onBus, sent, bounds>>

\* The read loop takes a publish: on the bus with a receipt, or dropped.
GatewayPublish ==
    /\ socket = "open" /\ up # <<>> /\ Len(down) < MaxInFlight
    /\ Head(up).kind = "publish"
    /\ up' = Tail(up)
    /\ IF tokens > 0
       THEN /\ tokens' = tokens - 1
            /\ bus' = bus \cup {Head(up).m}
            /\ twice' = twice \cup (bus \cap {Head(up).m})
            /\ down' = Append(down, Receipt(Head(up).m))
       ELSE down' = Append(down, RateLimit) /\ UNCHANGED <<tokens, onBus>>
    /\ UNCHANGED <<socket, client, sent, bounds>>

\* The read loop takes a Subscribe: the control bucket may refuse it, with the
\* same error code.
GatewaySubscribe ==
    /\ socket = "open" /\ up # <<>> /\ Len(down) < MaxInFlight
    /\ Head(up).kind = "subscribe"
    /\ up' = Tail(up)
    /\ down' \in {down, Append(down, RateLimit)}
    /\ UNCHANGED <<socket, client, tokens, onBus, sent, bounds>>

Refill ==
    /\ tokens < Burst
    /\ tokens' = tokens + 1
    /\ UNCHANGED <<socket, client, up, down, onBus, sent, bounds>>

\* The connection dies: frames and receipts in flight are gone.
Drop ==
    /\ drops < MaxDrop /\ socket # "closed"
    /\ socket' = "closed" /\ drops' = drops + 1
    /\ up' = <<>> /\ down' = <<>>
    /\ UNCHANGED <<client, tokens, onBus, sent, subscribes>>

\* Mutant: only what was never sent is handed off.
takePending_QueueOnly == queue

\* takePending: oldest first.
takePending == unconfirmed \o queue

\* connectGateway: a fresh transport; the lifted publishes are re-issued.  The
\* first is sent into the adapter's backlog at once, the rest are paced.
connectGateway ==
    /\ socket = "closed"
    /\ socket' = "connecting"
    /\ gap' = GapFloor /\ clean' = 0 /\ retry' = FALSE
    /\ tokens' = Burst
    /\ LET p == takePending
       IN  IF p = <<>>
           THEN queue' = <<>> /\ unconfirmed' = <<>> /\ timer' = FALSE /\ up' = <<>>
           ELSE /\ queue' = Tail(p) /\ unconfirmed' = <<Head(p)>> /\ timer' = TRUE
                /\ up' = <<Publish(Head(p))>>
    /\ UNCHANGED <<down, onBus, sent, forgotten, bounds>>

Next ==
    \/ \E m \in Envelope : publish(m)
    \/ PublishTimer
    \/ subscribe
    \/ onRateLimited
    \/ RetryTimer
    \/ \E m \in Envelope : onDelivered(m)
    \/ Open
    \/ GatewayPublish
    \/ GatewaySubscribe
    \/ Refill
    \/ Drop
    \/ connectGateway

Spec == Init /\ [][Next]_vars

\* The event loop, its timers, the gateway's read loop and the auto-reconnect
\* run for ever; the bucket refills while the clock runs.
FairSpec ==
    /\ Spec
    /\ WF_vars(PublishTimer) /\ WF_vars(RetryTimer) /\ WF_vars(Open)
    /\ WF_vars(GatewayPublish \/ GatewaySubscribe)
    /\ WF_vars(onRateLimited \/ \E m \in Envelope : onDelivered(m))
    /\ WF_vars(connectGateway) /\ WF_vars(Refill)

-----------------------------------------------------------------------------
\* The maps and queues hold envelopes, the pace stays within its bounds, the
\* retry buffer within its limit.
TypeOK ==
    /\ socket \in SocketState /\ down \in Seq(ServerFrame)
    /\ queue \in Seq(Envelope) /\ unconfirmed \in Seq(Envelope)
    /\ twice \subseteq bus /\ bus \subseteq sent /\ sent \subseteq Envelope
    /\ timer \in BOOLEAN /\ retry \in BOOLEAN
    /\ gap \in GapFloor..GapCap /\ clean \in 0..(CleanStreak - 1)
    /\ tokens \in 0..Burst
    /\ Len(unconfirmed) <= MaxUnconfirmed

\* No frame is silently lost: what the application published is on the bus, or
\* will be sent or retransmitted, unless the retry buffer overflowed.
NeverSilentlyLost ==
    \A m \in sent : m \in bus \/ In(m, queue) \/ In(m, unconfirmed) \/ m \in forgotten

\* The pacer never stalls with work to do on a live socket.
NeverStalled ==
    queue # <<>> /\ socket # "closed" => timer

\* Frames reach the bus at all, however they are rate limited and however often
\* the socket is lost.
EventuallySent ==
    \A m \in Envelope : m \in sent ~> (m \in bus \/ m \in forgotten)

\* "retransmit only genuinely-dropped frames [...] to avoid needless duplicate
\* deliveries" (transport.ts:106-108): while the connection lives, no envelope
\* reaches the bus twice.
NoNeedlessDuplicate ==
    drops = 0 => twice = {}

=============================================================================
