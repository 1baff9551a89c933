----------------------------- MODULE Delivery -----------------------------
(***************************************************************************)
(* Devices behind the bus: what client/src/groupchannel.ts does with a     *)
(* delivered envelope, as far as the delivery promise is concerned.  A     *)
(* device subscribes each mailbox with its own consumer id, keeps what it  *)
(* received in memory, makes it durable (a reseal or a persisted record),  *)
(* and only then acks it.  A crash or reload loses the memory, and the     *)
(* next connection subscribes again.                                       *)
(***************************************************************************)
EXTENDS Bus

CONSTANTS
    Owner,     \* the device behind a connection slot: [Conn -> Consumer]
    MaxCrash   \* bound: crashes, reloads and network losses in one behaviour

ASSUME OwnerAssumption == Owner \in [Conn -> Consumer] /\ MaxCrash \in Nat

VARIABLES
    durable,   \* consumer -> ids it has durably processed
    expected,  \* consumer -> blobs published while it was listening or tracked
    crashes

dvars == <<durable, expected, crashes>>
allvars == <<vars, dvars>>

\* The device has a running connection subscribed to the mailbox.
Listening(c, s) == \E k \in alive : Owner[k] = c /\ sub[k][s] = {c}

\* What the running connections of a device hold in memory.
InMemory(c) ==
    {m.id : m \in UNION {{ChannelLog(k, s)[i] : i \in DOMAIN ChannelLog(k, s)} :
                           <<k, s>> \in {x \in Conn \X Subject : x[1] \in alive /\ Owner[x[1]] = c}}}

DInit ==
    /\ Init
    /\ durable = [c \in Consumer |-> {}]
    /\ expected = [c \in Consumer |-> {}]
    /\ crashes = 0

\* A sender publishes; the ghost records who is entitled to the blob.
DPublish(s, id, ttl) ==
    /\ Publish(s, id, ttl)
    /\ expected' = [c \in Consumer |->
         IF Listening(c, s) \/ c \in Registered(lastSeen, s)
         THEN expected[c] \cup {[s |-> s, id |-> id, expiresAt |-> Expiry(ttl)]}
         ELSE expected[c]]
    /\ UNCHANGED <<durable, crashes>>

\* connectGateway: subscribe with this device's consumer id.
DSubscribe(k, s) ==
    SubscribeConsumer(k, s, Owner[k]) /\ UNCHANGED dvars

DReceive(k, s) == Receive(k, s) /\ UNCHANGED dvars

\* Durable processing of something received on a running connection.
Process(k, s) ==
    /\ k \in alive
    /\ \E i \in DOMAIN got[k][s] :
          /\ got[k][s][i].id \notin durable[Owner[k]]
          /\ durable' = [durable EXCEPT ![Owner[k]] = @ \cup {got[k][s][i].id}]
    /\ UNCHANGED <<vars, expected, crashes>>

\* Mutant: the ack is sent on receipt, before the processing is durable.
DAck_OnReceipt(k, id) ==
    /\ \E s \in Subject : \E i \in DOMAIN got[k][s] : got[k][s][i].id = id
    /\ AckAcross(k, id)
    /\ UNCHANGED dvars

\* Ack only after durable processing, on the connection that received it.
DAck(k, id) ==
    /\ id \in durable[Owner[k]]
    /\ \E s \in Subject : \E i \in DOMAIN got[k][s] : got[k][s][i].id = id
    /\ AckAcross(k, id)
    /\ UNCHANGED dvars

Crash(k) ==
    /\ crashes < MaxCrash
    /\ Disconnect(k)
    /\ crashes' = crashes + 1
    /\ UNCHANGED <<durable, expected>>

DBus ==
    /\ \/ \E k \in Conn, s \in Subject : detach(k, s)
       \/ \E k \in Conn : Connect(k)
       \/ \E p \in Subject \X AnyConsumer : ackLocked(p)
       \/ sweep
       \/ Tick
    /\ UNCHANGED dvars

DNext ==
    \/ \E s \in Subject, id \in Id, ttl \in TTLs : DPublish(s, id, ttl)
    \/ \E k \in Conn, s \in Subject : DSubscribe(k, s)
    \/ \E k \in Conn, s \in Subject : DReceive(k, s)
    \/ \E k \in Conn, s \in Subject : Process(k, s)
    \/ \E k \in Conn, id \in Id : DAck(k, id)
    \/ \E k \in Conn : Crash(k)
    \/ DBus

DSpec == DInit /\ [][DNext]_allvars

\* What the code's scheduling justifies: the forwarding goroutine, the client's
\* receive loop and its reconnect loop keep running, cancelled contexts are
\* detached, and a lock section ends.  Go's sync.Mutex hands the lock to a
\* waiter that has starved, so taking b.mu is strongly fair.
Fairness ==
    /\ \A k \in Conn, s \in Subject :
          /\ WF_allvars(DReceive(k, s))
          /\ WF_allvars(Process(k, s))
          /\ SF_allvars(DSubscribe(k, s))
          /\ SF_allvars(detach(k, s) /\ UNCHANGED dvars)
    /\ \A k \in Conn : WF_allvars(Connect(k) /\ UNCHANGED dvars)
    /\ WF_allvars(\E p \in Subject \X AnyConsumer : ackLocked(p) /\ UNCHANGED dvars)

FairSpec == DSpec /\ Fairness

-----------------------------------------------------------------------------
\* The blob is still held on the bus for the device.
HeldFor(c, e) == \E h \in pending[e.s] : h.id = e.id /\ c \notin h.ackedBy

\* What can be published.
Envelope == [s : Subject, id : Id, expiresAt : 1 .. Horizon + MaxTTL]

\* The bus and its devices as the abstract mailbox.
Promise == INSTANCE Mailbox WITH
    Receiver <- Consumer,
    Item <- Envelope,
    due <- expected,
    held <- [c \in Consumer |-> {e \in expected[c] : HeldFor(c, e)}],
    hand <- [c \in Consumer |-> {e \in expected[c] : e.id \in InMemory(c)}],
    kept <- [c \in Consumer |-> {e \in Envelope : e.id \in durable[c]}],
    lapsed <- {e \in Envelope : e.expiresAt <= now}

\* Bus and devices implement the abstract mailbox: whatever crashes, is retransmitted
\* or is acked in between, a blob leaves the bus only when its device has it durably or
\* its TTL has passed (bus.go:9-13; groupchannel.ts acks after the reseal).
AtLeastOnce == Promise!MailSpec

\* A crash at any moment loses nothing: what a device is entitled to is durable
\* on it, or still held for it on the bus, until the TTL (bus.go:9-13).  Memory
\* does not count.
CrashSafe ==
    \A c \in Consumer : \A e \in expected[c] :
        e.id \in durable[c] \/ HeldFor(c, e) \/ e.expiresAt <= now

\* docs/honest-limits.md:350-352: a device that crashes mid-receive is re-sent
\* the ciphertext it missed instead of silently losing it.
NeverSilentlyLost ==
    \A c \in Consumer : \A e \in expected[c] :
        e.id \in durable[c] \/ HeldFor(c, e) \/ e.expiresAt <= now \/ e.id \in InMemory(c)

\* At-least-once delivery: whatever a device is entitled to it eventually
\* processes durably, through finitely many crashes, unless its TTL passes.
EventuallyDurable ==
    \A c \in Consumer, id \in Id :
        (\E e \in expected[c] : e.id = id)
          ~> (id \in durable[c] \/ \E e \in expected[c] : e.id = id /\ e.expiresAt <= now)

=============================================================================
