------------------------------ MODULE Lifetime ------------------------------
(***************************************************************************)
(* What one device does with the messages of a conversation: the ordered   *)
(* apply of inbound frames (client/src/groupchannel.ts onGroupMessage,     *)
(* enqueueApply), the crypto-erasable store and its lifetimes              *)
(* (client/src/lifetime.ts, vault.ts), the views that start them           *)
(* (client/src/controller.ts openChannel) and cooperative recall.          *)
(*                                                                         *)
(* The browser tabs of the device share the store, the sealed blob and the *)
(* device's cursor at the gateway.  Each tab has a worker of its own: its  *)
(* own connection, ratchet, apply chain, timers and views, and all of them *)
(* receive every frame.  The mailbox is the promise of module Bus: a frame *)
(* is redelivered on every connect until some tab has acked it.  Deadlines *)
(* are abstract: an armed timer may fire.  Every await between a read and  *)
(* a write of the store is a boundary between two actions.  The history is *)
(* kept, which is the default; with it off, idb.ts keeps new records in    *)
(* the memory of their tab instead.                                        *)
(***************************************************************************)
EXTENDS Integers, Sequences, FiniteSets

CONSTANTS
    Burn, Timed, Recallable,  \* messages by lifetime: burn-on-read, duration, until-revoked
    Tab,
    Regimes     \* the environments a behaviour may run in

Message == Burn \cup Timed \cup Recallable

\* tabs: the tabs in use; messages: those the peer sends;
\* reorder: the sender's frames may overtake each other (rate-limit retransmits);
\* link, crash, reject: bounds on connections lost, tabs closed or crashed, and
\* persists that fail (locked vault, full disk).
Regime == [tabs : SUBSET Tab, messages : SUBSET Message, reorder : BOOLEAN,
           link : Nat, crash : Nat, reject : Nat]

ASSUME LifetimeAssumption ==
    /\ Burn \cap Timed = {} /\ Burn \cap Recallable = {} /\ Timed \cap Recallable = {}
    /\ Regimes \subseteq Regime

VARIABLES
    sent,     \* frames the sender has published
    wire,     \* those that have not reached the mailbox, in order
    mail,     \* un-acked frames in the mailbox, in order
    todo,     \* frames of a tab's connection that it has not taken up
    link,     \* whether a tab's connection is alive
    chain,    \* a tab's apply chain of the conversation
    ratchet,  \* frames whose receive key is spent, in a tab's memory
    disk,     \* frames whose receive key is spent in the sealed blob
    flush,    \* whether a tab's ratchet flush is scheduled
    store,    \* the keyvault: each message's record
    timers,   \* each tab's expiry timers
    view,     \* each tab's view of one message
    running,  \* tabs that are logged in
    shown,    \* how often a burn message's plaintext was shown
    revived,  \* how often a burn message's tombstone was overwritten
    erased,   \* messages whose stored copy was destroyed
    applied,  \* frames whose effect has been on disk
    acked,    \* frames the gateway took an ack for
    faults,   \* what the bounds have left
    regime    \* the environment of this behaviour

inbound == <<sent, wire>>
gateway == <<mail, todo, link, acked>>
keys    == <<ratchet, disk, flush>>
vault   == <<store, erased, revived>>
tabs    == <<timers, view, running, shown>>
vars    == <<inbound, gateway, chain, keys, vault, tabs, applied, faults, regime>>

-----------------------------------------------------------------------------
Text(m)   == [kind |-> "text", m |-> m]
Recall(m) == [kind |-> "revoke", m |-> m]
Frame == {Text(m) : m \in Message} \cup {Recall(m) : m \in Recallable}

Job(f) == [frame |-> f, at |-> "queued", live |-> TRUE]
NoView == [m |-> 0, at |-> "none"]
Viewing(m, at) == [m |-> m, at |-> at]

RemoveIndex(s, i) == SubSeq(s, 1, i - 1) \o SubSeq(s, i + 1, Len(s))
\* The mailbox holds a frame once.
Without(s, f) ==
    IF \E i \in DOMAIN s : s[i] = f
    THEN RemoveIndex(s, CHOOSE i \in DOMAIN s : s[i] = f) ELSE s
Use(fault) == faults[fault] > 0 /\ faults' = [faults EXCEPT ![fault] = @ - 1]

\* seal: the record under a key of its own, its countdown not started.
Seal(m) == [store EXCEPT ![m] = "held"]

\* armRecord: the countdown of a duration message starts; any other is unchanged.
ArmRecord(m) == [store EXCEPT ![m] = IF m \in Timed THEN "armed" ELSE @]

\* open: the plaintext is decrypted for the screen.
OpenRecord(m) == [shown EXCEPT ![m] = @ + 1]

\* cryptoErase: the record goes, and the message key with it.
CryptoErase(m) ==
    /\ store' = [store EXCEPT ![m] = "absent"]
    /\ erased' = erased \cup {m}
    /\ UNCHANGED revived

\* persistLiveMessage: an inbound message is stored unarmed, until it is viewed.
\* The put overwrites whatever the record has become since it was read.
PersistLiveMessage(m) ==
    /\ store' = Seal(m)
    /\ revived' = [b \in Burn |-> IF b = m /\ store[m] = "tombstone" THEN revived[b] + 1 ELSE revived[b]]
    /\ UNCHANGED erased

Init ==
    /\ sent = {} /\ wire = <<>> /\ mail = <<>> /\ disk = {}
    /\ regime \in Regimes /\ running = regime.tabs
    /\ link = [t \in Tab |-> t \in running] /\ todo = [t \in Tab |-> <<>>]
    /\ chain = [t \in Tab |-> <<>>] /\ ratchet = [t \in Tab |-> {}]
    /\ flush = [t \in Tab |-> FALSE]
    /\ store = [m \in Message |-> "absent"]
    /\ timers = [t \in Tab |-> {}] /\ view = [t \in Tab |-> NoView]
    /\ shown = [m \in Burn |-> 0] /\ revived = [m \in Burn |-> 0]
    /\ erased = {} /\ applied = {} /\ acked = {}
    /\ faults = [link |-> regime.link, crash |-> regime.crash, reject |-> regime.reject]

-----------------------------------------------------------------------------
\* The peer sends a message, or recalls one it has sent.
Send(f) ==
    /\ f \notin sent /\ f.m \in regime.messages
    /\ f.kind = "revoke" => Text(f.m) \in sent
    /\ sent' = sent \cup {f} /\ wire' = Append(wire, f)
    /\ UNCHANGED <<gateway, chain, keys, vault, tabs, applied, faults>>

\* A frame reaches the mailbox, and the sockets of the device that are alive.
Arrive(i) ==
    /\ i \in DOMAIN wire /\ (~regime.reorder => i = 1)
    /\ wire' = RemoveIndex(wire, i)
    /\ mail' = Append(mail, wire[i])
    /\ todo' = [t \in Tab |-> IF link[t] THEN Append(todo[t], wire[i]) ELSE todo[t]]
    /\ UNCHANGED <<sent, link, acked, chain, keys, vault, tabs, applied, faults>>

\* onGroupMessage: decrypt and queue behind the conversation's earlier frames.
\* A frame whose key is spent is reported and left un-acked.
onGroupMessage(t) ==
    /\ link[t] /\ todo[t] # <<>>
    /\ todo' = [todo EXCEPT ![t] = Tail(@)]
    /\ LET f == Head(todo[t])
       IN  IF f \in ratchet[t]
           THEN UNCHANGED <<ratchet, chain>>
           ELSE /\ ratchet' = [ratchet EXCEPT ![t] = @ \cup {f}]
                /\ chain' = [chain EXCEPT ![t] = Append(@, Job(f))]
    /\ UNCHANGED <<inbound, mail, link, acked, disk, flush, vault, tabs, applied, faults>>

\* Mutant: applies of one conversation run side by side.
Turn_Any(t, i) == i \in DOMAIN chain[t]

\* enqueueApply: an apply starts when the ones before it have settled.
Turn(t, i) == i = 1 /\ i \in DOMAIN chain[t]

\* The apply at i is done: ack on the connection the frame came by, if that
\* connection still lives, and for a message schedule the ratchet flush.  The
\* ack moves the device's cursor, whichever tab sends it.
Done(t, i) ==
    LET f == chain[t][i].frame
        ok == chain[t][i].live /\ link[t]
    IN  /\ chain' = [chain EXCEPT ![t] = RemoveIndex(@, i)]
        /\ applied' = applied \cup {f}
        /\ mail' = IF ok THEN Without(mail, f) ELSE mail
        /\ acked' = IF ok THEN acked \cup {f} ELSE acked
        /\ flush' = [flush EXCEPT ![t] = @ \/ (ok /\ f.kind = "text")]

Unsettled(t, i, step) == t \in running /\ Turn(t, i) /\ chain[t][i].at = step

Writing(t, i) == chain' = [chain EXCEPT ![t][i].at = "writing"]

\* The first read of storeIncoming or applyInboundRevoke: a stored message is
\* not stored again, a missing target is not erased.
ApplyRead(t, i) ==
    /\ Unsettled(t, i, "queued")
    /\ LET f == chain[t][i].frame
       IN  IF (f.kind = "revoke") = (store[f.m] = "absent")
           THEN Done(t, i)
           ELSE Writing(t, i) /\ UNCHANGED <<mail, acked, flush, applied>>
    /\ UNCHANGED <<inbound, todo, link, ratchet, disk, vault, tabs, faults>>

\* The write: seal and put, unarmed; or crypto-erase.  No lock spans the read
\* and the write, so another tab may have come in between.
ApplyWrite(t, i) ==
    /\ Unsettled(t, i, "writing")
    /\ LET f == chain[t][i].frame
       IN  IF f.kind = "revoke" THEN CryptoErase(f.m) ELSE PersistLiveMessage(f.m)
    /\ Done(t, i)
    /\ UNCHANGED <<inbound, todo, link, ratchet, disk, tabs, faults>>

\* Mutant: a frame is acked whether or not it could be stored.
ApplyRejected_Acks(t, i) ==
    /\ Use("reject")
    /\ Unsettled(t, i, "writing") /\ chain[t][i].frame.kind = "text"
    /\ Done(t, i)
    /\ UNCHANGED <<inbound, todo, link, ratchet, disk, vault, tabs>>

\* The persist fails: an error is reported, nothing is acked.
ApplyRejected(t, i) ==
    /\ Use("reject")
    /\ Unsettled(t, i, "writing") /\ chain[t][i].frame.kind = "text"
    /\ chain' = [chain EXCEPT ![t] = RemoveIndex(@, i)]
    /\ UNCHANGED <<inbound, gateway, keys, vault, tabs, applied>>

\* scheduleRatchetFlush's timer: the ratchet as it is in the tab's memory is
\* sealed into the blob the tabs share.
FlushTimer(t) ==
    /\ t \in running /\ flush[t]
    /\ flush' = [flush EXCEPT ![t] = FALSE] /\ disk' = ratchet[t]
    /\ UNCHANGED <<inbound, gateway, chain, ratchet, vault, tabs, applied, faults>>

-----------------------------------------------------------------------------
\* openChannel lists a record that is still to be read (burn-on-read) or armed
\* (duration).
openChannel(t, m) ==
    /\ t \in running /\ view[t] = NoView
    /\ m \in Burn \cup Timed /\ store[m] = "held"
    /\ view' = [view EXCEPT ![t] = Viewing(m, "listed")]
    /\ UNCHANGED <<inbound, gateway, chain, keys, vault, timers, running, shown, applied, faults>>

\* Mutant: the latch is not read again inside the lock.
ReRead_Stale(t) ==
    /\ view[t].at = "listed"
    /\ view[t].m \in Burn => \A u \in Tab : view[u] # Viewing(view[t].m, "holding")
    /\ view' = [view EXCEPT ![t].at = "holding"]
    /\ UNCHANGED <<inbound, gateway, chain, keys, vault, timers, running, shown, applied, faults>>

\* openBurnOnRead under its exclusive lock, or armOnView under none, reads the
\* record again.
ReRead(t) ==
    /\ view[t].at = "listed"
    /\ view[t].m \in Burn => \A u \in Tab : view[u] # Viewing(view[t].m, "holding")
    /\ view' = [view EXCEPT ![t] =
                   IF store[view[t].m] = "held" THEN Viewing(view[t].m, "holding") ELSE NoView]
    /\ UNCHANGED <<inbound, gateway, chain, keys, vault, timers, running, shown, applied, faults>>

\* openBurnOnRead: the key is destroyed, then the plaintext is returned.
openBurnOnRead(t) ==
    LET m == view[t].m
    IN  /\ view[t].at = "holding" /\ m \in Burn
        /\ store' = [store EXCEPT ![m] = "tombstone"]
        /\ erased' = erased \cup {m}
        /\ shown' = OpenRecord(m)
        /\ view' = [view EXCEPT ![t] = NoView]
        /\ UNCHANGED <<inbound, gateway, chain, keys, revived, timers, running, applied, faults>>

\* Mutant: a record of any lifetime is armed.
armOnView_AnyKind(t) ==
    LET m == view[t].m
    IN  /\ view[t].at = "holding"
        /\ store' = [store EXCEPT ![m] = "armed"]
        /\ timers' = [timers EXCEPT ![t] = @ \cup {m}]
        /\ view' = [view EXCEPT ![t] = NoView]
        /\ UNCHANGED <<inbound, gateway, chain, keys, erased, revived, running, shown, applied, faults>>

\* armOnView: the countdown is stored and this tab's timer armed.
armOnView(t) ==
    LET m == view[t].m
    IN  /\ view[t].at = "holding" /\ m \in Timed
        /\ store' = ArmRecord(m)
        /\ timers' = [timers EXCEPT ![t] = @ \cup {m}]
        /\ view' = [view EXCEPT ![t] = NoView]
        /\ UNCHANGED <<inbound, gateway, chain, keys, erased, revived, running, shown, applied, faults>>

\* expire, from a timer.
expire(t, m) ==
    /\ m \in timers[t]
    /\ timers' = [timers EXCEPT ![t] = @ \ {m}]
    /\ CryptoErase(m)
    /\ UNCHANGED <<inbound, gateway, chain, keys, view, running, shown, applied, faults>>

-----------------------------------------------------------------------------
\* A tab's socket dies.
LinkLost(t) ==
    /\ Use("link") /\ link[t]
    /\ link' = [link EXCEPT ![t] = FALSE] /\ todo' = [todo EXCEPT ![t] = <<>>]
    /\ UNCHANGED <<inbound, mail, acked, chain, keys, vault, tabs, applied>>

\* connectGateway: the conversation is restored from the sealed blob and the
\* mailbox re-flushed.  Applies under way go on, without their connection.
connectGateway(t) ==
    /\ t \in running /\ ~link[t]
    /\ link' = [link EXCEPT ![t] = TRUE] /\ todo' = [todo EXCEPT ![t] = mail]
    /\ ratchet' = [ratchet EXCEPT ![t] = disk]
    /\ chain' = [chain EXCEPT ![t] = [i \in DOMAIN chain[t] |-> [chain[t][i] EXCEPT !.live = FALSE]]]
    /\ UNCHANGED <<inbound, mail, acked, disk, flush, vault, tabs, applied, faults>>

\* A tab is closed or crashes: all it has in memory is gone; of the ratchet, what
\* the sealed blob holds is left.
Crash(t) ==
    /\ Use("crash") /\ t \in running
    /\ running' = running \ {t}
    /\ timers' = [timers EXCEPT ![t] = {}]
    /\ view' = [view EXCEPT ![t] = NoView]
    /\ link' = [link EXCEPT ![t] = FALSE] /\ todo' = [todo EXCEPT ![t] = <<>>]
    /\ chain' = [chain EXCEPT ![t] = <<>>]
    /\ ratchet' = [ratchet EXCEPT ![t] = disk] /\ flush' = [flush EXCEPT ![t] = FALSE]
    /\ UNCHANGED <<inbound, mail, acked, disk, vault, shown, applied>>

Armed == {m \in Timed : store[m] = "armed"}

\* Mutant: what is not yet due is not scheduled again.
sweepExpired_NoRearm(t, overdue) ==
    /\ store' = [m \in Message |-> IF m \in overdue THEN "absent" ELSE store[m]]
    /\ erased' = erased \cup overdue
    /\ UNCHANGED timers

\* sweepExpired: what is overdue is erased, the rest scheduled again.
sweepExpired(t, overdue) ==
    /\ store' = [m \in Message |-> IF m \in overdue THEN "absent" ELSE store[m]]
    /\ erased' = erased \cup overdue
    /\ timers' = [timers EXCEPT ![t] = Armed \ overdue]

\* A tab is opened again and logs in.
Login(t) ==
    /\ t \in regime.tabs \ running
    /\ running' = running \cup {t}
    /\ \E overdue \in SUBSET Armed : sweepExpired(t, overdue)
    /\ UNCHANGED <<inbound, gateway, chain, keys, revived, view, shown, applied, faults>>

Inbound ==
    \/ \E f \in Frame : Send(f)
    \/ \E i \in DOMAIN wire : Arrive(i)
    \/ \E t \in Tab :
        \/ onGroupMessage(t)
        \/ \E i \in DOMAIN chain[t] : ApplyRead(t, i) \/ ApplyWrite(t, i) \/ ApplyRejected(t, i)
        \/ FlushTimer(t)

Reading ==
    \E t \in Tab :
        \/ \E m \in Message : openChannel(t, m)
        \/ ReRead(t)
        \/ openBurnOnRead(t)
        \/ armOnView(t)
        \/ \E m \in Timed : expire(t, m)

Next ==
    /\ \/ Inbound
       \/ Reading
       \/ \E t \in Tab : LinkLost(t) \/ connectGateway(t) \/ Crash(t) \/ Login(t)
    /\ UNCHANGED regime

Spec == Init /\ [][Next]_vars

\* A running tab's timers fire.
FairSpec == Spec /\ \A t \in Tab, m \in Timed : WF_vars(expire(t, m) /\ UNCHANGED regime)

-----------------------------------------------------------------------------
\* Records, timers and views are of messages with the lifetime that they serve;
\* what is taken up or acked was sent; a closed tab has neither timers nor views.
TypeOK ==
    /\ sent \subseteq Frame /\ acked \subseteq applied /\ applied \subseteq sent
    /\ disk \subseteq sent /\ \A t \in Tab : ratchet[t] \subseteq sent
    /\ \A m \in Message : store[m] \in {"absent", "held"}
                          \cup (IF m \in Burn THEN {"tombstone"} ELSE {})
                          \cup (IF m \in Timed THEN {"armed"} ELSE {})
    /\ \A t \in Tab \ running : timers[t] = {} /\ view[t] = NoView
    /\ \A t \in Tab : link[t] => t \in running

OneTabInUse == \E t \in Tab : regime.tabs = {t}

\* A burn-on-read message is shown at most once, however many tabs view it,
\* however often it is redelivered and wherever a tab crashes (lifetime.ts
\* openBurnOnRead), unless a tab that was storing a redelivery of it has put its
\* copy over the tombstone; and no tab can do that to itself.
BurnLatchHolds ==
    \A m \in Burn :
        /\ shown[m] <= 1 + revived[m]
        /\ OneTabInUse => revived[m] = 0

\* A redelivered envelope "must never overwrite what this id already became.
\* Overwriting would resurrect a burn read-latch tombstone as a fresh readable
\* copy" (lifetime.ts:78-80): a burn-on-read message is shown at most once.
BurnShownOnce == \A m \in Burn : shown[m] <= 1

\* A message the device has acked is in its store, or was there and has been
\* destroyed for its lifetime: an ack never precedes the put (groupchannel.ts
\* onGroupMessage).
AckedIsDurable ==
    \A m \in Message : Text(m) \in acked => store[m] # "absent" \/ m \in erased

\* Once a recall is acked, its message is not in the store, and never will be
\* (groupchannel.ts enqueueApply: "a recall sent right after its message finds
\* the target already durable"), while one tab is in use, frames arrive in order
\* and persists succeed.
RecallEffective ==
    (OneTabInUse /\ ~regime.reorder /\ regime.reject = 0) =>
    \A m \in Recallable : Recall(m) \in acked => store[m] = "absent"

\* A tab that keeps running sees every countdown end (lifetime.ts sweepExpired:
\* "a message keeps being destroyed at its expiry even if the tab never
\* receives another message"), while it is the only tab in use.
CountdownEnds ==
    \A t \in Tab, m \in Timed :
        (regime.tabs = {t} /\ store[m] = "armed" /\ t \in running) ~> (store[m] # "armed" \/ t \notin running)

\* A message whose countdown ended stays gone: a redelivered envelope "must
\* never overwrite what this id already became [...] or restart a countdown"
\* (lifetime.ts:78-80), and arming is "a no-op if the message is missing"
\* (lifetime.ts:95).
ExpiredStaysGone ==
    \A m \in Timed : m \in erased => store[m] = "absent"

\* A frame that is held for redelivery is applied already, is being applied, or
\* can be decrypted again: "an apply interrupted by a crash is redelivered
\* rather than lost" (groupchannel.ts:2226).
RedeliveredNotLost ==
    \A i \in DOMAIN mail :
        mail[i] \in disk => \/ mail[i] \in applied
                           \/ \E t \in Tab : \E j \in DOMAIN chain[t] : chain[t][j].frame = mail[i]

=============================================================================
