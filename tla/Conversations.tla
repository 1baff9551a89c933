---------------------------- MODULE Conversations ----------------------------
(***************************************************************************)
(* The set of conversations one device keeps, in memory and on disk, when  *)
(* the user has it open in several tabs: src/client/src/controller.ts      *)
(* (closed ids, recorded self-groups, block list, channel rows, connect    *)
(* time reconcile, heal and sweep) and src/client/src/groupchannel.ts      *)
(* (connectGateway's restore loop, startConversation, closeConversation,   *)
(* onWelcome's adoption, eviction).                                        *)
(*                                                                         *)
(* Every tab has its own worker and so its own copy of the MLS state; all  *)
(* of them seal it into ONE blob, and the last seal wins.  IndexedDB runs  *)
(* transactions in the order in which they were created, so a seal is one  *)
(* entry of the queue `writes': it is read by nobody before it commits,    *)
(* and it is lost when its tab dies first.  The operations of one tab run  *)
(* one at a time (worker.js), while Welcomes arrive at any moment.         *)
(*                                                                         *)
(* A conversation of Peer has certified peer devices, one of Pending was   *)
(* formed with a device that had no certificate yet (the crypto layer      *)
(* cannot tell it from a poisoned self-group), one of Self is the hidden   *)
(* group of our own devices.  All peer conversations are with one peer.    *)
(* The device itself is authorized.                                        *)
(***************************************************************************)
EXTENDS Naturals, Sequences, FiniteSets

CONSTANTS Tab,       \* the tabs of one browser profile
          NoTab,     \* nobody holds the lock
          Peer,      \* conversations with certified peer devices
          Pending,   \* conversations whose peer device has no certificate
          Self,      \* own-devices groups
          Invited,   \* the conversations that begin with a Welcome from the peer
          Existing,  \* peer conversations this device already has
          MaxNew,      \* conversations that begin in one run
          MaxConvEvent \* removals, blocks, evictions and tab crashes in one run

ASSUME ConvAssumption ==
    /\ MaxNew \in Nat /\ MaxConvEvent \in Nat
    /\ NoTab \notin Tab
    /\ Invited \subseteq Peer /\ Existing \subseteq Peer \cup Pending
    /\ Peer \cap Pending = {} /\ Peer \cap Self = {} /\ Pending \cap Self = {}

VARIABLES disk,    \* what IndexedDB holds: the blob's groups, rows and sets
          writes,  \* seals of the blob that have not committed, oldest first
          tabs,    \* every tab's worker
          bus,     \* Welcomes the gateway holds for this device
          known,    \* conversations that exist already
          shunned, \* conversations whose Welcome was dropped as blocked
          convSpent

convVars == <<disk, writes, tabs, bus, known, shunned, convSpent>>

Conversation == Peer \cup Pending \cup Self
Idle == [op |-> "none", conv |-> {}, seen |-> {}]
Closed == [phase |-> "down", wasm |-> {}, sessions |-> {}, cache |-> {},
           job |-> Idle, inbox |-> {}]

\* An own-devices group may have a row left by an older build.
ConvInit ==
    /\ \E rows \in SUBSET Self :
           disk = [blob |-> Self \cup Existing, rows |-> rows \cup Existing, closed |-> {}, selfs |-> {},
                   blocked |-> FALSE, lock |-> NoTab]
    /\ writes = <<>>
    /\ tabs = [t \in Tab |-> Closed]
    /\ bus = {} /\ known = Self \cup Existing /\ shunned = {}
    /\ convSpent = 0

ConvEvent == convSpent < MaxConvEvent /\ convSpent' = convSpent + 1

New(c) ==
    /\ c \notin known /\ Cardinality(known \ (Self \cup Existing)) < MaxNew
    /\ known' = known \cup {c}

\* resealSelf: the state is sealed at once, the write commits later.
ResealTab(t, wasm) == writes' = Append(writes, [by |-> t, groups |-> wasm])

CommitWrite ==
    /\ writes # <<>>
    /\ disk' = [disk EXCEPT !.blob = Head(writes).groups]
    /\ writes' = Tail(writes)
    /\ UNCHANGED <<tabs, bus, known, shunned, convSpent>>

\* isSelfConversation: every member carries a certificate of our account.
IsSelf(tab, c) == c \in Self \cap tab.sessions

\* close_conversation: an own-devices group, or one formed to trust only our
\* account, is never destroyed.
CloseRefused(tab, c) == c \in tab.wasm /\ c \in Self \cup Pending

\* closeConversation's effect on the memory of one tab.
Forget(tab, cs) == [tab EXCEPT !.wasm = @ \ cs, !.sessions = @ \ cs]

-----------------------------------------------------------------------------
(* connectGateway, step by step. *)

\* loadSelfGroupIds: the recorded own-devices groups, read once per unlock.
LoadSelfGroupIds(t) == IF tabs[t].phase = "down" THEN disk.selfs ELSE tabs[t].cache

\* The MLS state is read back from the blob.
LoadSelf(t) ==
    /\ tabs[t].phase \in {"down", "online"} /\ tabs[t].job.op = "none"
    /\ writes = <<>>
    /\ tabs' = [tabs EXCEPT ![t].phase = "restoring", ![t].wasm = disk.blob,
                            ![t].inbox = {},
                            ![t].cache = LoadSelfGroupIds(t)]
    /\ UNCHANGED <<disk, writes, bus, known, shunned, convSpent>>

\* Every restored group gets a session, except the ones the user closed.
RestoreKeepsOld(t) ==
    LET again == {c \in tabs[t].wasm : c \in disk.closed \ Self}
        gone  == {c \in again : ~CloseRefused(tabs[t], c)}
        wasm  == tabs[t].wasm \ gone
    IN  /\ tabs[t].phase = "restoring"
        /\ tabs' = [tabs EXCEPT ![t].phase = "reconcile", ![t].wasm = wasm, ![t].inbox = bus,
                                ![t].sessions = @ \cup (tabs[t].wasm \ again)]
        /\ IF gone # {} THEN ResealTab(t, wasm) ELSE UNCHANGED writes
        /\ UNCHANGED <<disk, bus, known, shunned, convSpent>>

RestoreSilently(t) ==
    LET again == {c \in tabs[t].wasm : c \in disk.closed \ Self}
        gone  == {c \in again : ~CloseRefused(tabs[t], c)}
        wasm  == tabs[t].wasm \ gone
    IN  /\ tabs[t].phase = "restoring"
        /\ tabs' = [tabs EXCEPT ![t].phase = "reconcile", ![t].wasm = wasm, ![t].inbox = bus,
                                ![t].sessions = tabs[t].wasm \ again]
        /\ UNCHANGED <<disk, writes, bus, known, shunned, convSpent>>

RestoreSessions(t) ==
    LET again == {c \in tabs[t].wasm : c \in disk.closed \ Self}
        gone  == {c \in again : ~CloseRefused(tabs[t], c)}
        wasm  == tabs[t].wasm \ gone
    IN  /\ tabs[t].phase = "restoring"
        /\ tabs' = [tabs EXCEPT ![t].phase = "reconcile", ![t].wasm = wasm, ![t].inbox = bus,
                                ![t].sessions = tabs[t].wasm \ again]
        /\ IF gone # {} THEN ResealTab(t, wasm) ELSE UNCHANGED writes
        /\ UNCHANGED <<disk, bus, known, shunned, convSpent>>

\* abandonDeadSelfGroup: a group recorded as ours none of whose other devices has a
\* certificate; a conversation that is only pending looks the same.
DeadSelfGroups(tab, recorded) == recorded \cap tab.wasm \cap tab.sessions \cap Pending

\* sweepDeadChannels: a row whose conversation is not held is deleted, unless
\* nothing is held at all.
SweepDeadChannels(rows, tab) ==
    IF tab.wasm = {} THEN rows ELSE rows \cap (tab.wasm \cup tab.cache)

\* reconcileSelfGroupRecords with healDeadSelfGroups: self-classified rows are
\* deleted and their ids recorded; a recorded group that nobody can read any
\* more is abandoned, and then only ids still held stay recorded.  After a
\* connection the remaining rows are swept.
Reconciled(t, sweep) ==
    LET tab    == tabs[t]
        live   == {c \in Conversation : IsSelf(tab, c)}
        new    == (disk.rows \cap live) \ tab.cache
        hidden == tab.cache \cup live
        dead   == DeadSelfGroups(tab, hidden)
        left   == Forget(tab, dead)
        ids    == IF dead # {} THEN hidden \cap left.wasm
                  ELSE IF new # {} THEN hidden ELSE tab.cache
        after  == [left EXCEPT !.phase = "online", !.cache = ids]
        rows   == disk.rows \ (new \cup dead)
    IN  /\ tabs' = [tabs EXCEPT ![t] = after]
        /\ disk' = [disk EXCEPT !.rows = IF sweep THEN SweepDeadChannels(rows, after) ELSE rows,
                                !.selfs = IF new = {} /\ dead = {} THEN @ ELSE ids]
        /\ IF dead # {} THEN ResealTab(t, left.wasm) ELSE UNCHANGED writes
        /\ UNCHANGED <<bus, known, shunned, convSpent>>

\* The end of controller.connectGateway.
Reconcile(t) == tabs[t].phase = "reconcile" /\ Reconciled(t, TRUE)

ListChannels(t) ==
    /\ tabs[t].phase = "online" /\ tabs[t].job.op = "none"
    /\ Reconciled(t, FALSE)
-----------------------------------------------------------------------------
(* Conversations come and go. *)

Receiving(t) == tabs[t].phase \in {"reconcile", "online"}

\* startConversation: the row is written first, then the state is sealed.
StartConversation(t, c) ==
    /\ tabs[t].phase = "online" /\ tabs[t].job.op = "none"
    /\ c \in (Peer \cup Pending) \ Invited /\ New(c)
    /\ disk' = [disk EXCEPT !.rows = @ \cup {c}]
    /\ tabs' = [tabs EXCEPT ![t].wasm = @ \cup {c}, ![t].sessions = @ \cup {c},
                            ![t].job = [Idle EXCEPT !.op = "starting"]]
    /\ UNCHANGED <<writes, bus, shunned, convSpent>>

StartSealed(t) ==
    /\ tabs[t].job.op = "starting"
    /\ tabs' = [tabs EXCEPT ![t].job = Idle]
    /\ ResealTab(t, tabs[t].wasm)
    /\ UNCHANGED <<disk, bus, known, shunned, convSpent>>

\* A peer adds this device to a new conversation.
Invite(c) ==
    /\ c \in Invited /\ New(c)
    /\ bus' = bus \cup {c}
    /\ tabs' = [t \in Tab |-> IF Receiving(t) THEN [tabs[t] EXCEPT !.inbox = @ \cup {c}]
                              ELSE tabs[t]]
    /\ UNCHANGED <<disk, writes, shunned, convSpent>>

\* isBlockedRoster, of the one peer there is.
IsBlockedRoster == disk.blocked

\* onWelcome: a group that is already held is acked and dropped.  Otherwise the
\* crypto layer joins it BEFORE the block list is read (a read that finishes
\* before any later operation's), and the Welcome is acked either way.
OnWelcome(t, c) ==
    LET tab   == tabs[t]
        wasm  == tab.wasm \cup {c}
        adopt == c \notin tab.wasm /\ ~IsBlockedRoster
    IN  /\ Receiving(t) /\ c \in tab.inbox
        /\ bus' = bus \ {c}
        /\ tabs' = [tabs EXCEPT ![t].inbox = @ \ {c}, ![t].wasm = wasm,
                                ![t].sessions = IF adopt THEN @ \cup {c} ELSE @]
        /\ disk' = IF adopt THEN [disk EXCEPT !.rows = @ \cup {c}] ELSE disk
        /\ shunned' = IF c \notin tab.wasm /\ IsBlockedRoster THEN shunned \cup {c} ELSE shunned
        /\ IF adopt THEN ResealTab(t, wasm) ELSE UNCHANGED writes
        /\ UNCHANGED <<known, convSpent>>

\* onGroupMessage, evicted: the session, the row and the sealed group go.
EvictedFrom(t, c) ==
    /\ Receiving(t) /\ c \in tabs[t].sessions \ Self
    /\ ConvEvent
    /\ tabs' = [tabs EXCEPT ![t] = Forget(@, {c})]
    /\ disk' = [disk EXCEPT !.rows = @ \ {c}]
    /\ ResealTab(t, tabs[t].wasm \ {c})
    /\ UNCHANGED <<bus, known, shunned>>

\* Any other reason to seal: a sent message, the ratchet flush, a staged commit.
SealAgain(t) ==
    /\ tabs[t].phase = "online" /\ writes = <<>> /\ tabs[t].wasm # disk.blob
    /\ ResealTab(t, tabs[t].wasm)
    /\ UNCHANGED <<disk, tabs, bus, known, shunned, convSpent>>
-----------------------------------------------------------------------------
(* removeConversation and blockConversation, on a row the user sees. *)

\* blockKeys: the peer enters the sealed block list.
BlockKeys(d) == [d EXCEPT !.blocked = TRUE]

\* ... of the store as it is once a block, if this is one, has been recorded.
CloseConversation(t, c, was) ==
    LET tab == tabs[t]
        hide == c \in tab.cache \/ IsSelf(tab, c) \/ CloseRefused(tab, c)
    IN  /\ tab.phase = "online" /\ tab.job.op = "none"
        /\ c \in disk.rows \ tab.cache
        /\ ConvEvent
        /\ IF hide
           THEN /\ tabs' = [tabs EXCEPT ![t].cache = @ \cup {c}]
                /\ disk' = [was EXCEPT !.rows = @ \ {c}, !.selfs = tab.cache \cup {c}]
                /\ UNCHANGED writes
           ELSE /\ tabs' = [tabs EXCEPT ![t] =
                              [Forget(tab, {c}) EXCEPT
                                 !.job = [Idle EXCEPT !.op = "closing", !.conv = {c}]]]
                /\ disk' = was
                /\ ResealTab(t, tab.wasm \ {c})
        /\ UNCHANGED <<bus, known, shunned>>

RemoveConversation(t, c) == CloseConversation(t, c, disk)

BlockConversation(t, c) == c \notin Self /\ ~disk.blocked /\ CloseConversation(t, c, BlockKeys(disk))

Unblock(t) ==
    /\ tabs[t].phase = "online" /\ tabs[t].job.op = "none" /\ disk.blocked
    /\ disk' = [disk EXCEPT !.blocked = FALSE]
    /\ UNCHANGED <<writes, tabs, bus, known, shunned, convSpent>>

\* recordClosedChannelId: read and write under the cross-tab lock, which is
\* requested only once the seal without the group has committed.
LockClosedUnlocked(t) ==
    /\ tabs[t].job.op = "closing"
    /\ \A i \in DOMAIN writes : writes[i].by # t
    /\ disk' = [disk EXCEPT !.lock = t]
    /\ tabs' = [tabs EXCEPT ![t].job.op = "recording", ![t].job.seen = disk.closed]
    /\ UNCHANGED <<writes, bus, known, shunned, convSpent>>

LockClosed(t) ==
    /\ tabs[t].job.op = "closing"
    /\ \A i \in DOMAIN writes : writes[i].by # t
    /\ disk.lock = NoTab
    /\ disk' = [disk EXCEPT !.lock = t]
    /\ tabs' = [tabs EXCEPT ![t].job.op = "recording", ![t].job.seen = disk.closed]
    /\ UNCHANGED <<writes, bus, known, shunned, convSpent>>

RecordClosed(t) ==
    /\ tabs[t].job.op = "recording"
    /\ disk' = [disk EXCEPT !.closed = tabs[t].job.seen \cup tabs[t].job.conv, !.lock = NoTab]
    /\ tabs' = [tabs EXCEPT ![t].job.op = "closed"]
    /\ UNCHANGED <<writes, bus, known, shunned, convSpent>>

DeleteRow(t) ==
    /\ tabs[t].job.op = "closed"
    /\ disk' = [disk EXCEPT !.rows = @ \ tabs[t].job.conv]
    /\ tabs' = [tabs EXCEPT ![t].job = Idle]
    /\ UNCHANGED <<writes, bus, known, shunned, convSpent>>

\* The tab is closed or crashes: its open transactions are aborted and the
\* browser releases its lock.
TabDies(t) ==
    /\ tabs[t].phase # "down" /\ ConvEvent
    /\ tabs' = [tabs EXCEPT ![t] = Closed]
    /\ writes' = SelectSeq(writes, LAMBDA w : w.by # t)
    /\ disk' = [disk EXCEPT !.lock = IF @ = t THEN NoTab ELSE @]
    /\ UNCHANGED <<bus, known, shunned>>
-----------------------------------------------------------------------------
ConnectStep(t) == RestoreSessions(t) \/ Reconcile(t)
CloseStep(t) == LockClosed(t) \/ RecordClosed(t) \/ DeleteRow(t) \/ StartSealed(t)

ConvNext ==
    \/ CommitWrite
    \/ \E c \in Conversation : Invite(c)
    \/ \E t \in Tab :
         \/ LoadSelf(t) \/ ConnectStep(t) \/ CloseStep(t)
         \/ ListChannels(t) \/ SealAgain(t) \/ Unblock(t) \/ TabDies(t)
         \/ \E c \in Conversation : \/ StartConversation(t, c) \/ OnWelcome(t, c)
                            \/ EvictedFrom(t, c)
                            \/ RemoveConversation(t, c) \/ BlockConversation(t, c)

\* What was begun finishes, and every tab connects again and again: a dropped
\* socket reconnects by itself, and a tab that is closed for good stops sealing.
ConvFairness ==
    /\ WF_convVars(CommitWrite)
    /\ \A t \in Tab : /\ WF_convVars(ConnectStep(t)) /\ SF_convVars(CloseStep(t))
                      /\ SF_convVars(LoadSelf(t))

ConvSpec == ConvInit /\ [][ConvNext]_convVars /\ ConvFairness
-----------------------------------------------------------------------------
\* Type correctness.
ConvTypeOK ==
    /\ disk \in [blob : SUBSET Conversation, rows : SUBSET Conversation, closed : SUBSET Conversation,
                 selfs : SUBSET Conversation, blocked : BOOLEAN, lock : Tab \cup {NoTab}]
    /\ \A i \in DOMAIN writes : writes[i] \in [by : Tab, groups : SUBSET Conversation]
    /\ \A t \in Tab :
         /\ tabs[t].phase \in {"down", "restoring", "reconcile", "online"}
         /\ tabs[t].job.op \in {"none", "starting", "closing", "recording", "closed"}
         /\ \A s \in {tabs[t].wasm, tabs[t].sessions, tabs[t].cache,
                      tabs[t].inbox, tabs[t].job.conv, tabs[t].job.seen} :
                s \subseteq Conversation
    /\ bus \subseteq Conversation /\ known \subseteq Conversation /\ shunned \subseteq Conversation

\* A session never outlives its group: whatever a tab surfaces, classifies or
\* subscribes to is held by the crypto layer under it, across reconnects that
\* replace that layer's state with another tab's blob (groupchannel.ts:1040-1045).
SessionIsHeld ==
    \A t \in Tab : tabs[t].phase \notin {"down", "restoring"} =>
        tabs[t].sessions \subseteq tabs[t].wasm

\* Two tabs closing different conversations at once both stick: no step takes an
\* id out of the closed set again (controller.ts:840-841).
ClosesStick == [][disk.closed \subseteq disk'.closed]_convVars

\* A conversation the user closed never comes back: when every tab keeps
\* reconnecting, the blob stops carrying the closed group's secrets for good,
\* also after a parallel tab sealed them in again (groupchannel.ts:1046-1048).
ClosedConverges ==
    \A c \in Peer : (c \in disk.closed) ~> [](c \notin disk.blob)

\* What groupchannel.ts:2112-2113 says of a Welcome from a blocked peer: the
\* joined slot "lingers harmlessly; we never subscribe".
BlockedStaysOut == \A t \in Tab : tabs[t].sessions \cap shunned = {}

\* What controller.ts:865-866 says of the recorded self-groups: "a peer
\* conversation can never be in the set".
PeerNeverRecordedSelf == disk.selfs \subseteq Self

\* A live conversation that nobody is starting, joining or closing is listed.
LiveIsListed ==
    \A t \in Tab :
        (tabs[t].phase = "online" /\ tabs[t].job.op = "none") =>
            tabs[t].sessions \ (Self \cup tabs[t].cache) \subseteq disk.rows \cup shunned
=============================================================================
