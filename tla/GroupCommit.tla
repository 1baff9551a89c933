---------------------------- MODULE GroupCommit ----------------------------
(***************************************************************************)
(* Membership commits of one conversation: staging, publication,           *)
(* confirmation by the echo, arbitration between rivals, the confirm       *)
(* backstop, and the reload that resumes a staged commit.                  *)
(*                                                                         *)
(* client/src/groupchannel.ts drives the device, crypto/src/conversation.rs*)
(* keeps the MLS group and the staged commit.  The gateway is abstracted   *)
(* to what Bus.tla shows of it: a FIFO mailbox per epoch that holds a frame*)
(* for each registered device until that device acks it.                   *)
(*                                                                         *)
(* An epoch is named by the commit that created it; GENESIS is the group   *)
(* as founded.  MLS itself is taken as given: a member processes a commit  *)
(* exactly when it is on the commit's parent epoch.                        *)
(***************************************************************************)
EXTENDS Integers, Sequences, FiniteSets

CONSTANTS
    Device,
    Founder,    \* the devices of the founding group
    Regimes,    \* the environments a behaviour may run in
    MaxCommit   \* bound: commits staged in one behaviour

\* timely: the backstops outlast the gateway, they fire for lost commits only;
\* lockstep: a commit is staged when every member listens to the epoch's mailbox;
\* storeFails: a reseal may fail (locked vault, full disk);
\* faults: bound on crashes, reconnects, lost and duplicated frames.
Regime == [timely : BOOLEAN, lockstep : BOOLEAN, storeFails : BOOLEAN, faults : Nat]

ASSUME DeviceAssumption == Founder \subseteq Device /\ IsFiniteSet(Device)
ASSUME BoundAssumption == Regimes \subseteq Regime /\ MaxCommit \in Nat

VARIABLES
    epoch,    \* the epochs ever staged, by number: who, from where, which roster
    mem,      \* device -> the in-memory group: epoch, staged commit, backstop armed
    disk,     \* device -> the sealed copy
    jobs,     \* device -> reseals in flight, each with its continuation
    ready,    \* device -> continuations of finished reseals
    out,      \* device -> frames its transport has not got onto the bus
    log,      \* epoch -> commits published to its mailbox, in order
    acked,    \* device -> mailbox entries <<epoch, index>> it is done with
    listed,   \* epoch -> devices with a cursor on its mailbox
    invited,  \* device -> Welcomes waiting in its bootstrap mailbox
    faults,
    regime    \* the environment of this behaviour

vars == <<epoch, mem, disk, jobs, ready, out, log, acked, listed, invited, faults, regime>>

-----------------------------------------------------------------------------
NONE == 0       \* no epoch: not a member, or nothing staged
GENESIS == 1

Epochs == 1..Len(epoch)
Roster(e) == epoch[e].roster
Comparable(e, f) == e \in epoch[f].path \/ f \in epoch[e].path

\* Only a revoked key is ever removed, and no revoked key is added again
\* (reconcileOne's candidates, reconcileRemovalOne's targets).
Revoked == UNION {epoch[e].removes : e \in Epochs}

\* GroupSession: the group on epoch e, with the commit staged on it if there is one.
Session(e, staged) == [head |-> e, pend |-> staged, armed |-> FALSE]

\* The failure of a Welcome that no redelivery can cure: the group is held already.
isPermanentWelcomeFailure(d) == mem[d].head # NONE

Frame(kind, e) == [kind |-> kind, e |-> e]

\* What a device publishes for a staged commit: the commit to the mailbox of
\* the epoch it leaves, and for an Add the Welcome to the added device.
Frames(e) ==
    {Frame("commit", e)} \cup (IF epoch[e].adds = {} THEN {} ELSE {Frame("welcome", e)})

\* Mailbox entries of epoch e that the bus has dropped: all cursors acked them.
Dropped(e) ==
    {i \in 1..Len(log[e]) : listed[e] # {} /\ \A d \in listed[e] : <<e, i>> \in acked[d]}

\* Entries of the mailbox of e that the bus still delivers to d, oldest first.
Waiting(d, e) == {i \in 1..Len(log[e]) : <<e, i>> \notin acked[d]}

\* transport.subscribe: a cursor on the mailbox; a late one misses what is gone.
Subscribe(d, e) ==
    /\ listed' = [listed EXCEPT ![e] = @ \cup {d}]
    /\ acked' = IF d \in listed[e] THEN acked
                ELSE [acked EXCEPT ![d] = @ \cup {<<e, i>> : i \in Dropped(e)}]

\* resealSelf: the container is serialised at once and written later; "pub" is
\* the staged commit to publish and "ack" the mailbox entry to ack afterwards.
Reseal(d, m, pub, ack) ==
    jobs' = [jobs EXCEPT ![d] =
               Append(@, [head |-> m.head, pend |-> m.pend, pub |-> pub, ack |-> ack])]

-----------------------------------------------------------------------------
Init ==
    /\ epoch = <<[by |-> {}, parent |-> NONE, adds |-> {}, removes |-> {},
                  roster |-> Founder, path |-> {GENESIS}]>>
    /\ mem = [d \in Device |-> Session(IF d \in Founder THEN GENESIS ELSE NONE, NONE)]
    /\ disk = [d \in Device |->
          [head |-> IF d \in Founder THEN GENESIS ELSE NONE, pend |-> NONE]]
    /\ jobs = [d \in Device |-> <<>>]
    /\ ready = [d \in Device |-> <<>>]
    /\ out = [d \in Device |-> {}]
    /\ log = <<<<>>>>
    /\ acked = [d \in Device |-> {}]
    /\ listed = <<Founder>>
    /\ invited = [d \in Device |-> {}]
    /\ faults = 0
    /\ regime \in Regimes

\* stage_add and stage_remove behind reconcileOne and reconcileRemovalOne: a
\* commit is built on the current epoch and not merged, and the reseal starts.
Stage(d, adds, removes) ==
    LET h == mem[d].head
        e == Len(epoch) + 1
        m == Session(h, e)
    IN  /\ h # NONE /\ ~mem[d].armed /\ mem[d].pend = NONE
        /\ Len(epoch) <= MaxCommit
        /\ adds \cap (Roster(h) \cup Revoked) = {} /\ removes \subseteq Roster(h) \ {d}
        /\ regime.lockstep => Roster(h) \subseteq listed[h]
        /\ epoch' = Append(epoch, [by |-> {d}, parent |-> h, adds |-> adds, removes |-> removes,
                                   roster |-> (Roster(h) \cup adds) \ removes,
                                   path |-> epoch[h].path \cup {e}])
        /\ log' = Append(log, <<>>)
        /\ listed' = Append(listed, {})
        /\ mem' = [mem EXCEPT ![d] = m]
        /\ Reseal(d, m, e, {})
        /\ UNCHANGED <<disk, ready, out, acked, invited, faults>>

\* The sealed container reaches the store.
Sealed(d) ==
    /\ jobs[d] # <<>>
    /\ LET j == Head(jobs[d])
       IN  /\ disk' = [disk EXCEPT ![d] = [head |-> j.head, pend |-> j.pend]]
           /\ ready' = [ready EXCEPT ![d] = Append(@, j)]
    /\ jobs' = [jobs EXCEPT ![d] = Tail(@)]
    /\ UNCHANGED <<epoch, mem, out, log, acked, listed, invited, faults>>

\* The store refuses it: resealSelf resolves to false, which neither the staging
\* nor the ack looks at, so the continuation runs all the same.
SealFails(d) ==
    /\ regime.storeFails /\ faults < regime.faults
    /\ jobs[d] # <<>>
    /\ ready' = [ready EXCEPT ![d] = Append(@, Head(jobs[d]))]
    /\ jobs' = [jobs EXCEPT ![d] = Tail(@)]
    /\ faults' = faults + 1
    /\ UNCHANGED <<epoch, mem, disk, out, log, acked, listed, invited>>

\* After the await: ack the merged entry, or publish the staged commit if it is
\* still the one in flight and arm the backstop.
Continue(d) ==
    /\ ready[d] # <<>>
    /\ LET j == Head(ready[d])
           publish == j.pub # NONE /\ mem[d].pend = j.pub
       IN  /\ acked' = [acked EXCEPT ![d] = @ \cup j.ack]
           /\ out' = IF publish THEN [out EXCEPT ![d] = @ \cup Frames(j.pub)] ELSE out
           /\ mem' = IF publish THEN [mem EXCEPT ![d].armed = TRUE] ELSE mem
    /\ ready' = [ready EXCEPT ![d] = Tail(@)]
    /\ UNCHANGED <<epoch, disk, jobs, log, listed, invited, faults>>

\* The gateway takes a frame: onto the mailbox, or to the added device.
Publish(f) ==
    IF f.kind = "commit"
    THEN /\ log' = [log EXCEPT ![epoch[f.e].parent] = Append(@, f.e)]
         /\ UNCHANGED invited
    ELSE /\ invited' = [d \in Device |->
               IF d \in epoch[f.e].adds THEN invited[d] \cup {f.e} ELSE invited[d]]
         /\ UNCHANGED log

Deliver(d, f) ==
    /\ f \in out[d]
    /\ Publish(f)
    /\ out' = [out EXCEPT ![d] = @ \ {f}]
    /\ UNCHANGED <<epoch, mem, disk, jobs, ready, acked, listed, faults>>

\* A retransmission of a frame whose receipt was not seen.
Duplicate(d, f) ==
    /\ faults < regime.faults
    /\ f \in out[d]
    /\ Publish(f)
    /\ faults' = faults + 1
    /\ UNCHANGED <<epoch, mem, disk, jobs, ready, out, acked, listed>>

\* Rate limit, overflow of the unconfirmed map, or a gateway restart.
Lose(d, f) ==
    /\ faults < regime.faults
    /\ f \in out[d]
    /\ out' = [out EXCEPT ![d] = @ \ {f}]
    /\ faults' = faults + 1
    /\ UNCHANGED <<epoch, mem, disk, jobs, ready, log, acked, listed, invited>>

-----------------------------------------------------------------------------
\* The next entry of the current epoch's mailbox, as <<epoch, index>>.
NextEntry(d) ==
    LET w == Waiting(d, mem[d].head)
    IN  <<mem[d].head, CHOOSE i \in w : \A j \in w : i <= j>>

\* Our own commit from an epoch we hold that is not the staged one: a permanent
\* drop, acked at once.
DropOwn(d) ==
    LET n == NextEntry(d)
    IN  /\ mem[d].head # NONE /\ Waiting(d, mem[d].head) # {}
        /\ d \in epoch[log[n[1]][n[2]]].by /\ log[n[1]][n[2]] # mem[d].pend
        /\ acked' = [acked EXCEPT ![d] = @ \cup {n}]
        /\ UNCHANGED <<epoch, mem, disk, jobs, ready, out, log, listed, invited, faults>>

\* Mutant: the entry is acked on receipt, before the merged epoch is durable.
Merge_AckFirst(d) ==
    LET n == NextEntry(d)
        e == log[n[1]][n[2]]
        m == Session(e, NONE)
    IN  /\ mem[d].head # NONE /\ Waiting(d, mem[d].head) # {}
        /\ d \notin epoch[e].by \/ e = mem[d].pend
        /\ d \in Roster(e)
        /\ mem' = [mem EXCEPT ![d] = m]
        /\ listed' = [listed EXCEPT ![e] = @ \cup {d}]
        /\ acked' = [acked EXCEPT ![d] = @ \cup {n}]
        /\ Reseal(d, m, NONE, {})
        /\ UNCHANGED <<epoch, disk, ready, out, log, invited, faults>>

\* Mutant: a rival's commit is merged over the staged one, which stays staged.
Merge_KeepsPending(d) ==
    LET n == NextEntry(d)
        e == log[n[1]][n[2]]
        m == [mem[d] EXCEPT !.head = e]
    IN  /\ mem[d].head # NONE /\ Waiting(d, mem[d].head) # {}
        /\ d \notin epoch[e].by \/ e = mem[d].pend
        /\ d \in Roster(e)
        /\ mem' = [mem EXCEPT ![d] = m]
        /\ Subscribe(d, e)
        /\ Reseal(d, m, NONE, {n})
        /\ UNCHANGED <<epoch, disk, ready, out, log, invited, faults>>

\* receive_inner and process_in_slot, then onMembershipAdvanced: the echo of the
\* staged commit confirms it; a rival's commit aborts ours and is merged.  The
\* entry is acked after the reseal.
Merge(d) ==
    LET n == NextEntry(d)
        e == log[n[1]][n[2]]
        m == Session(e, NONE)
    IN  /\ mem[d].head # NONE /\ Waiting(d, mem[d].head) # {}
        /\ d \notin epoch[e].by \/ e = mem[d].pend
        /\ d \in Roster(e)
        /\ mem' = [mem EXCEPT ![d] = m]
        /\ Subscribe(d, e)
        /\ Reseal(d, m, NONE, {n})
        /\ UNCHANGED <<epoch, disk, ready, out, log, invited, faults>>

\* A commit that removes us: the group is deleted, the conversation left.
Evicted(d) ==
    LET n == NextEntry(d)
        e == log[n[1]][n[2]]
        m == Session(NONE, NONE)
    IN  /\ mem[d].head # NONE /\ Waiting(d, mem[d].head) # {}
        /\ d \notin Roster(e)
        /\ mem' = [mem EXCEPT ![d] = m]
        /\ Reseal(d, m, NONE, {n})
        /\ UNCHANGED <<epoch, disk, ready, out, log, acked, listed, invited, faults>>

\* onWelcome: join, or ack and drop a Welcome for a group we already hold.
\* Either way the ack does not wait for the reseal.
Join(d, e) ==
    LET m == Session(e, NONE)
    IN  /\ e \in invited[d]
        /\ invited' = [invited EXCEPT ![d] = @ \ {e}]
        /\ IF isPermanentWelcomeFailure(d)
           THEN UNCHANGED <<mem, listed, acked, jobs>>
           ELSE mem' = [mem EXCEPT ![d] = m] /\ Subscribe(d, e) /\ Reseal(d, m, NONE, {})
        /\ UNCHANGED <<epoch, disk, ready, out, log, faults>>

\* The commit is still on its way to d: in its transport or in the mailbox.
UnderWay(d, e) ==
    \/ Frame("commit", e) \in out[d]
    \/ \E i \in Waiting(d, epoch[e].parent) : log[epoch[e].parent][i] = e

\* Mutant: the timer merges the staged commit.
Backstop_Merges(d) ==
    LET m == Session(mem[d].pend, NONE)
    IN  /\ mem[d].armed
        /\ mem' = [mem EXCEPT ![d] = m]
        /\ Subscribe(d, m.head)
        /\ Reseal(d, m, NONE, {})
        /\ UNCHANGED <<epoch, disk, ready, out, log, invited, faults>>

\* Mutant: only an Add has a backstop.
Backstop_AddsOnly(d) ==
    /\ mem[d].armed /\ epoch[mem[d].pend].adds # {}
    /\ regime.timely => ~UnderWay(d, mem[d].pend)
    /\ mem' = [mem EXCEPT ![d] = Session(@.head, NONE)]
    /\ UNCHANGED <<epoch, disk, jobs, ready, out, log, acked, listed, invited, faults>>

\* ADD_CONFIRM_MS or RESTORE_CONFIRM_MS have passed: the staged commit is given
\* up, in memory only.
Backstop(d) ==
    /\ mem[d].armed
    /\ regime.timely => ~UnderWay(d, mem[d].pend)
    /\ mem' = [mem EXCEPT ![d] = Session(@.head, NONE)]
    /\ UNCHANGED <<epoch, disk, jobs, ready, out, log, acked, listed, invited, faults>>

-----------------------------------------------------------------------------
\* Mutant: a reload forgets the staged commit.
connectGateway_Forgets(d, saved, stranded) ==
    /\ faults < regime.faults
    /\ faults' = faults + 1
    /\ mem' = [mem EXCEPT ![d] = Session(saved.head, NONE)]
    /\ disk' = [disk EXCEPT ![d] = saved]
    /\ jobs' = [jobs EXCEPT ![d] = <<>>]
    /\ ready' = [ready EXCEPT ![d] = <<>>]
    /\ out' = [out EXCEPT ![d] = stranded]
    /\ IF saved.head = NONE THEN UNCHANGED <<listed, acked>> ELSE Subscribe(d, saved.head)
    /\ UNCHANGED <<epoch, log, invited>>

\* connectGateway: load the sealed group, supersede everything armed on the old
\* connection, re-issue the stranded publishes and the staged commit, re-arm.
connectGateway(d, saved, stranded) ==
    /\ faults < regime.faults
    /\ faults' = faults + 1
    /\ mem' = [mem EXCEPT ![d] =
          [Session(saved.head, saved.pend) EXCEPT !.armed = saved.pend # NONE]]
    /\ disk' = [disk EXCEPT ![d] = saved]
    /\ jobs' = [jobs EXCEPT ![d] = <<>>]
    /\ ready' = [ready EXCEPT ![d] = <<>>]
    /\ out' = [out EXCEPT ![d] =
          stranded \cup (IF saved.pend = NONE THEN {} ELSE Frames(saved.pend))]
    /\ IF saved.head = NONE THEN UNCHANGED <<listed, acked>> ELSE Subscribe(d, saved.head)
    /\ UNCHANGED <<epoch, log, invited>>

\* The page or the process dies and comes back: memory and transport are lost.
Crash(d) == connectGateway(d, disk[d], {})

\* The socket drops and is dialled again: reseals in flight finish before the
\* store is read, and the unsent publishes are lifted off the old transport.
Reconnect(d) ==
    LET j == jobs[d][Len(jobs[d])]
    IN  connectGateway(d, IF jobs[d] = <<>> THEN disk[d] ELSE [head |-> j.head, pend |-> j.pend],
                       out[d])

Step(d) ==
    \/ Sealed(d)
    \/ Continue(d)
    \/ \E f \in out[d] : Deliver(d, f)
    \/ DropOwn(d)
    \/ Merge(d)
    \/ Evicted(d)
    \/ \E e \in invited[d] : Join(d, e)
    \/ Backstop(d)

Fault(d) ==
    \/ SealFails(d)
    \/ \E f \in out[d] : Duplicate(d, f)
    \/ \E f \in out[d] : Lose(d, f)
    \/ Crash(d)
    \/ Reconnect(d)

Next ==
    /\ \E d \in Device :
          \/ \E x \in Device : Stage(d, {x}, {})
          \/ \E x \in Device : Stage(d, {}, {x})
          \/ Step(d)
          \/ Fault(d)
    /\ UNCHANGED regime

Spec == Init /\ [][Next]_vars

\* The client's event loop, its timers and the gateway keep running.
FairSpec == Spec /\ \A d \in Device : WF_vars(Step(d) /\ UNCHANGED regime)

-----------------------------------------------------------------------------
Orderly == regime.timely /\ regime.lockstep /\ ~regime.storeFails

\* Every device is on an epoch that was staged, and a staged commit leaves the
\* epoch the device is on.
TypeOK ==
    /\ \A d \in Device :
          /\ mem[d].head \in 0..Len(epoch) /\ mem[d].pend \in 0..Len(epoch)
          /\ mem[d].armed \in BOOLEAN
          /\ mem[d].pend # NONE => epoch[mem[d].pend].parent = mem[d].head
          /\ disk[d].pend # NONE => epoch[disk[d].pend].parent = disk[d].head
          /\ mem[d].armed => mem[d].pend # NONE
    /\ Len(log) = Len(epoch) /\ Len(listed) = Len(epoch)
    /\ regime \in Regimes /\ faults \in 0..regime.faults

\* A founder never sits on a key period of its own making: every commit it has
\* merged was fanned out by the gateway ("a wall clock is NOT evidence that
\* anyone received this commit", groupchannel.ts:1554).
NoPrivateEpoch ==
    \A d \in Founder : mem[d].head # NONE =>
        \A e \in epoch[mem[d].head].path \ {GENESIS} :
            \E i \in DOMAIN log[epoch[e].parent] : log[epoch[e].parent][i] = e

\* Two founders are never on rival epochs ("Either way there is no fork",
\* conversation.rs:1952), while no backstop fires early, no member lags behind
\* and the store works.
NoFork ==
    Orderly =>
    \A d, x \in Founder :
        mem[d].head # NONE /\ mem[x].head # NONE => Comparable(mem[d].head, mem[x].head)

\* A crash never strands a founder: the commits of others that lead on from its
\* durable epoch are still held for it, because the ack waits for the reseal,
\* in the same environments.
HeldUntilDurable ==
    Orderly =>
    \A d \in Founder : disk[d].head # NONE =>
        \A i \in DOMAIN log[disk[d].head] :
            <<disk[d].head, i>> \in acked[d] => d \in epoch[log[disk[d].head][i]].by

\* Once the faults are over every staged commit is confirmed, superseded or given up,
\* and the founders that were not removed agree.
Converges ==
    <>[](/\ \A d \in Device : ~mem[d].armed
         /\ \A d, x \in Founder :
               mem[d].head # NONE /\ mem[x].head # NONE => mem[d].head = mem[x].head)

\* "the new device's welcome is simply never confirmed; reconcile retries"
\* (conversation.rs:2024): a device on the members' current roster is on an
\* epoch of theirs, or an invitation to one is still on its way to it.
RetriedAddJoins ==
    \A x \in Device \ Founder :
        mem[x].head # NONE /\ (\A d \in Founder : mem[d].head # NONE /\ x \in Roster(mem[d].head)) =>
            \/ \E d \in Founder : Comparable(mem[d].head, mem[x].head)
            \/ invited[x] # {}
            \/ \E d \in Founder : \E f \in out[d] : f.kind = "welcome"

=============================================================================
