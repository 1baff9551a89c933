---------------------------- MODULE GroupProofs ----------------------------
(***************************************************************************)
(* What holds of the membership commits of one conversation (GroupCommit)  *)
(* for every set of devices, every number of commits and every number of   *)
(* crashes, reconnects, lost and duplicated frames.                        *)
(*                                                                         *)
(* GroupInv is inductive in every environment.  OrderInv adds what an      *)
(* orderly environment keeps: the way from the sealed epoch through the    *)
(* reseals in flight to the one in memory, and what was acked on that way. *)
(***************************************************************************)
EXTENDS GroupCommit, SequenceTheorems, WellFoundedInduction, TLAPS

-----------------------------------------------------------------------------
(* The invariant of every environment. *)

EpochRecord == [by : SUBSET Device, parent : Nat, adds : SUBSET Device, removes : SUBSET Device,
                roster : SUBSET Device, path : SUBSET Nat]
MemRecord == [head : Nat, pend : Nat, armed : BOOLEAN]
SealRecord == [head : Nat, pend : Nat]
JobRecord == [head : Nat, pend : Nat, pub : Nat, ack : SUBSET (Nat \X Nat)]
FrameRecord == [kind : {"commit", "welcome"}, e : Nat]

\* The epochs form a tree: each one extends the path of its parent.
Tree ==
    /\ epoch \in Seq(EpochRecord) /\ epoch # <<>>
    /\ \A e \in Epochs :
          /\ {GENESIS, e} \subseteq epoch[e].path /\ epoch[e].path \subseteq 1..e
          /\ e # GENESIS => /\ epoch[e].parent \in 1..(e - 1)
                            /\ epoch[e].path = epoch[epoch[e].parent].path \cup {e}
          /\ \A k \in epoch[e].path :
                /\ epoch[k].path \subseteq epoch[e].path
                /\ k # e => \E c \in epoch[e].path : c # GENESIS /\ epoch[c].parent = k

\* A founder is on every roster until it is revoked, so it is never invited.
FoundersStay ==
    \A e \in Epochs : Founder \subseteq Roster(e) \cup Revoked /\ epoch[e].adds \cap Founder = {}

\* The mailboxes and transports carry commits of their epoch, each from its author.
Mail(p) == \A i \in DOMAIN log[p] : log[p][i] \in Epochs \ {GENESIS} /\ epoch[log[p][i]].parent = p
Unsent(d) == \A f \in out[d] : f.e \in Epochs \ {GENESIS} /\ epoch[f.e].by = {d}
Welcomes(d) == \A e \in invited[d] : e \in Epochs /\ d \in epoch[e].adds

Carried ==
    /\ log \in Seq(Seq(Nat)) /\ Len(log) = Len(epoch)
    /\ listed \in Seq(SUBSET Device) /\ Len(listed) = Len(epoch)
    /\ out \in [Device -> SUBSET FrameRecord] /\ invited \in [Device -> SUBSET Nat]
    /\ \A p \in Epochs : Mail(p)
    /\ \A d \in Device : Unsent(d) /\ Welcomes(d)

\* A session: an epoch, and a commit of this device staged on it.
OnEpoch(d, head, pend) ==
    /\ head \in 0..Len(epoch) /\ pend \in 0..Len(epoch)
    /\ pend # NONE => pend # GENESIS /\ epoch[pend].parent = head /\ epoch[pend].by = {d}

\* The session in memory, the sealed one and those on their way to the store.
SessionOf(d) ==
    /\ mem[d] \in MemRecord /\ disk[d] \in SealRecord
    /\ jobs[d] \in Seq(JobRecord) /\ ready[d] \in Seq(JobRecord)
    /\ acked[d] \in SUBSET (Nat \X Nat)
    /\ OnEpoch(d, mem[d].head, mem[d].pend) /\ OnEpoch(d, disk[d].head, disk[d].pend)
    /\ mem[d].armed => mem[d].pend # NONE
    /\ \A i \in DOMAIN jobs[d] : /\ OnEpoch(d, jobs[d][i].head, jobs[d][i].pend)
                                 /\ jobs[d][i].pub \in {NONE, jobs[d][i].pend}
    /\ \A i \in DOMAIN ready[d] : ready[d][i].pub \in 0..Len(epoch)

Sessions ==
    /\ mem \in [Device -> MemRecord] /\ disk \in [Device -> SealRecord]
    /\ jobs \in [Device -> Seq(JobRecord)] /\ ready \in [Device -> Seq(JobRecord)]
    /\ acked \in [Device -> SUBSET (Nat \X Nat)]
    /\ \A d \in Device : SessionOf(d)

Bounds == regime \in Regimes /\ faults \in 0..regime.faults

\* The gateway has fanned out every commit on the way to an epoch.
FannedOut(h) ==
    h # NONE => \A c \in epoch[h].path \ {GENESIS} :
                    \E i \in DOMAIN log[epoch[c].parent] : log[epoch[c].parent][i] = c

Public(d) ==
    /\ FannedOut(mem[d].head) /\ FannedOut(disk[d].head)
    /\ \A i \in DOMAIN jobs[d] : FannedOut(jobs[d][i].head)

GroupInv ==
    /\ Tree /\ FoundersStay /\ Carried /\ Sessions /\ Bounds
    /\ \A d \in Founder : Public(d)

-----------------------------------------------------------------------------
(* What a step leaves alone. *)

\* No epoch changes, and no mailbox loses an entry.
EpochsGrow == Len(epoch) <= Len(epoch)' /\ \A e \in Epochs : epoch'[e] = epoch[e]
MailGrows ==
    \A p \in Epochs : /\ DOMAIN log[p] \subseteq DOMAIN log'[p]
                      /\ \A i \in DOMAIN log[p] : log'[p][i] = log[p][i]

\* Everything a device keeps for itself.
Idle(x) ==
    /\ mem'[x] = mem[x] /\ disk'[x] = disk[x] /\ jobs'[x] = jobs[x] /\ ready'[x] = ready[x]
    /\ acked'[x] = acked[x] /\ out'[x] = out[x]

\* The record of a staged commit.
NewEpoch(d, adds, removes) ==
    [by |-> {d}, parent |-> mem[d].head, adds |-> adds, removes |-> removes,
     roster |-> (Roster(mem[d].head) \cup adds) \ removes,
     path |-> epoch[mem[d].head].path \cup {Len(epoch) + 1}]

\* Staging appends one epoch, child of the head, with an empty mailbox.
LEMMA StagedEpoch ==
    ASSUME Tree, Carried, NEW d \in Device, SessionOf(d), NEW adds \in SUBSET Device,
           NEW removes \in SUBSET Device, Stage(d, adds, removes)
    PROVE  /\ mem[d].head \in Epochs
           /\ NewEpoch(d, adds, removes) \in EpochRecord
           /\ epoch' \in Seq(EpochRecord) /\ log' \in Seq(Seq(Nat)) /\ listed' \in Seq(SUBSET Device)
           /\ Len(epoch) \in Nat \ {0}
           /\ Len(epoch)' = Len(epoch) + 1 /\ Len(log)' = Len(epoch) + 1 /\ Len(listed)' = Len(epoch) + 1
           /\ \A e \in Epochs : epoch'[e] = epoch[e] /\ log'[e] = log[e] /\ listed'[e] = listed[e]
           /\ epoch'[Len(epoch) + 1] = NewEpoch(d, adds, removes)
           /\ log'[Len(epoch) + 1] = <<>> /\ listed'[Len(epoch) + 1] = {}
<1>1. /\ mem[d].head # NONE
      /\ epoch' = Append(epoch, NewEpoch(d, adds, removes))
      /\ log' = Append(log, <<>>) /\ listed' = Append(listed, {})
  BY DEF Stage, NewEpoch, Roster
<1>2. epoch \in Seq(EpochRecord) /\ epoch # <<>> /\ log \in Seq(Seq(Nat)) /\ listed \in Seq(SUBSET Device)
      /\ Len(log) = Len(epoch) /\ Len(listed) = Len(epoch)
  BY DEF Tree, Carried
<1>3. Len(epoch) \in Nat \ {0}
  BY <1>2, LenProperties, EmptySeq
<1>4. mem[d].head \in Epochs
  BY <1>1, <1>3 DEF SessionOf, OnEpoch, Epochs, NONE
<1>5. epoch[mem[d].head] \in EpochRecord
  BY <1>2, <1>4, ElementOfSeq DEF Epochs
<1>6. NewEpoch(d, adds, removes) \in EpochRecord
  <2>1. mem[d].head \in Nat /\ epoch[mem[d].head].path \in SUBSET Nat
        /\ Roster(mem[d].head) \in SUBSET Device
    BY <1>3, <1>4, <1>5 DEF EpochRecord, Roster, Epochs
  <2> QED BY <2>1, <1>3 DEF NewEpoch, EpochRecord
<1>7. <<>> \in Seq(Nat) /\ {} \in SUBSET Device
  BY EmptySeq
<1>8. /\ epoch' \in Seq(EpochRecord) /\ Len(epoch') = Len(epoch) + 1
      /\ \A e \in 1..Len(epoch) : epoch'[e] = epoch[e]
      /\ epoch'[Len(epoch) + 1] = NewEpoch(d, adds, removes)
  BY <1>1, <1>2, <1>6, AppendProperties
<1>9. /\ log' \in Seq(Seq(Nat)) /\ Len(log') = Len(epoch) + 1
      /\ \A e \in 1..Len(epoch) : log'[e] = log[e]
      /\ log'[Len(epoch) + 1] = <<>>
  BY <1>1, <1>2, <1>7, AppendProperties
<1>10. /\ listed' \in Seq(SUBSET Device) /\ Len(listed') = Len(epoch) + 1
       /\ \A e \in 1..Len(epoch) : listed'[e] = listed[e]
       /\ listed'[Len(epoch) + 1] = {}
  BY <1>1, <1>2, <1>7, AppendProperties
<1> QED BY <1>3, <1>4, <1>6, <1>8, <1>9, <1>10 DEF Epochs

\* A staged epoch extends its parent's path, so the epochs stay a tree.
LEMMA StageTree ==
    ASSUME Tree, Carried, NEW d \in Device, SessionOf(d), NEW adds \in SUBSET Device,
           NEW removes \in SUBSET Device, Stage(d, adds, removes)
    PROVE  Tree'
<1> DEFINE L == Len(epoch)
           N == NewEpoch(d, adds, removes)
           h == mem[d].head
<1>1. /\ h \in 1..L /\ L \in Nat \ {0} /\ Len(epoch') = L + 1 /\ epoch' \in Seq(EpochRecord)
      /\ \A e \in 1..L : epoch'[e] = epoch[e]
      /\ epoch'[L + 1] = N
  BY StagedEpoch DEF Epochs
<1>2. N.parent = h /\ N.path = epoch[h].path \cup {L + 1}
  BY DEF NewEpoch
<1>3. \A e \in 1..L :
          /\ {GENESIS, e} \subseteq epoch[e].path /\ epoch[e].path \subseteq 1..e
          /\ e # GENESIS => /\ epoch[e].parent \in 1..(e - 1)
                            /\ epoch[e].path = epoch[epoch[e].parent].path \cup {e}
          /\ \A k \in epoch[e].path :
                /\ epoch[k].path \subseteq epoch[e].path
                /\ k # e => \E c \in epoch[e].path : c # GENESIS /\ epoch[c].parent = k
  BY DEF Tree, Epochs
<1> HIDE DEF L, N, h
<1>4. \A e \in 1..L : epoch[e].path \subseteq 1..L
  BY <1>1, <1>3
<1>5. ASSUME NEW e \in 1..(L + 1)
      PROVE  /\ {GENESIS, e} \subseteq epoch'[e].path /\ epoch'[e].path \subseteq 1..e
             /\ e # GENESIS => /\ epoch'[e].parent \in 1..(e - 1)
                               /\ epoch'[e].path = epoch'[epoch'[e].parent].path \cup {e}
  <2>1. CASE e \in 1..L
    <3>1. epoch'[e] = epoch[e]
      BY <1>1, <2>1
    <3>2. e # GENESIS => epoch[e].parent \in 1..L
      BY <1>1, <1>3, <2>1
    <3> QED BY SMTT(30), <1>1, <1>3, <2>1, <3>1, <3>2
  <2>2. CASE e = L + 1
    <3>1. epoch'[e] = N /\ epoch'[h] = epoch[h] /\ GENESIS \in epoch[h].path /\ epoch[h].path \subseteq 1..L
      BY <1>1, <1>3, <1>4, <2>2
    <3>2. e # GENESIS
      BY <1>1, <2>2 DEF GENESIS
    <3> QED BY <1>1, <1>2, <2>2, <3>1, <3>2
  <2> QED BY <1>1, <2>1, <2>2
<1>6. ASSUME NEW e \in 1..(L + 1), NEW k \in epoch'[e].path
      PROVE  /\ epoch'[k].path \subseteq epoch'[e].path
             /\ k # e => \E c \in epoch'[e].path : c # GENESIS /\ epoch'[c].parent = k
  <2>1. CASE e \in 1..L
    <3>1. epoch'[e] = epoch[e] /\ k \in 1..L /\ epoch'[k] = epoch[k]
      BY <1>1, <1>4, <2>1
    <3>2. \A c \in epoch[e].path : epoch'[c] = epoch[c]
      BY <1>1, <1>4, <2>1
    <3> QED BY <1>3, <2>1, <3>1, <3>2
  <2>2. CASE e = L + 1
    <3>1. epoch'[e] = N /\ N.path = epoch[h].path \cup {e} /\ N.parent = h /\ e # GENESIS
      BY <1>1, <1>2, <2>2 DEF GENESIS
    <3>2. \A c \in epoch[h].path : epoch'[c] = epoch[c]
      BY <1>1, <1>4
    <3>3. CASE k = e
      BY <3>3
    <3>4. CASE k = h
      <4>1. epoch'[k].path \subseteq epoch'[e].path
        BY <1>1, <3>1, <3>4
      <4>2. e \in epoch'[e].path /\ e # GENESIS /\ epoch'[e].parent = k
        BY <3>1, <3>4
      <4> QED BY <4>1, <4>2
    <3>5. CASE k \in epoch[h].path /\ k # h
      <4>1. PICK c \in epoch[h].path : c # GENESIS /\ epoch[c].parent = k
        BY <1>1, <1>3, <3>5
      <4>2. epoch[k].path \subseteq epoch[h].path
        BY <1>1, <1>3, <3>5
      <4>3. epoch'[k] = epoch[k] /\ epoch'[c] = epoch[c]
        BY <3>2, <3>5
      <4>4. epoch'[k].path \subseteq epoch'[e].path
        BY <3>1, <4>2, <4>3
      <4>5. c \in epoch'[e].path /\ epoch'[c].parent = k
        BY <3>1, <4>1, <4>3
      <4> QED BY <4>1, <4>4, <4>5
    <3> QED BY <3>1, <3>3, <3>4, <3>5
  <2> QED BY <1>1, <2>1, <2>2
<1>7. epoch' # <<>>
  BY <1>1, EmptySeq
<1>8. Epochs' = 1..(L + 1)
  BY <1>1 DEF Epochs
<1> QED BY <1>1, <1>5, <1>6, <1>7, <1>8 DEF Tree
\* Removed devices stay revoked, and a revoked device or a member is never added.
LEMMA StageFounders ==
    ASSUME Tree, FoundersStay, Carried, NEW d \in Device, SessionOf(d), NEW adds \in SUBSET Device,
           NEW removes \in SUBSET Device, Stage(d, adds, removes)
    PROVE  FoundersStay'
<1> DEFINE L == Len(epoch)
           N == NewEpoch(d, adds, removes)
           h == mem[d].head
<1>1. /\ h \in 1..L /\ L \in Nat \ {0} /\ Len(epoch') = L + 1
      /\ \A e \in 1..L : epoch'[e] = epoch[e]
      /\ epoch'[L + 1] = N
  BY StagedEpoch DEF Epochs
<1>2. N.adds = adds /\ N.removes = removes /\ N.roster = (epoch[h].roster \cup adds) \ removes
  BY DEF NewEpoch, Roster
<1>3. adds \cap (epoch[h].roster \cup Revoked) = {}
  BY DEF Stage, Roster
<1>4. \A e \in 1..L : Founder \subseteq epoch[e].roster \cup Revoked /\ epoch[e].adds \cap Founder = {}
  BY DEF FoundersStay, Roster, Epochs
<1>5. Epochs = 1..L /\ Epochs' = 1..(L + 1)
  BY <1>1 DEF Epochs
<1> HIDE DEF L, N, h
<1>6. ASSUME NEW x \in Revoked PROVE x \in Revoked'
  <2>1. PICK e \in 1..L : x \in epoch[e].removes
    BY <1>5 DEF Revoked
  <2>2. e \in Epochs' /\ x \in epoch'[e].removes
    BY <1>1, <1>5, <2>1
  <2> QED BY <2>2 DEF Revoked
<1>7. ASSUME NEW x \in removes PROVE x \in Revoked'
  <2>1. L + 1 \in Epochs' /\ x \in epoch'[L + 1].removes
    BY <1>1, <1>2, <1>5
  <2> QED BY <2>1 DEF Revoked
<1>8. ASSUME NEW e \in 1..(L + 1)
      PROVE  Founder \subseteq epoch'[e].roster \cup Revoked' /\ epoch'[e].adds \cap Founder = {}
  <2>1. CASE e \in 1..L
    BY <1>1, <1>4, <1>6, <2>1
  <2>2. CASE e = L + 1
    <3>1. epoch'[e] = N /\ Founder \subseteq epoch[h].roster \cup Revoked
      BY <1>1, <1>4, <2>2
    <3>2. adds \cap Founder = {}
      BY <1>3, <3>1
    <3> QED BY <1>2, <1>6, <1>7, <3>1, <3>2
  <2> QED BY <1>1, <2>1, <2>2
<1> QED BY <1>5, <1>8 DEF FoundersStay, Roster
\* Every epoch number in use stays one.
LEMMA Numbers ==
    ASSUME Tree, Tree', EpochsGrow
    PROVE  /\ Len(epoch) \in Nat /\ Len(epoch)' \in Nat /\ Len(epoch) <= Len(epoch)'
           /\ Epochs = 1..Len(epoch) /\ Epochs' = 1..Len(epoch)'
           /\ Epochs \subseteq Epochs'
           /\ \A e \in Epochs : epoch'[e] = epoch[e]
<1>1. Len(epoch) \in Nat /\ Len(epoch') \in Nat
  BY LenProperties DEF Tree
<1> QED BY <1>1 DEF EpochsGrow, Epochs

\* A session stays on its epoch when epochs are added.
LEMMA OnEpochKept ==
    ASSUME Tree, Tree', EpochsGrow, NEW x, NEW hd, NEW pd, OnEpoch(x, hd, pd)
    PROVE  OnEpoch(x, hd, pd)'
BY Numbers DEF OnEpoch, NONE

\* The session of a device that takes no part in a step is not disturbed by it.
LEMMA SessionKept ==
    ASSUME Tree, Tree', EpochsGrow, NEW x \in Device, SessionOf(x), Idle(x)
    PROVE  SessionOf(x)'
<1>1. /\ OnEpoch(x, mem[x].head, mem[x].pend) /\ OnEpoch(x, disk[x].head, disk[x].pend)
      /\ \A i \in DOMAIN jobs[x] : OnEpoch(x, jobs[x][i].head, jobs[x][i].pend)
  BY DEF SessionOf
<1>2. mem'[x] = mem[x] /\ disk'[x] = disk[x] /\ jobs'[x] = jobs[x] /\ ready'[x] = ready[x]
      /\ acked'[x] = acked[x]
  BY DEF Idle
<1>3. OnEpoch(x, mem[x].head, mem[x].pend)'
  <2>1. PICK hd, pd : hd = mem[x].head /\ pd = mem[x].pend
    OBVIOUS
  <2>2. OnEpoch(x, hd, pd)'
    BY <1>1, <2>1, OnEpochKept
  <2> QED BY <1>2, <2>1, <2>2
<1>4. OnEpoch(x, disk[x].head, disk[x].pend)'
  <2>1. PICK hd, pd : hd = disk[x].head /\ pd = disk[x].pend
    OBVIOUS
  <2>2. OnEpoch(x, hd, pd)'
    BY <1>1, <2>1, OnEpochKept
  <2> QED BY <1>2, <2>1, <2>2
<1>5. ASSUME NEW i \in DOMAIN jobs[x] PROVE OnEpoch(x, jobs[x][i].head, jobs[x][i].pend)'
  <2>1. PICK hd, pd : hd = jobs[x][i].head /\ pd = jobs[x][i].pend
    OBVIOUS
  <2>2. OnEpoch(x, hd, pd)'
    BY <1>1, <2>1, OnEpochKept
  <2> QED BY <1>2, <2>1, <2>2
<1>6. 0..Len(epoch) \subseteq 0..Len(epoch)'
  BY Numbers
<1> QED BY <1>2, <1>3, <1>4, <1>5, <1>6 DEF SessionOf

\* So are its unsent frames and its Welcomes.
LEMMA CarriageKept ==
    ASSUME Tree, Tree', EpochsGrow, NEW x \in Device
    PROVE  /\ Unsent(x) /\ out'[x] = out[x] => Unsent(x)'
           /\ Welcomes(x) /\ invited'[x] = invited[x] => Welcomes(x)'
BY Numbers DEF Unsent, Welcomes

\* What the gateway has fanned out stays so.
LEMMA FannedKept ==
    ASSUME Tree, EpochsGrow, MailGrows, NEW h \in 0..Len(epoch), FannedOut(h)
    PROVE  FannedOut(h)'
<1>1. SUFFICES ASSUME h # NONE PROVE FannedOut(h)'
  BY DEF FannedOut
<1>2. h \in Epochs /\ Len(epoch) \in Nat
  BY <1>1, LenProperties DEF Epochs, NONE, Tree
<1>3. epoch'[h] = epoch[h] /\ epoch[h].path \subseteq Epochs
  BY <1>2 DEF EpochsGrow, Tree, Epochs
<1>4. ASSUME NEW c \in epoch'[h].path \ {GENESIS}
      PROVE  \E i \in DOMAIN log'[epoch'[c].parent] : log'[epoch'[c].parent][i] = c
  <2>1. c \in epoch[h].path \ {GENESIS} /\ c \in Epochs /\ epoch'[c] = epoch[c]
    BY <1>3 DEF EpochsGrow
  <2>2. epoch[c].parent \in Epochs
    BY <1>2, <2>1 DEF Tree, Epochs
  <2>3. PICK i \in DOMAIN log[epoch[c].parent] : log[epoch[c].parent][i] = c
    BY <1>1, <2>1 DEF FannedOut
  <2> QED BY <2>1, <2>2, <2>3 DEF MailGrows
<1> QED BY <1>4 DEF FannedOut

\* The founder's sessions stay on fanned out epochs.
LEMMA PublicKept ==
    ASSUME Tree, EpochsGrow, MailGrows, NEW x \in Device, SessionOf(x), Public(x), Idle(x)
    PROVE  Public(x)'
<1>1. /\ mem[x].head \in 0..Len(epoch) /\ disk[x].head \in 0..Len(epoch)
      /\ \A i \in DOMAIN jobs[x] : jobs[x][i].head \in 0..Len(epoch)
  BY DEF SessionOf, OnEpoch
<1>2. mem'[x] = mem[x] /\ disk'[x] = disk[x] /\ jobs'[x] = jobs[x]
  BY DEF Idle
<1>3. /\ FannedOut(mem[x].head) /\ FannedOut(disk[x].head)
      /\ \A i \in DOMAIN jobs[x] : FannedOut(jobs[x][i].head)
  BY DEF Public
<1>4. FannedOut(mem[x].head)'
  <2>1. PICK h \in 0..Len(epoch) : h = mem[x].head
    BY <1>1
  <2>2. FannedOut(h)'
    BY <1>3, <2>1, FannedKept
  <2> QED BY <1>2, <2>1, <2>2
<1>5. FannedOut(disk[x].head)'
  <2>1. PICK h \in 0..Len(epoch) : h = disk[x].head
    BY <1>1
  <2>2. FannedOut(h)'
    BY <1>3, <2>1, FannedKept
  <2> QED BY <1>2, <2>1, <2>2
<1>6. ASSUME NEW i \in DOMAIN jobs[x] PROVE FannedOut(jobs[x][i].head)'
  <2>1. PICK h \in 0..Len(epoch) : h = jobs[x][i].head
    BY <1>1
  <2>2. FannedOut(h)'
    BY <1>3, <2>1, FannedKept
  <2> QED BY <1>2, <2>1, <2>2
<1> QED BY <1>2, <1>4, <1>5, <1>6 DEF Public
-----------------------------------------------------------------------------
(* The pieces actions are made of. *)

\* A reseal is queued behind those in flight.
LEMMA ResealQueued ==
    ASSUME Sessions, NEW d \in Device, NEW m, m.head \in Nat, m.pend \in Nat, NEW pub \in Nat,
           NEW ack \in SUBSET (Nat \X Nat), Reseal(d, m, pub, ack)
    PROVE  /\ jobs' \in [Device -> Seq(JobRecord)]
           /\ \A x \in Device \ {d} : jobs'[x] = jobs[x]
           /\ Len(jobs[d]) \in Nat /\ DOMAIN jobs[d] = 1..Len(jobs[d])
           /\ DOMAIN jobs'[d] = 1..(Len(jobs[d]) + 1) /\ Len(jobs'[d]) = Len(jobs[d]) + 1
           /\ \A i \in DOMAIN jobs[d] : jobs'[d][i] = jobs[d][i]
           /\ jobs'[d][Len(jobs[d]) + 1] = [head |-> m.head, pend |-> m.pend, pub |-> pub, ack |-> ack]
<1> DEFINE j == [head |-> m.head, pend |-> m.pend, pub |-> pub, ack |-> ack]
           q == jobs[d]
<1>1. jobs \in [Device -> Seq(JobRecord)] /\ q \in Seq(JobRecord)
  BY DEF Sessions
<1>2. j \in JobRecord
  BY DEF JobRecord
<1>3. jobs' = [jobs EXCEPT ![d] = Append(q, j)]
  BY DEF Reseal
<1> HIDE DEF j, q
<1>4. /\ Append(q, j) \in Seq(JobRecord) /\ Len(Append(q, j)) = Len(q) + 1
      /\ \A i \in 1..Len(q) : Append(q, j)[i] = q[i]
      /\ Append(q, j)[Len(q) + 1] = j
  BY <1>1, <1>2, AppendProperties
<1>5. Len(q) \in Nat /\ DOMAIN q = 1..Len(q) /\ DOMAIN Append(q, j) = 1..Len(Append(q, j))
  BY <1>1, <1>4, LenProperties
<1>6. /\ jobs' \in [Device -> Seq(JobRecord)] /\ jobs'[d] = Append(q, j)
      /\ \A x \in Device \ {d} : jobs'[x] = jobs[x]
  BY <1>1, <1>3, <1>4
<1> QED BY <1>4, <1>5, <1>6 DEF j, q

\* The first reseal of the queue is taken from it.
LEMMA JobTaken ==
    ASSUME Sessions, NEW d \in Device, jobs[d] # <<>>, jobs' = [jobs EXCEPT ![d] = Tail(@)]
    PROVE  /\ jobs' \in [Device -> Seq(JobRecord)]
           /\ \A x \in Device \ {d} : jobs'[x] = jobs[x]
           /\ Len(jobs[d]) \in Nat \ {0} /\ DOMAIN jobs[d] = 1..Len(jobs[d])
           /\ 1 \in DOMAIN jobs[d] /\ jobs[d][1] = Head(jobs[d]) /\ Head(jobs[d]) \in JobRecord
           /\ DOMAIN jobs'[d] = 1..(Len(jobs[d]) - 1) /\ Len(jobs'[d]) = Len(jobs[d]) - 1
           /\ \A i \in DOMAIN jobs'[d] : i + 1 \in DOMAIN jobs[d] /\ jobs'[d][i] = jobs[d][i + 1]
<1> DEFINE q == jobs[d]
<1>1. jobs \in [Device -> Seq(JobRecord)] /\ q \in Seq(JobRecord) /\ q # <<>>
  BY DEF Sessions
<1>2. jobs' = [jobs EXCEPT ![d] = Tail(q)]
  OBVIOUS
<1> HIDE DEF q
<1>3. /\ Head(q) \in JobRecord /\ Tail(q) \in Seq(JobRecord) /\ Len(Tail(q)) = Len(q) - 1
      /\ \A i \in 1..Len(Tail(q)) : Tail(q)[i] = q[i + 1]
  BY <1>1, HeadTailProperties
<1>4. Len(q) \in Nat \ {0} /\ DOMAIN q = 1..Len(q) /\ DOMAIN Tail(q) = 1..Len(Tail(q))
  BY <1>1, <1>3, LenProperties, EmptySeq
<1>5. Head(q) = q[1]
  BY <1>1
<1>6. /\ jobs' \in [Device -> Seq(JobRecord)] /\ jobs'[d] = Tail(q)
      /\ \A x \in Device \ {d} : jobs'[x] = jobs[x]
  BY <1>1, <1>2, <1>3
<1>7. \A i \in 1..Len(Tail(q)) : i + 1 \in 1..Len(q)
  BY <1>3, <1>4
<1> QED BY <1>3, <1>4, <1>5, <1>6, <1>7 DEF q

\* Its continuation waits behind the finished ones.
LEMMA ContinuationQueued ==
    ASSUME Sessions, NEW d \in Device, NEW j \in JobRecord, ready' = [ready EXCEPT ![d] = Append(@, j)]
    PROVE  /\ ready' \in [Device -> Seq(JobRecord)]
           /\ \A x \in Device \ {d} : ready'[x] = ready[x]
           /\ \A i \in DOMAIN ready'[d] : \/ i \in DOMAIN ready[d] /\ ready'[d][i] = ready[d][i]
                                          \/ ready'[d][i] = j
<1> DEFINE q == ready[d]
<1>1. ready \in [Device -> Seq(JobRecord)] /\ q \in Seq(JobRecord)
  BY DEF Sessions
<1>2. ready' = [ready EXCEPT ![d] = Append(q, j)]
  OBVIOUS
<1> HIDE DEF q
<1>3. /\ Append(q, j) \in Seq(JobRecord) /\ Len(Append(q, j)) = Len(q) + 1
      /\ \A i \in 1..Len(q) : Append(q, j)[i] = q[i]
      /\ Append(q, j)[Len(q) + 1] = j
  BY <1>1, AppendProperties
<1>4. Len(q) \in Nat /\ DOMAIN q = 1..Len(q) /\ DOMAIN Append(q, j) = 1..Len(Append(q, j))
  BY <1>1, <1>3, LenProperties
<1>5. /\ ready' \in [Device -> Seq(JobRecord)] /\ ready'[d] = Append(q, j)
      /\ \A x \in Device \ {d} : ready'[x] = ready[x]
  BY <1>1, <1>2, <1>3
<1>6. \A i \in 1..(Len(q) + 1) : i \in 1..Len(q) \/ i = Len(q) + 1
  BY <1>4
<1> QED BY <1>3, <1>4, <1>5, <1>6 DEF q

\* The first continuation runs.
LEMMA ContinuationTaken ==
    ASSUME Sessions, NEW d \in Device, ready[d] # <<>>, ready' = [ready EXCEPT ![d] = Tail(@)]
    PROVE  /\ ready' \in [Device -> Seq(JobRecord)]
           /\ \A x \in Device \ {d} : ready'[x] = ready[x]
           /\ 1 \in DOMAIN ready[d] /\ ready[d][1] = Head(ready[d]) /\ Head(ready[d]) \in JobRecord
           /\ \A i \in DOMAIN ready'[d] : i + 1 \in DOMAIN ready[d] /\ ready'[d][i] = ready[d][i + 1]
<1> DEFINE q == ready[d]
<1>1. ready \in [Device -> Seq(JobRecord)] /\ q \in Seq(JobRecord) /\ q # <<>>
  BY DEF Sessions
<1>2. ready' = [ready EXCEPT ![d] = Tail(q)]
  OBVIOUS
<1> HIDE DEF q
<1>3. /\ Head(q) \in JobRecord /\ Tail(q) \in Seq(JobRecord) /\ Len(Tail(q)) = Len(q) - 1
      /\ \A i \in 1..Len(Tail(q)) : Tail(q)[i] = q[i + 1]
  BY <1>1, HeadTailProperties
<1>4. Len(q) \in Nat \ {0} /\ DOMAIN q = 1..Len(q) /\ DOMAIN Tail(q) = 1..Len(Tail(q))
  BY <1>1, <1>3, LenProperties, EmptySeq
<1>5. Head(q) = q[1]
  BY <1>1
<1>6. /\ ready' \in [Device -> Seq(JobRecord)] /\ ready'[d] = Tail(q)
      /\ \A x \in Device \ {d} : ready'[x] = ready[x]
  BY <1>1, <1>2, <1>3
<1>7. \A i \in 1..Len(Tail(q)) : i + 1 \in 1..Len(q)
  BY <1>3, <1>4
<1> QED BY <1>3, <1>4, <1>5, <1>6, <1>7 DEF q

\* A new cursor starts behind what the mailbox has dropped.
LEMMA Subscribed ==
    ASSUME Tree, Carried, Sessions, NEW d \in Device, NEW e \in Epochs, Subscribe(d, e)
    PROVE  /\ listed' \in Seq(SUBSET Device) /\ Len(listed)' = Len(listed)
           /\ \A p \in Epochs : listed[p] \subseteq listed'[p]
           /\ acked' \in [Device -> SUBSET (Nat \X Nat)]
           /\ \A x \in Device \ {d} : acked'[x] = acked[x]
           /\ acked'[d] = acked[d] \/ acked'[d] = acked[d] \cup {<<e, i>> : i \in Dropped(e)}
           /\ d \in listed[e] => acked'[d] = acked[d]
<1>1. /\ listed \in Seq(SUBSET Device) /\ Len(listed) = Len(epoch) /\ DOMAIN listed = 1..Len(listed)
      /\ listed' = [listed EXCEPT ![e] = listed[e] \cup {d}]
      /\ e \in DOMAIN listed /\ acked \in [Device -> SUBSET (Nat \X Nat)]
      /\ log \in Seq(Seq(Nat)) /\ Len(log) = Len(epoch)
      /\ Len(epoch) \in Nat
  BY LenProperties DEF Carried, Subscribe, Epochs, Sessions, Tree
<1>2. listed[e] \cup {d} \in SUBSET Device
  BY <1>1, ElementOfSeq DEF Epochs
<1>3. /\ listed' \in Seq(SUBSET Device) /\ Len(listed') = Len(listed)
      /\ \A p \in Epochs : listed'[p] = IF p = e THEN listed[e] \cup {d} ELSE listed[p]
  BY <1>1, <1>2, ExceptSeq DEF Epochs
<1>4. Dropped(e) \subseteq Nat /\ e \in Nat
  BY <1>1 DEF Dropped, Epochs
<1>5. {<<e, i>> : i \in Dropped(e)} \in SUBSET (Nat \X Nat)
  BY <1>4
<1>6. acked' = IF d \in listed[e] THEN acked
                ELSE [acked EXCEPT ![d] = acked[d] \cup {<<e, i>> : i \in Dropped(e)}]
  BY DEF Subscribe
<1> HIDE DEF Dropped
<1>7. /\ acked' \in [Device -> SUBSET (Nat \X Nat)]
      /\ \A x \in Device \ {d} : acked'[x] = acked[x]
      /\ acked'[d] = acked[d] \/ acked'[d] = acked[d] \cup {<<e, i>> : i \in Dropped(e)}
      /\ d \in listed[e] => acked'[d] = acked[d]
  <2>1. CASE d \in listed[e]
    BY <1>1, <1>6, <2>1
  <2>2. CASE d \notin listed[e]
    <3> DEFINE new == acked[d] \cup {<<e, i>> : i \in Dropped(e)}
    <3>1. new \in SUBSET (Nat \X Nat) /\ acked' = [acked EXCEPT ![d] = new]
      BY <1>1, <1>5, <1>6, <2>2
    <3> HIDE DEF new
    <3>2. acked' \in [Device -> SUBSET (Nat \X Nat)] /\ acked'[d] = new
          /\ \A x \in Device \ {d} : acked'[x] = acked[x]
      BY <1>1, <3>1
    <3> QED BY <2>2, <3>2 DEF new
  <2> QED BY <2>1, <2>2
<1> QED BY <1>3, <1>7

\* The next entry is the first of the mailbox that is not acked.
LEMMA NextIsFirst ==
    ASSUME Tree, Carried, NEW d \in Device, mem[d].head \in Epochs, Waiting(d, mem[d].head) # {}
    PROVE  \E i \in Waiting(d, mem[d].head) :
              /\ NextEntry(d) = <<mem[d].head, i>>
              /\ \A j \in Waiting(d, mem[d].head) : i <= j
              /\ i \in DOMAIN log[mem[d].head] /\ i \in Nat
<1> DEFINE w == Waiting(d, mem[d].head)
<1>1. log[mem[d].head] \in Seq(Nat)
  BY LenProperties, ElementOfSeq DEF Carried, Epochs, Tree
<1>2. w \subseteq DOMAIN log[mem[d].head] /\ w \subseteq Nat
  BY <1>1, LenProperties DEF Waiting
<1>3. w # {}
  OBVIOUS
<1>4. NextEntry(d) = <<mem[d].head, CHOOSE i \in w : \A j \in w : i <= j>>
  BY DEF NextEntry
<1> HIDE DEF w
<1>5. IsWellFoundedOn({ss \in Nat \X Nat : ss[1] < ss[2]}, Nat)
  BY NatLessThanWellFounded, Zenon DEF OpToRel
<1> DEFINE R == {ss \in Nat \X Nat : ss[1] < ss[2]}
<1> HIDE DEF R
<1>6. PICK x \in w : \A y \in w : ~(<<y, x>> \in R)
  <2>1. IsWellFoundedOn(R, Nat)
    BY <1>5 DEF R
  <2> QED BY <1>2, <1>3, <2>1, WFMin
<1>7. ASSUME NEW y \in w PROVE x <= y
  <2>1. x \in Nat /\ y \in Nat /\ ~(<<y, x>> \in R)
    BY <1>2, <1>6
  <2>2. y < x => <<y, x>> \in R
    BY <2>1 DEF R
  <2> QED BY <2>1, <2>2
<1>8. PICK i : i = CHOOSE k \in w : \A j \in w : k <= j
  OBVIOUS
<1>9. i \in w /\ \A j \in w : i <= j
  BY <1>7, <1>8
<1> QED BY <1>2, <1>4, <1>8, <1>9 DEF w
-----------------------------------------------------------------------------
(* Every step keeps GroupInv. *)

\* A step of d that stages nothing and publishes nothing has only d's own state to answer for.
LEMMA OwnStep ==
    ASSUME GroupInv, NEW d \in Device, epoch' = epoch, log' = log, regime' = regime,
           listed' \in Seq(SUBSET Device), Len(listed)' = Len(listed),
           invited' \in [Device -> SUBSET Nat], \A x \in Device : invited'[x] \subseteq invited[x],
           mem' \in [Device -> MemRecord], disk' \in [Device -> SealRecord],
           jobs' \in [Device -> Seq(JobRecord)], ready' \in [Device -> Seq(JobRecord)],
           acked' \in [Device -> SUBSET (Nat \X Nat)], out' \in [Device -> SUBSET FrameRecord],
           \A x \in Device \ {d} : Idle(x),
           faults' \in 0..regime.faults,
           Unsent(d)', SessionOf(d)', d \in Founder => Public(d)'
    PROVE  GroupInv' /\ EpochsGrow /\ MailGrows
<1>1. Tree /\ FoundersStay /\ Carried /\ Sessions /\ Bounds /\ \A x \in Founder : Public(x)
  BY DEF GroupInv
<1>2. Tree'
  BY <1>1 DEF Tree, Epochs
<1>3. FoundersStay'
  BY <1>1 DEF FoundersStay, Epochs, Roster, Revoked
<1>4. EpochsGrow /\ MailGrows
  <2>1. Len(epoch) \in Nat
    BY <1>1, LenProperties DEF Tree
  <2> QED BY <2>1 DEF EpochsGrow, MailGrows
<1>5. ASSUME NEW p \in Epochs' PROVE Mail(p)'
  BY <1>1, <1>5 DEF Carried, Mail, Epochs
<1>6. ASSUME NEW x \in Device PROVE Unsent(x)' /\ Welcomes(x)'
  <2>1. Welcomes(x)'
    BY <1>1 DEF Carried, Welcomes, Epochs
  <2>2. CASE x = d
    BY <2>1, <2>2
  <2>3. CASE x # d
    BY <1>1, <1>2, <1>4, <2>1, <2>3, CarriageKept DEF Carried, Idle
  <2> QED BY <2>2, <2>3
<1>7. Carried'
  <2>1. Len(log') = Len(epoch') /\ Len(listed') = Len(epoch') /\ log' \in Seq(Seq(Nat))
    BY <1>1 DEF Carried
  <2> QED BY <1>5, <1>6, <2>1 DEF Carried
<1>8. ASSUME NEW x \in Device PROVE SessionOf(x)'
  BY <1>1, <1>2, <1>4, SessionKept DEF Sessions
<1>9. Sessions'
  BY <1>8 DEF Sessions
<1>10. Bounds'
  BY <1>1 DEF Bounds
<1>11. ASSUME NEW x \in Founder PROVE Public(x)'
  BY <1>1, <1>4, PublicKept, DeviceAssumption DEF Sessions
<1> QED BY <1>2, <1>3, <1>4, <1>7, <1>9, <1>10, <1>11 DEF GroupInv

\* A session on the same epochs, with the same fanned out commits, holds as before.
LEMMA SameGround ==
    ASSUME epoch' = epoch, log' = log, NEW x, NEW hd, NEW pd
    PROVE  /\ OnEpoch(x, hd, pd)' <=> OnEpoch(x, hd, pd)
           /\ FannedOut(hd)' <=> FannedOut(hd)
BY DEF OnEpoch, FannedOut

\* The reseal that finishes leaves what it sealed on disk, or not, and its continuation.
LEMMA SealedKeeps ==
    ASSUME GroupInv, NEW d \in Device, Sealed(d) \/ SealFails(d), regime' = regime
    PROVE  GroupInv' /\ EpochsGrow /\ MailGrows
<1>1. Tree /\ FoundersStay /\ Carried /\ Sessions /\ Bounds /\ \A x \in Founder : Public(x)
  BY DEF GroupInv
<1> DEFINE j == Head(jobs[d])
<1>2. /\ jobs[d] # <<>> /\ jobs' = [jobs EXCEPT ![d] = Tail(@)]
      /\ ready' = [ready EXCEPT ![d] = Append(@, j)]
      /\ UNCHANGED <<epoch, mem, out, log, acked, listed, invited>>
      /\ disk' = disk \/ disk' = [disk EXCEPT ![d] = [head |-> j.head, pend |-> j.pend]]
      /\ faults' = faults \/ (faults < regime.faults /\ faults' = faults + 1)
  BY DEF Sealed, SealFails
<1>3. /\ jobs' \in [Device -> Seq(JobRecord)]
      /\ \A x \in Device \ {d} : jobs'[x] = jobs[x]
      /\ 1 \in DOMAIN jobs[d] /\ jobs[d][1] = j /\ j \in JobRecord
      /\ \A i \in DOMAIN jobs'[d] : i + 1 \in DOMAIN jobs[d] /\ jobs'[d][i] = jobs[d][i + 1]
  BY <1>1, <1>2, JobTaken
<1> HIDE DEF j
<1>4. /\ ready' \in [Device -> Seq(JobRecord)]
      /\ \A x \in Device \ {d} : ready'[x] = ready[x]
      /\ \A i \in DOMAIN ready'[d] : \/ i \in DOMAIN ready[d] /\ ready'[d][i] = ready[d][i]
                                     \/ ready'[d][i] = j
  <2>1. Sessions /\ j \in JobRecord /\ ready' = [ready EXCEPT ![d] = Append(@, j)]
    BY <1>1, <1>2, <1>3
  <2>2. ASSUME NEW k \in JobRecord, ready' = [ready EXCEPT ![d] = Append(@, k)]
        PROVE  /\ ready' \in [Device -> Seq(JobRecord)]
               /\ \A x \in Device \ {d} : ready'[x] = ready[x]
               /\ \A i \in DOMAIN ready'[d] : \/ i \in DOMAIN ready[d] /\ ready'[d][i] = ready[d][i]
                                              \/ ready'[d][i] = k
    BY ZenonT(60), <1>1, <2>2, ContinuationQueued
  <2> QED BY <2>1, <2>2
<1>5. /\ mem' \in [Device -> MemRecord] /\ acked' \in [Device -> SUBSET (Nat \X Nat)]
      /\ out' \in [Device -> SUBSET FrameRecord] /\ invited' \in [Device -> SUBSET Nat]
      /\ listed' \in Seq(SUBSET Device) /\ Len(listed') = Len(listed)
      /\ disk \in [Device -> SealRecord] /\ SessionOf(d) /\ Unsent(d)
  BY <1>1, <1>2 DEF Sessions, Carried
<1>6. [head |-> j.head, pend |-> j.pend] \in SealRecord /\ j.pub \in Nat
  BY <1>3 DEF JobRecord, SealRecord
<1>7. /\ disk' \in [Device -> SealRecord]
      /\ \A x \in Device \ {d} : disk'[x] = disk[x]
      /\ disk'[d] = disk[d] \/ (disk'[d].head = j.head /\ disk'[d].pend = j.pend)
  <2>1. CASE disk' = disk
    BY <1>5, <2>1
  <2>2. CASE disk' = [disk EXCEPT ![d] = [head |-> j.head, pend |-> j.pend]]
    <3>1. disk'[d] = [head |-> j.head, pend |-> j.pend]
      BY <1>5, <2>2
    <3> QED BY <1>5, <1>6, <2>2, <3>1
  <2> QED BY <1>2, <2>1, <2>2
<1>8. /\ OnEpoch(d, j.head, j.pend) /\ j.pub \in {NONE, j.pend}
      /\ OnEpoch(d, mem[d].head, mem[d].pend) /\ OnEpoch(d, disk[d].head, disk[d].pend)
      /\ \A i \in DOMAIN jobs[d] : /\ OnEpoch(d, jobs[d][i].head, jobs[d][i].pend)
                                   /\ jobs[d][i].pub \in {NONE, jobs[d][i].pend}
      /\ \A i \in DOMAIN ready[d] : ready[d][i].pub \in 0..Len(epoch)
      /\ mem[d].armed => mem[d].pend # NONE
  BY <1>3, <1>5 DEF SessionOf
<1>9. OnEpoch(d, disk'[d].head, disk'[d].pend)
  BY <1>7, <1>8
<1>10. \A hd, pd : OnEpoch(d, hd, pd)' <=> OnEpoch(d, hd, pd)
  BY <1>2, SameGround
<1>11. \A hd : FannedOut(hd)' <=> FannedOut(hd)
  BY <1>2, SameGround
<1>12. SessionOf(d)'
  <2>1. OnEpoch(d, mem[d].head, mem[d].pend)'
    BY <1>2, <1>8 DEF OnEpoch
  <2>2. OnEpoch(d, disk[d].head, disk[d].pend)'
    BY <1>2, <1>9 DEF OnEpoch
  <2>3. ASSUME NEW i \in DOMAIN jobs'[d]
        PROVE  OnEpoch(d, jobs[d][i].head, jobs[d][i].pend)' /\ jobs'[d][i].pub \in {NONE, jobs'[d][i].pend}
    BY SMTT(30), <1>2, <1>3, <1>8 DEF OnEpoch
  <2>4. ASSUME NEW i \in DOMAIN ready'[d] PROVE ready'[d][i].pub \in 0..Len(epoch')
    <3>1. j.pub \in 0..Len(epoch)
      BY <1>6, <1>8, LenProperties DEF OnEpoch, NONE
    <3> QED BY <1>2, <1>4, <1>8, <3>1
  <2>5. mem'[d] \in MemRecord /\ disk'[d] \in SealRecord /\ jobs'[d] \in Seq(JobRecord)
        /\ ready'[d] \in Seq(JobRecord) /\ acked'[d] \in SUBSET (Nat \X Nat)
        /\ (mem'[d].armed => mem'[d].pend # NONE)
    BY <1>2, <1>3, <1>4, <1>5, <1>7, <1>8
  <2> QED BY <2>1, <2>2, <2>3, <2>4, <2>5 DEF SessionOf
<1>13. ASSUME d \in Founder PROVE Public(d)'
  <2>1. /\ FannedOut(mem[d].head) /\ FannedOut(disk[d].head)
        /\ \A i \in DOMAIN jobs[d] : FannedOut(jobs[d][i].head)
    BY <1>1, <1>13 DEF Public
  <2>2. FannedOut(mem'[d].head) /\ FannedOut(disk'[d].head)
        /\ \A i \in DOMAIN jobs'[d] : FannedOut(jobs'[d][i].head)
    BY <1>2, <1>3, <1>7, <2>1
  <2> QED BY <1>2, <2>2 DEF Public, FannedOut
<1>14. faults' \in 0..regime.faults
  BY <1>1, <1>2, BoundAssumption DEF Bounds, Regime
<1>15. Unsent(d)'
  BY <1>2, <1>5 DEF Unsent, Epochs
<1>16. \A x \in Device \ {d} : Idle(x)
  BY <1>2, <1>3, <1>4, <1>7 DEF Idle
<1> QED BY <1>2, <1>3, <1>4, <1>5, <1>7, <1>12, <1>13, <1>14, <1>15, <1>16, OwnStep
\* A step that leaves the reseals alone: d's epoch stays, its staged commit stays or is given up.
LEMMA SameReseals ==
    ASSUME GroupInv, NEW d \in Device,
           UNCHANGED <<epoch, disk, jobs, log, listed, invited, regime>>,
           mem' \in [Device -> MemRecord], ready' \in [Device -> Seq(JobRecord)],
           acked' \in [Device -> SUBSET (Nat \X Nat)], out' \in [Device -> SUBSET FrameRecord],
           \A x \in Device \ {d} : Idle(x),
           mem'[d].head = mem[d].head, mem'[d].pend \in {NONE, mem[d].pend},
           mem'[d].armed => mem'[d].pend # NONE,
           \A i \in DOMAIN ready'[d] : \E k \in DOMAIN ready[d] : ready'[d][i] = ready[d][k],
           \A f \in out'[d] : f.e \in Epochs \ {GENESIS} /\ epoch[f.e].by = {d},
           faults' \in 0..regime.faults
    PROVE  GroupInv' /\ EpochsGrow /\ MailGrows
<1>1. Tree /\ Carried /\ Sessions /\ \A x \in Founder : Public(x)
  BY DEF GroupInv
<1>2. /\ SessionOf(d) /\ disk' \in [Device -> SealRecord] /\ jobs' \in [Device -> Seq(JobRecord)]
      /\ listed' \in Seq(SUBSET Device) /\ Len(listed') = Len(listed)
      /\ invited' \in [Device -> SUBSET Nat] /\ \A x \in Device : invited'[x] \subseteq invited[x]
  BY <1>1 DEF Sessions, Carried
<1>3. OnEpoch(d, mem[d].head, mem[d].pend)'
  <2>1. OnEpoch(d, mem[d].head, mem[d].pend)
    BY <1>2 DEF SessionOf
  <2>2. 0 \in 0..Len(epoch)
    BY <1>1, LenProperties DEF Tree
  <2> QED BY <2>1, <2>2 DEF OnEpoch, NONE
<1>4. SessionOf(d)'
  <2>1. OnEpoch(d, disk[d].head, disk[d].pend)'
    BY <1>2 DEF SessionOf, OnEpoch
  <2>2. ASSUME NEW i \in DOMAIN jobs'[d]
        PROVE  OnEpoch(d, jobs[d][i].head, jobs[d][i].pend)' /\ jobs'[d][i].pub \in {NONE, jobs'[d][i].pend}
    BY <1>2 DEF SessionOf, OnEpoch
  <2>3. ASSUME NEW i \in DOMAIN ready'[d] PROVE ready'[d][i].pub \in 0..Len(epoch')
    BY <1>2 DEF SessionOf
  <2>4. mem'[d] \in MemRecord /\ disk'[d] \in SealRecord /\ jobs'[d] \in Seq(JobRecord)
        /\ ready'[d] \in Seq(JobRecord) /\ acked'[d] \in SUBSET (Nat \X Nat)
    BY <1>2
  <2> QED BY <1>3, <2>1, <2>2, <2>3, <2>4 DEF SessionOf
<1>5. ASSUME d \in Founder PROVE Public(d)'
  <2>1. /\ FannedOut(mem[d].head) /\ FannedOut(disk[d].head)
        /\ \A i \in DOMAIN jobs[d] : FannedOut(jobs[d][i].head)
    BY <1>1, <1>5 DEF Public
  <2>2. FannedOut(mem'[d].head) /\ FannedOut(disk'[d].head)
        /\ \A i \in DOMAIN jobs'[d] : FannedOut(jobs'[d][i].head)
    BY <2>1
  <2> QED BY <2>2 DEF Public, FannedOut
<1>6. Unsent(d)'
  BY DEF Unsent, Epochs
<1> QED BY <1>2, <1>4, <1>5, <1>6, OwnStep

\* A continuation acks, and publishes the staged commit if it still is the staged one.
LEMMA ContinueKeeps ==
    ASSUME GroupInv, NEW d \in Device, Continue(d), regime' = regime
    PROVE  GroupInv' /\ EpochsGrow /\ MailGrows
<1>1. Tree /\ Carried /\ Sessions /\ Bounds
  BY DEF GroupInv
<1> DEFINE j == Head(ready[d])
           publish == j.pub # NONE /\ mem[d].pend = j.pub
<1>2. /\ ready[d] # <<>> /\ ready' = [ready EXCEPT ![d] = Tail(@)]
      /\ acked' = [acked EXCEPT ![d] = @ \cup j.ack]
      /\ out' = IF publish THEN [out EXCEPT ![d] = @ \cup Frames(j.pub)] ELSE out
      /\ mem' = IF publish THEN [mem EXCEPT ![d].armed = TRUE] ELSE mem
      /\ UNCHANGED <<epoch, disk, jobs, log, listed, invited, faults>>
  BY DEF Continue
<1>3. /\ ready' \in [Device -> Seq(JobRecord)]
      /\ \A x \in Device \ {d} : ready'[x] = ready[x]
      /\ 1 \in DOMAIN ready[d] /\ ready[d][1] = j /\ j \in JobRecord
      /\ \A i \in DOMAIN ready'[d] : i + 1 \in DOMAIN ready[d] /\ ready'[d][i] = ready[d][i + 1]
  BY <1>1, <1>2, ContinuationTaken
<1> HIDE DEF j
<1>4. /\ mem \in [Device -> MemRecord] /\ acked \in [Device -> SUBSET (Nat \X Nat)]
      /\ out \in [Device -> SUBSET FrameRecord] /\ SessionOf(d) /\ Unsent(d)
      /\ mem[d] \in MemRecord
  BY <1>1 DEF Sessions, Carried
<1>5. /\ acked' \in [Device -> SUBSET (Nat \X Nat)]
      /\ \A x \in Device \ {d} : acked'[x] = acked[x]
  <2>1. acked[d] \cup j.ack \in SUBSET (Nat \X Nat)
    BY <1>3, <1>4 DEF JobRecord
  <2> QED BY <1>2, <1>4, <2>1
<1>6. /\ mem' \in [Device -> MemRecord] /\ \A x \in Device \ {d} : mem'[x] = mem[x]
      /\ mem'[d].head = mem[d].head /\ mem'[d].pend = mem[d].pend
      /\ mem'[d].armed => mem'[d].pend # NONE
  <2>1. CASE publish
    <3>1. mem' = [mem EXCEPT ![d] = [mem[d] EXCEPT !.armed = TRUE]]
      BY <1>2, <2>1
    <3>2. [mem[d] EXCEPT !.armed = TRUE] \in MemRecord
      BY <1>4 DEF MemRecord
    <3>3. mem' \in [Device -> MemRecord] /\ mem'[d] = [mem[d] EXCEPT !.armed = TRUE]
          /\ \A x \in Device \ {d} : mem'[x] = mem[x]
      BY <1>4, <3>1, <3>2
    <3>4. mem'[d].head = mem[d].head /\ mem'[d].pend = mem[d].pend
      BY <1>4, <3>3 DEF MemRecord
    <3> QED BY <2>1, <3>3, <3>4
  <2>2. CASE ~publish
    BY <1>2, <1>4, <2>2 DEF SessionOf
  <2> QED BY <2>1, <2>2
<1>7. /\ out' \in [Device -> SUBSET FrameRecord] /\ \A x \in Device \ {d} : out'[x] = out[x]
      /\ \A f \in out'[d] : f.e \in Epochs \ {GENESIS} /\ epoch[f.e].by = {d}
  <2>1. CASE publish
    <3>1. /\ j.pub \in Epochs \ {GENESIS} /\ epoch[j.pub].by = {d} /\ j.pub \in Nat
      BY <1>3, <1>4, <2>1, LenProperties DEF SessionOf, OnEpoch, Epochs, NONE, JobRecord
    <3>2. \A f \in Frames(j.pub) : f \in FrameRecord /\ f.e = j.pub
      BY <3>1 DEF Frames, Frame, FrameRecord
    <3>3. out' = [out EXCEPT ![d] = out[d] \cup Frames(j.pub)]
      BY <1>2, <2>1
    <3>4. out[d] \cup Frames(j.pub) \in SUBSET FrameRecord
      BY <1>4, <3>2
    <3>5. out' \in [Device -> SUBSET FrameRecord] /\ out'[d] = out[d] \cup Frames(j.pub)
          /\ \A x \in Device \ {d} : out'[x] = out[x]
      BY <1>4, <3>3, <3>4
    <3> QED BY <1>4, <3>1, <3>2, <3>5 DEF Unsent
  <2>2. CASE ~publish
    BY <1>2, <1>4, <2>2 DEF Unsent
  <2> QED BY <2>1, <2>2
<1>8. \A x \in Device \ {d} : Idle(x)
  BY <1>2, <1>3, <1>5, <1>6, <1>7 DEF Idle
<1>9. faults' \in 0..regime.faults
  BY <1>1, <1>2 DEF Bounds
<1>10. \A i \in DOMAIN ready'[d] : \E k \in DOMAIN ready[d] : ready'[d][i] = ready[d][k]
  BY <1>3
<1> HIDE DEF publish
<1> QED BY <1>2, <1>3, <1>5, <1>6, <1>7, <1>8, <1>9, <1>10, SameReseals

\* An own commit that is dropped, a backstop and a lost frame change no epoch of d.
LEMMA SmallKeeps ==
    ASSUME GroupInv, NEW d \in Device, regime' = regime,
           DropOwn(d) \/ Backstop(d) \/ \E f \in out[d] : Lose(d, f)
    PROVE  GroupInv' /\ EpochsGrow /\ MailGrows
<1>1. Tree /\ Carried /\ Sessions /\ Bounds
  BY DEF GroupInv
<1>2. /\ mem \in [Device -> MemRecord] /\ acked \in [Device -> SUBSET (Nat \X Nat)]
      /\ out \in [Device -> SUBSET FrameRecord] /\ ready \in [Device -> Seq(JobRecord)]
      /\ SessionOf(d) /\ Unsent(d) /\ mem[d] \in MemRecord
      /\ (mem[d].armed => mem[d].pend # NONE)
      /\ faults \in 0..regime.faults /\ regime.faults \in Nat
  BY <1>1, BoundAssumption DEF Sessions, Carried, SessionOf, Bounds, Regime
<1>3. CASE DropOwn(d)
  <2>1. /\ acked' = [acked EXCEPT ![d] = @ \cup {NextEntry(d)}]
        /\ UNCHANGED <<epoch, mem, disk, jobs, ready, out, log, listed, invited, faults>>
        /\ mem[d].head # NONE /\ Waiting(d, mem[d].head) # {}
    BY <1>3 DEF DropOwn
  <2>2. mem[d].head \in Epochs /\ mem[d].head \in Nat
    BY <1>2, <2>1, LenProperties DEF SessionOf, OnEpoch, Epochs, NONE, MemRecord
  <2>3. NextEntry(d) \in Nat \X Nat
    <3>1. PICK i \in Waiting(d, mem[d].head) : NextEntry(d) = <<mem[d].head, i>> /\ i \in Nat
      BY <1>1, <2>1, <2>2, NextIsFirst
    <3> QED BY <2>2, <3>1
  <2>4. acked' \in [Device -> SUBSET (Nat \X Nat)] /\ \A x \in Device \ {d} : acked'[x] = acked[x]
    BY <1>2, <2>1, <2>3
  <2>5. \A x \in Device \ {d} : Idle(x)
    BY <2>1, <2>4 DEF Idle
  <2>6. \A f \in out'[d] : f.e \in Epochs \ {GENESIS} /\ epoch[f.e].by = {d}
    BY <1>2, <2>1 DEF Unsent
  <2> QED BY <1>2, <2>1, <2>4, <2>5, <2>6, SameReseals
<1>4. CASE Backstop(d)
  <2>1. /\ mem' = [mem EXCEPT ![d] = [head |-> mem[d].head, pend |-> NONE, armed |-> FALSE]]
        /\ UNCHANGED <<epoch, disk, jobs, ready, out, log, acked, listed, invited, faults>>
    BY <1>4 DEF Backstop, Session
  <2>2. [head |-> mem[d].head, pend |-> NONE, armed |-> FALSE] \in MemRecord
    BY <1>2 DEF MemRecord, NONE
  <2>3. /\ mem' \in [Device -> MemRecord] /\ \A x \in Device \ {d} : mem'[x] = mem[x]
        /\ mem'[d] = [head |-> mem[d].head, pend |-> NONE, armed |-> FALSE]
    BY <1>2, <2>1, <2>2
  <2>4. mem'[d].head = mem[d].head /\ mem'[d].pend = NONE /\ mem'[d].armed = FALSE
    BY <2>3
  <2>5. \A x \in Device \ {d} : Idle(x)
    BY <2>1, <2>3 DEF Idle
  <2>6. \A f \in out'[d] : f.e \in Epochs \ {GENESIS} /\ epoch[f.e].by = {d}
    BY <1>2, <2>1 DEF Unsent
  <2> QED BY <1>2, <2>1, <2>3, <2>4, <2>5, <2>6, SameReseals
<1>5. ASSUME NEW f \in out[d], Lose(d, f) PROVE GroupInv' /\ EpochsGrow /\ MailGrows
  <2>1. /\ out' = [out EXCEPT ![d] = @ \ {f}] /\ faults < regime.faults /\ faults' = faults + 1
        /\ UNCHANGED <<epoch, mem, disk, jobs, ready, log, acked, listed, invited>>
    BY <1>5 DEF Lose
  <2>2. /\ out' \in [Device -> SUBSET FrameRecord] /\ \A x \in Device \ {d} : out'[x] = out[x]
        /\ out'[d] \subseteq out[d]
    BY <1>2, <2>1
  <2>3. \A g \in out'[d] : g.e \in Epochs \ {GENESIS} /\ epoch[g.e].by = {d}
    BY <1>2, <2>2 DEF Unsent
  <2>4. \A x \in Device \ {d} : Idle(x)
    BY <2>1, <2>2 DEF Idle
  <2>5. faults' \in 0..regime.faults
    BY <1>2, <2>1
  <2> QED BY <1>2, <2>1, <2>2, <2>3, <2>4, <2>5, SameReseals
<1> QED BY <1>3, <1>4, <1>5
\* d moves to epoch e, nothing staged, and a reseal starts.
MoveTo(d, e, ack) ==
    /\ mem' = [mem EXCEPT ![d] = Session(e, NONE)]
    /\ Reseal(d, Session(e, NONE), NONE, ack)
    /\ UNCHANGED <<epoch, disk, ready, out, log, faults, regime>>

\* What is in memory and in flight after a move.
LEMMA Moved ==
    ASSUME GroupInv, NEW d \in Device, NEW e \in Nat, NEW ack \in SUBSET (Nat \X Nat), MoveTo(d, e, ack)
    PROVE  /\ mem' \in [Device -> MemRecord] /\ \A x \in Device \ {d} : mem'[x] = mem[x]
           /\ mem'[d].head = e /\ mem'[d].pend = NONE /\ ~mem'[d].armed
           /\ jobs' \in [Device -> Seq(JobRecord)] /\ \A x \in Device \ {d} : jobs'[x] = jobs[x]
           /\ Len(jobs[d]) \in Nat /\ DOMAIN jobs[d] = 1..Len(jobs[d])
           /\ DOMAIN jobs'[d] = 1..(Len(jobs[d]) + 1) /\ Len(jobs'[d]) = Len(jobs[d]) + 1
           /\ \A i \in DOMAIN jobs[d] : jobs'[d][i] = jobs[d][i]
           /\ jobs'[d][Len(jobs[d]) + 1] = [head |-> e, pend |-> NONE, pub |-> NONE, ack |-> ack]
<1>1. Sessions /\ mem \in [Device -> MemRecord]
  BY DEF GroupInv, Sessions
<1>2. /\ Session(e, NONE) = [head |-> e, pend |-> NONE, armed |-> FALSE]
      /\ Session(e, NONE).head = e /\ Session(e, NONE).pend = NONE
      /\ Session(e, NONE).head \in Nat /\ Session(e, NONE).pend \in Nat /\ NONE \in Nat
      /\ Session(e, NONE) \in MemRecord
  BY DEF Session, MemRecord, NONE
<1>3. Reseal(d, Session(e, NONE), NONE, ack) /\ mem' = [mem EXCEPT ![d] = Session(e, NONE)]
  BY DEF MoveTo
<1>4. /\ mem' \in [Device -> MemRecord] /\ \A x \in Device \ {d} : mem'[x] = mem[x]
      /\ mem'[d] = Session(e, NONE)
  BY <1>1, <1>2, <1>3
<1>5. mem'[d].head = e /\ mem'[d].pend = NONE /\ ~mem'[d].armed
  BY <1>4 DEF Session
<1>6. /\ jobs' \in [Device -> Seq(JobRecord)]
      /\ \A x \in Device \ {d} : jobs'[x] = jobs[x]
      /\ Len(jobs[d]) \in Nat /\ DOMAIN jobs[d] = 1..Len(jobs[d])
      /\ DOMAIN jobs'[d] = 1..(Len(jobs[d]) + 1) /\ Len(jobs'[d]) = Len(jobs[d]) + 1
      /\ \A i \in DOMAIN jobs[d] : jobs'[d][i] = jobs[d][i]
      /\ jobs'[d][Len(jobs[d]) + 1] =
            [head |-> Session(e, NONE).head, pend |-> Session(e, NONE).pend, pub |-> NONE, ack |-> ack]
  BY <1>1, <1>2, <1>3, ResealQueued
<1> QED BY <1>2, <1>4, <1>5, <1>6

\* A move to an epoch the gateway has fanned out keeps the invariant.
LEMMA MoveKeeps ==
    ASSUME GroupInv, NEW d \in Device, NEW e \in Nat, e \in 0..Len(epoch), NEW ack \in SUBSET (Nat \X Nat),
           MoveTo(d, e, ack), d \in Founder => FannedOut(e),
           acked' \in [Device -> SUBSET (Nat \X Nat)], \A x \in Device \ {d} : acked'[x] = acked[x],
           listed' \in Seq(SUBSET Device), Len(listed)' = Len(listed),
           invited' \in [Device -> SUBSET Nat], \A x \in Device : invited'[x] \subseteq invited[x]
    PROVE  GroupInv' /\ EpochsGrow /\ MailGrows
<1>1. Tree /\ Carried /\ Sessions /\ Bounds /\ \A x \in Founder : Public(x)
  BY DEF GroupInv
<1>2. UNCHANGED <<epoch, disk, ready, out, log, faults, regime>>
  BY DEF MoveTo
<1>3. Len(epoch) \in Nat /\ e \in Nat
  BY <1>1, LenProperties DEF Tree
<1>4. /\ mem' \in [Device -> MemRecord] /\ \A x \in Device \ {d} : mem'[x] = mem[x]
      /\ mem'[d].head = e /\ mem'[d].pend = NONE /\ ~mem'[d].armed
      /\ jobs' \in [Device -> Seq(JobRecord)] /\ \A x \in Device \ {d} : jobs'[x] = jobs[x]
      /\ Len(jobs[d]) \in Nat /\ DOMAIN jobs[d] = 1..Len(jobs[d])
      /\ DOMAIN jobs'[d] = 1..(Len(jobs[d]) + 1)
      /\ \A i \in DOMAIN jobs[d] : jobs'[d][i] = jobs[d][i]
      /\ jobs'[d][Len(jobs[d]) + 1] = [head |-> e, pend |-> NONE, pub |-> NONE, ack |-> ack]
  BY Moved
<1>5. \A i \in DOMAIN jobs'[d] :
         \/ i \in DOMAIN jobs[d] /\ jobs'[d][i] = jobs[d][i]
         \/ jobs'[d][i].head = e /\ jobs'[d][i].pend = NONE /\ jobs'[d][i].pub = NONE
  <2>1. \A i \in 1..(Len(jobs[d]) + 1) : i \in 1..Len(jobs[d]) \/ i = Len(jobs[d]) + 1
    BY <1>4
  <2> QED BY <1>4, <2>1
<1>6. OnEpoch(d, e, NONE)
  BY <1>3 DEF OnEpoch, NONE
<1>7. SessionOf(d) /\ Unsent(d) /\ disk \in [Device -> SealRecord] /\ ready \in [Device -> Seq(JobRecord)]
      /\ out \in [Device -> SUBSET FrameRecord]
  BY <1>1 DEF Sessions, Carried
<1>8. SessionOf(d)'
  <2>1. OnEpoch(d, mem[d].head, mem[d].pend)'
    BY <1>2, <1>4, <1>6 DEF OnEpoch
  <2>2. OnEpoch(d, disk[d].head, disk[d].pend)'
    BY <1>2, <1>7 DEF SessionOf, OnEpoch
  <2>3. ASSUME NEW i \in DOMAIN jobs'[d]
        PROVE  OnEpoch(d, jobs[d][i].head, jobs[d][i].pend)' /\ jobs'[d][i].pub \in {NONE, jobs'[d][i].pend}
    <3>1. OnEpoch(d, jobs'[d][i].head, jobs'[d][i].pend) /\ jobs'[d][i].pub \in {NONE, jobs'[d][i].pend}
      BY <1>5, <1>6, <1>7 DEF SessionOf
    <3> QED BY <1>2, <3>1 DEF OnEpoch
  <2>4. ASSUME NEW i \in DOMAIN ready'[d] PROVE ready'[d][i].pub \in 0..Len(epoch')
    BY <1>2, <1>7 DEF SessionOf
  <2>5. mem'[d] \in MemRecord /\ disk'[d] \in SealRecord /\ jobs'[d] \in Seq(JobRecord)
        /\ ready'[d] \in Seq(JobRecord) /\ acked'[d] \in SUBSET (Nat \X Nat)
    BY <1>2, <1>4, <1>7
  <2> QED BY <1>4, <2>1, <2>2, <2>3, <2>4, <2>5 DEF SessionOf
<1>9. ASSUME d \in Founder PROVE Public(d)'
  <2>1. /\ FannedOut(e) /\ FannedOut(disk[d].head)
        /\ \A i \in DOMAIN jobs[d] : FannedOut(jobs[d][i].head)
    BY <1>1, <1>9 DEF Public
  <2>2. FannedOut(mem'[d].head) /\ FannedOut(disk'[d].head)
        /\ \A i \in DOMAIN jobs'[d] : FannedOut(jobs'[d][i].head)
    BY <1>2, <1>4, <1>5, <2>1
  <2> QED BY <1>2, <2>2 DEF Public, FannedOut
<1>10. Unsent(d)'
  BY <1>2, <1>7 DEF Unsent, Epochs
<1>11. \A x \in Device \ {d} : Idle(x)
  BY <1>2, <1>4 DEF Idle
<1>12. faults' \in 0..regime.faults
  BY <1>1, <1>2 DEF Bounds
<1>13. disk' \in [Device -> SealRecord] /\ ready' \in [Device -> Seq(JobRecord)]
       /\ out' \in [Device -> SUBSET FrameRecord]
  BY SMTT(30), <1>2, <1>7
<1> QED BY <1>2, <1>4, <1>8, <1>9, <1>10, <1>11, <1>12, <1>13, OwnStep

\* The epoch a merge or an eviction moves from, and the entry that moves it.
LEMMA EntryTaken ==
    ASSUME Tree, Carried, NEW d \in Device, SessionOf(d), mem[d].head # NONE, Waiting(d, mem[d].head) # {}
    PROVE  \E i \in Waiting(d, mem[d].head) :
              /\ mem[d].head \in Epochs /\ mem[d].head \in Nat
              /\ i \in Nat /\ i \in DOMAIN log[mem[d].head]
              /\ NextEntry(d) = <<mem[d].head, i>> /\ {NextEntry(d)} \in SUBSET (Nat \X Nat)
              /\ \A j \in Waiting(d, mem[d].head) : i <= j
              /\ log[NextEntry(d)[1]][NextEntry(d)[2]] = log[mem[d].head][i]
              /\ log[mem[d].head][i] \in Epochs \ {GENESIS} /\ log[mem[d].head][i] \in Nat
              /\ epoch[log[mem[d].head][i]].parent = mem[d].head
              /\ epoch[log[mem[d].head][i]].path = epoch[mem[d].head].path \cup {log[mem[d].head][i]}
<1>1. mem[d].head \in Epochs /\ mem[d].head \in Nat /\ Len(epoch) \in Nat
  BY LenProperties DEF SessionOf, OnEpoch, Epochs, NONE, MemRecord, Tree
<1>2. PICK i \in Waiting(d, mem[d].head) :
         /\ NextEntry(d) = <<mem[d].head, i>> /\ i \in Nat
         /\ i \in DOMAIN log[mem[d].head] /\ \A j \in Waiting(d, mem[d].head) : i <= j
  BY <1>1, NextIsFirst
<1>3. log[mem[d].head][i] \in Epochs \ {GENESIS} /\ epoch[log[mem[d].head][i]].parent = mem[d].head
  BY <1>1, <1>2 DEF Carried, Mail
<1>4. PICK e \in Epochs : e = log[mem[d].head][i]
  BY <1>3
<1>5. epoch[e].path = epoch[mem[d].head].path \cup {e} /\ e \in Nat
  <2>1. e # GENESIS /\ epoch[e].parent = mem[d].head
    BY <1>3, <1>4
  <2>2. epoch[e].path = epoch[epoch[e].parent].path \cup {e}
    BY <2>1 DEF Tree
  <2> QED BY <1>1, <2>1, <2>2 DEF Epochs
<1>6. log[NextEntry(d)[1]][NextEntry(d)[2]] = e
  BY <1>2, <1>4
<1>7. {NextEntry(d)} \in SUBSET (Nat \X Nat)
  BY <1>1, <1>2
<1> QED BY <1>1, <1>2, <1>3, <1>4, <1>5, <1>6, <1>7

\* A merge moves along the mailbox, an eviction leaves the group.
LEMMA MergeKeeps ==
    ASSUME GroupInv, NEW d \in Device, Merge(d) \/ Evicted(d), regime' = regime
    PROVE  GroupInv' /\ EpochsGrow /\ MailGrows
<1>1. Tree /\ Carried /\ Sessions /\ Bounds /\ SessionOf(d) /\ (d \in Founder => Public(d))
      /\ acked \in [Device -> SUBSET (Nat \X Nat)] /\ listed \in Seq(SUBSET Device)
      /\ invited \in [Device -> SUBSET Nat]
  BY DEF GroupInv, Sessions, Carried
<1>2. mem[d].head # NONE /\ Waiting(d, mem[d].head) # {}
  BY DEF Merge, Evicted
<1>3. PICK i \in Waiting(d, mem[d].head) :
              /\ mem[d].head \in Epochs /\ i \in DOMAIN log[mem[d].head]
              /\ {NextEntry(d)} \in SUBSET (Nat \X Nat)
              /\ log[NextEntry(d)[1]][NextEntry(d)[2]] = log[mem[d].head][i]
              /\ log[mem[d].head][i] \in Epochs \ {GENESIS}
              /\ epoch[log[mem[d].head][i]].parent = mem[d].head
              /\ epoch[log[mem[d].head][i]].path = epoch[mem[d].head].path \cup {log[mem[d].head][i]}
  BY <1>1, <1>2, EntryTaken
<1>4. PICK e \in Epochs : e = log[mem[d].head][i]
  BY <1>3
<1>5. e \in 0..Len(epoch) /\ e # NONE /\ e \in Nat
  BY <1>1, LenProperties DEF Epochs, NONE, Tree
<1>6. CASE Merge(d)
  <2>1. MoveTo(d, e, {NextEntry(d)}) /\ Subscribe(d, e) /\ invited' = invited
    BY <1>3, <1>4, <1>6 DEF Merge, MoveTo
  <2>2. /\ listed' \in Seq(SUBSET Device) /\ Len(listed)' = Len(listed)
        /\ acked' \in [Device -> SUBSET (Nat \X Nat)]
        /\ \A x \in Device \ {d} : acked'[x] = acked[x]
    BY <1>1, <2>1, Subscribed
  <2>3. ASSUME d \in Founder PROVE FannedOut(e)
    <3>1. FannedOut(mem[d].head)
      BY <1>1, <2>3 DEF Public
    <3>2. \A c \in epoch[e].path : c \in epoch[mem[d].head].path \/ c = e
      BY SMTT(30), <1>3, <1>4
    <3>3. \E k \in DOMAIN log[epoch[e].parent] : log[epoch[e].parent][k] = e
      BY Zenon, <1>3, <1>4
    <3> QED BY <1>2, <3>1, <3>2, <3>3 DEF FannedOut
  <2> QED BY SMTT(30), <1>1, <1>3, <1>5, <2>1, <2>2, <2>3, MoveKeeps
<1>7. CASE Evicted(d)
  <2>1. MoveTo(d, NONE, {NextEntry(d)}) /\ acked' = acked /\ listed' = listed /\ invited' = invited
    BY <1>7 DEF Evicted, MoveTo
  <2>2. NONE \in 0..Len(epoch) /\ FannedOut(NONE) /\ NONE \in Nat
    BY <1>1, LenProperties DEF NONE, FannedOut, Tree
  <2> QED BY <1>1, <1>3, <2>1, <2>2, MoveKeeps
<1> QED BY <1>6, <1>7

\* A Welcome brings in a device that is no founder, or is dropped.
LEMMA JoinKeeps ==
    ASSUME GroupInv, NEW d \in Device, NEW e \in invited[d], Join(d, e), regime' = regime
    PROVE  GroupInv' /\ EpochsGrow /\ MailGrows
<1>1. /\ Tree /\ FoundersStay /\ Carried /\ Sessions /\ Bounds /\ SessionOf(d) /\ (d \in Founder => Public(d))
      /\ acked \in [Device -> SUBSET (Nat \X Nat)] /\ listed \in Seq(SUBSET Device)
      /\ invited \in [Device -> SUBSET Nat] /\ Welcomes(d)
      /\ Unsent(d) /\ out \in [Device -> SUBSET FrameRecord]
      /\ mem \in [Device -> MemRecord] /\ disk \in [Device -> SealRecord]
      /\ jobs \in [Device -> Seq(JobRecord)] /\ ready \in [Device -> Seq(JobRecord)]
  BY DEF GroupInv, Sessions, Carried
<1>2. e \in Epochs /\ d \in epoch[e].adds
  BY <1>1 DEF Welcomes
<1>3. d \notin Founder
  BY <1>1, <1>2 DEF FoundersStay
<1>4. /\ invited' = [invited EXCEPT ![d] = @ \ {e}]
      /\ UNCHANGED <<epoch, disk, ready, out, log, faults>>
  BY DEF Join
<1>5. invited' \in [Device -> SUBSET Nat] /\ \A x \in Device : invited'[x] \subseteq invited[x]
  BY <1>1, <1>4
<1>6. e \in 0..Len(epoch) /\ e \in Nat /\ {} \in SUBSET (Nat \X Nat)
  BY <1>1, <1>2, LenProperties DEF Epochs, Tree
<1>7. CASE isPermanentWelcomeFailure(d)
  <2>1. UNCHANGED <<mem, listed, acked, jobs>>
    BY <1>7 DEF Join
  <2>2. SessionOf(d)'
    BY <1>1, <1>4, <2>1 DEF SessionOf, OnEpoch
  <2>3. Unsent(d)'
    BY <1>1, <1>4, <2>1 DEF Unsent, Epochs
  <2>4. \A x \in Device \ {d} : Idle(x)
    BY <1>4, <2>1 DEF Idle
  <2>5. faults' \in 0..regime.faults
    BY <1>1, <1>4 DEF Bounds
  <2> QED BY <1>1, <1>3, <1>4, <1>5, <2>1, <2>2, <2>3, <2>4, <2>5, OwnStep
<1>8. CASE ~isPermanentWelcomeFailure(d)
  <2>1. MoveTo(d, e, {}) /\ Subscribe(d, e)
    BY <1>4, <1>8 DEF Join, MoveTo
  <2>2. /\ listed' \in Seq(SUBSET Device) /\ Len(listed)' = Len(listed)
        /\ acked' \in [Device -> SUBSET (Nat \X Nat)]
        /\ \A x \in Device \ {d} : acked'[x] = acked[x]
    BY <1>1, <1>2, <2>1, Subscribed
  <2> QED BY <1>3, <1>5, <1>6, <2>1, <2>2, MoveKeeps
<1> QED BY <1>7, <1>8
\* A reload puts d where its sealed copy is, with nothing in flight but what it re-issues.
LEMMA Reloaded ==
    ASSUME GroupInv, NEW d \in Device, NEW saved \in SealRecord, NEW stranded, stranded \subseteq out[d],
           OnEpoch(d, saved.head, saved.pend), connectGateway(d, saved, stranded)
    PROVE  /\ mem' \in [Device -> MemRecord] /\ disk' \in [Device -> SealRecord]
           /\ jobs' \in [Device -> Seq(JobRecord)] /\ ready' \in [Device -> Seq(JobRecord)]
           /\ acked' \in [Device -> SUBSET (Nat \X Nat)] /\ out' \in [Device -> SUBSET FrameRecord]
           /\ \A x \in Device \ {d} : Idle(x)
           /\ mem'[d].head = saved.head /\ mem'[d].pend = saved.pend
           /\ mem'[d].armed => mem'[d].pend # NONE
           /\ disk'[d] = saved /\ jobs'[d] = <<>> /\ ready'[d] = <<>>
           /\ \A f \in out'[d] : f \in out[d] \/ (f.e = saved.pend /\ saved.pend # NONE)
           /\ listed' \in Seq(SUBSET Device) /\ Len(listed)' = Len(listed)
           /\ faults < regime.faults /\ faults' = faults + 1 /\ UNCHANGED <<epoch, log, invited>>
           /\ IF saved.head = NONE THEN UNCHANGED <<listed, acked>> ELSE Subscribe(d, saved.head)
<1>1. Tree /\ Carried /\ Sessions /\ Bounds /\ SessionOf(d)
  BY DEF GroupInv, Sessions
<1>2. /\ mem \in [Device -> MemRecord] /\ disk \in [Device -> SealRecord]
      /\ jobs \in [Device -> Seq(JobRecord)] /\ ready \in [Device -> Seq(JobRecord)]
      /\ acked \in [Device -> SUBSET (Nat \X Nat)] /\ out \in [Device -> SUBSET FrameRecord]
      /\ listed \in Seq(SUBSET Device)
  BY <1>1 DEF Sessions, Carried
<1> DEFINE m == [Session(saved.head, saved.pend) EXCEPT !.armed = saved.pend # NONE]
           o == stranded \cup (IF saved.pend = NONE THEN {} ELSE Frames(saved.pend))
<1>3. /\ mem' = [mem EXCEPT ![d] = m]
      /\ disk' = [disk EXCEPT ![d] = saved]
      /\ jobs' = [jobs EXCEPT ![d] = <<>>]
      /\ ready' = [ready EXCEPT ![d] = <<>>]
      /\ out' = [out EXCEPT ![d] = o]
      /\ faults < regime.faults /\ faults' = faults + 1 /\ UNCHANGED <<epoch, log, invited>>
      /\ IF saved.head = NONE THEN UNCHANGED <<listed, acked>> ELSE Subscribe(d, saved.head)
  BY DEF connectGateway
<1>4. saved.head \in Nat /\ saved.pend \in Nat
  BY DEF SealRecord
<1>5. m \in MemRecord /\ m.head = saved.head /\ m.pend = saved.pend /\ (m.armed => m.pend # NONE)
  BY <1>4 DEF Session, MemRecord
<1>6. \A f \in Frames(saved.pend) : f \in FrameRecord /\ f.e = saved.pend
  BY <1>4 DEF Frames, Frame, FrameRecord
<1>7. o \in SUBSET FrameRecord /\ \A f \in o : f \in out[d] \/ (f.e = saved.pend /\ saved.pend # NONE)
  BY <1>2, <1>6
<1> HIDE DEF m, o
<1>8. <<>> \in Seq(JobRecord)
  BY EmptySeq
<1>9. /\ mem' \in [Device -> MemRecord] /\ mem'[d] = m /\ \A x \in Device \ {d} : mem'[x] = mem[x]
  BY <1>2, <1>3, <1>5
<1>10. /\ disk' \in [Device -> SealRecord] /\ disk'[d] = saved /\ \A x \in Device \ {d} : disk'[x] = disk[x]
  BY <1>2, <1>3
<1>11. /\ jobs' \in [Device -> Seq(JobRecord)] /\ jobs'[d] = <<>> /\ \A x \in Device \ {d} : jobs'[x] = jobs[x]
  BY <1>2, <1>3, <1>8
<1>12. /\ ready' \in [Device -> Seq(JobRecord)] /\ ready'[d] = <<>>
       /\ \A x \in Device \ {d} : ready'[x] = ready[x]
  BY <1>2, <1>3, <1>8
<1>13. /\ out' \in [Device -> SUBSET FrameRecord] /\ out'[d] = o /\ \A x \in Device \ {d} : out'[x] = out[x]
  BY <1>2, <1>3, <1>7
<1>14. /\ listed' \in Seq(SUBSET Device) /\ Len(listed)' = Len(listed)
       /\ acked' \in [Device -> SUBSET (Nat \X Nat)]
       /\ \A x \in Device \ {d} : acked'[x] = acked[x]
  <2>1. CASE saved.head = NONE
    BY <1>2, <1>3, <2>1
  <2>2. CASE saved.head # NONE
    <3>1. saved.head \in Epochs /\ Subscribe(d, saved.head)
      BY <1>3, <1>4, <2>2 DEF OnEpoch, Epochs, NONE
    <3> QED BY <1>1, <3>1, Subscribed
  <2> QED BY <2>1, <2>2
<1>15. \A x \in Device \ {d} : Idle(x)
  BY <1>9, <1>10, <1>11, <1>12, <1>13, <1>14 DEF Idle
<1> QED BY <1>3, <1>5, <1>7, <1>9, <1>10, <1>11, <1>12, <1>13, <1>14, <1>15

\* A reload to a sealed session of d keeps the invariant.
LEMMA ReloadKeeps ==
    ASSUME GroupInv, NEW d \in Device, NEW saved \in SealRecord, NEW stranded, stranded \subseteq out[d],
           OnEpoch(d, saved.head, saved.pend), connectGateway(d, saved, stranded), regime' = regime,
           d \in Founder => FannedOut(saved.head)
    PROVE  GroupInv' /\ EpochsGrow /\ MailGrows
<1>1. Tree /\ Carried /\ Sessions /\ Bounds /\ SessionOf(d) /\ Unsent(d) /\ invited \in [Device -> SUBSET Nat]
  BY DEF GroupInv, Sessions, Carried
<1>2. /\ mem' \in [Device -> MemRecord] /\ disk' \in [Device -> SealRecord]
      /\ jobs' \in [Device -> Seq(JobRecord)] /\ ready' \in [Device -> Seq(JobRecord)]
      /\ acked' \in [Device -> SUBSET (Nat \X Nat)] /\ out' \in [Device -> SUBSET FrameRecord]
      /\ \A x \in Device \ {d} : Idle(x)
      /\ mem'[d].head = saved.head /\ mem'[d].pend = saved.pend
      /\ mem'[d].armed => mem'[d].pend # NONE
      /\ disk'[d] = saved /\ jobs'[d] = <<>> /\ ready'[d] = <<>>
      /\ \A f \in out'[d] : f \in out[d] \/ (f.e = saved.pend /\ saved.pend # NONE)
      /\ listed' \in Seq(SUBSET Device) /\ Len(listed)' = Len(listed)
      /\ faults < regime.faults /\ faults' = faults + 1 /\ UNCHANGED <<epoch, log, invited>>
  BY Reloaded
<1>3. DOMAIN jobs'[d] = {} /\ DOMAIN ready'[d] = {}
  BY <1>2, EmptySeq
<1>4. SessionOf(d)'
  <2>1. OnEpoch(d, mem[d].head, mem[d].pend)' /\ OnEpoch(d, disk[d].head, disk[d].pend)'
    BY <1>2 DEF OnEpoch
  <2>2. mem'[d] \in MemRecord /\ disk'[d] \in SealRecord /\ jobs'[d] \in Seq(JobRecord)
        /\ ready'[d] \in Seq(JobRecord) /\ acked'[d] \in SUBSET (Nat \X Nat)
        /\ (mem'[d].armed => mem'[d].pend # NONE)
    BY <1>2
  <2> QED BY <1>3, <2>1, <2>2 DEF SessionOf
<1>5. ASSUME d \in Founder PROVE Public(d)'
  <2>1. FannedOut(mem'[d].head) /\ FannedOut(disk'[d].head)
    BY <1>2, <1>5
  <2>2. FannedOut(mem[d].head)' /\ FannedOut(disk[d].head)'
    BY <1>2, <2>1 DEF FannedOut
  <2> QED BY <1>3, <2>2 DEF Public
<1>6. Unsent(d)'
  <2>1. saved.pend # NONE => saved.pend \in Epochs \ {GENESIS} /\ epoch[saved.pend].by = {d}
    BY LenProperties DEF OnEpoch, Epochs, NONE
  <2>2. \A f \in out'[d] : f.e \in Epochs \ {GENESIS} /\ epoch[f.e].by = {d}
    BY <1>1, <1>2, <2>1 DEF Unsent
  <2> QED BY <1>2, <2>2 DEF Unsent, Epochs
<1>7. faults' \in 0..regime.faults
  BY <1>1, <1>2, BoundAssumption DEF Bounds, Regime
<1>8. invited' \in [Device -> SUBSET Nat] /\ \A x \in Device : invited'[x] \subseteq invited[x]
  BY <1>1, <1>2
<1> QED BY <1>2, <1>4, <1>5, <1>6, <1>7, <1>8, OwnStep

\* What a crash and a reconnect restore is a sealed session, or the last on its way to the store.
LEMMA SavedSession ==
    ASSUME Sessions, NEW d \in Device, Crash(d) \/ Reconnect(d)
    PROVE  \E saved \in SealRecord, stranded \in SUBSET out[d] :
              /\ connectGateway(d, saved, stranded)
              /\ \/ saved = disk[d] /\ (jobs[d] = <<>> \/ stranded = {})
                 \/ /\ jobs[d] # <<>> /\ Len(jobs[d]) \in DOMAIN jobs[d] /\ Len(jobs[d]) \in Nat
                    /\ DOMAIN jobs[d] = 1..Len(jobs[d])
                    /\ saved.head = jobs[d][Len(jobs[d])].head /\ saved.pend = jobs[d][Len(jobs[d])].pend
<1>1. disk[d] \in SealRecord /\ jobs[d] \in Seq(JobRecord)
  BY DEF Sessions
<1>2. CASE Crash(d)
  <2>1. connectGateway(d, disk[d], {}) /\ {} \in SUBSET out[d]
    BY <1>2 DEF Crash
  <2> QED BY <1>1, <2>1
<1>3. CASE Reconnect(d) /\ jobs[d] = <<>>
  <2>1. connectGateway(d, disk[d], out[d]) /\ out[d] \in SUBSET out[d]
    BY <1>3 DEF Reconnect
  <2> QED BY <1>1, <1>3, <2>1
<1>4. CASE Reconnect(d) /\ jobs[d] # <<>>
  <2> DEFINE j == jobs[d][Len(jobs[d])]
             saved == [head |-> j.head, pend |-> j.pend]
  <2>1. connectGateway(d, saved, out[d]) /\ out[d] \in SUBSET out[d]
    BY <1>4 DEF Reconnect
  <2>2. Len(jobs[d]) \in DOMAIN jobs[d] /\ Len(jobs[d]) \in Nat /\ DOMAIN jobs[d] = 1..Len(jobs[d])
    BY <1>1, <1>4, LenProperties, EmptySeq
  <2>3. j \in JobRecord
    BY <1>1, <2>2, ElementOfSeq
  <2>4. saved \in SealRecord /\ saved.head = j.head /\ saved.pend = j.pend
    BY <2>3 DEF JobRecord, SealRecord
  <2> HIDE DEF saved
  <2> QED BY <1>4, <2>1, <2>2, <2>4
<1> QED BY <1>2, <1>3, <1>4

\* A crash and a reconnect keep the invariant.
LEMMA RestartKeeps ==
    ASSUME GroupInv, NEW d \in Device, Crash(d) \/ Reconnect(d), regime' = regime
    PROVE  GroupInv' /\ EpochsGrow /\ MailGrows
<1>1. Sessions /\ SessionOf(d) /\ (d \in Founder => Public(d))
  BY DEF GroupInv, Sessions
<1>2. PICK saved \in SealRecord, stranded \in SUBSET out[d] :
              /\ connectGateway(d, saved, stranded)
              /\ \/ saved = disk[d]
                 \/ /\ Len(jobs[d]) \in DOMAIN jobs[d]
                    /\ saved.head = jobs[d][Len(jobs[d])].head /\ saved.pend = jobs[d][Len(jobs[d])].pend
  <2> HIDE DEF Crash, Reconnect
  <2> QED BY <1>1, SavedSession
<1>3. OnEpoch(d, saved.head, saved.pend) /\ (d \in Founder => FannedOut(saved.head))
  BY <1>1, <1>2 DEF SessionOf, Public
<1> QED BY <1>2, <1>3, ReloadKeeps
\* The frames the gateway takes: a commit joins the mailbox of its parent, a Welcome the added device's.
LEMMA GatewayTakes ==
    ASSUME Tree, Carried, NEW d \in Device, NEW f \in out[d], Publish(f)
    PROVE  /\ f.e \in Epochs \ {GENESIS} /\ epoch[f.e].by = {d} /\ epoch[f.e].parent \in Epochs
           /\ log' \in Seq(Seq(Nat)) /\ Len(log)' = Len(epoch)
           /\ invited' \in [Device -> SUBSET Nat]
           /\ \A x \in Device : \A e \in invited'[x] : e \in invited[x] \/ (e = f.e /\ x \in epoch[e].adds)
           /\ \A p \in Epochs :
                 \/ log'[p] = log[p]
                 \/ /\ f.kind = "commit" /\ p = epoch[f.e].parent
                    /\ DOMAIN log[p] = 1..Len(log[p]) /\ Len(log[p]) \in Nat
                    /\ DOMAIN log'[p] = 1..(Len(log[p]) + 1) /\ log'[p][Len(log[p]) + 1] = f.e
                    /\ \A i \in DOMAIN log[p] : log'[p][i] = log[p][i]
<1>1. /\ f.e \in Epochs \ {GENESIS} /\ epoch[f.e].by = {d}
      /\ log \in Seq(Seq(Nat)) /\ Len(log) = Len(epoch) /\ Len(epoch) \in Nat
      /\ invited \in [Device -> SUBSET Nat]
  BY LenProperties DEF Carried, Unsent, Tree
<1>2. PICK e \in Epochs : e = f.e
  BY <1>1
<1>3. e \in Nat /\ epoch[e].parent \in Epochs
  BY <1>1, <1>2 DEF Tree, Epochs
<1>4. CASE f.kind = "commit"
  <2> DEFINE q == epoch[e].parent
             s == Append(log[q], e)
  <2>1. log' = [log EXCEPT ![q] = s] /\ invited' = invited
    BY <1>2, <1>4 DEF Publish
  <2>2. log[q] \in Seq(Nat) /\ q \in 1..Len(log) /\ DOMAIN log = 1..Len(log)
    BY <1>1, <1>3, ElementOfSeq, LenProperties DEF Epochs
  <2>3. s \in Seq(Nat) /\ Len(s) = Len(log[q]) + 1 /\ s[Len(log[q]) + 1] = e
        /\ \A i \in 1..Len(log[q]) : s[i] = log[q][i]
    BY <1>3, <2>2, AppendProperties
  <2>4. DOMAIN log[q] = 1..Len(log[q]) /\ Len(log[q]) \in Nat /\ DOMAIN s = 1..(Len(log[q]) + 1)
    BY <2>2, <2>3, LenProperties
  <2> HIDE DEF q, s
  <2>5. log' \in Seq(Seq(Nat)) /\ Len(log') = Len(log)
        /\ \A p \in 1..Len(log) : log'[p] = IF p = q THEN s ELSE log[p]
    BY <1>1, <2>1, <2>2, <2>3, ExceptSeq
  <2>6. ASSUME NEW p \in Epochs, p # q PROVE log'[p] = log[p]
    BY <1>1, <2>5, <2>6 DEF Epochs
  <2>7. log'[q] = s
    BY <2>2, <2>5
  <2>8. ASSUME NEW p \in Epochs
        PROVE    \/ log'[p] = log[p]
                 \/ /\ p = epoch[e].parent
                    /\ DOMAIN log[p] = 1..Len(log[p]) /\ Len(log[p]) \in Nat
                    /\ DOMAIN log'[p] = 1..(Len(log[p]) + 1) /\ log'[p][Len(log[p]) + 1] = e
                    /\ \A i \in DOMAIN log[p] : log'[p][i] = log[p][i]
    <3>1. CASE p # q
      BY <2>6, <3>1
    <3>2. CASE p = q
      BY <2>3, <2>4, <2>7, <3>2 DEF q
    <3> QED BY <3>1, <3>2
  <2> QED BY <1>1, <1>2, <1>3, <1>4, <2>1, <2>5, <2>8
<1>5. CASE f.kind # "commit"
  <2>1. log' = log /\ invited' = [x \in Device |->
               IF x \in epoch[e].adds THEN invited[x] \cup {e} ELSE invited[x]]
    BY <1>2, <1>5 DEF Publish
  <2>2. invited' \in [Device -> SUBSET Nat]
    BY <1>1, <1>3, <2>1
  <2>3. \A x \in Device : \A k \in invited'[x] : k \in invited[x] \/ (k = e /\ x \in epoch[k].adds)
    BY <1>1, <2>1
  <2> QED BY <1>1, <1>2, <1>3, <2>1, <2>2, <2>3
<1> QED BY <1>4, <1>5

\* A frame that the gateway takes, once or twice, keeps the invariant.
LEMMA DeliverKeeps ==
    ASSUME GroupInv, NEW d \in Device, NEW f \in out[d], Deliver(d, f) \/ Duplicate(d, f), regime' = regime
    PROVE  GroupInv' /\ EpochsGrow /\ MailGrows
<1>1. Tree /\ FoundersStay /\ Carried /\ Sessions /\ Bounds /\ \A x \in Founder : Public(x)
  BY DEF GroupInv
<1>2. /\ Publish(f) /\ UNCHANGED <<epoch, mem, disk, jobs, ready, acked, listed>>
      /\ out' = out \/ out' = [out EXCEPT ![d] = @ \ {f}]
      /\ faults' = faults \/ (faults < regime.faults /\ faults' = faults + 1)
  BY DEF Deliver, Duplicate
<1>3. /\ f.e \in Epochs \ {GENESIS} /\ epoch[f.e].by = {d} /\ epoch[f.e].parent \in Epochs
      /\ log' \in Seq(Seq(Nat)) /\ Len(log)' = Len(epoch)
      /\ invited' \in [Device -> SUBSET Nat]
      /\ \A x \in Device : \A e \in invited'[x] : e \in invited[x] \/ (e = f.e /\ x \in epoch[e].adds)
      /\ \A p \in Epochs :
            \/ log'[p] = log[p]
            \/ /\ f.kind = "commit" /\ p = epoch[f.e].parent
               /\ DOMAIN log[p] = 1..Len(log[p]) /\ Len(log[p]) \in Nat
               /\ DOMAIN log'[p] = 1..(Len(log[p]) + 1) /\ log'[p][Len(log[p]) + 1] = f.e
               /\ \A i \in DOMAIN log[p] : log'[p][i] = log[p][i]
  BY <1>1, <1>2, GatewayTakes
<1>4. out \in [Device -> SUBSET FrameRecord] /\ listed \in Seq(SUBSET Device) /\ Len(listed) = Len(epoch)
  BY <1>1 DEF Carried
<1>5. out' \in [Device -> SUBSET FrameRecord] /\ \A x \in Device : out'[x] \subseteq out[x]
  BY <1>2, <1>4
<1>6. Tree' /\ EpochsGrow
  <2>1. Len(epoch) \in Nat
    BY <1>1, LenProperties DEF Tree
  <2> QED BY <1>1, <1>2, <2>1 DEF Tree, Epochs, EpochsGrow
<1>7. MailGrows
  <2>1. ASSUME NEW p \in Epochs
        PROVE  DOMAIN log[p] \subseteq DOMAIN log'[p] /\ \A i \in DOMAIN log[p] : log'[p][i] = log[p][i]
    <3>1. CASE log'[p] = log[p]
      BY <3>1
    <3>2. CASE /\ DOMAIN log[p] = 1..Len(log[p]) /\ Len(log[p]) \in Nat
               /\ DOMAIN log'[p] = 1..(Len(log[p]) + 1)
               /\ \A i \in DOMAIN log[p] : log'[p][i] = log[p][i]
      <4>1. 1..Len(log[p]) \subseteq 1..(Len(log[p]) + 1)
        BY <3>2
      <4> QED BY <3>2, <4>1
    <3> QED BY <1>3, <3>1, <3>2
  <2> QED BY <2>1 DEF MailGrows
<1>8. FoundersStay'
  BY <1>1, <1>2 DEF FoundersStay, Epochs, Roster, Revoked
<1>9. ASSUME NEW p \in Epochs' PROVE Mail(p)'
  <2>1. p \in Epochs /\ Epochs' = Epochs
    BY <1>2 DEF Epochs
  <2>2. Mail(p)
    BY <1>1, <2>1 DEF Carried
  <2>3. ASSUME NEW i \in DOMAIN log'[p]
        PROVE  log'[p][i] \in Epochs \ {GENESIS} /\ epoch[log'[p][i]].parent = p
    <3>1. CASE log'[p] = log[p]
      BY SMTT(30), <2>2, <3>1 DEF Mail
    <3>2. CASE /\ p = epoch[f.e].parent
               /\ DOMAIN log[p] = 1..Len(log[p]) /\ Len(log[p]) \in Nat
               /\ DOMAIN log'[p] = 1..(Len(log[p]) + 1) /\ log'[p][Len(log[p]) + 1] = f.e
               /\ \A k \in DOMAIN log[p] : log'[p][k] = log[p][k]
      <4>1. i \in DOMAIN log[p] \/ i = Len(log[p]) + 1
        BY <3>2
      <4> QED BY ZenonT(60), <1>3, <2>2, <3>2, <4>1 DEF Mail
    <3> QED BY <1>3, <2>1, <3>1, <3>2
  <2> QED BY <1>2, <2>1, <2>3 DEF Mail
<1>10. ASSUME NEW x \in Device PROVE Unsent(x)' /\ Welcomes(x)'
  <2>1. Unsent(x) /\ Welcomes(x)
    BY <1>1 DEF Carried
  <2>2. Epochs' = Epochs
    BY <1>2 DEF Epochs
  <2> QED BY <1>2, <1>3, <1>5, <2>1, <2>2 DEF Unsent, Welcomes
<1>11. Carried'
  BY <1>2, <1>3, <1>4, <1>5, <1>9, <1>10 DEF Carried
<1>12. Sessions'
  BY <1>1, <1>2 DEF Sessions, SessionOf, OnEpoch
<1>13. Bounds'
  BY <1>1, <1>2, BoundAssumption DEF Bounds, Regime
<1>14. ASSUME NEW x \in Founder PROVE Public(x)'
  <2>1. Public(x) /\ SessionOf(x)
    BY <1>1, DeviceAssumption DEF Sessions
  <2>2. /\ mem[x].head \in 0..Len(epoch) /\ disk[x].head \in 0..Len(epoch)
        /\ \A i \in DOMAIN jobs[x] : jobs[x][i].head \in 0..Len(epoch)
    BY <2>1 DEF SessionOf, OnEpoch
  <2>3. ASSUME NEW h \in 0..Len(epoch), FannedOut(h) PROVE FannedOut(h)'
    BY <1>1, <1>6, <1>7, <2>3, FannedKept
  <2>4. FannedOut(mem[x].head)'
    <3>1. PICK h \in 0..Len(epoch) : h = mem[x].head
      BY <2>2
    <3>2. FannedOut(h)'
      BY <2>1, <2>3, <3>1 DEF Public
    <3> QED BY <1>2, <3>1, <3>2
  <2>5. FannedOut(disk[x].head)'
    <3>1. PICK h \in 0..Len(epoch) : h = disk[x].head
      BY <2>2
    <3>2. FannedOut(h)'
      BY <2>1, <2>3, <3>1 DEF Public
    <3> QED BY <1>2, <3>1, <3>2
  <2>6. ASSUME NEW i \in DOMAIN jobs'[x] PROVE FannedOut(jobs[x][i].head)'
    <3>1. PICK h \in 0..Len(epoch) : h = jobs[x][i].head
      BY <1>2, <2>2
    <3>2. FannedOut(h)'
      BY <1>2, <2>1, <2>3, <3>1 DEF Public
    <3> QED BY <1>2, <3>1, <3>2
  <2> QED BY <2>4, <2>5, <2>6 DEF Public
<1> QED BY <1>6, <1>7, <1>8, <1>11, <1>12, <1>13, <1>14 DEF GroupInv
\* What staging leaves on the device: the commit staged in memory, its reseal queued.
LEMMA StagedSession ==
    ASSUME GroupInv, NEW d \in Device, NEW adds \in SUBSET Device,
           NEW removes \in SUBSET Device, Stage(d, adds, removes)
    PROVE  /\ mem' \in [Device -> MemRecord] /\ \A x \in Device \ {d} : mem'[x] = mem[x]
           /\ mem'[d].head = mem[d].head /\ mem'[d].pend = Len(epoch) + 1 /\ ~mem'[d].armed
           /\ jobs' \in [Device -> Seq(JobRecord)] /\ \A x \in Device \ {d} : jobs'[x] = jobs[x]
           /\ Len(jobs[d]) \in Nat /\ DOMAIN jobs[d] = 1..Len(jobs[d])
           /\ DOMAIN jobs'[d] = 1..(Len(jobs[d]) + 1) /\ Len(jobs'[d]) = Len(jobs[d]) + 1
           /\ \A i \in DOMAIN jobs[d] : jobs'[d][i] = jobs[d][i]
           /\ jobs'[d][Len(jobs[d]) + 1] = [head |-> mem[d].head, pend |-> Len(epoch) + 1,
                                            pub |-> Len(epoch) + 1, ack |-> {}]
           /\ \A x \in Device \ {d} : Idle(x)
<1>1. Sessions /\ mem \in [Device -> MemRecord] /\ SessionOf(d) /\ Tree /\ Carried
  BY DEF GroupInv, Sessions
<1>2. PICK e : e = Len(epoch) + 1
  OBVIOUS
<1>3. PICK h : h = mem[d].head
  OBVIOUS
<1>4. e \in Nat /\ h \in Nat
  BY <1>1, <1>2, <1>3, LenProperties DEF Tree, SessionOf, MemRecord
<1>5. Session(h, e) \in MemRecord /\ Session(h, e).head = h /\ Session(h, e).pend = e
      /\ Session(h, e).head \in Nat /\ Session(h, e).pend \in Nat /\ {} \in SUBSET (Nat \X Nat)
      /\ ~Session(h, e).armed
  BY <1>4 DEF Session, MemRecord
<1>6. /\ mem' = [mem EXCEPT ![d] = Session(h, e)] /\ Reseal(d, Session(h, e), e, {})
      /\ UNCHANGED <<disk, ready, out, acked, invited, faults>>
  BY <1>2, <1>3 DEF Stage
<1>7. mem' \in [Device -> MemRecord] /\ mem'[d] = Session(h, e) /\ \A x \in Device \ {d} : mem'[x] = mem[x]
  BY <1>1, <1>5, <1>6
<1>8. /\ jobs' \in [Device -> Seq(JobRecord)]
      /\ \A x \in Device \ {d} : jobs'[x] = jobs[x]
      /\ Len(jobs[d]) \in Nat /\ DOMAIN jobs[d] = 1..Len(jobs[d])
      /\ DOMAIN jobs'[d] = 1..(Len(jobs[d]) + 1) /\ Len(jobs'[d]) = Len(jobs[d]) + 1
      /\ \A i \in DOMAIN jobs[d] : jobs'[d][i] = jobs[d][i]
      /\ jobs'[d][Len(jobs[d]) + 1] =
            [head |-> Session(h, e).head, pend |-> Session(h, e).pend, pub |-> e, ack |-> {}]
  <2>1. ASSUME NEW m, m.head \in Nat, m.pend \in Nat, Reseal(d, m, e, {})
        PROVE  /\ jobs' \in [Device -> Seq(JobRecord)]
               /\ \A x \in Device \ {d} : jobs'[x] = jobs[x]
               /\ Len(jobs[d]) \in Nat /\ DOMAIN jobs[d] = 1..Len(jobs[d])
               /\ DOMAIN jobs'[d] = 1..(Len(jobs[d]) + 1) /\ Len(jobs'[d]) = Len(jobs[d]) + 1
               /\ \A i \in DOMAIN jobs[d] : jobs'[d][i] = jobs[d][i]
               /\ jobs'[d][Len(jobs[d]) + 1] = [head |-> m.head, pend |-> m.pend, pub |-> e, ack |-> {}]
    <3>1. {} \in SUBSET (Nat \X Nat)
      OBVIOUS
    <3>2. PICK ack \in SUBSET (Nat \X Nat) : ack = {}
      BY <3>1
    <3>3. Reseal(d, m, e, ack)
      BY <2>1, <3>2
    <3>4. /\ jobs' \in [Device -> Seq(JobRecord)]
          /\ \A x \in Device \ {d} : jobs'[x] = jobs[x]
          /\ Len(jobs[d]) \in Nat /\ DOMAIN jobs[d] = 1..Len(jobs[d])
          /\ DOMAIN jobs'[d] = 1..(Len(jobs[d]) + 1) /\ Len(jobs'[d]) = Len(jobs[d]) + 1
          /\ \A i \in DOMAIN jobs[d] : jobs'[d][i] = jobs[d][i]
          /\ jobs'[d][Len(jobs[d]) + 1] = [head |-> m.head, pend |-> m.pend, pub |-> e, ack |-> ack]
      <4>1. m.head \in Nat /\ m.pend \in Nat /\ e \in Nat /\ Sessions
        BY <1>1, <1>4, <2>1
      <4> QED BY <3>3, <4>1, ResealQueued
    <3> QED BY <3>2, <3>4
  <2> QED BY <1>5, <1>6, <2>1
<1>9. \A x \in Device \ {d} : Idle(x)
  BY <1>6, <1>7, <1>8 DEF Idle
<1> QED BY <1>2, <1>3, <1>5, <1>7, <1>8, <1>9

\* Staging keeps the invariant: the new epoch is in nobody's mailbox or memory but its author's.
LEMMA StageKeeps ==
    ASSUME GroupInv, NEW d \in Device, NEW adds \in SUBSET Device,
           NEW removes \in SUBSET Device, Stage(d, adds, removes), regime' = regime
    PROVE  GroupInv' /\ EpochsGrow /\ MailGrows
<1>1. Tree /\ FoundersStay /\ Carried /\ Sessions /\ Bounds /\ SessionOf(d) /\ \A x \in Founder : Public(x)
  BY DEF GroupInv, Sessions
<1>0. PICK L, h, n : L = Len(epoch) /\ h = mem[d].head /\ n = Len(jobs[d])
  OBVIOUS
<1>2. /\ h \in 1..L /\ L \in Nat \ {0} /\ Epochs = 1..L /\ Epochs' = 1..(L + 1)
      /\ Len(epoch') = L + 1 /\ Len(log') = L + 1 /\ Len(listed') = L + 1
      /\ log' \in Seq(Seq(Nat)) /\ listed' \in Seq(SUBSET Device)
      /\ \A e \in 1..L : epoch'[e] = epoch[e] /\ log'[e] = log[e]
      /\ epoch'[L + 1] = NewEpoch(d, adds, removes) /\ log'[L + 1] = <<>>
  <2>1. /\ mem[d].head \in Epochs /\ log' \in Seq(Seq(Nat)) /\ listed' \in Seq(SUBSET Device)
        /\ Len(epoch) \in Nat \ {0}
        /\ Len(epoch)' = Len(epoch) + 1 /\ Len(log)' = Len(epoch) + 1 /\ Len(listed)' = Len(epoch) + 1
        /\ \A e \in Epochs : epoch'[e] = epoch[e] /\ log'[e] = log[e] /\ listed'[e] = listed[e]
        /\ epoch'[Len(epoch) + 1] = NewEpoch(d, adds, removes)
        /\ log'[Len(epoch) + 1] = <<>> /\ listed'[Len(epoch) + 1] = {}
    BY <1>1, StagedEpoch
  <2> QED BY <1>0, <2>1 DEF Epochs
<1>3. epoch'[L + 1].parent = h /\ epoch'[L + 1].by = {d}
  BY <1>0, <1>2 DEF NewEpoch
<1>4. Tree' /\ FoundersStay'
  BY <1>1, StageTree, StageFounders
<1>5. /\ mem' \in [Device -> MemRecord]
      /\ mem'[d].head = h /\ mem'[d].pend = L + 1 /\ ~mem'[d].armed
      /\ jobs' \in [Device -> Seq(JobRecord)]
      /\ n \in Nat /\ DOMAIN jobs[d] = 1..n /\ DOMAIN jobs'[d] = 1..(n + 1)
      /\ \A i \in DOMAIN jobs[d] : jobs'[d][i] = jobs[d][i]
      /\ jobs'[d][n + 1] = [head |-> h, pend |-> L + 1, pub |-> L + 1, ack |-> {}]
      /\ \A x \in Device \ {d} : Idle(x)
  BY <1>0, StagedSession
<1>6. UNCHANGED <<disk, ready, out, acked, invited, faults>>
  BY DEF Stage
<1>7. EpochsGrow /\ MailGrows
  <2>1. Len(epoch) <= Len(epoch)' /\ Epochs = 1..L
    BY <1>0, <1>2
  <2>2. \A p \in Epochs : epoch'[p] = epoch[p] /\ log'[p] = log[p]
    BY <1>2
  <2> QED BY <2>1, <2>2 DEF EpochsGrow, MailGrows
<1>8. ASSUME NEW p \in Epochs' PROVE Mail(p)'
  <2>1. CASE p \in 1..L
    <3>1. Mail(p) /\ log'[p] = log[p]
      BY <1>1, <1>2, <2>1 DEF Carried
    <3>2. Epochs \subseteq Epochs'
      BY <1>2
    <3>3. \A i \in DOMAIN log[p] : log[p][i] \in 1..L /\ log[p][i] # GENESIS /\ epoch[log[p][i]].parent = p
      BY <1>2, <3>1 DEF Mail
    <3>4. \A i \in DOMAIN log[p] : epoch'[log[p][i]].parent = p
      BY <1>2, <3>3
    <3> QED BY <1>2, <3>1, <3>2, <3>3, <3>4 DEF Mail
  <2>2. CASE p = L + 1
    <3>1. DOMAIN log'[p] = {}
      BY <1>2, <2>2, EmptySeq
    <3> QED BY <3>1 DEF Mail
  <2> QED BY <1>2, <2>1, <2>2
<1>9. ASSUME NEW x \in Device PROVE Unsent(x)' /\ Welcomes(x)'
  BY <1>1, <1>4, <1>6, <1>7, CarriageKept DEF Carried
<1>10. Carried'
  BY <1>1, <1>2, <1>6, <1>8, <1>9 DEF Carried
<1>11. SessionOf(d)'
  <2>1. OnEpoch(d, h, L + 1)'
    BY <1>2, <1>3 DEF OnEpoch, GENESIS, NONE
  <2>2. \A i \in DOMAIN jobs'[d] :
         \/ i \in DOMAIN jobs[d] /\ jobs'[d][i] = jobs[d][i]
         \/ jobs'[d][i].head = h /\ jobs'[d][i].pend = L + 1 /\ jobs'[d][i].pub = L + 1
    <3>1. \A i \in 1..(n + 1) : i \in 1..n \/ i = n + 1
      BY <1>5
    <3> QED BY <1>5, <3>1
  <2>3. OnEpoch(d, mem[d].head, mem[d].pend)'
    BY <1>5, <2>1 DEF OnEpoch
  <2>4. OnEpoch(d, disk[d].head, disk[d].pend)'
    <3>1. PICK hd, pd : hd = disk[d].head /\ pd = disk[d].pend
      OBVIOUS
    <3>2. OnEpoch(d, hd, pd)'
      BY <1>1, <1>4, <1>7, <3>1, OnEpochKept DEF SessionOf
    <3> QED BY <1>6, <3>1, <3>2
  <2>5. ASSUME NEW i \in DOMAIN jobs'[d]
        PROVE  OnEpoch(d, jobs[d][i].head, jobs[d][i].pend)' /\ jobs'[d][i].pub \in {NONE, jobs'[d][i].pend}
    <3>1. CASE i \in DOMAIN jobs[d] /\ jobs'[d][i] = jobs[d][i]
      <4>1. PICK hd, pd : hd = jobs[d][i].head /\ pd = jobs[d][i].pend
        OBVIOUS
      <4>2. OnEpoch(d, hd, pd) /\ jobs[d][i].pub \in {NONE, pd}
        BY <1>1, <3>1, <4>1 DEF SessionOf
      <4>3. OnEpoch(d, hd, pd)'
        BY <1>1, <1>4, <1>7, <4>2, OnEpochKept
      <4> QED BY <3>1, <4>1, <4>2, <4>3
    <3>2. CASE jobs'[d][i].head = h /\ jobs'[d][i].pend = L + 1 /\ jobs'[d][i].pub = L + 1
      BY <2>1, <3>2 DEF OnEpoch
    <3> QED BY <2>2, <3>1, <3>2
  <2>6. ASSUME NEW i \in DOMAIN ready'[d] PROVE ready'[d][i].pub \in 0..Len(epoch')
    <3>1. ready[d][i].pub \in 0..L
      BY <1>0, <1>1, <1>6, <2>6 DEF SessionOf
    <3>2. PICK u : u = ready[d][i].pub
      OBVIOUS
    <3>3. ready'[d][i].pub = u
      BY <1>6, <3>2
    <3>4. L \in Nat /\ Len(epoch') = L + 1
      BY <1>2
    <3>5. u \in 0..(L + 1)
      BY <3>1, <3>2, <3>4
    <3> QED BY <3>3, <3>4, <3>5
  <2>7. mem'[d] \in MemRecord /\ disk'[d] \in SealRecord /\ jobs'[d] \in Seq(JobRecord)
        /\ ready'[d] \in Seq(JobRecord) /\ acked'[d] \in SUBSET (Nat \X Nat)
    BY <1>1, <1>5, <1>6 DEF Sessions
  <2> QED BY <1>5, <2>3, <2>4, <2>5, <2>6, <2>7 DEF SessionOf
<1>12. ASSUME NEW x \in Device PROVE SessionOf(x)'
  BY <1>1, <1>4, <1>5, <1>7, <1>11, SessionKept DEF Sessions
<1>13. Sessions'
  BY <1>1, <1>5, <1>6, <1>12 DEF Sessions
<1>14. Bounds'
  BY <1>1, <1>6 DEF Bounds
<1>15. ASSUME d \in Founder PROVE Public(d)'
  <2>1. \A i \in DOMAIN jobs'[d] :
         \/ i \in DOMAIN jobs[d] /\ jobs'[d][i] = jobs[d][i]
         \/ jobs'[d][i].head = h
    <3>1. \A i \in 1..(n + 1) : i \in 1..n \/ i = n + 1
      BY <1>5
    <3> QED BY <1>5, <3>1
  <2>2. ASSUME NEW k \in 0..Len(epoch), FannedOut(k) PROVE FannedOut(k)'
    BY <1>1, <1>7, <2>2, FannedKept
  <2>3. /\ h \in 0..Len(epoch) /\ disk[d].head \in 0..Len(epoch)
        /\ \A i \in DOMAIN jobs[d] : jobs[d][i].head \in 0..Len(epoch)
    BY <1>0, <1>1 DEF SessionOf, OnEpoch
  <2>4. /\ FannedOut(h) /\ FannedOut(disk[d].head)
        /\ \A i \in DOMAIN jobs[d] : FannedOut(jobs[d][i].head)
    BY <1>0, <1>1, <1>15 DEF Public
  <2>5. PICK k \in 0..Len(epoch) : k = h
    BY <2>3
  <2>6. FannedOut(k)'
    BY <2>2, <2>4, <2>5
  <2>7. FannedOut(mem[d].head)'
    BY <1>5, <2>5, <2>6
  <2>8. FannedOut(disk[d].head)'
    <3>1. PICK s \in 0..Len(epoch) : s = disk[d].head
      BY <2>3
    <3>2. FannedOut(s)'
      BY <2>2, <2>4, <3>1
    <3> QED BY <1>6, <3>1, <3>2
  <2>9. ASSUME NEW i \in DOMAIN jobs'[d] PROVE FannedOut(jobs[d][i].head)'
    <3>1. CASE i \in DOMAIN jobs[d] /\ jobs'[d][i] = jobs[d][i]
      <4>1. PICK s \in 0..Len(epoch) : s = jobs[d][i].head
        BY <2>3, <3>1
      <4>2. FannedOut(s)'
        BY <2>2, <2>4, <3>1, <4>1
      <4> QED BY <3>1, <4>1, <4>2
    <3>2. CASE jobs'[d][i].head = h
      BY <2>5, <2>6, <3>2
    <3> QED BY <2>1, <3>1, <3>2
  <2> QED BY <2>7, <2>8, <2>9 DEF Public
<1>16. ASSUME NEW x \in Founder PROVE Public(x)'
  BY <1>1, <1>5, <1>7, <1>15, PublicKept, DeviceAssumption DEF Sessions
<1> QED BY <1>4, <1>7, <1>10, <1>13, <1>14, <1>16 DEF GroupInv
\* The founding group satisfies the invariant.
LEMMA GroupInit ==
    ASSUME Init
    PROVE  GroupInv
<1> DEFINE G == [by |-> {}, parent |-> NONE, adds |-> {}, removes |-> {},
                 roster |-> Founder, path |-> {GENESIS}]
<1>1. G \in EpochRecord /\ G.path = {1} /\ G.roster = Founder /\ G.adds = {} /\ G.removes = {}
  BY DeviceAssumption DEF EpochRecord, NONE, GENESIS
<1>2. epoch = <<G>> /\ log = <<<<>>>> /\ listed = <<Founder>> /\ faults = 0 /\ regime \in Regimes
  BY DEF Init
<1> HIDE DEF G
<1>3. epoch \in Seq(EpochRecord) /\ Len(epoch) = 1 /\ epoch[1] = G /\ epoch # <<>> /\ Epochs = {1}
  BY <1>1, <1>2 DEF Epochs
<1>4. <<>> \in Seq(Nat) /\ <<>> \in Seq(JobRecord) /\ Founder \in SUBSET Device
  BY EmptySeq, DeviceAssumption
<1>5. /\ log \in Seq(Seq(Nat)) /\ Len(log) = 1 /\ log[1] = <<>> /\ DOMAIN log[1] = {}
      /\ listed \in Seq(SUBSET Device) /\ Len(listed) = 1
  BY <1>2, <1>4, EmptySeq
<1>6. Tree
  BY <1>1, <1>3 DEF Tree, GENESIS
<1>7. FoundersStay
  BY <1>1, <1>3 DEF FoundersStay, Roster
<1>8. /\ out = [d \in Device |-> {}] /\ invited = [d \in Device |-> {}] /\ acked = [d \in Device |-> {}]
      /\ jobs = [d \in Device |-> <<>>] /\ ready = [d \in Device |-> <<>>]
      /\ mem = [d \in Device |-> Session(IF d \in Founder THEN GENESIS ELSE NONE, NONE)]
      /\ disk = [d \in Device |-> [head |-> IF d \in Founder THEN GENESIS ELSE NONE, pend |-> NONE]]
  BY DEF Init
<1>9. Carried
  <2>1. out \in [Device -> SUBSET FrameRecord] /\ invited \in [Device -> SUBSET Nat]
    BY <1>8
  <2>2. \A d \in Device : Unsent(d) /\ Welcomes(d)
    BY <1>8 DEF Unsent, Welcomes
  <2>3. \A p \in Epochs : Mail(p)
    BY <1>3, <1>5 DEF Mail
  <2> QED BY <1>3, <1>5, <2>1, <2>2, <2>3 DEF Carried
<1>10. ASSUME NEW d \in Device
       PROVE  /\ mem[d] \in MemRecord /\ disk[d] \in SealRecord
              /\ mem[d].head \in {0, 1} /\ mem[d].pend = 0 /\ ~mem[d].armed
              /\ disk[d].head \in {0, 1} /\ disk[d].pend = 0
              /\ jobs[d] = <<>> /\ ready[d] = <<>> /\ acked[d] = {}
  BY <1>8 DEF Session, GENESIS, NONE, MemRecord, SealRecord
<1>11. ASSUME NEW d \in Device PROVE SessionOf(d)
  <2>1. OnEpoch(d, mem[d].head, mem[d].pend) /\ OnEpoch(d, disk[d].head, disk[d].pend)
    BY <1>3, <1>10 DEF OnEpoch, NONE
  <2>2. DOMAIN jobs[d] = {} /\ DOMAIN ready[d] = {}
    BY <1>10, EmptySeq
  <2> QED BY <1>4, <1>10, <2>1, <2>2 DEF SessionOf
<1>12. /\ mem \in [Device -> MemRecord] /\ disk \in [Device -> SealRecord]
       /\ jobs \in [Device -> Seq(JobRecord)] /\ ready \in [Device -> Seq(JobRecord)]
       /\ acked \in [Device -> SUBSET (Nat \X Nat)]
  <2>1. mem \in [Device -> MemRecord]
    BY <1>8, <1>10
  <2>2. disk \in [Device -> SealRecord]
    BY <1>8, <1>10
  <2>3. jobs \in [Device -> Seq(JobRecord)] /\ ready \in [Device -> Seq(JobRecord)]
    BY <1>4, <1>8
  <2>4. acked \in [Device -> SUBSET (Nat \X Nat)]
    BY <1>8
  <2> QED BY <2>1, <2>2, <2>3, <2>4
<1>13. Sessions
  BY <1>11, <1>12 DEF Sessions
<1>14. Bounds
  BY <1>2, BoundAssumption DEF Bounds, Regime
<1>15. ASSUME NEW d \in Founder PROVE Public(d)
  <2>1. FannedOut(0) /\ FannedOut(1)
    BY <1>1, <1>3 DEF FannedOut, GENESIS, NONE
  <2>2. d \in Device
    BY DeviceAssumption
  <2>3. DOMAIN jobs[d] = {}
    BY <1>10, <2>2, EmptySeq
  <2>4. FannedOut(mem[d].head) /\ FannedOut(disk[d].head)
    BY <1>10, <2>1, <2>2
  <2> QED BY <2>3, <2>4 DEF Public
<1> QED BY <1>6, <1>7, <1>9, <1>13, <1>14, <1>15 DEF GroupInv

\* Every step keeps the invariant, and neither an epoch nor a mailbox entry is lost.
LEMMA GroupStep ==
    ASSUME GroupInv, [Next]_vars
    PROVE  GroupInv' /\ EpochsGrow /\ MailGrows
<1>1. ASSUME UNCHANGED vars PROVE GroupInv' /\ EpochsGrow /\ MailGrows
  <2>1. /\ epoch' = epoch /\ mem' = mem /\ disk' = disk /\ jobs' = jobs /\ ready' = ready
        /\ out' = out /\ log' = log /\ acked' = acked /\ listed' = listed /\ invited' = invited
        /\ faults' = faults /\ regime' = regime
    BY <1>1 DEF vars
  <2>2. Len(epoch) \in Nat
    BY LenProperties DEF GroupInv, Tree
  <2>3. EpochsGrow /\ MailGrows
    BY <2>1, <2>2 DEF EpochsGrow, MailGrows
  <2>4. Tree' /\ FoundersStay' /\ Bounds'
    BY <2>1 DEF GroupInv, Tree, FoundersStay, Bounds, Epochs, Roster, Revoked
  <2>5. Carried' /\ Sessions'
    <3>1. Carried'
      BY <2>1 DEF GroupInv, Carried, Mail, Unsent, Welcomes, Epochs
    <3>2. Sessions'
      BY ZenonT(60), <2>1 DEF GroupInv, Sessions, SessionOf, OnEpoch
    <3> QED BY <3>1, <3>2
  <2>6. \A d \in Founder : Public(d)'
    BY <2>1 DEF GroupInv, Public, FannedOut
  <2> QED BY <2>3, <2>4, <2>5, <2>6 DEF GroupInv
<1>2. ASSUME NEW d \in Device, regime' = regime, Step(d) PROVE GroupInv' /\ EpochsGrow /\ MailGrows
  <2>1. ASSUME Sealed(d) PROVE GroupInv' /\ EpochsGrow /\ MailGrows
    BY <1>2, <2>1, SealedKeeps
  <2>2. ASSUME Continue(d) PROVE GroupInv' /\ EpochsGrow /\ MailGrows
    BY <1>2, <2>2, ContinueKeeps
  <2>3. ASSUME NEW f \in out[d], Deliver(d, f) PROVE GroupInv' /\ EpochsGrow /\ MailGrows
    BY <1>2, <2>3, DeliverKeeps
  <2>4. ASSUME DropOwn(d) \/ Backstop(d) PROVE GroupInv' /\ EpochsGrow /\ MailGrows
    BY <1>2, <2>4, SmallKeeps
  <2>5. ASSUME Merge(d) \/ Evicted(d) PROVE GroupInv' /\ EpochsGrow /\ MailGrows
    BY <1>2, <2>5, MergeKeeps
  <2>6. ASSUME NEW e \in invited[d], Join(d, e) PROVE GroupInv' /\ EpochsGrow /\ MailGrows
    BY <1>2, <2>6, JoinKeeps
  <2> QED BY <1>2, <2>1, <2>2, <2>3, <2>4, <2>5, <2>6 DEF Step
<1>3. ASSUME NEW d \in Device, regime' = regime, Fault(d) PROVE GroupInv' /\ EpochsGrow /\ MailGrows
  <2>1. ASSUME SealFails(d) PROVE GroupInv' /\ EpochsGrow /\ MailGrows
    BY <1>3, <2>1, SealedKeeps
  <2>2. ASSUME NEW f \in out[d], Duplicate(d, f) PROVE GroupInv' /\ EpochsGrow /\ MailGrows
    BY <1>3, <2>2, DeliverKeeps
  <2>3. ASSUME NEW f \in out[d], Lose(d, f) PROVE GroupInv' /\ EpochsGrow /\ MailGrows
    BY <1>3, <2>3, SmallKeeps
  <2>4. ASSUME Crash(d) \/ Reconnect(d) PROVE GroupInv' /\ EpochsGrow /\ MailGrows
    BY <1>3, <2>4, RestartKeeps
  <2> QED BY <1>3, <2>1, <2>2, <2>3, <2>4 DEF Fault
<1>4. ASSUME NEW d \in Device, NEW x \in Device, regime' = regime, Stage(d, {x}, {}) \/ Stage(d, {}, {x})
      PROVE  GroupInv' /\ EpochsGrow /\ MailGrows
  <2>1. {x} \in SUBSET Device /\ {} \in SUBSET Device
    OBVIOUS
  <2>2. ASSUME NEW a \in SUBSET Device, NEW r \in SUBSET Device, Stage(d, a, r)
        PROVE  GroupInv' /\ EpochsGrow /\ MailGrows
    BY <1>4, <2>2, StageKeeps
  <2> QED BY <1>4, <2>1, <2>2
<1> QED BY <1>1, <1>2, <1>3, <1>4 DEF Next

\* In every environment the sessions, epochs and mailboxes stay well formed, a staged
\* commit leaves the epoch its device is on, and the faults stay within the regime's bound.
THEOREM GroupTypes == Spec => []TypeOK
<1>1. Init => GroupInv
  BY GroupInit
<1>2. GroupInv /\ [Next]_vars => GroupInv'
  BY GroupStep
<1>3. GroupInv => TypeOK
  <2> SUFFICES ASSUME GroupInv PROVE TypeOK
    OBVIOUS
  <2>1. Carried /\ Sessions /\ Bounds
    BY DEF GroupInv
  <2>2. \A d \in Device : /\ OnEpoch(d, mem[d].head, mem[d].pend) /\ OnEpoch(d, disk[d].head, disk[d].pend)
                          /\ mem[d].armed => mem[d].pend # NONE
                          /\ mem[d] \in MemRecord
    BY <2>1 DEF Sessions, SessionOf
  <2>3. \A d \in Device : mem[d].armed \in BOOLEAN
    BY <2>2 DEF MemRecord
  <2> QED BY <2>1, <2>2, <2>3 DEF TypeOK, OnEpoch, Carried, Bounds
<1> QED BY <1>1, <1>2, <1>3, PTL DEF Spec

\* In every environment, crashes, failing stores, lost and duplicated frames included, a
\* founder is on an epoch only when the gateway has fanned out each commit that leads to it.
THEOREM NothingPrivate == Spec => []NoPrivateEpoch
<1>1. Init => GroupInv
  BY GroupInit
<1>2. GroupInv /\ [Next]_vars => GroupInv'
  BY GroupStep
<1>3. GroupInv => NoPrivateEpoch
  BY DEF GroupInv, NoPrivateEpoch, Public, FannedOut
<1> QED BY <1>1, <1>2, <1>3, PTL DEF Spec
-----------------------------------------------------------------------------
(* The invariant of an orderly environment. *)

\* From h on to k: k is on a path through h, or the group has been left.
Later(h, k) == k = NONE \/ (h # NONE /\ h \in epoch[k].path)

\* k is strictly after p.
Past(p, k) == k = NONE \/ (p \in epoch[k].path /\ p # k)

\* Every commit on the way to h is the first of its epoch's mailbox.
Canonical(h) ==
    h # NONE => \A c \in epoch[h].path \ {GENESIS} :
                    1 \in DOMAIN log[epoch[c].parent] /\ log[epoch[c].parent][1] = c

\* d has published its commit e.
Published(d, e) ==
    \/ Frame("commit", e) \in out[d]
    \/ \E i \in DOMAIN log[epoch[e].parent] : log[epoch[e].parent][i] = e

Own(d) == {e \in Epochs \ {GENESIS} : epoch[e].by = {d}}

\* A session of d: a member, on the way all founders take, whose published commits are
\* the staged one.
Sound(d, head, pend) ==
    /\ head # NONE => d \in Roster(head)
    /\ Canonical(head)
    /\ \A e \in Own(d) : epoch[e].parent = head /\ Published(d, e) => pend = e

\* What is sealed, on its way to the store and in memory follow one another.
InSequence(d) ==
    /\ Later(disk[d].head, mem[d].head)
    /\ \A i \in DOMAIN jobs[d] :
          /\ Later(disk[d].head, jobs[d][i].head) /\ Later(jobs[d][i].head, mem[d].head)
          /\ \A j \in DOMAIN jobs[d] : i <= j => Later(jobs[d][i].head, jobs[d][j].head)

\* An entry is acked when the epoch after it is sealed.
AckedLate(d) ==
    /\ \A n \in acked[d] : Past(n[1], disk[d].head)
    /\ \A i \in DOMAIN jobs[d] : \A n \in jobs[d][i].ack : Past(n[1], jobs[d][i].head)
    /\ \A i \in DOMAIN ready[d] : \A n \in ready[d][i].ack : Past(n[1], disk[d].head)

\* A commit is published when it is sealed: while it is the staged one its reseal is
\* the last.
SealedFirst(d) ==
    /\ \A i \in DOMAIN jobs[d] : jobs[d][i].pub # NONE /\ jobs[d][i].pub = mem[d].pend =>
          i = Len(jobs[d]) /\ jobs[d][i].head = mem[d].head /\ jobs[d][i].pend = mem[d].pend
    /\ \A i \in DOMAIN ready[d] : ready[d][i].pub # NONE /\ ready[d][i].pub = mem[d].pend =>
          jobs[d] = <<>> /\ disk[d].head = mem[d].head /\ disk[d].pend = mem[d].pend

\* The sealed epoch is on or after the epoch each published commit leaves.
SealedFar(d) == \A e \in Own(d) : Published(d, e) => Later(epoch[e].parent, disk[d].head)

AllSound(d) ==
    /\ Sound(d, mem[d].head, mem[d].pend) /\ Sound(d, disk[d].head, disk[d].pend)
    /\ \A i \in DOMAIN jobs[d] : Sound(d, jobs[d][i].head, jobs[d][i].pend)

FounderInv(d) == AllSound(d) /\ InSequence(d) /\ AckedLate(d) /\ SealedFirst(d) /\ SealedFar(d)

\* Nobody stages on an epoch before all its members listen, and a commit has one author.
AllListen ==
    \A e \in Epochs \ {GENESIS} : /\ Roster(epoch[e].parent) \subseteq listed[epoch[e].parent]
                                  /\ \E a \in Device : epoch[e].by = {a}

OrderInv == Orderly => AllListen /\ \A d \in Founder : FounderInv(d)

-----------------------------------------------------------------------------
(* Facts on the ground the sessions stand on. *)

\* The only commit of x that becomes published is q (none, if q is NONE).
NewsOnly(x, q) == \A e \in Own(x)' : Published(x, e)' => e \in Own(x) /\ (Published(x, e) \/ e = q)

\* A sound session, also once q is published.
SoundFor(x, h, p, q) ==
    h \in 0..Len(epoch) /\ Sound(x, h, p) /\ (q # NONE /\ epoch[q].parent = h => p = q)

\* The sessions x has after a step, judged on the ground before it.
SoundNext(x, q) ==
    /\ SoundFor(x, mem'[x].head, mem'[x].pend, q) /\ SoundFor(x, disk'[x].head, disk'[x].pend, q)
    /\ \A i \in DOMAIN jobs'[x] : SoundFor(x, jobs'[x][i].head, jobs'[x][i].pend, q)
SequenceNext(x) ==
    /\ Later(disk'[x].head, mem'[x].head)
    /\ \A i \in DOMAIN jobs'[x] :
          /\ Later(disk'[x].head, jobs'[x][i].head) /\ Later(jobs'[x][i].head, mem'[x].head)
          /\ \A j \in DOMAIN jobs'[x] : i <= j => Later(jobs'[x][i].head, jobs'[x][j].head)
AckedNext(x) ==
    /\ \A n \in acked'[x] : Past(n[1], disk'[x].head)
    /\ \A i \in DOMAIN jobs'[x] : \A n \in jobs'[x][i].ack : Past(n[1], jobs'[x][i].head)
    /\ \A i \in DOMAIN ready'[x] : \A n \in ready'[x][i].ack : Past(n[1], disk'[x].head)
FarNext(x, q) ==
    Later(disk[x].head, disk'[x].head) /\ (q # NONE => Later(epoch[q].parent, disk'[x].head))

\* Following epochs is reflexive and transitive.
LEMMA LaterOrder ==
    ASSUME Tree, NEW a \in 0..Len(epoch), NEW b \in 0..Len(epoch), NEW c \in 0..Len(epoch)
    PROVE  /\ Later(a, a)
           /\ Later(a, b) /\ Later(b, c) => Later(a, c)
<1>1. Len(epoch) \in Nat
  BY LenProperties DEF Tree
<1>2. \A e \in 0..Len(epoch) : e # NONE => e \in Epochs
  BY <1>1 DEF Epochs, NONE
<1>3. \A e \in Epochs : e \in epoch[e].path /\ \A k \in epoch[e].path : epoch[k].path \subseteq epoch[e].path
  BY DEF Tree
<1> QED BY <1>2, <1>3 DEF Later

\* What is past an epoch stays past it further on.
LEMMA PastLater ==
    ASSUME Tree, NEW p, NEW b \in 0..Len(epoch), NEW c \in 0..Len(epoch), Past(p, b), Later(b, c)
    PROVE  Past(p, c)
<1>1. SUFFICES ASSUME c # NONE PROVE p \in epoch[c].path /\ p # c
  BY DEF Past
<1>2. Len(epoch) \in Nat
  BY LenProperties DEF Tree
<1>3. b # NONE /\ b \in epoch[c].path /\ p \in epoch[b].path /\ p # b /\ b \in Epochs /\ c \in Epochs
  BY <1>1, <1>2 DEF Later, Past, Epochs, NONE
<1>4. epoch[b].path \subseteq epoch[c].path /\ epoch[c].path \subseteq 1..c /\ epoch[b].path \subseteq 1..b
  BY <1>3 DEF Tree
<1>5. p \in Nat /\ b \in Nat /\ c \in Nat /\ p <= b /\ b <= c
  BY <1>2, <1>3, <1>4 DEF Epochs
<1> QED BY <1>3, <1>4, <1>5

\* Nothing of the epoch in memory, or of a later one, is past the sealed one.
LEMMA NotPast ==
    ASSUME Tree, NEW s \in 0..Len(epoch), NEW h \in Epochs, Later(s, h)
    PROVE  s \in Epochs /\ s <= h /\ ~Past(h, s) /\ \A k \in epoch[s].path : k \in epoch[h].path /\ k <= h
<1>1. Len(epoch) \in Nat /\ h # NONE
  BY LenProperties DEF Tree, Epochs, NONE
<1>2. s # NONE /\ s \in epoch[h].path /\ s \in Epochs
  BY <1>1 DEF Later, Epochs, NONE
<1>3. epoch[s].path \subseteq epoch[h].path /\ epoch[h].path \subseteq 1..h /\ epoch[s].path \subseteq 1..s
  BY <1>2 DEF Tree
<1>4. s \in Nat /\ h \in Nat /\ s <= h
  BY <1>1, <1>2, <1>3 DEF Epochs
<1>5. ~Past(h, s)
  BY <1>2, <1>3, <1>4 DEF Past
<1> QED BY <1>2, <1>3, <1>4, <1>5

\* The order of epochs and the way to one do not change when others are staged and published.
LEMMA GroundKept ==
    ASSUME Tree, Tree', EpochsGrow, MailGrows, NEW h \in 0..Len(epoch)
    PROVE  /\ \A p : Past(p, h)' <=> Past(p, h)
           /\ \A p : Later(p, h)' <=> Later(p, h)
           /\ Canonical(h) => Canonical(h)'
           /\ h # NONE => Roster(h)' = Roster(h)
<1>1. Len(epoch) \in Nat /\ \A e \in Epochs : epoch'[e] = epoch[e]
  BY LenProperties DEF Tree, EpochsGrow
<1>2. h # NONE => h \in Epochs /\ epoch'[h] = epoch[h]
  BY <1>1 DEF Epochs, NONE
<1>3. (\A p : Past(p, h)' <=> Past(p, h)) /\ (\A p : Later(p, h)' <=> Later(p, h))
  BY <1>2 DEF Past, Later
<1>4. h # NONE => Roster(h)' = Roster(h)
  BY <1>2 DEF Roster
<1>5. ASSUME Canonical(h) PROVE Canonical(h)'
  <2>1. SUFFICES ASSUME h # NONE, NEW c \in epoch'[h].path \ {GENESIS}
                 PROVE  1 \in DOMAIN log'[epoch'[c].parent] /\ log'[epoch'[c].parent][1] = c
    BY DEF Canonical
  <2>2. c \in epoch[h].path \ {GENESIS} /\ epoch[h].path \subseteq 1..h /\ h \in 1..Len(epoch)
    BY <1>2, <2>1 DEF Tree, Epochs
  <2>3. c \in Epochs /\ c # GENESIS
    BY <1>1, <2>2 DEF Epochs
  <2>4. epoch'[c] = epoch[c] /\ epoch[c].parent \in Epochs
    BY <1>1, <2>3 DEF Tree, Epochs
  <2>5. 1 \in DOMAIN log[epoch[c].parent] /\ log[epoch[c].parent][1] = c
    BY <1>5, <2>1, <2>2 DEF Canonical
  <2> QED BY <2>4, <2>5 DEF MailGrows
<1> QED BY <1>3, <1>4, <1>5
\* A session stays sound if the only commit that becomes published is the staged one.
LEMMA SoundKept ==
    ASSUME Tree, Tree', EpochsGrow, MailGrows, NEW x, NEW q, NewsOnly(x, q), NEW h, NEW pd,
           SoundFor(x, h, pd, q)
    PROVE  Sound(x, h, pd)'
<1>1. h \in 0..Len(epoch) /\ Sound(x, h, pd) /\ (q # NONE /\ epoch[q].parent = h => pd = q)
  BY DEF SoundFor
<1>2. Canonical(h)' /\ (h # NONE => x \in Roster(h)')
  BY <1>1, GroundKept DEF Sound
<1>3. ASSUME NEW e \in Own(x)', epoch'[e].parent = h, Published(x, e)' PROVE pd = e
  <2>1. e \in Own(x) /\ (Published(x, e) \/ e = q)
    BY <1>3 DEF NewsOnly
  <2>2. epoch'[e] = epoch[e] /\ e # NONE
    BY <2>1 DEF Own, EpochsGrow, Epochs, NONE
  <2> QED BY <1>1, <1>3, <2>1, <2>2 DEF Sound
<1> QED BY <1>2, <1>3 DEF Sound

\* A step that leaves a founder's sessions sound, in sequence and acked late, and publishes at
\* most a commit that is sealed, keeps the founder's invariant.
LEMMA FounderStep ==
    ASSUME Tree, Tree', EpochsGrow, MailGrows, NEW x \in Device, NEW q \in 0..Len(epoch), NewsOnly(x, q),
           SessionOf(x), SealedFar(x),
           SoundNext(x, q), SequenceNext(x), AckedNext(x), FarNext(x, q), SealedFirst(x)'
    PROVE  FounderInv(x)'
<1>1. AllSound(x)'
  <2>1. Sound(x, mem[x].head, mem[x].pend)'
    <3>1. PICK h, p : h = mem'[x].head /\ p = mem'[x].pend
      OBVIOUS
    <3>2. SoundFor(x, h, p, q)
      BY <3>1 DEF SoundNext
    <3>3. Sound(x, h, p)'
      BY <3>2, SoundKept
    <3> QED BY <3>1, <3>3
  <2>2. Sound(x, disk[x].head, disk[x].pend)'
    <3>1. PICK h, p : h = disk'[x].head /\ p = disk'[x].pend
      OBVIOUS
    <3>2. SoundFor(x, h, p, q)
      BY <3>1 DEF SoundNext
    <3>3. Sound(x, h, p)'
      BY <3>2, SoundKept
    <3> QED BY <3>1, <3>3
  <2>3. ASSUME NEW i \in DOMAIN jobs'[x] PROVE Sound(x, jobs[x][i].head, jobs[x][i].pend)'
    <3>1. PICK h, p : h = jobs'[x][i].head /\ p = jobs'[x][i].pend
      OBVIOUS
    <3>2. SoundFor(x, h, p, q)
      BY <3>1 DEF SoundNext
    <3>3. Sound(x, h, p)'
      BY <3>2, SoundKept
    <3> QED BY <3>1, <3>3
  <2> QED BY <2>1, <2>2, <2>3 DEF AllSound
<1>2. /\ mem'[x].head \in 0..Len(epoch) /\ disk'[x].head \in 0..Len(epoch)
      /\ \A i \in DOMAIN jobs'[x] : jobs'[x][i].head \in 0..Len(epoch)
  BY DEF SoundNext, SoundFor
<1>3. ASSUME NEW h \in 0..Len(epoch), NEW p
      PROVE (Past(p, h)' <=> Past(p, h)) /\ (Later(p, h)' <=> Later(p, h))
  BY GroundKept
<1>4. InSequence(x)'
  <2>1. PICK h, s : h = mem'[x].head /\ s = disk'[x].head
    OBVIOUS
  <2>2. Later(s, h)'
    BY <1>2, <1>3, <2>1 DEF SequenceNext
  <2>3. ASSUME NEW i \in DOMAIN jobs'[x]
        PROVE  /\ Later(disk[x].head, jobs[x][i].head)' /\ Later(jobs[x][i].head, mem[x].head)'
               /\ \A j \in DOMAIN jobs'[x] : i <= j => Later(jobs[x][i].head, jobs[x][j].head)'
    <3>1. PICK k : k = jobs'[x][i].head
      OBVIOUS
    <3>2. Later(s, k)' /\ Later(k, h)'
      BY <1>2, <1>3, <2>1, <3>1 DEF SequenceNext
    <3>3. ASSUME NEW j \in DOMAIN jobs'[x], i <= j PROVE Later(jobs[x][i].head, jobs[x][j].head)'
      <4>1. PICK c : c = jobs'[x][j].head
        OBVIOUS
      <4>2. Later(k, c)'
        BY <1>2, <1>3, <3>1, <3>3, <4>1 DEF SequenceNext
      <4> QED BY <3>1, <4>1, <4>2
    <3> QED BY <2>1, <3>1, <3>2, <3>3
  <2> QED BY <2>1, <2>2, <2>3 DEF InSequence
<1>5. AckedLate(x)'
  <2>1. PICK s : s = disk'[x].head
    OBVIOUS
  <2>2. ASSUME NEW n \in acked'[x] PROVE Past(n[1], disk[x].head)'
    <3>1. PICK p : p = n[1]
      OBVIOUS
    <3>2. Past(p, s)'
      BY <1>2, <1>3, <2>1, <3>1 DEF AckedNext
    <3> QED BY <2>1, <3>1, <3>2
  <2>3. ASSUME NEW i \in DOMAIN ready'[x], NEW n \in ready'[x][i].ack PROVE Past(n[1], disk[x].head)'
    <3>1. PICK p : p = n[1]
      OBVIOUS
    <3>2. Past(p, s)'
      BY <1>2, <1>3, <2>1, <3>1 DEF AckedNext
    <3> QED BY <2>1, <3>1, <3>2
  <2>4. ASSUME NEW i \in DOMAIN jobs'[x], NEW n \in jobs'[x][i].ack PROVE Past(n[1], jobs[x][i].head)'
    <3>1. PICK p, k : p = n[1] /\ k = jobs'[x][i].head
      OBVIOUS
    <3>2. Past(p, k)'
      BY <1>2, <1>3, <3>1 DEF AckedNext
    <3> QED BY <3>1, <3>2
  <2> QED BY <2>2, <2>3, <2>4 DEF AckedLate
<1>6. SealedFar(x)'
  <2>1. SUFFICES ASSUME NEW e \in Own(x)', Published(x, e)' PROVE Later(epoch[e].parent, disk[x].head)'
    BY DEF SealedFar
  <2>2. e \in Own(x) /\ (Published(x, e) \/ e = q)
    BY <2>1 DEF NewsOnly
  <2>3. e \in Epochs \ {GENESIS} /\ epoch'[e] = epoch[e] /\ e # NONE /\ Len(epoch) \in Nat
    BY <2>2, LenProperties DEF Own, EpochsGrow, Epochs, NONE, Tree
  <2>4. PICK p, s, t : p = epoch[e].parent /\ s = disk'[x].head /\ t = disk[x].head
    OBVIOUS
  <2>5. p \in 0..Len(epoch) /\ s \in 0..Len(epoch) /\ t \in 0..Len(epoch)
    <3>1. p \in 0..Len(epoch)
      BY <2>3, <2>4 DEF Tree, Epochs
    <3>2. t \in 0..Len(epoch)
      BY <2>4 DEF SessionOf, OnEpoch
    <3> QED BY <1>2, <2>4, <3>1, <3>2
  <2>6. Later(t, s) /\ (e = q => Later(p, s))
    BY <2>3, <2>4 DEF FarNext
  <2>7. Published(x, e) => Later(p, t)
    BY <2>2, <2>4 DEF SealedFar
  <2>8. Later(p, s)
    BY <2>2, <2>5, <2>6, <2>7, LaterOrder
  <2>9. Later(p, s)'
    BY <1>3, <2>5, <2>8
  <2> QED BY <2>3, <2>4, <2>9
<1> QED BY <1>1, <1>4, <1>5, <1>6 DEF FounderInv

\* The facts of a founder that takes no part in a step carry over to the next state.
LEMMA UntouchedNext ==
    ASSUME Tree, NEW x \in Device, SessionOf(x), FounderInv(x),
           mem'[x] = mem[x], disk'[x] = disk[x], jobs'[x] = jobs[x], ready'[x] = ready[x], acked'[x] = acked[x]
    PROVE  SoundNext(x, NONE) /\ SequenceNext(x) /\ AckedNext(x) /\ FarNext(x, NONE) /\ SealedFirst(x)'
<1>1. /\ mem[x].head \in 0..Len(epoch) /\ disk[x].head \in 0..Len(epoch)
      /\ \A i \in DOMAIN jobs[x] : jobs[x][i].head \in 0..Len(epoch)
  BY DEF SessionOf, OnEpoch
<1>2. AllSound(x) /\ InSequence(x) /\ AckedLate(x) /\ SealedFirst(x)
  BY DEF FounderInv
<1>3. SoundNext(x, NONE)
  BY <1>1, <1>2 DEF AllSound, SoundNext, SoundFor
<1>4. SequenceNext(x)
  BY <1>2 DEF InSequence, SequenceNext
<1>5. AckedNext(x)
  BY <1>2 DEF AckedLate, AckedNext
<1>6. FarNext(x, NONE)
  BY <1>1, LaterOrder DEF FarNext
<1>7. SealedFirst(x)'
  BY <1>2 DEF SealedFirst
<1> QED BY <1>3, <1>4, <1>5, <1>6, <1>7

\* A founder with the same sessions, none of whose commits becomes published, keeps its invariant.
LEMMA Untouched ==
    ASSUME Tree, Tree', EpochsGrow, MailGrows, NEW x \in Device, SessionOf(x), FounderInv(x), NewsOnly(x, NONE),
           mem'[x] = mem[x], disk'[x] = disk[x], jobs'[x] = jobs[x], ready'[x] = ready[x], acked'[x] = acked[x]
    PROVE  FounderInv(x)'
<1>1. SoundNext(x, NONE) /\ SequenceNext(x) /\ AckedNext(x) /\ FarNext(x, NONE) /\ SealedFirst(x)'
  BY UntouchedNext
<1>2. SealedFar(x) /\ NONE \in 0..Len(epoch)
  BY LenProperties DEF FounderInv, NONE, Tree
<1> QED BY <1>1, <1>2, FounderStep
-----------------------------------------------------------------------------
(* A founder's own steps. *)

\* While the epochs and mailboxes stay, only a frame handed to the transport publishes.
LEMMA NewsFromTransport ==
    ASSUME epoch' = epoch, log' = log, NEW x, NEW q, \A f \in out'[x] : f \in out[x] \/ f.e = q
    PROVE  NewsOnly(x, q)
<1>1. SUFFICES ASSUME NEW e \in Own(x)', Published(x, e)' PROVE e \in Own(x) /\ (Published(x, e) \/ e = q)
  BY DEF NewsOnly
<1>2. e \in Own(x)
  BY <1>1 DEF Own, Epochs
<1>3. CASE Frame("commit", e) \in out'[x]
  <2>1. Frame("commit", e).e = e
    BY DEF Frame
  <2> QED BY <1>2, <1>3, <2>1 DEF Published
<1>4. CASE \E i \in DOMAIN log'[epoch'[e].parent] : log'[epoch'[e].parent][i] = e
  BY <1>2, <1>4 DEF Published
<1> QED BY <1>1, <1>2, <1>3, <1>4 DEF Published

\* What a founder in an orderly environment may rely on.
LEMMA FounderFacts ==
    ASSUME GroupInv, NEW d \in Device, FounderInv(d)
    PROVE  /\ Tree /\ Carried /\ Sessions /\ SessionOf(d) /\ Len(epoch) \in Nat
           /\ mem[d].head \in 0..Len(epoch) /\ disk[d].head \in 0..Len(epoch)
           /\ \A i \in DOMAIN jobs[d] : jobs[d][i].head \in 0..Len(epoch)
           /\ AllSound(d) /\ InSequence(d) /\ AckedLate(d) /\ SealedFirst(d) /\ SealedFar(d)
           /\ NONE \in 0..Len(epoch)
<1>1. Tree /\ Carried /\ Sessions /\ SessionOf(d)
  BY DEF GroupInv, Sessions
<1>2. Len(epoch) \in Nat
  BY <1>1, LenProperties DEF Tree
<1> QED BY <1>1, <1>2 DEF SessionOf, OnEpoch, FounderInv, NONE

\* A reseal that reaches the store: what it sealed follows what was sealed before.
LEMMA SealedOrder ==
    ASSUME GroupInv, NEW d \in Device, FounderInv(d), Sealed(d), regime' = regime
    PROVE  FounderInv(d)'
<1>1. /\ Tree /\ Carried /\ Sessions /\ SessionOf(d) /\ Len(epoch) \in Nat
      /\ mem[d].head \in 0..Len(epoch) /\ disk[d].head \in 0..Len(epoch)
      /\ \A i \in DOMAIN jobs[d] : jobs[d][i].head \in 0..Len(epoch)
      /\ AllSound(d) /\ InSequence(d) /\ AckedLate(d) /\ SealedFirst(d) /\ SealedFar(d)
      /\ NONE \in 0..Len(epoch)
  BY FounderFacts
<1>2. GroupInv' /\ EpochsGrow /\ MailGrows /\ Tree'
  BY SealedKeeps DEF GroupInv
<1>3. PICK j : j = Head(jobs[d])
  OBVIOUS
<1>4. /\ jobs[d] # <<>> /\ jobs' = [jobs EXCEPT ![d] = Tail(@)]
      /\ ready' = [ready EXCEPT ![d] = Append(@, j)]
      /\ disk' = [disk EXCEPT ![d] = [head |-> j.head, pend |-> j.pend]]
      /\ UNCHANGED <<epoch, mem, out, log, acked>>
  BY <1>3 DEF Sealed
<1>5. /\ Len(jobs[d]) \in Nat \ {0} /\ DOMAIN jobs[d] = 1..Len(jobs[d])
      /\ 1 \in DOMAIN jobs[d] /\ jobs[d][1] = j /\ j \in JobRecord
      /\ jobs' \in [Device -> Seq(JobRecord)]
      /\ DOMAIN jobs'[d] = 1..(Len(jobs[d]) - 1) /\ Len(jobs'[d]) = Len(jobs[d]) - 1
      /\ \A i \in DOMAIN jobs'[d] : i + 1 \in DOMAIN jobs[d] /\ jobs'[d][i] = jobs[d][i + 1]
  BY <1>1, <1>3, <1>4, JobTaken
<1>6. \A i \in DOMAIN ready'[d] : \/ i \in DOMAIN ready[d] /\ ready'[d][i] = ready[d][i]
                                  \/ ready'[d][i] = j
  <2>1. j \in JobRecord /\ ready' = [ready EXCEPT ![d] = Append(@, j)]
    BY <1>4, <1>5
  <2> QED BY <1>1, <2>1, ContinuationQueued
<1>7. disk'[d].head = j.head /\ disk'[d].pend = j.pend
  BY <1>1, <1>4 DEF Sessions
<1>8. mem'[d] = mem[d] /\ acked'[d] = acked[d] /\ out'[d] = out[d]
  BY <1>4
<1>9. NewsOnly(d, NONE)
  BY <1>4, <1>8, NewsFromTransport
<1>10. SoundNext(d, NONE)
  <2>1. SoundFor(d, j.head, j.pend, NONE) /\ SoundFor(d, mem[d].head, mem[d].pend, NONE)
        /\ \A i \in DOMAIN jobs[d] : SoundFor(d, jobs[d][i].head, jobs[d][i].pend, NONE)
    BY <1>1, <1>5 DEF AllSound, SoundFor
  <2> QED BY <1>5, <1>7, <1>8, <2>1 DEF SoundNext
<1>11. j.head \in 0..Len(epoch) /\ Later(disk[d].head, j.head) /\ Later(j.head, mem[d].head)
  BY <1>1, <1>5 DEF InSequence
<1>12. SequenceNext(d)
  <2>1. ASSUME NEW i \in DOMAIN jobs'[d]
        PROVE  /\ Later(disk'[d].head, jobs'[d][i].head) /\ Later(jobs'[d][i].head, mem'[d].head)
               /\ \A k \in DOMAIN jobs'[d] : i <= k => Later(jobs'[d][i].head, jobs'[d][k].head)
    <3>1. i + 1 \in DOMAIN jobs[d] /\ jobs'[d][i] = jobs[d][i + 1] /\ i \in Nat /\ 1 <= i + 1
      BY <1>5
    <3>2. Later(j.head, jobs[d][i + 1].head) /\ Later(jobs[d][i + 1].head, mem[d].head)
      BY <1>1, <1>5, <3>1 DEF InSequence
    <3>3. ASSUME NEW k \in DOMAIN jobs'[d], i <= k PROVE Later(jobs'[d][i].head, jobs'[d][k].head)
      <4>1. k + 1 \in DOMAIN jobs[d] /\ jobs'[d][k] = jobs[d][k + 1] /\ i + 1 <= k + 1
        BY <1>5, <3>1, <3>3
      <4> QED BY <1>1, <3>1, <4>1 DEF InSequence
    <3> QED BY <1>7, <1>8, <3>1, <3>2, <3>3
  <2> QED BY <1>7, <1>8, <1>11, <2>1 DEF SequenceNext
<1>13. AckedNext(d)
  <2>1. ASSUME NEW p, Past(p, disk[d].head) PROVE Past(p, j.head)
    BY <1>1, <1>11, <2>1, PastLater
  <2>2. \A n \in acked'[d] : Past(n[1], disk'[d].head)
    BY <1>1, <1>7, <1>8, <2>1 DEF AckedLate
  <2>3. \A i \in DOMAIN jobs'[d] : \A n \in jobs'[d][i].ack : Past(n[1], jobs'[d][i].head)
    BY <1>1, <1>5 DEF AckedLate
  <2>4. \A n \in j.ack : Past(n[1], j.head)
    BY <1>1, <1>5 DEF AckedLate
  <2>5. \A i \in DOMAIN ready[d] : \A n \in ready[d][i].ack : Past(n[1], j.head)
    BY <1>1, <2>1 DEF AckedLate
  <2>6. \A i \in DOMAIN ready'[d] : \A n \in ready'[d][i].ack : Past(n[1], j.head)
    BY <1>6, <2>4, <2>5
  <2> QED BY <1>7, <2>2, <2>3, <2>6 DEF AckedNext
<1>14. FarNext(d, NONE)
  BY <1>7, <1>11 DEF FarNext
<1>15. SealedFirst(d)'
  <2>1. ASSUME NEW i \in DOMAIN jobs'[d], jobs'[d][i].pub # NONE, jobs'[d][i].pub = mem'[d].pend
        PROVE  i = Len(jobs'[d]) /\ jobs'[d][i].head = mem'[d].head /\ jobs'[d][i].pend = mem'[d].pend
    <3>1. i + 1 \in DOMAIN jobs[d] /\ jobs'[d][i] = jobs[d][i + 1] /\ i \in Nat
      BY <1>5
    <3>2. i + 1 = Len(jobs[d]) /\ jobs[d][i + 1].head = mem[d].head /\ jobs[d][i + 1].pend = mem[d].pend
      BY <1>1, <1>8, <2>1, <3>1 DEF SealedFirst
    <3> QED BY <1>5, <1>8, <3>1, <3>2
  <2>2. ASSUME NEW i \in DOMAIN ready'[d], ready'[d][i].pub # NONE, ready'[d][i].pub = mem'[d].pend
        PROVE  jobs'[d] = <<>> /\ disk'[d].head = mem'[d].head /\ disk'[d].pend = mem'[d].pend
    <3>1. ready'[d][i] = j
      BY <1>1, <1>4, <1>6, <1>8, <2>2 DEF SealedFirst
    <3>2. 1 = Len(jobs[d]) /\ j.head = mem[d].head /\ j.pend = mem[d].pend
      <4>1. jobs[d][1].pub # NONE /\ jobs[d][1].pub = mem[d].pend /\ 1 \in DOMAIN jobs[d]
        BY <1>5, <1>8, <2>2, <3>1
      <4>2. 1 = Len(jobs[d]) /\ jobs[d][1].head = mem[d].head /\ jobs[d][1].pend = mem[d].pend
        BY <1>1, <4>1 DEF SealedFirst
      <4> QED BY <1>5, <4>2
    <3>3. jobs'[d] = <<>>
      <4>1. jobs'[d] \in Seq(JobRecord) /\ Len(jobs'[d]) = 0
        BY <1>5, <3>2
      <4> QED BY <4>1, EmptySeq
    <3> QED BY <1>7, <1>8, <3>2, <3>3
  <2> QED BY <2>1, <2>2 DEF SealedFirst
<1> QED BY <1>1, <1>2, <1>9, <1>10, <1>12, <1>13, <1>14, <1>15, FounderStep

\* A continuation acks what is behind the sealed epoch, and publishes a commit that is sealed.
LEMMA ContinueOrder ==
    ASSUME GroupInv, NEW d \in Device, FounderInv(d), Continue(d), regime' = regime
    PROVE  FounderInv(d)'
<1>1. /\ Tree /\ Carried /\ Sessions /\ SessionOf(d) /\ Len(epoch) \in Nat
      /\ mem[d].head \in 0..Len(epoch) /\ disk[d].head \in 0..Len(epoch)
      /\ \A i \in DOMAIN jobs[d] : jobs[d][i].head \in 0..Len(epoch)
      /\ AllSound(d) /\ InSequence(d) /\ AckedLate(d) /\ SealedFirst(d) /\ SealedFar(d)
      /\ NONE \in 0..Len(epoch)
  BY FounderFacts
<1>2. GroupInv' /\ EpochsGrow /\ MailGrows /\ Tree'
  BY ContinueKeeps DEF GroupInv
<1>3. PICK j : j = Head(ready[d])
  OBVIOUS
<1> DEFINE publish == j.pub # NONE /\ mem[d].pend = j.pub
<1>4. /\ ready[d] # <<>> /\ ready' = [ready EXCEPT ![d] = Tail(@)]
      /\ acked' = [acked EXCEPT ![d] = @ \cup j.ack]
      /\ out' = IF publish THEN [out EXCEPT ![d] = @ \cup Frames(j.pub)] ELSE out
      /\ mem' = IF publish THEN [mem EXCEPT ![d].armed = TRUE] ELSE mem
      /\ UNCHANGED <<epoch, disk, jobs, log>>
  BY <1>3 DEF Continue
<1>5. /\ 1 \in DOMAIN ready[d] /\ ready[d][1] = j /\ j \in JobRecord
      /\ \A i \in DOMAIN ready'[d] : i + 1 \in DOMAIN ready[d] /\ ready'[d][i] = ready[d][i + 1]
  BY <1>1, <1>3, <1>4, ContinuationTaken
<1>6. acked'[d] = acked[d] \cup j.ack /\ disk'[d] = disk[d] /\ jobs'[d] = jobs[d]
  BY <1>1, <1>4 DEF Sessions
<1>7. mem'[d].head = mem[d].head /\ mem'[d].pend = mem[d].pend
  <2>1. mem[d] \in MemRecord /\ mem \in [Device -> MemRecord]
    BY <1>1 DEF Sessions
  <2>2. CASE publish
    <3>1. mem'[d] = [mem[d] EXCEPT !.armed = TRUE]
      BY <1>4, <2>1, <2>2
    <3> QED BY <2>1, <3>1 DEF MemRecord
  <2>3. CASE ~publish
    BY <1>4, <2>3
  <2> QED BY <2>2, <2>3
<1>8. SequenceNext(d)
  BY <1>1, <1>6, <1>7 DEF SequenceNext, InSequence
<1>9. AckedNext(d)
  <2>1. \A n \in acked'[d] : Past(n[1], disk'[d].head)
    BY <1>1, <1>5, <1>6 DEF AckedLate
  <2>2. \A i \in DOMAIN jobs'[d] : \A n \in jobs'[d][i].ack : Past(n[1], jobs'[d][i].head)
    BY <1>1, <1>6 DEF AckedLate
  <2>3. \A i \in DOMAIN ready'[d] : \A n \in ready'[d][i].ack : Past(n[1], disk'[d].head)
    BY <1>1, <1>5, <1>6 DEF AckedLate
  <2> QED BY <2>1, <2>2, <2>3 DEF AckedNext
<1>10. SealedFirst(d)'
  <2>1. \A i \in DOMAIN ready'[d] : ready'[d][i].pub # NONE /\ ready'[d][i].pub = mem[d].pend =>
          jobs[d] = <<>> /\ disk[d].head = mem[d].head /\ disk[d].pend = mem[d].pend
    BY <1>1, <1>5 DEF SealedFirst
  <2> QED BY <1>1, <1>6, <1>7, <2>1 DEF SealedFirst
<1>11. Later(disk[d].head, disk[d].head)
  BY <1>1, LaterOrder
<1>12. /\ SoundFor(d, mem[d].head, mem[d].pend, NONE) /\ SoundFor(d, disk[d].head, disk[d].pend, NONE)
       /\ \A i \in DOMAIN jobs[d] : SoundFor(d, jobs[d][i].head, jobs[d][i].pend, NONE)
  BY <1>1 DEF AllSound, SoundFor
<1>13. CASE publish
  <2>1. PICK q : q = j.pub
    OBVIOUS
  <2>2. q # NONE /\ q = mem[d].pend /\ q \in 0..Len(epoch) /\ epoch[q].parent = mem[d].head
    BY <1>1, <1>13, <2>1 DEF SessionOf, OnEpoch
  <2>3. jobs[d] = <<>> /\ disk[d].head = mem[d].head /\ disk[d].pend = mem[d].pend
    BY <1>1, <1>5, <1>13 DEF SealedFirst
  <2>4. DOMAIN jobs'[d] = {}
    BY <1>6, <2>3, EmptySeq
  <2>5. SoundNext(d, q)
    <3>1. SoundFor(d, mem[d].head, mem[d].pend, q)
      BY <1>12, <2>2 DEF SoundFor
    <3> QED BY <1>6, <1>7, <2>3, <2>4, <3>1 DEF SoundNext
  <2>6. FarNext(d, q)
    BY <1>6, <1>11, <2>2, <2>3 DEF FarNext
  <2>7. NewsOnly(d, q)
    <3>1. out'[d] = out[d] \cup Frames(q)
      BY <1>1, <1>4, <1>13, <2>1 DEF Carried
    <3>2. \A f \in Frames(q) : f.e = q
      BY DEF Frames, Frame
    <3> QED BY <1>4, <3>1, <3>2, NewsFromTransport
  <2> QED BY <1>1, <1>2, <1>8, <1>9, <1>10, <2>2, <2>5, <2>6, <2>7, FounderStep
<1>14. CASE ~publish
  <2>1. SoundNext(d, NONE)
    BY <1>6, <1>7, <1>12 DEF SoundNext
  <2>2. FarNext(d, NONE)
    BY <1>6, <1>11 DEF FarNext
  <2>3. NewsOnly(d, NONE)
    BY <1>4, <1>14, NewsFromTransport
  <2> QED BY <1>1, <1>2, <1>8, <1>9, <1>10, <2>1, <2>2, <2>3, FounderStep
<1> QED BY <1>13, <1>14
\* In an orderly environment nothing of the epoch a founder is on is acked, so it takes the
\* first entry of the mailbox.
LEMMA HeadNotAcked ==
    ASSUME GroupInv, NEW d \in Device, FounderInv(d), mem[d].head # NONE
    PROVE  /\ mem[d].head \in Epochs
           /\ \A i : <<mem[d].head, i>> \notin acked[d]
           /\ Waiting(d, mem[d].head) = DOMAIN log[mem[d].head]
           /\ disk[d].head \in Epochs /\ \A k \in epoch[disk[d].head].path : k <= mem[d].head
<1>1. /\ Tree /\ Carried /\ Len(epoch) \in Nat
      /\ mem[d].head \in 0..Len(epoch) /\ disk[d].head \in 0..Len(epoch)
      /\ InSequence(d) /\ AckedLate(d)
  BY FounderFacts
<1>2. mem[d].head \in Epochs
  BY <1>1 DEF Epochs, NONE
<1>3. disk[d].head \in Epochs /\ ~Past(mem[d].head, disk[d].head)
      /\ \A k \in epoch[disk[d].head].path : k <= mem[d].head
  BY <1>1, <1>2, NotPast DEF InSequence
<1>4. ASSUME NEW i, <<mem[d].head, i>> \in acked[d] PROVE FALSE
  <2>1. PICK n \in acked[d] : n = <<mem[d].head, i>>
    BY <1>4
  <2>2. Past(n[1], disk[d].head) /\ n[1] = mem[d].head
    BY <1>1, <2>1 DEF AckedLate
  <2> QED BY <1>3, <2>2
<1>5. DOMAIN log[mem[d].head] = 1..Len(log[mem[d].head])
  <2>1. log[mem[d].head] \in Seq(Nat)
    BY <1>1, <1>2, ElementOfSeq DEF Carried, Epochs
  <2> QED BY <2>1, LenProperties
<1>6. Waiting(d, mem[d].head) = DOMAIN log[mem[d].head]
  BY <1>4, <1>5 DEF Waiting
<1> QED BY <1>2, <1>3, <1>4, <1>6

\* A founder on the roster of an epoch misses nothing of its mailbox: a commit is published there
\* only after the founder's cursor is.
LEMMA NothingMissed ==
    ASSUME GroupInv, AllListen, NEW d \in Device, NEW e \in Epochs, d \in Roster(e), Subscribe(d, e)
    PROVE  acked'[d] = acked[d]
<1>1. Tree /\ Carried /\ Sessions
  BY DEF GroupInv
<1>2. /\ acked'[d] = acked[d] \/ acked'[d] = acked[d] \cup {<<e, i>> : i \in Dropped(e)}
      /\ d \in listed[e] => acked'[d] = acked[d]
  BY <1>1, Subscribed
<1>3. CASE d \in listed[e]
  BY <1>2, <1>3
<1>4. CASE d \notin listed[e]
  <2>1. ASSUME NEW i \in DOMAIN log[e] PROVE FALSE
    <3>1. log[e][i] \in Epochs \ {GENESIS} /\ epoch[log[e][i]].parent = e
      BY <1>1, <2>1 DEF Carried, Mail
    <3>2. Roster(e) \subseteq listed[e]
      BY <3>1 DEF AllListen
    <3> QED BY <1>4, <3>2
  <2>2. log[e] \in Seq(Nat)
    BY <1>1, ElementOfSeq DEF Carried, Epochs
  <2>3. DOMAIN log[e] = 1..Len(log[e])
    BY <2>2, LenProperties
  <2>4. Dropped(e) = {}
    BY <2>1, <2>3 DEF Dropped
  <2> QED BY <1>2, <2>4
<1> QED BY <1>3, <1>4

\* A founder's move from the epoch in memory to a later one, or out of the group.
LEMMA MoveOrder ==
    ASSUME GroupInv, NEW d \in Device, FounderInv(d), NEW e \in Nat, e \in 0..Len(epoch),
           NEW ack \in SUBSET (Nat \X Nat), MoveTo(d, e, ack), Tree', EpochsGrow, MailGrows,
           acked'[d] = acked[d], Sound(d, e, NONE), Later(mem[d].head, e), \A n \in ack : Past(n[1], e)
    PROVE  FounderInv(d)'
<1>1. /\ Tree /\ Carried /\ Sessions /\ SessionOf(d) /\ Len(epoch) \in Nat
      /\ mem[d].head \in 0..Len(epoch) /\ disk[d].head \in 0..Len(epoch)
      /\ \A i \in DOMAIN jobs[d] : jobs[d][i].head \in 0..Len(epoch)
      /\ AllSound(d) /\ InSequence(d) /\ AckedLate(d) /\ SealedFirst(d) /\ SealedFar(d)
      /\ NONE \in 0..Len(epoch)
  BY FounderFacts
<1>2. /\ mem'[d].head = e /\ mem'[d].pend = NONE
      /\ Len(jobs[d]) \in Nat /\ DOMAIN jobs[d] = 1..Len(jobs[d])
      /\ DOMAIN jobs'[d] = 1..(Len(jobs[d]) + 1)
      /\ \A i \in DOMAIN jobs[d] : jobs'[d][i] = jobs[d][i]
      /\ jobs'[d][Len(jobs[d]) + 1] = [head |-> e, pend |-> NONE, pub |-> NONE, ack |-> ack]
  BY Moved
<1>3. UNCHANGED <<epoch, disk, ready, out, log>>
  BY DEF MoveTo
<1>4. PICK l : l = Len(jobs[d]) + 1
  OBVIOUS
<1>5. l \in Nat /\ (\A i \in DOMAIN jobs[d] : i <= l /\ i # l) /\ DOMAIN jobs'[d] = DOMAIN jobs[d] \cup {l}
  BY <1>2, <1>4
<1>6. jobs'[d][l].head = e /\ jobs'[d][l].pend = NONE /\ jobs'[d][l].pub = NONE /\ jobs'[d][l].ack = ack
  BY <1>2, <1>4
<1>7. SoundNext(d, NONE)
  <2>1. SoundFor(d, e, NONE, NONE) /\ SoundFor(d, disk[d].head, disk[d].pend, NONE)
        /\ \A i \in DOMAIN jobs[d] : SoundFor(d, jobs[d][i].head, jobs[d][i].pend, NONE)
    BY <1>1 DEF AllSound, SoundFor
  <2>2. \A i \in DOMAIN jobs'[d] : SoundFor(d, jobs'[d][i].head, jobs'[d][i].pend, NONE)
    BY <1>2, <1>5, <1>6, <2>1
  <2> QED BY <1>2, <1>3, <2>1, <2>2 DEF SoundNext
<1>8. ASSUME NEW k \in 0..Len(epoch), Later(k, mem[d].head) PROVE Later(k, e)
  BY <1>1, <1>8, LaterOrder
<1>9. SequenceNext(d)
  <2>1. Later(disk[d].head, e) /\ Later(e, e)
    BY <1>1, <1>8, LaterOrder DEF InSequence
  <2>2. \A i \in DOMAIN jobs[d] : Later(disk[d].head, jobs[d][i].head) /\ Later(jobs[d][i].head, e)
    BY <1>1, <1>8 DEF InSequence
  <2>3. \A i, k \in DOMAIN jobs[d] : i <= k => Later(jobs[d][i].head, jobs[d][k].head)
    BY <1>1 DEF InSequence
  <2>4. \A i \in DOMAIN jobs[d] : ~(l <= i)
    BY <1>2, <1>4
  <2>5. ASSUME NEW i \in DOMAIN jobs'[d]
        PROVE  /\ Later(disk[d].head, jobs'[d][i].head) /\ Later(jobs'[d][i].head, e)
               /\ \A k \in DOMAIN jobs'[d] : i <= k => Later(jobs'[d][i].head, jobs'[d][k].head)
    <3>1. CASE i \in DOMAIN jobs[d]
      BY <1>2, <1>5, <1>6, <2>2, <2>3, <3>1
    <3>2. CASE i = l
      BY <1>5, <1>6, <2>1, <2>4, <3>2
    <3> QED BY <1>5, <3>1, <3>2
  <2> QED BY <1>2, <1>3, <2>1, <2>5 DEF SequenceNext
<1>10. AckedNext(d)
  <2>1. \A i \in DOMAIN jobs'[d] : \A n \in jobs'[d][i].ack : Past(n[1], jobs'[d][i].head)
    BY <1>1, <1>2, <1>5, <1>6 DEF AckedLate
  <2> QED BY <1>1, <1>3, <2>1 DEF AckedLate, AckedNext
<1>11. FarNext(d, NONE)
  BY <1>1, <1>3, LaterOrder DEF FarNext
<1>12. SealedFirst(d)'
  BY <1>2 DEF SealedFirst
<1>13. NewsOnly(d, NONE)
  BY <1>3, NewsFromTransport
<1> QED BY <1>1, <1>7, <1>9, <1>10, <1>11, <1>12, <1>13, FounderStep
\* A founder merges the first commit of its epoch's mailbox, so it stays on the one way.
LEMMA MergeOrder ==
    ASSUME GroupInv, AllListen, NEW d \in Device, FounderInv(d), Merge(d), regime' = regime
    PROVE  FounderInv(d)'
<1>1. /\ Tree /\ Carried /\ Sessions /\ SessionOf(d) /\ Len(epoch) \in Nat
      /\ AllSound(d) /\ InSequence(d) /\ SealedFar(d)
  BY FounderFacts
<1>2. GroupInv' /\ EpochsGrow /\ MailGrows /\ Tree'
  BY MergeKeeps DEF GroupInv
<1>3. mem[d].head # NONE /\ Waiting(d, mem[d].head) # {}
  BY DEF Merge
<1>4. /\ mem[d].head \in Epochs /\ Waiting(d, mem[d].head) = DOMAIN log[mem[d].head]
      /\ disk[d].head \in Epochs /\ \A k \in epoch[disk[d].head].path : k <= mem[d].head
  BY <1>3, HeadNotAcked
<1>5. PICK i \in Waiting(d, mem[d].head) :
              /\ i \in Nat /\ i \in DOMAIN log[mem[d].head]
              /\ NextEntry(d) = <<mem[d].head, i>> /\ {NextEntry(d)} \in SUBSET (Nat \X Nat)
              /\ \A j \in Waiting(d, mem[d].head) : i <= j
              /\ log[NextEntry(d)[1]][NextEntry(d)[2]] = log[mem[d].head][i]
              /\ log[mem[d].head][i] \in Epochs \ {GENESIS} /\ log[mem[d].head][i] \in Nat
              /\ epoch[log[mem[d].head][i]].parent = mem[d].head
              /\ epoch[log[mem[d].head][i]].path = epoch[mem[d].head].path \cup {log[mem[d].head][i]}
  BY <1>1, <1>3, EntryTaken
<1>6. PICK e \in Nat, h \in Nat : e = log[mem[d].head][i] /\ h = mem[d].head
  BY SMTT(30), <1>1, <1>4, <1>5 DEF Epochs
<1>7. /\ e \in Epochs \ {GENESIS} /\ epoch[e].parent = h /\ epoch[e].path = epoch[h].path \cup {e}
      /\ h \in Epochs /\ h < e /\ e \in 0..Len(epoch) /\ e # NONE
  BY SMTT(30), <1>1, <1>4, <1>5, <1>6 DEF Tree, Epochs, NONE
<1>8. i = 1
  <2>1. log[h] \in Seq(Nat)
    BY <1>1, <1>7, ElementOfSeq DEF Carried, Epochs
  <2>2. DOMAIN log[h] = 1..Len(log[h]) /\ Len(log[h]) \in Nat
    BY <2>1, LenProperties
  <2>3. 1 \in Waiting(d, mem[d].head)
    BY <1>4, <1>5, <1>6, <2>2
  <2> QED BY <1>5, <1>6, <2>2, <2>3
<1>9. Canonical(e)
  <2>1. Canonical(h) /\ h # NONE
    BY SMTT(30), <1>1, <1>3, <1>6 DEF AllSound, Sound
  <2>2. 1 \in DOMAIN log[epoch[e].parent] /\ log[epoch[e].parent][1] = e
    BY ZenonT(60), <1>5, <1>6, <1>7, <1>8
  <2> QED BY <1>7, <2>1, <2>2 DEF Canonical
<1>10. MoveTo(d, e, {NextEntry(d)}) /\ Subscribe(d, e) /\ d \in Roster(e)
  BY <1>5, <1>6 DEF Merge, MoveTo
<1>11. Sound(d, e, NONE)
  <2>1. ASSUME NEW c \in Own(d), epoch[c].parent = e, Published(d, c) PROVE FALSE
    <3>1. Later(e, disk[d].head)
      BY <1>1, <2>1 DEF SealedFar
    <3>2. e \in epoch[disk[d].head].path
      BY <1>4, <3>1 DEF Later, Epochs, NONE
    <3> QED BY <1>4, <1>6, <1>7, <3>2
  <2> QED BY <1>9, <1>10, <2>1 DEF Sound
<1>12. Later(mem[d].head, e) /\ Past(h, e)
  <2>1. h \in epoch[h].path
    BY <1>1, <1>7 DEF Tree
  <2> QED BY <1>3, <1>6, <1>7, <2>1 DEF Later, Past
<1>13. \A n \in {NextEntry(d)} : Past(n[1], e)
  BY <1>5, <1>6, <1>12
<1>14. acked'[d] = acked[d]
  BY <1>7, <1>10, NothingMissed
<1> QED BY <1>2, <1>5, <1>7, <1>10, <1>11, <1>12, <1>13, <1>14, MoveOrder

\* A founder that is evicted has left the group.
LEMMA EvictedOrder ==
    ASSUME GroupInv, NEW d \in Device, FounderInv(d), Evicted(d), regime' = regime
    PROVE  FounderInv(d)'
<1>1. /\ Tree /\ Carried /\ Sessions /\ SessionOf(d) /\ Len(epoch) \in Nat
      /\ NONE \in 0..Len(epoch) /\ NONE \in Nat
  BY FounderFacts DEF NONE
<1>2. GroupInv' /\ EpochsGrow /\ MailGrows /\ Tree'
  BY MergeKeeps DEF GroupInv
<1>3. /\ mem[d].head # NONE /\ Waiting(d, mem[d].head) # {}
      /\ MoveTo(d, NONE, {NextEntry(d)}) /\ acked' = acked
  BY DEF Evicted, MoveTo
<1>4. {NextEntry(d)} \in SUBSET (Nat \X Nat)
  BY <1>1, <1>3, EntryTaken
<1>5. Sound(d, NONE, NONE)
  <2>1. \A c \in Own(d) : epoch[c].parent # NONE
    BY <1>1 DEF Own, Tree, Epochs, NONE
  <2> QED BY <2>1 DEF Sound, Canonical
<1>6. Later(mem[d].head, NONE) /\ \A n \in {NextEntry(d)} : Past(n[1], NONE)
  BY DEF Later, Past
<1> QED BY <1>1, <1>2, <1>3, <1>4, <1>5, <1>6, MoveOrder

\* A founder never drops a commit of its own: the only one it has published on its epoch is staged.
LEMMA DropOwnExcluded ==
    ASSUME GroupInv, AllListen, NEW d \in Device, FounderInv(d)
    PROVE  ~DropOwn(d)
<1> SUFFICES ASSUME DropOwn(d) PROVE FALSE
  OBVIOUS
<1>1. Tree /\ Carried /\ SessionOf(d) /\ AllSound(d)
  BY FounderFacts
<1>2. /\ mem[d].head # NONE /\ Waiting(d, mem[d].head) # {}
      /\ d \in epoch[log[NextEntry(d)[1]][NextEntry(d)[2]]].by
      /\ log[NextEntry(d)[1]][NextEntry(d)[2]] # mem[d].pend
  BY DEF DropOwn
<1>3. PICK i \in Waiting(d, mem[d].head) :
              /\ i \in DOMAIN log[mem[d].head]
              /\ log[NextEntry(d)[1]][NextEntry(d)[2]] = log[mem[d].head][i]
              /\ log[mem[d].head][i] \in Epochs \ {GENESIS}
              /\ epoch[log[mem[d].head][i]].parent = mem[d].head
  BY <1>1, <1>2, EntryTaken
<1>4. PICK e \in Epochs \ {GENESIS} : e = log[mem[d].head][i]
  BY <1>3
<1>5. e \in Own(d)
  <2>1. PICK a \in Device : epoch[e].by = {a}
    BY DEF AllListen
  <2>2. d \in epoch[e].by
    BY <1>2, <1>3, <1>4
  <2>3. epoch[e].by = {d}
    BY SMTT(30), <2>1, <2>2
  <2> QED BY <2>3 DEF Own
<1>6. Published(d, e) /\ epoch[e].parent = mem[d].head
  BY Zenon, <1>3, <1>4 DEF Published
<1>7. mem[d].pend = e
  BY <1>1, <1>5, <1>6 DEF AllSound, Sound
<1> QED BY <1>2, <1>3, <1>4, <1>7

\* A backstop that fires in time gives up a commit that is not published.
LEMMA BackstopOrder ==
    ASSUME GroupInv, NEW d \in Device, FounderInv(d), Backstop(d), regime.timely, regime' = regime
    PROVE  FounderInv(d)'
<1>1. /\ Tree /\ Carried /\ Sessions /\ SessionOf(d) /\ Len(epoch) \in Nat
      /\ mem[d].head \in 0..Len(epoch) /\ disk[d].head \in 0..Len(epoch)
      /\ \A i \in DOMAIN jobs[d] : jobs[d][i].head \in 0..Len(epoch)
      /\ AllSound(d) /\ InSequence(d) /\ AckedLate(d) /\ SealedFirst(d) /\ SealedFar(d)
      /\ NONE \in 0..Len(epoch)
  BY FounderFacts
<1>2. GroupInv' /\ EpochsGrow /\ MailGrows /\ Tree'
  BY SmallKeeps DEF GroupInv
<1>3. /\ mem' = [mem EXCEPT ![d] = [head |-> mem[d].head, pend |-> NONE, armed |-> FALSE]]
      /\ UNCHANGED <<epoch, disk, jobs, ready, out, log, acked, listed, invited, faults>>
      /\ ~UnderWay(d, mem[d].pend)
  BY DEF Backstop, Session
<1>4. mem'[d].head = mem[d].head /\ mem'[d].pend = NONE
  BY <1>1, <1>3 DEF Sessions
<1>5. Sound(d, mem[d].head, NONE)
  <2>1. Sound(d, mem[d].head, mem[d].pend)
    BY <1>1 DEF AllSound
  <2>2. ASSUME NEW e \in Own(d), epoch[e].parent = mem[d].head, Published(d, e) PROVE FALSE
    <3>1. mem[d].pend = e
      BY <2>1, <2>2 DEF Sound
    <3>2. mem[d].head # NONE
      BY <1>1, <2>2 DEF Own, Tree, Epochs, NONE
    <3>3. Waiting(d, mem[d].head) = DOMAIN log[mem[d].head]
      BY <3>2, HeadNotAcked
    <3>4. UnderWay(d, e)
      BY <2>2, <3>3 DEF Published, UnderWay
    <3> QED BY <1>3, <3>1, <3>4
  <2> QED BY <2>1, <2>2 DEF Sound
<1>6. SoundNext(d, NONE)
  <2>1. SoundFor(d, mem[d].head, NONE, NONE) /\ SoundFor(d, disk[d].head, disk[d].pend, NONE)
        /\ \A i \in DOMAIN jobs[d] : SoundFor(d, jobs[d][i].head, jobs[d][i].pend, NONE)
    BY <1>1, <1>5 DEF AllSound, SoundFor
  <2> QED BY <1>3, <1>4, <2>1 DEF SoundNext
<1>7. SequenceNext(d)
  BY <1>1, <1>3, <1>4 DEF InSequence, SequenceNext
<1>8. AckedNext(d)
  BY <1>1, <1>3 DEF AckedLate, AckedNext
<1>9. FarNext(d, NONE)
  BY <1>1, <1>3, LaterOrder DEF FarNext
<1>10. SealedFirst(d)'
  BY <1>4 DEF SealedFirst
<1>11. NewsOnly(d, NONE)
  BY <1>3, NewsFromTransport
<1> QED BY <1>1, <1>2, <1>6, <1>7, <1>8, <1>9, <1>10, <1>11, FounderStep
\* A reload puts a founder where it is sealed, or last on its way to the store, and re-issues the
\* commit that is staged there.
LEMMA ReloadOrder ==
    ASSUME GroupInv, AllListen, NEW d \in Device, FounderInv(d), Crash(d) \/ Reconnect(d), regime' = regime
    PROVE  FounderInv(d)'
<1>1. /\ Tree /\ Carried /\ Sessions /\ SessionOf(d) /\ Len(epoch) \in Nat
      /\ mem[d].head \in 0..Len(epoch) /\ disk[d].head \in 0..Len(epoch)
      /\ \A i \in DOMAIN jobs[d] : jobs[d][i].head \in 0..Len(epoch)
      /\ AllSound(d) /\ InSequence(d) /\ AckedLate(d) /\ SealedFirst(d) /\ SealedFar(d)
      /\ NONE \in 0..Len(epoch)
  BY FounderFacts
<1>2. GroupInv' /\ EpochsGrow /\ MailGrows /\ Tree'
  BY RestartKeeps DEF GroupInv
<1>3. PICK saved \in SealRecord, stranded \in SUBSET out[d] :
              /\ connectGateway(d, saved, stranded)
              /\ \/ saved = disk[d]
                 \/ /\ Len(jobs[d]) \in DOMAIN jobs[d]
                    /\ saved.head = jobs[d][Len(jobs[d])].head /\ saved.pend = jobs[d][Len(jobs[d])].pend
  BY <1>1, SavedSession
<1>4. OnEpoch(d, saved.head, saved.pend) /\ Sound(d, saved.head, saved.pend) /\ Later(disk[d].head, saved.head)
  <2>1. CASE saved = disk[d]
    BY <1>1, <2>1, LaterOrder DEF SessionOf, AllSound
  <2>2. CASE /\ Len(jobs[d]) \in DOMAIN jobs[d]
             /\ saved.head = jobs[d][Len(jobs[d])].head /\ saved.pend = jobs[d][Len(jobs[d])].pend
    BY <1>1, <2>2 DEF SessionOf, AllSound, InSequence
  <2> QED BY <1>3, <2>1, <2>2
<1>5. /\ mem'[d].head = saved.head /\ mem'[d].pend = saved.pend
      /\ disk'[d] = saved /\ jobs'[d] = <<>> /\ ready'[d] = <<>>
      /\ \A f \in out'[d] : f \in out[d] \/ (f.e = saved.pend /\ saved.pend # NONE)
      /\ UNCHANGED <<epoch, log>>
      /\ IF saved.head = NONE THEN UNCHANGED <<listed, acked>> ELSE Subscribe(d, saved.head)
  BY <1>3, <1>4, Reloaded
<1>6. PICK h, q : h = saved.head /\ q = saved.pend
  OBVIOUS
<1>7. h \in 0..Len(epoch) /\ q \in 0..Len(epoch) /\ (q # NONE => epoch[q].parent = h)
  BY <1>4, <1>6 DEF OnEpoch
<1>8. DOMAIN jobs'[d] = {} /\ DOMAIN ready'[d] = {}
  BY <1>5, EmptySeq
<1>9. Later(h, h) /\ Later(disk[d].head, h)
  BY <1>4, <1>6, <1>7, LaterOrder, <1>1
<1>10. acked'[d] = acked[d]
  <2>1. CASE h = NONE
    BY <1>5, <1>6, <2>1
  <2>2. CASE h # NONE
    <3>1. h \in Epochs /\ d \in Roster(h) /\ Subscribe(d, h)
      BY <1>1, <1>4, <1>5, <1>6, <1>7, <2>2 DEF Sound, Epochs, NONE
    <3> QED BY <3>1, NothingMissed
  <2> QED BY <2>1, <2>2
<1>11. SoundNext(d, q)
  <2>1. SoundFor(d, h, q, q)
    BY <1>4, <1>6, <1>7 DEF SoundFor
  <2> QED BY <1>5, <1>6, <1>8, <2>1 DEF SoundNext
<1>12. SequenceNext(d)
  BY <1>5, <1>6, <1>8, <1>9 DEF SequenceNext
<1>13. AckedNext(d)
  <2>1. \A n \in acked[d] : Past(n[1], h)
    BY <1>1, <1>7, <1>9, PastLater DEF AckedLate
  <2> QED BY <1>5, <1>6, <1>8, <1>10, <2>1 DEF AckedNext
<1>14. FarNext(d, q)
  BY <1>5, <1>6, <1>7, <1>9 DEF FarNext
<1>15. SealedFirst(d)'
  BY <1>8 DEF SealedFirst
<1>16. NewsOnly(d, q)
  BY <1>5, <1>6, NewsFromTransport
<1> QED BY <1>1, <1>2, <1>7, <1>11, <1>12, <1>13, <1>14, <1>15, <1>16, FounderStep

\* Staging publishes nothing, whoever stages.
LEMMA StageNoNews ==
    ASSUME GroupInv, NEW d \in Device, NEW adds \in SUBSET Device, NEW removes \in SUBSET Device,
           Stage(d, adds, removes), NEW x \in Device
    PROVE  NewsOnly(x, NONE)
<1>1. Tree /\ Carried /\ Sessions /\ SessionOf(d) /\ Unsent(x)
  BY DEF GroupInv, Sessions, Carried
<1>2. PICK L, h : L = Len(epoch) /\ h = mem[d].head
  OBVIOUS
<1>3. /\ h \in Epochs /\ L \in Nat /\ Epochs = 1..L /\ Epochs' = 1..(L + 1)
      /\ \A e \in Epochs : epoch'[e] = epoch[e] /\ log'[e] = log[e]
      /\ epoch'[L + 1].parent = h
  <2>1. /\ mem[d].head \in Epochs /\ Len(epoch) \in Nat \ {0} /\ Len(epoch)' = Len(epoch) + 1
        /\ \A e \in Epochs : epoch'[e] = epoch[e] /\ log'[e] = log[e] /\ listed'[e] = listed[e]
        /\ epoch'[Len(epoch) + 1] = NewEpoch(d, adds, removes)
    BY <1>1, StagedEpoch
  <2>2. NewEpoch(d, adds, removes).parent = mem[d].head
    BY DEF NewEpoch
  <2> QED BY <1>2, <2>1, <2>2 DEF Epochs
<1>4. out' = out
  BY DEF Stage
<1>5. SUFFICES ASSUME NEW e \in Own(x)', Published(x, e)' PROVE e \in Own(x) /\ Published(x, e)
  BY DEF NewsOnly
<1>6. e \in 1..(L + 1) /\ e # GENESIS /\ epoch'[e].by = {x}
  BY <1>3 DEF Own
<1>7. CASE e \in Epochs
  <2>1. epoch'[e] = epoch[e] /\ epoch[e].parent \in Epochs
    BY <1>1, <1>3, <1>6, <1>7 DEF Tree, Epochs
  <2>2. e \in Own(x)
    BY <1>6, <1>7, <2>1 DEF Own
  <2>3. Published(x, e)
    BY <1>3, <1>4, <1>5, <2>1 DEF Published
  <2> QED BY <2>2, <2>3
<1>8. CASE e = L + 1
  <2>1. e \notin Epochs /\ epoch'[e].parent = h /\ log'[h] = log[h]
    BY <1>3, <1>8
  <2>2. Frame("commit", e) \notin out[x]
    <3>1. Frame("commit", e).e = e
      BY DEF Frame
    <3> QED BY <1>1, <2>1, <3>1 DEF Unsent
  <2>3. \A i \in DOMAIN log[h] : log[h][i] # e
    BY <1>1, <1>3, <2>1 DEF Carried, Mail
  <2> QED BY <1>4, <1>5, <2>1, <2>2, <2>3 DEF Published
<1> QED BY <1>3, <1>6, <1>7, <1>8

\* A founder stages only when none of its commits on this epoch is published.
LEMMA StageOrder ==
    ASSUME GroupInv, NEW d \in Device, FounderInv(d), NEW adds \in SUBSET Device, NEW removes \in SUBSET Device,
           Stage(d, adds, removes), regime' = regime
    PROVE  FounderInv(d)'
<1>1. /\ Tree /\ Carried /\ Sessions /\ SessionOf(d) /\ Len(epoch) \in Nat
      /\ mem[d].head \in 0..Len(epoch) /\ disk[d].head \in 0..Len(epoch)
      /\ \A i \in DOMAIN jobs[d] : jobs[d][i].head \in 0..Len(epoch)
      /\ AllSound(d) /\ InSequence(d) /\ AckedLate(d) /\ SealedFirst(d) /\ SealedFar(d)
      /\ NONE \in 0..Len(epoch)
  BY FounderFacts
<1>2. GroupInv' /\ EpochsGrow /\ MailGrows /\ Tree'
  BY StageKeeps DEF GroupInv
<1>3. /\ mem'[d].head = mem[d].head /\ mem'[d].pend = Len(epoch) + 1
      /\ Len(jobs[d]) \in Nat /\ DOMAIN jobs[d] = 1..Len(jobs[d])
      /\ DOMAIN jobs'[d] = 1..(Len(jobs[d]) + 1) /\ Len(jobs'[d]) = Len(jobs[d]) + 1
      /\ \A i \in DOMAIN jobs[d] : jobs'[d][i] = jobs[d][i]
      /\ jobs'[d][Len(jobs[d]) + 1] = [head |-> mem[d].head, pend |-> Len(epoch) + 1,
                                       pub |-> Len(epoch) + 1, ack |-> {}]
  BY StagedSession
<1>4. UNCHANGED <<disk, ready, out, acked>> /\ mem[d].pend = NONE
  BY DEF Stage
<1>5. PICK l, h, e : l = Len(jobs[d]) + 1 /\ h = mem[d].head /\ e = Len(epoch) + 1
  OBVIOUS
<1>6. /\ l \in Nat /\ DOMAIN jobs'[d] = DOMAIN jobs[d] \cup {l} /\ Len(jobs'[d]) = l
      /\ \A i \in DOMAIN jobs[d] : ~(l <= i)
  BY <1>3, <1>5
<1>7. jobs'[d][l].head = h /\ jobs'[d][l].pend = e /\ jobs'[d][l].pub = e /\ jobs'[d][l].ack = {}
  BY <1>3, <1>5
<1>8. Sound(d, h, e)
  <2>1. Sound(d, h, NONE)
    BY <1>1, <1>4, <1>5 DEF AllSound
  <2>2. \A c \in Own(d) : c # NONE
    BY DEF Own, Epochs, NONE
  <2> QED BY <2>1, <2>2 DEF Sound
<1>9. SoundNext(d, NONE)
  <2>1. SoundFor(d, h, e, NONE) /\ SoundFor(d, disk[d].head, disk[d].pend, NONE)
        /\ \A i \in DOMAIN jobs[d] : SoundFor(d, jobs[d][i].head, jobs[d][i].pend, NONE)
    BY <1>1, <1>5, <1>8 DEF AllSound, SoundFor
  <2>2. \A i \in DOMAIN jobs'[d] : SoundFor(d, jobs'[d][i].head, jobs'[d][i].pend, NONE)
    BY <1>3, <1>6, <1>7, <2>1
  <2> QED BY <1>3, <1>4, <1>5, <2>1, <2>2 DEF SoundNext
<1>10. SequenceNext(d)
  <2>1. Later(disk[d].head, h) /\ Later(h, h)
    BY <1>1, <1>5, LaterOrder DEF InSequence
  <2>2. \A i \in DOMAIN jobs[d] : Later(disk[d].head, jobs[d][i].head) /\ Later(jobs[d][i].head, h)
    BY <1>1, <1>5 DEF InSequence
  <2>3. \A i, k \in DOMAIN jobs[d] : i <= k => Later(jobs[d][i].head, jobs[d][k].head)
    BY <1>1 DEF InSequence
  <2>4. ASSUME NEW i \in DOMAIN jobs'[d]
        PROVE  /\ Later(disk[d].head, jobs'[d][i].head) /\ Later(jobs'[d][i].head, h)
               /\ \A k \in DOMAIN jobs'[d] : i <= k => Later(jobs'[d][i].head, jobs'[d][k].head)
    <3>1. CASE i \in DOMAIN jobs[d]
      BY <1>3, <1>6, <1>7, <2>2, <2>3, <3>1
    <3>2. CASE i = l
      BY <1>6, <1>7, <2>1, <3>2
    <3> QED BY <1>6, <3>1, <3>2
  <2> QED BY <1>3, <1>4, <1>5, <2>1, <2>4 DEF SequenceNext
<1>11. AckedNext(d)
  <2>1. \A i \in DOMAIN jobs'[d] : \A n \in jobs'[d][i].ack : Past(n[1], jobs'[d][i].head)
    BY <1>1, <1>3, <1>6, <1>7 DEF AckedLate
  <2> QED BY <1>1, <1>4, <2>1 DEF AckedLate, AckedNext
<1>12. FarNext(d, NONE)
  BY <1>1, <1>4, LaterOrder DEF FarNext
<1>13. SealedFirst(d)'
  <2>1. \A k \in 0..Len(epoch) : k # e
    BY <1>1, <1>5
  <2>2. \A i \in DOMAIN jobs[d] : jobs[d][i].pub \in 0..Len(epoch)
    BY <1>1 DEF SessionOf, OnEpoch
  <2>3. \A i \in DOMAIN ready[d] : ready[d][i].pub \in 0..Len(epoch)
    BY <1>1 DEF SessionOf
  <2>4. ASSUME NEW i \in DOMAIN jobs'[d], jobs'[d][i].pub = e
        PROVE  i = Len(jobs'[d]) /\ jobs'[d][i].head = h /\ jobs'[d][i].pend = e
    BY <1>3, <1>6, <1>7, <2>1, <2>2, <2>4
  <2>5. \A i \in DOMAIN ready'[d] : ready'[d][i].pub # e
    BY <1>4, <2>1, <2>3
  <2> QED BY <1>3, <1>5, <2>4, <2>5 DEF SealedFirst
<1>14. NewsOnly(d, NONE)
  BY StageNoNews
<1> QED BY <1>1, <1>2, <1>9, <1>10, <1>11, <1>12, <1>13, <1>14, FounderStep
\* The gateway takes only what its author has published.
LEMMA DeliverNoNews ==
    ASSUME GroupInv, NEW d \in Device, NEW f \in out[d], Deliver(d, f) \/ Duplicate(d, f), NEW x \in Device
    PROVE  NewsOnly(x, NONE)
<1>1. Tree /\ Carried /\ out \in [Device -> SUBSET FrameRecord]
  BY DEF GroupInv, Carried
<1>2. /\ Publish(f) /\ epoch' = epoch
      /\ out' = out \/ out' = [out EXCEPT ![d] = @ \ {f}]
  BY DEF Deliver, Duplicate
<1>3. out'[x] \subseteq out[x]
  BY <1>1, <1>2
<1>4. /\ epoch[f.e].by = {d}
      /\ \A p \in Epochs :
            \/ log'[p] = log[p]
            \/ /\ f.kind = "commit"
               /\ DOMAIN log[p] = 1..Len(log[p]) /\ Len(log[p]) \in Nat
               /\ DOMAIN log'[p] = 1..(Len(log[p]) + 1) /\ log'[p][Len(log[p]) + 1] = f.e
               /\ \A i \in DOMAIN log[p] : log'[p][i] = log[p][i]
  BY <1>1, <1>2, GatewayTakes
<1>5. SUFFICES ASSUME NEW e \in Own(x)', Published(x, e)' PROVE e \in Own(x) /\ Published(x, e)
  BY DEF NewsOnly
<1>6. e \in Own(x) /\ epoch[e].by = {x}
  BY <1>2 DEF Own, Epochs
<1>7. CASE Frame("commit", e) \in out'[x]
  BY <1>3, <1>6, <1>7 DEF Published
<1>8. CASE \E i \in DOMAIN log'[epoch'[e].parent] : log'[epoch'[e].parent][i] = e
  <2>1. PICK p : p = epoch[e].parent
    OBVIOUS
  <2>2. p \in Epochs
    BY <1>1, <1>6, <2>1 DEF Own, Tree, Epochs
  <2>3. PICK i \in DOMAIN log'[p] : log'[p][i] = e
    BY <1>2, <1>8, <2>1
  <2>4. CASE log'[p] = log[p]
    BY <1>6, <2>1, <2>3, <2>4 DEF Published
  <2>5. CASE /\ f.kind = "commit"
             /\ DOMAIN log[p] = 1..Len(log[p]) /\ Len(log[p]) \in Nat
             /\ DOMAIN log'[p] = 1..(Len(log[p]) + 1) /\ log'[p][Len(log[p]) + 1] = f.e
             /\ \A k \in DOMAIN log[p] : log'[p][k] = log[p][k]
    <3>1. CASE i \in DOMAIN log[p]
      BY <1>6, <2>1, <2>3, <2>5, <3>1 DEF Published
    <3>2. CASE i = Len(log[p]) + 1
      <4>1. e = f.e
        BY <2>3, <2>5, <3>2
      <4>2. x = d
        BY <1>4, <1>6, <4>1
      <4>3. f = Frame("commit", e)
        BY <1>1, <2>5, <4>1 DEF Frame, FrameRecord
      <4> QED BY <1>6, <4>2, <4>3 DEF Published
    <3> QED BY <2>3, <2>5, <3>1, <3>2
  <2> QED BY <1>4, <2>2, <2>4, <2>5
<1> QED BY <1>5, <1>7, <1>8 DEF Published

\* The members of an epoch all listen before a commit leaves it, if every commit is staged in lockstep.
LEMMA ListenKept ==
    ASSUME GroupInv, AllListen, [Next]_vars, regime.lockstep
    PROVE  AllListen'
<1>1. Tree /\ Carried /\ Sessions
  BY DEF GroupInv
<1>2. ASSUME epoch' = epoch, \A p \in Epochs : listed[p] \subseteq listed'[p] PROVE AllListen'
  <2>1. SUFFICES ASSUME NEW e \in Epochs' \ {GENESIS}
                 PROVE  /\ epoch'[epoch'[e].parent].roster \subseteq listed'[epoch'[e].parent]
                        /\ \E a \in Device : epoch'[e].by = {a}
    BY DEF AllListen, Roster
  <2>2. e \in Epochs \ {GENESIS}
    BY <1>2, <2>1 DEF Epochs
  <2>3. epoch[e].parent \in Epochs
    BY <1>1, <2>2 DEF Tree, Epochs
  <2> QED BY <1>2, <2>2, <2>3 DEF AllListen, Roster
<1>3. ASSUME NEW d \in Device, NEW p \in Epochs, Subscribe(d, p), epoch' = epoch PROVE AllListen'
  <2>1. \A k \in Epochs : listed[k] \subseteq listed'[k]
    BY <1>1, <1>3, Subscribed
  <2> QED BY <1>2, <1>3, <2>1
<1>4. ASSUME epoch' = epoch, listed' = listed PROVE AllListen'
  BY <1>2, <1>4
<1>5. ASSUME NEW d \in Device, NEW adds \in SUBSET Device, NEW removes \in SUBSET Device, Stage(d, adds, removes)
      PROVE  AllListen'
  <2>1. /\ mem[d].head \in Epochs /\ Len(epoch) \in Nat \ {0} /\ Len(epoch)' = Len(epoch) + 1
        /\ \A e \in Epochs : epoch'[e] = epoch[e] /\ log'[e] = log[e] /\ listed'[e] = listed[e]
        /\ epoch'[Len(epoch) + 1] = NewEpoch(d, adds, removes)
    <3>1. SessionOf(d)
      BY <1>1 DEF Sessions
    <3> QED BY <1>1, <1>5, <3>1, StagedEpoch
  <2>2. NewEpoch(d, adds, removes).parent = mem[d].head /\ NewEpoch(d, adds, removes).by = {d}
    BY DEF NewEpoch
  <2>3. epoch[mem[d].head].roster \subseteq listed[mem[d].head]
    BY <1>5 DEF Stage, Roster
  <2>4. SUFFICES ASSUME NEW e \in Epochs' \ {GENESIS}
                 PROVE  /\ epoch'[epoch'[e].parent].roster \subseteq listed'[epoch'[e].parent]
                        /\ \E a \in Device : epoch'[e].by = {a}
    BY DEF AllListen, Roster
  <2>5. e \in Epochs \/ e = Len(epoch) + 1
    BY <2>1, <2>4 DEF Epochs
  <2>6. CASE e \in Epochs
    <3>1. epoch[e].parent \in Epochs
      BY <1>1, <2>4, <2>6 DEF Tree, Epochs
    <3>2. /\ epoch[epoch[e].parent].roster \subseteq listed[epoch[e].parent]
          /\ \E a \in Device : epoch[e].by = {a}
      BY <2>4, <2>6 DEF AllListen, Roster
    <3>3. /\ epoch'[e] = epoch[e] /\ epoch'[epoch[e].parent] = epoch[epoch[e].parent]
          /\ listed'[epoch[e].parent] = listed[epoch[e].parent]
      BY <2>1, <2>6, <3>1
    <3> QED BY <3>2, <3>3
  <2>7. CASE e = Len(epoch) + 1
    BY <2>1, <2>2, <2>3, <2>7
  <2> QED BY <2>5, <2>6, <2>7
<1>6. ASSUME NEW d \in Device, Step(d) PROVE AllListen'
  <2>1. ASSUME Merge(d) PROVE AllListen'
    <3>1. PICK e : e = log[NextEntry(d)[1]][NextEntry(d)[2]]
      OBVIOUS
    <3>2. mem[d].head # NONE /\ Waiting(d, mem[d].head) # {} /\ Subscribe(d, e) /\ epoch' = epoch
      BY <2>1, <3>1 DEF Merge
    <3>3. SessionOf(d)
      BY <1>1 DEF Sessions
    <3>4. e \in Epochs
      BY <1>1, <3>1, <3>2, <3>3, EntryTaken
    <3> QED BY <1>3, <3>2, <3>4
  <2>2. ASSUME NEW e \in invited[d], Join(d, e) PROVE AllListen'
    <3>1. e \in Epochs
      BY <1>1, <2>2 DEF Carried, Welcomes
    <3>2. epoch' = epoch /\ (listed' = listed \/ Subscribe(d, e))
      BY <2>2 DEF Join
    <3> QED BY <1>3, <1>4, <3>1, <3>2
  <2>3. ASSUME \/ Sealed(d) \/ Continue(d) \/ (\E f \in out[d] : Deliver(d, f)) \/ DropOwn(d) \/ Evicted(d)
               \/ Backstop(d)
        PROVE  AllListen'
    BY <1>4, <2>3 DEF Sealed, Continue, Deliver, DropOwn, Evicted, Backstop
  <2> QED BY <1>6, <2>1, <2>2, <2>3 DEF Step
<1>7. ASSUME NEW d \in Device, Fault(d) PROVE AllListen'
  <2>1. ASSUME Crash(d) \/ Reconnect(d) PROVE AllListen'
    <3>1. PICK saved \in SealRecord, stranded \in SUBSET out[d] :
              /\ connectGateway(d, saved, stranded)
              /\ \/ saved = disk[d]
                 \/ /\ Len(jobs[d]) \in DOMAIN jobs[d]
                    /\ saved.head = jobs[d][Len(jobs[d])].head /\ saved.pend = jobs[d][Len(jobs[d])].pend
      BY <1>1, <2>1, SavedSession
    <3>2. saved.head \in 0..Len(epoch) /\ Len(epoch) \in Nat
      BY <1>1, <3>1, LenProperties DEF Sessions, SessionOf, OnEpoch, Tree
    <3>3. epoch' = epoch /\ (listed' = listed \/ (saved.head # NONE /\ Subscribe(d, saved.head)))
      BY <3>1 DEF connectGateway
    <3>4. saved.head # NONE => saved.head \in Epochs
      BY <3>2 DEF Epochs, NONE
    <3> QED BY <1>3, <1>4, <3>3, <3>4
  <2>2. ASSUME SealFails(d) \/ (\E f \in out[d] : Duplicate(d, f)) \/ (\E f \in out[d] : Lose(d, f))
        PROVE  AllListen'
    BY <1>4, <2>2 DEF SealFails, Duplicate, Lose
  <2> QED BY <1>7, <2>1, <2>2 DEF Fault
<1>8. ASSUME NEW d \in Device, NEW x \in Device, Stage(d, {x}, {}) \/ Stage(d, {}, {x}) PROVE AllListen'
  <2>1. {x} \in SUBSET Device /\ {} \in SUBSET Device
    OBVIOUS
  <2> QED BY <1>5, <1>8, <2>1
<1>9. ASSUME UNCHANGED vars PROVE AllListen'
  BY <1>4, <1>9 DEF vars
<1> QED BY <1>6, <1>7, <1>8, <1>9 DEF Next
\* A step of d leaves what other devices keep for themselves alone.
LEMMA OthersIdle ==
    ASSUME GroupInv, NEW d \in Device, NEW x \in Device, x # d,
           \/ Step(d) \/ Fault(d) \/ \E y \in Device : Stage(d, {y}, {}) \/ Stage(d, {}, {y})
    PROVE  Idle(x)
<1>1. /\ mem \in [Device -> MemRecord] /\ disk \in [Device -> SealRecord]
      /\ jobs \in [Device -> Seq(JobRecord)] /\ ready \in [Device -> Seq(JobRecord)]
      /\ acked \in [Device -> SUBSET (Nat \X Nat)] /\ out \in [Device -> SUBSET FrameRecord]
  BY DEF GroupInv, Sessions, Carried
<1>2. \A e : Subscribe(d, e) => acked'[x] = acked[x]
  BY <1>1 DEF Subscribe
<1>3. \A m, p, a : Reseal(d, m, p, a) => jobs'[x] = jobs[x]
  BY <1>1 DEF Reseal
<1>4. ASSUME NEW y \in Device, Stage(d, {y}, {}) \/ Stage(d, {}, {y}) PROVE Idle(x)
  <2>1. ASSUME NEW a, NEW r, Stage(d, a, r) PROVE Idle(x)
    <3>1. /\ \E m : mem' = [mem EXCEPT ![d] = m] /\ \E p : Reseal(d, m, p, {})
          /\ UNCHANGED <<disk, ready, out, acked>>
      BY <2>1 DEF Stage
    <3> QED BY <1>1, <1>3, <3>1 DEF Idle
  <2> QED BY <1>4, <2>1
<1>5. ASSUME Sealed(d) \/ SealFails(d) PROVE Idle(x)
  BY <1>1, <1>5 DEF Sealed, SealFails, Idle
<1>6. ASSUME Continue(d) PROVE Idle(x)
  BY <1>1, <1>6 DEF Continue, Idle
<1>7. ASSUME NEW f \in out[d], Deliver(d, f) \/ Duplicate(d, f) \/ Lose(d, f) PROVE Idle(x)
  BY <1>1, <1>7 DEF Deliver, Duplicate, Lose, Idle
<1>8. ASSUME DropOwn(d) \/ Backstop(d) PROVE Idle(x)
  BY <1>1, <1>8 DEF DropOwn, Backstop, Idle
<1>9. ASSUME Merge(d) PROVE Idle(x)
  <2>1. /\ \E m : mem' = [mem EXCEPT ![d] = m] /\ \E a : Reseal(d, m, NONE, a)
        /\ \E e : Subscribe(d, e)
        /\ UNCHANGED <<disk, ready, out>>
    BY <1>9 DEF Merge
  <2> QED BY <1>1, <1>2, <1>3, <2>1 DEF Idle
<1>10. ASSUME Evicted(d) PROVE Idle(x)
  <2>1. /\ \E m : mem' = [mem EXCEPT ![d] = m] /\ \E a : Reseal(d, m, NONE, a)
        /\ UNCHANGED <<disk, ready, out, acked>>
    BY <1>10 DEF Evicted
  <2> QED BY <1>1, <1>3, <2>1 DEF Idle
<1>11. ASSUME NEW e \in invited[d], Join(d, e) PROVE Idle(x)
  <2>1. /\ UNCHANGED <<disk, ready, out>>
        /\ \/ UNCHANGED <<mem, acked, jobs>>
           \/ /\ \E m : mem' = [mem EXCEPT ![d] = m] /\ \E a : Reseal(d, m, NONE, a)
              /\ Subscribe(d, e)
    BY <1>11 DEF Join
  <2> QED BY <1>1, <1>2, <1>3, <2>1 DEF Idle
<1>12. ASSUME Crash(d) \/ Reconnect(d) PROVE Idle(x)
  <2>1. ASSUME NEW saved, NEW stranded, connectGateway(d, saved, stranded) PROVE Idle(x)
    <3>1. acked'[x] = acked[x]
      BY <1>2, <2>1 DEF connectGateway
    <3> QED BY <1>1, <2>1, <3>1 DEF connectGateway, Idle
  <2> QED BY <1>12, <2>1 DEF Crash, Reconnect
<1> QED BY <1>4, <1>5, <1>6, <1>7, <1>8, <1>9, <1>10, <1>11, <1>12 DEF Step, Fault

\* A step of d publishes no commit of another device.
LEMMA OthersNoNews ==
    ASSUME GroupInv, NEW d \in Device, NEW x \in Device, x # d,
           \/ Step(d) \/ Fault(d) \/ \E y \in Device : Stage(d, {y}, {}) \/ Stage(d, {}, {y})
    PROVE  NewsOnly(x, NONE)
<1>1. out'[x] = out[x]
  BY OthersIdle DEF Idle
<1>2. ASSUME epoch' = epoch, log' = log PROVE NewsOnly(x, NONE)
  BY <1>1, <1>2, NewsFromTransport
<1>3. ASSUME NEW f \in out[d], Deliver(d, f) \/ Duplicate(d, f) PROVE NewsOnly(x, NONE)
  BY <1>3, DeliverNoNews
<1>4. ASSUME NEW y \in Device, Stage(d, {y}, {}) \/ Stage(d, {}, {y}) PROVE NewsOnly(x, NONE)
  <2>1. {y} \in SUBSET Device /\ {} \in SUBSET Device
    OBVIOUS
  <2>2. ASSUME NEW a \in SUBSET Device, NEW r \in SUBSET Device, Stage(d, a, r) PROVE NewsOnly(x, NONE)
    BY <2>2, StageNoNews
  <2> QED BY <1>4, <2>1, <2>2
<1>5. ASSUME Sealed(d) \/ SealFails(d) \/ Continue(d) \/ DropOwn(d) \/ Backstop(d) \/ Evicted(d) \/ Merge(d)
      PROVE  NewsOnly(x, NONE)
  BY <1>2, <1>5 DEF Sealed, SealFails, Continue, DropOwn, Backstop, Evicted, Merge
<1>6. ASSUME \/ (\E e \in invited[d] : Join(d, e)) \/ (\E f \in out[d] : Lose(d, f)) \/ Crash(d) \/ Reconnect(d)
      PROVE  NewsOnly(x, NONE)
  BY <1>2, <1>6 DEF Join, Lose, Crash, Reconnect, connectGateway
<1> QED BY <1>3, <1>4, <1>5, <1>6 DEF Step, Fault

\* A founder's own step keeps its invariant in an orderly environment.
LEMMA OwnOrder ==
    ASSUME GroupInv, AllListen, Orderly, NEW d \in Device, d \in Founder, FounderInv(d), regime' = regime,
           Tree', EpochsGrow, MailGrows,
           \/ Step(d) \/ Fault(d) \/ \E y \in Device : Stage(d, {y}, {}) \/ Stage(d, {}, {y})
    PROVE  FounderInv(d)'
<1>1. Tree /\ Carried /\ FoundersStay /\ Sessions /\ SessionOf(d)
  BY DEF GroupInv, Sessions
<1>2. ASSUME NewsOnly(d, NONE), UNCHANGED <<mem, disk, jobs, ready, acked>> PROVE FounderInv(d)'
  BY <1>1, <1>2, Untouched
<1>3. ASSUME NEW y \in Device, Stage(d, {y}, {}) \/ Stage(d, {}, {y}) PROVE FounderInv(d)'
  <2>1. {y} \in SUBSET Device /\ {} \in SUBSET Device
    OBVIOUS
  <2>2. ASSUME NEW a \in SUBSET Device, NEW r \in SUBSET Device, Stage(d, a, r) PROVE FounderInv(d)'
    BY <2>2, StageOrder
  <2> QED BY <1>3, <2>1, <2>2
<1>4. ASSUME Sealed(d) PROVE FounderInv(d)'
  BY <1>4, SealedOrder
<1>5. ~SealFails(d)
  BY DEF SealFails, Orderly
<1>6. ASSUME Continue(d) PROVE FounderInv(d)'
  BY <1>6, ContinueOrder
<1>7. ASSUME NEW f \in out[d], Deliver(d, f) \/ Duplicate(d, f) PROVE FounderInv(d)'
  <2>1. NewsOnly(d, NONE)
    BY <1>7, DeliverNoNews
  <2>2. UNCHANGED <<mem, disk, jobs, ready, acked>>
    BY <1>7 DEF Deliver, Duplicate
  <2> QED BY <1>2, <2>1, <2>2
<1>8. ASSUME NEW f \in out[d], Lose(d, f) PROVE FounderInv(d)'
  <2>1. UNCHANGED <<epoch, log, mem, disk, jobs, ready, acked>> /\ out' = [out EXCEPT ![d] = @ \ {f}]
    BY <1>8 DEF Lose
  <2>2. out'[d] \subseteq out[d]
    BY <1>1, <2>1 DEF Carried
  <2>3. NewsOnly(d, NONE)
    BY <2>1, <2>2, NewsFromTransport
  <2> QED BY <1>2, <2>1, <2>3
<1>9. ~DropOwn(d)
  BY DropOwnExcluded
<1>10. ASSUME Merge(d) PROVE FounderInv(d)'
  BY <1>10, MergeOrder
<1>11. ASSUME Evicted(d) PROVE FounderInv(d)'
  BY <1>11, EvictedOrder
<1>12. invited[d] = {}
  BY <1>1 DEF Carried, Welcomes, FoundersStay
<1>13. ASSUME Backstop(d) PROVE FounderInv(d)'
  BY <1>13, BackstopOrder DEF Orderly
<1>14. ASSUME Crash(d) \/ Reconnect(d) PROVE FounderInv(d)'
  BY <1>14, ReloadOrder
<1> QED BY <1>3, <1>4, <1>5, <1>6, <1>7, <1>8, <1>9, <1>10, <1>11, <1>12, <1>13, <1>14 DEF Step, Fault

\* Every step keeps the invariant of an orderly environment.
LEMMA OrderStep ==
    ASSUME GroupInv, OrderInv, [Next]_vars
    PROVE  OrderInv'
<1>1. regime' = regime
  BY DEF Next, vars
<1>2. SUFFICES ASSUME Orderly PROVE AllListen' /\ \A x \in Founder : FounderInv(x)'
  BY <1>1 DEF OrderInv, Orderly
<1>3. AllListen /\ \A x \in Founder : FounderInv(x)
  BY <1>2 DEF OrderInv
<1>4. GroupInv' /\ EpochsGrow /\ MailGrows /\ Tree /\ Tree' /\ Sessions
  BY GroupStep DEF GroupInv
<1>5. AllListen'
  BY <1>2, <1>3, ListenKept DEF Orderly
<1>6. ASSUME NEW x \in Founder PROVE FounderInv(x)'
  <2>1. x \in Device /\ SessionOf(x) /\ FounderInv(x)
    BY <1>3, <1>4, DeviceAssumption DEF Sessions
  <2>2. ASSUME UNCHANGED vars PROVE FounderInv(x)'
    <3>1. UNCHANGED <<epoch, log, out, mem, disk, jobs, ready, acked>>
      BY <2>2 DEF vars
    <3>2. NewsOnly(x, NONE)
      BY <3>1, NewsFromTransport
    <3> QED BY <1>4, <2>1, <3>1, <3>2, Untouched
  <2>3. ASSUME NEW d \in Device,
               \/ Step(d) \/ Fault(d) \/ \E y \in Device : Stage(d, {y}, {}) \/ Stage(d, {}, {y})
        PROVE  FounderInv(x)'
    <3>1. CASE x = d
      BY <1>1, <1>2, <1>3, <1>4, <2>1, <2>3, <3>1, OwnOrder
    <3>2. CASE x # d
      <4>1. Idle(x) /\ NewsOnly(x, NONE)
        BY <2>1, <2>3, <3>2, OthersIdle, OthersNoNews
      <4> QED BY <1>4, <2>1, <4>1, Untouched DEF Idle
    <3> QED BY <3>1, <3>2
  <2> QED BY <2>2, <2>3 DEF Next
<1> QED BY <1>5, <1>6

\* The founding group is orderly: everyone listens and nothing is published.
LEMMA OrderInit ==
    ASSUME Init
    PROVE  OrderInv
<1>1. GroupInv /\ Tree /\ Sessions
  BY GroupInit DEF GroupInv
<1> DEFINE G == [by |-> {}, parent |-> NONE, adds |-> {}, removes |-> {},
                 roster |-> Founder, path |-> {GENESIS}]
<1>2. G.roster = Founder /\ G.path = {1}
  BY DEF GENESIS
<1>3. epoch = <<G>> /\ Len(<<G>>) = 1 /\ <<G>>[1] = G
  BY DEF Init
<1> HIDE DEF G
<1>4. Epochs = {1} /\ epoch[1] = G /\ Len(epoch) = 1
  BY <1>3 DEF Epochs
<1>5. \A d \in Device : Own(d) = {}
  BY <1>4 DEF Own, GENESIS
<1>6. AllListen
  BY <1>4 DEF AllListen, GENESIS
<1>7. ASSUME NEW d \in Founder PROVE FounderInv(d)
  <2>1. d \in Device
    BY DeviceAssumption
  <2>2. /\ mem[d] = Session(GENESIS, NONE) /\ disk[d] = [head |-> GENESIS, pend |-> NONE]
        /\ jobs[d] = <<>> /\ ready[d] = <<>> /\ acked[d] = {}
    BY <2>1 DEF Init
  <2>3. mem[d].head = 1 /\ mem[d].pend = 0 /\ disk[d].head = 1 /\ disk[d].pend = 0
    BY <2>2 DEF Session, GENESIS, NONE
  <2>4. DOMAIN jobs[d] = {} /\ DOMAIN ready[d] = {}
    BY <2>2, EmptySeq
  <2>5. Sound(d, 1, 0)
    BY <1>2, <1>4, <1>5, <2>1 DEF Sound, Canonical, Roster, GENESIS, NONE
  <2>6. Later(1, 1)
    BY <1>2, <1>4 DEF Later, NONE
  <2>7. AllSound(d)
    BY <2>3, <2>4, <2>5 DEF AllSound
  <2>8. InSequence(d)
    BY <2>3, <2>4, <2>6 DEF InSequence
  <2>9. AckedLate(d) /\ SealedFirst(d)
    BY <2>2, <2>4 DEF AckedLate, SealedFirst
  <2>10. SealedFar(d)
    BY <1>5, <2>1 DEF SealedFar
  <2> QED BY <2>7, <2>8, <2>9, <2>10 DEF FounderInv
<1> QED BY <1>6, <1>7 DEF OrderInv

\* Two ways that take the first commit of every mailbox do not part.
LEMMA OneWay ==
    ASSUME Tree, NEW h \in Epochs, NEW k \in Epochs, Canonical(h), Canonical(k)
    PROVE  Comparable(h, k)
<1>1. Len(epoch) \in Nat /\ h \in Nat /\ k \in Nat /\ h # NONE /\ k # NONE
  BY LenProperties DEF Tree, Epochs, NONE
<1> DEFINE S == epoch[h].path \cap epoch[k].path
           w == {h - m : m \in S}
<1>2. \A e \in {h, k} : /\ GENESIS \in epoch[e].path /\ epoch[e].path \subseteq 1..e
                        /\ \A p \in epoch[e].path :
                              p # e => \E c \in epoch[e].path : c # GENESIS /\ epoch[c].parent = p
  BY DEF Tree
<1>3. GENESIS \in S /\ S \subseteq 1..h
  BY <1>2
<1>4. w \subseteq Nat /\ w # {}
  BY <1>1, <1>3
<1>5. IsWellFoundedOn({ss \in Nat \X Nat : ss[1] < ss[2]}, Nat)
  BY NatLessThanWellFounded, Zenon DEF OpToRel
<1> DEFINE R == {ss \in Nat \X Nat : ss[1] < ss[2]}
<1> HIDE DEF R, w
<1>6. PICK x \in w : \A y \in w : ~(<<y, x>> \in R)
  <2>1. IsWellFoundedOn(R, Nat)
    BY <1>5 DEF R
  <2> QED BY <1>4, <2>1, WFMin
<1>7. PICK m \in S : x = h - m
  BY <1>6 DEF w
<1>8. ASSUME NEW c \in S PROVE c <= m
  <2>1. h - c \in w /\ h - c \in Nat /\ x \in Nat /\ c \in Nat /\ m \in Nat
    BY SMTT(30), <1>1, <1>3, <1>4, <1>7 DEF w
  <2>2. ~(h - c < x)
    <3>1. ~(<<h - c, x>> \in R)
      BY <1>6, <2>1
    <3> QED BY <2>1, <3>1 DEF R
  <2> QED BY <1>1, <1>7, <2>1, <2>2
<1>9. CASE m = h \/ m = k
  BY <1>7, <1>9 DEF Comparable
<1>10. CASE m # h /\ m # k
  <2>1. PICK c \in epoch[h].path : c # GENESIS /\ epoch[c].parent = m
    BY <1>2, <1>7, <1>10
  <2>2. PICK e \in epoch[k].path : e # GENESIS /\ epoch[e].parent = m
    BY <1>2, <1>7, <1>10
  <2>3. log[m][1] = c /\ log[m][1] = e
    BY <1>1, <2>1, <2>2 DEF Canonical
  <2>4. c \in S
    BY <2>1, <2>2, <2>3
  <2>5. c \in Epochs /\ c \in Nat
    BY <1>1, <1>2, <2>1 DEF Epochs
  <2>6. epoch[c].parent \in 1..(c - 1)
    BY <2>1, <2>5 DEF Tree
  <2> QED BY <1>1, <1>8, <2>1, <2>4, <2>5, <2>6
<1> QED BY <1>9, <1>10

\* In an orderly environment every founder takes the way that the first commit of each
\* mailbox marks, whatever is lost, duplicated, crashed or answered late: no two founders
\* are ever on rival epochs.
THEOREM FoundersNeverFork == Spec => []NoFork
<1>1. Init => GroupInv /\ OrderInv
  BY GroupInit, OrderInit
<1>2. GroupInv /\ OrderInv /\ [Next]_vars => GroupInv' /\ OrderInv'
  BY GroupStep, OrderStep
<1>3. GroupInv /\ OrderInv => NoFork
  <2> SUFFICES ASSUME GroupInv, OrderInv, Orderly, NEW d \in Founder, NEW x \in Founder,
                      mem[d].head # NONE, mem[x].head # NONE
               PROVE  Comparable(mem[d].head, mem[x].head)
    BY DEF NoFork
  <2>1. Tree /\ Sessions /\ d \in Device /\ x \in Device
    BY DeviceAssumption DEF GroupInv
  <2>2. Len(epoch) \in Nat
    BY <2>1, LenProperties DEF Tree
  <2>3. mem[d].head \in Epochs /\ mem[x].head \in Epochs
    BY <2>1, <2>2 DEF Sessions, SessionOf, OnEpoch, Epochs, NONE
  <2>4. Canonical(mem[d].head) /\ Canonical(mem[x].head)
    BY DEF OrderInv, FounderInv, AllSound, Sound
  <2> QED BY <2>1, <2>3, <2>4, OneWay
<1> QED BY <1>1, <1>2, <1>3, PTL DEF Spec

\* In an orderly environment no commit that leads on from a founder's sealed epoch is ever
\* acked: an entry leaves the mailbox only when the epoch past it is sealed, so a crash
\* finds the next commit still held.
THEOREM DurableIsHeld == Spec => []HeldUntilDurable
<1>1. Init => GroupInv /\ OrderInv
  BY GroupInit, OrderInit
<1>2. GroupInv /\ OrderInv /\ [Next]_vars => GroupInv' /\ OrderInv'
  BY GroupStep, OrderStep
<1>3. OrderInv => HeldUntilDurable
  <2> SUFFICES ASSUME OrderInv, Orderly, NEW d \in Founder, disk[d].head # NONE,
                      NEW i \in DOMAIN log[disk[d].head], <<disk[d].head, i>> \in acked[d]
               PROVE  FALSE
    BY DEF HeldUntilDurable
  <2>1. PICK n \in acked[d] : n = <<disk[d].head, i>>
    OBVIOUS
  <2>2. n[1] = disk[d].head
    BY <2>1
  <2>3. Past(n[1], disk[d].head)
    BY <2>1 DEF OrderInv, FounderInv, AckedLate
  <2> QED BY <2>2, <2>3 DEF Past
<1> QED BY <1>1, <1>2, <1>3, PTL DEF Spec
=============================================================================
