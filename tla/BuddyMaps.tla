---------------------------- MODULE BuddyMaps ------------------------------
(***************************************************************************)
(* The buddy map and the group map that the devices of one account share   *)
(* over the self-group, as client/src/controller.ts keeps them: two        *)
(* last-writer-wins maps with tombstones.                                  *)
(*                                                                         *)
(* Every change is a load, a modification and a save of one sealed record  *)
(* with awaits between them.  The worker runs user operations one at a     *)
(* time, but a control frame is adopted outside that queue: adoptBuddies   *)
(* and adoptGroups may run between the load and the save of another        *)
(* writer.  One tab of each device is in use.  A frame carries the whole   *)
(* map; one already waiting for a device is not added twice.  A version is *)
(* what the clock of the editing device shows: clocks run ahead of one     *)
(* another, so versions may tie and a later edit may have the lower one.   *)
(***************************************************************************)
EXTENDS Integers, Sequences, FiniteSets

CONSTANTS
    Replica,      \* the devices of the account
    Buddy,        \* usernames
    Folder,       \* names of custom buddy groups
    MaxFuture,    \* CRDT_MAX_FUTURE_MS
    MaxEdit,      \* bound: edits by the user, on all devices
    MaxTime,      \* bound: the time, and so the versions
    Ahead,        \* how far the clock of each device runs ahead of the slowest
    MaxAdopt,     \* bound: frames a device adopts at the same time
    MaxMapCrash   \* bound: reloads

ASSUME BuddyMapsAssumption ==
    /\ {MaxFuture, MaxEdit, MaxTime, MaxMapCrash} \subseteq Nat /\ MaxAdopt \in Nat \ {0}
    /\ Ahead \in [Replica -> Nat]

DefaultFolder == "Buddies"
Maps == {"buddies", "groups"}
Keys(m) == IF m = "buddies" THEN Buddy ELSE Folder

VARIABLES
    now,        \* the time on the slowest clock
    edits,      \* edits so far
    store,      \* the sealed maps of a device, normalized
    job,        \* the user operation under way: the map it loaded, or none
    adopting,   \* adoptions under way: what each loaded and what came in
    inbox,      \* control frames the gateway holds for a device
    mapCrashes

MapVars == <<now, edits, store, job, adopting, inbox, mapCrashes>>

NoJob == [kind |-> "none"]

\* An entry as normalizeBuddyMap keeps it; the present ones and the tombstones.
Entry(v, removed, folder) == [v |-> v, removed |-> removed, folder |-> folder]
Absent == Entry(0, TRUE, DefaultFolder)
EmptyMap(m) == [k \in Keys(m) |-> Absent]

MapInit ==
    /\ now = 1 /\ edits = 0 /\ mapCrashes = 0
    /\ store = [d \in Replica |-> [m \in Maps |-> EmptyMap(m)]]
    /\ job = [d \in Replica |-> NoJob]
    /\ adopting = [d \in Replica |-> {}]
    /\ inbox = [d \in Replica |-> <<>>]

-----------------------------------------------------------------------------
\* sendControl on the self-group: each frame reaches every other device.
Waiting(s, f) == \E i \in DOMAIN s : s[i] = f
Publish(d, fs) ==
    inbox' = [e \in Replica |-> IF e = d THEN inbox[e]
                               ELSE inbox[e] \o SelectSeq(fs, LAMBDA f : ~Waiting(inbox[e], f))]
MapFrame(m, content) == [kind |-> m, map |-> content]
GroupsFrame(d) == MapFrame("groups", store[d]["groups"])

\* Mutant: a removal needs no later version.
Newer_Removed(x, y) == x.v > y.v \/ (x.removed /\ ~y.removed)

\* The version test of adoptBuddies and adoptGroups: a removal beats an add of the
\* same millisecond, anything else of the same millisecond is ignored.  (An entry here has
\* neither the verified key nor the alias for which the code breaks a tie.)
Newer(x, y) == x.v > y.v \/ (x.v = y.v /\ x.removed /\ ~y.removed)
Merge(mine, theirs) == [k \in DOMAIN mine |-> IF Newer(theirs[k], mine[k]) THEN theirs[k] ELSE mine[k]]

-----------------------------------------------------------------------------
(* The maps. *)

\* this.now() on a device.
Clock(d) == now + Ahead[d]

\* A user operation loads the map it will change.
Load(d, m) ==
    /\ job[d] = NoJob /\ edits < MaxEdit
    /\ edits' = edits + 1
    /\ Clock(d) <= MaxTime
    /\ job' = [job EXCEPT ![d] = [kind |-> "edit", map |-> m, base |-> store[d][m], v |-> Clock(d)]]
    /\ UNCHANGED <<now, store, adopting, inbox, mapCrashes>>

\* ... and saves it changed, then publishes what the store holds.
Save(d, m, content) ==
    /\ store' = [store EXCEPT ![d][m] = content]
    /\ Publish(d, <<MapFrame(m, content)>>)

\* addBuddy: nothing happens to a buddy that is there.
AddBuddy(d, k) ==
    /\ job[d].kind = "edit" /\ job[d].map = "buddies" /\ job[d].base[k].removed
    /\ \E folder \in Folder \cup {DefaultFolder} :
        Save(d, "buddies", [job[d].base EXCEPT ![k] = Entry(job[d].v, FALSE, folder)])
    /\ job' = [job EXCEPT ![d] = NoJob]
    /\ UNCHANGED <<now, edits, adopting, mapCrashes>>

\* addGroup, likewise.
AddGroup(d, k) ==
    /\ job[d].kind = "edit" /\ job[d].map = "groups" /\ job[d].base[k].removed
    /\ Save(d, "groups", [job[d].base EXCEPT ![k].v = job[d].v, ![k].removed = FALSE])
    /\ job' = [job EXCEPT ![d] = NoJob]
    /\ UNCHANGED <<now, edits, adopting, mapCrashes>>

\* removeBuddy: a tombstone replaces the entry.
RemoveBuddy(d, k) ==
    /\ job[d].kind = "edit" /\ job[d].map = "buddies" /\ ~job[d].base[k].removed
    /\ Save(d, "buddies", [job[d].base EXCEPT ![k].v = job[d].v, ![k].removed = TRUE])
    /\ job' = [job EXCEPT ![d] = NoJob]
    /\ UNCHANGED <<now, edits, adopting, mapCrashes>>

\* deleteGroup up to its first save, which nothing publishes yet.
DeleteGroup(d, k) ==
    /\ job[d].kind = "edit" /\ job[d].map = "groups" /\ ~job[d].base[k].removed
    /\ store' = [store EXCEPT ![d]["groups"] = [job[d].base EXCEPT ![k].v = job[d].v, ![k].removed = TRUE]]
    /\ job' = [job EXCEPT ![d] = [kind |-> "move", from |-> k]]
    /\ UNCHANGED <<now, edits, adopting, inbox, mapCrashes>>

\* setBuddyGroup: a live buddy moves to another folder.
SetBuddyGroup(d, k) ==
    /\ job[d].kind = "edit" /\ job[d].map = "buddies" /\ ~job[d].base[k].removed
    /\ \E folder \in (Folder \cup {DefaultFolder}) \ {job[d].base[k].folder} :
        Save(d, "buddies", [job[d].base EXCEPT ![k].v = job[d].v, ![k].folder = folder])
    /\ job' = [job EXCEPT ![d] = NoJob]
    /\ UNCHANGED <<now, edits, adopting, mapCrashes>>

\* deleteGroup then loads the buddy map and reads the clock again (up to the bound) ...
LoadMoved(d) ==
    /\ job[d].kind = "move"
    /\ job' = [job EXCEPT ![d] = [kind |-> "moved", from |-> job[d].from, base |-> store[d]["buddies"],
                                  v |-> IF Clock(d) < MaxTime THEN Clock(d) ELSE MaxTime]]
    /\ UNCHANGED <<now, edits, store, adopting, inbox, mapCrashes>>

\* ... saves it with the group's buddies back in the default one, and publishes both.
MoveBuddies(d) ==
    /\ job[d].kind = "moved"
    /\ LET moved == {k \in Buddy : ~job[d].base[k].removed /\ job[d].base[k].folder = job[d].from}
           content == [k \in Buddy |->
                         IF k \in moved THEN [job[d].base[k] EXCEPT !.v = job[d].v, !.folder = DefaultFolder]
                                        ELSE job[d].base[k]]
       IN  IF moved = {}
           THEN UNCHANGED store /\ Publish(d, <<GroupsFrame(d)>>)
           ELSE /\ store' = [store EXCEPT ![d]["buddies"] = content]
                /\ Publish(d, <<MapFrame("buddies", content), GroupsFrame(d)>>)
    /\ job' = [job EXCEPT ![d] = NoJob]
    /\ UNCHANGED <<now, edits, adopting, mapCrashes>>

\* adoptBuddies and adoptGroups up to their save: the map they loaded, and the frame
\* without the entries that are too far ahead of the device's clock.
Adoption(d, f) ==
    LET base == store[d][f.kind]
    IN  [map |-> f.kind, base |-> base,
         in |-> [k \in DOMAIN base |-> IF f.map[k].v > Clock(d) + MaxFuture THEN base[k] ELSE f.map[k]]]

\* onControlFrame hands a map frame to adoptBuddies or adoptGroups, which loads its
\* map, and acks the frame at once.
Adopt(d) ==
    /\ inbox[d] # <<>>
    /\ Cardinality(adopting[d]) < MaxAdopt
    /\ adopting' = [adopting EXCEPT ![d] = @ \cup {Adoption(d, Head(inbox[d]))}]
    /\ inbox' = [inbox EXCEPT ![d] = Tail(@)]
    /\ UNCHANGED <<now, edits, store, job, mapCrashes>>

\* The adoption saves the merge of what it loaded and broadcasts it, if anything changed.
AdoptSave(d) ==
    /\ \E a \in adopting[d] :
        /\ adopting' = [adopting EXCEPT ![d] = @ \ {a}]
        /\ IF Merge(a.base, a.in) = a.base
           THEN UNCHANGED <<store, inbox>>
           ELSE Save(d, a.map, Merge(a.base, a.in))
    /\ UNCHANGED <<now, edits, job, mapCrashes>>

-----------------------------------------------------------------------------
\* resyncSelfGroup on every connection: both maps go out again.  connectGateway is a
\* worker operation, so no other one is under way.  A frame that still waits carries
\* what an earlier save published; a resync is taken when nothing waits.
Resync(d) ==
    /\ job[d] = NoJob /\ \A e \in Replica \ {d} : inbox[e] = <<>>
    /\ Publish(d, <<MapFrame("buddies", store[d]["buddies"]), GroupsFrame(d)>>)
    /\ UNCHANGED <<now, edits, store, job, adopting, mapCrashes>>

\* A reload: the operation and the adoptions under way are gone, their frames acked.
MapReload(d) ==
    /\ mapCrashes < MaxMapCrash
    /\ mapCrashes' = mapCrashes + 1
    /\ job' = [job EXCEPT ![d] = NoJob]
    /\ adopting' = [adopting EXCEPT ![d] = {}]
    /\ UNCHANGED <<now, edits, store, inbox>>

\* An operation whose check fails on what it loaded returns without a save.
Refused(d) ==
    /\ job[d].kind = "edit"
    /\ job' = [job EXCEPT ![d] = NoJob]
    /\ UNCHANGED <<now, edits, store, adopting, inbox, mapCrashes>>

\* Time passes.
Tick ==
    /\ now < MaxTime
    /\ now' = now + 1
    /\ UNCHANGED <<edits, store, job, adopting, inbox, mapCrashes>>

JobStep(d) == \/ LoadMoved(d) \/ MoveBuddies(d) \/ Refused(d)
              \/ \E k \in Buddy : AddBuddy(d, k) \/ RemoveBuddy(d, k) \/ SetBuddyGroup(d, k)
              \/ \E k \in Folder : AddGroup(d, k) \/ DeleteGroup(d, k)

MapNext ==
    \/ Tick
    \/ \E d \in Replica :
        \/ \E m \in Maps : Load(d, m)
        \/ JobStep(d) \/ Adopt(d) \/ AdoptSave(d) \/ Resync(d) \/ MapReload(d)

\* Time passes, storage operations finish, the gateway delivers what it holds, and a
\* device reconnects, which makes it publish its maps, again and again.
MapFairness ==
    /\ WF_MapVars(Tick)
    /\ \A d \in Replica : /\ WF_MapVars(JobStep(d)) /\ WF_MapVars(Adopt(d))
                        /\ WF_MapVars(AdoptSave(d)) /\ SF_MapVars(Resync(d))

MapSpec == MapInit /\ [][MapNext]_MapVars /\ MapFairness

-----------------------------------------------------------------------------
(* Properties. *)

\* Type correctness.
MapTypeOK ==
    /\ now \in 1..MaxTime /\ edits \in 0..MaxEdit /\ mapCrashes \in 0..MaxMapCrash
    /\ \A d \in Replica, m \in Maps : store[d][m] \in
         [Keys(m) -> [v : 0..MaxTime, removed : BOOLEAN, folder : Folder \cup {DefaultFolder}]]
    /\ \A d \in Replica : job[d].kind \in {"none", "edit", "move", "moved"}
    /\ \A d \in Replica : Cardinality(adopting[d]) <= MaxAdopt

Present(d, m) == {k \in Keys(m) : ~store[d][m][k].removed}

MapsAgree == \A d, e \in Replica, m \in Maps : Present(d, m) = Present(e, m)

\* Whatever was edited where, under clocks that differ by more than the allowance beyond
\* which a version is refused, at the same millisecond or not, and although adoptions
\* overlap user operations, all devices end with the same buddies and groups.
MapsConverge == <>[]MapsAgree

\* A frame never undoes a newer change of the buddy map or the group map: the version
\* of an entry on a device never goes down (the comment above adoptBuddies).
StaleFrameCannotUndo ==
    [][\A d \in Replica, m \in Maps : \A k \in Keys(m) : store'[d][m][k].v >= store[d][m][k].v]_MapVars
=============================================================================
