----------------------------- MODULE SelfGroup -----------------------------
(***************************************************************************)
(* How the devices of one account form the private "self-group" that their *)
(* buddy list rides on: ensureSelfGroup and healNewSibling of the user     *)
(* interface (client/src/app.ts), the founding mint, the Welcome outbox,   *)
(* onWelcome and the choice of the canonical group in                      *)
(* client/src/groupchannel.ts.                                             *)
(*                                                                         *)
(* Devices are numbered in the order of their keys; the lowest authorised  *)
(* one is the designated minter, the others mint when a fallback window    *)
(* passes.  A group id is random: a mint takes any unused number.  A       *)
(* group's roster is one value for all its members; how its commits race   *)
(* is GroupCommit's subject.                                               *)
(***************************************************************************)
EXTENDS Integers, FiniteSets, FiniteSetsExt

CONSTANTS
    Device,        \* the account's devices, numbered by key
    GroupId,       \* ids a mint may draw
    FailureLimit,  \* SELF_MINT_MAX_FAILURES
    AttemptLimit,  \* WELCOME_OUTBOX_MAX_ATTEMPTS
    MaxSelfFault   \* bound: directory calls that fail or return nothing, sockets
                   \* dialled again, page reloads and Welcomes the gateway forgets

ASSUME SelfGroupAssumption ==
    /\ Device \subseteq Nat \ {0} /\ Device # {} /\ IsFiniteSet(Device)
    /\ GroupId \subseteq Nat /\ GroupId # {}
    /\ FailureLimit \in Nat \ {0} /\ AttemptLimit \in Nat \ {0}
    /\ MaxSelfFault \in Nat

VARIABLES
    awake,     \* devices that run; the others stay off
    dir,       \* authorised devices of the account's directory
    roster,    \* members of each group, {} while the id is unused
    minter,    \* the device that minted the group, 0 for a legacy one
    held,      \* groups in a device's sessions
    sealed,    \* groups in its sealed blob
    mail,      \* Welcomes the gateway holds, <<group, device>>
    outbox,    \* a device's welcomeOutbox
    spoke,     \* <<group, device>>: the device has sent a frame to the group
    pass,      \* where the device's ensureSelfGroup pass stands
    claimed,   \* devices whose key packages the pass has claimed
    window,    \* selfMintDeferredSince: "none", "open" or "over"
    fallback,  \* selfMintFallbackTimer is armed
    failures,  \* selfMintFailures
    torn,      \* devices that lost a group they had not sealed
    forgot,    \* the gateway has forgotten a Welcome
    faults

SelfVars == <<awake, dir, roster, minter, held, sealed, mail, outbox, spoke, pass,
              claimed, window, fallback, failures, torn, forgot, faults>>
mint == <<roster, minter>>
wires == <<mail, spoke>>
timers == <<window, fallback, failures>>
selfBounds == <<torn, forgot, faults>>

-----------------------------------------------------------------------------
Minted == {g \in GroupId : roster[g] # {}}

\* Every leaf of a minted group is certified; a legacy group predates certificates.
Strict(g) == minter[g] # 0

Populated(g) == Cardinality(roster[g]) > 1

\* Mutant: the order does not look at certificates.
Better_NoStrict(g, h) ==
    \/ Populated(g) /\ ~Populated(h)
    \/ /\ Populated(g) = Populated(h)
       /\ \/ Cardinality(roster[g]) > Cardinality(roster[h])
          \/ Cardinality(roster[g]) = Cardinality(roster[h]) /\ g < h

\* selfSessionBest: populated, then strict, then the larger roster, then the lower id.
Better(g, h) ==
    \/ Populated(g) /\ ~Populated(h)
    \/ /\ Populated(g) = Populated(h)
       /\ \/ Strict(g) /\ ~Strict(h)
          \/ /\ Strict(g) = Strict(h)
             /\ \/ Cardinality(roster[g]) > Cardinality(roster[h])
                \/ Cardinality(roster[g]) = Cardinality(roster[h]) /\ g < h

Best(d) == {g \in held[d] : \A h \in held[d] \ {g} : Better(g, h)}

\* selfGroupSuffices and not selfGroupNeedsCertifiedReplacement, on a device that holds the
\* account key and a certificate, as every device here does.  (Without the key any best group
\* suffices, since the device cannot mint; with a credential from before certificates it
\* does too, since a replacement would be no better.)
HasSelfGroup(d) == \E g \in Best(d) : Strict(g)

\* selfSiblingState: the new device is on the roster of a self-group this one holds.
SiblingMember(d, e) == \E g \in held[d] : e \in roster[g]

Designated(d) == d = Min(dir)

\* takeKeys: one package of each sibling that has one published, perhaps of none.
TakeKeys(d) == SUBSET (dir \ {d})

\* createSelf and createSelfGroup: d founds group g with the claimed siblings.
Found(d, g, siblings) ==
    /\ roster' = [roster EXCEPT ![g] = {d} \cup siblings]
    /\ minter' = [minter EXCEPT ![g] = d]
    /\ held' = [held EXCEPT ![d] = @ \cup {g}]

\* PendingWelcome: a Welcome its sender remembers, with the times it was sent again.
PendingWelcome(g, e) == [group |-> g, to |-> e, n |-> 0]

Fault == faults < MaxSelfFault /\ faults' = faults + 1

\* Init: nobody has a group, or all devices hold one from before certificates.
SelfInit ==
    /\ awake \in (SUBSET Device) \ {{}}
    /\ \E legacy \in BOOLEAN :
        /\ dir = IF legacy THEN Device ELSE {Min(awake)}
        /\ roster = [g \in GroupId |-> IF legacy /\ g = Min(GroupId) THEN Device ELSE {}]
        /\ held = [d \in Device |-> IF legacy THEN {Min(GroupId)} ELSE {}]
    /\ minter = [g \in GroupId |-> 0]
    /\ sealed = held
    /\ mail = {} /\ spoke = {}
    /\ outbox = [d \in Device |-> {}]
    /\ pass = [d \in Device |-> "idle"]
    /\ claimed = [d \in Device |-> {}]
    /\ window = [d \in Device |-> "none"]
    /\ fallback = [d \in Device |-> FALSE]
    /\ failures = [d \in Device |-> 0]
    /\ torn = {} /\ forgot = FALSE /\ faults = 0

-----------------------------------------------------------------------------
(* The pass.  ensuringSelfGroup lets one run at a time on a device.         *)

\* A connection event, a roster change or a learned sibling starts a pass; the last
\* two also forget the failures.
EnsureSelfGroup(d) ==
    /\ d \in dir /\ pass[d] = "idle"
    /\ pass' = [pass EXCEPT ![d] = "list"]
    /\ failures' \in {failures, [failures EXCEPT ![d] = 0]}
    /\ UNCHANGED <<awake, dir, mint, held, sealed, wires, outbox, claimed, window, fallback, selfBounds>>

EndPass(d) == pass' = [pass EXCEPT ![d] = "idle"]

\* account.listDevices answers with an error: the pass just ends.
ListFails(d) ==
    /\ pass[d] = "list"
    /\ Fault
    /\ EndPass(d)
    /\ UNCHANGED <<awake, dir, mint, held, sealed, wires, outbox, claimed, timers, torn, forgot>>

\* The only device of the account opens Note to Self: a group of its own.
ListAlone(d) ==
    /\ pass[d] = "list" /\ Cardinality(dir) < 2
    /\ EndPass(d)
    /\ IF HasSelfGroup(d)
       THEN UNCHANGED <<mint, held, sealed>>
       ELSE \E g \in GroupId \ Minted :
              /\ Found(d, g, {})
              /\ sealed' = [sealed EXCEPT ![d] = held[d] \cup {g}]
    /\ UNCHANGED <<awake, dir, wires, outbox, claimed, timers, selfBounds>>

\* A group exists: the fallback is disarmed and the failures forgotten.
ListHeld(d) ==
    /\ pass[d] = "list" /\ Cardinality(dir) >= 2 /\ HasSelfGroup(d)
    /\ EndPass(d)
    /\ window' = [window EXCEPT ![d] = "none"]
    /\ fallback' = [fallback EXCEPT ![d] = FALSE]
    /\ failures' = [failures EXCEPT ![d] = 0]
    /\ UNCHANGED <<awake, dir, mint, held, sealed, wires, outbox, claimed, selfBounds>>

\* Another device is the designated minter: its window opens, or is still open.
ListDefer(d) ==
    /\ pass[d] = "list" /\ Cardinality(dir) >= 2 /\ ~HasSelfGroup(d)
    /\ ~Designated(d) /\ window[d] # "over"
    /\ EndPass(d)
    /\ window' = [window EXCEPT ![d] = "open"]
    /\ fallback' = [fallback EXCEPT ![d] = @ \/ window[d] = "none"]
    /\ UNCHANGED <<awake, dir, mint, held, sealed, wires, outbox, claimed, failures, selfBounds>>

\* This device mints: it goes on to claim key packages, unless it has given up.
ListMint(d) ==
    /\ pass[d] = "list" /\ Cardinality(dir) >= 2 /\ ~HasSelfGroup(d)
    /\ Designated(d) \/ window[d] = "over"
    /\ IF failures[d] >= FailureLimit
       THEN EndPass(d) /\ UNCHANGED window
       ELSE /\ pass' = [pass EXCEPT ![d] = "claim"]
            /\ window' = [window EXCEPT ![d] = "none"]
    /\ UNCHANGED <<awake, dir, mint, held, sealed, wires, outbox, claimed, fallback, failures, selfBounds>>

\* takeKeys returns the siblings that have a package published, or nothing.
Claim(d) ==
    /\ pass[d] = "claim"
    /\ \E S \in TakeKeys(d) :
        /\ claimed' = [claimed EXCEPT ![d] = S]
        /\ IF S = {}
           THEN /\ Fault
                /\ failures' = [failures EXCEPT ![d] = @ + 1]
                /\ EndPass(d)
           ELSE /\ pass' = [pass EXCEPT ![d] = "mint"]
                /\ UNCHANGED <<faults, failures>>
    /\ UNCHANGED <<awake, dir, mint, held, sealed, wires, outbox, window, fallback, torn, forgot>>

\* createSelfGroup: a Welcome that arrived meanwhile settles it; otherwise the group
\* is made, each sibling's Welcome published and remembered, before anything is sealed.
CreateSelfGroup(d) ==
    /\ pass[d] = "mint"
    /\ IF HasSelfGroup(d)
       THEN /\ EndPass(d)
            /\ failures' = [failures EXCEPT ![d] = 0]
            /\ UNCHANGED <<mint, held, mail, outbox>>
       ELSE \E g \in GroupId \ Minted :
            /\ Found(d, g, claimed[d])
            /\ mail' = mail \cup ({g} \X claimed[d])
            /\ outbox' = [outbox EXCEPT ![d] = @ \cup {PendingWelcome(g, e) : e \in claimed[d]}]
            /\ pass' = [pass EXCEPT ![d] = "seal"]
            /\ UNCHANGED failures
    /\ UNCHANGED <<awake, dir, sealed, spoke, claimed, window, fallback, selfBounds>>

\* No claimed package is certified: createSelfGroup throws.
CreateThrows(d) ==
    /\ pass[d] = "mint" /\ ~HasSelfGroup(d)
    /\ Fault
    /\ failures' = [failures EXCEPT ![d] = @ + 1]
    /\ EndPass(d)
    /\ UNCHANGED <<awake, dir, mint, held, sealed, wires, outbox, claimed, window, fallback, torn, forgot>>

\* The reseal that ends createSelfGroup, then the founder's first control frames.
SealMint(d) ==
    /\ pass[d] = "seal"
    /\ sealed' = [sealed EXCEPT ![d] = held[d]]
    /\ spoke' = spoke \cup {<<g, d>> : g \in {h \in held[d] \ sealed[d] : minter[h] = d}}
    /\ failures' = [failures EXCEPT ![d] = 0]
    /\ EndPass(d)
    /\ UNCHANGED <<awake, dir, mint, held, mail, outbox, claimed, window, fallback, selfBounds>>

\* SELF_MINT_FALLBACK_MS pass; the timer, which adds a jitter, fires no sooner.
WindowPasses(d) ==
    /\ window[d] = "open"
    /\ window' = [window EXCEPT ![d] = "over"]
    /\ UNCHANGED <<awake, dir, mint, held, sealed, wires, outbox, pass, claimed, fallback, failures, selfBounds>>

\* The timer starts a pass; one already under way makes it a no-op.
FallbackFires(d) ==
    /\ fallback[d] /\ window[d] # "open"
    /\ fallback' = [fallback EXCEPT ![d] = FALSE]
    /\ pass' = [pass EXCEPT ![d] = IF @ = "idle" THEN "list" ELSE @]
    /\ UNCHANGED <<awake, dir, mint, held, sealed, wires, outbox, claimed, window, failures, selfBounds>>

-----------------------------------------------------------------------------
(* Welcomes, siblings and faults.                                           *)

\* Mutant: a device that has a self-group joins no other.
OnWelcome_First(d, g) ==
    /\ <<g, d>> \in mail
    /\ mail' = mail \ {<<g, d>>}
    /\ held' = [held EXCEPT ![d] = IF HasSelfGroup(d) THEN @ ELSE @ \cup {g}]
    /\ spoke' = IF g \in held'[d] \ held[d] THEN spoke \cup {<<g, d>>} ELSE spoke
    /\ UNCHANGED <<awake, dir, mint, sealed, outbox, pass, claimed, timers, selfBounds>>

\* onWelcome of a self-group: the session is added and the Welcome acked; the
\* reseal is only started.  A Welcome for a held group is acked away.
OnWelcome(d, g) ==
    /\ <<g, d>> \in mail
    /\ mail' = mail \ {<<g, d>>}
    /\ held' = [held EXCEPT ![d] = @ \cup {g}]
    /\ spoke' = IF g \in held[d] THEN spoke ELSE spoke \cup {<<g, d>>}
    /\ UNCHANGED <<awake, dir, mint, sealed, outbox, pass, claimed, timers, selfBounds>>

\* A resealSelf started by onWelcome finishes.
ResealJoined(d) ==
    /\ pass[d] # "seal" /\ sealed[d] # held[d]
    /\ sealed' = [sealed EXCEPT ![d] = held[d]]
    /\ UNCHANGED <<awake, dir, mint, held, wires, outbox, pass, claimed, timers, selfBounds>>

\* A group frame decrypts: every remembered Welcome of that group is retired.
RetireWelcomes(d, g) ==
    /\ g \in held[d] /\ \E e \in Device \ {d} : <<g, e>> \in spoke
    /\ \E x \in outbox[d] : x.group = g
    /\ outbox' = [outbox EXCEPT ![d] = {x \in @ : x.group # g}]
    /\ UNCHANGED <<awake, dir, mint, held, sealed, wires, pass, claimed, timers, selfBounds>>

\* A paired device enters the directory.
Authorize(e) ==
    /\ e \in Device \ dir
    /\ dir' = dir \cup {e}
    /\ UNCHANGED <<awake, mint, held, sealed, wires, outbox, pass, claimed, timers, selfBounds>>

\* reconcileSiblings or a heal tick brings a missing sibling into a held group
\* (the staged commit and its confirmation are GroupCommit's).
AddSibling(d, g, e) ==
    /\ g \in held[d] /\ e \in dir \ roster[g]
    /\ roster' = [roster EXCEPT ![g] = @ \cup {e}]
    /\ mail' = mail \cup {<<g, e>>}
    /\ spoke' = spoke \cup {<<g, d>>}
    /\ sealed' = [sealed EXCEPT ![d] = held[d]]
    /\ UNCHANGED <<awake, dir, minter, held, outbox, pass, claimed, timers, selfBounds>>

\* replayWelcomeOutbox: an entry is dropped when its target is on the roster of our
\* canonical group or it has been sent too often; the rest are published again.
Replay(d, groups) ==
    LET best == {g \in groups : \A h \in groups \ {g} : Better(g, h)}
        settled == UNION {roster[g] : g \in best}
    IN  {[x EXCEPT !.n = @ + 1] : x \in {y \in outbox[d] : y.to \notin settled /\ y.n < AttemptLimit}}

\* connectGateway, between worker operations: the sessions are rebuilt from the
\* sealed blob, the outbox is replayed, the canonical group gets our state again.
Reconnect(d) ==
    /\ pass[d] # "seal"
    /\ Fault
    /\ held' = [held EXCEPT ![d] = sealed[d]]
    /\ torn' = IF held[d] = sealed[d] THEN torn ELSE torn \cup {d}
    /\ outbox' = [outbox EXCEPT ![d] = Replay(d, sealed[d])]
    /\ mail' = mail \cup {<<x.group, x.to>> : x \in outbox'[d]}
    /\ spoke' = spoke \cup {<<g, d>> : g \in {h \in sealed[d] : \A k \in sealed[d] \ {h} : Better(h, k)}}
    /\ UNCHANGED <<awake, dir, mint, sealed, pass, claimed, timers, forgot>>

\* The page is closed at any point and opened again.
Reload(d) ==
    /\ Fault
    /\ held' = [held EXCEPT ![d] = sealed[d]]
    /\ torn' = IF held[d] = sealed[d] THEN torn ELSE torn \cup {d}
    /\ outbox' = [outbox EXCEPT ![d] = Replay(d, sealed[d])]
    /\ mail' = mail \cup {<<x.group, x.to>> : x \in outbox'[d]}
    /\ pass' = [pass EXCEPT ![d] = "idle"]
    /\ claimed' = [claimed EXCEPT ![d] = {}]
    /\ window' = [window EXCEPT ![d] = "none"]
    /\ fallback' = [fallback EXCEPT ![d] = FALSE]
    /\ failures' = [failures EXCEPT ![d] = 0]
    /\ UNCHANGED <<awake, dir, mint, sealed, spoke, forgot>>

\* The gateway restarts or the Welcome outlives its day there.
LoseWelcome(w) ==
    /\ w \in mail
    /\ Fault
    /\ mail' = mail \ {w}
    /\ forgot' = TRUE
    /\ UNCHANGED <<awake, dir, mint, held, sealed, spoke, outbox, pass, claimed, timers, torn>>

-----------------------------------------------------------------------------
(* What a running device does by itself. *)
PassStep(d) ==
    /\ d \in awake
    /\ \/ ListAlone(d) \/ ListHeld(d) \/ ListDefer(d) \/ ListMint(d)
       \/ Claim(d) \/ CreateSelfGroup(d) \/ SealMint(d)
TimerStep(d) == d \in awake /\ (WindowPasses(d) \/ FallbackFires(d))
FrameStep(d) == d \in awake /\ (ResealJoined(d) \/ \E g \in GroupId : RetireWelcomes(d, g))
WelcomeStep(d) == d \in awake /\ \E g \in GroupId : OnWelcome(d, g)
HealStep(d) == d \in awake /\ \E g \in GroupId, e \in Device : AddSibling(d, g, e)
TriggerStep(d) == d \in awake /\ EnsureSelfGroup(d)

SelfNext ==
    \/ \E d \in Device : \/ PassStep(d) \/ TimerStep(d) \/ FrameStep(d) \/ WelcomeStep(d)
                         \/ HealStep(d) \/ TriggerStep(d)
    \/ \E d \in awake : ListFails(d) \/ CreateThrows(d) \/ Reconnect(d) \/ Reload(d)
    \/ \E e \in Device : Authorize(e)
    \/ \E w \in mail : LoseWelcome(w)

\* Connection events recur, timers fire, the worker runs what it is given and the
\* gateway delivers what it holds; nothing is assumed of the directory or of faults.
SelfFairness ==
    \A d \in Device :
        /\ WF_SelfVars(PassStep(d)) /\ WF_SelfVars(TimerStep(d))
        /\ WF_SelfVars(FrameStep(d)) /\ WF_SelfVars(WelcomeStep(d))
        /\ WF_SelfVars(HealStep(d)) /\ WF_SelfVars(TriggerStep(d))

SelfSpec == SelfInit /\ [][SelfNext]_SelfVars /\ SelfFairness

-----------------------------------------------------------------------------
(* Properties. *)

\* Type correctness; a device holds, and seals, only groups it is a member of.
SelfTypeOK ==
    /\ awake \subseteq Device /\ dir \subseteq Device
    /\ roster \in [GroupId -> SUBSET Device] /\ minter \in [GroupId -> Device \cup {0}]
    /\ held \in [Device -> SUBSET Minted] /\ sealed \in [Device -> SUBSET Minted]
    /\ \A d \in Device : \A g \in held[d] \cup sealed[d] : d \in roster[g]
    /\ mail \subseteq GroupId \X Device /\ spoke \subseteq GroupId \X Device
    /\ \A d \in Device : outbox[d] \subseteq [group : GroupId, to : Device, n : 0..AttemptLimit]
    /\ pass \in [Device -> {"idle", "list", "claim", "mint", "seal"}]
    /\ claimed \in [Device -> SUBSET Device]
    /\ window \in [Device -> {"none", "open", "over"}]
    /\ fallback \in [Device -> BOOLEAN] /\ failures \in [Device -> 0..FailureLimit]
    /\ torn \subseteq Device /\ forgot \in BOOLEAN /\ faults \in 0..MaxSelfFault

\* A device that never lost an unsealed group mints at most once, whatever Welcomes
\* arrive between its listing, its claim and its mint (createSelfGroup checks again).
MintOnce ==
    \A d \in Device \ torn : Cardinality({g \in GroupId : minter[g] = d}) <= 1

\* The canonical group of two running devices of the account is the same.
SameGroup ==
    \A d, e \in awake \cap dir : Best(d) # {} /\ Best(d) = Best(e)

\* However many devices mint at once, the running devices of the account end on one
\* canonical group, as long as no reload tore a group from a device before it was
\* sealed, the gateway forgot no Welcome and no device has given up minting
\* (selfSessionBest, reconcileSiblings, SELF_MINT_MAX_FAILURES).
Canonical ==
    <>[](torn = {} /\ ~forgot /\ (\A d \in Device : failures[d] < FailureLimit) => SameGroup)

\* A remembered Welcome leaves the outbox only when its target has been heard in that
\* group or the attempts are exhausted (the rule stated above retireWelcomes' call).
UnprovenWelcomeKept ==
    [][\A d \in Device : \A x \in outbox[d] :
          \/ \E y \in outbox'[d] : y.group = x.group /\ y.to = x.to
          \/ <<x.group, x.to>> \in spoke
          \/ x.n >= AttemptLimit]_SelfVars
=============================================================================
