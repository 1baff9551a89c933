--------------------------- MODULE AccountProofs ---------------------------
(***************************************************************************)
(* What holds of the devices of one account whatever their number, and     *)
(* however often they pair, reconnect and reload: the pairing timers       *)
(* (Pairing) and the mint of the private group (SelfGroup).                *)
(***************************************************************************)
EXTENDS Pairing, SelfGroup, FiniteSetTheorems, WellFoundedInduction, TLAPS

-----------------------------------------------------------------------------
(* Pairing. *)

\* While a code's mailbox is derived its secret is the one in memory and no other
\* code is on the screen; so the code that is then shown is the one that opens.
TimerInv ==
    /\ windows \in Nat /\ attempts \in Nat /\ nQrTimer \in BOOLEAN
    /\ hRole = "seedholder" => hHandle # 0 /\ hHandle \in hTimers
    /\ nRole = "newdevice-qr" => nQrTimer /\ nSecret = nQrBox
    /\ nMaking # 0 => nSecret = nMaking /\ nRole # "newdevice-qr"

\* A step of the holder keeps the window's timer armed while the window is open.
LEMMA HolderKeepsTimer ==
    ASSUME TimerInv,
           \/ OpenWindow \/ CloseWizard \/ Confirm \/ ConfirmFails \/ HolderReconnects
           \/ GrantScanned \/ (\E r \in requests : OnRequest(r))
           \/ (\E old \in hOld : DroppedTimer(old)) \/ (\E w \in hTimers : WindowTimer(w))
    PROVE  TimerInv'
<1>1. ASSUME OpenWindow PROVE TimerInv'
  BY <1>1 DEF OpenWindow, joiner, TimerInv
<1>2. ASSUME UNCHANGED <<hRole, hHandle, hTimers, windows, joiner>> PROVE TimerInv'
  BY <1>2 DEF joiner, TimerInv
<1>3. ASSUME NEW armed, CloseWindow(armed), UNCHANGED <<windows, joiner>>,
             hRole = "seedholder" \/ armed = hTimers
      PROVE  TimerInv'
  BY <1>3 DEF CloseWindow, joiner, TimerInv
<1>4. ASSUME NEW w \in hTimers, WindowTimer(w) PROVE TimerInv'
  BY <1>4 DEF WindowTimer, CloseWindow, joiner, TimerInv
<1>5. ASSUME HolderReconnects PROVE TimerInv'
  BY <1>5 DEF HolderReconnects, joiner, TimerInv
<1>6. ASSUME CloseWizard \/ Confirm PROVE TimerInv'
  BY <1>3, <1>6 DEF CloseWizard, Confirm
<1>7. ASSUME \/ ConfirmFails \/ GrantScanned \/ (\E r \in requests : OnRequest(r))
             \/ (\E old \in hOld : DroppedTimer(old))
      PROVE  TimerInv'
  BY <1>2, <1>7 DEF ConfirmFails, GrantScanned, OnRequest, DroppedTimer
<1> QED BY <1>1, <1>4, <1>5, <1>6, <1>7

\* A step of the new device keeps the code's timer armed while the code is shown.
LEMMA JoinerKeepsTimer ==
    ASSUME TimerInv,
           \/ StartJoin \/ StartQrShow \/ QrShown \/ ExpireQrShow \/ CancelJoin \/ OnChallenge
           \/ (\E g \in grants : OnGrant(g)) \/ OnQrGrant \/ Authorized \/ FinishEnrollment
           \/ RetryEnrollment \/ JoinerReconnects \/ JoinerReloads
    PROVE  TimerInv'
<1>1. UNCHANGED <<windows, hRole, hHandle, hTimers>>
  BY DEF StartJoin, StartQrShow, QrShown, ExpireQrShow, CancelJoin, OnChallenge, OnGrant, OnQrGrant,
         Authorized, FinishEnrollment, RetryEnrollment, JoinerReconnects, JoinerReloads, holder
<1>2. ASSUME StartJoin PROVE TimerInv'
  <2>1. /\ nQrTimer' = FALSE /\ nRole' = "newdevice" /\ nMaking = 0 /\ nMaking' = nMaking
        /\ attempts' = attempts + 1
    BY <1>2 DEF StartJoin, NoQrTimer
  <2>2. attempts' \in Nat
    BY <2>1 DEF TimerInv
  <2> QED BY <1>1, <2>1, <2>2 DEF TimerInv
<1>3. ASSUME StartQrShow PROVE TimerInv'
  <2>1. /\ nQrTimer' = FALSE /\ nRole' # "newdevice-qr" /\ nSecret' = nMaking'
        /\ attempts' = attempts + 1
    BY <1>3 DEF StartQrShow, NoQrTimer
  <2>2. attempts' \in Nat
    BY <2>1 DEF TimerInv
  <2> QED BY <1>1, <2>1, <2>2 DEF TimerInv
<1>4. ASSUME QrShown PROVE TimerInv'
  BY <1>1, <1>4 DEF QrShown, TimerInv
<1>5. ASSUME ExpireQrShow PROVE TimerInv'
  BY <1>1, <1>5 DEF ExpireQrShow, TimerInv
<1>6. ASSUME CancelJoin PROVE TimerInv'
  BY <1>1, <1>6 DEF CancelJoin, NoQrTimer, Unsecret, TimerInv
<1>7. ASSUME NEW g \in grants, OnGrant(g) PROVE TimerInv'
  BY <1>1, <1>7 DEF OnGrant, TimerInv
<1>8. ASSUME OnQrGrant PROVE TimerInv'
  BY <1>1, <1>8 DEF OnQrGrant, NoQrTimer, TimerInv
<1>9. ASSUME JoinerReconnects PROVE TimerInv'
  BY <1>1, <1>9 DEF JoinerReconnects, TimerInv
<1>10. ASSUME JoinerReloads PROVE TimerInv'
  BY <1>1, <1>10 DEF JoinerReloads, TimerInv
<1>11. ASSUME OnChallenge \/ Authorized \/ FinishEnrollment \/ RetryEnrollment PROVE TimerInv'
  BY <1>1, <1>11 DEF OnChallenge, Authorized, FinishEnrollment, RetryEnrollment, TimerInv
<1> QED BY <1>2, <1>3, <1>4, <1>5, <1>6, <1>7, <1>8, <1>9, <1>10, <1>11

\* An open window and a shown code always have a timer left that closes them, for any
\* number of windows, codes, reconnects and reloads.
THEOREM PairingTimersArmed == PairSpec => []LiveHasTimer
<1>1. ASSUME PairInit PROVE TimerInv
  BY <1>1 DEF PairInit, TimerInv
<1>2. ASSUME TimerInv, [PairNext]_PairVars PROVE TimerInv'
  <2>1. CASE UNCHANGED PairVars
    BY <1>2, <2>1 DEF PairVars, holder, joiner, TimerInv
  <2>2. CASE GatewayError \/ ExpireChallenge
    BY <1>2, <2>2 DEF GatewayError, ExpireChallenge, holder, joiner, TimerInv
  <2>3. CASE PairNext /\ ~GatewayError /\ ~ExpireChallenge
    BY <1>2, <2>3, HolderKeepsTimer, JoinerKeepsTimer DEF PairNext, PairTimer, PairDeliver
  <2> QED BY <1>2, <2>1, <2>2, <2>3
<1>3. TimerInv => LiveHasTimer
  BY DEF TimerInv, LiveHasTimer
<1> QED BY <1>1, <1>2, <1>3, PTL DEF PairSpec

-----------------------------------------------------------------------------
(* The private group. *)

\* The groups of a device exist and are finitely many.
SelfTypes ==
    /\ awake \subseteq Device /\ dir \subseteq Device
    /\ roster \in [GroupId -> SUBSET Device] /\ minter \in [GroupId -> Device \cup {0}]
    /\ held \in [Device -> SUBSET GroupId] /\ sealed \in [Device -> SUBSET GroupId]
    /\ pass \in [Device -> {"idle", "list", "claim", "mint", "seal"}]
    /\ claimed \in [Device -> SUBSET Device]
    /\ outbox \in [Device -> SUBSET [group : GroupId, to : Device, n : Nat]]
    /\ mail \subseteq GroupId \X Device
    /\ \A d \in Device : IsFiniteSet(held[d]) /\ IsFiniteSet(sealed[d])

\* Whatever is held, sealed, in the mail or remembered has been minted, and a minted
\* group keeps its members.
KnownIsMinted ==
    /\ \A d \in Device : held[d] \cup sealed[d] \subseteq Minted
    /\ \A w \in mail : w[1] \in Minted
    /\ \A d \in Device : \A x \in outbox[d] : x.group \in Minted
    /\ \A g \in GroupId : minter[g] # 0 => g \in Minted

\* A pass that is about to mint has claimed a sibling.
ClaimsSibling == \A d \in Device : pass[d] = "mint" => claimed[d] \ {d} # {}

\* Next to a group from before certificates, which all devices share, every minted
\* group has two members if there are two devices: certificates alone decide.
LegacyShared ==
    \A m \in Minted : ~Strict(m) =>
        /\ roster[m] = Device /\ dir = Device
        /\ \A g \in GroupId : Strict(g) => Populated(g) \/ Cardinality(Device) < 2

\* A device holds what it minted unless it lost an unsealed group, and minted it once.
MintedOnce ==
    \A d \in Device \ torn : \A g \in GroupId : minter[g] = d =>
        g \in held[d] /\ \A h \in GroupId : minter[h] = d => g = h

MintInv == SelfTypes /\ KnownIsMinted /\ ClaimsSibling /\ LegacyShared /\ MintedOnce

\* The lowest of a set of numbers exists.
LEMMA LeastExists ==
    ASSUME NEW S, S \subseteq Nat, S # {}
    PROVE  Min(S) \in S
<1>1. IsWellFoundedOn({ss \in Nat \X Nat : ss[1] < ss[2]}, Nat)
  BY NatLessThanWellFounded, Zenon DEF OpToRel
<1> DEFINE R == {ss \in Nat \X Nat : ss[1] < ss[2]}
<1> HIDE DEF R
<1>2. PICK x \in S : \A y \in S : ~(<<y, x>> \in R)
  <2>1. IsWellFoundedOn(R, Nat)
    BY <1>1 DEF R
  <2> QED BY <2>1, WFMin
<1>3. ASSUME NEW y \in S PROVE x <= y
  <2>1. x \in Nat /\ y \in Nat /\ ~(<<y, x>> \in R)
    BY <1>2
  <2>2. y < x => <<y, x>> \in R
    BY <2>1 DEF R
  <2> QED BY <2>1, <2>2
<1> QED BY <1>3 DEF Min

\* The choice of the canonical group is a strict total order on group ids.
LEMMA BetterIsOrder ==
    ASSUME NEW g \in GroupId, NEW h \in GroupId, NEW k \in GroupId,
           \A x \in GroupId : Cardinality(roster[x]) \in Nat
    PROVE  /\ g # h => Better(g, h) \/ Better(h, g)
           /\ Better(g, h) /\ Better(h, k) => Better(g, k)
<1>1. g \in Nat /\ h \in Nat /\ k \in Nat
  BY SelfGroupAssumption
<1>2. \A x : Populated(x) \in BOOLEAN /\ Strict(x) \in BOOLEAN
  BY DEF Populated, Strict
<1> DEFINE cg == Cardinality(roster[g])
           ch == Cardinality(roster[h])
           ck == Cardinality(roster[k])
<1>3. cg \in Nat /\ ch \in Nat /\ ck \in Nat
  OBVIOUS
<1>4. g # h => Better(g, h) \/ Better(h, g)
  <2>1. cg > ch \/ ch > cg \/ cg = ch
    BY <1>3
  <2>2. g # h => g < h \/ h < g
    BY <1>1
  <2> QED BY <1>2, <2>1, <2>2 DEF Better
<1>5. ASSUME Better(g, h), Better(h, k) PROVE Better(g, k)
  <2>1. /\ cg > ch /\ ch > ck => cg > ck
        /\ cg > ch /\ ch = ck => cg > ck
        /\ cg = ch /\ ch > ck => cg > ck
        /\ cg = ch /\ ch = ck => cg = ck
    BY <1>3
  <2>2. g < h /\ h < k => g < k
    BY <1>1
  <2> QED BY <1>2, <1>5, <2>1, <2>2 DEF Better
<1> QED BY <1>4, <1>5

\* Among finitely many groups one is the canonical one.
LEMMA CanonicalExists ==
    ASSUME NEW H, H \subseteq GroupId, H # {}, IsFiniteSet(H),
           \A x \in GroupId : Cardinality(roster[x]) \in Nat
    PROVE  \E m \in H : \A h \in H \ {m} : Better(m, h)
<1> DEFINE Has(X) == \E m \in X : \A h \in X \ {m} : Better(m, h)
           R == StrictSubsetOrdering(GroupId)
           F == FiniteSubsetsOf(GroupId)
           T == {X \in F : X # {} /\ ~Has(X)}
<1>1. H \in F
  BY DEF FiniteSubsetsOf
<1>2. CASE T = {}
  <2>1. Has(H)
    BY <1>1, <1>2
  <2> QED BY <2>1
<1>3. CASE T # {}
  <2>1. IsWellFoundedOn(R, F)
    BY FS_StrictSubsetOrderingWellFounded
  <2>2. PICK X \in T : \A Y \in T : ~(<<Y, X>> \in R)
    <3>1. T \subseteq F
      OBVIOUS
    <3> HIDE DEF T, R, F
    <3> QED BY <1>3, <2>1, <3>1, WFMin
  <2>3. X \in F /\ X # {} /\ ~Has(X) /\ X \subseteq GroupId /\ IsFiniteSet(X)
    BY DEF FiniteSubsetsOf
  <2>4. PICK x \in X : TRUE
    BY <2>3
  <2> DEFINE Y == X \ {x}
  <2>5. Y \in F /\ <<Y, X>> \in R
    <3>1. IsFiniteSet(Y)
      BY <2>3, FS_Subset
    <3>2. Y \in SUBSET GroupId /\ X \in SUBSET GroupId /\ Y \subseteq X /\ Y # X
      BY <2>3, <2>4
    <3> QED BY <3>1, <3>2 DEF FiniteSubsetsOf, StrictSubsetOrdering
  <2>6. Y = {} \/ Has(Y)
    BY <2>2, <2>5
  <2>7. CASE Y = {}
    BY <2>3, <2>4, <2>7
  <2>8. CASE Has(Y)
    <3>1. PICK m \in Y : \A h \in Y \ {m} : Better(m, h)
      BY <2>8
    <3>2. m \in GroupId /\ x \in GroupId /\ m # x /\ m \in X
      BY <2>3, <2>4, <3>1
    <3>3. CASE Better(m, x)
      <4>1. \A h \in X \ {m} : Better(m, h)
        BY <3>1, <3>3
      <4> QED BY <2>3, <3>2, <4>1
    <3>4. CASE Better(x, m)
      <4>1. \A h \in X \ {x} : Better(x, h)
        BY <2>3, <3>1, <3>2, <3>4, BetterIsOrder
      <4> QED BY <2>3, <4>1
    <3> QED BY <3>2, <3>3, <3>4, BetterIsOrder
  <2> QED BY <2>6, <2>7, <2>8
<1> QED BY <1>2, <1>3

\* The members of a group are finitely many.
LEMMA RosterFinite ==
    ASSUME SelfTypes, NEW g \in GroupId
    PROVE  IsFiniteSet(roster[g]) /\ Cardinality(roster[g]) \in Nat
           /\ Cardinality(roster[g]) <= Cardinality(Device) /\ roster[g] \subseteq Device
<1>1. roster[g] \subseteq Device /\ IsFiniteSet(Device)
  BY SelfGroupAssumption DEF SelfTypes
<1>2. IsFiniteSet(roster[g]) /\ Cardinality(roster[g]) <= Cardinality(Device)
  BY <1>1, FS_Subset
<1> QED BY <1>1, <1>2, FS_CardinalityType

\* A device that still holds a group it minted has a self-group.
LEMMA MinterHasGroup ==
    ASSUME MintInv, NEW d \in Device, NEW h \in held[d], Strict(h)
    PROVE  HasSelfGroup(d)
<1>1. held[d] \subseteq GroupId /\ held[d] # {} /\ IsFiniteSet(held[d]) /\ h \in GroupId
  BY DEF MintInv, SelfTypes
<1>2. \A x \in GroupId : Cardinality(roster[x]) \in Nat
  BY RosterFinite DEF MintInv
<1>3. PICK m \in held[d] : \A k \in held[d] \ {m} : Better(m, k)
  BY <1>1, <1>2, CanonicalExists
<1>4. Strict(m)
  <2> SUFFICES ASSUME ~Strict(m) PROVE FALSE
    OBVIOUS
  <2>1. m \in Minted /\ m \in GroupId /\ m # h
    BY <1>1 DEF MintInv, KnownIsMinted
  <2>2. Better(m, h)
    BY <1>3, <2>1
  <2>3. Populated(m) /\ ~Populated(h)
    BY <2>2 DEF Better
  <2>4. roster[m] = Device /\ (Populated(h) \/ Cardinality(Device) < 2)
    BY <1>1, <2>1 DEF MintInv, LegacyShared
  <2>5. Cardinality(Device) \in Nat
    BY SelfGroupAssumption, FS_CardinalityType
  <2> QED BY <2>3, <2>4, <2>5 DEF Populated
<1> QED BY <1>3, <1>4 DEF HasSelfGroup, Best

\* A step that moves no group between sets, and no device in or out, keeps the invariant.
LEMMA GroupsUntouched ==
    ASSUME MintInv, UNCHANGED <<awake, dir, roster, minter, held, sealed, torn>>,
           pass' \in [Device -> {"idle", "list", "claim", "mint", "seal"}],
           claimed' \in [Device -> SUBSET Device], ClaimsSibling',
           mail' \subseteq mail, outbox' \in [Device -> SUBSET [group : GroupId, to : Device, n : Nat]],
           \A d \in Device : outbox'[d] \subseteq outbox[d]
    PROVE  MintInv'
<1>1. SelfTypes'
  BY DEF MintInv, SelfTypes
<1>2. Minted' = Minted
  BY DEF Minted
<1>3. KnownIsMinted'
  BY <1>2 DEF MintInv, KnownIsMinted
<1>4. LegacyShared'
  BY <1>2 DEF MintInv, LegacyShared, Strict, Populated
<1>5. MintedOnce'
  BY DEF MintInv, MintedOnce
<1> QED BY <1>1, <1>3, <1>4, <1>5 DEF MintInv

\* Steps of a pass and of its timers that found no group.
LEMMA PassKeeps ==
    ASSUME MintInv, NEW d \in Device,
           \/ EnsureSelfGroup(d) \/ ListFails(d) \/ (ListAlone(d) /\ HasSelfGroup(d)) \/ ListHeld(d)
           \/ ListDefer(d) \/ ListMint(d) \/ Claim(d) \/ (CreateSelfGroup(d) /\ HasSelfGroup(d))
           \/ CreateThrows(d) \/ WindowPasses(d) \/ FallbackFires(d)
    PROVE  MintInv'
<1>1. /\ pass \in [Device -> {"idle", "list", "claim", "mint", "seal"}]
      /\ claimed \in [Device -> SUBSET Device]
      /\ outbox \in [Device -> SUBSET [group : GroupId, to : Device, n : Nat]]
      /\ ClaimsSibling /\ dir \subseteq Device
  BY DEF MintInv, SelfTypes
<1>2. UNCHANGED <<awake, dir, roster, minter, held, sealed, torn, mail, outbox>>
  BY DEF EnsureSelfGroup, ListFails, ListAlone, ListHeld, ListDefer, ListMint, Claim, CreateSelfGroup,
         CreateThrows, WindowPasses, FallbackFires, mint, wires, selfBounds
<1>3. ASSUME ~Claim(d) PROVE claimed' = claimed /\ (pass' = pass \/ \E q \in {"idle", "list", "claim"} : pass' = [pass EXCEPT ![d] = q])
  <2>1. claimed' = claimed
    BY <1>3 DEF EnsureSelfGroup, ListFails, ListAlone, ListHeld, ListDefer, ListMint, CreateSelfGroup,
         CreateThrows, WindowPasses, FallbackFires
  <2>2. ASSUME FallbackFires(d) PROVE pass' = pass \/ pass' = [pass EXCEPT ![d] = "list"]
    <3>1. pass[d] # "idle" => [pass EXCEPT ![d] = pass[d]] = pass
      BY <1>1
    <3> QED BY <2>2, <3>1 DEF FallbackFires
  <2>3. ASSUME ~FallbackFires(d)
        PROVE  pass' = pass \/ \E q \in {"idle", "list", "claim"} : pass' = [pass EXCEPT ![d] = q]
    BY <1>3, <2>3 DEF EnsureSelfGroup, ListFails, ListAlone, ListHeld, ListDefer, ListMint,
         CreateSelfGroup, CreateThrows, WindowPasses, EndPass
  <2> QED BY <2>1, <2>2, <2>3
<1>4. ASSUME Claim(d)
      PROVE  \E S \in SUBSET (Device \ {d}), q \in {"idle", "mint"} :
               /\ claimed' = [claimed EXCEPT ![d] = S] /\ pass' = [pass EXCEPT ![d] = q]
               /\ q = "mint" => S # {}
  BY <1>1, <1>4 DEF Claim, TakeKeys, EndPass
<1>5. /\ pass' \in [Device -> {"idle", "list", "claim", "mint", "seal"}]
      /\ claimed' \in [Device -> SUBSET Device] /\ ClaimsSibling'
  <2>1. CASE Claim(d)
    <3>1. PICK S \in SUBSET (Device \ {d}), q \in {"idle", "mint"} :
               /\ claimed' = [claimed EXCEPT ![d] = S] /\ pass' = [pass EXCEPT ![d] = q]
               /\ q = "mint" => S # {}
      BY <1>4, <2>1
    <3>2. S \ {d} = S
      OBVIOUS
    <3> QED BY <1>1, <3>1, <3>2 DEF ClaimsSibling
  <2>2. CASE ~Claim(d)
    BY <1>1, <1>3, <2>2 DEF ClaimsSibling
  <2> QED BY <2>1, <2>2
<1> QED BY <1>1, <1>2, <1>5, GroupsUntouched

\* Founding a group keeps the invariant: whoever founds holds nothing it minted.
LEMMA FoundingKeeps ==
    ASSUME MintInv, NEW d \in Device,
           \/ ListAlone(d) /\ ~HasSelfGroup(d)
           \/ CreateSelfGroup(d) /\ ~HasSelfGroup(d)
    PROVE  MintInv'
<1>1. PICK g \in GroupId \ Minted, S \in SUBSET Device :
        /\ Found(d, g, S) /\ UNCHANGED <<awake, dir, claimed, torn>>
        /\ sealed' = sealed \/ sealed' = [sealed EXCEPT ![d] = held[d] \cup {g}]
        /\ \E q \in {"idle", "seal"} : pass' = [pass EXCEPT ![d] = q]
        /\ mail' = mail \/ mail' = mail \cup ({g} \X S)
        /\ outbox' = outbox \/ outbox' = [outbox EXCEPT ![d] = @ \cup {PendingWelcome(g, e) : e \in S}]
        /\ S \ {d} # {} \/ Cardinality(dir) < 2
  <2>1. CASE ListAlone(d) /\ ~HasSelfGroup(d)
    BY <2>1 DEF ListAlone, wires, selfBounds, EndPass
  <2>2. CASE CreateSelfGroup(d) /\ ~HasSelfGroup(d)
    <3>1. claimed[d] \in SUBSET Device /\ claimed[d] \ {d} # {}
      BY <2>2 DEF CreateSelfGroup, MintInv, ClaimsSibling, SelfTypes
    <3> QED BY <2>2, <3>1 DEF CreateSelfGroup, selfBounds
  <2> QED BY <2>1, <2>2
<1>2. /\ roster' = [roster EXCEPT ![g] = {d} \cup S] /\ minter' = [minter EXCEPT ![g] = d]
      /\ held' = [held EXCEPT ![d] = held[d] \cup {g}]
  BY <1>1 DEF Found
<1>3. SelfTypes /\ g \in GroupId /\ roster[g] = {} /\ d # 0 /\ IsFiniteSet(Device) /\ 0 \notin Device
  BY <1>1, SelfGroupAssumption DEF MintInv, Minted
<1>4. ~HasSelfGroup(d)
  OBVIOUS
<1>5. Minted' = Minted \cup {g}
  BY <1>2, <1>3 DEF Minted, SelfTypes
<1>6. minter[g] = 0 /\ \A x \in Minted : x # g
  BY <1>1, <1>3 DEF MintInv, KnownIsMinted
<1>7. SelfTypes'
  <2>1. IsFiniteSet(held[d] \cup {g})
    BY <1>3, FS_AddElement DEF SelfTypes
  <2>2. \A e \in Device : IsFiniteSet(held'[e]) /\ IsFiniteSet(sealed'[e])
    BY <1>1, <1>2, <1>3, <2>1 DEF SelfTypes
  <2>3. held' \in [Device -> SUBSET GroupId] /\ sealed' \in [Device -> SUBSET GroupId]
    BY <1>1, <1>2, <1>3 DEF SelfTypes
  <2>4. roster' \in [GroupId -> SUBSET Device] /\ minter' \in [GroupId -> Device \cup {0}]
    BY <1>1, <1>2, <1>3 DEF SelfTypes
  <2>5. mail' \subseteq GroupId \X Device
    BY <1>1, <1>3 DEF SelfTypes
  <2>6. {PendingWelcome(g, e) : e \in S} \subseteq [group : GroupId, to : Device, n : Nat]
    BY <1>1 DEF PendingWelcome
  <2>7. outbox' \in [Device -> SUBSET [group : GroupId, to : Device, n : Nat]]
    BY <1>1, <1>3, <2>6 DEF SelfTypes
  <2>8. pass' \in [Device -> {"idle", "list", "claim", "mint", "seal"}]
    BY <1>1, <1>3 DEF SelfTypes
  <2> QED BY <1>1, <1>3, <2>2, <2>3, <2>4, <2>5, <2>7, <2>8 DEF SelfTypes
<1>8. KnownIsMinted'
  <2>1. KnownIsMinted /\ SelfTypes
    BY DEF MintInv
  <2>2. \A e \in Device : held'[e] \cup sealed'[e] \subseteq Minted'
    BY <1>1, <1>2, <1>5, <2>1 DEF KnownIsMinted, SelfTypes
  <2>3. \A w \in mail' : w[1] \in Minted'
    <3>1. \A w \in {g} \X S : w[1] = g
      OBVIOUS
    <3> QED BY <1>1, <1>5, <2>1, <3>1 DEF KnownIsMinted
  <2>4. \A e \in Device : \A x \in outbox'[e] : x.group \in Minted'
    <3>1. \A x \in {PendingWelcome(g, e) : e \in S} : x.group = g
      BY DEF PendingWelcome
    <3> QED BY <1>1, <1>5, <2>1, <3>1 DEF KnownIsMinted, SelfTypes
  <2>5. \A x \in GroupId : minter'[x] # 0 => x \in Minted'
    BY <1>2, <1>5, <2>1 DEF KnownIsMinted, SelfTypes
  <2> QED BY <2>2, <2>3, <2>4, <2>5 DEF KnownIsMinted
<1>9. ClaimsSibling'
  BY <1>1 DEF MintInv, ClaimsSibling, SelfTypes
<1>10. LegacyShared'
  <2> SUFFICES ASSUME NEW m \in Minted', ~Strict(m)'
               PROVE  /\ roster'[m] = Device /\ dir' = Device
                      /\ \A x \in GroupId : Strict(x)' => Populated(x)' \/ Cardinality(Device) < 2
    BY DEF LegacyShared
  <2>1. m # g /\ m \in Minted /\ ~Strict(m) /\ m \in GroupId
    BY <1>2, <1>3, <1>5 DEF Strict, SelfTypes, Minted
  <2>2. /\ roster[m] = Device /\ dir = Device
        /\ \A x \in GroupId : Strict(x) => Populated(x) \/ Cardinality(Device) < 2
    BY <2>1 DEF MintInv, LegacyShared
  <2>3. roster'[m] = Device /\ dir' = Device
    BY <1>1, <1>2, <1>3, <2>1, <2>2 DEF SelfTypes
  <2>4. ASSUME NEW x \in GroupId, x # g, Strict(x)' PROVE Populated(x)' \/ Cardinality(Device) < 2
    BY <1>2, <1>3, <2>2, <2>4 DEF SelfTypes, Strict, Populated
  <2>5. Populated(g)' \/ Cardinality(Device) < 2
    <3>1. CASE Cardinality(dir) < 2
      BY <2>2, <3>1
    <3>2. CASE S \ {d} # {}
      <4>1. PICK e \in S : e # d
        BY <3>2
      <4>2. roster'[g] = {d} \cup S /\ {d} \cup S \subseteq Device
        BY <1>1, <1>2, <1>3 DEF SelfTypes
      <4>3. IsFiniteSet({d} \cup S) /\ {d, e} \subseteq {d} \cup S
        BY <1>3, <4>1, <4>2, FS_Subset
      <4>4. Cardinality({d, e}) = 2
        <5>1. IsFiniteSet({d}) /\ Cardinality({d}) = 1 /\ e \notin {d} /\ {d} \cup {e} = {d, e}
          BY <4>1, FS_Singleton
        <5>2. Cardinality({d} \cup {e}) = 1 + 1
          BY <5>1, FS_AddElement
        <5> QED BY <5>1, <5>2
      <4>5. Cardinality({d, e}) <= Cardinality({d} \cup S) /\ Cardinality({d} \cup S) \in Nat
        BY <4>3, FS_Subset, FS_CardinalityType
      <4> QED BY <4>2, <4>4, <4>5 DEF Populated
    <3> QED BY <1>1, <3>1, <3>2
  <2> QED BY <2>3, <2>4, <2>5
<1>11. MintedOnce'
  <2> SUFFICES ASSUME NEW e \in Device \ torn', NEW x \in GroupId, minter'[x] = e
               PROVE  x \in held'[e] /\ \A h \in GroupId : minter'[h] = e => x = h
    BY DEF MintedOnce
  <2>1. torn' = torn /\ SelfTypes
    BY <1>1, <1>3
  <2>2. CASE e # d
    BY <1>2, <2>1, <2>2 DEF MintInv, MintedOnce, SelfTypes
  <2>3. CASE e = d
    <3>1. ASSUME NEW h \in GroupId, minter[h] = d PROVE FALSE
      <4>1. h \in held[d] /\ Strict(h)
        BY <1>3, <2>1, <2>3, <3>1 DEF MintInv, MintedOnce, Strict
      <4> QED BY <1>4, <4>1, MinterHasGroup
    <3>2. \A h \in GroupId : minter'[h] = d => h = g
      BY <1>2, <2>1, <3>1 DEF SelfTypes
    <3>3. g \in held'[d]
      BY <1>2, <2>1 DEF SelfTypes
    <3> QED BY <2>3, <3>2, <3>3
  <2> QED BY <2>2, <2>3
<1> QED BY <1>7, <1>8, <1>9, <1>10, <1>11 DEF MintInv

\* Sealing, joining and forgetting: what a device holds and seals changes, but no group
\* is minted.  A device that falls back on its seal is marked as torn if that loses a
\* group.
LEMMA HoldingKeeps ==
    ASSUME MintInv, NEW d \in Device, UNCHANGED <<awake, dir, roster, minter>>,
           held' \in [Device -> SUBSET GroupId], sealed' \in [Device -> SUBSET GroupId],
           \A e \in Device : IsFiniteSet(held'[e]) /\ IsFiniteSet(sealed'[e])
                             /\ held'[e] \cup sealed'[e] \subseteq Minted,
           \A e \in Device : held[e] \subseteq held'[e] \/ e \in torn', torn \subseteq torn',
           pass' \in [Device -> {"idle", "list", "claim", "mint", "seal"}],
           claimed' \in [Device -> SUBSET Device], ClaimsSibling',
           mail' \subseteq GroupId \X Device, \A w \in mail' : w[1] \in Minted,
           outbox' \in [Device -> SUBSET [group : GroupId, to : Device, n : Nat]],
           \A e \in Device : \A x \in outbox'[e] : x.group \in Minted
    PROVE  MintInv'
<1>1. SelfTypes'
  BY DEF MintInv, SelfTypes
<1>2. Minted' = Minted
  BY DEF Minted
<1>3. KnownIsMinted'
  BY <1>2 DEF MintInv, KnownIsMinted
<1>4. LegacyShared'
  BY <1>2 DEF MintInv, LegacyShared, Strict, Populated
<1>5. MintedOnce'
  <2> SUFFICES ASSUME NEW e \in Device \ torn', NEW g \in GroupId, minter'[g] = e
               PROVE  g \in held'[e] /\ \A h \in GroupId : minter'[h] = e => g = h
    BY DEF MintedOnce
  <2>1. e \notin torn /\ minter[g] = e /\ held[e] \subseteq held'[e]
    OBVIOUS
  <2> QED BY <2>1 DEF MintInv, MintedOnce
<1> QED BY <1>1, <1>3, <1>4, <1>5 DEF MintInv

\* A replayed outbox names only groups it named before.
LEMMA ReplayKnown ==
    ASSUME MintInv, NEW d \in Device, NEW groups
    PROVE  /\ Replay(d, groups) \in SUBSET [group : GroupId, to : Device, n : Nat]
           /\ \A x \in Replay(d, groups) : x.group \in Minted
<1> SUFFICES ASSUME NEW x \in Replay(d, groups)
             PROVE  x \in [group : GroupId, to : Device, n : Nat] /\ x.group \in Minted
  OBVIOUS
<1>1. PICK y \in outbox[d] : x = [y EXCEPT !.n = y.n + 1]
  BY DEF Replay
<1>2. y \in [group : GroupId, to : Device, n : Nat] /\ y.group \in Minted
  BY <1>1 DEF MintInv, SelfTypes, KnownIsMinted
<1>3. x \in [group : GroupId, to : Device, n : Nat] /\ x.group = y.group
  BY <1>1, <1>2
<1> QED BY <1>2, <1>3

\* Welcomes, seals, reconnects and reloads keep the invariant.
LEMMA SessionKeeps ==
    ASSUME MintInv, NEW d \in Device,
           \/ SealMint(d) \/ ResealJoined(d) \/ Reconnect(d) \/ Reload(d)
           \/ (\E g \in GroupId : OnWelcome(d, g) \/ RetireWelcomes(d, g))
    PROVE  MintInv'
<1>1. SelfTypes /\ KnownIsMinted /\ ClaimsSibling
  BY DEF MintInv
<1>2. /\ held[d] \subseteq GroupId /\ sealed[d] \subseteq GroupId
      /\ IsFiniteSet(held[d]) /\ IsFiniteSet(sealed[d])
      /\ held[d] \subseteq Minted /\ sealed[d] \subseteq Minted
  BY <1>1 DEF SelfTypes, KnownIsMinted
<1>3. /\ held \in [Device -> SUBSET GroupId] /\ sealed \in [Device -> SUBSET GroupId]
      /\ \A e \in Device : /\ IsFiniteSet(held[e]) /\ IsFiniteSet(sealed[e])
                           /\ held[e] \cup sealed[e] \subseteq Minted
      /\ pass \in [Device -> {"idle", "list", "claim", "mint", "seal"}]
      /\ claimed \in [Device -> SUBSET Device]
      /\ mail \subseteq GroupId \X Device /\ (\A w \in mail : w[1] \in Minted)
      /\ outbox \in [Device -> SUBSET [group : GroupId, to : Device, n : Nat]]
      /\ \A e \in Device : \A x \in outbox[e] : x.group \in Minted
  BY <1>1 DEF SelfTypes, KnownIsMinted
<1>4. ASSUME SealMint(d) \/ ResealJoined(d) PROVE MintInv'
  <2>1. /\ UNCHANGED <<awake, dir, roster, minter, held, torn, mail, outbox, claimed>>
        /\ sealed' = [sealed EXCEPT ![d] = held[d]]
        /\ pass' = pass \/ pass' = [pass EXCEPT ![d] = "idle"]
    BY <1>4 DEF SealMint, ResealJoined, mint, wires, selfBounds, EndPass
  <2>2. /\ sealed' \in [Device -> SUBSET GroupId]
        /\ \A e \in Device : IsFiniteSet(sealed'[e]) /\ sealed'[e] \subseteq Minted
    BY <1>2, <1>3, <2>1
  <2>3. pass' \in [Device -> {"idle", "list", "claim", "mint", "seal"}] /\ ClaimsSibling'
    BY <1>1, <1>3, <2>1 DEF ClaimsSibling
  <2> QED BY <1>3, <2>1, <2>2, <2>3, HoldingKeeps
<1>5. ASSUME NEW g \in GroupId, OnWelcome(d, g) PROVE MintInv'
  <2>1. /\ UNCHANGED <<awake, dir, roster, minter, sealed, torn, outbox, pass, claimed>>
        /\ held' = [held EXCEPT ![d] = held[d] \cup {g}] /\ mail' \subseteq mail /\ <<g, d>> \in mail
    BY <1>5 DEF OnWelcome, mint, selfBounds
  <2>2. g \in Minted
    BY <1>3, <2>1
  <2>3. IsFiniteSet(held[d] \cup {g})
    BY <1>2, FS_AddElement
  <2>4. /\ held' \in [Device -> SUBSET GroupId]
        /\ \A e \in Device : /\ IsFiniteSet(held'[e]) /\ held'[e] \subseteq Minted
                             /\ held[e] \subseteq held'[e]
    BY <1>2, <1>3, <2>1, <2>2, <2>3
  <2>5. ClaimsSibling'
    BY <1>1, <2>1 DEF ClaimsSibling
  <2> QED BY <1>3, <2>1, <2>4, <2>5, HoldingKeeps
<1>6. ASSUME NEW g \in GroupId, RetireWelcomes(d, g) PROVE MintInv'
  <2>1. /\ UNCHANGED <<awake, dir, roster, minter, held, sealed, torn, mail, pass, claimed>>
        /\ outbox' = [outbox EXCEPT ![d] = {x \in outbox[d] : x.group # g}]
    BY <1>6 DEF RetireWelcomes, mint, wires, selfBounds
  <2>2. /\ outbox' \in [Device -> SUBSET [group : GroupId, to : Device, n : Nat]]
        /\ \A e \in Device : outbox'[e] \subseteq outbox[e]
    BY <1>3, <2>1
  <2>3. ClaimsSibling'
    BY <1>1, <2>1 DEF ClaimsSibling
  <2> QED BY <1>3, <2>1, <2>2, <2>3, GroupsUntouched
<1>7. ASSUME Reconnect(d) \/ Reload(d) PROVE MintInv'
  <2> DEFINE again == Replay(d, sealed[d])
  <2>1. /\ UNCHANGED <<awake, dir, roster, minter, sealed>>
        /\ held' = [held EXCEPT ![d] = sealed[d]]
        /\ torn' = IF held[d] = sealed[d] THEN torn ELSE torn \cup {d}
        /\ outbox' = [outbox EXCEPT ![d] = again]
        /\ mail' = mail \cup {<<x.group, x.to>> : x \in outbox'[d]}
        /\ \/ UNCHANGED <<pass, claimed>>
           \/ pass' = [pass EXCEPT ![d] = "idle"] /\ claimed' = [claimed EXCEPT ![d] = {}]
    BY <1>7 DEF Reconnect, Reload, mint
  <2>2. /\ again \in SUBSET [group : GroupId, to : Device, n : Nat]
        /\ \A x \in again : x.group \in Minted
    BY ReplayKnown
  <2> HIDE DEF again
  <2>3. /\ outbox' \in [Device -> SUBSET [group : GroupId, to : Device, n : Nat]] /\ outbox'[d] = again
        /\ \A e \in Device : \A x \in outbox'[e] : x.group \in Minted
    BY <1>3, <2>1, <2>2
  <2>4. mail' \subseteq GroupId \X Device /\ \A w \in mail' : w[1] \in Minted
    <3>1. \A x \in again : <<x.group, x.to>> \in GroupId \X Device /\ <<x.group, x.to>>[1] \in Minted
      BY <2>2
    <3> QED BY <1>3, <2>1, <2>3, <3>1
  <2>5. /\ held' \in [Device -> SUBSET GroupId]
        /\ \A e \in Device : IsFiniteSet(held'[e]) /\ held'[e] \subseteq Minted
    BY <1>2, <1>3, <2>1
  <2>6. torn \subseteq torn' /\ \A e \in Device : held[e] \subseteq held'[e] \/ e \in torn'
    BY <1>3, <2>1
  <2>7. /\ pass' \in [Device -> {"idle", "list", "claim", "mint", "seal"}]
        /\ claimed' \in [Device -> SUBSET Device] /\ ClaimsSibling'
    <3>1. CASE UNCHANGED <<pass, claimed>>
      BY <1>1, <1>3, <3>1 DEF ClaimsSibling
    <3>2. CASE pass' = [pass EXCEPT ![d] = "idle"] /\ claimed' = [claimed EXCEPT ![d] = {}]
      BY <1>1, <1>3, <3>2 DEF ClaimsSibling
    <3> QED BY <2>1, <3>1, <3>2
  <2> QED BY <1>3, <2>1, <2>3, <2>4, <2>5, <2>6, <2>7, HoldingKeeps
<1> QED BY <1>4, <1>5, <1>6, <1>7

\* A new device in the directory, and a sibling brought into a group, keep the
\* invariant: next to a legacy group every device is already in both.
LEMMA SiblingKeeps ==
    ASSUME MintInv,
           \/ \E e \in Device : Authorize(e)
           \/ \E d \in Device, g \in GroupId, e \in Device : AddSibling(d, g, e)
    PROVE  MintInv'
<1>1. SelfTypes /\ KnownIsMinted /\ ClaimsSibling /\ LegacyShared /\ MintedOnce
  BY DEF MintInv
<1>2. ASSUME NEW e \in Device, Authorize(e) PROVE MintInv'
  <2>1. /\ e \notin dir /\ dir' = dir \cup {e}
        /\ UNCHANGED <<awake, roster, minter, held, sealed, torn, mail, outbox, pass, claimed>>
    BY <1>2 DEF Authorize, mint, wires, selfBounds
  <2>2. Minted' = Minted
    BY <2>1 DEF Minted
  <2>3. SelfTypes' /\ KnownIsMinted' /\ ClaimsSibling' /\ MintedOnce'
    BY <1>1, <2>1, <2>2 DEF SelfTypes, KnownIsMinted, ClaimsSibling, MintedOnce
  <2>4. \A m \in Minted : Strict(m)
    BY <1>1, <2>1 DEF LegacyShared
  <2>5. LegacyShared'
    BY <2>1, <2>2, <2>4 DEF LegacyShared, Strict
  <2> QED BY <2>3, <2>5 DEF MintInv
<1>3. ASSUME NEW d \in Device, NEW g \in GroupId, NEW e \in Device, AddSibling(d, g, e) PROVE MintInv'
  <2>1. /\ g \in held[d] /\ e \in dir \ roster[g]
        /\ roster' = [roster EXCEPT ![g] = roster[g] \cup {e}] /\ mail' = mail \cup {<<g, e>>}
        /\ sealed' = [sealed EXCEPT ![d] = held[d]]
        /\ UNCHANGED <<awake, dir, minter, held, torn, outbox, pass, claimed>>
    BY <1>3 DEF AddSibling, selfBounds
  <2>2. g \in Minted /\ roster[g] # {}
    BY <1>1, <2>1 DEF KnownIsMinted, Minted
  <2>3. Minted' = Minted
    BY <1>1, <2>1, <2>2 DEF Minted, SelfTypes
  <2>4. SelfTypes'
    BY <1>1, <2>1 DEF SelfTypes
  <2>5. KnownIsMinted'
    <3>1. <<g, e>>[1] = g
      OBVIOUS
    <3>2. \A w \in mail' : w[1] \in Minted'
      BY <1>1, <2>1, <2>2, <2>3, <3>1 DEF KnownIsMinted
    <3> QED BY <1>1, <2>1, <2>3, <3>2 DEF KnownIsMinted, SelfTypes
  <2>6. ClaimsSibling' /\ MintedOnce'
    BY <1>1, <2>1 DEF ClaimsSibling, MintedOnce
  <2>7. Strict(g)
    BY <1>1, <2>1, <2>2 DEF LegacyShared
  <2>8. \A x \in GroupId : Populated(x) => Populated(x)'
    <3> SUFFICES ASSUME NEW x \in GroupId, Populated(x) PROVE Populated(x)'
      OBVIOUS
    <3>1. roster[x] \subseteq roster'[x]
      BY <1>1, <2>1 DEF SelfTypes
    <3>2. IsFiniteSet(roster'[x]) /\ Cardinality(roster'[x]) \in Nat
      <4>1. roster'[x] \subseteq Device /\ IsFiniteSet(Device)
        BY <2>4, SelfGroupAssumption DEF SelfTypes
      <4> QED BY <4>1, FS_Subset, FS_CardinalityType
    <3>3. Cardinality(roster[x]) <= Cardinality(roster'[x]) /\ Cardinality(roster[x]) \in Nat
      BY <3>1, <3>2, FS_Subset, FS_CardinalityType
    <3> QED BY <3>2, <3>3 DEF Populated
  <2>9. LegacyShared'
    <3> SUFFICES ASSUME NEW m \in Minted', ~Strict(m)'
                 PROVE  /\ roster'[m] = Device /\ dir' = Device
                        /\ \A x \in GroupId : Strict(x)' => Populated(x)' \/ Cardinality(Device) < 2
      BY DEF LegacyShared
    <3>1. m \in Minted /\ ~Strict(m) /\ m # g /\ m \in GroupId
      BY <2>1, <2>3, <2>7 DEF Strict, Minted
    <3>2. \A x : Strict(x)' <=> Strict(x)
      BY <2>1 DEF Strict
    <3> QED BY <1>1, <2>1, <2>8, <3>1, <3>2 DEF LegacyShared, SelfTypes
  <2> QED BY <2>4, <2>5, <2>6, <2>9 DEF MintInv
<1> QED BY <1>2, <1>3

\* The invariant holds in every state.
LEMMA MintInvariant == SelfSpec => []MintInv
<1>1. ASSUME SelfInit PROVE MintInv
  <2>1. PICK legacy \in BOOLEAN :
          /\ dir = IF legacy THEN Device ELSE {Min(awake)}
          /\ roster = [g \in GroupId |-> IF legacy /\ g = Min(GroupId) THEN Device ELSE {}]
          /\ held = [d \in Device |-> IF legacy THEN {Min(GroupId)} ELSE {}]
    BY <1>1 DEF SelfInit
  <2>2. /\ awake \subseteq Device /\ awake # {} /\ minter = [g \in GroupId |-> 0] /\ sealed = held
        /\ mail = {} /\ outbox = [d \in Device |-> {}] /\ pass = [d \in Device |-> "idle"]
        /\ claimed = [d \in Device |-> {}]
    BY <1>1 DEF SelfInit
  <2>3. Min(awake) \in awake /\ Min(GroupId) \in GroupId /\ Device # {} /\ 0 \notin Device
    BY <2>2, LeastExists, SelfGroupAssumption
  <2> DEFINE first == Min(GroupId)
  <2>4. \A d \in Device : IsFiniteSet(held[d])
    BY <2>1, FS_EmptySet, FS_Singleton
  <2>5. first \in GroupId /\ dir \subseteq Device
    BY <2>1, <2>2, <2>3
  <2>6. /\ held \in [Device -> SUBSET GroupId]
        /\ roster \in [GroupId -> SUBSET Device]
        /\ minter \in [GroupId -> Device \cup {0}]
    BY <2>1, <2>2, <2>5
  <2>7. SelfTypes
    BY <2>2, <2>4, <2>5, <2>6 DEF SelfTypes
  <2>8. legacy => roster[first] = Device /\ dir = Device
    BY <2>1, <2>3
  <2>9. \A d \in Device : held[d] \subseteq Minted
    BY <2>1, <2>3, <2>8 DEF Minted
  <2>10. KnownIsMinted
    BY <2>2, <2>9 DEF KnownIsMinted
  <2>11. ClaimsSibling
    BY <2>2 DEF ClaimsSibling
  <2>12. \A x \in GroupId : ~Strict(x)
    BY <2>2 DEF Strict
  <2>13. \A m \in Minted : legacy /\ m = first
    BY <2>1 DEF Minted
  <2>14. LegacyShared
    BY <2>8, <2>12, <2>13 DEF LegacyShared
  <2>15. MintedOnce
    BY <2>2, <2>3 DEF MintedOnce
  <2> QED BY <2>7, <2>10, <2>11, <2>14, <2>15 DEF MintInv
<1>2. ASSUME MintInv, [SelfNext]_SelfVars PROVE MintInv'
  <2>1. CASE UNCHANGED SelfVars
    <3>1. UNCHANGED <<awake, dir, roster, minter, held, sealed, torn, pass, claimed, mail, outbox>>
      BY <2>1 DEF SelfVars
    <3>2. ClaimsSibling'
      BY <1>2, <3>1 DEF MintInv, ClaimsSibling
    <3> QED BY <1>2, <3>1, <3>2, GroupsUntouched DEF MintInv, SelfTypes
  <2>2. ASSUME NEW w \in mail, LoseWelcome(w) PROVE MintInv'
    <3>1. /\ UNCHANGED <<awake, dir, roster, minter, held, sealed, torn, pass, claimed, outbox>>
          /\ mail' \subseteq mail
      BY <2>2 DEF LoseWelcome, mint
    <3>2. ClaimsSibling'
      BY <1>2, <3>1 DEF MintInv, ClaimsSibling
    <3> QED BY <1>2, <3>1, <3>2, GroupsUntouched DEF MintInv, SelfTypes
  <2>3. awake \subseteq Device
    BY <1>2 DEF MintInv, SelfTypes
  <2>4. ASSUME NEW d \in Device, PassStep(d) \/ TimerStep(d) \/ TriggerStep(d) \/ ListFails(d) \/ CreateThrows(d)
        PROVE  MintInv'
    BY <1>2, <2>4, PassKeeps, FoundingKeeps, SessionKeeps DEF PassStep, TimerStep, TriggerStep
  <2>5. ASSUME NEW d \in Device, FrameStep(d) \/ WelcomeStep(d) \/ Reconnect(d) \/ Reload(d)
        PROVE  MintInv'
    BY <1>2, <2>5, SessionKeeps DEF FrameStep, WelcomeStep
  <2>6. ASSUME (\E e \in Device : Authorize(e)) \/ (\E d \in Device : HealStep(d)) PROVE MintInv'
    BY <1>2, <2>6, SiblingKeeps DEF HealStep
  <2> QED BY <1>2, <2>1, <2>2, <2>3, <2>4, <2>5, <2>6 DEF SelfNext
<1> QED BY <1>1, <1>2, PTL DEF SelfSpec

\* A device that never lost an unsealed group mints at most one self-group, for any
\* number of devices, group ids and faults and whichever Welcomes arrive in between.
THEOREM MintsOnce == SelfSpec => []MintOnce
<1>1. ASSUME MintInv PROVE MintOnce
  <2> SUFFICES ASSUME NEW d \in Device \ torn
               PROVE  Cardinality({g \in GroupId : minter[g] = d}) <= 1
    BY DEF MintOnce
  <2>1. CASE {g \in GroupId : minter[g] = d} = {}
    BY <2>1, FS_EmptySet
  <2>2. CASE {g \in GroupId : minter[g] = d} # {}
    <3>1. PICK g \in GroupId : minter[g] = d
      BY <2>2
    <3>2. {h \in GroupId : minter[h] = d} = {g}
      BY <1>1, <3>1 DEF MintInv, MintedOnce
    <3>3. Cardinality({g}) = 1
      BY FS_Singleton
    <3>4. \A n : n = 1 => n <= 1
      OBVIOUS
    <3> QED BY <3>2, <3>3, <3>4
  <2> QED BY <2>1, <2>2
<1> QED BY <1>1, MintInvariant, PTL
=============================================================================
