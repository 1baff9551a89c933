----------------------------- MODULE MCAccount -----------------------------
(***************************************************************************)
(* The devices of one account: pairing a new one (Pairing), the hidden     *)
(* group they share (SelfGroup) and which of them are revoked              *)
(* (Revocation).  The parts share no state, so a behaviour is one of them  *)
(* at work while the others stand in an initial state: the run checks the  *)
(* sum of the parts, not their product.                                    *)
(***************************************************************************)
EXTENDS SelfGroup, Pairing, Revocation

VARIABLE part   \* the part at work

accountVars == <<SelfVars, PairVars, revVars, part>>

AccountInit ==
    /\ part \in {"selfgroup", "pairing", "revocation"}
    /\ SelfInit /\ PairInit /\ RevInit
    /\ part # "selfgroup" => awake = Device /\ SameGroup
    /\ part # "revocation" => \A d \in Own : rows[d] # "revoked"

AccountNext ==
    /\ \/ part = "selfgroup" /\ SelfNext /\ UNCHANGED <<PairVars, revVars>>
       \/ part = "pairing" /\ PairNext /\ UNCHANGED <<SelfVars, revVars>>
       \/ part = "revocation" /\ RevNext /\ UNCHANGED <<SelfVars, PairVars>>
    /\ UNCHANGED part

\* Each part's own fairness, while it is the part at work.
AccountSpec ==
    /\ AccountInit /\ [][AccountNext]_accountVars
    /\ \A d \in Device :
        /\ WF_SelfVars(part = "selfgroup" /\ PassStep(d))
        /\ WF_SelfVars(part = "selfgroup" /\ TimerStep(d))
        /\ WF_SelfVars(part = "selfgroup" /\ FrameStep(d))
        /\ WF_SelfVars(part = "selfgroup" /\ WelcomeStep(d))
        /\ WF_SelfVars(part = "selfgroup" /\ HealStep(d))
        /\ WF_SelfVars(part = "selfgroup" /\ TriggerStep(d))
    /\ WF_PairVars(part = "pairing" /\ PairTimer)
    /\ WF_PairVars(part = "pairing" /\ PairDeliver)
    /\ \A d \in Own :
        /\ WF_revVars(part = "revocation" /\ PollStep(d))
        /\ WF_revVars(part = "revocation" /\ RevokeDevice(d))
=============================================================================
