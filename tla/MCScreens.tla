----------------------------- MODULE MCScreens -----------------------------
(***************************************************************************)
(* What one device shows and keeps: its windows (Desktop), its             *)
(* conversation list over the sealed state (Conversations), its            *)
(* registrations (Registration) and its copy of the profile card           *)
(* (IdentityCard).  The parts share no state, so a behaviour is one of     *)
(* them at work while the others stand in an initial state: the run checks *)
(* the sum of the parts, not their product.                                *)
(***************************************************************************)
EXTENDS Desktop, Conversations, Registration, IdentityCard

VARIABLE part   \* the part at work

screenVars == <<deskVars, convVars, regVars, CardVars, part>>

\* The last press is in the second page.
MCPageOf == [c \in Click |-> IF c = 3 THEN "p2" ELSE "p1"]

ScreenInit ==
    /\ part \in {"desktop", "conversations", "registration", "card"}
    /\ DeskInit /\ ConvInit /\ RegInit /\ CardInit
    /\ part # "conversations" => disk.rows = Existing
    /\ part # "registration" => \A u \in UserName : accounts[u] = "none"

ScreenNext ==
    /\ \/ part = "desktop" /\ DeskNext /\ UNCHANGED <<convVars, regVars, CardVars>>
       \/ part = "conversations" /\ ConvNext /\ UNCHANGED <<deskVars, regVars, CardVars>>
       \/ part = "registration" /\ RegNext /\ UNCHANGED <<deskVars, convVars, CardVars>>
       \/ part = "card" /\ CardNext /\ UNCHANGED <<deskVars, convVars, regVars>>
    /\ UNCHANGED part

ScreenSpec == ScreenInit /\ [][ScreenNext]_screenVars
=============================================================================
