----------------------------- MODULE MCSession -----------------------------
(***************************************************************************)
(* A signed-in session: signing on and staying connected (SignOn), calls   *)
(* (Calls), file transfers (Files) and the lists kept in step with the     *)
(* account's other devices (BuddyMaps).  The parts share no state, so a    *)
(* behaviour is one of them at work while the others stand in an initial   *)
(* state: the run checks the sum of the parts, not their product.          *)
(***************************************************************************)
EXTENDS SignOn, Calls, Files, BuddyMaps

VARIABLE part   \* the part at work

sessionVars == <<signVars, callVars, fileVars, MapVars, part>>

\* The clock of the first device runs a tick ahead.
MCAhead == [d \in Replica |-> IF d = 1 THEN 1 ELSE 0]

SessionInit ==
    /\ part \in {"signon", "calls", "files", "maps"}
    /\ SignInit /\ CallInit /\ FileInit /\ MapInit
    /\ part # "signon" => disk.vault

SessionNext ==
    /\ \/ part = "signon" /\ SignNext /\ UNCHANGED <<callVars, fileVars, MapVars>>
       \/ part = "calls" /\ CallNext /\ UNCHANGED <<signVars, fileVars, MapVars>>
       \/ part = "files" /\ FileNext /\ UNCHANGED <<signVars, callVars, MapVars>>
       \/ part = "maps" /\ MapNext /\ UNCHANGED <<signVars, callVars, fileVars>>
    /\ UNCHANGED part

\* The fairness of the parts with a liveness property, each while it is at work.  Weak
\* fairness of Resync is enough here, as only two devices share the lists.
SessionSpec ==
    /\ SessionInit /\ [][SessionNext]_sessionVars
    /\ WF_signVars(part = "signon" /\ RetryFires)
    /\ WF_signVars(part = "signon" /\ WorkerStep)
    /\ WF_signVars(part = "signon" /\ OnWorkerMessage)
    /\ \A p \in Peer :
        /\ WF_callVars(part = "calls" /\ HandleSignal(p))
        /\ WF_callVars(part = "calls" /\ Resume(p))
    /\ WF_fileVars(part = "files" /\ SenderStep)
    /\ WF_fileVars(part = "files" /\ ReceiverStep)
    /\ WF_fileVars(part = "files" /\ StreamOut)
    /\ WF_fileVars(part = "files" /\ ChannelOpens)
    /\ WF_fileVars(part = "files" /\ Receive)
    /\ WF_fileVars(part = "files" /\ ChainStep)
    /\ WF_MapVars(part = "maps" /\ Tick)
    /\ \A d \in Replica :
        /\ WF_MapVars(part = "maps" /\ JobStep(d))
        /\ WF_MapVars(part = "maps" /\ Adopt(d))
        /\ WF_MapVars(part = "maps" /\ AdoptSave(d))
        /\ WF_MapVars(part = "maps" /\ Resync(d))
=============================================================================
