------------------------------ MODULE Pairing ------------------------------
(***************************************************************************)
(* Adding a device to an account: the provisioning machine of              *)
(* client/src/provisioning.ts on the device that holds the account seed    *)
(* and on the new device, the group channel that creates, drops and        *)
(* preserves these machines across reconnects (client/src/groupchannel.ts) *)
(* and the two pairing wizards of client/src/app.ts.                       *)
(*                                                                         *)
(* The six-word flow: the holder opens a window and publishes a Challenge, *)
(* the new device answers the first one it sees with a Request, the holder *)
(* confirms and publishes a Grant.  The QR flow: the new device shows a    *)
(* one-shot code, the holder scans it and publishes a sealed Grant.        *)
(* Windows, join attempts and codes are numbered; number 0 is none.        *)
(***************************************************************************)
EXTENDS Integers, Sequences

CONSTANTS
    MaxWindow,     \* bound: windows the holder opens
    MaxAttempt,    \* bound: joins and codes the new device starts
    MaxPairFault   \* bound: reconnects, reloads and enrolments that fail

ASSUME PairingAssumption ==
    MaxWindow \in Nat \ {0} /\ MaxAttempt \in Nat \ {0} /\ MaxPairFault \in Nat

VARIABLES
    hRole, hNonce, hPending,  \* the holder's machine: role, window, last Request
    hHandle,       \* windowHandle, the timer the machine would cancel
    hTimers,       \* window timers armed on this machine
    hOld,          \* machines dropped while their window was open, each as its timers
    hView,         \* the holder's wizard
    windows,       \* windows opened so far
    challenges,    \* Challenges the gateway holds for the new device, oldest first
    requests,      \* Requests the gateway holds for the holder
    seen,          \* seenRequests
    grants,        \* Grants on reply mailboxes
    qrGrants,      \* codes for which a sealed Grant has been published
    nRole, nNonce, nReply,    \* the new device's machine: role, window, attempt
    nSecret, nQrBox, nQrTimer,\* the shown code's secret, its mailbox, its timer
    nMaking,       \* the code startQrShow is still deriving the mailbox of
    nSub,          \* attempts and codes whose mailbox this socket subscribes; 0 is
                   \* the rendezvous mailbox
    nCert,         \* the certificate: "none", "memory" or "sealed"
    nEvent,        \* a provisioning-authorized event waits for its reseal
    nView,         \* the new device's wizard
    attempts,      \* joins and codes started so far
    enrolled,      \* the account server lists the new device
    pairFaults

holder == <<hRole, hNonce, hPending, hHandle, hTimers, hOld, hView, windows, seen>>
joiner == <<nRole, nNonce, nReply, nSecret, nQrBox, nQrTimer, nMaking, nSub, nCert,
            nEvent, nView, attempts, enrolled>>
pairNet == <<challenges, requests, grants, qrGrants>>
PairVars == <<holder, joiner, pairNet, pairFaults>>

PairInit ==
    /\ hRole = "idle" /\ hNonce = 0 /\ hPending = 0 /\ hHandle = 0
    /\ hTimers = {} /\ hOld = {} /\ hView = "other" /\ windows = 0 /\ seen = {}
    /\ nRole = "idle" /\ nNonce = 0 /\ nReply = 0 /\ nSecret = 0 /\ nQrBox = 0
    /\ nQrTimer = FALSE /\ nMaking = 0 /\ nSub = {} /\ nCert = "none" /\ nEvent = FALSE
    /\ nView = "choose" /\ attempts = 0 /\ enrolled = FALSE
    /\ challenges = <<>> /\ requests = {} /\ grants = {} /\ qrGrants = {}
    /\ pairFaults = 0

-----------------------------------------------------------------------------
(* The frames, and the steps of the two wizards. *)

\* The account's rendezvous mailbox; the others are numbered by attempt.
ProvMailbox == 0

Challenge(w) == [nonce |-> w]
Request(w, attempt) == [nonce |-> w, reply |-> attempt]
Grant(w, attempt) == [nonce |-> w, reply |-> attempt]

\* The Grant sealed to the key a code shows, on the mailbox derived from it.
SealedGrant(code) == [key |-> code]

\* startProvisioning: the first step of the wizard.
StartProvisioning(role) == IF role = "seedholder" THEN "opening" ELSE "waiting"

\* The step that an event of the machine leads to.
WizardAfter(event) == IF event = "provisioning-authorized" THEN "enrol" ELSE "compare"

PairFault == pairFaults < MaxPairFault /\ pairFaults' = pairFaults + 1

-----------------------------------------------------------------------------
(* The seed holder. *)

\* Mutant: a window that is opened over another keeps the other's timer only.
OpenWindow_OneTimer ==
    /\ windows < MaxWindow
    /\ windows' = windows + 1
    /\ hRole' = "seedholder" /\ hNonce' = windows' /\ hPending' = 0 /\ seen' = {}
    /\ challenges' = Append(challenges, Challenge(windows'))
    /\ hTimers' = (IF hHandle = 0 THEN {windows'} ELSE hTimers) /\ hHandle' = windows'
    /\ hView' = StartProvisioning("seedholder")
    /\ UNCHANGED <<hOld, requests, grants, qrGrants, joiner, pairFaults>>

\* openWindow: a fresh nonce, the Challenge, and a timer whose handle replaces the
\* previous one without cancelling it.
OpenWindow ==
    /\ windows < MaxWindow
    /\ windows' = windows + 1
    /\ hRole' = "seedholder" /\ hNonce' = windows' /\ hPending' = 0 /\ seen' = {}
    /\ challenges' = Append(challenges, Challenge(windows'))
    /\ hTimers' = hTimers \cup {windows'} /\ hHandle' = windows'
    /\ hView' = StartProvisioning("seedholder")
    /\ UNCHANGED <<hOld, requests, grants, qrGrants, joiner, pairFaults>>

\* closeWindow, with the wizard's answer to provisioning-window-closed.
CloseWindow(timers) ==
    IF hRole = "seedholder"
    THEN /\ hRole' = "idle" /\ hNonce' = 0 /\ hPending' = 0 /\ hHandle' = 0
         /\ hTimers' = timers \ {hHandle}
    ELSE hTimers' = timers /\ UNCHANGED <<hRole, hNonce, hPending, hHandle>>

LeaveWizard == IF hView \in {"opening", "compare", "error"} THEN "other" ELSE hView

\* A window timer of the live machine fires.
WindowTimer(w) ==
    /\ w \in hTimers
    /\ CloseWindow(hTimers \ {w})
    /\ hView' = IF hRole = "seedholder" THEN LeaveWizard ELSE hView
    /\ UNCHANGED <<hOld, windows, seen, joiner, pairNet, pairFaults>>

\* The first timer of a dropped machine fires: that machine's window was never
\* closed, so the wizard is told so; its other timers find it closed.
DroppedTimer(old) ==
    /\ old \in hOld
    /\ hOld' = hOld \ {old}
    /\ hView' = LeaveWizard
    /\ UNCHANGED <<hRole, hNonce, hPending, hHandle, hTimers, windows, seen, joiner, pairNet, pairFaults>>

\* The user leaves the wizard: closeProvisioning.
CloseWizard ==
    /\ hView # "other" /\ hView' = "other"
    /\ CloseWindow(hTimers)
    /\ UNCHANGED <<hOld, windows, seen, joiner, pairNet, pairFaults>>

\* onRequest: a Request of the live window, not seen before, becomes the pending one.
OnRequest(r) ==
    /\ r \in requests \ seen
    /\ hRole = "seedholder" /\ r.nonce = hNonce
    /\ seen' = seen \cup {r}
    /\ hPending' = r.reply
    /\ hView' = WizardAfter("confirm-device")
    /\ UNCHANGED <<hRole, hNonce, hHandle, hTimers, hOld, windows, joiner, pairNet, pairFaults>>

\* confirm: the Grant goes to the pending Request's mailbox and the window closes.
\* A machine that is gone, closed or has no Request makes the click a no-op.
Confirm ==
    /\ hView = "compare"
    /\ hRole = "seedholder" /\ hPending # 0
    /\ grants' = grants \cup {Grant(hNonce, hPending)}
    /\ CloseWindow(hTimers)
    /\ hView' = "done"
    /\ UNCHANGED <<hOld, windows, seen, challenges, requests, qrGrants, joiner, pairFaults>>

\* authorizeDevice throws: the window stays open behind an error.
ConfirmFails ==
    /\ hView = "compare" /\ hRole = "seedholder" /\ hPending # 0
    /\ PairFault
    /\ hView' = "error"
    /\ UNCHANGED <<hRole, hNonce, hPending, hHandle, hTimers, hOld, windows, seen, joiner, pairNet>>

\* grantScanned: the holder scans the last code shown, which may have burned since.
GrantScanned ==
    /\ nQrBox # 0
    /\ qrGrants' = qrGrants \cup {SealedGrant(nQrBox)}
    /\ hView' = "done"
    /\ UNCHANGED <<hRole, hNonce, hPending, hHandle, hTimers, hOld, windows, seen, challenges,
                   requests, grants, joiner, pairFaults>>

\* The gateway rejects a frame while a machine is active: the wizard shows an error.
GatewayError ==
    /\ PairFault
    /\ \/ hRole # "idle" /\ hView \in {"opening", "compare"} /\ hView' = "error" /\ UNCHANGED nView
       \/ nRole # "idle" /\ nView \in {"waiting", "compare", "showqr"} /\ nView' = "error" /\ UNCHANGED hView
    /\ UNCHANGED <<hRole, hNonce, hPending, hHandle, hTimers, hOld, windows, seen, nRole, nNonce,
                   nReply, nSecret, nQrBox, nQrTimer, nMaking, nSub, nCert, nEvent, attempts,
                   enrolled, pairNet>>

\* Mutant: the dropped machine's timers are cancelled with it.
HolderReconnects_Cancels ==
    /\ PairFault
    /\ hRole' = "idle" /\ hNonce' = 0 /\ hPending' = 0 /\ hHandle' = 0 /\ hTimers' = {}
    /\ seen' = {}
    /\ UNCHANGED <<hOld, hView, windows, joiner, pairNet>>

\* connectGateway on the holder drops the machine; its timers stay armed.
HolderReconnects ==
    /\ PairFault
    /\ hOld' = IF hRole = "seedholder" THEN hOld \cup {hTimers} ELSE hOld
    /\ hRole' = "idle" /\ hNonce' = 0 /\ hPending' = 0 /\ hHandle' = 0 /\ hTimers' = {}
    /\ seen' = {}
    /\ UNCHANGED <<hView, windows, joiner, pairNet>>

-----------------------------------------------------------------------------
(* The new device. *)

\* cancelQrShow: the timer is cancelled and a live code burns.
NoQrTimer == nQrTimer' = FALSE
Unsecret == IF nRole = "newdevice-qr" THEN 0 ELSE nSecret

\* startJoin: wait for a Challenge on the rendezvous mailbox.
StartJoin ==
    /\ nView \in {"choose", "error", "qrexpired"} /\ nMaking = 0 /\ attempts < MaxAttempt
    /\ attempts' = attempts + 1
    /\ NoQrTimer /\ nSecret' = Unsecret
    /\ nRole' = "newdevice" /\ nNonce' = 0 /\ nReply' = 0
    /\ nSub' = nSub \cup {ProvMailbox}
    /\ nView' = StartProvisioning("newdevice")
    /\ UNCHANGED <<nQrBox, nMaking, nCert, nEvent, enrolled, holder, pairNet, pairFaults>>

\* startQrShow up to its await: the previous code burns, a secret is made.
StartQrShow ==
    /\ nView \in {"choose", "error", "qrexpired"} /\ nMaking = 0 /\ attempts < MaxAttempt
    /\ attempts' = attempts + 1
    /\ NoQrTimer
    /\ nSecret' = attempts' /\ nMaking' = attempts'
    /\ nRole' = IF nRole = "newdevice-qr" THEN "idle" ELSE nRole
    /\ UNCHANGED <<nNonce, nReply, nQrBox, nSub, nCert, nEvent, nView, enrolled, holder, pairNet, pairFaults>>

\* ... and after it: the role, the subscription, the timer, the code on the screen.
QrShown ==
    /\ nMaking # 0
    /\ nMaking' = 0 /\ nQrBox' = nMaking
    /\ nRole' = "newdevice-qr"
    /\ nSub' = nSub \cup {nMaking}
    /\ nQrTimer' = TRUE
    /\ nView' = "showqr"
    /\ UNCHANGED <<nNonce, nReply, nSecret, nCert, nEvent, attempts, enrolled, holder, pairNet, pairFaults>>

\* expireQrShow: the secret burns and the wizard offers a new code.
ExpireQrShow ==
    /\ nQrTimer
    /\ nQrTimer' = FALSE
    /\ IF nRole = "newdevice-qr"
       THEN /\ nSecret' = 0 /\ nRole' = "idle"
            /\ nView' = IF nView = "showqr" THEN "qrexpired" ELSE nView
       ELSE UNCHANGED <<nSecret, nRole, nView>>
    /\ UNCHANGED <<nNonce, nReply, nQrBox, nMaking, nSub, nCert, nEvent, attempts, enrolled, holder, pairNet, pairFaults>>

\* The user goes back: closeProvisioning cancels a code but leaves a join waiting.
CancelJoin ==
    /\ nView \in {"waiting", "compare", "showqr"} /\ nMaking = 0
    /\ NoQrTimer /\ nSecret' = Unsecret
    /\ nRole' = IF nRole = "newdevice-qr" THEN "idle" ELSE nRole
    /\ nView' = "choose"
    /\ UNCHANGED <<nNonce, nReply, nQrBox, nMaking, nSub, nCert, nEvent, attempts, enrolled, holder, pairNet, pairFaults>>

\* onChallenge: the first Challenge delivered is answered, later ones are ignored.
OnChallenge ==
    /\ nRole = "newdevice" /\ ProvMailbox \in nSub /\ nNonce = 0 /\ challenges # <<>>
    /\ nNonce' = Head(challenges).nonce
    /\ nReply' = attempts
    /\ nSub' = nSub \cup {attempts}
    /\ requests' = requests \cup {Request(nNonce', attempts)}
    /\ nView' = WizardAfter("show-code")
    /\ UNCHANGED <<nRole, nSecret, nQrBox, nQrTimer, nMaking, nCert, nEvent, attempts, enrolled,
                   challenges, grants, qrGrants, holder, pairFaults>>

\* adoptCertificate, in memory; an earlier certificate may already be on disk.
AdoptCertificate ==
    /\ nCert' = IF nCert = "none" THEN "memory" ELSE nCert
    /\ nEvent' = TRUE

\* onGrant: the Grant of the live attempt is adopted.
OnGrant(g) ==
    /\ g \in grants
    /\ nRole = "newdevice" /\ g.reply = nReply /\ nReply \in nSub /\ g.nonce = nNonce
    /\ AdoptCertificate
    /\ nRole' = "idle"
    /\ grants' = grants \ {g}
    /\ UNCHANGED <<nNonce, nReply, nSecret, nQrBox, nQrTimer, nMaking, nSub, nView, attempts,
                   enrolled, challenges, requests, qrGrants, holder, pairFaults>>

\* onQrGrant: only the secret of the code the Grant was sealed to opens it.
OnQrGrant ==
    /\ nRole = "newdevice-qr" /\ nQrBox \in nSub /\ SealedGrant(nQrBox) \in qrGrants
    /\ nSecret = nQrBox
    /\ AdoptCertificate
    /\ nSecret' = 0 /\ NoQrTimer
    /\ nRole' = "idle"
    /\ UNCHANGED <<nNonce, nReply, nQrBox, nMaking, nSub, nView, attempts, enrolled, holder, pairNet, pairFaults>>

\* The reseal that precedes the provisioning-authorized event, which goes out even
\* when the reseal failed.
Authorized ==
    /\ nEvent /\ nEvent' = FALSE
    /\ \/ nCert' = "sealed" /\ UNCHANGED pairFaults
       \/ PairFault /\ UNCHANGED nCert
    /\ nView' = WizardAfter("provisioning-authorized")
    /\ UNCHANGED <<nRole, nNonce, nReply, nSecret, nQrBox, nQrTimer, nMaking, nSub, attempts,
                   enrolled, holder, pairNet>>

\* finishWizardEnrollment: enrolled and keys published, or a retry screen.
FinishEnrollment ==
    /\ nView = "enrol"
    /\ \/ enrolled' = TRUE /\ nView' = "done" /\ UNCHANGED pairFaults
       \/ PairFault /\ enrolled' \in {enrolled, TRUE} /\ nView' = "enrolretry"
    /\ UNCHANGED <<nRole, nNonce, nReply, nSecret, nQrBox, nQrTimer, nMaking, nSub, nCert, nEvent,
                   attempts, holder, pairNet>>

\* The retry button of that screen.
RetryEnrollment ==
    /\ nView = "enrolretry"
    /\ nView' = "enrol"
    /\ UNCHANGED <<nRole, nNonce, nReply, nSecret, nQrBox, nQrTimer, nMaking, nSub, nCert, nEvent,
                   attempts, enrolled, holder, pairNet, pairFaults>>

\* connectGateway between worker operations: a machine showing a live code is kept
\* and its mailbox subscribed again; any other machine is dropped.
JoinerReconnects ==
    /\ nMaking = 0
    /\ PairFault
    /\ IF nRole = "newdevice-qr" /\ nSecret # 0
       THEN /\ nSub' = {nQrBox}
            /\ UNCHANGED <<nRole, nNonce, nReply, nSecret, nQrBox, nQrTimer>>
       ELSE /\ nSub' = {} /\ nRole' = "idle" /\ nNonce' = 0 /\ nReply' = 0
            /\ nSecret' = 0 /\ nQrTimer' = FALSE /\ UNCHANGED nQrBox
    /\ UNCHANGED <<nMaking, nCert, nEvent, nView, attempts, enrolled, holder, pairNet>>

\* The page is reloaded: only what was sealed comes back.
JoinerReloads ==
    /\ PairFault
    /\ nRole' = "idle" /\ nNonce' = 0 /\ nReply' = 0 /\ nSecret' = 0 /\ nQrTimer' = FALSE
    /\ nMaking' = 0 /\ nSub' = {}
    /\ nCert' = IF nCert = "sealed" THEN "sealed" ELSE "none"
    /\ nEvent' = FALSE
    /\ nView' = IF nCert = "sealed" THEN "enrol" ELSE "choose"
    /\ UNCHANGED <<nQrBox, attempts, enrolled, holder, pairNet>>

\* The gateway forgets the oldest Challenge (PROV_TTL).
ExpireChallenge ==
    /\ challenges # <<>>
    /\ challenges' = Tail(challenges)
    /\ UNCHANGED <<requests, grants, qrGrants, holder, joiner, pairFaults>>

PairTimer == (\E old \in hOld : DroppedTimer(old)) \/ (\E w \in hTimers : WindowTimer(w))
PairDeliver == OnQrGrant

PairNext ==
    \/ OpenWindow \/ CloseWizard \/ Confirm \/ ConfirmFails \/ GatewayError \/ HolderReconnects
    \/ PairTimer
    \/ \E r \in requests : OnRequest(r)
    \/ GrantScanned
    \/ StartJoin \/ StartQrShow \/ QrShown \/ ExpireQrShow \/ CancelJoin
    \/ OnChallenge \/ (\E g \in grants : OnGrant(g)) \/ PairDeliver
    \/ Authorized \/ FinishEnrollment \/ RetryEnrollment
    \/ JoinerReconnects \/ JoinerReloads \/ ExpireChallenge

\* Armed window timers fire and the gateway delivers what it holds; nothing is
\* assumed of the two users, of a code's expiry or of the sockets.
PairFairness == WF_PairVars(PairTimer) /\ WF_PairVars(PairDeliver)

PairSpec == PairInit /\ [][PairNext]_PairVars /\ PairFairness

-----------------------------------------------------------------------------
(* Properties. *)

\* Type correctness.
PairTypeOK ==
    /\ hRole \in {"idle", "seedholder"} /\ hNonce \in 0..windows /\ hPending \in 0..attempts
    /\ hHandle \in 0..windows /\ hTimers \subseteq 1..windows /\ hOld \subseteq SUBSET (1..windows)
    /\ hView \in {"other", "opening", "compare", "done", "error"} /\ windows \in 0..MaxWindow
    /\ requests \subseteq [nonce : 1..windows, reply : 1..attempts]
    /\ grants \subseteq requests /\ seen \subseteq requests /\ qrGrants \subseteq {SealedGrant(a) : a \in 1..attempts}
    /\ nRole \in {"idle", "newdevice", "newdevice-qr"} /\ nNonce \in 0..windows
    /\ {nReply, nSecret, nQrBox, nMaking} \subseteq 0..attempts /\ nSub \subseteq 0..attempts
    /\ nQrTimer \in BOOLEAN /\ nCert \in {"none", "memory", "sealed"} /\ nEvent \in BOOLEAN /\ enrolled \in BOOLEAN
    /\ nView \in {"choose", "waiting", "compare", "showqr", "qrexpired", "error", "enrol",
                  "enrolretry", "done"}
    /\ attempts \in 0..MaxAttempt /\ pairFaults \in 0..MaxPairFault

\* An open window and a shown code always have a timer left to close them, however
\* windows overlap and machines are dropped (openWindow, startQrShow, closeWindow).
LiveHasTimer ==
    /\ hRole = "seedholder" => hHandle # 0 /\ hHandle \in hTimers
    /\ nRole = "newdevice-qr" => nQrTimer /\ nSecret = nQrBox

\* "Re-seal the durable identity [...] BEFORE the main thread learns of the
\* authorization" (groupchannel.ts:1860-1861): a device the account server lists has
\* its certificate on disk.  Not an invariant of the code: see the README.
EnrolledIsSealed == enrolled => nCert = "sealed"

\* No pairing screen waits for good.  A Grant sealed to the code on the screen is
\* adopted unless the code burns first, even when the socket is replaced in between
\* (resubscribeLive); the holder's wizard leaves an open window even when a reconnect
\* dropped the machine it talks to (the timer of a dropped machine still closes it).
PairingEnds ==
    /\ \A s \in 1..MaxAttempt :
          []<>~(SealedGrant(s) \in qrGrants /\ nSecret = s /\ nRole = "newdevice-qr")
    /\ []<>(hView \notin {"opening", "compare"})
=============================================================================
