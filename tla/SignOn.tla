------------------------------- MODULE SignOn -------------------------------
(***************************************************************************)
(* Signing in, staying connected and leaving: doLogin, the add-this-device *)
(* wizard's exits and the reconnect engine of app.ts on the main thread,   *)
(* and the worker behind them (worker.js, controller.ts), which runs one   *)
(* operation at a time in arrival order and posts its events and replies   *)
(* on one ordered port.  The main thread learns that the socket closed     *)
(* only from an event on that port.                                        *)
(***************************************************************************)
EXTENDS Naturals, Sequences

CONSTANTS MaxBackoff,  \* attempts after which the retry delay stops growing
          MaxSignIn,   \* sign-ins the user tries
          MaxDrop,     \* times the gateway closes the socket
          MaxWake,     \* times the tab wakes
          MaxSignFault, \* failed requests, failed connects and page reloads
          EarlyClose   \* may a socket close before connectGateway has replied?

ASSUME SignOnAssumption ==
  /\ MaxBackoff \in Nat /\ MaxSignIn \in Nat /\ MaxDrop \in Nat
  /\ MaxWake \in Nat /\ MaxSignFault \in Nat /\ EarlyClose \in BOOLEAN

VARIABLES ui,     \* connState, the reconnect timers and currentUsername
          screen, \* the view
          flow,   \* where doLogin, the wizard or a wipe is suspended
          stash,  \* pendingWizardEnroll is set
          contact, \* currentDeviceKey is known
          chain,  \* operations queued at the worker, the running one first
          phase,  \* how far the running operation got
          unlocked, \* the worker holds the master key
          link,   \* the worker's transport
          port,   \* messages from the worker, in order
          disk,   \* what the origin's storage holds
          row,    \* this device's row at the account server
          spent   \* sign-ins, drops, wakes and faults so far

signVars == <<ui, screen, flow, stash, contact, chain, phase, unlocked, link, port,
              disk, row, spent>>

FreshUi == [conn |-> "offline", retry |-> FALSE, stable |-> FALSE, attempt |-> 0,
            user |-> FALSE]

SignInit ==
  /\ ui = FreshUi
  /\ screen = "unlock" /\ flow = "none" /\ stash = FALSE /\ contact = FALSE
  /\ chain = <<>> /\ phase = "queued" /\ unlocked = FALSE /\ link = "none" /\ port = <<>>
  /\ disk \in {[vault |-> FALSE, authorized |-> FALSE], [vault |-> TRUE, authorized |-> TRUE]}
  /\ row = IF disk.authorized THEN "enrolled" ELSE "none"
  /\ spent = [signIn |-> 0, drop |-> 0, wake |-> 0, fault |-> 0]

-----------------------------------------------------------------------------
(* The reconnect engine.                                                   *)

ScheduleReconnectAlways(u) ==
  IF u.retry THEN u
  ELSE [u EXCEPT !.retry = TRUE, !.attempt = IF @ < MaxBackoff THEN @ + 1 ELSE @]

\* A no-op before sign-in and while a retry is already armed.
ScheduleReconnect(u) ==
  IF ~u.user \/ u.retry THEN u
  ELSE [u EXCEPT !.retry = TRUE, !.attempt = IF @ < MaxBackoff THEN @ + 1 ELSE @]

SetConnForgets(u, state) ==
  IF state = "live" /\ u.conn = "secure" THEN u
  ELSE [u EXCEPT !.conn = state,
                 !.retry = IF state \in {"live", "secure"} THEN FALSE ELSE @,
                 !.stable = state \in {"live", "secure"}]

\* setConn: 'live' never downgrades 'secure'; a link that is up disarms the retry
\* and starts the 5 s stability timer; a drop arms the next retry.
SetConn(u, state) ==
  CASE state = "live" /\ u.conn = "secure" -> u
    [] state \in {"live", "secure"} /\ ~(state = "live" /\ u.conn = "secure") ->
         [u EXCEPT !.conn = state, !.retry = FALSE, !.stable = TRUE]
    [] state = "offline" ->
         ScheduleReconnect([u EXCEPT !.conn = state, !.stable = FALSE])
    [] state = "connecting" -> [u EXCEPT !.conn = state]

\* disarmReconnect
Disarm(u) == [u EXCEPT !.retry = FALSE, !.stable = FALSE, !.attempt = 0]

\* connectLive up to its await, on behalf of a sign-in, a retry or the wizard.
ConnectLive(u, by) ==
  /\ ui' = SetConn(u, "connecting")
  /\ chain' = Append(chain, [op |-> "connect", by |-> by])

\* The backoff timer fires.
RetryFires ==
  /\ ui.retry
  /\ ConnectLive([ui EXCEPT !.retry = FALSE], "retry")
  /\ UNCHANGED <<screen, flow, stash, contact, phase, unlocked, link, port, disk, row, spent>>

\* wakeResync: the tab became visible, the network returned, or the page was restored.
WakeResync ==
  /\ ui.user /\ screen # "pairing"
  /\ spent.wake < MaxWake
  /\ spent' = [spent EXCEPT !.wake = @ + 1]
  /\ ConnectLive([ui EXCEPT !.retry = FALSE], "retry")
  /\ UNCHANGED <<screen, flow, stash, contact, phase, unlocked, link, port, disk, row>>

\* The link held for 5 s: the backoff starts over.
StableFires ==
  /\ ui.stable
  /\ ui' = [ui EXCEPT !.stable = FALSE, !.attempt = 0]
  /\ UNCHANGED <<screen, flow, stash, contact, chain, phase, unlocked, link, port, disk,
                 row, spent>>

-----------------------------------------------------------------------------
(* Signing in.                                                             *)

\* The unlock form: doLogin up to the account server's answer.
Login ==
  /\ screen = "unlock" /\ flow = "none"
  /\ spent.signIn < MaxSignIn
  /\ spent' = [spent EXCEPT !.signIn = @ + 1]
  /\ stash' = FALSE
  /\ flow' = "auth"
  /\ UNCHANGED <<ui, screen, contact, chain, phase, unlocked, link, port, disk, row>>

\* /api/login answered: unlock the vault, or stay on the form.
LoginAnswered ==
  /\ flow = "auth"
  /\ \/ flow' = "unlock" /\ row # "gone"
        /\ chain' = Append(chain, [op |-> "unlock", by |-> "login"])
     \/ flow' = "none" /\ chain' = chain
  /\ UNCHANGED <<ui, screen, stash, contact, phase, unlocked, link, port, disk, row, spent>>

\* enrollAndNotice: clear, revoked, or unknown, which fails closed.
Verdicts ==
  CASE ~contact -> {"unknown"}
    [] contact /\ row = "gone" -> {"unknown"}
    [] contact /\ row = "revoked" -> {"revoked", "unknown"}
    [] contact /\ row \in {"none", "enrolled"} -> {"clear", "unknown"}

\* enrollDevice is idempotent; one whose list-devices then failed may have made the row.
EnrollDevice(verdict) ==
  CASE verdict = "clear" -> {"enrolled"}
    [] verdict = "unknown" /\ contact /\ row = "none" -> {row, "enrolled"}
    [] OTHER -> {row}

\* The verdict on this device arrives: home, back to the form, or a wipe.
EnrollAnswered ==
  /\ flow \in {"enroll", "wizardEnroll"}
  /\ \E verdict \in Verdicts :
       /\ verdict = "unknown" /\ contact => spent.fault < MaxSignFault
       /\ spent' = IF verdict = "unknown" /\ contact
                     THEN [spent EXCEPT !.fault = @ + 1] ELSE spent
       /\ row' \in EnrollDevice(verdict)
       /\ flow' = IF verdict = "revoked" THEN "wipe" ELSE "none"
       /\ stash' = IF verdict = "clear" THEN FALSE ELSE stash
       /\ screen' = CASE verdict = "clear" -> "home"
                      [] verdict = "unknown" /\ flow = "enroll" -> "unlock"
                      [] verdict = "unknown" /\ flow = "wizardEnroll" -> "pairing"
                      [] verdict = "revoked" -> screen
       /\ chain' = IF verdict = "revoked"
                     THEN Append(chain, [op |-> "discard", by |-> "wipe"]) ELSE chain
  /\ UNCHANGED <<ui, contact, phase, unlocked, link, port, disk>>

\* The error screen's retry: finishWizardEnrollment again, with the same stash.
RetryEnroll ==
  /\ screen = "pairing" /\ flow = "none" /\ stash
  /\ flow' = "wizardEnroll"
  /\ UNCHANGED <<ui, screen, stash, contact, chain, phase, unlocked, link, port, disk, row, spent>>

\* retryWizardConnect
RetryWizardConnect ==
  /\ screen = "wizard" /\ flow = "none" /\ link # "up" /\ chain = <<>>
  /\ flow' = "wizardConnect"
  /\ ConnectLive(ui, "wizard")
  /\ UNCHANGED <<screen, stash, contact, phase, unlocked, link, port, disk, row, spent>>

\* signOutNewDevice up to its await.
SignOutNewDevice ==
  /\ screen \in {"wizard", "pairing"} /\ flow = "none" /\ ui.user
  /\ flow' = "signOut"
  /\ stash' = FALSE
  /\ chain' = Append(chain, [op |-> "discard", by |-> "signOut"])
  /\ UNCHANGED <<ui, screen, contact, phase, unlocked, link, port, disk, row, spent>>

\* doSelfDestruct: the server forgot the account; erase this device.
SelfDestruct ==
  /\ screen = "home" /\ flow = "none" /\ row = "enrolled"
  /\ row' = "gone"
  /\ flow' = "wipe"
  /\ chain' = Append(chain, [op |-> "discard", by |-> "wipe"])
  /\ UNCHANGED <<ui, screen, stash, contact, phase, unlocked, link, port, disk, spent>>

-----------------------------------------------------------------------------
(* What the main thread does with the worker's messages.                   *)

\* The continuation of connectLive in doLogin: the wizard, or the server's verdict.
AfterLoginConnect(ok) ==
  /\ contact' = ok
  /\ IF disk.authorized
       THEN flow' = "enroll" /\ UNCHANGED <<screen, stash>>
       ELSE flow' = "none" /\ screen' = "wizard" /\ stash' = TRUE

\* The reply of connectGateway: connectLive reports it and its caller goes on.
OnConnectReply(m) ==
  /\ ui' = SetConn(ui, IF m.ok THEN "live" ELSE "offline")
  /\ CASE m.by = "login" /\ flow = "connect" -> AfterLoginConnect(m.ok)
       [] m.by = "wizard" /\ flow = "wizardConnect" ->
            /\ contact' = (contact \/ m.ok)
            /\ flow' = "none" /\ screen' = "wizard" /\ stash' = stash
       [] OTHER -> /\ contact' = (contact \/ m.ok)
                   /\ UNCHANGED <<flow, screen, stash>>
  /\ UNCHANGED <<chain, link, unlocked, phase>>

\* wipeLocalAndReload's finally: everything in memory is gone.
Reloaded ==
  /\ ui' = FreshUi
  /\ screen' = "unlock" /\ flow' = "none" /\ stash' = FALSE /\ contact' = FALSE
  /\ chain' = <<>> /\ phase' = "queued" /\ unlocked' = FALSE /\ link' = "none"

\* unlock replied: signed in, connect.
OnUnlockReply ==
  /\ ConnectLive([ui EXCEPT !.user = TRUE], "login")
  /\ flow' = "connect"
  /\ UNCHANGED <<screen, stash, contact, link, unlocked, phase>>

\* The wizard's discard replied: forget the user, disarm, show the form.
OnSignOutReply ==
  /\ ui' = Disarm([ui EXCEPT !.user = FALSE])
  /\ flow' = "none" /\ screen' = "unlock"
  /\ UNCHANGED <<stash, contact, chain, link, unlocked, phase>>

\* 'provisioning-authorized': finishWizardEnrollment, which without its stash
\* publishes keys if the worker can and reports an error if it cannot.
OnAuthorized ==
  /\ IF stash /\ ui.user
       THEN flow' = "wizardEnroll" /\ screen' = "pairing"
       ELSE /\ screen' = IF unlocked /\ disk.authorized THEN "home" ELSE "pairing"
            /\ flow' = flow
  /\ stash' = (stash /\ ui.user)
  /\ UNCHANGED <<ui, contact, chain, link, unlocked, phase>>

\* The next message of the port.
OnWorkerMessage ==
  /\ port # <<>>
  /\ LET m == Head(port) IN
     /\ port' = IF m.op = "discard" /\ m.by = "wipe" THEN <<>> ELSE Tail(port)
     /\ CASE m.op = "event" -> /\ ui' = SetConn(ui, m.by)
                               /\ UNCHANGED <<flow, screen, stash, contact, chain, link,
                                              unlocked, phase>>
          [] m.op = "connect" -> OnConnectReply(m)
          [] m.op = "unlock" -> OnUnlockReply
          [] m.op = "authorized" -> OnAuthorized
          [] m.op = "discard" /\ m.by = "signOut" -> OnSignOutReply
          [] m.op = "discard" /\ m.by = "wipe" -> Reloaded
  /\ UNCHANGED <<disk, row, spent>>

-----------------------------------------------------------------------------
(* The worker: one operation at a time.                                    *)

Running(op) == chain # <<>> /\ Head(chain).op = op

\* postMessage: the messages of the worker arrive in order.
FromWorker(op, by, ok) == Append(port, [op |-> op, by |-> by, ok |-> ok])

Reply(ok) == FromWorker(Head(chain).op, Head(chain).by, ok)

Event(state) == FromWorker("event", state, TRUE)

\* unlock opens the vault, or creates it on the first sign-in here.
UnlockRuns ==
  /\ Running("unlock")
  /\ disk' = [disk EXCEPT !.vault = TRUE]
  /\ unlocked' = TRUE
  /\ chain' = Tail(chain)
  /\ port' = Reply(TRUE)
  /\ UNCHANGED <<ui, screen, flow, stash, contact, phase, link, row, spent>>

\* connectGateway supersedes the old socket (whose events are dead from here on),
\* opens a new one, and posts the state it believes in before the socket answers.
ConnectOpens ==
  /\ Running("connect") /\ phase = "queued"
  /\ link' = "up" /\ phase' = "opened"
  /\ \E state \in {"live", "secure"} : port' = Event(state)
  /\ UNCHANGED <<ui, screen, flow, stash, contact, chain, unlocked, disk, row, spent>>

\* The record sweep that follows is done: connectGateway replies.
ConnectReplies ==
  /\ Running("connect") /\ phase = "opened"
  /\ chain' = Tail(chain) /\ phase' = "queued"
  /\ port' = Reply(TRUE)
  /\ UNCHANGED <<ui, screen, flow, stash, contact, unlocked, link, disk, row, spent>>

\* The operation throws (no socket, a failed read).
ConnectFails ==
  /\ Running("connect") /\ phase = "queued"
  /\ spent.fault < MaxSignFault
  /\ spent' = [spent EXCEPT !.fault = @ + 1]
  /\ link' = "down"
  /\ chain' = Tail(chain)
  /\ port' = Reply(FALSE)
  /\ UNCHANGED <<ui, screen, flow, stash, contact, phase, unlocked, disk, row>>

\* discardAccount deletes the sealed identity and the authorized marker first ...
DiscardErases ==
  /\ Running("discard") /\ phase = "queued"
  /\ disk' = [disk EXCEPT !.authorized = FALSE]
  /\ phase' = "opened"
  /\ UNCHANGED <<ui, screen, flow, stash, contact, chain, unlocked, link, port, row, spent>>

\* ... and then the wrapped master key, and locks the controller.
DiscardLocks ==
  /\ Running("discard") /\ phase = "opened"
  /\ disk' = [disk EXCEPT !.vault = FALSE]
  /\ unlocked' = FALSE
  /\ chain' = Tail(chain) /\ phase' = "queued"
  /\ port' = Reply(TRUE)
  /\ UNCHANGED <<ui, screen, flow, stash, contact, link, row, spent>>

\* A grant arrives from the other device (outside the operation queue): the
\* adopted identity is sealed when the vault is open, and the event follows.
GrantArrives ==
  /\ link = "up" /\ screen = "wizard" /\ ~disk.authorized
  /\ spent.fault < MaxSignFault
  /\ spent' = [spent EXCEPT !.fault = @ + 1]
  /\ disk' = [disk EXCEPT !.authorized = unlocked]
  /\ port' = FromWorker("authorized", "event", TRUE)
  /\ UNCHANGED <<ui, screen, flow, stash, contact, chain, phase, unlocked, link, row>>

\* The gateway closes the current socket.
SocketCloses ==
  /\ link = "up"
  /\ EarlyClose \/ phase = "queued"
  /\ spent.drop < MaxDrop
  /\ spent' = [spent EXCEPT !.drop = @ + 1]
  /\ link' = "down"
  /\ port' = Event("offline")
  /\ UNCHANGED <<ui, screen, flow, stash, contact, chain, phase, unlocked, disk, row>>

\* Another device of the account revokes this one.
SiblingRevokes ==
  /\ row = "enrolled"
  /\ row' = "revoked"
  /\ UNCHANGED <<ui, screen, flow, stash, contact, chain, phase, unlocked, link, port,
                 disk, spent>>

\* The user reloads the page: the worker's memory goes with it.
PageReload ==
  /\ spent.fault < MaxSignFault
  /\ spent' = [spent EXCEPT !.fault = @ + 1]
  /\ Reloaded
  /\ port' = <<>>
  /\ UNCHANGED <<disk, row>>

WorkerStep ==
  \/ UnlockRuns \/ ConnectOpens \/ ConnectReplies \/ DiscardErases \/ DiscardLocks

SignNext ==
  \/ RetryFires \/ WakeResync \/ StableFires
  \/ Login \/ LoginAnswered \/ EnrollAnswered \/ RetryEnroll \/ RetryWizardConnect
  \/ SignOutNewDevice \/ SelfDestruct
  \/ OnWorkerMessage \/ WorkerStep \/ ConnectFails \/ GrantArrives
  \/ SocketCloses \/ SiblingRevokes \/ PageReload

\* Timers fire, the worker runs what is queued, the port is drained, and requests
\* are answered.  Nothing is owed by the user, the gateway or the other devices.
SignFairness ==
  /\ WF_signVars(RetryFires) /\ WF_signVars(WorkerStep)
  /\ WF_signVars(OnWorkerMessage)

SignSpec == SignInit /\ [][SignNext]_signVars /\ SignFairness

-----------------------------------------------------------------------------
\* Type correctness.
SignTypeOK ==
  /\ ui \in [conn : {"offline", "connecting", "live", "secure"}, retry : BOOLEAN,
             stable : BOOLEAN, attempt : 0 .. MaxBackoff, user : BOOLEAN]
  /\ screen \in {"unlock", "wizard", "pairing", "home"}
  /\ flow \in {"none", "auth", "unlock", "connect", "enroll", "wizardEnroll",
               "wizardConnect", "signOut", "wipe"}
  /\ {stash, contact, unlocked} \subseteq BOOLEAN
  /\ phase \in {"queued", "opened"} /\ link \in {"none", "up", "down"}
  /\ disk \in [vault : BOOLEAN, authorized : BOOLEAN]
  /\ row \in {"none", "enrolled", "revoked", "gone"}

\* The reconnect engine redials exactly while it should: a signed-in client that
\* shows OFFLINE always has a retry armed (or a sign-in about to connect), and
\* once the user has left, no late reply or drop arms one again (app.ts: setConn,
\* scheduleReconnect, disarmReconnect, signOutNewDevice).
RetryArmed ==
  /\ (ui.user /\ ui.conn = "offline") => (ui.retry \/ flow = "connect")
  /\ ~ui.user => ~ui.retry

\* A signed-in client whose socket died gets a new one, without the user's help
\* (app.ts: scheduleReconnect, connectLive; groupchannel.ts: onClose).
OfflineRecovers == []<>~(ui.user /\ link = "down")

\* controller.ts:2181: "an abandoned add-device wizard leaves no orphaned seed or
\* 'authorized' marker on a seized device, and a later retry starts from a clean
\* unauthorized state".  Not an invariant of the code: see the README.
AbandonedIsClean == ~disk.vault => ~disk.authorized
=============================================================================
