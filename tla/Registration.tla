---------------------------- MODULE Registration ----------------------------
(***************************************************************************)
(* Creating an account: doRegister of app.ts over the vault of idb.ts, the *)
(* recovery seed and durable identity the controller seals, and the        *)
(* account server, which accepts a username hash once.  A refusal rolls    *)
(* the local state back with discardAccount, record by record, and the     *)
(* page may be reloaded between any two steps.  Each open page of the app  *)
(* has a registerInFlight of its own; the records are shared.              *)
(***************************************************************************)
EXTENDS Naturals, Sequences

CONSTANTS Page,       \* open pages of the app on this device
          Click,      \* presses of the register button that may overlap
          PageOf,     \* the page of each
          UserName,   \* usernames tried on this device
          MaxRegister, \* presses in all
          MaxRegFault, \* failed connects, failed requests, wrong passphrases, reloads
          LateError   \* may an error answer follow the server's commit?

ASSUME RegistrationAssumption ==
  /\ PageOf \in [Click -> Page]
  /\ MaxRegister \in Nat /\ MaxRegFault \in Nat /\ LateError \in BOOLEAN

VARIABLES local,    \* per name, the records this device keeps for it
          accounts, \* per name, who holds the account at the server
          regs,     \* per press, the name and where doRegister is suspended
          inFlight, \* the pages whose registerInFlight is set
          tried,    \* names whose request left and was not refused
          again,    \* names registered again after that, or in two pages at once
          late,     \* names whose creation was answered with an error
          regSpent  \* presses and faults so far

regVars == <<local, accounts, regs, inFlight, tried, again, late, regSpent>>

\* In the order discardAccount deletes them.
Records == <<"self", "aak", "vault">>

Keys == {"self", "aak", "vault"}

At(u, step) == [user |-> u, at |-> step]

RegInit ==
  /\ local = [u \in UserName |-> {}]
  /\ accounts \in [UserName -> {"none", "other"}]
  /\ regs = [c \in Click |-> [at |-> "idle"]]
  /\ inFlight = {} /\ tried = {} /\ again = {} /\ late = {}
  /\ regSpent = [press |-> 0, fault |-> 0]

RegFault == /\ regSpent.fault < MaxRegFault
            /\ regSpent' = [regSpent EXCEPT !.fault = @ + 1]

\* The `finally` of doRegister.
RegEnds(c) == /\ regs' = [regs EXCEPT ![c] = [at |-> "idle"]]
              /\ inFlight' = inFlight \ {PageOf[c]}

\* doRegisterInner goes on to its next await.
Goes(c, step) == /\ regs' = [regs EXCEPT ![c].at = step]
                 /\ UNCHANGED inFlight

-----------------------------------------------------------------------------

\* Another page is in the middle of registering u.
Elsewhere(c, u) ==
  \E d \in Click : PageOf[d] # PageOf[c] /\ regs[d].at # "idle" /\ regs[d].user = u

\* A run starts.  (Mutant: without the flag a second press starts a second run.)
RunStarts(c, u) ==
  /\ regs[c].at = "idle" /\ regSpent.press < MaxRegister
  /\ regs' = [regs EXCEPT ![c] = At(u, "unlock")]
  /\ inFlight' = inFlight \cup {PageOf[c]}
  /\ again' = IF u \in tried \/ Elsewhere(c, u) THEN again \cup {u} ELSE again
  /\ regSpent' = [regSpent EXCEPT !.press = @ + 1]
  /\ UNCHANGED <<local, accounts, tried, late>>

\* One registration at a time in a page.
DoRegister(c, u) ==
  /\ PageOf[c] \notin inFlight
  /\ RunStarts(c, u)

\* Opens the vault there is or creates one; doRegister never looks at `created`.
RegUnlock(c) ==
  /\ regs[c].at = "unlock"
  /\ \/ /\ local' = [local EXCEPT ![regs[c].user] = @ \cup {"vault"}]
        /\ Goes(c, "seed")
        /\ UNCHANGED regSpent
     \/ /\ "vault" \in local[regs[c].user]     \* wrong passphrase
        /\ RegEnds(c) /\ RegFault
        /\ UNCHANGED local
  /\ UNCHANGED <<accounts, tried, again, late>>

EnsureAccountSeed(c) ==
  /\ regs[c].at = "seed"
  /\ local' = [local EXCEPT ![regs[c].user] = @ \cup {"aak"}]
  /\ Goes(c, "connect")
  /\ UNCHANGED <<accounts, tried, again, late, regSpent>>

\* Connecting mints and seals the durable identity; a failed connect leaves no
\* device key and the registration is rolled back.
RegConnect(c) ==
  /\ regs[c].at = "connect"
  /\ \/ /\ local' = [local EXCEPT ![regs[c].user] = @ \cup {"self"}]
        /\ Goes(c, "post")
        /\ UNCHANGED regSpent
     \/ /\ Goes(c, "self") /\ RegFault
        /\ UNCHANGED local
  /\ UNCHANGED <<accounts, tried, again, late>>

\* UserStore::register: INSERT OR IGNORE, so the first writer owns the name.
InsertUser(u) == accounts' = [accounts EXCEPT ![u] = IF @ = "none" THEN "mine" ELSE @]

\* The server's transaction, and its answer.
ServerRegister(c) ==
  LET u == regs[c].user
  IN /\ regs[c].at = "post"
     /\ InsertUser(u)
     /\ Goes(c, IF accounts[u] = "none" THEN "created" ELSE "taken")
     /\ tried' = tried \cup {u}
     /\ UNCHANGED <<local, again, late, regSpent>>

\* No useful challenge, or an answer that is neither 201 nor 409.
ServerUnavailable(c) ==
  /\ \/ regs[c].at = "post"
     \/ LateError /\ regs[c].at = "created"
  /\ late' = IF regs[c].at = "created" THEN late \cup {regs[c].user} ELSE late
  /\ Goes(c, "self") /\ RegFault
  /\ UNCHANGED <<local, accounts, tried, again>>

\* fetch throws, before or after the server acted: the exception ends the run, and
\* nothing is rolled back.
FetchThrows(c) ==
  /\ regs[c].at \in {"post", "created", "taken"}
  /\ RegEnds(c) /\ RegFault
  /\ UNCHANGED <<local, accounts, tried, again, late>>

RegCreated(c) ==
  /\ regs[c].at = "created"
  /\ RegEnds(c)
  /\ UNCHANGED <<local, accounts, tried, again, late, regSpent>>

RegTaken(c) ==
  /\ regs[c].at = "taken"
  /\ Goes(c, "self")
  /\ tried' = tried \ {regs[c].user}
  /\ UNCHANGED <<local, accounts, again, late, regSpent>>

\* discardAccount deletes one record per await and then locks the controller.
DiscardAccount(c) ==
  \E i \in 1..Len(Records) :
    /\ regs[c].at = Records[i]
    /\ local' = [local EXCEPT ![regs[c].user] = @ \ {Records[i]}]
    /\ IF i < Len(Records) THEN Goes(c, Records[i + 1]) ELSE RegEnds(c)
    /\ UNCHANGED <<accounts, tried, again, late, regSpent>>

\* A reload of a page: its suspended run is gone; the records stay as they are.
RegReload(p) ==
  /\ \E c \in Click : PageOf[c] = p /\ regs[c].at # "idle"
  /\ RegFault
  /\ regs' = [c \in Click |-> IF PageOf[c] = p THEN [at |-> "idle"] ELSE regs[c]]
  /\ inFlight' = inFlight \ {p}
  /\ UNCHANGED <<local, accounts, tried, again, late>>

RegNext ==
  \/ \E c \in Click, u \in UserName : DoRegister(c, u)
  \/ \E c \in Click : \/ RegUnlock(c) \/ EnsureAccountSeed(c) \/ RegConnect(c)
                      \/ ServerRegister(c) \/ ServerUnavailable(c) \/ FetchThrows(c)
                      \/ RegCreated(c) \/ RegTaken(c) \/ DiscardAccount(c)
  \/ \E p \in Page : RegReload(p)

RegSpec == RegInit /\ [][RegNext]_regVars

-----------------------------------------------------------------------------
(* Type invariant of the registration state.                               *)
RegTypeOK ==
  /\ local \in [UserName -> SUBSET Keys]
  /\ accounts \in [UserName -> {"none", "mine", "other"}]
  /\ \A c \in Click : regs[c].at # "idle" => regs[c].user \in UserName
  /\ inFlight \subseteq Page /\ {tried, again, late} \subseteq SUBSET UserName

(* An account this device created at the server has its vault, its recovery *)
(* seed and its identity here, unless its name was registered once more     *)
(* after the request had left, or in two pages at once, or the server       *)
(* answered the creation with an error: no double click, refusal, reload or *)
(* failed connect in the middle of a registration, and no retry of one that *)
(* failed before its request, erases the only keys of a live account.  (The *)
(* comment in doRegister names the double click that once did.)             *)
KeysLostForCause ==
  \A u \in UserName : accounts[u] = "mine" => local[u] = Keys \/ u \in again \cup late

(* The same without the exceptions, as the comment in doRegister and its    *)
(* test have it.  Not a property of the code: see the README.               *)
AccountHasKeys == \A u \in UserName : accounts[u] = "mine" => local[u] = Keys
=============================================================================
