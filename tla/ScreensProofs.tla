---------------------------- MODULE ScreensProofs ----------------------------
(***************************************************************************)
(* Proofs about the windows, the conversation list, the registration form  *)
(* and the profile card, for every value of their constants.               *)
(***************************************************************************)
EXTENDS Desktop, Conversations, Registration, IdentityCard,
        SequenceTheorems, WellFoundedInduction, TLAPS

-----------------------------------------------------------------------------
(* Registration.                                                           *)

RegStep == {"unlock", "seed", "connect", "post", "created", "taken", "self", "aak", "vault"}

RegState == [at : {"idle"}] \cup [user : UserName, at : RegStep]

RegTypes ==
  /\ local \in [UserName -> SUBSET Keys]
  /\ accounts \in [UserName -> {"none", "mine", "other"}]
  /\ regs \in [Click -> RegState]
  /\ inFlight \subseteq Page /\ tried \subseteq UserName
  /\ again \subseteq UserName /\ late \subseteq UserName

\* The names whose keys may be lost.
Excused == again \cup late

\* registerInFlight: a page has at most one suspended run, and two pages that register
\* the same name are known to do so.
OneRun ==
  /\ \A c \in Click : regs[c].at # "idle" => PageOf[c] \in inFlight
  /\ \A c, d \in Click : c # d /\ regs[c].at # "idle" /\ regs[d].at # "idle" =>
       PageOf[c] # PageOf[d] /\ (regs[c].user = regs[d].user => regs[c].user \in Excused)

\* What a run suspended at a step of the registration of u has made so far, and whose
\* account u is: only a run whose request the server has accepted is about an account of
\* this device.
Knows(at, u) ==
  /\ at \notin {"created", "taken"} => accounts[u] # "mine"
  /\ at = "taken" => accounts[u] = "other"
  /\ at \in {"seed", "connect", "post"} => "vault" \in local[u]
  /\ at \in {"connect", "post"} => "aak" \in local[u]
  /\ at = "post" => "self" \in local[u]

RunKnows(c) == regs[c].at # "idle" => regs[c].user \in Excused \/ Knows(regs[c].at, regs[c].user)

\* A name whose account is ours has its keys, and its request has left.
NameKept(u) == accounts[u] = "mine" => u \in Excused \/ (local[u] = Keys /\ u \in tried)

RegInv ==
  /\ RegTypes /\ OneRun
  /\ (\A c \in Click : RunKnows(c)) /\ (\A u \in UserName : NameKept(u))

\* A step of the run c, which registers u and goes on at r, is right when it is right for
\* u: another run is about another name, or about an excused one.
LEMMA RunStep ==
  ASSUME RegInv, NEW c \in Click, NEW u \in UserName, NEW r \in RegState,
         regs[c].at # "idle", regs[c].user = u, regs' = [regs EXCEPT ![c] = r],
         \/ r.at # "idle" /\ r.user = u /\ inFlight' = inFlight
         \/ r.at = "idle" /\ inFlight' = inFlight \ {PageOf[c]},
         RegTypes', again' = again, late \subseteq late',
         \A w \in UserName : w # u => local'[w] = local[w] /\ accounts'[w] = accounts[w],
         tried \ {u} \subseteq tried',
         u \in Excused' \/ r.at = "idle" \/ Knows(r.at, u)', NameKept(u)'
  PROVE  RegInv'
<1>1. RegTypes /\ OneRun
  BY DEF RegInv
<1>2. regs'[c] = r /\ \A d \in Click : d # c => regs'[d] = regs[d]
  BY <1>1 DEF RegTypes
<1>3. Excused \subseteq Excused'
  BY DEF Excused
<1>4. ASSUME NEW d \in Click PROVE RunKnows(d)'
  <2>1. CASE d = c
    BY <1>2, <2>1 DEF RunKnows
  <2>2. CASE d # c
    <3> SUFFICES ASSUME regs[d].at # "idle"
                 PROVE  regs[d].user \in Excused' \/ Knows(regs[d].at, regs[d].user)'
      BY <1>2, <2>2 DEF RunKnows
    <3>1. regs[d] \in [user : UserName, at : RegStep]
      BY <1>1 DEF RegTypes, RegState
    <3>2. CASE regs[d].user = u
      BY <1>1, <1>3, <2>2, <3>2 DEF OneRun
    <3>3. CASE regs[d].user # u
      <4>1. regs[d].user \in Excused \/ Knows(regs[d].at, regs[d].user)
        BY DEF RegInv, RunKnows
      <4>2. PICK w \in UserName : w = regs[d].user
        BY <3>1
      <4>3. accounts'[w] = accounts[w] /\ local'[w] = local[w] /\ regs'[d] = regs[d]
        BY <1>2, <2>2, <3>3, <4>2
      <4> QED BY <1>3, <4>1, <4>2, <4>3 DEF Knows
    <3> QED BY <3>2, <3>3
  <2> QED BY <2>1, <2>2
<1>5. OneRun'
  <2>1. ASSUME NEW d \in Click, regs'[d].at # "idle" PROVE PageOf[d] \in inFlight'
    <3>1. regs[d].at # "idle" /\ (d = c => r.at # "idle")
      BY <1>2, <2>1
    <3> QED BY <1>1, <3>1 DEF OneRun
  <2>2. ASSUME NEW d \in Click, NEW e \in Click, d # e, regs'[d].at # "idle", regs'[e].at # "idle"
        PROVE  PageOf[d] # PageOf[e] /\ (regs'[d].user = regs'[e].user => regs'[d].user \in Excused')
    <3>1. regs[d].at # "idle" /\ regs[e].at # "idle" /\ regs'[d].user = regs[d].user
          /\ regs'[e].user = regs[e].user
      BY <1>2, <2>2
    <3> QED BY <1>1, <1>3, <2>2, <3>1 DEF OneRun
  <2> QED BY <2>1, <2>2 DEF OneRun
<1>6. ASSUME NEW w \in UserName PROVE NameKept(w)'
  <2>1. CASE w = u
    BY <2>1 DEF NameKept
  <2>2. CASE w # u
    <3>1. NameKept(w) /\ local'[w] = local[w] /\ accounts'[w] = accounts[w] /\ (w \in tried => w \in tried')
      BY <2>2 DEF RegInv
    <3> QED BY <1>3, <3>1 DEF NameKept
  <2> QED BY <2>1, <2>2
<1> QED BY <1>4, <1>5, <1>6 DEF RegInv

\* One step of registration preserves RegInv.
LEMMA RegStepKeeps ==
  ASSUME RegInv, [RegNext]_regVars
  PROVE  RegInv'
<1>0. /\ RegTypes /\ OneRun /\ (\A c \in Click : RunKnows(c)) /\ (\A u \in UserName : NameKept(u))
      /\ local \in [UserName -> SUBSET Keys] /\ regs \in [Click -> RegState]
      /\ accounts \in [UserName -> {"none", "mine", "other"}]
  BY DEF RegInv, RegTypes
<1>1. ASSUME NEW c \in Click, NEW u \in UserName, DoRegister(c, u) PROVE RegInv'
  <2>1. PICK r : r = At(u, "unlock")
    OBVIOUS
  <2>2. r \in RegState /\ r.user = u /\ r.at = "unlock"
    BY <2>1 DEF At, RegState, RegStep
  <2>3. /\ PageOf[c] \notin inFlight /\ regs[c].at = "idle" /\ regs' = [regs EXCEPT ![c] = r]
        /\ inFlight' = inFlight \cup {PageOf[c]} /\ UNCHANGED <<local, accounts, tried, late>>
        /\ again' = IF u \in tried \/ Elsewhere(c, u) THEN again \cup {u} ELSE again
    BY <1>1, <2>1 DEF DoRegister, RunStarts
  <2>4. regs'[c] = r /\ \A d \in Click : d # c => regs'[d] = regs[d]
    BY <1>0, <2>3
  <2>5. RegTypes'
    BY <1>0, <2>2, <2>3, RegistrationAssumption DEF RegTypes
  <2>6. Excused \subseteq Excused' /\ (u \in tried \/ Elsewhere(c, u) => u \in Excused')
    BY <2>3 DEF Excused
  <2>7. ASSUME NEW d \in Click PROVE RunKnows(d)'
    <3>1. CASE d = c
      <4>1. u \in Excused \/ u \in tried \/ accounts[u] # "mine"
        BY <1>0 DEF NameKept
      <4>2. u \in Excused' \/ Knows("unlock", u)'
        BY <2>3, <2>6, <4>1 DEF Knows
      <4> QED BY <2>2, <2>4, <3>1, <4>2 DEF RunKnows
    <3>2. CASE d # c
      <4>1. regs'[d] = regs[d] /\ RunKnows(d)
        BY <1>0, <2>4, <3>2
      <4> QED BY <2>3, <2>6, <4>1 DEF RunKnows, Knows
    <3> QED BY <3>1, <3>2
  <2>8. OneRun'
    <3>1. ASSUME NEW d \in Click, regs'[d].at # "idle" PROVE PageOf[d] \in inFlight'
      BY <1>0, <2>3, <2>4, <3>1 DEF OneRun
    <3>2. ASSUME NEW d \in Click, d # c, regs[d].at # "idle"
          PROVE  PageOf[d] # PageOf[c] /\ (regs[d].user = u => u \in Excused')
      <4>1. PageOf[d] # PageOf[c]
        BY <1>0, <2>3, <3>2 DEF OneRun
      <4> QED BY <2>6, <3>2, <4>1 DEF Elsewhere
    <3>3. ASSUME NEW d \in Click, NEW e \in Click, d # e, regs'[d].at # "idle", regs'[e].at # "idle"
          PROVE  PageOf[d] # PageOf[e] /\ (regs'[d].user = regs'[e].user => regs'[d].user \in Excused')
      <4>1. CASE d = c
        BY <2>2, <2>4, <3>2, <3>3, <4>1
      <4>2. CASE e = c
        BY <2>2, <2>4, <3>2, <3>3, <4>2
      <4>3. CASE d # c /\ e # c
        BY <1>0, <2>4, <2>6, <3>3, <4>3 DEF OneRun
      <4> QED BY <4>1, <4>2, <4>3
    <3> QED BY <3>1, <3>3 DEF OneRun
  <2>9. \A w \in UserName : NameKept(w)'
    BY <1>0, <2>3, <2>6 DEF NameKept
  <2> QED BY <2>5, <2>7, <2>8, <2>9 DEF RegInv
<1>2. ASSUME NEW c \in Click, regs[c].at # "idle", NEW step \in RegStep, Goes(c, step)
      PROVE  \E u \in UserName, r \in RegState :
               /\ regs[c].user = u /\ regs' = [regs EXCEPT ![c] = r] /\ inFlight' = inFlight
               /\ r.at = step /\ r.at # "idle" /\ r.user = u /\ regs' \in [Click -> RegState]
  <2>1. regs[c] \in [user : UserName, at : RegStep]
    BY <1>0, <1>2 DEF RegState
  <2>2. PICK r : r = [regs[c] EXCEPT !.at = step]
    OBVIOUS
  <2>3. r \in RegState /\ r.at = step /\ r.user = regs[c].user
    BY <2>1, <2>2 DEF RegState
  <2>4. regs' = [regs EXCEPT ![c] = r] /\ inFlight' = inFlight
    BY <1>2, <2>2 DEF Goes
  <2>5. regs' \in [Click -> RegState] /\ step # "idle"
    BY <1>0, <2>3, <2>4 DEF RegStep
  <2> QED BY <2>1, <2>3, <2>4, <2>5
<1>3. ASSUME NEW c \in Click, regs[c].at # "idle", RegEnds(c)
      PROVE  \E u \in UserName, r \in RegState :
               /\ regs[c].user = u /\ regs' = [regs EXCEPT ![c] = r] /\ inFlight' = inFlight \ {PageOf[c]}
               /\ r.at = "idle" /\ regs' \in [Click -> RegState]
  <2>1. regs[c] \in [user : UserName, at : RegStep]
    BY <1>0, <1>3 DEF RegState
  <2>2. PICK r : r = [at |-> "idle"]
    OBVIOUS
  <2>3. r \in RegState /\ r.at = "idle"
    BY <2>2 DEF RegState
  <2>4. regs' = [regs EXCEPT ![c] = r] /\ inFlight' = inFlight \ {PageOf[c]}
    BY <1>3, <2>2 DEF RegEnds
  <2> QED BY <1>0, <2>1, <2>3, <2>4
<1>4. ASSUME NEW c \in Click, regs[c].at # "idle", RegEnds(c),
             UNCHANGED <<local, accounts, tried, again, late>>
      PROVE  RegInv'
  <2>1. PICK u \in UserName, r \in RegState :
          /\ regs[c].user = u /\ regs' = [regs EXCEPT ![c] = r] /\ inFlight' = inFlight \ {PageOf[c]}
          /\ r.at = "idle" /\ regs' \in [Click -> RegState]
    BY <1>3, <1>4
  <2>2. RegTypes' /\ NameKept(u)'
    BY <1>0, <1>4, <2>1 DEF RegTypes, NameKept, Excused
  <2> QED BY <1>4, <2>1, <2>2, RunStep
<1>5. ASSUME NEW c \in Click, RegUnlock(c) PROVE RegInv'
  <2>1. regs[c].at = "unlock" /\ UNCHANGED <<accounts, tried, again, late>>
    BY <1>5 DEF RegUnlock
  <2>2. CASE Goes(c, "seed") /\ local' = [local EXCEPT ![regs[c].user] = @ \cup {"vault"}]
    <3>1. PICK u \in UserName, r \in RegState :
            /\ regs[c].user = u /\ regs' = [regs EXCEPT ![c] = r] /\ inFlight' = inFlight
            /\ r.at = "seed" /\ r.user = u /\ regs' \in [Click -> RegState]
      BY <1>2, <2>1, <2>2 DEF RegStep
    <3>2. u \in Excused \/ Knows("unlock", u)
      BY <1>0, <2>1, <3>1 DEF RunKnows
    <3>3. local'[u] = local[u] \cup {"vault"} /\ local' \in [UserName -> SUBSET Keys]
          /\ \A w \in UserName : w # u => local'[w] = local[w]
      BY <1>0, <2>2, <3>1 DEF Keys
    <3>4. u \in Excused' \/ (Knows(r.at, u)' /\ accounts'[u] # "mine")
      BY <2>1, <3>1, <3>2, <3>3 DEF Knows, Excused
    <3>5. RegTypes'
      BY <1>0, <2>1, <3>1, <3>3 DEF RegTypes
    <3>6. NameKept(u)'
      BY <3>4 DEF NameKept
    <3> QED BY <2>1, <3>1, <3>3, <3>4, <3>5, <3>6, RunStep
  <2>3. CASE RegEnds(c) /\ UNCHANGED local
    BY <1>4, <2>1, <2>3
  <2> QED BY <1>5, <2>2, <2>3 DEF RegUnlock
<1>6. ASSUME NEW c \in Click, EnsureAccountSeed(c) PROVE RegInv'
  <2>1. /\ regs[c].at = "seed" /\ Goes(c, "connect") /\ UNCHANGED <<accounts, tried, again, late>>
        /\ local' = [local EXCEPT ![regs[c].user] = @ \cup {"aak"}]
    BY <1>6 DEF EnsureAccountSeed
  <2>2. PICK u \in UserName, r \in RegState :
          /\ regs[c].user = u /\ regs' = [regs EXCEPT ![c] = r] /\ inFlight' = inFlight
          /\ r.at = "connect" /\ r.user = u /\ regs' \in [Click -> RegState]
    BY <1>2, <2>1 DEF RegStep
  <2>3. u \in Excused \/ Knows("seed", u)
    BY <1>0, <2>1, <2>2 DEF RunKnows
  <2>4. local'[u] = local[u] \cup {"aak"} /\ local' \in [UserName -> SUBSET Keys]
        /\ \A w \in UserName : w # u => local'[w] = local[w]
    BY <1>0, <2>1, <2>2 DEF Keys
  <2>5. u \in Excused' \/ (Knows(r.at, u)' /\ accounts'[u] # "mine")
    BY <2>1, <2>2, <2>3, <2>4 DEF Knows, Excused
  <2>6. RegTypes' /\ NameKept(u)'
    BY <1>0, <2>1, <2>2, <2>4, <2>5 DEF RegTypes, NameKept
  <2> QED BY <2>1, <2>2, <2>4, <2>5, <2>6, RunStep
<1>7. ASSUME NEW c \in Click, RegConnect(c) PROVE RegInv'
  <2>1. regs[c].at = "connect" /\ UNCHANGED <<accounts, tried, again, late>>
    BY <1>7 DEF RegConnect
  <2>2. CASE Goes(c, "post") /\ local' = [local EXCEPT ![regs[c].user] = @ \cup {"self"}]
    <3>1. PICK u \in UserName, r \in RegState :
            /\ regs[c].user = u /\ regs' = [regs EXCEPT ![c] = r] /\ inFlight' = inFlight
            /\ r.at = "post" /\ r.user = u /\ regs' \in [Click -> RegState]
      BY <1>2, <2>1, <2>2 DEF RegStep
    <3>2. u \in Excused \/ Knows("connect", u)
      BY <1>0, <2>1, <3>1 DEF RunKnows
    <3>3. local'[u] = local[u] \cup {"self"} /\ local' \in [UserName -> SUBSET Keys]
          /\ \A w \in UserName : w # u => local'[w] = local[w]
      BY <1>0, <2>2, <3>1 DEF Keys
    <3>4. u \in Excused' \/ (Knows(r.at, u)' /\ accounts'[u] # "mine")
      BY <2>1, <3>1, <3>2, <3>3 DEF Knows, Excused
    <3>5. RegTypes' /\ NameKept(u)'
      BY <1>0, <2>1, <3>1, <3>3, <3>4 DEF RegTypes, NameKept
    <3> QED BY <2>1, <3>1, <3>3, <3>4, <3>5, RunStep
  <2>3. CASE Goes(c, "self") /\ UNCHANGED local
    <3>1. PICK u \in UserName, r \in RegState :
            /\ regs[c].user = u /\ regs' = [regs EXCEPT ![c] = r] /\ inFlight' = inFlight
            /\ r.at = "self" /\ r.user = u /\ regs' \in [Click -> RegState]
      BY <1>2, <2>1, <2>3 DEF RegStep
    <3>2. u \in Excused \/ Knows("connect", u)
      BY <1>0, <2>1, <3>1 DEF RunKnows
    <3>3. u \in Excused' \/ (Knows(r.at, u)' /\ accounts'[u] # "mine")
      BY <2>1, <2>3, <3>1, <3>2 DEF Knows, Excused
    <3>4. RegTypes' /\ NameKept(u)'
      BY <1>0, <2>1, <2>3, <3>1, <3>3 DEF RegTypes, NameKept
    <3> QED BY <2>1, <2>3, <3>1, <3>3, <3>4, RunStep
  <2> QED BY <1>7, <2>2, <2>3 DEF RegConnect
<1>8. ASSUME NEW c \in Click, ServerRegister(c) PROVE RegInv'
  <2>1. /\ regs[c].at = "post" /\ UNCHANGED <<local, again, late>>
        /\ tried' = tried \cup {regs[c].user}
        /\ accounts' = [accounts EXCEPT ![regs[c].user] = IF @ = "none" THEN "mine" ELSE @]
        /\ Goes(c, IF accounts[regs[c].user] = "none" THEN "created" ELSE "taken")
    BY <1>8 DEF ServerRegister, InsertUser
  <2>2. PICK step \in {"created", "taken"} :
          step = IF accounts[regs[c].user] = "none" THEN "created" ELSE "taken"
    OBVIOUS
  <2>3. PICK u \in UserName, r \in RegState :
          /\ regs[c].user = u /\ regs' = [regs EXCEPT ![c] = r] /\ inFlight' = inFlight
          /\ r.at = step /\ r.at # "idle" /\ r.user = u /\ regs' \in [Click -> RegState]
    BY <1>2, <2>1, <2>2 DEF RegStep
  <2>4. u \in Excused \/ Knows("post", u)
    BY <1>0, <2>1, <2>3 DEF RunKnows
  <2>5. /\ accounts'[u] = IF accounts[u] = "none" THEN "mine" ELSE accounts[u]
        /\ accounts' \in [UserName -> {"none", "mine", "other"}]
        /\ \A w \in UserName : w # u => accounts'[w] = accounts[w]
    BY <1>0, <2>1, <2>3
  <2>6. u \in Excused' \/ (accounts[u] # "mine" /\ local[u] = Keys)
    BY <1>0, <2>1, <2>4 DEF Knows, Excused, Keys
  <2>7. u \in Excused' \/ Knows(r.at, u)'
    BY <1>0, <2>2, <2>3, <2>5, <2>6 DEF Knows
  <2>8. RegTypes' /\ NameKept(u)'
    BY <1>0, <2>1, <2>3, <2>5, <2>6 DEF RegTypes, NameKept
  <2> QED BY <2>1, <2>3, <2>5, <2>7, <2>8, RunStep
<1>9. ASSUME NEW c \in Click, ServerUnavailable(c) PROVE RegInv'
  <2>1. /\ regs[c].at \in {"post", "created"} /\ Goes(c, "self")
        /\ UNCHANGED <<local, accounts, tried, again>>
        /\ late' = IF regs[c].at = "created" THEN late \cup {regs[c].user} ELSE late
    BY <1>9 DEF ServerUnavailable
  <2>2. PICK u \in UserName, r \in RegState :
          /\ regs[c].user = u /\ regs' = [regs EXCEPT ![c] = r] /\ inFlight' = inFlight
          /\ r.at = "self" /\ r.user = u /\ regs' \in [Click -> RegState]
    BY <1>2, <2>1 DEF RegStep
  <2>3. u \in Excused \/ Knows(regs[c].at, u)
    BY <1>0, <2>1, <2>2 DEF RunKnows
  <2>4. u \in Excused' \/ (Knows(r.at, u)' /\ accounts'[u] # "mine")
    BY <2>1, <2>2, <2>3 DEF Knows, Excused
  <2>5. RegTypes' /\ NameKept(u)'
    BY <1>0, <2>1, <2>2, <2>4 DEF RegTypes, NameKept
  <2> QED BY <2>1, <2>2, <2>4, <2>5, RunStep
<1>10. ASSUME NEW c \in Click, FetchThrows(c) \/ RegCreated(c) PROVE RegInv'
  BY <1>4, <1>10 DEF FetchThrows, RegCreated
<1>11. ASSUME NEW c \in Click, RegTaken(c) PROVE RegInv'
  <2>1. /\ regs[c].at = "taken" /\ Goes(c, "self") /\ UNCHANGED <<local, accounts, again, late>>
        /\ tried' = tried \ {regs[c].user}
    BY <1>11 DEF RegTaken
  <2>2. PICK u \in UserName, r \in RegState :
          /\ regs[c].user = u /\ regs' = [regs EXCEPT ![c] = r] /\ inFlight' = inFlight
          /\ r.at = "self" /\ r.user = u /\ regs' \in [Click -> RegState]
    BY <1>2, <2>1 DEF RegStep
  <2>3. u \in Excused \/ Knows("taken", u)
    BY <1>0, <2>1, <2>2 DEF RunKnows
  <2>4. u \in Excused' \/ (Knows(r.at, u)' /\ accounts'[u] # "mine")
    BY <2>1, <2>2, <2>3 DEF Knows, Excused
  <2>5. RegTypes' /\ NameKept(u)'
    BY <1>0, <2>1, <2>2, <2>4 DEF RegTypes, NameKept
  <2> QED BY <2>1, <2>2, <2>4, <2>5, RunStep
<1>12. ASSUME NEW c \in Click, DiscardAccount(c) PROVE RegInv'
  <2>1. PICK i \in 1..Len(Records) :
          /\ regs[c].at = Records[i]
          /\ local' = [local EXCEPT ![regs[c].user] = @ \ {Records[i]}]
          /\ IF i < Len(Records) THEN Goes(c, Records[i + 1]) ELSE RegEnds(c)
          /\ UNCHANGED <<accounts, tried, again, late>>
    BY <1>12 DEF DiscardAccount
  <2>2. Len(Records) = 3 /\ i \in 1..3 /\ Records[1] = "self" /\ Records[2] = "aak" /\ Records[3] = "vault"
    BY <2>1 DEF Records
  <2>3. regs[c].at \in {"self", "aak", "vault"}
    BY <2>1, <2>2
  <2>4. PICK u \in UserName, r \in RegState :
          /\ regs[c].user = u /\ regs' = [regs EXCEPT ![c] = r] /\ regs' \in [Click -> RegState]
          /\ \/ r.at \in {"aak", "vault"} /\ r.user = u /\ inFlight' = inFlight
             \/ r.at = "idle" /\ inFlight' = inFlight \ {PageOf[c]}
    <3>1. CASE i < 3
      <4>1. Goes(c, Records[i + 1]) /\ Records[i + 1] \in {"aak", "vault"}
        BY <2>1, <2>2, <3>1
      <4> QED BY <1>2, <2>3, <4>1 DEF RegStep
    <3>2. CASE i = 3
      <4>1. RegEnds(c)
        BY <2>1, <2>2, <3>2
      <4> QED BY <1>3, <2>3, <4>1
    <3> QED BY <2>2, <3>1, <3>2
  <2>5. u \in Excused \/ Knows(regs[c].at, u)
    BY <1>0, <2>3, <2>4 DEF RunKnows
  <2>6. u \in Excused' \/ accounts'[u] # "mine"
    BY <2>1, <2>3, <2>5 DEF Knows, Excused
  <2>7. local' \in [UserName -> SUBSET Keys] /\ \A w \in UserName : w # u => local'[w] = local[w]
    BY <1>0, <2>1, <2>4
  <2>8. u \in Excused' \/ r.at = "idle" \/ Knows(r.at, u)'
    BY <2>4, <2>6 DEF Knows
  <2>9. RegTypes' /\ NameKept(u)'
    BY <1>0, <2>1, <2>4, <2>6, <2>7 DEF RegTypes, NameKept
  <2> QED BY <2>1, <2>3, <2>4, <2>7, <2>8, <2>9, RunStep
<1>13. ASSUME NEW p \in Page, RegReload(p) PROVE RegInv'
  <2>1. /\ regs' = [c \in Click |-> IF PageOf[c] = p THEN [at |-> "idle"] ELSE regs[c]]
        /\ inFlight' = inFlight \ {p} /\ UNCHANGED <<local, accounts, tried, again, late>>
    BY <1>13 DEF RegReload
  <2>2. RegTypes' /\ \A u \in UserName : NameKept(u)'
    BY <1>0, <2>1 DEF RegTypes, NameKept, Excused, RegState
  <2>3. ASSUME NEW c \in Click, regs'[c].at # "idle" PROVE regs'[c] = regs[c] /\ PageOf[c] # p
    BY <2>1, <2>3
  <2>4. \A c \in Click : RunKnows(c)'
    BY <1>0, <2>1, <2>3 DEF RunKnows, Knows, Excused
  <2>5. OneRun'
    BY <1>0, <2>1, <2>3 DEF OneRun, Excused
  <2> QED BY <2>2, <2>4, <2>5 DEF RegInv
<1>14. CASE UNCHANGED regVars
  BY <1>0, <1>14 DEF regVars, RegInv, RegTypes, OneRun, RunKnows, Knows, NameKept, Excused
<1> QED BY <1>1, <1>5, <1>6, <1>7, <1>8, <1>9, <1>10, <1>11, <1>12, <1>13, <1>14 DEF RegNext

\* An account this device created keeps its keys unless its name is registered once more
\* or in two pages, or its creation is answered with an error: for any number of pages,
\* presses, names and faults.
THEOREM AccountKeepsKeys == RegSpec => []KeysLostForCause
<1>1. RegInit => RegInv
  <2> SUFFICES ASSUME RegInit PROVE RegInv
    OBVIOUS
  <2>1. RegTypes
    BY DEF RegInit, RegTypes, RegState
  <2>2. \A c \in Click : regs[c].at = "idle"
    BY DEF RegInit
  <2>3. \A u \in UserName : accounts[u] # "mine"
    BY DEF RegInit
  <2> QED BY <2>1, <2>2, <2>3 DEF RegInv, OneRun, RunKnows, NameKept
<1>2. RegInv /\ [RegNext]_regVars => RegInv'
  BY RegStepKeeps
<1>3. RegInv => KeysLostForCause
  BY DEF RegInv, NameKept, Excused, KeysLostForCause
<1> QED BY <1>1, <1>2, <1>3, PTL DEF RegSpec

-----------------------------------------------------------------------------
(* Conversations.                                                          *)

\* The fields of a worker, of its job and of the store.
IsJob(j) == \E op, cs, seen : j = [op |-> op, conv |-> cs, seen |-> seen]
TabOf(p, w, s, c, j, i) ==
  [phase |-> p, wasm |-> w, sessions |-> s, cache |-> c, job |-> j, inbox |-> i]
DiskOf(b, r, c, s, k, l) ==
  [blob |-> b, rows |-> r, closed |-> c, selfs |-> s, blocked |-> k, lock |-> l]
IsTab(r) == \E p, w, s, c, j, i : IsJob(j) /\ r = TabOf(p, w, s, c, j, i)
IsDisk(d) == \E b, r, c, s, k, l : d = DiskOf(b, r, c, s, k, l)

\* The tab that records a closed id holds the lock, and what it read is still current.
Recording(t) == tabs[t].job.op = "recording" => disk.lock = t /\ tabs[t].job.seen = disk.closed

ConvInv ==
  /\ IsDisk(disk) /\ DOMAIN tabs = Tab /\ tabs = [t \in Tab |-> tabs[t]]
  /\ \A t \in Tab : IsTab(tabs[t]) /\ Recording(t)
  /\ SessionIsHeld

\* A step of one tab that does not lock the closed set: it leaves that tab's worker with
\* sessions that are held, and does not disturb what is being recorded.
LEMMA TabStep ==
  ASSUME ConvInv, NEW t \in Tab, NEW r, IsTab(r), tabs' = [tabs EXCEPT ![t] = r],
         IsDisk(disk'), disk'.closed = disk.closed, disk'.lock = disk.lock,
         r.phase \notin {"down", "restoring"} => r.sessions \subseteq r.wasm,
         r.job.op = "recording" => r.job = tabs[t].job
  PROVE  ConvInv' /\ disk.closed \subseteq disk'.closed
<1>1. DOMAIN tabs = Tab /\ DOMAIN tabs' = Tab /\ tabs' = [x \in Tab |-> tabs'[x]]
  BY DEF ConvInv
<1>2. \A x \in Tab : tabs'[x] = IF x = t THEN r ELSE tabs[x]
  BY <1>1
<1>3. \A x \in Tab : Recording(x)'
  BY <1>2 DEF ConvInv, Recording
<1>4. SessionIsHeld'
  BY <1>2 DEF ConvInv, SessionIsHeld
<1>5. \A x \in Tab : IsTab(tabs'[x])
  BY <1>2 DEF ConvInv
<1> QED BY <1>1, <1>3, <1>4, <1>5 DEF ConvInv, IsTab, IsDisk, IsJob, TabOf, DiskOf

\* The invariant holds at the start: every tab is closed and nobody records.
LEMMA ConvInitHolds == ConvInit => ConvInv
<1> SUFFICES ASSUME ConvInit PROVE ConvInv
  OBVIOUS
<1>1. /\ Closed = TabOf("down", {}, {}, {}, Idle, {}) /\ Idle = [op |-> "none", conv |-> {}, seen |-> {}]
      /\ Closed.phase = "down" /\ Closed.job.op = "none"
  BY DEF Closed, Idle, TabOf
<1>2. IsTab(Closed)
  BY <1>1 DEF IsTab, IsJob
<1>3. tabs = [t \in Tab |-> Closed]
  BY DEF ConvInit
<1>4. \A t \in Tab : IsTab(tabs[t]) /\ Recording(t)
  BY <1>1, <1>2, <1>3 DEF Recording
<1>5. IsDisk(disk)
  BY DEF ConvInit, IsDisk, DiskOf
<1>6. SessionIsHeld
  BY <1>1, <1>3 DEF SessionIsHeld
<1> QED BY <1>3, <1>4, <1>5, <1>6 DEF ConvInv

\* Every step keeps ConvInv, and takes no id out of the closed set.
LEMMA ConvStepKeeps ==
  ASSUME ConvInv, [ConvNext]_convVars
  PROVE  ConvInv' /\ disk.closed \subseteq disk'.closed
<1> DEFINE Goal == ConvInv' /\ disk.closed \subseteq disk'.closed
<1>0. /\ IsDisk(disk) /\ DOMAIN tabs = Tab /\ tabs = [t \in Tab |-> tabs[t]]
      /\ \A t \in Tab : IsTab(tabs[t]) /\ Recording(t)
      /\ \A t \in Tab : tabs[t].phase \notin {"down", "restoring"} => tabs[t].sessions \subseteq tabs[t].wasm
  BY DEF ConvInv, SessionIsHeld
<1>1. ASSUME NEW t \in Tab, NEW p, NEW w, NEW s, NEW c, NEW j, NEW i, NEW d,
             tabs' = [tabs EXCEPT ![t] =
                        TabOf(p, w, s, c, j, i)],
             IsJob(j), disk' = d, IsDisk(d), d.closed = disk.closed, d.lock = disk.lock,
             p \notin {"down", "restoring"} => s \subseteq w,
             j.op = "recording" => j = tabs[t].job
      PROVE  Goal
  <2>1. PICK r : r = TabOf(p, w, s, c, j, i)
    OBVIOUS
  <2>2. /\ IsTab(r) /\ tabs' = [tabs EXCEPT ![t] = r]
        /\ r.phase = p /\ r.sessions = s /\ r.wasm = w /\ r.job = j
    BY <1>1, <2>1 DEF IsTab, TabOf
  <2> QED BY <1>1, <2>2, TabStep
<1>2. ASSUME tabs' = tabs, NEW d, disk' = d, IsDisk(d), d.closed = disk.closed, d.lock = disk.lock
      PROVE  Goal
  <2>1. IsDisk(disk') /\ disk'.closed = disk.closed /\ disk'.lock = disk.lock
    BY <1>2
  <2>2. \A t \in Tab : Recording(t)'
    BY <1>0, <1>2, <2>1 DEF Recording
  <2>3. SessionIsHeld'
    BY <1>0, <1>2 DEF SessionIsHeld
  <2>4. \A t \in Tab : IsTab(tabs'[t])
    BY <1>0, <1>2
  <2> QED BY <1>0, <1>2, <2>1, <2>2, <2>3, <2>4 DEF ConvInv, IsTab, IsDisk, IsJob, TabOf, DiskOf
<1>3. ASSUME CommitWrite PROVE Goal
  <2>1. PICK d : d = [disk EXCEPT !.blob = Head(writes).groups]
    OBVIOUS
  <2>2. IsDisk(d) /\ d.closed = disk.closed /\ d.lock = disk.lock
    BY <1>0, <2>1 DEF IsDisk, DiskOf
  <2>3. tabs' = tabs /\ disk' = d
    BY <1>3, <2>1 DEF CommitWrite
  <2> QED BY <1>2, <2>2, <2>3
<1>4. ASSUME NEW c \in Conversation, Invite(c) PROVE Goal
  <2>1. /\ disk' = disk
        /\ tabs' = [t \in Tab |-> IF Receiving(t) THEN [tabs[t] EXCEPT !.inbox = @ \cup {c}] ELSE tabs[t]]
    BY <1>4 DEF Invite
  <2>2. ASSUME NEW t \in Tab
        PROVE  /\ IsTab(tabs'[t]) /\ tabs'[t].phase = tabs[t].phase /\ tabs'[t].job = tabs[t].job
               /\ tabs'[t].sessions = tabs[t].sessions /\ tabs'[t].wasm = tabs[t].wasm
    <3>1. tabs'[t] = tabs[t] \/ tabs'[t] = [tabs[t] EXCEPT !.inbox = @ \cup {c}]
      BY <2>1
    <3>2. PICK p, w, s, ch, j, i : /\ IsJob(j)
              /\ tabs[t] = TabOf(p, w, s, ch, j, i)
      BY <1>0 DEF IsTab
    <3>3. tabs'[t] = TabOf(p, w, s, ch, j, i)
          \/ tabs'[t] = TabOf(p, w, s, ch, j, i \cup {c})
      BY <3>1, <3>2 DEF TabOf
    <3>4. PICK z, r : /\ z \in {i, i \cup {c}} /\ tabs'[t] = r
                      /\ r = TabOf(p, w, s, ch, j, z)
      BY <3>3
    <3>5. IsTab(r)
      BY <3>2, <3>4 DEF IsTab
    <3>6. r.phase = p /\ r.job = j /\ r.sessions = s /\ r.wasm = w
      BY <3>4 DEF TabOf
    <3> QED BY <3>2, <3>4, <3>5, <3>6 DEF TabOf
  <2>3. DOMAIN tabs' = Tab /\ tabs' = [t \in Tab |-> tabs'[t]]
    BY <2>1
  <2>4. \A t \in Tab : Recording(t)'
    BY <1>0, <2>1, <2>2 DEF Recording
  <2>5. SessionIsHeld'
    BY <1>0, <2>2 DEF SessionIsHeld
  <2> QED BY <1>0, <2>1, <2>2, <2>3, <2>4, <2>5 DEF ConvInv, IsTab, IsDisk, IsJob, TabOf, DiskOf
<1>5. ASSUME NEW t \in Tab,
             \/ LoadSelf(t) \/ ConnectStep(t) \/ CloseStep(t)
             \/ ListChannels(t) \/ SealAgain(t) \/ Unblock(t) \/ TabDies(t)
             \/ \E c \in Conversation : \/ StartConversation(t, c) \/ OnWelcome(t, c)
                                        \/ EvictedFrom(t, c)
                                        \/ RemoveConversation(t, c) \/ BlockConversation(t, c)
      PROVE  Goal
  <2>1. PICK me, p, w, s, ch, j, i : IsJob(j) /\ tabs[t] = me /\ me = TabOf(p, w, s, ch, j, i)
    BY <1>0 DEF IsTab
  <2>0. me = TabOf(p, w, s, ch, j, i)
    BY <2>1
  <2>2. PICK store, b, rw, cl, sf, bk, lk : disk = store /\ store = DiskOf(b, rw, cl, sf, bk, lk)
    BY <1>0 DEF IsDisk
  <2>3. PICK op, cs, seen : j = [op |-> op, conv |-> cs, seen |-> seen]
    BY <2>1 DEF IsJob
  <2>4. p \notin {"down", "restoring"} => s \subseteq w
    BY <1>0, <2>1 DEF TabOf
  <2>5. /\ tabs[t].phase = p /\ tabs[t].wasm = w /\ tabs[t].sessions = s /\ tabs[t].cache = ch
        /\ tabs[t].job = j /\ tabs[t].inbox = i /\ j.op = op /\ j.conv = cs /\ j.seen = seen
        /\ disk.blob = b /\ disk.rows = rw /\ disk.closed = cl /\ disk.selfs = sf
        /\ disk.blocked = bk /\ disk.lock = lk
    BY <2>1, <2>2, <2>3 DEF TabOf, DiskOf
  <2>6. IsJob(Idle) /\ Idle.op = "none"
    BY DEF IsJob, Idle
  <2>7. ASSUME NEW p1, NEW w1, NEW s1, NEW c1, NEW j1, NEW i1, NEW b1, NEW r1, NEW f1, NEW k1,
               tabs' = [tabs EXCEPT ![t] = TabOf(p1, w1, s1, c1, j1, i1)],
               disk' = DiskOf(b1, r1, cl, f1, k1, lk),
               IsJob(j1), p1 \notin {"down", "restoring"} => s1 \subseteq w1,
               j1.op = "recording" => j1 = j
        PROVE  Goal
    <3>1. PICK d : d = DiskOf(b1, r1, cl, f1, k1, lk)
      OBVIOUS
    <3>2. disk' = d /\ IsDisk(d) /\ d.closed = disk.closed /\ d.lock = disk.lock
      BY <2>5, <2>7, <3>1 DEF IsDisk, DiskOf
    <3> HIDE DEF Goal
    <3> QED BY <1>1, <2>5, <2>7, <3>2
  <2>20. ASSUME NEW r, NEW d, tabs' = [tabs EXCEPT ![t] = r], disk' = d, IsDisk(d), IsTab(r),
                \A x \in Tab : tabs'[x] = IF x = t THEN r ELSE tabs[x],
                \A x \in Tab : Recording(x)',
                r.phase \notin {"down", "restoring"} => r.sessions \subseteq r.wasm,
                disk.closed \subseteq d.closed
         PROVE  Goal
    <3>1. DOMAIN tabs' = Tab /\ tabs' = [x \in Tab |-> tabs'[x]]
      BY <1>0, <2>20
    <3>2. SessionIsHeld'
      BY <1>0, <2>20 DEF SessionIsHeld
    <3>3. IsDisk(disk') /\ \A x \in Tab : IsTab(tabs'[x])
      BY <1>0, <2>20
    <3> QED BY <2>20, <3>1, <3>2, <3>3 DEF ConvInv, IsTab, IsDisk, IsJob, TabOf, DiskOf
  <2> HIDE DEF Goal
  <2>14. ASSUME NEW r1, NEW f1, NEW k1
         PROVE  /\ [store EXCEPT !.rows = r1] = DiskOf(b, r1, cl, sf, bk, lk)
                /\ [store EXCEPT !.blocked = k1] = DiskOf(b, rw, cl, sf, k1, lk)
                /\ [store EXCEPT !.rows = r1, !.selfs = f1] = DiskOf(b, r1, cl, f1, bk, lk)
    <3>1. store = DiskOf(b, rw, cl, sf, bk, lk)
      BY <2>2
    <3>2. PICK x : x = [store EXCEPT !.rows = r1]
      OBVIOUS
    <3>3. PICK y : y = [store EXCEPT !.blocked = k1]
      OBVIOUS
    <3>4. PICK z : z = [store EXCEPT !.rows = r1, !.selfs = f1]
      OBVIOUS
    <3>5. x = DiskOf(b, r1, cl, sf, bk, lk) /\ y = DiskOf(b, rw, cl, sf, k1, lk) /\ z = DiskOf(b, r1, cl, f1, bk, lk)
      BY <3>1, <3>2, <3>3, <3>4 DEF DiskOf
    <3> QED BY <3>2, <3>3, <3>4, <3>5
  <2>8. CASE LoadSelf(t)
    <3>0. PICK c1 : c1 = LoadSelfGroupIds(t)
      OBVIOUS
    <3>1. PICK q : q = [me EXCEPT !.phase = "restoring", !.wasm = b, !.inbox = {}, !.cache = c1]
      OBVIOUS
    <3>2. tabs' = [tabs EXCEPT ![t] = q]
      BY <1>0, <2>1, <2>5, <2>8, <3>0, <3>1 DEF LoadSelf
    <3>3. q = TabOf("restoring", b, s, c1, j, {})
      BY <2>0, <3>1 DEF TabOf
    <3>4. disk' = DiskOf(b, rw, cl, sf, bk, lk)
      BY <2>2, <2>8 DEF LoadSelf
    <3> QED BY <2>1, <2>7, <3>2, <3>3, <3>4
  <2>9. CASE RestoreSessions(t)
    <3>0. PICK stuck, gone, w1, s1 :
             /\ stuck = {c \in w : c \in cl \ Self}
             /\ gone = {c \in stuck : ~CloseRefused(tabs[t], c)}
             /\ w1 = w \ gone /\ s1 = w \ stuck
      OBVIOUS
    <3>1. PICK q : q = [me EXCEPT !.phase = "reconcile", !.wasm = w1, !.inbox = bus, !.sessions = s1]
      OBVIOUS
    <3>2. tabs' = [tabs EXCEPT ![t] = q]
      BY <1>0, <2>1, <2>5, <2>9, <3>0, <3>1 DEF RestoreSessions
    <3>3. q = TabOf("reconcile", w1, s1, ch, j, bus)
      BY <2>0, <3>1 DEF TabOf
    <3>4. disk' = DiskOf(b, rw, cl, sf, bk, lk)
      BY <2>2, <2>9 DEF RestoreSessions
    <3>5. s1 \subseteq w1
      BY <3>0
    <3> QED BY <2>1, <2>7, <3>2, <3>3, <3>4, <3>5
  <2>10. CASE Reconcile(t) \/ ListChannels(t)
    <3>1. PICK sweep \in BOOLEAN : Reconciled(t, sweep) /\ p \in {"reconcile", "online"}
      BY <2>5, <2>10 DEF Reconcile, ListChannels
    <3>2. PICK dead, c1 : tabs' = [tabs EXCEPT ![t] =
             [Forget(tabs[t], dead) EXCEPT !.phase = "online", !.cache = c1]]
      BY ZenonT(60), <3>1 DEF Reconciled
    <3>3. PICK r1, f1 : disk' = [disk EXCEPT !.rows = r1, !.selfs = f1]
      BY Zenon, <3>1 DEF Reconciled
    <3>4. PICK l : l = [me EXCEPT !.wasm = @ \ dead, !.sessions = @ \ dead]
      OBVIOUS
    <3>5. l = TabOf(p, w \ dead, s \ dead, ch, j, i)
      BY <2>0, <3>4 DEF TabOf
    <3>6. PICK q : q = [l EXCEPT !.phase = "online", !.cache = c1]
      OBVIOUS
    <3>10. q = TabOf("online", w \ dead, s \ dead, c1, j, i)
      BY <3>5, <3>6 DEF TabOf
    <3>7. tabs' = [tabs EXCEPT ![t] = q]
      BY <2>1, <3>2, <3>4, <3>6 DEF Forget
    <3>8. disk' = DiskOf(b, r1, cl, f1, bk, lk)
      BY <2>2, <2>14, <3>3
    <3>9. s \ dead \subseteq w \ dead
      BY <2>4, <3>1
    <3> QED BY <2>1, <2>7, <3>7, <3>8, <3>9, <3>10
  <2>11. CASE SealAgain(t) \/ Unblock(t)
    <3>1. tabs' = tabs /\ (disk' = store \/ disk' = [store EXCEPT !.blocked = FALSE])
      BY <2>2, <2>11 DEF SealAgain, Unblock
    <3>2. PICK d : disk' = d /\ (d = store \/ d = [store EXCEPT !.blocked = FALSE])
      BY <3>1
    <3>3. store = DiskOf(b, rw, cl, sf, bk, lk)
      BY <2>2
    <3>4. IsDisk(d) /\ d.closed = cl /\ d.lock = lk
      BY <3>2, <3>3 DEF IsDisk, DiskOf
    <3> QED BY <1>2, <2>5, <3>1, <3>2, <3>4
  <2>12. CASE StartSealed(t)
    <3>1. PICK q : q = [me EXCEPT !.job = Idle]
      OBVIOUS
    <3>2. tabs' = [tabs EXCEPT ![t] = q]
      BY <1>0, <2>1, <2>12, <3>1 DEF StartSealed
    <3>3. q = TabOf(p, w, s, ch, Idle, i)
      BY <2>0, <3>1 DEF TabOf
    <3>4. disk' = DiskOf(b, rw, cl, sf, bk, lk)
      BY <2>2, <2>12 DEF StartSealed
    <3> QED BY <2>4, <2>6, <2>7, <3>2, <3>3, <3>4
  <2>13. CASE DeleteRow(t)
    <3>1. PICK q : q = [me EXCEPT !.job = Idle]
      OBVIOUS
    <3>2. tabs' = [tabs EXCEPT ![t] = q]
      BY <1>0, <2>1, <2>13, <3>1 DEF DeleteRow
    <3>3. q = TabOf(p, w, s, ch, Idle, i)
      BY <2>0, <3>1 DEF TabOf
    <3>4. PICK r1 : disk' = [store EXCEPT !.rows = r1]
      BY <2>2, <2>13 DEF DeleteRow
    <3>5. disk' = DiskOf(b, r1, cl, sf, bk, lk)
      BY <2>14, <3>4
    <3> QED BY <2>4, <2>6, <2>7, <3>2, <3>3, <3>5
  <2>15. CASE \E c \in Conversation : StartConversation(t, c)
    <3>1. PICK c \in Conversation : StartConversation(t, c)
      BY <2>15
    <3>2. PICK j1 : j1 = [Idle EXCEPT !.op = "starting"]
      OBVIOUS
    <3>3. IsJob(j1) /\ j1.op = "starting"
      BY <3>2 DEF Idle, IsJob
    <3>4. PICK q : q = [me EXCEPT !.wasm = @ \cup {c}, !.sessions = @ \cup {c}, !.job = j1]
      OBVIOUS
    <3>5. tabs' = [tabs EXCEPT ![t] = q]
      BY <1>0, <2>1, <3>1, <3>2, <3>4 DEF StartConversation
    <3>6. q = TabOf(p, w \cup {c}, s \cup {c}, ch, j1, i)
      BY <2>0, <3>4 DEF TabOf
    <3>7. PICK r1 : disk' = [store EXCEPT !.rows = r1]
      BY <2>2, <3>1 DEF StartConversation
    <3>8. disk' = DiskOf(b, r1, cl, sf, bk, lk)
      BY <2>14, <3>7
    <3>9. p = "online"
      BY <2>5, <3>1 DEF StartConversation
    <3>10. s \cup {c} \subseteq w \cup {c}
      BY <2>4, <3>9
    <3> QED BY <2>7, <3>3, <3>5, <3>6, <3>8, <3>10
  <2>16. CASE \E c \in Conversation : OnWelcome(t, c)
    <3>1. PICK c \in Conversation : OnWelcome(t, c)
      BY <2>16
    <3>0. PICK i1, w1, s1 : /\ i1 = i \ {c} /\ w1 = w \cup {c}
                            /\ s1 = IF c \notin w /\ ~IsBlockedRoster THEN s \cup {c} ELSE s
      OBVIOUS
    <3>2. PICK q : q = [me EXCEPT !.inbox = i1, !.wasm = w1, !.sessions = s1]
      OBVIOUS
    <3>8. tabs' = [tabs EXCEPT ![t] = q]
      BY <1>0, <2>1, <2>5, <3>0, <3>1, <3>2 DEF OnWelcome
    <3>3. q = TabOf(p, w1, s1, ch, j, i1)
      BY <2>0, <3>2 DEF TabOf
    <3>4. PICK r1 : disk' = store \/ disk' = [store EXCEPT !.rows = r1]
      BY <2>2, <3>1 DEF OnWelcome
    <3>5. PICK r2 : disk' = DiskOf(b, r2, cl, sf, bk, lk)
      BY <2>2, <2>14, <3>4
    <3>6. p \notin {"down", "restoring"}
      BY <2>5, <3>1 DEF OnWelcome, Receiving
    <3>7. s1 \subseteq w1
      BY <2>4, <3>0, <3>6
    <3> QED BY <2>1, <2>7, <3>3, <3>5, <3>7, <3>8
  <2>17. CASE \E c \in Conversation : EvictedFrom(t, c)
    <3>1. PICK c \in Conversation : EvictedFrom(t, c)
      BY <2>17
    <3>2. PICK q : q = [me EXCEPT !.wasm = @ \ {c}, !.sessions = @ \ {c}]
      OBVIOUS
    <3>3. tabs' = [tabs EXCEPT ![t] = q]
      BY <1>0, <2>1, <3>1, <3>2 DEF EvictedFrom, Forget
    <3>4. q = TabOf(p, w \ {c}, s \ {c}, ch, j, i)
      BY <2>0, <3>2 DEF TabOf
    <3>5. PICK r1 : disk' = [store EXCEPT !.rows = r1]
      BY <2>2, <3>1 DEF EvictedFrom
    <3>6. disk' = DiskOf(b, r1, cl, sf, bk, lk)
      BY <2>14, <3>5
    <3>7. p \notin {"down", "restoring"}
      BY <2>5, <3>1 DEF EvictedFrom, Receiving
    <3>8. s \ {c} \subseteq w \ {c}
      BY <2>4, <3>7
    <3> QED BY <2>1, <2>7, <3>3, <3>4, <3>6, <3>8
  <2>18. CASE \E c \in Conversation : RemoveConversation(t, c) \/ BlockConversation(t, c)
    <3>6. PICK c \in Conversation : RemoveConversation(t, c) \/ BlockConversation(t, c)
      BY <2>18
    <3>7. disk = DiskOf(b, rw, cl, sf, bk, lk) /\ BlockKeys(disk) = DiskOf(b, rw, cl, sf, TRUE, lk)
      BY <2>2, <2>14 DEF BlockKeys
    <3>8. PICK k1 : CloseConversation(t, c, DiskOf(b, rw, cl, sf, k1, lk))
      BY <3>6, <3>7 DEF RemoveConversation, BlockConversation
    <3>1. p = "online"
      BY <2>5, <3>8 DEF CloseConversation
    <3>2. PICK was : was = DiskOf(b, rw, cl, sf, k1, lk)
      OBVIOUS
    <3>3. CloseConversation(t, c, was)
      BY <3>2, <3>8
    <3>4. CASE /\ tabs' = [tabs EXCEPT ![t].cache = @ \cup {c}]
               /\ disk' = [was EXCEPT !.rows = @ \ {c}, !.selfs = tabs[t].cache \cup {c}]
      <4>1. PICK q : q = [me EXCEPT !.cache = @ \cup {c}]
        OBVIOUS
      <4>2. tabs' = [tabs EXCEPT ![t] = q]
        BY <1>0, <2>1, <3>4, <4>1
      <4>3. q = TabOf(p, w, s, ch \cup {c}, j, i)
        BY <2>0, <4>1 DEF TabOf
      <4>4. PICK f1, d : f1 = tabs[t].cache \cup {c} /\ d = [was EXCEPT !.rows = @ \ {c}, !.selfs = f1]
        OBVIOUS
      <4>5. d = DiskOf(b, rw \ {c}, cl, f1, k1, lk)
        <5>1. d = [was EXCEPT !.rows = @ \ {c}, !.selfs = f1]
          BY <4>4
        <5> QED BY <3>2, <5>1 DEF DiskOf
      <4>6. disk' = DiskOf(b, rw \ {c}, cl, f1, k1, lk)
        BY <3>4, <4>4, <4>5
      <4> QED BY <2>1, <2>4, <2>7, <4>2, <4>3, <4>6
    <3>5. CASE /\ tabs' = [tabs EXCEPT ![t] = [Forget(tabs[t], {c}) EXCEPT
                                                 !.job = [Idle EXCEPT !.op = "closing", !.conv = {c}]]]
               /\ disk' = was
      <4>1. PICK j1 : j1 = [Idle EXCEPT !.op = "closing", !.conv = {c}]
        OBVIOUS
      <4>2. IsJob(j1) /\ j1.op = "closing"
        BY <4>1 DEF Idle, IsJob
      <4>3. PICK l : l = [me EXCEPT !.wasm = @ \ {c}, !.sessions = @ \ {c}]
        OBVIOUS
      <4>4. l = TabOf(p, w \ {c}, s \ {c}, ch, j, i)
        BY <2>0, <4>3 DEF TabOf
      <4>5. PICK q : q = [l EXCEPT !.job = j1]
        OBVIOUS
      <4>6. q = TabOf(p, w \ {c}, s \ {c}, ch, j1, i)
        BY <4>4, <4>5 DEF TabOf
      <4>7. tabs' = [tabs EXCEPT ![t] = q]
        BY <2>1, <3>5, <4>1, <4>3, <4>5 DEF Forget
      <4>8. disk' = DiskOf(b, rw, cl, sf, k1, lk)
        BY <3>2, <3>5
      <4>9. s \ {c} \subseteq w \ {c}
        BY <2>4, <3>1
      <4> QED BY <2>7, <4>2, <4>6, <4>7, <4>8, <4>9
    <3> QED BY <3>3, <3>4, <3>5 DEF CloseConversation
  <2>19. CASE LockClosed(t)
    <3>1. /\ disk.lock = NoTab /\ disk' = [store EXCEPT !.lock = t] /\ NoTab \notin Tab
          /\ tabs' = [tabs EXCEPT ![t].job.op = "recording", ![t].job.seen = cl]
      BY <2>2, <2>5, <2>19, ConvAssumption DEF LockClosed
    <3>2. PICK j1 : j1 = [op |-> "recording", conv |-> cs, seen |-> cl]
      OBVIOUS
    <3>3. tabs' = [tabs EXCEPT ![t] = TabOf(p, w, s, ch, j1, i)]
      <4>1. PICK j0 : j0 = [j EXCEPT !.op = "recording"]
        OBVIOUS
      <4>5. j0 = [op |-> "recording", conv |-> cs, seen |-> seen]
        BY <2>3, <4>1
      <4>6. PICK x : x = [j0 EXCEPT !.seen = cl]
        OBVIOUS
      <4>7. x = j1
        BY <3>2, <4>5, <4>6
      <4>2. PICK q : q = [me EXCEPT !.job = j1]
        OBVIOUS
      <4>3. q = TabOf(p, w, s, ch, j1, i)
        BY <2>0, <4>2 DEF TabOf
      <4>8. PICK m : m = [me EXCEPT !.job = j0]
        OBVIOUS
      <4>9. m = TabOf(p, w, s, ch, j0, i)
        BY <2>0, <4>8 DEF TabOf
      <4>10. PICK f : f = [tabs EXCEPT ![t] = m]
        OBVIOUS
      <4>11. f = [tabs EXCEPT ![t].job.op = "recording"]
        BY <1>0, <2>1, <2>5, <4>1, <4>8, <4>10
      <4>12. tabs' = [f EXCEPT ![t].job.seen = cl]
        BY <3>1, <4>11
      <4>13. f[t] = m /\ m.job = j0
        BY <1>0, <4>9, <4>10 DEF TabOf
      <4>14. [m EXCEPT !.job = j1] = q
        <5>1. PICK y : y = [m EXCEPT !.job = j1]
          OBVIOUS
        <5>2. y = TabOf(p, w, s, ch, j1, i)
          BY <4>9, <5>1 DEF TabOf
        <5> QED BY <4>3, <5>1, <5>2
      <4>15. tabs' = [f EXCEPT ![t] = q]
        BY <4>6, <4>7, <4>12, <4>13, <4>14
      <4>4. tabs' = [tabs EXCEPT ![t] = q]
        BY <1>0, <4>10, <4>15
      <4> QED BY <4>3, <4>4
    <3>4. PICK d : d = [store EXCEPT !.lock = t] /\ disk' = d
      BY <3>1
    <3>5. IsDisk(d) /\ d.closed = cl /\ d.lock = t
      <4>1. d = [store EXCEPT !.lock = t] /\ store = DiskOf(b, rw, cl, sf, bk, lk)
        BY <2>2, <3>4
      <4> QED BY <4>1 DEF IsDisk, DiskOf
    <3>6. PICK r : r = TabOf(p, w, s, ch, j1, i)
      OBVIOUS
    <3>7. /\ IsTab(r) /\ r.phase = p /\ r.wasm = w /\ r.sessions = s /\ r.job = j1
          /\ j1.op = "recording" /\ j1.seen = cl
      BY <3>2, <3>6 DEF IsTab, TabOf, IsJob
    <3>8. \A x \in Tab : tabs'[x] = IF x = t THEN r ELSE tabs[x]
      BY <1>0, <3>3, <3>6
    <3>9. \A x \in Tab : Recording(x)'
      BY <1>0, <2>5, <3>1, <3>4, <3>5, <3>7, <3>8 DEF Recording
    <3>10. /\ tabs' = [tabs EXCEPT ![t] = r] /\ disk' = d /\ IsDisk(d) /\ IsTab(r)
           /\ r.phase \notin {"down", "restoring"} => r.sessions \subseteq r.wasm
           /\ disk.closed \subseteq d.closed
      BY <2>4, <2>5, <3>3, <3>4, <3>5, <3>6, <3>7
    <3> QED BY <2>20, <3>8, <3>9, <3>10
  <2>21. CASE RecordClosed(t)
    <3>1. /\ op = "recording" /\ tabs' = [tabs EXCEPT ![t].job.op = "closed"]
          /\ disk' = [store EXCEPT !.closed = seen \cup cs, !.lock = NoTab]
      BY <2>2, <2>5, <2>21 DEF RecordClosed
    <3>2. disk.lock = t /\ seen = cl
      BY <1>0, <2>5, <3>1 DEF Recording
    <3>3. PICK j1 : j1 = [op |-> "closed", conv |-> cs, seen |-> seen]
      OBVIOUS
    <3>4. tabs' = [tabs EXCEPT ![t] = TabOf(p, w, s, ch, j1, i)]
      <4>1. [j EXCEPT !.op = "closed"] = j1
        <5>1. PICK x : x = [j EXCEPT !.op = "closed"]
          OBVIOUS
        <5>2. x = j1
          BY <2>3, <3>3, <5>1
        <5> QED BY <5>1, <5>2
      <4>2. PICK q : q = [me EXCEPT !.job = j1]
        OBVIOUS
      <4>3. q = TabOf(p, w, s, ch, j1, i)
        BY <2>0, <4>2 DEF TabOf
      <4>4. tabs' = [tabs EXCEPT ![t] = q]
        BY <1>0, <2>1, <2>5, <3>1, <4>1, <4>2
      <4> QED BY <4>3, <4>4
    <3>5. PICK d : d = [store EXCEPT !.closed = seen \cup cs, !.lock = NoTab] /\ disk' = d
      BY <3>1
    <3>6. IsDisk(d) /\ d.closed = seen \cup cs
      <4>1. d = [store EXCEPT !.closed = seen \cup cs, !.lock = NoTab] /\ store = DiskOf(b, rw, cl, sf, bk, lk)
        BY <2>2, <3>5
      <4> QED BY <4>1 DEF IsDisk, DiskOf
    <3>7. PICK r : r = TabOf(p, w, s, ch, j1, i)
      OBVIOUS
    <3>8. /\ IsTab(r) /\ r.phase = p /\ r.wasm = w /\ r.sessions = s /\ r.job = j1 /\ j1.op = "closed"
      BY <3>3, <3>7 DEF IsTab, TabOf, IsJob
    <3>9. \A x \in Tab : tabs'[x] = IF x = t THEN r ELSE tabs[x]
      BY <1>0, <3>4, <3>7
    <3>10. \A x \in Tab : Recording(x)'
      BY <1>0, <3>2, <3>8, <3>9 DEF Recording
    <3>11. disk.closed \subseteq d.closed
      BY <2>5, <3>2, <3>6
    <3>12. /\ tabs' = [tabs EXCEPT ![t] = r] /\ disk' = d /\ IsDisk(d) /\ IsTab(r)
           /\ r.phase \notin {"down", "restoring"} => r.sessions \subseteq r.wasm
      BY <2>4, <3>4, <3>5, <3>6, <3>7, <3>8
    <3> QED BY <2>20, <3>9, <3>10, <3>11, <3>12
  <2>22. CASE TabDies(t)
    <3>1. tabs' = [tabs EXCEPT ![t] = Closed] /\ disk' = [disk EXCEPT !.lock = IF @ = t THEN NoTab ELSE @]
      BY <2>22 DEF TabDies
    <3>2. PICK l1 : l1 = (IF lk = t THEN NoTab ELSE lk)
      OBVIOUS
    <3>3. PICK d : d = [store EXCEPT !.lock = l1] /\ disk' = d
      BY <2>2, <2>5, <3>1, <3>2
    <3>4. IsDisk(d) /\ d.closed = cl /\ d.lock = l1
      <4>1. d = [store EXCEPT !.lock = l1] /\ store = DiskOf(b, rw, cl, sf, bk, lk)
        BY <2>2, <3>3
      <4> QED BY <4>1 DEF IsDisk, DiskOf
    <3>5. IsTab(Closed) /\ Closed.phase = "down" /\ Closed.job.op = "none"
      BY <2>6 DEF Closed, IsTab, TabOf
    <3>6. \A x \in Tab : tabs'[x] = IF x = t THEN Closed ELSE tabs[x]
      BY <1>0, <3>1
    <3>7. \A x \in Tab : Recording(x)'
      BY <1>0, <2>5, <3>2, <3>3, <3>4, <3>5, <3>6 DEF Recording
    <3>8. PICK r : r = Closed
      OBVIOUS
    <3>9. /\ tabs' = [tabs EXCEPT ![t] = r] /\ disk' = d /\ IsDisk(d) /\ IsTab(r)
          /\ r.phase \notin {"down", "restoring"} => r.sessions \subseteq r.wasm
          /\ disk.closed \subseteq d.closed /\ \A x \in Tab : tabs'[x] = IF x = t THEN r ELSE tabs[x]
      BY <2>5, <3>1, <3>3, <3>4, <3>5, <3>6, <3>8
    <3> QED BY <2>20, <3>7, <3>9
  <2> QED BY <1>5, <2>8, <2>9, <2>10, <2>11, <2>12, <2>13, <2>15, <2>16, <2>17, <2>18, <2>19, <2>21, <2>22
          DEF ConnectStep, CloseStep
<1>6. CASE UNCHANGED convVars
  <2>1. tabs' = tabs /\ disk' = disk
    BY <1>6 DEF convVars
  <2> QED BY <1>0, <1>2, <2>1
<1> QED BY <1>3, <1>4, <1>5, <1>6 DEF ConvNext

\* A session never outlives its group, in any number of tabs and conversations.
THEOREM SessionsStayHeld == ConvSpec => []SessionIsHeld
<1>1. ConvInit => ConvInv
  BY ConvInitHolds
<1>2. ConvInv /\ [ConvNext]_convVars => ConvInv'
  BY ConvStepKeeps
<1>3. ConvInv => SessionIsHeld
  BY DEF ConvInv
<1> QED BY <1>1, <1>2, <1>3, PTL DEF ConvSpec

\* No step of any tab takes an id out of the closed set: what each tab read under the
\* lock is still the closed set when it writes it back.
THEOREM ClosedIdsStick == ConvSpec => ClosesStick
<1>1. ConvInit => ConvInv
  BY ConvInitHolds
<1>2. ConvInv /\ [ConvNext]_convVars => ConvInv'
  BY ConvStepKeeps
<1>3. ConvInv /\ [ConvNext]_convVars => [disk.closed \subseteq disk'.closed]_convVars
  BY ConvStepKeeps
<1> QED BY <1>1, <1>2, <1>3, PTL DEF ConvSpec, ClosesStick

-----------------------------------------------------------------------------
(* The desktop.                                                            *)

\* Every set of naturals that is not empty has a least element.
LEMMA LeastNat ==
  ASSUME NEW T \in SUBSET Nat, T # {}
  PROVE  \E x \in T : \A y \in T : x <= y
<1>1. IsWellFoundedOn({ss \in Nat \X Nat : ss[1] < ss[2]}, Nat)
  BY NatLessThanWellFounded, Zenon DEF OpToRel
<1> DEFINE R == {ss \in Nat \X Nat : ss[1] < ss[2]}
<1> HIDE DEF R
<1>2. PICK x \in T : \A y \in T : ~(<<y, x>> \in R)
  <2>1. IsWellFoundedOn(R, Nat)
    BY <1>1 DEF R
  <2> QED BY <2>1, WFMin
<1>3. ASSUME NEW y \in T PROVE x <= y
  <2>1. x \in Nat /\ y \in Nat /\ ~(<<y, x>> \in R)
    BY <1>2
  <2> QED BY <2>1 DEF R
<1> QED BY <1>3

\* A run of Kept's recursion over the list, entry by entry.
Builds(S, seq, ws, pick) ==
  /\ Kept(seq, ws) = pick[Len(seq)]
  /\ \A n \in 0..Len(seq) : pick[n] \in Seq(S \cap ws)
  /\ \A n \in 1..Len(seq) :
       pick[n] = IF seq[n] \in ws THEN Append(pick[n - 1], seq[n]) ELSE pick[n - 1]

\* The filter of a list is built up entry by entry: the recursion in Kept has a
\* solution, and each of its values is a list of wanted entries.
LEMMA KeptBuilds ==
  ASSUME NEW S, NEW seq \in Seq(S), NEW ws
  PROVE  \E pick : Builds(S, seq, ws, pick)
<1> DEFINE N == Len(seq)
           X == Seq(S \cap ws)
           Body(f, n) == IF n = 0 THEN <<>>
                         ELSE IF seq[n] \in ws THEN Append(f[n - 1], seq[n]) ELSE f[n - 1]
           Good(m) == \E f : f = [n \in 0..m |-> Body(f, n)]
           pick == CHOOSE f : f = [n \in 0..N |-> Body(f, n)]
<1>1. N \in Nat /\ \A n \in 1..N : seq[n] \in S
  OBVIOUS
<1>2. Good(0)
  <2>1. PICK f : f = [n \in 0..0 |-> <<>>]
    OBVIOUS
  <2>2. f = [n \in 0..0 |-> Body(f, n)]
    BY <2>1
  <2> QED BY <2>2
<1>3. ASSUME NEW m \in Nat, Good(m) PROVE Good(m + 1)
  <2>1. PICK f : f = [n \in 0..m |-> Body(f, n)]
    BY <1>3
  <2>2. PICK g : g = [n \in 0..m + 1 |-> IF n <= m THEN f[n] ELSE Body(f, n)]
    OBVIOUS
  <2>3. ASSUME NEW n \in 0..m PROVE g[n] = f[n] /\ f[n] = Body(f, n)
    <3>1. n \in 0..m + 1 /\ n <= m
      OBVIOUS
    <3>2. g[n] = f[n]
      BY <2>2, <3>1
    <3>3. f[n] = Body(f, n)
      <4> HIDE DEF Body
      <4> QED BY <2>1
    <3> QED BY <3>2, <3>3
  <2>4. g[m + 1] = Body(f, m + 1)
    BY <2>2
  <2>5. ASSUME NEW n \in 0..m + 1 PROVE g[n] = Body(g, n)
    <3>1. CASE n = 0
      BY <2>3, <3>1
    <3>2. CASE n \in 1..m
      <4>1. n - 1 \in 0..m /\ n \in 0..m
        BY <3>2
      <4> QED BY <2>3, <3>2, <4>1
    <3>3. CASE n = m + 1
      <4>1. m \in 0..m /\ n - 1 = m /\ n # 0
        BY <3>3
      <4>2. g[m] = f[m]
        BY <2>3, <4>1
      <4> QED BY <2>4, <3>3, <4>1, <4>2
    <3> QED BY <3>1, <3>2, <3>3
  <2>6. g = [n \in 0..m + 1 |-> Body(g, n)]
    BY <2>2, <2>5
  <2> QED BY <2>6
<1>4. Good(N)
  <2> DEFINE Bad == {m \in Nat : ~Good(m)}
  <2> HIDE DEF Good
  <2> SUFFICES ASSUME Bad # {} PROVE FALSE
    BY <1>1
  <2>1. PICK m \in Bad : \A k \in Bad : m <= k
    <3> HIDE DEF Bad
    <3>1. Bad \in SUBSET Nat
      BY DEF Bad
    <3> QED BY <3>1, LeastNat
  <2>2. m \in Nat /\ m # 0 /\ m - 1 \in Nat /\ (m - 1) + 1 = m
    BY <1>2, <2>1
  <2>3. Good(m - 1)
    BY <2>1, <2>2
  <2>4. Good((m - 1) + 1)
    BY SMTT(30), <1>3, <2>2, <2>3
  <2> QED BY <2>1, <2>2, <2>4
<1>5. pick = [n \in 0..N |-> Body(pick, n)]
  BY Zenon, <1>4
<1> HIDE DEF pick
<1>6. ASSUME NEW n \in 1..N
      PROVE  pick[n] = IF seq[n] \in ws THEN Append(pick[n - 1], seq[n]) ELSE pick[n - 1]
  <2>1. n \in 0..N /\ n # 0
    BY <1>1
  <2>2. pick[n] = Body(pick, n)
    <3> HIDE DEF Body
    <3> QED BY <1>5, <2>1
  <2> QED BY <2>1, <2>2
<1>7. pick[0] = <<>>
  BY <1>1, <1>5
<1>8. \A n \in 0..N : pick[n] \in X
  <2> DEFINE Bad == {n \in 0..N : pick[n] \notin X}
  <2> SUFFICES ASSUME Bad # {} PROVE FALSE
    BY <1>1
  <2>1. PICK m \in Bad : \A k \in Bad : m <= k
    <3> HIDE DEF Bad
    <3>1. Bad \in SUBSET Nat
      BY DEF Bad
    <3> QED BY <3>1, LeastNat
  <2>2. m \in 0..N /\ pick[m] \notin X
    BY <2>1
  <2>3. m # 0
    <3>1. <<>> \in X
      BY EmptySeq
    <3> HIDE DEF X
    <3> QED BY <1>7, <2>2, <3>1
  <2>4. m - 1 \in 0..N /\ m \in 1..N /\ ~(m <= m - 1)
    BY <1>1, <2>2, <2>3
  <2>5. pick[m - 1] \in X
    BY <2>1, <2>4
  <2>6. seq[m] \in S
    BY <1>1, <2>4
  <2>7. seq[m] \in ws => Append(pick[m - 1], seq[m]) \in X
    BY <2>5, <2>6
  <2> QED BY <1>6, <2>2, <2>4, <2>5, <2>7
<1>9. Kept(seq, ws) = pick[N]
  BY Zenon DEF Kept, pick
<1> HIDE DEF X
<1>10. Builds(S, seq, ws, pick)
  BY <1>6, <1>8, <1>9 DEF X, Builds
<1> QED BY <1>10

\* What the filter keeps was in the list and is wanted.
LEMMA KeptType ==
  ASSUME NEW S, NEW seq \in Seq(S), NEW ws
  PROVE  Kept(seq, ws) \in Seq(S \cap ws) /\ Kept(seq, ws) \in Seq(S)
<1>1. PICK pick : Builds(S, seq, ws, pick)
  BY KeptBuilds
<1>2. Len(seq) \in 0..Len(seq)
  OBVIOUS
<1>3. Kept(seq, ws) \in Seq(S \cap ws)
  BY <1>1, <1>2 DEF Builds
<1> QED BY <1>3, SeqMonotonic

\* A wanted entry of the list is not lost: the filter is then not empty.
LEMMA KeptFinds ==
  ASSUME NEW S, NEW seq \in Seq(S), NEW ws, NEW i \in 1..Len(seq), seq[i] \in ws
  PROVE  Kept(seq, ws) # <<>>
<1>0. PICK pick : Builds(S, seq, ws, pick)
  BY KeptBuilds
<1>1. /\ Kept(seq, ws) = pick[Len(seq)]
      /\ \A n \in 0..Len(seq) : pick[n] \in Seq(S \cap ws)
      /\ \A n \in 1..Len(seq) :
           pick[n] = IF seq[n] \in ws THEN Append(pick[n - 1], seq[n]) ELSE pick[n - 1]
  BY <1>0 DEF Builds
<1>2. Len(seq) \in Nat /\ i \in Nat /\ i \in 0..Len(seq) /\ Len(seq) \in 0..Len(seq) /\ i <= Len(seq)
  OBVIOUS
<1> DEFINE Bad == {n \in 0..Len(seq) : i <= n /\ pick[n] = <<>>}
<1>3. SUFFICES ASSUME Bad # {} PROVE FALSE
  BY <1>1, <1>2
<1>4. PICK m \in Bad : \A k \in Bad : m <= k
  <2> HIDE DEF Bad
  <2>1. Bad \in SUBSET Nat
    BY DEF Bad
  <2> QED BY <1>3, <2>1, LeastNat
<1>5. m \in 0..Len(seq) /\ i <= m /\ pick[m] = <<>> /\ m \in 1..Len(seq) /\ m - 1 \in 0..Len(seq) /\ ~(m <= m - 1)
  BY <1>2, <1>4
<1>6. pick[m - 1] \in Seq(S \cap ws)
  BY <1>1, <1>5
<1>7. seq[m] \notin ws
  <2> SUFFICES ASSUME seq[m] \in ws PROVE FALSE
    OBVIOUS
  <2>1. pick[m] = Append(pick[m - 1], seq[m])
    BY <1>1, <1>5
  <2>2. seq[m] \in S \cap ws
    BY <1>5
  <2>3. Append(pick[m - 1], seq[m]) # <<>>
    BY <1>6, <2>2, AppendProperties
  <2> QED BY <1>5, <2>1, <2>3
<1>8. pick[m - 1] = <<>> /\ i # m
  BY <1>1, <1>5, <1>7
<1>9. m - 1 \in Bad
  BY <1>2, <1>5, <1>8
<1> QED BY <1>4, <1>5, <1>9

\* The windows there are: a chat, in a window of its own or in the right pane of
\* Channels, or a window without one, which has no log.
Chats == [kind : {"conversation", "channels"}, conv : Conv, compose : BOOLEAN, log : BOOLEAN]
Others == [kind : Kinds \ {"conversation"}, conv : {NoConv}, compose : BOOLEAN, log : {FALSE}]
Shown == Chats \cup Others

\* The windows that were put aside.
Aside == {w \in Shown : w.log = FALSE}

\* The loaders that are pending: the ones that repaint a chat know which.
Repaints == {"sent", "active", "appended"}
Pendings == {l \in [what : Guarded \cup Repaints \cup {"restore", "open", "raise", "list", "remove", "block"},
                   win : Shown, fresh : BOOLEAN, same : BOOLEAN] :
              l.what \in Repaints => l.win.conv \in Conv}
Readings == [what : {"buddies", "settings", "history", "refresh", "latched"}, fresh : BOOLEAN]

Desks == [view : Shown, box : BOOLEAN, parked : Seq(Aside), mini : SUBSET Aside,
          camera : [on : BOOLEAN, ask : {"none", "fresh", "stale"}],
          loads : Seq(Pendings), reads : SUBSET Readings, suppress : BOOLEAN]

\* The camera is off, and no prompt that is up can turn it on.
Quiet(d) == d.camera.on = FALSE /\ d.camera.ask # "fresh"

\* No loader is pending that puts a window in front without calling go().
NoJump(ls) == \A i \in DOMAIN ls : ls[i].what \in {"reveal", "dock"} => ls[i].fresh = FALSE
AllStale(ls) == \A i \in DOMAIN ls : ls[i].fresh = FALSE

DeskOk(d) == d \in Desks /\ (Quiet(d) \/ (d.view.kind = "scan" /\ NoJump(d.loads)))
DeskInv == DeskOk(Desk)

\* Editing a window keeps it a window.
LEMMA WindowEdits ==
  ASSUME NEW w \in Shown, NEW b \in BOOLEAN
  PROVE  /\ [w EXCEPT !.compose = b] \in Shown /\ [w EXCEPT !.compose = b].kind = w.kind
         /\ [w EXCEPT !.compose = b].log = w.log /\ [w EXCEPT !.compose = b].conv = w.conv
         /\ [w EXCEPT !.log = @ /\ b] \in Shown /\ [w EXCEPT !.log = @ /\ b].conv = w.conv
         /\ [w EXCEPT !.compose = b, !.log = FALSE] \in Aside
         /\ [w EXCEPT !.log = w.conv # NoConv] \in Shown
         /\ w.conv # NoConv => [w EXCEPT !.log = TRUE] \in Shown
         /\ w.conv # NoConv => w.conv \in Conv /\ w \in Chats
BY DesktopAssumption DEF Shown, Chats, Others, Aside

\* The windows the handlers make.
LEMMA NewWindows ==
  /\ \A k \in Kinds \ {"conversation"} : Plain(k) \in Aside /\ Plain(k) \in Shown /\ Plain(k).kind = k
                                         /\ Plain(k).conv = NoConv
  /\ \A k \in {"conversation", "channels"}, c \in Conv, b, g \in BOOLEAN :
       Window(k, c, b, g) \in Shown /\ Window(k, c, b, g).conv = c /\ Window(k, c, b, g).log = g
BY DEF Plain, Window, Shown, Chats, Others, Aside

\* ++navGen: what is pending is out of date, and nothing else changes.
LEMMA BumpDesk ==
  ASSUME NEW d, DeskOk(d)
  PROVE  /\ DeskOk(Bump(d)) /\ AllStale(Bump(d).loads) /\ Bump(d).camera.ask # "fresh"
         /\ Bump(d).view = d.view /\ Bump(d).box = d.box /\ Bump(d).parked = d.parked
         /\ Bump(d).mini = d.mini /\ Bump(d).suppress = d.suppress
         /\ Bump(d).camera.on = d.camera.on
<1>1. PICK ls, rs, ask, e :
         /\ ls = [i \in DOMAIN d.loads |-> [d.loads[i] EXCEPT !.fresh = FALSE]]
         /\ rs = {[r EXCEPT !.fresh = FALSE] : r \in d.reads}
         /\ ask = IF d.camera.ask = "fresh" THEN "stale" ELSE d.camera.ask
         /\ e = [d EXCEPT !.loads = ls, !.reads = rs, !.camera.ask = ask]
  OBVIOUS
<1>2. Bump(d) = e
  BY <1>1 DEF Bump, DeskOk, Desks
<1>3. d \in Desks /\ d.loads \in Seq(Pendings) /\ d.reads \in SUBSET Readings
  BY DEF DeskOk, Desks
<1>4. ls \in Seq(Pendings) /\ DOMAIN ls = DOMAIN d.loads
      /\ \A i \in DOMAIN d.loads : ls[i].fresh = FALSE
  <2>1. PICK n \in Nat : d.loads \in [1..n -> Pendings]
    BY <1>3, SeqDef
  <2>2. \A l \in Pendings : [l EXCEPT !.fresh = FALSE] \in Pendings /\ [l EXCEPT !.fresh = FALSE].fresh = FALSE
    BY DEF Pendings
  <2>3. ls \in [1..n -> Pendings] /\ \A i \in DOMAIN d.loads : ls[i].fresh = FALSE
    <3> HIDE DEF Pendings
    <3> QED BY <1>1, <2>1, <2>2
  <2>4. ls \in Seq(Pendings)
    BY <2>3, SeqDef
  <2> QED BY <2>1, <2>3, <2>4
<1>5. rs \in SUBSET Readings
  BY <1>1, <1>3 DEF Readings
<1>6. ask \in {"none", "stale"}
  BY <1>1, <1>3 DEF Desks
<1>7. e \in Desks /\ e.loads = ls /\ e.camera.ask = ask /\ e.camera.on = d.camera.on
      /\ e.view = d.view /\ e.box = d.box /\ e.parked = d.parked /\ e.mini = d.mini
      /\ e.suppress = d.suppress
  BY <1>1, <1>3, <1>4, <1>5, <1>6 DEF Desks
<1>8. AllStale(e.loads)
  BY <1>4, <1>7 DEF AllStale
<1>9. DeskOk(e)
  BY <1>6, <1>7, <1>8 DEF DeskOk, Quiet, NoJump, AllStale
<1> QED BY <1>2, <1>6, <1>7, <1>8, <1>9

\* stopScan after ++navGen.
LEMMA StopDesk ==
  ASSUME NEW d, DeskOk(d)
  PROVE  /\ StopScan(d) \in Desks /\ StopScan(d).view = d.view /\ StopScan(d).loads = d.loads
         /\ StopScan(d).parked = d.parked /\ StopScan(d).mini = d.mini /\ StopScan(d).box = d.box
         /\ DeskOk(StopScan(d)) /\ StopScan(d).camera.on = FALSE /\ StopScan(d).camera.ask = d.camera.ask
<1>1. PICK e : e = StopScan(d)
  OBVIOUS
<1>2. e \in Desks /\ e.view = d.view /\ e.loads = d.loads /\ e.parked = d.parked /\ e.mini = d.mini
      /\ e.box = d.box /\ e.camera.on = FALSE /\ e.camera.ask = d.camera.ask
  BY <1>1 DEF StopScan, DeskOk, Desks
<1>3. DeskOk(e)
  BY <1>2 DEF DeskOk, Quiet, NoJump
<1> QED BY <1>1, <1>2, <1>3

\* A list of windows put aside stays one when it is filtered.
LEMMA DropAside ==
  ASSUME NEW ps \in Seq(Aside)
  PROVE  \A key : Drop(ps, key) \in Seq(Aside)
BY KeptType DEF Drop

\* A window in front is replaced by another while the camera is quiet.
LEMMA ShowDesk ==
  ASSUME NEW d, d \in Desks, Quiet(d), NEW w \in Shown
  PROVE  /\ DeskOk(Show(d, w)) /\ Quiet(Show(d, w)) /\ Show(d, w).view = w /\ Show(d, w).loads = d.loads
         /\ Show(d, w).parked = d.parked /\ Show(d, w).mini = d.mini /\ Show(d, w).camera = d.camera
<1>1. PICK e : e = Show(d, w)
  OBVIOUS
<1>2. w.compose \in BOOLEAN
  BY DEF Shown, Chats, Others
<1>3. e \in Desks /\ e.view = w /\ e.loads = d.loads /\ e.parked = d.parked /\ e.mini = d.mini
      /\ e.camera = d.camera
  BY <1>1, <1>2 DEF Show, Desks
<1>4. Quiet(e)
  BY <1>3 DEF Quiet
<1> QED BY <1>1, <1>3, <1>4 DEF DeskOk

\* go(): whatever it leaves in front, the camera is quiet and every loader out of date.
LEMMA GoDesk ==
  ASSUME NEW d, DeskOk(d), NEW w \in Shown
  PROVE  /\ DeskOk(Go(d, w)) /\ Quiet(Go(d, w)) /\ AllStale(Go(d, w).loads)
         /\ Go(d, w).view.kind = w.kind
<1>0. d \in Desks /\ d.view \in Shown /\ d.box \in BOOLEAN /\ d.parked \in Seq(Aside) /\ d.mini \in SUBSET Aside
      /\ d.suppress \in BOOLEAN
  BY DEF DeskOk, Desks
<1>1. PICK v, b, e : v = Carried(d, w) /\ b = Bump(d) /\ e = StopScan(b)
  OBVIOUS
<1>2. v \in Shown /\ v.kind = w.kind
  <2>1. v = w \/ v = [w EXCEPT !.compose = d.box]
    BY <1>1 DEF Carried
  <2> QED BY ZenonT(60), <1>0, <2>1, WindowEdits
<1>3. /\ DeskOk(b) /\ AllStale(b.loads) /\ b.camera.ask # "fresh" /\ b.parked = d.parked /\ b.mini = d.mini
  BY <1>1, BumpDesk
<1>4. /\ e \in Desks /\ e.loads = b.loads /\ e.mini = d.mini /\ e.camera.on = FALSE
      /\ e.camera.ask # "fresh"
  BY <1>1, <1>3, StopDesk
<1>5. Routed(d, v) \in Seq(Aside)
  <2>1. PICK behind, cut : behind = Drop(d.parked, WindowKey(v)) /\ cut = Drop(behind, WindowKey(d.view))
    OBVIOUS
  <2>2. behind \in Seq(Aside)
    BY <1>0, <2>1, DropAside
  <2>3. cut \in Seq(Aside)
    BY <2>1, <2>2, DropAside
  <2>4. Snapshot(d) \in Aside
    BY <1>0, WindowEdits DEF Snapshot
  <2>5. Append(cut, Snapshot(d)) \in Seq(Aside)
    BY <2>3, <2>4, AppendProperties
  <2>6. \/ Routed(d, v) = d.parked \/ Routed(d, v) = behind \/ Routed(d, v) = Append(cut, Snapshot(d))
    BY <2>1 DEF Routed
  <2> QED BY <1>0, <2>2, <2>5, <2>6
<1>6. PICK s, ps, ms, f :
         /\ s = (e.suppress \/ (d.view.kind = "settings" /\ v.kind # "settings"))
         /\ ps = Routed(d, v) /\ ms = {m \in e.mini : WindowKey(m) # WindowKey(v)}
         /\ f = [e EXCEPT !.suppress = s, !.parked = ps, !.mini = ms]
  OBVIOUS
<1>7. s \in BOOLEAN /\ ps \in Seq(Aside) /\ ms \in SUBSET Aside
  BY <1>0, <1>4, <1>5, <1>6 DEF Desks
<1>8. f \in Desks /\ f.camera = e.camera /\ f.loads = e.loads
  <2>1. f = [e EXCEPT !.suppress = s, !.parked = ps, !.mini = ms]
    BY <1>6
  <2> QED BY <1>4, <1>7, <2>1 DEF Desks
<1>9. Quiet(f)
  BY <1>4, <1>8 DEF Quiet
<1>10. Go(d, w) = Show(f, v)
  BY <1>1, <1>6 DEF Go
<1>11. DeskOk(Show(f, v)) /\ Quiet(Show(f, v)) /\ Show(f, v).view = v /\ Show(f, v).loads = f.loads
  BY <1>2, <1>8, <1>9, ShowDesk
<1> QED BY <1>2, <1>3, <1>4, <1>8, <1>10, <1>11

\* A loader is posted: one that will not call go() only while the camera is quiet.
LEMMA PostDesk ==
  ASSUME NEW d, DeskOk(d), NEW what, NEW w, Load(what, w) \in Pendings,
         what \in {"reveal", "dock"} => Quiet(d)
  PROVE  DeskOk(Post(d, what, w))
<1>1. PICK l, ls, e : l = Load(what, w) /\ ls = Append(d.loads, l) /\ e = [d EXCEPT !.loads = ls]
  OBVIOUS
<1>2. Post(d, what, w) = e
  BY <1>1 DEF Post, DeskOk, Desks
<1>3. d \in Desks /\ d.loads \in Seq(Pendings) /\ l \in Pendings /\ l.what = what
  BY <1>1 DEF DeskOk, Desks, Load
<1>4. ls \in Seq(Pendings) /\ DOMAIN ls = 1..Len(d.loads) + 1 /\ ls[Len(d.loads) + 1] = l
      /\ \A i \in 1..Len(d.loads) : ls[i] = d.loads[i]
  <2> HIDE DEF Pendings
  <2> QED BY <1>1, <1>3, AppendProperties, LenProperties
<1>5. e \in Desks /\ e.loads = ls /\ e.view = d.view /\ e.camera = d.camera
  <2>1. e = [d EXCEPT !.loads = ls]
    BY <1>1
  <2> QED BY <1>3, <1>4, <2>1 DEF Desks
<1>6. Quiet(d) => Quiet(e)
  BY <1>5 DEF Quiet
<1>7. ASSUME ~Quiet(d) PROVE e.view.kind = "scan" /\ NoJump(e.loads)
  <2>1. d.view.kind = "scan" /\ NoJump(d.loads) /\ what \notin {"reveal", "dock"}
    BY <1>7 DEF DeskOk
  <2>2. Len(d.loads) \in Nat /\ DOMAIN d.loads = 1..Len(d.loads)
    BY <1>3, LenProperties
  <2>3. NoJump(ls)
    BY <1>3, <1>4, <2>1, <2>2 DEF NoJump
  <2> QED BY <1>5, <2>1, <2>3
<1> QED BY <1>2, <1>5, <1>6, <1>7 DEF DeskOk

\* A change to what neither the camera nor its screen depends on.
LEMMA SameScreen ==
  ASSUME NEW d, DeskOk(d), NEW e \in Desks, e.view = d.view, e.camera = d.camera, e.loads = d.loads
  PROVE  DeskOk(e) /\ (Quiet(d) => Quiet(e))
BY DEF DeskOk, Quiet, NoJump

\* An account-server read is posted.
LEMMA ReadDesk ==
  ASSUME NEW d, DeskOk(d)
  PROVE  /\ \A what \in {"settings", "refresh", "buddies"} : DeskOk(Read(d, what))
         /\ DeskOk(OpenBuddies(d))
<1>1. ASSUME NEW x, DeskOk(x), NEW what \in {"settings", "refresh", "buddies"} PROVE DeskOk(Read(x, what))
  <2>1. PICK e, rs : rs = x.reads \cup {[what |-> what, fresh |-> TRUE]} /\ e = [x EXCEPT !.reads = rs]
    OBVIOUS
  <2>2. rs \in SUBSET Readings
    <3>1. x.reads \in SUBSET Readings
      BY <1>1 DEF DeskOk, Desks
    <3>2. [what |-> what, fresh |-> TRUE] \in Readings
      BY DEF Readings
    <3> QED BY <2>1, <3>1, <3>2
  <2>3. e \in Desks /\ e.view = x.view /\ e.camera = x.camera /\ e.loads = x.loads
    BY <1>1, <2>1, <2>2 DEF DeskOk, Desks
  <2>4. Read(x, what) = e
    BY <1>1, <2>1 DEF Read, DeskOk, Desks
  <2> QED BY <1>1, <2>3, <2>4, SameScreen
<1>2. PICK f : f = [d EXCEPT !.suppress = TRUE]
  OBVIOUS
<1>3. f \in Desks /\ f.view = d.view /\ f.camera = d.camera /\ f.loads = d.loads
  BY <1>2 DEF DeskOk, Desks
<1>4. DeskOk(f)
  BY <1>3, SameScreen
<1>5. OpenBuddies(d) = Read(f, "buddies")
  BY <1>2 DEF OpenBuddies
<1> QED BY <1>1, <1>4, <1>5

\* The loads the handlers post.
LEMMA NewLoads ==
  /\ \A what \in Guarded \cup {"restore", "open", "raise", "list", "remove", "block"}, w \in Shown :
       Load(what, w) \in Pendings
  /\ \A what \in Repaints, w \in Shown : w.conv \in Conv => Load(what, w) \in Pendings
BY DEF Load, Pendings, Repaints, Guarded

\* revealNextWindow stops the camera before it reveals anything.
LEMMA RevealDesk ==
  ASSUME NEW d, DeskOk(d)
  PROVE  DeskOk(RevealNextWindow(d))
<1>1. PICK b, e : b = Bump(d) /\ e = StopScan(b)
  OBVIOUS
<1>2. DeskOk(b) /\ b.camera.ask # "fresh"
  BY <1>1, BumpDesk
<1>3. DeskOk(e) /\ e \in Desks /\ Quiet(e) /\ e.parked \in Seq(Aside)
  <2>1. DeskOk(e) /\ e \in Desks /\ e.camera.on = FALSE /\ e.camera.ask = b.camera.ask
    BY <1>1, <1>2, StopDesk
  <2> QED BY <1>2, <2>1 DEF Quiet, Desks
<1>4. PICK top : top = e.parked[Len(e.parked)]
  OBVIOUS
<1>5. e.parked # <<>> => top \in Aside /\ top \in Shown /\ Front(e.parked) \in Seq(Aside)
  <2> SUFFICES ASSUME e.parked # <<>> PROVE top \in Aside /\ top \in Shown /\ Front(e.parked) \in Seq(Aside)
    OBVIOUS
  <2>1. Len(e.parked) \in Nat \ {0}
    BY <1>3, EmptySeq
  <2>2. top \in Aside
    BY <1>3, <1>4, <2>1, ElementOfSeq
  <2>3. Front(e.parked) \in Seq(Aside)
    BY <1>3, <2>1 DEF Front
  <2> QED BY <2>2, <2>3 DEF Aside
<1>6. CASE e.parked # <<>> /\ top.kind = "buddies"
  <2>1. PICK ps, f : ps = Front(e.parked) /\ f = [e EXCEPT !.parked = ps]
    OBVIOUS
  <2>2. f \in Desks /\ f.camera = e.camera
    BY <1>3, <1>5, <1>6, <2>1 DEF Desks
  <2>3. Quiet(f)
    BY <1>3, <2>2 DEF Quiet
  <2>4. DeskOk(Show(f, top))
    BY <1>5, <1>6, <2>2, <2>3, ShowDesk
  <2>5. RevealNextWindow(d) = OpenBuddies(Show(f, top))
    BY <1>1, <1>3, <1>4, <1>6, <2>1 DEF RevealNextWindow, Desks
  <2> QED BY <2>4, <2>5, ReadDesk
<1>7. CASE e.parked # <<>> /\ top.kind # "buddies"
  <2>1. PICK w : w = [top EXCEPT !.log = top.conv # NoConv]
    OBVIOUS
  <2>2. w \in Shown
    BY <1>5, <1>7, <2>1, WindowEdits
  <2>3. Load("reveal", w) \in Pendings
    BY <2>2, NewLoads DEF Guarded
  <2>4. DeskOk(Post(e, "reveal", w))
    BY <1>3, <2>3, PostDesk
  <2>5. RevealNextWindow(d) = Post(e, "reveal", w)
    BY <1>1, <1>4, <1>7, <2>1 DEF RevealNextWindow
  <2> QED BY <2>4, <2>5
<1>8. CASE e.parked = <<>>
  <2>1. Plain("desktop") \in Shown
    BY NewWindows DEF Kinds, Primary
  <2>2. DeskOk(Show(e, Plain("desktop")))
    BY <1>3, <2>1, ShowDesk
  <2>3. DeskOk(OpenBuddies(Show(e, Plain("desktop"))))
    BY <2>2, ReadDesk
  <2>4. \/ RevealNextWindow(d) = Show(e, Plain("desktop"))
        \/ RevealNextWindow(d) = OpenBuddies(Show(e, Plain("desktop")))
    BY <1>1, <1>4, <1>8 DEF RevealNextWindow
  <2> QED BY <2>2, <2>3, <2>4
<1> QED BY <1>6, <1>7, <1>8

\* purgeWindowsFor leaves the front window, the camera and what is pending as they are.
LEMMA PurgeDesk ==
  ASSUME NEW d, DeskOk(d), NEW c
  PROVE  DeskOk(PurgeWindowsFor(d, c))
<1> DEFINE gone(w) == w.kind = "conversation" /\ w.conv = c
           strip(w) == IF w.kind = "channels" /\ w.conv = c THEN Plain("channels") ELSE w
<1>0. d \in Desks /\ d.parked \in Seq(Aside) /\ d.mini \in SUBSET Aside /\ d.loads \in Seq(Pendings)
  BY DEF DeskOk, Desks
<1>1. PICK left, ps, ms, ls, e :
         /\ left = Kept(d.parked, {w \in Range(d.parked) : ~gone(w)})
         /\ ps = [i \in DOMAIN left |-> strip(left[i])]
         /\ ms = {strip(m) : m \in {x \in d.mini : ~gone(x)}}
         /\ ls = [i \in DOMAIN d.loads |-> [d.loads[i] EXCEPT !.same = FALSE]]
         /\ e = [d EXCEPT !.parked = ps, !.mini = ms, !.loads = ls]
  OBVIOUS
<1>2. PurgeWindowsFor(d, c) = e
  BY <1>0, <1>1 DEF PurgeWindowsFor, Desks
<1>3. \A w \in Aside : strip(w) \in Aside
  BY NewWindows DEF Kinds, Primary
<1> HIDE DEF strip, gone
<1>4. ps \in Seq(Aside)
  <2>1. left \in Seq(Aside)
    BY <1>0, <1>1, KeptType
  <2>2. PICK n \in Nat : left \in [1..n -> Aside]
    BY <2>1, SeqDef
  <2>3. ps \in [1..n -> Aside]
    BY <1>1, <1>3, <2>2
  <2> QED BY <2>3, SeqDef
<1>5. ms \in SUBSET Aside
  BY <1>0, <1>1, <1>3
<1>6. ls \in Seq(Pendings) /\ DOMAIN ls = DOMAIN d.loads
      /\ \A i \in DOMAIN d.loads : ls[i].fresh = d.loads[i].fresh /\ ls[i].what = d.loads[i].what
  <2>1. PICK n \in Nat : d.loads \in [1..n -> Pendings]
    BY <1>0, SeqDef
  <2>2. \A l \in Pendings : /\ [l EXCEPT !.same = FALSE] \in Pendings
                            /\ [l EXCEPT !.same = FALSE].fresh = l.fresh /\ [l EXCEPT !.same = FALSE].what = l.what
    BY DEF Pendings
  <2>3. ls \in [1..n -> Pendings] /\ DOMAIN ls = DOMAIN d.loads
        /\ \A i \in DOMAIN d.loads : ls[i].fresh = d.loads[i].fresh /\ ls[i].what = d.loads[i].what
    <3> HIDE DEF Pendings
    <3> QED BY <1>1, <2>1, <2>2
  <2>4. ls \in Seq(Pendings)
    BY <2>3, SeqDef
  <2> QED BY <2>3, <2>4
<1>7. e \in Desks /\ e.view = d.view /\ e.camera = d.camera /\ e.loads = ls
  <2>1. e = [d EXCEPT !.parked = ps, !.mini = ms, !.loads = ls]
    BY <1>1
  <2> QED BY <1>0, <1>4, <1>5, <1>6, <2>1 DEF Desks
<1>8. NoJump(d.loads) => NoJump(ls)
  BY <1>6 DEF NoJump
<1>9. DeskOk(e)
  BY <1>7, <1>8 DEF DeskOk, Quiet
<1> QED BY <1>2, <1>9

\* The answer of a loader: whoever calls go() stops the camera, and whoever does not was
\* posted when it was already quiet and has been made stale by any scan since.
LEMMA AnsweredDesk ==
  ASSUME NEW d, DeskOk(d), NEW l \in Pendings, NEW ok \in BOOLEAN, NEW typing \in BOOLEAN,
         l.what \in {"reveal", "dock"} /\ l.fresh => Quiet(d)
  PROVE  DeskOk(Answered(d, l, ok, typing))
<1>0. /\ d \in Desks /\ d.view \in Shown /\ d.box \in BOOLEAN /\ d.parked \in Seq(Aside)
      /\ l.win \in Shown /\ l.fresh \in BOOLEAN /\ (l.what \in Repaints => l.win.conv \in Conv)
  BY DEF DeskOk, Desks, Pendings
<1>1. PICK w : w = [l.win EXCEPT !.log = @ /\ ok]
  OBVIOUS
<1>2. w \in Shown /\ w.conv = l.win.conv
  BY <1>0, <1>1, WindowEdits
<1>3. DeskOk(Go(d, w))
  BY <1>2, GoDesk
<1>4. ASSUME NEW c \in Conv PROVE DeskOk(GoToActive(d, c))
  <2>1. PICK k \in {"conversation", "channels"} : GoToActive(d, c) = Go(d, Window(k, c, FALSE, TRUE))
    BY DEF GoToActive
  <2>2. Window(k, c, FALSE, TRUE) \in Shown
    BY NewWindows
  <2> QED BY <2>1, <2>2, GoDesk
<1>5. DeskOk(Go(d, [w EXCEPT !.compose = w.conv \in drafts]))
  <2>1. CASE w.conv \in drafts
    <3>1. [w EXCEPT !.compose = TRUE] \in Shown
      BY <1>2, WindowEdits
    <3>2. DeskOk(Go(d, [w EXCEPT !.compose = TRUE]))
      BY <3>1, GoDesk
    <3> QED BY <2>1, <3>2
  <2>2. CASE w.conv \notin drafts
    <3>1. [w EXCEPT !.compose = FALSE] \in Shown
      BY <1>2, WindowEdits
    <3>2. DeskOk(Go(d, [w EXCEPT !.compose = FALSE]))
      BY <3>1, GoDesk
    <3>3. (w.conv \in drafts) = FALSE
      BY <2>2
    <3> QED BY <3>2, <3>3
  <2> QED BY <2>1, <2>2
<1>6. ASSUME NEW ps \in Seq(Aside), NEW v \in Shown, Quiet(d)
      PROVE  DeskOk(Show([d EXCEPT !.parked = ps], v))
  <2>1. PICK e : e = [d EXCEPT !.parked = ps]
    OBVIOUS
  <2>2. e \in Desks /\ e.camera = d.camera
    BY <1>0, <2>1 DEF Desks
  <2>3. Quiet(e)
    BY <1>6, <2>2 DEF Quiet
  <2> QED BY <2>1, <2>2, <2>3, ShowDesk
<1>7. ASSUME l.what = "reveal", l.fresh PROVE DeskOk(Reveal(d, [l EXCEPT !.win = w]))
  <2>1. PICK m : m = [l EXCEPT !.win = w]
    OBVIOUS
  <2>2. m.win = w
    BY <2>1 DEF Pendings
  <2>3. PICK ps : ps = IF m.same THEN Drop(d.parked, WindowKey(m.win)) ELSE d.parked
    OBVIOUS
  <2>4. ps \in Seq(Aside)
    BY <1>0, <2>3, DropAside
  <2>5. Reveal(d, m) = Show([d EXCEPT !.parked = ps], w)
    BY <1>0, <2>2, <2>3 DEF Reveal, Desks
  <2> QED BY <1>2, <1>6, <1>7, <2>1, <2>4, <2>5
<1>8. ASSUME l.what = "dock", l.fresh PROVE DeskOk(Dock(d, l))
  <2>1. PICK qs, ps : qs = Drop(d.parked, <<"kind", "channels">>) /\ ps = Drop(qs, <<"conv", l.win.conv>>)
    OBVIOUS
  <2>2. qs \in Seq(Aside)
    BY <1>0, <2>1, DropAside
  <2>3. ps \in Seq(Aside)
    BY <2>1, <2>2, DropAside
  <2>4. Dock(d, l) = Show([d EXCEPT !.parked = ps], l.win)
    BY <1>0, <2>1 DEF Dock, Desks
  <2> QED BY <1>0, <1>6, <1>8, <2>3, <2>4
<1>9. DeskOk(RefreshList(d))
  <2>1. [d.view EXCEPT !.compose = d.box] \in Shown
    BY <1>0, WindowEdits
  <2>2. DeskOk(Go(d, [d.view EXCEPT !.compose = d.box]))
    BY <2>1, GoDesk
  <2> QED BY <2>2 DEF RefreshList
<1>10. DeskOk(AfterRemove(d, l))
  <2>1. PICK p : p = PurgeWindowsFor(d, l.win.conv)
    OBVIOUS
  <2>2. DeskOk(p)
    BY <2>1, PurgeDesk
  <2>3. Plain("channels") \in Shown
    BY NewWindows DEF Kinds, Primary
  <2>4. Load("open", Plain("channels")) \in Pendings
    BY <2>3, NewLoads
  <2>5. DeskOk(Post(p, "open", Plain("channels")))
    BY <2>2, <2>4, PostDesk
  <2>6. DeskOk(OpenBuddies(p))
    BY <2>2, ReadDesk
  <2>7. AfterRemove(d, l) = Post(p, "open", Plain("channels")) \/ AfterRemove(d, l) = OpenBuddies(p)
    BY <2>1 DEF AfterRemove
  <2> QED BY <2>5, <2>6, <2>7
<1>11. \/ Answered(d, l, ok, typing) = d
       \/ Answered(d, l, ok, typing) = Go(d, w)
       \/ l.what = "reveal" /\ l.fresh /\ Answered(d, l, ok, typing) = Reveal(d, [l EXCEPT !.win = w])
       \/ l.what \in Repaints /\ Answered(d, l, ok, typing) = GoToActive(d, w.conv)
       \/ Answered(d, l, ok, typing) = Go(d, [w EXCEPT !.compose = w.conv \in drafts])
       \/ l.what = "dock" /\ l.fresh /\ Answered(d, l, ok, typing) = Dock(d, l)
       \/ Answered(d, l, ok, typing) = RefreshList(d)
       \/ Answered(d, l, ok, typing) = AfterRemove(d, l)
  <2>1. CASE l.what \in Guarded /\ ~l.fresh
    BY <1>1, <2>1 DEF Answered, Guarded
  <2>2. CASE l.what \in Guarded /\ l.fresh
    BY <1>1, <2>2 DEF Answered, Guarded
  <2>3. CASE l.what \in Repaints
    BY <1>1, <2>3 DEF Answered, Repaints, Guarded
  <2>4. CASE l.what \in {"restore", "open", "raise", "list", "remove", "block"}
    BY <1>1, <2>4 DEF Answered, Guarded
  <2> QED BY <2>1, <2>2, <2>3, <2>4 DEF Pendings
<1> QED BY <1>0, <1>2, <1>3, <1>4, <1>5, <1>7, <1>8, <1>9, <1>10, <1>11

\* A desk that is in order becomes a state that is.
LEMMA BecomesInv ==
  ASSUME NEW d, DeskOk(d), Becomes(d)
  PROVE  DeskInv'
<1>1. PICK e : e = [view |-> view', box |-> box', parked |-> parked', mini |-> mini', camera |-> camera',
                    loads |-> loads', reads |-> reads', suppress |-> suppress']
  OBVIOUS
<1>2. /\ e.view = d.view /\ e.box = d.box /\ e.parked = d.parked /\ e.mini = d.mini
      /\ e.camera = d.camera /\ e.loads = d.loads /\ e.reads = d.reads /\ e.suppress = d.suppress
  BY <1>1 DEF Becomes
<1>3. e \in Desks
  BY <1>1, <1>2 DEF DeskOk, Desks
<1>4. DeskOk(e)
  BY <1>2, <1>3, SameScreen
<1>5. Desk' = e
  BY <1>1 DEF Desk
<1> QED BY <1>4, <1>5 DEF DeskInv, DeskOk, Quiet, NoJump, Desks

\* Every step of the desktop keeps DeskInv.
LEMMA DeskStepKeeps ==
  ASSUME DeskInv, [DeskNext]_deskVars
  PROVE  DeskInv'
<1>0. PICK d : d = Desk
  OBVIOUS
<1>1. DeskOk(d) /\ d \in Desks
  BY <1>0 DEF DeskInv, DeskOk
<1>2. /\ d.view = view /\ d.box = box /\ d.parked = parked /\ d.mini = mini /\ d.camera = camera
      /\ d.loads = loads /\ d.reads = reads /\ d.suppress = suppress
  BY <1>0 DEF Desk
<1>3. /\ view \in Shown /\ box \in BOOLEAN /\ parked \in Seq(Aside) /\ mini \in SUBSET Aside
      /\ loads \in Seq(Pendings) /\ reads \in SUBSET Readings /\ suppress \in BOOLEAN
      /\ camera \in [on : BOOLEAN, ask : {"none", "fresh", "stale"}]
  BY <1>1, <1>2 DEF Desks
<1>4. view.conv # NoConv => view.conv \in Conv /\ view \in Chats
  BY <1>3, WindowEdits
<1>5. ASSUME NEW b \in BOOLEAN, NEW ms \in SUBSET Aside, NEW rs \in SUBSET Readings, NEW ps \in Seq(Aside)
      PROVE  /\ DeskOk([d EXCEPT !.box = b]) /\ DeskOk([d EXCEPT !.suppress = b])
             /\ DeskOk([d EXCEPT !.mini = ms]) /\ DeskOk([d EXCEPT !.reads = rs])
             /\ DeskOk([d EXCEPT !.parked = ps])
  <2>1. PICK e : e = [d EXCEPT !.box = b]
    OBVIOUS
  <2>2. PICK f : f = [d EXCEPT !.suppress = b]
    OBVIOUS
  <2>3. PICK g : g = [d EXCEPT !.mini = ms]
    OBVIOUS
  <2>4. PICK h : h = [d EXCEPT !.reads = rs]
    OBVIOUS
  <2>5. PICK k : k = [d EXCEPT !.parked = ps]
    OBVIOUS
  <2>6. DeskOk(e)
    <3>1. e \in Desks /\ e.view = d.view /\ e.camera = d.camera /\ e.loads = d.loads
      BY <1>1, <2>1 DEF Desks
    <3> QED BY <1>1, <3>1, SameScreen
  <2>7. DeskOk(f)
    <3>1. f \in Desks /\ f.view = d.view /\ f.camera = d.camera /\ f.loads = d.loads
      BY <1>1, <2>2 DEF Desks
    <3> QED BY <1>1, <3>1, SameScreen
  <2>8. DeskOk(g)
    <3>1. g \in Desks /\ g.view = d.view /\ g.camera = d.camera /\ g.loads = d.loads
      BY <1>1, <2>3 DEF Desks
    <3> QED BY <1>1, <3>1, SameScreen
  <2>9. DeskOk(h)
    <3>1. h \in Desks /\ h.view = d.view /\ h.camera = d.camera /\ h.loads = d.loads
      BY <1>1, <2>4 DEF Desks
    <3> QED BY <1>1, <3>1, SameScreen
  <2>10. DeskOk(k)
    <3>1. k \in Desks /\ k.view = d.view /\ k.camera = d.camera /\ k.loads = d.loads
      BY <1>1, <2>5 DEF Desks
    <3> QED BY <1>1, <3>1, SameScreen
  <2> QED BY <2>1, <2>2, <2>3, <2>4, <2>5, <2>6, <2>7, <2>8, <2>9, <2>10
<1>6. ASSUME NEW e, DeskOk(e), NEW w \in Shown,
             NEW what \in {"row", "focus", "restore", "open", "raise", "list", "remove", "block"} \cup Repaints,
             what \in Repaints => w.conv \in Conv
      PROVE  DeskOk(Post(e, what, w))
  <2>1. Load(what, w) \in Pendings
    BY <1>6, NewLoads DEF Guarded
  <2>2. what \notin {"reveal", "dock"}
    BY DEF Repaints
  <2> QED BY <1>6, <2>1, <2>2, PostDesk
<1>7. \A c \in Conv, b \in BOOLEAN :
         /\ Window("conversation", c, b, TRUE) \in Shown /\ Window("channels", c, b, TRUE) \in Shown
         /\ Window("conversation", c, b, TRUE).conv = c
  BY NewWindows
<1>8. /\ Plain("channels") \in Aside
      /\ \A k \in {"channels", "scan", "editor", "buddies", "settings"} : Plain(k) \in Shown /\ Plain(k).kind = k
  BY NewWindows DEF Kinds, Primary
<1>9. \A m \in mini : m \in Shown
  BY <1>3 DEF Aside
<1>10. CASE Type
  <2>1. Becomes([d EXCEPT !.box = TRUE])
    BY <1>1, <1>2, <1>10 DEF Type, Becomes, Desks
  <2> QED BY <1>3, <1>5, <2>1, BecomesInv
<1>11. CASE SendText
  <2>1. Becomes(Post([d EXCEPT !.box = FALSE], "sent", Window("conversation", view.conv, FALSE, TRUE)))
        /\ view.conv \in Conv
    BY <1>0, <1>4, <1>11 DEF SendText
  <2>2. DeskOk([d EXCEPT !.box = FALSE])
    BY <1>3, <1>5
  <2>3. DeskOk(Post([d EXCEPT !.box = FALSE], "sent", Window("conversation", view.conv, FALSE, TRUE)))
    BY <1>6, <1>7, <2>1, <2>2 DEF Repaints
  <2> QED BY <2>1, <2>3, BecomesInv
<1>12. ASSUME NEW c \in Conv, ClickRow(c) \/ OpenConversation(c) PROVE DeskInv'
  <2>1. \/ Becomes(Post(d, "row", Window("channels", c, FALSE, TRUE)))
        \/ Becomes(Post(d, "open", Window("conversation", c, FALSE, TRUE)))
    BY <1>0, <1>12 DEF ClickRow, OpenConversation
  <2>2. /\ DeskOk(Post(d, "row", Window("channels", c, FALSE, TRUE)))
        /\ DeskOk(Post(d, "open", Window("conversation", c, FALSE, TRUE)))
    BY <1>1, <1>6, <1>7 DEF Repaints
  <2> QED BY <2>1, <2>2, BecomesInv
<1>13. CASE ChannelsShowList \/ OpenEditor
  <2>1. Becomes(Go(d, Plain("channels"))) \/ Becomes(Go(d, Plain("editor")))
    BY <1>0, <1>13 DEF ChannelsShowList, OpenEditor
  <2>2. DeskOk(Go(d, Plain("channels"))) /\ DeskOk(Go(d, Plain("editor")))
    BY <1>1, <1>8, GoDesk
  <2> QED BY <2>1, <2>2, BecomesInv
<1>14. CASE OpenChannels
  <2>1. Becomes(Post(d, "open", Plain("channels")))
    BY <1>0, <1>14 DEF OpenChannels
  <2>2. DeskOk(Post(d, "open", Plain("channels")))
    BY <1>1, <1>6, <1>8 DEF Repaints
  <2> QED BY <2>1, <2>2, BecomesInv
<1>15. CASE OpenSettings
  <2>1. Becomes(Read([d EXCEPT !.suppress = FALSE], "settings"))
    BY <1>0, <1>15 DEF OpenSettings
  <2>2. DeskOk([d EXCEPT !.suppress = FALSE])
    BY <1>3, <1>5
  <2>3. DeskOk(Read([d EXCEPT !.suppress = FALSE], "settings"))
    BY <2>2, ReadDesk
  <2> QED BY <2>1, <2>3, BecomesInv
<1>16. CASE SettingsBack
  <2>1. PICK e, home : /\ e = [d EXCEPT !.suppress = TRUE]
                       /\ home = Kept(parked, {w \in Range(parked) : w.kind = "buddies"})
    OBVIOUS
  <2>2. Becomes(OpenBuddies(IF home = <<>> THEN e ELSE Go(e, Head(home))))
    BY <1>0, <1>16, <2>1 DEF SettingsBack
  <2>3. DeskOk(e)
    BY <1>3, <1>5, <2>1
  <2>4. home \in Seq(Aside)
    BY <1>3, <2>1, KeptType
  <2>5. home # <<>> => Head(home) \in Shown
    BY <2>4, HeadTailProperties DEF Aside
  <2>6. home # <<>> => DeskOk(Go(e, Head(home)))
    BY <2>3, <2>5, GoDesk
  <2>7. DeskOk(OpenBuddies(IF home = <<>> THEN e ELSE Go(e, Head(home))))
    BY <2>3, <2>6, ReadDesk
  <2> QED BY <2>2, <2>7, BecomesInv
<1>17. ASSUME NEW i \in DOMAIN parked, FocusParkedWindow(i) PROVE DeskInv'
  <2>1. PICK p : p = parked[i]
    OBVIOUS
  <2>2. p \in Shown
    BY <1>3, <2>1, LenProperties, ElementOfSeq DEF Aside
  <2>3. \/ Becomes(OpenBuddies(Go(d, p)))
        \/ Becomes(Post(Bump(d), "focus", [p EXCEPT !.log = p.conv # NoConv]))
    BY <1>0, <1>17, <2>1 DEF FocusParkedWindow
  <2>4. DeskOk(Go(d, p))
    BY <1>1, <2>2, GoDesk
  <2>5. DeskOk(OpenBuddies(Go(d, p)))
    BY <2>4, ReadDesk
  <2>6. DeskOk(Bump(d))
    BY <1>1, BumpDesk
  <2>7. [p EXCEPT !.log = p.conv # NoConv] \in Shown
    BY <2>2, WindowEdits
  <2>8. DeskOk(Post(Bump(d), "focus", [p EXCEPT !.log = p.conv # NoConv]))
    BY <1>6, <2>6, <2>7 DEF Repaints
  <2> QED BY <2>3, <2>5, <2>8, BecomesInv
<1>18. CASE CloseWindow
  <2>1. Becomes(RevealNextWindow(d))
    BY <1>0, <1>18 DEF CloseWindow
  <2> QED BY <1>1, <2>1, RevealDesk, BecomesInv
<1>19. CASE Minimize
  <2>1. PICK ms : ms = {m \in mini : WindowKey(m) # WindowKey(view)} \cup {Snapshot(d)}
    OBVIOUS
  <2>2. Becomes(RevealNextWindow([d EXCEPT !.mini = ms]))
    BY <1>0, <1>19, <2>1 DEF Minimize
  <2>3. Snapshot(d) \in Aside
    BY <1>2, <1>3, WindowEdits DEF Snapshot
  <2>4. ms \in SUBSET Aside
    BY <1>3, <2>1, <2>3
  <2>5. DeskOk([d EXCEPT !.mini = ms])
    BY <1>3, <1>5, <2>4
  <2> QED BY <2>2, <2>5, RevealDesk, BecomesInv
<1>20. ASSUME NEW m \in mini, Restore(m) PROVE DeskInv'
  <2>1. PICK ms, e : ms = mini \ {m} /\ e = [d EXCEPT !.mini = ms]
    OBVIOUS
  <2>2. \/ m.conv # NoConv /\ Becomes(Post(e, "restore", [m EXCEPT !.log = TRUE]))
        \/ Becomes(OpenBuddies(e)) \/ Becomes(Go(e, m))
    <3>1. e = [Desk EXCEPT !.mini = @ \ {m}]
      BY <1>0, <1>2, <2>1
    <3> QED BY <1>20, <3>1 DEF Restore
  <2>3. ms \in SUBSET Aside
    BY <1>3, <2>1
  <2>4. DeskOk(e)
    BY <1>3, <1>5, <2>1, <2>3
  <2>5. m \in Shown
    BY <1>9
  <2>6. m.conv # NoConv => DeskOk(Post(e, "restore", [m EXCEPT !.log = TRUE]))
    <3>1. m.conv # NoConv => [m EXCEPT !.log = TRUE] \in Shown
      BY <2>5, WindowEdits
    <3> QED BY <1>6, <2>4, <3>1 DEF Repaints
  <2>7. DeskOk(OpenBuddies(e)) /\ DeskOk(Go(e, m))
    BY <2>4, <2>5, GoDesk, ReadDesk
  <2> QED BY <2>2, <2>6, <2>7, BecomesInv
<1>21. d.view.kind # "scan" => Quiet(d)
  BY <1>1 DEF DeskOk
<1>22. Quiet(d) => Quiet(Bump(d)) /\ DeskOk(Bump(d)) /\ Bump(d) \in Desks /\ Bump(d).parked = parked
  <2>1. PICK e : e = Bump(d)
    OBVIOUS
  <2>2. DeskOk(e) /\ e.camera.ask # "fresh" /\ e.camera.on = d.camera.on /\ e.parked = parked
    BY <1>1, <1>2, <2>1, BumpDesk
  <2>3. Quiet(d) => Quiet(e)
    BY <2>2 DEF Quiet
  <2> QED BY <2>1, <2>2, <2>3 DEF DeskOk
<1>23. CASE DockActive
  <2>1. PICK w : w = Window("channels", view.conv, box, view.log)
    OBVIOUS
  <2>2. view.kind = "conversation" /\ Becomes(Post(Bump(d), "dock", w))
    BY <1>0, <1>23, <2>1 DEF DockActive
  <2>3. view.conv \in Conv /\ view.log \in BOOLEAN
    BY <1>3, <2>2 DEF Shown, Chats, Others
  <2>4. w \in Shown
    BY <1>3, <2>1, <2>3, NewWindows
  <2>5. Load("dock", w) \in Pendings
    BY <2>4, NewLoads DEF Guarded
  <2>6. Quiet(Bump(d)) /\ DeskOk(Bump(d))
    BY <1>2, <1>21, <1>22, <2>2
  <2>7. DeskOk(Post(Bump(d), "dock", w))
    BY <2>5, <2>6, PostDesk
  <2> QED BY <2>2, <2>7, BecomesInv
<1>24. CASE PopOutActive
  <2>1. PICK own, qs, rs, ps, b, e :
           /\ own = Window("conversation", view.conv, box, view.log)
           /\ qs = Drop(parked, <<"kind", "channels">>) /\ rs = Drop(qs, WindowKey(own))
           /\ ps = Append(rs, Plain("channels")) /\ b = Bump(d) /\ e = [b EXCEPT !.parked = ps]
    OBVIOUS
  <2>2. view.kind = "channels" /\ view.conv # NoConv /\ Becomes(Show(e, own))
    BY <1>0, <1>24, <2>1 DEF PopOutActive
  <2>3. view.conv \in Conv /\ view.log \in BOOLEAN
    BY <1>3, <1>4, <2>2 DEF Shown, Chats, Others
  <2>4. own \in Shown
    BY <1>3, <2>1, <2>3, NewWindows
  <2>5. qs \in Seq(Aside)
    BY <1>3, <2>1, DropAside
  <2>6. rs \in Seq(Aside)
    BY <2>1, <2>5, DropAside
  <2>7. ps \in Seq(Aside)
    BY <1>8, <2>1, <2>6, AppendProperties
  <2>8. Quiet(b) /\ b \in Desks
    BY <1>2, <1>21, <1>22, <2>1, <2>2
  <2>9. e \in Desks /\ e.camera = b.camera
    <3>1. e = [b EXCEPT !.parked = ps]
      BY <2>1
    <3> QED BY <2>7, <2>8, <3>1 DEF Desks
  <2>10. Quiet(e)
    BY <2>8, <2>9 DEF Quiet
  <2> QED BY <2>2, <2>4, <2>9, <2>10, ShowDesk, BecomesInv
<1>25. CASE RemoveChannel
  <2>1. PICK what \in {"remove", "block"} : Becomes(Post(d, what, view))
    BY <1>0, <1>25 DEF RemoveChannel
  <2>2. DeskOk(Post(d, what, view))
    BY <1>1, <1>3, <1>6 DEF Repaints
  <2> QED BY <2>1, <2>2, BecomesInv
<1>26. CASE StartScan
  <2>1. PICK e, f : e = Go(d, Plain("scan")) /\ f = [e EXCEPT !.camera.ask = "fresh"]
    OBVIOUS
  <2>2. Becomes(f)
    BY <1>0, <1>26, <2>1 DEF StartScan
  <2>3. DeskOk(e) /\ AllStale(e.loads) /\ e.view.kind = "scan"
    BY <1>1, <1>8, <2>1, GoDesk
  <2>4. f \in Desks /\ f.view = e.view /\ f.loads = e.loads
    BY <2>1, <2>3 DEF DeskOk, Desks
  <2>5. DeskOk(f)
    BY <2>3, <2>4 DEF DeskOk, NoJump, AllStale
  <2> QED BY <2>2, <2>5, BecomesInv
<1>27. CASE PromptAnswered
  <2>1. PICK e, f : e = CameraGranted(d) /\ f = [d EXCEPT !.camera.ask = "none"]
    OBVIOUS
  <2>2. Becomes(e) \/ Becomes(f) \/ Becomes(Go(f, Plain("editor")))
    BY <1>0, <1>27, <2>1 DEF PromptAnswered
  <2>3. e \in Desks /\ e.view = d.view /\ e.loads = d.loads /\ (e.camera.on = (d.camera.ask = "fresh"))
        /\ e.camera.ask = "none"
    BY <1>1, <2>1 DEF CameraGranted, Desks
  <2>4. DeskOk(e)
    BY <1>1, <2>3 DEF DeskOk, Quiet
  <2>5. f \in Desks /\ f.view = d.view /\ f.loads = d.loads /\ f.camera.on = d.camera.on
        /\ f.camera.ask = "none"
    BY <1>1, <2>1 DEF Desks
  <2>6. DeskOk(f)
    BY <1>1, <2>5 DEF DeskOk, Quiet
  <2>7. DeskOk(Go(f, Plain("editor")))
    BY <1>8, <2>6, GoDesk
  <2> QED BY <2>2, <2>4, <2>6, <2>7, BecomesInv
<1>28. CASE CodeFound
  <2>1. Becomes(Go(StopScan(d), Plain("editor")))
    BY <1>0, <1>28 DEF CodeFound
  <2>2. DeskOk(StopScan(d))
    BY <1>1, StopDesk
  <2>3. DeskOk(Go(StopScan(d), Plain("editor")))
    BY <1>8, <2>2, GoDesk
  <2> QED BY <2>1, <2>3, BecomesInv
<1>29. CASE LoadAnswered
  <2>1. PICK l, ls, e : l = Head(loads) /\ ls = Tail(loads) /\ e = [d EXCEPT !.loads = ls]
    OBVIOUS
  <2>2. PICK ok \in BOOLEAN, typing \in BOOLEAN : loads # <<>> /\ Becomes(Answered(e, l, ok, typing))
    <3>1. e = [Desk EXCEPT !.loads = Tail(@)]
      BY <1>0, <1>2, <2>1
    <3> QED BY <1>29, <2>1, <3>1 DEF LoadAnswered, IsTyping
  <2>3. /\ l \in Pendings /\ ls \in Seq(Pendings) /\ Len(loads) \in Nat \ {0} /\ l = loads[1]
        /\ DOMAIN loads = 1..Len(loads) /\ DOMAIN ls = 1..Len(loads) - 1
        /\ \A i \in DOMAIN ls : ls[i] = loads[i + 1]
    <3> HIDE DEF Pendings
    <3> QED BY <1>3, <2>1, <2>2
  <2>4. e \in Desks /\ e.view = d.view /\ e.camera = d.camera /\ e.loads = ls
    <3>1. e = [d EXCEPT !.loads = ls]
      BY <2>1
    <3> QED BY <1>1, <2>3, <3>1 DEF Desks
  <2>5. NoJump(loads) => NoJump(ls)
    BY <2>3 DEF NoJump
  <2>6. DeskOk(e)
    BY <1>1, <1>2, <2>4, <2>5 DEF DeskOk, Quiet
  <2>7. l.what \in {"reveal", "dock"} /\ l.fresh => Quiet(e)
    <3> SUFFICES ASSUME l.what \in {"reveal", "dock"}, l.fresh PROVE Quiet(e)
      OBVIOUS
    <3>1. 1 \in DOMAIN loads /\ l = loads[1]
      BY <2>3
    <3>2. ~NoJump(loads)
      BY <3>1 DEF NoJump
    <3>3. Quiet(d)
      BY <1>1, <1>2, <3>2 DEF DeskOk
    <3> QED BY <2>4, <3>3 DEF Quiet
  <2>8. DeskOk(Answered(e, l, ok, typing))
    BY <2>3, <2>6, <2>7, AnsweredDesk
  <2> QED BY <2>2, <2>8, BecomesInv
<1>30. ASSUME NEW r \in reads, ReadAnswered(r) PROVE DeskInv'
  <2>1. PICK qs, e : qs = reads \ {r} /\ e = [d EXCEPT !.reads = qs]
    OBVIOUS
  <2>2. r \in Readings /\ qs \in SUBSET Readings
    BY <1>3, <2>1
  <2>3. DeskOk(e) /\ e \in Desks /\ e.reads = qs
    <3>1. DeskOk(e)
      BY <1>3, <1>5, <2>1, <2>2
    <3> QED BY <1>1, <2>1, <3>1 DEF DeskOk, Desks
  <2>4. PICK h, l : h = [r EXCEPT !.what = "history"] /\ l = [r EXCEPT !.what = "latched"]
    OBVIOUS
  <2>5. h \in Readings /\ l \in Readings
    BY <2>2, <2>4 DEF Readings
  <2>6. PICK f, g : f = [d EXCEPT !.reads = qs \cup {h}] /\ g = [d EXCEPT !.reads = qs \cup {l}]
    OBVIOUS
  <2>7. DeskOk(f) /\ DeskOk(g)
    <3>1. qs \cup {h} \in SUBSET Readings /\ qs \cup {l} \in SUBSET Readings
      BY <2>2, <2>5
    <3> QED BY <1>3, <1>5, <2>6, <3>1
  <2>8. \/ Becomes(e) \/ Becomes(Go(e, Plain("buddies"))) \/ Becomes(Go(e, Plain("settings")))
        \/ Becomes([e EXCEPT !.reads = qs \cup {h}]) \/ Becomes([e EXCEPT !.reads = qs \cup {l}])
    <3>1. e = [Desk EXCEPT !.reads = @ \ {r}]
      BY <1>0, <1>2, <2>1
    <3>2. e.reads = qs
      BY <2>3
    <3>3. CASE r.what = "buddies"
      BY <1>30, <3>1, <3>3 DEF ReadAnswered
    <3>4. CASE r.what = "settings"
      BY <1>30, <2>4, <3>1, <3>2, <3>4 DEF ReadAnswered
    <3>5. CASE r.what = "refresh"
      BY <1>30, <2>4, <3>1, <3>2, <3>5 DEF ReadAnswered
    <3>6. CASE r.what \in {"history", "latched"}
      BY <1>30, <3>1, <3>6 DEF ReadAnswered
    <3> QED BY <2>2, <3>3, <3>4, <3>5, <3>6 DEF Readings
  <2>9. [e EXCEPT !.reads = qs \cup {h}] = f /\ [e EXCEPT !.reads = qs \cup {l}] = g
    BY <1>1, <2>1, <2>6 DEF Desks
  <2>10. DeskOk(Go(e, Plain("buddies"))) /\ DeskOk(Go(e, Plain("settings")))
    BY <1>8, <2>3, GoDesk
  <2> QED BY <2>3, <2>7, <2>8, <2>9, <2>10, BecomesInv
<1>31. ASSUME NEW x, DeskOk(x) PROVE DeskOk(Listed(x))
  <2>1. DeskOk(Post(x, "list", Plain("channels")))
    BY <1>6, <1>8, <1>31 DEF Repaints
  <2> QED BY <1>31, <2>1 DEF Listed
<1>32. ASSUME NEW c \in Conv, Shows(Range(parked), c), NEW typing \in BOOLEAN PROVE DeskOk(Raise(d, c, typing))
  <2>1. PICK chat, raised, low, ps, e :
           /\ chat = {w \in Range(parked) : w.conv = c} /\ raised = Kept(parked, chat)
           /\ low = Kept(parked, Range(parked) \ chat)
           /\ ps = low \o raised /\ e = [d EXCEPT !.parked = ps]
    OBVIOUS
  <2>2. raised \in Seq(Aside) /\ low \in Seq(Aside)
    BY <1>3, <2>1, KeptType
  <2>3. raised # <<>>
    <3>1. PICK i \in DOMAIN parked : parked[i].conv = c
      BY <1>32 DEF Shows, Range
    <3>2. i \in 1..Len(parked) /\ parked[i] \in chat
      BY <1>3, <2>1, <3>1, LenProperties DEF Range
    <3> QED BY <1>3, <2>1, <3>2, KeptFinds
  <2>4. ps \in Seq(Aside)
    BY <2>1, <2>2, ConcatProperties
  <2>5. DeskOk(e)
    BY <1>3, <1>5, <2>1, <2>4
  <2>6. Last(raised) \in Shown
    <3>1. Len(raised) \in 1..Len(raised)
      BY <2>2, <2>3, EmptySeq
    <3>2. raised[Len(raised)] \in Aside
      BY <2>2, <3>1, ElementOfSeq
    <3> QED BY <3>2 DEF Last, Aside
  <2>7. DeskOk(Go(e, Last(raised)))
    BY <2>5, <2>6, GoDesk
  <2>8. Raise(d, c, typing) = e \/ Raise(d, c, typing) = Go(e, Last(raised))
    BY <1>2, <2>1 DEF Raise
  <2> QED BY <2>5, <2>7, <2>8
<1>33. ASSUME NEW c \in Conv, InboundMessage(c) PROVE DeskInv'
  <2>1. PICK w : w = Window("conversation", c, FALSE, TRUE)
    OBVIOUS
  <2>2. PICK typing \in BOOLEAN :
          \/ Becomes(Post(d, "active", w)) \/ Becomes(Listed(d)) \/ Becomes(Listed(Post(d, "raise", w)))
          \/ Shows(Range(parked), c) /\ Becomes(Listed(Raise(d, c, typing)))
    BY <1>0, <1>33, <2>1 DEF InboundMessage, IsTyping
  <2>3. w \in Shown /\ w.conv = c
    BY <1>7, <2>1
  <2>4. DeskOk(Post(d, "active", w)) /\ DeskOk(Post(d, "raise", w))
    BY <1>1, <1>6, <2>3 DEF Repaints
  <2>5. DeskOk(Listed(d)) /\ DeskOk(Listed(Post(d, "raise", w)))
    BY <1>1, <1>31, <2>4
  <2>6. Shows(Range(parked), c) => DeskOk(Listed(Raise(d, c, typing)))
    BY <1>31, <1>32
  <2> QED BY <2>2, <2>4, <2>5, <2>6, BecomesInv
<1>34. ASSUME NEW c \in Conv, Established(c) \/ OutboundAppended(c) PROVE DeskInv'
  <2>1. PICK w, kept : /\ w = Window("conversation", c, FALSE, TRUE)
                       /\ kept = IF view.kind = "editor" THEN [d EXCEPT !.mini = mini \cup {view}] ELSE d
    OBVIOUS
  <2>2. Becomes(Post(kept, "open", w)) \/ Becomes(Post(d, "appended", w)) \/ Becomes(Listed(d))
    <3>1. CASE Established(c)
      BY <1>0, <1>2, <2>1, <3>1 DEF Established
    <3>2. CASE OutboundAppended(c)
      BY <1>0, <2>1, <3>2 DEF OutboundAppended
    <3> QED BY <1>34, <3>1, <3>2
  <2>3. view.kind = "editor" => view \in Aside
    BY <1>3 DEF Shown, Chats, Others, Aside
  <2>4. DeskOk(kept)
    BY <1>1, <1>3, <1>5, <2>1, <2>3
  <2>5. w \in Shown /\ w.conv = c
    BY <1>7, <2>1
  <2>6. DeskOk(Post(kept, "open", w)) /\ DeskOk(Post(d, "appended", w)) /\ DeskOk(Listed(d))
    BY <1>1, <1>6, <1>31, <2>4, <2>5 DEF Repaints
  <2> QED BY <2>2, <2>6, BecomesInv
<1>35. CASE OpenChatChanged
  <2>1. view.conv \in Conv /\ Becomes(Post(d, "active", Window("conversation", view.conv, FALSE, TRUE)))
    BY <1>0, <1>4, <1>35 DEF OpenChatChanged
  <2>2. DeskOk(Post(d, "active", Window("conversation", view.conv, FALSE, TRUE)))
    BY <1>1, <1>6, <1>7, <2>1 DEF Repaints
  <2> QED BY <2>1, <2>2, BecomesInv
<1>36. CASE RosterChanged
  <2>1. Becomes(d) \/ Becomes(Read(d, "refresh"))
    BY <1>0, <1>36 DEF RosterChanged
  <2>2. DeskOk(Read(d, "refresh"))
    BY <1>1, ReadDesk
  <2> QED BY <1>1, <2>1, <2>2, BecomesInv
<1>37. CASE UNCHANGED deskVars
  <2>1. Becomes(d)
    BY <1>2, <1>37 DEF Becomes, deskVars
  <2> QED BY <1>1, <2>1, BecomesInv
<1> QED BY <1>10, <1>11, <1>12, <1>13, <1>14, <1>15, <1>16, <1>17, <1>18, <1>19, <1>20, <1>23, <1>24, <1>25,
           <1>26, <1>27, <1>28, <1>29, <1>30, <1>33, <1>34, <1>35, <1>36, <1>37 DEF DeskNext

\* The desktop starts in order.
LEMMA DeskInitHolds == DeskInit => DeskInv
<1> SUFFICES ASSUME DeskInit PROVE DeskInv
  OBVIOUS
<1>1. Plain("buddies") \in Shown
  BY NewWindows DEF Kinds, Primary
<1>2. PICK d : d = Desk
  OBVIOUS
<1>3. d = [view |-> Plain("buddies"), box |-> FALSE, parked |-> <<>>, mini |-> {},
           camera |-> [on |-> FALSE, ask |-> "none"], loads |-> <<>>, reads |-> {}, suppress |-> TRUE]
  BY <1>2 DEF Desk, DeskInit
<1>4. <<>> \in Seq(Aside) /\ <<>> \in Seq(Pendings)
  BY EmptySeq
<1>5. d \in Desks /\ Quiet(d)
  BY <1>1, <1>3, <1>4 DEF Desks, Quiet
<1> QED BY <1>2, <1>5 DEF DeskInv, DeskOk

\* The camera runs only while its scan screen is in front, whatever is navigated, closed
\* or raised meanwhile and in whatever order the answers come.
THEOREM CameraStaysReleased == DeskSpec => []CameraReleased
<1>1. DeskInit => DeskInv
  BY DeskInitHolds
<1>2. DeskInv /\ [DeskNext]_deskVars => DeskInv'
  BY DeskStepKeeps
<1>3. DeskInv => CameraReleased
  BY DEF DeskInv, DeskOk, Desks, Desk, Quiet, CameraReleased
<1> QED BY <1>1, <1>2, <1>3, PTL DEF DeskSpec

\* No window put behind another or on the menu bar keeps a decrypted log, on any path.
THEOREM ParkedIsErased == DeskSpec => []NoParkedPlaintext
<1>1. DeskInit => DeskInv
  BY DeskInitHolds
<1>2. DeskInv /\ [DeskNext]_deskVars => DeskInv'
  BY DeskStepKeeps
<1>3. DeskInv => NoParkedPlaintext
  <2> SUFFICES ASSUME DeskInv PROVE NoParkedPlaintext
    OBVIOUS
  <2>1. parked \in Seq(Aside) /\ mini \in SUBSET Aside
    BY DEF DeskInv, DeskOk, Desks, Desk
  <2>2. \A w \in Range(parked) : w \in Aside
    BY <2>1, LenProperties, ElementOfSeq DEF Range
  <2> QED BY <2>1, <2>2 DEF NoParkedPlaintext, Aside
<1> QED BY <1>1, <1>2, <1>3, PTL DEF DeskSpec
-----------------------------------------------------------------------------
(* The profile card.                                                       *)

CardType == [Field -> [v : Int, val : Nat]]
FrameType == [kind : {"adopt"}, field : Field, v : Int, val : Nat]
WriteType == FrameType \cup [kind : {"set"}, vals : [Field -> Nat]]

\* The one write under way on a device started from the card that is still sealed there.
OneWrite(d) ==
  \A w \in writing[d] :
    writing[d] = {w} /\ w.base = card[d] /\ w.op \in WriteType /\ w.now \in Int

CardInv ==
  /\ edits \in Nat
  /\ card \in [Sibling -> CardType] /\ form \in [Sibling -> [Field -> Nat]]
  /\ queue \in [Sibling -> Seq(WriteType)] /\ cardBox \in [Sibling -> Seq(FrameType)]
  /\ writing = [d \in Sibling |-> writing[d]]
  /\ \A d \in Sibling : OneWrite(d)

\* A write makes a card, and what it changes in the card it loaded is newer, or is what
\* the user changed.
LEMMA WrittenUpdates ==
  ASSUME NEW w, w.now \in Int, w.base \in CardType, w.op \in WriteType
  PROVE  /\ Written(w) \in CardType
         /\ \A f \in Field :
              \/ Written(w)[f] = w.base[f]
              \/ Written(w)[f].v > w.base[f].v
              \/ /\ w.op.kind = "set" /\ w.op.vals[f] # w.base[f].val
                 /\ Written(w)[f] = [v |-> w.now, val |-> w.op.vals[f]]
<1> DEFINE c == w.base
           op == w.op
           m == w.now
           made == [f \in Field |-> IF op.vals[f] # c[f].val THEN [v |-> m, val |-> op.vals[f]] ELSE c[f]]
<1>1. \A f \in Field : c[f] \in [v : Int, val : Nat]
  BY DEF CardType
<1>2. CASE op.kind = "set"
  <2>1. op.vals \in [Field -> Nat]
    BY <1>2 DEF WriteType, FrameType
  <2>2. Written(w) = made
    BY <1>2 DEF Written
  <2>3. ASSUME NEW f \in Field
        PROVE  /\ made[f] = IF op.vals[f] # c[f].val THEN [v |-> m, val |-> op.vals[f]] ELSE c[f]
               /\ made[f] \in [v : Int, val : Nat]
    <3>1. op.vals[f] \in Nat /\ c[f] \in [v : Int, val : Nat]
      BY <1>1, <2>1
    <3> QED BY <3>1
  <2>4. made \in CardType
    BY <2>3 DEF CardType
  <2> HIDE DEF made, op, c, m
  <2> QED BY <1>2, <2>2, <2>3, <2>4 DEF op, c, m
<1>3. CASE op.kind # "set"
  <2>1. op \in FrameType
    BY <1>3 DEF WriteType
  <2>2. op.field \in Field /\ op.v \in Int /\ op.val \in Nat
    BY <2>1 DEF FrameType
  <2>3. PICK x : x = [v |-> op.v, val |-> op.val]
    OBVIOUS
  <2>4. x \in [v : Int, val : Nat] /\ x.v = op.v
    BY <2>2, <2>3
  <2>5. Written(w) = IF op.v > c[op.field].v THEN [c EXCEPT ![op.field] = x] ELSE c
    BY <1>3, <2>3 DEF Written
  <2> HIDE DEF op, c
  <2>6. CASE op.v > c[op.field].v
    <3>1. [c EXCEPT ![op.field] = x] \in CardType
      BY <2>2, <2>4 DEF CardType, c
    <3>2. ASSUME NEW f \in Field
          PROVE  [c EXCEPT ![op.field] = x][f] = c[f] \/ [c EXCEPT ![op.field] = x][f].v > c[f].v
      <4>1. [c EXCEPT ![op.field] = x][f] = IF f = op.field THEN x ELSE c[f]
        BY <2>2 DEF CardType, c
      <4> QED BY <2>4, <2>6, <4>1
    <3> QED BY <2>5, <2>6, <3>1, <3>2 DEF c
  <2>7. CASE ~(op.v > c[op.field].v)
    BY <2>5, <2>7 DEF c
  <2> QED BY <2>6, <2>7
<1> QED BY <1>2, <1>3

\* What goes out to the siblings are frames.
LEMMA PublishedFrames ==
  ASSUME NEW boxes \in [Sibling -> Seq(FrameType)], NEW c \in CardType, NEW d
  PROVE  PublishIdentity(d, boxes, c) \in [Sibling -> Seq(FrameType)]
<1>1. Fields \in Nat /\ Field = 1..Fields
  BY IdentityCardAssumption DEF Field
<1>2. ASSUME NEW f \in Field
      PROVE  [kind |-> "adopt", field |-> f, v |-> c[f].v, val |-> c[f].val] \in FrameType
  <2>1. c[f] \in [v : Int, val : Nat]
    BY DEF CardType
  <2> QED BY <2>1 DEF FrameType
<1>3. Frames(c) \in Seq(FrameType)
  BY <1>1, <1>2 DEF Frames
<1>4. ASSUME NEW e \in Sibling, NEW new
      PROVE  boxes[e] \o Kept(Frames(c), new) \in Seq(FrameType)
  <2>1. Kept(Frames(c), new) \in Seq(FrameType)
    BY <1>3, KeptType
  <2> QED BY <2>1
<1> QED BY <1>4 DEF PublishIdentity

\* A step that touches no write under way and no card.
LEMMA CardTransport ==
  ASSUME CardInv, UNCHANGED <<card, writing>>, edits' \in Nat, form' \in [Sibling -> [Field -> Nat]],
         queue' \in [Sibling -> Seq(WriteType)], cardBox' \in [Sibling -> Seq(FrameType)]
  PROVE  CardInv'
BY DEF CardInv, OneWrite

\* One step keeps CardInv and undoes no update.
LEMMA CardStepKeeps ==
  ASSUME CardInv, [CardNext]_CardVars
  PROVE  /\ CardInv'
         /\ \A d \in Sibling, f \in Field : card'[d][f] # card[d][f] =>
              \/ card'[d][f].v > card[d][f].v
              \/ \E w \in writing[d] \ writing'[d] : Edited(d, f, w)
<1> DEFINE Same == \A d \in Sibling, f \in Field : card'[d][f] # card[d][f] =>
                     \/ card'[d][f].v > card[d][f].v
                     \/ \E w \in writing[d] \ writing'[d] : Edited(d, f, w)
<1>0. /\ edits \in Nat
      /\ card \in [Sibling -> CardType] /\ form \in [Sibling -> [Field -> Nat]]
      /\ queue \in [Sibling -> Seq(WriteType)] /\ cardBox \in [Sibling -> Seq(FrameType)]
      /\ writing = [d \in Sibling |-> writing[d]]
      /\ \A d \in Sibling : OneWrite(d)
  BY DEF CardInv
<1>1. card' = card => Same
  OBVIOUS
<1>2. ASSUME NEW d \in Sibling PROVE Values(card[d]) \in [Field -> Nat]
  <2>1. \A f \in Field : card[d][f] \in [v : Int, val : Nat]
    BY <1>0 DEF CardType
  <2> QED BY <2>1 DEF Values
<1> HIDE DEF Same
<1>3. CASE UNCHANGED CardVars
  BY <1>0, <1>1, <1>3, CardTransport DEF CardVars
<1>4. ASSUME NEW d \in Sibling, NEW f \in Field, SetIdentity(d, f) PROVE CardInv' /\ Same
  <2>1. /\ edits' = edits + 1 /\ UNCHANGED <<card, writing, cardBox>>
        /\ queue' = [queue EXCEPT ![d] = Append(@, [kind |-> "set", vals |-> form'[d]])]
    BY <1>4 DEF SetIdentity
  <2>2. PICK draft \in Drafts(d, f, edits') : form' = [form EXCEPT ![d] = draft]
    BY <1>4 DEF SetIdentity
  <2>3. draft \in [Field -> Nat]
    <3>1. form[d] \in [Field -> Nat] /\ Values(card[d]) \in [Field -> Nat] /\ edits' \in Nat
      BY <1>0, <1>2, <2>1
    <3> QED BY <3>1 DEF Drafts
  <2>4. form' \in [Sibling -> [Field -> Nat]] /\ form'[d] = draft
    BY <1>0, <2>2, <2>3
  <2>5. PICK op : op = [kind |-> "set", vals |-> form'[d]]
    OBVIOUS
  <2>6. op \in WriteType
    BY <2>3, <2>4, <2>5 DEF WriteType
  <2>7. queue' \in [Sibling -> Seq(WriteType)]
    BY <1>0, <2>1, <2>5, <2>6
  <2> QED BY <1>0, <1>1, <2>1, <2>4, <2>7, CardTransport
<1>5. ASSUME NEW d \in Sibling, AdoptSiblingIdentity(d) PROVE CardInv' /\ Same
  <2>1. /\ cardBox[d] # <<>> /\ cardBox[d] \in Seq(FrameType) /\ queue[d] \in Seq(WriteType)
        /\ queue' = [queue EXCEPT ![d] = Append(@, Head(cardBox[d]))]
        /\ cardBox' = [cardBox EXCEPT ![d] = Tail(@)]
        /\ UNCHANGED <<edits, card, form, writing>>
    BY <1>0, <1>5 DEF AdoptSiblingIdentity
  <2>2. Head(cardBox[d]) \in FrameType /\ Tail(cardBox[d]) \in Seq(FrameType)
    BY <2>1
  <2>3. Append(queue[d], Head(cardBox[d])) \in Seq(WriteType)
    BY <2>1, <2>2 DEF WriteType
  <2>4. queue' \in [Sibling -> Seq(WriteType)] /\ cardBox' \in [Sibling -> Seq(FrameType)]
    BY <1>0, <2>1, <2>2, <2>3
  <2> QED BY <1>0, <1>1, <2>1, <2>4, CardTransport
<1>6. ASSUME NEW d \in Sibling, CardLoad(d) PROVE CardInv' /\ Same
  <2>1. PICK t \in Clock : writing' = [writing EXCEPT ![d] = @ \cup {Begun(d, t)}]
    BY <1>6 DEF CardLoad
  <2>2. PICK w : w = Begun(d, t)
    OBVIOUS
  <2>3. /\ queue[d] # <<>> /\ queue[d] \in Seq(WriteType) /\ writing[d] = {}
        /\ writing' = [writing EXCEPT ![d] = @ \cup {w}]
        /\ queue' = [queue EXCEPT ![d] = Tail(@)]
        /\ UNCHANGED <<edits, card, form, cardBox>>
    BY <1>0, <1>6, <2>1, <2>2 DEF CardLoad
  <2>4. Head(queue[d]) \in WriteType /\ Tail(queue[d]) \in Seq(WriteType)
    BY <2>3
  <2>5. t \in Int
    BY <2>1 DEF Clock
  <2>6. w.op \in WriteType /\ w.base = card[d] /\ w.now \in Int
    BY <2>2, <2>4, <2>5 DEF Begun
  <2>7. writing'[d] = {w} /\ (\A e \in Sibling : e # d => writing'[e] = writing[e])
        /\ writing' = [e \in Sibling |-> writing'[e]]
    BY <1>0, <2>3
  <2>8. ASSUME NEW e \in Sibling PROVE OneWrite(e)'
    <3>1. CASE e = d
      BY <2>3, <2>6, <2>7, <3>1 DEF OneWrite
    <3>2. CASE e # d
      BY <1>0, <2>3, <2>7, <3>2 DEF OneWrite
    <3> QED BY <3>1, <3>2
  <2>9. queue' \in [Sibling -> Seq(WriteType)]
    BY <1>0, <2>3, <2>4
  <2> QED BY <1>0, <1>1, <2>3, <2>7, <2>8, <2>9 DEF CardInv
<1>7. ASSUME NEW d \in Sibling, CardSave(d) PROVE CardInv' /\ Same
  <2>1. PICK w \in writing[d] :
          /\ IF w.op.kind = "set" \/ Written(w) # w.base
             THEN /\ card' = [card EXCEPT ![d] = Written(w)]
                  /\ cardBox' = PublishIdentity(d, cardBox, Written(w))
             ELSE UNCHANGED <<card, cardBox>>
          /\ writing' = [writing EXCEPT ![d] = @ \ {w}]
          /\ UNCHANGED <<edits, form, queue>>
    BY <1>7 DEF CardSave
  <2>2. writing[d] = {w} /\ w.base = card[d] /\ w.op \in WriteType /\ w.now \in Int
    BY <1>0, <2>1 DEF OneWrite
  <2>3. w.base \in CardType
    BY <1>0, <2>2
  <2>4. /\ Written(w) \in CardType
        /\ \A f \in Field :
             \/ Written(w)[f] = card[d][f]
             \/ Written(w)[f].v > card[d][f].v
             \/ /\ w.op.kind = "set" /\ w.op.vals[f] # card[d][f].val
                /\ Written(w)[f] = [v |-> w.now, val |-> w.op.vals[f]]
    BY <2>2, <2>3, WrittenUpdates
  <2>5. PublishIdentity(d, cardBox, Written(w)) \in [Sibling -> Seq(FrameType)]
    BY <1>0, <2>4, PublishedFrames
  <2>6. /\ card' \in [Sibling -> CardType] /\ cardBox' \in [Sibling -> Seq(FrameType)]
        /\ (\A e \in Sibling : e # d => card'[e] = card[e])
        /\ card'[d] = card[d] \/ card'[d] = Written(w)
    BY <1>0, <2>1, <2>4, <2>5
  <2>7. writing'[d] = {} /\ (\A e \in Sibling : e # d => writing'[e] = writing[e])
        /\ writing' = [e \in Sibling |-> writing'[e]]
    BY <1>0, <2>1, <2>2
  <2>8. ASSUME NEW e \in Sibling, NEW f \in Field, card'[e][f] # card[e][f]
        PROVE  \/ card'[e][f].v > card[e][f].v
               \/ \E x \in writing[e] \ writing'[e] : Edited(e, f, x)
    <3>1. e = d /\ card'[d] = Written(w)
      BY <2>6, <2>8
    <3>2. w \in writing[e] \ writing'[e]
      BY <2>1, <2>7, <3>1
    <3>3. card'[e][f].v > card[e][f].v \/ Edited(e, f, w)
      BY <2>4, <2>8, <3>1 DEF Edited
    <3> QED BY <3>2, <3>3
  <2>9. ASSUME NEW e \in Sibling PROVE OneWrite(e)'
    BY <1>0, <2>1, <2>6, <2>7 DEF OneWrite
  <2>10. Same
    BY <2>8 DEF Same
  <2> QED BY <1>0, <2>1, <2>6, <2>7, <2>9, <2>10 DEF CardInv
<1>8. ASSUME NEW d \in Sibling, CardResync(d) PROVE CardInv' /\ Same
  <2>1. cardBox' = PublishIdentity(d, cardBox, card[d]) /\ UNCHANGED <<edits, card, form, queue, writing>>
    BY <1>8 DEF CardResync
  <2>2. cardBox' \in [Sibling -> Seq(FrameType)]
    BY <1>0, <2>1, PublishedFrames
  <2> QED BY <1>0, <1>1, <2>1, <2>2, CardTransport
<1>9. ASSUME NEW d \in Sibling, CardReload(d) PROVE CardInv' /\ Same
  <2>1. /\ queue' = [queue EXCEPT ![d] = <<>>] /\ writing' = [writing EXCEPT ![d] = {}]
        /\ form' = [form EXCEPT ![d] = Values(card[d])] /\ UNCHANGED <<edits, card, cardBox>>
    BY <1>9 DEF CardReload
  <2>2. writing'[d] = {} /\ (\A e \in Sibling : e # d => writing'[e] = writing[e])
        /\ writing' = [e \in Sibling |-> writing'[e]]
    BY <1>0, <2>1
  <2>3. form' \in [Sibling -> [Field -> Nat]]
    BY <1>0, <1>2, <2>1
  <2>4. queue' \in [Sibling -> Seq(WriteType)]
    BY <1>0, <2>1
  <2>5. ASSUME NEW e \in Sibling PROVE OneWrite(e)'
    BY <1>0, <2>1, <2>2 DEF OneWrite
  <2> QED BY <1>0, <1>1, <2>1, <2>2, <2>3, <2>4, <2>5 DEF CardInv
<1> QED BY <1>3, <1>4, <1>5, <1>6, <1>7, <1>8, <1>9 DEF CardNext, CardWork, Same

\* No save of the card undoes an update of a field, on any device, whatever the clocks
\* show and for any number of devices, fields, edits and reloads: runIdentityWrite queues
\* load and save as one, so a save never starts from a card that another has replaced.
THEOREM CardKeepsUpdates == CardSpec => CardLosesNoUpdate
<1> DEFINE Kept1 == \A d \in Sibling, f \in Field : card'[d][f] # card[d][f] =>
                      \/ card'[d][f].v > card[d][f].v
                      \/ \E w \in writing[d] \ writing'[d] : Edited(d, f, w)
<1>1. CardInit => CardInv
  <2> SUFFICES ASSUME CardInit PROVE CardInv
    OBVIOUS
  <2>1. BlankCard \in CardType /\ Values(BlankCard) \in [Field -> Nat]
    BY DEF BlankCard, CardType, Values
  <2> QED BY <2>1 DEF CardInit, CardInv, OneWrite
<1>2. CardInv /\ [CardNext]_CardVars => CardInv' /\ [Kept1]_CardVars
  BY CardStepKeeps
<1> QED BY <1>1, <1>2, PTL DEF CardSpec, CardLosesNoUpdate
=============================================================================
