---------------------------- MODULE SessionProofs ----------------------------
(***************************************************************************)
(* Proofs about calls and file transfers, for every number of calls, ICE   *)
(* candidates, chunks and faults.                                          *)
(***************************************************************************)
EXTENDS Calls, Files, FiniteSetTheorems, SequenceTheorems, TLAPS

-----------------------------------------------------------------------------
(* The two ends.                                                           *)

\* A conversation has two ends, each the other's Other.
LEMMA OtherEnd ==
  ASSUME NEW p \in Peer
  PROVE  Other(p) \in Peer /\ Other(p) # p /\ \A q \in Peer : q = p \/ q = Other(p)
<1>1. IsFiniteSet(Peer) /\ Cardinality(Peer) = 2
  BY CallsAssumption
<1>2. IsFiniteSet(Peer \ {p}) /\ Cardinality(Peer \ {p}) = 1
  BY <1>1, FS_RemoveElement
<1>3. PICK q : Peer \ {p} = {q}
  BY <1>2, FS_Singleton
<1>4. q \in Peer /\ q # p /\ \A r \in Peer : r # p => r = q
  BY <1>3
<1>5. Other(p) \in Peer /\ Other(p) # p
  BY <1>4 DEF Other
<1> QED BY <1>4, <1>5

\* The calls of a session: a record for each call it knows of.
LEMMA CallsType ==
  ASSUME NEW s
  PROVE  s \in UNION {[S -> CallRecord] : S \in SUBSET CallId}
           <=> DOMAIN s \subseteq CallId /\ s \in [DOMAIN s -> CallRecord]
<1>1. ASSUME s \in UNION {[S -> CallRecord] : S \in SUBSET CallId}
      PROVE  DOMAIN s \subseteq CallId /\ s \in [DOMAIN s -> CallRecord]
  BY <1>1
<1>2. ASSUME DOMAIN s \subseteq CallId, s \in [DOMAIN s -> CallRecord]
      PROVE  s \in UNION {[S -> CallRecord] : S \in SUBSET CallId}
  BY <1>2
<1> QED BY <1>1, <1>2

\* One end: every capture belongs to one of its calls.
Side(s) == s \in CallSide /\ s.live \subseteq DOMAIN s.calls

SidesOK == side \in [Peer -> CallSide] /\ \A p \in Peer : Side(side[p])

CallTypes ==
  /\ SidesOK
  /\ wire \in [Peer -> Seq(Signal)]
  /\ placed \in 0 .. MaxCall /\ moves \in 0 .. MaxNavigate
  /\ refusals \in 0 .. MaxRefusal /\ hungUp \subseteq CallId

\* What SetCall changes: one record.
LEMMA SetCallChanges ==
  ASSUME NEW s, Side(s), NEW id \in CallId, NEW call \in CallRecord
  PROVE  LET r == SetCall(s, id, call) IN
         /\ Side(r)
         /\ DOMAIN r.calls = DOMAIN s.calls \cup {id} /\ r.calls[id] = call
         /\ \A x \in DOMAIN s.calls : x # id => r.calls[x] = s.calls[x]
         /\ r.live = s.live /\ r.tasks = s.tasks /\ r.active = s.active
         /\ r.prompts = s.prompts /\ r.inChat = s.inChat
<1> DEFINE c == [i \in DOMAIN s.calls \cup {id} |-> IF i = id THEN call ELSE s.calls[i]]
<1>1. DOMAIN s.calls \subseteq CallId /\ s.calls \in [DOMAIN s.calls -> CallRecord]
  BY CallsType DEF Side, CallSide
<1>2. /\ DOMAIN c = DOMAIN s.calls \cup {id} /\ c[id] = call
      /\ \A x \in DOMAIN s.calls : x # id => c[x] = s.calls[x]
      /\ c \in [DOMAIN c -> CallRecord]
  BY <1>1
<1>3. SetCall(s, id, call) = [s EXCEPT !.calls = c]
  BY DEF SetCall
<1> HIDE DEF c
<1>4. c \in UNION {[S -> CallRecord] : S \in SUBSET CallId}
  BY <1>1, <1>2, CallsType
<1> QED BY <1>2, <1>3, <1>4 DEF Side, CallSide

\* What teardown changes: the call is gone, and its capture with it.
LEMMA TeardownChanges ==
  ASSUME NEW s, Side(s), NEW id \in CallId
  PROVE  LET r == Teardown(s, id) IN
         /\ Side(r)
         /\ DOMAIN r.calls = DOMAIN s.calls \ {id}
         /\ \A x \in DOMAIN r.calls : r.calls[x] = s.calls[x]
         /\ r.live = s.live \ {id} /\ r.tasks = s.tasks /\ r.active = s.active
         /\ r.prompts = s.prompts /\ r.inChat = s.inChat
<1> DEFINE c == [i \in DOMAIN s.calls \ {id} |-> s.calls[i]]
<1>1. DOMAIN s.calls \subseteq CallId /\ s.calls \in [DOMAIN s.calls -> CallRecord]
  BY CallsType DEF Side, CallSide
<1>2. /\ DOMAIN c = DOMAIN s.calls \ {id}
      /\ \A x \in DOMAIN c : c[x] = s.calls[x]
      /\ c \in [DOMAIN c -> CallRecord]
  BY <1>1
<1>3. Teardown(s, id) = [[s EXCEPT !.live = @ \ {id}] EXCEPT !.calls = c]
  BY DEF Teardown, StopTracks
<1> HIDE DEF c
<1>4. c \in UNION {[S -> CallRecord] : S \in SUBSET CallId}
  BY <1>1, <1>2, CallsType
<1> QED BY <1>2, <1>3, <1>4 DEF Side, CallSide

\* The other operators on an end leave its calls and captures alone.
LEMMA SideChanges ==
  ASSUME NEW s, Side(s), NEW id \in CallId, NEW t \in Task
  PROVE  /\ LET r == Await(s, id, t) IN
              /\ Side(r) /\ r.calls = s.calls /\ r.live = s.live
              /\ r.tasks = s.tasks \cup {<<id, t>>} /\ r.active = s.active
              /\ r.prompts = s.prompts /\ r.inChat = s.inChat
         /\ LET r == Resumed(s, id, t) IN
              /\ Side(r) /\ r.calls = s.calls /\ r.live = s.live
              /\ r.tasks = s.tasks \ {<<id, t>>} /\ r.active = s.active
              /\ r.prompts = s.prompts /\ r.inChat = s.inChat
         /\ LET r == OnEnded(s, id) IN
              /\ Side(r) /\ r.calls = s.calls /\ r.live = s.live
              /\ r.tasks = s.tasks /\ r.prompts \subseteq s.prompts /\ r.inChat = s.inChat
<1>1. LET r == Await(s, id, t) IN
        /\ Side(r) /\ r.calls = s.calls /\ r.live = s.live
        /\ r.tasks = s.tasks \cup {<<id, t>>} /\ r.active = s.active
        /\ r.prompts = s.prompts /\ r.inChat = s.inChat
  BY DEF Side, CallSide, Await
<1>2. LET r == Resumed(s, id, t) IN
        /\ Side(r) /\ r.calls = s.calls /\ r.live = s.live
        /\ r.tasks = s.tasks \ {<<id, t>>} /\ r.active = s.active
        /\ r.prompts = s.prompts /\ r.inChat = s.inChat
  BY DEF Side, CallSide, Resumed
<1>3. LET r == OnEnded(s, id) IN
        /\ Side(r) /\ r.calls = s.calls /\ r.live = s.live
        /\ r.tasks = s.tasks /\ r.prompts \subseteq s.prompts /\ r.inChat = s.inChat
  BY DEF Side, CallSide, OnEnded, NoCall
<1> QED BY <1>1, <1>2, <1>3

-----------------------------------------------------------------------------
(* The signals.                                                            *)

Coming(w, kind, id) == \E i \in DOMAIN w : w[i].kind = kind /\ w[i].id = id

OneOffer(w, id) ==
  \A i, j \in DOMAIN w : w[i].kind = "offer" /\ w[i].id = id /\ w[j].kind = "offer" /\ w[j].id = id => i = j

\* The signals v are no more about call x than the signals w were.
Fewer(w, v, x) ==
  /\ \A k \in {"offer", "answer"} : Coming(v, k, x) => Coming(w, k, x)
  /\ OneOffer(w, x) => OneOffer(v, x)

\* A signal is taken off the front.
LEMMA TailSignals ==
  ASSUME NEW w \in Seq(Signal), w # <<>>
  PROVE  /\ Tail(w) \in Seq(Signal) /\ Head(w) \in Signal
         /\ \A x : Fewer(w, Tail(w), x)
         /\ Coming(w, Head(w).kind, Head(w).id)
         /\ \A x : OneOffer(w, x) /\ Head(w).kind = "offer" /\ Head(w).id = x => ~Coming(Tail(w), "offer", x)
<1> DEFINE v == Tail(w)
<1>1. /\ Len(w) \in Nat \ {0} /\ v \in Seq(Signal) /\ Len(v) = Len(w) - 1
      /\ \A j \in 1..(Len(w) - 1) : v[j] = w[j + 1]
      /\ Head(w) = w[1] /\ 1 \in DOMAIN w /\ w[1] \in Signal
  BY HeadTailProperties
<1> HIDE DEF v
<1>2. \A j \in DOMAIN v : j + 1 \in DOMAIN w /\ v[j] = w[j + 1] /\ j + 1 # 1 /\ j \in Nat
  BY <1>1
<1>3. \A k, x : Coming(v, k, x) => Coming(w, k, x)
  BY <1>2 DEF Coming
<1>4. ASSUME NEW x, OneOffer(w, x) PROVE OneOffer(v, x)
  <2> SUFFICES ASSUME NEW i \in DOMAIN v, NEW j \in DOMAIN v,
                      v[i].kind = "offer", v[i].id = x, v[j].kind = "offer", v[j].id = x
               PROVE  i = j
    BY DEF OneOffer
  <2>1. i + 1 = j + 1
    BY <1>2, <1>4 DEF OneOffer
  <2> QED BY <1>2, <2>1
<1>5. ASSUME NEW x, OneOffer(w, x), w[1].kind = "offer", w[1].id = x PROVE ~Coming(v, "offer", x)
  BY <1>1, <1>2, <1>5 DEF OneOffer, Coming
<1> QED BY <1>1, <1>3, <1>4, <1>5 DEF v, Fewer, Coming

\* A signal is sent.
LEMMA AppendSignals ==
  ASSUME NEW w \in Seq(Signal), NEW sig \in Signal
  PROVE  LET v == Append(w, sig) IN
         /\ v \in Seq(Signal)
         /\ \A k, x : Coming(v, k, x) <=> Coming(w, k, x) \/ (sig.kind = k /\ sig.id = x)
         /\ \A x : OneOffer(w, x) /\ (sig.kind = "offer" /\ sig.id = x => ~Coming(w, "offer", x))
                     => OneOffer(v, x)
<1> DEFINE v == Append(w, sig)
<1>1. /\ v \in Seq(Signal) /\ DOMAIN w = 1..Len(w) /\ Len(w) \in Nat /\ DOMAIN v = 1..(Len(w) + 1)
      /\ \A j \in 1..Len(w) : v[j] = w[j]
      /\ v[Len(w) + 1] = sig
  BY AppendProperties
<1> HIDE DEF v
<1>2. \A j \in DOMAIN v : (j \in DOMAIN w /\ v[j] = w[j]) \/ (j = Len(w) + 1 /\ v[j] = sig)
  BY <1>1
<1>3. /\ \A j \in DOMAIN w : j \in DOMAIN v /\ v[j] = w[j]
      /\ Len(w) + 1 \in DOMAIN v
  BY <1>1
<1>4. \A k, x : Coming(v, k, x) <=> Coming(w, k, x) \/ (sig.kind = k /\ sig.id = x)
  BY <1>1, <1>2, <1>3 DEF Coming
<1>5. ASSUME NEW x, OneOffer(w, x), sig.kind = "offer" /\ sig.id = x => ~Coming(w, "offer", x)
      PROVE  OneOffer(v, x)
  BY <1>2, <1>3, <1>5 DEF OneOffer, Coming
<1> QED BY <1>1, <1>4, <1>5 DEF v

\* What sendSignal puts on the wire: at most one signal, to the other end.
LEMMA SendChanges ==
  ASSUME NEW p \in Peer, NEW kind \in {"offer", "answer", "ice", "decline", "hangup"},
         NEW id \in CallId, wire \in [Peer -> Seq(Signal)]
  PROVE  LET v == SendSignal(p, kind, id) IN
         /\ v \in [Peer -> Seq(Signal)] /\ v[p] = wire[p]
         /\ \A k, x : Coming(v[Other(p)], k, x) => Coming(wire[Other(p)], k, x) \/ (k = kind /\ x = id)
         /\ \A x : OneOffer(wire[Other(p)], x) /\ (kind = "offer" /\ id = x => ~Coming(wire[Other(p)], "offer", x))
                     => OneOffer(v[Other(p)], x)
         /\ \A x, q : q \in Peer /\ (x # id \/ kind \notin {"offer", "answer"}) => Fewer(wire[q], v[q], x)
<1> DEFINE v == SendSignal(p, kind, id)
           q == Other(p)
           sig == [kind |-> kind, id |-> id]
           a == Append(wire[q], sig)
<1>1. q \in Peer /\ q # p /\ \A r \in Peer : r = p \/ r = q
  BY OtherEnd
<1>2. sig \in Signal /\ sig.kind = kind /\ sig.id = id
  BY DEF Signal
<1>3. v = wire \/ v = [wire EXCEPT ![q] = a]
  BY DEF SendSignal, SendCallSignal
<1>4. wire[q] \in Seq(Signal)
  BY <1>1
<1> HIDE DEF sig
<1>5. /\ a \in Seq(Signal)
      /\ \A k, x : Coming(a, k, x) <=> Coming(wire[q], k, x) \/ (kind = k /\ id = x)
      /\ \A x : OneOffer(wire[q], x) /\ (kind = "offer" /\ id = x => ~Coming(wire[q], "offer", x))
                  => OneOffer(a, x)
  BY <1>2, <1>4, AppendSignals
<1> HIDE DEF a, v, q
<1>6. v \in [Peer -> Seq(Signal)] /\ v[p] = wire[p] /\ (v[q] = wire[q] \/ v[q] = a)
  BY <1>1, <1>3, <1>5
<1>7. \A k, x : Coming(v[q], k, x) => Coming(wire[q], k, x) \/ (k = kind /\ x = id)
  BY <1>5, <1>6
<1>8. \A x : OneOffer(wire[q], x) /\ (kind = "offer" /\ id = x => ~Coming(wire[q], "offer", x))
               => OneOffer(v[q], x)
  BY <1>5, <1>6
<1>9. ASSUME NEW x, NEW r \in Peer, x # id \/ kind \notin {"offer", "answer"}
      PROVE  Fewer(wire[r], v[r], x)
  <2>1. CASE r = p
    BY <1>6, <2>1 DEF Fewer
  <2>2. CASE r = q
    BY <1>7, <1>8, <1>9, <2>2 DEF Fewer
  <2> QED BY <1>1, <2>1, <2>2
<1> QED BY <1>6, <1>7, <1>8, <1>9 DEF v, q

-----------------------------------------------------------------------------
(* Who placed a call, and what either end can still be waiting for.        *)

Waits(s, id, t) == <<id, t>> \in s.tasks

\* The end knows nothing of the call.
Idle(s, id) == ~Has(s, id) /\ id \notin s.prompts /\ \A t \in Task : ~Waits(s, id, t)

\* The caller is still to send its offer.
Starting(s, id) == Waits(s, id, "capture") \/ Waits(s, id, "offer")

\* The end that placed the call: it is never rung for it, it has a connection once its
\* capture resolved, and buffers nothing after the answer is installed.
CallerEnd(s, w, id) ==
  /\ id \notin s.prompts /\ ~Waits(s, id, "install") /\ ~Waits(s, id, "answer")
  /\ ~Coming(w, "offer", id)
  /\ ~(Waits(s, id, "capture") /\ Waits(s, id, "offer"))
  /\ Starting(s, id) => ~Waits(s, id, "apply") /\ ~Coming(w, "answer", id)
  /\ Has(s, id) => /\ s.calls[id].role = "caller"
                   /\ s.calls[id].pc \/ Waits(s, id, "capture")
                   /\ s.calls[id].remoteReady => s.calls[id].pc /\ s.calls[id].pendingIce = 0

\* The end that is called: it is rung by one offer, and what it buffers after the offer
\* is installed is drained when its answer is made.
CalleeEnd(s, w, id) ==
  /\ ~Waits(s, id, "offer") /\ ~Waits(s, id, "apply")
  /\ ~Coming(w, "answer", id)
  /\ OneOffer(w, id) /\ (Coming(w, "offer", id) => Idle(s, id))
  /\ Has(s, id) => /\ s.calls[id].role = "callee"
                   /\ Waits(s, id, "install") \/ s.calls[id].remoteReady => s.calls[id].pc
                   /\ s.calls[id].remoteReady /\ s.calls[id].pendingIce # 0 => Waits(s, id, "answer")

PlacedBy(o, id) ==
  /\ CallerEnd(side[o], wire[o], id) /\ CalleeEnd(side[Other(o)], wire[Other(o)], id)
  /\ Starting(side[o], id) => Idle(side[Other(o)], id) /\ ~Coming(wire[Other(o)], "offer", id)

NotPlaced(id) ==
  \A p \in Peer : Idle(side[p], id) /\ ~Coming(wire[p], "offer", id) /\ ~Coming(wire[p], "answer", id)

Traced(id) == IF id <= placed THEN \E o \in Peer : PlacedBy(o, id) ELSE NotPlaced(id)

CallInv == CallTypes /\ \A id \in CallId : Traced(id)

\* The end r keeps no more of call x than the end s had.
Less(s, r, x) ==
  /\ Has(r, x) => /\ Has(s, x)
                  /\ r.calls[x].role = s.calls[x].role /\ r.calls[x].pc = s.calls[x].pc
                  /\ r.calls[x].remoteReady = s.calls[x].remoteReady
                  /\ r.calls[x].pendingIce = s.calls[x].pendingIce
                  /\ \A t \in Task : Waits(s, x, t) => Waits(r, x, t)
  /\ \A t \in Task : Waits(r, x, t) => Waits(s, x, t)
  /\ x \in r.prompts => x \in s.prompts

\* Forgetting a call, or losing its signals, breaks nothing.
LEMMA TracedShrinks ==
  ASSUME NEW x, Traced(x), UNCHANGED placed,
         \A q \in Peer : Less(side[q], side'[q], x) /\ Fewer(wire[q], wire'[q], x)
  PROVE  Traced(x)'
<1>1. \A q \in Peer : Idle(side[q], x) => Idle(side'[q], x)
  BY DEF Idle, Less
<1>2. \A q \in Peer : /\ Coming(wire'[q], "offer", x) => Coming(wire[q], "offer", x)
                      /\ Coming(wire'[q], "answer", x) => Coming(wire[q], "answer", x)
                      /\ OneOffer(wire[q], x) => OneOffer(wire'[q], x)
  BY DEF Fewer
<1>3. CASE x <= placed
  <2>1. PICK o \in Peer : PlacedBy(o, x)
    BY <1>3 DEF Traced
  <2>2. Other(o) \in Peer
    BY OtherEnd
  <2>3. \A q \in Peer : Starting(side'[q], x) => Starting(side[q], x)
    BY DEF Starting, Less, Task
  <2>4. CallerEnd(side'[o], wire'[o], x)
    <3>1. CallerEnd(side[o], wire[o], x) /\ Less(side[o], side'[o], x)
      BY <2>1 DEF PlacedBy
    <3>2. {"capture", "offer", "install", "answer", "apply"} = Task
      BY DEF Task
    <3> QED BY <1>2, <2>3, <3>1, <3>2 DEF CallerEnd, Less
  <2>5. CalleeEnd(side'[Other(o)], wire'[Other(o)], x)
    <3>1. CalleeEnd(side[Other(o)], wire[Other(o)], x) /\ Less(side[Other(o)], side'[Other(o)], x)
      BY <2>1, <2>2 DEF PlacedBy
    <3>2. {"capture", "offer", "install", "answer", "apply"} = Task
      BY DEF Task
    <3> QED BY <1>1, <1>2, <2>2, <3>1, <3>2 DEF CalleeEnd, Less
  <2>6. PlacedBy(o, x)'
    BY <1>1, <1>2, <2>1, <2>2, <2>3, <2>4, <2>5 DEF PlacedBy
  <2> QED BY <1>3, <2>6 DEF Traced
<1>4. CASE ~(x <= placed)
  BY <1>1, <1>2, <1>4 DEF Traced, NotPlaced
<1> QED BY <1>3, <1>4

\* A step of one end that is about one call leaves the other calls traced.
LEMMA OneEndSteps ==
  ASSUME CallInv, NEW p \in Peer, NEW id \in CallId, NEW r, Side(r),
         side' = [side EXCEPT ![p] = r], wire' \in [Peer -> Seq(Signal)], UNCHANGED placed,
         moves' \in 0 .. MaxNavigate, refusals' \in 0 .. MaxRefusal, hungUp' \subseteq CallId,
         \A x \in CallId : x # id => Less(side[p], r, x) /\ \A q \in Peer : Fewer(wire[q], wire'[q], x),
         Traced(id)'
  PROVE  CallInv'
<1>1. CallTypes'
  BY DEF CallInv, CallTypes, SidesOK, Side
<1>2. \A q \in Peer : side'[q] = IF q = p THEN r ELSE side[q]
  BY DEF CallInv, CallTypes, SidesOK
<1>3. \A q \in Peer, x \in CallId : Less(side[q], side[q], x)
  BY DEF Less
<1>4. ASSUME NEW x \in CallId, x # id PROVE Traced(x)'
  <2>1. \A q \in Peer : Less(side[q], side'[q], x) /\ Fewer(wire[q], wire'[q], x)
    BY <1>2, <1>3, <1>4
  <2>2. Traced(x)
    BY DEF CallInv
  <2> QED BY <2>1, <2>2, TracedShrinks
<1> QED BY <1>1, <1>4 DEF CallInv

\* A step of one end that only forgets keeps the invariant.
LEMMA OneEndForgets ==
  ASSUME CallInv, NEW p \in Peer, NEW r, Side(r),
         side' = [side EXCEPT ![p] = r], wire' \in [Peer -> Seq(Signal)], UNCHANGED placed,
         moves' \in 0 .. MaxNavigate, refusals' \in 0 .. MaxRefusal, hungUp' \subseteq CallId,
         \A x \in CallId : Less(side[p], r, x) /\ \A q \in Peer : Fewer(wire[q], wire'[q], x)
  PROVE  CallInv'
<1>1. CallTypes'
  BY DEF CallInv, CallTypes, SidesOK, Side
<1>2. \A q \in Peer : side'[q] = IF q = p THEN r ELSE side[q]
  BY DEF CallInv, CallTypes, SidesOK
<1>3. \A q \in Peer, x \in CallId : Less(side[q], side[q], x)
  BY DEF Less
<1>4. ASSUME NEW x \in CallId PROVE Traced(x)'
  <2>1. \A q \in Peer : Less(side[q], side'[q], x) /\ Fewer(wire[q], wire'[q], x)
    BY <1>2, <1>3, <1>4
  <2>2. Traced(x)
    BY DEF CallInv
  <2> QED BY <2>1, <2>2, TracedShrinks
<1> QED BY <1>1, <1>4 DEF CallInv

\* A call that an end knows of was placed by one of the two ends.
LEMMA KnownIsPlaced ==
  ASSUME CallInv, NEW id \in CallId, NEW p \in Peer,
         ~Idle(side[p], id) \/ Coming(wire[p], "offer", id) \/ Coming(wire[p], "answer", id)
  PROVE  id <= placed /\ \E o \in Peer : PlacedBy(o, id) /\ (p = o \/ p = Other(o))
<1>1. id <= placed
  BY DEF CallInv, Traced, NotPlaced
<1>2. PICK o \in Peer : PlacedBy(o, id)
  BY <1>1 DEF CallInv, Traced
<1> QED BY <1>1, <1>2, OtherEnd

\* Dialling, accepting and the continuations of the setup keep the invariant.
LEMMA SetupKeeps ==
  ASSUME CallInv, NEW p \in Peer, NEW id \in CallId,
         \/ StartOutgoingCall(p) /\ id = placed + 1
         \/ AcceptCall(p, id) \/ CaptureResolves(p, id) \/ OfferMade(p, id)
         \/ OfferInstalled(p, id) \/ AnswerMade(p, id) \/ AnswerInstalled(p, id)
  PROVE  CallInv'
<1> DEFINE s == side[p]
           q == Other(p)
<1>1. /\ Side(s) /\ q \in Peer /\ q # p /\ (\A o \in Peer : o = p \/ o = q) /\ Other(q) = p
      /\ wire \in [Peer -> Seq(Signal)] /\ side \in [Peer -> CallSide] /\ Side(side[q])
      /\ placed \in 0 .. MaxCall /\ moves \in 0 .. MaxNavigate
      /\ refusals \in 0 .. MaxRefusal /\ hungUp \subseteq CallId
  BY OtherEnd DEF CallInv, CallTypes, SidesOK
<1>2. \A w, x : Fewer(w, w, x)
  BY DEF Fewer
<1>3. \A x \in DOMAIN s.calls : s.calls[x] \in CallRecord
  BY <1>1, CallsType DEF Side, CallSide
<1>4. /\ {"capture", "offer", "install", "answer", "apply"} = Task
      /\ \A x, y, t, u : <<x, t>> = <<y, u>> => x = y /\ t = u
  BY DEF Task
<1> HIDE DEF q
<1>5. CASE AcceptCall(p, id)
  <2> DEFINE shown == [s EXCEPT !.prompts = @ \ {id}, !.active = id]
  <2>1. /\ Side(shown) /\ shown.calls = s.calls /\ shown.tasks = s.tasks
        /\ shown.prompts = s.prompts \ {id}
    BY <1>1 DEF Side, CallSide
  <2>2. /\ id \in s.prompts /\ UNCHANGED <<wire, placed, moves, refusals, hungUp>>
        /\ side' = [side EXCEPT ![p] = IF Has(shown, id) THEN Await(shown, id, "capture") ELSE shown]
    BY <1>5 DEF AcceptCall, Unmoved
  <2> HIDE DEF shown
  <2> DEFINE r == IF Has(shown, id) THEN Await(shown, id, "capture") ELSE shown
  <2>3. /\ Side(r) /\ r.calls = s.calls /\ r.prompts = s.prompts \ {id}
        /\ r.tasks = s.tasks \/ r.tasks = s.tasks \cup {<<id, "capture">>}
    BY <1>4, <2>1, SideChanges
  <2> HIDE DEF r
  <2>4. side' = [side EXCEPT ![p] = r] /\ side'[p] = r /\ side'[q] = side[q]
    BY <1>1, <2>2 DEF r
  <2>5. \A x \in CallId : x # id => Less(s, r, x)
    BY <1>4, <2>3 DEF Less, Has, Waits
  <2>6. ~Idle(s, id)
    BY <2>2 DEF Idle
  <2>7. id <= placed /\ PlacedBy(q, id)
    BY <1>1, <2>2, <2>6, KnownIsPlaced DEF PlacedBy, CallerEnd
  <2>8. ~Starting(side[q], id) /\ CallerEnd(side[q], wire[q], id) /\ CalleeEnd(s, wire[p], id)
    BY <1>1, <2>6, <2>7 DEF PlacedBy
  <2>9. CalleeEnd(r, wire[p], id)
    <3>1. Waits(r, id, "offer") = Waits(s, id, "offer") /\ Waits(r, id, "apply") = Waits(s, id, "apply")
          /\ Waits(r, id, "install") = Waits(s, id, "install") /\ Waits(r, id, "answer") = Waits(s, id, "answer")
          /\ Has(r, id) = Has(s, id)
      BY <1>4, <2>3 DEF Waits, Has
    <3> QED BY <2>3, <2>6, <2>8, <3>1 DEF CalleeEnd
  <2>10. PlacedBy(q, id)'
    BY <1>1, <2>2, <2>4, <2>8, <2>9 DEF PlacedBy
  <2>11. Traced(id)'
    BY <1>1, <2>2, <2>7, <2>10 DEF Traced
  <2>12. \A x \in CallId : x # id => Less(side[p], r, x) /\ \A k \in Peer : Fewer(wire[k], wire'[k], x)
    BY <1>2, <2>2, <2>5
  <2>13. wire' \in [Peer -> Seq(Signal)] /\ placed' = placed
         /\ moves' \in 0 .. MaxNavigate /\ refusals' \in 0 .. MaxRefusal /\ hungUp' \subseteq CallId
    BY <1>1, <2>2
  <2> QED BY <1>1, <2>3, <2>4, <2>11, <2>12, <2>13, OneEndSteps
<1>6. CASE CaptureResolves(p, id)
  <2> DEFINE t0 == Resumed(s, id, "capture")
  <2>1. /\ Side(t0) /\ t0.calls = s.calls /\ t0.live = s.live /\ t0.prompts = s.prompts
        /\ t0.tasks = s.tasks \ {<<id, "capture">>}
    BY <1>1, <1>4, SideChanges
  <2>2. /\ <<id, "capture">> \in s.tasks /\ UNCHANGED <<wire, placed, moves, refusals, hungUp>>
        /\ side' = [side EXCEPT ![p] = Captured(t0, id)]
    BY <1>6 DEF CaptureResolves, Unmoved
  <2>3. wire' \in [Peer -> Seq(Signal)] /\ placed' = placed
         /\ moves' \in 0 .. MaxNavigate /\ refusals' \in 0 .. MaxRefusal /\ hungUp' \subseteq CallId
         /\ \A x, k : Fewer(wire[k], wire'[k], x)
    BY <1>1, <1>2, <2>2
  <2> HIDE DEF t0
  <2>4. CASE ~Has(t0, id)
    <3>1. side' = [side EXCEPT ![p] = t0]
      BY <2>2, <2>4 DEF Captured
    <3>2. \A x \in CallId : Less(s, t0, x)
      BY <1>4, <2>1, <2>4 DEF Less, Has, Waits
    <3> QED BY <2>1, <2>3, <3>1, <3>2, OneEndForgets
  <2>5. CASE Has(t0, id)
    <3> DEFINE call == [s.calls[id] EXCEPT !.pc = TRUE]
               next == IF s.calls[id].role = "caller" THEN "offer" ELSE "install"
               u == SetCall(t0, id, call)
               v == [u EXCEPT !.live = @ \cup {id}]
               r == Await(v, id, next)
    <3>1. id \in DOMAIN s.calls /\ s.calls[id] \in CallRecord /\ call \in CallRecord
          /\ call.role = s.calls[id].role /\ call.pc /\ call.remoteReady = s.calls[id].remoteReady
          /\ call.pendingIce = s.calls[id].pendingIce
      BY <1>3, <2>1, <2>5 DEF Has, CallRecord
    <3>2. side' = [side EXCEPT ![p] = r]
      BY <2>1, <2>2, <2>5 DEF Captured
    <3>3. next \in Task /\ next \in {"offer", "install"}
      BY <1>4
    <3> HIDE DEF call
    <3>4. /\ Side(u) /\ DOMAIN u.calls = DOMAIN s.calls /\ u.calls[id] = call
          /\ \A x \in DOMAIN s.calls : x # id => u.calls[x] = s.calls[x]
          /\ u.tasks = t0.tasks /\ u.prompts = s.prompts
      <4>1. /\ Side(u) /\ DOMAIN u.calls = DOMAIN t0.calls \cup {id} /\ u.calls[id] = call
            /\ \A x \in DOMAIN t0.calls : x # id => u.calls[x] = t0.calls[x]
            /\ u.tasks = t0.tasks /\ u.prompts = t0.prompts
        BY <2>1, <3>1, SetCallChanges
      <4> HIDE DEF u
      <4> QED BY <2>1, <3>1, <4>1
    <3> HIDE DEF u
    <3>5. Side(v) /\ v.calls = u.calls /\ v.tasks = u.tasks /\ v.prompts = u.prompts
      BY <3>1, <3>4 DEF Side, CallSide
    <3> HIDE DEF v, next
    <3>6. Side(r) /\ r.calls = u.calls /\ r.prompts = s.prompts
          /\ r.tasks = (s.tasks \ {<<id, "capture">>}) \cup {<<id, next>>}
      BY <2>1, <3>3, <3>4, <3>5, SideChanges
    <3> HIDE DEF r
    <3>7. side'[p] = r /\ side'[q] = side[q]
      BY <1>1, <3>2
    <3>8. \A x \in CallId : x # id => Less(s, r, x)
      BY <1>4, <3>4, <3>6 DEF Less, Has, Waits
    <3>9. Has(s, id) /\ Has(r, id) /\ r.calls[id] = call /\ ~Idle(s, id) /\ Waits(s, id, "capture")
          /\ ~Waits(r, id, "capture")
          /\ \A t \in Task : t # "capture" => (Waits(r, id, t) <=> Waits(s, id, t) \/ t = next)
      BY <1>4, <2>2, <3>1, <3>3, <3>4, <3>6 DEF Has, Idle, Waits
    <3>10. PICK o \in Peer : id <= placed /\ PlacedBy(o, id) /\ (p = o \/ p = Other(o))
      BY <3>9, KnownIsPlaced
    <3>11. ASSUME p = o PROVE PlacedBy(o, id)'
      <4>1. CallerEnd(s, wire[p], id) /\ CalleeEnd(side[q], wire[q], id)
            /\ Idle(side[q], id) /\ ~Coming(wire[q], "offer", id)
        BY <3>9, <3>10, <3>11 DEF PlacedBy, Starting, q
      <4>2. next = "offer"
        BY <3>9, <4>1 DEF CallerEnd, next
      <4>3. CallerEnd(r, wire[p], id)
        BY <1>4, <3>1, <3>6, <3>9, <4>1, <4>2 DEF CallerEnd, Starting
      <4> QED BY <2>2, <3>7, <3>11, <4>1, <4>3 DEF PlacedBy, q
    <3>12. ASSUME p = Other(o) PROVE PlacedBy(o, id)'
      <4>1. o = q
        BY <1>1, <3>10, <3>12, OtherEnd
      <4>2. CallerEnd(side[q], wire[q], id) /\ CalleeEnd(s, wire[p], id) /\ ~Starting(side[q], id)
        BY <1>1, <3>9, <3>10, <4>1 DEF PlacedBy
      <4>3. next = "install"
        BY <3>9, <4>2 DEF CalleeEnd, next
      <4>4. CalleeEnd(r, wire[p], id)
        BY <1>4, <3>1, <3>6, <3>9, <4>2, <4>3 DEF CalleeEnd
      <4> QED BY <1>1, <2>2, <3>7, <4>1, <4>2, <4>4 DEF PlacedBy
    <3>13. PlacedBy(o, id)'
      BY <3>10, <3>11, <3>12
    <3>14. Traced(id)'
      BY <2>2, <3>10, <3>13 DEF Traced
    <3> QED BY <2>3, <3>2, <3>6, <3>8, <3>14, OneEndSteps
  <2> QED BY <2>4, <2>5
<1>7. CASE OfferMade(p, id)
  <2> DEFINE r == Resumed(s, id, "offer")
  <2>1. /\ Side(r) /\ r.calls = s.calls /\ r.prompts = s.prompts /\ r.tasks = s.tasks \ {<<id, "offer">>}
    BY <1>1, <1>4, SideChanges
  <2>2. /\ <<id, "offer">> \in s.tasks /\ Has(s, id) /\ UNCHANGED <<placed, moves, refusals, hungUp>>
        /\ side' = [side EXCEPT ![p] = r] /\ wire' = SendSignal(p, "offer", id)
    BY <1>7 DEF OfferMade, Unmoved
  <2> HIDE DEF r
  <2>3. side'[p] = r /\ side'[q] = side[q]
    BY <1>1, <2>2
  <2>4. /\ wire' \in [Peer -> Seq(Signal)] /\ wire'[p] = wire[p]
        /\ \A k : Coming(wire'[q], k, id) => Coming(wire[q], k, id) \/ k = "offer"
        /\ OneOffer(wire[q], id) /\ ~Coming(wire[q], "offer", id) => OneOffer(wire'[q], id)
        /\ \A x, k : k \in Peer /\ x # id => Fewer(wire[k], wire'[k], x)
    BY <1>1, <2>2, SendChanges DEF q
  <2>5. \A x \in CallId : x # id => Less(s, r, x)
    BY <1>4, <2>1 DEF Less, Has, Waits
  <2>6. /\ Waits(s, id, "offer") /\ ~Waits(r, id, "offer") /\ ~Idle(s, id)
        /\ \A t \in Task : t # "offer" => (Waits(r, id, t) <=> Waits(s, id, t))
    BY <1>4, <2>1, <2>2 DEF Waits, Idle
  <2>7. id <= placed /\ PlacedBy(p, id)
    BY <2>6, KnownIsPlaced DEF PlacedBy, CalleeEnd
  <2>8. /\ CallerEnd(s, wire[p], id) /\ CalleeEnd(side[q], wire[q], id)
        /\ Idle(side[q], id) /\ ~Coming(wire[q], "offer", id)
    BY <2>6, <2>7 DEF PlacedBy, Starting, q
  <2>9. CallerEnd(r, wire[p], id) /\ ~Starting(r, id)
    BY <1>4, <2>1, <2>6, <2>8 DEF CallerEnd, Starting, Has
  <2>10. CalleeEnd(side[q], wire'[q], id)
    BY <2>4, <2>8 DEF CalleeEnd
  <2>11. PlacedBy(p, id)'
    BY <2>3, <2>4, <2>9, <2>10 DEF PlacedBy, q
  <2>12. Traced(id)'
    BY <2>2, <2>7, <2>11 DEF Traced
  <2> QED BY <1>1, <2>1, <2>2, <2>4, <2>5, <2>12, OneEndSteps
<1>8. CASE OfferInstalled(p, id)
  <2> DEFINE t0 == Resumed(s, id, "install")
             call == [s.calls[id] EXCEPT !.remoteReady = TRUE]
             u == SetCall(t0, id, call)
             r == Await(u, id, "answer")
  <2>1. /\ Side(t0) /\ t0.calls = s.calls /\ t0.prompts = s.prompts
        /\ t0.tasks = s.tasks \ {<<id, "install">>}
    BY <1>1, <1>4, SideChanges
  <2>2. /\ <<id, "install">> \in s.tasks /\ Has(s, id)
        /\ UNCHANGED <<wire, placed, moves, refusals, hungUp>> /\ side' = [side EXCEPT ![p] = r]
    BY <1>8 DEF OfferInstalled, Unmoved
  <2>3. /\ call \in CallRecord /\ call.role = s.calls[id].role /\ call.pc = s.calls[id].pc
        /\ call.remoteReady /\ call.pendingIce = s.calls[id].pendingIce
    BY <1>3, <2>2 DEF Has, CallRecord
  <2> HIDE DEF t0, call
  <2>4. /\ Side(u) /\ DOMAIN u.calls = DOMAIN t0.calls \cup {id} /\ u.calls[id] = call
        /\ \A x \in DOMAIN t0.calls : x # id => u.calls[x] = t0.calls[x]
        /\ u.tasks = t0.tasks /\ u.prompts = t0.prompts
    BY <2>1, <2>3, SetCallChanges
  <2> HIDE DEF u
  <2>5. /\ Side(r) /\ r.calls = u.calls /\ r.prompts = s.prompts
        /\ r.tasks = (s.tasks \ {<<id, "install">>}) \cup {<<id, "answer">>}
    BY <1>4, <2>1, <2>4, SideChanges
  <2> HIDE DEF r
  <2>6. side'[p] = r /\ side'[q] = side[q]
    BY <1>1, <2>2
  <2>7. \A x \in CallId : x # id => Less(s, r, x)
    BY <1>4, <2>1, <2>4, <2>5 DEF Less, Has, Waits
  <2>8. /\ Has(r, id) /\ r.calls[id] = call /\ ~Idle(s, id) /\ Waits(s, id, "install")
        /\ ~Waits(r, id, "install") /\ Waits(r, id, "answer")
        /\ \A t \in Task : t \notin {"install", "answer"} => (Waits(r, id, t) <=> Waits(s, id, t))
    BY <1>4, <2>2, <2>4, <2>5 DEF Has, Idle, Waits
  <2>9. id <= placed /\ PlacedBy(q, id)
    BY ZenonT(60), <1>1, <2>8, KnownIsPlaced DEF PlacedBy, CallerEnd
  <2>10. CallerEnd(side[q], wire[q], id) /\ CalleeEnd(s, wire[p], id) /\ ~Starting(side[q], id)
    BY <1>1, <2>8, <2>9 DEF PlacedBy
  <2>11. CalleeEnd(r, wire[p], id)
    BY <1>4, <2>2, <2>3, <2>8, <2>10 DEF CalleeEnd
  <2>12. PlacedBy(q, id)'
    BY <1>1, <2>2, <2>6, <2>10, <2>11 DEF PlacedBy
  <2>13. Traced(id)'
    BY <1>1, <2>2, <2>9, <2>12 DEF Traced
  <2>14. \A x \in CallId : x # id => Less(side[p], r, x) /\ \A k \in Peer : Fewer(wire[k], wire'[k], x)
    BY <1>2, <2>2, <2>7
  <2> QED BY <1>1, <2>2, <2>5, <2>13, <2>14, OneEndSteps
<1>9. CASE AnswerMade(p, id)
  <2> DEFINE t0 == Resumed(s, id, "answer")
             call == [t0.calls[id] EXCEPT !.pendingIce = 0]
             r == SetCall(t0, id, call)
  <2>1. /\ Side(t0) /\ t0.calls = s.calls /\ t0.prompts = s.prompts
        /\ t0.tasks = s.tasks \ {<<id, "answer">>}
    BY <1>1, <1>4, SideChanges
  <2>2. /\ <<id, "answer">> \in s.tasks /\ Has(s, id)
        /\ UNCHANGED <<placed, moves, refusals, hungUp>> /\ side' = [side EXCEPT ![p] = r]
        /\ wire' = SendSignal(p, "answer", id)
    BY <1>9 DEF AnswerMade, Unmoved, Drained
  <2> HIDE DEF t0
  <2>3. /\ call \in CallRecord /\ call.role = s.calls[id].role /\ call.pc = s.calls[id].pc
        /\ call.remoteReady = s.calls[id].remoteReady /\ call.pendingIce = 0
    BY <1>3, <2>1, <2>2, CallsAssumption DEF Has, CallRecord
  <2> HIDE DEF call
  <2>4. /\ Side(r) /\ DOMAIN r.calls = DOMAIN t0.calls \cup {id} /\ r.calls[id] = call
        /\ \A x \in DOMAIN t0.calls : x # id => r.calls[x] = t0.calls[x]
        /\ r.tasks = t0.tasks /\ r.prompts = t0.prompts
    BY <2>1, <2>3, SetCallChanges
  <2> HIDE DEF r
  <2>5. side'[p] = r /\ side'[q] = side[q]
    BY <1>1, <2>2
  <2>6. /\ wire' \in [Peer -> Seq(Signal)] /\ wire'[p] = wire[p]
        /\ \A k : Coming(wire'[q], k, id) => Coming(wire[q], k, id) \/ k = "answer"
        /\ \A x, k : k \in Peer /\ x # id => Fewer(wire[k], wire'[k], x)
    BY <1>1, <2>2, SendChanges DEF q
  <2>7. \A x \in CallId : x # id => Less(s, r, x)
    BY <1>4, <2>1, <2>4 DEF Less, Has, Waits
  <2>8. /\ Has(r, id) /\ r.calls[id] = call /\ ~Idle(s, id) /\ Waits(s, id, "answer")
        /\ \A t \in Task : t # "answer" => (Waits(r, id, t) <=> Waits(s, id, t))
    BY <1>4, <2>1, <2>2, <2>4 DEF Has, Idle, Waits
  <2>9. id <= placed /\ PlacedBy(q, id)
    BY ZenonT(60), <1>1, <2>8, KnownIsPlaced DEF PlacedBy, CallerEnd
  <2>10. CallerEnd(side[q], wire[q], id) /\ CalleeEnd(s, wire[p], id) /\ ~Starting(side[q], id)
    BY <1>1, <2>8, <2>9 DEF PlacedBy
  <2>11. CalleeEnd(r, wire[p], id)
    BY <1>4, <2>2, <2>3, <2>8, <2>10 DEF CalleeEnd
  <2>12. CallerEnd(side[q], wire'[q], id)
    BY <2>6, <2>10 DEF CallerEnd
  <2>13. PlacedBy(q, id)'
    BY <1>1, <2>5, <2>6, <2>10, <2>11, <2>12 DEF PlacedBy
  <2>14. Traced(id)'
    BY <1>1, <2>2, <2>9, <2>13 DEF Traced
  <2> QED BY <1>1, <2>2, <2>4, <2>6, <2>7, <2>14, OneEndSteps
<1>10. CASE AnswerInstalled(p, id)
  <2> DEFINE t0 == Resumed(s, id, "apply")
             call == [s.calls[id] EXCEPT !.remoteReady = TRUE]
             u == SetCall(t0, id, call)
             call2 == [u.calls[id] EXCEPT !.pendingIce = 0]
             r == SetCall(u, id, call2)
  <2>1. /\ Side(t0) /\ t0.calls = s.calls /\ t0.prompts = s.prompts
        /\ t0.tasks = s.tasks \ {<<id, "apply">>}
    BY <1>1, <1>4, SideChanges
  <2>2. /\ <<id, "apply">> \in s.tasks /\ Has(s, id)
        /\ UNCHANGED <<wire, placed, moves, refusals, hungUp>> /\ side' = [side EXCEPT ![p] = r]
    BY <1>10 DEF AnswerInstalled, Unmoved, Drained
  <2>3. /\ call \in CallRecord /\ call.role = s.calls[id].role /\ call.pc = s.calls[id].pc
        /\ call.remoteReady
    BY <1>3, <2>2 DEF Has, CallRecord
  <2> HIDE DEF t0, call
  <2>4. /\ Side(u) /\ DOMAIN u.calls = DOMAIN t0.calls \cup {id} /\ u.calls[id] = call
        /\ \A x \in DOMAIN t0.calls : x # id => u.calls[x] = t0.calls[x]
        /\ u.tasks = t0.tasks /\ u.prompts = t0.prompts
    BY <2>1, <2>3, SetCallChanges
  <2> HIDE DEF u
  <2>5. /\ call2 \in CallRecord /\ call2.role = s.calls[id].role /\ call2.pc = s.calls[id].pc
        /\ call2.remoteReady /\ call2.pendingIce = 0
    BY <2>3, <2>4, CallsAssumption DEF CallRecord
  <2> HIDE DEF call2
  <2>6. /\ Side(r) /\ DOMAIN r.calls = DOMAIN u.calls \cup {id} /\ r.calls[id] = call2
        /\ \A x \in DOMAIN u.calls : x # id => r.calls[x] = u.calls[x]
        /\ r.tasks = u.tasks /\ r.prompts = u.prompts
    BY <2>4, <2>5, SetCallChanges
  <2> HIDE DEF r
  <2>7. side'[p] = r /\ side'[q] = side[q]
    BY <1>1, <2>2
  <2>8. \A x \in CallId : x # id => Less(s, r, x)
    BY <1>4, <2>1, <2>4, <2>6 DEF Less, Has, Waits
  <2>9. /\ Has(r, id) /\ r.calls[id] = call2 /\ ~Idle(s, id) /\ Waits(s, id, "apply")
        /\ \A t \in Task : t # "apply" => (Waits(r, id, t) <=> Waits(s, id, t))
    BY <1>4, <2>1, <2>2, <2>4, <2>6 DEF Has, Idle, Waits
  <2>10. id <= placed /\ PlacedBy(p, id)
    BY <2>9, KnownIsPlaced DEF PlacedBy, CalleeEnd
  <2>11. CallerEnd(s, wire[p], id) /\ CalleeEnd(side[q], wire[q], id) /\ ~Starting(s, id)
    BY <2>9, <2>10 DEF PlacedBy, CallerEnd, q
  <2>12. ~Starting(r, id) /\ s.calls[id].pc
    BY <1>4, <2>2, <2>9, <2>11 DEF Starting, CallerEnd
  <2>13. CallerEnd(r, wire[p], id)
    BY <1>4, <2>1, <2>2, <2>4, <2>5, <2>6, <2>9, <2>11, <2>12 DEF CallerEnd, Starting
  <2>14. PlacedBy(p, id)'
    BY <2>2, <2>7, <2>11, <2>12, <2>13 DEF PlacedBy, q
  <2>15. Traced(id)'
    BY <2>2, <2>10, <2>14 DEF Traced
  <2>16. \A x \in CallId : x # id => Less(side[p], r, x) /\ \A k \in Peer : Fewer(wire[k], wire'[k], x)
    BY <1>2, <2>2, <2>8
  <2> QED BY <1>1, <2>2, <2>6, <2>15, <2>16, OneEndSteps
<1>11. CASE StartOutgoingCall(p) /\ id = placed + 1
  <2> DEFINE a == [s EXCEPT !.active = id]
             u == SetCall(a, id, NewCall("caller"))
             r == Await(u, id, "capture")
  <2>1. Side(a) /\ a.calls = s.calls /\ a.tasks = s.tasks /\ a.prompts = s.prompts
    BY <1>1 DEF Side, CallSide
  <2>2. NewCall("caller") \in CallRecord /\ NewCall("caller").role = "caller"
        /\ ~NewCall("caller").remoteReady
    BY CallsAssumption DEF NewCall, CallRecord
  <2>3. /\ placed' = id /\ side' = [side EXCEPT ![p] = r]
        /\ UNCHANGED <<wire, moves, refusals, hungUp>>
    BY <1>11 DEF StartOutgoingCall
  <2> HIDE DEF a
  <2>4. /\ Side(u) /\ DOMAIN u.calls = DOMAIN a.calls \cup {id} /\ u.calls[id] = NewCall("caller")
        /\ \A x \in DOMAIN a.calls : x # id => u.calls[x] = a.calls[x]
        /\ u.tasks = a.tasks /\ u.prompts = a.prompts
    BY <2>1, <2>2, SetCallChanges
  <2> HIDE DEF u
  <2>5. /\ Side(r) /\ r.calls = u.calls /\ r.prompts = s.prompts
        /\ r.tasks = s.tasks \cup {<<id, "capture">>}
    BY <1>4, <2>1, <2>4, SideChanges
  <2> HIDE DEF r
  <2>6. side'[p] = r /\ side'[q] = side[q]
    BY <1>1, <2>3
  <2>7. CallTypes'
    BY <1>1, <2>3, <2>5 DEF CallInv, CallTypes, SidesOK, CallId, Side
  <2>8. NotPlaced(id)
    BY <1>1, <1>11 DEF CallInv, Traced
  <2>9. /\ Idle(s, id) /\ ~Coming(wire[p], "offer", id) /\ ~Coming(wire[p], "answer", id)
        /\ Idle(side[q], id) /\ ~Coming(wire[q], "offer", id) /\ ~Coming(wire[q], "answer", id)
    BY <1>1, <2>8 DEF NotPlaced
  <2>10. CallerEnd(r, wire[p], id)
    <3>1. /\ Waits(r, id, "capture") /\ r.calls[id] = NewCall("caller") /\ id \notin r.prompts
          /\ \A t \in Task : t # "capture" => ~Waits(r, id, t)
      BY <1>4, <2>4, <2>5, <2>9 DEF Waits, Idle
    <3> QED BY <1>4, <2>2, <2>9, <3>1 DEF CallerEnd
  <2>11. CalleeEnd(side[q], wire[q], id)
    <3>1. OneOffer(wire[q], id)
      BY <2>9 DEF OneOffer, Coming
    <3> QED BY <1>4, <2>9, <3>1 DEF CalleeEnd, Idle
  <2>12. PlacedBy(p, id)'
    BY <2>3, <2>6, <2>9, <2>10, <2>11 DEF PlacedBy, q
  <2>13. Traced(id)'
    BY <1>1, <2>3, <2>12 DEF Traced, CallId
  <2>14. ASSUME NEW x \in CallId, x # id PROVE Traced(x)'
    <3>1. x <= placed' <=> x <= placed
      BY <1>1, <1>11, <2>3, <2>14 DEF CallId
    <3>2. Less(s, r, x) /\ Less(side[q], side[q], x)
      BY <1>4, <2>1, <2>4, <2>5, <2>14 DEF Less, Has, Waits
    <3>3. Traced(x)
      BY DEF CallInv
    <3>4. CASE x <= placed
      <4>1. PICK o \in Peer : PlacedBy(o, x)
        BY <3>3, <3>4 DEF Traced
      <4>2. /\ Has(r, x) <=> Has(s, x)
            /\ Has(s, x) => r.calls[x] = s.calls[x]
            /\ \A t : Waits(r, x, t) <=> Waits(s, x, t)
            /\ x \in r.prompts <=> x \in s.prompts
        BY <1>4, <2>1, <2>4, <2>5, <2>14 DEF Has, Waits
      <4>3. /\ Idle(s, x) => Idle(r, x)
            /\ \A w : CallerEnd(s, w, x) => CallerEnd(r, w, x)
            /\ \A w : CalleeEnd(s, w, x) => CalleeEnd(r, w, x)
            /\ Starting(r, x) => Starting(s, x)
        BY <4>2 DEF Idle, CallerEnd, CalleeEnd, Starting
      <4>4. PlacedBy(o, x)'
        <5>1. CASE o = p
          BY <2>3, <2>6, <4>1, <4>3, <5>1 DEF PlacedBy, q
        <5>2. CASE o = q
          BY <1>1, <2>3, <2>6, <4>1, <4>3, <5>2 DEF PlacedBy
        <5> QED BY <1>1, <5>1, <5>2
      <4> QED BY <3>1, <3>4, <4>4 DEF Traced
    <3>5. CASE ~(x <= placed)
      <4>1. \A k \in Peer : Idle(side'[k], x)
        BY <1>1, <2>6, <3>2, <3>3, <3>5 DEF Traced, NotPlaced, Idle, Less
      <4> QED BY <2>3, <3>1, <3>3, <3>5, <4>1 DEF Traced, NotPlaced
    <3> QED BY <3>4, <3>5
  <2> QED BY <2>7, <2>13, <2>14 DEF CallInv
<1> QED BY <1>5, <1>6, <1>7, <1>8, <1>9, <1>10, <1>11

\* A call that ends at an end is forgotten there.
LEMMA EndForgets ==
  ASSUME NEW s, Side(s), NEW id \in CallId
  PROVE  /\ Side(OnEnded(Teardown(s, id), id))
         /\ \A x \in CallId : Less(s, OnEnded(Teardown(s, id), id), x)
<1> DEFINE t == Teardown(s, id)
           r == OnEnded(t, id)
<1>1. /\ Side(t) /\ DOMAIN t.calls = DOMAIN s.calls \ {id}
      /\ \A x \in DOMAIN t.calls : t.calls[x] = s.calls[x]
      /\ t.tasks = s.tasks /\ t.prompts = s.prompts
  BY TeardownChanges
<1> HIDE DEF t
<1>2. Side(r) /\ r.calls = t.calls /\ r.tasks = t.tasks /\ r.prompts \subseteq t.prompts
  <2>1. "capture" \in Task
    BY DEF Task
  <2> QED BY <1>1, <2>1, SideChanges
<1> HIDE DEF r
<1>3. \A x \in CallId : Less(s, r, x)
  BY <1>1, <1>2 DEF Less, Has, Waits
<1> QED BY <1>2, <1>3 DEF r, t

\* A signal that reaches an end keeps the invariant: an offer rings once, an answer is
\* applied by the caller, a candidate is buffered only before the remote description.
LEMMA SignalKeeps ==
  ASSUME CallInv, NEW p \in Peer, HandleSignal(p)
  PROVE  CallInv'
<1> DEFINE s == side[p]
           q == Other(p)
           sig == Head(wire[p])
<1>1. /\ Side(s) /\ q \in Peer /\ q # p /\ (\A o \in Peer : o = p \/ o = q) /\ Other(q) = p
      /\ wire \in [Peer -> Seq(Signal)] /\ side \in [Peer -> CallSide] /\ Side(side[q])
      /\ placed \in 0 .. MaxCall /\ moves \in 0 .. MaxNavigate
      /\ refusals \in 0 .. MaxRefusal /\ hungUp \subseteq CallId
  BY OtherEnd DEF CallInv, CallTypes, SidesOK
<1>2. \A w, x : Fewer(w, w, x)
  BY DEF Fewer
<1>3. \A x \in DOMAIN s.calls : s.calls[x] \in CallRecord
  BY <1>1, CallsType DEF Side, CallSide
<1>4. /\ {"capture", "offer", "install", "answer", "apply"} = Task
      /\ \A x, y, t, u : <<x, t>> = <<y, u>> => x = y /\ t = u
  BY DEF Task
<1>5. /\ wire[p] # <<>> /\ UNCHANGED <<placed, moves, refusals>>
      /\ wire[p] \in Seq(Signal)
  BY <1>1 DEF HandleSignal
<1>6. /\ Tail(wire[p]) \in Seq(Signal) /\ sig \in Signal
      /\ \A x : Fewer(wire[p], Tail(wire[p]), x)
      /\ Coming(wire[p], sig.kind, sig.id)
      /\ OneOffer(wire[p], sig.id) /\ sig.kind = "offer" => ~Coming(Tail(wire[p]), "offer", sig.id)
  BY <1>5, TailSignals
<1>7. PICK id \in CallId :
        id = sig.id /\ sig.kind \in {"offer", "answer", "ice", "decline", "hangup"}
  BY <1>6 DEF Signal
<1>8. ASSUME wire' = [wire EXCEPT ![p] = Tail(@)]
      PROVE  /\ wire' \in [Peer -> Seq(Signal)] /\ wire'[p] = Tail(wire[p]) /\ wire'[q] = wire[q]
             /\ \A x, k : k \in Peer => Fewer(wire[k], wire'[k], x)
  BY <1>1, <1>2, <1>6, <1>8
<1> HIDE DEF q, sig
<1>9. /\ sig.kind = "offer" => Coming(wire[p], "offer", id)
      /\ sig.kind = "answer" => Coming(wire[p], "answer", id)
      /\ OneOffer(wire[p], id) /\ sig.kind = "offer" => ~Coming(Tail(wire[p]), "offer", id)
  BY <1>6, <1>7
<1>10. CASE s.inChat /\ sig.kind = "offer"
  <2>1. OnOffer(p, id)
    BY <1>7, <1>10 DEF HandleSignal, sig
  <2> DEFINE rung == SetCall(s, id, NewCall("callee"))
  <2>2. /\ NewCall("callee") \in CallRecord /\ NewCall("callee").role = "callee"
        /\ ~NewCall("callee").remoteReady
    BY CallsAssumption DEF NewCall, CallRecord
  <2>3. /\ Side(rung) /\ DOMAIN rung.calls = DOMAIN s.calls \cup {id}
        /\ rung.calls[id] = NewCall("callee")
        /\ \A x \in DOMAIN s.calls : x # id => rung.calls[x] = s.calls[x]
        /\ rung.tasks = s.tasks /\ rung.prompts = s.prompts
    BY <1>1, <1>7, <2>2, SetCallChanges
  <2>4. PICK o \in Peer : id <= placed /\ PlacedBy(o, id) /\ (p = o \/ p = Other(o))
    BY <1>9, <1>10, KnownIsPlaced
  <2>5. id <= placed /\ PlacedBy(q, id)
    <3>1. p # o
      BY <1>9, <1>10, <2>4 DEF PlacedBy, CallerEnd
    <3> QED BY <1>1, <2>4, <3>1
  <2>6. /\ CallerEnd(side[q], wire[q], id) /\ CalleeEnd(s, wire[p], id) /\ ~Starting(side[q], id)
        /\ Idle(s, id) /\ OneOffer(wire[p], id)
    BY <1>1, <1>9, <1>10, <2>5 DEF PlacedBy, CalleeEnd
  <2>7. CASE s.active # NoCall
    <3> DEFINE r == OnEnded(Teardown(rung, id), id)
               v == SendSignal(p, "decline", id)
    <3>1. /\ side' = [side EXCEPT ![p] = r] /\ hungUp' = hungUp \cup {id}
          /\ wire' = [v EXCEPT ![p] = Tail(@)]
      BY <2>1, <2>6, <2>7 DEF OnOffer, Idle
    <3>2. Side(r) /\ \A x \in CallId : Less(rung, r, x)
      BY <1>7, <2>3, EndForgets
    <3>3. ~Has(r, id)
      <4> DEFINE t == Teardown(rung, id)
      <4>1. Side(t) /\ DOMAIN t.calls = DOMAIN rung.calls \ {id}
        BY <1>7, <2>3, TeardownChanges
      <4> HIDE DEF t
      <4>2. r.calls = t.calls
        <5>1. "capture" \in Task
          BY DEF Task
        <5>2. OnEnded(t, id).calls = t.calls
          BY <1>7, <4>1, <5>1, SideChanges
        <5> QED BY <5>2 DEF t
      <4> QED BY <4>1, <4>2 DEF Has
    <3>4. v \in [Peer -> Seq(Signal)] /\ v[p] = wire[p] /\ \A x : Fewer(wire[q], v[q], x)
      <4>1. /\ v \in [Peer -> Seq(Signal)] /\ v[p] = wire[p]
            /\ \A x, k : k \in Peer /\ (x # id \/ "decline" \notin {"offer", "answer"}) => Fewer(wire[k], v[k], x)
        BY <1>1, SendChanges
      <4> HIDE DEF v
      <4> QED BY <1>1, <4>1
    <3> HIDE DEF r, v, rung
    <3>5. \A x \in CallId : Less(s, r, x)
      BY <2>3, <3>2, <3>3 DEF Less, Has, Waits
    <3>6. wire' \in [Peer -> Seq(Signal)] /\ \A x, k : k \in Peer => Fewer(wire[k], wire'[k], x)
      <4>1. wire' \in [Peer -> Seq(Signal)] /\ wire'[p] = Tail(wire[p]) /\ wire'[q] = v[q]
        BY <1>1, <1>6, <3>1, <3>4
      <4> QED BY <1>1, <1>6, <3>4, <4>1
    <3> QED BY <1>1, <1>5, <1>7, <3>1, <3>2, <3>5, <3>6, OneEndForgets
  <2>8. CASE s.active = NoCall
    <3> DEFINE r == [rung EXCEPT !.prompts = @ \cup {id}]
    <3>1. side' = [side EXCEPT ![p] = r] /\ hungUp' = hungUp /\ wire' = [wire EXCEPT ![p] = Tail(@)]
      BY <2>1, <2>6, <2>8 DEF OnOffer, Idle
    <3> HIDE DEF rung
    <3>2. /\ Side(r) /\ r.calls = rung.calls /\ r.tasks = s.tasks /\ r.prompts = s.prompts \cup {id}
      BY <1>7, <2>3 DEF Side, CallSide
    <3> HIDE DEF r
    <3>3. side'[p] = r /\ side'[q] = side[q]
      BY <1>1, <3>1
    <3>4. \A x \in CallId : x # id => Less(s, r, x)
      BY <2>3, <3>2 DEF Less, Has, Waits
    <3>5. CalleeEnd(r, wire'[p], id)
      <4>1. OneOffer(wire'[p], id) /\ ~Coming(wire'[p], "offer", id) /\ ~Coming(wire'[p], "answer", id)
        BY <1>6, <1>8, <1>9, <1>10, <2>6, <3>1 DEF Fewer, CalleeEnd
      <4>2. \A t \in Task : ~Waits(r, id, t)
        BY <2>6, <3>2 DEF Waits, Idle
      <4> QED BY <1>4, <2>2, <2>3, <3>2, <4>1, <4>2 DEF CalleeEnd
    <3>6. PlacedBy(q, id)'
      BY <1>1, <1>8, <2>6, <3>1, <3>3, <3>5 DEF PlacedBy
    <3>7. Traced(id)'
      BY <1>1, <1>5, <2>5, <3>6 DEF Traced
    <3> QED BY <1>1, <1>5, <1>7, <1>8, <3>1, <3>2, <3>4, <3>7, OneEndSteps
  <2> QED BY <2>7, <2>8
<1>11. CASE ~(s.inChat /\ sig.kind = "offer")
  <2> DEFINE r == IF s.inChat THEN OnOtherSignal(s, sig) ELSE s
  <2>1. /\ side' = [side EXCEPT ![p] = r] /\ hungUp' = hungUp /\ wire' = [wire EXCEPT ![p] = Tail(@)]
    BY <1>11 DEF HandleSignal, sig
  <2>2. CASE r = s
    <3>1. \A x : Less(s, s, x)
      BY DEF Less
    <3> QED BY <1>1, <1>5, <1>8, <2>1, <2>2, <3>1, OneEndForgets
  <2>3. CASE s.inChat /\ Has(s, id) /\ sig.kind \in {"decline", "hangup"}
    <3>1. r = OnEnded(Teardown(s, id), id)
      BY <1>7, <2>3 DEF OnOtherSignal
    <3>2. Side(r) /\ \A x \in CallId : Less(s, r, x)
      BY <1>1, <1>7, <3>1, EndForgets
    <3> QED BY <1>1, <1>5, <1>8, <2>1, <3>2, OneEndForgets
  <2>4. CASE s.inChat /\ Has(s, id) /\ sig.kind = "answer"
    <3>1. r = Await(s, id, "apply")
      BY <1>7, <2>4 DEF OnOtherSignal
    <3>2. /\ Side(r) /\ r.calls = s.calls /\ r.prompts = s.prompts
          /\ r.tasks = s.tasks \cup {<<id, "apply">>}
      BY <1>1, <1>4, <1>7, <3>1, SideChanges
    <3> HIDE DEF r
    <3>3. side'[p] = r /\ side'[q] = side[q]
      BY <1>1, <2>1
    <3>4. \A x \in CallId : x # id => Less(s, r, x)
      BY <1>4, <3>2 DEF Less, Has, Waits
    <3>5. id <= placed /\ PlacedBy(p, id)
      <4>1. PICK o \in Peer : id <= placed /\ PlacedBy(o, id) /\ (p = o \/ p = Other(o))
        BY <1>9, <2>4, KnownIsPlaced
      <4>2. p # Other(o)
        BY <1>9, <2>4, <4>1 DEF PlacedBy, CalleeEnd
      <4> QED BY <4>1, <4>2
    <3>6. CallerEnd(s, wire[p], id) /\ CalleeEnd(side[q], wire[q], id) /\ ~Starting(s, id)
      BY <1>9, <2>4, <3>5 DEF PlacedBy, CallerEnd, q
    <3>7. /\ \A t \in Task : t # "apply" => (Waits(r, id, t) <=> Waits(s, id, t))
          /\ Has(r, id) <=> Has(s, id)
      BY <1>4, <3>2 DEF Waits, Has
    <3>8. ~Coming(wire'[p], "offer", id)
      BY <1>8, <2>1, <3>6 DEF CallerEnd, Fewer
    <3>9. CallerEnd(r, wire'[p], id) /\ ~Starting(r, id)
      BY <1>4, <3>2, <3>6, <3>7, <3>8 DEF CallerEnd, Starting
    <3>10. PlacedBy(p, id)'
      BY <1>8, <2>1, <3>3, <3>6, <3>9 DEF PlacedBy, q
    <3>11. Traced(id)'
      BY <1>5, <3>5, <3>10 DEF Traced
    <3> QED BY <1>1, <1>5, <1>7, <1>8, <2>1, <3>2, <3>4, <3>11, OneEndSteps
  <2>5. CASE s.inChat /\ Has(s, id) /\ sig.kind = "ice" /\ r # s
    <3> DEFINE call == [s.calls[id] EXCEPT !.pendingIce = @ + 1]
    <3>1. /\ r = SetCall(s, id, call) /\ ~(s.calls[id].remoteReady /\ s.calls[id].pc)
          /\ s.calls[id].pendingIce # MaxPendingIce
      BY <1>7, <2>5 DEF OnOtherSignal, OnIce
    <3>2. /\ call \in CallRecord /\ call.role = s.calls[id].role /\ call.pc = s.calls[id].pc
          /\ call.remoteReady = s.calls[id].remoteReady
      <4>1. s.calls[id] \in CallRecord
        BY <1>3, <2>5 DEF Has
      <4> QED BY <3>1, <4>1, CallsAssumption DEF CallRecord
    <3> HIDE DEF call, r
    <3>3. /\ Side(r) /\ DOMAIN r.calls = DOMAIN s.calls \cup {id} /\ r.calls[id] = call
          /\ \A x \in DOMAIN s.calls : x # id => r.calls[x] = s.calls[x]
          /\ r.tasks = s.tasks /\ r.prompts = s.prompts
      BY <1>1, <1>7, <3>1, <3>2, SetCallChanges
    <3>4. side'[p] = r /\ side'[q] = side[q]
      BY <1>1, <2>1
    <3>5. \A x \in CallId : x # id => Less(s, r, x)
      BY <3>3 DEF Less, Has, Waits
    <3>6. ~Idle(s, id)
      BY <2>5 DEF Idle
    <3>7. PICK o \in Peer : id <= placed /\ PlacedBy(o, id) /\ (p = o \/ p = Other(o))
      BY <1>7, <3>6, KnownIsPlaced
    <3>8. /\ \A t : Waits(r, id, t) <=> Waits(s, id, t)
          /\ Has(r, id) /\ Has(s, id)
      BY <2>5, <3>3 DEF Waits, Has
    <3>9. /\ \A k : k \in {"offer", "answer"} => (Coming(wire'[p], k, id) => Coming(wire[p], k, id))
          /\ OneOffer(wire[p], id) => OneOffer(wire'[p], id)
          /\ wire'[q] = wire[q]
      BY <1>1, <1>8, <2>1 DEF Fewer
    <3>10. ASSUME p = o PROVE PlacedBy(o, id)'
      <4>1. CallerEnd(s, wire[p], id) /\ CalleeEnd(side[q], wire[q], id)
            /\ (Starting(s, id) => Idle(side[q], id) /\ ~Coming(wire[q], "offer", id))
        BY <3>7, <3>10 DEF PlacedBy, q
      <4>2. ~s.calls[id].remoteReady
        BY <2>5, <3>1, <4>1 DEF CallerEnd
      <4>3. CallerEnd(r, wire'[p], id) /\ (Starting(r, id) => Starting(s, id))
        BY <3>2, <3>3, <3>8, <3>9, <4>1, <4>2 DEF CallerEnd, Starting
      <4> QED BY <3>4, <3>9, <3>10, <4>1, <4>3 DEF PlacedBy, q
    <3>11. ASSUME p = Other(o) PROVE PlacedBy(o, id)'
      <4>1. o = q
        BY <1>1, <3>7, <3>11, OtherEnd
      <4>2. CallerEnd(side[q], wire[q], id) /\ CalleeEnd(s, wire[p], id) /\ ~Starting(side[q], id)
        BY <1>1, <3>6, <3>7, <4>1 DEF PlacedBy
      <4>3. ~s.calls[id].remoteReady
        BY <2>5, <3>1, <4>2 DEF CalleeEnd
      <4>4. CalleeEnd(r, wire'[p], id)
        BY <3>2, <3>3, <3>6, <3>8, <3>9, <4>2, <4>3 DEF CalleeEnd
      <4> QED BY <1>1, <3>4, <3>9, <4>1, <4>2, <4>4 DEF PlacedBy
    <3>12. Traced(id)'
      BY <1>5, <3>7, <3>10, <3>11 DEF Traced
    <3> QED BY <1>1, <1>5, <1>7, <1>8, <2>1, <3>3, <3>5, <3>12, OneEndSteps
  <2>6. \/ r = s
        \/ s.inChat /\ Has(s, id) /\ sig.kind \in {"decline", "hangup"}
        \/ s.inChat /\ Has(s, id) /\ sig.kind = "answer"
        \/ s.inChat /\ Has(s, id) /\ sig.kind = "ice" /\ r # s
    BY <1>7, <1>11 DEF OnOtherSignal
  <2> QED BY <2>2, <2>3, <2>4, <2>5, <2>6
<1> QED BY <1>10, <1>11

\* Ending a call, navigating and gathering candidates keep the invariant: they add
\* nothing that an end could wait for.
LEMMA ForgettingKeeps ==
  ASSUME CallInv, NEW p \in Peer, NEW id \in CallId,
         \/ DeclineCall(p, id) \/ Navigate(p)
         \/ HangupCall(p) /\ id = side[p].active
         \/ GatherIce(p, id) \/ ConnectionLost(p, id)
         \/ \E task \in Task : OperationFails(p, id, task) \/ OperationOrphaned(p, id, task)
  PROVE  CallInv'
<1> DEFINE s == side[p]
<1>1. /\ Side(s) /\ wire \in [Peer -> Seq(Signal)] /\ side \in [Peer -> CallSide]
      /\ placed \in 0 .. MaxCall /\ moves \in 0 .. MaxNavigate
      /\ refusals \in 0 .. MaxRefusal /\ hungUp \subseteq CallId
  BY DEF CallInv, CallTypes, SidesOK
<1>2. \A w, x : Fewer(w, w, x)
  BY DEF Fewer
<1>3. \A kind \in {"decline", "hangup", "ice"} :
        /\ SendSignal(p, kind, id) \in [Peer -> Seq(Signal)]
        /\ \A x, q : q \in Peer => Fewer(wire[q], SendSignal(p, kind, id)[q], x)
  <2> SUFFICES ASSUME NEW kind \in {"decline", "hangup", "ice"}
               PROVE  /\ SendSignal(p, kind, id) \in [Peer -> Seq(Signal)]
                      /\ \A x, q : q \in Peer => Fewer(wire[q], SendSignal(p, kind, id)[q], x)
    OBVIOUS
  <2>1. kind \in {"offer", "answer", "ice", "decline", "hangup"} /\ kind \notin {"offer", "answer"}
    OBVIOUS
  <2>2. /\ SendSignal(p, kind, id) \in [Peer -> Seq(Signal)]
        /\ \A x, q : q \in Peer /\ (x # id \/ kind \notin {"offer", "answer"})
                       => Fewer(wire[q], SendSignal(p, kind, id)[q], x)
    BY <1>1, <2>1, SendChanges
  <2> QED BY <2>1, <2>2
<1>4. "capture" \in Task /\ \A x, y, t, u : <<x, t>> = <<y, u>> => x = y /\ t = u
  BY DEF Task
<1>5. CASE DeclineCall(p, id)
  <2> DEFINE closed == [s EXCEPT !.prompts = @ \ {id}]
             r == OnEnded(Teardown(closed, id), id)
  <2>1. /\ side' = [side EXCEPT ![p] = r] /\ wire' = SendSignal(p, "decline", id)
        /\ hungUp' = hungUp \cup {id} /\ UNCHANGED <<placed, moves, refusals>>
    BY <1>5 DEF DeclineCall
  <2>2. Side(closed) /\ closed.calls = s.calls /\ closed.tasks = s.tasks
        /\ closed.prompts \subseteq s.prompts
    BY <1>1 DEF Side, CallSide
  <2> HIDE DEF closed
  <2>3. Side(r) /\ \A x \in CallId : Less(closed, r, x)
    BY <2>2, EndForgets
  <2> HIDE DEF r
  <2>4. \A x \in CallId : Less(s, r, x)
    BY <2>2, <2>3 DEF Less, Has, Waits
  <2> QED BY <1>1, <1>3, <2>1, <2>3, <2>4, OneEndForgets
<1>6. CASE HangupCall(p) /\ id = side[p].active
  <2> DEFINE r == OnEnded(Teardown(s, id), id)
  <2>1. /\ side' = [side EXCEPT ![p] = r] /\ wire' = SendSignal(p, "hangup", id)
        /\ hungUp' = hungUp \cup {id} /\ UNCHANGED <<placed, moves, refusals>>
    BY <1>6 DEF HangupCall
  <2>2. Side(r) /\ \A x \in CallId : Less(s, r, x)
    BY <1>1, EndForgets
  <2> HIDE DEF r
  <2> QED BY <1>1, <1>3, <2>1, <2>2, OneEndForgets
<1>7. CASE Navigate(p)
  <2> DEFINE r == [s EXCEPT !.inChat = ~@]
  <2>1. /\ side' = [side EXCEPT ![p] = r] /\ moves < MaxNavigate /\ moves' = moves + 1
        /\ UNCHANGED <<wire, placed, refusals, hungUp>>
    BY <1>7 DEF Navigate
  <2>2. Side(r) /\ r.calls = s.calls /\ r.tasks = s.tasks /\ r.prompts = s.prompts
    BY <1>1 DEF Side, CallSide
  <2> HIDE DEF r
  <2>3. \A x \in CallId : Less(s, r, x)
    BY <2>2 DEF Less, Has, Waits
  <2>4. moves' \in 0 .. MaxNavigate
    BY <1>1, <2>1, CallsAssumption
  <2> QED BY <1>1, <1>2, <2>1, <2>2, <2>3, <2>4, OneEndForgets
<1>8. CASE GatherIce(p, id)
  <2> DEFINE call == [s.calls[id] EXCEPT !.gathered = @ + 1]
             c == [s.calls EXCEPT ![id] = call]
             r == [s EXCEPT !.calls = c]
  <2>1. /\ side' = [side EXCEPT ![p] = r] /\ wire' = SendSignal(p, "ice", id)
        /\ Has(s, id) /\ s.calls[id].gathered < MaxIce
        /\ UNCHANGED <<placed, moves, refusals, hungUp>>
    BY <1>1, <1>8 DEF GatherIce, Unmoved, Side, CallSide
  <2>2. DOMAIN s.calls \subseteq CallId /\ s.calls \in [DOMAIN s.calls -> CallRecord]
    BY <1>1, CallsType DEF Side, CallSide
  <2>3. /\ call \in CallRecord /\ call.role = s.calls[id].role /\ call.pc = s.calls[id].pc
        /\ call.remoteReady = s.calls[id].remoteReady /\ call.pendingIce = s.calls[id].pendingIce
    BY <2>1, <2>2, CallsAssumption DEF Has, CallRecord
  <2> HIDE DEF call
  <2>4. /\ DOMAIN c = DOMAIN s.calls /\ c \in [DOMAIN c -> CallRecord]
        /\ \A x \in DOMAIN c : c[x] = IF x = id THEN call ELSE s.calls[x]
    BY <2>1, <2>2, <2>3 DEF Has
  <2> HIDE DEF c
  <2>5. c \in UNION {[S -> CallRecord] : S \in SUBSET CallId}
    BY <2>2, <2>4, CallsType
  <2>6. Side(r) /\ r.calls = c /\ r.tasks = s.tasks /\ r.prompts = s.prompts
    BY <1>1, <2>4, <2>5 DEF Side, CallSide
  <2> HIDE DEF r
  <2>7. \A x \in CallId : Less(s, r, x)
    BY <2>3, <2>4, <2>6 DEF Less, Has, Waits
  <2> QED BY <1>1, <1>3, <2>1, <2>6, <2>7, OneEndForgets
<1>9. CASE ConnectionLost(p, id)
  <2> DEFINE r == OnEnded(Teardown(s, id), id)
  <2>1. side' = [side EXCEPT ![p] = r] /\ UNCHANGED <<wire, placed, moves, refusals, hungUp>>
    BY <1>9 DEF ConnectionLost, Unmoved
  <2>2. Side(r) /\ \A x \in CallId : Less(s, r, x)
    BY <1>1, EndForgets
  <2> HIDE DEF r
  <2> QED BY <1>1, <1>2, <2>1, <2>2, OneEndForgets
<1>10. ASSUME NEW task \in Task, OperationFails(p, id, task) PROVE CallInv'
  <2> DEFINE t0 == Resumed(s, id, task)
             t == Teardown(t0, id)
             r == OnEnded(t, id)
  <2>1. /\ side' = [side EXCEPT ![p] = r] /\ refusals < MaxRefusal /\ refusals' = refusals + 1
        /\ UNCHANGED <<wire, placed, moves, hungUp>>
    BY <1>10 DEF OperationFails
  <2>2. Side(t0) /\ t0.calls = s.calls /\ t0.tasks = s.tasks \ {<<id, task>>} /\ t0.prompts = s.prompts
    BY SMTT(30), <1>1, SideChanges
  <2> HIDE DEF t0
  <2>3. /\ Side(t) /\ DOMAIN t.calls = DOMAIN t0.calls \ {id}
        /\ \A x \in DOMAIN t.calls : t.calls[x] = t0.calls[x]
        /\ t.tasks = t0.tasks /\ t.prompts = t0.prompts
    BY <2>2, TeardownChanges
  <2> HIDE DEF t
  <2>4. Side(r) /\ r.calls = t.calls /\ r.tasks = t.tasks /\ r.prompts \subseteq t.prompts
    BY <2>3, SideChanges
  <2> HIDE DEF r
  <2>5. \A x \in CallId : Less(s, r, x)
    BY <1>4, <2>2, <2>3, <2>4 DEF Less, Has, Waits
  <2>6. refusals' \in 0 .. MaxRefusal
    BY <1>1, <2>1, CallsAssumption
  <2> QED BY <1>1, <1>2, <2>1, <2>4, <2>5, <2>6, OneEndForgets
<1>11. ASSUME NEW task \in Task, OperationOrphaned(p, id, task) PROVE CallInv'
  <2> DEFINE t0 == Resumed(s, id, task)
             r == OnEnded(t0, id)
  <2>1. /\ side' = [side EXCEPT ![p] = r] /\ ~Has(s, id)
        /\ UNCHANGED <<wire, placed, moves, refusals, hungUp>>
    BY <1>11 DEF OperationOrphaned, Unmoved
  <2>2. Side(t0) /\ t0.calls = s.calls /\ t0.tasks = s.tasks \ {<<id, task>>} /\ t0.prompts = s.prompts
    BY SMTT(30), <1>1, SideChanges
  <2> HIDE DEF t0
  <2>3. Side(r) /\ r.calls = t0.calls /\ r.tasks = t0.tasks /\ r.prompts \subseteq t0.prompts
    BY <2>2, SideChanges
  <2> HIDE DEF r
  <2>4. \A x \in CallId : Less(s, r, x)
    BY <1>4, <2>1, <2>2, <2>3 DEF Less, Has, Waits
  <2> QED BY <1>1, <1>2, <2>1, <2>3, <2>4, OneEndForgets
<1> QED BY <1>5, <1>6, <1>7, <1>8, <1>9, <1>10, <1>11

\* Every reachable state of the two ends satisfies CallInv.
LEMMA CallInvariant == CallSpec => []CallInv
<1>1. ASSUME CallInit PROVE CallInv
  <2>1. \A p \in Peer : /\ side[p] = [calls |-> <<>>, live |-> {}, tasks |-> {}, active |-> NoCall,
                                       prompts |-> {}, inChat |-> TRUE]
                        /\ wire[p] = <<>>
    BY <1>1 DEF CallInit
  <2>2. \A p \in Peer : DOMAIN side[p].calls = {} /\ Side(side[p])
    <3>1. <<>> \in UNION {[S -> CallRecord] : S \in SUBSET CallId}
      <4>1. <<>> \in [{} -> CallRecord]
        OBVIOUS
      <4> QED BY <4>1
    <3> DEFINE s0 == [calls |-> <<>>, live |-> {}, tasks |-> {}, active |-> NoCall,
                      prompts |-> {}, inChat |-> TRUE]
    <3>2. s0 \in CallSide
      BY <3>1 DEF CallSide
    <3>3. s0.calls = <<>> /\ s0.live = {}
      OBVIOUS
    <3> HIDE DEF s0
    <3>4. Side(s0) /\ DOMAIN s0.calls = {}
      BY <3>2, <3>3 DEF Side
    <3>5. \A p \in Peer : side[p] = s0
      BY <2>1 DEF s0
    <3> QED BY <3>4, <3>5
  <2>3. CallTypes
    <3>1. side \in [Peer -> CallSide]
      <4>1. \A p \in Peer : side[p] \in CallSide
        BY <2>2 DEF Side
      <4>2. side = [p \in Peer |-> side[p]]
        BY <1>1 DEF CallInit
      <4> QED BY <4>1, <4>2
    <3>2. wire \in [Peer -> Seq(Signal)]
      BY <1>1 DEF CallInit
    <3>3. placed \in 0 .. MaxCall /\ moves \in 0 .. MaxNavigate /\ refusals \in 0 .. MaxRefusal
      BY <1>1, CallsAssumption DEF CallInit
    <3>4. hungUp \subseteq CallId
      BY <1>1 DEF CallInit
    <3> QED BY <2>2, <3>1, <3>2, <3>3, <3>4 DEF CallTypes, SidesOK
  <2>4. \A id \in CallId : NotPlaced(id)
    BY <2>1, <2>2 DEF NotPlaced, Idle, Has, Waits, Coming
  <2>5. \A id \in CallId : ~(id <= placed)
    BY <1>1, CallsAssumption DEF CallInit, CallId
  <2> QED BY <2>3, <2>4, <2>5 DEF CallInv, Traced
<1>2. ASSUME CallInv, [CallNext]_callVars PROVE CallInv'
  <2>1. ASSUME NEW p \in Peer, StartOutgoingCall(p) PROVE CallInv'
    <3>1. placed + 1 \in CallId
      BY <1>2, <2>1, CallsAssumption DEF StartOutgoingCall, CallInv, CallTypes, CallId
    <3> QED BY <1>2, <2>1, <3>1, SetupKeeps
  <2>2. ASSUME NEW p \in Peer, HangupCall(p) PROVE CallInv'
    <3>1. side[p].active \in CallId
      BY <1>2, <2>2 DEF HangupCall, CallInv, CallTypes, SidesOK, Side, CallSide
    <3> QED BY <1>2, <2>2, <3>1, ForgettingKeeps
  <2>3. ASSUME NEW p \in Peer, Navigate(p) PROVE CallInv'
    <3>1. CASE CallId # {}
      <4>1. PICK id \in CallId : TRUE
        BY <3>1
      <4> QED BY <1>2, <2>3, <4>1, ForgettingKeeps
    <3>2. CASE CallId = {}
      <4>1. CallTypes /\ UNCHANGED <<wire, placed, refusals, hungUp>> /\ moves < MaxNavigate
            /\ moves' = moves + 1 /\ side' = [side EXCEPT ![p] = [side[p] EXCEPT !.inChat = ~@]]
        BY <1>2, <2>3 DEF CallInv, Navigate
      <4>2. Side([side[p] EXCEPT !.inChat = ~@]) /\ [side[p] EXCEPT !.inChat = ~@] \in CallSide
        BY <4>1 DEF CallTypes, SidesOK, Side, CallSide
      <4>3. CallTypes'
        <5>1. moves' \in 0 .. MaxNavigate
          BY <4>1, CallsAssumption DEF CallTypes
        <5>2. SidesOK'
          BY <4>1, <4>2 DEF CallTypes, SidesOK
        <5> QED BY <4>1, <5>1, <5>2 DEF CallTypes
      <4> QED BY <3>2, <4>3 DEF CallInv
    <3> QED BY <3>1, <3>2
  <2>4. ASSUME NEW p \in Peer, HandleSignal(p) PROVE CallInv'
    BY <1>2, <2>4, SignalKeeps
  <2>5. ASSUME NEW p \in Peer, Resume(p) PROVE CallInv'
    BY <1>2, <2>5, SetupKeeps, ForgettingKeeps DEF Resume
  <2>6. ASSUME NEW p \in Peer, NEW id \in CallId, AcceptCall(p, id) PROVE CallInv'
    BY <1>2, <2>6, SetupKeeps
  <2>7. ASSUME NEW p \in Peer, NEW id \in CallId,
               \/ DeclineCall(p, id) \/ GatherIce(p, id) \/ ConnectionLost(p, id)
               \/ \E task \in Task : OperationFails(p, id, task)
        PROVE  CallInv'
    BY <1>2, <2>7, ForgettingKeeps
  <2>8. CASE UNCHANGED callVars
    <3>1. CallTypes'
      BY <1>2, <2>8 DEF callVars, CallInv, CallTypes, SidesOK
    <3>2. \A q \in Peer : \A x : Less(side[q], side'[q], x) /\ Fewer(wire[q], wire'[q], x)
      BY <2>8 DEF callVars, Less, Fewer
    <3>3. \A x \in CallId : Traced(x)'
      BY <1>2, <2>8, <3>2, TracedShrinks DEF CallInv, callVars
    <3> QED BY <3>1, <3>3 DEF CallInv
  <2> QED BY <1>2, <2>1, <2>2, <2>3, <2>4, <2>5, <2>6, <2>7, <2>8 DEF CallNext
<1> QED BY <1>1, <1>2, PTL DEF CallSpec

\* The microphone and the camera are never open for a call that is over, for any number
\* of calls, candidates, navigations and failures and however they interleave.
THEOREM CaptureBelongsToCall == CallSpec => []NoOrphanCapture
<1>1. ASSUME CallInv PROVE NoOrphanCapture
  BY <1>1 DEF CallInv, CallTypes, SidesOK, Side, NoOrphanCapture
<1> QED BY <1>1, CallInvariant, PTL

\* No candidate stays in the buffer of a call whose setup has run to its end, at either
\* end and however signals and awaited operations interleave.
THEOREM IceIsDrained == CallSpec => []NoStrandedIce
<1>1. ASSUME CallInv PROVE NoStrandedIce
  <2> SUFFICES ASSUME NEW p \in Peer, NEW id \in DOMAIN side[p].calls,
                      side[p].calls[id].remoteReady, \A t \in Task : <<id, t>> \notin side[p].tasks
               PROVE  side[p].calls[id].pendingIce = 0
    BY DEF NoStrandedIce
  <2>1. id \in CallId /\ Has(side[p], id) /\ ~Idle(side[p], id)
    BY <1>1, CallsType DEF CallInv, CallTypes, SidesOK, Side, CallSide, Has, Idle
  <2>2. PICK o \in Peer : PlacedBy(o, id) /\ (p = o \/ p = Other(o))
    BY <1>1, <2>1, KnownIsPlaced
  <2>3. "answer" \in Task
    BY DEF Task
  <2> QED BY <2>1, <2>2, <2>3 DEF PlacedBy, CallerEnd, CalleeEnd, Waits
<1> QED BY <1>1, CallInvariant, PTL

-----------------------------------------------------------------------------
(* File transfer.                                                          *)

Sender == [has : BOOLEAN, task : {"idle", "offer", "offered", "apply"}, ready : BOOLEAN,
           ice : Nat, gathered : Nat, loop : {"idle", "check", "drain", "slice", "over"},
           off : 0 .. Chunks]

Receiver == [has : BOOLEAN, prompt : BOOLEAN, task : {"idle", "sink", "install", "answer"},
             ready : BOOLEAN, ice : Nat, gathered : Nat, bound : BOOLEAN, got : Nat,
             chain : Seq(Nat), broken : BOOLEAN, sink : Seq(Nat)]

FileTypes ==
  /\ snd \in Sender /\ rcv \in Receiver
  /\ toRcv \in Seq({"offer", "ice"}) /\ toSnd \in Seq({"answer", "decline", "ice"})
  /\ data \in Seq(Nat) /\ channel \in {"none", "open", "closed"}

Offers(w) == \E i \in DOMAIN w : w[i] = "offer"

\* The receiver has not heard of the transfer.
Unasked == ~rcv.has /\ ~rcv.prompt /\ rcv.task = "idle" /\ ~rcv.ready /\ ~rcv.bound

\* The file is offered once, so a transfer that is over does not begin again.
OfferedOnce ==
  /\ snd.task \in {"idle", "offer"} => Unasked /\ ~Offers(toRcv)
  /\ Offers(toRcv) => Unasked
  /\ \A i, j \in DOMAIN toRcv : toRcv[i] = "offer" /\ toRcv[j] = "offer" => i = j
  /\ rcv.prompt => rcv.task = "idle" /\ ~rcv.ready
  /\ rcv.task \in {"sink", "install"} => ~rcv.ready
  /\ rcv.bound => rcv.ready

\* The chunks k+1, k+2, ...
Counting(s, k) == \A i \in DOMAIN s : s[i] = k + i

\* The chunks k+1 to Chunks and then the marker.
Closing(s, k) ==
  /\ s # <<>> /\ s[Len(s)] = Done /\ k + Len(s) = Chunks + 1
  /\ \A i \in 1 .. Len(s) - 1 : s[i] = k + i

\* What the sink holds unless a write failed: the first k chunks.
Written(k) == ~rcv.broken => Len(rcv.sink) = k /\ Counting(rcv.sink, 0)

\* Before the channel opens nothing flows.
NotOpen ==
  /\ ~rcv.bound /\ channel = "none" /\ snd.loop = "idle" /\ snd.off = 0
  /\ data = <<>> /\ rcv.chain = <<>> /\ rcv.sink = <<>> /\ rcv.got = 0 /\ ~rcv.broken
  /\ received = <<>>

\* Chunks flow: what is in the sink, in the write chain and in the channel is the file
\* from its start on, in order; the marker may be the last thing in the channel.
Streaming ==
  /\ rcv.bound /\ channel # "none" /\ snd.loop # "idle" /\ rcv.has /\ received = <<>>
  /\ Len(rcv.chain) <= rcv.got /\ Counting(rcv.chain, rcv.got - Len(rcv.chain))
  /\ Written(rcv.got - Len(rcv.chain))
  /\ \/ /\ Counting(data, rcv.got) /\ rcv.got + Len(data) <= Chunks
        /\ channel = "open" /\ snd.loop # "over" => snd.off = rcv.got + Len(data)
        /\ snd.loop \in {"drain", "slice"} => snd.off < Chunks
     \/ Closing(data, rcv.got) /\ snd.loop = "over"

\* The marker has joined the write chain.
Ending ==
  /\ rcv.bound /\ channel # "none" /\ snd.loop = "over" /\ rcv.has /\ received = <<>>
  /\ data = <<>> /\ rcv.got = Chunks /\ Len(rcv.chain) - 1 <= Chunks
  /\ Closing(rcv.chain, Chunks + 1 - Len(rcv.chain))
  /\ Written(Chunks + 1 - Len(rcv.chain))

\* The close has run.
Over ==
  /\ rcv.bound /\ channel # "none" /\ snd.loop = "over" /\ ~rcv.has
  /\ data = <<>> /\ rcv.chain = <<>>
  /\ received = <<>> \/ received = <<[c \in 1 .. Chunks |-> c]>>

Flow == NotOpen \/ Streaming \/ Ending \/ Over

FileInv == FileTypes /\ OfferedOnce /\ Flow

\* A chunk joins the end of a run of chunks, or the marker closes it.
LEMMA CountingGrows ==
  ASSUME NEW s \in Seq(Nat), NEW k \in Nat, Counting(s, k)
  PROVE  /\ Counting(Append(s, k + Len(s) + 1), k)
         /\ k + Len(s) = Chunks => Closing(Append(s, Done), k)
<1>1. DOMAIN s = 1 .. Len(s) /\ Len(s) \in Nat
  OBVIOUS
<1>2. ASSUME NEW e \in Nat
      PROVE  /\ Append(s, e) \in Seq(Nat) /\ Len(Append(s, e)) = Len(s) + 1
             /\ DOMAIN Append(s, e) = 1 .. (Len(s) + 1)
             /\ \A i \in 1 .. Len(s) : Append(s, e)[i] = s[i]
             /\ Append(s, e)[Len(s) + 1] = e
  BY <1>2, AppendProperties
<1>3. Counting(Append(s, k + Len(s) + 1), k)
  <2> DEFINE e == k + Len(s) + 1
             a == Append(s, e)
  <2>1. e \in Nat
    BY <1>1
  <2>2. /\ DOMAIN a = 1 .. (Len(s) + 1) /\ (\A i \in 1 .. Len(s) : a[i] = s[i]) /\ a[Len(s) + 1] = e
    BY <1>2, <2>1
  <2> HIDE DEF a
  <2>3. \A i \in DOMAIN a : a[i] = k + i
    BY <1>1, <2>2 DEF Counting
  <2> QED BY <2>3 DEF a, Counting
<1>4. ASSUME k + Len(s) = Chunks PROVE Closing(Append(s, Done), k)
  <2> DEFINE a == Append(s, Done)
  <2>1. Done \in Nat
    BY DEF Done
  <2>2. /\ Len(a) = Len(s) + 1 /\ (\A i \in 1 .. Len(s) : a[i] = s[i]) /\ a[Len(s) + 1] = Done
    BY <1>2, <2>1
  <2>3. a # <<>>
    BY <1>1, <2>2
  <2> HIDE DEF a
  <2>4. Len(a) - 1 = Len(s) /\ k + Len(a) = Chunks + 1
    BY <1>1, <1>4, <2>2
  <2> QED BY <1>1, <2>2, <2>3, <2>4 DEF a, Closing, Counting
<1> QED BY <1>3, <1>4

\* The first chunk of a run is taken.
LEMMA CountingShrinks ==
  ASSUME NEW s \in Seq(Nat), s # <<>>, NEW k \in Nat, Counting(s, k)
  PROVE  Head(s) = k + 1 /\ Counting(Tail(s), k + 1) /\ Tail(s) \in Seq(Nat)
         /\ Len(Tail(s)) = Len(s) - 1 /\ Len(s) \in Nat \ {0}
<1> DEFINE v == Tail(s)
<1>1. /\ Len(s) \in Nat \ {0} /\ v \in Seq(Nat) /\ Len(v) = Len(s) - 1
      /\ \A j \in 1..(Len(s) - 1) : v[j] = s[j + 1]
      /\ Head(s) = s[1] /\ 1 \in DOMAIN s /\ DOMAIN s = 1 .. Len(s)
  BY HeadTailProperties
<1> HIDE DEF v
<1>2. \A j \in DOMAIN v : j + 1 \in DOMAIN s /\ v[j] = s[j + 1] /\ j \in Nat
  BY <1>1
<1>3. \A j \in DOMAIN v : v[j] = (k + 1) + j
  <2> SUFFICES ASSUME NEW j \in DOMAIN v PROVE v[j] = (k + 1) + j
    OBVIOUS
  <2>1. v[j] = k + (j + 1) /\ j \in Nat
    BY <1>2 DEF Counting
  <2> QED BY <2>1
<1> QED BY <1>1, <1>3 DEF Counting, v

\* The first item of a closed run is taken: a chunk, or the marker when it is alone.
LEMMA ClosingShrinks ==
  ASSUME NEW s \in Seq(Nat), NEW k \in Nat, Closing(s, k)
  PROVE  /\ Tail(s) \in Seq(Nat) /\ Len(s) \in Nat \ {0} /\ Len(Tail(s)) = Len(s) - 1
         /\ \/ Head(s) = Done /\ Tail(s) = <<>> /\ Len(s) = 1 /\ k = Chunks
            \/ Head(s) = k + 1 /\ Head(s) # Done /\ Closing(Tail(s), k + 1) /\ k + 1 <= Chunks /\ Len(s) > 1
<1> DEFINE v == Tail(s)
<1>1. /\ Len(s) \in Nat \ {0} /\ v \in Seq(Nat) /\ Len(v) = Len(s) - 1
      /\ \A j \in 1..(Len(s) - 1) : v[j] = s[j + 1]
      /\ Head(s) = s[1]
  BY HeadTailProperties DEF Closing
<1> HIDE DEF v
<1>2. Chunks \in Nat
  BY FilesAssumption
<1>3. CASE Len(s) = 1
  <2>1. v = <<>>
    BY <1>1, <1>3, EmptySeq
  <2> QED BY <1>1, <1>2, <1>3, <2>1 DEF Closing, v
<1>4. CASE Len(s) > 1
  <2>1. Head(s) = k + 1 /\ k + 1 <= Chunks
    BY <1>1, <1>2, <1>4 DEF Closing
  <2>2. v # <<>> /\ v[Len(v)] = Done /\ (k + 1) + Len(v) = Chunks + 1
    <3>1. Len(v) \in 1 .. (Len(s) - 1) /\ Len(v) + 1 = Len(s)
      BY <1>1, <1>4
    <3>2. v[Len(v)] = s[Len(v) + 1]
      BY <1>1, <3>1
    <3>3. v # <<>>
      BY <1>1, <3>1
    <3>4. s[Len(s)] = Done /\ k + Len(s) = Chunks + 1
      BY DEF Closing
    <3>5. (k + 1) + Len(v) = Chunks + 1
      <4>1. Len(v) \in Nat /\ Len(s) = Len(v) + 1
        BY <1>1
      <4> DEFINE n == Len(v)
      <4>2. n \in Nat /\ k + (n + 1) = Chunks + 1
        BY <3>4, <4>1
      <4> HIDE DEF n
      <4>3. (k + 1) + n = Chunks + 1
        BY <1>2, <4>2
      <4> QED BY <4>3 DEF n
    <3>6. v[Len(v)] = Done
      BY <3>1, <3>2, <3>4
    <3> QED BY <3>3, <3>5, <3>6
  <2>3. \A i \in 1 .. Len(v) - 1 : v[i] = (k + 1) + i
    <3> SUFFICES ASSUME NEW i \in 1 .. Len(v) - 1 PROVE v[i] = (k + 1) + i
      OBVIOUS
    <3>1. i \in 1 .. (Len(s) - 1) /\ i + 1 \in 1 .. Len(s) - 1 /\ i \in Nat
      BY <1>1
    <3>2. v[i] = k + (i + 1)
      BY <1>1, <3>1 DEF Closing
    <3> QED BY <3>1, <3>2
  <2>4. Closing(v, k + 1)
    BY <2>2, <2>3 DEF Closing
  <2>5. Head(s) # Done
    BY <2>1 DEF Done
  <2> QED BY <1>1, <1>4, <2>1, <2>4, <2>5 DEF v
<1> QED BY <1>1, <1>3, <1>4

\* Taking the head off a queue moves the other items up.
LEMMA TailItems ==
  ASSUME NEW S, NEW s \in Seq(S), s # <<>>
  PROVE  /\ Tail(s) \in Seq(S) /\ Head(s) = s[1] /\ 1 \in DOMAIN s
         /\ \A i \in DOMAIN Tail(s) : i + 1 \in DOMAIN s /\ Tail(s)[i] = s[i + 1] /\ i \in Nat /\ i + 1 # 1
<1> DEFINE v == Tail(s)
<1>1. /\ Len(s) \in Nat \ {0} /\ v \in Seq(S) /\ Len(v) = Len(s) - 1
      /\ \A j \in 1..(Len(s) - 1) : v[j] = s[j + 1]
      /\ Head(s) = s[1] /\ 1 \in DOMAIN s
  BY HeadTailProperties
<1> HIDE DEF v
<1>2. \A i \in DOMAIN v : i + 1 \in DOMAIN s /\ v[i] = s[i + 1] /\ i \in Nat /\ i + 1 # 1
  BY <1>1
<1> QED BY <1>1, <1>2 DEF v

\* A step that touches neither the channel nor the write chain leaves the flow alone.
LEMMA FlowKept ==
  ASSUME Flow, UNCHANGED <<data, channel, received>>,
         snd'.loop = snd.loop, snd'.off = snd.off,
         rcv'.bound = rcv.bound, rcv'.chain = rcv.chain, rcv'.sink = rcv.sink, rcv'.got = rcv.got,
         rcv'.broken = rcv.broken, rcv.bound => rcv'.has = rcv.has
  PROVE  Flow'
<1>1. \A k : Written(k) <=> Written(k)'
  BY DEF Written
<1>2. CASE NotOpen
  BY <1>2 DEF NotOpen, Flow
<1>3. CASE Streaming
  <2>1. Streaming'
    BY <1>1, <1>3 DEF Streaming
  <2> QED BY <2>1 DEF Flow
<1>4. CASE Ending
  <2>1. Ending'
    BY <1>1, <1>4 DEF Ending
  <2> QED BY <2>1 DEF Flow
<1>5. CASE Over
  BY <1>5 DEF Over, Flow
<1> QED BY <1>2, <1>3, <1>4, <1>5 DEF Flow

\* Counting a candidate keeps the type of either end.
LEMMA EndCounts ==
  ASSUME NEW n \in Nat, NEW s \in Sender, NEW r \in Receiver
  PROVE  /\ s.ice \in Nat /\ s.gathered \in Nat /\ r.ice \in Nat /\ r.gathered \in Nat
         /\ [s EXCEPT !.ice = n] \in Sender /\ [s EXCEPT !.gathered = n] \in Sender
         /\ [r EXCEPT !.ice = n] \in Receiver /\ [r EXCEPT !.gathered = n] \in Receiver
<1>1. s.ice \in Nat /\ s.gathered \in Nat
  BY DEF Sender
<1>2. r.ice \in Nat /\ r.gathered \in Nat
  BY DEF Receiver
<1>3. [s EXCEPT !.ice = n] \in Sender
  BY DEF Sender
<1>4. [s EXCEPT !.gathered = n] \in Sender
  BY DEF Sender
<1>5. [r EXCEPT !.ice = n] \in Receiver
  BY DEF Receiver
<1>6. [r EXCEPT !.gathered = n] \in Receiver
  BY DEF Receiver
<1> QED BY <1>1, <1>2, <1>3, <1>4, <1>5, <1>6

\* The signals of a transfer keep the invariant.
LEMMA SignalStepKeeps ==
  ASSUME FileInv,
         \/ SendFile \/ SenderStep \/ ReceiverStep \/ AcceptFile \/ DeclineFile
         \/ GatherCandidate \/ SignalDropped
  PROVE  FileInv'
<1> USE DEF FileInv
<1>1. ASSUME SendFile PROVE FileInv'
  <2>1. FileTypes'
    BY <1>1 DEF SendFile, FileTypes, Sender, Receiver
  <2>2. OfferedOnce'
    BY <1>1 DEF SendFile, FileTypes, Sender, Receiver, OfferedOnce, Unasked
  <2>3. Flow'
    BY <1>1, FlowKept DEF SendFile, FileTypes, Sender, Receiver
  <2> QED BY <2>1, <2>2, <2>3
<1>2. ASSUME OfferFile PROVE FileInv'
  <2>1. /\ snd.task = "offer" /\ snd' = [snd EXCEPT !.task = "offered"]
        /\ toRcv' = Append(toRcv, "offer")
        /\ UNCHANGED <<rcv, toSnd, data, channel, received>>
    BY <1>2 DEF OfferFile, SendFileSignal
  <2>2. /\ toRcv' \in Seq({"offer", "ice"}) /\ DOMAIN toRcv = 1 .. Len(toRcv) /\ Len(toRcv) \in Nat
        /\ DOMAIN toRcv' = 1 .. (Len(toRcv) + 1)
        /\ \A i \in 1 .. Len(toRcv) : toRcv'[i] = toRcv[i]
    BY <2>1, AppendProperties DEF FileTypes, Sender, Receiver
  <2>3. FileTypes'
    BY <2>1, <2>2 DEF FileTypes, Sender, Receiver
  <2>4. Unasked /\ ~Offers(toRcv)
    BY <2>1 DEF OfferedOnce
  <2>5. \A i \in DOMAIN toRcv' : toRcv'[i] = "offer" => i = Len(toRcv) + 1
    BY <2>2, <2>4 DEF Offers
  <2>6. Unasked' /\ snd'.task = "offered"
    BY <2>1, <2>4 DEF Unasked, FileTypes, Sender, Receiver
  <2>7. OfferedOnce'
    BY <2>5, <2>6 DEF OfferedOnce, Unasked
  <2>8. Flow'
    BY <2>1, FlowKept DEF FileTypes, Sender, Receiver
  <2> QED BY <2>3, <2>7, <2>8
<1>3. ASSUME SenderSignal PROVE FileInv'
  <2>1. /\ toSnd # <<>> /\ toSnd' = Tail(toSnd) /\ UNCHANGED <<rcv, toRcv, data, channel, received>>
        /\ snd' = CASE ~snd.has -> snd
                    [] snd.has /\ Head(toSnd) = "answer" -> [snd EXCEPT !.task = "apply"]
                    [] snd.has /\ Head(toSnd) = "decline" -> [snd EXCEPT !.has = FALSE]
                    [] snd.has /\ Head(toSnd) = "ice" ->
                         IF snd.ready THEN snd ELSE [snd EXCEPT !.ice = @ + 1]
    BY <1>3 DEF SenderSignal
  <2>2. Head(toSnd) \in {"answer", "decline", "ice"} /\ toSnd' \in Seq({"answer", "decline", "ice"})
    BY <2>1, HeadTailProperties DEF FileTypes, Sender, Receiver
  <2>3. \/ snd' = snd
        \/ snd' = [snd EXCEPT !.task = "apply"]
        \/ snd' = [snd EXCEPT !.has = FALSE]
        \/ snd' = [snd EXCEPT !.ice = @ + 1]
    BY <2>1, <2>2 DEF FileTypes, Sender, Receiver
  <2>4. FileTypes'
    <3>1. snd' \in Sender
      <4>1. snd \in Sender
        BY DEF FileTypes
      <4>2. [snd EXCEPT !.task = "apply"] \in Sender /\ [snd EXCEPT !.has = FALSE] \in Sender
        BY <4>1 DEF Sender
      <4>3. [snd EXCEPT !.ice = snd.ice + 1] \in Sender
        <5>1. snd.ice + 1 \in Nat
          BY <4>1 DEF Sender
        <5> QED BY <4>1, <5>1, EndCounts DEF FileTypes
      <4> QED BY <2>3, <4>1, <4>2, <4>3
    <3> QED BY <2>1, <2>2, <3>1 DEF FileTypes
  <2>5. /\ snd'.task \in {"idle", "offer"} => snd.task \in {"idle", "offer"}
        /\ snd'.loop = snd.loop /\ snd'.off = snd.off
    BY <2>3 DEF FileTypes, Sender, Receiver
  <2>6. OfferedOnce'
    BY <2>1, <2>5 DEF OfferedOnce, Unasked, Offers
  <2>7. Flow'
    BY <2>1, <2>5, FlowKept
  <2> QED BY <2>4, <2>6, <2>7
<1>4. ASSUME SenderReady \/ SenderCloses PROVE FileInv'
  <2>1. /\ \/ snd' = [snd EXCEPT !.task = "offered", !.ready = TRUE, !.ice = 0]
           \/ snd' = [snd EXCEPT !.has = FALSE]
        /\ UNCHANGED <<rcv, toRcv, toSnd, data, channel, received>>
    BY <1>4 DEF SenderReady, SenderCloses
  <2>2. FileTypes'
    <3>1. snd' \in Sender
      <4>1. snd \in Sender
        BY DEF FileTypes
      <4>2. /\ [snd EXCEPT !.task = "offered", !.ready = TRUE, !.ice = 0] \in Sender
            /\ [snd EXCEPT !.has = FALSE] \in Sender
        BY <4>1 DEF Sender
      <4> QED BY <2>1, <4>1, <4>2
    <3> QED BY <2>1, <3>1 DEF FileTypes
  <2>3. /\ snd'.task \in {"idle", "offer"} => snd.task \in {"idle", "offer"}
        /\ snd'.loop = snd.loop /\ snd'.off = snd.off
    BY <2>1 DEF FileTypes, Sender, Receiver
  <2>4. OfferedOnce'
    BY <2>1, <2>3 DEF OfferedOnce, Unasked, Offers
  <2>5. Flow'
    BY <2>1, <2>3, FlowKept
  <2> QED BY <2>2, <2>4, <2>5
<1>5. ASSUME ReceiverSignal PROVE FileInv'
  <2>1. /\ toRcv # <<>> /\ toRcv' = Tail(toRcv) /\ UNCHANGED <<snd, toSnd, data, channel, received>>
        /\ \/ Head(toRcv) = "offer" /\ rcv' = [rcv EXCEPT !.has = TRUE, !.prompt = TRUE]
           \/ Head(toRcv) # "offer" /\ rcv.has /\ rcv' = [rcv EXCEPT !.ice = @ + 1]
           \/ Head(toRcv) # "offer" /\ rcv' = rcv
    BY <1>5 DEF ReceiverSignal
  <2>2. /\ toRcv' \in Seq({"offer", "ice"}) /\ Head(toRcv) = toRcv[1] /\ 1 \in DOMAIN toRcv
        /\ \A i \in DOMAIN toRcv' : i + 1 \in DOMAIN toRcv /\ toRcv'[i] = toRcv[i + 1] /\ i \in Nat
                                    /\ i + 1 # 1
    BY <2>1, TailItems DEF FileTypes, Sender, Receiver
  <2>3. FileTypes'
    <3>1. rcv' \in Receiver
      <4>1. rcv \in Receiver
        BY DEF FileTypes
      <4>2. [rcv EXCEPT !.has = TRUE, !.prompt = TRUE] \in Receiver
        BY <4>1 DEF Receiver
      <4>3. [rcv EXCEPT !.ice = rcv.ice + 1] \in Receiver
        <5>1. rcv.ice + 1 \in Nat
          BY <4>1 DEF Receiver
        <5> QED BY <4>1, <5>1, EndCounts DEF FileTypes
      <4> QED BY <2>1, <4>1, <4>2, <4>3
    <3> QED BY <2>1, <2>2, <3>1 DEF FileTypes
  <2>4. /\ Offers(toRcv') => Offers(toRcv) /\ Head(toRcv) # "offer"
        /\ \A i, j \in DOMAIN toRcv' : toRcv'[i] = "offer" /\ toRcv'[j] = "offer" => i = j
    <3>1. Offers(toRcv') => Offers(toRcv) /\ Head(toRcv) # "offer"
      BY <2>2 DEF Offers, OfferedOnce
    <3>2. ASSUME NEW i \in DOMAIN toRcv', NEW j \in DOMAIN toRcv', toRcv'[i] = "offer", toRcv'[j] = "offer"
          PROVE  i = j
      <4>1. i + 1 = j + 1
        BY <2>2, <3>2 DEF OfferedOnce
      <4> QED BY <2>2, <4>1
    <3> QED BY <3>1, <3>2
  <2>5. CASE Head(toRcv) = "offer"
    <3>1. Offers(toRcv) /\ Unasked /\ snd.task \notin {"idle", "offer"} /\ ~Offers(toRcv')
      BY <2>2, <2>4, <2>5 DEF OfferedOnce, Offers
    <3>2. rcv' = [rcv EXCEPT !.has = TRUE, !.prompt = TRUE]
      BY <2>1, <2>5
    <3>3. OfferedOnce'
      BY <2>1, <2>4, <3>1, <3>2 DEF OfferedOnce, Unasked, FileTypes, Sender, Receiver
    <3>4. Flow'
      BY <2>1, <3>1, <3>2, FlowKept DEF Unasked, FileTypes, Sender, Receiver
    <3> QED BY <2>3, <3>3, <3>4
  <2>6. CASE Head(toRcv) # "offer"
    <3>1. /\ rcv'.has = rcv.has /\ rcv'.prompt = rcv.prompt /\ rcv'.task = rcv.task
          /\ rcv'.ready = rcv.ready /\ rcv'.bound = rcv.bound /\ rcv'.chain = rcv.chain
          /\ rcv'.sink = rcv.sink /\ rcv'.got = rcv.got /\ rcv'.broken = rcv.broken
      BY <2>1, <2>6 DEF FileTypes, Sender, Receiver
    <3>2. OfferedOnce'
      BY <2>1, <2>4, <3>1 DEF OfferedOnce, Unasked
    <3>3. Flow'
      BY <2>1, <3>1, FlowKept
    <3> QED BY <2>3, <3>2, <3>3
  <2> QED BY <2>5, <2>6
<1>6. ASSUME AcceptFile \/ SinkChosen \/ ReceiverReady \/ AnswerFile \/ DeclineFile PROVE FileInv'
  <2>1. /\ \/ rcv.prompt /\ rcv' = [rcv EXCEPT !.prompt = FALSE, !.task = "sink"]
           \/ rcv.task = "sink" /\ rcv' = [rcv EXCEPT !.task = "install"]
           \/ rcv.task = "install" /\ rcv' = [rcv EXCEPT !.task = "answer", !.ready = TRUE]
           \/ rcv.task = "answer" /\ rcv' = [rcv EXCEPT !.task = "idle", !.ice = 0]
           \/ rcv.prompt /\ rcv' = [rcv EXCEPT !.prompt = FALSE, !.has = FALSE]
        /\ toSnd' = toSnd \/ toSnd' = Append(toSnd, "answer") \/ toSnd' = Append(toSnd, "decline")
        /\ UNCHANGED <<snd, toRcv, data, channel, received>>
    BY <1>6 DEF AcceptFile, SinkChosen, ReceiverReady, AnswerFile, DeclineFile, SendFileSignal
  <2>2. toSnd' \in Seq({"answer", "decline", "ice"})
    <3>1. /\ Append(toSnd, "answer") \in Seq({"answer", "decline", "ice"})
          /\ Append(toSnd, "decline") \in Seq({"answer", "decline", "ice"})
          /\ toSnd \in Seq({"answer", "decline", "ice"})
      BY AppendProperties DEF FileTypes
    <3> QED BY <2>1, <3>1
  <2>3. FileTypes'
    <3>1. rcv' \in Receiver
      <4>1. rcv \in Receiver
        BY DEF FileTypes
      <4>2. /\ [rcv EXCEPT !.prompt = FALSE, !.task = "sink"] \in Receiver
            /\ [rcv EXCEPT !.task = "install"] \in Receiver
            /\ [rcv EXCEPT !.task = "answer", !.ready = TRUE] \in Receiver
            /\ [rcv EXCEPT !.task = "idle", !.ice = 0] \in Receiver
            /\ [rcv EXCEPT !.prompt = FALSE, !.has = FALSE] \in Receiver
        BY <4>1 DEF Receiver
      <4> QED BY <2>1, <4>2
    <3> QED BY <2>1, <2>2, <3>1 DEF FileTypes
  <2>4. ~Unasked
    BY <2>1 DEF Unasked
  <2>5. /\ rcv'.chain = rcv.chain /\ rcv'.sink = rcv.sink /\ rcv'.got = rcv.got
        /\ rcv'.broken = rcv.broken /\ rcv'.bound = rcv.bound
        /\ rcv.bound => rcv'.has = rcv.has
        /\ rcv'.bound => rcv'.ready
        /\ rcv'.prompt => rcv'.task = "idle" /\ ~rcv'.ready
        /\ rcv'.task \in {"sink", "install"} => ~rcv'.ready
    <3>1. rcv \in Receiver
      BY DEF FileTypes
    <3>2. CASE rcv.prompt /\ rcv' = [rcv EXCEPT !.prompt = FALSE, !.task = "sink"]
      BY <3>1, <3>2 DEF Receiver, OfferedOnce
    <3>3. CASE rcv.task = "sink" /\ rcv' = [rcv EXCEPT !.task = "install"]
      BY <3>1, <3>3 DEF Receiver, OfferedOnce
    <3>4. CASE rcv.task = "install" /\ rcv' = [rcv EXCEPT !.task = "answer", !.ready = TRUE]
      BY <3>1, <3>4 DEF Receiver, OfferedOnce
    <3>5. CASE rcv.task = "answer" /\ rcv' = [rcv EXCEPT !.task = "idle", !.ice = 0]
      BY <3>1, <3>5 DEF Receiver, OfferedOnce
    <3>6. CASE rcv.prompt /\ rcv' = [rcv EXCEPT !.prompt = FALSE, !.has = FALSE]
      BY <3>1, <3>6 DEF Receiver, OfferedOnce
    <3> QED BY <2>1, <3>2, <3>3, <3>4, <3>5, <3>6
  <2>6. OfferedOnce'
    BY <2>1, <2>4, <2>5 DEF OfferedOnce
  <2>7. Flow'
    BY <2>1, <2>5, FlowKept
  <2> QED BY <2>3, <2>6, <2>7
<1>7. ASSUME GatherCandidate PROVE FileInv'
  <2>1. /\ \/ /\ snd.task # "offer" /\ snd' = [snd EXCEPT !.gathered = @ + 1]
              /\ toRcv' = Append(toRcv, "ice") /\ UNCHANGED <<rcv, toSnd>>
           \/ /\ rcv' = [rcv EXCEPT !.gathered = @ + 1]
              /\ toSnd' = Append(toSnd, "ice") /\ UNCHANGED <<snd, toRcv>>
        /\ UNCHANGED <<data, channel, received>>
    BY <1>7 DEF GatherCandidate, SendFileSignal
  <2>2. FileTypes'
    <3>1. /\ snd \in Sender /\ rcv \in Receiver /\ [snd EXCEPT !.gathered = snd.gathered + 1] \in Sender
          /\ [rcv EXCEPT !.gathered = rcv.gathered + 1] \in Receiver
      <4>1. snd \in Sender /\ rcv \in Receiver
        BY DEF FileTypes
      <4>2. snd.gathered + 1 \in Nat /\ rcv.gathered + 1 \in Nat
        BY <4>1 DEF Sender, Receiver
      <4> QED BY <4>1, <4>2, EndCounts
    <3>2. /\ Append(toSnd, "ice") \in Seq({"answer", "decline", "ice"})
          /\ Append(toRcv, "ice") \in Seq({"offer", "ice"})
      BY AppendProperties DEF FileTypes
    <3> QED BY <2>1, <3>1, <3>2 DEF FileTypes
  <2>3. /\ Offers(toRcv') => Offers(toRcv)
        /\ \A i, j \in DOMAIN toRcv' : toRcv'[i] = "offer" /\ toRcv'[j] = "offer" => i = j
    <3>1. CASE toRcv' = Append(toRcv, "ice")
      <4>1. \A i \in DOMAIN toRcv' : toRcv'[i] = "offer" => i \in DOMAIN toRcv /\ toRcv[i] = "offer"
        BY <3>1, AppendProperties DEF FileTypes, Sender, Receiver
      <4> QED BY <4>1 DEF OfferedOnce, Offers
    <3>2. CASE UNCHANGED toRcv
      BY <3>2 DEF OfferedOnce
    <3> QED BY <2>1, <3>1, <3>2
  <2>4. /\ snd'.task = snd.task /\ snd'.loop = snd.loop /\ snd'.off = snd.off
        /\ rcv'.has = rcv.has /\ rcv'.prompt = rcv.prompt /\ rcv'.task = rcv.task
        /\ rcv'.ready = rcv.ready /\ rcv'.bound = rcv.bound /\ rcv'.chain = rcv.chain
        /\ rcv'.sink = rcv.sink /\ rcv'.got = rcv.got /\ rcv'.broken = rcv.broken
    BY <2>1 DEF FileTypes, Sender, Receiver
  <2>5. OfferedOnce'
    BY <2>3, <2>4 DEF OfferedOnce, Unasked
  <2>6. Flow'
    BY <2>1, <2>4, FlowKept
  <2> QED BY <2>2, <2>5, <2>6
<1>8. ASSUME SignalDropped PROVE FileInv'
  <2>1. /\ \/ toRcv # <<>> /\ toRcv' = Tail(toRcv) /\ toSnd' = toSnd
           \/ toSnd # <<>> /\ toSnd' = Tail(toSnd) /\ toRcv' = toRcv
        /\ UNCHANGED <<snd, rcv, data, channel, received>>
    BY <1>8 DEF SignalDropped
  <2>2. toRcv' \in Seq({"offer", "ice"}) /\ toSnd' \in Seq({"answer", "decline", "ice"})
    <3>1. toRcv \in Seq({"offer", "ice"}) /\ toSnd \in Seq({"answer", "decline", "ice"})
      BY DEF FileTypes
    <3>2. /\ toRcv # <<>> => Tail(toRcv) \in Seq({"offer", "ice"})
          /\ toSnd # <<>> => Tail(toSnd) \in Seq({"answer", "decline", "ice"})
      BY <3>1, HeadTailProperties
    <3> QED BY <2>1, <3>1, <3>2
  <2>3. FileTypes'
    BY <2>1, <2>2 DEF FileTypes, Sender, Receiver
  <2>4. /\ Offers(toRcv') => Offers(toRcv)
        /\ \A i, j \in DOMAIN toRcv' : toRcv'[i] = "offer" /\ toRcv'[j] = "offer" => i = j
    <3>1. CASE toRcv # <<>> /\ toRcv' = Tail(toRcv)
      <4>1. \A i \in DOMAIN toRcv' : i + 1 \in DOMAIN toRcv /\ toRcv'[i] = toRcv[i + 1] /\ i \in Nat
        BY <3>1, TailItems DEF FileTypes, Sender, Receiver
      <4>2. ASSUME NEW i \in DOMAIN toRcv', NEW j \in DOMAIN toRcv', toRcv'[i] = "offer", toRcv'[j] = "offer"
            PROVE  i = j
        <5>1. i + 1 = j + 1
          BY <4>1, <4>2 DEF OfferedOnce
        <5> QED BY <4>1, <5>1
      <4> QED BY <4>1, <4>2 DEF Offers
    <3>2. CASE toRcv' = toRcv
      BY <3>2 DEF OfferedOnce
    <3> QED BY <2>1, <3>1, <3>2
  <2>5. OfferedOnce'
    BY <2>1, <2>4 DEF OfferedOnce, Unasked
  <2>6. Flow'
    BY <2>1, FlowKept
  <2> QED BY <2>3, <2>5, <2>6
<1> QED BY <1>1, <1>2, <1>3, <1>4, <1>5, <1>6, <1>7, <1>8 DEF SenderStep, ReceiverStep

\* A step on the data channel that starts no transfer leaves the offer alone.
LEMMA OfferKept ==
  ASSUME OfferedOnce, toRcv' = toRcv, snd'.task = snd.task, rcv'.prompt = rcv.prompt,
         rcv'.task = rcv.task, rcv'.ready = rcv.ready, rcv'.has = rcv.has \/ ~rcv'.has,
         rcv'.bound = rcv.bound \/ (rcv.has /\ rcv.ready)
  PROVE  OfferedOnce'
<1>1. Unasked => Unasked'
  BY DEF Unasked
<1>2. rcv'.bound => rcv'.ready
  BY DEF OfferedOnce
<1> QED BY <1>1, <1>2 DEF OfferedOnce, Offers

\* A chunk reaches the sink, or is skipped after a failed write.
LEMMA WrittenGrows ==
  ASSUME NEW k \in Nat, Written(k), rcv.sink \in Seq(Nat), rcv'.broken \/ rcv'.broken = rcv.broken,
         ~rcv'.broken => rcv'.sink = Append(rcv.sink, k + 1)
  PROVE  Written(k + 1)'
<1> SUFFICES ASSUME ~rcv'.broken PROVE Len(rcv'.sink) = k + 1 /\ Counting(rcv'.sink, 0)
  BY DEF Written
<1>1. Len(rcv.sink) = k /\ Counting(rcv.sink, 0) /\ rcv'.sink = Append(rcv.sink, k + 1)
  BY DEF Written
<1>2. Counting(Append(rcv.sink, 0 + Len(rcv.sink) + 1), 0)
  BY <1>1, CountingGrows
<1>3. Len(Append(rcv.sink, k + 1)) = k + 1
  BY <1>1, AppendProperties
<1> QED BY <1>1, <1>2, <1>3

\* The sender's loop keeps the invariant.
LEMMA SenderLoopKeeps ==
  ASSUME FileInv, ChannelOpens \/ StreamOut \/ SliceFails
  PROVE  FileInv'
<1>1. FileTypes /\ OfferedOnce /\ Flow /\ snd \in Sender /\ rcv \in Receiver /\ Chunks \in Nat
  BY FilesAssumption DEF FileInv, FileTypes
<1>2. ASSUME ChannelOpens PROVE FileInv'
  <2>1. /\ channel = "none" /\ rcv.ready /\ rcv.has /\ channel' = "open"
        /\ snd' = [snd EXCEPT !.loop = "check"] /\ rcv' = [rcv EXCEPT !.bound = TRUE]
        /\ UNCHANGED <<toRcv, toSnd, data, received>>
    BY <1>2 DEF ChannelOpens
  <2>2. snd' \in Sender /\ snd'.loop = "check" /\ snd'.off = snd.off /\ snd'.task = snd.task
    BY <1>1, <2>1 DEF Sender
  <2>3. /\ rcv' \in Receiver /\ rcv'.bound /\ rcv'.has = rcv.has /\ rcv'.prompt = rcv.prompt
        /\ rcv'.task = rcv.task /\ rcv'.ready = rcv.ready /\ rcv'.chain = rcv.chain
        /\ rcv'.sink = rcv.sink /\ rcv'.got = rcv.got /\ rcv'.broken = rcv.broken
    BY <1>1, <2>1 DEF Receiver
  <2>4. FileTypes'
    BY <1>1, <2>1, <2>2, <2>3 DEF FileTypes
  <2>5. OfferedOnce'
    BY <1>1, <2>1, <2>2, <2>3, OfferKept
  <2>6. NotOpen
    BY <1>1, <2>1 DEF Flow, Streaming, Ending, Over
  <2>7. Streaming'
    <3>1. /\ rcv'.chain = <<>> /\ rcv'.got = 0 /\ rcv'.sink = <<>> /\ data' = <<>> /\ snd'.off = 0
          /\ received' = <<>>
      BY <2>1, <2>2, <2>3, <2>6 DEF NotOpen
    <3>2. Len(<<>>) = 0 /\ Counting(<<>>, 0) /\ 0 - 0 = 0 /\ 0 + 0 = 0 /\ 0 <= 0 /\ 0 <= Chunks
      BY <1>1 DEF Counting
    <3>3. Written(0)'
      BY <3>1, <3>2 DEF Written
    <3> QED BY <2>1, <2>2, <2>3, <3>1, <3>2, <3>3 DEF Streaming
  <2> QED BY <2>4, <2>5, <2>7 DEF FileInv, Flow
<1>3. ASSUME snd.loop \in {"check", "drain", "slice"}
      PROVE  /\ Streaming /\ Counting(data, rcv.got) /\ rcv.got + Len(data) <= Chunks
             /\ channel = "open" => snd.off = rcv.got + Len(data)
             /\ snd.loop \in {"drain", "slice"} => snd.off < Chunks
  BY <1>1, <1>3 DEF Flow, NotOpen, Streaming, Ending, Over
<1>4. ASSUME snd.loop \in {"check", "drain", "slice"}, rcv' = rcv, received' = received,
             toRcv' = toRcv, toSnd' = toSnd, snd' \in Sender, snd'.task = snd.task,
             data' \in Seq(Nat), channel' \in {channel, "closed"}, snd'.loop # "idle",
             \/ /\ Counting(data, rcv.got)' /\ rcv.got + Len(data') <= Chunks
                /\ channel' = "open" /\ snd'.loop # "over" => snd'.off = rcv.got + Len(data')
                /\ snd'.loop \in {"drain", "slice"} => snd'.off < Chunks
             \/ Closing(data, rcv.got)' /\ snd'.loop = "over"
      PROVE  FileInv'
  <2>1. FileTypes'
    BY <1>1, <1>4 DEF FileTypes
  <2>2. OfferedOnce'
    <3>1. /\ rcv'.prompt = rcv.prompt /\ rcv'.task = rcv.task /\ rcv'.ready = rcv.ready
          /\ rcv'.has = rcv.has /\ rcv'.bound = rcv.bound
      BY <1>4
    <3>2. OfferedOnce /\ toRcv' = toRcv /\ snd'.task = snd.task
      BY <1>1, <1>4
    <3> QED BY <3>1, <3>2 DEF OfferedOnce, Unasked, Offers
  <2>3. Streaming
    BY <1>3, <1>4
  <2>4. \A k : Written(k) => Written(k)'
    BY <1>4 DEF Written
  <2>5. Streaming'
    BY <1>1, <1>4, <2>3, <2>4 DEF Streaming
  <2> QED BY <2>1, <2>2, <2>5 DEF FileInv, Flow
<1>5. rcv.got \in Nat /\ data \in Seq(Nat) /\ Len(data) \in Nat /\ snd.off \in 0 .. Chunks
  BY <1>1 DEF FileTypes, Sender, Receiver
<1>6. ASSUME StreamStep PROVE FileInv'
  <2>1. /\ snd.loop = "check" /\ UNCHANGED <<rcv, toRcv, toSnd, channel, received>>
        /\ data' = IF snd.off = Chunks /\ snd.has /\ channel = "open" THEN Append(data, Done) ELSE data
    BY <1>6 DEF StreamStep
  <2>2. PICK l \in {"drain", "slice", "over"} :
          snd' = [snd EXCEPT !.loop = l] /\ (snd.off = Chunks => l = "over")
    <3>1. CASE snd.off < Chunks
      <4>1. snd.off # Chunks
        BY <1>1, <1>5, <3>1
      <4>2. CASE ~snd.has
        BY <1>6, <3>1, <4>1, <4>2 DEF StreamStep
      <4>3. CASE snd.has /\ Len(data) > HighWater
        <5>1. ~(Len(data) <= HighWater)
          BY <1>5, <4>3, FilesAssumption
        <5> QED BY <1>6, <3>1, <4>1, <4>3, <5>1 DEF StreamStep
      <4>4. CASE snd.has /\ Len(data) <= HighWater
        <5>1. ~(Len(data) > HighWater)
          BY <1>5, <4>4, FilesAssumption
        <5> QED BY <1>6, <3>1, <4>1, <4>4, <5>1 DEF StreamStep
      <4>5. Len(data) > HighWater \/ Len(data) <= HighWater
        BY <1>5, FilesAssumption
      <4> QED BY <4>2, <4>3, <4>4, <4>5
    <3>2. CASE snd.off = Chunks
      <4>1. ~(snd.off < Chunks)
        BY <1>1, <1>5, <3>2
      <4> QED BY <1>1, <1>6, <3>2, <4>1 DEF StreamStep, Sender
    <3> QED BY <1>1, <1>5, <3>1, <3>2
  <2>3. snd' \in Sender /\ snd'.loop = l /\ snd'.off = snd.off /\ snd'.task = snd.task
    BY <1>1, <2>2 DEF Sender
  <2>4. CASE snd.off = Chunks /\ snd.has /\ channel = "open"
    <3>1. rcv.got + Len(data) = Chunks
      BY <1>3, <2>1, <2>4
    <3>2. Closing(Append(data, Done), rcv.got)
      BY <1>3, <1>5, <2>1, <3>1, CountingGrows
    <3>3. Append(data, Done) \in Seq(Nat)
      BY <1>5, AppendProperties DEF Done
    <3> QED BY <1>4, <2>1, <2>2, <2>3, <2>4, <3>2, <3>3
  <2>5. CASE ~(snd.off = Chunks /\ snd.has /\ channel = "open")
    <3>1. data' = data
      BY <2>1, <2>5
    <3>2. l \in {"drain", "slice"} => snd.off < Chunks
      BY <1>1, <1>5, <2>2
    <3>3. Counting(data, rcv.got)' /\ rcv.got + Len(data') <= Chunks
      BY <1>3, <2>1, <3>1
    <3> QED BY <1>3, <1>4, <1>5, <2>1, <2>2, <2>3, <3>1, <3>2, <3>3
  <2> QED BY <2>4, <2>5
<1>7. ASSUME DrainResolves PROVE FileInv'
  <2>1. /\ snd.loop = "drain" /\ UNCHANGED <<rcv, toRcv, toSnd, data, channel, received>>
        /\ snd' = [snd EXCEPT !.loop = "slice"]
    BY <1>7 DEF DrainResolves
  <2>2. snd' \in Sender /\ snd'.loop = "slice" /\ snd'.off = snd.off /\ snd'.task = snd.task
    BY <1>1, <2>1 DEF Sender
  <2>3. Counting(data, rcv.got)' /\ rcv.got + Len(data') <= Chunks
    BY <1>3, <2>1
  <2> QED BY <1>3, <1>4, <1>5, <2>1, <2>2, <2>3
<1>8. ASSUME SliceRead \/ SliceFails, ~(SliceRead /\ channel = "open") PROVE FileInv'
  <2>1. /\ snd.loop = "slice" /\ UNCHANGED <<rcv, toRcv, toSnd, data, received>>
        /\ snd' = [[snd EXCEPT !.has = FALSE] EXCEPT !.loop = "over"] /\ channel' \in {channel, "closed"}
    BY <1>8 DEF SliceRead, SliceFails, FailTransfer
  <2>2. snd' \in Sender /\ snd'.loop = "over" /\ snd'.off = snd.off /\ snd'.task = snd.task
    BY <1>1, <2>1 DEF Sender
  <2>3. Counting(data, rcv.got)' /\ rcv.got + Len(data') <= Chunks
    BY <1>3, <2>1
  <2> QED BY <1>3, <1>4, <1>5, <2>1, <2>2, <2>3
<1>9. ASSUME SliceRead, channel = "open" PROVE FileInv'
  <2>1. /\ snd.loop = "slice" /\ UNCHANGED <<rcv, toRcv, toSnd, channel, received>>
        /\ data' = Append(data, snd.off + 1)
        /\ snd' = [snd EXCEPT !.off = snd.off + 1, !.loop = "check"]
    BY <1>9 DEF SliceRead
  <2>2. snd.off + 1 \in 0 .. Chunks /\ snd.off = rcv.got + Len(data) /\ snd.off + 1 \in Nat
    BY <1>1, <1>3, <1>5, <1>9, <2>1
  <2>3. snd' \in Sender /\ snd'.loop = "check" /\ snd'.off = snd.off + 1 /\ snd'.task = snd.task
    BY <1>1, <2>1, <2>2 DEF Sender
  <2>4. data' \in Seq(Nat) /\ Len(data') = Len(data) + 1
    BY <1>5, <2>1, <2>2, AppendProperties
  <2>5. Counting(Append(data, rcv.got + Len(data) + 1), rcv.got)
    BY <1>3, <1>5, <2>1, CountingGrows
  <2>6. Counting(data, rcv.got)'
    BY <2>1, <2>2, <2>5
  <2>7. snd'.off = rcv.got + Len(data') /\ rcv.got + Len(data') <= Chunks
    <3> DEFINE n == Len(data)
               g == rcv.got
    <3>1. n \in Nat /\ g \in Nat /\ snd.off = g + n /\ snd.off + 1 \in 0 .. Chunks
      BY <1>5, <2>2
    <3>2. Len(data') = n + 1 /\ snd'.off = snd.off + 1 /\ rcv.got = g
      BY <2>3, <2>4
    <3> HIDE DEF n, g
    <3> QED BY <1>1, <3>1, <3>2
  <2> QED BY <1>4, <1>9, <2>1, <2>3, <2>4, <2>6, <2>7
<1> QED BY <1>2, <1>6, <1>7, <1>8, <1>9 DEF StreamOut

\* The receiver's end of the channel keeps the invariant.
LEMMA ReceiveKeeps ==
  ASSUME FileInv, Receive
  PROVE  FileInv'
<1>1. FileTypes /\ OfferedOnce /\ Flow /\ snd \in Sender /\ rcv \in Receiver /\ Chunks \in Nat
  BY FilesAssumption DEF FileInv, FileTypes
<1>2. /\ data # <<>> /\ data' = Tail(data) /\ UNCHANGED <<snd, toRcv, toSnd, received>>
  BY DEF Receive
<1>3. Streaming
  BY <1>1, <1>2 DEF Flow, NotOpen, Ending, Over
<1>4. PICK g \in Nat, q \in Seq(Nat), d \in Seq(Nat), l \in Nat :
        g = rcv.got /\ q = rcv.chain /\ d = data /\ l = Len(rcv.chain)
  BY <1>1 DEF FileTypes, Receiver
<1>5. l = Len(q) /\ l <= g /\ Counting(q, g - l) /\ Written(g - l) /\ d # <<>> /\ g - l \in Nat
  BY <1>2, <1>3, <1>4 DEF Streaming
<1>6. /\ Head(d) = Done \/ (Head(d) = g + 1 /\ g + 1 <= Chunks /\ Head(d) # Done)
      /\ Head(d) \in Nat /\ Tail(d) \in Seq(Nat) /\ Len(Tail(d)) = Len(d) - 1 /\ Len(d) \in Nat \ {0}
      /\ Head(d) = Done => Tail(d) = <<>> /\ g = Chunks /\ snd.loop = "over"
      /\ Head(d) # Done =>
           \/ /\ Counting(Tail(d), g + 1) /\ g + Len(d) <= Chunks
              /\ channel = "open" /\ snd.loop # "over" => snd.off = g + Len(d)
              /\ snd.loop \in {"drain", "slice"} => snd.off < Chunks
           \/ Closing(Tail(d), g + 1) /\ snd.loop = "over"
  <2>1. ASSUME Counting(d, g), g + Len(d) <= Chunks
        PROVE  /\ Head(d) = g + 1 /\ g + 1 <= Chunks /\ Head(d) # Done /\ Counting(Tail(d), g + 1)
               /\ Tail(d) \in Seq(Nat) /\ Len(Tail(d)) = Len(d) - 1 /\ Len(d) \in Nat \ {0}
    <3>1. /\ Head(d) = g + 1 /\ Counting(Tail(d), g + 1) /\ Tail(d) \in Seq(Nat)
          /\ Len(Tail(d)) = Len(d) - 1 /\ Len(d) \in Nat \ {0}
      BY <1>5, <2>1, CountingShrinks
    <3>2. g + 1 <= Chunks /\ g + 1 # Done
      BY <1>1, <2>1, <3>1 DEF Done
    <3> QED BY <3>1, <3>2
  <2>2. ASSUME Closing(d, g)
        PROVE  /\ Tail(d) \in Seq(Nat) /\ Len(Tail(d)) = Len(d) - 1 /\ Len(d) \in Nat \ {0}
               /\ \/ Head(d) = Done /\ Tail(d) = <<>> /\ g = Chunks
                  \/ Head(d) = g + 1 /\ Head(d) # Done /\ Closing(Tail(d), g + 1) /\ g + 1 <= Chunks
    BY <2>2, ClosingShrinks
  <2>3. Done \in Nat /\ g + 1 \in Nat
    BY DEF Done
  <2>4. CASE /\ Counting(d, g) /\ g + Len(d) <= Chunks
             /\ channel = "open" /\ snd.loop # "over" => snd.off = g + Len(d)
             /\ snd.loop \in {"drain", "slice"} => snd.off < Chunks
    <3>1. /\ Head(d) = g + 1 /\ g + 1 <= Chunks /\ Head(d) # Done /\ Counting(Tail(d), g + 1)
          /\ Tail(d) \in Seq(Nat) /\ Len(Tail(d)) = Len(d) - 1 /\ Len(d) \in Nat \ {0}
      BY <2>1, <2>4
    <3>2. Head(d) \in Nat
      BY <2>3, <3>1
    <3> QED BY <2>4, <3>1, <3>2
  <2>5. CASE Closing(d, g) /\ snd.loop = "over"
    <3>1. /\ Tail(d) \in Seq(Nat) /\ Len(Tail(d)) = Len(d) - 1 /\ Len(d) \in Nat \ {0}
          /\ \/ Head(d) = Done /\ Tail(d) = <<>> /\ g = Chunks
             \/ Head(d) = g + 1 /\ Head(d) # Done /\ Closing(Tail(d), g + 1) /\ g + 1 <= Chunks
      BY <2>2, <2>5
    <3>2. Head(d) \in Nat
      BY <2>3, <3>1
    <3>3. CASE Head(d) = Done /\ Tail(d) = <<>> /\ g = Chunks
      <4>1. Head(d) = Done => Tail(d) = <<>> /\ g = Chunks /\ snd.loop = "over"
        BY <2>5, <3>3
      <4> QED BY <3>1, <3>2, <3>3, <4>1
    <3>4. CASE Head(d) = g + 1 /\ Head(d) # Done /\ Closing(Tail(d), g + 1) /\ g + 1 <= Chunks
      BY <2>5, <3>1, <3>2, <3>4
    <3> QED BY <3>1, <3>3, <3>4
  <2>6. \/ /\ Counting(d, g) /\ g + Len(d) <= Chunks
           /\ channel = "open" /\ snd.loop # "over" => snd.off = g + Len(d)
           /\ snd.loop \in {"drain", "slice"} => snd.off < Chunks
        \/ Closing(d, g) /\ snd.loop = "over"
    BY <1>3, <1>4 DEF Streaming
  <2> QED BY <2>4, <2>5, <2>6
<1>7. ~(Head(d) # Done /\ g + 1 > Chunks)
  BY <1>1, <1>6
<1>8. /\ rcv' = [rcv EXCEPT !.chain = Append(q, Head(d)), !.got = IF Head(d) = Done THEN g ELSE g + 1]
      /\ channel' = channel
  <2>1. rcv.has
    BY <1>3 DEF Streaming
  <2> QED BY <1>4, <1>7, <2>1 DEF Receive
<1>9. /\ Append(q, Head(d)) \in Seq(Nat) /\ Len(Append(q, Head(d))) = l + 1
  BY <1>5, <1>6, AppendProperties
<1>10. /\ rcv' \in Receiver /\ rcv'.bound = rcv.bound /\ rcv'.has = rcv.has
       /\ rcv'.prompt = rcv.prompt /\ rcv'.task = rcv.task /\ rcv'.ready = rcv.ready
       /\ rcv'.chain = Append(q, Head(d)) /\ rcv'.sink = rcv.sink
       /\ rcv'.got = (IF Head(d) = Done THEN g ELSE g + 1) /\ rcv'.broken = rcv.broken
  <2> DEFINE a == Append(q, Head(d))
             h == IF Head(d) = Done THEN g ELSE g + 1
  <2>1. a \in Seq(Nat) /\ h \in Nat /\ rcv' = [rcv EXCEPT !.chain = a, !.got = h]
    BY <1>8, <1>9
  <2> HIDE DEF a, h
  <2>2. /\ rcv' \in Receiver /\ rcv'.bound = rcv.bound /\ rcv'.has = rcv.has
        /\ rcv'.prompt = rcv.prompt /\ rcv'.task = rcv.task /\ rcv'.ready = rcv.ready
        /\ rcv'.chain = a /\ rcv'.sink = rcv.sink /\ rcv'.got = h /\ rcv'.broken = rcv.broken
    BY <1>1, <2>1 DEF Receiver
  <2> QED BY <2>2 DEF a, h
<1>11. FileTypes'
  BY <1>1, <1>2, <1>4, <1>6, <1>8, <1>10 DEF FileTypes
<1>12. OfferedOnce'
  <2>1. OfferedOnce /\ toRcv' = toRcv /\ snd'.task = snd.task
    BY <1>1, <1>2
  <2> QED BY <1>10, <2>1 DEF OfferedOnce, Unasked, Offers
<1>13. \A k : Written(k) => Written(k)'
  BY <1>10 DEF Written
<1>14. /\ rcv'.bound /\ channel' # "none" /\ snd'.loop # "idle" /\ rcv'.has /\ received' = <<>>
  BY <1>2, <1>3, <1>8, <1>10 DEF Streaming
<1>15. CASE Head(d) = Done
  <2>1. g = Chunks /\ Tail(d) = <<>> /\ snd.loop = "over"
    BY <1>6, <1>15
  <2>2. (g - l) + Len(q) = Chunks
    BY <1>1, <1>5, <2>1
  <2>3. Closing(Append(q, Done), g - l)
    BY <1>5, <2>2, CountingGrows
  <2>4. Len(rcv'.chain) = l + 1 /\ Chunks + 1 - (l + 1) = g - l /\ (l + 1) - 1 <= Chunks
    BY <1>1, <1>5, <1>9, <1>10, <2>1
  <2>5. Closing(rcv'.chain, Chunks + 1 - Len(rcv'.chain))
    BY <1>10, <1>15, <2>3, <2>4
  <2>6. Written(g - l)'
    BY <1>5, <1>13
  <2>7. (Written(Chunks + 1 - Len(rcv.chain)))'
    BY <2>4, <2>6 DEF Written
  <2>8. data' = <<>> /\ rcv'.got = Chunks /\ snd'.loop = "over"
    BY <1>2, <1>4, <1>10, <1>15, <2>1
  <2>9. Ending'
    BY <1>14, <2>4, <2>5, <2>7, <2>8 DEF Ending
  <2> QED BY <1>11, <1>12, <2>9 DEF FileInv, Flow
<1>16. CASE Head(d) # Done
  <2>1. Head(d) = g + 1 /\ rcv'.got = g + 1 /\ Len(rcv'.chain) = l + 1
    BY <1>6, <1>9, <1>10, <1>16
  <2>2. (g - l) + Len(q) + 1 = g + 1
    BY <1>5
  <2>3. Counting(Append(q, (g - l) + Len(q) + 1), g - l)
    BY <1>5, CountingGrows
  <2>4. Counting(rcv'.chain, g - l)
    BY <1>10, <2>1, <2>2, <2>3
  <2>5. (g + 1) - (l + 1) = g - l /\ l + 1 <= g + 1
    BY <1>5
  <2>6. Len(rcv'.chain) <= rcv'.got /\ Counting(rcv'.chain, rcv'.got - Len(rcv'.chain))
    BY <2>1, <2>4, <2>5
  <2>7. (Written(rcv.got - Len(rcv.chain)))'
    <3>1. Written(g - l)'
      BY <1>5, <1>13
    <3>2. rcv'.got - Len(rcv'.chain) = g - l
      BY <2>1, <2>5
    <3> QED BY <3>1, <3>2 DEF Written
  <2>8. Len(data') = Len(d) - 1 /\ data' = Tail(d) /\ (g + 1) + (Len(d) - 1) = g + Len(d)
    <3>1. data' = Tail(d) /\ Len(Tail(d)) = Len(d) - 1 /\ Len(d) \in Nat
      BY <1>2, <1>4, <1>6
    <3> DEFINE n == Len(d)
    <3>2. n \in Nat
      BY <3>1
    <3> HIDE DEF n
    <3>3. (g + 1) + (n - 1) = g + n
      BY <3>2
    <3> QED BY <3>1, <3>3 DEF n
  <2>9. \/ /\ Counting(data', rcv'.got) /\ rcv'.got + Len(data') <= Chunks
           /\ channel' = "open" /\ snd'.loop # "over" => snd'.off = rcv'.got + Len(data')
           /\ snd'.loop \in {"drain", "slice"} => snd'.off < Chunks
        \/ Closing(data', rcv'.got) /\ snd'.loop = "over"
    BY <1>2, <1>6, <1>8, <1>16, <2>1, <2>8
  <2>10. Streaming'
    BY <1>14, <2>6, <2>7, <2>9 DEF Streaming
  <2> QED BY <1>11, <1>12, <2>10 DEF FileInv, Flow
<1> QED BY <1>15, <1>16

\* The write chain of the receiver, and a lost link, keep the invariant.
LEMMA ChainKeeps ==
  ASSUME FileInv, ChainStep \/ WriteFails
  PROVE  FileInv'
<1>1. FileTypes /\ OfferedOnce /\ Flow /\ snd \in Sender /\ rcv \in Receiver /\ Chunks \in Nat
  BY FilesAssumption DEF FileInv, FileTypes
<1>2. /\ rcv.chain # <<>> /\ UNCHANGED <<snd, toRcv, toSnd, data>>
  BY DEF ChainStep, WriteFails
<1>3. PICK q \in Seq(Nat), l \in Nat, w \in Seq(Nat), b \in BOOLEAN, g \in Nat :
        q = rcv.chain /\ l = Len(rcv.chain) /\ w = rcv.sink /\ b = rcv.broken /\ g = rcv.got
  BY <1>1 DEF Receiver
<1>4. l = Len(q) /\ q # <<>> /\ Head(q) \in Nat /\ Tail(q) \in Seq(Nat)
  BY <1>2, <1>3, HeadTailProperties
<1>5. Streaming \/ Ending
  BY <1>1, <1>2 DEF Flow, NotOpen, Over
<1>6. /\ rcv.bound /\ channel # "none" /\ rcv.has /\ received = <<>> /\ snd.loop # "idle"
  BY <1>5 DEF Streaming, Ending
<1>7. PICK k \in Nat :
        /\ Written(k)
        /\ k + l = g \/ k + l = Chunks + 1
        /\ \/ Streaming /\ Counting(q, k) /\ k + l = g
           \/ Ending /\ Closing(q, k) /\ k + l = Chunks + 1
  <2>1. CASE Streaming
    <3>1. g - l \in Nat /\ (g - l) + l = g
      BY <1>3, <2>1 DEF Streaming
    <3> QED BY <1>3, <2>1, <3>1 DEF Streaming
  <2>2. CASE Ending
    <3>1. (Chunks + 1) - l \in Nat /\ ((Chunks + 1) - l) + l = Chunks + 1
      BY <1>1, <1>3, <2>2 DEF Ending
    <3> QED BY <1>3, <2>2, <3>1 DEF Ending
  <2> QED BY <1>5, <2>1, <2>2
<1>8. ASSUME Head(q) # Done
      PROVE  /\ Head(q) = k + 1 /\ Len(Tail(q)) = l - 1 /\ l \in Nat \ {0}
             /\ \/ Streaming /\ Counting(Tail(q), k + 1) /\ k + l = g
                \/ Ending /\ Closing(Tail(q), k + 1) /\ k + l = Chunks + 1
  <2>1. CASE Streaming /\ Counting(q, k) /\ k + l = g
    <3>1. Head(q) = k + 1 /\ Counting(Tail(q), k + 1) /\ Len(Tail(q)) = Len(q) - 1 /\ Len(q) \in Nat \ {0}
      BY <1>4, <2>1, CountingShrinks
    <3> QED BY <1>4, <2>1, <3>1
  <2>2. CASE Ending /\ Closing(q, k) /\ k + l = Chunks + 1
    <3>1. Head(q) = k + 1 /\ Closing(Tail(q), k + 1) /\ Len(Tail(q)) = Len(q) - 1 /\ Len(q) \in Nat \ {0}
      BY <1>8, <2>2, ClosingShrinks
    <3> QED BY <1>4, <2>2, <3>1
  <2> QED BY <1>7, <2>1, <2>2
<1>9. ASSUME NEW v \in Seq(Nat), NEW bb \in BOOLEAN, NEW h \in BOOLEAN,
             rcv' = [rcv EXCEPT !.chain = Tail(q), !.sink = v, !.broken = bb, !.has = h]
      PROVE  /\ rcv' \in Receiver /\ rcv'.bound = rcv.bound /\ rcv'.has = h
             /\ rcv'.prompt = rcv.prompt /\ rcv'.task = rcv.task /\ rcv'.ready = rcv.ready
             /\ rcv'.chain = Tail(q) /\ rcv'.sink = v /\ rcv'.got = rcv.got /\ rcv'.broken = bb
  <2> DEFINE z == Tail(q)
  <2>1. z \in Seq(Nat) /\ rcv' = [rcv EXCEPT !.chain = z, !.sink = v, !.broken = bb, !.has = h]
    BY <1>4, <1>9
  <2> HIDE DEF z
  <2>2. /\ rcv' \in Receiver /\ rcv'.bound = rcv.bound /\ rcv'.has = h
        /\ rcv'.prompt = rcv.prompt /\ rcv'.task = rcv.task /\ rcv'.ready = rcv.ready
        /\ rcv'.chain = z /\ rcv'.sink = v /\ rcv'.got = rcv.got /\ rcv'.broken = bb
    BY <1>1, <2>1 DEF Receiver
  <2> QED BY <2>2 DEF z
<1>10. ASSUME NEW v \in Seq(Nat), NEW bb \in BOOLEAN, Head(q) # Done,
              rcv' = [rcv EXCEPT !.chain = Tail(q), !.sink = v, !.broken = bb, !.has = TRUE],
              UNCHANGED <<channel, received>>,
              \/ bb
              \/ ~bb /\ bb = b /\ v = Append(w, k + 1)
       PROVE  FileInv'
  <2>1. /\ rcv' \in Receiver /\ rcv'.bound = rcv.bound /\ rcv'.has
        /\ rcv'.prompt = rcv.prompt /\ rcv'.task = rcv.task /\ rcv'.ready = rcv.ready
        /\ rcv'.chain = Tail(q) /\ rcv'.sink = v /\ rcv'.got = g /\ rcv'.broken = bb
    BY <1>3, <1>9, <1>10
  <2>2. FileTypes'
    BY <1>1, <1>2, <1>10, <2>1 DEF FileTypes
  <2>3. OfferedOnce'
    BY <1>1, <1>2, <1>6, <2>1 DEF OfferedOnce, Unasked, Offers
  <2>4. Written(k + 1)'
    BY <1>3, <1>7, <1>10, <2>1, WrittenGrows
  <2>5. /\ Len(rcv'.chain) = l - 1 /\ l \in Nat \ {0}
        /\ \/ Streaming /\ Counting(Tail(q), k + 1) /\ k + l = g
           \/ Ending /\ Closing(Tail(q), k + 1) /\ k + l = Chunks + 1
    BY <1>8, <1>10, <2>1
  <2>6. CASE Streaming /\ Counting(Tail(q), k + 1) /\ k + l = g
    <3>1. g - (l - 1) = k + 1 /\ l - 1 <= g
      BY <2>5, <2>6
    <3>2. rcv'.got - Len(rcv'.chain) = k + 1 /\ Len(rcv'.chain) <= rcv'.got
      BY <2>1, <2>5, <3>1
    <3>3. (Written(rcv.got - Len(rcv.chain)))'
      BY <2>4, <3>2 DEF Written
    <3>4. Counting(rcv'.chain, rcv'.got - Len(rcv'.chain))
      BY <2>1, <2>6, <3>2
    <3>5. /\ rcv'.bound /\ channel' # "none" /\ snd'.loop # "idle" /\ rcv'.has /\ received' = <<>>
      BY <1>2, <1>6, <1>10, <2>1
    <3>6. \/ /\ Counting(data', rcv'.got) /\ rcv'.got + Len(data') <= Chunks
             /\ channel' = "open" /\ snd'.loop # "over" => snd'.off = rcv'.got + Len(data')
             /\ snd'.loop \in {"drain", "slice"} => snd'.off < Chunks
          \/ Closing(data', rcv'.got) /\ snd'.loop = "over"
      BY <1>2, <1>3, <1>10, <2>1, <2>6 DEF Streaming
    <3>7. Streaming'
      BY <3>2, <3>3, <3>4, <3>5, <3>6 DEF Streaming
    <3> QED BY <2>2, <2>3, <3>7 DEF FileInv, Flow
  <2>7. CASE Ending /\ Closing(Tail(q), k + 1) /\ k + l = Chunks + 1
    <3>1. Chunks + 1 - (l - 1) = k + 1 /\ (l - 1) - 1 <= Chunks
      BY <1>1, <2>5, <2>7
    <3>2. Chunks + 1 - Len(rcv'.chain) = k + 1 /\ Len(rcv'.chain) - 1 <= Chunks
      BY <2>5, <3>1
    <3>3. (Written(Chunks + 1 - Len(rcv.chain)))'
      BY <2>4, <3>2 DEF Written
    <3>4. Closing(rcv'.chain, Chunks + 1 - Len(rcv'.chain))
      BY <2>1, <2>7, <3>2
    <3>5. /\ rcv'.bound /\ channel' # "none" /\ snd'.loop = "over" /\ rcv'.has /\ received' = <<>>
          /\ data' = <<>> /\ rcv'.got = Chunks
      BY <1>2, <1>3, <1>6, <1>10, <2>1, <2>7 DEF Ending
    <3>6. Ending'
      BY <3>2, <3>3, <3>4, <3>5 DEF Ending
    <3> QED BY <2>2, <2>3, <3>6 DEF FileInv, Flow
  <2> QED BY <2>5, <2>6, <2>7
<1>11. [rcv EXCEPT !.chain = Tail(q), !.sink = w, !.broken = b, !.has = TRUE] = [rcv EXCEPT !.chain = Tail(q)]
  BY <1>1, <1>3, <1>6 DEF Receiver
<1>12. ASSUME WriteFails PROVE FileInv'
  <2>1. /\ Head(q) # Done /\ rcv' = [rcv EXCEPT !.chain = Tail(q), !.broken = TRUE]
        /\ UNCHANGED <<channel, received>>
    BY <1>3, <1>12 DEF WriteFails
  <2>2. [rcv EXCEPT !.chain = Tail(q), !.broken = TRUE]
          = [rcv EXCEPT !.chain = Tail(q), !.sink = w, !.broken = TRUE, !.has = TRUE]
    BY <1>1, <1>3, <1>6 DEF Receiver
  <2> QED BY <1>10, <2>1, <2>2
<1>13. ASSUME ChainStep, Head(q) # Done PROVE FileInv'
  <2>1. /\ rcv' = [rcv EXCEPT !.chain = Tail(q), !.sink = IF b THEN w ELSE Append(w, Head(q)), !.has = rcv.has]
        /\ UNCHANGED <<channel, received>>
    BY <1>3, <1>13 DEF ChainStep, SinkWrite
  <2> DEFINE v == IF b THEN w ELSE Append(w, Head(q))
  <2>2. v \in Seq(Nat) /\ (b \/ v = Append(w, k + 1))
    BY <1>4, <1>8, <1>13, AppendProperties
  <2>3. rcv' = [rcv EXCEPT !.chain = Tail(q), !.sink = v, !.has = rcv.has]
    BY <2>1
  <2> HIDE DEF v
  <2>4. [rcv EXCEPT !.chain = Tail(q), !.sink = v, !.has = rcv.has]
          = [rcv EXCEPT !.chain = Tail(q), !.sink = v, !.broken = b, !.has = TRUE]
    BY <1>1, <1>3, <1>6 DEF Receiver
  <2> QED BY <1>10, <1>13, <2>1, <2>2, <2>3, <2>4
<1>14. ASSUME ChainStep, Head(q) = Done PROVE FileInv'
  <2>1. /\ rcv' = [rcv EXCEPT !.chain = Tail(q), !.sink = w, !.has = FALSE]
        /\ received' = (IF b THEN received ELSE Append(received, w)) /\ channel' = "closed"
    BY <1>3, <1>14 DEF ChainStep, OnComplete
  <2>2. [rcv EXCEPT !.chain = Tail(q), !.sink = w, !.has = FALSE]
          = [rcv EXCEPT !.chain = Tail(q), !.sink = w, !.broken = b, !.has = FALSE]
    BY <1>1, <1>3 DEF Receiver
  <2>3. /\ rcv' \in Receiver /\ rcv'.bound = rcv.bound /\ rcv'.has = FALSE
        /\ rcv'.prompt = rcv.prompt /\ rcv'.task = rcv.task /\ rcv'.ready = rcv.ready
        /\ rcv'.chain = Tail(q)
    BY <1>9, <2>1, <2>2
  <2>4. FileTypes'
    BY <1>1, <1>2, <2>1, <2>3 DEF FileTypes
  <2>5. OfferedOnce'
    BY <1>1, <1>2, <1>6, <2>3 DEF OfferedOnce, Unasked, Offers
  <2>6. Ending /\ Tail(q) = <<>> /\ k = Chunks
    <3>1. CASE Streaming /\ Counting(q, k) /\ k + l = g
      <4>1. Head(q) = k + 1
        BY <1>4, <3>1, CountingShrinks
      <4> QED BY <1>14, <4>1 DEF Done
    <3>2. CASE Ending /\ Closing(q, k) /\ k + l = Chunks + 1
      <4>1. k + 1 # Done
        BY DEF Done
      <4> QED BY <1>14, <3>2, <4>1, ClosingShrinks
    <3> QED BY <1>7, <3>1, <3>2
  <2>7. received' = <<>> \/ received' = <<[c \in 1 .. Chunks |-> c]>>
    <3>1. CASE b
      BY <1>6, <2>1, <3>1
    <3>2. CASE ~b
      <4>1. received' = <<w>>
        BY <1>6, <2>1, <3>2
      <4>2. Len(w) = Chunks /\ Counting(w, 0)
        BY <1>3, <1>7, <2>6, <3>2 DEF Written
      <4>3. \A c \in 1 .. Chunks : w[c] = c
        BY <1>1, <4>2 DEF Counting
      <4>4. w = [c \in 1 .. Chunks |-> c]
        <5>1. w = [c \in 1 .. Len(w) |-> w[c]]
          OBVIOUS
        <5> QED BY <4>2, <4>3, <5>1
      <4> QED BY <4>1, <4>4
    <3> QED BY <3>1, <3>2
  <2>8. Over'
    BY <1>2, <1>6, <2>1, <2>3, <2>6, <2>7 DEF Over, Ending
  <2> QED BY <2>4, <2>5, <2>8 DEF FileInv, Flow
<1> QED BY <1>12, <1>13, <1>14

\* A lost link keeps the invariant: what was in flight is gone and nothing follows.
LEMMA LossKeeps ==
  ASSUME FileInv, LinkLost
  PROVE  FileInv'
<1>1. FileTypes /\ OfferedOnce /\ Flow /\ Chunks \in Nat
  BY FilesAssumption DEF FileInv
<1>2. /\ channel = "open" /\ channel' = "closed" /\ data' = <<>>
      /\ UNCHANGED <<snd, rcv, toRcv, toSnd, received>>
  BY DEF LinkLost
<1>3. FileTypes' /\ OfferedOnce'
  BY <1>1, <1>2 DEF FileTypes, OfferedOnce, Unasked, Offers
<1>4. \A k : Written(k) <=> Written(k)'
  BY <1>2 DEF Written
<1>5. CASE Streaming
  <2>1. rcv.got \in Nat /\ data \in Seq(Nat) /\ Len(data) \in Nat
    BY <1>1 DEF FileTypes, Receiver
  <2>2. rcv.got <= Chunks /\ (snd.loop \in {"drain", "slice"} => snd.off < Chunks)
    <3>1. CASE rcv.got + Len(data) <= Chunks /\ (snd.loop \in {"drain", "slice"} => snd.off < Chunks)
      BY <1>1, <2>1, <3>1
    <3>2. CASE Closing(data, rcv.got) /\ snd.loop = "over"
      <4>1. Len(data) # 0
        BY <2>1, <3>2, EmptySeq DEF Closing
      <4> QED BY <1>1, <2>1, <3>2, <4>1 DEF Closing
    <3> QED BY <1>5, <3>1, <3>2 DEF Streaming
  <2>3. Counting(<<>>, rcv.got) /\ rcv.got + Len(<<>>) = rcv.got
    BY <2>1 DEF Counting
  <2>4. Streaming'
    BY <1>2, <1>4, <1>5, <2>2, <2>3 DEF Streaming
  <2> QED BY <1>3, <2>4 DEF FileInv, Flow
<1>6. CASE Ending
  <2>1. Ending'
    BY <1>2, <1>4, <1>6 DEF Ending
  <2> QED BY <1>3, <2>1 DEF FileInv, Flow
<1>7. CASE Over
  BY <1>2, <1>3, <1>7 DEF FileInv, Flow, Over
<1> QED BY <1>1, <1>2, <1>5, <1>6, <1>7 DEF Flow, NotOpen

\* The invariant holds in every state of a transfer.
LEMMA FileInvariant == FileSpec => []FileInv
<1>1. ASSUME FileInit PROVE FileInv
  <2>1. /\ snd = NewSender /\ rcv = NewReceiver /\ toRcv = <<>> /\ toSnd = <<>> /\ data = <<>>
        /\ channel = "none" /\ received = <<>>
    BY <1>1 DEF FileInit
  <2>2. snd \in Sender /\ rcv \in Receiver
    BY <2>1, FilesAssumption DEF NewSender, NewReceiver, Sender, Receiver
  <2>3. FileTypes /\ OfferedOnce
    BY <2>1, <2>2 DEF FileTypes, OfferedOnce, Unasked, Offers, NewSender, NewReceiver
  <2>4. NotOpen
    BY <2>1 DEF NotOpen, NewSender, NewReceiver
  <2> QED BY <2>3, <2>4 DEF FileInv, Flow
<1>2. ASSUME FileInv, [FileNext]_fileVars PROVE FileInv'
  <2>1. CASE UNCHANGED fileVars
    <3>1. FileTypes' /\ OfferedOnce'
      BY <1>2, <2>1 DEF fileVars, FileInv, FileTypes, OfferedOnce, Unasked, Offers
    <3>2. Flow'
      BY <1>2, <2>1, FlowKept DEF fileVars, FileInv
    <3> QED BY <3>1, <3>2 DEF FileInv
  <2>2. CASE FileNext
    BY <1>2, <2>2, SignalStepKeeps, SenderLoopKeeps, ReceiveKeeps, ChainKeeps, LossKeeps DEF FileNext
  <2> QED BY <1>2, <2>1, <2>2
<1> QED BY <1>1, <1>2, PTL DEF FileSpec

\* A file handed to the receiving user is the whole file, in order, and it is handed
\* over once, for a file of any size and any marks of the back-pressure, whatever
\* signals, reads, writes and links fail.
THEOREM FileArrivesWhole == FileSpec => []ReceivedWhole
<1>1. ASSUME FileInv PROVE ReceivedWhole
  <2> DEFINE whole == [c \in 1 .. Chunks |-> c]
  <2>1. received = <<>> \/ received = <<whole>>
    BY <1>1 DEF FileInv, Flow, NotOpen, Streaming, Ending, Over
  <2> HIDE DEF whole
  <2>2. Len(received) <= 1 /\ \A i \in 1 .. Len(received) : received[i] = whole
    <3>1. Len(<<>>) = 0 /\ Len(<<whole>>) = 1 /\ <<whole>>[1] = whole
      OBVIOUS
    <3>2. CASE received = <<>>
      BY <3>1, <3>2
    <3>3. CASE received = <<whole>>
      <4>1. Len(received) = 1 /\ received[1] = whole
        BY <3>1, <3>3
      <4>2. \A i \in 1 .. 1 : i = 1
        OBVIOUS
      <4> QED BY <4>1, <4>2
    <3> QED BY <2>1, <3>2, <3>3
  <2> QED BY <2>2 DEF ReceivedWhole, whole
<1> QED BY <1>1, FileInvariant, PTL
=============================================================================
