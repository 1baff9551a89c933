-------------------------- MODULE TransportProofs --------------------------
(***************************************************************************)
(* Proofs about the publish path, for every set of envelopes and every     *)
(* value of the limits: the types and bounds of its state, that the pacer  *)
(* never stalls, and that no published envelope is silently lost.          *)
(***************************************************************************)
EXTENDS Transport, SequenceTheorems, TLAPS

\* Frames the client sends for the envelopes of S, and frames it gets about them.
UpFrame(S) == {Publish(m) : m \in S} \cup {SubscribeFrame}
DownFrame(S) == {Receipt(m) : m \in S} \cup {RateLimit}

\* Everything under way is about an envelope the application published, and a
\* receipt is under way only for an envelope that is on the bus.
FlowTypes ==
    /\ socket \in SocketState
    /\ sent \subseteq Envelope /\ bus \subseteq sent /\ twice \subseteq bus
    /\ queue \in Seq(sent) /\ unconfirmed \in Seq(sent)
    /\ Len(unconfirmed) <= MaxUnconfirmed
    /\ up \in Seq(UpFrame(sent)) /\ down \in Seq(DownFrame(bus))
    /\ tokens \in 0..Burst

\* The pacer: its flags, and its pace within the limits.
PaceTypes ==
    /\ timer \in BOOLEAN /\ retry \in BOOLEAN
    /\ gap \in GapFloor..GapCap /\ clean \in 0..(CleanStreak - 1)

TransportInv == FlowTypes /\ PaceTypes /\ NeverSilentlyLost /\ NeverStalled

-----------------------------------------------------------------------------
(* Sequences.                                                              *)

\* A sequence over S is one over every superset of S (frames and envelopes stay well
\* typed while sent and bus grow).
LEMMA SeqGrows ==
  ASSUME NEW S, NEW T, S \subseteq T, NEW s \in Seq(S)
  PROVE  s \in Seq(T)
BY SeqMonotonic

\* Map.delete (onDelivered): what remains was there, and everything but the
\* deleted key remains.
LEMMA WithoutKeeps ==
  ASSUME NEW S, NEW s \in Seq(S), NEW m
  PROVE  /\ Without(s, m) \in Seq(S)
         /\ Len(Without(s, m)) <= Len(s)
         /\ \A x : x # m /\ In(x, s) => In(x, Without(s, m))
<1>1. CASE ~In(m, s)
  BY <1>1 DEF Without
<1>2. CASE In(m, s)
  <2> DEFINE i == CHOOSE j \in DOMAIN s : s[j] = m
             a == SubSeq(s, 1, i - 1)
             b == SubSeq(s, i + 1, Len(s))
  <2>1. i \in 1..Len(s) /\ s[i] = m /\ Len(s) \in Nat
    BY <1>2 DEF In
  <2>2. Without(s, m) = a \o b
    BY <1>2 DEF Without, RemoveIndex
  <2> HIDE DEF i
  <2>3. /\ a \in Seq(S) /\ Len(a) = i - 1 /\ b \in Seq(S) /\ Len(b) = Len(s) - i
        /\ \A j \in 1..(i - 1) : a[j] = s[j]
        /\ \A j \in 1..(Len(s) - i) : b[j] = s[i + j]
    BY <2>1
  <2> HIDE DEF a, b
  <2>4. /\ a \o b \in Seq(S) /\ Len(a \o b) = Len(s) - 1
        /\ \A j \in 1..(i - 1) : (a \o b)[j] = s[j]
        /\ \A j \in i..(Len(s) - 1) : (a \o b)[j] = s[j + 1]
    <3>1. /\ a \o b \in Seq(S) /\ Len(a \o b) = Len(a) + Len(b)
          /\ \A j \in 1..(Len(a) + Len(b)) :
               (a \o b)[j] = IF j <= Len(a) THEN a[j] ELSE b[j - Len(a)]
      BY <2>3, ConcatProperties
    <3>2. \A j \in i..(Len(s) - 1) : (a \o b)[j] = b[j - (i - 1)] /\ j - (i - 1) \in 1..(Len(s) - i)
      BY <2>1, <2>3, <3>1
    <3>3. \A j \in i..(Len(s) - 1) : (a \o b)[j] = s[i + (j - (i - 1))]
      BY <2>1, <2>3, <3>2
    <3>4. \A j \in i..(Len(s) - 1) : i + (j - (i - 1)) = j + 1
      BY <2>1
    <3> QED BY <2>1, <2>3, <3>1, <3>3, <3>4
  <2>5. ASSUME NEW x, x # m, In(x, s) PROVE In(x, a \o b)
    <3>1. PICK k \in 1..Len(s) : s[k] = x
      BY <2>5 DEF In
    <3>2. CASE k < i
      <4>1. (a \o b)[k] = x /\ k \in 1..Len(a \o b)
        BY <2>1, <2>4, <3>1, <3>2
      <4>2. k \in DOMAIN (a \o b)
        BY <2>4, <4>1
      <4> QED BY <4>1, <4>2 DEF In
    <3>3. CASE k > i
      <4> DEFINE j == k - 1
      <4>3. j \in i..(Len(s) - 1) /\ j + 1 = k /\ j \in 1..(Len(s) - 1)
        BY <2>1, <3>1, <3>3
      <4> HIDE DEF j
      <4>1. (a \o b)[j] = x /\ j \in 1..Len(a \o b)
        BY <2>4, <3>1, <4>3
      <4>2. j \in DOMAIN (a \o b)
        BY <2>4, <4>1
      <4> QED BY <4>1, <4>2 DEF In
    <3>4. k # i
      BY <2>1, <2>5, <3>1
    <3> QED BY <2>1, <3>1, <3>2, <3>3, <3>4
  <2> QED BY <2>1, <2>2, <2>4, <2>5
<1> QED BY <1>1, <1>2

\* Appending keeps every element of a queue and adds one.
LEMMA InAppend ==
  ASSUME NEW S, NEW s \in Seq(S), NEW e \in S
  PROVE  /\ Append(s, e) \in Seq(S) /\ In(e, Append(s, e))
         /\ \A x : In(x, s) => In(x, Append(s, e))
BY DEF In

\* Dropping the head of a queue loses no other element.
LEMMA InTail ==
  ASSUME NEW S, NEW s \in Seq(S), s # <<>>
  PROVE  /\ Head(s) \in S /\ Tail(s) \in Seq(S) /\ In(Head(s), s)
         /\ \A x : In(x, s) => x = Head(s) \/ In(x, Tail(s))
<1>1. /\ Head(s) \in S /\ Tail(s) \in Seq(S) /\ Len(s) \in Nat \ {0} /\ Head(s) = s[1]
      /\ Len(Tail(s)) = Len(s) - 1 /\ \A i \in 1..(Len(s) - 1) : Tail(s)[i] = s[i + 1]
  BY HeadTailProperties
<1>2. ASSUME NEW x, In(x, s), x # Head(s) PROVE In(x, Tail(s))
  <2>1. PICK i \in 1..Len(s) : s[i] = x
    BY <1>2 DEF In
  <2> DEFINE j == i - 1
  <2>2. j \in 1..(Len(s) - 1) /\ j + 1 = i
    BY <1>1, <1>2, <2>1
  <2> HIDE DEF j
  <2>3. Tail(s)[j] = x
    BY <1>1, <2>1, <2>2
  <2>4. j \in DOMAIN Tail(s)
    BY <1>1, <2>2
  <2> QED BY <2>3, <2>4 DEF In
<1> QED BY <1>1, <1>2 DEF In

\* Concatenating two queues keeps the elements of both.
LEMMA InConcat ==
  ASSUME NEW S, NEW s \in Seq(S), NEW t \in Seq(S)
  PROVE  /\ s \o t \in Seq(S)
         /\ \A x : In(x, s) \/ In(x, t) => In(x, s \o t)
<1>1. ASSUME NEW x, In(x, s) PROVE In(x, s \o t)
  BY <1>1 DEF In
<1>2. ASSUME NEW x, In(x, t) PROVE In(x, s \o t)
  <2>1. PICK i \in 1..Len(t) : t[i] = x
    BY <1>2 DEF In
  <2> DEFINE j == i + Len(s)
  <2>2. j \in 1..(Len(s) + Len(t)) /\ ~(j <= Len(s)) /\ j - Len(s) = i
    BY <2>1
  <2> HIDE DEF j
  <2>3. (s \o t)[j] = x
    BY <2>1, <2>2, ConcatProperties
  <2> QED BY <2>2, <2>3 DEF In
<1> QED BY <1>1, <1>2

-----------------------------------------------------------------------------
(* The steps of the transport.                                             *)

\* What one drain does with the queue q and the unconfirmed map u: nothing leaves
\* them but by overflow, which is recorded, and the pacer is armed while there is
\* something left to send on a socket that is not closed.
LEMMA DrainKeeps ==
  ASSUME NEW S, NEW q \in Seq(S), NEW u \in Seq(S), up \in Seq(UpFrame(S)),
         Len(u) <= MaxUnconfirmed, drainPublishQueue(q, u)
  PROVE  /\ queue' \in Seq(S) /\ unconfirmed' \in Seq(S) /\ up' \in Seq(UpFrame(S))
         /\ Len(unconfirmed') <= MaxUnconfirmed
         /\ timer' \in BOOLEAN
         /\ queue' # <<>> /\ socket # "closed" => timer'
         /\ forgotten \subseteq forgotten'
         /\ \A x : In(x, q) \/ In(x, u) =>
                   In(x, queue') \/ In(x, unconfirmed') \/ x \in forgotten'
<1>1. CASE q = <<>> \/ socket = "closed"
  BY <1>1 DEF drainPublishQueue
<1>2. CASE q # <<>> /\ socket # "closed"
  <2> DEFINE all == IF In(Head(q), u) THEN u ELSE Append(u, Head(q))
             over == Len(all) > MaxUnconfirmed
  <2>1. /\ queue' = Tail(q) /\ timer' = TRUE /\ up' = Append(up, Publish(Head(q)))
        /\ unconfirmed' = (IF over THEN Tail(all) ELSE all)
        /\ forgotten' = (IF over THEN forgotten \cup {Head(all)} ELSE forgotten)
    BY <1>2 DEF drainPublishQueue
  <2>2. /\ Head(q) \in S /\ Tail(q) \in Seq(S)
        /\ \A x : In(x, q) => x = Head(q) \/ In(x, Tail(q))
    BY <1>2, InTail
  <2>3. /\ all \in Seq(S) /\ Len(all) <= MaxUnconfirmed + 1 /\ In(Head(q), all)
        /\ \A x : In(x, u) => In(x, all)
    BY <2>2, InAppend, TransportAssumption
  <2> HIDE DEF all
  <2>4. over => all # <<>> /\ Len(Tail(all)) = Len(all) - 1
    BY <2>3, TransportAssumption
  <2>5. over => /\ Tail(all) \in Seq(S)
                /\ \A x : In(x, all) => x = Head(all) \/ In(x, Tail(all))
    BY <2>3, <2>4, InTail
  <2>6. up' \in Seq(UpFrame(S))
    BY <2>1, <2>2 DEF UpFrame
  <2>7. unconfirmed' \in Seq(S) /\ Len(unconfirmed') <= MaxUnconfirmed
    BY <2>1, <2>3, <2>4, <2>5, TransportAssumption
  <2>8. \A x : In(x, all) => In(x, unconfirmed') \/ x \in forgotten'
    BY <2>1, <2>5
  <2> QED BY <2>1, <2>2, <2>3, <2>6, <2>7, <2>8
<1> QED BY <1>1, <1>2

\* The pace stays between its floor and its cap (onRateLimited, onDelivered).
LEMMA PaceBounded ==
  ASSUME NEW g \in GapFloor..GapCap
  PROVE  Slower(g) \in GapFloor..GapCap /\ Faster(g) \in GapFloor..GapCap
BY TransportAssumption DEF Slower, Faster

\* One step of the transport preserves TransportInv.
LEMMA TransportStepKeeps ==
  ASSUME TransportInv, [Next]_vars
  PROVE  TransportInv'
<1> USE DEF TransportInv
<1>1. ASSUME NEW m \in Envelope, publish(m) PROVE TransportInv'
  <2> DEFINE S == sent \cup {m}
             q == Append(queue, m)
  <2>1. /\ sent' = S /\ S \subseteq Envelope
        /\ socket' = socket /\ retry' = retry /\ gap' = gap /\ clean' = clean
        /\ down' = down /\ tokens' = tokens /\ bus' = bus /\ twice' = twice
    BY <1>1 DEF publish, FlowTypes, onBus
  <2>2. /\ queue \in Seq(S) /\ unconfirmed \in Seq(S) /\ q \in Seq(S) /\ In(m, q)
        /\ \A x : In(x, queue) => In(x, q)
    BY SeqGrows, InAppend DEF FlowTypes
  <2>3. up \in Seq(UpFrame(S))
    <3>1. UpFrame(sent) \subseteq UpFrame(S)
      BY DEF UpFrame
    <3> QED BY <3>1, SeqGrows DEF FlowTypes
  <2>4. Len(unconfirmed) <= MaxUnconfirmed
    BY DEF FlowTypes
  <2>5. /\ queue' \in Seq(S) /\ unconfirmed' \in Seq(S) /\ up' \in Seq(UpFrame(S))
        /\ Len(unconfirmed') <= MaxUnconfirmed /\ timer' \in BOOLEAN
        /\ queue' # <<>> /\ socket # "closed" => timer'
        /\ forgotten \subseteq forgotten'
        /\ \A x : In(x, q) \/ In(x, unconfirmed) =>
                  In(x, queue') \/ In(x, unconfirmed') \/ x \in forgotten'
    <3>1. CASE timer
      BY <1>1, <2>2, <2>3, <2>4, <3>1 DEF publish, PaceTypes
    <3>2. CASE ~timer
      <4>1. drainPublishQueue(q, unconfirmed)
        BY <1>1, <3>2 DEF publish
      <4> HIDE DEF q
      <4> QED BY <2>2, <2>3, <2>4, <4>1, DrainKeeps
    <3> QED BY <3>1, <3>2
  <2> HIDE DEF q
  <2>6. FlowTypes'
    BY <2>1, <2>5 DEF FlowTypes
  <2>7. NeverSilentlyLost'
    BY <2>1, <2>2, <2>5 DEF NeverSilentlyLost
  <2> QED BY <2>1, <2>5, <2>6, <2>7 DEF PaceTypes, NeverStalled
<1>2. ASSUME NEW q \in Seq(sent), NEW u \in Seq(sent), Len(u) <= MaxUnconfirmed,
             \A x : In(x, queue) \/ In(x, unconfirmed) => In(x, q) \/ In(x, u),
             drainPublishQueue(q, u), UNCHANGED <<socket, down, tokens, onBus, sent>>,
             PaceTypes'
      PROVE  TransportInv'
  <2>1. /\ queue' \in Seq(sent) /\ unconfirmed' \in Seq(sent) /\ up' \in Seq(UpFrame(sent))
        /\ Len(unconfirmed') <= MaxUnconfirmed
        /\ queue' # <<>> /\ socket # "closed" => timer'
        /\ forgotten \subseteq forgotten'
        /\ \A x : In(x, q) \/ In(x, u) =>
                  In(x, queue') \/ In(x, unconfirmed') \/ x \in forgotten'
    BY <1>2, DrainKeeps DEF FlowTypes
  <2>2. FlowTypes'
    BY <1>2, <2>1 DEF FlowTypes, onBus
  <2>3. NeverSilentlyLost'
    BY <1>2, <2>1 DEF NeverSilentlyLost, onBus
  <2> QED BY <1>2, <2>1, <2>2, <2>3 DEF NeverStalled
<1>3. ASSUME NEW q, NEW u, drainPublishQueue(q, u) PROVE timer' \in BOOLEAN
  BY <1>3 DEF drainPublishQueue
<1>4. CASE PublishTimer
  <2>1. PaceTypes'
    BY <1>3, <1>4 DEF PublishTimer, PaceTypes
  <2> QED BY <1>2, <1>4, <2>1 DEF PublishTimer, FlowTypes, onBus
<1>5. CASE subscribe
  <2>1. Append(up, SubscribeFrame) \in Seq(UpFrame(sent))
    BY DEF FlowTypes, UpFrame
  <2> QED BY <1>5, <2>1 DEF subscribe, FlowTypes, PaceTypes, NeverSilentlyLost, NeverStalled,
             client, onBus
<1>6. CASE onRateLimited
  <2>1. PaceTypes'
    BY <1>6, PaceBounded, TransportAssumption DEF onRateLimited, PaceTypes
  <2>2. down' \in Seq(DownFrame(bus))
    BY <1>6 DEF onRateLimited, Arrives, FlowTypes
  <2> QED BY <1>6, <2>1, <2>2 DEF onRateLimited, FlowTypes, NeverSilentlyLost, NeverStalled, onBus
<1>7. CASE RetryTimer
  <2> DEFINE q == unconfirmed \o queue
  <2>1. q \in Seq(sent) /\ \A x : In(x, queue) \/ In(x, unconfirmed) => In(x, q)
    BY InConcat DEF FlowTypes
  <2>2. <<>> \in Seq(sent) /\ Len(<<>>) <= MaxUnconfirmed
    BY TransportAssumption
  <2>3. CASE timer
    <3>1. queue' = q /\ unconfirmed' = <<>> /\ timer' = timer /\ up' = up
          /\ forgotten' = forgotten
      BY <1>7, <2>3 DEF RetryTimer
    <3> HIDE DEF q
    <3>2. FlowTypes'
      BY <1>7, <2>1, <2>2, <3>1 DEF RetryTimer, FlowTypes, onBus
    <3>3. NeverSilentlyLost'
      BY <1>7, <2>1, <3>1 DEF RetryTimer, NeverSilentlyLost, onBus
    <3> QED BY <1>7, <2>3, <3>1, <3>2, <3>3 DEF RetryTimer, PaceTypes, NeverStalled
  <2>4. CASE ~timer
    <3>1. drainPublishQueue(q, <<>>)
      BY <1>7, <2>4 DEF RetryTimer
    <3> HIDE DEF q
    <3>2. PaceTypes'
      BY <1>3, <1>7, <3>1 DEF RetryTimer, PaceTypes
    <3> QED BY <1>2, <1>7, <2>1, <2>2, <3>1, <3>2 DEF RetryTimer
  <2> QED BY <2>3, <2>4
<1>8. ASSUME NEW m \in Envelope, onDelivered(m) PROVE TransportInv'
  <2>1. m \in bus
    <3>1. down # <<>> /\ Head(down) = Receipt(m)
      BY <1>8 DEF onDelivered, Arrives
    <3>2. Head(down) \in DownFrame(bus)
      BY <3>1 DEF FlowTypes
    <3> QED BY <3>1, <3>2 DEF DownFrame, Receipt, RateLimit
  <2>2. /\ unconfirmed' = Without(unconfirmed, m) /\ down' = Tail(down) /\ down # <<>>
        /\ UNCHANGED <<socket, queue, timer, retry, up, forgotten, tokens, bus, twice, sent>>
    BY <1>8 DEF onDelivered, Arrives, onBus
  <2>3. /\ Without(unconfirmed, m) \in Seq(sent)
        /\ Len(Without(unconfirmed, m)) <= Len(unconfirmed)
        /\ \A x : x # m /\ In(x, unconfirmed) => In(x, Without(unconfirmed, m))
    BY WithoutKeeps DEF FlowTypes
  <2>4. FlowTypes'
    <3>1. down' \in Seq(DownFrame(bus))
      BY <2>2 DEF FlowTypes
    <3>2. Len(unconfirmed') <= MaxUnconfirmed
      BY <2>2, <2>3, TransportAssumption DEF FlowTypes
    <3> QED BY <2>2, <2>3, <3>1, <3>2 DEF FlowTypes
  <2>5. PaceTypes'
    BY <1>8, PaceBounded, TransportAssumption DEF onDelivered, PaceTypes
  <2>6. NeverSilentlyLost'
    BY <2>1, <2>2, <2>3 DEF NeverSilentlyLost
  <2> QED BY <2>2, <2>4, <2>5, <2>6 DEF NeverStalled
<1>9. CASE Open
  BY <1>9 DEF Open, FlowTypes, PaceTypes, NeverSilentlyLost, NeverStalled, client, onBus,
     SocketState
<1>10. CASE GatewayPublish
  <2>1. /\ up # <<>> /\ up' = Tail(up) /\ Head(up).kind = "publish"
        /\ UNCHANGED <<socket, queue, unconfirmed, timer, retry, gap, clean, forgotten, sent>>
    BY <1>10 DEF GatewayPublish, client
  <2>2. up' \in Seq(UpFrame(sent)) /\ Head(up) \in UpFrame(sent)
    BY <2>1 DEF FlowTypes
  <2>3. Head(up).m \in sent
    BY <2>1, <2>2 DEF UpFrame, Publish, SubscribeFrame
  <2>4. /\ tokens' \in 0..Burst /\ bus \subseteq bus' /\ bus' \subseteq sent
        /\ twice' \subseteq bus' /\ down' \in Seq(DownFrame(bus'))
    <3>1. CASE tokens > 0
      <4> DEFINE b == bus \cup {Head(up).m}
      <4>1. bus' = b /\ tokens' = tokens - 1 /\ twice' = twice \cup (bus \cap {Head(up).m})
            /\ down' = Append(down, Receipt(Head(up).m))
        BY <1>10, <3>1 DEF GatewayPublish
      <4>2. DownFrame(bus) \subseteq DownFrame(b) /\ Receipt(Head(up).m) \in DownFrame(b)
        BY DEF DownFrame
      <4>3. down \in Seq(DownFrame(b))
        BY <4>2, SeqGrows DEF FlowTypes
      <4>4. down' \in Seq(DownFrame(b))
        BY <4>1, <4>2, <4>3, AppendProperties
      <4> QED BY <2>3, <3>1, <4>1, <4>4, TransportAssumption DEF FlowTypes
    <3>2. CASE ~(tokens > 0)
      <4>1. tokens' = tokens /\ bus' = bus /\ twice' = twice /\ down' = Append(down, RateLimit)
        BY <1>10, <3>2 DEF GatewayPublish, onBus
      <4>2. RateLimit \in DownFrame(bus)
        BY DEF DownFrame
      <4> QED BY <4>1, <4>2, AppendProperties DEF FlowTypes
    <3> QED BY <3>1, <3>2
  <2>5. FlowTypes'
    BY <2>1, <2>2, <2>4 DEF FlowTypes
  <2> QED BY <2>1, <2>4, <2>5 DEF PaceTypes, NeverSilentlyLost, NeverStalled
<1>11. CASE GatewaySubscribe
  <2>1. RateLimit \in DownFrame(bus)
    BY DEF DownFrame
  <2>3. up' \in Seq(UpFrame(sent))
    BY <1>11 DEF GatewaySubscribe, FlowTypes
  <2>4. down \in Seq(DownFrame(bus)) /\ Append(down, RateLimit) \in Seq(DownFrame(bus))
    BY <2>1, AppendProperties DEF FlowTypes
  <2>5. down' = down \/ down' = Append(down, RateLimit)
    BY <1>11 DEF GatewaySubscribe
  <2>2. up' \in Seq(UpFrame(sent)) /\ down' \in Seq(DownFrame(bus))
    BY <2>3, <2>4, <2>5
  <2> QED BY <1>11, <2>2 DEF GatewaySubscribe, FlowTypes, PaceTypes, NeverSilentlyLost,
             NeverStalled, client, onBus
<1>12. CASE Refill
  BY <1>12, TransportAssumption DEF Refill, FlowTypes, PaceTypes, NeverSilentlyLost, NeverStalled,
     client, onBus
<1>13. CASE Drop
  BY <1>13 DEF Drop, FlowTypes, PaceTypes, NeverSilentlyLost, NeverStalled, client, onBus,
     SocketState
<1>14. CASE connectGateway
  <2> DEFINE p == takePending
  <2>1. p \in Seq(sent) /\ \A x : In(x, queue) \/ In(x, unconfirmed) => In(x, p)
    BY InConcat DEF FlowTypes, takePending
  <2>2. /\ socket' = "connecting" /\ gap' = GapFloor /\ clean' = 0 /\ retry' = FALSE
        /\ tokens' = Burst /\ UNCHANGED <<down, bus, twice, sent, forgotten>>
        /\ IF p = <<>>
           THEN queue' = <<>> /\ unconfirmed' = <<>> /\ timer' = FALSE /\ up' = <<>>
           ELSE /\ queue' = Tail(p) /\ unconfirmed' = <<Head(p)>> /\ timer' = TRUE
                /\ up' = <<Publish(Head(p))>>
    BY <1>14 DEF connectGateway, onBus
  <2> HIDE DEF p
  <2>5. PaceTypes' /\ socket' \in SocketState /\ tokens' \in 0..Burst
    <3>1. gap' \in GapFloor..GapCap
      BY <2>2, TransportAssumption
    <3>2. clean' \in 0..(CleanStreak - 1) /\ tokens' \in 0..Burst
      BY <2>2, TransportAssumption
    <3>3. timer' \in BOOLEAN /\ retry' \in BOOLEAN
      BY <2>2
    <3> QED BY <2>2, <3>1, <3>2, <3>3 DEF PaceTypes, SocketState
  <2>3. CASE p = <<>>
    <3>1. \A x : ~In(x, p)
      BY <2>3 DEF In
    <3>2. FlowTypes'
      BY <2>2, <2>3, <2>5, TransportAssumption DEF FlowTypes
    <3>3. NeverSilentlyLost'
      BY <2>1, <2>2, <3>1 DEF NeverSilentlyLost
    <3> QED BY <2>2, <2>3, <2>5, <3>2, <3>3 DEF NeverStalled
  <2>4. CASE p # <<>>
    <3>1. /\ Head(p) \in sent /\ Tail(p) \in Seq(sent)
          /\ \A x : In(x, p) => x = Head(p) \/ In(x, Tail(p))
      BY <2>1, <2>4, InTail
    <3>2. <<Publish(Head(p))>> \in Seq(UpFrame(sent)) /\ <<Head(p)>> \in Seq(sent)
          /\ Len(<<Head(p)>>) = 1 /\ In(Head(p), <<Head(p)>>)
      BY <3>1 DEF UpFrame, In
    <3>6. unconfirmed' = <<Head(p)>>
      BY <2>2, <2>4
    <3>5. Len(unconfirmed') <= MaxUnconfirmed
      BY <3>2, <3>6, TransportAssumption
    <3>3. FlowTypes'
      BY <2>2, <2>4, <2>5, <3>1, <3>2, <3>5 DEF FlowTypes
    <3>4. NeverSilentlyLost'
      BY <2>1, <2>2, <2>4, <3>1, <3>2 DEF NeverSilentlyLost
    <3> QED BY <2>2, <2>4, <2>5, <3>3, <3>4 DEF NeverStalled
  <2> QED BY <2>3, <2>4
<1>15. CASE UNCHANGED vars
  BY <1>15 DEF vars, FlowTypes, PaceTypes, NeverSilentlyLost, NeverStalled, client, onBus
<1> QED BY <1>1, <1>4, <1>5, <1>6, <1>7, <1>8, <1>9, <1>10, <1>11, <1>12, <1>13, <1>14, <1>15
           DEF Next

\* Every reachable state of the publish path satisfies TransportInv.
LEMMA TransportInvariant == Spec => []TransportInv
<1>1. ASSUME Init PROVE TransportInv
  <2>1. FlowTypes
    BY <1>1, TransportAssumption DEF Init, FlowTypes, SocketState
  <2>3. timer \in BOOLEAN /\ retry \in BOOLEAN
    BY <1>1 DEF Init
  <2>4. gap \in GapFloor..GapCap /\ clean \in 0..(CleanStreak - 1)
    BY <1>1, TransportAssumption DEF Init
  <2>2. PaceTypes
    BY <2>3, <2>4 DEF PaceTypes
  <2> QED BY <1>1, <2>1, <2>2 DEF Init, TransportInv, NeverSilentlyLost, NeverStalled
<1> QED BY <1>1, TransportStepKeeps, PTL DEF Spec

\* Type correctness of the publish path: the queues hold published envelopes, the
\* retry buffer stays within MAX_UNCONFIRMED and the pace within its limits.
THEOREM TransportTypes == Spec => []TypeOK
<1>1. ASSUME TransportInv PROVE TypeOK
  <2>1. queue \in Seq(Envelope) /\ unconfirmed \in Seq(Envelope)
    BY <1>1, SeqGrows DEF TransportInv, FlowTypes
  <2>2. DownFrame(bus) \subseteq ServerFrame
    BY <1>1 DEF TransportInv, FlowTypes, DownFrame, ServerFrame
  <2>3. down \in Seq(ServerFrame)
    BY <1>1, <2>2, SeqGrows DEF TransportInv, FlowTypes
  <2> QED BY <1>1, <2>1, <2>3 DEF TransportInv, FlowTypes, PaceTypes, TypeOK
<1> QED BY <1>1, TransportInvariant, PTL

\* No envelope the application published is silently lost, however receipts, rate
\* limits, retry sweeps, lost sockets and hand-offs interleave: it is on the bus, it
\* is queued or unconfirmed, or its overflow of the retry buffer is on record.
THEOREM PublishedIsKept == Spec => []NeverSilentlyLost
BY TransportInvariant, PTL DEF TransportInv

\* The pacer is armed whenever something is queued on a socket that is not closed, so
\* the queue never waits for the next publish to move.
THEOREM PacerNeverStalls == Spec => []NeverStalled
BY TransportInvariant, PTL DEF TransportInv
=============================================================================
