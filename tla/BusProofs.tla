---------------------------- MODULE BusProofs ----------------------------
(* Proofs about the bus for every value of its constants. *)
EXTENDS Bus, FiniteSetTheorems, FunctionTheorems, SequenceTheorems, WellFoundedInduction, TLAPS

\* What registerConsumer may leave: the registry it was given, or one that
\* differs at the one mailbox, where the caller is now registered and every
\* other entry is kept or absent.
LEMMA RegisterConsumerType ==
    ASSUME now \in Nat,
           NEW ls \in [Subject -> [Consumer -> Nat \cup {Absent}]],
           NEW s \in Subject, NEW c \in Consumer,
           NEW r \in registerConsumer(ls, s, c)
    PROVE  /\ r \in [Subject -> [Consumer -> Nat \cup {Absent}]]
           /\ \A t \in Subject : t # s => r[t] = ls[t]
<1> DEFINE stalest == {d \in Registered(ls, s) :
                         \A e \in Registered(ls, s) : ls[s][d] <= ls[s][e]}
<1>1. \/ r = ls
      \/ r = [ls EXCEPT ![s] = [@ EXCEPT ![c] = now]]
      \/ \E d \in stalest : r = [ls EXCEPT ![s] = [@ EXCEPT ![d] = Absent, ![c] = now]]
  BY DEF registerConsumer
<1>2. ls[s] \in [Consumer -> Nat \cup {Absent}]
  OBVIOUS
<1>3. stalest \subseteq Consumer
  BY DEF Registered
<1>4. CASE r = ls
  BY <1>4
<1>5. CASE r = [ls EXCEPT ![s] = [@ EXCEPT ![c] = now]]
  <2>1. [ls[s] EXCEPT ![c] = now] \in [Consumer -> Nat \cup {Absent}]
    BY <1>2
  <2> QED BY <1>5, <2>1
<1>6. ASSUME NEW d \in stalest,
             r = [ls EXCEPT ![s] = [@ EXCEPT ![d] = Absent, ![c] = now]]
      PROVE  /\ r \in [Subject -> [Consumer -> Nat \cup {Absent}]]
             /\ \A t \in Subject : t # s => r[t] = ls[t]
  <2>1. [ls[s] EXCEPT ![d] = Absent, ![c] = now] \in [Consumer -> Nat \cup {Absent}]
    BY <1>2, <1>3
  <2> QED BY <1>6, <2>1
<1> QED BY <1>1, <1>4, <1>5, <1>6

\* Type correctness of the bus.
THEOREM TypeCorrect == Spec => []TypeOK
<1>1. Init => TypeOK
  <2> SUFFICES ASSUME Init PROVE TypeOK
    OBVIOUS
  <2>1. lastSeen \in [Subject -> [Consumer -> Nat \cup {Absent}]]
    BY DEF Init, NoRegistry
  <2>2. pending \in [Subject -> SUBSET Blob]
    BY DEF Init
  <2>3. sub \in [Conn -> [Subject -> SUBSET AnyConsumer]]
    BY DEF Init, NotSubscribed
  <2> QED BY <2>1, <2>2, <2>3 DEF Init, TypeOK
<1>2. TypeOK /\ [Next]_vars => TypeOK'
  <2> SUFFICES ASSUME TypeOK, [Next]_vars PROVE TypeOK'
    OBVIOUS
  <2> USE NumberAssumption DEF TypeOK, queues, wires
  <2>1. ASSUME NEW s \in Subject, NEW id \in Id, NEW ttl \in TTLs, Publish(s, id, ttl)
        PROVE  TypeOK'
    <3> DEFINE m == [n |-> published, id |-> id, expiresAt |-> Expiry(ttl), ackedBy |-> {}]
    <3>1. Expiry(ttl) \in Nat
      BY DEF Expiry
    <3>2. m \in Blob
      BY <3>1 DEF Blob
    <3>3. hold(pending[s], m) \in SUBSET Blob
      BY <3>2 DEF hold
    <3>4. pending' \in [Subject -> SUBSET Blob]
      BY <2>1, <3>3 DEF Publish
    <3>5. published' \in Nat
      BY <2>1 DEF Publish
    <3>6. UNCHANGED <<now, closed, lastSeen, alive, sub, acking>>
      BY <2>1 DEF Publish
    <3> QED BY <3>4, <3>5, <3>6
  <2>2. ASSUME NEW k \in Conn, NEW s \in Subject, NEW c \in Consumer,
               SubscribeConsumer(k, s, c)
        PROVE  TypeOK'
    <3>1. lastSeen' \in [Subject -> [Consumer -> Nat \cup {Absent}]]
      BY <2>2, RegisterConsumerType DEF SubscribeConsumer
    <3>2. sub' \in [Conn -> [Subject -> SUBSET AnyConsumer]]
      BY <2>2 DEF SubscribeConsumer, Attach, AnyConsumer
    <3> QED BY <2>2, <3>1, <3>2 DEF SubscribeConsumer
  <2>3. ASSUME NEW k \in Conn, NEW s \in Subject, SubscribeLegacy(k, s)
        PROVE  TypeOK'
    <3>1. sub' \in [Conn -> [Subject -> SUBSET AnyConsumer]]
      BY <2>3 DEF SubscribeLegacy, Attach, AnyConsumer
    <3> QED BY <2>3, <3>1 DEF SubscribeLegacy
  <2>4. ASSUME NEW k \in Conn, NEW s \in Subject, Receive(k, s) PROVE TypeOK'
    BY <2>4 DEF Receive
  <2>5. ASSUME NEW k \in Conn, Disconnect(k) PROVE TypeOK'
    BY <2>5 DEF Disconnect
  <2>6. ASSUME NEW k \in Conn, NEW s \in Subject, detach(k, s) PROVE TypeOK'
    <3>1. lastSeen' \in [Subject -> [Consumer -> Nat \cup {Absent}]]
      BY <2>6 DEF detach, pruneConsumerRegistry, NoRegistry
    <3>2. sub' \in [Conn -> [Subject -> SUBSET AnyConsumer]]
      BY <2>6 DEF detach, NotSubscribed
    <3> QED BY <2>6, <3>1, <3>2 DEF detach
  <2>7. ASSUME NEW k \in Conn, Connect(k) PROVE TypeOK'
    BY <2>7 DEF Connect
  <2>8. ASSUME NEW k \in Conn, NEW id \in Id, AckAcross(k, id) PROVE TypeOK'
    BY <2>8 DEF AckAcross
  <2>9. ASSUME NEW p \in Subject \X AnyConsumer, ackLocked(p) PROVE TypeOK'
    <3>1. acking' \in [id : Id, pairs : SUBSET (Subject \X AnyConsumer)] \cup {NoAck}
      BY <2>9 DEF ackLocked, AfterPair, Unlocked
    <3>2. CASE AckLegacy(p)
      BY <2>9, <3>1, <3>2 DEF ackLocked, AckLegacy
    <3>3. CASE AckConsumer(p)
      <4>0. p[1] \in Subject /\ p[2] \in Consumer
        BY <3>3 DEF AckConsumer, AnyConsumer
      <4>1. PICK ls \in registerConsumer(lastSeen, p[1], p[2]) :
              LET rest == dropFullyAcked(Mark(pending[p[1]], acking.id, p[2]),
                                         Registered(ls, p[1]))
              IN  /\ pending' = [pending EXCEPT ![p[1]] = rest]
                  /\ lastSeen' = pruneConsumerRegistry(ls, p[1], Attached(p[1]), rest)
        BY <3>3 DEF AckConsumer
      <4>2. ls \in [Subject -> [Consumer -> Nat \cup {Absent}]]
        BY <4>0, RegisterConsumerType
      <4>3. Mark(pending[p[1]], acking.id, p[2]) \subseteq Blob
        <5>1. ASSUME NEW h \in Blob
              PROVE  [h EXCEPT !.ackedBy = @ \cup {p[2]}] \in Blob
          BY <4>0 DEF Blob
        <5>2. pending[p[1]] \subseteq Blob
          BY <4>0
        <5> QED BY <5>1, <5>2 DEF Mark
      <4>4. pending' \in [Subject -> SUBSET Blob]
        BY <4>0, <4>1, <4>3 DEF dropFullyAcked
      <4>5. lastSeen' \in [Subject -> [Consumer -> Nat \cup {Absent}]]
        BY <4>0, <4>1, <4>2 DEF pruneConsumerRegistry, NoRegistry
      <4> QED BY <2>9, <3>1, <4>4, <4>5 DEF ackLocked
    <3> QED BY <2>9, <3>2, <3>3 DEF ackLocked
  <2>10. ASSUME sweep PROVE TypeOK'
    <3>1. \A s \in Subject : Swept(s) \subseteq Blob
      BY DEF Swept, dropFullyAcked, Unexpired
    <3>2. \A s \in Subject : Recent(s) \in [Consumer -> Nat \cup {Absent}]
      BY DEF Recent
    <3>3. NoRegistry \in [Consumer -> Nat \cup {Absent}]
      BY DEF NoRegistry
    <3> QED BY <2>10, <3>1, <3>2, <3>3 DEF sweep
  <2>11. ASSUME Close PROVE TypeOK'
    BY <2>11 DEF Close, NoRegistry
  <2>12. ASSUME Tick PROVE TypeOK'
    BY <2>12 DEF Tick
  <2>13. CASE UNCHANGED vars
    BY <2>13 DEF vars
  <2> QED BY <2>1, <2>2, <2>3, <2>4, <2>5, <2>6, <2>7, <2>8, <2>9, <2>10,
             <2>11, <2>12, <2>13 DEF Next
<1> QED BY <1>1, <1>2, PTL DEF Spec

-----------------------------------------------------------------------------
\* IdleRegistryPruned for every instance: every operation that can empty a
\* queue or detach the last channel also prunes the registry.
THEOREM IdlePruned == Spec => []IdleRegistryPruned
<1>1. Init => IdleRegistryPruned
  BY DEF Init, IdleRegistryPruned, Registered, NoRegistry
<1>2. TypeOK /\ TypeOK' /\ IdleRegistryPruned /\ [Next]_vars => IdleRegistryPruned'
  <2> SUFFICES ASSUME TypeOK, TypeOK', IdleRegistryPruned, [Next]_vars,
                      NEW t \in Subject, Registered(lastSeen', t) # {}
               PROVE  Attached(t)' # {} \/ pending'[t] # {}
    BY DEF IdleRegistryPruned, Registered
  <2> USE DEF TypeOK, IdleRegistryPruned, queues, wires
  <2>0. Registered(lastSeen, t) # {} => Attached(t) # {} \/ pending[t] # {}
    OBVIOUS
  <2>1. ASSUME NEW s \in Subject, NEW id \in Id, NEW ttl \in TTLs, Publish(s, id, ttl)
        PROVE  Attached(t)' # {} \/ pending'[t] # {}
    <3>1. pending[t] # {} => pending'[t] # {}
      BY <2>1 DEF Publish, hold
    <3>2. Attached(t)' = Attached(t) /\ Registered(lastSeen', t) = Registered(lastSeen, t)
      BY <2>1 DEF Publish, Attached, Registered
    <3> QED BY <2>0, <3>1, <3>2
  <2>2. ASSUME NEW k \in Conn, NEW s \in Subject, NEW c \in Consumer,
               SubscribeConsumer(k, s, c)
        PROVE  Attached(t)' # {} \/ pending'[t] # {}
    <3>1. CASE t = s
      <4>1. sub'[k][s] = {c}
        BY <2>2 DEF SubscribeConsumer, Attach
      <4> QED BY <3>1, <4>1 DEF Attached, NotSubscribed
    <3>2. CASE t # s
      <4>1. lastSeen'[t] = lastSeen[t]
        BY <2>2, <3>2, RegisterConsumerType DEF SubscribeConsumer
      <4>2. Registered(lastSeen, t) # {}
        BY <4>1 DEF Registered
      <4>3. Attached(t)' = Attached(t) /\ pending' = pending
        BY <2>2, <3>2 DEF SubscribeConsumer, Attach, Attached
      <4> QED BY <2>0, <4>2, <4>3
    <3> QED BY <3>1, <3>2
  <2>3. ASSUME NEW k \in Conn, NEW s \in Subject, SubscribeLegacy(k, s)
        PROVE  Attached(t)' # {} \/ pending'[t] # {}
    <3>1. Registered(lastSeen, t) # {}
      BY <2>3 DEF SubscribeLegacy, Registered
    <3>2. CASE t = s
      <4>1. sub'[k][s] = {Legacy}
        BY <2>3 DEF SubscribeLegacy, Attach
      <4> QED BY <3>2, <4>1 DEF Attached, NotSubscribed
    <3>3. CASE t # s
      <4>1. Attached(t)' = Attached(t) /\ pending'[t] = pending[t]
        BY <2>3, <3>3 DEF SubscribeLegacy, Attach, Attached
      <4> QED BY <2>0, <3>1, <4>1
    <3> QED BY <3>2, <3>3
  <2>4. ASSUME UNCHANGED <<lastSeen, pending, sub>>
        PROVE  Attached(t)' # {} \/ pending'[t] # {}
    BY <2>0, <2>4 DEF Attached, Registered
  <2>5. ASSUME NEW k \in Conn, NEW s \in Subject, detach(k, s)
        PROVE  Attached(t)' # {} \/ pending'[t] # {}
    <3>1. Attached(s)' = Attached(s) \ {k} /\ pending' = pending
      BY <2>5 DEF detach, Attached, NotSubscribed
    <3>2. CASE t = s
      BY <2>5, <3>1, <3>2 DEF detach, pruneConsumerRegistry, Registered, NoRegistry
    <3>3. CASE t # s
      <4>1. lastSeen' = pruneConsumerRegistry(lastSeen, s, Attached(s) \ {k}, pending[s])
        BY <2>5 DEF detach
      <4>2. lastSeen'[t] = lastSeen[t]
        BY <3>3, <4>1 DEF pruneConsumerRegistry
      <4>3. Attached(t)' = Attached(t)
        BY <2>5, <3>3 DEF detach, Attached
      <4> QED BY <2>0, <3>1, <4>2, <4>3 DEF Registered
    <3> QED BY <3>2, <3>3
  <2>6. ASSUME NEW p \in Subject \X AnyConsumer, ackLocked(p)
        PROVE  Attached(t)' # {} \/ pending'[t] # {}
    <3>1. Attached(t)' = Attached(t) /\ p[1] \in Subject
      BY <2>6 DEF ackLocked, Attached
    <3>2. CASE AckLegacy(p)
      <4>1. Registered(lastSeen, t) # {}
        BY <3>2 DEF AckLegacy, Registered
      <4>2. pending'[t] = pending[t]
        BY <3>1, <3>2, <4>1 DEF AckLegacy
      <4> QED BY <2>0, <3>1, <4>1, <4>2
    <3>3. CASE AckConsumer(p)
      <4>0. p[2] \in Consumer
        BY <3>3 DEF AckConsumer, AnyConsumer
      <4>1. PICK ls \in registerConsumer(lastSeen, p[1], p[2]) :
              LET rest == dropFullyAcked(Mark(pending[p[1]], acking.id, p[2]),
                                         Registered(ls, p[1]))
              IN  /\ pending' = [pending EXCEPT ![p[1]] = rest]
                  /\ lastSeen' = pruneConsumerRegistry(ls, p[1], Attached(p[1]), rest)
        BY <3>3 DEF AckConsumer
      <4> DEFINE rest == dropFullyAcked(Mark(pending[p[1]], acking.id, p[2]),
                                        Registered(ls, p[1]))
      <4>5. /\ pending' = [pending EXCEPT ![p[1]] = rest]
            /\ lastSeen' = pruneConsumerRegistry(ls, p[1], Attached(p[1]), rest)
        BY <4>1
      <4> HIDE DEF rest
      <4>2. /\ ls \in [Subject -> [Consumer -> Nat \cup {Absent}]]
            /\ \A u \in Subject : u # p[1] => ls[u] = lastSeen[u]
        BY ZenonT(60), <3>1, <4>0, RegisterConsumerType
      <4>3. CASE t = p[1]
        BY <3>1, <4>5, <4>2, <4>3 DEF pruneConsumerRegistry, Registered, NoRegistry
      <4>4. CASE t # p[1]
        <5>1. lastSeen'[t] = lastSeen[t] /\ pending'[t] = pending[t]
          BY <3>1, <4>5, <4>2, <4>4 DEF pruneConsumerRegistry
        <5> QED BY <2>0, <3>1, <5>1 DEF Registered
      <4> QED BY <4>3, <4>4
    <3> QED BY <2>6, <3>2, <3>3 DEF ackLocked
  <2>7. ASSUME sweep PROVE Attached(t)' # {} \/ pending'[t] # {}
    <3>1. Attached(t)' = Attached(t) /\ pending'[t] = Swept(t)
      BY <2>7 DEF sweep, Attached
    <3>2. Attached(t) = {} /\ Swept(t) = {} => lastSeen'[t] = NoRegistry
      BY <2>7 DEF sweep
    <3> QED BY <3>1, <3>2 DEF Registered, NoRegistry
  <2>8. ASSUME Close PROVE Attached(t)' # {} \/ pending'[t] # {}
    BY <2>8 DEF Close, Registered, NoRegistry
  <2> QED
    BY <2>1, <2>2, <2>3, <2>4, <2>5, <2>6, <2>7, <2>8
    DEF Next, Receive, Disconnect, Connect, AckAcross, Tick, vars
<1> QED BY <1>1, <1>2, TypeCorrect, PTL DEF Spec

-----------------------------------------------------------------------------
\* HeldUntilAcked for every instance: no other consumer's ack, no legacy client
\* and no sweep removes a blob from under the cursor of a consumer that stays
\* registered.
THEOREM HeldBlobKept == Spec => HeldUntilAcked
<1> DEFINE Kept(s, c, h) ==
      \/ \E g \in pending'[s] : g.n = h.n /\ c \notin g.ackedBy
      \/ ~Unlocked /\ <<s, c>> \in acking.pairs /\ acking.id = h.id
      \/ h.expiresAt <= now
      \/ /\ published' # published /\ Cardinality(pending[s]) >= MaxPending
         /\ \A g \in pending[s] : h.n <= g.n
<1>1. TypeOK /\ [Next]_vars =>
        \A s \in Subject :
          \A c \in Registered(lastSeen, s) \cap Registered(lastSeen', s) :
            \A h \in pending[s] : c \notin h.ackedBy => Kept(s, c, h)
  <2> SUFFICES ASSUME TypeOK, [Next]_vars, NEW t \in Subject,
                      NEW c \in Consumer,
                      c \in Registered(lastSeen, t), c \in Registered(lastSeen', t),
                      NEW h \in pending[t], c \notin h.ackedBy
               PROVE  Kept(t, c, h)
    BY DEF Registered
  <2> USE DEF TypeOK, queues, wires
  <2>0. h \in Blob /\ (h \in pending'[t] => Kept(t, c, h))
    BY DEF Blob
  <2>1. ASSUME NEW s \in Subject, NEW id \in Id, NEW ttl \in TTLs, Publish(s, id, ttl)
        PROVE  Kept(t, c, h)
    <3>1. published' # published
      BY <2>1 DEF Publish
    <3>2. CASE Cardinality(pending[t]) >= MaxPending /\ \A g \in pending[t] : h.n <= g.n
      BY <3>1, <3>2
    <3>3. CASE ~(Cardinality(pending[t]) >= MaxPending /\ \A g \in pending[t] : h.n <= g.n)
      <4>1. h \in pending'[t]
        BY <2>1, <3>3 DEF Publish, hold
      <4> QED BY <2>0, <4>1
    <3> QED BY <3>2, <3>3
  <2>2. ASSUME NEW k \in Conn, NEW s \in Subject, SubscribeLegacy(k, s)
        PROVE  Kept(t, c, h)
    <3>1. h \in pending'[t]
      BY <2>2 DEF SubscribeLegacy
    <3> QED BY <2>0, <3>1
  <2>3. ASSUME NEW p \in Subject \X AnyConsumer, ackLocked(p)
        PROVE  Kept(t, c, h)
    <3>1. p[1] \in Subject /\ p \in acking.pairs /\ ~Unlocked /\ p = <<p[1], p[2]>>
      BY <2>3 DEF ackLocked
    <3>2. CASE AckLegacy(p) \/ p[1] # t
      <4>1. h \in pending'[t]
        BY <2>3, <3>1, <3>2 DEF ackLocked, AckLegacy, AckConsumer
      <4> QED BY <2>0, <4>1
    <3>3. CASE AckConsumer(p) /\ p[1] = t /\ p[2] = c /\ acking.id = h.id
      BY <3>1, <3>3
    <3>4. CASE AckConsumer(p) /\ p[1] = t /\ ~(p[2] = c /\ acking.id = h.id)
      <4>1. PICK ls \in registerConsumer(lastSeen, p[1], p[2]) :
              LET rest == dropFullyAcked(Mark(pending[p[1]], acking.id, p[2]),
                                         Registered(ls, p[1]))
              IN  /\ pending' = [pending EXCEPT ![p[1]] = rest]
                  /\ lastSeen' = pruneConsumerRegistry(ls, p[1], Attached(p[1]), rest)
        BY <3>4 DEF AckConsumer
      <4> DEFINE g == IF h.id = acking.id
                      THEN [h EXCEPT !.ackedBy = @ \cup {p[2]}] ELSE h
      <4>2. g \in Mark(pending[t], acking.id, p[2])
        BY <3>4 DEF Mark
      <4>3. g.n = h.n /\ c \notin g.ackedBy
        BY <2>0, <3>4 DEF Blob
      <4>4. p[2] \in Consumer
        BY <3>4 DEF AckConsumer, AnyConsumer
      <4>5. ls \in [Subject -> [Consumer -> Nat \cup {Absent}]]
        BY <3>1, <4>4, RegisterConsumerType
      <4>6. c \in Registered(ls, t)
        BY <3>1, <3>4, <4>1, <4>5 DEF pruneConsumerRegistry, Registered, NoRegistry
      <4>7. g \in dropFullyAcked(Mark(pending[t], acking.id, p[2]), Registered(ls, t))
        BY <4>2, <4>3, <4>6 DEF dropFullyAcked
      <4>8. pending'[t] = dropFullyAcked(Mark(pending[t], acking.id, p[2]), Registered(ls, t))
        BY <3>4, <4>1
      <4> HIDE DEF g
      <4> QED BY <4>3, <4>7, <4>8
    <3> QED BY <2>3, <3>2, <3>3, <3>4 DEF ackLocked
  <2>4. ASSUME sweep PROVE Kept(t, c, h)
    <3>1. CASE h.expiresAt <= now
      BY <3>1
    <3>2. CASE ~(h.expiresAt <= now)
      <4>1. h \in Unexpired(t)
        BY <2>0, <3>2 DEF Unexpired, Blob
      <4>2. c \in {d \in Consumer : Recent(t)[d] # Absent}
        BY <2>4 DEF sweep, Registered, NoRegistry
      <4>3. h \in Swept(t)
        BY <4>1, <4>2 DEF Swept, dropFullyAcked
      <4> QED BY <2>0, <2>4, <4>3 DEF sweep
    <3> QED BY <3>1, <3>2
  <2>5. ASSUME Close PROVE Kept(t, c, h)
    BY <2>5 DEF Close, Registered, NoRegistry
  <2>6. ASSUME UNCHANGED pending PROVE Kept(t, c, h)
    BY <2>0, <2>6
  <2> HIDE DEF Kept
  <2> QED
    BY <2>1, <2>2, <2>3, <2>4, <2>5, <2>6
    DEF Next, SubscribeConsumer, Receive, Disconnect, detach, Connect, AckAcross,
        Tick, vars
<1> QED BY <1>1, TypeCorrect, PTL DEF Spec, HeldUntilAcked

-----------------------------------------------------------------------------
\* registerConsumer takes an entry away only from a full registry and only when
\* that entry has been silent for the eviction floor.
LEMMA RegisterConsumerEvicts ==
    ASSUME NumberAssumption, now \in Nat,
           NEW ls \in [Subject -> [Consumer -> Nat \cup {Absent}]],
           NEW s \in Subject, NEW c \in Consumer,
           NEW r \in registerConsumer(ls, s, c),
           NEW d \in Consumer, d \in Registered(ls, s), d \notin Registered(r, s)
    PROVE  /\ now - ls[s][d] >= EvictionFloor
           /\ Cardinality(Registered(ls, s)) >= MaxConsumers
<1> DEFINE reg == Registered(ls, s)
           stalest == {e \in reg : \A f \in reg : ls[s][e] <= ls[s][f]}
<1>1. ~(c \in reg \/ Cardinality(reg) < MaxConsumers)
  BY DEF registerConsumer, Registered, Absent
<1>2. PICK e \in stalest : r = [ls EXCEPT ![s] = [@ EXCEPT ![e] = Absent, ![c] = now]]
  BY <1>1 DEF registerConsumer
<1>6. Cardinality(reg) >= MaxConsumers
  <2>1. Cardinality(reg) \in Nat
    <3>1. IsFiniteSet(reg)
      BY FiniteAssumption, FS_Subset DEF Registered
    <3> QED BY <3>1, FS_CardinalityType
  <2> QED BY <1>1, <2>1
<1>3. ~(\E f \in stalest : now - ls[s][f] < EvictionFloor)
  BY <1>1, <1>6 DEF registerConsumer, Registered
<1>4. d = e
  BY <1>2 DEF Registered, Absent
<1>5. ls[s][d] \in Nat
  BY DEF Registered
<1> QED BY <1>3, <1>4, <1>5, <1>6

\* CursorKept for every instance.
THEOREM CursorLostForCause == Spec => CursorKept
<1> DEFINE Cause(s, c) ==
      \/ closed'
      \/ now - lastSeen[s][c] > Retention
      \/ /\ now - lastSeen[s][c] >= EvictionFloor
         /\ Cardinality(Registered(lastSeen, s)) >= MaxConsumers
      \/ pending'[s] = {} /\ Attached(s)' = {}
<1>1. TypeOK /\ [Next]_vars =>
        \A s \in Subject :
          \A c \in Registered(lastSeen, s) \ Registered(lastSeen', s) : Cause(s, c)
  <2> SUFFICES ASSUME TypeOK, [Next]_vars, NEW t \in Subject, NEW c \in Consumer,
                      c \in Registered(lastSeen, t), c \notin Registered(lastSeen', t)
               PROVE  Cause(t, c)
    BY DEF Registered
  <2> USE NumberAssumption DEF TypeOK, queues, wires
  <2>1. ASSUME NEW k \in Conn, NEW s \in Subject, NEW d \in Consumer,
               SubscribeConsumer(k, s, d)
        PROVE  Cause(t, c)
    <3>1. lastSeen' \in registerConsumer(lastSeen, s, d)
      BY <2>1 DEF SubscribeConsumer
    <3>2. t = s
      BY <3>1, RegisterConsumerType DEF Registered
    <3> QED BY <3>1, <3>2, RegisterConsumerEvicts
  <2>2. ASSUME NEW k \in Conn, NEW s \in Subject, detach(k, s)
        PROVE  Cause(t, c)
    <3>1. t = s /\ Attached(s) \ {k} = {} /\ pending[s] = {}
      BY <2>2 DEF detach, pruneConsumerRegistry, Registered
    <3>2. Attached(s)' = Attached(s) \ {k} /\ pending' = pending
      BY <2>2 DEF detach, Attached, NotSubscribed
    <3> QED BY <3>1, <3>2
  <2>3. ASSUME NEW p \in Subject \X AnyConsumer, ackLocked(p)
        PROVE  Cause(t, c)
    <3>1. p[1] \in Subject /\ Attached(t)' = Attached(t)
      BY <2>3 DEF ackLocked, Attached
    <3>2. AckConsumer(p)
      BY <2>3 DEF ackLocked, AckLegacy, Registered
    <3>3. p[2] \in Consumer
      BY <3>2 DEF AckConsumer, AnyConsumer
    <3>4. PICK ls \in registerConsumer(lastSeen, p[1], p[2]) :
            LET rest == dropFullyAcked(Mark(pending[p[1]], acking.id, p[2]),
                                       Registered(ls, p[1]))
            IN  /\ pending' = [pending EXCEPT ![p[1]] = rest]
                /\ lastSeen' = pruneConsumerRegistry(ls, p[1], Attached(p[1]), rest)
      BY <3>2 DEF AckConsumer
    <3> DEFINE rest == dropFullyAcked(Mark(pending[p[1]], acking.id, p[2]),
                                      Registered(ls, p[1]))
    <3>5. /\ pending' = [pending EXCEPT ![p[1]] = rest]
          /\ lastSeen' = pruneConsumerRegistry(ls, p[1], Attached(p[1]), rest)
      BY <3>4
    <3> HIDE DEF rest
    <3>6. /\ ls \in [Subject -> [Consumer -> Nat \cup {Absent}]]
          /\ \A u \in Subject : u # p[1] => ls[u] = lastSeen[u]
      BY <3>1, <3>3, RegisterConsumerType
    <3>7. CASE Attached(p[1]) = {} /\ rest = {} /\ t = p[1]
      BY <3>1, <3>5, <3>7
    <3>8. CASE ~(Attached(p[1]) = {} /\ rest = {} /\ t = p[1])
      <4>1. lastSeen'[t] = ls[t]
        BY <3>1, <3>5, <3>6, <3>8 DEF pruneConsumerRegistry
      <4>2. c \notin Registered(ls, t)
        BY <4>1 DEF Registered
      <4>3. t = p[1]
        BY <3>1, <3>6, <4>2 DEF Registered
      <4> QED BY <3>1, <3>3, <4>2, <4>3, RegisterConsumerEvicts
    <3> QED BY <3>7, <3>8
  <2>4. ASSUME sweep PROVE Cause(t, c)
    <3>1. CASE Attached(t) = {} /\ Swept(t) = {}
      BY <2>4, <3>1 DEF sweep, Attached
    <3>2. CASE ~(Attached(t) = {} /\ Swept(t) = {})
      <4>1. Recent(t)[c] = Absent
        BY <2>4, <3>2 DEF sweep, Registered
      <4>2. now - lastSeen[t][c] > Retention
        BY <4>1 DEF Recent, Registered
      <4> QED BY <4>2
    <3> QED BY <3>1, <3>2
  <2>5. ASSUME Close PROVE Cause(t, c)
    BY <2>5 DEF Close
  <2>6. ASSUME UNCHANGED lastSeen PROVE Cause(t, c)
    BY <2>6 DEF Registered
  <2> HIDE DEF Cause
  <2> QED
    BY <2>1, <2>2, <2>3, <2>4, <2>5, <2>6
    DEF Next, Publish, SubscribeLegacy, Receive, Disconnect, Connect, AckAcross,
        Tick, vars
<1> QED BY <1>1, TypeCorrect, PTL DEF Spec, CursorKept

-----------------------------------------------------------------------------
(* The caps. *)

RegistryWithin(ls) ==
    /\ \A s \in Subject : Cardinality(Registered(ls, s)) <= MaxConsumers
    /\ Cardinality(Tracked(ls)) <= MaxTracked

QueueWithin(q, t) ==
    /\ IsFiniteSet(q) /\ Cardinality(q) <= MaxPending
    /\ \A h \in q : h.expiresAt <= t + MaxTTL

\* Bounded, with the finiteness that its cardinalities need.
CapInv == RegistryWithin(lastSeen) /\ \A s \in Subject : QueueWithin(pending[s], now)

\* A queue that is not empty has an oldest blob.
LEMMA OldestHeld ==
    ASSUME NEW q \in SUBSET Blob, q # {}
    PROVE  \E h \in q : \A g \in q : h.n <= g.n
<1> DEFINE w == {h.n : h \in q}
<1>1. w \subseteq Nat /\ w # {}
  BY DEF Blob
<1> HIDE DEF w
<1>2. IsWellFoundedOn({ss \in Nat \X Nat : ss[1] < ss[2]}, Nat)
  BY NatLessThanWellFounded, Zenon DEF OpToRel
<1> DEFINE R == {ss \in Nat \X Nat : ss[1] < ss[2]}
<1> HIDE DEF R
<1>3. PICK x \in w : \A y \in w : ~(<<y, x>> \in R)
  <2>1. IsWellFoundedOn(R, Nat)
    BY <1>2 DEF R
  <2> QED BY <1>1, <2>1, WFMin
<1>4. PICK h \in q : h.n = x
  BY <1>3 DEF w
<1>5. ASSUME NEW g \in q PROVE h.n <= g.n
  <2>1. g.n \in w /\ g.n \in Nat /\ x \in Nat
    BY <1>1, <1>3 DEF w
  <2>2. ~(<<g.n, x>> \in R)
    BY <1>3, <2>1
  <2>3. ~(g.n < x)
    BY <2>1, <2>2 DEF R
  <2> QED BY <1>4, <2>1, <2>3
<1> QED BY <1>5

\* hold keeps the queue within its cap: a full one loses its oldest blob first.
LEMMA HoldWithin ==
    ASSUME NEW q \in SUBSET Blob, NEW t, QueueWithin(q, t), NEW m, m.expiresAt <= t + MaxTTL
    PROVE  QueueWithin(hold(q, m), t)
<1>1. IsFiniteSet(q) /\ Cardinality(q) <= MaxPending /\ Cardinality(q) \in Nat /\ MaxPending \in Nat \ {0}
  BY NumberAssumption, FS_CardinalityType DEF QueueWithin
<1> DEFINE oldest == {h \in q : \A g \in q : h.n <= g.n}
           rest == IF Cardinality(q) >= MaxPending THEN q \ oldest ELSE q
<1>2. hold(q, m) = rest \cup {m} /\ rest \subseteq q
  BY DEF hold
<1>3. IsFiniteSet(rest) /\ Cardinality(rest) \in Nat /\ Cardinality(rest) <= Cardinality(q)
      /\ (Cardinality(q) = Cardinality(rest) => q = rest)
  <2> HIDE DEF rest
  <2>1. rest \in SUBSET q
    BY <1>2
  <2> QED BY <1>1, <2>1, FS_Subset, FS_CardinalityType
<1>4. Cardinality(q) >= MaxPending => q # rest
  <2> SUFFICES ASSUME Cardinality(q) >= MaxPending PROVE q # rest
    OBVIOUS
  <2>1. q # {}
    BY <1>1, FS_EmptySet
  <2>2. PICK h \in q : \A g \in q : h.n <= g.n
    BY <2>1, OldestHeld
  <2> QED BY <2>2
<1> HIDE DEF rest
<1>5. Cardinality(rest) < MaxPending
  BY <1>1, <1>3, <1>4
<1>6. IsFiniteSet(rest \cup {m}) /\ Cardinality(rest \cup {m}) <= Cardinality(rest) + 1
  <2>1. IsFiniteSet(rest) /\ Cardinality(rest) \in Nat
    BY <1>3
  <2>2. /\ IsFiniteSet(rest \cup {m})
        /\ Cardinality(rest \cup {m}) = IF m \in rest THEN Cardinality(rest) ELSE Cardinality(rest) + 1
    BY <2>1, FS_AddElement
  <2> QED BY <2>1, <2>2
<1>7. Cardinality(rest \cup {m}) \in Nat
  BY <1>6, FS_CardinalityType
<1>8. \A h \in rest \cup {m} : h.expiresAt <= t + MaxTTL
  BY <1>2 DEF QueueWithin
<1> QED BY <1>1, <1>2, <1>3, <1>5, <1>6, <1>7, <1>8 DEF QueueWithin

\* What is left of a queue stays within the caps.
LEMMA PartWithin ==
    ASSUME NEW q, NEW t, QueueWithin(q, t), NEW r \in SUBSET q
    PROVE  QueueWithin(r, t)
<1>1. IsFiniteSet(q) /\ Cardinality(q) \in Nat /\ Cardinality(q) <= MaxPending /\ MaxPending \in Nat
  BY NumberAssumption, FS_CardinalityType DEF QueueWithin
<1>2. IsFiniteSet(r) /\ Cardinality(r) <= Cardinality(q)
  BY <1>1, FS_Subset
<1>3. Cardinality(r) \in Nat
  BY <1>2, FS_CardinalityType
<1> QED BY <1>1, <1>2, <1>3 DEF QueueWithin

\* Marking an ack adds no blob and no lifetime.
LEMMA MarkWithin ==
    ASSUME NEW q \in SUBSET Blob, NEW t, QueueWithin(q, t), NEW id, NEW c
    PROVE  QueueWithin(Mark(q, id, c), t)
<1> DEFINE f == [h \in q |-> IF h.id = id THEN [h EXCEPT !.ackedBy = @ \cup {c}] ELSE h]
<1>1. f \in Surjection(q, Mark(q, id, c))
  BY DEF Surjection, Mark
<1>2. \A h \in q : f[h].expiresAt = h.expiresAt
  BY DEF Blob
<1> HIDE DEF f
<1>3. IsFiniteSet(q) /\ Cardinality(q) \in Nat /\ Cardinality(q) <= MaxPending /\ MaxPending \in Nat
  BY NumberAssumption, FS_CardinalityType DEF QueueWithin
<1>4. IsFiniteSet(Mark(q, id, c)) /\ Cardinality(Mark(q, id, c)) <= Cardinality(q)
  BY <1>1, <1>3, FS_Surjection
<1>5. Cardinality(Mark(q, id, c)) \in Nat
  BY <1>4, FS_CardinalityType
<1>6. \A g \in Mark(q, id, c) : \E h \in q : g = f[h]
  BY <1>1 DEF Surjection
<1>7. \A g \in Mark(q, id, c) : g.expiresAt <= t + MaxTTL
  BY <1>2, <1>6 DEF QueueWithin
<1> QED BY <1>3, <1>4, <1>5, <1>7 DEF QueueWithin

\* A registry that only loses entries stays within the caps.
LEMMA RegistryShrinks ==
    ASSUME NEW ls, NEW r, RegistryWithin(ls),
           \A s \in Subject : Registered(r, s) \subseteq Registered(ls, s)
    PROVE  RegistryWithin(r)
<1>1. ASSUME NEW s \in Subject PROVE Cardinality(Registered(r, s)) <= MaxConsumers
  <2>1. IsFiniteSet(Registered(ls, s)) /\ Registered(r, s) \in SUBSET Registered(ls, s)
    BY FiniteAssumption, FS_Subset DEF Registered
  <2>2. /\ IsFiniteSet(Registered(r, s)) /\ Cardinality(Registered(ls, s)) \in Nat
        /\ Cardinality(Registered(r, s)) <= Cardinality(Registered(ls, s))
    BY <2>1, FS_Subset, FS_CardinalityType
  <2>3. Cardinality(Registered(r, s)) \in Nat
    BY <2>2, FS_CardinalityType
  <2> QED BY <2>2, <2>3, NumberAssumption DEF RegistryWithin
<1>2. Cardinality(Tracked(r)) <= MaxTracked
  <2>1. IsFiniteSet(Tracked(ls)) /\ Tracked(r) \in SUBSET Tracked(ls)
    BY FiniteAssumption, FS_Subset DEF Tracked
  <2>2. /\ IsFiniteSet(Tracked(r)) /\ Cardinality(Tracked(ls)) \in Nat
        /\ Cardinality(Tracked(r)) <= Cardinality(Tracked(ls))
    BY <2>1, FS_Subset, FS_CardinalityType
  <2>3. Cardinality(Tracked(r)) \in Nat
    BY <2>2, FS_CardinalityType
  <2> QED BY <2>2, <2>3, NumberAssumption DEF RegistryWithin
<1> QED BY <1>1, <1>2 DEF RegistryWithin

\* registerConsumer respects both caps: a new mailbox needs a free place, a new consumer
\* a free place or the one of the stalest.
LEMMA RegisterWithin ==
    ASSUME now \in Nat,
           NEW ls \in [Subject -> [Consumer -> Nat \cup {Absent}]], RegistryWithin(ls),
           NEW s \in Subject, NEW c \in Consumer, NEW r \in registerConsumer(ls, s, c)
    PROVE  RegistryWithin(r)
<1> DEFINE reg == Registered(ls, s)
           stalest == {d \in reg : \A e \in reg : ls[s][d] <= ls[s][e]}
<1>0. now # Absent /\ ls[s] \in [Consumer -> Nat \cup {Absent}]
  BY DEF Absent
<1>1. IsFiniteSet(reg) /\ Cardinality(reg) \in Nat /\ Cardinality(reg) <= MaxConsumers
  BY FiniteAssumption, FS_Subset, FS_CardinalityType DEF Registered, RegistryWithin
<1>2. IsFiniteSet(Tracked(ls)) /\ Cardinality(Tracked(ls)) \in Nat /\ Cardinality(Tracked(ls)) <= MaxTracked
  BY FiniteAssumption, FS_Subset, FS_CardinalityType DEF Tracked, RegistryWithin
<1>3. CASE r = ls
  BY <1>3
<1>4. CASE r # ls
  <2>1. ~(reg = {} /\ Cardinality(Tracked(ls)) >= MaxTracked)
    BY <1>4 DEF registerConsumer
  <2>2. \A t \in Subject : t # s => Registered(r, t) = Registered(ls, t)
    BY RegisterConsumerType DEF Registered
  <2>3. Cardinality(Registered(r, s)) <= MaxConsumers
    <3>1. CASE c \in reg \/ Cardinality(reg) < MaxConsumers
      <4>1. r = [ls EXCEPT ![s] = [@ EXCEPT ![c] = now]]
        BY <1>4, <3>1 DEF registerConsumer
      <4>2. Registered(r, s) = reg \cup {c}
        BY <1>0, <4>1 DEF Registered
      <4> HIDE DEF reg
      <4>3. Cardinality(reg \cup {c}) = IF c \in reg THEN Cardinality(reg) ELSE Cardinality(reg) + 1
        BY <1>1, FS_AddElement
      <4> QED BY <1>1, <3>1, <4>2, <4>3, NumberAssumption
    <3>2. CASE ~(c \in reg \/ Cardinality(reg) < MaxConsumers)
      <4>1. PICK d \in stalest : r = [ls EXCEPT ![s] = [@ EXCEPT ![d] = Absent, ![c] = now]]
        BY <1>4, <3>2 DEF registerConsumer
      <4>2. d \in reg /\ d # c /\ d \in Consumer
        BY <3>2, <4>1 DEF Registered
      <4>3. Registered(r, s) = (reg \ {d}) \cup {c}
        BY <1>0, <4>1, <4>2 DEF Registered
      <4> HIDE DEF reg
      <4>4. IsFiniteSet(reg \ {d}) /\ Cardinality(reg \ {d}) = Cardinality(reg) - 1
        BY <1>1, <4>2, FS_RemoveElement
      <4>5. Cardinality((reg \ {d}) \cup {c}) =
               IF c \in (reg \ {d}) THEN Cardinality(reg \ {d}) ELSE Cardinality(reg \ {d}) + 1
        BY <4>4, FS_AddElement
      <4> QED BY <1>1, <4>3, <4>4, <4>5, NumberAssumption
    <3> QED BY <3>1, <3>2
  <2>4. Cardinality(Tracked(r)) <= MaxTracked
    <3>1. CASE reg # {}
      <4>1. s \in Tracked(ls)
        BY <3>1 DEF Tracked
      <4>2. Tracked(r) \in SUBSET Tracked(ls)
        BY <2>2, <4>1 DEF Tracked
      <4>3. IsFiniteSet(Tracked(r)) /\ Cardinality(Tracked(r)) <= Cardinality(Tracked(ls))
        BY <1>2, <4>2, FS_Subset
      <4>4. Cardinality(Tracked(r)) \in Nat
        BY <4>3, FS_CardinalityType
      <4> QED BY <1>2, <4>3, <4>4, NumberAssumption
    <3>2. CASE reg = {}
      <4>1. Cardinality(Tracked(ls)) < MaxTracked
        BY <1>2, <2>1, <3>2, NumberAssumption
      <4>2. Tracked(r) \in SUBSET (Tracked(ls) \cup {s})
        BY <2>2 DEF Tracked
      <4>3. /\ IsFiniteSet(Tracked(ls) \cup {s})
            /\ Cardinality(Tracked(ls) \cup {s}) =
                  IF s \in Tracked(ls) THEN Cardinality(Tracked(ls)) ELSE Cardinality(Tracked(ls)) + 1
        BY <1>2, FS_AddElement
      <4>4. IsFiniteSet(Tracked(r)) /\ Cardinality(Tracked(r)) <= Cardinality(Tracked(ls) \cup {s})
        BY <4>2, <4>3, FS_Subset
      <4>5. Cardinality(Tracked(r)) \in Nat
        BY <4>4, FS_CardinalityType
      <4> QED BY <1>2, <4>1, <4>3, <4>4, <4>5, NumberAssumption
    <3> QED BY <3>1, <3>2
  <2> QED BY <2>2, <2>3, <2>4 DEF RegistryWithin
<1> QED BY <1>3, <1>4

\* The memory of the bus is bounded: for any traffic the queue of a mailbox, its registry
\* and the number of tracked mailboxes stay within their caps, and no held blob outlives
\* MaxTTL.
THEOREM MemoryBounded == Spec => []Bounded
<1>1. Init => CapInv
  <2> SUFFICES ASSUME Init PROVE CapInv
    OBVIOUS
  <2>1. Tracked(lastSeen) = {} /\ \A s \in Subject : Registered(lastSeen, s) = {} /\ pending[s] = {}
    BY DEF Init, Tracked, Registered, NoRegistry
  <2>2. IsFiniteSet({}) /\ Cardinality({}) = 0
    BY FS_EmptySet
  <2>3. MaxConsumers \in Nat /\ MaxTracked \in Nat /\ MaxPending \in Nat
    BY NumberAssumption
  <2>4. RegistryWithin(lastSeen)
    BY <2>1, <2>2, <2>3 DEF RegistryWithin
  <2>5. \A q : q = {} => QueueWithin(q, now)
    BY <2>2, <2>3 DEF QueueWithin
  <2> QED BY <2>1, <2>4, <2>5 DEF CapInv
<1>2. TypeOK /\ CapInv /\ [Next]_vars => CapInv'
  <2> SUFFICES ASSUME TypeOK, CapInv, [Next]_vars
               PROVE  RegistryWithin(lastSeen') /\ \A s \in Subject : QueueWithin(pending'[s], now')
    BY DEF CapInv, RegistryWithin, QueueWithin, Registered, Tracked
  <2> DEFINE Within == RegistryWithin(lastSeen') /\ \A s \in Subject : QueueWithin(pending'[s], now')
  <2>1. /\ now \in Nat /\ lastSeen \in [Subject -> [Consumer -> Nat \cup {Absent}]]
        /\ pending \in [Subject -> SUBSET Blob]
    BY DEF TypeOK
  <2>2. RegistryWithin(lastSeen) /\ \A s \in Subject : QueueWithin(pending[s], now)
    BY DEF CapInv
  <2>3. \A s \in Subject : pending[s] \in SUBSET Blob
    BY <2>1
  <2>4. ASSUME NEW s \in Subject, NEW id \in Id, NEW ttl \in TTLs, Publish(s, id, ttl)
        PROVE  Within
    <3> DEFINE m == [n |-> published, id |-> id, expiresAt |-> Expiry(ttl), ackedBy |-> {}]
    <3>1. m.expiresAt <= now + MaxTTL
      BY <2>1, NumberAssumption DEF Expiry
    <3>2. QueueWithin(hold(pending[s], m), now)
      BY <2>2, <2>3, <3>1, HoldWithin
    <3>3. now' = now /\ lastSeen' = lastSeen
          /\ (pending' = pending \/ pending' = [pending EXCEPT ![s] = hold(pending[s], m)])
      BY <2>4 DEF Publish
    <3> HIDE DEF m
    <3> QED BY <2>1, <2>2, <3>2, <3>3
  <2>5. ASSUME NEW k \in Conn, NEW s \in Subject, NEW c \in Consumer, SubscribeConsumer(k, s, c)
        PROVE  Within
    <3>1. lastSeen' \in registerConsumer(lastSeen, s, c) /\ now' = now /\ pending' = pending
      BY <2>5 DEF SubscribeConsumer
    <3> QED BY <2>1, <2>2, <3>1, RegisterWithin
  <2>6. ASSUME NEW k \in Conn, NEW s \in Subject, SubscribeLegacy(k, s)
        PROVE  Within
    <3>1. now' = now /\ lastSeen' = lastSeen /\ \A t \in Subject : pending'[t] \in SUBSET pending[t]
      BY <2>1, <2>6 DEF SubscribeLegacy
    <3> QED BY <2>2, <3>1, PartWithin
  <2>7. ASSUME NEW k \in Conn, NEW s \in Subject, detach(k, s)
        PROVE  Within
    <3>1. /\ now' = now /\ pending' = pending
          /\ lastSeen' = pruneConsumerRegistry(lastSeen, s, Attached(s) \ {k}, pending[s])
      BY <2>7 DEF detach
    <3>2. \A t \in Subject : Registered(lastSeen', t) \subseteq Registered(lastSeen, t)
      BY <2>1, <3>1 DEF pruneConsumerRegistry, Registered, NoRegistry
    <3> QED BY <2>2, <3>1, <3>2, RegistryShrinks
  <2>8. ASSUME NEW p \in Subject \X AnyConsumer, ackLocked(p)
        PROVE  Within
    <3>1. now' = now /\ p[1] \in Subject
      BY <2>8 DEF ackLocked
    <3>2. CASE AckLegacy(p)
      <4>1. lastSeen' = lastSeen /\ \A t \in Subject : pending'[t] \in SUBSET pending[t]
        BY <2>1, <3>1, <3>2 DEF AckLegacy
      <4> QED BY <2>2, <3>1, <4>1, PartWithin
    <3>3. CASE AckConsumer(p)
      <4>1. p[2] \in Consumer
        BY <3>3 DEF AckConsumer, AnyConsumer
      <4>2. PICK ls \in registerConsumer(lastSeen, p[1], p[2]) :
              LET rest == dropFullyAcked(Mark(pending[p[1]], acking.id, p[2]), Registered(ls, p[1]))
              IN  /\ pending' = [pending EXCEPT ![p[1]] = rest]
                  /\ lastSeen' = pruneConsumerRegistry(ls, p[1], Attached(p[1]), rest)
        BY <3>3 DEF AckConsumer
      <4> DEFINE marked == Mark(pending[p[1]], acking.id, p[2])
                 rest == dropFullyAcked(marked, Registered(ls, p[1]))
      <4>3. /\ pending' = [pending EXCEPT ![p[1]] = rest]
            /\ lastSeen' = pruneConsumerRegistry(ls, p[1], Attached(p[1]), rest)
        BY <4>2
      <4>4. QueueWithin(marked, now)
        BY <2>2, <2>3, <3>1, MarkWithin
      <4>5. rest \in SUBSET marked
        BY DEF dropFullyAcked
      <4> HIDE DEF marked, rest
      <4>6. QueueWithin(rest, now)
        BY <4>4, <4>5, PartWithin
      <4>7. RegistryWithin(ls) /\ ls \in [Subject -> [Consumer -> Nat \cup {Absent}]]
        BY <2>1, <2>2, <3>1, <4>1, RegisterWithin, RegisterConsumerType
      <4>8. \A t \in Subject : Registered(lastSeen', t) \subseteq Registered(ls, t)
        BY <4>3, <4>7 DEF pruneConsumerRegistry, Registered, NoRegistry
      <4>9. RegistryWithin(lastSeen')
        BY <4>7, <4>8, RegistryShrinks
      <4> QED BY <2>1, <2>2, <3>1, <4>3, <4>6, <4>9
    <3> QED BY <2>8, <3>2, <3>3 DEF ackLocked
  <2>9. ASSUME sweep PROVE Within
    <3>1. now' = now /\ \A t \in Subject : pending'[t] \in SUBSET pending[t]
      BY <2>9 DEF sweep, Swept, dropFullyAcked, Unexpired
    <3>2. \A t \in Subject : Registered(lastSeen', t) \subseteq Registered(lastSeen, t)
      BY <2>9 DEF sweep, Recent, Registered, NoRegistry
    <3> QED BY <2>2, <3>1, <3>2, PartWithin, RegistryShrinks
  <2>10. ASSUME Close PROVE Within
    <3>1. now' = now /\ \A t \in Subject : pending'[t] \in SUBSET pending[t]
      BY <2>10 DEF Close
    <3>2. \A t \in Subject : Registered(lastSeen', t) \subseteq Registered(lastSeen, t)
      BY <2>10 DEF Close, Registered, NoRegistry
    <3> QED BY <2>2, <3>1, <3>2, PartWithin, RegistryShrinks
  <2>11. ASSUME Tick PROVE Within
    <3>1. now' = now + 1 /\ lastSeen' = lastSeen /\ pending' = pending
      BY <2>11 DEF Tick, queues
    <3>2. \A t \in Subject : \A h \in pending[t] : h.expiresAt \in Nat
      BY <2>3 DEF Blob
    <3> QED BY <2>1, <2>2, <3>1, <3>2, NumberAssumption DEF QueueWithin
  <2>12. ASSUME UNCHANGED <<now, lastSeen, pending>> PROVE Within
    BY <2>2, <2>12
  <2> HIDE DEF Within
  <2>13. Within
    BY <2>4, <2>5, <2>6, <2>7, <2>8, <2>9, <2>10, <2>11, <2>12
    DEF Next, Receive, Disconnect, Connect, AckAcross, queues, vars
  <2> QED BY <2>13 DEF Within
<1>3. CapInv => Bounded
  BY DEF CapInv, RegistryWithin, QueueWithin, Bounded
<1> QED BY <1>1, <1>2, <1>3, TypeCorrect, PTL DEF Spec

-----------------------------------------------------------------------------
(* The flush. *)

\* No two held blobs of a queue carry one stamp.
Stamped(q) == \A g, h \in q : g.n = h.n => g = h

Sorting(q) ==
    {f \in [1..Cardinality(q) -> q] : \A i, j \in 1..Cardinality(q) : i < j => f[i].n < f[j].n}

\* An older blob goes in front of a queue.
LEMMA OlderFirst ==
    ASSUME NEW T \in SUBSET Blob, IsFiniteSet(T), Stamped(T), NEW h \in T,
           \A g \in T : h.n <= g.n, NEW f \in Sorting(T \ {h})
    PROVE  Sorting(T) # {}
<1> DEFINE N == Cardinality(T)
           e == [i \in 1..N |-> IF i = 1 THEN h ELSE f[i - 1]]
<1>1. Cardinality(T \ {h}) = N - 1 /\ N \in Nat
  BY FS_RemoveElement, FS_CardinalityType
<1>2. /\ f \in [1..(N - 1) -> T \ {h}]
      /\ \A i, j \in 1..(N - 1) : i < j => f[i].n < f[j].n
  BY <1>1 DEF Sorting
<1>3. \A i \in 1..N : i # 1 => i - 1 \in 1..(N - 1) /\ f[i - 1] \in T \ {h}
  BY <1>1, <1>2
<1>4. e \in [1..N -> T]
  BY <1>3
<1>5. \A g \in T \ {h} : h.n < g.n
  BY DEF Stamped, Blob
<1>6. ASSUME NEW i \in 1..N, NEW j \in 1..N, i < j PROVE e[i].n < e[j].n
  <2>1. j # 1 /\ e[j] = f[j - 1] /\ f[j - 1] \in T \ {h}
    BY <1>1, <1>3, <1>6
  <2>2. CASE i = 1
    BY <1>5, <2>1, <2>2
  <2>3. CASE i # 1
    <3>1. e[i] = f[i - 1] /\ i - 1 \in 1..(N - 1) /\ j - 1 \in 1..(N - 1) /\ i - 1 < j - 1
      BY <1>1, <1>3, <1>6, <2>1, <2>3
    <3> QED BY <1>2, <2>1, <3>1
  <2> QED BY <2>2, <2>3
<1> HIDE DEF e
<1>7. e \in Sorting(T)
  BY <1>4, <1>6 DEF Sorting
<1> QED BY <1>7

\* Every finite queue can be put in order.
LEMMA CanBeSorted ==
    ASSUME NEW q \in SUBSET Blob, IsFiniteSet(q), Stamped(q)
    PROVE  Sorting(q) # {}
<1> SUFFICES ASSUME Sorting(q) = {} PROVE FALSE
  OBVIOUS
<1>1. IsWellFoundedOn(StrictSubsetOrdering(q), FiniteSubsetsOf(q))
  BY FS_StrictSubsetOrderingWellFounded
<1> DEFINE F == FiniteSubsetsOf(q)
           R == StrictSubsetOrdering(q)
           bad == {T \in F : Sorting(T) = {}}
<1>2. q \in bad /\ bad \subseteq F
  BY DEF FiniteSubsetsOf
<1>3. PICK T \in bad : \A U \in bad : ~(<<U, T>> \in R)
  <2> HIDE DEF bad, F, R
  <2>1. IsWellFoundedOn(R, F)
    BY <1>1 DEF R, F
  <2> QED BY <1>2, <2>1, WFMin
<1>4. T \in SUBSET q /\ T \in SUBSET Blob /\ IsFiniteSet(T) /\ Sorting(T) = {} /\ Stamped(T)
  BY <1>3 DEF FiniteSubsetsOf, Stamped
<1>5. T # {}
  <2> SUFFICES ASSUME T = {} PROVE FALSE
    OBVIOUS
  <2>1. Cardinality(T) = 0 /\ 1..0 = {}
    BY FS_EmptySet
  <2>2. [i \in 1..0 |-> i] \in Sorting(T)
    BY <2>1 DEF Sorting
  <2> QED BY <1>4, <2>2
<1>6. PICK h \in T : \A g \in T : h.n <= g.n
  BY <1>4, <1>5, OldestHeld
<1> DEFINE U == T \ {h}
<1>7. IsFiniteSet(U) /\ U \in SUBSET q /\ <<U, T>> \in R
  BY <1>4, <1>6, FS_RemoveElement DEF StrictSubsetOrdering
<1>8. Sorting(U) # {}
  BY <1>3, <1>7 DEF FiniteSubsetsOf
<1>9. PICK f : f \in Sorting(U)
  BY <1>8
<1> QED BY <1>4, <1>6, <1>9, OlderFirst

\* The flush is in the order of publication, holds every blob its consumer has not acked
\* and nothing else.
LEMMA FlushInOrder ==
    ASSUME NEW q \in SUBSET Blob, IsFiniteSet(q), Stamped(q), NEW c
    PROVE  /\ Flush(q, c) \in Seq(q)
           /\ \A i, j \in 1..Len(Flush(q, c)) : i < j => Flush(q, c)[i].n < Flush(q, c)[j].n
           /\ \A h \in q : c \notin h.ackedBy => \E i \in 1..Len(Flush(q, c)) : Flush(q, c)[i] = h
<1> DEFINE u == {h \in q : c \notin h.ackedBy}
           N == Cardinality(u)
<1>1. u \in SUBSET q /\ u \in SUBSET Blob
  OBVIOUS
<1>2. IsFiniteSet(u) /\ Stamped(u)
  BY <1>1, FS_Subset DEF Stamped
<1>3. Sorting(u) # {}
  BY <1>1, <1>2, CanBeSorted
<1>4. PICK f : f = Queued(u)
  OBVIOUS
<1>5. f \in Sorting(u)
  BY <1>3, <1>4 DEF Sorting, Queued
<1>6. Flush(q, c) = f
  BY <1>4 DEF Flush
<1> HIDE DEF u
<1>7. f \in [1..N -> u] /\ N \in Nat /\ \A i, j \in 1..N : i < j => f[i].n < f[j].n
  BY <1>2, <1>5, FS_CardinalityType DEF Sorting
<1>8. f \in Injection(1..N, u)
  <2>1. ASSUME NEW i \in 1..N, NEW j \in 1..N, f[i] = f[j] PROVE i = j
    <3>1. f[i].n \in Nat
      BY <1>1, <1>7 DEF Blob
    <3> QED BY <1>7, <2>1, <3>1
  <2> QED BY <1>7, <2>1 DEF Injection, IsInjective
<1>9. f \in Surjection(1..N, u)
  <2>1. Cardinality(1..N) = N
    BY <1>7, FS_Interval
  <2> QED BY <1>2, <1>8, <2>1, FS_Injection
<1>10. f \in Seq(q) /\ Len(f) = N
  BY <1>1, <1>7
<1>11. \A h \in u : \E i \in 1..N : f[i] = h
  BY <1>9 DEF Surjection
<1>12. \A h \in q : c \notin h.ackedBy => h \in u
  BY DEF u
<1> HIDE DEF N
<1> QED BY <1>6, <1>7, <1>10, <1>11, <1>12

WireBlob == [n : Nat, id : Id]

\* A queue: finite, each blob with a stamp of its own, of the past.
QueueOk(q, p) == IsFiniteSet(q) /\ Stamped(q) /\ \A h \in q : h.n < p

\* The channel log of the subscriptions sb to the queue q: only the past, in order, with
\* all that is not acked or missed.
LogOk(log, sb, q, ms, p) ==
    /\ log \in Seq(WireBlob) /\ \A i \in DOMAIN log : log[i].n < p
    /\ \A c \in sb :
          /\ \A i, j \in DOMAIN log : i < j => log[i].n < log[j].n
          /\ \A h \in q : c \notin h.ackedBy => (\E i \in DOMAIN log : log[i].n = h.n) \/ h.n \in ms

WireTypes ==
    /\ channel \in [Conn -> [Subject -> [buf : Seq(WireBlob), cap : Nat]]]
    /\ got \in [Conn -> [Subject -> Seq(WireBlob)]]
    /\ missed \in [Conn -> [Subject -> SUBSET Nat]]

BacklogInv ==
    /\ WireTypes
    /\ \A s \in Subject : QueueOk(pending[s], published)
    /\ \A k \in Conn, s \in Subject :
          LogOk(got[k][s] \o channel[k][s].buf, sub[k][s], pending[s], missed[k][s], published)

\* A queue that loses blobs, or whose blobs gain acks, asks no more of the log.
LEMMA LogAsksLess ==
    ASSUME NEW log, NEW sb, NEW q, NEW ms, NEW p, LogOk(log, sb, q, ms, p),
           NEW r, \A g \in r : \E h \in q : g.n = h.n /\ h.ackedBy \subseteq g.ackedBy
    PROVE  LogOk(log, sb, r, ms, p)
<1> SUFFICES ASSUME NEW c \in sb, NEW g \in r, c \notin g.ackedBy
             PROVE  (\E i \in DOMAIN log : log[i].n = g.n) \/ g.n \in ms
  BY DEF LogOk
<1>1. PICK h \in q : g.n = h.n /\ h.ackedBy \subseteq g.ackedBy
  OBVIOUS
<1>2. c \notin h.ackedBy
  BY <1>1
<1> QED BY <1>1, <1>2 DEF LogOk

\* A publication goes to the end of the log, or is missed.
LEMMA LogGrows ==
    ASSUME NEW log, NEW sb, NEW q, NEW ms, NEW p \in Nat, LogOk(log, sb, q, ms, p),
           NEW m \in WireBlob, m.n = p, NEW r, \A g \in r : g \in q \/ g.n = p
    PROVE  /\ LogOk(Append(log, m), sb, r, ms, p + 1)
           /\ LogOk(log, sb, r, ms \cup {p}, p + 1)
           /\ sb = {} => LogOk(log, sb, r, ms, p + 1)
<1>1. log \in Seq(WireBlob) /\ \A i \in DOMAIN log : log[i].n < p
  BY DEF LogOk
<1>2. Len(log) \in Nat /\ DOMAIN log = 1..Len(log) /\ \A i \in 1..Len(log) : log[i] \in WireBlob
  BY <1>1, LenProperties, ElementOfSeq
<1>3. \A i \in DOMAIN log : log[i].n \in Nat /\ log[i].n < p + 1
  BY <1>1, <1>2 DEF WireBlob
<1>4. /\ Append(log, m) \in Seq(WireBlob) /\ Len(Append(log, m)) = Len(log) + 1
      /\ \A i \in 1..Len(log) : Append(log, m)[i] = log[i]
      /\ Append(log, m)[Len(log) + 1] = m
  BY <1>1, AppendProperties
<1>5. DOMAIN Append(log, m) = 1..(Len(log) + 1)
  BY <1>4, LenProperties
<1> DEFINE L == Append(log, m)
<1> HIDE DEF L
<1>6. ASSUME NEW i \in DOMAIN L
      PROVE  (i \in DOMAIN log /\ L[i] = log[i]) \/ (i = Len(log) + 1 /\ L[i] = m)
  <2>1. DOMAIN L = 1..(Len(log) + 1) /\ L[Len(log) + 1] = m /\ \A j \in 1..Len(log) : L[j] = log[j]
    BY <1>4, <1>5 DEF L
  <2> QED BY <1>2, <2>1
<1>7. \A i \in DOMAIN log : i \in DOMAIN L /\ L[i] = log[i]
  BY <1>2, <1>4, <1>5 DEF L
<1>8. Len(log) + 1 \in DOMAIN L /\ L[Len(log) + 1] = m
  BY <1>2, <1>4, <1>5 DEF L
<1>9. \A i \in DOMAIN L : L[i].n < p + 1
  BY <1>3, <1>6
<1>10. ASSUME NEW c \in sb
       PROVE  /\ \A i, j \in DOMAIN L : i < j => L[i].n < L[j].n
              /\ \A h \in r : c \notin h.ackedBy => (\E i \in DOMAIN L : L[i].n = h.n) \/ h.n \in ms
  <2>1. /\ \A i, j \in DOMAIN log : i < j => log[i].n < log[j].n
        /\ \A h \in q : c \notin h.ackedBy => (\E i \in DOMAIN log : log[i].n = h.n) \/ h.n \in ms
    BY DEF LogOk
  <2>2. ASSUME NEW i \in DOMAIN L, NEW j \in DOMAIN L, i < j PROVE L[i].n < L[j].n
    <3>1. i \in DOMAIN log
      BY <1>2, <1>6, <2>2
    <3>2. CASE j \in DOMAIN log
      BY <1>6, <1>7, <2>1, <2>2, <3>1, <3>2
    <3>3. CASE j = Len(log) + 1
      BY <1>1, <1>7, <1>8, <3>1, <3>3
    <3> QED BY <1>6, <3>2, <3>3
  <2>3. ASSUME NEW h \in r, c \notin h.ackedBy
        PROVE  (\E i \in DOMAIN L : L[i].n = h.n) \/ h.n \in ms
    <3>1. CASE h \in q
      BY <1>7, <2>1, <2>3, <3>1
    <3>2. CASE h.n = p
      BY <1>8, <3>2
    <3> QED BY <3>1, <3>2
  <2> QED BY <2>2, <2>3
<1>11. LogOk(L, sb, r, ms, p + 1)
  BY <1>4, <1>9, <1>10 DEF LogOk, L
<1>12. LogOk(log, sb, r, ms \cup {p}, p + 1)
  BY <1>1, <1>3 DEF LogOk
<1>13. sb = {} => LogOk(log, sb, r, ms, p + 1)
  BY <1>1, <1>3 DEF LogOk
<1> QED BY <1>11, <1>12, <1>13 DEF L

\* A fresh subscription's channel holds the whole backlog.
LEMMA LogFresh ==
    ASSUME NEW q \in SUBSET Blob, NEW p \in Nat, QueueOk(q, p), NEW c, NEW r \in SUBSET q, NEW w,
           w = [i \in 1..Len(Flush(q, c)) |-> Wire(Flush(q, c)[i])]
    PROVE  /\ w \in Seq(WireBlob) /\ Len(Flush(q, c)) \in Nat
           /\ LogOk(<<>> \o w, {c}, r, {}, p)
<1>1. PICK f : f = Flush(q, c)
  OBVIOUS
<1>2. /\ f \in Seq(q)
      /\ \A i, j \in 1..Len(f) : i < j => f[i].n < f[j].n
      /\ \A h \in q : c \notin h.ackedBy => \E i \in 1..Len(f) : f[i] = h
  BY <1>1, FlushInOrder DEF QueueOk
<1>3. Len(f) \in Nat /\ \A i \in 1..Len(f) : f[i] \in q
  BY <1>2, LenProperties, ElementOfSeq
<1>4. \A i \in 1..Len(f) : Wire(f[i]) \in WireBlob /\ Wire(f[i]).n = f[i].n /\ f[i].n < p
  BY <1>3 DEF Wire, WireBlob, Blob, QueueOk
<1>5. w = [i \in 1..Len(f) |-> Wire(f[i])]
  BY <1>1
<1>6. w \in Seq(WireBlob) /\ DOMAIN w = 1..Len(f) /\ \A i \in 1..Len(f) : w[i].n = f[i].n
  BY <1>3, <1>4, <1>5
<1>7. <<>> \o w = w
  BY <1>6, ConcatEmptySeq
<1>8. \A i \in DOMAIN w : w[i].n < p
  BY <1>4, <1>6
<1>9. ASSUME NEW i \in DOMAIN w, NEW j \in DOMAIN w, i < j PROVE w[i].n < w[j].n
  <2>1. i \in 1..Len(f) /\ j \in 1..Len(f) /\ w[i].n = f[i].n /\ w[j].n = f[j].n
    BY <1>6
  <2> QED BY <1>2, <1>9, <2>1
<1>10. ASSUME NEW h \in r, c \notin h.ackedBy PROVE \E i \in DOMAIN w : w[i].n = h.n
  <2>1. PICK i \in 1..Len(f) : f[i] = h
    BY <1>2, <1>10
  <2>2. i \in DOMAIN w /\ w[i].n = h.n
    BY <1>6, <2>1
  <2> QED BY <2>2
<1>11. LogOk(w, {c}, r, {}, p)
  BY <1>6, <1>8, <1>9, <1>10 DEF LogOk
<1> QED BY <1>1, <1>3, <1>6, <1>7, <1>11

\* What is left of a queue is a queue.
LEMMA QueuePart ==
    ASSUME NEW q, NEW p, QueueOk(q, p), NEW r \in SUBSET q
    PROVE  QueueOk(r, p)
<1>1. IsFiniteSet(r)
  BY FS_Subset DEF QueueOk
<1> QED BY <1>1 DEF QueueOk, Stamped

\* Marking an ack keeps the stamps and only adds acks.
LEMMA QueueMarked ==
    ASSUME NEW q \in SUBSET Blob, NEW p, QueueOk(q, p), NEW id, NEW c
    PROVE  /\ QueueOk(Mark(q, id, c), p)
           /\ \A g \in Mark(q, id, c) : \E h \in q : g.n = h.n /\ h.ackedBy \subseteq g.ackedBy
<1> DEFINE f == [h \in q |-> IF h.id = id THEN [h EXCEPT !.ackedBy = @ \cup {c}] ELSE h]
<1>1. f \in Surjection(q, Mark(q, id, c))
  BY DEF Surjection, Mark
<1>2. \A h \in q : f[h].n = h.n /\ h.ackedBy \subseteq f[h].ackedBy
  BY DEF Blob
<1> HIDE DEF f
<1>3. IsFiniteSet(Mark(q, id, c))
  BY <1>1, FS_Surjection DEF QueueOk
<1>4. \A g \in Mark(q, id, c) : \E h \in q : g = f[h]
  BY <1>1 DEF Surjection
<1>5. Stamped(Mark(q, id, c)) /\ \A g \in Mark(q, id, c) : g.n < p
  BY <1>2, <1>4 DEF Stamped, QueueOk
<1> QED BY <1>2, <1>3, <1>4, <1>5 DEF QueueOk

\* A new blob takes a new stamp.
LEMMA QueueHolds ==
    ASSUME NEW q \in SUBSET Blob, NEW p \in Nat, QueueOk(q, p), NEW m, m.n = p
    PROVE  /\ QueueOk(hold(q, m), p + 1)
           /\ \A g \in hold(q, m) : g \in q \/ g.n = p
           /\ QueueOk(q, p + 1)
<1> DEFINE oldest == {h \in q : \A g \in q : h.n <= g.n}
           rest == IF Cardinality(q) >= MaxPending THEN q \ oldest ELSE q
<1>1. hold(q, m) = rest \cup {m} /\ rest \in SUBSET q
  BY DEF hold
<1> HIDE DEF rest
<1>2. QueueOk(rest, p)
  BY <1>1, QueuePart
<1>3. IsFiniteSet(rest \cup {m})
  BY <1>2, FS_AddElement DEF QueueOk
<1>4. \A h \in q : h.n \in Nat /\ h.n < p /\ h.n < p + 1 /\ h.n # p
  BY DEF QueueOk, Blob
<1>5. Stamped(rest \cup {m}) /\ \A h \in rest \cup {m} : h.n < p + 1
  BY <1>1, <1>2, <1>4 DEF QueueOk, Stamped
<1>6. QueueOk(q, p + 1)
  BY <1>4 DEF QueueOk
<1> QED BY <1>1, <1>3, <1>5, <1>6 DEF QueueOk

\* Reading a blob moves it from the channel to what was got, and leaves the log alone.
LEMMA ReadKeepsLog ==
    ASSUME NEW a \in Seq(WireBlob), NEW b \in Seq(WireBlob), b # <<>>
    PROVE  Append(a, Head(b)) \o Tail(b) = a \o b
<1>1. Head(b) \in WireBlob /\ Tail(b) \in Seq(WireBlob) /\ b = <<Head(b)>> \o Tail(b)
  BY HeadTailProperties
<1>2. Append(a, Head(b)) = a \o <<Head(b)>> /\ <<Head(b)>> \in Seq(WireBlob)
  BY <1>1, AppendIsConcat
<1>3. (a \o <<Head(b)>>) \o Tail(b) = a \o (<<Head(b)>> \o Tail(b))
  BY <1>1, <1>2, ConcatAssociative
<1> QED BY <1>1, <1>2, <1>3

\* The state after a step, as BacklogInv wants it.
TypedNext ==
    /\ channel' \in [Conn -> [Subject -> [buf : Seq(WireBlob), cap : Nat]]]
    /\ got' \in [Conn -> [Subject -> Seq(WireBlob)]]
    /\ missed' \in [Conn -> [Subject -> SUBSET Nat]]
BacklogNext ==
    /\ TypedNext
    /\ \A s \in Subject : QueueOk(pending'[s], published')
    /\ \A k \in Conn, s \in Subject :
          LogOk(got'[k][s] \o channel'[k][s].buf, sub'[k][s], pending'[s], missed'[k][s], published')

\* A publication keeps every log in order, and is noted where it did not fit.
LEMMA PublishLogs ==
    ASSUME TypeOK, BacklogInv, NEW s \in Subject, NEW id \in Id, NEW ttl \in TTLs, Publish(s, id, ttl)
    PROVE  BacklogNext
<1> DEFINE m == [n |-> published, id |-> id, expiresAt |-> Expiry(ttl), ackedBy |-> {}]
           reached == {k \in Attached(s) : HasRoom(k, s)}
<1>1. /\ published \in Nat /\ published' = published + 1 /\ pending \in [Subject -> SUBSET Blob]
      /\ got' = got /\ sub' = sub
  BY DEF TypeOK, Publish
<1>2. m.n = published /\ Wire(m) \in WireBlob /\ Wire(m).n = published
  BY <1>1 DEF Wire, WireBlob
<1>3. pending' = pending \/ pending' = [pending EXCEPT ![s] = hold(pending[s], m)]
  BY DEF Publish
<1>4. \A k \in Conn :
         /\ k \in reached => /\ channel'[k] = [channel[k] EXCEPT ![s] =
                                    [channel[k][s] EXCEPT !.buf = Append(channel[k][s].buf, Wire(m))]]
                             /\ missed'[k] = missed[k]
         /\ k \notin reached => channel'[k] = channel[k]
         /\ k \in Attached(s) \ reached => missed'[k] = [missed[k] EXCEPT ![s] = missed[k][s] \cup {published}]
         /\ k \notin Attached(s) => missed'[k] = missed[k]
  <2>1. channel' = [k \in Conn |->
              IF k \in reached
              THEN [channel[k] EXCEPT ![s] =
                       [channel[k][s] EXCEPT !.buf = Append(channel[k][s].buf, Wire(m))]]
              ELSE channel[k]]
    <3>1. \A k \in Conn : s \in DOMAIN channel[k]
      BY DEF BacklogInv, WireTypes
    <3> QED BY <3>1 DEF Publish
  <2>2. missed' = [k \in Conn |->
              IF k \in Attached(s) \ reached
              THEN [missed[k] EXCEPT ![s] = missed[k][s] \cup {published}]
              ELSE missed[k]]
    <3>1. \A k \in Conn : s \in DOMAIN missed[k]
      BY DEF BacklogInv, WireTypes
    <3> QED BY <1>2, <3>1 DEF Publish
  <2>3. \A k \in reached : k \in Attached(s)
    OBVIOUS
  <2> HIDE DEF m, reached
  <2> QED BY <2>1, <2>2, <2>3
<1>5. DOMAIN channel' = Conn /\ DOMAIN missed' = Conn /\ reached \subseteq Attached(s)
      /\ channel' = [k \in Conn |-> channel'[k]] /\ missed' = [k \in Conn |-> missed'[k]]
  BY DEF Publish
<1> HIDE DEF m, reached
<1>6. WireTypes /\ \A t \in Subject : pending[t] \in SUBSET Blob /\ QueueOk(pending[t], published)
  BY <1>1 DEF BacklogInv
<1>7. /\ channel \in [Conn -> [Subject -> [buf : Seq(WireBlob), cap : Nat]]]
      /\ got \in [Conn -> [Subject -> Seq(WireBlob)]] /\ missed \in [Conn -> [Subject -> SUBSET Nat]]
  BY <1>6 DEF WireTypes
<1>8. \A t \in Subject : /\ QueueOk(pending'[t], published')
                         /\ \A g \in pending'[t] : g \in pending[t] \/ g.n = published
  <2>1. \A t \in Subject : /\ QueueOk(hold(pending[t], m), published + 1) /\ QueueOk(pending[t], published + 1)
                           /\ \A g \in hold(pending[t], m) : g \in pending[t] \/ g.n = published
    BY <1>1, <1>2, <1>6, QueueHolds
  <2> QED BY <1>1, <1>3, <2>1
<1>9. TypedNext
  <2>1. ASSUME NEW k \in Conn
        PROVE  /\ channel'[k] \in [Subject -> [buf : Seq(WireBlob), cap : Nat]]
               /\ missed'[k] \in [Subject -> SUBSET Nat]
    <3>1. channel[k] \in [Subject -> [buf : Seq(WireBlob), cap : Nat]] /\ missed[k] \in [Subject -> SUBSET Nat]
      BY <1>7
    <3>2. channel[k][s].buf \in Seq(WireBlob) /\ channel[k][s].cap \in Nat
      BY <3>1
    <3>3. Append(channel[k][s].buf, Wire(m)) \in Seq(WireBlob)
      BY <1>2, <3>2, AppendProperties
    <3>4. [channel[k][s] EXCEPT !.buf = Append(channel[k][s].buf, Wire(m))] \in [buf : Seq(WireBlob), cap : Nat]
      BY <3>1, <3>2, <3>3
    <3>5. missed'[k] \in [Subject -> SUBSET Nat]
      <4>1. PICK z : z = missed[k][s] \cup {published}
        OBVIOUS
      <4>2. z \in SUBSET Nat
        BY <1>1, <3>1, <4>1
      <4>3. missed'[k] = missed[k] \/ missed'[k] = [missed[k] EXCEPT ![s] = z]
        BY <1>4, <4>1
      <4> QED BY <3>1, <4>2, <4>3
    <3>6. PICK b : b = [channel[k][s] EXCEPT !.buf = Append(channel[k][s].buf, Wire(m))]
      OBVIOUS
    <3>7. channel'[k] = channel[k] \/ channel'[k] = [channel[k] EXCEPT ![s] = b]
      BY <1>4, <3>6
    <3>8. b \in [buf : Seq(WireBlob), cap : Nat]
      BY <3>4, <3>6
    <3>9. channel'[k] \in [Subject -> [buf : Seq(WireBlob), cap : Nat]]
      BY <3>1, <3>7, <3>8
    <3> QED BY <3>5, <3>9
  <2> QED BY <1>1, <1>5, <1>7, <2>1 DEF TypedNext
<1>10. ASSUME NEW k \in Conn, NEW t \in Subject
       PROVE  LogOk(got'[k][t] \o channel'[k][t].buf, sub'[k][t], pending'[t], missed'[k][t], published')
  <2> DEFINE log == got[k][t] \o channel[k][t].buf
  <2>1. LogOk(log, sub[k][t], pending[t], missed[k][t], published)
    BY DEF BacklogInv
  <2>2. got[k][t] \in Seq(WireBlob) /\ channel[k][t].buf \in Seq(WireBlob) /\ channel[k][t] \in [buf : Seq(WireBlob), cap : Nat]
        /\ channel[k] \in [Subject -> [buf : Seq(WireBlob), cap : Nat]] /\ missed[k] \in [Subject -> SUBSET Nat]
    BY <1>7
  <2>3. Append(log, Wire(m)) = got[k][t] \o Append(channel[k][t].buf, Wire(m))
    <3>1. PICK a, b, v : a = got[k][t] /\ b = channel[k][t].buf /\ v = Wire(m)
      OBVIOUS
    <3>2. a \in Seq(WireBlob) /\ b \in Seq(WireBlob) /\ v \in WireBlob /\ <<v>> \in Seq(WireBlob)
          /\ a \o b \in Seq(WireBlob)
      BY <1>2, <2>2, <3>1, ConcatProperties
    <3>3. Append(a \o b, v) = (a \o b) \o <<v>> /\ Append(b, v) = b \o <<v>>
      BY <3>2, AppendIsConcat
    <3>4. (a \o b) \o <<v>> = a \o (b \o <<v>>)
      BY <3>2, ConcatAssociative
    <3> QED BY Zenon, <3>1, <3>3, <3>4
  <2> HIDE DEF log
  <2>4. /\ LogOk(Append(log, Wire(m)), sub[k][t], pending'[t], missed[k][t], published + 1)
        /\ LogOk(log, sub[k][t], pending'[t], missed[k][t] \cup {published}, published + 1)
        /\ sub[k][t] = {} => LogOk(log, sub[k][t], pending'[t], missed[k][t], published + 1)
    BY <1>1, <1>2, <1>8, <2>1, LogGrows
  <2>5. CASE t # s
    <3>1. channel'[k][t] = channel[k][t] /\ missed'[k][t] = missed[k][t] /\ pending'[t] = pending[t]
      BY <1>1, <1>3, <1>4, <1>5, <2>2, <2>5
    <3>2. \A i \in DOMAIN log : log[i].n < published + 1
      <4>0. log \in Seq(WireBlob) /\ \A i \in DOMAIN log : log[i].n < published
        BY <2>1 DEF LogOk
      <4>1. \A i \in DOMAIN log : log[i].n \in Nat /\ log[i].n < published
        <5>1. DOMAIN log = 1..Len(log) /\ \A i \in 1..Len(log) : log[i] \in WireBlob
          BY <4>0, LenProperties, ElementOfSeq
        <5> QED BY <4>0, <5>1 DEF WireBlob
      <4> QED BY <1>1, <4>1
    <3>3. LogOk(log, sub[k][t], pending[t], missed[k][t], published + 1)
      BY <2>1, <3>2 DEF LogOk
    <3> QED BY <1>1, <3>1, <3>3 DEF log
  <2>6. CASE t = s /\ k \in reached
    <3>0. PICK b : b = [channel[k][t] EXCEPT !.buf = Append(channel[k][t].buf, Wire(m))]
      OBVIOUS
    <3>1. channel'[k][t].buf = Append(channel[k][t].buf, Wire(m)) /\ missed'[k][t] = missed[k][t]
      <4>1. channel'[k] = [channel[k] EXCEPT ![t] = b] /\ missed'[k] = missed[k]
        BY <1>4, <2>6, <3>0
      <4>2. b.buf = Append(channel[k][t].buf, Wire(m))
        BY <2>2, <3>0
      <4> QED BY <2>2, <4>1, <4>2
    <3> QED BY <1>1, <2>3, <2>4, <3>1
  <2>7. CASE t = s /\ k \in Attached(s) \ reached
    <3>1. channel'[k][t] = channel[k][t] /\ missed'[k][t] = missed[k][t] \cup {published}
      BY <1>4, <2>2, <2>7
    <3> QED BY <1>1, <2>4, <3>1 DEF log
  <2>8. CASE t = s /\ k \notin Attached(s)
    <3>1. channel'[k][t] = channel[k][t] /\ missed'[k][t] = missed[k][t] /\ sub[k][t] = {}
      BY <1>4, <1>5, <2>8 DEF Attached, NotSubscribed
    <3> QED BY <1>1, <2>4, <3>1 DEF log
  <2> QED BY <1>5, <2>5, <2>6, <2>7, <2>8
<1> QED BY <1>8, <1>9, <1>10 DEF BacklogNext

\* A subscription finds the whole backlog in its channel, and no one else's log changes.
LEMMA AttachLogs ==
    ASSUME TypeOK, BacklogInv, NEW k \in Conn, NEW s \in Subject, NEW c, Attach(k, s, c, pending[s]),
           published' = published, pending' \in [Subject -> SUBSET Blob],
           \A t \in Subject : pending'[t] \in SUBSET pending[t]
    PROVE  BacklogNext
<1>1. /\ published \in Nat /\ \A t \in Subject : pending[t] \in SUBSET Blob /\ QueueOk(pending[t], published)
      /\ sub \in [Conn -> [Subject -> SUBSET AnyConsumer]]
  BY DEF TypeOK, BacklogInv
<1>2. /\ channel \in [Conn -> [Subject -> [buf : Seq(WireBlob), cap : Nat]]]
      /\ got \in [Conn -> [Subject -> Seq(WireBlob)]] /\ missed \in [Conn -> [Subject -> SUBSET Nat]]
  BY DEF BacklogInv, WireTypes
<1>3. PICK w, n : /\ w = [i \in 1..Len(Flush(pending[s], c)) |-> Wire(Flush(pending[s], c)[i])]
                  /\ n = Len(Flush(pending[s], c)) + Headroom
  OBVIOUS
<1>4. w \in Seq(WireBlob) /\ n \in Nat /\ LogOk(<<>> \o w, {c}, pending'[s], {}, published)
  <2>1. PICK q, r : q = pending[s] /\ r = pending'[s]
    OBVIOUS
  <2>2. /\ q \in SUBSET Blob /\ published \in Nat /\ QueueOk(q, published) /\ r \in SUBSET q
        /\ w = [i \in 1..Len(Flush(q, c)) |-> Wire(Flush(q, c)[i])]
    BY <1>1, <1>3, <2>1
  <2>3. /\ w \in Seq(WireBlob) /\ Len(Flush(q, c)) \in Nat
        /\ LogOk(<<>> \o w, {c}, r, {}, published)
    BY <2>2, LogFresh
  <2> QED BY <1>3, <2>1, <2>3, NumberAssumption
<1>5. /\ sub' = [sub EXCEPT ![k][s] = {c}] /\ channel' = [channel EXCEPT ![k][s] = [buf |-> w, cap |-> n]]
      /\ got' = [got EXCEPT ![k][s] = <<>>] /\ missed' = [missed EXCEPT ![k][s] = {}]
  BY <1>3 DEF Attach
<1>6. <<>> \in Seq(WireBlob)
  OBVIOUS
<1>7. TypedNext
  BY <1>2, <1>4, <1>5, <1>6 DEF TypedNext
<1>8. \A t \in Subject : QueueOk(pending'[t], published')
  BY <1>1, QueuePart
<1>9. ASSUME NEW x \in Conn, NEW t \in Subject
      PROVE  LogOk(got'[x][t] \o channel'[x][t].buf, sub'[x][t], pending'[t], missed'[x][t], published')
  <2>1. CASE x = k /\ t = s
    <3>1. got'[x][t] = <<>> /\ channel'[x][t].buf = w /\ sub'[x][t] = {c} /\ missed'[x][t] = {}
      BY <1>1, <1>2, <1>5, <2>1
    <3> QED BY <1>4, <2>1, <3>1
  <2>2. CASE ~(x = k /\ t = s)
    <3>1. got'[x][t] = got[x][t] /\ channel'[x][t] = channel[x][t] /\ sub'[x][t] = sub[x][t]
          /\ missed'[x][t] = missed[x][t]
      BY <1>1, <1>2, <1>5, <2>2
    <3>2. LogOk(got[x][t] \o channel[x][t].buf, sub[x][t], pending[t], missed[x][t], published)
      BY DEF BacklogInv
    <3>3. LogOk(got[x][t] \o channel[x][t].buf, sub[x][t], pending'[t], missed[x][t], published)
      <4>1. \A g \in pending'[t] : \E h \in pending[t] : g.n = h.n /\ h.ackedBy \subseteq g.ackedBy
        OBVIOUS
      <4> QED BY <3>2, <4>1, LogAsksLess
    <3> QED BY <3>1, <3>3
  <2> QED BY <2>1, <2>2
<1> QED BY <1>7, <1>8, <1>9 DEF BacklogNext

\* A step that leaves the wires and the stamps alone, and whose queues only lose blobs or
\* gain acks, keeps every log.
LEMMA QuietLogs ==
    ASSUME BacklogInv, UNCHANGED <<sub, channel, got, missed, published>>,
           \A t \in Subject :
              /\ QueueOk(pending'[t], published)
              /\ \A g \in pending'[t] : \E h \in pending[t] : g.n = h.n /\ h.ackedBy \subseteq g.ackedBy
    PROVE  BacklogNext
<1>1. TypedNext
  BY DEF BacklogInv, WireTypes, TypedNext
<1>2. ASSUME NEW k \in Conn, NEW t \in Subject
      PROVE  LogOk(got[k][t] \o channel[k][t].buf, sub[k][t], pending'[t], missed[k][t], published)
  <2>1. LogOk(got[k][t] \o channel[k][t].buf, sub[k][t], pending[t], missed[k][t], published)
    BY DEF BacklogInv
  <2> QED BY <2>1, LogAsksLess
<1> QED BY <1>1, <1>2 DEF BacklogNext

\* A step that changes one log keeps the others.
LEMMA OneLog ==
    ASSUME TypeOK, BacklogInv, NEW k \in Conn, NEW s \in Subject, NEW a, NEW b, NEW cp, NEW sb, NEW ms,
           a \in Seq(WireBlob), b \in Seq(WireBlob), cp \in Nat, ms \in SUBSET Nat,
           sub' = [sub EXCEPT ![k][s] = sb], got' = [got EXCEPT ![k][s] = a],
           channel' = [channel EXCEPT ![k][s] = [buf |-> b, cap |-> cp]],
           missed' = [missed EXCEPT ![k][s] = ms],
           pending' = pending, published' = published,
           LogOk(a \o b, sb, pending[s], ms, published)
    PROVE  BacklogNext
<1>1. /\ channel \in [Conn -> [Subject -> [buf : Seq(WireBlob), cap : Nat]]]
      /\ got \in [Conn -> [Subject -> Seq(WireBlob)]] /\ missed \in [Conn -> [Subject -> SUBSET Nat]]
      /\ sub \in [Conn -> [Subject -> SUBSET AnyConsumer]]
  BY DEF BacklogInv, WireTypes, TypeOK
<1>2. TypedNext
  BY <1>1 DEF TypedNext
<1>3. ASSUME NEW x \in Conn, NEW t \in Subject
      PROVE  LogOk(got'[x][t] \o channel'[x][t].buf, sub'[x][t], pending'[t], missed'[x][t], published')
  <2>1. CASE x = k /\ t = s
    <3>1. got'[x][t] = a /\ channel'[x][t].buf = b /\ sub'[x][t] = sb /\ missed'[x][t] = ms
      BY <1>1, <2>1
    <3> QED BY <2>1, <3>1
  <2>2. CASE ~(x = k /\ t = s)
    <3>1. got'[x][t] = got[x][t] /\ channel'[x][t] = channel[x][t] /\ sub'[x][t] = sub[x][t]
          /\ missed'[x][t] = missed[x][t]
      BY <1>1, <2>2
    <3>2. LogOk(got[x][t] \o channel[x][t].buf, sub[x][t], pending[t], missed[x][t], published)
      BY DEF BacklogInv
    <3> QED BY <3>1, <3>2
  <2> QED BY <2>1, <2>2
<1>4. \A t \in Subject : QueueOk(pending'[t], published')
  BY DEF BacklogInv
<1> QED BY <1>2, <1>3, <1>4 DEF BacklogNext

\* A subscriber sees its backlog first and in the order of publication, and a held blob it
\* has not acked is in its log unless the channel was full when it was published, for any
\* number of connections, mailboxes, blobs and acks.
THEOREM BacklogFirst == Spec => []BacklogCompleteAndFirst
<1>1. Init => BacklogInv
  <2> SUFFICES ASSUME Init PROVE BacklogInv
    OBVIOUS
  <2>1. WireTypes
    BY DEF Init, WireTypes
  <2>2. \A s \in Subject : QueueOk(pending[s], published)
    BY FS_EmptySet DEF Init, QueueOk, Stamped
  <2>3. \A k \in Conn, s \in Subject : sub[k][s] = {} /\ got[k][s] = <<>> /\ channel[k][s].buf = <<>>
    BY DEF Init, NotSubscribed
  <2>4. <<>> \o <<>> = <<>> /\ <<>> \in Seq(WireBlob) /\ DOMAIN <<>> = {}
    BY ConcatEmptySeq, EmptySeq
  <2>5. \A q, ms, p : LogOk(<<>>, {}, q, ms, p)
    BY <2>4 DEF LogOk
  <2>6. \A k \in Conn, s \in Subject :
           LogOk(got[k][s] \o channel[k][s].buf, sub[k][s], pending[s], missed[k][s], published)
    <3> SUFFICES ASSUME NEW k \in Conn, NEW s \in Subject
                 PROVE  LogOk(got[k][s] \o channel[k][s].buf, sub[k][s], pending[s], missed[k][s], published)
      OBVIOUS
    <3>1. got[k][s] \o channel[k][s].buf = <<>> /\ sub[k][s] = {}
      BY <2>3, <2>4
    <3> QED BY <2>5, <3>1
  <2> QED BY <2>1, <2>2, <2>6 DEF BacklogInv
<1>2. TypeOK /\ TypeOK' /\ BacklogInv /\ [Next]_vars => BacklogInv'
  <2> SUFFICES ASSUME TypeOK, TypeOK', BacklogInv, [Next]_vars PROVE BacklogNext
    <3> SUFFICES ASSUME BacklogNext PROVE BacklogInv'
      OBVIOUS
    <3>1. WireTypes'
      BY DEF BacklogNext, TypedNext, WireTypes
    <3>2. \A s \in Subject : QueueOk(pending[s], published)'
      BY DEF BacklogNext, QueueOk, Stamped
    <3>3. \A k \in Conn, s \in Subject :
             LogOk(got[k][s] \o channel[k][s].buf, sub[k][s], pending[s], missed[k][s], published)'
      BY Zenon DEF BacklogNext, LogOk
    <3> QED BY <3>1, <3>2, <3>3 DEF BacklogInv
  <2>1. \A t \in Subject : pending[t] \in SUBSET Blob /\ QueueOk(pending[t], published)
    BY DEF TypeOK, BacklogInv
  <2>2. pending \in [Subject -> SUBSET Blob] /\ pending' \in [Subject -> SUBSET Blob]
    BY DEF TypeOK
  <2>3. ASSUME UNCHANGED <<sub, channel, got, missed, published>>,
               \A t \in Subject : pending'[t] \in SUBSET pending[t]
        PROVE  BacklogNext
    <3>1. \A t \in Subject :
              /\ QueueOk(pending'[t], published)
              /\ \A g \in pending'[t] : \E h \in pending[t] : g.n = h.n /\ h.ackedBy \subseteq g.ackedBy
      BY <2>1, <2>3, QueuePart
    <3> QED BY <2>3, <3>1, QuietLogs
  <2>4. ASSUME NEW s \in Subject, NEW id \in Id, NEW ttl \in TTLs, Publish(s, id, ttl)
        PROVE  BacklogNext
    BY <2>4, PublishLogs
  <2>5. ASSUME NEW k \in Conn, NEW s \in Subject, NEW c \in Consumer, SubscribeConsumer(k, s, c)
        PROVE  BacklogNext
    <3>1. Attach(k, s, c, pending[s]) /\ published' = published /\ pending' = pending
      BY <2>5 DEF SubscribeConsumer
    <3> QED BY <2>2, <3>1, AttachLogs
  <2>6. ASSUME NEW k \in Conn, NEW s \in Subject, SubscribeLegacy(k, s)
        PROVE  BacklogNext
    <3>1. /\ Attach(k, s, Legacy, pending[s]) /\ published' = published
          /\ \A t \in Subject : pending'[t] \in SUBSET pending[t]
      BY <2>2, <2>6 DEF SubscribeLegacy
    <3> QED BY <2>2, <3>1, AttachLogs
  <2>7. ASSUME NEW k \in Conn, NEW s \in Subject, Receive(k, s)
        PROVE  BacklogNext
    <3>1. PICK a, b, cp : a = got[k][s] /\ b = channel[k][s].buf /\ cp = channel[k][s].cap
      OBVIOUS
    <3>2. /\ channel \in [Conn -> [Subject -> [buf : Seq(WireBlob), cap : Nat]]]
          /\ got \in [Conn -> [Subject -> Seq(WireBlob)]] /\ missed \in [Conn -> [Subject -> SUBSET Nat]]
          /\ sub \in [Conn -> [Subject -> SUBSET AnyConsumer]]
      BY DEF BacklogInv, WireTypes, TypeOK
    <3>3. a \in Seq(WireBlob) /\ b \in Seq(WireBlob) /\ cp \in Nat /\ b # <<>>
          /\ missed[k][s] \in SUBSET Nat /\ channel[k][s] = [buf |-> b, cap |-> cp]
      BY <2>7, <3>1, <3>2 DEF Receive
    <3>4. Head(b) \in WireBlob /\ Tail(b) \in Seq(WireBlob) /\ Append(a, Head(b)) \in Seq(WireBlob)
      BY <3>3, HeadTailProperties, AppendProperties
    <3>5. /\ channel' = [channel EXCEPT ![k][s] = [buf |-> Tail(b), cap |-> cp]]
          /\ got' = [got EXCEPT ![k][s] = Append(a, Head(b))]
          /\ pending' = pending /\ published' = published
      <4>1. channel' = [channel EXCEPT ![k][s].buf = Tail(b)] /\ got' = [got EXCEPT ![k][s] = Append(a, Head(b))]
            /\ pending' = pending /\ published' = published
        BY <2>7, <3>1, <3>2 DEF Receive, queues
      <4>2. [channel[k][s] EXCEPT !.buf = Tail(b)] = [buf |-> Tail(b), cap |-> cp]
        <5>1. PICK r, tl : r = channel[k][s] /\ tl = Tail(b)
          OBVIOUS
        <5>2. r = [buf |-> b, cap |-> cp]
          BY <3>3, <5>1
        <5>3. [r EXCEPT !.buf = tl] = [buf |-> tl, cap |-> cp]
          BY <5>2
        <5> QED BY <5>1, <5>3
      <4>3. channel' = [channel EXCEPT ![k] = [channel[k] EXCEPT ![s] = [channel[k][s] EXCEPT !.buf = Tail(b)]]]
        BY <4>1
      <4>4. channel' = [channel EXCEPT ![k] = [channel[k] EXCEPT ![s] = [buf |-> Tail(b), cap |-> cp]]]
        BY <4>2, <4>3
      <4> QED BY <4>1, <4>4
    <3>6. sub' = [sub EXCEPT ![k][s] = sub[k][s]] /\ missed' = [missed EXCEPT ![k][s] = missed[k][s]]
      BY <2>7, <3>2 DEF Receive
    <3>7. LogOk(Append(a, Head(b)) \o Tail(b), sub[k][s], pending[s], missed[k][s], published)
      <4>1. LogOk(a \o b, sub[k][s], pending[s], missed[k][s], published)
        BY <3>1 DEF BacklogInv
      <4> QED BY <3>3, <4>1, ReadKeepsLog
    <3> QED BY <3>3, <3>4, <3>5, <3>6, <3>7, OneLog
  <2>8. ASSUME NEW k \in Conn, NEW s \in Subject, detach(k, s)
        PROVE  BacklogNext
    <3>1. /\ channel' = [channel EXCEPT ![k][s] = [buf |-> <<>>, cap |-> 0]]
          /\ got' = [got EXCEPT ![k][s] = <<>>] /\ sub' = [sub EXCEPT ![k][s] = {}]
          /\ missed' = [missed EXCEPT ![k][s] = {}] /\ pending' = pending /\ published' = published
      BY <2>8 DEF detach, NotSubscribed
    <3>2. <<>> \o <<>> = <<>> /\ <<>> \in Seq(WireBlob) /\ DOMAIN <<>> = {} /\ 0 \in Nat /\ {} \in SUBSET Nat
      BY ConcatEmptySeq, EmptySeq
    <3>3. LogOk(<<>> \o <<>>, {}, pending[s], {}, published)
      BY <3>2 DEF LogOk
    <3> QED BY <3>1, <3>2, <3>3, OneLog
  <2>9. ASSUME NEW p \in Subject \X AnyConsumer, ackLocked(p)
        PROVE  BacklogNext
    <3>1. UNCHANGED <<sub, channel, got, missed, published>> /\ p[1] \in Subject
      BY <2>9 DEF ackLocked, wires
    <3>2. CASE AckLegacy(p)
      <4>1. \A t \in Subject : pending'[t] \in SUBSET pending[t]
        BY <2>2, <3>1, <3>2 DEF AckLegacy
      <4> QED BY <2>3, <3>1, <4>1
    <3>3. CASE AckConsumer(p)
      <4>0. PICK ls : pending' = [pending EXCEPT ![p[1]] =
                 dropFullyAcked(Mark(pending[p[1]], acking.id, p[2]), Registered(ls, p[1]))]
        BY <3>3 DEF AckConsumer
      <4>1. PICK marked, rest : /\ marked = Mark(pending[p[1]], acking.id, p[2]) /\ rest \in SUBSET marked
                                /\ pending' = [pending EXCEPT ![p[1]] = rest]
        BY <4>0 DEF dropFullyAcked
      <4>2. /\ QueueOk(marked, published)
            /\ \A g \in marked : \E h \in pending[p[1]] : g.n = h.n /\ h.ackedBy \subseteq g.ackedBy
        <5>1. PICK q, id, c : q = pending[p[1]] /\ id = acking.id /\ c = p[2]
          OBVIOUS
        <5>2. q \in SUBSET Blob /\ QueueOk(q, published) /\ marked = Mark(q, id, c)
          BY <2>1, <3>1, <4>1, <5>1
        <5>3. /\ QueueOk(Mark(q, id, c), published)
              /\ \A g \in Mark(q, id, c) : \E h \in q : g.n = h.n /\ h.ackedBy \subseteq g.ackedBy
          BY <5>2, QueueMarked
        <5> QED BY <5>1, <5>2, <5>3
      <4>3. QueueOk(rest, published)
        BY <4>1, <4>2, QueuePart
      <4>4. \A t \in Subject :
              /\ QueueOk(pending'[t], published)
              /\ \A g \in pending'[t] : \E h \in pending[t] : g.n = h.n /\ h.ackedBy \subseteq g.ackedBy
        BY <2>1, <2>2, <3>1, <4>1, <4>2, <4>3
      <4> QED BY <3>1, <4>4, QuietLogs
    <3> QED BY <2>9, <3>2, <3>3 DEF ackLocked
  <2>10. ASSUME sweep PROVE BacklogNext
    <3>1. UNCHANGED <<sub, channel, got, missed, published>> /\ \A t \in Subject : pending'[t] \in SUBSET pending[t]
      BY <2>10 DEF sweep, wires, Swept, dropFullyAcked, Unexpired
    <3> QED BY <2>3, <3>1
  <2>11. ASSUME Close PROVE BacklogNext
    <3>1. UNCHANGED <<sub, channel, got, missed, published>> /\ \A t \in Subject : pending'[t] \in SUBSET pending[t]
      BY <2>11 DEF Close, wires
    <3> QED BY <2>3, <3>1
  <2>12. ASSUME UNCHANGED <<pending, sub, channel, got, missed, published>> PROVE BacklogNext
    BY <2>3, <2>12
  <2> QED BY <2>4, <2>5, <2>6, <2>7, <2>8, <2>9, <2>10, <2>11, <2>12
          DEF Next, Disconnect, Connect, AckAcross, Tick, queues, wires, vars
<1>3. BacklogInv => BacklogCompleteAndFirst
  BY DEF BacklogInv, LogOk, BacklogCompleteAndFirst, ChannelLog
<1> QED BY <1>1, <1>2, <1>3, TypeCorrect, PTL DEF Spec
=============================================================================
