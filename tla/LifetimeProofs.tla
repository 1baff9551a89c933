--------------------------- MODULE LifetimeProofs ---------------------------
(***************************************************************************)
(* Proofs about one device's messages, for every set of messages, every    *)
(* number of tabs and every environment: types, burn-on-read, the ack that *)
(* waits for the store, and the recall that cannot be undone.              *)
(***************************************************************************)
EXTENDS Lifetime, SequenceTheorems, TLAPS

\* The jobs of an apply chain over the frames of S.
JobOver(S) == [frame : S, at : {"queued", "writing"}, live : BOOLEAN]

InboundTypes ==
    /\ regime \in Regimes /\ sent \subseteq Frame
    /\ wire \in Seq(sent) /\ mail \in Seq(sent) /\ todo \in [Tab -> Seq(sent)]
    /\ chain \in [Tab -> Seq(JobOver(sent))]
    /\ applied \subseteq sent /\ acked \subseteq applied
    /\ ratchet \in [Tab -> SUBSET sent] /\ disk \subseteq sent
    /\ link \in [Tab -> BOOLEAN] /\ \A t \in Tab : link[t] => t \in running

TabTypes ==
    /\ running \subseteq regime.tabs
    /\ timers \in [Tab -> SUBSET Timed]
    /\ view \in [Tab -> {NoView} \cup [m : Burn \cup Timed, at : {"listed", "holding"}]]
    /\ \A t \in Tab \ running : timers[t] = {} /\ view[t] = NoView

StoreTypes ==
    /\ store \in [Message -> {"absent", "held", "armed", "tombstone"}]
    /\ \A m \in Message : /\ store[m] = "tombstone" => m \in Burn
                          /\ store[m] = "armed" => m \in Timed
    /\ shown \in [Burn -> Nat] /\ revived \in [Burn -> Nat]

\* Only the first apply of a tab's chain is past its read, and while that tab is the only
\* one in use, a burn-on-read message that it is about to store is still not stored.
OneWriter ==
    \A t \in Tab : \A i \in DOMAIN chain[t] : chain[t][i].at = "writing" =>
        /\ i = 1
        /\ \A m \in Burn : chain[t][i].frame = Text(m) /\ regime.tabs = {t} => store[m] = "absent"

\* A burn-on-read message is shown exactly when its key goes, by the one tab that holds
\* its lock; it is shown again only after its tombstone was overwritten.
BurnLock ==
    /\ \A m \in Burn : shown[m] = revived[m] + (IF store[m] = "tombstone" THEN 1 ELSE 0)
    /\ OneTabInUse => \A m \in Burn : revived[m] = 0
    /\ \A t \in Tab, m \in Burn : view[t] = Viewing(m, "holding") =>
          store[m] = "held" /\ \A u \in Tab : view[u] = Viewing(m, "holding") => u = t

\* What was applied is in the store, or was destroyed there.
AppliedIsDurable ==
    \A m \in Message : Text(m) \in applied => store[m] # "absent" \/ m \in erased

LifetimeInv ==
    InboundTypes /\ TabTypes /\ StoreTypes /\ OneWriter /\ BurnLock /\ AppliedIsDurable

-----------------------------------------------------------------------------
(* Sequences.                                                              *)

\* A sequence over S is one over every superset of S (the frames sent only grow).
LEMMA SeqGrows ==
  ASSUME NEW S, NEW T, S \subseteq T, NEW s \in Seq(S)
  PROVE  s \in Seq(T)
BY SeqMonotonic

\* Taking an element out of a queue: the ones before it keep their place, the ones
\* after it move up.
LEMMA RemoveIndexKeeps ==
  ASSUME NEW S, NEW s \in Seq(S), NEW i \in 1..Len(s)
  PROVE  /\ RemoveIndex(s, i) \in Seq(S) /\ Len(RemoveIndex(s, i)) = Len(s) - 1
         /\ \A j \in 1..(i - 1) : RemoveIndex(s, i)[j] = s[j]
         /\ \A j \in i..(Len(s) - 1) : RemoveIndex(s, i)[j] = s[j + 1]
<1> DEFINE a == SubSeq(s, 1, i - 1)
           b == SubSeq(s, i + 1, Len(s))
<1>1. RemoveIndex(s, i) = a \o b
  BY DEF RemoveIndex
<1>2. /\ a \in Seq(S) /\ Len(a) = i - 1 /\ b \in Seq(S) /\ Len(b) = Len(s) - i
      /\ \A j \in 1..(i - 1) : a[j] = s[j]
      /\ \A j \in 1..(Len(s) - i) : b[j] = s[i + j]
  OBVIOUS
<1> HIDE DEF a, b
<1>3. /\ a \o b \in Seq(S) /\ Len(a \o b) = Len(a) + Len(b)
      /\ \A j \in 1..(Len(a) + Len(b)) :
           (a \o b)[j] = IF j <= Len(a) THEN a[j] ELSE b[j - Len(a)]
  BY <1>2, ConcatProperties
<1>4. \A j \in i..(Len(s) - 1) : (a \o b)[j] = b[j - (i - 1)] /\ j - (i - 1) \in 1..(Len(s) - i)
  BY <1>2, <1>3
<1>5. \A j \in i..(Len(s) - 1) : (a \o b)[j] = s[i + (j - (i - 1))]
  BY <1>2, <1>4
<1>6. \A j \in i..(Len(s) - 1) : i + (j - (i - 1)) = j + 1
  OBVIOUS
<1> QED BY <1>1, <1>2, <1>3, <1>5, <1>6

\* The first apply of the chain is done: the others move up.
LEMMA RemoveHead ==
  ASSUME NEW S, NEW s \in Seq(S), 1 \in DOMAIN s
  PROVE  /\ RemoveIndex(s, 1) \in Seq(S) /\ Len(RemoveIndex(s, 1)) = Len(s) - 1
         /\ DOMAIN RemoveIndex(s, 1) = 1..(Len(s) - 1)
         /\ \A j \in DOMAIN RemoveIndex(s, 1) : j + 1 \in DOMAIN s /\ RemoveIndex(s, 1)[j] = s[j + 1]
BY RemoveIndexKeeps

\* An acked frame leaves the mailbox.
LEMMA WithoutTypes ==
  ASSUME NEW S, NEW s \in Seq(S), NEW f
  PROVE  Without(s, f) \in Seq(S)
<1>1. CASE \E i \in DOMAIN s : s[i] = f
  <2>1. (CHOOSE i \in DOMAIN s : s[i] = f) \in 1..Len(s)
    BY <1>1
  <2> QED BY <1>1, <2>1, RemoveIndexKeeps DEF Without
<1>2. CASE ~\E i \in DOMAIN s : s[i] = f
  BY <1>2 DEF Without
<1> QED BY <1>1, <1>2

-----------------------------------------------------------------------------
(* Frames.                                                                 *)

\* What a frame is about, by its kind.
LEMMA FrameShape ==
  ASSUME NEW f \in Frame
  PROVE  \/ f.kind = "text" /\ f.m \in Message /\ f = Text(f.m)
         \/ f.kind = "revoke" /\ f.m \in Recallable /\ f = Recall(f.m)
BY DEF Frame, Text, Recall

\* The tabs of an environment are tabs.
LEMMA RegimeTabs ==
  ASSUME regime \in Regimes
  PROVE  regime.tabs \subseteq Tab
BY LifetimeAssumption DEF Regime

-----------------------------------------------------------------------------
(* The steps.                                                              *)

\* An apply that is done leaves its tab's chain; its frame is applied and perhaps acked.
LEMMA DoneKeeps ==
  ASSUME InboundTypes, OneWriter, NEW t \in Tab, NEW i,
         Unsettled(t, i, "queued") \/ Unsettled(t, i, "writing"), Done(t, i)
  PROVE  /\ i = 1 /\ 1 \in DOMAIN chain[t]
         /\ chain[t][1] \in JobOver(sent)
         /\ chain' \in [Tab -> Seq(JobOver(sent))] /\ mail' \in Seq(sent)
         /\ \A u \in Tab : u # t => chain'[u] = chain[u]
         /\ chain'[t] = RemoveIndex(chain[t], 1)
         /\ applied' = applied \cup {chain[t][1].frame} /\ applied' \subseteq sent
         /\ acked' \subseteq applied'
         /\ \A j \in DOMAIN chain'[t] : chain'[t][j].at # "writing"
<1>1. i = 1 /\ 1 \in DOMAIN chain[t] /\ chain[t] \in Seq(JobOver(sent))
  BY DEF Unsettled, Turn, InboundTypes
<1>2. /\ chain' = [chain EXCEPT ![t] = RemoveIndex(chain[t], 1)]
      /\ applied' = applied \cup {chain[t][1].frame}
      /\ mail' = mail \/ mail' = Without(mail, chain[t][1].frame)
      /\ acked' = acked \/ acked' = acked \cup {chain[t][1].frame}
  BY <1>1 DEF Done
<1>3. chain[t][1] \in JobOver(sent) /\ chain[t][1].frame \in sent
  <2>1. chain[t][1] \in JobOver(sent)
    BY <1>1
  <2> QED BY <2>1 DEF JobOver
<1>4. RemoveIndex(chain[t], 1) \in Seq(JobOver(sent))
  BY <1>1, RemoveHead
<1>5. /\ chain' \in [Tab -> Seq(JobOver(sent))]
      /\ chain'[t] = RemoveIndex(chain[t], 1) /\ \A u \in Tab : u # t => chain'[u] = chain[u]
  BY <1>2, <1>4 DEF InboundTypes
<1>6. \A j \in DOMAIN chain'[t] : j + 1 \in DOMAIN chain[t] /\ chain'[t][j] = chain[t][j + 1]
                                  /\ j \in Nat \ {0}
  BY <1>1, <1>5, RemoveHead
<1>7. \A j \in DOMAIN chain'[t] : chain'[t][j].at # "writing"
  BY <1>6 DEF OneWriter
<1>8. mail' \in Seq(sent)
  BY <1>2, WithoutTypes DEF InboundTypes
<1> QED BY <1>1, <1>2, <1>3, <1>5, <1>7, <1>8 DEF InboundTypes

\* Steps that leave the records of burn messages and the apply chains alone.
LEMMA SameWriters ==
  ASSUME OneWriter, UNCHANGED <<chain, regime>>, \A m \in Burn : store'[m] = store[m]
  PROVE  OneWriter'
BY DEF OneWriter

\* Steps that change the chain of one tab: what is past its read was so before, or is the
\* first apply and has just read.
LEMMA WritersMove ==
  ASSUME OneWriter, NEW t \in Tab, UNCHANGED <<store, regime>>,
         \A u \in Tab : u # t => chain'[u] = chain[u],
         \A j \in DOMAIN chain'[t] : chain'[t][j].at = "writing" =>
            \/ /\ j \in DOMAIN chain[t] /\ chain[t][j].at = "writing"
               /\ chain'[t][j].frame = chain[t][j].frame
            \/ j = 1 /\ \A m \in Burn : chain'[t][j].frame = Text(m) => store[m] = "absent"
  PROVE  OneWriter'
<1> SUFFICES ASSUME NEW u \in Tab, NEW i \in DOMAIN chain'[u], chain'[u][i].at = "writing"
             PROVE  /\ i = 1
                    /\ \A m \in Burn : chain'[u][i].frame = Text(m) /\ regime.tabs = {u} => store[m] = "absent"
  BY DEF OneWriter
<1>1. CASE u = t
  BY <1>1 DEF OneWriter
<1>2. CASE u # t
  <2>1. chain'[u] = chain[u]
    BY <1>2
  <2> QED BY <2>1 DEF OneWriter
<1> QED BY <1>1, <1>2

\* Steps that leave the burn messages and the views of them alone.
LEMMA SameLatches ==
  ASSUME BurnLock, UNCHANGED <<shown, revived, regime>>, \A m \in Burn : store'[m] = store[m],
         \A t \in Tab : \A n : view'[t] = Viewing(n, "holding") => view[t] = Viewing(n, "holding")
  PROVE  BurnLock'
BY DEF BurnLock, OneTabInUse

\* An apply that begins its write keeps its frame, its place and its connection.
LEMMA WritingKeeps ==
  ASSUME InboundTypes, NEW t \in Tab, 1 \in DOMAIN chain[t], Writing(t, 1)
  PROVE  /\ chain' \in [Tab -> Seq(JobOver(sent))] /\ \A u \in Tab : u # t => chain'[u] = chain[u]
         /\ DOMAIN chain'[t] = DOMAIN chain[t]
         /\ \A j \in DOMAIN chain[t] : /\ chain'[t][j].frame = chain[t][j].frame
                                       /\ chain'[t][j].live = chain[t][j].live
                                       /\ j # 1 => chain'[t][j] = chain[t][j]
<1> DEFINE j1 == [chain[t][1] EXCEPT !.at = "writing"]
           s == [chain[t] EXCEPT ![1] = j1]
<1>1. chain[t] \in Seq(JobOver(sent)) /\ 1 \in 1..Len(chain[t]) /\ chain[t][1] \in JobOver(sent)
  BY DEF InboundTypes
<1>2. j1 \in JobOver(sent) /\ j1.frame = chain[t][1].frame /\ j1.live = chain[t][1].live
  BY <1>1 DEF JobOver
<1>3. chain' = [chain EXCEPT ![t] = s]
  BY DEF Writing
<1> HIDE DEF j1
<1>4. s \in Seq(JobOver(sent)) /\ DOMAIN s = DOMAIN chain[t]
      /\ \A j \in DOMAIN chain[t] : s[j] = IF j = 1 THEN j1 ELSE chain[t][j]
  BY <1>1, <1>2
<1> HIDE DEF s
<1>5. /\ chain' \in [Tab -> Seq(JobOver(sent))] /\ chain'[t] = s
      /\ \A u \in Tab : u # t => chain'[u] = chain[u]
  BY <1>3, <1>4 DEF InboundTypes
<1> QED BY <1>2, <1>4, <1>5

\* The applies of a connection that is gone stay in the chain without it.
Dead(s) == [i \in DOMAIN s |-> [s[i] EXCEPT !.live = FALSE]]

\* They keep their frames, their steps and their places.
LEMMA DeadKeeps ==
  ASSUME NEW S, NEW s \in Seq(JobOver(S))
  PROVE  /\ Dead(s) \in Seq(JobOver(S)) /\ DOMAIN Dead(s) = DOMAIN s
         /\ \A j \in DOMAIN s : /\ Dead(s)[j].at = s[j].at /\ Dead(s)[j].frame = s[j].frame
                                /\ Dead(s)[j].live = FALSE
<1>1. \A j \in 1..Len(s) : s[j] \in JobOver(S)
  OBVIOUS
<1>2. \A j \in 1..Len(s) : /\ [s[j] EXCEPT !.live = FALSE] \in JobOver(S)
                           /\ [s[j] EXCEPT !.live = FALSE].at = s[j].at
                           /\ [s[j] EXCEPT !.live = FALSE].frame = s[j].frame
                           /\ [s[j] EXCEPT !.live = FALSE].live = FALSE
  BY <1>1 DEF JobOver
<1>3. DOMAIN s = 1..Len(s) /\ Len(s) \in Nat
  OBVIOUS
<1>4. Dead(s) \in [1..Len(s) -> JobOver(S)]
  BY <1>2, <1>3 DEF Dead
<1>5. Dead(s) \in Seq(JobOver(S))
  BY <1>3, <1>4, SeqDef
<1> QED BY <1>2, <1>3, <1>5 DEF Dead

\* One step of the device preserves LifetimeInv.
LEMMA LifetimeStepKeeps ==
  ASSUME LifetimeInv, [Next]_vars
  PROVE  LifetimeInv'
<1> USE DEF LifetimeInv
<1>1. ASSUME NEW f \in Frame, Send(f), UNCHANGED regime PROVE LifetimeInv'
  <2> DEFINE S == sent \cup {f}
  <2>1. sent' = S /\ wire' = Append(wire, f)
        /\ UNCHANGED <<gateway, chain, keys, vault, tabs, applied, faults>>
    BY <1>1 DEF Send
  <2>2. wire' \in Seq(S) /\ mail \in Seq(S) /\ \A t \in Tab : todo[t] \in Seq(S)
    <3>1. wire \in Seq(S) /\ mail \in Seq(S) /\ \A t \in Tab : todo[t] \in Seq(S)
      BY SeqGrows DEF InboundTypes
    <3> QED BY <2>1, <3>1, AppendProperties
  <2>3. \A t \in Tab : chain[t] \in Seq(JobOver(S))
    <3>1. JobOver(sent) \subseteq JobOver(S)
      BY DEF JobOver
    <3> QED BY <3>1, SeqGrows DEF InboundTypes
  <2>4. todo \in [Tab -> Seq(S)] /\ chain \in [Tab -> Seq(JobOver(S))] /\ ratchet \in [Tab -> SUBSET S]
    BY <2>2, <2>3 DEF InboundTypes
  <2> HIDE DEF S
  <2>5. sent \subseteq S /\ S \subseteq Frame
    BY DEF S, InboundTypes
  <2>6. InboundTypes'
    BY <1>1, <2>1, <2>2, <2>4, <2>5 DEF InboundTypes, gateway, keys, tabs
  <2> QED BY <1>1, <2>1, <2>6 DEF TabTypes, StoreTypes, OneWriter, BurnLock, OneTabInUse,
             AppliedIsDurable, vault, tabs
<1>2. ASSUME NEW i \in DOMAIN wire, Arrive(i), UNCHANGED regime PROVE LifetimeInv'
  <2>1. wire[i] \in sent /\ RemoveIndex(wire, i) \in Seq(sent)
    BY RemoveIndexKeeps DEF InboundTypes
  <2>2. /\ wire' = RemoveIndex(wire, i) /\ mail' = Append(mail, wire[i])
        /\ todo' = [t \in Tab |-> IF link[t] THEN Append(todo[t], wire[i]) ELSE todo[t]]
        /\ UNCHANGED <<sent, link, acked, chain, keys, vault, tabs, applied, faults>>
    BY <1>2 DEF Arrive
  <2>3. Append(mail, wire[i]) \in Seq(sent) /\ \A t \in Tab : Append(todo[t], wire[i]) \in Seq(sent)
    BY <2>1, AppendProperties DEF InboundTypes
  <2>4. todo' \in [Tab -> Seq(sent)]
    BY <2>2, <2>3 DEF InboundTypes
  <2>5. InboundTypes'
    BY <1>2, <2>1, <2>2, <2>3, <2>4 DEF InboundTypes, keys, tabs
  <2> QED BY <1>2, <2>2, <2>5 DEF TabTypes, StoreTypes, OneWriter, BurnLock, OneTabInUse,
             AppliedIsDurable, vault, tabs
<1>3. ASSUME NEW t \in Tab, onGroupMessage(t), UNCHANGED regime PROVE LifetimeInv'
  <2> DEFINE f == Head(todo[t])
  <2>1. f \in sent /\ Tail(todo[t]) \in Seq(sent) /\ Job(f) \in JobOver(sent)
    <3>1. todo[t] \in Seq(sent) /\ todo[t] # <<>>
      BY <1>3 DEF onGroupMessage, InboundTypes
    <3>2. f \in sent /\ Tail(todo[t]) \in Seq(sent)
      BY <3>1
    <3> QED BY <3>2 DEF Job, JobOver
  <2>2. /\ todo' = [todo EXCEPT ![t] = Tail(todo[t])]
        /\ \/ ratchet' = ratchet /\ chain' = chain
           \/ /\ ratchet' = [ratchet EXCEPT ![t] = ratchet[t] \cup {f}]
              /\ chain' = [chain EXCEPT ![t] = Append(chain[t], Job(f))]
        /\ UNCHANGED <<inbound, mail, link, acked, disk, flush, vault, tabs, applied, faults>>
    BY <1>3 DEF onGroupMessage
  <2> HIDE DEF f
  <2>3. chain[t] \in Seq(JobOver(sent)) /\ Append(chain[t], Job(f)) \in Seq(JobOver(sent))
    BY <2>1, AppendProperties DEF InboundTypes
  <2>4. todo' \in [Tab -> Seq(sent)] /\ chain' \in [Tab -> Seq(JobOver(sent))]
        /\ ratchet' \in [Tab -> SUBSET sent]
        /\ \A u \in Tab : chain'[u] = chain[u] \/ (u = t /\ chain'[u] = Append(chain[t], Job(f)))
    BY ZenonT(60), <2>1, <2>2, <2>3 DEF InboundTypes
  <2>5. InboundTypes'
    BY <1>3, <2>2, <2>4 DEF InboundTypes, inbound, tabs
  <2>6. \A j \in DOMAIN Append(chain[t], Job(f)) : Append(chain[t], Job(f))[j].at = "writing" =>
            j \in DOMAIN chain[t] /\ Append(chain[t], Job(f))[j] = chain[t][j]
    BY <2>3 DEF Job
  <2>7. OneWriter'
    <3>1. UNCHANGED <<store, regime>> /\ \A u \in Tab : u # t => chain'[u] = chain[u]
      BY <1>3, <2>2, <2>4 DEF vault
    <3>2. \A j \in DOMAIN chain'[t] : chain'[t][j].at = "writing" =>
              j \in DOMAIN chain[t] /\ chain[t][j].at = "writing" /\ chain'[t][j].frame = chain[t][j].frame
      BY <2>4, <2>6
    <3> QED BY <3>1, <3>2, WritersMove
  <2> QED BY <1>3, <2>2, <2>5, <2>7 DEF TabTypes, StoreTypes, BurnLock, OneTabInUse, AppliedIsDurable,
             vault, tabs
<1>4. ASSUME NEW t \in Tab, NEW i \in DOMAIN chain[t], ApplyRead(t, i), UNCHANGED regime
      PROVE  LifetimeInv'
  <2> DEFINE f == chain[t][i].frame
  <2>1. UNCHANGED <<inbound, todo, link, ratchet, disk, vault, tabs, faults>>
    BY <1>4 DEF ApplyRead
  <2>2. CASE (f.kind = "revoke") = (store[f.m] = "absent")
    <3>1. Unsettled(t, i, "queued") /\ Done(t, i)
      BY <1>4, <2>2 DEF ApplyRead
    <3>2. /\ i = 1 /\ 1 \in DOMAIN chain[t] /\ chain[t][1] \in JobOver(sent)
          /\ chain' \in [Tab -> Seq(JobOver(sent))] /\ mail' \in Seq(sent)
          /\ \A u \in Tab : u # t => chain'[u] = chain[u]
          /\ applied' = applied \cup {f} /\ applied' \subseteq sent /\ acked' \subseteq applied'
          /\ \A j \in DOMAIN chain'[t] : chain'[t][j].at # "writing"
      BY <3>1, DoneKeeps
    <3>3. InboundTypes'
      BY <1>4, <2>1, <3>2 DEF InboundTypes, inbound, tabs
    <3>4. OneWriter'
      BY <1>4, <2>1, <3>2, WritersMove DEF vault
    <3>5. \A m \in Message : f = Text(m) => store[m] # "absent"
      BY <2>2 DEF Text
    <3>6. AppliedIsDurable'
      BY <2>1, <3>2, <3>5 DEF AppliedIsDurable, vault
    <3> QED BY <1>4, <2>1, <3>3, <3>4, <3>6 DEF TabTypes, StoreTypes, BurnLock, OneTabInUse, vault, tabs
  <2>3. CASE (f.kind = "revoke") # (store[f.m] = "absent")
    <3>1. i = 1 /\ Writing(t, 1) /\ UNCHANGED <<mail, acked, flush, applied>>
      BY <1>4, <2>3 DEF ApplyRead, Unsettled, Turn
    <3>2. \A m \in Burn : f = Text(m) => store[m] = "absent"
      BY <2>3 DEF Text
    <3>3. /\ chain' \in [Tab -> Seq(JobOver(sent))] /\ \A u \in Tab : u # t => chain'[u] = chain[u]
          /\ DOMAIN chain'[t] = DOMAIN chain[t]
          /\ \A j \in DOMAIN chain[t] : /\ chain'[t][j].frame = chain[t][j].frame
                                        /\ j # 1 => chain'[t][j] = chain[t][j]
      BY <1>4, <3>1, WritingKeeps
    <3>4. OneWriter'
      <4>1. UNCHANGED <<store, regime>>
        BY <1>4, <2>1 DEF vault
      <4>2. \A j \in DOMAIN chain'[t] : chain'[t][j].at = "writing" =>
               \/ /\ j \in DOMAIN chain[t] /\ chain[t][j].at = "writing"
                  /\ chain'[t][j].frame = chain[t][j].frame
               \/ j = 1 /\ \A m \in Burn : chain'[t][j].frame = Text(m) => store[m] = "absent"
        BY <3>1, <3>2, <3>3
      <4> QED BY <3>3, <4>1, <4>2, WritersMove
    <3>5. InboundTypes'
      BY <1>4, <2>1, <3>1, <3>3 DEF InboundTypes, inbound, tabs
    <3> QED BY <1>4, <2>1, <3>1, <3>4, <3>5 DEF TabTypes, StoreTypes, BurnLock, OneTabInUse,
               AppliedIsDurable, vault, tabs
  <2> QED BY <2>2, <2>3
<1>5. ASSUME NEW t \in Tab, NEW i \in DOMAIN chain[t], ApplyWrite(t, i), UNCHANGED regime
      PROVE  LifetimeInv'
  <2> DEFINE f == chain[t][i].frame
  <2>1. UNCHANGED <<inbound, todo, link, ratchet, disk, tabs, faults>> /\ Unsettled(t, i, "writing")
        /\ Done(t, i)
    BY <1>5 DEF ApplyWrite
  <2>2. /\ i = 1 /\ 1 \in DOMAIN chain[t] /\ chain[t][1] \in JobOver(sent)
        /\ chain' \in [Tab -> Seq(JobOver(sent))] /\ mail' \in Seq(sent)
        /\ \A u \in Tab : u # t => chain'[u] = chain[u]
        /\ applied' = applied \cup {f} /\ applied' \subseteq sent /\ acked' \subseteq applied'
        /\ \A j \in DOMAIN chain'[t] : chain'[t][j].at # "writing"
    BY <2>1, DoneKeeps
  <2>3. InboundTypes'
    BY <1>5, <2>1, <2>2 DEF InboundTypes, inbound, tabs
  <2>4. t \in running /\ \A u \in Tab : u # t => regime.tabs # {u}
    BY <2>1 DEF TabTypes, Unsettled
  <2>5. OneWriter'
    BY <1>5, <2>2, <2>4 DEF OneWriter
  <2>6. f \in Frame
    BY <2>2 DEF InboundTypes, JobOver
  <2>7. CASE f.kind = "revoke"
    <3>1. f.m \in Recallable /\ f.m \notin Burn /\ f.m \in Message /\ \A m : f # Text(m)
      BY <2>6, <2>7, FrameShape, LifetimeAssumption DEF Message, Text
    <3>2. store' = [store EXCEPT ![f.m] = "absent"] /\ erased' = erased \cup {f.m} /\ revived' = revived
      BY <1>5, <2>7 DEF ApplyWrite, CryptoErase
    <3>3. StoreTypes'
      BY <2>1, <3>1, <3>2 DEF StoreTypes, tabs
    <3>4. \A m \in Burn : store'[m] = store[m]
      BY <3>1, <3>2 DEF StoreTypes, Message
    <3>5. BurnLock'
      BY <1>5, <2>1, <3>2, <3>4, SameLatches DEF tabs
    <3>6. AppliedIsDurable'
      BY <2>2, <3>1, <3>2 DEF AppliedIsDurable, StoreTypes
    <3> QED BY <1>5, <2>1, <2>3, <2>5, <3>3, <3>5, <3>6 DEF TabTypes, tabs
  <2>8. CASE f.kind # "revoke"
    <3>1. f.kind = "text" /\ f.m \in Message /\ f = Text(f.m)
      BY <2>6, <2>8, FrameShape
    <3>2. /\ store' = [store EXCEPT ![f.m] = "held"] /\ erased' = erased
          /\ revived' = [b \in Burn |-> IF b = f.m /\ store[f.m] = "tombstone" THEN revived[b] + 1 ELSE revived[b]]
      BY <1>5, <2>8 DEF ApplyWrite, PersistLiveMessage, Seal
    <3>3. f.m \in Burn /\ regime.tabs = {t} => store[f.m] = "absent"
      BY <2>1, <2>2, <3>1 DEF OneWriter, Unsettled
    <3>4. StoreTypes'
      BY <2>1, <3>1, <3>2 DEF StoreTypes, tabs
    <3>5. \A m \in Burn : shown'[m] = revived'[m] + (IF store'[m] = "tombstone" THEN 1 ELSE 0)
      <4>1. \A m \in Burn : m # f.m => store'[m] = store[m] /\ revived'[m] = revived[m]
        BY <3>1, <3>2 DEF StoreTypes, Message
      <4>2. store'[f.m] = "held"
        BY <3>1, <3>2 DEF StoreTypes
      <4>3. f.m \in Burn => shown[f.m] = revived'[f.m]
        BY <3>2 DEF BurnLock, StoreTypes
      <4> QED BY <2>1, <4>1, <4>2, <4>3 DEF BurnLock, tabs, StoreTypes
    <3>6. OneTabInUse' => \A m \in Burn : revived'[m] = 0
      BY <1>5, <2>4, <3>2, <3>3 DEF BurnLock, OneTabInUse
    <3>7. \A m \in Burn : store[m] = "held" => store'[m] = "held"
      BY <3>1, <3>2 DEF StoreTypes, Message
    <3>8. BurnLock'
      BY <2>1, <3>5, <3>6, <3>7 DEF BurnLock, tabs
    <3>9. \A m \in Message : Text(m) = f => m = f.m
      BY DEF Text
    <3>10. AppliedIsDurable'
      BY <2>2, <3>1, <3>2, <3>9 DEF AppliedIsDurable, StoreTypes
    <3> QED BY <1>5, <2>1, <2>3, <2>5, <3>4, <3>8, <3>10 DEF TabTypes, tabs
  <2> QED BY <2>7, <2>8
<1>6. ASSUME NEW t \in Tab, NEW i \in DOMAIN chain[t], ApplyRejected(t, i), UNCHANGED regime
      PROVE  LifetimeInv'
  <2>1. i = 1 /\ chain' = [chain EXCEPT ![t] = RemoveIndex(chain[t], 1)]
        /\ UNCHANGED <<inbound, gateway, keys, vault, tabs, applied>>
    BY <1>6 DEF ApplyRejected, Unsettled, Turn
  <2>2. chain[t] \in Seq(JobOver(sent)) /\ 1 \in DOMAIN chain[t]
    BY <1>6, <2>1 DEF InboundTypes
  <2>3. /\ RemoveIndex(chain[t], 1) \in Seq(JobOver(sent))
        /\ \A j \in DOMAIN RemoveIndex(chain[t], 1) :
              j + 1 \in DOMAIN chain[t] /\ RemoveIndex(chain[t], 1)[j] = chain[t][j + 1] /\ j \in Nat \ {0}
    BY <2>2, RemoveHead
  <2>4. /\ chain' \in [Tab -> Seq(JobOver(sent))] /\ \A u \in Tab : u # t => chain'[u] = chain[u]
        /\ chain'[t] = RemoveIndex(chain[t], 1)
    BY <2>1, <2>3 DEF InboundTypes
  <2>5. \A j \in DOMAIN chain'[t] : chain'[t][j].at # "writing"
    BY <2>3, <2>4 DEF OneWriter
  <2>6. OneWriter'
    BY <1>6, <2>1, <2>4, <2>5, WritersMove DEF vault
  <2>7. InboundTypes'
    BY <1>6, <2>1, <2>4 DEF InboundTypes, inbound, gateway, keys, tabs
  <2> QED BY <1>6, <2>1, <2>6, <2>7 DEF TabTypes, StoreTypes, BurnLock, OneTabInUse, AppliedIsDurable,
             vault, tabs
<1>7. ASSUME NEW t \in Tab, FlushTimer(t), UNCHANGED regime PROVE LifetimeInv'
  BY <1>7 DEF FlushTimer, InboundTypes, TabTypes, StoreTypes, OneWriter, BurnLock, OneTabInUse,
     AppliedIsDurable, inbound, gateway, vault, tabs
<1>8. ASSUME NEW t \in Tab, NEW m \in Message, openChannel(t, m), UNCHANGED regime
      PROVE  LifetimeInv'
  <2>1. /\ t \in running /\ view[t] = NoView /\ m \in Burn \cup Timed
        /\ view' = [view EXCEPT ![t] = Viewing(m, "listed")]
        /\ UNCHANGED <<inbound, gateway, chain, keys, vault, timers, running, shown, applied>>
    BY <1>8 DEF openChannel
  <2>2. TabTypes'
    BY <1>8, <2>1 DEF TabTypes, Viewing
  <2>3. \A u \in Tab : \A n : view'[u] = Viewing(n, "holding") => view[u] = Viewing(n, "holding")
    BY <2>1 DEF TabTypes, Viewing
  <2>4. BurnLock'
    BY <1>8, <2>1, <2>3, SameLatches DEF vault
  <2> QED BY <1>8, <2>1, <2>2, <2>4 DEF InboundTypes, StoreTypes, OneWriter, AppliedIsDurable,
             inbound, gateway, keys, vault
<1>9. ASSUME NEW t \in Tab, ReRead(t), UNCHANGED regime PROVE LifetimeInv'
  <2> DEFINE m == view[t].m
  <2>1. /\ view[t].at = "listed"
        /\ m \in Burn => \A u \in Tab : view[u] # Viewing(m, "holding")
        /\ view' = [view EXCEPT ![t] = IF store[m] = "held" THEN Viewing(m, "holding") ELSE NoView]
        /\ UNCHANGED <<inbound, gateway, chain, keys, vault, timers, running, shown, applied>>
    BY <1>9 DEF ReRead
  <2>2. m \in Burn \cup Timed /\ view[t] # NoView
    BY <2>1 DEF TabTypes, NoView
  <2>3. TabTypes'
    <3>1. (IF store[m] = "held" THEN Viewing(m, "holding") ELSE NoView)
             \in {NoView} \cup [m : Burn \cup Timed, at : {"listed", "holding"}]
      BY <2>2 DEF Viewing
    <3> QED BY <1>9, <2>1, <2>2, <3>1 DEF TabTypes
  <2>4. \A u \in Tab : u # t => view'[u] = view[u]
    BY <2>1 DEF TabTypes
  <2>5. \A n : view'[t] = Viewing(n, "holding") => n = m /\ store[m] = "held"
    BY <2>1 DEF TabTypes, Viewing, NoView
  <2>6. BurnLock'
    BY <1>9, <2>1, <2>4, <2>5 DEF BurnLock, OneTabInUse, vault
  <2> QED BY <1>9, <2>1, <2>3, <2>6 DEF InboundTypes, StoreTypes, OneWriter, AppliedIsDurable,
             inbound, gateway, keys, vault
<1>10. ASSUME NEW t \in Tab, openBurnOnRead(t), UNCHANGED regime PROVE LifetimeInv'
  <2> DEFINE m == view[t].m
  <2>1. /\ view[t].at = "holding" /\ m \in Burn
        /\ store' = [store EXCEPT ![m] = "tombstone"] /\ erased' = erased \cup {m}
        /\ shown' = [shown EXCEPT ![m] = @ + 1]
        /\ view' = [view EXCEPT ![t] = NoView]
        /\ UNCHANGED <<inbound, gateway, chain, keys, revived, timers, running, applied>>
    BY <1>10 DEF openBurnOnRead, OpenRecord
  <2>2. view[t] = Viewing(m, "holding") /\ view[t] # NoView /\ m \in Message
    BY <2>1 DEF TabTypes, Viewing, NoView, Message
  <2>3. store[m] = "held" /\ \A u \in Tab : view[u] = Viewing(m, "holding") => u = t
    BY <2>1, <2>2 DEF BurnLock
  <2>4. TabTypes'
    BY <1>10, <2>1 DEF TabTypes
  <2>5. StoreTypes'
    BY <2>1, <2>2 DEF StoreTypes
  <2>6. \A n \in Burn : n # m => store'[n] = store[n] /\ shown'[n] = shown[n]
    BY <2>1, <2>2 DEF StoreTypes, Message
  <2>7. shown'[m] = revived'[m] + 1 /\ store'[m] = "tombstone"
    <3>1. shown[m] = revived[m]
      BY <2>1, <2>3 DEF BurnLock, StoreTypes
    <3> QED BY <2>1, <2>2, <3>1 DEF StoreTypes
  <2>8. \A u \in Tab : view'[u] = IF u = t THEN NoView ELSE view[u]
    BY <2>1 DEF TabTypes
  <2>9. \A n : NoView # Viewing(n, "holding")
    BY DEF NoView, Viewing
  <2>10. BurnLock'
    <3>1. \A n \in Burn : shown'[n] = revived'[n] + (IF store'[n] = "tombstone" THEN 1 ELSE 0)
      BY <2>1, <2>6, <2>7 DEF BurnLock
    <3>2. OneTabInUse' => \A n \in Burn : revived'[n] = 0
      BY <1>10, <2>1 DEF BurnLock, OneTabInUse
    <3> QED BY <2>3, <2>6, <2>8, <2>9, <3>1, <3>2 DEF BurnLock
  <2>11. OneWriter'
    BY <1>10, <2>1, <2>2, <2>3 DEF OneWriter, StoreTypes
  <2>12. AppliedIsDurable'
    BY <2>1, <2>2 DEF AppliedIsDurable, StoreTypes
  <2> QED BY <1>10, <2>1, <2>4, <2>5, <2>10, <2>11, <2>12 DEF InboundTypes, inbound, gateway, keys
<1>11. ASSUME NEW t \in Tab, armOnView(t), UNCHANGED regime PROVE LifetimeInv'
  <2> DEFINE m == view[t].m
  <2>1. /\ view[t].at = "holding" /\ m \in Timed
        /\ store' = [store EXCEPT ![m] = "armed"]
        /\ timers' = [timers EXCEPT ![t] = @ \cup {m}]
        /\ view' = [view EXCEPT ![t] = NoView]
        /\ UNCHANGED <<inbound, gateway, chain, keys, erased, revived, running, shown, applied>>
    BY <1>11 DEF armOnView, ArmRecord
  <2>2. m \in Message /\ m \notin Burn /\ view[t] # NoView
    BY <2>1, LifetimeAssumption DEF Message, NoView
  <2>3. TabTypes'
    BY <1>11, <2>1, <2>2 DEF TabTypes
  <2>4. StoreTypes'
    BY <2>1, <2>2 DEF StoreTypes
  <2>5. \A n \in Burn : store'[n] = store[n]
    BY <2>1, <2>2 DEF StoreTypes, Message
  <2>6. \A u \in Tab : \A n : view'[u] = Viewing(n, "holding") => view[u] = Viewing(n, "holding")
    BY <2>1 DEF TabTypes, NoView, Viewing
  <2>7. BurnLock' /\ OneWriter'
    BY <1>11, <2>1, <2>5, <2>6, SameLatches, SameWriters
  <2>8. AppliedIsDurable'
    BY <2>1, <2>2 DEF AppliedIsDurable, StoreTypes
  <2> QED BY <1>11, <2>1, <2>3, <2>4, <2>7, <2>8 DEF InboundTypes, inbound, gateway, keys
<1>12. ASSUME NEW t \in Tab, NEW m \in Timed, expire(t, m), UNCHANGED regime
       PROVE  LifetimeInv'
  <2>1. /\ timers' = [timers EXCEPT ![t] = @ \ {m}]
        /\ store' = [store EXCEPT ![m] = "absent"] /\ erased' = erased \cup {m}
        /\ UNCHANGED <<inbound, gateway, chain, keys, revived, view, running, shown, applied>>
    BY <1>12 DEF expire, CryptoErase
  <2>2. m \in Message /\ m \notin Burn
    BY LifetimeAssumption DEF Message
  <2>3. TabTypes'
    BY <1>12, <2>1 DEF TabTypes
  <2>4. StoreTypes'
    BY <2>1, <2>2 DEF StoreTypes
  <2>5. \A n \in Burn : store'[n] = store[n]
    BY <2>1, <2>2 DEF StoreTypes, Message
  <2>6. BurnLock' /\ OneWriter'
    BY <1>12, <2>1, <2>5, SameLatches, SameWriters
  <2>7. AppliedIsDurable'
    BY <2>1, <2>2 DEF AppliedIsDurable, StoreTypes
  <2> QED BY <1>12, <2>1, <2>3, <2>4, <2>6, <2>7 DEF InboundTypes, inbound, gateway, keys
<1>13. ASSUME NEW t \in Tab, LinkLost(t), UNCHANGED regime PROVE LifetimeInv'
  <2>1. /\ link' = [link EXCEPT ![t] = FALSE] /\ todo' = [todo EXCEPT ![t] = <<>>]
        /\ UNCHANGED <<inbound, mail, acked, chain, keys, vault, tabs, applied>>
    BY <1>13 DEF LinkLost
  <2>2. /\ link' \in [Tab -> BOOLEAN] /\ todo' \in [Tab -> Seq(sent)]
        /\ \A u \in Tab : link'[u] => link[u]
    BY <2>1 DEF InboundTypes
  <2>3. InboundTypes'
    BY <1>13, <2>1, <2>2 DEF InboundTypes, inbound, keys, tabs
  <2> QED BY <1>13, <2>1, <2>3 DEF TabTypes, StoreTypes, OneWriter, BurnLock, OneTabInUse,
             AppliedIsDurable, vault, tabs
<1>14. ASSUME NEW t \in Tab, connectGateway(t), UNCHANGED regime PROVE LifetimeInv'
  <2> DEFINE dead == Dead(chain[t])
  <2>1. /\ t \in running /\ link' = [link EXCEPT ![t] = TRUE] /\ todo' = [todo EXCEPT ![t] = mail]
        /\ ratchet' = [ratchet EXCEPT ![t] = disk] /\ chain' = [chain EXCEPT ![t] = dead]
        /\ UNCHANGED <<inbound, mail, acked, disk, flush, vault, tabs, applied>>
    BY <1>14 DEF connectGateway, Dead
  <2>2. /\ dead \in Seq(JobOver(sent)) /\ DOMAIN dead = DOMAIN chain[t]
        /\ \A j \in DOMAIN chain[t] : dead[j].at = chain[t][j].at /\ dead[j].frame = chain[t][j].frame
    <3>1. chain[t] \in Seq(JobOver(sent))
      BY DEF InboundTypes
    <3> QED BY <3>1, DeadKeeps
  <2> HIDE DEF dead
  <2>3. /\ link' \in [Tab -> BOOLEAN] /\ todo' \in [Tab -> Seq(sent)] /\ ratchet' \in [Tab -> SUBSET sent]
        /\ chain' \in [Tab -> Seq(JobOver(sent))]
        /\ \A u \in Tab : u # t => chain'[u] = chain[u] /\ link'[u] = link[u]
        /\ chain'[t] = dead
    BY <2>1, <2>2 DEF InboundTypes
  <2>4. InboundTypes'
    BY <1>14, <2>1, <2>3 DEF InboundTypes, inbound, tabs
  <2>5. OneWriter'
    BY <1>14, <2>1, <2>2, <2>3, WritersMove DEF vault
  <2> QED BY <1>14, <2>1, <2>4, <2>5 DEF TabTypes, StoreTypes, BurnLock, OneTabInUse, AppliedIsDurable,
             vault, tabs
<1>15. ASSUME NEW t \in Tab, Crash(t), UNCHANGED regime PROVE LifetimeInv'
  <2>1. /\ running' = running \ {t}
        /\ timers' = [timers EXCEPT ![t] = {}] /\ view' = [view EXCEPT ![t] = NoView]
        /\ link' = [link EXCEPT ![t] = FALSE] /\ todo' = [todo EXCEPT ![t] = <<>>]
        /\ chain' = [chain EXCEPT ![t] = <<>>] /\ ratchet' = [ratchet EXCEPT ![t] = disk]
        /\ UNCHANGED <<inbound, mail, acked, disk, vault, shown, applied>>
    BY <1>15 DEF Crash
  <2>2. TabTypes'
    BY <1>15, <2>1 DEF TabTypes
  <2>3. /\ link' \in [Tab -> BOOLEAN] /\ todo' \in [Tab -> Seq(sent)] /\ ratchet' \in [Tab -> SUBSET sent]
        /\ chain' \in [Tab -> Seq(JobOver(sent))]
        /\ \A u \in Tab : u # t => chain'[u] = chain[u] /\ link'[u] = link[u]
        /\ chain'[t] = <<>> /\ link'[t] = FALSE
    BY <2>1 DEF InboundTypes
  <2>4. InboundTypes'
    BY <1>15, <2>1, <2>3 DEF InboundTypes, inbound
  <2>5. \A u \in Tab : \A n : view'[u] = Viewing(n, "holding") => view[u] = Viewing(n, "holding")
    BY <2>1 DEF TabTypes, NoView, Viewing
  <2>6. BurnLock'
    BY <1>15, <2>1, <2>5, SameLatches DEF vault
  <2>7. OneWriter'
    BY <1>15, <2>1, <2>3, WritersMove DEF vault
  <2> QED BY <2>1, <2>2, <2>4, <2>6, <2>7 DEF StoreTypes, AppliedIsDurable, vault
<1>16. ASSUME NEW t \in Tab, Login(t), UNCHANGED regime PROVE LifetimeInv'
  <2>1. PICK overdue \in SUBSET Armed : sweepExpired(t, overdue)
    BY <1>16 DEF Login
  <2>2. /\ t \in regime.tabs /\ running' = running \cup {t}
        /\ store' = [m \in Message |-> IF m \in overdue THEN "absent" ELSE store[m]]
        /\ erased' = erased \cup overdue
        /\ timers' = [timers EXCEPT ![t] = Armed \ overdue]
        /\ UNCHANGED <<inbound, gateway, chain, keys, revived, view, shown, applied>>
    BY <1>16, <2>1 DEF Login, sweepExpired
  <2>3. overdue \subseteq Timed /\ \A n \in Burn : n \notin overdue /\ n \in Message
    BY LifetimeAssumption DEF Armed, Message
  <2>4. TabTypes'
    BY <1>16, <2>2 DEF TabTypes, Armed
  <2>5. StoreTypes'
    BY <2>2 DEF StoreTypes
  <2>6. \A n \in Burn : store'[n] = store[n]
    BY <2>2, <2>3
  <2>7. BurnLock' /\ OneWriter'
    BY <1>16, <2>2, <2>6, SameLatches, SameWriters
  <2>8. AppliedIsDurable'
    BY <2>2 DEF AppliedIsDurable, StoreTypes
  <2> QED BY <1>16, <2>2, <2>4, <2>5, <2>7, <2>8 DEF InboundTypes, inbound, gateway, keys
<1>17. CASE UNCHANGED vars
  BY <1>17 DEF vars, InboundTypes, TabTypes, StoreTypes, OneWriter, BurnLock, OneTabInUse,
     AppliedIsDurable, inbound, gateway, keys, vault, tabs
<1> QED
  BY <1>1, <1>2, <1>3, <1>4, <1>5, <1>6, <1>7, <1>8, <1>9, <1>10, <1>11, <1>12, <1>13, <1>14, <1>15,
     <1>16, <1>17 DEF Next, Inbound, Reading

\* Every reachable state of the device satisfies LifetimeInv.
LEMMA LifetimeInvariant == Spec => []LifetimeInv
<1>1. ASSUME Init PROVE LifetimeInv
  <2>1. InboundTypes
    <3>1. regime \in Regimes /\ running = regime.tabs /\ <<>> \in Seq(sent) /\ <<>> \in Seq(JobOver(sent))
      BY <1>1 DEF Init
    <3>2. link \in [Tab -> BOOLEAN] /\ \A t \in Tab : link[t] => t \in running
      <4>1. link = [t \in Tab |-> t \in running]
        BY <1>1 DEF Init
      <4>2. \A t \in Tab : (t \in running) \in BOOLEAN
        OBVIOUS
      <4>3. link \in [Tab -> BOOLEAN]
        BY Zenon, <4>1, <4>2
      <4>4. \A t \in Tab : link[t] = (t \in running)
        BY Zenon, <4>1
      <4> QED BY Zenon, <4>3, <4>4
    <3>3. todo \in [Tab -> Seq(sent)] /\ chain \in [Tab -> Seq(JobOver(sent))] /\ ratchet \in [Tab -> SUBSET sent]
      BY <1>1, <3>1 DEF Init
    <3> QED BY <1>1, <3>1, <3>2, <3>3 DEF Init, InboundTypes
  <2>2. TabTypes /\ StoreTypes
    BY <1>1, RegimeTabs DEF Init, TabTypes, StoreTypes
  <2>3. BurnLock
    BY <1>1 DEF Init, BurnLock, NoView, Viewing, Message
  <2> QED BY <1>1, <2>1, <2>2, <2>3 DEF Init, LifetimeInv, OneWriter, AppliedIsDurable
<1> QED BY <1>1, LifetimeStepKeeps, PTL DEF Spec

\* Type correctness of the device: records, timers and views serve the lifetimes of
\* their messages, what is applied or acked was sent, a closed tab keeps nothing.
THEOREM LifetimeTypes == Spec => []TypeOK
<1>1. ASSUME LifetimeInv PROVE TypeOK
  BY <1>1 DEF LifetimeInv, InboundTypes, TabTypes, StoreTypes, TypeOK
<1> QED BY <1>1, LifetimeInvariant, PTL

\* A burn-on-read message is shown at most once more than its tombstone was overwritten,
\* for any number of tabs, whatever is redelivered and wherever a tab crashes; and where
\* one tab is in use no tombstone is ever overwritten.
THEOREM BurnOnce == Spec => []BurnLatchHolds
<1>1. ASSUME LifetimeInv PROVE BurnLatchHolds
  BY <1>1 DEF LifetimeInv, StoreTypes, BurnLock, BurnLatchHolds
<1> QED BY <1>1, LifetimeInvariant, PTL

\* A message the device has acked is stored, or was stored and destroyed for its
\* lifetime: the ack never precedes the put.
THEOREM AckAfterStore == Spec => []AckedIsDurable
<1>1. ASSUME LifetimeInv PROVE AckedIsDurable
  BY <1>1 DEF LifetimeInv, InboundTypes, AppliedIsDurable, AckedIsDurable
<1> QED BY <1>1, LifetimeInvariant, PTL

-----------------------------------------------------------------------------
(* Recall: one tab, frames in order, a store that accepts every message.   *)

Calm(u) == regime.tabs = {u} /\ ~regime.reorder /\ regime.reject = 0

Has(f, s) == \E i \in DOMAIN s : s[i] = f
Distinct(s) == \A i, j \in DOMAIN s : s[i] = s[j] => i = j
Before(s, f, g) == \A i, j \in DOMAIN s : s[i] = f /\ s[j] = g => i < j

JobOf(u, f) == \E i \in DOMAIN chain[u] : chain[u][i].frame = f
LiveJob(u, f) == \E i \in DOMAIN chain[u] : chain[u][i].frame = f /\ chain[u][i].live

\* No queue holds a frame twice, and what is on the wire is nowhere else.
OnePlace(u) ==
    /\ Distinct(wire) /\ Distinct(mail) /\ Distinct(todo[u])
    /\ \A f \in sent : Has(f, wire) => ~Has(f, mail) /\ f \notin ratchet[u] /\ ~JobOf(u, f) /\ f \notin acked

\* What the connection has not taken up is in the mailbox and has no apply of this
\* connection; its key, if spent, is spent on disk.
NotTaken(u) ==
    /\ disk \subseteq ratchet[u]
    /\ ~link[u] => todo[u] = <<>>
    /\ \A f \in sent : Has(f, todo[u]) => Has(f, mail) /\ ~LiveJob(u, f) /\ (f \in ratchet[u] => f \in disk)

\* What the connection has taken up and not acked has its key spent: on disk, or by an
\* apply of this connection.
Taken(u) ==
    link[u] => \A f \in sent : Has(f, mail) =>
               \/ Has(f, todo[u])
               \/ f \in ratchet[u] /\ (f \in disk \/ LiveJob(u, f))

\* The message and its recall keep their order from the sender to the apply chain of
\* the connection.
RecallLast(u, m) ==
    LET t == Text(m)
        r == Recall(m)
    IN  /\ Before(wire, t, r) /\ Before(mail, t, r) /\ Before(todo[u], t, r)
        /\ r \in sent => t \in sent
        /\ r \in sent /\ ~Has(r, wire) => ~Has(t, wire)
        /\ \A i \in DOMAIN chain[u] : chain[u][i].frame = r /\ chain[u][i].live =>
              ~Has(t, todo[u]) /\ \A j \in DOMAIN chain[u] : j > i => chain[u][j].frame # t

\* After an acked recall nothing is left that could store the message again.
RecallFinal(u, m) ==
    Recall(m) \in acked =>
        /\ store[m] = "absent" /\ ~JobOf(u, Text(m))
        /\ Has(Text(m), mail) => Text(m) \in disk

OrderInv(u) ==
    /\ faults \in [{"link", "crash", "reject"} -> Int] /\ faults["reject"] = 0
    /\ OnePlace(u) /\ NotTaken(u) /\ Taken(u)
    /\ \A m \in Recallable : RecallLast(u, m) /\ RecallFinal(u, m)

RecallInv == \A u \in Tab : Calm(u) => OrderInv(u)

\* What taking the i-th element out of a queue does to its elements and their order.
LEMMA RemoveKeepsOrder ==
  ASSUME NEW S, NEW s \in Seq(S), NEW i \in DOMAIN s
  PROVE  LET r == RemoveIndex(s, i) IN
         /\ \A x : Has(x, r) => Has(x, s)
         /\ \A x : Has(x, s) /\ x # s[i] => Has(x, r)
         /\ Distinct(s) => Distinct(r) /\ ~Has(s[i], r)
         /\ \A f, g : Before(s, f, g) => Before(r, f, g)
<1> DEFINE r == RemoveIndex(s, i)
           old(j) == IF j < i THEN j ELSE j + 1
<1>0. DOMAIN s = 1..Len(s) /\ Len(s) \in Nat /\ i \in 1..Len(s)
  OBVIOUS
<1>1. /\ DOMAIN s = 1..Len(s) /\ Len(s) \in Nat /\ i \in 1..Len(s)
      /\ DOMAIN r = 1..(Len(s) - 1)
      /\ \A j \in 1..(i - 1) : r[j] = s[j]
      /\ \A j \in i..(Len(s) - 1) : r[j] = s[j + 1]
  <2>1. /\ r \in Seq(S) /\ Len(r) = Len(s) - 1
        /\ \A j \in 1..(i - 1) : r[j] = s[j]
        /\ \A j \in i..(Len(s) - 1) : r[j] = s[j + 1]
    BY Zenon, <1>0, RemoveIndexKeeps
  <2> HIDE DEF r
  <2> QED BY SMTT(30), <1>0, <2>1
<1> HIDE DEF r
<1>2. \A j \in 1..(Len(s) - 1) : old(j) \in 1..Len(s) /\ old(j) # i /\ r[j] = s[old(j)]
  BY <1>1
<1>3. \A j, k \in 1..(Len(s) - 1) : (old(j) < old(k) => j < k) /\ (old(j) = old(k) => j = k)
  BY <1>1
<1>4. \A k \in 1..Len(s) : k # i => \E j \in 1..(Len(s) - 1) : old(j) = k
  <2> SUFFICES ASSUME NEW k \in 1..Len(s), k # i
               PROVE  \E j \in 1..(Len(s) - 1) : old(j) = k
    OBVIOUS
  <2>1. CASE k < i
    <3>1. k \in 1..(Len(s) - 1) /\ old(k) = k
      BY <1>1, <2>1
    <3> QED BY <3>1
  <2>2. CASE k > i
    <3>1. k - 1 \in 1..(Len(s) - 1) /\ old(k - 1) = k
      BY <1>1, <2>2
    <3> QED BY <3>1
  <2> QED BY <1>1, <2>1, <2>2
<1> HIDE DEF r, old
<1>5. \A x : Has(x, r) => Has(x, s)
  BY <1>1, <1>2 DEF Has
<1>6. ASSUME NEW x, Has(x, s), x # s[i] PROVE Has(x, r)
  <2>1. PICK k \in 1..Len(s) : s[k] = x
    BY <1>1, <1>6 DEF Has
  <2>2. PICK j \in 1..(Len(s) - 1) : old(j) = k
    BY <1>4, <1>6, <2>1
  <2> QED BY <1>1, <1>2, <2>1, <2>2 DEF Has
<1>7. ASSUME Distinct(s) PROVE Distinct(r) /\ ~Has(s[i], r)
  <2>1. \A j, k \in DOMAIN r : r[j] = r[k] => old(j) = old(k)
    BY <1>1, <1>2, <1>7 DEF Distinct
  <2>2. \A j \in DOMAIN r : r[j] # s[i]
    BY <1>1, <1>2, <1>7 DEF Distinct
  <2> QED BY <1>1, <1>3, <2>1, <2>2 DEF Distinct, Has
<1>8. ASSUME NEW f, NEW g, Before(s, f, g) PROVE Before(r, f, g)
  <2> SUFFICES ASSUME NEW j \in DOMAIN r, NEW k \in DOMAIN r, r[j] = f, r[k] = g
               PROVE  j < k
    BY DEF Before
  <2>1. old(j) < old(k)
    BY <1>1, <1>2, <1>8 DEF Before
  <2> QED BY <1>1, <1>3, <2>1
<1> QED BY <1>5, <1>6, <1>7, <1>8 DEF r

\* Taking the head off a queue is taking its first element out.
LEMMA TailIsRemove ==
  ASSUME NEW S, NEW s \in Seq(S), s # <<>>
  PROVE  Tail(s) = RemoveIndex(s, 1) /\ Head(s) = s[1] /\ 1 \in DOMAIN s /\ s[1] \in S
<1>1. /\ Len(s) \in Nat \ {0} /\ Tail(s) \in Seq(S) /\ Len(Tail(s)) = Len(s) - 1
      /\ \A j \in 1..(Len(s) - 1) : Tail(s)[j] = s[j + 1]
      /\ Head(s) = s[1] /\ 1 \in DOMAIN s /\ s[1] \in S
  BY HeadTailProperties
<1>2. /\ RemoveIndex(s, 1) \in Seq(S) /\ Len(RemoveIndex(s, 1)) = Len(s) - 1
      /\ \A j \in 1..(Len(s) - 1) : RemoveIndex(s, 1)[j] = s[j + 1]
  <2>1. 1 \in 1..Len(s)
    BY <1>1
  <2> QED BY <2>1, RemoveIndexKeeps
<1>3. Tail(s) = RemoveIndex(s, 1)
  BY <1>1, <1>2, SeqEqual
<1> QED BY <1>1, <1>3

\* What appending does to the elements of a queue and their order.
LEMMA AppendKeepsOrder ==
  ASSUME NEW S, NEW s \in Seq(S), NEW e \in S
  PROVE  LET r == Append(s, e) IN
         /\ \A x : Has(x, r) <=> Has(x, s) \/ x = e
         /\ Distinct(s) /\ ~Has(e, s) => Distinct(r)
         /\ \A f, g : Before(s, f, g) /\ f # g /\ (e = f => ~Has(g, s)) => Before(r, f, g)
<1> DEFINE r == Append(s, e)
<1>1. /\ DOMAIN s = 1..Len(s) /\ Len(s) \in Nat /\ DOMAIN r = 1..(Len(s) + 1)
      /\ \A j \in 1..Len(s) : r[j] = s[j]
      /\ r[Len(s) + 1] = e
  BY AppendProperties
<1> HIDE DEF r
<1>2. \A j \in DOMAIN r : (j \in DOMAIN s /\ r[j] = s[j]) \/ (j = Len(s) + 1 /\ r[j] = e)
  BY <1>1
<1>3. \A j \in DOMAIN s : j \in DOMAIN r /\ r[j] = s[j] /\ j < Len(s) + 1
  BY <1>1
<1>4. Len(s) + 1 \in DOMAIN r
  BY <1>1
<1>5. \A x : Has(x, r) <=> Has(x, s) \/ x = e
  BY <1>1, <1>2, <1>3, <1>4 DEF Has
<1>6. Distinct(s) /\ ~Has(e, s) => Distinct(r)
  BY <1>2, <1>3 DEF Distinct, Has
<1>7. ASSUME NEW f, NEW g, Before(s, f, g), f # g, e = f => ~Has(g, s) PROVE Before(r, f, g)
  <2> SUFFICES ASSUME NEW j \in DOMAIN r, NEW k \in DOMAIN r, r[j] = f, r[k] = g
               PROVE  j < k
    BY DEF Before
  <2>1. CASE k \in DOMAIN s /\ r[k] = s[k]
    <3>1. j \in DOMAIN s /\ r[j] = s[j]
      BY <1>2, <1>7, <2>1 DEF Has
    <3> QED BY <1>7, <2>1, <3>1 DEF Before
  <2>2. CASE k = Len(s) + 1 /\ r[k] = e
    BY <1>2, <1>3, <1>7, <2>2
  <2> QED BY <1>2, <2>1, <2>2
<1> QED BY <1>5, <1>6, <1>7 DEF r

\* What an ack does to the mailbox.
LEMMA WithoutKeepsOrder ==
  ASSUME NEW S, NEW s \in Seq(S), NEW e, Distinct(s)
  PROVE  LET r == Without(s, e) IN
         /\ \A x : Has(x, r) <=> Has(x, s) /\ x # e
         /\ Distinct(r)
         /\ \A f, g : Before(s, f, g) => Before(r, f, g)
<1>1. CASE Has(e, s)
  <2> DEFINE i == CHOOSE j \in DOMAIN s : s[j] = e
  <2>1. i \in DOMAIN s /\ s[i] = e
    BY <1>1 DEF Has
  <2>2. Without(s, e) = RemoveIndex(s, i)
    BY <1>1 DEF Without, Has
  <2> HIDE DEF i
  <2> QED BY <2>1, <2>2, RemoveKeepsOrder
<1>2. CASE ~Has(e, s)
  BY <1>2 DEF Without, Has
<1> QED BY <1>1, <1>2

\* Nothing stands before a recall that is first in its queue.
LEMMA FirstIsFirst ==
  ASSUME NEW S, NEW s \in Seq(S), 1 \in DOMAIN s, NEW f, NEW g, Before(s, f, g), s[1] = g
  PROVE  ~Has(f, s)
BY DEF Before, Has

\* A message and a recall are different frames, and each names one message.
LEMMA FramesDiffer ==
  \A m, n : Text(m) # Recall(n) /\ (Text(m) = Text(n) => m = n) /\ (Recall(m) = Recall(n) => m = n)
BY DEF Text, Recall

\* Steps that touch no queue, no key and no recallable record keep OrderInv.
LEMMA QuietKeepsOrder ==
  ASSUME NEW u \in Tab, OrderInv(u), UNCHANGED <<sent, wire, mail, todo[u], link[u], acked, chain[u], ratchet[u], disk>>,
         \A m \in Recallable : store[m] = "absent" => store'[m] = "absent",
         faults' \in [{"link", "crash", "reject"} -> Int], faults'["reject"] = 0
  PROVE  OrderInv(u)'
BY DEF OrderInv, OnePlace, NotTaken, Taken, RecallLast, RecallFinal, JobOf, LiveJob, Distinct, Has, Before

\* An apply that begins its write keeps its frame, its place and its connection.
LEMMA SameJobsKeepOrder ==
  ASSUME NEW u \in Tab, OrderInv(u), UNCHANGED <<sent, wire, mail, todo[u], link[u], acked, ratchet[u], disk, store, faults>>,
         DOMAIN chain'[u] = DOMAIN chain[u],
         \A j \in DOMAIN chain[u] : chain'[u][j].frame = chain[u][j].frame /\ chain'[u][j].live = chain[u][j].live
  PROVE  OrderInv(u)'
<1>1. \A x : (JobOf(u, x)' <=> JobOf(u, x)) /\ (LiveJob(u, x)' <=> LiveJob(u, x))
  BY DEF JobOf, LiveJob
<1>2. OnePlace(u)' /\ NotTaken(u)'
  BY <1>1 DEF OrderInv, OnePlace, NotTaken
<1>3. Taken(u)'
  BY <1>1 DEF OrderInv, Taken
<1>4. ASSUME NEW m \in Recallable PROVE RecallLast(u, m)' /\ RecallFinal(u, m)'
  BY <1>1 DEF OrderInv, RecallLast, RecallFinal
<1> QED BY <1>2, <1>3, <1>4 DEF OrderInv

\* A connection that is lost takes its queue with it, and a crash the apply chain and the
\* ratchet in memory too.
LEMMA DropTodoKeepsOrder ==
  ASSUME NEW u \in Tab, OrderInv(u), link'[u] = FALSE, todo'[u] = <<>>,
         UNCHANGED <<sent, wire, mail, acked, disk, store>>,
         \/ UNCHANGED <<chain[u], ratchet[u]>>
         \/ chain'[u] = <<>> /\ ratchet'[u] = disk,
         faults' \in [{"link", "crash", "reject"} -> Int], faults'["reject"] = 0
  PROVE  OrderInv(u)'
<1>1. \A x : (JobOf(u, x)' => JobOf(u, x)) /\ ~Has(x, todo'[u])
  BY DEF JobOf, Has
<1>2. Distinct(todo'[u]) /\ \A x, y : Before(todo'[u], x, y)
  BY DEF Distinct, Before
<1>3. OnePlace(u)'
  BY <1>1, <1>2 DEF OrderInv, OnePlace, NotTaken
<1>4. NotTaken(u)' /\ Taken(u)'
  BY <1>1 DEF OrderInv, NotTaken, Taken
<1>5. ASSUME NEW m \in Recallable PROVE RecallLast(u, m)' /\ RecallFinal(u, m)'
  BY <1>1, <1>2 DEF OrderInv, RecallLast, RecallFinal
<1> QED BY <1>3, <1>4, <1>5 DEF OrderInv

\* The ack that ends an apply keeps OrderInv.
LEMMA DoneKeepsOrder ==
  ASSUME InboundTypes, OneWriter, NEW u \in Tab, OrderInv(u),
         NEW i, Unsettled(u, i, "queued") \/ Unsettled(u, i, "writing"), Done(u, i),
         UNCHANGED <<sent, wire, todo[u], link[u], ratchet[u], disk, faults>>,
         \A m \in Recallable :
            /\ chain[u][1].frame = Recall(m) => store'[m] = "absent"
            /\ chain[u][1].frame # Text(m) /\ store[m] = "absent" => store'[m] = "absent"
  PROVE  OrderInv(u)'
<1> DEFINE f == chain[u][1].frame
           ok == chain[u][1].live /\ link[u]
<1>1. i = 1 /\ 1 \in DOMAIN chain[u] /\ f \in sent
  <2>1. i = 1 /\ 1 \in DOMAIN chain[u] /\ chain[u][1] \in JobOver(sent)
    BY DoneKeeps
  <2> QED BY <2>1 DEF JobOver
<1>2. /\ chain'[u] = RemoveIndex(chain[u], 1)
      /\ mail' = IF ok THEN Without(mail, f) ELSE mail
      /\ acked' = IF ok THEN acked \cup {f} ELSE acked
  <2>1. chain'[u] = RemoveIndex(chain[u], 1)
    BY DoneKeeps
  <2> QED BY <1>1, <2>1 DEF Done
<1>3. \A j \in DOMAIN chain'[u] : /\ j + 1 \in DOMAIN chain[u] /\ chain'[u][j] = chain[u][j + 1]
                               /\ j \in Nat \ {0}
  BY <1>1, <1>2, RemoveHead DEF InboundTypes
<1>4. \A k \in DOMAIN chain[u] : k # 1 => k - 1 \in DOMAIN chain'[u] /\ chain'[u][k - 1] = chain[u][k] /\ k > 1
  <2>1. DOMAIN chain[u] = 1..Len(chain[u]) /\ Len(chain[u]) \in Nat
    BY DEF InboundTypes
  <2>2. DOMAIN chain'[u] = 1..(Len(chain[u]) - 1)
    BY <1>1, <1>2, RemoveHead DEF InboundTypes
  <2> SUFFICES ASSUME NEW k \in DOMAIN chain[u], k # 1
               PROVE  k - 1 \in DOMAIN chain'[u] /\ chain'[u][k - 1] = chain[u][k] /\ k > 1
    OBVIOUS
  <2>3. k - 1 \in DOMAIN chain'[u] /\ k > 1 /\ (k - 1) + 1 = k
    BY <2>1, <2>2
  <2> QED BY <1>3, <2>3
<1>5. \A x : (JobOf(u, x)' => JobOf(u, x)) /\ (LiveJob(u, x)' => LiveJob(u, x))
  BY <1>3 DEF JobOf, LiveJob
<1>6. \A x : LiveJob(u, x) /\ (x # f \/ ~chain[u][1].live) => LiveJob(u, x)'
  BY <1>4 DEF LiveJob
<1>7. chain[u][1].live => LiveJob(u, f)
  BY <1>1 DEF LiveJob
<1>8. JobOf(u, f)
  BY <1>1 DEF JobOf
<1>9. /\ \A x : Has(x, mail') <=> Has(x, mail) /\ ~(ok /\ x = f)
      /\ Distinct(mail')
      /\ \A x, y : Before(mail, x, y) => Before(mail', x, y)
  <2>1. CASE ok
    BY <1>2, <2>1, WithoutKeepsOrder DEF InboundTypes, OrderInv, OnePlace
  <2>2. CASE ~ok
    BY <1>2, <2>2 DEF OrderInv, OnePlace
  <2> QED BY <2>1, <2>2
<1>10. \A x : Has(x, mail) => x \in sent
  BY DEF InboundTypes, Has
<1> HIDE DEF f, ok
<1>11. OnePlace(u)'
  <2>1. \A x \in sent : Has(x, wire) => x # f
    BY <1>8 DEF OrderInv, OnePlace
  <2> QED BY <1>2, <1>5, <1>9, <2>1 DEF OrderInv, OnePlace
<1>12. NotTaken(u)'
  <2>1. \A x \in sent : Has(x, todo[u]) => ~(ok /\ x = f)
    BY <1>7 DEF ok, OrderInv, NotTaken
  <2> QED BY <1>5, <1>9, <2>1 DEF OrderInv, NotTaken
<1>13. Taken(u)'
  <2>1. \A x \in sent : link[u] /\ Has(x, mail') => x # f \/ ~chain[u][1].live
    BY <1>9 DEF ok
  <2> QED BY <1>6, <1>9, <2>1 DEF OrderInv, Taken
<1>14. ASSUME NEW m \in Recallable PROVE RecallLast(u, m)' /\ RecallFinal(u, m)'
  <2> DEFINE t == Text(m)
             r == Recall(m)
  <2>1. RecallLast(u, m) /\ RecallFinal(u, m) /\ t # r
    BY FramesDiffer DEF OrderInv
  <2>2. RecallLast(u, m)'
    <3>1. \A k \in DOMAIN chain'[u] : chain'[u][k].frame = r /\ chain'[u][k].live =>
              ~Has(t, todo[u]) /\ \A j \in DOMAIN chain'[u] : j > k => chain'[u][j].frame # t
      <4> SUFFICES ASSUME NEW k \in DOMAIN chain'[u], chain'[u][k].frame = r, chain'[u][k].live
                   PROVE  ~Has(t, todo[u]) /\ \A j \in DOMAIN chain'[u] : j > k => chain'[u][j].frame # t
        OBVIOUS
      <4>1. /\ ~Has(t, todo[u])
            /\ \A j \in DOMAIN chain[u] : j > k + 1 => chain[u][j].frame # t
        BY <1>3, <2>1 DEF RecallLast
      <4>2. \A j \in DOMAIN chain'[u] : j > k => j + 1 > k + 1
        BY <1>3
      <4> QED BY <1>3, <4>1, <4>2
    <3> QED BY <1>9, <2>1, <3>1 DEF RecallLast
  <2>3. ASSUME r \in acked'
        PROVE  /\ store'[m] = "absent" /\ \A j \in DOMAIN chain'[u] : chain'[u][j].frame # t
               /\ Has(t, mail') => t \in disk
    <3>1. CASE r \in acked
      <4>1. store[m] = "absent" /\ ~JobOf(u, t) /\ (Has(t, mail) => t \in disk)
        BY <2>1, <3>1 DEF RecallFinal
      <4> QED BY <1>3, <1>8, <1>9, <4>1 DEF f, JobOf
    <3>2. CASE r \notin acked
      <4>1. f = r /\ ok
        BY <1>2, <2>3, <3>2
      <4>2. ~Has(t, todo[u]) /\ \A j \in DOMAIN chain[u] : j > 1 => chain[u][j].frame # t
        BY <1>1, <2>1, <4>1 DEF RecallLast, f, ok
      <4>3. \A j \in DOMAIN chain[u] : chain[u][j].frame # t
        BY <1>4, <2>1, <4>1, <4>2 DEF f
      <4>4. \A j \in DOMAIN chain'[u] : chain'[u][j].frame # t
        BY <1>3, <4>3
      <4>5. Has(t, mail) => t \in disk
        BY <1>10, <4>1, <4>2, <4>3 DEF OrderInv, Taken, LiveJob, ok
      <4> QED BY <1>9, <4>1, <4>4, <4>5 DEF f
    <3> QED BY <3>1, <3>2
  <2>4. RecallFinal(u, m)'
    BY <2>3 DEF RecallFinal, JobOf, Has
  <2> QED BY <2>2, <2>4
<1> QED BY <1>11, <1>12, <1>13, <1>14 DEF OrderInv

\* One step of the device preserves OrderInv when frames arrive in order and the
\* store accepts every message.
LEMMA OrderStepKeeps ==
  ASSUME LifetimeInv, NEW u \in Tab, Calm(u), OrderInv(u), [Next]_vars
  PROVE  OrderInv(u)'
<1> USE DEF LifetimeInv
<1>a. \A t \in running : t = u
  BY DEF TabTypes, Calm
<1>b. /\ todo[u] \in Seq(sent) /\ chain[u] \in Seq(JobOver(sent))
      /\ todo \in [Tab -> Seq(sent)] /\ chain \in [Tab -> Seq(JobOver(sent))]
      /\ ratchet \in [Tab -> SUBSET sent] /\ link \in [Tab -> BOOLEAN]
  BY DEF InboundTypes
<1>0. /\ \A x : (Has(x, wire) \/ Has(x, mail) \/ Has(x, todo[u]) \/ JobOf(u, x)) => x \in sent
      /\ faults \in [{"link", "crash", "reject"} -> Int] /\ faults["reject"] = 0
      /\ \A m \in Recallable : RecallLast(u, m) /\ RecallFinal(u, m)
  <2>1. \A i \in DOMAIN chain[u] : chain[u][i].frame \in sent
    <3>1. \A i \in DOMAIN chain[u] : chain[u][i] \in JobOver(sent)
      BY DEF InboundTypes
    <3> QED BY <3>1 DEF JobOver
  <2>2. \A x : JobOf(u, x) => x \in sent
    BY <2>1 DEF JobOf
  <2>3. \A x : (Has(x, wire) \/ Has(x, mail) \/ Has(x, todo[u])) => x \in sent
    BY DEF InboundTypes, Has
  <2> QED BY <2>2, <2>3 DEF OrderInv
<1>1. ASSUME NEW f \in Frame, Send(f) PROVE OrderInv(u)'
  <2>1. /\ f \notin sent /\ sent' = sent \cup {f} /\ wire' = Append(wire, f)
        /\ f.kind = "revoke" => Text(f.m) \in sent
        /\ UNCHANGED <<mail, todo[u], link[u], acked, chain[u], ratchet[u], disk, store, faults>>
    BY <1>1 DEF Send, gateway, keys, vault
  <2>2. /\ \A x : Has(x, wire') <=> Has(x, wire) \/ x = f
        /\ Distinct(wire')
        /\ \A x, y : Before(wire, x, y) /\ x # y /\ (f = x => ~Has(y, wire)) => Before(wire', x, y)
    <3>1. wire \in Seq(sent \cup {f})
      BY SeqGrows DEF InboundTypes
    <3> QED BY <1>0, <2>1, <3>1, AppendKeepsOrder DEF OrderInv, OnePlace
  <2>3. ~Has(f, mail) /\ ~Has(f, todo[u]) /\ ~JobOf(u, f) /\ f \notin ratchet[u] /\ f \notin acked
    BY <1>0, <2>1 DEF InboundTypes
  <2>4. OnePlace(u)'
    BY <2>1, <2>2, <2>3 DEF OrderInv, OnePlace, JobOf
  <2>5. NotTaken(u)' /\ Taken(u)'
    BY <2>1, <2>3 DEF OrderInv, NotTaken, Taken, LiveJob, Has
  <2>6. ASSUME NEW m \in Recallable PROVE RecallLast(u, m)' /\ RecallFinal(u, m)'
    <3>1. Text(m) # Recall(m) /\ RecallLast(u, m) /\ RecallFinal(u, m)
      BY <1>0, FramesDiffer
    <3>2. f = Text(m) => Recall(m) \notin sent /\ ~Has(Recall(m), wire)
      BY <1>0, <2>1, <3>1 DEF RecallLast
    <3>3. f = Recall(m) => Text(m) \in sent
      BY <2>1 DEF Recall
    <3>4. Before(wire', Text(m), Recall(m))
      BY <2>2, <3>1, <3>2 DEF RecallLast
    <3>5. RecallLast(u, m)'
      <4>1. Recall(m) \in sent' => Text(m) \in sent'
        BY <2>1, <3>1, <3>3 DEF RecallLast
      <4>2. Recall(m) \in sent' /\ ~Has(Recall(m), wire') => ~Has(Text(m), wire')
        BY <2>1, <2>2, <3>1, <3>2 DEF RecallLast
      <4>3. /\ Before(mail', Text(m), Recall(m)) /\ Before(todo'[u], Text(m), Recall(m))
            /\ \A i \in DOMAIN chain'[u] : chain'[u][i].frame = Recall(m) /\ chain'[u][i].live =>
                 ~Has(Text(m), todo'[u]) /\ \A j \in DOMAIN chain'[u] : j > i => chain'[u][j].frame # Text(m)
        BY <2>1, <3>1 DEF RecallLast
      <4> QED BY <3>4, <4>1, <4>2, <4>3 DEF RecallLast
    <3>6. RecallFinal(u, m)'
      BY <2>1, <3>1 DEF RecallFinal, JobOf, Has
    <3> QED BY <3>5, <3>6
  <2> QED BY <1>0, <2>1, <2>4, <2>5, <2>6 DEF OrderInv
<1>2. ASSUME NEW i \in DOMAIN wire, Arrive(i) PROVE OrderInv(u)'
  <2> DEFINE f == wire[1]
  <2>1. /\ i = 1 /\ wire' = RemoveIndex(wire, 1) /\ mail' = Append(mail, f)
        /\ todo'[u] = (IF link[u] THEN Append(todo[u], f) ELSE todo[u])
        /\ UNCHANGED <<sent, link[u], acked, chain[u], ratchet[u], disk, store, faults>>
    BY <1>2 DEF Arrive, keys, vault, Calm
  <2>2. f \in sent /\ Has(f, wire)
    BY <2>1 DEF InboundTypes, Has
  <2>3. /\ \A x : Has(x, wire') <=> Has(x, wire) /\ x # f
        /\ Distinct(wire')
        /\ \A x, y : Before(wire, x, y) => Before(wire', x, y)
    BY <2>1, RemoveKeepsOrder DEF InboundTypes, OrderInv, OnePlace
  <2>4. /\ ~Has(f, mail) /\ ~Has(f, todo[u]) /\ f \notin ratchet[u] /\ ~JobOf(u, f) /\ f \notin acked
        /\ ~LiveJob(u, f)
    BY <2>2 DEF OrderInv, OnePlace, NotTaken, JobOf, LiveJob
  <2> HIDE DEF f
  <2>5. /\ \A x : Has(x, mail') <=> Has(x, mail) \/ x = f
        /\ Distinct(mail')
        /\ \A x, y : Before(mail, x, y) /\ x # y /\ (f = x => ~Has(y, mail)) => Before(mail', x, y)
    BY <2>1, <2>2, <2>4, AppendKeepsOrder DEF InboundTypes, OrderInv, OnePlace
  <2>6. /\ \A x : Has(x, todo'[u]) <=> Has(x, todo[u]) \/ (link[u] /\ x = f)
        /\ Distinct(todo'[u])
        /\ \A x, y : Before(todo[u], x, y) /\ x # y /\ (f = x => ~Has(y, todo[u])) => Before(todo'[u], x, y)
    <3>1. CASE link[u]
      <4>1. todo'[u] = Append(todo[u], f)
        BY <2>1, <3>1
      <4> QED BY <2>2, <2>4, <3>1, <4>1, AppendKeepsOrder DEF InboundTypes, OrderInv, OnePlace
    <3>2. CASE ~link[u]
      <4>1. todo'[u] = todo[u]
        BY <2>1, <3>2
      <4> QED BY <3>2, <4>1 DEF OrderInv, OnePlace
    <3> QED BY <3>1, <3>2
  <2>7. OnePlace(u)'
    BY <2>1, <2>3, <2>5, <2>6 DEF OrderInv, OnePlace, JobOf
  <2>8. NotTaken(u)'
    <3>1. \A x \in sent : Has(x, todo'[u]) => Has(x, mail') /\ ~LiveJob(u, x) /\ (x \in ratchet[u] => x \in disk)
      BY <2>4, <2>5, <2>6 DEF OrderInv, NotTaken
    <3>2. ~link[u] => todo'[u] = <<>>
      BY <2>1 DEF OrderInv, NotTaken
    <3> QED BY <2>1, <3>1, <3>2 DEF OrderInv, NotTaken, LiveJob
  <2>9. Taken(u)'
    <3>1. link[u] => \A x \in sent : Has(x, mail') =>
               \/ Has(x, todo'[u])
               \/ x \in ratchet[u] /\ (x \in disk \/ LiveJob(u, x))
      BY <2>5, <2>6 DEF OrderInv, Taken
    <3> QED BY <2>1, <3>1 DEF Taken, LiveJob
  <2>10. ASSUME NEW m \in Recallable PROVE RecallLast(u, m)' /\ RecallFinal(u, m)'
    <3>1. Text(m) # Recall(m) /\ RecallLast(u, m) /\ RecallFinal(u, m)
      BY <1>0, FramesDiffer
    <3>2. f = Text(m) => (Recall(m) \in sent => Has(Recall(m), wire))
      BY <2>2, <3>1 DEF RecallLast
    <3>3. f = Text(m) => ~Has(Recall(m), mail) /\ ~Has(Recall(m), todo[u]) /\ Recall(m) \notin acked
                         /\ ~JobOf(u, Recall(m))
      BY <1>0, <3>2 DEF OrderInv, OnePlace, NotTaken, InboundTypes
    <3>4. f = Recall(m) => ~Has(Text(m), wire)
      BY <2>1, <3>1, FirstIsFirst DEF RecallLast, f, InboundTypes
    <3>5. /\ Before(wire', Text(m), Recall(m)) /\ Before(mail', Text(m), Recall(m))
          /\ Before(todo'[u], Text(m), Recall(m))
      BY <2>3, <2>5, <2>6, <3>1, <3>3 DEF RecallLast
    <3>6. Recall(m) \in sent /\ ~Has(Recall(m), wire') => ~Has(Text(m), wire')
      BY <2>3, <3>1, <3>4 DEF RecallLast
    <3>7. \A k \in DOMAIN chain[u] : chain[u][k].frame = Recall(m) /\ chain[u][k].live =>
              ~Has(Text(m), todo'[u]) /\ \A j \in DOMAIN chain[u] : j > k => chain[u][j].frame # Text(m)
      BY <2>6, <3>1, <3>3 DEF RecallLast, JobOf
    <3>8. RecallLast(u, m)'
      BY <2>1, <3>1, <3>5, <3>6, <3>7 DEF RecallLast
    <3>9. Recall(m) \in acked => /\ store[m] = "absent" /\ ~JobOf(u, Text(m))
                                 /\ Has(Text(m), mail') => Text(m) \in disk
      BY <2>5, <3>1, <3>3 DEF RecallFinal
    <3>10. RecallFinal(u, m)'
      BY <2>1, <3>9 DEF RecallFinal, JobOf
    <3> QED BY <3>8, <3>10
  <2> QED BY <1>0, <2>1, <2>7, <2>8, <2>9, <2>10 DEF OrderInv
<1>3. ASSUME NEW t \in Tab, onGroupMessage(t) PROVE OrderInv(u)'
  <2> DEFINE f == todo[u][1]
  <2>0. t = u
    BY <1>3, <1>a DEF onGroupMessage, InboundTypes
  <2>1. /\ link[u] /\ todo[u] # <<>> /\ todo'[u] = Tail(todo[u])
        /\ \/ Head(todo[u]) \in ratchet[u] /\ UNCHANGED <<ratchet[u], chain[u]>>
           \/ /\ Head(todo[u]) \notin ratchet[u] /\ ratchet'[u] = ratchet[u] \cup {Head(todo[u])}
              /\ chain'[u] = Append(chain[u], Job(Head(todo[u])))
        /\ UNCHANGED <<sent, wire, mail, link[u], acked, disk, store, faults>>
    BY <1>3, <1>b, <2>0 DEF onGroupMessage, inbound, vault
  <2>2. todo'[u] = RemoveIndex(todo[u], 1) /\ Head(todo[u]) = f /\ 1 \in DOMAIN todo[u] /\ f \in sent
    BY <2>1, TailIsRemove DEF InboundTypes
  <2>3. /\ \A x : Has(x, todo'[u]) <=> Has(x, todo[u]) /\ x # f
        /\ Distinct(todo'[u])
        /\ \A x, y : Before(todo[u], x, y) => Before(todo'[u], x, y)
    BY <2>2, RemoveKeepsOrder DEF InboundTypes, OrderInv, OnePlace
  <2>4. Has(f, todo[u]) /\ Has(f, mail) /\ ~LiveJob(u, f) /\ (f \in ratchet[u] => f \in disk)
    <3>1. Has(f, todo[u])
      BY <2>2 DEF Has
    <3> QED BY <2>2, <3>1 DEF OrderInv, NotTaken
  <2>5. \A m \in Recallable : f = Recall(m) => ~Has(Text(m), todo[u])
    BY <1>0, <2>2, FirstIsFirst DEF InboundTypes, RecallLast
  <2> HIDE DEF f
  <2>6. CASE f \in ratchet[u]
    <3>1. UNCHANGED <<ratchet[u], chain[u]>> /\ f \in disk
      BY <2>1, <2>2, <2>4, <2>6
    <3>2. \A x : (JobOf(u, x)' <=> JobOf(u, x)) /\ (LiveJob(u, x)' <=> LiveJob(u, x))
      BY <3>1 DEF JobOf, LiveJob
    <3>3. OnePlace(u)' /\ NotTaken(u)'
      BY <2>1, <2>3, <3>1, <3>2 DEF OrderInv, OnePlace, NotTaken
    <3>4. Taken(u)'
      BY <2>1, <2>3, <2>6, <3>1, <3>2 DEF OrderInv, Taken
    <3>5. ASSUME NEW m \in Recallable PROVE RecallLast(u, m)' /\ RecallFinal(u, m)'
      BY <1>0, <2>1, <2>3, <3>1, <3>2 DEF RecallLast, RecallFinal
    <3> QED BY <1>0, <2>1, <3>3, <3>4, <3>5 DEF OrderInv
  <2>7. CASE f \notin ratchet[u]
    <3>1. ratchet'[u] = ratchet[u] \cup {f} /\ chain'[u] = Append(chain[u], Job(f))
      BY <2>1, <2>2, <2>7
    <3>2. /\ chain[u] \in Seq(JobOver(sent)) /\ Job(f) \in JobOver(sent)
          /\ Job(f).frame = f /\ Job(f).live
      BY <2>2 DEF InboundTypes, Job, JobOver
    <3>3. /\ DOMAIN chain[u] = 1..Len(chain[u]) /\ Len(chain[u]) \in Nat
          /\ DOMAIN chain'[u] = 1..(Len(chain[u]) + 1)
          /\ \A j \in 1..Len(chain[u]) : chain'[u][j] = chain[u][j]
          /\ chain'[u][Len(chain[u]) + 1] = Job(f)
      BY <3>1, <3>2, AppendProperties
    <3>4. /\ \A j \in DOMAIN chain'[u] :
                \/ j \in DOMAIN chain[u] /\ chain'[u][j] = chain[u][j]
                \/ j = Len(chain[u]) + 1 /\ chain'[u][j].frame = f /\ chain'[u][j].live
          /\ \A j \in DOMAIN chain[u] : j \in DOMAIN chain'[u] /\ chain'[u][j] = chain[u][j] /\ j < Len(chain[u]) + 1
          /\ \A j \in DOMAIN chain'[u] : ~(j > Len(chain[u]) + 1)
          /\ Len(chain[u]) + 1 \in DOMAIN chain'[u] /\ chain'[u][Len(chain[u]) + 1].frame = f
          /\ chain'[u][Len(chain[u]) + 1].live
      BY <3>2, <3>3
    <3>5. \A x : (JobOf(u, x)' <=> JobOf(u, x) \/ x = f) /\ (LiveJob(u, x)' <=> LiveJob(u, x) \/ x = f)
      BY <3>4 DEF JobOf, LiveJob
    <3>6. OnePlace(u)'
      BY <2>1, <2>3, <2>4, <3>1, <3>5 DEF OrderInv, OnePlace
    <3>7. NotTaken(u)'
      BY <2>1, <2>3, <3>1, <3>5 DEF OrderInv, NotTaken
    <3>8. Taken(u)'
      BY <2>1, <2>3, <3>1, <3>5 DEF OrderInv, Taken
    <3>9. ASSUME NEW m \in Recallable PROVE RecallLast(u, m)' /\ RecallFinal(u, m)'
      <4>1. RecallLast(u, m) /\ RecallFinal(u, m)
        BY <1>0
      <4>2. ASSUME NEW k \in DOMAIN chain'[u], chain'[u][k].frame = Recall(m), chain'[u][k].live
            PROVE  ~Has(Text(m), todo[u]) /\ \A j \in DOMAIN chain'[u] : j > k => chain'[u][j].frame # Text(m)
        <5>1. CASE k \in DOMAIN chain[u] /\ chain'[u][k] = chain[u][k]
          <6>1. ~Has(Text(m), todo[u]) /\ \A j \in DOMAIN chain[u] : j > k => chain[u][j].frame # Text(m)
            BY <4>1, <4>2, <5>1 DEF RecallLast
          <6>2. f # Text(m)
            BY <2>4, <6>1
          <6> QED BY <3>4, <6>1, <6>2
        <5>2. CASE k = Len(chain[u]) + 1 /\ chain'[u][k].frame = f
          BY <2>5, <3>4, <4>2, <5>2
        <5> QED BY <3>4, <5>1, <5>2
      <4>3. RecallLast(u, m)'
        BY <2>1, <2>3, <4>1, <4>2 DEF RecallLast
      <4>4. Recall(m) \in acked => f # Text(m)
        BY <2>4, <2>7, <4>1 DEF RecallFinal, OrderInv, NotTaken
      <4>5. RecallFinal(u, m)'
        BY <2>1, <3>5, <4>1, <4>4 DEF RecallFinal
      <4> QED BY <4>3, <4>5
    <3> QED BY <1>0, <2>1, <3>6, <3>7, <3>8, <3>9 DEF OrderInv
  <2> QED BY <2>6, <2>7
<1>4. ASSUME NEW t \in Tab, NEW i \in DOMAIN chain[t], ApplyRead(t, i) PROVE OrderInv(u)'
  <2> DEFINE f == chain[u][1].frame
  <2>0. t = u /\ i = 1
    BY <1>4, <1>a DEF ApplyRead, Unsettled, Turn
  <2>1. /\ Unsettled(u, 1, "queued") /\ 1 \in DOMAIN chain[u]
        /\ UNCHANGED <<sent, wire, todo[u], link[u], ratchet[u], disk, store, faults>>
        /\ \/ (f.kind = "revoke") = (store[f.m] = "absent") /\ Done(u, 1)
           \/ Writing(u, 1) /\ UNCHANGED <<mail, acked>>
    BY <1>4, <2>0 DEF ApplyRead, inbound, vault
  <2>2. CASE (f.kind = "revoke") = (store[f.m] = "absent") /\ Done(u, 1)
    <3>1. \A m : f = Recall(m) => store[m] = "absent"
      BY <2>2 DEF Recall
    <3> QED BY <2>1, <2>2, <3>1, DoneKeepsOrder
  <2>3. CASE Writing(u, 1) /\ UNCHANGED <<mail, acked>>
    <3>1. /\ DOMAIN chain'[u] = DOMAIN chain[u]
          /\ \A j \in DOMAIN chain[u] : /\ chain'[u][j].frame = chain[u][j].frame
                                        /\ chain'[u][j].live = chain[u][j].live
      BY <2>1, <2>3, WritingKeeps
    <3> QED BY <1>0, <2>1, <2>3, <3>1, SameJobsKeepOrder
  <2> QED BY <2>1, <2>2, <2>3
<1>5. ASSUME NEW t \in Tab, NEW i \in DOMAIN chain[t], ApplyWrite(t, i) PROVE OrderInv(u)'
  <2> DEFINE f == chain[u][1].frame
  <2>0. t = u /\ i = 1
    BY <1>5, <1>a DEF ApplyWrite, Unsettled, Turn
  <2>1. /\ 1 \in DOMAIN chain[u] /\ Unsettled(u, 1, "writing") /\ Done(u, 1)
        /\ UNCHANGED <<sent, wire, todo[u], link[u], ratchet[u], disk, faults>>
        /\ IF f.kind = "revoke" THEN CryptoErase(f.m) ELSE PersistLiveMessage(f.m)
    BY <1>5, <2>0 DEF ApplyWrite, inbound
  <2>2. f \in Frame
    <3>1. chain[u][1] \in JobOver(sent)
      BY <2>1 DEF InboundTypes
    <3> QED BY <3>1 DEF JobOver, InboundTypes
  <2>3. \A m \in Recallable : m \in Message
    BY DEF Message
  <2>4. ASSUME NEW m \in Recallable
        PROVE  /\ f = Recall(m) => store'[m] = "absent"
               /\ f # Text(m) /\ store[m] = "absent" => store'[m] = "absent"
    <3>1. CASE f.kind = "revoke"
      <4>1. store' = [store EXCEPT ![f.m] = "absent"]
        BY <2>1, <3>1 DEF CryptoErase
      <4> QED BY <2>3, <4>1 DEF StoreTypes, Recall
    <3>2. CASE f.kind # "revoke"
      <4>1. store' = [store EXCEPT ![f.m] = "held"]
        BY <2>1, <3>2 DEF PersistLiveMessage, Seal
      <4>2. f = Text(f.m)
        BY <2>2, <3>2, FrameShape
      <4>3. f # Recall(m) /\ (f # Text(m) => f.m # m)
        BY <3>2, <4>2 DEF Recall
      <4> QED BY <2>3, <4>1, <4>3 DEF StoreTypes
    <3> QED BY <3>1, <3>2
  <2> HIDE DEF f
  <2> QED BY <2>1, <2>4, DoneKeepsOrder DEF f
<1>6. ASSUME NEW t \in Tab, NEW i \in DOMAIN chain[t], ApplyRejected(t, i) PROVE OrderInv(u)'
  BY <1>0, <1>6 DEF ApplyRejected, Use
<1>7. ASSUME NEW t \in Tab, FlushTimer(t) PROVE OrderInv(u)'
  <2>0. t = u
    BY <1>7, <1>a DEF FlushTimer
  <2>1. /\ disk' = ratchet[u]
        /\ UNCHANGED <<sent, wire, mail, todo[u], link[u], acked, chain[u], ratchet[u], store, faults>>
    BY <1>7, <2>0 DEF FlushTimer, inbound, gateway, vault
  <2>2. \A x : (JobOf(u, x)' <=> JobOf(u, x)) /\ (LiveJob(u, x)' <=> LiveJob(u, x))
    BY <2>1 DEF JobOf, LiveJob
  <2>3. OnePlace(u)' /\ NotTaken(u)'
    BY <2>1, <2>2 DEF OrderInv, OnePlace, NotTaken
  <2>4. Taken(u)'
    BY <2>1, <2>2 DEF OrderInv, Taken
  <2>5. ASSUME NEW m \in Recallable PROVE RecallLast(u, m)' /\ RecallFinal(u, m)'
    BY <1>0, <2>1, <2>2 DEF RecallLast, RecallFinal, OrderInv, NotTaken
  <2> QED BY <1>0, <2>1, <2>3, <2>4, <2>5 DEF OrderInv
<1>8. ASSUME NEW t \in Tab, NEW m \in Message, openChannel(t, m) PROVE OrderInv(u)'
  BY <1>0, <1>8, QuietKeepsOrder DEF openChannel, inbound, gateway, keys, vault
<1>9. ASSUME NEW t \in Tab, ReRead(t) PROVE OrderInv(u)'
  BY <1>0, <1>9, QuietKeepsOrder DEF ReRead, inbound, gateway, keys, vault
<1>10. ASSUME NEW t \in Tab, openBurnOnRead(t) PROVE OrderInv(u)'
  <2>1. \A n \in Recallable : store'[n] = store[n]
    BY <1>10, LifetimeAssumption DEF openBurnOnRead, StoreTypes, Message
  <2> QED BY <1>0, <1>10, <2>1, QuietKeepsOrder DEF openBurnOnRead, inbound, gateway, keys
<1>11. ASSUME NEW t \in Tab, armOnView(t) PROVE OrderInv(u)'
  <2>1. \A n \in Recallable : store'[n] = store[n]
    BY <1>11, LifetimeAssumption DEF armOnView, ArmRecord, StoreTypes, Message
  <2> QED BY <1>0, <1>11, <2>1, QuietKeepsOrder DEF armOnView, inbound, gateway, keys
<1>12. ASSUME NEW t \in Tab, NEW m \in Timed, expire(t, m) PROVE OrderInv(u)'
  <2>1. \A n \in Recallable : store'[n] = store[n]
    BY <1>12, LifetimeAssumption DEF expire, CryptoErase, StoreTypes, Message
  <2> QED BY <1>0, <1>12, <2>1, QuietKeepsOrder DEF expire, inbound, gateway, keys
<1>13. ASSUME NEW t \in Tab, LinkLost(t) PROVE OrderInv(u)'
  <2>0. t = u
    BY <1>13, <1>a DEF LinkLost, InboundTypes
  <2>1. /\ link'[u] = FALSE /\ todo'[u] = <<>>
        /\ UNCHANGED <<sent, wire, mail, acked, chain[u], ratchet[u], disk, store>>
        /\ faults' \in [{"link", "crash", "reject"} -> Int] /\ faults'["reject"] = 0
    BY <1>0, <1>b, <1>13, <2>0 DEF LinkLost, Use, inbound, keys, vault
  <2> QED BY <1>0, <2>1, DropTodoKeepsOrder DEF NotTaken, OrderInv
<1>14. ASSUME NEW t \in Tab, connectGateway(t) PROVE OrderInv(u)'
  <2>0. t = u
    BY <1>14, <1>a DEF connectGateway
  <2>1. /\ link'[u] = TRUE /\ todo'[u] = mail /\ ratchet'[u] = disk
        /\ chain'[u] = Dead(chain[u])
        /\ UNCHANGED <<sent, wire, mail, acked, disk, store, faults>>
    BY <1>14, <1>b, <2>0 DEF connectGateway, inbound, vault, Dead
  <2>2. /\ DOMAIN chain'[u] = DOMAIN chain[u]
        /\ \A j \in DOMAIN chain[u] : /\ chain'[u][j].frame = chain[u][j].frame
                                      /\ chain'[u][j].live = FALSE
    <3>1. /\ DOMAIN Dead(chain[u]) = DOMAIN chain[u]
          /\ \A j \in DOMAIN chain[u] : /\ Dead(chain[u])[j].frame = chain[u][j].frame
                                        /\ Dead(chain[u])[j].live = FALSE
      BY <1>b, DeadKeeps
    <3> HIDE DEF LifetimeInv
    <3> QED BY <2>1, <3>1
  <2>3. \A x : (JobOf(u, x)' <=> JobOf(u, x)) /\ ~LiveJob(u, x)'
    BY <2>2 DEF JobOf, LiveJob
  <2>4. OnePlace(u)' /\ NotTaken(u)'
    BY <2>1, <2>3 DEF OrderInv, OnePlace, NotTaken
  <2>5. Taken(u)'
    BY <2>1 DEF Taken
  <2>6. ASSUME NEW m \in Recallable PROVE RecallLast(u, m)' /\ RecallFinal(u, m)'
    BY <1>0, <2>1, <2>2, <2>3 DEF RecallLast, RecallFinal
  <2> QED BY <1>0, <2>1, <2>4, <2>5, <2>6 DEF OrderInv
<1>15. ASSUME NEW t \in Tab, Crash(t) PROVE OrderInv(u)'
  <2>0. t = u
    BY <1>15, <1>a DEF Crash
  <2>1. /\ link'[u] = FALSE /\ todo'[u] = <<>> /\ chain'[u] = <<>> /\ ratchet'[u] = disk
        /\ UNCHANGED <<sent, wire, mail, acked, disk, store>>
        /\ faults' \in [{"link", "crash", "reject"} -> Int] /\ faults'["reject"] = 0
    BY <1>0, <1>b, <1>15, <2>0 DEF Crash, Use, inbound, vault
  <2> QED BY <2>1, DropTodoKeepsOrder DEF OrderInv, NotTaken
<1>16. ASSUME NEW t \in Tab, Login(t) PROVE OrderInv(u)'
  <2>1. PICK overdue \in SUBSET Armed : sweepExpired(t, overdue)
    BY <1>16 DEF Login
  <2>2. \A n \in Recallable : store[n] = "absent" => store'[n] = "absent"
    BY <2>1 DEF sweepExpired, Message
  <2> QED BY <1>0, <1>16, <2>2, QuietKeepsOrder DEF Login, inbound, gateway, keys
<1>17. CASE UNCHANGED vars
  BY <1>0, <1>17, QuietKeepsOrder DEF vars, inbound, gateway, keys, vault
<1> QED
  BY <1>1, <1>2, <1>3, <1>4, <1>5, <1>6, <1>7, <1>8, <1>9, <1>10, <1>11, <1>12, <1>13, <1>14, <1>15,
     <1>16, <1>17 DEF Next, Inbound, Reading

\* Where every recall of the device holds its place, a recall that is acked is final.
LEMMA RecallInvariant == Spec => []RecallInv
<1>1. ASSUME Init, NEW u \in Tab, Calm(u) PROVE OrderInv(u)
  <2>1. faults \in [{"link", "crash", "reject"} -> Int] /\ faults["reject"] = 0
    BY <1>1, LifetimeAssumption DEF Init, Calm, Regime
  <2>2. /\ wire = <<>> /\ mail = <<>> /\ todo[u] = <<>> /\ chain[u] = <<>> /\ ratchet[u] = {}
        /\ disk = {} /\ acked = {} /\ sent = {}
    BY <1>1 DEF Init
  <2>3. \A x : ~Has(x, <<>>) /\ ~JobOf(u, x)
    BY <2>2 DEF Has, JobOf
  <2>4. Distinct(<<>>) /\ \A x, y : Before(<<>>, x, y)
    BY DEF Distinct, Before
  <2> QED BY <2>1, <2>2, <2>3, <2>4 DEF OrderInv, OnePlace, NotTaken, Taken, RecallLast, RecallFinal
<1>2. ASSUME LifetimeInv, RecallInv, [Next]_vars PROVE RecallInv'
  <2>1. \A u \in Tab : Calm(u)' => Calm(u)
    BY <1>2 DEF Next, vars, Calm
  <2> QED BY <1>2, <2>1, OrderStepKeeps DEF RecallInv
<1>3. ASSUME Init PROVE RecallInv
  BY <1>1, <1>3 DEF RecallInv
<1> QED BY <1>2, <1>3, LifetimeInvariant, PTL DEF Spec

\* An acked recall is final: its message is not in the store, and is never stored
\* again, whatever is redelivered and wherever the device crashes or reconnects,
\* while one tab is in use, frames arrive in order and the store accepts every message.
THEOREM RecallIsFinal == Spec => []RecallEffective
<1>1. ASSUME RecallInv PROVE RecallEffective
  <2>1. ASSUME NEW u \in Tab, regime.tabs = {u}, ~regime.reorder, regime.reject = 0,
               NEW m \in Recallable, Recall(m) \in acked
        PROVE  store[m] = "absent"
    BY <1>1, <2>1 DEF RecallInv, Calm, OrderInv, RecallFinal
  <2> QED BY <2>1 DEF RecallEffective, OneTabInUse
<1> QED BY <1>1, RecallInvariant, PTL
=============================================================================
