--------------------------- MODULE MailboxProofs ---------------------------
(***************************************************************************)
(* The abstract mailbox loses nothing, for any devices and any items.      *)
(* Delivery implements it (AtLeastOnce), so what is proved here holds of   *)
(* the bus and its devices wherever that refinement does.                  *)
(***************************************************************************)
EXTENDS Mailbox, TLAPS

\* One step of the abstract mailbox preserves NothingLost: the only steps that take an
\* item out of the mailbox take out what is kept or has lapsed.
LEMMA StepLosesNothing ==
    NothingLost /\ [MailNext]_mailVars => NothingLost'
<1> SUFFICES ASSUME NothingLost, [MailNext]_mailVars, NEW c \in Receiver
             PROVE  due'[c] \subseteq kept'[c] \cup held'[c] \cup lapsed'
    BY DEF NothingLost
<1>1. due[c] \subseteq kept[c] \cup held[c] \cup lapsed
    BY DEF NothingLost
<1>2. CASE \E x \in Item, to \in SUBSET Receiver : Deposit(x, to)
  <2> PICK x \in Item, to \in SUBSET Receiver : Deposit(x, to)
      BY <1>2
  <2>1. held[c] \subseteq held'[c] \cup kept[c] \cup lapsed
      BY DEF Deposit, Releases
  <2>2. due'[c] = IF c \in to THEN due[c] \cup {x} ELSE due[c]
      BY DEF Deposit
  <2>3. c \in to => x \in held'[c]
      BY DEF Deposit
  <2>4. kept' = kept /\ lapsed' = lapsed
      BY DEF Deposit
  <2> QED  BY <1>1, <2>1, <2>2, <2>3, <2>4
<1>3. CASE Serve
  <2>1. held[c] \subseteq held'[c] \cup kept[c] \cup lapsed
      BY <1>3 DEF Serve, Releases
  <2> QED  BY <1>1, <1>3, <2>1 DEF Serve
<1>4. CASE Keep
  <2>1. kept[c] \subseteq kept'[c]
      BY <1>4 DEF Keep
  <2> QED  BY <1>1, <1>4, <2>1 DEF Keep
<1>5. CASE Lapse
    BY <1>1, <1>5 DEF Lapse
<1>6. CASE UNCHANGED mailVars
    BY <1>1, <1>6 DEF mailVars
<1> QED  BY <1>2, <1>3, <1>4, <1>5, <1>6 DEF MailNext

\* At-least-once delivery as an invariant: a crash at any moment loses nothing.
THEOREM MailboxLosesNothing == MailSpec => []NothingLost
<1>1. MailInit => NothingLost
    BY DEF MailInit, NothingLost
<1> QED  BY <1>1, StepLosesNothing, PTL DEF MailSpec

=============================================================================
