------------------------------ MODULE Mailbox ------------------------------
(***************************************************************************)
(* What the gateway and a device promise each other about one account's    *)
(* mailboxes, and no more: at-least-once delivery through crashes          *)
(* (gateway/internal/bus/bus.go, the package comment; the ack rule of      *)
(* client/src/groupchannel.ts).  Where items are queued, how they are      *)
(* flushed and acked and what a connection is do not appear.               *)
(***************************************************************************)
CONSTANTS
    Receiver,  \* devices
    Item       \* what can be sent: an envelope with its mailbox and its expiry

VARIABLES
    due,       \* what each device is entitled to
    held,      \* what the mailbox holds for it
    hand,      \* what the device has in memory
    kept,      \* what it has made durable
    lapsed     \* what has passed its expiry

mailVars == <<due, held, hand, kept, lapsed>>

MailInit ==
    /\ due = [c \in Receiver |-> {}] /\ held = [c \in Receiver |-> {}]
    /\ hand = [c \in Receiver |-> {}] /\ kept = [c \in Receiver |-> {}]
    /\ lapsed = {}

\* The mailbox lets go of an item only when it is kept or has lapsed, and never holds
\* one that is not due.
Releases(c) ==
    /\ held[c] \subseteq held'[c] \cup kept[c] \cup lapsed
    /\ held'[c] \subseteq due'[c]

\* Memory holds nothing that did not come out of the mailbox.
Fetches(c) == hand'[c] \subseteq hand[c] \cup held'[c]

\* An item is sent to some devices.  A device that runs has it in memory at once.
Deposit(x, to) ==
    /\ due' = [c \in Receiver |-> IF c \in to THEN due[c] \cup {x} ELSE due[c]]
    /\ \A c \in Receiver : Releases(c) /\ Fetches(c)
    /\ \A c \in to : x \in held'[c]
    /\ UNCHANGED <<kept, lapsed>>

\* The mailbox hands out, or lets go of, what it holds; memory may be lost.
Serve ==
    /\ \A c \in Receiver : Releases(c) /\ held'[c] \subseteq held[c] /\ Fetches(c)
    /\ UNCHANGED <<due, kept, lapsed>>

\* A device makes durable what it has in memory.
Keep ==
    /\ \A c \in Receiver :
          /\ kept[c] \subseteq kept'[c]
          /\ (kept'[c] \ kept[c]) \cap due[c] \subseteq hand[c]
    /\ UNCHANGED <<due, held, hand, lapsed>>

Lapse == lapsed \subseteq lapsed' /\ UNCHANGED <<due, held, hand, kept>>

MailNext ==
    \/ \E x \in Item, to \in SUBSET Receiver : Deposit(x, to)
    \/ Serve \/ Keep \/ Lapse

MailSpec == MailInit /\ [][MailNext]_mailVars

-----------------------------------------------------------------------------
\* Memory can be lost at any moment and no item with it: what a device is entitled to
\* is durable on it, or held for it, until the item lapses.
NothingLost == \A c \in Receiver : due[c] \subseteq kept[c] \cup held[c] \cup lapsed
=============================================================================
