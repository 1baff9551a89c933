--------------------------- MODULE IdentityCard ----------------------------
(***************************************************************************)
(* The identity card (icon, bio, away message) that the devices of one     *)
(* account share: one sealed record of versioned fields, written by the    *)
(* profile editor and by the frames of the other devices                   *)
(* (client/src/controller.ts).  Each write loads the record and saves it;  *)
(* runIdentityWrite queues them on one FIFO queue.  Each field travels in  *)
(* a frame of its own.  An edit is stamped with the clock of its device,   *)
(* whatever version the card already has: clocks differ and are set, so a  *)
(* clock may show any time, and two edits may share a millisecond.         *)
(* The queue is that of one worker, and one tab of each device is in use.  *)
(***************************************************************************)
EXTENDS Integers, Sequences, Lists

CONSTANTS
    Sibling,      \* the devices of the account
    Fields,       \* the fields of the card, in the order their frames go out
    MaxCardEdit,  \* bound: edits by the user, on all devices
    MaxClock,     \* bound: the times a device's clock may show
    MaxChain,     \* bound: writes waiting on a device
    MaxCardCrash  \* bound: reloads

ASSUME IdentityCardAssumption ==
    /\ MaxCardEdit \in Nat /\ MaxClock \in Nat \ {0} /\ MaxChain \in Nat \ {0}
    /\ MaxCardCrash \in Nat /\ Fields \in Nat \ {0}

Field == 1..Fields
Clock == 1..MaxClock

VARIABLES
    edits,      \* edits so far; an edit gives its field a value of its own
    card,       \* the sealed card of a device
    form,       \* the values the profile editor of the device has loaded
    queue,      \* identityWrite: the writes waiting their turn
    writing,    \* the writes that have loaded the card and not saved it yet
    cardBox,    \* control frames the gateway holds for a device
    cardCrashes

CardVars == <<edits, card, form, queue, writing, cardBox, cardCrashes>>

BlankCard == [f \in Field |-> [v |-> -1, val |-> 0]]
Values(c) == [f \in Field |-> c[f].val]

CardInit ==
    /\ edits = 0 /\ cardCrashes = 0
    /\ card = [d \in Sibling |-> BlankCard]
    /\ form = [d \in Sibling |-> Values(BlankCard)]
    /\ queue = [d \in Sibling |-> <<>>]
    /\ writing = [d \in Sibling |-> {}]
    /\ cardBox = [d \in Sibling |-> <<>>]

-----------------------------------------------------------------------------
\* buildIdentityFrames and publishIdentityFor: one frame per field to each sibling; a
\* frame already waiting is not added again.
Frames(c) == [f \in Field |-> [kind |-> "adopt", field |-> f, v |-> c[f].v, val |-> c[f].val]]
PublishIdentity(d, box, c) ==
    LET waiting(e) == {box[e][i] : i \in DOMAIN box[e]}
        new(e) == {Frames(c)[f] : f \in Field} \ waiting(e)
    IN  [e \in Sibling |-> IF e = d THEN box[e] ELSE box[e] \o Kept(Frames(c), new(e))]

\* setIdentity is a worker operation, and so is connectGateway: one at a time.
Setting(d) ==
    \/ \E i \in DOMAIN queue[d] : queue[d][i].kind = "set"
    \/ \E w \in writing[d] : w.op.kind = "set"

\* wireIdentity: the profile editor, which loaded the card just now or a while ago, with
\* field f changed to the value val.
Drafts(d, f, val) == {[loaded EXCEPT ![f] = val] : loaded \in {form[d], Values(card[d])}}

\* The editor is saved: setIdentity queues a write of the whole form.
SetIdentity(d, f) ==
    /\ edits < MaxCardEdit /\ ~Setting(d)
    /\ edits' = edits + 1
    /\ \E draft \in Drafts(d, f, edits') : form' = [form EXCEPT ![d] = draft]
    /\ queue' = [queue EXCEPT ![d] = Append(@, [kind |-> "set", vals |-> form'[d]])]
    /\ UNCHANGED <<card, writing, cardBox, cardCrashes>>

\* adoptSiblingIdentity queues a write of one field; the frame is acked at once.
AdoptSiblingIdentity(d) ==
    /\ cardBox[d] # <<>> /\ Len(queue[d]) < MaxChain
    /\ queue' = [queue EXCEPT ![d] = Append(@, Head(cardBox[d]))]
    /\ cardBox' = [cardBox EXCEPT ![d] = Tail(@)]
    /\ UNCHANGED <<edits, card, form, writing, cardCrashes>>

\* The next write, which has loaded the card; setIdentity then reads this.now().
Begun(d, t) ==
    LET op == Head(queue[d])
    IN  [op |-> op, base |-> card[d], now |-> IF op.kind = "set" THEN t ELSE 0]

\* Mutant: a write does not wait for the previous one.
CardLoad_Unqueued(d) ==
    /\ queue[d] # <<>>
    /\ \E t \in Clock : writing' = [writing EXCEPT ![d] = @ \cup {Begun(d, t)}]
    /\ queue' = [queue EXCEPT ![d] = Tail(@)]
    /\ UNCHANGED <<edits, card, form, cardBox, cardCrashes>>

\* runIdentityWrite: the next write loads the card once the previous one has settled.
CardLoad(d) ==
    /\ queue[d] # <<>> /\ writing[d] = {}
    /\ \E t \in Clock : writing' = [writing EXCEPT ![d] = @ \cup {Begun(d, t)}]
    /\ queue' = [queue EXCEPT ![d] = Tail(@)]
    /\ UNCHANGED <<edits, card, form, cardBox, cardCrashes>>

\* What a write makes of the card it loaded: setIdentity stamps the fields that differ,
\* an adoption replaces its field when strictly newer.
Written(w) ==
    LET op == w.op
        c == w.base
    IN  IF op.kind = "set"
        THEN [f \in Field |-> IF op.vals[f] # c[f].val THEN [v |-> w.now, val |-> op.vals[f]] ELSE c[f]]
        ELSE IF op.v > c[op.field].v THEN [c EXCEPT ![op.field] = [v |-> op.v, val |-> op.val]] ELSE c

\* The save, and the broadcast unless an adoption changed nothing.
CardSave(d) ==
    \E w \in writing[d] :
        /\ LET c == Written(w)
           IN  IF w.op.kind = "set" \/ c # w.base
               THEN /\ card' = [card EXCEPT ![d] = c]
                    /\ cardBox' = PublishIdentity(d, cardBox, c)
               ELSE UNCHANGED <<card, cardBox>>
        /\ writing' = [writing EXCEPT ![d] = @ \ {w}]
        /\ UNCHANGED <<edits, form, queue, cardCrashes>>

\* resyncSelfGroup on every connection: the card goes out again.  Every save has been
\* published, so only a resync that finds nothing waiting can bring news.
CardResync(d) ==
    /\ ~Setting(d) /\ \A e \in Sibling \ {d} : cardBox[e] = <<>>
    /\ cardBox' = PublishIdentity(d, cardBox, card[d])
    /\ UNCHANGED <<edits, card, form, queue, writing, cardCrashes>>

\* A reload: the writes under way are gone, their frames acked.
CardReload(d) ==
    /\ cardCrashes < MaxCardCrash
    /\ cardCrashes' = cardCrashes + 1
    /\ queue' = [queue EXCEPT ![d] = <<>>]
    /\ writing' = [writing EXCEPT ![d] = {}]
    /\ form' = [form EXCEPT ![d] = Values(card[d])]
    /\ UNCHANGED <<edits, card, cardBox>>

CardWork(d) == CardLoad(d) \/ CardSave(d)

CardNext ==
    \E d \in Sibling :
        \/ \E f \in Field : SetIdentity(d, f)
        \/ AdoptSiblingIdentity(d) \/ CardWork(d) \/ CardResync(d) \/ CardReload(d)

\* Storage operations finish, the gateway delivers what it holds, and a device
\* reconnects, which makes it publish its card, again and again.
CardFairness ==
    \A d \in Sibling : /\ WF_CardVars(CardWork(d)) /\ WF_CardVars(AdoptSiblingIdentity(d))
                        /\ SF_CardVars(CardResync(d))

CardSpec == CardInit /\ [][CardNext]_CardVars /\ CardFairness

-----------------------------------------------------------------------------
(* Properties. *)

\* Type correctness.
CardTypeOK ==
    /\ edits \in 0..MaxCardEdit /\ cardCrashes \in 0..MaxCardCrash
    /\ \A d \in Sibling : /\ card[d] \in [Field -> [v : {-1} \cup Clock, val : 0..edits]]
                         /\ form[d] \in [Field -> 0..edits]

\* Field f of the card of d is what the edit w saved there: a value the user changed,
\* under the clock of d.
Edited(d, f, w) ==
    /\ w.op.kind = "set" /\ w.op.vals[f] # card[d][f].val
    /\ card'[d][f] = [v |-> w.now, val |-> w.op.vals[f]]

\* A save changes a field of the card to a newer version, or to what the user just
\* changed it to: frames that arrive back to back cannot undo one another, an edit of
\* one field cannot undo an adoption of the other, and no adoption undoes an edit
\* (runIdentityWrite; "so each sees the previous one's committed result").
CardLosesNoUpdate ==
    [][\A d \in Sibling, f \in Field : card'[d][f] # card[d][f] =>
         \/ card'[d][f].v > card[d][f].v
         \/ \E w \in writing[d] \ writing'[d] : Edited(d, f, w)]_CardVars

CardsAgree == \A d, e \in Sibling : card[d] = card[e]

\* All devices end with the same card, as "the most recent change wins on every device"
\* (the comment above setIdentity) has it.  Not a property of the code when two devices
\* stamp the same millisecond: see the README.
CardsConverge == <>[]CardsAgree

\* The version of a field never goes down.  Not a property of the code when the clocks
\* differ: an edit takes the device's own time and not the maximum with the version it
\* replaces, and the siblings that hold that version ignore it.  See the README.
CardNeverRegresses ==
    [][\A d \in Sibling, f \in Field : card'[d][f].v >= card[d][f].v]_CardVars
=============================================================================
