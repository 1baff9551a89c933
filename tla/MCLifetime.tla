---------------------------- MODULE MCLifetime ----------------------------
(* Instances of the message store for TLC. *)
EXTENDS Lifetime

\* Every tab over one store and one mailbox, with redeliveries, a crash and a
\* failed persist, and a message that is burned or that counts down.
TwoTabsBurn == [tabs |-> Tab, messages |-> Burn, reorder |-> FALSE,
                link |-> 2, crash |-> 1, reject |-> 1]
TwoTabsTimed == [TwoTabsBurn EXCEPT !.messages = Timed]

\* One tab, a message of each lifetime, frames in order and a store that works.
OneTab == [tabs |-> {CHOOSE t \in Tab : TRUE}, messages |-> Message, reorder |-> FALSE,
           link |-> 1, crash |-> 1, reject |-> 0]

MCRegimes == {TwoTabsBurn, TwoTabsTimed, OneTab}

\* Two tabs and no fault at all.
NoFault == {[TwoTabsBurn EXCEPT !.link = 0, !.crash = 0, !.reject = 0]}

\* The environments that refute a property (README, section 4).
Overtaking == {[OneTab EXCEPT !.reorder = TRUE]}
TwoTabsRecall == {[OneTab EXCEPT !.tabs = Tab, !.messages = Recallable, !.link = 0, !.crash = 0]}
TwoTabsCrash == {[TwoTabsTimed EXCEPT !.link = 0, !.reject = 0]}
===========================================================================
