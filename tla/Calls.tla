------------------------------- MODULE Calls -------------------------------
(***************************************************************************)
(* Peer-to-peer calls: CallSession (callsession.ts) and the call part of   *)
(* the window that hosts it (app.ts), at the two ends of one conversation. *)
(* Every `await` of the code is a step: getUserMedia (the permission       *)
(* prompt), createOffer, setRemoteDescription and createAnswer leave a     *)
(* continuation in `tasks`, and a signal or a click may run before it      *)
(* resumes.  Signals travel in order over the end-to-end channel, but only *)
(* while the conversation is the one on screen: the host drops what it     *)
(* would send or receive from any other window.                            *)
(***************************************************************************)
EXTENDS Naturals, Sequences, FiniteSets

CONSTANTS Peer,        \* the two ends of the conversation
          MaxCall,     \* call ids placed in a behaviour
          MaxIce,      \* candidates one end gathers for a call
          MaxPendingIce, \* MAX_PENDING_ICE
          MaxNavigate, \* times a user leaves or re-enters the conversation
          MaxRefusal   \* captures or WebRTC operations that fail

ASSUME CallsAssumption ==
  /\ IsFiniteSet(Peer) /\ Cardinality(Peer) = 2
  /\ MaxCall \in Nat /\ MaxIce \in Nat /\ MaxPendingIce \in Nat \ {0}
  /\ MaxNavigate \in Nat /\ MaxRefusal \in Nat

VARIABLES side,   \* per end: the session's calls, live captures and the window
          wire,   \* per end: the signals on their way to it
          placed, \* number of call ids used
          moves,  \* navigations so far
          refusals, \* failed captures and operations so far
          hungUp  \* calls that a user hung up or declined

callVars == <<side, wire, placed, moves, refusals, hungUp>>

CallId == 1 .. MaxCall

\* activeCallId = null
NoCall == 0

Other(p) == CHOOSE q \in Peer : q # p

\* What an awaited operation resumes into.
Task == {"capture", "offer", "install", "answer", "apply"}

\* The Call record; ringing is pendingOffer # undefined on the callee.
CallRecord == [role : {"caller", "callee"}, pc : BOOLEAN, remoteReady : BOOLEAN,
               pendingIce : 0 .. MaxPendingIce, gathered : 0 .. MaxIce]

CallSide == [calls : UNION {[s -> CallRecord] : s \in SUBSET CallId},
             live : SUBSET CallId, tasks : SUBSET (CallId \X Task),
             active : CallId \cup {NoCall}, prompts : SUBSET CallId,
             inChat : BOOLEAN]

Signal == [kind : {"offer", "answer", "ice", "decline", "hangup"}, id : CallId]

NewCall(role) == [role |-> role, pc |-> FALSE, remoteReady |-> FALSE,
                  pendingIce |-> 0, gathered |-> 0]

CallInit ==
  /\ side = [p \in Peer |-> [calls |-> <<>>, live |-> {}, tasks |-> {},
                             active |-> NoCall, prompts |-> {}, inChat |-> TRUE]]
  /\ wire = [p \in Peer |-> <<>>]
  /\ placed = 0 /\ moves = 0 /\ refusals = 0 /\ hungUp = {}

Has(s, id) == id \in DOMAIN s.calls

\* sendCallSignal: a control frame to the other end.
SendCallSignal(to, kind, id) == [wire EXCEPT ![to] = Append(@, [kind |-> kind, id |-> id])]

\* sendSignal: routed to the conversation on screen, dropped when there is none.
SendSignal(p, kind, id) ==
  IF side[p].inChat THEN SendCallSignal(Other(p), kind, id) ELSE wire

SetCall(s, id, call) ==
  [s EXCEPT !.calls = [i \in DOMAIN s.calls \cup {id} |->
                         IF i = id THEN call ELSE s.calls[i]]]

StopTracks(s, id) == [s EXCEPT !.live = @ \ {id}]

\* Stop the tracks, close the connection, forget the call.
Teardown(s, id) ==
  [StopTracks(s, id) EXCEPT !.calls = [i \in DOMAIN s.calls \ {id} |-> s.calls[i]]]

\* onState(id, 'ended') as the window handles it.
OnEnded(s, id) ==
  IF id # s.active THEN [s EXCEPT !.prompts = @ \ {id}]
                   ELSE [s EXCEPT !.active = NoCall]

Await(s, id, task) == [s EXCEPT !.tasks = @ \cup {<<id, task>>}]

Resumed(s, id, task) == [s EXCEPT !.tasks = @ \ {<<id, task>>}]

\* drainPendingIce: every buffered candidate is applied.
Drained(s, id) == SetCall(s, id, [s.calls[id] EXCEPT !.pendingIce = 0])

Unmoved == UNCHANGED <<placed, moves, refusals, hungUp>>

-----------------------------------------------------------------------------
(* Clicks.                                                                 *)

\* startOutgoingCall and the synchronous part of startCall.
StartOutgoingCall(p) ==
  /\ side[p].inChat
  /\ side[p].active = NoCall
  /\ placed < MaxCall
  /\ placed' = placed + 1
  /\ side' = [side EXCEPT ![p] =
                Await(SetCall([@ EXCEPT !.active = placed'], placed', NewCall("caller")),
                      placed', "capture")]
  /\ UNCHANGED <<wire, moves, refusals, hungUp>>

\* Accept on the prompt: the overlay replaces whatever it showed, then accept()
\* asks for the microphone.
AcceptCall(p, id) ==
  /\ id \in side[p].prompts
  /\ LET shown == [side[p] EXCEPT !.prompts = @ \ {id}, !.active = id]
     IN side' = [side EXCEPT ![p] = IF Has(shown, id) THEN Await(shown, id, "capture")
                                                      ELSE shown]
  /\ UNCHANGED wire
  /\ Unmoved

\* decline() of the session, from the prompt or because the window is busy.
DeclineCall(p, id) ==
  /\ id \in side[p].prompts
  /\ LET closed == [side[p] EXCEPT !.prompts = @ \ {id}]
     IN side' = [side EXCEPT ![p] = OnEnded(Teardown(closed, id), id)]
  /\ wire' = SendSignal(p, "decline", id)
  /\ hungUp' = hungUp \cup {id}
  /\ UNCHANGED <<placed, moves, refusals>>

\* Hang up on the overlay.
HangupCall(p) ==
  LET id == side[p].active IN
  /\ id # NoCall
  /\ Has(side[p], id)
  /\ side' = [side EXCEPT ![p] = OnEnded(Teardown(@, id), id)]
  /\ wire' = SendSignal(p, "hangup", id)
  /\ hungUp' = hungUp \cup {id}
  /\ UNCHANGED <<placed, moves, refusals>>

\* The user opens another window, or comes back to the conversation.
Navigate(p) ==
  /\ moves < MaxNavigate
  /\ moves' = moves + 1
  /\ side' = [side EXCEPT ![p].inChat = ~@]
  /\ UNCHANGED <<wire, placed, refusals, hungUp>>

-----------------------------------------------------------------------------
(* Continuations of the awaited operations.                                *)

CapturedUnchecked(s, id) ==
  Await([s EXCEPT !.live = @ \cup {id}], id, "offer")

\* The capture resolved: release it at once when the call ended meanwhile,
\* otherwise keep it, open the connection and go on to the offer or the answer.
Captured(s, id) ==
  IF ~Has(s, id)
    THEN s
    ELSE LET call == s.calls[id]
             next == IF call.role = "caller" THEN "offer" ELSE "install"
         IN Await([SetCall(s, id, [call EXCEPT !.pc = TRUE]) EXCEPT !.live = @ \cup {id}],
                  id, next)

CaptureResolves(p, id) ==
  /\ <<id, "capture">> \in side[p].tasks
  /\ side' = [side EXCEPT ![p] = Captured(Resumed(@, id, "capture"), id)]
  /\ UNCHANGED wire
  /\ Unmoved

\* An awaited operation rejects: fail() tears the call down; nothing is signalled.
OperationFails(p, id, task) ==
  /\ <<id, task>> \in side[p].tasks
  /\ refusals < MaxRefusal
  /\ refusals' = refusals + 1
  /\ side' = [side EXCEPT ![p] =
                OnEnded(Teardown(Resumed(@, id, task), id), id)]
  /\ UNCHANGED <<wire, placed, moves, hungUp>>

\* A closed connection rejects: the catch reports a call that is already gone.
OperationOrphaned(p, id, task) ==
  /\ <<id, task>> \in side[p].tasks
  /\ task # "capture"
  /\ ~Has(side[p], id)
  /\ side' = [side EXCEPT ![p] = OnEnded(Resumed(@, id, task), id)]
  /\ UNCHANGED wire
  /\ Unmoved

OfferMadeAnyway(p, id) ==
  /\ <<id, "offer">> \in side[p].tasks
  /\ side' = [side EXCEPT ![p] = Resumed(@, id, "offer")]
  /\ wire' = SendSignal(p, "offer", id)
  /\ Unmoved

\* createOffer and setLocalDescription done: ring the peer.
OfferMade(p, id) ==
  /\ <<id, "offer">> \in side[p].tasks
  /\ Has(side[p], id)
  /\ side' = [side EXCEPT ![p] = Resumed(@, id, "offer")]
  /\ wire' = SendSignal(p, "offer", id)
  /\ Unmoved

\* setRemoteDescription(pendingOffer) done: candidates may now be applied.
OfferInstalled(p, id) ==
  /\ <<id, "install">> \in side[p].tasks
  /\ Has(side[p], id)
  /\ side' = [side EXCEPT ![p] =
                Await(SetCall(Resumed(@, id, "install"), id,
                              [@.calls[id] EXCEPT !.remoteReady = TRUE]), id, "answer")]
  /\ UNCHANGED wire
  /\ Unmoved

\* createAnswer and setLocalDescription done: answer, then drain the buffer.
AnswerMade(p, id) ==
  /\ <<id, "answer">> \in side[p].tasks
  /\ Has(side[p], id)
  /\ side' = [side EXCEPT ![p] = Drained(Resumed(@, id, "answer"), id)]
  /\ wire' = SendSignal(p, "answer", id)
  /\ Unmoved

\* The drain runs first and a candidate may still be buffered after it.
AnswerInstalledEarlyDrain(p, id) ==
  /\ <<id, "apply">> \in side[p].tasks
  /\ Has(side[p], id)
  /\ side' = [side EXCEPT ![p] =
                SetCall(Resumed(@, id, "apply"), id,
                        [@.calls[id] EXCEPT !.remoteReady = TRUE])]
  /\ UNCHANGED wire
  /\ Unmoved

\* The caller's setRemoteDescription(answer) done.
AnswerInstalled(p, id) ==
  /\ <<id, "apply">> \in side[p].tasks
  /\ Has(side[p], id)
  /\ side' = [side EXCEPT ![p] =
                Drained(SetCall(Resumed(@, id, "apply"), id,
                                [@.calls[id] EXCEPT !.remoteReady = TRUE]), id)]
  /\ UNCHANGED wire
  /\ Unmoved

-----------------------------------------------------------------------------
(* Signals and connection events.                                          *)

\* handleSignal of an offer: ring, or decline because another call is on screen.
OnOffer(p, id) ==
  LET rung == SetCall(side[p], id, NewCall("callee")) IN
  CASE Has(side[p], id) ->
         side' = side /\ wire' = [wire EXCEPT ![p] = Tail(@)] /\ hungUp' = hungUp
    [] ~Has(side[p], id) /\ side[p].active # NoCall ->
         /\ side' = [side EXCEPT ![p] = OnEnded(Teardown(rung, id), id)]
         /\ wire' = [SendSignal(p, "decline", id) EXCEPT ![p] = Tail(@)]
         /\ hungUp' = hungUp \cup {id}
    [] OTHER ->
         /\ side' = [side EXCEPT ![p] = [rung EXCEPT !.prompts = @ \cup {id}]]
         /\ wire' = [wire EXCEPT ![p] = Tail(@)]
         /\ hungUp' = hungUp

\* An inbound candidate: applied once the remote description is in, else buffered.
OnIce(s, id) ==
  LET call == s.calls[id] IN
  IF (call.remoteReady /\ call.pc) \/ call.pendingIce = MaxPendingIce
    THEN s
    ELSE SetCall(s, id, [call EXCEPT !.pendingIce = @ + 1])

OnOtherSignal(s, sig) ==
  CASE ~Has(s, sig.id) -> s
    [] Has(s, sig.id) /\ sig.kind \in {"decline", "hangup"} ->
         OnEnded(Teardown(s, sig.id), sig.id)
    [] Has(s, sig.id) /\ sig.kind = "answer" -> Await(s, sig.id, "apply")
    [] Has(s, sig.id) /\ sig.kind = "ice" -> OnIce(s, sig.id)

\* The 'call-signal' event: ignored unless its conversation is on screen.
HandleSignal(p) ==
  /\ wire[p] # <<>>
  /\ LET sig == Head(wire[p]) IN
     IF side[p].inChat /\ sig.kind = "offer"
       THEN OnOffer(p, sig.id)
       ELSE /\ side' = [side EXCEPT ![p] = IF @.inChat THEN OnOtherSignal(@, sig) ELSE @]
            /\ wire' = [wire EXCEPT ![p] = Tail(@)]
            /\ hungUp' = hungUp
  /\ UNCHANGED <<placed, moves, refusals>>

\* onicecandidate, once a local description is set.
GatherIce(p, id) ==
  /\ Has(side[p], id)
  /\ side[p].calls[id].pc
  /\ {<<id, "offer">>, <<id, "install">>, <<id, "answer">>} \cap side[p].tasks = {}
  /\ side[p].calls[id].gathered < MaxIce
  /\ side' = [side EXCEPT ![p].calls[id].gathered = @ + 1]
  /\ wire' = SendSignal(p, "ice", id)
  /\ Unmoved

\* connectionState failed/disconnected/closed: the other end's connection is gone.
ConnectionLost(p, id) ==
  /\ Has(side[p], id)
  /\ side[p].calls[id].remoteReady
  /\ ~Has(side[Other(p)], id)
  /\ side' = [side EXCEPT ![p] = OnEnded(Teardown(@, id), id)]
  /\ UNCHANGED wire
  /\ Unmoved

Resume(p) ==
  \E id \in CallId :
    \/ CaptureResolves(p, id) \/ OfferMade(p, id) \/ OfferInstalled(p, id)
    \/ AnswerMade(p, id) \/ AnswerInstalled(p, id)
    \/ \E task \in Task : OperationOrphaned(p, id, task)

CallNext ==
  \E p \in Peer :
    \/ StartOutgoingCall(p) \/ HangupCall(p) \/ Navigate(p)
    \/ HandleSignal(p) \/ Resume(p)
    \/ \E id \in CallId :
         \/ AcceptCall(p, id) \/ DeclineCall(p, id)
         \/ GatherIce(p, id) \/ ConnectionLost(p, id)
         \/ \E task \in Task : OperationFails(p, id, task)

\* The event loop runs what is queued; clicks, gathering and failures owe nothing.
CallFairness ==
  \A p \in Peer : WF_callVars(HandleSignal(p)) /\ WF_callVars(Resume(p))

CallSpec == CallInit /\ [][CallNext]_callVars /\ CallFairness

-----------------------------------------------------------------------------
\* Type correctness.
CallTypeOK ==
  /\ side \in [Peer -> CallSide]
  /\ \A p \in Peer : \A i \in 1 .. Len(wire[p]) : wire[p][i] \in Signal
  /\ placed \in 0 .. MaxCall /\ moves \in 0 .. MaxNavigate
  /\ refusals \in 0 .. MaxRefusal /\ hungUp \subseteq CallId

\* The microphone and the camera never stay open for a call that is over: a
\* capture whose permission prompt outlives its call is stopped when it resolves,
\* and teardown stops the one that is running (callsession.ts: aborted, teardown).
NoOrphanCapture == \A p \in Peer : side[p].live \subseteq DOMAIN side[p].calls

\* No candidate that arrived before the remote description is left in the buffer
\* once the setup of the call has run to its end, however the signals and the
\* awaited operations interleave (callsession.ts: remoteReady, drainPendingIce).
NoStrandedIce ==
  \A p \in Peer : \A id \in DOMAIN side[p].calls :
    (side[p].calls[id].remoteReady /\ \A t \in Task : <<id, t>> \notin side[p].tasks)
      => side[p].calls[id].pendingIce = 0

\* A call that one user hung up or declined ends at both ends, without any help
\* from the connection, as long as both stay in the conversation (hangup, decline
\* and startCall's continuations: no offer leaves after the hangup).
HangupReaches ==
  []<>(moves > 0 \/ \A id \in hungUp, p \in Peer : ~Has(side[p], id))

\* "Calls are 1:1" (app.ts:4753): a running capture is the call on the overlay.
\* Not an invariant of the code: see the README.
CaptureHasControls == \A p \in Peer : side[p].live \subseteq {side[p].active}
=============================================================================
