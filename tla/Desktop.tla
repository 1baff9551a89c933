------------------------------ MODULE Desktop -------------------------------
(***************************************************************************)
(* The desktop of app.ts: one live window, the windows parked behind it    *)
(* and the ones minimized to the menu bar, the camera of the scan screen,  *)
(* and the loaders that navigate when their answer arrives.  Worker calls  *)
(* answer in the order they were posted; reads that go to the account      *)
(* server answer when they please.  The model value of navGen is whether a *)
(* pending loader's copy of it is still current.                           *)
(***************************************************************************)
EXTENDS Naturals, Sequences, SequencesExt, Lists

CONSTANTS Conv,      \* conversations
          NoConv,    \* no conversation in the window
          MaxMove,   \* what the user does
          MaxNews,   \* events from the worker
          MaxLoad    \* loaders pending at once

ASSUME DesktopAssumption ==
  NoConv \notin Conv /\ MaxMove \in Nat /\ MaxNews \in Nat /\ MaxLoad \in Nat

VARIABLES view,     \* the live window
          box,      \* is there text in its compose box?  (kept only in the DOM)
          parked,   \* windows behind it, topmost last
          mini,     \* windows on the menu bar
          drafts,   \* chanDrafts: conversations with a draft put aside
          camera,   \* scanStream, and the permission prompt's copy of navGen
          loads,    \* worker calls whose answer navigates, oldest first
          reads,    \* account-server reads whose answer navigates
          suppress, \* suppressSettingsRefresh
          used      \* user moves and events so far

deskVars == <<view, box, parked, mini, drafts, camera, loads, reads, suppress, used>>

Window(k, c, draft, log) == [kind |-> k, conv |-> c, compose |-> draft, log |-> log]
Plain(k) == Window(k, NoConv, FALSE, FALSE)

Primary == {"buddies", "channels", "conversation"}

WindowKey(w) == IF w.kind = "conversation" THEN <<"conv", w.conv>> ELSE <<"kind", w.kind>>

DeskInit ==
  /\ view = Plain("buddies") /\ box = FALSE
  /\ parked = <<>> /\ mini = {} /\ drafts = {}
  /\ camera = [on |-> FALSE, ask |-> "none"]
  /\ loads = <<>> /\ reads = {} /\ suppress = TRUE
  /\ used = [move |-> 0, news |-> 0]

-----------------------------------------------------------------------------
(* go(), and the assignments the handlers make around it.  A desk is the   *)
(* part of the state go() rewrites, so that handlers can call it twice.    *)

Desk == [view |-> view, box |-> box, parked |-> parked, mini |-> mini,
         camera |-> camera, loads |-> loads, reads |-> reads, suppress |-> suppress]

Becomes(d) ==
  /\ view' = d.view /\ box' = d.box /\ parked' = d.parked /\ mini' = d.mini
  /\ camera' = d.camera /\ loads' = d.loads /\ reads' = d.reads
  /\ suppress' = d.suppress

\* ++navGen: every pending loader that kept a copy is out of date.
Bump(d) ==
  [d EXCEPT !.loads = [i \in DOMAIN @ |-> [@[i] EXCEPT !.fresh = FALSE]],
            !.reads = {[r EXCEPT !.fresh = FALSE] : r \in @},
            !.camera.ask = IF @ = "fresh" THEN "stale" ELSE @]

StopScanLeavesCamera(d) == d

StopScan(d) == [d EXCEPT !.camera.on = FALSE]

\* render() writes the model's compose text into a fresh compose box.
Show(d, w) == [d EXCEPT !.view = w, !.box = w.compose]

SnapshotKeepsLog(d) == [d.view EXCEPT !.compose = d.box]

\* A window put behind another, or on the menu bar: the draft is harvested from
\* the DOM, the decrypted log is dropped.
Snapshot(d) == [d.view EXCEPT !.compose = d.box, !.log = FALSE]

Drop(seq, key) == Kept(seq, {w \in Range(seq) : WindowKey(w) # key})

\* A draft is carried over a refresh of the same conversation in the same kind of
\* window, unless the incoming view brings its own.
Carried(d, w) ==
  IF /\ d.view.kind = w.kind /\ w.kind \in {"conversation", "channels"}
     /\ d.view.conv = w.conv /\ w.conv # NoConv /\ ~w.compose
  THEN [w EXCEPT !.compose = d.box] ELSE w

Routed(d, w) ==
  IF WindowKey(w) = WindowKey(d.view) THEN d.parked
  ELSE LET behind == Drop(d.parked, WindowKey(w))
       IN IF d.view.kind \in Primary
          THEN Append(Drop(behind, WindowKey(d.view)), Snapshot(d))
          ELSE behind

Go(d, next) ==
  LET w == Carried(d, next)
      e == StopScan(Bump(d))
  IN Show([e EXCEPT !.suppress = @ \/ (d.view.kind = "settings" /\ w.kind # "settings"),
                    !.parked = Routed(d, w),
                    !.mini = {m \in @ : WindowKey(m) # WindowKey(w)}], w)

\* goToActive: the two-pane window keeps the chat, otherwise a window of its own.
GoToActive(d, c) ==
  Go(d, Window(IF d.view.kind = "channels" THEN "channels" ELSE "conversation", c, FALSE, TRUE))

Load(what, w) == [what |-> what, win |-> w, fresh |-> TRUE, same |-> TRUE]
Post(d, what, w) == [d EXCEPT !.loads = Append(@, Load(what, w))]

\* The front window has a compose box with the caret in it, and text in it or a
\* keystroke a moment ago (so that it may be empty again).
IsTyping == {typing \in BOOLEAN : typing => view.conv # NoConv}

\* openBuddies and openSettings read the account server.
Read(d, what) == [d EXCEPT !.reads = @ \cup {[what |-> what, fresh |-> TRUE]}]
OpenBuddies(d) == Read([d EXCEPT !.suppress = TRUE], "buddies")

-----------------------------------------------------------------------------
(* What the user does.                                                     *)

Move == /\ used.move < MaxMove
        /\ used' = [used EXCEPT !.move = @ + 1]

Room == Len(loads) < MaxLoad

Type ==
  /\ view.conv # NoConv /\ ~box
  /\ box' = TRUE /\ Move
  /\ UNCHANGED <<view, parked, mini, drafts, camera, loads, reads, suppress>>

\* The submit handler empties the box, then sendMessage; both outcomes repaint.
SendText ==
  /\ box /\ view.conv # NoConv /\ Room
  /\ Becomes(Post([Desk EXCEPT !.box = FALSE], "sent", Window("conversation", view.conv, FALSE, TRUE)))
  /\ Move /\ UNCHANGED drafts

\* A row of the Channels window opens in its right pane.
ClickRow(c) ==
  /\ view.kind = "channels" /\ Room
  /\ Becomes(Post(Desk, "row", Window("channels", c, FALSE, TRUE)))
  /\ Move /\ UNCHANGED drafts

ChannelsShowList ==
  /\ view.kind = "channels" /\ view.conv # NoConv
  /\ drafts' = IF box THEN drafts \cup {view.conv} ELSE drafts \ {view.conv}
  /\ Becomes(Go(Desk, Plain("channels"))) /\ Move

\* A buddy's chat, a chat opened from a notice: openChannel, then go, unguarded.
OpenConversation(c) ==
  /\ Room
  /\ Becomes(Post(Desk, "open", Window("conversation", c, FALSE, TRUE)))
  /\ Move /\ UNCHANGED drafts

OpenChannels ==
  /\ Room
  /\ Becomes(Post(Desk, "open", Plain("channels")))
  /\ Move /\ UNCHANGED drafts

OpenSettings ==
  /\ \A r \in reads : r.what # "settings"
  /\ Becomes(Read([Desk EXCEPT !.suppress = FALSE], "settings"))
  /\ Move /\ UNCHANGED drafts

\* Back reveals the parked buddy list at once and refreshes it.
SettingsBack ==
  /\ view.kind = "settings"
  /\ LET d == [Desk EXCEPT !.suppress = TRUE]
         home == Kept(parked, {w \in Range(parked) : w.kind = "buddies"})
     IN Becomes(OpenBuddies(IF home = <<>> THEN d ELSE Go(d, Head(home))))
  /\ Move /\ UNCHANGED drafts

OpenEditor ==
  /\ view.kind = "buddies"
  /\ Becomes(Go(Desk, Plain("editor")))
  /\ Move /\ UNCHANGED drafts

FocusParkedWindow(i) ==
  LET p == parked[i]
  IN /\ Room
     /\ Becomes(CASE p.kind = "buddies" -> OpenBuddies(Go(Desk, p))
                  [] OTHER -> Post(Bump(Desk), "focus", [p EXCEPT !.log = p.conv # NoConv]))
     /\ Move /\ UNCHANGED drafts

\* The topmost parked window takes over; it leaves the stack when the reveal
\* commits.  With nothing parked the buddy list is home.
RevealNextWindow(d) ==
  LET e == StopScan(Bump(d))
      top == e.parked[Len(e.parked)]
  IN CASE e.parked # <<>> /\ top.kind = "buddies" ->
            OpenBuddies(Show([e EXCEPT !.parked = Front(@)], top))
       [] e.parked # <<>> /\ top.kind # "buddies" ->
            Post(e, "reveal", [top EXCEPT !.log = top.conv # NoConv])
       [] e.parked = <<>> /\ e.view.kind = "buddies" -> Show(e, Plain("desktop"))
       [] OTHER -> OpenBuddies(Show(e, Plain("desktop")))

CloseWindow ==
  /\ view.kind # "desktop" /\ Room
  /\ Becomes(RevealNextWindow(Desk))
  /\ Move /\ UNCHANGED drafts

Minimize ==
  /\ view.kind # "desktop" /\ Room
  /\ LET others == {m \in mini : WindowKey(m) # WindowKey(view)}
     IN Becomes(RevealNextWindow([Desk EXCEPT !.mini = others \cup {Snapshot(Desk)}]))
  /\ Move /\ UNCHANGED drafts

\* The chip goes at once; a chat comes back when its channel has been read again.
Restore(m) ==
  LET d == [Desk EXCEPT !.mini = @ \ {m}]
  IN /\ Room
     /\ Becomes(CASE m.conv # NoConv -> Post(d, "restore", [m EXCEPT !.log = TRUE])
                  [] m.kind = "buddies" -> OpenBuddies(d)
                  [] OTHER -> Go(d, m))
     /\ Move /\ UNCHANGED drafts

DockActive ==
  /\ view.kind = "conversation" /\ Room
  /\ Becomes(Post(Bump(Desk), "dock", Window("channels", view.conv, box, view.log)))
  /\ Move /\ UNCHANGED drafts

\* The two-pane window stays behind as a bare list.
PopOutActive ==
  /\ view.kind = "channels" /\ view.conv # NoConv
  /\ LET own == Window("conversation", view.conv, box, view.log)
         behind == Drop(Drop(parked, <<"kind", "channels">>), WindowKey(own))
     IN Becomes(Show([Bump(Desk) EXCEPT !.parked = Append(behind, Plain("channels"))], own))
  /\ Move /\ UNCHANGED drafts

\* The second tap of Remove or of Block.
RemoveChannel ==
  /\ view.conv # NoConv /\ Room
  /\ \E what \in {"remove", "block"} : Becomes(Post(Desk, what, view))
  /\ Move /\ UNCHANGED drafts

-----------------------------------------------------------------------------
(* The camera.                                                             *)

\* The scan screen opens and the browser asks for the camera; the prompt keeps
\* the navGen it was asked under.  At most one prompt is up (a bound of the model).
StartScan ==
  /\ camera.ask = "none" /\ view.kind \in {"buddies", "settings"}
  /\ LET d == Go(Desk, Plain("scan")) IN Becomes([d EXCEPT !.camera.ask = "fresh"])
  /\ Move /\ UNCHANGED drafts

CameraGrantedAnyway(d) == [d EXCEPT !.camera = [on |-> TRUE, ask |-> "none"]]

\* The user may have left while the prompt was up: then the tracks are stopped.
CameraGranted(d) == [d EXCEPT !.camera = [on |-> @.ask = "fresh", ask |-> "none"]]

PromptAnswered ==
  /\ camera.ask # "none"
  /\ \/ Becomes(CameraGranted(Desk))
     \/ LET d == [Desk EXCEPT !.camera.ask = "none"]      \* refused
        IN Becomes(IF camera.ask = "fresh" THEN Go(d, Plain("editor")) ELSE d)
  /\ UNCHANGED <<drafts, used>>

\* A frame that decodes: the camera stops, then the result is handled.
CodeFound ==
  /\ camera.on
  /\ Becomes(Go(StopScan(Desk), Plain("editor")))
  /\ UNCHANGED <<drafts, used>>

-----------------------------------------------------------------------------
(* Answers.                                                                *)

\* purgeWindowsFor rebuilds every parked entry, so a reveal that waits no longer
\* finds the one it set out to remove.
PurgeWindowsFor(d, c) ==
  LET gone(w) == w.kind = "conversation" /\ w.conv = c
      strip(w) == IF w.kind = "channels" /\ w.conv = c THEN Plain("channels") ELSE w
      left == Kept(d.parked, {w \in Range(d.parked) : ~gone(w)})
  IN [d EXCEPT !.parked = [i \in DOMAIN left |-> strip(left[i])],
               !.mini = {strip(m) : m \in {x \in @ : ~gone(x)}},
               !.loads = [i \in DOMAIN @ |-> [@[i] EXCEPT !.same = FALSE]]]

Reveal(d, l) ==
  Show([d EXCEPT !.parked = IF l.same THEN Drop(@, WindowKey(l.win)) ELSE @], l.win)

Dock(d, l) ==
  Show([d EXCEPT !.parked = Drop(Drop(@, <<"kind", "channels">>), <<"conv", l.win.conv>>)], l.win)

\* The list refresh keeps whatever the pane holds now, its draft included.
RefreshList(d) ==
  IF d.view.kind = "channels" THEN Go(d, [d.view EXCEPT !.compose = d.box]) ELSE d

AfterRemove(d, l) ==
  LET p == PurgeWindowsFor(d, l.win.conv)
  IN IF l.what = "remove" /\ p.view.kind = "channels"
     THEN Post(p, "open", Plain("channels")) ELSE OpenBuddies(p)

Guarded == {"row", "focus", "reveal", "dock"}

\* The loaders that kept navGen do nothing once it moved on.  A chat that cannot be
\* read comes back as the emptied snapshot; a failed send repaints if it still shows.
Answered(d, l, ok, typing) ==
  LET w == [l.win EXCEPT !.log = @ /\ ok]
  IN CASE l.what \in Guarded /\ ~l.fresh -> d
       [] l.what = "focus" /\ l.fresh -> Go(d, w)
       [] l.what = "reveal" /\ l.fresh -> Reveal(d, [l EXCEPT !.win = w])
       [] l.what = "restore" -> Go(d, w)
       [] l.what = "sent" /\ (ok \/ d.view.conv = w.conv) -> GoToActive(d, w.conv)
       [] l.what = "row" /\ l.fresh /\ ok -> Go(d, [w EXCEPT !.compose = w.conv \in drafts])
       [] l.what = "dock" /\ l.fresh /\ ok -> Dock(d, l)
       [] l.what = "open" /\ ok -> Go(d, w)
       [] l.what = "active" /\ ok -> GoToActive(d, w.conv)
       [] l.what = "raise" /\ ok /\ d.view.kind \in Primary /\ ~typing -> Go(d, w)
       [] l.what = "list" /\ ok -> RefreshList(d)
       [] l.what = "appended" /\ ok /\ d.view.conv = w.conv -> GoToActive(d, w.conv)
       [] l.what \in {"remove", "block"} /\ ok -> AfterRemove(d, l)
       [] OTHER -> d

LoadAnswered ==
  /\ loads # <<>>
  /\ \E ok \in BOOLEAN, typing \in IsTyping :
       /\ Becomes(Answered([Desk EXCEPT !.loads = Tail(@)], Head(loads), ok, typing))
       /\ drafts' = IF Head(loads).what = "row" /\ Head(loads).fresh /\ ok
                    THEN drafts \ {Head(loads).win.conv} ELSE drafts
  /\ UNCHANGED used

\* openSettings reads the device list, looks at the latch (a background refresh
\* gives up when the user went back), then reads the history flag and goes.
ReadAnswered(r) ==
  LET d == [Desk EXCEPT !.reads = @ \ {r}]
  IN /\ Becomes(CASE r.what = "buddies" -> IF r.fresh THEN Go(d, Plain("buddies")) ELSE d
                  [] r.what = "settings" -> [d EXCEPT !.reads = @ \cup {[r EXCEPT !.what = "history"]}]
                  [] r.what = "refresh" ->
                       IF suppress THEN d ELSE [d EXCEPT !.reads = @ \cup {[r EXCEPT !.what = "latched"]}]
                  [] r.what \in {"history", "latched"} -> Go(d, Plain("settings")))
     /\ UNCHANGED <<drafts, used>>

-----------------------------------------------------------------------------
(* Events from the worker.                                                 *)

News == /\ used.news < MaxNews
        /\ used' = [used EXCEPT !.news = @ + 1]
        /\ UNCHANGED drafts

Shows(ws, c) == \E w \in ws : w.conv = c

\* Raised in the stack; promoted to the front when nobody is typing, in the shape
\* it was parked in.
Raise(d, c, typing) ==
  LET chat == {w \in Range(d.parked) : w.conv = c}
      raised == Kept(d.parked, chat)
      d2 == [d EXCEPT !.parked = Kept(@, Range(d.parked) \ chat) \o raised]
  IN IF typing \/ d.view.kind \notin Primary THEN d2 ELSE Go(d2, Last(raised))

Listed(d) ==
  IF d.view.kind = "channels" THEN Post(d, "list", Plain("channels")) ELSE d

InboundMessage(c) ==
  /\ Room
  /\ \E typing \in IsTyping :
       Becomes(
            CASE view.conv = c -> Post(Desk, "active", Window("conversation", c, FALSE, TRUE))
              [] view.conv # c /\ Shows(mini, c) -> Listed(Desk)
              [] view.conv # c /\ ~Shows(mini, c) /\ Shows(Range(parked), c) ->
                   Listed(Raise(Desk, c, typing))
              [] OTHER ->
                   Listed(IF view.kind \in Primary /\ ~typing
                          THEN Post(Desk, "raise", Window("conversation", c, FALSE, TRUE)) ELSE Desk))
  /\ News

\* Expiry, a recall or a roster change in the open chat: read it again.
OpenChatChanged ==
  /\ view.conv # NoConv /\ Room
  /\ Becomes(Post(Desk, "active", Window("conversation", view.conv, FALSE, TRUE)))
  /\ News

\* The away reply appended to a chat: the answer repaints only what still shows it.
OutboundAppended(c) ==
  /\ Room
  /\ Becomes(IF view.conv = c THEN Post(Desk, "appended", Window("conversation", c, FALSE, TRUE))
             ELSE Listed(Desk))
  /\ News

\* An unsaved editor goes to the menu bar first.
Established(c) ==
  /\ Room
  /\ LET kept == IF view.kind = "editor" THEN [Desk EXCEPT !.mini = @ \cup {view}] ELSE Desk
     IN Becomes(Post(kept, "open", Window("conversation", c, FALSE, TRUE)))
  /\ News

\* The debounced refresh of an open Settings window.
RosterChanged ==
  /\ view.kind = "settings" /\ \A r \in reads : r.what # "refresh"
  /\ Becomes(IF suppress THEN Desk ELSE Read(Desk, "refresh"))
  /\ News

DeskNext ==
  \/ Type \/ SendText \/ ChannelsShowList \/ OpenChannels \/ OpenSettings \/ SettingsBack
  \/ OpenEditor \/ CloseWindow \/ Minimize \/ DockActive \/ PopOutActive \/ RemoveChannel
  \/ \E c \in Conv : ClickRow(c) \/ OpenConversation(c) \/ InboundMessage(c)
                    \/ OutboundAppended(c) \/ Established(c)
  \/ \E i \in DOMAIN parked : FocusParkedWindow(i)
  \/ \E m \in mini : Restore(m)
  \/ StartScan \/ PromptAnswered \/ CodeFound
  \/ LoadAnswered \/ \E r \in reads : ReadAnswered(r)
  \/ OpenChatChanged \/ RosterChanged

DeskSpec == DeskInit /\ [][DeskNext]_deskVars

-----------------------------------------------------------------------------
Kinds == Primary \cup {"desktop", "settings", "scan", "editor"}
Windows == [kind : Kinds, conv : Conv \cup {NoConv}, compose : BOOLEAN, log : BOOLEAN]

(* Type invariant of the desktop.                                          *)
DeskTypeOK ==
  /\ view \in Windows /\ box \in BOOLEAN
  /\ Range(parked) \subseteq Windows /\ mini \subseteq Windows
  /\ drafts \subseteq Conv
  /\ camera \in [on : BOOLEAN, ask : {"none", "fresh", "stale"}]
  /\ Len(loads) <= MaxLoad + 1 /\ suppress \in BOOLEAN

(* The camera runs only while its scan screen is in front: whatever is     *)
(* navigated, closed or raised while the permission prompt is up or a scan *)
(* is running, by the user or by an event, releases it.                    *)
CameraReleased == camera.on => view.kind = "scan"

(* A window parked or minimized never keeps a decrypted log, on any path   *)
(* that puts it there, so no plaintext outlives its crypto-erase there.    *)
NoParkedPlaintext == \A w \in Range(parked) \cup mini : ~w.log

(* Once the user has gone back from Settings a background refresh does not *)
(* bring it back in front.                                                 *)
BackSticks ==
  [][suppress /\ view.kind # "settings" /\ view'.kind = "settings"
       => \A r \in reads \ reads' : r.what # "latched"]_deskVars

(* A revealed window does not stay parked behind itself.                   *)
NoGhostWindow == \A w \in Range(parked) : WindowKey(w) # WindowKey(view)

(* One window per conversation.                                            *)
OneWindow ==
  \A c \in Conv : view.conv = c => ~Shows(Range(parked) \cup mini, c)

(* A chat in front shows its log, not the emptied snapshot.                *)
FrontHasLog == view.conv # NoConv => view.log

(* Text typed into a chat is in its box, in a window put aside, or on its  *)
(* way back, until it is sent or its window is closed or removed.          *)
DraftSurvives ==
  [][\A c \in Conv :
       (view.conv = c /\ box /\ loads # <<>> /\ loads' = Tail(loads)
          /\ Head(loads).what \in {"row", "open", "active", "raise", "list", "focus", "restore"})
       => \/ view'.conv = c /\ box'
          \/ \E w \in Range(parked') \cup mini' : w.conv = c /\ w.compose]_deskVars
=============================================================================
