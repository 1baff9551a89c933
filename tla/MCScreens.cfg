\* Two conversations on screen with one event and two loads under way; two tabs over
\* one store with a conversation, a half-joined one, an own-devices group and an
\* invitation; three presses of Register in two pages with two faults; two devices
\* with a card of two fields, two edits at one of two times and a crash.
CONSTANTS
    Conv = {c1, c2}
    NoConv = NoConv
    MaxMove = 4
    MaxNews = 1
    MaxLoad = 2
    Tab = {t1, t2}
    NoTab = NoTab
    Peer = {c1, c2}
    Pending = {p1}
    Self = {s1}
    Invited = {c2}
    Existing = {c1}
    MaxNew = 1
    MaxConvEvent = 2
    Page = {"p1", "p2"}
    Click = {1, 2, 3}
    PageOf <- MCPageOf
    UserName = {"a", "b"}
    MaxRegister = 3
    MaxRegFault = 2
    LateError = TRUE
    Sibling = {1, 2}
    Fields = 2
    MaxCardEdit = 2
    MaxClock = 2
    MaxCardCrash = 1
    MaxChain = 1
SPECIFICATION ScreenSpec
INVARIANTS CameraReleased NoParkedPlaintext SessionIsHeld KeysLostForCause
PROPERTIES ClosesStick 
CHECK_DEADLOCK FALSE
