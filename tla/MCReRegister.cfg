\* One press of Register whose answer is lost, and a second press with the same name.
CONSTANTS
    Conv = {c1}
    NoConv = NoConv
    MaxMove = 0
    MaxNews = 0
    MaxLoad = 0
    Tab = {t1}
    NoTab = NoTab
    Peer = {c1}
    Pending = {}
    Self = {}
    Invited = {}
    Existing = {c1}
    MaxNew = 0
    MaxConvEvent = 0
    Page = {"p1", "p2"}
    Click = {1}
    PageOf <- MCPageOf
    UserName = {"a"}
    MaxRegister = 2
    MaxRegFault = 1
    LateError = FALSE
    Sibling = {1, 2}
    Fields = 2
    MaxCardEdit = 0
    MaxClock = 2
    MaxCardCrash = 0
    MaxChain = 1
SPECIFICATION ScreenSpec
INVARIANT AccountHasKeys
CHECK_DEADLOCK FALSE
