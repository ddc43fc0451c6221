SPECIFICATION Spec
CONSTANTS
    Seeds = {20260906, 7, 95}
    Imported <- TheImported
    Served <- TheServed
    Searched = {1}
    Pressed <- Ids
    Chosen = {21, 22, 8290}
    Recent = 1
    Ranges <- Periods
    VerdictChoices = {"all", "blocked"}
    HookChoices = {"all", "exec"}
    SubjectChoices = {"all", "none"}
    Texts = {"", "1310"}
    Comm <- TheComm
    Ino <- TheIno
    Argv <- TheArgv
    fmtN <- Separated
    None = None
INVARIANTS
    SameScreen
    FiltersHold
    OpenedIsListed
    FoundIsShown
    LogSound
    TwinsAgree
    SessionsTold
