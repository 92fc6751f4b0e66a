\* Three lines typed, requests may hang, the channel holds two lines.
SPECIFICATION FairConsoleSpec
CONSTANTS
    Commands <- OneOfEach
    MaxKeys = 3
    MayHang = TRUE
    Capacity = 2
INVARIANTS TypeOK ConsoleTypeOK HandledInOrder ReportedWasHandled NoneLost OutcomeIsKept
PROPERTIES CommandSpec ShutdownEnds ExitIsObeyed OutcomeIsShown
CHECK_DEADLOCK FALSE
