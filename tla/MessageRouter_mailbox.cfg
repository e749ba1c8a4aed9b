SPECIFICATION Spec
CONSTANTS
    MaxMessages = 2
    MaxConns = 2
    MailboxMax = 1
    MaxRestarts = 1
INVARIANTS
    UnackedIsOffered
    AckedIsNotReplayed
    RestartRevivesNothing
PROPERTIES
    KeepsMessages
CHECK_DEADLOCK FALSE
