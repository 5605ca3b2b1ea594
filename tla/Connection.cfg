CONSTANTS
    Symbols <- MCSymbols
    BufMax = 12
    Questions <- MCQuestions
    MaxQuestions = 2
    Callbacks <- MCCallbacks
    HookResults <- MCHookResults
    MaxKeepalive = 2
    MaxBody = 3
SPECIFICATION FairSpec
INVARIANTS
    HttpTypeOK
    RepliesDelimited
    CrashesAreKnown
PROPERTIES
    HttpImplemented
    ClosesWhenAsked
    AnswersCome
