SPECIFICATION Spec
CONSTANTS
    Names <- MCNames
    FileSystems <- MCFileSystems
    ConfigFile = "conf"
    Clients <- MCClients
    Supported <- MCSupported
    Numbers <- MCNumbers
    PasswdNames <- MCPasswdNames
    Expressions <- MCExpressions
    Groups <- MCGroups
    Accounts <- MCAccounts
    MaxDepth = 10
INVARIANTS
    FailClosed
    DenyIsFinal
    GrantedByMatch
    AnswerAsDocumented
    PastedVerbatim
    OnlyCyclesExhaust
