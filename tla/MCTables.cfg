\* A DNS table of three entries, a challenge list of two.
CONSTANTS
    Entries = 3
    MaxLen = 2
    Symbols <- MCSymbols
    Questions <- MCQuestions
    TxIds <- MCTxIds
    Size = 2
    Wrap = 4
    Challenges = {0, 1, 2, 3}
    Sources = {s1, s2}
SPECIFICATION TablesSpec
INVARIANTS
    TypeOK
    AnswersPass
    MismatchAlerts
    ReflectionIsReported
PROPERTY TableSpec
