\* An alert without a query.
CONSTANTS
    Entries = 3
    MaxLen = 2
    Symbols <- MCSymbols
    Questions <- MCQuestions
    TxIds <- MCTxIds
    Size = 2
    Wrap = 4
    Challenges = {0, 1, 2, 3}
    Sources = {s1, s2}
SPECIFICATION TablesSpec
INVARIANT AlertHasQuery
