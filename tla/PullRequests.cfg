SPECIFICATION FairSpec
CONSTANTS
    c1 = c1
    c2 = c2
    Calls = {c1, c2}
    MaxHeads = 6
    Budgets <- MCBudgets
INVARIANTS
    PublishedIsPushed
    AnswerIsRow
PROPERTIES
    PublishedIsFinal
    RetriesPublish
CHECK_DEADLOCK FALSE
