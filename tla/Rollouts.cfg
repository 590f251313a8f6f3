SPECIFICATION FairSpec
CONSTANTS
    Specs <- MCSpecs
    FollowUps <- MCFollowUps
    WorkflowRollouts = 0
    MaxActive = 2
    Rungs = 2
    Budgets <- MCBudgets
INVARIANTS
    AnsweredOnce
    GroupReservesTask
    ReviewIsAnswered
PROPERTIES
    PromotedIsReviewed
    GroupSettles
CHECK_DEADLOCK FALSE
