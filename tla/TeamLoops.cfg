SPECIFICATION Spec
CONSTANTS
  Tasks <- LadderTasks
  Deps <- LadderDeps
  Role <- LadderRole
  Orders <- TwoOrders
  Causes <- TwoCauses
INVARIANTS PromotionIsLeast ChosenIsLeast
PROPERTY LoopsEnd
CHECK_DEADLOCK FALSE
