SPECIFICATION FairSpec
CONSTANTS
  Window = {w1, w2}
  Strict = {w2}
  Kind = {"R", "S"}
  Patience = 1
  MaxCommands = 2
  MaxMishaps = 1
INVARIANTS HandedOnce OwnAnswer AnswerNoticed
PROPERTY EveryClickEnds
CHECK_DEADLOCK FALSE
