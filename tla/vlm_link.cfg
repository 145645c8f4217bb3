SPECIFICATION FairSpec
CONSTANTS
  MaxQuestions = 3
  Depth = 2
  Ambient = TRUE
CHECK_DEADLOCK FALSE
INVARIANT OneRequest
INVARIANT AnswerServesOnce
PROPERTY PutOnceInOrder
PROPERTY QuestionServed
