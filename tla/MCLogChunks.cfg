SPECIFICATION Spec
CONSTANTS
  Lines <- FourLines
  Options <- CommandLines
  MaxSize = 9
  MaxGrowth = 2
INVARIANT TypeOK
INVARIANT TasksBounded
INVARIANT AnswerIsFile
PROPERTY Terminates
CHECK_DEADLOCK FALSE
