\* Claims of the repository that the code does not keep, one at a time: TLC checks
\* the one that is not commented out.
SPECIFICATION Spec
CONSTANTS
  a = a b = b
  Replies = {a, b}
  BodySize <- Sizes
  MaxBody = 1
  Others = {"media", "captions"}
  MaxPosts = 1
INVARIANT NoHandleSurvives
\* INVARIANT DeleteRuns
CHECK_DEADLOCK FALSE
