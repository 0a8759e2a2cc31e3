SPECIFICATION Spec
CONSTANTS
  Ctxs = {x1}
  Paths = {p1, p2}
  None = None
INVARIANT AnswersItsPath
