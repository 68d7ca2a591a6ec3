SPECIFICATION Spec
CONSTANTS
  Handlers = {h1, h2}
  Apps = {a1}
  Users = {u1}
  None = None
SYMMETRY Symmetry
INVARIANTS
  MovedIsReviewed
  WithdrawnStatusExplained
  WritersAreEntitled
  AnswersAreTrue
  InterviewHasApplication
  RecruitingInv
PROPERTY WithdrawnIsFinal
CHECK_DEADLOCK FALSE
