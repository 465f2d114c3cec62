SPECIFICATION FairSpec
CONSTANTS
  Calls = {c1, c2}
  MaxBatch = 2
  MaxCalls = 2
INVARIANTS AnswersFit ReportIsOffByOverlap
PROPERTY CallsAnswered
