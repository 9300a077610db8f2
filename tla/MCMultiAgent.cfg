SPECIFICATION AgentFairSpec
CONSTANTS
  s1 = s1
  s2 = s2
  s3 = s3
  r1 = r1
  Ids <- MCIds
  Plans <- MCPlans
  MaxParallel = 4
  MaxReflectionLoops = 2
  EnableReflector = TRUE
  EnableCritic = TRUE
  ToolSteps <- MCToolSteps
INVARIANTS
  ReportedOnce
  AnswerFromDeepest
  PatchKeepsValid
PROPERTIES
  DoneNotRepeated
  AgentTermination
