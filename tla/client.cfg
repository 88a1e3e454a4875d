SPECIFICATION ClientSpec
CONSTANTS
  Answers <- MCAnswers
  NoAnswer = NoAnswer
  Raised = Raised
  Deadline = 2
  MaxCalls = 2
INVARIANTS
  OnlyCallersCancel
  OneRequestPerCall
  ResultIsWhatTheServerSaid
PROPERTIES
  CallEnds
CHECK_DEADLOCK FALSE
