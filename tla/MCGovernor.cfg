SPECIFICATION FairSpec
CONSTANTS
  first = first
  retry = retry
  apart = apart
  blank = blank
  Jobs <- MCJobs
  Keys <- MCKeys
  Authorities <- MCAuthorities
  Results <- MCResults
  KeyOf <- MCKeyOf
  Required <- MCRequired
  NoKey = NoKey
  NoResult = NoResult
  MaxCalls = 4
CHECK_DEADLOCK FALSE
INVARIANTS
  TypeOK
  SuccessIsRecorded
  AnswersAreProduced
  OneAnswerUnlessRaced
PROPERTIES
  SucceededJobsNeverRerun
  CompletedKeysStartNothing
  CallsEnd
