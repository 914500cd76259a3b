SPECIFICATION Spec
CONSTANTS
  first = first
  retry = retry
  apart = apart
  blank = blank
  Jobs <- MCJobs
  Keys <- MCKeys
  Authorities <- MCAuthorities
  Results <- MCResults
  KeyOf <- MCKeyOf
  Required <- MCRequired
  NoKey = NoKey
  NoResult = NoResult
  MaxCalls = 2
CHECK_DEADLOCK FALSE
INVARIANTS
  DuplicateKeysNeverRepeatTheEffect
