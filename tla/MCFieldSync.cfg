\* The inspector may stop working: nothing obliges anyone to take another step.
CHECK_DEADLOCK FALSE
SPECIFICATION FairSpec
CONSTANTS
  MaxOps = 3
  MaxGrants = 2
  MaxFaults = 1
  MaxOffice = 1
  InspectionRevision = 4
  EditAnswers = {"NON_COMPLIANT"}
INVARIANTS
  TypeOK
  OneRequestPerOperation
  LocalEditIsQueued
  NoReleaseIsMissed
  SubmissionCarriesTheWork
PROPERTIES
  AppliedIsNeverRefused
  QueueSettles
  KeepsPromise
