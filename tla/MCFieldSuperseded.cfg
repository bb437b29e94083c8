\* A newer edit the server has is overwritten by an older one.  The inspector may stop.
CHECK_DEADLOCK FALSE
SPECIFICATION Spec
CONSTANTS
  MaxOps = 3
  MaxGrants = 2
  MaxFaults = 1
  MaxOffice = 1
  InspectionRevision = 4
  EditAnswers = {"NON_COMPLIANT"}
INVARIANT NewestEditStands
