SPECIFICATION Spec
CONSTANT Jobs <- MCJobs
CHECK_DEADLOCK FALSE
INVARIANTS
  SaxAgreesWithParser
  GateStandsForParser
  ViewAgreesWithParser
  RepairIsSound
  WrittenTextReadsBack
