SPECIFICATION Spec
CONSTANTS
  ByteModulus = 16
  HalfModulus = 32768
  CounterModulus = 1
  FailsafeTimeout = 1
  MaxElapsed = 2
  Inputs <- MCInputs
  Neutral <- MCNeutral
  Controls <- MCControls
  SentSequences <- MCSentSequences
  Foreign <- MCForeign
INVARIANTS
  ProcessorTypeOK
  FailsafeMeansNeutral
  SequenceCopiesAgree
  ReportShowsControls
  TriggersKeepTheirTravel
  ResponseAnswersRequest
PROPERTIES
  StalePacketNeverRevives
  ForeignIsIgnored
