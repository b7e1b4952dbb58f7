\* Four connections, two reports, an interrupt.
CONSTANTS
  Client = {c1, c2, c3, c4}
  NumExp = 2
  MayInterrupt = TRUE
SPECIFICATION FairSpec
INVARIANT ExperimentsInv
PROPERTIES
  OneReportEach
  ExperimentReported
  ServerEnds
