SPECIFICATION Spec
CONSTANTS
  Controllers <- TwoControllers
  Readers <- OneReader
  ControllerOps <- StartOnly
  ReaderOps <- DataOnly
  HasWorker = FALSE
  GatedRead = TRUE
  HaltsFailedArm = TRUE
  PatientCallers = TRUE
  FrameReadAttempts = 3
  WorkerReads = 1
  MaxGen = 3
  MaxSessions = 0
INVARIANTS NoDoubleArm DeliveredOnce
