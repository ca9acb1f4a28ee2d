SPECIFICATION FairSpec
CONSTANTS
  Controllers <- OneController
  Readers <- OneReader
  ControllerOps <- StartStopClose
  ReaderOps <- DataOnly
  HasWorker = TRUE
  GatedRead = TRUE
  HaltsFailedArm = TRUE
  PatientCallers = FALSE
  FrameReadAttempts = 3
  WorkerReads = 3
  MaxGen = 2
  MaxSessions = 0
INVARIANTS TypeOK PromptAbort LiveClaimReadable
PROPERTIES StaleLeavesStatus CallsEnd Implements
