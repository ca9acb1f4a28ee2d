SPECIFICATION Spec
CONSTANTS
  Controllers <- OneController
  Readers = {r1, r2}
  ControllerOps <- StartVideoStop
  ReaderOps <- DataFrame
  HasWorker = FALSE
  GatedRead = TRUE
  HaltsFailedArm = TRUE
  PatientCallers = TRUE
  FrameReadAttempts = 3
  WorkerReads = 1
  MaxGen = 2
  MaxSessions = 2
INVARIANTS SessionsOwned PromptAbort
PROPERTIES StaleLeavesStatus
ACTION_CONSTRAINT OneKind
SYMMETRY ReaderSymmetry
