----------------------------- MODULE MCWorkers -----------------------------
(* The halt of the readout at both levels, for TLC in one run:               *)
(*   "workers"  the workers' transfers, every profile: the module itself     *)
(*   "video"    Capture with single shots and free-run interleaved with      *)
(*              stops, on the x-prefixed variables                           *)
(* A behaviour is of one scenario and leaves the other's variables alone.    *)
EXTENDS Workers

CONSTANTS c1, r1

VARIABLES scenario,
          xstatus, xexpGen, xexpAborted, xvidStream, xdead, xlatch, xio, xsessions, xopened,
          xclosed, xstreaming, xfwOK, xpc, xop, xgen, xatt, xses, xres, xcause, xlate,
          xdelivered, xshots

capVars == <<xstatus, xexpGen, xexpAborted, xvidStream, xdead, xlatch, xio, xsessions, xopened,
             xclosed, xstreaming, xfwOK, xpc, xop, xgen, xatt, xses, xres, xcause, xlate,
             xdelivered, xshots>>

Video == INSTANCE Capture WITH
  Controllers <- {c1}, Readers <- {r1}, ControllerOps <- {"start", "video", "stop"},
  ReaderOps <- {"data", "frame"}, HasWorker <- TRUE, GatedRead <- FALSE, HaltsFailedArm <- FALSE,
  PatientCallers <- TRUE, FrameReadAttempts <- 3, WorkerReads <- 1, MaxGen <- 3, MaxSessions <- 1,
  status <- xstatus, expGen <- xexpGen, expAborted <- xexpAborted, vidStream <- xvidStream, dead
  <- xdead, latch <- xlatch, io <- xio, sessions <- xsessions, opened <- xopened, closed <-
  xclosed, streaming <- xstreaming, fwOK <- xfwOK, pc <- xpc, op <- xop, gen <- xgen, att <-
  xatt, ses <- xses, res <- xres, cause <- xcause, late <- xlate, delivered <- xdelivered, shots
  <- xshots

AllInit ==
  /\ scenario \in {"workers", "video"} /\ Init /\ Video!Init
  /\ scenario = "video" => die = "imx290" /\ usb3

WorkersNext == scenario = "workers" /\ Next /\ UNCHANGED <<scenario, capVars>>
\* The last capture of the bound has returned.
Rest == scenario = "workers" /\ calls = MaxCalls /\ pc = "idle" /\ UNCHANGED <<scenario, vars, capVars>>
VideoNext   == scenario = "video" /\ Video!Next /\ UNCHANGED <<scenario, vars>>

AllSpec == AllInit /\ [][WorkersNext \/ Rest \/ VideoNext]_<<scenario, vars, capVars>> /\ Fairness

-----------------------------------------------------------------------------
\* Capture!HaltedWhenQuiet over "video": the readout is halted whenever nothing
\* is claimed or running.
HaltedWhenQuiet == scenario = "video" => Video!HaltedWhenQuiet
=============================================================================
