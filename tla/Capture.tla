------------------------------ MODULE Capture ------------------------------
(***************************************************************************)
(* The exposure lifecycle of one Camera: StartExposure, StartVideo,        *)
(* StopExposure and Close called by controller threads, GetDataAfterExp    *)
(* and ReadFrame called by reader threads, over one USB transport.         *)
(*                                                                         *)
(* Camera.mu is never held across USB I/O, so one step of this module is   *)
(* one critical section of mu, one transport call, or one group of control *)
(* writes of the same kind.  pc[t] names the step thread t takes next and  *)
(* op[t] the call it is inside, which is where a shared routine (arm,      *)
(* closeVideoStream, StopExposure) returns to.                             *)
(*                                                                         *)
(* A sensor profile with a Worker arms and reads inside GetDataAfterExp    *)
(* (HasWorker); one without is armed by StartExposure and read, recovered  *)
(* and re-armed by GetDataAfterExp itself.                                 *)
(*                                                                         *)
(* An operator whose name starts with Faulty is a mutated form of the      *)
(* definition after it.  No specification uses one: putting it in place of *)
(* that definition must make a run fail.                                   *)
(***************************************************************************)
EXTENDS Naturals, FiniteSets

CONSTANTS
  Controllers,       \* threads that start, stop and close captures
  Readers,           \* threads that read frames
  ControllerOps,     \* the calls controllers make, a subset of AllControllerOps
  ReaderOps,         \* the calls readers make, a subset of AllReaderOps
  HasWorker,         \* Sensor.Worker # nil
  GatedRead,         \* the frame read holds ioMu (BulkRead; not ReadFrameStream)
  FrameReadAttempts, \* frameReadAttempts
  WorkerReads,       \* the worker's own cap on reads of one capture
  HaltsFailedArm,    \* the worker halts the readout when its first arm fails
  PatientCallers,    \* callers match each read to the start that claimed the capture
  MaxGen,            \* bound: captures claimed in a behaviour
  MaxSessions        \* bound: resident sessions opened in a behaviour

AllControllerOps == {"start", "video", "stop", "close"}
AllReaderOps     == {"data", "frame"}
Threads          == Controllers \cup Readers
Statuses         == {"idle", "working", "failed"}
NoThread         == "none"
NoSession        == 0

ASSUME CaptureAssumption ==
  /\ Controllers \cap Readers = {}
  /\ NoThread \notin Threads
  /\ ControllerOps \subseteq AllControllerOps
  /\ ReaderOps \subseteq AllReaderOps
  /\ HasWorker \in BOOLEAN
  /\ GatedRead \in BOOLEAN
  /\ HaltsFailedArm \in BOOLEAN
  /\ PatientCallers \in BOOLEAN
  /\ FrameReadAttempts \in Nat \ {0}
  /\ WorkerReads \in Nat \ {0}
  /\ MaxGen \in Nat
  /\ MaxSessions \in Nat

VARIABLES
  \* Camera fields under mu
  status,      \* the stored exposure status (Success is derived, never stored)
  expGen,      \* the exposure generation
  expAborted,  \* the abort signal of the current generation
  vidStream,   \* the adopted resident session, or NoSession
  dead,        \* the firmware-crash circuit breaker (atomic)
  \* the transport
  latch,       \* readAborted, the level-triggered read-abort latch
  io,          \* the thread whose frame read holds ioMu, or NoThread
  sessions,    \* open resident sessions
  opened,      \* sessions opened so far
  closed,      \* the transport is closed
  \* the device
  streaming,   \* the readout runs (armed and not halted)
  fwOK,        \* the FX3 still runs its firmware
  \* thread-local
  pc, op, gen, att, ses, res,
  \* history, read by the properties and the callers only
  cause,       \* why thread t's last frame read came back short
  late,        \* reads thread t put in flight after its capture was aborted
  delivered,   \* frames handed to a caller, per generation
  shots        \* the generations StartExposure claimed (StartVideo claims the others)

camVars  == <<status, expGen, expAborted, vidStream, dead>>
usbVars  == <<latch, io, sessions, opened, closed>>
devVars  == <<streaming, fwOK>>
locVars  == <<pc, op, gen, att, ses, res>>
histVars == <<cause, late, delivered, shots>>
vars     == <<camVars, usbVars, devVars, locVars, histVars>>

-----------------------------------------------------------------------------
(* Helpers *)

Goto(t, from, to) == pc[t] = from /\ pc' = [pc EXCEPT ![t] = to]

\* abortedGen, for the generation thread t works for
AbortedGen(t) == expAborted \/ expGen # gen[t]

FaultySetStatusIfGen(t, s) == status' = s

\* setStatusIfGen
SetStatusIfGen(t, s) == status' = IF expGen = gen[t] THEN s ELSE status

\* A control write takes ioMu, so it waits for a gated frame read in flight;
\* on a closed transport it fails at once.
ControlReady == closed \/ io = NoThread
DeviceAnswers == ~closed /\ fwOK

Init ==
  /\ status = "idle" /\ expGen = 0 /\ expAborted = FALSE
  /\ vidStream = NoSession /\ dead = FALSE
  /\ latch = FALSE /\ io = NoThread /\ sessions = {} /\ opened = 0 /\ closed = FALSE
  /\ streaming = FALSE /\ fwOK = TRUE
  /\ pc  = [t \in Threads |-> "idle"]
  /\ op  = [t \in Threads |-> "none"]
  /\ gen = [t \in Threads |-> 0]
  /\ att = [t \in Threads |-> 0]
  /\ ses = [t \in Threads |-> NoSession]
  /\ res = [t \in Threads |-> "none"]
  /\ cause = [t \in Threads |-> "none"]
  /\ late  = [t \in Threads |-> 0]
  /\ delivered = [g \in 1 .. MaxGen |-> 0]
  /\ shots = {}

-----------------------------------------------------------------------------
(* Entering a call *)

EntryPoint(o) == CASE o = "stop"  -> "stop_mark"
                   [] o = "close" -> "close_check"
                   [] o = "frame" -> "frame_look"
                   [] OTHER       -> "dead_check"

Claiming == {c \in Controllers : pc[c] # "idle" /\ op[c] \in {"start", "video"}}

\* Each call that claims a capture fits the bound MaxGen.  Patient callers wait
\* for the start to return, then call GetDataAfterExp for a single shot and
\* ReadFrame for a free-run.
MayCall(o) ==
  /\ o \in {"start", "video"} => expGen + Cardinality(Claiming) < MaxGen
  /\ PatientCallers =>
       /\ o = "data"  => Claiming = {} /\ expGen \in shots
       /\ o = "frame" => Claiming = {} /\ expGen \notin shots /\ expGen > 0
       /\ o \in {"start", "video"} =>
            \A r \in Readers : pc[r] \notin {"dead_check", "snapshot"}

Call(t, o) ==
  /\ MayCall(o)
  /\ Goto(t, "idle", EntryPoint(o))
  /\ op' = [op EXCEPT ![t] = o]
  /\ UNCHANGED <<camVars, usbVars, devVars, gen, att, ses, res, histVars>>

\* StartExposure, StartVideo and GetDataAfterExp refuse a wedged device first.
DeadCheck(t) ==
  /\ Goto(t, "dead_check",
          IF dead THEN "idle"
          ELSE CASE op[t] = "start" -> "claim"
                 [] op[t] = "video" -> "video_busy"
                 [] OTHER           -> "snapshot")
  /\ UNCHANGED <<camVars, usbVars, devVars, op, gen, att, ses, res, histVars>>

-----------------------------------------------------------------------------
(* StartExposure *)

FaultyStartUnchecked(t) ==
  /\ expGen < MaxGen
  /\ Goto(t, "claim", "take")
  /\ status' = "working"
  /\ expGen' = expGen + 1
  /\ expAborted' = FALSE
  /\ gen' = [gen EXCEPT ![t] = expGen + 1]
  /\ shots' = shots \cup {expGen + 1}
  /\ UNCHANGED <<vidStream, dead, usbVars, devVars, op, att, ses, res,
                 cause, late, delivered>>

\* The busy check and the Working transition are one critical section.
StartClaim(t) ==
  \/ /\ status = "working"                       \* ErrCaptureBusy
     /\ Goto(t, "claim", "idle")
     /\ UNCHANGED <<camVars, usbVars, devVars, op, gen, att, ses, res, histVars>>
  \/ /\ status # "working"
     /\ expGen < MaxGen
     /\ Goto(t, "claim", "take")
     /\ status' = "working"
     /\ expGen' = expGen + 1
     /\ expAborted' = FALSE
     /\ gen' = [gen EXCEPT ![t] = expGen + 1]
     /\ shots' = shots \cup {expGen + 1}
     /\ UNCHANGED <<vidStream, dead, usbVars, devVars, op, att, ses, res,
                    cause, late, delivered>>

FaultyArmRead(t) ==
  /\ Goto(t, "arm_read", IF op[t] = "start" /\ ~HasWorker THEN "arm_stop" ELSE "idle")
  /\ UNCHANGED <<camVars, usbVars, devVars, op, gen, att, ses, res, histVars>>

\* ArmRead; without a Worker the device is armed here.  StartVideo ends here too.
ArmRead(t) ==
  /\ Goto(t, "arm_read", IF op[t] = "start" /\ ~HasWorker THEN "arm_stop" ELSE "idle")
  /\ latch' = FALSE
  /\ UNCHANGED <<camVars, io, sessions, opened, closed, devVars, op, gen, att, ses, res, histVars>>

\* A failed arm releases the claim, unless the exposure was superseded meanwhile.
StartRelease(t) ==
  /\ Goto(t, "release", "idle")
  /\ SetStatusIfGen(t, "idle")
  /\ UNCHANGED <<expGen, expAborted, vidStream, dead, usbVars, devVars,
                 op, gen, att, ses, res, histVars>>

-----------------------------------------------------------------------------
(* closeVideoStream: forget the session under mu, then close it.  The      *)
(* session's own mutex makes Close wait for a Next inside it.              *)

AfterDrop(t) == CASE op[t] = "start" -> "arm_read"
                  [] op[t] = "video" -> "arm_stop"
                  [] op[t] = "close" -> "transport_close"
                  [] OTHER           -> "abort_read"

TakeStream(t) ==
  /\ Goto(t, "take", IF vidStream = NoSession THEN AfterDrop(t) ELSE "drop")
  /\ ses' = [ses EXCEPT ![t] = vidStream]
  /\ vidStream' = NoSession
  /\ UNCHANGED <<status, expGen, expAborted, dead, usbVars, devVars, op, gen, att, res, histVars>>

InNext(s) == \E r \in Readers : pc[r] = "in_next" /\ ses[r] = s

DropStream(t) ==
  /\ ~InNext(ses[t])
  /\ Goto(t, "drop", AfterDrop(t))
  /\ sessions' = sessions \ {ses[t]}
  /\ UNCHANGED <<camVars, latch, io, opened, closed, devVars, op, gen, att, ses, res, histVars>>

-----------------------------------------------------------------------------
(* arm: a halt of what ran before, then the start.  Any write of either    *)
(* half may fail, which ends the arm with the readout as the writes before *)
(* it left it; a write that fails has not reached the device.              *)

ArmOk(t)  == CASE op[t] = "start" -> "idle"
               [] op[t] = "video" -> "video_claim"
               [] OTHER           -> IF HasWorker THEN "integrate" ELSE "rearmed"

\* imx290 and imx462 defer their halt after the first arm, so a first arm that
\* fails leaves without it; the other workers halt on that path too.
ArmErr(t) == CASE op[t] = "start" -> "release"
               [] op[t] = "video" -> "idle"
               [] OTHER           -> IF ~HasWorker THEN "next_attempt"
                                     ELSE IF att[t] = 0 /\ ~HaltsFailedArm THEN "worker_err"
                                     ELSE "halt"

\* FX3 stream stop, FPGA stop, sensor master stop.
ArmStop(t) ==
  /\ ControlReady
  /\ \/ /\ Goto(t, "arm_stop", ArmErr(t))
        /\ streaming' \in {streaming, streaming /\ ~DeviceAnswers}
        /\ res' = [res EXCEPT ![t] = "err"]
     \/ /\ DeviceAnswers
        /\ Goto(t, "arm_stop", "arm_start")
        /\ streaming' = FALSE
        /\ UNCHANGED res
  /\ UNCHANGED <<camVars, usbVars, fwOK, op, gen, att, ses, histVars>>

\* FX3 stream start, sensor master start, settle, FPGA start.
ArmStart(t) ==
  /\ ControlReady
  /\ \/ /\ Goto(t, "arm_start", ArmErr(t))
        /\ res' = [res EXCEPT ![t] = "err"]
        /\ UNCHANGED streaming
     \/ /\ DeviceAnswers
        /\ Goto(t, "arm_start", ArmOk(t))
        /\ streaming' = TRUE
        /\ UNCHANGED res
  /\ UNCHANGED <<camVars, usbVars, fwOK, op, gen, att, ses, histVars>>

-----------------------------------------------------------------------------
(* StartVideo *)

\* A claimed single shot may still be reading: its read is broken first.
VideoBusy(t) ==
  /\ Goto(t, "video_busy", IF status = "working" THEN "video_abort" ELSE "take")
  /\ UNCHANGED <<camVars, usbVars, devVars, op, gen, att, ses, res, histVars>>

VideoAbortRead(t) ==
  /\ Goto(t, "video_abort", "take")
  /\ latch' = TRUE
  /\ UNCHANGED <<camVars, io, sessions, opened, closed, devVars, op, gen, att, ses, res, histVars>>

VideoClaim(t) ==
  /\ expGen < MaxGen
  /\ Goto(t, "video_claim", "arm_read")
  /\ status' = "working"
  /\ expGen' = expGen + 1
  /\ expAborted' = FALSE
  /\ UNCHANGED <<vidStream, dead, usbVars, devVars, op, gen, att, ses, res, histVars>>

-----------------------------------------------------------------------------
(* StopExposure, and Close, which stops a working exposure first *)

StopMark(t) ==
  /\ Goto(t, "stop_mark", "take")
  /\ expAborted' = TRUE
  /\ status' = "idle"
  /\ UNCHANGED <<expGen, vidStream, dead, usbVars, devVars, op, gen, att, ses, res, histVars>>

FaultyAbortRead(t) ==
  /\ Goto(t, "abort_read", "stop_writes")
  /\ UNCHANGED <<camVars, usbVars, devVars, op, gen, att, ses, res, histVars>>

AbortRead(t) ==
  /\ Goto(t, "abort_read", "stop_writes")
  /\ latch' = TRUE
  /\ UNCHANGED <<camVars, io, sessions, opened, closed, devVars, op, gen, att, ses, res, histVars>>

FaultyStopWrites(t) ==
  /\ ControlReady
  /\ Goto(t, "stop_writes", IF op[t] = "close_stop" THEN "take" ELSE "idle")
  /\ op' = [op EXCEPT ![t] = IF @ = "close_stop" THEN "close" ELSE @]
  /\ UNCHANGED <<camVars, usbVars, devVars, gen, att, ses, res, histVars>>

\* FX3 stream stop, sensor master stop, FPGA stop, flush: best effort.
StopWrites(t) ==
  /\ ControlReady
  /\ Goto(t, "stop_writes", IF op[t] = "close_stop" THEN "take" ELSE "idle")
  /\ op' = [op EXCEPT ![t] = IF @ = "close_stop" THEN "close" ELSE @]
  /\ streaming' = (streaming /\ ~DeviceAnswers)
  /\ UNCHANGED <<camVars, usbVars, fwOK, gen, att, ses, res, histVars>>

CloseCheck(t) ==
  /\ Goto(t, "close_check", IF status = "working" THEN "stop_mark" ELSE "take")
  /\ op' = [op EXCEPT ![t] = IF status = "working" THEN "close_stop" ELSE "close"]
  /\ UNCHANGED <<camVars, usbVars, devVars, gen, att, ses, res, histVars>>

\* The transport waits for the reads in flight, closes the sessions still open,
\* then the handle.
TransportClose(t) ==
  /\ \A r \in Readers : pc[r] # "reading"
  /\ \A s \in sessions : ~InNext(s)
  /\ Goto(t, "transport_close", "idle")
  /\ sessions' = {}
  /\ closed' = TRUE
  /\ UNCHANGED <<camVars, latch, io, opened, devVars, op, gen, att, ses, res, histVars>>

-----------------------------------------------------------------------------
(* GetDataAfterExp *)

Snapshot(r) ==
  \/ /\ status # "working"                       \* no frame ready
     /\ Goto(r, "snapshot", "idle")
     /\ UNCHANGED <<camVars, usbVars, devVars, op, gen, att, ses, res, histVars>>
  \/ /\ status = "working"
     /\ Goto(r, "snapshot", IF HasWorker THEN "arm_stop" ELSE "attempt")
     /\ gen' = [gen EXCEPT ![r] = expGen]
     /\ att' = [att EXCEPT ![r] = 0]
     /\ late' = [late EXCEPT ![r] = 0]
     /\ UNCHANGED <<camVars, usbVars, devVars, op, ses, res, cause, delivered, shots>>

(* The frame read.  An aborted latch fails a new read at once; a read in   *)
(* flight polls it and returns its short prefix.                           *)

\* BulkRead holds ioMu for the whole frame; ReadFrameStream takes none.
HoldsIo(r) == GatedRead \/ op[r] = "frame"

BeginRead(r) ==
  \/ /\ latch \/ closed
     /\ Goto(r, "read", "read_done")
     /\ res' = [res EXCEPT ![r] = IF closed THEN "err" ELSE "short"]
     /\ cause' = [cause EXCEPT ![r] = IF closed THEN "closed" ELSE "latch"]
     /\ UNCHANGED <<camVars, usbVars, devVars, op, gen, att, ses,
                    late, delivered, shots>>
  \/ /\ ~latch /\ ~closed
     /\ HoldsIo(r) => io = NoThread
     /\ Goto(r, "read", "reading")
     /\ io' = IF HoldsIo(r) THEN r ELSE io
     /\ late' = [late EXCEPT ![r] = @ + (IF op[r] = "data" /\ AbortedGen(r) THEN 1 ELSE 0)]
     /\ UNCHANGED <<camVars, latch, sessions, opened, closed, devVars,
                    op, gen, att, ses, res, cause, delivered, shots>>

EndRead(r, how, why) ==
  /\ Goto(r, "reading", "read_done")
  /\ io' = IF io = r THEN NoThread ELSE io
  /\ res' = [res EXCEPT ![r] = how]
  /\ cause' = [cause EXCEPT ![r] = why]
  /\ UNCHANGED <<camVars, latch, sessions, opened, closed, devVars, op, gen, att, ses,
                 late, delivered, shots>>

ReadFull(r)    == streaming /\ EndRead(r, "full", "none")
ReadBroken(r)  == latch /\ EndRead(r, "short", "latch")

\* A read also ends at its deadline, or with an error of the transfers.
ReadTimeout(r) ==
  \/ EndRead(r, "short", IF latch THEN "latch" ELSE "stall")
  \/ EndRead(r, "err", "stall")

ReadDone(r) ==
  /\ Goto(r, "read_done",
          IF op[r] = "frame" THEN "idle"
          ELSE IF ~HasWorker THEN IF res[r] = "full" THEN "accept" ELSE "next_attempt"
          ELSE IF res[r] = "short" THEN "short" ELSE "halt")
  /\ UNCHANGED <<camVars, usbVars, devVars, op, gen, att, ses, res, histVars>>

-----------------------------------------------------------------------------
(* The sensor Worker *)

\* The triggered band polls Aborted through the integration; the free-run
\* band goes straight to the read, as does a triggered one whose time is up.
\* The writes of the trigger signal may fail in either.
Integrate(r) ==
  \/ /\ AbortedGen(r) \/ ControlReady
     /\ Goto(r, "integrate", "halt")
     /\ res' = [res EXCEPT ![r] = "err"]
     /\ UNCHANGED <<camVars, usbVars, devVars, op, gen, att, ses, histVars>>
  \/ /\ Goto(r, "integrate", "read")
     /\ UNCHANGED <<camVars, usbVars, devVars, op, gen, att, ses, res, histVars>>

FaultyWorkerShort(r) ==
  /\ Goto(r, "short", "ladder")
  /\ UNCHANGED <<camVars, usbVars, devVars, op, gen, att, ses, res, histVars>>

\* A short read of an aborted capture is a clean abort.
WorkerShort(r) ==
  /\ Goto(r, "short", IF AbortedGen(r) THEN "halt" ELSE "ladder")
  /\ res' = [res EXCEPT ![r] = IF AbortedGen(r) THEN "err" ELSE @]
  /\ UNCHANGED <<camVars, usbVars, devVars, op, gen, att, ses, histVars>>

\* NoteStall, then read again ...
LadderReread(r) ==
  /\ att[r] + 1 < WorkerReads
  /\ Goto(r, "ladder", "read")
  /\ att' = [att EXCEPT ![r] = @ + 1]
  /\ UNCHANGED <<camVars, usbVars, devVars, op, gen, ses, res, histVars>>

\* ... or reset the device and arm again ...
LadderReset(r) ==
  /\ att[r] + 1 < WorkerReads
  /\ Goto(r, "ladder", "arm_stop")
  /\ att' = [att EXCEPT ![r] = @ + 1]
  /\ streaming' = (streaming /\ closed)
  /\ UNCHANGED <<camVars, usbVars, fwOK, op, gen, ses, res, histVars>>

\* ... or give up with an error, or (the DDR profiles) just return short.
LadderGiveUp(r) ==
  /\ Goto(r, "ladder", "halt")
  /\ res' = [res EXCEPT ![r] = "err"]
  /\ UNCHANGED <<camVars, usbVars, devVars, op, gen, att, ses, histVars>>

LadderShort(r) ==
  /\ Goto(r, "ladder", "halt")
  /\ UNCHANGED <<camVars, usbVars, devVars, op, gen, att, ses, res, histVars>>

\* The deferred halt runs on the way out, whatever the generation.
WorkerHalt(r) ==
  /\ ControlReady
  /\ Goto(r, "halt", CASE res[r] = "full"  -> "accept"
                       [] res[r] = "short" -> "fail"
                       [] OTHER            -> "worker_err")
  /\ streaming' = (streaming /\ ~DeviceAnswers)
  /\ UNCHANGED <<camVars, usbVars, fwOK, op, gen, att, ses, res, histVars>>

\* A worker error of an aborted capture leaves the status alone.
WorkerErr(r) ==
  /\ Goto(r, "worker_err", IF AbortedGen(r) THEN "idle" ELSE "fail")
  /\ UNCHANGED <<camVars, usbVars, devVars, op, gen, att, ses, res, histVars>>

Fail(r) ==
  /\ Goto(r, "fail", "probe")
  /\ SetStatusIfGen(r, "failed")
  /\ UNCHANGED <<expGen, expAborted, vidStream, dead, usbVars, devVars,
                 op, gen, att, ses, res, histVars>>

\* checkDead: one control read of the firmware version.
Probe(r) ==
  /\ ControlReady
  /\ Goto(r, "probe", "idle")
  /\ dead' = (dead \/ ~DeviceAnswers)
  /\ UNCHANGED <<status, expGen, expAborted, vidStream, usbVars, devVars,
                 op, gen, att, ses, res, histVars>>

FaultyAccept(r) ==
  /\ Goto(r, "accept", "idle")
  /\ delivered' = [delivered EXCEPT ![gen[r]] = @ + 1]
  /\ UNCHANGED <<camVars, usbVars, devVars, op, gen, att, ses, res, cause, late, shots>>

FaultyAcceptStores(r) ==
  /\ Goto(r, "accept", "idle")
  /\ SetStatusIfGen(r, "success")
  /\ delivered' = [delivered EXCEPT ![gen[r]] = @ + 1]
  /\ UNCHANGED <<expGen, expAborted, vidStream, dead, usbVars, devVars,
                 op, gen, att, ses, res, cause, late, shots>>

\* One-shot consume.
Accept(r) ==
  /\ Goto(r, "accept", "idle")
  /\ SetStatusIfGen(r, "idle")
  /\ delivered' = [delivered EXCEPT ![gen[r]] = @ + 1]
  /\ UNCHANGED <<expGen, expAborted, vidStream, dead, usbVars, devVars,
                 op, gen, att, ses, res, cause, late, shots>>

\* A worker frame whose markers sit inside the buffer is refused as desynced.
RejectDesynced(r) ==
  /\ HasWorker
  /\ Goto(r, "accept", "idle")
  /\ SetStatusIfGen(r, "failed")
  /\ UNCHANGED <<expGen, expAborted, vidStream, dead, usbVars, devVars,
                 op, gen, att, ses, res, histVars>>

-----------------------------------------------------------------------------
(* The path without a Worker: three attempts, recovering between them *)

Attempt(r) ==
  /\ Goto(r, "attempt", IF att[r] = FrameReadAttempts THEN "give_up"
                        ELSE IF AbortedGen(r) THEN "idle"
                        ELSE IF att[r] > 0 THEN "recover" ELSE "read")
  /\ UNCHANGED <<camVars, usbVars, devVars, op, gen, att, ses, res, histVars>>

FaultyNextAttempt(r) ==
  /\ Goto(r, "next_attempt", IF att[r] + 1 = FrameReadAttempts THEN "give_up" ELSE "arm_stop")
  /\ att' = [att EXCEPT ![r] = @ + 1]
  /\ UNCHANGED <<camVars, usbVars, devVars, op, gen, ses, res, histVars>>

NextAttempt(r) ==
  /\ Goto(r, "next_attempt", "attempt")
  /\ att' = [att EXCEPT ![r] = @ + 1]
  /\ UNCHANGED <<camVars, usbVars, devVars, op, gen, ses, res, histVars>>

FaultyRecover(r) ==
  /\ Goto(r, "recover", IF AbortedGen(r) THEN "next_attempt" ELSE "arm_stop")
  /\ SetStatusIfGen(r, "idle")
  /\ UNCHANGED <<expGen, expAborted, vidStream, dead, usbVars, devVars,
                 op, gen, att, ses, res, histVars>>

\* recoverAndRearm: its own abort check, then the arm sequence, ...
Recover(r) ==
  /\ Goto(r, "recover", IF AbortedGen(r) THEN "next_attempt" ELSE "arm_stop")
  /\ UNCHANGED <<camVars, usbVars, devVars, op, gen, att, ses, res, histVars>>

FaultyRearmed(r) ==
  /\ Goto(r, "rearmed", "read")
  /\ status' = "working"
  /\ UNCHANGED <<expGen, expAborted, vidStream, dead, usbVars, devVars,
                 op, gen, att, ses, res, histVars>>

\* ... then the exposure is marked working again if it was not superseded.
Rearmed(r) ==
  /\ Goto(r, "rearmed", "read")
  /\ SetStatusIfGen(r, "working")
  /\ UNCHANGED <<expGen, expAborted, vidStream, dead, usbVars, devVars,
                 op, gen, att, ses, res, histVars>>

GiveUp(r) ==
  /\ Goto(r, "give_up", "bus_reset")
  /\ SetStatusIfGen(r, "failed")
  /\ UNCHANGED <<expGen, expAborted, vidStream, dead, usbVars, devVars,
                 op, gen, att, ses, res, histVars>>

BusReset(r) ==
  /\ Goto(r, "bus_reset", "idle")
  /\ streaming' = (streaming /\ closed)
  /\ UNCHANGED <<camVars, usbVars, fwOK, op, gen, att, ses, res, histVars>>

-----------------------------------------------------------------------------
(* ReadFrame, through the resident session videoStream opens on first use *)

FrameLook(r) ==
  /\ Goto(r, "frame_look", IF vidStream = NoSession THEN "frame_open" ELSE "next")
  /\ ses' = [ses EXCEPT ![r] = vidStream]
  /\ UNCHANGED <<camVars, usbVars, devVars, op, gen, att, res, histVars>>

\* StartStream runs outside mu; a failure leaves ReadFrame on BulkRead.
FrameOpen(r) ==
  \/ /\ Goto(r, "frame_open", "read")
     /\ UNCHANGED <<camVars, usbVars, devVars, op, gen, att, ses, res, histVars>>
  \/ /\ ~closed
     /\ opened < MaxSessions
     /\ Goto(r, "frame_open", "adopt")
     /\ opened' = opened + 1
     /\ sessions' = sessions \cup {opened + 1}
     /\ ses' = [ses EXCEPT ![r] = opened + 1]
     /\ UNCHANGED <<camVars, latch, io, closed, devVars, op, gen, att, res, histVars>>

FaultyFrameAdopt(r) ==
  /\ Goto(r, "adopt", "next")
  /\ vidStream' = ses[r]
  /\ UNCHANGED <<status, expGen, expAborted, dead, usbVars, devVars,
                 op, gen, att, ses, res, histVars>>

\* The first opener's session is adopted; a loser closes its own.
FrameAdopt(r) ==
  \/ /\ vidStream = NoSession
     /\ Goto(r, "adopt", "next")
     /\ vidStream' = ses[r]
     /\ UNCHANGED <<status, expGen, expAborted, dead, usbVars, devVars,
                    op, gen, att, ses, res, histVars>>
  \/ /\ vidStream # NoSession
     /\ Goto(r, "adopt", "next")
     /\ sessions' = sessions \ {ses[r]}
     /\ ses' = [ses EXCEPT ![r] = vidStream]
     /\ UNCHANGED <<camVars, latch, io, opened, closed, devVars, op, gen, att, res, histVars>>

FrameNext(r) ==
  /\ ~InNext(ses[r])
  /\ Goto(r, "next", IF ses[r] \in sessions THEN "in_next" ELSE "idle")
  /\ UNCHANGED <<camVars, usbVars, devVars, op, gen, att, ses, res, histVars>>

LeaveNext(r) ==
  /\ Goto(r, "in_next", "idle")
  /\ UNCHANGED <<camVars, usbVars, devVars, op, gen, att, ses, res, histVars>>

NextFrame(r)   == streaming /\ LeaveNext(r)
NextBroken(r)  == latch /\ LeaveNext(r)
NextTimeout(r) == LeaveNext(r)

-----------------------------------------------------------------------------

\* The FX3 drops its firmware: the readout stops and nothing answers again.
FirmwareDrop ==
  /\ fwOK
  /\ fwOK' = FALSE
  /\ streaming' = FALSE
  /\ UNCHANGED <<camVars, usbVars, locVars, histVars>>

Common(t) ==
  \/ DeadCheck(t)   \/ TakeStream(t) \/ DropStream(t)
  \/ ArmStop(t)     \/ ArmStart(t)

ControllerStep(c) ==
  \/ Common(c)
  \/ StartClaim(c)  \/ ArmRead(c)    \/ StartRelease(c)
  \/ VideoBusy(c)   \/ VideoAbortRead(c) \/ VideoClaim(c)
  \/ StopMark(c)    \/ AbortRead(c)  \/ StopWrites(c)
  \/ CloseCheck(c)  \/ TransportClose(c)

WorkerStep(r) ==
  \/ Integrate(r)   \/ WorkerShort(r)
  \/ LadderReread(r) \/ LadderReset(r) \/ LadderGiveUp(r) \/ LadderShort(r)
  \/ WorkerHalt(r)  \/ WorkerErr(r)  \/ Fail(r) \/ Probe(r)
  \/ Accept(r)      \/ RejectDesynced(r)

\* What the code does by itself: every step but a frame arriving, a read
\* running into its own deadline, and the caller making a call.
ReaderStep(r) ==
  \/ Common(r)
  \/ Snapshot(r)    \/ BeginRead(r)  \/ ReadBroken(r) \/ ReadDone(r)
  \/ WorkerStep(r)
  \/ Attempt(r)     \/ NextAttempt(r) \/ Recover(r) \/ Rearmed(r)
  \/ GiveUp(r)      \/ BusReset(r)
  \/ FrameLook(r)   \/ FrameOpen(r)  \/ FrameAdopt(r)
  \/ FrameNext(r)   \/ NextBroken(r)

Arrival(r)  == ReadFull(r) \/ NextFrame(r)
Deadline(r) == ReadTimeout(r) \/ NextTimeout(r)

Next ==
  \/ \E c \in Controllers : ControllerStep(c) \/ \E o \in ControllerOps : Call(c, o)
  \/ \E r \in Readers : \/ ReaderStep(r) \/ Arrival(r) \/ Deadline(r)
                        \/ \E o \in ReaderOps : Call(r, o)
  \/ FirmwareDrop

Spec == Init /\ [][Next]_vars

\* Threads run: whatever the code can do by itself it eventually does.  No
\* frame need ever arrive and no read need ever reach its own deadline, so
\* only the abort latch ends a read that waits.
FairSpec ==
  /\ Spec
  /\ \A c \in Controllers : WF_vars(ControllerStep(c))
  /\ \A r \in Readers : WF_vars(ReaderStep(r))

-----------------------------------------------------------------------------
(* Properties *)

Labels == {"idle", "dead_check", "claim", "take", "drop", "arm_read", "release",
  "arm_stop", "arm_start", "video_busy", "video_abort", "video_claim", "stop_mark",
  "abort_read", "stop_writes", "close_check", "transport_close", "snapshot", "read",
  "reading", "read_done", "integrate", "short", "ladder", "halt", "worker_err", "fail",
  "probe", "accept", "attempt", "next_attempt", "recover", "rearmed", "give_up",
  "bus_reset", "frame_look", "frame_open", "adopt", "next", "in_next"}

CamTypes ==
  /\ status \in Statuses /\ expGen \in 0 .. MaxGen /\ expAborted \in BOOLEAN
  /\ vidStream \in 0 .. MaxSessions /\ dead \in BOOLEAN
UsbTypes ==
  /\ latch \in BOOLEAN /\ closed \in BOOLEAN
  /\ io \in Readers \cup {NoThread}
  /\ opened \in 0 .. MaxSessions /\ sessions \subseteq 1 .. MaxSessions
DevTypes == streaming \in BOOLEAN /\ fwOK \in BOOLEAN
LocTypes ==
  /\ pc \in [Threads -> Labels]
  /\ op \in [Threads -> AllControllerOps \cup AllReaderOps \cup {"none", "close_stop"}]
  /\ gen \in [Threads -> 0 .. MaxGen]
  /\ att \in [Threads -> Nat]
  /\ ses \in [Threads -> 0 .. MaxSessions]
  /\ res \in [Threads -> {"none", "full", "short", "err"}]
HistTypes ==
  /\ cause \in [Threads -> {"none", "latch", "stall", "closed"}]
  /\ late \in [Threads -> Nat]
  /\ delivered \in [1 .. MaxGen -> Nat]
  /\ shots \subseteq 1 .. MaxGen

\* Every field has its type: a thread stands at a label of the program, the status
\* stored is never Success, which GetExpStatus derives, and generations and
\* sessions only name ones that exist.
TypeOK == CamTypes /\ UsbTypes /\ DevTypes /\ LocTypes /\ HistTypes

AllIdle         == \A t \in Threads : pc[t] = "idle"
ControllersIdle == \A c \in Controllers : pc[c] = "idle"

\* An aborted exposure is not marked working again before the next claim, which
\* recoverAndRearm promises and, without a Worker, does not keep: a stop during its
\* arm is overwritten.  With a Worker that path is out of reach and only claims mark
\* anything working, so there this is an aid to the proofs and not a claim.
AbortSticks == expAborted => status # "working"

\* The sensor is never left free-running: when no call is in progress and no
\* capture is claimed, the readout is halted, however Start, Stop and the
\* worker's own arm and halt interleaved (the Worker contract of sensor.go).
HaltedWhenQuiet == AllIdle /\ status # "working" /\ ~closed => ~streaming

\* ... and it is halted when Close has returned too, since a sensor streaming
\* into a closed host crashes the FX3.
HaltedWhenClosed == AllIdle /\ closed => ~streaming

\* A frame of one claimed exposure reaches a caller at most once.
DeliveredOnce == \A g \in 1 .. MaxGen : delivered[g] <= 1

\* An aborted or superseded capture waits in at most one more frame read
\* before it returns, so a stop never waits out a retry ladder.
PromptAbort == \A r \in Readers : late[r] <= 1

\* A claimed capture can be read: outside a controller's call the abort latch
\* is down whenever the status is working.
LiveClaimReadable == ControllersIdle /\ status = "working" => ~latch

\* No two threads drive the arm sequence at once: neither two StartExposure
\* calls nor one of them and a recovery, which keeps the claim while it re-arms.
Arming(t) == pc[t] \in {"arm_stop", "arm_start"}
NoDoubleArm == \A t, u \in Threads : Arming(t) /\ Arming(u) => t = u

\* A single shot owns the bulk pipe outright: no resident session is open while
\* the frame read of a capture StartExposure claimed is in flight.
SingleShotOwnsPipe ==
  \A r \in Readers :
    pc[r] = "reading" /\ op[r] = "data" /\ gen[r] \in shots /\ ~AbortedGen(r) => sessions = {}

\* No resident session leaks: once every call has returned, the only open session
\* is the one the next ReadFrame finds, however ReadFrame's lazy opening raced
\* with another ReadFrame or with the StartVideo or StopExposure that drops it.
SessionsOwned == AllIdle => sessions \subseteq {vidStream}

\* A capture that was superseded never changes the status of the one that
\* superseded it, whatever path it unwinds along (setStatusIfGen).
StaleLeavesStatus ==
  [][\A r \in Readers :
       op[r] = "data" /\ gen[r] # expGen /\ pc'[r] # pc[r] => status' = status]_vars

\* A read the driver's own abort latch broke is not a stall: the worker does
\* not count it or answer it with another read or a device reset.
BrokenReadIsNoStall ==
  [][\A r \in Readers :
       pc[r] = "ladder" /\ pc'[r] \in {"read", "arm_stop"} => cause[r] # "latch"]_vars

\* StopExposure returns, and the read it aborts ends, with no frame arriving
\* and no read reaching its deadline: the latch alone breaks the wait.
StopReturns ==
  \A c \in Controllers : (pc[c] # "idle" /\ op[c] = "stop") ~> pc[c] = "idle"

\* A capture in flight when the exposure is stopped unwinds, unless a new
\* claim lowers the latch first.
AbortUnwinds ==
  \A r \in Readers : (expAborted /\ latch /\ op[r] = "data") ~> (pc[r] = "idle" \/ ~latch)

\* Close returns: the transport's wait for the reads in flight always ends, since
\* a capture still claimed is stopped, and its read broken, before the wait.
CloseReturns ==
  \A c \in Controllers : (pc[c] # "idle" /\ op[c] \in {"close", "close_stop"}) ~> pc[c] = "idle"

\* A capture still unwinding when the transport closes returns to its caller: no
\* retry ladder runs on against a closed transport.
UnwindsAfterClose ==
  \A r \in Readers : (closed /\ pc[r] # "idle") ~> pc[r] = "idle"

\* Nobody waits for ever on a capture: the calls that end one return, and so does
\* the capture they end.
CallsEnd == StopReturns /\ CloseReturns /\ AbortUnwinds /\ UnwindsAfterClose

-----------------------------------------------------------------------------
(* The abstract specification *)

Promise == INSTANCE Exposure WITH current <- expGen, stopped <- expAborted,
                                  frames <- delivered

\* The threads, locks and writes below implement the sequence of exposures
\* Exposure describes: each critical section of mu is one of its steps or none.
Implements == Promise!Spec

=============================================================================
