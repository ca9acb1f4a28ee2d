---------------------------- MODULE CaptureProofs ----------------------------
(***************************************************************************)
(* Theorems about Capture, for every set of threads and every bound.       *)
(***************************************************************************)
EXTENDS Capture, TLAPS

-----------------------------------------------------------------------------
(* Type correctness.  Every case of EntryPoint, AfterDrop, ArmOk and ArmErr is *)
(* total, so TypeOK is inductive by itself.                                *)

\* Every routine hands over to a label of the program.
LEMMA LabelTypes ==
  /\ \A o : EntryPoint(o) \in Labels
  /\ \A t : AfterDrop(t) \in Labels /\ ArmOk(t) \in Labels /\ ArmErr(t) \in Labels
BY DEF EntryPoint, AfterDrop, ArmOk, ArmErr, Labels

\* The bounds are naturals, so generation 0 and the absent session are in range.
LEMMA Bounds == MaxGen \in Nat /\ MaxSessions \in Nat /\ 0 \in 0 .. MaxGen /\ 0 \in 0 .. MaxSessions
<1>1. MaxGen \in Nat /\ MaxSessions \in Nat
  BY CaptureAssumption DEF CaptureAssumption
<1> QED BY <1>1

\* The state a Camera is opened in is well typed.
LEMMA InitType == Init => TypeOK
<1> SUFFICES ASSUME Init PROVE TypeOK
  OBVIOUS
<1> USE DEF Init
<1>1. CamTypes
  BY Bounds DEF CamTypes, Statuses, NoSession
<1>2. UsbTypes
  BY Bounds DEF UsbTypes
<1>3. DevTypes
  BY DEF DevTypes
<1>4. LocTypes
  BY Bounds DEF LocTypes, Labels, NoSession
<1>5. HistTypes
  BY DEF HistTypes
<1> QED BY <1>1, <1>2, <1>3, <1>4, <1>5 DEF TypeOK

\* A thread's step leaves the program counters typed when its target is a label.
LEMMA GotoType ==
  ASSUME NEW t, NEW from, NEW to \in Labels, pc \in [Threads -> Labels], Goto(t, from, to)
  PROVE  pc' \in [Threads -> Labels]
BY DEF Goto

\* Counting up at one index, in the domain or not, keeps a function into Nat one.
LEMMA IncType ==
  ASSUME NEW S, NEW f \in [S -> Nat], NEW k
  PROVE  [f EXCEPT ![k] = @ + 1] \in [S -> Nat]
<1>1. CASE k \in S
  BY <1>1
<1>2. CASE k \notin S
  <2>1. [f EXCEPT ![k] = @ + 1] = f
    BY <1>2
  <2> QED BY <2>1
<1> QED BY <1>1, <1>2

\* A claim below the bound yields a generation within it.
LEMMA NextIn ==
  ASSUME NEW n \in 0 .. MaxGen, n < MaxGen
  PROVE  n + 1 \in 1 .. MaxGen /\ n + 1 \in 0 .. MaxGen
BY Bounds

\* Entering a call changes only the program counter and the call of its thread.
LEMMA CallType ==
  ASSUME TypeOK, NEW t \in Threads, NEW o \in AllControllerOps \cup AllReaderOps, Call(t, o)
  PROVE  TypeOK'
<1> USE DEF TypeOK, Call
<1>1. CamTypes' /\ UsbTypes' /\ DevTypes' /\ HistTypes'
  BY DEF CamTypes, UsbTypes, DevTypes, HistTypes, camVars, usbVars, devVars, histVars
<1>2. pc' \in [Threads -> Labels]
  BY LabelTypes, GotoType DEF LocTypes
<1>3. LocTypes'
  BY <1>2 DEF LocTypes
<1> QED BY <1>1, <1>3

\* The routines both kinds of thread run.
LEMMA CommonType ==
  ASSUME TypeOK, NEW t \in Threads,
         DeadCheck(t) \/ TakeStream(t) \/ DropStream(t) \/ ArmStop(t) \/
         ArmStart(t)
  PROVE  TypeOK'
<1> USE Bounds DEF TypeOK, Threads
<1>1. CASE DeadCheck(t)
  <2>1. CamTypes' /\ UsbTypes' /\ DevTypes' /\ HistTypes'
    BY <1>1 DEF DeadCheck, CamTypes, UsbTypes, DevTypes, HistTypes, LocTypes, Statuses,
                camVars, usbVars, devVars, histVars
  <2>2. LocTypes'
    BY <1>1, LabelTypes DEF DeadCheck, Goto, LocTypes, CamTypes, UsbTypes, Labels
  <2> QED BY <2>1, <2>2
<1>2. CASE TakeStream(t)
  <2>1. CamTypes' /\ UsbTypes' /\ DevTypes' /\ HistTypes'
    BY <1>2 DEF TakeStream, NoSession, CamTypes, UsbTypes, DevTypes, HistTypes, LocTypes, Statuses,
                camVars, usbVars, devVars, histVars
  <2>2. LocTypes'
    BY <1>2, LabelTypes DEF TakeStream, NoSession, Goto, LocTypes, CamTypes, UsbTypes, Labels
  <2> QED BY <2>1, <2>2
<1>3. CASE DropStream(t)
  <2>1. CamTypes' /\ UsbTypes' /\ DevTypes' /\ HistTypes'
    BY <1>3 DEF DropStream, CamTypes, UsbTypes, DevTypes, HistTypes, LocTypes, Statuses,
                camVars, usbVars, devVars, histVars
  <2>2. LocTypes'
    BY <1>3, LabelTypes DEF DropStream, Goto, LocTypes, CamTypes, UsbTypes, Labels
  <2> QED BY <2>1, <2>2
<1>4. CASE ArmStop(t)
  <2>1. CamTypes' /\ UsbTypes' /\ DevTypes' /\ HistTypes'
    BY <1>4 DEF ArmStop, DeviceAnswers, CamTypes, UsbTypes, DevTypes, HistTypes, LocTypes, Statuses,
                camVars, usbVars, devVars, histVars
  <2>2. LocTypes'
    BY <1>4, LabelTypes DEF ArmStop, DeviceAnswers, Goto, LocTypes, CamTypes, UsbTypes, Labels
  <2> QED BY <2>1, <2>2
<1>5. CASE ArmStart(t)
  <2>1. CamTypes' /\ UsbTypes' /\ DevTypes' /\ HistTypes'
    BY <1>5 DEF ArmStart, CamTypes, UsbTypes, DevTypes, HistTypes, LocTypes, Statuses,
                camVars, usbVars, devVars, histVars
  <2>2. LocTypes'
    BY <1>5, LabelTypes DEF ArmStart, Goto, LocTypes, CamTypes, UsbTypes, Labels
  <2> QED BY <2>1, <2>2
<1> QED BY <1>1, <1>2, <1>3, <1>4, <1>5

\* StartExposure, StartVideo, StopExposure and Close.
LEMMA ControllerType ==
  ASSUME TypeOK, NEW c \in Controllers,
         StartClaim(c) \/ ArmRead(c) \/ StartRelease(c) \/ VideoBusy(c) \/
         VideoAbortRead(c) \/ VideoClaim(c) \/ StopMark(c) \/ AbortRead(c)
         \/ StopWrites(c) \/ CloseCheck(c) \/ TransportClose(c)
  PROVE  TypeOK'
<1> USE Bounds DEF TypeOK, Threads
<1>1. CASE StartClaim(c)
  <2>0. status # "working" => expGen + 1 \in 1 .. MaxGen /\ expGen + 1 \in 0 .. MaxGen
    BY <1>1, NextIn DEF StartClaim, CamTypes
  <2>1. CamTypes'
    BY <1>1, <2>0 DEF StartClaim, CamTypes, LocTypes, Statuses, camVars
  <2>2. UsbTypes' /\ DevTypes'
    BY <1>1, <2>0 DEF StartClaim, UsbTypes, DevTypes, usbVars, devVars
  <2>3. HistTypes'
    BY <1>1, <2>0 DEF StartClaim, HistTypes, histVars
  <2>4. LocTypes'
    BY <1>1, <2>0, LabelTypes DEF StartClaim, Goto, LocTypes, CamTypes, UsbTypes, Labels
  <2> QED BY <2>1, <2>2, <2>3, <2>4
<1>2. CASE ArmRead(c)
  <2>1. CamTypes' /\ UsbTypes' /\ DevTypes' /\ HistTypes'
    BY <1>2 DEF ArmRead, CamTypes, UsbTypes, DevTypes, HistTypes, LocTypes, Statuses,
                camVars, usbVars, devVars, histVars
  <2>2. LocTypes'
    BY <1>2, LabelTypes DEF ArmRead, Goto, LocTypes, CamTypes, UsbTypes, Labels
  <2> QED BY <2>1, <2>2
<1>3. CASE StartRelease(c)
  <2>1. CamTypes' /\ UsbTypes' /\ DevTypes' /\ HistTypes'
    BY <1>3 DEF StartRelease, SetStatusIfGen, CamTypes, UsbTypes, DevTypes, HistTypes, LocTypes, Statuses,
                camVars, usbVars, devVars, histVars
  <2>2. LocTypes'
    BY <1>3, LabelTypes DEF StartRelease, SetStatusIfGen, Goto, LocTypes, CamTypes, UsbTypes, Labels
  <2> QED BY <2>1, <2>2
<1>4. CASE VideoBusy(c)
  <2>1. CamTypes' /\ UsbTypes' /\ DevTypes' /\ HistTypes'
    BY <1>4 DEF VideoBusy, CamTypes, UsbTypes, DevTypes, HistTypes, LocTypes, Statuses,
                camVars, usbVars, devVars, histVars
  <2>2. LocTypes'
    BY <1>4, LabelTypes DEF VideoBusy, Goto, LocTypes, CamTypes, UsbTypes, Labels
  <2> QED BY <2>1, <2>2
<1>5. CASE VideoAbortRead(c)
  <2>1. CamTypes' /\ UsbTypes' /\ DevTypes' /\ HistTypes'
    BY <1>5 DEF VideoAbortRead, CamTypes, UsbTypes, DevTypes, HistTypes, LocTypes, Statuses,
                camVars, usbVars, devVars, histVars
  <2>2. LocTypes'
    BY <1>5, LabelTypes DEF VideoAbortRead, Goto, LocTypes, CamTypes, UsbTypes, Labels
  <2> QED BY <2>1, <2>2
<1>6. CASE VideoClaim(c)
  <2>0. expGen + 1 \in 0 .. MaxGen
    BY <1>6, NextIn DEF VideoClaim, CamTypes
  <2>1. CamTypes'
    BY <1>6, <2>0 DEF VideoClaim, CamTypes, LocTypes, Statuses, camVars
  <2>2. UsbTypes' /\ DevTypes'
    BY <1>6, <2>0 DEF VideoClaim, UsbTypes, DevTypes, usbVars, devVars
  <2>3. HistTypes'
    BY <1>6 DEF VideoClaim, HistTypes, histVars
  <2>4. LocTypes'
    BY <1>6, <2>0, LabelTypes DEF VideoClaim, Goto, LocTypes, CamTypes, UsbTypes, Labels
  <2> QED BY <2>1, <2>2, <2>3, <2>4
<1>7. CASE StopMark(c)
  <2>1. CamTypes' /\ UsbTypes' /\ DevTypes' /\ HistTypes'
    BY <1>7 DEF StopMark, CamTypes, UsbTypes, DevTypes, HistTypes, LocTypes, Statuses,
                camVars, usbVars, devVars, histVars
  <2>2. LocTypes'
    BY <1>7, LabelTypes DEF StopMark, Goto, LocTypes, CamTypes, UsbTypes, Labels
  <2> QED BY <2>1, <2>2
<1>8. CASE AbortRead(c)
  <2>1. CamTypes' /\ UsbTypes' /\ DevTypes' /\ HistTypes'
    BY <1>8 DEF AbortRead, CamTypes, UsbTypes, DevTypes, HistTypes, LocTypes, Statuses,
                camVars, usbVars, devVars, histVars
  <2>2. LocTypes'
    BY <1>8, LabelTypes DEF AbortRead, Goto, LocTypes, CamTypes, UsbTypes, Labels
  <2> QED BY <2>1, <2>2
<1>9. CASE StopWrites(c)
  <2>1. CamTypes' /\ UsbTypes' /\ DevTypes' /\ HistTypes'
    BY <1>9 DEF StopWrites, DeviceAnswers, CamTypes, UsbTypes, DevTypes, HistTypes, LocTypes, Statuses,
                camVars, usbVars, devVars, histVars
  <2>2. LocTypes'
    BY <1>9, LabelTypes DEF StopWrites, DeviceAnswers, Goto, LocTypes, CamTypes, UsbTypes, Labels, AllControllerOps
  <2> QED BY <2>1, <2>2
<1>10. CASE CloseCheck(c)
  <2>1. CamTypes' /\ UsbTypes' /\ DevTypes' /\ HistTypes'
    BY <1>10 DEF CloseCheck, CamTypes, UsbTypes, DevTypes, HistTypes, LocTypes, Statuses,
                camVars, usbVars, devVars, histVars
  <2>2. LocTypes'
    BY <1>10, LabelTypes DEF CloseCheck, Goto, LocTypes, CamTypes, UsbTypes, Labels, AllControllerOps
  <2> QED BY <2>1, <2>2
<1>11. CASE TransportClose(c)
  <2>1. CamTypes' /\ UsbTypes' /\ DevTypes' /\ HistTypes'
    BY <1>11 DEF TransportClose, CamTypes, UsbTypes, DevTypes, HistTypes, LocTypes, Statuses,
                camVars, usbVars, devVars, histVars
  <2>2. LocTypes'
    BY <1>11, LabelTypes DEF TransportClose, Goto, LocTypes, CamTypes, UsbTypes, Labels
  <2> QED BY <2>1, <2>2
<1> QED BY <1>1, <1>2, <1>3, <1>4, <1>5, <1>6, <1>7, <1>8, <1>9, <1>10, <1>11

\* The snapshot of GetDataAfterExp and its frame read.
LEMMA ReadType ==
  ASSUME TypeOK, NEW r \in Readers,
         Snapshot(r) \/ BeginRead(r) \/ ReadBroken(r) \/ ReadDone(r) \/
         ReadFull(r) \/ ReadTimeout(r)
  PROVE  TypeOK'
<1> USE Bounds DEF TypeOK, Threads
<1>1. CASE Snapshot(r)
  <2>1. CamTypes'
    BY <1>1 DEF Snapshot, CamTypes, LocTypes, Statuses, camVars
  <2>2. UsbTypes' /\ DevTypes'
    BY <1>1 DEF Snapshot, UsbTypes, DevTypes, usbVars, devVars
  <2>3. HistTypes'
    <3>1. late' \in [Threads -> Nat]
      BY <1>1, SMTT(30) DEF Snapshot, HistTypes, histVars
    <3> QED BY <1>1, <3>1 DEF Snapshot, HistTypes, histVars
  <2>4. LocTypes'
    BY <1>1, LabelTypes DEF Snapshot, Goto, LocTypes, CamTypes, UsbTypes, Labels
  <2> QED BY <2>1, <2>2, <2>3, <2>4
<1>2. CASE BeginRead(r)
  <2>1. CamTypes'
    BY <1>2 DEF BeginRead, CamTypes, LocTypes, Statuses, camVars
  <2>2. UsbTypes' /\ DevTypes'
    BY <1>2 DEF BeginRead, UsbTypes, DevTypes, usbVars, devVars
  <2>3. HistTypes'
    <3>1. cause' \in [Threads -> {"none", "latch", "stall", "closed"}]
      BY <1>2 DEF BeginRead, HistTypes, histVars
    <3>2. late' \in [Threads -> Nat]
      BY <1>2 DEF BeginRead, HistTypes, histVars
    <3> QED BY <1>2, <3>1, <3>2 DEF BeginRead, HistTypes, histVars
  <2>4. LocTypes'
    BY <1>2, LabelTypes DEF BeginRead, Goto, LocTypes, CamTypes, UsbTypes, Labels
  <2> QED BY <2>1, <2>2, <2>3, <2>4
<1>3. CASE ReadBroken(r)
  <2>1. CamTypes' /\ UsbTypes' /\ DevTypes' /\ HistTypes'
    BY <1>3 DEF ReadBroken, EndRead, CamTypes, UsbTypes, DevTypes, HistTypes, LocTypes, Statuses,
                camVars, usbVars, devVars, histVars
  <2>2. LocTypes'
    BY <1>3, LabelTypes DEF ReadBroken, EndRead, Goto, LocTypes, CamTypes, UsbTypes, Labels
  <2> QED BY <2>1, <2>2
<1>4. CASE ReadDone(r)
  <2>1. CamTypes' /\ UsbTypes' /\ DevTypes' /\ HistTypes'
    BY <1>4 DEF ReadDone, CamTypes, UsbTypes, DevTypes, HistTypes, LocTypes, Statuses,
                camVars, usbVars, devVars, histVars
  <2>2. LocTypes'
    BY <1>4, LabelTypes DEF ReadDone, Goto, LocTypes, CamTypes, UsbTypes, Labels
  <2> QED BY <2>1, <2>2
<1>5. CASE ReadFull(r)
  <2>1. CamTypes' /\ UsbTypes' /\ DevTypes' /\ HistTypes'
    BY <1>5 DEF ReadFull, EndRead, CamTypes, UsbTypes, DevTypes, HistTypes, LocTypes, Statuses,
                camVars, usbVars, devVars, histVars
  <2>2. LocTypes'
    BY <1>5, LabelTypes DEF ReadFull, EndRead, Goto, LocTypes, CamTypes, UsbTypes, Labels
  <2> QED BY <2>1, <2>2
<1>6. CASE ReadTimeout(r)
  <2>1. CamTypes' /\ UsbTypes' /\ DevTypes' /\ HistTypes'
    BY <1>6, ZenonT(60) DEF ReadTimeout, EndRead, CamTypes, UsbTypes, DevTypes, HistTypes, LocTypes, Statuses,
                camVars, usbVars, devVars, histVars
  <2>2. LocTypes'
    BY <1>6, LabelTypes DEF ReadTimeout, EndRead, Goto, LocTypes, CamTypes, UsbTypes, Labels
  <2> QED BY <2>1, <2>2
<1> QED BY <1>1, <1>2, <1>3, <1>4, <1>5, <1>6

\* The sensor Worker and what GetDataAfterExp does with its result.
LEMMA WorkerType ==
  ASSUME TypeOK, NEW r \in Readers,
         Integrate(r) \/ WorkerShort(r) \/ LadderReread(r) \/
         LadderReset(r) \/ LadderGiveUp(r) \/ LadderShort(r) \/
         WorkerHalt(r) \/ WorkerErr(r) \/ Fail(r) \/ Probe(r) \/ Accept(r)
         \/ RejectDesynced(r)
  PROVE  TypeOK'
<1> USE Bounds DEF TypeOK, Threads
<1>1. CASE Integrate(r)
  <2>1. CamTypes' /\ UsbTypes' /\ DevTypes' /\ HistTypes'
    BY <1>1 DEF Integrate, CamTypes, UsbTypes, DevTypes, HistTypes, LocTypes, Statuses,
                camVars, usbVars, devVars, histVars
  <2>2. LocTypes'
    BY <1>1, LabelTypes DEF Integrate, Goto, LocTypes, CamTypes, UsbTypes, Labels
  <2> QED BY <2>1, <2>2
<1>2. CASE WorkerShort(r)
  <2>1. CamTypes' /\ UsbTypes' /\ DevTypes' /\ HistTypes'
    BY <1>2 DEF WorkerShort, CamTypes, UsbTypes, DevTypes, HistTypes, LocTypes, Statuses,
                camVars, usbVars, devVars, histVars
  <2>2. LocTypes'
    BY <1>2, LabelTypes DEF WorkerShort, Goto, LocTypes, CamTypes, UsbTypes, Labels
  <2> QED BY <2>1, <2>2
<1>3. CASE LadderReread(r)
  <2>1. CamTypes' /\ UsbTypes' /\ DevTypes' /\ HistTypes'
    BY <1>3 DEF LadderReread, CamTypes, UsbTypes, DevTypes, HistTypes, LocTypes, Statuses,
                camVars, usbVars, devVars, histVars
  <2>2. LocTypes'
    BY <1>3, LabelTypes DEF LadderReread, Goto, LocTypes, CamTypes, UsbTypes, Labels
  <2> QED BY <2>1, <2>2
<1>4. CASE LadderReset(r)
  <2>1. CamTypes' /\ UsbTypes' /\ DevTypes' /\ HistTypes'
    BY <1>4 DEF LadderReset, CamTypes, UsbTypes, DevTypes, HistTypes, LocTypes, Statuses,
                camVars, usbVars, devVars, histVars
  <2>2. LocTypes'
    BY <1>4, LabelTypes DEF LadderReset, Goto, LocTypes, CamTypes, UsbTypes, Labels
  <2> QED BY <2>1, <2>2
<1>5. CASE LadderGiveUp(r)
  <2>1. CamTypes' /\ UsbTypes' /\ DevTypes' /\ HistTypes'
    BY <1>5 DEF LadderGiveUp, CamTypes, UsbTypes, DevTypes, HistTypes, LocTypes, Statuses,
                camVars, usbVars, devVars, histVars
  <2>2. LocTypes'
    BY <1>5, LabelTypes DEF LadderGiveUp, Goto, LocTypes, CamTypes, UsbTypes, Labels
  <2> QED BY <2>1, <2>2
<1>6. CASE LadderShort(r)
  <2>1. CamTypes' /\ UsbTypes' /\ DevTypes' /\ HistTypes'
    BY <1>6 DEF LadderShort, CamTypes, UsbTypes, DevTypes, HistTypes, LocTypes, Statuses,
                camVars, usbVars, devVars, histVars
  <2>2. LocTypes'
    BY <1>6, LabelTypes DEF LadderShort, Goto, LocTypes, CamTypes, UsbTypes, Labels
  <2> QED BY <2>1, <2>2
<1>7. CASE WorkerHalt(r)
  <2>1. CamTypes' /\ UsbTypes' /\ DevTypes' /\ HistTypes'
    BY <1>7 DEF WorkerHalt, DeviceAnswers, CamTypes, UsbTypes, DevTypes, HistTypes, LocTypes, Statuses,
                camVars, usbVars, devVars, histVars
  <2>2. LocTypes'
    BY <1>7, LabelTypes DEF WorkerHalt, DeviceAnswers, Goto, LocTypes, CamTypes, UsbTypes, Labels
  <2> QED BY <2>1, <2>2
<1>8. CASE WorkerErr(r)
  <2>1. CamTypes' /\ UsbTypes' /\ DevTypes' /\ HistTypes'
    BY <1>8 DEF WorkerErr, CamTypes, UsbTypes, DevTypes, HistTypes, LocTypes, Statuses,
                camVars, usbVars, devVars, histVars
  <2>2. LocTypes'
    BY <1>8, LabelTypes DEF WorkerErr, Goto, LocTypes, CamTypes, UsbTypes, Labels
  <2> QED BY <2>1, <2>2
<1>9. CASE Fail(r)
  <2>1. CamTypes' /\ UsbTypes' /\ DevTypes' /\ HistTypes'
    BY <1>9 DEF Fail, SetStatusIfGen, CamTypes, UsbTypes, DevTypes, HistTypes, LocTypes, Statuses,
                camVars, usbVars, devVars, histVars
  <2>2. LocTypes'
    BY <1>9, LabelTypes DEF Fail, SetStatusIfGen, Goto, LocTypes, CamTypes, UsbTypes, Labels
  <2> QED BY <2>1, <2>2
<1>10. CASE Probe(r)
  <2>1. CamTypes' /\ UsbTypes' /\ DevTypes' /\ HistTypes'
    BY <1>10 DEF Probe, DeviceAnswers, CamTypes, UsbTypes, DevTypes, HistTypes, LocTypes, Statuses,
                camVars, usbVars, devVars, histVars
  <2>2. LocTypes'
    BY <1>10, LabelTypes DEF Probe, DeviceAnswers, Goto, LocTypes, CamTypes, UsbTypes, Labels
  <2> QED BY <2>1, <2>2
<1>11. CASE Accept(r)
  <2>1. CamTypes'
    BY <1>11 DEF Accept, SetStatusIfGen, CamTypes, LocTypes, Statuses, camVars
  <2>2. UsbTypes' /\ DevTypes'
    BY <1>11 DEF Accept, SetStatusIfGen, UsbTypes, DevTypes, usbVars, devVars
  <2>3. HistTypes'
    <3>1. delivered' \in [1 .. MaxGen -> Nat]
      BY <1>11, IncType DEF Accept, HistTypes
    <3> QED BY <1>11, <3>1 DEF Accept, HistTypes
  <2>4. LocTypes'
    BY <1>11, LabelTypes DEF Accept, SetStatusIfGen, Goto, LocTypes, CamTypes, UsbTypes, Labels
  <2> QED BY <2>1, <2>2, <2>3, <2>4
<1>12. CASE RejectDesynced(r)
  <2>1. CamTypes' /\ UsbTypes' /\ DevTypes' /\ HistTypes'
    BY <1>12 DEF RejectDesynced, SetStatusIfGen, CamTypes, UsbTypes, DevTypes, HistTypes, LocTypes, Statuses,
                camVars, usbVars, devVars, histVars
  <2>2. LocTypes'
    BY <1>12, LabelTypes DEF RejectDesynced, SetStatusIfGen, Goto, LocTypes, CamTypes, UsbTypes, Labels
  <2> QED BY <2>1, <2>2
<1> QED BY <1>1, <1>2, <1>3, <1>4, <1>5, <1>6, <1>7, <1>8, <1>9, <1>10, <1>11, <1>12

\* The path without a Worker.
LEMMA RecoveryType ==
  ASSUME TypeOK, NEW r \in Readers,
         Attempt(r) \/ NextAttempt(r) \/ Recover(r) \/ Rearmed(r) \/
         GiveUp(r) \/ BusReset(r)
  PROVE  TypeOK'
<1> USE Bounds DEF TypeOK, Threads
<1>1. CASE Attempt(r)
  <2>1. CamTypes' /\ UsbTypes' /\ DevTypes' /\ HistTypes'
    BY <1>1 DEF Attempt, CamTypes, UsbTypes, DevTypes, HistTypes, LocTypes, Statuses,
                camVars, usbVars, devVars, histVars
  <2>2. LocTypes'
    BY <1>1, LabelTypes DEF Attempt, Goto, LocTypes, CamTypes, UsbTypes, Labels
  <2> QED BY <2>1, <2>2
<1>2. CASE NextAttempt(r)
  <2>1. CamTypes' /\ UsbTypes' /\ DevTypes' /\ HistTypes'
    BY <1>2 DEF NextAttempt, CamTypes, UsbTypes, DevTypes, HistTypes, LocTypes, Statuses,
                camVars, usbVars, devVars, histVars
  <2>2. LocTypes'
    BY <1>2, LabelTypes DEF NextAttempt, Goto, LocTypes, CamTypes, UsbTypes, Labels
  <2> QED BY <2>1, <2>2
<1>3. CASE Recover(r)
  <2>1. CamTypes' /\ UsbTypes' /\ DevTypes' /\ HistTypes'
    BY <1>3 DEF Recover, CamTypes, UsbTypes, DevTypes, HistTypes, LocTypes, Statuses,
                camVars, usbVars, devVars, histVars
  <2>2. LocTypes'
    BY <1>3, LabelTypes DEF Recover, Goto, LocTypes, CamTypes, UsbTypes, Labels
  <2> QED BY <2>1, <2>2
<1>4. CASE Rearmed(r)
  <2>1. CamTypes' /\ UsbTypes' /\ DevTypes' /\ HistTypes'
    BY <1>4 DEF Rearmed, SetStatusIfGen, CamTypes, UsbTypes, DevTypes, HistTypes, LocTypes, Statuses,
                camVars, usbVars, devVars, histVars
  <2>2. LocTypes'
    BY <1>4, LabelTypes DEF Rearmed, SetStatusIfGen, Goto, LocTypes, CamTypes, UsbTypes, Labels
  <2> QED BY <2>1, <2>2
<1>5. CASE GiveUp(r)
  <2>1. CamTypes' /\ UsbTypes' /\ DevTypes' /\ HistTypes'
    BY <1>5 DEF GiveUp, SetStatusIfGen, CamTypes, UsbTypes, DevTypes, HistTypes, LocTypes, Statuses,
                camVars, usbVars, devVars, histVars
  <2>2. LocTypes'
    BY <1>5, LabelTypes DEF GiveUp, SetStatusIfGen, Goto, LocTypes, CamTypes, UsbTypes, Labels
  <2> QED BY <2>1, <2>2
<1>6. CASE BusReset(r)
  <2>1. CamTypes' /\ UsbTypes' /\ DevTypes' /\ HistTypes'
    BY <1>6 DEF BusReset, CamTypes, UsbTypes, DevTypes, HistTypes, LocTypes, Statuses,
                camVars, usbVars, devVars, histVars
  <2>2. LocTypes'
    BY <1>6, LabelTypes DEF BusReset, Goto, LocTypes, CamTypes, UsbTypes, Labels
  <2> QED BY <2>1, <2>2
<1> QED BY <1>1, <1>2, <1>3, <1>4, <1>5, <1>6

\* ReadFrame and its session.
LEMMA FrameType ==
  ASSUME TypeOK, NEW r \in Readers,
         FrameLook(r) \/ FrameOpen(r) \/ FrameAdopt(r) \/ FrameNext(r) \/
         NextBroken(r) \/ NextFrame(r) \/ NextTimeout(r)
  PROVE  TypeOK'
<1> USE Bounds DEF TypeOK, Threads
<1>1. CASE FrameLook(r)
  <2>1. CamTypes' /\ UsbTypes' /\ DevTypes' /\ HistTypes'
    BY <1>1 DEF FrameLook, CamTypes, UsbTypes, DevTypes, HistTypes, LocTypes, Statuses,
                camVars, usbVars, devVars, histVars
  <2>2. LocTypes'
    BY <1>1, LabelTypes DEF FrameLook, Goto, LocTypes, CamTypes, UsbTypes, Labels
  <2> QED BY <2>1, <2>2
<1>2. CASE FrameOpen(r)
  <2>0. opened < MaxSessions => opened + 1 \in 1 .. MaxSessions /\ opened + 1 \in 0 .. MaxSessions
    BY <1>2 DEF UsbTypes
  <2>1. CamTypes'
    BY <1>2, <2>0 DEF FrameOpen, CamTypes, LocTypes, Statuses, camVars
  <2>2. UsbTypes' /\ DevTypes'
    BY <1>2, <2>0 DEF FrameOpen, UsbTypes, DevTypes, usbVars, devVars
  <2>3. HistTypes'
    BY <1>2 DEF FrameOpen, HistTypes, histVars
  <2>4. LocTypes'
    BY <1>2, <2>0, LabelTypes DEF FrameOpen, Goto, LocTypes, CamTypes, UsbTypes, Labels
  <2> QED BY <2>1, <2>2, <2>3, <2>4
<1>3. CASE FrameAdopt(r)
  <2>1. CamTypes' /\ UsbTypes' /\ DevTypes' /\ HistTypes'
    BY <1>3, ZenonT(60) DEF FrameAdopt, CamTypes, UsbTypes, DevTypes, HistTypes, LocTypes, Statuses,
                camVars, usbVars, devVars, histVars
  <2>2. LocTypes'
    BY <1>3, LabelTypes DEF FrameAdopt, Goto, LocTypes, CamTypes, UsbTypes, Labels
  <2> QED BY <2>1, <2>2
<1>4. CASE FrameNext(r)
  <2>1. CamTypes' /\ UsbTypes' /\ DevTypes' /\ HistTypes'
    BY <1>4 DEF FrameNext, CamTypes, UsbTypes, DevTypes, HistTypes, LocTypes, Statuses,
                camVars, usbVars, devVars, histVars
  <2>2. LocTypes'
    BY <1>4, LabelTypes DEF FrameNext, Goto, LocTypes, CamTypes, UsbTypes, Labels
  <2> QED BY <2>1, <2>2
<1>5. CASE NextBroken(r)
  <2>1. CamTypes' /\ UsbTypes' /\ DevTypes' /\ HistTypes'
    BY <1>5 DEF NextBroken, LeaveNext, CamTypes, UsbTypes, DevTypes, HistTypes, LocTypes, Statuses,
                camVars, usbVars, devVars, histVars
  <2>2. LocTypes'
    BY <1>5, LabelTypes DEF NextBroken, LeaveNext, Goto, LocTypes, CamTypes, UsbTypes, Labels
  <2> QED BY <2>1, <2>2
<1>6. CASE NextFrame(r)
  <2>1. CamTypes' /\ UsbTypes' /\ DevTypes' /\ HistTypes'
    BY <1>6 DEF NextFrame, LeaveNext, CamTypes, UsbTypes, DevTypes, HistTypes, LocTypes, Statuses,
                camVars, usbVars, devVars, histVars
  <2>2. LocTypes'
    BY <1>6, LabelTypes DEF NextFrame, LeaveNext, Goto, LocTypes, CamTypes, UsbTypes, Labels
  <2> QED BY <2>1, <2>2
<1>7. CASE NextTimeout(r)
  <2>1. CamTypes' /\ UsbTypes' /\ DevTypes' /\ HistTypes'
    BY <1>7 DEF NextTimeout, LeaveNext, CamTypes, UsbTypes, DevTypes, HistTypes, LocTypes, Statuses,
                camVars, usbVars, devVars, histVars
  <2>2. LocTypes'
    BY <1>7, LabelTypes DEF NextTimeout, LeaveNext, Goto, LocTypes, CamTypes, UsbTypes, Labels
  <2> QED BY <2>1, <2>2
<1> QED BY <1>1, <1>2, <1>3, <1>4, <1>5, <1>6, <1>7

\* Every step keeps the state well typed.
LEMMA NextType ==
  ASSUME TypeOK, [Next]_vars
  PROVE  TypeOK'
<1>1. CASE UNCHANGED vars
  BY <1>1 DEF TypeOK, CamTypes, UsbTypes, DevTypes, LocTypes, HistTypes, vars,
              camVars, usbVars, devVars, locVars, histVars
<1>2. CASE FirmwareDrop
  BY <1>2 DEF FirmwareDrop, TypeOK, CamTypes, UsbTypes, DevTypes, LocTypes, HistTypes,
              camVars, usbVars, locVars, histVars
<1>3. CASE \E c \in Controllers : ControllerStep(c) \/ \E o \in ControllerOps : Call(c, o)
  <2>1. PICK c \in Controllers : ControllerStep(c) \/ \E o \in ControllerOps : Call(c, o)
    BY <1>3
  <2>2. CASE ControllerStep(c)
    BY <2>2, CommonType, ControllerType DEF ControllerStep, Common, Threads
  <2>3. CASE \E o \in ControllerOps : Call(c, o)
    BY <2>3, CallType, CaptureAssumption DEF CaptureAssumption, Threads
  <2> QED BY <2>1, <2>2, <2>3
<1>4. CASE \E r \in Readers : \/ ReaderStep(r) \/ Arrival(r) \/ Deadline(r)
                             \/ \E o \in ReaderOps : Call(r, o)
  <2>1. PICK r \in Readers : \/ ReaderStep(r) \/ Arrival(r) \/ Deadline(r)
                            \/ \E o \in ReaderOps : Call(r, o)
    BY <1>4
  <2>2. CASE ReaderStep(r)
    BY <2>2, CommonType, ReadType, WorkerType, RecoveryType, FrameType
       DEF ReaderStep, Common, WorkerStep, Threads
  <2>3. CASE Arrival(r) \/ Deadline(r)
    BY <2>3, ReadType, FrameType DEF Arrival, Deadline
  <2>4. CASE \E o \in ReaderOps : Call(r, o)
    BY <2>4, CallType, CaptureAssumption DEF CaptureAssumption, Threads
  <2> QED BY <2>1, <2>2, <2>3, <2>4
<1> QED BY <1>1, <1>2, <1>3, <1>4 DEF Next

\* Every reachable state is well typed, for every set of threads, scenario and
\* bound: no interleaving stores Success or drives a counter past its limit.
THEOREM TypeCorrect == Spec => []TypeOK
BY InitType, NextType, PTL DEF Spec

-----------------------------------------------------------------------------
(* Who does what: a thread moves only itself. *)

\* A step of thread t moves no other program counter.
LEMMA GotoMoves ==
  ASSUME TypeOK, NEW t \in Threads, NEW from, NEW to, Goto(t, from, to), NEW u \in Threads, u # t
  PROVE  pc'[u] = pc[u]
BY DEF Goto, TypeOK, LocTypes

\* All that a controller, and a reader, may do next.
ControllerMove(c) == ControllerStep(c) \/ \E o \in ControllerOps : Call(c, o)
ReaderMove(r)     == ReaderStep(r) \/ Arrival(r) \/ Deadline(r) \/ \E o \in ReaderOps : Call(r, o)

\* A step of thread t leaves alone what the other threads keep for themselves.
Alone(t) == \A u \in Threads : u # t =>
  /\ pc'[u] = pc[u] /\ op'[u] = op[u] /\ gen'[u] = gen[u]
  /\ att'[u] = att[u] /\ late'[u] = late[u]

\* StartExposure, StartVideo, StopExposure and Close touch no local of another call.
LEMMA ControllerAlone ==
  ASSUME TypeOK, NEW c \in Controllers, ControllerMove(c)
  PROVE  Alone(c)
<1> USE DEF Alone, Goto, TypeOK, LocTypes, HistTypes, Threads, histVars
<1>1. CASE Common(c)
  BY <1>1 DEF Common, DeadCheck, TakeStream, DropStream, ArmStop, ArmStart
<1>2. CASE \E o \in ControllerOps : Call(c, o)
  BY <1>2 DEF Call
<1>3. CASE StartClaim(c) \/ ArmRead(c) \/ StartRelease(c)
  BY <1>3 DEF StartClaim, ArmRead, StartRelease
<1>4. CASE VideoBusy(c) \/ VideoAbortRead(c) \/ VideoClaim(c)
  BY <1>4 DEF VideoBusy, VideoAbortRead, VideoClaim
<1>5. CASE StopMark(c) \/ AbortRead(c) \/ StopWrites(c)
  BY <1>5 DEF StopMark, AbortRead, StopWrites
<1>6. CASE CloseCheck(c) \/ TransportClose(c)
  BY <1>6 DEF CloseCheck, TransportClose
<1> QED BY <1>1, <1>2, <1>3, <1>4, <1>5, <1>6 DEF ControllerMove, ControllerStep

\* Nor do GetDataAfterExp and ReadFrame.
LEMMA ReaderAlone ==
  ASSUME TypeOK, NEW r \in Readers, ReaderMove(r)
  PROVE  Alone(r)
<1> USE DEF Alone, Goto, TypeOK, LocTypes, HistTypes, Threads, histVars
<1>1. CASE Common(r)
  BY <1>1 DEF Common, DeadCheck, TakeStream, DropStream, ArmStop, ArmStart
<1>2. CASE \E o \in ReaderOps : Call(r, o)
  BY <1>2 DEF Call
<1>3. CASE WorkerStep(r)
  BY <1>3 DEF WorkerStep, Integrate, WorkerShort, LadderReread, LadderReset, LadderGiveUp,
             LadderShort, WorkerHalt, WorkerErr, Fail, Probe, Accept, RejectDesynced
<1>4. CASE Arrival(r) \/ Deadline(r)
  BY <1>4 DEF Arrival, Deadline, ReadFull, ReadTimeout, NextFrame, NextTimeout, EndRead,
             LeaveNext
<1>5. CASE Snapshot(r)
  BY <1>5 DEF Snapshot
<1>6. CASE BeginRead(r)
  BY <1>6 DEF BeginRead
<1>7. CASE ReadBroken(r) \/ ReadDone(r)
  BY <1>7 DEF ReadBroken, EndRead, ReadDone
<1>8. CASE Attempt(r) \/ NextAttempt(r) \/ Recover(r) \/ Rearmed(r) \/ GiveUp(r) \/ BusReset(r)
  BY <1>8 DEF Attempt, NextAttempt, Recover, Rearmed, GiveUp, BusReset
<1>9. CASE FrameLook(r) \/ FrameOpen(r) \/ FrameAdopt(r) \/ FrameNext(r) \/ NextBroken(r)
  BY <1>9 DEF FrameLook, FrameOpen, FrameAdopt, FrameNext, NextBroken, LeaveNext
<1> QED BY <1>1, <1>2, <1>3, <1>4, <1>5, <1>6, <1>7, <1>8, <1>9 DEF ReaderMove, ReaderStep

-----------------------------------------------------------------------------
(* An aborted capture stays aborted.  With a Worker nothing reaches the step *)
(* that marks a re-armed exposure working, so only a new claim does, and it  *)
(* clears the abort signal in the same critical section.                     *)

NotRearmed == \A t \in Threads : pc[t] # "rearmed"
AbortInv   == AbortSticks /\ NotRearmed

\* StartExposure, StartVideo, StopExposure and Close.
LEMMA ControllerAbort ==
  ASSUME HasWorker, TypeOK, AbortInv, NEW c \in Controllers, ControllerMove(c)
  PROVE  AbortInv'
<1> USE DEF AbortInv, AbortSticks, NotRearmed, Goto, TypeOK, LocTypes, camVars, Threads
<1>1. CASE Common(c)
  BY <1>1 DEF Common, DeadCheck, TakeStream, DropStream, ArmStop, ArmStart, AfterDrop, ArmOk, ArmErr
<1>2. CASE \E o \in ControllerOps : Call(c, o)
  BY <1>2 DEF Call, EntryPoint
<1>3. CASE StartClaim(c) \/ ArmRead(c) \/ StartRelease(c)
  BY <1>3 DEF StartClaim, ArmRead, StartRelease, SetStatusIfGen
<1>4. CASE VideoBusy(c) \/ VideoAbortRead(c) \/ VideoClaim(c)
  BY <1>4 DEF VideoBusy, VideoAbortRead, VideoClaim
<1>5. CASE StopMark(c) \/ AbortRead(c) \/ StopWrites(c) \/ CloseCheck(c) \/ TransportClose(c)
  BY <1>5 DEF StopMark, AbortRead, StopWrites, CloseCheck, TransportClose
<1> QED BY <1>1, <1>2, <1>3, <1>4, <1>5 DEF ControllerMove, ControllerStep

\* GetDataAfterExp and ReadFrame.
LEMMA ReaderAbort ==
  ASSUME HasWorker, TypeOK, AbortInv, NEW r \in Readers, ReaderMove(r)
  PROVE  AbortInv'
<1> USE DEF AbortInv, AbortSticks, NotRearmed, Goto, TypeOK, LocTypes, camVars, Threads, SetStatusIfGen
<1>1. CASE Common(r)
  BY <1>1 DEF Common, DeadCheck, TakeStream, DropStream, ArmStop, ArmStart, AfterDrop, ArmOk, ArmErr
<1>2. CASE \E o \in ReaderOps : Call(r, o)
  BY <1>2 DEF Call, EntryPoint
<1>3. CASE \/ Integrate(r) \/ WorkerShort(r) \/ LadderReread(r) \/ LadderReset(r)
           \/ LadderGiveUp(r) \/ LadderShort(r)
  BY <1>3 DEF Integrate, WorkerShort, LadderReread, LadderReset, LadderGiveUp, LadderShort
<1>4. CASE WorkerHalt(r) \/ WorkerErr(r) \/ Fail(r) \/ Probe(r) \/ Accept(r) \/ RejectDesynced(r)
  BY <1>4 DEF WorkerHalt, WorkerErr, Fail, Probe, Accept, RejectDesynced
<1>5. CASE Arrival(r) \/ Deadline(r) \/ ReadBroken(r) \/ BeginRead(r)
  BY <1>5 DEF Arrival, Deadline, ReadFull, ReadTimeout, NextFrame, NextTimeout, EndRead,
             LeaveNext, ReadBroken, BeginRead
<1>6. CASE ReadDone(r) \/ Snapshot(r)
  BY <1>6 DEF ReadDone, Snapshot
<1>7. CASE Attempt(r) \/ NextAttempt(r) \/ Recover(r) \/ Rearmed(r) \/ GiveUp(r) \/ BusReset(r)
  BY <1>7 DEF Attempt, NextAttempt, Recover, Rearmed, GiveUp, BusReset
<1>8. CASE FrameLook(r) \/ FrameOpen(r) \/ FrameAdopt(r) \/ FrameNext(r) \/ NextBroken(r)
  BY <1>8 DEF FrameLook, FrameOpen, FrameAdopt, FrameNext, NextBroken, LeaveNext
<1> QED BY <1>1, <1>2, <1>3, <1>4, <1>5, <1>6, <1>7, <1>8 DEF ReaderMove, ReaderStep, WorkerStep

\* AbortInv is inductive.
LEMMA NextAbort ==
  ASSUME HasWorker, TypeOK, AbortInv, [Next]_vars
  PROVE  AbortInv'
<1>1. CASE UNCHANGED vars \/ FirmwareDrop
  BY <1>1 DEF AbortInv, AbortSticks, NotRearmed, vars, FirmwareDrop, camVars, locVars
<1>2. CASE \E c \in Controllers : ControllerMove(c)
  BY <1>2, ControllerAbort
<1>3. CASE \E r \in Readers : ReaderMove(r)
  BY <1>3, ReaderAbort
<1> QED BY <1>1, <1>2, <1>3 DEF Next, ControllerMove, ReaderMove

\* For a profile with a Worker only a claim marks an exposure working, and a claim
\* begins with the abort taken back.
LEMMA WorkerAbortSticks ==
  ASSUME HasWorker
  PROVE  Spec => []AbortSticks
<1>1. Init => AbortInv
  BY DEF Init, AbortInv, AbortSticks, NotRearmed
<1>2. TypeOK /\ AbortInv /\ [Next]_vars => AbortInv'
  BY NextAbort
<1>3. AbortInv => AbortSticks
  BY DEF AbortInv
<1> QED BY <1>1, <1>2, <1>3, TypeCorrect, PTL DEF Spec

-----------------------------------------------------------------------------
(* A superseded capture leaves the status alone: the only writes a reader   *)
(* makes to it go through SetStatusIfGen.                                   *)

\* Whatever a reader of a superseded capture does, the status stays.
LEMMA StaleKeepsStatus ==
  ASSUME NEW r \in Readers, gen[r] # expGen, ReaderMove(r)
  PROVE  status' = status
<1> USE DEF camVars, SetStatusIfGen
<1>1. CASE Common(r) \/ \E o \in ReaderOps : Call(r, o)
  BY <1>1 DEF Common, DeadCheck, TakeStream, DropStream, ArmStop, ArmStart, Call
<1>2. CASE WorkerStep(r)
  BY <1>2 DEF WorkerStep, Integrate, WorkerShort, LadderReread, LadderReset, LadderGiveUp,
             LadderShort, WorkerHalt, WorkerErr, Fail, Probe, Accept, RejectDesynced
<1>3. CASE Arrival(r) \/ Deadline(r) \/ ReadBroken(r) \/ ReadDone(r) \/ Snapshot(r) \/ BeginRead(r)
  BY <1>3 DEF Arrival, Deadline, ReadFull, ReadTimeout, NextFrame, NextTimeout, EndRead,
             LeaveNext, ReadBroken, ReadDone, Snapshot, BeginRead
<1>4. CASE Attempt(r) \/ NextAttempt(r) \/ Recover(r) \/ Rearmed(r) \/ GiveUp(r) \/ BusReset(r)
  BY <1>4 DEF Attempt, NextAttempt, Recover, Rearmed, GiveUp, BusReset
<1>5. CASE FrameLook(r) \/ FrameOpen(r) \/ FrameAdopt(r) \/ FrameNext(r) \/ NextBroken(r)
  BY <1>5 DEF FrameLook, FrameOpen, FrameAdopt, FrameNext, NextBroken, LeaveNext
<1> QED BY <1>1, <1>2, <1>3, <1>4, <1>5 DEF ReaderMove, ReaderStep

\* No step of a capture that was superseded changes the status, for any number of
\* threads and captures: setStatusIfGen's promise on every path a capture takes out.
THEOREM StaleNeverClobbers == Spec => StaleLeavesStatus
<1> DEFINE Keeps == \A r \in Readers :
      op[r] = "data" /\ gen[r] # expGen /\ pc'[r] # pc[r] => status' = status
<1>1. TypeOK /\ [Next]_vars => Keeps
  <2> SUFFICES ASSUME TypeOK, [Next]_vars, NEW r \in Readers, gen[r] # expGen, pc'[r] # pc[r]
               PROVE  status' = status
    OBVIOUS
  <2> r \in Threads /\ r \notin Controllers
    BY CaptureAssumption DEF CaptureAssumption, Threads
  <2>1. ~UNCHANGED vars /\ ~FirmwareDrop
    BY DEF vars, locVars, FirmwareDrop
  <2>2. CASE \E c \in Controllers : ControllerMove(c)
    BY <2>2, ControllerAlone DEF Alone
  <2>3. CASE \E q \in Readers : ReaderMove(q)
    BY <2>3, ReaderAlone, StaleKeepsStatus DEF Alone
  <2> QED BY <2>1, <2>2, <2>3 DEF Next, ControllerMove, ReaderMove
<1>2. TypeOK /\ [Next]_vars => [Keeps]_vars
  BY <1>1
<1> QED BY <1>2, TypeCorrect, PTL DEF Spec, StaleLeavesStatus

-----------------------------------------------------------------------------
(* No resident session leaks.  Every open session has an owner: vidStream, or *)
(* the one thread that is about to close it or to offer it for adoption.    *)

Owned == \A s \in sessions :
           s = vidStream \/ \E t \in Threads : pc[t] \in {"drop", "adopt"} /\ ses[t] = s

\* A step that touches no session, from a point where the thread owns none.
LEMMA OwnedKept ==
  ASSUME TypeOK, Owned, NEW t \in Threads, NEW from, NEW to, Goto(t, from, to),
         from \notin {"drop", "adopt"}, UNCHANGED <<sessions, vidStream, ses>>
  PROVE  Owned'
<1> SUFFICES ASSUME NEW s \in sessions, s # vidStream
             PROVE  \E u \in Threads : pc'[u] \in {"drop", "adopt"} /\ ses[u] = s
  BY DEF Owned
<1>1. PICK u \in Threads : pc[u] \in {"drop", "adopt"} /\ ses[u] = s
  BY DEF Owned
<1>2. u # t
  BY <1>1 DEF Goto
<1>3. pc'[u] = pc[u]
  BY <1>2, GotoMoves
<1> QED BY <1>1, <1>3

\* The steps that move a session from one owner to another.
\* closeVideoStream takes the adopted session over and so becomes its owner.
LEMMA TakeOwned ==
  ASSUME TypeOK, Owned, NEW t \in Threads, TakeStream(t)
  PROVE  Owned'
<1> SUFFICES ASSUME NEW s \in sessions
             PROVE  \E u \in Threads : pc'[u] \in {"drop", "adopt"} /\ ses'[u] = s
  BY DEF Owned, TakeStream, usbVars
<1>1. s # NoSession
  BY Bounds DEF TypeOK, UsbTypes, NoSession
<1>2. CASE s = vidStream
  <2>1. pc'[t] = "drop" /\ ses'[t] = s
    BY <1>1, <1>2 DEF TakeStream, Goto, TypeOK, LocTypes
  <2> QED BY <2>1
<1>3. CASE s # vidStream
  <2>1. PICK u \in Threads : pc[u] \in {"drop", "adopt"} /\ ses[u] = s
    BY <1>3 DEF Owned
  <2>2. u # t
    BY <2>1 DEF TakeStream, Goto
  <2>3. pc'[u] = pc[u] /\ ses'[u] = ses[u]
    BY <2>2, GotoMoves DEF TakeStream, TypeOK, LocTypes
  <2> QED BY <2>1, <2>3
<1> QED BY <1>2, <1>3

\* closeVideoStream closes the session it owns.
LEMMA DropOwned ==
  ASSUME TypeOK, Owned, NEW t \in Threads, DropStream(t)
  PROVE  Owned'
<1> SUFFICES ASSUME NEW s \in sessions, s # ses[t], s # vidStream
             PROVE  \E u \in Threads : pc'[u] \in {"drop", "adopt"} /\ ses'[u] = s
  BY DEF Owned, DropStream, camVars
<1>1. PICK u \in Threads : pc[u] \in {"drop", "adopt"} /\ ses[u] = s
  BY DEF Owned
<1>2. pc'[u] = pc[u] /\ ses'[u] = ses[u]
  BY <1>1, GotoMoves DEF DropStream
<1> QED BY <1>1, <1>2

\* ReadFrame looks the adopted session up without owning it.
LEMMA LookOwned ==
  ASSUME TypeOK, Owned, NEW r \in Threads, FrameLook(r)
  PROVE  Owned'
<1> SUFFICES ASSUME NEW s \in sessions, s # vidStream
             PROVE  \E u \in Threads : pc'[u] \in {"drop", "adopt"} /\ ses'[u] = s
  BY DEF Owned, FrameLook, camVars, usbVars
<1>1. PICK u \in Threads : pc[u] \in {"drop", "adopt"} /\ ses[u] = s
  BY DEF Owned
<1>2. u # r
  BY <1>1 DEF FrameLook, Goto
<1>3. pc'[u] = pc[u] /\ ses'[u] = ses[u]
  BY <1>2, GotoMoves DEF FrameLook, TypeOK, LocTypes
<1> QED BY <1>1, <1>3

\* ReadFrame owns the session it opened until it is adopted or closed.
LEMMA OpenOwned ==
  ASSUME TypeOK, Owned, NEW r \in Threads, FrameOpen(r)
  PROVE  Owned'
<1>1. CASE UNCHANGED usbVars
  <2>1. opened' # opened + 1
    BY <1>1, Bounds DEF usbVars, TypeOK, UsbTypes
  <2> QED BY <1>1, <2>1, OwnedKept DEF FrameOpen, camVars, usbVars
<1>2. CASE ~UNCHANGED usbVars
  <2> SUFFICES ASSUME NEW s \in sessions', s # vidStream
               PROVE  \E u \in Threads : pc'[u] \in {"drop", "adopt"} /\ ses'[u] = s
    BY <1>2 DEF Owned, FrameOpen, camVars
  <2>1. CASE s = opened + 1
    <3>1. pc'[r] = "adopt" /\ ses'[r] = s
      BY <1>2, <2>1 DEF FrameOpen, Goto, TypeOK, LocTypes
    <3> QED BY <3>1
  <2>2. CASE s \in sessions
    <3>1. PICK u \in Threads : pc[u] \in {"drop", "adopt"} /\ ses[u] = s
      BY <2>2 DEF Owned
    <3>2. u # r
      BY <3>1 DEF FrameOpen, Goto
    <3>3. pc'[u] = pc[u] /\ ses'[u] = ses[u]
      BY <1>2, <3>2, GotoMoves DEF FrameOpen, TypeOK, LocTypes
    <3> QED BY <3>1, <3>3
  <2> QED BY <1>2, <2>1, <2>2 DEF FrameOpen
<1> QED BY <1>1, <1>2

\* Adoption hands the session to the camera; a loser closes its own.
LEMMA AdoptOwned ==
  ASSUME TypeOK, Owned, NEW r \in Threads, FrameAdopt(r)
  PROVE  Owned'
<1> SUFFICES ASSUME NEW s \in sessions', s # vidStream'
             PROVE  \E u \in Threads : pc'[u] \in {"drop", "adopt"} /\ ses'[u] = s
  BY DEF Owned
<1>1. s \in sessions /\ s # ses[r]
  BY DEF FrameAdopt, usbVars, camVars
<1>2. s # vidStream
  BY <1>1, Bounds DEF FrameAdopt, camVars, NoSession, TypeOK, UsbTypes
<1>3. PICK u \in Threads : pc[u] \in {"drop", "adopt"} /\ ses[u] = s
  BY <1>1, <1>2 DEF Owned
<1>4. u # r
  BY <1>1, <1>3
<1>5. pc'[u] = pc[u] /\ ses'[u] = ses[u]
  BY <1>4, GotoMoves DEF FrameAdopt, TypeOK, LocTypes
<1> QED BY <1>3, <1>5

\* StartExposure, StartVideo, StopExposure and Close.
LEMMA ControllerOwned ==
  ASSUME TypeOK, Owned, NEW c \in Controllers, ControllerMove(c)
  PROVE  Owned'
<1> USE DEF Threads, camVars, usbVars
<1>1. CASE DeadCheck(c) \/ ArmStop(c) \/ ArmStart(c) \/ \E o \in ControllerOps : Call(c, o)
  BY <1>1, OwnedKept DEF DeadCheck, ArmStop, ArmStart, Call
<1>2. CASE TakeStream(c) \/ DropStream(c)
  BY <1>2, TakeOwned, DropOwned
<1>3. CASE StartClaim(c) \/ ArmRead(c) \/ StartRelease(c)
  BY <1>3, OwnedKept DEF StartClaim, ArmRead, StartRelease, SetStatusIfGen
<1>4. CASE VideoBusy(c) \/ VideoAbortRead(c) \/ VideoClaim(c)
  BY <1>4, OwnedKept DEF VideoBusy, VideoAbortRead, VideoClaim
<1>5. CASE StopMark(c) \/ AbortRead(c) \/ StopWrites(c) \/ CloseCheck(c)
  BY <1>5, OwnedKept DEF StopMark, AbortRead, StopWrites, CloseCheck
<1>6. CASE TransportClose(c)
  BY <1>6 DEF TransportClose, Owned
<1> QED BY <1>1, <1>2, <1>3, <1>4, <1>5, <1>6 DEF ControllerMove, ControllerStep, Common

\* GetDataAfterExp and ReadFrame.
LEMMA ReaderOwned ==
  ASSUME TypeOK, Owned, NEW r \in Readers, ReaderMove(r)
  PROVE  Owned'
<1> USE DEF Threads, camVars, usbVars, SetStatusIfGen
<1>1. CASE DeadCheck(r) \/ ArmStop(r) \/ ArmStart(r) \/ \E o \in ReaderOps : Call(r, o)
  BY <1>1, OwnedKept DEF DeadCheck, ArmStop, ArmStart, Call
<1>2. CASE TakeStream(r) \/ DropStream(r) \/ FrameLook(r) \/ FrameOpen(r) \/ FrameAdopt(r)
  BY <1>2, TakeOwned, DropOwned, LookOwned, OpenOwned, AdoptOwned
<1>3. CASE Snapshot(r) \/ BeginRead(r) \/ ReadBroken(r) \/ ReadDone(r) \/ ReadFull(r) \/ ReadTimeout(r)
  BY <1>3, OwnedKept DEF Snapshot, BeginRead, ReadBroken, ReadDone, ReadFull, ReadTimeout, EndRead
<1>4. CASE \/ Integrate(r) \/ WorkerShort(r) \/ LadderReread(r) \/ LadderReset(r)
           \/ LadderGiveUp(r) \/ LadderShort(r)
  BY <1>4, OwnedKept DEF Integrate, WorkerShort, LadderReread, LadderReset, LadderGiveUp, LadderShort
<1>5. CASE WorkerHalt(r) \/ WorkerErr(r) \/ Fail(r) \/ Probe(r) \/ Accept(r) \/ RejectDesynced(r)
  BY <1>5, OwnedKept DEF WorkerHalt, WorkerErr, Fail, Probe, Accept, RejectDesynced
<1>6. CASE Attempt(r) \/ NextAttempt(r) \/ Recover(r) \/ Rearmed(r) \/ GiveUp(r) \/ BusReset(r)
  BY <1>6, OwnedKept DEF Attempt, NextAttempt, Recover, Rearmed, GiveUp, BusReset
<1>7. CASE FrameNext(r) \/ NextBroken(r) \/ NextFrame(r) \/ NextTimeout(r)
  BY <1>7, OwnedKept DEF FrameNext, NextBroken, NextFrame, NextTimeout, LeaveNext
<1> QED BY <1>1, <1>2, <1>3, <1>4, <1>5, <1>6, <1>7
        DEF ReaderMove, ReaderStep, Common, WorkerStep, Arrival, Deadline

\* No session leaks, for any number of readers racing to open one and of
\* controllers dropping it: once every call has returned, an open session is the
\* one the next ReadFrame finds.
THEOREM NoSessionLeaks == Spec => []SessionsOwned
<1>1. Init => Owned
  BY DEF Init, Owned
<1>2. TypeOK /\ Owned /\ [Next]_vars => Owned'
  <2> SUFFICES ASSUME TypeOK, Owned, [Next]_vars
               PROVE  Owned'
    OBVIOUS
  <2>1. CASE UNCHANGED vars \/ FirmwareDrop
    BY <2>1 DEF vars, FirmwareDrop, Owned, camVars, usbVars, locVars
  <2>2. CASE \E c \in Controllers : ControllerMove(c)
    BY <2>2, ControllerOwned
  <2>3. CASE \E r \in Readers : ReaderMove(r)
    BY <2>3, ReaderOwned
  <2> QED BY <2>1, <2>2, <2>3 DEF Next, ControllerMove, ReaderMove
<1>3. Owned => SessionsOwned
  BY DEF Owned, SessionsOwned, AllIdle
<1> QED BY <1>1, <1>2, <1>3, TypeCorrect, PTL DEF Spec

-----------------------------------------------------------------------------
(* The exposure generation only grows, and an abort lasts until the next claim. *)

\* What every step does to the exposure and to its abort signal.
Onward == \/ expGen' = expGen /\ (expAborted => expAborted')
          \/ expGen' = expGen + 1

\* Only a claim changes the generation, and only a claim clears the abort signal.
LEMMA ControllerOnward ==
  ASSUME NEW c \in Controllers, ControllerMove(c)
  PROVE  Onward
<1> USE DEF Onward, camVars
<1>1. CASE Common(c) \/ \E o \in ControllerOps : Call(c, o)
  BY <1>1 DEF Common, DeadCheck, TakeStream, DropStream, ArmStop, ArmStart, Call
<1>2. CASE StartClaim(c) \/ ArmRead(c) \/ StartRelease(c)
  BY <1>2 DEF StartClaim, ArmRead, StartRelease
<1>3. CASE VideoBusy(c) \/ VideoAbortRead(c) \/ VideoClaim(c)
  BY <1>3 DEF VideoBusy, VideoAbortRead, VideoClaim
<1>4. CASE StopMark(c) \/ AbortRead(c) \/ StopWrites(c) \/ CloseCheck(c) \/ TransportClose(c)
  BY <1>4 DEF StopMark, AbortRead, StopWrites, CloseCheck, TransportClose
<1> QED BY <1>1, <1>2, <1>3, <1>4 DEF ControllerMove, ControllerStep

\* A reader claims nothing, aborts nothing and leaves the abort latch alone.
LEMMA ReaderOnward ==
  ASSUME NEW r \in Readers, ReaderMove(r)
  PROVE  UNCHANGED <<expGen, expAborted, shots, latch>>
<1> USE DEF camVars, usbVars, histVars
<1>1. CASE Common(r) \/ \E o \in ReaderOps : Call(r, o)
  BY <1>1 DEF Common, DeadCheck, TakeStream, DropStream, ArmStop, ArmStart, Call
<1>2. CASE WorkerStep(r)
  BY <1>2 DEF WorkerStep, Integrate, WorkerShort, LadderReread, LadderReset, LadderGiveUp,
             LadderShort, WorkerHalt, WorkerErr, Fail, Probe, Accept, RejectDesynced
<1>3. CASE Arrival(r) \/ Deadline(r) \/ ReadBroken(r) \/ ReadDone(r) \/ Snapshot(r) \/ BeginRead(r)
  BY <1>3 DEF Arrival, Deadline, ReadFull, ReadTimeout, NextFrame, NextTimeout, EndRead,
             LeaveNext, ReadBroken, ReadDone, Snapshot, BeginRead
<1>4. CASE Attempt(r) \/ NextAttempt(r) \/ Recover(r) \/ Rearmed(r) \/ GiveUp(r) \/ BusReset(r)
  BY <1>4 DEF Attempt, NextAttempt, Recover, Rearmed, GiveUp, BusReset
<1>5. CASE FrameLook(r) \/ FrameOpen(r) \/ FrameAdopt(r) \/ FrameNext(r) \/ NextBroken(r)
  BY <1>5 DEF FrameLook, FrameOpen, FrameAdopt, FrameNext, NextBroken, LeaveNext
<1> QED BY <1>1, <1>2, <1>3, <1>4, <1>5 DEF ReaderMove, ReaderStep

\* No thread names an exposure that was not begun.
Known == \A t \in Threads : gen[t] \in 0 .. expGen

\* A controller takes up the generation it claims, if any.
LEMMA ControllerKnown ==
  ASSUME TypeOK, Known, NEW c \in Controllers, ControllerMove(c)
  PROVE  Known'
<1> expGen \in Nat /\ gen \in [Threads -> 0 .. MaxGen]
  BY Bounds DEF TypeOK, CamTypes, LocTypes
<1>1. gen'[c] \in {gen[c], expGen'}
  <2> USE DEF Threads
  <2>1. CASE StartClaim(c)
    BY <2>1 DEF StartClaim
  <2>2. CASE ~StartClaim(c)
    BY <2>2 DEF ControllerMove, ControllerStep, Common, DeadCheck, TakeStream, DropStream, ArmStop,
       ArmStart, Call, ArmRead, StartRelease, VideoBusy, VideoAbortRead, VideoClaim, StopMark,
       AbortRead, StopWrites, CloseCheck, TransportClose
  <2> QED BY <2>1, <2>2
<1>2. \A u \in Threads : u # c => gen'[u] = gen[u]
  BY ControllerAlone DEF Alone
<1>3. expGen' \in Nat /\ expGen <= expGen'
  BY ControllerOnward DEF Onward
<1> QED BY <1>1, <1>2, <1>3 DEF Known

\* A reader takes up the current generation, at its snapshot.
LEMMA ReaderKnown ==
  ASSUME TypeOK, Known, NEW r \in Readers, ReaderMove(r)
  PROVE  Known'
<1> expGen \in Nat /\ gen \in [Threads -> 0 .. MaxGen] /\ r \in Threads
  BY Bounds DEF TypeOK, CamTypes, LocTypes, Threads
<1>1. gen'[r] \in {gen[r], expGen}
  <2>1. CASE Snapshot(r)
    BY <2>1 DEF Snapshot
  <2>2. CASE Common(r) \/ WorkerStep(r) \/ \E o \in ReaderOps : Call(r, o)
    BY <2>2 DEF Common, DeadCheck, TakeStream, DropStream, ArmStop, ArmStart, Call, WorkerStep,
       Integrate, WorkerShort, LadderReread, LadderReset, LadderGiveUp, LadderShort, WorkerHalt,
       WorkerErr, Fail, Probe, Accept, RejectDesynced
  <2>3. CASE Arrival(r) \/ Deadline(r) \/ ReadBroken(r) \/ ReadDone(r) \/ BeginRead(r)
    BY <2>3 DEF Arrival, Deadline, ReadFull, ReadTimeout, NextFrame, NextTimeout, EndRead,
             LeaveNext, ReadBroken, ReadDone, BeginRead
  <2>4. CASE Attempt(r) \/ NextAttempt(r) \/ Recover(r) \/ Rearmed(r) \/ GiveUp(r) \/ BusReset(r)
    BY <2>4 DEF Attempt, NextAttempt, Recover, Rearmed, GiveUp, BusReset
  <2>5. CASE FrameLook(r) \/ FrameOpen(r) \/ FrameAdopt(r) \/ FrameNext(r) \/ NextBroken(r)
    BY <2>5 DEF FrameLook, FrameOpen, FrameAdopt, FrameNext, NextBroken, LeaveNext
  <2> QED BY <2>1, <2>2, <2>3, <2>4, <2>5 DEF ReaderMove, ReaderStep
<1>2. \A u \in Threads : u # r => gen'[u] = gen[u]
  BY ReaderAlone DEF Alone
<1>3. expGen' = expGen
  BY ReaderOnward
<1> QED BY <1>1, <1>2, <1>3 DEF Known

-----------------------------------------------------------------------------
(* PromptAbort.  Every loop of a capture passes a check of its generation, so *)
(* once it is aborted it goes from its read to its return along WayOut.      *)

\* Thread r is past the snapshot of a GetDataAfterExp.
InCapture(r) == op[r] = "data" /\ pc[r] \notin {"idle", "dead_check", "snapshot"}

\* Where a capture goes from the last read it waits in, once it is aborted.
WayOut == {"reading", "read_done", "short", "halt", "worker_err", "fail", "probe", "accept",
           "next_attempt", "attempt", "give_up", "bus_reset"}

\* After a read begun once aborted, capture r is on its way out and so reads no more.
LastReadOf(r) ==
  late[r] \in {0, 1} /\ (late[r] = 1 /\ InCapture(r) => AbortedGen(r) /\ pc[r] \in WayOut)

LastRead == \A r \in Readers : LastReadOf(r)

\* An aborted or superseded capture stays so.
LEMMA AbortStays ==
  ASSUME TypeOK, Known, Onward, NEW t \in Threads, AbortedGen(t), gen'[t] = gen[t]
  PROVE  AbortedGen(t)'
<1> expGen \in Nat /\ gen[t] \in 0 .. expGen
  BY Bounds DEF Known, TypeOK, CamTypes
<1> QED BY DEF Onward, AbortedGen

\* What other threads do keeps a reader on its way out.
LEMMA OthersLastRead ==
  ASSUME TypeOK, Known, LastRead, Onward, NEW t \in Threads, Alone(t), NEW r \in Readers, r # t
  PROVE  LastReadOf(r)'
<1>1. r \in Threads /\ UNCHANGED <<pc[r], op[r], gen[r], late[r]>>
  BY DEF Alone, Threads
<1>2. AbortedGen(r) => AbortedGen(r)'
  BY <1>1, AbortStays
<1> QED BY <1>1, <1>2 DEF LastRead, LastReadOf, InCapture

\* A reader's step from one place to another, if it leaves no way out.
LEMMA LastReadStep ==
  ASSUME TypeOK, LastRead, NEW r \in Readers, NEW from, NEW to, Goto(r, from, to),
         UNCHANGED <<expGen, expAborted, op, gen, late>>,
         \/ from \in WayOut /\ (op[r] = "data" /\ AbortedGen(r) => to \in WayOut \cup {"idle"})
         \/ from \in {"idle", "dead_check", "snapshot"} /\ to \in {"idle", "dead_check", "snapshot"}
         \/ from \notin WayOut /\ from \notin {"idle", "dead_check", "snapshot"}
         \/ op[r] # "data"
  PROVE  LastReadOf(r)'
<1>1. r \in Threads /\ pc[r] = from /\ pc'[r] = to
  BY DEF Goto, Threads, TypeOK, LocTypes
<1>2. AbortedGen(r)' = AbortedGen(r)
  BY DEF AbortedGen
<1> QED BY <1>1, <1>2 DEF LastRead, LastReadOf, InCapture, WayOut

\* Each step of the capture itself: a read begun after the abort is its last.
LEMMA ReaderLastRead ==
  ASSUME TypeOK, Known, LastRead, NEW r \in Readers, ReaderMove(r)
  PROVE  LastReadOf(r)'
<1> r \in Threads
  BY DEF Threads
<1> USE DEF camVars, histVars, WayOut
<1>1. CASE Snapshot(r)
  <2>1. CASE status = "working"
    <3>1. late'[r] = 0
      BY <2>1, <1>1 DEF Snapshot, TypeOK, HistTypes
    <3> QED BY <3>1 DEF LastReadOf
  <2>2. CASE status # "working"
    BY <1>1, <2>2, LastReadStep DEF Snapshot
  <2> QED BY <2>1, <2>2
<1>2. CASE BeginRead(r)
  <2>1. CASE latch \/ closed
    BY <1>2, <2>1, LastReadStep DEF BeginRead
  <2>2. CASE ~latch /\ ~closed
    <3>1. /\ Goto(r, "read", "reading") /\ UNCHANGED <<expGen, expAborted, op, gen>>
          /\ late' = [late EXCEPT ![r] = @ + (IF op[r] = "data" /\ AbortedGen(r) THEN 1 ELSE 0)]
      BY <1>2, <2>2 DEF BeginRead
    <3>2. pc[r] = "read" /\ pc'[r] = "reading" /\ AbortedGen(r)' = AbortedGen(r)
      BY <3>1 DEF Goto, TypeOK, LocTypes, AbortedGen
    <3>3. CASE op[r] = "data"
      <4>1. late[r] = 0
        BY <3>2, <3>3 DEF LastRead, LastReadOf, InCapture
      <4>2. late'[r] = IF AbortedGen(r) THEN 1 ELSE 0
        BY <3>1, <3>3, <4>1 DEF TypeOK, HistTypes
      <4> QED BY <3>2, <4>2 DEF LastReadOf
    <3>4. CASE op[r] # "data"
      <4>1. late[r] \in {0, 1} /\ late'[r] = late[r] + 0
        BY <3>1, <3>4 DEF TypeOK, HistTypes, LastRead, LastReadOf
      <4>2. late'[r] = late[r]
        BY <4>1
      <4> QED BY <3>1, <3>4, <4>1, <4>2 DEF LastReadOf, InCapture
    <3> QED BY <3>3, <3>4
  <2> QED BY <2>1, <2>2
<1>3. CASE DeadCheck(r) 
  BY <1>3, LastReadStep DEF DeadCheck
<1>4. CASE TakeStream(r) \/ DropStream(r) \/ ArmStop(r) \/ ArmStart(r)
  BY <1>4, LastReadStep DEF TakeStream, DropStream, ArmStop, ArmStart
<1>5. CASE \E o \in ReaderOps : Call(r, o)
  <2>1. PICK o \in ReaderOps : Call(r, o)
    BY <1>5
  <2>2. op'[r] = o /\ pc'[r] = EntryPoint(o) /\ late'[r] = late[r]
    BY <2>1 DEF Call, Goto, TypeOK, LocTypes
  <2>3. ~InCapture(r)'
    BY <2>2 DEF InCapture, EntryPoint
  <2> QED BY <2>2, <2>3 DEF LastRead, LastReadOf
<1>6. CASE ReadDone(r)
  BY <1>6, LastReadStep DEF ReadDone
<1>7. CASE ReadBroken(r) \/ ReadFull(r) \/ ReadTimeout(r)
  BY <1>7, LastReadStep DEF ReadBroken, ReadFull, ReadTimeout, EndRead
<1>8. CASE Integrate(r) \/ LadderReread(r) \/ LadderReset(r) \/ LadderGiveUp(r) \/ LadderShort(r)
  BY <1>8, LastReadStep DEF Integrate, LadderReread, LadderReset, LadderGiveUp, LadderShort
<1>9. CASE WorkerShort(r)
  BY <1>9, LastReadStep DEF WorkerShort
<1>10. CASE WorkerHalt(r)
  BY <1>10, LastReadStep DEF WorkerHalt
<1>11. CASE WorkerErr(r) \/ Fail(r) \/ Probe(r) \/ Accept(r) \/ RejectDesynced(r)
  BY <1>11, LastReadStep DEF WorkerErr, Fail, Probe, Accept, RejectDesynced
<1>12. CASE Attempt(r)
  BY <1>12, LastReadStep DEF Attempt
<1>13. CASE NextAttempt(r) \/ Recover(r) \/ Rearmed(r) \/ GiveUp(r) \/ BusReset(r)
  BY <1>13, LastReadStep DEF NextAttempt, Recover, Rearmed, GiveUp, BusReset
<1>14. CASE FrameLook(r) \/ FrameOpen(r) \/ FrameAdopt(r) \/ FrameNext(r)
  BY <1>14, LastReadStep DEF FrameLook, FrameOpen, FrameAdopt, FrameNext
<1>15. CASE NextBroken(r) \/ NextFrame(r) \/ NextTimeout(r)
  BY <1>15, LastReadStep DEF NextBroken, NextFrame, NextTimeout, LeaveNext
<1> QED BY <1>1, <1>2, <1>3, <1>4, <1>5, <1>6, <1>7, <1>8, <1>9, <1>10, <1>11, <1>12, <1>13,
           <1>14, <1>15
        DEF ReaderMove, ReaderStep, Common, WorkerStep, Arrival, Deadline

\* LastRead, with Known, is inductive.
LEMMA NextLastRead ==
  ASSUME TypeOK, Known, LastRead, [Next]_vars
  PROVE  Known' /\ LastRead'
<1>1. CASE UNCHANGED vars \/ FirmwareDrop
  BY <1>1 DEF vars, FirmwareDrop, camVars, locVars, histVars, Known, LastRead, LastReadOf,
              InCapture, AbortedGen
<1>2. CASE \E c \in Controllers : ControllerMove(c)
  <2>1. PICK c \in Controllers : ControllerMove(c)
    BY <1>2
  <2>2. c \in Threads /\ \A r \in Readers : r # c
    BY CaptureAssumption DEF CaptureAssumption, Threads
  <2> QED BY <2>1, <2>2, ControllerKnown, ControllerAlone, ControllerOnward, OthersLastRead DEF LastRead
<1>3. CASE \E r \in Readers : ReaderMove(r)
  <2>1. PICK r \in Readers : ReaderMove(r)
    BY <1>3
  <2>2. r \in Threads
    BY DEF Threads
  <2>3. Onward
    BY <2>1, ReaderOnward DEF Onward
  <2> QED BY <2>1, <2>2, <2>3, ReaderKnown, ReaderAlone, ReaderLastRead, OthersLastRead DEF LastRead
<1> QED BY <1>1, <1>2, <1>3 DEF Next, ControllerMove, ReaderMove

\* An aborted or superseded capture begins at most one more frame read, for any number of
\* threads and attempts, with or without a Worker: no stop waits out a retry ladder.
THEOREM AbortsPromptly == Spec => []PromptAbort
<1>1. Init => Known /\ LastRead
  BY DEF Init, Known, LastRead, LastReadOf, InCapture, Threads
<1>2. LastRead => PromptAbort
  BY DEF LastRead, LastReadOf, PromptAbort
<1> QED BY <1>1, <1>2, NextLastRead, TypeCorrect, PTL DEF Spec

-----------------------------------------------------------------------------
(* DeliveredOnce.  One reader, so no capture of an exposure is left when its *)
(* frame is delivered.                                                       *)

\* One thread reads the frames.
SoleReader == \A r, q \in Readers : r = q

\* A reader that is in no GetDataAfterExp is at a place of ReadFrame, or in no call.
\* ReadFrame's own steps before its read, and all the steps it takes.
OpenPlaces  == {"frame_look", "frame_open", "adopt", "next", "in_next"}
FramePlaces == OpenPlaces \cup {"read", "reading", "read_done"}

\* A reader is idle, in ReadFrame or in GetDataAfterExp, and never at a step of the other.
PathOf(r) ==
  \/ pc[r] = "idle"
  \/ op[r] = "frame" /\ pc[r] \in FramePlaces
  \/ op[r] = "data" /\ pc[r] \notin OpenPlaces

\* Exposure g, once delivered, is over: no capture of it is left and, while it is the
\* current one, it is not working, so no later call finds a frame of it ready.
Consumed(g) ==
  delivered[g] # 0 =>
    /\ delivered[g] = 1 /\ g <= expGen
    /\ g = expGen => status # "working"
    /\ \A r \in Readers : InCapture(r) => gen[r] # g

OnceInv ==
  /\ \A r \in Readers : PathOf(r)
  /\ \A g \in 1 .. MaxGen : Consumed(g)

\* A reader stays on the path of its call.
LEMMA FramePath ==
  ASSUME TypeOK, NEW r \in Readers, PathOf(r), ReaderMove(r)
  PROVE  PathOf(r)'
<1> r \in Threads
  BY DEF Threads
<1> USE DEF PathOf, Goto, TypeOK, LocTypes, FramePlaces, OpenPlaces
<1>1. CASE Common(r)
  BY <1>1 DEF Common, DeadCheck, TakeStream, DropStream, ArmStop, ArmStart, AfterDrop, ArmOk, ArmErr
<1>2. CASE \E o \in ReaderOps : Call(r, o)
  <2>1. PICK o \in ReaderOps : Call(r, o)
    BY <1>2
  <2>2. o \in {"data", "frame"}
    BY CaptureAssumption DEF CaptureAssumption, AllReaderOps
  <2> QED BY <2>1, <2>2 DEF Call, EntryPoint
<1>3. CASE WorkerStep(r)
  BY <1>3 DEF WorkerStep, Integrate, WorkerShort, LadderReread, LadderReset, LadderGiveUp,
             LadderShort, WorkerHalt, WorkerErr, Fail, Probe, Accept, RejectDesynced
<1>4. CASE Arrival(r) \/ Deadline(r) \/ ReadBroken(r) \/ BeginRead(r)
  BY <1>4 DEF Arrival, Deadline, ReadFull, ReadTimeout, NextFrame, NextTimeout, EndRead,
             LeaveNext, ReadBroken, BeginRead
<1>5. CASE ReadDone(r) \/ Snapshot(r)
  BY <1>5 DEF ReadDone, Snapshot
<1>6. CASE Attempt(r) \/ NextAttempt(r) \/ Recover(r) \/ Rearmed(r) \/ GiveUp(r) \/ BusReset(r)
  BY <1>6 DEF Attempt, NextAttempt, Recover, Rearmed, GiveUp, BusReset
<1>7. CASE FrameLook(r) \/ FrameOpen(r) \/ FrameAdopt(r) \/ FrameNext(r) \/ NextBroken(r)
  BY <1>7 DEF FrameLook, FrameOpen, FrameAdopt, FrameNext, NextBroken, LeaveNext
<1> QED BY <1>1, <1>2, <1>3, <1>4, <1>5, <1>6, <1>7 DEF ReaderMove, ReaderStep

\* A controller delivers nothing, and makes working only a fresh generation.
LEMMA ControllerOnce ==
  ASSUME TypeOK, OnceInv, NEW c \in Controllers, ControllerMove(c)
  PROVE  OnceInv'
<1> expGen \in Nat
  BY Bounds DEF TypeOK, CamTypes
<1>1. \A r \in Readers : UNCHANGED <<pc[r], op[r], gen[r]>>
  BY ControllerAlone, CaptureAssumption DEF Alone, Threads, CaptureAssumption
<1>2. /\ UNCHANGED delivered
      /\ \/ expGen' = expGen + 1
         \/ expGen' = expGen /\ (status' = "working" => status = "working")
  <2> USE DEF camVars, histVars, SetStatusIfGen
  <2>1. CASE Common(c) \/ \E o \in ControllerOps : Call(c, o)
    BY <2>1 DEF Common, DeadCheck, TakeStream, DropStream, ArmStop, ArmStart, Call
  <2>2. CASE StartClaim(c) \/ ArmRead(c) \/ StartRelease(c)
    BY <2>2 DEF StartClaim, ArmRead, StartRelease
  <2>3. CASE VideoBusy(c) \/ VideoAbortRead(c) \/ VideoClaim(c)
    BY <2>3 DEF VideoBusy, VideoAbortRead, VideoClaim
  <2>4. CASE StopMark(c) \/ AbortRead(c) \/ StopWrites(c) \/ CloseCheck(c) \/ TransportClose(c)
    BY <2>4 DEF StopMark, AbortRead, StopWrites, CloseCheck, TransportClose
  <2> QED BY <2>1, <2>2, <2>3, <2>4 DEF ControllerMove, ControllerStep
<1>3. \A g \in 1 .. MaxGen : Consumed(g)'
  <2> SUFFICES ASSUME NEW g \in 1 .. MaxGen, delivered[g] # 0, Consumed(g)
               PROVE  Consumed(g)'
    BY <1>2 DEF OnceInv, Consumed
  <2> QED BY <1>1, <1>2 DEF Consumed, InCapture
<1> QED BY <1>1, <1>3 DEF OnceInv, PathOf

\* What a reader does short of accepting a frame, marking a re-armed exposure
\* working and the snapshot leaves what is consumed alone.
LEMMA QuietOnce ==
  ASSUME TypeOK, OnceInv, SoleReader, NEW r \in Readers, PathOf(r)',
         UNCHANGED <<expGen, op, gen, delivered>>, status' = "working" => status = "working",
         InCapture(r)' => InCapture(r)
  PROVE  OnceInv'
<1> \A q \in Readers : q = r
  BY DEF SoleReader
<1>1. \A g \in 1 .. MaxGen : Consumed(g)'
  BY DEF OnceInv, Consumed
<1> QED BY <1>1 DEF OnceInv

\* Each step of the reader: the accept that delivers a frame also ends its exposure.
LEMMA ReaderOnce ==
  ASSUME TypeOK, OnceInv, SoleReader, Known, NEW r \in Readers, ReaderMove(r)
  PROVE  OnceInv'
<1> r \in Threads /\ \A q \in Readers : q = r
  BY DEF Threads, SoleReader
<1>p. PathOf(r) /\ PathOf(r)'
  BY FramePath DEF OnceInv
<1>g. gen \in [Threads -> 0 .. MaxGen] /\ delivered \in [1 .. MaxGen -> Nat] /\ expGen \in 0 .. MaxGen
  BY DEF TypeOK, LocTypes, HistTypes, CamTypes
<1> USE DEF camVars, histVars, SetStatusIfGen, Goto, TypeOK, LocTypes
<1>1. CASE Snapshot(r)
  <2>1. CASE status = "working"
    <3>1. gen'[r] = expGen /\ UNCHANGED <<expGen, status, delivered>>
      BY <1>1, <1>g, <2>1 DEF Snapshot
    <3>2. ASSUME NEW g \in 1 .. MaxGen PROVE Consumed(g)'
      BY <2>1, <3>1 DEF OnceInv, Consumed
    <3> QED BY <1>p, <3>2 DEF OnceInv
  <2>2. CASE status # "working"
    BY <1>1, <1>p, <2>2, QuietOnce DEF Snapshot, InCapture
  <2> QED BY <2>1, <2>2
<1>2. CASE Accept(r)
  <2>1. InCapture(r) /\ ~InCapture(r)'
    BY <1>2, <1>p DEF Accept, PathOf, FramePlaces, OpenPlaces, InCapture
  <2>2. ASSUME NEW g \in 1 .. MaxGen PROVE Consumed(g)'
    <3>1. CASE g = gen[r]
      <4>1. delivered[g] = 0 /\ delivered'[g] = 1
        BY <1>2, <1>g, <2>1, <3>1 DEF Accept, OnceInv, Consumed
      <4>2. g <= expGen
        BY <3>1 DEF Known
      <4>3. g = expGen => status' # "working"
        BY <1>2, <3>1 DEF Accept
      <4> QED BY <1>2, <2>1, <4>1, <4>2, <4>3 DEF Accept, Consumed
    <3>2. CASE g # gen[r]
      <4>1. delivered'[g] = delivered[g]
        BY <1>2, <1>g, <3>2 DEF Accept
      <4> QED BY <1>2, <2>1, <4>1 DEF Accept, OnceInv, Consumed
    <3> QED BY <3>1, <3>2
  <2> QED BY <1>p, <2>2 DEF OnceInv
<1>3. CASE Rearmed(r)
  <2>1. InCapture(r)
    BY <1>3, <1>p DEF Rearmed, PathOf, FramePlaces, OpenPlaces, InCapture
  <2>2. ASSUME NEW g \in 1 .. MaxGen PROVE Consumed(g)'
    BY <1>3, <2>1 DEF Rearmed, OnceInv, Consumed, InCapture
  <2> QED BY <1>p, <2>2 DEF OnceInv
<1>4. CASE DeadCheck(r)
  BY <1>4, <1>p, QuietOnce DEF DeadCheck, InCapture
<1>5. CASE \E o \in ReaderOps : Call(r, o)
  <2>1. PICK o \in ReaderOps : Call(r, o)
    BY <1>5
  <2>2. ~InCapture(r)' /\ UNCHANGED <<expGen, status, delivered>>
    BY <2>1 DEF Call, InCapture, EntryPoint
  <2> QED BY <1>p, <2>2 DEF OnceInv, Consumed
<1>6. CASE TakeStream(r) \/ DropStream(r) \/ ArmStop(r) \/ ArmStart(r)
  BY <1>6, <1>p, QuietOnce DEF TakeStream, DropStream, ArmStop, ArmStart, InCapture
<1>7. CASE BeginRead(r) \/ ReadBroken(r) \/ ReadDone(r) \/ Arrival(r) \/ Deadline(r)
  BY <1>7, <1>p, QuietOnce DEF BeginRead, ReadBroken, ReadDone, Arrival, Deadline, ReadFull, ReadTimeout,
     NextFrame, NextTimeout, EndRead, LeaveNext, InCapture
<1>8. CASE WorkerStep(r) /\ ~Accept(r)
  BY <1>8, <1>p, QuietOnce DEF WorkerStep, Integrate, WorkerShort, LadderReread, LadderReset, LadderGiveUp,
     LadderShort, WorkerHalt, WorkerErr, Fail, Probe, RejectDesynced, InCapture
<1>9. CASE Attempt(r) \/ NextAttempt(r) \/ Recover(r) \/ GiveUp(r) \/ BusReset(r)
  BY <1>9, <1>p, QuietOnce DEF Attempt, NextAttempt, Recover, GiveUp, BusReset, InCapture
<1>10. CASE FrameLook(r) \/ FrameOpen(r) \/ FrameAdopt(r) \/ FrameNext(r) \/ NextBroken(r)
  BY <1>10, <1>p, QuietOnce DEF FrameLook, FrameOpen, FrameAdopt, FrameNext, NextBroken, LeaveNext, InCapture
<1> QED BY <1>1, <1>2, <1>3, <1>4, <1>5, <1>6, <1>7, <1>8, <1>9, <1>10
        DEF ReaderMove, ReaderStep, Common

\* OnceInv, with Known, is inductive.
LEMMA NextOnce ==
  ASSUME TypeOK, OnceInv, SoleReader, Known, [Next]_vars
  PROVE  OnceInv'
<1>1. CASE UNCHANGED vars \/ FirmwareDrop
  BY <1>1 DEF vars, FirmwareDrop, camVars, locVars, histVars, OnceInv, Consumed, InCapture, PathOf
<1>2. CASE \E c \in Controllers : ControllerMove(c)
  BY <1>2, ControllerOnce
<1>3. CASE \E r \in Readers : ReaderMove(r)
  BY <1>3, ReaderOnce
<1> QED BY <1>1, <1>2, <1>3 DEF Next, ControllerMove, ReaderMove

\* A frame of one exposure reaches the one reader at most once, for any number of
\* controllers starting, stopping and superseding exposures meanwhile.
THEOREM EachFrameOnce ==
  ASSUME SoleReader
  PROVE  Spec => []DeliveredOnce
<1>1. Init => Known /\ LastRead
  BY DEF Init, Known, LastRead, LastReadOf, InCapture, Threads
<1>2. Init => OnceInv
  BY DEF Init, OnceInv, Consumed, PathOf, Threads
<1>3. TypeOK /\ OnceInv /\ Known /\ [Next]_vars => OnceInv'
  BY NextOnce
<1>4. TypeOK /\ OnceInv => DeliveredOnce
  BY DEF OnceInv, Consumed, DeliveredOnce
<1> QED BY <1>1, <1>2, <1>3, <1>4, NextLastRead, TypeCorrect, PTL DEF Spec

-----------------------------------------------------------------------------
(* NoDoubleArm.  The arm is written by whoever holds the claim, which goes   *)
(* from StartExposure to GetDataAfterExp and back to nobody.                 *)

\* A StartExposure between its claim and its return.
StartPlaces == {"take", "drop", "arm_read", "arm_stop", "arm_start", "release"}

\* A GetDataAfterExp that still holds the claim it reads for.
ReadPlaces == {"attempt", "next_attempt", "recover", "arm_stop", "arm_start", "rearmed", "read",
               "reading", "read_done", "accept", "give_up", "integrate", "short", "ladder",
               "halt", "worker_err", "fail"}

\* Thread t holds the claim.
Holds(t) ==
  \/ t \in Controllers /\ pc[t] \in StartPlaces
  \/ t \in Readers /\ op[t] = "data" /\ pc[t] \in ReadPlaces

\* The steps of a controller that only starts single shots.
OnStartPath(c) == pc[c] \in {"idle", "dead_check", "claim"} \cup StartPlaces
                  /\ (pc[c] # "idle" => op[c] = "start")

\* It is about to look for a claimed exposure.
Looking(r) == op[r] = "data" /\ pc[r] \in {"dead_check", "snapshot"}

\* One thread at most holds the claim, the claim is the current exposure's, and no
\* start is under way while a reader is about to look for it.
HoldInv ==
  /\ \A c \in Controllers : OnStartPath(c)
  /\ \A r \in Readers : PathOf(r)
  /\ \A t \in Threads : Holds(t) => status = "working" /\ gen[t] = expGen
  /\ \A t, u \in Threads : Holds(t) /\ Holds(u) => t = u
  /\ \A r \in Readers : Looking(r) => \A c \in Controllers : pc[c] = "idle"

\* The callers the property is about: they start single shots one after the other
\* or together, and one thread reads what was started.
OneShotCallers == ControllerOps = {"start"} /\ PatientCallers /\ SoleReader

\* What a step of one thread owes the invariant.
LEMMA HoldStep ==
  ASSUME TypeOK, HoldInv, NEW t \in Threads,
         \A u \in Threads : u # t => UNCHANGED <<pc[u], op[u], gen[u]>>,
         t \in Controllers => OnStartPath(t)',
         t \in Readers => PathOf(t)',
         Holds(t)' => /\ status' = "working" /\ gen'[t] = expGen'
                      /\ \A u \in Threads : Holds(u) => u = t,
         \A u \in Threads : u # t /\ Holds(u) => UNCHANGED <<status, expGen>>,
         t \in Readers /\ Looking(t)' => \A c \in Controllers : pc[c] = "idle",
         t \in Controllers /\ pc'[t] # "idle" => \A r \in Readers : ~Looking(r)
  PROVE  HoldInv'
<1> Controllers \subseteq Threads /\ Readers \subseteq Threads /\ Controllers \cap Readers = {}
  BY CaptureAssumption DEF Threads, CaptureAssumption
<1>1. \A u \in Threads : u # t => (Holds(u)' <=> Holds(u)) /\ (Looking(u)' <=> Looking(u))
  BY DEF Holds, Looking
<1>2. \A c \in Controllers : OnStartPath(c)'
  BY DEF HoldInv, OnStartPath
<1>3. \A r \in Readers : PathOf(r)'
  BY DEF HoldInv, PathOf
<1>4. \A u \in Threads : Holds(u)' => status' = "working" /\ gen'[u] = expGen'
  BY <1>1 DEF HoldInv
<1>5. \A u, v \in Threads : Holds(u)' /\ Holds(v)' => u = v
  BY <1>1 DEF HoldInv
<1>6. ASSUME NEW r \in Readers, Looking(r)', NEW c \in Controllers
      PROVE  pc'[c] = "idle"
  <2>1. CASE t = r
    BY <1>6, <2>1
  <2>2. CASE t = c
    BY <1>1, <1>6, <2>2
  <2>3. CASE t # r /\ t # c
    BY <1>1, <1>6, <2>3 DEF HoldInv
  <2> QED BY <2>1, <2>2, <2>3
<1> QED BY <1>2, <1>3, <1>4, <1>5, <1>6 DEF HoldInv

\* StartExposure takes the claim when nobody has it.
LEMMA ControllerHold ==
  ASSUME TypeOK, HoldInv, OneShotCallers, NEW c \in Controllers, ControllerMove(c)
  PROVE  HoldInv'
<1> c \in Threads /\ c \notin Readers /\ expGen \in Nat
  BY CaptureAssumption, Bounds DEF Threads, CaptureAssumption, TypeOK, CamTypes
<1>1. \A u \in Threads : u # c => UNCHANGED <<pc[u], op[u], gen[u]>>
  BY ControllerAlone DEF Alone
<1>2. OnStartPath(c)
  BY DEF HoldInv
<1>3. pc[c] # "idle" => \A r \in Readers : ~Looking(r)
  BY DEF HoldInv
<1>4. Holds(c) => /\ status = "working" /\ gen[c] = expGen
                  /\ \A u \in Threads : Holds(u) => u = c
  BY DEF HoldInv
<1> USE DEF Goto, OnStartPath, Holds, StartPlaces, TypeOK, LocTypes, camVars
<1>a. CASE \E o \in ControllerOps : Call(c, o)
  <2>1. Call(c, "start")
    BY <1>a DEF OneShotCallers
  <2>2. pc[c] = "idle" /\ pc'[c] = "dead_check" /\ op'[c] = "start" /\ UNCHANGED <<status, expGen, gen>>
    BY <2>1 DEF Call, EntryPoint
  <2>3. \A r \in Readers : ~Looking(r)
    BY <2>1 DEF Call, MayCall, OneShotCallers, Looking
  <2> QED BY <1>1, <2>2, <2>3, HoldStep
<1>b. CASE DeadCheck(c)
  BY <1>1, <1>2, <1>3, <1>4, <1>b, HoldStep DEF DeadCheck
<1>c. CASE StartClaim(c)
  <2>1. CASE status = "working"
    BY <1>1, <1>2, <1>3, <1>4, <1>c, <2>1, HoldStep DEF StartClaim
  <2>2. CASE status # "working"
    <3>1. \A u \in Threads : ~Holds(u)
      BY <2>2 DEF HoldInv
    <3>2. pc'[c] = "take" /\ status' = "working" /\ gen'[c] = expGen' /\ op' = op
      BY <1>c, <2>2 DEF StartClaim
    <3> QED BY <1>1, <1>2, <1>3, <1>c, <3>1, <3>2, HoldStep DEF StartClaim
  <2> QED BY <2>1, <2>2
<1>d. CASE TakeStream(c) \/ DropStream(c)
  BY <1>1, <1>2, <1>3, <1>4, <1>d, HoldStep DEF TakeStream, DropStream, AfterDrop
<1>e. CASE ArmRead(c)
  BY <1>1, <1>2, <1>3, <1>4, <1>e, HoldStep DEF ArmRead
<1>f. CASE ArmStop(c)
  BY <1>1, <1>2, <1>3, <1>4, <1>f, HoldStep DEF ArmStop, ArmErr
<1>g. CASE ArmStart(c)
  BY <1>1, <1>2, <1>3, <1>4, <1>g, HoldStep DEF ArmStart, ArmErr, ArmOk
<1>h. CASE StartRelease(c)
  BY <1>1, <1>2, <1>3, <1>4, <1>h, HoldStep DEF StartRelease
<1>i. CASE \/ VideoBusy(c) \/ VideoAbortRead(c) \/ VideoClaim(c) \/ StopMark(c) \/ AbortRead(c)
           \/ StopWrites(c) \/ CloseCheck(c) \/ TransportClose(c)
  BY <1>2, <1>i DEF VideoBusy, VideoAbortRead, VideoClaim, StopMark, AbortRead, StopWrites,
                    CloseCheck, TransportClose
<1> QED BY <1>a, <1>b, <1>c, <1>d, <1>e, <1>f, <1>g, <1>h, <1>i
        DEF ControllerMove, ControllerStep, Common

\* GetDataAfterExp takes the claim over once StartExposure has returned, keeps it
\* through its recoveries and gives it up before it returns.
LEMMA ReaderHold ==
  ASSUME TypeOK, HoldInv, OneShotCallers, NEW r \in Readers, ReaderMove(r)
  PROVE  HoldInv'
<1> r \in Threads /\ r \notin Controllers
  BY CaptureAssumption DEF Threads, CaptureAssumption
<1>1. \A u \in Threads : u # r => UNCHANGED <<pc[u], op[u], gen[u]>>
  BY ReaderAlone DEF Alone
<1>2. PathOf(r) /\ PathOf(r)'
  BY FramePath DEF HoldInv
<1>3. Looking(r) => \A c \in Controllers : pc[c] = "idle"
  BY DEF HoldInv
<1>4. Holds(r) => /\ status = "working" /\ gen[r] = expGen
                  /\ \A u \in Threads : Holds(u) => u = r
  BY DEF HoldInv
<1>5. \A q \in Readers : q = r
  BY DEF OneShotCallers, SoleReader
<1> USE DEF Goto, Holds, ReadPlaces, TypeOK, LocTypes, camVars, SetStatusIfGen
<1>a. CASE \E o \in ReaderOps : Call(r, o)
  <2>1. PICK o \in ReaderOps : Call(r, o)
    BY <1>a
  <2>2. pc'[r] = EntryPoint(o) /\ op'[r] = o /\ UNCHANGED <<status, expGen>>
    BY <2>1 DEF Call
  <2>3. ~Holds(r)'
    BY <2>2 DEF EntryPoint
  <2>4. Looking(r)' => \A c \in Controllers : pc[c] = "idle"
    <3>1. o = "data" => Claiming = {}
      BY <2>1 DEF Call, MayCall, OneShotCallers
    <3>2. \A c \in Controllers : pc[c] # "idle" => c \in Claiming
      BY DEF Claiming, HoldInv, OnStartPath
    <3> QED BY <2>2, <3>1, <3>2 DEF Looking
  <2> QED BY <1>1, <1>2, <2>2, <2>3, <2>4, HoldStep
<1>b. CASE DeadCheck(r)
  BY <1>1, <1>2, <1>3, <1>4, <1>b, HoldStep DEF DeadCheck, Looking
<1>c. CASE Snapshot(r)
  <2>1. CASE status = "working"
    <3>1. op[r] # "data" => FALSE
      BY <1>2, <1>c DEF Snapshot, PathOf, FramePlaces, OpenPlaces
    <3>2. \A u \in Threads : Holds(u) => u = r
      BY <1>3, <1>5, <1>c, <3>1 DEF Snapshot, Looking, Threads, StartPlaces
    <3>3. gen'[r] = expGen /\ UNCHANGED <<status, expGen>> /\ pc'[r] \in {"arm_stop", "attempt"}
      BY <1>c, <2>1 DEF Snapshot
    <3> QED BY <1>1, <1>2, <2>1, <3>2, <3>3, HoldStep DEF Looking
  <2>2. CASE status # "working"
    BY <1>1, <1>2, <1>3, <1>4, <1>c, <2>2, HoldStep DEF Snapshot, Looking
  <2> QED BY <2>1, <2>2
<1>d. CASE TakeStream(r) \/ DropStream(r)
  BY <1>1, <1>2, <1>3, <1>4, <1>d, HoldStep DEF TakeStream, DropStream, Looking, FramePlaces, OpenPlaces, PathOf, AfterDrop
<1>e. CASE ArmStop(r) \/ ArmStart(r)
  BY <1>1, <1>2, <1>3, <1>4, <1>e, HoldStep DEF ArmStop, ArmStart, ArmErr, ArmOk, Looking
<1>f. CASE BeginRead(r) \/ ReadBroken(r) \/ Arrival(r) \/ Deadline(r)
  BY <1>1, <1>2, <1>3, <1>4, <1>f, HoldStep DEF BeginRead, ReadBroken, Arrival, Deadline, ReadFull,
     ReadTimeout, NextFrame, NextTimeout, EndRead, LeaveNext, Looking
<1>g. CASE ReadDone(r)
  BY <1>1, <1>2, <1>3, <1>4, <1>g, HoldStep DEF ReadDone, Looking
<1>h. CASE Integrate(r) \/ WorkerShort(r) \/ LadderReread(r) \/ LadderReset(r) \/ LadderGiveUp(r) \/ LadderShort(r)
  BY <1>1, <1>2, <1>3, <1>4, <1>h, HoldStep DEF Integrate, WorkerShort, LadderReread, LadderReset, LadderGiveUp,
     LadderShort, Looking
<1>i. CASE WorkerHalt(r) \/ WorkerErr(r) \/ Probe(r)
  BY <1>1, <1>2, <1>3, <1>4, <1>i, HoldStep DEF WorkerHalt, WorkerErr, Probe, Looking
<1>j. CASE Fail(r) \/ Accept(r) \/ RejectDesynced(r) \/ GiveUp(r)
  BY <1>1, <1>2, <1>3, <1>4, <1>j, HoldStep DEF Fail, Accept, RejectDesynced, GiveUp, Looking, PathOf, FramePlaces, OpenPlaces
<1>k. CASE Attempt(r) \/ NextAttempt(r) \/ Recover(r) \/ BusReset(r)
  BY <1>1, <1>2, <1>3, <1>4, <1>k, HoldStep DEF Attempt, NextAttempt, Recover, BusReset, Looking
<1>l. CASE Rearmed(r)
  BY <1>1, <1>2, <1>3, <1>4, <1>l, HoldStep DEF Rearmed, Looking, PathOf, FramePlaces, OpenPlaces
<1>m. CASE FrameLook(r) \/ FrameOpen(r) \/ FrameAdopt(r) \/ FrameNext(r) \/ NextBroken(r)
  <2>1. op[r] # "data"
    BY <1>m, <1>2 DEF PathOf, OpenPlaces, FrameLook, FrameOpen, FrameAdopt, FrameNext, NextBroken,
                      LeaveNext
  <2>2. pc'[r] \in {"frame_open", "next", "read", "adopt", "in_next", "idle"}
        /\ UNCHANGED <<status, expGen, gen, op>>
    BY <1>m DEF FrameLook, FrameOpen, FrameAdopt, FrameNext, NextBroken, LeaveNext
  <2> QED BY <1>1, <1>2, <2>1, <2>2, HoldStep DEF Looking
<1> QED BY <1>a, <1>b, <1>c, <1>d, <1>e, <1>f, <1>g, <1>h, <1>i, <1>j, <1>k, <1>l, <1>m
        DEF ReaderMove, ReaderStep, Common, WorkerStep, Arrival, Deadline
\* HoldInv is inductive.
LEMMA NextHold ==
  ASSUME TypeOK, HoldInv, OneShotCallers, [Next]_vars
  PROVE  HoldInv'
<1>1. CASE UNCHANGED vars \/ FirmwareDrop
  BY <1>1 DEF vars, FirmwareDrop, camVars, locVars, HoldInv, Holds, Looking, PathOf, OnStartPath
<1>2. CASE \E c \in Controllers : ControllerMove(c)
  BY <1>2, ControllerHold
<1>3. CASE \E r \in Readers : ReaderMove(r)
  BY <1>3, ReaderHold
<1> QED BY <1>1, <1>2, <1>3 DEF Next, ControllerMove, ReaderMove

\* No two calls write the arm sequence at once, for any number of threads starting
\* single shots and one reading them, with or without a Worker, through every recovery.
THEOREM OneArms ==
  ASSUME OneShotCallers
  PROVE  Spec => []NoDoubleArm
<1>1. Init => HoldInv
  BY CaptureAssumption DEF Init, HoldInv, Holds, Looking, PathOf, OnStartPath, StartPlaces, ReadPlaces, Threads
<1>2. TypeOK /\ HoldInv /\ [Next]_vars => HoldInv'
  BY NextHold
<1>3. HoldInv => NoDoubleArm
  BY CaptureAssumption DEF HoldInv, NoDoubleArm, Arming, Holds, StartPlaces, ReadPlaces, Threads, PathOf, FramePlaces, OpenPlaces
<1> QED BY <1>1, <1>2, <1>3, TypeCorrect, PTL DEF Spec

-----------------------------------------------------------------------------
(* LiveClaimReadable.  The latch is raised by a stop only, after its mark,   *)
(* and an aborted capture is not working (AbortSticks).                      *)

\* A start past its claim that has not yet lowered the latch.
Lowering(c) == op[c] = "start" /\ pc[c] \in {"take", "drop", "arm_read"}

\* A StopExposure past its mark that has not yet raised it.
Raising(c) == \/ pc[c] = "abort_read"
              \/ pc[c] \in {"take", "drop"} /\ op[c] \notin {"start", "close"}

\* A raised latch belongs to an abort, or the start about to lower it is under way.
LatchInv ==
  /\ \A c \in Controllers : /\ pc[c] \notin {"video_busy", "video_abort", "video_claim"}
                            /\ pc[c] = "claim" => op[c] = "start"
                            /\ op[c] # "video"
                            /\ Raising(c) => expAborted
  /\ latch => expAborted \/ \E c \in Controllers : Lowering(c)

\* The one controller of these captures starts single shots only.
ShotController == (\A c, d \in Controllers : c = d) /\ "video" \notin ControllerOps

\* The one controller raises the latch only after its StopExposure marked the abort.
LEMMA ControllerLatch ==
  ASSUME TypeOK, LatchInv, ShotController, HasWorker, NEW c \in Controllers, ControllerMove(c)
  PROVE  LatchInv'
<1> c \in Threads
  BY DEF Threads
<1>1. \A d \in Controllers : d = c
  BY DEF ShotController
<1> USE DEF LatchInv, Lowering, Raising, Goto, TypeOK, LocTypes, camVars, usbVars
<1>a. CASE \E o \in ControllerOps : Call(c, o)
  <2>1. PICK o \in ControllerOps : Call(c, o)
    BY <1>a
  <2>2. o \in {"start", "stop", "close"}
    BY CaptureAssumption DEF CaptureAssumption, AllControllerOps, ShotController
  <2> QED BY <1>1, <2>1, <2>2 DEF Call, EntryPoint
<1>b. CASE DeadCheck(c) \/ StartClaim(c) \/ ArmRead(c) \/ StartRelease(c)
  BY <1>1, <1>b DEF DeadCheck, StartClaim, ArmRead, StartRelease
<1>c. CASE TakeStream(c) \/ DropStream(c)
  BY <1>1, <1>c DEF TakeStream, DropStream, AfterDrop
<1>d. CASE ArmStop(c) \/ ArmStart(c)
  BY <1>1, <1>d DEF ArmStop, ArmStart, ArmErr, ArmOk
<1>e. CASE VideoBusy(c) \/ VideoAbortRead(c) \/ VideoClaim(c)
  BY <1>e DEF VideoBusy, VideoAbortRead, VideoClaim
<1>f. CASE StopMark(c) \/ AbortRead(c) \/ StopWrites(c) \/ CloseCheck(c) \/ TransportClose(c)
  BY <1>1, <1>f DEF StopMark, AbortRead, StopWrites, CloseCheck, TransportClose
<1> QED BY <1>a, <1>b, <1>c, <1>d, <1>e, <1>f DEF ControllerMove, ControllerStep, Common

\* LatchInv is inductive.
LEMMA NextLatch ==
  ASSUME TypeOK, LatchInv, ShotController, HasWorker, [Next]_vars
  PROVE  LatchInv'
<1>1. CASE UNCHANGED vars \/ FirmwareDrop
  BY <1>1 DEF vars, FirmwareDrop, camVars, usbVars, locVars, LatchInv, Lowering, Raising
<1>2. CASE \E c \in Controllers : ControllerMove(c)
  BY <1>2, ControllerLatch
<1>3. CASE \E r \in Readers : ReaderMove(r)
  <2>1. \A c \in Controllers : UNCHANGED <<pc[c], op[c], gen[c]>>
    BY <1>3, CaptureAssumption, ReaderAlone DEF Alone, Threads, CaptureAssumption
  <2> QED BY <1>3, <2>1, ReaderOnward DEF LatchInv, Lowering, Raising
<1> QED BY <1>1, <1>2, <1>3 DEF Next, ControllerMove, ReaderMove

\* A claimed capture can be read, for any number of readers: once the one controller's
\* call has returned, a working exposure finds the abort latch down.
THEOREM ClaimReadable ==
  ASSUME HasWorker, ShotController
  PROVE  Spec => []LiveClaimReadable
<1>1. Init => LatchInv
  BY DEF Init, LatchInv, Lowering, Raising, Threads
<1>2. TypeOK /\ LatchInv /\ [Next]_vars => LatchInv'
  BY NextLatch
<1>3. LatchInv /\ AbortSticks => LiveClaimReadable
  BY DEF LatchInv, LiveClaimReadable, AbortSticks, Lowering, ControllersIdle
<1> QED BY <1>1, <1>2, <1>3, WorkerAbortSticks, TypeCorrect, PTL DEF Spec

-----------------------------------------------------------------------------
(* HaltedWhenQuiet.  A readout that runs outlives the thread that armed it,  *)
(* so the invariant names who will halt it.                                  *)

\* With a Worker no StartExposure arms, and each call keeps to its own steps.
CallPath(c) ==
  /\ pc[c] = "claim" => op[c] = "start"
  /\ pc[c] \in {"video_busy", "video_abort", "video_claim", "arm_stop", "arm_start"} => op[c] = "video"
  /\ pc[c] # "release"
  /\ pc[c] = "stop_mark" => op[c] \in {"stop", "close_stop"}

\* A thread that will halt the readout, or hand it to a free-run capture.
WillHalt(t) ==
  \/ /\ t \in Readers /\ op[t] = "data"
     /\ \/ pc[t] \in {"integrate", "read", "reading", "read_done", "short", "ladder", "halt"}
        \/ pc[t] \in {"arm_stop", "arm_start"} /\ att[t] > 0
  \/ /\ t \in Controllers
     /\ \/ pc[t] \in {"abort_read", "stop_writes", "video_claim"}
        \/ pc[t] \in {"take", "drop"} /\ op[t] \in {"stop", "close_stop"}

\* The readout is StartVideo's, which leaves it running on purpose.
FreeRuns == status = "working" /\ expGen \notin shots

\* A readout that runs is a free-run's, or some thread will halt it; and captures read
\* single shots only, so no capture's outcome takes the status from a free-run.
HaltInv ==
  /\ \A c \in Controllers : CallPath(c)
  /\ \A r \in Readers : PathOf(r)
  /\ shots \subseteq 1 .. expGen
  /\ ~fwOK => ~streaming
  /\ \A r \in Readers : InCapture(r) => gen[r] \in shots
  /\ \A r \in Readers : Looking(r) => Claiming = {} /\ expGen \in shots
  /\ streaming /\ ~closed => FreeRuns \/ \E t \in Threads : WillHalt(t)

\* What a step that claims nothing owes the invariant.
LEMMA HaltStep ==
  ASSUME TypeOK, HaltInv, NEW t \in Threads, Alone(t),
         t \in Controllers => CallPath(t)',
         t \in Readers => PathOf(t)',
         UNCHANGED <<shots, expGen, fwOK>>,
         t \in Readers /\ InCapture(t)' => gen'[t] \in shots,
         t \in Readers /\ Looking(t)' => Claiming = {} /\ expGen \in shots,
         t \in Controllers /\ pc'[t] # "idle" /\ op'[t] \in {"start", "video"} =>
           \/ pc[t] # "idle" /\ op[t] \in {"start", "video"}
           \/ \A r \in Readers : ~Looking(r),
         closed => closed',
         streaming' => streaming \/ (fwOK /\ WillHalt(t)'),
         ~closed' /\ streaming' /\ WillHalt(t) => WillHalt(t)',
         ~closed' /\ streaming' /\ FreeRuns => status' = "working" \/ WillHalt(t)'
  PROVE  HaltInv'
<1> Controllers \subseteq Threads /\ Readers \subseteq Threads /\ Controllers \cap Readers = {}
  BY CaptureAssumption DEF Threads, CaptureAssumption
<1>1. \A u \in Threads : u # t => /\ WillHalt(u)' <=> WillHalt(u)
                                  /\ Looking(u)' <=> Looking(u)
                                  /\ InCapture(u)' <=> InCapture(u)
  BY DEF WillHalt, Looking, InCapture, Alone
<1>2. \A c \in Controllers : CallPath(c)'
  BY DEF HaltInv, CallPath, Alone
<1>3. \A r \in Readers : PathOf(r)'
  BY DEF HaltInv, PathOf, Alone
<1>4. shots' \subseteq 1 .. expGen' /\ (~fwOK' => ~streaming')
  BY DEF HaltInv
<1>5. \A r \in Readers : InCapture(r)' => gen'[r] \in shots'
  BY <1>1 DEF HaltInv, Alone
<1>6. ASSUME NEW r \in Readers, Looking(r)'
      PROVE  Claiming' = {} /\ expGen' \in shots'
  <2>1. Claiming = {} /\ expGen \in shots
    BY <1>1, <1>6 DEF HaltInv
  <2>2. t \in Controllers => Looking(r)
    BY <1>1, <1>6
  <2>3. \A c \in Controllers : c \notin Claiming'
    BY <2>1, <2>2 DEF Claiming, Alone
  <2> QED BY <2>1, <2>3 DEF Claiming
<1>7. ASSUME streaming', ~closed'
      PROVE  FreeRuns' \/ \E u \in Threads : WillHalt(u)'
  BY <1>1, <1>7 DEF HaltInv, FreeRuns
<1> QED BY <1>2, <1>3, <1>4, <1>5, <1>6, <1>7 DEF HaltInv

\* A controller stays on the path of its call.
LEMMA ControllerPath ==
  ASSUME HasWorker, TypeOK, NEW c \in Controllers, CallPath(c), ControllerMove(c)
  PROVE  CallPath(c)'
<1> c \in Threads
  BY DEF Threads
<1> USE DEF CallPath, Goto, TypeOK, LocTypes
<1>1. CASE DeadCheck(c) \/ TakeStream(c) \/ DropStream(c)
  BY <1>1 DEF DeadCheck, TakeStream, DropStream, AfterDrop
<1>2. CASE ArmStop(c) \/ ArmStart(c)
  BY <1>2 DEF ArmStop, ArmStart, ArmErr, ArmOk
<1>3. CASE \E o \in ControllerOps : Call(c, o)
  <2>1. PICK o \in ControllerOps : Call(c, o)
    BY <1>3
  <2>2. o \in {"start", "video", "stop", "close"}
    BY CaptureAssumption DEF CaptureAssumption, AllControllerOps
  <2> QED BY <2>1, <2>2 DEF Call, EntryPoint
<1>4. CASE StartClaim(c) \/ ArmRead(c) \/ StartRelease(c) \/ VideoBusy(c) \/ VideoAbortRead(c) \/ VideoClaim(c)
  BY <1>4 DEF StartClaim, ArmRead, StartRelease, VideoBusy, VideoAbortRead, VideoClaim
<1>5. CASE StopMark(c) \/ AbortRead(c) \/ StopWrites(c) \/ CloseCheck(c) \/ TransportClose(c)
  BY <1>5 DEF StopMark, AbortRead, StopWrites, CloseCheck, TransportClose
<1> QED BY <1>1, <1>2, <1>3, <1>4, <1>5 DEF ControllerMove, ControllerStep, Common

\* A stop takes the readout over from the capture or the free-run it ends.
LEMMA ControllerHalt ==
  ASSUME HasWorker, PatientCallers, TypeOK, HaltInv, NEW c \in Controllers, ControllerMove(c)
  PROVE  HaltInv'
<1> c \in Threads /\ c \notin Readers /\ expGen \in Nat
  BY CaptureAssumption, Bounds DEF Threads, CaptureAssumption, TypeOK, CamTypes
<1>1. Alone(c)
  BY ControllerAlone
<1>2. CallPath(c) /\ CallPath(c)'
  BY ControllerPath DEF HaltInv
<1>3. (~fwOK => ~streaming)
  BY DEF HaltInv
<1>4. pc[c] \in {"claim", "video_claim"} => \A r \in Readers : ~Looking(r)
  BY <1>2 DEF HaltInv, CallPath, Claiming
<1>a. CASE \E o \in ControllerOps : Call(c, o)
  <2>1. PICK o \in ControllerOps : Call(c, o)
    BY <1>a
  <2>2. o \in {"start", "video"} => \A r \in Readers : ~Looking(r)
    BY <2>1 DEF Call, MayCall, Looking
  <2> QED BY <1>1, <1>2, <2>1, <2>2, HaltStep
          DEF Call, Goto, TypeOK, LocTypes, WillHalt, FreeRuns, camVars, usbVars, devVars, histVars
<1>b. CASE DeadCheck(c) \/ TakeStream(c) \/ DropStream(c)
  BY <1>1, <1>2, <1>b, HaltStep DEF DeadCheck, TakeStream, DropStream, AfterDrop,
     Goto, TypeOK, LocTypes, WillHalt, FreeRuns, camVars, usbVars, devVars, histVars
<1>c. CASE ArmStop(c) \/ ArmStart(c)
  BY <1>1, <1>2, <1>c, HaltStep DEF ArmStop, ArmStart, ArmErr, ArmOk, CallPath, DeviceAnswers,
     Goto, TypeOK, LocTypes, DevTypes, WillHalt, FreeRuns, camVars, usbVars, devVars, histVars
<1>d. CASE \/ ArmRead(c) \/ StartRelease(c) \/ VideoBusy(c) \/ VideoAbortRead(c) \/ StopMark(c)
           \/ AbortRead(c) \/ CloseCheck(c) \/ TransportClose(c)
  BY <1>1, <1>2, <1>d, HaltStep DEF ArmRead, StartRelease, VideoBusy, VideoAbortRead, StopMark, AbortRead,
     CloseCheck, TransportClose, CallPath,
     Goto, TypeOK, LocTypes, WillHalt, FreeRuns, camVars, usbVars, devVars, histVars
<1>e. CASE StopWrites(c)
  BY <1>1, <1>2, <1>3, <1>e, HaltStep DEF StopWrites, DeviceAnswers,
     Goto, TypeOK, LocTypes, WillHalt, FreeRuns, camVars, usbVars, devVars, histVars
<1>f. CASE StartClaim(c) /\ status = "working"
  BY <1>1, <1>2, <1>f, HaltStep DEF StartClaim, 
     Goto, TypeOK, LocTypes, WillHalt, FreeRuns, camVars, usbVars, devVars, histVars
<1>g. CASE \/ StartClaim(c) /\ status # "working"
           \/ VideoClaim(c)
  <2>1. expGen' = expGen + 1 /\ status' = "working" /\ shots \subseteq shots' /\ shots' \subseteq shots \cup {expGen + 1}
    BY <1>g DEF StartClaim, VideoClaim, histVars
  <2>2. shots' \subseteq 1 .. expGen'
    BY <2>1 DEF HaltInv
  <2>3. UNCHANGED <<streaming, fwOK, closed>>
    BY <1>g DEF StartClaim, VideoClaim, devVars, usbVars
  <2>4. \A r \in Readers : UNCHANGED <<pc[r], op[r], gen[r], att[r]>>
    BY <1>1 DEF Alone, Threads
  <2>5. \A r \in Readers : PathOf(r)' /\ ~Looking(r)' /\ (InCapture(r)' => gen'[r] \in shots')
    BY <1>4, <1>g, <2>1, <2>4 DEF HaltInv, PathOf, Looking, InCapture, StartClaim, VideoClaim, Goto
  <2>6. \A d \in Controllers : CallPath(d)'
    BY <1>1, <1>2 DEF HaltInv, CallPath, Alone, Threads
  <2>7. streaming' /\ ~closed' => FreeRuns' \/ \E t \in Threads : WillHalt(t)'
    <3>1. CASE VideoClaim(c)
      <4>1. shots' = shots
        BY <3>1 DEF VideoClaim, histVars
      <4>2. expGen + 1 \notin shots
        BY DEF HaltInv
      <4> QED BY <2>1, <4>1, <4>2 DEF FreeRuns
    <3>2. CASE StartClaim(c) /\ status # "working"
      <4>1. ~WillHalt(c) /\ ~FreeRuns
        BY <3>2 DEF StartClaim, Goto, WillHalt, FreeRuns
      <4>2. \A u \in Threads : u # c => (WillHalt(u)' <=> WillHalt(u))
        BY <1>1 DEF Alone, WillHalt
      <4> QED BY <2>3, <4>1, <4>2 DEF HaltInv
    <3> QED BY <1>g, <3>1, <3>2
  <2> QED BY <2>2, <2>3, <2>5, <2>6, <2>7 DEF HaltInv
<1> QED BY <1>a, <1>b, <1>c, <1>d, <1>e, <1>f, <1>g DEF ControllerMove, ControllerStep, Common

\* From a Worker's arm every way out of a capture leads through its halt.
LEMMA ReaderHalt ==
  ASSUME HasWorker, PatientCallers, TypeOK, HaltInv, NEW r \in Readers, ReaderMove(r)
  PROVE  HaltInv'
<1> r \in Threads /\ r \notin Controllers
  BY CaptureAssumption DEF Threads, CaptureAssumption
<1>1. Alone(r)
  BY ReaderAlone
<1>2. PathOf(r) /\ PathOf(r)'
  BY FramePath DEF HaltInv
<1>3. InCapture(r) => gen[r] \in shots
  BY DEF HaltInv
<1>4. Looking(r) => Claiming = {} /\ expGen \in shots
  BY DEF HaltInv
<1>5. ~fwOK => ~streaming
  BY DEF HaltInv
<1> USE DEF Goto, TypeOK, LocTypes, DevTypes, UsbTypes, WillHalt, FreeRuns, Looking, InCapture,
            camVars, usbVars, devVars, histVars, SetStatusIfGen
<1>a. CASE \E o \in ReaderOps : Call(r, o)
  <2>1. PICK o \in ReaderOps : Call(r, o)
    BY <1>a
  <2>2. o \in {"data", "frame"}
    BY CaptureAssumption DEF CaptureAssumption, AllReaderOps
  <2>3. o = "data" => Claiming = {} /\ expGen \in shots
    BY <2>1 DEF Call, MayCall
  <2> QED BY <1>1, <1>2, <2>1, <2>2, <2>3, HaltStep DEF Call, EntryPoint
<1>b. CASE DeadCheck(r) \/ TakeStream(r) \/ DropStream(r)
  BY <1>1, <1>2, <1>3, <1>4, <1>b, HaltStep
     DEF DeadCheck, TakeStream, DropStream, AfterDrop, PathOf, FramePlaces, OpenPlaces
<1>c. CASE ArmStop(r) \/ ArmStart(r)
  BY <1>1, <1>2, <1>3, <1>4, <1>c, HaltStep
     DEF ArmStop, ArmStart, ArmErr, ArmOk, DeviceAnswers, PathOf, FramePlaces, OpenPlaces
<1>d. CASE Snapshot(r)
  BY <1>1, <1>2, <1>3, <1>4, <1>d, HaltStep DEF Snapshot
<1>e. CASE BeginRead(r) \/ ReadBroken(r) \/ Arrival(r) \/ Deadline(r) \/ ReadDone(r)
  BY <1>1, <1>2, <1>3, <1>4, <1>e, HaltStep
     DEF BeginRead, ReadBroken, Arrival, Deadline, ReadFull, ReadTimeout, NextFrame, NextTimeout,
         EndRead, LeaveNext, ReadDone
<1>f. CASE Integrate(r) \/ WorkerShort(r) \/ LadderReread(r) \/ LadderReset(r)
           \/ LadderGiveUp(r) \/ LadderShort(r)
  BY <1>1, <1>2, <1>3, <1>4, <1>f, HaltStep
     DEF Integrate, WorkerShort, LadderReread, LadderReset, LadderGiveUp, LadderShort
<1>g. CASE WorkerHalt(r)
  BY <1>1, <1>2, <1>3, <1>4, <1>5, <1>g, HaltStep DEF WorkerHalt, DeviceAnswers
<1>h. CASE WorkerErr(r) \/ Fail(r) \/ Probe(r) \/ Accept(r) \/ RejectDesynced(r)
  BY <1>1, <1>2, <1>3, <1>4, <1>h, HaltStep
     DEF WorkerErr, Fail, Probe, Accept, RejectDesynced, PathOf, FramePlaces, OpenPlaces
<1>i. CASE Attempt(r) \/ NextAttempt(r) \/ Recover(r) \/ Rearmed(r) \/ GiveUp(r) \/ BusReset(r)
  BY <1>1, <1>2, <1>3, <1>4, <1>i, HaltStep
     DEF Attempt, NextAttempt, Recover, Rearmed, GiveUp, BusReset, PathOf, FramePlaces, OpenPlaces
<1>j. CASE FrameLook(r) \/ FrameOpen(r) \/ FrameAdopt(r) \/ FrameNext(r) \/ NextBroken(r)
  <2>1. op[r] # "data" /\ op' = op
    BY <1>j, <1>2 DEF FrameLook, FrameOpen, FrameAdopt, FrameNext, NextBroken, LeaveNext, PathOf, OpenPlaces
  <2>2. UNCHANGED <<status, expGen, shots, fwOK, streaming, closed>>
    BY <1>j DEF FrameLook, FrameOpen, FrameAdopt, FrameNext, NextBroken, LeaveNext
  <2> QED BY <1>1, <1>2, <2>1, <2>2, HaltStep
<1> QED BY <1>a, <1>b, <1>c, <1>d, <1>e, <1>f, <1>g, <1>h, <1>i, <1>j
        DEF ReaderMove, ReaderStep, WorkerStep, Common

\* HaltInv is inductive.
LEMMA NextHalt ==
  ASSUME HasWorker, PatientCallers, TypeOK, HaltInv, [Next]_vars
  PROVE  HaltInv'
<1>1. CASE UNCHANGED vars \/ FirmwareDrop
  <2>1. UNCHANGED <<status, expGen, shots, closed, pc, op, gen, att>>
    BY <1>1 DEF vars, FirmwareDrop, camVars, usbVars, locVars, histVars
  <2>2. (streaming' => streaming) /\ (~fwOK' => ~streaming')
    BY <1>1 DEF vars, FirmwareDrop, devVars, HaltInv
  <2>3. \A t \in Threads : WillHalt(t)' <=> WillHalt(t)
    BY <2>1 DEF WillHalt
  <2>4. /\ \A c \in Controllers : CallPath(c)'
        /\ \A r \in Readers : PathOf(r)' /\ (InCapture(r)' <=> InCapture(r))
                                        /\ (Looking(r)' <=> Looking(r))
    BY <2>1 DEF HaltInv, CallPath, PathOf, InCapture, Looking
  <2>5. Claiming' = Claiming /\ FreeRuns' = FreeRuns
    BY <2>1 DEF Claiming, FreeRuns
  <2> QED BY <2>1, <2>2, <2>3, <2>4, <2>5 DEF HaltInv
<1>2. CASE \E c \in Controllers : ControllerMove(c)
  BY <1>2, ControllerHalt
<1>3. CASE \E r \in Readers : ReaderMove(r)
  BY <1>3, ReaderHalt
<1> QED BY <1>1, <1>2, <1>3 DEF Next, ControllerMove, ReaderMove

\* The sensor is never left free-running by a profile with a Worker, for any number of
\* threads and captures: with every call returned and nothing claimed it is halted.
THEOREM QuietIsHalted ==
  ASSUME HasWorker, PatientCallers
  PROVE  Spec => []HaltedWhenQuiet
<1>1. Init => HaltInv
  BY CaptureAssumption DEF Init, HaltInv, WillHalt, Looking, InCapture, PathOf, CallPath, Threads
<1>2. TypeOK /\ HaltInv /\ [Next]_vars => HaltInv'
  BY NextHalt
<1>3. HaltInv => HaltedWhenQuiet
  BY DEF HaltInv, HaltedWhenQuiet, AllIdle, WillHalt, FreeRuns
<1> QED BY <1>1, <1>2, <1>3, TypeCorrect, PTL DEF Spec

-----------------------------------------------------------------------------
(* Capture implements Exposure: for a profile with a Worker, every step of *)
(* every thread is a step of the abstract sequence of exposures, or none.  *)
(* Nearly all steps touch nothing the abstract module sees.  What the rest *)
(* need is that a thread which is about to end a capture names an exposure *)
(* that was begun, and that nobody is about to mark a re-armed one working *)
(* (NotRearmed, above).                                                    *)


\* A thread at label l of call o works for an exposure it names in gen.
NeedsGen(l, o) ==
  \/ l \in {"release", "integrate", "short", "ladder", "halt", "worker_err", "fail", "accept",
            "attempt", "next_attempt", "recover", "rearmed", "give_up"}
  \/ l \in {"read", "reading", "read_done"} /\ o # "frame"
  \/ l \in {"arm_stop", "arm_start"} /\ o # "video"
  \/ l \in {"take", "drop", "arm_read"} /\ o = "start"

\* The labels only one call, or all but one, leads to.
OnPath(l, o) ==
  /\ l \in {"frame_look", "frame_open"} => o = "frame"
  /\ l \in {"stop_mark", "video_busy", "video_abort", "video_claim"} => o # "start"

Named ==
  \A t \in Threads : OnPath(pc[t], op[t]) /\ (NeedsGen(pc[t], op[t]) => gen[t] # 0)

\* No thread names an exposure that was not begun.
Begun ==
  /\ status = "working" => expGen # 0
  /\ \A t \in Threads : gen[t] \in 0 .. expGen

RefInv == Named /\ Begun

Seen == <<status, expGen, expAborted, delivered, shots>>

-----------------------------------------------------------------------------
(* Steps that the abstract module does not see *)

\* Where one thread goes decides whether the invariant holds of it afterwards.
LEMMA NamedStep ==
  ASSUME TypeOK, Named, NEW t \in Threads, NEW from, NEW to, Goto(t, from, to),
         \A u \in Threads : u # t => op'[u] = op[u] /\ gen'[u] = gen[u],
         OnPath(to, op'[t]), NeedsGen(to, op'[t]) => gen'[t] # 0
  PROVE  Named'
<1> SUFFICES ASSUME NEW u \in Threads
             PROVE  /\ OnPath(pc'[u], op'[u])
                    /\ NeedsGen(pc'[u], op'[u]) => gen'[u] # 0
  BY DEF Named, OnPath, NeedsGen
<1>1. CASE u = t
  BY <1>1 DEF Goto, TypeOK, LocTypes
<1>2. CASE u # t
  <2>1. pc'[u] = pc[u] /\ op'[u] = op[u] /\ gen'[u] = gen[u]
    BY <1>2, GotoMoves
  <2> QED BY <2>1 DEF Named, OnPath, NeedsGen
<1> QED BY <1>1, <1>2

\* A step that leaves the exposures, the calls and what they name alone keeps the
\* invariant if its label asks for no more than the one it leaves.
LEMMA QuietStep ==
  ASSUME TypeOK, RefInv, NEW t \in Threads, NEW from, NEW to, Goto(t, from, to),
         UNCHANGED <<Seen, op, gen>>,
         OnPath(from, op[t]) => OnPath(to, op[t]) /\ (NeedsGen(to, op[t]) => NeedsGen(from, op[t]))
  PROVE  RefInv' /\ UNCHANGED Seen
<1> USE DEF RefInv
<1>1. OnPath(from, op[t]) /\ (NeedsGen(from, op[t]) => gen[t] # 0)
  BY DEF Named, Goto
<1>2. OnPath(to, op'[t]) /\ (NeedsGen(to, op'[t]) => gen'[t] # 0)
  BY <1>1 DEF OnPath, NeedsGen
<1>3. Named'
  BY <1>2, NamedStep
<1>4. Begun'
  BY DEF Begun, Seen
<1> QED BY <1>3, <1>4

\* The routines both kinds of thread run.
LEMMA CommonQuiet ==
  ASSUME HasWorker, TypeOK, RefInv, NEW t \in Threads,
         DeadCheck(t) \/ TakeStream(t) \/ DropStream(t) \/ ArmStop(t) \/ ArmStart(t)
  PROVE  RefInv' /\ UNCHANGED Seen
<1> USE QuietStep DEF OnPath, NeedsGen, Seen, camVars, histVars
<1>1. CASE DeadCheck(t)
  BY <1>1 DEF DeadCheck
<1>2. CASE TakeStream(t)
  BY <1>2 DEF TakeStream, AfterDrop
<1>3. CASE DropStream(t)
  BY <1>3 DEF DropStream, AfterDrop
<1>4. CASE ArmStop(t)
  BY <1>4 DEF ArmStop, ArmErr
<1>5. CASE ArmStart(t)
  BY <1>5 DEF ArmStart, ArmErr, ArmOk
<1> QED BY <1>1, <1>2, <1>3, <1>4, <1>5

\* The controllers' steps around a claim.
LEMMA ControllerQuiet ==
  ASSUME HasWorker, TypeOK, RefInv, NEW c \in Controllers,
         \/ ArmRead(c) \/ VideoBusy(c) \/ VideoAbortRead(c) \/ AbortRead(c) \/ TransportClose(c)
  PROVE  RefInv' /\ UNCHANGED Seen
<1> USE QuietStep DEF OnPath, NeedsGen, Seen, camVars, histVars, Threads
<1>1. CASE ArmRead(c)
  BY <1>1 DEF ArmRead
<1>2. CASE VideoBusy(c)
  BY <1>2 DEF VideoBusy
<1>3. CASE VideoAbortRead(c)
  BY <1>3 DEF VideoAbortRead
<1>4. CASE AbortRead(c)
  BY <1>4 DEF AbortRead
<1>5. CASE TransportClose(c)
  BY <1>5 DEF TransportClose
<1> QED BY <1>1, <1>2, <1>3, <1>4, <1>5

\* Steps that change the call a thread is in, and nothing the exposures show.
LEMMA CallQuiet ==
  ASSUME TypeOK, RefInv, NEW t \in Threads,
         CloseCheck(t) \/ StopWrites(t) \/ \E o : Call(t, o)
  PROVE  RefInv' /\ UNCHANGED Seen
<1> USE DEF RefInv
<1>1. UNCHANGED <<Seen, gen>> /\ Begun'
  BY DEF CloseCheck, StopWrites, Call, Begun, Seen, camVars, histVars
<1>2. OnPath(pc[t], op[t]) /\ t \in DOMAIN op
  BY DEF Named, TypeOK, LocTypes
<1>3. \A u \in Threads : u # t => op'[u] = op[u]
  BY DEF CloseCheck, StopWrites, Call, TypeOK, LocTypes
<1>4. CASE CloseCheck(t)
  <2> DEFINE to == IF status = "working" THEN "stop_mark" ELSE "take"
  <2>1. Goto(t, "close_check", to) /\ op'[t] \in {"close_stop", "close"}
    BY <1>4, <1>2 DEF CloseCheck
  <2>2. OnPath(to, op'[t]) /\ ~NeedsGen(to, op'[t])
    BY <2>1 DEF OnPath, NeedsGen
  <2> HIDE DEF to
  <2> QED BY <1>1, <1>3, <2>1, <2>2, NamedStep
<1>5. CASE StopWrites(t)
  <2> DEFINE to == IF op[t] = "close_stop" THEN "take" ELSE "idle"
  <2>1. Goto(t, "stop_writes", to) /\ op'[t] = IF op[t] = "close_stop" THEN "close" ELSE op[t]
    BY <1>5, <1>2 DEF StopWrites
  <2>2. OnPath(to, op'[t]) /\ ~NeedsGen(to, op'[t])
    BY <2>1 DEF OnPath, NeedsGen
  <2> HIDE DEF to
  <2> QED BY <1>1, <1>3, <2>1, <2>2, NamedStep
<1>6. CASE \E o : Call(t, o)
  <2>1. PICK o : Call(t, o)
    BY <1>6
  <2>2. Goto(t, "idle", EntryPoint(o)) /\ op'[t] = o
    BY <2>1, <1>2 DEF Call
  <2>3. OnPath(EntryPoint(o), o) /\ ~NeedsGen(EntryPoint(o), o)
    BY DEF EntryPoint, OnPath, NeedsGen
  <2> QED BY <1>1, <1>3, <2>2, <2>3, NamedStep
<1> QED BY <1>4, <1>5, <1>6

\* The readers' steps but those that end a capture.
LEMMA ReaderQuiet ==
  ASSUME HasWorker, TypeOK, RefInv, NEW r \in Readers,
         \/ BeginRead(r) \/ ReadBroken(r) \/ ReadDone(r) \/ ReadFull(r) \/ ReadTimeout(r)
         \/ Integrate(r) \/ WorkerShort(r) \/ LadderReread(r) \/ LadderReset(r)
         \/ LadderGiveUp(r) \/ LadderShort(r) \/ WorkerHalt(r) \/ WorkerErr(r) \/ Probe(r)
  PROVE  RefInv' /\ UNCHANGED Seen
<1> USE QuietStep DEF OnPath, NeedsGen, Seen, camVars, histVars, Threads
<1>1. CASE BeginRead(r)
  BY <1>1 DEF BeginRead
<1>2. CASE ReadBroken(r)
  BY <1>2 DEF ReadBroken, EndRead
<1>3. CASE ReadDone(r)
  BY <1>3 DEF ReadDone
<1>4. CASE ReadFull(r)
  BY <1>4 DEF ReadFull, EndRead
<1>5. CASE ReadTimeout(r)
  BY <1>5 DEF ReadTimeout, EndRead
<1>6. CASE Integrate(r)
  BY <1>6 DEF Integrate
<1>7. CASE WorkerShort(r)
  BY <1>7 DEF WorkerShort
<1>8. CASE LadderReread(r)
  BY <1>8 DEF LadderReread
<1>9. CASE LadderReset(r)
  BY <1>9 DEF LadderReset
<1>10. CASE LadderGiveUp(r)
  BY <1>10 DEF LadderGiveUp
<1>11. CASE LadderShort(r)
  BY <1>11 DEF LadderShort
<1>12. CASE WorkerHalt(r)
  BY <1>12 DEF WorkerHalt
<1>13. CASE WorkerErr(r)
  BY <1>13 DEF WorkerErr
<1>14. CASE Probe(r)
  BY <1>14 DEF Probe
<1> QED BY <1>1, <1>2, <1>3, <1>4, <1>5, <1>6, <1>7, <1>8, <1>9, <1>10, <1>11, <1>12, <1>13, <1>14

\* The recovery path and ReadFrame.
LEMMA FrameQuiet ==
  ASSUME HasWorker, TypeOK, RefInv, NEW r \in Readers,
         \/ Attempt(r) \/ NextAttempt(r) \/ Recover(r) \/ BusReset(r)
         \/ FrameLook(r) \/ FrameOpen(r) \/ FrameAdopt(r) \/ FrameNext(r)
         \/ NextBroken(r) \/ NextFrame(r) \/ NextTimeout(r)
  PROVE  RefInv' /\ UNCHANGED Seen
<1> USE QuietStep DEF OnPath, NeedsGen, Seen, camVars, histVars, Threads
<1>1. CASE Attempt(r)
  BY <1>1 DEF Attempt
<1>2. CASE NextAttempt(r)
  BY <1>2 DEF NextAttempt
<1>3. CASE Recover(r)
  BY <1>3 DEF Recover
<1>4. CASE BusReset(r)
  BY <1>4 DEF BusReset
<1>5. CASE FrameLook(r)
  BY <1>5 DEF FrameLook
<1>6. CASE FrameOpen(r)
  BY <1>6 DEF FrameOpen
<1>7. CASE FrameAdopt(r)
  BY <1>7 DEF FrameAdopt
<1>8. CASE FrameNext(r)
  BY <1>8 DEF FrameNext
<1>9. CASE NextBroken(r)
  BY <1>9 DEF NextBroken, LeaveNext
<1>10. CASE NextFrame(r)
  BY <1>10 DEF NextFrame, LeaveNext
<1>11. CASE NextTimeout(r)
  BY <1>11 DEF NextTimeout, LeaveNext
<1> QED BY <1>1, <1>2, <1>3, <1>4, <1>5, <1>6, <1>7, <1>8, <1>9, <1>10, <1>11

-----------------------------------------------------------------------------
(* Steps that begin or end an exposure *)

AbstractStep == [Promise!Next]_(Promise!vars)

\* What the abstract module sees is Seen.
LEMMA SeenStutters ==
  ASSUME UNCHANGED Seen
  PROVE  AbstractStep
BY DEF AbstractStep, Seen, Promise!vars

\* StartExposure's claim begins a single shot, or refuses and changes nothing.
LEMMA StartClaimStep ==
  ASSUME TypeOK, RefInv, NEW c \in Threads, StartClaim(c)
  PROVE  RefInv' /\ AbstractStep
<1> USE DEF RefInv
<1>1. CASE status = "working"
  <2>1. Goto(c, "claim", "idle") /\ UNCHANGED <<Seen, op, gen>>
    BY <1>1 DEF StartClaim, Seen, camVars, histVars
  <2>2. RefInv' /\ UNCHANGED Seen
    BY <2>1, QuietStep DEF OnPath, NeedsGen
  <2> QED BY <2>2, SeenStutters
<1>2. CASE status # "working"
  <2>1. /\ Goto(c, "claim", "take") /\ expGen' = expGen + 1 /\ status' = "working"
        /\ expAborted' = FALSE /\ shots' = shots \cup {expGen + 1}
        /\ gen' = [gen EXCEPT ![c] = expGen + 1] /\ UNCHANGED <<op, delivered>>
    BY <1>2 DEF StartClaim
  <2>2. expGen \in Nat /\ gen \in [Threads -> 0 .. MaxGen]
    BY Bounds DEF TypeOK, CamTypes, LocTypes
  <2>3. gen'[c] = expGen + 1 /\ \A u \in Threads : u # c => gen'[u] = gen[u]
    BY <2>1, <2>2
  <2>4. Named'
    <3>1. OnPath("take", op'[c]) /\ gen'[c] # 0
      BY <2>2, <2>3 DEF OnPath
    <3> QED BY <2>1, <2>3, <3>1, NamedStep
  <2>5. Begun'
    <3>1. expGen' # 0
      BY <2>1, <2>2
    <3>2. \A u \in Threads : gen'[u] \in 0 .. expGen'
      BY <2>1, <2>2, <2>3 DEF Begun
    <3> QED BY <3>1, <3>2 DEF Begun
  <2>6. Promise!Shoot
    BY <1>2, <2>1 DEF Promise!Shoot, Promise!Begin
  <2> QED BY <2>4, <2>5, <2>6 DEF AbstractStep, Promise!Next
<1> QED BY <1>1, <1>2

\* StartVideo's claim begins a free-run.
LEMMA VideoClaimStep ==
  ASSUME TypeOK, RefInv, NEW c \in Threads, VideoClaim(c)
  PROVE  RefInv' /\ AbstractStep
<1> USE DEF RefInv
<1>1. /\ Goto(c, "video_claim", "arm_read") /\ expGen' = expGen + 1 /\ status' = "working"
      /\ expAborted' = FALSE /\ UNCHANGED <<op, gen, delivered, shots>>
  BY DEF VideoClaim, histVars
<1>2. expGen \in Nat
  BY Bounds DEF TypeOK, CamTypes
<1>3. Named'
  <2>1. OnPath("video_claim", op[c])
    BY <1>1 DEF Named, Goto
  <2>2. OnPath("arm_read", op'[c]) /\ ~NeedsGen("arm_read", op'[c])
    BY <1>1, <2>1 DEF OnPath, NeedsGen
  <2> QED BY <1>1, <2>2, NamedStep
<1>4. Begun'
  <2>1. \A u \in Threads : gen'[u] \in 0 .. expGen'
    BY <1>1, <1>2 DEF Begun
  <2> QED BY <1>1, <1>2, <2>1 DEF Begun
<1>5. Promise!FreeRun
  BY <1>1 DEF Promise!FreeRun, Promise!Begin
<1> QED BY <1>3, <1>4, <1>5 DEF AbstractStep, Promise!Next

\* StopExposure stops the current exposure.
LEMMA StopMarkStep ==
  ASSUME TypeOK, RefInv, NEW c \in Threads, StopMark(c)
  PROVE  RefInv' /\ AbstractStep
<1> USE DEF RefInv
<1>1. /\ Goto(c, "stop_mark", "take") /\ expAborted' = TRUE /\ status' = "idle"
      /\ UNCHANGED <<expGen, op, gen, delivered, shots>>
  BY DEF StopMark, histVars
<1>2. Named'
  <2>1. OnPath("stop_mark", op[c])
    BY <1>1 DEF Named, Goto
  <2>2. OnPath("take", op'[c]) /\ ~NeedsGen("take", op'[c])
    BY <1>1, <2>1 DEF OnPath, NeedsGen
  <2> QED BY <1>1, <2>2, NamedStep
<1>3. Begun'
  BY <1>1 DEF Begun
<1>4. Promise!Stop
  BY <1>1 DEF Promise!Stop
<1> QED BY <1>2, <1>3, <1>4 DEF AbstractStep, Promise!Next

\* A thread that ends the capture it names, with s to show for it, keeps the
\* invariant, and names an exposure of the abstract module.
LEMMA EndingStep ==
  ASSUME TypeOK, RefInv, NEW t \in Threads, NEW from, NEW to, Goto(t, from, to),
         NeedsGen(from, op[t]), \A o : OnPath(to, o) /\ ~NeedsGen(to, o),
         NEW s, s # "working", SetStatusIfGen(t, s), UNCHANGED <<expGen, op, gen>>
  PROVE  RefInv' /\ gen[t] \in Promise!Exposures /\ Promise!Ends(gen[t], s)
<1> USE DEF RefInv
<1>1. Named'
  BY NamedStep
<1>2. Begun'
  BY DEF Begun, SetStatusIfGen
<1>3. gen[t] # 0 /\ gen[t] \in 0 .. expGen /\ expGen \in Nat
  BY Bounds DEF Named, Begun, Goto, TypeOK, CamTypes
<1>4. gen[t] \in Promise!Exposures
  BY <1>3 DEF Promise!Exposures
<1>5. Promise!Ends(gen[t], s)
  BY DEF Promise!Ends, SetStatusIfGen
<1> QED BY <1>1, <1>2, <1>4, <1>5

\* A start whose device does not arm gives its exposure back.
LEMMA StartReleaseStep ==
  ASSUME TypeOK, RefInv, NEW c \in Threads, StartRelease(c)
  PROVE  RefInv' /\ AbstractStep
<1>1. RefInv' /\ gen[c] \in Promise!Exposures /\ Promise!Ends(gen[c], "idle")
  BY EndingStep DEF StartRelease, OnPath, NeedsGen
<1>2. Promise!Release(gen[c])
  BY <1>1 DEF StartRelease, Promise!Release, histVars
<1> QED BY <1>1, <1>2 DEF AbstractStep, Promise!Next

\* Accept hands a frame over.
LEMMA AcceptStep ==
  ASSUME TypeOK, RefInv, NEW r \in Threads, Accept(r)
  PROVE  RefInv' /\ AbstractStep
<1>1. RefInv' /\ gen[r] \in Promise!Exposures /\ Promise!Ends(gen[r], "idle")
  BY EndingStep DEF Accept, OnPath, NeedsGen
<1>2. Promise!HandOver(gen[r])
  BY <1>1 DEF Accept, Promise!HandOver
<1> QED BY <1>1, <1>2 DEF AbstractStep, Promise!Next

\* The three ways a capture fails.
LEMMA FailStep ==
  ASSUME TypeOK, RefInv, NEW r \in Threads, Fail(r) \/ RejectDesynced(r) \/ GiveUp(r)
  PROVE  RefInv' /\ AbstractStep
<1>1. RefInv' /\ gen[r] \in Promise!Exposures /\ Promise!Ends(gen[r], "failed")
  <2>1. CASE Fail(r)
    BY <2>1, EndingStep DEF Fail, OnPath, NeedsGen
  <2>2. CASE RejectDesynced(r)
    BY <2>2, EndingStep DEF RejectDesynced, OnPath, NeedsGen
  <2>3. CASE GiveUp(r)
    BY <2>3, EndingStep DEF GiveUp, OnPath, NeedsGen
  <2> QED BY <2>1, <2>2, <2>3
<1>2. Promise!Fail(gen[r])
  BY <1>1 DEF Fail, RejectDesynced, GiveUp, Promise!Fail, histVars
<1> QED BY <1>1, <1>2 DEF AbstractStep, Promise!Next

\* GetDataAfterExp's snapshot names the exposure it works for.
LEMMA SnapshotStep ==
  ASSUME TypeOK, RefInv, NEW r \in Threads, Snapshot(r)
  PROVE  RefInv' /\ UNCHANGED Seen
<1> USE DEF RefInv
<1>1. UNCHANGED Seen
  BY DEF Snapshot, Seen, camVars, histVars
<1>2. CASE status # "working"
  <2>1. Goto(r, "snapshot", "idle") /\ UNCHANGED <<op, gen>>
    BY <1>2 DEF Snapshot
  <2> QED BY <1>1, <2>1, QuietStep DEF OnPath, NeedsGen
<1>3. CASE status = "working"
  <2> DEFINE to == IF HasWorker THEN "arm_stop" ELSE "attempt"
  <2>1. Goto(r, "snapshot", to) /\ gen' = [gen EXCEPT ![r] = expGen] /\ UNCHANGED op
    BY <1>3 DEF Snapshot
  <2>2. expGen \in Nat /\ expGen # 0 /\ gen \in [Threads -> 0 .. MaxGen]
    BY <1>3, Bounds DEF Begun, TypeOK, CamTypes, LocTypes
  <2>3. gen'[r] = expGen /\ \A u \in Threads : u # r => gen'[u] = gen[u]
    BY <2>1, <2>2
  <2>4. OnPath(to, op'[r])
    BY DEF OnPath
  <2> HIDE DEF to
  <2>5. Named'
    BY <2>1, <2>2, <2>3, <2>4, NamedStep
  <2>6. Begun'
    BY <1>1, <2>2, <2>3 DEF Begun, Seen
  <2> QED BY <1>1, <2>5, <2>6
<1> QED BY <1>2, <1>3

-----------------------------------------------------------------------------

\* Every step of a controller keeps the invariant and is a step of Exposure.
LEMMA ControllerImplements ==
  ASSUME HasWorker, TypeOK, RefInv, NEW c \in Controllers,
         ControllerStep(c) \/ \E o \in ControllerOps : Call(c, o)
  PROVE  RefInv' /\ AbstractStep
<1> c \in Threads
  BY DEF Threads
<1>1. CASE Common(c)
  BY <1>1, CommonQuiet, SeenStutters DEF Common
<1>2. CASE ArmRead(c) \/ VideoBusy(c) \/ VideoAbortRead(c) \/ AbortRead(c) \/ TransportClose(c)
  BY <1>2, ControllerQuiet, SeenStutters
<1>3. CASE CloseCheck(c) \/ StopWrites(c) \/ \E o \in ControllerOps : Call(c, o)
  BY <1>3, CallQuiet, SeenStutters
<1>4. CASE StartClaim(c)
  BY <1>4, StartClaimStep
<1>5. CASE VideoClaim(c)
  BY <1>5, VideoClaimStep
<1>6. CASE StopMark(c)
  BY <1>6, StopMarkStep
<1>7. CASE StartRelease(c)
  BY <1>7, StartReleaseStep
<1> QED BY <1>1, <1>2, <1>3, <1>4, <1>5, <1>6, <1>7 DEF ControllerStep

\* Every step of a reader does, as nobody marks a re-armed exposure working.
LEMMA ReaderImplements ==
  ASSUME HasWorker, TypeOK, RefInv, NotRearmed, NEW r \in Readers,
         ReaderStep(r) \/ Arrival(r) \/ Deadline(r) \/ \E o \in ReaderOps : Call(r, o)
  PROVE  RefInv' /\ AbstractStep
<1> r \in Threads
  BY DEF Threads
<1>1. CASE Common(r)
  BY <1>1, CommonQuiet, SeenStutters DEF Common
<1>2. CASE Snapshot(r)
  BY <1>2, SnapshotStep, SeenStutters
<1>3. CASE BeginRead(r) \/ ReadBroken(r) \/ ReadDone(r) \/ ReadFull(r) \/ ReadTimeout(r)
  BY <1>3, ReaderQuiet, SeenStutters
<1>4. CASE Integrate(r) \/ WorkerShort(r) \/ LadderReread(r) \/ LadderReset(r)
           \/ LadderGiveUp(r) \/ LadderShort(r) \/ WorkerHalt(r) \/ WorkerErr(r) \/ Probe(r)
  BY <1>4, ReaderQuiet, SeenStutters
<1>5. CASE Accept(r)
  BY <1>5, AcceptStep
<1>6. CASE Fail(r) \/ RejectDesynced(r) \/ GiveUp(r)
  BY <1>6, FailStep
<1>7. CASE Attempt(r) \/ NextAttempt(r) \/ Recover(r) \/ BusReset(r)
           \/ FrameLook(r) \/ FrameOpen(r) \/ FrameAdopt(r) \/ FrameNext(r)
           \/ NextBroken(r) \/ NextFrame(r) \/ NextTimeout(r)
  BY <1>7, FrameQuiet, SeenStutters
<1>8. CASE Rearmed(r)
  BY <1>8 DEF Rearmed, Goto, NotRearmed
<1>9. CASE \E o \in ReaderOps : Call(r, o)
  BY <1>9, CallQuiet, SeenStutters
<1> QED BY <1>1, <1>2, <1>3, <1>4, <1>5, <1>6, <1>7, <1>8, <1>9
        DEF ReaderStep, WorkerStep, Arrival, Deadline

\* So is every step of the system.
LEMMA NextImplements ==
  ASSUME HasWorker, TypeOK, AbortInv, RefInv, [Next]_vars
  PROVE  RefInv' /\ AbstractStep
<1>1. CASE UNCHANGED vars
  <2>1. UNCHANGED Seen /\ UNCHANGED <<pc, op, gen>>
    BY <1>1 DEF vars, Seen, camVars, histVars, locVars
  <2>2. RefInv'
    BY <2>1 DEF RefInv, Named, Begun, OnPath, NeedsGen, Seen
  <2> QED BY <2>1, <2>2, SeenStutters
<1>2. CASE FirmwareDrop
  <2>1. UNCHANGED Seen /\ UNCHANGED <<pc, op, gen>>
    BY <1>2 DEF FirmwareDrop, Seen, camVars, histVars, locVars
  <2>2. RefInv'
    BY <2>1 DEF RefInv, Named, Begun, OnPath, NeedsGen, Seen
  <2> QED BY <2>1, <2>2, SeenStutters
<1>3. CASE \E c \in Controllers : ControllerStep(c) \/ \E o \in ControllerOps : Call(c, o)
  BY <1>3, ControllerImplements
<1>4. CASE \E r \in Readers : \/ ReaderStep(r) \/ Arrival(r) \/ Deadline(r)
                             \/ \E o \in ReaderOps : Call(r, o)
  BY <1>4, ReaderImplements DEF AbortInv
<1> QED BY <1>1, <1>2, <1>3, <1>4 DEF Next

\* For a profile with a Worker, whatever number of threads start, stop, read,
\* stream and close, in whatever order: the camera shows its callers the numbered
\* exposures of Exposure, each stopped for good once stopped, each ended by a
\* thread that works for it, the last alone with a status.  (Without a Worker the
\* recovery marks a stopped exposure working again, and it does not.)
THEOREM WorkerImplements ==
  ASSUME HasWorker
  PROVE  Spec => Implements
<1>1. Init => AbortInv
  BY DEF Init, AbortInv, AbortSticks, NotRearmed
<1>2. Init => RefInv
  <2> SUFFICES ASSUME Init PROVE RefInv
    OBVIOUS
  <2>1. Named
    BY DEF Init, Named, OnPath, NeedsGen
  <2>2. Begun
    BY DEF Init, Begun
  <2> QED BY <2>1, <2>2 DEF RefInv
<1>3. TypeOK /\ AbortInv /\ [Next]_vars => AbortInv'
  BY NextAbort
<1>4. TypeOK /\ AbortInv /\ RefInv /\ [Next]_vars => RefInv' /\ AbstractStep
  BY NextImplements
<1>5. Init => Promise!Init
  BY DEF Init, Promise!Init
<1> QED BY <1>1, <1>2, <1>3, <1>4, <1>5, TypeCorrect, PTL
        DEF Spec, Implements, Promise!Spec, AbstractStep
=============================================================================
