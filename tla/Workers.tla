------------------------------ MODULE Workers ------------------------------
(***************************************************************************)
(* The capture workers of the seven sensor profiles, one control transfer  *)
(* per step: what each writes to arm the readout, to open and close the    *)
(* integration window, to read a frame and retry, and to halt on its way   *)
(* out, over one camera that makes captures one after another.             *)
(*                                                                         *)
(* The device is the set `dev' of control bits that read 1:                *)
(*   fx3   the FX3 streams (SendCMD 0xA9; 0xAA clears it)                  *)
(*   stop  readout stop, FPGA register 0 bit 4 (FPGAStop, FPGARun)         *)
(*   wait  FPGA register 0 bit 6, WaitMode                                 *)
(*   on    the sensor's own gate: master start, or out of standby          *)
(*   sig   the trigger signal (register 0x0b bit 0; 0x06 ExpStart)         *)
(*   xhs   XHSStop (register 0x0b bit 4; 0x06 DrvStop)                     *)
(*   low   PlayerOne's low power bit of register 0x06                      *)
(* A transfer is a record of the bits it sets and clears.  ResetEndpoint   *)
(* touches none of them and is left out, as are the settling sleeps.       *)
(*                                                                         *)
(* An operator whose name starts with Faulty is a mutated form of the      *)
(* definition after it.                                                    *)
(***************************************************************************)
EXTENDS Naturals, Sequences

CONSTANTS
  Dies,       \* the profiles a behaviour may be about, a subset of AllDies
  MaxCalls,   \* bound: captures in a behaviour
  MaxFaults   \* bound: control transfers that fail in a behaviour

AllDies == {"imx174", "imx178", "imx290", "imx462",
            "imx455", "imx571", "imx585zwo", "imx585poa"}

ASSUME WorkersAssumption ==
  /\ Dies \subseteq AllDies
  /\ MaxCalls \in Nat
  /\ MaxFaults \in Nat

VARIABLES
  die,      \* the profile, fixed
  usb3,     \* the link, fixed
  trig,     \* this exposure is in the FPGA trigger band
  pc,       \* what the worker does next
  todo,     \* the chains of transfers it has still to make first
  first,    \* the deferred halt is not in place if the profile defers it late
  aborted,  \* ctl.Aborted()
  dev,      \* the control bits that read 1
  ticker,   \* the FPGABufReload goroutine: "off", "waiting" or "pulsing"
  attempt, zeros, reloads, retries,  \* the counters of the read ladders
  calls, faults,                     \* bounds
  \* history, read by properties only
  res,      \* how the last capture ended
  win,      \* the integration window since the last full arm
  lost,     \* a transfer failed while the trigger signal was up, and it still is
  exitFailed, \* a transfer of the last exit failed
  stalls    \* NoteStall calls, up to 2

devVars    == <<die, usb3>>
ladderVars == <<attempt, zeros, reloads, retries>>
histVars   == <<res, win, lost, exitFailed, stalls>>
vars == <<devVars, trig, pc, todo, first, aborted, dev, ticker, ladderVars,
          calls, faults, histVars>>

Bits == {"fx3", "stop", "wait", "on", "sig", "xhs", "low"}

-----------------------------------------------------------------------------
(* Transfers and the profiles made of them *)

Put(bits) == [set |-> bits, clr |-> {}]
Clr(bits) == [set |-> {}, clr |-> bits]
Nothing   == [set |-> {}, clr |-> {}]   \* a write that touches no modelled bit
Ctl06(bits) == [set |-> bits, clr |-> {"sig", "xhs", "low"} \ bits]  \* POAFPGAExpControl

\* Best-effort exits ignore each error: one chain per statement whose error
\* is dropped, so a chain ends at its first failing transfer and the next runs.
Each(s) == [i \in 1 .. Len(s) |-> <<s[i]>>]

FpgaStop  == Put({"stop"})
FpgaStart == Clr({"stop"})
SigOn     == Put({"sig"})
SigOff    == Clr({"sig"})
Fx3Stop   == Clr({"fx3"})
Fx3Start  == Put({"fx3"})
Sleeping  == Clr({"on"})
Running   == Put({"on"})

\* Per profile: the full arm and the short re-arm; the window's transfers and
\* whether this band has a window; what the exit writes; whether the deferred
\* halt also covers a first arm that fails; whether the reload ticker pulses.
Imx174 == [
  arm    |-> <<Fx3Stop, FpgaStop, Nothing, Nothing, Sleeping, Fx3Start, Running,
               FpgaStart, Nothing, Nothing>>,
  rearm  |-> <<>>,
  open   |-> <<SigOn>>, close |-> <<SigOff>>, window |-> trig,
  halt   |-> Each(<<Nothing, Sleeping, FpgaStop, Fx3Stop>>),
  covers |-> TRUE, ticks |-> FALSE]

\* Its exit touches no sensor register.
Imx178 == [
  arm    |-> <<Fx3Stop, FpgaStop, Fx3Start, Sleeping, Running, FpgaStart>>,
  rearm  |-> <<>>,
  open   |-> <<SigOn, Put({"xhs"})>>, close |-> <<Clr({"xhs"}), SigOff>>, window |-> TRUE,
  halt   |-> Each(<<FpgaStop, Fx3Stop>>),
  covers |-> TRUE, ticks |-> FALSE]

\* Below 1 s the window closes after a standby toggle (rearm).
Imx290 == [
  arm    |-> <<Fx3Stop, FpgaStop, Sleeping, Fx3Start, Running, FpgaStart>>,
  rearm  |-> IF trig THEN <<>> ELSE <<Sleeping, Running, FpgaStart>>,
  open   |-> <<SigOn>>, close |-> <<SigOff>>, window |-> TRUE,
  halt   |-> Each(<<FpgaStop, Sleeping, Fx3Stop>>),
  covers |-> FALSE, ticks |-> FALSE]

\* In the trigger band the start leaves WaitMode alone.
Imx462 == [
  arm    |-> <<Fx3Stop, FpgaStop, Sleeping, Fx3Start, Running,
               IF trig THEN FpgaStart ELSE Clr({"stop", "wait"})>>,
  rearm  |-> <<>>,
  open   |-> <<SigOn>>, close |-> <<SigOff>>, window |-> trig,
  halt   |-> Each(<<FpgaStop, Sleeping, Fx3Stop>>),
  covers |-> FALSE, ticks |-> FALSE]

\* Standby and wakeup are two more bits of the sensor; only the master gate
\* is kept.  The second FpgaStop follows the FX3 start.
ArmDDR == <<Fx3Stop, FpgaStop, Sleeping, Nothing, Fx3Start, FpgaStop, Running,
            Nothing, Nothing, FpgaStart>>

Imx455 == [
  arm    |-> ArmDDR,
  rearm  |-> <<>>,
  open   |-> <<SigOn>>, close |-> <<SigOff>>, window |-> trig,
  halt   |-> Each(<<FpgaStop, Sleeping, Nothing, Fx3Stop>>),
  covers |-> TRUE, ticks |-> usb3]

Arm571 == ArmDDR

\* stopStreaming gives up at its first failing transfer.
Imx571 == [
  arm    |-> Arm571,
  rearm  |-> <<>>,
  open   |-> <<SigOn>>, close |-> <<SigOff>>, window |-> trig,
  halt   |-> << <<FpgaStop, Sleeping, Nothing>>, <<Fx3Stop>> >>,
  covers |-> TRUE, ticks |-> usb3]

Arm585  == <<Fx3Stop, FpgaStop, Fx3Start, Running, FpgaStart>>
Halt585 == Each(<<FpgaStop, Sleeping, Fx3Stop>>)

Imx585ZWO == [
  arm    |-> Arm585,
  rearm  |-> <<>>,
  open   |-> <<SigOn, Put({"xhs"})>>, close |-> <<Clr({"xhs"}), SigOff>>, window |-> TRUE,
  halt   |-> Halt585,
  covers |-> TRUE, ticks |-> usb3]

\* PlayerOne: whole-register writes of 0x06, nested, and only from 1 s up.
Imx585POA == [
  arm    |-> Arm585,
  rearm  |-> <<>>,
  open   |-> IF trig THEN <<Ctl06({"sig"}), Ctl06({"sig", "xhs"}), Ctl06({"sig", "xhs", "low"})>>
             ELSE <<>>,
  close  |-> IF trig THEN <<Ctl06({"sig", "xhs"}), Ctl06({"sig"}), Ctl06({})>> ELSE <<>>,
  window |-> TRUE,
  halt   |-> Halt585,
  covers |-> TRUE, ticks |-> FALSE]

Worker ==
  CASE die = "imx174" -> Imx174 [] die = "imx178" -> Imx178
    [] die = "imx290" -> Imx290 [] die = "imx462" -> Imx462
    [] die = "imx455" -> Imx455 [] die = "imx571" -> Imx571
    [] die = "imx585zwo" -> Imx585ZWO [] die = "imx585poa" -> Imx585POA

-----------------------------------------------------------------------------
(* One call of the worker *)

Chain(s) == IF s = <<>> THEN <<>> ELSE <<s>>

Init ==
  /\ die \in Dies /\ usb3 \in BOOLEAN
  /\ trig = FALSE /\ pc = "idle" /\ todo = <<>> /\ first = FALSE
  /\ aborted = FALSE
  /\ dev = {"stop"}
  /\ ticker = "off"
  /\ attempt = 0 /\ zeros = 0 /\ reloads = 0 /\ retries = 0
  /\ calls = 0 /\ faults = 0
  /\ res = "none" /\ win = "none" /\ lost = FALSE /\ exitFailed = FALSE /\ stalls = 0

NoteStall == stalls' = IF stalls < 2 THEN stalls + 1 ELSE stalls

\* StartExposure claimed the capture and GetDataAfterExp calls the worker.
\* SetExposure chose the band before it; on the IMX462 it left WaitMode set in
\* the trigger band.  The IMX455 drains the pipe before it arms.
Start ==
  /\ pc = "idle" /\ calls < MaxCalls
  /\ calls' = calls + 1
  /\ trig' \in BOOLEAN
  /\ \E w \in BOOLEAN : dev' = IF trig' \/ w THEN dev \cup {"wait"} ELSE dev \ {"wait"}
  /\ \E drained \in BOOLEAN : IF die = "imx455" /\ drained THEN NoteStall ELSE UNCHANGED stalls
  /\ aborted' = FALSE /\ first' = TRUE
  /\ pc' = "begin" /\ todo' = <<>>
  /\ attempt' = 1 /\ zeros' = 0 /\ reloads' = 0 /\ retries' = 0
  /\ res' = "none" /\ win' = "none" /\ exitFailed' = FALSE
  /\ UNCHANGED <<devVars, ticker, faults, lost>>

\* StopExposure, at any moment of the call
Abort ==
  /\ pc # "idle" /\ ~aborted
  /\ aborted' = TRUE
  /\ UNCHANGED <<devVars, trig, pc, todo, first, dev, ticker, ladderVars, calls, faults, histVars>>

\* arm(true)
BeginArm ==
  /\ pc = "begin"
  /\ pc' = "arm" /\ todo' = Chain(Worker.arm) /\ win' = "none"
  /\ UNCHANGED <<devVars, trig, first, aborted, dev, ticker, ladderVars, calls, faults,
                 res, lost, exitFailed, stalls>>

Effect(t) == (dev \ t.clr) \cup t.set

\* The FPGA gates an integration by the edges of the signal: a window opened
\* while the signal is already up is stale.
WindowAfter(t) ==
  IF pc = "open" /\ win = "none" /\ "sig" \in t.set
    THEN IF "sig" \in dev THEN "stale" ELSE "open"
  ELSE IF win = "open" /\ "sig" \in t.clr THEN "released" ELSE win

\* The transfer at the head succeeds.
Transfer ==
  /\ todo # <<>>
  /\ LET chain == Head(todo)
         t == Head(chain)
     IN /\ dev' = Effect(t)
        /\ todo' = IF Len(chain) = 1 THEN Tail(todo) ELSE <<Tail(chain)>> \o Tail(todo)
        /\ win' = WindowAfter(t)
        /\ lost' = (lost /\ "sig" \in dev')
  /\ UNCHANGED <<devVars, trig, pc, first, aborted, ticker, ladderVars, calls, faults,
                 res, exitFailed, stalls>>

\* The call ends with result r: the deferred halt runs, if it is in place.
Leave(r) ==
  /\ res' = r
  /\ IF first /\ ~Worker.covers
       THEN pc' = "idle" /\ todo' = <<>>
       ELSE pc' = "exit" /\ todo' = Worker.halt
  /\ UNCHANGED exitFailed

BestEffort == pc \in {"drop", "exit"}

\* It fails, with or without its effect on the device.
TransferFails ==
  /\ todo # <<>> /\ faults < MaxFaults
  /\ faults' = faults + 1
  /\ dev' \in {dev, Effect(Head(Head(todo)))}
  /\ lost' = ("sig" \in dev')
  /\ IF BestEffort
       THEN /\ todo' = Tail(todo)
            /\ exitFailed' = (exitFailed \/ pc = "exit")
            /\ UNCHANGED <<pc, res>>
       ELSE Leave("error")
  /\ UNCHANGED <<devVars, trig, first, aborted, ticker, ladderVars, calls, win, stalls>>

StepTo(next, chains) ==
  /\ todo = <<>>
  /\ pc' = next /\ todo' = chains
  /\ UNCHANGED <<devVars, trig, aborted, dev, ladderVars, calls, faults, histVars>>

FaultyOpens == Worker.window /\ first

\* Armed: open the window if this band has one (the IMX290's ladder re-opens
\* one only in the trigger band), else read.
Opens == Worker.window /\ (first \/ trig)

Armed ==
  /\ pc = "arm" /\ first' = FALSE
  /\ IF Opens THEN StepTo("open", Chain(Worker.open)) /\ UNCHANGED ticker
     ELSE /\ StepTo("read", <<>>)
          /\ ticker' = IF Worker.ticks THEN "waiting" ELSE "off"

Opened == pc = "open" /\ StepTo("hold", <<>>) /\ UNCHANGED <<first, ticker>>

\* The exposure elapsed.
Held == pc = "hold" /\ StepTo("rearm", Chain(Worker.rearm)) /\ UNCHANGED <<first, ticker>>

Rearmed == pc = "rearm" /\ StepTo("close", Chain(Worker.close)) /\ UNCHANGED <<first, ticker>>

FaultyHoldAborted ==
  /\ pc = "hold" /\ trig /\ aborted
  /\ pc' = "drop" /\ todo' = <<>> /\ res' = "aborted"
  /\ UNCHANGED <<devVars, trig, first, aborted, dev, ticker, ladderVars, calls, faults,
                 win, lost, exitFailed, stalls>>

\* The poll of the trigger band (below it the hold is one sleep) sees the
\* abort and drops the signal on the way out.
HoldAborted ==
  /\ pc = "hold" /\ trig /\ aborted
  /\ pc' = "drop" /\ todo' = Chain(Worker.close) /\ res' = "aborted"
  /\ UNCHANGED <<devVars, trig, first, aborted, dev, ticker, ladderVars, calls, faults,
                 win, lost, exitFailed, stalls>>

Closed ==
  /\ pc = "close" /\ StepTo("read", <<>>) /\ UNCHANGED first
  /\ ticker' = IF Worker.ticks THEN "waiting" ELSE "off"

Dropped == pc = "drop" /\ StepTo("exit", Worker.halt) /\ UNCHANGED <<first, ticker>>

Returned == pc = "exit" /\ StepTo("idle", <<>>) /\ UNCHANGED <<first, ticker>>

-----------------------------------------------------------------------------
(* The read: one, or the ladder of the two free-run STARVIS profiles *)

\* What a read can bring: a whole frame, one 512 bytes short, a short one, a
\* few header bytes (under 4096), nothing, or an error.
Outcomes == {"full", "short512", "short", "tiny", "zero", "error"}

Result(o) == IF o = "full" THEN "ok"
             ELSE IF o = "error" THEN "error"
             ELSE IF aborted THEN "aborted" ELSE "short"

\* The IMX174 looks at the abort before the error, and counts the stall.
Read174(o) ==
  /\ LET r == IF o = "full" THEN "ok" ELSE IF aborted THEN "aborted" ELSE Result(o)
     IN /\ Leave(r)
        /\ IF r \in {"short", "error"} THEN NoteStall ELSE UNCHANGED stalls
  /\ UNCHANGED <<ladderVars, dev>>

Read178(o) == Leave(Result(o)) /\ UNCHANGED <<ladderVars, dev, stalls>>

\* One StreamFrame; the ticker is joined before the exit.
ReadDDR(o) ==
  /\ pc' = "join" /\ res' = Result(o)
  /\ UNCHANGED <<todo, exitFailed, ladderVars, dev, stalls>>

Again == pc' = "read" /\ UNCHANGED <<todo, dev>>

\* ResetDevice, then the full re-arm.  Its own error is dropped; whether the
\* FX3 keeps streaming through it is the device's affair.
ResetAndRearm ==
  /\ pc' = "begin" /\ UNCHANGED todo
  /\ dev' \in {dev, dev \ {"fx3"}}

\* FPGA register 0x23 bit 2 says the triggered frame is still buffered: pulse
\* FPGABufReload and read it again.
Reload == reloads' = reloads + 1 /\ pc' = "reload" /\ todo' = <<<<Nothing>>>> /\ UNCHANGED dev

FreshWindow == reloads' = IF trig THEN 0 ELSE reloads

FaultyLadder290(o) ==
  IF o \in {"full", "error"} \/ aborted
    THEN Leave(Result(o)) /\ UNCHANGED <<ladderVars, dev, stalls>>
  ELSE
    /\ UNCHANGED <<exitFailed, res, attempt>>
    /\ NoteStall
    /\ \/ /\ o = "zero" /\ UNCHANGED retries
          /\ IF zeros + 1 < 4 THEN zeros' = zeros + 1 /\ Again /\ UNCHANGED reloads
             ELSE zeros' = 0 /\ ResetAndRearm /\ FreshWindow
       \/ /\ o # "zero" /\ retries < 2 /\ zeros' = 0
          /\ retries' = retries + 1 /\ Again /\ UNCHANGED reloads

\* IMX290: at most 12 reads (imx290ReadAttempts).  The fourth zero read in a
\* row resets the device; a short frame is reloaded up to 3 times, then
\* retried twice.
Ladder290(o) ==
  IF o \in {"full", "error"} \/ aborted
    THEN Leave(Result(o)) /\ UNCHANGED <<ladderVars, dev, stalls>>
  ELSE IF attempt >= 12
    THEN Leave("short") /\ UNCHANGED <<ladderVars, dev, stalls>>
  ELSE
    /\ NoteStall
    /\ attempt' = attempt + 1
    /\ \/ /\ o = "zero" /\ UNCHANGED <<retries, exitFailed, res>>
          /\ IF zeros + 1 < 4 THEN zeros' = zeros + 1 /\ Again /\ UNCHANGED reloads
             ELSE zeros' = 0 /\ ResetAndRearm /\ FreshWindow
       \/ /\ o # "zero" /\ zeros' = 0
          /\ \/ trig /\ reloads < 3 /\ Reload /\ UNCHANGED <<retries, exitFailed, res>>
             \/ /\ retries' = retries + 1 /\ UNCHANGED <<reloads, dev>>
                /\ IF retries' > 2 THEN Leave("short")
                   ELSE pc' = "read" /\ UNCHANGED <<todo, exitFailed, res>>

\* IMX462: at most 7 reads.  Exactly 512 bytes short is a whole frame, its
\* tail zeroed; anything under 4096 bytes counts as empty.
Ladder462(o) ==
  IF o \in {"full", "short512", "error"}
    THEN /\ Leave(IF o = "error" THEN o ELSE "ok")
         /\ UNCHANGED <<ladderVars, dev, stalls>>
  ELSE IF aborted \/ attempt > 6
    THEN Leave(Result(o)) /\ UNCHANGED <<ladderVars, dev, stalls>>
  ELSE
    /\ NoteStall
    /\ attempt' = attempt + 1
    /\ UNCHANGED <<retries, exitFailed, res>>
    /\ IF o \in {"tiny", "zero"}
         THEN IF zeros + 1 < 4 THEN zeros' = zeros + 1 /\ Again /\ UNCHANGED reloads
              ELSE zeros' = 0 /\ ResetAndRearm /\ FreshWindow
         ELSE /\ zeros' = 0
              /\ \/ trig /\ reloads < 3 /\ Reload
                 \/ Again /\ UNCHANGED reloads

ReadEnds ==
  /\ pc = "read"
  /\ \E o \in Outcomes :
       CASE die = "imx174" -> Read174(o)
         [] die = "imx178" -> Read178(o)
         [] die = "imx290" -> Ladder290(o)
         [] die = "imx462" -> Ladder462(o)
         [] OTHER          -> ReadDDR(o)
  /\ UNCHANGED <<devVars, trig, first, aborted, ticker, calls, faults, win, lost>>

Reloaded == pc = "reload" /\ StepTo("read", <<>>) /\ UNCHANGED <<first, ticker>>

\* close(stop), and the goroutine is waited for.
Joined ==
  /\ pc = "join" /\ ticker = "off"
  /\ Leave(res)
  /\ UNCHANGED <<devVars, trig, first, aborted, dev, ticker, ladderVars, calls, faults,
                 win, lost, stalls>>

Tick(from, to) ==
  /\ ticker = from /\ ticker' = to
  /\ UNCHANGED <<devVars, trig, pc, todo, first, aborted, dev, ladderVars, calls, faults, histVars>>

\* The 20 ms tick may be ready together with the closed stop channel, and the
\* select takes either.
TickerPulses == Tick("waiting", "pulsing")
TickerPulsed == Tick("pulsing", "waiting")
TickerStops  == pc # "read" /\ Tick("waiting", "off")

WorkerSteps ==
  \/ BeginArm \/ Transfer \/ TransferFails
  \/ Armed \/ Opened \/ Held \/ HoldAborted \/ Rearmed \/ Closed \/ Dropped \/ Returned
  \/ ReadEnds \/ Reloaded \/ Joined

Next == Start \/ Abort \/ WorkerSteps \/ TickerPulses \/ TickerPulsed \/ TickerStops

Spec == Init /\ [][Next]_vars

\* The worker's thread runs, every read ends (each has a deadline), a pulse's
\* control transfer ends, and select, which picks at random, does not choose
\* the tick over the closed channel for ever.
Fairness == WF_vars(WorkerSteps) /\ WF_vars(TickerPulsed) /\ SF_vars(TickerStops)

FairSpec == Spec /\ Fairness

-----------------------------------------------------------------------------
(* Properties *)

TypeOK ==
  /\ die \in AllDies /\ usb3 \in BOOLEAN /\ trig \in BOOLEAN
  /\ pc \in {"idle", "begin", "arm", "open", "hold", "rearm", "close", "read", "reload",
             "join", "drop", "exit"}
  /\ todo \in Seq(Seq([set : SUBSET Bits, clr : SUBSET Bits]))
  /\ first \in BOOLEAN /\ aborted \in BOOLEAN
  /\ dev \subseteq Bits
  /\ ticker \in {"off", "waiting", "pulsing"}
  /\ attempt \in 0 .. 12 /\ zeros \in 0 .. 3 /\ reloads \in 0 .. 3 /\ retries \in 0 .. 3
  /\ calls \in 0 .. MaxCalls /\ faults \in 0 .. MaxFaults
  /\ res \in {"none", "ok", "short", "aborted", "error"}
  /\ win \in {"none", "open", "stale", "released"}
  /\ lost \in BOOLEAN /\ exitFailed \in BOOLEAN /\ stalls \in 0 .. 2

\* A call leaves the trigger signal up only when one of its transfers failed
\* while the signal was up: every path out of an open window, the abort's
\* included, drops it.  Left up, the next capture's window is not gated.
SignalDropped == pc = "idle" /\ "sig" \in dev => lost

\* In the trigger band a frame is only ever read after this arm's own window
\* was opened on an edge and released, the re-arm after a ResetDevice
\* included, and on the IMX462 with WaitMode still set; short of that the
\* FPGA has no frame to give and the read waits out its deadline.  Only a
\* signal that a failed transfer left up spoils the edge.
ReadsGated ==
  pc = "read" /\ trig =>
    /\ win = "released" \/ (win = "stale" /\ faults > 0)
    /\ die = "imx462" => "wait" \in dev

\* A call whose exit had no failing transfer ends with the FX3, the readout and
\* (but for the IMX178) the sensor stopped, whatever ended it; the two profiles
\* that put the halt in place after their first arm skip it when that arm fails.
HaltedOnReturn ==
  pc = "idle" /\ ~exitFailed /\ (first => Worker.covers) =>
    /\ "fx3" \notin dev /\ "stop" \in dev
    /\ die # "imx178" => "on" \notin dev

\* No FPGABufReload is in flight once the worker is past its read: the exit's
\* transfers, and whatever the camera does next, have the bus to themselves.
TickerJoined == ticker # "off" => pc \in {"read", "join"}

\* A worker leaves the camera at rest: no trigger signal, nothing streaming, no
\* ticker, unless the transfer that was to see to it failed.
LeftAtRest == TypeOK /\ SignalDropped /\ HaltedOnReturn /\ TickerJoined

\* Every call returns, whatever the reads bring: the ladders are bounded, the
\* cycle of zero reads and device resets too.
CallsReturn == pc # "idle" ~> pc = "idle"

\* The IMX455 worker's header: it "never calls NoteStall, so StallCount stays
\* 0 for the DDR profiles".
StallFreeDDR == die \in {"imx455", "imx571", "imx585zwo", "imx585poa"} => stalls = 0

\* imx290.go and imx462.go: "Halt the readout on every return".
HaltsEveryReturn == pc = "idle" /\ ~exitFailed => "fx3" \notin dev
=============================================================================
