------------------------------ MODULE Cooling ------------------------------
(***************************************************************************)
(* TEC cooling of one Camera: EnableCooling, DisableCooling and Close      *)
(* called by any threads, the regulation loops they start and stop, and    *)
(* the hardware Thermal that every one of them writes through.             *)
(*                                                                         *)
(* Camera.mu guards the loop's handle and is released before any wait or   *)
(* USB transfer, so a step is one critical section, one transfer or one    *)
(* access of the write cache, which has a mutex of its own.  SetTECPower   *)
(* is a routine of both callers and loops: lvl[t] is its argument, ret[t]  *)
(* the label thread t goes on from.                                        *)
(*                                                                         *)
(* The Cooler's temperatures, gains and ramp are data: a tick drives any   *)
(* level, or none.  A Faulty operator is a mutated form of the definition  *)
(* after it, used by no specification.                                     *)
(***************************************************************************)
EXTENDS Naturals, FiniteSets

CONSTANTS
  Callers,            \* threads that use the Camera
  Ops,                \* the calls they make, a subset of AllOps
  Backends,           \* Thermal values a caller may name in EnableCooling
  Attached,           \* the backend attached at Open
  MaxLevel,           \* the TEC drive levels are 0 .. MaxLevel
  RunMaxConsecFails,  \* runMaxConsecFails
  ForgetsFailedWrite, \* a failed write invalidates the cache (ZWO; not PlayerOne)
  FanInFlags,         \* the fan is a bit of the register the heater gate is in (ZWO)
  MayFail,            \* a transfer of an open, attached device may fail
  MayUnplug,          \* the device may go away
  MaxLoops            \* bound: regulation loops started in a behaviour

AllOps   == {"enable", "disable", "close", "heat", "reset"}
Loops    == 1 .. MaxLoops
Threads  == Callers \cup Loops
Levels   == 0 .. MaxLevel
NoLoop   == 0

ASSUME CoolingAssumption ==
  /\ Callers \cap Loops = {}
  /\ Ops \subseteq AllOps
  /\ Attached \in Backends
  /\ MaxLevel \in Nat /\ MaxLoops \in Nat
  /\ RunMaxConsecFails \in Nat \ {0}
  /\ ForgetsFailedWrite \in BOOLEAN /\ FanInFlags \in BOOLEAN
  /\ MayFail \in BOOLEAN /\ MayUnplug \in BOOLEAN

VARIABLES
  \* Camera fields under mu
  cooler,     \* the running loop, or NoLoop; coolCancel and coolDone are its own
  thermal,    \* the seam Temperature reads
  coolFault,  \* a loop retired itself (its error)
  \* the write cache
  cache,      \* [level, levelOK, fan, fanOK]
  \* the loops
  started,    \* loops started so far
  io,         \* the backend loop l drives
  on,         \* loop l has a target
  cancelled,  \* loops whose context is cancelled
  fails,      \* consecutive failed steps of loop l
  \* transport and device
  closed, attached,
  tec,        \* the drive level the FPGA holds
  flags,      \* [fan, warm]: the fan runs, the anti-dew heater is gated on
  \* thread-local
  pc, op, own, want, lvl, snap, ret,
  \* history, read by the properties only
  wanted,     \* the last of EnableCooling and DisableCooling to take effect enabled
  excused     \* the shutdown zero of the last DisableCooling or Close failed

camVars  == <<cooler, thermal, coolFault>>
loopVars == <<started, io, on, cancelled, fails>>
devVars  == <<tec, flags>>
usbVars  == <<closed, attached>>
locVars  == <<op, own, want, lvl, snap, ret>>
histVars == <<wanted, excused>>
vars     == <<camVars, cache, loopVars, devVars, usbVars, pc, locVars, histVars>>

-----------------------------------------------------------------------------
(* Helpers *)

Goto(t, from, to) == pc[t] = from /\ pc' = [pc EXCEPT ![t] = to]

Reachable   == attached /\ ~closed
MayBreak    == MayFail \/ ~Reachable       \* a transfer may end in an error
NoFlags     == [fan |-> FALSE, warm |-> FALSE]
Forgotten   == [cache EXCEPT !.levelOK = FALSE, !.fanOK = FALSE]  \* invalidate

\* SetTECPower(level), from label from; the routine continues at label back.
Invoke(t, from, level, back) ==
  /\ Goto(t, from, "fan")
  /\ lvl' = [lvl EXCEPT ![t] = level]
  /\ ret' = [ret EXCEPT ![t] = back]

\* What Run makes of a step's outcome; a caller and the fail-safe zero make nothing.
Outcome(t, ok) ==
  fails' = IF t \notin Loops \/ ret[t] # "tick" THEN fails
           ELSE [fails EXCEPT ![t] = IF ok THEN 0 ELSE @ + 1]

Init ==
  /\ cooler = NoLoop /\ thermal = Attached /\ coolFault = FALSE
  /\ cache = [level |-> 0, levelOK |-> FALSE, fan |-> FALSE, fanOK |-> FALSE]
  /\ started = 0 /\ cancelled = {}
  /\ io = [l \in Loops |-> Attached]
  /\ on = [l \in Loops |-> FALSE]
  /\ fails = [l \in Loops |-> 0]
  /\ closed = FALSE /\ attached = TRUE
  /\ tec = 0 /\ flags = NoFlags
  /\ pc   = [t \in Threads |-> IF t \in Callers THEN "idle" ELSE "unborn"]
  /\ op   = [t \in Callers |-> "none"]
  /\ own  = [t \in Callers |-> NoLoop]
  /\ want = [t \in Callers |-> Attached]
  /\ lvl  = [t \in Threads |-> 0]
  /\ snap = [t \in Threads |-> NoFlags]
  /\ ret  = [t \in Threads |-> "idle"]
  /\ wanted = FALSE /\ excused = FALSE

-----------------------------------------------------------------------------
(* Calls.  A thread makes no call on a Camera it knows is closed.          *)

Enabling == {c \in Callers : pc[c] # "idle" /\ op[c] = "enable"}

\* Each EnableCooling fits the bound MaxLoops, for it may have to start a loop.
Call(t, o) ==
  /\ ~closed
  /\ o = "enable" => started + Cardinality(Enabling) < MaxLoops
  /\ Goto(t, "idle", CASE o = "enable"  -> "en_check"
                       [] o = "disable" -> "dis_take"
                       [] o = "close"   -> "dis_take"
                       [] o = "heat"    -> "heat_read"
                       [] OTHER         -> "reset_inval")
  /\ op' = [op EXCEPT ![t] = o]
  /\ UNCHANGED <<camVars, cache, loopVars, devVars, usbVars, own, want, lvl, snap, ret, histVars>>

\* EnableCooling(b) or EnableCooling(nil), which names the attached seam: a
\* running loop on another backend is stopped first.
EnableCheck(t) ==
  /\ \E b \in Backends \cup {thermal} :
       /\ want' = [want EXCEPT ![t] = b]
       /\ Goto(t, "en_check",
               IF cooler # NoLoop /\ io[cooler] # b THEN "dis_take" ELSE "en_start")
  /\ UNCHANGED <<camVars, cache, loopVars, devVars, usbVars, op, own, lvl, snap, ret, histVars>>

\* The second critical section starts a loop, or retargets the one there is.
EnableStart(t) ==
  /\ Goto(t, "en_start", "en_target")
  /\ thermal' = want[t]
  /\ coolFault' = FALSE
  /\ wanted' = TRUE
  /\ own' = [own EXCEPT ![t] = cooler]
  /\ cooler # NoLoop
  /\ UNCHANGED <<cooler, cache, loopVars, devVars, usbVars, op, want, lvl, snap, ret, excused>>

EnableFresh(t) ==
  LET l == started + 1 IN
  /\ pc[t] = "en_start" /\ cooler = NoLoop /\ started < MaxLoops
  /\ thermal' = want[t]
  /\ coolFault' = FALSE
  /\ wanted' = TRUE
  /\ cooler' = l
  /\ started' = l
  /\ io' = [io EXCEPT ![l] = want[t]]
  /\ own' = [own EXCEPT ![t] = l]
  /\ pc' = [pc EXCEPT ![t] = "en_target", ![l] = "tick"]
  /\ UNCHANGED <<cache, on, cancelled, fails, devVars, usbVars, op, want, lvl, snap, ret, excused>>

\* SetTarget reads the temperature, which may fail, then sets on either way.
EnableTarget(t) ==
  /\ Goto(t, "en_target", "idle")
  /\ on' = [on EXCEPT ![own[t]] = TRUE]
  /\ UNCHANGED <<camVars, cache, started, io, cancelled, fails, devVars, usbVars, locVars, histVars>>

\* DisableCooling: the caller takes the loop's handle, so it stops this loop and
\* no other.
AfterDisable(t) == CASE op[t] = "enable" -> "en_start"
                     [] op[t] = "close"  -> "close_zero"
                     [] OTHER            -> "idle"

DisableTake(t) ==
  /\ Goto(t, "dis_take", IF cooler = NoLoop THEN AfterDisable(t) ELSE "dis_cancel")
  /\ own' = [own EXCEPT ![t] = cooler]
  /\ cooler' = NoLoop
  /\ wanted' = (wanted /\ op[t] = "enable")
  /\ excused' = FALSE
  /\ UNCHANGED <<thermal, coolFault, cache, loopVars, devVars, usbVars, op, want, lvl, snap, ret>>

DisableCancel(t) ==
  /\ Goto(t, "dis_cancel", "dis_join")
  /\ cancelled' = cancelled \cup {own[t]}
  /\ UNCHANGED <<camVars, cache, started, io, on, fails, devVars, usbVars, locVars, histVars>>

FaultyDisableJoin(t) ==
  /\ Goto(t, "dis_join", "dis_check")
  /\ UNCHANGED <<camVars, cache, loopVars, devVars, usbVars, locVars, histVars>>

DisableJoin(t) ==
  /\ Goto(t, "dis_join", "dis_check")
  /\ pc[own[t]] = "done"
  /\ UNCHANGED <<camVars, cache, loopVars, devVars, usbVars, locVars, histVars>>

\* A fresh loop owns the TEC by now: leave the drive to it.
DisableCheck(t) ==
  /\ Goto(t, "dis_check", IF cooler # NoLoop THEN AfterDisable(t) ELSE "dis_zero")
  /\ UNCHANGED <<camVars, cache, loopVars, devVars, usbVars, locVars, histVars>>

DisableZero(t) ==
  /\ Invoke(t, "dis_zero", 0, AfterDisable(t))
  /\ cache' = Forgotten
  /\ UNCHANGED <<camVars, loopVars, devVars, usbVars, op, own, want, snap, histVars>>

\* Close zeroes the drive once more, whatever stopped the loop, ...
CloseZero(t) ==
  /\ Invoke(t, "close_zero", 0, "close")
  /\ cache' = Forgotten
  /\ UNCHANGED <<camVars, loopVars, devVars, usbVars, op, own, want, snap, histVars>>

\* ... then closes the transport.
CloseTransport(t) ==
  /\ Goto(t, "close", "idle")
  /\ closed' = TRUE
  /\ UNCHANGED <<camVars, cache, loopVars, devVars, attached, locVars, histVars>>

-----------------------------------------------------------------------------
(* The regulation loop: Cooler.Run on a goroutine of its own *)

\* The fail-safe fires in the same pass as the failure that reaches the limit.
Spent(l) == fails[l] >= RunMaxConsecFails

LoopCancelled(l) ==
  /\ ~Spent(l) /\ l \in cancelled
  /\ Goto(l, "tick", "done")
  /\ UNCHANGED <<camVars, cache, loopVars, devVars, usbVars, locVars, histVars>>

\* Step fails on the temperature read ...
FaultyStepFails(l) ==
  /\ ~Spent(l) /\ MayBreak
  /\ Goto(l, "tick", "tick")
  /\ fails' = [fails EXCEPT ![l] = 0]
  /\ UNCHANGED <<camVars, cache, started, io, on, cancelled, devVars, usbVars, locVars, histVars>>

StepFails(l) ==
  /\ ~Spent(l) /\ MayBreak
  /\ Goto(l, "tick", "tick")
  /\ fails' = [fails EXCEPT ![l] = @ + 1]
  /\ UNCHANGED <<camVars, cache, started, io, on, cancelled, devVars, usbVars, locVars, histVars>>

\* ... or reads it and drives nothing: no target yet, or the rate guard skips ...
StepSkips(l) ==
  /\ ~Spent(l) /\ Reachable
  /\ Goto(l, "tick", "tick")
  /\ fails' = [fails EXCEPT ![l] = 0]
  /\ UNCHANGED <<camVars, cache, started, io, on, cancelled, devVars, usbVars, locVars, histVars>>

\* ... or drives the level its plan computed.
StepDrives(l) ==
  /\ ~Spent(l) /\ Reachable /\ on[l]
  /\ \E v \in Levels : Invoke(l, "tick", v, "tick")
  /\ UNCHANGED <<camVars, cache, loopVars, devVars, usbVars, op, own, want, snap, histVars>>

GiveUp(l) ==
  /\ Spent(l)
  /\ Invoke(l, "tick", 0, "retire")
  /\ UNCHANGED <<camVars, cache, loopVars, devVars, usbVars, op, own, want, snap, histVars>>

\* The goroutine drops the handle of a loop that retired itself, unless the loop
\* was stopped meanwhile or another one has taken its place.
RetireCheck(l) ==
  /\ Goto(l, "retire", IF l \in cancelled THEN "done" ELSE "retire_lock")
  /\ UNCHANGED <<camVars, cache, loopVars, devVars, usbVars, locVars, histVars>>

FaultyRetire(l) ==
  /\ Goto(l, "retire_lock", "done")
  /\ cooler' = NoLoop
  /\ coolFault' = (coolFault \/ cooler = l)
  /\ UNCHANGED <<thermal, cache, loopVars, devVars, usbVars, locVars, histVars>>

FaultyRetireKeeps(l) ==
  /\ Goto(l, "retire_lock", "done")
  /\ coolFault' = (coolFault \/ cooler = l)
  /\ UNCHANGED <<cooler, thermal, cache, loopVars, devVars, usbVars, locVars, histVars>>

FaultyRetireSilent(l) ==
  /\ Goto(l, "retire_lock", "done")
  /\ cooler' = IF cooler = l THEN NoLoop ELSE cooler
  /\ UNCHANGED <<thermal, coolFault, cache, loopVars, devVars, usbVars, locVars, histVars>>

Retire(l) ==
  /\ Goto(l, "retire_lock", "done")
  /\ cooler' = IF cooler = l THEN NoLoop ELSE cooler
  /\ coolFault' = (coolFault \/ cooler = l)
  /\ UNCHANGED <<thermal, cache, loopVars, devVars, usbVars, locVars, histVars>>

-----------------------------------------------------------------------------
(* SetTECPower: the fan first, then the drive, each through the cache.  A  *)
(* value the cache holds is skipped unless coolRefresh has passed, so a    *)
(* write is always possible.  A write that reports an error may have       *)
(* reached the device.                                                     *)

Fanned(t) == lvl[t] > 0

FanSkip(t) ==
  /\ cache.fanOK /\ cache.fan = Fanned(t)
  /\ Goto(t, "fan", "level")
  /\ UNCHANGED <<camVars, cache, loopVars, devVars, usbVars, locVars, histVars>>

\* The fan is set by a read-modify-write; PlayerOne's own register needs no read.
FanRead(t) ==
  /\ Reachable
  /\ Goto(t, "fan", "fan_write")
  /\ snap' = [snap EXCEPT ![t] = flags]
  /\ UNCHANGED <<camVars, cache, loopVars, devVars, usbVars, op, own, want, lvl, ret, histVars>>

FlagsWithFan(t) == [fan |-> Fanned(t), warm |-> IF FanInFlags THEN snap[t].warm ELSE flags.warm]

FanWrite(t) ==
  /\ Reachable
  /\ Goto(t, "fan_write", "fan_mark")
  /\ flags' = FlagsWithFan(t)
  /\ snap' = [snap EXCEPT ![t] = NoFlags]
  /\ UNCHANGED <<camVars, cache, loopVars, tec, usbVars, op, own, want, lvl, ret, histVars>>

FanMark(t) ==
  /\ Goto(t, "fan_mark", "level")
  /\ cache' = [cache EXCEPT !.fan = Fanned(t), !.fanOK = TRUE]
  /\ UNCHANGED <<camVars, loopVars, devVars, usbVars, locVars, histVars>>

\* Either transfer of SetFan fails: SetTECPower returns without the drive write.
FanFails(t) ==
  /\ MayBreak
  /\ \/ Goto(t, "fan", ret[t]) /\ UNCHANGED flags
     \/ /\ Goto(t, "fan_write", ret[t])
        /\ flags' \in {flags} \cup (IF Reachable THEN {FlagsWithFan(t)} ELSE {})
  /\ cache' = IF ForgetsFailedWrite THEN Forgotten ELSE cache
  /\ Outcome(t, FALSE)
  /\ excused' = (excused \/ t \in Callers)
  /\ snap' = [snap EXCEPT ![t] = NoFlags]
  /\ UNCHANGED <<camVars, started, io, on, cancelled, tec, usbVars, op, own, want, lvl, ret, wanted>>

LevelSkip(t) ==
  /\ cache.levelOK /\ cache.level = lvl[t]
  /\ Goto(t, "level", ret[t])
  /\ Outcome(t, TRUE)
  /\ UNCHANGED <<camVars, cache, started, io, on, cancelled, devVars, usbVars, locVars, histVars>>

LevelWrite(t) ==
  /\ Reachable
  /\ Goto(t, "level", "level_mark")
  /\ tec' = lvl[t]
  /\ UNCHANGED <<camVars, cache, loopVars, flags, usbVars, locVars, histVars>>

LevelMark(t) ==
  /\ Goto(t, "level_mark", ret[t])
  /\ cache' = [cache EXCEPT !.level = lvl[t], !.levelOK = TRUE]
  /\ Outcome(t, TRUE)
  /\ UNCHANGED <<camVars, started, io, on, cancelled, devVars, usbVars, locVars, histVars>>

FaultyLevelFails(t) ==
  /\ MayBreak
  /\ Goto(t, "level", ret[t])
  /\ tec' \in {tec} \cup (IF Reachable THEN {lvl[t]} ELSE {})
  /\ Outcome(t, FALSE)
  /\ excused' = (excused \/ t \in Callers)
  /\ UNCHANGED <<camVars, cache, started, io, on, cancelled, flags, usbVars, locVars, wanted>>

LevelFails(t) ==
  /\ MayBreak
  /\ Goto(t, "level", ret[t])
  /\ tec' \in {tec} \cup (IF Reachable THEN {lvl[t]} ELSE {})
  /\ cache' = IF ForgetsFailedWrite THEN Forgotten ELSE cache
  /\ Outcome(t, FALSE)
  /\ excused' = (excused \/ t \in Callers)
  /\ UNCHANGED <<camVars, started, io, on, cancelled, flags, usbVars, locVars, wanted>>

-----------------------------------------------------------------------------
(* SetHeater and the device reset of a capture's recovery *)

HeatRead(t) ==
  /\ Reachable
  /\ Goto(t, "heat_read", "heat_write")
  /\ snap' = [snap EXCEPT ![t] = flags]
  /\ UNCHANGED <<camVars, cache, loopVars, devVars, usbVars, op, own, want, lvl, ret, histVars>>

Warmed(t) == [fan : {IF FanInFlags THEN snap[t].fan ELSE flags.fan}, warm : BOOLEAN]

HeatWrite(t) ==
  /\ Reachable
  /\ Goto(t, "heat_write", "idle")
  /\ flags' \in Warmed(t)
  /\ snap' = [snap EXCEPT ![t] = NoFlags]
  /\ UNCHANGED <<camVars, cache, loopVars, tec, usbVars, op, own, want, lvl, ret, histVars>>

HeatFails(t) ==
  /\ MayBreak
  /\ \/ Goto(t, "heat_read", "idle") /\ UNCHANGED flags
     \/ /\ Goto(t, "heat_write", "idle")
        /\ flags' \in {flags} \cup (IF Reachable THEN Warmed(t) ELSE {})
  /\ snap' = [snap EXCEPT ![t] = NoFlags]
  /\ UNCHANGED <<camVars, cache, loopVars, tec, usbVars, op, own, want, lvl, ret, histVars>>

ResetInvalidate(t) ==
  /\ Goto(t, "reset_inval", "reset")
  /\ cache' = Forgotten
  /\ UNCHANGED <<camVars, loopVars, devVars, usbVars, locVars, histVars>>

\* The reset wipes the FPGA cooling registers.
ResetDevice(t) ==
  /\ Goto(t, "reset", "idle")
  /\ \/ Reachable /\ tec' = 0 /\ flags' \in [fan : BOOLEAN, warm : {FALSE}]
     \/ MayBreak /\ UNCHANGED devVars
  /\ UNCHANGED <<camVars, cache, loopVars, usbVars, locVars, histVars>>

Unplug ==
  /\ MayUnplug /\ attached
  /\ attached' = FALSE
  /\ UNCHANGED <<camVars, cache, loopVars, devVars, closed, pc, locVars, histVars>>

-----------------------------------------------------------------------------

SetTECPower(t) ==
  \/ FanSkip(t)   \/ FanRead(t)    \/ FanWrite(t)  \/ FanMark(t)   \/ FanFails(t)
  \/ LevelSkip(t) \/ LevelWrite(t) \/ LevelMark(t) \/ LevelFails(t)

CallerStep(t) ==
  \/ EnableCheck(t)   \/ EnableStart(t)   \/ EnableFresh(t) \/ EnableTarget(t)
  \/ DisableTake(t)   \/ DisableCancel(t) \/ DisableJoin(t)
  \/ DisableCheck(t)  \/ DisableZero(t)
  \/ CloseZero(t)     \/ CloseTransport(t)
  \/ HeatRead(t)      \/ HeatWrite(t)     \/ HeatFails(t)
  \/ ResetInvalidate(t) \/ ResetDevice(t)
  \/ SetTECPower(t)

LoopStep(l) ==
  \/ LoopCancelled(l) \/ StepFails(l) \/ StepSkips(l) \/ StepDrives(l)
  \/ GiveUp(l)        \/ RetireCheck(l) \/ Retire(l)
  \/ SetTECPower(l)

Next ==
  \/ \E t \in Callers : CallerStep(t) \/ \E o \in Ops : Call(t, o)
  \/ \E l \in Loops : LoopStep(l)
  \/ Unplug

Spec == Init /\ [][Next]_vars

\* Threads run, and the select of Run, which picks at random between a tick and
\* a cancelled context when both are ready, does not pick the tick for ever.
FairSpec ==
  /\ Spec
  /\ \A t \in Callers : WF_vars(CallerStep(t))
  /\ \A l \in Loops : WF_vars(LoopStep(l)) /\ SF_vars(LoopCancelled(l))

-----------------------------------------------------------------------------
(* Properties *)

CallerLabels == {"idle", "en_check", "en_start", "en_target", "dis_take", "dis_cancel",
  "dis_join", "dis_check", "dis_zero", "close_zero", "close", "heat_read", "heat_write",
  "reset_inval", "reset"}
PowerLabels  == {"fan", "fan_write", "fan_mark", "level", "level_mark"}
LoopLabels   == {"unborn", "tick", "retire", "retire_lock", "done"}

\* Every field has its type, and the loop's handle names a loop that was started.
TypeOK ==
  /\ cooler \in 0 .. started /\ started \in 0 .. MaxLoops
  /\ thermal \in Backends /\ coolFault \in BOOLEAN
  /\ cache \in [level : Levels, levelOK : BOOLEAN, fan : BOOLEAN, fanOK : BOOLEAN]
  /\ io \in [Loops -> Backends] /\ on \in [Loops -> BOOLEAN]
  /\ cancelled \subseteq 1 .. started
  /\ fails \in [Loops -> 0 .. RunMaxConsecFails]
  /\ closed \in BOOLEAN /\ attached \in BOOLEAN
  /\ tec \in Levels /\ flags \in [fan : BOOLEAN, warm : BOOLEAN]
  /\ pc \in [Threads -> CallerLabels \cup PowerLabels \cup LoopLabels]
  /\ op \in [Callers -> AllOps \cup {"none"}]
  /\ own \in [Callers -> 0 .. started]
  /\ want \in [Callers -> Backends]
  /\ lvl \in [Threads -> Levels]
  /\ snap \in [Threads -> [fan : BOOLEAN, warm : BOOLEAN]]
  /\ ret \in [Threads -> {"idle", "en_start", "close_zero", "close", "tick", "retire"}]
  /\ wanted \in BOOLEAN /\ excused \in BOOLEAN

AllIdle  == \A t \in Callers : pc[t] = "idle"
Live(l)  == pc[l] \notin {"unborn", "done"}
Quiet    == AllIdle /\ \A l \in Loops : pc[l] \in {"unborn", "tick", "done"}

\* The loop CoolerOn reports is running and nobody has cancelled it: a handle
\* never outlives its loop, however disables, retirements and enables interleave.
CoolerOnIsTrue == cooler # NoLoop => Live(cooler) /\ cooler \notin cancelled

\* No loop is orphaned: once every call has returned, the only loop that may go
\* on driving the TEC is the one whose handle the Camera holds.
OneRegulator == AllIdle => \A l \in Loops : Live(l) => l = cooler

\* A cooler that was enabled and not disabled since is regulating, or has
\* reported why it gave up: it never goes quietly off.
EnabledOrFaulted == AllIdle /\ wanted => cooler # NoLoop \/ coolFault

\* Temperature reads the backend that regulation drives.
OneBackend == AllIdle /\ cooler # NoLoop => io[cooler] = thermal

\* Turning regulation off leaves the TEC off, and so does Close: with every call
\* returned and no loop, the FPGA holds no drive, unless the call's own write of
\* the zero failed.
OffMeansZero == AllIdle /\ ~wanted /\ ~excused /\ (\A l \in Loops : ~Live(l)) => tec = 0

\* The TEC's hot side is fanned while the TEC is driven, at every moment no
\* SetTECPower is in progress.
FanWhileDriven == Quiet /\ tec > 0 => flags.fan

\* The cache skips only what the FPGA holds: at rest, a level it says is on the
\* wire is the one in the register.
CacheHolds == Quiet /\ cache.levelOK => tec = cache.level

\* DisableCooling and Close return: the loop they join always ends.
CallsReturn == \A t \in Callers : (pc[t] # "idle" /\ op[t] \in {"disable", "close"}) ~> pc[t] = "idle"

\* A loop whose device is gone gives up instead of ticking for ever.
LostDeviceRetires == \A l \in Loops : (~attached /\ Live(l)) ~> ~Live(l)

\* Every loop that should end does, and whoever waits for it returns.
LoopsEnd == CallsReturn /\ LostDeviceRetires

=============================================================================
