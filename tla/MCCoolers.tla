----------------------------- MODULE MCCoolers -----------------------------
(* Three instances of Cooling for TLC in one run:                            *)
(*   "life"   two callers, failing transfers: the module itself              *)
(*   "off"    one caller that also closes, a device that works               *)
(*   "cache"  one caller, two backends, the heater, failing transfers (ZWO)  *)
(* A behaviour is of one scenario and leaves the variables of the others as  *)
(* they start; "off" and "cache" share the x-prefixed ones.                  *)
EXTENDS Cooling

CONSTANTS t1, t2

VARIABLES scenario,
          xcooler, xthermal, xcoolFault, xcache, xstarted, xio, xon, xcancelled,
          xfails, xclosed, xattached, xtec, xflags, xpc, xop, xown, xwant, xlvl,
          xsnap, xret, xwanted, xexcused

otherVars == <<xcooler, xthermal, xcoolFault, xcache, xstarted, xio, xon, xcancelled,
               xfails, xclosed, xattached, xtec, xflags, xpc, xop, xown, xwant, xlvl,
               xsnap, xret, xwanted, xexcused>>

LifeOps    == {"enable", "disable"}
HwOnly     == {"hw"}
TwoCallers == {t1, t2}

Off == INSTANCE Cooling WITH
          Callers <- {t1}, Ops <- {"enable", "disable", "close"}, Backends <- {"hw"}, Attached <- "hw",
          MaxLevel <- 2, RunMaxConsecFails <- 2, ForgetsFailedWrite <- TRUE, FanInFlags <- TRUE,
          MayFail <- FALSE, MayUnplug <- FALSE, MaxLoops <- 3,
          cooler <- xcooler, thermal <- xthermal, coolFault <- xcoolFault, cache <- xcache, started <- xstarted,
          io <- xio, on <- xon, cancelled <- xcancelled, fails <- xfails, closed <- xclosed,
          attached <- xattached, tec <- xtec, flags <- xflags, pc <- xpc, op <- xop,
          own <- xown, want <- xwant, lvl <- xlvl, snap <- xsnap, ret <- xret,
          wanted <- xwanted, excused <- xexcused

Cache == INSTANCE Cooling WITH
          Callers <- {t1}, Ops <- {"enable", "disable", "heat"}, Backends <- {"hw", "other"}, Attached <- "hw",
          MaxLevel <- 1, RunMaxConsecFails <- 1, ForgetsFailedWrite <- TRUE, FanInFlags <- TRUE,
          MayFail <- TRUE, MayUnplug <- FALSE, MaxLoops <- 2,
          cooler <- xcooler, thermal <- xthermal, coolFault <- xcoolFault, cache <- xcache, started <- xstarted,
          io <- xio, on <- xon, cancelled <- xcancelled, fails <- xfails, closed <- xclosed,
          attached <- xattached, tec <- xtec, flags <- xflags, pc <- xpc, op <- xop,
          own <- xown, want <- xwant, lvl <- xlvl, snap <- xsnap, ret <- xret,
          wanted <- xwanted, excused <- xexcused

AllInit ==
  \/ scenario = "life"  /\ Init /\ Off!Init
  \/ scenario = "off"   /\ Init /\ Off!Init
  \/ scenario = "cache" /\ Init /\ Cache!Init

\* No call is made on a closed Camera, so "off" may stop there and nowhere else.
Rest == scenario = "off" /\ xclosed /\ UNCHANGED otherVars

LifeNext  == scenario = "life" /\ Next /\ UNCHANGED <<scenario, otherVars>>
OtherNext ==
  /\ \/ scenario = "off"   /\ Off!Next
     \/ scenario = "cache" /\ Cache!Next
     \/ Rest
  /\ UNCHANGED <<scenario, vars>>

AllSpec == AllInit /\ [][LifeNext \/ OtherNext]_<<scenario, vars, otherVars>>

-----------------------------------------------------------------------------
(* TypeOK, CoolerOnIsTrue, OneRegulator and EnabledOrFaulted are Cooling's   *)
(* own, over "life"; the others are each over the scenario that sets it to   *)
(* the test.                                                                 *)

\* Cooling!OffMeansZero and FanWhileDriven: regulation off leaves no drive, and
\* the fan runs while there is one.
DriveKept == scenario = "off" => Off!TypeOK /\ Off!OffMeansZero /\ Off!FanWhileDriven

\* Cooling!CacheHolds and OneBackend: what the cache says is on the wire is in the
\* register, and Temperature reads the backend that regulation drives.
CacheIsTrue == scenario = "cache" => Cache!TypeOK /\ Cache!CacheHolds /\ Cache!OneBackend
=============================================================================
