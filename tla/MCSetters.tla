----------------------------- MODULE MCSetters -----------------------------
(* What is set between captures and beside them, for TLC in one run:         *)
(*   "readout"   the configuration setters: the module itself                *)
(*   "guide"     Guide, two threads with directions of their own             *)
(*   "zwo"       Timing, the profiles of ZWO                                 *)
(*   "poa"       Timing, the one of PlayerOne, with its frame-rate cap       *)
(*   "hotplug"   Hotplug, a subscription on each platform                    *)
(* A behaviour is of one scenario and leaves the others' variables as they   *)
(* start; "zwo" and "poa" share theirs.                                      *)
EXTENDS MCReadout

CONSTANTS g1, g2

VARIABLES scenario,
          lines, st4Lines, st4Pulses, at, call, dir,
          die, tmode, tdev, expDur, settled, fresh, tbroken, tfaults,
          hhost, hcancelled, hqueue, hopen, hregistered, hsocket, hserve, hstop, hpublished,
          hstopped, hfreed, hpanicked, hforeign, hevents

guideVars == <<lines, st4Lines, st4Pulses, at, call, dir>>
timeVars == <<die, tmode, tdev, expDur, settled, fresh, tbroken, tfaults>>
plugVars == <<hhost, hcancelled, hqueue, hopen, hregistered, hsocket, hserve, hstop, hpublished,
              hstopped, hfreed, hpanicked, hforeign, hevents>>

Guiding == INSTANCE Guide WITH
             Guiders <- {g1, g2},
             DirsOf <- [t \in {g1, g2} |-> IF t = g1 THEN {"N", "S"} ELSE {"E", "W"}]

TimeZWO == INSTANCE Timing WITH
             Dies <- {"imx174", "imx178", "imx290", "imx462", "imx455", "imx571", "imx585zwo"},
             Shrinks <- {1, 4}, Links <- {TRUE},
             Exposures <- {32, 120000, 999999, 4000000}, Percents <- {40, 100}, Limits <- {0},
             MaxFaults <- 1,
             mode <- tmode, dev <- tdev, broken <- tbroken, faults <- tfaults

TimePOA == INSTANCE Timing WITH
             Dies <- {"imx585poa"}, Shrinks <- {1}, Links <- BOOLEAN,
             Exposures <- {32, 999999, 4000000}, Percents <- {100}, Limits <- {0, 5},
             MaxFaults <- 1,
             mode <- tmode, dev <- tdev, broken <- tbroken, faults <- tfaults

Plug == INSTANCE Hotplug WITH
          Hosts <- {"linux", "darwin", "windows"}, Capacity <- 2, MaxEvents <- 4,
          CloseWakes <- TRUE, MayReuse <- FALSE, StopSticks <- TRUE,
          host <- hhost, cancelled <- hcancelled, queue <- hqueue, open <- hopen, registered <-
          hregistered, socket <- hsocket, serve <- hserve, stop <- hstop, published <- hpublished,
          stopped <- hstopped, freed <- hfreed, panicked <- hpanicked, foreign <- hforeign,
          events <- hevents

AllInit ==
  /\ scenario \in {"readout", "guide", "zwo", "poa", "hotplug"}
  /\ Init /\ (scenario # "readout" => body = ASI6200MC)
  /\ Guiding!Init /\ (scenario # "guide" => dir = [t \in {g1, g2} |-> IF t = g1 THEN "N" ELSE "E"])
  /\ IF scenario = "zwo" THEN TimeZWO!Init ELSE TimePOA!Init
  /\ scenario \in {"readout", "guide", "hotplug"} => tmode.usb3
  /\ Plug!Init /\ (scenario # "hotplug" => hhost = "linux")

ReadoutNext == scenario = "readout" /\ Next /\ UNCHANGED <<scenario, guideVars, timeVars, plugVars>>
GuideNext   == scenario = "guide" /\ Guiding!Next /\ UNCHANGED <<scenario, vars, timeVars, plugVars>>
ZWONext     == scenario = "zwo" /\ TimeZWO!Next /\ UNCHANGED <<scenario, vars, guideVars, plugVars>>
POANext     == scenario = "poa" /\ TimePOA!Next /\ UNCHANGED <<scenario, vars, guideVars, plugVars>>
PlugNext    == scenario = "hotplug" /\ Plug!Next /\ UNCHANGED <<scenario, vars, guideVars, timeVars>>
\* A subscription that has ended has nothing left to do.
Over        == scenario = "hotplug" /\ ~hopen /\ UNCHANGED <<scenario, vars, guideVars, timeVars, plugVars>>

AllNext == ReadoutNext \/ GuideNext \/ ZWONext \/ POANext \/ PlugNext \/ Over

AllSpec == AllInit /\ [][AllNext]_<<scenario, vars, guideVars, timeVars, plugVars>>

(* What the theorem of Timing asks of its instances. *)
ASSUME InstancesTyped == TimeZWO!TimingConstants /\ TimePOA!TimingConstants

-----------------------------------------------------------------------------
\* Guide!LinesReported over "guide": IsPulseGuiding tells the state of the lines.
LinesReported == scenario = "guide" => Guiding!LinesReported

\* Timing!ExposureHolds over "zwo" and "poa": after any sequence of calls, the
\* sensor integrates as long as was asked for, over a frame that covers the
\* window, in the format its clock is for, and the FPGA waits for a trigger
\* exactly when the worker gives one.
ExposureHolds ==
  /\ scenario = "zwo" => TimeZWO!ExposureHolds
  /\ scenario = "poa" => TimePOA!ExposureHolds

\* Hotplug!NobodyLate and EndsWithContext over "hotplug": nobody sends on a closed
\* channel or serves a freed port, and a subscription whose context is done ends
\* (MayStep being all the guards of its steps).
SubscriptionHolds == scenario = "hotplug" => Plug!SubscriptionHolds
=============================================================================
