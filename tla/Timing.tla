------------------------------- MODULE Timing -------------------------------
(***************************************************************************)
(* How long the sensor integrates, and over which frame: the registers     *)
(* that SetROI and SetExposure write between them for the seven profiles   *)
(* (the line period HMAX, the frame length VMAX, the shutter SHS, the      *)
(* clock select, the FPGA's wait and trigger bits), after any sequence of  *)
(* window, mode, exposure and throttle calls with failing transfers.       *)
(*                                                                         *)
(* A call is a row of register writes, of which any may fail; the device   *)
(* then holds what the row wrote up to there.  Times are in microseconds,  *)
(* line periods in nanoseconds, clocks in kHz, link budgets in kB/s.       *)
(*                                                                         *)
(* An operator whose name starts with Faulty is a mutated form of the      *)
(* definition after it.                                                    *)
(***************************************************************************)
EXTENDS Integers, Sequences

CONSTANTS
  Dies,         \* profiles a behaviour may be about
  Shrinks,      \* sub-windows: a full frame divided by each of these, on both axes
  Exposures,    \* durations asked for, within every profile's range
  Percents,     \* SetFPSPercent
  Limits,       \* SetFrameRateLimit, 0 for none
  Links,        \* whether the link is SuperSpeed (SetUSB3, if called, is called after Open)
  MaxFaults     \* bound: calls with a failing transfer

VARIABLES
  die,      \* the profile, fixed
  mode,     \* the ReadoutMode on the Regmap
  dev,      \* register -> what was last written to it
  expDur,   \* Camera.expDur, 0 before the first SetExposure
  settled,  \* history: the last row of window writes was complete
  fresh,    \* history: SetExposure succeeded after the last window write
  broken,   \* history: the last SetExposure failed
  faults

vars == <<die, mode, dev, expDur, settled, fresh, broken, faults>>

MaxOf(a, b) == IF a < b THEN b ELSE a
MinOf(a, b) == IF a < b THEN a ELSE b

\* a * b \div c without the product, which may not fit TLC's integers.
MulDiv(a, b, c) == (a \div c) * b + ((a % c) * b) \div c

\* Round half up.
Nearest(a, b) == (2 * a + b) \div (2 * b)

-----------------------------------------------------------------------------
(* The profiles' constants *)

Second == 1000000

IMX174 == [w |-> 1936, h |-> 1216, clock |-> 20000, floor |-> 780, usb3kB |-> 385000,
           vblank |-> 38, trigUs |-> 4 * Second]
IMX178 == [w |-> 3072, h |-> 2048, clock |-> 27000, fixed |-> 420, vblank |-> 29, shsOff |-> 29, trigUs |-> Second]
STARVIS(floor, floorHS) ==
  [w |-> 1936, h |-> 1096, clock |-> 18562, floor |-> floor, clockHS |-> 37124, floorHS |-> floorHS,
   fixed |-> 0, usb3kB |-> 360715, vblank |-> 18, shsOff |-> 17, trigUs |-> Second]
IMX290 == STARVIS(203, 196)
IMX462 == STARVIS(261, 245)
IMX455 == [w |-> 9576, h |-> 6388, clock |-> 20000, guard |-> 3, trigUs |-> Second,
           v |-> <<1515, 625, 330>>, vHS |-> <<630, 625, 330>>, vblank |-> <<52, 32, 30>>]
IMX571 == [w |-> 6224, h |-> 4168, clock |-> 20000, guard |-> 1, trigUs |-> Second,
           v |-> <<1350, 490, 250>>, vHS |-> <<1350, 490, 250>>, vblank |-> <<48, 28, 24>>]
IMX585ZWO == [w |-> 3840, h |-> 2160, clock |-> 20000, fixed |-> 192, vblank |-> 2, guard |-> 8, trigUs |-> Second]
IMX585POA == [w |-> 3856, h |-> 2180, clock |-> 20000, vblank |-> 40, trigUs |-> Second]

Profile == [imx174 |-> IMX174, imx178 |-> IMX178, imx290 |-> IMX290, imx462 |-> IMX462,
            imx455 |-> IMX455, imx571 |-> IMX571, imx585zwo |-> IMX585ZWO, imx585poa |-> IMX585POA]
P == Profile[die]

\* What the constants may be.
TimingConstants ==
  /\ Dies \subseteq DOMAIN Profile /\ Links \subseteq BOOLEAN
  /\ Shrinks \subseteq Nat \ {0} /\ Exposures \subseteq Nat
  /\ Percents \subseteq 1 .. 100 /\ Limits \subseteq Nat

TwoClocks == die \in {"imx290", "imx462"}
OnDDR     == die \in {"imx455", "imx571"}

\* Sensor-side binning factors SetROI is called with; the other dies are host-binned.
Bins == IF OnDDR THEN 1 .. 3 ELSE IF die = "imx585poa" THEN {1, 2} ELSE {1}

-----------------------------------------------------------------------------
(* The line-time engine of shutter.go *)

HMAXBW(w, h, clock, floor, vblank, usb3kB, m) ==
  LET link == IF m.usb3 THEN usb3kB ELSE 43272
      cand == MulDiv(w * m.bpp * clock, h, h + vblank) \div link
  IN MinOf((MaxOf(cand, floor) * 100) \div m.pct, 65535)

LineNs(hmax, clock) == MaxOf(MulDiv(1000000, hmax, clock), 1)

ExposureLines(us, lineNs) == MulDiv(us, 1000, lineNs)

\* imx290HighSpeed and imx462HighSpeed: the 10-bit readout is one of RAW8 only.
HighSpeed(m) == TwoClocks /\ m.hs /\ m.bpp < 2

Clock(m) == IF HighSpeed(m) THEN P.clockHS ELSE P.clock
Floor(m) == IF HighSpeed(m) THEN P.floorHS ELSE P.floor

STARVISHmax(m) == HMAXBW(m.w, m.h, Clock(m), Floor(m), P.vblank, P.usb3kB, m)

FaultyShutterLineNs(m) ==  \* reads the flag alone
  IF P.fixed > 0 THEN LineNs(P.fixed, P.clock)
  ELSE IF m.hs THEN LineNs(HMAXBW(m.w, m.h, P.clockHS, P.floorHS, P.vblank, P.usb3kB, m), P.clockHS)
  ELSE LineNs(STARVISHmax(m), Clock(m))

ShutterLineNs(m) ==
  IF P.fixed > 0 THEN LineNs(P.fixed, P.clock) ELSE LineNs(STARVISHmax(m), Clock(m))

\* ShutterModel.starvis, as <<VMAX, SHS>>.
Starvis(h, lines) ==
  LET top == h + P.shsOff
  IN IF lines + 1 > h + P.vblank
     THEN <<MinOf(lines + 1, 16777215), 1>>
     ELSE <<h + P.vblank, MinOf(MaxOf(top - lines, 1), top - 1)>>

-----------------------------------------------------------------------------
(* Rows of writes *)

Write(reg, val) == <<[reg |-> reg, val |-> val]>>

\* SetFPGABit of the wait bit and the trigger bit, wait first to set and last to clear.
Gates(on) == IF on THEN Write("wait", TRUE) \o Write("trig", TRUE)
                   ELSE Write("trig", FALSE) \o Write("wait", FALSE)

ApplyExposure(m, us) ==
  LET frame == Starvis(m.h, ExposureLines(us, ShutterLineNs(m)))
  IN Write("wait", TRUE) \o Write("vmax", frame[1]) \o Write("shs", frame[2])

Expose178(m, us) == Write("trig", us >= P.trigUs) \o ApplyExposure(m, us)

ExposeTwoClocks(m, us) ==
  Write("trig", us >= P.trigUs) \o Write("hmax", STARVISHmax(m)) \o ApplyExposure(m, us)
    \o Write("clk", Clock(m))

Expose290(m, us) == ExposeTwoClocks(m, us)
Expose462(m, us) == ExposeTwoClocks(m, us)

HMAX174(m) == HMAXBW(m.w, m.h, P.clock, P.floor, P.vblank, P.usb3kB, m)

Expose174(m, us) ==
  LET trigger == us >= P.trigUs
      hmax    == IF trigger THEN 5376 ELSE HMAX174(m)
      lines   == ExposureLines(us, LineNs(hmax, P.clock))
      frame   == m.h + P.vblank
      vmax    == MaxOf(frame, lines + 10)
      long    == us > MulDiv(frame, LineNs(HMAX174(m), P.clock), 1000) + 100000
  IN Write("wait", TRUE) \o Write("hmax", hmax) \o Write("trig", trigger) \o Write("vmax", vmax)
       \o Write("cycles", IF long THEN <<frame, vmax - 18>> ELSE <<>>)
       \o Write("shs", MaxOf(vmax - lines, 10))

\* imx455SelectMode and imx571SelectMode: the line base V of a readout table.
Base(m) == IF m.hs THEN P.vHS[m.bin] ELSE P.v[m.bin]

Halved(shs) == IF shs >= 6 THEN shs \div 2 ELSE 3

\* A long exposure is held by the worker over one frame; a short one is in SHS,
\* and stretches VMAX past a frame.
ExposeDDR(m, us) ==
  LET lineNs  == LineNs(Base(m), P.clock)
      lines   == ExposureLines(us, lineNs)
      frame   == P.vblank[m.bin] + m.h
      frameUs == MulDiv(frame, lineNs, 1000)
      fits    == us <= frameUs
      long    == us >= P.trigUs
      vmax    == IF long THEN MulDiv(frameUs + 10000, 1000, lineNs) + 20
                 ELSE IF fits THEN frame ELSE lines + 20
      shs     == IF ~long /\ fits THEN MaxOf(frame - P.guard - lines, P.guard) ELSE 20
  IN Gates(long) \o Write("vmax", vmax) \o Write("shs", IF m.bin = 2 THEN shs ELSE Halved(shs))

Expose455(m, us) == ExposeDDR(m, us)
Expose571(m, us) == ExposeDDR(m, us)

Expose585ZWO(m, us) ==
  LET lines == ExposureLines(us, LineNs(P.fixed, P.clock))
      frame == m.h + P.vblank
      hi    == IF lines + 1 > frame - P.guard THEN lines + 1 ELSE frame - P.guard
  IN Gates(us >= P.trigUs) \o Write("vmax", MinOf(hi + P.guard, 16777215))
       \o Write("shs", MinOf(MaxOf(hi - lines, P.guard), hi))

\* imx585DrivePOA: the line period, and the lines of the longest of the link's
\* time, the exposure, the frame-rate cap, the readout and the guarded shutter.
Guard585(m) == IF m.hdr THEN 16 ELSE 8
HMAXPOA(m) ==
  LET floor == IF m.bpp >= 2 THEN 154 ELSE 92
  IN IF m.hdr THEN floor ELSE MaxOf(Nearest(m.w * m.bpp * 1000, 26593), floor)
VMAXPOA(m, us) ==
  LET perTick == IF m.usb3 THEN 19205 ELSE 2147       \* thousandths of a byte per 20 MHz tick
      ship    == (MulDiv(m.w * m.h * m.bpp, 1000, perTick) \div m.pct) * 100
      cap     == IF m.limit > 0 THEN 20000000 \div m.limit ELSE 0
      period  == MaxOf(MaxOf(ship, us * 20), cap)
      rows    == m.h * m.bin * (IF m.hdr THEN 2 ELSE 1) + P.vblank
  IN MaxOf(MaxOf(Nearest(period, HMAXPOA(m)), rows), Nearest(us * 20, HMAXPOA(m)) + Guard585(m))

Expose585POA(m, us) ==
  LET long  == us >= P.trigUs
      vmax  == IF long THEN m.h * m.bin + P.vblank ELSE VMAXPOA(m, us)
      lines == MaxOf(ExposureLines(us, LineNs(HMAXPOA(m), P.clock)), 2)
  IN Write("hmax", HMAXPOA(m)) \o Write("vmax", vmax)
       \o Write("trig", long) \o Write("shs", MaxOf(vmax - lines, Guard585(m)))

ExposureRow(m, us) ==
  CASE die = "imx174" -> Expose174(m, us)
    [] die = "imx178" -> Expose178(m, us)
    [] die = "imx290" -> Expose290(m, us)
    [] die = "imx462" -> Expose462(m, us)
    [] die = "imx455" -> Expose455(m, us)
    [] die = "imx571" -> Expose571(m, us)
    [] die = "imx585zwo" -> Expose585ZWO(m, us)
    [] die = "imx585poa" -> Expose585POA(m, us)

(* The profiles' SetROI, as far as timing goes: the rows handed to the FPGA, *)
(* the line period, and what the readout format is made for.                 *)
WindowTwoClocks(m) ==
  Write("fmt", Clock(m)) \o Write("rows", m.h) \o Write("hmax", STARVISHmax(m)) \o Write("clk", Clock(m))
WindowDDR(m) == Write("fmt", Base(m)) \o Write("rows", m.h) \o Write("hmax", Base(m))

Window174(m)    == Write("rows", m.h) \o Write("hmax", HMAX174(m))
Window178(m)    == Write("rows", m.h) \o Write("hmax", P.fixed)
Window290(m)    == WindowTwoClocks(m)
Window462(m)    == WindowTwoClocks(m)
Window455(m)    == WindowDDR(m)
Window571(m)    == WindowDDR(m)
Window585ZWO(m) == Write("rows", m.h) \o Write("hmax", P.fixed)
Window585POA(m) == Write("fmt", m.hdr) \o Write("rows", m.h * m.bin)

WindowRow(m) ==
  CASE die = "imx174" -> Window174(m)
    [] die = "imx178" -> Window178(m)
    [] die = "imx290" -> Window290(m)
    [] die = "imx462" -> Window462(m)
    [] die = "imx455" -> Window455(m)
    [] die = "imx571" -> Window571(m)
    [] die = "imx585zwo" -> Window585ZWO(m)
    [] die = "imx585poa" -> Window585POA(m)

Registers == {"wait", "trig", "hmax", "vmax", "shs", "clk", "cycles", "rows", "fmt"}

\* The device after the first n writes of a row.
After(d, row, n) ==
  [r \in Registers |->
     LET at == {i \in 1 .. n : row[i].reg = r}
     IN IF at = {} THEN d[r] ELSE row[CHOOSE i \in at : \A j \in at : j <= i].val]

-----------------------------------------------------------------------------
(* The calls *)

PowerOn == [r \in Registers |-> CASE r \in {"wait", "trig"} -> FALSE
                                  [] r = "clk" -> Profile[die].clock
                                  [] r = "cycles" -> <<>>
                                  [] OTHER -> 0]

\* Camera.Init has programmed the full frame.
Init ==
  /\ die \in Dies
  /\ \E usb3 \in Links :
       mode = [w |-> P.w, h |-> P.h, bin |-> 1, bpp |-> 2, hs |-> FALSE, usb3 |-> usb3,
               pct |-> 100, limit |-> 0, hdr |-> FALSE]
  /\ dev = After(PowerOn, WindowRow(mode), Len(WindowRow(mode)))
  /\ expDur = 0
  /\ settled = TRUE /\ fresh = FALSE /\ broken = FALSE
  /\ faults = 0

\* Camera.SetExposure: expDur follows only what was programmed whole.
SetExposure(us) ==
  LET row == ExposureRow(mode, us)
  IN /\ \/ /\ dev' = After(dev, row, Len(row))
           /\ expDur' = us /\ fresh' = TRUE /\ broken' = FALSE
           /\ UNCHANGED faults
        \/ /\ faults < MaxFaults
           /\ \E n \in 0 .. Len(row) - 1 : dev' = After(dev, row, n)
           /\ fresh' = FALSE /\ broken' = TRUE /\ faults' = faults + 1
           /\ UNCHANGED expDur
     /\ UNCHANGED <<die, mode, settled>>

\* Program a window for m, which the ReadoutMode takes on success, and `kept'
\* on failure; `undone': the failure is followed by programming kept again,
\* which works, for one transfer of a call fails at most.
Program(m, kept, undone) ==
  LET row == WindowRow(m)  back == WindowRow(kept)
  IN /\ \/ /\ mode' = m
           /\ dev' = After(dev, row, Len(row))
           /\ settled' = TRUE
           /\ UNCHANGED faults
        \/ /\ faults < MaxFaults
           /\ mode' = kept
           /\ faults' = faults + 1
           /\ \E n \in 0 .. Len(row) - 1 :
                LET torn == After(dev, row, n)
                IN \/ /\ undone
                      /\ dev' = After(torn, back, Len(back)) /\ settled' = TRUE
                   \/ /\ ~undone
                      /\ dev' = torn /\ settled' = FALSE
     /\ fresh' = FALSE
     /\ UNCHANGED <<die, expDur, broken>>

\* SetROI, and SetBinning and SetHardwareBin through it: the mode keeps the
\* old window when the new one fails.  (A last transfer re-encodes the offset;
\* its failure is an error to the caller and none to what is modelled here.)
SetROI(k, bin) ==
  LET m == [mode EXCEPT !.w = P.w \div (k * bin), !.h = P.h \div (k * bin), !.bin = bin]
  IN Program(m, mode, FALSE)

\* Nothing is put back.  The other profiles have one readout per bin.
SetHighSpeedMode(on) ==
  LET m == [mode EXCEPT !.hs = on]
  IN (TwoClocks \/ die = "imx455") /\ Program(m, m, FALSE)

\* The one combination both refuse, before they write what is modelled here.
DeadMode(m) == m.hdr /\ m.bpp < 2

SetOutputDepth(bpp) ==
  LET m == [mode EXCEPT !.bpp = bpp]
  IN ~DeadMode(m) /\ Program(m, mode, TRUE)

SetSensorMode(hdr) ==
  LET m == [mode EXCEPT !.hdr = hdr]
  IN die = "imx585poa" /\ hdr # mode.hdr /\ ~DeadMode(m) /\ Program(m, mode, TRUE)

\* These change the ReadoutMode only, until the next SetROI or SetExposure, and
\* the profiles whose line period is a constant never read them.
Throttle(m) ==
  /\ TwoClocks \/ die \in {"imx174", "imx585poa"}
  /\ m # mode
  /\ mode' = m
  /\ UNCHANGED <<die, dev, expDur, settled, fresh, broken, faults>>
SetFPSPercent(pct)     == Throttle([mode EXCEPT !.pct = pct])
SetFrameRateLimit(fps) == die = "imx585poa" /\ Throttle([mode EXCEPT !.limit = fps])

Next ==
  \/ \E us \in Exposures : SetExposure(us)
  \/ \E k \in Shrinks, bin \in Bins : SetROI(k, bin)
  \/ \E on \in BOOLEAN : SetHighSpeedMode(on) \/ SetSensorMode(on)
  \/ \E bpp \in {1, 2} : SetOutputDepth(bpp)
  \/ \E pct \in Percents : SetFPSPercent(pct)
  \/ \E fps \in Limits : SetFrameRateLimit(fps)

Spec == Init /\ [][Next]_vars

-----------------------------------------------------------------------------
(* What the registers come to *)

\* The sensor's own line period, from the HMAX and the clock it has.
DeviceLineNs == LineNs(dev["hmax"], IF TwoClocks THEN dev["clk"] ELSE P.clock)

\* The sensor integrates from SHS to the end of the frame; the DDR pair counts
\* the shutter in pairs of lines except when it bins by 2.
Integrated == dev["vmax"] - dev["shs"] * (IF OnDDR /\ mode.bin # 2 THEN 2 ELSE 1)

Ready == settled /\ fresh

\* Below the band the worker times itself, the sensor integrates as long as was
\* asked for, at the line period it really runs, to within the shutter guards.
IntegratesAsAsked ==
  Ready /\ expDur < P.trigUs =>
    /\ Integrated - ExposureLines(expDur, DeviceLineNs) \in -9 .. 9
    /\ dev["shs"] > 0

\* A frame is never shorter than the rows SetROI handed to the FPGA.
FrameCovered ==
  Ready => dev["vmax"] >= dev["rows"] * (IF mode.hdr /\ expDur < P.trigUs THEN 2 ELSE 1)

\* The readout format is the one the clock, or the line base, is for.
FormatAgrees ==
  settled => /\ TwoClocks => dev["fmt"] = dev["clk"]
             /\ OnDDR => dev["fmt"] = dev["hmax"]

\* The FPGA waits for the trigger exactly when the worker will give it.
BandAgrees == ~broken => (dev["trig"] <=> expDur >= P.trigUs)

ExposureHolds == IntegratesAsAsked /\ FrameCovered /\ FormatAgrees /\ BandAgrees

\* HDR reads the window twice, so its frame takes twice the lines.
HDRFrameFits == Ready /\ mode.hdr => dev["vmax"] >= 2 * dev["rows"]
=============================================================================
