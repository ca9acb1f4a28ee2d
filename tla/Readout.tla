------------------------------- MODULE Readout -------------------------------
(***************************************************************************)
(* The readout configuration of a camera: the setters that change window,  *)
(* binning, depth and mode, the register groups they write through the     *)
(* sensor profile, and what each puts back when a transfer fails.          *)
(*                                                                         *)
(* A body is a ZWO camera over the IMX455 (the host bins) or a PlayerOne   *)
(* one over the IMX585 (the camera bins; two sensor modes).  Setters are   *)
(* called one at a time between exposures, so a call is one action; what   *)
(* interleaves with it is failure.  A procedure is the set of its outcomes *)
(* [s, ok]: the state it leaves, one for each transfer that may fail in    *)
(* it, and whether it returned nil.                                        *)
(***************************************************************************)
EXTENDS Windows, Sequences

CONSTANTS
  Bodies,     \* the cameras considered
  Requests,   \* the windows callers ask for
  Probes,     \* the windows ClampROI is asked about
  Gains, Offsets,
  MaxFaults,  \* bound: transfers that fail in a behaviour
  Unset,      \* a register group nothing has programmed
  Torn        \* a register group a failing transfer left half written

Normal == 0
HDR    == 1

ASSUME ReadoutAssumption ==
  /\ \A b \in Bodies :
       /\ b.vid \in {"ZWO", "POA"} /\ b.color \in BOOLEAN /\ b.deviceBins \in BOOLEAN
       /\ {b.width, b.height, b.stepW, b.stepH, b.modes} \subseteq Nat \ {0}
       /\ 1 \in b.bins /\ b.bins \subseteq Nat \ {0} /\ b.hwBins \subseteq Nat \ {0}
  /\ Gains \subseteq Nat /\ Offsets \subseteq Nat
  /\ MaxFaults \in Nat

(* The bodies the driver opens: bins up to 4; ZWO bins on the die by 2 or 3 at *)
(* most and on the host, in steps of 8 by 2; PlayerOne in the camera, in steps *)
(* of 4 by 2; and a die of whole steps, with room for one at every bin.        *)
ShippedBodies ==
  \A b \in Bodies :
    /\ b.bins \subseteq 1 .. 4 /\ b.hwBins \subseteq 1 .. 4
    /\ b.vid = "ZWO" => ~ b.deviceBins /\ 4 \notin b.hwBins /\ b.stepW = 8 /\ b.stepH = 2
    /\ b.vid = "POA" => b.deviceBins /\ b.stepW = 4 /\ b.stepH = 2
    /\ b.width % b.stepW = 0 /\ b.height % b.stepH = 0
    /\ b.width >= 32 /\ b.height >= 8

(* Any window at all. *)
AnyWindow == [x : Int, y : Int, w : Int, h : Int]

VARIABLES
  body,    \* the camera, fixed by Open
  cam,     \* the Camera's fields under mu: bin, hwBin, roi, programmed, gain, offset
  mode,    \* the ReadoutMode the Regmap carries
  dev,     \* the device's register groups
  faults   \* transfers that have failed

vars == <<body, cam, mode, dev, faults>>

S0 == [body |-> body, cam |-> cam, mode |-> mode, dev |-> dev, faults |-> faults]

-----------------------------------------------------------------------------
(* Procedures and their outcomes. *)

Done(s)       == {[s |-> s, ok |-> TRUE]}
Refuse(s)     == {[s |-> s, ok |-> FALSE]}
Ignore(outs)  == {[s |-> o.s, ok |-> TRUE] : o \in outs}
Failed(outs)  == {[s |-> o.s, ok |-> FALSE] : o \in outs}
Then(outs, P(_))   == UNION {IF o.ok THEN P(o.s) ELSE {o} : o \in outs}
OrElse(outs, P(_)) == UNION {IF o.ok THEN {o} ELSE P(o.s) : o \in outs}

(* Registers d after the groups of a write w have got their values.         *)
Written(d, w) == [g \in DOMAIN d |-> IF g \in DOMAIN w THEN w[g] ELSE d[g]]

(* A sequence of group writes: all of them, or those before a transfer that *)
(* failed, which left its groups as they were or half written.              *)
Transfer(s, writes) ==
  LET after[n \in 0 .. Len(writes)] == IF n = 0 THEN s.dev ELSE Written(after[n - 1], writes[n])
      torn(i)   == Written(after[i - 1], [g \in DOMAIN writes[i] |-> Torn])
      broken(d) == [s |-> [s EXCEPT !.dev = d, !.faults = @ + 1], ok |-> FALSE]
  IN  Done([s EXCEPT !.dev = after[Len(writes)]])
        \union
      IF s.faults < MaxFaults
      THEN {broken(after[i - 1]) : i \in DOMAIN writes} \union {broken(torn(i)) : i \in DOMAIN writes}
      ELSE {}

-----------------------------------------------------------------------------
(* The profiles. *)

(* Bit 4 of FPGA register 0x0a: ZWO's output width, a bit of PlayerOne's    *)
(* crop origin.  Read, modified, written.                                   *)
Bit4(v) == (v \div 16) % 2
WithBit4(v, on) ==
  IF v \in {Unset, Torn} THEN v ELSE v - 16 * Bit4(v) + IF on THEN 16 ELSE 0

SetFPGAOutputWidth(s, raw16) == Transfer(s, <<[reg0a |-> WithBit4(s.dev.reg0a, raw16)]>>)

(* The IMX585's sensor mode block, indexed by mode and sample size; its     *)
(* common part turns die binning off.                                       *)
HasBlock(m, bpp) == ~ (m = HDR /\ bpp < 2)
ProfileSetSensorMode(s, m) ==
  IF HasBlock(m, s.mode.bpp)
  THEN Transfer(s, <<[block |-> <<m, s.mode.bpp>>, die |-> 1]>>)
  ELSE Refuse(s)

(* Crop origin of the IMX585, in rows after die binning. *)
CropRow(m, die) == ((IF m = HDR THEN 42 ELSE 21) + die - 1) \div die

Up(v, n)   == ((v + n - 1) \div n) * n
Down(v, n) == (v \div n) * n

SetROIPOA(s, r, bin) ==
  LET die  == IF s.mode.sensorBin >= 1 /\ bin % s.mode.sensorBin = 0 THEN s.mode.sensorBin ELSE 1
      wide == s.mode.sensorMode = HDR
      w    == r.w * bin
      h    == r.h * bin
  IN  IF bin \notin 1 .. 4 THEN Refuse(s)
      ELSE Then(Transfer(s, <<[die |-> die],
                              [sensor |-> [x |-> Down(r.x, 2), y |-> Down(r.y, 4), w |-> Up(w, 16), h |-> h]],
                              [reg0a |-> CropRow(s.mode.sensorMode, die)]>>),
                LAMBDA t : IF ~ HasBlock(s.mode.sensorMode, s.mode.bpp) THEN Refuse(t)
                           ELSE Transfer(t, <<[size |->
                                  [w |-> w \div die, h |-> (h \div die) * IF wide THEN 2 ELSE 1,
                                   bpp |-> s.mode.bpp, bin |-> bin \div die,
                                   wide |-> wide, sum |-> s.mode.binSum]]>>))

(* The IMX455: the mode table of the sensor bin, the output width, the      *)
(* window with its start in sensor pixels, the frame the FX3 transfers.     *)
SetROIZWO(s, r, bin) ==
  LET highSpeed == bin = 1 /\ s.mode.highSpeed
      adcBit    == IF bin = 1 /\ ~ highSpeed THEN 1 ELSE 0
      yGrid     == ROIStartAlign(s.body, bin).y
  IN  IF bin > 3 THEN Refuse(s)
      ELSE Transfer(s, <<[block |-> <<bin, highSpeed>>],
                         [reg0a |-> adcBit + IF s.mode.bpp >= 2 THEN 16 ELSE 0],
                         [sensor |-> [x |-> Down(r.x * bin, 16), y |-> Down(r.y * bin, yGrid),
                                      w |-> r.w, h |-> r.h]],
                         [size |-> [w |-> r.w, h |-> r.h, bpp |-> s.mode.bpp, bin |-> 1,
                                    wide |-> FALSE, sum |-> FALSE]]>>)

ProfileSetROI(s, r, bin) == IF s.body.vid = "POA" THEN SetROIPOA(s, r, bin) ELSE SetROIZWO(s, r, bin)

(* The gain code depends on the sensor mode; the offset code on the sensor  *)
(* bin (IMX455), with a second register for HDR (IMX585).                   *)
GainCode(b, m, gain)     == <<gain, IF b.vid = "POA" THEN m.sensorMode ELSE Normal>>
OffsetCode(b, m, offset) == <<offset, b.vid = "ZWO" /\ m.bin > 1>>

ProfileSetGain(s, gain) == Transfer(s, <<[gain |-> GainCode(s.body, s.mode, gain)]>>)
ProfileSetOffset(s, offset) ==
  Transfer(s, <<[offset |-> OffsetCode(s.body, s.mode, offset)]>>
                \o IF s.mode.sensorMode = HDR THEN <<[hdrOffset |-> offset]>> ELSE <<>>)

(* The words of a frame the FPGA is programmed to hand over, as the         *)
(* profiles compute them.                                                   *)
FrameWords(size, vid) ==
  IF vid = "POA"
  THEN ((((size.w * size.h * size.bpp) \div (IF size.wide THEN 8 ELSE 4)) \div size.bin) \div size.bin)
  ELSE (size.w * size.h * size.bpp + 3) \div 4

-----------------------------------------------------------------------------
(* The Camera. *)

HasModes(s) == s.body.modes > 1

SetGain(s, gain) ==
  Then(ProfileSetGain(s, gain), LAMBDA t : Done([t EXCEPT !.cam.gain = gain]))

SetOffset(s, offset) ==
  Then(ProfileSetOffset(s, offset), LAMBDA t : Done([t EXCEPT !.cam.offset = offset]))

FaultyReapplyOffset(s) == Done(s)

ReapplyOffset(s) == ProfileSetOffset(s, s.cam.offset)

(* What SetROI commits once the profile has written the window. *)
FaultyWindowSet(s, r, split, die) ==
  [s EXCEPT !.mode.width = r.w * split.soft, !.mode.height = r.h * split.soft,
            !.mode.bin = split.hw, !.mode.sensorBin = die,
            !.cam.roi = r, !.cam.programmed = TRUE]

WindowSet(s, r, split, die) ==
  [s EXCEPT !.mode.width = r.w * split.soft, !.mode.height = r.h * split.soft,
            !.mode.bin = split.hw, !.mode.soft = split.soft, !.mode.sensorBin = die,
            !.cam.roi = r, !.cam.programmed = TRUE]

SetROI(s, request) ==
  LET bin   == s.cam.bin
      split == BinSplit(s.body, bin, s.cam.hwBin)
      die   == SensorSplit(s.body, bin, s.cam.hwBin)
      start == AlignedStart(s.body, bin, s.cam.hwBin, request.x, request.y)
      r     == [request EXCEPT !.x = start.x, !.y = start.y]
      sent  == [x |-> r.x * split.soft, y |-> r.y * split.soft,
                w |-> r.w * split.soft, h |-> r.h * split.soft]
  IN  IF ~ LegalWindow(s.body, bin, s.cam.hwBin, request) THEN Refuse(s)
      ELSE Then(ProfileSetROI(s, sent, split.hw),
                LAMBDA t : ReapplyOffset(WindowSet(t, r, split, die)))

Reprogram(s) == IF s.cam.programmed THEN SetROI(s, s.cam.roi) ELSE Done(s)

(* restoreWindow: the recorded geometry, re-stated to the device if it can  *)
(* be, and the error that made it necessary.                                *)
FaultyRestoreWindow(s, prev) == Refuse(s)

RestoreWindow(s, prev) ==
  LET t == [s EXCEPT !.cam.bin = prev.bin, !.cam.hwBin = prev.hwBin,
                     !.cam.roi = prev.roi, !.cam.programmed = prev.programmed]
  IN  Failed(Reprogram(t))

(* SetBinning and SetHardwareBin reset the window to the full frame of the  *)
(* new split.                                                               *)
Resplit(s, bin, hwBin) ==
  LET full == FullWindow(s.body, bin, hwBin)
      t    == [s EXCEPT !.cam.bin = bin, !.cam.hwBin = hwBin, !.cam.roi = full]
  IN  IF s.cam.programmed
      THEN OrElse(SetROI(t, full), LAMBDA u : RestoreWindow(u, s.cam))
      ELSE Done(t)

SetBinning(s, bin) == IF bin \in s.body.bins THEN Resplit(s, bin, s.cam.hwBin) ELSE Refuse(s)

FaultySetHardwareBin(s, on) ==
  OrElse(Reprogram([s EXCEPT !.cam.hwBin = on]), LAMBDA t : RestoreWindow(t, s.cam))

SetHardwareBin(s, on) == Resplit(s, s.cam.bin, on)

FaultySetOutputDepth(s, bpp) ==
  LET width(t) == SetFPGAOutputWidth([t EXCEPT !.mode.bpp = s.mode.bpp], s.mode.bpp >= 2)
  IN  Then(SetFPGAOutputWidth(s, bpp >= 2),
           LAMBDA t : OrElse(Reprogram([t EXCEPT !.mode.bpp = bpp]),
                             LAMBDA v : Then(Ignore(width(v)), LAMBDA w : RestoreWindow(w, s.cam))))

SetOutputDepth(s, bpp) ==
  LET width(t) == SetFPGAOutputWidth([t EXCEPT !.mode.bpp = s.mode.bpp], s.mode.bpp >= 2)
      block(t) == IF HasModes(t) THEN ProfileSetSensorMode(t, t.mode.sensorMode) ELSE Done(t)
  IN  Then(SetFPGAOutputWidth(s, bpp >= 2),
           LAMBDA t : Then(OrElse(block([t EXCEPT !.mode.bpp = bpp]), LAMBDA u : Failed(width(u))),
           LAMBDA u : OrElse(Reprogram(u),
           LAMBDA v : Then(Ignore(width(v)), LAMBDA w : RestoreWindow(w, s.cam)))))

SetSensorMode(s, m) ==
  LET restore(t) == RestoreWindow([t EXCEPT !.mode.sensorMode = s.mode.sensorMode], s.cam)
      program(t) ==
        Then(Then(Then(ProfileSetSensorMode(t, m), Reprogram),
                  LAMBDA u : SetGain(u, u.cam.gain)),
             LAMBDA u : SetOffset(u, u.cam.offset))
  IN  IF ~ HasModes(s) \/ m \notin 0 .. s.body.modes - 1 THEN Refuse(s)
      ELSE IF m = s.mode.sensorMode THEN Done(s)
      ELSE OrElse(program([s EXCEPT !.mode.sensorMode = m]), restore)

SetHighSpeedMode(s, on) == Reprogram([s EXCEPT !.mode.highSpeed = on])

SetBinSum(s, sum) ==
  IF sum = s.mode.binSum THEN Done(s)
  ELSE OrElse(Reprogram([s EXCEPT !.mode.binSum = sum]),
              LAMBDA t : Refuse([t EXCEPT !.mode.binSum = s.mode.binSum]))

(* Camera.Init: the init table, the profile's FPGA bringup, the stored      *)
(* window and the stored offset.  The gain keeps the table's value.         *)
InitCamera(s) ==
  LET table == [gain |-> <<0, Normal>>, block |-> Unset, offset |-> Unset]
      fpga(t) == IF t.body.vid = "POA" THEN ProfileSetSensorMode(t, t.mode.sensorMode)
                 ELSE Transfer(t, <<[reg0a |-> 1 + IF t.mode.bpp >= 2 THEN 16 ELSE 0]>>)
  IN  Then(Then(Then(Transfer(s, <<table>>), fpga),
                LAMBDA t : SetROI(t, t.cam.roi)),
           LAMBDA t : ProfileSetOffset(t, t.cam.offset))

-----------------------------------------------------------------------------
(* The size of the read a capture makes. *)
FrameBytes(s) == s.cam.roi.w * s.cam.roi.h * s.mode.bpp * s.mode.soft * s.mode.soft

(* The geometry after Open, in Go's zero values where Open sets none. *)
Init ==
  /\ body \in Bodies
  /\ cam = [bin |-> 1, hwBin |-> FALSE, programmed |-> FALSE, gain |-> 0, offset |-> 0,
            roi |-> [x |-> 0, y |-> 0, w |-> body.width, h |-> body.height]]
  /\ mode = [bpp |-> 2, sensorMode |-> Normal, highSpeed |-> FALSE, binSum |-> FALSE,
             width |-> 0, height |-> 0, bin |-> 1, soft |-> 1, sensorBin |-> 1]
  /\ dev = [g \in {"block", "die", "sensor", "reg0a", "size", "gain", "offset", "hdrOffset"} |-> Unset]
  /\ faults = 0

(* The state one of a call's outcomes leaves. *)
Return(outs) ==
  \E o \in outs : /\ cam' = o.s.cam /\ mode' = o.s.mode
                  /\ dev' = o.s.dev /\ faults' = o.s.faults
                  /\ UNCHANGED body

Next ==
  \/ Return(InitCamera(S0))
  \/ \E r \in Requests : Return(SetROI(S0, r))
  \/ \E bin \in 1 .. 5 : Return(SetBinning(S0, bin))
  \/ \E on \in BOOLEAN : Return(SetHardwareBin(S0, on))
  \/ \E bpp \in 1 .. 2 : Return(SetOutputDepth(S0, bpp))
  \/ \E m \in {Normal, HDR} : Return(SetSensorMode(S0, m))
  \/ \E on \in BOOLEAN : Return(SetHighSpeedMode(S0, on))
  \/ \E on \in BOOLEAN : Return(SetBinSum(S0, on))
  \/ \E gain \in Gains : Return(SetGain(S0, gain))
  \/ \E offset \in Offsets : Return(SetOffset(S0, offset))

Spec == Init /\ [][Next]_vars

-----------------------------------------------------------------------------
(* Properties *)

\* Every field has its type; the factor in use is one the camera offers.
TypeOK ==
  /\ body \in Bodies
  /\ cam.bin \in body.bins /\ cam.hwBin \in BOOLEAN /\ cam.programmed \in BOOLEAN
  /\ cam.roi \in [x : Nat, y : Nat, w : Nat, h : Nat]
  /\ cam.gain \in Gains \union {0} /\ cam.offset \in Offsets \union {0}
  /\ mode.bpp \in 1 .. 2 /\ mode.sensorMode \in {Normal, HDR}
  /\ mode.highSpeed \in BOOLEAN /\ mode.binSum \in BOOLEAN
  /\ {mode.width, mode.height} \subseteq Nat
  /\ {mode.bin, mode.soft, mode.sensorBin} \subseteq 1 .. 4
  /\ faults \in 0 .. MaxFaults

\* No sequence of mode and depth changes, refused or failing ones included,
\* leaves the camera in HDR at eight bits, for which the profile has no sensor
\* block and the vendor's own library returns a dead frame.
NoDeadMode == HasBlock(mode.sensorMode, mode.bpp)

\* The read a capture makes has the length the FPGA was last programmed to hand
\* over, after any sequence of setters in which at most one transfer failed.
FrameLengthAgrees ==
  faults <= 1 /\ cam.programmed /\ dev.size \notin {Unset, Torn} =>
    4 * FrameWords(dev.size, body.vid) = FrameBytes(S0)

\* Once a window is programmed the black level register holds the offset in the
\* terms of the bin in use, and in HDR the FPGA holds its copy: SetROI re-applies
\* it after the bin it depends on was stored.
OffsetFollows ==
  faults = 0 /\ cam.programmed =>
    /\ dev.offset = OffsetCode(body, mode, cam.offset)
    /\ mode.sensorMode = HDR => dev.hdrOffset = cam.offset

\* A gain set before a mode change is in the terms of the new mode after it.  Only
\* the gain of the init table, which Init writes past the Camera, is neither.
GainFollows ==
  faults = 0 => dev.gain \in {Unset, <<0, Normal>>, GainCode(body, mode, cam.gain)}

\* Every code that depends on the mode or the bin follows them.
CodesFollow == OffsetFollows /\ GainFollows

\* The window the Camera holds, which mode setters re-program and SetBinning and
\* SetHardwareBin compute, is one SetROI accepts at the split in use, so that a
\* mode change is never refused for a window nobody asked for.
WindowLegal == LegalWindow(body, cam.bin, cam.hwBin, cam.roi)

\* ZWO: the start ROI reports is exactly the start programmed, in sensor pixels,
\* because AlignStart steps on a multiple of both the grid and the bin.
StartAsReported ==
  faults = 0 /\ cam.programmed /\ body.vid = "ZWO" =>
    dev.sensor.x = cam.roi.x * cam.bin /\ dev.sensor.y = cam.roi.y * cam.bin

ClampFits ==
  [b \in Bodies |-> [bin \in 1 .. 4 |-> [hwBin \in BOOLEAN |->
     \A r \in Probes :
       LET c == ClampROI(b, bin, hwBin, r)
       IN  HasRoom(b, bin, hwBin, c) =>
             /\ LegalWindow(b, bin, hwBin, c)
             /\ AlignedStart(b, bin, hwBin, c.x, c.y) = [x |-> c.x, y |-> c.y]]]]

\* What ClampROI offers for any request, at the split in use, is accepted by SetROI
\* as it stands, start included, wherever the start leaves the frame room for one
\* step.
ClampAccepted == ClampFits[body][cam.bin][cam.hwBin]

\* The window held, the one programmed, and the one offered for a request are
\* windows the die takes, and the same one to the caller and to the die.
WindowHolds == TypeOK /\ WindowLegal /\ StartAsReported /\ ClampAccepted

View(s)         == <<s.cam, s.mode>>
KeepsView(outs) == \A o \in outs : o.ok \/ o.s.faults > 1 \/ View(o.s) = View(S0)

\* A mode setter that returns an error leaves the driver's view as it found it:
\* window, split, depth, mode and gain, whichever of its transfers failed.
FailedCallKeepsView ==
  faults = 0 =>
  /\ \A bin \in 1 .. 5 : KeepsView(SetBinning(S0, bin))
  /\ \A on \in BOOLEAN : KeepsView(SetHardwareBin(S0, on)) /\ KeepsView(SetBinSum(S0, on))
  /\ \A bpp \in 1 .. 2 : KeepsView(SetOutputDepth(S0, bpp))
  /\ \A m \in {Normal, HDR} : KeepsView(SetSensorMode(S0, m))

\* PlayerOne: the crop origin stays the one the window was programmed with.  False
\* of the code: SetOutputDepth writes ZWO's output width bit, which is a bit of
\* PlayerOne's crop origin, and puts it back to a fixed value when it is refused.
CropAsProgrammed ==
  faults = 0 /\ cam.programmed /\ body.vid = "POA" =>
    dev.reg0a = CropRow(mode.sensorMode, dev.die)

\* PlayerOne: the die bins by the factor the mode records.  False of the code: the
\* profile reads the factor from the mode, where SetROI stores it only afterwards.
SplitReachesDie ==
  faults = 0 /\ cam.programmed /\ body.vid = "POA" => dev.die = mode.sensorBin

\* The start programmed is the one reported on either body.  False of the code:
\* PlayerOne's profile scales the size of a window by the bin and not its start.
StartScaled ==
  faults = 0 /\ cam.programmed =>
    dev.sensor.x = cam.roi.x * cam.bin /\ dev.sensor.y = cam.roi.y * cam.bin

\* PlayerOne: sensor block and frame layout are of one sensor mode.  False after one
\* failure: SetSensorMode's restore re-programs the window and not the block.
BlockAgrees ==
  faults <= 1 /\ cam.programmed /\ body.vid = "POA"
    /\ dev.block \notin {Unset, Torn} /\ dev.size \notin {Unset, Torn} =>
      dev.size.wide = (dev.block[1] = HDR)

\* A high-speed change that fails leaves the view as it found it.  False of the
\* code: SetHighSpeedMode puts nothing back.
HighSpeedRollsBack == \A on \in BOOLEAN : KeepsView(SetHighSpeedMode(S0, on))
=============================================================================
