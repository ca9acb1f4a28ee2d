------------------------------- MODULE Windows -------------------------------
(***************************************************************************)
(* The arithmetic of readout windows: how a binning factor is split        *)
(* between sensor, camera and host, which windows SetROI accepts, the full *)
(* window of a split, and the window ClampROI offers for any request.      *)
(*                                                                         *)
(* A body b is what Open fixes: the vendor's policy and the geometry of    *)
(* the die.  Windows are in output pixels, as the caller passes them.      *)
(***************************************************************************)
EXTENDS Integers, FiniteSets, FiniteSetsExt

Gcd(m, n) == Max({d \in 1 .. m : m % d = 0 /\ n % d = 0})

(* The largest of the profile's HWBins that divides bin, 1 if none does. *)
LargestFactor(b, bin) == Max({1} \union {k \in b.hwBins : bin % k = 0})

(* What of a factor the device takes, and what is left for the host. *)
BinSplit(b, bin, hwBin) ==
  LET hw == IF b.deviceBins THEN bin ELSE IF hwBin THEN LargestFactor(b, bin) ELSE 1
  IN  [hw |-> hw, soft |-> bin \div hw]

(* What of the device's part the die takes, on a body that bins itself. *)
SensorSplit(b, bin, hwBin) ==
  IF hwBin /\ b.deviceBins THEN LargestFactor(b, bin) ELSE 1

(* The grid of window starts the profile programs, in sensor pixels. *)
ROIStartAlign(b, hw) ==
  IF b.vid = "POA" THEN [x |-> 2, y |-> 4]
  ELSE [x |-> 16, y |-> IF hw = 2 THEN 4 ELSE IF hw = 3 THEN 6 ELSE 2]

(* A start down to the grid, on a step the bin divides too, so that it is   *)
(* exact in output pixels.                                                  *)
AlignStart(v, bin, align) ==
  LET step == (align * bin) \div Gcd(align, bin)
  IN  (v * bin - ((v * bin) % step)) \div bin

AlignedStart(b, bin, hwBin, x, y) ==
  LET grid == ROIStartAlign(b, BinSplit(b, bin, hwBin).hw)
  IN  [x |-> AlignStart(x, bin, grid.x), y |-> AlignStart(y, bin, grid.y)]

(* The checks SetROI makes before it writes anything: the frame's bounds,  *)
(* the vendor's granularity, counted in output pixels where the device     *)
(* bins and in sensor pixels where the host does, and the even extent a    *)
(* colour body's host binning needs.                                       *)
LegalWindow(b, bin, hwBin, r) ==
  LET split == BinSplit(b, bin, hwBin)
      unit  == IF split.hw > 1 THEN 1 ELSE bin
  IN  /\ r.x >= 0 /\ r.y >= 0 /\ r.w >= 1 /\ r.h >= 1
      /\ r.x + r.w <= b.width \div bin /\ r.y + r.h <= b.height \div bin
      /\ (r.w * unit) % b.stepW = 0 /\ (r.h * unit) % b.stepH = 0
      /\ split.soft > 1 /\ b.color =>
           (r.w * split.soft) % 2 = 0 /\ (r.h * split.soft) % 2 = 0

(* The whole frame at a split.  The host's steps are ZWO's on every body.  *)
FullWindow(b, bin, hwBin) ==
  LET host  == BinSplit(b, bin, hwBin).hw = 1
      stepW == IF host THEN 8 \div Gcd(8, bin) ELSE b.stepW
      stepH == IF host THEN 2 \div Gcd(2, bin) ELSE b.stepH
      w     == b.width \div bin
      h     == b.height \div bin
  IN  [x |-> 0, y |-> 0, w |-> w - (w % stepW), h |-> h - (h % stepH)]

(* The granularity in the output pixels a caller passes. *)
ROIStep(b, bin, hwBin) ==
  LET split == BinSplit(b, bin, hwBin)
      w     == IF split.hw <= 1 THEN b.stepW \div Gcd(b.stepW, bin) ELSE b.stepW
      h     == IF split.hw <= 1 THEN b.stepH \div Gcd(b.stepH, bin) ELSE b.stepH
      even(v) == IF v % 2 = 0 THEN v ELSE 2 * v
  IN  IF split.soft > 1 /\ b.color /\ split.soft % 2 # 0
      THEN [w |-> even(w), h |-> even(h)] ELSE [w |-> w, h |-> h]

(* One axis of ClampROI: the start inside the frame, then the size inside  *)
(* what it leaves, down to a whole number of steps (Go's %, towards zero), *)
(* and at least one step where there is room for it.                       *)
ClampStart(v, max) == IF v >= max THEN 0 ELSE v
ClampSize(size, room, step) ==
  LET fit   == IF size > room THEN room ELSE size
      whole == IF fit >= 0 THEN fit - (fit % step) ELSE (-fit % step) + fit
  IN  IF whole < step /\ step <= room THEN step ELSE whole

ClampROI(b, bin, hwBin, r) ==
  LET floor(v) == IF v < 0 THEN 0 ELSE v
      maxW     == b.width \div bin
      maxH     == b.height \div bin
      step     == ROIStep(b, bin, hwBin)
      start    == AlignedStart(b, bin, hwBin, floor(r.x), floor(r.y))
      x        == ClampStart(start.x, maxW)
      y        == ClampStart(start.y, maxH)
  IN  [x |-> x, y |-> y,
       w |-> ClampSize(r.w, maxW - x, step.w), h |-> ClampSize(r.h, maxH - y, step.h)]

(* The start ClampROI settles on leaves the frame room for one step. *)
HasRoom(b, bin, hwBin, c) ==
  /\ ROIStep(b, bin, hwBin).w <= b.width \div bin - c.x
  /\ ROIStep(b, bin, hwBin).h <= b.height \div bin - c.y
=============================================================================
