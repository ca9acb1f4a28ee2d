---------------------------- MODULE SettersProofs ----------------------------
(***************************************************************************)
(* Theorems about what is set between captures and beside them.            *)
(*                                                                         *)
(* First Readout, for every body, set of windows and values, and number of *)
(* failing transfers.  A procedure is the set of its outcomes, so each     *)
(* lemma says of one procedure what all its outcomes share, and the        *)
(* callers' lemmas are put together from their callees'.  In order: a      *)
(* depth with a sensor block (NeverDeadMode); the arithmetic of windows;   *)
(* what each transfer, procedure and setter leaves; and the kind of state  *)
(* all of them keep, from which the last four theorems follow.             *)
(*                                                                         *)
(* Then, as instances beside it: Guide (G), Hotplug (H) and Timing (T),    *)
(* whose constants are this module's own.                                  *)
(***************************************************************************)
EXTENDS Readout, TLAPS, SequenceTheorems, FiniteSetTheorems, NaturalsInduction, WellFoundedInduction

(* A state has the fields the setters read; one that is Same as another is *)
(* of the same body, depth and sensor mode.                                *)

Shape(s) ==
  /\ {"body", "cam", "mode", "dev", "faults"} \subseteq DOMAIN s
  /\ {"bpp", "sensorMode"} \subseteq DOMAIN s.mode

Same(s, t) ==
  /\ Shape(t)
  /\ t.body = s.body
  /\ t.mode.bpp = s.mode.bpp /\ t.mode.sensorMode = s.mode.sensorMode

Kept(s, outs) == \A o \in outs : Same(s, o.s)

(* A transfer, whole, broken or half written, changes only registers. *)
LEMMA TransferKeeps ==
  ASSUME NEW s, Shape(s), NEW writes
  PROVE  Kept(s, Transfer(s, writes))
<1> DEFINE after[n \in 0 .. Len(writes)] == IF n = 0 THEN s.dev ELSE Written(after[n - 1], writes[n])
           torn(i)   == Written(after[i - 1], [g \in DOMAIN writes[i] |-> Torn])
           broken(d) == [s |-> [s EXCEPT !.dev = d, !.faults = @ + 1], ok |-> FALSE]
<1>1. \A d : Same(s, [s EXCEPT !.dev = d])
  BY DEF Same, Shape
<1>2. \A d : Same(s, [s EXCEPT !.dev = d, !.faults = @ + 1])
  BY DEF Same, Shape
<1>3. \A d : Same(s, broken(d).s)
  BY <1>2
<1> HIDE DEF after, broken
<1>4. \A o \in Done([s EXCEPT !.dev = after[Len(writes)]]) : Same(s, o.s)
  BY <1>1 DEF Done
<1> QED
  BY <1>3, <1>4 DEF Transfer, Kept, after, broken

(* The sensor block is written only for a cell of mode and depth that exists. *)
LEMMA SensorModeKeeps ==
  ASSUME NEW s, Shape(s), NEW m
  PROVE  /\ Kept(s, ProfileSetSensorMode(s, m))
         /\ \A o \in ProfileSetSensorMode(s, m) : o.ok => HasBlock(m, s.mode.bpp)
<1>1. Same(s, s)
  BY DEF Same
<1> QED
  BY <1>1, TransferKeeps DEF ProfileSetSensorMode, Refuse, Kept

(* Setting the gain does not change depth or sensor mode. *)
LEMMA GainKeeps ==
  ASSUME NEW s, Shape(s), NEW gain
  PROVE  Kept(s, SetGain(s, gain))
<1>1. Kept(s, ProfileSetGain(s, gain))
  BY TransferKeeps DEF ProfileSetGain
<1>2. \A t : Same(s, t) => Same(s, [t EXCEPT !.cam.gain = gain])
  BY DEF Same, Shape
<1> QED
  BY <1>1, <1>2 DEF SetGain, Then, Done, Kept

(* Nor does the offset, stored or re-applied. *)
LEMMA OffsetKeeps ==
  ASSUME NEW s, Shape(s), NEW offset
  PROVE  Kept(s, ProfileSetOffset(s, offset)) /\ Kept(s, SetOffset(s, offset))
<1>1. Kept(s, ProfileSetOffset(s, offset))
  BY TransferKeeps DEF ProfileSetOffset
<1>2. \A t : Same(s, t) => Same(s, [t EXCEPT !.cam.offset = offset])
  BY DEF Same, Shape
<1> QED
  BY <1>1, <1>2 DEF SetOffset, Then, Done, Kept

(* Nor does a profile's window, on either vendor. *)
LEMMA ProfileKeeps ==
  ASSUME NEW s, Shape(s), NEW r, NEW bin
  PROVE  Kept(s, ProfileSetROI(s, r, bin))
<1>0. Same(s, s)
  BY DEF Same
<1>1. Kept(s, SetROIZWO(s, r, bin))
  BY <1>0, TransferKeeps DEF SetROIZWO, Refuse, Kept
<1>2. Kept(s, SetROIPOA(s, r, bin))
  <2>1. \A t, writes : Same(s, t) => Kept(s, Transfer(t, writes))
    BY TransferKeeps DEF Kept, Same
  <2> QED
    BY <1>0, <2>1 DEF SetROIPOA, Then, Refuse, Kept
<1> QED
  BY <1>1, <1>2 DEF ProfileSetROI

(* What SetROI commits are window and split, field by field. *)
LEMMA WindowSetKeeps ==
  ASSUME NEW t, Shape(t), NEW r, NEW split, NEW die
  PROVE  Same(t, WindowSet(t, r, split, die))
<1>1. \A u, v : Shape(u) =>
        /\ Same(u, [u EXCEPT !.mode.width = v])  /\ Same(u, [u EXCEPT !.mode.height = v])
        /\ Same(u, [u EXCEPT !.mode.bin = v])    /\ Same(u, [u EXCEPT !.mode.soft = v])
        /\ Same(u, [u EXCEPT !.mode.sensorBin = v])
        /\ Same(u, [u EXCEPT !.cam.roi = v])     /\ Same(u, [u EXCEPT !.cam.programmed = v])
  BY DEF Same, Shape
<1>2. \A u, v, w : Same(u, v) /\ Same(v, w) => Same(u, w)
  BY DEF Same
<1>3. \A u, v : Same(u, v) => Shape(v)
  BY DEF Same
<1> DEFINE t1 == [t  EXCEPT !.mode.width = r.w * split.soft]
           t2 == [t1 EXCEPT !.mode.height = r.h * split.soft]
           t3 == [t2 EXCEPT !.mode.bin = split.hw]
           t4 == [t3 EXCEPT !.mode.soft = split.soft]
           t5 == [t4 EXCEPT !.mode.sensorBin = die]
           t6 == [t5 EXCEPT !.cam.roi = r]
           t7 == [t6 EXCEPT !.cam.programmed = TRUE]
<1>4. WindowSet(t, r, split, die) = t7
  BY DEF WindowSet
<1> HIDE DEF t7
<1>5. Same(t, t1)
  BY <1>1
<1>6. Same(t, t2)
  <2> HIDE DEF t1
  <2> QED BY <1>1, <1>2, <1>3, <1>5
<1>7. Same(t, t3)
  <2> HIDE DEF t2
  <2> QED BY <1>1, <1>2, <1>3, <1>6
<1>8. Same(t, t4)
  <2> HIDE DEF t3
  <2> QED BY <1>1, <1>2, <1>3, <1>7
<1>9. Same(t, t5)
  <2> HIDE DEF t4
  <2> QED BY <1>1, <1>2, <1>3, <1>8
<1>10. Same(t, t6)
  <2> HIDE DEF t5
  <2> QED BY <1>1, <1>2, <1>3, <1>9
<1>11. Same(t, t7)
  <2> HIDE DEF t6
  <2> QED BY <1>1, <1>2, <1>3, <1>10 DEF t7
<1> QED
  BY <1>4, <1>11

(* Nor does SetROI, refused, failing half way, or successful. *)
LEMMA ROIKeeps ==
  ASSUME NEW s, Shape(s), NEW request
  PROVE  Kept(s, SetROI(s, request))
<1>0. Same(s, s)
  BY DEF Same
<1>1. \A r, bin : Kept(s, ProfileSetROI(s, r, bin))
  BY ProfileKeeps
<1>2. \A t, r, split, die : Same(s, t) => Same(s, WindowSet(t, r, split, die))
  BY WindowSetKeeps DEF Same
<1>3. \A t : Same(s, t) => Kept(s, ReapplyOffset(t))
  BY OffsetKeeps DEF ReapplyOffset, Same, Kept
<1> QED
  BY <1>0, <1>1, <1>2, <1>3 DEF SetROI, Then, Refuse, Kept

(* A window re-programmed or put back keeps depth and mode, and the error of
   what made it necessary. *)
LEMMA ReprogramKeeps ==
  ASSUME NEW s, Shape(s)
  PROVE  Kept(s, Reprogram(s))
<1>1. Same(s, s)
  BY DEF Same
<1> QED
  BY <1>1, ROIKeeps DEF Reprogram, Done, Kept

(* A rollback keeps depth and mode, and never succeeds. *)
LEMMA RestoreKeeps ==
  ASSUME NEW s, Shape(s), NEW prev
  PROVE  /\ Kept(s, RestoreWindow(s, prev))
         /\ \A o \in RestoreWindow(s, prev) : ~ o.ok
<1>1. \A u, v : Shape(u) =>
        /\ Same(u, [u EXCEPT !.cam.bin = v]) /\ Same(u, [u EXCEPT !.cam.hwBin = v])
        /\ Same(u, [u EXCEPT !.cam.roi = v]) /\ Same(u, [u EXCEPT !.cam.programmed = v])
  BY DEF Same, Shape
<1>2. \A u, v, w : Same(u, v) /\ Same(v, w) => Same(u, w)
  BY DEF Same
<1>3. \A u, v : Same(u, v) => Shape(v)
  BY DEF Same
<1> DEFINE t1 == [s  EXCEPT !.cam.bin = prev.bin]
           t2 == [t1 EXCEPT !.cam.hwBin = prev.hwBin]
           t3 == [t2 EXCEPT !.cam.roi = prev.roi]
           t4 == [t3 EXCEPT !.cam.programmed = prev.programmed]
<1>4. RestoreWindow(s, prev) = Failed(Reprogram(t4))
  BY DEF RestoreWindow
<1> HIDE DEF t4
<1>5. Same(s, t1)
  BY <1>1
<1>6. Same(s, t2)
  <2> HIDE DEF t1
  <2> QED BY <1>1, <1>2, <1>3, <1>5
<1>7. Same(s, t3)
  <2> HIDE DEF t2
  <2> QED BY <1>1, <1>2, <1>3, <1>6
<1>8. Same(s, t4)
  <2> HIDE DEF t3
  <2> QED BY <1>1, <1>2, <1>3, <1>7 DEF t4
<1>9. Kept(t4, Reprogram(t4))
  BY <1>3, <1>8, ReprogramKeeps
<1> QED
  BY <1>2, <1>4, <1>8, <1>9 DEF Failed, Kept

(* A new split keeps them, whether its window is accepted or rolled back. *)
LEMMA ResplitKeeps ==
  ASSUME NEW s, Shape(s), NEW bin, NEW hwBin
  PROVE  Kept(s, Resplit(s, bin, hwBin))
<1> DEFINE full == FullWindow(s.body, bin, hwBin)
           t == [s EXCEPT !.cam.bin = bin, !.cam.hwBin = hwBin, !.cam.roi = full]
<1>1. Same(s, t)
  <2>1. \A v : LET u == [s EXCEPT !.cam = v] IN Same(s, u)
    BY DEF Same, Shape
  <2>2. \E v : t = [s EXCEPT !.cam = v]
    BY DEF Shape
  <2> QED
    BY <2>1, <2>2
<1>2. \A u, v, w : Same(u, v) /\ Same(v, w) => Same(u, w)
  BY DEF Same
<1> HIDE DEF full, t
<1>3. Kept(t, SetROI(t, full))
  BY <1>1, ROIKeeps DEF Same
<1>4. \A u : Same(s, u) => Kept(u, RestoreWindow(u, s.cam))
  BY RestoreKeeps DEF Same
<1>5. Kept(s, OrElse(SetROI(t, full), LAMBDA u : RestoreWindow(u, s.cam)))
  BY <1>1, <1>2, <1>3, <1>4 DEF OrElse, Kept
<1>6. Resplit(s, bin, hwBin) = IF s.cam.programmed
                                 THEN OrElse(SetROI(t, full), LAMBDA u : RestoreWindow(u, s.cam))
                                 ELSE Done(t)
  BY DEF Resplit, OrElse, full, t
<1>7. Kept(s, Done(t))
  BY <1>1 DEF Kept, Done
<1> QED
  BY <1>5, <1>6, <1>7

(* A depth change, whatever fails, keeps the sensor mode, and ends at the old *)
(* depth or at a new one for which the body, if it has modes, has a block.    *)
DepthOutcome(s, bpp, t) ==
  /\ Shape(t)
  /\ t.body = s.body /\ t.mode.sensorMode = s.mode.sensorMode
  /\ \/ t.mode.bpp = s.mode.bpp
     \/ t.mode.bpp = bpp /\ (HasModes(s) => HasBlock(s.mode.sensorMode, bpp))

(* SetOutputDepth ends so, through both of its rollbacks. *)
LEMMA DepthEnds ==
  ASSUME NEW s, Shape(s), NEW bpp
  PROVE  \A o \in SetOutputDepth(s, bpp) : DepthOutcome(s, bpp, o.s)
<1> DEFINE width(t) == SetFPGAOutputWidth([t EXCEPT !.mode.bpp = s.mode.bpp], s.mode.bpp >= 2)
           block(t) == IF HasModes(t) THEN ProfileSetSensorMode(t, t.mode.sensorMode) ELSE Done(t)
           rollback(u) == Then(Ignore(width(u)), LAMBDA w : RestoreWindow(w, s.cam))
           Old(t)   == Shape(t) /\ t.body = s.body /\ t.mode.sensorMode = s.mode.sensorMode
           New(t)   == Old(t) /\ t.mode.bpp = bpp
           Fits(t)  == New(t) /\ (HasModes(s) => HasBlock(s.mode.sensorMode, bpp))
<1>1. \A t : Same(s, t) => New([t EXCEPT !.mode.bpp = bpp])
  BY DEF Same, Shape
<1>2. \A t : Old(t) => Same(s, [t EXCEPT !.mode.bpp = s.mode.bpp])
  BY DEF Same, Shape
<1>3. \A t, raw : Same(s, t) => Kept(s, SetFPGAOutputWidth(t, raw))
  BY TransferKeeps DEF SetFPGAOutputWidth, Kept, Same
<1>4. \A t : Old(t) => Kept(s, width(t))
  BY <1>2, <1>3
<1>5. \A t : New(t) => \A o \in block(t) : New(o.s) /\ (o.ok => Fits(o.s))
  BY SensorModeKeeps DEF Kept, Same, HasModes, Done
<1>6. \A t : Fits(t) => \A o \in Reprogram(t) : Fits(o.s)
  BY ReprogramKeeps DEF Kept, Same
<1>7. \A t : Old(t) => Kept(s, rollback(t))
  <2> HIDE DEF width
  <2> SUFFICES ASSUME NEW t, Old(t) PROVE Kept(s, rollback(t))
    OBVIOUS
  <2>1. Kept(s, Ignore(width(t)))
    BY <1>4 DEF Ignore, Kept
  <2>2. \A w : Same(s, w) => Kept(s, RestoreWindow(w, s.cam))
    BY RestoreKeeps DEF Kept, Same
  <2> QED
    BY <2>1, <2>2 DEF Then, Kept
<1>8. \A t : Same(s, t) \/ Fits(t) => DepthOutcome(s, bpp, t)
  BY DEF Same, DepthOutcome
<1>9. SetOutputDepth(s, bpp) =
        Then(SetFPGAOutputWidth(s, bpp >= 2),
             LAMBDA t : Then(OrElse(block([t EXCEPT !.mode.bpp = bpp]), LAMBDA u : Failed(width(u))),
                             LAMBDA u : OrElse(Reprogram(u), LAMBDA v : rollback(v))))
  BY DEF SetOutputDepth, Then, OrElse
<1> HIDE DEF width, block, rollback, Old, New, Fits
<1>10. \A t : New(t) => Old(t)
  BY DEF New
<1>11. \A t : Fits(t) => New(t)
  BY DEF Fits
<1> DEFINE first(t)  == OrElse(block([t EXCEPT !.mode.bpp = bpp]), LAMBDA u : Failed(width(u)))
           second(u) == OrElse(Reprogram(u), LAMBDA v : rollback(v))
<1>12. \A t : Same(s, t) =>
         \A o \in first(t) : IF o.ok THEN Fits(o.s) ELSE Same(s, o.s)
  BY <1>1, <1>4, <1>5, <1>10 DEF OrElse, Failed, Kept
<1>13. \A u : Fits(u) => \A o \in second(u) : Same(s, o.s) \/ Fits(o.s)
  BY <1>6, <1>7, <1>10, <1>11 DEF OrElse, Kept
<1>14. Kept(s, SetFPGAOutputWidth(s, bpp >= 2))
  BY <1>3 DEF Same
<1>15. SetOutputDepth(s, bpp) =
         Then(SetFPGAOutputWidth(s, bpp >= 2), LAMBDA t : Then(first(t), LAMBDA u : second(u)))
  BY <1>9 DEF Then
<1> HIDE DEF first, second
<1>16. \A t : Same(s, t) =>
         \A o \in Then(first(t), LAMBDA u : second(u)) : Same(s, o.s) \/ Fits(o.s)
  BY <1>12, <1>13 DEF Then
<1> QED
  BY <1>8, <1>14, <1>15, <1>16 DEF Then, Kept

(* A mode change, whatever fails, keeps the depth, and ends in the old mode or *)
(* in a new one that has a block at that depth.                                *)
ModeOutcome(s, m, t) ==
  /\ Shape(t)
  /\ t.body = s.body /\ t.mode.bpp = s.mode.bpp
  /\ \/ t.mode.sensorMode = s.mode.sensorMode
     \/ t.mode.sensorMode = m /\ HasModes(s) /\ HasBlock(m, s.mode.bpp)

(* SetSensorMode ends so, wherever among its four transfers it fails. *)
LEMMA ModeEnds ==
  ASSUME NEW s, Shape(s), NEW m
  PROVE  \A o \in SetSensorMode(s, m) : ModeOutcome(s, m, o.s)
<1> DEFINE restore(t) == RestoreWindow([t EXCEPT !.mode.sensorMode = s.mode.sensorMode], s.cam)
           program(t) ==
             Then(Then(Then(ProfileSetSensorMode(t, m), Reprogram),
                       LAMBDA u : SetGain(u, u.cam.gain)),
                  LAMBDA u : SetOffset(u, u.cam.offset))
           start   == [s EXCEPT !.mode.sensorMode = m]
           New(t)  == Shape(t) /\ t.body = s.body /\ t.mode.bpp = s.mode.bpp /\ t.mode.sensorMode = m
           Fits(t) == New(t) /\ HasBlock(m, s.mode.bpp)
<1>1. New(start)
  BY DEF Shape
<1>2. \A t : New(t) => Kept(s, restore(t))
  <2>1. \A t : New(t) => Same(s, [t EXCEPT !.mode.sensorMode = s.mode.sensorMode])
    BY DEF Same, Shape
  <2>2. \A u : Same(s, u) => Kept(s, RestoreWindow(u, s.cam))
    BY RestoreKeeps DEF Kept, Same
  <2> QED
    BY <2>1, <2>2
<1>3. \A t : New(t) => \A o \in ProfileSetSensorMode(t, m) : New(o.s) /\ (o.ok => Fits(o.s))
  BY SensorModeKeeps DEF Kept, Same
<1>4. \A t : Fits(t) => \A o \in Reprogram(t) : Fits(o.s)
  BY ReprogramKeeps DEF Kept, Same
<1>5. \A t, gain : Fits(t) => \A o \in SetGain(t, gain) : Fits(o.s)
  BY GainKeeps DEF Kept, Same
<1>6. \A t, offset : Fits(t) => \A o \in SetOffset(t, offset) : Fits(o.s)
  BY OffsetKeeps DEF Kept, Same
<1>7. \A t : Fits(t) => New(t)
  OBVIOUS
<1>8. \A t : HasModes(s) /\ (Same(s, t) \/ Fits(t)) => ModeOutcome(s, m, t)
  BY DEF Same, ModeOutcome
<1>9. \A o \in Refuse(s) \union Done(s) : ModeOutcome(s, m, o.s)
  BY DEF Refuse, Done, ModeOutcome
<1> HIDE DEF New, Fits, restore, start
<1>10. \A o \in program(start) : New(o.s) /\ (o.ok => Fits(o.s))
  <2> DEFINE one == Then(ProfileSetSensorMode(start, m), Reprogram)
             two == Then(one, LAMBDA u : SetGain(u, u.cam.gain))
  <2>1. \A o \in one : New(o.s) /\ (o.ok => Fits(o.s))
    BY <1>1, <1>3, <1>4, <1>7 DEF Then
  <2> HIDE DEF one
  <2>2. \A o \in two : New(o.s) /\ (o.ok => Fits(o.s))
    BY <2>1, <1>5, <1>7 DEF Then
  <2> HIDE DEF two
  <2>3. \A o \in Then(two, LAMBDA u : SetOffset(u, u.cam.offset)) : New(o.s) /\ (o.ok => Fits(o.s))
    BY <2>2, <1>6, <1>7 DEF Then
  <2> QED
    BY <2>3 DEF one, two
<1> HIDE DEF program
<1>11. \A o \in OrElse(program(start), LAMBDA t : restore(t)) : Same(s, o.s) \/ Fits(o.s)
  BY <1>2, <1>10 DEF OrElse, Kept
<1>12. SetSensorMode(s, m) =
         IF ~ HasModes(s) \/ m \notin 0 .. s.body.modes - 1 THEN Refuse(s)
         ELSE IF m = s.mode.sensorMode THEN Done(s)
         ELSE OrElse(program(start), LAMBDA t : restore(t))
  BY DEF SetSensorMode, OrElse, program, restore, start
<1> QED
  BY <1>8, <1>9, <1>11, <1>12
-----------------------------------------------------------------------------
(* The theorem *)

(* Every other operation keeps both. *)
LEMMA OthersKeep ==
  ASSUME NEW s, Shape(s)
  PROVE  /\ Kept(s, InitCamera(s))
         /\ \A bin : Kept(s, SetBinning(s, bin))
         /\ \A on : /\ Kept(s, SetHardwareBin(s, on))
                    /\ Kept(s, SetHighSpeedMode(s, on))
                    /\ Kept(s, SetBinSum(s, on))
<1>0. Same(s, s)
  BY DEF Same
<1>1. \A u, v, w : Same(u, v) /\ Same(v, w) => Same(u, w)
  BY DEF Same
<1>2. Kept(s, InitCamera(s))
  <2> DEFINE table == [gain |-> <<0, Normal>>, block |-> Unset, offset |-> Unset]
             fpga(t) == IF t.body.vid = "POA" THEN ProfileSetSensorMode(t, t.mode.sensorMode)
                        ELSE Transfer(t, <<[reg0a |-> 1 + IF t.mode.bpp >= 2 THEN 16 ELSE 0]>>)
             one   == Then(Transfer(s, <<table>>), fpga)
             two   == Then(one, LAMBDA t : SetROI(t, t.cam.roi))
             three == Then(two, LAMBDA t : ProfileSetOffset(t, t.cam.offset))
  <2>1. \A t : Same(s, t) => Kept(s, fpga(t))
    BY TransferKeeps, SensorModeKeeps DEF Kept, Same
  <2>2. Kept(s, Transfer(s, <<table>>))
    BY TransferKeeps
  <2> HIDE DEF fpga, table
  <2>3. Kept(s, one)
    BY <2>1, <2>2 DEF Then, Kept
  <2>4. \A t : Same(s, t) => Kept(s, SetROI(t, t.cam.roi))
    BY ROIKeeps DEF Kept, Same
  <2>5. \A t : Same(s, t) => Kept(s, ProfileSetOffset(t, t.cam.offset))
    BY OffsetKeeps DEF Kept, Same
  <2> HIDE DEF one
  <2>6. Kept(s, two)
    BY <2>3, <2>4 DEF Then, Kept
  <2> HIDE DEF two
  <2>7. Kept(s, three)
    BY <2>5, <2>6 DEF Then, Kept
  <2>8. InitCamera(s) = three
    BY DEF InitCamera, three, two, one, fpga, table
  <2> QED
    BY <2>7, <2>8
<1>3. \A bin : Kept(s, SetBinning(s, bin))
  BY <1>0, ResplitKeeps DEF SetBinning, Refuse, Kept
<1>4. \A on : Kept(s, SetHardwareBin(s, on))
  BY ResplitKeeps DEF SetHardwareBin
<1>5. \A t, v : Same(s, t) => Same(s, [t EXCEPT !.mode.highSpeed = v]) /\ Same(s, [t EXCEPT !.mode.binSum = v])
  BY DEF Same, Shape
<1>6. \A t : Same(s, t) => Kept(s, Reprogram(t))
  BY ReprogramKeeps DEF Same, Kept
<1>7. \A on : Kept(s, SetHighSpeedMode(s, on))
  BY <1>0, <1>5, <1>6 DEF SetHighSpeedMode
<1>8. ASSUME NEW sum PROVE Kept(s, SetBinSum(s, sum))
  <2> DEFINE back(t) == Refuse([t EXCEPT !.mode.binSum = s.mode.binSum])
  <2>1. Kept(s, Reprogram([s EXCEPT !.mode.binSum = sum]))
    BY <1>0, <1>5, <1>6
  <2>2. \A t : Same(s, t) => Kept(s, back(t))
    <3> TAKE t
    <3> HAVE Same(s, t)
    <3>1. Same(s, [t EXCEPT !.mode.binSum = s.mode.binSum])
      BY <1>5
    <3>2. \A u : Same(s, u) => Kept(s, Refuse(u))
      BY DEF Refuse, Kept
    <3> QED
      BY <3>1, <3>2
  <2>3. Kept(s, Done(s))
    BY <1>0 DEF Done, Kept
  <2>4. SetBinSum(s, sum) = IF sum = s.mode.binSum THEN Done(s)
                            ELSE OrElse(Reprogram([s EXCEPT !.mode.binSum = sum]), back)
    BY DEF SetBinSum, OrElse, back
  <2> HIDE DEF back
  <2>5. Kept(s, OrElse(Reprogram([s EXCEPT !.mode.binSum = sum]), back))
    BY <2>1, <2>2 DEF OrElse, Kept
  <2> QED
    BY <2>3, <2>4, <2>5
<1> QED
  BY <1>2, <1>3, <1>4, <1>7, <1>8

(* The inductive invariant: a body without modes never leaves the normal one, *)
(* which is what lets SetOutputDepth skip the sensor block there.             *)
ModeInv ==
  /\ Shape(S0)
  /\ HasModes(S0) \/ mode.sensorMode = Normal
  /\ NoDeadMode

(* The camera is never left in a mode that has no sensor block at its depth,  *)
(* whatever a caller sets in whatever order and whichever transfers fail.     *)
THEOREM NeverDeadMode == Spec => []NoDeadMode
<1>1. Init => ModeInv
  BY DEF Init, ModeInv, Shape, S0, NoDeadMode, HasBlock, Normal, HDR
<1>2. ModeInv /\ [Next]_vars => ModeInv'
  <2> SUFFICES ASSUME ModeInv, [Next]_vars PROVE ModeInv'
    OBVIOUS
  <2> USE DEF ModeInv
  <2>1. ASSUME NEW outs, Return(outs), Kept(S0, outs) PROVE ModeInv'
    BY <2>1 DEF Return, Kept, Same, Shape, S0, HasModes, NoDeadMode
  <2>2. CASE Return(InitCamera(S0))
    BY <2>1, <2>2, OthersKeep
  <2>3. ASSUME NEW r \in Requests, Return(SetROI(S0, r)) PROVE ModeInv'
    BY <2>1, <2>3, ROIKeeps
  <2>4. ASSUME NEW bin \in 1 .. 5, Return(SetBinning(S0, bin)) PROVE ModeInv'
    BY <2>1, <2>4, OthersKeep
  <2>5. ASSUME NEW on \in BOOLEAN,
               Return(SetHardwareBin(S0, on)) \/ Return(SetHighSpeedMode(S0, on)) \/ Return(SetBinSum(S0, on))
        PROVE ModeInv'
    BY <2>1, <2>5, OthersKeep
  <2>6. ASSUME NEW bpp \in 1 .. 2, Return(SetOutputDepth(S0, bpp)) PROVE ModeInv'
    <3>1. PICK o \in SetOutputDepth(S0, bpp) :
            cam' = o.s.cam /\ mode' = o.s.mode /\ dev' = o.s.dev /\ faults' = o.s.faults /\ UNCHANGED body
      BY <2>6 DEF Return
    <3>2. DepthOutcome(S0, bpp, o.s)
      BY DepthEnds
    <3> QED
      BY <3>1, <3>2 DEF DepthOutcome, Shape, S0, HasModes, NoDeadMode, HasBlock, Normal, HDR
  <2>7. ASSUME NEW m \in {Normal, HDR}, Return(SetSensorMode(S0, m)) PROVE ModeInv'
    <3>1. PICK o \in SetSensorMode(S0, m) :
            cam' = o.s.cam /\ mode' = o.s.mode /\ dev' = o.s.dev /\ faults' = o.s.faults /\ UNCHANGED body
      BY <2>7 DEF Return
    <3>2. ModeOutcome(S0, m, o.s)
      BY ModeEnds
    <3> QED
      BY <3>1, <3>2 DEF ModeOutcome, Shape, S0, HasModes, NoDeadMode
  <2>8. ASSUME NEW gain \in Gains, Return(SetGain(S0, gain)) PROVE ModeInv'
    BY <2>1, <2>8, GainKeeps
  <2>9. ASSUME NEW offset \in Offsets, Return(SetOffset(S0, offset)) PROVE ModeInv'
    BY <2>1, <2>9, OffsetKeeps
  <2>10. CASE UNCHANGED vars
    BY <2>10 DEF vars, Shape, S0, HasModes, NoDeadMode
  <2> QED
    BY <2>2, <2>3, <2>4, <2>5, <2>6, <2>7, <2>8, <2>9, <2>10 DEF Next
<1>3. ModeInv => NoDeadMode
  BY DEF ModeInv
<1> QED
  BY <1>1, <1>2, <1>3, PTL DEF Spec

-----------------------------------------------------------------------------
(* Steps, bins and greatest common divisors. *)

(* A largest element is the maximum. *)
LEMMA MaxIs ==
  ASSUME NEW S, S \subseteq Int, NEW g \in S, \A d \in S : g >= d
  PROVE  Max(S) = g
<1>1. \A x \in S : (\A y \in S : x >= y) => x = g
  OBVIOUS
<1> QED
  BY <1>1 DEF Max

(* A set of factors has one. *)
LEMMA MaxOfFactors ==
  ASSUME NEW S, S \subseteq 1 .. 4, S # {}
  PROVE  Max(S) \in S /\ \A d \in S : Max(S) >= d
<1>1. \E g \in S : \A d \in S : g >= d
  <2>1. CASE 4 \in S BY <2>1
  <2>2. CASE 4 \notin S /\ 3 \in S BY <2>2
  <2>3. CASE 4 \notin S /\ 3 \notin S /\ 2 \in S BY <2>3
  <2>4. CASE 4 \notin S /\ 3 \notin S /\ 2 \notin S
    <3>1. \A d \in S : d = 1 BY <2>4
    <3>2. 1 \in S BY <3>1
    <3> QED BY <3>1, <3>2
  <2> QED BY <2>1, <2>2, <2>3, <2>4
<1>2. PICK g \in S : \A d \in S : g >= d
  BY <1>1
<1>3. S \subseteq Int
  OBVIOUS
<1>4. Max(S) = g
  BY <1>2, <1>3, MaxIs
<1> QED
  BY <1>2, <1>4

(* Greatest common divisors of the steps and the bins. *)
LEMMA Divisors ==
  ASSUME NEW n \in 1 .. 4
  PROVE  /\ Gcd(16, n) = (IF n = 3 THEN 1 ELSE n)
         /\ Gcd(8, n) = (IF n = 3 THEN 1 ELSE n)
         /\ Gcd(4, n) = (IF n = 3 THEN 1 ELSE n)
         /\ Gcd(2, n) = (IF n \in {2, 4} THEN 2 ELSE 1)
         /\ Gcd(6, n) = (IF n = 3 THEN 3 ELSE IF n = 1 THEN 1 ELSE 2)
<1> DEFINE D(m) == {d \in 1 .. m : m % d = 0 /\ n % d = 0}
<1>1. ASSUME NEW m \in {2, 4, 6, 8, 16}, NEW d \in D(m) PROVE d \in 1 .. 4 /\ d <= n
  <2>1. d <= n
    <3> SUFFICES ASSUME d > n PROVE FALSE
      OBVIOUS
    <3>1. n % d = n
      OBVIOUS
    <3> QED
      BY <3>1
  <2> QED
    BY <2>1
<1>2. ASSUME NEW m \in {2, 4, 6, 8, 16}
      PROVE  D(m) = {d \in 1 .. 4 : d <= n /\ d <= m /\ m % d = 0 /\ n % d = 0}
  BY <1>1
<1> HIDE DEF D
<1>3. ASSUME NEW m \in {2, 4, 6, 8, 16}, NEW g \in 1 .. 4, g \in D(m),
             \A d \in 1 .. 4 : d \in D(m) => g >= d
      PROVE  Gcd(m, n) = g
  <2>1. \A d \in D(m) : g >= d
    BY <1>3, <1>1
  <2>2. D(m) \subseteq Int
    BY <1>1
  <2>3. Max(D(m)) = g
    BY <1>3, <2>1, <2>2, MaxIs
  <2> QED
    BY <2>3 DEF Gcd, D
<1>4. CASE n = 1
  BY <1>2, <1>3, <1>4
<1>5. CASE n = 2
  BY <1>2, <1>3, <1>5
<1>6. CASE n = 3
  BY <1>2, <1>3, <1>6
<1>7. CASE n = 4
  BY <1>2, <1>3, <1>7
<1> QED
  BY <1>4, <1>5, <1>6, <1>7

(* How a factor is split: PlayerOne leaves nothing to the host, ZWO's die takes *)
(* a factor of 2 or 3 at most.                                                  *)
SplitZWO == {<<1, 1, 1>>, <<2, 1, 2>>, <<2, 2, 1>>, <<3, 1, 3>>, <<3, 3, 1>>, <<4, 1, 4>>, <<4, 2, 2>>}

(* The split of every factor a body offers. *)
LEMMA Splits ==
  ASSUME ShippedBodies, NEW b \in Bodies, NEW bin \in b.bins, NEW hwBin \in BOOLEAN
  PROVE  LET split == BinSplit(b, bin, hwBin)
         IN  /\ bin \in 1 .. 4
             /\ b.vid = "POA" => split.hw = bin /\ split.soft = 1
             /\ b.vid = "ZWO" => <<bin, split.hw, split.soft>> \in SplitZWO
             /\ SensorSplit(b, bin, hwBin) \in 1 .. 4
             /\ bin % SensorSplit(b, bin, hwBin) = 0
<1> DEFINE F == {1} \union {k \in b.hwBins : bin % k = 0}
<1>0. bin \in 1 .. 4 /\ b.hwBins \subseteq 1 .. 4
  BY DEF ShippedBodies
<1>1. LargestFactor(b, bin) \in F
  BY <1>0, MaxOfFactors DEF LargestFactor
<1>2. LargestFactor(b, bin) \in 1 .. 4 /\ bin % LargestFactor(b, bin) = 0
  BY <1>0, <1>1
<1>3. CASE b.vid = "POA"
  BY <1>0, <1>2, <1>3 DEF ShippedBodies, BinSplit, SensorSplit
<1>4. CASE b.vid = "ZWO"
  <2>1. ~ b.deviceBins /\ LargestFactor(b, bin) # 4
    BY <1>1, <1>4 DEF ShippedBodies
  <2> DEFINE f == LargestFactor(b, bin)
  <2>2. f \in 1 .. 3 /\ bin % f = 0
    BY <1>2, <2>1
  <2>3. SensorSplit(b, bin, hwBin) = 1
    BY <2>1 DEF SensorSplit
  <2>4. BinSplit(b, bin, hwBin) = [hw |-> IF hwBin THEN f ELSE 1, soft |-> bin \div (IF hwBin THEN f ELSE 1)]
    BY <2>1 DEF BinSplit
  <2> HIDE DEF f
  <2>5. <<bin, IF hwBin THEN f ELSE 1, bin \div (IF hwBin THEN f ELSE 1)>> \in SplitZWO
    <3>1. CASE f = 1
      BY <1>0, <2>2, <3>1 DEF SplitZWO
    <3>2. CASE f = 2
      BY <1>0, <2>2, <3>2 DEF SplitZWO
    <3>3. CASE f = 3
      BY <1>0, <2>2, <3>3 DEF SplitZWO
    <3> QED
      BY <2>2, <3>1, <3>2, <3>3
  <2> QED
    BY <1>0, <1>4, <2>3, <2>4, <2>5
<1> QED
  BY <1>3, <1>4, ReadoutAssumption

(* A start moves down to a whole step, on which it is exact in sensor pixels. *)
LEMMA Aligns ==
  ASSUME NEW v \in Nat, NEW bin \in 1 .. 4, NEW align \in {2, 4, 6, 16}
  PROVE  LET a == AlignStart(v, bin, align)
         IN  /\ a \in 0 .. v
             /\ (a * bin) % align = 0
             /\ AlignStart(a, bin, align) = a
<1> DEFINE step == (align * bin) \div Gcd(align, bin)
           a    == AlignStart(v, bin, align)
<1>1. step \in {2, 4, 6, 12, 16, 48} /\ step % bin = 0 /\ step % align = 0
  BY Divisors
<1>2. a = (v * bin - ((v * bin) % step)) \div bin
  BY DEF AlignStart
<1>3. AlignStart(a, bin, align) = (a * bin - ((a * bin) % step)) \div bin
  BY DEF AlignStart
<1> HIDE DEF step, a
<1>4. ASSUME NEW n \in {1, 2, 3, 4}, bin = n, NEW k \in {2, 4, 6, 12, 16, 48}, step = k
      PROVE  a \in 0 .. v /\ a * n = k * ((v * n) \div k)
  BY <1>1, <1>2, <1>4
<1>5. a \in 0 .. v /\ a * bin = step * ((v * bin) \div step)
  BY <1>1, <1>4
<1>6. \A q \in Nat, k \in {2, 4, 6, 12, 16, 48} : (k * q) % k = 0 /\ (k % align = 0 => (k * q) % align = 0)
  OBVIOUS
<1>7. (v * bin) \div step \in Nat
  BY <1>1
<1>8. (a * bin) % step = 0 /\ (a * bin) % align = 0
  <2> DEFINE q == (v * bin) \div step
  <2>1. q \in Nat /\ a * bin = step * q
    BY <1>5, <1>7
  <2> HIDE DEF q
  <2>2. (step * q) % step = 0 /\ (step * q) % align = 0
    BY <1>1, <1>6, <2>1
  <2> QED
    BY <2>1, <2>2
<1>9. (a * bin) \div bin = a
  BY <1>5
<1>10. a \in Nat
  BY <1>5
<1> QED
  BY <1>3, <1>5, <1>8, <1>9, <1>10 DEF a

-----------------------------------------------------------------------------
(* Windows SetROI accepts. *)

(* The windows the camera holds. *)
HeldWindow == [x : Nat, y : Nat, w : Nat, h : Nat]

(* The full window of a split is one SetROI accepts. *)
LEMMA FullLegal ==
  ASSUME ShippedBodies, NEW b \in Bodies, NEW bin \in b.bins, NEW hwBin \in BOOLEAN
  PROVE  /\ FullWindow(b, bin, hwBin) \in HeldWindow
         /\ LegalWindow(b, bin, hwBin, FullWindow(b, bin, hwBin))
<1> DEFINE split == BinSplit(b, bin, hwBin)
           full  == FullWindow(b, bin, hwBin)
           stepW == IF split.hw = 1 THEN 8 \div Gcd(8, bin) ELSE b.stepW
           stepH == IF split.hw = 1 THEN 2 \div Gcd(2, bin) ELSE b.stepH
           unit  == IF split.hw > 1 THEN 1 ELSE bin
           w     == b.width \div bin
           h     == b.height \div bin
<1>1. full = [x |-> 0, y |-> 0, w |-> w - (w % stepW), h |-> h - (h % stepH)]
  BY DEF FullWindow
<1>2. b.width \in Nat /\ b.height \in Nat /\ b.width >= 32 /\ b.height >= 8
  BY ReadoutAssumption DEF ShippedBodies
<1>3. bin \in 1 .. 4 /\ Gcd(8, bin) = (IF bin = 3 THEN 1 ELSE bin) /\ Gcd(2, bin) = (IF bin \in {2, 4} THEN 2 ELSE 1)
  BY Splits, Divisors
<1>4. /\ w - (w % stepW) \in 1 .. w /\ ((w - (w % stepW)) * unit) % b.stepW = 0
      /\ h - (h % stepH) \in 1 .. h /\ ((h - (h % stepH)) * unit) % b.stepH = 0
      /\ split.soft > 1 => /\ ((w - (w % stepW)) * split.soft) % 2 = 0
                           /\ ((h - (h % stepH)) * split.soft) % 2 = 0
  <2> DEFINE Fits(hw, soft, a, c) ==
        LET sw == IF hw = 1 THEN 8 \div Gcd(8, bin) ELSE a
            sh == IF hw = 1 THEN 2 \div Gcd(2, bin) ELSE c
            u  == IF hw > 1 THEN 1 ELSE bin
        IN  /\ w - (w % sw) \in 1 .. w /\ ((w - (w % sw)) * u) % a = 0
            /\ h - (h % sh) \in 1 .. h /\ ((h - (h % sh)) * u) % c = 0
            /\ soft > 1 => /\ ((w - (w % sw)) * soft) % 2 = 0
                           /\ ((h - (h % sh)) * soft) % 2 = 0
  <2>1. ASSUME <<bin, split.hw, split.soft>> \in SplitZWO PROVE Fits(split.hw, split.soft, 8, 2)
    <3>1. CASE <<bin, split.hw, split.soft>> = <<1, 1, 1>> BY <1>2, <1>3, <3>1
    <3>2. CASE <<bin, split.hw, split.soft>> = <<2, 1, 2>> BY <1>2, <1>3, <3>2
    <3>3. CASE <<bin, split.hw, split.soft>> = <<2, 2, 1>> BY <1>2, <1>3, <3>3
    <3>4. CASE <<bin, split.hw, split.soft>> = <<3, 1, 3>> BY <1>2, <1>3, <3>4
    <3>5. CASE <<bin, split.hw, split.soft>> = <<3, 3, 1>> BY <1>2, <1>3, <3>5
    <3>6. CASE <<bin, split.hw, split.soft>> = <<4, 1, 4>> BY <1>2, <1>3, <3>6
    <3>7. CASE <<bin, split.hw, split.soft>> = <<4, 2, 2>> BY <1>2, <1>3, <3>7
    <3> QED BY <2>1, <3>1, <3>2, <3>3, <3>4, <3>5, <3>6, <3>7 DEF SplitZWO
  <2>2. ASSUME split.hw = bin, split.soft = 1 PROVE Fits(split.hw, split.soft, 4, 2)
    <3>1. CASE bin = 1 BY <1>2, <1>3, <2>2, <3>1
    <3>2. CASE bin = 2 BY <1>2, <1>3, <2>2, <3>2
    <3>3. CASE bin = 3 BY <1>2, <1>3, <2>2, <3>3
    <3>4. CASE bin = 4 BY <1>2, <1>3, <2>2, <3>4
    <3> QED BY <1>3, <3>1, <3>2, <3>3, <3>4
  <2>3. CASE b.vid = "ZWO"
    <3>1. <<bin, split.hw, split.soft>> \in SplitZWO /\ b.stepW = 8 /\ b.stepH = 2
      BY <2>3, Splits DEF ShippedBodies
    <3> QED BY <2>1, <3>1
  <2>4. CASE b.vid = "POA"
    <3>1. split.hw = bin /\ split.soft = 1 /\ b.stepW = 4 /\ b.stepH = 2
      BY <2>4, Splits DEF ShippedBodies
    <3> QED BY <2>2, <3>1
  <2> QED
    BY <2>3, <2>4, ReadoutAssumption
<1> HIDE DEF stepW, stepH, full
<1>5. w \in Nat /\ h \in Nat
  BY <1>2, <1>3
<1>6. w - (w % stepW) \in Nat /\ h - (h % stepH) \in Nat
  BY <1>4, <1>5
<1> QED
  BY <1>1, <1>4, <1>5, <1>6 DEF full, LegalWindow, HeldWindow

(* Where SetROI places the window asked for. *)
Placed(b, bin, hwBin, request) ==
  LET start == AlignedStart(b, bin, hwBin, request.x, request.y)
  IN  [request EXCEPT !.x = start.x, !.y = start.y]

(* The grid of a split is one of those Aligns is about. *)
LEMMA Grids ==
  ASSUME NEW b, NEW hw
  PROVE  ROIStartAlign(b, hw).x \in {2, 16} /\ ROIStartAlign(b, hw).y \in {2, 4, 6}
BY DEF ROIStartAlign

(* A window it accepts is accepted where it is placed, and stays there. *)
LEMMA PlacedLegal ==
  ASSUME ShippedBodies, NEW b \in Bodies, NEW bin \in b.bins, NEW hwBin \in BOOLEAN,
         NEW request \in AnyWindow, LegalWindow(b, bin, hwBin, request)
  PROVE  LET r    == Placed(b, bin, hwBin, request)
             grid == ROIStartAlign(b, BinSplit(b, bin, hwBin).hw)
         IN  /\ r \in HeldWindow /\ LegalWindow(b, bin, hwBin, r)
             /\ r.w = request.w /\ r.h = request.h
             /\ (r.x * bin) % grid.x = 0 /\ (r.y * bin) % grid.y = 0
             /\ Placed(b, bin, hwBin, r) = r
<1> DEFINE r    == Placed(b, bin, hwBin, request)
           grid == ROIStartAlign(b, BinSplit(b, bin, hwBin).hw)
           x    == AlignStart(request.x, bin, grid.x)
           y    == AlignStart(request.y, bin, grid.y)
<1>1. bin \in 1 .. 4
  BY Splits
<1>2. request.x \in Nat /\ request.y \in Nat /\ request.w \in Nat /\ request.h \in Nat
  BY DEF LegalWindow, AnyWindow
<1>3. grid.x \in {2, 16} /\ grid.y \in {2, 4, 6}
  BY Grids
<1>4. /\ x \in 0 .. request.x /\ (x * bin) % grid.x = 0 /\ AlignStart(x, bin, grid.x) = x
      /\ y \in 0 .. request.y /\ (y * bin) % grid.y = 0 /\ AlignStart(y, bin, grid.y) = y
  <2>1. \A v \in Nat, align \in {2, 4, 6, 16} :
          LET a == AlignStart(v, bin, align)
          IN  a \in 0 .. v /\ (a * bin) % align = 0 /\ AlignStart(a, bin, align) = a
    BY <1>1, Aligns
  <2> HIDE DEF grid
  <2>2. grid.x \in {2, 4, 6, 16} /\ grid.y \in {2, 4, 6, 16}
    BY <1>3
  <2> QED
    BY <1>2, <2>1, <2>2
<1>5. r = [request EXCEPT !.x = x, !.y = y]
  BY DEF Placed, AlignedStart
<1>6. Placed(b, bin, hwBin, r) = [r EXCEPT !.x = AlignStart(r.x, bin, grid.x), !.y = AlignStart(r.y, bin, grid.y)]
  BY DEF Placed, AlignedStart
<1> HIDE DEF r, grid, x, y
<1>7. r = [x |-> x, y |-> y, w |-> request.w, h |-> request.h]
  BY <1>5 DEF AnyWindow
<1>8. Placed(b, bin, hwBin, r) = r
  BY <1>4, <1>6, <1>7
<1>9. b.width \div bin \in Nat /\ b.height \div bin \in Nat
  BY <1>1, ReadoutAssumption
<1>10. LegalWindow(b, bin, hwBin, r)
  BY <1>2, <1>4, <1>7, <1>9 DEF LegalWindow
<1> QED
  BY <1>2, <1>4, <1>7, <1>8, <1>10 DEF HeldWindow, r, grid

(* One axis of ClampROI: what it settles on fits, in whole steps. *)
LEMMA ClampSizes ==
  ASSUME NEW size \in Int, NEW room \in Nat, NEW step \in {1, 2, 4, 8}, step <= room
  PROVE  LET c == ClampSize(size, room, step)
         IN  c \in 1 .. room /\ c % step = 0
<1> DEFINE fit   == IF size > room THEN room ELSE size
           whole == IF fit >= 0 THEN fit - (fit % step) ELSE (-fit % step) + fit
<1>1. ClampSize(size, room, step) = IF whole < step THEN step ELSE whole
  BY DEF ClampSize
<1>2. fit \in Int /\ fit <= room
  OBVIOUS
<1> HIDE DEF fit
<1>3. ASSUME NEW k \in {1, 2, 4, 8}, step = k
      PROVE  /\ fit < 0 => whole < k
             /\ fit >= 0 => whole \in 0 .. fit /\ whole % k = 0
             /\ k % k = 0
  BY <1>2, <1>3
<1>4. whole \in Int
  BY <1>2
<1> HIDE DEF whole
<1> QED
  BY <1>1, <1>2, <1>3, <1>4

(* What ClampROI offers is accepted as it stands where there is room for a step. *)
LEMMA ClampLegal ==
  ASSUME ShippedBodies, NEW b \in Bodies, NEW bin \in b.bins, NEW hwBin \in BOOLEAN,
         NEW r \in AnyWindow, HasRoom(b, bin, hwBin, ClampROI(b, bin, hwBin, r))
  PROVE  LET c == ClampROI(b, bin, hwBin, r)
         IN  /\ LegalWindow(b, bin, hwBin, c)
             /\ AlignedStart(b, bin, hwBin, c.x, c.y) = [x |-> c.x, y |-> c.y]
<1> DEFINE split == BinSplit(b, bin, hwBin)
           grid  == ROIStartAlign(b, split.hw)
           step  == ROIStep(b, bin, hwBin)
           unit  == IF split.hw > 1 THEN 1 ELSE bin
           maxW  == b.width \div bin
           maxH  == b.height \div bin
           vx    == IF r.x < 0 THEN 0 ELSE r.x
           vy    == IF r.y < 0 THEN 0 ELSE r.y
           sx    == AlignStart(vx, bin, grid.x)
           sy    == AlignStart(vy, bin, grid.y)
           x     == ClampStart(sx, maxW)
           y     == ClampStart(sy, maxH)
           c     == ClampROI(b, bin, hwBin, r)
<1>1. bin \in 1 .. 4
  BY Splits
<1>2. maxW \in Nat /\ maxH \in Nat
  BY <1>1, ReadoutAssumption
<1>3. vx \in Nat /\ vy \in Nat /\ r.w \in Int /\ r.h \in Int
  BY DEF AnyWindow
<1>4. c = [x |-> x, y |-> y, w |-> ClampSize(r.w, maxW - x, step.w), h |-> ClampSize(r.h, maxH - y, step.h)]
  BY DEF ClampROI, AlignedStart
<1>5. \A v \in Nat, align \in {2, 4, 6, 16} :
        LET a == AlignStart(v, bin, align)
        IN  a \in 0 .. v /\ AlignStart(a, bin, align) = a
  BY <1>1, Aligns
<1>6. grid.x \in {2, 4, 6, 16} /\ grid.y \in {2, 4, 6, 16}
  <2> HIDE DEF split
  <2> QED BY Grids
<1>7. sx \in Nat /\ sy \in Nat /\ AlignStart(sx, bin, grid.x) = sx /\ AlignStart(sy, bin, grid.y) = sy
  <2> HIDE DEF grid, vx, vy
  <2> QED BY <1>3, <1>5, <1>6
<1>8. /\ x \in Nat /\ AlignStart(x, bin, grid.x) = x
      /\ y \in Nat /\ AlignStart(y, bin, grid.y) = y
  <2> HIDE DEF grid, sx, sy
  <2>1. AlignStart(0, bin, grid.x) = 0 /\ AlignStart(0, bin, grid.y) = 0
    BY <1>5, <1>6
  <2> QED
    BY <1>7, <2>1 DEF ClampStart
<1>9. /\ step.w \in {1, 2, 4, 8} /\ step.h \in {1, 2, 4, 8}
      /\ \A n \in Nat : n % step.w = 0 => /\ (n * unit) % b.stepW = 0
                                          /\ split.soft > 1 /\ b.color => (n * split.soft) % 2 = 0
      /\ \A n \in Nat : n % step.h = 0 => /\ (n * unit) % b.stepH = 0
                                          /\ split.soft > 1 /\ b.color => (n * split.soft) % 2 = 0
  <2>1. /\ Gcd(8, bin) = (IF bin = 3 THEN 1 ELSE bin) /\ Gcd(4, bin) = (IF bin = 3 THEN 1 ELSE bin)
        /\ Gcd(2, bin) = (IF bin \in {2, 4} THEN 2 ELSE 1)
    BY <1>1, Divisors
  <2> DEFINE even(v) == IF v % 2 = 0 THEN v ELSE 2 * v
             w == IF split.hw <= 1 THEN b.stepW \div Gcd(b.stepW, bin) ELSE b.stepW
             h == IF split.hw <= 1 THEN b.stepH \div Gcd(b.stepH, bin) ELSE b.stepH
             odd == split.soft > 1 /\ b.color /\ split.soft % 2 # 0
  <2>2. step = IF odd THEN [w |-> even(w), h |-> even(h)] ELSE [w |-> w, h |-> h]
    BY DEF ROIStep
  <2> DEFINE Good == /\ step.w \in {1, 2, 4, 8} /\ step.h \in {1, 2, 4, 8}
                     /\ \A n \in Nat : n % step.w = 0 => /\ (n * unit) % b.stepW = 0
                                                         /\ split.soft > 1 /\ b.color => (n * split.soft) % 2 = 0
                     /\ \A n \in Nat : n % step.h = 0 => /\ (n * unit) % b.stepH = 0
                                                         /\ split.soft > 1 /\ b.color => (n * split.soft) % 2 = 0
  <2> HIDE DEF step, split
  <2>3. ASSUME <<bin, split.hw, split.soft>> \in SplitZWO, b.stepW = 8, b.stepH = 2 PROVE Good
    <3>1. CASE <<bin, split.hw, split.soft>> = <<1, 1, 1>> BY <2>1, <2>2, <2>3, <3>1
    <3>2. CASE <<bin, split.hw, split.soft>> = <<2, 1, 2>> BY <2>1, <2>2, <2>3, <3>2
    <3>3. CASE <<bin, split.hw, split.soft>> = <<2, 2, 1>> BY <2>1, <2>2, <2>3, <3>3
    <3>4. CASE <<bin, split.hw, split.soft>> = <<3, 1, 3>> BY <2>1, <2>2, <2>3, <3>4
    <3>5. CASE <<bin, split.hw, split.soft>> = <<3, 3, 1>> BY <2>1, <2>2, <2>3, <3>5
    <3>6. CASE <<bin, split.hw, split.soft>> = <<4, 1, 4>> BY <2>1, <2>2, <2>3, <3>6
    <3>7. CASE <<bin, split.hw, split.soft>> = <<4, 2, 2>> BY <2>1, <2>2, <2>3, <3>7
    <3> QED BY <2>3, <3>1, <3>2, <3>3, <3>4, <3>5, <3>6, <3>7 DEF SplitZWO
  <2>4. ASSUME split.hw = bin, split.soft = 1, b.stepW = 4, b.stepH = 2 PROVE Good
    <3>1. CASE bin = 1 BY <2>1, <2>2, <2>4, <3>1
    <3>2. CASE bin \in 2 .. 4 BY <2>1, <2>2, <2>4, <3>2
    <3> QED BY <1>1, <3>1, <3>2
  <2> QED
    BY <2>3, <2>4, Splits, ReadoutAssumption DEF ShippedBodies, split
<1>10. step.w <= maxW - x /\ step.h <= maxH - y
  BY <1>4 DEF HasRoom
<1> HIDE DEF step, x, y, maxW, maxH, c, grid, unit
<1>11. maxW - x \in Nat /\ maxH - y \in Nat
  BY <1>2, <1>8, <1>9, <1>10
<1>12. /\ c.w \in 1 .. maxW - x /\ c.w % step.w = 0
       /\ c.h \in 1 .. maxH - y /\ c.h % step.h = 0
  BY <1>3, <1>4, <1>9, <1>10, <1>11, ClampSizes
<1>13. c.w \in Nat /\ c.h \in Nat /\ c.x = x /\ c.y = y
  BY <1>4, <1>11, <1>12
<1>14. LegalWindow(b, bin, hwBin, c)
  BY <1>2, <1>8, <1>9, <1>11, <1>12, <1>13 DEF LegalWindow, unit, maxW, maxH
<1> QED
  BY <1>8, <1>13, <1>14 DEF AlignedStart, c, grid

-----------------------------------------------------------------------------
(* Exact starts. *)

(* A start in output pixels, its bin with the split of it, and the grid. *)
Starts == [v : Nat, bin : 1 .. 4, hw : 1 .. 4, soft : 1 .. 4, grid : {2, 4, 6, 16}]

(* A start on the grid is programmed as it stands, in sensor pixels. *)
LEMMA StartExact ==
  ASSUME NEW s \in Starts, s.hw * s.soft = s.bin, (s.v * s.bin) % s.grid = 0
  PROVE  Down((s.v * s.soft) * s.hw, s.grid) = s.v * s.bin
<1> DEFINE x == s.v  bin == s.bin  hw == s.hw  soft == s.soft  n == s.grid
<1>0. /\ x \in Nat /\ bin \in 1 .. 4 /\ hw \in 1 .. 4 /\ soft \in 1 .. 4 /\ n \in {2, 4, 6, 16}
      /\ hw * soft = bin /\ (x * bin) % n = 0
  BY DEF Starts
<1> HIDE DEF x, bin, hw, soft, n
<1>1. (x * soft) * hw = x * bin
  <2>1. CASE bin = 1 BY <1>0, <2>1
  <2>2. CASE bin = 2 BY <1>0, <2>2
  <2>3. CASE bin = 3 BY <1>0, <2>3
  <2>4. CASE bin = 4 BY <1>0, <2>4
  <2> QED BY <1>0, <2>1, <2>2, <2>3, <2>4
<1> DEFINE v == x * bin
<1>2. v \in Nat /\ v % n = 0
  BY <1>0
<1> HIDE DEF v
<1>3. (v \div n) * n = v
  BY <1>0, <1>2
<1>4. Down((x * soft) * hw, n) = x * bin
  BY <1>1, <1>3 DEF Down, v
<1> QED
  BY <1>4 DEF x, bin, hw, soft, n

(* ZWO: the words of a window in whole steps are its bytes. *)
LEMMA WordsZWO ==
  ASSUME NEW w \in Nat, NEW h \in Nat, NEW bpp \in 1 .. 2, NEW soft \in 1 .. 4, (w * soft) % 4 = 0
  PROVE  4 * (((w * soft) * (h * soft) * bpp + 3) \div 4) = w * h * bpp * soft * soft
<1> DEFINE p == (w * soft) \div 4
           q == (h * soft) * bpp
<1>1. p \in Nat /\ w * soft = 4 * p /\ q \in Nat
  OBVIOUS
<1>2. (w * soft) * (h * soft) * bpp = (w * soft) * q
  OBVIOUS
<1>3. w * h * bpp * soft * soft = (w * soft) * q
  OBVIOUS
<1> HIDE DEF p, q
<1>4. (w * soft) * q = 4 * (p * q) /\ p * q \in Nat
  BY <1>1
<1>5. \A n \in Nat : (4 * n + 3) \div 4 = n
  OBVIOUS
<1> QED
  BY <1>2, <1>3, <1>4, <1>5

(* The words PlayerOne's FPGA counts for a window the camera bins, f to a pixel. *)
Binnings == [w : Nat, h : Nat, bpp : 1 .. 2, bin : 1 .. 4, die : 1 .. 4, f : {1, 2}]
Binned(p) ==
  LET k  == p.bin \div p.die
      sw == (p.w * p.bin) \div p.die
      sh == ((p.h * p.bin) \div p.die) * p.f
  IN  (((sw * sh * p.bpp) \div (4 * p.f)) \div k) \div k

(* They are its bytes too, at any share of the die. *)
LEMMA WordsPOA ==
  ASSUME NEW b \in Binnings, b.bin % b.die = 0, b.w % 4 = 0
  PROVE  4 * Binned(b) = b.w * b.h * b.bpp
<1> DEFINE w == b.w  h == b.h  bpp == b.bpp  bin == b.bin  die == b.die  f == b.f
<1>0. /\ w \in Nat /\ h \in Nat /\ bpp \in 1 .. 2 /\ bin \in 1 .. 4 /\ die \in 1 .. 4 /\ f \in {1, 2}
      /\ bin % die = 0 /\ w % 4 = 0
      /\ Binned(b) = ((((((w * bin) \div die) * (((h * bin) \div die) * f) * bpp) \div (4 * f))
                          \div (bin \div die)) \div (bin \div die))
  BY DEF Binnings, Binned
<1> HIDE DEF w, h, bpp, bin, die, f
<1> DEFINE k == bin \div die
           sw == (w * bin) \div die
           sh == (h * bin) \div die
           p  == w \div 4
           n  == p * h * bpp
<1>1. k \in 1 .. 4 /\ sw = w * k /\ sh = h * k
  <2>1. CASE bin = 1 BY <1>0, <2>1
  <2>2. CASE bin = 2 BY <1>0, <2>2
  <2>3. CASE bin = 3 BY <1>0, <2>3
  <2>4. CASE bin = 4 BY <1>0, <2>4
  <2> QED BY <1>0, <2>1, <2>2, <2>3, <2>4
<1>2. p \in Nat /\ w = 4 * p
  BY <1>0
<1>3. n \in Nat
  BY <1>0, <1>2
<1> HIDE DEF k, sw, sh, p
<1>5. sw * (sh * f) * bpp = (4 * f) * (n * k * k)
  BY <1>0, <1>1, <1>2
<1>6. w * h * bpp = 4 * n
  BY <1>0, <1>2
<1> HIDE DEF n
<1>7. ((((4 * f) * (n * k * k)) \div (4 * f)) \div k) \div k = n
  <2>1. \A m \in Nat : (4 * m) \div 4 = m /\ (8 * m) \div 8 = m
    OBVIOUS
  <2>2. n * k * k \in Nat
    BY <1>1, <1>3
  <2>3. ((4 * f) * (n * k * k)) \div (4 * f) = n * k * k
    BY <1>0, <2>1, <2>2
  <2>4. ((n * k * k) \div k) \div k = n
    <3>1. CASE k = 1 BY <1>3, <3>1
    <3>2. CASE k = 2 BY <1>3, <3>2
    <3>3. CASE k = 3 BY <1>3, <3>3
    <3>4. CASE k = 4 BY <1>3, <3>4
    <3> QED BY <1>1, <3>1, <3>2, <3>3, <3>4
  <2> QED
    BY <2>3, <2>4
<1> QED
  BY <1>0, <1>5, <1>6, <1>7 DEF w, h, bpp, k, sw, sh

-----------------------------------------------------------------------------
(* Transfers. *)

(* A state whose fields have their types, whatever its registers hold. *)
Groups == {"block", "die", "sensor", "reg0a", "size", "gain", "offset", "hdrOffset"}
Cams(b) == [bin : b.bins, hwBin : BOOLEAN, programmed : BOOLEAN,
            gain : Gains \union {0}, offset : Offsets \union {0}, roi : HeldWindow]
Modes   == [bpp : 1 .. 2, sensorMode : {Normal, HDR}, highSpeed : BOOLEAN, binSum : BOOLEAN,
            width : Nat, height : Nat, bin : 1 .. 4, soft : 1 .. 4, sensorBin : 1 .. 4]

Typed(s) ==
  /\ {"body", "cam", "mode", "dev", "faults"} \subseteq DOMAIN s
  /\ s.body \in Bodies /\ s.cam \in Cams(s.body) /\ s.mode \in Modes
  /\ Groups \subseteq DOMAIN s.dev
  /\ s.faults \in 0 .. MaxFaults

(* Up to four writes, of different groups. *)
Plain(writes) ==
  /\ Len(writes) \in 1 .. 4 /\ DOMAIN writes = 1 .. Len(writes)
  /\ \A i, j \in DOMAIN writes : i # j => DOMAIN writes[i] \cap DOMAIN writes[j] = {}

(* What a transfer leaves: the groups written, or, of the last of them, what was *)
(* there or a torn one; every other group, and the Camera, as they were.         *)
Wrote(s, writes, o) ==
  /\ Typed(o.s) /\ o.ok \in BOOLEAN
  /\ o.s.body = s.body /\ o.s.cam = s.cam /\ o.s.mode = s.mode
  /\ \A g \in Groups : (\A i \in DOMAIN writes : g \notin DOMAIN writes[i]) => o.s.dev[g] = s.dev[g]
  /\ o.ok => /\ o.s.faults = s.faults
             /\ \A i \in DOMAIN writes : \A g \in Groups \cap DOMAIN writes[i] : o.s.dev[g] = writes[i][g]
  /\ ~ o.ok => /\ o.s.faults = s.faults + 1
               /\ \A g \in Groups \cap DOMAIN writes[Len(writes)] : o.s.dev[g] \in {s.dev[g], Torn}

(* Every outcome of a transfer is one of these. *)
LEMMA Transfers ==
  ASSUME NEW s, Typed(s), NEW writes, Plain(writes)
  PROVE  \A o \in Transfer(s, writes) : Wrote(s, writes, o)
<1> DEFINE L == Len(writes)
           d == s.dev
           after[n \in 0 .. Len(writes)] == IF n = 0 THEN s.dev ELSE Written(after[n - 1], writes[n])
           torn(i)   == Written(after[i - 1], [g \in DOMAIN writes[i] |-> Torn])
           broken(v) == [s |-> [s EXCEPT !.dev = v, !.faults = @ + 1], ok |-> FALSE]
           A(n) == /\ Groups \subseteq DOMAIN after[n]
                   /\ \A g \in Groups : (\A i \in 1 .. n : g \notin DOMAIN writes[i]) => after[n][g] = d[g]
                   /\ \A i \in 1 .. n : \A g \in Groups \cap DOMAIN writes[i] : after[n][g] = writes[i][g]
<1>1. after = [n \in 0 .. Len(writes) |-> IF n = 0 THEN s.dev ELSE Written(after[n - 1], writes[n])]
  <2> DEFINE F(f) == [n \in 0 .. Len(writes) |-> IF n = 0 THEN s.dev ELSE Written(f[n - 1], writes[n])]
  <2>1. \E f : f = F(f)
    <3> DEFINE w1 == Written(s.dev, writes[1])
               w2 == Written(w1, writes[2])
               w3 == Written(w2, writes[3])
               w4 == Written(w3, writes[4])
               f  == [n \in 0 .. Len(writes) |->
                        IF n = 0 THEN s.dev ELSE IF n = 1 THEN w1 ELSE IF n = 2 THEN w2 ELSE IF n = 3 THEN w3 ELSE w4]
    <3>1. ASSUME NEW n \in 0 .. Len(writes) PROVE f[n] = IF n = 0 THEN s.dev ELSE Written(f[n - 1], writes[n])
      <4>1. n \in {0, 1, 2, 3, 4}
        <5> DEFINE len == Len(writes)
        <5>1. len \in 1 .. 4 /\ n \in 0 .. len
          BY DEF Plain
        <5> HIDE DEF len
        <5> QED
          BY <5>1
      <4> HIDE DEF f, w1, w2, w3, w4
      <4>2. CASE n = 0 BY <4>2 DEF f
      <4>3. CASE n = 1 BY <4>3 DEF f, w1
      <4>4. CASE n = 2 BY <4>4 DEF f, w2
      <4>5. CASE n = 3 BY <4>5 DEF f, w3
      <4>6. CASE n = 4 BY <4>6 DEF f, w4
      <4> QED
        BY <4>1, <4>2, <4>3, <4>4, <4>5, <4>6
    <3>2. f = F(f)
      <4> HIDE DEF w1, w2, w3, w4
      <4>1. f = [n \in 0 .. Len(writes) |-> f[n]]
        OBVIOUS
      <4> HIDE DEF f
      <4> QED
        BY <3>1, <4>1
    <3> QED
      BY <3>2
  <2>2. after = CHOOSE f : f = F(f)
    BY DEF after
  <2> HIDE DEF F, after
  <2>3. after = F(after)
    BY <2>1, <2>2, Zenon
  <2> QED
    BY <2>3 DEF F
<1>2. \A v, w : /\ DOMAIN Written(v, w) = DOMAIN v
                /\ \A g \in DOMAIN v : Written(v, w)[g] = IF g \in DOMAIN w THEN w[g] ELSE v[g]
  BY DEF Written
<1> HIDE DEF after
<1>3. L \in 1 .. 4 /\ DOMAIN writes = 1 .. L
  BY DEF Plain
<1>4. after[0] = d
  BY <1>1, <1>3
<1>5. ASSUME NEW n \in 1 .. L PROVE after[n] = Written(after[n - 1], writes[n])
  <2> HIDE DEF L
  <2>1. n \in 0 .. L /\ n # 0
    BY <1>3
  <2> QED
    BY <1>1, <2>1 DEF L
<1> HIDE DEF L
<1>6. A(0)
  BY <1>4 DEF Typed
<1>7. ASSUME NEW n \in 1 .. L, A(n - 1) PROVE A(n)
  <2>1. n - 1 \in 0 .. L /\ \A i \in 1 .. n : i = n \/ i \in 1 .. n - 1
    BY <1>3
  <2>2. after[n] = Written(after[n - 1], writes[n])
    BY <1>5
  <2>3. Groups \subseteq DOMAIN after[n]
    BY <1>2, <1>7, <2>2
  <2>6. \A g \in Groups : after[n][g] = IF g \in DOMAIN writes[n] THEN writes[n][g] ELSE after[n - 1][g]
    BY <1>2, <1>7, <2>2
  <2>4. ASSUME NEW g \in Groups, \A i \in 1 .. n : g \notin DOMAIN writes[i] PROVE after[n][g] = d[g]
    <3>1. g \notin DOMAIN writes[n] /\ \A i \in 1 .. n - 1 : g \notin DOMAIN writes[i]
      BY <1>3, <2>4
    <3> QED
      BY <1>7, <2>6, <3>1
  <2>5. ASSUME NEW i \in 1 .. n, NEW g \in Groups \cap DOMAIN writes[i] PROVE after[n][g] = writes[i][g]
    <3>1. CASE i = n
      BY <2>6, <3>1
    <3>2. CASE i \in 1 .. n - 1
      <4>1. g \notin DOMAIN writes[n]
        <5>1. i \in 1 .. L /\ n \in 1 .. L /\ i # n
          BY <1>3, <3>2
        <5> QED
          BY <1>3, <5>1 DEF Plain
      <4>2. after[n - 1][g] = writes[i][g]
        BY <1>7, <3>2
      <4> QED
        BY <2>6, <4>1, <4>2
    <3> QED
      BY <2>1, <3>1, <3>2
  <2> QED
    BY <2>3, <2>4, <2>5
<1> HIDE DEF A
<1>8. \A n \in 0 .. L : A(n)
  <2>1. 1 <= L => A(1)
    <3>1. A(1 - 1) BY <1>6
    <3> QED BY <1>3, <1>7, <3>1
  <2>2. 2 <= L => A(2)
    <3>1. 2 <= L => A(2 - 1) BY <1>3, <2>1
    <3> QED BY <1>3, <1>7, <3>1
  <2>3. 3 <= L => A(3)
    <3>1. 3 <= L => A(3 - 1) BY <1>3, <2>2
    <3> QED BY <1>3, <1>7, <3>1
  <2>4. 4 <= L => A(4)
    <3>1. 4 <= L => A(4 - 1) BY <1>3, <2>3
    <3> QED BY <1>3, <1>7, <3>1
  <2>5. \A n \in 0 .. L : n \in {0, 1, 2, 3, 4}
    BY <1>3
  <2> QED
    BY <1>3, <1>6, <2>1, <2>2, <2>3, <2>4, <2>5
<1> DEFINE Left(v) == /\ Groups \subseteq DOMAIN v
                      /\ \A g \in Groups : (\A i \in DOMAIN writes : g \notin DOMAIN writes[i]) => v[g] = d[g]
           Lost(v) == Left(v) /\ \A g \in Groups \cap DOMAIN writes[L] : v[g] \in {d[g], Torn}
<1>9. Left(after[L]) /\ \A i \in DOMAIN writes : \A g \in Groups \cap DOMAIN writes[i] : after[L][g] = writes[i][g]
  <2>1. A(L)
    BY <1>3, <1>8
  <2> QED
    BY <1>3, <2>1 DEF A
<1>10. ASSUME NEW i \in DOMAIN writes PROVE Lost(after[i - 1]) /\ Lost(torn(i))
  <2>1. i - 1 \in 0 .. L /\ (\A j \in 1 .. i - 1 : j \in 1 .. L /\ j # L /\ j # i) /\ i \in 1 .. L /\ L \in 1 .. L
    BY <1>3
  <2>2. A(i - 1)
    BY <1>8, <2>1
  <2>3. Left(after[i - 1])
    BY <1>3, <2>1, <2>2 DEF A
  <2>4. \A g \in Groups \cap DOMAIN writes[L] : after[i - 1][g] = d[g]
    <3>1. \A j \in 1 .. i - 1 : DOMAIN writes[j] \cap DOMAIN writes[L] = {}
      BY <1>3, <2>1 DEF Plain
    <3> QED
      BY <2>2, <3>1 DEF A
  <2> DEFINE cut == [g \in DOMAIN writes[i] |-> Torn]
  <2>5. torn(i) = Written(after[i - 1], cut)
    OBVIOUS
  <2>6. DOMAIN cut = DOMAIN writes[i] /\ \A g \in DOMAIN writes[i] : cut[g] = Torn
    OBVIOUS
  <2> HIDE DEF cut, torn
  <2>7. Left(torn(i))
    BY <1>2, <2>3, <2>5, <2>6
  <2>8. \A g \in Groups \cap DOMAIN writes[L] : torn(i)[g] \in {d[g], Torn}
    <3>1. Groups \subseteq DOMAIN after[i - 1]
      BY <2>3
    <3> QED
      BY <1>2, <2>4, <2>5, <2>6, <3>1
  <2> QED
    BY <2>3, <2>4, <2>7, <2>8
<1>11. \A v, k : LET t == [s EXCEPT !.dev = v, !.faults = k]
                 IN  /\ {"body", "cam", "mode", "dev", "faults"} \subseteq DOMAIN t
                     /\ t.body = s.body /\ t.cam = s.cam /\ t.mode = s.mode /\ t.dev = v /\ t.faults = k
  BY DEF Typed
<1>12. \A v : LET t == [s EXCEPT !.dev = v]
              IN  /\ {"body", "cam", "mode", "dev", "faults"} \subseteq DOMAIN t
                  /\ t.body = s.body /\ t.cam = s.cam /\ t.mode = s.mode /\ t.dev = v /\ t.faults = s.faults
  BY DEF Typed
<1> SUFFICES ASSUME NEW o \in Transfer(s, writes) PROVE Wrote(s, writes, o)
  OBVIOUS
<1>13. \/ o = [s |-> [s EXCEPT !.dev = after[L]], ok |-> TRUE]
       \/ s.faults < MaxFaults /\ \E i \in DOMAIN writes : o \in {broken(after[i - 1]), broken(torn(i))}
  BY DEF Transfer, Done, L, after
<1> HIDE DEF torn
<1>14. CASE o = [s |-> [s EXCEPT !.dev = after[L]], ok |-> TRUE]
  <2>1. /\ {"body", "cam", "mode", "dev", "faults"} \subseteq DOMAIN o.s /\ o.ok = TRUE
        /\ o.s.body = s.body /\ o.s.cam = s.cam /\ o.s.mode = s.mode /\ o.s.dev = after[L] /\ o.s.faults = s.faults
    BY <1>12, <1>14
  <2>2. Typed(o.s)
    BY <1>9, <2>1 DEF Typed
  <2>3. \A g \in Groups : (\A i \in DOMAIN writes : g \notin DOMAIN writes[i]) => o.s.dev[g] = s.dev[g]
    BY <1>9, <2>1
  <2>4. \A i \in DOMAIN writes : \A g \in Groups \cap DOMAIN writes[i] : o.s.dev[g] = writes[i][g]
    BY <1>9, <2>1
  <2> QED
    BY <2>1, <2>2, <2>3, <2>4 DEF Wrote
<1>15. ASSUME s.faults < MaxFaults, NEW v, Lost(v), o = broken(v) PROVE Wrote(s, writes, o)
  <2>1. o = [s |-> [s EXCEPT !.dev = v, !.faults = s.faults + 1], ok |-> FALSE]
    BY <1>15 DEF Typed
  <2>2. /\ {"body", "cam", "mode", "dev", "faults"} \subseteq DOMAIN o.s /\ o.ok = FALSE
        /\ o.s.body = s.body /\ o.s.cam = s.cam /\ o.s.mode = s.mode /\ o.s.dev = v /\ o.s.faults = s.faults + 1
    BY <1>11, <2>1
  <2>3. s.faults + 1 \in 0 .. MaxFaults
    BY <1>15, ReadoutAssumption DEF Typed
  <2>4. Typed(o.s)
    BY <1>15, <2>2, <2>3 DEF Typed
  <2> QED
    BY <1>15, <2>2, <2>4 DEF Wrote, L
<1> HIDE DEF broken, Lost
<1>16. \A i \in DOMAIN writes : o \in {broken(after[i - 1]), broken(torn(i))} /\ s.faults < MaxFaults => Wrote(s, writes, o)
  BY <1>10, <1>15
<1> QED
  BY <1>13, <1>14, <1>16

-----------------------------------------------------------------------------
(* Profiles. *)

(* The frame a profile programs for a window. *)
SizeOf(s, r, hw) ==
  LET die  == IF s.mode.sensorBin >= 1 /\ hw % s.mode.sensorBin = 0 THEN s.mode.sensorBin ELSE 1
      wide == s.mode.sensorMode = HDR
  IN  IF s.body.vid = "POA"
      THEN [w |-> (r.w * hw) \div die, h |-> ((r.h * hw) \div die) * IF wide THEN 2 ELSE 1,
            bpp |-> s.mode.bpp, bin |-> hw \div die, wide |-> wide, sum |-> s.mode.binSum]
      ELSE [w |-> r.w, h |-> r.h, bpp |-> s.mode.bpp, bin |-> 1, wide |-> FALSE, sum |-> FALSE]

(* Registers that only a gain, an offset or a window changes. *)
Codes == {"gain", "offset", "hdrOffset"}

(* How a profile's window ends: whole, or at a transfer that failed with the frame *)
(* it had or none. Neither touches the codes or the Camera.                        *)
Programmed(s, r, hw, o) ==
  /\ Typed(o.s) /\ o.ok \in BOOLEAN
  /\ o.s.body = s.body /\ o.s.cam = s.cam /\ o.s.mode = s.mode
  /\ \A g \in Codes : o.s.dev[g] = s.dev[g]
  /\ o.ok => /\ o.s.faults = s.faults /\ o.s.dev.size = SizeOf(s, r, hw)
             /\ s.body.vid = "ZWO" => /\ o.s.dev.sensor.x = Down(r.x * hw, 16)
                                      /\ o.s.dev.sensor.y = Down(r.y * hw, ROIStartAlign(s.body, hw).y)
  /\ ~ o.ok => o.s.faults = s.faults + 1 /\ o.s.dev.size \in {s.dev.size, Torn}

(* A profile refuses no window of a split its body has, at a depth with a block. *)
LEMMA ProfileEnds ==
  ASSUME NEW s, Typed(s), HasBlock(s.mode.sensorMode, s.mode.bpp), NEW r, NEW hw \in 1 .. 4,
         s.body.vid = "ZWO" => hw <= 3
  PROVE  \A o \in ProfileSetROI(s, r, hw) : Programmed(s, r, hw, o)
<1>0. s.body.vid \in {"ZWO", "POA"} /\ "size" \in Groups /\ Codes \subseteq Groups /\ "sensor" \in Groups
  BY ReadoutAssumption DEF Typed, Groups, Codes
<1>1. CASE s.body.vid = "ZWO"
  <2> DEFINE highSpeed == hw = 1 /\ s.mode.highSpeed
             adcBit    == IF hw = 1 /\ ~ highSpeed THEN 1 ELSE 0
             yGrid     == ROIStartAlign(s.body, hw).y
             block  == [block |-> <<hw, highSpeed>>]
             width  == [reg0a |-> adcBit + IF s.mode.bpp >= 2 THEN 16 ELSE 0]
             window == [sensor |-> [x |-> Down(r.x * hw, 16), y |-> Down(r.y * hw, yGrid), w |-> r.w, h |-> r.h]]
             frame  == [size |-> [w |-> r.w, h |-> r.h, bpp |-> s.mode.bpp, bin |-> 1, wide |-> FALSE, sum |-> FALSE]]
             writes == <<block, width, window, frame>>
  <2>1. ProfileSetROI(s, r, hw) = Transfer(s, writes)
    BY <1>1 DEF ProfileSetROI, SetROIZWO
  <2>2. /\ DOMAIN block = {"block"} /\ DOMAIN width = {"reg0a"} /\ DOMAIN window = {"sensor"}
        /\ DOMAIN frame = {"size"} /\ frame["size"] = SizeOf(s, r, hw)
        /\ window["sensor"].x = Down(r.x * hw, 16) /\ window["sensor"].y = Down(r.y * hw, yGrid)
    BY <1>1 DEF SizeOf
  <2> HIDE DEF block, width, window, frame, yGrid
  <2>3. Len(writes) = 4 /\ DOMAIN writes = 1 .. 4 /\ DOMAIN writes = {1, 2, 3, 4}
        /\ writes[1] = block /\ writes[2] = width /\ writes[3] = window /\ writes[4] = frame
    OBVIOUS
  <2> HIDE DEF writes
  <2>4. Plain(writes)
    BY <2>2, <2>3 DEF Plain
  <2>5. \A o \in Transfer(s, writes) : Wrote(s, writes, o)
    BY <2>4, Transfers
  <2>6. ASSUME NEW o, Wrote(s, writes, o) PROVE Programmed(s, r, hw, o)
    <3>1. \A g \in Codes : o.s.dev[g] = s.dev[g]
      BY <1>0, <2>2, <2>3, <2>6 DEF Wrote, Codes
    <3>2. o.ok => /\ o.s.dev["size"] = frame["size"] /\ o.s.dev["sensor"] = window["sensor"]
      BY <1>0, <2>2, <2>3, <2>6 DEF Wrote
    <3>3. ~ o.ok => o.s.dev["size"] \in {s.dev["size"], Torn}
      BY <1>0, <2>2, <2>3, <2>6 DEF Wrote
    <3> QED
      BY <1>1, <2>2, <2>6, <3>1, <3>2, <3>3 DEF Wrote, Programmed, yGrid
  <2> QED
    BY <2>1, <2>5, <2>6
<1>2. CASE s.body.vid = "POA"
  <2> DEFINE die  == IF s.mode.sensorBin >= 1 /\ hw % s.mode.sensorBin = 0 THEN s.mode.sensorBin ELSE 1
             wide == s.mode.sensorMode = HDR
             w    == r.w * hw
             h    == r.h * hw
             bin  == [die |-> die]
             window == [sensor |-> [x |-> Down(r.x, 2), y |-> Down(r.y, 4), w |-> Up(w, 16), h |-> h]]
             crop == [reg0a |-> CropRow(s.mode.sensorMode, die)]
             frame == [size |-> [w |-> w \div die, h |-> (h \div die) * IF wide THEN 2 ELSE 1,
                                 bpp |-> s.mode.bpp, bin |-> hw \div die, wide |-> wide, sum |-> s.mode.binSum]]
             writes == <<bin, window, crop>>
             size   == <<frame>>
  <2>1. ProfileSetROI(s, r, hw) =
          Then(Transfer(s, writes),
               LAMBDA t : IF ~ HasBlock(s.mode.sensorMode, s.mode.bpp) THEN Refuse(t) ELSE Transfer(t, size))
    BY <1>2 DEF ProfileSetROI, SetROIPOA
  <2>2. /\ DOMAIN bin = {"die"} /\ DOMAIN window = {"sensor"} /\ DOMAIN crop = {"reg0a"}
        /\ DOMAIN frame = {"size"} /\ frame["size"] = SizeOf(s, r, hw)
    BY <1>2 DEF SizeOf
  <2> HIDE DEF bin, window, crop, frame
  <2>3. /\ Len(writes) = 3 /\ DOMAIN writes = 1 .. 3 /\ DOMAIN writes = {1, 2, 3}
        /\ writes[1] = bin /\ writes[2] = window /\ writes[3] = crop
        /\ Len(size) = 1 /\ DOMAIN size = 1 .. 1 /\ DOMAIN size = {1} /\ size[1] = frame
    OBVIOUS
  <2> HIDE DEF writes, size
  <2>4. Plain(writes) /\ Plain(size)
    BY <2>2, <2>3 DEF Plain
  <2>5. \A o \in Transfer(s, writes) : Wrote(s, writes, o)
    BY <2>4, Transfers
  <2>6. \A t : Typed(t) => \A o \in Transfer(t, size) : Wrote(t, size, o)
    BY <2>4, Transfers
  <2>7. ASSUME NEW o, Wrote(s, writes, o)
        PROVE  /\ \A g \in Codes \union {"size"} : o.s.dev[g] = s.dev[g]
               /\ ~ o.ok => Programmed(s, r, hw, o)
    <3>1. \A g \in Codes \union {"size"} : o.s.dev[g] = s.dev[g]
      BY <1>0, <2>2, <2>3, <2>7 DEF Wrote, Codes
    <3> QED
      BY <2>7, <3>1 DEF Wrote, Programmed
  <2>8. ASSUME NEW t, t.body = s.body, t.cam = s.cam, t.mode = s.mode, t.faults = s.faults,
               \A g \in Codes \union {"size"} : t.dev[g] = s.dev[g], NEW o, Wrote(t, size, o)
        PROVE  Programmed(s, r, hw, o)
    <3>1. \A g \in Codes : o.s.dev[g] = s.dev[g]
      BY <1>0, <2>2, <2>3, <2>8 DEF Wrote, Codes
    <3>2. o.ok => o.s.dev["size"] = frame["size"]
      BY <1>0, <2>2, <2>3, <2>8 DEF Wrote
    <3>3. ~ o.ok => o.s.dev["size"] \in {s.dev["size"], Torn}
      BY <1>0, <2>2, <2>3, <2>8 DEF Wrote
    <3> QED
      BY <1>2, <2>2, <2>8, <3>1, <3>2, <3>3 DEF Wrote, Programmed
  <2>9. ASSUME NEW o \in Transfer(s, writes), o.ok, NEW p \in Transfer(o.s, size) PROVE Programmed(s, r, hw, p)
    <3>1. Wrote(s, writes, o)
      BY <2>5
    <3>2. Wrote(o.s, size, p)
      BY <2>6, <3>1 DEF Wrote
    <3>3. o.s.body = s.body /\ o.s.cam = s.cam /\ o.s.mode = s.mode /\ o.s.faults = s.faults
      BY <2>9, <3>1 DEF Wrote
    <3> QED
      BY <2>7, <2>8, <3>1, <3>2, <3>3
  <2>10. \A o \in Transfer(s, writes) : ~ o.ok => Programmed(s, r, hw, o)
    BY <2>5, <2>7
  <2> QED
    BY <2>1, <2>9, <2>10 DEF Then
<1> QED
  BY <1>0, <1>1, <1>2

-----------------------------------------------------------------------------
(* What SetROI leaves. *)

(* What SetROI asks of a window, and where it puts it, at the split in use. *)
Accepts(s, request) == LegalWindow(s.body, s.cam.bin, s.cam.hwBin, request)
At(s, request)      == Placed(s.body, s.cam.bin, s.cam.hwBin, request)

(* The geometry the mode records is that of the window held, which is in place. *)
Framed(s) ==
  LET split == BinSplit(s.body, s.cam.bin, s.cam.hwBin)
  IN  /\ s.mode.width = s.cam.roi.w * split.soft /\ s.mode.height = s.cam.roi.h * split.soft
      /\ s.mode.bin = split.hw /\ s.mode.soft = split.soft
      /\ s.mode.sensorBin = SensorSplit(s.body, s.cam.bin, s.cam.hwBin)
      /\ At(s, s.cam.roi) = s.cam.roi

(* The frame the FPGA hands over is the read's; the codes and the start are those of *)
(* the split and the mode.                                                           *)
Sized(s)   == 4 * FrameWords(s.dev.size, s.body.vid) = FrameBytes(s)
Coded(s)   == /\ s.dev.offset = OffsetCode(s.body, s.mode, s.cam.offset)
              /\ s.mode.sensorMode = HDR => s.dev.hdrOffset = s.cam.offset
Started(s) == s.body.vid = "ZWO" => /\ s.dev.sensor.x = s.cam.roi.x * s.cam.bin
                                    /\ s.dev.sensor.y = s.cam.roi.y * s.cam.bin

(* The state t is s with the window r committed. *)
Commit(s, t, r) ==
  /\ t.body = s.body
  /\ t.cam.bin = s.cam.bin /\ t.cam.hwBin = s.cam.hwBin
  /\ t.cam.gain = s.cam.gain /\ t.cam.offset = s.cam.offset
  /\ t.cam.roi = r /\ t.cam.programmed = TRUE
  /\ t.mode.bpp = s.mode.bpp /\ t.mode.sensorMode = s.mode.sensorMode
  /\ t.mode.highSpeed = s.mode.highSpeed /\ t.mode.binSum = s.mode.binSum
  /\ Framed(t)

(* How SetROI ends: refused before it wrote anything, failed in the profile, failed *)
(* at the offset once the window was stored, or done.                               *)
Refused(s, request, o) == ~ Accepts(s, request) /\ ~ o.ok /\ o.s = s
Broken(s, o) ==
  /\ ~ o.ok /\ o.s.faults = s.faults + 1
  /\ o.s.cam = s.cam /\ o.s.mode = s.mode /\ o.s.dev.size \in {s.dev.size, Torn}
Late(s, request, o) ==
  ~ o.ok /\ o.s.faults = s.faults + 1 /\ Commit(s, o.s, At(s, request)) /\ Sized(o.s)
Placing(s, request, o) ==
  /\ o.ok /\ o.s.faults = s.faults /\ Commit(s, o.s, At(s, request))
  /\ Sized(o.s) /\ Coded(o.s) /\ Started(o.s)

ROIOutcome(s, request, o) ==
  /\ Typed(o.s) /\ o.s.body = s.body /\ o.s.dev.gain = s.dev.gain
  /\ \/ Refused(s, request, o)
     \/ Accepts(s, request) /\ (Broken(s, o) \/ Late(s, request, o) \/ Placing(s, request, o))

(* The offset's transfer: its codes, and nothing else. *)
OffsetDone(s, offset, o) ==
  /\ Typed(o.s) /\ o.ok \in BOOLEAN
  /\ o.s.body = s.body /\ o.s.cam = s.cam /\ o.s.mode = s.mode
  /\ \A g \in {"size", "sensor", "gain"} : o.s.dev[g] = s.dev[g]
  /\ o.ok => /\ o.s.faults = s.faults
             /\ o.s.dev.offset = OffsetCode(s.body, s.mode, offset)
             /\ s.mode.sensorMode = HDR => o.s.dev.hdrOffset = offset
  /\ ~ o.ok => o.s.faults = s.faults + 1

(* Two writes one after the other. *)
LEMMA Pairs ==
  ASSUME NEW a, NEW b
  PROVE  <<a>> \o <<b>> = <<a, b>>
<1> DEFINE S == {a, b}
           x == <<a>>
           y == <<b>>
           z == <<a, b>>
<1>1. /\ x \in Seq(S) /\ Len(x) = 1 /\ x[1] = a
      /\ y \in Seq(S) /\ Len(y) = 1 /\ y[1] = b
      /\ z \in Seq(S) /\ Len(z) = 2 /\ z[1] = a /\ z[2] = b
  OBVIOUS
<1> HIDE DEF S, x, y, z
<1>2. x \o y \in Seq(S) /\ Len(x \o y) = 2 /\ (x \o y)[1] = a /\ (x \o y)[2] = b
  <2>1. x \o y \in Seq(S) /\ Len(x \o y) = Len(x) + Len(y)
    BY <1>1, ConcatProperties
  <2>2. \A i \in 1 .. Len(x) + Len(y) : (x \o y)[i] = IF i <= Len(x) THEN x[i] ELSE y[i - Len(x)]
    BY <1>1, ConcatProperties
  <2>3. (x \o y)[1] = a
    <3> DEFINE n == Len(x) + Len(y)
    <3>1. n = 2 /\ 1 \in 1 .. n /\ 1 <= Len(x)
      BY <1>1
    <3> QED
      BY <1>1, <2>2, <3>1
  <2>4. (x \o y)[2] = b
    <3> DEFINE m == Len(x)
               n == Len(x) + Len(y)
    <3>1. n = 2 /\ 2 \in 1 .. n /\ ~ 2 <= m /\ 2 - m = 1
      BY <1>1
    <3> HIDE DEF m, n
    <3>2. (x \o y)[2] = IF 2 <= m THEN x[2] ELSE y[2 - m]
      BY <2>2, <3>1 DEF m, n
    <3> QED
      BY <1>1, <3>1, <3>2
  <2> QED
    BY <1>1, <2>1, <2>3, <2>4
<1>3. x \o y = z
  BY <1>1, <1>2, SeqEqual
<1> QED BY <1>3 DEF x, y, z

(* One group in normal mode, two in HDR. *)
LEMMA OffsetEnds ==
  ASSUME NEW s, Typed(s), NEW offset
  PROVE  \A o \in ProfileSetOffset(s, offset) : OffsetDone(s, offset, o)
<1> DEFINE code == [offset |-> OffsetCode(s.body, s.mode, offset)]
           copy == [hdrOffset |-> offset]
           one  == <<code>>
           two  == <<code, copy>>
<1>1. ProfileSetOffset(s, offset) = Transfer(s, IF s.mode.sensorMode = HDR THEN two ELSE one)
  <2>2. ProfileSetOffset(s, offset) = Transfer(s, <<code>> \o IF s.mode.sensorMode = HDR THEN <<copy>> ELSE << >>)
    BY DEF ProfileSetOffset
  <2> HIDE DEF code, copy
  <2>1. <<code>> \o <<copy>> = two /\ <<code>> \o << >> = one
    BY Pairs
  <2> HIDE DEF one, two
  <2>3. CASE s.mode.sensorMode = HDR
    BY <2>1, <2>2, <2>3
  <2>4. CASE s.mode.sensorMode # HDR
    BY <2>1, <2>2, <2>4
  <2> QED
    BY <2>3, <2>4
<1>2. /\ DOMAIN code = {"offset"} /\ code["offset"] = OffsetCode(s.body, s.mode, offset)
      /\ DOMAIN copy = {"hdrOffset"} /\ copy["hdrOffset"] = offset
  OBVIOUS
<1> HIDE DEF code, copy
<1>3. /\ Len(one) = 1 /\ DOMAIN one = 1 .. 1 /\ DOMAIN one = {1} /\ one[1] = code
      /\ Len(two) = 2 /\ DOMAIN two = 1 .. 2 /\ DOMAIN two = {1, 2} /\ two[1] = code /\ two[2] = copy
  OBVIOUS
<1> HIDE DEF one, two
<1>4. Plain(one) /\ Plain(two)
  BY <1>2, <1>3 DEF Plain
<1>5. {"size", "sensor", "gain", "offset", "hdrOffset"} \subseteq Groups
  BY DEF Groups
<1>6. ASSUME NEW o, Wrote(s, one, o), s.mode.sensorMode # HDR PROVE OffsetDone(s, offset, o)
  <2>1. \A g \in {"size", "sensor", "gain"} : o.s.dev[g] = s.dev[g]
    BY <1>2, <1>3, <1>5, <1>6 DEF Wrote
  <2>2. o.ok => o.s.dev["offset"] = code["offset"]
    BY <1>2, <1>3, <1>5, <1>6 DEF Wrote
  <2> QED
    BY <1>2, <1>6, <2>1, <2>2 DEF Wrote, OffsetDone
<1>7. ASSUME NEW o, Wrote(s, two, o) PROVE OffsetDone(s, offset, o)
  <2>1. \A g \in {"size", "sensor", "gain"} : o.s.dev[g] = s.dev[g]
    BY <1>2, <1>3, <1>5, <1>7 DEF Wrote
  <2>2. o.ok => o.s.dev["offset"] = code["offset"] /\ o.s.dev["hdrOffset"] = copy["hdrOffset"]
    BY <1>2, <1>3, <1>5, <1>7 DEF Wrote
  <2> QED
    BY <1>2, <1>7, <2>1, <2>2 DEF Wrote, OffsetDone
<1>8. \A o \in Transfer(s, one) : Wrote(s, one, o)
  BY <1>4, Transfers
<1>9. \A o \in Transfer(s, two) : Wrote(s, two, o)
  BY <1>4, Transfers
<1> QED
  BY <1>1, <1>6, <1>7, <1>8, <1>9

(* What SetROI stores, field by field. *)
Stored(t, r, split, die, u) ==
  /\ Typed(u) /\ u.body = t.body /\ u.dev = t.dev /\ u.faults = t.faults
  /\ u.cam.bin = t.cam.bin /\ u.cam.hwBin = t.cam.hwBin
  /\ u.cam.gain = t.cam.gain /\ u.cam.offset = t.cam.offset
  /\ u.cam.roi = r /\ u.cam.programmed = TRUE
  /\ u.mode.bpp = t.mode.bpp /\ u.mode.sensorMode = t.mode.sensorMode
  /\ u.mode.highSpeed = t.mode.highSpeed /\ u.mode.binSum = t.mode.binSum
  /\ u.mode.width = r.w * split.soft /\ u.mode.height = r.h * split.soft
  /\ u.mode.bin = split.hw /\ u.mode.soft = split.soft /\ u.mode.sensorBin = die

(* It stores nothing else. *)
LEMMA WindowSetFields ==
  ASSUME NEW t, Typed(t), NEW r \in HeldWindow, NEW split \in [hw : 1 .. 4, soft : 1 .. 4], NEW die \in 1 .. 4
  PROVE  Stored(t, r, split, die, WindowSet(t, r, split, die))
<1> DEFINE Rec(x) == {"body", "cam", "mode", "dev", "faults"} \subseteq DOMAIN x
           Else(x, y) == Rec(y) /\ y.body = x.body /\ y.dev = x.dev /\ y.faults = x.faults
           t1 == [t  EXCEPT !.mode.width = r.w * split.soft]
           t2 == [t1 EXCEPT !.mode.height = r.h * split.soft]
           t3 == [t2 EXCEPT !.mode.bin = split.hw]
           t4 == [t3 EXCEPT !.mode.soft = split.soft]
           t5 == [t4 EXCEPT !.mode.sensorBin = die]
           t6 == [t5 EXCEPT !.cam.roi = r]
           t7 == [t6 EXCEPT !.cam.programmed = TRUE]
           m1 == [t.mode EXCEPT !.width = r.w * split.soft]
           m2 == [m1 EXCEPT !.height = r.h * split.soft]
           m3 == [m2 EXCEPT !.bin = split.hw]
           m4 == [m3 EXCEPT !.soft = split.soft]
           m5 == [m4 EXCEPT !.sensorBin = die]
           c1 == [t.cam EXCEPT !.roi = r]
           c2 == [c1 EXCEPT !.programmed = TRUE]
<1>0. WindowSet(t, r, split, die) = t7
  BY DEF WindowSet
<1>1. \A x, v : Rec(x) =>
        /\ LET y == [x EXCEPT !.mode.width = v] IN Else(x, y) /\ y.cam = x.cam /\ y.mode = [x.mode EXCEPT !.width = v]
        /\ LET y == [x EXCEPT !.mode.height = v] IN Else(x, y) /\ y.cam = x.cam /\ y.mode = [x.mode EXCEPT !.height = v]
        /\ LET y == [x EXCEPT !.mode.bin = v] IN Else(x, y) /\ y.cam = x.cam /\ y.mode = [x.mode EXCEPT !.bin = v]
        /\ LET y == [x EXCEPT !.mode.soft = v] IN Else(x, y) /\ y.cam = x.cam /\ y.mode = [x.mode EXCEPT !.soft = v]
        /\ LET y == [x EXCEPT !.mode.sensorBin = v] IN Else(x, y) /\ y.cam = x.cam /\ y.mode = [x.mode EXCEPT !.sensorBin = v]
        /\ LET y == [x EXCEPT !.cam.roi = v] IN Else(x, y) /\ y.mode = x.mode /\ y.cam = [x.cam EXCEPT !.roi = v]
        /\ LET y == [x EXCEPT !.cam.programmed = v] IN Else(x, y) /\ y.mode = x.mode /\ y.cam = [x.cam EXCEPT !.programmed = v]
  OBVIOUS
<1>2. Rec(t)
  BY DEF Typed
<1> HIDE DEF t7
<1>3. Else(t, t1) /\ t1.cam = t.cam /\ t1.mode = m1
  BY <1>1, <1>2
<1>4. Else(t, t2) /\ t2.cam = t.cam /\ t2.mode = m2
  <2> HIDE DEF t1, m1
  <2> QED BY <1>1, <1>3
<1>5. Else(t, t3) /\ t3.cam = t.cam /\ t3.mode = m3
  <2> HIDE DEF t2, m2
  <2> QED BY <1>1, <1>4
<1>6. Else(t, t4) /\ t4.cam = t.cam /\ t4.mode = m4
  <2> HIDE DEF t3, m3
  <2> QED BY <1>1, <1>5
<1>7. Else(t, t5) /\ t5.cam = t.cam /\ t5.mode = m5
  <2> HIDE DEF t4, m4
  <2> QED BY <1>1, <1>6
<1>8. Else(t, t6) /\ t6.cam = c1 /\ t6.mode = m5
  <2> HIDE DEF t5, m5
  <2> QED BY <1>1, <1>7
<1>9. Else(t, t7) /\ t7.cam = c2 /\ t7.mode = m5
  <2> HIDE DEF t6, m5, c1
  <2> QED BY <1>1, <1>8 DEF t7
<1>10. r.w * split.soft \in Nat /\ r.h * split.soft \in Nat /\ split.hw \in 1 .. 4 /\ split.soft \in 1 .. 4
  BY DEF HeldWindow
<1>11. /\ m5 \in Modes
       /\ m5.bpp = t.mode.bpp /\ m5.sensorMode = t.mode.sensorMode
       /\ m5.highSpeed = t.mode.highSpeed /\ m5.binSum = t.mode.binSum
       /\ m5.width = r.w * split.soft /\ m5.height = r.h * split.soft
       /\ m5.bin = split.hw /\ m5.soft = split.soft /\ m5.sensorBin = die
  <2> HIDE DEF HeldWindow
  <2>1. t.mode \in Modes
    BY DEF Typed
  <2> QED
    BY <1>10, <2>1 DEF Modes
<1>12. /\ c2 \in Cams(t.body)
       /\ c2.bin = t.cam.bin /\ c2.hwBin = t.cam.hwBin /\ c2.gain = t.cam.gain /\ c2.offset = t.cam.offset
       /\ c2.roi = r /\ c2.programmed = TRUE
  <2>1. t.cam \in Cams(t.body)
    BY DEF Typed
  <2> QED
    BY <2>1 DEF Cams
<1> HIDE DEF m5, c2
<1>13. Typed(t7)
  BY <1>9, <1>11, <1>12 DEF Typed
<1> QED
  BY <1>0, <1>9, <1>11, <1>12, <1>13 DEF Stored

(* The frame programmed for a window SetROI accepts is the one a capture reads. *)
LEMMA FramesFit ==
  ASSUME ShippedBodies, NEW s, Typed(s), NEW r \in HeldWindow, Accepts(s, r)
  PROVE  LET split == BinSplit(s.body, s.cam.bin, s.cam.hwBin)
             sent  == [x |-> r.x * split.soft, y |-> r.y * split.soft,
                       w |-> r.w * split.soft, h |-> r.h * split.soft]
         IN  4 * FrameWords(SizeOf(s, sent, split.hw), s.body.vid)
               = r.w * r.h * s.mode.bpp * split.soft * split.soft
<1> DEFINE split == BinSplit(s.body, s.cam.bin, s.cam.hwBin)
           sent  == [x |-> r.x * split.soft, y |-> r.y * split.soft,
                     w |-> r.w * split.soft, h |-> r.h * split.soft]
<1>1. /\ s.body \in Bodies /\ s.cam.bin \in s.body.bins /\ s.cam.hwBin \in BOOLEAN
      /\ s.mode.bpp \in 1 .. 2 /\ s.mode.sensorBin \in 1 .. 4
  BY DEF Typed, Cams, Modes
<1>2. r.w \in Nat /\ r.h \in Nat
  BY DEF HeldWindow
<1>3. LegalWindow(s.body, s.cam.bin, s.cam.hwBin, r)
  BY DEF Accepts
<1>4. sent.w = r.w * split.soft /\ sent.h = r.h * split.soft
  OBVIOUS
<1>5. CASE s.body.vid = "ZWO"
  <2>1. <<s.cam.bin, split.hw, split.soft>> \in SplitZWO /\ s.body.stepW = 8
    BY <1>1, <1>5, Splits DEF ShippedBodies
  <2>2. split.hw \in 1 .. 4 /\ split.soft \in 1 .. 4 /\ (split.hw = 1 => s.cam.bin = split.soft)
    <3> DEFINE h == split.hw
               f == split.soft
               b == s.cam.bin
    <3>1. <<b, h, f>> \in SplitZWO
      BY <2>1
    <3> HIDE DEF h, f, b
    <3>2. h \in 1 .. 4 /\ f \in 1 .. 4 /\ (h = 1 => b = f)
      BY <3>1 DEF SplitZWO
    <3> QED
      BY <3>2 DEF h, f, b
  <2>3. (r.w * IF split.hw > 1 THEN 1 ELSE s.cam.bin) % 8 = 0
    BY <1>3, <2>1, SMTT(30) DEF LegalWindow
  <2>4. FrameWords(SizeOf(s, sent, split.hw), s.body.vid)
          = ((r.w * split.soft) * (r.h * split.soft) * s.mode.bpp + 3) \div 4
    BY <1>4, <1>5 DEF FrameWords, SizeOf
  <2> HIDE DEF split
  <2>5. (r.w * split.soft) % 4 = 0
    <3> DEFINE v == r.w
    <3>1. v \in Nat
      BY <1>2
    <3> HIDE DEF v
    <3>2. CASE split.hw = 1
      BY <2>2, <2>3, <3>1, <3>2 DEF v
    <3>3. CASE split.hw > 1
      <4>1. v % 8 = 0
        BY <2>3, <3>1, <3>3 DEF v
      <4>2. \A n \in 1 .. 4 : (v * n) % 4 = 0
        <5>1. (v * 1) % 4 = 0 /\ (v * 2) % 4 = 0 /\ (v * 3) % 4 = 0 /\ (v * 4) % 4 = 0
          BY <3>1, <4>1
        <5> QED BY <5>1
      <4> QED
        BY <2>2, <4>2 DEF v
    <3> QED
      BY <2>2, <3>2, <3>3
  <2>6. 4 * (((r.w * split.soft) * (r.h * split.soft) * s.mode.bpp + 3) \div 4) = r.w * r.h * s.mode.bpp * split.soft * split.soft
    <3> DEFINE n == split.soft
               b == s.mode.bpp
    <3>1. n \in 1 .. 4 /\ b \in 1 .. 2 /\ r.w \in Nat /\ r.h \in Nat /\ (r.w * n) % 4 = 0
      BY <1>1, <1>2, <2>2, <2>5
    <3> HIDE DEF n, b
    <3>2. 4 * (((r.w * n) * (r.h * n) * b + 3) \div 4) = r.w * r.h * b * n * n
      BY <3>1, WordsZWO
    <3> QED
      BY <3>2 DEF n, b
  <2>7. 4 * FrameWords(SizeOf(s, sent, split.hw), s.body.vid) = r.w * r.h * s.mode.bpp * split.soft * split.soft
    BY <2>4, <2>6
  <2> QED
    BY <2>7 DEF split
<1>6. CASE s.body.vid = "POA"
  <2>0. s.body.stepW = 4
    BY <1>1, <1>6 DEF ShippedBodies
  <2>1. split.hw = s.cam.bin /\ split.soft = 1 /\ s.body.stepW = 4 /\ s.cam.bin \in 1 .. 4
    BY <1>1, <1>6, <2>0, Splits
  <2>9. (r.w * IF split.hw > 1 THEN 1 ELSE s.cam.bin) % 4 = 0
    BY <1>3, <2>1 DEF LegalWindow
  <2> HIDE DEF split, sent
  <2>2. r.w % 4 = 0
    <3>1. r.w * 1 = r.w /\ IF split.hw > 1 THEN TRUE ELSE s.cam.bin = 1
      BY <1>2, <2>1
    <3> QED
      BY <2>9, <3>1
  <2>3. sent.w = r.w /\ sent.h = r.h
    BY <1>2, <1>4, <2>1
  <2> DEFINE hw   == split.hw
             die  == IF s.mode.sensorBin >= 1 /\ hw % s.mode.sensorBin = 0 THEN s.mode.sensorBin ELSE 1
             wide == s.mode.sensorMode = HDR
             f    == SizeOf(s, sent, hw)
  <2>4. die \in 1 .. 4 /\ hw \in 1 .. 4 /\ hw % die = 0 /\ wide \in BOOLEAN
    BY <1>1, <2>1
  <2>5. /\ f.w = (r.w * hw) \div die /\ f.h = ((r.h * hw) \div die) * IF wide THEN 2 ELSE 1
        /\ f.bpp = s.mode.bpp /\ f.bin = hw \div die /\ f.wide = wide
    BY <1>6, <2>3 DEF SizeOf
  <2> HIDE DEF f, die, hw, wide
  <2>6. FrameWords(f, "POA") = ((((f.w * f.h * f.bpp) \div (IF f.wide THEN 8 ELSE 4)) \div f.bin) \div f.bin)
    BY DEF FrameWords
  <2>7. 4 * FrameWords(f, "POA") = r.w * r.h * s.mode.bpp
    <3> DEFINE f2 == IF wide THEN 2 ELSE 1
    <3>0. f2 \in {1, 2} /\ (IF wide THEN 8 ELSE 4) = 4 * f2
      BY <2>4
    <3> HIDE DEF f2
    <3> DEFINE p == [w |-> r.w, h |-> r.h, bpp |-> s.mode.bpp, bin |-> hw, die |-> die, f |-> f2]
    <3>1. /\ p \in Binnings /\ p.w = r.w /\ p.h = r.h /\ p.bpp = s.mode.bpp
          /\ p.bin = hw /\ p.die = die /\ p.f = f2
      BY <1>1, <1>2, <2>4, <3>0 DEF Binnings
    <3> HIDE DEF p
    <3>2. FrameWords(f, "POA") = Binned(p)
      BY <2>5, <2>6, <3>0, <3>1 DEF f2, Binned
    <3>3. p.bin % p.die = 0 /\ p.w % 4 = 0
      BY <2>2, <2>4, <3>1
    <3>4. 4 * Binned(p) = p.w * p.h * p.bpp
      BY <3>1, <3>3, WordsPOA
    <3> QED
      BY <3>1, <3>2, <3>4
  <2>8. r.w * r.h * s.mode.bpp * 1 * 1 = r.w * r.h * s.mode.bpp
    BY <1>1, <1>2
  <2> QED
    <3>1. 4 * FrameWords(SizeOf(s, sent, split.hw), s.body.vid) = r.w * r.h * s.mode.bpp * split.soft * split.soft
      BY <1>6, <2>1, <2>7, <2>8 DEF f, hw
    <3> QED
      BY <3>1 DEF split, sent
<1> QED
  BY <1>1, <1>5, <1>6, ReadoutAssumption

(* SetROI ends in one of four ways, whichever transfer fails. *)
LEMMA ROIEnds ==
  ASSUME ShippedBodies, NEW s, Typed(s), NEW request \in AnyWindow, HasBlock(s.mode.sensorMode, s.mode.bpp)
  PROVE  \A o \in SetROI(s, request) : ROIOutcome(s, request, o)
<1> DEFINE bin   == s.cam.bin
           split == BinSplit(s.body, bin, s.cam.hwBin)
           die   == SensorSplit(s.body, bin, s.cam.hwBin)
           r     == At(s, request)
           sent  == [x |-> r.x * split.soft, y |-> r.y * split.soft,
                     w |-> r.w * split.soft, h |-> r.h * split.soft]
           grid  == ROIStartAlign(s.body, split.hw)
           finish(t) == ReapplyOffset(WindowSet(t, r, split, die))
<1>1. SetROI(s, request) = IF ~ Accepts(s, request) THEN Refuse(s)
                           ELSE Then(ProfileSetROI(s, sent, split.hw), finish)
  BY DEF SetROI, Accepts, At, Placed, Then
<1>2. /\ s.body \in Bodies /\ s.body.vid \in {"ZWO", "POA"} /\ bin \in s.body.bins
      /\ s.cam.hwBin \in BOOLEAN /\ bin \in 1 .. 4
  <2>1. s.body \in Bodies /\ s.body.vid \in {"ZWO", "POA"} /\ bin \in s.body.bins /\ s.cam.hwBin \in BOOLEAN
    BY ReadoutAssumption DEF Typed, Cams
  <2> QED
    BY <2>1, Splits
<1>3. /\ split \in [hw : 1 .. 4, soft : 1 .. 4] /\ die \in 1 .. 4
      /\ s.body.vid = "ZWO" => split.hw <= 3 /\ split.hw * split.soft = bin
  <2>1. split = [hw |-> split.hw, soft |-> split.soft]
    BY DEF BinSplit
  <2>2. die \in 1 .. 4 /\ (s.body.vid = "POA" => split.hw = bin /\ split.soft = 1)
        /\ (s.body.vid = "ZWO" => <<bin, split.hw, split.soft>> \in SplitZWO)
    BY <1>2, Splits
  <2> HIDE DEF split, die
  <2>3. split.hw \in 1 .. 4 /\ split.soft \in 1 .. 4
        /\ (s.body.vid = "ZWO" => split.hw <= 3 /\ split.hw * split.soft = bin)
    BY <1>2, <2>2 DEF SplitZWO
  <2> QED
    BY <2>1, <2>2, <2>3
<1>4. ASSUME ~ Accepts(s, request), NEW o \in SetROI(s, request) PROVE ROIOutcome(s, request, o)
  <2>1. o = [s |-> s, ok |-> FALSE]
    BY <1>1, <1>4 DEF Refuse
  <2> QED
    BY <1>4, <2>1 DEF ROIOutcome, Refused
<1>5. ASSUME Accepts(s, request), NEW o \in SetROI(s, request) PROVE ROIOutcome(s, request, o)
  <2>1. /\ r \in HeldWindow /\ Accepts(s, r)
        /\ (r.x * bin) % grid.x = 0 /\ (r.y * bin) % grid.y = 0
        /\ Placed(s.body, bin, s.cam.hwBin, r) = r
    BY <1>2, <1>5, PlacedLegal DEF Accepts, At
  <2>2. 4 * FrameWords(SizeOf(s, sent, split.hw), s.body.vid)
          = r.w * r.h * s.mode.bpp * split.soft * split.soft
    BY <2>1, FramesFit
  <2>3. s.body.vid = "ZWO" => /\ Down(sent.x * split.hw, 16) = r.x * bin
                              /\ Down(sent.y * split.hw, grid.y) = r.y * bin
    <3> SUFFICES ASSUME s.body.vid = "ZWO"
                 PROVE  /\ Down(sent.x * split.hw, 16) = r.x * bin
                        /\ Down(sent.y * split.hw, grid.y) = r.y * bin
      OBVIOUS
    <3>1. grid.x = 16 /\ grid.y \in {2, 4, 6}
      <4> HIDE DEF split
      <4> QED BY DEF ROIStartAlign
    <3>2. r.x \in Nat /\ r.y \in Nat
      BY <2>1 DEF HeldWindow
    <3>3. sent.x = r.x * split.soft /\ sent.y = r.y * split.soft
      OBVIOUS
    <3> HIDE DEF split, grid, r, sent, bin
    <3>4. split.hw \in 1 .. 4 /\ split.soft \in 1 .. 4 /\ split.hw * split.soft = bin
      BY <1>3
    <3>5. ASSUME NEW v \in Nat, NEW n \in {2, 4, 6, 16}, (v * bin) % n = 0
          PROVE  Down((v * split.soft) * split.hw, n) = v * bin
      <4> DEFINE p == [v |-> v, bin |-> bin, hw |-> split.hw, soft |-> split.soft, grid |-> n]
      <4>1. p \in Starts /\ p.v = v /\ p.bin = bin /\ p.hw = split.hw /\ p.soft = split.soft /\ p.grid = n
        BY <1>2, <3>4 DEF Starts
      <4> HIDE DEF p
      <4>2. p.hw * p.soft = p.bin /\ (p.v * p.bin) % p.grid = 0
        BY <3>4, <3>5, <4>1
      <4>3. Down((p.v * p.soft) * p.hw, p.grid) = p.v * p.bin
        BY <4>1, <4>2, StartExact
      <4> QED
        BY <4>1, <4>3
    <3>6. grid.x \in {2, 4, 6, 16} /\ grid.y \in {2, 4, 6, 16}
      BY <3>1
    <3>7. Down((r.x * split.soft) * split.hw, grid.x) = r.x * bin
      BY <2>1, <3>2, <3>5, <3>6
    <3>8. Down((r.y * split.soft) * split.hw, grid.y) = r.y * bin
      BY <2>1, <3>2, <3>5, <3>6
    <3> QED
      BY <3>1, <3>3, <3>7, <3>8
  <2>4. \A t \in ProfileSetROI(s, sent, split.hw) : Programmed(s, sent, split.hw, t)
    <3> HIDE DEF split, sent
    <3> QED BY <1>3, ProfileEnds
  <2>5. ASSUME NEW t \in ProfileSetROI(s, sent, split.hw), ~ t.ok PROVE ROIOutcome(s, request, t)
    <3>1. Programmed(s, sent, split.hw, t)
      BY <2>4
    <3> QED
      BY <1>5, <2>5, <3>1 DEF Programmed, ROIOutcome, Broken, Codes
  <2>6. ASSUME NEW t \in ProfileSetROI(s, sent, split.hw), t.ok, NEW p \in finish(t.s)
        PROVE  ROIOutcome(s, request, p)
    <3> DEFINE u == WindowSet(t.s, r, split, die)
    <3>1. /\ Typed(t.s) /\ t.s.body = s.body /\ t.s.cam = s.cam /\ t.s.mode = s.mode
          /\ t.s.dev.gain = s.dev.gain /\ t.s.faults = s.faults
          /\ t.s.dev.size = SizeOf(s, sent, split.hw)
          /\ s.body.vid = "ZWO" => /\ t.s.dev.sensor.x = Down(sent.x * split.hw, 16)
                                   /\ t.s.dev.sensor.y = Down(sent.y * split.hw, grid.y)
      BY <2>4, <2>6 DEF Programmed, Codes
    <3> HIDE DEF split, die, sent, grid, r, bin
    <3>2. /\ Typed(u) /\ u.body = t.s.body /\ u.dev = t.s.dev /\ u.faults = t.s.faults
          /\ u.cam.bin = t.s.cam.bin /\ u.cam.hwBin = t.s.cam.hwBin
          /\ u.cam.gain = t.s.cam.gain /\ u.cam.offset = t.s.cam.offset
          /\ u.cam.roi = r /\ u.cam.programmed = TRUE
          /\ u.mode.bpp = t.s.mode.bpp /\ u.mode.sensorMode = t.s.mode.sensorMode
          /\ u.mode.highSpeed = t.s.mode.highSpeed /\ u.mode.binSum = t.s.mode.binSum
          /\ u.mode.width = r.w * split.soft /\ u.mode.height = r.h * split.soft
          /\ u.mode.bin = split.hw /\ u.mode.soft = split.soft /\ u.mode.sensorBin = die
      <4>1. Stored(t.s, r, split, die, u)
        BY <1>3, <2>1, <3>1, WindowSetFields
      <4> HIDE DEF u
      <4> QED BY <4>1 DEF Stored
    <3> HIDE DEF u
    <3>3. OffsetDone(u, u.cam.offset, p)
      BY <3>2, <2>6, OffsetEnds DEF u, ReapplyOffset
    <3>4. /\ Typed(p.s) /\ p.ok \in BOOLEAN /\ p.s.body = s.body /\ p.s.cam = u.cam /\ p.s.mode = u.mode
          /\ p.s.dev.size = t.s.dev.size /\ p.s.dev.sensor = t.s.dev.sensor /\ p.s.dev.gain = s.dev.gain
      BY <3>1, <3>2, <3>3 DEF OffsetDone
    <3>5. /\ BinSplit(p.s.body, p.s.cam.bin, p.s.cam.hwBin) = split
          /\ SensorSplit(p.s.body, p.s.cam.bin, p.s.cam.hwBin) = die
          /\ At(p.s, p.s.cam.roi) = r
      <4>1. /\ p.s.body = s.body /\ p.s.cam.bin = s.cam.bin /\ p.s.cam.hwBin = s.cam.hwBin
            /\ p.s.cam.roi = r
        BY <3>1, <3>2, <3>4
      <4>2. BinSplit(p.s.body, p.s.cam.bin, p.s.cam.hwBin) = split
        BY <4>1 DEF split, bin
      <4>3. SensorSplit(p.s.body, p.s.cam.bin, p.s.cam.hwBin) = die
        BY <4>1 DEF die, bin
      <4>4. At(p.s, p.s.cam.roi) = Placed(s.body, bin, s.cam.hwBin, r)
        BY <4>1 DEF bin, At
      <4> QED
        BY <2>1, <4>2, <4>3, <4>4
    <3>6. Framed(p.s)
      BY <3>2, <3>4, <3>5 DEF Framed
    <3>7. Commit(s, p.s, r)
      BY <3>1, <3>2, <3>4, <3>6 DEF Commit
    <3>8. Sized(p.s)
      BY <2>2, <3>1, <3>2, <3>4 DEF Sized, FrameBytes
    <3>9. p.ok => p.s.faults = s.faults /\ Coded(p.s) /\ Started(p.s)
      <4>1. Started(p.s)
        BY <2>3, <3>1, <3>2, <3>4 DEF Started, bin
      <4>2. p.ok => p.s.faults = s.faults /\ Coded(p.s)
        BY <3>1, <3>2, <3>3, <3>4 DEF OffsetDone, Coded
      <4> QED
        BY <4>1, <4>2
    <3>10. ~ p.ok => p.s.faults = s.faults + 1
      BY <3>1, <3>2, <3>3 DEF OffsetDone
    <3>11. p.ok => Placing(s, request, p)
      BY <3>7, <3>8, <3>9 DEF Placing, r
    <3>12. ~ p.ok => Late(s, request, p)
      BY <3>7, <3>8, <3>10 DEF Late, r
    <3>13. Accepts(s, request)
      BY <1>5
    <3> QED
      BY <3>4, <3>11, <3>12, <3>13, Zenon DEF ROIOutcome
  <2>7. o \in Then(ProfileSetROI(s, sent, split.hw), finish)
    BY <1>1, <1>5
  <2> HIDE DEF finish, split, sent
  <2> QED
    BY <2>5, <2>6, <2>7 DEF Then
<1> QED
  BY <1>4, <1>5

-----------------------------------------------------------------------------
(* The kind of state every call keeps. *)

(* What every call keeps of a state, whatever fails in it: a depth with a block, *)
(* a window SetROI accepts; while at most one transfer has failed, the mode and  *)
(* the frame of that window; while none has, every code.                         *)
Stands(s) ==
  /\ Typed(s)
  /\ HasModes(s) \/ s.mode.sensorMode = Normal
  /\ HasBlock(s.mode.sensorMode, s.mode.bpp)

Sound(s) == Stands(s) /\ Accepts(s, s.cam.roi)

Fitting(s) ==
  s.faults <= 1 /\ s.cam.programmed =>
    Framed(s) /\ (s.dev.size \notin {Unset, Torn} => Sized(s))

Gained(s) == s.dev.gain \in {Unset, <<0, Normal>>, GainCode(s.body, s.mode, s.cam.gain)}

Following(s) ==
  s.faults = 0 => Gained(s) /\ (s.cam.programmed => Coded(s) /\ Started(s))

Kind(s) == Sound(s) /\ Fitting(s) /\ Following(s)

(* The settings of the mode that only their own setters change. *)
Alike(s, t) ==
  /\ t.mode.bpp = s.mode.bpp /\ t.mode.sensorMode = s.mode.sensorMode
  /\ t.mode.highSpeed = s.mode.highSpeed /\ t.mode.binSum = s.mode.binSum

(* The state t is s with another geometry. *)
Recut(s, t, geometry) ==
  /\ {"body", "cam", "mode", "dev", "faults"} \subseteq DOMAIN t
  /\ t.body = s.body /\ t.mode = s.mode /\ t.dev = s.dev /\ t.faults = s.faults
  /\ t.cam.bin = geometry.bin /\ t.cam.hwBin = geometry.hwBin
  /\ t.cam.roi = geometry.roi /\ t.cam.programmed = geometry.programmed
  /\ t.cam.gain = s.cam.gain /\ t.cam.offset = s.cam.offset
  /\ (/\ geometry.bin \in s.body.bins /\ geometry.hwBin \in BOOLEAN
      /\ geometry.roi \in HeldWindow /\ geometry.programmed \in BOOLEAN) => Typed(t)

(* The geometry changes field by field. *)
LEMMA Recuts ==
  ASSUME NEW s, Typed(s), NEW g
  PROVE  /\ Recut(s, [s EXCEPT !.cam.bin = g.bin, !.cam.hwBin = g.hwBin,
                               !.cam.roi = g.roi, !.cam.programmed = g.programmed], g)
         /\ g.programmed = s.cam.programmed =>
              Recut(s, [s EXCEPT !.cam.bin = g.bin, !.cam.hwBin = g.hwBin, !.cam.roi = g.roi], g)
<1> DEFINE Else(x, y) == /\ {"body", "cam", "mode", "dev", "faults"} \subseteq DOMAIN y
                         /\ y.body = x.body /\ y.mode = x.mode /\ y.dev = x.dev /\ y.faults = x.faults
           t1 == [s  EXCEPT !.cam.bin = g.bin]
           t2 == [t1 EXCEPT !.cam.hwBin = g.hwBin]
           t3 == [t2 EXCEPT !.cam.roi = g.roi]
           t4 == [t3 EXCEPT !.cam.programmed = g.programmed]
           c1 == [s.cam EXCEPT !.bin = g.bin]
           c2 == [c1 EXCEPT !.hwBin = g.hwBin]
           c3 == [c2 EXCEPT !.roi = g.roi]
           c4 == [c3 EXCEPT !.programmed = g.programmed]
<1>1. \A x, v : {"body", "cam", "mode", "dev", "faults"} \subseteq DOMAIN x =>
        /\ LET y == [x EXCEPT !.cam.bin = v] IN Else(x, y) /\ y.cam = [x.cam EXCEPT !.bin = v]
        /\ LET y == [x EXCEPT !.cam.hwBin = v] IN Else(x, y) /\ y.cam = [x.cam EXCEPT !.hwBin = v]
        /\ LET y == [x EXCEPT !.cam.roi = v] IN Else(x, y) /\ y.cam = [x.cam EXCEPT !.roi = v]
        /\ LET y == [x EXCEPT !.cam.programmed = v] IN Else(x, y) /\ y.cam = [x.cam EXCEPT !.programmed = v]
  OBVIOUS
<1>2. {"body", "cam", "mode", "dev", "faults"} \subseteq DOMAIN s
  BY DEF Typed
<1>3. Else(s, t1) /\ t1.cam = c1
  BY <1>1, <1>2
<1>4. Else(s, t2) /\ t2.cam = c2
  <2> HIDE DEF t1, c1
  <2> QED BY <1>1, <1>3
<1>5. Else(s, t3) /\ t3.cam = c3
  <2> HIDE DEF t2, c2
  <2> QED BY <1>1, <1>4
<1>6. Else(s, t4) /\ t4.cam = c4
  <2> HIDE DEF t3, c3
  <2> QED BY <1>1, <1>5
<1> DEFINE Cut(c) == /\ c.bin = g.bin /\ c.hwBin = g.hwBin /\ c.roi = g.roi
                     /\ c.gain = s.cam.gain /\ c.offset = s.cam.offset
           Fit == /\ g.bin \in s.body.bins /\ g.hwBin \in BOOLEAN
                  /\ g.roi \in HeldWindow /\ g.programmed \in BOOLEAN
<1>7. /\ Cut(c3) /\ c3.programmed = s.cam.programmed /\ (Fit => c3 \in Cams(s.body))
      /\ Cut(c4) /\ c4.programmed = g.programmed /\ (Fit => c4 \in Cams(s.body))
  <2>1. s.cam \in Cams(s.body)
    BY DEF Typed
  <2> QED
    BY <2>1 DEF Cams
<1> HIDE DEF c3, c4, t3, t4
<1>8. \A t : Else(s, t) /\ t.cam \in Cams(s.body) => Typed(t)
  BY DEF Typed
<1>9. Recut(s, t4, g)
  BY <1>6, <1>7, <1>8 DEF Recut
<1>10. g.programmed = s.cam.programmed => Recut(s, t3, g)
  BY <1>5, <1>7, <1>8 DEF Recut
<1> QED
  BY <1>9, <1>10 DEF t3, t4

(* Two cameras with the same fields are the same, and so are two modes. *)
LEMMA SameFields ==
  ASSUME NEW s, Typed(s), NEW t, Typed(t), t.body = s.body
  PROVE  /\ (/\ t.cam.bin = s.cam.bin /\ t.cam.hwBin = s.cam.hwBin /\ t.cam.programmed = s.cam.programmed
             /\ t.cam.gain = s.cam.gain /\ t.cam.offset = s.cam.offset /\ t.cam.roi = s.cam.roi)
              => t.cam = s.cam
         /\ t.cam = s.cam /\ Alike(s, t) /\ Framed(s) /\ Framed(t) => t.mode = s.mode
<1>1. s.cam \in Cams(s.body) /\ t.cam \in Cams(s.body) /\ s.mode \in Modes /\ t.mode \in Modes
  BY DEF Typed
<1>2. (/\ t.cam.bin = s.cam.bin /\ t.cam.hwBin = s.cam.hwBin /\ t.cam.programmed = s.cam.programmed
       /\ t.cam.gain = s.cam.gain /\ t.cam.offset = s.cam.offset /\ t.cam.roi = s.cam.roi)
        => t.cam = s.cam
  BY <1>1 DEF Cams
<1>3. ASSUME t.cam = s.cam, Alike(s, t), Framed(s), Framed(t) PROVE t.mode = s.mode
  <2>1. /\ t.mode.width = s.mode.width /\ t.mode.height = s.mode.height
        /\ t.mode.bin = s.mode.bin /\ t.mode.soft = s.mode.soft /\ t.mode.sensorBin = s.mode.sensorBin
    BY <1>3 DEF Framed
  <2>2. /\ t.mode.bpp = s.mode.bpp /\ t.mode.sensorMode = s.mode.sensorMode
        /\ t.mode.highSpeed = s.mode.highSpeed /\ t.mode.binSum = s.mode.binSum
    BY <1>3 DEF Alike
  <2> QED
    BY <1>1, <2>1, <2>2 DEF Modes
<1> QED
  BY <1>2, <1>3

(* How SetROI ends where it accepts the window. *)
Set(s, request, o) ==
  /\ Typed(o.s) /\ o.s.body = s.body /\ o.s.dev.gain = s.dev.gain
  /\ \/ Broken(s, o)
     \/ /\ o.s.faults = IF o.ok THEN s.faults ELSE s.faults + 1
        /\ Commit(s, o.s, At(s, request)) /\ Sound(o.s) /\ Fitting(o.s)
        /\ o.ok => Coded(o.s) /\ Started(o.s)

(* The window it commits is one it would accept again. *)
LEMMA Sets ==
  ASSUME ShippedBodies, NEW s, Stands(s), NEW request \in AnyWindow, Accepts(s, request)
  PROVE  \A o \in SetROI(s, request) : Set(s, request, o)
<1> SUFFICES ASSUME NEW o \in SetROI(s, request) PROVE Set(s, request, o)
  OBVIOUS
<1>1. ROIOutcome(s, request, o)
  BY ROIEnds DEF Stands
<1>2. ASSUME Commit(s, o.s, At(s, request)), Sized(o.s) PROVE Sound(o.s) /\ Fitting(o.s)
  <2>1. Typed(o.s) /\ o.s.body = s.body
    BY <1>1 DEF ROIOutcome
  <2>2. Accepts(s, At(s, request))
    <3>1. s.body \in Bodies /\ s.cam.bin \in s.body.bins /\ s.cam.hwBin \in BOOLEAN
      BY DEF Stands, Typed, Cams
    <3> QED
      BY <3>1, PlacedLegal DEF Accepts, At
  <2>3. Accepts(o.s, o.s.cam.roi)
    BY <1>2, <2>1, <2>2 DEF Commit, Accepts
  <2>4. Stands(o.s)
    BY <1>2, <2>1 DEF Commit, Stands, HasModes
  <2> QED
    BY <1>2, <2>3, <2>4 DEF Sound, Fitting, Commit
<1> QED
  BY <1>1, <1>2 DEF ROIOutcome, Refused, Late, Placing, Set

-----------------------------------------------------------------------------
(* Re-programming and rolling back. *)

(* A window is re-programmed where there is one, and never refused. *)
Reset(s, o) ==
  \/ ~ s.cam.programmed /\ o.ok /\ o.s = s
  \/ s.cam.programmed /\ Set(s, s.cam.roi, o)

(* Reprogram ends so. *)
LEMMA Reprograms ==
  ASSUME ShippedBodies, NEW s, Sound(s)
  PROVE  \A o \in Reprogram(s) : Reset(s, o)
<1>1. s.cam.roi \in AnyWindow
  BY DEF Sound, Stands, Typed, Cams, HeldWindow, AnyWindow
<1> QED
  BY <1>1, Sets DEF Reprogram, Done, Reset, Sound

(* A state that a failed setter left, from which the one before it is restored. *)
Strayed(s, v) ==
  /\ Typed(v) /\ v.body = s.body /\ v.faults >= s.faults
  /\ v.cam.gain = s.cam.gain /\ v.cam.offset = s.cam.offset
  /\ Alike(s, v)
  /\ ~ s.cam.programmed => v.mode = s.mode
  /\ v.faults = s.faults => v.mode = s.mode /\ v.dev.size = s.dev.size /\ v.dev.gain = s.dev.gain

(* What a setter leaves: a state of the kind it found and, if it fails at no more *)
(* than one transfer, the view it found.                                          *)
Left(s, o) ==
  /\ o.s.body = s.body /\ Kind(o.s)
  /\ ~ o.ok /\ o.s.faults <= 1 => o.s.cam = s.cam /\ o.s.mode = s.mode

(* A state that differs from a kind one only in registers no property names. *)
LEMMA Nearby ==
  ASSUME NEW s, Kind(s), NEW t, Typed(t),
         t.body = s.body, t.cam = s.cam, t.mode = s.mode, t.faults >= s.faults,
         t.dev.size \in {s.dev.size, Torn},
         t.faults = s.faults => \A g \in {"sensor", "gain", "offset", "hdrOffset"} : t.dev[g] = s.dev[g]
  PROVE  Kind(t)
<1>1. s.faults \in Nat /\ t.faults \in Nat
  BY ReadoutAssumption DEF Kind, Sound, Stands, Typed
<1>2. Sound(t)
  BY DEF Kind, Sound, Stands, Accepts, HasModes
<1>3. Fitting(t)
  BY <1>1 DEF Kind, Fitting, Framed, At, Sized, FrameBytes
<1>4. Following(t)
  <2> SUFFICES ASSUME t.faults = 0 PROVE Gained(t) /\ (t.cam.programmed => Coded(t) /\ Started(t))
    BY DEF Following
  <2>1. s.faults = 0 /\ t.dev.gain = s.dev.gain /\ t.dev.offset = s.dev.offset
        /\ t.dev.hdrOffset = s.dev.hdrOffset /\ t.dev.sensor = s.dev.sensor
    BY <1>1
  <2> QED
    BY <2>1 DEF Kind, Following, Gained, Coded, Started
<1> QED
  BY <1>2, <1>3, <1>4 DEF Kind

(* restoreWindow puts the view back, and the error stays. *)
LEMMA Restores ==
  ASSUME ShippedBodies, NEW s, Kind(s), NEW v, Strayed(s, v)
  PROVE  \A o \in RestoreWindow(v, s.cam) : ~ o.ok /\ Left(s, o)
<1> DEFINE prev == s.cam
           t == [v EXCEPT !.cam.bin = prev.bin, !.cam.hwBin = prev.hwBin,
                          !.cam.roi = prev.roi, !.cam.programmed = prev.programmed]
<1>1. RestoreWindow(v, s.cam) = Failed(Reprogram(t))
  BY Zenon DEF RestoreWindow
<1>2. Recut(v, t, prev)
  <2> HIDE DEF prev
  <2> QED BY Recuts DEF Strayed
<1> HIDE DEF t
<1>3. Typed(s) /\ Sound(s) /\ s.faults \in Nat /\ v.faults \in Nat /\ v.faults >= s.faults
  BY ReadoutAssumption DEF Kind, Sound, Stands, Typed, Strayed
<1>4. s.cam \in Cams(s.body)
  BY <1>3 DEF Typed
<1>5. Typed(t)
  BY <1>2, <1>4 DEF Recut, Strayed, Cams
<1>6. t.body = s.body /\ t.mode = v.mode /\ t.dev = v.dev /\ t.faults = v.faults /\ Alike(s, t)
  BY <1>2 DEF Recut, Strayed, Alike
<1>7. t.cam = s.cam
  BY <1>2, <1>3, <1>5, <1>6, SameFields DEF Recut, Strayed
<1>8. Sound(t)
  BY <1>3, <1>5, <1>6, <1>7 DEF Sound, Stands, Accepts, HasModes, Alike
<1> SUFFICES ASSUME NEW p \in Reprogram(t) PROVE Left(s, [s |-> p.s, ok |-> FALSE])
  BY <1>1 DEF Failed
<1>9. Reset(t, p)
  BY <1>8, Reprograms
<1>10. CASE ~ s.cam.programmed
  <2>1. p.s = t
    BY <1>7, <1>9, <1>10 DEF Reset
  <2>2. t.mode = s.mode /\ Kind(t)
    <3>1. t.mode = s.mode
      BY <1>6, <1>10 DEF Strayed
    <3>2. t.faults = 0 => Gained(t)
      BY <1>3, <1>6, <1>7, <3>1 DEF Kind, Following, Gained, Strayed
    <3> QED
      BY <1>7, <1>8, <1>10, <3>1, <3>2 DEF Kind, Fitting, Following
  <2> QED
    BY <1>6, <1>7, <2>1, <2>2 DEF Left
<1>11. CASE s.cam.programmed
  <2>1. Set(t, s.cam.roi, p)
    BY <1>7, <1>9, <1>11 DEF Reset
  <2>2. Typed(p.s) /\ p.s.body = s.body /\ p.s.dev.gain = t.dev.gain
    BY <1>6, <2>1 DEF Set
  <2>3. CASE Broken(t, p)
    <3>1. p.s.cam = s.cam /\ p.s.mode = v.mode /\ p.s.faults = v.faults + 1 /\ p.s.dev.size \in {v.dev.size, Torn}
      BY <1>6, <1>7, <2>3 DEF Broken
    <3>2. Sound(p.s)
      BY <1>6, <1>7, <1>8, <2>2, <3>1 DEF Sound, Stands, Accepts, HasModes
    <3>3. ASSUME p.s.faults <= 1 PROVE p.s.mode = s.mode /\ Fitting(p.s)
      <4>1. v.faults = 0 /\ s.faults = 0
        BY <1>3, <3>1, <3>3
      <4>2. v.mode = s.mode /\ v.dev.size = s.dev.size
        BY <4>1 DEF Strayed
      <4> QED
        BY <2>2, <3>1, <4>1, <4>2 DEF Kind, Fitting, Framed, At, Sized, FrameBytes
    <3>4. p.s.faults # 0
      BY <1>3, <3>1
    <3> QED
      BY <2>2, <3>1, <3>2, <3>3, <3>4 DEF Left, Kind, Following, Fitting
  <2>4. CASE /\ p.s.faults = IF p.ok THEN t.faults ELSE t.faults + 1
             /\ Commit(t, p.s, At(t, s.cam.roi)) /\ Sound(p.s) /\ Fitting(p.s)
             /\ p.ok => Coded(p.s) /\ Started(p.s)
    <3>1. p.s.faults = (IF p.ok THEN v.faults ELSE v.faults + 1) /\ At(t, s.cam.roi) = At(s, s.cam.roi)
      BY <1>6, <1>7, <2>4 DEF At
    <3>2. ASSUME p.s.faults <= 1 PROVE p.s.cam = s.cam /\ p.s.mode = s.mode
      <4>1. s.faults <= 1
        BY <1>3, <3>1, <3>2
      <4>2. Framed(s)
        BY <1>11, <4>1 DEF Kind, Fitting
      <4>3. At(s, s.cam.roi) = s.cam.roi
        BY <4>2 DEF Framed
      <4>4. p.s.cam = s.cam
        <5>1. /\ p.s.cam.bin = s.cam.bin /\ p.s.cam.hwBin = s.cam.hwBin /\ p.s.cam.programmed = TRUE
              /\ p.s.cam.gain = s.cam.gain /\ p.s.cam.offset = s.cam.offset /\ p.s.cam.roi = s.cam.roi
          BY <1>7, <2>4, <3>1, <4>3 DEF Commit
        <5>2. s.cam.programmed = TRUE
          BY <1>4, <1>11 DEF Cams
        <5> QED
          BY <1>3, <2>2, <5>1, <5>2, SameFields
      <4>5. Framed(p.s) /\ Alike(s, p.s)
        BY <1>6, <2>4 DEF Commit, Alike
      <4> QED
        BY <1>3, <2>2, <4>2, <4>4, <4>5, SameFields
    <3>3. Following(p.s)
      <4> SUFFICES ASSUME p.s.faults = 0 PROVE Gained(p.s) /\ Coded(p.s) /\ Started(p.s)
        BY DEF Following
      <4>1. p.ok /\ v.faults = 0 /\ s.faults = 0
        BY <1>3, <3>1
      <4>2. p.s.dev.gain = s.dev.gain /\ p.s.cam = s.cam /\ p.s.mode = s.mode
        BY <1>6, <2>2, <3>2, <4>1 DEF Strayed
      <4> QED
        BY <2>2, <2>4, <4>1, <4>2 DEF Kind, Following, Gained
    <3> QED
      BY <2>2, <2>4, <3>2, <3>3 DEF Left, Kind
  <2> QED
    BY <2>1, <2>3, <2>4 DEF Set
<1> QED
  BY <1>10, <1>11

-----------------------------------------------------------------------------
(* Mode writes. *)

(* What a transfer of one write leaves. *)
WroteOne(s, w, o) ==
  /\ Typed(o.s) /\ o.ok \in BOOLEAN
  /\ o.s.body = s.body /\ o.s.cam = s.cam /\ o.s.mode = s.mode
  /\ \A g \in Groups : g \notin DOMAIN w => o.s.dev[g] = s.dev[g]
  /\ o.ok => o.s.faults = s.faults /\ \A g \in Groups \cap DOMAIN w : o.s.dev[g] = w[g]
  /\ ~ o.ok => o.s.faults = s.faults + 1

(* Every outcome of one is this. *)
LEMMA OneWrite ==
  ASSUME NEW s, Typed(s), NEW w
  PROVE  \A o \in Transfer(s, <<w>>) : WroteOne(s, w, o)
<1> DEFINE writes == <<w>>
<1>1. Len(writes) = 1 /\ DOMAIN writes = 1 .. 1 /\ DOMAIN writes = {1} /\ writes[1] = w
  OBVIOUS
<1> HIDE DEF writes
<1>2. Plain(writes)
  BY <1>1 DEF Plain
<1>3. \A o \in Transfer(s, writes) : Wrote(s, writes, o)
  BY <1>2, Transfers
<1>4. \A o : Wrote(s, writes, o) => WroteOne(s, w, o)
  BY <1>1 DEF Wrote, WroteOne
<1> QED
  BY <1>3, <1>4 DEF writes

(* The state t is s but for registers no property names. *)
Named == {"size", "sensor", "gain", "offset", "hdrOffset"}
Quiet(s, t) ==
  /\ Typed(t) /\ t.body = s.body /\ t.cam = s.cam /\ t.mode = s.mode /\ t.faults >= s.faults
  /\ \A g \in Named : t.dev[g] = s.dev[g]

(* It is of the same kind. *)
LEMMA QuietKind ==
  ASSUME NEW s, Kind(s), NEW t, Quiet(s, t)
  PROVE  Kind(t)
BY Nearby DEF Quiet, Named

(* The output width and the sensor block are such registers. *)
LEMMA QuietWrites ==
  ASSUME NEW s, Typed(s)
  PROVE  /\ \A raw : \A o \in SetFPGAOutputWidth(s, raw) :
              Quiet(s, o.s) /\ o.ok \in BOOLEAN /\ (o.ok => o.s.faults = s.faults)
         /\ \A m : \A o \in ProfileSetSensorMode(s, m) :
              /\ Quiet(s, o.s) /\ o.ok \in BOOLEAN
              /\ IF o.ok THEN o.s.faults = s.faults /\ HasBlock(m, s.mode.bpp)
                 ELSE (o.s = s /\ ~ HasBlock(m, s.mode.bpp)) \/ o.s.faults = s.faults + 1
<1>1. s.faults \in Nat /\ Named \subseteq Groups
  BY ReadoutAssumption DEF Typed, Named, Groups
<1>2. ASSUME NEW w, DOMAIN w \cap Named = {}, NEW o, WroteOne(s, w, o) PROVE Quiet(s, o.s)
  BY <1>1, <1>2 DEF WroteOne, Quiet
<1>3. ASSUME NEW raw, NEW o \in SetFPGAOutputWidth(s, raw)
      PROVE  Quiet(s, o.s) /\ o.ok \in BOOLEAN /\ (o.ok => o.s.faults = s.faults)
  <2> DEFINE w == [reg0a |-> WithBit4(s.dev.reg0a, raw)]
  <2>1. DOMAIN w \cap Named = {}
    BY DEF Named
  <2>2. o \in Transfer(s, <<w>>)
    BY <1>3 DEF SetFPGAOutputWidth
  <2> HIDE DEF w
  <2>3. WroteOne(s, w, o)
    BY <2>2, OneWrite
  <2> QED
    BY <1>2, <2>1, <2>3 DEF WroteOne
<1>4. ASSUME NEW m, NEW o \in ProfileSetSensorMode(s, m)
      PROVE  /\ Quiet(s, o.s) /\ o.ok \in BOOLEAN
             /\ IF o.ok THEN o.s.faults = s.faults /\ HasBlock(m, s.mode.bpp)
                ELSE (o.s = s /\ ~ HasBlock(m, s.mode.bpp)) \/ o.s.faults = s.faults + 1
  <2> DEFINE w == [block |-> <<m, s.mode.bpp>>, die |-> 1]
  <2>1. DOMAIN w \cap Named = {}
    BY DEF Named
  <2>2. \/ HasBlock(m, s.mode.bpp) /\ o \in Transfer(s, <<w>>)
        \/ ~ HasBlock(m, s.mode.bpp) /\ o = [s |-> s, ok |-> FALSE]
    BY <1>4 DEF ProfileSetSensorMode, Refuse
  <2> HIDE DEF w
  <2>3. CASE HasBlock(m, s.mode.bpp) /\ o \in Transfer(s, <<w>>)
    <3>1. WroteOne(s, w, o)
      BY <2>3, OneWrite
    <3> QED
      BY <1>2, <2>1, <2>3, <3>1 DEF WroteOne
  <2>4. CASE ~ HasBlock(m, s.mode.bpp) /\ o = [s |-> s, ok |-> FALSE]
    BY <1>1, <2>4 DEF Quiet
  <2> QED
    BY <2>2, <2>3, <2>4
<1> QED
  BY <1>3, <1>4

(* One setting of the mode changes, and with it nothing else. *)
Shifted(s, t) ==
  /\ Typed(t) /\ t.body = s.body /\ t.cam = s.cam /\ t.dev = s.dev /\ t.faults = s.faults
  /\ t.mode.width = s.mode.width /\ t.mode.height = s.mode.height
  /\ t.mode.bin = s.mode.bin /\ t.mode.soft = s.mode.soft /\ t.mode.sensorBin = s.mode.sensorBin

(* The state t at another depth, sensor mode, speed or way of binning. *)
WithDepth(t, v) == [t EXCEPT !.mode.bpp = v]
WithMode(t, v)  == [t EXCEPT !.mode.sensorMode = v]
WithSpeed(t, v) == [t EXCEPT !.mode.highSpeed = v]
WithSum(t, v)   == [t EXCEPT !.mode.binSum = v]

(* Each of the four does. *)
LEMMA Shifts ==
  ASSUME NEW s, Typed(s)
  PROVE  /\ \A v \in 1 .. 2 : LET t == WithDepth(s, v)
                              IN  Shifted(s, t) /\ t.mode = [s.mode EXCEPT !.bpp = v]
         /\ \A v \in {Normal, HDR} : LET t == WithMode(s, v)
                                     IN  Shifted(s, t) /\ t.mode = [s.mode EXCEPT !.sensorMode = v]
         /\ \A v \in BOOLEAN : LET t == WithSpeed(s, v)
                               IN  Shifted(s, t) /\ t.mode = [s.mode EXCEPT !.highSpeed = v]
         /\ \A v \in BOOLEAN : LET t == WithSum(s, v)
                               IN  Shifted(s, t) /\ t.mode = [s.mode EXCEPT !.binSum = v]
<1>1. s.mode \in Modes
  BY DEF Typed
<1>2. \A t : /\ {"body", "cam", "mode", "dev", "faults"} \subseteq DOMAIN t
             /\ t.body = s.body /\ t.cam = s.cam /\ t.dev = s.dev /\ t.faults = s.faults /\ t.mode \in Modes
             /\ t.mode.width = s.mode.width /\ t.mode.height = s.mode.height
             /\ t.mode.bin = s.mode.bin /\ t.mode.soft = s.mode.soft /\ t.mode.sensorBin = s.mode.sensorBin
             => Shifted(s, t)
  BY DEF Typed, Shifted
<1>3. ASSUME NEW v \in 1 .. 2
      PROVE  LET t == WithDepth(s, v) IN Shifted(s, t) /\ t.mode = [s.mode EXCEPT !.bpp = v]
  <2> DEFINE t == WithDepth(s, v)
             m == [s.mode EXCEPT !.bpp = v]
  <2>1. /\ m \in Modes /\ m.width = s.mode.width /\ m.height = s.mode.height
        /\ m.bin = s.mode.bin /\ m.soft = s.mode.soft /\ m.sensorBin = s.mode.sensorBin
    BY <1>1 DEF Modes
  <2>2. /\ {"body", "cam", "mode", "dev", "faults"} \subseteq DOMAIN t
        /\ t.body = s.body /\ t.cam = s.cam /\ t.dev = s.dev /\ t.faults = s.faults /\ t.mode = m
    BY DEF Typed, WithDepth
  <2> HIDE DEF t, m
  <2>3. Shifted(s, t) /\ t.mode = m
    BY <1>2, <2>1, <2>2
  <2> QED
    BY <2>3 DEF t, m
<1>4. ASSUME NEW v \in {Normal, HDR}
      PROVE  LET t == WithMode(s, v) IN Shifted(s, t) /\ t.mode = [s.mode EXCEPT !.sensorMode = v]
  <2> DEFINE t == WithMode(s, v)
             m == [s.mode EXCEPT !.sensorMode = v]
  <2>1. /\ m \in Modes /\ m.width = s.mode.width /\ m.height = s.mode.height
        /\ m.bin = s.mode.bin /\ m.soft = s.mode.soft /\ m.sensorBin = s.mode.sensorBin
    BY <1>1 DEF Modes
  <2>2. /\ {"body", "cam", "mode", "dev", "faults"} \subseteq DOMAIN t
        /\ t.body = s.body /\ t.cam = s.cam /\ t.dev = s.dev /\ t.faults = s.faults /\ t.mode = m
    BY DEF Typed, WithMode
  <2> HIDE DEF t, m
  <2>3. Shifted(s, t) /\ t.mode = m
    BY <1>2, <2>1, <2>2
  <2> QED
    BY <2>3 DEF t, m
<1>5. ASSUME NEW v \in BOOLEAN
      PROVE  LET t == WithSpeed(s, v) IN Shifted(s, t) /\ t.mode = [s.mode EXCEPT !.highSpeed = v]
  <2> DEFINE t == WithSpeed(s, v)
             m == [s.mode EXCEPT !.highSpeed = v]
  <2>1. /\ m \in Modes /\ m.width = s.mode.width /\ m.height = s.mode.height
        /\ m.bin = s.mode.bin /\ m.soft = s.mode.soft /\ m.sensorBin = s.mode.sensorBin
    BY <1>1 DEF Modes
  <2>2. /\ {"body", "cam", "mode", "dev", "faults"} \subseteq DOMAIN t
        /\ t.body = s.body /\ t.cam = s.cam /\ t.dev = s.dev /\ t.faults = s.faults /\ t.mode = m
    BY DEF Typed, WithSpeed
  <2> HIDE DEF t, m
  <2>3. Shifted(s, t) /\ t.mode = m
    BY <1>2, <2>1, <2>2
  <2> QED
    BY <2>3 DEF t, m
<1>6. ASSUME NEW v \in BOOLEAN
      PROVE  LET t == WithSum(s, v) IN Shifted(s, t) /\ t.mode = [s.mode EXCEPT !.binSum = v]
  <2> DEFINE t == WithSum(s, v)
             m == [s.mode EXCEPT !.binSum = v]
  <2>1. /\ m \in Modes /\ m.width = s.mode.width /\ m.height = s.mode.height
        /\ m.bin = s.mode.bin /\ m.soft = s.mode.soft /\ m.sensorBin = s.mode.sensorBin
    BY <1>1 DEF Modes
  <2>2. /\ {"body", "cam", "mode", "dev", "faults"} \subseteq DOMAIN t
        /\ t.body = s.body /\ t.cam = s.cam /\ t.dev = s.dev /\ t.faults = s.faults /\ t.mode = m
    BY DEF Typed, WithSum
  <2> HIDE DEF t, m
  <2>3. Shifted(s, t) /\ t.mode = m
    BY <1>2, <2>1, <2>2
  <2> QED
    BY <2>3 DEF t, m
<1> QED
  BY <1>3, <1>4, <1>5, <1>6

(* A window set where the gain is right leaves a kind state, and one that failed *)
(* differs from where it started in geometry alone.                              *)
LEMMA SetEnds ==
  ASSUME NEW s, Stands(s), NEW request, NEW o, Set(s, request, o)
  PROVE  /\ o.ok /\ (s.faults = 0 => Gained(s)) => Kind(o.s)
         /\ ~ Broken(s, o) /\ (s.faults = 0 => Gained(s)) => Kind(o.s)
         /\ o.s.cam.gain = s.cam.gain /\ o.s.cam.offset = s.cam.offset /\ Alike(s, o.s)
         /\ ~ o.ok => o.s.faults = s.faults + 1
<1>1. Typed(o.s) /\ o.s.body = s.body /\ o.s.dev.gain = s.dev.gain /\ s.faults \in Nat
  BY ReadoutAssumption DEF Set, Stands, Typed
<1>2. CASE Broken(s, o)
  BY <1>2 DEF Broken, Alike
<1>3. CASE /\ o.s.faults = IF o.ok THEN s.faults ELSE s.faults + 1
           /\ Commit(s, o.s, At(s, request)) /\ Sound(o.s) /\ Fitting(o.s)
           /\ o.ok => Coded(o.s) /\ Started(o.s)
  <2>1. o.s.cam.gain = s.cam.gain /\ o.s.cam.offset = s.cam.offset /\ Alike(s, o.s)
    BY <1>3 DEF Commit, Alike
  <2>2. Gained(s) => Gained(o.s)
    BY <1>1, <2>1 DEF Gained, GainCode, Alike
  <2>3. (s.faults = 0 => Gained(s)) => Following(o.s)
    BY <1>1, <1>3, <2>2 DEF Following
  <2> QED
    BY <1>1, <1>3, <2>1, <2>3 DEF Kind
<1> QED
  BY <1>2, <1>3 DEF Set

-----------------------------------------------------------------------------
(* Split, speed and summing. *)

(* What a call that changes the view on purpose leaves. *)
Stays(s, o) == o.s.body = s.body /\ Kind(o.s)

(* SetROI, with whatever window. *)
LEMMA ROIStays ==
  ASSUME ShippedBodies, NEW s, Kind(s), NEW request \in AnyWindow
  PROVE  \A o \in SetROI(s, request) : Stays(s, o)
<1> SUFFICES ASSUME NEW o \in SetROI(s, request) PROVE Stays(s, o)
  OBVIOUS
<1>1. Typed(s) /\ Stands(s) /\ s.faults \in Nat
  BY ReadoutAssumption DEF Kind, Sound, Stands, Typed
<1>2. CASE ~ Accepts(s, request)
  <2>1. ROIOutcome(s, request, o)
    BY <1>1, ROIEnds DEF Stands
  <2> QED
    BY <1>2, <2>1 DEF ROIOutcome, Refused, Stays
<1>3. CASE Accepts(s, request)
  <2>1. Set(s, request, o)
    BY <1>1, <1>3, Sets
  <2>2. CASE Broken(s, o)
    <3>1. Kind(o.s)
      BY <1>1, <2>1, <2>2, Nearby DEF Broken, Set
    <3> QED
      BY <2>1, <3>1 DEF Set, Stays
  <2>3. CASE ~ Broken(s, o)
    BY <1>1, <2>1, <2>3, SetEnds DEF Stays, Set, Kind, Following
  <2> QED
    BY <2>2, <2>3
<1> QED
  BY <1>2, <1>3

(* A new split: the full frame of it, or the window and split before. *)
LEMMA ResplitEnds ==
  ASSUME ShippedBodies, NEW s, Kind(s), NEW bin \in s.body.bins, NEW hwBin \in BOOLEAN
  PROVE  \A o \in Resplit(s, bin, hwBin) : Left(s, o)
<1> DEFINE full == FullWindow(s.body, bin, hwBin)
           t == [s EXCEPT !.cam.bin = bin, !.cam.hwBin = hwBin, !.cam.roi = full]
           g == [bin |-> bin, hwBin |-> hwBin, roi |-> full, programmed |-> s.cam.programmed]
           restore(u) == RestoreWindow(u, s.cam)
<1>0. Resplit(s, bin, hwBin) = IF s.cam.programmed THEN OrElse(SetROI(t, full), restore) ELSE Done(t)
  BY DEF Resplit, OrElse
<1>1. /\ Typed(s) /\ Stands(s) /\ s.faults \in Nat /\ s.body \in Bodies /\ s.cam \in Cams(s.body)
  BY ReadoutAssumption DEF Kind, Sound, Stands, Typed
<1>2. full \in HeldWindow /\ LegalWindow(s.body, bin, hwBin, full)
  BY <1>1, FullLegal
<1>3. g.bin = bin /\ g.hwBin = hwBin /\ g.roi = full /\ g.programmed = s.cam.programmed
  OBVIOUS
<1> HIDE DEF g, full
<1>4. t = [s EXCEPT !.cam.bin = g.bin, !.cam.hwBin = g.hwBin, !.cam.roi = g.roi]
  BY <1>3, Zenon
<1> HIDE DEF t
<1>5. Recut(s, t, g)
  BY <1>1, <1>3, <1>4, Recuts
<1>6. /\ Typed(t) /\ t.body = s.body /\ t.mode = s.mode /\ t.dev = s.dev /\ t.faults = s.faults
      /\ t.cam.bin = bin /\ t.cam.hwBin = hwBin /\ t.cam.roi = full /\ t.cam.programmed = s.cam.programmed
      /\ t.cam.gain = s.cam.gain /\ t.cam.offset = s.cam.offset
  BY <1>1, <1>2, <1>3, <1>5 DEF Recut, Cams
<1>7. Sound(t)
  BY <1>1, <1>2, <1>6 DEF Sound, Stands, Accepts, HasModes
<1>8. t.faults = 0 => Gained(t)
  BY <1>6 DEF Kind, Following, Gained
<1>9. CASE ~ s.cam.programmed
  <2>1. Kind(t)
    BY <1>6, <1>7, <1>8, <1>9 DEF Kind, Fitting, Following
  <2> QED
    BY <1>0, <1>6, <1>9, <2>1 DEF Done, Left
<1>10. CASE s.cam.programmed
  <2>1. full \in AnyWindow /\ Accepts(t, full)
    BY <1>2, <1>6, <1>7 DEF HeldWindow, AnyWindow, Sound
  <2>2. \A o \in SetROI(t, full) : Set(t, full, o)
    BY <1>7, <2>1, Sets DEF Sound
  <2>3. ASSUME NEW o \in SetROI(t, full), o.ok PROVE Left(s, o)
    <3>1. Kind(o.s)
      BY <1>7, <1>8, <2>2, <2>3, SetEnds DEF Sound
    <3> QED
      BY <1>6, <2>2, <2>3, <3>1 DEF Left, Set
  <2>4. ASSUME NEW o \in SetROI(t, full), ~ o.ok PROVE \A p \in restore(o.s) : Left(s, p)
    <3>1. Set(t, full, o)
      BY <2>2
    <3>2. /\ o.s.cam.gain = t.cam.gain /\ o.s.cam.offset = t.cam.offset /\ Alike(t, o.s)
          /\ o.s.faults = t.faults + 1
      BY <1>7, <2>4, <3>1, SetEnds DEF Sound
    <3>3. Strayed(s, o.s)
      BY <1>1, <1>6, <1>10, <3>1, <3>2 DEF Strayed, Set, Alike
    <3> QED
      BY <3>3, Restores
  <2>5. \A o \in OrElse(SetROI(t, full), restore) : Left(s, o)
    <3> HIDE DEF restore
    <3> QED BY <2>3, <2>4 DEF OrElse
  <2> QED
    BY <1>0, <1>10, <2>5
<1> QED
  BY <1>9, <1>10

(* High speed: the setting stays, whether the window is re-programmed or not. *)
LEMMA HighSpeedStays ==
  ASSUME ShippedBodies, NEW s, Kind(s), NEW on \in BOOLEAN
  PROVE  \A o \in SetHighSpeedMode(s, on) : Stays(s, o)
<1> DEFINE t == WithSpeed(s, on)
<1>1. Typed(s) /\ s.faults \in Nat
  BY ReadoutAssumption DEF Kind, Sound, Stands, Typed
<1>2. Shifted(s, t) /\ t.mode = [s.mode EXCEPT !.highSpeed = on]
  BY <1>1, Shifts
<1> HIDE DEF t
<1>3. t.mode.bpp = s.mode.bpp /\ t.mode.sensorMode = s.mode.sensorMode
  BY <1>1, <1>2 DEF Typed, Modes
<1>4. Kind(t)
  BY <1>2, <1>3 DEF Shifted, Kind, Sound, Stands, HasModes, Accepts, Fitting, Framed, At, Sized, FrameBytes,
                    Following, Gained, GainCode, Coded, OffsetCode, Started
<1>5. SetHighSpeedMode(s, on) = Reprogram(t)
  BY DEF SetHighSpeedMode, t, WithSpeed
<1>6. t.cam.roi \in AnyWindow
  BY <1>4 DEF Kind, Sound, Stands, Typed, Cams, HeldWindow, AnyWindow
<1>7. \A o \in Reprogram(t) : Stays(t, o)
  BY <1>4, <1>6, ROIStays DEF Reprogram, Done, Stays
<1> QED
  BY <1>2, <1>5, <1>7 DEF Stays, Shifted

(* A sum or an average: put back where the window could not be re-programmed. *)
LEMMA BinSumEnds ==
  ASSUME ShippedBodies, NEW s, Kind(s), NEW sum \in BOOLEAN
  PROVE  \A o \in SetBinSum(s, sum) : Left(s, o)
<1> DEFINE t == WithSum(s, sum)
           back(u) == Refuse(WithSum(u, s.mode.binSum))
<1>0. SetBinSum(s, sum) = IF sum = s.mode.binSum THEN Done(s) ELSE OrElse(Reprogram(t), back)
  BY DEF SetBinSum, OrElse, WithSum
<1>1. Typed(s) /\ s.faults \in Nat /\ s.mode \in Modes /\ s.cam \in Cams(s.body)
  BY ReadoutAssumption DEF Kind, Sound, Stands, Typed
<1>2. Shifted(s, t) /\ t.mode = [s.mode EXCEPT !.binSum = sum]
  BY <1>1, Shifts
<1> HIDE DEF t
<1>3. t.mode.bpp = s.mode.bpp /\ t.mode.sensorMode = s.mode.sensorMode /\ t.mode.highSpeed = s.mode.highSpeed
  BY <1>1, <1>2 DEF Modes
<1>4. Kind(t)
  BY <1>2, <1>3 DEF Shifted, Kind, Sound, Stands, HasModes, Accepts, Fitting, Framed, At, Sized, FrameBytes,
                    Following, Gained, GainCode, Coded, OffsetCode, Started
<1>5. \A o \in Reprogram(t) : Reset(t, o)
  BY <1>4, Reprograms DEF Kind
<1>6. t.cam.roi \in AnyWindow
  BY <1>4 DEF Kind, Sound, Stands, Typed, Cams, HeldWindow, AnyWindow
<1>7. \A o \in Reprogram(t) : Stays(t, o)
  BY <1>4, <1>6, ROIStays DEF Reprogram, Done, Stays
<1>8. ASSUME NEW o \in Reprogram(t), o.ok PROVE Left(s, o)
  BY <1>2, <1>7, <1>8 DEF Left, Stays, Shifted
<1>9. ASSUME NEW o \in Reprogram(t), ~ o.ok, NEW p \in back(o.s) PROVE Left(s, p)
  <2> DEFINE u == WithSum(o.s, s.mode.binSum)
  <2>1. s.cam.programmed /\ Set(t, t.cam.roi, o) /\ Kind(o.s) /\ o.s.body = s.body
    BY <1>2, <1>5, <1>7, <1>9 DEF Reset, Stays, Shifted
  <2>2. Typed(o.s) /\ s.mode.binSum \in BOOLEAN
    BY <1>1, <2>1 DEF Kind, Sound, Stands, Modes
  <2>3. Shifted(o.s, u) /\ u.mode = [o.s.mode EXCEPT !.binSum = s.mode.binSum]
    BY <2>2, Shifts
  <2>4. p = [s |-> u, ok |-> FALSE]
    BY <1>9 DEF Refuse
  <2> HIDE DEF u
  <2>5. /\ u.mode.bpp = o.s.mode.bpp /\ u.mode.sensorMode = o.s.mode.sensorMode
        /\ u.mode.highSpeed = o.s.mode.highSpeed /\ u.mode.binSum = s.mode.binSum
    BY <2>2, <2>3 DEF Typed, Modes
  <2>6. Kind(u)
    BY <2>1, <2>3, <2>5 DEF Shifted, Kind, Sound, Stands, HasModes, Accepts, Fitting, Framed, At, Sized, FrameBytes,
                      Following, Gained, GainCode, Coded, OffsetCode, Started
  <2>7. Alike(s, u)
    <3>1. Alike(t, o.s)
      BY <1>4, <2>1, SetEnds DEF Kind, Sound
    <3> QED
      BY <1>3, <2>5, <3>1 DEF Alike
  <2>8. ASSUME u.faults <= 1 PROVE u.cam = s.cam /\ u.mode = s.mode
    <3>1. o.s.faults = s.faults + 1 /\ s.faults = 0
      BY <1>1, <1>2, <1>4, <1>9, <2>1, <2>3, <2>8, SetEnds DEF Kind, Sound, Shifted
    <3>2. Framed(s) /\ Framed(u)
      <4>1. u.cam = o.s.cam /\ (o.s.cam.programmed = TRUE \/ o.s.cam = s.cam)
        BY <1>2, <2>1, <2>3 DEF Shifted, Set, Broken, Commit
      <4> QED
        BY <2>1, <2>6, <2>8, <3>1, <4>1 DEF Kind, Fitting
    <3>3. u.cam = s.cam
      <4>1. CASE Broken(t, o)
        BY <1>2, <2>3, <4>1 DEF Broken, Shifted
      <4>2. CASE Commit(t, o.s, At(t, t.cam.roi))
        <5>1. At(t, t.cam.roi) = s.cam.roi
          BY <1>2, <3>2 DEF Framed, At, Shifted
        <5>2. s.cam.programmed = TRUE
          BY <1>1, <2>1 DEF Cams
        <5>3. /\ u.cam.bin = s.cam.bin /\ u.cam.hwBin = s.cam.hwBin /\ u.cam.programmed = s.cam.programmed
              /\ u.cam.gain = s.cam.gain /\ u.cam.offset = s.cam.offset /\ u.cam.roi = s.cam.roi
              /\ u.body = s.body /\ Typed(u)
          BY <1>2, <2>1, <2>3, <4>2, <5>1, <5>2 DEF Commit, Shifted
        <5> QED
          BY <1>1, <5>3, SameFields
      <4> QED
        BY <2>1, <4>1, <4>2 DEF Set
    <3>4. Typed(u) /\ u.body = s.body
      BY <2>1, <2>3 DEF Shifted
    <3> QED
      BY <1>1, <2>7, <3>2, <3>3, <3>4, SameFields
  <2> QED
    BY <2>1, <2>3, <2>4, <2>6, <2>8 DEF Left, Shifted
<1>10. \A o \in OrElse(Reprogram(t), back) : Left(s, o)
  <2> HIDE DEF back
  <2> QED BY <1>8, <1>9 DEF OrElse
<1>11. \A o \in Done(s) : Left(s, o)
  BY DEF Done, Left
<1> QED
  BY <1>0, <1>10, <1>11

-----------------------------------------------------------------------------
(* Gain and offset. *)

(* What SetGain leaves. *)
GainSet(s, gain, o) ==
  /\ Typed(o.s) /\ o.s.body = s.body /\ o.s.mode = s.mode
  /\ o.s.cam.bin = s.cam.bin /\ o.s.cam.hwBin = s.cam.hwBin /\ o.s.cam.roi = s.cam.roi
  /\ o.s.cam.programmed = s.cam.programmed /\ o.s.cam.offset = s.cam.offset
  /\ o.s.cam.gain = IF o.ok THEN gain ELSE s.cam.gain
  /\ o.s.faults = IF o.ok THEN s.faults ELSE s.faults + 1
  /\ \A g \in Named \ {"gain"} : o.s.dev[g] = s.dev[g]
  /\ o.ok => o.s.dev.gain = GainCode(s.body, s.mode, gain)

(* What SetOffset leaves. *)
OffsetSet(s, offset, o) ==
  /\ Typed(o.s) /\ o.s.body = s.body /\ o.s.mode = s.mode
  /\ o.s.cam.bin = s.cam.bin /\ o.s.cam.hwBin = s.cam.hwBin /\ o.s.cam.roi = s.cam.roi
  /\ o.s.cam.programmed = s.cam.programmed /\ o.s.cam.gain = s.cam.gain
  /\ o.s.cam.offset = IF o.ok THEN offset ELSE s.cam.offset
  /\ o.s.faults = IF o.ok THEN s.faults ELSE s.faults + 1
  /\ \A g \in {"size", "sensor", "gain"} : o.s.dev[g] = s.dev[g]
  /\ o.ok => /\ o.s.dev.offset = OffsetCode(s.body, s.mode, offset)
             /\ s.mode.sensorMode = HDR => o.s.dev.hdrOffset = offset

(* The state t with another gain or offset recorded. *)
WithGain(t, v)   == [t EXCEPT !.cam.gain = v]
WithOffset(t, v) == [t EXCEPT !.cam.offset = v]

(* The Camera with another gain, field by field. *)
LEMMA GainCopied ==
  ASSUME NEW t, Typed(t), NEW v \in Gains \union {0}
  PROVE  LET u == WithGain(t, v)
         IN  /\ Typed(u) /\ u.body = t.body /\ u.mode = t.mode /\ u.dev = t.dev /\ u.faults = t.faults
             /\ u.cam.bin = t.cam.bin /\ u.cam.hwBin = t.cam.hwBin /\ u.cam.roi = t.cam.roi
             /\ u.cam.programmed = t.cam.programmed /\ u.cam.offset = t.cam.offset /\ u.cam.gain = v
<1> DEFINE u == WithGain(t, v)
           c == [t.cam EXCEPT !.gain = v]
<1>1. /\ {"body", "cam", "mode", "dev", "faults"} \subseteq DOMAIN u
      /\ u.body = t.body /\ u.mode = t.mode /\ u.dev = t.dev /\ u.faults = t.faults /\ u.cam = c
  BY DEF Typed, WithGain
<1>2. /\ c \in Cams(t.body) /\ c.bin = t.cam.bin /\ c.hwBin = t.cam.hwBin /\ c.roi = t.cam.roi
      /\ c.programmed = t.cam.programmed /\ c.offset = t.cam.offset /\ c.gain = v
  <2>1. t.cam \in Cams(t.body)
    BY DEF Typed
  <2> QED
    BY <2>1 DEF Cams
<1> HIDE DEF u, c
<1>3. Typed(u)
  BY <1>1, <1>2 DEF Typed
<1> QED
  BY <1>1, <1>2, <1>3 DEF u

(* And with another offset. *)
LEMMA OffsetCopied ==
  ASSUME NEW t, Typed(t), NEW v \in Offsets \union {0}
  PROVE  LET u == WithOffset(t, v)
         IN  /\ Typed(u) /\ u.body = t.body /\ u.mode = t.mode /\ u.dev = t.dev /\ u.faults = t.faults
             /\ u.cam.bin = t.cam.bin /\ u.cam.hwBin = t.cam.hwBin /\ u.cam.roi = t.cam.roi
             /\ u.cam.programmed = t.cam.programmed /\ u.cam.gain = t.cam.gain /\ u.cam.offset = v
<1> DEFINE u == WithOffset(t, v)
           c == [t.cam EXCEPT !.offset = v]
<1>1. /\ {"body", "cam", "mode", "dev", "faults"} \subseteq DOMAIN u
      /\ u.body = t.body /\ u.mode = t.mode /\ u.dev = t.dev /\ u.faults = t.faults /\ u.cam = c
  BY DEF Typed, WithOffset
<1>2. /\ c \in Cams(t.body) /\ c.bin = t.cam.bin /\ c.hwBin = t.cam.hwBin /\ c.roi = t.cam.roi
      /\ c.programmed = t.cam.programmed /\ c.gain = t.cam.gain /\ c.offset = v
  <2>1. t.cam \in Cams(t.body)
    BY DEF Typed
  <2> QED
    BY <2>1 DEF Cams
<1> HIDE DEF u, c
<1>3. Typed(u)
  BY <1>1, <1>2 DEF Typed
<1> QED
  BY <1>1, <1>2, <1>3 DEF u

(* SetGain writes the code, then keeps the gain. *)
LEMMA GainEnds ==
  ASSUME NEW s, Typed(s), NEW gain \in Gains \union {0}
  PROVE  \A o \in SetGain(s, gain) : GainSet(s, gain, o)
<1> DEFINE w == [gain |-> GainCode(s.body, s.mode, gain)]
           keep(t) == Done(WithGain(t, gain))
<1>1. SetGain(s, gain) = Then(Transfer(s, <<w>>), keep)
  BY DEF SetGain, ProfileSetGain, Then, WithGain
<1>2. DOMAIN w = {"gain"} /\ w["gain"] = GainCode(s.body, s.mode, gain) /\ Named \subseteq Groups
  BY DEF Named, Groups
<1> HIDE DEF w
<1>3. \A o \in Transfer(s, <<w>>) : WroteOne(s, w, o)
  BY OneWrite
<1>4. ASSUME NEW o, WroteOne(s, w, o), ~ o.ok PROVE GainSet(s, gain, o)
  BY <1>2, <1>4 DEF WroteOne, GainSet
<1>5. ASSUME NEW o, WroteOne(s, w, o), o.ok, NEW p \in keep(o.s) PROVE GainSet(s, gain, p)
  <2> DEFINE u == WithGain(o.s, gain)
  <2>1. p = [s |-> u, ok |-> TRUE]
    BY <1>5 DEF Done
  <2>2. Typed(o.s)
    BY <1>5 DEF WroteOne
  <2>3. /\ Typed(u) /\ u.body = o.s.body /\ u.mode = o.s.mode /\ u.dev = o.s.dev /\ u.faults = o.s.faults
        /\ u.cam.bin = o.s.cam.bin /\ u.cam.hwBin = o.s.cam.hwBin /\ u.cam.roi = o.s.cam.roi
        /\ u.cam.programmed = o.s.cam.programmed /\ u.cam.offset = o.s.cam.offset /\ u.cam.gain = gain
    BY <2>2, GainCopied
  <2> HIDE DEF u
  <2>4. p.s = u /\ p.ok = TRUE
    BY <2>1
  <2>5. \A g \in Named \ {"gain"} : o.s.dev[g] = s.dev[g]
    BY <1>2, <1>5 DEF WroteOne
  <2>6. o.s.dev["gain"] = GainCode(s.body, s.mode, gain)
    BY <1>2, <1>5 DEF WroteOne, Groups
  <2> QED
    BY <1>5, <2>3, <2>4, <2>5, <2>6 DEF WroteOne, GainSet
<1> HIDE DEF keep
<1> QED
  BY <1>1, <1>3, <1>4, <1>5 DEF Then

(* So does SetOffset. *)
LEMMA OffsetSets ==
  ASSUME NEW s, Typed(s), NEW offset \in Offsets \union {0}
  PROVE  \A o \in SetOffset(s, offset) : OffsetSet(s, offset, o)
<1> DEFINE keep(t) == Done(WithOffset(t, offset))
<1>1. SetOffset(s, offset) = Then(ProfileSetOffset(s, offset), keep)
  BY DEF SetOffset, Then, WithOffset
<1>3. \A o \in ProfileSetOffset(s, offset) : OffsetDone(s, offset, o)
  BY OffsetEnds
<1>4. ASSUME NEW o, OffsetDone(s, offset, o), ~ o.ok PROVE OffsetSet(s, offset, o)
  BY <1>4 DEF OffsetDone, OffsetSet
<1>5. ASSUME NEW o, OffsetDone(s, offset, o), o.ok, NEW p \in keep(o.s) PROVE OffsetSet(s, offset, p)
  <2> DEFINE u == WithOffset(o.s, offset)
  <2>1. p = [s |-> u, ok |-> TRUE]
    BY <1>5 DEF Done
  <2>2. Typed(o.s)
    BY <1>5 DEF OffsetDone
  <2>3. /\ Typed(u) /\ u.body = o.s.body /\ u.mode = o.s.mode /\ u.dev = o.s.dev /\ u.faults = o.s.faults
        /\ u.cam.bin = o.s.cam.bin /\ u.cam.hwBin = o.s.cam.hwBin /\ u.cam.roi = o.s.cam.roi
        /\ u.cam.programmed = o.s.cam.programmed /\ u.cam.gain = o.s.cam.gain /\ u.cam.offset = offset
    BY <2>2, OffsetCopied
  <2> HIDE DEF u
  <2> QED
    BY <1>5, <2>1, <2>3 DEF OffsetDone, OffsetSet
<1> HIDE DEF keep
<1> QED
  BY <1>1, <1>3, <1>4, <1>5 DEF Then

(* A state with the geometry, the mode and the frame of one that is sound and fits. *)
LEMMA SameCut ==
  ASSUME NEW s, Sound(s), Fitting(s), NEW t, Typed(t), t.body = s.body, t.mode = s.mode,
         t.cam.bin = s.cam.bin, t.cam.hwBin = s.cam.hwBin, t.cam.roi = s.cam.roi,
         t.cam.programmed = s.cam.programmed, t.faults >= s.faults,
         t.dev.size = s.dev.size
  PROVE  Sound(t) /\ Fitting(t)
<1>1. s.faults \in Nat /\ t.faults \in Nat
  BY ReadoutAssumption DEF Sound, Stands, Typed
<1>2. Sound(t)
  BY DEF Sound, Stands, Accepts, HasModes
<1> QED
  BY <1>1, <1>2 DEF Fitting, Framed, At, Sized, FrameBytes

(* Gain and offset stay right. *)
LEMMA ValuesStay ==
  ASSUME NEW s, Kind(s)
  PROVE  /\ \A gain \in Gains : \A o \in SetGain(s, gain) : Stays(s, o)
         /\ \A offset \in Offsets : \A o \in SetOffset(s, offset) : Stays(s, o)
<1>1. Typed(s) /\ s.faults \in Nat
  BY ReadoutAssumption DEF Kind, Sound, Stands, Typed
<1>2. ASSUME NEW gain \in Gains, NEW o \in SetGain(s, gain) PROVE Stays(s, o)
  <2>1. GainSet(s, gain, o)
    BY <1>1, <1>2, GainEnds
  <2>2. \A g \in {"size", "sensor", "offset", "hdrOffset"} : o.s.dev[g] = s.dev[g]
    BY <2>1 DEF GainSet, Named
  <2>3. Sound(o.s) /\ Fitting(o.s)
    BY <1>1, <2>1, <2>2, SameCut DEF GainSet, Kind
  <2>4. Following(o.s)
    BY <1>1, <2>1, <2>2 DEF GainSet, Kind, Following, Gained, Coded, Started
  <2> QED
    BY <2>1, <2>3, <2>4 DEF GainSet, Stays, Kind
<1>3. ASSUME NEW offset \in Offsets, NEW o \in SetOffset(s, offset) PROVE Stays(s, o)
  <2>1. OffsetSet(s, offset, o)
    BY <1>1, <1>3, OffsetSets
  <2>2. Sound(o.s) /\ Fitting(o.s)
    BY <1>1, <2>1, SameCut DEF OffsetSet, Kind
  <2>3. Following(o.s)
    BY <1>1, <2>1 DEF OffsetSet, Kind, Following, Gained, Coded, Started
  <2> QED
    BY <2>1, <2>2, <2>3 DEF OffsetSet, Stays, Kind
<1> QED
  BY <1>2, <1>3

(* An offset re-applied, too. *)
LEMMA OffsetStays ==
  ASSUME NEW s, Kind(s)
  PROVE  \A o \in ProfileSetOffset(s, s.cam.offset) : Stays(s, o)
<1> SUFFICES ASSUME NEW o \in ProfileSetOffset(s, s.cam.offset) PROVE Stays(s, o)
  OBVIOUS
<1>1. Typed(s) /\ s.faults \in Nat
  BY ReadoutAssumption DEF Kind, Sound, Stands, Typed
<1>2. OffsetDone(s, s.cam.offset, o)
  BY <1>1, OffsetEnds
<1>3. Sound(o.s) /\ Fitting(o.s)
  BY <1>1, <1>2, SameCut DEF OffsetDone, Kind
<1>4. Following(o.s)
  BY <1>1, <1>2 DEF OffsetDone, Kind, Following, Gained, Coded, Started
<1> QED
  BY <1>2, <1>3, <1>4 DEF OffsetDone, Stays, Kind

-----------------------------------------------------------------------------
(* Depth. *)

(* The state t is s at another depth, its sensor block written or not. *)
Deep(s, bpp, t) ==
  /\ Typed(t) /\ t.body = s.body /\ t.cam = s.cam /\ t.mode = [s.mode EXCEPT !.bpp = bpp]
  /\ t.faults >= s.faults /\ \A g \in Named : t.dev[g] = s.dev[g]

(* A depth: the device and the view at it, or both as they were. *)
LEMMA DepthLeaves ==
  ASSUME ShippedBodies, NEW s, Kind(s), NEW bpp \in 1 .. 2
  PROVE  \A o \in SetOutputDepth(s, bpp) : Left(s, o)
<1> DEFINE old(t) == WithDepth(t, s.mode.bpp)
           width(t) == SetFPGAOutputWidth(old(t), s.mode.bpp >= 2)
           block(t) == IF HasModes(t) THEN ProfileSetSensorMode(t, t.mode.sensorMode) ELSE Done(t)
           restore(w) == RestoreWindow(w, s.cam)
           rollback(v) == Then(Ignore(width(v)), restore)
           first(t)  == OrElse(block(WithDepth(t, bpp)), LAMBDA u : Failed(width(u)))
           second(u) == OrElse(Reprogram(u), rollback)
           both(t)   == Then(first(t), second)
<1>0. SetOutputDepth(s, bpp) = Then(SetFPGAOutputWidth(s, bpp >= 2), both)
  BY DEF SetOutputDepth, Then, OrElse, WithDepth
<1>1. /\ Typed(s) /\ Stands(s) /\ Sound(s) /\ s.faults \in Nat /\ s.mode \in Modes /\ s.mode.bpp \in 1 .. 2
      /\ s.cam \in Cams(s.body)
  BY ReadoutAssumption DEF Kind, Sound, Stands, Typed, Modes
<1>2. ASSUME NEW t, Quiet(s, t), NEW o, o.s = t, ~ o.ok PROVE Left(s, o)
  BY <1>2, QuietKind DEF Left, Quiet
<1>3. ASSUME NEW o \in SetFPGAOutputWidth(s, bpp >= 2)
      PROVE  Quiet(s, o.s) /\ (o.ok => o.s.faults = s.faults)
  BY <1>1, <1>3, QuietWrites
<1>4. ASSUME NEW t, Quiet(s, t), t.faults = s.faults, NEW u, u = WithDepth(t, bpp)
      PROVE  Deep(s, bpp, u) /\ u.faults = s.faults
  <2>1. Shifted(t, u) /\ u.mode = [t.mode EXCEPT !.bpp = bpp]
    <3>1. Typed(t)
      BY <1>4 DEF Quiet
    <3> QED BY <1>4, <3>1, Shifts
  <2> QED
    BY <1>1, <1>4, <2>1 DEF Shifted, Quiet, Deep
<1>5. ASSUME NEW u, Deep(s, bpp, u) PROVE \A o \in width(u) : Quiet(s, o.s)
  <2>1. Shifted(u, old(u)) /\ old(u).mode = [u.mode EXCEPT !.bpp = s.mode.bpp]
    <3>1. Typed(u) /\ s.mode.bpp \in 1 .. 2
      BY <1>1, <1>5 DEF Deep
    <3> HIDE DEF width
    <3> QED BY <3>1, Shifts, Zenon
  <2> HIDE DEF old
  <2>2. old(u).mode = s.mode
    BY <1>1, <1>5, <2>1 DEF Deep, Modes
  <2>3. Quiet(s, old(u))
    BY <1>5, <2>1, <2>2 DEF Deep, Shifted, Quiet
  <2>4. \A o \in width(u) : Quiet(old(u), o.s)
    BY <2>3, QuietWrites DEF Quiet
  <2>5. \A t : Quiet(old(u), t) => Quiet(s, t)
    <3>1. old(u).faults \in Nat /\ \A t : Quiet(old(u), t) => t.faults \in Nat
      BY <2>3, ReadoutAssumption DEF Quiet, Typed
    <3> QED
      BY <1>1, <2>3, <3>1 DEF Quiet
  <2> QED
    BY <2>4, <2>5
<1>6. ASSUME NEW t, Deep(s, bpp, t), t.faults = s.faults, NEW o \in block(t)
      PROVE  /\ Deep(s, bpp, o.s)
             /\ o.ok => o.s.faults = s.faults /\ HasBlock(s.mode.sensorMode, bpp)
  <2>1. t.mode.sensorMode = s.mode.sensorMode /\ t.mode.bpp = bpp /\ HasModes(t) = HasModes(s)
    BY <1>1, <1>6 DEF Deep, Modes, HasModes
  <2>2. CASE HasModes(s)
    <3>1. o \in ProfileSetSensorMode(t, t.mode.sensorMode)
      BY <1>6, <2>1, <2>2
    <3>2. Quiet(t, o.s) /\ (o.ok => o.s.faults = t.faults /\ HasBlock(t.mode.sensorMode, t.mode.bpp))
      BY <1>6, <3>1, QuietWrites DEF Deep
    <3>3. t.faults \in Nat /\ o.s.faults \in Nat
      BY <1>6, <3>2, ReadoutAssumption DEF Deep, Quiet, Typed
    <3> QED
      BY <1>1, <1>6, <2>1, <3>2, <3>3 DEF Deep, Quiet
  <2>3. CASE ~ HasModes(s)
    <3>1. o = [s |-> t, ok |-> TRUE]
      BY <1>6, <2>1, <2>3 DEF Done
    <3>2. s.mode.sensorMode = Normal
      BY <1>1, <2>3 DEF Stands
    <3> QED
      BY <1>6, <3>1, <3>2 DEF HasBlock, Normal, HDR
  <2> QED
    BY <2>2, <2>3
<1>7. ASSUME NEW u, Deep(s, bpp, u), u.faults = s.faults, HasBlock(s.mode.sensorMode, bpp)
      PROVE  /\ Sound(u) /\ (u.faults = 0 => Gained(u))
             /\ ~ s.cam.programmed => Kind(u)
  <2>1. /\ u.mode.sensorMode = s.mode.sensorMode /\ u.mode.bpp = bpp
        /\ u.dev.gain = s.dev.gain
    BY <1>1, <1>7 DEF Deep, Modes, Named
  <2>2. Sound(u)
    BY <1>1, <1>7, <2>1 DEF Deep, Sound, Stands, Accepts, HasModes
  <2>3. u.faults = 0 => Gained(u)
    BY <1>7, <2>1 DEF Deep, Kind, Following, Gained, GainCode
  <2> QED
    BY <1>7, <2>2, <2>3 DEF Deep, Kind, Fitting, Following
<1>8. ASSUME NEW v, Typed(v), v.body = s.body, v.cam.gain = s.cam.gain, v.cam.offset = s.cam.offset,
             v.faults = s.faults + 1, s.cam.programmed,
             v.mode.sensorMode = s.mode.sensorMode, v.mode.highSpeed = s.mode.highSpeed, v.mode.binSum = s.mode.binSum
      PROVE  \A o \in rollback(v) : Left(s, o)
  <2>1. Shifted(v, old(v)) /\ old(v).mode = [v.mode EXCEPT !.bpp = s.mode.bpp]
    <3>1. Typed(v) /\ s.mode.bpp \in 1 .. 2
      BY <1>1, <1>8
    <3> HIDE DEF rollback, width
    <3> QED BY <3>1, Shifts, Zenon
  <2> HIDE DEF old
  <2>2. Alike(s, old(v))
    BY <1>8, <2>1 DEF Alike, Typed, Modes
  <2>3. \A o \in width(v) : Quiet(old(v), o.s)
    BY <2>1, QuietWrites DEF Shifted
  <2>4. \A w : Quiet(old(v), w) => Strayed(s, w)
    <3> SUFFICES ASSUME NEW w, Quiet(old(v), w) PROVE Strayed(s, w)
      OBVIOUS
    <3>1. w.faults \in Nat /\ w.faults > s.faults
      BY <1>1, <1>8, <2>1, ReadoutAssumption DEF Quiet, Typed, Shifted
    <3> QED
      BY <1>1, <1>8, <2>1, <2>2, <3>1 DEF Quiet, Shifted, Strayed, Alike
  <2>5. \A w : Quiet(old(v), w) => \A o \in restore(w) : Left(s, o)
    BY <2>4, Restores
  <2> HIDE DEF width, restore
  <2> QED
    BY <2>3, <2>5 DEF Then, Ignore
<1>9. ASSUME NEW u, Deep(s, bpp, u), u.faults = s.faults, HasBlock(s.mode.sensorMode, bpp), NEW o \in second(u)
      PROVE  Left(s, o)
  <2>1. Sound(u) /\ (u.faults = 0 => Gained(u)) /\ (~ s.cam.programmed => Kind(u))
    BY <1>7, <1>9
  <2>2. \A p \in Reprogram(u) : Reset(u, p)
    BY <2>1, Reprograms
  <2>3. u.cam = s.cam /\ u.body = s.body
    BY <1>9 DEF Deep
  <2>4. ASSUME NEW p \in Reprogram(u), p.ok PROVE Left(s, p)
    <3>1. Kind(p.s) /\ p.s.body = s.body
      BY <2>1, <2>2, <2>3, <2>4, SetEnds DEF Reset, Set, Sound
    <3> QED
      BY <2>4, <3>1 DEF Left
  <2>5. ASSUME NEW p \in Reprogram(u), ~ p.ok PROVE \A q \in rollback(p.s) : Left(s, q)
    <3>1. s.cam.programmed /\ Set(u, u.cam.roi, p)
      BY <2>2, <2>3, <2>5 DEF Reset
    <3>2. /\ p.s.cam.gain = u.cam.gain /\ p.s.cam.offset = u.cam.offset /\ Alike(u, p.s)
          /\ p.s.faults = u.faults + 1
      BY <2>1, <2>5, <3>1, SetEnds DEF Sound
    <3>3. /\ p.s.mode.sensorMode = s.mode.sensorMode /\ p.s.mode.highSpeed = s.mode.highSpeed
          /\ p.s.mode.binSum = s.mode.binSum
      BY <1>1, <1>9, <3>2 DEF Deep, Alike, Modes
    <3>4. Typed(p.s) /\ p.s.body = s.body
      BY <2>3, <3>1 DEF Set
    <3> HIDE DEF rollback
    <3> QED
      BY <1>8, <1>9, <2>3, <3>1, <3>2, <3>3, <3>4
  <2> HIDE DEF rollback
  <2> QED
    BY <1>9, <2>4, <2>5 DEF OrElse
<1>10. ASSUME NEW t, Quiet(s, t), t.faults = s.faults, NEW o \in first(t)
       PROVE  IF o.ok THEN Deep(s, bpp, o.s) /\ o.s.faults = s.faults /\ HasBlock(s.mode.sensorMode, bpp)
              ELSE Quiet(s, o.s)
  <2> DEFINE u == WithDepth(t, bpp)
  <2>1. Deep(s, bpp, u) /\ u.faults = s.faults
    BY <1>4, <1>10
  <2> HIDE DEF u, width, block
  <2>2. \A p \in block(u) : /\ Deep(s, bpp, p.s)
                            /\ p.ok => p.s.faults = s.faults /\ HasBlock(s.mode.sensorMode, bpp)
    BY <1>6, <2>1
  <2>3. o \in OrElse(block(u), LAMBDA v : Failed(width(v)))
    BY <1>10 DEF u, OrElse
  <2>4. \A p \in block(u) : \A q \in Failed(width(p.s)) : ~ q.ok /\ Quiet(s, q.s)
    <3> SUFFICES ASSUME NEW p \in block(u) PROVE \A q \in Failed(width(p.s)) : ~ q.ok /\ Quiet(s, q.s)
      OBVIOUS
    <3>1. \A q \in width(p.s) : Quiet(s, q.s)
      BY <1>5, <2>2
    <3> DEFINE outs == width(p.s)
    <3>2. \A q \in Failed(outs) : \E x \in outs : q = [s |-> x.s, ok |-> FALSE]
      BY DEF Failed
    <3>3. \A q \in Failed(outs) : ~ q.ok /\ Quiet(s, q.s)
      <4> HIDE DEF outs
      <4> TAKE q \in Failed(outs)
      <4>1. PICK x \in outs : q = [s |-> x.s, ok |-> FALSE]
        BY <3>2
      <4>2. Quiet(s, x.s)
        BY <3>1 DEF outs
      <4> QED
        BY <4>1, <4>2
    <3> QED
      BY <3>3
  <2> QED
    BY <2>2, <2>3, <2>4 DEF OrElse
<1> HIDE DEF first, second
<1>11. ASSUME NEW t, Quiet(s, t), t.faults = s.faults, NEW o \in both(t) PROVE Left(s, o)
  BY <1>2, <1>9, <1>10, <1>11 DEF Then
<1> HIDE DEF both
<1> QED
  BY <1>0, <1>2, <1>3, <1>11 DEF Then

-----------------------------------------------------------------------------
(* Sensor mode and initialisation. *)

(* On the way to another sensor mode: where a failure leaves it, and what is done *)
(* but for the codes of gain and offset.                                          *)
Towards(s, m, t) ==
  /\ Typed(t) /\ t.body = s.body
  /\ t.cam.gain = s.cam.gain /\ t.cam.offset = s.cam.offset
  /\ t.mode.bpp = s.mode.bpp /\ t.mode.sensorMode = m
  /\ t.mode.highSpeed = s.mode.highSpeed /\ t.mode.binSum = s.mode.binSum
  /\ ~ s.cam.programmed => t.mode = [s.mode EXCEPT !.sensorMode = m]

Turned(s, m, t) ==
  /\ Towards(s, m, t) /\ t.faults >= s.faults
  /\ t.faults = s.faults => /\ t.mode = [s.mode EXCEPT !.sensorMode = m]
                            /\ t.dev.size = s.dev.size /\ t.dev.gain = s.dev.gain

Turning(s, m, t) ==
  /\ Towards(s, m, t) /\ t.faults = s.faults /\ Sound(t) /\ Fitting(t)
  /\ t.faults = 0 /\ t.cam.programmed => Coded(t) /\ Started(t)

(* A mode: the device and the view in it, or the view as it was. *)
LEMMA ModeLeaves ==
  ASSUME ShippedBodies, NEW s, Kind(s), NEW m \in {Normal, HDR}
  PROVE  \A o \in SetSensorMode(s, m) : Left(s, o)
<1> DEFINE start == WithMode(s, m)
           restore(t) == RestoreWindow(WithMode(t, s.mode.sensorMode), s.cam)
           one   == Then(ProfileSetSensorMode(start, m), Reprogram)
           gain(u) == SetGain(u, u.cam.gain)
           two   == Then(one, gain)
           offset(u) == SetOffset(u, u.cam.offset)
           three == Then(two, offset)
<1>0. SetSensorMode(s, m) = IF ~ HasModes(s) \/ m \notin 0 .. s.body.modes - 1 THEN Refuse(s)
                            ELSE IF m = s.mode.sensorMode THEN Done(s)
                            ELSE OrElse(three, restore)
  BY DEF SetSensorMode, OrElse, Then, WithMode
<1>1. /\ Typed(s) /\ Sound(s) /\ s.faults \in Nat /\ s.mode \in Modes /\ s.mode.sensorMode \in {Normal, HDR}
      /\ s.cam \in Cams(s.body)
  BY ReadoutAssumption DEF Kind, Sound, Stands, Typed, Modes
<1>2. Shifted(s, start) /\ start.mode = [s.mode EXCEPT !.sensorMode = m]
  BY <1>1, Shifts
<1> HIDE DEF start
<1>3. /\ start.mode.bpp = s.mode.bpp /\ start.mode.sensorMode = m
      /\ start.mode.highSpeed = s.mode.highSpeed /\ start.mode.binSum = s.mode.binSum
  BY <1>1, <1>2 DEF Modes
<1>4. ASSUME NEW t, Turned(s, m, t) PROVE \A o \in restore(t) : Left(s, o)
  <2> DEFINE v == WithMode(t, s.mode.sensorMode)
  <2>1. Shifted(t, v) /\ v.mode = [t.mode EXCEPT !.sensorMode = s.mode.sensorMode]
    <3> DEFINE b == s.mode.sensorMode
    <3>1. Typed(t) /\ b \in {Normal, HDR}
      BY <1>1, <1>4 DEF Turned, Towards
    <3> QED BY <3>1, Shifts
  <2> HIDE DEF v
  <2>2. t.mode \in Modes
    BY <1>4 DEF Turned, Towards, Typed
  <2>3. Alike(s, v)
    BY <1>4, <2>1, <2>2 DEF Alike, Turned, Towards, Modes
  <2>4. t.mode = [s.mode EXCEPT !.sensorMode = m] => v.mode = s.mode
    BY <1>1, <2>1 DEF Modes
  <2>5. Strayed(s, v)
    BY <1>4, <2>1, <2>3, <2>4 DEF Strayed, Turned, Towards, Shifted
  <2> QED
    BY <2>5, Restores DEF v
<1>5. ASSUME HasModes(s), NEW t, Quiet(start, t), t.faults = s.faults, HasBlock(m, s.mode.bpp)
      PROVE  Sound(t) /\ Towards(s, m, t) /\ t.cam = s.cam
  BY <1>1, <1>2, <1>3, <1>5 DEF Quiet, Shifted, Sound, Stands, Accepts, HasModes, Towards
<1>6. ASSUME HasModes(s), NEW o \in ProfileSetSensorMode(start, m)
      PROVE  IF o.ok THEN Quiet(start, o.s) /\ o.s.faults = s.faults /\ HasBlock(m, s.mode.bpp)
             ELSE Turned(s, m, o.s)
  <2>1. /\ Quiet(start, o.s)
        /\ IF o.ok THEN o.s.faults = start.faults /\ HasBlock(m, start.mode.bpp)
           ELSE (o.s = start /\ ~ HasBlock(m, start.mode.bpp)) \/ o.s.faults = start.faults + 1
    BY <1>2, <1>6, QuietWrites DEF Shifted
  <2>2. Turned(s, m, o.s)
    BY <1>1, <1>2, <1>3, <2>1 DEF Quiet, Shifted, Turned, Towards, Named
  <2> QED
    BY <1>2, <1>3, <2>1, <2>2 DEF Shifted
<1>7. ASSUME HasModes(s), NEW t, Quiet(start, t), t.faults = s.faults, HasBlock(m, s.mode.bpp), NEW o \in Reprogram(t)
      PROVE  IF o.ok THEN Turning(s, m, o.s) ELSE Turned(s, m, o.s)
  <2>1. Sound(t) /\ Towards(s, m, t) /\ t.cam = s.cam
    BY <1>5, <1>7
  <2>2. Reset(t, o)
    BY <1>7, <2>1, Reprograms
  <2>3. CASE ~ s.cam.programmed
    <3>1. o.s = t /\ o.ok
      BY <2>1, <2>2, <2>3 DEF Reset
    <3> QED
      BY <1>7, <2>1, <2>3, <3>1 DEF Turning, Fitting
  <2>4. CASE s.cam.programmed
    <3>1. Set(t, s.cam.roi, o)
      BY <2>1, <2>2, <2>4 DEF Reset
    <3>2. /\ o.s.cam.gain = t.cam.gain /\ o.s.cam.offset = t.cam.offset /\ Alike(t, o.s)
          /\ ~ o.ok => o.s.faults = t.faults + 1
      BY <2>1, <3>1, SetEnds DEF Sound
    <3>3. Towards(s, m, o.s)
      BY <2>1, <2>4, <3>1, <3>2 DEF Towards, Set, Alike
    <3>4. CASE o.ok
      BY <1>7, <3>1, <3>3, <3>4 DEF Set, Broken, Turning
    <3>5. CASE ~ o.ok
      BY <1>1, <1>7, <3>2, <3>3, <3>5 DEF Turned
    <3> QED
      BY <3>4, <3>5
  <2> QED
    BY <2>3, <2>4
<1>8. ASSUME NEW u, Turning(s, m, u), NEW o \in gain(u)
      PROVE  IF o.ok THEN Turning(s, m, o.s) /\ Gained(o.s) ELSE Turned(s, m, o.s)
  <2>1. Typed(u) /\ u.cam.gain \in Gains \union {0} /\ u.faults = s.faults /\ Sound(u) /\ Fitting(u)
    BY <1>8 DEF Turning, Towards, Typed, Cams
  <2>2. GainSet(u, u.cam.gain, o)
    BY <1>8, <2>1, GainEnds
  <2>3. \A g \in {"size", "sensor", "offset", "hdrOffset"} : o.s.dev[g] = u.dev[g]
    BY <2>2 DEF GainSet, Named
  <2>4. Towards(s, m, o.s)
    BY <1>8, <2>2 DEF Turning, Towards, GainSet
  <2>5. CASE ~ o.ok
    BY <1>1, <2>1, <2>2, <2>4, <2>5 DEF GainSet, Turned
  <2>6. CASE o.ok
    <3>1. Sound(o.s) /\ Fitting(o.s)
      BY <1>1, <2>1, <2>2, <2>3, <2>6, SameCut DEF GainSet
    <3>2. Gained(o.s)
      BY <2>2, <2>6 DEF GainSet, Gained
    <3>3. o.s.faults = 0 /\ o.s.cam.programmed => Coded(o.s) /\ Started(o.s)
      BY <1>8, <2>2, <2>3, <2>6 DEF Turning, GainSet, Coded, Started
    <3> QED
      BY <2>1, <2>2, <2>4, <2>6, <3>1, <3>2, <3>3 DEF Turning, GainSet
  <2> QED
    BY <2>5, <2>6
<1>9. ASSUME NEW u, Turning(s, m, u), Gained(u), NEW o \in offset(u)
      PROVE  IF o.ok THEN Left(s, o) ELSE Turned(s, m, o.s)
  <2>1. Typed(u) /\ u.cam.offset \in Offsets \union {0} /\ u.faults = s.faults /\ Sound(u) /\ Fitting(u)
        /\ u.body = s.body
    BY <1>9 DEF Turning, Towards, Typed, Cams
  <2>2. OffsetSet(u, u.cam.offset, o)
    BY <1>9, <2>1, OffsetSets
  <2>3. Towards(s, m, o.s)
    BY <1>9, <2>2 DEF Turning, Towards, OffsetSet
  <2>4. CASE ~ o.ok
    BY <1>1, <2>1, <2>2, <2>3, <2>4 DEF OffsetSet, Turned
  <2>5. CASE o.ok
    <3>1. Sound(o.s) /\ Fitting(o.s)
      BY <1>1, <2>1, <2>2, <2>5, SameCut DEF OffsetSet
    <3>2. Gained(o.s)
      BY <1>9, <2>2, <2>5 DEF OffsetSet, Gained
    <3>3. o.s.faults = 0 /\ o.s.cam.programmed => Coded(o.s) /\ Started(o.s)
      BY <1>9, <2>2, <2>5 DEF Turning, OffsetSet, Coded, Started
    <3> QED
      BY <2>1, <2>2, <2>5, <3>1, <3>2, <3>3 DEF OffsetSet, Left, Kind, Following
  <2> QED
    BY <2>4, <2>5
<1>10. ASSUME HasModes(s) PROVE \A o \in OrElse(three, restore) : Left(s, o)
  <2>1. \A o \in one : IF o.ok THEN Turning(s, m, o.s) ELSE Turned(s, m, o.s)
    BY <1>6, <1>7, <1>10 DEF Then
  <2> HIDE DEF one, gain
  <2>2. \A o \in two : IF o.ok THEN Turning(s, m, o.s) /\ Gained(o.s) ELSE Turned(s, m, o.s)
    BY <1>8, <2>1 DEF Then
  <2> HIDE DEF two, offset
  <2>3. \A o \in three : IF o.ok THEN Left(s, o) ELSE Turned(s, m, o.s)
    BY <1>9, <2>2 DEF Then
  <2> HIDE DEF three, restore
  <2> QED
    BY <1>4, <2>3 DEF OrElse
<1>11. \A o \in Done(s) \union Refuse(s) : Left(s, o)
  BY DEF Done, Refuse, Left
<1> HIDE DEF three, restore
<1> QED
  BY <1>0, <1>10, <1>11

(* Init: the table, the FPGA, the stored window and the stored offset. *)
LEMMA InitStays ==
  ASSUME ShippedBodies, NEW s, Kind(s)
  PROVE  \A o \in InitCamera(s) : Stays(s, o)
<1> DEFINE table == [gain |-> <<0, Normal>>, block |-> Unset, offset |-> Unset]
           fpga(t) == IF t.body.vid = "POA" THEN ProfileSetSensorMode(t, t.mode.sensorMode)
                      ELSE Transfer(t, <<[reg0a |-> 1 + IF t.mode.bpp >= 2 THEN 16 ELSE 0]>>)
           one   == Then(Transfer(s, <<table>>), fpga)
           window(t) == SetROI(t, t.cam.roi)
           two   == Then(one, window)
           offset(t) == ProfileSetOffset(t, t.cam.offset)
           three == Then(two, offset)
           Tabled(t) == /\ Typed(t) /\ t.body = s.body /\ t.cam = s.cam /\ t.mode = s.mode
                        /\ t.faults = s.faults /\ t.dev.size = s.dev.size /\ t.dev.gain = <<0, Normal>>
<1>0. InitCamera(s) = three
  BY DEF InitCamera, Then
<1>1. Typed(s) /\ Sound(s) /\ s.faults \in Nat
  BY ReadoutAssumption DEF Kind, Sound, Stands, Typed
<1>2. ASSUME NEW t, Typed(t), t.body = s.body, t.cam = s.cam, t.mode = s.mode,
             t.dev.size \in {s.dev.size, Torn}, t.faults = s.faults + 1
      PROVE  Kind(t)
  BY <1>1, <1>2, Nearby
<1>3. ASSUME NEW o \in Transfer(s, <<table>>) PROVE IF o.ok THEN Tabled(o.s) ELSE Stays(s, o)
  <2>1. DOMAIN table = {"gain", "block", "offset"} /\ table["gain"] = <<0, Normal>>
    OBVIOUS
  <2> HIDE DEF table
  <2>2. WroteOne(s, table, o)
    BY <1>1, <1>3, OneWrite
  <2>3. o.s.dev["size"] = s.dev["size"] /\ (o.ok => o.s.dev["gain"] = <<0, Normal>>)
    BY <2>1, <2>2 DEF WroteOne, Groups
  <2> QED
    BY <1>2, <2>2, <2>3 DEF WroteOne, Stays
<1>4. ASSUME NEW t, Tabled(t), NEW o \in fpga(t) PROVE IF o.ok THEN Tabled(o.s) ELSE Stays(s, o)
  <2>1. CASE t.body.vid = "POA"
    <3>1. o \in ProfileSetSensorMode(t, t.mode.sensorMode)
      BY <1>4, <2>1
    <3>2. HasBlock(t.mode.sensorMode, t.mode.bpp)
      BY <1>1, <1>4 DEF Sound, Stands
    <3>3. Quiet(t, o.s) /\ (IF o.ok THEN o.s.faults = t.faults ELSE o.s.faults = t.faults + 1)
      BY <1>4, <3>1, <3>2, QuietWrites
    <3>4. o.s.dev.size = t.dev.size /\ o.s.dev.gain = t.dev.gain
      BY <3>3 DEF Quiet, Named
    <3> QED
      BY <1>2, <1>4, <3>3, <3>4 DEF Quiet, Stays
  <2>2. CASE t.body.vid # "POA"
    <3> DEFINE w == [reg0a |-> 1 + IF t.mode.bpp >= 2 THEN 16 ELSE 0]
    <3>1. DOMAIN w = {"reg0a"} /\ o \in Transfer(t, <<w>>)
      BY <1>4, <2>2
    <3> HIDE DEF w
    <3>2. WroteOne(t, w, o)
      BY <1>4, <3>1, OneWrite
    <3>3. o.s.dev["size"] = t.dev["size"] /\ o.s.dev["gain"] = t.dev["gain"]
      BY <3>1, <3>2 DEF WroteOne, Groups
    <3> QED
      BY <1>2, <1>4, <3>2, <3>3 DEF WroteOne, Stays
  <2> QED
    BY <2>1, <2>2
<1>5. ASSUME NEW t, Tabled(t), NEW o \in window(t) PROVE Stays(s, o)
  <2>1. Sound(t) /\ Gained(t)
    BY <1>1, <1>5 DEF Sound, Stands, Accepts, HasModes, Gained
  <2>2. t.cam.roi \in AnyWindow
    BY <1>5 DEF Typed, Cams, HeldWindow, AnyWindow
  <2>3. Set(t, t.cam.roi, o)
    BY <1>5, <2>1, <2>2, Sets DEF Sound
  <2>4. CASE Broken(t, o)
    <3>1. Kind(o.s)
      BY <1>2, <1>5, <2>3, <2>4 DEF Broken, Set
    <3> QED
      BY <1>5, <2>3, <3>1 DEF Set, Stays
  <2>5. CASE ~ Broken(t, o)
    BY <1>5, <2>1, <2>3, <2>5, SetEnds DEF Sound, Set, Stays
  <2> QED
    BY <2>4, <2>5
<1>6. \A t, o : Stays(s, [s |-> t, ok |-> TRUE]) /\ o \in offset(t) => Stays(s, o)
  BY OffsetStays DEF Stays
<1> HIDE DEF table, fpga, Tabled, window, offset
<1>7. \A o \in one : IF o.ok THEN Tabled(o.s) ELSE Stays(s, o)
  BY <1>3, <1>4 DEF Then
<1> HIDE DEF one
<1>8. \A o \in two : Stays(s, o)
  BY <1>5, <1>7 DEF Then
<1> HIDE DEF two
<1>9. \A o \in three : Stays(s, o)
  BY <1>6, <1>8 DEF Then, Stays
<1> QED
  BY <1>0, <1>9

-----------------------------------------------------------------------------
(* The invariant and its theorems. *)

(* The inductive invariant: the camera is of this kind between calls. *)
KindInv == Kind(S0)

(* A fresh camera is. *)
LEMMA KindAtOpen ==
  ASSUME ShippedBodies
  PROVE  Init => KindInv
<1> SUFFICES ASSUME Init PROVE KindInv
  OBVIOUS
<1> DEFINE r == [x |-> 0, y |-> 0, w |-> body.width, h |-> body.height]
           s == S0
           split == BinSplit(body, 1, FALSE)
<1>1. /\ {"body", "cam", "mode", "dev", "faults"} \subseteq DOMAIN s
      /\ s.body = body /\ s.cam = cam /\ s.mode = mode /\ s.dev = dev /\ s.faults = 0
  BY DEF S0, Init
<1>2. /\ body \in Bodies /\ body.width \in Nat /\ body.height \in Nat /\ body.stepW \in Nat /\ body.stepH \in Nat
      /\ 1 \in body.bins
      /\ body.width % body.stepW = 0 /\ body.height % body.stepH = 0 /\ body.width >= 32 /\ body.height >= 8
      /\ body.vid \in {"ZWO", "POA"} /\ MaxFaults \in Nat
  BY ReadoutAssumption DEF Init, ShippedBodies
<1>3. cam \in Cams(body) /\ cam.bin = 1 /\ cam.hwBin = FALSE /\ cam.roi = r /\ ~ cam.programmed
  BY <1>2 DEF Init, Cams, HeldWindow
<1>4. mode \in Modes /\ mode.sensorMode = Normal /\ mode.bpp = 2
  BY DEF Init, Modes, Normal, HDR
<1>5. Groups \subseteq DOMAIN dev /\ dev.gain = Unset
  BY DEF Init, Groups
<1> HIDE DEF s
<1>6. Stands(s)
  BY <1>1, <1>2, <1>3, <1>4, <1>5 DEF Stands, Typed, HasBlock, Normal, HDR
<1>7. LegalWindow(body, 1, FALSE, r)
  <2>1. split.hw = 1 /\ split.soft = 1
    <3>1. ASSUME NEW one \in Int, one = 1 PROVE one \div one = 1
      BY <3>1
    <3>2. split = [hw |-> 1, soft |-> 1]
      BY <3>1 DEF BinSplit
    <3> HIDE DEF split
    <3> QED
      BY <3>2
  <2>2. r.x = 0 /\ r.y = 0 /\ r.w = body.width /\ r.h = body.height
    OBVIOUS
  <2>3. /\ 0 + body.width <= body.width \div 1 /\ 0 + body.height <= body.height \div 1
        /\ (body.width * 1) % body.stepW = 0 /\ (body.height * 1) % body.stepH = 0
    BY <1>2
  <2>4. body.width >= 1 /\ body.height >= 1
    BY <1>2
  <2> HIDE DEF r, split
  <2>5. (IF split.hw > 1 THEN 1 ELSE 1) = 1
    OBVIOUS
  <2>6. ~ split.soft > 1
    BY <2>1
  <2> QED
    <3> SUFFICES /\ r.x >= 0 /\ r.y >= 0 /\ r.w >= 1 /\ r.h >= 1
                 /\ r.x + r.w <= body.width \div 1 /\ r.y + r.h <= body.height \div 1
                 /\ (r.w * (IF split.hw > 1 THEN 1 ELSE 1)) % body.stepW = 0
                 /\ (r.h * (IF split.hw > 1 THEN 1 ELSE 1)) % body.stepH = 0
                 /\ split.soft > 1 /\ body.color => (r.w * split.soft) % 2 = 0 /\ (r.h * split.soft) % 2 = 0
      BY DEF LegalWindow, split
    <3>1. r.x >= 0 /\ r.y >= 0 /\ r.w >= 1 /\ r.h >= 1
      BY <2>2, <2>4
    <3>2. r.x + r.w <= body.width \div 1 /\ r.y + r.h <= body.height \div 1
      BY <2>2, <2>3
    <3> QED
      BY <2>2, <2>3, <2>5, <2>6, <3>1, <3>2, Zenon
<1>8. Accepts(s, s.cam.roi)
  BY <1>1, <1>3, <1>7 DEF Accepts
<1>9. Fitting(s) /\ Following(s)
  BY <1>1, <1>3, <1>5 DEF Fitting, Following, Gained
<1> QED
  BY <1>6, <1>8, <1>9 DEF KindInv, Kind, Sound, s

(* Every call leaves it so. *)
LEMMA KindStays ==
  ASSUME ShippedBodies, Requests \subseteq AnyWindow
  PROVE  KindInv /\ [Next]_vars => KindInv'
<1> SUFFICES ASSUME KindInv, [Next]_vars PROVE KindInv'
  OBVIOUS
<1> DEFINE s == S0
           t == [body |-> body', cam |-> cam', mode |-> mode', dev |-> dev', faults |-> faults']
<1>1. Kind(s) /\ s.body = body /\ s.cam = cam /\ s.mode = mode /\ s.dev = dev /\ s.faults = faults
  BY DEF KindInv, S0
<1>2. Kind(t) => KindInv'
  BY DEF KindInv, S0
<1>3. /\ {"body", "cam", "mode", "dev", "faults"} \subseteq DOMAIN t
      /\ t.body = body' /\ t.cam = cam' /\ t.mode = mode' /\ t.dev = dev' /\ t.faults = faults'
  OBVIOUS
<1> HIDE DEF t
<1>4. ASSUME NEW u, Kind(u), t.body = u.body, t.cam = u.cam, t.mode = u.mode, t.dev = u.dev, t.faults = u.faults
      PROVE  KindInv'
  <2>1. Typed(u) /\ u.faults \in Nat
    BY <1>4, ReadoutAssumption DEF Kind, Sound, Stands, Typed
  <2>2. Typed(t)
    BY <1>3, <1>4, <2>1 DEF Typed
  <2>3. Kind(t)
    BY <1>4, <2>1, <2>2, Nearby
  <2> QED
    BY <1>2, <2>3
<1>5. ASSUME NEW outs, Return(outs), \A o \in outs : Stays(s, o) PROVE KindInv'
  <2>1. PICK o \in outs : cam' = o.s.cam /\ mode' = o.s.mode /\ dev' = o.s.dev /\ faults' = o.s.faults /\ body' = body
    BY <1>5 DEF Return
  <2>2. Kind(o.s) /\ o.s.body = s.body
    BY <1>5, <2>1 DEF Stays
  <2> HIDE DEF s
  <2> QED
    BY <1>1, <1>3, <1>4, <2>1, <2>2
<1>6. \A o : Left(s, o) => Stays(s, o)
  BY DEF Left, Stays
<1>7. body \in Bodies /\ cam.bin \in body.bins /\ cam.hwBin \in BOOLEAN
  BY <1>1 DEF Kind, Sound, Stands, Typed, Cams
<1>8. CASE Return(InitCamera(S0))
  BY <1>1, <1>5, <1>8, InitStays
<1>9. ASSUME NEW r \in Requests, Return(SetROI(S0, r)) PROVE KindInv'
  BY <1>1, <1>5, <1>9, ROIStays
<1>10. ASSUME NEW bin \in 1 .. 5, Return(SetBinning(S0, bin)) PROVE KindInv'
  <2>1. \A o \in SetBinning(S0, bin) : Stays(s, o)
    BY <1>1, <1>6, <1>7, ResplitEnds DEF SetBinning, Refuse, Stays
  <2> QED
    BY <1>5, <1>10, <2>1
<1>11. ASSUME NEW on \in BOOLEAN, Return(SetHardwareBin(S0, on)) PROVE KindInv'
  <2>1. \A o \in SetHardwareBin(S0, on) : Stays(s, o)
    BY <1>1, <1>6, <1>7, ResplitEnds DEF SetHardwareBin
  <2> QED
    BY <1>5, <1>11, <2>1
<1>12. ASSUME NEW bpp \in 1 .. 2, Return(SetOutputDepth(S0, bpp)) PROVE KindInv'
  BY <1>1, <1>5, <1>6, <1>12, DepthLeaves
<1>13. ASSUME NEW m \in {Normal, HDR}, Return(SetSensorMode(S0, m)) PROVE KindInv'
  BY <1>1, <1>5, <1>6, <1>13, ModeLeaves
<1>14. ASSUME NEW on \in BOOLEAN, Return(SetHighSpeedMode(S0, on)) PROVE KindInv'
  BY <1>1, <1>5, <1>14, HighSpeedStays
<1>15. ASSUME NEW on \in BOOLEAN, Return(SetBinSum(S0, on)) PROVE KindInv'
  BY <1>1, <1>5, <1>6, <1>15, BinSumEnds
<1>16. ASSUME NEW gain \in Gains, Return(SetGain(S0, gain)) PROVE KindInv'
  BY <1>1, <1>5, <1>16, ValuesStay
<1>17. ASSUME NEW offset \in Offsets, Return(SetOffset(S0, offset)) PROVE KindInv'
  BY <1>1, <1>5, <1>17, ValuesStay
<1>18. CASE UNCHANGED vars
  BY <1>1, <1>3, <1>4, <1>18 DEF vars
<1> QED
  BY <1>8, <1>9, <1>10, <1>11, <1>12, <1>13, <1>14, <1>15, <1>16, <1>17, <1>18 DEF Next

(* The window held is always one SetROI accepts, the start reported is exactly the *)
(* one programmed, and what ClampROI offers is accepted as it stands: for every    *)
(* shipped body, every request and any number of failing transfers.                *)
THEOREM WindowsHold ==
  ASSUME ShippedBodies, Requests \subseteq AnyWindow, Probes \subseteq AnyWindow
  PROVE  Spec => []WindowHolds
<1>1. KindInv => WindowHolds
  <2> SUFFICES ASSUME KindInv PROVE WindowHolds
    OBVIOUS
  <2> DEFINE s == S0
  <2>1. /\ Kind(s) /\ s.body = body /\ s.cam = cam /\ s.mode = mode /\ s.dev = dev /\ s.faults = faults
    BY DEF KindInv, S0
  <2> HIDE DEF s
  <2>2. body \in Bodies /\ cam \in Cams(body) /\ mode \in Modes /\ faults \in 0 .. MaxFaults
    BY <2>1 DEF Kind, Sound, Stands, Typed
  <2>3. TypeOK
    BY <2>2 DEF TypeOK, Cams, Modes, HeldWindow
  <2>4. WindowLegal
    BY <2>1 DEF Kind, Sound, Accepts, WindowLegal
  <2>5. StartAsReported
    BY <2>1 DEF Kind, Following, Started, StartAsReported
  <2>6. cam.bin \in body.bins /\ cam.bin \in 1 .. 4 /\ cam.hwBin \in BOOLEAN
    BY <2>2 DEF Cams, ShippedBodies
  <2>7. ClampAccepted
    <3>1. ASSUME NEW r \in Probes, HasRoom(body, cam.bin, cam.hwBin, ClampROI(body, cam.bin, cam.hwBin, r))
          PROVE  LET c == ClampROI(body, cam.bin, cam.hwBin, r)
                 IN  /\ LegalWindow(body, cam.bin, cam.hwBin, c)
                     /\ AlignedStart(body, cam.bin, cam.hwBin, c.x, c.y) = [x |-> c.x, y |-> c.y]
      BY <2>2, <2>6, <3>1, ClampLegal
    <3> QED
      BY <2>2, <2>6, <3>1 DEF ClampAccepted, ClampFits
  <2> QED
    BY <2>3, <2>4, <2>5, <2>7 DEF WindowHolds
<1> QED
  BY <1>1, KindAtOpen, KindStays, PTL DEF Spec

(* Gain and offset registers follow the mode and the bin while no transfer has     *)
(* failed.                                                                         *)
THEOREM CodesAgree ==
  ASSUME ShippedBodies, Requests \subseteq AnyWindow
  PROVE  Spec => []CodesFollow
<1>1. KindInv => CodesFollow
  BY DEF KindInv, Kind, Following, Gained, Coded, S0, CodesFollow, OffsetFollows, GainFollows
<1> QED
  BY <1>1, KindAtOpen, KindStays, PTL DEF Spec

(* The length a capture reads is the length the FPGA hands over, through any       *)
(* sequence of setters with at most one failing transfer.                          *)
THEOREM FramesAgree ==
  ASSUME ShippedBodies, Requests \subseteq AnyWindow
  PROVE  Spec => []FrameLengthAgrees
<1>1. KindInv => FrameLengthAgrees
  BY DEF KindInv, Kind, Fitting, Sized, S0, FrameLengthAgrees
<1> QED
  BY <1>1, KindAtOpen, KindStays, PTL DEF Spec

(* A mode setter that fails leaves the view it found, whichever of its transfers   *)
(* failed.                                                                         *)
THEOREM RollsBack ==
  ASSUME ShippedBodies, Requests \subseteq AnyWindow
  PROVE  Spec => []FailedCallKeepsView
<1>1. KindInv => FailedCallKeepsView
  <2> SUFFICES ASSUME KindInv PROVE FailedCallKeepsView
    OBVIOUS
  <2>1. Kind(S0) /\ S0.body = body /\ S0.cam = cam
    BY DEF KindInv, S0
  <2>2. ASSUME NEW outs, \A o \in outs : Left(S0, o) PROVE KeepsView(outs)
    <3> SUFFICES ASSUME NEW o \in outs PROVE o.ok \/ o.s.faults > 1 \/ View(o.s) = View(S0)
      BY DEF KeepsView
    <3>1. Left(S0, o)
      BY <2>2
    <3>2. o.s.faults \in Nat
      BY <3>1, ReadoutAssumption DEF Left, Kind, Sound, Stands, Typed
    <3> QED
      BY <3>1, <3>2 DEF Left, View
  <2>3. body \in Bodies /\ cam.bin \in body.bins /\ cam.hwBin \in BOOLEAN
    BY <2>1 DEF Kind, Sound, Stands, Typed, Cams
  <2>4. \A bin : \A o \in SetBinning(S0, bin) : Left(S0, o)
    BY <2>1, <2>3, ResplitEnds DEF SetBinning, Refuse, Left
  <2>5. \A on \in BOOLEAN : /\ \A o \in SetHardwareBin(S0, on) : Left(S0, o)
                            /\ \A o \in SetBinSum(S0, on) : Left(S0, o)
    BY <2>1, <2>3, ResplitEnds, BinSumEnds DEF SetHardwareBin
  <2> QED
    BY <2>1, <2>2, <2>4, <2>5, DepthLeaves, ModeLeaves DEF FailedCallKeepsView
<1> QED
  BY <1>1, KindAtOpen, KindStays, PTL DEF Spec

-----------------------------------------------------------------------------
(* Guide: two kinds of state, the lines and the mask, kept by threads whose  *)
(* steps fall between each other's. *)

CONSTANTS Guiders, DirsOf
VARIABLES lines, st4Lines, st4Pulses, at, call, dir

\* Guide, with any threads and directions.
G == INSTANCE Guide

\* Two threads never guide in one direction.
OwnDirections ==
  \A t, u \in Guiders : t # u => DirsOf[t] \cap DirsOf[u] = {}

\* The places of a thread in its call.
Steps == {"idle", "assert", "mark", "release", "clear", "uncount"}

\* The types of Guide's variables.
GuideTyped ==
  /\ at \in [Guiders -> Steps]
  /\ call \in [Guiders -> {"on", "off", "pulse"}]
  /\ dir \in [Guiders -> G!Directions] /\ \A t \in Guiders : dir[t] \in DirsOf[t]
  /\ lines \subseteq G!Directions

\* The mask differs from a line only between the transfer of the one thread that
\* guides in its direction and that thread's update.
Tracks(t, d) ==
  IF dir[t] = d /\ at[t] \in {"mark", "clear"}
    THEN d \in lines <=> at[t] = "mark"
    ELSE d \in lines <=> d \in st4Lines

\* Every direction anybody guides in is tracked.
MaskTracks == \A t \in Guiders : \A d \in DirsOf[t] : Tracks(t, d)

\* The threads inside PulseGuide.
Pulsing == {t \in Guiders : at[t] # "idle" /\ call[t] = "pulse"}

\* A pulse is counted from its call to its end, and nothing else is.
Counted ==
  /\ st4Pulses = Cardinality(Pulsing)
  /\ \A t \in Guiders : at[t] = "uncount" => call[t] = "pulse"

\* What is invariant of Guide.
LinesInv == GuideTyped /\ MaskTracks /\ Counted

-----------------------------------------------------------------------------
\* Guide counts with the same cardinality.
LEMMA SameCardinality == \A S : G!Cardinality(S) = Cardinality(S)
BY DEF G!Cardinality, Cardinality

\* A direction is one thread's, so another thread's step leaves it alone.
LEMMA OthersTrack ==
  ASSUME OwnDirections, LinesInv, NEW t \in Guiders, NEW l \in Steps, G!Goto(t, l),
         dir' \in [Guiders -> G!Directions], dir'[t] \in DirsOf[t],
         \A u \in Guiders : u # t => dir'[u] = dir[u],
         \A d \in G!Directions \ DirsOf[t] : (d \in lines' <=> d \in lines) /\ (d \in st4Lines' <=> d \in st4Lines),
         \A d \in DirsOf[t] : Tracks(t, d)'
  PROVE  MaskTracks'
<1> SUFFICES ASSUME NEW u \in Guiders, NEW d \in DirsOf[u], u # t
             PROVE  Tracks(u, d)'
  BY DEF MaskTracks
<1>1. d \in G!Directions \ DirsOf[t]
  BY DEF OwnDirections, G!Directions
<1>2. at'[u] = at[u] /\ dir'[u] = dir[u]
  BY DEF G!Goto, LinesInv, GuideTyped
<1>3. Tracks(u, d)
  BY DEF LinesInv, MaskTracks
<1> QED BY <1>1, <1>2, <1>3 DEF Tracks

\* A step within a call leaves the count's meaning alone.
LEMMA SameCount ==
  ASSUME LinesInv, NEW t \in Guiders, NEW l \in Steps, G!Goto(t, l), UNCHANGED <<call, st4Pulses>>,
         at[t] # "idle", l = "idle" => call[t] # "pulse", l = "uncount" => call[t] = "pulse"
  PROVE  Counted'
<1>1. Pulsing' = Pulsing
  BY DEF Pulsing, G!Goto, LinesInv, GuideTyped
<1> QED BY <1>1 DEF LinesInv, Counted, GuideTyped, G!Goto

\* Nothing is guided at first.
LEMMA InitLines == G!Init => LinesInv
<1> SUFFICES ASSUME G!Init PROVE LinesInv
  OBVIOUS
<1>1. Pulsing = {}
  BY DEF G!Init, Pulsing
<1>2. Counted
  BY <1>1, FS_EmptySet DEF G!Init, Counted
<1> QED BY <1>2 DEF G!Init, LinesInv, GuideTyped, MaskTracks, Tracks, Steps

\* Every step keeps the lines and the mask together.
LEMMA NextLines ==
  ASSUME IsFiniteSet(Guiders), OwnDirections, LinesInv, [G!Next]_(G!vars)
  PROVE  LinesInv'
<1>1. ASSUME NEW t \in Guiders, G!Call(t) PROVE LinesInv'
  <2>1. PICK c \in {"on", "off", "pulse"}, d \in DirsOf[t] :
          /\ call' = [call EXCEPT ![t] = c]
          /\ dir' = [dir EXCEPT ![t] = d]
          /\ st4Pulses' = IF c = "pulse" THEN st4Pulses + 1 ELSE st4Pulses
          /\ G!Goto(t, IF c = "off" THEN "release" ELSE "assert")
    BY <1>1 DEF G!Call
  <2>2. at[t] = "idle" /\ UNCHANGED <<lines, st4Lines>>
    BY <1>1 DEF G!Call
  <2>3. GuideTyped'
    BY <2>1, <2>2 DEF LinesInv, GuideTyped, G!Goto, Steps, G!Directions
  <2>4. MaskTracks'
    <3>1. \A e \in DirsOf[t] : Tracks(t, e)'
      BY <2>1, <2>2 DEF LinesInv, MaskTracks, Tracks, GuideTyped, G!Goto
    <3> QED BY <2>1, <2>2, <2>3, <3>1, OthersTrack DEF LinesInv, GuideTyped, Steps
  <2>5. Counted'
    <3>1. IsFiniteSet(Pulsing)
      BY FS_Subset DEF Pulsing
    <3>2. CASE c = "pulse"
      <4>1. Pulsing' = Pulsing \cup {t} /\ t \notin Pulsing
        BY <2>1, <2>2, <3>2 DEF Pulsing, LinesInv, GuideTyped, G!Goto
      <4>2. Cardinality(Pulsing') = Cardinality(Pulsing) + 1
        BY <3>1, <4>1, FS_AddElement
      <4> QED BY <2>1, <2>2, <3>2, <4>2 DEF LinesInv, Counted, GuideTyped, G!Goto
    <3>3. CASE c # "pulse"
      <4>1. Pulsing' = Pulsing
        BY <2>1, <2>2, <3>3 DEF Pulsing, LinesInv, GuideTyped, G!Goto
      <4> QED BY <2>1, <2>2, <3>3, <4>1 DEF LinesInv, Counted, GuideTyped, G!Goto
    <3> QED BY <3>2, <3>3
  <2> QED BY <2>3, <2>4, <2>5 DEF LinesInv
<1>2. ASSUME NEW t \in Guiders,
             G!Fails(t) \/ G!Assert(t) \/ G!Mark(t) \/ G!Release(t) \/ G!Clear(t)
      PROVE  LinesInv'
  <2>1. PICK l \in Steps :
          /\ G!Goto(t, l) /\ at[t] # "idle"
          /\ l = "idle" => call[t] # "pulse"
          /\ l = "uncount" => call[t] = "pulse"
    BY <1>2 DEF G!Fails, G!Assert, G!Mark, G!Release, G!Clear, Steps
  <2>2. UNCHANGED <<call, dir, st4Pulses>>
    BY <1>2 DEF G!Fails, G!Assert, G!Mark, G!Release, G!Clear
  <2>3. lines' \in {lines, lines \cup {dir[t]}, lines \ {dir[t]}}
    BY <1>2 DEF G!Fails, G!Assert, G!Mark, G!Release, G!Clear
  <2>4. st4Lines' \in {st4Lines, st4Lines \cup {dir[t]}, st4Lines \ {dir[t]}}
    BY <1>2 DEF G!Fails, G!Assert, G!Mark, G!Release, G!Clear
  <2>5. GuideTyped'
    BY <2>1, <2>2, <2>3 DEF LinesInv, GuideTyped, G!Goto
  <2>6. MaskTracks'
    <3> SUFFICES \A d \in DirsOf[t] : Tracks(t, d)'
      BY <2>1, <2>2, <2>3, <2>4, OthersTrack DEF LinesInv, GuideTyped
    <3>1. \A d \in DirsOf[t] : Tracks(t, d)
      BY DEF LinesInv, MaskTracks
    <3>2. at \in [Guiders -> Steps]
      BY DEF LinesInv, GuideTyped
    <3>3. CASE G!Fails(t)
      BY <3>1, <3>2, <3>3 DEF G!Fails, Tracks, G!Goto
    <3>4. CASE G!Assert(t)
      BY <3>1, <3>2, <3>4 DEF G!Assert, Tracks, G!Goto
    <3>5. CASE G!Mark(t)
      BY <3>1, <3>2, <3>5 DEF G!Mark, Tracks, G!Goto
    <3>6. CASE G!Release(t)
      BY <3>1, <3>2, <3>6 DEF G!Release, Tracks, G!Goto
    <3>7. CASE G!Clear(t)
      BY <3>1, <3>2, <3>7 DEF G!Clear, Tracks, G!Goto
    <3> QED BY <1>2, <3>3, <3>4, <3>5, <3>6, <3>7
  <2>7. Counted'
    BY <2>1, <2>2, SameCount
  <2> QED BY <2>5, <2>6, <2>7 DEF LinesInv
<1>3. ASSUME NEW t \in Guiders, G!Uncount(t) PROVE LinesInv'
  <2>1. at[t] = "uncount" /\ G!Goto(t, "idle") /\ UNCHANGED <<lines, st4Lines, call, dir>>
    BY <1>3 DEF G!Uncount
  <2>2. GuideTyped'
    BY <2>1 DEF LinesInv, GuideTyped, G!Goto, Steps
  <2>3. MaskTracks'
    <3>1. \A d \in DirsOf[t] : Tracks(t, d)'
      BY <2>1 DEF LinesInv, MaskTracks, Tracks, GuideTyped, G!Goto
    <3> QED BY <2>1, <2>2, <3>1, OthersTrack DEF LinesInv, GuideTyped, Steps
  <2>4. Counted'
    <3>1. Pulsing' = Pulsing \ {t} /\ t \in Pulsing
      BY <2>1 DEF Pulsing, LinesInv, GuideTyped, Counted, G!Goto
    <3>2. IsFiniteSet(Pulsing)
      BY FS_Subset DEF Pulsing
    <3>3. Cardinality(Pulsing') = Cardinality(Pulsing) - 1
      BY <3>1, <3>2, FS_RemoveElement
    <3> QED BY <1>3, <2>1, <3>3 DEF G!Uncount, LinesInv, Counted, GuideTyped, G!Goto
  <2> QED BY <2>2, <2>3, <2>4 DEF LinesInv
<1>4. CASE UNCHANGED G!vars
  BY <1>4 DEF G!vars, LinesInv, GuideTyped, MaskTracks, Tracks, Counted, Pulsing
<1> QED BY <1>1, <1>2, <1>3, <1>4 DEF G!Next

-----------------------------------------------------------------------------
\* Any number of threads, no two in one direction: IsPulseGuiding tells the state
\* of the lines, over overlapping pulses and failed transfers.
THEOREM GuidingReported ==
  ASSUME IsFiniteSet(Guiders), OwnDirections
  PROVE  G!Spec => []G!LinesReported
<1>1. LinesInv => G!LinesReported
  <2> SUFFICES ASSUME LinesInv PROVE G!LinesReported
    OBVIOUS
  <2>1. ASSUME NEW d \in G!Directions, G!Quiet(d) PROVE d \in lines <=> d \in st4Lines
    <3>1. PICK t \in Guiders : d \in DirsOf[t]
      BY DEF G!Directions
    <3> QED BY <2>1, <3>1 DEF LinesInv, MaskTracks, Tracks, G!Quiet
  <2>2. ASSUME lines # {}, ~G!IsPulseGuiding PROVE \E t \in Guiders : at[t] = "mark"
    <3>1. PICK d \in G!Directions : d \in lines
      BY <2>2 DEF LinesInv, GuideTyped
    <3>2. PICK t \in Guiders : d \in DirsOf[t]
      BY DEF G!Directions
    <3> QED BY <2>2, <3>1, <3>2 DEF LinesInv, MaskTracks, Tracks, G!IsPulseGuiding
  <2> QED BY <2>1, <2>2, SameCardinality DEF G!LinesReported, LinesInv, Counted, Pulsing
<1>2. LinesInv /\ [G!Next]_(G!vars) => LinesInv'
  BY NextLines
<1> QED BY <1>1, <1>2, InitLines, PTL DEF G!Spec

-----------------------------------------------------------------------------
(* Hotplug: the thread that sends and the one that ends the subscription. *)

CONSTANTS Hosts, Capacity, MaxEvents, CloseWakes, MayReuse, StopSticks
VARIABLES hhost, hcancelled, hqueue, hopen, hregistered, hsocket, hserve, hstop, hpublished,
          hstopped, hfreed, hpanicked, hforeign, hevents

\* Hotplug, on any of the three hosts.
H == INSTANCE Hotplug WITH
       host <- hhost, cancelled <- hcancelled, queue <- hqueue, open <- hopen, registered <- hregistered,
       socket <- hsocket, serve <- hserve, stop <- hstop, published <- hpublished, stopped <- hstopped,
       freed <- hfreed, panicked <- hpanicked, foreign <- hforeign, events <- hevents

\* Where the two threads of a subscription can be together: on Linux the reader
\* alone closes the channel, as it ends; elsewhere the goroutine that waits for
\* the context does, and only once the thread that sends has ended.
Apart ==
  IF hhost = "linux"
    THEN /\ hserve \in {"recv", "blocked", "send", "end"}
         /\ hstop \in {"wait", "end"}
         /\ hopen = IF hserve = "end" THEN FALSE ELSE TRUE
    ELSE /\ hhost \in {"darwin", "windows"}
         /\ hserve \in {"start", "run", "serving", "lookup", "post", "end"}
         /\ hstop \in {"wait", "join", "forget", "close", "end"}
         /\ hstop \in {"forget", "close", "end"} => hserve = "end"
         /\ hopen = IF hstop = "end" THEN FALSE ELSE TRUE

\* What brings the end: the socket the context closes, the stop the loop consumes,
\* the callback that is unregistered.
Ending ==
  /\ hsocket \in {"open", "closed", "reused"}
  /\ hhost = "linux" /\ hstop = "end" => hsocket # "open"
  /\ hhost = "darwin" => hserve = "start" \/ hpublished
  /\ hhost = "darwin" /\ hstop = "wait" => hserve # "end"
  /\ hstopped => hstop # "wait"
  /\ hhost = "windows" => /\ hserve \notin {"start", "run"} /\ hstop # "join"
                         /\ (hserve = "end" <=> hstop # "wait")
  /\ StopSticks => (hstop = "join" /\ hserve # "end" => hstopped)
  /\ ~MayReuse => hsocket # "reused" /\ hforeign = FALSE

\* The goroutine works for a context that is done, the port is freed after its loop.
Orderly ==
  /\ hstop \in {"wait", "join"} => hfreed = FALSE
  /\ hhost = "linux" => hfreed = FALSE
  /\ hstop # "wait" => hcancelled = TRUE
  /\ hpanicked = FALSE

\* What is invariant of a subscription.
PlugInv == Apart /\ Ending /\ Orderly

\* The two threads start apart.
LEMMA InitPlug ==
  ASSUME Hosts \subseteq {"linux", "darwin", "windows"}, H!Init
  PROVE  PlugInv
BY DEF H!Init, PlugInv, Apart, Ending, Orderly, H!Mapped

\* A step on a channel that is open harms nobody.
LEMMA OpenWhenUsed ==
  ASSUME PlugInv, H!Post \/ H!Close \/ H!Send \/ H!RecvError \/ H!Recv \/ H!Woken
  PROVE  hpanicked' = FALSE
<1>1. hopen = TRUE
  BY DEF PlugInv, Apart, H!Post, H!Close, H!Send, H!RecvError, H!Recv, H!Woken
<1>2. hpanicked' = (hpanicked \/ ~hopen) \/ hpanicked' = hpanicked
  BY DEF H!Post, H!Close, H!Send, H!RecvError, H!Recv, H!Woken, H!Deliver, H!Return, H!CloseChannel
<1>3. hpanicked = FALSE
  BY DEF PlugInv, Orderly
<1> QED BY <1>1, <1>2, <1>3

\* What is done to the channel leaves the context and the port alone.
LEMMA ChannelAlone ==
  ASSUME H!Post \/ H!Close \/ H!Send \/ H!RecvError \/ H!Recv \/ H!Woken
  PROVE  UNCHANGED <<hhost, hcancelled, hfreed>> /\ (hstop' = hstop \/ (hstop = "close" /\ hstop' = "end"))
<1>1. CASE H!Post \/ H!Send
  BY <1>1 DEF H!Post, H!Send, H!macVars
<1>2. CASE H!Close
  BY <1>2 DEF H!Close, H!macVars
<1>3. CASE H!RecvError \/ H!Recv \/ H!Woken
  BY <1>3 DEF H!RecvError, H!Recv, H!Woken, H!macVars
<1> QED BY <1>1, <1>2, <1>3

\* Every step keeps the threads apart.
LEMMA NextApart ==
  ASSUME PlugInv, [H!Next]_(H!vars)
  PROVE  Apart'
<1> USE DEF PlugInv, Apart
<1>1. CASE H!Cancel \/ H!Consume \/ H!Reuse \/ H!Uevent \/ H!Notify \/ UNCHANGED H!vars
  BY <1>1 DEF H!Cancel, H!Consume, H!Reuse, H!Uevent, H!Notify, H!Mapped, H!vars
<1>2. CASE H!RecvError \/ H!Recv \/ H!Woken \/ H!Send
  BY <1>2 DEF H!RecvError, H!Recv, H!Woken, H!Send, H!Deliver, H!Return, H!CloseChannel
<1>3. CASE H!Lookup \/ H!Post \/ H!Publish \/ H!RunLoop \/ H!LeaveLoop
  BY <1>3 DEF H!Lookup, H!Post, H!Publish, H!RunLoop, H!LeaveLoop
<1>4. CASE H!CloseSocket \/ H!StopLoop \/ H!JoinLoop
  BY <1>4 DEF H!CloseSocket, H!StopLoop, H!JoinLoop
<1>5. CASE H!Unregister \/ H!Forget \/ H!Close
  BY <1>5 DEF H!Unregister, H!Forget, H!Close, H!CloseChannel
<1> QED BY <1>1, <1>2, <1>3, <1>4, <1>5 DEF H!Next, H!Internal, H!Environment

\* What brings the end is never lost.
LEMMA NextEnding ==
  ASSUME PlugInv, [H!Next]_(H!vars)
  PROVE  Ending'
<1> USE DEF PlugInv, Ending
<1>1. CASE H!Cancel \/ H!Consume \/ H!Reuse \/ H!Uevent \/ H!Notify \/ UNCHANGED H!vars
  BY <1>1 DEF H!Cancel, H!Consume, H!Reuse, H!Uevent, H!Notify, H!Mapped, Apart, H!vars, H!macVars
<1>2. CASE H!RecvError \/ H!Woken \/ H!Send
  <2>1. /\ hhost = "linux" /\ hstop \in {"wait", "end"}
        /\ UNCHANGED <<hhost, hsocket, hstop, hpublished, hstopped, hforeign>>
    BY <1>2 DEF H!RecvError, H!Woken, H!Send, Apart, H!macVars
  <2> QED BY <2>1
<1>3. CASE H!Recv
  <2>1. hforeign' = (hforeign \/ hsocket = "reused") \/ hforeign' = hforeign
    BY <1>3 DEF H!Recv
  <2>2. ~MayReuse => hforeign' = FALSE
    BY <2>1
  <2> QED BY <1>3, <2>2 DEF H!Recv, Apart, H!Return, H!macVars
<1>4. CASE H!Lookup \/ H!Post \/ H!Publish \/ H!RunLoop \/ H!LeaveLoop
  BY <1>4 DEF H!Lookup, H!Post, H!Publish, H!RunLoop, H!LeaveLoop, Apart, H!macVars
<1>5. CASE H!CloseSocket \/ H!StopLoop \/ H!JoinLoop
  BY <1>5 DEF H!CloseSocket, H!StopLoop, H!JoinLoop, Apart, H!macVars
<1>6. CASE H!Unregister \/ H!Forget
  BY <1>6 DEF H!Unregister, H!Forget, Apart, H!macVars
<1>7. CASE H!Close
  <2>1. /\ hstop = "close" /\ hstop' = "end" /\ hhost # "linux"
        /\ UNCHANGED <<hhost, hsocket, hserve, hpublished, hstopped, hforeign>>
    BY <1>7 DEF H!Close, Apart, H!macVars
  <2> QED BY <2>1
<1> QED BY <1>1, <1>2, <1>3, <1>4, <1>5, <1>6, <1>7 DEF H!Next, H!Internal, H!Environment

\* Nor is anything freed or closed out of turn.
LEMMA NextOrderly ==
  ASSUME PlugInv, [H!Next]_(H!vars)
  PROVE  Orderly'
<1> USE DEF PlugInv, Orderly
<1>1. CASE H!Cancel \/ H!Consume \/ H!Reuse \/ H!Uevent \/ H!Notify \/ UNCHANGED H!vars
  BY <1>1 DEF H!Cancel, H!Consume, H!Reuse, H!Uevent, H!Notify, H!vars, H!macVars
<1>2. CASE H!Post \/ H!Close \/ H!Send \/ H!RecvError \/ H!Recv \/ H!Woken
  <2>1. hpanicked' = FALSE
    BY <1>2, OpenWhenUsed
  <2>2. UNCHANGED <<hhost, hcancelled, hfreed>> /\ (hstop' = hstop \/ (hstop = "close" /\ hstop' = "end"))
    BY <1>2, ChannelAlone
  <2> QED BY <2>1, <2>2
<1>3. CASE H!Lookup \/ H!Publish \/ H!RunLoop \/ H!LeaveLoop
  BY <1>3 DEF H!Lookup, H!Publish, H!RunLoop, H!LeaveLoop, H!macVars
<1>4. CASE H!CloseSocket \/ H!StopLoop \/ H!JoinLoop
  BY <1>4 DEF H!CloseSocket, H!StopLoop, H!JoinLoop, Apart, H!macVars
<1>5. CASE H!Unregister \/ H!Forget
  BY <1>5 DEF H!Unregister, H!Forget, H!macVars
<1> QED BY <1>1, <1>2, <1>3, <1>4, <1>5 DEF H!Next, H!Internal, H!Environment

\* Every step keeps the invariant.
LEMMA NextPlug ==
  ASSUME PlugInv, [H!Next]_(H!vars)
  PROVE  PlugInv'
BY NextApart, NextEnding, NextOrderly DEF PlugInv

\* On every host, whatever its system does with a closed socket or an early stop:
\* nobody sends on a closed channel or closes it twice, and the notification port
\* outlives its loop.
THEOREM NobodyIsLate ==
  ASSUME Hosts \subseteq {"linux", "darwin", "windows"}
  PROVE  H!Spec => []H!NobodyLate
<1>1. PlugInv => H!NobodyLate
  BY DEF PlugInv, Apart, Orderly, H!NobodyLate
<1> QED BY <1>1, InitPlug, NextPlug, PTL DEF H!Spec

\* What may keep a subscription open whose context is done, when none of its threads
\* has a step to take: on Linux a read that the close of its socket does not end, or
\* of the descriptor that got the socket's number; on macOS a stop that came before the
\* loop ran and was lost.
HeldBySystem ==
  \/ /\ hhost = "linux" /\ hserve = "blocked" /\ hstop = "end" /\ hsocket # "open"
     /\ ~CloseWakes \/ (MayReuse /\ hforeign)
  \/ hhost = "darwin" /\ hserve = "serving" /\ hstop = "join" /\ ~hstopped /\ ~StopSticks

\* On every host, whatever its system does with a closed socket, its number and an
\* early stop: once the context is done the code itself waits for nothing, neither for
\* room in the channel nor of one thread for the other; it closes the channel, or it is
\* held in one of the two waits it leaves to the system.
THEOREM HeldBySystemAlone ==
  ASSUME Hosts \subseteq {"linux", "darwin", "windows"}
  PROVE  H!Spec => [](hcancelled /\ hopen /\ ~H!MayStep => HeldBySystem)
<1>1. PlugInv => (hcancelled /\ hopen /\ ~H!MayStep => HeldBySystem)
  <2> SUFFICES ASSUME PlugInv, hcancelled, hopen, ~H!MayStep PROVE HeldBySystem
    OBVIOUS
  <2>1. CASE hhost = "linux"
    <3>1. hserve \in {"recv", "blocked", "send"} /\ hstop \in {"wait", "end"}
      BY <2>1 DEF PlugInv, Apart
    <3>2. hserve = "blocked" /\ hstop = "end"
      BY <2>1, <3>1 DEF H!MayStep
    <3>3. hsocket # "open"
      BY <2>1, <3>2 DEF PlugInv, Ending
    <3>4. ~CloseWakes \/ hforeign
      BY <3>2, <3>3 DEF H!MayStep
    <3>5. ASSUME ~MayReuse PROVE ~hforeign
      <4>1. hforeign = FALSE
        BY <3>5 DEF PlugInv, Ending
      <4> QED BY <4>1
    <3>6. ~CloseWakes \/ (MayReuse /\ hforeign)
      BY <3>4, <3>5
    <3> QED BY <2>1, <3>2, <3>3, <3>6 DEF HeldBySystem
  <2>2. CASE hhost = "darwin"
    <3>1. /\ hserve \in {"start", "run", "serving", "lookup", "post", "end"}
          /\ hstop \in {"wait", "join", "forget", "close"}
          /\ hserve = "start" \/ hpublished
          /\ StopSticks => (hstop = "join" /\ hserve # "end" => hstopped)
      BY <2>2 DEF PlugInv, Apart, Ending
    <3>2. hstop = "join" /\ hserve = "serving" /\ ~hstopped
      BY <2>2, <3>1 DEF H!MayStep
    <3> QED BY <2>2, <3>1, <3>2 DEF HeldBySystem
  <2>3. CASE hhost = "windows"
    <3>1. /\ hserve \in {"serving", "lookup", "post", "end"}
          /\ hstop \in {"wait", "forget", "close"}
          /\ hserve = "end" <=> hstop # "wait"
      BY <2>3 DEF PlugInv, Apart, Ending
    <3> QED BY <2>3, <3>1 DEF H!MayStep
  <2> QED BY <2>1, <2>2, <2>3 DEF PlugInv, Apart
<1> QED BY <1>1, InitPlug, NextPlug, PTL DEF H!Spec

\* A subscription that is served by callbacks ends for its context alone.
THEOREM CallbacksLast ==
  ASSUME Hosts \subseteq {"darwin", "windows"}
  PROVE  H!Spec => []H!LastsAsLong
<1>1. H!Init => PlugInv /\ hhost # "linux"
  BY InitPlug DEF H!Init
<1>2. PlugInv /\ hhost # "linux" /\ [H!Next]_(H!vars) => (PlugInv /\ hhost # "linux")'
  <2>1. ASSUME PlugInv, [H!Next]_(H!vars) PROVE hhost' = hhost
    BY <2>1 DEF H!Next, H!Internal, H!Environment, H!Cancel, H!Consume, H!Reuse, H!Uevent, H!Notify, H!vars, H!RecvError, H!Recv, H!Woken,
                H!Send, H!Lookup, H!Post, H!Publish, H!RunLoop, H!LeaveLoop, H!CloseSocket, H!StopLoop, H!JoinLoop, H!Unregister,
                H!Forget, H!Close
  <2> QED BY <2>1, NextPlug
<1>3. PlugInv /\ hhost # "linux" => H!LastsAsLong
  BY DEF PlugInv, Apart, Orderly, H!LastsAsLong
<1> QED BY <1>1, <1>2, <1>3, PTL DEF H!Spec

-----------------------------------------------------------------------------
(* Timing: the registers a row of writes leaves, whole or torn, and what they *)
(* come to on each profile.                                                   *)

CONSTANTS Dies, Shrinks, Exposures, Percents, Limits, Links, TimingFaults
VARIABLES die, tmode, tdev, expDur, settled, fresh, tbroken, tfaults

\* Timing, with any profiles, modes and durations.
T == INSTANCE Timing WITH
       MaxFaults <- TimingFaults, mode <- tmode, dev <- tdev, broken <- tbroken, faults <- tfaults

-----------------------------------------------------------------------------
(* Rows *)

\* A row of register writes.
IsRow(s) == \E S : s \in Seq(S)

\* The registers after all of a row, from d.
Whole(d, row) == T!After(d, row, Len(row))

\* What a row writes to register r is in V; with no V it does not write it.
Gives(row, r, V) == \A i \in 1 .. Len(row) : row[i].reg = r => row[i].val \in V

\* The index, the length and the parts of two rows.
LEMMA RowsJoin ==
  ASSUME NEW s, NEW t, IsRow(s), IsRow(t)
  PROVE  /\ IsRow(s \o t) /\ Len(s) \in Nat /\ Len(t) \in Nat /\ Len(s \o t) = Len(s) + Len(t)
         /\ \A i \in 1 .. Len(s) : (s \o t)[i] = s[i]
         /\ \A i \in 1 .. Len(t) : (s \o t)[Len(s) + i] = t[i]
<1>1. PICK S : s \in Seq(S)
  BY DEF IsRow
<1>2. PICK Q : t \in Seq(Q)
  BY DEF IsRow
<1>3. s \in Seq(S \cup Q) /\ t \in Seq(S \cup Q)
  BY <1>1, <1>2
<1>4. s \o t \in Seq(S \cup Q)
  BY <1>3
<1> QED BY <1>3, <1>4 DEF IsRow

\* A row of one write.
LEMMA OneRow ==
  ASSUME NEW reg, NEW val
  PROVE  /\ IsRow(T!Write(reg, val)) /\ Len(T!Write(reg, val)) = 1
         /\ T!Write(reg, val)[1].reg = reg /\ T!Write(reg, val)[1].val = val
<1>1. T!Write(reg, val) \in Seq({[reg |-> reg, val |-> val]})
  BY DEF T!Write
<1> QED BY <1>1 DEF T!Write, IsRow

\* The last of the first n writes to a register is the one that counts.
LEMMA LastCounts ==
  ASSUME NEW d, NEW row, NEW n \in Nat, NEW r \in T!Registers
  PROVE  /\ (\A i \in 1 .. n : row[i].reg # r) => T!After(d, row, n)[r] = d[r]
         /\ \A i \in 1 .. n : row[i].reg = r /\ (\A j \in 1 .. n : row[j].reg = r => j <= i)
                                => T!After(d, row, n)[r] = row[i].val
<1> DEFINE hits == {i \in 1 .. n : row[i].reg = r}
<1>1. T!After(d, row, n)[r] = IF hits = {} THEN d[r] ELSE row[CHOOSE i \in hits : \A j \in hits : j <= i].val
  BY DEF T!After
<1>2. (\A i \in 1 .. n : row[i].reg # r) => hits = {}
  OBVIOUS
<1>3. ASSUME NEW i \in hits, \A j \in hits : j <= i
      PROVE  (CHOOSE k \in hits : \A j \in hits : j <= k) = i
  <2>1. \A k \in hits : k \in Int
    OBVIOUS
  <2> HIDE DEF hits
  <2> DEFINE c == CHOOSE k \in hits : \A j \in hits : j <= k
  <2>2. c \in hits /\ \A j \in hits : j <= c
    BY <1>3
  <2> HIDE DEF c
  <2>3. c <= i /\ i <= c
    BY <1>3, <2>2
  <2>4. c = i
    BY <2>1, <2>2, <2>3
  <2> QED BY <2>4 DEF c
<1>4. ASSUME NEW i \in 1 .. n, row[i].reg = r, \A j \in 1 .. n : row[j].reg = r => j <= i
      PROVE  i \in hits /\ \A j \in hits : j <= i
  BY <1>4
<1> HIDE DEF hits
<1> QED BY <1>1, <1>2, <1>3, <1>4

\* Some last write there is, when there is one.
LEMMA SomeLast ==
  ASSUME NEW row, NEW n \in Nat, NEW r, NEW i \in 1 .. n, row[i].reg = r
  PROVE  \E k \in 1 .. n : row[k].reg = r /\ \A j \in 1 .. n : row[j].reg = r => j <= k
<1> DEFINE gaps == {g \in Nat : g < n /\ row[n - g].reg = r}
<1>1. n - i \in gaps
  OBVIOUS
<1>2. PICK g \in gaps : \A f \in gaps : <<f, g>> \notin OpToRel(<, Nat)
  BY <1>1, NatLessThanWellFounded, WFMin, Zenon
<1>3. g \in Nat /\ g < n /\ row[n - g].reg = r
  OBVIOUS
<1>4. \A f \in gaps : ~(f < g)
  BY <1>2 DEF OpToRel
<1>5. ASSUME NEW j \in 1 .. n, row[j].reg = r PROVE j <= n - g
  <2>1. n - j \in Nat /\ n - j < n /\ n - (n - j) = j
    OBVIOUS
  <2>2. n - j \in gaps
    BY <1>5, <2>1
  <2>3. ~(n - j < g)
    BY <1>4, <2>2
  <2> HIDE DEF gaps
  <2> QED BY <1>3, <2>3
<1> HIDE DEF gaps
<1>6. n - g \in 1 .. n
  BY <1>3
<1> QED BY <1>3, <1>5, <1>6

\* What a broken row leaves in a register is what was there or what the row gives.
LEMMA TornRow ==
  ASSUME NEW d, NEW row, NEW n \in Nat, NEW r \in T!Registers, NEW V,
         Len(row) \in Nat, n <= Len(row), Gives(row, r, V)
  PROVE  T!After(d, row, n)[r] \in V \cup {d[r]}
<1>1. CASE \A i \in 1 .. n : row[i].reg # r
  BY <1>1, LastCounts
<1>2. CASE \E i \in 1 .. n : row[i].reg = r
  <2>1. PICK k \in 1 .. n : row[k].reg = r /\ \A j \in 1 .. n : row[j].reg = r => j <= k
    BY <1>2, SomeLast
  <2>2. T!After(d, row, n)[r] = row[k].val
    BY <2>1, LastCounts
  <2>3. k \in 1 .. Len(row)
    OBVIOUS
  <2> QED BY <2>1, <2>2, <2>3 DEF Gives
<1> QED BY <1>1, <1>2

\* Two rows are one after the other.
LEMMA TwoRows ==
  ASSUME NEW d, NEW s, NEW t, IsRow(s), IsRow(t)
  PROVE  Whole(d, s \o t) = Whole(Whole(d, s), t)
<1> DEFINE n == Len(s)
           m == Len(t)
           u == s \o t
<1>1. n \in Nat /\ m \in Nat /\ Len(u) = n + m
  BY RowsJoin
<1>2. \A i \in 1 .. n : u[i] = s[i]
  BY RowsJoin
<1>3. \A i \in 1 .. m : u[n + i] = t[i]
  BY RowsJoin
<1> HIDE DEF n, m, u
<1>4. \A i \in 1 .. n + m : i \in 1 .. n \/ (i - n \in 1 .. m /\ n + (i - n) = i)
  BY <1>1
<1> SUFFICES T!After(d, u, n + m) = T!After(T!After(d, s, n), t, m)
  BY <1>1 DEF Whole, n, m, u
<1> SUFFICES ASSUME NEW r \in T!Registers PROVE T!After(d, u, n + m)[r] = T!After(T!After(d, s, n), t, m)[r]
  <2>1. \A e, row, k : T!After(e, row, k) = [r \in T!Registers |-> T!After(e, row, k)[r]]
    BY DEF T!After
  <2>2. T!After(d, u, n + m) = [r \in T!Registers |-> T!After(d, u, n + m)[r]]
    BY <2>1
  <2>3. T!After(T!After(d, s, n), t, m) = [r \in T!Registers |-> T!After(T!After(d, s, n), t, m)[r]]
    BY <2>1
  <2> QED BY <2>2, <2>3
<1>5. CASE \E i \in 1 .. m : t[i].reg = r
  <2>1. PICK k \in 1 .. m : t[k].reg = r /\ \A j \in 1 .. m : t[j].reg = r => j <= k
    BY <1>1, <1>5, SomeLast
  <2>2. n + k \in 1 .. n + m /\ u[n + k] = t[k]
    BY <1>1, <1>3
  <2>3. ASSUME NEW j \in 1 .. n + m, u[j].reg = r PROVE j <= n + k
    <3>1. CASE j \in 1 .. n
      BY <1>1, <3>1
    <3>2. CASE j - n \in 1 .. m /\ n + (j - n) = j
      <4>1. u[j] = t[j - n]
        BY <1>3, <3>2
      <4>2. j - n <= k
        BY <2>1, <2>3, <3>2, <4>1
      <4> QED BY <1>1, <4>2
    <3> QED BY <1>4, <3>1, <3>2
  <2>4. T!After(d, u, n + m)[r] = u[n + k].val
    BY <1>1, <2>1, <2>2, <2>3, LastCounts
  <2>5. T!After(T!After(d, s, n), t, m)[r] = t[k].val
    BY <1>1, <2>1, LastCounts
  <2> QED BY <2>2, <2>4, <2>5
<1>6. CASE ~(\E i \in 1 .. m : t[i].reg = r)
  <2>1. T!After(T!After(d, s, n), t, m)[r] = T!After(d, s, n)[r]
    BY <1>1, <1>6, LastCounts
  <2>2. ASSUME NEW j \in 1 .. n + m, u[j].reg = r PROVE j \in 1 .. n /\ s[j].reg = r
    BY <1>2, <1>3, <1>4, <1>6, <2>2
  <2>3. CASE \E i \in 1 .. n : s[i].reg = r
    <3>1. PICK k \in 1 .. n : s[k].reg = r /\ \A j \in 1 .. n : s[j].reg = r => j <= k
      BY <1>1, <2>3, SomeLast
    <3>2. k \in 1 .. n + m /\ u[k].reg = r /\ u[k].val = s[k].val
      BY <1>1, <1>2, <3>1
    <3>3. \A j \in 1 .. n + m : u[j].reg = r => j <= k
      BY <2>2, <3>1
    <3>4. T!After(d, u, n + m)[r] = u[k].val
      BY <1>1, <3>2, <3>3, LastCounts
    <3>5. T!After(d, s, n)[r] = s[k].val
      BY <1>1, <3>1, LastCounts
    <3> QED BY <2>1, <3>2, <3>4, <3>5
  <2>4. CASE \A i \in 1 .. n : s[i].reg # r
    <3>1. \A i \in 1 .. n + m : u[i].reg # r
      BY <2>2, <2>4
    <3>2. n + m \in Nat
      BY <1>1
    <3>3. T!After(d, u, n + m)[r] = d[r]
      BY <3>1, <3>2, LastCounts
    <3>4. T!After(d, s, n)[r] = d[r]
      BY <1>1, <2>4, LastCounts
    <3> QED BY <2>1, <3>3, <3>4
  <2> QED BY <2>3, <2>4
<1> QED BY <1>5, <1>6

\* One write sets its register.
LEMMA WholeWrite ==
  ASSUME NEW d, NEW reg \in T!Registers, NEW val
  PROVE  Whole(d, T!Write(reg, val))[reg] = val
<1>1. Len(T!Write(reg, val)) = 1 /\ T!Write(reg, val)[1].reg = reg /\ T!Write(reg, val)[1].val = val
  BY OneRow
<1>2. 1 \in 1 .. 1 /\ \A j \in 1 .. 1 : j <= 1
  OBVIOUS
<1> QED BY <1>1, <1>2, LastCounts DEF Whole

\* What rows give, they give together.
LEMMA GivesJoin ==
  ASSUME NEW s, NEW t, IsRow(s), IsRow(t), NEW r, NEW V, Gives(s, r, V), Gives(t, r, V)
  PROVE  Gives(s \o t, r, V)
<1> DEFINE n == Len(s)
           m == Len(t)
           u == s \o t
<1>1. n \in Nat /\ m \in Nat /\ Len(u) = n + m
  BY RowsJoin
<1>2. \A i \in 1 .. n : u[i] = s[i]
  BY RowsJoin
<1>3. \A i \in 1 .. m : u[n + i] = t[i]
  BY RowsJoin
<1>4. (\A i \in 1 .. n : s[i].reg = r => s[i].val \in V) /\ \A i \in 1 .. m : t[i].reg = r => t[i].val \in V
  BY DEF Gives
<1> HIDE DEF n, m, u
<1>5. \A i \in 1 .. n + m : i \in 1 .. n \/ (i - n \in 1 .. m /\ n + (i - n) = i)
  BY <1>1
<1>6. \A i \in 1 .. n + m : u[i].reg = r => u[i].val \in V
  BY <1>2, <1>3, <1>4, <1>5
<1> QED BY <1>1, <1>6 DEF Gives, u

\* What one write gives.
LEMMA GivesWrite ==
  ASSUME NEW reg, NEW val, NEW r, NEW V, reg = r => val \in V
  PROVE  Gives(T!Write(reg, val), r, V)
<1>1. Len(T!Write(reg, val)) = 1 /\ T!Write(reg, val)[1].reg = reg /\ T!Write(reg, val)[1].val = val
  BY OneRow
<1> QED BY <1>1 DEF Gives

\* A row sets register r to v whatever it held.
Puts(row, r, v) == \A d : Whole(d, row)[r] = v

\* A register no write of a row is to keeps what it held.
LEMMA Untouched ==
  ASSUME NEW row, IsRow(row), NEW r \in T!Registers, Gives(row, r, {}), NEW d
  PROVE  Whole(d, row)[r] = d[r]
<1>1. Len(row) \in Nat
  BY DEF IsRow
<1> QED BY <1>1, TornRow DEF Whole

\* A row of one write.
LEMMA First ==
  ASSUME NEW reg \in T!Registers, NEW val
  PROVE  /\ IsRow(T!Write(reg, val)) /\ Puts(T!Write(reg, val), reg, val)
         /\ \A r, V : (reg = r => val \in V) => Gives(T!Write(reg, val), r, V)
<1>1. ASSUME NEW d PROVE Whole(d, T!Write(reg, val))[reg] = val
  BY WholeWrite
<1> QED BY <1>1, OneRow, GivesWrite DEF Puts

\* A row and another: what the second sets, what it leaves of the first's, and
\* what they give together.
LEMMA Joined ==
  ASSUME NEW s, NEW t, IsRow(s), IsRow(t)
  PROVE  /\ IsRow(s \o t)
         /\ \A r, v : Puts(t, r, v) => Puts(s \o t, r, v)
         /\ \A r \in T!Registers : \A v : Puts(s, r, v) /\ Gives(t, r, {}) => Puts(s \o t, r, v)
         /\ \A r, V : Gives(s, r, V) /\ Gives(t, r, V) => Gives(s \o t, r, V)
<1>1. \A d : Whole(d, s \o t) = Whole(Whole(d, s), t)
  BY TwoRows
<1>2. \A r, v : Puts(t, r, v) => Puts(s \o t, r, v)
  BY <1>1 DEF Puts
<1>3. ASSUME NEW r \in T!Registers, NEW v, Puts(s, r, v), Gives(t, r, {}) PROVE Puts(s \o t, r, v)
  <2> SUFFICES ASSUME NEW d PROVE Whole(d, s \o t)[r] = v
    BY DEF Puts
  <2>1. Whole(Whole(d, s), t)[r] = Whole(d, s)[r]
    BY <1>3, Untouched
  <2> QED BY <1>1, <1>3, <2>1 DEF Puts
<1> QED BY <1>2, <1>3, RowsJoin, GivesJoin

\* A row and one write more.
LEMMA OneMore ==
  ASSUME NEW s, IsRow(s), NEW reg \in T!Registers, NEW val
  PROVE  /\ IsRow(s \o T!Write(reg, val)) /\ Puts(s \o T!Write(reg, val), reg, val)
         /\ \A r \in T!Registers : \A v : r # reg /\ Puts(s, r, v) => Puts(s \o T!Write(reg, val), r, v)
         /\ \A r, V : Gives(s, r, V) /\ (reg = r => val \in V) => Gives(s \o T!Write(reg, val), r, V)
<1> DEFINE t == T!Write(reg, val)
<1>1. IsRow(t) /\ Puts(t, reg, val)
  BY First
<1>2. \A r, V : (reg = r => val \in V) => Gives(t, r, V)
  BY First
<1> HIDE DEF t
<1>3. /\ IsRow(s \o t)
      /\ \A r, v : Puts(t, r, v) => Puts(s \o t, r, v)
      /\ \A r \in T!Registers : \A v : Puts(s, r, v) /\ Gives(t, r, {}) => Puts(s \o t, r, v)
      /\ \A r, V : Gives(s, r, V) /\ Gives(t, r, V) => Gives(s \o t, r, V)
  BY <1>1, Joined
<1> QED BY <1>1, <1>2, <1>3 DEF t

-----------------------------------------------------------------------------
(* What the rows of each profile do, register by register *)

\* The trigger's two bits.
LEMMA GatesRow ==
  ASSUME NEW on \in BOOLEAN
  PROVE  /\ IsRow(T!Gates(on)) /\ Puts(T!Gates(on), "trig", on)
         /\ \A r, V : r \notin {"wait", "trig"} => Gives(T!Gates(on), r, V)
<1>0. {"wait", "trig"} \subseteq T!Registers
  BY DEF T!Registers
<1>1. CASE on = TRUE
  <2> DEFINE s == T!Write("wait", TRUE)
  <2>1. T!Gates(on) = s \o T!Write("trig", TRUE)
    BY <1>1 DEF T!Gates
  <2>2. IsRow(s) /\ \A r, V : "wait" # r => Gives(s, r, V)
    BY <1>0, First
  <2> HIDE DEF s
  <2> QED BY <1>0, <1>1, <2>1, <2>2, OneMore
<1>2. CASE on = FALSE
  <2> DEFINE s == T!Write("trig", FALSE)
  <2>1. T!Gates(on) = s \o T!Write("wait", FALSE)
    BY <1>2 DEF T!Gates
  <2>2. IsRow(s) /\ Puts(s, "trig", FALSE) /\ \A r, V : "trig" # r => Gives(s, r, V)
    BY <1>0, First
  <2> HIDE DEF s
  <2> QED BY <1>0, <1>2, <2>1, <2>2, OneMore
<1> QED BY <1>1, <1>2

\* The shutter of starvis.
LEMMA ApplyRow ==
  ASSUME NEW m, NEW us, NEW frame, frame = T!Starvis(m.h, T!ExposureLines(us, T!ShutterLineNs(m)))
  PROVE  /\ IsRow(T!ApplyExposure(m, us))
         /\ Puts(T!ApplyExposure(m, us), "vmax", frame[1]) /\ Puts(T!ApplyExposure(m, us), "shs", frame[2])
         /\ \A r, V : r \notin {"wait", "vmax", "shs"} => Gives(T!ApplyExposure(m, us), r, V)
<1> DEFINE v == frame[1]
           h == frame[2]
           s1 == T!Write("wait", TRUE)
           s2 == s1 \o T!Write("vmax", v)
           s3 == s2 \o T!Write("shs", h)
<1>0. {"wait", "vmax", "shs"} \subseteq T!Registers
  BY DEF T!Registers
<1>1. T!ApplyExposure(m, us) = s3
  BY DEF T!ApplyExposure
<1> HIDE DEF v, h
<1>2. IsRow(s1) /\ \A r, V : r # "wait" => Gives(s1, r, V)
  BY <1>0, First
<1> HIDE DEF s1
<1>3. IsRow(s2) /\ Puts(s2, "vmax", v) /\ \A r, V : Gives(s1, r, V) /\ r # "vmax" => Gives(s2, r, V)
  BY <1>0, <1>2, OneMore
<1> HIDE DEF s2
<1>4. /\ IsRow(s3) /\ Puts(s3, "shs", h) /\ Puts(s3, "vmax", v)
      /\ \A r, V : Gives(s2, r, V) /\ r # "shs" => Gives(s3, r, V)
  BY <1>0, <1>3, OneMore
<1> HIDE DEF s3
<1> QED BY <1>1, <1>2, <1>3, <1>4 DEF v, h

\* The profiles with one fixed line period.
LEMMA Row178 ==
  ASSUME NEW m, NEW us, NEW frame, frame = T!Starvis(m.h, T!ExposureLines(us, T!ShutterLineNs(m)))
  PROVE  /\ IsRow(T!Expose178(m, us)) /\ Puts(T!Expose178(m, us), "trig", us >= T!P.trigUs)
         /\ Puts(T!Expose178(m, us), "vmax", frame[1]) /\ Puts(T!Expose178(m, us), "shs", frame[2])
         /\ \A r, V : r \notin {"wait", "trig", "vmax", "shs"} => Gives(T!Expose178(m, us), r, V)
<1> DEFINE long == us >= T!P.trigUs
           s == T!Write("trig", long)
           t == T!ApplyExposure(m, us)
<1>0. {"trig", "vmax", "shs"} \subseteq T!Registers
  BY DEF T!Registers
<1>1. T!Expose178(m, us) = s \o t
  BY DEF T!Expose178
<1> HIDE DEF long
<1>2. IsRow(s) /\ Puts(s, "trig", long) /\ \A r, V : r # "trig" => Gives(s, r, V)
  BY <1>0, First
<1>3. /\ IsRow(t) /\ Puts(t, "vmax", frame[1]) /\ Puts(t, "shs", frame[2])
      /\ \A r, V : r \notin {"wait", "vmax", "shs"} => Gives(t, r, V)
  BY ApplyRow
<1> HIDE DEF s, t
<1>4. /\ IsRow(s \o t)
      /\ \A r, v : Puts(t, r, v) => Puts(s \o t, r, v)
      /\ \A r \in T!Registers : \A v : Puts(s, r, v) /\ Gives(t, r, {}) => Puts(s \o t, r, v)
      /\ \A r, V : Gives(s, r, V) /\ Gives(t, r, V) => Gives(s \o t, r, V)
  BY <1>2, <1>3, Joined
<1> QED BY <1>0, <1>1, <1>2, <1>3, <1>4 DEF long

\* The profiles with two clocks.
LEMMA RowTwoClocks ==
  ASSUME NEW m, NEW us, NEW frame, frame = T!Starvis(m.h, T!ExposureLines(us, T!ShutterLineNs(m)))
  PROVE  LET row == T!ExposeTwoClocks(m, us) IN
         /\ IsRow(row) /\ Puts(row, "trig", us >= T!P.trigUs) /\ Puts(row, "hmax", T!STARVISHmax(m))
         /\ Puts(row, "vmax", frame[1]) /\ Puts(row, "shs", frame[2]) /\ Puts(row, "clk", T!Clock(m))
         /\ Gives(row, "clk", {T!Clock(m)})
         /\ \A r, V : r \notin {"wait", "trig", "hmax", "vmax", "shs", "clk"} => Gives(row, r, V)
<1> DEFINE long == us >= T!P.trigUs
           line == T!STARVISHmax(m)
           s1 == T!Write("trig", long)
           s2 == s1 \o T!Write("hmax", line)
           t  == T!ApplyExposure(m, us)
           s3 == s2 \o t
           s4 == s3 \o T!Write("clk", T!Clock(m))
<1>0. {"trig", "hmax", "vmax", "shs", "clk"} \subseteq T!Registers
  BY DEF T!Registers
<1>1. T!ExposeTwoClocks(m, us) = s4
  BY DEF T!ExposeTwoClocks
<1> HIDE DEF long, line
<1>2. IsRow(s1) /\ Puts(s1, "trig", long) /\ \A r, V : r # "trig" => Gives(s1, r, V)
  BY <1>0, First
<1> HIDE DEF s1
<1>3. /\ IsRow(s2) /\ Puts(s2, "trig", long) /\ Puts(s2, "hmax", line)
      /\ \A r, V : r \notin {"trig", "hmax"} => Gives(s2, r, V)
  BY <1>0, <1>2, OneMore
<1> HIDE DEF s2
<1>4. /\ IsRow(t) /\ Puts(t, "vmax", frame[1]) /\ Puts(t, "shs", frame[2])
      /\ \A r, V : r \notin {"wait", "vmax", "shs"} => Gives(t, r, V)
  BY ApplyRow
<1> HIDE DEF t
<1>5. /\ IsRow(s3)
      /\ \A r, v : Puts(t, r, v) => Puts(s3, r, v)
      /\ \A r \in T!Registers : \A v : Puts(s2, r, v) /\ Gives(t, r, {}) => Puts(s3, r, v)
      /\ \A r, V : Gives(s2, r, V) /\ Gives(t, r, V) => Gives(s3, r, V)
  BY <1>3, <1>4, Joined
<1> HIDE DEF s3
<1>6. /\ Puts(s3, "trig", long) /\ Puts(s3, "hmax", line) /\ Puts(s3, "vmax", frame[1]) /\ Puts(s3, "shs", frame[2])
      /\ \A r, V : r \notin {"wait", "trig", "hmax", "vmax", "shs"} => Gives(s3, r, V)
  BY <1>0, <1>3, <1>4, <1>5
<1>7. /\ IsRow(s4) /\ Puts(s4, "clk", T!Clock(m))
      /\ \A r \in T!Registers : \A v : r # "clk" /\ Puts(s3, r, v) => Puts(s4, r, v)
      /\ \A r, V : Gives(s3, r, V) /\ ("clk" = r => T!Clock(m) \in V) => Gives(s4, r, V)
  BY <1>0, <1>5, OneMore
<1> HIDE DEF s4
<1> QED BY <1>0, <1>1, <1>6, <1>7 DEF long, line

\* The IMX174's row.
LEMMA Row174 ==
  ASSUME NEW hmax, NEW long, NEW vmax, NEW cyc, NEW shs
  PROVE  LET row == T!Write("wait", TRUE) \o T!Write("hmax", hmax) \o T!Write("trig", long) \o T!Write("vmax", vmax)
                      \o T!Write("cycles", cyc) \o T!Write("shs", shs) IN
         /\ IsRow(row) /\ Puts(row, "trig", long) /\ Puts(row, "hmax", hmax)
         /\ Puts(row, "vmax", vmax) /\ Puts(row, "shs", shs)
         /\ Gives(row, "rows", {}) /\ Gives(row, "fmt", {})
<1> DEFINE s1 == T!Write("wait", TRUE)
           s2 == s1 \o T!Write("hmax", hmax)
           s3 == s2 \o T!Write("trig", long)
           s4 == s3 \o T!Write("vmax", vmax)
           s5 == s4 \o T!Write("cycles", cyc)
           s6 == s5 \o T!Write("shs", shs)
<1>0. {"wait", "trig", "hmax", "vmax", "shs", "cycles"} \subseteq T!Registers
  BY DEF T!Registers
<1>2. IsRow(s1) /\ \A r, V : r # "wait" => Gives(s1, r, V)
  BY <1>0, First
<1> HIDE DEF s1
<1>3. IsRow(s2) /\ Puts(s2, "hmax", hmax) /\ Gives(s2, "rows", {}) /\ Gives(s2, "fmt", {})
  BY <1>0, <1>2, OneMore
<1> HIDE DEF s2
<1>4. /\ IsRow(s3) /\ Puts(s3, "hmax", hmax) /\ Puts(s3, "trig", long)
      /\ Gives(s3, "rows", {}) /\ Gives(s3, "fmt", {})
  BY <1>0, <1>3, OneMore
<1> HIDE DEF s3
<1>5. /\ IsRow(s4) /\ Puts(s4, "hmax", hmax) /\ Puts(s4, "trig", long) /\ Puts(s4, "vmax", vmax)
      /\ Gives(s4, "rows", {}) /\ Gives(s4, "fmt", {})
  BY <1>0, <1>4, OneMore
<1> HIDE DEF s4
<1>6. /\ IsRow(s5) /\ Puts(s5, "hmax", hmax) /\ Puts(s5, "trig", long) /\ Puts(s5, "vmax", vmax)
      /\ Gives(s5, "rows", {}) /\ Gives(s5, "fmt", {})
  BY <1>0, <1>5, OneMore
<1> HIDE DEF s5
<1>7. /\ IsRow(s6) /\ Puts(s6, "hmax", hmax) /\ Puts(s6, "trig", long) /\ Puts(s6, "vmax", vmax)
      /\ Puts(s6, "shs", shs) /\ Gives(s6, "rows", {}) /\ Gives(s6, "fmt", {})
  BY <1>0, <1>6, OneMore
<1> QED BY <1>7 DEF s1, s2, s3, s4, s5

\* The trigger's bits, then VMAX and SHS: the DDR pair and the IMX585 of ZWO.
LEMMA RowGated ==
  ASSUME NEW on \in BOOLEAN, NEW v, NEW h
  PROVE  LET row == T!Gates(on) \o T!Write("vmax", v) \o T!Write("shs", h) IN
         /\ IsRow(row) /\ Puts(row, "trig", on) /\ Puts(row, "vmax", v) /\ Puts(row, "shs", h)
         /\ Gives(row, "rows", {}) /\ Gives(row, "fmt", {}) /\ Gives(row, "hmax", {})
<1> DEFINE s1 == T!Gates(on)
           s2 == s1 \o T!Write("vmax", v)
           s3 == s2 \o T!Write("shs", h)
<1>0. {"trig", "vmax", "shs"} \subseteq T!Registers
  BY DEF T!Registers
<1>1. IsRow(s1) /\ Puts(s1, "trig", on) /\ \A r, V : r \notin {"wait", "trig"} => Gives(s1, r, V)
  BY GatesRow
<1> HIDE DEF s1
<1>2. /\ IsRow(s2) /\ Puts(s2, "trig", on) /\ Puts(s2, "vmax", v)
      /\ Gives(s2, "rows", {}) /\ Gives(s2, "fmt", {}) /\ Gives(s2, "hmax", {})
  BY <1>0, <1>1, OneMore
<1> HIDE DEF s2
<1>3. /\ IsRow(s3) /\ Puts(s3, "trig", on) /\ Puts(s3, "vmax", v) /\ Puts(s3, "shs", h)
      /\ Gives(s3, "rows", {}) /\ Gives(s3, "fmt", {}) /\ Gives(s3, "hmax", {})
  BY <1>0, <1>2, OneMore
<1> QED BY <1>3 DEF s1, s2

\* The line period, then VMAX, the trigger bit and SHS: the IMX585 of PlayerOne.
LEMMA RowPOA ==
  ASSUME NEW l, NEW v, NEW on, NEW h
  PROVE  LET row == T!Write("hmax", l) \o T!Write("vmax", v) \o T!Write("trig", on) \o T!Write("shs", h) IN
         /\ IsRow(row) /\ Puts(row, "hmax", l) /\ Puts(row, "vmax", v)
         /\ Puts(row, "trig", on) /\ Puts(row, "shs", h)
         /\ Gives(row, "rows", {}) /\ Gives(row, "fmt", {})
<1> DEFINE s1 == T!Write("hmax", l)
           s2 == s1 \o T!Write("vmax", v)
           s3 == s2 \o T!Write("trig", on)
           s4 == s3 \o T!Write("shs", h)
<1>0. {"hmax", "vmax", "trig", "shs"} \subseteq T!Registers
  BY DEF T!Registers
<1>1. IsRow(s1) /\ Puts(s1, "hmax", l) /\ \A r, V : "hmax" # r => Gives(s1, r, V)
  BY <1>0, First
<1> HIDE DEF s1
<1>2. IsRow(s2) /\ Puts(s2, "hmax", l) /\ Puts(s2, "vmax", v) /\ Gives(s2, "rows", {}) /\ Gives(s2, "fmt", {})
  BY <1>0, <1>1, OneMore
<1> HIDE DEF s2
<1>3. /\ IsRow(s3) /\ Puts(s3, "hmax", l) /\ Puts(s3, "vmax", v) /\ Puts(s3, "trig", on)
      /\ Gives(s3, "rows", {}) /\ Gives(s3, "fmt", {})
  BY <1>0, <1>2, OneMore
<1> HIDE DEF s3
<1>4. /\ IsRow(s4) /\ Puts(s4, "hmax", l) /\ Puts(s4, "vmax", v) /\ Puts(s4, "trig", on) /\ Puts(s4, "shs", h)
      /\ Gives(s4, "rows", {}) /\ Gives(s4, "fmt", {})
  BY <1>0, <1>3, OneMore
<1> QED BY <1>4 DEF s1, s2, s3

\* Two writes, for the windows.
LEMMA Row2 ==
  ASSUME NEW a \in T!Registers, NEW b \in T!Registers, NEW x, NEW y, a # b
  PROVE  LET row == T!Write(a, x) \o T!Write(b, y) IN
         /\ IsRow(row) /\ Puts(row, a, x) /\ Puts(row, b, y)
         /\ \A r, V : r \notin {a, b} => Gives(row, r, V)
<1> DEFINE s1 == T!Write(a, x)
<1>1. IsRow(s1) /\ Puts(s1, a, x) /\ \A r, V : a # r => Gives(s1, r, V)
  BY First
<1> HIDE DEF s1
<1> DEFINE s2 == s1 \o T!Write(b, y)
<1>2. /\ IsRow(s2) /\ Puts(s2, a, x) /\ Puts(s2, b, y)
      /\ \A r, V : r \notin {a, b} => Gives(s2, r, V)
  BY <1>1, OneMore
<1> QED BY <1>2 DEF s1

\* Three writes.
LEMMA Row3 ==
  ASSUME NEW a \in T!Registers, NEW b \in T!Registers, NEW c \in T!Registers, NEW x, NEW y, NEW z,
         a # b, a # c, b # c
  PROVE  LET row == T!Write(a, x) \o T!Write(b, y) \o T!Write(c, z) IN
         /\ IsRow(row) /\ Puts(row, a, x) /\ Puts(row, b, y) /\ Puts(row, c, z)
         /\ \A r, V : r \notin {a, b, c} => Gives(row, r, V)
<1> DEFINE s1 == T!Write(a, x) \o T!Write(b, y)
<1>1. IsRow(s1) /\ Puts(s1, a, x) /\ Puts(s1, b, y) /\ \A r, V : r \notin {a, b} => Gives(s1, r, V)
  BY Row2
<1> HIDE DEF s1
<1> DEFINE s2 == s1 \o T!Write(c, z)
<1>2. /\ IsRow(s2) /\ Puts(s2, a, x) /\ Puts(s2, b, y) /\ Puts(s2, c, z)
      /\ \A r, V : r \notin {a, b, c} => Gives(s2, r, V)
  BY <1>1, OneMore
<1> QED BY <1>2 DEF s1

\* Four writes.
LEMMA Row4 ==
  ASSUME NEW a \in T!Registers, NEW b \in T!Registers, NEW c \in T!Registers, NEW e \in T!Registers,
         NEW x, NEW y, NEW z, NEW w, a # b, a # c, b # c, a # e, b # e, c # e
  PROVE  LET row == T!Write(a, x) \o T!Write(b, y) \o T!Write(c, z) \o T!Write(e, w) IN
         /\ IsRow(row) /\ Puts(row, a, x) /\ Puts(row, b, y) /\ Puts(row, c, z) /\ Puts(row, e, w)
         /\ \A r, V : r \notin {a, b, c, e} => Gives(row, r, V)
<1> DEFINE s1 == T!Write(a, x) \o T!Write(b, y) \o T!Write(c, z)
<1>1. /\ IsRow(s1) /\ Puts(s1, a, x) /\ Puts(s1, b, y) /\ Puts(s1, c, z)
      /\ \A r, V : r \notin {a, b, c} => Gives(s1, r, V)
  BY Row3
<1> HIDE DEF s1
<1> DEFINE s2 == s1 \o T!Write(e, w)
<1>2. /\ IsRow(s2) /\ Puts(s2, a, x) /\ Puts(s2, b, y) /\ Puts(s2, c, z) /\ Puts(s2, e, w)
      /\ \A r, V : r \notin {a, b, c, e} => Gives(s2, r, V)
  BY <1>1, OneMore
<1> QED BY <1>2 DEF s1

-----------------------------------------------------------------------------
(* What every profile's rows have in common *)

AllDies == {"imx174", "imx178", "imx290", "imx462", "imx455", "imx571", "imx585zwo", "imx585poa"}

\* The rows a window hands to the FPGA.
RowsOf(m) == IF die = "imx585poa" THEN m.h * m.bin ELSE m.h

\* The line period a window alone sets.
FixedLine == die \in {"imx178", "imx585zwo"}

\* Which row is which profile's.
LEMMA WindowOf ==
  ASSUME die \in AllDies, NEW m
  PROVE  /\ T!TwoClocks => T!WindowRow(m) = T!WindowTwoClocks(m)
         /\ T!OnDDR => T!WindowRow(m) = T!WindowDDR(m)
         /\ FixedLine => T!WindowRow(m) = T!Write("rows", m.h) \o T!Write("hmax", T!P.fixed)
         /\ die = "imx174" => T!WindowRow(m) = T!Window174(m)
         /\ die = "imx585poa" => T!WindowRow(m) = T!Window585POA(m)
BY SMT DEF AllDies, T!TwoClocks, T!OnDDR, FixedLine, T!WindowRow, T!Window290, T!Window462, T!Window455, T!Window571, T!Window178,
           T!Window585ZWO

\* And which exposure.
LEMMA ExposureOf ==
  ASSUME die \in AllDies, NEW m, NEW us
  PROVE  /\ T!TwoClocks => T!ExposureRow(m, us) = T!ExposeTwoClocks(m, us)
         /\ T!OnDDR => T!ExposureRow(m, us) = T!ExposeDDR(m, us)
         /\ die = "imx174" => T!ExposureRow(m, us) = T!Expose174(m, us)
         /\ die = "imx178" => T!ExposureRow(m, us) = T!Expose178(m, us)
         /\ die = "imx585zwo" => T!ExposureRow(m, us) = T!Expose585ZWO(m, us)
         /\ die = "imx585poa" => T!ExposureRow(m, us) = T!Expose585POA(m, us)
BY SMT DEF AllDies, T!TwoClocks, T!OnDDR, T!ExposureRow, T!Expose290, T!Expose462, T!Expose455, T!Expose571

\* The numbers of the rows, by their names in the code.
Hmax174(m, us)  == IF us >= T!P.trigUs THEN 5376 ELSE T!HMAX174(m)
Lines174(m, us) == T!ExposureLines(us, T!LineNs(Hmax174(m, us), T!P.clock))
Vmax174(m, us)  == T!MaxOf(m.h + T!P.vblank, Lines174(m, us) + 10)
Cycles174(m, us) ==
  IF us > T!MulDiv(m.h + T!P.vblank, T!LineNs(T!HMAX174(m), T!P.clock), 1000) + 100000
    THEN <<m.h + T!P.vblank, Vmax174(m, us) - 18>> ELSE <<>>

LinesDDR(m, us) == T!ExposureLines(us, T!LineNs(T!Base(m), T!P.clock))
FrameDDR(m)     == T!P.vblank[m.bin] + m.h
FrameUs(m)      == T!MulDiv(FrameDDR(m), T!LineNs(T!Base(m), T!P.clock), 1000)
VmaxDDR(m, us) ==
  IF us >= T!P.trigUs THEN T!MulDiv(FrameUs(m) + 10000, 1000, T!LineNs(T!Base(m), T!P.clock)) + 20
  ELSE IF us <= FrameUs(m) THEN FrameDDR(m) ELSE LinesDDR(m, us) + 20
ShsDDR(m, us) ==
  IF ~(us >= T!P.trigUs) /\ us <= FrameUs(m) THEN T!MaxOf(FrameDDR(m) - T!P.guard - LinesDDR(m, us), T!P.guard) ELSE 20

LinesZWO(us)  == T!ExposureLines(us, T!LineNs(T!P.fixed, T!P.clock))
HiZWO(m, us)  == IF LinesZWO(us) + 1 > (m.h + T!P.vblank) - T!P.guard THEN LinesZWO(us) + 1 ELSE (m.h + T!P.vblank) - T!P.guard

LinesPOA(m, us) == T!MaxOf(T!ExposureLines(us, T!LineNs(T!HMAXPOA(m), T!P.clock)), 2)
FramePOA(m, us) == IF us >= T!P.trigUs THEN m.h * m.bin + T!P.vblank ELSE T!VMAXPOA(m, us)

\* The rows, with those numbers.
LEMMA Numbers174 ==
  ASSUME NEW m, NEW us
  PROVE  T!Expose174(m, us) =
           T!Write("wait", TRUE) \o T!Write("hmax", Hmax174(m, us))
             \o T!Write("trig", us >= T!P.trigUs) \o T!Write("vmax", Vmax174(m, us))
             \o T!Write("cycles", Cycles174(m, us)) \o T!Write("shs", T!MaxOf(Vmax174(m, us) - Lines174(m, us), 10))
BY DEF T!Expose174, Hmax174, Vmax174, Lines174, Cycles174

\* The DDR pair's.
LEMMA NumbersDDR ==
  ASSUME NEW m, NEW us
  PROVE  T!ExposeDDR(m, us) =
           T!Gates(us >= T!P.trigUs) \o T!Write("vmax", VmaxDDR(m, us))
             \o T!Write("shs", IF m.bin = 2 THEN ShsDDR(m, us) ELSE T!Halved(ShsDDR(m, us)))
BY DEF T!ExposeDDR, VmaxDDR, ShsDDR, LinesDDR, FrameDDR, FrameUs

\* The IMX585's of ZWO.
LEMMA NumbersZWO ==
  ASSUME NEW m, NEW us
  PROVE  T!Expose585ZWO(m, us) =
           T!Gates(us >= T!P.trigUs) \o T!Write("vmax", T!MinOf(HiZWO(m, us) + T!P.guard, 16777215))
             \o T!Write("shs", T!MinOf(T!MaxOf(HiZWO(m, us) - LinesZWO(us), T!P.guard), HiZWO(m, us)))
BY DEF T!Expose585ZWO, HiZWO, LinesZWO

\* And of PlayerOne.
LEMMA NumbersPOA ==
  ASSUME NEW m, NEW us
  PROVE  T!Expose585POA(m, us) =
           T!Write("hmax", T!HMAXPOA(m)) \o T!Write("vmax", FramePOA(m, us)) \o T!Write("trig", us >= T!P.trigUs)
             \o T!Write("shs", T!MaxOf(FramePOA(m, us) - LinesPOA(m, us), T!Guard585(m)))
BY DEF T!Expose585POA, FramePOA, LinesPOA

\* A window sets its rows, its format and what the format is for, and never the
\* trigger.
LEMMA WindowDoes ==
  ASSUME die \in AllDies, NEW m
  PROVE  LET row == T!WindowRow(m) IN
         /\ IsRow(row) /\ Gives(row, "trig", {})
         /\ Puts(row, "rows", RowsOf(m))
         /\ T!TwoClocks => Puts(row, "fmt", T!Clock(m)) /\ Puts(row, "clk", T!Clock(m))
         /\ T!OnDDR => Puts(row, "fmt", T!Base(m)) /\ Puts(row, "hmax", T!Base(m))
         /\ FixedLine => Puts(row, "hmax", T!P.fixed)
<1> DEFINE row == T!WindowRow(m)
<1>0. {"fmt", "rows", "hmax", "clk"} \subseteq T!Registers
  BY DEF T!Registers
<1>1. CASE T!TwoClocks
  <2>1. row = T!Write("fmt", T!Clock(m)) \o T!Write("rows", m.h) \o T!Write("hmax", T!STARVISHmax(m)) \o T!Write("clk", T!Clock(m))
    BY <1>1, WindowOf DEF T!WindowTwoClocks
  <2>2. /\ IsRow(row) /\ Puts(row, "fmt", T!Clock(m)) /\ Puts(row, "rows", m.h) /\ Puts(row, "clk", T!Clock(m))
        /\ Gives(row, "trig", {})
    BY <1>0, <2>1, Row4
  <2>3. ~T!OnDDR /\ ~FixedLine /\ RowsOf(m) = m.h
    BY <1>1 DEF T!TwoClocks, T!OnDDR, FixedLine, RowsOf
  <2> QED BY <2>2, <2>3
<1>2. CASE T!OnDDR
  <2>1. row = T!Write("fmt", T!Base(m)) \o T!Write("rows", m.h) \o T!Write("hmax", T!Base(m))
    BY <1>2, WindowOf DEF T!WindowDDR
  <2>2. /\ IsRow(row) /\ Puts(row, "fmt", T!Base(m)) /\ Puts(row, "rows", m.h) /\ Puts(row, "hmax", T!Base(m))
        /\ Gives(row, "trig", {})
    BY <1>0, <2>1, Row3
  <2>3. ~T!TwoClocks /\ ~FixedLine /\ RowsOf(m) = m.h
    BY <1>2 DEF T!TwoClocks, T!OnDDR, FixedLine, RowsOf
  <2> QED BY <2>2, <2>3
<1>3. CASE FixedLine
  <2>1. row = T!Write("rows", m.h) \o T!Write("hmax", T!P.fixed)
    BY <1>3, WindowOf
  <2>2. IsRow(row) /\ Puts(row, "rows", m.h) /\ Puts(row, "hmax", T!P.fixed) /\ Gives(row, "trig", {})
    BY <1>0, <2>1, Row2
  <2>3. ~T!TwoClocks /\ ~T!OnDDR /\ RowsOf(m) = m.h
    BY <1>3 DEF T!TwoClocks, T!OnDDR, FixedLine, RowsOf
  <2> QED BY <2>2, <2>3
<1>4. CASE die = "imx174"
  <2>1. row = T!Write("rows", m.h) \o T!Write("hmax", T!HMAX174(m))
    BY <1>4, WindowOf DEF T!Window174
  <2>2. IsRow(row) /\ Puts(row, "rows", m.h) /\ Gives(row, "trig", {})
    BY <1>0, <2>1, Row2
  <2>3. ~T!TwoClocks /\ ~T!OnDDR /\ ~FixedLine /\ RowsOf(m) = m.h
    BY <1>4 DEF T!TwoClocks, T!OnDDR, FixedLine, RowsOf
  <2> QED BY <2>2, <2>3
<1>5. CASE die = "imx585poa"
  <2>1. row = T!Write("fmt", m.hdr) \o T!Write("rows", m.h * m.bin)
    BY <1>5, WindowOf DEF T!Window585POA
  <2>2. IsRow(row) /\ Puts(row, "rows", m.h * m.bin) /\ Gives(row, "trig", {})
    BY <1>0, <2>1, Row2
  <2>3. ~T!TwoClocks /\ ~T!OnDDR /\ ~FixedLine /\ RowsOf(m) = m.h * m.bin
    BY <1>5 DEF T!TwoClocks, T!OnDDR, FixedLine, RowsOf
  <2> QED BY <2>2, <2>3
<1> QED BY <1>1, <1>2, <1>3, <1>4, <1>5 DEF AllDies, T!TwoClocks, T!OnDDR, FixedLine

\* An exposure sets the trigger by its band, leaves the window's rows, format and
\* base, and gives the clock no value but the mode's.
LEMMA ExposureDoes ==
  ASSUME die \in AllDies, NEW m, NEW us, (us >= T!P.trigUs) \in BOOLEAN
  PROVE  LET row == T!ExposureRow(m, us) IN
         /\ IsRow(row) /\ Puts(row, "trig", us >= T!P.trigUs)
         /\ Gives(row, "rows", {}) /\ Gives(row, "fmt", {})
         /\ T!TwoClocks => Puts(row, "clk", T!Clock(m)) /\ Gives(row, "clk", {T!Clock(m)})
         /\ T!OnDDR \/ FixedLine => Gives(row, "hmax", {})
<1> DEFINE row == T!ExposureRow(m, us)
<1>1. CASE T!TwoClocks
  <2>1. row = T!ExposeTwoClocks(m, us)
    BY <1>1, ExposureOf
  <2>2. ~T!OnDDR /\ ~FixedLine
    BY <1>1 DEF T!TwoClocks, T!OnDDR, FixedLine
  <2> QED BY <2>1, <2>2, RowTwoClocks
<1>2. CASE die = "imx178"
  <2>1. row = T!Expose178(m, us)
    BY <1>2, ExposureOf
  <2>2. ~T!TwoClocks
    BY <1>2 DEF T!TwoClocks
  <2> QED BY <2>1, <2>2, Row178
<1>3. CASE T!OnDDR
  <2>1. row = T!ExposeDDR(m, us)
    BY <1>3, ExposureOf
  <2>2. ~T!TwoClocks
    BY <1>3 DEF T!OnDDR, T!TwoClocks
  <2> QED BY <2>1, <2>2, NumbersDDR, RowGated
<1>4. CASE die = "imx585zwo"
  <2>1. row = T!Expose585ZWO(m, us)
    BY <1>4, ExposureOf
  <2>2. ~T!TwoClocks
    BY <1>4 DEF T!TwoClocks
  <2> DEFINE long == us >= T!P.trigUs
  <2>3. PICK v, h : row = T!Gates(long) \o T!Write("vmax", v) \o T!Write("shs", h)
    BY <2>1, NumbersZWO
  <2>4. long \in BOOLEAN
    OBVIOUS
  <2> HIDE DEF row, long
  <2>5. /\ IsRow(row) /\ Puts(row, "trig", long)
        /\ Gives(row, "rows", {}) /\ Gives(row, "fmt", {}) /\ Gives(row, "hmax", {})
    BY <2>3, <2>4, RowGated
  <2> QED BY <2>2, <2>5 DEF row, long
<1>5. CASE die = "imx174"
  <2>1. row = T!Expose174(m, us)
    BY <1>5, ExposureOf
  <2>2. ~T!TwoClocks /\ ~T!OnDDR /\ ~FixedLine
    BY <1>5 DEF T!OnDDR, T!TwoClocks, FixedLine
  <2> DEFINE long == us >= T!P.trigUs
  <2>3. PICK l, v, c, h : row = T!Write("wait", TRUE) \o T!Write("hmax", l) \o T!Write("trig", long)
                              \o T!Write("vmax", v) \o T!Write("cycles", c) \o T!Write("shs", h)
    BY <2>1, Numbers174
  <2> HIDE DEF row, long
  <2>4. IsRow(row) /\ Puts(row, "trig", long) /\ Gives(row, "rows", {}) /\ Gives(row, "fmt", {})
    BY <2>3, Row174
  <2> QED BY <2>2, <2>4 DEF row, long
<1>6. CASE die = "imx585poa"
  <2>1. row = T!Expose585POA(m, us)
    BY <1>6, ExposureOf
  <2>2. ~T!TwoClocks /\ ~T!OnDDR /\ ~FixedLine
    BY <1>6 DEF T!OnDDR, T!TwoClocks, FixedLine
  <2> QED BY <2>1, <2>2, NumbersPOA, RowPOA
<1> QED BY <1>1, <1>2, <1>3, <1>4, <1>5, <1>6 DEF AllDies, T!TwoClocks, T!OnDDR

-----------------------------------------------------------------------------
(* The arithmetic of the shutter *)

\* MulDiv is the quotient of the product.
LEMMA MulDivIs ==
  ASSUME NEW a \in Nat, NEW b \in Nat, NEW c \in Nat, c # 0
  PROVE  /\ T!MulDiv(a, b, c) \in Nat
         /\ c * T!MulDiv(a, b, c) <= a * b /\ a * b < c * T!MulDiv(a, b, c) + c
<1> DEFINE q == a \div c
           r == a % c
           x == (r * b) \div c
<1>1. q \in Nat /\ r \in Nat /\ a = c * q + r
  OBVIOUS
<1>2. r * b \in Nat
  BY <1>1
<1>3. T!MulDiv(a, b, c) = q * b + x
  BY DEF T!MulDiv
<1> HIDE DEF q, r
<1> DEFINE z == r * b
<1>4. z \in Nat /\ x = z \div c
  BY <1>2
<1> HIDE DEF z, x
<1>5. x \in Nat /\ c * x <= z /\ z < c * x + c
  BY <1>4
<1>6. a * b = c * (q * b) + z
  BY <1>1 DEF z
<1>7. q * b \in Nat
  BY <1>1
<1> DEFINE y == q * b
<1> HIDE DEF y
<1>8. y \in Nat /\ T!MulDiv(a, b, c) = y + x /\ a * b = c * y + z /\ a * b \in Nat
  BY <1>3, <1>6, <1>7 DEF y
<1>9. c * (y + x) = c * y + c * x /\ c * y \in Nat /\ c * x \in Nat
  BY <1>5, <1>8
<1> DEFINE k == T!MulDiv(a, b, c)
<1>10. c * k = c * y + c * x /\ k \in Nat
  BY <1>5, <1>8, <1>9
<1> DEFINE ck == c * k
           cx == c * x
           cy == c * y
           ab == a * b
<1>11. ck = cy + cx /\ ab = cy + z /\ cx <= z /\ z < cx + c /\ ck \in Int /\ cx \in Int /\ cy \in Int /\ z \in Int
  BY <1>4, <1>5, <1>8, <1>9, <1>10
<1> HIDE DEF ck, cx, cy, ab
<1>12. ck <= ab /\ ab < ck + c
  BY <1>11
<1> QED BY <1>10, <1>12 DEF ck, ab

\* A factor that is positive can be cancelled.
LEMMA Cancels ==
  ASSUME NEW n \in Nat, NEW x \in Int, NEW y \in Int, n * x < n * y
  PROVE  x < y
<1> SUFFICES ASSUME y <= x PROVE FALSE
  OBVIOUS
<1>1. x - y \in Nat /\ n * (x - y) \in Nat /\ n * (x - y) = n * x - n * y
  OBVIOUS
<1>2. n * x \in Int /\ n * y \in Int
  OBVIOUS
<1> DEFINE p == n * x
           q == n * y
           d == n * (x - y)
<1> HIDE DEF p, q, d
<1>3. d \in Nat /\ d = p - q /\ p < q /\ p \in Int /\ q \in Int
  BY <1>1, <1>2 DEF p, q, d
<1> QED BY <1>3

\* Line periods and counts of lines.
LEMMA LineIs ==
  ASSUME NEW hmax \in Nat, NEW clock \in Nat, clock # 0
  PROVE  /\ T!LineNs(hmax, clock) \in Nat /\ T!LineNs(hmax, clock) >= 1
         /\ hmax >= 90 /\ clock <= 40000 => T!LineNs(hmax, clock) >= 60
<1> DEFINE q == T!MulDiv(1000000, hmax, clock)
<1>1. q \in Nat /\ 1000000 * hmax < clock * q + clock
  BY MulDivIs
<1> HIDE DEF q
<1>2. T!LineNs(hmax, clock) = IF q < 1 THEN 1 ELSE q
  BY DEF T!LineNs, T!MaxOf, q
<1>3. ASSUME hmax >= 90, clock <= 40000 PROVE q >= 60
  <2> SUFFICES ASSUME q <= 59 PROVE FALSE
    BY <1>1
  <2>1. clock * q <= clock * 59
    <3>1. clock * (59 - q) \in Nat /\ clock * (59 - q) = clock * 59 - clock * q /\ clock * q \in Nat
      BY <1>1
    <3> QED BY <3>1
  <2>2. clock * q \in Nat
    BY <1>1
  <2> QED BY <1>1, <1>3, <2>1, <2>2
<1> QED BY <1>1, <1>2, <1>3

\* On a 20 MHz clock a line is 50 ns a tick.
LEMMA Line20MHz ==
  ASSUME NEW hmax \in Nat, hmax >= 1
  PROVE  T!LineNs(hmax, 20000) = 50 * hmax
<1>1. 1000000 \div 20000 = 50 /\ 1000000 % 20000 = 0
  OBVIOUS
<1>2. 0 * hmax = 0 /\ 0 \div 20000 = 0
  OBVIOUS
<1>3. T!MulDiv(1000000, hmax, 20000) = 50 * hmax
  BY <1>1, <1>2 DEF T!MulDiv
<1> QED BY <1>3 DEF T!LineNs, T!MaxOf

\* The lines that fit in a duration.
LEMMA LinesAre ==
  ASSUME NEW us \in Nat, NEW ns \in Nat, ns >= 1
  PROVE  /\ T!ExposureLines(us, ns) \in Nat
         /\ ns * T!ExposureLines(us, ns) <= us * 1000 /\ us * 1000 < ns * T!ExposureLines(us, ns) + ns
         /\ ns >= 60 /\ us < 1000000 => T!ExposureLines(us, ns) <= 16666666
<1> DEFINE n == T!ExposureLines(us, ns)
<1>1. n \in Nat /\ ns * n <= us * 1000 /\ us * 1000 < ns * n + ns
  BY MulDivIs DEF T!ExposureLines
<1> HIDE DEF n
<1>2. ASSUME ns >= 60, us < 1000000 PROVE n <= 16666666
  <2>1. n * (ns - 60) \in Nat /\ n * (ns - 60) = ns * n - 60 * n /\ ns * n \in Nat
    BY <1>1, <1>2
  <2> QED BY <1>1, <1>2, <2>1
<1> QED BY <1>1, <1>2 DEF n

\* The line period a link affords is never below the floor.
LEMMA PercentRaises ==
  ASSUME NEW x \in Nat, NEW pct \in 1 .. 100
  PROVE  (x * 100) \div pct \in Nat /\ (x * 100) \div pct >= x
<1> DEFINE z == (x * 100) \div pct
<1>1. pct \in Nat /\ pct >= 1 /\ x * 100 \in Nat
  OBVIOUS
<1>2. z \in Nat /\ x * 100 < pct * z + pct
  BY <1>1
<1> HIDE DEF z
<1>3. pct * (z + 1) = pct * z + pct /\ pct * z \in Nat
  BY <1>1, <1>2
<1>4. x * (100 - pct) \in Nat /\ x * (100 - pct) = x * 100 - pct * x /\ pct * x \in Nat
  BY <1>1
<1>5. pct * x < pct * (z + 1)
  BY <1>1, <1>2, <1>3, <1>4
<1>6. x < z + 1
  BY <1>1, <1>2, <1>5, Cancels
<1> QED BY <1>2, <1>6 DEF z

\* HMAXBW's line period, for px, the time of a row at the line rate.
Banded(px, h, floor, vblank, link, pct) ==
  T!MinOf((T!MaxOf(T!MulDiv(px, h, h + vblank) \div link, floor) * 100) \div pct, 65535)

\* It is at least the floor of its profile, 90 or more.
LEMMA LinkIs ==
  ASSUME NEW px \in Nat, NEW h \in Nat, NEW floor \in Nat, NEW vblank \in Nat, NEW link \in Nat,
         NEW pct \in 1 .. 100, vblank # 0, link # 0, floor >= 90
  PROVE  Banded(px, h, floor, vblank, link, pct) \in Nat /\ Banded(px, h, floor, vblank, link, pct) >= 90
<1> DEFINE q    == T!MulDiv(px, h, h + vblank)
           cand == q \div link
           top  == T!MaxOf(cand, floor)
           z    == (top * 100) \div pct
<1>1. q \in Nat
  <2>1. h + vblank \in Nat /\ h + vblank # 0
    OBVIOUS
  <2> QED BY <2>1, MulDivIs
<1> HIDE DEF q
<1>2. cand \in Nat
  BY <1>1
<1> HIDE DEF cand
<1>3. top \in Nat /\ top >= floor
  BY <1>2 DEF T!MaxOf
<1> HIDE DEF top
<1>4. z \in Nat /\ z >= top
  BY <1>3, PercentRaises
<1> HIDE DEF z
<1>5. T!MinOf(z, 65535) \in Nat /\ T!MinOf(z, 65535) >= 90
  BY <1>3, <1>4 DEF T!MinOf
<1> QED BY <1>5 DEF z, top, cand, q, Banded

\* So is it for every mode of a profile.
LEMMA PeriodIs ==
  ASSUME NEW m, NEW c, NEW f, NEW b, NEW k, m.w \in Nat, m.h \in Nat, m.bpp \in {1, 2}, m.pct \in 1 .. 100,
         c \in Nat, f \in Nat, f >= 90, b \in Nat, b # 0, k \in Nat, k # 0
  PROVE  T!HMAXBW(m.w, m.h, c, f, b, k, m) \in Nat /\ T!HMAXBW(m.w, m.h, c, f, b, k, m) >= 90
<1> DEFINE px   == m.w * m.bpp * c
           h    == m.h
           link == IF m.usb3 THEN k ELSE 43272
           pct  == m.pct
           z    == Banded(px, h, f, b, link, pct)
<1>1. T!HMAXBW(m.w, m.h, c, f, b, k, m) = z
  BY DEF T!HMAXBW, Banded
<1>2. px \in Nat /\ h \in Nat /\ link \in Nat /\ link # 0 /\ pct \in 1 .. 100
  OBVIOUS
<1> HIDE DEF px, h, link, pct
<1>3. z \in Nat /\ z >= 90
  BY <1>2, LinkIs
<1> QED BY <1>1, <1>3

\* The shutter of starvis: the frame covers the window, SHS is a line of it, and
\* what is left of the frame is the exposure to within two lines.
LEMMA StarvisIs ==
  ASSUME NEW h \in Nat, NEW ls \in Nat, T!P.shsOff \in Nat, T!P.vblank \in {T!P.shsOff, T!P.shsOff + 1},
         T!P.shsOff >= 2, h <= 10000
  PROVE  LET f == T!Starvis(h, ls) IN
         /\ f[1] \in Nat /\ f[2] \in Nat /\ f[1] >= h /\ f[2] >= 1
         /\ ls <= 16666666 => f[1] - f[2] - ls \in 0 .. 2
<1> DEFINE off == T!P.shsOff
           vb  == T!P.vblank
<1>1. T!Starvis(h, ls) = IF ls + 1 > h + vb THEN <<T!MinOf(ls + 1, 16777215), 1>>
                          ELSE <<h + vb, T!MinOf(T!MaxOf((h + off) - ls, 1), (h + off) - 1)>>
  BY DEF T!Starvis
<1>2. off \in Nat /\ off >= 2 /\ vb \in Nat /\ (vb = off \/ vb = off + 1)
  OBVIOUS
<1> HIDE DEF off, vb
<1>3. CASE ls + 1 > h + vb
  <2>1. T!Starvis(h, ls)[1] = T!MinOf(ls + 1, 16777215) /\ T!Starvis(h, ls)[2] = 1
    BY <1>1, <1>3
  <2> QED BY <1>2, <1>3, <2>1 DEF T!MinOf
<1>4. CASE ~(ls + 1 > h + vb)
  <2>1. /\ T!Starvis(h, ls)[1] = h + vb
        /\ T!Starvis(h, ls)[2] = T!MinOf(T!MaxOf((h + off) - ls, 1), (h + off) - 1)
    BY <1>1, <1>4
  <2> QED BY <1>2, <1>4, <2>1 DEF T!MinOf, T!MaxOf
<1> QED BY <1>3, <1>4

-----------------------------------------------------------------------------
(* What each profile integrates *)

\* The numbers of the profiles that the shutter turns on.
LEMMA Numbers ==
  ASSUME die \in AllDies
  PROVE  /\ die = "imx174" => T!P.clock = 20000 /\ T!P.floor = 780 /\ T!P.usb3kB = 385000 /\ T!P.vblank = 38
                              /\ T!P.trigUs = 4000000 /\ T!P.h = 1216 /\ T!P.w = 1936
         /\ die = "imx178" => T!P.clock = 27000 /\ T!P.fixed = 420 /\ T!P.vblank = 29 /\ T!P.shsOff = 29
                              /\ T!P.trigUs = 1000000 /\ T!P.h = 2048 /\ T!P.w = 3072
         /\ T!TwoClocks => T!P.clock = 18562 /\ T!P.clockHS = 37124 /\ T!P.floor \in {203, 261} /\ T!P.floorHS \in {196, 245}
                         /\ T!P.fixed = 0 /\ T!P.usb3kB = 360715 /\ T!P.vblank = 18 /\ T!P.shsOff = 17
                         /\ T!P.trigUs = 1000000 /\ T!P.h = 1096 /\ T!P.w = 1936
         /\ T!OnDDR => T!P.clock = 20000 /\ T!P.guard \in {1, 3} /\ T!P.trigUs = 1000000 /\ T!P.h \in {6388, 4168}
                     /\ T!P.w \in {9576, 6224}
         /\ die = "imx585zwo" => T!P.clock = 20000 /\ T!P.fixed = 192 /\ T!P.vblank = 2 /\ T!P.guard = 8
                                 /\ T!P.trigUs = 1000000 /\ T!P.h = 2160 /\ T!P.w = 3840
         /\ die = "imx585poa" => T!P.clock = 20000 /\ T!P.vblank = 40 /\ T!P.trigUs = 1000000 /\ T!P.h = 2180 /\ T!P.w = 3856
<1>1. CASE die = "imx174"
  <2>1. T!P = T!IMX174
    BY <1>1 DEF T!P, T!Profile
  <2> QED BY <1>1, <2>1 DEF T!IMX174, T!Second, T!TwoClocks, T!OnDDR
<1>2. CASE die = "imx178"
  <2>1. T!P = T!IMX178
    BY <1>2 DEF T!P, T!Profile
  <2> QED BY <1>2, <2>1 DEF T!IMX178, T!Second, T!TwoClocks, T!OnDDR
<1>3. CASE die = "imx290"
  <2>1. T!P = T!IMX290
    BY <1>3 DEF T!P, T!Profile
  <2> QED BY <1>3, <2>1 DEF T!IMX290, T!STARVIS, T!Second, T!TwoClocks, T!OnDDR
<1>4. CASE die = "imx462"
  <2>1. T!P = T!IMX462
    BY <1>4 DEF T!P, T!Profile
  <2> QED BY <1>4, <2>1 DEF T!IMX462, T!STARVIS, T!Second, T!TwoClocks, T!OnDDR
<1>5. CASE die = "imx455"
  <2>1. T!P = T!IMX455
    BY <1>5 DEF T!P, T!Profile
  <2> QED BY <1>5, <2>1 DEF T!IMX455, T!Second, T!TwoClocks, T!OnDDR
<1>6. CASE die = "imx571"
  <2>1. T!P = T!IMX571
    BY <1>6 DEF T!P, T!Profile
  <2> QED BY <1>6, <2>1 DEF T!IMX571, T!Second, T!TwoClocks, T!OnDDR
<1>7. CASE die = "imx585zwo"
  <2>1. T!P = T!IMX585ZWO
    BY <1>7 DEF T!P, T!Profile
  <2> QED BY <1>7, <2>1 DEF T!IMX585ZWO, T!Second, T!TwoClocks, T!OnDDR
<1>8. CASE die = "imx585poa"
  <2>1. T!P = T!IMX585POA
    BY <1>8 DEF T!P, T!Profile
  <2> QED BY <1>8, <2>1 DEF T!IMX585POA, T!Second, T!TwoClocks, T!OnDDR
<1> QED BY <1>1, <1>2, <1>3, <1>4, <1>5, <1>6, <1>7, <1>8 DEF AllDies

\* The tables of the DDR pair.
LEMMA Tables ==
  ASSUME T!OnDDR, NEW m, m.bin \in 1 .. 3, m.hs \in BOOLEAN
  PROVE  T!Base(m) \in Nat /\ T!Base(m) >= 250 /\ T!P.vblank[m.bin] \in Nat
<1>1. CASE die = "imx455"
  <2>1. T!P = T!IMX455
    BY <1>1 DEF T!P, T!Profile
  <2>2. T!P.v = <<1515, 625, 330>> /\ T!P.vHS = <<630, 625, 330>> /\ T!P.vblank = <<52, 32, 30>>
    BY <2>1 DEF T!IMX455
  <2>3. /\ T!P.v[m.bin] \in {1515, 625, 330} /\ T!P.vHS[m.bin] \in {630, 625, 330}
        /\ T!P.vblank[m.bin] \in {52, 32, 30}
    <3>1. CASE m.bin = 1
      BY <2>2, <3>1
    <3>2. CASE m.bin = 2
      BY <2>2, <3>2
    <3>3. CASE m.bin = 3
      BY <2>2, <3>3
    <3> QED BY <3>1, <3>2, <3>3
  <2> QED BY <2>3 DEF T!Base
<1>2. CASE die = "imx571"
  <2>1. T!P = T!IMX571
    BY <1>2 DEF T!P, T!Profile
  <2>2. T!P.v = <<1350, 490, 250>> /\ T!P.vHS = <<1350, 490, 250>> /\ T!P.vblank = <<48, 28, 24>>
    BY <2>1 DEF T!IMX571
  <2>3. /\ T!P.v[m.bin] \in {1350, 490, 250} /\ T!P.vHS[m.bin] \in {1350, 490, 250}
        /\ T!P.vblank[m.bin] \in {48, 28, 24}
    <3>1. CASE m.bin = 1
      BY <2>2, <3>1
    <3>2. CASE m.bin = 2
      BY <2>2, <3>2
    <3>3. CASE m.bin = 3
      BY <2>2, <3>3
    <3> QED BY <3>1, <3>2, <3>3
  <2> QED BY <2>3 DEF T!Base
<1> QED BY <1>1, <1>2 DEF T!OnDDR

\* The modes a camera of this profile can be in.
TimeModes == [w : Nat, h : Nat, bin : Nat, bpp : {1, 2}, hs : BOOLEAN, usb3 : BOOLEAN, pct : 1 .. 100, limit : Nat,
          hdr : BOOLEAN]
\* Of these, the ones whose window is on the die.
GoodMode(m) == m \in TimeModes /\ m.h <= T!P.h /\ m.bin \in T!Bins /\ (m.hdr => die = "imx585poa")

\* What a row leaves in the registers is what was asked for.
Close(span, ls, shs) == span - ls \in -9 .. 9 /\ shs > 0

\* The IMX174 integrates the lines to the line.
LEMMA Shutter174 ==
  ASSUME die = "imx174", NEW m, GoodMode(m), NEW us \in Nat
  PROVE  LET v     == Vmax174(m, us)
             ls == Lines174(m, us)
             s     == T!MaxOf(v - ls, 10)
         IN v \in Nat /\ s \in Nat /\ v >= m.h /\ Close(v - s, ls, s)
<1> DEFINE ls == Lines174(m, us)
           hmax  == Hmax174(m, us)
<1>1. T!P.clock = 20000 /\ T!P.vblank = 38 /\ T!P.floor = 780 /\ T!P.usb3kB = 385000
  BY Numbers DEF AllDies
<1>2. m.w \in Nat /\ m.h \in Nat /\ m.bpp \in {1, 2} /\ m.pct \in 1 .. 100
  BY DEF GoodMode, TimeModes
<1>3. T!HMAX174(m) \in Nat
  <2>1. T!P.clock \in Nat /\ T!P.vblank \in Nat /\ T!P.vblank # 0 /\ T!P.floor \in Nat /\ T!P.floor >= 90 /\ T!P.usb3kB \in Nat /\ T!P.usb3kB # 0
    BY <1>1
  <2> DEFINE c == T!P.clock
             f == T!P.floor
             b == T!P.vblank
             k == T!P.usb3kB
  <2>2. T!HMAX174(m) = T!HMAXBW(m.w, m.h, c, f, b, k, m)
    BY DEF T!HMAX174
  <2>3. c \in Nat /\ b \in Nat /\ b # 0 /\ f \in Nat /\ f >= 90 /\ k \in Nat /\ k # 0
    BY <2>1
  <2> HIDE DEF c, f, b, k
  <2> QED BY <1>2, <2>2, <2>3, PeriodIs
<1>4. hmax \in Nat
  BY <1>3 DEF Hmax174
<1> HIDE DEF hmax
<1>5. T!LineNs(hmax, T!P.clock) \in Nat /\ T!LineNs(hmax, T!P.clock) >= 1
  <2>1. T!LineNs(hmax, 20000) \in Nat /\ T!LineNs(hmax, 20000) >= 1
    BY <1>4, LineIs
  <2> QED BY <1>1, <2>1
<1>6. ls \in Nat
  BY <1>5, LinesAre DEF Lines174, hmax
<1>7. Vmax174(m, us) = T!MaxOf(m.h + 38, ls + 10)
  BY <1>1 DEF Vmax174
<1> HIDE DEF ls
<1>8. LET v == T!MaxOf(m.h + 38, ls + 10)
          s == T!MaxOf(v - ls, 10)
      IN v \in Nat /\ s \in Nat /\ v >= m.h /\ v - s = ls /\ s > 0
  BY <1>2, <1>6 DEF T!MaxOf
<1> QED BY <1>6, <1>7, <1>8 DEF Close, ls

\* The dies of the starvis shutter, to two lines.
LEMMA ShutterStarvis ==
  ASSUME die \in AllDies, T!TwoClocks \/ die = "imx178", NEW m, GoodMode(m), NEW us \in Nat
  PROVE  LET ns    == T!ShutterLineNs(m)
             ls == T!ExposureLines(us, ns)
             f     == T!Starvis(m.h, ls)
         IN /\ f[1] \in Nat /\ f[2] \in Nat
            /\ f[1] >= m.h /\ (us < T!P.trigUs => Close(f[1] - f[2], ls, f[2]))
            /\ die = "imx178" => ns = T!LineNs(T!P.fixed, T!P.clock)
            /\ T!TwoClocks => ns = T!LineNs(T!STARVISHmax(m), T!Clock(m))
<1> DEFINE ns == T!ShutterLineNs(m)
           ls == T!ExposureLines(us, ns)
           f == T!Starvis(m.h, ls)
<1>1. m.w \in Nat /\ m.h \in Nat /\ m.bpp \in {1, 2} /\ m.pct \in 1 .. 100 /\ m.h <= T!P.h
  BY DEF GoodMode, TimeModes
<1>2. T!P.trigUs = 1000000 /\ m.h <= 10000 /\ T!P.shsOff \in Nat /\ T!P.vblank \in {T!P.shsOff, T!P.shsOff + 1} /\ T!P.shsOff >= 2
  BY <1>1, Numbers DEF AllDies
<1>3. /\ ns \in Nat /\ ns >= 60
      /\ die = "imx178" => ns = T!LineNs(T!P.fixed, T!P.clock)
      /\ T!TwoClocks => ns = T!LineNs(T!STARVISHmax(m), T!Clock(m))
  <2>1. CASE die = "imx178"
    <3>1. T!P.fixed = 420 /\ T!P.clock = 27000 /\ ~T!TwoClocks
      BY <2>1, Numbers DEF T!TwoClocks
    <3>2. ns = T!LineNs(420, 27000)
      BY <3>1 DEF T!ShutterLineNs
    <3>3. T!LineNs(420, 27000) \in Nat /\ T!LineNs(420, 27000) >= 60
      BY LineIs
    <3> QED BY <3>1, <3>2, <3>3
  <2>2. CASE T!TwoClocks
    <3>1. /\ T!P.fixed = 0 /\ T!P.vblank = 18 /\ T!P.usb3kB = 360715 /\ T!P.clock = 18562 /\ T!P.clockHS = 37124
          /\ T!P.floor \in {203, 261} /\ T!P.floorHS \in {196, 245}
      BY <2>2, Numbers
    <3>2. /\ T!Clock(m) \in Nat /\ T!Clock(m) # 0 /\ T!Clock(m) <= 40000
          /\ T!Floor(m) \in Nat /\ T!Floor(m) >= 90
      BY <3>1 DEF T!Clock, T!Floor
    <3>3. T!STARVISHmax(m) \in Nat /\ T!STARVISHmax(m) >= 90
      <4>1. T!P.vblank \in Nat /\ T!P.vblank # 0 /\ T!P.usb3kB \in Nat /\ T!P.usb3kB # 0
        BY <3>1
      <4> DEFINE c == T!Clock(m)
                 fl == T!Floor(m)
                 b == T!P.vblank
                 k == T!P.usb3kB
      <4>2. T!STARVISHmax(m) = T!HMAXBW(m.w, m.h, c, fl, b, k, m)
        BY DEF T!STARVISHmax
      <4>3. c \in Nat /\ b \in Nat /\ b # 0 /\ fl \in Nat /\ fl >= 90 /\ k \in Nat /\ k # 0
        BY <3>2, <4>1
      <4> HIDE DEF c, fl, b, k
      <4> QED BY <1>1, <4>2, <4>3, PeriodIs
    <3>4. ns = T!LineNs(T!STARVISHmax(m), T!Clock(m))
      BY <3>1 DEF T!ShutterLineNs
    <3>5. ns \in Nat /\ ns >= 60
      <4> DEFINE x == T!STARVISHmax(m)
                 c == T!Clock(m)
      <4>1. x \in Nat /\ x >= 90 /\ c \in Nat /\ c # 0 /\ c <= 40000 /\ ns = T!LineNs(x, c)
        BY <3>2, <3>3, <3>4
      <4> HIDE DEF x, c, ns
      <4> QED BY <4>1, LineIs
    <3>6. die # "imx178"
      BY <2>2 DEF T!TwoClocks
    <3> QED BY <3>4, <3>5, <3>6
  <2> QED BY <2>1, <2>2
<1> HIDE DEF ns
<1>4. ls \in Nat /\ (us < 1000000 => ls <= 16666666)
  <2>1. ns \in Nat /\ ns >= 60 /\ ns >= 1
    BY <1>3
  <2> QED BY <2>1, LinesAre
<1> HIDE DEF ls
<1>5. /\ f[1] \in Nat /\ f[2] \in Nat /\ f[1] >= m.h /\ f[2] >= 1
      /\ ls <= 16666666 => f[1] - f[2] - ls \in 0 .. 2
  <2> DEFINE h == m.h
  <2>1. h \in Nat /\ h <= 10000
    BY <1>1, <1>2
  <2> HIDE DEF h
  <2>2. LET g == T!Starvis(h, ls) IN
        /\ g[1] \in Nat /\ g[2] \in Nat /\ g[1] >= h /\ g[2] >= 1
        /\ ls <= 16666666 => g[1] - g[2] - ls \in 0 .. 2
    BY <1>2, <1>4, <2>1, StarvisIs, SMT
  <2> QED BY <2>2, SMT DEF h
<1> HIDE DEF f
<1>6. us < T!P.trigUs => Close(f[1] - f[2], ls, f[2])
  BY <1>2, <1>4, <1>5 DEF Close
<1> QED BY <1>3, <1>5, <1>6 DEF f, ls, ns

\* Of the DDR pair: SHS and its half.
LEMMA HalvedIs ==
  ASSUME NEW s \in Nat
  PROVE  /\ T!Halved(s) \in Nat /\ T!Halved(s) >= 3
         /\ s >= 6 => 2 * T!Halved(s) \in {s, s - 1}
         /\ s < 6 => T!Halved(s) = 3
BY DEF T!Halved

\* A frame of f lines of ns, against an exposure of us: u and l are the frame's
\* microseconds and the exposure's lines, q those of a long exposure's frame.
Compared(f, ns, us) ==
  LET u == T!MulDiv(f, ns, 1000)
      l == T!ExposureLines(us, ns)
      q == T!MulDiv(u + 10000, 1000, ns)
  IN /\ u \in Nat /\ l \in Nat
     /\ us <= u => l <= f
     /\ ~(us <= u) => l >= f
     /\ q \in Nat /\ q >= f

\* The lines and the microseconds agree on what fits.
LEMMA FrameDDRIs ==
  ASSUME NEW ns \in Nat, ns >= 1, NEW f \in Nat, NEW us \in Nat
  PROVE  Compared(f, ns, us)
<1> DEFINE u == T!MulDiv(f, ns, 1000)
           l == T!ExposureLines(us, ns)
           q == T!MulDiv(u + 10000, 1000, ns)
<1>1. u \in Nat /\ 1000 * u <= f * ns /\ f * ns < 1000 * u + 1000
  BY MulDivIs
<1> HIDE DEF u
<1>2. l \in Nat /\ ns * l <= us * 1000 /\ us * 1000 < ns * l + ns
  BY LinesAre
<1>3. q \in Nat /\ (u + 10000) * 1000 < ns * q + ns
  BY <1>1, MulDivIs
<1> HIDE DEF l, q
<1>4. f * ns = ns * f /\ ns * f \in Nat /\ ns * l \in Nat /\ ns * q \in Nat
  BY <1>2, <1>3
<1>5. /\ ns * (f + 1) = ns * f + ns /\ ns * (l + 1) = ns * l + ns /\ ns * (q + 1) = ns * q + ns
      /\ ns * (f + 1) \in Nat /\ ns * (l + 1) \in Nat /\ ns * (q + 1) \in Nat
  BY <1>2, <1>3
<1> DEFINE nf == ns * f
           nl == ns * l
           nq == ns * q
<1>6. /\ nf \in Nat /\ nl \in Nat /\ nq \in Nat
      /\ 1000 * u <= nf /\ nf < 1000 * u + 1000
      /\ nl <= us * 1000 /\ us * 1000 < nl + ns
      /\ (u + 10000) * 1000 < nq + ns
      /\ ns * (f + 1) = nf + ns /\ ns * (l + 1) = nl + ns /\ ns * (q + 1) = nq + ns
  BY <1>1, <1>2, <1>3, <1>4, <1>5
<1> HIDE DEF nf, nl, nq
<1>7. ASSUME us <= u PROVE l <= f
  <2>1. nl < ns * (f + 1)
    BY <1>1, <1>6, <1>7
  <2>2. ns * l < ns * (f + 1)
    BY <2>1 DEF nl
  <2>3. l < f + 1
    BY <1>2, <2>2, Cancels
  <2> QED BY <1>2, <2>3
<1>8. ASSUME ~(us <= u) PROVE l >= f
  <2>1. us >= u + 1
    BY <1>1, <1>8
  <2>2. nf < ns * (l + 1)
    BY <1>1, <1>6, <2>1
  <2>3. ns * f < ns * (l + 1)
    BY <2>2 DEF nf
  <2>4. f < l + 1
    BY <1>2, <2>3, Cancels
  <2> QED BY <1>2, <2>4
<1>9. q >= f
  <2>1. nf < ns * (q + 1)
    BY <1>1, <1>6
  <2>2. ns * f < ns * (q + 1)
    BY <2>1 DEF nf
  <2>3. f < q + 1
    BY <1>3, <2>2, Cancels
  <2> QED BY <1>3, <2>3
<1> QED BY <1>1, <1>2, <1>3, <1>7, <1>8, <1>9 DEF u, l, q, Compared

\* The pair integrates the lines, to within the guard and the halving.
LEMMA ShutterDDR ==
  ASSUME die \in AllDies, T!OnDDR, NEW m, GoodMode(m), NEW us \in Nat
  PROVE  LET v    == VmaxDDR(m, us)
             s    == IF m.bin = 2 THEN ShsDDR(m, us) ELSE T!Halved(ShsDDR(m, us))
             span == v - s * (IF m.bin # 2 THEN 2 ELSE 1)
         IN v \in Nat /\ v >= m.h /\ (us < T!P.trigUs => Close(span, LinesDDR(m, us), s))
<1> DEFINE ns == T!LineNs(T!Base(m), T!P.clock)
           f  == FrameDDR(m)
           l  == LinesDDR(m, us)
           u  == FrameUs(m)
           g  == T!P.guard
           q  == T!MulDiv(u + 10000, 1000, ns)
           h  == m.h
<1>1. m.h \in Nat /\ m.bin \in 1 .. 3 /\ m.hs \in BOOLEAN
  BY DEF GoodMode, TimeModes, T!Bins
<1>2. T!P.clock = 20000 /\ T!P.guard \in {1, 3} /\ T!P.trigUs = 1000000
  BY Numbers
<1>3. T!Base(m) \in Nat /\ T!P.vblank[m.bin] \in Nat
  BY <1>1, Tables
<1>4. ns \in Nat /\ ns >= 1
  <2> DEFINE b == T!Base(m)
  <2>1. b \in Nat
    BY <1>3
  <2> HIDE DEF b
  <2>2. T!LineNs(b, 20000) \in Nat /\ T!LineNs(b, 20000) >= 1
    BY <2>1, LineIs
  <2> QED BY <1>2, <2>2 DEF b
<1>5. f \in Nat /\ f >= h /\ h \in Nat /\ g \in {1, 3}
  BY <1>1, <1>2, <1>3 DEF FrameDDR
<1>6. u = T!MulDiv(f, ns, 1000) /\ l = T!ExposureLines(us, ns)
  BY DEF FrameUs, LinesDDR
<1> DEFINE v == VmaxDDR(m, us)
           s == ShsDDR(m, us)
           short == us < T!P.trigUs
<1>7. v = IF us >= T!P.trigUs THEN q + 20 ELSE IF us <= u THEN f ELSE l + 20
  BY DEF VmaxDDR
<1>8. s = IF ~(us >= T!P.trigUs) /\ us <= u THEN T!MaxOf(f - g - l, g) ELSE 20
  BY DEF ShsDDR
<1> HIDE DEF ns, f, l, u, g, h, v, s, q
<1>9. /\ u \in Nat /\ l \in Nat
      /\ us <= u => l <= f
      /\ ~(us <= u) => l >= f
      /\ q \in Nat /\ q >= f
  <2>1. Compared(f, ns, us)
    BY <1>4, <1>5, FrameDDRIs
  <2> QED BY <1>6, <2>1 DEF q, Compared
<1>10. v \in Nat /\ v >= h
  BY <1>2, <1>5, <1>7, <1>9
<1>11. ASSUME us < 1000000, us <= u PROVE v = f /\ s \in Nat /\ s = T!MaxOf(f - g - l, g)
  BY <1>2, <1>5, <1>7, <1>8, <1>9, <1>11 DEF T!MaxOf
<1>12. ASSUME us < 1000000, ~(us <= u) PROVE v = l + 20 /\ s = 20
  BY <1>2, <1>7, <1>8, <1>12
<1>13. ASSUME us < 1000000 PROVE Close(v - s, l, s) /\ Close(v - T!Halved(s) * 2, l, T!Halved(s))
  <2>1. CASE us <= u
    <3>1. v - s - l \in -9 .. 9 /\ s > 0 /\ s \in Nat
      BY <1>5, <1>9, <1>11, <1>13, <2>1 DEF T!MaxOf
    <3>2. T!Halved(s) \in Nat /\ T!Halved(s) >= 3 /\ (s >= 6 => 2 * T!Halved(s) \in {s, s - 1}) /\ (s < 6 => T!Halved(s) = 3)
      BY <3>1, HalvedIs
    <3> DEFINE x == T!Halved(s)
    <3> HIDE DEF x
    <3>3. v - x * 2 - l \in -9 .. 9 /\ x > 0
      <4>1. CASE s >= 6
        BY <1>5, <1>9, <1>11, <1>13, <2>1, <3>1, <3>2, <4>1 DEF T!MaxOf, x
      <4>2. CASE s < 6
        BY <1>5, <1>9, <1>11, <1>13, <2>1, <3>1, <3>2, <4>2 DEF T!MaxOf, x
      <4> QED BY <3>1, <4>1, <4>2
    <3> QED BY <3>1, <3>3 DEF Close, x
  <2>2. CASE ~(us <= u)
    <3>1. T!Halved(20) = 10
      BY DEF T!Halved
    <3> QED BY <1>9, <1>12, <1>13, <2>2, <3>1 DEF Close
  <2> QED BY <2>1, <2>2
<1>14. us < T!P.trigUs => Close(v - s, l, s) /\ Close(v - T!Halved(s) * 2, l, T!Halved(s))
  BY <1>2, <1>13
<1> DEFINE s1 == IF m.bin = 2 THEN s ELSE T!Halved(s)
           k1 == IF m.bin # 2 THEN 2 ELSE 1
<1>15. us < T!P.trigUs => Close(v - s1 * k1, l, s1)
  <2>1. CASE m.bin = 2
    <3>1. us < T!P.trigUs => Close(v - s, l, s) /\ s * 1 = s
      BY <1>2, <1>9, <1>11, <1>12, <1>14
    <3> QED BY <2>1, <3>1
  <2>2. CASE m.bin # 2
    BY <1>14, <2>2
  <2> QED BY <2>1, <2>2
<1> QED BY <1>10, <1>15 DEF v, s, l, h

\* The IMX585 as ZWO drives it, to the guard.
LEMMA ShutterZWO ==
  ASSUME die = "imx585zwo", NEW m, GoodMode(m), NEW us \in Nat
  PROVE  LET l == LinesZWO(us)
             i == HiZWO(m, us)
             v == T!MinOf(i + T!P.guard, 16777215)
             s == T!MinOf(T!MaxOf(i - l, T!P.guard), i)
         IN v \in Nat /\ s \in Nat /\ v >= m.h /\ (us < T!P.trigUs => Close(v - s, l, s))
<1> DEFINE l == LinesZWO(us)
           i == HiZWO(m, us)
           h == m.h
<1>1. h \in Nat /\ h <= 2160 /\ T!P.vblank = 2 /\ T!P.guard = 8 /\ T!P.fixed = 192 /\ T!P.clock = 20000 /\ T!P.trigUs = 1000000
  BY Numbers DEF GoodMode, TimeModes, AllDies
<1>2. T!LineNs(192, 20000) \in Nat /\ T!LineNs(192, 20000) >= 60
  BY LineIs
<1> DEFINE ns == T!LineNs(T!P.fixed, T!P.clock)
<1>3. ns \in Nat /\ ns >= 60 /\ ns >= 1
  BY <1>1, <1>2
<1>4. l = T!ExposureLines(us, ns)
  BY DEF LinesZWO
<1>5. i = IF l + 1 > (h + 2) - 8 THEN l + 1 ELSE (h + 2) - 8
  BY <1>1 DEF HiZWO
<1> HIDE DEF l, i, h, ns
<1>6. l \in Nat /\ (us < 1000000 => l <= 16666666)
  BY <1>3, <1>4, LinesAre
<1> DEFINE v == T!MinOf(i + 8, 16777215)
           s == T!MinOf(T!MaxOf(i - l, 8), i)
<1>7. i \in Nat /\ i >= 1 /\ i >= l + 1 /\ (i = l + 1 \/ i = h - 6) /\ i + 8 >= h
  BY <1>1, <1>5, <1>6
<1>8. v \in Nat /\ v >= h /\ s \in Nat /\ s >= 1
  BY <1>1, <1>6, <1>7, SMT DEF T!MinOf, T!MaxOf
<1>9. ASSUME us < 1000000 PROVE v - s - l \in -9 .. 9
  <2>1. v = i + 8
    BY <1>1, <1>6, <1>7, <1>9, SMT DEF T!MinOf
  <2>2. CASE i = l + 1
    BY <1>1, <1>6, <1>7, <1>9, <2>1, <2>2, SMT DEF T!MinOf, T!MaxOf
  <2>3. CASE i = h - 6
    BY <1>1, <1>6, <1>7, <1>9, <2>1, <2>3, SMT DEF T!MinOf, T!MaxOf
  <2> QED BY <1>7, <2>2, <2>3, SMT
<1>10. v \in Nat /\ s \in Nat /\ v >= h /\ (us < T!P.trigUs => Close(v - s, l, s))
  BY <1>1, <1>8, <1>9, SMT DEF Close
<1> QED BY <1>1, <1>10, SMT DEF l, i, h

\* Rounding half up loses no line.
LEMMA NearestIs ==
  ASSUME NEW a \in Nat, NEW b \in Nat, b >= 1
  PROVE  T!Nearest(a, b) \in Nat /\ 2 * a < 2 * b * T!Nearest(a, b) + b
<1> DEFINE x == 2 * a + b
           y == 2 * b
           q == x \div y
<1>1. x \in Nat /\ y \in Nat /\ y >= 1
  OBVIOUS
<1> HIDE DEF x, y
<1>2. q \in Nat /\ x < y * q + y
  BY <1>1
<1> HIDE DEF q
<1>3. 2 * a + b < 2 * b * q + 2 * b /\ 2 * b * q \in Nat
  BY <1>1, <1>2 DEF x, y
<1>4. 2 * a < 2 * b * q + b
  BY <1>3
<1> QED BY <1>2, <1>4 DEF q, x, y, T!Nearest

\* The line period of PlayerOne's.
LEMMA HmaxPOAIs ==
  ASSUME NEW m, GoodMode(m)
  PROVE  T!HMAXPOA(m) \in Nat /\ T!HMAXPOA(m) >= 92
<1> DEFINE a == m.w * m.bpp * 1000
           b == 26593
           floor == IF m.bpp >= 2 THEN 154 ELSE 92
<1>1. a \in Nat /\ floor \in Nat /\ floor >= 92
  BY DEF GoodMode, TimeModes
<1>2. T!HMAXPOA(m) = IF m.hdr THEN floor ELSE T!MaxOf(T!Nearest(a, b), floor)
  BY DEF T!HMAXPOA
<1>3. b \in Nat /\ b >= 1
  OBVIOUS
<1> HIDE DEF a, b, floor
<1>4. T!Nearest(a, b) \in Nat
  BY <1>1, <1>3, NearestIs
<1> QED BY <1>1, <1>2, <1>4 DEF T!MaxOf

\* Its frame: whatever the link and the cap ask for, it holds the exposure, its
\* guard and the rows.
LEMMA FramePOAIs ==
  ASSUME NEW m, GoodMode(m), NEW us \in Nat, T!P.vblank = 40, m.bin \in {1, 2}
  PROVE  LET v == T!VMAXPOA(m, us)
             n == T!Nearest(us * 20, T!HMAXPOA(m))
         IN v \in Nat /\ v >= n + T!Guard585(m) /\ v >= m.h * m.bin * (IF m.hdr THEN 2 ELSE 1) + 40
<1> DEFINE perTick == IF m.usb3 THEN 19205 ELSE 2147
           px      == m.w * m.h * m.bpp
           time    == T!MulDiv(px, 1000, perTick)
           ship    == (time \div m.pct) * 100
           cap     == IF m.limit > 0 THEN 20000000 \div m.limit ELSE 0
           period  == T!MaxOf(T!MaxOf(ship, us * 20), cap)
           rows    == m.h * m.bin * (IF m.hdr THEN 2 ELSE 1) + T!P.vblank
           hm      == T!HMAXPOA(m)
           n       == T!Nearest(us * 20, hm)
<1>1. T!VMAXPOA(m, us) = T!MaxOf(T!MaxOf(T!Nearest(period, hm), rows), n + T!Guard585(m))
  BY DEF T!VMAXPOA
<1>2. perTick \in Nat /\ perTick # 0 /\ px \in Nat /\ m.pct \in 1 .. 100 /\ m.limit \in Nat
  BY DEF GoodMode, TimeModes
<1>3. rows \in Nat
  <2>1. m.h \in Nat /\ m.bin \in Nat
    BY DEF GoodMode, TimeModes
  <2>2. m.h * m.bin \in Nat
    BY <2>1
  <2> DEFINE x == m.h * m.bin
  <2> HIDE DEF x
  <2>3. x \in Nat /\ rows = IF m.hdr THEN x * 2 + 40 ELSE x * 1 + 40
    BY <2>2 DEF x
  <2> QED BY <2>3
<1> HIDE DEF perTick, px, rows
<1>4. time \in Nat
  <2>1. px \in Nat /\ perTick \in Nat /\ perTick # 0
    BY <1>2
  <2> DEFINE k == 1000
  <2>2. k \in Nat
    OBVIOUS
  <2> HIDE DEF k
  <2>3. T!MulDiv(px, k, perTick) \in Nat
    BY <2>1, <2>2, MulDivIs
  <2> QED BY <2>3 DEF k
<1> HIDE DEF time
<1>5. ship \in Nat
  BY <1>2, <1>4
<1>6. cap \in Nat
  BY <1>2
<1> HIDE DEF ship, cap
<1>7. period \in Nat
  BY <1>5, <1>6 DEF T!MaxOf
<1> HIDE DEF period
<1>8. hm \in Nat /\ hm >= 1
  BY HmaxPOAIs
<1> HIDE DEF hm
<1> DEFINE t == us * 20
<1>9. t \in Nat
  OBVIOUS
<1> HIDE DEF t
<1>10. T!Nearest(period, hm) \in Nat /\ T!Nearest(t, hm) \in Nat
  BY <1>7, <1>8, <1>9, NearestIs
<1>11. T!Guard585(m) \in Nat
  BY DEF T!Guard585
<1> DEFINE k == T!Nearest(period, hm)
           gd == T!Guard585(m)
           j == T!Nearest(t, hm)
<1>12. T!VMAXPOA(m, us) = T!MaxOf(T!MaxOf(k, rows), j + gd)
  BY <1>1 DEF t
<1> HIDE DEF k, gd, j
<1>13. T!VMAXPOA(m, us) \in Nat /\ T!VMAXPOA(m, us) >= j + gd /\ T!VMAXPOA(m, us) >= rows
  BY <1>3, <1>10, <1>11, <1>12 DEF T!MaxOf, k, gd, j
<1> QED BY <1>13 DEF j, gd, rows, t, hm

\* It integrates the lines, of which it never counts fewer than two.
LEMMA ShutterPOA ==
  ASSUME die = "imx585poa", NEW m, GoodMode(m), NEW us \in Nat
  PROVE  LET v == FramePOA(m, us)
             l == T!ExposureLines(us, T!LineNs(T!HMAXPOA(m), T!P.clock))
             s == T!MaxOf(v - LinesPOA(m, us), T!Guard585(m))
         IN /\ v \in Nat /\ s \in Nat /\ v >= m.h * m.bin * (IF m.hdr /\ us < T!P.trigUs THEN 2 ELSE 1)
            /\ us < T!P.trigUs => Close(v - s, l, s)
<1> DEFINE hm == T!HMAXPOA(m)
           ns == T!LineNs(hm, 20000)
           l  == T!ExposureLines(us, ns)
           n  == T!Nearest(us * 20, hm)
           v  == FramePOA(m, us)
           gd == T!Guard585(m)
           k  == T!MaxOf(l, 2)
           s  == T!MaxOf(v - k, gd)
           long == us >= T!P.trigUs
           x == m.h * m.bin
           w == x * (IF m.hdr /\ us < T!P.trigUs THEN 2 ELSE 1)
<1>1. T!P.clock = 20000 /\ T!P.vblank = 40 /\ T!P.trigUs = 1000000 /\ m.h \in Nat /\ m.bin \in {1, 2}
  BY Numbers DEF GoodMode, TimeModes, AllDies, T!Bins, T!OnDDR
<1>2. hm \in Nat /\ hm >= 92 /\ hm >= 1
  BY HmaxPOAIs
<1>3. gd \in {8, 16}
  BY DEF T!Guard585
<1>4. x \in Nat
  BY <1>1
<1> DEFINE v1 == T!VMAXPOA(m, us)
           w1 == x * (IF m.hdr THEN 2 ELSE 1)
<1>5. v1 \in Nat /\ v1 >= n + gd /\ v1 >= w1 + 40
  BY <1>1, FramePOAIs
<1>6. LinesPOA(m, us) = k /\ T!ExposureLines(us, T!LineNs(T!HMAXPOA(m), T!P.clock)) = l
  BY <1>1 DEF LinesPOA
<1>7. v = IF us >= 1000000 THEN x + 40 ELSE v1
  BY <1>1 DEF FramePOA
<1>8. w = IF us >= 1000000 THEN x ELSE w1
  BY <1>1, <1>4
<1>9. w1 \in Nat
  BY <1>4
<1> HIDE DEF hm, v1, w1, w, v, x
<1>10. ns = 50 * hm
  BY <1>2, Line20MHz
<1>11. ns \in Nat /\ ns >= 1
  BY <1>2, <1>10
<1> HIDE DEF ns
<1>12. l \in Nat /\ ns * l <= us * 1000
  BY <1>11, LinesAre
<1> HIDE DEF l
<1> DEFINE t == us * 20
<1>13. t \in Nat /\ n = T!Nearest(t, hm)
  OBVIOUS
<1> HIDE DEF t, n
<1>14. n \in Nat /\ 2 * t < 2 * hm * n + hm
  BY <1>2, <1>13, NearestIs
<1>15. l <= n
  <2>1. 50 * hm * l <= us * 1000 /\ 50 * hm * l = 50 * (hm * l) /\ hm * l \in Nat
    BY <1>2, <1>10, <1>12
  <2>2. 2 * hm * n = 2 * (hm * n) /\ hm * n \in Nat
    BY <1>2, <1>14
  <2>3. hm * (n + 1) = hm * n + hm
    BY <1>2, <1>14
  <2> DEFINE a == hm * l
             b == hm * n
  <2>4. a \in Nat /\ b \in Nat /\ 50 * a <= us * 1000 /\ 2 * t < 2 * b + hm /\ hm * (n + 1) = b + hm
    BY <1>14, <2>1, <2>2, <2>3
  <2> HIDE DEF a, b
  <2>5. a < b + hm
    BY <1>2, <2>4 DEF t
  <2>6. hm * l < hm * (n + 1)
    BY <2>4, <2>5 DEF a
  <2>7. l < n + 1
    BY <1>2, <1>12, <1>14, <2>6, Cancels
  <2> QED BY <1>12, <1>14, <2>7
<1> HIDE DEF gd
<1>16. v \in Nat /\ v >= w
  BY <1>4, <1>5, <1>7, <1>8, <1>9, SMT
<1>17. ASSUME us < 1000000 PROVE v - s - l \in -9 .. 9 /\ s > 0 /\ v - s \in Int
  <2>1. v = v1
    BY <1>7, <1>17, SMT
  <2>2. v >= l + gd /\ v >= 40 /\ v \in Nat
    BY <1>3, <1>5, <1>9, <1>12, <1>14, <1>15, <2>1
  <2> QED BY <1>3, <1>12, <2>2 DEF T!MaxOf
<1>18. s \in Nat
  BY <1>3, <1>12, <1>16 DEF T!MaxOf
<1>19. us < T!P.trigUs => Close(v - s, l, s)
  BY <1>1, <1>17, SMT DEF Close
<1> QED BY <1>6, <1>16, <1>18, <1>19, SMT DEF v, w, x, gd

-----------------------------------------------------------------------------
(* What the registers hold when a window, and then an exposure, went whole *)

\* A window's registers.
Settled(m, d) ==
  /\ d["rows"] = RowsOf(m)
  /\ T!TwoClocks => d["fmt"] = T!Clock(m) /\ d["clk"] = T!Clock(m)
  /\ T!OnDDR => d["fmt"] = T!Base(m) /\ d["hmax"] = T!Base(m)
  /\ FixedLine => d["hmax"] = T!P.fixed

\* The line period the sensor runs at, and the lines it integrates.
LineOf(e) == T!LineNs(e["hmax"], IF T!TwoClocks THEN e["clk"] ELSE T!P.clock)
Span(m, e) == e["vmax"] - e["shs"] * (IF T!OnDDR /\ m.bin # 2 THEN 2 ELSE 1)

\* An exposure's.
Exact(m, e, us) ==
  /\ us < T!P.trigUs => Close(Span(m, e), T!ExposureLines(us, LineOf(e)), e["shs"])
  /\ e["vmax"] >= e["rows"] * (IF m.hdr /\ us < T!P.trigUs THEN 2 ELSE 1)

\* A window that went whole settles the registers, whatever they held.
LEMMA WindowSettles ==
  ASSUME die \in AllDies, NEW m, NEW d
  PROVE  Settled(m, Whole(d, T!WindowRow(m)))
BY WindowDoes DEF Settled, Puts

\* No exposure unsettles them, whole or torn.
LEMMA ExposureKeeps ==
  ASSUME die \in AllDies, NEW m, NEW d, NEW us, (us >= T!P.trigUs) \in BOOLEAN, Settled(m, d),
         NEW n \in 0 .. Len(T!ExposureRow(m, us))
  PROVE  Settled(m, T!After(d, T!ExposureRow(m, us), n))
<1> DEFINE row == T!ExposureRow(m, us)
           e   == T!After(d, row, n)
<1>1. /\ IsRow(row)
      /\ Gives(row, "rows", {}) /\ Gives(row, "fmt", {})
      /\ T!TwoClocks => Gives(row, "clk", {T!Clock(m)})
      /\ T!OnDDR \/ FixedLine => Gives(row, "hmax", {})
  BY ExposureDoes
<1>2. Len(row) \in Nat /\ n \in Nat /\ n <= Len(row)
  BY <1>1 DEF IsRow
<1> HIDE DEF row
<1>3. \A r \in T!Registers : \A V : Gives(row, r, V) => e[r] \in V \cup {d[r]}
  BY <1>2, TornRow
<1>4. {"rows", "fmt", "clk", "hmax"} \subseteq T!Registers
  BY DEF T!Registers
<1> HIDE DEF e
<1>5. /\ e["rows"] = d["rows"] /\ e["fmt"] = d["fmt"]
      /\ T!TwoClocks => e["clk"] \in {T!Clock(m), d["clk"]}
      /\ T!OnDDR \/ FixedLine => e["hmax"] = d["hmax"]
  BY <1>1, <1>3, <1>4
<1>6. Settled(m, e)
  BY <1>5 DEF Settled
<1> QED BY <1>6 DEF e, row

\* A window's writes, whole or torn, leave the trigger.
LEMMA WindowKeepsTrigger ==
  ASSUME die \in AllDies, NEW m, NEW d, NEW n \in 0 .. Len(T!WindowRow(m))
  PROVE  T!After(d, T!WindowRow(m), n)["trig"] = d["trig"]
<1> DEFINE row == T!WindowRow(m)
<1>1. IsRow(row) /\ Gives(row, "trig", {})
  BY WindowDoes
<1>2. Len(row) \in Nat /\ n \in Nat /\ n <= Len(row) /\ "trig" \in T!Registers
  BY <1>1 DEF IsRow, T!Registers
<1> HIDE DEF row
<1>3. T!After(d, row, n)["trig"] \in {} \cup {d["trig"]}
  BY <1>1, <1>2, TornRow
<1> QED BY <1>3 DEF row

\* The exposure of each profile, as registers.
LEMMA Exposed174 ==
  ASSUME die = "imx174", NEW m, NEW d, NEW us
  PROVE  LET e == Whole(d, T!ExposureRow(m, us)) IN
         /\ e["hmax"] = Hmax174(m, us) /\ e["vmax"] = Vmax174(m, us)
         /\ e["shs"] = T!MaxOf(Vmax174(m, us) - Lines174(m, us), 10)
<1> DEFINE row == T!ExposureRow(m, us)
           l == Hmax174(m, us)
           g == us >= T!P.trigUs
           v == Vmax174(m, us)
           c == Cycles174(m, us)
           s == T!MaxOf(Vmax174(m, us) - Lines174(m, us), 10)
<1>1. row = T!Write("wait", TRUE) \o T!Write("hmax", l) \o T!Write("trig", g) \o T!Write("vmax", v)
              \o T!Write("cycles", c) \o T!Write("shs", s)
  BY ExposureOf, Numbers174 DEF AllDies
<1> HIDE DEF row, l, g, v, c, s
<1>2. Puts(row, "hmax", l) /\ Puts(row, "vmax", v) /\ Puts(row, "shs", s)
  BY <1>1, Row174
<1>3. LET e == Whole(d, row) IN e["hmax"] = l /\ e["vmax"] = v /\ e["shs"] = s
  BY <1>2 DEF Puts
<1> QED BY <1>3 DEF row, l, v, s

\* Of the starvis dies.
LEMMA ExposedStarvis ==
  ASSUME die \in AllDies, T!TwoClocks \/ die = "imx178", NEW m, NEW d, NEW us
  PROVE  LET e == Whole(d, T!ExposureRow(m, us))
             f == T!Starvis(m.h, T!ExposureLines(us, T!ShutterLineNs(m)))
         IN /\ e["vmax"] = f[1] /\ e["shs"] = f[2]
            /\ T!TwoClocks => e["hmax"] = T!STARVISHmax(m) /\ e["clk"] = T!Clock(m)
<1> DEFINE row == T!ExposureRow(m, us)
           f   == T!Starvis(m.h, T!ExposureLines(us, T!ShutterLineNs(m)))
<1>1. CASE T!TwoClocks
  <2>1. row = T!ExposeTwoClocks(m, us)
    BY <1>1, ExposureOf
  <2>2. /\ Puts(row, "vmax", f[1]) /\ Puts(row, "shs", f[2])
        /\ Puts(row, "hmax", T!STARVISHmax(m)) /\ Puts(row, "clk", T!Clock(m))
    BY <2>1, RowTwoClocks
  <2> QED BY <2>2 DEF Puts
<1>2. CASE die = "imx178"
  <2>1. row = T!Expose178(m, us) /\ ~T!TwoClocks
    BY <1>2, ExposureOf DEF T!TwoClocks
  <2>2. Puts(row, "vmax", f[1]) /\ Puts(row, "shs", f[2])
    BY <2>1, Row178
  <2> QED BY <2>1, <2>2 DEF Puts
<1> QED BY <1>1, <1>2

\* Of the DDR pair.
LEMMA ExposedDDR ==
  ASSUME die \in AllDies, T!OnDDR, NEW m, NEW d, NEW us, (us >= T!P.trigUs) \in BOOLEAN
  PROVE  LET e == Whole(d, T!ExposureRow(m, us)) IN
         /\ e["vmax"] = VmaxDDR(m, us)
         /\ e["shs"] = IF m.bin = 2 THEN ShsDDR(m, us) ELSE T!Halved(ShsDDR(m, us))
<1> DEFINE row == T!ExposureRow(m, us)
           g == us >= T!P.trigUs
           v == VmaxDDR(m, us)
           s == IF m.bin = 2 THEN ShsDDR(m, us) ELSE T!Halved(ShsDDR(m, us))
<1>1. row = T!Gates(g) \o T!Write("vmax", v) \o T!Write("shs", s)
  BY ExposureOf, NumbersDDR
<1>2. g \in BOOLEAN
  OBVIOUS
<1> HIDE DEF row, g, v, s
<1>3. Puts(row, "vmax", v) /\ Puts(row, "shs", s)
  BY <1>1, <1>2, RowGated
<1>4. Whole(d, row)["vmax"] = v /\ Whole(d, row)["shs"] = s
  BY <1>3 DEF Puts
<1> QED BY <1>4 DEF row, v, s

\* Of ZWO's IMX585.
LEMMA ExposedZWO ==
  ASSUME die = "imx585zwo", NEW m, NEW d, NEW us, (us >= T!P.trigUs) \in BOOLEAN
  PROVE  LET e == Whole(d, T!ExposureRow(m, us))
             i == HiZWO(m, us)
         IN /\ e["vmax"] = T!MinOf(i + T!P.guard, 16777215)
            /\ e["shs"] = T!MinOf(T!MaxOf(i - LinesZWO(us), T!P.guard), i)
<1> DEFINE row == T!ExposureRow(m, us)
           g == us >= T!P.trigUs
           v == T!MinOf(HiZWO(m, us) + T!P.guard, 16777215)
           s == T!MinOf(T!MaxOf(HiZWO(m, us) - LinesZWO(us), T!P.guard), HiZWO(m, us))
<1>1. row = T!Gates(g) \o T!Write("vmax", v) \o T!Write("shs", s)
  BY ExposureOf, NumbersZWO, SMT DEF AllDies
<1>2. g \in BOOLEAN
  OBVIOUS
<1> HIDE DEF row, g, v, s
<1>3. Puts(row, "vmax", v) /\ Puts(row, "shs", s)
  BY <1>1, <1>2, RowGated
<1>4. Whole(d, row)["vmax"] = v /\ Whole(d, row)["shs"] = s
  BY <1>3 DEF Puts
<1> QED BY <1>4, SMT DEF row, v, s

\* Of PlayerOne's.
LEMMA ExposedPOA ==
  ASSUME die = "imx585poa", NEW m, NEW d, NEW us
  PROVE  LET e == Whole(d, T!ExposureRow(m, us)) IN
         /\ e["hmax"] = T!HMAXPOA(m) /\ e["vmax"] = FramePOA(m, us)
         /\ e["shs"] = T!MaxOf(FramePOA(m, us) - LinesPOA(m, us), T!Guard585(m))
<1> DEFINE row == T!ExposureRow(m, us)
           l == T!HMAXPOA(m)
           v == FramePOA(m, us)
           g == us >= T!P.trigUs
           s == T!MaxOf(FramePOA(m, us) - LinesPOA(m, us), T!Guard585(m))
<1>1. row = T!Write("hmax", l) \o T!Write("vmax", v) \o T!Write("trig", g) \o T!Write("shs", s)
  BY ExposureOf, NumbersPOA DEF AllDies
<1> HIDE DEF row, l, v, g, s
<1>2. Puts(row, "hmax", l) /\ Puts(row, "vmax", v) /\ Puts(row, "shs", s)
  BY <1>1, RowPOA
<1>3. LET e == Whole(d, row) IN e["hmax"] = l /\ e["vmax"] = v /\ e["shs"] = s
  BY <1>2 DEF Puts
<1> QED BY <1>3 DEF row, l, v, s

\* So a whole exposure keeps them, and sets the trigger by its band.
LEMMA WholeKeeps ==
  ASSUME die \in AllDies, NEW m, NEW d, NEW us, (us >= T!P.trigUs) \in BOOLEAN
  PROVE  /\ Len(T!ExposureRow(m, us)) \in Nat
         /\ Whole(d, T!ExposureRow(m, us))["trig"] = (us >= T!P.trigUs)
         /\ Settled(m, d) => Settled(m, Whole(d, T!ExposureRow(m, us)))
<1> DEFINE row == T!ExposureRow(m, us)
<1>1. /\ IsRow(row) /\ Puts(row, "trig", us >= T!P.trigUs)
      /\ Gives(row, "rows", {}) /\ Gives(row, "fmt", {})
      /\ T!TwoClocks => Gives(row, "clk", {T!Clock(m)})
      /\ T!OnDDR \/ FixedLine => Gives(row, "hmax", {})
  BY ExposureDoes
<1>2. Len(row) \in Nat /\ Len(row) \in 0 .. Len(row)
  BY <1>1 DEF IsRow
<1>3. Settled(m, d) => \A n \in 0 .. Len(row) : Settled(m, T!After(d, row, n))
  BY ExposureKeeps
<1>4. Whole(d, row)["trig"] = (us >= T!P.trigUs)
  BY <1>1 DEF Puts
<1> QED BY <1>2, <1>3, <1>4 DEF Whole

\* What makes an exposure sound, number by number.
LEMMA ExactIs ==
  ASSUME NEW m, NEW e, NEW us, NEW v, NEW s, NEW l, NEW r,
         e["vmax"] = v, e["shs"] = s, e["rows"] = r, T!ExposureLines(us, LineOf(e)) = l,
         us < T!P.trigUs => Close(v - s * (IF T!OnDDR /\ m.bin # 2 THEN 2 ELSE 1), l, s),
         v >= r * (IF m.hdr /\ us < T!P.trigUs THEN 2 ELSE 1)
  PROVE  Exact(m, e, us)
BY Zenon DEF Exact, Span

\* An exposure that went whole over a settled window integrates as asked, over a
\* frame that covers the rows.
LEMMA ExposureExact ==
  ASSUME die \in AllDies, NEW m, GoodMode(m), NEW d, NEW us, us \in Nat, (us >= T!P.trigUs) \in BOOLEAN, Settled(m, d)
  PROVE  Exact(m, Whole(d, T!ExposureRow(m, us)), us)
<1> DEFINE e == Whole(d, T!ExposureRow(m, us))
           k == IF T!OnDDR /\ m.bin # 2 THEN 2 ELSE 1
           hdr == IF m.hdr /\ us < T!P.trigUs THEN 2 ELSE 1
<1>1. Settled(m, e)
  BY WholeKeeps
<1>2. m.h \in Nat /\ m.bin \in Nat /\ (m.hdr => die = "imx585poa")
  BY DEF GoodMode, TimeModes
<1>3. e["rows"] = RowsOf(m)
  BY <1>1 DEF Settled
<1>4. /\ T!TwoClocks => e["clk"] = T!Clock(m)
      /\ T!OnDDR => e["hmax"] = T!Base(m)
      /\ FixedLine => e["hmax"] = T!P.fixed
  BY <1>1 DEF Settled
<1>5. die # "imx585poa" => hdr = 1 /\ RowsOf(m) = m.h /\ RowsOf(m) * 1 = m.h
  BY <1>2 DEF RowsOf
<1>6. CASE die = "imx174"
  <2> DEFINE v == Vmax174(m, us)
             l == Lines174(m, us)
             s == T!MaxOf(v - l, 10)
  <2>1. e["hmax"] = Hmax174(m, us) /\ e["vmax"] = v /\ e["shs"] = s
    BY <1>6, Exposed174
  <2>2. v \in Nat /\ s \in Nat /\ v >= m.h /\ Close(v - s, l, s)
    BY <1>6, Shutter174
  <2>3. ~T!TwoClocks /\ ~T!OnDDR
    BY <1>6 DEF T!TwoClocks, T!OnDDR
  <2>4. T!ExposureLines(us, LineOf(e)) = l
    BY <2>1, <2>3 DEF LineOf, Lines174
  <2> HIDE DEF e, v, l, s
  <2>5. s * k = s /\ v >= RowsOf(m) * hdr
    BY <1>2, <1>5, <1>6, <2>2, <2>3
  <2> QED BY <1>3, <2>1, <2>2, <2>4, <2>5, ExactIs DEF e
<1>7. CASE T!TwoClocks \/ die = "imx178"
  <2> DEFINE n == T!ShutterLineNs(m)
             l == T!ExposureLines(us, n)
             f == T!Starvis(m.h, l)
             v == f[1]
             s == f[2]
  <2>1. /\ e["vmax"] = v /\ e["shs"] = s
        /\ T!TwoClocks => e["hmax"] = T!STARVISHmax(m) /\ e["clk"] = T!Clock(m)
    BY <1>7, ExposedStarvis
  <2>2. /\ v \in Nat /\ s \in Nat
        /\ v >= m.h /\ (us < T!P.trigUs => Close(v - s, l, s))
        /\ die = "imx178" => n = T!LineNs(T!P.fixed, T!P.clock)
        /\ T!TwoClocks => n = T!LineNs(T!STARVISHmax(m), T!Clock(m))
    BY <1>7, ShutterStarvis
  <2>3. ~T!OnDDR /\ die # "imx585poa" /\ (die = "imx178" => FixedLine /\ ~T!TwoClocks)
    BY <1>7 DEF T!TwoClocks, T!OnDDR, FixedLine
  <2>4. LineOf(e) = n
    BY <1>4, <1>7, <2>1, <2>2, <2>3 DEF LineOf
  <2>5. T!ExposureLines(us, LineOf(e)) = l
    BY <2>4
  <2> HIDE DEF e, v, l, s
  <2>6. s * k = s /\ v >= RowsOf(m) * hdr
    BY <1>2, <1>5, <2>2, <2>3
  <2> QED BY <1>3, <2>1, <2>2, <2>5, <2>6, ExactIs DEF e
<1>8. CASE T!OnDDR
  <2> DEFINE v == VmaxDDR(m, us)
             l == LinesDDR(m, us)
             s == IF m.bin = 2 THEN ShsDDR(m, us) ELSE T!Halved(ShsDDR(m, us))
  <2>1. e["vmax"] = v /\ e["shs"] = s
    BY <1>8, ExposedDDR
  <2>2. v \in Nat /\ v >= m.h /\ (us < T!P.trigUs => Close(v - s * (IF m.bin # 2 THEN 2 ELSE 1), l, s))
    BY <1>8, ShutterDDR
  <2>3. ~T!TwoClocks /\ die # "imx585poa"
    BY <1>8 DEF T!TwoClocks, T!OnDDR
  <2>4. T!ExposureLines(us, LineOf(e)) = l
    BY <1>4, <1>8, <2>3 DEF LineOf, LinesDDR
  <2> HIDE DEF e, v, l, s
  <2>5. k = (IF m.bin # 2 THEN 2 ELSE 1) /\ v >= RowsOf(m) * hdr
    BY <1>2, <1>5, <1>8, <2>2, <2>3
  <2>6. us < T!P.trigUs => Close(v - s * k, l, s)
    BY <2>2, <2>5
  <2> QED BY <1>3, <2>1, <2>4, <2>5, <2>6, ExactIs DEF e
<1>9. CASE die = "imx585zwo"
  <2> DEFINE l == LinesZWO(us)
             i == HiZWO(m, us)
             v == T!MinOf(i + T!P.guard, 16777215)
             s == T!MinOf(T!MaxOf(i - l, T!P.guard), i)
  <2>1. e["vmax"] = v /\ e["shs"] = s
    BY <1>9, ExposedZWO, SMT
  <2>2. v \in Nat /\ s \in Nat /\ v >= m.h /\ (us < T!P.trigUs => Close(v - s, l, s))
    BY <1>9, ShutterZWO, SMT
  <2>3. ~T!TwoClocks /\ ~T!OnDDR /\ FixedLine
    BY <1>9 DEF T!TwoClocks, T!OnDDR, FixedLine
  <2>4. T!ExposureLines(us, LineOf(e)) = l
    BY <1>4, <2>3 DEF LineOf, LinesZWO
  <2> HIDE DEF e, v, l, s
  <2>5. s * k = s /\ v >= RowsOf(m) * hdr
    BY <1>2, <1>5, <1>9, <2>2, <2>3
  <2> QED BY <1>3, <2>1, <2>2, <2>4, <2>5, ExactIs DEF e
<1>10. CASE die = "imx585poa"
  <2> DEFINE v == FramePOA(m, us)
             l == T!ExposureLines(us, T!LineNs(T!HMAXPOA(m), T!P.clock))
             s == T!MaxOf(v - LinesPOA(m, us), T!Guard585(m))
  <2>1. e["hmax"] = T!HMAXPOA(m) /\ e["vmax"] = v /\ e["shs"] = s
    BY <1>10, ExposedPOA
  <2>2. v \in Nat /\ s \in Nat /\ v >= m.h * m.bin * hdr /\ (us < T!P.trigUs => Close(v - s, l, s))
    BY <1>10, ShutterPOA
  <2>3. ~T!TwoClocks /\ ~T!OnDDR /\ RowsOf(m) = m.h * m.bin
    BY <1>10 DEF T!TwoClocks, T!OnDDR, RowsOf
  <2>4. T!ExposureLines(us, LineOf(e)) = l
    BY <2>1, <2>3 DEF LineOf
  <2> HIDE DEF e, v, l, s
  <2>5. s * k = s
    BY <2>2, <2>3
  <2> QED BY <1>3, <2>1, <2>2, <2>3, <2>4, <2>5, ExactIs DEF e
<1> QED BY <1>6, <1>7, <1>8, <1>9, <1>10 DEF AllDies, T!TwoClocks, T!OnDDR, e

-----------------------------------------------------------------------------
(* The invariant *)

\* The types of the state.
TimingTyped ==
  /\ die \in AllDies /\ GoodMode(tmode) /\ expDur \in Nat
  /\ settled \in BOOLEAN /\ fresh \in BOOLEAN /\ tbroken \in BOOLEAN

\* What the last whole window, and the last whole exposure, left.
TimingInv ==
  /\ TimingTyped
  /\ ~tbroken => tdev["trig"] = (expDur >= T!P.trigUs)
  /\ settled => Settled(tmode, tdev)
  /\ T!Ready => Exact(tmode, tdev, expDur)

\* Every profile's long band starts at a natural number, so a duration is in it
\* or is not.
LEMMA Band ==
  ASSUME die \in AllDies, NEW us \in Nat
  PROVE  T!P.trigUs \in Nat /\ T!P.trigUs > 0 /\ (us >= T!P.trigUs) \in BOOLEAN
<1>1. T!P.trigUs \in {1000000, 4000000}
  BY Numbers, SMT DEF AllDies, T!TwoClocks, T!OnDDR
<1> QED BY <1>1, SMT

\* A step leaves the profile, so what is true of the next mode and registers is
\* true of them after it.
LEMMA Carried ==
  ASSUME die' = die, NEW m, NEW d, NEW us, tmode' = m, tdev' = d, expDur' = us
  PROVE  /\ T!P' = T!P
         /\ GoodMode(m) => GoodMode(tmode)'
         /\ Settled(m, d) => Settled(tmode, tdev)'
         /\ Exact(m, d, us) => Exact(tmode, tdev, expDur)'
<1>1. T!P' = T!P /\ (T!TwoClocks' <=> T!TwoClocks) /\ (T!OnDDR' <=> T!OnDDR) /\ (FixedLine' <=> FixedLine)
  BY DEF T!P, T!TwoClocks, T!OnDDR, FixedLine
<1>2. GoodMode(m) => GoodMode(tmode)'
  BY <1>1 DEF GoodMode, T!Bins, T!OnDDR
<1>3. Settled(m, d) => Settled(tmode, tdev)'
  BY <1>1 DEF Settled, RowsOf, T!Clock, T!HighSpeed, T!Base
<1>4. Exact(m, d, us) => Exact(tmode, tdev, expDur)'
  BY <1>1 DEF Exact, Span, LineOf
<1> QED BY <1>1, <1>2, <1>3, <1>4

\* So the invariant holds after a step that gives it to the next mode, registers
\* and duration.
LEMMA Step ==
  ASSUME die' = die, die \in AllDies, NEW m, NEW d, NEW us, tmode' = m, tdev' = d, expDur' = us,
         GoodMode(m), us \in Nat, settled' \in BOOLEAN, fresh' \in BOOLEAN, tbroken' \in BOOLEAN,
         ~tbroken' => d["trig"] = (us >= T!P.trigUs),
         settled' => Settled(m, d),
         settled' /\ fresh' => Exact(m, d, us)
  PROVE  TimingInv'
<1>1. /\ T!P' = T!P
      /\ GoodMode(tmode)'
      /\ settled' => Settled(tmode, tdev)'
      /\ settled' /\ fresh' => Exact(tmode, tdev, expDur)'
  BY Carried
<1>2. (TimingTyped)'
  BY <1>1 DEF TimingTyped
<1>3. (~tbroken => tdev["trig"] = (expDur >= T!P.trigUs))'
  BY <1>1, Zenon
<1>4. (T!Ready => Exact(tmode, tdev, expDur))'
  BY <1>1 DEF T!Ready
<1> QED BY <1>1, <1>2, <1>3, <1>4 DEF TimingInv

\* The power-on registers hold no trigger.
LEMMA TimingInit == T!TimingConstants /\ T!Init => TimingInv
<1> SUFFICES ASSUME T!TimingConstants, T!Init PROVE TimingInv
  OBVIOUS
<1>1. die \in AllDies /\ expDur = 0 /\ settled = TRUE /\ fresh = FALSE /\ tbroken = FALSE
  <2>1. AllDies = DOMAIN T!Profile
    BY DEF AllDies, T!Profile
  <2> QED BY <2>1 DEF T!Init, T!TimingConstants
<1>2. T!P.w \in Nat /\ T!P.h \in Nat /\ T!P.trigUs \in Nat /\ T!P.trigUs > 0
  BY <1>1, Numbers, SMT DEF AllDies, T!TwoClocks, T!OnDDR
<1>3. GoodMode(tmode)
  <2>1. PICK usb3 \in BOOLEAN :
          tmode = [w |-> T!P.w, h |-> T!P.h, bin |-> 1, bpp |-> 2, hs |-> FALSE, usb3 |-> usb3,
                  pct |-> 100, limit |-> 0, hdr |-> FALSE]
    BY DEF T!Init, T!TimingConstants
  <2>2. tmode \in TimeModes
    BY <1>2, <2>1 DEF TimeModes
  <2>3. 1 \in T!Bins
    BY DEF T!Bins
  <2> QED BY <1>2, <2>1, <2>2, <2>3 DEF GoodMode
<1>4. tdev = Whole(T!PowerOn, T!WindowRow(tmode))
  BY DEF T!Init, Whole
<1>5. Settled(tmode, tdev)
  BY <1>1, <1>4, WindowSettles
<1>6. tdev["trig"] = FALSE
  <2>1. IsRow(T!WindowRow(tmode))
    BY <1>1, WindowDoes
  <2>2. Len(T!WindowRow(tmode)) \in 0 .. Len(T!WindowRow(tmode))
    BY <2>1 DEF IsRow
  <2>3. tdev["trig"] = T!PowerOn["trig"]
    BY <1>1, <1>4, <2>2, WindowKeepsTrigger DEF Whole
  <2>4. T!PowerOn["trig"] = FALSE
    BY SMT DEF T!PowerOn, T!Registers
  <2> QED BY <2>3, <2>4
<1>7. ~(expDur >= T!P.trigUs) /\ expDur \in Nat
  BY <1>1, <1>2
<1>8. tdev["trig"] = (expDur >= T!P.trigUs)
  <2> DEFINE long == expDur >= T!P.trigUs
  <2>1. long \in BOOLEAN /\ ~long
    BY <1>7
  <2> HIDE DEF long
  <2>2. tdev["trig"] = long
    BY <1>6, <2>1
  <2> QED BY <2>2 DEF long
<1>9. TimingTyped
  BY <1>1, <1>3, <1>7 DEF TimingTyped
<1> QED BY <1>1, <1>5, <1>8, <1>9, Zenon DEF TimingInv, T!Ready

\* SetExposure.
LEMMA TimingExposes ==
  ASSUME TimingInv, NEW us, us \in Nat, T!SetExposure(us)
  PROVE  TimingInv'
<1> DEFINE row == T!ExposureRow(tmode, us)
           m   == tmode
           d   == tdev'
<1>1. /\ die \in AllDies /\ GoodMode(m) /\ expDur \in Nat
      /\ settled \in BOOLEAN /\ fresh \in BOOLEAN /\ tbroken \in BOOLEAN
      /\ (us >= T!P.trigUs) \in BOOLEAN
      /\ settled => Settled(m, tdev)
  BY Band DEF TimingInv, TimingTyped
<1>2. die' = die /\ tmode' = m /\ settled' = settled
  BY DEF T!SetExposure
<1>3. CASE tdev' = Whole(tdev, row) /\ expDur' = us /\ fresh' = TRUE /\ tbroken' = FALSE
  <2>1. Whole(tdev, row)["trig"] = (us >= T!P.trigUs)
    BY <1>1, WholeKeeps
  <2>2. d["trig"] = (us >= T!P.trigUs)
    BY <1>3, <2>1
  <2>3. settled => Settled(m, d)
    BY <1>1, <1>3, WholeKeeps
  <2>4. settled => Exact(m, d, us)
    <3>1. us \in Nat
      OBVIOUS
    <3> QED BY <1>1, <1>3, <3>1, ExposureExact
  <2> HIDE DEF m, d
  <2> QED BY <1>1, <1>2, <1>3, <2>2, <2>3, <2>4, Step, Zenon DEF d
<1>4. CASE \E n \in 0 .. Len(row) - 1 :
             tdev' = T!After(tdev, row, n) /\ expDur' = expDur /\ fresh' = FALSE /\ tbroken' = TRUE
  <2>1. PICK n \in 0 .. Len(row) - 1 : tdev' = T!After(tdev, row, n)
    BY <1>4
  <2>2. n \in 0 .. Len(row)
    <3>1. Len(row) \in Nat
      BY <1>1, WholeKeeps
    <3> QED BY <3>1
  <2>3. settled => Settled(m, d)
    BY <1>1, <2>1, <2>2, ExposureKeeps
  <2>4. expDur' = expDur /\ fresh' = FALSE /\ tbroken' = TRUE
    BY <1>4
  <2> HIDE DEF m, d
  <2> QED BY <1>1, <1>2, <2>3, <2>4, Step, Zenon DEF d
<1> QED BY <1>3, <1>4 DEF T!SetExposure, Whole

\* A window programmed, and one put back.
LEMMA TimingPrograms ==
  ASSUME TimingInv, NEW m, NEW kept, NEW undone, GoodMode(m), GoodMode(kept), T!Program(m, kept, undone)
  PROVE  TimingInv'
<1> DEFINE row  == T!WindowRow(m)
           back == T!WindowRow(kept)
           d    == tdev'
<1>1. /\ die \in AllDies /\ expDur \in Nat /\ tbroken \in BOOLEAN
      /\ ~tbroken => tdev["trig"] = (expDur >= T!P.trigUs)
  BY DEF TimingInv, TimingTyped
<1>2. die' = die /\ expDur' = expDur /\ tbroken' = tbroken /\ fresh' = FALSE
  BY DEF T!Program
<1>3. /\ Len(row) \in Nat /\ Len(row) \in 0 .. Len(row)
      /\ Len(back) \in Nat /\ Len(back) \in 0 .. Len(back)
  <2>1. IsRow(row) /\ IsRow(back)
    BY <1>1, WindowDoes
  <2> QED BY <2>1 DEF IsRow
<1>4. CASE tmode' = m /\ tdev' = Whole(tdev, row) /\ settled' = TRUE
  <2>1. d["trig"] = tdev["trig"]
    BY <1>1, <1>3, <1>4, WindowKeepsTrigger DEF Whole
  <2>2. Settled(m, d)
    BY <1>1, <1>4, WindowSettles
  <2> HIDE DEF d
  <2> QED BY <1>1, <1>2, <1>4, <2>1, <2>2, Step, Zenon DEF d
<1>5. ASSUME tmode' = kept, NEW n \in 0 .. Len(row) - 1,
             \/ tdev' = Whole(T!After(tdev, row, n), back) /\ settled' = TRUE
             \/ tdev' = T!After(tdev, row, n) /\ settled' = FALSE
      PROVE  TimingInv'
  <2> DEFINE torn == T!After(tdev, row, n)
  <2>1. torn["trig"] = tdev["trig"]
    BY <1>1, <1>3, WindowKeepsTrigger
  <2>2. CASE tdev' = Whole(torn, back) /\ settled' = TRUE
    <3> HIDE DEF torn
    <3>1. d["trig"] = tdev["trig"]
      BY <1>1, <1>3, <2>1, <2>2, WindowKeepsTrigger DEF Whole
    <3>2. Settled(kept, d)
      BY <1>1, <2>2, WindowSettles
    <3> HIDE DEF d
    <3> QED BY <1>1, <1>2, <1>5, <2>2, <3>1, <3>2, Step, Zenon DEF d
  <2>3. CASE tdev' = torn /\ settled' = FALSE
    <3>1. d["trig"] = tdev["trig"]
      BY <2>1, <2>3
    <3> HIDE DEF d
    <3> QED BY <1>1, <1>2, <1>5, <2>3, <3>1, Step, Zenon DEF d
  <2> QED BY <1>5, <2>2, <2>3
<1> QED BY <1>4, <1>5 DEF T!Program, Whole

\* A rate that is only noted.
LEMMA TimingThrottles ==
  ASSUME TimingInv, NEW m, GoodMode(m), T!Throttle(m),
         m.h = tmode.h, m.bin = tmode.bin, m.bpp = tmode.bpp, m.hs = tmode.hs, m.hdr = tmode.hdr
  PROVE  TimingInv'
<1>1. /\ die \in AllDies /\ expDur \in Nat
      /\ settled \in BOOLEAN /\ fresh \in BOOLEAN /\ tbroken \in BOOLEAN
      /\ ~tbroken => tdev["trig"] = (expDur >= T!P.trigUs)
      /\ settled => Settled(tmode, tdev)
      /\ settled /\ fresh => Exact(tmode, tdev, expDur)
  BY DEF TimingInv, TimingTyped, T!Ready
<1>2. /\ die' = die /\ tmode' = m /\ tdev' = tdev /\ expDur' = expDur
      /\ settled' = settled /\ fresh' = fresh /\ tbroken' = tbroken
  BY DEF T!Throttle
<1>3. settled => Settled(m, tdev)
  BY <1>1 DEF Settled, RowsOf, T!Clock, T!HighSpeed, T!Base
<1>4. settled /\ fresh => Exact(m, tdev, expDur)
  BY <1>1, Zenon DEF Exact, Span
<1> QED BY <1>1, <1>2, <1>3, <1>4, Step, Zenon

\* SetROI makes a mode of the profile: its window is no taller than the sensor.
LEMMA TimingSetsROI ==
  ASSUME T!TimingConstants, TimingInv, NEW k \in Shrinks, NEW bin \in T!Bins, T!SetROI(k, bin)
  PROVE  TimingInv'
<1> DEFINE q == k * bin
           w == T!P.w \div q
           h == T!P.h \div q
           x == T!P.w
           y == T!P.h
           m == [tmode EXCEPT !.w = w, !.h = h, !.bin = bin]
<1>1. /\ die \in AllDies /\ tmode \in TimeModes /\ GoodMode(tmode) /\ (tmode.hdr => die = "imx585poa")
      /\ T!Program(m, tmode, FALSE)
  BY DEF TimingInv, TimingTyped, GoodMode, T!SetROI
<1>2. T!P.w \in Nat /\ T!P.h \in Nat
  BY <1>1, Numbers, SMT DEF AllDies, T!TwoClocks, T!OnDDR
<1>3. bin \in Nat /\ bin >= 1 /\ k \in Nat /\ k >= 1
  BY DEF T!Bins, T!TimingConstants
<1>4. q \in Nat /\ q >= 1
  <2>1. (k - 1) * bin \in Nat /\ (k - 1) * bin = k * bin - bin
    BY <1>3
  <2> QED BY <1>3, <2>1
<1>5. x \in Nat /\ y \in Nat /\ w = x \div q /\ h = y \div q
  BY <1>2
<1> HIDE DEF q, w, h, x, y
<1>6. w \in Nat /\ h \in Nat
  BY <1>4, <1>5
<1>7. h <= y
  <2>1. q * h <= y
    BY <1>4, <1>5, <1>6
  <2>2. (q - 1) * h \in Nat /\ (q - 1) * h = q * h - h /\ q * h \in Nat
    BY <1>4, <1>6
  <2> QED BY <1>5, <1>6, <2>1, <2>2
<1>8. m \in TimeModes /\ m.h = h /\ m.bin = bin /\ m.hdr = tmode.hdr
  BY <1>1, <1>3, <1>6 DEF TimeModes
<1> HIDE DEF m
<1>9. GoodMode(m)
  BY <1>1, <1>7, <1>8 DEF GoodMode, y
<1> QED BY <1>1, <1>9, TimingPrograms

\* Every step.
LEMMA TimingNext == T!TimingConstants /\ TimingInv /\ [T!Next]_(T!vars) => TimingInv'
<1> SUFFICES ASSUME T!TimingConstants, TimingInv, [T!Next]_(T!vars) PROVE TimingInv'
  OBVIOUS
<1>1. GoodMode(tmode) /\ tmode \in TimeModes
  BY DEF TimingInv, TimingTyped, GoodMode
<1>2. ASSUME NEW us \in Exposures, T!SetExposure(us) PROVE TimingInv'
  <2>1. us \in Nat
    BY DEF T!TimingConstants
  <2> QED BY <1>2, <2>1, TimingExposes
<1>3. ASSUME NEW k \in Shrinks, NEW bin \in T!Bins, T!SetROI(k, bin) PROVE TimingInv'
  BY <1>3, TimingSetsROI
<1>4. ASSUME NEW on \in BOOLEAN, T!SetHighSpeedMode(on) PROVE TimingInv'
  <2> DEFINE m == [tmode EXCEPT !.hs = on]
  <2>1. GoodMode(m)
    BY <1>1, <1>4 DEF GoodMode, TimeModes
  <2>2. T!Program(m, m, FALSE)
    BY <1>4 DEF T!SetHighSpeedMode
  <2> HIDE DEF m
  <2> QED BY <2>1, <2>2, TimingPrograms
<1>5. ASSUME NEW on \in BOOLEAN, T!SetSensorMode(on) PROVE TimingInv'
  <2> DEFINE m == [tmode EXCEPT !.hdr = on]
  <2>1. GoodMode(m)
    BY <1>1, <1>5 DEF GoodMode, TimeModes, T!SetSensorMode
  <2>2. T!Program(m, tmode, TRUE)
    BY <1>5 DEF T!SetSensorMode
  <2> HIDE DEF m
  <2> QED BY <1>1, <2>1, <2>2, TimingPrograms
<1>6. ASSUME NEW bpp \in {1, 2}, T!SetOutputDepth(bpp) PROVE TimingInv'
  <2> DEFINE m == [tmode EXCEPT !.bpp = bpp]
  <2>1. GoodMode(m)
    BY <1>1, <1>6 DEF GoodMode, TimeModes
  <2>2. T!Program(m, tmode, TRUE)
    BY <1>6 DEF T!SetOutputDepth
  <2> HIDE DEF m
  <2> QED BY <1>1, <2>1, <2>2, TimingPrograms
<1>7. ASSUME NEW pct \in Percents, T!SetFPSPercent(pct) PROVE TimingInv'
  <2> DEFINE m == [tmode EXCEPT !.pct = pct]
  <2>1. pct \in 1 .. 100
    BY DEF T!TimingConstants
  <2>2. GoodMode(m)
    BY <1>1, <1>7, <2>1 DEF GoodMode, TimeModes
  <2>3. T!Throttle(m)
    BY <1>7 DEF T!SetFPSPercent
  <2>4. m.h = tmode.h /\ m.bin = tmode.bin /\ m.bpp = tmode.bpp /\ m.hs = tmode.hs /\ m.hdr = tmode.hdr
    BY <1>1 DEF TimeModes
  <2> HIDE DEF m
  <2> QED BY <2>2, <2>3, <2>4, TimingThrottles
<1>8. ASSUME NEW fps \in Limits, T!SetFrameRateLimit(fps) PROVE TimingInv'
  <2> DEFINE m == [tmode EXCEPT !.limit = fps]
  <2>1. fps \in Nat
    BY DEF T!TimingConstants
  <2>2. GoodMode(m)
    BY <1>1, <1>8, <2>1 DEF GoodMode, TimeModes
  <2>3. T!Throttle(m)
    BY <1>8 DEF T!SetFrameRateLimit
  <2>4. m.h = tmode.h /\ m.bin = tmode.bin /\ m.bpp = tmode.bpp /\ m.hs = tmode.hs /\ m.hdr = tmode.hdr
    BY <1>1 DEF TimeModes
  <2> HIDE DEF m
  <2> QED BY <2>2, <2>3, <2>4, TimingThrottles
<1>9. CASE UNCHANGED T!vars
  <2>1. /\ die' = die /\ tmode' = tmode /\ tdev' = tdev /\ expDur' = expDur
        /\ settled' = settled /\ fresh' = fresh /\ tbroken' = tbroken
    BY <1>9 DEF T!vars
  <2>2. /\ die \in AllDies /\ GoodMode(tmode) /\ expDur \in Nat
        /\ settled \in BOOLEAN /\ fresh \in BOOLEAN /\ tbroken \in BOOLEAN
        /\ ~tbroken => tdev["trig"] = (expDur >= T!P.trigUs)
        /\ settled => Settled(tmode, tdev)
        /\ settled /\ fresh => Exact(tmode, tdev, expDur)
    BY DEF TimingInv, TimingTyped, T!Ready
  <2> QED BY <2>1, <2>2, Step, Zenon
<1> QED BY <1>2, <1>3, <1>4, <1>5, <1>6, <1>7, <1>8, <1>9 DEF T!Next

\* In every reachable state, whatever the modes, durations and failing transfers,
\* the registers are settled by the last whole window and sound after the last
\* whole exposure.
THEOREM TimingInvariant == ASSUME T!TimingConstants PROVE T!Spec => []TimingInv
<1>1. T!Init => TimingInv
  BY TimingInit
<1>2. TimingInv /\ [T!Next]_(T!vars) => TimingInv'
  BY TimingNext
<1> QED BY <1>1, <1>2, PTL DEF T!Spec

\* So every exposure that went whole over a whole window integrates what was asked
\* for, to within nine lines of the period the sensor really runs at; its frame
\* covers the rows the FPGA was told to expect; the readout format is the clock's;
\* and the FPGA waits for a trigger exactly when the worker gives one.
THEOREM ExposureIsRight == ASSUME T!TimingConstants PROVE T!Spec => []T!ExposureHolds
<1>1. TimingInv => T!ExposureHolds
  <2> SUFFICES ASSUME TimingInv PROVE T!ExposureHolds
    OBVIOUS
  <2>1. /\ T!Ready => Exact(tmode, tdev, expDur)
        /\ settled => Settled(tmode, tdev)
        /\ ~tbroken => tdev["trig"] = (expDur >= T!P.trigUs)
    BY DEF TimingInv
  <2>2. T!Integrated = Span(tmode, tdev) /\ T!DeviceLineNs = LineOf(tdev)
    BY Zenon DEF T!Integrated, Span, T!DeviceLineNs, LineOf
  <2>3. T!IntegratesAsAsked
    BY <2>1, <2>2, Zenon DEF T!IntegratesAsAsked, Exact, Close
  <2>4. T!FrameCovered
    BY <2>1, Zenon DEF T!FrameCovered, Exact
  <2>5. T!FormatAgrees
    BY <2>1 DEF T!FormatAgrees, Settled
  <2>6. T!BandAgrees
    BY <2>1, Zenon DEF T!BandAgrees
  <2> QED BY <2>3, <2>4, <2>5, <2>6 DEF T!ExposureHolds
<1> QED BY <1>1, TimingInvariant, PTL
=============================================================================
