------------------------------ MODULE MCStreams ------------------------------
(* What TLC checks in one run of the ways bytes leave the device, and of what *)
(* is done to them on the way to the caller:                                 *)
(*   "usbfs"    the resident session of Stream                               *)
(*   "others"   those of Sessions: IOKit with frames of one and a half       *)
(*              transfers, IOKit with one frame to a transfer (the only one  *)
(*              NextZC is for), and WinUSB                                   *)
(*   "reads"    the eight engines of FrameReads                              *)
(*   "device"   the locks of Backends on IOKit, with two session users       *)
(*   "frames"   the repair and binning of Frames                             *)
(* A behaviour is of one scenario and leaves the variables of the others as  *)
(* they start.  The prefixes r, s, d and f keep their names apart.           *)
EXTENDS Stream

CONSTANTS u1, u2

VARIABLES
  scenario,
  rengine, rslots, rfifo, rready, rnxt, rcur, rbuf, rgot, routstanding, rpc, rret, rout,
  rlate, rlatch, rrefused, rbroken, rsent, rexcused, rafter,
  sconf, sslots, snext, ssubmit, ssegOff, sdesync, sheld, scomp, sunclaimed,
  sposting, sclosing, sleaked, sbusy, scopied, stail, sbuf, ssent, sframes,
  scut,
  dhost, dpc, dkind, dshared, dwriter, dio, dclosed, dbroken, dfreed,
  dlatch, dheard, dsess, dreg, dmu, dtarget, dtodo,
  fwire, fstart, fsecond, fflagged, fbuf, faligned, fstep, fat

readVars   == <<rengine, rslots, rfifo, rready, rnxt, rcur, rbuf, rgot, routstanding, rpc, rret, rout, rlate, rlatch, rrefused, rbroken, rsent, rexcused, rafter>>
sessVars   == <<sconf, sslots, snext, ssubmit, ssegOff, sdesync, sheld, scomp, sunclaimed, sposting, sclosing, sleaked, sbusy, scopied, stail, sbuf, ssent, sframes, scut>>
deviceVars == <<dhost, dpc, dkind, dshared, dwriter, dio, dclosed, dbroken, dfreed, dlatch, dheard, dsess, dreg, dmu, dtarget, dtodo>>
frameVars  == <<fwire, fstart, fsecond, fflagged, fbuf, faligned, fstep, fat>>

Large  == [host |-> "iokit",  frame |-> 3, trailer |-> 1, chunk |-> 2]
Small  == [host |-> "iokit",  frame |-> 2, trailer |-> 1, chunk |-> 3]
WinUSB == [host |-> "winusb", frame |-> 3, trailer |-> 0, chunk |-> 2]

R == INSTANCE FrameReads WITH
       Engines <- {"urbs", "urbpreq", "async", "preq", "winbatch", "urbstream", "winstream", "pump"},
       FrameLen <- 5, Pad <- 1, Chunk <- 2, Window <- 2, MaxSent <- 7, MaxRefused <- 3,
       engine <- rengine, slots <- rslots, fifo <- rfifo, ready <- rready,
       nxt <- rnxt, cur <- rcur, buf <- rbuf, got <- rgot, outstanding <- routstanding, pc <- rpc,
       ret <- rret, out <- rout, late <- rlate, latch <- rlatch,
       refused <- rrefused, broken <- rbroken, sent <- rsent,
       excused <- rexcused, after <- rafter

S == INSTANCE Sessions WITH
       Configs <- {Large, Small, WinUSB}, Window <- 3, MayRefuse <- TRUE, MayStall <- TRUE,
       MaxFrames <- 2, MaxSegments <- 5,
       conf <- sconf, slots <- sslots, next <- snext, submit <- ssubmit,
       segOff <- ssegOff, desync <- sdesync, held <- sheld, comp <- scomp,
       unclaimed <- sunclaimed, posting <- sposting, closing <- sclosing,
       leaked <- sleaked, busy <- sbusy, copied <- scopied, tail <- stail,
       buf <- sbuf, sent <- ssent, frames <- sframes, cut <- scut

D == INSTANCE Backends WITH
       Hosts <- {"iokit"}, Users <- {u1, u2}, MayBreak <- TRUE, CameraStops <- FALSE,
       host <- dhost, pc <- dpc, kind <- dkind, shared <- dshared,
       writer <- dwriter, io <- dio, closed <- dclosed, broken <- dbroken,
       freed <- dfreed, latch <- dlatch, heard <- dheard, sess <- dsess,
       reg <- dreg, mu <- dmu, target <- dtarget, todo <- dtodo

\* A wire frame of 12 by 8: a ZWO profile with the FX3's markers, binned by the
\* host; a PlayerOne, binned by the die or the FPGA and the host; one without either.
Wire(fx3, vendor, color, bpp, soft, bin) ==
  [fx3 |-> fx3, vendor |-> vendor, color |-> color, bpp |-> bpp, w |-> 12, h |-> 8,
   soft |-> soft, bin |-> bin]

F == INSTANCE Frames WITH
       Wires <- {Wire(TRUE, FALSE, color, bpp, soft, soft) : color \in BOOLEAN, bpp \in {1, 2}, soft \in 1 .. 4}
          \cup {Wire(FALSE, TRUE, color, bpp, soft, bin) : color \in BOOLEAN, bpp \in {1, 2}, soft \in {1, 2}, bin \in {2, 4}}
          \cup {Wire(FALSE, FALSE, color, 2, 1, 1) : color \in BOOLEAN},
       Starts <- {0, 3, 10}, Seconds <- {0, 50, 84},
       Maps <- {{}, {15, 61}, {62, 63}, {33, 47, 59, 60, 61, 62, 63, 75, 89}},
       wire <- fwire, start <- fstart, second <- fsecond, flagged <- fflagged,
       buf <- fbuf, aligned <- faligned, step <- fstep, at <- fat

ASSUME R!FrameReadsAssumption /\ S!SessionsAssumption /\ F!FramesConstants

UsbfsAtRest  == Init /\ submit = Window
ReadsAtRest  == R!Init /\ rengine = "urbs"
OthersAtRest == S!Init /\ sconf = Large /\ ssubmit = 3
DeviceAtRest == D!Init /\ dtarget = u1
FramesAtRest ==
  /\ fwire = Wire(FALSE, FALSE, FALSE, 2, 1, 1) /\ fstart = 0 /\ fsecond = 0 /\ fflagged = {}
  /\ fbuf = [p \in 0 .. 95 |-> {p}] /\ faligned = TRUE /\ fstep = "fx3" /\ fat = 0

AllInit ==
  \/ scenario = "usbfs"  /\ Init   /\ OthersAtRest /\ ReadsAtRest  /\ DeviceAtRest /\ FramesAtRest
  \/ scenario = "others" /\ S!Init /\ UsbfsAtRest  /\ ReadsAtRest  /\ DeviceAtRest /\ FramesAtRest
  \/ scenario = "reads"  /\ R!Init /\ UsbfsAtRest  /\ OthersAtRest /\ DeviceAtRest /\ FramesAtRest
  \/ scenario = "device" /\ D!Init /\ UsbfsAtRest  /\ OthersAtRest /\ ReadsAtRest  /\ FramesAtRest
  \/ scenario = "frames" /\ F!Init /\ UsbfsAtRest  /\ OthersAtRest /\ ReadsAtRest  /\ DeviceAtRest

UsbfsNext  == scenario = "usbfs"  /\ Next   /\ UNCHANGED <<scenario, sessVars, readVars, deviceVars, frameVars>>
OthersNext == scenario = "others" /\ S!Next /\ UNCHANGED <<scenario, vars, readVars, deviceVars, frameVars>>
ReadsNext  == scenario = "reads"  /\ R!Next /\ UNCHANGED <<scenario, vars, sessVars, deviceVars, frameVars>>
DeviceNext == scenario = "device" /\ D!Next /\ UNCHANGED <<scenario, vars, sessVars, readVars, frameVars>>
FramesNext == scenario = "frames" /\ F!Next /\ UNCHANGED <<scenario, vars, sessVars, readVars, deviceVars>>

AllNext == UsbfsNext \/ OthersNext \/ ReadsNext \/ DeviceNext \/ FramesNext

AllSpec == AllInit /\ [][AllNext]_<<scenario, vars, sessVars, readVars, deviceVars, frameVars>>

-----------------------------------------------------------------------------
(* The properties of the instances *)

\* Sessions!SegmentsHeld, LentUntouched, SignalsBalance and FramesInOrder: every
\* segment is in exactly one slot, the one NextZC lent is nobody else's, each
\* completed slot has one signal, and IOKit's frames are the device's.
SessionsHold ==
  scenario = "others" =>
    S!TypeOK /\ S!SegmentsHeld /\ S!LentUntouched /\ S!SignalsBalance /\ S!FramesInOrder

\* FrameReads!PrefixIntact, NoOverread and ShortHasCause: the count covers a prefix
\* of what the device sent, no byte of the next frame is taken, and no engine lets
\* its window run dry.
ReadsHold == scenario = "reads" => R!TypeOK /\ R!PrefixIntact /\ R!NoOverread /\ R!ShortHasCause
\* FrameReads!OneAfterAbort: an abort ends the submitting within one transfer.
OneAfterAbort == R!OneAfterAbort

\* Backends!OneSession: one window on the pipe (IOKit).
OneSession == scenario = "device" => D!OneSession

\* Frames!FrameHolds and RefusedForStart: no sample returned is made of a marker,
\* of another frame, of another colour or of a pixel the defect map names, a
\* binned one of all the pixels it stands for, and only a frame that starts in
\* the middle of another is refused.
FramesHold == scenario = "frames" => F!FrameHolds /\ F!RefusedForStart
=============================================================================
