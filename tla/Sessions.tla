------------------------------ MODULE Sessions ------------------------------
(***************************************************************************)
(* The resident sessions of the two other hosts: IOKit's asicam_stream     *)
(* behind darwinStream, and winusbStream.  Like usbfsStream (Stream) each  *)
(* keeps a window of transfers cycling and assembles frames in segment     *)
(* order; this module is about what differs:                               *)
(*   - IOKit counts completions with a semaphore that waiting consumes     *)
(*     (unclaimed) and recycling claims, and lends a slot out whole        *)
(*     (NextZC, Release);                                                  *)
(*   - WinUSB drops no trailer and latches no desync.                      *)
(* Next, NextZC, Release and Close do not run beside each other            *)
(* (single-consumer); what runs beside them is the kernel and, on IOKit,   *)
(* the callback thread.  Calls refused at once are left out.               *)
(*                                                                         *)
(* Bytes are positions in what the device sends, as in Stream.             *)
(***************************************************************************)
EXTENDS Integers, Sequences, FiniteSets

CONSTANTS
  Configs,      \* a set of [host, frame, trailer, chunk]
  Window,       \* ASI_SWIN, winPrequeuedWindow
  MayRefuse,    \* a submission may fail
  MayStall,     \* a transfer may end in a hard error
  MaxFrames,    \* bound: frames the device sends in a behaviour
  MaxSegments   \* bound: no empty transfer once so many have been submitted

ConfigType == [host : {"iokit", "winusb"}, frame : Nat \ {0}, trailer : Nat, chunk : Nat \ {0}]

SessionsAssumption ==
  /\ Configs \subseteq ConfigType
  /\ Window \in Nat \ {0}
  /\ MayRefuse \in BOOLEAN /\ MayStall \in BOOLEAN
  /\ MaxFrames \in Nat /\ MaxSegments \in Nat

Slots == 1 .. Window

VARIABLES
  conf,       \* the session's host and sizes, fixed
  slots,      \* [own, seq, from, n, hard]: own is "kernel" (armed), "done" or "none"
  next,       \* next_seq, the segment to consume next
  submit,     \* submit_seq
  segOff,     \* bytes consumed of segment next
  desync,     \* desynced
  held,       \* the slot NextZC lent out, 0 if none
  comp,       \* completion signals posted and not consumed
  unclaimed,  \* signals consumed while waiting, not yet matched to a recycled slot
  posting,    \* the callback marked its slot done and has yet to signal
  closing,    \* "open", "draining" or "closed"
  leaked,     \* the session was leaked or pinned and the device poisoned
  busy,       \* the call in progress: "no", "next" or "zc"
  copied, tail, buf,
  sent,       \* the position of the next byte the device sends
  \* history, read by properties only
  frames,     \* the frames returned whole
  cut         \* IOKit: alignment was given up where the latch does not look

ringVars == <<slots, next, submit, segOff>>
semVars  == <<comp, unclaimed, posting>>
callVars == <<busy, copied, tail, buf>>
endVars  == <<closing, leaked>>
histVars == <<frames, cut>>
vars == <<conf, ringVars, desync, held, semVars, callVars, endVars, sent, histVars>>

Lesser(a, b) == IF a < b THEN a ELSE b
Span     == conf.frame + conf.trailer
MaxBytes == MaxFrames * Span
IOKit    == conf.host = "iokit"

-----------------------------------------------------------------------------
(* The window *)

Spare        == [own |-> "none", seq |-> 0, from |-> 0, n |-> 0, hard |-> FALSE]
Submitted(q) == [own |-> "kernel", seq |-> q, from |-> 0, n |-> 0, hard |-> FALSE]

\* A refused submission truncates the window; an empty one fails the start.
StartIOKit(k)  == [i \in Slots |-> IF i <= k THEN Submitted(i - 1) ELSE Spare]
StartWinusb(k) == [i \in Slots |-> IF i <= k THEN Submitted(i - 1) ELSE Spare]

Init ==
  /\ conf \in Configs
  /\ \E k \in IF MayRefuse THEN Slots ELSE {Window} :
       /\ slots = IF IOKit THEN StartIOKit(k) ELSE StartWinusb(k)
       /\ submit = k
  /\ next = 0 /\ segOff = 0 /\ desync = FALSE /\ held = 0
  /\ comp = 0 /\ unclaimed = 0 /\ posting = FALSE
  /\ closing = "open" /\ leaked = FALSE
  /\ busy = "no" /\ copied = 0 /\ tail = 0 /\ buf = <<>>
  /\ sent = 0 /\ frames = <<>> /\ cut = FALSE

\* The slot that holds the segment to consume, if it is done.
Current == {i \in Slots : slots[i].own = "done" /\ slots[i].seq = next}

\* asi_stream_live, winusbStream.live
Live == \E i \in Slots : slots[i].own # "none"

\* asi_stream_claim.  The signal of a done slot is posted or about to be, so
\* the wait of at most 100 ms is for the callback thread only.
Claim ==
  IF ~IOKit THEN UNCHANGED semVars
  ELSE /\ IF unclaimed > 0 THEN unclaimed' = unclaimed - 1 /\ UNCHANGED comp
          ELSE comp > 0 /\ comp' = comp - 1 /\ UNCHANGED unclaimed
       /\ UNCHANGED posting

\* asi_stream_rearm, winusbStream.rearm: a refused slot is dead, and its segment
\* number goes to another.
Rearm(i) ==
  \/ slots' = [slots EXCEPT ![i] = Submitted(submit)] /\ submit' = submit + 1
  \/ MayRefuse /\ slots' = [slots EXCEPT ![i] = Spare] /\ submit' = submit

Recycle(i) == next' = next + 1 /\ Claim /\ Rearm(i)

-----------------------------------------------------------------------------
(* The kernel and the callback *)

\* Transfers complete in the order they were submitted.
Oldest == {i \in Slots :
             /\ slots[i].own = "kernel"
             /\ \A j \in Slots : slots[j].own = "kernel" => slots[i].seq <= slots[j].seq}

\* asi_stream_cb marks the slot done, ...
Complete ==
  /\ ~posting
  /\ \E i \in Oldest, n \in 0 .. Lesser(conf.chunk, MaxBytes - sent), bad \in {FALSE, MayStall} :
       /\ n = 0 => submit < MaxSegments \/ closing = "draining"
       /\ slots' = [slots EXCEPT ![i] =
                      [own |-> "done", seq |-> slots[i].seq, from |-> sent, n |-> n, hard |-> bad]]
       /\ sent' = sent + n
  /\ posting' = IOKit
  /\ UNCHANGED <<conf, next, submit, segOff, desync, held, comp, unclaimed, callVars, endVars, histVars>>

\* ... and then signals.
Signal ==
  /\ posting /\ posting' = FALSE /\ comp' = comp + 1
  /\ UNCHANGED <<conf, ringVars, desync, held, unclaimed, callVars, endVars, sent, histVars>>

-----------------------------------------------------------------------------
(* Next *)

\* asi_stream_release: the slot lent out goes back to the window.
ReleaseHeld ==
  IF held = 0 THEN UNCHANGED <<slots, next, submit, held, semVars>>
  ELSE held' = 0 /\ Recycle(held)

\* Every entry point returns a held slot first.
NextEnter ==
  /\ busy = "no" /\ closing = "open" /\ ~desync
  /\ ReleaseHeld
  /\ busy' = "next" /\ copied' = 0 /\ tail' = 0 /\ buf' = <<>>
  /\ UNCHANGED <<conf, segOff, desync, endVars, sent, histVars>>

TrailerLen == IF IOKit THEN conf.trailer ELSE 0
Whole == copied = conf.frame /\ tail = TrailerLen

Take(i) == Lesser(slots[i].n - segOff, conf.frame - copied)
Drop(i) == IF copied + Take(i) = conf.frame
           THEN Lesser(TrailerLen - tail, slots[i].n - segOff - Take(i)) ELSE 0

Copy(i) ==
  LET off == segOff + Take(i) + Drop(i) IN
  /\ copied' = copied + Take(i)
  /\ tail' = tail + Drop(i)
  /\ buf' = buf \o [k \in 1 .. Take(i) |-> slots[i].from + segOff + k - 1]
  /\ IF off >= slots[i].n
       THEN segOff' = 0 /\ Recycle(i)
       ELSE segOff' = off /\ UNCHANGED <<slots, next, submit, semVars>>

Consume ==
  /\ busy = "next" /\ ~Whole
  /\ \E i \in Current : ~slots[i].hard /\ Copy(i)
  /\ UNCHANGED <<conf, desync, held, busy, endVars, sent, histVars>>

Return(ok) ==
  /\ busy' = "no"
  /\ frames' = IF ok /\ copied = conf.frame THEN Append(frames, buf) ELSE frames
  /\ cut' = (cut \/ (copied = conf.frame /\ tail < TrailerLen))
  /\ UNCHANGED <<conf, ringVars, held, copied, tail, buf, endVars, sent>>

NextDone == busy = "next" /\ Whole /\ Return(TRUE) /\ UNCHANGED <<desync, semVars>>

\* A hard error stays where it is: every later call meets it again.
NextBad ==
  /\ busy # "no" /\ ~(busy = "next" /\ Whole)
  /\ \E i \in Current : slots[i].hard
  /\ Return(FALSE) /\ UNCHANGED <<desync, semVars>>

Waiting == busy # "no" /\ ~(busy = "next" /\ Whole) /\ Current = {}

\* A window whose slots were all refused can bring nothing any more.
NextDead == Waiting /\ ~Live /\ Return(FALSE) /\ UNCHANGED <<desync, semVars>>

\* One signal is consumed, whichever completion posted it.
WaitSignal ==
  /\ Waiting /\ Live /\ IOKit /\ comp > 0
  /\ comp' = comp - 1 /\ unclaimed' = unclaimed + 1
  /\ UNCHANGED <<conf, ringVars, desync, held, posting, callVars, endVars, sent, histVars>>

FaultyLatch == UNCHANGED desync

\* A short read that consumed anything, or left a segment part drained.
Latch == desync' = (desync \/ (IOKit /\ copied < conf.frame /\ (copied > 0 \/ segOff > 0)))

\* The idle window, or, on WinUSB, the abort latch
NextShort ==
  /\ Waiting /\ Live /\ busy = "next" /\ comp = 0
  /\ Return(TRUE) /\ Latch /\ UNCHANGED semVars

-----------------------------------------------------------------------------
(* NextZC and Release, on IOKit where a transfer holds exactly one frame *)

\* The caller turns from Next to NextZC between two frames only: NextZC looks
\* neither at the latch nor at what Next left of a segment.
ZCEnter ==
  /\ IOKit /\ conf.chunk = Span
  /\ busy = "no" /\ closing = "open" /\ ~desync /\ segOff = 0
  /\ ReleaseHeld
  /\ busy' = "zc" /\ copied' = 0 /\ tail' = 0 /\ buf' = <<>>
  /\ UNCHANGED <<conf, segOff, desync, endVars, sent, histVars>>

\* Anything short of the chunk is taken for a frame boundary and recycled.
ZCMarker ==
  /\ busy = "zc"
  /\ \E i \in Current :
       /\ ~slots[i].hard /\ slots[i].n < conf.chunk
       /\ Recycle(i)
       /\ cut' = (cut \/ slots[i].n > 0)
  /\ UNCHANGED <<conf, segOff, desync, held, callVars, endVars, sent, frames>>

ZCFrame ==
  /\ busy = "zc"
  /\ \E i \in Current :
       /\ ~slots[i].hard /\ slots[i].n = conf.chunk
       /\ held' = i
       /\ frames' = Append(frames, [k \in 1 .. conf.frame |-> slots[i].from + k - 1])
  /\ busy' = "no"
  /\ UNCHANGED <<conf, ringVars, desync, semVars, copied, tail, buf, endVars, sent, cut>>

ZCIdle ==
  /\ Waiting /\ Live /\ busy = "zc" /\ comp = 0
  /\ busy' = "no"
  /\ UNCHANGED <<conf, ringVars, desync, held, semVars, copied, tail, buf, endVars, sent, histVars>>

Release ==
  /\ busy = "no" /\ closing = "open" /\ held # 0
  /\ ReleaseHeld
  /\ UNCHANGED <<conf, segOff, desync, callVars, endVars, sent, histVars>>

-----------------------------------------------------------------------------
(* Close *)

CloseBegin ==
  /\ busy = "no" /\ closing = "open"
  /\ closing' = "draining"
  /\ UNCHANGED <<conf, ringVars, desync, held, semVars, callVars, leaked, sent, histVars>>

Armed == {i \in Slots : slots[i].own = "kernel"}

\* Every armed slot is done; the runloop is stopped and joined, and all is freed.
Drained ==
  /\ closing = "draining" /\ Armed = {} /\ ~posting
  /\ closing' = "closed"
  /\ UNCHANGED <<conf, ringVars, desync, held, semVars, callVars, leaked, sent, histVars>>

\* 3 s (IOKit) or winDrainTimeout passed
Forfeit ==
  /\ closing = "draining" /\ Armed # {}
  /\ closing' = "closed" /\ leaked' = TRUE
  /\ UNCHANGED <<conf, ringVars, desync, held, semVars, callVars, sent, histVars>>

-----------------------------------------------------------------------------

Caller ==
  \/ NextEnter \/ Consume \/ NextDone \/ NextBad \/ NextDead \/ WaitSignal \/ NextShort
  \/ ZCEnter \/ ZCMarker \/ ZCFrame \/ ZCIdle \/ Release
  \/ CloseBegin \/ Drained \/ Forfeit

Next == Caller \/ (closing # "closed" /\ Complete) \/ Signal

Spec == Init /\ [][Next]_vars

-----------------------------------------------------------------------------
(* Properties *)

TypeOK ==
  /\ conf \in Configs
  /\ slots \in [Slots -> [own : {"kernel", "done", "none"}, seq : Nat, from : Nat,
                          n : 0 .. conf.chunk, hard : BOOLEAN]]
  /\ next \in Nat /\ submit \in Nat /\ segOff \in 0 .. conf.chunk
  /\ desync \in BOOLEAN /\ held \in 0 .. Window
  /\ comp \in 0 .. Window /\ unclaimed \in 0 .. Window /\ posting \in BOOLEAN
  /\ closing \in {"open", "draining", "closed"} /\ leaked \in BOOLEAN
  /\ busy \in {"no", "next", "zc"}
  /\ copied \in 0 .. conf.frame /\ tail \in 0 .. conf.trailer
  /\ buf \in Seq(Nat) /\ Len(buf) = copied
  /\ sent \in 0 .. MaxBytes /\ frames \in Seq(Seq(Nat)) /\ cut \in BOOLEAN

Held(i) == slots[i].own # "none"

\* Every segment from the one to consume to the last submitted is in exactly one
\* slot, so a call never waits, or spins, for a segment no transfer will bring;
\* WinUSB's branch that skips a dead segment's number is never taken.
SegmentsHeld ==
  closing = "open" =>
    /\ \A i \in Slots : Held(i) => next <= slots[i].seq /\ slots[i].seq < submit
    /\ \A i, j \in Slots : Held(i) /\ Held(j) /\ slots[i].seq = slots[j].seq => i = j
    /\ \A q \in next .. submit - 1 : \E i \in Slots : Held(i) /\ slots[i].seq = q

\* The slot NextZC lent out is the one at the watermark and not with the kernel:
\* nothing writes to the slice the caller holds, and nothing else recycles it.
LentUntouched == held # 0 /\ closing = "open" => slots[held].own = "done" /\ slots[held].seq = next

\* Every completed slot has exactly one signal, posted, about to be, or consumed
\* by a wait: signals do not pile up over a burst, and none is missing when a
\* slot is recycled, which would stall the stream 100 ms a frame.
SignalsBalance ==
  IOKit /\ closing = "open" =>
    comp + unclaimed + (IF posting THEN 1 ELSE 0) = Cardinality({i \in Slots : slots[i].own = "done"})

Frame(k) == [j \in 1 .. conf.frame |-> k * Span + j - 1]
InOrder  == \A k \in 1 .. Len(frames) : frames[k] = Frame(k - 1)

\* On IOKit, the frames returned are the device's, whole, in order and with none
\* missing, unless a trailer was given up or NextZC dropped part of a frame.
FramesInOrder == IOKit => cut \/ InOrder

\* transport.go of the desync latch: "Every backend latches it: a short read that
\* consumed anything ... makes every later frame in the session start at the
\* wrong offset."
EveryBackendLatches == cut \/ InOrder

=============================================================================
