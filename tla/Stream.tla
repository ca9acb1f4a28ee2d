------------------------------- MODULE Stream -------------------------------
(***************************************************************************)
(* A resident usbfs session (usbfsStream): a window of URBs cycling on the *)
(* bulk endpoint, out of which Next assembles whole frames in segment      *)
(* order, and the Close that takes the URBs back from the kernel.          *)
(*                                                                         *)
(* A byte is known by its position in what the device sends: frame k is    *)
(* FrameBytes pixels and Trailer bytes, from position k * FrameSpan on.    *)
(* A URB ends wherever the device commits, so it may hold part of a frame, *)
(* the end of one and the start of the next, or nothing.                   *)
(*                                                                         *)
(* Next and Close hold the session's mu throughout; what interleaves with  *)
(* Next is the kernel, the abort latch and the clock.  Calls the session   *)
(* refuses at once, and empty buffers, change nothing and are left out.    *)
(***************************************************************************)
EXTENDS Integers, Sequences

CONSTANTS
  FrameBytes,     \* len(buf), the pixels of a frame
  Trailer,        \* bytes the firmware appends to each frame
  Chunk,          \* the size of a URB's buffer, at most a frame
  Window,         \* urbWindow
  MaySubmitFail,  \* the kernel may refuse a URB (the usbfs memory cap)
  MayStall,       \* a URB may complete with an error status, and a reap may fail
  MaxFrames,      \* bound: frames the device sends in a behaviour
  MaxSegments     \* bound: no empty transfer once so many have been submitted

ASSUME StreamAssumption ==
  /\ FrameBytes \in Nat \ {0} /\ Trailer \in Nat
  /\ Chunk \in 1 .. FrameBytes
  /\ Window \in Nat \ {0}
  /\ MaySubmitFail \in BOOLEAN /\ MayStall \in BOOLEAN
  /\ MaxFrames \in Nat /\ MaxSegments \in Nat

FrameSpan == FrameBytes + Trailer
Slots     == 1 .. Window
MaxBytes  == MaxFrames * FrameSpan

VARIABLES
  \* the session
  slots,    \* [own, seq, from, n, bad]: own is "kernel" (armed), "host" (done) or "none"
  next,     \* the segment to consume next
  submit,   \* the segment number of the next submission
  segOff,   \* bytes consumed of segment next
  desync,   \* a Next ended in the middle of a frame
  closing,  \* "open", "draining" or "closed"
  leaked,   \* Close parked the URBs and poisoned the device
  \* the Next in progress
  busy, copied, tail,
  buf,      \* the positions of the bytes copied
  \* outside the session
  latch,    \* readAborted
  sent,     \* the position of the next byte the device sends
  \* history, read by the properties only
  frames,   \* the frames Next returned whole, as the positions of their bytes
  cut       \* a Next returned between a frame's pixels and the end of its trailer

ringVars == <<slots, next, submit, segOff>>
nextVars == <<busy, copied, tail, buf>>
envVars  == <<latch, sent>>
vars     == <<ringVars, desync, closing, leaked, nextVars, envVars, frames, cut>>

-----------------------------------------------------------------------------
(* Helpers *)

Lesser(a, b) == IF a < b THEN a ELSE b

Armed(i) == slots[i].own = "kernel"
Held(i)  == slots[i].own # "none"

\* The slot that holds the segment to consume, if it has been reaped.
Current == {i \in Slots : slots[i].own = "host" /\ slots[i].seq = next}

Spare      == [own |-> "none", seq |-> 0, from |-> 0, n |-> 0, bad |-> FALSE]
Submitted(q) == [own |-> "kernel", seq |-> q, from |-> 0, n |-> 0, bad |-> FALSE]

\* StartStream primes the window; a refused URB truncates it.
Init ==
  /\ \E k \in IF MaySubmitFail THEN Slots ELSE {Window} :
       /\ slots = [i \in Slots |-> IF i <= k THEN Submitted(i - 1) ELSE Spare]
       /\ submit = k
  /\ next = 0 /\ segOff = 0
  /\ desync = FALSE /\ closing = "open" /\ leaked = FALSE
  /\ busy = FALSE /\ copied = 0 /\ tail = 0 /\ buf = <<>>
  /\ latch = FALSE /\ sent = 0
  /\ frames = <<>> /\ cut = FALSE

-----------------------------------------------------------------------------
(* Next *)

NextEnter ==
  /\ ~busy /\ closing = "open" /\ ~desync
  /\ busy' = TRUE /\ copied' = 0 /\ tail' = 0 /\ buf' = <<>>
  /\ UNCHANGED <<ringVars, desync, closing, leaked, envVars, frames, cut>>

Complete == copied = FrameBytes /\ tail = Trailer

\* A caller takes a full count without an error for a frame.
Return(ok) ==
  /\ busy' = FALSE
  /\ frames' = IF ok /\ copied = FrameBytes THEN Append(frames, buf) ELSE frames
  /\ cut' = (cut \/ (copied = FrameBytes /\ tail < Trailer))
  /\ UNCHANGED <<copied, tail, buf>>

FaultyMarkDesync == desync' = (desync \/ (copied < FrameBytes /\ segOff > 0))

MarkDesync == desync' = (desync \/ (copied < FrameBytes /\ (copied > 0 \/ segOff > 0)))

\* rearm submits slot i for the next segment; refused, the slot is dead and the
\* segment goes to another.
FaultyRearm(i) ==
  /\ \/ slots' = [slots EXCEPT ![i] = Submitted(submit)]
     \/ MaySubmitFail /\ slots' = [slots EXCEPT ![i] = Spare]
  /\ submit' = submit + 1

Rearm(i) ==
  \/ slots' = [slots EXCEPT ![i] = Submitted(submit)] /\ submit' = submit + 1
  \/ MaySubmitFail /\ slots' = [slots EXCEPT ![i] = Spare] /\ submit' = submit

\* How much of segment next goes to the frame, and then to its trailer.
Take(i) == Lesser(slots[i].n - segOff, FrameBytes - copied)
FaultyDrop(i) == IF copied + Take(i) = FrameBytes THEN slots[i].n - segOff - Take(i) ELSE 0
Drop(i) == IF copied + Take(i) = FrameBytes
           THEN Lesser(Trailer - tail, slots[i].n - segOff - Take(i)) ELSE 0

\* One pass over the segment: copy, drop, recycle the slot if it is used up.
Consume ==
  /\ busy /\ ~Complete
  /\ \E i \in Current :
       LET off == segOff + Take(i) + Drop(i) IN
       /\ ~slots[i].bad
       /\ copied' = copied + Take(i)
       /\ tail' = tail + Drop(i)
       /\ buf' = buf \o [k \in 1 .. Take(i) |-> slots[i].from + segOff + k - 1]
       /\ IF off >= slots[i].n
          THEN segOff' = 0 /\ next' = next + 1 /\ Rearm(i)
          ELSE segOff' = off /\ UNCHANGED <<next, slots, submit>>
  /\ UNCHANGED <<desync, closing, leaked, busy, envVars, frames, cut>>

\* A halted or babbled URB is surfaced; its segment stays where it is.
ConsumeBad ==
  /\ busy /\ ~Complete
  /\ \E i \in Current : slots[i].bad
  /\ MarkDesync
  /\ Return(FALSE)
  /\ UNCHANGED <<ringVars, closing, leaked, envVars>>

NextDone ==
  /\ busy /\ Complete
  /\ Return(TRUE)
  /\ UNCHANGED <<ringVars, desync, closing, leaked, envVars>>

Waiting == busy /\ ~Complete /\ Current = {}

\* The abort latch, or no completion within the idle bound.
NextShort ==
  /\ Waiting
  /\ MarkDesync
  /\ Return(TRUE)
  /\ UNCHANGED <<ringVars, closing, leaked, envVars>>

ReapFails ==
  /\ Waiting /\ ~latch /\ MayStall
  /\ MarkDesync
  /\ Return(FALSE)
  /\ UNCHANGED <<ringVars, closing, leaked, envVars>>

\* The URBs of an endpoint complete in the order they were submitted.
Oldest == {i \in Slots : Armed(i) /\ \A j \in Slots : Armed(j) => slots[i].seq <= slots[j].seq}

Reap ==
  /\ Waiting /\ ~latch
  /\ \E i \in Oldest, n \in 0 .. Lesser(Chunk, MaxBytes - sent), bad \in {FALSE, MayStall} :
       /\ n = 0 => submit < MaxSegments
       /\ slots' = [slots EXCEPT ![i] =
                      [own |-> "host", seq |-> slots[i].seq, from |-> sent, n |-> n, bad |-> bad]]
       /\ sent' = sent + n
  /\ UNCHANGED <<next, submit, segOff, desync, closing, leaked, nextVars, latch, frames, cut>>

-----------------------------------------------------------------------------
(* Close, and the abort latch a capture raises and lowers *)

CloseBegin ==
  /\ ~busy /\ closing = "open"
  /\ closing' = "draining"
  /\ UNCHANGED <<ringVars, desync, leaked, nextVars, envVars, frames, cut>>

\* A discarded URB comes back, with or without data, ...
DrainReap ==
  /\ closing = "draining"
  /\ \E i \in Slots : Armed(i) /\ slots' = [slots EXCEPT ![i].own = "none"]
  /\ UNCHANGED <<next, submit, segOff, desync, closing, leaked, nextVars, envVars, frames, cut>>

DrainDone ==
  /\ closing = "draining" /\ \A i \in Slots : ~Armed(i)
  /\ closing' = "closed"
  /\ UNCHANGED <<ringVars, desync, leaked, nextVars, envVars, frames, cut>>

\* ... or does not within drainTimeout: the kernel may still write to its buffer.
Forfeit ==
  /\ closing = "draining" /\ \E i \in Slots : Armed(i)
  /\ closing' = "closed" /\ leaked' = TRUE
  /\ UNCHANGED <<ringVars, desync, nextVars, envVars, frames, cut>>

AbortOrArm ==
  /\ latch' = ~latch
  /\ UNCHANGED <<ringVars, desync, closing, leaked, nextVars, sent, frames, cut>>

-----------------------------------------------------------------------------

Next ==
  \/ NextEnter \/ Consume    \/ ConsumeBad \/ NextDone \/ NextShort \/ Reap \/ ReapFails
  \/ CloseBegin \/ DrainReap \/ DrainDone  \/ Forfeit  \/ AbortOrArm

Spec == Init /\ [][Next]_vars

-----------------------------------------------------------------------------
(* Properties *)

SlotType == [own : {"kernel", "host", "none"}, seq : Nat, from : Nat, n : 0 .. Chunk, bad : BOOLEAN]

\* Every field has its type; what is consumed of a segment is less than all of it.
TypeOK ==
  /\ slots \in [Slots -> SlotType]
  /\ next \in Nat /\ submit \in Nat /\ segOff \in 0 .. Chunk
  /\ desync \in BOOLEAN /\ closing \in {"open", "draining", "closed"} /\ leaked \in BOOLEAN
  /\ busy \in BOOLEAN /\ copied \in 0 .. FrameBytes /\ tail \in 0 .. Trailer
  /\ buf \in Seq(Nat) /\ Len(buf) = copied
  /\ latch \in BOOLEAN /\ sent \in 0 .. MaxBytes
  /\ frames \in Seq(Seq(Nat)) /\ cut \in BOOLEAN

\* While the session is open every segment from the one to consume to the last one
\* submitted is in exactly one slot, so that Next never waits for a segment that
\* no transfer will bring, whatever submissions the kernel refused.
SegmentsHeld ==
  closing = "open" =>
    /\ \A i \in Slots : Held(i) => next <= slots[i].seq /\ slots[i].seq < submit
    /\ \A i, j \in Slots : Held(i) /\ Held(j) /\ slots[i].seq = slots[j].seq => i = j
    /\ \A q \in next .. submit - 1 : \E i \in Slots : Held(i) /\ slots[i].seq = q

Frame(k) == [j \in 1 .. FrameBytes |-> k * FrameSpan + j - 1]
InOrder  == \A k \in 1 .. Len(frames) : frames[k] = Frame(k - 1)

\* The frames Next returns are the ones the device sent, whole, in order and with
\* none missing, however transfers, stalls and short reads divide them, as long as
\* no Next gave up within a trailer.
FramesInOrder == cut \/ InOrder

\* ... and when one did, too: Next consumes the trailer "so the following frame
\* starts where the camera starts it".
FramesAligned == InOrder

=============================================================================
