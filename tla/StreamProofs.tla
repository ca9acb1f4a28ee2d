---------------------------- MODULE StreamProofs ----------------------------
(***************************************************************************)
(* Theorems about Stream, for any frame, trailer, chunk and window size.   *)
(*                                                                         *)
(* SegmentsHeld is nearly inductive: it needs the slots' types, and that a *)
(* Next runs only while the session is open, since a closing session takes *)
(* its URBs back and lets segments go.                                     *)
(***************************************************************************)
EXTENDS Stream, SequenceTheorems, TLAPS

RingTypes ==
  /\ slots \in [Slots -> SlotType]
  /\ next \in Nat /\ submit \in Nat /\ sent \in Nat
  /\ closing \in {"open", "draining", "closed"}

\* Next and Close exclude each other: no frame is read out of a closing session.
NextExcludesClose == busy => closing = "open"

RingInv == RingTypes /\ NextExcludesClose /\ SegmentsHeld

-----------------------------------------------------------------------------

\* StartStream hands out segments 0 to k - 1 to the slots it armed.
LEMMA InitRing == Init => RingInv
<1> SUFFICES ASSUME Init PROVE RingInv
  OBVIOUS
<1> USE StreamAssumption DEF StreamAssumption
<1>1. PICK k \in Slots : /\ slots = [i \in Slots |-> IF i <= k THEN Submitted(i - 1) ELSE Spare]
                         /\ submit = k
  BY DEF Init, Slots
<1>2. next = 0 /\ sent = 0 /\ closing = "open" /\ ~busy
  BY DEF Init
<1>3. RingTypes
  <2>1. \A q \in Nat : Submitted(q) \in SlotType /\ Spare \in SlotType
    BY DEF Submitted, Spare, SlotType
  <2>2. \A i \in Slots : i - 1 \in Nat
    BY DEF Slots
  <2> QED BY <1>1, <1>2, <2>1, <2>2 DEF RingTypes, Slots
<1>4. \A i \in Slots : /\ Held(i) <=> i <= k
                       /\ i <= k => slots[i].seq = i - 1
  BY <1>1 DEF Held, Submitted, Spare
<1>5. SegmentsHeld
  <2>1. \A i \in Slots : Held(i) => next <= slots[i].seq /\ slots[i].seq < submit
    BY <1>1, <1>2, <1>4 DEF Slots
  <2>2. \A i, j \in Slots : Held(i) /\ Held(j) /\ slots[i].seq = slots[j].seq => i = j
    BY <1>4 DEF Slots
  <2>3. ASSUME NEW q \in next .. submit - 1 PROVE \E i \in Slots : Held(i) /\ slots[i].seq = q
    <3>1. q + 1 \in Slots /\ q + 1 <= k
      BY <1>1, <1>2, <2>3 DEF Slots
    <3> QED BY <1>4, <3>1
  <2> QED BY <2>1, <2>2, <2>3 DEF SegmentsHeld
<1>6. NextExcludesClose
  BY <1>2 DEF NextExcludesClose
<1> QED BY <1>3, <1>5, <1>6 DEF RingInv

\* Steps of Next and of the latch that leave the ring alone.
LEMMA RingStill ==
  ASSUME RingInv, UNCHANGED <<ringVars, sent, closing, leaked>>, busy' => closing = "open"
  PROVE  RingInv'
BY DEF RingInv, RingTypes, NextExcludesClose, SegmentsHeld, Held, Armed, ringVars

\* A segment consumed to its end: it leaves its slot, and the slot takes the next
\* segment to submit or, refused by the kernel, none.
LEMMA Recycle ==
  ASSUME RingInv, busy, NEW i \in Current, next' = next + 1, Rearm(i)
  PROVE  slots' \in [Slots -> SlotType] /\ submit' \in Nat /\ SegmentsHeld'
<1> USE DEF RingInv
<1>1. i \in Slots /\ Held(i) /\ slots[i].seq = next
  BY DEF Current, Held
<1>2. closing = "open" /\ next \in Nat /\ submit \in Nat /\ slots \in [Slots -> SlotType]
  BY DEF NextExcludesClose, RingTypes
<1>3. /\ \A j \in Slots : Held(j) => next <= slots[j].seq /\ slots[j].seq < submit
      /\ \A j, k \in Slots : Held(j) /\ Held(k) /\ slots[j].seq = slots[k].seq => j = k
      /\ \A q \in next .. submit - 1 : \E j \in Slots : Held(j) /\ slots[j].seq = q
  BY <1>2 DEF SegmentsHeld
<1>4. \A j \in Slots \ {i} : Held(j) => next + 1 <= slots[j].seq
  <2> SUFFICES ASSUME NEW j \in Slots \ {i}, Held(j) PROVE next + 1 <= slots[j].seq
    OBVIOUS
  <2>1. slots[j].seq # next /\ next <= slots[j].seq
    BY <1>1, <1>3
  <2>2. slots[j].seq \in Nat
    BY <1>2 DEF SlotType
  <2> QED BY <1>2, <2>1, <2>2
<1>5. \A j \in Slots : slots[j].seq \in Nat
  BY <1>2 DEF SlotType
<1>6. CASE slots' = [slots EXCEPT ![i] = Submitted(submit)] /\ submit' = submit + 1
  <2>1. /\ \A j \in Slots \ {i} : slots'[j] = slots[j]
        /\ slots'[i].seq = submit /\ slots'[i].own = "kernel"
    BY <1>1, <1>2, <1>6 DEF Submitted
  <2>2. \A j \in Slots \ {i} : Held(j)' <=> Held(j)
    BY <2>1 DEF Held
  <2>3. Held(i)'
    BY <2>1 DEF Held
  <2>4. slots' \in [Slots -> SlotType]
    <3>1. Submitted(submit) \in SlotType
      BY <1>2, StreamAssumption DEF StreamAssumption, Submitted, SlotType
    <3> QED BY <1>2, <1>6, <3>1
  <2>5. \A j \in Slots : Held(j)' => next' <= slots'[j].seq /\ slots'[j].seq < submit'
    BY <1>1, <1>2, <1>3, <1>4, <1>5, <1>6, <2>1, <2>2
  <2>6. \A j, k \in Slots : Held(j)' /\ Held(k)' /\ slots'[j].seq = slots'[k].seq => j = k
    BY <1>2, <1>3, <1>5, <2>1, <2>2
  <2>7. ASSUME NEW q \in next' .. submit' - 1
        PROVE  \E j \in Slots : Held(j)' /\ slots'[j].seq = q
    <3>1. CASE q = submit
      BY <1>1, <2>1, <2>3, <3>1
    <3>2. CASE q # submit
      <4>1. q \in next .. submit - 1 /\ q # next
        BY <1>2, <1>6, <3>2
      <4>2. PICK j \in Slots : Held(j) /\ slots[j].seq = q
        BY <1>3, <4>1
      <4> QED BY <1>1, <2>1, <2>2, <4>1, <4>2
    <3> QED BY <3>1, <3>2
  <2> QED BY <1>2, <1>6, <2>4, <2>5, <2>6, <2>7 DEF SegmentsHeld
<1>7. CASE slots' = [slots EXCEPT ![i] = Spare] /\ submit' = submit
  <2>1. /\ \A j \in Slots \ {i} : slots'[j] = slots[j]
        /\ slots'[i].own = "none"
    BY <1>1, <1>2, <1>7 DEF Spare
  <2>2. ~Held(i)' /\ \A j \in Slots \ {i} : Held(j)' <=> Held(j)
    BY <2>1 DEF Held
  <2>3. slots' \in [Slots -> SlotType]
    <3>1. Spare \in SlotType
      BY StreamAssumption DEF StreamAssumption, Spare, SlotType
    <3> QED BY <1>2, <1>7, <3>1
  <2>4. \A j \in Slots : Held(j)' => next' <= slots'[j].seq /\ slots'[j].seq < submit'
    BY <1>3, <1>4, <1>7, <2>1, <2>2
  <2>5. \A j, k \in Slots : Held(j)' /\ Held(k)' /\ slots'[j].seq = slots'[k].seq => j = k
    BY <1>3, <2>1, <2>2
  <2>6. ASSUME NEW q \in next' .. submit' - 1
        PROVE  \E j \in Slots : Held(j)' /\ slots'[j].seq = q
    <3>1. q \in next .. submit - 1 /\ q # next
      BY <1>2, <1>7
    <3>2. PICK j \in Slots : Held(j) /\ slots[j].seq = q
      BY <1>3, <3>1
    <3> QED BY <1>1, <2>1, <2>2, <3>1, <3>2
  <2> QED BY <1>2, <1>7, <2>3, <2>4, <2>5, <2>6 DEF SegmentsHeld
<1> QED BY <1>6, <1>7 DEF Rearm

\* One pass of Next over the segment it consumes.
LEMMA ConsumeRing == ASSUME RingInv, Consume PROVE RingInv'
<1> USE DEF RingInv
<1>1. PICK i \in Current :
        LET off == segOff + Take(i) + Drop(i) IN
        IF off >= slots[i].n
        THEN segOff' = 0 /\ next' = next + 1 /\ Rearm(i)
        ELSE segOff' = off /\ UNCHANGED <<next, slots, submit>>
  BY DEF Consume
<1>2. busy /\ busy' = busy /\ UNCHANGED <<closing, leaked, sent>> /\ closing = "open"
  BY DEF Consume, envVars, NextExcludesClose
<1>3. NextExcludesClose'
  BY <1>2 DEF NextExcludesClose
<1>4. CASE segOff' = 0 /\ next' = next + 1 /\ Rearm(i)
  BY <1>2, <1>3, <1>4, Recycle DEF RingTypes
<1>5. CASE segOff' = segOff + Take(i) + Drop(i) /\ UNCHANGED <<next, slots, submit>>
  BY <1>2, <1>3, <1>5 DEF RingTypes, SegmentsHeld, Held
<1> QED BY <1>1, <1>4, <1>5

\* A completion moves the segment's bytes to the host and its slot nowhere.
LEMMA ReapRing == ASSUME RingInv, Reap PROVE RingInv'
<1> USE DEF RingInv
<1>1. PICK i \in Oldest, n \in 0 .. Lesser(Chunk, MaxBytes - sent), bad \in {FALSE, MayStall} :
        /\ slots' = [slots EXCEPT ![i] =
                      [own |-> "host", seq |-> slots[i].seq, from |-> sent, n |-> n, bad |-> bad]]
        /\ sent' = sent + n
  BY DEF Reap
<1>2. /\ UNCHANGED <<next, submit, segOff, closing, leaked, busy>> /\ closing = "open"
  BY DEF Reap, Waiting, nextVars, NextExcludesClose
<1>3. i \in Slots /\ slots[i].own = "kernel"
  BY DEF Oldest, Armed
<1>4. n \in 0 .. Chunk /\ bad \in BOOLEAN
  <2>1. MaxBytes \in Nat /\ Chunk \in Nat
    BY StreamAssumption DEF StreamAssumption, MaxBytes, FrameSpan
  <2>2. Lesser(Chunk, MaxBytes - sent) <= Chunk
    BY <2>1 DEF Lesser, RingTypes
  <2>3. Lesser(Chunk, MaxBytes - sent) \in Int
    BY <2>1 DEF Lesser, RingTypes
  <2>4. n \in 0 .. Chunk
    BY <2>1, <2>2, <2>3
  <2> QED BY <2>4, StreamAssumption DEF StreamAssumption
<1>5. RingTypes'
  <2>1. n \in Nat /\ sent' \in Nat
    BY <1>1, <1>4 DEF RingTypes
  <2>2. [own |-> "host", seq |-> slots[i].seq, from |-> sent, n |-> n, bad |-> bad] \in SlotType
    BY <1>3, <1>4 DEF RingTypes, SlotType
  <2>3. slots' \in [Slots -> SlotType]
    BY <1>1, <2>2 DEF RingTypes
  <2> QED BY <1>2, <2>1, <2>3 DEF RingTypes
<1>6. \A j \in Slots : slots'[j].seq = slots[j].seq /\ (Held(j)' <=> Held(j))
  BY <1>1, <1>3 DEF RingTypes, SlotType, Held
<1>7. SegmentsHeld'
  BY <1>2, <1>6 DEF SegmentsHeld
<1> QED BY <1>2, <1>5, <1>7 DEF NextExcludesClose

\* Close takes the URBs back, or parks them.
LEMMA CloseRing ==
  ASSUME RingInv, CloseBegin \/ DrainReap \/ DrainDone \/ Forfeit PROVE RingInv'
<1> USE DEF RingInv
<1>1. CASE CloseBegin
  BY <1>1 DEF CloseBegin, RingTypes, NextExcludesClose, SegmentsHeld,
              ringVars, nextVars, envVars
<1>2. CASE DrainReap
  BY <1>2 DEF DrainReap, RingTypes, SlotType, NextExcludesClose, SegmentsHeld,
              nextVars, envVars
<1>3. CASE DrainDone
  BY <1>3 DEF DrainDone, RingTypes, NextExcludesClose, SegmentsHeld, Armed,
              ringVars, nextVars, envVars
<1>4. CASE Forfeit
  BY <1>4 DEF Forfeit, RingTypes, NextExcludesClose, SegmentsHeld, Armed,
              ringVars, nextVars, envVars
<1> QED BY <1>1, <1>2, <1>3, <1>4

\* Every step of the session keeps the invariant ...
LEMMA NextRing == RingInv /\ [Next]_vars => RingInv'
<1> SUFFICES ASSUME RingInv, [Next]_vars PROVE RingInv'
  OBVIOUS
<1>1. CASE Consume
  BY <1>1, ConsumeRing
<1>2. CASE Reap
  BY <1>2, ReapRing
<1>3. CASE CloseBegin \/ DrainReap \/ DrainDone \/ Forfeit
  BY <1>3, CloseRing
<1>4. CASE NextEnter \/ ConsumeBad \/ NextDone \/ NextShort \/ ReapFails
  <2>1. UNCHANGED <<ringVars, sent, closing, leaked>> /\ (busy' => closing = "open")
    BY <1>4 DEF NextEnter, ConsumeBad, NextDone, NextShort, ReapFails, Return, envVars
  <2> QED BY <2>1, RingStill
<1>5. CASE AbortOrArm \/ UNCHANGED vars
  <2>1. UNCHANGED <<ringVars, sent, closing, leaked, busy>>
    BY <1>5 DEF AbortOrArm, vars, ringVars, nextVars, envVars
  <2>2. busy' => closing = "open"
    BY <2>1 DEF RingInv, NextExcludesClose
  <2> QED BY <2>1, <2>2, RingStill
<1> QED BY <1>1, <1>2, <1>3, <1>4, <1>5 DEF Next

\* ... so it always holds.
LEMMA RingAlways == Spec => []RingInv
BY InitRing, NextRing, PTL DEF Spec

\* Next never waits for a segment no transfer will bring: every segment not yet
\* consumed is in exactly one slot of an open session.
THEOREM NoLostSegment == Spec => []SegmentsHeld
BY RingAlways, PTL DEF RingInv

-----------------------------------------------------------------------------
(***************************************************************************)
(* Types of a session, and that Next returns the device's frames whole and *)
(* in order, for any frame, trailer, chunk and window size.                *)
(*                                                                         *)
(* The argument is about one number, the position of the next byte to      *)
(* consume.  A URB is reaped only when there is nothing left to consume    *)
(* and URBs complete in order, so at most one slot is done: it holds       *)
(* segment next, and its bytes are the last ones the device has sent.      *)
(* Unless the session is desynced or cut, that position is as many frame   *)
(* spans into the output as frames were returned, plus what the Next in    *)
(* progress has taken.                                                     *)
(***************************************************************************)

Done(i) == slots[i].own = "host"

\* The only segment at the host is the one to consume, and nothing was sent after it.
HostIsNext ==
  /\ \A i \in Slots : Done(i) => /\ slots[i].seq = next
                                 /\ slots[i].from + slots[i].n = sent
                                 /\ segOff <= slots[i].n
  /\ (\A i \in Slots : ~Done(i)) => segOff = 0

\* p is the position of the next byte to consume.
ReadTo(p) ==
  /\ \A i \in Slots : Done(i) => slots[i].from + segOff = p
  /\ (\A i \in Slots : ~Done(i)) => sent = p

Start    == Len(frames) * FrameSpan
Progress == IF busy THEN copied + tail ELSE 0

\* A Next in progress has taken the first bytes of a frame, and then of its trailer.
TakenInOrder ==
  busy => /\ ~desync
          /\ tail > 0 => copied = FrameBytes
          /\ cut \/ \A j \in 1 .. copied : buf[j] = Start + j - 1

Aligned == cut \/ desync \/ ReadTo(Start + Progress)

FrameInv == RingInv /\ TypeOK /\ HostIsNext /\ TakenInOrder /\ Aligned /\ FramesInOrder

-----------------------------------------------------------------------------
(* Arithmetic of positions, and the frames returned so far *)

\* Frame l + 1 begins a span after frame l.
LEMMA SpanFacts ==
  /\ FrameSpan \in Nat /\ MaxBytes \in Nat
  /\ \A l \in Nat : l * FrameSpan \in Nat /\ (l + 1) * FrameSpan = l * FrameSpan + FrameSpan
<1> USE StreamAssumption DEF StreamAssumption
<1>1. FrameSpan \in Nat
  BY DEF FrameSpan
<1>2. MaxBytes \in Nat
  BY <1>1 DEF MaxBytes
<1>3. \A l \in Nat : l * FrameSpan \in Nat /\ (l + 1) * FrameSpan = l * FrameSpan + FrameSpan
  BY <1>1
<1> QED BY <1>1, <1>2, <1>3

LEMMA StartIsNat == TypeOK => Len(frames) \in Nat /\ Start \in Nat
BY SpanFacts, LenProperties DEF TypeOK, Start

\* A full buffer taken in order is the next frame.
LEMMA FrameReturned ==
  ASSUME TypeOK, copied = FrameBytes, frames' = Append(frames, buf)
  PROVE  /\ frames' \in Seq(Seq(Nat)) /\ Len(frames') = Len(frames) + 1
         /\ InOrder /\ (\A j \in 1 .. copied : buf[j] = Start + j - 1) => InOrder'
<1>1. frames \in Seq(Seq(Nat)) /\ buf \in Seq(Nat) /\ Len(buf) = FrameBytes
  BY DEF TypeOK
<1>2. /\ frames' \in Seq(Seq(Nat)) /\ Len(frames') = Len(frames) + 1
      /\ \A k \in 1 .. Len(frames) : frames'[k] = frames[k]
      /\ frames'[Len(frames) + 1] = buf
  BY <1>1
<1>3. ASSUME InOrder, \A j \in 1 .. copied : buf[j] = Start + j - 1
      PROVE  InOrder'
  <2>1. buf = Frame(Len(frames))
    <3>1. buf \in [1 .. FrameBytes -> Nat]
      BY <1>1, LenProperties
    <3>2. \A j \in 1 .. FrameBytes : buf[j] = Len(frames) * FrameSpan + j - 1
      BY <1>3 DEF Start
    <3> QED BY <3>1, <3>2 DEF Frame
  <2>2. Len(frames) \in Nat
    BY <1>1
  <2>3. ASSUME NEW k \in 1 .. Len(frames') PROVE frames'[k] = Frame(k - 1)
    <3>1. CASE k \in 1 .. Len(frames)
      BY <1>2, <1>3, <3>1 DEF InOrder
    <3>2. CASE k = Len(frames) + 1
      BY <1>2, <2>1, <2>2, <3>2
    <3> QED BY <1>2, <2>2, <3>1, <3>2, SMTT(30)
  <2> QED BY <2>3 DEF InOrder, Frame
<1> QED BY <1>2, <1>3

-----------------------------------------------------------------------------
(* The initial states *)

\* Nothing has been reaped and nothing sent.
LEMMA InitFrames == Init => FrameInv
<1> SUFFICES ASSUME Init PROVE FrameInv
  OBVIOUS
<1> USE StreamAssumption DEF StreamAssumption
<1>1. RingInv
  BY InitRing
<1>2. \A i \in Slots : ~Done(i)
  BY DEF Init, Done, Submitted, Spare
<1>3. TypeOK
  <2>1. 0 \in 0 .. Chunk /\ 0 \in 0 .. FrameBytes /\ 0 \in 0 .. Trailer /\ 0 \in 0 .. MaxBytes
    BY SpanFacts
  <2>2. <<>> \in Seq(Nat) /\ Len(<<>>) = 0 /\ <<>> \in Seq(Seq(Nat))
    BY EmptySeq
  <2> QED BY <1>1, <2>1, <2>2 DEF Init, RingInv, RingTypes, TypeOK
<1>4. HostIsNext
  BY <1>2 DEF Init, HostIsNext
<1>5. Start + Progress = 0
  <2>1. Len(frames) = 0 /\ Progress = 0
    BY DEF Init, Progress
  <2> QED BY <2>1, SpanFacts DEF Start
<1>6. Aligned
  BY <1>2, <1>5 DEF Init, Aligned, ReadTo
<1>7. TakenInOrder /\ FramesInOrder
  BY DEF Init, TakenInOrder, FramesInOrder, InOrder
<1> QED BY <1>1, <1>3, <1>4, <1>6, <1>7 DEF FrameInv

-----------------------------------------------------------------------------
(* Steps outside Next *)

\* What is at the host, and what was read of it, does not move.
LEMMA ReadStill ==
  ASSUME FrameInv, RingInv', submit' = submit,
         UNCHANGED <<next, segOff, desync, nextVars, sent, frames, cut>>,
         slots' \in [Slots -> SlotType],
         leaked' \in BOOLEAN, latch' \in BOOLEAN,
         \A i \in Slots : /\ Done(i)' <=> Done(i)
                          /\ Done(i) => slots'[i] = slots[i]
  PROVE  FrameInv'
<1> USE DEF FrameInv
<1>1. TypeOK'
  BY DEF TypeOK, RingInv, RingTypes, nextVars
<1>2. HostIsNext'
  BY DEF HostIsNext
<1>3. Start' = Start /\ Progress' = Progress
  BY DEF Start, Progress, nextVars
<1>4. Aligned'
  BY <1>3 DEF Aligned, ReadTo
<1>5. TakenInOrder' /\ FramesInOrder'
  BY <1>3 DEF TakenInOrder, FramesInOrder, InOrder, nextVars
<1> QED BY <1>1, <1>2, <1>4, <1>5

LEMMA OutsideFrames ==
  ASSUME FrameInv, RingInv',
         CloseBegin \/ DrainReap \/ DrainDone \/ Forfeit \/ AbortOrArm \/ UNCHANGED vars
  PROVE  FrameInv'
<1> USE DEF FrameInv
<1>1. CASE DrainReap
  <2>1. PICK i \in Slots : Armed(i) /\ slots' = [slots EXCEPT ![i].own = "none"]
    BY <1>1 DEF DrainReap
  <2>2. \A j \in Slots : (Done(j)' <=> Done(j)) /\ (Done(j) => slots'[j] = slots[j])
    BY <2>1 DEF Armed, Done, TypeOK, SlotType
  <2>3. slots' \in [Slots -> SlotType]
    BY DEF RingInv, RingTypes
  <2>4. /\ submit' = submit /\ leaked' = leaked /\ latch' = latch
        /\ UNCHANGED <<next, segOff, desync, nextVars, sent, frames, cut>>
    BY <1>1 DEF DrainReap, envVars
  <2> QED BY <2>2, <2>3, <2>4, ReadStill DEF TypeOK
<1>2. CASE CloseBegin \/ DrainDone \/ Forfeit \/ AbortOrArm \/ UNCHANGED vars
  <2>1. /\ slots' = slots /\ submit' = submit
        /\ UNCHANGED <<next, segOff, desync, nextVars, sent, frames, cut>>
        /\ leaked' \in BOOLEAN /\ latch' \in BOOLEAN
    BY <1>2 DEF CloseBegin, DrainDone, Forfeit, AbortOrArm, vars, ringVars, envVars, TypeOK
  <2>2. \A j \in Slots : (Done(j)' <=> Done(j)) /\ (Done(j) => slots'[j] = slots[j])
    BY <2>1 DEF Done
  <2>3. slots' \in [Slots -> SlotType]
    BY DEF RingInv, RingTypes
  <2> QED BY <2>1, <2>2, <2>3, ReadStill
<1> QED BY <1>1, <1>2

-----------------------------------------------------------------------------
(* Next: entry and return *)

LEMMA EnterFrames == ASSUME FrameInv, RingInv', NextEnter PROVE FrameInv'
<1> USE DEF FrameInv
<1>1. /\ UNCHANGED <<slots, next, submit, segOff, desync, leaked, latch, sent, frames, cut>>
      /\ ~busy /\ ~desync /\ busy' = TRUE /\ copied' = 0 /\ tail' = 0 /\ buf' = <<>>
  BY DEF NextEnter, ringVars, envVars
<1>2. TypeOK'
  <2>1. <<>> \in Seq(Nat) /\ Len(<<>>) = 0
    BY EmptySeq
  <2>2. 0 \in 0 .. FrameBytes /\ 0 \in 0 .. Trailer
    BY StreamAssumption DEF StreamAssumption
  <2> QED BY <1>1, <2>1, <2>2 DEF TypeOK, RingInv, RingTypes
<1>3. Start' = Start /\ Progress' = 0 /\ Progress = 0
  BY <1>1 DEF Start, Progress
<1>4. HostIsNext' /\ Aligned'
  BY <1>1, <1>3 DEF HostIsNext, Aligned, ReadTo, Done
<1>5. TakenInOrder' /\ FramesInOrder'
  BY <1>1 DEF TakenInOrder, FramesInOrder, InOrder
<1> QED BY <1>2, <1>4, <1>5

\* Next returns: a whole frame with its trailer, a frame cut in its trailer, or
\* less than a frame, which desyncs the session unless nothing at all was read.
LEMMA ReturnFrames ==
  ASSUME FrameInv, RingInv', busy, NEW ok \in BOOLEAN, Return(ok),
         UNCHANGED <<ringVars, closing, leaked, envVars>>,
         \/ Complete /\ ok /\ desync' = desync
         \/ ~Complete /\ MarkDesync
  PROVE  FrameInv'
<1> USE DEF FrameInv
<1>1. /\ UNCHANGED <<slots, next, submit, segOff, leaked, latch, sent, copied, tail, buf>>
      /\ busy' = FALSE
      /\ cut' = (cut \/ (copied = FrameBytes /\ tail < Trailer))
  BY DEF Return, ringVars, envVars
<1>2. /\ FrameBytes \in Nat /\ Trailer \in Nat /\ copied \in 0 .. FrameBytes /\ tail \in 0 .. Trailer
      /\ segOff \in Nat /\ cut \in BOOLEAN /\ desync \in BOOLEAN /\ FrameSpan = FrameBytes + Trailer
  BY StreamAssumption DEF TypeOK, StreamAssumption, FrameSpan
<1>3. desync' \in BOOLEAN
  BY <1>2 DEF MarkDesync
<1>4. frames' \in Seq(Seq(Nat))
  BY FrameReturned DEF Return, TypeOK
<1>5. TypeOK'
  BY <1>1, <1>2, <1>3, <1>4 DEF TypeOK, RingInv, RingTypes
<1>6. HostIsNext' /\ TakenInOrder'
  BY <1>1 DEF HostIsNext, TakenInOrder, Done
<1>7. Progress' = 0 /\ Progress = copied + tail
  BY <1>1 DEF Progress
<1>8. CASE copied < FrameBytes
  <2>1. frames' = frames /\ Start' = Start /\ cut' = cut
    <3>1. copied # FrameBytes
      BY <1>2, <1>8
    <3>2. frames' = frames
      BY <3>1 DEF Return
    <3>3. cut' = cut
      BY <1>1, <1>2, <3>1, Zenon
    <3> QED BY <3>2, <3>3 DEF Start
  <2>2. tail = 0
    BY <1>2, <1>8 DEF TakenInOrder
  <2>3. MarkDesync
    BY <1>8, <1>2 DEF Complete
  <2>4. desync' \/ copied = 0
    <3>1. CASE copied > 0
      <4>1. desync' = (desync \/ TRUE)
        BY <1>8, <2>3, <3>1, Zenon DEF MarkDesync
      <4> QED BY <1>2, <4>1
    <3>2. CASE ~(copied > 0)
      BY <1>2, <3>2
    <3> QED BY <3>1, <3>2
  <2>5. Aligned'
    <3>1. CASE desync'
      BY <3>1 DEF Aligned
    <3>2. CASE ~desync' /\ copied = 0
      <4>1. ~desync
        BY <2>3, <3>2 DEF MarkDesync
      <4>2. cut \/ ReadTo(Start)
        BY <1>2, <1>7, <2>2, <3>2, <4>1, StartIsNat DEF Aligned
      <4>3. Start' + Progress' = Start
        BY <1>7, <2>1, StartIsNat
      <4> QED BY <1>1, <2>1, <4>2, <4>3 DEF Aligned, ReadTo, Done
    <3> QED BY <2>4, <3>1, <3>2
  <2>6. FramesInOrder'
    BY <2>1 DEF FramesInOrder, InOrder
  <2> QED BY <1>5, <1>6, <2>5, <2>6
<1>9. CASE copied = FrameBytes /\ tail < Trailer
  BY <1>1, <1>5, <1>6, <1>9 DEF Aligned, FramesInOrder
<1>10. CASE copied = FrameBytes /\ tail = Trailer
  <2>1. Complete /\ ok /\ desync' = desync /\ cut' = cut
    BY <1>1, <1>2, <1>10 DEF Complete
  <2>2. frames' = Append(frames, buf)
    BY <1>10, <2>1 DEF Return
  <2>3. Start' + Progress' = Start + Progress
    <3>1. Len(frames') = Len(frames) + 1 /\ Len(frames) \in Nat
      BY <1>10, <2>2, FrameReturned, StartIsNat
    <3>2. Start' = Start + FrameSpan
      BY <3>1, SpanFacts DEF Start
    <3> QED BY <1>2, <1>7, <1>10, <3>2, StartIsNat
  <2>4. Aligned'
    BY <1>1, <2>1, <2>3 DEF Aligned, ReadTo, Done
  <2>5. FramesInOrder'
    BY <1>10, <2>1, <2>2, FrameReturned DEF FramesInOrder, TakenInOrder
  <2> QED BY <1>5, <1>6, <2>4, <2>5
<1> QED BY <1>2, <1>8, <1>9, <1>10

-----------------------------------------------------------------------------
(* Next: one pass over a segment *)

\* What a pass takes stays within the segment, the frame and the trailer, and
\* nothing is dropped before the frame is full.
LEMMA PassBounds ==
  ASSUME TypeOK, HostIsNext, NEW i \in Current
  PROVE  /\ Done(i) /\ slots[i].n \in Nat /\ slots[i].from \in Nat /\ segOff \in Nat
         /\ Take(i) \in 0 .. FrameBytes - copied
         /\ Drop(i) \in 0 .. Trailer - tail
         /\ segOff + Take(i) + Drop(i) <= slots[i].n
         /\ Drop(i) > 0 => copied + Take(i) = FrameBytes
<1>1. /\ i \in Slots /\ Done(i) /\ slots[i] \in SlotType /\ segOff <= slots[i].n
      /\ slots[i].from + slots[i].n = sent
  BY DEF Current, Done, TypeOK, HostIsNext
<1>2. /\ slots[i].n \in Nat /\ slots[i].from \in Nat /\ segOff \in Nat
      /\ copied \in 0 .. FrameBytes /\ tail \in 0 .. Trailer
      /\ FrameBytes \in Nat /\ Trailer \in Nat
  BY <1>1, StreamAssumption DEF StreamAssumption, TypeOK, SlotType
<1>3. Take(i) \in 0 .. FrameBytes - copied /\ segOff + Take(i) <= slots[i].n
  BY <1>1, <1>2 DEF Take, Lesser
<1>4. /\ Drop(i) \in 0 .. Trailer - tail
      /\ segOff + Take(i) + Drop(i) <= slots[i].n
      /\ Drop(i) > 0 => copied + Take(i) = FrameBytes
  <2>1. Take(i) \in Nat
    BY <1>2, <1>3
  <2>2. CASE copied + Take(i) = FrameBytes
    BY <1>2, <1>3, <2>1, <2>2 DEF Drop, Lesser
  <2>3. CASE copied + Take(i) # FrameBytes
    BY <1>2, <1>3, <2>1, <2>3 DEF Drop
  <2> QED BY <2>2, <2>3
<1> QED BY <1>1, <1>2, <1>3, <1>4

\* In an open session no other slot is done.
LEMMA OneDone ==
  ASSUME RingInv, HostIsNext, closing = "open", NEW i \in Slots, Done(i)
  PROVE  \A j \in Slots : Done(j) => j = i
BY DEF RingInv, SegmentsHeld, Held, HostIsNext, Done

\* The bytes a pass copies follow the ones copied before.
LEMMA PassBytes ==
  ASSUME TypeOK, NEW i \in Current, Take(i) \in 0 .. FrameBytes - copied,
         slots[i].from \in Nat, segOff \in Nat,
         buf' = buf \o [k \in 1 .. Take(i) |-> slots[i].from + segOff + k - 1]
  PROVE  /\ buf' \in Seq(Nat) /\ Len(buf') = copied + Take(i)
         /\ \A j \in 1 .. copied : buf'[j] = buf[j]
         /\ \A j \in copied + 1 .. copied + Take(i) :
              buf'[j] = slots[i].from + segOff + (j - copied) - 1
<1> DEFINE m == Take(i)
           s == [k \in 1 .. m |-> slots[i].from + segOff + k - 1]
<1>1. m \in Nat /\ copied \in Nat /\ buf \in Seq(Nat) /\ Len(buf) = copied
  BY StreamAssumption DEF StreamAssumption, TypeOK
<1>2. s \in [1 .. m -> Nat]
  BY <1>1, SMTT(30)
<1>3. buf' = buf \o s
  OBVIOUS
<1>4. \A k \in 1 .. m : s[k] = slots[i].from + segOff + k - 1
  OBVIOUS
<1> HIDE DEF m, s
<1>5. s \in Seq(Nat) /\ Len(s) = m
  <2>1. s \in Seq(Nat)
    BY <1>1, <1>2, SeqDef
  <2> QED BY <1>1, <1>2, <2>1, LenProperties
<1>6. /\ buf' \in Seq(Nat) /\ Len(buf') = copied + m
      /\ \A j \in 1 .. copied + m : buf'[j] = IF j <= copied THEN buf[j] ELSE s[j - copied]
  <2>1. /\ buf \o s \in Seq(Nat)
        /\ Len(buf \o s) = Len(buf) + Len(s)
        /\ \A j \in 1 .. Len(buf) + Len(s) :
             (buf \o s)[j] = IF j <= Len(buf) THEN buf[j] ELSE s[j - Len(buf)]
    BY <1>1, <1>5, ConcatProperties, Zenon
  <2> QED BY <1>1, <1>3, <1>5, <2>1
<1>7. ASSUME NEW j \in copied + 1 .. copied + m
      PROVE  buf'[j] = slots[i].from + segOff + (j - copied) - 1
  <2>1. j \in 1 .. copied + m /\ ~(j <= copied) /\ j - copied \in 1 .. m
    BY <1>1
  <2> QED BY <1>4, <1>6, <2>1
<1>8. \A j \in 1 .. copied : buf'[j] = buf[j]
  BY <1>1, <1>6
<1> QED BY <1>6, <1>7, <1>8 DEF m

LEMMA ConsumeFrames == ASSUME FrameInv, RingInv', Consume PROVE FrameInv'
<1> USE DEF FrameInv
<1>1. PICK i \in Current :
        /\ copied' = copied + Take(i)
        /\ tail' = tail + Drop(i)
        /\ buf' = buf \o [k \in 1 .. Take(i) |-> slots[i].from + segOff + k - 1]
        /\ \/ /\ segOff + Take(i) + Drop(i) >= slots[i].n
              /\ segOff' = 0 /\ Rearm(i)
           \/ /\ ~(segOff + Take(i) + Drop(i) >= slots[i].n)
              /\ segOff' = segOff + Take(i) + Drop(i) /\ UNCHANGED <<next, slots, submit>>
  BY DEF Consume
<1>2. busy /\ busy' = busy /\ UNCHANGED <<desync, closing, leaked, latch, sent, frames, cut>>
  BY DEF Consume, envVars
<1> DEFINE m == Take(i)
           d == Drop(i)
           n == slots[i].n
<1>3. /\ i \in Slots /\ Done(i) /\ n \in Nat /\ slots[i].from \in Nat /\ segOff \in Nat
      /\ m \in 0 .. FrameBytes - copied /\ d \in 0 .. Trailer - tail
      /\ segOff + m + d <= n
      /\ d > 0 => copied + m = FrameBytes
      /\ slots[i].from + n = sent
  BY PassBounds DEF Current, HostIsNext
<1>4. /\ FrameBytes \in Nat /\ Trailer \in Nat /\ Chunk \in Nat
      /\ copied \in 0 .. FrameBytes /\ tail \in 0 .. Trailer /\ n <= Chunk
  BY <1>3, StreamAssumption DEF StreamAssumption, TypeOK, SlotType
<1>5. m \in Nat /\ d \in Nat /\ copied' = copied + m /\ tail' = tail + d
  BY <1>1, <1>3, <1>4
<1>6. /\ buf' \in Seq(Nat) /\ Len(buf') = copied + m
      /\ \A j \in 1 .. copied : buf'[j] = buf[j]
      /\ \A j \in copied + 1 .. copied + m : buf'[j] = slots[i].from + segOff + (j - copied) - 1
  BY <1>1, <1>3, PassBytes
<1>7. \A j \in Slots : Done(j) => j = i
  BY <1>2, <1>3, OneDone DEF RingInv, NextExcludesClose
<1>8. \/ /\ segOff + m + d = n /\ segOff' = 0
         /\ \A j \in Slots : ~Done(j)'
      \/ /\ segOff + m + d < n /\ segOff' = segOff + m + d
         /\ UNCHANGED <<next, slots>>
  <2>1. CASE segOff + m + d >= n
    <3>1. segOff' = 0 /\ segOff + m + d = n
      <4>1. segOff' = 0
        BY <1>1, <2>1
      <4>2. segOff + m + d = n
        <5> HIDE DEF m, d, n
        <5> QED BY <1>3, <1>5, <2>1
      <4> QED BY <4>1, <4>2
    <3>2. \E r \in {Spare, Submitted(submit)} : slots' = [slots EXCEPT ![i] = r]
      BY <1>1, <2>1 DEF Rearm
    <3>3. \A j \in Slots : ~Done(j)'
      <4>1. PICK r \in {Spare, Submitted(submit)} : slots' = [slots EXCEPT ![i] = r]
        BY <3>2
      <4>2. r.own # "host"
        BY DEF Spare, Submitted
      <4> QED BY <1>3, <1>7, <4>1, <4>2 DEF Done, TypeOK
    <3> QED BY <3>1, <3>3
  <2>2. CASE ~(segOff + m + d >= n)
    BY <1>1, <1>3, <1>5, <2>2
  <2> QED BY <2>1, <2>2
<1>9. segOff' \in 0 .. Chunk
  BY <1>3, <1>4, <1>5, <1>8
<1>10. TypeOK'
  <2>1. copied' \in 0 .. FrameBytes /\ tail' \in 0 .. Trailer
    BY <1>3, <1>4, <1>5
  <2>2. buf' \in Seq(Nat) /\ Len(buf') = copied'
    BY <1>5, <1>6
  <2> QED BY <1>2, <1>9, <2>1, <2>2 DEF TypeOK, RingInv, RingTypes
<1>11. HostIsNext'
  BY <1>2, <1>3, <1>5, <1>7, <1>8 DEF HostIsNext, Done
<1>12. Start' = Start /\ Start \in Nat /\ Progress' = Progress + m + d /\ Progress = copied + tail
  BY <1>2, <1>4, <1>5, StartIsNat DEF Start, Progress
<1>13. Aligned'
  <2>1. CASE cut \/ desync
    BY <1>2, <2>1 DEF Aligned
  <2>2. CASE ReadTo(Start + Progress)
    <3>1. slots[i].from + segOff = Start + Progress
      BY <1>3, <2>2 DEF ReadTo
    <3>2. slots[i].from + segOff + m + d = Start' + Progress'
      BY <1>3, <1>4, <1>5, <1>12, <3>1
    <3>3. ReadTo(Start + Progress)'
      BY <1>2, <1>3, <1>5, <1>7, <1>8, <3>2 DEF ReadTo, Done
    <3> QED BY <3>3 DEF Aligned
  <2> QED BY <2>1, <2>2 DEF Aligned
<1>14. TakenInOrder'
  <2>1. ~desync'
    BY <1>2 DEF TakenInOrder
  <2>2. tail' > 0 => copied' = FrameBytes
    BY <1>2, <1>3, <1>4, <1>5 DEF TakenInOrder
  <2>3. ASSUME ~cut', NEW j \in 1 .. copied' PROVE buf'[j] = Start' + j - 1
    <3>1. CASE j \in 1 .. copied
      BY <1>2, <1>6, <1>12, <2>3, <3>1 DEF TakenInOrder
    <3>2. CASE j \in copied + 1 .. copied + m
      <4>1. tail = 0
        BY <1>2, <1>3, <1>4, <1>5, <3>2 DEF TakenInOrder
      <4>2. slots[i].from + segOff = Start + copied
        BY <1>2, <1>3, <1>4, <1>12, <2>1, <2>3, <4>1 DEF Aligned, ReadTo
      <4>3. buf'[j] = slots[i].from + segOff + (j - copied) - 1
        BY <1>6, <3>2
      <4> QED BY <1>3, <1>4, <1>12, <3>2, <4>2, <4>3
    <3> QED BY <1>4, <1>5, <2>3, <3>1, <3>2
  <2> QED BY <1>2, <2>1, <2>2, <2>3 DEF TakenInOrder
<1>15. FramesInOrder'
  BY <1>2 DEF FramesInOrder, InOrder
<1> QED BY <1>10, <1>11, <1>13, <1>14, <1>15

-----------------------------------------------------------------------------
(* Next: a completion *)

\* With nothing to consume, the oldest URB is segment next and takes the bytes
\* the device sends next.
LEMMA ReapFrames == ASSUME FrameInv, RingInv', Reap PROVE FrameInv'
<1> USE DEF FrameInv
<1>1. PICK i \in Oldest, n \in 0 .. Lesser(Chunk, MaxBytes - sent), bad \in {FALSE, MayStall} :
        /\ slots' = [slots EXCEPT ![i] =
                      [own |-> "host", seq |-> slots[i].seq, from |-> sent, n |-> n, bad |-> bad]]
        /\ sent' = sent + n
  BY DEF Reap
<1>2. /\ UNCHANGED <<next, submit, segOff, desync, closing, leaked, latch, frames, cut>>
      /\ UNCHANGED nextVars /\ busy /\ Current = {}
  BY DEF Reap, Waiting
<1>3. /\ i \in Slots /\ Armed(i)
      /\ \A j \in Slots : Armed(j) => slots[i].seq <= slots[j].seq
  BY DEF Oldest
<1>4. \A j \in Slots : ~Done(j)
  BY <1>2 DEF Current, HostIsNext, Done
<1>5. segOff = 0
  BY <1>4 DEF HostIsNext
<1>6. slots[i].seq = next
  <2>1. /\ next <= slots[i].seq /\ slots[i].seq < submit
        /\ \A q \in next .. submit - 1 : \E j \in Slots : Held(j) /\ slots[j].seq = q
    BY <1>2, <1>3 DEF RingInv, NextExcludesClose, SegmentsHeld, Held, Armed
  <2>2. next \in Nat /\ submit \in Nat /\ slots[i].seq \in Nat
    BY <1>3 DEF TypeOK, SlotType
  <2>3. next \in next .. submit - 1
    BY <2>1, <2>2
  <2>4. PICK j \in Slots : Held(j) /\ slots[j].seq = next
    BY <2>1, <2>3
  <2>5. Armed(j)
    BY <1>4, <2>4 DEF Held, Armed, Done, TypeOK, SlotType
  <2> QED BY <1>3, <2>1, <2>2, <2>4, <2>5
<1>7. n \in Nat /\ sent \in Nat /\ sent' \in 0 .. MaxBytes
  <2>1. MaxBytes \in Nat /\ Chunk \in Nat /\ sent \in 0 .. MaxBytes
    BY SpanFacts, StreamAssumption DEF StreamAssumption, TypeOK
  <2>2. Lesser(Chunk, MaxBytes - sent) \in Int /\ Lesser(Chunk, MaxBytes - sent) <= MaxBytes - sent
    BY <2>1 DEF Lesser
  <2>3. n \in Nat /\ n <= MaxBytes - sent
    BY <2>1, <2>2
  <2> QED BY <1>1, <2>1, <2>3
<1>8. TypeOK'
  BY <1>2, <1>7 DEF TypeOK, RingInv, RingTypes, nextVars
<1>9. /\ \A j \in Slots : Done(j)' <=> j = i
      /\ slots'[i].seq = next /\ slots'[i].from = sent /\ slots'[i].n = n
  <2>1. slots'[i] = [own |-> "host", seq |-> slots[i].seq, from |-> sent, n |-> n, bad |-> bad]
    BY <1>1, <1>3 DEF TypeOK
  <2>2. \A j \in Slots \ {i} : slots'[j] = slots[j]
    BY <1>1 DEF TypeOK
  <2>3. \A j \in Slots \ {i} : ~Done(j)'
    BY <1>4, <2>2 DEF Done
  <2>4. Done(i)'
    BY <2>1 DEF Done
  <2> QED BY <1>3, <1>6, <2>1, <2>3, <2>4
<1>10. HostIsNext'
  BY <1>1, <1>2, <1>3, <1>5, <1>7, <1>9 DEF HostIsNext
<1>11. Start' = Start /\ Progress' = Progress
  BY <1>2 DEF Start, Progress, nextVars
<1>12. Aligned'
  BY <1>2, <1>3, <1>4, <1>5, <1>7, <1>9, <1>11 DEF Aligned, ReadTo
<1>13. TakenInOrder' /\ FramesInOrder'
  BY <1>2, <1>11 DEF TakenInOrder, FramesInOrder, InOrder, nextVars
<1> QED BY <1>8, <1>10, <1>12, <1>13

-----------------------------------------------------------------------------
(* The theorems *)

LEMMA NextFrames == FrameInv /\ [Next]_vars => FrameInv'
<1> SUFFICES ASSUME FrameInv, [Next]_vars PROVE FrameInv'
  OBVIOUS
<1>1. RingInv'
  BY NextRing DEF FrameInv
<1>2. CASE NextEnter
  BY <1>1, <1>2, EnterFrames
<1>3. CASE Consume
  BY <1>1, <1>3, ConsumeFrames
<1>4. CASE Reap
  BY <1>1, <1>4, ReapFrames
<1>5. CASE ConsumeBad \/ NextShort \/ ReapFails
  <2>1. \E ok \in BOOLEAN : Return(ok)
    BY <1>5 DEF ConsumeBad, NextShort, ReapFails
  <2>2. busy /\ ~Complete /\ MarkDesync /\ UNCHANGED <<ringVars, closing, leaked, envVars>>
    BY <1>5 DEF ConsumeBad, NextShort, ReapFails, Waiting
  <2> QED BY <1>1, <2>1, <2>2, ReturnFrames
<1>6. CASE NextDone
  BY <1>1, <1>6, ReturnFrames DEF NextDone
<1>7. CASE CloseBegin \/ DrainReap \/ DrainDone \/ Forfeit \/ AbortOrArm \/ UNCHANGED vars
  BY <1>1, <1>7, OutsideFrames
<1> QED BY <1>2, <1>3, <1>4, <1>5, <1>6, <1>7 DEF Next

LEMMA FramesAlways == Spec => []FrameInv
BY InitFrames, NextFrames, PTL DEF Spec

\* Every field of a session has its type: what is consumed of a segment stays
\* within a transfer, and what is dropped within a trailer.
THEOREM StreamTypes == Spec => []TypeOK
BY FramesAlways, PTL DEF FrameInv

\* Whatever the transfers, stalls, refused URBs and aborts, the frames Next
\* returns are the device's, whole and in order, as long as no Next gave up in
\* the middle of a trailer.
THEOREM WholeFramesInOrder == Spec => []FramesInOrder
BY FramesAlways, PTL DEF FrameInv
=============================================================================
