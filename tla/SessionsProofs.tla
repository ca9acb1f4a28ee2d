--------------------------- MODULE SessionsProofs ---------------------------
(***************************************************************************)
(* Theorems about Sessions, for any frame, trailer, transfer and window.   *)
(*                                                                         *)
(* As in StreamProofs the argument is about the position of the next byte  *)
(* to consume.  Here the kernel completes transfers beside the caller, so  *)
(* any number of slots may be done: they hold the segments from the one to *)
(* consume on, and the bytes of one begin where those of the one before    *)
(* end (Laid).  A slot lent out by NextZC is the first of them.            *)
(***************************************************************************)
EXTENDS Sessions, FiniteSetTheorems, SequenceTheorems, TLAPS

\* The slot's transfer ended, and its bytes are not all consumed; it is in flight.
Done(i)  == slots[i].own = "done"
Asked(i) == slots[i].own = "kernel"

\* The type of a slot.
SlotSet == [own : {"kernel", "done", "none"}, seq : Nat, from : Nat, n : 0 .. conf.chunk, hard : BOOLEAN]

\* The types the ring's steps need.
Typed ==
  /\ conf \in Configs
  /\ slots \in [Slots -> SlotSet]
  /\ next \in Nat /\ submit \in Nat /\ segOff \in Nat /\ sent \in 0 .. MaxBytes
  /\ held \in 0 .. Window
  /\ closing \in {"open", "draining", "closed"} /\ busy \in {"no", "next", "zc"}
  /\ copied \in 0 .. conf.frame /\ tail \in 0 .. TrailerLen

\* The segments from the one to consume to the last submitted, each in one slot.
Ring ==
  /\ \A i \in Slots : Held(i) => next <= slots[i].seq /\ slots[i].seq < submit
  /\ \A i, j \in Slots : Held(i) /\ Held(j) /\ slots[i].seq = slots[j].seq => i = j
  /\ \A q \in next .. submit - 1 : \E i \in Slots : Held(i) /\ slots[i].seq = q

\* The last segment that is done.
IsLast(i) == Done(i) /\ \A j \in Slots : Done(j) => slots[j].seq <= slots[i].seq

\* Segments complete in order, and their bytes lie end to end up to the last one sent.
Laid ==
  /\ \A i, j \in Slots : Done(i) /\ Asked(j) => slots[i].seq < slots[j].seq
  /\ \A i, j \in Slots : Done(i) /\ Done(j) /\ slots[j].seq = slots[i].seq + 1
                           => slots[j].from = slots[i].from + slots[i].n
  /\ \A i \in Slots : IsLast(i) => slots[i].from + slots[i].n = sent

\* What was consumed of segment next is part of it.
Within ==
  /\ \A i \in Current : segOff <= slots[i].n
  /\ Current = {} => segOff = 0

\* A transfer holds one frame, and none is part consumed: the calls of NextZC.
ByFrame == IOKit /\ conf.chunk = Span /\ segOff = 0

\* A call runs in an open session that has lent nothing; the slot lent out holds a
\* whole frame, the next to consume, and no error.
Calls ==
  /\ busy # "no" => closing = "open" /\ held = 0
  /\ busy = "zc" => ByFrame
  /\ held # 0 => ByFrame /\ held \in Current /\ slots[held].n = conf.chunk /\ ~slots[held].hard

\* The ring's invariant.
RingInv == Typed /\ Ring /\ Laid /\ Within /\ Calls

-----------------------------------------------------------------------------
(* The sizes of a session *)

\* A session's sizes are natural numbers, and its frames not empty.
LEMMA Sizes ==
  ASSUME SessionsAssumption, conf \in Configs
  PROVE  /\ conf.frame \in Nat \ {0} /\ conf.trailer \in Nat /\ conf.chunk \in Nat \ {0}
         /\ TrailerLen \in Nat /\ TrailerLen <= conf.trailer /\ (IOKit => TrailerLen = conf.trailer)
         /\ Span \in Nat /\ Span = conf.frame + conf.trailer /\ MaxBytes \in Nat
<1>1. /\ conf.frame \in Nat \ {0} /\ conf.trailer \in Nat /\ conf.chunk \in Nat \ {0}
  BY DEF SessionsAssumption, ConfigType
<1>2. TrailerLen \in Nat /\ TrailerLen <= conf.trailer /\ (IOKit => TrailerLen = conf.trailer)
  BY <1>1 DEF TrailerLen
<1>3. Span \in Nat /\ Span = conf.frame + conf.trailer
  BY <1>1 DEF Span
<1>4. MaxBytes \in Nat
  BY <1>3 DEF MaxBytes, SessionsAssumption
<1> QED BY <1>1, <1>2, <1>3, <1>4

\* Frame l + 1 begins a span after frame l.
LEMMA SpanFacts ==
  ASSUME SessionsAssumption, conf \in Configs, NEW l \in Nat
  PROVE  l * Span \in Nat /\ (l + 1) * Span = l * Span + Span
<1>1. Span \in Nat
  BY Sizes
<1> QED BY <1>1

-----------------------------------------------------------------------------
(* The ring *)

\* StartStream hands out segments 0 to k - 1.
LEMMA InitRing == ASSUME SessionsAssumption, Init PROVE RingInv
<1>1. PICK k \in Slots : /\ slots = [i \in Slots |-> IF i <= k THEN Submitted(i - 1) ELSE Spare]
                         /\ submit = k
  <2>1. PICK k \in IF MayRefuse THEN Slots ELSE {Window} :
             /\ slots = [i \in Slots |-> IF i <= k THEN Submitted(i - 1) ELSE Spare]
             /\ submit = k
    BY DEF Init, StartIOKit, StartWinusb
  <2>2. k \in Slots
    BY DEF Slots, SessionsAssumption
  <2> QED BY <2>1, <2>2
<1>2. /\ next = 0 /\ sent = 0 /\ closing = "open" /\ busy = "no" /\ held = 0 /\ segOff = 0
      /\ copied = 0 /\ tail = 0 /\ conf \in Configs
  BY DEF Init
<1>3. Typed
  <2>0. conf.chunk \in Nat /\ conf.frame \in Nat /\ TrailerLen \in Nat /\ MaxBytes \in Nat
    BY <1>2, Sizes
  <2>1. \A q \in Nat : Submitted(q) \in SlotSet /\ Spare \in SlotSet
    BY <2>0 DEF Submitted, Spare, SlotSet
  <2>2. \A i \in Slots : i - 1 \in Nat
    BY DEF Slots, SessionsAssumption
  <2>3. slots \in [Slots -> SlotSet] /\ submit \in Nat
    BY <1>1, <2>1, <2>2 DEF Slots
  <2>4. Window \in Nat
    BY DEF SessionsAssumption
  <2> QED BY <1>2, <2>0, <2>3, <2>4 DEF Typed
<1>4. \A i \in Slots : /\ Held(i) <=> i <= k
                       /\ i <= k => slots[i].seq = i - 1
                       /\ ~Done(i)
  BY <1>1 DEF Held, Submitted, Spare, Done
<1>5. Ring
  <2>1. \A i \in Slots : Held(i) => next <= slots[i].seq /\ slots[i].seq < submit
    BY <1>1, <1>2, <1>4 DEF Slots, SessionsAssumption
  <2>2. \A i, j \in Slots : Held(i) /\ Held(j) /\ slots[i].seq = slots[j].seq => i = j
    BY <1>4 DEF Slots, SessionsAssumption
  <2>3. ASSUME NEW q \in next .. submit - 1 PROVE \E i \in Slots : Held(i) /\ slots[i].seq = q
    <3>1. q + 1 \in Slots /\ q + 1 <= k
      BY <1>1, <1>2, <2>3 DEF Slots, SessionsAssumption
    <3> QED BY <1>4, <3>1
  <2> QED BY <2>1, <2>2, <2>3 DEF Ring
<1>6. Laid /\ Within /\ Calls
  BY <1>2, <1>4 DEF Laid, IsLast, Within, Current, Done, Calls
<1> QED BY <1>3, <1>5, <1>6 DEF RingInv

\* With segment next not done no segment is, for they complete in order.
LEMMA NoneDone ==
  ASSUME RingInv, Current = {}
  PROVE  \A i \in Slots : ~Done(i)
<1> SUFFICES ASSUME NEW i \in Slots, Done(i) PROVE FALSE
  OBVIOUS
<1>1. /\ slots[i].seq \in Nat /\ next \in Nat /\ submit \in Nat
      /\ next <= slots[i].seq /\ slots[i].seq < submit
  BY DEF RingInv, Typed, Ring, SlotSet, Held, Done
<1>2. PICK j \in Slots : Held(j) /\ slots[j].seq = next
  BY <1>1 DEF RingInv, Ring
<1>3. Asked(j)
  BY <1>2 DEF RingInv, Typed, SlotSet, Current, Held, Asked, Done
<1> QED BY <1>1, <1>2, <1>3 DEF RingInv, Laid

\* Segment next is recycled: what else is done comes after it.
LEMMA AfterNext ==
  ASSUME RingInv, NEW i \in Current
  PROVE  /\ i \in Slots /\ Done(i) /\ Held(i) /\ slots[i].seq = next
         /\ \A j \in Slots \ {i} : Held(j) => next + 1 <= slots[j].seq
         /\ \A j \in Current : j = i
<1>1. i \in Slots /\ Done(i) /\ Held(i) /\ slots[i].seq = next
  BY DEF Current, Done, Held
<1>2. \A j \in Slots \ {i} : Held(j) => next + 1 <= slots[j].seq
  <2> SUFFICES ASSUME NEW j \in Slots \ {i}, Held(j) PROVE next + 1 <= slots[j].seq
    OBVIOUS
  <2>1. slots[j].seq # next /\ next <= slots[j].seq
    BY <1>1 DEF RingInv, Ring
  <2>2. slots[j].seq \in Nat /\ next \in Nat
    BY DEF RingInv, Typed, SlotSet
  <2> QED BY <2>1, <2>2
<1>3. \A j \in Current : j = i
  BY <1>1 DEF RingInv, Ring, Current, Held
<1> QED BY <1>1, <1>2, <1>3

\* The position the bytes are consumed up to.
ReadTo(p) ==
  /\ \A i \in Current : slots[i].from + segOff = p
  /\ Current = {} => sent = p

\* A slot consumed to its end takes the next segment to submit or, refused, none: the
\* ring stays whole, and the next byte is the one after the segment's.
LEMMA RecycleRing ==
  ASSUME SessionsAssumption, RingInv, NEW i \in Current, next' = next + 1, Rearm(i), segOff' = 0,
         UNCHANGED <<conf, sent>>, NEW p, p = slots[i].from + slots[i].n
  PROVE  /\ slots' \in [Slots -> SlotSet'] /\ next' \in Nat /\ submit' \in Nat
         /\ Ring' /\ Laid' /\ Within'
         /\ ReadTo(p)'
         /\ \A j \in Slots : Done(j)' <=> j # i /\ Done(j)
<1> USE DEF RingInv
<1>0. /\ i \in Slots /\ Done(i) /\ Held(i) /\ slots[i].seq = next
      /\ \A j \in Slots \ {i} : Held(j) => next + 1 <= slots[j].seq
  BY AfterNext
<1>9. conf.chunk \in Nat /\ MaxBytes \in Nat /\ conf.chunk' = conf.chunk
  BY Sizes DEF Typed
<1>1. /\ next \in Nat /\ submit \in Nat /\ slots \in [Slots -> SlotSet] /\ sent \in Nat
      /\ \A j \in Slots : slots[j].seq \in Nat /\ slots[j].from \in Nat /\ slots[j].n \in Nat
  BY <1>9 DEF Typed, SlotSet
<1>2. /\ \A j \in Slots \ {i} : slots'[j] = slots[j]
      /\ \/ slots'[i].own = "kernel" /\ slots'[i].seq = submit /\ submit' = submit + 1
         \/ slots'[i].own = "none" /\ submit' = submit
      /\ slots' \in [Slots -> SlotSet']
  <2>1. Submitted(submit) \in SlotSet' /\ Spare \in SlotSet' /\ SlotSet' = SlotSet
    BY <1>1, <1>9 DEF Submitted, Spare, SlotSet
  <2>2. CASE slots' = [slots EXCEPT ![i] = Submitted(submit)] /\ submit' = submit + 1
    <3>1. slots'[i] = Submitted(submit) /\ \A j \in Slots \ {i} : slots'[j] = slots[j]
      BY <1>0, <1>1, <2>2
    <3>2. slots' \in [Slots -> SlotSet]
      BY <1>1, <2>1, <2>2
    <3>3. slots' \in [Slots -> SlotSet']
      BY <2>1, <3>2
    <3> QED BY <2>2, <3>1, <3>3 DEF Submitted
  <2>3. CASE slots' = [slots EXCEPT ![i] = Spare] /\ submit' = submit
    <3>1. slots'[i] = Spare /\ \A j \in Slots \ {i} : slots'[j] = slots[j]
      BY <1>0, <1>1, <2>3
    <3>2. slots' \in [Slots -> SlotSet]
      BY <1>1, <2>1, <2>3
    <3>3. slots' \in [Slots -> SlotSet']
      BY <2>1, <3>2
    <3> QED BY <2>3, <3>1, <3>3 DEF Spare
  <2> QED BY <2>2, <2>3 DEF Rearm
<1>3. /\ \A j \in Slots \ {i} : /\ Held(j)' <=> Held(j)
                                /\ Done(j)' <=> Done(j)
                                /\ Asked(j)' <=> Asked(j)
      /\ ~Done(i)'
  BY <1>2 DEF Held, Done, Asked
<1>4. submit' \in Nat /\ next' \in Nat /\ next < submit
  BY <1>0, <1>1, <1>2 DEF Ring
<1>5. Ring'
  <2>1. \A j \in Slots : Held(j)' => next' <= slots'[j].seq /\ slots'[j].seq < submit'
    <3>1. ASSUME NEW j \in Slots \ {i}, Held(j)' PROVE next' <= slots'[j].seq /\ slots'[j].seq < submit'
      BY <1>0, <1>1, <1>2, <1>3, <3>1 DEF Ring
    <3>2. Held(i)' => next' <= slots'[i].seq /\ slots'[i].seq < submit'
      BY <1>1, <1>2, <1>4 DEF Held
    <3> QED BY <3>1, <3>2
  <2>2. \A j, k \in Slots : Held(j)' /\ Held(k)' /\ slots'[j].seq = slots'[k].seq => j = k
    <3>1. ASSUME NEW j \in Slots \ {i}, Held(j)' PROVE slots'[j].seq < submit
      BY <1>1, <1>2, <1>3, <3>1 DEF Ring
    <3> QED BY <1>1, <1>2, <1>3, <3>1 DEF Ring, Held
  <2>3. ASSUME NEW q \in next' .. submit' - 1
        PROVE  \E j \in Slots : Held(j)' /\ slots'[j].seq = q
    <3>1. CASE q = submit
      BY <1>0, <1>1, <1>2, <2>3, <3>1 DEF Held
    <3>2. CASE q # submit
      <4>1. q \in next .. submit - 1 /\ q # next
        BY <1>1, <1>2, <2>3, <3>2
      <4>2. PICK j \in Slots : Held(j) /\ slots[j].seq = q
        BY <4>1 DEF Ring
      <4> QED BY <1>0, <1>2, <1>3, <4>1, <4>2
    <3> QED BY <3>1, <3>2
  <2> QED BY <2>1, <2>2, <2>3 DEF Ring
<1>6. Laid'
  <2>1. ASSUME NEW j \in Slots, NEW k \in Slots, Done(j)', Asked(k)' PROVE slots'[j].seq < slots'[k].seq
    <3>1. j # i /\ Done(j) /\ slots'[j] = slots[j] /\ slots[j].seq < submit
      BY <1>2, <1>3, <2>1 DEF Ring, Held, Done
    <3> QED BY <1>2, <1>3, <2>1, <3>1 DEF Laid, Asked
  <2>2. ASSUME NEW j \in Slots, NEW k \in Slots, Done(j)', Done(k)', slots'[k].seq = slots'[j].seq + 1
        PROVE  slots'[k].from = slots'[j].from + slots'[j].n
    BY <1>2, <1>3, <2>2 DEF Laid
  <2>3. ASSUME NEW j \in Slots, IsLast(j)' PROVE slots'[j].from + slots'[j].n = sent'
    <3>1. j # i /\ Done(j) /\ slots'[j] = slots[j]
      BY <1>2, <1>3, <2>3 DEF IsLast
    <3>2. next + 1 <= slots[j].seq
      BY <1>0, <3>1 DEF Held, Done
    <3>3. IsLast(j)
      BY <1>0, <1>1, <1>2, <1>3, <2>3, <3>1, <3>2 DEF IsLast
    <3> QED BY <3>1, <3>3 DEF Laid
  <2> QED BY <2>1, <2>2, <2>3 DEF Laid
<1>7. Within'
  BY <1>1, <1>2 DEF Within, SlotSet, Current
<1>8. ReadTo(p)'
  <2>1. p \in Nat
    BY <1>0, <1>1
  <2>2. ASSUME NEW j \in Current' PROVE slots'[j].from + segOff' = p
    <3>1. j \in Slots /\ j # i /\ Done(j) /\ slots'[j] = slots[j] /\ slots[j].seq = next + 1
      BY <1>2, <1>3, <2>2 DEF Current, Done
    <3>2. slots[j].from = p
      BY <1>0, <3>1 DEF Laid
    <3> QED BY <2>1, <3>1, <3>2
  <2>3. ASSUME Current' = {} PROVE sent' = p
    <3>1. ASSUME NEW j \in Slots, Done(j), j # i PROVE FALSE
      <4>1. next + 1 <= slots[j].seq /\ slots[j].seq < submit
        BY <1>0, <3>1 DEF Ring, Held, Done
      <4>2. PICK k \in Slots : Held(k) /\ slots[k].seq = next + 1
        <5>1. next + 1 \in next .. submit - 1
          BY <1>1, <4>1
        <5> QED BY <5>1 DEF Ring
      <4>3. k # i
        BY <1>0, <1>1, <4>2
      <4>4. ~Done(k)
        BY <1>2, <2>3, <4>2, <4>3 DEF Current, Done
      <4>5. Asked(k)
        BY <1>1, <4>2, <4>4 DEF Held, Done, Asked, SlotSet
      <4> QED BY <1>1, <3>1, <4>1, <4>2, <4>5 DEF Laid
    <3>2. IsLast(i)
      BY <1>0, <1>1, <3>1 DEF IsLast
    <3> QED BY <1>0, <3>2 DEF Laid
  <2> QED BY <2>2, <2>3 DEF ReadTo
<1> QED BY <1>2, <1>3, <1>4, <1>5, <1>6, <1>7, <1>8

-----------------------------------------------------------------------------
(* The steps *)

\* What steps that leave the ring alone keep.
LEMMA RingStill ==
  ASSUME RingInv, UNCHANGED <<conf, ringVars, sent>>,
         held' \in 0 .. Window, closing' \in {"open", "draining", "closed"},
         busy' \in {"no", "next", "zc"}, copied' \in 0 .. conf.frame, tail' \in 0 .. TrailerLen,
         Calls'
  PROVE  RingInv'
<1>1. /\ SlotSet' = SlotSet /\ MaxBytes' = MaxBytes /\ TrailerLen' = TrailerLen
      /\ Current' = Current
      /\ \A i \in Slots : (Done(i)' <=> Done(i)) /\ (Asked(i)' <=> Asked(i)) /\ (Held(i)' <=> Held(i))
  BY DEF ringVars, SlotSet, MaxBytes, Span, TrailerLen, IOKit, Current, Done, Asked, Held
<1>2. Typed'
  BY <1>1 DEF RingInv, Typed, ringVars
<1>3. Ring'
  BY <1>1 DEF RingInv, Ring, ringVars
<1>4. Laid'
  BY <1>1 DEF RingInv, Laid, IsLast, ringVars
<1>5. Within'
  BY <1>1 DEF RingInv, Within, ringVars
<1> QED BY <1>2, <1>3, <1>4, <1>5 DEF RingInv

\* The oldest transfer completes: it is the one after the last that is done, and
\* brings the next bytes.
LEMMA CompleteRing ==
  ASSUME SessionsAssumption, RingInv, Complete
  PROVE  /\ RingInv'
         /\ \A p : ReadTo(p) => ReadTo(p)'
         /\ \E i \in Slots : ~Done(i) /\ \A j \in Slots : Done(j)' <=> j = i \/ Done(j)
         /\ \A j \in Slots : Done(j) => slots'[j] = slots[j]
<1> USE DEF RingInv
<1>1. PICK i \in Oldest, n \in 0 .. Lesser(conf.chunk, MaxBytes - sent), bad \in {FALSE, MayStall} :
        /\ slots' = [slots EXCEPT ![i] =
                       [own |-> "done", seq |-> slots[i].seq, from |-> sent, n |-> n, hard |-> bad]]
        /\ sent' = sent + n
  BY DEF Complete
<1>2. UNCHANGED <<conf, next, submit, segOff, held, closing, busy, copied, tail>>
  BY DEF Complete, callVars, endVars
<1>3. /\ i \in Slots /\ Asked(i) /\ Held(i) /\ ~Done(i)
      /\ \A j \in Slots : Asked(j) => slots[i].seq <= slots[j].seq
  BY DEF Oldest, Asked, Held, Done
<1>4. /\ conf.chunk \in Nat /\ MaxBytes \in Nat /\ sent \in 0 .. MaxBytes
      /\ slots \in [Slots -> SlotSet] /\ next \in Nat
  BY Sizes DEF Typed
<1>5. n \in 0 .. conf.chunk /\ n \in Nat /\ sent' \in 0 .. MaxBytes /\ bad \in BOOLEAN
  <2>1. /\ Lesser(conf.chunk, MaxBytes - sent) \in Int
        /\ Lesser(conf.chunk, MaxBytes - sent) <= conf.chunk
        /\ Lesser(conf.chunk, MaxBytes - sent) <= MaxBytes - sent
    BY <1>4 DEF Lesser
  <2>2. n \in Nat /\ n <= conf.chunk /\ n <= MaxBytes - sent
    BY <1>4, <2>1
  <2>3. bad \in BOOLEAN
    BY DEF SessionsAssumption
  <2> QED BY <1>1, <1>4, <2>2, <2>3
<1>6. /\ SlotSet' = SlotSet /\ MaxBytes' = MaxBytes /\ TrailerLen' = TrailerLen
  BY <1>2 DEF SlotSet, MaxBytes, Span, TrailerLen, IOKit
<1> DEFINE r == [own |-> "done", seq |-> slots[i].seq, from |-> sent, n |-> n, hard |-> bad]
<1>7. r \in SlotSet
  BY <1>3, <1>4, <1>5 DEF SlotSet
<1>8. slots' \in [Slots -> SlotSet] /\ slots'[i] = r /\ \A j \in Slots \ {i} : slots'[j] = slots[j]
  BY <1>1, <1>3, <1>4, <1>7
<1>9. /\ slots'[i].own = "done" /\ slots'[i].seq = slots[i].seq
      /\ slots'[i].from = sent /\ slots'[i].n = n
  BY <1>8
<1> HIDE DEF r
<1>10. /\ \A j \in Slots : Held(j)' <=> Held(j)
       /\ \A j \in Slots : Done(j)' <=> j = i \/ Done(j)
       /\ \A j \in Slots : Asked(j)' <=> j # i /\ Asked(j)
       /\ \A j \in Slots : slots'[j].seq = slots[j].seq /\ slots[j].seq \in Nat
  BY <1>3, <1>4, <1>8, <1>9 DEF Held, Done, Asked, SlotSet
<1>11. \A j \in Slots : Done(j) => /\ slots'[j] = slots[j] /\ slots[j].seq < slots[i].seq
                                   /\ slots[j].from \in Nat /\ slots[j].n \in Nat
  BY <1>3, <1>4, <1>8 DEF Laid, SlotSet, Done
<1>12. Typed'
  BY <1>2, <1>5, <1>6, <1>8 DEF Typed
<1>13. Ring'
  BY <1>2, <1>10 DEF Ring
<1>14. Laid'
  <2>1. ASSUME NEW j \in Slots, NEW k \in Slots, Done(j)', Asked(k)' PROVE slots'[j].seq < slots'[k].seq
    <3>1. CASE j = i
      <4>1. slots[i].seq <= slots[k].seq /\ slots[i].seq # slots[k].seq
        BY <1>3, <1>10, <2>1 DEF Ring, Asked, Held
      <4> QED BY <1>10, <3>1, <4>1
    <3>2. CASE j # i
      BY <1>10, <2>1, <3>2 DEF Laid
    <3> QED BY <3>1, <3>2
  <2>2. ASSUME NEW j \in Slots, NEW k \in Slots, Done(j)', Done(k)', slots'[k].seq = slots'[j].seq + 1
        PROVE  slots'[k].from = slots'[j].from + slots'[j].n
    <3>1. CASE j = i
      BY <1>10, <1>11, <2>2, <3>1
    <3>2. CASE j # i /\ k = i
      <4>1. Done(j) /\ slots[i].seq = slots[j].seq + 1
        BY <1>10, <2>2, <3>2
      <4>2. IsLast(j)
        BY <1>10, <1>11, <4>1 DEF IsLast
      <4> QED BY <1>9, <1>11, <3>2, <4>1, <4>2 DEF Laid
    <3>3. CASE j # i /\ k # i
      BY <1>10, <1>11, <2>2, <3>3 DEF Laid
    <3> QED BY <3>1, <3>2, <3>3
  <2>3. ASSUME NEW j \in Slots, IsLast(j)' PROVE slots'[j].from + slots'[j].n = sent'
    <3>1. j = i
      BY <1>3, <1>10, <1>11, <2>3 DEF IsLast
    <3> QED BY <1>1, <1>9, <3>1
  <2> QED BY <2>1, <2>2, <2>3 DEF Laid
<1>15. CASE Current = {}
  <2>1. \A j \in Slots : ~Done(j)
    BY <1>15, NoneDone
  <2>2. slots[i].seq = next
    <3>1. next <= slots[i].seq /\ slots[i].seq < submit
      BY <1>3 DEF Ring
    <3>0. slots[i].seq \in Nat /\ next \in Nat /\ submit \in Nat
      BY <1>3, <1>4, <1>10 DEF Typed
    <3>2. next \in next .. submit - 1
      BY <3>0, <3>1
    <3>3. PICK j \in Slots : Held(j) /\ slots[j].seq = next
      BY <3>2 DEF Ring
    <3>4. Asked(j)
      BY <1>4, <2>1, <3>3 DEF Held, Asked, Done, SlotSet
    <3>5. slots[i].seq <= slots[j].seq /\ slots[i].seq \in Nat
      BY <1>3, <1>10, <3>4
    <3> QED BY <1>4, <3>1, <3>3, <3>5
  <2>3. Current' = {i}
    BY <1>2, <1>3, <1>9, <1>10, <2>1, <2>2 DEF Current, Done
  <2>4. segOff = 0 /\ held = 0
    BY <1>15 DEF Within, Calls
  <2>5. Within' /\ Calls'
    BY <1>2, <1>5, <1>9, <2>3, <2>4 DEF Within, Calls, ByFrame, IOKit, Span
  <2>6. \A p : ReadTo(p) => ReadTo(p)'
    <3> SUFFICES ASSUME NEW p, ReadTo(p) PROVE ReadTo(p)'
      OBVIOUS
    <3>1. sent = p
      BY <1>15 DEF ReadTo
    <3>2. slots'[i].from + segOff' = sent
      BY <1>2, <1>4, <1>9, <2>4
    <3>3. \A k \in Current' : slots'[k].from + segOff' = p
      BY <2>3, <3>1, <3>2
    <3> QED BY <2>3, <3>3 DEF ReadTo
  <2> QED BY <1>3, <1>10, <1>11, <1>12, <1>13, <1>14, <2>5, <2>6
<1>16. CASE Current # {}
  <2>1. PICK c \in Slots : Done(c) /\ slots[c].seq = next
    BY <1>16 DEF Current, Done
  <2>2. slots[i].seq # next
    BY <1>3, <1>10, <2>1 DEF Ring, Held, Done
  <2>3. Current' = Current /\ \A j \in Current : slots'[j] = slots[j]
    BY <1>2, <1>8, <1>9, <2>2 DEF Current
  <2>4. Within' /\ Calls'
    BY <1>2, <1>16, <2>3 DEF Within, Calls, ByFrame, IOKit, Span
  <2>5. \A p : ReadTo(p) => ReadTo(p)'
    BY <1>2, <1>16, <2>3 DEF ReadTo
  <2> QED BY <1>3, <1>10, <1>11, <1>12, <1>13, <1>14, <2>4, <2>5
<1> QED BY <1>15, <1>16

\* What a pass takes stays within the segment, the frame and the trailer, and
\* nothing is dropped before the frame is full.
LEMMA PassBounds ==
  ASSUME SessionsAssumption, RingInv, NEW i \in Current
  PROVE  /\ slots[i].n \in Nat /\ slots[i].n <= conf.chunk /\ slots[i].from \in Nat
         /\ segOff \in Nat /\ copied \in Nat /\ tail \in Nat
         /\ conf.frame \in Nat /\ TrailerLen \in Nat
         /\ Take(i) \in 0 .. conf.frame - copied
         /\ Drop(i) \in 0 .. TrailerLen - tail
         /\ segOff + Take(i) + Drop(i) <= slots[i].n
         /\ Drop(i) > 0 => copied + Take(i) = conf.frame
<1>1. /\ i \in Slots /\ slots[i] \in SlotSet /\ segOff <= slots[i].n
      /\ conf.frame \in Nat /\ TrailerLen \in Nat /\ conf.chunk \in Nat
      /\ segOff \in Nat /\ copied \in 0 .. conf.frame /\ tail \in 0 .. TrailerLen
  BY Sizes DEF RingInv, Current, Typed, Within
<1>2. slots[i].n \in Nat /\ slots[i].n <= conf.chunk /\ slots[i].from \in Nat
  BY <1>1 DEF SlotSet
<1>3. Take(i) \in 0 .. conf.frame - copied /\ segOff + Take(i) <= slots[i].n
  BY <1>1, <1>2 DEF Take, Lesser
<1>4. /\ Drop(i) \in 0 .. TrailerLen - tail
      /\ segOff + Take(i) + Drop(i) <= slots[i].n
      /\ Drop(i) > 0 => copied + Take(i) = conf.frame
  <2>1. Take(i) \in Nat
    BY <1>1, <1>3
  <2>2. CASE copied + Take(i) = conf.frame
    BY <1>1, <1>2, <1>3, <2>1, <2>2 DEF Drop, Lesser
  <2>3. CASE copied + Take(i) # conf.frame
    BY <1>1, <1>2, <1>3, <2>1, <2>3 DEF Drop
  <2> QED BY <2>2, <2>3
<1> QED BY <1>1, <1>2, <1>3, <1>4

\* A pass of Next over segment next: it is recycled, or read on, and the position
\* moves by what was taken and dropped.
LEMMA CopyRing ==
  ASSUME SessionsAssumption, RingInv, busy = "next", NEW i \in Current, Copy(i),
         UNCHANGED <<conf, held, busy, closing, sent>>
  PROVE  /\ RingInv'
         /\ \A p, q \in Nat : ReadTo(p) /\ q = p + Take(i) + Drop(i) => ReadTo(q)'
<1> USE DEF RingInv
<1> DEFINE off == segOff + Take(i) + Drop(i)
<1>1. /\ slots[i].n \in Nat /\ slots[i].from \in Nat
      /\ segOff \in Nat /\ copied \in Nat /\ tail \in Nat
      /\ conf.frame \in Nat /\ TrailerLen \in Nat
      /\ Take(i) \in 0 .. conf.frame - copied
      /\ Drop(i) \in 0 .. TrailerLen - tail
      /\ off <= slots[i].n
  BY PassBounds
<1>2. /\ copied' = copied + Take(i) /\ tail' = tail + Drop(i)
      /\ \/ off >= slots[i].n /\ segOff' = 0 /\ next' = next + 1 /\ Rearm(i)
         \/ segOff' = off /\ UNCHANGED <<slots, next, submit>>
  BY DEF Copy, Recycle
<1>3. Take(i) \in Nat /\ Drop(i) \in Nat /\ off \in Nat
  BY <1>1
<1>4. copied' \in 0 .. conf.frame /\ tail' \in 0 .. TrailerLen
  <2> HIDE DEF off
  <2> QED BY <1>1, <1>2, <1>3
<1>5. TrailerLen' = TrailerLen /\ MaxBytes' = MaxBytes /\ SlotSet' = SlotSet
  BY DEF TrailerLen, IOKit, MaxBytes, Span, SlotSet
<1>6. Calls'
  BY DEF Calls
<1>7. \A p : ReadTo(p) => slots[i].from + segOff = p
  BY DEF ReadTo
<1>8. CASE off >= slots[i].n /\ segOff' = 0 /\ next' = next + 1 /\ Rearm(i)
  <2>1. off = slots[i].n
    <3> HIDE DEF off
    <3> QED BY <1>1, <1>3, <1>8
  <2>2. /\ slots' \in [Slots -> SlotSet'] /\ next' \in Nat /\ submit' \in Nat
        /\ Ring' /\ Laid' /\ Within'
        /\ \A p : p = slots[i].from + slots[i].n => ReadTo(p)'
    BY <1>8, RecycleRing
  <2>3. ASSUME NEW p \in Nat, NEW q \in Nat, ReadTo(p), q = p + Take(i) + Drop(i) PROVE ReadTo(q)'
    <3>1. q = slots[i].from + slots[i].n
      BY <1>1, <1>3, <1>7, <2>1, <2>3
    <3> QED BY <2>2, <3>1
  <2>4. Typed'
    BY <1>4, <1>5, <1>8, <2>2 DEF Typed
  <2> QED BY <1>6, <2>2, <2>3, <2>4
<1>9. CASE segOff' = off /\ UNCHANGED <<slots, next, submit>>
  <2>1. Typed'
    BY <1>3, <1>4, <1>5, <1>9 DEF Typed
  <2>2. Current' = Current
    BY <1>9 DEF Current
  <2>3. Ring' /\ Laid'
    BY <1>9 DEF Ring, Laid, IsLast, Held, Done, Asked
  <2>4. \A j \in Current : j = i
    BY AfterNext
  <2>5. Within'
    BY <1>1, <1>9, <2>2, <2>4 DEF Within
  <2>6. ASSUME NEW p \in Nat, NEW q \in Nat, ReadTo(p), q = p + Take(i) + Drop(i) PROVE ReadTo(q)'
    <3>1. slots[i].from + off = q
      BY <1>1, <1>3, <1>7, <2>6
    <3>2. \A j \in Current' : slots'[j].from + segOff' = q
      BY <1>9, <2>2, <2>4, <3>1
    <3> QED BY <2>2, <3>2 DEF ReadTo
  <2> QED BY <1>6, <2>1, <2>3, <2>5, <2>6
<1> QED BY <1>2, <1>8, <1>9

\* A segment consumed to its end outside Next.
LEMMA RecycleKeeps ==
  ASSUME SessionsAssumption, RingInv, NEW i \in Current, next' = next + 1, Rearm(i), segOff' = 0,
         UNCHANGED <<conf, sent, closing>>, held' \in 0 .. Window,
         busy' \in {"no", "next", "zc"}, copied' \in 0 .. conf.frame, tail' \in 0 .. TrailerLen,
         Calls'
  PROVE  RingInv'
<1>1. slots' \in [Slots -> SlotSet'] /\ next' \in Nat /\ submit' \in Nat /\ Ring' /\ Laid' /\ Within'
  <2> DEFINE p == slots[i].from + slots[i].n
  <2>1. \A q : q = p => /\ slots' \in [Slots -> SlotSet'] /\ next' \in Nat /\ submit' \in Nat
                        /\ Ring' /\ Laid' /\ Within'
    BY RecycleRing
  <2> QED BY <2>1
<1>2. TrailerLen' = TrailerLen /\ MaxBytes' = MaxBytes
  BY DEF TrailerLen, IOKit, MaxBytes, Span
<1>3. Typed'
  BY <1>1, <1>2 DEF RingInv, Typed
<1> QED BY <1>1, <1>3 DEF RingInv

\* Every entry point, and Release: a slot lent out is recycled, and the next byte is
\* the one after its frame.
LEMMA EnterRing ==
  ASSUME SessionsAssumption, RingInv, ReleaseHeld, busy = "no", closing = "open",
         UNCHANGED <<conf, segOff, sent, closing>>,
         busy' \in {"no", "next", "zc"}, copied' \in 0 .. conf.frame, tail' \in 0 .. TrailerLen,
         busy' = "zc" => ByFrame
  PROVE  /\ RingInv' /\ held' = 0
         /\ held = 0 => UNCHANGED <<slots, next, submit>>
         /\ held # 0 => /\ \E i \in Current : ~slots[i].hard
                        /\ \A p \in Int, q \in Int : ReadTo(p) /\ q = p + Span => ReadTo(q)'
<1>1. Window \in Nat
  BY DEF SessionsAssumption
<1>2. held' = 0 /\ (held = 0 => UNCHANGED <<slots, next, submit>>)
  BY DEF ReleaseHeld
<1>3. Calls'
  BY <1>2 DEF Calls, ByFrame, IOKit, Span
<1>4. CASE held = 0
  <2>1. UNCHANGED <<conf, ringVars, sent>>
    BY <1>2, <1>4 DEF ringVars
  <2>2. held' \in 0 .. Window /\ closing' \in {"open", "draining", "closed"}
    BY <1>1, <1>2
  <2> QED BY <1>2, <1>3, <1>4, <2>1, <2>2, RingStill
<1>5. CASE held # 0
  <2>1. /\ held \in Current /\ ~slots[held].hard /\ slots[held].n = conf.chunk
        /\ conf.chunk = Span /\ segOff = 0
    BY <1>5 DEF RingInv, Calls, ByFrame
  <2>2. next' = next + 1 /\ Rearm(held) /\ segOff' = 0
    BY <1>5, <2>1 DEF ReleaseHeld, Recycle
  <2>3. RingInv'
    BY <1>1, <1>2, <1>3, <2>1, <2>2, RecycleKeeps
  <2>4. ASSUME NEW p \in Int, NEW q \in Int, ReadTo(p), q = p + Span PROVE ReadTo(q)'
    <3>1. slots[held].from + segOff = p
      BY <2>1, <2>4 DEF ReadTo
    <3>2. slots[held].from \in Nat
      BY <2>1 DEF RingInv, Typed, SlotSet, Current
    <3>3. q = slots[held].from + slots[held].n
      BY <2>1, <2>4, <3>1, <3>2
    <3> QED BY <2>1, <2>2, <3>3, RecycleRing
  <2> QED BY <1>2, <1>5, <2>1, <2>3, <2>4
<1> QED BY <1>4, <1>5

\* The steps that leave the ring as it is.
LEMMA OutsideRing ==
  ASSUME SessionsAssumption, RingInv,
         \/ NextDone \/ NextBad \/ NextDead \/ WaitSignal \/ NextShort \/ ZCIdle
         \/ CloseBegin \/ Drained \/ Forfeit \/ Signal \/ UNCHANGED vars
  PROVE  RingInv' /\ UNCHANGED <<conf, ringVars, held, copied, tail, buf, sent>>
<1>1. UNCHANGED <<conf, ringVars, held, copied, tail, buf, sent>>
  BY DEF NextDone, NextBad, NextDead, WaitSignal, NextShort, ZCIdle, CloseBegin, Drained,
         Forfeit, Signal, vars, Return, callVars
<1>2. /\ \/ busy' = "no"
         \/ busy' = busy /\ (busy # "no" => closing' = closing)
      /\ closing' \in {"open", "draining", "closed"} /\ busy' \in {"no", "next", "zc"}
  <2>1. CASE NextDone \/ NextBad \/ NextDead \/ NextShort \/ ZCIdle
    BY <2>1 DEF NextDone, NextBad, NextDead, NextShort, ZCIdle, Return, endVars, RingInv, Typed
  <2>2. CASE WaitSignal \/ Signal \/ UNCHANGED vars
    BY <2>2 DEF WaitSignal, Signal, vars, callVars, endVars, RingInv, Typed
  <2>3. CASE CloseBegin \/ Drained \/ Forfeit
    <3>1. busy = "no" /\ busy' = "no"
      BY <2>3 DEF CloseBegin, Drained, Forfeit, callVars, RingInv, Typed, Calls
    <3>2. closing' \in {"draining", "closed"}
      BY <2>3 DEF CloseBegin, Drained, Forfeit
    <3> QED BY <3>1, <3>2
  <2> QED BY <2>1, <2>2, <2>3
<1>3. TrailerLen' = TrailerLen
  BY <1>1 DEF TrailerLen, IOKit
<1>4. Calls'
  BY <1>1, <1>2 DEF RingInv, Calls, ByFrame, IOKit, Span, Current, ringVars
<1>5. RingInv'
  BY <1>1, <1>2, <1>3, <1>4, RingStill DEF RingInv, Typed
<1> QED BY <1>1, <1>5

\* A transfer short of the chunk is recycled; a whole one is lent out.
LEMMA ZCRing ==
  ASSUME SessionsAssumption, RingInv, ZCMarker \/ ZCFrame
  PROVE  RingInv'
<1>1. /\ busy = "zc" /\ held = 0 /\ ByFrame /\ segOff = 0
      /\ UNCHANGED <<conf, segOff, sent, copied, tail, closing>>
  BY DEF ZCMarker, ZCFrame, RingInv, Calls, ByFrame, callVars, endVars, ringVars
<1>2. /\ held' \in 0 .. Window /\ busy' \in {"no", "next", "zc"}
      /\ copied' \in 0 .. conf.frame /\ tail' \in 0 .. TrailerLen
  <2>1. copied' \in 0 .. conf.frame /\ tail' \in 0 .. TrailerLen
    BY <1>1 DEF RingInv, Typed
  <2>2. 0 \in 0 .. Window /\ \A i \in Current : i \in 0 .. Window
    BY DEF Current, Slots, SessionsAssumption
  <2>3. held' = 0 \/ held' \in Current
    BY <1>1 DEF ZCMarker, ZCFrame
  <2>4. busy' \in {"no", "zc"}
    BY <1>1 DEF ZCMarker, ZCFrame, callVars
  <2> QED BY <2>1, <2>2, <2>3, <2>4
<1>3. CASE ZCMarker
  <2>1. PICK i \in Current : next' = next + 1 /\ Rearm(i)
    BY <1>3 DEF ZCMarker, Recycle
  <2>2. Calls'
    BY <1>1, <1>3 DEF ZCMarker, Calls, RingInv, ByFrame, IOKit, Span, callVars
  <2> QED BY <1>1, <1>2, <2>1, <2>2, RecycleKeeps
<1>4. CASE ZCFrame
  <2>1. UNCHANGED <<conf, ringVars, sent>> /\ busy' = "no"
    BY <1>4 DEF ZCFrame
  <2>2. Calls'
    BY <1>1, <1>4, <2>1 DEF ZCFrame, Calls, ByFrame, IOKit, Span, ringVars, Current
  <2> QED BY <1>1, <1>2, <2>1, <2>2, RingStill DEF RingInv, Typed
<1> QED BY <1>3, <1>4

\* Every step keeps the ring.
LEMMA NextRing == ASSUME SessionsAssumption, RingInv, [Next]_vars PROVE RingInv'
<1>1. CASE NextEnter \/ ZCEnter \/ Release
  <2>1. /\ ReleaseHeld /\ busy = "no" /\ closing = "open"
        /\ UNCHANGED <<conf, segOff, sent, closing>>
        /\ busy' \in {"no", "next", "zc"}
    BY <1>1 DEF NextEnter, ZCEnter, Release, callVars, endVars
  <2>2. copied' \in 0 .. conf.frame /\ tail' \in 0 .. TrailerLen
    BY <1>1, Sizes, SMTT(30) DEF NextEnter, ZCEnter, Release, callVars, RingInv, Typed
  <2>3. busy' = "zc" => ByFrame
    BY <1>1 DEF NextEnter, ZCEnter, Release, callVars, ByFrame
  <2> QED BY <2>1, <2>2, <2>3, EnterRing
<1>2. CASE Consume
  <2>1. PICK i \in Current : Copy(i)
    BY <1>2 DEF Consume
  <2>2. busy = "next" /\ UNCHANGED <<conf, held, busy, closing, sent>>
    BY <1>2 DEF Consume, endVars
  <2> QED BY <2>1, <2>2, CopyRing
<1>3. CASE \/ NextDone \/ NextBad \/ NextDead \/ WaitSignal \/ NextShort \/ ZCIdle
           \/ CloseBegin \/ Drained \/ Forfeit \/ Signal \/ UNCHANGED vars
  BY <1>3, OutsideRing
<1>4. CASE ZCMarker \/ ZCFrame
  BY <1>4, ZCRing
<1>5. CASE Complete
  BY <1>5, CompleteRing
<1> QED BY <1>1, <1>2, <1>3, <1>4, <1>5 DEF Next, Caller

\* The ring is whole in every reachable state.
LEMMA RingAlways == ASSUME SessionsAssumption PROVE Spec => []RingInv
<1>1. Init => RingInv
  BY InitRing
<1>2. RingInv /\ [Next]_vars => RingInv'
  BY NextRing
<1> QED BY <1>1, <1>2, PTL DEF Spec

\* On every host and for any sizes: every segment from the one to consume to the last
\* submitted is in exactly one slot (SegmentsHeld), through refused submissions, hard
\* errors and slots lent out.
THEOREM NoLostSegment == ASSUME SessionsAssumption PROVE Spec => []SegmentsHeld
<1>1. RingInv => SegmentsHeld
  BY DEF RingInv, Ring, SegmentsHeld
<1> QED BY <1>1, RingAlways, PTL

\* Nothing writes to the slice NextZC lent, and nothing but its release recycles it
\* (LentUntouched).
THEOREM LentAlwaysUntouched == ASSUME SessionsAssumption PROVE Spec => []LentUntouched
<1>1. RingInv => LentUntouched
  BY DEF RingInv, Calls, Current, LentUntouched
<1> QED BY <1>1, RingAlways, PTL

-----------------------------------------------------------------------------
(* The signals *)

\* The slots whose completion was signalled, or is about to be.
DoneSlots == {i \in Slots : Done(i)}

\* The signals posted, about to be, or consumed by a wait.
Due     == IF posting THEN 1 ELSE 0
Signals == comp + unclaimed + Due

\* On IOKit one to each done slot; WinUSB has no semaphore.
Balanced ==
  /\ comp \in Nat /\ unclaimed \in Nat /\ posting \in BOOLEAN
  /\ Signals = IF IOKit THEN Cardinality(DoneSlots) ELSE 0

\* The signals' invariant.
SignalInv == RingInv /\ Balanced

\* The callback owes one signal at most.
LEMMA DueFacts ==
  /\ Due \in {0, 1} /\ (posting => Due = 1) /\ (~posting => Due = 0)
  /\ Due' \in {0, 1} /\ (posting' => Due' = 1) /\ (~posting' => Due' = 0)
BY Zenon DEF Due

\* There are no more done slots than slots.
LEMMA DoneCount ==
  ASSUME SessionsAssumption
  PROVE  IsFiniteSet(DoneSlots) /\ Cardinality(DoneSlots) \in Nat /\ Cardinality(DoneSlots) <= Window
<1>1. Window \in Nat /\ Window > 0
  BY DEF SessionsAssumption
<1>2. IsFiniteSet(Slots) /\ Cardinality(Slots) = Window
  BY <1>1, FS_Interval DEF Slots
<1>3. DoneSlots \in SUBSET Slots
  BY DEF DoneSlots
<1>4. IsFiniteSet(DoneSlots) /\ Cardinality(DoneSlots) <= Cardinality(Slots)
  BY <1>2, <1>3, FS_Subset
<1> QED BY <1>2, <1>4, FS_CardinalityType

\* A step that marks no slot and moves no signal between its three places keeps the count.
LEMMA SignalStill ==
  ASSUME Balanced, UNCHANGED <<conf, slots>>,
         comp' \in Nat, unclaimed' \in Nat, posting' \in BOOLEAN, Signals' = Signals
  PROVE  Balanced'
BY DEF Balanced, DoneSlots, Done, IOKit

\* A slot recycled takes one signal with it.
LEMMA RecycleSignals ==
  ASSUME SessionsAssumption, SignalInv, NEW i \in Current, Recycle(i), segOff' = 0,
         UNCHANGED <<conf, sent>>
  PROVE  Balanced'
<1>1. /\ comp \in Nat /\ unclaimed \in Nat /\ posting \in BOOLEAN
      /\ Signals = IF IOKit THEN Cardinality(DoneSlots) ELSE 0
  BY DEF SignalInv, Balanced
<1>2. i \in DoneSlots /\ DoneSlots' = DoneSlots \ {i}
  <2>1. \A p : p = slots[i].from + slots[i].n => \A j \in Slots : Done(j)' <=> j # i /\ Done(j)
    BY RecycleRing DEF SignalInv, Recycle
  <2>2. \A j \in Slots : Done(j)' <=> j # i /\ Done(j)
    BY <2>1
  <2> QED BY <2>2 DEF DoneSlots, Current, Done
<1>3. Cardinality(DoneSlots') = Cardinality(DoneSlots) - 1 /\ Cardinality(DoneSlots) \in Nat
  BY <1>2, DoneCount, FS_RemoveElement
<1>4. IOKit' = IOKit
  BY DEF IOKit
<1>5. CASE ~IOKit
  <2>1. UNCHANGED <<comp, unclaimed, posting>>
    BY <1>5 DEF Recycle, Claim, semVars
  <2> QED BY <1>1, <1>4, <1>5, <2>1 DEF Balanced, Signals, Due
<1>6. CASE IOKit
  <2>1. /\ comp' \in Nat /\ unclaimed' \in Nat
        /\ \/ comp' = comp - 1 /\ unclaimed' = unclaimed
           \/ comp' = comp /\ unclaimed' = unclaimed - 1
    BY <1>1, <1>6 DEF Recycle, Claim
  <2>2. posting' = posting
    BY <1>6 DEF Recycle, Claim
  <2>3. Due' = Due
    BY <2>2 DEF Due
  <2>4. Due \in Nat /\ comp \in Nat /\ unclaimed \in Nat
    BY <1>1, DueFacts
  <2>5. Signals' = Signals - 1
    <3>1. Signals = comp + unclaimed + Due
      BY DEF Signals
    <3>2. Signals' = comp' + unclaimed' + Due
      BY <2>3 DEF Signals
    <3>3. CASE comp' = comp - 1 /\ unclaimed' = unclaimed
      BY <2>4, <3>1, <3>2, <3>3
    <3>4. CASE comp' = comp /\ unclaimed' = unclaimed - 1
      BY <2>4, <3>1, <3>2, <3>4
    <3> QED BY <2>1, <3>3, <3>4
  <2>6. Signals' = Cardinality(DoneSlots')
    BY <1>1, <1>3, <1>6, <2>5
  <2> QED BY <1>1, <1>4, <1>6, <2>1, <2>2, <2>6 DEF Balanced
<1> QED BY <1>5, <1>6

\* Every step keeps the balance.
LEMMA NextSignals == ASSUME SessionsAssumption, SignalInv, [Next]_vars PROVE Balanced'
<1>1. /\ comp \in Nat /\ unclaimed \in Nat /\ posting \in BOOLEAN
      /\ Signals = IF IOKit THEN Cardinality(DoneSlots) ELSE 0
  BY DEF SignalInv, Balanced
<1>2. CASE NextEnter \/ ZCEnter \/ Release
  <2>1. ReleaseHeld /\ UNCHANGED <<conf, segOff, sent>>
    BY <1>2 DEF NextEnter, ZCEnter, Release
  <2>2. CASE held = 0
    BY <1>1, <2>1, <2>2, SignalStill DEF SignalInv, ReleaseHeld, semVars, Signals, Due
  <2>3. CASE held # 0
    <3>1. held \in Current /\ segOff' = 0 /\ Recycle(held)
      BY <2>1, <2>3 DEF ReleaseHeld, SignalInv, RingInv, Calls, ByFrame
    <3> QED BY <2>1, <3>1, RecycleSignals
  <2> QED BY <2>2, <2>3
<1>3. CASE Consume
  <2>1. PICK i \in Current :
          \/ segOff' = 0 /\ Recycle(i)
          \/ UNCHANGED <<slots, next, submit, semVars>>
    BY <1>3 DEF Consume, Copy
  <2>2. UNCHANGED <<conf, sent>>
    BY <1>3 DEF Consume
  <2>3. CASE segOff' = 0 /\ Recycle(i)
    BY <2>2, <2>3, RecycleSignals
  <2>4. CASE UNCHANGED <<slots, next, submit, semVars>>
    BY <1>1, <2>2, <2>4, SignalStill DEF SignalInv, semVars, Signals, Due
  <2> QED BY <2>1, <2>3, <2>4
<1>4. CASE ZCMarker
  <2>1. PICK i \in Current : Recycle(i)
    BY <1>4 DEF ZCMarker
  <2>2. segOff' = 0 /\ UNCHANGED <<conf, sent>>
    BY <1>4 DEF ZCMarker, SignalInv, RingInv, Calls, ByFrame
  <2> QED BY <2>1, <2>2, RecycleSignals
<1>5. CASE \/ NextDone \/ NextBad \/ NextDead \/ NextShort \/ ZCFrame \/ ZCIdle
           \/ CloseBegin \/ Drained \/ Forfeit \/ UNCHANGED vars
  <2>1. UNCHANGED <<conf, slots, comp, unclaimed, posting>>
    BY <1>5 DEF NextDone, NextBad, NextDead, NextShort, ZCFrame, ZCIdle, CloseBegin, Drained, Forfeit,
         vars, Return, ringVars, semVars
  <2> QED BY <1>1, <2>1, SignalStill DEF SignalInv, Signals, Due
<1>6. CASE WaitSignal \/ Signal
  <2>1. UNCHANGED <<conf, slots>>
    BY <1>6 DEF WaitSignal, Signal, ringVars
  <2>2. comp' \in Nat /\ unclaimed' \in Nat /\ posting' \in BOOLEAN /\ Signals' = Signals
    <3>1. CASE WaitSignal
      <4>1. /\ comp > 0 /\ comp' = comp - 1 /\ unclaimed' = unclaimed + 1
            /\ posting' = posting /\ Due' = Due
        BY <3>1 DEF WaitSignal, Due
      <4> QED BY <1>1, <4>1, DueFacts DEF Signals
    <3>2. CASE Signal
      <4>1. posting /\ ~posting' /\ posting' = FALSE /\ comp' = comp + 1 /\ unclaimed' = unclaimed
        BY <3>2 DEF Signal
      <4>2. Due = 1 /\ Due' = 0
        BY <4>1, DueFacts
      <4>3. comp \in Nat /\ unclaimed \in Nat /\ comp' = comp + 1 /\ unclaimed' = unclaimed
        BY <1>1, <4>1
      <4>4. comp' \in Nat /\ unclaimed' \in Nat /\ Signals' = Signals
        BY <4>2, <4>3 DEF Signals
      <4> QED BY <4>1, <4>4
    <3> QED BY <1>6, <3>1, <3>2
  <2> QED BY <2>1, <2>2, SignalStill DEF SignalInv
<1>7. CASE Complete
  <2>1. PICK i \in Slots : ~Done(i) /\ \A j \in Slots : Done(j)' <=> j = i \/ Done(j)
    BY <1>7, CompleteRing DEF SignalInv
  <2>2. DoneSlots' = DoneSlots \cup {i} /\ i \notin DoneSlots
    BY <2>1 DEF DoneSlots
  <2>3. Cardinality(DoneSlots') = Cardinality(DoneSlots) + 1 /\ Cardinality(DoneSlots) \in Nat
    BY <2>2, DoneCount, FS_AddElement
  <2>4. ~posting /\ posting' = IOKit /\ UNCHANGED <<comp, unclaimed>> /\ IOKit' = IOKit
    BY <1>7 DEF Complete, IOKit
  <2>5. posting' \in BOOLEAN /\ Signals' = IF IOKit THEN Signals + 1 ELSE Signals
    <3>1. posting' \in BOOLEAN
      BY <2>4, Zenon DEF IOKit
    <3>2. CASE IOKit
      <4>1. Due = 0 /\ Due' = 1
        BY <2>4, <3>2, DueFacts
      <4> QED BY <1>1, <2>4, <3>1, <3>2, <4>1 DEF Signals
    <3>3. CASE ~IOKit
      <4>1. Due = 0 /\ Due' = 0
        BY <2>4, <3>3, DueFacts
      <4> QED BY <1>1, <2>4, <3>1, <3>3, <4>1 DEF Signals
    <3> QED BY <3>2, <3>3
  <2> QED BY <1>1, <2>3, <2>4, <2>5 DEF Balanced
<1> QED BY <1>2, <1>3, <1>4, <1>5, <1>6, <1>7 DEF Next, Caller

\* The signals balance in every reachable state.
LEMMA SignalsAlways == ASSUME SessionsAssumption PROVE Spec => []SignalInv
<1>1. Init => SignalInv
  <2> SUFFICES ASSUME Init PROVE SignalInv
    OBVIOUS
  <2>1. \A i \in Slots : ~Done(i)
    BY DEF Init, StartIOKit, StartWinusb, Submitted, Spare, Done
  <2>2. DoneSlots = {} /\ Cardinality({}) = 0
    BY <2>1, FS_EmptySet DEF DoneSlots
  <2>3. Balanced
    <3>1. comp = 0 /\ unclaimed = 0 /\ posting = FALSE
      BY DEF Init
    <3>2. Signals = 0
      BY <3>1, DueFacts DEF Signals
    <3> QED BY <2>2, <3>1, <3>2 DEF Balanced
  <2> QED BY <2>3, InitRing DEF SignalInv
<1>2. SignalInv /\ [Next]_vars => SignalInv'
  BY NextRing, NextSignals DEF SignalInv
<1> QED BY <1>1, <1>2, PTL DEF Spec

\* On IOKit every completed slot has exactly one signal, posted, about to be, or consumed
\* by a wait (SignalsBalance): signals do not pile up over a burst, and none is missing
\* when a slot is recycled.
THEOREM SignalsAlwaysBalance == ASSUME SessionsAssumption PROVE Spec => []SignalsBalance
<1>1. SignalInv => SignalsBalance
  BY DEF SignalInv, Balanced, Signals, Due, DoneSlots, Done, SignalsBalance
<1> QED BY <1>1, SignalsAlways, PTL

-----------------------------------------------------------------------------
(* The frames, on IOKit *)

\* The position after the frames returned.
Start == Len(frames) * Span

\* The position of the next byte to consume: what Next took comes after the frames
\* returned, and a frame lent out is returned but not consumed.
Reached ==
  IF busy = "next" THEN Start + copied + tail
  ELSE IF held = 0 THEN Start ELSE Start - Span

\* Nothing will be consumed any more: a hard error stays first, a dead window dead.
Stuck == ~Live \/ \E i \in Current : slots[i].hard

\* The next byte to consume is at the position reached, unless nothing more is returned
\* or alignment was given up.
Aligned == cut \/ desync \/ Stuck \/ ReadTo(Reached)

\* What the Next in progress took follows the last frame returned.
TakenInOrder == busy = "next" => cut \/ \A j \in 1 .. copied : buf[j] = Start + j - 1

\* The trailer is dropped after the frame, and no call runs once the latch is set.
Latched == (desync => busy = "no") /\ (tail > 0 => copied = conf.frame)

\* The types of what a call copied and the session returned.
DataTypes ==
  /\ buf \in Seq(Nat) /\ Len(buf) = copied /\ frames \in Seq(Seq(Nat))
  /\ desync \in BOOLEAN /\ cut \in BOOLEAN /\ leaked \in BOOLEAN

\* Where the bytes come from: the frames' invariant.
Whence == IOKit => Aligned /\ TakenInOrder /\ (cut \/ InOrder)
FrameInv == RingInv /\ DataTypes /\ Latched /\ Whence

\* The position frames begin at.
LEMMA StartFacts ==
  ASSUME SessionsAssumption, RingInv, DataTypes
  PROVE  /\ Len(frames) \in Nat /\ Start \in Nat /\ Span \in Nat /\ Reached \in Int
         /\ conf.frame \in Nat \ {0} /\ conf.trailer \in Nat
         /\ copied \in Nat /\ tail \in Nat /\ copied <= conf.frame /\ tail <= TrailerLen
         /\ Span = conf.frame + conf.trailer /\ TrailerLen \in Nat
         /\ IOKit => TrailerLen = conf.trailer
<1>1. /\ conf.frame \in Nat \ {0} /\ conf.trailer \in Nat
      /\ TrailerLen \in Nat /\ (IOKit => TrailerLen = conf.trailer)
      /\ Span \in Nat /\ Span = conf.frame + conf.trailer
  BY Sizes DEF RingInv, Typed
<1>2. Len(frames) \in Nat
  BY DEF DataTypes
<1>3. Start \in Nat
  BY <1>2, SpanFacts DEF Start, RingInv, Typed
<1>4. copied \in Nat /\ tail \in Nat /\ copied <= conf.frame /\ tail <= TrailerLen
  BY <1>1 DEF RingInv, Typed
<1>5. Reached \in Int
  BY <1>1, <1>3, <1>4 DEF Reached
<1> QED BY <1>1, <1>2, <1>3, <1>4, <1>5

\* A frame appended begins where the last ends.
LEMMA FrameAppended ==
  ASSUME SessionsAssumption, RingInv, DataTypes, UNCHANGED conf,
         NEW s \in Seq(Nat), Len(s) = conf.frame, frames' = Append(frames, s)
  PROVE  /\ frames' \in Seq(Seq(Nat)) /\ Start' = Start + Span
         /\ InOrder /\ (\A j \in 1 .. conf.frame : s[j] = Start + j - 1) => InOrder'
<1>1. /\ frames' \in Seq(Seq(Nat)) /\ Len(frames') = Len(frames) + 1 /\ Len(frames) \in Nat
      /\ \A k \in 1 .. Len(frames) : frames'[k] = frames[k]
      /\ frames'[Len(frames) + 1] = s
  BY DEF DataTypes
<1>2. Span' = Span
  BY DEF Span
<1>3. Start' = Start + Span
  BY <1>1, <1>2, SpanFacts DEF Start, RingInv, Typed
<1>4. ASSUME InOrder, \A j \in 1 .. conf.frame : s[j] = Start + j - 1
      PROVE  InOrder'
  <2>1. s = Frame(Len(frames))
    <3>1. s \in [1 .. conf.frame -> Nat]
      BY LenProperties
    <3>2. \A j \in 1 .. conf.frame : s[j] = Len(frames) * Span + j - 1
      BY <1>4 DEF Start
    <3> QED BY <3>1, <3>2 DEF Frame
  <2>2. ASSUME NEW k \in 1 .. Len(frames') PROVE frames'[k] = Frame(k - 1)
    <3>1. CASE k \in 1 .. Len(frames)
      BY <1>1, <1>4, <3>1 DEF InOrder
    <3>2. CASE k = Len(frames) + 1
      BY <1>1, <2>1, <3>2
    <3> QED BY <1>1, <2>2, <3>1, <3>2
  <2>3. \A l : Frame(l)' = Frame(l)
    BY <1>2 DEF Frame
  <2> QED BY <2>2, <2>3 DEF InOrder, Frame, Span
<1> QED BY <1>1, <1>3, <1>4

\* Steps that consume nothing leave the position and what is stuck.
LEMMA ReadStill ==
  ASSUME UNCHANGED <<conf, ringVars, sent>>
  PROVE  /\ Current' = Current /\ Stuck' = Stuck /\ Span' = Span /\ IOKit' = IOKit
         /\ TrailerLen' = TrailerLen
         /\ \A p : ReadTo(p) => ReadTo(p)'
<1>1. Current' = Current /\ Live' = Live
  BY DEF ringVars, Current, Live
<1> QED BY <1>1 DEF ringVars, Stuck, Span, IOKit, TrailerLen, ReadTo

\* Nothing has been sent.
LEMMA InitFrames == ASSUME SessionsAssumption, Init PROVE FrameInv
<1>1. RingInv
  BY InitRing
<1>2. DataTypes
  <2>1. <<>> \in Seq(Nat) /\ Len(<<>>) = 0 /\ <<>> \in Seq(Seq(Nat))
    BY EmptySeq
  <2> QED BY <2>1 DEF Init, DataTypes
<1>3. Latched
  BY DEF Init, Latched
<1>4. Current = {}
  BY DEF Init, StartIOKit, StartWinusb, Submitted, Spare, Current
<1>5. Start = 0 /\ Reached = 0
  <2>1. Span \in Nat
    BY Sizes DEF Init
  <2>2. Start = 0
    BY <2>1 DEF Init, Start
  <2> QED BY <2>2 DEF Init, Reached
<1>6. Aligned
  BY <1>4, <1>5 DEF Aligned, ReadTo, Init
<1>7. Whence
  BY <1>6 DEF Init, Whence, TakenInOrder, InOrder
<1> QED BY <1>1, <1>2, <1>3, <1>7 DEF FrameInv

\* Entry points and Release: a call begins where the last frame ended.
LEMMA EnterFrames ==
  ASSUME SessionsAssumption, FrameInv, RingInv', NextEnter \/ ZCEnter \/ Release
  PROVE  FrameInv'
<1> USE DEF FrameInv
<1>1. /\ ReleaseHeld /\ busy = "no" /\ closing = "open"
      /\ UNCHANGED <<conf, segOff, sent, closing, desync, leaked, frames, cut>>
      /\ busy' \in {"no", "next", "zc"}
      /\ desync' => busy' = "no"
      /\ \/ UNCHANGED <<copied, tail, buf>> /\ busy' = "no"
         \/ copied' = 0 /\ tail' = 0 /\ buf' = <<>>
  BY DEF NextEnter, ZCEnter, Release, callVars, endVars, histVars, DataTypes
<1>2. copied' \in 0 .. conf.frame /\ tail' \in 0 .. TrailerLen
  BY <1>1, Sizes DEF RingInv, Typed
<1>3. busy' = "zc" => ByFrame
  BY DEF NextEnter, ZCEnter, Release, callVars, ByFrame, RingInv, Typed
<1>4. /\ held' = 0
      /\ held = 0 => UNCHANGED <<slots, next, submit>>
      /\ held # 0 => /\ \E i \in Current : ~slots[i].hard
                     /\ \A p \in Int, q \in Int : ReadTo(p) /\ q = p + Span => ReadTo(q)'
  BY <1>1, <1>2, <1>3, EnterRing
<1>5. DataTypes'
  <2>1. <<>> \in Seq(Nat) /\ Len(<<>>) = 0
    BY EmptySeq
  <2> QED BY <1>1, <2>1 DEF DataTypes
<1>6. Latched'
  BY <1>1 DEF Latched
<1>7. Span' = Span /\ IOKit' = IOKit /\ Start' = Start /\ (InOrder => InOrder')
  BY <1>1 DEF Span, IOKit, Start, InOrder, Frame
<1>8. Start \in Nat /\ Span \in Nat
  BY StartFacts
<1>9. Reached' = Start
  BY <1>1, <1>4, <1>7, <1>8 DEF Reached
<1>10. IOKit /\ Aligned => Aligned'
  <2>1. CASE cut \/ desync
    BY <1>1, <2>1 DEF Aligned
  <2>2. CASE held = 0 /\ (Stuck \/ ReadTo(Reached))
    <3>1. UNCHANGED <<conf, ringVars, sent>> /\ Reached = Start
      BY <1>1, <1>4, <2>2 DEF ringVars, Reached
    <3>2. Stuck' = Stuck /\ \A p : ReadTo(p) => ReadTo(p)'
      BY <3>1, ReadStill
    <3> QED BY <1>9, <2>2, <3>1, <3>2 DEF Aligned, ReadTo
  <2>3. CASE held # 0 /\ Stuck
    <3>1. PICK i \in Current : ~slots[i].hard
      BY <1>4, <2>3
    <3>2. Live /\ \A j \in Current : j = i
      BY AfterNext DEF Live, Held
    <3> QED BY <2>3, <3>1, <3>2 DEF Stuck
  <2>4. CASE held # 0 /\ ReadTo(Reached)
    <3>1. Reached = Start - Span
      BY <1>1, <2>4 DEF Reached
    <3>2. Reached \in Int /\ Start \in Int /\ Start = Reached + Span
      BY <1>8, <3>1
    <3>3. \A q : q = Start => ReadTo(q)'
      BY <1>4, <2>4, <3>2
    <3> QED BY <1>9, <3>3 DEF Aligned, ReadTo
  <2> QED BY <2>1, <2>2, <2>3, <2>4 DEF Aligned
<1>11. TakenInOrder'
  BY <1>1 DEF TakenInOrder
<1> QED BY <1>1, <1>5, <1>6, <1>7, <1>10, <1>11 DEF Whence

\* The bytes a pass copies follow the ones copied before.
LEMMA PassBytes ==
  ASSUME buf \in Seq(Nat), Len(buf) = copied, NEW m \in Nat, NEW p \in Nat,
         buf' = buf \o [k \in 1 .. m |-> p + k - 1]
  PROVE  /\ buf' \in Seq(Nat) /\ Len(buf') = copied + m
         /\ \A j \in 1 .. copied : buf'[j] = buf[j]
         /\ \A j \in copied + 1 .. copied + m : buf'[j] = p + (j - copied) - 1
<1> DEFINE s == [k \in 1 .. m |-> p + k - 1]
<1>1. s \in [1 .. m -> Nat] /\ copied \in Nat
  OBVIOUS
<1>2. buf' = buf \o s
  OBVIOUS
<1>3. \A k \in 1 .. m : s[k] = p + k - 1
  OBVIOUS
<1> HIDE DEF s
<1>4. s \in Seq(Nat) /\ Len(s) = m
  <2>1. s \in Seq(Nat)
    BY <1>1, SeqDef
  <2> QED BY <1>1, <2>1, LenProperties
<1>5. /\ buf' \in Seq(Nat) /\ Len(buf') = copied + m
      /\ \A j \in 1 .. copied + m : buf'[j] = IF j <= copied THEN buf[j] ELSE s[j - copied]
  <2>1. /\ buf \o s \in Seq(Nat)
        /\ Len(buf \o s) = Len(buf) + Len(s)
        /\ \A j \in 1 .. Len(buf) + Len(s) :
             (buf \o s)[j] = IF j <= Len(buf) THEN buf[j] ELSE s[j - Len(buf)]
    BY <1>4, ConcatProperties, Zenon
  <2> QED BY <1>2, <1>4, <2>1
<1>6. ASSUME NEW j \in copied + 1 .. copied + m PROVE buf'[j] = p + (j - copied) - 1
  <2>1. j \in 1 .. copied + m /\ ~(j <= copied) /\ j - copied \in 1 .. m
    BY <1>1
  <2> QED BY <1>3, <1>5, <2>1
<1>7. \A j \in 1 .. copied : buf'[j] = buf[j]
  BY <1>1, <1>5
<1> QED BY <1>5, <1>6, <1>7

\* A pass takes the bytes at the position reached, and moves it past them.
LEMMA ConsumeFrames ==
  ASSUME SessionsAssumption, FrameInv, RingInv', Consume
  PROVE  FrameInv'
<1> USE DEF FrameInv
<1>1. PICK i \in Current : ~slots[i].hard /\ Copy(i)
  BY DEF Consume
<1>2. /\ busy = "next" /\ busy' = "next" /\ held = 0 /\ closing = "open"
      /\ UNCHANGED <<conf, desync, held, busy, closing, leaked, sent, frames, cut>>
  BY DEF Consume, endVars, histVars, RingInv, Calls
<1> DEFINE m == Take(i)
           d == Drop(i)
<1>3. /\ slots[i].from \in Nat /\ segOff \in Nat
      /\ m \in 0 .. conf.frame - copied /\ d \in 0 .. TrailerLen - tail
      /\ d > 0 => copied + m = conf.frame
  BY PassBounds
<1>4. /\ copied' = copied + m /\ tail' = tail + d
      /\ buf' = buf \o [k \in 1 .. m |-> slots[i].from + segOff + k - 1]
  BY <1>1 DEF Copy
<1>5. /\ Start \in Nat /\ Span \in Nat /\ conf.frame \in Nat
      /\ copied \in Nat /\ tail \in Nat /\ TrailerLen \in Nat /\ copied <= conf.frame
  BY StartFacts
<1>6. m \in Nat /\ d \in Nat
  BY <1>3, <1>5
<1>7. /\ buf' \in Seq(Nat) /\ Len(buf') = copied + m
      /\ \A j \in 1 .. copied : buf'[j] = buf[j]
      /\ \A j \in copied + 1 .. copied + m : buf'[j] = slots[i].from + segOff + (j - copied) - 1
  <2>1. slots[i].from + segOff \in Nat
    BY <1>3
  <2> HIDE DEF m
  <2> QED BY <1>4, <1>6, <2>1, PassBytes DEF DataTypes
<1>8. DataTypes'
  BY <1>2, <1>4, <1>7 DEF DataTypes
<1>9. Latched'
  <2> HIDE DEF m, d
  <2> QED BY <1>2, <1>3, <1>4, <1>5, <1>6 DEF Latched
<1>10. ~desync /\ ~Stuck
  <2>1. Live /\ \A j \in Current : j = i
    BY AfterNext DEF Live, Held
  <2> QED BY <1>1, <1>2, <2>1 DEF Latched, Stuck
<1>11. Start' = Start /\ IOKit' = IOKit /\ (InOrder => InOrder') /\ Reached = Start + copied + tail
  BY <1>2 DEF Start, Span, IOKit, InOrder, Frame, Reached
<1>12. Reached' = Reached + m + d
  <2>1. Reached' = Start' + copied' + tail'
    BY <1>2 DEF Reached
  <2> HIDE DEF m, d
  <2> QED BY <1>4, <1>5, <1>6, <1>11, <2>1
<1>13. ASSUME IOKit, Aligned, ~cut PROVE slots[i].from + segOff = Reached /\ Aligned'
  <2>1. ReadTo(Reached)
    BY <1>10, <1>13 DEF Aligned
  <2>2. slots[i].from + segOff = Reached
    BY <2>1 DEF ReadTo
  <2>3. Reached \in Nat /\ Reached + m + d \in Nat
    BY <1>5, <1>6, <1>11
  <2>4. \A q : q = Reached + m + d => ReadTo(q)'
    BY <1>1, <1>2, <2>1, <2>3, CopyRing
  <2>5. ReadTo(Reached)'
    BY <1>12, <2>4 DEF ReadTo
  <2> QED BY <2>2, <2>5 DEF Aligned
<1>14. ASSUME IOKit, Aligned, ~cut, TakenInOrder, NEW j \in 1 .. copied' PROVE buf'[j] = Start' + j - 1
  <2>1. CASE j \in 1 .. copied
    BY <1>2, <1>7, <1>11, <1>14, <2>1 DEF TakenInOrder
  <2>2. CASE j \in copied + 1 .. copied + m
    <3>1. tail = 0
      <4> HIDE DEF m
      <4> QED BY <1>3, <1>5, <1>6, <2>2 DEF Latched
    <3>2. slots[i].from + segOff = Start + copied
      BY <1>5, <1>11, <1>13, <1>14, <3>1
    <3>3. buf'[j] = slots[i].from + segOff + (j - copied) - 1
      BY <1>7, <2>2
    <3> HIDE DEF m
    <3> QED BY <1>3, <1>5, <1>6, <1>11, <2>2, <3>2, <3>3
  <2>3. j \in 1 .. copied \/ j \in copied + 1 .. copied + m
    <3>1. j \in 1 .. copied + m
      BY <1>4
    <3> HIDE DEF m
    <3> QED BY <1>5, <1>6, <3>1
  <2> QED BY <2>1, <2>2, <2>3
<1>15. Whence'
  <2>1. ASSUME IOKit PROVE Aligned' /\ TakenInOrder' /\ (cut' \/ InOrder')
    <3>1. CASE cut
      BY <1>2, <3>1 DEF Aligned, TakenInOrder
    <3>2. CASE ~cut
      BY <1>2, <1>11, <1>13, <1>14, <2>1, <3>2 DEF Whence, TakenInOrder
    <3> QED BY <3>1, <3>2
  <2> QED BY <1>11, <2>1 DEF Whence
<1> QED BY <1>8, <1>9, <1>15

\* A Next returns: a whole frame with its trailer is the next frame; anything less
\* latches, gives up a trailer, or leaves the position or what is stuck.
LEMMA ReturnFrames ==
  ASSUME SessionsAssumption, FrameInv, RingInv', NextDone \/ NextBad \/ NextDead \/ NextShort
  PROVE  FrameInv'
<1> USE DEF FrameInv
<1>1. /\ UNCHANGED <<conf, ringVars, held, copied, tail, buf, sent, leaked>>
      /\ busy # "no" /\ busy' = "no" /\ held = 0 /\ ~desync
      /\ cut' = (cut \/ (copied = conf.frame /\ tail < TrailerLen))
      /\ desync' \in BOOLEAN
  <2>1. busy # "no"
    BY DEF NextDone, NextBad, NextDead, NextShort, Waiting
  <2>2. held = 0 /\ ~desync
    BY <2>1 DEF RingInv, Calls, Latched
  <2>3. desync' \in BOOLEAN
    BY DEF NextDone, NextBad, NextDead, NextShort, Latch, DataTypes
  <2> QED BY <2>1, <2>2, <2>3 DEF NextDone, NextBad, NextDead, NextShort, Return, endVars
<1>2. /\ Start \in Nat /\ Span \in Nat /\ conf.frame \in Nat \ {0} /\ conf.trailer \in Nat
      /\ copied \in Nat /\ tail \in Nat /\ copied <= conf.frame /\ tail <= TrailerLen
      /\ TrailerLen \in Nat /\ Span = conf.frame + conf.trailer /\ (IOKit => TrailerLen = conf.trailer)
  BY StartFacts
<1>3. /\ frames' \in {frames, Append(frames, buf)}
      /\ frames' # frames => copied = conf.frame
  BY DEF NextDone, NextBad, NextDead, NextShort, Return
<1>4. /\ Stuck' = Stuck /\ Span' = Span /\ IOKit' = IOKit
      /\ \A p : ReadTo(p) => ReadTo(p)'
  BY <1>1, ReadStill
<1>5. copied = conf.frame /\ frames' = Append(frames, buf) =>
        /\ frames' \in Seq(Seq(Nat)) /\ Start' = Start + Span
        /\ InOrder /\ (\A j \in 1 .. conf.frame : buf[j] = Start + j - 1) => InOrder'
  BY <1>1, FrameAppended DEF DataTypes
<1>6. frames' = frames => Start' = Start /\ (InOrder => InOrder')
  BY <1>1, <1>4 DEF Start, InOrder, Frame, Span
<1>7. DataTypes'
  <2>1. frames' \in Seq(Seq(Nat))
    BY <1>3, <1>5 DEF DataTypes
  <2>2. cut' \in BOOLEAN
    BY <1>1, Zenon
  <2> QED BY <1>1, <2>1, <2>2 DEF DataTypes
<1>8. Latched'
  BY <1>1 DEF Latched
<1>9. Reached' = Start'
  BY <1>1 DEF Reached
<1>10. ASSUME IOKit PROVE cut' \/ (Aligned' /\ InOrder')
  <2>1. CASE cut \/ (copied = conf.frame /\ tail < TrailerLen)
    <3>1. cut'
      BY <1>1, <2>1
    <3> QED BY <3>1
  <2>2. CASE ~cut /\ copied = conf.frame /\ tail = TrailerLen
    <3>1. InOrder /\ (Stuck \/ ReadTo(Reached))
      BY <1>1, <1>10, <2>2 DEF Whence, Aligned
    <3>2. CASE busy = "next"
      <4>1. NextDone /\ frames' = Append(frames, buf)
        BY <2>2, <3>2 DEF NextDone, NextBad, NextDead, NextShort, Whole, Waiting, Return
      <4>2. Start' = Start + Span /\ InOrder'
        BY <1>5, <1>10, <2>2, <3>1, <3>2, <4>1 DEF Whence, TakenInOrder
      <4>3. Reached' = Reached
        BY <1>2, <1>9, <1>10, <2>2, <3>2, <4>2 DEF Reached
      <4>4. Aligned'
        BY <1>4, <3>1, <4>3 DEF Aligned, ReadTo
      <4> QED BY <4>2, <4>4
    <3>3. CASE busy # "next"
      <4>1. (NextBad \/ NextDead) /\ frames' = frames
        BY <3>3 DEF NextDone, NextBad, NextDead, NextShort, Return
      <4>2. Reached' = Reached
        BY <1>1, <1>6, <1>9, <3>3, <4>1 DEF Reached
      <4> QED BY <1>4, <1>6, <3>1, <4>1, <4>2 DEF Aligned, ReadTo
    <3> QED BY <3>2, <3>3
  <2>3. CASE ~cut /\ copied < conf.frame
    <3>1. frames' = frames /\ InOrder' /\ (Stuck \/ ReadTo(Reached)) /\ tail = 0
      <4>1. frames' = frames
        BY <1>2, <1>3, <2>3
      <4>2. tail = 0
        BY <1>2, <2>3 DEF Latched
      <4> QED BY <1>1, <1>6, <1>10, <2>3, <4>1, <4>2 DEF Whence, Aligned
    <3>2. CASE NextBad \/ NextDead
      <4>1. Stuck
        BY <3>2 DEF NextBad, NextDead, Stuck
      <4> QED BY <1>4, <3>1, <4>1 DEF Aligned
    <3>3. CASE NextShort
      <4>1. CASE copied > 0
        <5>1. desync'
          BY <1>10, <2>3, <3>3, <4>1 DEF NextShort, Latch
        <5> QED BY <3>1, <5>1 DEF Aligned
      <4>2. CASE copied = 0
        <5>1. Reached' = Reached
          BY <1>1, <1>2, <1>6, <1>9, <3>1, <4>2 DEF Reached
        <5> QED BY <1>4, <3>1, <5>1 DEF Aligned, ReadTo
      <4> QED BY <1>2, <4>1, <4>2
    <3>4. CASE NextDone
      BY <1>2, <2>3, <3>4 DEF NextDone, Whole
    <3> QED BY <3>2, <3>3, <3>4
  <2>4. copied < conf.frame \/ (copied = conf.frame /\ (tail = TrailerLen \/ tail < TrailerLen))
    BY <1>2
  <2> QED BY <2>1, <2>2, <2>3, <2>4
<1>11. Whence'
  BY <1>1, <1>4, <1>10 DEF Whence, TakenInOrder, Aligned
<1> QED BY <1>7, <1>8, <1>11

\* NextZC passes over what is not a frame, and cuts if that held anything.
LEMMA MarkerFrames ==
  ASSUME SessionsAssumption, FrameInv, RingInv', ZCMarker
  PROVE  FrameInv'
<1> USE DEF FrameInv
<1>1. PICK i \in Current : /\ ~slots[i].hard /\ slots[i].n < conf.chunk /\ Recycle(i)
                           /\ cut' = (cut \/ slots[i].n > 0)
  BY DEF ZCMarker
<1>2. /\ busy = "zc" /\ busy' = "zc" /\ held = 0 /\ held' = 0 /\ segOff = 0 /\ segOff' = 0
      /\ UNCHANGED <<conf, sent, desync, copied, tail, buf, leaked, frames>>
  BY DEF ZCMarker, callVars, endVars, RingInv, Calls, ByFrame
<1>3. /\ slots[i].n \in Nat /\ slots[i].from \in Nat /\ cut' \in BOOLEAN
  <2>1. slots[i].n \in Nat /\ slots[i].from \in Nat
    BY PassBounds
  <2>2. cut' \in BOOLEAN
    BY <1>1, Zenon
  <2> QED BY <2>1, <2>2
<1>4. DataTypes' /\ Latched'
  BY <1>2, <1>3 DEF DataTypes, Latched
<1>5. /\ Reached = Start /\ Reached' = Start /\ Start \in Nat
      /\ IOKit' = IOKit /\ (InOrder => InOrder')
  BY <1>2, StartFacts DEF Reached, Start, Span, IOKit, InOrder, Frame
<1>6. ASSUME IOKit, ~cut' PROVE Aligned' /\ InOrder'
  <2>1. ~cut /\ slots[i].n = 0
    <3>1. ~cut /\ ~(slots[i].n > 0)
      BY <1>1, <1>6, Zenon
    <3> QED BY <1>3, <3>1
  <2>2. ~Stuck /\ ~desync
    <3>1. Live /\ \A j \in Current : j = i
      BY AfterNext DEF Live, Held
    <3> QED BY <1>1, <1>2, <3>1 DEF Stuck, Latched
  <2>3. ReadTo(Start) /\ InOrder
    BY <1>5, <1>6, <2>1, <2>2 DEF Whence, Aligned
  <2>4. Start = slots[i].from + slots[i].n
    BY <1>2, <1>3, <1>5, <2>1, <2>3 DEF ReadTo
  <2>5. \A p : p = Start => ReadTo(p)'
    <3>1. next' = next + 1 /\ Rearm(i)
      BY <1>1 DEF Recycle
    <3> QED BY <1>2, <2>4, <3>1, RecycleRing
  <2> QED BY <1>5, <2>3, <2>5 DEF Aligned, ReadTo
<1>7. Whence'
  <2>1. TakenInOrder'
    BY <1>2 DEF TakenInOrder
  <2> QED BY <1>3, <1>5, <1>6, <2>1 DEF Whence, Aligned
<1> QED BY <1>4, <1>7

\* The whole transfer NextZC lends out is the next frame.
LEMMA LendFrames ==
  ASSUME SessionsAssumption, FrameInv, RingInv', ZCFrame
  PROVE  FrameInv'
<1> USE DEF FrameInv
<1> DEFINE s(i) == [k \in 1 .. conf.frame |-> slots[i].from + k - 1]
<1>1. PICK i \in Current : ~slots[i].hard /\ held' = i /\ frames' = Append(frames, s(i))
  BY DEF ZCFrame
<1>2. /\ busy = "zc" /\ busy' = "no" /\ held = 0 /\ segOff = 0
      /\ UNCHANGED <<conf, ringVars, sent, desync, copied, tail, buf, leaked, cut>>
  BY DEF ZCFrame, endVars, RingInv, Calls, ByFrame
<1>3. slots[i].from \in Nat /\ held' # 0
  BY <1>1, PassBounds DEF Current, Slots, SessionsAssumption
<1>4. /\ Start \in Nat /\ Span \in Nat /\ conf.frame \in Nat /\ Reached = Start
  BY <1>2, StartFacts DEF Reached
<1>5. s(i) \in Seq(Nat) /\ Len(s(i)) = conf.frame /\ \A k \in 1 .. conf.frame : s(i)[k] = slots[i].from + k - 1
  <2>1. s(i) \in [1 .. conf.frame -> Nat] /\ \A k \in 1 .. conf.frame : s(i)[k] = slots[i].from + k - 1
    BY <1>3, <1>4
  <2> HIDE DEF s
  <2>2. s(i) \in Seq(Nat)
    BY <1>4, <2>1, SeqDef
  <2> QED BY <1>4, <2>1, <2>2, LenProperties
<1> HIDE DEF s
<1>6. /\ frames' \in Seq(Seq(Nat)) /\ Start' = Start + Span
      /\ InOrder /\ (\A j \in 1 .. conf.frame : s(i)[j] = Start + j - 1) => InOrder'
  <2> DEFINE r == s(i)
  <2>1. r \in Seq(Nat) /\ Len(r) = conf.frame /\ frames' = Append(frames, r)
    BY <1>1, <1>5
  <2>2. UNCHANGED conf
    BY <1>2
  <2> HIDE DEF r
  <2>3. /\ frames' \in Seq(Seq(Nat)) /\ Start' = Start + Span
        /\ InOrder /\ (\A j \in 1 .. conf.frame : r[j] = Start + j - 1) => InOrder'
    BY <2>1, <2>2, FrameAppended
  <2> QED BY <2>3 DEF r
<1>7. DataTypes' /\ Latched'
  BY <1>2, <1>6 DEF DataTypes, Latched
<1>8. Stuck' = Stuck /\ Span' = Span /\ IOKit' = IOKit /\ \A p : ReadTo(p) => ReadTo(p)'
  BY <1>2, ReadStill
<1>9. Reached' = Reached
  <2>1. Reached' = Start' - Span
    BY <1>2, <1>3, <1>8 DEF Reached
  <2> QED BY <1>4, <1>6, <2>1
<1>10. ASSUME IOKit, ~cut PROVE Aligned' /\ InOrder'
  <2>1. InOrder /\ Aligned
    BY <1>10 DEF Whence
  <2>2. Aligned'
    BY <1>2, <1>8, <1>9, <2>1 DEF Aligned, ReadTo
  <2>3. ~Stuck /\ ~desync
    <3>1. Live /\ \A j \in Current : j = i
      BY AfterNext DEF Live, Held
    <3> QED BY <1>1, <1>2, <3>1 DEF Stuck, Latched
  <2>4. slots[i].from + segOff = Start
    BY <1>4, <1>10, <2>1, <2>3 DEF Aligned, ReadTo
  <2>5. slots[i].from = Start
    BY <1>2, <1>3, <2>4
  <2> QED BY <1>5, <1>6, <2>1, <2>2, <2>5
<1>11. Whence'
  <2>1. TakenInOrder'
    BY <1>2 DEF TakenInOrder
  <2> QED BY <1>2, <1>8, <1>10, <2>1 DEF Whence, Aligned
<1> QED BY <1>7, <1>11

\* A completion brings the next bytes and consumes none.
LEMMA CompleteFrames ==
  ASSUME SessionsAssumption, FrameInv, RingInv', Complete
  PROVE  FrameInv'
<1> USE DEF FrameInv
<1>1. UNCHANGED <<conf, next, segOff, desync, held, busy, copied, tail, buf, leaked, frames, cut>>
  BY DEF Complete, callVars, endVars, histVars
<1>2. /\ \A p : ReadTo(p) => ReadTo(p)'
      /\ \E i \in Slots : \A j \in Slots : Done(j)' <=> j = i \/ Done(j)
      /\ \A j \in Slots : Done(j) => slots'[j] = slots[j]
  BY CompleteRing
<1>3. DataTypes' /\ Latched'
  BY <1>1 DEF DataTypes, Latched
<1>4. Start' = Start /\ Reached' = Reached /\ IOKit' = IOKit /\ (InOrder => InOrder')
  BY <1>1 DEF Start, Span, Reached, IOKit, InOrder, Frame
<1>5. Live
  BY DEF Complete, Oldest, Live
<1>6. Stuck => Stuck'
  BY <1>1, <1>2, <1>5 DEF Stuck, Current, Done
<1>7. Aligned => Aligned'
  BY <1>1, <1>2, <1>4, <1>6 DEF Aligned, ReadTo
<1>8. TakenInOrder => TakenInOrder'
  BY <1>1, <1>4 DEF TakenInOrder
<1> QED BY <1>1, <1>3, <1>4, <1>7, <1>8 DEF Whence

\* A wait, an idle NextZC, the callback's signal and the end move no byte.
LEMMA OutsideFrames ==
  ASSUME SessionsAssumption, FrameInv, RingInv',
         WaitSignal \/ ZCIdle \/ CloseBegin \/ Drained \/ Forfeit \/ Signal \/ UNCHANGED vars
  PROVE  FrameInv'
<1> USE DEF FrameInv
<1>1. /\ UNCHANGED <<conf, ringVars, held, copied, tail, buf, sent, desync, frames, cut>>
      /\ leaked' \in BOOLEAN
      /\ busy' = "next" <=> busy = "next"
      /\ busy = "no" => busy' = "no"
  BY DEF WaitSignal, ZCIdle, CloseBegin, Drained, Forfeit, Signal, vars, callVars, endVars, histVars,
         DataTypes
<1>2. DataTypes' /\ Latched'
  BY <1>1 DEF DataTypes, Latched
<1>3. Stuck' = Stuck /\ Span' = Span /\ IOKit' = IOKit /\ \A p : ReadTo(p) => ReadTo(p)'
  BY <1>1, ReadStill
<1>4. Start' = Start /\ Reached' = Reached /\ (InOrder => InOrder')
  BY <1>1, <1>3 DEF Start, Reached, InOrder, Frame, Span
<1>5. Aligned => Aligned'
  BY <1>1, <1>3, <1>4 DEF Aligned, ReadTo
<1>6. TakenInOrder => TakenInOrder'
  BY <1>1, <1>4 DEF TakenInOrder
<1> QED BY <1>1, <1>2, <1>3, <1>4, <1>5, <1>6 DEF Whence

\* The frames are as stated in every reachable state.
LEMMA FramesAlways == ASSUME SessionsAssumption PROVE Spec => []FrameInv
<1>1. Init => FrameInv
  BY InitFrames
<1>2. ASSUME FrameInv, [Next]_vars PROVE FrameInv'
  <2>1. RingInv'
    BY <1>2, NextRing DEF FrameInv
  <2> QED
    BY <1>2, <2>1, EnterFrames, ConsumeFrames, ReturnFrames, MarkerFrames, LendFrames, CompleteFrames,
       OutsideFrames DEF Next, Caller
<1>3. FrameInv /\ [Next]_vars => FrameInv'
  BY <1>2
<1> QED BY <1>1, <1>3, PTL DEF Spec

\* On IOKit the frames returned, copied or lent, are the device's, whole, in order and
\* with none missing, unless a trailer was given up or NextZC dropped part of a frame
\* (FramesInOrder): through transfers of any length, hard errors, refused slots and the
\* latch.
THEOREM WholeFramesInOrder == ASSUME SessionsAssumption PROVE Spec => []FramesInOrder
<1>1. FrameInv => FramesInOrder
  BY DEF FrameInv, Whence, FramesInOrder
<1> QED BY <1>1, FramesAlways, PTL

\* The state of a session has its types: offsets within the transfer, signals within the
\* window, a buffer as long as what was copied.
THEOREM SessionTypes == ASSUME SessionsAssumption PROVE Spec => []TypeOK
<1>1. FrameInv /\ SignalInv => TypeOK
  <2> SUFFICES ASSUME FrameInv, SignalInv PROVE TypeOK
    OBVIOUS
  <2>1. /\ conf.chunk \in Nat /\ conf.frame \in Nat /\ conf.trailer \in Nat
        /\ TrailerLen \in Nat /\ TrailerLen <= conf.trailer
    BY Sizes DEF FrameInv, RingInv, Typed
  <2>2. segOff \in 0 .. conf.chunk
    <3>1. CASE Current = {}
      BY <2>1, <3>1 DEF FrameInv, RingInv, Within
    <3>2. CASE Current # {}
      <4>1. PICK i \in Current : TRUE
        BY <3>2
      <4>2. segOff <= slots[i].n /\ slots[i].n \in 0 .. conf.chunk /\ segOff \in Nat
        BY <4>1 DEF FrameInv, RingInv, Within, Typed, SlotSet, Current
      <4> QED BY <2>1, <4>2
    <3> QED BY <3>1, <3>2
  <2>3. tail \in 0 .. conf.trailer
    BY <2>1 DEF FrameInv, RingInv, Typed
  <2>4. comp \in 0 .. Window /\ unclaimed \in 0 .. Window /\ posting \in BOOLEAN
    <3>1. comp \in Nat /\ unclaimed \in Nat /\ posting \in BOOLEAN
      BY DEF SignalInv, Balanced
    <3>2. Window \in Nat
      BY DEF SessionsAssumption
    <3>3. Signals \in Nat /\ Signals <= Window
      BY <3>2, DoneCount DEF SignalInv, Balanced
    <3>4. comp \in Nat /\ unclaimed \in Nat /\ Due \in {0, 1}
      BY <3>1, DueFacts
    <3>5. comp <= Window /\ unclaimed <= Window
      BY <3>2, <3>3, <3>4 DEF Signals
    <3> QED BY <3>1, <3>2, <3>5
  <2> QED BY <2>2, <2>3, <2>4 DEF FrameInv, RingInv, Typed, DataTypes, SlotSet, TypeOK
<1> QED BY <1>1, FramesAlways, SignalsAlways, PTL

=============================================================================
