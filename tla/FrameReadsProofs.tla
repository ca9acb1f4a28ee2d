--------------------------- MODULE FrameReadsProofs ---------------------------
(***************************************************************************)
(* What FrameReads promises, for every length of frame, transfer size and  *)
(* window: the count a read returns covers a gapless prefix of what the    *)
(* device sent, no byte of the next frame is taken, a short count has a    *)
(* cause, and an abort lets at most one transfer more go out from the loop.*)
(* And, at the end, what Frames promises of what is done to the frame      *)
(* then, for every window, bin and map.                                    *)
(*                                                                         *)
(* The parts of the invariant that are about the transfers are operators   *)
(* of f, ff, rd, n and s, which stand for slots, fifo, ready, nxt and sent,*)
(* so that the lemmas about reaping, submitting and completing a transfer  *)
(* compose where one step does two of them.                                *)
(***************************************************************************)
EXTENDS FrameReads, SequenceTheorems, WellFoundedInduction, TLAPS

-----------------------------------------------------------------------------
(* The inductive invariant *)

\* Where slot i of a cover engine begins.
Off(i) == (i - 1) * Chunk

\* The kernel has given slot i back; with all it asked for.
In(f, i)   == f[i].own \in {"complete", "reaped"}
Full(f, i) == In(f, i) /\ f[i].n = Req(i)

\* What a read may put in its buffer.
Room == IF engine = "pump" THEN Ask ELSE FrameLen

\* What an engine submits before its loop.
Primes ==
  CASE engine \in {"urbs", "urbpreq", "winbatch"} -> Lesser(Window, NCover)
    [] engine \in {"async", "preq"} -> NCover
    [] engine = "urbstream" -> Window
    [] engine = "pump" -> NPump
    [] OTHER -> 1

\* While the window goes out nothing is counted, and the slots from nxt on are free.
Priming ==
  pc = "prime" =>
    /\ buf = <<>> /\ got = 0 /\ cur = 1 /\ ret = "ok" /\ out = 0
    /\ nxt <= Primes
    /\ engine \in MarkEngines => \A i \in Slots : i >= nxt => slots[i].own = "none"
    /\ engine = "pump" => outstanding = Off(nxt)

\* Behind its tests an engine has a frame to fill and a slot to wait for.
Waiting ==
  pc = "reap" =>
    /\ engine \in MarkEngines => Len(buf) # Room
    /\ engine = "winbatch" => cur < nxt

\* Nothing was given up or counted for good yet.
Looping == pc \in {"loop", "reap"}

\* A queue holds the slots of one state, each once.
Queued(f, q, o) ==
  /\ q \in Seq(Slots)
  /\ \A k \in 1 .. Len(q) : f[q[k]].own = o
  /\ \A k, l \in 1 .. Len(q) : q[k] = q[l] => k = l
  /\ \A i \in Slots : f[i].own = o => \E k \in 1 .. Len(q) : q[k] = i

\* Where the k-th completed transfer begins in what the device sent.
Pos(f, rd, s, k) == IF k <= Len(rd) THEN f[rd[k]].from ELSE s

\* The completed transfers follow each other, the last one up to here.
Chained(f, rd, s) ==
  \A k \in 1 .. Len(rd) :
    /\ f[rd[k]].from + f[rd[k]].n = Pos(f, rd, s, k + 1)
    /\ f[rd[k]].from + f[rd[k]].n <= s

\* A transfer brings at most what it asked for, and nothing before it is back.
SlotHolds(t) ==
  /\ t.n <= t.req
  /\ t.own \in {"none", "kernel"} => t.n = 0 /\ t.st = "ok"

\* The transfers with the kernel and back from it, whatever the engine.
Kernel(f, ff, rd, s) ==
  /\ f \in [Slots -> SlotType] /\ s \in 0 .. MaxSent
  /\ Queued(f, ff, "kernel") /\ Queued(f, rd, "complete")
  /\ \A i \in Slots : SlotHolds(f[i])
  /\ Chained(f, rd, s)

\* Submitted in the order of the slots.
Ascends(q) == \A k, l \in 1 .. Len(q) : k < l => q[k] < q[l]

\* The slots of a cover engine go to the kernel, come back and are counted in
\* order, but for those of an IOKit batch that were never submitted.
CoverOrder(f, ff, rd, n) ==
  /\ n \in 1 .. NCover + 1
  /\ \A i \in Slots : f[i].own = "none" <=> i >= n
  /\ \A i \in 1 .. n - 1 : f[i].req = Req(i) \/ f[i] = Rejected
  /\ Ascends(ff) /\ Ascends(rd)
  /\ \A i, j \in 1 .. n - 1 : i < j /\ f[j].req # 0 =>
       /\ f[i].own = "kernel" => f[j].own = "kernel"
       /\ f[i].own = "complete" => f[j].own \in {"kernel", "complete"}

\* While everything before slot i came in whole, it is where its bytes are.
InPlace(f, s) ==
  \A i \in 1 .. NCover : (\A j \in 1 .. i - 1 : Full(f, j)) =>
    /\ In(f, i) /\ f[i].req # 0 => f[i].from = Off(i)
    /\ ~In(f, i) => s = Off(i)

\* The slots that are not in leave the device room for their bytes.
Within(f, s) ==
  /\ s <= FrameLen
  /\ \A i \in 1 .. NCover : ~In(f, i) => s <= Off(i)

\* The transfers of a cover engine.
Cover(f, ff, rd, n, s) == CoverOrder(f, ff, rd, n) /\ InPlace(f, s) /\ Within(f, s)

\* A transfer that came back short or failed is an excuse.
Excuses ==
  ~excused =>
    /\ \A i \in Slots : slots[i].st = "ok"
    /\ engine \in CoverEngines => \A i \in 1 .. nxt - 1 : In(slots, i) => slots[i].n = Req(i)

\* Without one the window never runs dry.
Fed ==
  Looping /\ ~excused /\ engine # "winstream" =>
    Pending \/ IF engine \in CoverEngines THEN nxt = NCover + 1 ELSE Len(buf) = Room

\* A batch of IOKit is submitted whole.
BatchHolds == engine \in {"async", "preq"} /\ pc # "prime" => nxt = NCover + 1

\* WinUSB's batch waits for its slots in order and counts whole ones.
WinHolds ==
  engine = "winbatch" =>
    /\ \A i \in 1 .. cur - 1 : slots[i].own = "reaped"
    /\ Reading =>
         /\ \A i \in 1 .. cur - 1 : slots[i].n = Req(i)
         /\ \A i \in cur .. nxt - 1 : slots[i].own # "reaped"
         /\ got = IF cur <= NCover THEN Off(cur) ELSE FrameLen

\* The mark is where the oldest completed transfer begins.
MarkHolds ==
  /\ \A k \in 1 .. Len(buf) : buf[k] = k - 1
  /\ Len(buf) <= sent
  /\ Reading \/ engine = "winstream" => Len(buf) = Room \/ Pos(slots, ready, sent, 1) = Len(buf)
  /\ engine = "winstream" => \A i \in Slots : i > 1 => slots[i] = Unused

\* r[k] is what the k-th transfer of the queue, and those behind it, asked for.
Budget(f, ff, rd, s, r) ==
  /\ r \in [1 .. Len(rd) + Len(ff) + 1 -> Nat]
  /\ r[Len(rd) + Len(ff) + 1] = 0
  /\ \A k \in 1 .. Len(rd) : r[k] = r[k + 1] + f[rd[k]].req
  /\ \A k \in 1 .. Len(ff) : r[Len(rd) + k] = r[Len(rd) + k + 1] + f[ff[k]].req
  /\ s + r[Len(rd) + 1] <= Ask
  /\ \A k \in 1 .. Len(rd) + 1 : s - Pos(f, rd, s, k) <= r[k] - r[Len(rd) + 1]

\* The pump's budget: what is in flight and what is copied never exceed the frame.
PumpHolds ==
  engine = "pump" =>
    \E r \in [1 .. Len(ready) + Len(fifo) + 1 -> Nat] :
      /\ Budget(slots, fifo, ready, sent, r)
      /\ Reading => outstanding = r[1] /\ Len(buf) + outstanding <= Ask /\ Pos(slots, ready, sent, 1) = Len(buf)

\* The first k bytes of the frame are in their slots.
Solid(f, k) ==
  /\ k \in 0 .. FrameLen
  /\ \A i \in 1 .. NCover : Off(i) < k =>
       /\ f[i].own = "reaped" /\ f[i].from = Off(i)
       /\ f[i].n >= k - Off(i) \/ f[i].n = Req(i)

\* The engines that count on leaving the loop; the others count after the drain.
CountsAtExit == engine \in {"urbs", "winbatch", "urbstream", "pump"}

\* The count of a read covers what is there.
OutHolds ==
  pc = "done" \/ (pc = "drain" /\ CountsAtExit) =>
    IF engine \in CoverEngines THEN Solid(slots, out) ELSE out <= Len(buf) /\ out <= FrameLen

\* Every byte of the frame has come.
AllIn == IF engine = "winstream" THEN Len(buf) = FrameLen ELSE \A i \in 1 .. NCover : Whole(i)

\* A read with no excuse has the whole frame.
ShortHolds ==
  pc \in {"drain", "done"} /\ ret = "ok" /\ ~excused =>
    /\ CountsAtExit \/ AllIn
    /\ CountsAtExit \/ pc = "done" => out = FrameLen

\* What is invariant of a read.
ReadsInv ==
  /\ TypeOK
  /\ Priming /\ Waiting
  /\ Kernel(slots, fifo, ready, sent)
  /\ engine \in CoverEngines => Cover(slots, fifo, ready, nxt, sent)
  /\ Excuses /\ Fed /\ BatchHolds
  /\ WinHolds
  /\ engine \in MarkEngines => MarkHolds
  /\ PumpHolds
  /\ OutHolds /\ ShortHolds

-----------------------------------------------------------------------------
(* The least element of a set, and the slots *)

\* The order of the natural numbers, as a relation.
Below == {p \in Nat \X Nat : p[1] < p[2]}

\* A set of natural numbers has a least element.
LEMMA LeastNat ==
  ASSUME NEW T \in SUBSET Nat, T # {}
  PROVE  \E x \in T : \A y \in T : x <= y
<1>1. IsWellFoundedOn(Below, Nat)
  BY NatLessThanWellFounded DEF OpToRel, Below
<1>2. PICK x \in T : \A y \in T : ~ (<<y, x>> \in Below)
  BY <1>1, WFMin
<1>3. ASSUME NEW y \in T PROVE x <= y
  <2>1. <<y, x>> \in Nat \X Nat /\ <<y, x>> \notin Below
    BY <1>2
  <2>2. ~ (<<y, x>>[1] < <<y, x>>[2])
    BY <2>1 DEF Below
  <2> QED BY <2>1, <2>2
<1> QED BY <1>3

\* Multiplying by the transfer size keeps an order.
LEMMA ChunkScales ==
  ASSUME FrameReadsAssumption, NEW a \in Int, NEW b \in Int, a <= b
  PROVE  a * Chunk \in Int /\ b * Chunk \in Int /\ a * Chunk <= b * Chunk
<1>1. Chunk \in Nat
  BY DEF FrameReadsAssumption
<1>2. (b - a) * Chunk >= 0 /\ (b - a) * Chunk = b * Chunk - a * Chunk
  BY <1>1
<1> QED BY <1>1, <1>2

\* The slots of a cover engine lie end to end and hold the frame exactly.
LEMMA OffFacts ==
  ASSUME FrameReadsAssumption
  PROVE  /\ NCover \in Nat \ {0} /\ FrameLen \in Nat \ {0} /\ Chunk \in Nat \ {0}
         /\ Off(1) = 0
         /\ \A i \in Int : Off(i) \in Int /\ Off(i + 1) = Off(i) + Chunk
         /\ \A i, j \in Int : i <= j => Off(i) <= Off(j)
         /\ \A i \in 1 .. NCover :
              /\ Off(i) >= 0 /\ Off(i) < FrameLen
              /\ Req(i) \in 1 .. Chunk
              /\ Off(i) + Req(i) = IF i = NCover THEN FrameLen ELSE Off(i + 1)
              /\ Off(i) + Req(i) <= FrameLen
<1>1. FrameLen \in Nat \ {0} /\ Chunk \in Nat \ {0}
  BY DEF FrameReadsAssumption
<1>2. /\ NCover \in Nat
      /\ NCover * Chunk <= FrameLen + Chunk - 1 /\ FrameLen + Chunk - 1 < NCover * Chunk + Chunk
  BY <1>1 DEF NCover
<1>3. NCover # 0
  BY <1>1, <1>2
<1>4. Off(1) = 0
  BY <1>1 DEF Off
<1>5. \A i \in Int : Off(i) \in Int /\ Off(i + 1) = Off(i) + Chunk
  BY <1>1 DEF Off
<1>6. ASSUME NEW i \in Int, NEW j \in Int, i <= j PROVE Off(i) <= Off(j)
  BY <1>6, ChunkScales DEF Off
<1>7. Off(NCover) < FrameLen /\ FrameLen <= Off(NCover) + Chunk
  <2>1. NCover * Chunk \in Int /\ Off(NCover) = NCover * Chunk - Chunk
    BY <1>1, <1>2 DEF Off
  <2> QED BY <1>1, <1>2, <2>1
<1>8. ASSUME NEW i \in 1 .. NCover
      PROVE  /\ Off(i) >= 0 /\ Off(i) < FrameLen
             /\ Req(i) \in 1 .. Chunk
             /\ Off(i) + Req(i) = IF i = NCover THEN FrameLen ELSE Off(i + 1)
             /\ Off(i) + Req(i) <= FrameLen
  <2>1. Off(1) <= Off(i) /\ Off(i) <= Off(NCover) /\ Off(i) \in Int /\ Off(NCover) \in Int
    BY <1>2, <1>5, <1>6, SMTT(30)
  <2>2. Req(i) = Lesser(Chunk, FrameLen - Off(i))
    BY DEF Req, Off
  <2>3. CASE i = NCover
    <3>1. FrameLen - Off(i) \in 1 .. Chunk
      BY <1>1, <1>7, <2>1, <2>3
    <3>2. Req(i) = FrameLen - Off(i)
      BY <1>1, <2>2, <3>1 DEF Lesser
    <3> QED BY <1>1, <1>4, <2>1, <2>3, <3>1, <3>2
  <2>4. CASE i # NCover
    <3>1. Off(i + 1) <= Off(NCover) /\ Off(i + 1) = Off(i) + Chunk
      BY <1>2, <1>5, <1>6, <2>4
    <3>2. FrameLen - Off(i) > Chunk
      BY <1>1, <1>7, <2>1, <3>1
    <3>3. Req(i) = Chunk
      BY <1>1, <2>1, <2>2, <3>2 DEF Lesser
    <3> QED BY <1>1, <1>4, <2>1, <2>4, <3>1, <3>2, <3>3
  <2> QED BY <2>3, <2>4
<1> QED BY <1>1, <1>2, <1>3, <1>4, <1>5, <1>6, <1>8

SlotCount == IF NCover > Window THEN NCover ELSE Window

\* There is a slot for every transfer of the frame and of the window.
LEMMA SlotsFacts ==
  ASSUME FrameReadsAssumption
  PROVE  /\ SlotCount \in Nat \ {0} /\ Slots = 1 .. SlotCount
         /\ NCover <= SlotCount /\ Window <= SlotCount /\ Window \in Nat \ {0}
         /\ 1 .. NCover \subseteq Slots /\ 1 \in Slots
<1>1. NCover \in Nat \ {0} /\ Window \in Nat \ {0}
  BY OffFacts DEF FrameReadsAssumption
<1> QED BY <1>1 DEF Slots, SlotCount

-----------------------------------------------------------------------------
(* The transfers *)

\* What a queue comes to when its first slot leaves it.
LEMMA TailOf ==
  ASSUME NEW q \in Seq(Slots), q # <<>>
  PROVE  /\ Head(q) \in Slots /\ Head(q) = q[1] /\ Tail(q) \in Seq(Slots)
         /\ Len(q) \in Nat \ {0} /\ Len(Tail(q)) = Len(q) - 1
         /\ \A k \in 1 .. Len(Tail(q)) : Tail(q)[k] = q[k + 1]
BY HeadTailProperties, EmptySeq

\* What it comes to when one more enters it.
LEMMA AppendOf ==
  ASSUME NEW q \in Seq(Slots), NEW i \in Slots
  PROVE  /\ Append(q, i) \in Seq(Slots) /\ Append(q, i) # <<>>
         /\ Len(q) \in Nat /\ Len(Append(q, i)) = Len(q) + 1
         /\ \A k \in 1 .. Len(q) : Append(q, i)[k] = q[k]
         /\ Append(q, i)[Len(q) + 1] = i
BY AppendProperties, LenProperties

\* The first slot of a queue leaves it for another state.
LEMMA Leaves ==
  ASSUME NEW f, NEW g, NEW q, NEW o, Queued(f, q, o), q # <<>>,
         g[Head(q)].own # o, \A i \in Slots \ {Head(q)} : g[i].own = f[i].own
  PROVE  Queued(g, Tail(q), o)
<1>1. q \in Seq(Slots)
  BY DEF Queued
<1>2. \A k \in 1 .. Len(Tail(q)) : Tail(q)[k] # Head(q) /\ Tail(q)[k] \in Slots
  BY <1>1, TailOf, ElementOfSeq DEF Queued
<1>3. \A k \in 1 .. Len(Tail(q)) : g[Tail(q)[k]].own = o
  BY <1>1, <1>2, TailOf DEF Queued
<1>4. \A k, l \in 1 .. Len(Tail(q)) : Tail(q)[k] = Tail(q)[l] => k = l
  BY <1>1, TailOf DEF Queued
<1>5. ASSUME NEW i \in Slots, g[i].own = o PROVE \E k \in 1 .. Len(Tail(q)) : Tail(q)[k] = i
  <2>1. i # Head(q) /\ f[i].own = o
    BY <1>5
  <2>2. PICK k \in 1 .. Len(q) : q[k] = i
    BY <2>1 DEF Queued
  <2>3. k # 1
    BY <1>1, <2>1, <2>2, TailOf
  <2>4. k - 1 \in 1 .. Len(Tail(q)) /\ Tail(q)[k - 1] = i
    BY <1>1, <2>2, <2>3, TailOf
  <2> QED BY <2>4
<1> QED BY <1>1, <1>3, <1>4, <1>5, TailOf DEF Queued

\* A slot of another state enters a queue at its end.
LEMMA Enters ==
  ASSUME NEW f, NEW g, NEW q, NEW o, Queued(f, q, o), NEW j \in Slots, f[j].own # o,
         g[j].own = o, \A i \in Slots \ {j} : g[i].own = f[i].own
  PROVE  Queued(g, Append(q, j), o)
<1>1. q \in Seq(Slots)
  BY DEF Queued
<1>2. \A k \in 1 .. Len(q) : q[k] # j /\ q[k] \in Slots
  BY <1>1, ElementOfSeq DEF Queued
<1>3. \A k \in 1 .. Len(Append(q, j)) : g[Append(q, j)[k]].own = o
  BY <1>1, <1>2, AppendOf DEF Queued
<1>4. \A k, l \in 1 .. Len(Append(q, j)) : Append(q, j)[k] = Append(q, j)[l] => k = l
  BY <1>1, <1>2, AppendOf DEF Queued
<1>5. ASSUME NEW i \in Slots, g[i].own = o PROVE \E k \in 1 .. Len(Append(q, j)) : Append(q, j)[k] = i
  <2>1. CASE i = j
    BY <1>1, <2>1, AppendOf
  <2>2. CASE i # j
    BY <1>1, <1>5, <2>2, AppendOf DEF Queued
  <2> QED BY <2>1, <2>2
<1> QED BY <1>1, <1>3, <1>4, <1>5, AppendOf DEF Queued

\* A queue none of whose slots, and no other, changes state.
LEMMA Stays ==
  ASSUME NEW f, NEW g, NEW q, NEW o, Queued(f, q, o),
         \A i \in Slots : g[i].own = o <=> f[i].own = o
  PROVE  Queued(g, q, o)
<1>1. \A k \in 1 .. Len(q) : q[k] \in Slots
  BY ElementOfSeq DEF Queued
<1> QED BY <1>1 DEF Queued

\* f with transfer i reaped, slot j submitted for q bytes, and transfer i
\* completed with n bytes from s on and status t.
AsReaped(f, i)            == [f EXCEPT ![i].own = "reaped"]
AsSent(f, j, q)           == [f EXCEPT ![j] = Sent(q)]
AsComplete(f, i, s, n, t) == [f EXCEPT ![i].own = "complete", ![i].from = s, ![i].n = n, ![i].st = t]

\* The fields of a slot.
LEMMA SlotFields ==
  ASSUME FrameReadsAssumption, NEW t \in SlotType
  PROVE  /\ t.own \in {"none", "kernel", "complete", "reaped"}
         /\ t.req \in Nat /\ t.req \in 0 .. Chunk
         /\ t.from \in Nat /\ t.from \in 0 .. MaxSent
         /\ t.n \in Nat /\ t.n \in 0 .. Chunk
         /\ t.st \in {"ok", "soft", "hard"}
BY DEF SlotType, FrameReadsAssumption

\* What each leaves of the slots.
LEMMA ReapedSlots ==
  ASSUME NEW f \in [Slots -> SlotType], NEW i \in Slots
  PROVE  LET g == AsReaped(f, i) IN
         /\ g \in [Slots -> SlotType]
         /\ g[i].own = "reaped"
         /\ \A j \in Slots : g[j].req = f[j].req /\ g[j].from = f[j].from /\ g[j].n = f[j].n /\ g[j].st = f[j].st
         /\ \A j \in Slots \ {i} : g[j] = f[j]
BY DEF AsReaped, SlotType

\* Submitting slot j changes it alone.
LEMMA SentSlots ==
  ASSUME FrameReadsAssumption, NEW f \in [Slots -> SlotType], NEW j \in Slots, NEW q \in 0 .. Chunk
  PROVE  LET g == AsSent(f, j, q) IN
         /\ g \in [Slots -> SlotType]
         /\ g[j] = Sent(q)
         /\ \A i \in Slots \ {j} : g[i] = f[i]
BY DEF AsSent, SlotType, Sent, FrameReadsAssumption

\* Completing slot i changes it alone.
LEMMA CompleteSlots ==
  ASSUME FrameReadsAssumption, NEW f \in [Slots -> SlotType], NEW i \in Slots, NEW s \in 0 .. MaxSent,
         NEW n \in Int, n \in 0 .. f[i].req, NEW t, t \in {"ok", "soft", "hard"},
         NEW g, g = AsComplete(f, i, s, n, t)
  PROVE  /\ g \in [Slots -> SlotType]
         /\ g[i] = [own |-> "complete", req |-> f[i].req, from |-> s, n |-> n, st |-> t]
         /\ \A j \in Slots \ {i} : g[j] = f[j]
<1>1. f[i] \in SlotType /\ f[i].req \in 0 .. Chunk /\ n \in 0 .. Chunk
  BY DEF SlotType, FrameReadsAssumption
<1>2. AsComplete(f, i, s, n, t)[i] = [own |-> "complete", req |-> f[i].req, from |-> s, n |-> n, st |-> t]
  BY <1>1 DEF AsComplete, SlotType
<1>3. [own |-> "complete", req |-> f[i].req, from |-> s, n |-> n, st |-> t] \in SlotType
  BY <1>1 DEF SlotType
<1>4. \A j \in Slots \ {i} : AsComplete(f, i, s, n, t)[j] = f[j]
  BY DEF AsComplete
<1>5. AsComplete(f, i, s, n, t) = [j \in Slots |-> AsComplete(f, i, s, n, t)[j]]
  BY DEF AsComplete
<1>6. g = [j \in Slots |-> g[j]] /\ \A j \in Slots : g[j] \in SlotType
  BY <1>2, <1>3, <1>4, <1>5
<1> QED BY <1>2, <1>4, <1>6

\* The oldest completed transfer is reaped.
LEMMA KernelReap ==
  ASSUME NEW f, NEW ff, NEW rd, NEW s, Kernel(f, ff, rd, s), rd # <<>>
  PROVE  /\ Head(rd) \in Slots /\ f[Head(rd)].own = "complete"
         /\ Kernel(AsReaped(f, Head(rd)), ff, Tail(rd), s)
         /\ Pos(AsReaped(f, Head(rd)), Tail(rd), s, 1) = f[Head(rd)].from + f[Head(rd)].n
<1> DEFINE h == Head(rd)
           g == AsReaped(f, h)
<1>1. rd \in Seq(Slots) /\ f \in [Slots -> SlotType]
  BY DEF Kernel, Queued
<1>2. h \in Slots /\ h = rd[1] /\ 1 \in 1 .. Len(rd)
  BY <1>1, TailOf
<1>3. f[h].own = "complete"
  BY <1>2 DEF Kernel, Queued
<1>4. /\ g \in [Slots -> SlotType] /\ g[h].own = "reaped"
      /\ \A j \in Slots : g[j].req = f[j].req /\ g[j].from = f[j].from /\ g[j].n = f[j].n /\ g[j].st = f[j].st
      /\ \A j \in Slots \ {h} : g[j] = f[j]
  BY <1>1, <1>2, ReapedSlots
<1> HIDE DEF g
<1>5. Queued(g, ff, "kernel")
  <2>1. \A i \in Slots : g[i].own = "kernel" <=> f[i].own = "kernel"
    BY <1>3, <1>4
  <2> QED BY <2>1, Stays DEF Kernel
<1>6. Queued(g, Tail(rd), "complete")
  <2>1. g[h].own # "complete" /\ \A i \in Slots \ {h} : g[i].own = f[i].own
    BY <1>4
  <2> QED BY <2>1, Leaves DEF Kernel
<1>7. \A i \in Slots : SlotHolds(g[i])
  BY <1>3, <1>4 DEF Kernel, SlotHolds
<1>8. \A k \in 1 .. Len(Tail(rd)) : k + 1 \in 1 .. Len(rd) /\ Tail(rd)[k] = rd[k + 1] /\ rd[k + 1] \in Slots
  BY <1>1, TailOf, ElementOfSeq
<1>9. \A k \in 1 .. Len(Tail(rd)) + 1 : Pos(g, Tail(rd), s, k) = Pos(f, rd, s, k + 1)
  BY <1>1, <1>4, <1>8, TailOf DEF Pos
<1>10. Chained(g, Tail(rd), s)
  <2> SUFFICES ASSUME NEW k \in 1 .. Len(Tail(rd))
               PROVE  /\ g[Tail(rd)[k]].from + g[Tail(rd)[k]].n = Pos(g, Tail(rd), s, k + 1)
                      /\ g[Tail(rd)[k]].from + g[Tail(rd)[k]].n <= s
    BY DEF Chained
  <2>1. Pos(g, Tail(rd), s, k + 1) = Pos(f, rd, s, k + 2)
    BY <1>1, <1>9, TailOf
  <2>2. f[rd[k + 1]].from + f[rd[k + 1]].n = Pos(f, rd, s, (k + 1) + 1) /\ f[rd[k + 1]].from + f[rd[k + 1]].n <= s
    BY <1>8 DEF Kernel, Chained
  <2> QED BY <1>4, <1>8, <2>1, <2>2
<1>11. Pos(g, Tail(rd), s, 1) = f[h].from + f[h].n
  <2>1. Pos(g, Tail(rd), s, 1) = Pos(f, rd, s, 2)
    BY <1>1, <1>9, TailOf
  <2>2. f[rd[1]].from + f[rd[1]].n = Pos(f, rd, s, 1 + 1)
    BY <1>2 DEF Kernel, Chained
  <2> QED BY <1>2, <2>1, <2>2
<1> QED BY <1>2, <1>3, <1>4, <1>5, <1>6, <1>7, <1>10, <1>11 DEF Kernel, g

\* A slot that the kernel does not have is submitted.
LEMMA KernelSend ==
  ASSUME FrameReadsAssumption, NEW f, NEW ff, NEW rd, NEW s, Kernel(f, ff, rd, s),
         NEW j \in Slots, f[j].own \in {"none", "reaped"}, NEW q \in 0 .. Chunk
  PROVE  /\ Kernel(AsSent(f, j, q), Append(ff, j), rd, s)
         /\ Pos(AsSent(f, j, q), rd, s, 1) = Pos(f, rd, s, 1)
<1> DEFINE g == AsSent(f, j, q)
<1>1. f \in [Slots -> SlotType] /\ rd \in Seq(Slots) /\ s \in 0 .. MaxSent
  BY DEF Kernel, Queued
<1>2. g \in [Slots -> SlotType] /\ g[j] = Sent(q) /\ \A i \in Slots \ {j} : g[i] = f[i]
  BY <1>1, SentSlots
<1> HIDE DEF g
<1>3. Queued(g, Append(ff, j), "kernel")
  <2>1. f[j].own # "kernel" /\ g[j].own = "kernel" /\ \A i \in Slots \ {j} : g[i].own = f[i].own
    BY <1>2 DEF Sent
  <2> QED BY <2>1, Enters DEF Kernel
<1>4. Queued(g, rd, "complete")
  <2>1. \A i \in Slots : g[i].own = "complete" <=> f[i].own = "complete"
    BY <1>2 DEF Sent
  <2> QED BY <2>1, Stays DEF Kernel
<1>5. \A i \in Slots : SlotHolds(g[i])
  BY <1>2 DEF Kernel, SlotHolds, Sent
<1>6. \A k \in 1 .. Len(rd) : g[rd[k]] = f[rd[k]]
  <2>1. \A k \in 1 .. Len(rd) : rd[k] \in Slots /\ rd[k] # j
    BY <1>1, ElementOfSeq DEF Kernel, Queued
  <2> QED BY <1>2, <2>1
<1>7. \A k \in 1 .. Len(rd) + 1 : Pos(g, rd, s, k) = Pos(f, rd, s, k)
  BY <1>1, <1>6, LenProperties DEF Pos
<1>8. Chained(g, rd, s)
  BY <1>1, <1>6, <1>7, LenProperties DEF Kernel, Chained
<1>9. Pos(g, rd, s, 1) = Pos(f, rd, s, 1)
  BY <1>1, <1>7, LenProperties
<1> QED BY <1>1, <1>2, <1>3, <1>4, <1>5, <1>8, <1>9 DEF Kernel, g

\* The oldest transfer completes.
LEMMA KernelComplete ==
  ASSUME FrameReadsAssumption, NEW f, NEW ff, NEW rd, NEW s, Kernel(f, ff, rd, s), ff # <<>>,
         NEW n \in 0 .. f[Head(ff)].req, s + n <= MaxSent, NEW t \in {"ok", "soft", "hard"}
  PROVE  /\ Head(ff) \in Slots /\ f[Head(ff)].own = "kernel"
         /\ Kernel(AsComplete(f, Head(ff), s, n, t), Tail(ff), Append(rd, Head(ff)), s + n)
         /\ \A k \in 1 .. Len(rd) + 1 :
              Pos(AsComplete(f, Head(ff), s, n, t), Append(rd, Head(ff)), s + n, k) = Pos(f, rd, s, k)
<1> DEFINE h == Head(ff)
           g == AsComplete(f, h, s, n, t)
<1>1. f \in [Slots -> SlotType] /\ rd \in Seq(Slots) /\ ff \in Seq(Slots) /\ s \in 0 .. MaxSent
  BY DEF Kernel, Queued
<1>2. h \in Slots /\ h = ff[1] /\ h = Head(ff) /\ 1 \in 1 .. Len(ff)
  BY <1>1, TailOf
<1>3. f[h].own = "kernel" /\ n \in 0 .. f[h].req
  BY <1>2 DEF Kernel, Queued
<1> HIDE DEF h
<1>4. /\ g \in [Slots -> SlotType]
      /\ g[h] = [own |-> "complete", req |-> f[h].req, from |-> s, n |-> n, st |-> t]
      /\ \A j \in Slots \ {h} : g[j] = f[j]
  <2>1. g = AsComplete(f, h, s, n, t) /\ n \in Int
    BY <1>3 DEF g
  <2> QED BY <1>1, <1>2, <1>3, <2>1, CompleteSlots, SMTT(30)
<1> HIDE DEF g
<1>5. Queued(g, Tail(ff), "kernel")
  <2>1. g[h].own # "kernel" /\ \A i \in Slots \ {h} : g[i].own = f[i].own
    BY <1>4
  <2> QED BY <1>1, <2>1, Leaves DEF Kernel, h
<1>6. Queued(g, Append(rd, h), "complete")
  <2>1. f[h].own # "complete" /\ g[h].own = "complete" /\ \A i \in Slots \ {h} : g[i].own = f[i].own
    BY <1>3, <1>4
  <2> QED BY <1>2, <2>1, Enters DEF Kernel
<1>7. \A i \in Slots : SlotHolds(g[i])
  <2>1. n <= f[h].req
    BY <1>1, <1>2 DEF SlotType
  <2>2. SlotHolds(g[h])
    BY <1>4, <2>1 DEF SlotHolds
  <2> QED BY <1>4, <2>2 DEF Kernel, SlotHolds
<1>8. s + n \in 0 .. MaxSent /\ n \in Nat
  BY <1>1, <1>2 DEF SlotType
<1>9. Len(rd) \in Nat /\ \A k \in 1 .. Len(rd) : rd[k] \in Slots /\ rd[k] # h
  BY <1>1, <1>3, ElementOfSeq, LenProperties DEF Kernel, Queued
<1>10. /\ Len(Append(rd, h)) = Len(rd) + 1 /\ Append(rd, h)[Len(rd) + 1] = h
       /\ \A k \in 1 .. Len(rd) : Append(rd, h)[k] = rd[k]
  BY <1>1, <1>2, AppendOf
<1>11. \A k \in 1 .. Len(rd) + 1 : Pos(g, Append(rd, h), s + n, k) = Pos(f, rd, s, k)
  <2> SUFFICES ASSUME NEW k \in 1 .. Len(rd) + 1
               PROVE  Pos(g, Append(rd, h), s + n, k) = Pos(f, rd, s, k)
    OBVIOUS
  <2>1. CASE k = Len(rd) + 1
    BY <1>4, <1>9, <1>10, <2>1 DEF Pos
  <2>2. CASE k \in 1 .. Len(rd)
    BY <1>4, <1>9, <1>10, <2>2 DEF Pos
  <2> QED BY <1>9, <2>1, <2>2
<1>12. Chained(g, Append(rd, h), s + n)
  <2> SUFFICES ASSUME NEW k \in 1 .. Len(rd) + 1
               PROVE  LET u == g[Append(rd, h)[k]]
                      IN  u.from + u.n = Pos(g, Append(rd, h), s + n, k + 1) /\ u.from + u.n <= s + n
    BY <1>10 DEF Chained
  <2>1. CASE k = Len(rd) + 1
    <3>1. Pos(g, Append(rd, h), s + n, k + 1) = s + n
      BY <1>9, <1>10, <2>1 DEF Pos
    <3> QED BY <1>4, <1>8, <1>10, <2>1, <3>1
  <2>2. CASE k \in 1 .. Len(rd)
    <3>1. g[Append(rd, h)[k]] = f[rd[k]]
      BY <1>4, <1>9, <1>10, <2>2
    <3>2. f[rd[k]].from + f[rd[k]].n = Pos(f, rd, s, k + 1) /\ f[rd[k]].from + f[rd[k]].n <= s
      BY <2>2 DEF Kernel, Chained
    <3>3. Pos(g, Append(rd, h), s + n, k + 1) = Pos(f, rd, s, k + 1)
      BY <1>9, <1>11, <2>2
    <3>4. f[rd[k]] \in SlotType
      BY <1>1, <1>9, <2>2
    <3>5. f[rd[k]].from \in Nat /\ f[rd[k]].n \in Nat /\ s \in Nat
      BY <1>1, <3>4, SlotFields
    <3>6. f[rd[k]].from + f[rd[k]].n <= s + n
      BY <1>8, <3>2, <3>5
    <3> QED BY <3>1, <3>2, <3>3, <3>6
  <2> QED BY <1>9, <2>1, <2>2
<1> QED BY <1>2, <1>3, <1>4, <1>5, <1>6, <1>7, <1>8, <1>11, <1>12 DEF Kernel, g, h

\* Nothing came back yet.
LEMMA KernelStart ==
  ASSUME FrameReadsAssumption, NEW f \in [Slots -> SlotType], NEW ff, Queued(f, ff, "kernel"),
         \A i \in Slots : f[i].own # "complete" /\ SlotHolds(f[i])
  PROVE  Kernel(f, ff, <<>>, 0)
<1>1. <<>> \in Seq(Slots) /\ Len(<<>>) = 0 /\ 0 \in 0 .. MaxSent
  BY EmptySeq DEF FrameReadsAssumption
<1>2. Queued(f, <<>>, "complete")
  BY <1>1 DEF Queued
<1>3. Chained(f, <<>>, 0)
  BY <1>1 DEF Chained
<1> QED BY <1>1, <1>2, <1>3 DEF Kernel

-----------------------------------------------------------------------------
(* The slots of a cover engine *)

\* The slots are numbered from 1 on.
LEMMA SlotNat ==
  ASSUME FrameReadsAssumption
  PROVE  /\ NCover \in Nat \ {0}
         /\ \A i \in Slots : i \in Nat /\ i >= 1
         /\ \A i \in 1 .. NCover : i \in Slots
<1>1. NCover \in Nat \ {0}
  BY OffFacts
<1>2. SlotCount \in Nat \ {0} /\ Slots = 1 .. SlotCount /\ NCover <= SlotCount
  BY SlotsFacts
<1> QED BY <1>1, <1>2

\* Where slot i lies.
LEMMA OffAt ==
  ASSUME FrameReadsAssumption, NEW i \in 1 .. NCover
  PROVE  /\ i \in Nat /\ i >= 1 /\ i <= NCover /\ i \in Slots /\ FrameLen \in Nat
         /\ Off(i) \in Nat /\ Off(i) < FrameLen
         /\ Req(i) \in Nat /\ Req(i) # 0 /\ Req(i) \in 1 .. Chunk /\ Req(i) \in 0 .. Chunk
         /\ Off(i) + Req(i) <= FrameLen
         /\ i = NCover => Off(i) + Req(i) = FrameLen
         /\ i # NCover => Off(i) + Req(i) = Off(i + 1) /\ i + 1 \in 1 .. NCover
<1>1. NCover \in Nat /\ i \in Int /\ Chunk \in Nat /\ FrameLen \in Nat
  BY OffFacts
<1>2. /\ Off(i) >= 0 /\ Off(i) < FrameLen
      /\ Req(i) \in 1 .. Chunk
      /\ Off(i) + Req(i) = IF i = NCover THEN FrameLen ELSE Off(i + 1)
      /\ Off(i) + Req(i) <= FrameLen
  BY OffFacts
<1>3. Off(i) \in Int
  BY <1>1, OffFacts
<1>4. i \in Slots
  BY SlotNat
<1> QED BY <1>1, <1>2, <1>3, <1>4

\* A later slot lies further on.
LEMMA OffOrder ==
  ASSUME FrameReadsAssumption, NEW i \in Int, NEW j \in Int, i <= j
  PROVE  Off(i) \in Int /\ Off(j) \in Int /\ Off(i) <= Off(j)
BY OffFacts

\* What an order of the slots says of one of them.
LEMMA OrderAt ==
  ASSUME FrameReadsAssumption, NEW f, NEW ff, NEW rd, NEW n, CoverOrder(f, ff, rd, n), NEW i \in Slots
  PROVE  /\ n \in Nat /\ n >= 1 /\ n <= NCover + 1 /\ NCover \in Nat
         /\ i \in Nat /\ i >= 1
         /\ f[i].own = "none" => i >= n
         /\ i >= n => f[i].own = "none"
         /\ i < n => i \in 1 .. n - 1 /\ i \in 1 .. NCover /\ (f[i].req = Req(i) \/ f[i] = Rejected)
<1>1. NCover \in Nat /\ i \in Nat /\ i >= 1
  BY SlotNat
<1>2. n \in 1 .. NCover + 1 /\ (f[i].own = "none" <=> i >= n)
  BY DEF CoverOrder
<1>3. i < n => i \in 1 .. n - 1
  BY <1>1, <1>2
<1>4. i < n => f[i].req = Req(i) \/ f[i] = Rejected
  BY <1>3 DEF CoverOrder
<1> QED BY <1>1, <1>2, <1>3, <1>4

\* The bounds of the next slot.
LEMMA OrderNext ==
  ASSUME FrameReadsAssumption, NEW f, NEW ff, NEW rd, NEW n, CoverOrder(f, ff, rd, n)
  PROVE  /\ n \in Nat /\ n >= 1 /\ n <= NCover + 1 /\ NCover \in Nat
         /\ \A i \in 1 .. n - 1 : i \in Nat /\ i >= 1 /\ i < n /\ i \in 1 .. NCover /\ i \in Slots
<1>1. NCover \in Nat
  BY SlotNat
<1>2. n \in 1 .. NCover + 1
  BY DEF CoverOrder
<1>3. \A i \in 1 .. n - 1 : i \in Nat /\ i >= 1 /\ i < n /\ i \in 1 .. NCover
  BY <1>1, <1>2
<1> QED BY <1>1, <1>2, <1>3, SlotNat

\* The head of an ascending queue is the least slot of its state.
LEMMA HeadLeast ==
  ASSUME NEW f, NEW q, NEW o, Queued(f, q, o), Ascends(q), q # <<>>, NEW i \in Slots, f[i].own = o, FrameReadsAssumption
  PROVE  Head(q) <= i
<1>1. q \in Seq(Slots)
  BY DEF Queued
<1>2. PICK k \in 1 .. Len(q) : q[k] = i
  BY DEF Queued
<1>3. k = 1 \/ (1 < k /\ 1 \in 1 .. Len(q))
  BY <1>1, TailOf
<1>4. q[1] <= q[k]
  <2>1. q[1] \in Nat
    BY <1>1, TailOf, SlotNat
  <2>2. CASE k = 1
    BY <2>1, <2>2
  <2>3. CASE 1 < k /\ 1 \in 1 .. Len(q)
    <3>1. q[1] < q[k]
      BY <1>2, <2>3 DEF Ascends
    <3> QED BY <1>2, <2>1, <3>1, SlotNat
  <2> QED BY <1>3, <2>2, <2>3
<1> QED BY <1>1, <1>2, <1>4, TailOf

\* An ascending queue still ascends when its first slot leaves it.
LEMMA TailAscends ==
  ASSUME NEW q \in Seq(Slots), q # <<>>, Ascends(q)
  PROVE  Ascends(Tail(q))
<1>1. SUFFICES ASSUME NEW k \in 1 .. Len(Tail(q)), NEW l \in 1 .. Len(Tail(q)), k < l
               PROVE  Tail(q)[k] < Tail(q)[l]
  BY DEF Ascends
<1>2. Len(q) \in Nat /\ Len(Tail(q)) = Len(q) - 1
  BY TailOf
<1>3. k + 1 \in 1 .. Len(q) /\ l + 1 \in 1 .. Len(q) /\ k + 1 < l + 1
  BY <1>1, <1>2
<1>4. q[k + 1] < q[l + 1]
  BY <1>3 DEF Ascends
<1> QED BY <1>4, TailOf

\* Reaping keeps the order of the slots, and the places of their bytes.
LEMMA CoverReap ==
  ASSUME FrameReadsAssumption, NEW f, NEW ff, NEW rd, NEW n, NEW s,
         Kernel(f, ff, rd, s), Cover(f, ff, rd, n, s), rd # <<>>
  PROVE  Cover(AsReaped(f, Head(rd)), ff, Tail(rd), n, s)
<1> DEFINE h == Head(rd)
           g == AsReaped(f, h)
<1>1. rd \in Seq(Slots) /\ f \in [Slots -> SlotType]
  BY DEF Kernel, Queued
<1>2. h \in Slots /\ f[h].own = "complete"
  BY KernelReap
<1>3. /\ g \in [Slots -> SlotType] /\ g[h].own = "reaped"
      /\ \A j \in Slots : g[j].req = f[j].req /\ g[j].from = f[j].from /\ g[j].n = f[j].n /\ g[j].st = f[j].st
      /\ \A j \in Slots \ {h} : g[j] = f[j]
  BY <1>1, <1>2, ReapedSlots
<1>4. /\ CoverOrder(f, ff, rd, n)
      /\ n \in Nat /\ NCover \in Nat /\ (\A i \in Slots : i \in Nat /\ i >= 1)
      /\ \A i \in 1 .. n - 1 : i \in Nat /\ i >= 1 /\ i < n /\ i \in 1 .. NCover /\ i \in Slots
      /\ \A i \in 1 .. NCover : i \in Slots
  <2>1. CoverOrder(f, ff, rd, n)
    BY DEF Cover
  <2> QED BY <2>1, OrderNext, SlotNat
<1>5. \A i \in Slots : f[i].own = "complete" => h <= i
  <2>1. Queued(f, rd, "complete") /\ Ascends(rd)
    BY <1>4 DEF Kernel, CoverOrder
  <2> QED BY <2>1, HeadLeast
<1> HIDE DEF g, h
<1>6. CoverOrder(g, ff, Tail(rd), n)
  <2>1. Ascends(Tail(rd))
    BY <1>1, <1>4, TailAscends DEF CoverOrder
  <2>2. \A i \in Slots : g[i].own = "none" <=> i >= n
    BY <1>2, <1>3, <1>4 DEF Cover, CoverOrder
  <2>3. \A i \in 1 .. n - 1 : g[i].req = Req(i) \/ g[i] = Rejected
    <3>1. f[h] # Rejected
      BY <1>2 DEF Rejected
    <3> QED BY <1>3, <1>4, <3>1 DEF Cover, CoverOrder
  <2>4. ASSUME NEW i \in 1 .. n - 1, NEW j \in 1 .. n - 1, i < j, g[j].req # 0
        PROVE  /\ g[i].own = "kernel" => g[j].own = "kernel"
               /\ g[i].own = "complete" => g[j].own \in {"kernel", "complete"}
    <3>1. i \in Slots /\ j \in Slots /\ f[j].req # 0
      BY <1>3, <1>4, <2>4
    <3>2. /\ f[i].own = "kernel" => f[j].own = "kernel"
          /\ f[i].own = "complete" => f[j].own \in {"kernel", "complete"}
      BY <2>4, <3>1 DEF Cover, CoverOrder
    <3>3. CASE i = h
      BY <1>3, <3>3
    <3>4. CASE i # h
      <4>1. g[i].own = f[i].own /\ f[i].own = "complete" => j # h
        BY <1>3, <1>4, <1>5, <2>4, <3>1, <3>4
      <4> QED BY <1>2, <1>3, <3>1, <3>2, <4>1
    <3> QED BY <3>3, <3>4
  <2> QED BY <1>4, <2>1, <2>2, <2>3, <2>4 DEF Cover, CoverOrder
<1>7. \A i \in 1 .. NCover : In(g, i) <=> In(f, i)
  BY <1>2, <1>3, <1>4 DEF In
<1>8. \A i \in 1 .. NCover : Full(g, i) <=> Full(f, i)
  BY <1>3, <1>4, <1>7 DEF Full
<1>9. InPlace(g, s)
  <2> SUFFICES ASSUME NEW i \in 1 .. NCover, \A j \in 1 .. i - 1 : Full(g, j)
               PROVE  /\ In(g, i) /\ g[i].req # 0 => g[i].from = Off(i)
                      /\ ~In(g, i) => s = Off(i)
    BY DEF InPlace
  <2>1. \A j \in 1 .. i - 1 : Full(f, j)
    BY <1>4, <1>8
  <2>2. /\ In(f, i) /\ f[i].req # 0 => f[i].from = Off(i)
        /\ ~In(f, i) => s = Off(i)
    BY <2>1 DEF Cover, InPlace
  <2> QED BY <1>3, <1>4, <1>7, <2>2
<1>10. Within(g, s)
  BY <1>7 DEF Cover, Within
<1> QED BY <1>6, <1>9, <1>10 DEF Cover, g, h

\* So does submitting the next slot.
LEMMA CoverSend ==
  ASSUME FrameReadsAssumption, NEW f, NEW ff, NEW rd, NEW n, NEW s,
         Kernel(f, ff, rd, s), Cover(f, ff, rd, n, s), n <= NCover
  PROVE  /\ n \in Slots /\ f[n].own = "none" /\ Req(n) \in 0 .. Chunk
         /\ Cover(AsSent(f, n, Req(n)), Append(ff, n), rd, n + 1, s)
<1> DEFINE g == AsSent(f, n, Req(n))
<1>1. ff \in Seq(Slots) /\ f \in [Slots -> SlotType]
  BY DEF Kernel, Queued
<1>2. /\ CoverOrder(f, ff, rd, n)
      /\ n \in Nat /\ n \in 1 .. NCover /\ NCover \in Nat /\ (\A i \in Slots : i \in Nat /\ i >= 1)
      /\ \A i \in 1 .. n - 1 : i \in Nat /\ i >= 1 /\ i < n /\ i \in 1 .. NCover /\ i \in Slots
      /\ \A i \in 1 .. NCover : i \in Slots
  <2>1. CoverOrder(f, ff, rd, n)
    BY DEF Cover
  <2>2. n \in Nat /\ n >= 1 /\ NCover \in Nat
    BY <2>1, OrderNext
  <2> QED BY <2>1, <2>2, OrderNext, SlotNat
<1>3. n \in Slots /\ f[n].own = "none"
  BY <1>2, OrderAt
<1>4. Req(n) \in 1 .. Chunk /\ Req(n) \in 0 .. Chunk
  BY <1>2, OffAt
<1>5. g \in [Slots -> SlotType] /\ g[n] = Sent(Req(n)) /\ \A i \in Slots \ {n} : g[i] = f[i]
  BY <1>1, <1>3, <1>4, SentSlots
<1> HIDE DEF g
<1>6. g[n].own = "kernel" /\ g[n].req = Req(n)
  BY <1>5 DEF Sent
<1>7. CoverOrder(g, Append(ff, n), rd, n + 1)
  <2>1. \A k \in 1 .. Len(ff) : ff[k] \in Slots /\ ff[k] < n
    <3> SUFFICES ASSUME NEW k \in 1 .. Len(ff) PROVE ff[k] \in Slots /\ ff[k] < n
      OBVIOUS
    <3>1. ff[k] \in Slots /\ f[ff[k]].own = "kernel"
      BY <1>1, ElementOfSeq DEF Kernel, Queued
    <3> QED BY <1>2, <3>1, OrderAt
  <2>2. Ascends(Append(ff, n))
    BY <1>1, <1>3, <2>1, AppendOf DEF Cover, CoverOrder, Ascends
  <2>3. \A i \in Slots : g[i].own = "none" <=> i >= n + 1
    BY <1>2, <1>5, <1>6 DEF Cover, CoverOrder
  <2>4. \A i \in 1 .. n : g[i].req = Req(i) \/ g[i] = Rejected
    BY <1>2, <1>5, <1>6 DEF Cover, CoverOrder
  <2>5. ASSUME NEW i \in 1 .. n, NEW j \in 1 .. n, i < j, g[j].req # 0
        PROVE  /\ g[i].own = "kernel" => g[j].own = "kernel"
               /\ g[i].own = "complete" => g[j].own \in {"kernel", "complete"}
    <3>1. CASE j = n
      BY <1>6, <3>1
    <3>2. CASE j # n
      <4>1. i \in 1 .. n - 1 /\ j \in 1 .. n - 1 /\ g[i] = f[i] /\ g[j] = f[j]
        BY <1>2, <1>5, <2>5, <3>2
      <4> QED BY <2>5, <4>1 DEF Cover, CoverOrder
    <3> QED BY <3>1, <3>2
  <2>6. n + 1 \in 1 .. NCover + 1 /\ (n + 1) - 1 = n
    BY <1>2
  <2> QED BY <2>2, <2>3, <2>4, <2>5, <2>6 DEF Cover, CoverOrder
<1>8. \A i \in 1 .. NCover : In(g, i) <=> In(f, i)
  BY <1>2, <1>3, <1>5, <1>6 DEF In
<1>9. \A i \in 1 .. NCover : Full(g, i) => Full(f, i)
  BY <1>2, <1>5, <1>6, <1>8 DEF Full, In
<1>10. InPlace(g, s)
  <2> SUFFICES ASSUME NEW i \in 1 .. NCover, \A j \in 1 .. i - 1 : Full(g, j)
               PROVE  /\ In(g, i) /\ g[i].req # 0 => g[i].from = Off(i)
                      /\ ~In(g, i) => s = Off(i)
    BY DEF InPlace
  <2>1. \A j \in 1 .. i - 1 : Full(f, j)
    BY <1>2, <1>9
  <2>2. /\ In(f, i) /\ f[i].req # 0 => f[i].from = Off(i)
        /\ ~In(f, i) => s = Off(i)
    BY <2>1 DEF Cover, InPlace
  <2>3. In(g, i) => g[i] = f[i]
    BY <1>2, <1>5, <1>6 DEF In
  <2> QED BY <1>8, <2>2, <2>3
<1>11. Within(g, s)
  BY <1>8 DEF Cover, Within
<1> QED BY <1>3, <1>4, <1>7, <1>10, <1>11 DEF Cover, g

\* A slot that could not be submitted is passed over: no transfer behind it is
\* in a place that counts.
LEMMA CoverReject ==
  ASSUME FrameReadsAssumption, NEW f, NEW ff, NEW rd, NEW n, NEW s,
         Kernel(f, ff, rd, s), Cover(f, ff, rd, n, s), n <= NCover,
         NEW g, g \in [Slots -> SlotType], g[n] = Rejected, \A i \in Slots \ {n} : g[i] = f[i]
  PROVE  Kernel(g, ff, rd, s) /\ Cover(g, ff, rd, n + 1, s)
<1>1. ff \in Seq(Slots) /\ rd \in Seq(Slots) /\ f \in [Slots -> SlotType] /\ s \in 0 .. MaxSent
  BY DEF Kernel, Queued
<1>2. /\ CoverOrder(f, ff, rd, n)
      /\ n \in Nat /\ n \in 1 .. NCover /\ NCover \in Nat /\ (\A i \in Slots : i \in Nat /\ i >= 1)
      /\ \A i \in 1 .. n - 1 : i \in Nat /\ i >= 1 /\ i < n /\ i \in 1 .. NCover /\ i \in Slots
      /\ \A i \in 1 .. NCover : i \in Slots
  <2>1. CoverOrder(f, ff, rd, n)
    BY DEF Cover
  <2>2. n \in Nat /\ n >= 1 /\ NCover \in Nat
    BY <2>1, OrderNext
  <2> QED BY <2>1, <2>2, OrderNext, SlotNat
<1>3. n \in Slots /\ f[n].own = "none"
  BY <1>2, OrderAt
<1>4. Rejected.own = "reaped" /\ Rejected.req = 0 /\ Rejected.n = 0 /\ SlotHolds(Rejected)
  BY DEF Rejected, SlotHolds
<1>5. g \in [Slots -> SlotType] /\ g[n] = Rejected /\ \A i \in Slots \ {n} : g[i] = f[i]
  OBVIOUS
<1>6. Kernel(g, ff, rd, s)
  <2>1. \A o \in {"kernel", "complete"} : \A i \in Slots : g[i].own = o <=> f[i].own = o
    BY <1>3, <1>4, <1>5
  <2>2. Queued(g, ff, "kernel") /\ Queued(g, rd, "complete")
    BY <2>1, Stays DEF Kernel
  <2>3. \A i \in Slots : SlotHolds(g[i])
    BY <1>4, <1>5 DEF Kernel
  <2>4. \A k \in 1 .. Len(rd) : g[rd[k]] = f[rd[k]]
    <3>1. \A k \in 1 .. Len(rd) : rd[k] \in Slots /\ rd[k] # n
      BY <1>1, <1>3, ElementOfSeq DEF Kernel, Queued
    <3> QED BY <1>5, <3>1
  <2>5. Chained(g, rd, s)
    <3>1. \A k \in 1 .. Len(rd) + 1 : Pos(g, rd, s, k) = Pos(f, rd, s, k)
      BY <1>1, <2>4, LenProperties DEF Pos
    <3> QED BY <1>1, <2>4, <3>1, LenProperties DEF Kernel, Chained
  <2> QED BY <1>1, <1>5, <2>2, <2>3, <2>5 DEF Kernel
<1>7. CoverOrder(g, ff, rd, n + 1)
  <2>1. \A i \in Slots : g[i].own = "none" <=> i >= n + 1
    BY <1>2, <1>4, <1>5 DEF Cover, CoverOrder
  <2>2. \A i \in 1 .. n : g[i].req = Req(i) \/ g[i] = Rejected
    BY <1>2, <1>5 DEF Cover, CoverOrder
  <2>3. ASSUME NEW i \in 1 .. n, NEW j \in 1 .. n, i < j, g[j].req # 0
        PROVE  /\ g[i].own = "kernel" => g[j].own = "kernel"
               /\ g[i].own = "complete" => g[j].own \in {"kernel", "complete"}
    <3>1. j # n
      BY <1>4, <1>5, <2>3
    <3>2. i \in 1 .. n - 1 /\ j \in 1 .. n - 1 /\ g[i] = f[i] /\ g[j] = f[j]
      BY <1>2, <1>5, <2>3, <3>1
    <3> QED BY <2>3, <3>2 DEF Cover, CoverOrder
  <2>4. n + 1 \in 1 .. NCover + 1 /\ (n + 1) - 1 = n /\ Ascends(ff) /\ Ascends(rd)
    BY <1>2 DEF CoverOrder
  <2> QED BY <2>1, <2>2, <2>3, <2>4 DEF CoverOrder
<1>8. ~Full(g, n) /\ \A i \in Slots \ {n} : (Full(g, i) <=> Full(f, i)) /\ (In(g, i) <=> In(f, i))
  BY <1>2, <1>4, <1>5, OffAt DEF Full, In
<1>9. InPlace(g, s)
  <2> SUFFICES ASSUME NEW i \in 1 .. NCover, \A j \in 1 .. i - 1 : Full(g, j)
               PROVE  /\ In(g, i) /\ g[i].req # 0 => g[i].from = Off(i)
                      /\ ~In(g, i) => s = Off(i)
    BY DEF InPlace
  <2>1. ~(n < i)
    BY <1>2, <1>8
  <2>2. CASE i = n
    BY <1>4, <1>5, <2>2 DEF In
  <2>3. CASE i # n
    <3>1. ASSUME NEW j \in 1 .. i - 1 PROVE Full(f, j)
      <4>1. j \in 1 .. n - 1 /\ j # n
        BY <1>2, <2>1, <2>3
      <4>2. j \in Slots \ {n} /\ Full(g, j)
        BY <1>2, <2>3, <4>1
      <4> QED BY <1>8, <4>2
    <3>2. g[i] = f[i] /\ (In(g, i) <=> In(f, i))
      BY <1>2, <1>5, <1>8, <2>3
    <3> QED BY <3>1, <3>2 DEF Cover, InPlace
  <2> QED BY <2>2, <2>3
<1>10. Within(g, s)
  <2>1. \A i \in 1 .. NCover : ~In(g, i) => ~In(f, i)
    BY <1>2, <1>4, <1>5, <1>8 DEF In
  <2> QED BY <2>1 DEF Cover, Within
<1> QED BY <1>3, <1>5, <1>6, <1>7, <1>9, <1>10 DEF Cover

\* So does a completion: the device is where the oldest transfer begins, if
\* everything before came in whole.
LEMMA CoverComplete ==
  ASSUME FrameReadsAssumption, NEW f, NEW ff, NEW rd, NEW n, NEW s,
         Kernel(f, ff, rd, s), Cover(f, ff, rd, n, s), ff # <<>>,
         NEW m \in 0 .. f[Head(ff)].req, s + m <= MaxSent, NEW t \in {"ok", "soft", "hard"}
  PROVE  Cover(AsComplete(f, Head(ff), s, m, t), Tail(ff), Append(rd, Head(ff)), n, s + m)
<1> DEFINE h == Head(ff)
           g == AsComplete(f, h, s, m, t)
<1>1. ff \in Seq(Slots) /\ rd \in Seq(Slots) /\ f \in [Slots -> SlotType] /\ s \in 0 .. MaxSent
  BY DEF Kernel, Queued
<1>2. h \in Slots /\ f[h].own = "kernel" /\ m \in 0 .. f[h].req
  BY KernelComplete
<1>3. /\ CoverOrder(f, ff, rd, n)
      /\ n \in Nat /\ n >= 1 /\ n <= NCover + 1 /\ NCover \in Nat /\ (\A i \in Slots : i \in Nat /\ i >= 1)
      /\ \A i \in 1 .. n - 1 : i \in Nat /\ i >= 1 /\ i < n /\ i \in 1 .. NCover /\ i \in Slots
      /\ \A i \in 1 .. NCover : i \in Slots
  <2>1. CoverOrder(f, ff, rd, n)
    BY DEF Cover
  <2> QED BY <2>1, OrderNext, SlotNat
<1>4. \A i \in Slots : f[i].own = "kernel" => h <= i
  <2>1. Queued(f, ff, "kernel") /\ Ascends(ff)
    BY <1>3 DEF Kernel, CoverOrder
  <2> QED BY <2>1, HeadLeast
<1> HIDE DEF h
<1>5. /\ g \in [Slots -> SlotType]
      /\ g[h] = [own |-> "complete", req |-> f[h].req, from |-> s, n |-> m, st |-> t]
      /\ \A j \in Slots \ {h} : g[j] = f[j]
  <2>1. g = AsComplete(f, h, s, m, t) /\ m \in Int
    BY <1>2 DEF g
  <2> QED BY <1>1, <1>2, <2>1, CompleteSlots
<1> HIDE DEF g
<1>6. h \in 1 .. n - 1 /\ h \in 1 .. NCover
  <2>1. h < n
    BY <1>2, <1>3, OrderAt
  <2> QED BY <1>2, <1>3, <2>1, OrderAt
<1>7. f[h].req = Req(h) /\ f[h].req \in 1 .. Chunk /\ m \in 0 .. Req(h)
  <2>1. f[h] # Rejected
    BY <1>2 DEF Rejected
  <2>2. f[h].req = Req(h)
    BY <1>3, <1>6, <2>1 DEF CoverOrder
  <2> QED BY <1>2, <1>6, <2>2, OffAt
<1>8. g[h].own = "complete" /\ g[h].req = Req(h) /\ g[h].from = s /\ g[h].n = m
  BY <1>5, <1>7
<1>9. \A i \in 1 .. n - 1 : i > h /\ f[i].req # 0 => f[i].own = "kernel"
  BY <1>2, <1>3, <1>6 DEF CoverOrder
<1>10. \A i \in 1 .. n - 1 : i < h => f[i].own # "kernel"
  BY <1>3, <1>4, <1>6
<1>11. CoverOrder(g, Tail(ff), Append(rd, h), n)
  <2>1. Ascends(Tail(ff))
    BY <1>1, <1>3, TailAscends DEF CoverOrder
  <2>2. Ascends(Append(rd, h))
    <3>1. \A k \in 1 .. Len(rd) : rd[k] < h
      <4> SUFFICES ASSUME NEW k \in 1 .. Len(rd) PROVE rd[k] < h
        OBVIOUS
      <4>1. rd[k] \in Slots /\ f[rd[k]].own = "complete"
        BY <1>1, ElementOfSeq DEF Kernel, Queued
      <4>2. rd[k] \in 1 .. n - 1 /\ rd[k] # h
        <5>1. rd[k] < n
          BY <1>3, <4>1, OrderAt
        <5> QED BY <1>2, <1>3, <4>1, <5>1, OrderAt
      <4>3. f[rd[k]].req # 0
        <5>1. f[rd[k]] # Rejected
          BY <4>1 DEF Rejected
        <5>2. rd[k] \in 1 .. NCover /\ f[rd[k]].req = Req(rd[k])
          BY <1>3, <4>2, <5>1 DEF CoverOrder
        <5> QED BY <5>2, OffAt
      <4> QED BY <1>3, <1>6, <1>9, <4>1, <4>2, <4>3
    <3>2. Ascends(rd)
      BY <1>3 DEF CoverOrder
    <3>3. /\ Len(Append(rd, h)) = Len(rd) + 1 /\ Len(rd) \in Nat /\ Append(rd, h)[Len(rd) + 1] = h
          /\ \A k \in 1 .. Len(rd) : Append(rd, h)[k] = rd[k]
      BY <1>1, <1>2, AppendOf
    <3> QED BY <3>1, <3>2, <3>3 DEF Ascends
  <2>3. \A i \in Slots : g[i].own = "none" <=> i >= n
    BY <1>2, <1>5, <1>8 DEF Cover, CoverOrder
  <2>4. \A i \in 1 .. n - 1 : g[i].req = Req(i) \/ g[i] = Rejected
    BY <1>3, <1>5, <1>8 DEF Cover, CoverOrder
  <2>5. ASSUME NEW i \in 1 .. n - 1, NEW j \in 1 .. n - 1, i < j, g[j].req # 0
        PROVE  /\ g[i].own = "kernel" => g[j].own = "kernel"
               /\ g[i].own = "complete" => g[j].own \in {"kernel", "complete"}
    <3>1. i \in Slots /\ j \in Slots
      BY <1>3
    <3>2. CASE j = h
      BY <1>5, <1>8, <1>10, <2>5, <3>1, <3>2
    <3>3. CASE i = h
      <4>1. g[j] = f[j] /\ j > h
        BY <1>5, <2>5, <3>1, <3>3
      <4> QED BY <1>8, <1>9, <2>5, <3>3, <4>1
    <3>4. CASE i # h /\ j # h
      <4>1. g[i] = f[i] /\ g[j] = f[j]
        BY <1>5, <3>1, <3>4
      <4> QED BY <2>5, <4>1 DEF Cover, CoverOrder
    <3> QED BY <3>2, <3>3, <3>4
  <2> QED BY <1>3, <2>1, <2>2, <2>3, <2>4, <2>5 DEF CoverOrder
<1>12. s \in Nat /\ m \in Nat
  BY <1>1, <1>7
<1>13. ASSUME NEW i \in 1 .. NCover, \A j \in 1 .. i - 1 : Full(g, j)
       PROVE  /\ In(g, i) /\ g[i].req # 0 => g[i].from = Off(i)
              /\ ~In(g, i) => s + m = Off(i)
  <2>1. CASE i < h
    <3>1. \A j \in 1 .. i : g[j] = f[j]
      BY <1>3, <1>5, <1>6, <2>1
    <3>2. \A j \in 1 .. i - 1 : Full(f, j)
      BY <1>13, <3>1 DEF Full, In
    <3>3. In(f, i) /\ g[i] = f[i]
      <4>1. g[i] = f[i] /\ i \in 1 .. n - 1 /\ i \in Slots
        BY <1>3, <1>6, <2>1, <3>1
      <4>2. f[i].own # "kernel" /\ f[i].own # "none"
        BY <1>3, <1>10, <2>1, <4>1, OrderAt
      <4>3. f[i].own \in {"none", "kernel", "complete", "reaped"}
        BY <1>1, <4>1, SlotFields
      <4> QED BY <4>1, <4>2, <4>3 DEF In
    <3> QED BY <3>2, <3>3 DEF Cover, InPlace, In
  <2>2. CASE i >= h
    <3>1. \A j \in 1 .. h - 1 : Full(f, j)
      <4>1. \A j \in 1 .. h - 1 : g[j] = f[j] /\ j \in 1 .. i - 1
        BY <1>3, <1>5, <1>6, <2>2
      <4> QED BY <1>13, <4>1 DEF Full, In
    <3>2. s = Off(h)
      BY <1>2, <1>6, <3>1 DEF Cover, InPlace, In
    <3>3. CASE i = h
      BY <1>8, <3>2, <3>3 DEF In
    <3>4. CASE i > h
      <4>1. Full(g, h)
        BY <1>3, <1>6, <1>13, <3>4
      <4>2. s + m = Off(h + 1)
        <5>1. m = Req(h)
          BY <1>8, <4>1 DEF Full
        <5>2. h # NCover
          BY <1>3, <1>6, <3>4
        <5> QED BY <1>6, <3>2, <5>1, <5>2, OffAt
      <4>3. i = h + 1
        <5> SUFFICES ASSUME i # h + 1 PROVE FALSE
          OBVIOUS
        <5>1. Full(g, h + 1) /\ h + 1 \in 1 .. NCover /\ h + 1 \in Slots /\ g[h + 1] = f[h + 1]
          BY <1>3, <1>5, <1>6, <1>13, <3>4
        <5>2. f[h + 1].own \in {"complete", "reaped"} /\ f[h + 1].n = Req(h + 1)
          BY <5>1 DEF Full, In
        <5>3. h + 1 \in 1 .. n - 1
          <6>1. f[h + 1].own # "none"
            BY <5>2
          <6> QED BY <1>3, <5>1, <6>1, OrderAt
        <5>4. f[h + 1].req # 0
          <6>1. f[h + 1].n <= f[h + 1].req /\ f[h + 1].n # 0 /\ f[h + 1].n \in Nat
            BY <5>1, <5>2, OffAt DEF Kernel, SlotHolds
          <6>2. f[h + 1] \in SlotType
            BY <1>1, <5>1
          <6> QED BY <6>1, <6>2, SlotFields
        <5> QED BY <1>6, <1>9, <5>2, <5>3, <5>4
      <4>4. ~In(g, i) \/ g[i].req = 0
        <5>1. g[i] = f[i] /\ i \in Slots
          BY <1>3, <1>5, <4>3
        <5>2. i >= n => f[i].own = "none"
          BY <1>3, <5>1, OrderAt
        <5>3. i < n => i \in 1 .. n - 1 /\ i > h
          BY <1>3, <3>4, <5>1
        <5>4. i < n /\ f[i].req # 0 => f[i].own = "kernel"
          BY <1>9, <5>3
        <5>5. i < n \/ i >= n
          BY <1>3, <5>1
        <5> QED BY <5>1, <5>2, <5>4, <5>5 DEF In
      <4> QED BY <4>2, <4>3, <4>4
    <3> QED BY <1>3, <1>6, <2>2, <3>3, <3>4
  <2> QED BY <1>3, <1>6, <2>1, <2>2
<1>14. Within(g, s + m)
  <2>1. s <= Off(h)
    BY <1>2, <1>6 DEF Cover, Within, In
  <2>2. Off(h) \in Int /\ Req(h) \in Int /\ s + m <= Off(h) + Req(h)
    BY <1>6, <1>7, <1>12, <2>1, OffAt
  <2>3. s + m <= FrameLen
    BY <1>6, <1>12, <2>2, OffAt
  <2>4. ASSUME NEW i \in 1 .. NCover, ~In(g, i) PROVE s + m <= Off(i)
    <3>1. i # h /\ g[i] = f[i] /\ i \in Slots
      BY <1>3, <1>5, <1>8, <2>4 DEF In
    <3>2. i > h
      <4>1. f[i].own \in {"none", "kernel"}
        BY <1>1, <2>4, <3>1, SlotFields DEF In
      <4>2. f[i].own = "kernel" => h <= i
        BY <1>4, <3>1
      <4>3. f[i].own = "none" => i >= n
        BY <1>3, <3>1, OrderAt
      <4> QED BY <1>3, <1>6, <3>1, <4>1, <4>2, <4>3
    <3>3. Off(h) + Req(h) = Off(h + 1) /\ Off(h + 1) <= Off(i) /\ Off(i) \in Int
      <4>1. h # NCover /\ h + 1 \in Int /\ i \in Int /\ h + 1 <= i
        BY <1>3, <1>6, <3>2
      <4> QED BY <1>6, <4>1, OffAt, OffOrder
    <3> QED BY <1>12, <2>2, <3>3
  <2> QED BY <2>3, <2>4 DEF Within
<1> QED BY <1>11, <1>13, <1>14 DEF Cover, InPlace, g, h

\* Nothing came back yet.
LEMMA CoverStart ==
  ASSUME FrameReadsAssumption, NEW f \in [Slots -> SlotType], NEW ff, NEW n \in 1 .. NCover + 1, Ascends(ff),
         \A i \in Slots : IF i < n THEN f[i] = Sent(Req(i)) \/ f[i] = Rejected ELSE f[i] = Unused
  PROVE  Cover(f, ff, <<>>, n, 0)
<1>1. /\ NCover \in Nat /\ (\A i \in Slots : i \in Nat /\ i >= 1) /\ (\A i \in 1 .. NCover : i \in Slots)
      /\ \A i \in 1 .. n - 1 : i \in Slots /\ i < n
  BY SlotNat
<1>2. \A i \in Slots : f[i].own = "none" <=> i >= n
  BY <1>1 DEF Sent, Rejected, Unused
<1>3. \A i \in 1 .. n - 1 : f[i].req = Req(i) \/ f[i] = Rejected
  BY <1>1 DEF Sent
<1>4. Ascends(<<>>)
  BY EmptySeq DEF Ascends
<1>5. \A i, j \in 1 .. n - 1 : i < j /\ f[j].req # 0 =>
        /\ f[i].own = "kernel" => f[j].own = "kernel"
        /\ f[i].own = "complete" => f[j].own \in {"kernel", "complete"}
  BY <1>1 DEF Sent, Rejected
<1>6. \A i \in 1 .. NCover : ~Full(f, i) /\ (In(f, i) => f[i].req = 0)
  <2> SUFFICES ASSUME NEW i \in 1 .. NCover PROVE ~Full(f, i) /\ (In(f, i) => f[i].req = 0)
    OBVIOUS
  <2>1. i \in Slots /\ Req(i) # 0
    BY OffAt
  <2>2. f[i] = Sent(Req(i)) \/ f[i] = Rejected \/ f[i] = Unused
    BY <2>1
  <2>3. In(f, i) => f[i] = Rejected
    BY <2>2 DEF In, Sent, Unused
  <2> QED BY <2>1, <2>3 DEF Full, Rejected
<1>7. InPlace(f, 0)
  <2> SUFFICES ASSUME NEW i \in 1 .. NCover, \A j \in 1 .. i - 1 : Full(f, j) PROVE Off(i) = 0
    BY <1>6 DEF InPlace
  <2>1. i = 1
    BY <1>1, <1>6
  <2> QED BY <2>1, OffFacts
<1>8. Within(f, 0)
  BY OffFacts DEF Within
<1> QED BY <1>2, <1>3, <1>4, <1>5, <1>7, <1>8 DEF Cover, CoverOrder

-----------------------------------------------------------------------------
(* The prefix a cover engine counts *)

\* The slot that ends the prefix.
LEMMA FirstEndFacts ==
  ASSUME FrameReadsAssumption
  PROVE  /\ FirstEnd \in 1 .. NCover + 1
         /\ FirstEnd <= NCover => ~Whole(FirstEnd)
         /\ \A j \in 1 .. FirstEnd - 1 : Whole(j)
<1> DEFINE T == {i \in 1 .. NCover + 1 : i <= NCover => ~Whole(i)}
<1>1. NCover \in Nat
  BY OffFacts
<1>2. T \in SUBSET Nat /\ NCover + 1 \in T
  BY <1>1
<1>3. PICK x \in T : \A y \in T : x <= y
  <2>1. T # {}
    BY <1>2
  <2> HIDE DEF T
  <2> QED BY <1>2, <2>1, LeastNat
<1>4. x \in 1 .. NCover + 1 /\ (x <= NCover => ~Whole(x))
  BY <1>3
<1>5. \A j \in 1 .. x - 1 : Whole(j)
  <2> SUFFICES ASSUME NEW j \in 1 .. x - 1, ~Whole(j) PROVE FALSE
    OBVIOUS
  <2>1. j \in 1 .. NCover + 1 /\ j < x /\ j \in Nat /\ x \in Nat
    BY <1>1, <1>4
  <2>2. j \in T
    BY <2>1
  <2>3. x <= j
    BY <1>3, <2>2
  <2> QED BY <2>1, <2>3
<1> HIDE DEF T
<1>6. \E i \in 1 .. NCover + 1 : (i <= NCover => ~Whole(i)) /\ \A j \in 1 .. i - 1 : Whole(j)
  BY <1>4, <1>5
<1> QED BY <1>6 DEF FirstEnd

\* A slot whose predecessors came in whole holds the bytes of its place.
LEMMA AtPlace ==
  ASSUME FrameReadsAssumption, NEW f, NEW ff, NEW rd, NEW n, NEW s,
         Kernel(f, ff, rd, s), Cover(f, ff, rd, n, s), NEW i \in 1 .. NCover,
         \A j \in 1 .. i - 1 : Full(f, j), In(f, i), f[i].n # 0
  PROVE  f[i].from = Off(i)
<1>1. i \in Slots
  BY OffAt
<1>2. f[i] \in SlotType /\ SlotHolds(f[i])
  BY <1>1 DEF Kernel
<1>3. f[i].req # 0
  BY <1>2, SlotFields DEF SlotHolds
<1> QED BY <1>3 DEF Cover, InPlace

\* No slot brought more than its part of the frame.
LEMMA AtMost ==
  ASSUME FrameReadsAssumption, NEW f, NEW ff, NEW rd, NEW n, NEW s,
         Kernel(f, ff, rd, s), Cover(f, ff, rd, n, s), NEW i \in 1 .. NCover
  PROVE  f[i].n \in Nat /\ f[i].n <= Req(i)
<1>1. i \in Slots /\ Req(i) \in Nat
  BY OffAt
<1>2. f[i] \in SlotType /\ SlotHolds(f[i])
  BY <1>1 DEF Kernel
<1>3. f[i].n \in Nat /\ f[i].req \in Nat /\ f[i].n <= f[i].req
  BY <1>2, SlotFields DEF SlotHolds
<1>4. CASE i >= n
  <2>1. f[i].own = "none"
    BY <1>1, <1>4, OrderAt DEF Cover
  <2> QED BY <1>1, <1>2, <2>1 DEF SlotHolds
<1>5. CASE i < n
  <2>1. f[i].req = Req(i) \/ f[i] = Rejected
    BY <1>1, <1>5, OrderAt DEF Cover
  <2> QED BY <1>1, <1>3, <2>1 DEF Rejected
<1>6. i < n \/ i >= n
  BY <1>1, OrderAt DEF Cover
<1> QED BY <1>4, <1>5, <1>6

\* The bytes up to the end of slot i, once all before it are reaped whole.
LEMMA SolidUpTo ==
  ASSUME FrameReadsAssumption, NEW f, NEW ff, NEW rd, NEW n, NEW s,
         Kernel(f, ff, rd, s), Cover(f, ff, rd, n, s), NEW i \in 1 .. NCover + 1,
         \A j \in 1 .. i - 1 : f[j].own = "reaped" /\ f[j].n = Req(j),
         NEW k, i > NCover => k = FrameLen,
         i <= NCover => k = Off(i) \/ (f[i].own = "reaped" /\ k = Off(i) + f[i].n)
  PROVE  Solid(f, k)
<1>1. NCover \in Nat /\ i \in Nat /\ FrameLen \in Nat
  BY OffFacts
<1>2. \A j \in 1 .. i - 1 : Full(f, j)
  BY DEF Full, In
<1>3. ASSUME NEW j \in 1 .. NCover, j < i
      PROVE  f[j].own = "reaped" /\ f[j].from = Off(j) /\ f[j].n = Req(j)
  <2>1. j \in 1 .. i - 1 /\ \A l \in 1 .. j - 1 : l \in 1 .. i - 1
    BY <1>1, <1>3
  <2>2. f[j].own = "reaped" /\ f[j].n = Req(j) /\ In(f, j) /\ f[j].n # 0
    BY <2>1, OffAt DEF In
  <2>3. \A l \in 1 .. j - 1 : Full(f, l)
    BY <1>2, <2>1
  <2> QED BY <2>2, <2>3, AtPlace
<1>4. CASE i > NCover
  <2>1. \A j \in 1 .. NCover : j < i
    BY <1>1, <1>4
  <2> QED BY <1>1, <1>3, <1>4, <2>1 DEF Solid
<1>5. CASE i <= NCover
  <2>1. i \in 1 .. NCover
    BY <1>1, <1>5
  <2>2. f[i].n \in Nat /\ f[i].n <= Req(i)
    BY <2>1, AtMost
  <2>3. Off(i) \in Nat /\ Req(i) \in Nat /\ Off(i) + Req(i) <= FrameLen
    BY <2>1, OffAt
  <2>4. k \in 0 .. FrameLen /\ k <= Off(i) + Req(i) /\ k \in Nat
    BY <1>1, <1>5, <2>2, <2>3
  <2>5. ASSUME NEW j \in 1 .. NCover, Off(j) < k
        PROVE  /\ f[j].own = "reaped" /\ f[j].from = Off(j)
               /\ f[j].n >= k - Off(j) \/ f[j].n = Req(j)
    <3>1. CASE j < i
      BY <1>3, <3>1
    <3>2. CASE j = i
      <4>1. f[i].own = "reaped" /\ k = Off(i) + f[i].n /\ f[i].n # 0
        BY <1>5, <2>2, <2>3, <2>5, <3>2
      <4>2. f[i].from = Off(i)
        BY <1>2, <2>1, <4>1, AtPlace DEF In
      <4> QED BY <2>2, <2>3, <3>2, <4>1, <4>2
    <3>3. CASE j > i
      <4>1. i # NCover /\ i + 1 \in Int /\ j \in Int /\ i + 1 <= j
        BY <1>1, <2>1, <3>3
      <4>2. Off(i) + Req(i) = Off(i + 1) /\ Off(i + 1) <= Off(j) /\ Off(j) \in Int
        BY <2>1, <4>1, OffAt, OffOrder
      <4> QED BY <2>3, <2>4, <2>5, <4>2
    <3> QED BY <1>1, <3>1, <3>2, <3>3
  <2> QED BY <2>4, <2>5 DEF Solid
<1> QED BY <1>1, <1>4, <1>5

\* What is counted is there.
LEMMA PrefixSolid ==
  ASSUME FrameReadsAssumption, Kernel(slots, fifo, ready, sent), Cover(slots, fifo, ready, nxt, sent)
  PROVE  Solid(slots, Prefix) /\ Prefix \in 0 .. FrameLen
<1> DEFINE i == FirstEnd
<1>1. /\ i \in 1 .. NCover + 1
      /\ \A j \in 1 .. i - 1 : slots[j].own = "reaped" /\ slots[j].n = Req(j)
  BY FirstEndFacts DEF Whole
<1>2. i > NCover => Prefix = FrameLen
  BY DEF Prefix
<1>3. i <= NCover => Prefix = Off(i) \/ (slots[i].own = "reaped" /\ Prefix = Off(i) + slots[i].n)
  <2> SUFFICES ASSUME i <= NCover
               PROVE  Prefix = Off(i) \/ (slots[i].own = "reaped" /\ Prefix = Off(i) + slots[i].n)
    OBVIOUS
  <2>1. NCover \in Nat /\ ~(i > NCover) /\ Off(i) \in Int
    BY <1>1, OffFacts
  <2>2. CASE slots[i].own = "reaped" /\ (slots[i].st = "ok" \/ engine = "urbpreq")
    BY <2>1, <2>2 DEF Prefix, Off
  <2>3. CASE ~(slots[i].own = "reaped" /\ (slots[i].st = "ok" \/ engine = "urbpreq"))
    <3>1. Prefix = (i - 1) * Chunk + 0
      BY <2>1, <2>3 DEF Prefix
    <3> QED BY <2>1, <3>1 DEF Off
  <2> QED BY <2>2, <2>3
<1> HIDE DEF i
<1>4. Solid(slots, Prefix)
  BY <1>1, <1>2, <1>3, SolidUpTo
<1> QED BY <1>4 DEF Solid

\* When every slot is whole the prefix is the frame.
LEMMA PrefixWhole ==
  ASSUME FrameReadsAssumption, \A i \in 1 .. NCover : Whole(i)
  PROVE  FirstEnd > NCover /\ Prefix = FrameLen
<1>1. NCover \in Nat /\ FirstEnd \in 1 .. NCover + 1 /\ (FirstEnd <= NCover => ~Whole(FirstEnd))
  BY OffFacts, FirstEndFacts
<1>2. FirstEnd > NCover
  BY <1>1
<1> QED BY <1>2 DEF Prefix

\* And when it is the frame, every slot is whole.
LEMMA PrefixEnds ==
  ASSUME FrameReadsAssumption, FirstEnd > NCover
  PROVE  \A i \in 1 .. NCover : Whole(i)
BY OffFacts, FirstEndFacts

\* Reaped slots keep what they hold, and so the frame what is in it.
LEMMA SolidKeeps ==
  ASSUME NEW f, NEW g, NEW k, Solid(f, k),
         \A i \in 1 .. NCover : f[i].own = "reaped" =>
           g[i].own = "reaped" /\ g[i].from = f[i].from /\ g[i].n = f[i].n
  PROVE  Solid(g, k)
BY DEF Solid

\* While nothing excuses a short frame, a slot that is in is good, and with all
\* slots submitted and the queues empty the frame is there.
LEMMA InIsGood ==
  ASSUME FrameReadsAssumption, Kernel(slots, fifo, ready, sent), Cover(slots, fifo, ready, nxt, sent),
         engine \in CoverEngines, Excuses, ~excused
  PROVE  /\ \A i \in 1 .. NCover : slots[i].own # "none" => slots[i].st = "ok"
         /\ \A i \in 1 .. NCover : In(slots, i) => slots[i].st = "ok" /\ slots[i].n = Req(i)
         /\ ~FrameEnded /\ ~ScanEnded
         /\ ~Pending /\ nxt = NCover + 1 => \A i \in 1 .. NCover : Whole(i)
<1>1. \A i \in 1 .. NCover : i \in Slots
  BY OffAt
<1>2. /\ \A i \in Slots : slots[i].st = "ok"
      /\ \A i \in 1 .. nxt - 1 : In(slots, i) => slots[i].n = Req(i)
  BY DEF Excuses
<1>3. ASSUME NEW i \in 1 .. NCover, In(slots, i) PROVE slots[i].st = "ok" /\ slots[i].n = Req(i)
  <2>1. i \in Slots /\ slots[i].own # "none"
    BY <1>1, <1>3 DEF In
  <2>2. i \in 1 .. nxt - 1
    <3>1. ~(i >= nxt)
      BY <2>1, OrderAt DEF Cover
    <3> QED BY <2>1, <3>1, OrderAt DEF Cover
  <2> QED BY <1>2, <1>3, <2>1, <2>2
<1>4. ~FrameEnded
  <2> SUFFICES ASSUME FrameEnded PROVE FALSE
    OBVIOUS
  <2>1. FirstEnd \in 1 .. NCover /\ slots[FirstEnd].own = "reaped" /\ ~Whole(FirstEnd)
    BY FirstEndFacts, OffFacts DEF FrameEnded
  <2> QED BY <1>3, <2>1 DEF Whole, In
<1>5. ~ScanEnded
  <2> SUFFICES ASSUME NEW i \in 1 .. NCover, \A j \in 1 .. i : Done(j), slots[i].st # "ok" \/ slots[i].n < Req(i)
               PROVE  FALSE
    BY DEF ScanEnded
  <2>1. Done(i)
    BY OffAt
  <2>2. slots[i].st = "ok" /\ slots[i].n = Req(i)
    BY <1>3, <2>1 DEF Done, In
  <2> QED BY <2>2, OffAt
<1>6. ASSUME ~Pending, nxt = NCover + 1, NEW i \in 1 .. NCover PROVE Whole(i)
  <2>1. i \in Slots /\ i < nxt
    <3>1. i \in Nat /\ i <= NCover /\ i \in Slots /\ NCover \in Nat
      BY OffAt, OffFacts
    <3> QED BY <1>6, <3>1
  <2>2. slots[i].own # "none"
    <3>1. slots[i].own = "none" => i >= nxt
      BY <2>1, OrderAt DEF Cover
    <3>2. ~(i >= nxt)
      BY <1>6, <2>1, OffAt, OffFacts
    <3> QED BY <3>1, <3>2
  <2>3. slots[i].own # "kernel" /\ slots[i].own # "complete"
    <3>1. Len(fifo) = 0 /\ Len(ready) = 0
      BY <1>6, EmptySeq DEF Pending
    <3> QED BY <2>1, <3>1 DEF Kernel, Queued
  <2>4. slots[i].own \in {"none", "kernel", "complete", "reaped"}
    BY <2>1, SlotFields DEF Kernel
  <2>5. slots[i].own = "reaped"
    BY <2>2, <2>3, <2>4
  <2> QED BY <1>3, <2>5 DEF Whole, In
<1> QED BY <1>1, <1>2, <1>3, <1>4, <1>5, <1>6
-----------------------------------------------------------------------------
(* Putting the invariant together after a step *)

\* The length of the window.
LEMMA LenSlots ==
  ASSUME FrameReadsAssumption, NEW f \in [Slots -> SlotType]
  PROVE  /\ Len(f) = SlotCount /\ SlotCount \in Nat /\ SlotCount # 0
         /\ NCover <= Len(f) /\ Window <= Len(f) /\ NCover \in Nat /\ Window \in Nat
<1>1. SlotCount \in Nat /\ SlotCount # 0 /\ Slots = 1 .. SlotCount /\ NCover <= SlotCount /\ Window <= SlotCount
  BY SlotsFacts
<1>2. f \in Seq(SlotType) /\ DOMAIN f = 1 .. SlotCount
  BY <1>1
<1>3. Len(f) = SlotCount
  BY <1>1, <1>2
<1> QED BY <1>1, <1>3, OffFacts, SlotsFacts

\* The types of the next state, of which the transfers' are in Kernel.
LEMMA TypeFrom ==
  ASSUME FrameReadsAssumption, Kernel(slots', fifo', ready', sent'),
         engine' \in AllEngines,
         nxt' \in Nat, nxt' >= 1, nxt' <= SlotCount + 1, cur' \in 1 .. nxt',
         buf' \in Seq(0 .. MaxSent), Len(buf') <= (IF engine' = "pump" THEN Ask ELSE FrameLen),
         got' \in 0 .. FrameLen, outstanding' \in 0 .. Ask,
         pc' \in {"prime", "loop", "reap", "drain", "done"}, ret' \in {"ok", "error", "broken"}, out' \in 0 .. FrameLen,
         late' \in BOOLEAN, latch' \in BOOLEAN, broken' \in BOOLEAN,
         refused' \in 0 .. MaxRefused, excused' \in BOOLEAN, after' \in Nat
  PROVE  TypeOK'
<1>1. slots' \in [Slots -> SlotType] /\ fifo' \in Seq(Slots) /\ ready' \in Seq(Slots) /\ sent' \in 0 .. MaxSent
  BY DEF Kernel, Queued
<1>2. nxt' \in 1 .. Len(slots') + 1
  BY <1>1, LenSlots, SMTT(30)
<1> QED BY <1>1, <1>2 DEF TypeOK

\* What a cover engine leaves to show.
LEMMA CoverFrom ==
  ASSUME engine' \in CoverEngines, Priming', Waiting', TypeOK', Kernel(slots', fifo', ready', sent'),
         Cover(slots', fifo', ready', nxt', sent'),
         Excuses', Fed', BatchHolds', WinHolds', OutHolds', ShortHolds'
  PROVE  ReadsInv'
<1>1. engine' \notin MarkEngines /\ engine' # "pump"
  BY DEF CoverEngines, MarkEngines
<1>2. PumpHolds'
  BY <1>1 DEF PumpHolds
<1> QED BY <1>1, <1>2 DEF ReadsInv

\* What a mark engine does.
LEMMA MarkFrom ==
  ASSUME engine' \in MarkEngines, Priming', Waiting', TypeOK', Kernel(slots', fifo', ready', sent'),
         MarkHolds', PumpHolds',
         Excuses', Fed', OutHolds', ShortHolds'
  PROVE  ReadsInv'
<1>1. engine' \notin CoverEngines /\ engine' \notin {"async", "preq"} /\ engine' # "winbatch"
  BY DEF CoverEngines, MarkEngines
<1>2. WinHolds' /\ BatchHolds'
  BY <1>1 DEF WinHolds, BatchHolds
<1> QED BY <1>1, <1>2 DEF ReadsInv

\* Nothing is submitted, nothing is back.
LEMMA StartHolds ==
  ASSUME FrameReadsAssumption
  PROVE  Kernel([i \in Slots |-> Unused], <<>>, <<>>, 0) /\ Cover([i \in Slots |-> Unused], <<>>, <<>>, 1, 0)
<1> DEFINE f == [i \in Slots |-> Unused]
<1>1. Unused \in SlotType /\ Unused.own = "none" /\ SlotHolds(Unused)
  BY DEF Unused, SlotType, SlotHolds, FrameReadsAssumption
<1>2. f \in [Slots -> SlotType] /\ \A i \in Slots : f[i] = Unused
  BY <1>1
<1> HIDE DEF f
<1>3. Len(<<>>) = 0 /\ <<>> \in Seq(Slots)
  BY EmptySeq
<1>4. Queued(f, <<>>, "kernel")
  BY <1>1, <1>2, <1>3 DEF Queued
<1>5. Kernel(f, <<>>, <<>>, 0)
  BY <1>1, <1>2, <1>4, KernelStart
<1>6. Ascends(<<>>) /\ 1 \in 1 .. NCover + 1
  BY <1>3, OffFacts DEF Ascends
<1>7. \A i \in Slots : ~(i < 1)
  BY SlotNat
<1>8. Cover(f, <<>>, <<>>, 1, 0)
  BY <1>2, <1>6, <1>7, CoverStart
<1> QED BY <1>5, <1>8 DEF f

\* The window of an engine is one of the slots, and a cover engine's one of the frame.
LEMMA PrimesFacts ==
  ASSUME FrameReadsAssumption
  PROVE  /\ Primes \in Nat /\ 1 <= Primes /\ Primes <= SlotCount
         /\ engine \in CoverEngines => Primes <= NCover
         /\ engine \in {"urbs", "urbpreq", "winbatch"} => Primes = Lesser(Window, NCover)
         /\ engine \in {"async", "preq"} => Primes = NCover
         /\ engine = "urbstream" => Primes = Window
         /\ engine = "pump" => Primes = NPump
<1>1. /\ NCover \in Nat /\ NCover >= 1 /\ Window \in Nat /\ Window >= 1
      /\ NCover <= SlotCount /\ Window <= SlotCount /\ SlotCount \in Nat
  <2>1. NCover \in Nat \ {0} /\ Window \in Nat \ {0} /\ SlotCount \in Nat \ {0}
    BY SlotNat, SlotsFacts
  <2>2. NCover <= SlotCount /\ Window <= SlotCount
    BY SlotsFacts
  <2> QED BY <2>1, <2>2
<1>2. NPump \in Nat /\ NPump >= 1 /\ NPump <= Window
  <2>1. Chunk \in Nat /\ Chunk # 0 /\ FrameLen \in Nat /\ FrameLen # 0 /\ Pad \in Nat
    BY DEF FrameReadsAssumption
  <2>2. Ask \in Nat /\ Ask # 0
    BY <2>1 DEF Ask
  <2> DEFINE m == (Ask + Chunk - 1) \div Chunk
  <2>3. m \in Nat /\ Ask + Chunk - 1 < m * Chunk + Chunk
    BY <2>1, <2>2
  <2>4. m # 0
    BY <2>1, <2>2, <2>3
  <2>5. NPump = Lesser(Window, m)
    BY DEF NPump
  <2> HIDE DEF m
  <2> QED BY <1>1, <2>3, <2>4, <2>5 DEF Lesser
<1>3. Lesser(Window, NCover) \in Nat /\ Lesser(Window, NCover) >= 1 /\ Lesser(Window, NCover) <= NCover
  BY <1>1 DEF Lesser
<1> QED BY <1>1, <1>2, <1>3 DEF Primes, CoverEngines

\* A new read satisfies the invariant.
LEMMA InitReads ==
  ASSUME FrameReadsAssumption, Init
  PROVE  ReadsInv
<1>1. Kernel(slots, fifo, ready, sent) /\ Cover(slots, fifo, ready, nxt, sent)
  BY StartHolds DEF Init
<1>2. /\ engine \in AllEngines /\ FrameLen \in Nat /\ Ask \in Nat /\ MaxRefused \in Nat
  BY DEF Init, FrameReadsAssumption, Ask
<1>3. TypeOK
  <2>1. slots \in [Slots -> SlotType] /\ fifo \in Seq(Slots) /\ ready \in Seq(Slots) /\ sent \in 0 .. MaxSent
    BY <1>1 DEF Kernel, Queued
  <2>2. nxt \in 1 .. Len(slots) + 1 /\ cur \in 1 .. nxt
    BY <2>1, LenSlots DEF Init
  <2>3. buf \in Seq(0 .. MaxSent) /\ Len(buf) = 0
    BY EmptySeq DEF Init
  <2>4. Len(buf) <= (IF engine = "pump" THEN Ask ELSE FrameLen)
    BY <1>2, <2>3
  <2>5. got \in 0 .. FrameLen /\ outstanding \in 0 .. Ask /\ out \in 0 .. FrameLen /\ refused \in 0 .. MaxRefused
    BY <1>2 DEF Init
  <2>6. /\ pc \in {"prime", "loop", "reap", "drain", "done"} /\ ret \in {"ok", "error", "broken"}
        /\ late \in BOOLEAN /\ latch \in BOOLEAN /\ broken \in BOOLEAN /\ excused \in BOOLEAN /\ after \in Nat
    BY DEF Init
  <2> QED BY <1>2, <2>1, <2>2, <2>3, <2>4, <2>5, <2>6 DEF TypeOK
<1>4. Excuses
  <2>1. \A i \in Slots : slots[i].st = "ok"
    BY DEF Init, Unused
  <2>2. nxt - 1 = 0
    BY DEF Init
  <2> QED BY <2>1, <2>2 DEF Excuses
<1>5. Fed /\ BatchHolds /\ OutHolds /\ ShortHolds
  BY DEF Init, Fed, BatchHolds, OutHolds, ShortHolds, Looping
<1>6. WinHolds
  <2>1. got = Off(1) /\ 1 <= NCover /\ cur = 1 /\ nxt = 1
    BY OffFacts DEF Init
  <2> QED BY <2>1 DEF WinHolds
<1>7. MarkHolds
  <2>1. Len(buf) = 0 /\ Len(ready) = 0 /\ buf = <<>>
    BY EmptySeq DEF Init
  <2>2. Pos(slots, ready, sent, 1) = 0
    BY <2>1 DEF Pos, Init
  <2> QED BY <2>1, <2>2 DEF MarkHolds, Init
<1>8. PumpHolds
  <2>1. Len(ready) = 0 /\ Len(fifo) = 0 /\ sent = 0 /\ Len(buf) = 0 /\ outstanding = 0 /\ Ask \in Nat
    BY <1>2, EmptySeq DEF Init
  <2> DEFINE r == [k \in 1 .. Len(ready) + Len(fifo) + 1 |-> 0]
  <2>2. r \in [1 .. Len(ready) + Len(fifo) + 1 -> Nat] /\ r[1] = 0
    BY <2>1
  <2>3. Pos(slots, ready, sent, 1) = 0
    BY <2>1 DEF Pos
  <2>4. \A k \in 1 .. Len(ready) + 1 : k = 1
    BY <2>1
  <2> HIDE DEF r
  <2>5. Budget(slots, fifo, ready, sent, r)
    BY <2>1, <2>2, <2>3, <2>4 DEF Budget
  <2> QED BY <2>1, <2>2, <2>3, <2>5 DEF PumpHolds
<1>9. Priming /\ Waiting
  <2>1. Off(1) = 0 /\ nxt <= Primes
    BY OffFacts, PrimesFacts DEF Init
  <2> QED BY <2>1 DEF Init, Priming, Waiting, Unused
<1> QED BY <1>1, <1>3, <1>4, <1>5, <1>6, <1>7, <1>8, <1>9 DEF ReadsInv

-----------------------------------------------------------------------------
(* What the pump has asked for *)

\* What a completion adds to the device's position it takes from what is asked.
LEMMA Slack ==
  ASSUME NEW s \in Int, NEW n \in Int, NEW p \in Int, NEW a \in Int, NEW b \in Int, NEW c \in Int, NEW q \in Int,
         s - p <= a - b, b = c + q, n <= q
  PROVE  (s + n) - p <= a - c
OBVIOUS

\* A completion gives back no more than its transfer asked for.
LEMMA BudgetComplete ==
  ASSUME FrameReadsAssumption, NEW f, NEW ff, NEW rd, NEW s, Kernel(f, ff, rd, s), ff # <<>>,
         NEW n \in 0 .. f[Head(ff)].req, s + n <= MaxSent, NEW t \in {"ok", "soft", "hard"},
         NEW r, Budget(f, ff, rd, s, r)
  PROVE  Budget(AsComplete(f, Head(ff), s, n, t), Tail(ff), Append(rd, Head(ff)), s + n, r)
<1> DEFINE h == Head(ff)
           g == AsComplete(f, h, s, n, t)
<1>1. f \in [Slots -> SlotType] /\ rd \in Seq(Slots) /\ ff \in Seq(Slots) /\ s \in 0 .. MaxSent
  BY DEF Kernel, Queued
<1>2. h \in Slots /\ h = ff[1] /\ 1 \in 1 .. Len(ff)
  BY <1>1, TailOf
<1>3. f[h].req \in Nat /\ n \in Nat /\ n <= f[h].req /\ s \in Nat /\ Ask \in Nat
  <2>1. f[h] \in SlotType
    BY <1>1, <1>2
  <2>2. f[h].req \in Nat
    BY <2>1, SlotFields
  <2> QED BY <1>1, <2>2 DEF FrameReadsAssumption, Ask
<1>4. \A i \in Slots : g[i].req = f[i].req
  <2>1. /\ g[h] = [own |-> "complete", req |-> f[h].req, from |-> s, n |-> n, st |-> t]
        /\ \A j \in Slots \ {h} : g[j] = f[j]
    BY <1>1, <1>2, <1>3, CompleteSlots
  <2> QED BY <2>1
<1>5. /\ Len(Append(rd, h)) = Len(rd) + 1 /\ Append(rd, h)[Len(rd) + 1] = h /\ Len(rd) \in Nat
      /\ \A k \in 1 .. Len(rd) : Append(rd, h)[k] = rd[k] /\ rd[k] \in Slots
  <2>1. \A k \in 1 .. Len(rd) : rd[k] \in Slots
    BY <1>1, ElementOfSeq
  <2> QED BY <1>1, <1>2, <2>1, AppendOf
<1>6. /\ Len(Tail(ff)) = Len(ff) - 1 /\ Len(ff) \in Nat /\ Len(ff) # 0
      /\ \A k \in 1 .. Len(Tail(ff)) : Tail(ff)[k] = ff[k + 1] /\ ff[k + 1] \in Slots
  <2>1. Len(Tail(ff)) = Len(ff) - 1 /\ Len(ff) \in Nat /\ Len(ff) # 0
        /\ \A k \in 1 .. Len(Tail(ff)) : Tail(ff)[k] = ff[k + 1]
    BY <1>1, TailOf
  <2>2. \A k \in 1 .. Len(ff) : ff[k] \in Slots
    BY <1>1, ElementOfSeq
  <2>3. \A k \in 1 .. Len(Tail(ff)) : k + 1 \in 1 .. Len(ff)
    BY <2>1
  <2> QED BY <2>1, <2>2, <2>3
<1>7. \A k \in 1 .. Len(rd) + 1 : Pos(g, Append(rd, h), s + n, k) = Pos(f, rd, s, k)
  BY KernelComplete
<1>8. Pos(g, Append(rd, h), s + n, Len(rd) + 2) = s + n
  BY <1>5 DEF Pos
<1>9. \A k \in 1 .. Len(rd) : Pos(f, rd, s, k) \in Nat
  BY <1>1, <1>3, <1>5, SlotFields DEF Pos
<1>10. Pos(f, rd, s, Len(rd) + 1) = s
  BY <1>5 DEF Pos
<1> HIDE DEF h, g
<1>11. /\ r \in [1 .. Len(rd) + Len(ff) + 1 -> Nat] /\ r[Len(rd) + Len(ff) + 1] = 0
       /\ \A k \in 1 .. Len(rd) : r[k] = r[k + 1] + f[rd[k]].req
       /\ \A k \in 1 .. Len(ff) : r[Len(rd) + k] = r[Len(rd) + k + 1] + f[ff[k]].req
       /\ s + r[Len(rd) + 1] <= Ask
       /\ \A k \in 1 .. Len(rd) + 1 : s - Pos(f, rd, s, k) <= r[k] - r[Len(rd) + 1]
  BY DEF Budget
<1> DEFINE L == Len(rd)
           M == Len(ff)
<1>12. Len(Append(rd, h)) + Len(Tail(ff)) + 1 = L + M + 1 /\ L \in Nat /\ M \in Nat /\ M # 0
  BY <1>5, <1>6
<1>13. r[L + 1] = r[L + 2] + f[h].req /\ r[L + 1] \in Nat /\ r[L + 2] \in Nat
  <2>1. r[L + 1] = r[L + 1 + 1] + f[h].req
    BY <1>2, <1>11
  <2>2. L + 1 + 1 = L + 2 /\ L + 1 \in 1 .. L + M + 1 /\ L + 2 \in 1 .. L + M + 1
    BY <1>12
  <2> QED BY <1>11, <2>1, <2>2
<1>14. \A k \in 1 .. L + 1 : r[k] \in Nat
  BY <1>11, <1>12, SMTT(30)
<1>15. r \in [1 .. Len(Append(rd, h)) + Len(Tail(ff)) + 1 -> Nat] /\ r[Len(Append(rd, h)) + Len(Tail(ff)) + 1] = 0
  BY <1>11, <1>12
<1>16. \A k \in 1 .. Len(Append(rd, h)) : r[k] = r[k + 1] + g[Append(rd, h)[k]].req
  <2> SUFFICES ASSUME NEW k \in 1 .. L + 1 PROVE r[k] = r[k + 1] + g[Append(rd, h)[k]].req
    BY <1>5
  <2>1. CASE k = L + 1
    <3>1. g[Append(rd, h)[k]].req = f[h].req
      BY <1>2, <1>4, <1>5, <2>1
    <3>2. k + 1 = L + 2
      BY <1>12, <2>1
    <3> QED BY <1>13, <2>1, <3>1, <3>2
  <2>2. CASE k \in 1 .. L
    <3>1. g[Append(rd, h)[k]].req = f[rd[k]].req
      BY <1>4, <1>5, <2>2
    <3> QED BY <1>11, <2>2, <3>1
  <2> QED BY <1>12, <2>1, <2>2
<1>17. \A k \in 1 .. Len(Tail(ff)) : r[Len(Append(rd, h)) + k] = r[Len(Append(rd, h)) + k + 1] + g[Tail(ff)[k]].req
  <2> SUFFICES ASSUME NEW k \in 1 .. Len(Tail(ff))
               PROVE  r[L + 1 + k] = r[L + 1 + k + 1] + g[Tail(ff)[k]].req
    BY <1>5
  <2>1. k + 1 \in 1 .. M /\ L + (k + 1) = L + 1 + k /\ L + (k + 1) + 1 = L + 1 + k + 1
    BY <1>6, <1>12
  <2>2. r[L + (k + 1)] = r[L + (k + 1) + 1] + f[ff[k + 1]].req
    BY <1>11, <2>1
  <2>3. g[Tail(ff)[k]].req = f[ff[k + 1]].req
    BY <1>4, <1>6
  <2> QED BY <2>1, <2>2, <2>3
<1>18. s + n + r[Len(Append(rd, h)) + 1] <= Ask
  <2>1. r[Len(Append(rd, h)) + 1] = r[L + 2]
    BY <1>5, <1>12
  <2>2. f[h].req \in Nat /\ n \in Nat /\ n <= f[h].req
    BY <1>3 DEF h
  <2> QED BY <1>3, <1>11, <1>13, <2>1, <2>2, SMTT(30)
<1>19. \A k \in 1 .. Len(Append(rd, h)) + 1 :
         (s + n) - Pos(g, Append(rd, h), s + n, k) <= r[k] - r[Len(Append(rd, h)) + 1]
  <2>1. Len(Append(rd, h)) + 1 = L + 2
    BY <1>5, <1>12
  <2> SUFFICES ASSUME NEW k \in 1 .. L + 2 PROVE (s + n) - Pos(g, Append(rd, h), s + n, k) <= r[k] - r[L + 2]
    BY <2>1
  <2>2. CASE k = L + 2
    BY <1>3, <1>8, <1>13, <2>2
  <2>3. CASE k \in 1 .. L + 1
    <3>1. Pos(g, Append(rd, h), s + n, k) = Pos(f, rd, s, k) /\ Pos(f, rd, s, k) \in Int
      <4>1. k = L + 1 \/ k \in 1 .. L
        BY <1>12, <2>3
      <4> QED BY <1>3, <1>7, <1>9, <1>10, <2>3, <4>1
    <3>2. s - Pos(f, rd, s, k) <= r[k] - r[L + 1]
      BY <1>11, <2>3
    <3>3. f[h].req \in Nat /\ n \in Nat /\ n <= f[h].req /\ r[k] \in Nat
      BY <1>3, <1>14, <2>3 DEF h
    <3>4. (s + n) - Pos(f, rd, s, k) <= r[k] - r[L + 2]
      <4>1. s \in Int /\ n \in Int /\ r[k] \in Int /\ r[L + 1] \in Int /\ r[L + 2] \in Int /\ f[h].req \in Int
        BY <1>3, <1>13, <3>3
      <4> QED BY <1>13, <3>1, <3>2, <3>3, <4>1, Slack, ZenonT(60)
    <3> QED BY <3>1, <3>4
  <2>4. k = L + 2 \/ k \in 1 .. L + 1
    <3>1. k \in 1 .. L + 2 /\ L \in Nat
      BY <1>12
    <3> HIDE DEF L
    <3> QED BY <3>1
  <2> QED BY <2>2, <2>3, <2>4
<1> QED BY <1>15, <1>16, <1>17, <1>18, <1>19 DEF Budget, g, h

\* Reaping one leaves what those behind it asked for.
LEMMA BudgetReap ==
  ASSUME FrameReadsAssumption, NEW f, NEW ff, NEW rd, NEW s, Kernel(f, ff, rd, s), rd # <<>>,
         NEW r, Budget(f, ff, rd, s, r)
  PROVE  \E q \in [1 .. Len(Tail(rd)) + Len(ff) + 1 -> Nat] :
           /\ Budget(AsReaped(f, Head(rd)), ff, Tail(rd), s, q)
           /\ r[1] \in Nat /\ f[Head(rd)].req \in Nat /\ r[1] = q[1] + f[Head(rd)].req
<1> DEFINE h == Head(rd)
           g == AsReaped(f, h)
<1>1. f \in [Slots -> SlotType] /\ rd \in Seq(Slots) /\ ff \in Seq(Slots) /\ s \in 0 .. MaxSent
  BY DEF Kernel, Queued
<1>2. h \in Slots /\ h = rd[1] /\ 1 \in 1 .. Len(rd)
  BY <1>1, TailOf
<1>3. \A i \in Slots : g[i].req = f[i].req /\ g[i].from = f[i].from
  BY <1>1, <1>2, ReapedSlots
<1>4. f[h].req \in Nat
  <2>1. f[h] \in SlotType
    BY <1>1, <1>2
  <2> QED BY <2>1, SlotFields
<1> HIDE DEF h, g
<1> DEFINE L == Len(rd)
           M == Len(ff)
           q == [k \in 1 .. Len(Tail(rd)) + Len(ff) + 1 |-> r[k + 1]]
<1>5. Len(Tail(rd)) = L - 1 /\ L \in Nat /\ L # 0 /\ M \in Nat
      /\ \A k \in 1 .. Len(Tail(rd)) : Tail(rd)[k] = rd[k + 1]
  BY <1>1, TailOf, LenProperties
<1>6. \A k \in 1 .. Len(Tail(rd)) : k + 1 \in 1 .. L /\ rd[k + 1] \in Slots
  <2>1. \A k \in 1 .. L : rd[k] \in Slots
    BY <1>1, ElementOfSeq
  <2> QED BY <1>5, <2>1
<1>7. \A k \in 1 .. M : ff[k] \in Slots
  BY <1>1, ElementOfSeq
<1>8. /\ r \in [1 .. L + M + 1 -> Nat] /\ r[L + M + 1] = 0
      /\ \A k \in 1 .. L : r[k] = r[k + 1] + f[rd[k]].req
      /\ \A k \in 1 .. M : r[L + k] = r[L + k + 1] + f[ff[k]].req
      /\ s + r[L + 1] <= Ask
      /\ \A k \in 1 .. L + 1 : s - Pos(f, rd, s, k) <= r[k] - r[L + 1]
  BY DEF Budget
<1>9. \A k \in 1 .. L + M : k + 1 \in 1 .. L + M + 1
  BY <1>5
<1>10. Len(Tail(rd)) + M + 1 = L + M
  BY <1>5
<1>11. q \in [1 .. Len(Tail(rd)) + M + 1 -> Nat] /\ \A k \in 1 .. L + M : q[k] = r[k + 1]
  <2>1. \A k \in 1 .. L + M : r[k + 1] \in Nat
    BY <1>8, <1>9
  <2> QED BY <1>10, <2>1
<1> HIDE DEF q, L, M
<1>12. q[Len(Tail(rd)) + M + 1] = 0
  <2>1. L + M \in 1 .. L + M
    BY <1>5
  <2> QED BY <1>8, <1>10, <1>11, <2>1
<1>13. \A k \in 1 .. Len(Tail(rd)) : q[k] = q[k + 1] + g[Tail(rd)[k]].req
  <2> SUFFICES ASSUME NEW k \in 1 .. Len(Tail(rd)) PROVE q[k] = q[k + 1] + g[Tail(rd)[k]].req
    OBVIOUS
  <2>1. k \in 1 .. L + M /\ k + 1 \in 1 .. L + M /\ k + 1 \in 1 .. L
    BY <1>5
  <2>2. q[k] = r[k + 1] /\ q[k + 1] = r[(k + 1) + 1]
    BY <1>11, <2>1
  <2>3. r[k + 1] = r[(k + 1) + 1] + f[rd[k + 1]].req
    BY <1>8, <2>1
  <2>4. g[Tail(rd)[k]].req = f[rd[k + 1]].req
    BY <1>3, <1>5, <1>6
  <2> QED BY <2>2, <2>3, <2>4
<1>14. \A k \in 1 .. M : q[Len(Tail(rd)) + k] = q[Len(Tail(rd)) + k + 1] + g[ff[k]].req
  <2> SUFFICES ASSUME NEW k \in 1 .. M PROVE q[Len(Tail(rd)) + k] = q[Len(Tail(rd)) + k + 1] + g[ff[k]].req
    OBVIOUS
  <2>1. /\ Len(Tail(rd)) + k \in 1 .. L + M /\ Len(Tail(rd)) + k + 1 \in 1 .. L + M
        /\ (Len(Tail(rd)) + k) + 1 = L + k /\ (Len(Tail(rd)) + k + 1) + 1 = L + k + 1
    BY <1>5
  <2>2. q[Len(Tail(rd)) + k] = r[L + k] /\ q[Len(Tail(rd)) + k + 1] = r[L + k + 1]
    BY <1>11, <2>1
  <2>3. r[L + k] = r[L + k + 1] + f[ff[k]].req
    BY <1>8
  <2>4. g[ff[k]].req = f[ff[k]].req
    BY <1>3, <1>7
  <2> QED BY <2>2, <2>3, <2>4
<1>15. q[Len(Tail(rd)) + 1] = r[L + 1]
  <2>1. Len(Tail(rd)) + 1 = L /\ L \in 1 .. L + M
    BY <1>5
  <2> QED BY <1>11, <2>1
<1>16. \A k \in 1 .. Len(Tail(rd)) + 1 : s - Pos(g, Tail(rd), s, k) <= q[k] - q[Len(Tail(rd)) + 1]
  <2> SUFFICES ASSUME NEW k \in 1 .. Len(Tail(rd)) + 1
               PROVE  s - Pos(g, Tail(rd), s, k) <= q[k] - q[Len(Tail(rd)) + 1]
    OBVIOUS
  <2>1. k \in 1 .. L + M /\ k + 1 \in 1 .. L + 1 /\ (k <= Len(Tail(rd)) <=> k + 1 <= L)
    BY <1>5
  <2>2. Pos(g, Tail(rd), s, k) = Pos(f, rd, s, k + 1)
    <3>1. CASE k <= Len(Tail(rd))
      <4>1. k \in 1 .. Len(Tail(rd))
        BY <1>5, <3>1
      <4>2. g[Tail(rd)[k]].from = f[rd[k + 1]].from
        BY <1>3, <1>5, <1>6, <4>1
      <4> QED BY <2>1, <3>1, <4>2 DEF Pos, L
    <3>2. CASE ~(k <= Len(Tail(rd)))
      BY <2>1, <3>2 DEF Pos, L
    <3> QED BY <3>1, <3>2
  <2>3. q[k] = r[k + 1]
    BY <1>11, <2>1
  <2>4. s - Pos(f, rd, s, k + 1) <= r[k + 1] - r[L + 1]
    BY <1>8, <2>1
  <2> QED BY <1>15, <2>2, <2>3, <2>4
<1>17. Budget(g, ff, Tail(rd), s, q)
  <2>1. s + q[Len(Tail(rd)) + 1] <= Ask
    BY <1>8, <1>15
  <2> QED BY <1>11, <1>12, <1>13, <1>14, <1>16, <2>1 DEF Budget, M
<1>18. r[1] \in Nat /\ r[1] = q[1] + f[h].req
  <2>1. 1 \in 1 .. L + M /\ 1 \in 1 .. L + M + 1 /\ 1 + 1 = 2
    BY <1>5
  <2>2. q[1] = r[2] /\ r[1] \in Nat
    BY <1>8, <1>11, <2>1
  <2>3. r[1] = r[2] + f[rd[1]].req
    BY <1>2, <1>8, <2>1 DEF L
  <2> QED BY <1>2, <2>2, <2>3
<1> QED BY <1>4, <1>11, <1>17, <1>18 DEF g, h, M

\* Submitting one adds what it asks for.
LEMMA BudgetSend ==
  ASSUME FrameReadsAssumption, NEW f, NEW ff, NEW rd, NEW s, Kernel(f, ff, rd, s),
         NEW r, Budget(f, ff, rd, s, r),
         NEW j \in Slots, f[j].own \in {"none", "reaped"}, NEW a \in 0 .. Chunk, s + r[Len(rd) + 1] + a <= Ask
  PROVE  \E q \in [1 .. Len(rd) + Len(Append(ff, j)) + 1 -> Nat] :
           /\ Budget(AsSent(f, j, a), Append(ff, j), rd, s, q)
           /\ r[1] \in Nat /\ q[1] = r[1] + a
<1> DEFINE g == AsSent(f, j, a)
           L == Len(rd)
           M == Len(ff)
           q == [k \in 1 .. Len(rd) + Len(Append(ff, j)) + 1 |-> IF k <= L + M + 1 THEN r[k] + a ELSE 0]
<1>1. f \in [Slots -> SlotType] /\ rd \in Seq(Slots) /\ ff \in Seq(Slots) /\ s \in 0 .. MaxSent
  BY DEF Kernel, Queued
<1>2. a \in Nat
  BY DEF FrameReadsAssumption
<1>3. /\ g[j] = Sent(a) /\ \A i \in Slots \ {j} : g[i] = f[i]
  BY <1>1, SentSlots
<1> HIDE DEF g
<1>4. /\ Len(Append(ff, j)) = M + 1 /\ M \in Nat /\ L \in Nat /\ Append(ff, j)[M + 1] = j
      /\ \A k \in 1 .. M : Append(ff, j)[k] = ff[k]
  BY <1>1, AppendOf, LenProperties
<1>5. \A k \in 1 .. M : g[ff[k]] = f[ff[k]]
  <2>1. \A k \in 1 .. M : ff[k] \in Slots /\ ff[k] # j
    BY <1>1, ElementOfSeq DEF Kernel, Queued
  <2> QED BY <1>3, <2>1
<1>6. \A k \in 1 .. L : g[rd[k]] = f[rd[k]]
  <2>1. \A k \in 1 .. L : rd[k] \in Slots /\ rd[k] # j
    BY <1>1, ElementOfSeq DEF Kernel, Queued
  <2> QED BY <1>3, <2>1
<1>7. \A k \in 1 .. L + 1 : Pos(g, rd, s, k) = Pos(f, rd, s, k)
  BY <1>4, <1>6 DEF Pos
<1>8. /\ r \in [1 .. L + M + 1 -> Nat] /\ r[L + M + 1] = 0
      /\ \A k \in 1 .. L : r[k] = r[k + 1] + f[rd[k]].req
      /\ \A k \in 1 .. M : r[L + k] = r[L + k + 1] + f[ff[k]].req
      /\ s + r[L + 1] <= Ask
      /\ \A k \in 1 .. L + 1 : s - Pos(f, rd, s, k) <= r[k] - r[L + 1]
  BY DEF Budget
<1>9. Len(rd) + Len(Append(ff, j)) + 1 = L + M + 2
  BY <1>4
<1>10. /\ q \in [1 .. L + M + 2 -> Nat] /\ \A k \in 1 .. L + M + 1 : q[k] = r[k] + a
       /\ q[L + M + 2] = 0
  <2>1. ASSUME NEW k \in 1 .. L + M + 1 PROVE r[k] + a \in Nat /\ k \in 1 .. L + M + 2 /\ k <= L + M + 1
    <3>1. r[k] \in Nat
      BY <1>8
    <3>2. k \in 1 .. L + M + 2 /\ k <= L + M + 1
      <4>1. L \in Nat /\ M \in Nat
        BY <1>4
      <4> HIDE DEF L, M
      <4> QED BY <4>1
    <3> QED BY <1>2, <3>1, <3>2
  <2>2. L + M + 2 \in 1 .. L + M + 2 /\ ~(L + M + 2 <= L + M + 1)
    BY <1>4
  <2>3. \A k \in 1 .. L + M + 2 : k \in 1 .. L + M + 1 \/ ~(k <= L + M + 1)
    BY <1>4
  <2>4. \A k \in 1 .. L + M + 2 : (IF k <= L + M + 1 THEN r[k] + a ELSE 0) \in Nat
    BY <2>1, <2>3
  <2> QED BY <1>9, <2>1, <2>2, <2>4
<1> HIDE DEF q, L, M
<1>11. \A k \in 1 .. L : q[k] = q[k + 1] + g[rd[k]].req
  <2> SUFFICES ASSUME NEW k \in 1 .. L PROVE q[k] = q[k + 1] + g[rd[k]].req
    OBVIOUS
  <2>1. k \in 1 .. L + M + 1 /\ k + 1 \in 1 .. L + M + 1
    BY <1>4
  <2>2. q[k] = r[k] + a /\ q[k + 1] = r[k + 1] + a /\ r[k + 1] \in Nat
    BY <1>8, <1>10, <2>1
  <2>3. r[k] = r[k + 1] + f[rd[k]].req /\ g[rd[k]] = f[rd[k]] /\ r[k] \in Nat
    BY <1>6, <1>8, <2>1
  <2>4. f[rd[k]].req \in Nat
    <3>1. f[rd[k]] \in SlotType
      BY <1>1, ElementOfSeq DEF L
    <3> QED BY <3>1, SlotFields
  <2> QED BY <1>2, <2>2, <2>3, <2>4
<1>12. \A k \in 1 .. M + 1 : q[L + k] = q[L + k + 1] + g[Append(ff, j)[k]].req
  <2> SUFFICES ASSUME NEW k \in 1 .. M + 1 PROVE q[L + k] = q[L + k + 1] + g[Append(ff, j)[k]].req
    OBVIOUS
  <2>1. L + k \in 1 .. L + M + 1 /\ q[L + k] = r[L + k] + a
    BY <1>4, <1>10
  <2>2. CASE k = M + 1
    <3>1. g[Append(ff, j)[k]].req = a
      BY <1>3, <1>4, <2>2 DEF Sent
    <3>2. L + k + 1 = L + M + 2 /\ L + k = L + M + 1
      BY <1>4, <2>2
    <3> QED BY <1>2, <1>8, <1>10, <2>1, <3>1, <3>2
  <2>3. CASE k \in 1 .. M
    <3>1. L + k + 1 \in 1 .. L + M + 1 /\ q[L + k + 1] = r[L + k + 1] + a /\ r[L + k + 1] \in Nat
      <4>1. L + k + 1 \in 1 .. L + M + 1
        BY <1>4, <2>3
      <4> QED BY <1>8, <1>10, <4>1
    <3>2. r[L + k] = r[L + k + 1] + f[ff[k]].req
      BY <1>8, <2>3
    <3>3. g[Append(ff, j)[k]].req = f[ff[k]].req
      BY <1>4, <1>5, <2>3
    <3>4. f[ff[k]].req \in Nat
      <4>1. f[ff[k]] \in SlotType
        BY <1>1, <2>3, ElementOfSeq DEF M
      <4> QED BY <4>1, SlotFields
    <3> QED BY <1>2, <2>1, <3>1, <3>2, <3>3, <3>4, SMTT(30)
  <2> QED BY <1>4, <2>2, <2>3
<1>13. L + 1 \in 1 .. L + M + 1 /\ q[L + 1] = r[L + 1] + a /\ r[L + 1] \in Nat
  <2>1. L + 1 \in 1 .. L + M + 1
    BY <1>4
  <2> QED BY <1>8, <1>10, <2>1
<1>14. s + q[L + 1] <= Ask
  <2>1. s + r[L + 1] + a <= Ask
    BY DEF L
  <2> QED BY <1>1, <1>2, <1>13, <2>1
<1>15. \A k \in 1 .. L + 1 : s - Pos(g, rd, s, k) <= q[k] - q[L + 1]
  <2> SUFFICES ASSUME NEW k \in 1 .. L + 1 PROVE s - Pos(g, rd, s, k) <= q[k] - q[L + 1]
    OBVIOUS
  <2>1. k \in 1 .. L + M + 1 /\ r[k] \in Nat /\ q[k] = r[k] + a
    <3>1. k \in 1 .. L + M + 1
      BY <1>4
    <3> QED BY <1>8, <1>10, <3>1
  <2>2. s - Pos(f, rd, s, k) <= r[k] - r[L + 1]
    BY <1>8
  <2>3. r[k] - r[L + 1] = q[k] - q[L + 1]
    BY <1>2, <1>13, <2>1
  <2> QED BY <1>7, <2>2, <2>3
<1>16. q \in [1 .. Len(rd) + Len(Append(ff, j)) + 1 -> Nat] /\ q[Len(rd) + Len(Append(ff, j)) + 1] = 0
  BY <1>9, <1>10
<1>17. \A k \in 1 .. Len(Append(ff, j)) : q[Len(rd) + k] = q[Len(rd) + k + 1] + g[Append(ff, j)[k]].req
  BY <1>4, <1>12 DEF L
<1>18. Budget(g, Append(ff, j), rd, s, q)
  BY <1>11, <1>14, <1>15, <1>16, <1>17 DEF Budget, L
<1>19. r[1] \in Nat /\ q[1] = r[1] + a
  <2>1. 1 \in 1 .. L + M + 1
    BY <1>4
  <2> QED BY <1>8, <1>10, <2>1
<1> QED BY <1>16, <1>18, <1>19 DEF g
-----------------------------------------------------------------------------
(* The kernel, the clock and the application *)

\* The types of a state, of which the transfers' are in Kernel.
LEMMA TypeNow ==
  ASSUME FrameReadsAssumption, ReadsInv
  PROVE  /\ Kernel(slots, fifo, ready, sent) /\ slots \in [Slots -> SlotType]
         /\ fifo \in Seq(Slots) /\ ready \in Seq(Slots) /\ sent \in 0 .. MaxSent /\ sent \in Nat
         /\ engine \in AllEngines
         /\ nxt \in Nat /\ nxt >= 1 /\ nxt <= SlotCount + 1 /\ cur \in 1 .. nxt
         /\ buf \in Seq(0 .. MaxSent) /\ Len(buf) <= (IF engine = "pump" THEN Ask ELSE FrameLen)
         /\ got \in 0 .. FrameLen /\ outstanding \in 0 .. Ask
         /\ pc \in {"prime", "loop", "reap", "drain", "done"} /\ ret \in {"ok", "error", "broken"} /\ out \in 0 .. FrameLen
         /\ late \in BOOLEAN /\ latch \in BOOLEAN /\ broken \in BOOLEAN
         /\ refused \in 0 .. MaxRefused /\ excused \in BOOLEAN /\ after \in Nat
<1>1. Kernel(slots, fifo, ready, sent) /\ TypeOK
  BY DEF ReadsInv
<1>2. slots \in [Slots -> SlotType] /\ fifo \in Seq(Slots) /\ ready \in Seq(Slots) /\ sent \in 0 .. MaxSent
  BY <1>1 DEF Kernel, Queued
<1>3. nxt \in Nat /\ nxt >= 1 /\ nxt <= SlotCount + 1
  <2>1. nxt \in 1 .. Len(slots) + 1
    BY <1>1 DEF TypeOK
  <2> QED BY <1>2, <2>1, LenSlots
<1>4. sent \in Nat
  BY <1>2 DEF FrameReadsAssumption
<1> QED BY <1>1, <1>2, <1>3, <1>4 DEF TypeOK

\* A step that leaves the read alone.
LEMMA Frozen ==
  ASSUME FrameReadsAssumption, ReadsInv, TypeOK',
         UNCHANGED <<engine, slots, fifo, ready, nxt, cur, buf, got, outstanding, pc, ret, out, broken, sent, excused>>
  PROVE  ReadsInv'
<1>1. Kernel(slots', fifo', ready', sent')
  BY DEF ReadsInv
<1>2. engine' \in CoverEngines => Cover(slots', fifo', ready', nxt', sent')
  BY DEF ReadsInv
<1>3. Excuses'
  BY DEF ReadsInv, Excuses
<1>4. Fed'
  BY DEF ReadsInv, Fed, Looping, Pending, Room
<1>5. BatchHolds' /\ WinHolds'
  BY DEF ReadsInv, BatchHolds, WinHolds, Reading
<1>6. engine' \in MarkEngines => MarkHolds'
  BY DEF ReadsInv, MarkHolds, Room, Reading
<1>7. PumpHolds'
  BY DEF ReadsInv, PumpHolds, Reading
<1>8. OutHolds'
  BY DEF ReadsInv, OutHolds, CountsAtExit
<1>9. ShortHolds'
  BY DEF ReadsInv, ShortHolds, CountsAtExit, AllIn, Whole
<1>10. Priming' /\ Waiting'
  BY DEF ReadsInv, Priming, Primes, Waiting, Room
<1> QED BY <1>1, <1>2, <1>3, <1>4, <1>5, <1>6, <1>7, <1>8, <1>9, <1>10 DEF ReadsInv

\* The clock and AbortRead say only that time is up.
LEMMA FlagsHold ==
  ASSUME FrameReadsAssumption, ReadsInv, Clock \/ AbortRead
  PROVE  ReadsInv'
<1>1. UNCHANGED <<engine, slots, fifo, ready, nxt, cur, buf, got, outstanding, pc, ret, out, broken, sent, excused, refused, after>>
  BY DEF Clock, AbortRead, kernelVars, countVars, endVars
<1>2. late' \in BOOLEAN /\ latch' \in BOOLEAN
  BY TypeNow DEF Clock, AbortRead
<1>3. TypeOK'
  BY <1>1, <1>2, TypeNow, TypeFrom
<1> QED BY <1>1, <1>3, Frozen

\* The kernel brings back the oldest transfer.
LEMMA CompleteHolds ==
  ASSUME FrameReadsAssumption, ReadsInv, Complete
  PROVE  ReadsInv'
<1> DEFINE h == Head(fifo)
<1>1. /\ fifo # <<>> /\ fifo' = Tail(fifo)
      /\ UNCHANGED <<engine, nxt, cur, buf, got, outstanding, pc, ret, out, late, latch, refused, broken, after>>
  BY SMTT(30) DEF Complete, countVars, endVars
<1>2. PICK n \in 0 .. Lesser(slots[h].req, MaxSent - sent), st \in {"ok", "soft", "hard"} :
        /\ slots' = AsComplete(slots, h, sent, n, st)
        /\ ready' = Append(ready, h)
        /\ sent' = sent + n
        /\ excused' = (excused \/ st # "ok" \/ (engine \in CoverEngines /\ n < slots[h].req))
  BY DEF Complete, AsComplete
<1>3. Kernel(slots, fifo, ready, sent) /\ slots \in [Slots -> SlotType] /\ fifo \in Seq(Slots) /\ ready \in Seq(Slots)
      /\ sent \in Nat /\ sent \in 0 .. MaxSent
  BY TypeNow
<1>4. h \in Slots /\ slots[h].own = "kernel"
  <2>1. h \in Slots /\ h = fifo[1] /\ 1 \in 1 .. Len(fifo)
    BY <1>1, <1>3, TailOf
  <2> QED BY <1>3, <2>1 DEF Kernel, Queued
<1>5. slots[h].req \in Nat /\ MaxSent \in Nat
  <2>1. slots[h] \in SlotType
    BY <1>3, <1>4
  <2> QED BY <2>1, SlotFields DEF FrameReadsAssumption
<1>6. n \in 0 .. slots[h].req /\ n \in Nat /\ n \in Int /\ sent + n <= MaxSent
  BY <1>3, <1>5 DEF Lesser
<1>7. Waiting'
  BY <1>1 DEF ReadsInv, Waiting, Room
<1>8. /\ Kernel(slots', fifo', ready', sent')
      /\ \A k \in 1 .. Len(ready) + 1 : Pos(slots', ready', sent', k) = Pos(slots, ready, sent, k)
  <2>1. fifo # <<>> /\ n \in 0 .. slots[Head(fifo)].req /\ sent + n <= MaxSent
    BY <1>1, <1>6
  <2>2. /\ Kernel(AsComplete(slots, h, sent, n, st), Tail(fifo), Append(ready, h), sent + n)
        /\ \A k \in 1 .. Len(ready) + 1 :
             Pos(AsComplete(slots, h, sent, n, st), Append(ready, h), sent + n, k) = Pos(slots, ready, sent, k)
    <3>1. Kernel(slots, fifo, ready, sent)
      BY <1>3
    <3> QED BY <3>1, <2>1, KernelComplete, SMTT(60)
  <2>3. /\ slots' = AsComplete(slots, h, sent, n, st) /\ fifo' = Tail(fifo)
        /\ ready' = Append(ready, h) /\ sent' = sent + n
    BY <1>1, <1>2
  <2> QED BY <2>2, <2>3, Zenon
<1>9. engine' \in CoverEngines => Cover(slots', fifo', ready', nxt', sent')
  BY <1>1, <1>2, <1>3, <1>6, CoverComplete DEF ReadsInv
<1>10. /\ slots'[h] = [own |-> "complete", req |-> slots[h].req, from |-> sent, n |-> n, st |-> st]
       /\ \A j \in Slots \ {h} : slots'[j] = slots[j]
  <2>1. slots' = AsComplete(slots, h, sent, n, st)
    BY <1>2
  <2>2. n \in 0 .. slots[h].req /\ n \in Int /\ h \in Slots
    BY <1>4, <1>6
  <2> HIDE DEF h
  <2> QED BY <1>3, <2>1, <2>2, CompleteSlots
<1>11. TypeOK'
  <2>1. excused' \in BOOLEAN
    BY <1>2
  <2> QED BY <1>1, <1>8, <2>1, TypeNow, TypeFrom
<1> HIDE DEF h
<1>12. excused => excused'
  BY <1>2
<1>13. Excuses'
  <2> SUFFICES ASSUME ~excused'
               PROVE  /\ \A i \in Slots : slots'[i].st = "ok"
                      /\ engine' \in CoverEngines => \A i \in 1 .. nxt' - 1 : In(slots', i) => slots'[i].n = Req(i)
    BY DEF Excuses
  <2>1. ~excused /\ st = "ok" /\ (engine \in CoverEngines => ~(n < slots[h].req))
    BY <1>2
  <2>2. /\ \A i \in Slots : slots[i].st = "ok"
        /\ engine \in CoverEngines => \A i \in 1 .. nxt - 1 : In(slots, i) => slots[i].n = Req(i)
    BY <2>1 DEF ReadsInv, Excuses
  <2>3. \A i \in Slots : slots'[i].st = "ok"
    BY <1>10, <2>1, <2>2
  <2>4. ASSUME engine' \in CoverEngines, NEW i \in 1 .. nxt' - 1, In(slots', i) PROVE slots'[i].n = Req(i)
    <3>1. engine \in CoverEngines /\ CoverOrder(slots, fifo, ready, nxt) /\ i \in 1 .. nxt - 1
      BY <1>1, <2>4 DEF ReadsInv, Cover
    <3>2. i \in Slots
      BY <3>1, OrderNext
    <3>3. CASE i # h
      <4>1. slots'[i] = slots[i]
        BY <1>10, <3>2, <3>3
      <4> QED BY <2>2, <2>4, <3>1, <4>1 DEF In
    <3>4. CASE i = h
      <4>1. slots[i].req = Req(i)
        <5>1. slots[i] # Rejected
          BY <1>4, <3>4 DEF Rejected
        <5> QED BY <3>1, <5>1 DEF CoverOrder
      <4>2. n = slots[h].req
        BY <1>5, <1>6, <2>1, <3>1 DEF h
      <4> QED BY <1>10, <3>4, <4>1, <4>2
    <3> QED BY <3>3, <3>4
  <2> QED BY <2>3, <2>4
<1>14. ready' # <<>> /\ Pending'
  <2>1. ready' # <<>>
    BY <1>2, <1>3, <1>4, AppendOf
  <2> QED BY <2>1 DEF Pending
<1>15. Fed'
  BY <1>14 DEF Fed
<1>16. BatchHolds'
  BY <1>1 DEF ReadsInv, BatchHolds
<1>17. WinHolds'
  <2> SUFFICES ASSUME engine' = "winbatch" PROVE WinHolds'
    BY DEF WinHolds
  <2>1. engine = "winbatch" /\ engine \in CoverEngines /\ CoverOrder(slots, fifo, ready, nxt)
    BY <1>1 DEF CoverEngines, ReadsInv, Cover
  <2>2. /\ \A i \in 1 .. cur - 1 : slots[i].own = "reaped"
        /\ Reading =>
             /\ \A i \in 1 .. cur - 1 : slots[i].n = Req(i)
             /\ \A i \in cur .. nxt - 1 : slots[i].own # "reaped"
             /\ got = IF cur <= NCover THEN Off(cur) ELSE FrameLen
    BY <2>1 DEF ReadsInv, WinHolds
  <2>3. \A i \in 1 .. nxt - 1 : i \in Slots
    BY <2>1, OrderNext
  <2>4. cur \in Nat /\ cur >= 1 /\ cur <= nxt /\ nxt \in Nat
    <3>1. nxt \in Nat /\ cur \in 1 .. nxt
      BY TypeNow
    <3> QED BY <3>1
  <2>5. ASSUME NEW i \in 1 .. cur - 1 PROVE slots'[i] = slots[i]
    <3>1. i \in 1 .. nxt - 1
      BY <2>4
    <3> QED BY <1>4, <1>10, <2>2, <2>3, <3>1
  <2>6. ASSUME NEW i \in cur .. nxt - 1, slots[i].own # "reaped" PROVE slots'[i].own # "reaped"
    <3>1. i \in 1 .. nxt - 1
      BY <2>4
    <3> QED BY <1>10, <2>3, <2>6, <3>1
  <2> QED BY <1>1, <2>2, <2>5, <2>6 DEF WinHolds, Reading
<1>18. engine' \in MarkEngines => MarkHolds'
  <2> SUFFICES ASSUME engine' \in MarkEngines PROVE MarkHolds'
    OBVIOUS
  <2>1. MarkHolds
    BY <1>1 DEF ReadsInv
  <2>2. Len(buf) \in Nat /\ 1 \in 1 .. Len(ready) + 1
    BY <1>3, TypeNow, LenProperties
  <2>3. Pos(slots', ready', sent', 1) = Pos(slots, ready, sent, 1)
    BY <1>8, <2>2
  <2>4. Len(buf') <= sent'
    <3>1. Len(buf) <= sent
      BY <2>1 DEF MarkHolds
    <3> QED BY <1>1, <1>2, <1>3, <1>6, <2>2, <3>1
  <2>5. engine' = "winstream" => \A i \in Slots : i > 1 => slots'[i] = Unused
    <3> SUFFICES ASSUME engine' = "winstream", NEW i \in Slots, i > 1 PROVE slots'[i] = Unused
      OBVIOUS
    <3>1. slots[i] = Unused
      BY <1>1, <2>1 DEF MarkHolds
    <3>2. i # h
      BY <1>4, <3>1 DEF Unused
    <3> QED BY <1>10, <3>1, <3>2
  <2>6. \A k \in 1 .. Len(buf') : buf'[k] = k - 1
    BY <1>1, <2>1 DEF MarkHolds
  <2>7. Reading' \/ engine' = "winstream" => Len(buf') = Room' \/ Pos(slots', ready', sent', 1) = Len(buf')
    BY <1>1, <2>1, <2>3 DEF MarkHolds, Room, Reading
  <2> QED BY <2>4, <2>5, <2>6, <2>7 DEF MarkHolds
<1>19. PumpHolds'
  <2> SUFFICES ASSUME engine' = "pump" PROVE PumpHolds'
    BY DEF PumpHolds
  <2>1. PICK r \in [1 .. Len(ready) + Len(fifo) + 1 -> Nat] :
          /\ Budget(slots, fifo, ready, sent, r)
          /\ Reading => outstanding = r[1] /\ Len(buf) + outstanding <= Ask /\ Pos(slots, ready, sent, 1) = Len(buf)
    BY <1>1 DEF ReadsInv, PumpHolds
  <2>2. Budget(slots', fifo', ready', sent', r)
    BY <1>1, <1>2, <1>3, <1>6, <2>1, BudgetComplete DEF h
  <2>3. r \in [1 .. Len(ready') + Len(fifo') + 1 -> Nat]
    BY <2>2 DEF Budget
  <2>4. Pos(slots', ready', sent', 1) = Pos(slots, ready, sent, 1)
    <3>1. 1 \in 1 .. Len(ready) + 1
      BY <1>3, LenProperties
    <3> QED BY <1>8, <3>1
  <2> QED BY <1>1, <2>1, <2>2, <2>3, <2>4 DEF PumpHolds, Reading
<1>20. \A i \in 1 .. NCover : slots[i].own = "reaped" => slots'[i] = slots[i]
  BY <1>4, <1>10, OffAt
<1>21. OutHolds'
  <2> SUFFICES ASSUME pc' = "done" \/ (pc' = "drain" /\ CountsAtExit')
               PROVE  IF engine' \in CoverEngines THEN Solid(slots', out') ELSE out' <= Len(buf') /\ out' <= FrameLen
    BY DEF OutHolds
  <2>1. IF engine \in CoverEngines THEN Solid(slots, out) ELSE out <= Len(buf) /\ out <= FrameLen
    BY <1>1 DEF ReadsInv, OutHolds, CountsAtExit
  <2>2. Solid(slots, out) => Solid(slots', out)
    BY <1>20, SolidKeeps
  <2> QED BY <1>1, <2>1, <2>2
<1>22. ShortHolds'
  <2> SUFFICES ASSUME pc' \in {"drain", "done"}, ret' = "ok", ~excused'
               PROVE  /\ CountsAtExit' \/ AllIn'
                      /\ CountsAtExit' \/ pc' = "done" => out' = FrameLen
    BY DEF ShortHolds
  <2>1. /\ CountsAtExit \/ AllIn
        /\ CountsAtExit \/ pc = "done" => out = FrameLen
    BY <1>1, <1>12 DEF ReadsInv, ShortHolds
  <2>2. AllIn => AllIn'
    <3>1. CASE engine = "winstream"
      BY <1>1, <3>1 DEF AllIn
    <3>2. CASE engine # "winstream"
      BY <1>1, <1>20, <3>2 DEF AllIn, Whole
    <3> QED BY <3>1, <3>2
  <2>3. CountsAtExit' <=> CountsAtExit
    BY <1>1 DEF CountsAtExit
  <2> QED BY <1>1, <2>1, <2>2, <2>3
<1>23. Priming'
  <2> SUFFICES ASSUME pc' = "prime", engine' \in MarkEngines, NEW i \in Slots, i >= nxt' PROVE slots'[i].own = "none"
    BY <1>1 DEF ReadsInv, Priming, Primes
  <2>1. slots[i].own = "none"
    BY <1>1 DEF ReadsInv, Priming
  <2> QED BY <1>4, <1>10, <2>1
<1> QED BY <1>7, <1>8, <1>9, <1>11, <1>13, <1>15, <1>16, <1>17, <1>18, <1>19, <1>21, <1>22, <1>23 DEF ReadsInv
-----------------------------------------------------------------------------
(* Priming *)

\* One transfer of the window went out, or was refused.
Primed ==
  /\ \A i \in Slots \ {nxt} : slots'[i] = slots[i]
  /\ nxt' = nxt + 1 \/ (nxt' = nxt /\ slots' = slots /\ pc' # "prime")
  /\ ~excused' => slots'[nxt].own = "kernel" /\ slots'[nxt].st = "ok" /\ fifo' # <<>>
  /\ (excused => excused') /\ excused' \in BOOLEAN /\ refused' \in 0 .. MaxRefused
  /\ (pc' \in {"prime", "loop"} /\ ret' = ret) \/ (pc' = "done" /\ ret' = "error")
  /\ pc' = "prime" => nxt' <= Primes

\* What priming leaves alone, and where it stands.
LEMMA PrimeKeeps ==
  ASSUME FrameReadsAssumption, ReadsInv, Prime
  PROVE  /\ pc = "prime" /\ Reading
         /\ UNCHANGED <<engine, ready, cur, buf, got, out, late, latch, broken, sent, after>>
         /\ buf = <<>> /\ Len(buf) = 0 /\ got = 0 /\ cur = 1 /\ ret = "ok" /\ out = 0
         /\ nxt \in Nat /\ nxt >= 1 /\ nxt <= Primes /\ nxt \in Slots
         /\ FrameLen \in Nat /\ FrameLen # 0 /\ 0 \in 0 .. FrameLen /\ Ask \in Nat /\ MaxRefused \in Nat
<1>1. pc = "prime" /\ UNCHANGED <<engine, ready, cur, buf, got, out, late, latch, broken, sent, after>>
  BY DEF Prime
<1>2. buf = <<>> /\ got = 0 /\ cur = 1 /\ ret = "ok" /\ out = 0 /\ nxt <= Primes
  BY <1>1 DEF ReadsInv, Priming
<1>3. FrameLen \in Nat /\ FrameLen # 0 /\ 0 \in 0 .. FrameLen /\ Ask \in Nat /\ MaxRefused \in Nat
  BY DEF FrameReadsAssumption, Ask
<1>4. nxt \in Nat /\ nxt >= 1
  BY TypeNow
<1>5. nxt \in Slots
  <2>1. Primes \in Nat /\ Primes <= SlotCount /\ SlotCount \in Nat /\ Slots = 1 .. SlotCount
    BY PrimesFacts, SlotsFacts
  <2> QED BY <1>2, <1>4, <2>1
<1>6. Len(buf) = 0
  BY <1>2, EmptySeq
<1> QED BY <1>1, <1>2, <1>3, <1>4, <1>5, <1>6 DEF Reading

\* What holds whatever the engine.
LEMMA PrimedHolds ==
  ASSUME FrameReadsAssumption, ReadsInv, Prime, Primed, Kernel(slots', fifo', ready', sent'), outstanding' \in 0 .. Ask
  PROVE  TypeOK' /\ Excuses' /\ Fed' /\ ShortHolds' /\ Waiting' /\ (pc' \in {"drain", "done"} => out' = 0)
<1>1. TypeOK'
  <2>1. nxt' \in Nat /\ nxt' >= 1 /\ nxt' <= SlotCount + 1
    <3>1. nxt \in Nat /\ nxt >= 1 /\ nxt <= SlotCount /\ SlotCount \in Nat
      BY PrimeKeeps, SlotsFacts
    <3>2. nxt' = nxt + 1 \/ nxt' = nxt
      BY DEF Primed
    <3> QED BY <3>1, <3>2
  <2>2. cur' \in 1 .. nxt' /\ got' \in 0 .. FrameLen /\ out' \in 0 .. FrameLen
    BY <2>1, PrimeKeeps
  <2>3. /\ pc' \in {"prime", "loop", "reap", "drain", "done"} /\ ret' \in {"ok", "error", "broken"}
        /\ refused' \in 0 .. MaxRefused /\ excused' \in BOOLEAN
    BY PrimeKeeps DEF Primed
  <2>4. /\ engine' \in AllEngines /\ buf' \in Seq(0 .. MaxSent) /\ Len(buf') <= (IF engine' = "pump" THEN Ask ELSE FrameLen)
        /\ late' \in BOOLEAN /\ latch' \in BOOLEAN /\ broken' \in BOOLEAN /\ after' \in Nat
    BY PrimeKeeps, TypeNow
  <2> QED BY <2>1, <2>2, <2>3, <2>4, TypeFrom
<1>2. Excuses'
  <2> SUFFICES ASSUME ~excused'
               PROVE  /\ \A i \in Slots : slots'[i].st = "ok"
                      /\ engine' \in CoverEngines => \A i \in 1 .. nxt' - 1 : In(slots', i) => slots'[i].n = Req(i)
    BY DEF Excuses
  <2>1. /\ \A i \in Slots : slots[i].st = "ok"
        /\ engine \in CoverEngines => \A i \in 1 .. nxt - 1 : In(slots, i) => slots[i].n = Req(i)
    BY DEF ReadsInv, Excuses, Primed
  <2>2. slots'[nxt].own = "kernel" /\ slots'[nxt].st = "ok" /\ \A i \in Slots \ {nxt} : slots'[i] = slots[i]
    BY DEF Primed
  <2>3. \A i \in Slots : slots'[i].st = "ok"
    BY <2>1, <2>2
  <2>4. ASSUME engine' \in CoverEngines, NEW i \in 1 .. nxt' - 1, In(slots', i) PROVE slots'[i].n = Req(i)
    <3>1. i # nxt
      BY <2>2, <2>4 DEF In
    <3>2. nxt \in Nat /\ (nxt' = nxt + 1 \/ nxt' = nxt) /\ nxt <= SlotCount /\ SlotCount \in Nat /\ Slots = 1 .. SlotCount
      BY PrimeKeeps, SlotsFacts DEF Primed
    <3>3. i \in 1 .. nxt - 1 /\ i \in Slots
      BY <3>1, <3>2
    <3> QED BY <2>1, <2>2, <2>4, <3>1, <3>3, PrimeKeeps DEF In
  <2> QED BY <2>3, <2>4
<1>3. Fed'
  BY DEF Fed, Primed, Pending
<1>4. ShortHolds' /\ Waiting'
  BY DEF Primed, ShortHolds, Waiting
<1>5. out' = 0
  BY PrimeKeeps
<1> QED BY <1>1, <1>2, <1>3, <1>4, <1>5

\* A cover engine submits one more.
LEMMA CoverPrimed ==
  ASSUME FrameReadsAssumption, ReadsInv, Prime, Primed, engine \in CoverEngines,
         Kernel(slots', fifo', ready', sent'), Cover(slots', fifo', ready', nxt', sent'),
         engine = "winbatch" => slots'[nxt].own # "reaped",
         engine \in {"async", "preq"} /\ pc' # "prime" => nxt' = NCover + 1
  PROVE  ReadsInv'
<1>1. engine \notin MarkEngines /\ engine # "pump" /\ engine' = engine
  BY PrimeKeeps DEF CoverEngines, MarkEngines
<1>2. outstanding' \in 0 .. Ask
  <2>1. outstanding' = outstanding + 0 /\ outstanding \in 0 .. Ask /\ Ask \in Nat
    BY <1>1, PrimeKeeps, TypeNow DEF Prime
  <2> QED BY <2>1
<1>3. TypeOK' /\ Excuses' /\ Fed' /\ ShortHolds' /\ Waiting' /\ (pc' \in {"drain", "done"} => out' = 0)
  BY <1>2, PrimedHolds
<1>4. BatchHolds'
  BY <1>1 DEF BatchHolds
<1>5. WinHolds'
  <2> SUFFICES ASSUME engine' = "winbatch"
               PROVE  /\ \A i \in 1 .. cur' - 1 : slots'[i].own = "reaped"
                      /\ \A i \in 1 .. cur' - 1 : slots'[i].n = Req(i)
                      /\ \A i \in cur' .. nxt' - 1 : slots'[i].own # "reaped"
                      /\ got' = IF cur' <= NCover THEN Off(cur') ELSE FrameLen
    BY DEF WinHolds
  <2>1. cur' = 1 /\ got' = 0 /\ Off(1) = 0 /\ NCover >= 1
    BY PrimeKeeps, OffFacts, SMTT(30)
  <2>2. \A i \in 1 .. nxt - 1 : slots[i].own # "reaped"
    BY <1>1, PrimeKeeps DEF ReadsInv, WinHolds
  <2>3. ASSUME NEW i \in 1 .. nxt' - 1 PROVE slots'[i].own # "reaped"
    <3>1. nxt \in Nat /\ (nxt' = nxt + 1 \/ nxt' = nxt) /\ nxt <= SlotCount /\ SlotCount \in Nat /\ Slots = 1 .. SlotCount
      BY PrimeKeeps, SlotsFacts DEF Primed
    <3>2. CASE i = nxt
      BY <1>1, <3>2
    <3>3. CASE i # nxt
      <4>1. i \in 1 .. nxt - 1 /\ i \in Slots
        BY <3>1, <3>3
      <4> QED BY <2>2, <3>3, <4>1 DEF Primed
    <3> QED BY <3>2, <3>3
  <2> QED BY <2>1, <2>3
<1>6. OutHolds'
  <2>1. pc' \notin {"drain", "done"} \/ out' = 0
    BY <1>3
  <2>2. Solid(slots', 0)
    <3>1. \A i \in 1 .. NCover : ~(Off(i) < 0)
      BY OffFacts
    <3> QED BY <3>1, PrimeKeeps DEF Solid
  <2> QED BY <1>1, <2>1, <2>2 DEF OutHolds
<1>7. Priming'
  <2>1. pc' = "prime" => nxt' <= Primes' /\ ret' = ret
    BY <1>1 DEF Primed, Primes
  <2> QED BY <1>1, <2>1, PrimeKeeps DEF Priming
<1> QED BY <1>1, <1>3, <1>4, <1>5, <1>6, <1>7, CoverFrom

\* A mark engine submits one more.
LEMMA MarkPrimed ==
  ASSUME FrameReadsAssumption, ReadsInv, Prime, Primed, engine \in {"urbstream", "pump"},
         Kernel(slots', fifo', ready', sent'), Pos(slots', ready', sent', 1) = Pos(slots, ready, sent, 1),
         outstanding' \in 0 .. Ask, PumpHolds', engine = "pump" /\ pc' = "prime" => outstanding' = Off(nxt')
  PROVE  ReadsInv'
<1>1. engine \in MarkEngines /\ engine \notin CoverEngines /\ engine # "winstream" /\ engine' = engine
  BY PrimeKeeps DEF CoverEngines, MarkEngines
<1>2. TypeOK' /\ Excuses' /\ Fed' /\ ShortHolds' /\ Waiting' /\ (pc' \in {"drain", "done"} => out' = 0)
  BY PrimedHolds
<1>3. OutHolds'
  <2>1. pc' \notin {"drain", "done"} \/ (out' = 0 /\ Len(buf') = 0 /\ FrameLen \in Nat)
    BY <1>2, PrimeKeeps
  <2> QED BY <1>1, <2>1 DEF OutHolds
<1>4. MarkHolds'
  <2>1. MarkHolds
    BY <1>1 DEF ReadsInv
  <2>2. Room' = Room
    BY <1>1 DEF Room
  <2> QED BY <1>1, <2>1, <2>2, PrimeKeeps DEF MarkHolds
<1>5. Priming'
  <2> SUFFICES ASSUME pc' = "prime" PROVE Priming'
    BY DEF Priming
  <2>1. nxt' <= Primes' /\ ret' = ret /\ nxt' = nxt + 1
    BY <1>1 DEF Primed, Primes
  <2>2. ASSUME NEW i \in Slots, i >= nxt' PROVE slots'[i].own = "none"
    <3>1. i \in Nat /\ nxt \in Nat
      BY SlotNat, PrimeKeeps
    <3>2. i >= nxt /\ i # nxt
      BY <2>1, <2>2, <3>1
    <3>3. slots[i].own = "none"
      BY <1>1, <3>2, PrimeKeeps DEF ReadsInv, Priming
    <3> QED BY <3>2, <3>3 DEF Primed
  <2> QED BY <1>1, <2>1, <2>2, PrimeKeeps DEF Priming
<1> QED BY <1>1, <1>2, <1>3, <1>4, <1>5, MarkFrom

\* A step of PrimeWindow, for the transfer it is about.
WindowStep(a) ==
  \/ /\ Submit(nxt, a) /\ nxt' = nxt + 1
     /\ pc' = IF nxt = Primes THEN "loop" ELSE "prime"
     /\ UNCHANGED <<ret, refused, excused>>
  \/ /\ MayRefuse /\ refused' = refused + 1 /\ excused' = TRUE
     /\ UNCHANGED <<slots, fifo, nxt>>
     /\ IF nxt = 1 THEN pc' = "done" /\ ret' = "error" ELSE pc' = "loop" /\ UNCHANGED ret

\* It submits the transfer at nxt, or ends the priming.
LEMMA WindowSteps ==
  ASSUME FrameReadsAssumption, ReadsInv, Prime, NEW a \in 0 .. Chunk, WindowStep(a), slots[nxt].own = "none"
  PROVE  /\ Primed /\ Kernel(slots', fifo', ready', sent')
         /\ Pos(slots', ready', sent', 1) = Pos(slots, ready, sent, 1)
         /\ slots'[nxt].own # "reaped"
         /\ \/ /\ slots' = AsSent(slots, nxt, a) /\ fifo' = Append(fifo, nxt) /\ nxt' = nxt + 1
               /\ pc' = "prime" => nxt' <= Primes
            \/ UNCHANGED <<slots, fifo, nxt>> /\ pc' # "prime"
<1>1. /\ nxt \in Slots /\ nxt \in Nat /\ nxt <= Primes /\ Primes \in Nat /\ ready' = ready /\ sent' = sent
      /\ Kernel(slots, fifo, ready, sent) /\ slots \in [Slots -> SlotType] /\ fifo \in Seq(Slots)
      /\ refused \in 0 .. MaxRefused /\ MaxRefused \in Nat /\ excused \in BOOLEAN /\ ret = "ok"
  BY PrimeKeeps, PrimesFacts, TypeNow
<1>2. CASE /\ Submit(nxt, a) /\ nxt' = nxt + 1
           /\ pc' = IF nxt = Primes THEN "loop" ELSE "prime"
           /\ UNCHANGED <<ret, refused, excused>>
  <2>1. slots' = AsSent(slots, nxt, a) /\ fifo' = Append(fifo, nxt)
    BY <1>2 DEF Submit, AsSent
  <2>2. /\ Kernel(slots', fifo', ready', sent') /\ Pos(slots', ready', sent', 1) = Pos(slots, ready, sent, 1)
    BY <1>1, <2>1, KernelSend
  <2>3. slots'[nxt] = Sent(a) /\ \A i \in Slots \ {nxt} : slots'[i] = slots[i]
    BY <1>1, <2>1, SentSlots
  <2>4. slots'[nxt].own = "kernel" /\ slots'[nxt].st = "ok"
    BY <2>3 DEF Sent
  <2>5. fifo' # <<>>
    BY <1>1, <2>1, AppendOf
  <2>6. pc' = "prime" => nxt' <= Primes
    BY <1>1, <1>2
  <2> QED BY <1>1, <1>2, <2>1, <2>2, <2>3, <2>4, <2>5, <2>6 DEF Primed
<1>3. CASE /\ MayRefuse /\ refused' = refused + 1 /\ excused' = TRUE
           /\ UNCHANGED <<slots, fifo, nxt>>
           /\ IF nxt = 1 THEN pc' = "done" /\ ret' = "error" ELSE pc' = "loop" /\ UNCHANGED ret
  <2>1. refused' \in 0 .. MaxRefused
    BY <1>1, <1>3 DEF MayRefuse
  <2> QED BY <1>1, <1>3, <2>1 DEF Primed
<1> QED BY <1>2, <1>3 DEF WindowStep

\* The window of usbfs and of WinUSB's batch.
LEMMA PrimeCoverWindow ==
  ASSUME FrameReadsAssumption, ReadsInv, Prime, engine \in {"urbs", "urbpreq", "winbatch"},
         PrimeWindow(Lesser(Window, NCover), Req)
  PROVE  ReadsInv'
<1>1. engine \in CoverEngines /\ engine \notin {"async", "preq"} /\ Primes = Lesser(Window, NCover) /\ Primes <= NCover
  BY PrimesFacts DEF CoverEngines
<1>2. Kernel(slots, fifo, ready, sent) /\ Cover(slots, fifo, ready, nxt, sent)
  BY <1>1 DEF ReadsInv
<1>3. nxt <= NCover
  <2>1. nxt \in Nat /\ nxt <= Primes /\ Primes \in Nat /\ NCover \in Nat
    BY PrimeKeeps, PrimesFacts, SlotNat
  <2> QED BY <1>1, <2>1
<1>4. /\ nxt \in Slots /\ slots[nxt].own = "none" /\ Req(nxt) \in 0 .. Chunk
      /\ Cover(AsSent(slots, nxt, Req(nxt)), Append(fifo, nxt), ready, nxt + 1, sent)
  BY <1>2, <1>3, CoverSend
<1>5. WindowStep(Req(nxt))
  BY <1>1 DEF PrimeWindow, WindowStep
<1>6. /\ Primed /\ Kernel(slots', fifo', ready', sent') /\ slots'[nxt].own # "reaped"
      /\ \/ slots' = AsSent(slots, nxt, Req(nxt)) /\ fifo' = Append(fifo, nxt) /\ nxt' = nxt + 1
         \/ UNCHANGED <<slots, fifo, nxt>>
  BY <1>4, <1>5, WindowSteps
<1>7. Cover(slots', fifo', ready', nxt', sent')
  BY <1>2, <1>4, <1>6, PrimeKeeps
<1> QED BY <1>1, <1>6, <1>7, CoverPrimed

\* IOKit tries every slot.
LEMMA PrimeBatch ==
  ASSUME FrameReadsAssumption, ReadsInv, Prime, PrimeAll
  PROVE  ReadsInv'
<1>1. engine \in CoverEngines /\ engine \in {"async", "preq"} /\ engine # "winbatch" /\ Primes = NCover
  BY PrimesFacts DEF CoverEngines, PrimeAll
<1>2. Kernel(slots, fifo, ready, sent) /\ Cover(slots, fifo, ready, nxt, sent)
  BY <1>1 DEF ReadsInv
<1>3. nxt \in Nat /\ nxt <= NCover /\ nxt \in Slots /\ ready' = ready /\ sent' = sent /\ NCover \in Nat
  BY <1>1, PrimeKeeps, SlotNat
<1>4. /\ slots[nxt].own = "none" /\ Req(nxt) \in 0 .. Chunk
      /\ Cover(AsSent(slots, nxt, Req(nxt)), Append(fifo, nxt), ready, nxt + 1, sent)
  BY <1>2, <1>3, CoverSend
<1>5. /\ slots \in [Slots -> SlotType] /\ fifo \in Seq(Slots) /\ refused \in 0 .. MaxRefused /\ MaxRefused \in Nat
      /\ excused \in BOOLEAN
  BY PrimeKeeps, TypeNow
<1>6. nxt' = nxt + 1 /\ pc' = (IF nxt = NCover THEN "loop" ELSE "prime") /\ ret' = ret
  BY DEF PrimeAll
<1>7. /\ Kernel(slots', fifo', ready', sent') /\ Cover(slots', fifo', ready', nxt', sent')
      /\ \A i \in Slots \ {nxt} : slots'[i] = slots[i]
      /\ ~excused' => slots'[nxt].own = "kernel" /\ slots'[nxt].st = "ok" /\ fifo' # <<>>
      /\ (excused => excused') /\ excused' \in BOOLEAN /\ refused' \in 0 .. MaxRefused
  <2>1. CASE Submit(nxt, Req(nxt)) /\ UNCHANGED <<refused, excused>>
    <3>1. slots' = AsSent(slots, nxt, Req(nxt)) /\ fifo' = Append(fifo, nxt)
      BY <2>1 DEF Submit, AsSent
    <3>2. Kernel(slots', fifo', ready', sent')
      BY <1>2, <1>3, <1>4, <3>1, KernelSend
    <3>3. slots'[nxt] = Sent(Req(nxt)) /\ \A i \in Slots \ {nxt} : slots'[i] = slots[i]
      BY <1>3, <1>4, <1>5, <3>1, SentSlots
    <3>4. slots'[nxt].own = "kernel" /\ slots'[nxt].st = "ok"
      BY <3>3 DEF Sent
    <3>5. fifo' # <<>>
      BY <1>3, <1>5, <3>1, AppendOf
    <3>6. Cover(slots', fifo', ready', nxt', sent')
      BY <1>3, <1>4, <1>6, <3>1
    <3> QED BY <1>5, <2>1, <3>2, <3>3, <3>4, <3>5, <3>6
  <2>2. CASE /\ MayRefuse /\ refused' = refused + 1 /\ excused' = TRUE
             /\ slots' = [slots EXCEPT ![nxt] = Rejected] /\ UNCHANGED fifo
    <3>1. Rejected \in SlotType
      BY DEF Rejected, SlotType, FrameReadsAssumption
    <3>2. slots' \in [Slots -> SlotType] /\ slots'[nxt] = Rejected /\ \A i \in Slots \ {nxt} : slots'[i] = slots[i]
      BY <1>3, <1>5, <2>2, <3>1
    <3>3. Kernel(slots', fifo, ready, sent) /\ Cover(slots', fifo, ready, nxt + 1, sent)
      BY <1>2, <1>3, <3>2, CoverReject
    <3>4. refused' \in 0 .. MaxRefused
      BY <1>5, <2>2 DEF MayRefuse
    <3> QED BY <1>3, <1>6, <2>2, <3>2, <3>3, <3>4
  <2> QED BY <2>1, <2>2 DEF PrimeAll
<1>8. Primed
  <2>1. pc' = "prime" => nxt' <= Primes
    BY <1>1, <1>3, <1>6
  <2> QED BY <1>6, <1>7, <2>1 DEF Primed
<1>9. pc' # "prime" => nxt' = NCover + 1
  BY <1>6
<1> QED BY <1>1, <1>7, <1>8, <1>9, CoverPrimed

\* usbfs streams through a window of whole chunks.
LEMMA PrimeStream ==
  ASSUME FrameReadsAssumption, ReadsInv, Prime, PrimeUrbStream
  PROVE  ReadsInv'
<1>1. engine = "urbstream" /\ engine \in MarkEngines /\ engine # "pump" /\ engine' = engine /\ Primes = Window
  BY PrimeKeeps, PrimesFacts DEF PrimeUrbStream, MarkEngines
<1>2. slots[nxt].own = "none"
  <2>1. nxt \in Slots /\ nxt >= nxt /\ pc = "prime"
    BY PrimeKeeps
  <2> QED BY <1>1, <2>1 DEF ReadsInv, Priming
<1>3. Chunk \in 0 .. Chunk
  BY DEF FrameReadsAssumption
<1>4. WindowStep(Chunk)
  BY <1>1 DEF PrimeUrbStream, PrimeWindow, WindowStep
<1>5. Primed /\ Kernel(slots', fifo', ready', sent') /\ Pos(slots', ready', sent', 1) = Pos(slots, ready, sent, 1)
  BY <1>2, <1>3, <1>4, WindowSteps
<1>6. outstanding' \in 0 .. Ask
  <2>1. outstanding' = outstanding + 0 /\ outstanding \in 0 .. Ask /\ Ask \in Nat
    BY <1>1, PrimeKeeps, TypeNow DEF Prime
  <2> QED BY <2>1
<1>7. PumpHolds'
  BY <1>1 DEF PumpHolds
<1> QED BY <1>1, <1>5, <1>6, <1>7, MarkPrimed

\* WinUSB's stream has nothing to prime.
LEMMA PrimeWinStreamHolds ==
  ASSUME FrameReadsAssumption, ReadsInv, Prime, PrimeWinStream
  PROVE  ReadsInv'
<1>1. /\ engine = "winstream" /\ engine \in MarkEngines /\ engine # "pump" /\ pc' = "loop" /\ engine' = engine
      /\ UNCHANGED <<slots, fifo, ready, nxt, cur, buf, got, outstanding, ret, out, late, latch, refused, broken, sent, excused, after>>
  <2>1. engine = "winstream" /\ pc' = "loop" /\ UNCHANGED <<slots, fifo, nxt, ret, refused, excused>>
    BY DEF PrimeWinStream
  <2>2. outstanding' = outstanding + 0 /\ outstanding \in 0 .. Ask /\ Ask \in Nat
    BY <2>1, PrimeKeeps, TypeNow DEF Prime
  <2>3. outstanding' = outstanding
    BY <2>2
  <2> QED BY <2>1, <2>3, PrimeKeeps DEF MarkEngines
<1>2. Kernel(slots', fifo', ready', sent')
  BY <1>1, TypeNow
<1>3. TypeOK'
  BY <1>1, <1>2, TypeNow, TypeFrom
<1>4. Excuses'
  BY <1>1 DEF ReadsInv, Excuses
<1>5. Fed' /\ OutHolds' /\ ShortHolds' /\ PumpHolds' /\ Priming' /\ Waiting'
  BY <1>1 DEF Fed, OutHolds, ShortHolds, PumpHolds, Priming, Waiting
<1>6. MarkHolds'
  BY <1>1 DEF ReadsInv, MarkHolds, Room
<1> QED BY <1>1, <1>2, <1>3, <1>4, <1>5, <1>6, MarkFrom

\* What the pump asks for in its first k transfers.
LEMMA PumpAsks ==
  ASSUME FrameReadsAssumption, NEW k \in Nat, k <= NPump
  PROVE  /\ Off(k + 1) = k * Chunk /\ Lesser(k * Chunk, Ask) \in 0 .. Ask
         /\ \A i \in 1 .. k : Off(i) \in Nat /\ Off(i) < Ask /\ Off(i) <= Off(k + 1)
         /\ \A i \in 1 .. k : PumpReq(i) \in 0 .. Chunk /\ Off(i) + PumpReq(i) = Lesser(Off(i + 1), Ask)
<1>1. Chunk \in Nat /\ Chunk # 0 /\ Ask \in Nat
  BY DEF FrameReadsAssumption, Ask
<1> DEFINE m == (Ask + Chunk - 1) \div Chunk
<1>2. m \in Nat /\ m * Chunk <= Ask + Chunk - 1
  BY <1>1
<1> HIDE DEF m
<1>3. k <= m
  <2>1. NPump = Lesser(Window, m) /\ Window \in Nat
    BY SlotsFacts DEF NPump, m
  <2> QED BY <1>2, <2>1 DEF Lesser
<1>4. Off(k + 1) = k * Chunk /\ k * Chunk \in Nat
  BY <1>1 DEF Off
<1>5. ASSUME NEW i \in 1 .. k
      PROVE  /\ Off(i) \in Nat /\ Off(i) < Ask /\ Off(i) <= Off(k + 1)
             /\ PumpReq(i) \in 0 .. Chunk /\ Off(i) + PumpReq(i) = Lesser(Off(i + 1), Ask)
  <2>1. i \in Int /\ 1 <= i /\ i <= m + 1 /\ i <= k + 1 /\ i <= m /\ m \in Int
    BY <1>2, <1>3
  <2>2. Off(1) = 0 /\ Off(1) <= Off(i) /\ Off(i) <= Off(m) /\ Off(i) <= Off(k + 1)
        /\ Off(i) \in Int /\ Off(m) \in Int /\ Off(i + 1) = Off(i) + Chunk
    <3>1. Off(1) = 0 /\ Off(i + 1) = Off(i) + Chunk
      BY <2>1, OffFacts
    <3>2. Off(1) <= Off(i) /\ Off(i) \in Int
      BY <2>1, OffOrder
    <3>3. Off(i) <= Off(m) /\ Off(m) \in Int
      BY <2>1, OffOrder
    <3>4. Off(i) <= Off(k + 1)
      BY <2>1, OffOrder
    <3> QED BY <3>1, <3>2, <3>3, <3>4
  <2>3. Off(m) = m * Chunk - Chunk /\ m * Chunk \in Int
    BY <1>1, <1>2 DEF Off
  <2>4. Off(i) \in Nat /\ Off(i) < Ask
    BY <1>1, <1>2, <2>2, <2>3
  <2>5. PumpReq(i) = Lesser(Chunk, Ask - Off(i))
    BY DEF PumpReq, Off
  <2> QED BY <1>1, <2>2, <2>4, <2>5 DEF Lesser
<1>6. Lesser(k * Chunk, Ask) \in 0 .. Ask
  BY <1>1, <1>4 DEF Lesser
<1> QED BY <1>4, <1>5, <1>6

\* The pump has asked for no more than it may.
LEMMA PrimePumpHolds ==
  ASSUME FrameReadsAssumption, ReadsInv, Prime, PrimePump
  PROVE  ReadsInv'
<1>1. /\ engine = "pump" /\ engine \in MarkEngines /\ engine' = engine /\ Primes = NPump
      /\ nxt \in Nat /\ nxt >= 1 /\ nxt <= NPump /\ nxt \in Slots /\ NPump \in Nat /\ pc = "prime" /\ Ask \in Nat
      /\ buf' = buf /\ Len(buf) = 0 /\ ready' = ready /\ sent' = sent
  BY PrimeKeeps, PrimesFacts DEF PrimePump, MarkEngines
<1> DEFINE a == PumpReq(nxt)
<1>2. /\ Off(nxt + 1) = nxt * Chunk
      /\ a \in 0 .. Chunk /\ Off(nxt) \in Nat /\ Off(nxt) < Ask /\ Off(nxt) + a = Lesser(Off(nxt + 1), Ask)
  <2>1. nxt \in 1 .. nxt
    BY <1>1
  <2> QED BY <1>1, <2>1, PumpAsks
<1>3. Off(nxt + 1) \in Int /\ a \in Nat /\ Off(nxt) + a <= Ask /\ (Off(nxt + 1) <= Ask => Off(nxt) + a = Off(nxt + 1))
  <2>1. Off(nxt + 1) \in Int /\ Chunk \in Nat
    BY <1>1, OffFacts
  <2> QED BY <1>1, <1>2, <2>1 DEF Lesser
<1>4. slots[nxt].own = "none" /\ outstanding = Off(nxt)
  <2>1. nxt >= nxt
    BY <1>1
  <2> QED BY <1>1, <2>1 DEF ReadsInv, Priming
<1>5. WindowStep(a)
  BY <1>1 DEF PrimePump, PrimeWindow, WindowStep
<1>6. outstanding' = outstanding + IF nxt' # nxt THEN a ELSE 0
  BY <1>1 DEF Prime
<1> HIDE DEF a
<1>7. /\ Primed /\ Kernel(slots', fifo', ready', sent')
      /\ Pos(slots', ready', sent', 1) = Pos(slots, ready, sent, 1)
      /\ \/ /\ slots' = AsSent(slots, nxt, a) /\ fifo' = Append(fifo, nxt) /\ nxt' = nxt + 1
            /\ pc' = "prime" => nxt' <= Primes
         \/ UNCHANGED <<slots, fifo, nxt>> /\ pc' # "prime"
  BY <1>2, <1>4, <1>5, WindowSteps
<1>8. PICK r \in [1 .. Len(ready) + Len(fifo) + 1 -> Nat] :
        /\ Budget(slots, fifo, ready, sent, r)
        /\ outstanding = r[1] /\ Len(buf) + outstanding <= Ask /\ Pos(slots, ready, sent, 1) = Len(buf)
  BY <1>1 DEF ReadsInv, PumpHolds, Reading
<1>9. CASE UNCHANGED <<slots, fifo, nxt>> /\ pc' # "prime"
  <2>1. outstanding' = outstanding /\ outstanding' \in 0 .. Ask
    BY <1>1, <1>2, <1>4, <1>6, <1>9
  <2>2. PumpHolds'
    BY <1>1, <1>8, <1>9, <2>1 DEF PumpHolds
  <2> QED BY <1>1, <1>7, <1>9, <2>1, <2>2, MarkPrimed
<1>10. CASE /\ slots' = AsSent(slots, nxt, a) /\ fifo' = Append(fifo, nxt) /\ nxt' = nxt + 1
            /\ pc' = "prime" => nxt' <= Primes
  <2>1. outstanding' = Off(nxt) + a /\ outstanding' \in 0 .. Ask
    BY <1>1, <1>2, <1>3, <1>4, <1>6, <1>10
  <2>2. sent + r[Len(ready) + 1] + a <= Ask
    <3>1. Len(ready) \in Nat /\ Len(fifo) \in Nat /\ sent \in Nat
      BY TypeNow, LenProperties
    <3>2. r[1] \in Nat /\ r[Len(ready) + 1] \in Nat
      BY <1>8, <3>1, SMTT(30)
    <3>3. sent - Pos(slots, ready, sent, 1) <= r[1] - r[Len(ready) + 1]
      <4>1. 1 \in 1 .. Len(ready) + 1
        BY <3>1
      <4> QED BY <1>8, <4>1 DEF Budget
    <3>4. Pos(slots, ready, sent, 1) = 0 /\ r[1] = Off(nxt)
      BY <1>1, <1>4, <1>8
    <3>5. Off(nxt) \in Nat /\ a \in Nat /\ Ask \in Nat /\ Off(nxt) + a <= Ask
      BY <1>1, <1>2, <1>3, Zenon
    <3>6. sent + r[Len(ready) + 1] <= Off(nxt)
      BY <3>1, <3>2, <3>3, <3>4, <3>5
    <3> QED BY <3>1, <3>2, <3>5, <3>6
  <2>3. PICK q \in [1 .. Len(ready) + Len(Append(fifo, nxt)) + 1 -> Nat] :
          /\ Budget(AsSent(slots, nxt, a), Append(fifo, nxt), ready, sent, q)
          /\ r[1] \in Nat /\ q[1] = r[1] + a
    <3>1. Kernel(slots, fifo, ready, sent) /\ Budget(slots, fifo, ready, sent, r)
      BY <1>8, TypeNow
    <3>2. nxt \in Slots /\ slots[nxt].own \in {"none", "reaped"} /\ a \in 0 .. Chunk
      BY <1>1, <1>2, <1>4
    <3> QED BY <2>2, <3>1, <3>2, BudgetSend, SMTT(60)
  <2>4. q \in [1 .. Len(ready') + Len(fifo') + 1 -> Nat] /\ Budget(slots', fifo', ready', sent', q)
    BY <1>1, <1>10, <2>3
  <2>5. outstanding' = q[1] /\ Len(buf') + outstanding' <= Ask /\ Pos(slots', ready', sent', 1) = Len(buf')
    <3>1. outstanding' = q[1]
      BY <1>8, <1>4, <2>1, <2>3
    <3>2. Len(buf') = 0 /\ outstanding' \in Int /\ outstanding' <= Ask
      BY <1>1, <2>1
    <3>3. Pos(slots', ready', sent', 1) = Len(buf')
      BY <1>1, <1>7, <1>8
    <3> QED BY <1>1, <3>1, <3>2, <3>3
  <2>6. PumpHolds'
    BY <2>4, <2>5 DEF PumpHolds
  <2>7. pc' = "prime" => outstanding' = Off(nxt')
    <3> SUFFICES ASSUME pc' = "prime" PROVE outstanding' = Off(nxt + 1)
      BY <1>10
    <3>1. nxt + 1 \in 1 .. nxt + 1 /\ nxt + 1 \in Nat /\ nxt + 1 <= NPump
      BY <1>1, <1>10
    <3>2. Off(nxt + 1) \in Nat /\ Off(nxt + 1) < Ask
      BY <3>1, PumpAsks
    <3> QED BY <1>1, <1>3, <2>1, <3>2
  <2> QED BY <1>1, <1>7, <2>1, <2>6, <2>7, MarkPrimed
<1> QED BY <1>7, <1>9, <1>10

\* A prime step keeps the invariant.
LEMMA PrimeHolds ==
  ASSUME FrameReadsAssumption, ReadsInv, Prime
  PROVE  ReadsInv'
<1>1. PrimeUrbs \/ PrimeWinBatch \/ PrimeUrbStream \/ PrimePump \/ PrimeAll \/ PrimeWinStream
  BY DEF Prime
<1>2. CASE PrimeUrbs
  BY <1>2, PrimeCoverWindow DEF PrimeUrbs
<1>3. CASE PrimeWinBatch
  BY <1>3, PrimeCoverWindow DEF PrimeWinBatch
<1> QED BY <1>1, <1>2, <1>3, PrimeStream, PrimePumpHolds, PrimeBatch, PrimeWinStreamHolds

-----------------------------------------------------------------------------
(* The way out *)

\* What copying a transfer to the watermark gives.
LEMMA MarkedFacts ==
  ASSUME FrameReadsAssumption, buf \in Seq(0 .. MaxSent), MarkHolds, slots \in [Slots -> SlotType], sent \in 0 .. MaxSent,
         NEW i \in Slots, NEW len \in Nat, Len(buf) <= len,
         Len(buf) = len \/ slots[i].from = Len(buf), slots[i].from + slots[i].n <= sent,
         NEW m, m = Marked(i, len)
  PROVE  /\ m \in Seq(0 .. MaxSent) /\ Len(m) \in Nat /\ Len(m) <= len /\ Len(m) <= sent
         /\ Len(buf) <= Len(m) /\ Len(m) <= Len(buf) + slots[i].n
         /\ \A k \in 1 .. Len(m) : m[k] = k - 1
         /\ Len(m) = len \/ Len(m) = slots[i].from + slots[i].n
         /\ Len(buf) + slots[i].n <= len => Len(m) = Len(buf) + slots[i].n
<1> DEFINE b == Len(buf)
           n == slots[i].n
           q == Lesser(n, len - b)
           e == [k \in 1 .. q |-> slots[i].from + k - 1]
<1>1. slots[i] \in SlotType
  OBVIOUS
<1>2. n \in Nat /\ slots[i].from \in Nat /\ sent \in Nat /\ MaxSent \in Nat /\ sent <= MaxSent
  BY <1>1, SlotFields DEF FrameReadsAssumption
<1>3. b \in Nat /\ b <= sent /\ \A k \in 1 .. b : buf[k] = k - 1
  BY LenProperties DEF MarkHolds
<1>4. q \in Nat /\ q <= n /\ b + q <= len /\ (q = n \/ b + q = len) /\ (b + n <= len => q = n)
  <2>1. n \in Nat /\ b \in Nat /\ len \in Nat /\ b <= len /\ q = Lesser(n, len - b)
    BY <1>2, <1>3
  <2> HIDE DEF q, b, n
  <2>2. CASE n < len - b
    BY <2>1, <2>2 DEF Lesser
  <2>3. CASE ~(n < len - b)
    <3>1. q = len - b
      BY <2>1, <2>3 DEF Lesser
    <3> QED BY <2>1, <2>3, <3>1
  <2> QED BY <2>2, <2>3
<1> HIDE DEF q, b, n
<1>5. q # 0 => slots[i].from = b
  BY <1>3, <1>4 DEF b
<1>6. slots[i].from + n <= sent
  BY DEF n
<1>7. \A k \in 1 .. q : slots[i].from + k - 1 \in 0 .. MaxSent /\ slots[i].from + k - 1 = b + k - 1
  BY <1>2, <1>3, <1>4, <1>5, <1>6
<1>8. e \in Seq(0 .. MaxSent) /\ Len(e) = q /\ \A k \in 1 .. q : e[k] = b + k - 1
  BY <1>4, <1>7
<1>9. m = buf \o e
  BY DEF Marked, q, n, b
<1> HIDE DEF e
<1>10. /\ m \in Seq(0 .. MaxSent) /\ Len(m) = b + q
       /\ \A k \in 1 .. b + q : m[k] = IF k <= b THEN buf[k] ELSE e[k - b]
  <2>1. buf \in Seq(0 .. MaxSent)
    OBVIOUS
  <2>2. /\ buf \o e \in Seq(0 .. MaxSent) /\ Len(buf \o e) = Len(buf) + Len(e)
        /\ \A k \in 1 .. Len(buf) + Len(e) : (buf \o e)[k] = IF k <= Len(buf) THEN buf[k] ELSE e[k - Len(buf)]
    BY <1>8, <2>1, ConcatProperties, ZenonT(40)
  <2> QED BY <1>8, <1>9, <2>2 DEF b
<1>11. \A k \in 1 .. b + q : m[k] = k - 1
  <2> SUFFICES ASSUME NEW k \in 1 .. b + q PROVE m[k] = k - 1
    OBVIOUS
  <2>1. CASE k <= b
    <3>1. k \in 1 .. b
      BY <1>3, <1>4, <2>1
    <3> QED BY <1>3, <1>10, <2>1, <3>1
  <2>2. CASE ~(k <= b)
    <3>1. k - b \in 1 .. q /\ b + (k - b) - 1 = k - 1
      BY <1>3, <1>4, <2>2
    <3>2. e[k - b] = b + (k - b) - 1
      BY <1>8, <3>1
    <3> QED BY <1>10, <2>2, <3>1, <3>2
  <2> QED BY <2>1, <2>2
<1>12. Len(m) <= sent
  <2>1. CASE q = 0
    BY <1>3, <1>10, <2>1
  <2>2. CASE q # 0
    BY <1>2, <1>3, <1>4, <1>5, <1>6, <1>10, <2>2, SMTT(30)
  <2> QED BY <2>1, <2>2
<1>13. Len(m) = len \/ Len(m) = slots[i].from + n
  <2>1. CASE b = len
    BY <1>3, <1>4, <1>10, <2>1
  <2>2. CASE b # len
    <3>1. slots[i].from = b
      BY <2>2 DEF b
    <3> QED BY <1>4, <1>10, <3>1
  <2> QED BY <2>1, <2>2
<1>14. Len(m) \in Nat /\ Len(m) <= len /\ b <= Len(m) /\ Len(m) <= b + n /\ (b + n <= len => Len(m) = b + n)
  BY <1>2, <1>3, <1>4, <1>10
<1>15. \A k \in 1 .. Len(m) : m[k] = k - 1
  BY <1>10, <1>11
<1> QED BY <1>10, <1>12, <1>13, <1>14, <1>15 DEF b, n

\* WinUSB's stream has one transfer.
LEMMA OneSlot ==
  ASSUME FrameReadsAssumption, NEW f, NEW q, NEW o, Queued(f, q, o), o \in {"kernel", "complete"},
         \A i \in Slots : i > 1 => f[i] = Unused
  PROVE  /\ q # <<>> => f[1].own = o /\ Head(q) = 1 /\ Tail(q) = <<>>
         /\ f[1].own = o => q # <<>>
<1>1. q \in Seq(Slots) /\ Len(q) \in Nat
  BY LenProperties DEF Queued
<1>2. \A k \in 1 .. Len(q) : q[k] = 1 /\ f[1].own = o
  <2> SUFFICES ASSUME NEW k \in 1 .. Len(q) PROVE q[k] = 1 /\ f[1].own = o
    OBVIOUS
  <2>1. q[k] \in Slots /\ f[q[k]].own = o
    BY <1>1, ElementOfSeq DEF Queued
  <2>2. ~(q[k] > 1)
    BY <2>1 DEF Unused
  <2> QED BY <2>1, <2>2, SlotNat
<1>3. \A k \in 1 .. Len(q) : k = 1
  <2>1. \A k \in 1 .. Len(q) : 1 \in 1 .. Len(q)
    BY <1>1
  <2> QED BY <1>2, <2>1 DEF Queued
<1>4. ASSUME q # <<>> PROVE f[1].own = o /\ Head(q) = 1 /\ Tail(q) = <<>>
  <2>1. Len(q) # 0 /\ Head(q) = q[1] /\ Tail(q) \in Seq(Slots) /\ Len(Tail(q)) = Len(q) - 1
    BY <1>1, <1>4, TailOf
  <2>2. 1 \in 1 .. Len(q) /\ Len(q) \in 1 .. Len(q)
    BY <1>1, <2>1
  <2>3. Len(q) = 1
    BY <1>3, <2>2
  <2>4. Tail(q) = <<>>
    <3>1. Tail(q) \in Seq(Slots) /\ Len(Tail(q)) = 0
      BY <2>1, <2>3
    <3>2. Tail(q) # <<>> => Len(Tail(q)) # 0
      BY <3>1, EmptySeq
    <3> QED BY <3>1, <3>2
  <2> QED BY <1>2, <2>1, <2>2, <2>4
<1>5. f[1].own = o => q # <<>>
  <2> SUFFICES ASSUME f[1].own = o, q = <<>> PROVE FALSE
    OBVIOUS
  <2>1. Len(q) = 0
    BY EmptySeq
  <2>2. 1 \in Slots
    BY SlotsFacts
  <2>3. \E k \in 1 .. Len(q) : q[k] = 1
    BY <2>2 DEF Queued
  <2> QED BY <2>1, <2>3
<1> QED BY <1>4, <1>5

\* Where the oldest completed transfer lies.
LEMMA HeadPos ==
  ASSUME FrameReadsAssumption, NEW f, NEW ff, NEW rd, NEW s, Kernel(f, ff, rd, s), rd # <<>>
  PROVE  /\ Head(rd) \in Slots /\ f[Head(rd)] \in SlotType /\ f[Head(rd)].own = "complete"
         /\ Pos(f, rd, s, 1) = f[Head(rd)].from /\ f[Head(rd)].from + f[Head(rd)].n <= s
         /\ f[Head(rd)].n <= f[Head(rd)].req
<1>1. rd \in Seq(Slots) /\ f \in [Slots -> SlotType]
  BY DEF Kernel, Queued
<1>2. Head(rd) \in Slots /\ Head(rd) = rd[1] /\ 1 \in 1 .. Len(rd) /\ 1 <= Len(rd)
  BY <1>1, TailOf
<1>3. f[rd[1]].from + f[rd[1]].n <= s
  BY <1>2 DEF Kernel, Chained
<1>4. f[Head(rd)].own = "complete"
  BY <1>2 DEF Kernel, Queued
<1> QED BY <1>1, <1>2, <1>3, <1>4 DEF Pos, Kernel, SlotHolds

\* Reaping excuses nothing.
LEMMA ReapExcuses ==
  ASSUME FrameReadsAssumption, ReadsInv, ready # <<>>,
         slots' = AsReaped(slots, Head(ready)), engine' = engine, nxt' = nxt, excused => excused'
  PROVE  /\ Excuses'
         /\ \A i \in 1 .. NCover : slots[i].own = "reaped" => slots'[i] = slots[i]
<1>1. Kernel(slots, fifo, ready, sent) /\ slots \in [Slots -> SlotType]
  BY TypeNow
<1>2. Head(ready) \in Slots /\ slots[Head(ready)].own = "complete"
  BY <1>1, HeadPos
<1>3. /\ slots'[Head(ready)].own = "reaped"
      /\ \A j \in Slots : slots'[j].n = slots[j].n /\ slots'[j].st = slots[j].st
      /\ \A j \in Slots \ {Head(ready)} : slots'[j] = slots[j]
  BY <1>1, <1>2, ReapedSlots
<1>4. \A i \in Slots : In(slots', i) => In(slots, i)
  BY <1>2, <1>3 DEF In
<1>5. Excuses'
  <2> SUFFICES ASSUME ~excused'
               PROVE  /\ \A i \in Slots : slots'[i].st = "ok"
                      /\ engine' \in CoverEngines => \A i \in 1 .. nxt' - 1 : In(slots', i) => slots'[i].n = Req(i)
    BY DEF Excuses
  <2>1. /\ \A i \in Slots : slots[i].st = "ok"
        /\ engine \in CoverEngines => \A i \in 1 .. nxt - 1 : In(slots, i) => slots[i].n = Req(i)
    BY DEF ReadsInv, Excuses
  <2>2. engine \in CoverEngines => \A i \in 1 .. nxt - 1 : i \in Slots
    BY OrderNext DEF ReadsInv, Cover
  <2> QED BY <1>3, <1>4, <2>1, <2>2
<1> QED BY <1>2, <1>3, <1>5, OffAt

\* What came back is taken before the call returns.
LEMMA DrainHolds ==
  ASSUME FrameReadsAssumption, ReadsInv, DrainReap
  PROVE  ReadsInv'
<1> DEFINE h == Head(ready)
<1>1. /\ pc = "drain" /\ ready # <<>> /\ slots' = AsReaped(slots, h) /\ ready' = Tail(ready)
      /\ buf' = IF engine = "winstream" THEN Marked(1, FrameLen) ELSE buf
      /\ UNCHANGED <<engine, fifo, nxt, cur, got, outstanding, pc, ret, out, late, latch, refused, broken, sent, excused, after>>
  BY DEF DrainReap, Reaped, AsReaped, endVars
<1>2. Kernel(slots, fifo, ready, sent) /\ slots \in [Slots -> SlotType] /\ buf \in Seq(0 .. MaxSent)
  BY TypeNow
<1>3. h \in Slots /\ slots[h].own = "complete"
  BY <1>1, <1>2, HeadPos
<1>4. Kernel(slots', fifo', ready', sent') /\ Pos(slots', ready', sent', 1) = slots[h].from + slots[h].n
  BY <1>1, <1>2, KernelReap
<1>5. engine' \in CoverEngines => Cover(slots', fifo', ready', nxt', sent')
  BY <1>1, <1>2, CoverReap DEF ReadsInv
<1>6. /\ slots'[h].own = "reaped"
      /\ \A j \in Slots : slots'[j].req = slots[j].req /\ slots'[j].from = slots[j].from
                          /\ slots'[j].n = slots[j].n /\ slots'[j].st = slots[j].st
      /\ \A j \in Slots \ {h} : slots'[j] = slots[j]
  BY <1>1, <1>2, <1>3, ReapedSlots
<1>7. Excuses' /\ \A i \in 1 .. NCover : slots[i].own = "reaped" => slots'[i] = slots[i]
  BY <1>1, ReapExcuses
<1>8. engine = "winstream" =>
        /\ buf' \in Seq(0 .. MaxSent) /\ Len(buf') <= FrameLen /\ Len(buf') <= sent
        /\ \A k \in 1 .. Len(buf') : buf'[k] = k - 1
        /\ Len(buf') = FrameLen \/ Len(buf') = slots[h].from + slots[h].n
        /\ Len(buf) = FrameLen => Len(buf') = FrameLen
  <2> SUFFICES ASSUME engine = "winstream"
               PROVE  /\ buf' \in Seq(0 .. MaxSent) /\ Len(buf') <= FrameLen /\ Len(buf') <= sent
                      /\ \A k \in 1 .. Len(buf') : buf'[k] = k - 1
                      /\ Len(buf') = FrameLen \/ Len(buf') = slots[h].from + slots[h].n
                      /\ Len(buf) = FrameLen => Len(buf') = FrameLen
    OBVIOUS
  <2>1. MarkHolds /\ Room = FrameLen
    BY DEF ReadsInv, MarkEngines, Room
  <2>2. h = 1
    <3>1. Queued(slots, ready, "complete") /\ \A i \in Slots : i > 1 => slots[i] = Unused
      BY <1>2, <2>1 DEF Kernel, MarkHolds
    <3> QED BY <1>1, <3>1, OneSlot
  <2>3. Len(buf) = FrameLen \/ slots[h].from = Len(buf)
    BY <1>1, <1>2, <2>1, HeadPos DEF MarkHolds
  <2>4. /\ buf' = Marked(h, FrameLen) /\ FrameLen \in Nat /\ Len(buf) <= FrameLen /\ sent \in 0 .. MaxSent
        /\ slots[h].from + slots[h].n <= sent
    BY <1>1, <1>2, <2>2, TypeNow, HeadPos DEF FrameReadsAssumption
  <2>5. Len(buf) \in Nat
    BY <1>2, LenProperties
  <2> HIDE DEF h
  <2>6. /\ buf' \in Seq(0 .. MaxSent) /\ Len(buf') \in Nat /\ Len(buf') <= FrameLen /\ Len(buf') <= sent
        /\ Len(buf) <= Len(buf')
        /\ \A k \in 1 .. Len(buf') : buf'[k] = k - 1
        /\ Len(buf') = FrameLen \/ Len(buf') = slots[h].from + slots[h].n
    BY <1>2, <1>3, <2>1, <2>3, <2>4, MarkedFacts, SMTT(30)
  <2> QED BY <2>4, <2>5, <2>6
<1>9. TypeOK'
  <2>1. buf' \in Seq(0 .. MaxSent) /\ Len(buf') <= (IF engine' = "pump" THEN Ask ELSE FrameLen)
    BY <1>1, <1>8, TypeNow
  <2> QED BY <1>1, <1>4, <2>1, TypeNow, TypeFrom
<1>10. Fed' /\ Priming' /\ Waiting'
  BY <1>1 DEF Fed, Looping, Priming, Waiting
<1>11. BatchHolds'
  BY <1>1 DEF ReadsInv, BatchHolds
<1> HIDE DEF h
<1>12. WinHolds'
  <2> SUFFICES ASSUME engine' = "winbatch", NEW i \in 1 .. cur' - 1 PROVE slots'[i].own = "reaped"
    BY <1>1 DEF WinHolds, Reading
  <2>1. slots[i].own = "reaped"
    BY <1>1 DEF ReadsInv, WinHolds
  <2>2. i \in 1 .. nxt - 1
    <3>1. nxt \in Nat /\ cur \in 1 .. nxt
      BY TypeNow
    <3> QED BY <1>1, <3>1
  <2>3. i \in 1 .. NCover
    <3>1. CoverOrder(slots, fifo, ready, nxt)
      BY <1>1 DEF ReadsInv, Cover, CoverEngines
    <3> QED BY <2>2, <3>1, OrderNext
  <2> QED BY <1>7, <2>1, <2>3
<1>13. engine' \in MarkEngines => MarkHolds'
  <2> SUFFICES ASSUME engine' \in MarkEngines PROVE MarkHolds'
    OBVIOUS
  <2>1. MarkHolds
    BY <1>1 DEF ReadsInv
  <2>2. (\A k \in 1 .. Len(buf') : buf'[k] = k - 1) /\ Len(buf') <= sent'
    BY <1>1, <1>8, <2>1 DEF MarkHolds
  <2>3. Reading' \/ engine' = "winstream" => Len(buf') = Room' \/ Pos(slots', ready', sent', 1) = Len(buf')
    BY <1>1, <1>4, <1>8 DEF Room, Reading
  <2>4. engine' = "winstream" => \A i \in Slots : i > 1 => slots'[i] = Unused
    <3> SUFFICES ASSUME engine' = "winstream", NEW i \in Slots, i > 1 PROVE slots'[i] = Unused
      OBVIOUS
    <3>1. slots[i] = Unused
      BY <1>1, <2>1 DEF MarkHolds
    <3>2. i # h
      BY <1>3, <3>1 DEF Unused
    <3> QED BY <1>6, <3>1, <3>2
  <2> QED BY <2>2, <2>3, <2>4 DEF MarkHolds
<1>14. PumpHolds'
  <2> SUFFICES ASSUME engine' = "pump" PROVE PumpHolds'
    BY DEF PumpHolds
  <2>1. PICK r \in [1 .. Len(ready) + Len(fifo) + 1 -> Nat] : Budget(slots, fifo, ready, sent, r)
    BY <1>1 DEF ReadsInv, PumpHolds
  <2>2. \E q \in [1 .. Len(ready') + Len(fifo') + 1 -> Nat] : Budget(slots', fifo', ready', sent', q)
    BY <1>1, <1>2, <2>1, BudgetReap DEF h
  <2> QED BY <1>1, <2>2 DEF PumpHolds, Reading
<1>15. OutHolds'
  <2> SUFFICES ASSUME pc' = "done" \/ (pc' = "drain" /\ CountsAtExit')
               PROVE  IF engine' \in CoverEngines THEN Solid(slots', out') ELSE out' <= Len(buf') /\ out' <= FrameLen
    BY DEF OutHolds
  <2>1. IF engine \in CoverEngines THEN Solid(slots, out) ELSE out <= Len(buf) /\ out <= FrameLen
    BY <1>1 DEF ReadsInv, OutHolds, CountsAtExit
  <2>2. Solid(slots, out) => Solid(slots', out)
    BY <1>7, SolidKeeps
  <2>3. buf' = buf
    BY <1>1 DEF CountsAtExit
  <2> QED BY <1>1, <2>1, <2>2, <2>3
<1>16. ShortHolds'
  <2> SUFFICES ASSUME pc' \in {"drain", "done"}, ret' = "ok", ~excused'
               PROVE  /\ CountsAtExit' \/ AllIn'
                      /\ CountsAtExit' \/ pc' = "done" => out' = FrameLen
    BY DEF ShortHolds
  <2>1. /\ CountsAtExit \/ AllIn
        /\ CountsAtExit \/ pc = "done" => out = FrameLen
    BY <1>1 DEF ReadsInv, ShortHolds
  <2>2. AllIn => AllIn'
    <3>1. CASE engine = "winstream"
      BY <1>1, <1>8, <3>1 DEF AllIn
    <3>2. CASE engine # "winstream"
      BY <1>1, <1>7, <3>2 DEF AllIn, Whole
    <3> QED BY <3>1, <3>2
  <2>3. CountsAtExit' <=> CountsAtExit
    BY <1>1 DEF CountsAtExit
  <2> QED BY <1>1, <2>1, <2>2, <2>3
<1> QED BY <1>4, <1>5, <1>7, <1>9, <1>10, <1>11, <1>12, <1>13, <1>14, <1>15, <1>16 DEF ReadsInv

\* What the call returns is what is there.
LEMMA CountHolds ==
  ASSUME FrameReadsAssumption, ReadsInv, pc = "drain"
  PROVE  /\ IF engine \in CoverEngines THEN Solid(slots, Count) ELSE Count <= Len(buf) /\ Count <= FrameLen
         /\ Count \in 0 .. FrameLen
         /\ ret = "ok" /\ ~excused => Count = FrameLen
<1>1. Kernel(slots, fifo, ready, sent) /\ out \in 0 .. FrameLen /\ Len(buf) <= (IF engine = "pump" THEN Ask ELSE FrameLen)
      /\ buf \in Seq(0 .. MaxSent) /\ engine \in AllEngines
  BY TypeNow
<1>2. Len(buf) \in Nat /\ FrameLen \in Nat
  BY <1>1, LenProperties DEF FrameReadsAssumption
<1>3. CASE engine \in {"urbpreq", "async", "preq"}
  <2>1. Count = Prefix /\ engine \in CoverEngines /\ ~CountsAtExit
    BY <1>3 DEF Count, CoverEngines, CountsAtExit
  <2>2. Solid(slots, Prefix) /\ Prefix \in 0 .. FrameLen
    BY <1>1, <2>1, PrefixSolid DEF ReadsInv
  <2>3. ret = "ok" /\ ~excused => \A i \in 1 .. NCover : Whole(i)
    <3>1. ret = "ok" /\ ~excused => AllIn
      BY <2>1 DEF ReadsInv, ShortHolds
    <3> QED BY <1>3, <3>1 DEF AllIn
  <2> QED BY <2>1, <2>2, <2>3, PrefixWhole
<1>4. CASE engine = "winstream"
  <2>1. Count = Len(buf) /\ engine \notin CoverEngines /\ ~CountsAtExit
    BY <1>4 DEF Count, CoverEngines, CountsAtExit
  <2>2. ret = "ok" /\ ~excused => Len(buf) = FrameLen
    BY <1>4, <2>1 DEF ReadsInv, ShortHolds, AllIn
  <2> QED BY <1>1, <1>2, <1>4, <2>1, <2>2
<1>5. CASE engine \in {"urbs", "winbatch", "urbstream", "pump"}
  <2>1. Count = out /\ CountsAtExit
    BY <1>5 DEF Count, CountsAtExit
  <2>2. IF engine \in CoverEngines THEN Solid(slots, out) ELSE out <= Len(buf) /\ out <= FrameLen
    BY <2>1 DEF ReadsInv, OutHolds
  <2>3. ret = "ok" /\ ~excused => out = FrameLen
    BY <2>1 DEF ReadsInv, ShortHolds
  <2> QED BY <1>1, <2>1, <2>2, <2>3
<1> QED BY <1>1, <1>3, <1>4, <1>5 DEF AllEngines, CoverEngines, MarkEngines

\* The call returns.
LEMMA ReturnHolds ==
  ASSUME FrameReadsAssumption, ReadsInv, Finish \/ Abandon
  PROVE  ReadsInv'
<1>1. /\ pc = "drain" /\ pc' = "done" /\ out' = Count /\ ret' \in {"ok", "error", "broken"} /\ (ret' = "ok" => ret = "ok")
      /\ UNCHANGED <<engine, slots, fifo, ready, nxt, cur, buf, got, outstanding, late, latch, refused, sent, excused, after>>
      /\ broken' \in BOOLEAN
  <2>1. ret \in {"ok", "error", "broken"} /\ broken \in BOOLEAN
    BY TypeNow
  <2>2. CASE Finish
    BY <2>1, <2>2 DEF Finish, FinalRet, kernelVars, countVars
  <2>3. CASE Abandon
    BY <2>1, <2>3 DEF Abandon, kernelVars, countVars
  <2> QED BY <2>2, <2>3
<1>2. /\ IF engine \in CoverEngines THEN Solid(slots, out') ELSE out' <= Len(buf) /\ out' <= FrameLen
      /\ out' \in 0 .. FrameLen
      /\ ret = "ok" /\ ~excused => out' = FrameLen
  BY <1>1, CountHolds
<1>3. Kernel(slots', fifo', ready', sent')
  BY <1>1 DEF ReadsInv
<1>4. TypeOK'
  BY <1>1, <1>2, <1>3, TypeNow, TypeFrom
<1>5. engine' \in CoverEngines => Cover(slots', fifo', ready', nxt', sent')
  BY <1>1 DEF ReadsInv
<1>6. Excuses'
  BY <1>1 DEF ReadsInv, Excuses
<1>7. Fed' /\ Priming' /\ Waiting'
  BY <1>1 DEF Fed, Looping, Priming, Waiting
<1>8. BatchHolds' /\ WinHolds'
  BY <1>1 DEF ReadsInv, BatchHolds, WinHolds, Reading
<1>9. engine' \in MarkEngines => MarkHolds'
  BY <1>1 DEF ReadsInv, MarkHolds, Room, Reading
<1>10. PumpHolds'
  BY <1>1 DEF ReadsInv, PumpHolds, Reading
<1>11. OutHolds'
  BY <1>1, <1>2 DEF OutHolds
<1>12. ShortHolds'
  <2>1. CountsAtExit \/ AllIn \/ ~(ret = "ok" /\ ~excused)
    BY <1>1 DEF ReadsInv, ShortHolds
  <2>2. (AllIn <=> AllIn') /\ (CountsAtExit <=> CountsAtExit')
    BY <1>1 DEF AllIn, Whole, CountsAtExit
  <2> QED BY <1>1, <1>2, <2>1, <2>2 DEF ShortHolds
<1> QED BY <1>1, <1>3, <1>4, <1>5, <1>6, <1>7, <1>8, <1>9, <1>10, <1>11, <1>12 DEF ReadsInv

-----------------------------------------------------------------------------
(* The loops *)

\* Leaving a loop with a count.
LEMMA ExitHolds ==
  ASSUME FrameReadsAssumption, ReadsInv, Looping, NEW r, NEW k, Exit(r, k),
         UNCHANGED <<engine, outstanding, late, latch, broken, sent>>, after' \in Nat,
         r \in {"ok", "error"}, k \in 0 .. FrameLen, excused' \in BOOLEAN, excused => excused',
         CountsAtExit => IF engine \in CoverEngines THEN Solid(slots, k) ELSE k <= Len(buf),
         r = "ok" /\ ~excused' => IF CountsAtExit THEN k = FrameLen ELSE AllIn
  PROVE  ReadsInv'
<1>1. /\ pc' = "drain" /\ ret' = r /\ out' = k
      /\ UNCHANGED <<engine, slots, fifo, ready, nxt, cur, buf, got, outstanding, late, latch, refused, broken, sent>>
  BY DEF Exit, kernelVars, countVars
<1>2. Kernel(slots', fifo', ready', sent')
  BY <1>1 DEF ReadsInv
<1>3. TypeOK'
  BY <1>1, <1>2, TypeNow, TypeFrom
<1>4. engine' \in CoverEngines => Cover(slots', fifo', ready', nxt', sent')
  BY <1>1 DEF ReadsInv
<1>5. Excuses'
  BY <1>1 DEF ReadsInv, Excuses
<1>6. Fed' /\ Priming' /\ Waiting'
  BY <1>1 DEF Fed, Looping, Priming, Waiting
<1>7. BatchHolds' /\ WinHolds'
  BY <1>1 DEF ReadsInv, BatchHolds, WinHolds, Reading, Looping
<1>8. engine' \in MarkEngines => MarkHolds'
  BY <1>1 DEF ReadsInv, MarkHolds, Room, Reading
<1>9. PumpHolds'
  BY <1>1 DEF ReadsInv, PumpHolds, Reading
<1>10. (CountsAtExit <=> CountsAtExit') /\ (AllIn <=> AllIn')
  BY <1>1 DEF CountsAtExit, AllIn, Whole
<1>11. k <= FrameLen
  BY DEF FrameReadsAssumption
<1>12. OutHolds'
  BY <1>1, <1>10, <1>11 DEF OutHolds
<1>13. ShortHolds'
  BY <1>1, <1>10 DEF ShortHolds
<1> QED BY <1>1, <1>2, <1>3, <1>4, <1>5, <1>6, <1>7, <1>8, <1>9, <1>12, <1>13 DEF ReadsInv

\* Going on, with nothing taken or given.
LEMMA LoopedHolds ==
  ASSUME FrameReadsAssumption, ReadsInv, Looping, Looping',
         UNCHANGED <<engine, slots, fifo, ready, nxt, cur, buf, got, outstanding, ret, out,
                     late, latch, refused, broken, sent, excused>>, after' \in Nat,
         pc' = "reap" => /\ engine \in MarkEngines => Len(buf) # Room
                         /\ engine = "winbatch" => cur < nxt
  PROVE  ReadsInv'
<1>1. pc \notin {"prime", "drain", "done"} /\ pc' \in {"loop", "reap"} /\ (Reading <=> Reading') /\ (Looping <=> Looping')
  BY DEF Looping, Reading
<1>2. Kernel(slots', fifo', ready', sent')
  BY DEF ReadsInv
<1>3. TypeOK'
  BY <1>1, <1>2, TypeNow, TypeFrom
<1>4. engine' \in CoverEngines => Cover(slots', fifo', ready', nxt', sent')
  BY DEF ReadsInv
<1>5. Excuses'
  BY DEF ReadsInv, Excuses
<1>6. Fed'
  BY <1>1 DEF ReadsInv, Fed, Pending, Room
<1>7. BatchHolds' /\ WinHolds'
  BY <1>1 DEF ReadsInv, BatchHolds, WinHolds
<1>8. engine' \in MarkEngines => MarkHolds'
  BY <1>1 DEF ReadsInv, MarkHolds, Room
<1>9. PumpHolds'
  BY <1>1 DEF ReadsInv, PumpHolds
<1>10. OutHolds' /\ ShortHolds' /\ Priming'
  BY <1>1 DEF OutHolds, ShortHolds, Priming
<1>11. Waiting'
  BY DEF Waiting, Room
<1> QED BY <1>2, <1>3, <1>4, <1>5, <1>6, <1>7, <1>8, <1>9, <1>10, <1>11 DEF ReadsInv

\* The tests: enough is in, time is up, or there is something to wait for.
LEMMA TestHolds ==
  ASSUME FrameReadsAssumption, ReadsInv, NEW enough \in BOOLEAN, NEW k, Test(enough, k),
         UNCHANGED <<engine, outstanding, late, latch, broken, sent>>, after' \in Nat,
         k \in 0 .. FrameLen,
         CountsAtExit => IF engine \in CoverEngines THEN Solid(slots, k) ELSE k <= Len(buf),
         enough /\ ~excused => IF CountsAtExit THEN k = FrameLen ELSE AllIn,
         ~enough => /\ engine \in MarkEngines => Len(buf) # Room
                    /\ engine = "winbatch" => cur < nxt
  PROVE  ReadsInv'
<1>1. Looping /\ excused \in BOOLEAN
  BY TypeNow DEF Test, Looping
<1>2. CASE enough
  <2>1. Exit("ok", k) /\ excused' = excused
    BY <1>2 DEF Test
  <2> QED BY <1>1, <1>2, <2>1, ExitHolds
<1>3. CASE ~enough /\ Stops
  <2>1. Exit("ok", k) /\ excused' = TRUE
    BY <1>3 DEF Test
  <2> QED BY <1>1, <2>1, ExitHolds
<1>4. CASE ~enough /\ ~Stops
  <2>1. pc' = "reap" /\ UNCHANGED <<slots, fifo, ready, nxt, cur, buf, got, ret, out, refused, excused>>
    BY <1>4 DEF Test, kernelVars, countVars
  <2> QED BY <1>1, <1>4, <2>1, LoopedHolds DEF Looping
<1> QED BY <1>2, <1>3, <1>4

\* The wait brought nothing.
LEMMA AgainHolds ==
  ASSUME FrameReadsAssumption, ReadsInv, Looping, Again,
         UNCHANGED <<engine, outstanding, late, latch, broken, sent>>, after' \in Nat
  PROVE  ReadsInv'
<1>1. pc' = "loop" /\ UNCHANGED <<slots, fifo, ready, nxt, cur, buf, got, ret, out, refused, excused>>
  BY DEF Again, kernelVars, countVars
<1> QED BY <1>1, LoopedHolds DEF Looping

\* The oldest completed transfer is reaped, and the next slot may be submitted.
LEMMA SlideHolds ==
  ASSUME FrameReadsAssumption, ReadsInv, engine \in CoverEngines, ready # <<>>,
         engine' = engine, sent' = sent, ready' = Tail(ready), excused => excused',
         \/ /\ slots' = AsReaped(slots, Head(ready)) /\ fifo' = fifo /\ nxt' = nxt
            /\ nxt > NCover \/ excused'
         \/ /\ ~(nxt > NCover)
            /\ slots' = AsSent(AsReaped(slots, Head(ready)), nxt, Req(nxt))
            /\ fifo' = Append(fifo, nxt) /\ nxt' = nxt + 1
  PROVE  /\ Kernel(slots', fifo', ready', sent') /\ Cover(slots', fifo', ready', nxt', sent') /\ Excuses'
         /\ nxt' = nxt \/ nxt' = nxt + 1
         /\ nxt' \in Nat /\ nxt' >= 1 /\ nxt' <= SlotCount + 1
         /\ ~excused' => Pending' \/ nxt' = NCover + 1
         /\ \A i \in 1 .. NCover : slots[i].own = "reaped" => slots'[i] = slots[i]
         /\ \A i \in 1 .. NCover : slots'[i].own = "reaped" => i = Head(ready) \/ slots[i].own = "reaped"
         /\ Head(ready) \in Slots /\ slots[Head(ready)].own = "complete"
         /\ slots'[Head(ready)].own = "reaped" /\ slots'[Head(ready)].n = slots[Head(ready)].n
<1> DEFINE h == Head(ready)
           f == AsReaped(slots, h)
<1>1. Kernel(slots, fifo, ready, sent) /\ slots \in [Slots -> SlotType] /\ Cover(slots, fifo, ready, nxt, sent)
  BY TypeNow DEF ReadsInv
<1>2. h \in Slots /\ slots[h].own = "complete"
  BY <1>1, HeadPos
<1>3. Kernel(f, fifo, Tail(ready), sent) /\ Cover(f, fifo, Tail(ready), nxt, sent)
  BY <1>1, KernelReap, CoverReap
<1>4. /\ f \in [Slots -> SlotType] /\ f[h].own = "reaped"
      /\ \A j \in Slots : f[j].n = slots[j].n /\ f[j].st = slots[j].st
      /\ \A j \in Slots \ {h} : f[j] = slots[j]
  BY <1>1, <1>2, ReapedSlots
<1> HIDE DEF f
<1>5. \A i \in 1 .. NCover : i \in Slots
  BY OffAt
<1>6. NCover \in Nat /\ NCover <= SlotCount /\ SlotCount \in Nat /\ nxt \in Nat /\ nxt >= 1 /\ nxt <= NCover + 1
  BY <1>1, OrderNext, SlotsFacts DEF Cover
<1>7. /\ ~excused => \A i \in Slots : slots[i].st = "ok"
      /\ ~excused => \A i \in 1 .. nxt - 1 : In(slots, i) => slots[i].n = Req(i)
  BY DEF ReadsInv, Excuses
<1>8. \A i \in 1 .. nxt - 1 : i \in Slots
  BY <1>1, OrderNext DEF Cover
<1>9. \A i \in Slots : In(f, i) => In(slots, i)
  BY <1>2, <1>4 DEF In
<1>10. CASE /\ slots' = f /\ fifo' = fifo /\ nxt' = nxt
            /\ nxt > NCover \/ excused'
  <2>1. Kernel(slots', fifo', ready', sent') /\ Cover(slots', fifo', ready', nxt', sent')
    BY <1>3, <1>10
  <2>2. Excuses'
    BY <1>4, <1>7, <1>8, <1>9, <1>10 DEF Excuses, In
  <2>3. nxt' \in Nat /\ nxt' >= 1 /\ nxt' <= SlotCount + 1
    BY <1>6, <1>10
  <2>4. ~excused' => nxt' = NCover + 1
    BY <1>6, <1>10
  <2> QED BY <1>2, <1>4, <1>5, <1>10, <2>1, <2>2, <2>3, <2>4
<1>11. CASE /\ ~(nxt > NCover)
            /\ slots' = AsSent(f, nxt, Req(nxt))
            /\ fifo' = Append(fifo, nxt) /\ nxt' = nxt + 1
  <2>1. nxt <= NCover
    BY <1>6, <1>11
  <2>2. /\ nxt \in Slots /\ f[nxt].own = "none" /\ Req(nxt) \in 0 .. Chunk
        /\ Cover(slots', fifo', ready', nxt', sent')
    BY <1>3, <1>11, <2>1, CoverSend
  <2>3. Kernel(slots', fifo', ready', sent')
    BY <1>3, <1>11, <2>2, KernelSend
  <2>4. slots'[nxt] = Sent(Req(nxt)) /\ \A i \in Slots \ {nxt} : slots'[i] = f[i]
    BY <1>4, <1>11, <2>2, SentSlots
  <2>5. nxt # h
    BY <1>4, <2>2
  <2>6. Excuses'
    <3> SUFFICES ASSUME ~excused'
                 PROVE  /\ \A i \in Slots : slots'[i].st = "ok"
                        /\ \A i \in 1 .. nxt' - 1 : In(slots', i) => slots'[i].n = Req(i)
      BY DEF Excuses
    <3>1. \A i \in Slots : slots'[i].st = "ok"
      BY <1>4, <1>7, <2>4 DEF Sent
    <3>2. ASSUME NEW i \in 1 .. nxt' - 1, In(slots', i) PROVE slots'[i].n = Req(i)
      <4>1. i # nxt
        BY <2>4, <3>2 DEF In, Sent
      <4>2. i \in 1 .. nxt - 1
        BY <1>6, <1>11, <4>1
      <4>3. slots'[i] = f[i] /\ i \in Slots
        BY <1>8, <2>4, <4>1, <4>2
      <4> QED BY <1>4, <1>7, <1>9, <3>2, <4>2, <4>3 DEF In
    <3> QED BY <3>1, <3>2
  <2>7. Pending'
    <3>1. fifo \in Seq(Slots)
      BY TypeNow
    <3>2. fifo' # <<>>
      BY <1>11, <2>2, <3>1, AppendOf
    <3> QED BY <3>2 DEF Pending
  <2>8. nxt' \in Nat /\ nxt' >= 1 /\ nxt' <= SlotCount + 1
    BY <1>6, <1>11, <2>1
  <2>9. ASSUME NEW i \in 1 .. NCover PROVE (slots[i].own = "reaped" => slots'[i] = slots[i])
                                        /\ (slots'[i].own = "reaped" => i = h \/ slots[i].own = "reaped")
    <3>1. CASE i = nxt
      BY <1>4, <2>2, <2>4, <2>5, <3>1 DEF Sent
    <3>2. CASE i # nxt
      <4>1. i \in Slots /\ slots'[i] = f[i]
        BY <1>5, <2>4, <3>2
      <4> QED BY <1>2, <1>4, <4>1
    <3> QED BY <3>1, <3>2
  <2>10. slots'[h].own = "reaped" /\ slots'[h].n = slots[h].n
    BY <1>2, <1>4, <2>4, <2>5
  <2> QED BY <1>2, <1>11, <2>2, <2>3, <2>6, <2>7, <2>8, <2>9, <2>10
<1> QED BY <1>10, <1>11 DEF f

\* What a cover engine other than WinUSB's does with a completed transfer.
LEMMA CoverLoops ==
  ASSUME FrameReadsAssumption, ReadsInv, Looping,
         engine \in {"urbs", "urbpreq", "async", "preq"}, ready # <<>>,
         UNCHANGED <<engine, outstanding, late, latch, broken, sent, cur, buf, got, ret, out>>, after' \in Nat,
         ready' = Tail(ready), excused => excused', excused' \in BOOLEAN, refused' \in 0 .. MaxRefused,
         \/ /\ slots' = AsReaped(slots, Head(ready)) /\ fifo' = fifo /\ nxt' = nxt
            /\ nxt > NCover \/ excused'
         \/ /\ ~(nxt > NCover)
            /\ slots' = AsSent(AsReaped(slots, Head(ready)), nxt, Req(nxt))
            /\ fifo' = Append(fifo, nxt) /\ nxt' = nxt + 1,
         pc' = "loop" \/ (pc' = "drain" /\ ~CountsAtExit /\ excused')
  PROVE  ReadsInv'
<1>1. engine' \in CoverEngines /\ engine' # "winbatch" /\ engine \in CoverEngines /\ engine' # "pump"
  BY DEF CoverEngines
<1>2. /\ Kernel(slots', fifo', ready', sent') /\ Cover(slots', fifo', ready', nxt', sent') /\ Excuses'
      /\ nxt' = nxt \/ nxt' = nxt + 1
      /\ nxt' \in Nat /\ nxt' >= 1 /\ nxt' <= SlotCount + 1
      /\ ~excused' => Pending' \/ nxt' = NCover + 1
  BY <1>1, SlideHolds
<1>3. TypeOK'
  <2>1. cur' \in 1 .. nxt'
    <3>1. nxt \in Nat /\ cur \in 1 .. nxt
      BY TypeNow
    <3> QED BY <1>2, <3>1
  <2>2. pc' \in {"prime", "loop", "reap", "drain", "done"}
    OBVIOUS
  <2> QED BY <1>2, <2>1, <2>2, TypeNow, TypeFrom
<1>4. Fed' /\ Priming' /\ Waiting'
  BY <1>1, <1>2 DEF Fed, Priming, Waiting
<1>5. BatchHolds'
  <2> SUFFICES ASSUME engine' \in {"async", "preq"} PROVE nxt' = NCover + 1
    BY DEF BatchHolds
  <2>1. nxt = NCover + 1
    BY DEF ReadsInv, BatchHolds, Looping
  <2>2. nxt > NCover
    BY <2>1, SlotNat
  <2> QED BY <2>1, <2>2
<1>6. WinHolds'
  BY <1>1 DEF WinHolds
<1>7. CountsAtExit' <=> CountsAtExit
  BY DEF CountsAtExit
<1>8. OutHolds' /\ ShortHolds'
  BY <1>7 DEF OutHolds, ShortHolds
<1> QED BY <1>1, <1>2, <1>3, <1>4, <1>5, <1>6, <1>8, CoverFrom

\* What SlideUrbs does, in those terms.
LEMMA SlideUrbsIs ==
  ASSUME FrameReadsAssumption, ReadsInv, Looping, engine \in {"urbs", "urbpreq"}, ready # <<>>,
         SlideUrbs(Head(ready)), UNCHANGED <<engine, outstanding, late, latch, broken, sent>>, after' \in Nat
  PROVE  ReadsInv'
<1>1. refused \in 0 .. MaxRefused /\ MaxRefused \in Nat /\ excused \in BOOLEAN
  BY TypeNow DEF FrameReadsAssumption
<1>2. ready' = Tail(ready) /\ pc' = "loop" /\ UNCHANGED <<cur, buf, got, ret, out>>
  BY DEF SlideUrbs
<1>3. \/ /\ slots' = AsReaped(slots, Head(ready)) /\ fifo' = fifo /\ nxt' = nxt
         /\ nxt > NCover \/ excused'
      \/ /\ ~(nxt > NCover)
         /\ slots' = AsSent(AsReaped(slots, Head(ready)), nxt, Req(nxt))
         /\ fifo' = Append(fifo, nxt) /\ nxt' = nxt + 1
  BY DEF SlideUrbs, AsReaped, AsSent, Reaped
<1>4. (excused => excused') /\ excused' \in BOOLEAN
  BY <1>1 DEF SlideUrbs
<1>5. refused' \in 0 .. MaxRefused
  BY <1>1 DEF SlideUrbs, MayRefuse
<1> QED BY <1>2, <1>3, <1>4, <1>5, CoverLoops

\* When a cover engine's queues are empty, or its prefix ended, without an excuse.
LEMMA CoverEnd ==
  ASSUME FrameReadsAssumption, ReadsInv, Looping, engine \in CoverEngines, ~excused
  PROVE  /\ ~FrameEnded /\ ~ScanEnded
         /\ ~Pending => \A i \in 1 .. NCover : Whole(i)
<1>1. Kernel(slots, fifo, ready, sent) /\ Cover(slots, fifo, ready, nxt, sent) /\ Excuses
  BY DEF ReadsInv
<1>2. ~Pending => nxt = NCover + 1
  BY DEF ReadsInv, Fed, CoverEngines
<1> QED BY <1>1, <1>2, InIsGood

\* usbfs readFrameURBs.
LEMMA UrbsHolds ==
  ASSUME FrameReadsAssumption, ReadsInv, UrbsLoop, Looping,
         UNCHANGED <<engine, outstanding, late, latch, broken, sent>>, after' \in Nat
  PROVE  ReadsInv'
<1>1. engine = "urbs" /\ engine \in CoverEngines /\ engine \notin MarkEngines /\ CountsAtExit /\ excused \in BOOLEAN
  BY TypeNow DEF UrbsLoop, CoverEngines, MarkEngines, CountsAtExit
<1>2. Kernel(slots, fifo, ready, sent) /\ Cover(slots, fifo, ready, nxt, sent) /\ FrameLen \in Nat
  BY <1>1 DEF ReadsInv, FrameReadsAssumption
<1>3. Solid(slots, Prefix) /\ Prefix \in 0 .. FrameLen
  BY <1>2, PrefixSolid
<1>4. CASE Test(~Pending \/ FrameEnded, Prefix)
  <2>1. (~Pending \/ FrameEnded) /\ ~excused => Prefix = FrameLen
    <3>1. (~Pending \/ FrameEnded) /\ ~excused => \A i \in 1 .. NCover : Whole(i)
      BY <1>1, CoverEnd
    <3> QED BY <3>1, PrefixWhole
  <2>2. (~Pending \/ FrameEnded) \in BOOLEAN
    OBVIOUS
  <2> QED BY <1>1, <1>3, <1>4, <2>1, <2>2, TestHolds
<1>5. CASE Exit("error", 0) /\ UNCHANGED excused
  <2>1. Solid(slots, 0) /\ 0 \in 0 .. FrameLen
    BY <1>2, OffAt DEF Solid
  <2> QED BY <1>1, <1>5, <2>1, ExitHolds
<1>6. CASE ready # <<>> /\ SlideUrbs(Head(ready))
  BY <1>1, <1>6, SlideUrbsIs
<1>7. CASE Again
  BY <1>7, AgainHolds
<1> QED BY <1>4, <1>5, <1>6, <1>7 DEF UrbsLoop

\* usbfs ReadFrameStreamPrequeued.
LEMMA UrbPreqHolds ==
  ASSUME FrameReadsAssumption, ReadsInv, UrbPreqLoop, Looping,
         UNCHANGED <<engine, outstanding, late, latch, broken, sent>>, after' \in Nat
  PROVE  ReadsInv'
<1>1. /\ engine = "urbpreq" /\ engine \in CoverEngines /\ engine \notin MarkEngines /\ ~CountsAtExit
      /\ engine # "winstream" /\ excused \in BOOLEAN /\ 0 \in 0 .. FrameLen
  BY TypeNow DEF UrbPreqLoop, CoverEngines, MarkEngines, CountsAtExit, FrameReadsAssumption
<1>2. CASE Test(FrameEnded \/ FirstEnd > NCover, 0)
  <2>1. (FrameEnded \/ FirstEnd > NCover) /\ ~excused => AllIn
    <3>1. (FrameEnded \/ FirstEnd > NCover) /\ ~excused => FirstEnd > NCover
      BY <1>1, CoverEnd
    <3> QED BY <1>1, <3>1, PrefixEnds DEF AllIn
  <2>2. (FrameEnded \/ FirstEnd > NCover) \in BOOLEAN
    OBVIOUS
  <2> QED BY <1>1, <1>2, <2>1, <2>2, TestHolds
<1>3. CASE Exit("error", 0) /\ UNCHANGED excused
  BY <1>1, <1>3, ExitHolds
<1>4. CASE Exit("ok", 0) /\ excused' = TRUE
  BY <1>1, <1>4, ExitHolds
<1>5. CASE ready # <<>> /\ SlideUrbs(Head(ready))
  BY <1>1, <1>5, SlideUrbsIs
<1>6. CASE Again
  BY <1>6, AgainHolds
<1> QED BY <1>2, <1>3, <1>4, <1>5, <1>6 DEF UrbPreqLoop

\* One completion of a batch is taken.
LEMMA BatchReaped ==
  ASSUME FrameReadsAssumption, ReadsInv, Looping, engine \in {"async", "preq"},
         UNCHANGED <<engine, outstanding, late, latch, broken, sent>>, after' \in Nat,
         ready # <<>>, NEW stop \in BOOLEAN, ReapBatch(stop), stop => excused', excused => excused', excused' \in BOOLEAN
  PROVE  ReadsInv'
<1>1. /\ slots' = AsReaped(slots, Head(ready)) /\ ready' = Tail(ready)
      /\ pc' = IF stop THEN "drain" ELSE "loop"
      /\ UNCHANGED <<fifo, nxt, cur, buf, got, ret, out, refused>>
  BY DEF ReapBatch, Reaped, AsReaped, countVars
<1>2. nxt > NCover
  BY SlotNat DEF ReadsInv, BatchHolds, Looping
<1>3. refused' \in 0 .. MaxRefused /\ ~CountsAtExit
  BY <1>1, TypeNow DEF CountsAtExit
<1> QED BY <1>1, <1>2, <1>3, CoverLoops

\* The batch of IOKit.
LEMMA AsyncHolds ==
  ASSUME FrameReadsAssumption, ReadsInv, Looping, AsyncLoop,
         UNCHANGED <<engine, outstanding, late, latch, broken, sent>>, after' \in Nat
  PROVE  ReadsInv'
<1>1. /\ engine = "async" /\ engine \in CoverEngines /\ ~CountsAtExit /\ engine # "winstream"
      /\ excused \in BOOLEAN /\ Expired \in BOOLEAN /\ 0 \in 0 .. FrameLen
  BY TypeNow DEF AsyncLoop, CoverEngines, CountsAtExit, Expired, FrameReadsAssumption
<1>2. excused' = (excused \/ Expired)
  BY DEF AsyncLoop
<1>3. (excused => excused') /\ (Expired => excused') /\ excused' \in BOOLEAN
  BY <1>1, <1>2
<1>4. CASE ready # <<>> /\ ReapBatch(Expired)
  BY <1>1, <1>3, <1>4, BatchReaped
<1>5. CASE (Expired \/ ~Pending) /\ Exit("ok", 0)
  <2>1. ~excused' => AllIn
    <3>1. ~excused' => ~excused /\ ~Pending
      BY <1>2, <1>5
    <3> QED BY <1>1, <3>1, CoverEnd DEF AllIn
  <2> QED BY <1>1, <1>3, <1>5, <2>1, ExitHolds
<1> QED BY <1>4, <1>5 DEF AsyncLoop

\* And its prequeued one.
LEMMA PreqHolds ==
  ASSUME FrameReadsAssumption, ReadsInv, Looping, PreqLoop,
         UNCHANGED <<engine, outstanding, late, latch, broken, sent>>, after' \in Nat
  PROVE  ReadsInv'
<1>1. /\ engine = "preq" /\ engine \in CoverEngines /\ ~CountsAtExit /\ engine # "winstream"
      /\ excused \in BOOLEAN /\ Expired \in BOOLEAN /\ ScanEnded \in BOOLEAN /\ 0 \in 0 .. FrameLen
  BY TypeNow DEF PreqLoop, CoverEngines, CountsAtExit, Expired, ScanEnded, FrameReadsAssumption
<1>2. ScanEnded => excused
  BY <1>1, CoverEnd
<1>3. CASE ready # <<>> /\ ReapBatch(Expired \/ ScanEnded) /\ excused' = (excused \/ Expired)
  <2>1. (excused => excused') /\ (Expired \/ ScanEnded => excused') /\ excused' \in BOOLEAN /\ (Expired \/ ScanEnded) \in BOOLEAN
    BY <1>1, <1>2, <1>3
  <2> QED BY <1>1, <1>3, <2>1, BatchReaped
<1>4. CASE (Expired \/ ScanEnded \/ ~Pending) /\ Exit("ok", 0) /\ excused' = (excused \/ Expired)
  <2>1. ~excused' => AllIn
    <3>1. ~excused' => ~excused /\ ~Pending
      BY <1>2, <1>4
    <3> QED BY <1>1, <3>1, CoverEnd DEF AllIn
  <2>2. (excused => excused') /\ excused' \in BOOLEAN
    BY <1>1, <1>4
  <2> QED BY <1>1, <1>4, <2>1, <2>2, ExitHolds
<1>5. CASE Exit("ok", 0) /\ excused' = TRUE
  BY <1>1, <1>5, ExitHolds
<1> QED BY <1>3, <1>4, <1>5 DEF PreqLoop
\* WinUSB's batch: every slot before the one waited for is in, and whole.
LEMMA WinAt ==
  ASSUME FrameReadsAssumption, ReadsInv, Looping, engine = "winbatch"
  PROVE  /\ engine \in CoverEngines /\ CountsAtExit
         /\ Kernel(slots, fifo, ready, sent) /\ Cover(slots, fifo, ready, nxt, sent) /\ CoverOrder(slots, fifo, ready, nxt)
         /\ nxt \in Nat /\ NCover \in Nat /\ nxt <= NCover + 1 /\ cur \in Nat /\ cur >= 1 /\ cur <= nxt
         /\ \A i \in 1 .. cur - 1 : i \in 1 .. NCover /\ i \in Slots
         /\ \A i \in 1 .. cur - 1 : slots[i].own = "reaped" /\ slots[i].n = Req(i)
         /\ \A i \in cur .. nxt - 1 : slots[i].own # "reaped"
         /\ got = IF cur <= NCover THEN Off(cur) ELSE FrameLen
<1>1. engine \in CoverEngines /\ CountsAtExit
  BY DEF CoverEngines, CountsAtExit
<1>2. Kernel(slots, fifo, ready, sent) /\ Cover(slots, fifo, ready, nxt, sent) /\ CoverOrder(slots, fifo, ready, nxt)
  BY <1>1 DEF ReadsInv, Cover
<1>3. nxt \in Nat /\ NCover \in Nat /\ nxt <= NCover + 1
  BY <1>2, OrderNext
<1>4. cur \in Nat /\ cur >= 1 /\ cur <= nxt
  <2>1. cur \in 1 .. nxt
    BY TypeNow
  <2> QED BY <1>3, <2>1
<1>5. \A i \in 1 .. cur - 1 : i \in 1 .. NCover /\ i \in Slots
  <2>1. \A i \in 1 .. cur - 1 : i \in 1 .. NCover
    BY <1>3, <1>4
  <2> QED BY <2>1, OffAt
<1>6. /\ \A i \in 1 .. cur - 1 : slots[i].own = "reaped"
      /\ \A i \in 1 .. cur - 1 : slots[i].n = Req(i)
      /\ \A i \in cur .. nxt - 1 : slots[i].own # "reaped"
      /\ got = IF cur <= NCover THEN Off(cur) ELSE FrameLen
  BY DEF ReadsInv, WinHolds, Looping, Reading
<1> QED BY <1>1, <1>2, <1>3, <1>4, <1>5, <1>6

\* A slot with the kernel, or complete, is not before the one waited for.
LEMMA WinAhead ==
  ASSUME FrameReadsAssumption, ReadsInv, Looping, engine = "winbatch",
         NEW i \in Slots, slots[i].own \in {"kernel", "complete"}
  PROVE  i \in Nat /\ cur <= i /\ i < nxt
<1>1. /\ nxt \in Nat /\ cur \in Nat /\ CoverOrder(slots, fifo, ready, nxt)
      /\ \A j \in 1 .. cur - 1 : slots[j].own = "reaped"
  BY WinAt
<1>2. i \in Nat /\ i >= 1 /\ ~(i >= nxt)
  BY <1>1, OrderAt
<1>3. ~(i < cur)
  <2>1. i < cur => i \in 1 .. cur - 1
    BY <1>1, <1>2
  <2> QED BY <1>1, <2>1
<1> QED BY <1>1, <1>2, <1>3

\* WinUSB batchRead.
LEMMA WinBatchHolds ==
  ASSUME FrameReadsAssumption, ReadsInv, Looping, WinBatchLoop,
         UNCHANGED <<engine, outstanding, late, latch, broken, sent>>, after' \in Nat
  PROVE  ReadsInv'
<1>1. engine = "winbatch"
  BY DEF WinBatchLoop
<1>2. /\ engine \in CoverEngines /\ CountsAtExit
      /\ Kernel(slots, fifo, ready, sent) /\ Cover(slots, fifo, ready, nxt, sent) /\ CoverOrder(slots, fifo, ready, nxt)
      /\ nxt \in Nat /\ NCover \in Nat /\ nxt <= NCover + 1 /\ cur \in Nat /\ cur >= 1 /\ cur <= nxt
      /\ \A i \in 1 .. cur - 1 : i \in 1 .. NCover /\ i \in Slots
      /\ \A i \in 1 .. cur - 1 : slots[i].own = "reaped" /\ slots[i].n = Req(i)
      /\ \A i \in cur .. nxt - 1 : slots[i].own # "reaped"
      /\ got = IF cur <= NCover THEN Off(cur) ELSE FrameLen
  BY <1>1, WinAt
<1>3. excused \in BOOLEAN /\ got \in 0 .. FrameLen /\ refused \in 0 .. MaxRefused /\ MaxRefused \in Nat
      /\ fifo \in Seq(Slots) /\ ready \in Seq(Slots) /\ FrameLen \in Nat /\ got \in Nat
  <2>1. FrameLen \in Nat /\ MaxRefused \in Nat
    BY DEF FrameReadsAssumption
  <2> QED BY <2>1, TypeNow
<1>4. Solid(slots, got)
  <2>1. cur \in 1 .. NCover + 1
    BY <1>2
  <2>2. (cur > NCover => got = FrameLen) /\ (cur <= NCover => got = Off(cur))
    BY <1>2
  <2> QED BY <1>2, <2>1, <2>2, SolidUpTo
<1>5. CASE Test(cur = nxt, got)
  <2>1. cur = nxt => ~Pending
    <3> SUFFICES ASSUME cur = nxt PROVE ~Pending
      OBVIOUS
    <3>1. fifo # <<>> => slots[Head(fifo)].own = "kernel" /\ Head(fifo) \in Slots
      <4>1. fifo # <<>> => Head(fifo) \in Slots /\ Head(fifo) = fifo[1] /\ 1 \in 1 .. Len(fifo)
        BY <1>3, TailOf
      <4> QED BY <1>2, <4>1 DEF Kernel, Queued
    <3>2. ready # <<>> => slots[Head(ready)].own = "complete" /\ Head(ready) \in Slots
      BY <1>2, HeadPos
    <3>3. ASSUME NEW i \in Slots, slots[i].own \in {"kernel", "complete"} PROVE FALSE
      <4>1. i \in Nat /\ cur <= i /\ i < nxt
        BY <1>1, <3>3, WinAhead
      <4> QED BY <1>2, <4>1
    <3> QED BY <3>1, <3>2, <3>3 DEF Pending
  <2>2. cur = nxt /\ ~excused => nxt = NCover + 1
    BY <1>1, <1>2, <2>1 DEF ReadsInv, Fed
  <2>3. cur = nxt /\ ~excused => got = FrameLen
    BY <1>2, <2>2
  <2>4. cur # nxt => cur < nxt
    BY <1>2
  <2>5. (cur = nxt) \in BOOLEAN /\ engine \notin MarkEngines
    BY <1>1 DEF MarkEngines
  <2> QED BY <1>2, <1>3, <1>4, <1>5, <2>3, <2>4, <2>5, TestHolds
<1>6. CASE Exit("ok", got) /\ excused' = TRUE
  BY <1>2, <1>3, <1>4, <1>6, ExitHolds
<1>7. CASE /\ pc = "reap" /\ slots[cur].own = "complete"
           /\ got' = got + slots[cur].n
           /\ IF slots[cur].st # "ok" \/ slots[cur].n < Req(cur)
                THEN /\ pc' = "drain" /\ out' = got'
                     /\ ret' = IF slots[cur].st = "hard" THEN "error" ELSE "ok"
                     /\ slots' = Reaped(cur) /\ ready' = Tail(ready)
                     /\ UNCHANGED <<fifo, nxt, cur, buf, refused, excused>>
                ELSE /\ cur' = cur + 1
                     /\ SlideWin
  <2>1. cur < nxt /\ cur \in 1 .. NCover /\ cur \in Slots /\ cur \in 1 .. nxt - 1 /\ cur \in 1 .. NCover + 1 /\ cur <= NCover
    <3>1. cur < nxt
      BY <1>1, <1>7 DEF ReadsInv, Waiting
    <3>2. cur \in 1 .. NCover /\ cur \in 1 .. nxt - 1 /\ cur \in 1 .. NCover + 1 /\ cur <= NCover
      BY <1>2, <3>1
    <3> QED BY <3>1, <3>2, OffAt
  <2>2. ready # <<>> /\ Head(ready) = cur
    <3>1. Queued(slots, ready, "complete") /\ Ascends(ready)
      BY <1>2 DEF Kernel, CoverOrder
    <3>2. ready # <<>>
      <4>1. \E k \in 1 .. Len(ready) : ready[k] = cur
        BY <1>7, <2>1, <3>1 DEF Queued
      <4> QED BY <4>1, EmptySeq
    <3>3. Head(ready) <= cur
      BY <1>7, <2>1, <3>1, <3>2, HeadLeast
    <3>4. Head(ready) \in Nat /\ cur <= Head(ready)
      <4>1. Head(ready) \in Slots /\ slots[Head(ready)].own = "complete"
        BY <1>2, <3>2, HeadPos
      <4> QED BY <1>1, <4>1, WinAhead
    <3> QED BY <1>2, <3>2, <3>3, <3>4
  <2>3. slots[cur].n \in Nat /\ slots[cur].n <= Req(cur)
    BY <1>2, <2>1, AtMost
  <2>4. /\ Off(cur) \in Nat /\ Req(cur) \in Nat /\ Off(cur) + Req(cur) <= FrameLen /\ got = Off(cur)
        /\ Off(cur) + Req(cur) = IF cur + 1 <= NCover THEN Off(cur + 1) ELSE FrameLen
    <3>1. /\ Off(cur) \in Nat /\ Req(cur) \in Nat /\ Off(cur) + Req(cur) <= FrameLen
          /\ cur = NCover => Off(cur) + Req(cur) = FrameLen
          /\ cur # NCover => Off(cur) + Req(cur) = Off(cur + 1) /\ cur + 1 \in 1 .. NCover
      BY <2>1, OffAt
    <3>2. (cur = NCover => ~(cur + 1 <= NCover)) /\ (cur # NCover => cur + 1 <= NCover)
      BY <1>2, <2>1
    <3> QED BY <1>2, <2>1, <3>1, <3>2
  <2>5. got' = Off(cur) + slots[cur].n /\ got' \in 0 .. FrameLen
    BY <1>3, <1>7, <2>3, <2>4, SMTT(30)
  <2>6. CASE slots[cur].st # "ok" \/ slots[cur].n < Req(cur)
    <3>1. /\ pc' = "drain" /\ out' = got' /\ ret' \in {"ok", "error"}
          /\ slots' = AsReaped(slots, Head(ready)) /\ ready' = Tail(ready)
          /\ UNCHANGED <<fifo, nxt, cur, buf, refused, excused>>
      BY <1>7, <2>2, <2>6 DEF Reaped, AsReaped
    <3>2. excused /\ excused'
      <4>1. ~excused => slots[cur].st = "ok" /\ slots[cur].n = Req(cur)
        BY <1>2, <1>7, <2>1 DEF ReadsInv, Excuses, In
      <4> QED BY <2>3, <2>4, <2>6, <3>1, <4>1
    <3>3. /\ Kernel(slots', fifo', ready', sent') /\ Cover(slots', fifo', ready', nxt', sent') /\ Excuses'
          /\ \A i \in 1 .. NCover : slots[i].own = "reaped" => slots'[i] = slots[i]
          /\ slots'[Head(ready)].own = "reaped" /\ slots'[Head(ready)].n = slots[Head(ready)].n
      BY <1>2, <2>2, <3>1, <3>2, SlideHolds
    <3>4. \A i \in 1 .. cur - 1 : slots'[i].own = "reaped" /\ slots'[i].n = Req(i)
      BY <1>2, <3>3
    <3>5. slots'[cur].own = "reaped" /\ got' = Off(cur) + slots'[cur].n
      BY <2>2, <2>5, <3>3
    <3>6. Solid(slots', got')
      <4>1. ~(cur > NCover)
        BY <1>2, <2>1
      <4> QED BY <2>1, <3>3, <3>4, <3>5, <4>1, SolidUpTo
    <3>7. TypeOK'
      <4>1. out' \in 0 .. FrameLen
        BY <2>5, <3>1
      <4> QED BY <2>5, <3>1, <3>3, <4>1, TypeNow, TypeFrom
    <3>8. Priming' /\ Waiting' /\ Fed' /\ BatchHolds'
      BY <1>1, <3>1 DEF Fed, Looping, Priming, Waiting, BatchHolds
    <3>9. WinHolds'
      BY <3>1, <3>4 DEF WinHolds, Reading
    <3>10. OutHolds' /\ ShortHolds'
      BY <1>2, <3>1, <3>2, <3>6 DEF OutHolds, ShortHolds
    <3> QED BY <1>2, <3>3, <3>7, <3>8, <3>9, <3>10, CoverFrom
  <2>7. CASE ~(slots[cur].st # "ok" \/ slots[cur].n < Req(cur))
    <3>1. /\ cur' = cur + 1 /\ ready' = Tail(ready) /\ pc' = "loop" /\ UNCHANGED <<buf, ret, out>>
          /\ \/ /\ slots' = AsReaped(slots, Head(ready)) /\ fifo' = fifo /\ nxt' = nxt
                /\ nxt > NCover \/ excused'
             \/ /\ ~(nxt > NCover)
                /\ slots' = AsSent(AsReaped(slots, Head(ready)), nxt, Req(nxt))
                /\ fifo' = Append(fifo, nxt) /\ nxt' = nxt + 1
      BY <1>7, <2>2, <2>7 DEF SlideWin, Reaped, AsReaped, AsSent
    <3>2. (excused => excused') /\ excused' \in BOOLEAN
      BY <1>3, <1>7, <2>7 DEF SlideWin
    <3>3. refused' \in 0 .. MaxRefused
      BY <1>3, <1>7, <2>7 DEF SlideWin, MayRefuse
    <3>4. /\ Kernel(slots', fifo', ready', sent') /\ Cover(slots', fifo', ready', nxt', sent') /\ Excuses'
          /\ nxt' = nxt \/ nxt' = nxt + 1
          /\ nxt' \in Nat /\ nxt' >= 1 /\ nxt' <= SlotCount + 1
          /\ ~excused' => Pending' \/ nxt' = NCover + 1
          /\ \A i \in 1 .. NCover : slots[i].own = "reaped" => slots'[i] = slots[i]
          /\ \A i \in 1 .. NCover : slots'[i].own = "reaped" => i = Head(ready) \/ slots[i].own = "reaped"
          /\ slots'[Head(ready)].own = "reaped" /\ slots'[Head(ready)].n = slots[Head(ready)].n
      BY <1>2, <2>2, <3>1, <3>2, SlideHolds
    <3>5. slots[cur].n = Req(cur)
      BY <2>3, <2>4, <2>7
    <3>6. ASSUME NEW i \in 1 .. cur PROVE slots'[i].own = "reaped" /\ slots'[i].n = Req(i)
      <4>1. CASE i = cur
        BY <2>2, <3>4, <3>5, <4>1
      <4>2. CASE i # cur
        <5>1. i \in 1 .. cur - 1
          BY <1>2, <4>2
        <5> QED BY <1>2, <3>4, <5>1
      <4> QED BY <4>1, <4>2
    <3>13. PICK m \in Nat : m = nxt'
      BY <3>4
    <3>7. ASSUME NEW i \in cur + 1 .. m - 1 PROVE slots'[i].own # "reaped"
      <4>1. i \in Nat /\ i # cur /\ i >= 1 /\ i \in 1 .. m - 1 /\ i < m /\ cur < i
        BY <1>2
      <4>2. i \in 1 .. NCover
        <5>1. CoverOrder(slots', fifo', ready', nxt')
          BY <3>4 DEF Cover
        <5>2. i \in 1 .. nxt' - 1
          BY <3>13, <4>1
        <5> QED BY <5>1, <5>2, OrderNext
      <4>3. slots[i].own # "reaped"
        <5>1. CASE i < nxt
          <6>1. i \in cur .. nxt - 1
            BY <1>2, <4>1, <5>1
          <6> QED BY <1>2, <6>1
        <5>2. CASE ~(i < nxt)
          <6>1. i \in Slots /\ i >= nxt
            BY <1>2, <4>1, <4>2, <5>2, OffAt
          <6> QED BY <1>2, <6>1, OrderAt
        <5> QED BY <5>1, <5>2
      <4> QED BY <2>2, <3>4, <4>1, <4>2, <4>3
    <3>8. cur' \in 1 .. nxt' /\ got' = (IF cur' <= NCover THEN Off(cur') ELSE FrameLen)
      <4>1. cur' \in 1 .. nxt'
        BY <1>2, <2>1, <3>1, <3>4
      <4> QED BY <2>4, <2>5, <3>1, <3>5, <4>1
    <3>9. TypeOK'
      BY <2>5, <3>1, <3>2, <3>3, <3>4, <3>8, TypeNow, TypeFrom
    <3>10. pc' = "loop"
      BY <3>1
    <3>11. WinHolds'
      <4>1. cur' - 1 = cur
        BY <1>2, <3>1
      <4>2. \A i \in cur' .. nxt' - 1 : slots'[i].own # "reaped"
        BY <3>1, <3>13, <3>7
      <4> QED BY <3>6, <3>8, <4>1, <4>2 DEF WinHolds
    <3>12. Fed' /\ BatchHolds' /\ Priming' /\ Waiting' /\ OutHolds' /\ ShortHolds'
      BY <1>1, <1>2, <3>4, <3>10 DEF Fed, BatchHolds, Priming, Waiting, OutHolds, ShortHolds
    <3> QED BY <1>2, <3>4, <3>9, <3>10, <3>11, <3>12, CoverFrom
  <2> QED BY <2>6, <2>7
<1>8. CASE Again
  BY <1>8, AgainHolds
<1> QED BY <1>5, <1>6, <1>7, <1>8 DEF WinBatchLoop

-----------------------------------------------------------------------------
(* The loops of the mark engines *)

\* Two functions that differ at one place only, once that place is overwritten.
LEMMA SameBut ==
  ASSUME NEW S, NEW T, NEW f \in [S -> T], NEW g \in [S -> T], NEW i \in S, NEW v,
         \A j \in S \ {i} : f[j] = g[j]
  PROVE  [f EXCEPT ![i] = v] = [g EXCEPT ![i] = v]
<1>1. [f EXCEPT ![i] = v] = [j \in S |-> IF j = i THEN v ELSE f[j]]
  OBVIOUS
<1>2. [g EXCEPT ![i] = v] = [j \in S |-> IF j = i THEN v ELSE g[j]]
  OBVIOUS
<1>3. [j \in S |-> IF j = i THEN v ELSE f[j]] = [j \in S |-> IF j = i THEN v ELSE g[j]]
  OBVIOUS
<1> QED BY <1>1, <1>2, <1>3

\* A transfer that goes round: it is reaped, and may be submitted again.
LEMMA RecycleIs ==
  ASSUME FrameReadsAssumption, ReadsInv, ready # <<>>, NEW i, i = Head(ready),
         NEW q \in Int, q <= Chunk, Recycle(i, q), engine' = engine, sent' = sent
  PROVE  /\ i \in Slots /\ slots[i] \in SlotType /\ slots[i].n \in Nat /\ slots[i].from \in Nat /\ slots[i].req \in Nat
         /\ slots[i].n <= slots[i].req /\ slots[i].from + slots[i].n <= sent /\ Pos(slots, ready, sent, 1) = slots[i].from
         /\ Kernel(AsReaped(slots, i), fifo, Tail(ready), sent) /\ AsReaped(slots, i)[i].own = "reaped"
         /\ Kernel(slots', fifo', ready', sent') /\ Pos(slots', ready', sent', 1) = slots[i].from + slots[i].n
         /\ Pos(AsReaped(slots, i), Tail(ready), sent, 1) = slots[i].from + slots[i].n
         /\ ready' = Tail(ready) /\ pc' = "loop" /\ UNCHANGED <<nxt, cur, got, ret, out>>
         /\ refused' \in 0 .. MaxRefused /\ excused' \in BOOLEAN /\ (excused => excused')
         /\ \/ slots' = AsReaped(slots, i) /\ fifo' = fifo /\ (q <= 0 \/ excused')
            \/ /\ q \in 0 .. Chunk /\ slots' = AsSent(AsReaped(slots, i), i, q)
               /\ fifo' = Append(fifo, i) /\ fifo' # fifo /\ Pending' /\ slots'[i].req = q
         /\ engine \notin CoverEngines => Excuses'
<1>1. Kernel(slots, fifo, ready, sent) /\ slots \in [Slots -> SlotType] /\ fifo \in Seq(Slots)
      /\ refused \in 0 .. MaxRefused /\ excused \in BOOLEAN /\ MaxRefused \in Nat /\ Chunk \in Nat
  BY TypeNow DEF FrameReadsAssumption
<1>2. /\ i \in Slots /\ slots[i] \in SlotType /\ slots[i].own = "complete"
      /\ Pos(slots, ready, sent, 1) = slots[i].from /\ slots[i].from + slots[i].n <= sent
      /\ slots[i].n <= slots[i].req
  BY <1>1, HeadPos
<1>3. slots[i].n \in Nat /\ slots[i].from \in Nat /\ slots[i].req \in Nat
  BY <1>2, SlotFields
<1> DEFINE f == AsReaped(slots, i)
<1>4. Kernel(f, fifo, Tail(ready), sent) /\ Pos(f, Tail(ready), sent, 1) = slots[i].from + slots[i].n
  BY <1>1, KernelReap
<1>5. /\ f \in [Slots -> SlotType] /\ f[i].own = "reaped" /\ \A j \in Slots : f[j].st = slots[j].st
      /\ \A j \in Slots \ {i} : f[j] = slots[j]
  BY <1>1, <1>2, ReapedSlots
<1>6. ready' = Tail(ready) /\ pc' = "loop" /\ UNCHANGED <<nxt, cur, got, ret, out>>
  BY DEF Recycle
<1>7. refused' \in 0 .. MaxRefused
  BY <1>1 DEF Recycle, MayRefuse
<1>8. excused' \in BOOLEAN /\ (excused => excused')
  BY <1>1 DEF Recycle
<1>9. \/ slots' = f /\ fifo' = fifo /\ (q <= 0 \/ excused')
      \/ ~(q <= 0) /\ slots' = [slots EXCEPT ![i] = Sent(q)] /\ fifo' = Append(fifo, i)
  BY DEF Recycle, Reaped, AsReaped
<1> HIDE DEF f
<1>10. [slots EXCEPT ![i] = Sent(q)] = AsSent(f, i, q)
  <2>1. [slots EXCEPT ![i] = Sent(q)] = [f EXCEPT ![i] = Sent(q)]
    BY <1>1, <1>2, <1>5, SameBut
  <2> QED BY <2>1 DEF AsSent
<1>11. engine \notin CoverEngines /\ ~excused' => \A j \in Slots : slots[j].st = "ok"
  BY <1>8 DEF ReadsInv, Excuses
<1>12. CASE slots' = f /\ fifo' = fifo /\ (q <= 0 \/ excused')
  <2>1. engine \notin CoverEngines => Excuses'
    BY <1>5, <1>11, <1>12 DEF Excuses
  <2> QED BY <1>2, <1>3, <1>4, <1>5, <1>6, <1>7, <1>8, <1>12, <2>1 DEF f
<1>13. CASE ~(q <= 0) /\ slots' = [slots EXCEPT ![i] = Sent(q)] /\ fifo' = Append(fifo, i)
  <2>1. q \in 0 .. Chunk
    BY <1>1, <1>13
  <2>2. slots' = AsSent(f, i, q)
    BY <1>10, <1>13
  <2>3. Kernel(slots', fifo', ready', sent') /\ Pos(slots', ready', sent', 1) = Pos(f, Tail(ready), sent, 1)
    <3>1. /\ Kernel(AsSent(f, i, q), Append(fifo, i), Tail(ready), sent)
          /\ Pos(AsSent(f, i, q), Tail(ready), sent, 1) = Pos(f, Tail(ready), sent, 1)
      <4>1. f[i].own \in {"none", "reaped"}
        BY <1>5
      <4> QED BY <1>2, <1>4, <2>1, <4>1, KernelSend
    <3> QED BY <1>6, <1>13, <2>2, <3>1
  <2>4. slots'[i] = Sent(q) /\ \A j \in Slots \ {i} : slots'[j] = f[j]
    BY <1>2, <1>5, <2>1, <2>2, SentSlots
  <2>5. engine \notin CoverEngines => Excuses'
    BY <1>5, <1>11, <2>4 DEF Excuses, Sent
  <2>6. fifo' # fifo /\ fifo' # <<>>
    <3>1. Len(fifo') = Len(fifo) + 1 /\ Len(fifo) \in Nat /\ fifo' # <<>>
      BY <1>1, <1>2, <1>13, AppendOf
    <3> QED BY <3>1
  <2>7. slots'[i].req = q
    BY <2>4 DEF Sent
  <2> QED BY <1>2, <1>3, <1>4, <1>5, <1>6, <1>7, <1>8, <1>13, <2>1, <2>2, <2>3, <2>5, <2>6, <2>7 DEF f, Pending
<1> QED BY <1>9, <1>12, <1>13

\* A mark engine takes a transfer and goes on.
LEMMA MarkStep ==
  ASSUME FrameReadsAssumption, ReadsInv, Looping, engine \in {"urbstream", "pump"}, ready # <<>>,
         NEW i, i = Head(ready), NEW q \in Int, q <= Chunk, Recycle(i, q),
         UNCHANGED <<engine, late, latch, broken, sent>>, after' \in Nat, Len(buf) # Room, buf' = Marked(i, Room),
         outstanding' \in 0 .. Ask, PumpHolds', ~excused' /\ ~Pending' => Len(buf') = Room
  PROVE  ReadsInv'
<1>1. engine \in MarkEngines /\ engine \notin CoverEngines /\ engine # "winstream"
  BY DEF MarkEngines, CoverEngines
<1>2. /\ i \in Slots /\ slots[i].n \in Nat /\ slots[i].from \in Nat
      /\ slots[i].from + slots[i].n <= sent /\ Pos(slots, ready, sent, 1) = slots[i].from
      /\ Kernel(slots', fifo', ready', sent') /\ Pos(slots', ready', sent', 1) = slots[i].from + slots[i].n
      /\ pc' = "loop" /\ UNCHANGED <<nxt, cur, got, ret, out>>
      /\ refused' \in 0 .. MaxRefused /\ excused' \in BOOLEAN /\ Excuses'
  BY <1>1, RecycleIs
<1>3. MarkHolds /\ Room \in Nat /\ Len(buf) <= Room /\ buf \in Seq(0 .. MaxSent) /\ sent \in 0 .. MaxSent
      /\ slots \in [Slots -> SlotType] /\ Room' = Room
  <2>1. FrameLen \in Nat /\ Ask \in Nat
    BY DEF FrameReadsAssumption, Ask
  <2> QED BY <1>1, <2>1, TypeNow DEF ReadsInv, Room
<1>4. slots[i].from = Len(buf)
  BY <1>2, <1>3 DEF MarkHolds, Looping, Reading
<1>5. /\ buf' \in Seq(0 .. MaxSent) /\ Len(buf') \in Nat /\ Len(buf') <= Room /\ Len(buf') <= sent
      /\ \A k \in 1 .. Len(buf') : buf'[k] = k - 1
      /\ Len(buf') = Room \/ Len(buf') = slots[i].from + slots[i].n
  BY <1>2, <1>3, <1>4, MarkedFacts, ZenonT(60)
<1>6. TypeOK'
  <2>1. Len(buf') <= (IF engine' = "pump" THEN Ask ELSE FrameLen)
    BY <1>5 DEF Room
  <2> QED BY <1>2, <1>5, <2>1, TypeNow, TypeFrom
<1>7. MarkHolds'
  <2>1. Len(buf') = Room' \/ Pos(slots', ready', sent', 1) = Len(buf')
    BY <1>2, <1>3, <1>5
  <2>2. Len(buf') <= sent' /\ engine' # "winstream"
    BY <1>1, <1>5
  <2> QED BY <1>5, <2>1, <2>2 DEF MarkHolds
<1>8. Fed'
  BY <1>1, <1>3 DEF Fed
<1>9. Priming' /\ Waiting' /\ OutHolds' /\ ShortHolds'
  BY <1>2 DEF Priming, Waiting, OutHolds, ShortHolds
<1> QED BY <1>1, <1>2, <1>6, <1>7, <1>8, <1>9, MarkFrom

\* A transfer that failed ends the read.
LEMMA MarkFails ==
  ASSUME FrameReadsAssumption, ReadsInv, engine \in {"urbstream", "pump"}, ready # <<>>,
         slots[Head(ready)].st # "ok", slots' = AsReaped(slots, Head(ready)), ready' = Tail(ready),
         pc' = "drain", ret' \in {"ok", "error"}, out' \in 0 .. FrameLen, out' <= Len(buf),
         UNCHANGED <<engine, fifo, nxt, cur, buf, got, refused, excused, late, latch, broken, sent>>, after' \in Nat,
         outstanding' \in 0 .. Ask
  PROVE  ReadsInv'
<1>1. engine \in MarkEngines /\ engine \notin CoverEngines /\ engine # "winstream" /\ CountsAtExit
  BY DEF MarkEngines, CoverEngines, CountsAtExit
<1>2. Kernel(slots, fifo, ready, sent) /\ Head(ready) \in Slots
  BY TypeNow, HeadPos
<1>3. Kernel(slots', fifo', ready', sent')
  BY <1>2, KernelReap
<1>4. excused /\ Excuses'
  <2>1. excused
    BY <1>2 DEF ReadsInv, Excuses
  <2> QED BY <2>1 DEF Excuses
<1>5. TypeOK'
  BY <1>3, TypeNow, TypeFrom
<1>6. MarkHolds'
  BY <1>1 DEF ReadsInv, MarkHolds, Reading
<1>7. PumpHolds'
  <2> SUFFICES ASSUME engine' = "pump" PROVE PumpHolds'
    BY DEF PumpHolds
  <2>1. PICK r \in [1 .. Len(ready) + Len(fifo) + 1 -> Nat] : Budget(slots, fifo, ready, sent, r)
    BY DEF ReadsInv, PumpHolds
  <2>2. \E p \in [1 .. Len(ready') + Len(fifo') + 1 -> Nat] : Budget(slots', fifo', ready', sent', p)
    BY <1>2, <2>1, BudgetReap
  <2> QED BY <2>2 DEF PumpHolds, Reading
<1>8. Fed' /\ Priming' /\ Waiting'
  BY DEF Fed, Looping, Priming, Waiting
<1>9. OutHolds' /\ ShortHolds'
  <2>1. out' <= FrameLen
    BY DEF FrameReadsAssumption
  <2> QED BY <1>1, <1>4, <2>1 DEF OutHolds, ShortHolds
<1> QED BY <1>1, <1>3, <1>4, <1>5, <1>6, <1>7, <1>8, <1>9, MarkFrom

\* usbfs ReadFrameStream.
LEMMA UrbStreamHolds ==
  ASSUME FrameReadsAssumption, ReadsInv, Looping, UrbStreamLoop,
         UNCHANGED <<engine, outstanding, late, latch, broken, sent>>, after' \in Nat
  PROVE  ReadsInv'
<1>1. /\ engine = "urbstream" /\ engine \notin CoverEngines /\ engine \in MarkEngines /\ CountsAtExit /\ Room = FrameLen
      /\ engine # "winbatch" /\ excused \in BOOLEAN
  BY TypeNow DEF UrbStreamLoop, CoverEngines, MarkEngines, CountsAtExit, Room
<1>2. Len(buf) \in Nat /\ Len(buf) <= FrameLen /\ FrameLen \in Nat /\ Len(buf) \in 0 .. FrameLen /\ Chunk \in Nat
  <2>1. buf \in Seq(0 .. MaxSent) /\ Len(buf) <= FrameLen /\ FrameLen \in Nat /\ Chunk \in Nat
    BY <1>1, TypeNow DEF FrameReadsAssumption
  <2>2. Len(buf) \in Nat
    BY <2>1, LenProperties
  <2> QED BY <2>1, <2>2
<1>3. CASE Test(Len(buf) = FrameLen \/ ~Pending, Len(buf))
  <2>1. ~Pending /\ ~excused => Len(buf) = FrameLen
    BY <1>1 DEF ReadsInv, Fed
  <2> DEFINE e == Len(buf) = FrameLen \/ ~Pending
             k == Len(buf)
  <2>2. e \in BOOLEAN /\ Test(e, k) /\ k \in 0 .. FrameLen /\ k <= Len(buf)
    BY <1>2, <1>3
  <2>3. (e /\ ~excused => k = FrameLen) /\ (~e => Len(buf) # Room)
    BY <1>1, <2>1
  <2> HIDE DEF e, k
  <2> QED BY <1>1, <2>2, <2>3, TestHolds
<1>4. CASE Exit("ok", Len(buf)) /\ excused' = TRUE
  BY <1>1, <1>2, <1>4, ExitHolds
<1>5. CASE Exit("error", Len(buf)) /\ UNCHANGED excused
  BY <1>1, <1>2, <1>5, ExitHolds
<1>6. ASSUME ready # <<>>, slots[Head(ready)].st # "ok", pc' = "drain", ret' = "error", out' = Len(buf),
             slots' = Reaped(Head(ready)), ready' = Tail(ready), UNCHANGED <<fifo, countVars, refused, excused>>
      PROVE  ReadsInv'
  <2>1. UNCHANGED <<fifo, nxt, cur, buf, got, refused, excused>> /\ slots' = AsReaped(slots, Head(ready))
    BY <1>6 DEF countVars, Reaped, AsReaped
  <2>2. outstanding' \in 0 .. Ask /\ out' <= Len(buf) /\ out' \in 0 .. FrameLen
    BY <1>2, <1>6, TypeNow
  <2> QED BY <1>1, <1>6, <2>1, <2>2, MarkFails
<1>7. ASSUME ready # <<>>, Len(buf) # FrameLen, buf' = Marked(Head(ready), FrameLen),
             NEW q, q = (IF Len(buf') < FrameLen THEN Chunk ELSE 0), Recycle(Head(ready), q)
      PROVE  ReadsInv'
  <2>1. q \in Int /\ q <= Chunk
    BY <1>2, <1>7
  <2>2. PumpHolds' /\ outstanding' \in 0 .. Ask
    BY <1>1, TypeNow DEF PumpHolds
  <2>3. ASSUME ~excused', ~Pending' PROVE Len(buf') = Room
    <3>1. q <= 0
      BY <1>7, <2>1, <2>3, RecycleIs
    <3>2. ~(Len(buf') < FrameLen)
      <4>1. Chunk # 0
        BY DEF FrameReadsAssumption
      <4> QED BY <1>2, <1>7, <3>1, <4>1
    <3>3. Len(buf') \in Nat /\ Len(buf') <= FrameLen
      <4>1. /\ Head(ready) \in Slots /\ slots[Head(ready)].from + slots[Head(ready)].n <= sent
            /\ Pos(slots, ready, sent, 1) = slots[Head(ready)].from
        BY <1>7, TypeNow, HeadPos
      <4>2. MarkHolds /\ slots[Head(ready)].from = Len(buf)
        BY <1>1, <1>7, <4>1 DEF ReadsInv, MarkHolds, Looping, Reading
      <4>3. buf \in Seq(0 .. MaxSent) /\ slots \in [Slots -> SlotType] /\ sent \in 0 .. MaxSent
        BY TypeNow
      <4> QED BY <1>2, <1>7, <4>1, <4>2, <4>3, MarkedFacts
    <3> QED BY <1>1, <1>2, <3>2, <3>3
  <2> QED BY <1>1, <1>7, <2>1, <2>2, <2>3, MarkStep
<1>8. CASE Again
  BY <1>8, AgainHolds
<1>9. pc = "reap" => Len(buf) # FrameLen
  BY <1>1 DEF ReadsInv, Waiting
<1>10. \/ Test(Len(buf) = FrameLen \/ ~Pending, Len(buf))
       \/ Again
       \/ Exit("ok", Len(buf)) /\ excused' = TRUE
       \/ Exit("error", Len(buf)) /\ UNCHANGED excused
       \/ /\ ready # <<>> /\ slots[Head(ready)].st # "ok" /\ pc' = "drain" /\ ret' = "error" /\ out' = Len(buf)
          /\ slots' = Reaped(Head(ready)) /\ ready' = Tail(ready) /\ UNCHANGED <<fifo, countVars, refused, excused>>
       \/ /\ ready # <<>> /\ Len(buf) # FrameLen /\ buf' = Marked(Head(ready), FrameLen)
          /\ Recycle(Head(ready), IF Len(buf') < FrameLen THEN Chunk ELSE 0)
  BY <1>9 DEF UrbStreamLoop
<1> QED BY <1>3, <1>4, <1>5, <1>6, <1>7, <1>8, <1>10

\* What is asked for next fits beside what is in flight.
LEMMA PumpFits ==
  ASSUME NEW A \in Nat, NEW b \in Nat, NEW p \in Nat, NEW q \in Nat, q <= (A - b) - p
  PROVE  p + q \in 0 .. A /\ b + (p + q) <= A
OBVIOUS

\* The pump takes a transfer, and asks for what the frame and those in flight
\* leave.
LEMMA PumpTakes ==
  ASSUME FrameReadsAssumption, ReadsInv, Looping, engine = "pump", ready # <<>>,
         UNCHANGED <<engine, late, latch, broken, sent>>, after' \in Nat, Len(buf) # Ask,
         NEW i, i = Head(ready), buf' = Marked(i, Ask),
         NEW q, q = Lesser(Chunk, Ask - Len(buf') - Outstanding(i)), Recycle(i, q),
         outstanding' = Outstanding(i) + IF fifo' = fifo THEN 0 ELSE slots'[i].req
  PROVE  ReadsInv'
<1>1. Room = Ask /\ Ask \in Nat /\ Chunk \in Nat /\ engine \in MarkEngines
  BY DEF Room, Ask, FrameReadsAssumption, MarkEngines
<1>2. /\ Kernel(slots, fifo, ready, sent) /\ buf \in Seq(0 .. MaxSent) /\ Len(buf) <= Ask /\ sent \in 0 .. MaxSent /\ sent \in Nat
      /\ slots \in [Slots -> SlotType] /\ ready \in Seq(Slots) /\ fifo \in Seq(Slots) /\ Len(buf) \in Nat
  BY TypeNow, LenProperties
<1>3. /\ i \in Slots /\ slots[i] \in SlotType /\ slots[i].n <= slots[i].req
      /\ slots[i].from + slots[i].n <= sent /\ Pos(slots, ready, sent, 1) = slots[i].from
  BY <1>2, HeadPos
<1>4. slots[i].n \in Nat /\ slots[i].from \in Nat /\ slots[i].req \in Nat
  BY <1>3, SlotFields
<1>5. PICK r \in [1 .. Len(ready) + Len(fifo) + 1 -> Nat] :
        /\ Budget(slots, fifo, ready, sent, r)
        /\ outstanding = r[1] /\ Len(buf) + outstanding <= Ask /\ Pos(slots, ready, sent, 1) = Len(buf)
  BY DEF ReadsInv, PumpHolds, Looping, Reading
<1>6. PICK p \in [1 .. Len(Tail(ready)) + Len(fifo) + 1 -> Nat] :
        /\ Budget(AsReaped(slots, i), fifo, Tail(ready), sent, p)
        /\ r[1] \in Nat /\ r[1] = p[1] + slots[i].req
  <2>1. \E p \in [1 .. Len(Tail(ready)) + Len(fifo) + 1 -> Nat] :
          /\ Budget(AsReaped(slots, Head(ready)), fifo, Tail(ready), sent, p)
          /\ r[1] \in Nat /\ slots[Head(ready)].req \in Nat /\ r[1] = p[1] + slots[Head(ready)].req
    <3>1. Kernel(slots, fifo, ready, sent) /\ Budget(slots, fifo, ready, sent, r)
      BY <1>2, <1>5
    <3> QED BY ONLY <3>1, FrameReadsAssumption, ready # <<>>, BudgetReap
  <2> QED BY <2>1
<1>7. Len(Tail(ready)) \in Nat /\ Len(fifo) \in Nat /\ p[1] \in Nat
  <2>1. Len(Tail(ready)) \in Nat /\ Len(fifo) \in Nat
    BY <1>2, TailOf, LenProperties
  <2>2. 1 \in 1 .. Len(Tail(ready)) + Len(fifo) + 1
    BY <2>1
  <2> QED BY <2>1, <2>2
<1>8. Outstanding(i) = p[1]
  BY <1>4, <1>5, <1>6, <1>7, SMTT(30) DEF Outstanding
<1>16. Len(buf) + slots[i].n <= Ask /\ (Len(buf) + slots[i].n) + p[1] <= Ask
  <2> DEFINE b == Len(buf)
             n == slots[i].n
             a == slots[i].req
             z == p[1]
  <2>1. outstanding = z + a /\ b + outstanding <= Ask
    BY <1>5, <1>6
  <2>2. Ask \in Nat /\ b \in Nat /\ n \in Nat /\ a \in Nat /\ z \in Nat /\ n <= a
    BY <1>1, <1>2, <1>3, <1>4, <1>7
  <2> HIDE DEF b, n, a, z
  <2>3. b + n <= Ask /\ (b + n) + z <= Ask
    BY ONLY <2>1, <2>2
  <2> QED BY <2>3 DEF b, n, z
<1>9. /\ Len(buf') \in Nat /\ Len(buf') <= Ask
      /\ Len(buf') = Len(buf) + slots[i].n
  <2>1. MarkHolds /\ slots[i].from = Len(buf)
    BY <1>1, <1>3, <1>5 DEF ReadsInv
  <2>2. Len(buf) + slots[i].n <= Ask
    BY <1>16
  <2> QED BY <1>1, <1>2, <1>3, <2>1, <2>2, MarkedFacts, SMTT(30)
<1>10. q \in Int /\ q <= Chunk /\ q <= (Ask - Len(buf')) - p[1] /\ (q <= 0 => Chunk <= 0 \/ (Ask - Len(buf')) - p[1] <= 0)
  <2>1. q = Lesser(Chunk, (Ask - Len(buf')) - p[1])
    BY <1>8
  <2> DEFINE w == (Ask - Len(buf')) - p[1]
  <2>2. w \in Int
    BY <1>1, <1>7, <1>9
  <2> HIDE DEF w
  <2>3. q \in Int /\ q <= Chunk /\ q <= w /\ (q <= 0 => Chunk <= 0 \/ w <= 0)
    BY <1>1, <2>1, <2>2 DEF Lesser, w
  <2> QED BY <2>3 DEF w
<1>11. /\ ready' = Tail(ready) /\ pc' = "loop" /\ Kernel(AsReaped(slots, i), fifo, Tail(ready), sent)
       /\ AsReaped(slots, i)[i].own = "reaped"
       /\ Pos(slots', ready', sent', 1) = slots[i].from + slots[i].n
       /\ Pos(AsReaped(slots, i), Tail(ready), sent, 1) = slots[i].from + slots[i].n
       /\ \/ slots' = AsReaped(slots, i) /\ fifo' = fifo /\ (q <= 0 \/ excused')
          \/ /\ q \in 0 .. Chunk /\ slots' = AsSent(AsReaped(slots, i), i, q)
             /\ fifo' = Append(fifo, i) /\ fifo' # fifo /\ Pending' /\ slots'[i].req = q
  BY <1>10, RecycleIs
<1>12. Pos(slots', ready', sent', 1) = Len(buf')
  BY <1>3, <1>5, <1>9, <1>11
<1>13. Len(buf') + p[1] <= Ask
  BY <1>9, <1>16
<1>14. CASE slots' = AsReaped(slots, i) /\ fifo' = fifo /\ (q <= 0 \/ excused')
  <2>1. outstanding' = p[1] /\ outstanding' \in 0 .. Ask
    <3>1. outstanding' = p[1] + 0
      BY <1>8, <1>14
    <3> QED BY <1>1, <1>7, <1>9, <1>13, <3>1
  <2>2. p \in [1 .. Len(ready') + Len(fifo') + 1 -> Nat] /\ Budget(slots', fifo', ready', sent', p)
    BY <1>6, <1>11, <1>14
  <2>3. Len(buf') + outstanding' <= Ask
    BY <1>13, <2>1
  <2>4. PumpHolds'
    BY <1>12, <2>1, <2>2, <2>3 DEF PumpHolds
  <2>5. ASSUME ~excused', ~Pending' PROVE Len(buf') = Room
    <3>1. Len(Tail(ready)) = 0 /\ Len(fifo) = 0
      BY <1>11, <1>14, <2>5, EmptySeq DEF Pending
    <3>2. p[1] = 0
      <4>1. p[Len(Tail(ready)) + Len(fifo) + 1] = 0
        BY <1>6 DEF Budget
      <4>2. Len(Tail(ready)) + Len(fifo) + 1 = 1
        BY <3>1
      <4> QED BY <4>1, <4>2
    <3>3. Chunk # 0 /\ q <= 0
      BY <1>14, <2>5 DEF FrameReadsAssumption
    <3> QED BY <1>1, <1>9, <1>10, <3>2, <3>3
  <2> QED BY <1>1, <1>10, <2>1, <2>4, <2>5, MarkStep
<1>15. CASE /\ q \in 0 .. Chunk /\ slots' = AsSent(AsReaped(slots, i), i, q)
            /\ fifo' = Append(fifo, i) /\ fifo' # fifo /\ Pending' /\ slots'[i].req = q
  <2>1. Len(Tail(ready)) + 1 \in 1 .. Len(Tail(ready)) + Len(fifo) + 1 /\ p[Len(Tail(ready)) + 1] \in Nat
    <3>1. Len(Tail(ready)) + 1 \in 1 .. Len(Tail(ready)) + Len(fifo) + 1
      BY <1>7
    <3> QED BY <3>1
  <2>2. sent - Len(buf') <= p[1] - p[Len(Tail(ready)) + 1]
    <3>1. \A k \in 1 .. Len(Tail(ready)) + 1 :
            sent - Pos(AsReaped(slots, i), Tail(ready), sent, k) <= p[k] - p[Len(Tail(ready)) + 1]
      BY <1>6 DEF Budget
    <3>2. 1 \in 1 .. Len(Tail(ready)) + 1
      BY <1>7
    <3>3. Pos(AsReaped(slots, i), Tail(ready), sent, 1) = Len(buf')
      BY <1>3, <1>5, <1>9, <1>11
    <3> QED BY <3>1, <3>2, <3>3
  <2>3. sent + p[Len(Tail(ready)) + 1] + q <= Ask
    BY <1>1, <1>2, <1>7, <1>9, <1>10, <2>1, <2>2, SMTT(30)
  <2>4. PICK d \in [1 .. Len(Tail(ready)) + Len(Append(fifo, i)) + 1 -> Nat] :
          Budget(AsSent(AsReaped(slots, i), i, q), Append(fifo, i), Tail(ready), sent, d) /\ d[1] = p[1] + q
    <3>1. AsReaped(slots, i)[i].own \in {"none", "reaped"}
      BY <1>11
    <3>2. Budget(AsReaped(slots, i), fifo, Tail(ready), sent, p) /\ Kernel(AsReaped(slots, i), fifo, Tail(ready), sent)
      BY <1>6, <1>11
    <3>3. i \in Slots /\ q \in 0 .. Chunk
      BY <1>3, <1>15
    <3>4. \E d \in [1 .. Len(Tail(ready)) + Len(Append(fifo, i)) + 1 -> Nat] :
            /\ Budget(AsSent(AsReaped(slots, i), i, q), Append(fifo, i), Tail(ready), sent, d)
            /\ p[1] \in Nat /\ d[1] = p[1] + q
      <4> DEFINE f == AsReaped(slots, i)
                 rd == Tail(ready)
      <4>1. /\ Kernel(f, fifo, rd, sent) /\ Budget(f, fifo, rd, sent, p) /\ f[i].own \in {"none", "reaped"}
            /\ sent + p[Len(rd) + 1] + q <= Ask
        BY <2>3, <3>1, <3>2
      <4> HIDE DEF f, rd
      <4>2. \E d \in [1 .. Len(rd) + Len(Append(fifo, i)) + 1 -> Nat] :
              /\ Budget(AsSent(f, i, q), Append(fifo, i), rd, sent, d)
              /\ p[1] \in Nat /\ d[1] = p[1] + q
        BY <3>3, <4>1, BudgetSend, SMTT(30)
      <4> QED BY <4>2 DEF f, rd
    <3> QED BY <3>4
  <2>5. Budget(slots', fifo', ready', sent', d) /\ d \in [1 .. Len(ready') + Len(fifo') + 1 -> Nat]
    BY <1>11, <1>15, <2>4
  <2>6. outstanding' = d[1] /\ outstanding' = p[1] + q
    BY <1>8, <1>15, <2>4
  <2>7. outstanding' \in 0 .. Ask /\ Len(buf') + outstanding' <= Ask
    <3>1. q \in Nat /\ q <= (Ask - Len(buf')) - p[1]
      BY <1>1, <1>10, <1>15
    <3> QED BY <1>1, <1>7, <1>9, <2>6, <3>1, PumpFits, SMTT(30)
  <2>8. PumpHolds'
    BY <1>12, <2>5, <2>6, <2>7 DEF PumpHolds
  <2> QED BY <1>1, <1>10, <1>15, <2>7, <2>8, MarkStep
<1> QED BY <1>11, <1>14, <1>15

\* IOKit asi_read_frame_stream.
LEMMA PumpLoopHolds ==
  ASSUME FrameReadsAssumption, ReadsInv, Looping, PumpLoop,
         UNCHANGED <<engine, late, latch, broken, sent>>, after' \in Nat
  PROVE  ReadsInv'
<1>1. /\ engine = "pump" /\ engine \notin CoverEngines /\ engine \in MarkEngines /\ CountsAtExit /\ Room = Ask
      /\ engine # "winbatch"
  BY TypeNow DEF PumpLoop, CoverEngines, MarkEngines, CountsAtExit, Room
<1>2. Len(buf) \in Nat /\ Len(buf) <= Ask /\ FrameLen \in Nat /\ Ask \in Nat /\ FrameLen <= Ask
  <2>1. buf \in Seq(0 .. MaxSent) /\ Len(buf) <= Ask
    BY <1>1, TypeNow
  <2>2. FrameLen \in Nat /\ Pad \in Nat
    BY DEF FrameReadsAssumption
  <2> QED BY <2>1, <2>2, LenProperties DEF Ask
<1> DEFINE k == Lesser(Len(buf), FrameLen)
<1>3. k \in 0 .. FrameLen /\ k <= Len(buf) /\ (Len(buf) = Ask => k = FrameLen)
  BY <1>2 DEF Lesser
<1> HIDE DEF k
<1>4. CASE Test(Len(buf) = Ask \/ ~Pending, k) /\ UNCHANGED outstanding
  <2>1. ~Pending /\ ~excused => Len(buf) = Ask
    BY <1>1 DEF ReadsInv, Fed
  <2>2. (Len(buf) = Ask \/ ~Pending) \in BOOLEAN
    OBVIOUS
  <2> QED BY <1>1, <1>3, <1>4, <2>1, <2>2, TestHolds
<1>5. CASE Exit("ok", k) /\ excused' = TRUE /\ UNCHANGED outstanding
  BY <1>1, <1>3, <1>5, ExitHolds
<1>6. ASSUME ready # <<>>, slots[Head(ready)].st # "ok", pc' = "drain", out' = k,
             ret' = (IF slots[Head(ready)].st = "hard" THEN PumpRet("error") ELSE "ok"),
             slots' = Reaped(Head(ready)), ready' = Tail(ready), outstanding' = Outstanding(Head(ready)),
             UNCHANGED <<fifo, countVars, refused, excused>>
      PROVE  ReadsInv'
  <2>1. UNCHANGED <<fifo, nxt, cur, buf, got, refused, excused>> /\ slots' = AsReaped(slots, Head(ready))
    BY <1>6 DEF countVars, Reaped, AsReaped
  <2>2. ret' \in {"ok", "error"}
    BY <1>6 DEF PumpRet
  <2>3. outstanding' \in 0 .. Ask
    <3>1. slots[Head(ready)] \in SlotType
      BY <1>6, TypeNow, HeadPos
    <3>2. slots[Head(ready)].req \in Nat
      BY <3>1, SlotFields
    <3>3. outstanding \in 0 .. Ask /\ outstanding' = Outstanding(Head(ready)) /\ Ask \in Nat
      BY <1>2, <1>6, TypeNow
    <3> QED BY ONLY <3>2, <3>3 DEF Outstanding
  <2>4. out' \in 0 .. FrameLen /\ out' <= Len(buf)
    BY <1>3, <1>6
  <2> QED BY <1>1, <1>6, <2>1, <2>2, <2>3, <2>4, MarkFails
<1>7. ASSUME ready # <<>>, Len(buf) # Ask, buf' = Marked(Head(ready), Ask),
             Recycle(Head(ready), PumpWant(Head(ready), Len(buf'))),
             outstanding' = Outstanding(Head(ready)) + IF fifo' = fifo THEN 0 ELSE slots'[Head(ready)].req
      PROVE  ReadsInv'
  <2>1. PumpWant(Head(ready), Len(buf')) = Lesser(Chunk, Ask - Len(buf') - Outstanding(Head(ready)))
    BY DEF PumpWant
  <2> QED BY <1>1, <1>7, <2>1, PumpTakes
<1>8. CASE Again /\ UNCHANGED outstanding
  BY <1>8, AgainHolds
<1>9. pc = "reap" => Len(buf) # Ask
  BY <1>1 DEF ReadsInv, Waiting
<1>10. \/ Test(Len(buf) = Ask \/ ~Pending, k) /\ UNCHANGED outstanding
       \/ Again /\ UNCHANGED outstanding
       \/ Exit("ok", k) /\ excused' = TRUE /\ UNCHANGED outstanding
       \/ /\ ready # <<>> /\ slots[Head(ready)].st # "ok" /\ pc' = "drain" /\ out' = k
          /\ ret' = (IF slots[Head(ready)].st = "hard" THEN PumpRet("error") ELSE "ok")
          /\ slots' = Reaped(Head(ready)) /\ ready' = Tail(ready) /\ outstanding' = Outstanding(Head(ready))
          /\ UNCHANGED <<fifo, countVars, refused, excused>>
       \/ /\ ready # <<>> /\ Len(buf) # Ask /\ buf' = Marked(Head(ready), Ask)
          /\ Recycle(Head(ready), PumpWant(Head(ready), Len(buf')))
          /\ outstanding' = Outstanding(Head(ready)) + IF fifo' = fifo THEN 0 ELSE slots'[Head(ready)].req
  BY <1>9 DEF PumpLoop, k
<1> QED BY <1>4, <1>5, <1>6, <1>7, <1>8, <1>10

\* WinUSB ReadFrameStream.
LEMMA WinStreamHolds ==
  ASSUME FrameReadsAssumption, ReadsInv, Looping, WinStreamLoop,
         UNCHANGED <<engine, outstanding, late, latch, broken, sent>>, after' \in Nat
  PROVE  ReadsInv'
<1>1. /\ engine = "winstream" /\ engine \notin CoverEngines /\ engine \in MarkEngines /\ ~CountsAtExit /\ Room = FrameLen
      /\ engine # "pump" /\ engine # "winbatch" /\ excused \in BOOLEAN
  BY TypeNow DEF WinStreamLoop, CoverEngines, MarkEngines, CountsAtExit, Room
<1>2. /\ Kernel(slots, fifo, ready, sent) /\ slots \in [Slots -> SlotType] /\ buf \in Seq(0 .. MaxSent)
      /\ Len(buf) \in Nat /\ Len(buf) <= FrameLen /\ FrameLen \in Nat /\ Len(buf) \in 0 .. FrameLen /\ 0 \in 0 .. FrameLen
      /\ sent \in 0 .. MaxSent /\ 1 \in Slots
  <2>1. buf \in Seq(0 .. MaxSent) /\ Len(buf) <= FrameLen /\ FrameLen \in Nat
    BY <1>1, TypeNow DEF FrameReadsAssumption
  <2>2. Len(buf) \in Nat
    BY <2>1, LenProperties
  <2> QED BY <2>1, <2>2, TypeNow, SlotsFacts
<1>3. MarkHolds
  BY <1>1 DEF ReadsInv
<1>4. \A i \in Slots : i > 1 => slots[i] = Unused
  BY <1>1, <1>3 DEF MarkHolds
<1>5. /\ fifo # <<>> => slots[1].own = "kernel"
      /\ ready # <<>> => slots[1].own = "complete" /\ Head(ready) = 1 /\ Tail(ready) = <<>>
      /\ slots[1].own = "complete" => ready # <<>>
  BY <1>2, <1>4, OneSlot DEF Kernel
<1>6. CASE Test(Len(buf) = FrameLen, Len(buf))
  <2>1. Len(buf) = FrameLen => AllIn
    BY <1>1 DEF AllIn
  <2>2. (Len(buf) = FrameLen) \in BOOLEAN
    OBVIOUS
  <2> QED BY <1>1, <1>2, <1>6, <2>1, <2>2, TestHolds
<1>7. CASE Exit("error", Len(buf)) /\ UNCHANGED excused
  BY <1>1, <1>2, <1>7, ExitHolds
<1>8. CASE Exit("ok", 0) /\ excused' = TRUE
  BY <1>1, <1>2, <1>8, ExitHolds
<1>9. CASE /\ slots[1].own \in {"none", "reaped"} /\ Submit(1, Chunk)
           /\ UNCHANGED <<ready, countVars, endVars, refused, excused>>
  <2>1. UNCHANGED <<ready, nxt, cur, buf, got, pc, ret, out, refused, excused>> /\ slots' = AsSent(slots, 1, Chunk)
    BY <1>9 DEF countVars, endVars, AsSent, Submit
  <2>2. fifo' = Append(fifo, 1)
    BY <1>9 DEF Submit
  <2>3. Chunk \in 0 .. Chunk
    BY DEF FrameReadsAssumption
  <2>4. /\ Kernel(AsSent(slots, 1, Chunk), Append(fifo, 1), ready, sent)
        /\ Pos(AsSent(slots, 1, Chunk), ready, sent, 1) = Pos(slots, ready, sent, 1)
    BY <1>2, <1>9, <2>3, KernelSend
  <2>5. Kernel(slots', fifo', ready', sent') /\ Pos(slots', ready', sent', 1) = Pos(slots, ready, sent, 1)
    BY <2>1, <2>2, <2>4
  <2>6. slots'[1] = Sent(Chunk) /\ \A i \in Slots \ {1} : slots'[i] = slots[i]
    BY <1>2, <2>1, <2>3, SentSlots
  <2>7. Excuses'
    <3>1. ~excused => \A i \in Slots : slots[i].st = "ok"
      BY DEF ReadsInv, Excuses
    <3> QED BY <1>1, <2>1, <2>6, <3>1 DEF Excuses, Sent
  <2>8. MarkHolds'
    <3>1. \A i \in Slots : i > 1 => slots'[i] = Unused
      BY <1>4, <2>6
    <3>2. Len(buf') = Room' \/ Pos(slots', ready', sent', 1) = Len(buf')
      BY <1>1, <1>3, <2>1, <2>5 DEF MarkHolds, Room
    <3> QED BY <1>3, <2>1, <3>1, <3>2 DEF MarkHolds
  <2>9. TypeOK'
    BY <2>1, <2>5, TypeNow, TypeFrom
  <2>10. Fed' /\ OutHolds' /\ ShortHolds' /\ PumpHolds' /\ Priming'
    BY <1>1, <2>1 DEF Fed, OutHolds, ShortHolds, PumpHolds, Looping, Priming
  <2>11. Waiting'
    BY <1>1, <2>1 DEF ReadsInv, Waiting, Room
  <2> QED BY <1>1, <2>5, <2>7, <2>8, <2>9, <2>10, <2>11, MarkFrom
<1>10. ASSUME slots[1].own = "complete",
              slots' = Reaped(1), ready' = <<>>, buf' = Marked(1, FrameLen), UNCHANGED <<fifo, nxt, cur, got, refused>>,
              \/ pc' = "loop" /\ UNCHANGED <<ret, out, excused>>
              \/ pc' = "drain" /\ ret' = "error" /\ out' = Len(buf) /\ UNCHANGED excused
              \/ pc' = "drain" /\ out' = Len(buf) /\ excused' = TRUE /\ UNCHANGED ret
       PROVE  ReadsInv'
  <2>1. slots[1].own = "complete" /\ ready # <<>> /\ Head(ready) = 1 /\ Tail(ready) = <<>>
    BY <1>5, <1>10
  <2>2. slots' = AsReaped(slots, Head(ready)) /\ ready' = Tail(ready)
    BY <1>10, <2>1 DEF Reaped, AsReaped
  <2>3. /\ Kernel(AsReaped(slots, Head(ready)), fifo, Tail(ready), sent)
        /\ Pos(AsReaped(slots, Head(ready)), Tail(ready), sent, 1) = slots[Head(ready)].from + slots[Head(ready)].n
    BY <1>2, <2>1, KernelReap
  <2>4. Kernel(slots', fifo', ready', sent') /\ Pos(slots', ready', sent', 1) = slots[1].from + slots[1].n
    BY <1>10, <2>1, <2>2, <2>3
  <2>5. slots[1].from + slots[1].n <= sent /\ Pos(slots, ready, sent, 1) = slots[1].from
    BY <1>2, <2>1, HeadPos
  <2>6. Len(buf) = FrameLen \/ slots[1].from = Len(buf)
    BY <1>1, <1>3, <2>5 DEF MarkHolds
  <2>7. /\ buf' \in Seq(0 .. MaxSent) /\ Len(buf') \in Nat /\ Len(buf') <= FrameLen /\ Len(buf') <= sent
        /\ \A k \in 1 .. Len(buf') : buf'[k] = k - 1
        /\ Len(buf') = FrameLen \/ Len(buf') = slots[1].from + slots[1].n
    BY <1>2, <1>3, <1>10, <2>5, <2>6, MarkedFacts, SMTT(30)
  <2>8. excused' \in BOOLEAN /\ (excused => excused') /\ pc' \in {"loop", "drain"} /\ ret' \in {"ok", "error", "broken"} /\ out' \in 0 .. FrameLen
    <3>1. ret \in {"ok", "error", "broken"} /\ out \in 0 .. FrameLen
      BY TypeNow
    <3>2. pc' \in {"loop", "drain"} /\ ret' \in {"ok", "error", "broken"}
      BY <1>10, <3>1
    <3>3. excused' \in BOOLEAN /\ (excused => excused')
      <4>1. excused' = excused \/ excused' = TRUE
        BY <1>10
      <4> QED BY <1>1, <4>1
    <3>4. out' \in 0 .. FrameLen
      BY <1>2, <1>10, <3>1
    <3> QED BY <3>2, <3>3, <3>4
  <2>9. TypeOK'
    <3>1. Len(buf') <= (IF engine' = "pump" THEN Ask ELSE FrameLen) /\ pc' \in {"prime", "loop", "reap", "drain", "done"}
      BY <1>1, <2>7, <2>8
    <3> QED BY <1>10, <2>4, <2>7, <2>8, <3>1, TypeNow, TypeFrom
  <2>10. Excuses'
    BY <1>10, <2>1, <2>2, <2>8, ReapExcuses
  <2>11. MarkHolds'
    <3>1. \A i \in Slots : i > 1 => slots'[i] = Unused
      <4>1. \A j \in Slots \ {1} : slots'[j] = slots[j]
        BY <1>2, <2>1, <2>2, ReapedSlots
      <4> QED BY <1>4, <4>1
    <3>2. Len(buf') = Room' \/ Pos(slots', ready', sent', 1) = Len(buf')
      BY <1>1, <2>4, <2>7 DEF Room
    <3> QED BY <2>7, <3>1, <3>2 DEF MarkHolds
  <2>12. Fed' /\ OutHolds' /\ PumpHolds' /\ Priming' /\ Waiting'
    BY <1>1, <2>8 DEF Fed, OutHolds, CountsAtExit, PumpHolds, Priming, Waiting
  <2>13. ShortHolds'
    BY <1>10 DEF ShortHolds
  <2> QED BY <1>1, <2>4, <2>9, <2>10, <2>11, <2>12, <2>13, MarkFrom
<1>11. CASE Again
  BY <1>11, AgainHolds
<1>12. \/ Test(Len(buf) = FrameLen, Len(buf))
       \/ Again
       \/ Exit("error", Len(buf)) /\ UNCHANGED excused
       \/ Exit("ok", 0) /\ excused' = TRUE
       \/ /\ slots[1].own \in {"none", "reaped"} /\ Submit(1, Chunk)
          /\ UNCHANGED <<ready, countVars, endVars, refused, excused>>
       \/ /\ slots[1].own = "complete"
          /\ slots' = Reaped(1) /\ ready' = <<>> /\ buf' = Marked(1, FrameLen) /\ UNCHANGED <<fifo, nxt, cur, got, refused>>
          /\ \/ pc' = "loop" /\ UNCHANGED <<ret, out, excused>>
             \/ pc' = "drain" /\ ret' = "error" /\ out' = Len(buf) /\ UNCHANGED excused
             \/ pc' = "drain" /\ out' = Len(buf) /\ excused' = TRUE /\ UNCHANGED ret
  BY DEF WinStreamLoop
<1> QED BY <1>6, <1>7, <1>8, <1>9, <1>10, <1>11, <1>12

-----------------------------------------------------------------------------
(* The theorems *)

\* A step of the loops.
LEMMA LoopHolds ==
  ASSUME FrameReadsAssumption, ReadsInv, Loop
  PROVE  ReadsInv'
<1>1. Looping /\ UNCHANGED <<engine, late, latch, broken, sent>>
  BY DEF Loop, Looping
<1>2. after' \in Nat
  BY TypeNow DEF Loop
<1>3. \/ /\ UrbsLoop \/ UrbPreqLoop \/ AsyncLoop \/ PreqLoop \/ UrbStreamLoop \/ WinBatchLoop \/ WinStreamLoop
         /\ UNCHANGED outstanding
      \/ PumpLoop
  BY DEF Loop
<1> QED BY <1>1, <1>2, <1>3, UrbsHolds, UrbPreqHolds, AsyncHolds, PreqHolds, UrbStreamHolds, WinBatchHolds, WinStreamHolds,
           PumpLoopHolds

\* A step that changes nothing.
LEMMA StutterHolds ==
  ASSUME FrameReadsAssumption, ReadsInv, UNCHANGED vars
  PROVE  ReadsInv'
<1>1. /\ UNCHANGED <<engine, slots, fifo, ready, nxt, cur, buf, got, outstanding, pc, ret, out, broken, sent, excused>>
      /\ UNCHANGED <<late, latch, refused, after>>
  BY DEF vars, kernelVars, countVars, endVars
<1>2. TypeOK'
  BY <1>1 DEF ReadsInv, TypeOK
<1> QED BY <1>1, <1>2, Frozen

\* The invariant is inductive.
LEMMA ReadsInductive ==
  ASSUME FrameReadsAssumption, ReadsInv, [Next]_vars
  PROVE  ReadsInv'
BY PrimeHolds, LoopHolds, DrainHolds, ReturnHolds, CompleteHolds, FlagsHold, StutterHolds DEF Next, Reader

\* What is invariant of every read.
THEOREM ReadsInvariant ==
  ASSUME FrameReadsAssumption
  PROVE  Spec => []ReadsInv
<1>1. Init => ReadsInv
  BY InitReads
<1>2. ReadsInv /\ [Next]_vars => ReadsInv'
  BY ReadsInductive
<1> QED BY <1>1, <1>2, PTL DEF Spec

\* The types, as the runs check them.
THEOREM ReadsTypeCorrect ==
  ASSUME FrameReadsAssumption
  PROVE  Spec => []TypeOK
<1>1. ReadsInv => TypeOK
  BY DEF ReadsInv
<1> QED BY <1>1, ReadsInvariant, PTL

\* The slot byte j of the frame is in.
LEMMA SlotOf ==
  ASSUME FrameReadsAssumption, NEW j \in Nat, j < FrameLen
  PROVE  LET i == j \div Chunk + 1 IN
         /\ i \in 1 .. NCover /\ (j % Chunk) \in Nat /\ Off(i) \in Nat
         /\ Off(i) + (j % Chunk) = j /\ (j % Chunk) < Req(i)
<1> DEFINE d == j \div Chunk
           m == j % Chunk
           i == d + 1
<1>1. Chunk \in Nat /\ Chunk # 0 /\ FrameLen \in Nat
  BY DEF FrameReadsAssumption
<1>2. d \in Nat /\ m \in Nat /\ m < Chunk /\ j = d * Chunk + m
  BY <1>1
<1> HIDE DEF d, m
<1>3. NCover \in Nat /\ FrameLen <= NCover * Chunk /\ NCover * Chunk \in Nat
  <2>1. NCover \in Nat
    BY SlotNat
  <2>2. FrameLen + Chunk - 1 < NCover * Chunk + Chunk /\ NCover * Chunk \in Nat
    BY <1>1, <2>1 DEF NCover
  <2> QED BY <1>1, <2>1, <2>2
<1>4. d < NCover
  <2> SUFFICES ASSUME NCover <= d PROVE FALSE
    BY <1>2, <1>3
  <2>1. NCover * Chunk <= d * Chunk /\ d * Chunk \in Int
    BY <1>2, <1>3, ChunkScales
  <2> QED BY <1>1, <1>2, <1>3, <2>1
<1>5. i \in 1 .. NCover /\ Off(i) = d * Chunk
  <2>1. i - 1 = d
    BY <1>2
  <2> QED BY <1>2, <1>3, <1>4, <2>1 DEF Off
<1>6. /\ Off(i) \in Nat /\ Req(i) \in Nat
      /\ i = NCover => Off(i) + Req(i) = FrameLen
      /\ i # NCover => Off(i) + Req(i) = Off(i + 1)
  BY <1>5, OffAt
<1>7. Off(i + 1) = Off(i) + Chunk
  BY <1>5, OffFacts
<1> HIDE DEF i
<1>8. Off(i) + m = j
  BY <1>2, <1>5
<1>9. m < Req(i)
  BY <1>1, <1>2, <1>6, <1>7, <1>8
<1> QED BY <1>2, <1>5, <1>6, <1>8, <1>9 DEF d, m, i

\* What a returned count promises is in the buffer.
LEMMA OutIntact ==
  ASSUME FrameReadsAssumption, ReadsInv
  PROVE  PrefixIntact
<1> SUFFICES ASSUME pc = "done", NEW j \in 0 .. out - 1 PROVE ByteAt(j) = j
  BY DEF PrefixIntact
<1>1. FrameLen \in Nat /\ out \in Nat /\ j \in Nat /\ j < out /\ j < FrameLen
  <2>1. FrameLen \in Nat /\ out \in 0 .. FrameLen
    BY TypeNow DEF FrameReadsAssumption
  <2> QED BY <2>1
<1>2. IF engine \in CoverEngines THEN Solid(slots, out) ELSE out <= Len(buf) /\ out <= FrameLen
  BY DEF ReadsInv, OutHolds
<1>3. CASE engine \in MarkEngines
  <2>1. engine \notin CoverEngines /\ MarkHolds
    BY <1>3 DEF ReadsInv, CoverEngines, MarkEngines
  <2>2. Len(buf) \in Nat
    BY TypeNow, LenProperties
  <2>3. j + 1 \in 1 .. Len(buf)
    BY <1>1, <1>2, <2>1, <2>2
  <2>4. buf[j + 1] = (j + 1) - 1
    BY <2>1, <2>3 DEF MarkHolds
  <2> QED BY <1>1, <1>3, <2>4 DEF ByteAt
<1>4. CASE engine \notin MarkEngines
  <2> DEFINE i == j \div Chunk + 1
  <2>1. Solid(slots, out)
    BY <1>2, <1>4, TypeNow DEF AllEngines
  <2>2. /\ i \in 1 .. NCover /\ (j % Chunk) \in Nat /\ Off(i) \in Nat
        /\ Off(i) + (j % Chunk) = j /\ (j % Chunk) < Req(i)
    BY <1>1, SlotOf
  <2> HIDE DEF i
  <2>3. Off(i) < out
    BY <1>1, <2>2
  <2>4. /\ slots[i].own = "reaped" /\ slots[i].from = Off(i)
        /\ slots[i].n >= out - Off(i) \/ slots[i].n = Req(i)
    BY <2>1, <2>2, <2>3 DEF Solid
  <2>5. slots[i].n \in Nat
    <3>1. i \in Slots
      BY <2>2, OffAt
    <3>2. slots[i] \in SlotType
      BY <3>1, TypeNow
    <3> QED BY <3>2, SlotFields
  <2>6. j % Chunk < slots[i].n
    <3>1. CASE slots[i].n = Req(i)
      BY <2>2, <3>1
    <3>2. CASE slots[i].n >= out - Off(i)
      BY <1>1, <2>2, <2>5, <3>2
    <3> QED BY <2>4, <3>1, <3>2
  <2>7. ByteAt(j) = slots[i].from + (j % Chunk)
    BY <1>4, <2>4, <2>6 DEF ByteAt, i
  <2> QED BY <2>2, <2>4, <2>7
<1> QED BY <1>3, <1>4

\* Whatever came back short, failed or could not be submitted, the bytes a read
\* counts are the first ones the device sent, each at its place.
THEOREM NoGapInACount ==
  ASSUME FrameReadsAssumption
  PROVE  Spec => []PrefixIntact
<1>1. ReadsInv => PrefixIntact
  BY OutIntact
<1> QED BY <1>1, ReadsInvariant, PTL

\* No byte of the next frame is taken.
THEOREM NextFrameLeftAlone ==
  ASSUME FrameReadsAssumption
  PROVE  Spec => []NoOverread
<1>1. ASSUME ReadsInv PROVE NoOverread
  <2>1. CASE engine \in CoverEngines
    <3>1. sent <= FrameLen /\ engine # "pump"
      BY <1>1, <2>1 DEF ReadsInv, Cover, Within, CoverEngines
    <3> QED BY <3>1 DEF NoOverread
  <2>2. CASE engine = "pump"
    <3>1. PICK r \in [1 .. Len(ready) + Len(fifo) + 1 -> Nat] : Budget(slots, fifo, ready, sent, r)
      BY <1>1, <2>2 DEF ReadsInv, PumpHolds
    <3>2. sent + r[Len(ready) + 1] <= Ask
      BY <3>1 DEF Budget
    <3>3. Len(ready) \in Nat /\ Len(fifo) \in Nat /\ sent \in Nat
      BY <1>1, TypeNow, LenProperties
    <3>4. Len(ready) + 1 \in 1 .. Len(ready) + Len(fifo) + 1
      BY <3>3
    <3>5. r[Len(ready) + 1] \in Nat
      BY <3>4
    <3>6. Ask \in Nat
      BY DEF FrameReadsAssumption, Ask
    <3>7. sent <= Ask
      BY <3>2, <3>3, <3>5, <3>6
    <3> QED BY <2>2, <3>7 DEF NoOverread
  <2>3. CASE engine \in {"urbstream", "winstream"}
    BY <2>3 DEF NoOverread
  <2>4. engine \in CoverEngines \/ engine = "pump" \/ engine \in {"urbstream", "winstream"}
    BY <1>1, TypeNow DEF AllEngines, CoverEngines, MarkEngines
  <2> QED BY <2>1, <2>2, <2>3, <2>4
<1> QED BY <1>1, ReadsInvariant, PTL

\* A count that is short without an error has a cause: the window never runs dry
\* of itself.
THEOREM NoShortOfItself ==
  ASSUME FrameReadsAssumption
  PROVE  Spec => []ShortHasCause
<1>1. ASSUME ReadsInv PROVE ShortHasCause
  <2>1. FrameLen \in Nat
    BY DEF FrameReadsAssumption
  <2>2. pc = "done" /\ ret = "ok" /\ ~excused => out = FrameLen
    BY <1>1 DEF ReadsInv, ShortHolds
  <2> QED BY <2>1, <2>2 DEF ShortHasCause
<1> QED BY <1>1, ReadsInvariant, PTL

\* Reaping arms nothing.
LEMMA ReapArms ==
  ASSUME ReadsInv, NEW i, slots' = Reaped(i)
  PROVE  Armed' \subseteq Armed
<1>1. slots \in [Slots -> SlotType]
  BY DEF ReadsInv, TypeOK
<1>2. \A j \in Slots : j # i => slots'[j] = slots[j]
  BY <1>1 DEF Reaped
<1>3. i \in Slots => slots'[i].own = "reaped"
  BY <1>1 DEF Reaped, SlotType
<1> QED BY <1>2, <1>3 DEF Armed

\* A step of the loop from its tests on: it submits nothing, and once time is up
\* it leaves the loop.
LEMMA TestsArm ==
  ASSUME FrameReadsAssumption, ReadsInv, Loop, pc = "loop"
  PROVE  Armed' \subseteq Armed /\ (pc' = "reap" => ~Expired)
<1>1. ASSUME NEW e, NEW k, Test(e, k) PROVE slots' = slots /\ (pc' = "reap" => ~Expired)
  BY <1>1 DEF Test, Exit, Stops, kernelVars
<1>2. ASSUME AsyncLoop \/ PreqLoop PROVE (slots' = slots \/ \E i : slots' = Reaped(i)) /\ pc' # "reap"
  BY <1>2 DEF AsyncLoop, PreqLoop, ReapBatch, Exit, kernelVars
<1>3. (\E e, k : Test(e, k)) \/ AsyncLoop \/ PreqLoop
  BY DEF Loop, UrbsLoop, UrbPreqLoop, UrbStreamLoop, PumpLoop, WinBatchLoop, WinStreamLoop
<1> QED BY <1>1, <1>2, <1>3, ReapArms DEF Armed

\* A step of the loop behind its tests goes back to them, or gives up, but for
\* WinUSB's stream: it waits for its one transfer before it tests again.
LEMMA ReapReturns ==
  ASSUME FrameReadsAssumption, ReadsInv, Loop, pc = "reap"
  PROVE  \/ pc' # "reap" /\ (engine = "winstream" => Armed' \subseteq Armed)
         \/ engine = "winstream" /\ slots[1].own \in {"none", "reaped"} /\ slots'[1].own = "kernel"
<1>1. ASSUME Again \/ \E r, k : Exit(r, k) PROVE pc' # "reap" /\ slots' = slots
  BY <1>1 DEF Again, Exit, kernelVars
<1>2. ASSUME NEW i, SlideUrbs(i) PROVE pc' # "reap"
  BY <1>2 DEF SlideUrbs
<1>3. ASSUME NEW i, NEW q, Recycle(i, q) PROVE pc' # "reap"
  BY <1>3 DEF Recycle
<1>4. UrbsLoop \/ UrbPreqLoop => pc' # "reap" /\ engine # "winstream"
  BY <1>1, <1>2 DEF UrbsLoop, UrbPreqLoop, Test
<1>5. UrbStreamLoop \/ PumpLoop => pc' # "reap" /\ engine # "winstream"
  BY <1>1, <1>3 DEF UrbStreamLoop, PumpLoop, Test
<1>6. WinBatchLoop => pc' # "reap" /\ engine # "winstream"
  BY <1>1 DEF WinBatchLoop, SlideWin, Test
<1>7. ASSUME WinStreamLoop
      PROVE  \/ pc' # "reap" /\ Armed' \subseteq Armed
             \/ engine = "winstream" /\ slots[1].own \in {"none", "reaped"} /\ slots'[1].own = "kernel"
  <2>1. CASE Again \/ \E r, k : Exit(r, k)
    BY <1>1, <2>1 DEF Armed
  <2>2. CASE slots[1].own \in {"none", "reaped"} /\ Submit(1, Chunk)
    <3>1. slots \in [Slots -> SlotType] /\ 1 \in Slots
      BY TypeNow, SlotsFacts
    <3>2. slots'[1] = Sent(Chunk)
      BY <2>2, <3>1 DEF Submit
    <3> QED BY <1>7, <2>2, <3>2 DEF WinStreamLoop, Sent
  <2>3. CASE slots' = Reaped(1) /\ pc' # "reap"
    BY <2>3, ReapArms
  <2> QED BY <1>7, <2>1, <2>2, <2>3 DEF WinStreamLoop, Test
<1>8. ~AsyncLoop /\ ~PreqLoop
  BY DEF AsyncLoop, PreqLoop
<1> QED BY <1>4, <1>5, <1>6, <1>7, <1>8 DEF Loop

\* Whoever submitted after time was up is on the way to the tests, or WinUSB's
\* stream, whose transfer is on the way.
AfterInv ==
  /\ after \in {0, 1}
  /\ after = 1 => /\ Expired /\ pc # "prime"
                  /\ pc = "reap" => engine = "winstream" /\ slots[1].own \in {"kernel", "complete"}

\* One step keeps it.
LEMMA AfterKeeps ==
  ASSUME FrameReadsAssumption, ReadsInv, AfterInv, [Next]_vars
  PROVE  AfterInv'
<1>1. CASE Prime
  <2>1. pc = "prime" /\ after' = after
    BY <1>1 DEF Prime
  <2> QED BY <2>1 DEF AfterInv
<1>2. CASE Loop
  <2>1. /\ after' = (IF Expired /\ ~(Armed' \subseteq Armed) THEN after + 1 ELSE after)
        /\ UNCHANGED <<engine, late, latch>> /\ pc \in {"loop", "reap"} /\ pc' # "prime"
    <3>1. pc' # "prime"
      BY <1>2, TestsArm, ReapReturns DEF Loop, UrbsLoop, UrbPreqLoop, AsyncLoop, PreqLoop, UrbStreamLoop, PumpLoop,
         WinBatchLoop, WinStreamLoop, Test, Exit, Again, SlideUrbs, SlideWin, Recycle, ReapBatch, endVars
    <3> QED BY <1>2, <3>1, SMTT(30) DEF Loop
  <2>2. Expired' <=> Expired
    BY <2>1 DEF Expired
  <2>3. CASE pc = "loop"
    <3>1. Armed' \subseteq Armed /\ (pc' = "reap" => ~Expired)
      BY <1>2, <2>3, TestsArm
    <3>2. after' = after
      BY <2>1, <3>1
    <3> QED BY <2>1, <2>2, <3>1, <3>2 DEF AfterInv
  <2>4. CASE pc = "reap" /\ after = 0
    <3>1. after' \in {0, 1} /\ (after' = 1 => Expired)
      BY <2>1, <2>4
    <3>2. pc' = "reap" => engine' = "winstream" /\ slots'[1].own = "kernel"
      BY <1>2, <2>1, <2>4, ReapReturns
    <3> QED BY <2>1, <2>2, <3>1, <3>2 DEF AfterInv
  <2>5. CASE pc = "reap" /\ after = 1
    <3>1. Expired /\ engine = "winstream" /\ slots[1].own \in {"kernel", "complete"}
      BY <2>5 DEF AfterInv
    <3>2. pc' # "reap" /\ Armed' \subseteq Armed
      BY <1>2, <2>5, <3>1, ReapReturns
    <3>3. after' = after
      BY <2>1, <3>2
    <3> QED BY <2>1, <2>2, <2>5, <3>1, <3>2, <3>3 DEF AfterInv
  <2> QED BY <2>1, <2>3, <2>4, <2>5 DEF AfterInv
<1>3. CASE Complete
  <2> DEFINE h == Head(fifo)
  <2>1. PICK n \in 0 .. Lesser(slots[h].req, MaxSent - sent), st \in {"ok", "soft", "hard"} :
          slots' = AsComplete(slots, h, sent, n, st)
    BY <1>3 DEF Complete, AsComplete
  <2>2. slots \in [Slots -> SlotType] /\ 1 \in Slots
    BY TypeNow, SlotsFacts
  <2> HIDE DEF h
  <2>3. slots'[1] = slots[1] \/ slots'[1].own = "complete"
    <3>1. CASE h = 1
      BY <2>1, <2>2, <3>1 DEF AsComplete, SlotType
    <3>2. CASE h # 1
      BY <2>1, <2>2, <3>2 DEF AsComplete
    <3> QED BY <3>1, <3>2
  <2>4. UNCHANGED <<engine, pc, late, latch, after>>
    BY <1>3 DEF Complete, endVars
  <2> QED BY <2>3, <2>4, SMTT(30) DEF AfterInv, Expired
<1>4. CASE Clock \/ AbortRead
  BY <1>4 DEF Clock, AbortRead, AfterInv, Expired, kernelVars, endVars
<1>5. CASE DrainReap \/ Finish \/ Abandon
  BY <1>5 DEF DrainReap, Finish, Abandon, AfterInv, Expired, endVars
<1>6. CASE UNCHANGED vars
  BY <1>6 DEF vars, kernelVars, endVars, AfterInv, Expired
<1> QED BY <1>1, <1>2, <1>3, <1>4, <1>5, <1>6 DEF Next, Reader

\* From an abort or the deadline on, the loop submits at most one transfer more: the
\* one whose tests it had passed.
THEOREM AtMostOneAfterAbort ==
  ASSUME FrameReadsAssumption
  PROVE  Spec => []OneAfterAbort
<1>1. Init => AfterInv
  BY DEF Init, AfterInv
<1>2. ReadsInv /\ AfterInv /\ [Next]_vars => AfterInv'
  BY AfterKeeps
<1>3. AfterInv => OneAfterAbort
  BY DEF AfterInv, OneAfterAbort
<1> QED BY <1>1, <1>2, <1>3, ReadsInvariant, PTL DEF Spec

-----------------------------------------------------------------------------
(* Frames: what a frame read comes to, for every window, bin, map and every  *)
(* place it may start at.                                                    *)

CONSTANTS Wires, Starts, Seconds, Maps
VARIABLES fwire, fstart, fsecond, fflagged, fbuf, faligned, fstep, fat

\* Frames, with any profile and any map.
F == INSTANCE Frames WITH
       wire <- fwire, start <- fstart, second <- fsecond, flagged <- fflagged,
       buf <- fbuf, aligned <- faligned, step <- fstep, at <- fat

-----------------------------------------------------------------------------
(* The inductive invariant: operators of b, al, st and a, which stand for  *)
(* buf, aligned, step and at.                                              *)

\* What a frame is, and what is assumed of its map.
Conf ==
  /\ fwire \in [fx3 : BOOLEAN, vendor : BOOLEAN, color : BOOLEAN, bpp : {1, 2}, w : Nat, h : Nat,
               soft : Nat \ {0}, bin : Nat \ {0}]
  /\ ~(fwire.fx3 /\ fwire.vendor)
  /\ fwire.w >= (IF fwire.fx3 THEN 8 ELSE 4) /\ fwire.h > F!Rows
  /\ fstart \in Nat /\ fsecond \in Nat
  /\ fwire.fx3 => fstart + F!Half <= F!N /\ \E k \in Nat : fstart = k * F!Word
  /\ ~fwire.fx3 => fstart = 0
  /\ ~fwire.vendor => fsecond = 0
  /\ fwire.vendor =>
       /\ fflagged = {}
       /\ F!Rows * fwire.w >= F!VendorL /\ F!Rows * fwire.w + F!VendorL <= F!N
       /\ fsecond = 0 \/ (fsecond >= F!Rows * fwire.w + F!VendorL /\ fsecond + F!VendorL <= F!N)
  /\ F!Isolated /\ F!SourcesGood /\ F!BoundaryKept

\* A wire sample fit to be returned or binned.
Good(b, p) ==
  /\ b[p] # {}
  /\ \A q \in b[p] : /\ q \in 0 .. F!N - 1
                     /\ F!Phase(q, fwire.w) = F!Phase(p, fwire.w)
                     /\ fwire.bin <= 1 => ~F!Flagged(q)
  /\ F!Clean(p) => b[p] = {p}

\* The map has been applied up to a.
Ready(b, a) == \A p \in 0 .. F!N - 1 : fwire.bin > 1 \/ p < a \/ ~F!Flagged(p) => Good(b, p)

\* The vendor's markers are repaired up to a, which is in none of them.
Scanned(b, a) ==
  /\ a = 0 \/ a = F!VendorL \/ (fsecond > 0 /\ a = fsecond + F!VendorL)
  /\ \A p \in 0 .. F!N - 1 : IF p < a THEN Good(b, p) ELSE b[p] = {F!Sent(p)}

\* A boundary inside the buffer, for the caller to see.
Seen(b) == \A j \in 0 .. F!Half - 1 : b[fstart + j] = {F!Header} /\ b[fstart - 1 - j] = {F!Footer}

\* A sample the caller may have.
Binned(b, o) ==
  /\ b[o] # {}
  /\ \A p \in b[o] : /\ p \in 0 .. F!N - 1
                     /\ F!Phase(p, fwire.w) = F!Phase(o, F!OutW)
                     /\ fwire.bin <= 1 => ~F!Flagged(p)
  /\ (\A p \in F!Footprint(o) : F!Clean(p)) => b[o] = F!Footprint(o)

\* A frame read from its start, at each step.
Upright(b, st, a) ==
  /\ st = "vendor" => IF fwire.vendor THEN Scanned(b, a) ELSE Ready(b, 0)
  /\ st = "defects" => Ready(b, a)
  /\ st = "boundary" => \A p \in 0 .. F!N - 1 : Good(b, p)
  /\ st = "bin" => /\ a <= F!Out /\ (fwire.soft = 1 => a = 0)
                   /\ \A p \in 0 .. F!N - 1 : p >= a => Good(b, p)
                   /\ \A o \in 0 .. F!Out - 1 : o < a => Binned(b, o)
  /\ st = "done" => \A o \in 0 .. F!Out - 1 : Binned(b, o)

\* What is invariant of a frame.
FrameIs(b, al, st, a) ==
  /\ Conf
  /\ b \in [0 .. F!N - 1 -> SUBSET Int] /\ a \in Nat
  /\ st \in {"fx3", "vendor", "defects", "boundary", "bin", "refused", "done"}
  /\ st = "fx3" => al = TRUE /\ a = 0 /\ \A p \in 0 .. F!N - 1 : b[p] = {F!Sent(p - fstart)}
  /\ fstart = 0 => al = TRUE /\ st # "refused" /\ Upright(b, st, a)
  /\ fstart > 0 /\ st # "fx3" =>
       st \in {"vendor", "defects", "boundary", "refused"} /\ al = FALSE /\ Seen(b)

FrameInv == FrameIs(fbuf, faligned, fstep, fat)

\* A frame's size, its map and what was sent do not change.
LEMMA ConfStays ==
  ASSUME UNCHANGED F!conf, FrameIs(fbuf', faligned', fstep', fat')
  PROVE  FrameInv'
<1>1. Conf' <=> Conf
  BY DEF F!conf, Conf, F!N, F!Word, F!Half, F!VendorL, F!Rows, F!Isolated, F!SourcesGood, F!BoundaryKept, F!Around, F!Flagged, F!Array
<1>2. \A p : Good(fbuf, p)' <=> Good(fbuf', p)
  BY DEF F!conf, Good, F!N, F!Phase, F!Clean, F!Flagged, F!Array, F!Sent, F!Word, F!VendorL, F!Header, F!Footer, F!Marker
<1>3. \A o : Binned(fbuf, o)' <=> Binned(fbuf', o)
  BY DEF F!conf, Binned, F!N, F!Phase, F!Clean, F!Flagged, F!Array, F!Sent, F!Word, F!VendorL, F!Header, F!Footer, F!Marker, F!Footprint,
         F!OutW
<1>4. \A p : (F!Sent(p)' = F!Sent(p)) /\ (F!Flagged(p)' <=> F!Flagged(p)) /\ (F!Sent(p - fstart)' = F!Sent(p - fstart))
  BY DEF F!conf, F!N, F!Flagged, F!Array, F!Sent, F!Word, F!VendorL, F!Header, F!Footer, F!Marker
<1>5. /\ F!N' = F!N /\ F!Half' = F!Half /\ F!VendorL' = F!VendorL /\ F!Out' = F!Out /\ F!Header' = F!Header /\ F!Footer' = F!Footer
      /\ fwire' = fwire /\ fstart' = fstart /\ fsecond' = fsecond
  BY DEF F!conf, F!N, F!Half, F!Word, F!VendorL, F!Out, F!OutW, F!OutH, F!Header, F!Footer
<1>6. Seen(fbuf)' <=> Seen(fbuf')
  BY <1>5 DEF Seen
<1>7. Ready(fbuf, 0)' <=> Ready(fbuf', 0)
  BY <1>2, <1>4, <1>5 DEF Ready
<1>8. Ready(fbuf, fat)' <=> Ready(fbuf', fat')
  BY <1>2, <1>4, <1>5 DEF Ready
<1>9. Scanned(fbuf, fat)' <=> Scanned(fbuf', fat')
  BY <1>2, <1>4, <1>5 DEF Scanned
<1>10. Upright(fbuf, fstep, fat)' <=> Upright(fbuf', fstep', fat')
  BY <1>2, <1>3, <1>5, <1>7, <1>8, <1>9 DEF Upright
<1> QED BY <1>1, <1>4, <1>5, <1>6, <1>10 DEF FrameInv, FrameIs

-----------------------------------------------------------------------------
(* Arithmetic of positions *)

\* A position is of one row and one column.
LEMMA Place ==
  ASSUME NEW w \in Nat, w > 0, NEW p \in Nat
  PROVE  /\ p = (p \div w) * w + (p % w)
         /\ p % w \in 0 .. w - 1 /\ p \div w \in Nat
OBVIOUS

\* Products of natural numbers are natural.
LEMMA Product ==
  ASSUME NEW a \in Nat, NEW b \in Nat
  PROVE  a * b \in Nat
OBVIOUS

\* Products are monotone.
LEMMA MulMono ==
  ASSUME NEW a \in Nat, NEW b \in Nat, NEW w \in Nat, a <= b
  PROVE  a * w <= b * w
OBVIOUS

\* And one position.
LEMMA Grid ==
  ASSUME NEW w \in Nat, w > 0, NEW y \in Nat, NEW x \in 0 .. w - 1
  PROVE  (y * w + x) \div w = y /\ (y * w + x) % w = x
<1> DEFINE p == y * w + x
           r == p \div w
           c == p % w
<1>1. p \in Nat /\ y * w \in Nat
  OBVIOUS
<1>2. p = r * w + c /\ c \in 0 .. w - 1 /\ r \in Nat
  BY <1>1, Place
<1> HIDE DEF r, c
<1>3. r * w - y * w = x - c
  BY <1>1, <1>2
<1>4. CASE r > y
  <2>1. (y + 1) * w <= r * w
    BY <1>4, <1>2, MulMono
  <2>2. (y + 1) * w = y * w + w
    OBVIOUS
  <2> QED BY <2>1, <2>2, <1>2, <1>3
<1>5. CASE r < y
  <2>1. (r + 1) * w <= y * w
    BY <1>5, <1>2, MulMono
  <2>2. (r + 1) * w = r * w + w
    BY <1>2
  <2> QED BY <2>1, <2>2, <1>2, <1>3
<1>6. CASE r = y
  BY <1>6, <1>2, <1>3 DEF r, c
<1> QED BY <1>4, <1>5, <1>6, <1>2

\* The sizes a frame is made of.
LEMMA Sizes ==
  ASSUME Conf
  PROVE  /\ fwire.w \in Nat /\ fwire.h \in Nat /\ fwire.w >= 4 /\ (fwire.fx3 => fwire.w >= 8) /\ F!N \in Nat
         /\ F!Word \in {2, 4} /\ F!Half \in {1, 2} /\ F!Word = 2 * F!Half
         /\ F!VendorL \in {6, 12} /\ (fwire.vendor => F!Rows * fwire.w >= F!VendorL /\ F!Rows * fwire.w + F!VendorL <= F!N)
         /\ F!Rows \in {1, 2} /\ F!Rows * fwire.w \in Nat /\ F!Rows * fwire.w >= fwire.w
         /\ F!Rows * fwire.w + fwire.w <= F!N
         /\ fwire.fx3 => F!Rows * fwire.w >= 8 /\ F!Rows * fwire.w + 8 <= F!N
<1> DEFINE w == fwire.w
           h == fwire.h
           n == F!Rows
<1>1. /\ w \in Nat /\ h \in Nat /\ w >= 4 /\ (fwire.fx3 => w >= 8) /\ h >= n + 1 /\ fwire.bpp \in {1, 2}
      /\ fwire.vendor => n * w >= F!VendorL /\ n * w + F!VendorL <= F!N
  <2>1. n \in Nat /\ h \in Nat /\ h > n
    BY DEF Conf, F!Rows
  <2> QED BY <2>1 DEF Conf
<1>2. F!Word \in {2, 4} /\ F!Half \in {1, 2} /\ F!Word = 2 * F!Half /\ F!VendorL \in {6, 12}
  BY <1>1 DEF F!Word, F!Half, F!VendorL
<1>3. n \in {1, 2}
  BY DEF F!Rows
<1> HIDE DEF w, h, n
<1>4. n * w \in Nat /\ n * w >= w /\ (n + 1) * w <= h * w /\ h * w = w * h /\ (n + 1) * w = n * w + w
  BY <1>1, <1>3, MulMono
<1> QED BY <1>1, <1>2, <1>3, <1>4 DEF F!N, w, h, n

\* A step of rows keeps the colour.
LEMMA PhaseBelow ==
  ASSUME Conf, NEW p \in Nat
  PROVE  F!Phase(p + F!Rows * fwire.w, fwire.w) = F!Phase(p, fwire.w)
<1> DEFINE w == fwire.w
           n == F!Rows
           r == p \div w
           c == p % w
<1>1. w \in Nat /\ w > 0 /\ n \in {1, 2} /\ (fwire.color => n = 2)
  BY Sizes DEF F!Rows
<1> HIDE DEF w, n
<1>2. p = r * w + c /\ c \in 0 .. w - 1 /\ r \in Nat
  BY <1>1, Place
<1> HIDE DEF r, c
<1>3. p + n * w = (r + n) * w + c
  BY <1>1, <1>2
<1>4. (p + n * w) \div w = r + n /\ (p + n * w) % w = c
  <2>1. r + n \in Nat
    BY <1>1, <1>2
  <2> QED BY <2>1, <1>1, <1>2, <1>3, Grid
<1>5. (r + 2) % 2 = r % 2
  BY <1>2
<1>6. p \div w = r /\ p % w = c
  BY DEF r, c
<1> QED BY <1>1, <1>4, <1>5, <1>6 DEF F!Phase, w, n

-----------------------------------------------------------------------------
(* The arithmetic of blocks *)

\* The lines of block y are those a block's size divides to y.
LEMMA Block ==
  ASSUME NEW b \in Nat, b > 0, NEW r \in Nat, NEW y \in Nat
  PROVE  r \div b = y <=> \E d \in 0 .. b - 1 : r = y * b + d
<1>1. r = (r \div b) * b + (r % b) /\ r % b \in 0 .. b - 1
  BY Place
<1>2. ASSUME NEW d \in 0 .. b - 1, r = y * b + d PROVE r \div b = y
  BY <1>2, Grid
<1> QED BY <1>1, <1>2

\* On a mosaic, those of one colour in a block twice as large.
OfLane(b, r, y) == r \div (2 * b) = y \div 2 /\ r % 2 = y % 2

\* Every other line from the first of them.
Lines(b, y) == {2 * b * (y \div 2) + (y % 2) + 2 * i : i \in 0 .. b - 1}

\* Which are the same.
LEMMA Lane ==
  ASSUME NEW b \in Nat, b > 0, NEW r \in Nat, NEW y \in Nat
  PROVE  OfLane(b, r, y) <=> r \in Lines(b, y)
<1> DEFINE k == y \div 2
           e == y % 2
<1>1. k \in Nat /\ e \in 0 .. 1 /\ 2 * b \in Nat /\ 2 * b > 0
  OBVIOUS
<1> HIDE DEF k, e
<1>2. b * k \in Nat /\ (2 * b) * k = 2 * (b * k) /\ 2 * b * k = 2 * (b * k) /\ k * (2 * b) = 2 * (b * k)
  BY <1>1
<1>3. ASSUME r \div (2 * b) = k, r % 2 = e
      PROVE  \E i \in 0 .. b - 1 : r = 2 * b * k + e + 2 * i
  <2>1. PICK d \in 0 .. 2 * b - 1 : r = k * (2 * b) + d
    BY <1>1, <1>3, Block
  <2>2. d % 2 = e
    <3>1. r = 2 * (b * k) + d /\ b * k \in Nat
      BY <1>2, <2>1
    <3> QED BY <1>3, <2>1, <3>1
  <2>3. (d - e) \div 2 \in 0 .. b - 1 /\ d = e + 2 * ((d - e) \div 2)
    BY <1>1, <2>1, <2>2
  <2> DEFINE i == (d - e) \div 2
  <2>4. r = 2 * b * k + e + 2 * i /\ i \in 0 .. b - 1
    <3> HIDE DEF i
    <3>1. i \in 0 .. b - 1 /\ d = e + 2 * i
      BY <2>3 DEF i
    <3> QED BY <1>1, <1>2, <2>1, <3>1
  <2> QED BY <2>4
<1>4. ASSUME NEW i \in 0 .. b - 1, r = 2 * b * k + e + 2 * i
      PROVE  r \div (2 * b) = k /\ r % 2 = e
  <2>1. r = 2 * (b * k) + e + 2 * i /\ r = k * (2 * b) + (e + 2 * i)
    BY <1>1, <1>2, <1>4
  <2>2. e + 2 * i \in 0 .. 2 * b - 1
    BY <1>1
  <2>3. r \div (2 * b) = k
    BY <1>1, <2>1, <2>2, Block
  <2>4. r % 2 = e
    BY <1>1, <1>2, <2>1
  <2> QED BY <2>3, <2>4
<1> QED BY <1>3, <1>4 DEF k, e, OfLane, Lines

\* The line of an output is no later than its first source, whose block is whole.
LEMMA FirstLine ==
  ASSUME NEW b \in Nat, b > 0, NEW w \in Nat, NEW x \in Nat, x < w \div b
  PROVE  /\ (w \div b) \in Nat /\ w \div b <= w
         /\ x * b \in Nat /\ x * b + b <= w /\ x <= x * b
         /\ LET f == 2 * b * (x \div 2) + (x % 2) IN f \in Nat /\ f < w /\ x <= f
<1> DEFINE q == w \div b
           k == x \div 2
           e == x % 2
<1>1. w = q * b + (w % b) /\ w % b \in 0 .. b - 1 /\ q \in Nat
  BY Place
<1>2. k \in Nat /\ e \in 0 .. 1 /\ x = 2 * k + e
  OBVIOUS
<1>3. x < q
  OBVIOUS
<1> HIDE DEF q, k, e
<1>4. (x + 1) * b <= q * b /\ (x + 1) * b = x * b + b /\ x * b \in Nat
  BY <1>1, <1>3, MulMono
<1>5. 1 * x <= b * x /\ b * x = x * b /\ 1 * q <= b * q /\ b * q = q * b
  BY <1>1, MulMono
<1>6. b * k \in Nat /\ 1 * k <= b * k /\ 2 * b * k = 2 * (b * k)
  BY <1>2, MulMono
<1>7. x * b = 2 * (b * k) + e * b /\ e * b >= e
  <2>1. (2 * k + e) * b = 2 * (b * k) + e * b
    BY <1>2
  <2>2. e * b >= e
    BY <1>2
  <2> QED BY <1>2, <2>1, <2>2
<1>8. 2 * b * k + e \in Nat /\ 2 * b * k + e < w /\ x <= 2 * b * k + e
  BY <1>1, <1>2, <1>4, <1>6, <1>7
<1> QED BY <1>1, <1>4, <1>5, <1>8 DEF q, k, e

\* An output is one of a row and one of a column.
LEMMA OutputAt ==
  ASSUME Conf, NEW o \in 0 .. F!Out - 1
  PROVE  /\ F!OutW \in Nat /\ F!OutW > 0 /\ F!OutW <= fwire.w
         /\ o % F!OutW \in Nat /\ o % F!OutW < F!OutW
         /\ o \div F!OutW \in Nat /\ o \div F!OutW < F!OutH
         /\ o = (o \div F!OutW) * F!OutW + (o % F!OutW)
<1> DEFINE b == fwire.soft
           w == fwire.w
           h == fwire.h
           u == F!OutW
           v == F!OutH
<1>1. b \in Nat /\ b > 0 /\ w \in Nat /\ h \in Nat
  BY DEF Conf
<1>2. u \in Nat /\ v \in Nat
  BY <1>1, Place DEF F!OutW, F!OutH
<1>3. o \in Nat /\ o < u * v
  BY <1>2 DEF F!Out
<1> HIDE DEF u, v, b, w, h
<1>4. u > 0
  BY <1>2, <1>3
<1>5. o = (o \div u) * u + (o % u) /\ o % u \in 0 .. u - 1 /\ o \div u \in Nat
  BY <1>2, <1>3, <1>4, Place
<1>6. o \div u < v
  <2>1. CASE o \div u >= v
    <3>1. v * u <= (o \div u) * u /\ v * u = u * v
      BY <1>2, <1>5, <2>1, MulMono
    <3> QED BY <1>3, <1>5, <3>1, <1>2
  <2> QED BY <1>2, <1>5, <2>1
<1>7. u <= w
  <2>1. u = w \div b
    BY DEF u, w, b, F!OutW
  <2> QED BY <1>1, <1>2, <1>4, <2>1, FirstLine
<1> QED BY <1>2, <1>4, <1>5, <1>6, <1>7 DEF u, v, w

\* The place of a wire sample.
LEMMA WireAt ==
  ASSUME Conf, NEW p
  PROVE  p \in 0 .. F!N - 1 <=>
           \E r \in 0 .. fwire.h - 1, c \in 0 .. fwire.w - 1 : p = r * fwire.w + c
<1> DEFINE w == fwire.w
           h == fwire.h
<1>1. w \in Nat /\ h \in Nat /\ w > 0 /\ F!N = w * h /\ F!N \in Nat
  BY Sizes DEF F!N
<1> HIDE DEF w, h
<1>2. ASSUME p \in 0 .. F!N - 1
      PROVE  \E r \in 0 .. h - 1, c \in 0 .. w - 1 : p = r * w + c
  <2>1. p = (p \div w) * w + (p % w) /\ p % w \in 0 .. w - 1 /\ p \div w \in Nat
    BY <1>1, <1>2, Place
  <2>2. p \div w < h
    <3>1. CASE p \div w >= h
      <4>1. h * w <= (p \div w) * w /\ h * w = w * h
        BY <1>1, <2>1, <3>1, MulMono
      <4> QED BY <1>1, <1>2, <2>1, <4>1
    <3> QED BY <1>1, <2>1, <3>1
  <2>3. p \div w \in 0 .. h - 1
    BY <1>1, <2>1, <2>2
  <2> QED BY <2>1, <2>3
<1>3. ASSUME NEW r \in 0 .. h - 1, NEW c \in 0 .. w - 1, p = r * w + c
      PROVE  p \in 0 .. F!N - 1
  <2>1. (r + 1) * w <= h * w /\ (r + 1) * w = r * w + w /\ h * w = w * h /\ r * w \in Nat
    BY <1>1, MulMono
  <2> QED BY <1>1, <1>3, <2>1
<1> QED BY <1>2, <1>3 DEF w, h

\* A line, of rows or columns, is in the part of line y of the output.
InPart(r, y) ==
  IF fwire.color THEN r \div (2 * fwire.soft) = y \div 2 /\ r % 2 = y % 2 ELSE r \div fwire.soft = y

\* Those lines are a run of the bin's length, of every other line on a mosaic.
LEMMA PartIs ==
  ASSUME Conf, NEW r \in Nat, NEW y \in Nat
  PROVE  InPart(r, y) <=> IF fwire.color
                            THEN \E i \in 0 .. fwire.soft - 1 : r = 2 * fwire.soft * (y \div 2) + (y % 2) + 2 * i
                            ELSE \E d \in 0 .. fwire.soft - 1 : r = y * fwire.soft + d
<1> DEFINE b == fwire.soft
<1>1. b \in Nat /\ b > 0
  BY DEF Conf
<1> HIDE DEF b
<1>2. r \div b = y <=> \E d \in 0 .. b - 1 : r = y * b + d
  BY <1>1, Block
<1>3. (r \div (2 * b) = y \div 2 /\ r % 2 = y % 2)
        <=> \E i \in 0 .. b - 1 : r = 2 * b * (y \div 2) + (y % 2) + 2 * i
  <2>1. OfLane(b, r, y) <=> r \in Lines(b, y)
    BY <1>1, Lane
  <2>2. r \in Lines(b, y) <=> \E i \in 0 .. b - 1 : r = 2 * b * (y \div 2) + (y % 2) + 2 * i
    BY DEF Lines
  <2>3. OfLane(b, r, y) <=> (r \div (2 * b) = y \div 2 /\ r % 2 = y % 2)
    BY DEF OfLane
  <2> QED BY <2>1, <2>2, <2>3, Zenon
<1> QED BY <1>2, <1>3, Zenon DEF InPart, b

\* What an output is binned from: a row and a column in its part of each.
LEMMA SourcesAt ==
  ASSUME Conf, NEW o \in 0 .. F!Out - 1, NEW p
  PROVE  p \in F!Sources(o % F!OutW, o \div F!OutW) <=>
           \E r \in 0 .. fwire.h - 1, c \in 0 .. fwire.w - 1 :
             p = r * fwire.w + c /\ InPart(r, o \div F!OutW) /\ InPart(c, o % F!OutW)
<1> DEFINE b == fwire.soft
           w == fwire.w
           h == fwire.h
           x == o % F!OutW
           y == o \div F!OutW
<1>1. b \in Nat /\ b > 0 /\ w \in Nat /\ h \in Nat
  BY DEF Conf
<1>2. x \in Nat /\ y \in Nat /\ x < w \div b /\ y < h \div b
  BY OutputAt DEF F!OutW, F!OutH
<1> HIDE DEF x, y, b, w, h
<1>3. /\ x * b \in Nat /\ x * b + b <= w
      /\ y * b \in Nat /\ y * b + b <= h
  BY <1>1, <1>2, FirstLine
<1>4. CASE ~fwire.color
  <2>1. p \in F!Sources(x, y) <=> \E dx, dy \in 0 .. b - 1 : p = (y * b + dy) * w + x * b + dx
    BY <1>4 DEF F!Sources, b, w
  <2>2. ASSUME NEW dx \in 0 .. b - 1, NEW dy \in 0 .. b - 1, p = (y * b + dy) * w + x * b + dx
        PROVE  \E r \in 0 .. h - 1, c \in 0 .. w - 1 : p = r * w + c /\ InPart(r, y) /\ InPart(c, x)
    <3> DEFINE r == y * b + dy
               c == x * b + dx
    <3>1. r \in 0 .. h - 1 /\ c \in 0 .. w - 1 /\ r \in Nat /\ c \in Nat
      BY <1>1, <1>3
    <3>2. r \div b = y /\ c \div b = x
      BY <1>1, <1>2, Grid
    <3> HIDE DEF r
    <3>3. r * w \in Nat
      BY <1>1, <3>1
    <3>4. p = r * w + c
      BY <1>1, <1>3, <2>2, <3>3 DEF r
    <3> HIDE DEF c
    <3> QED BY <1>4, <3>1, <3>2, <3>4 DEF InPart, b
  <2>3. ASSUME NEW r \in 0 .. h - 1, NEW c \in 0 .. w - 1, p = r * w + c, InPart(r, y), InPart(c, x)
        PROVE  \E dx, dy \in 0 .. b - 1 : p = (y * b + dy) * w + x * b + dx
    <3>1. r \in Nat /\ c \in Nat /\ r \div b = y /\ c \div b = x
      BY <1>4, <2>3 DEF InPart, b
    <3>2. PICK dy \in 0 .. b - 1 : r = y * b + dy
      BY <1>1, <1>2, <3>1, Block
    <3>3. PICK dx \in 0 .. b - 1 : c = x * b + dx
      BY <1>1, <1>2, <3>1, Block
    <3>4. p = (y * b + dy) * w + x * b + dx
      <4>1. (y * b + dy) * w = r * w /\ r * w \in Nat
        BY <1>1, <3>1, <3>2
      <4> QED BY <1>3, <2>3, <3>3, <4>1
    <3> QED BY <3>4
  <2> QED BY <2>1, <2>2, <2>3 DEF x, y, w, h
<1>5. CASE fwire.color
  <2> DEFINE R == {2 * b * (y \div 2) + (y % 2) + 2 * i : i \in 0 .. b - 1}
             C == {2 * b * (x \div 2) + (x % 2) + 2 * i : i \in 0 .. b - 1}
  <2>1. p \in F!Sources(x, y) <=> \E r \in R \cap 0 .. h - 1, c \in C \cap 0 .. w - 1 : p = r * w + c
    BY <1>5 DEF F!Sources, b, w, h
  <2>2. \A r \in 0 .. h - 1 : r \in R <=> InPart(r, y)
    <3> SUFFICES ASSUME NEW r \in 0 .. h - 1 PROVE r \in R <=> InPart(r, y)
      OBVIOUS
    <3>1. r \in Nat
      OBVIOUS
    <3>2. InPart(r, y) <=> \E i \in 0 .. b - 1 : r = 2 * b * (y \div 2) + (y % 2) + 2 * i
      BY <1>2, <1>5, <3>1, PartIs DEF b
    <3> QED BY <3>2
  <2>3. \A c \in 0 .. w - 1 : c \in C <=> InPart(c, x)
    <3> SUFFICES ASSUME NEW c \in 0 .. w - 1 PROVE c \in C <=> InPart(c, x)
      OBVIOUS
    <3>1. c \in Nat
      OBVIOUS
    <3>2. InPart(c, x) <=> \E i \in 0 .. b - 1 : c = 2 * b * (x \div 2) + (x % 2) + 2 * i
      BY <1>2, <1>5, <3>1, PartIs DEF b
    <3> QED BY <3>2
  <2> HIDE DEF R, C
  <2> QED BY <2>1, <2>2, <2>3 DEF x, y, w, h
<1> QED BY <1>4, <1>5

\* Which is what it stands for.
LEMMA SourcesAre ==
  ASSUME Conf, NEW o \in 0 .. F!Out - 1
  PROVE  F!Sources(o % F!OutW, o \div F!OutW) = F!Footprint(o)
<1> DEFINE b == fwire.soft
           w == fwire.w
           h == fwire.h
           x == o % F!OutW
           y == o \div F!OutW
           k == IF fwire.color THEN 2 ELSE 1
<1>1. b \in Nat /\ b > 0 /\ w \in Nat /\ h \in Nat /\ w > 0
  BY Sizes DEF Conf
<1>2. x \in Nat /\ y \in Nat
  BY OutputAt
<1>3. ASSUME NEW p
      PROVE  p \in F!Footprint(o) <=>
              /\ p \in 0 .. F!N - 1
              /\ (p \div w) \div (k * b) = y \div k /\ (p % w) \div (k * b) = x \div k
              /\ F!Phase(p, w) = F!Phase(o, F!OutW)
  BY DEF F!Footprint
<1>4. ASSUME NEW p
      PROVE  F!Phase(p, w) = F!Phase(o, F!OutW) <=> (fwire.color => (p \div w) % 2 = y % 2 /\ (p % w) % 2 = x % 2)
  BY DEF F!Phase
<1>5. \A r \in Nat, z \in Nat :
        InPart(r, z) <=> r \div (k * b) = z \div k /\ (fwire.color => r % 2 = z % 2)
  BY <1>1 DEF InPart
<1> HIDE DEF w, h, b, x, y, k
<1>6. ASSUME NEW r \in 0 .. h - 1, NEW c \in 0 .. w - 1
      PROVE  r * w + c \in 0 .. F!N - 1 /\ (r * w + c) \div w = r /\ (r * w + c) % w = c
  <2>1. r \in Nat
    BY <1>1
  <2>2. (r * w + c) \div w = r /\ (r * w + c) % w = c
    BY <1>1, <2>1, Grid
  <2>3. r * w + c \in 0 .. F!N - 1
    BY WireAt DEF w, h
  <2> QED BY <2>2, <2>3
<1>7. ASSUME NEW p PROVE p \in F!Footprint(o) <=>
           \E r \in 0 .. h - 1, c \in 0 .. w - 1 : p = r * w + c /\ InPart(r, y) /\ InPart(c, x)
  <2>1. p \in 0 .. F!N - 1 <=> \E r \in 0 .. h - 1, c \in 0 .. w - 1 : p = r * w + c
    BY WireAt DEF w, h
  <2>2. ASSUME NEW r \in 0 .. h - 1, NEW c \in 0 .. w - 1, p = r * w + c
        PROVE  p \in F!Footprint(o) <=> InPart(r, y) /\ InPart(c, x)
    <3>1. r \in Nat /\ c \in Nat
      BY <1>1
    <3>2. p \in 0 .. F!N - 1 /\ p \div w = r /\ p % w = c
      BY <1>6, <2>2
    <3>3. p \in F!Footprint(o) <=>
            /\ r \div (k * b) = y \div k /\ c \div (k * b) = x \div k
            /\ (fwire.color => r % 2 = y % 2 /\ c % 2 = x % 2)
      BY <1>3, <1>4, <3>2
    <3>4. InPart(r, y) <=> r \div (k * b) = y \div k /\ (fwire.color => r % 2 = y % 2)
      BY <1>2, <1>5, <3>1
    <3>5. InPart(c, x) <=> c \div (k * b) = x \div k /\ (fwire.color => c % 2 = x % 2)
      BY <1>2, <1>5, <3>1
    <3> QED BY <3>3, <3>4, <3>5
  <2>3. p \in F!Footprint(o) => p \in 0 .. F!N - 1
    BY <1>3
  <2> QED BY <2>1, <2>2, <2>3
<1>8. \A p : p \in F!Sources(x, y) <=> p \in F!Footprint(o)
  BY <1>7, SourcesAt DEF x, y, w, h
<1>9. F!Footprint(o) \subseteq 0 .. F!N - 1
  BY <1>3
<1>10. F!Sources(x, y) = F!Footprint(o)
  BY <1>8
<1> QED BY <1>10 DEF x, y

\* It stands for something, in the frame, of its colour, and nothing that has been
\* overwritten: the outputs before it lie before all its sources.
LEMMA SourcesHold ==
  ASSUME Conf, NEW o \in 0 .. F!Out - 1
  PROVE  /\ F!Footprint(o) # {}
         /\ \A p \in F!Footprint(o) : p \in 0 .. F!N - 1 /\ p >= o /\ F!Phase(p, fwire.w) = F!Phase(o, F!OutW)
<1> DEFINE b == fwire.soft
           w == fwire.w
           h == fwire.h
           u == F!OutW
           x == o % F!OutW
           y == o \div F!OutW
           S == F!Sources(x, y)
<1>1. b \in Nat /\ b > 0 /\ w \in Nat /\ h \in Nat /\ w > 0
  BY Sizes DEF Conf
<1>2. /\ x \in Nat /\ y \in Nat /\ x < w \div b /\ y < h \div b
      /\ u \in Nat /\ u <= w /\ o = y * u + x
  BY OutputAt DEF F!OutW, F!OutH
<1>3. \A p \in F!Footprint(o) : p \in 0 .. F!N - 1 /\ F!Phase(p, w) = F!Phase(o, F!OutW)
  BY DEF F!Footprint
<1>4. S = F!Footprint(o)
  BY SourcesAre
<1>5. \A p : p \in S <=> \E r \in 0 .. h - 1, c \in 0 .. w - 1 : p = r * w + c /\ InPart(r, y) /\ InPart(c, x)
  BY SourcesAt
<1> HIDE DEF w, h, b, x, y, S, u
<1>6. ASSUME NEW z \in Nat, NEW n \in Nat, z < n \div b
      PROVE  /\ \E r \in 0 .. n - 1 : InPart(r, z)
             /\ \A r \in 0 .. n - 1 : InPart(r, z) => z <= r
  <2>1. /\ z * b \in Nat /\ z * b + b <= n /\ z <= z * b
        /\ LET f == 2 * b * (z \div 2) + (z % 2) IN f \in Nat /\ f < n /\ z <= f
    BY <1>1, <1>6, FirstLine
  <2>2. CASE fwire.color
    <3> DEFINE f == 2 * b * (z \div 2) + (z % 2)
    <3>1. \A r \in Nat : InPart(r, z) <=> \E i \in 0 .. b - 1 : r = f + 2 * i
      <4> SUFFICES ASSUME NEW r \in Nat PROVE InPart(r, z) <=> \E i \in 0 .. b - 1 : r = f + 2 * i
        OBVIOUS
      <4> QED BY <1>6, <2>2, PartIs DEF b
    <3>2. f \in Nat /\ f < n /\ z <= f
      BY <2>1
    <3> HIDE DEF f
    <3>3. InPart(f, z)
      <4>1. f = f + 2 * 0 /\ 0 \in 0 .. b - 1
        BY <1>1, <3>2
      <4> QED BY <3>1, <3>2, <4>1
    <3> QED BY <3>1, <3>2, <3>3
  <2>3. CASE ~fwire.color
    <3>1. \A r \in Nat : InPart(r, z) <=> \E d \in 0 .. b - 1 : r = z * b + d
      <4> SUFFICES ASSUME NEW r \in Nat PROVE InPart(r, z) <=> \E d \in 0 .. b - 1 : r = z * b + d
        OBVIOUS
      <4> QED BY <1>6, <2>3, PartIs DEF b
    <3> DEFINE f == z * b
    <3>2. f \in Nat /\ f < n /\ z <= f
      BY <1>1, <2>1
    <3>3. \A r \in Nat : InPart(r, z) <=> \E d \in 0 .. b - 1 : r = f + d
      BY <3>1
    <3> HIDE DEF f
    <3>4. InPart(f, z)
      <4>1. f = f + 0 /\ 0 \in 0 .. b - 1
        BY <1>1, <3>2
      <4> QED BY <3>2, <3>3, <4>1
    <3> QED BY <3>2, <3>3, <3>4
  <2> QED BY <2>2, <2>3
<1>7. S # {}
  BY <1>1, <1>2, <1>5, <1>6
<1>8. ASSUME NEW p \in S PROVE p >= o
  <2>1. PICK r \in 0 .. h - 1, c \in 0 .. w - 1 : p = r * w + c /\ InPart(r, y) /\ InPart(c, x)
    BY <1>5
  <2>2. y <= r /\ x <= c
    BY <1>1, <1>2, <1>6, <2>1
  <2>3. y * u <= r * u /\ r * u <= r * w
    <3>1. y * u <= r * u
      BY <1>2, <2>2, MulMono
    <3>2. u * r <= w * r /\ u * r = r * u /\ w * r = r * w
      BY <1>1, <1>2, MulMono
    <3> QED BY <3>1, <3>2
  <2>4. y * u \in Nat /\ r * u \in Nat /\ r * w \in Nat
    BY <1>1, <1>2
  <2> QED BY <1>1, <1>2, <2>1, <2>2, <2>3, <2>4
<1> QED BY <1>3, <1>4, <1>7, <1>8 DEF w

-----------------------------------------------------------------------------
(* Samples *)

\* A sample as it was sent, of no marker and not of the map, is fit.
LEMMA GoodRaw ==
  ASSUME NEW b, NEW p \in 0 .. F!N - 1, b[p] = {p}, fwire.bin <= 1 => ~F!Flagged(p)
  PROVE  Good(b, p)
BY DEF Good

\* So is one that is replaced by a fit one of its colour.
LEMMA GoodFrom ==
  ASSUME NEW b, NEW d, NEW p, NEW q, Good(b, q), d[p] = b[q], F!Phase(q, fwire.w) = F!Phase(p, fwire.w), ~F!Clean(p)
  PROVE  Good(d, p)
BY DEF Good

\* Or left as it was.
LEMMA GoodSame ==
  ASSUME NEW b, NEW d, NEW p, Good(b, p), d[p] = b[p]
  PROVE  Good(d, p)
BY DEF Good

\* d is b with places i to e - 1 copied from k further.
Copied(b, d, i, e, k) ==
  /\ d \in [0 .. F!N - 1 -> SUBSET Int]
  /\ \A p \in 0 .. F!N - 1 : p >= i /\ p < e => d[p] = b[p + k]
  /\ \A p \in 0 .. F!N - 1 : ~(p >= i /\ p < e) => d[p] = b[p]

\* What a copy within the buffer leaves in it.
LEMMA OverAt ==
  ASSUME F!N \in Nat, NEW b \in [0 .. F!N - 1 -> SUBSET Int], NEW i \in Nat, NEW from \in Nat, NEW len \in Nat,
         NEW e, e = i + len, e <= F!N, from + len <= F!N, NEW k \in Int, from = i + k,
         NEW d, d = F!Overwrite(b, i, from, len)
  PROVE  Copied(b, d, i, e, k)
<1>1. d = [p \in 0 .. F!N - 1 |-> IF p \in i .. i + len - 1 THEN b[from + p - i] ELSE b[p]]
  BY DEF F!Overwrite
<1>2. ASSUME NEW p \in 0 .. F!N - 1, p >= i /\ p < e
      PROVE  from + p - i = p + k /\ p + k \in 0 .. F!N - 1
  BY <1>2
<1>3. \A p \in 0 .. F!N - 1 : p \in i .. i + len - 1 <=> p >= i /\ p < e
  OBVIOUS
<1>4. \A p \in 0 .. F!N - 1 : d[p] = IF p >= i /\ p < e THEN b[p + k] ELSE b[p]
  BY <1>1, <1>2, <1>3
<1>5. \A p \in 0 .. F!N - 1 : d[p] \in SUBSET Int
  BY <1>2, <1>4
<1>6. d = [p \in 0 .. F!N - 1 |-> d[p]]
  BY <1>1
<1>7. d \in [0 .. F!N - 1 -> SUBSET Int]
  BY <1>5, <1>6
<1> QED BY <1>2, <1>4, <1>7 DEF Copied

\* What is sent at a place of the frame: a marker or the place's own pixel.
LEMMA SentAt ==
  ASSUME Conf, NEW p \in 0 .. F!N - 1
  PROVE  /\ fwire.fx3 => F!Sent(p) = IF p < F!Word THEN -1 ELSE IF p >= F!N - F!Word THEN -2 ELSE p
         /\ ~fwire.fx3 /\ ~fwire.vendor => F!Sent(p) = p
         /\ fwire.vendor =>
              /\ p < F!VendorL => F!Sent(p) = -10 - p
              /\ p >= F!VendorL /\ ~(fsecond > 0 /\ p >= fsecond /\ p < fsecond + F!VendorL) => F!Sent(p) = p
              /\ p >= F!VendorL /\ fsecond > 0 /\ p >= fsecond /\ p < fsecond + F!VendorL
                   => F!Sent(p) = -10 - (p - fsecond)
<1>1. /\ F!N \in Nat /\ F!Word \in Nat /\ F!VendorL \in Nat /\ p \in Nat /\ ~(p < 0)
      /\ fsecond \in Nat /\ fwire.w \in Nat /\ ~(fwire.fx3 /\ fwire.vendor)
  BY Sizes DEF Conf
<1>2. p \in fsecond .. fsecond + F!VendorL - 1 <=> p >= fsecond /\ p < fsecond + F!VendorL
  BY <1>1
<1>3. CASE fwire.fx3
  BY <1>1, <1>3 DEF F!Sent, F!Header, F!Footer
<1>4. CASE ~fwire.fx3 /\ ~fwire.vendor
  BY <1>1, <1>4 DEF F!Sent
<1>5. CASE ~fwire.fx3 /\ fwire.vendor
  BY <1>1, <1>2, <1>5 DEF F!Sent, F!Marker
<1> QED BY <1>1, <1>3, <1>4, <1>5

\* Whatever is sent is an integer.
LEMMA SentInt ==
  ASSUME Conf, NEW q \in Int
  PROVE  F!Sent(q) \in Int
<1>1. F!N \in Nat /\ fsecond \in Nat /\ fwire.w \in Nat
  BY Sizes DEF Conf
<1>2. F!Sent(q) \in {F!Footer, F!Header, 2 * F!N + q, F!Marker(q), F!Marker(q - fsecond), q}
  BY DEF F!Sent
<1> QED BY <1>1, <1>2 DEF F!Footer, F!Header, F!Marker

-----------------------------------------------------------------------------
(* The initial states *)

\* A frame just received.
LEMMA FrameStarts ==
  ASSUME F!FramesConstants, F!Init
  PROVE  FrameInv
<1>1. /\ fwire \in [fx3 : BOOLEAN, vendor : BOOLEAN, color : BOOLEAN, bpp : {1, 2}, w : Nat, h : Nat,
                   soft : Nat \ {0}, bin : Nat \ {0}]
      /\ ~(fwire.fx3 /\ fwire.vendor)
      /\ fwire.w >= (IF fwire.fx3 THEN 8 ELSE 4) /\ fwire.h > F!Rows
      /\ fwire.fx3 => \A k \in Starts : k * (4 \div fwire.bpp) + 2 \div fwire.bpp <= fwire.w * fwire.h
      /\ fwire.vendor =>
           /\ F!Rows * fwire.w >= F!VendorL /\ F!Rows * fwire.w + F!VendorL <= F!N
           /\ \A s \in Seconds : s = 0 \/ (s >= F!Rows * fwire.w + F!VendorL /\ s + F!VendorL <= F!N)
      /\ Starts \subseteq Nat /\ Seconds \subseteq Nat
  BY DEF F!FramesConstants, F!Init, F!Rows, F!VendorL, F!N
<1>2. F!Word \in Nat /\ F!Half = 2 \div fwire.bpp /\ F!Word = 4 \div fwire.bpp /\ F!N = fwire.w * fwire.h /\ F!N \in Nat
  BY <1>1 DEF F!Word, F!Half, F!N
<1>3. /\ fstart \in Nat
      /\ fwire.fx3 => fstart + F!Half <= F!N /\ \E k \in Nat : fstart = k * F!Word
      /\ ~fwire.fx3 => fstart = 0
  <2>1. CASE fwire.fx3
    <3>1. PICK k \in Starts : fstart = k * F!Word
      BY <2>1 DEF F!Init
    <3>2. k \in Nat /\ k * F!Word \in Nat
      BY <1>1, <1>2
    <3>3. k * F!Word + F!Half <= F!N
      BY <1>1, <1>2, <2>1
    <3> QED BY <2>1, <3>1, <3>2, <3>3
  <2>2. CASE ~fwire.fx3
    BY <2>2 DEF F!Init
  <2> QED BY <2>1, <2>2
<1>4. /\ fsecond \in Nat
      /\ ~fwire.vendor => fsecond = 0
      /\ fwire.vendor =>
           /\ fflagged = {}
           /\ fsecond = 0 \/ (fsecond >= F!Rows * fwire.w + F!VendorL /\ fsecond + F!VendorL <= F!N)
  BY <1>1 DEF F!Init
<1>5. Conf
  BY <1>1, <1>3, <1>4 DEF F!Init, Conf
<1>6. fbuf = [p \in 0 .. F!N - 1 |-> {F!Sent(p - fstart)}] /\ faligned = TRUE /\ fstep = "fx3" /\ fat = 0
  BY DEF F!Init
<1>7. \A p \in 0 .. F!N - 1 : {F!Sent(p - fstart)} \in SUBSET Int
  <2> SUFFICES ASSUME NEW p \in 0 .. F!N - 1 PROVE {F!Sent(p - fstart)} \in SUBSET Int
    OBVIOUS
  <2>1. p - fstart \in Int
    BY <1>2, <1>3
  <2> QED BY <1>5, <2>1, SentInt
<1>8. fbuf \in [0 .. F!N - 1 -> SUBSET Int] /\ \A p \in 0 .. F!N - 1 : fbuf[p] = {F!Sent(p - fstart)}
  BY <1>6, <1>7
<1> QED BY <1>5, <1>6, <1>8 DEF FrameInv, FrameIs, Upright

-----------------------------------------------------------------------------
(* RepairFX3 *)

\* A frame that does not start at the start of the buffer is not repaired: its
\* first word is not a header, and the boundary is where the caller looks.
LEMMA EarlyStart ==
  ASSUME Conf, fstart > 0, NEW b, \A p \in 0 .. F!N - 1 : b[p] = {F!Sent(p - fstart)}
  PROVE  b[0] # {F!Header} /\ Seen(b)
<1>1. /\ fwire.fx3 /\ fstart + F!Half <= F!N /\ fstart \in Nat /\ F!N \in Nat
      /\ F!Word \in {2, 4} /\ F!Half \in {1, 2} /\ F!Word = 2 * F!Half /\ F!N >= 8 + 8
  BY Sizes DEF Conf
<1>2. fstart >= F!Word
  <2>1. PICK k \in Nat : fstart = k * F!Word
    BY <1>1 DEF Conf
  <2> QED BY <1>1, <2>1
<1>3. b[0] # {F!Header}
  <2>1. b[0] = {F!Sent(-fstart)} /\ -fstart < 0
    BY <1>1
  <2>2. F!Sent(-fstart) = F!Footer \/ F!Sent(-fstart) = 2 * F!N - fstart
    BY <1>1, <2>1 DEF F!Sent
  <2> QED BY <1>1, <2>1, <2>2 DEF F!Header, F!Footer
<1>4. ASSUME NEW j \in 0 .. F!Half - 1
      PROVE  b[fstart + j] = {F!Header} /\ b[fstart - 1 - j] = {F!Footer}
  <2>1. fstart + j \in 0 .. F!N - 1 /\ fstart - 1 - j \in 0 .. F!N - 1
    BY <1>1, <1>2
  <2>2. (fstart + j) - fstart = j /\ (fstart - 1 - j) - fstart = -1 - j
    BY <1>1
  <2>3. F!Sent(j) = F!Header
    BY <1>1 DEF F!Sent
  <2>4. F!Sent(-1 - j) = F!Footer
    BY <1>1 DEF F!Sent
  <2> QED BY <2>1, <2>2, <2>3, <2>4
<1> QED BY <1>3, <1>4 DEF Seen

\* The words replaced are so from a step of rows away.
LEMMA WordsReplaced ==
  ASSUME Conf, fwire.fx3, NEW b \in [0 .. F!N - 1 -> SUBSET Int], \A p \in 0 .. F!N - 1 : b[p] = {F!Sent(p)},
         NEW d, d = F!Overwrite(F!Overwrite(b, 0, F!Rows * fwire.w, F!Word), F!N - F!Word, F!N - F!Word - F!Rows * fwire.w, F!Word)
  PROVE  d \in [0 .. F!N - 1 -> SUBSET Int] /\ Ready(d, 0)
<1> DEFINE s == F!Rows * fwire.w
           m == F!Word
           c == F!Overwrite(b, 0, s, m)
<1>1. F!N \in Nat /\ s \in Nat /\ m \in {2, 4} /\ s >= 8 /\ s + 8 <= F!N
  BY Sizes
<1>2. \A i \in 0 .. m - 1 : ~F!Flagged(s + i) /\ ~F!Flagged(F!N - 1 - s - i)
  BY DEF Conf, F!SourcesGood
<1>3. \A p \in 0 .. F!N - 1 : F!Sent(p) = IF p < m THEN -1 ELSE IF p >= F!N - m THEN -2 ELSE p
  BY SentAt
<1>4. \A p \in Nat : F!Phase(p + s, fwire.w) = F!Phase(p, fwire.w)
  BY PhaseBelow
<1>5. d = F!Overwrite(c, F!N - m, F!N - m - s, m)
  OBVIOUS
<1> HIDE DEF s, m
<1>6. /\ c \in [0 .. F!N - 1 -> SUBSET Int]
      /\ \A p \in 0 .. F!N - 1 : p >= 0 /\ p < m => c[p] = b[p + s]
      /\ \A p \in 0 .. F!N - 1 : ~(p >= 0 /\ p < m) => c[p] = b[p]
  <2>1. /\ m = 0 + m /\ m <= F!N /\ s + m <= F!N /\ m \in Nat /\ s = 0 + s /\ s \in Int /\ 0 \in Nat
        /\ c = F!Overwrite(b, 0, s, m)
    BY <1>1 DEF c
  <2> HIDE DEF c
  <2>2. Copied(b, c, 0, m, s)
    BY <1>1, <2>1, OverAt
  <2> QED BY <2>2 DEF Copied
<1> HIDE DEF c
<1>7. /\ d \in [0 .. F!N - 1 -> SUBSET Int]
      /\ \A p \in 0 .. F!N - 1 : p >= F!N - m /\ p < F!N => d[p] = c[p + (-s)]
      /\ \A p \in 0 .. F!N - 1 : ~(p >= F!N - m /\ p < F!N) => d[p] = c[p]
  <2> DEFINE i == F!N - m
             from == F!N - m - s
             k == -s
  <2>1. i \in Nat /\ from \in Nat /\ F!N = i + m /\ from + m <= F!N /\ from = i + k /\ k \in Int
    BY <1>1
  <2>2. d = F!Overwrite(c, i, from, m) /\ m \in Nat /\ F!N <= F!N
    BY <1>1, <1>5
  <2> HIDE DEF i, from, k
  <2>3. Copied(c, d, i, F!N, k)
    <3>1. \A e : e = i + m /\ e <= F!N => Copied(c, d, i, e, k)
      BY <1>1, <1>6, <2>1, <2>2, OverAt, SMTT(30)
    <3> QED BY <2>1, <2>2, <3>1
  <2> QED BY <2>3 DEF Copied, i, k
<1>8. \A q \in m .. F!N - m - 1 : b[q] = {q} /\ q \in 0 .. F!N - 1
  BY <1>1, <1>3
<1>9. ASSUME NEW p \in 0 .. F!N - 1, fwire.bin > 1 \/ ~F!Flagged(p)
      PROVE  Good(d, p)
  <2>1. CASE p < m
    <3>1. d[p] = b[p + s] /\ p + s \in m .. F!N - m - 1 /\ p + s = s + p /\ p \in Nat
      <4>1. p >= 0 /\ ~(p >= F!N - m) /\ p + s \in m .. F!N - m - 1 /\ p \in Nat
        BY <1>1, <2>1
      <4>2. d[p] = c[p]
        BY <1>7, <4>1
      <4>3. c[p] = b[p + s]
        BY <1>1, <1>6, <2>1, <4>1
      <4> QED BY <1>1, <4>1, <4>2, <4>3
    <3>2. p \in 0 .. m - 1 /\ F!Sent(p) # p
      BY <1>1, <1>3, <2>1
    <3>3. b[p + s] = {p + s} /\ p + s \in 0 .. F!N - 1 /\ ~F!Flagged(p + s)
      BY <1>2, <1>8, <3>1, <3>2
    <3>4. Good(b, p + s)
      BY <3>3, GoodRaw
    <3> QED BY <1>4, <3>1, <3>2, <3>4, GoodFrom DEF F!Clean
  <2>2. CASE p >= F!N - m
    <3> DEFINE q == p - s
    <3>1. d[p] = c[q] /\ c[q] = b[q] /\ q \in m .. F!N - m - 1 /\ p = q + s /\ q \in Nat
      <4>1. p + (-s) = q /\ q \in m .. F!N - m - 1 /\ ~(q < m) /\ p = q + s
        BY <1>1, <2>2
      <4>2. q \in 0 .. F!N - 1 /\ p >= F!N - m /\ p < F!N
        BY <1>1, <2>2, <4>1
      <4>3. c[q] = b[q]
        BY <1>1, <1>6, <4>1, <4>2
      <4>4. d[p] = c[p + (-s)]
        BY <1>1, <1>7, <4>2
      <4> QED BY <1>1, <4>1, <4>3, <4>4
    <3>2. F!Sent(p) # p
      BY <1>1, <1>3, <2>2
    <3>3. q = F!N - 1 - s - (F!N - 1 - p) /\ F!N - 1 - p \in 0 .. m - 1
      BY <1>1, <2>2
    <3> HIDE DEF q
    <3>4. b[q] = {q} /\ q \in 0 .. F!N - 1 /\ ~F!Flagged(q)
      BY <1>2, <1>8, <3>1, <3>3
    <3>5. Good(b, q)
      BY <3>4, GoodRaw
    <3>6. F!Phase(q, fwire.w) = F!Phase(p, fwire.w)
      BY <1>4, <3>1
    <3> QED BY <3>1, <3>2, <3>5, <3>6, GoodFrom DEF F!Clean
  <2>3. CASE ~(p < m) /\ ~(p >= F!N - m)
    <3>1. d[p] = b[p] /\ p \in m .. F!N - m - 1
      BY <1>1, <1>6, <1>7, <2>3
    <3>2. d[p] = {p}
      BY <1>8, <3>1
    <3>3. fwire.bin <= 1 => ~F!Flagged(p)
      BY <1>9 DEF Conf
    <3> QED BY <3>2, <3>3, GoodRaw
  <2> QED BY <2>1, <2>2, <2>3
<1>10. \A p \in 0 .. F!N - 1 : ~(p < 0)
  BY <1>1
<1> QED BY <1>7, <1>9, <1>10 DEF Ready

\* The FX3's repair: of a frame from its start, or of none.
LEMMA Fx3Holds ==
  ASSUME FrameInv, F!RepairFX3
  PROVE  FrameInv'
<1>1. /\ Conf /\ fbuf \in [0 .. F!N - 1 -> SUBSET Int] /\ fstep = "fx3" /\ faligned = TRUE
      /\ \A p \in 0 .. F!N - 1 : fbuf[p] = {F!Sent(p - fstart)}
      /\ UNCHANGED F!conf /\ fstep' = "vendor" /\ fat' = 0
  BY DEF FrameInv, FrameIs, F!RepairFX3, F!Enter
<1>2. /\ F!N \in Nat /\ fstart \in Nat /\ F!Word \in {2, 4} /\ F!Half \in {1, 2} /\ F!Word = 2 * F!Half
      /\ fwire.fx3 => F!N >= 16
  <2>1. fstart \in Nat
    BY <1>1 DEF Conf
  <2>2. F!N \in Nat /\ F!Word \in {2, 4} /\ F!Half \in {1, 2} /\ F!Word = 2 * F!Half
    BY <1>1, Sizes
  <2>3. ASSUME fwire.fx3 PROVE F!N >= 16
    <3> DEFINE s == F!Rows * fwire.w
    <3>1. s \in Nat /\ s >= 8 /\ s + 8 <= F!N
      BY <1>1, <2>3, Sizes
    <3> HIDE DEF s
    <3> QED BY <2>2, <3>1
  <2> QED BY <2>1, <2>2, <2>3
<1>3. fstart = 0 => \A p \in 0 .. F!N - 1 : fbuf[p] = {F!Sent(p)}
  BY <1>1
<1> DEFINE Marks == \A j \in 0 .. F!Half - 1 : fbuf[j] = {F!Header} /\ fbuf[F!N - 1 - j] = {F!Footer}
<1> SUFFICES FrameIs(fbuf', faligned', fstep', fat')
  BY <1>1, ConfStays
<1>4. CASE ~fwire.fx3
  <2>1. fstart = 0 /\ fbuf' = fbuf /\ faligned' = TRUE
    BY <1>1, <1>4 DEF Conf, F!RepairFX3
  <2>2. ASSUME ~fwire.vendor PROVE Ready(fbuf, 0)
    <3> SUFFICES ASSUME NEW p \in 0 .. F!N - 1, fwire.bin > 1 \/ p < 0 \/ ~F!Flagged(p) PROVE Good(fbuf, p)
      BY DEF Ready
    <3>1. fbuf[p] = {p}
      BY <1>1, <1>3, <1>4, <2>1, <2>2, SentAt
    <3>2. fwire.bin <= 1 => ~F!Flagged(p)
      BY <1>1, <1>2 DEF Conf
    <3> QED BY <3>1, <3>2, GoodRaw
  <2>3. Scanned(fbuf, 0)
    BY <1>2, <1>3, <2>1 DEF Scanned
  <2>4. Upright(fbuf, "vendor", 0)
    BY <2>2, <2>3 DEF Upright
  <2> QED BY <1>1, <2>1, <2>4 DEF FrameIs
<1>5. CASE fwire.fx3 /\ Marks
  <2>1. fstart = 0
    <3>1. fbuf[0] = {F!Header}
      BY <1>2, <1>5
    <3> QED BY <1>1, <1>2, <3>1, EarlyStart, SMTT(30)
  <2>2. ~(F!Rows * fwire.w + F!Word > F!N)
    BY <1>1, <1>2, Sizes, SMTT(30)
  <2>3. /\ faligned' = TRUE
        /\ fbuf' = F!Overwrite(F!Overwrite(fbuf, 0, F!Rows * fwire.w, F!Word), F!N - F!Word, F!N - F!Word - F!Rows * fwire.w, F!Word)
    BY <1>1, <1>5, <2>2 DEF F!RepairFX3
  <2>4. fbuf' \in [0 .. F!N - 1 -> SUBSET Int] /\ Ready(fbuf', 0)
    BY <1>1, <1>3, <1>5, <2>1, <2>3, WordsReplaced
  <2>5. Upright(fbuf', "vendor", 0)
    BY <1>1, <1>5, <2>4 DEF Upright, Conf
  <2> QED BY <1>1, <2>1, <2>3, <2>4, <2>5 DEF FrameIs
<1>6. CASE fwire.fx3 /\ ~Marks
  <2>1. fbuf' = fbuf /\ faligned' = FALSE
    BY <1>6 DEF F!RepairFX3
  <2>2. fstart # 0
    <3> SUFFICES ASSUME fstart = 0 PROVE Marks
      BY <1>6
    <3> SUFFICES ASSUME NEW j \in 0 .. F!Half - 1 PROVE fbuf[j] = {F!Header} /\ fbuf[F!N - 1 - j] = {F!Footer}
      OBVIOUS
    <3>1. j \in 0 .. F!N - 1 /\ F!N - 1 - j \in 0 .. F!N - 1 /\ j < F!Word /\ ~(F!N - 1 - j < F!Word) /\ F!N - 1 - j >= F!N - F!Word
      BY <1>2, <1>6
    <3>2. F!Sent(j) = -1 /\ F!Sent(F!N - 1 - j) = -2
      BY <1>1, <1>6, <3>1, SentAt
    <3> QED BY <1>3, <3>1, <3>2 DEF F!Header, F!Footer
  <2>3. fstart > 0 /\ Seen(fbuf)
    BY <1>1, <1>2, <2>2, EarlyStart
  <2> QED BY <1>1, <2>1, <2>2, <2>3 DEF FrameIs
<1> QED BY <1>4, <1>5, <1>6

-----------------------------------------------------------------------------
(* RepairVendor *)

\* A second marker is in the frame, after what the first one is repaired from.
LEMMA SecondAt ==
  ASSUME Conf, fwire.vendor, fsecond > 0
  PROVE  /\ fsecond \in Nat /\ fsecond >= F!Rows * fwire.w + F!VendorL
         /\ fsecond + F!VendorL <= F!N
BY DEF Conf

\* The markers a scan from a finds are those sent at a or after.
LEMMA MarkersFound ==
  ASSUME Conf, fwire.vendor, NEW a \in Nat, Scanned(fbuf, a)
  PROVE  /\ a = 0 => F!MarkerAt(0)
         /\ fsecond > 0 /\ a <= fsecond => F!MarkerAt(fsecond)
         /\ \A i \in a .. F!N - 1 : F!MarkerAt(i) => i = 0 \/ (fsecond > 0 /\ i = fsecond)
<1> DEFINE l == F!VendorL
           s == F!Rows * fwire.w
<1>1. /\ F!N \in Nat /\ l \in {6, 12} /\ fsecond \in Nat
      /\ s \in Nat /\ s >= l /\ s + l <= F!N /\ F!N >= l
  <2>1. fsecond \in Nat
    BY DEF Conf
  <2>2. F!N \in Nat /\ l \in {6, 12} /\ s \in Nat /\ s >= l /\ s + l <= F!N
    BY Sizes
  <2> QED BY <2>1, <2>2
<1>2. fsecond > 0 => fsecond >= s + l /\ fsecond + l <= F!N
  BY SecondAt
<1>3. \A p \in 0 .. F!N - 1 :
      /\ p < l => F!Sent(p) = -10 - p
      /\ p >= l /\ ~(fsecond > 0 /\ p >= fsecond /\ p < fsecond + l) => F!Sent(p) = p
      /\ p >= l /\ fsecond > 0 /\ p >= fsecond /\ p < fsecond + l => F!Sent(p) = -10 - (p - fsecond)
  BY SentAt
<1>4. \A p \in 0 .. F!N - 1 : p >= a => fbuf[p] = {F!Sent(p)}
  <2> SUFFICES ASSUME NEW p \in 0 .. F!N - 1, p >= a PROVE fbuf[p] = {F!Sent(p)}
    OBVIOUS
  <2>1. ~(p < a)
    BY <1>1
  <2> QED BY <2>1 DEF Scanned
<1>5. \A i : F!MarkerAt(i) <=> i + l <= F!N /\ \A j \in 0 .. l - 1 : fbuf[i + j] = {F!Marker(j)}
  BY DEF F!MarkerAt
<1>6. \A j : F!Marker(j) = -10 - j
  BY DEF F!Marker
<1> HIDE DEF l, s
<1>7. ASSUME a = 0 PROVE F!MarkerAt(0)
  <2>1. ASSUME NEW j \in 0 .. l - 1 PROVE fbuf[0 + j] = {F!Marker(j)}
    <3>1. j \in 0 .. F!N - 1 /\ j >= a /\ 0 + j = j /\ j < l
      BY <1>1, <1>7
    <3> QED BY <1>3, <1>4, <1>6, <3>1
  <2>2. 0 + l <= F!N
    BY <1>1
  <2> QED BY <1>5, <2>1, <2>2
<1>8. ASSUME fsecond > 0, a <= fsecond PROVE F!MarkerAt(fsecond)
  <2>1. ASSUME NEW j \in 0 .. l - 1 PROVE fbuf[fsecond + j] = {F!Marker(j)}
    <3>1. fsecond + j \in 0 .. F!N - 1 /\ fsecond + j >= a /\ fsecond + j >= l /\ fsecond + j >= fsecond /\ fsecond + j < fsecond + l /\ (fsecond + j) - fsecond = j
      BY <1>1, <1>2, <1>8
    <3>2. F!Sent(fsecond + j) = -10 - ((fsecond + j) - fsecond)
      BY <1>3, <1>8, <3>1
    <3> QED BY <1>4, <1>6, <3>1, <3>2
  <2>2. fsecond + l <= F!N
    BY <1>1, <1>2, <1>8
  <2> QED BY <1>5, <2>1, <2>2
<1>9. ASSUME NEW i \in a .. F!N - 1, F!MarkerAt(i) PROVE i = 0 \/ (fsecond > 0 /\ i = fsecond)
  <2>1. fbuf[i] = {-10}
    <3>1. 0 \in 0 .. l - 1 /\ i + 0 = i
      BY <1>1
    <3>2. fbuf[i + 0] = {F!Marker(0)} /\ F!Marker(0) = -10
      BY <1>5, <1>6, <1>9, <3>1
    <3> QED BY <3>1, <3>2
  <2>2. i \in 0 .. F!N - 1 /\ i >= a
    BY <1>1
  <2>3. F!Sent(i) = -10
    BY <1>4, <2>1, <2>2
  <2>4. CASE i < l
    BY <1>3, <2>2, <2>3, <2>4
  <2>5. CASE i >= l /\ ~(fsecond > 0 /\ i >= fsecond /\ i < fsecond + l)
    BY <1>3, <2>2, <2>3, <2>5
  <2>6. CASE i >= l /\ fsecond > 0 /\ i >= fsecond /\ i < fsecond + l
    <3>1. -10 - (i - fsecond) = -10
      BY <1>3, <2>2, <2>3, <2>6
    <3> QED BY <1>1, <2>2, <2>6, <3>1
  <2> QED BY <1>1, <2>2, <2>4, <2>5, <2>6
<1> QED BY <1>7, <1>8, <1>9

\* What no scan is to come to is fit: a pixel before the scan, or one that is not
\* a marker's.
LEMMA UnmarkedGood ==
  ASSUME Conf, fwire.vendor, NEW b, NEW a \in Nat, Scanned(b, a), NEW p \in 0 .. F!N - 1,
         p < a \/ (p >= F!VendorL /\ ~(fsecond > 0 /\ p >= fsecond /\ p < fsecond + F!VendorL))
  PROVE  Good(b, p)
<1>1. CASE p < a
  BY <1>1 DEF Scanned
<1>2. CASE ~(p < a)
  <2>1. F!Sent(p) = p
    BY <1>2, SentAt
  <2>2. b[p] = {p}
    BY <1>2, <2>1 DEF Scanned
  <2>3. ~F!Flagged(p)
    BY DEF Conf, F!Flagged
  <2> QED BY <2>2, <2>3, GoodRaw
<1> QED BY <1>1, <1>2

\* One marker repaired from a step of rows away leaves the next.
LEMMA MarkRepaired ==
  ASSUME Conf, fwire.vendor, NEW b \in [0 .. F!N - 1 -> SUBSET Int], NEW a \in Nat, Scanned(b, a),
         NEW i \in Nat, a <= i, i = 0 \/ (fsecond > 0 /\ i = fsecond /\ a # 0),
         NEW k \in Int, k = F!Rows * fwire.w \/ (k = -(F!Rows * fwire.w) /\ i # 0),
         k > 0 => i + k + F!VendorL <= F!N,
         NEW d, Copied(b, d, i, i + F!VendorL, k)
  PROVE  Scanned(d, i + F!VendorL)
<1> DEFINE l == F!VendorL
           s == F!Rows * fwire.w
<1>1. /\ F!N \in Nat /\ l \in {6, 12} /\ fsecond \in Nat
      /\ s \in Nat /\ s >= l /\ s + l <= F!N
  <2>1. fsecond \in Nat
    BY DEF Conf
  <2>2. F!N \in Nat /\ l \in {6, 12} /\ s \in Nat /\ s >= l /\ s + l <= F!N
    BY Sizes
  <2> QED BY <2>1, <2>2
<1>2. fsecond > 0 => fsecond >= s + l /\ fsecond + l <= F!N
  BY SecondAt
<1>3. \A p \in 0 .. F!N - 1 :
      /\ p < l => F!Sent(p) = -10 - p
      /\ p >= l /\ fsecond > 0 /\ p >= fsecond /\ p < fsecond + l => F!Sent(p) = -10 - (p - fsecond)
  BY SentAt
<1>4. /\ \A p \in 0 .. F!N - 1 : p >= i /\ p < i + l => d[p] = b[p + k]
      /\ \A p \in 0 .. F!N - 1 : ~(p >= i /\ p < i + l) => d[p] = b[p]
  BY DEF Copied
<1>5. a = 0 \/ a = l \/ (fsecond > 0 /\ a = fsecond + l)
  BY DEF Scanned
<1>6. \A p \in 0 .. F!N - 1 : p < a \/ (p >= l /\ ~(fsecond > 0 /\ p >= fsecond /\ p < fsecond + l)) => Good(b, p)
  BY UnmarkedGood
<1>7. i = 0 \/ (fsecond > 0 /\ i = fsecond /\ a # 0)
  OBVIOUS
<1>8. k = s \/ (k = -s /\ i # 0)
  OBVIOUS
<1>9. k > 0 => i + k + l <= F!N
  OBVIOUS
<1>10. i = 0 => a = 0
  OBVIOUS
<1>11. \A p \in Nat : F!Phase(p + s, fwire.w) = F!Phase(p, fwire.w)
  BY PhaseBelow
<1>12. \A p \in 0 .. F!N - 1 : p >= a => b[p] = {F!Sent(p)}
  <2> SUFFICES ASSUME NEW p \in 0 .. F!N - 1, p >= a PROVE b[p] = {F!Sent(p)}
    OBVIOUS
  <2>1. ~(p < a)
    BY <1>1
  <2> QED BY <2>1 DEF Scanned
<1> HIDE DEF l, s
<1>13. ASSUME NEW p \in 0 .. F!N - 1, p >= i, p < i + l
       PROVE  Good(d, p)
  <2>1. p + k \in 0 .. F!N - 1 /\ p + k >= l /\ (fsecond > 0 => ~(p + k >= fsecond /\ p + k < fsecond + l))
    BY <1>1, <1>2, <1>7, <1>8, <1>9, <1>13
  <2>2. Good(b, p + k)
    BY <1>6, <2>1
  <2>3. d[p] = b[p + k]
    BY <1>1, <1>4, <1>13
  <2>4. F!Phase(p + k, fwire.w) = F!Phase(p, fwire.w)
    <3>1. CASE k = s
      BY <1>11, <3>1
    <3>2. CASE k = -s
      <4>1. p + k \in Nat /\ (p + k) + s = p
        BY <1>1, <2>1, <3>2
      <4> QED BY <1>11, <4>1
    <3> QED BY <1>8, <3>1, <3>2
  <2>5. F!Sent(p) # p
    <3>1. CASE i = 0
      <4>1. p < l
        BY <1>13, <3>1, <1>1
      <4> QED BY <1>3, <4>1
    <3>2. CASE fsecond > 0 /\ i = fsecond
      <4>1. p >= l /\ p >= fsecond /\ p < fsecond + l
        BY <1>1, <1>2, <1>13, <3>2
      <4>2. F!Sent(p) = -10 - (p - fsecond)
        BY <1>3, <3>2, <4>1
      <4> QED BY <1>1, <4>1, <4>2
    <3> QED BY <1>7, <3>1, <3>2
  <2> QED BY <2>2, <2>3, <2>4, <2>5, GoodFrom DEF F!Clean
<1>14. ASSUME NEW p \in 0 .. F!N - 1, p < i
       PROVE  Good(d, p)
  <2>1. p < a \/ (p >= l /\ ~(fsecond > 0 /\ p >= fsecond /\ p < fsecond + l))
    BY <1>1, <1>5, <1>7, <1>14
  <2>2. Good(b, p)
    BY <1>6, <2>1
  <2>3. d[p] = b[p]
    BY <1>1, <1>4, <1>14
  <2> QED BY <2>2, <2>3, GoodSame
<1>15. ASSUME NEW p \in 0 .. F!N - 1, ~(p < i + l)
       PROVE  d[p] = {F!Sent(p)}
  <2>1. p >= a
    BY <1>1, <1>15
  <2> QED BY <1>4, <1>12, <1>15, <2>1
<1>16. \A p \in 0 .. F!N - 1 : IF p < i + l THEN Good(d, p) ELSE d[p] = {F!Sent(p)}
  <2> SUFFICES ASSUME NEW p \in 0 .. F!N - 1 PROVE IF p < i + l THEN Good(d, p) ELSE d[p] = {F!Sent(p)}
    OBVIOUS
  <2>1. p < i \/ p >= i
    BY <1>1
  <2> QED BY <1>13, <1>14, <1>15, <2>1
<1>17. i + l = l \/ (fsecond > 0 /\ i + l = fsecond + l)
  BY <1>1, <1>7
<1> QED BY <1>16, <1>17 DEF Scanned, l

\* The vendor's repair, a marker at a time.
LEMMA VendorHolds ==
  ASSUME FrameInv, F!RepairVendor
  PROVE  FrameInv'
<1> DEFINE found == {i \in fat .. F!N - 1 : F!MarkerAt(i)}
           s == F!Rows * fwire.w
           l == F!VendorL
<1>1. /\ Conf /\ fbuf \in [0 .. F!N - 1 -> SUBSET Int] /\ fat \in Nat /\ fstep = "vendor" /\ fstart \in Nat
      /\ fstart = 0 => faligned = TRUE /\ Upright(fbuf, "vendor", fat)
      /\ fstart > 0 => faligned = FALSE /\ Seen(fbuf)
      /\ UNCHANGED F!conf /\ faligned' = faligned
  BY DEF FrameInv, FrameIs, F!RepairVendor, Conf
<1>2. F!N \in Nat /\ s \in Nat /\ l \in {6, 12} /\ (fwire.vendor => s >= l /\ s + l <= F!N)
  BY <1>1, Sizes, SMTT(30)
<1>3. /\ ~fwire.vendor \/ found = {} \/ s < l => fstep' = "defects" /\ fat' = 0 /\ fbuf' = fbuf
      /\ ~(~fwire.vendor \/ found = {} \/ s < l) =>
           LET i == CHOOSE i \in found : \A j \in found : i <= j
               from == IF i + s + l > F!N THEN i - s ELSE i + s
               fits == from >= 0 /\ from + l <= F!N
           IN /\ fbuf' = IF fits THEN F!Overwrite(fbuf, i, from, l) ELSE fbuf
              /\ fat' = IF fits THEN i + l ELSE i + 1
              /\ UNCHANGED fstep
  BY DEF F!RepairVendor, F!Enter
<1> SUFFICES FrameIs(fbuf', faligned', fstep', fat')
  BY <1>1, ConfStays
<1>4. CASE ~fwire.vendor
  <2>1. fstep' = "defects" /\ fat' = 0 /\ fbuf' = fbuf
    BY <1>3, <1>4
  <2>2. fstart = 0 => Upright(fbuf, "defects", 0)
    BY <1>1, <1>4 DEF Upright
  <2> QED BY <1>1, <2>1, <2>2 DEF FrameIs
<1>5. CASE fwire.vendor
  <2>1. fstart = 0 /\ Scanned(fbuf, fat) /\ ~(s < l)
    BY <1>1, <1>2, <1>5 DEF Conf, Upright
  <2>2. /\ fat = 0 => F!MarkerAt(0)
        /\ fsecond > 0 /\ fat <= fsecond => F!MarkerAt(fsecond)
        /\ \A i \in fat .. F!N - 1 : F!MarkerAt(i) => i = 0 \/ (fsecond > 0 /\ i = fsecond)
    BY <1>1, <1>5, <2>1, MarkersFound
  <2>3. /\ fsecond \in Nat /\ (fsecond > 0 => fsecond >= s + l /\ fsecond + l <= F!N)
        /\ fat \in Nat /\ F!N \in Nat /\ s \in Nat /\ l \in {6, 12} /\ s >= l /\ s + l <= F!N
    <3>1. fsecond \in Nat
      BY <1>1 DEF Conf
    <3>2. fsecond > 0 => fsecond >= s + l /\ fsecond + l <= F!N
      BY <1>1, <1>5, SecondAt
    <3>3. fat \in Nat
      BY <1>1
    <3> QED BY <1>2, <1>5, <3>1, <3>2, <3>3
  <2>4. fat = 0 \/ fat = l \/ (fsecond > 0 /\ fat = fsecond + l)
    BY <2>1 DEF Scanned
  <2> HIDE DEF s, l
  <2>5. /\ fat = 0 => F!MarkerAt(0)
        /\ fsecond > 0 /\ fat <= fsecond => F!MarkerAt(fsecond)
        /\ \A i \in fat .. F!N - 1 : F!MarkerAt(i) => i = 0 \/ (fsecond > 0 /\ i = fsecond)
    BY <2>2
  <2>6. CASE found = {}
    <3>1. fstep' = "defects" /\ fat' = 0 /\ fbuf' = fbuf
      BY <1>3, <2>6
    <3>2. fat # 0 /\ ~(fsecond > 0 /\ fat <= fsecond)
      <4>1. 0 \in 0 .. F!N - 1 /\ (fsecond > 0 => fsecond \in 0 .. F!N - 1)
        BY <2>3
      <4> QED BY <2>3, <2>5, <2>6, <4>1
    <3>3. ASSUME NEW p \in 0 .. F!N - 1 PROVE Good(fbuf, p)
      <4>1. p < fat \/ (p >= l /\ ~(fsecond > 0 /\ p >= fsecond /\ p < fsecond + l))
        BY <2>3, <2>4, <3>2
      <4> QED BY <1>1, <1>5, <2>1, <4>1, UnmarkedGood DEF l
    <3>4. Upright(fbuf, "defects", 0)
      BY <3>3 DEF Upright, Ready
    <3> QED BY <1>1, <2>1, <3>1, <3>4 DEF FrameIs
  <2>7. CASE found # {}
    <3> DEFINE i == CHOOSE i \in found : \A j \in found : i <= j
               k == IF i + s + l > F!N THEN -s ELSE s
               from == IF i + s + l > F!N THEN i - s ELSE i + s
    <3>1. i \in found /\ \A j \in found : i <= j
      <4>1. \E n \in found : \A j \in found : n <= j
        <5>1. found \subseteq {0, fsecond}
          BY <2>5
        <5>2. 0 \in Int /\ fsecond \in Int
          BY <2>3
        <5> HIDE DEF found
        <5>3. CASE 0 \in found
          BY <2>3, <5>1, <5>3
        <5>4. CASE 0 \notin found
          <6>1. fsecond \in found /\ \A j \in found : j = fsecond
            BY <2>7, <5>1, <5>4
          <6> QED BY <2>3, <6>1
        <5> QED BY <5>3, <5>4
      <4> HIDE DEF found
      <4> QED BY <4>1
    <3>2. i \in fat .. F!N - 1 /\ F!MarkerAt(i) /\ \A j \in fat .. F!N - 1 : F!MarkerAt(j) => i <= j
      BY <3>1
    <3>3. /\ fbuf' = IF from >= 0 /\ from + l <= F!N THEN F!Overwrite(fbuf, i, from, l) ELSE fbuf
          /\ fat' = IF from >= 0 /\ from + l <= F!N THEN i + l ELSE i + 1
          /\ UNCHANGED fstep
      BY <1>3, <1>5, <2>1, <2>7
    <3>4. from = IF i + s + l > F!N THEN i - s ELSE i + s
      OBVIOUS
    <3>5. k = IF i + s + l > F!N THEN -s ELSE s
      OBVIOUS
    <3> HIDE DEF i, k, from, found
    <3>6. i \in Nat /\ fat <= i /\ (i = 0 \/ (fsecond > 0 /\ i = fsecond /\ fat # 0))
      <4>1. i = 0 \/ (fsecond > 0 /\ i = fsecond)
        BY <2>5, <3>2
      <4>2. ASSUME fsecond > 0, i = fsecond PROVE fat # 0
        <5>1. SUFFICES ASSUME fat = 0 PROVE FALSE
          OBVIOUS
        <5>2. 0 \in fat .. F!N - 1 /\ F!MarkerAt(0)
          BY <2>3, <2>5, <5>1
        <5>3. i <= 0
          BY <3>2, <5>2
        <5> QED BY <2>3, <4>2, <5>3
      <4> QED BY <2>3, <3>2, <4>1, <4>2
    <3>7. /\ k \in Int /\ from = i + k /\ from \in Nat /\ from + l <= F!N /\ i + l <= F!N /\ l \in Nat
          /\ k = s \/ (k = -s /\ i # 0)
          /\ k > 0 => i + k + l <= F!N
      <4>1. CASE i + s + l > F!N
        BY <2>3, <3>2, <3>4, <3>5, <3>6, <4>1
      <4>2. CASE ~(i + s + l > F!N)
        BY <2>3, <3>2, <3>4, <3>5, <3>6, <4>2
      <4> QED BY <4>1, <4>2
    <3>8. fbuf' = F!Overwrite(fbuf, i, from, l) /\ fat' = i + l /\ fstep' = "vendor"
      BY <1>1, <2>3, <3>3, <3>7
    <3>9. Copied(fbuf, fbuf', i, i + l, k)
      <4>1. \A n : n = i + l /\ n <= F!N => Copied(fbuf, fbuf', i, n, k)
        BY <1>1, <2>3, <3>6, <3>7, <3>8, OverAt
      <4> QED BY <3>7, <4>1
    <3>10. Scanned(fbuf', i + l)
      <4>1. i = 0 \/ (fsecond > 0 /\ i = fsecond /\ fat # 0)
        BY <3>6
      <4>2. k = F!Rows * fwire.w \/ (k = -(F!Rows * fwire.w) /\ i # 0)
        BY <3>7 DEF s
      <4>3. k > 0 => i + k + F!VendorL <= F!N
        BY <3>7 DEF l
      <4>4. Copied(fbuf, fbuf', i, i + F!VendorL, k)
        BY <3>9 DEF l
      <4> QED BY <1>1, <1>5, <2>1, <3>6, <3>7, <4>1, <4>2, <4>3, <4>4, MarkRepaired DEF l
    <3>11. Upright(fbuf', "vendor", i + l)
      BY <1>5, <3>10 DEF Upright
    <3>12. fbuf' \in [0 .. F!N - 1 -> SUBSET Int]
      BY <3>9 DEF Copied
    <3>13. i + l \in Nat
      BY <3>6, <3>7
    <3> QED BY <1>1, <2>1, <3>8, <3>11, <3>12, <3>13 DEF FrameIs
  <2> QED BY <2>6, <2>7
<1> QED BY <1>4, <1>5

-----------------------------------------------------------------------------
(* RepairDefect *)

\* The array is in the window's order.
LEMMA ArrayOrder ==
  ASSUME Conf, NEW p \in 0 .. F!N - 1, NEW q \in 0 .. F!N - 1
  PROVE  q < p <=> F!Array(q) < F!Array(p)
<1> DEFINE w == fwire.w
           r == p \div w
           c == p % w
           t == q \div w
           d == q % w
<1>1. w \in Nat /\ w > 0 /\ F!N \in Nat
  BY Sizes
<1>2. p \in Nat /\ q \in Nat
  BY <1>1
<1>3. p = r * w + c /\ c \in 0 .. w - 1 /\ r \in Nat
  BY <1>1, <1>2, Place
<1>4. q = t * w + d /\ d \in 0 .. w - 1 /\ t \in Nat
  BY <1>1, <1>2, Place
<1>5. F!Array(p) = (r + 1) * (w + 2) + c + 2 /\ F!Array(q) = (t + 1) * (w + 2) + d + 2
  BY DEF F!Array
<1> HIDE DEF w, r, c, t, d
<1>6. F!Array(p) = r * w + c + 2 * r + w + 4 /\ F!Array(q) = t * w + d + 2 * t + w + 4
  <2>1. (r + 1) * (w + 2) = r * w + 2 * r + w + 2 /\ (t + 1) * (w + 2) = t * w + 2 * t + w + 2
    BY <1>1, <1>3, <1>4
  <2>2. r * w \in Nat /\ t * w \in Nat
    BY <1>1, <1>3, <1>4
  <2> QED BY <1>1, <1>3, <1>4, <1>5, <2>1, <2>2
<1>7. F!Array(p) = p + 2 * r + w + 4 /\ F!Array(q) = q + 2 * t + w + 4
  <2>1. r * w \in Nat /\ t * w \in Nat
    BY <1>1, <1>3, <1>4
  <2> QED BY <1>1, <1>3, <1>4, <1>6, <2>1
<1>8. (q < p => t <= r) /\ (p <= q => r <= t)
  <2>1. ASSUME t > r PROVE q > p
    <3>1. (r + 1) * w <= t * w /\ (r + 1) * w = r * w + w /\ r * w \in Nat /\ t * w \in Nat
      BY <1>1, <1>3, <1>4, <2>1, MulMono
    <3> QED BY <1>1, <1>3, <1>4, <3>1
  <2>2. ASSUME r > t PROVE p > q
    <3>1. (t + 1) * w <= r * w /\ (t + 1) * w = t * w + w /\ r * w \in Nat /\ t * w \in Nat
      BY <1>1, <1>3, <1>4, <2>2, MulMono
    <3> QED BY <1>1, <1>3, <1>4, <3>1
  <2> QED BY <1>2, <1>3, <1>4, <2>1, <2>2
<1> QED BY <1>1, <1>2, <1>3, <1>4, <1>7, <1>8

\* The pixels around one are others, of its colour.
LEMMA AroundHolds ==
  ASSUME Conf, NEW p \in 0 .. F!N - 1, NEW q \in F!Around(p)
  PROVE  q \in 0 .. F!N - 1 /\ q # p /\ F!Phase(q, fwire.w) = F!Phase(p, fwire.w)
<1> DEFINE w == fwire.w
           k == F!Rows * w
<1>1. w \in Nat /\ w >= 4 /\ F!N \in Nat /\ F!Rows \in {1, 2} /\ k \in Nat /\ k >= w
  BY Sizes
<1>2. F!Rows = (IF fwire.color THEN 2 ELSE 1)
  BY DEF F!Rows
<1>3. /\ q \in {p - F!Rows, p + F!Rows, p - k, p + k} /\ q \in 0 .. F!N - 1
      /\ q % w = p % w \/ q \div w = p \div w
  BY <1>2 DEF F!Around
<1>4. \A n \in Nat : F!Phase(n + k, w) = F!Phase(n, w)
  BY PhaseBelow
<1> HIDE DEF w, k
<1>5. p \in Nat /\ q \in Nat /\ q # p
  BY <1>1, <1>3
<1>6. CASE q = p + k
  BY <1>3, <1>4, <1>5, <1>6 DEF w
<1>7. CASE q = p - k
  <2>1. p = q + k
    BY <1>1, <1>5, <1>7
  <2> QED BY <1>3, <1>4, <1>5, <2>1 DEF w
<1>8. CASE q = p - F!Rows \/ q = p + F!Rows
  <2> DEFINE r == p \div w
             c == p % w
             t == q \div w
             d == q % w
  <2>1. p = r * w + c /\ c \in 0 .. w - 1 /\ r \in Nat
    BY <1>1, <1>5, Place
  <2>2. q = t * w + d /\ d \in 0 .. w - 1 /\ t \in Nat
    BY <1>1, <1>5, Place
  <2>3. c = d \/ t = r
    BY <1>3
  <2>4. F!Phase(p, fwire.w) = (IF fwire.color THEN <<r % 2, c % 2>> ELSE <<0, 0>>)
    BY DEF F!Phase, w
  <2>5. F!Phase(q, fwire.w) = (IF fwire.color THEN <<t % 2, d % 2>> ELSE <<0, 0>>)
    BY DEF F!Phase, w
  <2> HIDE DEF r, c, t, d
  <2>6. t = r
    <3>1. ASSUME c = d, t > r PROVE FALSE
      <4>1. (r + 1) * w <= t * w /\ (r + 1) * w = r * w + w /\ r * w \in Nat /\ t * w \in Nat
        BY <1>1, <2>1, <2>2, <3>1, MulMono
      <4> QED BY <1>1, <1>5, <1>8, <2>1, <2>2, <3>1, <4>1
    <3>2. ASSUME c = d, r > t PROVE FALSE
      <4>1. (t + 1) * w <= r * w /\ (t + 1) * w = t * w + w /\ r * w \in Nat /\ t * w \in Nat
        BY <1>1, <2>1, <2>2, <3>2, MulMono
      <4> QED BY <1>1, <1>5, <1>8, <2>1, <2>2, <3>2, <4>1
    <3> QED BY <2>1, <2>2, <2>3, <3>1, <3>2
  <2>7. fwire.color => d % 2 = c % 2
    <3> SUFFICES ASSUME fwire.color PROVE d % 2 = c % 2
      OBVIOUS
    <3>1. r * w \in Nat
      BY <1>1, <2>1
    <3>2. d = c + 2 \/ d = c - 2
      BY <1>1, <1>2, <1>5, <1>8, <2>1, <2>2, <2>6, <3>1
    <3> QED BY <2>1, <2>2, <3>2
  <2> QED BY <1>3, <1>5, <2>4, <2>5, <2>6, <2>7
<1> QED BY <1>3, <1>6, <1>7, <1>8

\* One pixel of the map, the ones before it done, from its neighbours.
LEMMA DefectRepaired ==
  ASSUME Conf, fwire.bin <= 1, NEW b \in [0 .. F!N - 1 -> SUBSET Int], NEW a \in Nat, Ready(b, a),
         NEW p \in a .. F!N - 1, F!Flagged(p), \A q \in a .. F!N - 1 : F!Flagged(q) => p <= q
  PROVE  /\ F!Usable(p) # {} /\ F!Usable(p) \subseteq 0 .. F!N - 1
         /\ \A d : d = [b EXCEPT ![p] = UNION {b[q] : q \in F!Usable(p)}] => Ready(d, p + 1)
<1>1. F!N \in Nat /\ p \in 0 .. F!N - 1 /\ fwire.bin \in Nat
  BY Sizes DEF Conf
<1>2. \A q : q \in F!Usable(p) <=> q \in F!Around(p) /\ (F!Array(q) <= F!Array(p) \/ ~F!Flagged(q))
  BY DEF F!Usable
<1>3. \A q \in F!Around(p) : q \in 0 .. F!N - 1 /\ q # p /\ F!Phase(q, fwire.w) = F!Phase(p, fwire.w)
  BY <1>1, AroundHolds
<1>4. \A q \in 0 .. F!N - 1 : F!Array(q) \in Int /\ F!Array(p) \in Int
  <2> SUFFICES ASSUME NEW q \in 0 .. F!N - 1 PROVE F!Array(q) \in Int
    BY <1>1
  <2>1. fwire.w \in Nat /\ fwire.w > 0 /\ q \in Nat
    BY <1>1, Sizes
  <2>2. q \div fwire.w \in Nat /\ q % fwire.w \in Nat
    BY <2>1, Place
  <2>3. (q \div fwire.w) + 1 \in Nat /\ fwire.w + 2 \in Nat
    BY ONLY <2>1, <2>2
  <2>4. ((q \div fwire.w) + 1) * (fwire.w + 2) \in Nat
    BY ONLY <2>3, Product
  <2> QED BY <2>1, <2>2, <2>4 DEF F!Array
<1>5. \A q \in 0 .. F!N - 1 : q < p <=> F!Array(q) < F!Array(p)
  BY <1>1, ArrayOrder
<1>6. \A q \in 0 .. F!N - 1 : p < q <=> F!Array(p) < F!Array(q)
  BY <1>1, ArrayOrder
<1>7. F!Usable(p) # {}
  <2>1. PICK q \in F!Around(p) : q < p \/ ~F!Flagged(q)
    BY <1>1 DEF Conf, F!Isolated
  <2>2. q \in 0 .. F!N - 1
    BY <1>3, <2>1
  <2>3. q \in F!Usable(p)
    BY <1>2, <1>4, <1>5, <2>1, <2>2
  <2> QED BY <2>3
<1>8. ASSUME NEW q \in F!Usable(p)
      PROVE  q \in 0 .. F!N - 1 /\ Good(b, q) /\ F!Phase(q, fwire.w) = F!Phase(p, fwire.w)
  <2>1. q \in F!Around(p) /\ (F!Array(q) <= F!Array(p) \/ ~F!Flagged(q))
    BY <1>2
  <2>2. q \in 0 .. F!N - 1 /\ q # p /\ F!Phase(q, fwire.w) = F!Phase(p, fwire.w)
    BY <1>3, <2>1
  <2>3. CASE ~F!Flagged(q)
    <3>1. Good(b, q)
      BY <2>2, <2>3 DEF Ready
    <3> QED BY <2>2, <2>3, <3>1
  <2>4. CASE F!Flagged(q)
    <3>1. q < p
      BY <1>1, <1>4, <1>6, <2>1, <2>2, <2>4
    <3>2. q < a
      BY <1>1, <2>2, <2>4, <3>1
    <3>3. Good(b, q)
      BY <2>2, <3>2 DEF Ready
    <3> QED BY <2>2, <3>1, <3>3
  <2> QED BY <2>3, <2>4
<1>9. F!Usable(p) \subseteq 0 .. F!N - 1 /\ \A q \in F!Usable(p) : Good(b, q) /\ F!Phase(q, fwire.w) = F!Phase(p, fwire.w)
  BY <1>8
<1>10. ASSUME NEW d, d = [b EXCEPT ![p] = UNION {b[q] : q \in F!Usable(p)}]
       PROVE  Ready(d, p + 1)
  <2>1. d[p] = UNION {b[q] : q \in F!Usable(p)} /\ \A q \in 0 .. F!N - 1 : q # p => d[q] = b[q]
    BY <1>1, <1>10
  <2>2. Good(d, p)
    <3>1. d[p] # {}
      <4>1. PICK q \in F!Usable(p) : TRUE
        BY <1>7
      <4>2. b[q] # {}
        BY <1>9, <4>1 DEF Good
      <4>3. b[q] \subseteq d[p]
        BY <2>1, <4>1
      <4> QED BY <4>2, <4>3
    <3>2. ASSUME NEW x \in d[p]
          PROVE  x \in 0 .. F!N - 1 /\ F!Phase(x, fwire.w) = F!Phase(p, fwire.w) /\ (fwire.bin <= 1 => ~F!Flagged(x))
      <4>1. PICK q \in F!Usable(p) : x \in b[q]
        BY <2>1, <3>2
      <4>2. Good(b, q) /\ F!Phase(q, fwire.w) = F!Phase(p, fwire.w)
        BY <1>9, <4>1
      <4> QED BY <4>1, <4>2 DEF Good
    <3>3. ~F!Clean(p)
      BY DEF F!Clean
    <3> QED BY <3>1, <3>2, <3>3 DEF Good
  <2>3. ASSUME NEW q \in 0 .. F!N - 1, fwire.bin > 1 \/ q < p + 1 \/ ~F!Flagged(q)
        PROVE  Good(d, q)
    <3>1. CASE q = p
      BY <2>2, <3>1
    <3>2. CASE q # p
      <4>1. q < a \/ ~F!Flagged(q)
        BY <1>1, <2>3, <3>2
      <4>2. Good(b, q)
        BY <4>1 DEF Ready
      <4>3. d[q] = b[q]
        BY <2>1, <3>2
      <4> QED BY <4>2, <4>3, GoodSame
    <3> QED BY <3>1, <3>2
  <2> QED BY <2>3 DEF Ready
<1> QED BY <1>7, <1>9, <1>10

\* The map's repair, a pixel at a time.
LEMMA DefectHolds ==
  ASSUME FrameInv, F!RepairDefect
  PROVE  FrameInv'
<1> DEFINE left == {p \in fat .. F!N - 1 : F!Flagged(p)}
<1>1. /\ Conf /\ fbuf \in [0 .. F!N - 1 -> SUBSET Int] /\ fat \in Nat /\ fstep = "defects" /\ fstart \in Nat
      /\ fstart = 0 => faligned = TRUE /\ Ready(fbuf, fat)
      /\ fstart > 0 => faligned = FALSE /\ Seen(fbuf)
      /\ UNCHANGED F!conf /\ faligned' = faligned
  BY DEF FrameInv, FrameIs, F!RepairDefect, Conf, Upright
<1>2. F!N \in Nat /\ fwire.bin \in Nat
  BY <1>1, Sizes DEF Conf
<1>3. IF fwire.bin > 1 \/ left = {}
      THEN fstep' = "boundary" /\ fat' = 0 /\ fbuf' = fbuf
      ELSE LET p == CHOOSE p \in left : \A q \in left : p <= q
           IN /\ fbuf' = IF F!Usable(p) = {} THEN fbuf ELSE [fbuf EXCEPT ![p] = UNION {fbuf[q] : q \in F!Usable(p)}]
              /\ fat' = p + 1
              /\ UNCHANGED fstep
  BY DEF F!RepairDefect, F!Enter
<1> SUFFICES FrameIs(fbuf', faligned', fstep', fat')
  BY <1>1, ConfStays
<1>4. CASE fwire.bin > 1 \/ left = {}
  <2>1. fstep' = "boundary" /\ fat' = 0 /\ fbuf' = fbuf
    BY <1>3, <1>4
  <2>2. ASSUME fstart = 0, NEW p \in 0 .. F!N - 1 PROVE Good(fbuf, p)
    <3>1. fwire.bin > 1 \/ p < fat \/ ~F!Flagged(p)
      BY <1>1, <1>2, <1>4
    <3> QED BY <1>1, <2>2, <3>1 DEF Ready
  <2>3. fstart = 0 => Upright(fbuf, "boundary", 0)
    BY <2>2 DEF Upright
  <2> QED BY <1>1, <2>1, <2>3 DEF FrameIs
<1>5. CASE ~(fwire.bin > 1 \/ left = {})
  <2> DEFINE p == CHOOSE p \in left : \A q \in left : p <= q
  <2>1. p \in left /\ \A q \in left : p <= q
    <3>1. \E n \in left : \A q \in left : n <= q
      <4>1. left \subseteq Nat /\ left # {}
        BY <1>1, <1>5
      <4> HIDE DEF left
      <4> QED BY <4>1, LeastNat
    <3> HIDE DEF left
    <3> QED BY <3>1
  <2>2. /\ fbuf' = IF F!Usable(p) = {} THEN fbuf ELSE [fbuf EXCEPT ![p] = UNION {fbuf[q] : q \in F!Usable(p)}]
        /\ fat' = p + 1 /\ fstep' = "defects"
    BY <1>1, <1>3, <1>5
  <2> HIDE DEF p
  <2>3. p \in fat .. F!N - 1 /\ F!Flagged(p) /\ \A q \in fat .. F!N - 1 : F!Flagged(q) => p <= q
    BY <2>1
  <2>4. p \in 0 .. F!N - 1 /\ fat' \in Nat /\ p + 1 \in Nat
    BY <1>1, <1>2, <2>2, <2>3
  <2>5. F!Usable(p) \subseteq 0 .. F!N - 1
    BY DEF F!Usable, F!Around
  <2>6. fbuf' \in [0 .. F!N - 1 -> SUBSET Int]
    <3>1. UNION {fbuf[q] : q \in F!Usable(p)} \in SUBSET Int
      <4>1. \A q \in F!Usable(p) : fbuf[q] \subseteq Int
        BY <1>1, <2>5
      <4> QED BY <4>1
    <3> QED BY <1>1, <2>2, <2>4, <3>1
  <2>7. CASE fstart = 0
    <3>1. Ready(fbuf, fat) /\ fwire.bin <= 1
      BY <1>1, <1>2, <1>5, <2>7
    <3>2. /\ F!Usable(p) # {}
          /\ \A d : d = [fbuf EXCEPT ![p] = UNION {fbuf[q] : q \in F!Usable(p)}] => Ready(d, p + 1)
      BY <1>1, <2>3, <3>1, DefectRepaired
    <3>3. Ready(fbuf', p + 1)
      BY <2>2, <3>2
    <3>4. Upright(fbuf', "defects", p + 1)
      BY <3>3 DEF Upright
    <3> QED BY <1>1, <2>2, <2>4, <2>6, <2>7, <3>4 DEF FrameIs
  <2>8. CASE fstart > 0
    <3>1. Seen(fbuf) /\ \A i \in fstart - F!Half .. fstart + F!Half - 1 : ~F!Flagged(i)
      BY <1>1, <2>8 DEF Conf, F!BoundaryKept
    <3>2. F!Half \in {1, 2} /\ fstart + F!Half <= F!N /\ fstart >= F!Half
      <4>1. F!Half \in {1, 2} /\ F!Word = 2 * F!Half
        BY <1>1, Sizes
      <4>2. fstart + F!Half <= F!N
        BY <1>1, <2>8 DEF Conf
      <4>3. PICK k \in Nat : fstart = k * F!Word
        BY <1>1, <2>8 DEF Conf
      <4>4. fstart >= F!Half
        BY <1>1, <2>8, <4>1, <4>3
      <4> QED BY <4>1, <4>2, <4>4
    <3>3. \A i \in fstart - F!Half .. fstart + F!Half - 1 : i # p /\ i \in 0 .. F!N - 1
      BY <1>1, <1>2, <2>3, <3>1, <3>2
    <3>4. \A i \in fstart - F!Half .. fstart + F!Half - 1 : fbuf'[i] = fbuf[i]
      BY <1>1, <2>2, <3>3
    <3>5. \A j \in 0 .. F!Half - 1 : fstart + j \in fstart - F!Half .. fstart + F!Half - 1
                                   /\ fstart - 1 - j \in fstart - F!Half .. fstart + F!Half - 1
      BY <1>1, <3>2
    <3>6. Seen(fbuf')
      BY <3>1, <3>4, <3>5 DEF Seen
    <3> QED BY <1>1, <2>2, <2>4, <2>6, <2>8, <3>6 DEF FrameIs
  <2> QED BY <1>1, <2>7, <2>8
<1> QED BY <1>4, <1>5

-----------------------------------------------------------------------------
(* What the caller does *)

\* A frame that started early shows its boundary and is refused; one that did not
\* goes on.
LEMMA JudgeHolds ==
  ASSUME FrameInv, F!Judge
  PROVE  FrameInv'
<1>1. /\ Conf /\ fbuf \in [0 .. F!N - 1 -> SUBSET Int] /\ fstep = "boundary" /\ fstart \in Nat
      /\ fstart = 0 => faligned = TRUE /\ \A p \in 0 .. F!N - 1 : Good(fbuf, p)
      /\ fstart > 0 => faligned = FALSE /\ Seen(fbuf)
      /\ UNCHANGED F!conf /\ faligned' = faligned /\ fbuf' = fbuf /\ fat' = 0
      /\ fstep' = IF ~faligned /\ F!Boundary THEN "refused" ELSE "bin"
  BY DEF FrameInv, FrameIs, F!Judge, F!Enter, Conf, Upright
<1> SUFFICES FrameIs(fbuf', faligned', fstep', fat')
  BY <1>1, ConfStays
<1>2. CASE fstart = 0
  <2>1. fstep' = "bin"
    BY <1>1, <1>2
  <2>2. F!Out \in Nat
    <3>1. fwire.w \in Nat /\ fwire.h \in Nat /\ fwire.soft \in Nat /\ fwire.soft > 0
      BY <1>1 DEF Conf
    <3>2. F!OutW \in Nat /\ F!OutH \in Nat
      BY <3>1, Place DEF F!OutW, F!OutH
    <3> QED BY <3>2 DEF F!Out
  <2>3. \A o \in 0 .. F!Out - 1 : ~(o < 0)
    OBVIOUS
  <2>4. Upright(fbuf, "bin", 0)
    BY <1>1, <1>2, <2>2, <2>3 DEF Upright
  <2> QED BY <1>1, <1>2, <2>1, <2>4 DEF FrameIs
<1>3. CASE fstart > 0
  <2>1. F!Boundary
    <3>1. /\ F!Half \in {1, 2} /\ F!Word = 2 * F!Half /\ fstart + F!Half <= F!N /\ F!N \in Nat
          /\ \E k \in Nat : fstart = k * F!Word
      BY <1>1, <1>3, Sizes DEF Conf
    <3>2. PICK k \in Nat : fstart = k * F!Word
      BY <3>1
    <3>3. fstart % F!Word = 0 /\ fstart >= F!Word
      BY <1>1, <1>3, <3>1, <3>2
    <3>4. fstart \in F!Half .. F!N - F!Half
      BY <1>1, <3>1, <3>3
    <3> QED BY <1>1, <1>3, <3>3, <3>4 DEF F!Boundary, Seen
  <2>2. fstep' = "refused"
    BY <1>1, <1>3, <2>1
  <2> QED BY <1>1, <1>3, <2>2 DEF FrameIs
<1> QED BY <1>1, <1>2, <1>3

\* One output, of its sources, which no output before it has overwritten.
LEMMA BinHolds ==
  ASSUME FrameInv, F!BinOne
  PROVE  FrameInv'
<1> DEFINE S == F!Footprint(fat)
<1>1. /\ Conf /\ fbuf \in [0 .. F!N - 1 -> SUBSET Int] /\ fstep = "bin" /\ fstart \in Nat /\ fat \in Nat
      /\ fwire.soft > 1 /\ fat < F!Out
      /\ fstart = 0 /\ faligned = TRUE
      /\ \A p \in 0 .. F!N - 1 : p >= fat => Good(fbuf, p)
      /\ \A o \in 0 .. F!Out - 1 : o < fat => Binned(fbuf, o)
      /\ UNCHANGED F!conf /\ faligned' = faligned /\ fstep' = "bin" /\ fat' = fat + 1
      /\ fbuf' = [fbuf EXCEPT ![fat] = UNION {fbuf[p] : p \in F!Sources(fat % F!OutW, fat \div F!OutW)}]
  BY DEF FrameInv, FrameIs, F!BinOne, Conf, Upright
<1> SUFFICES FrameIs(fbuf', faligned', fstep', fat')
  BY <1>1, ConfStays
<1>2. F!Out \in Nat /\ F!N \in Nat
  <2>1. fwire.w \in Nat /\ fwire.h \in Nat /\ fwire.soft \in Nat /\ fwire.soft > 0
    BY <1>1 DEF Conf
  <2>2. F!OutW \in Nat /\ F!OutH \in Nat
    BY <2>1, Place DEF F!OutW, F!OutH
  <2>3. F!OutW * F!OutH \in Nat
    BY ONLY <2>2, Product
  <2> QED BY <1>1, <2>3, Sizes DEF F!Out
<1>3. fat \in 0 .. F!Out - 1
  BY <1>1, <1>2
<1>4. /\ F!Sources(fat % F!OutW, fat \div F!OutW) = S /\ S # {}
      /\ \A p \in S : p \in 0 .. F!N - 1 /\ p >= fat /\ F!Phase(p, fwire.w) = F!Phase(fat, F!OutW)
  BY <1>1, <1>3, SourcesAre, SourcesHold
<1> HIDE DEF S
<1>5. fat \in 0 .. F!N - 1
  <2>1. PICK p \in S : TRUE
    BY <1>4
  <2> QED BY <1>1, <1>2, <1>4, <2>1
<1>6. fbuf'[fat] = UNION {fbuf[p] : p \in S} /\ \A p \in 0 .. F!N - 1 : p # fat => fbuf'[p] = fbuf[p]
  BY <1>1, <1>4, <1>5
<1>7. \A p \in S : Good(fbuf, p)
  BY <1>1, <1>4
<1>8. Binned(fbuf', fat)
  <2>1. fbuf'[fat] # {}
    <3>1. PICK p \in S : TRUE
      BY <1>4
    <3>2. fbuf[p] # {} /\ fbuf[p] \subseteq fbuf'[fat]
      BY <1>6, <1>7, <3>1 DEF Good
    <3> QED BY <3>2
  <2>2. ASSUME NEW x \in fbuf'[fat]
        PROVE  x \in 0 .. F!N - 1 /\ F!Phase(x, fwire.w) = F!Phase(fat, F!OutW) /\ (fwire.bin <= 1 => ~F!Flagged(x))
    <3>1. PICK p \in S : x \in fbuf[p]
      BY <1>6, <2>2
    <3>2. Good(fbuf, p) /\ F!Phase(p, fwire.w) = F!Phase(fat, F!OutW)
      BY <1>4, <1>7, <3>1
    <3> QED BY <3>1, <3>2 DEF Good
  <2>3. ASSUME \A p \in S : F!Clean(p) PROVE fbuf'[fat] = S
    <3>1. \A p \in S : fbuf[p] = {p}
      BY <1>7, <2>3 DEF Good
    <3> QED BY <1>6, <3>1
  <2> QED BY <2>1, <2>2, <2>3 DEF Binned, S
<1>9. ASSUME NEW p \in 0 .. F!N - 1, p >= fat + 1 PROVE Good(fbuf', p)
  <2>1. p >= fat /\ p # fat
    BY <1>1, <1>2, <1>9
  <2>2. Good(fbuf, p) /\ fbuf'[p] = fbuf[p]
    BY <1>1, <1>6, <2>1
  <2> QED BY <2>2, GoodSame
<1>10. ASSUME NEW o \in 0 .. F!Out - 1, o < fat + 1 PROVE Binned(fbuf', o)
  <2>1. CASE o = fat
    BY <1>8, <2>1
  <2>2. CASE o # fat
    <3>1. o < fat /\ o \in 0 .. F!N - 1
      BY <1>1, <1>2, <1>5, <1>10, <2>2
    <3>2. Binned(fbuf, o) /\ fbuf'[o] = fbuf[o]
      BY <1>1, <1>6, <3>1
    <3> QED BY <3>2 DEF Binned
  <2> QED BY <2>1, <2>2
<1>11. fbuf' \in [0 .. F!N - 1 -> SUBSET Int]
  <2>1. UNION {fbuf[p] : p \in S} \in SUBSET Int
    <3>1. \A p \in S : fbuf[p] \subseteq Int
      BY <1>1, <1>4
    <3> QED BY <3>1
  <2> QED BY <1>1, <1>4, <1>5, <2>1
<1>12. fat + 1 <= F!Out /\ fat + 1 \in Nat /\ fwire.soft # 1
  BY <1>1, <1>2
<1>13. Upright(fbuf', "bin", fat + 1)
  BY <1>9, <1>10, <1>12 DEF Upright
<1> QED BY <1>1, <1>11, <1>12, <1>13 DEF FrameIs

\* Unbinned, an output is the sample itself.
LEMMA Unbinned ==
  ASSUME Conf, fwire.soft = 1
  PROVE  F!Out = F!N /\ \A o \in 0 .. F!N - 1 : F!Footprint(o) = {o}
<1> DEFINE w == fwire.w
           h == fwire.h
<1>1. w \in Nat /\ h \in Nat /\ w > 0 /\ F!N \in Nat
  BY Sizes
<1>2. F!OutW = w /\ F!Out = F!N
  <2>1. w \div 1 = w /\ h \div 1 = h
    BY <1>1
  <2> QED BY <2>1 DEF F!OutW, F!OutH, F!Out, F!N
<1>3. ASSUME NEW o \in 0 .. F!N - 1, NEW p \in F!Footprint(o) PROVE p = o
  <2> DEFINE r == p \div w
             c == p % w
             t == o \div w
             d == o % w
  <2>1. p \in 0 .. F!N - 1 /\ p \in Nat /\ o \in Nat
    BY <1>1 DEF F!Footprint
  <2>2. p = r * w + c /\ c \in 0 .. w - 1 /\ r \in Nat
    BY <1>1, <2>1, Place
  <2>3. o = t * w + d /\ d \in 0 .. w - 1 /\ t \in Nat
    BY <1>1, <2>1, Place
  <2>4. IF fwire.color
          THEN r \div (2 * 1) = t \div 2 /\ c \div (2 * 1) = d \div 2 /\ r % 2 = t % 2 /\ c % 2 = d % 2
          ELSE r \div (1 * 1) = t \div 1 /\ c \div (1 * 1) = d \div 1
    BY <1>2 DEF F!Footprint, F!Phase
  <2> HIDE DEF r, c, t, d, w
  <2>5. r = t /\ c = d
    <3>1. c \in Nat /\ d \in Nat
      BY <1>1, <2>2, <2>3
    <3> QED BY <2>2, <2>3, <2>4, <3>1
  <2> QED BY <2>2, <2>3, <2>5
<1>4. ASSUME NEW o \in 0 .. F!N - 1 PROVE F!Footprint(o) = {o}
  <2>1. F!Footprint(o) # {}
    BY <1>2, SourcesHold
  <2> QED BY <1>3, <2>1
<1> QED BY <1>2, <1>4

\* What is returned has been binned, or needed no bin.
LEMMA FrameReturns ==
  ASSUME FrameInv, F!Return
  PROVE  FrameInv'
<1>1. /\ Conf /\ fbuf \in [0 .. F!N - 1 -> SUBSET Int] /\ fstep = "bin" /\ fstart \in Nat /\ fat \in Nat
      /\ fwire.soft <= 1 \/ fat = F!Out
      /\ fstart = 0 /\ faligned = TRUE
      /\ fwire.soft = 1 => fat = 0
      /\ \A p \in 0 .. F!N - 1 : p >= fat => Good(fbuf, p)
      /\ \A o \in 0 .. F!Out - 1 : o < fat => Binned(fbuf, o)
      /\ UNCHANGED F!conf /\ faligned' = faligned /\ fstep' = "done" /\ fat' = 0 /\ fbuf' = fbuf
  BY DEF FrameInv, FrameIs, F!Return, F!Enter, Conf, Upright
<1> SUFFICES FrameIs(fbuf', faligned', fstep', fat')
  BY <1>1, ConfStays
<1>2. F!N \in Nat /\ fwire.soft \in Nat \ {0}
  BY <1>1, Sizes DEF Conf
<1>3. ASSUME NEW o \in 0 .. F!Out - 1 PROVE Binned(fbuf, o)
  <2>1. CASE fat = F!Out
    <3>1. o < fat
      BY <1>1, <2>1
    <3> QED BY <1>1, <3>1
  <2>2. CASE fwire.soft = 1
    <3>1. F!Out = F!N /\ \A n \in 0 .. F!N - 1 : F!Footprint(n) = {n}
      BY <1>1, <2>2, Unbinned
    <3>2. o \in 0 .. F!N - 1 /\ o >= fat
      BY <1>1, <1>2, <2>2, <3>1
    <3>3. Good(fbuf, o) /\ F!Footprint(o) = {o}
      BY <1>1, <3>1, <3>2
    <3>4. F!OutW = fwire.w
      <4>1. fwire.w \in Nat
        BY <1>1, Sizes
      <4> QED BY <2>2, <4>1 DEF F!OutW
    <3> QED BY <3>3, <3>4 DEF Good, Binned
  <2> QED BY <1>1, <1>2, <2>1, <2>2
<1>4. Upright(fbuf, "done", 0)
  BY <1>3 DEF Upright
<1> QED BY <1>1, <1>4 DEF FrameIs

\* The invariant holds.
LEMMA FrameInvHolds ==
  ASSUME F!FramesConstants
  PROVE  F!Spec => []FrameInv
<1>1. F!Init => FrameInv
  BY FrameStarts
<1>2. FrameInv /\ [F!Next]_(F!vars) => FrameInv'
  <2> SUFFICES ASSUME FrameInv, [F!Next]_(F!vars) PROVE FrameInv'
    OBVIOUS
  <2>1. CASE F!RepairFX3
    BY <2>1, Fx3Holds
  <2>2. CASE F!RepairVendor
    BY <2>2, VendorHolds
  <2>3. CASE F!RepairDefect
    BY <2>3, DefectHolds
  <2>4. CASE F!Judge
    BY <2>4, JudgeHolds
  <2>5. CASE F!BinOne
    BY <2>5, BinHolds
  <2>6. CASE F!Return
    BY <2>6, FrameReturns
  <2>7. CASE UNCHANGED F!vars
    <3>1. UNCHANGED F!conf /\ FrameIs(fbuf', faligned', fstep', fat')
      BY <2>7 DEF F!vars, FrameInv
    <3> QED BY <3>1, ConfStays
  <2> QED BY <2>1, <2>2, <2>3, <2>4, <2>5, <2>6, <2>7 DEF F!Next
<1> QED BY <1>1, <1>2, PTL DEF F!Spec

\* Whatever the window, the profile's marks, the map and the bin: no sample of a
\* frame returned is made of a marker, of another frame, of another colour or of a
\* pixel the map names, and one that needed no repair is of exactly the pixels it
\* stands for (repairFX3DMAMarkers, repairPOAFrameMarker, ApplyWindow, binFrame).
THEOREM FrameReturned ==
  ASSUME F!FramesConstants
  PROVE  F!Spec => []F!FrameHolds
<1>1. FrameInv => F!FrameHolds
  <2> SUFFICES ASSUME FrameInv, fstep = "done" PROVE \A o \in 0 .. F!Out - 1 : Binned(fbuf, o)
    BY DEF F!FrameHolds, Binned
  <2>1. fstart \in Nat /\ ~(fstart > 0)
    BY DEF FrameInv, FrameIs, Conf
  <2>2. fstart = 0
    BY <2>1
  <2> QED BY <2>2 DEF FrameInv, FrameIs, Upright
<1> QED BY <1>1, FrameInvHolds, PTL

\* A frame is refused only for starting after the start of the buffer.
THEOREM RefusedForItsStart ==
  ASSUME F!FramesConstants
  PROVE  F!Spec => []F!RefusedForStart
<1>1. FrameInv => F!RefusedForStart
  BY DEF FrameInv, FrameIs, F!RefusedForStart, Conf
<1> QED BY <1>1, FrameInvHolds, PTL
=============================================================================
