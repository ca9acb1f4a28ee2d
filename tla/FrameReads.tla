----------------------------- MODULE FrameReads -----------------------------
(***************************************************************************)
(* One whole-frame read, by each of the eight engines of the three         *)
(* backends, at the level of transfers: what is submitted, what the kernel *)
(* brings back, what is counted, and how the window is taken back.         *)
(*                                                                         *)
(*   cover engines put transfer i at its own offset of the frame and count *)
(*   a prefix:  urbs (usbfs readFrameURBs), urbpreq (usbfs                 *)
(*   ReadFrameStreamPrequeued), async and preq (the two batches of IOKit), *)
(*   winbatch (WinUSB batchRead)                                           *)
(*   mark engines read into scratch and copy to a watermark:  urbstream    *)
(*   and winstream (ReadFrameStream of usbfs and WinUSB), pump (IOKit's)   *)
(*                                                                         *)
(* A byte is its position in what the device sends from the start of the   *)
(* read; the frame is positions 0 .. FrameLen - 1 and the next frame       *)
(* follows.  A transfer ends where the device commits, so it may bring any *)
(* number of bytes, none included.                                         *)
(*                                                                         *)
(* An operator whose name starts with Faulty is a mutated form of the      *)
(* definition after it.                                                    *)
(***************************************************************************)
EXTENDS Integers, Sequences

CONSTANTS
  Engines,    \* the engines a behaviour may be about, a subset of AllEngines
  FrameLen,   \* len(buf)
  Pad,        \* what IOKit's pump asks beyond it, up to a multiple of dmaAlign
  Chunk,      \* maxBulkChunk
  Window,     \* urbWindow, ddrWindow, ASI_SWIN, winPrequeuedWindow
  MaxSent,    \* bound: bytes the device sends during the read
  MaxRefused  \* bound: transfers that cannot be submitted

CoverEngines == {"urbs", "urbpreq", "async", "preq", "winbatch"}
MarkEngines  == {"urbstream", "winstream", "pump"}
AllEngines   == CoverEngines \cup MarkEngines

FrameReadsAssumption ==
  /\ Engines \subseteq AllEngines
  /\ FrameLen \in Nat \ {0} /\ Pad \in Nat
  /\ Chunk \in Nat \ {0} /\ Window \in Nat \ {0}
  /\ MaxSent \in Nat /\ MaxRefused \in Nat

VARIABLES
  engine,   \* fixed
  slots,    \* [own, req, from, n, st]: own is "none", "kernel", "complete" or "reaped"
  fifo,     \* the transfers with the kernel, oldest first
  ready,    \* the completed ones, in the order of completion
  nxt,      \* the next slot of a cover engine to submit, or that winbatch waits for
  cur,      \* winbatch: the slot whose event is waited for
  buf,      \* mark engines: the positions copied so far
  got,      \* winbatch: the bytes counted so far
  outstanding, \* pump: the bytes in-flight transfers have spoken for
  pc,       \* "prime", "loop" (the tests), "reap" (after them), "drain" or "done"
  ret, out, \* what the call returns: "ok", "error" or "broken", and the count
  late,     \* the total deadline passed
  latch,    \* AbortRead was called
  refused,  \* bound
  broken,   \* the transport is poisoned and the memory pinned
  sent,     \* the position of the next byte the device sends
  \* history, read by properties only
  excused,  \* something happened that may leave the frame short
  after     \* the transfers the loop submitted since an abort or the deadline

kernelVars == <<slots, fifo, ready>>
countVars  == <<nxt, cur, buf, got>>
endVars    == <<pc, ret, out>>
vars == <<engine, kernelVars, countVars, outstanding, endVars, late, latch, refused, broken, sent, excused, after>>

Lesser(a, b) == IF a < b THEN a ELSE b

\* The slots of a cover engine, the last one sized to the remainder.
NCover  == (FrameLen + Chunk - 1) \div Chunk
Slots   == 1 .. (IF NCover > Window THEN NCover ELSE Window)
Req(i)  == Lesser(Chunk, FrameLen - (i - 1) * Chunk)

\* What the pump asks for in all.
Ask     == FrameLen + Pad
NPump   == Lesser(Window, (Ask + Chunk - 1) \div Chunk)

-----------------------------------------------------------------------------
(* Submitting and completing *)

Unused     == [own |-> "none", req |-> 0, from |-> 0, n |-> 0, st |-> "ok"]
Sent(q)    == [own |-> "kernel", req |-> q, from |-> 0, n |-> 0, st |-> "ok"]
\* IOKit: a transfer that could not be submitted is marked done with its error.
Rejected   == [own |-> "reaped", req |-> 0, from |-> 0, n |-> 0, st |-> "hard"]

MayRefuse == refused < MaxRefused

Init ==
  /\ engine \in Engines
  /\ slots = [i \in Slots |-> Unused] /\ fifo = <<>> /\ ready = <<>>
  /\ nxt = 1 /\ cur = 1 /\ buf = <<>> /\ got = 0 /\ outstanding = 0
  /\ pc = "prime" /\ ret = "ok" /\ out = 0
  /\ late = FALSE /\ latch = FALSE /\ refused = 0 /\ broken = FALSE
  /\ sent = 0 /\ excused = FALSE /\ after = 0

Submit(i, q) ==
  /\ slots' = [slots EXCEPT ![i] = Sent(q)] /\ fifo' = Append(fifo, i)

\* The transfers 1 .. w go out one at a time, with the lengths q asks for, and
\* nothing is tested between two of them.  A refusal ends the priming: the window
\* is truncated, or the read fails when nothing could be submitted at all.
PrimeWindow(w, q(_)) ==
  \/ /\ Submit(nxt, q(nxt)) /\ nxt' = nxt + 1
     /\ pc' = IF nxt = w THEN "loop" ELSE "prime"
     /\ UNCHANGED <<ret, refused, excused>>
  \/ /\ MayRefuse /\ refused' = refused + 1 /\ excused' = TRUE
     /\ UNCHANGED <<slots, fifo, nxt>>
     /\ IF nxt = 1 THEN pc' = "done" /\ ret' = "error" ELSE pc' = "loop" /\ UNCHANGED ret

PrimeUrbs      == engine \in {"urbs", "urbpreq"} /\ PrimeWindow(Lesser(Window, NCover), Req)
PrimeWinBatch  == engine = "winbatch" /\ PrimeWindow(Lesser(Window, NCover), Req)
PrimeUrbStream == engine = "urbstream" /\ PrimeWindow(Window, LAMBDA i : Chunk)

\* Each is sized to what the frame still needs at its offset.
PumpReq(i) == Lesser(Chunk, Ask - (i - 1) * Chunk)
PrimePump  == engine = "pump" /\ PrimeWindow(NPump, PumpReq)

\* All are tried; one that fails is done with its error.
PrimeAll ==
  /\ engine \in {"async", "preq"}
  /\ \/ Submit(nxt, Req(nxt)) /\ UNCHANGED <<refused, excused>>
     \/ /\ MayRefuse /\ refused' = refused + 1 /\ excused' = TRUE
        /\ slots' = [slots EXCEPT ![nxt] = Rejected] /\ UNCHANGED fifo
  /\ nxt' = nxt + 1 /\ pc' = IF nxt = NCover THEN "loop" ELSE "prime"
  /\ UNCHANGED ret

PrimeWinStream == engine = "winstream" /\ pc' = "loop"
                  /\ UNCHANGED <<slots, fifo, nxt, ret, refused, excused>>

Prime ==
  /\ pc = "prime"
  /\ PrimeUrbs \/ PrimeWinBatch \/ PrimeUrbStream \/ PrimePump \/ PrimeAll \/ PrimeWinStream
  /\ outstanding' = outstanding + IF engine = "pump" /\ nxt' # nxt THEN PumpReq(nxt) ELSE 0
  /\ UNCHANGED <<engine, ready, cur, buf, got, out, late, latch, broken, sent, after>>

\* The oldest transfer completes.  Cancelled, or past the driver's own timeout,
\* it comes back with what it holds; a stall or a babble is a hard error.
Complete ==
  /\ fifo # <<>>
  /\ \E n \in 0 .. Lesser(slots[Head(fifo)].req, MaxSent - sent), st \in {"ok", "soft", "hard"} :
       LET i == Head(fifo) IN
       /\ st = "soft" => pc = "drain" \/ late \/ engine = "winstream"
       /\ slots' = [slots EXCEPT ![i].own = "complete", ![i].from = sent, ![i].n = n, ![i].st = st]
       /\ ready' = Append(ready, i)
       /\ sent' = sent + n
       /\ excused' = (excused \/ st # "ok" \/ (engine \in CoverEngines /\ n < slots[i].req))
  /\ fifo' = Tail(fifo)
  /\ UNCHANGED <<engine, countVars, outstanding, endVars, late, latch, refused, broken, after>>

\* The deadline and AbortRead may fall between any two steps of the read.
Reading == pc \in {"prime", "loop", "reap"}

Clock ==
  /\ Reading /\ ~late /\ late' = TRUE
  /\ UNCHANGED <<engine, kernelVars, countVars, outstanding, endVars, latch, refused, broken, sent, excused, after>>

AbortRead ==
  /\ Reading /\ ~latch /\ latch' = TRUE
  /\ UNCHANGED <<engine, kernelVars, countVars, outstanding, endVars, late, refused, broken, sent, excused, after>>

Expired == late \/ latch

-----------------------------------------------------------------------------
(* The prefix a cover engine counts *)

\* The first slot that is not in, whole and without error.
Whole(i)  == slots[i].own = "reaped" /\ slots[i].st = "ok" /\ slots[i].n = Req(i)
FirstEnd  == CHOOSE i \in 1 .. NCover + 1 :
               /\ i <= NCover => ~Whole(i)
               /\ \A j \in 1 .. i - 1 : Whole(j)

FaultyPrefix ==
  LET F[i \in 0 .. NCover] == IF i = 0 THEN 0
        ELSE F[i - 1] + IF slots[i].own = "reaped" /\ slots[i].st = "ok" THEN slots[i].n ELSE 0
  IN F[NCover]

\* Up to and including the slot that ends the frame.  usbfs's prequeued read
\* counts the bytes of one that failed or was discarded, too.
Prefix ==
  LET i == FirstEnd IN
  IF i > NCover THEN FrameLen
  ELSE (i - 1) * Chunk
       + IF slots[i].own = "reaped" /\ (slots[i].st = "ok" \/ engine = "urbpreq") THEN slots[i].n ELSE 0

\* urbFrameEnded: the prefix has reached the transfer that ends the frame.
FrameEnded == FirstEnd <= NCover /\ slots[FirstEnd].own = "reaped"

Exit(r, k) ==
  /\ pc' = "drain" /\ ret' = r /\ out' = k
  /\ UNCHANGED <<kernelVars, countVars, refused>>

\* An engine tests whether enough is in, then the latch and the deadline; what it
\* does next it does without testing again, however long it waits for it.
FaultyStops == ready = <<>> /\ Expired
Stops == Expired

Test(enough, count) ==
  /\ pc = "loop"
  /\ IF enough THEN Exit("ok", count) /\ UNCHANGED excused
     ELSE IF Stops THEN Exit("ok", count) /\ excused' = TRUE
     ELSE pc' = "reap" /\ UNCHANGED <<kernelVars, countVars, ret, out, refused, excused>>

\* The wait brought nothing.
Again == pc' = "loop" /\ UNCHANGED <<kernelVars, countVars, ret, out, refused, excused>>

Reaped(i) == [slots EXCEPT ![i].own = "reaped"]

\* The completed transfer i leaves the queue, and slot j of the frame is
\* submitted if one is left; refused, it is retried at the next completion.
SlideUrbs(i) ==
  /\ ready' = Tail(ready)
  /\ IF nxt > NCover
       THEN slots' = Reaped(i) /\ UNCHANGED <<fifo, nxt, refused, excused>>
       ELSE \/ /\ slots' = [Reaped(i) EXCEPT ![nxt] = Sent(Req(nxt))]
               /\ fifo' = Append(fifo, nxt) /\ nxt' = nxt + 1 /\ UNCHANGED <<refused, excused>>
            \/ /\ MayRefuse /\ refused' = refused + 1 /\ excused' = TRUE
               /\ slots' = Reaped(i) /\ UNCHANGED <<fifo, nxt>>
  /\ pc' = "loop" /\ UNCHANGED <<cur, buf, got, ret, out>>

\* winbatch: a filled slot arms the next one; refused, it is retried.
SlideWin ==
  /\ ready' = Tail(ready)
  /\ IF nxt > NCover
       THEN slots' = Reaped(cur) /\ UNCHANGED <<fifo, nxt, refused, excused>>
       ELSE \/ /\ slots' = [Reaped(cur) EXCEPT ![nxt] = Sent(Req(nxt))]
               /\ fifo' = Append(fifo, nxt) /\ nxt' = nxt + 1 /\ UNCHANGED <<refused, excused>>
            \/ /\ MayRefuse /\ refused' = refused + 1 /\ excused' = TRUE
               /\ slots' = Reaped(cur) /\ UNCHANGED <<fifo, nxt>>
  /\ pc' = "loop" /\ UNCHANGED <<buf, ret, out>>

Pending == fifo # <<>> \/ ready # <<>>

-----------------------------------------------------------------------------
(* The loops *)

\* usbfs readFrameURBs
UrbsLoop ==
  /\ engine = "urbs"
  /\ \/ Test(~Pending \/ FrameEnded, Prefix)
     \/ /\ pc = "reap"
        /\ \/ Again
           \/ Exit("error", 0) /\ UNCHANGED excused    \* the reap fails
           \/ ready # <<>> /\ SlideUrbs(Head(ready))

\* usbfs ReadFrameStreamPrequeued: the idle gate opens with the first
\* completion; the count is taken after the drain.
UrbPreqLoop ==
  /\ engine = "urbpreq"
  /\ \/ Test(FrameEnded \/ FirstEnd > NCover, 0)
     \/ /\ pc = "reap"
        /\ \/ Again
           \/ Exit("error", 0) /\ UNCHANGED excused    \* the reap fails
           \/ slots[1].own = "reaped" /\ Exit("ok", 0) /\ excused' = TRUE
           \/ ready # <<>> /\ SlideUrbs(Head(ready))

\* One completion of a batch is waited for; then the latch and the deadline.
ReapBatch(stop) ==
  /\ slots' = Reaped(Head(ready)) /\ ready' = Tail(ready)
  /\ pc' = IF stop THEN "drain" ELSE "loop"
  /\ UNCHANGED <<fifo, countVars, ret, out, refused>>

\* IOKit asi_read_frame_async: a short transfer does not end the wait for the
\* others.
AsyncLoop ==
  /\ engine = "async" /\ pc = "loop"
  /\ \/ ready # <<>> /\ ReapBatch(Expired)
     \/ (Expired \/ ~Pending) /\ Exit("ok", 0)
  /\ excused' = (excused \/ Expired)

\* The scan of asi_read_frame_prequeued sees a slot done before its signal is taken.
Done(i)    == slots[i].own \in {"complete", "reaped"}
ScanEnded  == \E i \in 1 .. NCover :
                /\ \A j \in 1 .. i : Done(j)
                /\ slots[i].st # "ok" \/ slots[i].n < Req(i)

PreqLoop ==
  /\ engine = "preq" /\ pc = "loop"
  /\ \/ ready # <<>> /\ ReapBatch(Expired \/ ScanEnded) /\ excused' = (excused \/ Expired)
     \/ /\ Expired \/ ScanEnded \/ ~Pending
        /\ Exit("ok", 0) /\ excused' = (excused \/ Expired)
     \/ /\ ready = <<>> /\ slots[1].own = "reaped" /\ slots[1].n > 0
        /\ Exit("ok", 0) /\ excused' = TRUE

\* What copying slot i to the watermark gives, in a frame of len bytes.
Marked(i, len) == buf \o [k \in 1 .. Lesser(slots[i].n, len - Len(buf)) |-> slots[i].from + k - 1]

\* Slot i is done with, and asks for q bytes more; none if q is 0.
Recycle(i, q) ==
  /\ ready' = Tail(ready)
  /\ IF q <= 0
       THEN slots' = Reaped(i) /\ UNCHANGED <<fifo, refused, excused>>
       ELSE \/ /\ slots' = [slots EXCEPT ![i] = Sent(q)] /\ fifo' = Append(fifo, i)
               /\ UNCHANGED <<refused, excused>>
            \/ /\ MayRefuse /\ refused' = refused + 1 /\ excused' = TRUE
               /\ slots' = Reaped(i) /\ UNCHANGED fifo
  /\ pc' = "loop" /\ UNCHANGED <<nxt, cur, got, ret, out>>

\* usbfs ReadFrameStream: whole chunks into scratch, every slot recycled until
\* the frame is in; a status other than 0 is an error, with what came before.
UrbStreamLoop ==
  /\ engine = "urbstream"
  /\ \/ Test(Len(buf) = FrameLen \/ ~Pending, Len(buf))
     \/ /\ pc = "reap"
        /\ \/ Again
           \/ Exit("ok", Len(buf)) /\ excused' = TRUE  \* idle
           \/ Exit("error", Len(buf)) /\ UNCHANGED excused
           \/ /\ ready # <<>>
              /\ LET i == Head(ready) IN
                 IF slots[i].st # "ok"
                   THEN /\ pc' = "drain" /\ ret' = "error" /\ out' = Len(buf)
                        /\ slots' = Reaped(i) /\ ready' = Tail(ready)
                        /\ UNCHANGED <<fifo, countVars, refused, excused>>
                   ELSE /\ buf' = Marked(i, FrameLen)
                        /\ Recycle(i, IF Len(buf') < FrameLen THEN Chunk ELSE 0)

\* What the others have spoken for once slot i is in.
Outstanding(i) == IF outstanding >= slots[i].req THEN outstanding - slots[i].req ELSE 0

PumpWant(i, len) == Lesser(Chunk, Ask - len - Outstanding(i))

\* The rounded-up tail may never come: an error behind a whole frame is forgiven.
PumpRet(r) == IF Pad > 0 /\ Len(buf) >= FrameLen THEN "ok" ELSE r

\* IOKit asi_read_frame_stream
PumpLoop ==
  /\ engine = "pump"
  /\ \/ Test(Len(buf) = Ask \/ ~Pending, Lesser(Len(buf), FrameLen)) /\ UNCHANGED outstanding
     \/ /\ pc = "reap"
        /\ \/ Again /\ UNCHANGED outstanding
           \/ Exit("ok", Lesser(Len(buf), FrameLen)) /\ excused' = TRUE  \* idle, or zero lengths only
              /\ UNCHANGED outstanding
           \/ /\ ready # <<>>
              /\ LET i == Head(ready) IN
                 IF slots[i].st # "ok"
                   THEN /\ pc' = "drain" /\ out' = Lesser(Len(buf), FrameLen)
                        /\ ret' = IF slots[i].st = "hard" THEN PumpRet("error") ELSE "ok"
                        /\ slots' = Reaped(i) /\ ready' = Tail(ready) /\ outstanding' = Outstanding(i)
                        /\ UNCHANGED <<fifo, countVars, refused, excused>>
                   ELSE /\ buf' = Marked(i, Ask)
                        /\ Recycle(i, PumpWant(i, Len(buf')))
                        /\ outstanding' = Outstanding(i) + IF fifo' = fifo THEN 0 ELSE slots'[i].req

\* WinUSB batchRead: the slots' events are waited for in order; a filled slot
\* arms the next one.
WinBatchLoop ==
  /\ engine = "winbatch"
  /\ \/ Test(cur = nxt, got)
     \/ /\ pc = "reap"
        /\ \/ Again
           \/ got > 0 /\ Exit("ok", got) /\ excused' = TRUE  \* idle
           \/ /\ slots[cur].own = "complete"
              /\ got' = got + slots[cur].n
              /\ IF slots[cur].st # "ok" \/ slots[cur].n < Req(cur)
                   THEN /\ pc' = "drain" /\ out' = got'
                        /\ ret' = IF slots[cur].st = "hard" THEN "error" ELSE "ok"
                        /\ slots' = Reaped(cur) /\ ready' = Tail(ready)
                        /\ UNCHANGED <<fifo, nxt, cur, buf, refused, excused>>
                   ELSE /\ cur' = cur + 1
                        /\ SlideWin

\* WinUSB ReadFrameStream over readChunk: one transfer at a time into scratch.
\* Bytes count even when the transfer that brought them failed.  readChunk tests
\* the latch again, but an abort may come after that test, too.
WinStreamLoop ==
  /\ engine = "winstream"
  /\ \/ Test(Len(buf) = FrameLen, Len(buf))
     \/ /\ pc = "reap" /\ slots[1].own \in {"none", "reaped"}
        /\ \/ latch /\ Again
           \/ Submit(1, Chunk) /\ UNCHANGED <<ready, countVars, endVars, refused, excused>>
           \/ MayRefuse /\ Exit("error", Len(buf)) /\ UNCHANGED excused
     \/ /\ pc = "reap" /\ slots[1].own = "kernel"
        /\ latch /\ Exit("ok", 0) /\ excused' = TRUE  \* WinUsb_AbortPipe, and wait
     \/ /\ pc = "reap" /\ slots[1].own = "complete"
        /\ slots' = Reaped(1) /\ ready' = <<>>
        /\ buf' = Marked(1, FrameLen)
        /\ \/ ~(slots[1].n = 0 /\ slots[1].st = "hard")
              /\ pc' = "loop" /\ UNCHANGED <<ret, out, excused>>
           \/ /\ slots[1].n = 0 /\ slots[1].st = "hard"
              /\ pc' = "drain" /\ ret' = "error" /\ out' = Len(buf) /\ UNCHANGED excused
           \/ /\ slots[1].n = 0 /\ slots[1].st # "hard"  \* idle
              /\ pc' = "drain" /\ out' = Len(buf) /\ excused' = TRUE /\ UNCHANGED ret
        /\ UNCHANGED <<fifo, nxt, cur, got, refused>>

Armed == {i \in Slots : slots[i].own = "kernel"}

Loop ==
  /\ pc \in {"loop", "reap"}
  /\ \/ /\ UrbsLoop \/ UrbPreqLoop \/ AsyncLoop \/ PreqLoop
           \/ UrbStreamLoop \/ WinBatchLoop \/ WinStreamLoop
        /\ UNCHANGED outstanding
     \/ PumpLoop
  /\ after' = IF Expired /\ ~(Armed' \subseteq Armed) THEN after + 1 ELSE after
  /\ UNCHANGED <<engine, late, latch, broken, sent>>

-----------------------------------------------------------------------------
(* The way out: what is still with the kernel is discarded and waited for *)

DrainReap ==
  /\ pc = "drain" /\ ready # <<>>
  /\ slots' = Reaped(Head(ready)) /\ ready' = Tail(ready)
  /\ buf' = IF engine = "winstream" THEN Marked(1, FrameLen) ELSE buf
  /\ UNCHANGED <<engine, fifo, nxt, cur, got, outstanding, endVars, late, latch, refused, broken, sent, excused, after>>

\* Counted here by the engines whose batch is scanned after the drain.
Count == CASE engine \in {"urbpreq", "async", "preq"} -> Prefix
           [] engine = "winstream" -> Len(buf)
           [] OTHER -> out

\* IOKit reports a hard error in the slot the scan ended at.
FinalRet == IF engine \in {"async", "preq"} /\ FirstEnd <= NCover /\ slots[FirstEnd].st = "hard"
            THEN "error" ELSE ret

Finish ==
  /\ pc = "drain" /\ ~Pending
  /\ pc' = "done" /\ out' = Count /\ ret' = FinalRet
  /\ UNCHANGED <<engine, kernelVars, countVars, outstanding, late, latch, refused, broken, sent, excused, after>>

\* A cancelled transfer does not come back in time: its memory is pinned and
\* the transport poisoned.  usbfs returns its count all the same.
Abandon ==
  /\ pc = "drain" /\ fifo # <<>>
  /\ broken' = TRUE /\ pc' = "done" /\ out' = Count
  /\ ret' = IF engine \in {"urbs", "urbpreq", "urbstream"} THEN ret ELSE "broken"
  /\ UNCHANGED <<engine, kernelVars, countVars, outstanding, late, latch, refused, sent, excused, after>>

Reader == Prime \/ Loop \/ DrainReap \/ Finish

Next == Reader \/ Complete \/ Clock \/ AbortRead \/ Abandon

Spec == Init /\ [][Next]_vars

-----------------------------------------------------------------------------
(* Properties *)

SlotType == [own : {"none", "kernel", "complete", "reaped"}, req : 0 .. Chunk, from : 0 .. MaxSent,
             n : 0 .. Chunk, st : {"ok", "soft", "hard"}]

TypeOK ==
  /\ engine \in AllEngines
  /\ slots \in [Slots -> SlotType]
  /\ fifo \in Seq(Slots) /\ ready \in Seq(Slots)
  /\ nxt \in 1 .. Len(slots) + 1 /\ cur \in 1 .. nxt
  /\ buf \in Seq(0 .. MaxSent) /\ Len(buf) <= (IF engine = "pump" THEN Ask ELSE FrameLen)
  /\ got \in 0 .. FrameLen /\ outstanding \in 0 .. Ask
  /\ pc \in {"prime", "loop", "reap", "drain", "done"}
  /\ ret \in {"ok", "error", "broken"} /\ out \in 0 .. FrameLen
  /\ late \in BOOLEAN /\ latch \in BOOLEAN /\ broken \in BOOLEAN
  /\ refused \in 0 .. MaxRefused /\ sent \in 0 .. MaxSent /\ excused \in BOOLEAN /\ after \in Nat

\* Where byte j of the caller's buffer came from, -1 if nothing was put there.
ByteAt(j) ==
  IF engine \in MarkEngines THEN buf[j + 1]
  ELSE LET s == slots[j \div Chunk + 1]
       IN IF s.own = "reaped" /\ j % Chunk < s.n THEN s.from + (j % Chunk) ELSE -1

\* The count a read returns covers the first bytes the device sent from the
\* start of the read, each at its place: no gap, whatever came back short, out
\* of a discard, failed, or could not be submitted.
PrefixIntact == pc = "done" => \A j \in 0 .. out - 1 : ByteAt(j) = j

\* No request runs past the frame (or, in IOKit's pump, past its rounded-up
\* length): a byte of the next free-run frame taken here is lost to the read it
\* belongs to.  The two ReadFrameStream of usbfs and WinUSB do run past it, and
\* halt the readout afterwards.
NoOverread ==
  engine \notin {"urbstream", "winstream"} => sent <= (IF engine = "pump" THEN Ask ELSE FrameLen)

\* A read that returns a short count without an error has a reason: an abort, a
\* deadline, an idle window, a failed or refused transfer, or, in a cover engine,
\* a short transfer.  An engine that let its window run dry would not.
ShortHasCause == pc = "done" /\ ret = "ok" /\ out < FrameLen => excused

\* From an abort or the deadline on the loop submits at most one transfer more, the
\* one it had already passed its tests for: every completion is followed by a test, a
\* flowing device's as much as a silent one's, and zero-length packets for ever do not
\* keep a read going.
OneAfterAbort == after <= 1

=============================================================================
