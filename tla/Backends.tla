------------------------------ MODULE Backends ------------------------------
(***************************************************************************)
(* The device behind the three backends (darwinDevice, winusbDevice,       *)
(* usbfsDevice) as the threads that share it see it: closeMu, the          *)
(* read/write lock that keeps Close off a transfer in progress; ioMu, the  *)
(* gate between control transfers and whole-frame reads; the abort latch;  *)
(* the registry of resident sessions.  Transfers are what FrameReads,      *)
(* Stream and Sessions model; here a call is inside the kernel or it is    *)
(* not.                                                                    *)
(*                                                                         *)
(* What differs by host:                                                   *)
(*   - the abort: a level the read polls (usbfs, winusb), or the level at  *)
(*     the entry and a generation the read compares (iokit);               *)
(*   - the order of the checks at the entry of a call;                     *)
(*   - who may open a second session, and which lock keeps a session's     *)
(*     Close off its Next.                                                 *)
(***************************************************************************)
EXTENDS FiniteSets, Naturals

CONSTANTS
  Hosts,        \* \subseteq {"iokit", "winusb", "usbfs"}
  Users,        \* goroutines that open a session, read from it and close it
  MayBreak,     \* a drain may give up
  CameraStops   \* StopExposure may close a session that ReadFrame reads from

AllHosts == {"iokit", "winusb", "usbfs"}
Services == {"reader", "control", "abort", "close", "stop"}
Threads  == Services \cup Users

ASSUME BackendsAssumption ==
  /\ Hosts \subseteq AllHosts
  /\ Users \cap (Services \cup {"no"}) = {}

VARIABLES
  host,
  pc,        \* where each thread is
  kind,      \* the reader's or controller's call: "gated" by ioMu, "free", or, a
             \* read, "quiet": gated from the end of its quiet window only
  shared,    \* who holds closeMu shared
  writer,    \* Close and closeMu: "no", "waiting" or "held"
  io,        \* who holds ioMu, or "no"
  closed, broken,
  freed,     \* the handle is gone (dFreed)
  latch,     \* readAborted
  heard,     \* iokit: abort_gen differs from the reader's snapshot
  sess,      \* each user's session: "none", "arming", "open" or "draining"
  reg,       \* streams: the sessions registered on the device
  mu,        \* who holds a session's mu (usbfs, winusb), or "no"
  target,    \* the session "stop" closes
  todo       \* the sessions Close has yet to stop

lockVars == <<shared, writer, io>>
devVars  == <<closed, broken, freed>>
sessVars == <<sess, reg, mu, target>>
vars == <<host, pc, kind, lockVars, devVars, latch, heard, sessVars, todo>>

IOKit == host = "iokit"

Init ==
  /\ host \in Hosts
  /\ pc = [t \in Threads |-> "idle"]
  /\ kind = [t \in {"reader", "control"} |-> "gated"]
  /\ shared = {} /\ writer = "no" /\ io = "no"
  /\ closed = FALSE /\ broken = FALSE /\ freed = FALSE
  /\ latch = FALSE /\ heard = FALSE
  /\ sess = [u \in Users |-> "none"] /\ reg = {} /\ mu = [u \in Users |-> "no"]
  /\ target \in Users /\ todo = {}

Goto(t, l) == pc' = [pc EXCEPT ![t] = l]

-----------------------------------------------------------------------------
(* The entry and the exit of a call *)

\* usbfs and winusb look at broken before the lock, ...
Call(t, l) == pc[t] = "idle" /\ (IOKit \/ ~broken) /\ Goto(t, l)

\* ... iokit under it.  A waiting Close keeps new callers out.
MayEnter   == writer = "no"
Refused    == closed \/ (IOKit /\ broken)
Holding(t) == shared' = shared \cup {t}
Left(t)    == shared' = shared \ {t}

\* enter, with its refusal: the lock is not kept.
Enter(t, l) ==
  /\ MayEnter
  /\ IF Refused THEN Goto(t, "idle") /\ UNCHANGED shared ELSE Goto(t, l) /\ Holding(t)
  /\ UNCHANGED writer

Poison == broken' \in {broken, broken \/ MayBreak}

-----------------------------------------------------------------------------
(* A frame read: BulkRead, ReadFrameStreamPrequeued ("gated"), BulkReadQuiet *)
(* ("quiet") or ReadFrameStream ("free")                                     *)

ReadCall ==
  /\ Call("reader", "enter")
  /\ \E k \in {"gated", "quiet", "free"} : kind' = [kind EXCEPT !["reader"] = k]
  /\ UNCHANGED <<host, lockVars, devVars, latch, heard, sessVars, todo>>

\* The latch fails a read before it queues for ioMu.
ReadEnter ==
  /\ pc["reader"] = "enter"
  /\ IF latch /\ ~Refused THEN MayEnter /\ Goto("reader", "idle") /\ UNCHANGED <<shared, writer>>
     ELSE Enter("reader", IF kind["reader"] = "gated" THEN "gate" ELSE "snapshot")
  /\ UNCHANGED <<host, kind, io, devVars, latch, heard, sessVars, todo>>

TakeIo(t, l) ==
  /\ pc[t] = "gate" /\ io = "no"
  /\ io' = t /\ Goto(t, l)
  /\ UNCHANGED <<host, kind, shared, writer, devVars, latch, heard, sessVars, todo>>

ReadGate == TakeIo("reader", "snapshot")

\* gen0 = asi_abort_gen(d)
Snapshot ==
  /\ pc["reader"] = "snapshot"
  /\ Goto("reader", "reading") /\ heard' = FALSE
  /\ UNCHANGED <<host, kind, lockVars, devVars, latch, sessVars, todo>>

\* The transfers are armed; the quiet window is over, or data or the end came early.
QuietGate ==
  /\ pc["reader"] = "reading" /\ kind["reader"] = "quiet" /\ io = "no"
  /\ io' = "reader"
  /\ UNCHANGED <<host, pc, kind, shared, writer, devVars, latch, heard, sessVars, todo>>

\* usbfs and winusb drain under ioMu; iokit may be done within the quiet window.
ReadReturns ==
  /\ kind["reader"] = "quiet" /\ ~IOKit => io = "reader"
  /\ Goto("reader", "idle") /\ Left("reader")
  /\ io' = IF io = "reader" THEN "no" ELSE io
  /\ Poison
  /\ UNCHANGED <<host, kind, writer, closed, freed, latch, heard, sessVars, todo>>

\* The frame, a deadline, or an error
ReadEnds == pc["reader"] = "reading" /\ ReadReturns

\* ASI_ABORTED, or the polls of readAborted
ReadBroken ==
  /\ pc["reader"] = "reading"
  /\ IF IOKit THEN heard ELSE latch
  /\ ReadReturns

-----------------------------------------------------------------------------
(* A control transfer: control and ResetEndpoint are gated, ControlOutUngated *)
(* and ResetDevice are not                                                    *)

ControlCall ==
  /\ Call("control", "enter")
  /\ \E k \in {"gated", "free"} : kind' = [kind EXCEPT !["control"] = k]
  /\ UNCHANGED <<host, lockVars, devVars, latch, heard, sessVars, todo>>

FaultyControlEnter ==
  /\ pc["control"] = "enter"
  /\ Enter("control", "ep0")
  /\ UNCHANGED <<host, kind, io, devVars, latch, heard, sessVars, todo>>

ControlEnter ==
  /\ pc["control"] = "enter"
  /\ Enter("control", IF kind["control"] = "gated" THEN "gate" ELSE "ep0")
  /\ UNCHANGED <<host, kind, io, devVars, latch, heard, sessVars, todo>>

ControlGate == TakeIo("control", "ep0")

ControlDone ==
  /\ pc["control"] = "ep0"
  /\ Goto("control", "idle") /\ Left("control")
  /\ io' = IF io = "control" THEN "no" ELSE io
  /\ UNCHANGED <<host, kind, writer, devVars, latch, heard, sessVars, todo>>

-----------------------------------------------------------------------------
(* AbortRead and ArmRead *)

\* The latch; on iokit the generation follows, under dMu.
AbortRead ==
  /\ pc["abort"] = "idle" /\ latch' = TRUE
  /\ IF IOKit THEN Goto("abort", "bump") ELSE UNCHANGED pc
  /\ UNCHANGED <<host, kind, lockVars, devVars, heard, sessVars, todo>>

FaultyAbortBump ==
  /\ pc["abort"] = "bump" /\ MayEnter
  /\ heard' = TRUE /\ Goto("abort", "idle")
  /\ UNCHANGED <<host, kind, lockVars, devVars, latch, sessVars, todo>>

\* dMu is held by Close across the free only.
AbortBump ==
  /\ pc["abort"] = "bump" /\ pc["close"] # "freeing"
  /\ heard' = (heard \/ ~freed)
  /\ Goto("abort", "idle")
  /\ UNCHANGED <<host, kind, lockVars, devVars, latch, sessVars, todo>>

ArmRead ==
  /\ pc["abort"] = "idle" /\ latch /\ latch' = FALSE
  /\ UNCHANGED <<host, pc, kind, lockVars, devVars, heard, sessVars, todo>>

-----------------------------------------------------------------------------
(* A session: StartStream, Next, Close *)

Reserved == reg # {}

StartCall(u) ==
  /\ sess[u] = "none" /\ Call(u, "start")
  /\ UNCHANGED <<host, kind, lockVars, devVars, latch, heard, sessVars, todo>>

\* streamMu is held by a session's Close across its drain (iokit).
StreamMuFree == ~\E u \in Users : sess[u] = "draining"

\* iokit takes the one place before it arms; the others register afterwards.
FaultyStartEnter(u) ==
  /\ pc[u] = "start"
  /\ Enter(u, "arming")
  /\ sess' = IF Refused THEN sess ELSE [sess EXCEPT ![u] = "arming"]
  /\ UNCHANGED <<host, kind, io, devVars, latch, heard, reg, mu, target, todo>>

StartEnter(u) ==
  /\ pc[u] = "start"
  /\ IF IOKit /\ ~Refused
       THEN /\ MayEnter /\ StreamMuFree /\ UNCHANGED writer
            /\ IF Reserved
                 THEN Goto(u, "idle") /\ UNCHANGED <<shared, sess, reg>>  \* errStreamBusy
                 ELSE /\ Goto(u, "arming") /\ Holding(u) /\ reg' = reg \cup {u}
                      /\ sess' = [sess EXCEPT ![u] = "arming"]
       ELSE /\ Enter(u, "arming") /\ UNCHANGED reg
            /\ sess' = IF Refused THEN sess ELSE [sess EXCEPT ![u] = "arming"]
  /\ UNCHANGED <<host, kind, io, devVars, latch, heard, mu, target, todo>>

StartEnds(u) ==
  /\ pc[u] = "arming"
  /\ Goto(u, "idle") /\ Left(u)
  /\ \/ sess' = [sess EXCEPT ![u] = "open"] /\ reg' = reg \cup {u}
     \/ sess' = [sess EXCEPT ![u] = "none"] /\ reg' = reg \ {u}   \* nothing could be armed
  /\ UNCHANGED <<host, kind, writer, io, devVars, latch, heard, mu, target, todo>>

\* The caller keeps Next and Close of one iokit session apart, unless it is the
\* Camera.
Apart(u) == IOKit /\ ~CameraStops => ~(pc["stop"] # "idle" /\ target = u)

NextCall(u) ==
  /\ sess[u] = "open" /\ pc[u] = "idle" /\ Apart(u)
  /\ Goto(u, "next?")
  /\ UNCHANGED <<host, kind, lockVars, devVars, latch, heard, sessVars, todo>>

\* iokit under closeMu, the others under the session's mu.
NextEnter(u) ==
  /\ pc[u] = "next?"
  /\ IF IOKit
       THEN /\ IF sess[u] # "open" THEN MayEnter /\ Goto(u, "idle") /\ UNCHANGED <<shared, writer>>
               ELSE Enter(u, "next")
            /\ UNCHANGED mu
       ELSE /\ mu[u] = "no"
            /\ IF sess[u] # "open" \/ broken THEN Goto(u, "idle") /\ UNCHANGED mu
               ELSE Goto(u, "next") /\ mu' = [mu EXCEPT ![u] = u]
            /\ UNCHANGED <<shared, writer>>
  /\ UNCHANGED <<host, kind, io, devVars, latch, heard, sess, reg, target, todo>>

NextEnds(u) ==
  /\ pc[u] = "next"
  /\ Goto(u, "idle") /\ Left(u)
  /\ mu' = [mu EXCEPT ![u] = "no"]
  /\ IF IOKit THEN UNCHANGED broken ELSE Poison
  /\ UNCHANGED <<host, kind, writer, io, closed, freed, latch, heard, sess, reg, target, todo>>

\* Thread t closes u's session: its user, or StopExposure.
CloseCall(t, u) ==
  /\ pc[t] = "idle" /\ sess[u] = "open"
  /\ t = u => Apart(u)
  /\ t = "stop" /\ IOKit /\ ~CameraStops => pc[u] = "idle"
  /\ Goto(t, "close?")
  /\ target' = IF t = "stop" THEN u ELSE target
  /\ UNCHANGED <<host, kind, lockVars, devVars, latch, heard, sess, reg, mu, todo>>

\* A session that is gone already makes this a no-op.
CloseEnter(t, u) ==
  /\ pc[t] = "close?"
  /\ IF IOKit
       THEN /\ MayEnter /\ StreamMuFree /\ UNCHANGED <<writer, mu>>
            /\ IF sess[u] = "open"
                 THEN Goto(t, "draining") /\ Holding(t) /\ sess' = [sess EXCEPT ![u] = "draining"]
                 ELSE Goto(t, "idle") /\ UNCHANGED <<shared, sess>>
            /\ UNCHANGED reg
       ELSE /\ mu[u] = "no" /\ UNCHANGED <<shared, writer>>
            /\ IF sess[u] = "open"
                 THEN /\ Goto(t, "draining") /\ mu' = [mu EXCEPT ![u] = t]
                      /\ sess' = [sess EXCEPT ![u] = "draining"] /\ reg' = reg \ {u}
                 ELSE Goto(t, "idle") /\ UNCHANGED <<mu, sess, reg>>
  /\ UNCHANGED <<host, kind, io, devVars, latch, heard, target, todo>>

CloseEnds(t, u) ==
  /\ pc[t] = "draining"
  /\ Goto(t, "idle") /\ Left(t)
  /\ mu' = [mu EXCEPT ![u] = "no"] /\ sess' = [sess EXCEPT ![u] = "none"] /\ reg' = reg \ {u}
  /\ Poison
  /\ UNCHANGED <<host, kind, writer, io, closed, freed, latch, heard, target, todo>>

-----------------------------------------------------------------------------
(* Close of the device *)

DeviceClose ==
  /\ pc["close"] = "idle" /\ ~closed
  /\ Goto("close", "wait") /\ writer' = "waiting"
  /\ UNCHANGED <<host, kind, shared, io, devVars, latch, heard, sessVars, todo>>

FaultyDeviceLocked ==
  /\ pc["close"] = "wait"
  /\ Goto("close", "stop") /\ writer' = "held"
  /\ todo' = reg /\ closed' = IOKit
  /\ UNCHANGED <<host, kind, shared, io, broken, freed, latch, heard, sessVars>>

\* Every call in progress has returned; iokit is closed from here.
DeviceLocked ==
  /\ pc["close"] = "wait" /\ shared = {}
  /\ Goto("close", "stop") /\ writer' = "held"
  /\ todo' = reg /\ closed' = IOKit
  /\ UNCHANGED <<host, kind, shared, io, broken, freed, latch, heard, sessVars>>

\* A session left open is closed, by its own Close on usbfs and winusb.
DeviceStops(u) ==
  /\ pc["close"] = "stop" /\ u \in todo /\ mu[u] = "no"
  /\ todo' = todo \ {u}
  /\ sess' = [sess EXCEPT ![u] = "none"] /\ reg' = reg \ {u}
  /\ IF sess[u] = "open" THEN Poison ELSE UNCHANGED broken
  /\ UNCHANGED <<host, pc, kind, lockVars, closed, freed, latch, heard, mu, target>>

\* A broken device is leaked; usbfs closes its file all the same.
DeviceFrees ==
  /\ pc["close"] = "stop" /\ todo = {}
  /\ closed' = TRUE
  /\ freed' = (~broken \/ host = "usbfs")
  /\ Goto("close", "freeing")
  /\ UNCHANGED <<host, kind, lockVars, broken, latch, heard, sessVars, todo>>

DeviceClosed ==
  /\ pc["close"] = "freeing"
  /\ Goto("close", "idle") /\ writer' = "no"
  /\ UNCHANGED <<host, kind, shared, io, devVars, latch, heard, sessVars, todo>>

-----------------------------------------------------------------------------

Reader  == ReadEnter \/ ReadGate \/ Snapshot \/ QuietGate \/ ReadBroken
Control == ControlEnter \/ ControlGate \/ ControlDone
Closer  == DeviceLocked \/ (\E u \in Users : DeviceStops(u)) \/ DeviceFrees \/ DeviceClosed
User(u) ==
  \/ StartEnter(u) \/ StartEnds(u) \/ NextEnter(u) \/ NextEnds(u)
  \/ CloseEnter(u, u) \/ CloseEnds(u, u)
Stopper == CloseEnter("stop", target) \/ CloseEnds("stop", target)

Calls ==
  \/ ReadCall \/ ControlCall \/ AbortRead \/ ArmRead \/ DeviceClose
  \/ \E u \in Users : StartCall(u) \/ NextCall(u) \/ CloseCall(u, u) \/ CloseCall("stop", u)

Next ==
  \/ Calls \/ Reader \/ ReadEnds \/ Control \/ AbortBump \/ Closer
  \/ (\E u \in Users : User(u)) \/ Stopper

Spec == Init /\ [][Next]_vars

\* Every thread in a call runs on; a mutex is handed over in the end (Go's
\* starvation mode), and a session's Next and drain end by their own bounds.  A
\* frame read ends by itself only when its deadline, which covers the exposure,
\* passes: that is not assumed.
Fairness ==
  /\ SF_vars(Reader) /\ SF_vars(Control) /\ WF_vars(AbortBump) /\ SF_vars(Closer)
  /\ \A u \in Users : SF_vars(User(u))
  /\ SF_vars(Stopper)

FairSpec == Spec /\ Fairness

-----------------------------------------------------------------------------
(* Properties *)

Labels == {"idle", "enter", "gate", "snapshot", "reading", "ep0", "bump", "start", "arming",
           "next?", "next", "close?", "draining", "wait", "stop", "freeing"}

Typed ==
  /\ host \in AllHosts
  /\ pc \in [Threads -> Labels]
  /\ kind \in [{"reader", "control"} -> {"gated", "quiet", "free"}]
  /\ shared \subseteq Threads /\ writer \in {"no", "waiting", "held"}
  /\ io \in {"no", "reader", "control"}
  /\ closed \in BOOLEAN /\ broken \in BOOLEAN /\ freed \in BOOLEAN /\ latch \in BOOLEAN /\ heard \in BOOLEAN
  /\ sess \in [Users -> {"none", "arming", "open", "draining"}] /\ reg \subseteq Users
  /\ mu \in [Users -> {"no", "stop"} \cup Users] /\ target \in Users /\ todo \subseteq Users

TypeOK ==
  /\ Typed
  \* closeMu and ioMu are held by the calls that are inside, and by no other
  /\ shared = {t \in Threads :
                 \/ pc[t] \in {"gate", "snapshot", "reading", "ep0", "arming"}
                 \/ IOKit /\ pc[t] \in {"next", "draining"}}
  /\ io # "no" => pc[io] \in {"snapshot", "reading", "ep0"} /\ kind[io] # "free"

InHandle(t) == pc[t] \in {"snapshot", "reading", "ep0", "arming", "next"}
Drains(t)   == pc[t] = "draining"

\* Close frees the handle under no transfer, no open session, and no drain of
\* iokit's, whose session Close holds closeMu.  (That of the others does not: see
\* DrainKeepsHandle.)
HandleHeld ==
  freed =>
    /\ \A t \in Threads : ~InHandle(t) /\ (IOKit => ~Drains(t))
    /\ \A u \in Users : sess[u] # "open"

\* transport_windows.go of streams: "Close stops them first so no overlapped read
\* is left with the kernel against a freed handle"; transport_linux.go says the
\* same.  A session's own Close leaves the registry before it drains.
DrainKeepsHandle == freed => \A t \in Threads : ~Drains(t)

\* Two windows on one pipe would each take bytes of the other's frames.
OneSession == IOKit => Cardinality({u \in Users : sess[u] # "none"}) <= 1

\* No EP0 transfer that is not an ST4 edge or a reset lands in a gated readout.
GateHolds ==
  ~(/\ pc["reader"] \in {"snapshot", "reading"}
    /\ kind["reader"] = "gated" \/ (kind["reader"] = "quiet" /\ io = "reader")
    /\ pc["control"] = "ep0" /\ kind["control"] = "gated")

InSession(u) == {t \in Threads : (t = u /\ pc[u] = "next") \/ (Drains(t) /\ (t = u \/ (t = "stop" /\ target = u)))}

\* Next does not run on a session that a Close is draining and about to free.
NextAlone == \A u \in Users : Cardinality(InSession(u)) <= 1

\* Calls that must not overlap do not: a gated control transfer and a gated
\* readout, a Next and a Close of its session; and the locks are held by the calls
\* that are inside and by no other.
CallsExclude == TypeOK /\ GateHolds /\ NextAlone

\* transport_darwin.go of darwinStream: "The session is single-consumer: Next,
\* NextZC, Release and Close must not race each other."  StopExposure closes the
\* session in the middle of a ReadFrame.
SingleConsumer == IOKit => NextAlone

\* transport.go of ReadAborter: "AbortRead breaks the read in flight and fails
\* later reads until ArmRead."  One that is past the latch and has yet to take its
\* snapshot, for a whole control transfer if it waits for ioMu, does neither.
AbortHeard == IOKit /\ pc["reader"] = "reading" /\ latch /\ pc["abort"] = "idle" => heard

\* AbortRead returns although Close waits for the very read it is to break.
AbortReturns == pc["abort"] = "bump" ~> pc["abort"] = "idle"

\* A read that heard its abort returns, whatever ArmRead does afterwards.
AbortBreaks == (pc["reader"] = "reading" /\ IOKit /\ heard) ~> pc["reader"] # "reading"

Deaf == pc["reader"] = "reading" /\ ~(IF IOKit THEN heard ELSE latch)

\* No call waits for ever, on a lock, on another call or on Close, other than for
\* a frame read that nothing has aborted.
CallsReturn == \A t \in Threads : pc[t] # "idle" ~> (pc[t] = "idle" \/ Deaf)

\* Nobody waits for ever: an abort gets past the Close that waits for the read it
\* breaks, that read ends, and so does everything that waited for it.
CallsEnd == AbortReturns /\ AbortBreaks /\ CallsReturn

=============================================================================
