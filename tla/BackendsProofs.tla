--------------------------- MODULE BackendsProofs ---------------------------
(***************************************************************************)
(* What Backends promises for every host, any number of sessions and any   *)
(* outcome of a drain: the handle is freed under nobody.                   *)
(***************************************************************************)
EXTENDS Backends, FiniteSetTheorems, TLAPS

USE BackendsAssumption

-----------------------------------------------------------------------------
(* The invariant *)

\* Each service is where its own calls take it.
Placed ==
  /\ pc["reader"] \in {"idle", "enter", "gate", "snapshot", "reading"}
  /\ pc["control"] \in {"idle", "enter", "gate", "ep0"}
  /\ pc["abort"] \in {"idle", "bump"}
  /\ pc["close"] \in {"idle", "wait", "stop", "freeing"}
  /\ pc["stop"] \in {"idle", "close?", "draining"}
  /\ \A u \in Users : pc[u] \in {"idle", "start", "arming", "next?", "next", "close?", "draining"}

\* The calls that hold closeMu shared.
Inside(t) ==
  \/ pc[t] \in {"gate", "snapshot", "reading", "ep0", "arming"}
  \/ IOKit /\ pc[t] \in {"next", "draining"}

SharedHeld == \A t \in Threads : t \in shared <=> Inside(t)

\* The calls that hold ioMu.
GateHeld ==
  /\ io # "no" => pc[io] \in {"snapshot", "reading", "ep0"} /\ kind[io] # "free"
  /\ \A t \in {"reader", "control"} :
       /\ pc[t] = "gate" => kind[t] = "gated"
       /\ pc[t] \in {"snapshot", "reading", "ep0"} /\ kind[t] = "gated" => io = t

\* Close holds closeMu alone while it stops sessions and frees the handle, and
\* a device that is closed is closed for good.
WriterHeld ==
  /\ writer = "waiting" <=> pc["close"] = "wait"
  /\ writer = "held" <=> pc["close"] \in {"stop", "freeing"}
  /\ writer = "held" => shared = {}

\* Once closed, and Close past its sessions, nobody is inside and none is left.
ClosedForGood ==
  /\ freed => closed /\ pc["close"] \in {"freeing", "idle"}
  /\ pc["close"] = "wait" => ~closed
  /\ closed /\ pc["close"] # "stop" => reg = {} /\ shared = {}
  /\ pc["close"] = "stop" => reg \subseteq todo

\* An open session is registered; where a Next does not hold closeMu it holds the
\* session's lock, and so does a drain.
SessionsHeld ==
  /\ \A u \in Users : sess[u] = "open" => u \in reg
  /\ ~IOKit => /\ \A u \in Users : pc[u] = "next" => sess[u] = "open" /\ mu[u] = u
               /\ \A u \in Users : pc[u] = "draining" => mu[u] = u
               /\ pc["stop"] = "draining" => mu[target] = "stop"

\* The caller keeps its own Next and Close of an IOKit session away from the stop.
StopApart ==
  IOKit /\ ~CameraStops /\ pc["stop"] # "idle" => pc[target] \in {"idle", "start", "arming"}

HandleInv ==
  /\ Typed /\ Placed /\ SharedHeld /\ GateHeld /\ WriterHeld /\ ClosedForGood /\ SessionsHeld
  /\ StopApart

\* It holds of a device that was just opened.
LEMMA InitHandle == Init => HandleInv
<1> SUFFICES ASSUME Init PROVE HandleInv
  OBVIOUS
<1> QED
  BY DEF Init, HandleInv, Typed, Placed, SharedHeld, Inside, GateHeld, WriterHeld, ClosedForGood,
         SessionsHeld, StopApart, Threads, Services, Labels, AllHosts, IOKit

\* The two ways out of an entry.
Quits(t)     == Goto(t, "idle") /\ UNCHANGED shared
Enters(t, l) == ~closed /\ writer = "no" /\ Goto(t, l) /\ shared' = shared \cup {t}

\* What no entry touches.
Aside == <<host, kind, writer, io, closed, broken, freed, latch, heard, target, todo>>

\* enter does one or the other.
LEMMA EnterOrQuit ==
  ASSUME NEW t, NEW l, Enter(t, l)
  PROVE  (Quits(t) \/ Enters(t, l)) /\ UNCHANGED writer
BY DEF Enter, MayEnter, Refused, Holding, Quits, Enters

\* A call that its entry refuses leaves everything as it was.
LEMMA QuitKeeps ==
  ASSUME HandleInv, NEW t \in Threads, pc[t] \in {"enter", "start", "next?", "close?"}, Quits(t),
         UNCHANGED <<Aside, sess, reg, mu>>
  PROVE  HandleInv'
<1>1. Typed'
  BY HandleInv DEF HandleInv, Typed, Labels, Goto, Quits, Aside
<1>2. Placed'
  BY HandleInv DEF HandleInv, Placed, Typed, Threads, Services, Goto, Quits, Aside
<1>3. SharedHeld'
  BY HandleInv DEF HandleInv, SharedHeld, Inside, Typed, IOKit, Threads, Services, Goto, Quits,
     Aside
<1>4. GateHeld'
  BY HandleInv DEF HandleInv, GateHeld, Typed, Placed, Threads, Services, Goto, Quits, Aside
<1>5. WriterHeld'
  BY HandleInv DEF HandleInv, WriterHeld, Typed, Placed, Threads, Services, Goto, Quits, Aside
<1>6. ClosedForGood'
  BY HandleInv DEF HandleInv, ClosedForGood, WriterHeld, Typed, Placed, SharedHeld, Inside, Threads,
     Services, Goto, Quits, Aside
<1>7. SessionsHeld'
  BY HandleInv DEF HandleInv, SessionsHeld, Typed, Placed, IOKit, Threads, Services, Goto, Quits,
     Aside
<1>8. StopApart'
  BY HandleInv DEF HandleInv, StopApart, Typed, Placed, IOKit, Threads, Services, Goto, Quits, Aside
<1> QED BY <1>1, <1>2, <1>3, <1>4, <1>5, <1>6, <1>7, <1>8 DEF HandleInv

\* A call that gets in holds closeMu.
LEMMA EnterKeeps ==
  ASSUME HandleInv, NEW t \in Threads, NEW l \in Labels, pc[t] \in {"enter", "start", "next?", "close?"},
         Enters(t, l), Placed',
         l \in {"gate", "snapshot", "ep0", "arming"} \/ (IOKit /\ l \in {"next", "draining"}),
         l = "gate" => kind[t] = "gated", l \in {"snapshot", "ep0"} => kind[t] # "gated",
         pc[t] = "start" => l = "arming",
         UNCHANGED <<Aside, mu>>, sess' \in [Users -> {"none", "arming", "open", "draining"}],
         reg' \subseteq Users, reg \subseteq reg',
         \A u \in Users : sess'[u] # sess[u] => u = t \/ (t = "stop" /\ u = target),
         \A u \in Users : sess'[u] = "open" => sess[u] = "open"
  PROVE  HandleInv'
<1>1. Typed'
  BY HandleInv DEF HandleInv, Typed, Labels, Goto, Enters, Aside
<1>3. SharedHeld'
  BY HandleInv DEF HandleInv, SharedHeld, Inside, Typed, IOKit, Threads, Services, Goto, Enters,
     Aside
<1>4. GateHeld'
  BY HandleInv DEF HandleInv, GateHeld, Typed, Placed, Threads, Services, Goto, Enters, Aside
<1>5. WriterHeld'
  BY HandleInv DEF HandleInv, WriterHeld, Typed, Placed, Threads, Services, Goto, Enters, Aside
<1>6. ClosedForGood'
  BY HandleInv DEF HandleInv, ClosedForGood, WriterHeld, Typed, Placed, SharedHeld, Inside, Threads,
     Services, Goto, Enters, Aside
<1>7. SessionsHeld'
  BY HandleInv DEF HandleInv, SessionsHeld, Typed, Placed, IOKit, Threads, Services, Goto, Enters,
     Aside
<1>8. StopApart'
  BY HandleInv DEF HandleInv, StopApart, Typed, Placed, IOKit, Threads, Services, Goto, Enters,
     Aside
<1> QED BY <1>1, <1>3, <1>4, <1>5, <1>6, <1>7, <1>8 DEF HandleInv

\* Every step of every thread keeps it.
LEMMA NextHandle ==
  ASSUME HandleInv, [Next]_vars
  PROVE  HandleInv'
<1> USE DEF lockVars, devVars, sessVars
<1>1. CASE ReadCall
  BY <1>1, HandleInv DEF ReadCall, Call, HandleInv, Typed, Labels, Placed, SharedHeld, Inside,
     GateHeld, WriterHeld, ClosedForGood, SessionsHeld, StopApart, IOKit, Threads, Services, Goto
<1>2. CASE ControlCall
  BY <1>2, HandleInv DEF ControlCall, Call, HandleInv, Typed, Labels, Placed, SharedHeld, Inside,
     GateHeld, WriterHeld, ClosedForGood, SessionsHeld, StopApart, IOKit, Threads, Services, Goto
<1>3. CASE ArmRead
  <2>1. Typed'
    BY <1>3, HandleInv DEF HandleInv, Typed, Labels, Goto, ArmRead
  <2>2. Placed'
    BY <1>3, HandleInv DEF HandleInv, Placed, Typed, Threads, Services, Goto, ArmRead
  <2>3. SharedHeld'
    BY <1>3, HandleInv DEF HandleInv, SharedHeld, Inside, Typed, IOKit, Threads, Services, Goto,
       ArmRead
  <2>4. GateHeld'
    BY <1>3, HandleInv DEF HandleInv, GateHeld, Typed, Placed, Threads, Services, Goto, ArmRead
  <2>5. WriterHeld'
    BY <1>3, HandleInv DEF HandleInv, WriterHeld, Typed, Placed, Threads, Services, Goto, ArmRead
  <2>6. ClosedForGood'
    BY <1>3, HandleInv DEF HandleInv, ClosedForGood, WriterHeld, Typed, Placed, SharedHeld, Inside,
       Threads, Services, Goto, ArmRead
  <2>7. SessionsHeld'
    BY <1>3, HandleInv DEF HandleInv, SessionsHeld, Typed, Placed, IOKit, Threads, Services, Goto,
       ArmRead
  <2>8. StopApart'
    BY <1>3, HandleInv DEF HandleInv, StopApart, Typed, Placed, IOKit, Threads, Services, Goto,
       ArmRead
  <2> QED BY <2>1, <2>2, <2>3, <2>4, <2>5, <2>6, <2>7, <2>8 DEF HandleInv
<1>4. CASE DeviceClose
  BY <1>4, HandleInv DEF DeviceClose, HandleInv, Typed, Labels, Placed, SharedHeld, Inside,
     GateHeld, WriterHeld, ClosedForGood, SessionsHeld, StopApart, IOKit, Threads, Services, Goto
<1>5. ASSUME NEW u \in Users, StartCall(u) PROVE HandleInv'
  BY <1>5, HandleInv DEF StartCall, Call, HandleInv, Typed, Labels, Placed, SharedHeld, Inside,
     GateHeld, WriterHeld, ClosedForGood, SessionsHeld, StopApart, IOKit, Threads, Services, Goto
<1>6. ASSUME NEW u \in Users, NextCall(u) PROVE HandleInv'
  BY <1>6, HandleInv DEF NextCall, Apart, HandleInv, Typed, Labels, Placed, SharedHeld, Inside,
     GateHeld, WriterHeld, ClosedForGood, SessionsHeld, StopApart, IOKit, Threads, Services, Goto
<1>7. ASSUME NEW u \in Users, NEW t \in {u, "stop"}, CloseCall(t, u) PROVE HandleInv'
  BY <1>7, HandleInv DEF CloseCall, Apart, HandleInv, Typed, Labels, Placed, SharedHeld, Inside,
     GateHeld, WriterHeld, ClosedForGood, SessionsHeld, StopApart, IOKit, Threads, Services, Goto
<1>8. CASE QuietGate
  BY <1>8, HandleInv DEF QuietGate, HandleInv, Typed, Labels, Placed, SharedHeld, Inside, GateHeld,
     WriterHeld, ClosedForGood, SessionsHeld, StopApart, IOKit, Threads, Services, Goto
<1>9. CASE Snapshot
  <2>1. Typed'
    BY <1>9, HandleInv DEF HandleInv, Typed, Labels, Goto, Snapshot
  <2>2. Placed'
    BY <1>9, HandleInv DEF HandleInv, Placed, Typed, Threads, Services, Goto, Snapshot
  <2>3. SharedHeld'
    BY <1>9, HandleInv DEF HandleInv, SharedHeld, Inside, Typed, IOKit, Threads, Services, Goto,
       Snapshot
  <2>4. GateHeld'
    BY <1>9, HandleInv DEF HandleInv, GateHeld, Typed, Placed, Threads, Services, Goto, Snapshot
  <2>5. WriterHeld'
    BY <1>9, HandleInv DEF HandleInv, WriterHeld, Typed, Placed, Threads, Services, Goto, Snapshot
  <2>6. ClosedForGood'
    BY <1>9, HandleInv DEF HandleInv, ClosedForGood, WriterHeld, Typed, Placed, SharedHeld, Inside,
       Threads, Services, Goto, Snapshot
  <2>7. SessionsHeld'
    BY <1>9, HandleInv DEF HandleInv, SessionsHeld, Typed, Placed, IOKit, Threads, Services, Goto,
       Snapshot
  <2>8. StopApart'
    BY <1>9, HandleInv DEF HandleInv, StopApart, Typed, Placed, IOKit, Threads, Services, Goto,
       Snapshot
  <2> QED BY <2>1, <2>2, <2>3, <2>4, <2>5, <2>6, <2>7, <2>8 DEF HandleInv
<1>10. CASE ControlDone
  BY <1>10, HandleInv DEF ControlDone, Left, HandleInv, Typed, Labels, Placed, SharedHeld, Inside,
     GateHeld, WriterHeld, ClosedForGood, SessionsHeld, StopApart, IOKit, Threads, Services, Goto
<1>11. CASE AbortBump
  BY <1>11, HandleInv DEF AbortBump, HandleInv, Typed, Labels, Placed, SharedHeld, Inside, GateHeld,
     WriterHeld, ClosedForGood, SessionsHeld, StopApart, IOKit, Threads, Services, Goto
<1>12. CASE DeviceLocked
  BY <1>12, HandleInv DEF DeviceLocked, HandleInv, Typed, Labels, Placed, SharedHeld, Inside,
     GateHeld, WriterHeld, ClosedForGood, SessionsHeld, StopApart, IOKit, Threads, Services, Goto
<1>13. ASSUME NEW u \in Users, DeviceStops(u) PROVE HandleInv'
  <2>1. Typed'
    BY <1>13, HandleInv DEF HandleInv, Typed, Labels, Goto, DeviceStops, Poison
  <2>2. Placed'
    BY <1>13, HandleInv DEF HandleInv, Placed, Typed, Threads, Services, Goto, DeviceStops, Poison
  <2>3. SharedHeld'
    BY <1>13, HandleInv DEF HandleInv, SharedHeld, Inside, Typed, IOKit, Threads, Services, Goto,
       DeviceStops, Poison
  <2>4. GateHeld'
    BY <1>13, HandleInv DEF HandleInv, GateHeld, Typed, Placed, Threads, Services, Goto,
       DeviceStops, Poison
  <2>5. WriterHeld'
    BY <1>13, HandleInv DEF HandleInv, WriterHeld, Typed, Placed, Threads, Services, Goto,
       DeviceStops, Poison
  <2>6. ClosedForGood'
    BY <1>13, HandleInv DEF HandleInv, ClosedForGood, WriterHeld, Typed, Placed, SharedHeld, Inside,
       Threads, Services, Goto, DeviceStops, Poison
  <2>7. SessionsHeld'
    BY <1>13, HandleInv DEF HandleInv, SessionsHeld, Typed, Placed, IOKit, Threads, Services, Goto,
       DeviceStops, Poison
  <2>8. StopApart'
    BY <1>13, HandleInv DEF HandleInv, StopApart, Typed, Placed, IOKit, Threads, Services, Goto,
       DeviceStops, Poison
  <2> QED BY <2>1, <2>2, <2>3, <2>4, <2>5, <2>6, <2>7, <2>8 DEF HandleInv
<1>14. CASE DeviceFrees
  BY <1>14, HandleInv DEF DeviceFrees, HandleInv, Typed, Labels, Placed, SharedHeld, Inside,
     GateHeld, WriterHeld, ClosedForGood, SessionsHeld, StopApart, IOKit, Threads, Services, Goto
<1>15. CASE DeviceClosed
  BY <1>15, HandleInv DEF DeviceClosed, HandleInv, Typed, Labels, Placed, SharedHeld, Inside,
     GateHeld, WriterHeld, ClosedForGood, SessionsHeld, StopApart, IOKit, Threads, Services, Goto
<1>16. CASE ReadGate
  <2>1. Typed'
    BY <1>16, HandleInv DEF HandleInv, Typed, Labels, Goto, ReadGate, TakeIo
  <2>2. Placed'
    BY <1>16, HandleInv DEF HandleInv, Placed, Typed, Threads, Services, Goto, ReadGate, TakeIo
  <2>3. SharedHeld'
    BY <1>16, HandleInv DEF HandleInv, SharedHeld, Inside, Typed, IOKit, Threads, Services, Goto,
       ReadGate, TakeIo
  <2>4. GateHeld'
    BY <1>16, HandleInv DEF HandleInv, GateHeld, Typed, Placed, Threads, Services, Goto, ReadGate,
       TakeIo
  <2>5. WriterHeld'
    BY <1>16, HandleInv DEF HandleInv, WriterHeld, Typed, Placed, Threads, Services, Goto, ReadGate,
       TakeIo
  <2>6. ClosedForGood'
    BY <1>16, HandleInv DEF HandleInv, ClosedForGood, WriterHeld, Typed, Placed, SharedHeld, Inside,
       Threads, Services, Goto, ReadGate, TakeIo
  <2>7. SessionsHeld'
    BY <1>16, HandleInv DEF HandleInv, SessionsHeld, Typed, Placed, IOKit, Threads, Services, Goto,
       ReadGate, TakeIo
  <2>8. StopApart'
    BY <1>16, HandleInv DEF HandleInv, StopApart, Typed, Placed, IOKit, Threads, Services, Goto,
       ReadGate, TakeIo
  <2> QED BY <2>1, <2>2, <2>3, <2>4, <2>5, <2>6, <2>7, <2>8 DEF HandleInv
<1>17. CASE ControlGate
  <2>1. Typed'
    BY <1>17, HandleInv DEF HandleInv, Typed, Labels, Goto, ControlGate, TakeIo
  <2>2. Placed'
    BY <1>17, HandleInv DEF HandleInv, Placed, Typed, Threads, Services, Goto, ControlGate, TakeIo
  <2>3. SharedHeld'
    BY <1>17, HandleInv DEF HandleInv, SharedHeld, Inside, Typed, IOKit, Threads, Services, Goto,
       ControlGate, TakeIo
  <2>4. GateHeld'
    BY <1>17, HandleInv DEF HandleInv, GateHeld, Typed, Placed, Threads, Services, Goto,
       ControlGate, TakeIo
  <2>5. WriterHeld'
    BY <1>17, HandleInv DEF HandleInv, WriterHeld, Typed, Placed, Threads, Services, Goto,
       ControlGate, TakeIo
  <2>6. ClosedForGood'
    BY <1>17, HandleInv DEF HandleInv, ClosedForGood, WriterHeld, Typed, Placed, SharedHeld, Inside,
       Threads, Services, Goto, ControlGate, TakeIo
  <2>7. SessionsHeld'
    BY <1>17, HandleInv DEF HandleInv, SessionsHeld, Typed, Placed, IOKit, Threads, Services, Goto,
       ControlGate, TakeIo
  <2>8. StopApart'
    BY <1>17, HandleInv DEF HandleInv, StopApart, Typed, Placed, IOKit, Threads, Services, Goto,
       ControlGate, TakeIo
  <2> QED BY <2>1, <2>2, <2>3, <2>4, <2>5, <2>6, <2>7, <2>8 DEF HandleInv
<1>18. CASE UNCHANGED vars
  BY <1>18, HandleInv DEF vars, HandleInv, Typed, Labels, Placed, SharedHeld, Inside, GateHeld,
     WriterHeld, ClosedForGood, SessionsHeld, StopApart, IOKit, Threads, Services, Goto
<1>19. CASE AbortRead
  <2>1. CASE IOKit
    <3>1. Typed'
      BY <1>19, <2>1, HandleInv DEF HandleInv, Typed, Labels, Goto, AbortRead
    <3>2. Placed'
      BY <1>19, <2>1, HandleInv, ZenonT(60) DEF HandleInv, Placed, Typed, Threads, Services, Goto, AbortRead
    <3>3. SharedHeld'
      BY <1>19, <2>1, HandleInv DEF HandleInv, SharedHeld, Inside, Typed, IOKit, Threads, Services,
         Goto, AbortRead
    <3>4. GateHeld'
      BY <1>19, <2>1, HandleInv DEF HandleInv, GateHeld, Typed, Placed, Threads, Services, Goto,
         AbortRead
    <3>5. WriterHeld'
      BY <1>19, <2>1, HandleInv DEF HandleInv, WriterHeld, Typed, Placed, Threads, Services, Goto,
         AbortRead
    <3>6. ClosedForGood'
      BY <1>19, <2>1, HandleInv DEF HandleInv, ClosedForGood, WriterHeld, Typed, Placed, SharedHeld,
         Inside, Threads, Services, Goto, AbortRead
    <3>7. SessionsHeld'
      BY <1>19, <2>1, HandleInv DEF HandleInv, SessionsHeld, Typed, Placed, IOKit, Threads,
         Services, Goto, AbortRead
    <3>8. StopApart'
      BY <1>19, <2>1, HandleInv DEF HandleInv, StopApart, Typed, Placed, IOKit, Threads, Services,
         Goto, AbortRead
    <3> QED BY <3>1, <3>2, <3>3, <3>4, <3>5, <3>6, <3>7, <3>8 DEF HandleInv
  <2>2. CASE ~IOKit
    <3>1. Typed'
      BY <1>19, <2>2, HandleInv DEF HandleInv, Typed, Labels, Goto, AbortRead
    <3>2. Placed'
      BY <1>19, <2>2, HandleInv DEF HandleInv, Placed, Typed, Threads, Services, Goto, AbortRead
    <3>3. SharedHeld'
      BY <1>19, <2>2, HandleInv DEF HandleInv, SharedHeld, Inside, Typed, IOKit, Threads, Services,
         Goto, AbortRead
    <3>4. GateHeld'
      BY <1>19, <2>2, HandleInv DEF HandleInv, GateHeld, Typed, Placed, Threads, Services, Goto,
         AbortRead
    <3>5. WriterHeld'
      BY <1>19, <2>2, HandleInv DEF HandleInv, WriterHeld, Typed, Placed, Threads, Services, Goto,
         AbortRead
    <3>6. ClosedForGood'
      BY <1>19, <2>2, HandleInv DEF HandleInv, ClosedForGood, WriterHeld, Typed, Placed, SharedHeld,
         Inside, Threads, Services, Goto, AbortRead
    <3>7. SessionsHeld'
      BY <1>19, <2>2, HandleInv DEF HandleInv, SessionsHeld, Typed, Placed, IOKit, Threads,
         Services, Goto, AbortRead
    <3>8. StopApart'
      BY <1>19, <2>2, HandleInv DEF HandleInv, StopApart, Typed, Placed, IOKit, Threads, Services,
         Goto, AbortRead
    <3> QED BY <3>1, <3>2, <3>3, <3>4, <3>5, <3>6, <3>7, <3>8 DEF HandleInv
  <2> QED BY <2>1, <2>2
<1>20. CASE ReadEnter
  <2>1. /\ UNCHANGED <<Aside, sess, reg, mu>> /\ pc["reader"] = "enter"
        /\ \/ Quits("reader")
           \/ Enters("reader", IF kind["reader"] = "gated" THEN "gate" ELSE "snapshot")
    <3>1. CASE latch /\ ~Refused
      BY <1>20, <3>1 DEF ReadEnter, Quits, Aside
    <3>2. CASE ~(latch /\ ~Refused)
      <4>1. Enter("reader", IF kind["reader"] = "gated" THEN "gate" ELSE "snapshot")
        BY <1>20, <3>2 DEF ReadEnter
      <4> QED BY <1>20, <4>1, EnterOrQuit DEF ReadEnter, Aside
    <3> QED BY <3>1, <3>2
  <2>2. CASE Quits("reader")
    BY <2>1, <2>2, QuitKeeps, HandleInv DEF Threads, Services
  <2>3. CASE kind["reader"] = "gated" /\ Enters("reader", "gate")
    <3>1. Placed'
      BY <2>3, HandleInv DEF HandleInv, Placed, Typed, Enters, Goto, Threads, Services
    <3> QED BY <2>1, <2>3, <3>1, EnterKeeps, HandleInv DEF HandleInv, Typed, Threads, Services, Labels
  <2>4. CASE kind["reader"] # "gated" /\ Enters("reader", "snapshot")
    <3>1. Placed'
      BY <2>4, HandleInv DEF HandleInv, Placed, Typed, Enters, Goto, Threads, Services
    <3> QED BY <2>1, <2>4, <3>1, EnterKeeps, HandleInv DEF HandleInv, Typed, Threads, Services, Labels
  <2> QED BY <2>1, <2>2, <2>3, <2>4
<1>21. CASE ControlEnter
  <2>1. /\ UNCHANGED <<Aside, sess, reg, mu>> /\ pc["control"] = "enter"
        /\ \/ Quits("control")
           \/ Enters("control", IF kind["control"] = "gated" THEN "gate" ELSE "ep0")
    BY <1>21, EnterOrQuit DEF ControlEnter, Aside
  <2>2. CASE Quits("control")
    BY <2>1, <2>2, QuitKeeps, HandleInv DEF Threads, Services
  <2>3. CASE kind["control"] = "gated" /\ Enters("control", "gate")
    <3>1. Placed'
      BY <2>3, HandleInv DEF HandleInv, Placed, Typed, Enters, Goto, Threads, Services
    <3> QED BY <2>1, <2>3, <3>1, EnterKeeps, HandleInv DEF HandleInv, Typed, Threads, Services, Labels
  <2>4. CASE kind["control"] # "gated" /\ Enters("control", "ep0")
    <3>1. Placed'
      BY <2>4, HandleInv DEF HandleInv, Placed, Typed, Enters, Goto, Threads, Services
    <3> QED BY <2>1, <2>4, <3>1, EnterKeeps, HandleInv DEF HandleInv, Typed, Threads, Services, Labels
  <2> QED BY <2>1, <2>2, <2>3, <2>4
<1>22. ASSUME NEW u \in Users, StartEnter(u) PROVE HandleInv'
  <2>1. /\ UNCHANGED <<Aside, mu>> /\ pc[u] = "start"
        /\ \/ Quits(u) /\ UNCHANGED <<sess, reg>>
           \/ Enters(u, "arming") /\ sess' = [sess EXCEPT ![u] = "arming"] /\ reg' \in {reg, reg \cup {u}}
    BY <1>22 DEF StartEnter, Enter, Quits, Enters, MayEnter, Refused, Holding, Aside
  <2>2. CASE Quits(u) /\ UNCHANGED <<sess, reg>>
    BY <2>1, <2>2, QuitKeeps, HandleInv DEF Threads
  <2>3. CASE Enters(u, "arming") /\ sess' = [sess EXCEPT ![u] = "arming"] /\ reg' \in {reg, reg \cup {u}}
    <3>1. Placed'
      BY <2>3, HandleInv DEF HandleInv, Placed, Typed, Enters, Goto, Threads, Services
    <3> QED BY <2>1, <2>3, <3>1, EnterKeeps, HandleInv DEF HandleInv, Typed, Threads, Labels
  <2> QED BY <2>1, <2>2, <2>3
<1>23. ASSUME NEW u \in Users, StartEnds(u) PROVE HandleInv'
  <2> DEFINE Rest == <<host, kind, writer, io, closed, broken, freed, latch, heard, mu, target, todo>>
  <2>1. pc[u] = "arming" /\ Goto(u, "idle") /\ shared' = shared \ {u} /\ UNCHANGED Rest
    BY <1>23 DEF StartEnds, Left
  <2>2. CASE sess' = [sess EXCEPT ![u] = "open"] /\ reg' = reg \cup {u}
    <3>1. Typed'
      BY <2>1, <2>2, HandleInv DEF HandleInv, Typed, Labels, Goto
    <3>2. Placed'
      BY <2>1, <2>2, HandleInv DEF HandleInv, Placed, Typed, Threads, Services, Goto
    <3>3. SharedHeld'
      BY <2>1, <2>2, HandleInv DEF HandleInv, SharedHeld, Inside, Typed, IOKit, Threads, Services,
         Goto
    <3>4. GateHeld'
      BY <2>1, <2>2, HandleInv DEF HandleInv, GateHeld, Typed, Placed, Threads, Services, Goto
    <3>5. WriterHeld'
      BY <2>1, <2>2, HandleInv DEF HandleInv, WriterHeld, Typed, Placed, Threads, Services, Goto
    <3>6. ClosedForGood'
      BY <2>1, <2>2, HandleInv DEF HandleInv, ClosedForGood, WriterHeld, Typed, Placed, SharedHeld,
         Inside, Threads, Services, Goto
    <3>7. SessionsHeld'
      BY <2>1, <2>2, HandleInv DEF HandleInv, SessionsHeld, Typed, Placed, IOKit, Threads, Services,
         Goto
    <3>8. StopApart'
      BY <2>1, <2>2, HandleInv DEF HandleInv, StopApart, Typed, Placed, IOKit, Threads, Services,
         Goto
    <3> QED BY <3>1, <3>2, <3>3, <3>4, <3>5, <3>6, <3>7, <3>8 DEF HandleInv
  <2>3. CASE sess' = [sess EXCEPT ![u] = "none"] /\ reg' = reg \ {u}
    <3>1. Typed'
      BY <2>1, <2>3, HandleInv DEF HandleInv, Typed, Labels, Goto
    <3>2. Placed'
      BY <2>1, <2>3, HandleInv DEF HandleInv, Placed, Typed, Threads, Services, Goto
    <3>3. SharedHeld'
      BY <2>1, <2>3, HandleInv DEF HandleInv, SharedHeld, Inside, Typed, IOKit, Threads, Services,
         Goto
    <3>4. GateHeld'
      BY <2>1, <2>3, HandleInv DEF HandleInv, GateHeld, Typed, Placed, Threads, Services, Goto
    <3>5. WriterHeld'
      BY <2>1, <2>3, HandleInv DEF HandleInv, WriterHeld, Typed, Placed, Threads, Services, Goto
    <3>6. ClosedForGood'
      BY <2>1, <2>3, HandleInv DEF HandleInv, ClosedForGood, WriterHeld, Typed, Placed, SharedHeld,
         Inside, Threads, Services, Goto
    <3>7. SessionsHeld'
      BY <2>1, <2>3, HandleInv DEF HandleInv, SessionsHeld, Typed, Placed, IOKit, Threads, Services,
         Goto
    <3>8. StopApart'
      BY <2>1, <2>3, HandleInv DEF HandleInv, StopApart, Typed, Placed, IOKit, Threads, Services,
         Goto
    <3> QED BY <3>1, <3>2, <3>3, <3>4, <3>5, <3>6, <3>7, <3>8 DEF HandleInv
  <2> QED BY <1>23, <2>2, <2>3 DEF StartEnds
<1>24. ASSUME NEW u \in Users, NextEnter(u) PROVE HandleInv'
  <2>1. /\ UNCHANGED <<Aside, sess, reg>> /\ pc[u] = "next?"
        /\ \/ Quits(u) /\ UNCHANGED mu
           \/ IOKit /\ Enters(u, "next") /\ UNCHANGED mu
           \/ /\ ~IOKit /\ sess[u] = "open" /\ Goto(u, "next") /\ UNCHANGED shared
              /\ mu[u] = "no" /\ mu' = [mu EXCEPT ![u] = u]
    BY <1>24 DEF NextEnter, Enter, Quits, Enters, MayEnter, Refused, Holding, Aside
  <2>2. CASE Quits(u) /\ UNCHANGED mu
    BY <2>1, <2>2, QuitKeeps, HandleInv DEF Threads
  <2>3. CASE IOKit /\ Enters(u, "next") /\ UNCHANGED mu
    <3>1. Placed'
      BY <2>3, HandleInv DEF HandleInv, Placed, Typed, Enters, Goto, Threads, Services
    <3> QED BY <2>1, <2>3, <3>1, EnterKeeps, HandleInv DEF HandleInv, Typed, Threads, Labels
  <2>4. CASE /\ ~IOKit /\ sess[u] = "open" /\ Goto(u, "next") /\ UNCHANGED shared
             /\ mu[u] = "no" /\ mu' = [mu EXCEPT ![u] = u]
    <3>1. Typed'
      BY <2>1, <2>4, HandleInv DEF HandleInv, Typed, Labels, Goto, Aside
    <3>2. Placed'
      BY <2>1, <2>4, HandleInv DEF HandleInv, Placed, Typed, Threads, Services, Goto, Aside
    <3>3. SharedHeld'
      BY <2>1, <2>4, HandleInv DEF HandleInv, SharedHeld, Inside, Typed, IOKit, Threads, Services,
         Goto, Aside
    <3>4. GateHeld'
      BY <2>1, <2>4, HandleInv DEF HandleInv, GateHeld, Typed, Placed, Threads, Services, Goto,
         Aside
    <3>5. WriterHeld'
      BY <2>1, <2>4, HandleInv DEF HandleInv, WriterHeld, Typed, Placed, Threads, Services, Goto,
         Aside
    <3>6. ClosedForGood'
      BY <2>1, <2>4, HandleInv DEF HandleInv, ClosedForGood, WriterHeld, Typed, Placed, SharedHeld,
         Inside, Threads, Services, Goto, Aside
    <3>7. SessionsHeld'
      BY <2>1, <2>4, HandleInv DEF HandleInv, SessionsHeld, Typed, Placed, IOKit, Threads, Services,
         Goto, Aside
    <3>8. StopApart'
      BY <2>1, <2>4, HandleInv DEF HandleInv, StopApart, Typed, Placed, IOKit, Threads, Services,
         Goto, Aside
    <3> QED BY <3>1, <3>2, <3>3, <3>4, <3>5, <3>6, <3>7, <3>8 DEF HandleInv
  <2> QED BY <2>1, <2>2, <2>3, <2>4
<1>25. ASSUME NEW u \in Users, NextEnds(u) PROVE HandleInv'
  <2>1. /\ pc[u] = "next" /\ Goto(u, "idle") /\ shared' = shared \ {u} /\ mu' = [mu EXCEPT ![u] = "no"]
        /\ UNCHANGED <<host, kind, writer, io, closed, freed, latch, heard, sess, reg, target, todo>>
    BY <1>25 DEF NextEnds, Left
  <2>2. broken' \in BOOLEAN
    BY <1>25, HandleInv DEF NextEnds, Poison, HandleInv, Typed
  <2>3. Typed'
    BY <2>1, <2>2, HandleInv DEF HandleInv, Typed, Labels, Goto
  <2>4. Placed'
    BY <2>1, <2>2, HandleInv DEF HandleInv, Placed, Typed, Threads, Services, Goto
  <2>5. SharedHeld'
    BY <2>1, <2>2, HandleInv DEF HandleInv, SharedHeld, Inside, Typed, IOKit, Threads, Services,
       Goto
  <2>6. GateHeld'
    BY <2>1, <2>2, HandleInv DEF HandleInv, GateHeld, Typed, Placed, Threads, Services, Goto
  <2>7. WriterHeld'
    BY <2>1, <2>2, HandleInv DEF HandleInv, WriterHeld, Typed, Placed, Threads, Services, Goto
  <2>8. ClosedForGood'
    BY <2>1, <2>2, HandleInv DEF HandleInv, ClosedForGood, WriterHeld, Typed, Placed, SharedHeld,
       Inside, Threads, Services, Goto
  <2>9. SessionsHeld'
    BY <2>1, <2>2, HandleInv DEF HandleInv, SessionsHeld, Typed, Placed, IOKit, Threads, Services,
       Goto
  <2>10. StopApart'
    BY <2>1, <2>2, HandleInv DEF HandleInv, StopApart, Typed, Placed, IOKit, Threads, Services, Goto
  <2> QED BY <2>3, <2>4, <2>5, <2>6, <2>7, <2>8, <2>9, <2>10 DEF HandleInv
<1>26. ASSUME NEW u \in Users, NEW t \in {u, "stop"}, t = "stop" => u = target, CloseEnter(t, u)
       PROVE  HandleInv'
  <2> DEFINE Drained == sess' = [sess EXCEPT ![u] = "draining"]
  <2>1. /\ UNCHANGED Aside /\ pc[t] = "close?" /\ t \in Threads
        /\ \/ Quits(t) /\ UNCHANGED <<sess, reg, mu>>
           \/ /\ IOKit /\ writer = "no" /\ Goto(t, "draining") /\ shared' = shared \cup {t} /\ sess[u] = "open"
              /\ Drained /\ UNCHANGED <<reg, mu>>
           \/ /\ ~IOKit /\ Goto(t, "draining") /\ UNCHANGED shared /\ mu[u] = "no"
              /\ mu' = [mu EXCEPT ![u] = t] /\ Drained /\ reg' = reg \ {u}
    BY <1>26 DEF CloseEnter, MayEnter, Holding, Quits, Aside, Threads, Services
  <2>2. CASE Quits(t) /\ UNCHANGED <<sess, reg, mu>>
    BY <2>1, <2>2, QuitKeeps, HandleInv
  <2>3. CASE /\ IOKit /\ writer = "no" /\ Goto(t, "draining") /\ shared' = shared \cup {t} /\ sess[u] = "open"
             /\ Drained /\ UNCHANGED <<reg, mu>>
    <3>1. Placed'
      BY <1>26, <2>3, HandleInv DEF HandleInv, Placed, Typed, Goto, Threads, Services
    <3>2. Enters(t, "draining")
      BY <2>3, HandleInv DEF HandleInv, ClosedForGood, WriterHeld, SessionsHeld, Enters
    <3> QED BY <1>26, <2>1, <2>3, <3>1, <3>2, EnterKeeps, HandleInv DEF HandleInv, Typed, Threads, Labels
  <2>4. CASE /\ ~IOKit /\ Goto(t, "draining") /\ UNCHANGED shared /\ mu[u] = "no"
             /\ mu' = [mu EXCEPT ![u] = t] /\ Drained /\ reg' = reg \ {u}
    <3>1. Typed'
      BY <1>26, <2>1, <2>4, HandleInv DEF HandleInv, Typed, Labels, Goto, Aside
    <3>2. Placed'
      BY <1>26, <2>1, <2>4, HandleInv DEF HandleInv, Placed, Typed, Threads, Services, Goto, Aside
    <3>3. SharedHeld'
      BY <1>26, <2>1, <2>4, HandleInv DEF HandleInv, SharedHeld, Inside, Typed, IOKit, Threads,
         Services, Goto, Aside
    <3>4. GateHeld'
      BY <1>26, <2>1, <2>4, HandleInv DEF HandleInv, GateHeld, Typed, Placed, Threads, Services,
         Goto, Aside
    <3>5. WriterHeld'
      BY <1>26, <2>1, <2>4, HandleInv DEF HandleInv, WriterHeld, Typed, Placed, Threads, Services,
         Goto, Aside
    <3>6. ClosedForGood'
      BY <1>26, <2>1, <2>4, HandleInv DEF HandleInv, ClosedForGood, WriterHeld, Typed, Placed,
         SharedHeld, Inside, Threads, Services, Goto, Aside
    <3>7. SessionsHeld'
      BY <1>26, <2>1, <2>4, HandleInv DEF HandleInv, SessionsHeld, Typed, Placed, IOKit, Threads,
         Services, Goto, Aside
    <3>8. StopApart'
      BY <1>26, <2>1, <2>4, HandleInv DEF HandleInv, StopApart, Typed, Placed, IOKit, Threads,
         Services, Goto, Aside
    <3> QED BY <3>1, <3>2, <3>3, <3>4, <3>5, <3>6, <3>7, <3>8 DEF HandleInv
  <2> QED BY <2>1, <2>2, <2>3, <2>4
<1>27. ASSUME NEW u \in Users, NEW t \in {u, "stop"}, t = "stop" => u = target, CloseEnds(t, u)
       PROVE  HandleInv'
  <2>1. /\ pc[t] = "draining" /\ Goto(t, "idle") /\ shared' = shared \ {t}
        /\ mu' = [mu EXCEPT ![u] = "no"] /\ sess' = [sess EXCEPT ![u] = "none"] /\ reg' = reg \ {u}
        /\ UNCHANGED <<host, kind, writer, io, closed, freed, latch, heard, target, todo>>
    BY <1>27 DEF CloseEnds, Left
  <2>2. broken' \in BOOLEAN
    BY <1>27, HandleInv DEF CloseEnds, Poison, HandleInv, Typed
  <2>3. Typed'
    BY <2>1, <2>2, <1>27, HandleInv DEF HandleInv, Typed, Labels, Goto
  <2>4. Placed'
    BY <2>1, <2>2, <1>27, HandleInv DEF HandleInv, Placed, Typed, Threads, Services, Goto
  <2>5. SharedHeld'
    BY <2>1, <2>2, <1>27, HandleInv DEF HandleInv, SharedHeld, Inside, Typed, IOKit, Threads,
       Services, Goto
  <2>6. GateHeld'
    BY <2>1, <2>2, <1>27, HandleInv DEF HandleInv, GateHeld, Typed, Placed, Threads, Services, Goto
  <2>7. WriterHeld'
    BY <2>1, <2>2, <1>27, HandleInv DEF HandleInv, WriterHeld, Typed, Placed, Threads, Services,
       Goto
  <2>8. ClosedForGood'
    BY <2>1, <2>2, <1>27, HandleInv DEF HandleInv, ClosedForGood, WriterHeld, Typed, Placed,
       SharedHeld, Inside, Threads, Services, Goto
  <2>9. SessionsHeld'
    BY <2>1, <2>2, <1>27, HandleInv DEF HandleInv, SessionsHeld, Typed, Placed, IOKit, Threads,
       Services, Goto
  <2>10. StopApart'
    BY <2>1, <2>2, <1>27, HandleInv DEF HandleInv, StopApart, Typed, Placed, IOKit, Threads,
       Services, Goto
  <2> QED BY <2>3, <2>4, <2>5, <2>6, <2>7, <2>8, <2>9, <2>10 DEF HandleInv
<1>28. CASE ReadBroken \/ ReadEnds
  <2>1. /\ pc["reader"] = "reading" /\ Goto("reader", "idle") /\ shared' = shared \ {"reader"}
        /\ io' = IF io = "reader" THEN "no" ELSE io
        /\ UNCHANGED <<host, kind, writer, closed, freed, latch, heard, sess, reg, mu, target, todo>>
    BY <1>28 DEF ReadBroken, ReadEnds, ReadReturns, Left
  <2>2. broken' \in BOOLEAN
    BY <1>28, HandleInv DEF ReadBroken, ReadEnds, ReadReturns, Poison, HandleInv, Typed
  <2>3. Typed'
    BY <2>1, <2>2, HandleInv DEF HandleInv, Typed, Labels, Goto
  <2>4. Placed'
    BY <2>1, <2>2, HandleInv DEF HandleInv, Placed, Typed, Threads, Services, Goto
  <2>5. SharedHeld'
    BY <2>1, <2>2, HandleInv DEF HandleInv, SharedHeld, Inside, Typed, IOKit, Threads, Services,
       Goto
  <2>6. GateHeld'
    BY <2>1, <2>2, HandleInv DEF HandleInv, GateHeld, Typed, Placed, Threads, Services, Goto
  <2>7. WriterHeld'
    BY <2>1, <2>2, HandleInv DEF HandleInv, WriterHeld, Typed, Placed, Threads, Services, Goto
  <2>8. ClosedForGood'
    BY <2>1, <2>2, HandleInv DEF HandleInv, ClosedForGood, WriterHeld, Typed, Placed, SharedHeld,
       Inside, Threads, Services, Goto
  <2>9. SessionsHeld'
    BY <2>1, <2>2, HandleInv DEF HandleInv, SessionsHeld, Typed, Placed, IOKit, Threads, Services,
       Goto
  <2>10. StopApart'
    BY <2>1, <2>2, HandleInv DEF HandleInv, StopApart, Typed, Placed, IOKit, Threads, Services, Goto
  <2> QED BY <2>3, <2>4, <2>5, <2>6, <2>7, <2>8, <2>9, <2>10 DEF HandleInv
<1>29. CASE Calls
  BY <1>29, <1>1, <1>2, <1>3, <1>4, <1>5, <1>6, <1>7, <1>19 DEF Calls
<1>30. CASE Reader \/ ReadEnds \/ Control \/ AbortBump
  BY <1>30, <1>8, <1>9, <1>10, <1>11, <1>16, <1>17, <1>20, <1>21, <1>28 DEF Reader, Control
<1>31. CASE Closer
  BY <1>31, <1>12, <1>13, <1>14, <1>15 DEF Closer
<1>32. ASSUME NEW u \in Users, User(u) PROVE HandleInv'
  BY <1>32, <1>22, <1>23, <1>24, <1>25, <1>26, <1>27, BackendsAssumption DEF User, Services
<1>33. CASE Stopper
  BY <1>33, <1>26, <1>27, HandleInv DEF Stopper, HandleInv, Typed
<1> QED BY <1>18, <1>29, <1>30, <1>31, <1>32, <1>33 DEF Next

\* The invariant holds throughout, on every host.
THEOREM HandleInvariant == Spec => []HandleInv
BY InitHandle, NextHandle, PTL DEF Spec

-----------------------------------------------------------------------------
(* What it gives *)

\* On every host, for any number of sessions and drains that may give up: Close
\* frees the handle under no transfer, no open session and no drain of IOKit's.
THEOREM HandleHeldAlways == Spec => []HandleHeld
<1>1. HandleInv => HandleHeld
  <2> SUFFICES ASSUME HandleInv, freed PROVE HandleHeld
    BY DEF HandleHeld
  <2>1. reg = {} /\ shared = {}
    BY DEF HandleInv, ClosedForGood
  <2>2. \A u \in Users : sess[u] # "open"
    BY <2>1 DEF HandleInv, SessionsHeld
  <2>3. \A t \in Threads : ~Inside(t)
    BY <2>1 DEF HandleInv, SharedHeld
  <2>4. \A t \in Threads : pc[t] = "next" => t \in Users
    BY DEF HandleInv, Placed, Threads, Services
  <2>5. \A t \in Threads : pc[t] # "next"
    BY <2>2, <2>3, <2>4 DEF HandleInv, SessionsHeld, Inside
  <2> QED BY <2>2, <2>3, <2>5 DEF HandleHeld, InHandle, Drains, Inside
<1> QED BY <1>1, HandleInvariant, PTL

\* A set that holds one thing at most.
LEMMA AtMostOne ==
  ASSUME NEW S, NEW x, S \subseteq {x}
  PROVE  Cardinality(S) <= 1
<1>1. CASE S = {}
  BY <1>1, FS_EmptySet
<1>2. CASE S = {x}
  BY <1>2, FS_Singleton, SMTT(30)
<1> QED BY <1>1, <1>2

-----------------------------------------------------------------------------
(* OneSession.  On IOKit a start takes the registry's one place before it    *)
(* arms, and gives it up only with the session.                              *)

\* The registry has one place; whoever arms, reads or drains a session is in it, and
\* no two threads drain the same.
Alone ==
  IOKit =>
    /\ \A u, v \in reg : u = v
    /\ \A u \in Users : sess[u] # "none" => u \in reg
    /\ \A u \in Users : pc[u] = "arming" => sess[u] = "arming"
    /\ \A u \in Users : pc[u] = "draining" => sess[u] = "draining" /\ pc["stop"] # "draining"
    /\ pc["stop"] = "draining" => sess[target] = "draining"

\* A step that leaves sessions and registry alone and begins neither an arm nor a
\* drain keeps it.
LEMMA StillAlone ==
  ASSUME HandleInv, Alone, UNCHANGED <<host, sess, reg, target>>, NEW t \in Threads,
         NEW l \in Labels \ {"arming", "draining"}, Goto(t, l)
  PROVE  Alone'
BY DEF HandleInv, Typed, Alone, IOKit, Goto, Threads

\* Every step of every thread keeps it.
LEMMA NextKeepsAlone ==
  ASSUME HandleInv, Alone, [Next]_vars
  PROVE  Alone'
<1> USE DEF lockVars, devVars, sessVars
<1>1. ASSUME UNCHANGED <<host, pc, sess, reg, target>> PROVE Alone'
  BY <1>1 DEF Alone, IOKit
<1>2. ASSUME ReadCall \/ ControlCall \/ AbortRead \/ ArmRead \/ DeviceClose PROVE Alone'
  BY <1>1, <1>2, StillAlone
     DEF ReadCall, ControlCall, AbortRead, ArmRead, DeviceClose, Call, Labels, Threads, Services
<1>3. ASSUME NEW u \in Users, StartCall(u) \/ NextCall(u) PROVE Alone'
  BY <1>3, StillAlone DEF StartCall, NextCall, Call, Labels, Threads
<1>4. ASSUME NEW u \in Users, NEW t \in {u, "stop"}, CloseCall(t, u) PROVE Alone'
  BY <1>4, HandleInv
     DEF CloseCall, HandleInv, Typed, Alone, IOKit, Goto, Threads, Services
<1>5. ASSUME Reader \/ ReadEnds PROVE Alone'
  BY <1>1, <1>5, StillAlone
     DEF Reader, ReadEnds, ReadBroken, ReadReturns, ReadEnter, ReadGate, TakeIo, Snapshot, QuietGate,
         Enter, Labels, Threads, Services
<1>6. ASSUME Control \/ AbortBump PROVE Alone'
  BY <1>6, StillAlone
     DEF Control, ControlEnter, ControlGate, ControlDone, TakeIo, AbortBump, Enter, Labels, Threads,
         Services
<1>7. ASSUME DeviceLocked \/ DeviceFrees \/ DeviceClosed PROVE Alone'
  BY <1>7, StillAlone DEF DeviceLocked, DeviceFrees, DeviceClosed, Labels, Threads, Services
<1>8. ASSUME NEW u \in Users, DeviceStops(u) PROVE Alone'
  <2>1. IOKit => \A t \in Threads : pc[t] \notin {"arming", "draining"}
    BY <1>8 DEF DeviceStops, HandleInv, WriterHeld, SharedHeld, Inside
  <2>2. /\ sess' = [sess EXCEPT ![u] = "none"] /\ reg' = reg \ {u}
        /\ UNCHANGED <<host, pc, target>>
    BY <1>8 DEF DeviceStops
  <2> QED BY <2>1, <2>2 DEF HandleInv, Typed, Alone, IOKit, Threads, Services
<1>9. ASSUME NEW u \in Users, StartEnter(u) PROVE Alone'
  <2>1. CASE ~IOKit
    BY <1>9, <2>1 DEF StartEnter, Alone, IOKit
  <2>2. CASE IOKit /\ (Refused \/ Reserved)
    BY <1>9, <2>2, StillAlone DEF StartEnter, Enter, Labels, Threads
  <2>3. CASE IOKit /\ ~Refused /\ ~Reserved
    <3>1. /\ pc[u] = "start" /\ Goto(u, "arming") /\ reg' = reg \cup {u} /\ reg = {}
          /\ sess' = [sess EXCEPT ![u] = "arming"] /\ UNCHANGED <<host, target>>
      BY <1>9, <2>3 DEF StartEnter, Reserved
    <3>2. \A v \in Users : sess[v] = "none"
      BY <2>3, <3>1 DEF Alone
    <3>3. pc["stop"] # "draining"
      BY <2>3, <3>2 DEF Alone, HandleInv, Typed
    <3> QED BY <2>3, <3>1, <3>2, <3>3 DEF HandleInv, Typed, Alone, IOKit, Goto, Threads, Services
  <2> QED BY <2>1, <2>2, <2>3
<1>10. ASSUME NEW u \in Users, StartEnds(u) PROVE Alone'
  <2>1. CASE ~IOKit
    BY <1>10, <2>1 DEF StartEnds, Alone, IOKit
  <2>2. CASE IOKit
    <3>1. pc[u] = "arming" /\ Goto(u, "idle") /\ UNCHANGED <<host, target>>
      BY <1>10 DEF StartEnds
    <3>2. sess[u] = "arming" /\ u \in reg
      BY <2>2, <3>1 DEF Alone
    <3>3. \/ sess' = [sess EXCEPT ![u] = "open"] /\ reg' = reg
          \/ sess' = [sess EXCEPT ![u] = "none"] /\ reg' = reg \ {u}
      BY <1>10, <3>2 DEF StartEnds
    <3> QED BY <2>2, <3>1, <3>2, <3>3 DEF HandleInv, Typed, Alone, IOKit, Goto, Threads, Services
  <2> QED BY <2>1, <2>2
<1>11. ASSUME NEW u \in Users, NextEnter(u) \/ NextEnds(u) PROVE Alone'
  BY <1>11, StillAlone DEF NextEnter, NextEnds, Enter, Labels, Threads
<1>12. ASSUME NEW u \in Users, NEW t \in {u, "stop"}, t = "stop" => u = target, CloseEnter(t, u)
       PROVE  Alone'
  <2>1. CASE ~IOKit
    BY <1>12, <2>1 DEF CloseEnter, Alone, IOKit
  <2>2. CASE IOKit /\ sess[u] # "open"
    BY <1>12, <2>2, StillAlone DEF CloseEnter, Labels, Threads, Services
  <2>3. CASE IOKit /\ sess[u] = "open"
    <3>1. /\ Goto(t, "draining") /\ sess' = [sess EXCEPT ![u] = "draining"]
          /\ UNCHANGED <<host, reg, target>>
      BY <1>12, <2>3 DEF CloseEnter
    <3>2. \A v \in Users : sess[v] # "draining"
      BY <1>12, <2>3 DEF CloseEnter, StreamMuFree
    <3>3. pc["stop"] # "draining" /\ \A v \in Users : pc[v] # "draining"
      BY <2>3, <3>2 DEF Alone, HandleInv, Typed
    <3> QED BY <1>12, <2>3, <3>1, <3>2, <3>3
            DEF HandleInv, Typed, Alone, IOKit, Goto, Threads, Services
  <2> QED BY <2>1, <2>2, <2>3
<1>13. ASSUME NEW u \in Users, NEW t \in {u, "stop"}, t = "stop" => u = target, CloseEnds(t, u)
       PROVE  Alone'
  <2>1. CASE ~IOKit
    BY <1>13, <2>1 DEF CloseEnds, Alone, IOKit
  <2>2. CASE IOKit
    <3>1. /\ pc[t] = "draining" /\ Goto(t, "idle") /\ sess' = [sess EXCEPT ![u] = "none"]
          /\ reg' = reg \ {u} /\ UNCHANGED <<host, target>>
      BY <1>13 DEF CloseEnds
    <3>2. sess[u] = "draining" /\ u \in reg
      BY <1>13, <2>2, <3>1 DEF Alone
    <3>3. \A v \in Users \ {u} : sess[v] = "none"
      BY <2>2, <3>2 DEF Alone
    <3>4. pc'["stop"] # "draining" /\ \A v \in Users : pc'[v] \notin {"arming", "draining"}
      BY <1>13, <2>2, <3>1, <3>2, <3>3 DEF HandleInv, Typed, Alone, Goto, Threads, Services
    <3> QED BY <2>2, <3>1, <3>2, <3>3, <3>4 DEF HandleInv, Typed, Alone, IOKit, Threads, Services
  <2> QED BY <2>1, <2>2
<1>14. target \in Users
  BY DEF HandleInv, Typed
<1>15. ASSUME NEW u \in Users, User(u) PROVE Alone'
  BY <1>15, <1>9, <1>10, <1>11, <1>12, <1>13 DEF User, Services
<1>16. CASE Stopper
  BY <1>12, <1>13, <1>14, <1>16 DEF Stopper
<1>17. CASE UNCHANGED vars
  BY <1>1, <1>17 DEF vars
<1> QED
  BY <1>2, <1>3, <1>4, <1>5, <1>6, <1>7, <1>8, <1>15, <1>16, <1>17 DEF Next, Calls, Closer

\* It holds throughout.
LEMMA AloneInvariant == Spec => []Alone
<1>1. Init => Alone
  BY DEF Init, Alone, Threads, Services
<1>2. HandleInv /\ Alone /\ [Next]_vars => Alone'
  BY NextKeepsAlone
<1> QED BY <1>1, <1>2, HandleInvariant, PTL DEF Spec

\* On IOKit at most one session is arming, open or draining, for any number of users
\* and with a camera that stops a session under its reader: no two windows take
\* bytes of one pipe.
THEOREM OneSessionAlways == Spec => []OneSession
<1>1. Alone /\ HandleInv => OneSession
  <2> SUFFICES ASSUME Alone, HandleInv, IOKit
               PROVE  Cardinality({u \in Users : sess[u] # "none"}) <= 1
    BY DEF OneSession
  <2>1. CASE \A u \in Users : sess[u] = "none"
    <3>1. {u \in Users : sess[u] # "none"} = {}
      BY <2>1
    <3> QED BY <3>1, FS_EmptySet
  <2>2. ASSUME NEW v \in Users, sess[v] # "none"
        PROVE  Cardinality({u \in Users : sess[u] # "none"}) <= 1
    <3>1. {u \in Users : sess[u] # "none"} \subseteq {v}
      BY <2>2 DEF Alone
    <3> QED BY <3>1, AtMostOne
  <2> QED BY <2>1, <2>2
<1> QED BY <1>1, HandleInvariant, AloneInvariant, PTL

-----------------------------------------------------------------------------
(* Which calls exclude which, on every host and with a camera that stops a   *)
(* session under its reader as without one.                                  *)

\* No two threads drain one session, its user's Close and StopExposure's included.
DrainedOnce == \A u \in Users : ~(pc[u] = "draining" /\ pc["stop"] = "draining" /\ target = u)

\* On every host, whatever the camera does: closeMu and ioMu are held by the calls
\* inside and by no other, a gated control transfer never lands in a gated readout,
\* and no session is drained by two threads.  On usbfs and winusb no Next runs on
\* a session that a Close drains either, and on IOKit where no camera stops a session
\* under its reader; the Camera does, so there a Next may meet StopExposure's drain,
\* and nothing else (CallsExclude).
THEOREM CallsExcludeAlways ==
  Spec => [](/\ TypeOK /\ GateHolds /\ DrainedOnce
             /\ (IOKit => ~CameraStops) => CallsExclude)
<1>1. HandleInv => TypeOK
  <2> SUFFICES ASSUME HandleInv PROVE TypeOK
    OBVIOUS
  <2>1. shared = {t \in Threads :
                    \/ pc[t] \in {"gate", "snapshot", "reading", "ep0", "arming"}
                    \/ IOKit /\ pc[t] \in {"next", "draining"}}
    BY DEF HandleInv, SharedHeld, Inside, Typed
  <2> QED BY <2>1 DEF HandleInv, Typed, GateHeld, TypeOK, Labels
<1>2. HandleInv => GateHolds
  BY DEF HandleInv, GateHeld, GateHolds
<1>3. HandleInv /\ Alone => DrainedOnce
  <2> SUFFICES ASSUME HandleInv, Alone, NEW u \in Users,
                      pc[u] = "draining", pc["stop"] = "draining", target = u
               PROVE  FALSE
    BY DEF DrainedOnce
  <2>1. CASE IOKit
    BY <2>1 DEF Alone
  <2>2. CASE ~IOKit
    BY <2>2 DEF HandleInv, SessionsHeld, Services
  <2> QED BY <2>1, <2>2
<1>4. HandleInv /\ (IOKit => ~CameraStops) => NextAlone
  <2> SUFFICES ASSUME HandleInv, IOKit => ~CameraStops, NEW u \in Users
               PROVE  Cardinality(InSession(u)) <= 1
    BY DEF NextAlone
  <2>1. InSession(u) \subseteq {u, "stop"}
    BY DEF InSession
  <2>2. ~(u \in InSession(u) /\ "stop" \in InSession(u))
    <3> SUFFICES ASSUME u \in InSession(u), "stop" \in InSession(u) PROVE FALSE
      OBVIOUS
    <3>1. pc[u] \in {"next", "draining"} /\ pc["stop"] = "draining" /\ target = u
      BY DEF InSession, Drains, Services
    <3>2. IOKit
      BY <3>1 DEF HandleInv, SessionsHeld, Services
    <3> QED BY <3>1, <3>2 DEF HandleInv, StopApart
  <2> QED BY <2>1, <2>2, AtMostOne
<1> QED BY <1>1, <1>2, <1>3, <1>4, HandleInvariant, AloneInvariant, PTL DEF CallsExclude

=============================================================================
