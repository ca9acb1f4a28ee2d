------------------------------- MODULE Guide -------------------------------
(***************************************************************************)
(* ST4 pulse guiding (guide.go): threads that assert and release guide     *)
(* lines with ungated control transfers and keep the mask of lines and     *)
(* the count of pulses that IsPulseGuiding reports.                        *)
(*                                                                         *)
(* A transfer takes no lock and comes before the mask is updated under     *)
(* Camera.mu, so between the two the mask and the lines differ; the order  *)
(* of two calls on one line's transfers is not the order of their updates. *)
(* A transfer that fails is one that did not reach the camera.             *)
(***************************************************************************)
EXTENDS Naturals, FiniteSets

CONSTANTS
  Guiders,   \* the threads
  DirsOf     \* thread -> the directions it guides in

VARIABLES
  lines,      \* directions asserted at the port
  st4Lines,   \* Camera.st4Lines, the mask, as a set of directions
  st4Pulses,  \* Camera.st4Pulses
  at,         \* thread -> the step it takes next
  call,       \* thread -> "on", "off" or "pulse", once it called
  dir         \* thread -> the direction of its call

vars == <<lines, st4Lines, st4Pulses, at, call, dir>>

Directions == UNION {DirsOf[t] : t \in Guiders}

Init ==
  /\ lines = {} /\ st4Lines = {} /\ st4Pulses = 0
  /\ at = [t \in Guiders |-> "idle"]
  /\ call = [t \in Guiders |-> "on"]
  /\ dir \in [Guiders -> Directions] /\ \A t \in Guiders : dir[t] \in DirsOf[t]

Goto(t, l) == at' = [at EXCEPT ![t] = l]

\* A pulse is counted before anything is asserted.
Call(t) ==
  /\ at[t] = "idle"
  /\ \E c \in {"on", "off", "pulse"}, d \in DirsOf[t] :
       /\ call' = [call EXCEPT ![t] = c]
       /\ dir' = [dir EXCEPT ![t] = d]
       /\ st4Pulses' = IF c = "pulse" THEN st4Pulses + 1 ELSE st4Pulses
       /\ Goto(t, IF c = "off" THEN "release" ELSE "assert")
  /\ UNCHANGED <<lines, st4Lines>>

\* The end of a call that returns without touching the mask.
Fails(t) ==
  /\ at[t] \in {"assert", "release"}
  /\ Goto(t, IF call[t] = "pulse" THEN "uncount" ELSE "idle")
  /\ UNCHANGED <<lines, st4Lines, st4Pulses, call, dir>>

\* PulseGuideOn: the transfer, then the mask.
Assert(t) ==
  /\ at[t] = "assert"
  /\ lines' = lines \cup {dir[t]}
  /\ Goto(t, "mark")
  /\ UNCHANGED <<st4Lines, st4Pulses, call, dir>>

\* A pulse sleeps next, for as long as it likes.
Mark(t) ==
  /\ at[t] = "mark"
  /\ st4Lines' = st4Lines \cup {dir[t]}
  /\ Goto(t, IF call[t] = "pulse" THEN "release" ELSE "idle")
  /\ UNCHANGED <<lines, st4Pulses, call, dir>>

FaultyRelease(t) ==  \* clears the line's bit before the transfer that may fail
  /\ at[t] = "release"
  /\ st4Lines' = st4Lines \ {dir[t]}
  /\ \/ lines' = lines \ {dir[t]} /\ Goto(t, "clear")
     \/ UNCHANGED lines /\ Goto(t, IF call[t] = "pulse" THEN "uncount" ELSE "idle")
  /\ UNCHANGED <<st4Pulses, call, dir>>

\* PulseGuideOff: the transfer, then the mask.
Release(t) ==
  /\ at[t] = "release"
  /\ lines' = lines \ {dir[t]}
  /\ Goto(t, "clear")
  /\ UNCHANGED <<st4Lines, st4Pulses, call, dir>>

Clear(t) ==
  /\ at[t] = "clear"
  /\ st4Lines' = st4Lines \ {dir[t]}
  /\ Goto(t, IF call[t] = "pulse" THEN "uncount" ELSE "idle")
  /\ UNCHANGED <<lines, st4Pulses, call, dir>>

\* The deferred decrement of PulseGuide.
Uncount(t) ==
  /\ at[t] = "uncount"
  /\ st4Pulses' = st4Pulses - 1
  /\ Goto(t, "idle")
  /\ UNCHANGED <<lines, st4Lines, call, dir>>

Next == \E t \in Guiders :
          Call(t) \/ Fails(t) \/ Assert(t) \/ Mark(t) \/ Release(t) \/ Clear(t) \/ Uncount(t)

Spec == Init /\ [][Next]_vars

-----------------------------------------------------------------------------
IsPulseGuiding == st4Lines # {} \/ st4Pulses > 0

Quiet(d) == \A t \in Guiders : at[t] = "idle" \/ dir[t] # d

\* With no call on a direction in progress the mask tells the state of its
\* line, a release that failed included; and an asserted line is never
\* reported idle, but while the call that asserted it has not returned.  False
\* of the code when two threads guide in one direction.
LinesReported ==
  /\ \A d \in Directions : Quiet(d) => (d \in lines <=> d \in st4Lines)
  /\ lines # {} /\ ~IsPulseGuiding => \E t \in Guiders : at[t] = "mark"
  /\ st4Pulses = Cardinality({t \in Guiders : at[t] # "idle" /\ call[t] = "pulse"})
=============================================================================
