----------------------------- MODULE Exposure -----------------------------
(***************************************************************************)
(* What the exposure lifecycle promises its callers, with no threads, no   *)
(* transport and no device: a numbered sequence of exposures of which the  *)
(* last alone has a status.  Capture implements it (Capture!Implements).   *)
(*                                                                         *)
(* An exposure once stopped is never working again; a call that works for  *)
(* an earlier one may still hand over that one's frame, and that is all it *)
(* may do; only StartVideo takes the place of an exposure still working.   *)
(***************************************************************************)
EXTENDS Naturals

CONSTANT MaxGen   \* bound: exposures of a behaviour

VARIABLES
  status,     \* of the current exposure
  current,    \* its number; 0 before the first
  stopped,    \* it was stopped
  shots,      \* the single shots among the exposures; the others are free-runs
  frames      \* frames handed over, per exposure

vars == <<status, current, stopped, shots, frames>>

Exposures == 1 .. current

Init ==
  /\ status = "idle" /\ current = 0 /\ stopped = FALSE /\ shots = {}
  /\ frames = [e \in 1 .. MaxGen |-> 0]

\* Begin the next exposure.
Begin ==
  /\ current' = current + 1
  /\ status' = "working"
  /\ stopped' = FALSE
  /\ UNCHANGED frames

\* A single shot begins only when no exposure is working, a free-run whatever runs.
Shoot   == status # "working" /\ Begin /\ shots' = shots \cup {current + 1}
FreeRun == Begin /\ UNCHANGED shots

Stop ==
  /\ stopped' = TRUE
  /\ status' = "idle"
  /\ UNCHANGED <<current, shots, frames>>

\* A call that works for exposure e ends with s, which only the current one keeps.
Ends(e, s) == status' = IF e = current THEN s ELSE status

HandOver(e) ==
  /\ Ends(e, "idle")
  /\ frames' = [frames EXCEPT ![e] = @ + 1]
  /\ UNCHANGED <<current, stopped, shots>>

Fail(e) == Ends(e, "failed") /\ UNCHANGED <<current, stopped, shots, frames>>

\* A start whose device does not arm gives its exposure back.
Release(e) == Ends(e, "idle") /\ UNCHANGED <<current, stopped, shots, frames>>

Next ==
  \/ Shoot \/ FreeRun \/ Stop
  \/ \E e \in Exposures : HandOver(e) \/ Fail(e) \/ Release(e)

Spec == Init /\ [][Next]_vars
=============================================================================
