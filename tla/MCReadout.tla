----------------------------- MODULE MCReadout -----------------------------
(* Instances of Readout for TLC: the two bodies and the windows asked for.   *)
EXTENDS Readout

ASI6200MC == [vid |-> "ZWO", width |-> 9576, height |-> 6388, bins |-> {1, 2, 3, 4},
              hwBins |-> {2, 3}, stepW |-> 8, stepH |-> 2, deviceBins |-> FALSE,
              color |-> TRUE, modes |-> 1]
Xena585M  == [vid |-> "POA", width |-> 3856, height |-> 2180, bins |-> {1, 2, 3, 4},
              hwBins |-> {2}, stepW |-> 4, stepH |-> 2, deviceBins |-> TRUE,
              color |-> FALSE, modes |-> 2]

BothBodies == {ASI6200MC, Xena585M}
PlayerOne  == {Xena585M}

W(x, y, w, h) == [x |-> x, y |-> y, w |-> w, h |-> h]
OneWindow   == {W(101, 51, 640, 480)}
ManyWindows == {W(x, y, w, h) : x \in {-3, 0, 101, 1925, 3851, 9570}, y \in {-1, 0, 51, 2177, 6387},
                               w \in {-5, 1, 7, 641, 3856, 9576}, h \in {0, 1, 545, 6388}}

(* What the theorems of Readout ask of an instance. *)
ASSUME InstanceShipped == ShippedBodies /\ Requests \cup Probes \subseteq AnyWindow
==============================================================================
