----------------------------- MODULE MCCapture -----------------------------
(* Instances of Capture for TLC: the threads, the calls each scenario makes, *)
(* and the symmetry of reader threads, which differ in nothing but name.     *)
EXTENDS Capture, TLC

OneController  == {"c1"}
TwoControllers == {"c1", "c2"}
OneReader      == {"r1"}

StartOnly      == {"start"}
StartStop      == {"start", "stop"}
VideoStop      == {"video", "stop"}
StartVideoStop == {"start", "video", "stop"}
StartStopClose == {"start", "stop", "close"}
DataOnly       == {"data"}
FrameOnly      == {"frame"}
DataFrame      == {"data", "frame"}

ReaderSymmetry == Permutations(Readers)
=============================================================================
