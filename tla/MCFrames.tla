------------------------------ MODULE MCFrames ------------------------------
(* What readers do on the two paths that take no Worker.  The captures of a  *)
(* behaviour are of one kind:                                                *)
(*   free-runs      two readers call ReadFrame, which opens the resident     *)
(*                  session, against StartVideo and StopExposure             *)
(*   single shots   one reader at a time calls GetDataAfterExp, which resets *)
(*                  and re-arms between its attempts, against StartExposure  *)
(*                  and StopExposure                                         *)
EXTENDS MCCapture

OneKind ==
  /\ \A c \in Controllers : /\ op'[c] = "start" => expGen' = Cardinality(shots')
                            /\ op'[c] = "video" => shots' = {}
  /\ \A q, r \in Readers :
       op'[q] = "data" /\ pc'[q] # "idle" /\ pc'[r] # "idle" => q = r
=============================================================================
