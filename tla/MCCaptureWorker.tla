-------------------------- MODULE MCCaptureWorker --------------------------
(* Three places in a row: the boxes of neighbours overlap. *)
EXTENDS CaptureWorker, TLC

CONSTANTS v1, v2, w1, p1, p2, p3

MCIou(p, q) == IF p = q THEN 2 ELSE IF p2 \in {p, q} THEN 1 ELSE 0

(* Settings under which a track outlives the pause between two detections. *)
MCKnobs == {[iou |-> 1, idle |-> 3, cap |-> 4], [iou |-> 2, idle |-> 3, cap |-> 3]}

(* What is shipped (db.py 526, ReaderConfig), three units for three        *)
(* seconds: a track idles out before the next detection.                   *)
MCShipped == {[iou |-> 1, idle |-> 2, cap |-> 6]}

Symmetric == {f @@ g : f \in Permutations({v1, v2}), g \in Permutations({p1, p3})}
=============================================================================
