------------------------------- MODULE Tracker -------------------------------
(***************************************************************************)
(* The tracker of a camera's analyzer (capture/tracker.py): which of the   *)
(* detected faces are the ones it already follows, and which are new.      *)
(*                                                                         *)
(* A bounding box is a place of the picture.  A track is the place its     *)
(* face was last seen at, the time since then (idle) and since it was      *)
(* begun (age); "who" is history, the visitor it was begun for.            *)
(***************************************************************************)
EXTENDS Naturals, SequencesExt

CONSTANTS
    Visitor,  \* a visitor is one stay of one person before the camera
    Place,
    Iou(_, _) \* how much the boxes of two places overlap: 0 is not at all

ASSUME IouAssumption == \A p, q \in Place : Iou(p, q) \in Nat /\ Iou(p, q) = Iou(q, p)

\* Mutant: tracks only idle out.
IdleOnly(tracks, knobs) == SelectSeq(tracks, LAMBDA t : t.idle <= knobs.idle)

(* What _drop_stale leaves of the tracks, in the order they were begun. *)
Kept(tracks, knobs) ==
    LET kept[i \in 0 .. Len(tracks)] ==
            IF i = 0 THEN <<>>
            ELSE IF tracks[i].idle <= knobs.idle /\ tracks[i].age <= knobs.cap
                 THEN Append(kept[i - 1], tracks[i])
                 ELSE kept[i - 1]
    IN  kept[Len(tracks)]

\* Mutant: the overlap must exceed the threshold.
BestAbove(tracks, open, place, knobs) ==
    {i \in open :
        /\ Iou(place, tracks[i].box) > knobs.iou
        /\ \A j \in open : Iou(place, tracks[j].box) <= Iou(place, tracks[i].box)}

(* The tracks a detection at a place may continue: those not yet claimed   *)
(* that overlap it most, if that is enough.                                *)
Best(tracks, open, place, knobs) ==
    {i \in open :
        /\ Iou(place, tracks[i].box) > 0
        /\ Iou(place, tracks[i].box) >= knobs.iou
        /\ \A j \in open : Iou(place, tracks[j].box) <= Iou(place, tracks[i].box)}

(* A detection claims a track, of equals the first, or begins one. *)
Claim(s, d, knobs) ==
    LET best == Best(s.tracks, s.open, d.place, knobs)
        m == Min(best)
    IN  IF best = {}
        THEN [tracks |-> Append(s.tracks, [who |-> d.who, box |-> d.place, idle |-> 0, age |-> 0]),
              open |-> s.open,
              new |-> Append(s.new, d.who)]
        ELSE [tracks |-> [s.tracks EXCEPT ![m].box = d.place, ![m].idle = 0],
              open |-> s.open \ {m},
              new |-> s.new]

(* One detection after the other. *)
Associate(tracks, detections, knobs) ==
    LET after[i \in 0 .. Len(detections)] ==
            IF i = 0 THEN [tracks |-> tracks, open |-> DOMAIN tracks, new |-> <<>>]
            ELSE Claim(after[i - 1], detections[i], knobs)
    IN  after[Len(detections)]

=============================================================================
