---------------------------- MODULE CaptureWorker ----------------------------
(***************************************************************************)
(* The worker of one camera (capture/reader.py): a reader thread that      *)
(* keeps the latest frame, an analyzer thread that takes it, finds the     *)
(* faces, follows them with the tracker and writes one event for each new  *)
(* track (capture/events.py), which live viewers are told of.              *)
(*                                                                         *)
(* Time is counted in units of one analyzer cycle, the pause in which it   *)
(* waits for its next turn.  A frame is who is in view, and where.  A      *)
(* visitor is one stay of a person in view; counters stop where nothing    *)
(* compares them any further.                                              *)
(***************************************************************************)
EXTENDS Tracker, LiveCapture, FiniteSets

CONSTANTS
    ForceEvery,  \* force_detect_every_s
    Knobs,       \* what the tracker may be set to: iou, idle and cap
    MaxEvents,   \* bound on what need not happen
    None

ASSUME PaceAssumption == ForceEvery \in Nat \ {0} /\ MaxEvents \in Nat

(* A box overlaps itself by as much as is ever asked for, and a track may  *)
(* live for a unit at least.                                               *)
ASSUME KnobsAssumption ==
    /\ Knobs \subseteq [iou : Nat, idle : Nat, cap : Nat \ {0}]
    /\ \E k \in Knobs : \A j \in Knobs : k.cap <= j.cap
    /\ \E k \in Knobs : \A j \in Knobs : j.cap <= k.cap
    /\ \E k \in Knobs : \A j \in Knobs : j.idle <= k.idle
    /\ \A k \in Knobs, p \in Place : Iou(p, p) > 0 /\ Iou(p, p) >= k.iou

ASSUME VisitorAssumption == IsFiniteSet(Visitor)

ASSUME NoneAssumption ==
    None \notin Place /\ None \notin [Visitor -> Place \cup {None}]

VARIABLES
    where,       \* who is in view, and where
    stream,      \* the camera answers
    enabled,     \* detection_enabled
    knobs,       \* iou_threshold, idle_timeout_s, max_duration_sec
    stop,        \* the stop event
    reader, analyzer,  \* where the threads are
    slot, fresh, \* the latest frame, and that the analyzer has not seen it
    held,        \* the frame the analyzer works on
    since,       \* units since it last detected
    tracks,
    todo,        \* faces to match, new tracks to write
    visit,       \* history, see NewVisit
    fuel

threads == <<stop, reader, analyzer>>
frames == <<slot, fresh, held>>
tracking == <<since, tracks, todo>>
settings == <<enabled, knobs>>
vars == <<where, stream, settings, threads, frames, tracking, visit, fuel, live>>

Empty == [v \in Visitor |-> None]
InView == {v \in Visitor : where[v] # None}
MinCap == Min({k.cap : k \in Knobs})
MaxCap == Max({k.cap : k \in Knobs})
MaxIdle == Max({k.idle : k \in Knobs})
UpTo(n, max) == IF n < max THEN n + 1 ELSE n

(* A visit: whether nothing ever went wrong for it, the rows written for   *)
(* it, and the units since its beginning, or since something last did.     *)
NewVisit == [clear |-> TRUE, rows |-> 0, stay |-> 0]

Upset(x) == [x EXCEPT !.clear = FALSE, !.stay = 0]

Disturbed(S) == [v \in Visitor |-> IF v \in S \cap InView THEN Upset(visit[v]) ELSE visit[v]]

(* How long a visit's units are counted. *)
Horizon(x) ==
    IF x.rows = 0 THEN MaxCap + ForceEvery + 2 ELSE IF x.clear THEN MinCap + 1 ELSE 0

Init ==
    /\ where \in [Visitor -> Place \cup {None}] /\ stream = TRUE
    /\ enabled = TRUE /\ knobs \in Knobs
    /\ stop = FALSE /\ reader = "open" /\ analyzer = "wait"
    /\ slot = None /\ fresh = FALSE /\ held = Empty
    /\ since = ForceEvery /\ tracks = <<>> /\ todo = <<>>
    /\ visit = [v \in Visitor |-> [NewVisit EXCEPT !.clear =
           \A u \in Visitor \ {v} : None \notin {where[u], where[v]} => Iou(where[u], where[v]) = 0]]
    /\ fuel = MaxEvents
    /\ LiveInit

Event == fuel > 0 /\ fuel' = fuel - 1

-----------------------------------------------------------------------------
(* People come, move and go. *)

Seen(frame, v) == IF frame = None THEN None ELSE frame[v]

(* Where the analyzer sees a visitor, has seen or is about to see them. *)
Boxes(v) ==
    ({where[v], Seen(slot, v), held[v]} \cup {t.box : t \in {u \in Range(tracks) : u.who = v}}) \ {None}

(* Others in whose reach a place is. *)
Crowd(v, place) == {u \in Visitor \ {v} : \E b \in Boxes(u) : Iou(place, b) > 0}

Beset(v, place) == IF Crowd(v, place) = {} THEN {} ELSE {v} \cup Crowd(v, place)

Arrive(v, place) ==
    /\ Event
    /\ Boxes(v) = {} /\ v \notin Range(todo)
    /\ where' = [where EXCEPT ![v] = place]
    /\ visit' = [Disturbed(Beset(v, place)) EXCEPT
                    ![v] = [NewVisit EXCEPT !.clear = (Beset(v, place) = {})]]
    /\ UNCHANGED <<stream, settings, threads, frames, tracking, live>>

(* The tracker can follow who goes no further than boxes overlap before    *)
(* the next detection.                                                     *)
Move(v, place) ==
    /\ Event
    /\ where[v] \notin {None, place}
    /\ where' = [where EXCEPT ![v] = place]
    /\ LET lost == \E b \in Boxes(v) : Iou(place, b) = 0 \/ Iou(place, b) < knobs.iou
       IN visit' = Disturbed(Beset(v, place) \cup (IF lost THEN {v} ELSE {}))
    /\ UNCHANGED <<stream, settings, threads, frames, tracking, live>>

Leave(v) ==
    /\ Event
    /\ where[v] # None
    /\ where' = [where EXCEPT ![v] = None]
    /\ visit' = [visit EXCEPT ![v] = NewVisit]
    /\ UNCHANGED <<stream, settings, threads, frames, tracking, live>>

(* Time: all counters of units at once.  A visit is calm while detection   *)
(* is on, frames come and nobody else stands in reach.                     *)
TimePasses(frames_come) ==
    LET calm(v) ==
            /\ frames_come /\ enabled
            /\ \A u \in Visitor \ {v} :
                  \A b \in {where[u], Seen(slot, u), held[u]} \ {None} : Iou(where[v], b) = 0
    IN
    /\ since' = UpTo(since, ForceEvery)
    /\ tracks' = [i \in DOMAIN tracks |->
           [tracks[i] EXCEPT !.idle = UpTo(@, MaxIdle + 1), !.age = UpTo(@, MaxCap + 1)]]
    /\ visit' = [v \in Visitor |->
           IF v \notin InView THEN visit[v]
           ELSE IF calm(v) THEN [visit[v] EXCEPT !.stay = UpTo(@, Horizon(visit[v]))]
           ELSE Upset(visit[v])]

-----------------------------------------------------------------------------
(* The reader. *)

StreamFails ==
    /\ Event /\ stream
    /\ stream' = FALSE
    /\ UNCHANGED <<where, settings, threads, frames, tracking, visit, live>>

StreamRecovers ==
    /\ ~stream
    /\ stream' = TRUE
    /\ UNCHANGED <<where, settings, threads, frames, tracking, visit, fuel, live>>

(* A stream that does not open, a read that returns nothing and anything   *)
(* that raises lead to a pause and another attempt to open it.             *)
OpenStream ==
    /\ reader = "open" /\ ~stop
    /\ stream
    /\ reader' = "read"
    /\ UNCHANGED <<where, stream, settings, stop, analyzer, frames, tracking, visit, fuel, live>>

ReadFrame ==
    /\ reader = "read" /\ ~stop
    /\ IF stream THEN slot' = where /\ fresh' = TRUE /\ UNCHANGED reader
       ELSE reader' = "open" /\ UNCHANGED <<slot, fresh>>
    /\ UNCHANGED <<where, stream, settings, stop, analyzer, held, tracking, visit, fuel, live>>

ReaderEnds ==
    /\ reader # "ended" /\ stop
    /\ reader' = "ended"
    /\ UNCHANGED <<where, stream, settings, stop, analyzer, frames, tracking, visit, fuel, live>>

(* While no frame comes the analyzer looks in vain. *)
FramesMissing ==
    /\ analyzer = "wait" /\ ~fresh /\ reader = "open"
    /\ TimePasses(FALSE)
    /\ UNCHANGED <<where, stream, settings, threads, frames, todo, fuel, live>>

-----------------------------------------------------------------------------
(* The analyzer. *)

LookAtFrame ==
    /\ analyzer = "wait" /\ ~stop
    /\ fresh
    /\ held' = slot /\ fresh' = FALSE
    /\ analyzer' = "pace"
    /\ UNCHANGED <<where, stream, settings, stop, reader, slot, tracking, visit, fuel, live>>

(* It sleeps with the frame in hand. *)
Pace ==
    /\ analyzer = "pace" /\ ~stop
    /\ TimePasses(TRUE)
    /\ analyzer' = "detect"
    /\ UNCHANGED <<where, stream, settings, stop, reader, frames, todo, fuel, live>>

(* The faces of the frame, found in any order. *)
Detections ==
    {[i \in DOMAIN order |-> [who |-> order[i], place |-> held[order[i]]]] :
        order \in SetToSeqs({v \in Visitor : held[v] # None})}

Follow(detections) ==
    LET after == Associate(Kept(tracks, knobs), detections, knobs) IN
    /\ tracks' = after.tracks
    /\ todo' = after.new

Onward(rest) == analyzer' = IF rest = <<>> THEN "wait" ELSE "emit"

(* It detects when something moved, which may be at any time, and when it  *)
(* has not for long.  The tracker is driven without detections too; while  *)
(* detection is off the time of the last one moves on all the same.        *)
AnalyzeFrame ==
    /\ analyzer = "detect"
    /\ \E looks \in {x \in BOOLEAN : since >= ForceEvery => x} :
        /\ \E detections \in IF looks /\ enabled THEN Detections ELSE {<<>>} : Follow(detections)
        /\ since' = IF looks THEN 0 ELSE since
    /\ Onward(todo')
    /\ UNCHANGED <<where, stream, settings, stop, reader, frames, visit, fuel, live>>

DetectionFails ==
    /\ Event
    /\ analyzer = "detect" /\ enabled
    /\ Follow(<<>>)
    /\ analyzer' = "wait"
    /\ visit' = Disturbed(InView)
    /\ UNCHANGED <<where, stream, settings, stop, reader, frames, since, live>>

(* Every face is matched and labelled, outside of any handler: when a      *)
(* cache has to be loaded and the database fails, the thread ends.         *)
MatchFails ==
    /\ Event
    /\ analyzer = "detect" /\ enabled
    /\ \E detections \in Detections \ {<<>>} :
          tracks' = Associate(Kept(tracks, knobs), detections, knobs).tracks
    /\ todo' = <<>> /\ since' = 0
    /\ analyzer' = "ended"
    /\ visit' = Disturbed(InView)
    /\ UNCHANGED <<where, stream, settings, stop, reader, frames, live>>

(* emit_detection_event: the crop goes to disk, is looked at there, and    *)
(* the row that names it is inserted.                                      *)
InsertRow ==
    /\ analyzer = "emit"
    /\ analyzer' = "publish"
    /\ visit' = [visit EXCEPT ![Head(todo)].rows = IF Head(todo) \in InView THEN UpTo(@, 2) ELSE @]
    /\ UNCHANGED <<where, stream, settings, stop, reader, frames, tracking, fuel, live>>

(* An empty crop, a full disk, a row that is refused: the track goes on,   *)
(* nothing is written for it.  The name for the viewers may not be found   *)
(* after the row has been.                                                 *)
EmitFails ==
    /\ Event
    /\ analyzer \in {"emit", "publish"}
    /\ todo' = Tail(todo) /\ Onward(todo')
    /\ visit' = IF analyzer = "emit" THEN Disturbed({Head(todo)}) ELSE visit
    /\ UNCHANGED <<where, stream, settings, stop, reader, frames, since, tracks, live>>

Publish ==
    /\ analyzer = "publish"
    /\ PublishEvent
    /\ todo' = Tail(todo) /\ Onward(todo')
    /\ UNCHANGED <<where, stream, settings, stop, reader, frames, since, tracks, visit, fuel>>

AnalyzerEnds ==
    /\ analyzer \in {"wait", "pace"} /\ stop
    /\ analyzer' = "ended"
    /\ UNCHANGED <<where, stream, settings, stop, reader, frames, tracking, visit, fuel, live>>

-----------------------------------------------------------------------------
(* What the manager does with the worker. *)

(* A tick or an update of a setting; the tracker follows with new values   *)
(* what it followed with the old ones.                                     *)
UpdateTracker(k) ==
    /\ Event /\ knobs # k
    /\ knobs' = k
    /\ visit' = Disturbed({v \in InView : \E b, c \in Boxes(v) : Iou(b, c) < k.iou})
    /\ UNCHANGED <<where, stream, enabled, threads, frames, tracking, live>>

UpdateDetectionEnabled ==
    /\ Event
    /\ enabled' = ~enabled
    /\ visit' = Disturbed(InView)
    /\ UNCHANGED <<where, stream, knobs, threads, frames, tracking, live>>

StopWorker ==
    /\ Event /\ ~stop
    /\ stop' = TRUE
    /\ UNCHANGED <<where, stream, settings, reader, analyzer, frames, tracking, visit, live>>

IsAlive == reader # "ended" \/ analyzer # "ended"

StartWorker ==
    /\ ~IsAlive
    /\ stop' = FALSE /\ reader' = "open" /\ analyzer' = "wait"
    /\ slot' = None /\ fresh' = FALSE /\ held' = Empty
    /\ since' = ForceEvery /\ tracks' = <<>> /\ todo' = <<>>
    /\ visit' = Disturbed(InView)
    /\ UNCHANGED <<where, stream, settings, fuel, live>>

-----------------------------------------------------------------------------
People ==
    \E v \in Visitor :
        \/ \E place \in Place : Arrive(v, place) \/ Move(v, place)
        \/ Leave(v)

Reading == OpenStream \/ ReadFrame \/ ReaderEnds

Analyzing ==
    LookAtFrame \/ Pace \/ AnalyzeFrame \/ InsertRow \/ Publish \/ AnalyzerEnds

Faults ==
    \/ StreamFails \/ StreamRecovers \/ FramesMissing
    \/ DetectionFails \/ MatchFails \/ EmitFails

Managing ==
    \/ \E k \in Knobs : UpdateTracker(k)
    \/ UpdateDetectionEnabled \/ StopWorker \/ StartWorker

Watching ==
    /\ \/ /\ \E w \in Viewer : Connect(w) \/ AcceptFails(w)
          /\ Event
       \/ /\ \/ \E w \in Viewer : Subscribe(w) \/ SendToViewer(w) \/ Disconnect(w)
             \/ DeliverOrDrop
          /\ UNCHANGED fuel
    /\ UNCHANGED <<where, stream, settings, threads, frames, tracking, visit>>

Next == People \/ Reading \/ Analyzing \/ Faults \/ Managing \/ Watching

Spec == Init /\ [][Next]_vars

-----------------------------------------------------------------------------
TypeOK ==
    /\ where \in [Visitor -> Place \cup {None}]
    /\ slot \in [Visitor -> Place \cup {None}] \cup {None}
    /\ held \in [Visitor -> Place \cup {None}]
    /\ fresh => slot # None
    /\ reader \in {"open", "read", "ended"}
    /\ analyzer \in {"wait", "pace", "detect", "emit", "publish", "ended"}
    /\ since \in 0 .. ForceEvery
    /\ tracks \in Seq([who : Visitor, box : Place, idle : 0 .. MaxIdle + 1, age : 0 .. MaxCap + 1])
    /\ todo \in Seq(Visitor) /\ (analyzer \in {"emit", "publish"} => todo # <<>>)
    /\ Cardinality({w \in Viewer : viewer[w].at # "away"}) <= slots /\ slots <= MaxViewers

(* A visitor nothing goes wrong for, and whom nobody else comes close to,  *)
(* has one row, not two, until their track has reached the age at which    *)
(* the tracker gives up any track: still or moving about, whether every    *)
(* frame is looked at or only one in a while.  This takes an idle time as  *)
(* long as the pause between two detections; the shipped one is shorter.   *)
OneRowPerVisit ==
    \A v \in InView :
        visit[v].clear /\ visit[v].stay <= MinCap => visit[v].rows <= 1

(* Nobody is overlooked.  Such a visitor has their row at the latest two   *)
(* cycles after a detection is due; one who stepped into the track of      *)
(* somebody else, or whose row could not be written, when that track has   *)
(* been given up, if nothing goes wrong a second time.  That track may be  *)
(* a unit younger than the visit: begun for whoever stood close in the     *)
(* frame before the visitor moved away from them, and found in the next.   *)
SeenInTime ==
    \A v \in InView :
        visit[v].stay > (IF visit[v].clear THEN ForceEvery + 2 ELSE MaxCap + ForceEvery + 1)
            => visit[v].rows >= 1

=============================================================================
