----------------------------- MODULE LiveCapture -----------------------------
(***************************************************************************)
(* The live events of one camera (capture/event_bus.py and the WebSocket   *)
(* of live_capture/router.py): the worker's thread publishes, callbacks    *)
(* carry the event to the event loop, where every viewer has a bounded     *)
(* queue that drops its oldest event when it is full.                      *)
(*                                                                         *)
(* An event is named by its lag, how many have been published after it.    *)
(* A viewer is one connection.                                             *)
(***************************************************************************)
EXTENDS Naturals, SequencesExt, FiniteSets

CONSTANTS
    Viewer,
    QueueSize,   \* QUEUE_MAXSIZE
    MaxViewers,  \* MAX_WS_SUBSCRIBERS_PER_CAMERA
    MaxReady     \* bound: callbacks the loop has not come to

ASSUME LiveAssumption ==
    QueueSize \in Nat \ {0} /\ MaxViewers \in Nat \ {0} /\ MaxReady \in Nat \ {0}

VARIABLES
    ready,   \* callbacks the loop has to run: viewer and lag
    viewer,  \* per viewer: the state of the socket, the queue, the last event sent
    slots    \* _ws_counts: places taken

live == <<ready, viewer, slots>>

Away == [at |-> "away", queue |-> <<>>, sent |-> 0]

LiveInit ==
    /\ ready = <<>>
    /\ viewer = [w \in Viewer |-> Away]
    /\ slots = 0

Subscribed == {w \in Viewer : viewer[w].at = "open"}

(* A place is taken before the handshake and its audit row. *)
Connect(w) ==
    /\ viewer[w].at = "away" /\ \A i \in DOMAIN ready : ready[i].to # w
    /\ slots < MaxViewers
    /\ slots' = slots + 1
    /\ viewer' = [viewer EXCEPT ![w].at = "accept"]
    /\ UNCHANGED ready

Subscribe(w) ==
    /\ viewer[w].at = "accept"
    /\ viewer' = [viewer EXCEPT ![w].at = "open"]
    /\ UNCHANGED <<ready, slots>>

(* Either of them may raise, before the block that gives the place back.   *)
AcceptFails(w) ==
    /\ viewer[w].at = "accept"
    /\ viewer' = [viewer EXCEPT ![w] = Away]
    /\ UNCHANGED <<ready, slots>>

(* One event more lies between an event and the newest; how many more than *)
(* can wait is not counted.                                                *)
Older(lag) == IF lag > QueueSize + MaxReady THEN lag ELSE lag + 1

(* publish, one step of the thread that calls it. *)
PublishEvent ==
    /\ Len(ready) < MaxReady
    /\ \E order \in SetToSeqs(Subscribed) :
          ready' = [i \in DOMAIN ready |-> [ready[i] EXCEPT !.lag = Older(@)]]
                       \o [i \in DOMAIN order |-> [to |-> order[i], lag |-> 0]]
    /\ viewer' = [w \in Viewer |->
           IF w \in Subscribed
           THEN [viewer[w] EXCEPT !.sent = Older(@),
                                  !.queue = [i \in DOMAIN @ |-> Older(@[i])]]
           ELSE viewer[w]]
    /\ UNCHANGED slots

\* Mutant: a full queue refuses the new event.
DeliverOrRefuse ==
    /\ ready # <<>>
    /\ LET w == Head(ready).to IN
       viewer' = IF w \in Subscribed /\ Len(viewer[w].queue) < QueueSize
                 THEN [viewer EXCEPT ![w].queue = Append(@, Head(ready).lag)]
                 ELSE viewer
    /\ ready' = Tail(ready)
    /\ UNCHANGED slots

(* A callback runs on the loop.  The queue of a viewer who has left is     *)
(* nobody's.                                                               *)
DeliverOrDrop ==
    /\ ready # <<>>
    /\ LET w == Head(ready).to
           room(q) == IF Len(q) = QueueSize THEN Tail(q) ELSE q
       IN viewer' = IF w \in Subscribed
                    THEN [viewer EXCEPT ![w].queue = Append(room(@), Head(ready).lag)]
                    ELSE viewer
    /\ ready' = Tail(ready)
    /\ UNCHANGED slots

SendToViewer(w) ==
    /\ w \in Subscribed /\ viewer[w].queue # <<>>
    /\ viewer' = [viewer EXCEPT ![w].queue = Tail(@), ![w].sent = Head(viewer[w].queue)]
    /\ UNCHANGED <<ready, slots>>

\* Mutant: the place is given back, the subscription is kept.
DisconnectKeepsQueue(w) ==
    /\ w \in Subscribed
    /\ slots' = slots - 1
    /\ UNCHANGED <<ready, viewer>>

Disconnect(w) ==
    /\ w \in Subscribed
    /\ viewer' = [viewer EXCEPT ![w] = Away]
    /\ slots' = slots - 1
    /\ UNCHANGED ready

(* The callbacks behind a position that bring a viewer something. *)
Coming(w, i) == {j \in DOMAIN ready : j > i /\ ready[j].to = w}

(* Whatever a slow viewer misses is the oldest there is: what it has still *)
(* to get, in its queue and on the way there, are the last events          *)
(* published, in their order and without a gap, and when nothing is left   *)
(* it has been sent the newest.                                            *)
ViewerSeesNewest ==
    \A w \in Subscribed :
        LET queue == viewer[w].queue
            called(i) == Cardinality(Coming(w, i))
        IN /\ \A i \in DOMAIN queue : queue[i] = Len(queue) - i + called(0)
           /\ \A i \in DOMAIN ready : ready[i].to = w => ready[i].lag = called(i)
           /\ queue = <<>> /\ called(0) = 0 => viewer[w].sent = 0

=============================================================================
