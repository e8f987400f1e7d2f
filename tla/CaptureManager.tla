--------------------------- MODULE CaptureManager ---------------------------
(***************************************************************************)
(* The capture supervisor of backend/maugood/capture/manager.py: one       *)
(* process-wide registry of camera workers, changed by the reconcile tick, *)
(* by the request threads that edit, delete or restart a camera, and by    *)
(* the lifespan thread that boots and stops the manager.                   *)
(*                                                                         *)
(* A step is what one thread does without giving another the chance to     *)
(* interfere: a block under self._lock, one database transaction, or one   *)
(* call into a worker.  Everything a thread remembers between two steps    *)
(* (the row it read, the worker it popped or spawned) is its own state,    *)
(* and may be stale by the time it is used.                                *)
(***************************************************************************)
EXTENDS Naturals, FiniteSets

CONSTANTS
    Cameras,       \* cameras of one tenant: the keys of the registry
    Workers,       \* identities of CaptureWorker objects, reused once unreferenced
    Requests,      \* threads of the request pool
    Urls,          \* RTSP URLs a row may hold
    Corrupt,       \* those of Urls whose ciphertext does not decrypt
    Knobs,         \* hot-reloadable settings: the detection toggle, the tenant's bags
    DefaultKnobs,  \* what a worker gets when its starter passes none
    MaxEvents,     \* bound on requests, outside writes, deaths and failures
    None

Row    == [on : BOOLEAN, url : Urls, knobs : Knobs]
Stream == [cam : Cameras, url : Urls, knobs : Knobs]
Threads == Requests \cup {"tick", "main"}

ASSUME CaptureAssumption ==
    /\ Requests \cap {"tick", "main"} = {}
    /\ None \notin Workers
    /\ None \notin Row
    /\ None \notin Stream
    /\ Corrupt \subseteq Urls
    /\ DefaultKnobs \in Knobs
    /\ MaxEvents \in Nat

VARIABLES
    row,        \* the cameras table: a Row, or None when there is no such row
    enabled,    \* CaptureManager._enabled
    scheduled,  \* the reconcile scheduler is running
    registry,   \* CaptureManager._workers: a worker or None
    worker,     \* a worker's threads run with this Stream, or None: not alive
    plan,       \* desired set of the tick, listing of the boot: a Row or None
    seen,       \* the tick's copy of the registry (current_workers)
    pc,         \* where each thread is
    call,       \* camera, row and return label of the call a thread is in
    hold,       \* workers a thread has spawned or popped and not yet let go
    todo,       \* cameras a thread's loop still has to visit
    fuel        \* events left

database == <<row>>
manager  == <<enabled, scheduled, registry>>
tickvars == <<plan, seen>>
locals   == <<pc, call, hold, todo>>
vars     == <<row, enabled, scheduled, registry, worker, plan, seen,
              pc, call, hold, todo, fuel>>

Labels == {"idle", "fetch", "next", "reread", "respawn",        \* request threads
           "check", "spawn", "register", "pop", "halt",         \* start and stop of a camera
           "keys", "sweep", "visit", "drop",                    \* reconcile tick
           "down", "boot", "serving", "unschedule", "halting", "stopped"}  \* lifespan

Call == [cam : Cameras, row : Row \cup {None}, ret : Labels]

\* A camera the manager wants a worker for: enabled, with a URL it can decrypt.
On(r) == r # None /\ r.on
Startable(r) == On(r) /\ r.url \notin Corrupt

\* CaptureWorker.is_alive of a possibly missing worker.
Alive(w) == w # None /\ worker[w] # None

Registered == {registry[c] : c \in Cameras} \ {None}

\* No reference to the object is left, so a new object may take its identity.
Fresh(w) == /\ worker[w] = None
            /\ w \notin Registered
            /\ \A c \in Cameras : seen[c] # w
            /\ \A t \in Threads : w \notin hold[t]

Nothing == [c \in Cameras |-> None]

Asleep  == [t \in Threads |-> IF t = "main" THEN "down" ELSE "idle"]

Init == /\ row \in [Cameras -> Row \cup {None}]
        /\ enabled = FALSE /\ scheduled = FALSE
        /\ registry = Nothing
        /\ worker = [w \in Workers |-> None]
        /\ plan = Nothing /\ seen = Nothing
        /\ pc = Asleep
        /\ call = [t \in Threads |-> None]
        /\ hold = [t \in Threads |-> {}]
        /\ todo = [t \in Threads |-> {}]
        /\ fuel = MaxEvents

Event == fuel > 0 /\ fuel' = fuel - 1

Goto(t, label) == pc' = [pc EXCEPT ![t] = label]

Enter(t, label, c, r, ret) ==
    /\ Goto(t, label)
    /\ call' = [call EXCEPT ![t] = [cam |-> c, row |-> r, ret |-> ret]]

\* Leave start_camera or stop_camera; the caller keeps what it had read.
Return(t) ==
    /\ Goto(t, call[t].ret)
    /\ call' = [call EXCEPT ![t] =
                  IF call[t].ret \in {"fetch", "respawn"} THEN @ ELSE None]

(***************************************************************************)
(* start_camera: look under the lock, build and start the worker outside   *)
(* it, store it under the lock without looking again.                      *)
(***************************************************************************)
CheckStart(t) ==
    /\ pc[t] = "check"
    /\ IF ~enabled \/ Alive(registry[call[t].cam])
          THEN Return(t)
          ELSE Goto(t, "spawn") /\ UNCHANGED call
    /\ UNCHANGED <<database, manager, tickvars, worker, hold, todo, fuel>>

Spawn(t) ==
    /\ pc[t] = "spawn"
    /\ \E w \in Workers : Fresh(w)
    /\ LET w == CHOOSE x \in Workers : Fresh(x) IN
         /\ worker' = [worker EXCEPT ![w] = [cam   |-> call[t].cam,
                                             url   |-> call[t].row.url,
                                             knobs |-> call[t].row.knobs]]
         /\ hold' = [hold EXCEPT ![t] = {w}]
    /\ Goto(t, "register")
    /\ UNCHANGED <<database, manager, tickvars, call, todo, fuel>>

SpawnFails(t) ==
    /\ pc[t] = "spawn"
    /\ Event
    /\ Return(t)
    /\ UNCHANGED <<database, manager, tickvars, worker, hold, todo>>

Register(t) ==
    /\ pc[t] = "register"
    /\ \E w \in hold[t] : registry' = [registry EXCEPT ![call[t].cam] = w]
    /\ hold' = [hold EXCEPT ![t] = {}]
    /\ Return(t)
    /\ UNCHANGED <<database, enabled, scheduled, tickvars, worker, todo, fuel>>

(***************************************************************************)
(* stop_camera: pop the entry under the lock, stop the worker outside it.  *)
(* A worker counts as stopped from the moment its stop event is set.       *)
(***************************************************************************)
\* Mutant: the entry is read with get instead of pop.
PopKeepsEntry(t) ==
    LET c == call[t].cam IN
    /\ pc[t] = "pop"
    /\ IF registry[c] = None
          THEN Return(t) /\ UNCHANGED hold
          ELSE /\ hold' = [hold EXCEPT ![t] = {registry[c]}]
               /\ Goto(t, "halt")
               /\ UNCHANGED call
    /\ UNCHANGED <<database, manager, tickvars, worker, todo, fuel>>

Pop(t) ==
    LET c == call[t].cam IN
    /\ pc[t] = "pop"
    /\ IF registry[c] = None
          THEN Return(t) /\ UNCHANGED <<registry, hold>>
          ELSE /\ registry' = [registry EXCEPT ![c] = None]
               /\ hold' = [hold EXCEPT ![t] = {registry[c]}]
               /\ Goto(t, "halt")
               /\ UNCHANGED call
    /\ UNCHANGED <<database, enabled, scheduled, tickvars, worker, todo, fuel>>

\* Mutant: a stop that fails is swallowed, the popped worker keeps running.
HaltForgets(t) ==
    /\ pc[t] = "halt"
    /\ hold' = [hold EXCEPT ![t] = {}]
    /\ Return(t)
    /\ UNCHANGED <<database, manager, tickvars, worker, todo, fuel>>

Halt(t) ==
    /\ pc[t] = "halt"
    /\ worker' = [w \in Workers |-> IF w \in hold[t] THEN None ELSE worker[w]]
    /\ hold' = [hold EXCEPT ![t] = {}]
    /\ Return(t)
    /\ UNCHANGED <<database, manager, tickvars, todo, fuel>>

(***************************************************************************)
(* Request threads: the camera endpoints commit the row, then call the     *)
(* hook.                                                                   *)
(***************************************************************************)
Accept(r) == pc["main"] = "serving" /\ pc[r] = "idle" /\ Event

CreateCamera(r, c) ==
    /\ Accept(r)
    /\ row[c] = None
    /\ \E new \in Row : new.url \notin Corrupt /\ row' = [row EXCEPT ![c] = new]
    /\ Enter(r, "fetch", c, None, "idle")
    /\ UNCHANGED <<manager, tickvars, worker, hold, todo>>

PatchCamera(r, c) ==
    /\ Accept(r)
    /\ row[c] # None
    /\ \E new \in Row : /\ new.url \in {row[c].url} \cup (Urls \ Corrupt)
                        /\ row' = [row EXCEPT ![c] = new]
    /\ Enter(r, "pop", c, None, "fetch")
    /\ UNCHANGED <<manager, tickvars, worker, hold, todo>>

DeleteCamera(r, c) ==
    /\ Accept(r)
    /\ row[c] # None
    /\ row' = [row EXCEPT ![c] = None]
    /\ Enter(r, "pop", c, None, "idle")
    /\ UNCHANGED <<manager, tickvars, worker, hold, todo>>

\* _reconcile: the row decides between stop_camera and start_camera.  The hook
\* passes neither the detection toggle nor the tenant's bags.
Fetch(r) ==
    LET c == call[r].cam IN
    /\ pc[r] = "fetch"
    /\ \/ /\ ~enabled \/ (On(row[c]) /\ row[c].url \in Corrupt)
          /\ Goto(r, "idle")
          /\ call' = [call EXCEPT ![r] = None]
       \/ /\ enabled
          /\ ~On(row[c])
          /\ Enter(r, "pop", c, None, "idle")
       \/ /\ enabled
          /\ Startable(row[c])
          /\ Enter(r, "check", c, [row[c] EXCEPT !.knobs = DefaultKnobs], "idle")
    /\ UNCHANGED <<database, manager, tickvars, worker, hold, todo, fuel>>

\* The hook, or restart_camera, cannot read the row and gives up.
FetchFails(r) ==
    /\ pc[r] \in {"fetch", "reread"}
    /\ Event
    /\ Goto(r, IF pc[r] = "fetch" THEN "idle" ELSE "next")
    /\ call' = [call EXCEPT ![r] = None]
    /\ UNCHANGED <<database, manager, tickvars, worker, hold, todo>>

\* restart_camera of one camera, and of every camera of the tenant; when the
\* enabled rows cannot be listed, of the registered ones only.
RestartCamera(r, c) ==
    /\ Accept(r)
    /\ row[c] # None
    /\ Goto(r, "next")
    /\ todo' = [todo EXCEPT ![r] = {c}]
    /\ UNCHANGED <<database, manager, tickvars, worker, call, hold>>

RestartAll(r) ==
    /\ Accept(r)
    /\ Goto(r, "next")
    /\ \E listed \in {{}, {c \in Cameras : On(row[c])}} :
         todo' = [todo EXCEPT ![r] = {c \in Cameras : registry[c] # None} \cup listed]
    /\ UNCHANGED <<database, manager, tickvars, worker, call, hold>>

NextRestart(r) ==
    /\ pc[r] = "next"
    /\ \/ /\ todo[r] = {}
          /\ Goto(r, "idle")
          /\ UNCHANGED <<call, todo>>
       \/ \E c \in todo[r] :
            /\ todo' = [todo EXCEPT ![r] = @ \ {c}]
            /\ Enter(r, "reread", c, None, "next")
    /\ UNCHANGED <<database, manager, tickvars, worker, hold, fuel>>

Reread(r) ==
    LET c == call[r].cam IN
    /\ pc[r] = "reread"
    /\ IF row[c] = None
          THEN Goto(r, "next") /\ call' = [call EXCEPT ![r] = None]
          ELSE Enter(r, "pop", c, row[c], "respawn")
    /\ UNCHANGED <<database, manager, tickvars, worker, hold, todo, fuel>>

Respawn(r) ==
    /\ pc[r] = "respawn"
    /\ IF Startable(call[r].row)
          THEN Enter(r, "check", call[r].cam, call[r].row, "next")
          ELSE Goto(r, "next") /\ call' = [call EXCEPT ![r] = None]
    /\ UNCHANGED <<database, manager, tickvars, worker, hold, todo, fuel>>

(***************************************************************************)
(* reconcile_all, run by the scheduler with max_instances=1: read the      *)
(* desired rows, stop what is registered and not desired, copy the         *)
(* registry, then start, revive or hot-reload each desired camera.         *)
(***************************************************************************)
TickRead ==
    /\ pc["tick"] = "idle" /\ scheduled /\ enabled
    /\ plan' = [c \in Cameras |-> IF Startable(row[c]) THEN row[c] ELSE None]
    /\ Goto("tick", "keys")
    /\ UNCHANGED <<database, manager, seen, worker, call, hold, todo, fuel>>

\* A listing that fails leaves the tenant's cameras out of the desired set.
TickReadFails ==
    /\ pc["tick"] = "idle" /\ scheduled /\ enabled
    /\ Event
    /\ Goto("tick", "keys")
    /\ UNCHANGED <<database, manager, tickvars, worker, call, hold, todo>>

\* Mutant: nothing that is registered and not desired is stopped.
TickKeysNone ==
    /\ pc["tick"] = "keys"
    /\ todo' = [todo EXCEPT !["tick"] = {}]
    /\ Goto("tick", "sweep")
    /\ UNCHANGED <<database, manager, tickvars, worker, call, hold, fuel>>

TickKeys ==
    /\ pc["tick"] = "keys"
    /\ todo' = [todo EXCEPT !["tick"] =
                  {c \in Cameras : registry[c] # None /\ plan[c] = None}]
    /\ Goto("tick", "sweep")
    /\ UNCHANGED <<database, manager, tickvars, worker, call, hold, fuel>>

TickSweep ==
    /\ pc["tick"] = "sweep"
    /\ \E c \in todo["tick"] :
         /\ todo' = [todo EXCEPT !["tick"] = @ \ {c}]
         /\ Enter("tick", "pop", c, None, "sweep")
    /\ UNCHANGED <<database, manager, tickvars, worker, hold, fuel>>

\* Mutant: the copy is taken of the desired set instead of the registry.
TickSnapshotOfPlan ==
    /\ pc["tick"] = "sweep" /\ todo["tick"] = {}
    /\ seen' = plan
    /\ todo' = [todo EXCEPT !["tick"] = {c \in Cameras : plan[c] # None}]
    /\ Goto("tick", "visit")
    /\ UNCHANGED <<database, manager, plan, worker, call, hold, fuel>>

TickSnapshot ==
    /\ pc["tick"] = "sweep" /\ todo["tick"] = {}
    /\ seen' = registry
    /\ todo' = [todo EXCEPT !["tick"] = {c \in Cameras : plan[c] # None}]
    /\ Goto("tick", "visit")
    /\ UNCHANGED <<database, manager, plan, worker, call, hold, fuel>>

\* Mutant: a live worker is dropped and started anew like a dead one.
TickVisitRevivesAll ==
    /\ pc["tick"] = "visit"
    /\ \E c \in todo["tick"] :
         /\ todo' = [todo EXCEPT !["tick"] = @ \ {c}]
         /\ Enter("tick", IF seen[c] = None THEN "check" ELSE "drop", c, plan[c], "visit")
    /\ UNCHANGED <<database, manager, tickvars, worker, hold, fuel>>

\* Mutant: a dead worker is passed over.
TickVisitNoRevival ==
    /\ pc["tick"] = "visit"
    /\ \E c \in todo["tick"] :
         /\ ~Alive(seen[c])
         /\ todo' = [todo EXCEPT !["tick"] = @ \ {c}]
         /\ IF seen[c] = None
               THEN Enter("tick", "check", c, plan[c], "visit")
               ELSE UNCHANGED <<pc, call>>
    /\ UNCHANGED <<database, manager, tickvars, worker, hold, fuel>>

\* A missing worker is started; a dead one is first dropped from the registry.
TickVisit ==
    /\ pc["tick"] = "visit"
    /\ \E c \in todo["tick"] :
         /\ ~Alive(seen[c])
         /\ todo' = [todo EXCEPT !["tick"] = @ \ {c}]
         /\ Enter("tick", IF seen[c] = None THEN "check" ELSE "drop", c, plan[c], "visit")
    /\ UNCHANGED <<database, manager, tickvars, worker, hold, fuel>>

\* The entry is popped by key, whichever worker it holds by now.
TickDrop ==
    /\ pc["tick"] = "drop"
    /\ registry' = [registry EXCEPT ![call["tick"].cam] = None]
    /\ Goto("tick", "check")
    /\ UNCHANGED <<database, enabled, scheduled, tickvars, worker, call, hold, todo, fuel>>

\* A live worker is only compared on its knobs: its URL is not looked at.
TickHotReload ==
    /\ pc["tick"] = "visit"
    /\ \E c \in todo["tick"] :
         /\ Alive(seen[c])
         /\ todo' = [todo EXCEPT !["tick"] = @ \ {c}]
         /\ worker' = [worker EXCEPT ![seen[c]].knobs = plan[c].knobs]
    /\ UNCHANGED <<database, manager, tickvars, pc, call, hold, fuel>>

TickDone ==
    /\ pc["tick"] = "visit" /\ todo["tick"] = {}
    /\ plan' = Nothing /\ seen' = Nothing
    /\ Goto("tick", "idle")
    /\ UNCHANGED <<database, manager, worker, call, hold, todo, fuel>>

(***************************************************************************)
(* The lifespan thread: start() before any request is served, stop() after *)
(* the last one was answered.                                              *)
(***************************************************************************)
Boot ==
    /\ pc["main"] = "down"
    /\ enabled' = TRUE
    /\ plan' = [c \in Cameras |-> IF Startable(row[c]) THEN row[c] ELSE None]
    /\ todo' = [todo EXCEPT !["main"] = {c \in Cameras : plan'[c] # None}]
    /\ Goto("main", "boot")
    /\ UNCHANGED <<database, scheduled, registry, seen, worker, call, hold, fuel>>

BootReadFails ==
    /\ pc["main"] = "down"
    /\ Event
    /\ enabled' = TRUE
    /\ Goto("main", "boot")
    /\ UNCHANGED <<database, scheduled, registry, tickvars, worker, call, hold, todo>>

BootNext ==
    /\ pc["main"] = "boot"
    /\ \E c \in todo["main"] :
         /\ todo' = [todo EXCEPT !["main"] = @ \ {c}]
         /\ Enter("main", "check", c, plan[c], "boot")
    /\ UNCHANGED <<database, manager, tickvars, worker, hold, fuel>>

BootDone ==
    /\ pc["main"] = "boot" /\ todo["main"] = {}
    /\ scheduled' = TRUE
    /\ plan' = Nothing
    /\ Goto("main", "serving")
    /\ UNCHANGED <<database, enabled, registry, seen, worker, call, hold, todo, fuel>>

Stop ==
    /\ pc["main"] = "serving"
    /\ \A r \in Requests : pc[r] = "idle"
    /\ Event
    /\ enabled' = FALSE
    /\ hold' = [hold EXCEPT !["main"] = Registered]
    /\ registry' = Nothing
    /\ Goto("main", "unschedule")
    /\ UNCHANGED <<database, scheduled, tickvars, worker, call, todo>>

\* shutdown(wait=False): no new tick, but the running one carries on.
Unschedule ==
    /\ pc["main"] = "unschedule"
    /\ scheduled' = FALSE
    /\ Goto("main", "halting")
    /\ UNCHANGED <<database, enabled, registry, tickvars, worker, call, hold, todo, fuel>>

StopNext ==
    /\ pc["main"] = "halting"
    /\ \/ /\ hold["main"] = {}
          /\ Goto("main", "stopped")
          /\ UNCHANGED <<worker, hold>>
       \/ \E w \in hold["main"] :
            /\ worker' = [worker EXCEPT ![w] = None]
            /\ hold' = [hold EXCEPT !["main"] = @ \ {w}]
            /\ UNCHANGED pc
    /\ UNCHANGED <<database, manager, tickvars, call, todo, fuel>>

(***************************************************************************)
(* The environment: a write that goes round the hooks, a worker whose      *)
(* threads end by themselves, the process killed and started again.        *)
(***************************************************************************)
OutsideWrite(c) ==
    /\ Event
    /\ \E new \in Row \cup {None} : row' = [row EXCEPT ![c] = new]
    /\ UNCHANGED <<manager, tickvars, locals, worker>>

WorkerEnds(w) ==
    /\ worker[w] # None
    /\ Event
    /\ worker' = [worker EXCEPT ![w] = None]
    /\ UNCHANGED <<database, manager, tickvars, locals>>

Restart ==
    /\ Event
    /\ enabled' = FALSE /\ scheduled' = FALSE
    /\ registry' = Nothing
    /\ worker' = [w \in Workers |-> None]
    /\ plan' = Nothing /\ seen' = Nothing
    /\ pc' = Asleep
    /\ call' = [t \in Threads |-> None]
    /\ hold' = [t \in Threads |-> {}]
    /\ todo' = [t \in Threads |-> {}]
    /\ UNCHANGED database

StartStop(t) == CheckStart(t) \/ Spawn(t) \/ Register(t) \/ Pop(t) \/ Halt(t)

RequestStep(r) == StartStop(r) \/ Fetch(r) \/ NextRestart(r) \/ Reread(r) \/ Respawn(r)

TickStep == \/ StartStop("tick")
            \/ TickRead \/ TickKeys \/ TickSweep \/ TickSnapshot
            \/ TickVisit \/ TickDrop \/ TickHotReload \/ TickDone

MainStep == StartStop("main") \/ Boot \/ BootNext \/ BootDone \/ Unschedule \/ StopNext

Arrival(r) == \/ \E c \in Cameras : \/ CreateCamera(r, c) \/ PatchCamera(r, c)
                                    \/ DeleteCamera(r, c) \/ RestartCamera(r, c)
              \/ RestartAll(r)

Failure == \/ \E t \in Threads : SpawnFails(t)
           \/ \E r \in Requests : FetchFails(r)
           \/ TickReadFails \/ BootReadFails

Environment == \/ \E c \in Cameras : OutsideWrite(c)
               \/ \E w \in Workers : WorkerEnds(w)
               \/ Restart

Next == \/ \E r \in Requests : RequestStep(r) \/ Arrival(r)
        \/ TickStep \/ MainStep \/ Stop
        \/ Failure \/ Environment

Spec == Init /\ [][Next]_vars

\* Every thread keeps running; requests, stops and failures need not happen.
Fairness == /\ WF_vars(TickStep) /\ WF_vars(MainStep)
            /\ \A r \in Requests : WF_vars(RequestStep(r))

FairSpec == Spec /\ Fairness

(***************************************************************************)
(* What the supervisor is trusted with.                                    *)
(***************************************************************************)

\* The state is well typed.
TypeOK ==
    /\ row \in [Cameras -> Row \cup {None}]
    /\ enabled \in BOOLEAN
    /\ scheduled \in BOOLEAN
    /\ registry \in [Cameras -> Workers \cup {None}]
    /\ worker \in [Workers -> Stream \cup {None}]
    /\ plan \in [Cameras -> Row \cup {None}]
    /\ seen \in [Cameras -> Workers \cup {None}]
    /\ pc \in [Threads -> Labels]
    /\ call \in [Threads -> Call \cup {None}]
    /\ hold \in [Threads -> SUBSET Workers]
    /\ todo \in [Threads -> SUBSET Cameras]
    /\ fuel \in 0 .. MaxEvents

\* A worker is handed on and never shared: the registry holds it under one key,
\* or one thread has it in hand to register or stop it.  So no two threads ever
\* stop the same worker, and nobody finds in the registry one that is being
\* stopped, whatever the interleaving of hooks, tick, boot and stop().
Ownership ==
    /\ \A c, d \in Cameras : registry[c] # None /\ registry[c] = registry[d] => c = d
    /\ \A t \in Threads : hold[t] \cap Registered = {}
    /\ \A t, u \in Threads : t # u => hold[t] \cap hold[u] = {}

\* Workers some thread is about to stop.
Retiring == UNION {hold[t] : t \in {u \in Threads :
                     pc[u] \in {"halt", "unschedule", "halting"}}}

\* One running worker per camera, the ones about to be stopped aside: the module
\* docstring's "Owns one CaptureWorker per worker_enabled camera".
OneWorkerPerCamera ==
    \A v, w \in Workers :
        v # w /\ worker[v] # None /\ worker[w] # None /\ worker[v].cam = worker[w].cam
        => v \in Retiring \/ w \in Retiring

\* A running worker can be found again: it is registered or in a thread's hands.
NoOrphanWorker ==
    \A w \in Workers :
        worker[w] # None => w \in Registered \/ \E t \in Threads : w \in hold[t]

\* Once requests, outside writes and failures cease, the registry follows the
\* cameras table: exactly the startable cameras have a live worker, each with
\* the knobs of its row.
InSync == \A c \in Cameras :
            IF Startable(row[c])
               THEN Alive(registry[c]) /\ worker[registry[c]].knobs = row[c].knobs
               ELSE registry[c] = None

Converges == <>[](enabled => InSync)
=============================================================================
