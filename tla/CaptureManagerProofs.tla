------------------------ MODULE CaptureManagerProofs ------------------------
(***************************************************************************)
(* Type correctness of CaptureManager and its ownership discipline, for    *)
(* any number of cameras, workers and request threads; which steps can     *)
(* lose a worker; and that the reconcile loop by itself never takes one.   *)
(***************************************************************************)
EXTENDS CaptureManager, TLAPS

InStart == {"check", "spawn", "register"}
InStop  == {"pop", "halt"}

\* What a call frame holds at each label, thread by thread: who waits for the
\* call, and whether it carries the row a worker is to be built from.
Frames ==
    /\ \A t \in Threads :
         /\ pc[t] \in InStart \cup InStop \cup {"fetch", "reread", "respawn", "drop"}
              => call[t] \in Call
         /\ pc[t] \in InStart \cup {"respawn", "drop"} => call[t].row \in Row
    /\ \A r \in Requests :
         /\ pc[r] \in {"idle", "fetch", "next", "reread", "respawn"} \cup InStart \cup InStop
         /\ pc[r] \in InStart => call[r].ret \in {"idle", "next"}
         /\ pc[r] \in InStop => /\ call[r].ret \in {"idle", "fetch", "respawn"}
                                /\ call[r].ret = "respawn" => call[r].row \in Row
    /\ pc["tick"] \in {"idle", "keys", "sweep", "visit", "drop"} \cup InStart \cup InStop
    /\ pc["tick"] \in InStart \cup {"drop"} => call["tick"].ret = "visit"
    /\ pc["tick"] \in InStop => call["tick"].ret = "sweep"
    /\ pc["main"] \in {"down", "boot", "serving", "unschedule", "halting", "stopped"}
                      \cup InStart
    /\ pc["main"] \in InStart => call["main"].ret = "boot"

\* Boot comes before the first tick, and what a loop has still to start is in
\* the plan it was drawn from.
Plans ==
    /\ pc["main"] = "down" => todo["main"] = {}
    /\ pc["main"] \in {"down", "boot"} \cup InStart => ~scheduled /\ pc["tick"] = "idle"
    /\ pc["main"] \in {"boot"} \cup InStart => \A c \in todo["main"] : plan[c] \in Row
    /\ pc["tick"] \in {"visit", "drop"} \cup InStart => \A c \in todo["tick"] : plan[c] \in Row

IInv == TypeOK /\ Frames /\ Plans /\ Ownership

LEMMA ThreadFacts ==
    /\ "tick" \in Threads /\ "main" \in Threads
    /\ \A r \in Requests : r \in Threads /\ r # "tick" /\ r # "main"
  BY CaptureAssumption DEF Threads

\* A step that moves no worker between the registry and a thread keeps who owns it.
LEMMA NoHandover ==
    ASSUME Ownership, UNCHANGED <<registry, hold>>
    PROVE  Ownership'
  BY DEF Ownership, Registered

\* An event is paid for.
LEMMA EventType ==
    ASSUME fuel \in 0 .. MaxEvents, Event
    PROVE  fuel' \in 0 .. MaxEvents
  BY CaptureAssumption DEF Event

\* What a thread that enters a call has in its frame; the others keep theirs.
LEMMA EnterFacts ==
    ASSUME TypeOK, NEW t \in Threads, NEW label \in Labels, NEW c \in Cameras,
           NEW rw \in Row \cup {None}, NEW ret \in Labels, Enter(t, label, c, rw, ret)
    PROVE  /\ pc' \in [Threads -> Labels] /\ call' \in [Threads -> Call \cup {None}]
           /\ pc'[t] = label /\ call'[t] \in Call
           /\ call'[t].cam = c /\ call'[t].row = rw /\ call'[t].ret = ret
           /\ \A u \in Threads \ {t} : pc'[u] = pc[u] /\ call'[u] = call[u]
<1> DEFINE frame == [cam |-> c, row |-> rw, ret |-> ret]
<1>1. frame \in Call
  BY DEF Call
<1>2. pc' = [pc EXCEPT ![t] = label] /\ call' = [call EXCEPT ![t] = frame]
  BY DEF Enter, Goto
<1> HIDE DEF frame
<1>3. /\ pc' \in [Threads -> Labels] /\ call' \in [Threads -> Call \cup {None}]
      /\ pc'[t] = label /\ call'[t] = frame
      /\ \A u \in Threads \ {t} : pc'[u] = pc[u] /\ call'[u] = call[u]
  BY <1>1, <1>2 DEF TypeOK
<1>4. QED
  BY <1>1, <1>3 DEF frame

\* Leaving start_camera or stop_camera finds the caller where it waits.
LEMMA ReturnKeeps ==
    ASSUME IInv, NEW t \in Threads, pc[t] \in InStart \cup InStop, Return(t),
           UNCHANGED <<scheduled, plan, todo>>
    PROVE  /\ pc' \in [Threads -> Labels]
           /\ call' \in [Threads -> Call \cup {None}]
           /\ Frames'
           /\ Plans'
<1>1. call[t] \in Call
  BY DEF IInv, Frames
<1>2. pc' \in [Threads -> Labels] /\ call' \in [Threads -> Call \cup {None}]
  BY <1>1 DEF IInv, TypeOK, Return, Goto, Call
<1>3. Frames'
  <2>1. CASE t = "tick"
    BY <2>1, <1>1, ThreadFacts DEF IInv, TypeOK, Frames, Return, Goto, InStart, InStop
  <2>2. CASE t = "main"
    BY <2>2, <1>1, ThreadFacts DEF IInv, TypeOK, Frames, Return, Goto, InStart, InStop
  <2>3. CASE t \in Requests
    BY <2>3, <1>1, ThreadFacts DEF IInv, TypeOK, Frames, Return, Goto, InStart, InStop
  <2>4. QED
    BY <2>1, <2>2, <2>3 DEF Threads
<1>4. Plans'
  BY <1>1, ThreadFacts DEF IInv, TypeOK, Frames, Plans, Return, Goto, InStart, InStop
<1>5. QED
  BY <1>2, <1>3, <1>4

LEMMA CheckStartKeeps ==
    ASSUME IInv, NEW t \in Threads, CheckStart(t)
    PROVE  IInv'
<1>1. Ownership'
  BY NoHandover DEF IInv, CheckStart, manager
<1>2. CASE ~enabled \/ Alive(registry[call[t].cam])
  BY <1>1, <1>2, ReturnKeeps DEF IInv, TypeOK, InStart, CheckStart, database, manager, tickvars
<1>3. CASE ~(~enabled \/ Alive(registry[call[t].cam]))
  <2>1. TypeOK'
    BY <1>3 DEF IInv, TypeOK, Labels, CheckStart, Goto, database, manager, tickvars
  <2>2. Frames'
    BY <1>3, ThreadFacts DEF IInv, TypeOK, Frames, InStart, InStop, CheckStart, Goto
  <2>3. Plans'
    BY <1>3, ThreadFacts DEF IInv, TypeOK, Plans, InStart, CheckStart, Goto, manager, tickvars
  <2>4. QED
    BY <1>1, <2>1, <2>2, <2>3 DEF IInv
<1>4. QED
  BY <1>2, <1>3

LEMMA SpawnKeeps ==
    ASSUME IInv, NEW t \in Threads, Spawn(t)
    PROVE  IInv'
<1>1. TypeOK'
  BY ThreadFacts
     DEF IInv, TypeOK, Frames, Plans, Row, Stream, Labels, Call, InStart, Spawn, Goto,
         database, manager, tickvars
<1>2. Frames'
  BY ThreadFacts DEF IInv, TypeOK, Frames, InStart, InStop, Spawn, Goto
<1>3. Plans'
  BY ThreadFacts DEF IInv, TypeOK, Plans, InStart, Spawn, Goto, manager, tickvars
<1>4. Ownership'
  BY ThreadFacts, CaptureAssumption
     DEF IInv, TypeOK, Ownership, Registered, Spawn, Fresh, manager
<1>5. QED
  BY <1>1, <1>2, <1>3, <1>4 DEF IInv

LEMMA SpawnFailsKeeps ==
    ASSUME IInv, NEW t \in Threads, SpawnFails(t)
    PROVE  IInv'
<1>1. Frames' /\ Plans' /\ pc' \in [Threads -> Labels] /\ call' \in [Threads -> Call \cup {None}]
  BY ReturnKeeps DEF InStart, SpawnFails, manager, tickvars
<1>2. TypeOK'
  BY <1>1, CaptureAssumption DEF IInv, TypeOK, SpawnFails, Event, database, manager, tickvars
<1>3. Ownership'
  BY NoHandover DEF IInv, SpawnFails, manager
<1>4. QED
  BY <1>1, <1>2, <1>3 DEF IInv

LEMMA RegisterKeeps ==
    ASSUME IInv, NEW t \in Threads, Register(t)
    PROVE  IInv'
<1>1. Frames' /\ Plans' /\ pc' \in [Threads -> Labels] /\ call' \in [Threads -> Call \cup {None}]
  BY ReturnKeeps DEF InStart, Register, tickvars
<1>2. PICK w \in hold[t] : registry' = [registry EXCEPT ![call[t].cam] = w]
  BY DEF Register
<1>3. w \in Workers /\ call[t].cam \in Cameras
  BY DEF IInv, TypeOK, Frames, InStart, Call, Register
<1>4. TypeOK'
  BY <1>1, <1>2, <1>3 DEF IInv, TypeOK, Register, database, tickvars
<1>5. Ownership'
  <2>1. \A c \in Cameras : registry'[c] = IF c = call[t].cam THEN w ELSE registry[c]
    BY <1>2, <1>3 DEF IInv, TypeOK
  <2>2. \A u \in Threads : hold'[u] = IF u = t THEN {} ELSE hold[u]
    BY DEF IInv, TypeOK, Register
  <2>3. \A c \in Cameras : registry[c] # w
    BY <1>3, CaptureAssumption DEF IInv, Ownership, Registered
  <2>4. \A c, d \in Cameras : registry'[c] # None /\ registry'[c] = registry'[d] => c = d
    BY <2>1, <2>3 DEF IInv, Ownership
  <2>5. \A u \in Threads : hold'[u] \cap Registered' = {}
    BY <2>1, <2>2 DEF IInv, Ownership, Registered
  <2>6. \A u, v \in Threads : u # v => hold'[u] \cap hold'[v] = {}
    BY <2>2 DEF IInv, Ownership
  <2>7. QED
    BY <2>4, <2>5, <2>6 DEF Ownership
<1>6. QED
  BY <1>1, <1>4, <1>5 DEF IInv

LEMMA PopKeeps ==
    ASSUME IInv, NEW t \in Threads, Pop(t)
    PROVE  IInv'
<1>1. call[t] \in Call /\ call[t].cam \in Cameras
  BY DEF IInv, Frames, InStop, Call, Pop
<1>2. CASE registry[call[t].cam] = None
  <2>1. Frames' /\ Plans' /\ pc' \in [Threads -> Labels] /\ call' \in [Threads -> Call \cup {None}]
    BY <1>2, ReturnKeeps DEF InStop, Pop, tickvars
  <2>2. TypeOK'
    BY <1>2, <2>1 DEF IInv, TypeOK, Pop, database, tickvars
  <2>3. Ownership'
    BY <1>2, NoHandover DEF IInv, Pop
  <2>4. QED
    BY <2>1, <2>2, <2>3 DEF IInv
<1>3. CASE registry[call[t].cam] # None
  <2>1. TypeOK'
    BY <1>1, <1>3 DEF IInv, TypeOK, Labels, Pop, Goto, database, tickvars
  <2>2. Frames'
    BY <1>3, ThreadFacts DEF IInv, TypeOK, Frames, InStart, InStop, Pop, Goto
  <2>3. Plans'
    BY <1>3, ThreadFacts DEF IInv, TypeOK, Plans, InStart, Pop, Goto, tickvars
  <2>4. \A c \in Cameras : registry'[c] = IF c = call[t].cam THEN None ELSE registry[c]
    BY <1>1, <1>3 DEF IInv, TypeOK, Pop
  <2>5. \A u \in Threads : hold'[u] = IF u = t THEN {registry[call[t].cam]} ELSE hold[u]
    BY <1>3 DEF IInv, TypeOK, Pop
  <2>6. \A c, d \in Cameras : registry'[c] # None /\ registry'[c] = registry'[d] => c = d
    BY <2>4 DEF IInv, Ownership
  <2>7. registry[call[t].cam] \in Registered /\ registry[call[t].cam] \notin Registered'
    BY <1>1, <1>3, <2>4 DEF IInv, Ownership, Registered
  <2>8. Registered' \subseteq Registered
    BY <2>4 DEF Registered
  <2>9. \A u \in Threads : hold'[u] \cap Registered' = {}
    BY <2>5, <2>7, <2>8 DEF IInv, Ownership
  <2>10. \A u, v \in Threads : u # v => hold'[u] \cap hold'[v] = {}
    BY <2>5, <2>7 DEF IInv, Ownership
  <2>11. QED
    BY <2>1, <2>2, <2>3, <2>6, <2>9, <2>10 DEF IInv, Ownership
<1>4. QED
  BY <1>2, <1>3

LEMMA HaltKeeps ==
    ASSUME IInv, NEW t \in Threads, Halt(t)
    PROVE  IInv'
<1>1. Frames' /\ Plans' /\ pc' \in [Threads -> Labels] /\ call' \in [Threads -> Call \cup {None}]
  BY ReturnKeeps DEF InStop, Halt, manager, tickvars
<1>2. TypeOK'
  BY <1>1 DEF IInv, TypeOK, Halt, database, manager, tickvars
<1>3. \A u \in Threads : hold'[u] \subseteq hold[u]
  BY DEF IInv, TypeOK, Halt
<1>4. Ownership'
  BY <1>3 DEF IInv, Ownership, Registered, Halt, manager
<1>5. QED
  BY <1>1, <1>2, <1>4 DEF IInv

LEMMA CreateCameraKeeps ==
    ASSUME IInv, NEW r \in Requests, NEW c \in Cameras, CreateCamera(r, c)
    PROVE  IInv'
<1>1. TypeOK'
  BY ThreadFacts, CaptureAssumption
     DEF IInv, TypeOK, Labels, Call, CreateCamera, Accept, Goto, Enter, Event, manager,
         tickvars
<1>2. Frames'
  BY ThreadFacts
     DEF IInv, TypeOK, Frames, InStart, InStop, Call, CreateCamera, Accept, Goto,
         Enter
<1>3. Plans'
  BY ThreadFacts
     DEF IInv, TypeOK, Plans, InStart, CreateCamera, Accept, Goto, Enter, manager,
         tickvars
<1>4. Ownership'
  BY NoHandover DEF IInv, CreateCamera, manager
<1>5. QED
  BY <1>1, <1>2, <1>3, <1>4 DEF IInv

LEMMA PatchCameraKeeps ==
    ASSUME IInv, NEW r \in Requests, NEW c \in Cameras, PatchCamera(r, c)
    PROVE  IInv'
<1>1. TypeOK'
  BY ThreadFacts, CaptureAssumption
     DEF IInv, TypeOK, Labels, Call, PatchCamera, Accept, Goto, Enter, Event, manager,
         tickvars
<1>2. Frames'
  BY ThreadFacts
     DEF IInv, TypeOK, Frames, Plans, InStart, InStop, Call, Labels, PatchCamera,
         Accept, Goto, Enter
<1>3. Plans'
  BY ThreadFacts
     DEF IInv, TypeOK, Plans, InStart, PatchCamera, Accept, Goto, Enter, manager,
         tickvars
<1>4. Ownership'
  BY NoHandover DEF IInv, PatchCamera, manager
<1>5. QED
  BY <1>1, <1>2, <1>3, <1>4 DEF IInv

LEMMA DeleteCameraKeeps ==
    ASSUME IInv, NEW r \in Requests, NEW c \in Cameras, DeleteCamera(r, c)
    PROVE  IInv'
<1>1. TypeOK'
  BY ThreadFacts, CaptureAssumption
     DEF IInv, TypeOK, Labels, Call, DeleteCamera, Accept, Goto, Enter, Event, manager,
         tickvars
<1>2. Frames'
  BY ThreadFacts
     DEF IInv, TypeOK, Frames, InStart, InStop, Call, DeleteCamera, Accept, Goto,
         Enter
<1>3. Plans'
  BY ThreadFacts
     DEF IInv, TypeOK, Plans, InStart, DeleteCamera, Accept, Goto, Enter, manager,
         tickvars
<1>4. Ownership'
  BY NoHandover DEF IInv, DeleteCamera, manager
<1>5. QED
  BY <1>1, <1>2, <1>3, <1>4 DEF IInv

LEMMA RestartCameraKeeps ==
    ASSUME IInv, NEW r \in Requests, NEW c \in Cameras, RestartCamera(r, c)
    PROVE  IInv'
<1>1. TypeOK'
  BY ThreadFacts, CaptureAssumption
     DEF IInv, TypeOK, Labels, RestartCamera, Accept, Goto, Event, database, manager,
         tickvars
<1>2. Frames'
  BY ThreadFacts DEF IInv, TypeOK, Frames, InStart, InStop, RestartCamera, Accept, Goto
<1>3. Plans'
  BY ThreadFacts
     DEF IInv, TypeOK, Plans, InStart, RestartCamera, Accept, Goto, manager, tickvars
<1>4. Ownership'
  BY NoHandover DEF IInv, RestartCamera, manager
<1>5. QED
  BY <1>1, <1>2, <1>3, <1>4 DEF IInv

LEMMA RestartAllKeeps ==
    ASSUME IInv, NEW r \in Requests, RestartAll(r)
    PROVE  IInv'
<1>1. TypeOK'
  BY ThreadFacts, CaptureAssumption
     DEF IInv, TypeOK, Labels, RestartAll, Accept, Goto, Event, database, manager,
         tickvars
<1>2. Frames'
  BY ThreadFacts DEF IInv, TypeOK, Frames, InStart, InStop, RestartAll, Accept, Goto
<1>3. Plans'
  BY ThreadFacts
     DEF IInv, TypeOK, Plans, InStart, RestartAll, Accept, Goto, manager, tickvars
<1>4. Ownership'
  BY NoHandover DEF IInv, RestartAll, manager
<1>5. QED
  BY <1>1, <1>2, <1>3, <1>4 DEF IInv

LEMMA FetchFailsKeeps ==
    ASSUME IInv, NEW r \in Requests, FetchFails(r)
    PROVE  IInv'
<1>1. TypeOK'
  BY ThreadFacts, CaptureAssumption
     DEF IInv, TypeOK, Labels, FetchFails, Goto, Event, database, manager, tickvars
<1>2. Frames'
  BY ThreadFacts DEF IInv, TypeOK, Frames, InStart, InStop, FetchFails, Goto
<1>3. Plans'
  BY ThreadFacts DEF IInv, TypeOK, Plans, InStart, FetchFails, Goto, manager, tickvars
<1>4. Ownership'
  BY NoHandover DEF IInv, FetchFails, manager
<1>5. QED
  BY <1>1, <1>2, <1>3, <1>4 DEF IInv

LEMMA NextRestartKeeps ==
    ASSUME IInv, NEW r \in Requests, NextRestart(r)
    PROVE  IInv'
<1>1. TypeOK'
  BY ThreadFacts
     DEF IInv, TypeOK, Labels, Call, NextRestart, Goto, Enter, database, manager,
         tickvars
<1>2. Frames'
  BY ThreadFacts
     DEF IInv, TypeOK, Frames, InStart, InStop, Call, NextRestart, Goto, Enter
<1>3. Plans'
  BY ThreadFacts
     DEF IInv, TypeOK, Plans, InStart, NextRestart, Goto, Enter, manager, tickvars
<1>4. Ownership'
  BY NoHandover DEF IInv, NextRestart, manager
<1>5. QED
  BY <1>1, <1>2, <1>3, <1>4 DEF IInv

LEMMA RereadKeeps ==
    ASSUME IInv, NEW r \in Requests, Reread(r)
    PROVE  IInv'
<1> DEFINE c == call[r].cam
<1>1. r \in Threads /\ c \in Cameras /\ row[c] \in Row \cup {None}
  BY ThreadFacts DEF IInv, TypeOK, Frames, Call, Reread
<1>2. Ownership'
  BY NoHandover DEF IInv, Reread, manager
<1>3. CASE row[c] = None
  BY <1>1, <1>2, <1>3, ThreadFacts DEF IInv, TypeOK, Frames, Plans, InStart, InStop, Labels,
     Reread, Goto, database, manager, tickvars
<1>4. CASE row[c] # None
  <2>1. Enter(r, "pop", c, row[c], "respawn")
    BY <1>4 DEF Reread
  <2>2. "pop" \in Labels /\ "respawn" \in Labels /\ TypeOK
    BY DEF Labels, IInv
  <2> HIDE DEF c
  <2>3. /\ pc' \in [Threads -> Labels] /\ call' \in [Threads -> Call \cup {None}]
        /\ pc'[r] = "pop" /\ call'[r] \in Call /\ call'[r].row = row[c] /\ call'[r].ret = "respawn"
        /\ \A u \in Threads \ {r} : pc'[u] = pc[u] /\ call'[u] = call[u]
    BY <1>1, <2>1, <2>2, EnterFacts
  <2>4. TypeOK'
    BY <2>3 DEF IInv, TypeOK, Reread, database, manager, tickvars
  <2>5. Frames'
    BY <1>1, <1>4, <2>3, ThreadFacts DEF IInv, Frames, InStart, InStop
  <2>6. Plans'
    BY <2>3, ThreadFacts DEF IInv, Plans, InStart, Reread, manager, tickvars
  <2>7. QED
    BY <1>2, <2>4, <2>5, <2>6 DEF IInv
<1>5. QED
  BY <1>3, <1>4

LEMMA FetchKeeps ==
    ASSUME IInv, NEW r \in Requests, Fetch(r)
    PROVE  IInv'
<1> DEFINE c == call[r].cam
           new == [row[c] EXCEPT !.knobs = DefaultKnobs]
<1>1. r \in Threads /\ c \in Cameras
  BY ThreadFacts DEF IInv, Frames, Call, Fetch
<1>2. Ownership'
  BY NoHandover DEF IInv, Fetch, manager
<1>3. CASE pc' = [pc EXCEPT ![r] = "idle"] /\ call' = [call EXCEPT ![r] = None]
  BY ThreadFacts, <1>2, <1>3 DEF IInv, TypeOK, Frames, Plans, InStart, InStop, Labels,
     Fetch, database, manager, tickvars
<1>4. CASE Enter(r, "pop", c, None, "idle")
  BY ThreadFacts, <1>1, <1>2, <1>4 DEF IInv, TypeOK, Frames, Plans, InStart, InStop, Labels,
     Call, Enter, Goto, Fetch, database, manager, tickvars
<1>5. ASSUME Startable(row[c]), Enter(r, "check", c, new, "idle")
      PROVE  IInv'
  <2>1. new \in Row
    BY <1>1, <1>5, CaptureAssumption DEF IInv, TypeOK, Startable, On, Row
  <2>2. "check" \in Labels /\ "idle" \in Labels /\ TypeOK
    BY DEF Labels, IInv
  <2> HIDE DEF c, new
  <2>3. /\ pc' \in [Threads -> Labels] /\ call' \in [Threads -> Call \cup {None}]
        /\ pc'[r] = "check" /\ call'[r] \in Call /\ call'[r].row \in Row /\ call'[r].ret = "idle"
        /\ \A u \in Threads \ {r} : pc'[u] = pc[u] /\ call'[u] = call[u]
    BY <1>1, <1>5, <2>1, <2>2, EnterFacts
  <2>4. TypeOK'
    BY <2>3 DEF IInv, TypeOK, Fetch, database, manager, tickvars
  <2>5. Frames'
    BY <1>1, <2>3, ThreadFacts DEF IInv, Frames, InStart, InStop
  <2>6. Plans'
    BY <2>3, ThreadFacts DEF IInv, Plans, InStart, Fetch, manager, tickvars
  <2>7. QED
    BY <1>2, <2>4, <2>5, <2>6 DEF IInv
<1>6. QED
  BY <1>3, <1>4, <1>5 DEF Fetch, Goto

LEMMA RespawnKeeps ==
    ASSUME IInv, NEW r \in Requests, Respawn(r)
    PROVE  IInv'
<1> DEFINE c == call[r].cam
           read == call[r].row
<1>1. r \in Threads /\ c \in Cameras /\ read \in Row
  BY ThreadFacts DEF IInv, Frames, Call, Respawn
<1>2. Ownership'
  BY NoHandover DEF IInv, Respawn, manager
<1>3. CASE ~Startable(read)
  BY <1>1, <1>2, <1>3, ThreadFacts DEF IInv, TypeOK, Frames, Plans, InStart, InStop, Labels,
     Respawn, Goto, database, manager, tickvars
<1>4. CASE Startable(read)
  <2>1. Enter(r, "check", c, read, "next")
    BY <1>4 DEF Respawn
  <2>2. "check" \in Labels /\ "next" \in Labels /\ TypeOK
    BY DEF Labels, IInv
  <2> HIDE DEF c, read
  <2>3. /\ pc' \in [Threads -> Labels] /\ call' \in [Threads -> Call \cup {None}]
        /\ pc'[r] = "check" /\ call'[r] \in Call /\ call'[r].row \in Row /\ call'[r].ret = "next"
        /\ \A u \in Threads \ {r} : pc'[u] = pc[u] /\ call'[u] = call[u]
    BY <1>1, <2>1, <2>2, EnterFacts
  <2>4. TypeOK'
    BY <2>3 DEF IInv, TypeOK, Respawn, database, manager, tickvars
  <2>5. Frames'
    BY <1>1, <2>3, ThreadFacts DEF IInv, Frames, InStart, InStop
  <2>6. Plans'
    BY <2>3, ThreadFacts DEF IInv, Plans, InStart, Respawn, manager, tickvars
  <2>7. QED
    BY <1>2, <2>4, <2>5, <2>6 DEF IInv
<1>5. QED
  BY <1>3, <1>4

LEMMA TickReadKeeps ==
    ASSUME IInv, TickRead
    PROVE  IInv'
<1>1. TypeOK'
  BY ThreadFacts DEF IInv, TypeOK, Labels, TickRead, Goto, database, manager
<1>2. Frames'
  BY ThreadFacts DEF IInv, TypeOK, Frames, InStart, InStop, TickRead, Goto
<1>3. Plans'
  BY ThreadFacts DEF IInv, TypeOK, Plans, InStart, TickRead, Goto, manager
<1>4. Ownership'
  BY NoHandover DEF IInv, TickRead, manager
<1>5. QED
  BY <1>1, <1>2, <1>3, <1>4 DEF IInv

LEMMA TickReadFailsKeeps ==
    ASSUME IInv, TickReadFails
    PROVE  IInv'
<1>1. TypeOK'
  BY ThreadFacts, CaptureAssumption
     DEF IInv, TypeOK, Labels, TickReadFails, Goto, Event, database, manager, tickvars
<1>2. Frames'
  BY ThreadFacts DEF IInv, TypeOK, Frames, InStart, InStop, TickReadFails, Goto
<1>3. Plans'
  BY ThreadFacts
     DEF IInv, TypeOK, Plans, InStart, TickReadFails, Goto, manager, tickvars
<1>4. Ownership'
  BY NoHandover DEF IInv, TickReadFails, manager
<1>5. QED
  BY <1>1, <1>2, <1>3, <1>4 DEF IInv

LEMMA TickKeysKeeps ==
    ASSUME IInv, TickKeys
    PROVE  IInv'
<1>1. TypeOK'
  BY ThreadFacts DEF IInv, TypeOK, Labels, TickKeys, Goto, database, manager, tickvars
<1>2. Frames'
  BY ThreadFacts DEF IInv, TypeOK, Frames, InStart, InStop, TickKeys, Goto
<1>3. Plans'
  BY ThreadFacts DEF IInv, TypeOK, Plans, InStart, TickKeys, Goto, manager, tickvars
<1>4. Ownership'
  BY NoHandover DEF IInv, TickKeys, manager
<1>5. QED
  BY <1>1, <1>2, <1>3, <1>4 DEF IInv

LEMMA TickSweepKeeps ==
    ASSUME IInv, TickSweep
    PROVE  IInv'
<1>1. TypeOK'
  BY ThreadFacts
     DEF IInv, TypeOK, Labels, Call, TickSweep, Goto, Enter, database, manager,
         tickvars
<1>2. Frames'
  BY ThreadFacts DEF IInv, TypeOK, Frames, InStart, InStop, Call, TickSweep, Goto, Enter
<1>3. Plans'
  BY ThreadFacts
     DEF IInv, TypeOK, Plans, InStart, TickSweep, Goto, Enter, manager, tickvars
<1>4. Ownership'
  BY NoHandover DEF IInv, TickSweep, manager
<1>5. QED
  BY <1>1, <1>2, <1>3, <1>4 DEF IInv

LEMMA TickSnapshotKeeps ==
    ASSUME IInv, TickSnapshot
    PROVE  IInv'
<1>1. TypeOK'
  BY ThreadFacts DEF IInv, TypeOK, Labels, TickSnapshot, Goto, database, manager
<1>2. Frames'
  BY ThreadFacts DEF IInv, TypeOK, Frames, InStart, InStop, TickSnapshot, Goto
<1>3. Plans'
  BY ThreadFacts DEF IInv, TypeOK, Plans, InStart, TickSnapshot, Goto, manager
<1>4. Ownership'
  BY NoHandover DEF IInv, TickSnapshot, manager
<1>5. QED
  BY <1>1, <1>2, <1>3, <1>4 DEF IInv

LEMMA TickVisitKeeps ==
    ASSUME IInv, TickVisit
    PROVE  IInv'
<1>1. TypeOK'
  BY ThreadFacts
     DEF IInv, TypeOK, Labels, Call, TickVisit, Goto, Enter, database, manager,
         tickvars
<1>2. Frames'
  BY ThreadFacts
     DEF IInv, TypeOK, Frames, Plans, InStart, InStop, Call, Labels, TickVisit, Alive,
         Goto, Enter
<1>3. Plans'
  BY ThreadFacts
     DEF IInv, TypeOK, Plans, InStart, TickVisit, Goto, Enter, manager, tickvars
<1>4. Ownership'
  BY NoHandover DEF IInv, TickVisit, manager
<1>5. QED
  BY <1>1, <1>2, <1>3, <1>4 DEF IInv

LEMMA TickHotReloadKeeps ==
    ASSUME IInv, TickHotReload
    PROVE  IInv'
<1>1. TypeOK'
  BY ThreadFacts
     DEF IInv, TypeOK, Frames, Plans, Row, Stream, Call, InStart, TickHotReload, Alive,
         database, manager, tickvars
<1>2. Frames'
  BY ThreadFacts DEF IInv, TypeOK, Frames, InStart, InStop, TickHotReload
<1>3. Plans'
  BY ThreadFacts DEF IInv, TypeOK, Plans, InStart, TickHotReload, manager, tickvars
<1>4. Ownership'
  BY NoHandover DEF IInv, TickHotReload, manager
<1>5. QED
  BY <1>1, <1>2, <1>3, <1>4 DEF IInv

LEMMA TickDoneKeeps ==
    ASSUME IInv, TickDone
    PROVE  IInv'
<1>1. TypeOK'
  BY ThreadFacts
     DEF IInv, TypeOK, Frames, Plans, Labels, Call, InStart, TickDone, Nothing, Goto,
         database, manager
<1>2. Frames'
  BY ThreadFacts DEF IInv, TypeOK, Frames, InStart, InStop, TickDone, Goto
<1>3. Plans'
  BY ThreadFacts DEF IInv, TypeOK, Plans, InStart, TickDone, Goto, manager
<1>4. Ownership'
  BY NoHandover DEF IInv, TickDone, manager
<1>5. QED
  BY <1>1, <1>2, <1>3, <1>4 DEF IInv

LEMMA TickDropKeeps ==
    ASSUME IInv, TickDrop
    PROVE  IInv'
<1>1. TypeOK'
  BY ThreadFacts DEF IInv, TypeOK, Labels, TickDrop, Goto, database, tickvars
<1>2. Frames'
  BY ThreadFacts DEF IInv, TypeOK, Frames, InStart, InStop, TickDrop, Goto
<1>3. Plans'
  BY ThreadFacts DEF IInv, TypeOK, Plans, InStart, TickDrop, Goto, tickvars
<1>4. Ownership'
  BY ThreadFacts, CaptureAssumption
     DEF IInv, TypeOK, Ownership, Registered, TickDrop, Frames, Call, InStart
<1>5. QED
  BY <1>1, <1>2, <1>3, <1>4 DEF IInv

LEMMA BootKeeps ==
    ASSUME IInv, Boot
    PROVE  IInv'
<1>1. TypeOK'
  BY ThreadFacts DEF IInv, TypeOK, Labels, Boot, Goto, database
<1>2. Frames'
  BY ThreadFacts DEF IInv, TypeOK, Frames, InStart, InStop, Boot, Goto
<1>3. Plans'
  BY ThreadFacts DEF IInv, TypeOK, Plans, InStart, Boot, Goto
<1>4. Ownership'
  BY NoHandover DEF IInv, Boot
<1>5. QED
  BY <1>1, <1>2, <1>3, <1>4 DEF IInv

LEMMA BootNextKeeps ==
    ASSUME IInv, BootNext
    PROVE  IInv'
<1>1. TypeOK'
  BY ThreadFacts
     DEF IInv, TypeOK, Labels, Call, BootNext, Goto, Enter, database, manager,
         tickvars
<1>2. Frames'
  BY ThreadFacts
     DEF IInv, TypeOK, Frames, Plans, InStart, InStop, Call, Labels, BootNext, Goto,
         Enter
<1>3. Plans'
  BY ThreadFacts
     DEF IInv, TypeOK, Plans, InStart, BootNext, Goto, Enter, manager, tickvars
<1>4. Ownership'
  BY NoHandover DEF IInv, BootNext, manager
<1>5. QED
  BY <1>1, <1>2, <1>3, <1>4 DEF IInv

LEMMA BootDoneKeeps ==
    ASSUME IInv, BootDone
    PROVE  IInv'
<1>1. TypeOK'
  BY ThreadFacts
     DEF IInv, TypeOK, Frames, Plans, Labels, Call, InStart, BootDone, Nothing, Goto,
         database
<1>2. Frames'
  BY ThreadFacts DEF IInv, TypeOK, Frames, InStart, InStop, BootDone, Goto
<1>3. Plans'
  BY ThreadFacts DEF IInv, TypeOK, Plans, InStart, BootDone, Goto
<1>4. Ownership'
  BY NoHandover DEF IInv, BootDone
<1>5. QED
  BY <1>1, <1>2, <1>3, <1>4 DEF IInv

LEMMA UnscheduleKeeps ==
    ASSUME IInv, Unschedule
    PROVE  IInv'
<1>1. TypeOK'
  BY ThreadFacts DEF IInv, TypeOK, Labels, Unschedule, Goto, database, tickvars
<1>2. Frames'
  BY ThreadFacts DEF IInv, TypeOK, Frames, InStart, InStop, Unschedule, Goto
<1>3. Plans'
  BY ThreadFacts DEF IInv, TypeOK, Plans, InStart, Unschedule, Goto, tickvars
<1>4. Ownership'
  BY NoHandover DEF IInv, Unschedule
<1>5. QED
  BY <1>1, <1>2, <1>3, <1>4 DEF IInv

LEMMA BootReadFailsKeeps ==
    ASSUME IInv, BootReadFails
    PROVE  IInv'
<1>1. TypeOK'
  BY EventType DEF IInv, TypeOK, Labels, BootReadFails, Goto, database, tickvars
<1>2. Frames'
  BY ThreadFacts DEF IInv, TypeOK, Frames, InStart, InStop, BootReadFails, Goto
<1>3. Plans'
  BY ThreadFacts DEF IInv, TypeOK, Plans, InStart, BootReadFails, Goto, tickvars
<1>4. Ownership'
  BY NoHandover DEF IInv, BootReadFails
<1>5. QED
  BY <1>1, <1>2, <1>3, <1>4 DEF IInv

LEMMA StopKeeps ==
    ASSUME IInv, Stop
    PROVE  IInv'
<1>1. Registered \subseteq Workers
  BY DEF IInv, TypeOK, Registered
<1>2. TypeOK'
  BY <1>1, EventType DEF IInv, TypeOK, Labels, Stop, Goto, Nothing, database, tickvars
<1>3. Frames'
  BY ThreadFacts DEF IInv, TypeOK, Frames, InStart, InStop, Stop, Goto
<1>4. Plans'
  BY ThreadFacts DEF IInv, TypeOK, Plans, InStart, Stop, Goto, tickvars
<1>5. \A u \in Threads : hold'[u] = IF u = "main" THEN Registered ELSE hold[u]
  BY ThreadFacts DEF IInv, TypeOK, Stop
<1>6. Registered' = {} /\ \A c \in Cameras : registry'[c] = None
  BY DEF Registered, Stop, Nothing
<1>7. Ownership'
  BY <1>5, <1>6 DEF IInv, Ownership
<1>8. QED
  BY <1>2, <1>3, <1>4, <1>7 DEF IInv

LEMMA StopNextKeeps ==
    ASSUME IInv, StopNext
    PROVE  IInv'
<1>1. TypeOK'
  BY ThreadFacts DEF IInv, TypeOK, Labels, StopNext, Goto, database, manager, tickvars
<1>2. Frames'
  BY ThreadFacts DEF IInv, TypeOK, Frames, InStart, InStop, StopNext, Goto
<1>3. Plans'
  BY ThreadFacts DEF IInv, TypeOK, Plans, InStart, StopNext, Goto, manager, tickvars
<1>4. \A u \in Threads : hold'[u] \subseteq hold[u]
  BY DEF IInv, TypeOK, StopNext
<1>5. Ownership'
  BY <1>4 DEF IInv, Ownership, Registered, StopNext, manager
<1>6. QED
  BY <1>1, <1>2, <1>3, <1>5 DEF IInv

LEMMA RestartKeeps ==
    ASSUME IInv, Restart
    PROVE  IInv'
<1>1. TypeOK'
  <2>1. pc' \in [Threads -> Labels]
    BY DEF Restart, Asleep, Labels
  <2>2. QED
    BY <2>1, EventType DEF IInv, TypeOK, Restart, Nothing, database
<1>2. \A t \in Threads : pc'[t] = IF t = "main" THEN "down" ELSE "idle"
  BY DEF Restart, Asleep
<1>3. Frames'
  BY <1>2, ThreadFacts DEF Frames, InStart, InStop
<1>4. Plans'
  BY <1>2, ThreadFacts DEF Plans, InStart, Restart
<1>5. Ownership'
  BY DEF Ownership, Registered, Restart, Nothing
<1>6. QED
  BY <1>1, <1>3, <1>4, <1>5 DEF IInv

LEMMA OutsideWriteKeeps ==
    ASSUME IInv, NEW c \in Cameras, OutsideWrite(c)
    PROVE  IInv'
<1>1. TypeOK'
  BY ThreadFacts, CaptureAssumption
     DEF IInv, TypeOK, OutsideWrite, Event, manager, tickvars, locals
<1>2. Frames'
  BY ThreadFacts DEF IInv, TypeOK, Frames, InStart, InStop, OutsideWrite, locals
<1>3. Plans'
  BY ThreadFacts
     DEF IInv, TypeOK, Plans, InStart, OutsideWrite, manager, tickvars, locals
<1>4. Ownership'
  BY NoHandover DEF IInv, OutsideWrite, manager, locals
<1>5. QED
  BY <1>1, <1>2, <1>3, <1>4 DEF IInv

LEMMA WorkerEndsKeeps ==
    ASSUME IInv, NEW w \in Workers, WorkerEnds(w)
    PROVE  IInv'
<1>1. TypeOK'
  BY ThreadFacts, CaptureAssumption
     DEF IInv, TypeOK, WorkerEnds, Event, database, manager, tickvars, locals
<1>2. Frames'
  BY ThreadFacts DEF IInv, TypeOK, Frames, InStart, InStop, WorkerEnds, locals
<1>3. Plans'
  BY ThreadFacts DEF IInv, TypeOK, Plans, InStart, WorkerEnds, manager, tickvars, locals
<1>4. Ownership'
  BY NoHandover DEF IInv, WorkerEnds, manager, locals
<1>5. QED
  BY <1>1, <1>2, <1>3, <1>4 DEF IInv

LEMMA InitEstablishes == Init => IInv
<1> SUFFICES ASSUME Init PROVE IInv
  OBVIOUS
<1>1. \A t \in Threads : pc[t] = IF t = "main" THEN "down" ELSE "idle"
  BY DEF Init, Asleep
<1>2. TypeOK
  <2>1. fuel \in 0 .. MaxEvents
    BY CaptureAssumption DEF Init
  <2>2. pc \in [Threads -> Labels]
    BY DEF Init, Asleep, Labels
  <2>3. QED
    BY <2>1, <2>2 DEF Init, TypeOK, Nothing
<1>3. Frames
  BY <1>1, ThreadFacts DEF Frames, InStart, InStop
<1>4. Plans
  BY <1>1, ThreadFacts DEF Plans, InStart, Init
<1>5. Ownership
  BY DEF Ownership, Registered, Init, Nothing
<1>6. QED
  BY <1>2, <1>3, <1>4, <1>5 DEF IInv

LEMMA StartStopKeeps ==
    ASSUME IInv, NEW t \in Threads, StartStop(t)
    PROVE  IInv'
  BY CheckStartKeeps, SpawnKeeps, RegisterKeeps, PopKeeps, HaltKeeps DEF StartStop

LEMMA StutterKeeps ==
    ASSUME IInv, UNCHANGED vars
    PROVE  IInv'
<1>1. TypeOK'
  BY DEF IInv, TypeOK, vars
<1>2. Frames' /\ Plans'
  BY DEF IInv, Frames, Plans, vars
<1>3. Ownership'
  BY NoHandover DEF IInv, vars
<1>4. QED
  BY <1>1, <1>2, <1>3 DEF IInv

LEMMA NextKeeps == IInv /\ [Next]_vars => IInv'
<1> SUFFICES ASSUME IInv, [Next]_vars PROVE IInv'
  OBVIOUS
<1> USE ThreadFacts
<1>1. ASSUME NEW r \in Requests, RequestStep(r) PROVE IInv'
  BY <1>1, StartStopKeeps, FetchKeeps, NextRestartKeeps, RereadKeeps, RespawnKeeps DEF RequestStep
<1>2. ASSUME NEW r \in Requests, Arrival(r) PROVE IInv'
  BY <1>2, CreateCameraKeeps, PatchCameraKeeps, DeleteCameraKeeps, RestartCameraKeeps,
     RestartAllKeeps DEF Arrival
<1>3. CASE TickStep
  BY <1>3, StartStopKeeps, TickReadKeeps, TickKeysKeeps, TickSweepKeeps, TickSnapshotKeeps,
     TickVisitKeeps, TickDropKeeps, TickHotReloadKeeps, TickDoneKeeps DEF TickStep
<1>4. CASE MainStep
  BY <1>4, StartStopKeeps, BootKeeps, BootNextKeeps, BootDoneKeeps, UnscheduleKeeps,
     StopNextKeeps DEF MainStep
<1>5. CASE Stop
  BY <1>5, StopKeeps
<1>6. CASE Failure
  BY <1>6, SpawnFailsKeeps, FetchFailsKeeps, TickReadFailsKeeps, BootReadFailsKeeps DEF Failure
<1>7. CASE Environment
  BY <1>7, OutsideWriteKeeps, WorkerEndsKeeps, RestartKeeps DEF Environment
<1>8. CASE UNCHANGED vars
  BY <1>8, StutterKeeps
<1>9. QED
  BY <1>1, <1>2, <1>3, <1>4, <1>5, <1>6, <1>7, <1>8 DEF Next

\* IInv is an invariant of every behaviour of the supervisor.
THEOREM Invariance == Spec => []IInv
  BY InitEstablishes, NextKeeps, PTL DEF Spec

\* Every variable of the supervisor keeps its type; in particular a start never
\* builds a worker from a missing row, and a thread's frame is there when used.
THEOREM TypeCorrect == Spec => []TypeOK
<1>1. IInv => TypeOK
  BY DEF IInv
<1>2. QED
  BY <1>1, Invariance, PTL

\* However hooks, tick, boot and stop() interleave around self._lock, a worker is
\* in one place: under one key of _workers or in the hands of one thread.  So
\* pop-then-stop outside the lock (stop_camera, stop) never stops a worker twice,
\* nor leaves in the registry one that is being stopped.
THEOREM OwnershipHolds == Spec => []Ownership
<1>1. IInv => Ownership
  BY DEF IInv
<1>2. QED
  BY <1>1, Invariance, PTL

(***************************************************************************)
(* Who may lose a worker.  A thread has a worker in hand only from the     *)
(* moment it spawned or popped it until it registers or stops it, one at a *)
(* time unless it is stop(); and a worker serves the camera it is filed    *)
(* under.  So only a step that takes a live entry out of the registry      *)
(* without taking it in hand can orphan it: a register over a live entry,  *)
(* or the tick's drop of one.                                              *)
(***************************************************************************)
Holding == {"register", "halt", "unschedule", "halting"}

Hands ==
    /\ \A t \in Threads : hold[t] # {} => pc[t] \in Holding
    /\ \A t \in Threads : pc[t] \in {"register", "halt"} => \A v, w \in hold[t] : v = w

Labelled ==
    /\ \A c \in Cameras : Alive(registry[c]) => worker[registry[c]].cam = c
    /\ \A t \in Threads : \A w \in hold[t] :
         pc[t] = "register" /\ Alive(w) => worker[w].cam = call[t].cam

Custody == IInv /\ Hands /\ Labelled

\* A live worker leaves the registry and nobody takes it in hand.
Overtaken ==
    \/ \E t \in Threads : Register(t) /\ Alive(registry[call[t].cam])
    \/ TickDrop /\ Alive(registry[call["tick"].cam])

\* What a step does about custody: it keeps it, and loses no worker unless it
\* overtakes one.
Safe == Hands' /\ Labelled' /\ (NoOrphanWorker => NoOrphanWorker' \/ Overtaken)

\* A step that moves no worker, for whoever has one in hand stands still.
LEMMA NoMove ==
    ASSUME Custody, UNCHANGED <<registry, hold>>,
           \A u \in Threads : pc[u] \in Holding => pc'[u] = pc[u] /\ call'[u] = call[u],
           \A w \in Workers : worker'[w] # None =>
             worker[w] # None /\ worker'[w].cam = worker[w].cam
    PROVE  Safe
<1>1. Hands'
  BY DEF Custody, Hands, Holding
<1>2. Labelled'
  <2>1. /\ \A c \in Cameras : registry[c] \in Workers \cup {None}
        /\ \A t \in Threads : hold[t] \subseteq Workers
    BY DEF Custody, IInv, TypeOK
  <2>2. \A t \in Threads : \A w \in hold[t] : pc'[t] = pc[t] /\ call'[t] = call[t]
    BY DEF Custody, Hands
  <2>3. QED
    BY <2>1, <2>2 DEF Custody, Labelled, Alive
<1>3. NoOrphanWorker => NoOrphanWorker'
  BY DEF NoOrphanWorker, Registered
<1>4. QED
  BY <1>1, <1>2, <1>3 DEF Safe

LEMMA CheckStartSafe ==
    ASSUME Custody, NEW t \in Threads, CheckStart(t)
    PROVE  Safe
<1>1. \A u \in Threads : pc[u] \in Holding => pc'[u] = pc[u] /\ call'[u] = call[u]
  BY DEF Custody, IInv, TypeOK, Holding, CheckStart, Return, Goto
<1>2. QED
  BY <1>1, NoMove DEF CheckStart, manager

LEMMA SpawnFailsSafe ==
    ASSUME Custody, NEW t \in Threads, SpawnFails(t)
    PROVE  Safe
<1>1. \A u \in Threads : pc[u] \in Holding => pc'[u] = pc[u] /\ call'[u] = call[u]
  BY DEF Custody, IInv, TypeOK, Holding, SpawnFails, Return, Goto
<1>2. QED
  BY <1>1, NoMove DEF SpawnFails, manager

LEMMA SpawnSafe ==
    ASSUME Custody, NEW t \in Threads, Spawn(t)
    PROVE  Safe
<1>1. PICK w \in Workers :
        /\ Fresh(w)
        /\ worker' = [worker EXCEPT ![w] = [cam   |-> call[t].cam,
                                            url   |-> call[t].row.url,
                                            knobs |-> call[t].row.knobs]]
        /\ hold' = [hold EXCEPT ![t] = {w}]
  BY DEF Spawn
<1>2. /\ worker'[w].cam = call[t].cam
      /\ \A v \in Workers \ {w} : worker'[v] = worker[v]
  BY <1>1 DEF Custody, IInv, TypeOK
<1>3. \A u \in Threads : hold'[u] = IF u = t THEN {w} ELSE hold[u]
  BY <1>1 DEF Custody, IInv, TypeOK
<1>4. hold[t] = {}
  BY DEF Custody, Hands, Holding, Spawn
<1>5. /\ \A u \in Threads : pc'[u] = IF u = t THEN "register" ELSE pc[u]
      /\ UNCHANGED <<registry, call>>
  BY DEF Custody, IInv, TypeOK, Spawn, Goto, manager
<1>6. Hands'
  BY <1>3, <1>5 DEF Custody, Hands, Holding
<1>7. Labelled'
  <2>1. \A c \in Cameras : registry[c] # w
    BY <1>1, CaptureAssumption DEF Fresh, Registered
  <2>2. \A u \in Threads : w \notin hold[u] /\ hold[u] \subseteq Workers
    BY <1>1 DEF Fresh, Custody, IInv, TypeOK
  <2>3. \A c \in Cameras : Alive(registry[c])' => worker'[registry'[c]].cam = c
    BY <1>2, <1>5, <2>1 DEF Custody, Labelled, IInv, TypeOK, Alive
  <2>4. \A u \in Threads : \A v \in hold'[u] :
          pc'[u] = "register" /\ Alive(v)' => worker'[v].cam = call'[u].cam
    BY <1>2, <1>3, <1>5, <2>2 DEF Custody, Labelled, Alive
  <2>5. QED
    BY <2>3, <2>4 DEF Labelled
<1>8. NoOrphanWorker => NoOrphanWorker'
  <2> SUFFICES ASSUME NoOrphanWorker, NEW v \in Workers, worker'[v] # None
               PROVE  v \in Registered' \/ \E u \in Threads : v \in hold'[u]
    BY DEF NoOrphanWorker
  <2>1. CASE v = w
    BY <1>3, <2>1
  <2>2. CASE v # w
    BY <1>2, <1>3, <1>4, <1>5, <2>2 DEF NoOrphanWorker, Registered
  <2>3. QED
    BY <2>1, <2>2
<1>9. QED
  BY <1>6, <1>7, <1>8 DEF Safe

LEMMA RegisterSafe ==
    ASSUME Custody, NEW t \in Threads, Register(t)
    PROVE  Safe
<1>1. PICK w \in hold[t] : registry' = [registry EXCEPT ![call[t].cam] = w]
  BY DEF Register
<1>2. call[t] \in Call /\ call[t].cam \in Cameras /\ w \in Workers /\ hold[t] = {w}
  BY DEF Custody, Hands, IInv, TypeOK, Frames, InStart, Call, Register
<1>3. \A c \in Cameras : registry'[c] = IF c = call[t].cam THEN w ELSE registry[c]
  BY <1>1, <1>2 DEF Custody, IInv, TypeOK
<1>4. \A u \in Threads : hold'[u] = IF u = t THEN {} ELSE hold[u]
  BY DEF Custody, IInv, TypeOK, Register
<1>5. /\ \A u \in Threads \ {t} : pc'[u] = pc[u] /\ call'[u] = call[u]
      /\ worker' = worker
  BY DEF Custody, IInv, TypeOK, Register, Return, Goto
<1>6. Hands'
  <2>1. \A u \in Threads : hold'[u] # {} => pc'[u] \in Holding
    BY <1>4, <1>5 DEF Custody, Hands
  <2>2. \A u \in Threads : pc'[u] \in {"register", "halt"} => \A v, x \in hold'[u] : v = x
    BY <1>4, <1>5 DEF Custody, Hands
  <2>3. QED
    BY <2>1, <2>2 DEF Hands
<1>7. Labelled'
  <2>1. \A c \in Cameras : Alive(registry[c])' => worker'[registry'[c]].cam = c
    BY <1>1, <1>3, <1>5 DEF Custody, Labelled, Alive, Register
  <2>2. \A u \in Threads : \A v \in hold'[u] :
          pc'[u] = "register" /\ Alive(v)' => worker'[v].cam = call'[u].cam
    BY <1>4, <1>5 DEF Custody, Labelled, Alive
  <2>3. QED
    BY <2>1, <2>2 DEF Labelled
<1>8. NoOrphanWorker => NoOrphanWorker' \/ Overtaken
  <2> SUFFICES ASSUME NoOrphanWorker, ~Alive(registry[call[t].cam]),
                      NEW v \in Workers, worker'[v] # None
               PROVE  v \in Registered' \/ \E u \in Threads : v \in hold'[u]
    BY DEF NoOrphanWorker, Overtaken
  <2>1. CASE v \in hold[t]
    BY <1>2, <1>3, <2>1, CaptureAssumption DEF Registered
  <2>2. CASE v \in Registered
    <3>1. PICK c \in Cameras : registry[c] = v
      BY <2>2 DEF Registered
    <3>2. c # call[t].cam
      BY <1>5, <3>1, CaptureAssumption DEF Alive
    <3>3. QED
      BY <1>3, <3>1, <3>2, CaptureAssumption DEF Registered
  <2>3. CASE \E u \in Threads \ {t} : v \in hold[u]
    BY <1>4, <2>3
  <2>4. QED
    BY <1>5, <2>1, <2>2, <2>3 DEF NoOrphanWorker
<1>9. QED
  BY <1>6, <1>7, <1>8 DEF Safe

LEMMA PopSafe ==
    ASSUME Custody, NEW t \in Threads, Pop(t)
    PROVE  Safe
<1>1. call[t] \in Call /\ call[t].cam \in Cameras
  BY DEF Custody, IInv, Frames, InStop, Call, Pop
<1>2. CASE registry[call[t].cam] = None
  <2>1. \A u \in Threads : pc[u] \in Holding => pc'[u] = pc[u] /\ call'[u] = call[u]
    BY <1>2 DEF Custody, IInv, TypeOK, Holding, Pop, Return, Goto
  <2>2. QED
    BY <1>2, <2>1, NoMove DEF Pop
<1>3. CASE registry[call[t].cam] # None
  <2>1. \A c \in Cameras : registry'[c] = IF c = call[t].cam THEN None ELSE registry[c]
    BY <1>1, <1>3 DEF Custody, IInv, TypeOK, Pop
  <2>2. \A u \in Threads : hold'[u] = IF u = t THEN {registry[call[t].cam]} ELSE hold[u]
    BY <1>3 DEF Custody, IInv, TypeOK, Pop
  <2>3. /\ \A u \in Threads : pc'[u] = IF u = t THEN "halt" ELSE pc[u]
        /\ UNCHANGED <<worker, call>>
    BY <1>3 DEF Custody, IInv, TypeOK, Pop, Goto
  <2>4. hold[t] = {}
    BY DEF Custody, Hands, Holding, Pop
  <2>5. Hands'
    BY <2>2, <2>3 DEF Custody, Hands, Holding
  <2>6. Labelled'
    BY <2>1, <2>2, <2>3 DEF Custody, Labelled, Alive
  <2>7. NoOrphanWorker => NoOrphanWorker'
    BY <2>1, <2>2, <2>3, <2>4 DEF NoOrphanWorker, Registered
  <2>8. QED
    BY <2>5, <2>6, <2>7 DEF Safe
<1>4. QED
  BY <1>2, <1>3

LEMMA HaltSafe ==
    ASSUME Custody, NEW t \in Threads, Halt(t)
    PROVE  Safe
<1>1. /\ \A w \in Workers : worker'[w] = IF w \in hold[t] THEN None ELSE worker[w]
      /\ \A u \in Threads : hold'[u] = IF u = t THEN {} ELSE hold[u]
      /\ \A u \in Threads \ {t} : pc'[u] = pc[u] /\ call'[u] = call[u]
      /\ registry' = registry
  BY DEF Custody, IInv, TypeOK, Halt, Return, Goto, manager
<1>2. Hands'
  <2>1. \A u \in Threads : hold'[u] # {} => pc'[u] \in Holding
    BY <1>1 DEF Custody, Hands
  <2>2. \A u \in Threads : pc'[u] \in {"register", "halt"} => \A v, x \in hold'[u] : v = x
    BY <1>1 DEF Custody, Hands
  <2>3. QED
    BY <2>1, <2>2 DEF Hands
<1>3. Labelled'
  <2>1. /\ \A c \in Cameras : registry[c] \in Workers \cup {None}
        /\ \A u \in Threads : hold[u] \subseteq Workers
    BY DEF Custody, IInv, TypeOK
  <2>2. QED
    BY <1>1, <2>1 DEF Custody, Labelled, Alive
<1>4. NoOrphanWorker => NoOrphanWorker'
  BY <1>1 DEF NoOrphanWorker, Registered
<1>5. QED
  BY <1>2, <1>3, <1>4 DEF Safe

LEMMA TickDropSafe ==
    ASSUME Custody, TickDrop
    PROVE  Safe
<1> DEFINE c == call["tick"].cam
<1>1. c \in Cameras /\ \A d \in Cameras : registry'[d] = IF d = c THEN None ELSE registry[d]
  BY ThreadFacts DEF Custody, IInv, TypeOK, Frames, Call, TickDrop
<1>2. /\ \A u \in Threads : pc[u] \in Holding => pc'[u] = pc[u] /\ call'[u] = call[u]
      /\ UNCHANGED <<worker, hold, call>>
  BY DEF Custody, IInv, TypeOK, Holding, TickDrop, Goto
<1>3. Hands'
  BY <1>2 DEF Custody, Hands, Holding, IInv, TypeOK, TickDrop, Goto
<1>4. Labelled'
  BY <1>1, <1>2 DEF Custody, Labelled, Alive, Hands
<1>5. NoOrphanWorker => NoOrphanWorker' \/ Overtaken
  BY <1>1, <1>2 DEF NoOrphanWorker, Overtaken, Registered, Alive
<1>6. QED
  BY <1>3, <1>4, <1>5 DEF Safe

LEMMA TickHotReloadSafe ==
    ASSUME Custody, TickHotReload
    PROVE  Safe
<1>1. PICK c \in Cameras :
        /\ Alive(seen[c])
        /\ worker' = [worker EXCEPT ![seen[c]].knobs = plan[c].knobs]
  BY ThreadFacts DEF Custody, IInv, TypeOK, TickHotReload
<1>2. seen[c] \in Workers /\ worker[seen[c]] \in Stream
  BY <1>1 DEF Alive, Custody, IInv, TypeOK
<1>3. \A w \in Workers : worker'[w] # None =>
        worker[w] # None /\ worker'[w].cam = worker[w].cam
  <2> SUFFICES ASSUME NEW w \in Workers, worker'[w] # None
               PROVE  worker[w] # None /\ worker'[w].cam = worker[w].cam
    OBVIOUS
  <2>1. CASE w = seen[c]
    BY <1>1, <1>2, <2>1 DEF Alive, Stream, Custody, IInv, TypeOK
  <2>2. CASE w # seen[c]
    BY <1>1, <2>2 DEF Custody, IInv, TypeOK
  <2>3. QED
    BY <2>1, <2>2
<1>4. QED
  BY <1>3, NoMove DEF TickHotReload, manager

LEMMA StopSafe ==
    ASSUME Custody, Stop
    PROVE  Safe
<1>1. hold["main"] = {}
  BY ThreadFacts DEF Custody, Hands, Holding, Stop
<1>2. /\ \A u \in Threads : hold'[u] = IF u = "main" THEN Registered ELSE hold[u]
      /\ \A u \in Threads : pc'[u] = IF u = "main" THEN "unschedule" ELSE pc[u]
      /\ \A c \in Cameras : registry'[c] = None
      /\ UNCHANGED <<worker, call>>
  BY DEF Custody, IInv, TypeOK, Stop, Goto, Nothing
<1>3. Hands'
  BY <1>2 DEF Custody, Hands, Holding
<1>4. Labelled'
  BY <1>2 DEF Custody, Labelled, Alive
<1>5. NoOrphanWorker => NoOrphanWorker'
  <2> SUFFICES ASSUME NoOrphanWorker, NEW w \in Workers, worker'[w] # None
               PROVE  \E u \in Threads : w \in hold'[u]
    BY DEF NoOrphanWorker
  <2>1. CASE w \in Registered
    BY <1>2, <2>1, ThreadFacts
  <2>2. CASE \E u \in Threads : w \in hold[u]
    BY <1>1, <1>2, <2>2
  <2>3. QED
    BY <1>2, <2>1, <2>2 DEF NoOrphanWorker
<1>6. QED
  BY <1>3, <1>4, <1>5 DEF Safe

LEMMA UnscheduleSafe ==
    ASSUME Custody, Unschedule
    PROVE  Safe
<1>1. /\ \A u \in Threads : pc'[u] = IF u = "main" THEN "halting" ELSE pc[u]
      /\ UNCHANGED <<registry, worker, hold, call>>
  BY DEF Custody, IInv, TypeOK, Unschedule, Goto
<1>2. Hands' /\ Labelled'
  BY <1>1 DEF Custody, Hands, Labelled, Holding, Alive
<1>3. NoOrphanWorker => NoOrphanWorker'
  BY <1>1 DEF NoOrphanWorker, Registered
<1>4. QED
  BY <1>2, <1>3 DEF Safe

LEMMA StopNextSafe ==
    ASSUME Custody, StopNext
    PROVE  Safe
<1>1. CASE hold["main"] = {} /\ Goto("main", "stopped") /\ UNCHANGED <<worker, hold>>
  <2>1. /\ \A u \in Threads : pc'[u] = IF u = "main" THEN "stopped" ELSE pc[u]
        /\ UNCHANGED <<registry, worker, hold, call>>
    BY <1>1 DEF Custody, IInv, TypeOK, StopNext, Goto, manager
  <2>2. Hands' /\ Labelled'
    BY <1>1, <2>1 DEF Custody, Hands, Labelled, Holding, Alive
  <2>3. NoOrphanWorker => NoOrphanWorker'
    BY <2>1 DEF NoOrphanWorker, Registered
  <2>4. QED
    BY <2>2, <2>3 DEF Safe
<1>2. CASE \E w \in hold["main"] : /\ worker' = [worker EXCEPT ![w] = None]
                                   /\ hold' = [hold EXCEPT !["main"] = @ \ {w}]
                                   /\ UNCHANGED pc
  <2>1. PICK w \in hold["main"] : /\ worker' = [worker EXCEPT ![w] = None]
                                  /\ hold' = [hold EXCEPT !["main"] = @ \ {w}]
                                  /\ UNCHANGED pc
    BY <1>2
  <2>2. /\ \A v \in Workers : worker'[v] = IF v = w THEN None ELSE worker[v]
        /\ \A u \in Threads : hold'[u] = IF u = "main" THEN hold[u] \ {w} ELSE hold[u]
        /\ UNCHANGED <<registry, pc, call>>
    BY <2>1 DEF Custody, IInv, TypeOK, StopNext, manager
  <2>3. Hands'
    BY <2>2 DEF Custody, Hands
  <2>4. Labelled'
    <3>1. /\ \A c \in Cameras : registry[c] \in Workers \cup {None}
          /\ \A u \in Threads : hold[u] \subseteq Workers
      BY DEF Custody, IInv, TypeOK
    <3>2. QED
      BY ZenonT(30), <2>2, <3>1 DEF Custody, Labelled, Alive
  <2>5. NoOrphanWorker => NoOrphanWorker'
    BY <2>2 DEF NoOrphanWorker, Registered
  <2>6. QED
    BY <2>3, <2>4, <2>5 DEF Safe
<1>3. QED
  BY <1>1, <1>2 DEF StopNext

LEMMA RestartSafe ==
    ASSUME Custody, Restart
    PROVE  Safe
<1>1. /\ \A t \in Threads : hold'[t] = {}
      /\ \A c \in Cameras : registry'[c] = None
      /\ \A w \in Workers : worker'[w] = None
  BY DEF Restart, Nothing
<1>2. QED
  BY <1>1 DEF Safe, Hands, Labelled, Alive, NoOrphanWorker

LEMMA WorkerEndsSafe ==
    ASSUME Custody, NEW w \in Workers, WorkerEnds(w)
    PROVE  Safe
<1>1. \A v \in Workers : worker'[v] = IF v = w THEN None ELSE worker[v]
  BY DEF Custody, IInv, TypeOK, WorkerEnds
<1>2. QED
  BY <1>1, NoMove DEF WorkerEnds, manager, locals

\* The steps in which nobody touches the registry, a worker or what is in hand.
Quiet == \/ \E r \in Requests : \/ Fetch(r) \/ NextRestart(r) \/ Reread(r) \/ Respawn(r)
                                \/ Arrival(r) \/ FetchFails(r)
         \/ TickRead \/ TickReadFails \/ TickKeys \/ TickSweep \/ TickSnapshot
         \/ TickVisit \/ TickDone
         \/ Boot \/ BootReadFails \/ BootNext \/ BootDone
         \/ \E c \in Cameras : OutsideWrite(c)
         \/ UNCHANGED vars

LEMMA QuietSafe ==
    ASSUME Custody, Quiet
    PROVE  Safe
<1> DEFINE Still == /\ UNCHANGED <<registry, worker, hold>>
                    /\ \A u \in Threads : pc[u] \in Holding => pc'[u] = pc[u] /\ call'[u] = call[u]
<1> SUFFICES Still
  BY NoMove
<1>1. ASSUME NEW r \in Requests,
             Fetch(r) \/ NextRestart(r) \/ Reread(r) \/ Respawn(r) \/ FetchFails(r)
      PROVE  Still
  BY <1>1 DEF Custody, IInv, TypeOK, Holding, Fetch, NextRestart, Reread, Respawn, FetchFails,
       Enter, Goto, manager
<1>2. ASSUME NEW r \in Requests, Arrival(r)
      PROVE  Still
  BY <1>2 DEF Custody, IInv, TypeOK, Holding, Arrival, CreateCamera, PatchCamera, DeleteCamera,
       RestartCamera, RestartAll, Accept, Enter, Goto, manager
<1>3. CASE TickRead \/ TickReadFails \/ TickKeys \/ TickSweep
  BY <1>3 DEF Custody, IInv, TypeOK, Holding, TickRead, TickReadFails, TickKeys, TickSweep,
       Enter, Goto, manager
<1>4. CASE TickSnapshot \/ TickVisit \/ TickDone
  BY <1>4 DEF Custody, IInv, TypeOK, Holding, TickSnapshot, TickVisit, TickDone,
       Enter, Goto, manager
<1>5. CASE Boot \/ BootReadFails \/ BootNext \/ BootDone
  BY <1>5 DEF Custody, IInv, TypeOK, Holding, Boot, BootReadFails, BootNext, BootDone,
       Enter, Goto, manager
<1>6. CASE UNCHANGED vars \/ \E c \in Cameras : OutsideWrite(c)
  BY <1>6 DEF OutsideWrite, vars, manager, locals
<1>7. QED
  BY <1>1, <1>2, <1>3, <1>4, <1>5, <1>6 DEF Quiet

LEMMA StartStopSafe ==
    ASSUME Custody, NEW t \in Threads, StartStop(t)
    PROVE  Safe
  BY CheckStartSafe, SpawnSafe, RegisterSafe, PopSafe, HaltSafe DEF StartStop

LEMMA StepSafe == Custody /\ [Next]_vars => Safe
<1> SUFFICES ASSUME Custody, [Next]_vars PROVE Safe
  OBVIOUS
<1> USE ThreadFacts
<1>1. ASSUME NEW r \in Requests, RequestStep(r) \/ Arrival(r) PROVE Safe
  BY <1>1, StartStopSafe, QuietSafe DEF RequestStep, Quiet
<1>2. CASE TickStep
  BY <1>2, StartStopSafe, QuietSafe, TickDropSafe, TickHotReloadSafe DEF TickStep, Quiet
<1>3. CASE MainStep
  BY <1>3, StartStopSafe, QuietSafe, UnscheduleSafe, StopNextSafe DEF MainStep, Quiet
<1>4. CASE Stop
  BY <1>4, StopSafe
<1>5. CASE Failure
  BY <1>5, SpawnFailsSafe, QuietSafe DEF Failure, Quiet
<1>6. CASE Environment
  BY <1>6, QuietSafe, WorkerEndsSafe, RestartSafe DEF Environment, Quiet
<1>7. CASE UNCHANGED vars
  BY <1>7, QuietSafe DEF Quiet
<1>8. QED
  BY <1>1, <1>2, <1>3, <1>4, <1>5, <1>6, <1>7 DEF Next

LEMMA InitCustody == Init => Custody /\ NoOrphanWorker
<1> SUFFICES ASSUME Init PROVE Custody /\ NoOrphanWorker
  OBVIOUS
<1>1. /\ \A t \in Threads : hold[t] = {}
      /\ \A c \in Cameras : registry[c] = None
      /\ \A w \in Workers : worker[w] = None
  BY DEF Init, Nothing
<1>2. QED
  BY <1>1, InitEstablishes DEF Custody, Hands, Labelled, Alive, NoOrphanWorker

\* However many requests, ticks, failures and crashes interleave: a worker is kept
\* under its camera's key, and threads have at most one in hand.
THEOREM CustodyHolds == Spec => []Custody
<1>1. Custody /\ [Next]_vars => Custody'
  BY StepSafe, NextKeeps DEF Custody, Safe
<1>2. QED
  BY <1>1, InitCustody, PTL DEF Spec

\* Only two steps of the code can lose a running worker, whoever races with them:
\* start_camera storing a new worker over a live entry, and the tick popping a
\* live one it took for dead.
THEOREM OnlyOvertakingOrphans ==
    Spec => [][NoOrphanWorker /\ ~NoOrphanWorker' => Overtaken]_vars
<1>1. Custody /\ [Next]_vars => [NoOrphanWorker /\ ~NoOrphanWorker' => Overtaken]_vars
  BY StepSafe DEF Safe
<1>2. QED
  BY <1>1, CustodyHolds, PTL DEF Spec

(***************************************************************************)
(* Without request threads nobody overtakes: the tick is alone with the    *)
(* boot, which it follows, and with stop().                                *)
(***************************************************************************)

\* What the tick or the boot starts or drops has no live worker, and the tick's
\* copy of the registry is stale only where stop() emptied it.
Unrivalled ==
    /\ \A t \in Threads : pc[t] \in {"spawn", "register"} => ~Alive(registry[call[t].cam])
    /\ pc["tick"] = "drop" => ~Alive(registry[call["tick"].cam])
    /\ pc["tick"] \in {"visit", "drop"} \cup InStart =>
         \A c \in todo["tick"] : registry[c] \in {seen[c], None}
    /\ pc["tick"] \in {"drop"} \cup InStart => call["tick"].cam \notin todo["tick"]

LEMMA TwoThreads ==
    ASSUME Requests = {} PROVE Threads = {"tick", "main"}
  BY DEF Threads

\* A step that starts nothing and revives nothing.
LEMMA NothingStarts ==
    ASSUME Requests = {}, Custody, Unrivalled, UNCHANGED <<seen, todo>>,
           \A c \in Cameras : registry'[c] \in {registry[c], None},
           \A w \in Workers : worker[w] = None => worker'[w] = None,
           \A t \in Threads :
             /\ pc'[t] \in {"spawn", "register"} => pc[t] \in {"spawn", "register"}
             /\ pc'[t] = "drop" => pc[t] = "drop"
             /\ pc'[t] \in {"visit", "drop"} \cup InStart => pc[t] \in {"visit", "drop"} \cup InStart
             /\ pc'[t] \in {"drop"} \cup InStart =>
                  pc[t] \in {"drop"} \cup InStart /\ call'[t] = call[t]
    PROVE  Unrivalled'
<1>1. \A t \in Threads : pc[t] \in {"drop"} \cup InStart => call[t].cam \in Cameras
  BY DEF Custody, IInv, Frames, Call, InStart
<1>2. \A c \in Cameras : ~Alive(registry[c]) => ~Alive(registry[c])'
  BY DEF Custody, IInv, TypeOK, Alive
<1>3. \A t \in Threads : pc'[t] \in {"spawn", "register"} => ~Alive(registry[call[t].cam])'
  BY <1>1, <1>2 DEF Unrivalled, InStart
<1>4. pc'["tick"] = "drop" => ~Alive(registry[call["tick"].cam])'
  BY <1>1, <1>2, ThreadFacts DEF Unrivalled, InStart
<1>5. pc'["tick"] \in {"visit", "drop"} \cup InStart =>
        \A c \in todo'["tick"] : registry'[c] \in {seen'[c], None}
  BY ThreadFacts DEF Unrivalled, Custody, IInv, TypeOK
<1>6. pc'["tick"] \in {"drop"} \cup InStart => call'["tick"].cam \notin todo'["tick"]
  BY ThreadFacts DEF Unrivalled
<1>7. \A t \in Threads : pc'[t] \in {"spawn", "register", "drop"} => call'[t] = call[t]
  BY DEF InStart
<1>8. QED
  BY <1>3, <1>4, <1>5, <1>6, <1>7, ThreadFacts DEF Unrivalled, Alive

LEMMA CheckStartUnrivalled ==
    ASSUME Requests = {}, Custody, Unrivalled, NEW t \in Threads, CheckStart(t)
    PROVE  Unrivalled'
<1>1. UNCHANGED <<registry, worker, seen, todo>>
  BY DEF CheckStart, manager, tickvars
<1>2. CASE ~enabled \/ Alive(registry[call[t].cam])
  <2>1. /\ pc'[t] \notin {"drop"} \cup InStart
        /\ pc'[t] = "visit" => pc[t] \in InStart
        /\ \A u \in Threads \ {t} : pc'[u] = pc[u] /\ call'[u] = call[u]
    BY <1>2, TwoThreads, ThreadFacts
       DEF Custody, IInv, TypeOK, Frames, CheckStart, Return, Goto, InStart, InStop
  <2>2. QED
    BY <1>1, <2>1, NothingStarts DEF InStart
<1>3. CASE ~(~enabled \/ Alive(registry[call[t].cam]))
  <2>1. /\ \A u \in Threads : pc'[u] = IF u = t THEN "spawn" ELSE pc[u]
        /\ call' = call /\ pc[t] = "check"
    BY <1>3 DEF Custody, IInv, TypeOK, CheckStart, Goto
  <2>2. QED
    BY <1>1, <1>3, <2>1, ThreadFacts DEF Unrivalled, Alive, InStart
<1>4. QED
  BY <1>2, <1>3

LEMMA SpawnUnrivalled ==
    ASSUME Requests = {}, Custody, Unrivalled, NEW t \in Threads, Spawn(t)
    PROVE  Unrivalled'
<1>1. PICK w \in Workers :
        /\ Fresh(w)
        /\ worker' = [worker EXCEPT ![w] = [cam   |-> call[t].cam,
                                            url   |-> call[t].row.url,
                                            knobs |-> call[t].row.knobs]]
  BY DEF Spawn
<1>2. \A c \in Cameras : ~Alive(registry[c]) => ~Alive(registry[c])'
  <2>1. \A c \in Cameras : registry[c] # None => registry[c] # w
    BY <1>1, CaptureAssumption DEF Fresh, Registered
  <2>2. \A v \in Workers \ {w} : worker'[v] = worker[v]
    BY <1>1 DEF Custody, IInv, TypeOK
  <2>3. registry' = registry
    BY DEF Spawn, manager
  <2>4. QED
    BY <2>1, <2>2, <2>3 DEF Alive, Custody, IInv, TypeOK
<1>3. /\ \A u \in Threads : pc'[u] = IF u = t THEN "register" ELSE pc[u]
      /\ UNCHANGED <<registry, call, seen, todo>> /\ pc[t] = "spawn"
  BY DEF Custody, IInv, TypeOK, Spawn, Goto, manager, tickvars
<1>4. \A u \in Threads : pc[u] \in {"spawn", "register", "drop"} => call[u].cam \in Cameras
  BY DEF Custody, IInv, Frames, Call, InStart
<1>5. \A u \in Threads : pc'[u] \in {"spawn", "register"} => ~Alive(registry[call[u].cam])'
  BY <1>2, <1>3, <1>4 DEF Unrivalled
<1>6. pc'["tick"] = "drop" => ~Alive(registry[call["tick"].cam])'
  BY <1>2, <1>3, <1>4, ThreadFacts DEF Unrivalled
<1>7. QED
  BY <1>3, <1>5, <1>6, ThreadFacts DEF Unrivalled, InStart, Alive

LEMMA SpawnFailsUnrivalled ==
    ASSUME Requests = {}, Custody, Unrivalled, NEW t \in Threads, SpawnFails(t)
    PROVE  Unrivalled'
<1>1. /\ pc'[t] \notin {"drop"} \cup InStart
      /\ pc'[t] = "visit" => pc[t] \in InStart
      /\ \A u \in Threads \ {t} : pc'[u] = pc[u] /\ call'[u] = call[u]
  BY TwoThreads, ThreadFacts
     DEF Custody, IInv, TypeOK, Frames, SpawnFails, Return, Goto, InStart, InStop
<1>2. \A c \in Cameras : registry'[c] \in {registry[c], None}
  BY DEF Custody, IInv, TypeOK, Frames, Call, InStop, SpawnFails, manager
<1>3. \A w \in Workers : worker[w] = None => worker'[w] = None
  BY DEF Custody, IInv, TypeOK, SpawnFails
<1>4. QED
  BY <1>1, <1>2, <1>3, NothingStarts DEF SpawnFails, InStart, tickvars

LEMMA RegisterUnrivalled ==
    ASSUME Requests = {}, Custody, Unrivalled, NEW t \in Threads, Register(t)
    PROVE  Unrivalled'
<1>1. PICK w \in hold[t] : registry' = [registry EXCEPT ![call[t].cam] = w]
  BY DEF Register
<1>2. /\ \A c \in Cameras \ {call[t].cam} : registry'[c] = registry[c]
      /\ UNCHANGED <<seen, todo>>
  BY <1>1 DEF Custody, IInv, TypeOK, Register, tickvars
<1>3. \A u \in Threads \ {t} : pc'[u] = pc[u] /\ pc[u] \notin InStart \cup {"visit", "drop"}
  BY TwoThreads, ThreadFacts
     DEF Custody, IInv, TypeOK, Frames, Plans, InStart, Register, Return, Goto
<1>4. CASE t = "tick"
  <2>1. pc'[t] = "visit"
    BY <1>4, ThreadFacts DEF Custody, IInv, TypeOK, Frames, InStart, Register, Return, Goto
  <2>2. call[t].cam \notin todo[t] /\ \A c \in todo[t] : registry[c] \in {seen[c], None}
    BY <1>4 DEF Unrivalled, InStart, Register
  <2>3. \A c \in todo'["tick"] : registry'[c] \in {seen'[c], None}
    BY <1>2, <1>4, <2>2 DEF Custody, IInv, TypeOK
  <2>4. QED
    BY <1>3, <1>4, <2>1, <2>3 DEF Unrivalled, InStart
<1>5. CASE t = "main"
  <2>1. pc'[t] = "boot" /\ pc'["tick"] = pc["tick"] /\ pc["tick"] = "idle"
    BY <1>5, ThreadFacts
       DEF Custody, IInv, TypeOK, Frames, Plans, InStart, Register, Return, Goto
  <2>2. QED
    BY <1>3, <1>5, <2>1 DEF Unrivalled, InStart
<1>6. QED
  BY <1>4, <1>5, TwoThreads

LEMMA PopUnrivalled ==
    ASSUME Requests = {}, Custody, Unrivalled, NEW t \in Threads, Pop(t)
    PROVE  Unrivalled'
<1>1. /\ pc'[t] \notin {"drop"} \cup InStart
      /\ pc'[t] = "visit" => pc[t] \in InStart
      /\ \A u \in Threads \ {t} : pc'[u] = pc[u] /\ call'[u] = call[u]
  BY TwoThreads, ThreadFacts
     DEF Custody, IInv, TypeOK, Frames, Pop, Return, Goto, InStart, InStop
<1>2. \A c \in Cameras : registry'[c] \in {registry[c], None}
  BY DEF Custody, IInv, TypeOK, Frames, Call, InStop, Pop, manager
<1>3. \A w \in Workers : worker[w] = None => worker'[w] = None
  BY DEF Custody, IInv, TypeOK, Pop
<1>4. QED
  BY <1>1, <1>2, <1>3, NothingStarts DEF Pop, InStart, tickvars

LEMMA HaltUnrivalled ==
    ASSUME Requests = {}, Custody, Unrivalled, NEW t \in Threads, Halt(t)
    PROVE  Unrivalled'
<1>1. /\ pc'[t] \notin {"drop"} \cup InStart
      /\ pc'[t] = "visit" => pc[t] \in InStart
      /\ \A u \in Threads \ {t} : pc'[u] = pc[u] /\ call'[u] = call[u]
  BY TwoThreads, ThreadFacts
     DEF Custody, IInv, TypeOK, Frames, Halt, Return, Goto, InStart, InStop
<1>2. \A c \in Cameras : registry'[c] \in {registry[c], None}
  BY DEF Custody, IInv, TypeOK, Frames, Call, InStop, Halt, manager
<1>3. \A w \in Workers : worker[w] = None => worker'[w] = None
  BY DEF Custody, IInv, TypeOK, Halt
<1>4. QED
  BY <1>1, <1>2, <1>3, NothingStarts DEF Halt, InStart, tickvars

LEMMA TickReadUnrivalled ==
    ASSUME Requests = {}, Custody, Unrivalled, TickRead
    PROVE  Unrivalled'
  BY ThreadFacts
     DEF Custody, IInv, TypeOK, Frames, Plans, Unrivalled, Alive, InStart, InStop,
         TickRead, Goto, manager

LEMMA TickReadFailsUnrivalled ==
    ASSUME Requests = {}, Custody, Unrivalled, TickReadFails
    PROVE  Unrivalled'
  BY ThreadFacts
     DEF Custody, IInv, TypeOK, Frames, Plans, Unrivalled, Alive, InStart, InStop,
         TickReadFails, Goto, manager, tickvars

LEMMA TickKeysUnrivalled ==
    ASSUME Requests = {}, Custody, Unrivalled, TickKeys
    PROVE  Unrivalled'
  BY ThreadFacts
     DEF Custody, IInv, TypeOK, Frames, Plans, Unrivalled, Alive, InStart, InStop,
         TickKeys, Goto, manager, tickvars

LEMMA TickSweepUnrivalled ==
    ASSUME Requests = {}, Custody, Unrivalled, TickSweep
    PROVE  Unrivalled'
  BY ThreadFacts
     DEF Custody, IInv, TypeOK, Frames, Plans, Unrivalled, Alive, InStart, InStop,
         TickSweep, Enter, Goto, manager, tickvars

LEMMA TickSnapshotUnrivalled ==
    ASSUME Requests = {}, Custody, Unrivalled, TickSnapshot
    PROVE  Unrivalled'
  BY ThreadFacts
     DEF Custody, IInv, TypeOK, Frames, Plans, Unrivalled, Alive, InStart, InStop,
         TickSnapshot, Goto, manager

LEMMA TickVisitUnrivalled ==
    ASSUME Requests = {}, Custody, Unrivalled, TickVisit
    PROVE  Unrivalled'
  BY ThreadFacts
     DEF Custody, IInv, TypeOK, Frames, Plans, Unrivalled, Alive, InStart, InStop,
         TickVisit, Enter, Goto, manager, tickvars

LEMMA TickDropUnrivalled ==
    ASSUME Requests = {}, Custody, Unrivalled, TickDrop
    PROVE  Unrivalled'
  BY ThreadFacts
     DEF Custody, IInv, TypeOK, Frames, Plans, Unrivalled, Alive, InStart, InStop,
         TickDrop, Goto, tickvars

LEMMA TickHotReloadUnrivalled ==
    ASSUME Requests = {}, Custody, Unrivalled, TickHotReload
    PROVE  Unrivalled'
  BY ThreadFacts
     DEF Custody, IInv, TypeOK, Frames, Plans, Unrivalled, Alive, InStart, InStop,
         TickHotReload, manager, tickvars

LEMMA TickDoneUnrivalled ==
    ASSUME Requests = {}, Custody, Unrivalled, TickDone
    PROVE  Unrivalled'
  BY ThreadFacts
     DEF Custody, IInv, TypeOK, Frames, Plans, Unrivalled, Alive, InStart, InStop,
         TickDone, Goto, manager

LEMMA BootUnrivalled ==
    ASSUME Requests = {}, Custody, Unrivalled, Boot
    PROVE  Unrivalled'
  BY ThreadFacts
     DEF Custody, IInv, TypeOK, Frames, Plans, Unrivalled, Alive, InStart, InStop,
         Boot, Goto

LEMMA BootReadFailsUnrivalled ==
    ASSUME Requests = {}, Custody, Unrivalled, BootReadFails
    PROVE  Unrivalled'
  BY ThreadFacts
     DEF Custody, IInv, TypeOK, Frames, Plans, Unrivalled, Alive, InStart, InStop,
         BootReadFails, Goto, tickvars

LEMMA BootNextUnrivalled ==
    ASSUME Requests = {}, Custody, Unrivalled, BootNext
    PROVE  Unrivalled'
  BY ThreadFacts
     DEF Custody, IInv, TypeOK, Frames, Plans, Unrivalled, Alive, InStart, InStop,
         BootNext, Enter, Goto, manager, tickvars

LEMMA BootDoneUnrivalled ==
    ASSUME Requests = {}, Custody, Unrivalled, BootDone
    PROVE  Unrivalled'
  BY ThreadFacts
     DEF Custody, IInv, TypeOK, Frames, Plans, Unrivalled, Alive, InStart, InStop,
         BootDone, Goto

LEMMA StopUnrivalled ==
    ASSUME Requests = {}, Custody, Unrivalled, Stop
    PROVE  Unrivalled'
<1>1. \A c \in Cameras : registry'[c] = None
  BY DEF Stop, Nothing
<1>2. \A t \in Threads : pc'[t] = IF t = "main" THEN "unschedule" ELSE pc[t]
  BY DEF Custody, IInv, TypeOK, Stop, Goto
<1>3. QED
  BY <1>1, <1>2, NothingStarts DEF Stop, InStart, tickvars

LEMMA UnscheduleUnrivalled ==
    ASSUME Requests = {}, Custody, Unrivalled, Unschedule
    PROVE  Unrivalled'
  BY ThreadFacts
     DEF Custody, IInv, TypeOK, Frames, Plans, Unrivalled, Alive, InStart, InStop,
         Unschedule, Goto, tickvars

LEMMA StopNextUnrivalled ==
    ASSUME Requests = {}, Custody, Unrivalled, StopNext
    PROVE  Unrivalled'
<1>1. \A w \in Workers : worker[w] = None => worker'[w] = None
  BY DEF Custody, IInv, TypeOK, StopNext
<1>2. \A t \in Threads : pc'[t] = pc[t] \/ pc'[t] = "stopped"
  BY DEF Custody, IInv, TypeOK, StopNext, Goto
<1>3. QED
  BY <1>1, <1>2, NothingStarts DEF StopNext, InStart, tickvars, manager

LEMMA OutsideWriteUnrivalled ==
    ASSUME Requests = {}, Custody, Unrivalled, NEW c \in Cameras, OutsideWrite(c)
    PROVE  Unrivalled'
  BY ThreadFacts
     DEF Custody, IInv, TypeOK, Frames, Plans, Unrivalled, Alive, InStart, InStop,
         OutsideWrite, manager, tickvars, locals

LEMMA WorkerEndsUnrivalled ==
    ASSUME Requests = {}, Custody, Unrivalled, NEW w \in Workers, WorkerEnds(w)
    PROVE  Unrivalled'
  BY ThreadFacts
     DEF Custody, IInv, TypeOK, Frames, Plans, Unrivalled, Alive, InStart, InStop,
         WorkerEnds, manager, tickvars, locals

LEMMA RestartUnrivalled ==
    ASSUME Requests = {}, Custody, Unrivalled, Restart
    PROVE  Unrivalled'
  BY ThreadFacts
     DEF Custody, IInv, TypeOK, Frames, Plans, Unrivalled, Alive, InStart, InStop,
         Restart, Asleep, Nothing

LEMMA StutterUnrivalled ==
    ASSUME Requests = {}, Custody, Unrivalled, UNCHANGED vars
    PROVE  Unrivalled'
  BY ThreadFacts
     DEF Custody, IInv, TypeOK, Frames, Plans, Unrivalled, Alive, InStart, InStop,
         vars

LEMMA NextUnrivalled ==
    ASSUME Requests = {}
    PROVE  Custody /\ Unrivalled /\ [Next]_vars => Unrivalled'
<1> SUFFICES ASSUME Custody, Unrivalled, [Next]_vars PROVE Unrivalled'
  OBVIOUS
<1> USE ThreadFacts
<1>1. ASSUME NEW t \in Threads, StartStop(t) PROVE Unrivalled'
  BY <1>1, CheckStartUnrivalled, SpawnUnrivalled, RegisterUnrivalled, PopUnrivalled,
     HaltUnrivalled DEF StartStop
<1>2. CASE TickStep
  BY <1>1, <1>2, TickReadUnrivalled, TickKeysUnrivalled, TickSweepUnrivalled,
     TickSnapshotUnrivalled, TickVisitUnrivalled, TickDropUnrivalled, TickHotReloadUnrivalled,
     TickDoneUnrivalled DEF TickStep
<1>3. CASE MainStep
  BY <1>1, <1>3, BootUnrivalled, BootNextUnrivalled, BootDoneUnrivalled, UnscheduleUnrivalled,
     StopNextUnrivalled DEF MainStep
<1>4. CASE Stop
  BY <1>4, StopUnrivalled
<1>5. CASE Failure
  BY <1>5, SpawnFailsUnrivalled, TickReadFailsUnrivalled, BootReadFailsUnrivalled DEF Failure
<1>6. CASE Environment
  BY <1>6, OutsideWriteUnrivalled, WorkerEndsUnrivalled, RestartUnrivalled DEF Environment
<1>7. CASE UNCHANGED vars
  BY <1>7, StutterUnrivalled
<1>8. QED
  BY <1>2, <1>3, <1>4, <1>5, <1>6, <1>7 DEF Next

LEMMA InitUnrivalled == Init => Unrivalled
  BY ThreadFacts DEF Init, Asleep, Unrivalled, InStart

LEMMA UnrivalledNeverOvertakes ==
    ASSUME Unrivalled PROVE ~Overtaken
  BY DEF Unrivalled, Overtaken, Register, TickDrop

\* Two live workers of one camera: they would be two under one key, two in one
\* hand, or one of them about to be registered over the other.
LEMMA NoSecondWorker ==
    ASSUME Requests = {}, Custody, Unrivalled, NoOrphanWorker
    PROVE  OneWorkerPerCamera
<1> SUFFICES ASSUME NEW v \in Workers, NEW w \in Workers, v # w,
                    worker[v] # None, worker[w] # None, worker[v].cam = worker[w].cam,
                    v \notin Retiring, w \notin Retiring
             PROVE  FALSE
  BY DEF OneWorkerPerCamera
<1> DEFINE Filed(x) == \E c \in Cameras : registry[c] = x /\ worker[x].cam = c
           InHand(x) == \E t \in Threads :
                          x \in hold[t] /\ pc[t] = "register" /\ worker[x].cam = call[t].cam
<1>1. ASSUME NEW x \in Workers, worker[x] # None, x \notin Retiring
      PROVE  Filed(x) \/ InHand(x)
  <2>1. CASE x \in Registered
    BY <1>1, <2>1 DEF Registered, Custody, Labelled, Alive
  <2>2. CASE \E t \in Threads : x \in hold[t]
    <3>1. PICK t \in Threads : x \in hold[t]
      BY <2>2
    <3>2. pc[t] = "register"
      BY <1>1, <3>1 DEF Retiring, Custody, Hands, Holding
    <3>3. x # None
      BY CaptureAssumption
    <3>4. QED
      BY <1>1, <3>1, <3>2, <3>3 DEF Custody, Labelled, Alive
  <2>3. QED
    BY <1>1, <2>1, <2>2 DEF NoOrphanWorker
<1>2. \A t, u \in Threads : pc[t] = "register" /\ pc[u] = "register" => t = u
  BY TwoThreads DEF Custody, IInv, Plans, InStart
<1>3. ~(Filed(v) /\ Filed(w))
  OBVIOUS
<1>4. ~(InHand(v) /\ InHand(w))
  BY <1>2 DEF Custody, Hands
<1>5. ASSUME NEW x \in Workers, NEW y \in Workers, worker[x] # None,
             worker[x].cam = worker[y].cam, Filed(x), InHand(y)
      PROVE  FALSE
  <2>1. x # None
    BY CaptureAssumption
  <2>2. QED
    BY <1>5, <2>1 DEF Unrivalled, Alive
<1>6. (Filed(v) \/ InHand(v)) /\ (Filed(w) \/ InHand(w))
  BY <1>1
<1> HIDE DEF Filed, InHand
<1>7. QED
  BY <1>3, <1>4, <1>5, <1>6

\* With the cameras' endpoints quiet, the reconcile loop of the module docstring
\* keeps hold of every worker: through boot, ticks, workers that die, writes behind
\* its back, stop() under a running tick, kills and restarts.
THEOREM ReconcileOrphansNone ==
    ASSUME Requests = {}
    PROVE  Spec => []NoOrphanWorker
<1>1. Custody /\ Unrivalled /\ NoOrphanWorker /\ [Next]_vars => NoOrphanWorker'
  BY StepSafe, UnrivalledNeverOvertakes DEF Safe
<1>2. Custody /\ Unrivalled /\ [Next]_vars => Unrivalled'
  BY NextUnrivalled
<1>3. QED
  BY <1>1, <1>2, InitCustody, InitUnrivalled, CustodyHolds, PTL DEF Spec

\* And it never runs two workers for one camera, those being stopped aside.
THEOREM ReconcileRunsOne ==
    ASSUME Requests = {}
    PROVE  Spec => []OneWorkerPerCamera
<1>1. Custody /\ Unrivalled /\ NoOrphanWorker => OneWorkerPerCamera
  BY NoSecondWorker
<1>2. Custody /\ Unrivalled /\ [Next]_vars => Unrivalled'
  BY NextUnrivalled
<1>3. QED
  BY <1>1, <1>2, InitUnrivalled, CustodyHolds, ReconcileOrphansNone, PTL DEF Spec

=============================================================================
