----------------------------- MODULE OfficeProofs -----------------------------
(***************************************************************************)
(* Theorems about the attendance and the background jobs of a tenant, for  *)
(* any number of employees, schedules, runs and workers, and any calendar. *)
(***************************************************************************)
EXTENDS Office, FiniteSetTheorems, SequenceTheorems, WellFoundedInduction, TLAPS

(***************************************************************************)
(* What a handler or job between two of its steps holds.                   *)
(***************************************************************************)
Queue == Seq([id : Schedule, due : Time])

RunOp    == [next : {"build", "deliver", "finish"}, about : Schedule, run : Run, cron : Cron,
             sends : BOOLEAN, due : Time \cup {None}, rest : Queue \cup {None},
             file : BOOLEAN, mode : {None, "attached", "link"}, ok : BOOLEAN]
ExportOp == [next : {"export"}, about : {"erp"}, cron : {None}, rest : {None, <<>>}]
RecordOp == [next : {"record"}, about : {"erp"}, due : Nat \cup {None}, rest : {None, <<>>}]
ScanOp   == [next : {"scan"}, rest : {<<>>}]
DueOp    == [next : {"due"}, rest : Queue \ {<<>>}]
SweepOp  == [next : {"sweep"}, rows : SUBSET Run]

JobOp == RunOp \cup ExportOp \cup RecordOp \cup ScanOp \cup DueOp \cup SweepOp

PlanRow   == [id : Policy, type : {"Fixed", "Flex", "Ramadan", "Custom"}, config : Config,
              from : Int, until : Int \cup {None}]
HandRow   == [pair : Pairs, prior : Nat, raced : BOOLEAN, record : RecordRow]

SnapshotOp == [kind : {"today"}, next : {"snapshot"}, day : Day, off : BOOLEAN, plan : {None},
               todo : {{}}, row : {None}, spoiled : SUBSET Pairs]
TodayOp    == [kind : {"today"}, next : {"row"}, day : Day, off : BOOLEAN,
               plan : [Employee -> PlanRow \cup {None}], todo : SUBSET Pairs,
               row : HandRow \cup {None}, spoiled : SUBSET Pairs]
EachOp     == [kind : {"each", "rematch"}, next : {"row"}, day : {None}, off : {FALSE},
               plan : {None}, todo : SUBSET Pairs, row : HandRow \cup {None},
               spoiled : SUBSET Pairs]
RowsOp     == SnapshotOp \cup TodayOp \cup EachOp
RematchOp  == [kind : {"rematch"}, next : {"reassign"}, again : BOOLEAN,
               read : UNION {[S -> [emp : Employee \cup {None}, day : Day]] : S \in SUBSET Shot}]

StaffOp == RowsOp \cup RematchOp

OpTypes == ops \in [Worker -> {Idle} \cup JobOp \cup StaffOp]

JobTypes ==
    /\ now \in Time /\ fuel \in [EventKind -> Nat] /\ crashed \in BOOLEAN
    /\ schedules \in [Schedule -> ScheduleRow \cup {None, Gone}]
    /\ IsFiniteSet({s \in Schedule : Listed(s)})
    /\ runs \in [Run -> RunRow \cup {None, Gone}]
    /\ disk \subseteq Run
    /\ mailed \in [Schedule -> [Time -> Nat]]
    /\ links \subseteq Run \X Nat
    /\ email \in BOOLEAN
    /\ erp \in [enabled : BOOLEAN, cron : Cron \cup {None}, next : Nat \cup {None}]

(* Rows of runs and schedules are never as they were before they were made. *)
KnownRuns ==
    \A w \in Worker : ops[w] \in RunOp => runs[ops[w].run] # None /\ schedules[ops[w].about] # None

Jobs == JobTypes /\ OpTypes /\ KnownRuns

(***************************************************************************)
(* What the two halves leave to each other.                                *)
(***************************************************************************)
LEMMA ReportsFrame ==
    Reports => /\ UNCHANGED <<now, attendanceVars, crashed>>
               /\ unrecorded \subseteq unrecorded'
               /\ UNCHANGED unrecorded \/ \E w \in Worker : FinishFails(w)
<1>1. ASSUME NEW s \in Schedule,
             \/ \E cron \in Cron : PatchCron(s, cron) \/ \E sends \in BOOLEAN : CreateSchedule(s, cron, sends)
             \/ \E active, sends \in BOOLEAN : PatchSchedule(s, active, sends)
             \/ DeleteSchedule(s)
             \/ \E w \in Worker : RunNow(w, s)
      PROVE  UNCHANGED <<now, attendanceVars, crashed, unrecorded>>
  BY <1>1 DEF PatchCron, CreateSchedule, PatchSchedule, DeleteSchedule, RunNow
<1>2. ASSUME NEW w \in Worker,
             \/ Build(w) \/ Deliver(w) \/ Finish(w) \/ Tick(w) \/ Scan(w) \/ StartDue(w) \/ SkipDue(w)
             \/ ExportNow(w) \/ RereadConfig(w) \/ RecordExport(w) \/ ExportFails(w)
             \/ SweepFiles(w) \/ SweepRows(w)
      PROVE  UNCHANGED <<now, attendanceVars, crashed, unrecorded>>
  BY <1>2 DEF Build, Deliver, Finish, Tick, Scan, StartDue, SkipDue, ExportNow, RereadConfig,
         RecordExport, ExportFails, SweepFiles, SweepRows
<1>3. ASSUME NEW w \in Worker, FinishFails(w)
      PROVE  UNCHANGED <<now, attendanceVars, crashed>> /\ unrecorded \subseteq unrecorded'
  BY <1>3 DEF FinishFails
<1>4. ASSUME (\E enabled \in BOOLEAN : PatchEmail(enabled) \/ PatchErp(enabled))
             \/ \E cron \in Cron \cup {None} : PatchErpCron(cron)
      PROVE  UNCHANGED <<now, attendanceVars, crashed, unrecorded>>
  BY <1>4 DEF PatchEmail, PatchErp, PatchErpCron
<1>5. QED
  BY <1>1, <1>2, <1>3, <1>4 DEF Reports

LEMMA StaffFrame == Pages \/ Recomputing => UNCHANGED <<now, jobVars, crashed, unrecorded>>
<1>1. ASSUME NEW p \in Policy, DeletePolicy(p)
      PROVE  UNCHANGED <<now, jobVars, crashed, unrecorded>>
  <2>1. \E row : WritePolicy(p, row)
    BY <1>1, Zenon DEF DeletePolicy
  <2>2. QED
    BY <2>1 DEF WritePolicy
<1>2. Pages => UNCHANGED <<now, jobVars, crashed, unrecorded>>
  BY <1>1 DEF Pages, Shoot, CreatePolicy, PatchPolicy, WritePolicy,
     CreateAssignment, DeleteAssignment, WriteAssignments, CreateLeave, DeleteLeave, WriteLeaves,
     CreateHoliday, DeleteHoliday, WriteHolidays, ImportHolidays, PatchSettings, Leave
<1>3. ASSUME NEW w \in Worker,
             \/ Snapshot(w) \/ WriteRow(w) \/ FailRow(w)
             \/ \E e \in Employee, d \in Day : ReadRow(w, e, d) \/ SkipRow(w, e, d)
      PROVE  UNCHANGED <<now, jobVars, crashed, unrecorded>>
  BY <1>3, Zenon DEF Snapshot, WriteRow, FailRow, ReadRow, SkipRow
<1>4. Recomputing => UNCHANGED <<now, jobVars, crashed, unrecorded>>
  BY <1>3 DEF Recomputing, RecomputeToday, Reassign, Regenerate, Rematch
<1>5. QED
  BY <1>2, <1>4

LEMMA Stages ==
    ASSUME OpTypes, NEW w \in Worker
    PROVE  /\ At(w, "idle") => ops[w] = Idle
           /\ At(w, "build") \/ At(w, "deliver") \/ At(w, "finish") => ops[w] \in RunOp
           /\ At(w, "export") => ops[w] \in ExportOp
           /\ At(w, "record") => ops[w] \in RecordOp
           /\ At(w, "scan") => ops[w] \in ScanOp
           /\ At(w, "due") => ops[w] \in DueOp
           /\ At(w, "sweep") => ops[w] \in SweepOp
           /\ At(w, "snapshot") => ops[w] \in SnapshotOp
           /\ At(w, "row") => ops[w] \in TodayOp \cup EachOp
           /\ At(w, "reassign") => ops[w] \in RematchOp
<1>1. ops[w] \in {Idle} \cup JobOp \cup StaffOp
  BY DEF OpTypes
<1>2. Idle.next = "idle"
  BY DEF Idle
<1> DEFINE op == ops[w]
<1> HIDE DEF op
<1>3. /\ op \in JobOp =>
            \/ op \in RunOp /\ op.next \in {"build", "deliver", "finish"}
            \/ op \in ExportOp /\ op.next = "export"
            \/ op \in RecordOp /\ op.next = "record"
            \/ op \in ScanOp /\ op.next = "scan"
            \/ op \in DueOp /\ op.next = "due"
            \/ op \in SweepOp /\ op.next = "sweep"
      /\ op \in StaffOp =>
            \/ op \in SnapshotOp /\ op.next = "snapshot"
            \/ op \in TodayOp \cup EachOp /\ op.next = "row"
            \/ op \in RematchOp /\ op.next = "reassign"
  BY DEF JobOp, RunOp, ExportOp, RecordOp, ScanOp, DueOp, SweepOp, StaffOp,
         RowsOp, SnapshotOp, TodayOp, EachOp, RematchOp
<1>4. QED
  BY <1>1, <1>2, <1>3 DEF At, op

LEMMA OpStep ==
    ASSUME OpTypes, NEW w \in Worker, NEW op, ops' = [ops EXCEPT ![w] = op]
    PROVE  ops'[w] = op /\ \A v \in Worker : v # w => ops'[v] = ops[v]
  BY DEF OpTypes
LEMMA WhoRecomputes ==
    ASSUME NEW op \in {Idle} \cup JobOp \cup StaffOp
    PROVE  Recomputes(op) <=> op \in RowsOp
  BY DEF Recomputes, JobOp, RunOp, ExportOp, RecordOp, ScanOp, DueOp, SweepOp, StaffOp, RowsOp,
         SnapshotOp, TodayOp, EachOp, RematchOp, Idle

LEMMA InHandPairs ==
    ASSUME NEW op \in RowsOp
    PROVE  InHand(op) \subseteq Pairs
  BY NoneAssumption DEF InHand, RowsOp, SnapshotOp, TodayOp, EachOp, HandRow

(* Only what is marked spoiled changes in the job of another. *)
LEMMA SpoiledOp ==
    ASSUME NEW op \in {Idle} \cup JobOp \cup StaffOp, NEW pairs, NEW planned \in BOOLEAN,
           planned => pairs \subseteq Pairs
    PROVE  /\ op \notin RowsOp => Spoiled(op, pairs, planned) = op
           /\ op \in RowsOp =>
                /\ Spoiled(op, pairs, planned) \in RowsOp
                /\ op \in TodayOp => Spoiled(op, pairs, planned) \in TodayOp
                /\ \A k \in {"kind", "next", "day", "off", "plan", "todo", "row"} :
                     Spoiled(op, pairs, planned)[k] = op[k]
                /\ Spoiled(op, pairs, planned).spoiled =
                     op.spoiled \cup (IF planned /\ op.kind = "today" THEN pairs
                                      ELSE pairs \cap InHand(op))
<1>1. CASE op \notin RowsOp
  BY <1>1, WhoRecomputes DEF Spoiled
<1>2. CASE op \in RowsOp
  <2> DEFINE S == op.spoiled \cup (IF planned /\ op.kind = "today" THEN pairs ELSE pairs \cap InHand(op))
  <2>1. S \subseteq Pairs
    BY <1>2, InHandPairs DEF RowsOp, SnapshotOp, TodayOp, EachOp
  <2>2. Spoiled(op, pairs, planned) = [op EXCEPT !.spoiled = S]
    BY <1>2, WhoRecomputes DEF Spoiled
  <2> HIDE DEF S
  <2>3. /\ [op EXCEPT !.spoiled = S] \in RowsOp
        /\ op \in TodayOp => [op EXCEPT !.spoiled = S] \in TodayOp
        /\ \A k \in {"kind", "next", "day", "off", "plan", "todo", "row"} : [op EXCEPT !.spoiled = S][k] = op[k]
        /\ [op EXCEPT !.spoiled = S].spoiled = S
    BY <1>2, <2>1 DEF RowsOp, SnapshotOp, TodayOp, EachOp
  <2>4. QED
    BY <1>2, <2>2, <2>3 DEF S
<1>3. QED
  BY <1>1, <1>2
(***************************************************************************)
(* The first and the last of a set of numbers.                             *)
(***************************************************************************)
Below == {ss \in Nat \X Nat : ss[1] < ss[2]}

LEMMA LeastIs ==
    ASSUME NEW S \in SUBSET Nat, S # {}
    PROVE  Least(S) \in S /\ \A y \in S : Least(S) <= y
<1>1. IsWellFoundedOn(Below, Nat)
  BY NatLessThanWellFounded DEF OpToRel, Below
<1>2. PICK x \in S : \A y \in S : ~ (<<y, x>> \in Below)
  BY <1>1, WFMin
<1>3. ASSUME NEW y \in S
      PROVE  x <= y
  <2>1. y < x => <<y, x>> \in Below
    BY DEF Below
  <2>2. QED
    BY <1>2, <2>1
<1>4. QED
  BY <1>3 DEF Least

LEMMA GreatestIs ==
    ASSUME NEW n \in Nat, NEW S \in SUBSET (0 .. n), S # {}
    PROVE  Greatest(S) \in S /\ \A y \in S : y <= Greatest(S)
<1> DEFINE T == {n - x : x \in S}
<1>1. T \in SUBSET Nat /\ T # {}
  OBVIOUS
<1>2. Least(T) \in T /\ \A t \in T : Least(T) <= t
  BY <1>1, LeastIs
<1>3. PICK x \in S : Least(T) = n - x
  BY <1>2
<1>4. \A y \in S : y <= x
  BY <1>2, <1>3
<1>5. QED
  BY <1>4 DEF Greatest

LEMMA GreatestOfTwo ==
    ASSUME NEW i \in Int
    PROVE  Greatest({0, i}) = IF i > 0 THEN i ELSE 0
<1>1. \A y \in {0, i} : y <= IF i > 0 THEN i ELSE 0
  OBVIOUS
<1>2. QED
  BY <1>1 DEF Greatest

(***************************************************************************)
(* The engine.                                                             *)
(***************************************************************************)
AttendanceTypes ==
    /\ staff \subseteq Employee
    /\ shots \in [Shot -> ShotRow \cup {None}]
    /\ policies \in [Policy -> PolicyRow \cup {None}]
    /\ assignments \subseteq [policy : Policy, scope : Employee \cup Department \cup {"tenant"},
                              from : Int, until : Int \cup {None}]
    /\ leaves \subseteq [emp : Employee, first : Day, last : Day]
    /\ holidays \subseteq Day
    /\ settings \in [weekend : Weekends \cup {{}}, ahead : Zones]
    /\ records \in [Employee -> [Day -> RecordRow \cup {None}]]
    /\ notices \in [Employee -> [Day -> Nat]]
    /\ settled \subseteq Pairs

Planned ==
    \A w \in Worker : ops[w] \in TodayOp =>
        \A x \in ops[w].todo : x[2] = ops[w].day /\ ops[w].plan[x[1]] # None

ReadsShots ==
    \A w \in Worker : ops[w] \in RematchOp => \A k \in DOMAIN ops[w].read : shots[k] # None

Types == Jobs /\ AttendanceTypes /\ Planned /\ ReadsShots

LEMMA Days ==
    ASSUME NEW t \in Time, NEW z \in Zones
    PROVE  /\ t \in Nat /\ t \div DayLength \in Day /\ (t + z) \div DayLength \in Day
           /\ t % DayLength \in SlotOfDay /\ (t + z) % DayLength \in SlotOfDay
<1>1. /\ DayLength \in Nat \ {0} /\ LastDay \in Nat /\ z \in SlotOfDay
  BY ClockAssumption
<1>2. t \in 0 .. (LastDay + 1) * DayLength - 1 /\ (t + z) \div DayLength \in Day
  BY DEF Time
<1>3. z \in Nat /\ t \in Nat
  BY <1>1, <1>2 DEF SlotOfDay
<1>4. t % DayLength \in SlotOfDay /\ (t + z) % DayLength \in SlotOfDay
  BY <1>1, <1>3 DEF SlotOfDay
<1>5. t \div DayLength \in Nat /\ t \div DayLength <= (t + z) \div DayLength
  BY <1>1, <1>3
<1>6. QED
  BY <1>1, <1>2, <1>3, <1>4, <1>5 DEF Day

LEMMA SeenRow ==
    ASSUME NEW p \in PlanRow, NEW ks \in SUBSET Shot, ks # {},
           shots \in [Shot -> ShotRow \cup {None}], \A k \in ks : shots[k] # None,
           NEW onLeave \in BOOLEAN, NEW off \in BOOLEAN
    PROVE  /\ Seen(p, ks, onLeave, off) \in RecordRow
           /\ Seen(p, ks, onLeave, off).policy = p.id
           /\ Seen(p, ks, onLeave, off).in # None /\ ~Seen(p, ks, onLeave, off).absent
           /\ Seen(p, ks, onLeave, off).leave = onLeave
<1> DEFINE S == {Slot(k) : k \in ks}
           in == Least(S)
           last == Greatest(S)
           twice == Cardinality(ks) > 1
           over == IF ~twice THEN 0 ELSE IF off THEN last - in
                   ELSE Greatest({0, (last - in) - p.config.need})
           out == IF twice THEN last ELSE None
           late == ~off /\ Late(p, in)
           early == ~off /\ twice /\ EarlyOut(p, last)
           short == ~off /\ twice /\ last - in < p.config.need
<1>1. \A k \in ks : Slot(k) \in SlotOfDay
  <2>1. SUFFICES ASSUME NEW k \in ks
                 PROVE  shots[k].at % DayLength \in SlotOfDay
    BY DEF Slot
  <2>2. shots[k].at \in Time
    BY DEF ShotRow
  <2>3. shots[k].at \in Nat
    BY <2>2, ClockAssumption DEF Time
  <2>4. QED
    BY <2>3, ClockAssumption DEF SlotOfDay
<1>2. S # {} /\ S \in SUBSET SlotOfDay /\ DayLength - 1 \in Nat
  BY <1>1, ClockAssumption
<1> HIDE DEF S
<1>3. in \in SlotOfDay /\ last \in SlotOfDay /\ in <= last
  <2>1. S \in SUBSET (0 .. DayLength - 1) /\ S \in SUBSET Nat
    BY <1>2 DEF SlotOfDay
  <2>2. Least(S) \in S /\ \A y \in S : Least(S) <= y
    BY <1>2, <2>1, LeastIs
  <2>3. Greatest(S) \in S
    BY <1>2, <2>1, GreatestIs
  <2>4. QED
    BY <1>2, <2>2, <2>3
<1>4. p.config.need \in Nat
  BY DEF PlanRow, Config
<1> HIDE DEF in, last
<1>5. in \in Int /\ last \in Int /\ last - in \in Nat
  BY <1>3 DEF SlotOfDay
<1>6. over \in Nat
  BY <1>4, <1>5, GreatestOfTwo
<1>7. out \in SlotOfDay \cup {None}
  BY <1>3
<1>8. late \in BOOLEAN /\ early \in BOOLEAN /\ short \in BOOLEAN
  OBVIOUS
<1>9. Seen(p, ks, onLeave, off) =
         [policy |-> p.id, in |-> in, out |-> out, late |-> late, early |-> early,
          short |-> short, absent |-> FALSE, over |-> over, leave |-> onLeave]
  BY Zenon DEF Seen, S, in, last
<1> HIDE DEF out, late, early, short, over
<1>10. in # None
  BY <1>5, NoneAssumption
<1>11. p.id \in Policy
  BY DEF PlanRow
<1>12. QED
  BY <1>3, <1>6, <1>7, <1>8, <1>9, <1>10, <1>11 DEF RecordRow
(***************************************************************************)
(* Type correctness of the scheduled runs.                                 *)
(***************************************************************************)
LEMMA NextRunIs ==
    ASSUME NEW c \in Cron, NEW t \in Nat
    PROVE  NextRun(c, t) \in Nat /\ NextRun(c, t) > t /\ NextRun(c, t) % c = 0
<1>1. c \in Nat /\ c > 0
  BY ClockAssumption
<1>2. t < ((t \div c) + 1) * c
  BY <1>1
<1> DEFINE q == (t \div c) + 1
<1>3. q \in Nat
  BY <1>1
<1> HIDE DEF q
<1>4. q * c \in Nat /\ (q * c) % c = 0
  BY <1>1, <1>3
<1>5. QED
  BY <1>2, <1>4 DEF NextRun, q

LEMMA TimesAre ==
    /\ Time \subseteq Nat
    /\ \A t \in Time : t + 1 \in Nat
  BY ClockAssumption DEF Time

LEMMA NewRunIs ==
    ASSUME JobTypes, \E x \in Run : runs[x] = None
    PROVE  NewRun \in Run /\ runs[NewRun] = None
  BY DEF NewRun

LEMMA TailIs ==
    ASSUME NEW rest \in Queue, rest # <<>>
    PROVE  /\ rest[1] \in [id : Schedule, due : Time]
           /\ Tail(rest) \in Queue /\ Len(Tail(rest)) = Len(rest) - 1
           /\ Len(rest) \in Nat \ {0}
           /\ \A i \in 1 .. Len(rest) - 1 : Tail(rest)[i] = rest[i + 1]
<1>1. Len(rest) \in Nat \ {0}
  BY EmptySeq DEF Queue
<1>2. 1 \in 1 .. Len(rest)
  BY <1>1
<1>3. rest[1] \in [id : Schedule, due : Time]
  BY <1>2, ElementOfSeq DEF Queue
<1>4. QED
  BY <1>1, <1>3, HeadTailProperties DEF Queue
JobsMove ==
    /\ OpTypes'
    /\ \A v \in Worker : ops'[v] = ops[v] \/ {ops[v], ops'[v]} \subseteq {Idle} \cup JobOp

LEMMA MovedOps ==
    ASSUME OpTypes, NEW w \in Worker, NEW op \in {Idle} \cup JobOp,
           ops[w] \in {Idle} \cup JobOp, ops' = [ops EXCEPT ![w] = op]
    PROVE  JobsMove
  BY DEF JobsMove, OpTypes

LEMMA StillMoves == OpTypes /\ UNCHANGED ops => JobsMove
  BY DEF JobsMove, OpTypes

LEMMA FinitelyListed ==
    ASSUME JobTypes, NEW s \in Schedule, \A x \in Schedule : x # s => schedules'[x] = schedules[x]
    PROVE  IsFiniteSet({x \in Schedule : Listed(x)}')
<1>1. IsFiniteSet({x \in Schedule : Listed(x)} \cup {s})
  BY FS_AddElement DEF JobTypes
<1>2. {x \in Schedule : Listed(x)}' \subseteq {x \in Schedule : Listed(x)} \cup {s}
  BY DEF Listed
<1>3. QED
  BY <1>1, <1>2, FS_Subset

LEMMA ScheduleRows ==
    ASSUME JobTypes
    PROVE  /\ \A s \in Schedule : Listed(s) <=> schedules[s] \in ScheduleRow
           /\ \A r \in Run : runs[r] \notin {None, Gone} <=> runs[r] \in RunRow
<1>1. None \notin ScheduleRow /\ Gone \notin ScheduleRow /\ None \notin RunRow /\ Gone \notin RunRow
  BY NoneAssumption
<1>2. QED
  BY <1>1 DEF JobTypes, Listed

LEMMA RescheduledRow ==
    ASSUME NEW row \in ScheduleRow, NEW cron \in Cron, now \in Nat
    PROVE  /\ Reschedule(row, cron) \in ScheduleRow
           /\ Reschedule(row, cron).cron = cron /\ Reschedule(row, cron).next = NextRun(cron, now)
<1> DEFINE n == NextRun(cron, now)
<1>1. n \in Nat
  BY NextRunIs
<1>2. Reschedule(row, cron) = [row EXCEPT !.cron = cron, !.next = n]
  BY DEF Reschedule
<1> HIDE DEF n
<1>3. [row EXCEPT !.cron = cron, !.next = n] \in ScheduleRow
  BY <1>1 DEF ScheduleRow
<1>4. [row EXCEPT !.cron = cron, !.next = n].cron = cron /\ [row EXCEPT !.cron = cron, !.next = n].next = n
  BY DEF ScheduleRow
<1>5. QED
  BY <1>2, <1>3, <1>4 DEF n

LEMMA AdvancedRow ==
    ASSUME NEW row \in ScheduleRow, NEW cron \in Cron, now \in Nat
    PROVE  /\ [row EXCEPT !.next = NextRun(cron, now)] \in ScheduleRow
           /\ [row EXCEPT !.next = NextRun(cron, now)].cron = row.cron
           /\ [row EXCEPT !.next = NextRun(cron, now)].next = NextRun(cron, now)
<1> DEFINE n == NextRun(cron, now)
<1>1. n \in Nat
  BY NextRunIs
<1> HIDE DEF n
<1>2. /\ [row EXCEPT !.next = n] \in ScheduleRow
      /\ [row EXCEPT !.next = n].cron = row.cron /\ [row EXCEPT !.next = n].next = n
  BY <1>1 DEF ScheduleRow
<1>3. QED
  BY <1>2 DEF n

LEMMA RecordedRow ==
    ASSUME NEW row \in RunRow, NEW op \in RunOp, now \in Time
    PROVE  /\ Record(row, op) \in RunRow
           /\ Record(row, op).status # "running" /\ Record(row, op).finished = now
           /\ Record(row, op).file = op.file /\ Record(row, op).schedule = row.schedule
<1> DEFINE status == IF op.ok THEN "succeeded" ELSE "failed"
<1>1. status \in {"succeeded", "failed"}
  OBVIOUS
<1>2. Record(row, op) = [row EXCEPT !.status = status, !.finished = now, !.file = op.file, !.mode = op.mode]
  BY DEF Record
<1> HIDE DEF status
<1>3. op.file \in BOOLEAN /\ op.mode \in {None, "attached", "link"}
  BY DEF RunOp
<1> DEFINE after == [row EXCEPT !.status = status, !.finished = now, !.file = op.file, !.mode = op.mode]
<1>4. after \in RunRow
  BY <1>1, <1>3 DEF RunRow
<1>5. after.status = status /\ after.finished = now /\ after.file = op.file /\ after.schedule = row.schedule
  BY DEF RunRow
<1>6. QED
  BY <1>1, <1>2, <1>4, <1>5
LEMMA EventTypes == \A kind : JobTypes /\ Event(kind) => fuel' \in [EventKind -> Nat]
<1> SUFFICES ASSUME NEW kind, fuel \in [EventKind -> Nat], Event(kind)
             PROVE  fuel' \in [EventKind -> Nat]
  BY DEF JobTypes
<1>1. CASE kind \in EventKind
  <2>1. fuel[kind] - 1 \in Nat
    BY <1>1 DEF Event
  <2>2. QED
    BY <1>1, <2>1 DEF Event
<1>2. CASE kind \notin EventKind
  BY <1>2 DEF Event
<1>3. QED
  BY <1>1, <1>2

LEMMA PageMoves ==
    ASSUME Jobs,
           \/ \E s \in Schedule :
                \/ \E cron \in Cron : PatchCron(s, cron) \/ \E sends \in BOOLEAN : CreateSchedule(s, cron, sends)
                \/ \E active, sends \in BOOLEAN : PatchSchedule(s, active, sends)
                \/ DeleteSchedule(s)
           \/ \E enabled \in BOOLEAN : PatchEmail(enabled) \/ PatchErp(enabled)
           \/ \E cron \in Cron \cup {None} : PatchErpCron(cron)
    PROVE  JobTypes' /\ JobsMove
<1>1. now \in Nat
  BY TimesAre DEF Jobs, JobTypes
<1>2. ASSUME NEW s \in Schedule, NEW row \in ScheduleRow \cup {Gone}, Event("report"),
             schedules' = [schedules EXCEPT ![s] = row],
             UNCHANGED <<now, runs, disk, mailed, links, email, erp, crashed, unrecorded>>
      PROVE  JobTypes'
  <2>1. fuel' \in [EventKind -> Nat]
    BY <1>2, EventTypes DEF Jobs
  <2>2. schedules' \in [Schedule -> ScheduleRow \cup {None, Gone}]
    BY <1>2 DEF Jobs, JobTypes
  <2>3. IsFiniteSet({x \in Schedule : Listed(x)}')
    BY <1>2, FinitelyListed DEF Jobs, JobTypes
  <2>4. QED
    BY <1>2, <2>1, <2>2, <2>3 DEF Jobs, JobTypes
<1>3. ASSUME NEW s \in Schedule, NEW cron \in Cron, PatchCron(s, cron)
      PROVE  JobTypes' /\ JobsMove
  <2>1. schedules[s] \in ScheduleRow
    BY <1>3, ScheduleRows DEF PatchCron, Jobs
  <2>2. schedules' = [schedules EXCEPT ![s] = Reschedule(schedules[s], cron)]
    BY <1>3 DEF PatchCron, Jobs, JobTypes
  <2>3. Event("report") /\ UNCHANGED <<now, runs, disk, mailed, links, email, erp, crashed, unrecorded, ops>>
    BY <1>3, ReportsFrame DEF PatchCron, Reports
  <2>4. JobTypes'
    BY <1>1, <1>2, <2>1, <2>2, <2>3, RescheduledRow
  <2>5. QED
    BY <2>3, <2>4, StillMoves DEF Jobs
<1>4. ASSUME NEW s \in Schedule, NEW cron \in Cron, NEW sends \in BOOLEAN, CreateSchedule(s, cron, sends)
      PROVE  JobTypes' /\ JobsMove
  <2> DEFINE row == [cron |-> cron, active |-> TRUE, sends |-> sends, next |-> NextRun(cron, now)]
  <2>1. row \in ScheduleRow
    BY <1>1, NextRunIs DEF ScheduleRow
  <2>2. Event("report") /\ schedules' = [schedules EXCEPT ![s] = row]
        /\ UNCHANGED <<now, runs, disk, mailed, links, email, erp, crashed, unrecorded, ops>>
    BY <1>4 DEF CreateSchedule
  <2> HIDE DEF row
  <2>3. QED
    BY <1>2, <2>1, <2>2, StillMoves DEF Jobs
<1>5. ASSUME NEW s \in Schedule, NEW active \in BOOLEAN, NEW sends \in BOOLEAN, PatchSchedule(s, active, sends)
      PROVE  JobTypes' /\ JobsMove
  <2>1. schedules[s] \in ScheduleRow
    BY <1>5, ScheduleRows DEF PatchSchedule, Jobs
  <2> DEFINE row == [schedules[s] EXCEPT !.active = active, !.sends = sends]
  <2>2. row \in ScheduleRow
    BY <2>1 DEF ScheduleRow
  <2>3. schedules' = [schedules EXCEPT ![s] = row]
    BY <1>5 DEF PatchSchedule, Jobs, JobTypes
  <2>4. Event("report") /\ UNCHANGED <<now, runs, disk, mailed, links, email, erp, crashed, unrecorded, ops>>
    BY <1>5 DEF PatchSchedule
  <2> HIDE DEF row
  <2>5. QED
    BY <1>2, <2>2, <2>3, <2>4, StillMoves DEF Jobs
<1>6. ASSUME NEW s \in Schedule, DeleteSchedule(s)
      PROVE  JobTypes' /\ JobsMove
  <2>1. fuel' \in [EventKind -> Nat]
    BY <1>6, EventTypes DEF Jobs, DeleteSchedule
  <2>2. schedules' \in [Schedule -> ScheduleRow \cup {None, Gone}]
    BY <1>6 DEF Jobs, JobTypes, DeleteSchedule
  <2>3. IsFiniteSet({x \in Schedule : Listed(x)}')
    BY <1>6, FinitelyListed DEF Jobs, JobTypes, DeleteSchedule
  <2>4. runs' \in [Run -> RunRow \cup {None, Gone}]
    BY <1>6 DEF Jobs, JobTypes, DeleteSchedule
  <2>5. UNCHANGED <<now, disk, mailed, links, email, erp, crashed, unrecorded, ops>>
    BY <1>6 DEF DeleteSchedule
  <2>6. QED
    BY <2>1, <2>2, <2>3, <2>4, <2>5, StillMoves DEF Jobs, JobTypes
<1>7. ASSUME NEW enabled \in BOOLEAN, PatchEmail(enabled) \/ PatchErp(enabled)
      PROVE  JobTypes' /\ JobsMove
  <2>1. fuel' \in [EventKind -> Nat] /\ UNCHANGED <<now, schedules, runs, disk, mailed, links, crashed, unrecorded, ops>>
    BY <1>7, EventTypes DEF Jobs, PatchEmail, PatchErp
  <2>2. email' \in BOOLEAN
    BY <1>7 DEF PatchEmail, PatchErp, Jobs, JobTypes
  <2>3. erp' \in [enabled : BOOLEAN, cron : Cron \cup {None}, next : Nat \cup {None}]
    BY <1>7 DEF PatchEmail, PatchErp, Jobs, JobTypes
  <2>4. IsFiniteSet({x \in Schedule : Listed(x)}')
    BY <2>1 DEF Jobs, JobTypes, Listed
  <2>5. QED
    BY <2>1, <2>2, <2>3, <2>4, StillMoves DEF Jobs, JobTypes
<1>8. ASSUME NEW cron \in Cron \cup {None}, PatchErpCron(cron)
      PROVE  JobTypes' /\ JobsMove
  <2>1. fuel' \in [EventKind -> Nat]
        /\ UNCHANGED <<now, schedules, runs, disk, mailed, links, email, crashed, unrecorded, ops>>
    BY <1>8, EventTypes DEF Jobs, PatchErpCron
  <2> DEFINE next == IF cron = None THEN erp.next ELSE NextRun(cron, now)
  <2>2. next \in Nat \cup {None}
    BY <1>1, NextRunIs DEF Jobs, JobTypes
  <2>3. erp' = [erp EXCEPT !.cron = cron, !.next = next]
    BY <1>8 DEF PatchErpCron, Jobs, JobTypes
  <2> HIDE DEF next
  <2>4. erp' \in [enabled : BOOLEAN, cron : Cron \cup {None}, next : Nat \cup {None}]
    BY <2>2, <2>3 DEF Jobs, JobTypes
  <2>5. IsFiniteSet({x \in Schedule : Listed(x)}')
    BY <2>1 DEF Jobs, JobTypes, Listed
  <2>6. QED
    BY <2>1, <2>4, <2>5, StillMoves DEF Jobs, JobTypes
<1>9. QED
  BY <1>3, <1>4, <1>5, <1>6, <1>7, <1>8
(* The run a schedule starts. *)
LEMMA StartedRun ==
    ASSUME Jobs, NEW s \in Schedule, Listed(s), \E x \in Run : runs[x] = None,
           NEW due \in Time \cup {None}, NEW rest \in Queue \cup {None}
    PROVE  /\ Started(s, NewRun, due, rest) \in RunOp
           /\ Insert(s, NewRun) => runs' \in [Run -> RunRow \cup {None, Gone}]
<1>1. NewRun \in Run
  BY NewRunIs DEF Jobs
<1>2. schedules[s] \in ScheduleRow
  BY ScheduleRows DEF Jobs
<1>3. schedules[s].cron \in Cron /\ (schedules[s].sends /\ email) \in BOOLEAN
  BY <1>2 DEF ScheduleRow
<1> DEFINE sends == schedules[s].sends /\ email
           new == NewRun
           row == [schedule |-> s, status |-> "running", file |-> FALSE, mode |-> None, finished |-> None]
<1>4. Started(s, new, due, rest) =
        [next |-> "build", about |-> s, run |-> new, cron |-> schedules[s].cron, sends |-> sends,
         due |-> due, rest |-> rest, file |-> FALSE, mode |-> None, ok |-> FALSE]
  BY DEF Started
<1>5. row \in RunRow
  BY DEF RunRow
<1>6. Insert(s, new) => runs' = [runs EXCEPT ![new] = row]
  BY DEF Insert
<1> HIDE DEF sends, new, row
<1>7. Started(s, new, due, rest) \in RunOp
  BY <1>1, <1>3, <1>4 DEF RunOp, sends, new
<1>8. QED
  BY <1>5, <1>6, <1>7 DEF Jobs, JobTypes, new

LEMMA FinitelyListedStill == JobTypes /\ UNCHANGED schedules => IsFiniteSet({x \in Schedule : Listed(x)}')
  BY DEF JobTypes, Listed

(* A tick goes on with what is left of its queue. *)
LEMMA AfterRunIs ==
    ASSUME NEW rest \in Queue \cup {None}
    PROVE  /\ AfterRun(rest) \in {Idle} \cup DueOp
           /\ rest \in {None, <<>>} => AfterRun(rest) = Idle
           /\ rest \notin {None, <<>>} => AfterRun(rest) = [next |-> "due", rest |-> rest]
  BY DEF AfterRun, DueOp

(* What a transaction that raises leaves behind. *)
Falls(w) == FinishFails(w) \/ SkipDue(w) \/ ExportFails(w)

LEMMA Fallen ==
    ASSUME Jobs, NEW w \in Worker, Falls(w)
    PROVE  /\ UNCHANGED <<now, attendanceVars, jobVars, crashed>>
           /\ fuel' \in [EventKind -> Nat]
           /\ \A v \in Worker : v # w => ops'[v] = ops[v]
           /\ \/ /\ FinishFails(w) /\ ops[w] \in RunOp
                 /\ ops'[w] = AfterRun(ops[w].rest)
              \/ /\ SkipDue(w) /\ ops[w] \in DueOp
                 /\ ops'[w] = AfterRun(Tail(ops[w].rest))
              \/ /\ ExportFails(w) /\ ops[w] \in ExportOp \cup RecordOp
                 /\ ops'[w] = IF ops[w].rest = None THEN Idle ELSE [next |-> "scan", rest |-> <<>>]
           /\ \E op \in {Idle} \cup DueOp \cup ScanOp : ops' = [ops EXCEPT ![w] = op]
           /\ ops'[w] \in {Idle} \cup DueOp \cup ScanOp
<1>1. UNCHANGED <<now, attendanceVars, jobVars, crashed>>
  BY DEF Falls, FinishFails, SkipDue, ExportFails
<1>2. fuel' \in [EventKind -> Nat]
  <2>1. Event("report") \/ UNCHANGED fuel
    BY DEF Falls, FinishFails, SkipDue, ExportFails
  <2>2. QED
    BY <2>1, EventTypes DEF Jobs, JobTypes
<1>3. ASSUME NEW op \in {Idle} \cup DueOp \cup ScanOp, ops' = [ops EXCEPT ![w] = op]
      PROVE  /\ \E x \in {Idle} \cup DueOp \cup ScanOp : ops' = [ops EXCEPT ![w] = x]
             /\ ops'[w] = op /\ ops'[w] \in {Idle} \cup DueOp \cup ScanOp
             /\ \A v \in Worker : v # w => ops'[v] = ops[v]
  BY <1>3, OpStep DEF Jobs
<1>4. CASE FinishFails(w)
  <2>1. ops[w] \in RunOp
    BY <1>4, Stages DEF FinishFails, Jobs
  <2>2. AfterRun(ops[w].rest) \in {Idle} \cup DueOp
    BY <2>1, AfterRunIs DEF RunOp
  <2>3. ops' = [ops EXCEPT ![w] = AfterRun(ops[w].rest)]
    BY <1>4 DEF FinishFails, Put
  <2>4. QED
    BY <1>1, <1>2, <1>3, <1>4, <2>1, <2>2, <2>3
<1>5. CASE SkipDue(w)
  <2>1. ops[w] \in DueOp
    BY <1>5, Stages DEF SkipDue, Jobs
  <2>2. AfterRun(Tail(ops[w].rest)) \in {Idle} \cup DueOp
    BY <2>1, AfterRunIs, TailIs DEF DueOp
  <2>3. ops' = [ops EXCEPT ![w] = AfterRun(Tail(ops[w].rest))]
    BY <1>5 DEF SkipDue, Put
  <2>4. QED
    BY <1>1, <1>2, <1>3, <1>5, <2>1, <2>2, <2>3
<1>6. CASE ExportFails(w)
  <2> DEFINE op == IF ops[w].rest = None THEN Idle ELSE [next |-> "scan", rest |-> <<>>]
  <2>1. ops[w] \in ExportOp \cup RecordOp
    BY <1>6, Stages DEF ExportFails, Jobs
  <2>2. op \in {Idle} \cup ScanOp
    BY DEF ScanOp
  <2>3. ops' = [ops EXCEPT ![w] = op]
    BY <1>6 DEF ExportFails, Put
  <2> HIDE DEF op
  <2>4. ops'[w] = op
    BY <1>3, <2>2, <2>3
  <2>5. QED
    BY <1>1, <1>2, <1>3, <1>6, <2>1, <2>2, <2>3, <2>4 DEF op
<1>7. QED
  BY <1>4, <1>5, <1>6 DEF Falls

LEMMA RunMoves ==
    ASSUME Jobs, NEW w \in Worker,
           Build(w) \/ Deliver(w) \/ Finish(w) \/ \E s \in Schedule : RunNow(w, s)
    PROVE  JobTypes' /\ JobsMove
<1>1. now \in Nat /\ now \in Time
  BY TimesAre DEF Jobs, JobTypes
<1>2. ASSUME NEW s \in Schedule, RunNow(w, s)
      PROVE  JobTypes' /\ JobsMove
  <2>1. Listed(s) /\ (\E x \in Run : runs[x] = None) /\ Insert(s, NewRun) /\ ops[w] = Idle
    BY <1>2, Stages DEF RunNow, Insert, Begin, Jobs
  <2>2. Started(s, NewRun, None, None) \in RunOp /\ runs' \in [Run -> RunRow \cup {None, Gone}]
    BY <2>1, StartedRun
  <2>3. ops' = [ops EXCEPT ![w] = Started(s, NewRun, None, None)]
    BY <1>2 DEF RunNow, Begin
  <2>4. JobsMove
    BY <2>1, <2>2, <2>3, MovedOps DEF Jobs, JobOp
  <2>5. fuel' \in [EventKind -> Nat] /\ UNCHANGED <<now, schedules, disk, mailed, links, email, erp, crashed, unrecorded>>
    BY <1>2, EventTypes DEF RunNow, Jobs
  <2>6. QED
    BY <2>2, <2>4, <2>5, FinitelyListedStill DEF Jobs, JobTypes
<1>3. CASE Build(w)
  <2>1. ops[w] \in RunOp
    BY <1>3, Stages DEF Build, Jobs
  <2>2. /\ [ops[w] EXCEPT !.file = TRUE, !.next = IF ops[w].sends THEN "deliver" ELSE "finish"] \in RunOp
        /\ [ops[w] EXCEPT !.next = "finish"] \in RunOp
    BY <2>1 DEF RunOp
  <2>3. JobsMove
    BY <1>3, <2>1, <2>2, MovedOps DEF Build, Put, Jobs, JobOp
  <2>4. fuel' \in [EventKind -> Nat]
    BY <1>3, EventTypes DEF Build, Jobs, JobTypes
  <2>5. disk' \subseteq Run
    BY <1>3, <2>1 DEF Build, Jobs, JobTypes, RunOp
  <2>6. UNCHANGED <<now, schedules, runs, mailed, links, email, erp, crashed, unrecorded>>
    BY <1>3 DEF Build
  <2>7. QED
    BY <2>3, <2>4, <2>5, <2>6, FinitelyListedStill DEF Jobs, JobTypes
<1>4. CASE Deliver(w)
  <2>1. ops[w] \in RunOp
    BY <1>4, Stages DEF Deliver, Jobs
  <2>2. \A mode \in {"attached", "link"} :
           /\ [ops[w] EXCEPT !.mode = mode, !.ok = TRUE, !.next = "finish"] \in RunOp
           /\ [ops[w] EXCEPT !.mode = mode, !.next = "finish"] \in RunOp
    BY <2>1 DEF RunOp
  <2>3. JobsMove
    <3>1. \E op \in RunOp : ops' = [ops EXCEPT ![w] = op]
      BY <1>4, <2>2 DEF Deliver, Put
    <3>2. QED
      BY <2>1, <3>1, MovedOps DEF Jobs, JobOp
  <2>4. fuel' \in [EventKind -> Nat]
    BY <1>4, EventTypes DEF Deliver, Jobs, JobTypes
  <2>5. links' \subseteq Run \X Nat
    <3>1. ops[w].run \in Run /\ now + TokenLife \in Nat
      BY <1>1, <2>1, ClockAssumption DEF RunOp
    <3>2. links' \subseteq links \cup {<<ops[w].run, now + TokenLife>>}
      BY <1>4 DEF Deliver
    <3>3. QED
      BY <3>1, <3>2 DEF Jobs, JobTypes
  <2>6. mailed' \in [Schedule -> [Time -> Nat]]
    <3>1. \/ mailed' = mailed
          \/ ops[w].due # None /\ mailed' = [mailed EXCEPT ![ops[w].about][ops[w].due] = @ + 1]
      BY <1>4 DEF Deliver
    <3> DEFINE s == ops[w].about
               t == ops[w].due
    <3>2. s \in Schedule /\ t \in Time \cup {None}
      BY <2>1 DEF RunOp
    <3> HIDE DEF s, t
    <3>3. t # None => [mailed EXCEPT ![s][t] = @ + 1] \in [Schedule -> [Time -> Nat]]
      BY <3>2 DEF Jobs, JobTypes
    <3>4. QED
      BY <3>1, <3>3 DEF Jobs, JobTypes, s, t
  <2>7. UNCHANGED <<now, schedules, runs, disk, email, erp, crashed, unrecorded>>
    BY <1>4 DEF Deliver
  <2>8. QED
    BY <2>3, <2>4, <2>5, <2>6, <2>7, FinitelyListedStill DEF Jobs, JobTypes
<1>5. CASE Finish(w)
  <2>1. ops[w] \in RunOp
    BY <1>5, Stages DEF Finish, Jobs
  <2>2. ops[w].run \in Run /\ ops[w].about \in Schedule /\ ops[w].cron \in Cron
        /\ ops[w].rest \in Queue \cup {None}
    BY <2>1 DEF RunOp
  <2>3. JobsMove
    <3>1. AfterRun(ops[w].rest) \in {Idle} \cup JobOp
      BY <2>2, AfterRunIs DEF JobOp
    <3>2. QED
      BY <1>5, <2>1, <3>1, MovedOps DEF Finish, Put, Jobs, JobOp
  <2>4. schedules' \in [Schedule -> ScheduleRow \cup {None, Gone}]
        /\ IsFiniteSet({x \in Schedule : Listed(x)}')
    <3> DEFINE s == ops[w].about
               row == [schedules[s] EXCEPT !.next = NextRun(ops[w].cron, now)]
    <3>1. CASE Listed(s)
      <4>1. schedules[s] \in ScheduleRow
        BY <2>2, <3>1, ScheduleRows DEF Jobs
      <4>2. row \in ScheduleRow
        BY <1>1, <2>2, <4>1, AdvancedRow
      <4>3. schedules' = [schedules EXCEPT ![s] = row]
        BY <1>5, <3>1 DEF Finish, Advance, Jobs, JobTypes
      <4> HIDE DEF row
      <4>4. QED
        BY <2>2, <4>2, <4>3, FinitelyListed DEF Jobs, JobTypes
    <3>2. CASE ~Listed(s)
      BY <1>5, <3>2, FinitelyListedStill DEF Finish, Jobs, JobTypes
    <3>3. QED
      BY <3>1, <3>2
  <2>5. runs' \in [Run -> RunRow \cup {None, Gone}]
    <3>1. CASE runs[ops[w].run] \in RunRow
      <4>1. Record(runs[ops[w].run], ops[w]) \in RunRow
        BY <1>1, <2>1, <3>1, RecordedRow
      <4>2. runs' = [runs EXCEPT ![ops[w].run] = Record(runs[ops[w].run], ops[w])] \/ runs' = runs
        BY <1>5 DEF Finish, Jobs, JobTypes
      <4>3. QED
        BY <4>1, <4>2 DEF Jobs, JobTypes
    <3>2. CASE runs[ops[w].run] \in {None, Gone}
      <4>1. runs[ops[w].run] = Gone
        BY <2>1, <3>2 DEF Jobs, KnownRuns
      <4>2. QED
        BY <1>5, <4>1 DEF Finish, Jobs, JobTypes
    <3>3. QED
      BY <3>1, <3>2, <2>2 DEF Jobs, JobTypes
  <2>6. UNCHANGED <<now, disk, mailed, links, email, erp, crashed, unrecorded, fuel>>
    BY <1>5 DEF Finish
  <2>7. QED
    BY <2>3, <2>4, <2>5, <2>6 DEF Jobs, JobTypes
<1>6. QED
  BY <1>2, <1>3, <1>4, <1>5
LEMMA TickMoves ==
    ASSUME Jobs, NEW w \in Worker,
           \/ Tick(w) \/ Scan(w) \/ StartDue(w) \/ ExportNow(w) \/ RereadConfig(w) \/ RecordExport(w)
           \/ SweepFiles(w) \/ SweepRows(w) \/ Falls(w)
    PROVE  JobTypes' /\ JobsMove
<1>1. now \in Nat /\ now \in Time
  BY TimesAre DEF Jobs, JobTypes
<1>2. <<>> \in Queue /\ None \notin Queue
  <2>1. <<>> \in Queue
    BY EmptySeq DEF Queue
  <2>2. QED
    BY <2>1, NoneAssumption DEF Queue
<1>3. ASSUME NEW op \in {Idle} \cup JobOp, ops[w] \in {Idle} \cup JobOp, ops' = [ops EXCEPT ![w] = op],
             UNCHANGED jobVars, UNCHANGED <<now, crashed>>, fuel' \in [EventKind -> Nat]
      PROVE  JobTypes' /\ JobsMove
  <2>1. JobsMove
    BY <1>3, MovedOps DEF Jobs
  <2>2. UNCHANGED <<schedules, runs, disk, mailed, links, email, erp>>
    BY <1>3 DEF jobVars
  <2>3. QED
    BY <1>3, <2>1, <2>2, FinitelyListedStill DEF Jobs, JobTypes
<1>4. ASSUME NEW rest \in {None, <<>>}
      PROVE  Export(rest) \in JobOp
  BY DEF Export, JobOp, ExportOp
<1>5. [next |-> "scan", rest |-> <<>>] \in JobOp
  BY DEF JobOp, ScanOp
<1>6. CASE Tick(w)
  <2>1. ops[w] = Idle
    BY <1>6, Stages DEF Tick, Begin, Jobs
  <2>2. \E op \in JobOp : ops' = [ops EXCEPT ![w] = op]
    BY <1>4, <1>5, <1>6 DEF Tick, Begin
  <2>3. UNCHANGED jobVars /\ UNCHANGED <<now, crashed, unrecorded>> /\ fuel' \in [EventKind -> Nat]
    BY <1>6, EventTypes DEF Tick, Jobs
  <2>4. QED
    BY <1>3, <2>1, <2>2, <2>3
<1>7. CASE ExportNow(w)
  <2>1. ops[w] = Idle
    BY <1>7, Stages DEF ExportNow, Begin, Jobs
  <2>2. \E op \in JobOp : ops' = [ops EXCEPT ![w] = op]
    BY <1>4, <1>7 DEF ExportNow, Begin
  <2>3. UNCHANGED jobVars /\ UNCHANGED <<now, crashed, unrecorded>> /\ fuel' \in [EventKind -> Nat]
    BY <1>7, EventTypes DEF ExportNow, Jobs
  <2>4. QED
    BY <1>3, <2>1, <2>2, <2>3
<1>8. CASE Scan(w)
  <2>1. ops[w] \in JobOp
    BY <1>8, Stages DEF Scan, Jobs, JobOp
  <2>2. Cardinality(Due) \in Nat
    <3>1. Due \subseteq {x \in Schedule : Listed(x)}
      BY DEF Due
    <3>2. QED
      BY <3>1, FS_Subset, FS_CardinalityType DEF Jobs, JobTypes
  <2>3. ASSUME NEW queue \in [1 .. Cardinality(Due) -> [id : Due, due : Time]]
        PROVE  queue \in Queue
    <3>1. \A i \in 1 .. Cardinality(Due) : queue[i] \in [id : Schedule, due : Time]
      BY DEF Due
    <3> DEFINE n == Cardinality(Due)
               item == [id : Schedule, due : Time]
    <3>2. n \in Nat /\ queue \in [1 .. n -> item]
      BY <2>2, <3>1
    <3> HIDE DEF n, item
    <3>3. queue \in Seq(item)
      BY <3>2
    <3>4. QED
      BY <3>3 DEF Queue, item
  <2>4. PICK queue \in [1 .. Cardinality(Due) -> [id : Due, due : Time]] :
           Put(w, IF queue = <<>> THEN Idle ELSE [next |-> "due", rest |-> queue])
    BY <1>8 DEF Scan
  <2>5. queue # <<>> => [next |-> "due", rest |-> queue] \in JobOp
    BY <2>3 DEF JobOp, DueOp
  <2>6. \E op \in {Idle} \cup JobOp : ops' = [ops EXCEPT ![w] = op]
    BY <2>4, <2>5 DEF Put
  <2>7. UNCHANGED jobVars /\ UNCHANGED <<now, crashed, unrecorded>> /\ fuel' \in [EventKind -> Nat]
    BY <1>8 DEF Scan, Jobs, JobTypes
  <2>8. QED
    BY <1>3, <2>1, <2>6, <2>7
<1>9. CASE StartDue(w)
  <2>1. ops[w] \in DueOp /\ ops[w] \in JobOp
    BY <1>9, Stages DEF StartDue, Jobs, JobOp
  <2> DEFINE rest == ops[w].rest
             s == rest[1].id
  <2>2. /\ rest[1] \in [id : Schedule, due : Time] /\ Tail(rest) \in Queue
        /\ Len(Tail(rest)) = Len(rest) - 1 /\ Len(rest) \in Nat \ {0}
    BY <2>1, TailIs DEF DueOp
  <2>3. s \in Schedule /\ rest[1].due \in Time
    BY <2>2
  <2>4. Listed(s) /\ Insert(s, NewRun) /\ Put(w, Started(s, NewRun, rest[1].due, Tail(rest)))
    BY <1>9 DEF StartDue
  <2>5. \E x \in Run : runs[x] = None
    BY <2>4 DEF Insert
  <2>6. Started(s, NewRun, rest[1].due, Tail(rest)) \in RunOp
        /\ runs' \in [Run -> RunRow \cup {None, Gone}]
    BY <2>2, <2>3, <2>4, <2>5, StartedRun
  <2>7. JobsMove
    BY <2>1, <2>4, <2>6, MovedOps DEF Put, JobOp, Jobs
  <2>8. UNCHANGED <<now, schedules, disk, mailed, links, email, erp, crashed, unrecorded, fuel>>
    BY <1>9 DEF StartDue
  <2>9. QED
    BY <2>6, <2>7, <2>8, FinitelyListedStill DEF Jobs, JobTypes
<1>10. CASE RereadConfig(w)
  <2>1. ops[w] \in ExportOp /\ ops[w] \in JobOp
    BY <1>10, Stages DEF RereadConfig, Jobs, JobOp
  <2>2. NextExport \in Nat \cup {None}
    BY <1>1, NextRunIs DEF NextExport, Jobs, JobTypes
  <2>3. [next |-> "record", about |-> "erp", due |-> NextExport, rest |-> ops[w].rest] \in RecordOp
    BY <2>1, <2>2 DEF ExportOp, RecordOp
  <2>4. \E op \in JobOp : ops' = [ops EXCEPT ![w] = op]
    BY <1>10, <2>3 DEF RereadConfig, Put, JobOp
  <2>5. UNCHANGED jobVars /\ UNCHANGED <<now, crashed, unrecorded>> /\ fuel' \in [EventKind -> Nat]
    BY <1>10 DEF RereadConfig, Jobs, JobTypes
  <2>6. QED
    BY <1>3, <2>1, <2>4, <2>5
<1>11. CASE RecordExport(w)
  <2>1. ops[w] \in RecordOp /\ ops[w] \in JobOp
    BY <1>11, Stages DEF RecordExport, Jobs, JobOp
  <2>2. JobsMove
    BY <1>5, <1>11, <2>1, MovedOps DEF RecordExport, Put, Jobs
  <2>3. erp' \in [enabled : BOOLEAN, cron : Cron \cup {None}, next : Nat \cup {None}]
    BY <1>11, <2>1 DEF RecordExport, RecordOp, Jobs, JobTypes
  <2>4. UNCHANGED <<now, schedules, runs, disk, mailed, links, email, crashed, unrecorded, fuel>>
    BY <1>11 DEF RecordExport
  <2>5. QED
    BY <2>2, <2>3, <2>4, FinitelyListedStill DEF Jobs, JobTypes
<1>12. CASE SweepFiles(w)
  <2> DEFINE old == {r \in Run : runs[r] \notin {None, Gone} /\ Swept(r)}
             op == [next |-> "sweep", rows |-> old]
  <2>1. op \in JobOp
    BY DEF JobOp, SweepOp
  <2>2. ops[w] = Idle /\ ops' = [ops EXCEPT ![w] = op]
    BY <1>12, Stages DEF SweepFiles, Begin, Jobs
  <2>3. JobsMove
    BY <2>1, <2>2, MovedOps DEF Jobs
  <2>4. disk' \subseteq Run
    BY <1>12 DEF SweepFiles, Jobs, JobTypes
  <2>5. fuel' \in [EventKind -> Nat] /\ UNCHANGED <<now, schedules, runs, mailed, links, email, erp, crashed, unrecorded>>
    BY <1>12, EventTypes DEF SweepFiles, Jobs
  <2>6. QED
    BY <2>3, <2>4, <2>5, FinitelyListedStill DEF Jobs, JobTypes
<1>13. CASE SweepRows(w)
  <2>1. ops[w] \in JobOp /\ ops' = [ops EXCEPT ![w] = Idle]
    BY <1>13, Stages DEF SweepRows, Done, Put, Jobs, JobOp
  <2>2. JobsMove
    BY <2>1, MovedOps DEF Jobs
  <2>3. runs' \in [Run -> RunRow \cup {None, Gone}]
    BY <1>13 DEF SweepRows, Jobs, JobTypes
  <2>4. UNCHANGED <<now, schedules, disk, mailed, links, email, erp, crashed, unrecorded, fuel>>
    BY <1>13 DEF SweepRows
  <2>5. QED
    BY <2>2, <2>3, <2>4, FinitelyListedStill DEF Jobs, JobTypes
<1>14. CASE Falls(w)
  <2>1. ops[w] \in JobOp /\ UNCHANGED jobVars /\ UNCHANGED <<now, crashed>> /\ fuel' \in [EventKind -> Nat]
    BY <1>14, Fallen DEF JobOp
  <2>2. \E op \in {Idle} \cup JobOp : ops' = [ops EXCEPT ![w] = op]
    BY <1>14, Fallen DEF JobOp
  <2>3. QED
    BY <1>3, <2>1, <2>2
<1>15. QED
  BY <1>6, <1>7, <1>8, <1>9, <1>10, <1>11, <1>12, <1>13, <1>14

LEMMA ReportsMove == Jobs /\ Reports => JobTypes' /\ JobsMove
<1> SUFFICES ASSUME Jobs, Reports PROVE JobTypes' /\ JobsMove
  OBVIOUS
<1>1. \/ \E s \in Schedule :
           \/ \E cron \in Cron : PatchCron(s, cron) \/ \E sends \in BOOLEAN : CreateSchedule(s, cron, sends)
           \/ \E active, sends \in BOOLEAN : PatchSchedule(s, active, sends)
           \/ DeleteSchedule(s)
      \/ \E enabled \in BOOLEAN : PatchEmail(enabled) \/ PatchErp(enabled)
      \/ \E cron \in Cron \cup {None} : PatchErpCron(cron)
      \/ \E w \in Worker :
           Build(w) \/ Deliver(w) \/ Finish(w) \/ \E s \in Schedule : RunNow(w, s)
      \/ \E w \in Worker :
           \/ Tick(w) \/ Scan(w) \/ StartDue(w) \/ ExportNow(w) \/ RereadConfig(w) \/ RecordExport(w)
           \/ SweepFiles(w) \/ SweepRows(w) \/ Falls(w)
  BY Zenon DEF Reports, Falls
<1>2. QED
  BY <1>1, PageMoves, RunMoves, TickMoves
(* Who writes what. *)
LEMMA Writers ==
    ASSUME Reports
    PROVE  /\ \/ UNCHANGED schedules
              \/ \E s \in Schedule, cron \in Cron : PatchCron(s, cron)
              \/ \E s \in Schedule, cron \in Cron, sends \in BOOLEAN : CreateSchedule(s, cron, sends)
              \/ \E s \in Schedule, active, sends \in BOOLEAN : PatchSchedule(s, active, sends)
              \/ \E s \in Schedule : DeleteSchedule(s)
              \/ \E w \in Worker : Finish(w)
           /\ \/ UNCHANGED runs
              \/ \E s \in Schedule : DeleteSchedule(s)
              \/ \E w \in Worker, s \in Schedule : RunNow(w, s)
              \/ \E w \in Worker : StartDue(w) \/ Finish(w) \/ SweepRows(w)
           /\ \/ UNCHANGED disk
              \/ \E w \in Worker : Build(w) \/ SweepFiles(w)
           /\ UNCHANGED <<links, mailed>> \/ \E w \in Worker : Deliver(w)
           /\ \/ UNCHANGED erp
              \/ \E enabled \in BOOLEAN : PatchErp(enabled)
              \/ \E cron \in Cron \cup {None} : PatchErpCron(cron)
              \/ \E w \in Worker : RecordExport(w)
           /\ \/ UNCHANGED overtaken
              \/ \E s \in Schedule, cron \in Cron : PatchCron(s, cron)
              \/ \E cron \in Cron \cup {None} : PatchErpCron(cron)
<1>1. ASSUME NEW s \in Schedule,
             \/ \E cron \in Cron : PatchCron(s, cron) \/ \E sends \in BOOLEAN : CreateSchedule(s, cron, sends)
             \/ \E active, sends \in BOOLEAN : PatchSchedule(s, active, sends)
             \/ DeleteSchedule(s)
      PROVE  UNCHANGED <<disk, links, mailed, erp>>
  BY <1>1, Zenon DEF PatchCron, CreateSchedule, PatchSchedule, DeleteSchedule
<1>2. ASSUME NEW s \in Schedule,
             \/ \E cron \in Cron : PatchCron(s, cron) \/ \E sends \in BOOLEAN : CreateSchedule(s, cron, sends)
             \/ \E active, sends \in BOOLEAN : PatchSchedule(s, active, sends)
      PROVE  UNCHANGED runs
  BY <1>2, Zenon DEF PatchCron, CreateSchedule, PatchSchedule
<1>3. ASSUME NEW s \in Schedule,
             \/ \E cron \in Cron, sends \in BOOLEAN : CreateSchedule(s, cron, sends)
             \/ \E active, sends \in BOOLEAN : PatchSchedule(s, active, sends)
             \/ DeleteSchedule(s)
      PROVE  UNCHANGED overtaken
  BY <1>3, Zenon DEF CreateSchedule, PatchSchedule, DeleteSchedule
<1>4. ASSUME NEW enabled \in BOOLEAN, PatchEmail(enabled) \/ PatchErp(enabled)
      PROVE  UNCHANGED <<schedules, runs, disk, links, mailed, overtaken>>
             /\ (UNCHANGED erp \/ PatchErp(enabled))
  BY <1>4, Zenon DEF PatchEmail, PatchErp
<1>5. ASSUME NEW cron \in Cron \cup {None}, PatchErpCron(cron)
      PROVE  UNCHANGED <<schedules, runs, disk, links, mailed>>
  BY <1>5, Zenon DEF PatchErpCron
<1>6. ASSUME NEW w \in Worker,
             \/ \E s \in Schedule : RunNow(w, s)
             \/ Build(w) \/ Deliver(w) \/ Finish(w) \/ StartDue(w)
      PROVE  /\ UNCHANGED <<erp, overtaken>>
             /\ UNCHANGED schedules \/ Finish(w)
             /\ UNCHANGED runs \/ (\E s \in Schedule : RunNow(w, s)) \/ StartDue(w) \/ Finish(w)
             /\ UNCHANGED disk \/ Build(w)
             /\ UNCHANGED <<links, mailed>> \/ Deliver(w)
  BY <1>6, Zenon DEF RunNow, Build, Deliver, Finish, StartDue
<1>7. ASSUME NEW w \in Worker,
             \/ Tick(w) \/ Scan(w) \/ ExportNow(w) \/ RereadConfig(w) \/ RecordExport(w)
             \/ SweepFiles(w) \/ SweepRows(w) \/ Falls(w)
      PROVE  /\ UNCHANGED <<schedules, links, mailed, overtaken>>
             /\ UNCHANGED runs \/ SweepRows(w)
             /\ UNCHANGED disk \/ SweepFiles(w)
             /\ UNCHANGED erp \/ RecordExport(w)
  BY <1>7, Zenon DEF Tick, Scan, ExportNow, RereadConfig, RecordExport, SweepFiles, SweepRows,
     Falls, FinishFails, SkipDue, ExportFails, jobVars
<1>8. QED
  BY <1>1, <1>2, <1>3, <1>4, <1>5, <1>6, <1>7 DEF Reports, Falls
(* Who moves whom: a page or a job moves one operation at most. *)
LEMMA Actor ==
    ASSUME Jobs, Reports
    PROVE  \/ UNCHANGED ops
           \/ \E w \in Worker :
                /\ \A v \in Worker : v # w => ops'[v] = ops[v]
                /\ \/ \E s \in Schedule : RunNow(w, s)
                   \/ Build(w) \/ Deliver(w) \/ Finish(w)
                   \/ Tick(w) \/ Scan(w) \/ StartDue(w) \/ ExportNow(w) \/ RereadConfig(w)
                   \/ RecordExport(w) \/ SweepFiles(w) \/ SweepRows(w) \/ Falls(w)
<1> DEFINE acts(w) == \/ \E s \in Schedule : RunNow(w, s)
                      \/ Build(w) \/ Deliver(w) \/ Finish(w)
                      \/ Tick(w) \/ Scan(w) \/ StartDue(w) \/ ExportNow(w) \/ RereadConfig(w)
                      \/ RecordExport(w) \/ SweepFiles(w) \/ SweepRows(w) \/ Falls(w)
<1>1. UNCHANGED ops \/ \E w \in Worker : acts(w)
  BY Zenon DEF Reports, PatchCron, CreateSchedule, PatchSchedule, DeleteSchedule, PatchEmail,
     PatchErp, PatchErpCron, Falls
<1>2. ASSUME NEW w \in Worker, acts(w)
      PROVE  \E op : ops' = [ops EXCEPT ![w] = op]
  BY <1>2 DEF RunNow, Build, Deliver, Finish, Tick, Scan, StartDue, ExportNow, RereadConfig,
     RecordExport, SweepFiles, SweepRows, Falls, FinishFails, SkipDue, ExportFails, Begin, Put, Done
<1>3. ASSUME NEW w \in Worker, acts(w), NEW v \in Worker, v # w
      PROVE  ops'[v] = ops[v]
  BY <1>2, <1>3, OpStep DEF Jobs
<1> HIDE DEF acts
<1>4. QED
  BY <1>1, <1>3 DEF acts

LEMMA RunSteps ==
    ASSUME Jobs, Reports, NEW v \in Worker, ops'[v] \in RunOp
    PROVE  \/ ops'[v] = ops[v]
           \/ /\ Build(v) \/ Deliver(v)
              /\ ops[v] \in RunOp
              /\ \A k \in {"about", "run", "cron", "sends", "due", "rest"} : ops'[v][k] = ops[v][k]
           \/ (\E s \in Schedule : RunNow(v, s)) \/ StartDue(v)
<1>1. SUFFICES ASSUME ops'[v] # ops[v], ~(\E s \in Schedule : RunNow(v, s)), ~StartDue(v)
               PROVE  /\ Build(v) \/ Deliver(v)
                      /\ ops[v] \in RunOp
                      /\ \A k \in {"about", "run", "cron", "sends", "due", "rest"} : ops'[v][k] = ops[v][k]
  OBVIOUS
<1>2. \/ Build(v) \/ Deliver(v) \/ Finish(v)
      \/ Tick(v) \/ Scan(v) \/ ExportNow(v) \/ RereadConfig(v)
      \/ RecordExport(v) \/ SweepFiles(v) \/ SweepRows(v) \/ Falls(v)
  BY <1>1, Actor
<1>3. ASSUME \/ Finish(v) \/ Tick(v) \/ Scan(v) \/ ExportNow(v) \/ RereadConfig(v)
             \/ RecordExport(v) \/ SweepFiles(v) \/ SweepRows(v) \/ Falls(v)
      PROVE  FALSE
  <2> DEFINE others == {"idle", "due", "export", "scan", "record", "sweep"}
  <2>1. Idle.next \in others /\ \A rest : Export(rest).next \in others
    BY DEF Idle, Export
  <2>2. ops'[v].next \in others
    <3>1. ASSUME NEW op, ops' = [ops EXCEPT ![v] = op]
          PROVE  ops'[v] = op
      BY <3>1, OpStep DEF Jobs
    <3>2. CASE Finish(v) \/ SweepRows(v)
      <4>1. ops'[v] = Idle \/ ops'[v] = [next |-> "due", rest |-> ops[v].rest]
        BY <3>1, <3>2 DEF Finish, SweepRows, Put, Done, AfterRun
      <4>2. QED
        BY <2>1, <4>1
    <3>3. CASE Tick(v) \/ ExportNow(v)
      <4>1. ops'[v] = Export(None) \/ ops'[v] = Export(<<>>) \/ ops'[v] = [next |-> "scan", rest |-> <<>>]
        BY <3>1, <3>3, Zenon DEF Tick, ExportNow, Begin
      <4>2. QED
        BY <2>1, <4>1
    <3>4. CASE Scan(v)
      <4>1. PICK queue \in [1 .. Cardinality(Due) -> [id : Due, due : Time]] :
               Put(v, IF queue = <<>> THEN Idle ELSE [next |-> "due", rest |-> queue])
        BY <3>4 DEF Scan
      <4>2. ops'[v] = Idle \/ ops'[v] = [next |-> "due", rest |-> queue]
        BY <3>1, <4>1, Zenon DEF Put
      <4>3. QED
        BY <2>1, <4>2
    <3>5. CASE RereadConfig(v) \/ RecordExport(v)
      <4>1. \/ ops'[v] = [next |-> "record", about |-> "erp", due |-> NextExport, rest |-> ops[v].rest]
            \/ ops'[v] = Idle \/ ops'[v] = [next |-> "scan", rest |-> <<>>]
        BY <3>1, <3>5, Zenon DEF RereadConfig, RecordExport, Put
      <4>2. QED
        BY <2>1, <4>1
    <3>6. CASE SweepFiles(v)
      BY <3>6, OpStep DEF SweepFiles, Begin, Jobs
    <3>7. CASE Falls(v)
      BY <2>1, <3>7, Fallen DEF DueOp, ScanOp
    <3>8. QED
      BY <1>3, <3>2, <3>3, <3>4, <3>5, <3>6, <3>7
  <2>3. ops'[v].next \in {"build", "deliver", "finish"}
    BY DEF RunOp
  <2>4. QED
    BY <2>2, <2>3
<1>4. ops[v] \in RunOp
  BY <1>2, <1>3, Stages DEF Build, Deliver, Jobs
<1>5. CASE Build(v)
  <2>1. \/ ops'[v] = [ops[v] EXCEPT !.file = TRUE, !.next = IF ops[v].sends THEN "deliver" ELSE "finish"]
        \/ ops'[v] = [ops[v] EXCEPT !.next = "finish"]
    BY <1>5, OpStep DEF Build, Put, Jobs
  <2>2. QED
    BY <1>4, <1>5, <2>1 DEF RunOp
<1>6. CASE Deliver(v)
  <2>1. \E mode \in {"attached", "link"} :
           \/ ops'[v] = [ops[v] EXCEPT !.mode = mode, !.ok = TRUE, !.next = "finish"]
           \/ ops'[v] = [ops[v] EXCEPT !.mode = mode, !.next = "finish"]
    BY <1>6, OpStep DEF Deliver, Put, Jobs
  <2>2. QED
    BY <1>4, <1>6, <2>1 DEF RunOp
<1>7. QED
  BY <1>2, <1>3, <1>5, <1>6
LEMMA TablesGrow ==
    ASSUME Jobs, Reports
    PROVE  /\ \A s \in Schedule : schedules[s] # None => schedules'[s] # None
           /\ \A s \in Schedule : schedules[s] = Gone => schedules'[s] = Gone
           /\ \A r \in Run : runs[r] # None => runs'[r] # None
           /\ \A r \in Run : runs[r] = Gone => runs'[r] = Gone
<1>1. JobTypes'
  BY ReportsMove
<1>2. None # Gone /\ None \notin ScheduleRow \cup RunRow /\ Gone \notin ScheduleRow \cup RunRow
  BY NoneAssumption
<1>3. ASSUME NEW s \in Schedule
      PROVE  (schedules[s] # None => schedules'[s] # None) /\ (schedules[s] = Gone => schedules'[s] = Gone)
  <2>1. ASSUME NEW x \in Schedule, NEW row, row # None, schedules' = [schedules EXCEPT ![x] = row],
               schedules[x] # Gone
        PROVE  (schedules[s] # None => schedules'[s] # None) /\ (schedules[s] = Gone => schedules'[s] = Gone)
    BY <2>1 DEF Jobs, JobTypes
  <2>2. CASE \E x \in Schedule, cron \in Cron : PatchCron(x, cron)
    <3>1. PICK x \in Schedule, cron \in Cron : PatchCron(x, cron)
      BY <2>2
    <3>2. schedules' = [schedules EXCEPT ![x] = Reschedule(schedules[x], cron)] /\ Listed(x)
      BY <3>1 DEF PatchCron, Jobs, JobTypes
    <3>3. schedules'[x] = Reschedule(schedules[x], cron)
      BY <3>2 DEF Jobs, JobTypes
    <3>4. Reschedule(schedules[x], cron) # None
      BY <3>2, RescheduledRow, ScheduleRows, TimesAre, <1>2 DEF Jobs, JobTypes
    <3>5. QED
      BY <2>1, <3>2, <3>4 DEF Listed
  <2>3. CASE \E x \in Schedule, cron \in Cron, sends \in BOOLEAN : CreateSchedule(x, cron, sends)
    <3>1. PICK x \in Schedule, cron \in Cron, sends \in BOOLEAN : CreateSchedule(x, cron, sends)
      BY <2>3
    <3>2. schedules[x] = None /\ \A y \in Schedule : y # x => schedules'[y] = schedules[y]
      BY <3>1 DEF CreateSchedule, Jobs, JobTypes
    <3>3. QED
      BY <1>2, <3>2
  <2>4. CASE \E x \in Schedule, active, sends \in BOOLEAN : PatchSchedule(x, active, sends)
    <3>1. PICK x \in Schedule, active \in BOOLEAN, sends \in BOOLEAN : PatchSchedule(x, active, sends)
      BY <2>4
    <3> DEFINE row == [schedules[x] EXCEPT !.active = active, !.sends = sends]
    <3>2. schedules' = [schedules EXCEPT ![x] = row] /\ Listed(x)
      BY <3>1 DEF PatchSchedule, Jobs, JobTypes
    <3>3. row \in ScheduleRow
      BY <3>2, ScheduleRows DEF ScheduleRow, Jobs
    <3> HIDE DEF row
    <3>4. QED
      BY <1>2, <2>1, <3>2, <3>3 DEF Listed
  <2>5. CASE \E x \in Schedule : DeleteSchedule(x)
    BY <1>2, <2>5, <2>1 DEF DeleteSchedule, Listed
  <2>6. CASE \E w \in Worker : Finish(w)
    <3>1. PICK w \in Worker : Finish(w)
      BY <2>6
    <3>2. ops[w] \in RunOp
      BY <3>1, Stages DEF Finish, Jobs
    <3> DEFINE x == ops[w].about
               row == [schedules[x] EXCEPT !.next = NextRun(ops[w].cron, now)]
    <3>3. x \in Schedule /\ ops[w].cron \in Cron
      BY <3>2 DEF RunOp
    <3>4. CASE Listed(x)
      <4>1. row \in ScheduleRow
        BY <3>3, <3>4, AdvancedRow, ScheduleRows, TimesAre DEF Jobs, JobTypes
      <4>2. schedules' = [schedules EXCEPT ![x] = row]
        BY <3>1, <3>3, <3>4 DEF Finish, Advance, Jobs, JobTypes
      <4> HIDE DEF row
      <4>3. QED
        BY <1>2, <2>1, <3>3, <3>4, <4>1, <4>2 DEF Listed
    <3>5. CASE ~Listed(x)
      BY <3>1, <3>5 DEF Finish
    <3>6. QED
      BY <3>4, <3>5
  <2>7. QED
    BY <2>2, <2>3, <2>4, <2>5, <2>6, Writers
<1>4. ASSUME NEW r \in Run
      PROVE  (runs[r] # None => runs'[r] # None) /\ (runs[r] = Gone => runs'[r] = Gone)
  <2>1. CASE \E s \in Schedule : DeleteSchedule(s)
    BY <1>2, <2>1 DEF DeleteSchedule, Jobs, JobTypes
  <2>2. ASSUME NEW s, (\E x \in Run : runs[x] = None), Insert(s, NewRun)
        PROVE  (runs[r] # None => runs'[r] # None) /\ (runs[r] = Gone => runs'[r] = Gone)
    <3>1. \A x \in Run : x # NewRun => runs'[x] = runs[x]
      BY <2>2 DEF Insert, Jobs, JobTypes
    <3>2. QED
      BY <1>2, <2>2, <3>1, NewRunIs DEF Jobs
  <2>3. CASE \E w \in Worker : (\E s \in Schedule : RunNow(w, s)) \/ StartDue(w)
    BY <2>2, <2>3 DEF RunNow, StartDue, Insert
  <2>4. CASE \E w \in Worker : Finish(w)
    <3>1. PICK w \in Worker : Finish(w)
      BY <2>4
    <3>2. ops[w] \in RunOp
      BY <3>1, Stages DEF Finish, Jobs
    <3>3. \A x \in Run : x # ops[w].run => runs'[x] = runs[x]
      BY <3>1 DEF Finish, Jobs, JobTypes
    <3>4. runs[ops[w].run] = Gone => runs' = runs
      BY <3>1 DEF Finish
    <3>5. runs[ops[w].run] # Gone => runs'[ops[w].run] # None
      <4>1. ASSUME runs[ops[w].run] # Gone
            PROVE  runs'[ops[w].run] = Record(runs[ops[w].run], ops[w]) /\ runs[ops[w].run] \in RunRow
        BY <3>1, <3>2, <4>1 DEF Finish, Jobs, JobTypes, KnownRuns, RunOp
      <4>2. QED
        BY <1>2, <3>2, <4>1, RecordedRow DEF Jobs, JobTypes
    <3>6. QED
      BY <1>2, <3>3, <3>4, <3>5
  <2>5. CASE \E w \in Worker : SweepRows(w)
    BY <1>2, <2>5 DEF SweepRows, Jobs, JobTypes
  <2>6. QED
    BY <2>1, <2>3, <2>4, <2>5, Writers
<1>5. QED
  BY <1>3, <1>4

(* A run that is new: someone asked for it, or it is the tick's next. *)
FreshRun(w, s, due, rest) ==
    /\ Listed(s) /\ Insert(s, NewRun)
    /\ NewRun \in Run /\ runs[NewRun] = None
    /\ \/ ops[w] = Idle /\ due = None /\ rest = None
       \/ /\ ops[w] \in DueOp
          /\ s = ops[w].rest[1].id /\ due = ops[w].rest[1].due /\ rest = Tail(ops[w].rest)
    /\ ops'[w] = Started(s, NewRun, due, rest)
    /\ \A v \in Worker : v # w => ops'[v] = ops[v]
    /\ UNCHANGED <<now, schedules, disk, mailed, links, email, erp, overtaken, crashed, unrecorded>>

LEMMA FreshRuns ==
    ASSUME Jobs, NEW w \in Worker, ops'[w] \in RunOp, (\E s \in Schedule : RunNow(w, s)) \/ StartDue(w)
    PROVE  \E s \in Schedule, due \in Time \cup {None}, rest \in Queue \cup {None} : FreshRun(w, s, due, rest)
<1>1. ASSUME NEW op, ops' = [ops EXCEPT ![w] = op]
      PROVE  ops'[w] = op /\ \A v \in Worker : v # w => ops'[v] = ops[v]
  BY <1>1, OpStep DEF Jobs
<1>2. ASSUME NEW s \in Schedule, RunNow(w, s)
      PROVE  FreshRun(w, s, None, None)
  <2>1. ops[w] = Idle
    BY <1>2, Stages DEF RunNow, Begin, Jobs
  <2>2. NewRun \in Run /\ runs[NewRun] = None
    BY <1>2, NewRunIs DEF RunNow, Insert, Jobs
  <2>3. Listed(s) /\ Insert(s, NewRun)
        /\ UNCHANGED <<now, schedules, disk, mailed, links, email, erp, overtaken, crashed, unrecorded>>
    BY <1>2 DEF RunNow
  <2>4. ops' = [ops EXCEPT ![w] = Started(s, NewRun, None, None)]
    BY <1>2 DEF RunNow, Begin
  <2>5. QED
    BY <1>1, <2>1, <2>2, <2>3, <2>4 DEF FreshRun
<1>3. CASE StartDue(w)
  <2>1. ops[w] \in DueOp
    BY <1>3, Stages DEF StartDue, Jobs
  <2>2. ops[w].rest[1] \in [id : Schedule, due : Time] /\ Tail(ops[w].rest) \in Queue
    BY <2>1, TailIs DEF DueOp
  <2> DEFINE s == ops[w].rest[1].id
             due == ops[w].rest[1].due
             rest == Tail(ops[w].rest)
  <2>3. s \in Schedule /\ due \in Time /\ rest \in Queue
    BY <2>2
  <2>4. Listed(s)
    BY <1>3 DEF StartDue
  <2>5. Insert(s, NewRun) /\ ops' = [ops EXCEPT ![w] = Started(s, NewRun, due, rest)]
        /\ UNCHANGED <<now, schedules, disk, mailed, links, email, erp, overtaken, crashed, unrecorded>>
    BY <1>3, <2>4 DEF StartDue, Put
  <2>6. NewRun \in Run /\ runs[NewRun] = None
    BY <2>5, NewRunIs DEF Insert, Jobs
  <2>7. FreshRun(w, s, due, rest)
    BY <1>1, <2>1, <2>4, <2>5, <2>6 DEF FreshRun
  <2>8. QED
    BY <2>3, <2>7
<1>4. QED
  BY <1>2, <1>3

LEMMA FreshRow ==
    ASSUME Jobs, NEW w \in Worker, NEW s \in Schedule, NEW due, NEW rest, FreshRun(w, s, due, rest)
    PROVE  /\ runs'[NewRun] \in RunRow
           /\ runs'[NewRun].schedule = s /\ runs'[NewRun].status = "running"
           /\ runs'[NewRun].finished = None
           /\ \A r \in Run : r # NewRun => runs'[r] = runs[r]
           /\ ops'[w].run = NewRun /\ ops'[w].about = s /\ ops'[w].next = "build"
           /\ ops'[w].cron = schedules[s].cron /\ ops'[w].due = due /\ ops'[w].rest = rest
<1> DEFINE row == [schedule |-> s, status |-> "running", file |-> FALSE, mode |-> None, finished |-> None]
           new == NewRun
<1>1. new \in Run /\ runs' = [runs EXCEPT ![new] = row]
  BY DEF FreshRun, Insert
<1>2. row \in RunRow /\ row.schedule = s /\ row.status = "running" /\ row.finished = None
  BY DEF RunRow
<1>3. ops'[w] = Started(s, new, due, rest)
  BY DEF FreshRun
<1> HIDE DEF row, new
<1>4. runs'[new] = row /\ \A r \in Run : r # new => runs'[r] = runs[r]
  BY <1>1 DEF Jobs, JobTypes
<1>5. /\ ops'[w].run = new /\ ops'[w].about = s /\ ops'[w].next = "build"
      /\ ops'[w].cron = schedules[s].cron /\ ops'[w].due = due /\ ops'[w].rest = rest
  BY <1>3 DEF Started
<1>6. QED
  BY <1>2, <1>4, <1>5 DEF new

LEMMA ReportsTypes == Jobs /\ Reports => Jobs'
<1> SUFFICES ASSUME Jobs, Reports PROVE Jobs'
  OBVIOUS
<1>1. JobTypes' /\ OpTypes'
  BY ReportsMove DEF JobsMove
<1>2. ASSUME NEW w \in Worker, ops'[w] \in RunOp
      PROVE  runs'[ops'[w].run] # None /\ schedules'[ops'[w].about] # None
  <2>1. CASE ops'[w] = ops[w]
    BY <1>2, <2>1, TablesGrow DEF Jobs, KnownRuns, RunOp
  <2>2. CASE ops[w] \in RunOp /\ ops'[w].run = ops[w].run /\ ops'[w].about = ops[w].about
    BY <2>2, TablesGrow DEF Jobs, KnownRuns, RunOp
  <2>3. ASSUME NEW s \in Schedule, NEW due, NEW rest, FreshRun(w, s, due, rest)
        PROVE  runs'[ops'[w].run] # None /\ schedules'[ops'[w].about] # None
    BY <2>3, FreshRow, NoneAssumption DEF FreshRun, Listed
  <2>4. QED
    BY <1>2, <2>1, <2>2, <2>3, RunSteps, FreshRuns
<1>3. QED
  BY <1>1, <1>2 DEF Jobs, KnownRuns
(***************************************************************************)
(* Type correctness of the attendance.                                     *)
(***************************************************************************)
StaffMove ==
    /\ OpTypes'
    /\ \A v \in Worker : ops'[v] = ops[v] \/ {ops[v], ops'[v]} \subseteq {Idle} \cup StaffOp

LEMMA RowsOps ==
    /\ RowsOp \subseteq StaffOp /\ RematchOp \subseteq StaffOp
    /\ TodayOp \subseteq RowsOp /\ EachOp \subseteq RowsOp /\ SnapshotOp \subseteq RowsOp
    /\ \A op \in JobOp \cup {Idle} : op \notin StaffOp
    /\ \A op \in RowsOp : op \notin RematchOp
    /\ \A op \in TodayOp : op \notin SnapshotOp \cup EachOp
    /\ \A op \in SnapshotOp : op \notin EachOp
<1>1. \A op \in RowsOp : "spoiled" \in DOMAIN op
  BY DEF RowsOp, TodayOp, SnapshotOp, EachOp
<1>2. \A op \in RematchOp : "spoiled" \notin DOMAIN op
  BY DEF RematchOp
<1>3. \A op \in StaffOp : "kind" \in DOMAIN op
  BY DEF StaffOp, RowsOp, TodayOp, SnapshotOp, EachOp, RematchOp
<1>4. \A op \in JobOp \cup {Idle} : "kind" \notin DOMAIN op
  BY DEF JobOp, RunOp, ExportOp, RecordOp, ScanOp, DueOp, SweepOp, Idle
<1>5. /\ \A op \in TodayOp : op.kind = "today" /\ op.next = "row"
      /\ \A op \in SnapshotOp : op.kind = "today" /\ op.next = "snapshot"
      /\ \A op \in EachOp : op.kind # "today" /\ op.next = "row"
  BY DEF TodayOp, SnapshotOp, EachOp
<1>6. QED
  BY <1>1, <1>2, <1>3, <1>4, <1>5 DEF StaffOp, RowsOp

LEMMA RowKinds ==
    ASSUME NEW op \in TodayOp \cup EachOp \cup SnapshotOp
    PROVE  /\ op \in RowsOp /\ op \in StaffOp /\ op \in {Idle} \cup StaffOp
           /\ op \in {Idle} \cup JobOp \cup StaffOp
           /\ op \notin RematchOp /\ op \notin JobOp /\ op # Idle
<1>1. op \in RowsOp
  BY RowsOps
<1>2. op \in StaffOp /\ op \notin RematchOp
  BY <1>1, RowsOps
<1>3. QED
  BY <1>1, <1>2, RowsOps

LEMMA MovedStaff ==
    ASSUME OpTypes, NEW w \in Worker, NEW op \in {Idle} \cup StaffOp,
           ops[w] \in {Idle} \cup StaffOp, ops' = [ops EXCEPT ![w] = op]
    PROVE  StaffMove
  BY DEF StaffMove, OpTypes

LEMMA StillStaff == OpTypes /\ UNCHANGED ops => StaffMove
  BY DEF StaffMove, OpTypes

LEMMA ChangedOps ==
    ASSUME OpTypes, NEW pairs, NEW planned \in BOOLEAN, planned => pairs \subseteq Pairs,
           Changed(pairs, planned)
    PROVE  /\ StaffMove
           /\ \A w \in Worker : ops'[w] = Spoiled(ops[w], pairs, planned)
           /\ settled' \subseteq settled
<1>1. \A w \in Worker : ops'[w] = Spoiled(ops[w], pairs, planned)
  BY DEF Changed
<1>2. \A w \in Worker : ops[w] \in {Idle} \cup JobOp \cup StaffOp
  BY DEF OpTypes
<1>3. \A w \in Worker : \/ ops[w] \notin RowsOp /\ ops'[w] = ops[w]
                        \/ ops[w] \in RowsOp /\ ops'[w] \in RowsOp
  BY <1>1, <1>2, SpoiledOp
<1>4. ops' = [w \in Worker |-> ops'[w]]
  BY DEF Changed
<1>5. OpTypes'
  BY <1>2, <1>3, <1>4, RowsOps DEF OpTypes
<1>6. QED
  BY <1>1, <1>3, <1>5, RowsOps DEF StaffMove, Changed

Touched == (Employee \cup {None}) \X Day

LEMMA DayTypes ==
    ASSUME JobTypes, AttendanceTypes
    PROVE  /\ ServerDay(now) \in Day /\ TenantDay(now) \in Day
           /\ \A k \in Shot : shots[k] # None =>
                ServerDay(shots[k].at) \in Day /\ TenantDay(shots[k].at) \in Day
<1>1. \A t \in Time : ServerDay(t) \in Day /\ TenantDay(t) \in Day
  BY Days DEF AttendanceTypes, ServerDay, TenantDay
<1>2. QED
  BY <1>1 DEF JobTypes, AttendanceTypes, ShotRow
(* A page changes inputs of some pairs, or an employee leaves. *)
LEMMA PagesChange ==
    ASSUME JobTypes, AttendanceTypes, Pages
    PROVE  \/ UNCHANGED <<ops, settled>>
           \/ \E pairs \in SUBSET Touched, planned \in BOOLEAN :
                 (planned => pairs \subseteq Pairs) /\ Changed(pairs, planned)
<1>1. Pairs \in SUBSET Touched
  BY DEF Pairs, Touched
<1>2. ASSUME Changed(Pairs, TRUE)
      PROVE  \E pairs \in SUBSET Touched, planned \in BOOLEAN :
                 (planned => pairs \subseteq Pairs) /\ Changed(pairs, planned)
  BY <1>1, <1>2
<1>3. ASSUME NEW pairs \in SUBSET Touched, Changed(pairs, FALSE)
      PROVE  \E x \in SUBSET Touched, planned \in BOOLEAN :
                 (planned => x \subseteq Pairs) /\ Changed(x, planned)
  BY <1>3
<1>4. ASSUME NEW k \in Shot, NEW e \in Employee \cup {None}, Shoot(k, e)
      PROVE  \E pairs \in SUBSET Touched : Changed(pairs, FALSE)
  <2>1. {e} \X {ServerDay(now)} \in SUBSET Touched
    BY DayTypes DEF Touched
  <2>2. Changed({e} \X {ServerDay(now)}, FALSE)
    BY <1>4 DEF Shoot
  <2>3. QED
    BY <2>1, <2>2
<1>5. ASSUME NEW p \in Policy, NEW row, WritePolicy(p, row)
      PROVE  Changed(Pairs, TRUE)
  BY <1>5 DEF WritePolicy
<1>6. ASSUME NEW p \in Policy, \/ \E form \in Form, window \in Window :
                                    CreatePolicy(p, form, window) \/ PatchPolicy(p, form, window)
                               \/ DeletePolicy(p)
      PROVE  \E row : WritePolicy(p, row)
  BY <1>6, Zenon DEF CreatePolicy, PatchPolicy, DeletePolicy
<1>7. ASSUME NEW rows, WriteAssignments(rows)
      PROVE  Changed(Pairs, TRUE)
  BY <1>7 DEF WriteAssignments
<1>8. ASSUME \/ \E p \in Policy, scope \in Employee \cup Department \cup {"tenant"}, window \in Window :
                   CreateAssignment(p, scope, window)
             \/ \E a \in assignments : DeleteAssignment(a)
      PROVE  \E rows : WriteAssignments(rows)
  BY <1>8, Zenon DEF CreateAssignment, DeleteAssignment
<1>9. ASSUME NEW e \in Employee, NEW first \in Day, NEW last \in Day, NEW rows, WriteLeaves(rows, e, first, last)
      PROVE  \E pairs \in SUBSET Touched : Changed(pairs, FALSE)
  <2>1. first .. last \subseteq Day
    BY ClockAssumption DEF Day
  <2>2. {e} \X (first .. last) \in SUBSET Touched
    BY <2>1 DEF Touched
  <2>3. QED
    BY <1>9, <2>2 DEF WriteLeaves
<1>10. ASSUME \/ \E e \in Employee, first, last \in Day : CreateLeave(e, first, last)
              \/ \E l \in leaves : DeleteLeave(l)
       PROVE  \E e \in Employee, first \in Day, last \in Day : \E rows : WriteLeaves(rows, e, first, last)
  <2>1. \A l \in leaves : l.emp \in Employee /\ l.first \in Day /\ l.last \in Day
    BY DEF AttendanceTypes
  <2>2. QED
    BY <1>10, <2>1, Zenon DEF CreateLeave, DeleteLeave
<1>11. ASSUME NEW days \in SUBSET Day, WriteHolidays(days)
       PROVE  \E pairs \in SUBSET Touched : pairs \subseteq Pairs /\ Changed(pairs, TRUE)
  <2> DEFINE pairs == Employee \X ((days \ holidays) \cup (holidays \ days))
  <2>1. pairs \subseteq Pairs /\ pairs \in SUBSET Touched
    BY DEF Pairs, Touched, AttendanceTypes
  <2>2. Changed(pairs, TRUE)
    BY <1>11 DEF WriteHolidays
  <2>3. QED
    BY <2>1, <2>2
<1>12. ASSUME \/ \E d \in Day : CreateHoliday(d) \/ DeleteHoliday(d)
              \/ \E days \in {x \in SUBSET Day : Cardinality(x) > 1} : ImportHolidays(days)
       PROVE  \E days \in SUBSET Day : WriteHolidays(days)
  BY <1>12 DEF CreateHoliday, DeleteHoliday, ImportHolidays, AttendanceTypes
<1>13. ASSUME NEW weekend \in Weekends, NEW ahead \in Zones, PatchSettings(weekend, ahead)
       PROVE  Changed(Pairs, TRUE)
  BY <1>13 DEF PatchSettings
<1>14. ASSUME NEW e \in Employee, Leave(e)
       PROVE  UNCHANGED <<ops, settled>>
  BY <1>14 DEF Leave
<1>15. \/ \E k \in Shot, e \in Employee \cup {None} : Shoot(k, e)
       \/ \E p \in Policy : \/ \E form \in Form, window \in Window :
                                    CreatePolicy(p, form, window) \/ PatchPolicy(p, form, window)
                            \/ DeletePolicy(p)
       \/ \E p \in Policy, scope \in Employee \cup Department \cup {"tenant"}, window \in Window :
                   CreateAssignment(p, scope, window)
       \/ \E a \in assignments : DeleteAssignment(a)
       \/ \E e \in Employee, first, last \in Day : CreateLeave(e, first, last)
       \/ \E l \in leaves : DeleteLeave(l)
       \/ \E d \in Day : CreateHoliday(d) \/ DeleteHoliday(d)
       \/ \E days \in {x \in SUBSET Day : Cardinality(x) > 1} : ImportHolidays(days)
       \/ \E weekend \in Weekends, ahead \in Zones : PatchSettings(weekend, ahead)
       \/ \E e \in Employee : Leave(e)
  BY Zenon DEF Pages
<1>16. CASE \E p \in Policy : \/ \E form \in Form, window \in Window :
                                    CreatePolicy(p, form, window) \/ PatchPolicy(p, form, window)
                              \/ DeletePolicy(p)
  BY <1>2, <1>5, <1>6, <1>16
<1>17. CASE \/ \E p \in Policy, scope \in Employee \cup Department \cup {"tenant"}, window \in Window :
                   CreateAssignment(p, scope, window)
            \/ \E a \in assignments : DeleteAssignment(a)
  BY <1>2, <1>7, <1>8, <1>17
<1>18. CASE \E k \in Shot, e \in Employee \cup {None} : Shoot(k, e)
  BY <1>3, <1>4, <1>18
<1>19. CASE \/ \E e \in Employee, first, last \in Day : CreateLeave(e, first, last)
            \/ \E l \in leaves : DeleteLeave(l)
  BY <1>3, <1>9, <1>10, <1>19
<1>20. CASE \/ \E d \in Day : CreateHoliday(d) \/ DeleteHoliday(d)
            \/ \E days \in {x \in SUBSET Day : Cardinality(x) > 1} : ImportHolidays(days)
  BY <1>11, <1>12, <1>20
<1>21. QED
  BY <1>2, <1>13, <1>14, <1>15, <1>16, <1>17, <1>18, <1>19, <1>20
(* A page that writes a policy writes a whole row. *)
LEMMA PolicyRows ==
    ASSUME JobTypes, AttendanceTypes, NEW p \in Policy,
           \/ \E form \in Form, window \in Window : CreatePolicy(p, form, window) \/ PatchPolicy(p, form, window)
           \/ DeletePolicy(p)
    PROVE  \E row \in PolicyRow : WritePolicy(p, row)
<1>1. now \in Time /\ ServerDay(now) \in Day /\ ServerDay(now) - 1 \in Int
  BY DayTypes DEF JobTypes, Day
<1>2. /\ Form \subseteq [type : {"Fixed", "Flex", "Ramadan", "Custom"}, config : Config]
      /\ \A window \in Window : window[1] \in Int /\ window[2] \in Int \cup {None}
  BY FormAssumption
<1>3. ASSUME NEW form \in Form, NEW window \in Window,
             CreatePolicy(p, form, window) \/ PatchPolicy(p, form, window)
      PROVE  \E row \in PolicyRow : WritePolicy(p, row)
  <2>1. ASSUME NEW type \in {"Fixed", "Flex", "Ramadan", "Custom"}
        PROVE  [type |-> type, config |-> form.config, from |-> window[1], until |-> window[2]] \in PolicyRow
    BY <1>2 DEF PolicyRow
  <2>2. CASE CreatePolicy(p, form, window)
    BY <1>2, <2>1, <2>2 DEF CreatePolicy
  <2>3. CASE PatchPolicy(p, form, window)
    <3>1. policies[p].type \in {"Fixed", "Flex", "Ramadan", "Custom"}
      BY <2>3 DEF PatchPolicy, AttendanceTypes, PolicyRow
    <3>2. QED
      BY <2>1, <2>3, <3>1 DEF PatchPolicy
  <2>4. QED
    BY <1>3, <2>2, <2>3
<1>4. ASSUME DeletePolicy(p)
      PROVE  \E row \in PolicyRow : WritePolicy(p, row)
  <2> DEFINE last == ServerDay(now) - 1
  <2>1. policies[p] \in PolicyRow
    BY <1>4 DEF DeletePolicy, AttendanceTypes
  <2>2. WritePolicy(p, [policies[p] EXCEPT !.until = last])
    BY <1>4, Zenon DEF DeletePolicy
  <2>3. last \in Int
    BY <1>1
  <2> HIDE DEF last
  <2>4. [policies[p] EXCEPT !.until = last] \in PolicyRow
    BY <2>1, <2>3 DEF PolicyRow
  <2>5. QED
    BY <2>2, <2>4
<1>5. QED
  BY <1>3, <1>4

LEMMA PageTypes ==
    ASSUME JobTypes, AttendanceTypes, Pages, settled' \subseteq settled
    PROVE  AttendanceTypes'
<1>1. now \in Time /\ ServerDay(now) \in Day /\ ServerDay(now) - 1 \in Int
  BY DayTypes DEF JobTypes, Day
<1>2. /\ Form \subseteq [type : {"Fixed", "Flex", "Ramadan", "Custom"}, config : Config]
      /\ \A window \in Window : window[1] \in Int /\ window[2] \in Int \cup {None}
  BY FormAssumption
<1>3. ASSUME NEW k \in Shot, NEW e \in Employee \cup {None}, Shoot(k, e)
      PROVE  AttendanceTypes'
  <2>1. [at |-> now, emp |-> e] \in ShotRow
    BY <1>1 DEF ShotRow
  <2>2. shots' \in [Shot -> ShotRow \cup {None}]
    BY <1>3, <2>1 DEF Shoot, AttendanceTypes
  <2>3. UNCHANGED <<staff, policies, assignments, leaves, holidays, settings, records, notices>>
    BY <1>3 DEF Shoot
  <2>4. QED
    BY <2>2, <2>3 DEF AttendanceTypes
<1>4. ASSUME NEW p \in Policy, NEW row \in PolicyRow, WritePolicy(p, row)
      PROVE  AttendanceTypes'
  BY <1>4 DEF WritePolicy, AttendanceTypes
<1>5. ASSUME NEW p \in Policy,
             \/ \E form \in Form, window \in Window : CreatePolicy(p, form, window) \/ PatchPolicy(p, form, window)
             \/ DeletePolicy(p)
      PROVE  AttendanceTypes'
  BY <1>4, <1>5, PolicyRows
<1>7. ASSUME NEW rows, WriteAssignments(rows),
             rows \subseteq [policy : Policy, scope : Employee \cup Department \cup {"tenant"},
                             from : Int, until : Int \cup {None}]
      PROVE  AttendanceTypes'
  BY <1>7 DEF WriteAssignments, AttendanceTypes
<1>8. ASSUME NEW p \in Policy, NEW scope \in Employee \cup Department \cup {"tenant"}, NEW window \in Window,
             CreateAssignment(p, scope, window)
      PROVE  AttendanceTypes'
  <2> DEFINE row == [policy |-> p, scope |-> scope, from |-> window[1], until |-> window[2]]
  <2>1. row \in [policy : Policy, scope : Employee \cup Department \cup {"tenant"},
                 from : Int, until : Int \cup {None}]
    BY <1>2
  <2>2. WriteAssignments(assignments \cup {row})
    BY <1>8 DEF CreateAssignment
  <2> HIDE DEF row
  <2>3. QED
    BY <1>7, <2>1, <2>2 DEF AttendanceTypes
<1>9. ASSUME NEW a \in assignments, DeleteAssignment(a)
      PROVE  AttendanceTypes'
  BY <1>7, <1>9 DEF DeleteAssignment, AttendanceTypes
<1>10. ASSUME NEW rows, NEW e, NEW first, NEW last, WriteLeaves(rows, e, first, last),
              rows \subseteq [emp : Employee, first : Day, last : Day]
       PROVE  AttendanceTypes'
  BY <1>10 DEF WriteLeaves, AttendanceTypes
<1>11. ASSUME \/ \E e \in Employee, first, last \in Day : CreateLeave(e, first, last)
              \/ \E l \in leaves : DeleteLeave(l)
       PROVE  AttendanceTypes'
  <2>1. ASSUME NEW e \in Employee, NEW first \in Day, NEW last \in Day, CreateLeave(e, first, last)
        PROVE  AttendanceTypes'
    <3> DEFINE rows == leaves \cup {[emp |-> e, first |-> first, last |-> last]}
    <3>1. rows \subseteq [emp : Employee, first : Day, last : Day]
      BY DEF AttendanceTypes
    <3>2. WriteLeaves(rows, e, first, last)
      BY <2>1 DEF CreateLeave
    <3> HIDE DEF rows
    <3>3. QED
      BY <1>10, <3>1, <3>2
  <2>2. ASSUME NEW l \in leaves, DeleteLeave(l)
        PROVE  AttendanceTypes'
    <3>1. leaves \ {l} \subseteq [emp : Employee, first : Day, last : Day]
      BY DEF AttendanceTypes
    <3>2. WriteLeaves(leaves \ {l}, l.emp, l.first, l.last)
      BY <2>2 DEF DeleteLeave
    <3>3. QED
      BY <1>10, <3>1, <3>2
  <2>3. QED
    BY <1>11, <2>1, <2>2
<1>12. ASSUME \/ \E d \in Day : CreateHoliday(d) \/ DeleteHoliday(d)
              \/ \E days \in {x \in SUBSET Day : Cardinality(x) > 1} : ImportHolidays(days)
       PROVE  AttendanceTypes'
  <2>1. \E days \in SUBSET Day : WriteHolidays(days)
    BY <1>12 DEF CreateHoliday, DeleteHoliday, ImportHolidays, AttendanceTypes
  <2>2. QED
    BY <2>1 DEF WriteHolidays, AttendanceTypes
<1>13. ASSUME NEW weekend \in Weekends, NEW ahead \in Zones, PatchSettings(weekend, ahead)
       PROVE  AttendanceTypes'
  BY <1>13 DEF PatchSettings, AttendanceTypes
<1>14. ASSUME NEW e \in Employee, Leave(e)
       PROVE  AttendanceTypes'
  BY <1>14 DEF Leave, AttendanceTypes
<1>15. QED
  BY <1>3, <1>5, <1>8, <1>9, <1>11, <1>12, <1>13, <1>14 DEF Pages
LEMMA UnseenRow ==
    ASSUME NEW p \in PlanRow, NEW onLeave \in BOOLEAN, NEW off \in BOOLEAN
    PROVE  /\ Unseen(p, onLeave, off) \in RecordRow
           /\ Unseen(p, onLeave, off).policy = p.id
           /\ Unseen(p, onLeave, off).in = None /\ ~Unseen(p, onLeave, off).late
  BY DEF Unseen, RecordRow, PlanRow

(* What holds of a row whatever it was computed from. *)
Sound(row) ==
    /\ row.absent => row.in = None
    /\ row.late => row.in # None

LEMMA ComputedRow ==
    ASSUME NEW p \in PlanRow, NEW ks \in SUBSET Shot,
           shots \in [Shot -> ShotRow \cup {None}], \A k \in ks : shots[k] # None,
           NEW onLeave \in BOOLEAN, NEW off \in BOOLEAN
    PROVE  /\ Compute(p, ks, onLeave, off) \in RecordRow
           /\ Compute(p, ks, onLeave, off).policy = p.id
           /\ Sound(Compute(p, ks, onLeave, off))
<1>1. CASE ks = {}
  BY <1>1, UnseenRow DEF Compute, Sound
<1>2. CASE ks # {}
  BY <1>2, SeenRow DEF Compute, Sound
<1>3. QED
  BY <1>1, <1>2

LEMMA RowsArePlans ==
    ASSUME AttendanceTypes
    PROVE  Rows \subseteq PlanRow /\ \A p \in Rows : policies[p.id] # None
<1>1. ASSUME NEW q \in Policy, policies[q] # None
      PROVE  [id |-> q, type |-> policies[q].type, config |-> policies[q].config,
              from |-> policies[q].from, until |-> policies[q].until] \in PlanRow
  <2>1. policies[q] \in PolicyRow
    BY <1>1 DEF AttendanceTypes
  <2>2. QED
    BY <2>1 DEF PolicyRow, PlanRow
<1>2. QED
  BY <1>1 DEF Rows

LEMMA ResolvedRows ==
    ASSUME NEW e, NEW d
    PROVE  Resolved(e, d) \subseteq Rows
<1> DEFINE tiers == Tiers(e, d)
           held == {i \in DOMAIN tiers : tiers[i] # {}}
<1>1. /\ \A type : Ranged(type, d) \subseteq Rows
      /\ \A scope : Assigned(scope, d) \subseteq Rows
      /\ Legacy(d) \subseteq Rows
  BY Zenon DEF Ranged, Assigned, Legacy, Latest
<1>2. DOMAIN tiers = 1 .. 6
  BY DEF Tiers
<1>3. \A i \in 1 .. 6 : tiers[i] \subseteq Rows
  <2>1. /\ tiers[1] \subseteq Rows /\ tiers[2] \subseteq Rows /\ tiers[3] \subseteq Rows
        /\ tiers[4] \subseteq Rows /\ tiers[5] \subseteq Rows /\ tiers[6] \subseteq Rows
    BY <1>1 DEF Tiers
  <2> HIDE DEF tiers
  <2>2. QED
    BY <2>1
<1>4. held \in SUBSET Nat
  BY <1>2
<1>5. held # {} => Least(held) \in held
  BY <1>4, LeastIs
<1>6. Resolved(e, d) = IF held = {} THEN {} ELSE tiers[Least(held)]
  BY DEF Resolved
<1> HIDE DEF tiers
<1>7. held # {} => Least(held) \in 1 .. 6
  BY <1>2, <1>5
<1> HIDE DEF held
<1>8. QED
  BY <1>3, <1>6, <1>7

LEMMA InputTypes ==
    ASSUME AttendanceTypes, NEW e \in Employee, NEW d \in Day
    PROVE  /\ Resolved(e, d) \subseteq PlanRow /\ \A p \in Resolved(e, d) : policies[p.id] # None
           /\ Events(e, d) \in SUBSET Shot /\ \A k \in Events(e, d) : shots[k] # None
           /\ OnLeave(e, d) \in BOOLEAN /\ Off(d) \in BOOLEAN
           /\ Overtime(e, d) \in Nat
<1>1. Resolved(e, d) \subseteq PlanRow /\ \A p \in Resolved(e, d) : policies[p.id] # None
  BY RowsArePlans, ResolvedRows
<1>2. Events(e, d) \in SUBSET Shot /\ \A k \in Events(e, d) : shots[k] # None
  BY DEF Events
<1>3. OnLeave(e, d) \in BOOLEAN /\ Off(d) \in BOOLEAN
  BY DEF OnLeave, Off
<1>4. Overtime(e, d) \in Nat
  BY DEF Overtime, AttendanceTypes, RecordRow
<1>5. QED
  BY <1>1, <1>2, <1>3, <1>4
LEMMA OneMoves ==
    ASSUME Types, NEW w \in Worker, NEW op \in {Idle} \cup StaffOp, ops[w] \in {Idle} \cup StaffOp,
           op \in TodayOp => \A x \in op.todo : x[2] = op.day /\ op.plan[x[1]] # None,
           op \in RematchOp => \A k \in DOMAIN op.read : shots[k] # None,
           ops' = [ops EXCEPT ![w] = op], UNCHANGED attendanceVars
    PROVE  StaffMove /\ AttendanceTypes' /\ Planned' /\ ReadsShots'
<1>1. StaffMove
  BY MovedStaff DEF Types, Jobs
<1>2. UNCHANGED <<staff, shots, policies, assignments, leaves, holidays, settings, records, notices, settled>>
  BY DEF attendanceVars, inputs
<1>3. AttendanceTypes'
  BY <1>2 DEF Types, AttendanceTypes
<1>4. ops'[w] = op /\ \A v \in Worker : v # w => ops'[v] = ops[v]
  BY OpStep DEF Types, Jobs
<1>5. Planned'
  BY <1>4 DEF Types, Planned
<1>6. ReadsShots'
  BY <1>2, <1>4 DEF Types, ReadsShots
<1>7. QED
  BY <1>1, <1>3, <1>5, <1>6

LEMMA FirstOps ==
    ASSUME JobTypes, AttendanceTypes
    PROVE  /\ Today \in SnapshotOp
           /\ \A kind \in {"each", "rematch"}, todo \in SUBSET Pairs : Recompute(kind, todo) \in EachOp
<1>1. \A kind \in {"each", "rematch"}, todo \in SUBSET Pairs : Recompute(kind, todo) \in EachOp
  BY DEF Recompute, EachOp
<1> DEFINE weekend == TenantDay(now) \in settings.weekend
           day == TenantDay(now)
<1>2. Today = [Recompute("today", {}) EXCEPT !.next = "snapshot", !.day = day, !.off = weekend]
  BY DEF Today
<1>3. day \in Day /\ weekend \in BOOLEAN
  BY DayTypes
<1> HIDE DEF weekend, day
<1>4. Today \in SnapshotOp
  BY <1>2, <1>3 DEF Recompute, SnapshotOp
<1>5. QED
  BY <1>1, <1>4

LEMMA LeftIs ==
    ASSUME NEW op \in TodayOp \cup EachOp
    PROVE  Left(op) \in {Idle, op} /\ Left(op) \in {Idle} \cup StaffOp
  BY RowsOps DEF Left

(* The row a recompute has read. *)
ReadHand(w, e, d, p) ==
    [pair |-> <<e, d>>, prior |-> Overtime(e, d), raced |-> FALSE,
     record |-> Compute(p, Events(e, d), OnLeave(e, d), IF ops[w].kind = "today" THEN ops[w].off ELSE Off(d))]

LEMMA ReadsRow ==
    ASSUME Types, NEW w \in Worker, NEW e \in Employee, NEW d \in Day, ReadRow(w, e, d)
    PROVE  \E p \in PlanRow :
              /\ ops[w] \in TodayOp \cup EachOp /\ <<e, d>> \in ops[w].todo /\ ops[w].row = None
              /\ \/ ops[w] \in TodayOp /\ d = ops[w].day /\ p = ops[w].plan[e] /\ p # None
                 \/ ops[w] \in EachOp /\ p \in Resolved(e, d)
              /\ ReadHand(w, e, d, p) \in HandRow
              /\ Sound(ReadHand(w, e, d, p).record) /\ ReadHand(w, e, d, p).record.policy = p.id
              /\ ops' = [ops EXCEPT ![w] =
                    [ops[w] EXCEPT !.todo = ops[w].todo \ {<<e, d>>}, !.row = ReadHand(w, e, d, p)]]
              /\ UNCHANGED <<now, attendanceVars, jobVars, crashed, unrecorded, fuel>>
<1>1. ops[w] \in TodayOp \cup EachOp
  BY Stages DEF ReadRow, Types, Jobs
<1>2. PICK p \in IF ops[w].kind = "today" THEN {ops[w].plan[e]} ELSE Resolved(e, d) :
           Put(w, [ops[w] EXCEPT !.todo = @ \ {<<e, d>>}, !.row = ReadHand(w, e, d, p)])
  BY Zenon DEF ReadRow, ReadHand
<1>3. <<e, d>> \in ops[w].todo /\ ops[w].row = None
      /\ UNCHANGED <<now, attendanceVars, jobVars, crashed, unrecorded, fuel>>
  BY DEF ReadRow
<1>4. \/ ops[w] \in TodayOp /\ d = ops[w].day /\ p = ops[w].plan[e] /\ p # None
      \/ ops[w] \in EachOp /\ p \in Resolved(e, d)
  <2>1. ops[w] \in TodayOp => ops[w].kind = "today"
    BY DEF TodayOp
  <2>2. ops[w] \in EachOp => ops[w].kind # "today"
    BY DEF EachOp
  <2>3. ops[w] \in TodayOp => d = ops[w].day /\ ops[w].plan[e] # None
    BY <1>3 DEF Types, Planned
  <2>4. QED
    BY <1>1, <1>2, <2>1, <2>2, <2>3
<1>5. p \in PlanRow
  BY <1>4, InputTypes DEF Types, TodayOp
<1> DEFINE off == IF ops[w].kind = "today" THEN ops[w].off ELSE Off(d)
           record == Compute(p, Events(e, d), OnLeave(e, d), off)
           prior == Overtime(e, d)
<1>6. off \in BOOLEAN
  <2>1. ops[w].off \in BOOLEAN
    BY <1>1 DEF TodayOp, EachOp
  <2>2. QED
    BY <2>1, InputTypes DEF Types
<1>7. ReadHand(w, e, d, p) = [pair |-> <<e, d>>, prior |-> prior, raced |-> FALSE, record |-> record]
  BY DEF ReadHand
<1> HIDE DEF off
<1>8. record \in RecordRow /\ Sound(record) /\ record.policy = p.id
  BY <1>5, <1>6, InputTypes, ComputedRow DEF Types, AttendanceTypes
<1>9. prior \in Nat
  BY InputTypes DEF Types
<1> HIDE DEF record, prior
<1>10. ReadHand(w, e, d, p) \in HandRow /\ ReadHand(w, e, d, p).record = record
  BY <1>7, <1>8, <1>9 DEF HandRow, Pairs
<1> DEFINE hand == ReadHand(w, e, d, p)
<1>11. ops' = [ops EXCEPT ![w] = [ops[w] EXCEPT !.todo = ops[w].todo \ {<<e, d>>}, !.row = hand]]
  <2>1. [ops[w] EXCEPT !.todo = @ \ {<<e, d>>}, !.row = hand] =
        [ops[w] EXCEPT !.todo = ops[w].todo \ {<<e, d>>}, !.row = hand]
    <3> HIDE DEF hand
    <3>1. QED
      BY <1>1 DEF TodayOp, EachOp
  <2>2. QED
    BY <1>2, <2>1, Zenon DEF Put
<1>12. QED
  BY <1>1, <1>3, <1>4, <1>5, <1>8, <1>10, <1>11
LEMMA SnapshotsPlan ==
    ASSUME Types, NEW w \in Worker, Snapshot(w)
    PROVE  \E plan \in [Employee -> PlanRow \cup {None}], op \in TodayOp :
              /\ ops[w] \in SnapshotOp
              /\ \A e \in Employee : plan[e] # None =>
                    plan[e] \in Resolved(e, ops[w].day) /\ policies[plan[e].id] # None
              /\ op.day = ops[w].day /\ op.plan = plan /\ op.row = None
              /\ op.todo = {e \in Employee : plan[e] # None} \X {ops[w].day}
              /\ op.off = (ops[w].off \/ ops[w].day \in holidays)
              /\ op.spoiled = ops[w].spoiled
              /\ ops' = [ops EXCEPT ![w] = Left(op)]
              /\ UNCHANGED <<now, attendanceVars, jobVars, crashed, unrecorded, fuel>>
<1>1. ops[w] \in SnapshotOp
  BY Stages DEF Snapshot, Types, Jobs
<1>2. PICK plan \in Plans(ops[w].day) :
         Put(w, Left([ops[w] EXCEPT
              !.next = "row", !.off = @ \/ ops[w].day \in holidays, !.plan = plan,
              !.todo = {e \in Employee : plan[e] # None} \X {ops[w].day}]))
  BY Zenon DEF Snapshot
<1>3. UNCHANGED <<now, attendanceVars, jobVars, crashed, unrecorded, fuel>>
  BY DEF Snapshot
<1> DEFINE day == ops[w].day
           off == ops[w].off \/ day \in holidays
           todo == {e \in Employee : plan[e] # None} \X {day}
           op == [ops[w] EXCEPT !.next = "row", !.off = off, !.plan = plan, !.todo = todo]
<1>4. day \in Day
  BY <1>1 DEF SnapshotOp
<1>5. \A e \in Employee : plan[e] # None => plan[e] \in Resolved(e, day)
  BY <1>2 DEF Plans
<1>6. plan \in [Employee -> PlanRow \cup {None}]
  <2>1. plan \in [Employee -> Rows \cup {None}]
    BY <1>2 DEF Plans
  <2>2. QED
    BY <2>1, RowsArePlans DEF Types
<1>7. \A e \in Employee : plan[e] # None => policies[plan[e].id] # None
  BY <1>4, <1>5, InputTypes DEF Types
<1>8. todo \in SUBSET Pairs
  BY <1>4 DEF Pairs
<1>9. off \in BOOLEAN
  OBVIOUS
<1>10. ops' = [ops EXCEPT ![w] = Left(op)]
  <2>1. ops[w].off \in BOOLEAN /\ ops[w] = [ops[w] EXCEPT !.next = ops[w].next]
    BY <1>1 DEF SnapshotOp
  <2>2. QED
    BY <1>2, Zenon DEF Put
<1> HIDE DEF off, todo
<1>11. /\ op \in TodayOp /\ op.day = day /\ op.plan = plan /\ op.row = None /\ op.todo = todo
       /\ op.off = off /\ op.spoiled = ops[w].spoiled
  BY <1>1, <1>6, <1>8, <1>9 DEF SnapshotOp, TodayOp
<1> HIDE DEF op
<1>12. QED
  BY <1>1, <1>3, <1>5, <1>6, <1>7, <1>10, <1>11 DEF off, todo

LEMMA DropsRow ==
    ASSUME NEW op \in TodayOp \cup EachOp
    PROVE  /\ [op EXCEPT !.row = None] \in TodayOp \cup EachOp
           /\ op \in TodayOp <=> [op EXCEPT !.row = None] \in TodayOp
           /\ [op EXCEPT !.row = None].row = None
           /\ \A k \in {"day", "off", "plan", "todo", "spoiled"} : [op EXCEPT !.row = None][k] = op[k]
  BY DEF TodayOp, EachOp

LEMMA RacedRow ==
    ASSUME NEW op \in TodayOp \cup EachOp, op.row # None
    PROVE  /\ [op EXCEPT !.row.raced = TRUE] \in TodayOp \cup EachOp
           /\ op \in TodayOp <=> [op EXCEPT !.row.raced = TRUE] \in TodayOp
           /\ [op EXCEPT !.row.raced = TRUE].row \in HandRow
           /\ [op EXCEPT !.row.raced = TRUE].row.raced
           /\ \A k \in {"pair", "prior", "record"} : [op EXCEPT !.row.raced = TRUE].row[k] = op.row[k]
           /\ \A k \in {"day", "off", "plan", "todo", "spoiled"} : [op EXCEPT !.row.raced = TRUE][k] = op[k]
<1> DEFINE row == [op.row EXCEPT !.raced = TRUE]
<1>1. op.row \in HandRow
  BY DEF TodayOp, EachOp
<1>2. row \in HandRow /\ row.raced /\ \A k \in {"pair", "prior", "record"} : row[k] = op.row[k]
  BY <1>1 DEF HandRow
<1>3. [op EXCEPT !.row.raced = TRUE] = [op EXCEPT !.row = row]
  BY DEF TodayOp, EachOp
<1> HIDE DEF row
<1>4. /\ [op EXCEPT !.row = row] \in TodayOp \cup EachOp
      /\ op \in TodayOp <=> [op EXCEPT !.row = row] \in TodayOp
      /\ [op EXCEPT !.row = row].row = row
      /\ \A k \in {"day", "off", "plan", "todo", "spoiled"} : [op EXCEPT !.row = row][k] = op[k]
  BY <1>2 DEF TodayOp, EachOp
<1>5. QED
  BY <1>2, <1>3, <1>4

(* A worker's row in hand, when another's write of the same pair passes it. *)
Passed(v, pair) ==
    IF pair \in InHand(ops[v]) THEN [ops[v] EXCEPT !.row.raced = TRUE] ELSE ops[v]

LEMMA WritesRow ==
    ASSUME Types, NEW w \in Worker, WriteRow(w)
    PROVE  \E e \in Employee, d \in Day :
              /\ ops[w] \in TodayOp \cup EachOp /\ ops[w].row # None
              /\ ops[w].row \in HandRow /\ ops[w].row.pair = <<e, d>>
              /\ records' = [records EXCEPT ![e][d] = ops[w].row.record]
              /\ notices' = IF Crosses(ops[w].row) THEN [notices EXCEPT ![e][d] = @ + 1] ELSE notices
              /\ settled' = IF <<e, d>> \in ops[w].spoiled THEN settled \ {<<e, d>>}
                            ELSE settled \cup {<<e, d>>}
              /\ ops' = [v \in Worker |-> IF v = w THEN Left([ops[w] EXCEPT !.row = None])
                                          ELSE Passed(v, <<e, d>>)]
              /\ UNCHANGED <<now, inputs, jobVars, crashed, unrecorded, fuel>>
<1>1. ops[w] \in TodayOp \cup EachOp /\ ops[w].row # None
  BY Stages DEF WriteRow, Types, Jobs
<1>2. ops[w].row \in HandRow
  BY <1>1 DEF TodayOp, EachOp
<1>3. PICK e \in Employee, d \in Day : ops[w].row.pair = <<e, d>>
  BY <1>2 DEF HandRow, Pairs
<1> DEFINE x == ops[w].row.pair[1]
           y == ops[w].row.pair[2]
<1>4. records' = [records EXCEPT ![e][d] = ops[w].row.record]
  <2>1. records' = [records EXCEPT ![x][y] = ops[w].row.record]
    BY DEF WriteRow, Upsert
  <2>2. x = e /\ y = d
    BY <1>3
  <2>3. QED
    BY <2>1, <2>2, Zenon
<1>5. notices' = IF Crosses(ops[w].row) THEN [notices EXCEPT ![e][d] = @ + 1] ELSE notices
  <2>1. notices' = IF Crosses(ops[w].row) THEN [notices EXCEPT ![x][y] = @ + 1] ELSE notices
    BY DEF WriteRow
  <2>2. x = e /\ y = d
    BY <1>3
  <2> HIDE DEF x, y
  <2>3. QED
    BY <2>1, <2>2, Zenon
<1>6. settled' = IF <<e, d>> \in ops[w].spoiled THEN settled \ {<<e, d>>}
                            ELSE settled \cup {<<e, d>>}
  BY <1>3, Zenon DEF WriteRow
<1>7. ops' = [v \in Worker |-> IF v = w THEN Left([ops[w] EXCEPT !.row = None])
                                          ELSE Passed(v, <<e, d>>)]
  BY <1>3, Zenon DEF WriteRow, Passed
<1>8. UNCHANGED <<now, inputs, jobVars, crashed, unrecorded, fuel>>
  BY DEF WriteRow
<1>9. QED
  BY <1>1, <1>2, <1>3, <1>4, <1>5, <1>6, <1>7, <1>8
LEMMA RematchReads ==
    ASSUME Types, NEW w \in Worker, NEW x \in Rematches, Rematch(w, x.first, x.last, x.only, x.again)
    PROVE  \E op \in RematchOp :
              /\ ops[w] = Idle /\ ops' = [ops EXCEPT ![w] = op]
              /\ \A k \in DOMAIN op.read : shots[k] # None
              /\ UNCHANGED <<now, attendanceVars, jobVars, crashed, unrecorded>> /\ Event("recompute")
<1> DEFINE S == {k \in Shot : /\ shots[k] # None
                              /\ TenantDay(shots[k].at) \in x.first .. x.last
                              /\ x.only => shots[k].emp = None}
           read == [k \in S |-> [emp |-> shots[k].emp, day |-> TenantDay(shots[k].at)]]
           op == [kind |-> "rematch", next |-> "reassign", again |-> x.again, read |-> read]
<1>1. x.again \in BOOLEAN
  BY RematchAssumption
<1>2. \A k \in S : shots[k].emp \in Employee \cup {None} /\ TenantDay(shots[k].at) \in Day
  BY DayTypes DEF Types, Jobs, AttendanceTypes, ShotRow
<1>3. S \in SUBSET Shot /\ \A k \in S : shots[k] # None
  OBVIOUS
<1>4. Begin(w, op) /\ UNCHANGED <<now, attendanceVars, jobVars, crashed, unrecorded>> /\ Event("recompute")
  BY Zenon DEF Rematch
<1> HIDE DEF S
<1>5. read \in [S -> [emp : Employee \cup {None}, day : Day]] /\ DOMAIN read = S
  BY <1>2
<1> HIDE DEF read
<1>6. op \in RematchOp /\ op.read = read
  BY <1>1, <1>3, <1>5 DEF RematchOp
<1> HIDE DEF op
<1>7. ops[w] = Idle /\ ops' = [ops EXCEPT ![w] = op]
  BY <1>4, Stages DEF Begin, Types, Jobs
<1>8. QED
  BY <1>3, <1>4, <1>5, <1>6, <1>7

(* Detections change hands. *)
HandedOver(w, moved, owner, pairs, todo) ==
    /\ ops[w] \in RematchOp
    /\ moved \subseteq Shot /\ \A k \in moved : shots[k] # None /\ owner[k] \in Employee \cup {None}
    /\ shots' = [k \in Shot |-> IF k \in moved THEN [shots[k] EXCEPT !.emp = owner[k]] ELSE shots[k]]
    /\ pairs \subseteq Touched
    /\ \A k \in moved : <<shots[k].emp, ServerDay(shots[k].at)>> \in pairs
                        /\ <<owner[k], ServerDay(shots[k].at)>> \in pairs
    /\ todo \in SUBSET Pairs
    /\ settled' = settled \ pairs
    /\ ops' = [v \in Worker |-> IF v # w THEN Spoiled(ops[v], pairs, FALSE)
                                ELSE IF ops[w].again THEN Left(Recompute("rematch", todo)) ELSE Idle]
    /\ UNCHANGED <<now, staff, policies, assignments, leaves, holidays, settings, records,
                   notices, jobVars, crashed, unrecorded, fuel>>

LEMMA ReassignsShots ==
    ASSUME Types, NEW w \in Worker, Reassign(w)
    PROVE  \E moved, owner, pairs, todo : HandedOver(w, moved, owner, pairs, todo)
<1> DEFINE read == ops[w].read
           moved(owner) == {k \in DOMAIN read : owner[k] # read[k].emp}
           pairs(owner) == UNION {{shots[k].emp, owner[k]} \X {ServerDay(shots[k].at)} : k \in moved(owner)}
           todo(owner) == UNION {({read[k].emp, owner[k]} \ {None}) \X {read[k].day} : k \in moved(owner)}
<1>1. ops[w] \in RematchOp
  BY Stages DEF Reassign, Types, Jobs
<1>2. PICK owner \in [DOMAIN read -> staff \cup {None}] :
         /\ shots' = [k \in Shot |-> IF k \in moved(owner) THEN [shots[k] EXCEPT !.emp = owner[k]] ELSE shots[k]]
         /\ settled' = settled \ pairs(owner)
         /\ ops' = [v \in Worker |-> IF v # w THEN Spoiled(ops[v], pairs(owner), FALSE)
                                ELSE IF ops[w].again THEN Left(Recompute("rematch", todo(owner))) ELSE Idle]
  BY Zenon DEF Reassign
<1>3. PICK S \in SUBSET Shot : read \in [S -> [emp : Employee \cup {None}, day : Day]]
  BY <1>1 DEF RematchOp
<1>4. moved(owner) \subseteq Shot /\ \A k \in moved(owner) :
         shots[k] # None /\ owner[k] \in Employee \cup {None}
         /\ read[k].emp \in Employee \cup {None} /\ read[k].day \in Day
  BY <1>1, <1>2, <1>3 DEF Types, ReadsShots, AttendanceTypes
<1>5. \A k \in moved(owner) : shots[k].emp \in Employee \cup {None} /\ ServerDay(shots[k].at) \in Day
  BY <1>4, DayTypes DEF Types, Jobs, AttendanceTypes, ShotRow
<1> HIDE DEF read
<1> DEFINE M == moved(owner)
<1> HIDE DEF moved
<1>6. pairs(owner) \subseteq Touched /\ \A k \in M : <<shots[k].emp, ServerDay(shots[k].at)>> \in pairs(owner)
                        /\ <<owner[k], ServerDay(shots[k].at)>> \in pairs(owner)
  BY <1>4, <1>5 DEF Touched
<1>7. todo(owner) \in SUBSET Pairs
  BY <1>4 DEF Pairs
<1>8. UNCHANGED <<now, staff, policies, assignments, leaves, holidays, settings, records,
                   notices, jobVars, crashed, unrecorded, fuel>>
  BY DEF Reassign
<1>9. HandedOver(w, M, owner, pairs(owner), todo(owner))
  <2> HIDE DEF pairs, todo
  <2>1. QED
    BY <1>1, <1>2, <1>4, <1>6, <1>7, <1>8 DEF HandedOver
<1>10. QED
  BY <1>9
LEMMA BeginsRows ==
    ASSUME Types, NEW w \in Worker, RecomputeToday(w) \/ \E d \in Day : Regenerate(w, d)
    PROVE  \E op \in SnapshotOp \cup EachOp :
              /\ op \in SnapshotOp => op = Today
              /\ op.row = None
              /\ ops[w] = Idle /\ ops' = [ops EXCEPT ![w] = op]
              /\ UNCHANGED <<now, attendanceVars, jobVars, crashed, unrecorded>> /\ Event("recompute")
<1>1. Today.row = None /\ \A todo : Recompute("each", todo).row = None
  <2>1. Today.row = None
    BY FirstOps DEF Types, Jobs, SnapshotOp
  <2>2. QED
    BY <2>1 DEF Recompute
<1>2. \A d \in Day : Recompute("each", staff \X {d}) \in EachOp
  <2>1. \A d \in Day : staff \X {d} \in SUBSET Pairs
    BY DEF Types, AttendanceTypes, Pairs
  <2>2. QED
    BY <2>1, FirstOps DEF Types, Jobs
<1>3. ops[w] = Idle /\ UNCHANGED <<now, attendanceVars, jobVars, crashed, unrecorded>> /\ Event("recompute")
  BY Stages DEF RecomputeToday, Regenerate, Begin, Types, Jobs
<1>4. \/ ops' = [ops EXCEPT ![w] = Today]
      \/ \E d \in Day : ops' = [ops EXCEPT ![w] = Recompute("each", staff \X {d})]
  BY Zenon DEF RecomputeToday, Regenerate, Begin
<1>5. CASE ops' = [ops EXCEPT ![w] = Today]
  BY <1>1, <1>3, <1>5, FirstOps DEF Types, Jobs
<1>6. CASE \E d \in Day : ops' = [ops EXCEPT ![w] = Recompute("each", staff \X {d})]
  BY <1>1, <1>2, <1>3, <1>6, RowsOps
<1>7. QED
  BY <1>4, <1>5, <1>6

(* A recompute goes on without the row it had, or without one it had yet to read. *)
GoesOn(old, op) ==
    /\ op \in TodayOp \cup EachOp /\ (op \in TodayOp <=> old \in TodayOp)
    /\ op.row = None /\ op.todo \subseteq old.todo
    /\ op.day = old.day /\ op.off = old.off /\ op.plan = old.plan /\ op.spoiled = old.spoiled

LEMMA SkipsRow ==
    ASSUME Types, NEW w \in Worker, FailRow(w) \/ \E e \in Employee, d \in Day : SkipRow(w, e, d)
    PROVE  \E op :
              /\ ops[w] \in TodayOp \cup EachOp
              /\ op = Idle \/ GoesOn(ops[w], op)
              /\ ops' = [ops EXCEPT ![w] = op]
              /\ UNCHANGED <<now, attendanceVars, jobVars, crashed, unrecorded>> /\ (Event("recompute") \/ UNCHANGED fuel)
<1>1. ops[w] \in TodayOp \cup EachOp
  BY Stages DEF FailRow, SkipRow, Types, Jobs
<1>2. CASE FailRow(w)
  <2> DEFINE op == [ops[w] EXCEPT !.row = None]
  <2>1. ops' = [ops EXCEPT ![w] = Idle] \/ ops' = [ops EXCEPT ![w] = Left(op)]
    BY <1>2, Zenon DEF FailRow, Put
  <2>2. UNCHANGED <<now, attendanceVars, jobVars, crashed, unrecorded>> /\ Event("recompute")
    BY <1>2 DEF FailRow
  <2>3. GoesOn(ops[w], op)
    BY <1>1, DropsRow DEF GoesOn
  <2> HIDE DEF op
  <2>4. Left(op) = Idle \/ Left(op) = op
    BY DEF Left
  <2>5. QED
    BY <1>1, <2>1, <2>2, <2>3, <2>4
<1>3. ASSUME NEW e \in Employee, NEW d \in Day, SkipRow(w, e, d)
      PROVE  \E op :
              /\ op = Idle \/ GoesOn(ops[w], op)
              /\ ops' = [ops EXCEPT ![w] = op]
              /\ UNCHANGED <<now, attendanceVars, jobVars, crashed, unrecorded>> /\ UNCHANGED fuel
  <2> DEFINE op == [ops[w] EXCEPT !.todo = ops[w].todo \ {<<e, d>>}]
  <2>1. ops' = [ops EXCEPT ![w] = Left(op)]
    <3>1. [ops[w] EXCEPT !.todo = @ \ {<<e, d>>}] = op
      BY <1>1 DEF TodayOp, EachOp
    <3>2. QED
      BY <1>3, <3>1, Zenon DEF SkipRow, Put
  <2>2. UNCHANGED <<now, attendanceVars, jobVars, crashed, unrecorded, fuel>> /\ ops[w].row = None
    BY <1>3 DEF SkipRow
  <2>3. GoesOn(ops[w], op)
    BY <1>1, <2>2 DEF GoesOn, TodayOp, EachOp
  <2> HIDE DEF op
  <2>4. Left(op) = Idle \/ Left(op) = op
    BY DEF Left
  <2>5. QED
    BY <2>1, <2>2, <2>3, <2>4
<1>4. QED
  BY <1>1, <1>2, <1>3

LEMMA ShotsStay ==
    ASSUME AttendanceTypes, Pages, NEW k \in Shot, shots[k] # None
    PROVE  shots'[k] = shots[k]
<1>1. ASSUME NEW x \in Shot, NEW e \in Employee \cup {None}, Shoot(x, e)
      PROVE  shots'[k] = shots[k]
  BY <1>1 DEF Shoot, AttendanceTypes
<1>2. ASSUME NEW p \in Policy, DeletePolicy(p)
      PROVE  shots' = shots
  <2>1. \E row : WritePolicy(p, row)
    BY <1>2, Zenon DEF DeletePolicy
  <2>2. QED
    BY <2>1 DEF WritePolicy
<1>3. QED
  BY <1>1, <1>2 DEF Pages, CreatePolicy, PatchPolicy, WritePolicy,
     CreateAssignment, DeleteAssignment, WriteAssignments, CreateLeave, DeleteLeave, WriteLeaves,
     CreateHoliday, DeleteHoliday, WriteHolidays, ImportHolidays, PatchSettings, Leave

LEMMA SpoiledStays ==
    ASSUME NEW op \in {Idle} \cup JobOp \cup StaffOp, NEW pairs, NEW planned \in BOOLEAN,
           planned => pairs \subseteq Pairs
    PROVE  LET new == Spoiled(op, pairs, planned) IN
           /\ new = op \/ (op \in RowsOp /\ new \in RowsOp)
           /\ new \in TodayOp <=> op \in TodayOp
           /\ new \in SnapshotOp <=> op \in SnapshotOp
           /\ op \in RowsOp =>
                /\ new.row = op.row /\ new.todo = op.todo /\ new.day = op.day /\ new.off = op.off
                /\ new.plan = op.plan /\ op.spoiled \subseteq new.spoiled
                /\ op.row # None /\ op.row.pair \in pairs => op.row.pair \in new.spoiled
                /\ planned /\ op \in TodayOp \cup SnapshotOp => pairs \subseteq new.spoiled
<1> DEFINE new == Spoiled(op, pairs, planned)
<1>1. CASE op \notin RowsOp
  BY <1>1, SpoiledOp, RowsOps
<1>2. CASE op \in RowsOp
  <2>1. /\ new \in RowsOp
        /\ new.kind = op.kind /\ new.next = op.next /\ new.day = op.day /\ new.off = op.off
        /\ new.plan = op.plan /\ new.todo = op.todo /\ new.row = op.row
        /\ new.spoiled = op.spoiled \cup (IF planned /\ op.kind = "today" THEN pairs
                                          ELSE pairs \cap InHand(op))
    BY <1>2, SpoiledOp
  <2>2. \A x \in RowsOp : /\ x \in TodayOp <=> x.kind = "today" /\ x.next = "row"
                          /\ x \in SnapshotOp <=> x.kind = "today" /\ x.next = "snapshot"
    BY DEF RowsOp, TodayOp, SnapshotOp, EachOp
  <2>3. op.row # None => op.row.pair \in InHand(op)
    BY <1>2, WhoRecomputes DEF InHand
  <2> HIDE DEF new
  <2>4. op.row # None /\ op.row.pair \in pairs => op.row.pair \in new.spoiled
    BY <2>1, <2>3
  <2>5. planned /\ op \in TodayOp \cup SnapshotOp => pairs \subseteq new.spoiled
    BY <1>2, <2>1, <2>2
  <2>6. QED
    BY <1>2, <2>1, <2>2, <2>4, <2>5 DEF new
<1>3. QED
  BY <1>1, <1>2

LEMMA StaysPlanned ==
    ASSUME Types, NEW pairs, NEW planned \in BOOLEAN, planned => pairs \subseteq Pairs,
           \A w \in Worker : ops'[w] = Spoiled(ops[w], pairs, planned)
    PROVE  Planned'
<1>1. ASSUME NEW w \in Worker, ops'[w] \in TodayOp
      PROVE  ops[w] \in TodayOp /\ ops'[w].todo = ops[w].todo /\ ops'[w].day = ops[w].day
             /\ ops'[w].plan = ops[w].plan
  BY <1>1, SpoiledStays, RowsOps DEF Types, Jobs, OpTypes
<1>2. QED
  BY <1>1 DEF Types, Planned

LEMMA StaffTypes == Types /\ (Pages \/ Recomputing) => Types' /\ StaffMove
<1> SUFFICES ASSUME Types, Pages \/ Recomputing PROVE Types' /\ StaffMove
  OBVIOUS
<1>1. UNCHANGED <<now, jobVars, crashed, unrecorded>>
  BY StaffFrame
<1>2. ASSUME StaffMove, AttendanceTypes', Planned', ReadsShots', Event("input") \/ Event("recompute") \/ UNCHANGED fuel
      PROVE  Types' /\ StaffMove
  <2>1. UNCHANGED <<schedules, runs, disk, mailed, links, email, erp, overtaken>>
    BY <1>1 DEF jobVars
  <2>2. JobTypes'
    BY <1>1, <1>2, <2>1, EventTypes, FinitelyListedStill DEF Types, Jobs, JobTypes
  <2>3. ASSUME NEW w \in Worker, ops'[w] \in RunOp
        PROVE  ops'[w] = ops[w]
    <3>1. ops'[w] \notin {Idle} \cup StaffOp
      BY <2>3, RowsOps, Stages DEF JobOp, RunOp, Idle
    <3>2. QED
      BY <1>2, <3>1 DEF StaffMove
  <2>4. KnownRuns'
    BY <2>1, <2>3 DEF Types, Jobs, KnownRuns
  <2>5. QED
    BY <1>2, <2>2, <2>4 DEF Types, Jobs, StaffMove
<1>3. CASE Pages
  <2>1. Event("input")
    BY <1>3, Zenon DEF Pages, Shoot, CreatePolicy, PatchPolicy, DeletePolicy, CreateAssignment,
       DeleteAssignment, CreateLeave, DeleteLeave, CreateHoliday, DeleteHoliday, ImportHolidays,
       PatchSettings, Leave
  <2>2. CASE UNCHANGED <<ops, settled>>
    <3>1. AttendanceTypes'
      BY <1>3, <2>2, PageTypes DEF Types, Jobs
    <3>2. StaffMove
      BY <2>2, StillStaff DEF Types, Jobs
    <3>3. Planned' /\ ReadsShots'
      BY <1>3, <2>2, ShotsStay DEF Types, Planned, ReadsShots, RematchOp
    <3>4. QED
      BY <1>2, <2>1, <3>1, <3>2, <3>3
  <2>3. ASSUME NEW pairs \in SUBSET Touched, NEW planned \in BOOLEAN, planned => pairs \subseteq Pairs,
               Changed(pairs, planned)
        PROVE  Types' /\ StaffMove
    <3>1. StaffMove /\ settled' \subseteq settled /\ \A w \in Worker : ops'[w] = Spoiled(ops[w], pairs, planned)
      BY <2>3, ChangedOps DEF Types, Jobs
    <3>2. AttendanceTypes'
      BY <1>3, <3>1, PageTypes DEF Types, Jobs
    <3>3. Planned'
      BY <2>3, <3>1, StaysPlanned
    <3>4. ReadsShots'
      <4>1. ASSUME NEW w \in Worker, ops'[w] \in RematchOp, NEW k \in DOMAIN ops'[w].read
            PROVE  shots'[k] # None
        <5>1. ops'[w] = ops[w]
          BY <2>3, <3>1, <4>1, SpoiledOp, RowsOps DEF Types, Jobs, OpTypes
        <5>2. k \in Shot
          BY <4>1 DEF RematchOp
        <5>3. QED
          BY <1>3, <4>1, <5>1, <5>2, ShotsStay DEF Types, ReadsShots
      <4>2. QED
        BY <4>1 DEF ReadsShots
    <3>5. QED
      BY <1>2, <2>1, <3>1, <3>2, <3>3, <3>4
  <2>4. QED
    BY <1>3, <2>2, <2>3, PagesChange DEF Types, Jobs
<1>4. ASSUME NEW w \in Worker, NEW op \in {Idle} \cup StaffOp, ops[w] \in {Idle} \cup StaffOp,
             op \in TodayOp => \A x \in op.todo : x[2] = op.day /\ op.plan[x[1]] # None,
             op \in RematchOp => \A k \in DOMAIN op.read : shots[k] # None,
             ops' = [ops EXCEPT ![w] = op], UNCHANGED attendanceVars, Event("recompute") \/ UNCHANGED fuel
      PROVE  Types' /\ StaffMove
  BY <1>2, <1>4, OneMoves
<1>5. ASSUME NEW w \in Worker, RecomputeToday(w) \/ \E d \in Day : Regenerate(w, d)
      PROVE  Types' /\ StaffMove
  BY <1>4, <1>5, BeginsRows, RowsOps
<1>6. ASSUME NEW w \in Worker, Snapshot(w)
      PROVE  Types' /\ StaffMove
  <2>1. PICK plan \in [Employee -> PlanRow \cup {None}], op \in TodayOp :
              /\ ops[w] \in SnapshotOp
              /\ op.day = ops[w].day /\ op.plan = plan /\ op.row = None
              /\ op.todo = {e \in Employee : plan[e] # None} \X {ops[w].day}
              /\ ops' = [ops EXCEPT ![w] = Left(op)]
              /\ UNCHANGED <<now, attendanceVars, jobVars, crashed, unrecorded, fuel>>
    BY <1>6, SnapshotsPlan
  <2>2. \A x \in op.todo : x[2] = op.day /\ op.plan[x[1]] # None
    BY <2>1
  <2>3. Left(op) = Idle \/ Left(op) = op
    BY DEF Left
  <2>4. QED
    BY <1>4, <2>1, <2>2, <2>3, RowsOps
<1>7. ASSUME NEW w \in Worker, NEW e \in Employee, NEW d \in Day, ReadRow(w, e, d)
      PROVE  Types' /\ StaffMove
  <2>1. PICK p \in PlanRow :
              /\ ops[w] \in TodayOp \cup EachOp
              /\ ReadHand(w, e, d, p) \in HandRow
              /\ ops' = [ops EXCEPT ![w] =
                    [ops[w] EXCEPT !.todo = ops[w].todo \ {<<e, d>>}, !.row = ReadHand(w, e, d, p)]]
              /\ UNCHANGED <<now, attendanceVars, jobVars, crashed, unrecorded, fuel>>
    BY <1>7, ReadsRow
  <2> DEFINE hand == ReadHand(w, e, d, p)
             op == [ops[w] EXCEPT !.todo = ops[w].todo \ {<<e, d>>}, !.row = hand]
  <2> HIDE DEF hand
  <2>2. /\ op \in TodayOp \cup EachOp /\ (op \in TodayOp => ops[w] \in TodayOp)
        /\ op.todo \subseteq ops[w].todo /\ op.day = ops[w].day /\ op.plan = ops[w].plan
    BY <2>1 DEF TodayOp, EachOp, hand
  <2> HIDE DEF op
  <2>3. ops' = [ops EXCEPT ![w] = op]
    BY <2>1 DEF op, hand
  <2>4. op \in TodayOp => \A x \in op.todo : x[2] = op.day /\ op.plan[x[1]] # None
    BY <2>2 DEF Types, Planned
  <2>5. op \in StaffOp /\ ops[w] \in StaffOp /\ op \notin RematchOp
    <3>1. ops[w] \in TodayOp \cup EachOp
      BY <2>1
    <3>2. QED
      BY <2>2, <3>1, RowKinds
  <2>6. QED
    BY <1>4, <2>1, <2>3, <2>4, <2>5
<1>8. ASSUME NEW w \in Worker, FailRow(w) \/ \E e \in Employee, d \in Day : SkipRow(w, e, d)
      PROVE  Types' /\ StaffMove
  <2>1. PICK op :
              /\ ops[w] \in TodayOp \cup EachOp
              /\ op = Idle \/ GoesOn(ops[w], op)
              /\ ops' = [ops EXCEPT ![w] = op]
              /\ UNCHANGED <<now, attendanceVars, jobVars, crashed, unrecorded>> /\ (Event("recompute") \/ UNCHANGED fuel)
    BY <1>8, SkipsRow
  <2>2. op \in TodayOp => \A x \in op.todo : x[2] = op.day /\ op.plan[x[1]] # None
    BY <2>1, RowsOps DEF GoesOn, Types, Planned
  <2>3. op \in {Idle} \cup StaffOp /\ ops[w] \in StaffOp /\ op \notin RematchOp
    <3>1. Idle \notin RematchOp
      BY RowsOps
    <3>2. ops[w] \in TodayOp \cup EachOp /\ op \in {Idle} \cup TodayOp \cup EachOp
      BY <2>1 DEF GoesOn
    <3>3. QED
      BY <3>1, <3>2, RowKinds
  <2>4. QED
    BY <1>4, <2>1, <2>2, <2>3
<1>9. ASSUME NEW w \in Worker, WriteRow(w)
      PROVE  Types' /\ StaffMove
  <2>1. PICK e \in Employee, d \in Day :
              /\ ops[w] \in TodayOp \cup EachOp /\ ops[w].row # None
              /\ ops[w].row \in HandRow /\ ops[w].row.pair = <<e, d>>
              /\ records' = [records EXCEPT ![e][d] = ops[w].row.record]
              /\ notices' = IF Crosses(ops[w].row) THEN [notices EXCEPT ![e][d] = @ + 1] ELSE notices
              /\ settled' = IF <<e, d>> \in ops[w].spoiled THEN settled \ {<<e, d>>}
                            ELSE settled \cup {<<e, d>>}
              /\ ops' = [v \in Worker |-> IF v = w THEN Left([ops[w] EXCEPT !.row = None])
                                          ELSE Passed(v, <<e, d>>)]
              /\ UNCHANGED <<now, inputs, jobVars, crashed, unrecorded, fuel>>
    BY <1>9, WritesRow
  <2>2. ops[w].row.record \in RecordRow
    BY <2>1 DEF HandRow
  <2>3. records' \in [Employee -> [Day -> RecordRow \cup {None}]]
    BY <2>1, <2>2 DEF Types, AttendanceTypes
  <2>4. notices' \in [Employee -> [Day -> Nat]]
    BY <2>1 DEF Types, AttendanceTypes
  <2>5. settled' \subseteq Pairs
    BY <2>1 DEF Types, AttendanceTypes, Pairs
  <2>6. UNCHANGED <<staff, shots, policies, assignments, leaves, holidays, settings>>
    BY <2>1 DEF inputs
  <2>7. AttendanceTypes'
    BY <2>3, <2>4, <2>5, <2>6 DEF Types, AttendanceTypes
  <2>8. ops'[w] = Idle \/ GoesOn(ops[w], ops'[w])
    <3> DEFINE op == [ops[w] EXCEPT !.row = None]
    <3>1. GoesOn(ops[w], op)
      BY <2>1, DropsRow DEF GoesOn
    <3>2. ops'[w] = Left(op)
      BY <2>1
    <3> HIDE DEF op
    <3>3. QED
      BY <3>1, <3>2 DEF Left
  <2>9. ASSUME NEW v \in Worker, v # w
        PROVE  \/ ops'[v] = ops[v]
               \/ /\ ops[v] \in TodayOp \cup EachOp /\ ops[v].row # None
                  /\ ops'[v] = [ops[v] EXCEPT !.row.raced = TRUE]
    <3>1. <<e, d>> \in InHand(ops[v]) => ops[v] \in TodayOp \cup EachOp /\ ops[v].row # None
      <4>1. <<e, d>> \in InHand(ops[v]) => ops[v] \in RowsOp /\ ops[v].row # None
        BY WhoRecomputes DEF InHand, Types, Jobs, OpTypes
      <4>2. ops[v] \in SnapshotOp => ops[v].row = None
        BY DEF SnapshotOp
      <4>3. QED
        BY <4>1, <4>2 DEF RowsOp
    <3>2. ops'[v] = Passed(v, <<e, d>>)
      BY <2>1, <2>9
    <3>3. QED
      BY <3>1, <3>2 DEF Passed
  <2>10. ASSUME NEW v \in Worker
         PROVE  /\ ops'[v] = ops[v] \/ {ops[v], ops'[v]} \subseteq {Idle} \cup StaffOp
                /\ ops'[v] \in {Idle} \cup JobOp \cup StaffOp
                /\ ops'[v] \in TodayOp => /\ ops[v] \in TodayOp /\ ops'[v].todo \subseteq ops[v].todo
                                          /\ ops'[v].day = ops[v].day /\ ops'[v].plan = ops[v].plan
                /\ ops'[v] \in RematchOp => ops'[v] = ops[v]
    <3>1. CASE v = w
      <4>1. Idle \notin StaffOp
        BY RowsOps
      <4>2. ops'[v] = Idle => ops'[v] \notin TodayOp \cup RematchOp
        BY <4>1, RowsOps
      <4>3. CASE ops'[v] = Idle
        BY <2>1, <3>1, <4>2, <4>3, RowsOps
      <4>4. CASE GoesOn(ops[v], ops'[v])
        <5>1. /\ ops[v] \in TodayOp \cup EachOp /\ ops'[v] \in TodayOp \cup EachOp
              /\ ops'[v] \in TodayOp => ops[v] \in TodayOp
              /\ ops'[v].todo \subseteq ops[v].todo /\ ops'[v].day = ops[v].day /\ ops'[v].plan = ops[v].plan
          BY <2>1, <3>1, <4>4 DEF GoesOn
        <5>2. QED
          BY <5>1, RowKinds
      <4>5. QED
        BY <2>8, <3>1, <4>3, <4>4
    <3>2. CASE v # w /\ ops'[v] = ops[v]
      BY <3>2 DEF Types, Jobs, OpTypes
    <3>3. CASE v # w /\ ops'[v] # ops[v]
      <4>1. ops[v] \in TodayOp \cup EachOp /\ ops[v].row # None
            /\ ops'[v] = [ops[v] EXCEPT !.row.raced = TRUE]
        BY <2>9, <3>3
      <4>2. /\ ops'[v] \in TodayOp \cup EachOp /\ (ops'[v] \in TodayOp => ops[v] \in TodayOp)
            /\ ops'[v].todo = ops[v].todo /\ ops'[v].day = ops[v].day /\ ops'[v].plan = ops[v].plan
        <5> DEFINE new == [ops[v] EXCEPT !.row.raced = TRUE]
        <5>1. /\ new \in TodayOp \cup EachOp /\ (ops[v] \in TodayOp <=> new \in TodayOp)
              /\ new["day"] = ops[v]["day"] /\ new["plan"] = ops[v]["plan"] /\ new["todo"] = ops[v]["todo"]
          BY <4>1, RacedRow
        <5> HIDE DEF new
        <5>2. ops'[v] = new
          BY <4>1 DEF new
        <5>3. QED
          BY <5>1, <5>2
      <4>3. QED
        BY <4>1, <4>2, RowKinds
    <3>4. QED
      BY <3>1, <3>2, <3>3
  <2>11. StaffMove
    <3>1. ops' = [v \in Worker |-> ops'[v]]
      BY <2>1
    <3>2. QED
      BY <2>10, <3>1 DEF StaffMove, OpTypes
  <2>12. Planned'
    BY <2>10 DEF Types, Planned
  <2>13. ReadsShots'
    BY <2>6, <2>10 DEF Types, ReadsShots
  <2>14. QED
    BY <1>2, <2>1, <2>7, <2>11, <2>12, <2>13
<1>10. ASSUME NEW w \in Worker, NEW x \in Rematches, Rematch(w, x.first, x.last, x.only, x.again)
       PROVE  Types' /\ StaffMove
  BY <1>4, <1>10, RematchReads, RowsOps
<1>11. ASSUME NEW w \in Worker, Reassign(w)
       PROVE  Types' /\ StaffMove
  <2>1. PICK moved, owner, pairs, todo : HandedOver(w, moved, owner, pairs, todo)
    BY <1>11, ReassignsShots
  <2>2. shots' \in [Shot -> ShotRow \cup {None}] /\ \A k \in Shot : shots[k] # None => shots'[k] # None
    <3>1. ASSUME NEW k \in moved
          PROVE  [shots[k] EXCEPT !.emp = owner[k]] \in ShotRow
      BY <2>1 DEF HandedOver, Types, AttendanceTypes, ShotRow
    <3>2. QED
      BY <2>1, <3>1, NoneAssumption DEF HandedOver, Types, AttendanceTypes
  <2>3. AttendanceTypes'
    BY <2>1, <2>2 DEF HandedOver, Types, AttendanceTypes
  <2>4. ops'[w] \in {Idle} \cup EachOp
    <3>1. Recompute("rematch", todo) \in EachOp
      BY <2>1, FirstOps DEF HandedOver, Types, Jobs
    <3>2. QED
      BY <2>1, <3>1 DEF HandedOver, Left
  <2>5. \A v \in Worker : v # w => ops'[v] = Spoiled(ops[v], pairs, FALSE)
    BY <2>1 DEF HandedOver
  <2>6. ops[w] \in RematchOp
    BY <2>1 DEF HandedOver
  <2>7. ASSUME NEW v \in Worker, v # w
        PROVE  /\ ops'[v] = ops[v] \/ (ops[v] \in RowsOp /\ ops'[v] \in RowsOp)
               /\ ops'[v] \in TodayOp => (/\ ops[v] \in TodayOp /\ ops'[v].todo = ops[v].todo
                                          /\ ops'[v].day = ops[v].day /\ ops'[v].plan = ops[v].plan)
    <3>1. ops[v] \in {Idle} \cup JobOp \cup StaffOp
      BY DEF Types, Jobs, OpTypes
    <3>2. ops'[v] = Spoiled(ops[v], pairs, FALSE)
      BY <2>5, <2>7
    <3> DEFINE new == Spoiled(ops[v], pairs, FALSE)
    <3>3. /\ new = ops[v] \/ (ops[v] \in RowsOp /\ new \in RowsOp)
          /\ new \in TodayOp <=> ops[v] \in TodayOp
          /\ ops[v] \in RowsOp => new.todo = ops[v].todo /\ new.day = ops[v].day /\ new.plan = ops[v].plan
      BY <3>1, SpoiledStays
    <3> HIDE DEF new
    <3>4. ops'[v] = new
      BY <3>2 DEF new
    <3>5. ops[v] \in TodayOp => ops[v] \in RowsOp
      BY RowsOps
    <3>6. QED
      BY <3>3, <3>4, <3>5
  <2>8. StaffMove
    <3>1. ops' = [v \in Worker |-> ops'[v]]
      BY <2>1 DEF HandedOver
    <3>2. QED
      BY <2>4, <2>6, <2>7, <3>1, RowsOps DEF StaffMove, Types, Jobs, OpTypes
  <2>9. Planned'
    BY <2>4, <2>7, RowsOps, Stages DEF Types, Planned, Idle, TodayOp
  <2>10. ReadsShots'
    BY <2>2, <2>4, <2>7, RowsOps DEF Types, ReadsShots, RematchOp
  <2>11. QED
    BY <1>2, <2>1, <2>3, <2>8, <2>9, <2>10 DEF HandedOver
<1>12. QED
  BY <1>3, <1>5, <1>6, <1>7, <1>8, <1>9, <1>10, <1>11 DEF Recomputing
LEMMA InitTypes == Init => Types
<1> SUFFICES ASSUME Init PROVE Types
  OBVIOUS
<1> DEFINE p    == CHOOSE x \in Policy : TRUE
           s    == CHOOSE x \in Schedule : TRUE
           form == CHOOSE x \in Form : x.type = "Fixed"
           cron == CHOOSE x \in Cron : TRUE
           a    == CHOOSE x \in Shot : TRUE
           b    == CHOOSE x \in Shot : x # a
           next == NextRun(cron, 0)
           seen(e) == [k \in Shot |-> IF k = a THEN [at |-> 0, emp |-> e]
                                      ELSE IF k = b THEN [at |-> 2, emp |-> e] ELSE None]
<1>1. PICK begin \in Beginnings :
          /\ staff = begin.staff
          /\ settings = [weekend |-> {}, ahead |-> begin.ahead]
          /\ shots = seen(CHOOSE x \in begin.staff : TRUE)
          /\ fuel = begin.fuel
  BY Zenon DEF Init
<1> DEFINE e == CHOOSE x \in begin.staff : TRUE
<1>2. e \in Employee /\ form \in Form /\ cron \in Cron
  BY FormAssumption, ClockAssumption
<1>3. next \in Nat
  BY <1>2, NextRunIs
<1>4. /\ now = 2
      /\ staff \subseteq Employee /\ begin.ahead \in Zones /\ fuel \in [EventKind -> Nat]
      /\ shots = [k \in Shot |-> IF k = a THEN [at |-> 0, emp |-> e]
                                 ELSE IF k = b THEN [at |-> 2, emp |-> e] ELSE None]
      /\ policies = [q \in Policy |->
             IF q = p THEN [type |-> form.type, config |-> form.config, from |-> 0, until |-> None]
             ELSE None]
      /\ assignments = {} /\ leaves = {} /\ holidays = {}
      /\ records = [x \in Employee |-> [d \in Day |-> None]]
      /\ notices = [x \in Employee |-> [d \in Day |-> 0]]
  <2>1. staff \subseteq Employee /\ begin.ahead \in Zones /\ fuel \in [EventKind -> Nat]
    BY <1>1, ClockAssumption
  <2>2. /\ now = 2
        /\ policies = [q \in Policy |->
               IF q = p THEN [type |-> form.type, config |-> form.config, from |-> 0, until |-> None]
               ELSE None]
        /\ assignments = {} /\ leaves = {} /\ holidays = {}
        /\ records = [x \in Employee |-> [d \in Day |-> None]]
        /\ notices = [x \in Employee |-> [d \in Day |-> 0]]
    BY Zenon DEF Init
  <2>3. QED
    BY <1>1, <2>1, <2>2
<1>5. /\ schedules = [x \in Schedule |->
             IF x = s
             THEN [cron |-> cron, active |-> TRUE, sends |-> TRUE, next |-> next]
             ELSE None]
      /\ runs = [r \in Run |-> None]
      /\ disk = {} /\ links = {}
      /\ mailed = [x \in Schedule |-> [t \in Time |-> 0]]
      /\ email = TRUE
      /\ erp = [enabled |-> TRUE, cron |-> cron, next |-> next]
      /\ ops = [w \in Worker |-> Idle]
      /\ settled = {} /\ overtaken = {}
      /\ crashed = FALSE
  BY Zenon DEF Init
<1>6. 2 \in Time /\ 0 \in Time
  <2>1. ASSUME NEW z \in Zones
        PROVE  (0 + z) \div DayLength \in Day
    <3>1. z \in 0 .. DayLength - 1 /\ DayLength \in Nat \ {0} /\ LastDay \in Nat
      BY ClockAssumption DEF SlotOfDay
    <3>2. (0 + z) \div DayLength = 0
      BY <3>1
    <3>3. QED
      BY <3>1, <3>2 DEF Day
  <2>2. 0 \in 0 .. (LastDay + 1) * DayLength - 1
    BY ClockAssumption DEF Time
  <2>3. QED
    BY <2>1, <2>2, ClockAssumption DEF Time
<1> HIDE DEF e, p, s, form, cron, a, b, next
<1>7. OpTypes
  BY <1>5 DEF OpTypes
<1>8. JobTypes
  <2>1. schedules \in [Schedule -> ScheduleRow \cup {None, Gone}]
    BY <1>2, <1>3, <1>5 DEF ScheduleRow
  <2>2. {x \in Schedule : Listed(x)} \subseteq {s}
    BY <1>5 DEF Listed
  <2>3. IsFiniteSet({x \in Schedule : Listed(x)})
    BY <2>2, FS_Singleton, FS_Subset
  <2>4. erp \in [enabled : BOOLEAN, cron : Cron \cup {None}, next : Nat \cup {None}]
    BY <1>2, <1>3, <1>5
  <2>5. runs \in [Run -> RunRow \cup {None, Gone}] /\ mailed \in [Schedule -> [Time -> Nat]]
    BY <1>5
  <2>6. now \in Time /\ fuel \in [EventKind -> Nat]
    BY <1>4, <1>6
  <2>7. crashed \in BOOLEAN /\ email \in BOOLEAN /\ disk = {} /\ links = {}
    BY <1>5
  <2>8. QED
    BY <2>1, <2>3, <2>4, <2>5, <2>6, <2>7 DEF JobTypes
<1>9. AttendanceTypes
  <2>1. shots \in [Shot -> ShotRow \cup {None}]
    BY <1>2, <1>4, <1>6 DEF ShotRow
  <2>2. policies \in [Policy -> PolicyRow \cup {None}]
    <3>1. form.type \in {"Fixed", "Flex", "Ramadan", "Custom"} /\ form.config \in Config
      BY <1>2, FormAssumption
    <3>2. QED
      BY <1>4, <3>1 DEF PolicyRow
  <2>3. settings \in [weekend : Weekends \cup {{}}, ahead : Zones]
    BY <1>1, <1>4
  <2>4. QED
    BY <1>4, <1>5, <2>1, <2>2, <2>3 DEF AttendanceTypes
<1>10. \A w \in Worker : ops[w] = Idle
  BY <1>5
<1>11. Idle \notin StaffOp \cup RunOp
  BY RowsOps DEF RunOp, Idle
<1>12. QED
  BY <1>7, <1>8, <1>9, <1>10, <1>11, RowsOps DEF Types, Jobs, KnownRuns, Planned, ReadsShots

Others == TimePasses \/ \E w \in Worker : Abandon(w) \/ Crash(w)

LEMMA OtherTypes ==
    ASSUME Types, Others \/ UNCHANGED vars
    PROVE  Types'
<1>1. /\ UNCHANGED <<attendanceVars, jobVars>> /\ now' \in Time /\ crashed' \in BOOLEAN
      /\ fuel' \in [EventKind -> Nat]
  BY EventTypes DEF Others, TimePasses, Abandon, Crash, vars, Types, Jobs, JobTypes
<1>2. UNCHANGED <<schedules, runs, disk, mailed, links, email, erp, overtaken>>
      /\ UNCHANGED <<staff, shots, policies, assignments, leaves, holidays, settings, records, notices, settled>>
  BY <1>1 DEF attendanceVars, inputs, jobVars
<1>3. \A w \in Worker : ops'[w] = ops[w] \/ ops'[w] \in {Idle, Today}
  BY DEF Others, TimePasses, Abandon, Done, Put, Crash, vars, Types, Jobs, OpTypes
<1>4. Today \in SnapshotOp
  BY FirstOps DEF Types, Jobs
<1>5. OpTypes'
  <2>1. ops' = [w \in Worker |-> ops'[w]]
    BY DEF Others, TimePasses, Abandon, Done, Put, Crash, vars, Types, Jobs, OpTypes
  <2>2. QED
    BY <1>3, <1>4, <2>1, RowsOps DEF Types, Jobs, OpTypes
<1>6. JobTypes'
  BY <1>1, <1>2, FinitelyListedStill DEF Types, Jobs, JobTypes
<1>7. AttendanceTypes'
  BY <1>2 DEF Types, AttendanceTypes
<1>8. Idle \notin StaffOp \cup RunOp /\ Today \notin RunOp \cup TodayOp \cup RematchOp
  <2>1. Today \notin JobOp
    BY <1>4, RowKinds
  <2>2. Idle \notin RunOp
    BY DEF RunOp, Idle
  <2>3. QED
    BY <1>4, <2>1, <2>2, RowsOps DEF JobOp
<1>9. Idle \notin TodayOp \cup RematchOp
  BY <1>8, RowsOps
<1>10. KnownRuns'
  BY <1>2, <1>3, <1>8 DEF Types, Jobs, KnownRuns
<1>11. Planned' /\ ReadsShots'
  BY <1>2, <1>3, <1>8, <1>9 DEF Types, Planned, ReadsShots
<1>12. QED
  BY <1>5, <1>6, <1>7, <1>10, <1>11 DEF Types, Jobs

LEMMA ReportsStaff ==
    ASSUME Types, Reports
    PROVE  Types' /\ \A w \in Worker : ops[w] \in StaffOp \/ ops'[w] \in StaffOp => ops'[w] = ops[w]
<1>1. Jobs' /\ JobsMove
  BY ReportsTypes, ReportsMove DEF Types
<1>2. UNCHANGED <<staff, shots, policies, assignments, leaves, holidays, settings, records, notices, settled>>
  BY ReportsFrame DEF attendanceVars, inputs
<1>3. AttendanceTypes'
  BY <1>2 DEF Types, AttendanceTypes
<1>4. \A w \in Worker : ops[w] \in StaffOp \/ ops'[w] \in StaffOp => ops'[w] = ops[w]
  BY <1>1, RowsOps DEF JobsMove
<1>5. Planned' /\ ReadsShots'
  BY <1>2, <1>4, RowsOps DEF Types, Planned, ReadsShots
<1>6. QED
  BY <1>1, <1>3, <1>4, <1>5 DEF Types

(* The columns of every table and what every handler and job holds have    *)
(* their types, whatever pages and jobs are in flight together: no read of *)
(* the recompute, of a tick or of a sweep finds something of another kind. *)
THEOREM TypesHold == Spec => []Types
<1>1. Init => Types
  BY InitTypes
<1>2. Types /\ [Next]_vars => Types'
  BY StaffTypes, ReportsStaff, OtherTypes DEF Next, Others
<1>3. QED
  BY <1>1, <1>2, PTL DEF Spec

(***************************************************************************)
(* Rows refer to rows.                                                     *)
(***************************************************************************)
RowKept(row) == policies[row.policy] # None /\ Sound(row)

HandKept(op) ==
    /\ op.row # None => RowKept(op.row.record)
    /\ op \in TodayOp =>
          \A e \in Employee : op.plan[e] # None => policies[op.plan[e].id] # None

Kept ==
    /\ \A k \in Shot : shots[k] # None => shots[k].at <= now
    /\ \A a \in assignments : policies[a.policy] # None
    /\ \A e \in Employee, d \in Day : records[e][d] # None => RowKept(records[e][d])
    /\ \A x \in settled : records[x[1]][x[2]] # None
    /\ \A w \in Worker : ops[w] \in RowsOp => HandKept(ops[w])

LEMMA PageWrites ==
    ASSUME JobTypes, AttendanceTypes, Pages
    PROVE  /\ UNCHANGED <<records, notices, now>>
           /\ \A p \in Policy : policies[p] # None => policies'[p] # None
           /\ \A a \in assignments' : a \in assignments \/ (a.policy \in Policy /\ policies[a.policy] # None)
           /\ \A k \in Shot : shots'[k] = shots[k] \/ (shots[k] = None /\ shots'[k].at = now)
<1> DEFINE goal == /\ UNCHANGED <<records, notices, now>>
                   /\ \A p \in Policy : policies[p] # None => policies'[p] # None
                   /\ \A a \in assignments' : a \in assignments \/ (a.policy \in Policy /\ policies[a.policy] # None)
                   /\ \A k \in Shot : shots'[k] = shots[k] \/ (shots[k] = None /\ shots'[k].at = now)
<1>1. ASSUME NEW k \in Shot, NEW e \in Employee \cup {None}, Shoot(k, e)
      PROVE  goal
  BY <1>1 DEF Shoot, AttendanceTypes
<1>2. ASSUME NEW p \in Policy,
             \/ \E form \in Form, window \in Window : CreatePolicy(p, form, window) \/ PatchPolicy(p, form, window)
             \/ DeletePolicy(p)
      PROVE  goal
  <2>1. PICK row \in PolicyRow : WritePolicy(p, row)
    BY <1>2, PolicyRows
  <2>2. row # None
    BY NoneAssumption
  <2>3. QED
    BY <2>1, <2>2 DEF WritePolicy, AttendanceTypes
<1>3. ASSUME NEW p \in Policy, NEW scope \in Employee \cup Department \cup {"tenant"}, NEW window \in Window,
             CreateAssignment(p, scope, window)
      PROVE  goal
  <2> DEFINE row == [policy |-> p, scope |-> scope, from |-> window[1], until |-> window[2]]
  <2>1. row.policy = p /\ policies[p] # None /\ WriteAssignments(assignments \cup {row})
    BY <1>3 DEF CreateAssignment
  <2> HIDE DEF row
  <2>2. QED
    BY <2>1 DEF WriteAssignments
<1>4. ASSUME \/ \E a \in assignments : DeleteAssignment(a)
             \/ \E e \in Employee, first, last \in Day : CreateLeave(e, first, last)
             \/ \E l \in leaves : DeleteLeave(l)
             \/ \E d \in Day : CreateHoliday(d) \/ DeleteHoliday(d)
             \/ \E days \in {x \in SUBSET Day : Cardinality(x) > 1} : ImportHolidays(days)
             \/ \E weekend \in Weekends, ahead \in Zones : PatchSettings(weekend, ahead)
             \/ \E e \in Employee : Leave(e)
      PROVE  goal
  BY <1>4 DEF DeleteAssignment, WriteAssignments, CreateLeave, DeleteLeave, WriteLeaves,
     CreateHoliday, DeleteHoliday, WriteHolidays, ImportHolidays, PatchSettings, Leave
<1>5. QED
  BY <1>1, <1>2, <1>3, <1>4 DEF Pages

(* A page leaves what a job holds, but may mark it out of date. *)
Same(old, new) ==
    /\ new = old \/ /\ old \in RowsOp /\ new \in RowsOp
                    /\ new.row = old.row /\ new.todo = old.todo /\ new.day = old.day
                    /\ new.off = old.off /\ new.plan = old.plan /\ old.spoiled \subseteq new.spoiled
    /\ new \in TodayOp <=> old \in TodayOp
    /\ new \in SnapshotOp <=> old \in SnapshotOp

LEMMA PageKeepsOps ==
    ASSUME Types, Pages
    PROVE  settled' \subseteq settled /\ \A w \in Worker : Same(ops[w], ops'[w])
<1>1. CASE UNCHANGED <<ops, settled>>
  BY <1>1 DEF Same
<1>2. ASSUME NEW pairs \in SUBSET Touched, NEW planned \in BOOLEAN, planned => pairs \subseteq Pairs,
             Changed(pairs, planned)
      PROVE  settled' \subseteq settled /\ \A w \in Worker : Same(ops[w], ops'[w])
  <2>1. settled' \subseteq settled /\ \A w \in Worker : ops'[w] = Spoiled(ops[w], pairs, planned)
    BY <1>2, ChangedOps DEF Types, Jobs
  <2>2. ASSUME NEW w \in Worker
        PROVE  Same(ops[w], ops'[w])
    <3>1. ops[w] \in {Idle} \cup JobOp \cup StaffOp
      BY DEF Types, Jobs, OpTypes
    <3>2. Same(ops[w], Spoiled(ops[w], pairs, planned))
      BY <1>2, <3>1, SpoiledStays DEF Same
    <3>3. QED
      BY <2>1, <3>2
  <2>3. QED
    BY <2>1, <2>2
<1>3. QED
  BY <1>1, <1>2, PagesChange DEF Types, Jobs

LEMMA PagesKeep ==
    ASSUME Types, Kept, Pages
    PROVE  Kept'
<1>1. /\ UNCHANGED <<records, now>> /\ settled' \subseteq settled
      /\ \A p \in Policy : policies[p] # None => policies'[p] # None
      /\ \A w \in Worker : Same(ops[w], ops'[w])
  BY PageWrites, PageKeepsOps DEF Types, Jobs
<1>2. now \in Int
  BY TimesAre DEF Types, Jobs, JobTypes
<1>3. \A k \in Shot : shots'[k] # None => shots'[k].at <= now
  BY <1>2, PageWrites DEF Types, Jobs, Kept
<1>4. \A a \in assignments' : policies'[a.policy] # None
  BY <1>1, PageWrites DEF Types, Jobs, Kept, AttendanceTypes
<1>5. ASSUME NEW row \in RecordRow, RowKept(row)
      PROVE  RowKept(row)'
  BY <1>1, <1>5 DEF RowKept, RecordRow
<1>6. \A e \in Employee, d \in Day : records'[e][d] # None => RowKept(records[e][d])'
  BY <1>1, <1>5 DEF Kept, Types, AttendanceTypes, RowKept
<1>7. ASSUME NEW w \in Worker, ops'[w] \in RowsOp
      PROVE  HandKept(ops[w])'
  <2>1. ops[w] \in RowsOp /\ ops'[w].row = ops[w].row /\ ops'[w].plan = ops[w].plan
        /\ (ops'[w] \in TodayOp => ops[w] \in TodayOp)
    BY <1>1, <1>7 DEF Same
  <2>2. HandKept(ops[w])
    BY <2>1 DEF Kept
  <2>3. ops[w].row # None => ops[w].row.record \in RecordRow
    BY <2>1 DEF RowsOp, SnapshotOp, TodayOp, EachOp, HandRow
  <2>4. ops'[w].row # None => RowKept(ops[w].row.record)'
    BY <1>5, <2>1, <2>2, <2>3 DEF HandKept, RowKept
  <2>5. ops[w] \in TodayOp => \A e \in Employee : ops[w].plan[e] # None => ops[w].plan[e].id \in Policy
    BY DEF TodayOp, PlanRow
  <2>6. QED
    BY <1>1, <2>1, <2>2, <2>4, <2>5 DEF HandKept
<1>8. QED
  BY <1>1, <1>3, <1>4, <1>6, <1>7 DEF Kept

LEMMA OneKeeps ==
    ASSUME Types, Kept, NEW w \in Worker, NEW op, ops' = [ops EXCEPT ![w] = op],
           UNCHANGED <<now, attendanceVars>>,
           op \in RowsOp => HandKept(op)
    PROVE  Kept'
<1>1. ops'[w] = op /\ \A v \in Worker : v # w => ops'[v] = ops[v]
  BY OpStep DEF Types, Jobs
<1>2. UNCHANGED <<shots, policies, assignments, records, settled>>
  BY DEF attendanceVars, inputs
<1>3. \A v \in Worker : ops'[v] \in RowsOp => HandKept(ops'[v])
  BY <1>1 DEF Kept
<1>4. \A v \in Worker : ops'[v] \in RowsOp => HandKept(ops[v])'
  BY <1>2, <1>3 DEF HandKept, RowKept
<1>5. QED
  BY <1>2, <1>4 DEF Kept, RowKept

LEMMA RecomputingKeeps ==
    ASSUME Types, Kept, Recomputing
    PROVE  Kept'
<1>1. Idle \notin RowsOp /\ \A op \in TodayOp : op \notin EachOp \cup SnapshotOp
  BY RowsOps
<1>2. ASSUME NEW w \in Worker, RecomputeToday(w) \/ \E d \in Day : Regenerate(w, d)
      PROVE  Kept'
  <2>1. PICK op \in SnapshotOp \cup EachOp :
           op.row = None /\ ops' = [ops EXCEPT ![w] = op] /\ UNCHANGED <<now, attendanceVars>>
    BY <1>2, BeginsRows
  <2>2. HandKept(op)
    BY <1>1, <2>1 DEF HandKept
  <2>3. QED
    BY <2>1, <2>2, OneKeeps
<1>3. ASSUME NEW w \in Worker, Snapshot(w)
      PROVE  Kept'
  <2>1. PICK plan \in [Employee -> PlanRow \cup {None}], op \in TodayOp :
              /\ \A e \in Employee : plan[e] # None => policies[plan[e].id] # None
              /\ op.plan = plan /\ op.row = None
              /\ ops' = [ops EXCEPT ![w] = Left(op)]
              /\ UNCHANGED <<now, attendanceVars>>
    BY <1>3, SnapshotsPlan
  <2>2. HandKept(op)
    BY <2>1 DEF HandKept
  <2>3. Left(op) \in RowsOp => HandKept(Left(op))
    BY <1>1, <2>2 DEF Left
  <2> HIDE DEF HandKept
  <2>4. QED
    BY <2>1, <2>3, OneKeeps
<1>4. ASSUME NEW w \in Worker, NEW e \in Employee, NEW d \in Day, ReadRow(w, e, d)
      PROVE  Kept'
  <2>1. PICK p \in PlanRow :
              /\ ops[w] \in TodayOp \cup EachOp
              /\ \/ ops[w] \in TodayOp /\ d = ops[w].day /\ p = ops[w].plan[e] /\ p # None
                 \/ ops[w] \in EachOp /\ p \in Resolved(e, d)
              /\ ReadHand(w, e, d, p) \in HandRow
              /\ Sound(ReadHand(w, e, d, p).record) /\ ReadHand(w, e, d, p).record.policy = p.id
              /\ ops' = [ops EXCEPT ![w] =
                    [ops[w] EXCEPT !.todo = ops[w].todo \ {<<e, d>>}, !.row = ReadHand(w, e, d, p)]]
              /\ UNCHANGED <<now, attendanceVars>>
    BY <1>4, ReadsRow
  <2> DEFINE hand == ReadHand(w, e, d, p)
             todo == ops[w].todo \ {<<e, d>>}
             op == [ops[w] EXCEPT !.todo = todo, !.row = hand]
  <2>2. policies[p.id] # None
    <3>2. CASE ops[w] \in TodayOp
      <4>1. HandKept(ops[w])
        BY <3>2, RowsOps DEF Kept
      <4>2. ops[w] \notin EachOp
        BY <3>2, RowsOps
      <4>3. QED
        BY <2>1, <3>2, <4>1, <4>2 DEF HandKept
    <3>3. CASE ops[w] \in EachOp
      BY <2>1, <3>3, InputTypes, RowsOps DEF Types
    <3>4. QED
      BY <2>1, <3>2, <3>3
  <2>3. RowKept(hand.record)
    BY <2>1, <2>2 DEF RowKept
  <2> HIDE DEF hand, todo
  <2>4. op.row = hand /\ op.plan = ops[w].plan /\ (op \in TodayOp => ops[w] \in TodayOp)
    <3>1. op.row = hand /\ op.plan = ops[w].plan /\ op.kind = ops[w].kind
      BY <2>1 DEF TodayOp, EachOp
    <3>2. op \in TodayOp => ops[w].kind = "today"
      BY <3>1 DEF TodayOp
    <3>3. ops[w] \in EachOp => ops[w].kind # "today"
      BY DEF EachOp
    <3>4. QED
      BY <2>1, <3>1, <3>2, <3>3
  <2> HIDE DEF op
  <2>5. HandKept(op)
    <3>1. ops[w] \in TodayOp => HandKept(ops[w])
      BY RowsOps DEF Kept
    <3>2. QED
      BY <2>3, <2>4, <3>1 DEF HandKept
  <2>6. ops' = [ops EXCEPT ![w] = op] /\ UNCHANGED <<now, attendanceVars>>
    BY <2>1 DEF op, hand, todo
  <2>7. QED
    BY <2>5, <2>6, OneKeeps
<1>5. ASSUME NEW w \in Worker, FailRow(w) \/ \E e \in Employee, d \in Day : SkipRow(w, e, d)
      PROVE  Kept'
  <2>1. PICK op :
              /\ ops[w] \in TodayOp \cup EachOp
              /\ op = Idle \/ GoesOn(ops[w], op)
              /\ ops' = [ops EXCEPT ![w] = op]
              /\ UNCHANGED <<now, attendanceVars, jobVars, crashed, unrecorded>>
    BY <1>5, SkipsRow
  <2>2. HandKept(ops[w])
    BY <2>1, RowsOps DEF Kept
  <2>3. op \in RowsOp => HandKept(op)
    BY <1>1, <2>1, <2>2 DEF GoesOn, HandKept
  <2>4. QED
    BY <2>1, <2>3, OneKeeps
<1>6. ASSUME NEW w \in Worker, NEW x \in Rematches, Rematch(w, x.first, x.last, x.only, x.again)
      PROVE  Kept'
  <2>1. PICK op \in RematchOp : ops' = [ops EXCEPT ![w] = op] /\ UNCHANGED <<now, attendanceVars>>
    BY <1>6, RematchReads
  <2>2. op \notin RowsOp
    BY RowsOps
  <2>3. QED
    BY <2>1, <2>2, OneKeeps
<1>7. ASSUME NEW w \in Worker, WriteRow(w)
      PROVE  Kept'
  <2>1. PICK e \in Employee, d \in Day :
              /\ ops[w] \in TodayOp \cup EachOp /\ ops[w].row # None
              /\ ops[w].row \in HandRow /\ ops[w].row.pair = <<e, d>>
              /\ records' = [records EXCEPT ![e][d] = ops[w].row.record]
              /\ notices' = IF Crosses(ops[w].row) THEN [notices EXCEPT ![e][d] = @ + 1] ELSE notices
              /\ settled' = IF <<e, d>> \in ops[w].spoiled THEN settled \ {<<e, d>>}
                            ELSE settled \cup {<<e, d>>}
              /\ ops' = [v \in Worker |-> IF v = w THEN Left([ops[w] EXCEPT !.row = None])
                                          ELSE Passed(v, <<e, d>>)]
              /\ UNCHANGED <<now, inputs, jobVars, crashed, unrecorded, fuel>>
    BY <1>7, WritesRow
  <2>2. HandKept(ops[w])
    BY <2>1, RowsOps DEF Kept
  <2>3. ops[w].row.record \in RecordRow /\ RowKept(ops[w].row.record) /\ ops[w].row.record # None
    BY <2>1, <2>2, NoneAssumption DEF HandKept, HandRow
  <2>4. \A f \in Employee, b \in Day :
           \/ f = e /\ b = d /\ records'[f][b] = ops[w].row.record
           \/ <<f, b>> # <<e, d>> /\ records'[f][b] = records[f][b]
    BY <2>1 DEF Types, AttendanceTypes
  <2>5. UNCHANGED <<now, shots, policies, assignments>>
    BY <2>1 DEF inputs
  <2>6. \A f \in Employee, b \in Day : records'[f][b] # None => RowKept(records'[f][b])
    BY <2>3, <2>4 DEF Kept
  <2>7. \A x \in settled' : records'[x[1]][x[2]] # None
    <3>1. ASSUME NEW f \in Employee, NEW b \in Day, <<f, b>> \in settled'
          PROVE  records'[f][b] # None
      <4>1. CASE <<f, b>> = <<e, d>>
        BY <2>3, <2>4, <4>1
      <4>2. CASE <<f, b>> # <<e, d>>
        BY <2>1, <2>4, <3>1, <4>2 DEF Kept
      <4>3. QED
        BY <4>1, <4>2
    <3>2. settled' \subseteq Pairs
      BY <2>1 DEF Types, AttendanceTypes, Pairs
    <3>3. QED
      BY <3>1, <3>2 DEF Pairs
  <2>8. ASSUME NEW v \in Worker, ops'[v] \in RowsOp
        PROVE  HandKept(ops'[v])
    <3>1. CASE v = w
      <4> DEFINE op == [ops[w] EXCEPT !.row = None]
      <4>1. HandKept(op)
        BY <2>1, <2>2, DropsRow DEF HandKept
      <4>2. ops'[v] = Left(op)
        BY <2>1, <3>1
      <4> HIDE DEF op, HandKept
      <4>3. QED
        BY <1>1, <2>8, <4>1, <4>2 DEF Left
    <3>2. CASE v # w
      <4>1. ops'[v] = Passed(v, <<e, d>>)
        BY <2>1, <3>2
      <4>2. CASE ops'[v] = ops[v]
        BY <2>8, <4>2 DEF Kept
      <4>3. CASE ops'[v] # ops[v]
        <5> DEFINE op == [ops[v] EXCEPT !.row.raced = TRUE]
        <5>1. ops[v] \in {Idle} \cup JobOp \cup StaffOp
          BY DEF Types, Jobs, OpTypes
        <5>2. ops'[v] = op /\ ops[v] \in RowsOp /\ ops[v].row # None
          BY <4>1, <4>3, <5>1, WhoRecomputes DEF Passed, InHand
        <5>3. ops[v] \in TodayOp \cup EachOp
          BY <5>2 DEF RowsOp, SnapshotOp
        <5>4. op.row.record = ops[v].row.record /\ op.plan = ops[v].plan /\ (op \in TodayOp => ops[v] \in TodayOp)
          BY <5>2, <5>3, RacedRow
        <5> HIDE DEF op
        <5>5. HandKept(ops[v])
          BY <5>2 DEF Kept
        <5>6. QED
          BY <5>2, <5>4, <5>5 DEF HandKept
      <4>4. QED
        BY <4>2, <4>3
    <3>3. QED
      BY <3>1, <3>2
  <2>9. QED
    BY <2>5, <2>6, <2>7, <2>8 DEF Kept, RowKept, HandKept
<1>8. ASSUME NEW w \in Worker, Reassign(w)
      PROVE  Kept'
  <2>1. PICK moved, owner, pairs, todo : HandedOver(w, moved, owner, pairs, todo)
    BY <1>8, ReassignsShots
  <2>2. /\ UNCHANGED <<now, policies, assignments, records>> /\ settled' \subseteq settled
        /\ \A k \in Shot : shots'[k] = shots[k] \/ (shots[k] # None /\ shots'[k] = [shots[k] EXCEPT !.emp = owner[k]])
    BY <2>1 DEF HandedOver
  <2>3. \A k \in Shot : shots'[k] # None => shots'[k].at <= now
    BY <2>2 DEF Kept, Types, AttendanceTypes, ShotRow
  <2>4. ASSUME NEW v \in Worker, ops'[v] \in RowsOp
        PROVE  HandKept(ops'[v])
    <3>1. CASE v = w
      <4>1. ops'[v] = Left(Recompute("rematch", todo)) \/ ops'[v] = Idle
        BY <2>1, <3>1 DEF HandedOver
      <4>2. ops'[v] = Recompute("rematch", todo)
        BY <1>1, <2>4, <4>1 DEF Left
      <4>3. Recompute("rematch", todo) \in EachOp /\ Recompute("rematch", todo).row = None
        <5>1. todo \in SUBSET Pairs
          BY <2>1 DEF HandedOver
        <5>2. QED
          BY <5>1, FirstOps DEF Types, Jobs, Recompute
      <4>4. QED
        BY <4>2, <4>3, RowsOps DEF HandKept
    <3>2. CASE v # w
      <4>1. ops'[v] = Spoiled(ops[v], pairs, FALSE)
        BY <2>1, <3>2 DEF HandedOver
      <4>2. ops[v] \in {Idle} \cup JobOp \cup StaffOp
        BY DEF Types, Jobs, OpTypes
      <4>3. Same(ops[v], Spoiled(ops[v], pairs, FALSE))
        BY <4>2, SpoiledStays DEF Same
      <4>4. Same(ops[v], ops'[v])
        BY <4>1, <4>3
      <4>5. ops[v] \in RowsOp => HandKept(ops[v])
        BY DEF Kept
      <4>6. QED
        BY <2>4, <4>4, <4>5 DEF Same, HandKept
    <3>3. QED
      BY <3>1, <3>2
  <2>5. QED
    BY <2>2, <2>3, <2>4 DEF Kept, RowKept, HandKept
<1>9. QED
  BY <1>2, <1>3, <1>4, <1>5, <1>6, <1>7, <1>8 DEF Recomputing

LEMMA OtherKeeps ==
    ASSUME Types, Kept, Reports \/ Others \/ UNCHANGED vars
    PROVE  Kept'
<1>1. UNCHANGED attendanceVars
  BY ReportsFrame, Zenon DEF Others, TimePasses, Abandon, Crash, vars
<1>2. UNCHANGED <<shots, policies, assignments, records, settled>>
  BY <1>1 DEF attendanceVars, inputs
<1>3. now \in Nat /\ now' \in {now, now + 1}
  <2>1. now' = now \/ now' = now + 1
    BY ReportsFrame, Zenon DEF Others, TimePasses, Abandon, Crash, vars
  <2>2. QED
    BY <2>1, TimesAre DEF Types, Jobs, JobTypes
<1>4. \A k \in Shot : shots[k] # None => shots[k].at \in Nat
  BY TimesAre DEF Types, AttendanceTypes, ShotRow
<1>5. \A k \in Shot : shots'[k] # None => shots'[k].at <= now'
  BY <1>2, <1>3, <1>4 DEF Kept
<1>6. ASSUME NEW w \in Worker, ops'[w] \in RowsOp
      PROVE  HandKept(ops'[w])
  <2>1. ops'[w] = ops[w] \/ ops'[w] = Today
    <3>1. CASE Reports
      BY <1>6, <3>1, ReportsStaff, RowsOps
    <3>2. CASE ~Reports
      <4>1. ops'[w] = ops[w] \/ ops'[w] \in {Idle, Today}
        BY <3>2 DEF Others, TimePasses, Abandon, Done, Put, Crash, vars, Types, Jobs, OpTypes
      <4>2. QED
        BY <1>6, <4>1, RowsOps
    <3>3. QED
      BY <3>1, <3>2
  <2>2. Today \in SnapshotOp
    BY FirstOps DEF Types, Jobs
  <2>3. HandKept(Today)
    BY <2>2, RowsOps DEF HandKept, SnapshotOp
  <2>4. QED
    BY <1>6, <2>1, <2>3 DEF Kept
<1>7. QED
  BY <1>2, <1>5, <1>6 DEF Kept, RowKept, HandKept

(***************************************************************************)
(* What a step does to a run and to a schedule.                            *)
(***************************************************************************)
Exists(r) == runs[r] \notin {None, Gone}

LEMMA RunChanges ==
    ASSUME Jobs, Reports, NEW r \in Run
    PROVE  \/ runs'[r] = runs[r]
           \/ /\ runs[r] = None /\ r = NewRun
              /\ \E w \in Worker, s \in Schedule, due \in Time \cup {None}, rest \in Queue \cup {None} :
                    FreshRun(w, s, due, rest)
           \/ Exists(r) /\ runs'[r] = Gone /\ DeleteSchedule(runs[r].schedule)
           \/ runs'[r] = Gone /\ \E w \in Worker : SweepRows(w) /\ ops[w] \in SweepOp /\ r \in ops[w].rows
           \/ /\ Exists(r)
              /\ \E w \in Worker : /\ Finish(w) /\ ops[w] \in RunOp /\ ops[w].run = r
                                   /\ runs'[r] = Record(runs[r], ops[w])
<1> SUFFICES ASSUME runs'[r] # runs[r]
             PROVE  \/ /\ runs[r] = None /\ r = NewRun
                       /\ \E w \in Worker, s \in Schedule, due \in Time \cup {None}, rest \in Queue \cup {None} :
                             FreshRun(w, s, due, rest)
                    \/ Exists(r) /\ runs'[r] = Gone /\ DeleteSchedule(runs[r].schedule)
                    \/ runs'[r] = Gone /\ \E w \in Worker : SweepRows(w) /\ ops[w] \in SweepOp /\ r \in ops[w].rows
                    \/ /\ Exists(r)
                       /\ \E w \in Worker : /\ Finish(w) /\ ops[w] \in RunOp /\ ops[w].run = r
                                            /\ runs'[r] = Record(runs[r], ops[w])
  OBVIOUS
<1>1. CASE \E s \in Schedule : DeleteSchedule(s)
  <2>1. PICK s \in Schedule : DeleteSchedule(s)
    BY <1>1
  <2>2. runs'[r] = IF runs[r] \notin {None, Gone} /\ runs[r].schedule = s THEN Gone ELSE runs[r]
    BY <2>1 DEF DeleteSchedule
  <2>3. QED
    BY <2>1, <2>2 DEF Exists
<1>2. ASSUME NEW w \in Worker, (\E s \in Schedule : RunNow(w, s)) \/ StartDue(w)
      PROVE  /\ runs[r] = None /\ r = NewRun
             /\ \E s \in Schedule, due \in Time \cup {None}, rest \in Queue \cup {None} :
                    FreshRun(w, s, due, rest)
  <2>1. ops'[w] \in RunOp
    <3>1. CASE \E s \in Schedule : RunNow(w, s)
      <4>1. PICK s \in Schedule : RunNow(w, s)
        BY <3>1
      <4>2. Started(s, NewRun, None, None) \in RunOp
        BY <4>1, StartedRun DEF RunNow, Insert
      <4>3. ops'[w] = Started(s, NewRun, None, None)
        BY <4>1, OpStep DEF RunNow, Begin, Jobs
      <4>4. QED
        BY <4>2, <4>3
    <3>2. CASE StartDue(w)
      <4> DEFINE s == ops[w].rest[1].id
                 due == ops[w].rest[1].due
                 rest == Tail(ops[w].rest)
      <4>1. ops[w] \in DueOp
        BY <3>2, Stages DEF StartDue, Jobs
      <4>2. s \in Schedule /\ due \in Time /\ rest \in Queue
        BY <4>1, TailIs DEF DueOp
      <4>3. Listed(s)
        BY <3>2 DEF StartDue
      <4>4. ops' = [ops EXCEPT ![w] = Started(s, NewRun, due, rest)] /\ Insert(s, NewRun)
        BY <3>2, <4>3 DEF StartDue, Put
      <4>5. Started(s, NewRun, due, rest) \in RunOp
        BY <4>2, <4>3, <4>4, StartedRun DEF Insert
      <4>6. ops'[w] = Started(s, NewRun, due, rest)
        BY <4>4, OpStep DEF Jobs
      <4>7. QED
        BY <4>5, <4>6
    <3>3. QED
      BY <1>2, <3>1, <3>2
  <2>2. PICK s \in Schedule, due \in Time \cup {None}, rest \in Queue \cup {None} : FreshRun(w, s, due, rest)
    BY <1>2, <2>1, FreshRuns
  <2>3. r = NewRun
    BY <2>2, FreshRow
  <2>4. QED
    BY <2>2, <2>3 DEF FreshRun
<1>3. ASSUME NEW w \in Worker, Finish(w)
      PROVE  Exists(r) /\ ops[w] \in RunOp /\ ops[w].run = r /\ runs'[r] = Record(runs[r], ops[w])
  <2>1. ops[w] \in RunOp
    BY <1>3, Stages DEF Finish, Jobs
  <2>2. runs' = IF runs[ops[w].run] = Gone THEN runs
                ELSE [runs EXCEPT ![ops[w].run] = Record(runs[ops[w].run], ops[w])]
    BY <1>3 DEF Finish
  <2>3. runs[ops[w].run] # Gone /\ ops[w].run = r
    BY <2>2 DEF Jobs, JobTypes
  <2>4. runs[r] # None
    BY <2>1, <2>3 DEF Jobs, KnownRuns
  <2>5. QED
    BY <2>1, <2>2, <2>3, <2>4 DEF Jobs, JobTypes, Exists
<1>4. ASSUME NEW w \in Worker, SweepRows(w)
      PROVE  runs'[r] = Gone /\ ops[w] \in SweepOp /\ r \in ops[w].rows
  <2>1. ops[w] \in SweepOp
    BY <1>4, Stages DEF SweepRows, Jobs
  <2>2. runs'[r] = IF r \in ops[w].rows THEN Gone ELSE runs[r]
    BY <1>4 DEF SweepRows
  <2>3. QED
    BY <2>1, <2>2
<1>5. QED
  BY <1>1, <1>2, <1>3, <1>4, Writers

LEMMA ScheduleChanges ==
    ASSUME Jobs, Reports, NEW s \in Schedule
    PROVE  \/ schedules'[s] = schedules[s]
           \/ /\ schedules[s] = None /\ schedules'[s] \in ScheduleRow
              /\ schedules'[s].next = NextRun(schedules'[s].cron, now)
              /\ UNCHANGED <<overtaken, ops, mailed>>
           \/ /\ Listed(s) /\ schedules'[s] \in ScheduleRow
              /\ schedules'[s].next = NextRun(schedules'[s].cron, now)
              /\ overtaken' = Patched(s) /\ UNCHANGED <<ops, mailed>>
           \/ /\ Listed(s) /\ schedules'[s] \in ScheduleRow
              /\ schedules'[s].cron = schedules[s].cron /\ schedules'[s].next = schedules[s].next
           \/ schedules'[s] = Gone /\ DeleteSchedule(s)
           \/ /\ Listed(s) /\ schedules'[s] \in ScheduleRow
              /\ \E w \in Worker : /\ Finish(w) /\ ops[w] \in RunOp /\ ops[w].about = s
                                   /\ schedules'[s].cron = schedules[s].cron
                                   /\ schedules'[s].next = NextRun(ops[w].cron, now)
<1> DEFINE created == /\ schedules[s] = None /\ schedules'[s] \in ScheduleRow
                      /\ schedules'[s].next = NextRun(schedules'[s].cron, now)
                      /\ UNCHANGED <<overtaken, ops, mailed>>
           patched == /\ Listed(s) /\ schedules'[s] \in ScheduleRow
                      /\ schedules'[s].next = NextRun(schedules'[s].cron, now)
                      /\ overtaken' = Patched(s) /\ UNCHANGED <<ops, mailed>>
           edited  == /\ Listed(s) /\ schedules'[s] \in ScheduleRow
                      /\ schedules'[s].cron = schedules[s].cron /\ schedules'[s].next = schedules[s].next
           served(w) == /\ Finish(w) /\ ops[w] \in RunOp /\ ops[w].about = s
                        /\ schedules'[s].cron = schedules[s].cron
                        /\ schedules'[s].next = NextRun(ops[w].cron, now)
<1>1. now \in Nat
  BY TimesAre DEF Jobs, JobTypes
<1>2. ASSUME NEW x \in Schedule, NEW row, schedules' = [schedules EXCEPT ![x] = row]
      PROVE  (x = s /\ schedules'[s] = row) \/ schedules'[s] = schedules[s]
  BY <1>2 DEF Jobs, JobTypes
<1>3. ASSUME NEW x \in Schedule, NEW cron \in Cron, PatchCron(x, cron)
      PROVE  schedules'[s] = schedules[s] \/ patched
  <2> DEFINE row == Reschedule(schedules[x], cron)
  <2>1. Listed(x) /\ schedules' = [schedules EXCEPT ![x] = row] /\ overtaken' = Patched(x)
        /\ UNCHANGED <<ops, mailed>>
    BY <1>3 DEF PatchCron, Jobs, JobTypes
  <2>2. row \in ScheduleRow /\ row.cron = cron /\ row.next = NextRun(cron, now)
    BY <1>1, <2>1, ScheduleRows, RescheduledRow DEF Jobs
  <2> HIDE DEF row
  <2>3. QED
    BY <1>2, <2>1, <2>2
<1>4. ASSUME NEW x \in Schedule, NEW cron \in Cron, NEW sends \in BOOLEAN, CreateSchedule(x, cron, sends)
      PROVE  schedules'[s] = schedules[s] \/ created
  <2> DEFINE next == NextRun(cron, now)
             row == [cron |-> cron, active |-> TRUE, sends |-> sends, next |-> next]
  <2>1. schedules[x] = None /\ schedules' = [schedules EXCEPT ![x] = row] /\ UNCHANGED <<overtaken, ops, mailed>>
    BY <1>4 DEF CreateSchedule
  <2>2. next \in Nat
    BY <1>1, NextRunIs
  <2> HIDE DEF next
  <2>3. row \in ScheduleRow /\ row.cron = cron /\ row.next = next
    BY <2>2 DEF ScheduleRow
  <2> HIDE DEF row
  <2>4. QED
    BY <1>2, <2>1, <2>3 DEF next
<1>5. ASSUME NEW x \in Schedule, NEW active \in BOOLEAN, NEW sends \in BOOLEAN, PatchSchedule(x, active, sends)
      PROVE  schedules'[s] = schedules[s] \/ edited
  <2> DEFINE row == [schedules[x] EXCEPT !.active = active, !.sends = sends]
  <2>1. Listed(x) /\ schedules' = [schedules EXCEPT ![x] = row]
    BY <1>5 DEF PatchSchedule, Jobs, JobTypes
  <2>2. row \in ScheduleRow /\ row.cron = schedules[x].cron /\ row.next = schedules[x].next
    BY <2>1, ScheduleRows DEF ScheduleRow, Jobs
  <2> HIDE DEF row
  <2>3. QED
    BY <1>2, <2>1, <2>2
<1>6. ASSUME NEW x \in Schedule, DeleteSchedule(x)
      PROVE  schedules'[s] = schedules[s] \/ (schedules'[s] = Gone /\ DeleteSchedule(s))
  <2>1. schedules' = [schedules EXCEPT ![x] = Gone]
    BY <1>6 DEF DeleteSchedule
  <2>2. QED
    BY <1>2, <1>6, <2>1
<1>7. ASSUME NEW w \in Worker, Finish(w)
      PROVE  schedules'[s] = schedules[s] \/ (Listed(s) /\ schedules'[s] \in ScheduleRow /\ served(w))
  <2>1. ops[w] \in RunOp
    BY <1>7, Stages DEF Finish, Jobs
  <2> DEFINE x == ops[w].about
             row == [schedules[x] EXCEPT !.next = NextRun(ops[w].cron, now)]
  <2>2. x \in Schedule /\ ops[w].cron \in Cron
    BY <2>1 DEF RunOp
  <2>3. CASE Listed(x)
    <3>1. row \in ScheduleRow /\ row.cron = schedules[x].cron /\ row.next = NextRun(ops[w].cron, now)
      BY <1>1, <2>2, <2>3, ScheduleRows, AdvancedRow DEF Jobs
    <3>2. schedules' = [schedules EXCEPT ![x] = row]
      BY <1>7, <2>2, <2>3 DEF Finish, Advance, Jobs, JobTypes
    <3> HIDE DEF row
    <3>3. QED
      BY <1>2, <1>7, <2>1, <2>2, <2>3, <3>1, <3>2
  <2>4. CASE ~Listed(x)
    BY <1>7, <2>4 DEF Finish
  <2>5. QED
    BY <2>3, <2>4
<1> HIDE DEF created, patched, edited, served
<1>8. schedules'[s] = schedules[s] \/ created \/ patched \/ edited \/ (schedules'[s] = Gone /\ DeleteSchedule(s))
      \/ (Listed(s) /\ schedules'[s] \in ScheduleRow /\ \E w \in Worker : served(w))
  BY <1>3, <1>4, <1>5, <1>6, <1>7, Writers
<1>9. QED
  BY <1>8 DEF created, patched, edited, served

LEMMA KindOf ==
    ASSUME NEW op \in {Idle} \cup JobOp
    PROVE  /\ op.next = "idle" => op = Idle
           /\ op.next \in {"build", "deliver", "finish"} <=> op \in RunOp
           /\ op.next = "export" <=> op \in ExportOp
           /\ op.next = "record" <=> op \in RecordOp
           /\ op.next = "scan" <=> op \in ScanOp
           /\ op.next = "due" <=> op \in DueOp
           /\ op.next = "sweep" <=> op \in SweepOp
<1>1. Idle.next = "idle"
  BY DEF Idle
<1>2. /\ \A x \in RunOp : x.next \in {"build", "deliver", "finish"}
      /\ \A x \in ExportOp : x.next = "export"
      /\ \A x \in RecordOp : x.next = "record"
      /\ \A x \in ScanOp : x.next = "scan"
      /\ \A x \in DueOp : x.next = "due"
      /\ \A x \in SweepOp : x.next = "sweep"
  BY DEF RunOp, ExportOp, RecordOp, ScanOp, DueOp, SweepOp
<1>3. QED
  BY <1>1, <1>2 DEF JobOp

(* What a step of the reports makes of a job. *)
LEMMA JobSteps ==
    ASSUME Jobs, Reports, NEW v \in Worker, ops'[v] # ops[v]
    PROVE  \/ (\E s \in Schedule : RunNow(v, s)) /\ ops[v] = Idle /\ ops'[v] \in RunOp
           \/ (Build(v) \/ Deliver(v)) /\ ops[v] \in RunOp /\ ops'[v] \in RunOp
           \/ /\ Finish(v) /\ ops[v] \in RunOp
              /\ ops'[v] = Idle \/ (ops'[v] \in DueOp /\ ops'[v].rest = ops[v].rest)
           \/ StartDue(v) /\ ops[v] \in DueOp /\ ops'[v] \in RunOp
           \/ Tick(v) /\ ops[v] = Idle /\ ops'[v] \in ExportOp \cup ScanOp /\ ops'[v].rest = <<>>
           \/ Scan(v) /\ ops[v] \in ScanOp /\ ops'[v] \in {Idle} \cup DueOp
           \/ ExportNow(v) /\ ops[v] = Idle /\ ops'[v] \in ExportOp /\ ops'[v].rest = None
           \/ /\ RereadConfig(v) /\ ops[v] \in ExportOp
              /\ ops'[v] \in RecordOp /\ ops'[v].due = NextExport /\ ops'[v].rest = ops[v].rest
           \/ /\ RecordExport(v) /\ ops[v] \in RecordOp
              /\ ops'[v] = Idle \/ (ops[v].rest # None /\ ops'[v] \in ScanOp)
           \/ /\ SweepFiles(v) /\ ops[v] = Idle
              /\ ops'[v] \in SweepOp /\ ops'[v].rows = {r \in Run : runs[r] \notin {None, Gone} /\ Swept(r)}
           \/ SweepRows(v) /\ ops[v] \in SweepOp /\ ops'[v] = Idle
           \/ /\ FinishFails(v) /\ ops[v] \in RunOp
              /\ ops'[v] = Idle \/ (ops'[v] \in DueOp /\ ops'[v].rest = ops[v].rest)
           \/ /\ SkipDue(v) /\ ops[v] \in DueOp
              /\ ops'[v] = Idle \/ (ops'[v] \in DueOp /\ ops'[v].rest = Tail(ops[v].rest))
           \/ /\ ExportFails(v) /\ ops[v] \in ExportOp \cup RecordOp
              /\ ops'[v] = Idle \/ (ops[v].rest # None /\ ops'[v] \in ScanOp)
<1>1. \/ \E s \in Schedule : RunNow(v, s)
      \/ Build(v) \/ Deliver(v) \/ Finish(v)
      \/ Tick(v) \/ Scan(v) \/ StartDue(v) \/ ExportNow(v) \/ RereadConfig(v)
      \/ RecordExport(v) \/ SweepFiles(v) \/ SweepRows(v) \/ Falls(v)
  BY Actor
<1>2. ops'[v] \in {Idle} \cup JobOp
  BY ReportsMove DEF JobsMove
<1>3. ASSUME NEW op, ops' = [ops EXCEPT ![v] = op]
      PROVE  ops'[v] = op
  BY <1>3, OpStep DEF Jobs
<1>4. Idle.next = "idle" /\ \A rest : Export(rest).next = "export" /\ Export(rest).rest = rest
  BY DEF Idle, Export
<1>5. CASE \E s \in Schedule : RunNow(v, s)
  <2>1. ops[v] = Idle
    BY <1>5, Stages DEF RunNow, Begin, Jobs
  <2>2. PICK s \in Schedule : RunNow(v, s)
    BY <1>5
  <2>3. ops'[v] = Started(s, NewRun, None, None)
    BY <1>3, <2>2 DEF RunNow, Begin
  <2>4. ops'[v].next = "build"
    BY <2>3 DEF Started
  <2>5. QED
    BY <1>2, <1>5, <2>1, <2>4, KindOf
<1>6. CASE Build(v) \/ Deliver(v)
  <2>1. ops[v] \in RunOp
    BY <1>6, Stages DEF Build, Deliver, Jobs
  <2>2. ops'[v].next \in {"deliver", "finish"}
    <3>1. CASE Build(v)
      <4> DEFINE next == IF ops[v].sends THEN "deliver" ELSE "finish"
      <4>1. \/ ops'[v] = [ops[v] EXCEPT !.file = TRUE, !.next = next]
            \/ ops'[v] = [ops[v] EXCEPT !.next = "finish"]
        BY <3>1, <1>3 DEF Build, Put
      <4>2. next \in {"deliver", "finish"}
        OBVIOUS
      <4> HIDE DEF next
      <4>3. QED
        BY <2>1, <4>1, <4>2 DEF RunOp
    <3>2. CASE Deliver(v)
      <4>1. \E mode \in {"attached", "link"} :
                \/ ops'[v] = [ops[v] EXCEPT !.mode = mode, !.ok = TRUE, !.next = "finish"]
                \/ ops'[v] = [ops[v] EXCEPT !.mode = mode, !.next = "finish"]
        BY <3>2, <1>3 DEF Deliver, Put
      <4>2. QED
        BY <2>1, <4>1 DEF RunOp
    <3>3. QED
      BY <1>6, <3>1, <3>2
  <2>3. QED
    BY <1>2, <1>6, <2>1, <2>2, KindOf
<1>7. CASE Finish(v)
  <2>1. ops[v] \in RunOp
    BY <1>7, Stages DEF Finish, Jobs
  <2> DEFINE op == [next |-> "due", rest |-> ops[v].rest]
  <2>2. ops'[v] = Idle \/ ops'[v] = op
    BY <1>3, <1>7, Zenon DEF Finish, Put, AfterRun
  <2>3. op.next = "due" /\ op.rest = ops[v].rest
    OBVIOUS
  <2> HIDE DEF op
  <2>4. QED
    BY <1>2, <1>7, <2>1, <2>2, <2>3, KindOf
<1>8. CASE StartDue(v)
  <2>1. ops[v] \in DueOp
    BY <1>8, Stages DEF StartDue, Jobs
  <2>2. PICK s, due : ops'[v] = Started(s, NewRun, due, Tail(ops[v].rest))
    BY <1>3, <1>8, Zenon DEF StartDue, Put
  <2>3. ops'[v].next = "build"
    BY <2>2 DEF Started
  <2>4. QED
    BY <1>2, <1>8, <2>1, <2>3, KindOf
<1>9. CASE Tick(v)
  <2>1. ops[v] = Idle
    BY <1>9, Stages DEF Tick, Begin, Jobs
  <2>2. ops'[v] = Export(<<>>) \/ ops'[v] = [next |-> "scan", rest |-> <<>>]
    BY <1>3, <1>9, Zenon DEF Tick, Begin
  <2>3. ops'[v].next \in {"export", "scan"} /\ ops'[v].rest = <<>>
    BY <1>4, <2>2
  <2>4. QED
    BY <1>2, <1>9, <2>1, <2>3, KindOf
<1>10. CASE Scan(v)
  <2>1. ops[v] \in ScanOp
    BY <1>10, Stages DEF Scan, Jobs
  <2>2. PICK queue \in [1 .. Cardinality(Due) -> [id : Due, due : Time]] :
               Put(v, IF queue = <<>> THEN Idle ELSE [next |-> "due", rest |-> queue])
    BY <1>10 DEF Scan
  <2>3. ops'[v] = Idle \/ ops'[v] = [next |-> "due", rest |-> queue]
    BY <1>3, <2>2, Zenon DEF Put
  <2>4. ops'[v] = Idle \/ ops'[v].next = "due"
    BY <2>3
  <2>5. QED
    BY <1>2, <1>10, <2>1, <2>4, KindOf
<1>11. CASE ExportNow(v)
  <2>1. ops[v] = Idle /\ ops'[v] = Export(None)
    BY <1>3, <1>11, Stages DEF ExportNow, Begin, Jobs
  <2>2. QED
    BY <1>2, <1>4, <1>11, <2>1, KindOf
<1>12. CASE RereadConfig(v)
  <2>1. ops[v] \in ExportOp
    BY <1>12, Stages DEF RereadConfig, Jobs
  <2>2. ops'[v] = [next |-> "record", about |-> "erp", due |-> NextExport, rest |-> ops[v].rest]
    BY <1>3, <1>12, Zenon DEF RereadConfig, Put
  <2>3. ops'[v].next = "record" /\ ops'[v].due = NextExport /\ ops'[v].rest = ops[v].rest
    BY <2>2
  <2>4. QED
    BY <1>2, <1>12, <2>1, <2>3, KindOf
<1>13. CASE RecordExport(v)
  <2>1. ops[v] \in RecordOp
    BY <1>13, Stages DEF RecordExport, Jobs
  <2>2. \/ ops'[v] = Idle
        \/ ops[v].rest # None /\ ops'[v] = [next |-> "scan", rest |-> <<>>]
    BY <1>3, <1>13, Zenon DEF RecordExport, Put
  <2>3. QED
    BY <1>2, <1>13, <2>1, <2>2, KindOf
<1>14. CASE SweepFiles(v)
  <2> DEFINE old == {r \in Run : runs[r] \notin {None, Gone} /\ Swept(r)}
  <2>1. ops[v] = Idle /\ ops'[v] = [next |-> "sweep", rows |-> old]
    BY <1>3, <1>14, Stages DEF SweepFiles, Begin, Jobs
  <2> HIDE DEF old
  <2>2. ops'[v].next = "sweep" /\ ops'[v].rows = old
    BY <2>1
  <2>3. QED
    BY <1>2, <1>14, <2>1, <2>2, KindOf DEF old
<1>15. CASE SweepRows(v)
  <2>1. ops[v] \in SweepOp
    BY <1>15, Stages DEF SweepRows, Jobs
  <2>2. ops'[v] = Idle
    BY <1>3, <1>15 DEF SweepRows, Done, Put
  <2>3. QED
    BY <1>15, <2>1, <2>2
<1>16. CASE Falls(v)
  <2>1. \A rest : AfterRun(rest) = Idle \/ AfterRun(rest) = [next |-> "due", rest |-> rest]
    BY DEF AfterRun
  <2>2. ASSUME NEW rest, ops'[v] = AfterRun(rest)
        PROVE  ops'[v] = Idle \/ (ops'[v] \in DueOp /\ ops'[v].rest = rest)
    <3>1. ops'[v] = Idle \/ (ops'[v].next = "due" /\ ops'[v].rest = rest)
      BY <2>1, <2>2
    <3>2. QED
      BY <1>2, <3>1, KindOf
  <2>3. CASE FinishFails(v) /\ ops[v] \in RunOp /\ ops'[v] = AfterRun(ops[v].rest)
    BY <2>2, <2>3
  <2>4. CASE SkipDue(v) /\ ops[v] \in DueOp /\ ops'[v] = AfterRun(Tail(ops[v].rest))
    BY <2>2, <2>4
  <2>5. CASE /\ ExportFails(v) /\ ops[v] \in ExportOp \cup RecordOp
             /\ ops'[v] = IF ops[v].rest = None THEN Idle ELSE [next |-> "scan", rest |-> <<>>]
    BY <2>5 DEF ScanOp
  <2>6. QED
    BY <1>16, <2>3, <2>4, <2>5, Fallen
<1>17. QED
  BY <1>1, <1>5, <1>6, <1>7, <1>8, <1>9, <1>10, <1>11, <1>12, <1>13, <1>14, <1>15, <1>16

(* The other steps leave the jobs alone, but for a crash and for a scan or *)
(* a sweep that raises.                                                    *)
LEMMA OtherJobs ==
    ASSUME Types, [Next]_vars, ~Reports
    PROVE  /\ UNCHANGED <<schedules, runs, disk, mailed, links, email, erp, overtaken, unrecorded>>
           /\ now' \in {now, now + 1}
           /\ \A w \in Worker : ops'[w] \in JobOp => ops'[w] = ops[w]
           /\ crashed => crashed'
           /\ crashed' \/ \A w \in Worker : ops[w] \in JobOp =>
                  ops'[w] = ops[w] \/ (ops[w] \in ScanOp \cup SweepOp /\ ops'[w] = Idle)
<1>1. CASE Pages \/ Recomputing
  <2>1. UNCHANGED <<now, jobVars, crashed, unrecorded>> /\ StaffMove
    BY <1>1, StaffFrame, StaffTypes
  <2>2. \A op \in JobOp : op \notin {Idle} \cup StaffOp
    BY RowsOps, KindOf DEF JobOp, Idle
  <2>3. QED
    BY <2>1, <2>2 DEF StaffMove, jobVars
<1>2. CASE ~Pages /\ ~Recomputing
  <2>1. Others \/ UNCHANGED vars
    BY <1>2 DEF Next, Others
  <2>2. Today \notin JobOp /\ Idle \notin JobOp
    <3>1. Today \in SnapshotOp
      BY FirstOps DEF Types, Jobs
    <3>2. Idle \notin JobOp
      BY RowKinds DEF JobOp, RunOp, ExportOp, RecordOp, ScanOp, DueOp, SweepOp, Idle
    <3>3. QED
      BY <3>1, <3>2, RowKinds
  <2>3. CASE TimePasses \/ UNCHANGED vars
    BY <2>3 DEF TimePasses, vars, jobVars
  <2>4. CASE \E w \in Worker : Crash(w)
    BY <2>2, <2>4 DEF Crash, jobVars
  <2>5. ASSUME NEW w \in Worker, Abandon(w)
        PROVE  /\ UNCHANGED <<now, jobVars, crashed, unrecorded>>
               /\ ops'[w] = Idle /\ ops[w] \in ScanOp \cup SweepOp \cup StaffOp
               /\ \A v \in Worker : v # w => ops'[v] = ops[v]
    <3>1. UNCHANGED <<now, jobVars, crashed, unrecorded>> /\ ops' = [ops EXCEPT ![w] = Idle]
      BY <2>5 DEF Abandon, Done, Put
    <3>2. ops[w] \in ScanOp \cup SweepOp \cup StaffOp
      BY <2>5, Stages, RowsOps DEF Abandon, At, Types, Jobs
    <3>3. QED
      BY <3>1, <3>2, OpStep DEF Types, Jobs
  <2>6. CASE \E w \in Worker : Abandon(w)
    <3>1. \A op \in StaffOp : op \notin JobOp
      BY RowsOps
    <3>2. QED
      BY <2>2, <2>5, <2>6, <3>1 DEF jobVars
  <2>7. QED
    BY <2>1, <2>3, <2>4, <2>6 DEF Others
<1>3. QED
  BY <1>1, <1>2

LEMMA RunsNotDropped ==
    ASSUME Types, [Next]_vars, ~Reports
    PROVE  crashed' \/ \A w \in Worker : ops[w] \in RunOp => ops'[w] = ops[w]
<1>1. \A op \in RunOp : op \in JobOp /\ op \notin ScanOp \cup SweepOp
  BY DEF JobOp, RunOp, ScanOp, SweepOp
<1>2. QED
  BY <1>1, OtherJobs

RunsKept ==
    /\ \A r \in Run : Exists(r) => Listed(runs[r].schedule)
    /\ \A r \in disk : runs[r] # None
    /\ \A link \in links : runs[link[1]] # None

LEMMA RunsStayKept ==
    ASSUME Types, RunsKept, [Next]_vars
    PROVE  RunsKept'
<1>1. CASE ~Reports
  BY <1>1, OtherJobs DEF RunsKept, Exists, Listed
<1>2. CASE Reports
  <2>1. Jobs
    BY DEF Types
  <2>2. ASSUME NEW r \in Run, runs'[r] \notin {None, Gone}
        PROVE  schedules'[runs'[r].schedule] \notin {None, Gone}
    <3>1. ASSUME NEW s \in Schedule, Listed(s), ~DeleteSchedule(s)
          PROVE  schedules'[s] \notin {None, Gone}
      <4>1. None \notin ScheduleRow /\ Gone \notin ScheduleRow
        BY NoneAssumption
      <4>2. QED
        BY <1>2, <2>1, <3>1, <4>1, ScheduleChanges DEF Listed
    <3>2. CASE runs'[r] = runs[r]
      <4>1. Exists(r) /\ runs[r] \in RunRow
        BY <2>1, <2>2, <3>2 DEF Exists, Jobs, JobTypes
      <4>2. runs[r].schedule \in Schedule /\ Listed(runs[r].schedule)
        BY <4>1 DEF RunRow, RunsKept
      <4>3. DeleteSchedule(runs[r].schedule) => runs'[r] = Gone
        BY <4>1 DEF DeleteSchedule, Exists
      <4>4. QED
        BY <2>2, <3>1, <3>2, <4>2, <4>3
    <3>3. ASSUME NEW w \in Worker, NEW s \in Schedule, NEW due, NEW rest, FreshRun(w, s, due, rest), r = NewRun
          PROVE  schedules'[runs'[r].schedule] \notin {None, Gone}
      BY <2>1, <3>3, FreshRow DEF FreshRun, Listed
    <3>4. ASSUME NEW w \in Worker, Finish(w), ops[w] \in RunOp, Exists(r), runs'[r] = Record(runs[r], ops[w])
          PROVE  schedules'[runs'[r].schedule] \notin {None, Gone}
      <4>1. runs[r] \in RunRow
        BY <2>1, <3>4 DEF Exists, Jobs, JobTypes
      <4>2. runs[r].schedule \in Schedule /\ Listed(runs[r].schedule)
        BY <3>4, <4>1 DEF RunRow, RunsKept
      <4>3. runs'[r].schedule = runs[r].schedule
        BY <2>1, <3>4, <4>1, RecordedRow DEF Jobs, JobTypes
      <4>4. ASSUME DeleteSchedule(runs[r].schedule)
            PROVE  runs'[r] = Gone
        BY <3>4, <4>4 DEF DeleteSchedule, Exists
      <4>5. QED
        BY <2>2, <3>1, <4>2, <4>3, <4>4
    <3>5. QED
      BY <1>2, <2>1, <2>2, <3>2, <3>3, <3>4, RunChanges
  <2>3. \A r \in disk' : runs'[r] # None
    <3>1. ASSUME NEW w \in Worker, Build(w) \/ SweepFiles(w)
          PROVE  \A r \in disk' : r \in disk \/ (r \in Run /\ runs[r] # None)
      <4>1. CASE Build(w)
        <5>1. ops[w] \in RunOp
          BY <2>1, <4>1, Stages DEF Build, Jobs
        <5>2. disk' = disk \/ disk' = disk \cup {ops[w].run}
          BY <4>1 DEF Build
        <5>3. QED
          BY <2>1, <5>1, <5>2 DEF Jobs, KnownRuns, RunOp
      <4>2. CASE SweepFiles(w)
        BY <4>2 DEF SweepFiles
      <4>3. QED
        BY <3>1, <4>1, <4>2
    <3>2. \A r \in disk' : r \in Run /\ runs[r] # None
      BY <1>2, <2>1, <3>1, Writers DEF RunsKept, Jobs, JobTypes
    <3>3. QED
      BY <1>2, <2>1, <3>2, TablesGrow
  <2>4. \A link \in links' : runs'[link[1]] # None
    <3>1. ASSUME NEW w \in Worker, Deliver(w)
          PROVE  \A link \in links' : link \in links \/ (link[1] \in Run /\ runs[link[1]] # None)
      <4>1. ops[w] \in RunOp
        BY <2>1, <3>1, Stages DEF Deliver, Jobs
      <4>2. links' = links \/ links' = links \cup {<<ops[w].run, now + TokenLife>>}
        BY <3>1 DEF Deliver
      <4>3. QED
        BY <2>1, <4>1, <4>2 DEF Jobs, KnownRuns, RunOp
    <3>2. \A link \in links' : link[1] \in Run /\ runs[link[1]] # None
      <4>1. \A link \in links : link[1] \in Run
        BY <2>1 DEF Jobs, JobTypes
      <4>2. QED
        BY <1>2, <2>1, <3>1, <4>1, Writers DEF RunsKept
    <3>3. QED
      BY <1>2, <2>1, <3>2, TablesGrow
  <2>5. QED
    BY <2>2, <2>3, <2>4 DEF RunsKept, Exists, Listed
<1>3. QED
  BY <1>1, <1>2

LEMMA InitKept == Init => Kept /\ RunsKept
<1> SUFFICES ASSUME Init PROVE Kept /\ RunsKept
  OBVIOUS
<1>1. /\ now = 2 /\ assignments = {} /\ settled = {} /\ disk = {} /\ links = {}
      /\ records = [x \in Employee |-> [d \in Day |-> None]]
      /\ runs = [r \in Run |-> None] /\ ops = [w \in Worker |-> Idle]
  BY Zenon DEF Init
<1>2. ASSUME NEW k \in Shot, shots[k] # None
      PROVE  shots[k].at <= now
  <2> DEFINE a == CHOOSE x \in Shot : TRUE
             b == CHOOSE x \in Shot : x # a
             seen(e) == [x \in Shot |-> IF x = a THEN [at |-> 0, emp |-> e]
                                        ELSE IF x = b THEN [at |-> 2, emp |-> e] ELSE None]
  <2>0. PICK begin \in Beginnings : shots = seen(CHOOSE x \in begin.staff : TRUE)
    BY Zenon DEF Init
  <2> DEFINE e == CHOOSE x \in begin.staff : TRUE
  <2>1. shots = [x \in Shot |-> IF x = a THEN [at |-> 0, emp |-> e]
                                ELSE IF x = b THEN [at |-> 2, emp |-> e] ELSE None]
    BY <2>0
  <2> HIDE DEF a, b, e, seen
  <2>2. shots[k] = IF k = a THEN [at |-> 0, emp |-> e] ELSE IF k = b THEN [at |-> 2, emp |-> e] ELSE None
    BY <2>1
  <2>3. shots[k].at \in {0, 2}
    BY <1>2, <2>2
  <2>4. QED
    BY <1>1, <2>3
<1>3. Kept
  BY <1>1, <1>2, RowsOps DEF Kept
<1>4. RunsKept
  BY <1>1 DEF RunsKept, Exists
<1>5. QED
  BY <1>3, <1>4

(* No row of attendance, and none that a job has in hand, loses the policy *)
(* it names, and no run, file or link what it belongs to: policies and     *)
(* schedules are deleted softly or with the rows that refer to them.       *)
THEOREM RowsAreKept == Spec => [](Types /\ Kept /\ RunsKept)
<1>1. Init => Types /\ Kept /\ RunsKept
  BY InitTypes, InitKept
<1>2. Types /\ Kept /\ RunsKept /\ [Next]_vars => (Types /\ Kept /\ RunsKept)'
  <2>1. ASSUME Types, Kept, [Next]_vars
        PROVE  Types' /\ Kept'
    BY <2>1, StaffTypes, ReportsStaff, OtherTypes, PagesKeep, RecomputingKeeps, OtherKeeps DEF Next, Others
  <2>2. QED
    BY <2>1, RunsStayKept
<1>3. QED
  BY <1>1, <1>2, PTL DEF Spec

(* A record names a policy that has a row and an assignment too; a run in  *)
(* the list has its schedule, and a file or a link belongs to a run that   *)
(* was begun: deletes are soft, or take the rows that refer along.         *)
THEOREM RowsReferToRows == Spec => []TypeOK
<1>1. Types /\ Kept /\ RunsKept => TypeOK
  <2> SUFFICES ASSUME Types, Kept, RunsKept PROVE TypeOK
    OBVIOUS
  <2>1. now \in Time /\ fuel \in [EventKind -> Nat] /\ crashed \in BOOLEAN /\ staff \subseteq Employee
    BY DEF Types, Jobs, JobTypes, AttendanceTypes
  <2>2. \A k \in Shot : shots[k] # None => shots[k].at <= now /\ shots[k].emp \in Employee \cup {None}
    BY DEF Types, AttendanceTypes, ShotRow, Kept
  <2>3. ASSUME NEW e \in Employee, NEW d \in Day, records[e][d] # None
        PROVE  /\ policies[records[e][d].policy] # None
               /\ records[e][d].over >= 0
               /\ records[e][d].absent => records[e][d].in = None
    <3>1. records[e][d] \in RecordRow /\ RowKept(records[e][d])
      BY <2>3 DEF Types, AttendanceTypes, Kept
    <3>2. QED
      BY <3>1 DEF RecordRow, RowKept, Sound
  <2>4. settled \subseteq {x \in Pairs : records[x[1]][x[2]] # None}
    BY DEF Kept, Types, AttendanceTypes
  <2>5. QED
    BY <2>1, <2>2, <2>3, <2>4 DEF TypeOK, Kept, RunsKept, Exists
<1>2. QED
  BY <1>1, RowsAreKept, PTL

(***************************************************************************)
(* Runs that say they are running.                                         *)
(***************************************************************************)
LEMMA FreshOp ==
    ASSUME Jobs, Reports, NEW w \in Worker, NEW s \in Schedule, NEW due, NEW rest, FreshRun(w, s, due, rest)
    PROVE  ops'[w] \in RunOp
<1>1. ops'[w].next = "build"
  BY FreshRow
<1>2. ops[w] \in {Idle} \cup JobOp
  BY DEF FreshRun, JobOp
<1>3. ops'[w] \in {Idle} \cup JobOp
  BY <1>2, ReportsMove DEF JobsMove
<1>4. QED
  BY <1>1, <1>3, KindOf

(* A run in flight goes on or is finished. *)
LEMMA RunGoesOn ==
    ASSUME Jobs, Reports, NEW w \in Worker, ops[w] \in RunOp
    PROVE  \/ ops'[w] = ops[w]
           \/ /\ Build(w) \/ Deliver(w)
              /\ ops'[w] \in RunOp
              /\ \A k \in {"about", "run", "cron", "sends", "due", "rest"} : ops'[w][k] = ops[w][k]
           \/ /\ Finish(w)
              /\ ops'[w] = Idle \/ (ops'[w] \in DueOp /\ ops'[w].rest = ops[w].rest)
              /\ runs[ops[w].run] = Gone \/ runs'[ops[w].run] = Record(runs[ops[w].run], ops[w])
           \/ /\ FinishFails(w)
              /\ ops'[w] = Idle \/ (ops'[w] \in DueOp /\ ops'[w].rest = ops[w].rest)
              /\ [run |-> ops[w].run, about |-> ops[w].about, due |-> ops[w].due] \in unrecorded'
<1> SUFFICES ASSUME ops'[w] # ops[w]
             PROVE  \/ /\ Build(w) \/ Deliver(w)
                       /\ ops'[w] \in RunOp
                       /\ \A k \in {"about", "run", "cron", "sends", "due", "rest"} : ops'[w][k] = ops[w][k]
                    \/ /\ Finish(w)
                       /\ ops'[w] = Idle \/ (ops'[w] \in DueOp /\ ops'[w].rest = ops[w].rest)
                       /\ runs[ops[w].run] = Gone \/ runs'[ops[w].run] = Record(runs[ops[w].run], ops[w])
                    \/ /\ FinishFails(w)
                       /\ ops'[w] = Idle \/ (ops'[w] \in DueOp /\ ops'[w].rest = ops[w].rest)
                       /\ [run |-> ops[w].run, about |-> ops[w].about, due |-> ops[w].due] \in unrecorded'
  OBVIOUS
<1>1. ops[w] # Idle /\ ops[w] \notin DueOp \cup ScanOp \cup ExportOp \cup RecordOp \cup SweepOp
  <2>1. ops[w].next \in {"build", "deliver", "finish"} /\ Idle.next = "idle"
    BY DEF RunOp, Idle
  <2>2. QED
    BY <2>1, KindOf DEF JobOp
<1>2. CASE (Build(w) \/ Deliver(w)) /\ ops'[w] \in RunOp
  <2>1. ~(\E s \in Schedule : RunNow(w, s)) /\ ~StartDue(w)
    <3>1. ops[w].next \in {"build", "deliver", "finish"}
      BY DEF RunOp
    <3>2. QED
      BY <3>1 DEF RunNow, StartDue, Begin, At
  <2>2. QED
    BY <1>2, <2>1, RunSteps
<1>3. CASE Finish(w) /\ (ops'[w] = Idle \/ (ops'[w] \in DueOp /\ ops'[w].rest = ops[w].rest))
  <2>1. runs' = IF runs[ops[w].run] = Gone THEN runs
                ELSE [runs EXCEPT ![ops[w].run] = Record(runs[ops[w].run], ops[w])]
    BY <1>3 DEF Finish
  <2>2. ops[w].run \in Run
    BY DEF RunOp
  <2>3. QED
    BY <1>3, <2>1, <2>2 DEF Jobs, JobTypes
<1>4. CASE FinishFails(w) /\ (ops'[w] = Idle \/ (ops'[w] \in DueOp /\ ops'[w].rest = ops[w].rest))
  BY <1>4 DEF FinishFails
<1>5. QED
  BY <1>1, <1>2, <1>3, <1>4, JobSteps

Carried(r) == \E w \in Worker : ops[w] \in RunOp /\ ops[w].run = r

Alive ==
    \A r \in Run : Exists(r) /\ runs[r].status = "running" =>
        crashed \/ (\E x \in unrecorded : x.run = r) \/ Carried(r)

LEMMA StaysAlive ==
    ASSUME Types, Alive, [Next]_vars
    PROVE  Alive'
<1>1. CASE ~Reports
  <2>1. UNCHANGED <<runs, unrecorded>> /\ (crashed => crashed')
        /\ (crashed' \/ \A w \in Worker : ops[w] \in RunOp => ops'[w] = ops[w])
    BY <1>1, RunsNotDropped, OtherJobs
  <2>2. QED
    BY <2>1 DEF Alive, Exists, Carried
<1>2. CASE Reports
  <2>1. Jobs /\ UNCHANGED crashed /\ unrecorded \subseteq unrecorded'
    BY <1>2, ReportsFrame DEF Types
  <2>2. SUFFICES ASSUME NEW r \in Run, runs'[r] \notin {None, Gone}, runs'[r].status = "running", ~crashed',
                        ~\E x \in unrecorded' : x.run = r
                 PROVE  \E w \in Worker : ops'[w] \in RunOp /\ ops'[w].run = r
    BY DEF Alive, Exists, Carried
  <2>3. CASE runs'[r] = runs[r]
    <3>1. PICK w \in Worker : ops[w] \in RunOp /\ ops[w].run = r
      BY <2>1, <2>2, <2>3 DEF Alive, Exists, Carried
    <3>2. runs[r] \in RunRow
      BY <2>1, <2>2, <2>3 DEF Jobs, JobTypes
    <3>3. runs'[r] # Record(runs[r], ops[w])
      BY <2>1, <2>2, <3>1, <3>2, RecordedRow DEF Jobs, JobTypes
    <3>4. ~FinishFails(w)
      <4>1. FinishFails(w) => [run |-> r, about |-> ops[w].about, due |-> ops[w].due] \in unrecorded'
        BY <3>1 DEF FinishFails
      <4>2. QED
        BY <2>2, <4>1
    <3>5. QED
      BY <1>2, <2>1, <2>2, <2>3, <3>1, <3>3, <3>4, RunGoesOn
  <2>4. ASSUME NEW w \in Worker, NEW s \in Schedule, NEW due, NEW rest, FreshRun(w, s, due, rest), r = NewRun
        PROVE  \E v \in Worker : ops'[v] \in RunOp /\ ops'[v].run = r
    BY <1>2, <2>1, <2>4, FreshOp, FreshRow
  <2>5. ASSUME NEW w \in Worker, ops[w] \in RunOp, Exists(r), runs'[r] = Record(runs[r], ops[w])
        PROVE  FALSE
    <3>1. runs[r] \in RunRow
      BY <2>1, <2>5 DEF Exists, Jobs, JobTypes
    <3>2. QED
      BY <2>1, <2>2, <2>5, <3>1, RecordedRow DEF Jobs, JobTypes
  <2>6. QED
    BY <1>2, <2>1, <2>2, <2>3, <2>4, <2>5, RunChanges
<1>3. QED
  BY <1>1, <1>2

(* Whatever fails while a report is built, stored or mailed, and whichever *)
(* rows are deleted meanwhile, a run that says "running" has its runner,   *)
(* unless the process has died (runner.py run_schedule).                   *)
THEOREM RunnersFinish == Spec => []RunningRunsAreAlive
<1>1. Init => Alive
  <2>1. Init => runs = [r \in Run |-> None]
    BY Zenon DEF Init
  <2>2. QED
    BY <2>1 DEF Alive, Exists
<1>2. Types /\ Alive /\ [Next]_vars => Alive'
  BY StaysAlive
<1>3. Types /\ Alive => RunningRunsAreAlive
  <2>1. \A op \in RunOp : "run" \in DOMAIN op
    BY DEF RunOp
  <2>2. QED
    BY <2>1 DEF Alive, Exists, Carried, RunningRunsAreAlive
<1>4. QED
  BY <1>1, <1>2, <1>3, TypesHold, PTL DEF Spec

(***************************************************************************)
(* Next runs.                                                              *)
(***************************************************************************)
CronsHold ==
    /\ \A w \in Worker : ops[w] \in RunOp /\ ops[w].about \notin overtaken /\ Listed(ops[w].about) =>
          ops[w].cron = schedules[ops[w].about].cron
    /\ \A w \in Worker :
          ops[w] \in RecordOp /\ "erp" \notin overtaken /\ erp.cron # None /\ ops[w].due # None =>
             ops[w].due % erp.cron = 0

LEMMA CarriesIs ==
    ASSUME NEW op
    PROVE  /\ op \in RunOp => Carries(op, op.about)
           /\ op \in RecordOp => Carries(op, "erp")
  BY DEF Carries, RunOp, RecordOp

LEMMA Overtaking ==
    ASSUME Jobs, Reports
    PROVE  /\ \A s \in Schedule : \/ s \in overtaken <=> s \in overtaken'
                                  \/ \E cron \in Cron : PatchCron(s, cron)
           /\ \/ "erp" \in overtaken <=> "erp" \in overtaken'
              \/ \E cron \in Cron \cup {None} : PatchErpCron(cron)
<1>1. CASE UNCHANGED overtaken
  BY <1>1
<1>2. ASSUME NEW s \in Schedule, NEW cron \in Cron, PatchCron(s, cron)
      PROVE  \A x : x # s => (x \in overtaken <=> x \in overtaken')
  BY <1>2, Zenon DEF PatchCron, Patched
<1>3. ASSUME NEW cron \in Cron \cup {None}, PatchErpCron(cron)
      PROVE  \A x : x # "erp" => (x \in overtaken <=> x \in overtaken')
  BY <1>3, Zenon DEF PatchErpCron, Patched
<1>4. QED
  BY <1>1, <1>2, <1>3, ExportAssumption, Writers

LEMMA PatchedErp ==
    ASSUME Jobs, NEW cron \in Cron \cup {None}, PatchErpCron(cron)
    PROVE  erp'.cron # None => erp'.cron \in Cron /\ erp'.next = NextRun(erp'.cron, now)
<1> DEFINE next == IF cron = None THEN erp.next ELSE NextRun(cron, now)
<1>1. erp' = [erp EXCEPT !.cron = cron, !.next = next]
  BY DEF PatchErpCron, Jobs, JobTypes
<1>2. cron # None => next = NextRun(cron, now)
  OBVIOUS
<1> HIDE DEF next
<1>3. erp'.cron = cron /\ erp'.next = next
  BY <1>1 DEF Jobs, JobTypes
<1>4. QED
  BY <1>2, <1>3

LEMMA ErpChanges ==
    ASSUME Jobs, Reports
    PROVE  \/ UNCHANGED <<erp>>
           \/ erp'.cron = erp.cron /\ erp'.next = erp.next
           \/ /\ \E cron \in Cron \cup {None} : PatchErpCron(cron)
              /\ erp'.cron # None => erp'.cron \in Cron /\ erp'.next = NextRun(erp'.cron, now)
           \/ \E w \in Worker : ops[w] \in RecordOp /\ erp'.cron = erp.cron /\ erp'.next = ops[w].due
<1>1. ASSUME NEW enabled \in BOOLEAN, PatchErp(enabled)
      PROVE  erp'.cron = erp.cron /\ erp'.next = erp.next
  BY <1>1 DEF PatchErp, Jobs, JobTypes
<1>2. ASSUME NEW w \in Worker, RecordExport(w)
      PROVE  ops[w] \in RecordOp /\ erp'.cron = erp.cron /\ erp'.next = ops[w].due
  <2>1. ops[w] \in RecordOp
    BY <1>2, Stages DEF RecordExport, Jobs
  <2>2. erp' = [erp EXCEPT !.next = ops[w].due]
    BY <1>2 DEF RecordExport
  <2>3. QED
    BY <2>1, <2>2 DEF Jobs, JobTypes
<1>3. QED
  BY <1>1, <1>2, PatchedErp, Writers

LEMMA CronsStillHold ==
    ASSUME Types, CronsHold, NextRunFollowsCron, [Next]_vars
    PROVE  CronsHold' /\ NextRunFollowsCron'
<1>1. CASE ~Reports
  <2>1. /\ UNCHANGED <<schedules, erp, overtaken>>
        /\ \A w \in Worker : ops'[w] \in JobOp => ops'[w] = ops[w]
    BY <1>1, OtherJobs
  <2>2. QED
    BY <2>1 DEF CronsHold, NextRunFollowsCron, Listed, JobOp
<1>2. CASE Reports
  <2>1. Jobs /\ now \in Nat
    BY TimesAre DEF Types, Jobs, JobTypes
  <2>2. ASSUME NEW s \in Schedule, NEW cron \in Cron, PatchCron(s, cron)
        PROVE  /\ schedules'[s].next % schedules'[s].cron = 0
               /\ \A w \in Worker : ops'[w] = ops[w]
               /\ \A w \in Worker : ops[w] \in RunOp /\ ops[w].about = s => s \in overtaken'
    <3> DEFINE row == Reschedule(schedules[s], cron)
    <3>1. Listed(s) /\ schedules'[s] = row /\ overtaken' = Patched(s) /\ ops' = ops
      BY <2>1, <2>2 DEF PatchCron, Jobs, JobTypes
    <3>2. row.cron = cron /\ row.next = NextRun(cron, now)
      BY <2>1, <3>1, ScheduleRows, RescheduledRow DEF Jobs
    <3> HIDE DEF row
    <3>3. \A w \in Worker : ops[w] \in RunOp /\ ops[w].about = s => s \in overtaken'
      BY <3>1, CarriesIs DEF Patched
    <3>4. NextRun(cron, now) % cron = 0
      BY <2>1, NextRunIs
    <3>5. QED
      BY <3>1, <3>2, <3>3, <3>4
  <2>3. ASSUME NEW s \in Schedule, schedules'[s] \notin {None, Gone}, s \notin overtaken'
        PROVE  /\ schedules'[s].next % schedules'[s].cron = 0
               /\ \A w \in Worker : ops[w] \in RunOp /\ ops[w].about = s => ops[w].cron = schedules'[s].cron
    <3>1. CASE \E cron \in Cron : PatchCron(s, cron)
      BY <2>2, <2>3, <3>1
    <3>2. CASE s \notin overtaken /\ schedules'[s] = schedules[s]
      BY <2>3, <3>2 DEF CronsHold, NextRunFollowsCron, Listed
    <3>3. CASE /\ s \notin overtaken /\ Listed(s) /\ schedules'[s].cron = schedules[s].cron
               /\ schedules'[s].next = schedules[s].next
      BY <2>3, <3>3 DEF CronsHold, NextRunFollowsCron
    <3>4. ASSUME schedules[s] = None, schedules'[s] \in ScheduleRow,
                 schedules'[s].next = NextRun(schedules'[s].cron, now)
          PROVE  /\ schedules'[s].next % schedules'[s].cron = 0
                 /\ \A w \in Worker : ops[w] \in RunOp /\ ops[w].about = s => ops[w].cron = schedules'[s].cron
      <4>1. schedules'[s].cron \in Cron
        BY <3>4 DEF ScheduleRow
      <4>2. schedules'[s].next % schedules'[s].cron = 0
        BY <2>1, <3>4, <4>1, NextRunIs
      <4>3. QED
        BY <2>1, <3>4, <4>2 DEF Jobs, KnownRuns
    <3>5. ASSUME Listed(s), schedules'[s] \in ScheduleRow, overtaken' = Patched(s),
                 schedules'[s].next = NextRun(schedules'[s].cron, now)
          PROVE  /\ schedules'[s].next % schedules'[s].cron = 0
                 /\ \A w \in Worker : ops[w] \in RunOp /\ ops[w].about = s => ops[w].cron = schedules'[s].cron
      <4>1. schedules'[s].cron \in Cron
        BY <3>5 DEF ScheduleRow
      <4>2. schedules'[s].next % schedules'[s].cron = 0
        BY <2>1, <3>5, <4>1, NextRunIs
      <4>3. \A w \in Worker : ops[w] \in RunOp /\ ops[w].about = s => s \in overtaken'
        BY <3>5, CarriesIs DEF Patched
      <4>4. QED
        BY <2>3, <4>2, <4>3
    <3>6. ASSUME s \notin overtaken, Listed(s), NEW w \in Worker, ops[w] \in RunOp, ops[w].about = s,
                 schedules'[s].cron = schedules[s].cron, schedules'[s].next = NextRun(ops[w].cron, now)
          PROVE  /\ schedules'[s].next % schedules'[s].cron = 0
                 /\ \A v \in Worker : ops[v] \in RunOp /\ ops[v].about = s => ops[v].cron = schedules'[s].cron
      <4>1. ops[w].cron \in Cron
        BY <3>6 DEF RunOp
      <4>2. NextRun(ops[w].cron, now) % ops[w].cron = 0
        BY <2>1, <4>1, NextRunIs
      <4>3. QED
        BY <3>6, <4>2 DEF CronsHold
    <3>7. CASE ~(\E cron \in Cron : PatchCron(s, cron))
      <4>1. s \notin overtaken
        BY <1>2, <2>1, <2>3, <3>7, Overtaking
      <4>2. QED
        BY <1>2, <2>1, <2>3, <3>2, <3>3, <3>4, <3>5, <3>6, <4>1, ScheduleChanges
    <3>8. QED
      BY <3>1, <3>7
  <2>4. ASSUME NEW w \in Worker, ops'[w] \in RunOp, ops'[w].about \notin overtaken',
               schedules'[ops'[w].about] \notin {None, Gone}
        PROVE  ops'[w].cron = schedules'[ops'[w].about].cron
    <3>1. ops'[w].about \in Schedule
      BY <2>4 DEF RunOp
    <3>2. CASE ops[w] \in RunOp /\ ops'[w].about = ops[w].about /\ ops'[w].cron = ops[w].cron
      BY <2>3, <2>4, <3>1, <3>2
    <3>3. ASSUME NEW s \in Schedule, NEW due, NEW rest, FreshRun(w, s, due, rest)
          PROVE  ops'[w].cron = schedules'[ops'[w].about].cron
      BY <2>1, <3>3, FreshRow DEF FreshRun
    <3>4. CASE ops'[w] = ops[w]
      BY <2>4, <3>2, <3>4
    <3>5. QED
      BY <1>2, <2>1, <2>4, <3>2, <3>3, <3>4, RunSteps, FreshRuns
  <2>5. ASSUME NEW cron \in Cron \cup {None}, PatchErpCron(cron), NEW w \in Worker, ops[w] \in RecordOp
        PROVE  "erp" \in overtaken'
    BY <2>5, CarriesIs DEF PatchErpCron, Patched
  <2>6. ASSUME "erp" \notin overtaken', erp'.cron # None
        PROVE  /\ erp'.next # None => erp'.next % erp'.cron = 0
               /\ \A w \in Worker : ops[w] \in RecordOp => /\ erp'.cron = erp.cron
                                                           /\ "erp" \notin overtaken
    <3>1. CASE \E cron \in Cron \cup {None} : PatchErpCron(cron)
      <4>1. \A w \in Worker : ops[w] \notin RecordOp
        BY <2>5, <2>6, <3>1
      <4>2. erp'.cron \in Cron /\ erp'.next = NextRun(erp'.cron, now)
        BY <2>1, <2>6, <3>1, PatchedErp
      <4>3. QED
        BY <2>1, <4>1, <4>2, NextRunIs
    <3>2. CASE ~(\E cron \in Cron \cup {None} : PatchErpCron(cron))
      <4>1. "erp" \notin overtaken
        BY <1>2, <2>1, <2>6, <3>2, Overtaking
      <4>2. \/ erp'.cron = erp.cron /\ erp'.next = erp.next
            \/ \E w \in Worker : ops[w] \in RecordOp /\ erp'.cron = erp.cron /\ erp'.next = ops[w].due
        BY <1>2, <2>1, <3>2, ErpChanges
      <4>3. QED
        BY <2>6, <4>1, <4>2 DEF CronsHold, NextRunFollowsCron
    <3>3. QED
      BY <3>1, <3>2
  <2>7. ASSUME NEW w \in Worker, ops'[w] \in RecordOp, "erp" \notin overtaken', erp'.cron # None, ops'[w].due # None
        PROVE  ops'[w].due % erp'.cron = 0
    <3>1. CASE ops'[w] = ops[w]
      BY <2>6, <2>7, <3>1 DEF CronsHold
    <3>2. CASE ops'[w] # ops[w]
      <4>1. RereadConfig(w) /\ ops'[w].due = NextExport
        <5>1. ops'[w].next = "record" /\ Idle.next = "idle"
          BY <2>7 DEF RecordOp, Idle
        <5>2. ops'[w] \notin RunOp \cup ExportOp \cup ScanOp \cup DueOp \cup SweepOp /\ ops'[w] # Idle
          BY <5>1, KindOf, <2>7 DEF JobOp
        <5>3. QED
          BY <1>2, <2>1, <3>2, <5>2, JobSteps
      <4>2. UNCHANGED erp
        BY <4>1 DEF RereadConfig, jobVars
      <4>3. ops'[w].due = NextRun(erp.cron, now) /\ erp.cron \in Cron
        BY <2>1, <2>7, <4>1, <4>2 DEF NextExport, Jobs, JobTypes
      <4>4. QED
        BY <2>1, <4>2, <4>3, NextRunIs
    <3>3. QED
      BY <3>1, <3>2
  <2>8. CronsHold'
    BY <2>4, <2>7 DEF CronsHold, Listed
  <2>9. NextRunFollowsCron'
    BY <2>3, <2>6 DEF NextRunFollowsCron, Listed
  <2>10. QED
    BY <2>8, <2>9
<1>3. QED
  BY <1>1, <1>2

(* Whatever is patched, run, paused, exported and recorded in whatever     *)
(* order, the next run of a schedule (and of the export) is a time its     *)
(* expression matches, unless that was changed last while a run of it was  *)
(* in flight (runner.py run_schedule, erp_export/runner.py).               *)
THEOREM NextRunsFollow == Spec => []NextRunFollowsCron
<1>1. Init => CronsHold /\ NextRunFollowsCron
  <2> SUFFICES ASSUME Init PROVE CronsHold /\ NextRunFollowsCron
    OBVIOUS
  <2> DEFINE s    == CHOOSE x \in Schedule : TRUE
             cron == CHOOSE x \in Cron : TRUE
             next == NextRun(cron, 0)
  <2>1. /\ ops = [w \in Worker |-> Idle]
        /\ erp = [enabled |-> TRUE, cron |-> cron, next |-> next]
        /\ schedules = [x \in Schedule |->
             IF x = s THEN [cron |-> cron, active |-> TRUE, sends |-> TRUE, next |-> next] ELSE None]
    BY Zenon DEF Init
  <2>2. next % cron = 0
    BY ClockAssumption, NextRunIs
  <2> HIDE DEF s, cron, next
  <2>3. Idle \notin JobOp
    BY RowKinds DEF JobOp, RunOp, ExportOp, RecordOp, ScanOp, DueOp, SweepOp, Idle
  <2>4. CronsHold
    BY <2>1, <2>3 DEF CronsHold, JobOp
  <2>5. \A x \in Schedule : Listed(x) => schedules[x].next = next /\ schedules[x].cron = cron
    BY <2>1 DEF Listed
  <2>6. QED
    BY <2>1, <2>2, <2>4, <2>5 DEF NextRunFollowsCron
<1>2. Types /\ CronsHold /\ NextRunFollowsCron /\ [Next]_vars => CronsHold' /\ NextRunFollowsCron'
  BY CronsStillHold
<1>3. QED
  BY <1>1, <1>2, TypesHold, PTL DEF Spec

(***************************************************************************)
(* What was due is served once.                                            *)
(***************************************************************************)
OneTick == \A w, v \in Worker : Ticking(ops[w]) /\ Ticking(ops[v]) => w = v

DueWithRest == \A w \in Worker : ops[w] \in RunOp => (ops[w].due = None <=> ops[w].rest = None)

(* A run that served this due time was not recorded: it is served again. *)
Unwritten(s, t) == \E x \in unrecorded : x.about = s /\ x.due = t

Unmailed(s, t) == mailed[s][t] = 0 \/ Unwritten(s, t)

Unserved(rest) ==
    \A i \in 1 .. Len(rest) : Unmailed(rest[i].id, rest[i].due) /\ rest[i].due <= now

Distinct(rest) == \A i, j \in 1 .. Len(rest) : rest[i].id = rest[j].id => i = j

(* The rows the tick still has before it, and the one it serves. *)
Waiting(op) == op \in RunOp \cup DueOp /\ op.rest # None => Unserved(op.rest) /\ Distinct(op.rest)

InTurn(op) ==
    op \in RunOp /\ op.due # None =>
        /\ op.due <= now
        /\ op.next # "finish" => Unmailed(op.about, op.due)
        /\ \A i \in 1 .. Len(op.rest) : op.rest[i].id # op.about

Recording(s, t) ==
    \E w \in Worker : ops[w] \in RunOp /\ ops[w].about = s /\ ops[w].due = t /\ ops[w].next = "finish"

Mails(s, t) ==
    mailed[s][t] > 0 /\ ~Unwritten(s, t) =>
        /\ mailed[s][t] = 1 /\ t <= now /\ schedules[s] # None
        /\ (Listed(s) => schedules[s].next > t) \/ Recording(s, t)

Serving == (\A w \in Worker : Waiting(ops[w]) /\ InTurn(ops[w])) /\ \A s \in Schedule, t \in Time : Mails(s, t)

ServedOnce == OneTick /\ DueWithRest /\ (crashed \/ Serving)

LEMMA Queues ==
    /\ None \notin Queue /\ <<>> \in Queue
    /\ \A rest \in Queue : Len(rest) \in Nat /\ \A i \in 1 .. Len(rest) : rest[i] \in [id : Schedule, due : Time]
<1>1. None \notin Queue
  BY NoneAssumption DEF Queue
<1>2. ASSUME NEW rest \in Queue
      PROVE  Len(rest) \in Nat /\ \A i \in 1 .. Len(rest) : rest[i] \in [id : Schedule, due : Time]
  <2>1. rest \in Seq([id : Schedule, due : Time])
    BY DEF Queue
  <2>2. QED
    BY <2>1, LenProperties, ElementOfSeq
<1>3. <<>> \in Queue
  BY EmptySeq DEF Queue
<1>4. QED
  BY <1>1, <1>2, <1>3

LEMMA TickingIs ==
    ASSUME NEW op \in {Idle} \cup JobOp \cup StaffOp
    PROVE  /\ Ticking(op) => op \in JobOp
           /\ op \in RunOp \cup ExportOp \cup RecordOp => (Ticking(op) <=> op.rest # None)
           /\ op \in ScanOp \cup DueOp => Ticking(op)
           /\ op \in SweepOp \cup {Idle} => ~Ticking(op)
<1>1. op \in StaffOp \cup SweepOp => "rest" \notin DOMAIN op
  <2>1. op \in SnapshotOp => "rest" \notin DOMAIN op
    BY DEF SnapshotOp
  <2>2. op \in TodayOp => "rest" \notin DOMAIN op
    BY DEF TodayOp
  <2>3. op \in EachOp => "rest" \notin DOMAIN op
    BY DEF EachOp
  <2>4. op \in RematchOp => "rest" \notin DOMAIN op
    <3> DEFINE Read == UNION {[S -> [emp : Employee \cup {None}, day : Day]] : S \in SUBSET Shot}
    <3>1. RematchOp = [kind : {"rematch"}, next : {"reassign"}, again : BOOLEAN, read : Read]
      BY DEF RematchOp
    <3> HIDE DEF Read
    <3>2. QED
      BY <3>1
  <2>5. op \in SweepOp => "rest" \notin DOMAIN op
    BY DEF SweepOp
  <2>6. QED
    BY <2>1, <2>2, <2>3, <2>4, <2>5, Zenon DEF StaffOp, RowsOp
<1>2. op \in RunOp \cup ExportOp \cup RecordOp \cup ScanOp \cup DueOp => "rest" \in DOMAIN op
  BY DEF RunOp, ExportOp, RecordOp, ScanOp, DueOp
<1>3. op \in ScanOp \cup DueOp => op.rest # None
  BY Queues DEF ScanOp, DueOp
<1>4. op \in JobOp => op # Idle
  BY RowKinds DEF JobOp, RunOp, ExportOp, RecordOp, ScanOp, DueOp, SweepOp, Idle
<1>5. op \in RunOp \cup ExportOp \cup RecordOp \cup ScanOp \cup DueOp => op \in JobOp
  BY DEF JobOp
<1>6. QED
  BY <1>1, <1>2, <1>3, <1>4, <1>5 DEF Ticking

(* A tick begins when none is under way. *)
LEMMA TickBegins ==
    ASSUME Jobs, DueWithRest, Reports, NEW w \in Worker, Ticking(ops'[w]), ~Ticking(ops[w])
    PROVE  (\A v \in Worker : ~Ticking(ops[v])) /\ \A v \in Worker : v # w => ops'[v] = ops[v]
<1>1. ops[w] \in {Idle} \cup JobOp \cup StaffOp /\ ops'[w] \in {Idle} \cup JobOp \cup StaffOp
  BY ReportsMove DEF Jobs, OpTypes, JobsMove
<1>2. ops[w] # ops'[w]
  OBVIOUS
<1>3. CASE Tick(w)
  <2>1. \E op : ops' = [ops EXCEPT ![w] = op]
    BY <1>3, Zenon DEF Tick, Begin
  <2>2. QED
    BY <1>3, <2>1, OpStep DEF Tick, Jobs
<1>4. CASE ops'[w] \in RunOp
  <2>1. ops'[w].rest # None
    BY <1>1, <1>4, TickingIs
  <2>2. CASE ops[w] \in RunOp /\ ops'[w].rest = ops[w].rest
    BY <1>1, <2>1, <2>2, TickingIs
  <2>3. ASSUME NEW s \in Schedule, NEW due, NEW rest, FreshRun(w, s, due, rest)
        PROVE  FALSE
    <3>1. ops'[w].rest = rest
      BY <2>3, FreshRow
    <3>2. ops[w] \in DueOp
      BY <2>1, <2>3, <3>1 DEF FreshRun
    <3>3. QED
      BY <1>1, <3>2, TickingIs
  <2>4. QED
    BY <1>2, <1>4, <2>2, <2>3, RunSteps, FreshRuns
<1>5. CASE Finish(w) /\ ops[w] \in RunOp /\ ops'[w] \in DueOp /\ ops'[w].rest = ops[w].rest
  <2>1. ops'[w].rest # None
    BY <1>5, Queues DEF DueOp
  <2>2. QED
    BY <1>1, <1>5, <2>1, TickingIs
<1>6. CASE FinishFails(w) /\ ops[w] \in RunOp /\ ops'[w] \in DueOp /\ ops'[w].rest = ops[w].rest
  <2>1. ops'[w].rest # None
    BY <1>6, Queues DEF DueOp
  <2>2. QED
    BY <1>1, <1>6, <2>1, TickingIs
<1>7. ops[w] \notin ScanOp \cup DueOp
  BY <1>1, TickingIs
<1>8. ~(ops'[w] \in ExportOp /\ ops'[w].rest = None) /\ ops'[w] \notin SweepOp /\ ops'[w] # Idle
  BY <1>1, TickingIs
<1>9. ~(ops[w] \in ExportOp /\ ops'[w] \in RecordOp /\ ops'[w].rest = ops[w].rest)
  BY <1>1, TickingIs
<1>10. ~(ops[w] \in ExportOp \cup RecordOp /\ ops[w].rest # None)
  BY <1>1, TickingIs
<1>11. QED
  BY <1>2, <1>3, <1>4, <1>5, <1>6, <1>7, <1>8, <1>9, <1>10, JobSteps

(* A mail that is sent for a due time. *)
LEMMA MailsSent ==
    ASSUME Jobs, Reports
    PROVE  \/ UNCHANGED mailed
           \/ \E w \in Worker :
                /\ ops[w] \in RunOp /\ ops[w].next = "deliver" /\ ops[w].due \in Time
                /\ ops'[w] \in RunOp /\ ops'[w].next = "finish"
                /\ \A k \in {"about", "run", "cron", "sends", "due", "rest"} : ops'[w][k] = ops[w][k]
                /\ \A v \in Worker : v # w => ops'[v] = ops[v]
                /\ mailed' = [mailed EXCEPT ![ops[w].about][ops[w].due] = @ + 1]
                /\ UNCHANGED <<schedules, unrecorded>>
<1> SUFFICES ASSUME mailed' # mailed
             PROVE  \E w \in Worker :
                /\ ops[w] \in RunOp /\ ops[w].next = "deliver" /\ ops[w].due \in Time
                /\ ops'[w] \in RunOp /\ ops'[w].next = "finish"
                /\ \A k \in {"about", "run", "cron", "sends", "due", "rest"} : ops'[w][k] = ops[w][k]
                /\ \A v \in Worker : v # w => ops'[v] = ops[v]
                /\ mailed' = [mailed EXCEPT ![ops[w].about][ops[w].due] = @ + 1]
                /\ UNCHANGED <<schedules, unrecorded>>
  OBVIOUS
<1>1. PICK w \in Worker : Deliver(w)
  BY Writers
<1>2. ops[w] \in RunOp /\ ops[w].next = "deliver" /\ UNCHANGED <<schedules, unrecorded>>
  BY <1>1, Stages DEF Deliver, At, Jobs
<1>3. ops[w].due # None /\ mailed' = [mailed EXCEPT ![ops[w].about][ops[w].due] = @ + 1]
  BY <1>1 DEF Deliver
<1>4. PICK mode \in {"attached", "link"} :
         \/ ops' = [ops EXCEPT ![w] = [ops[w] EXCEPT !.mode = mode, !.ok = TRUE, !.next = "finish"]]
         \/ ops' = [ops EXCEPT ![w] = [ops[w] EXCEPT !.mode = mode, !.next = "finish"]]
  BY <1>1 DEF Deliver, Put
<1>5. ops'[w] = [ops[w] EXCEPT !.mode = mode, !.ok = TRUE, !.next = "finish"]
      \/ ops'[w] = [ops[w] EXCEPT !.mode = mode, !.next = "finish"]
  BY <1>4, OpStep DEF Jobs
<1>6. \A v \in Worker : v # w => ops'[v] = ops[v]
  BY <1>4, OpStep DEF Jobs
<1>7. ops'[w] \in RunOp /\ ops'[w].next = "finish"
      /\ \A k \in {"about", "run", "cron", "sends", "due", "rest"} : ops'[w][k] = ops[w][k]
  BY <1>2, <1>5 DEF RunOp
<1>8. ops[w].due \in Time
  BY <1>2, <1>3 DEF RunOp
<1>9. QED
  BY <1>2, <1>3, <1>6, <1>7, <1>8

(* The queue of a tick: every schedule that is due, once. *)
LEMMA QueueIs ==
    ASSUME Jobs, NEW w \in Worker, Scan(w), ops'[w] \in DueOp
    PROVE  /\ Distinct(ops'[w].rest)
           /\ \A i \in 1 .. Len(ops'[w].rest) :
                LET x == ops'[w].rest[i] IN
                Listed(x.id) /\ x.due = schedules[x.id].next /\ x.due <= now
<1>1. PICK queue \in [1 .. Cardinality(Due) -> [id : Due, due : Time]] :
          /\ {queue[i].id : i \in DOMAIN queue} = Due
          /\ \A i \in DOMAIN queue : queue[i].due = schedules[queue[i].id].next
          /\ Put(w, IF queue = <<>> THEN Idle ELSE [next |-> "due", rest |-> queue])
  BY DEF Scan
<1>2. ops'[w] = Idle \/ ops'[w] = [next |-> "due", rest |-> queue]
  BY <1>1, OpStep, Zenon DEF Put, Jobs
<1>3. ops'[w].next = "due" /\ Idle.next = "idle"
  BY DEF DueOp, Idle
<1>4. ops'[w].rest = queue
  BY <1>2, <1>3
<1>5. IsFiniteSet(Due)
  <2>1. Due \subseteq {s \in Schedule : Listed(s)}
    BY DEF Due
  <2>2. QED
    BY <2>1, FS_Subset DEF Jobs, JobTypes
<1> DEFINE n == Cardinality(Due)
           ids == [i \in 1 .. n |-> queue[i].id]
<1>6. n \in Nat
  BY <1>5, FS_CardinalityType
<1>7. \A i \in 1 .. n : queue[i].id \in Due /\ queue[i].due \in Time
  BY <1>1
<1>8. Len(queue) = n /\ DOMAIN queue = 1 .. n
  <2>1. queue \in [1 .. n -> [id : Due, due : Time]]
    BY <1>1
  <2> HIDE DEF n
  <2>2. queue \in Seq([id : Due, due : Time])
    <3> DEFINE Item == [id : Due, due : Time]
    <3>1. queue \in [1 .. n -> Item]
      BY <2>1
    <3> HIDE DEF Item
    <3>2. queue \in Seq(Item)
      BY <1>6, <3>1, SMTT(30)
    <3>3. QED
      BY <3>2 DEF Item
  <2>3. DOMAIN queue = 1 .. n
    BY <2>1
  <2>4. DOMAIN queue = 1 .. Len(queue) /\ Len(queue) \in Nat
    BY <2>2, LenProperties
  <2>5. QED
    BY <1>6, <2>3, <2>4
<1>9. Distinct(queue)
  <2>1. IsFiniteSet(1 .. n) /\ Cardinality(1 .. n) = n
    BY <1>6, FS_Interval
  <2>2. ids \in Surjection(1 .. n, Due)
    <3>1. ids \in [1 .. n -> Due]
      BY <1>7
    <3>2. \A s \in Due : \E i \in 1 .. n : ids[i] = s
      BY <1>1, <1>8
    <3>3. QED
      BY <3>1, <3>2 DEF Surjection
  <2>3. ids \in Injection(1 .. n, Due)
    <3>1. Cardinality(1 .. n) = Cardinality(Due)
      BY <2>1
    <3> HIDE DEF n, ids
    <3>2. QED
      BY <1>5, <2>1, <2>2, <3>1, FS_SurjSameCardinalityImpliesInj
  <2>4. \A i, j \in 1 .. n : ids[i] = ids[j] => i = j
    <3>1. DOMAIN ids = 1 .. n
      OBVIOUS
    <3> HIDE DEF ids, n
    <3>2. QED
      BY <2>3, <3>1, Zenon DEF Injection, IsInjective
  <2>5. QED
    BY <1>8, <2>4 DEF Distinct
<1>10. ASSUME NEW i \in 1 .. Len(queue)
       PROVE  Listed(queue[i].id) /\ queue[i].due = schedules[queue[i].id].next /\ queue[i].due <= now
  <2>1. i \in 1 .. n /\ i \in DOMAIN queue
    BY <1>8
  <2>2. queue[i].id \in Due /\ queue[i].due = schedules[queue[i].id].next
    BY <1>1, <1>7, <2>1
  <2>3. QED
    BY <2>2 DEF Due
<1>11. QED
  BY <1>4, <1>9, <1>10

LEMMA TypesStay == Types /\ [Next]_vars => Types'
  BY StaffTypes, ReportsStaff, OtherTypes DEF Next, Others

(* Who mails or has a queue is part of the tick. *)
LEMMA TickIs ==
    ASSUME Jobs, DueWithRest, NEW w \in Worker
    PROVE  /\ ops[w] \in RunOp => (Ticking(ops[w]) <=> ops[w].due # None)
           /\ ops[w] \in RunOp => (ops[w].due # None <=> ops[w].rest # None)
           /\ ops[w] \in RunOp /\ ops[w].rest # None => ops[w].rest \in Queue /\ ops[w].due \in Time
           /\ ops[w] \in DueOp => Ticking(ops[w]) /\ ops[w].rest \in Queue /\ ops[w].rest # None /\ ops[w].rest # <<>>
           /\ ops[w] \in ScanOp => Ticking(ops[w]) /\ ops[w] \notin RunOp
<1>1. ops[w] \in {Idle} \cup JobOp \cup StaffOp
  BY DEF Jobs, OpTypes
<1>2. ops[w] \in RunOp => /\ ops[w].due = None <=> ops[w].rest = None
                          /\ ops[w].rest \in Queue \cup {None} /\ ops[w].due \in Time \cup {None}
  BY DEF DueWithRest, RunOp
<1>3. ops[w] \in DueOp => ops[w].rest \in Queue /\ ops[w].rest # None /\ ops[w].rest # <<>>
  BY Queues DEF DueOp
<1>4. ops[w] \in ScanOp => ops[w] \notin RunOp
  BY DEF ScanOp, RunOp
<1>5. QED
  BY <1>1, <1>2, <1>3, <1>4, TickingIs

LEMMA TicksStayOne ==
    ASSUME Types, OneTick, DueWithRest, [Next]_vars
    PROVE  OneTick' /\ DueWithRest'
<1>1. CASE ~Reports
  <2>1. \A w \in Worker : ops'[w] \in JobOp => ops'[w] = ops[w]
    BY <1>1, OtherJobs
  <2>2. \A w \in Worker : ops'[w] \in {Idle} \cup JobOp \cup StaffOp
    BY TypesStay DEF Types, Jobs, OpTypes
  <2>3. ASSUME NEW w \in Worker, Ticking(ops'[w])
        PROVE  ops'[w] = ops[w]
    BY <2>1, <2>2, <2>3, TickingIs
  <2>4. OneTick'
    BY <2>3 DEF OneTick
  <2>5. DueWithRest'
    BY <2>1 DEF DueWithRest, JobOp
  <2>6. QED
    BY <2>4, <2>5
<1>2. CASE Reports
  <2>1. Jobs
    BY DEF Types
  <2>2. ASSUME NEW w \in Worker, NEW v \in Worker, Ticking(ops'[w]), Ticking(ops'[v]), w # v
        PROVE  FALSE
    <3>1. CASE Ticking(ops[w]) /\ Ticking(ops[v])
      BY <2>2, <3>1 DEF OneTick
    <3>2. CASE ~Ticking(ops[w])
      <4>1. ~Ticking(ops[v]) /\ ops'[v] = ops[v]
        BY <1>2, <2>1, <2>2, <3>2, TickBegins
      <4>2. QED
        BY <2>2, <4>1
    <3>3. CASE ~Ticking(ops[v])
      <4>1. ~Ticking(ops[w]) /\ ops'[w] = ops[w]
        BY <1>2, <2>1, <2>2, <3>3, TickBegins
      <4>2. QED
        BY <2>2, <4>1
    <3>4. QED
      BY <3>1, <3>2, <3>3
  <2>3. OneTick'
    BY <2>2 DEF OneTick
  <2>4. ASSUME NEW w \in Worker, ops'[w] \in RunOp
        PROVE  ops'[w].due = None <=> ops'[w].rest = None
    <3>1. CASE ops[w] \in RunOp /\ ops'[w].due = ops[w].due /\ ops'[w].rest = ops[w].rest
      BY <3>1 DEF DueWithRest
    <3>2. ASSUME NEW s \in Schedule, NEW due, NEW rest, FreshRun(w, s, due, rest)
          PROVE  ops'[w].due = None <=> ops'[w].rest = None
      <4>1. ops'[w].due = due /\ ops'[w].rest = rest
        BY <2>1, <3>2, FreshRow
      <4>2. CASE ops[w] \in DueOp /\ due = ops[w].rest[1].due /\ rest = Tail(ops[w].rest)
        <5>1. ops[w].rest \in Queue /\ ops[w].rest # <<>>
          BY <2>1, <4>2, TickIs
        <5>2. rest \in Queue /\ due \in Time
          BY <4>2, <5>1, TailIs
        <5>3. due # None /\ rest # None
          BY <5>2, Queues, NoneAssumption DEF Time
        <5>4. QED
          BY <4>1, <5>3
      <4>3. QED
        BY <3>2, <4>1, <4>2 DEF FreshRun
    <3>3. CASE ops'[w] = ops[w]
      BY <2>4, <3>1, <3>3
    <3>4. QED
      BY <1>2, <2>1, <2>4, <3>1, <3>2, <3>3, RunSteps, FreshRuns
  <2>5. DueWithRest'
    BY <2>4 DEF DueWithRest
  <2>6. QED
    BY <2>3, <2>5
<1>3. QED
  BY <1>1, <1>2

(* A mail is sent for what the tick serves. *)
LEMMA MailServes ==
    ASSUME Types, OneTick, DueWithRest, Serving, Reports, mailed' # mailed
    PROVE  Serving'
<1>1. Jobs /\ UNCHANGED now
  BY ReportsFrame DEF Types
<1>2. PICK w \in Worker :
        /\ ops[w] \in RunOp /\ ops[w].next = "deliver" /\ ops[w].due \in Time
        /\ ops'[w] \in RunOp /\ ops'[w].next = "finish"
        /\ \A k \in {"about", "run", "cron", "sends", "due", "rest"} : ops'[w][k] = ops[w][k]
        /\ \A v \in Worker : v # w => ops'[v] = ops[v]
        /\ mailed' = [mailed EXCEPT ![ops[w].about][ops[w].due] = @ + 1]
        /\ UNCHANGED <<schedules, unrecorded>>
  BY <1>1, MailsSent
<1> DEFINE a == ops[w].about
           t == ops[w].due
           rest == ops[w].rest
<1>3. a \in Schedule /\ t \in Time /\ t # None /\ rest # None
  BY <1>1, <1>2, TickIs, NoneAssumption DEF RunOp, Time
<1>4. rest \in Queue /\ Ticking(ops[w])
  BY <1>1, <1>2, <1>3, TickIs
<1>5. ASSUME NEW v \in Worker, v # w
      PROVE  ops[v] \notin DueOp /\ (ops[v] \in RunOp => ops[v].due = None /\ ops[v].rest = None)
  <2>1. ~Ticking(ops[v])
    BY <1>4, <1>5 DEF OneTick
  <2>2. QED
    BY <1>1, <2>1, TickIs
<1>6. /\ t <= now /\ (mailed[a][t] = 0 \/ Unwritten(a, t))
      /\ \A i \in 1 .. Len(rest) : rest[i].id # a
  BY <1>2, <1>3 DEF Serving, InTurn, Unmailed
<1>7. /\ Distinct(rest)
      /\ \A i \in 1 .. Len(rest) :
            /\ mailed[rest[i].id][rest[i].due] = 0 \/ Unwritten(rest[i].id, rest[i].due)
            /\ rest[i].due <= now
  BY <1>2, <1>3 DEF Serving, Waiting, Unserved, Unmailed
<1>8. \A i \in 1 .. Len(rest) : rest[i].id \in Schedule /\ rest[i].due \in Time
  BY <1>4, Queues
<1>9. mailed \in [Schedule -> [Time -> Nat]]
  BY <1>1 DEF Jobs, JobTypes
<1>10. mailed'[a][t] = 1 \/ Unwritten(a, t)
  BY <1>2, <1>3, <1>6, <1>9
<1>11. \A s \in Schedule, u \in Time : s # a \/ u # t => mailed'[s][u] = mailed[s][u]
  BY <1>2, <1>3, <1>9
<1>12. ops'[w].about = a /\ ops'[w].due = t /\ ops'[w].rest = rest
  BY <1>2
<1> HIDE DEF a, t, rest
<1>13. ASSUME NEW v \in Worker, ops'[v] \in RunOp \cup DueOp, ops'[v].rest # None
       PROVE  /\ \A i \in 1 .. Len(ops'[v].rest) :
                    /\ \/ mailed'[ops'[v].rest[i].id][ops'[v].rest[i].due] = 0
                       \/ Unwritten(ops'[v].rest[i].id, ops'[v].rest[i].due)
                    /\ ops'[v].rest[i].due <= now'
              /\ Distinct(ops'[v].rest)
  <2>1. v = w
    BY <1>2, <1>5, <1>13
  <2>2. \A i \in 1 .. Len(rest) :
           mailed'[rest[i].id][rest[i].due] = 0 \/ Unwritten(rest[i].id, rest[i].due)
    BY <1>6, <1>7, <1>8, <1>11
  <2>3. QED
    BY <1>1, <1>7, <1>12, <2>1, <2>2
<1>14. ASSUME NEW v \in Worker, ops'[v] \in RunOp, ops'[v].due # None
       PROVE  /\ ops'[v].due <= now'
              /\ ops'[v].next = "finish"
              /\ \A i \in 1 .. Len(ops'[v].rest) : ops'[v].rest[i].id # ops'[v].about
  <2>1. v = w
    BY <1>2, <1>5, <1>14
  <2>2. QED
    BY <1>1, <1>2, <1>6, <1>12, <2>1
<1>15. ASSUME NEW s \in Schedule, NEW u \in Time, mailed'[s][u] > 0, ~Unwritten(s, u)
       PROVE  /\ mailed'[s][u] = 1 /\ u <= now' /\ schedules'[s] # None
              /\ \/ Listed(s)' => schedules'[s].next > u
                 \/ \E v \in Worker : /\ ops'[v] \in RunOp /\ ops'[v].about = s
                                      /\ ops'[v].due = u /\ ops'[v].next = "finish"
  <2>1. CASE s = a /\ u = t
    <3>1. schedules[a] # None
      BY <1>1, <1>2 DEF Jobs, KnownRuns, a
    <3>2. QED
      BY <1>1, <1>2, <1>6, <1>10, <1>12, <1>15, <2>1, <3>1
  <2>2. CASE s # a \/ u # t
    <3>1. Mails(s, u) /\ mailed'[s][u] = mailed[s][u]
      BY <1>11, <2>2 DEF Serving
    <3>2. ~Recording(s, u)
      <4>1. ASSUME NEW v \in Worker, ops[v] \in RunOp, ops[v].due = u, ops[v].next = "finish"
            PROVE  FALSE
        <5>1. u # None
          BY NoneAssumption DEF Time
        <5>2. v = w
          BY <1>5, <4>1, <5>1
        <5>3. QED
          BY <1>2, <4>1, <5>2
      <4>2. QED
        BY <4>1 DEF Recording
    <3>3. QED
      BY <1>1, <1>2, <1>15, <3>1, <3>2 DEF Mails, Listed
  <2>3. QED
    BY <2>1, <2>2
<1>16. \A v \in Worker : Waiting(ops[v])' /\ InTurn(ops[v])'
  BY <1>2, <1>13, <1>14 DEF Waiting, InTurn, Unserved, Unmailed, Unwritten, Distinct
<1>17. \A s \in Schedule, u \in Time : Mails(s, u)'
  BY <1>2, <1>15 DEF Mails, Recording, Unwritten
<1>18. QED
  BY <1>16, <1>17 DEF Serving

(* Without a mail, what is served goes on, in turn. *)
LEMMA QueueShrinks ==
    ASSUME Types, OneTick, DueWithRest, Serving, Reports, UNCHANGED mailed,
           NEW w \in Worker, ops'[w] \in RunOp \cup DueOp, ops'[w].rest # None
    PROVE  /\ \A i \in 1 .. Len(ops'[w].rest) :
                 Unmailed(ops'[w].rest[i].id, ops'[w].rest[i].due) /\ ops'[w].rest[i].due <= now
           /\ Distinct(ops'[w].rest)
<1>1. Jobs /\ JobsMove
  BY ReportsMove DEF Types
<1>2. CASE ops[w] \in RunOp \cup DueOp /\ ops'[w].rest = ops[w].rest
  BY <1>2 DEF Serving, Waiting, Unserved
<1>3. CASE ops[w] \in DueOp /\ ops'[w].rest = Tail(ops[w].rest)
  <2> DEFINE rest == ops[w].rest
  <2>1. rest \in Queue /\ rest # <<>> /\ rest # None
    BY <1>1, <1>3, TickIs
  <2>2. Distinct(rest) /\ Unserved(rest)
    BY <1>3, <2>1 DEF Serving, Waiting
  <2> HIDE DEF rest
  <2>3. /\ Len(rest) \in Nat \ {0} /\ Len(Tail(rest)) = Len(rest) - 1
        /\ \A i \in 1 .. Len(rest) - 1 : Tail(rest)[i] = rest[i + 1] /\ i + 1 \in 1 .. Len(rest)
    BY <2>1, TailIs
  <2>4. \A i \in 1 .. Len(Tail(rest)) :
           Unmailed(Tail(rest)[i].id, Tail(rest)[i].due) /\ Tail(rest)[i].due <= now
    BY <2>2, <2>3 DEF Unserved
  <2>5. Distinct(Tail(rest))
    <3> SUFFICES ASSUME NEW i \in 1 .. Len(Tail(rest)), NEW j \in 1 .. Len(Tail(rest)),
                        Tail(rest)[i].id = Tail(rest)[j].id
                 PROVE  i = j
      BY DEF Distinct
    <3>1. i \in 1 .. Len(rest) - 1 /\ j \in 1 .. Len(rest) - 1
      BY <2>3
    <3>2. i + 1 = j + 1
      BY <2>2, <2>3, <3>1 DEF Distinct
    <3>3. QED
      BY <3>1, <3>2, <2>3
  <2>6. QED
    BY <1>3, <2>4, <2>5 DEF rest
<1>4. ASSUME NEW s \in Schedule, NEW due, NEW rest, FreshRun(w, s, due, rest)
      PROVE  ops[w] \in DueOp /\ ops'[w].rest = Tail(ops[w].rest)
  <2>1. ops'[w].rest = rest
    BY <1>1, <1>4, FreshRow
  <2>2. rest # None
    BY <2>1
  <2>3. QED
    BY <1>4, <2>1, <2>2, Zenon DEF FreshRun
<1>5. CASE Scan(w) /\ ops[w] \in ScanOp /\ ops'[w] \in DueOp
  <2> DEFINE rest == ops'[w].rest
  <2>1. rest \in Queue
    BY <1>5 DEF DueOp
  <2>2. /\ Distinct(rest)
        /\ \A i \in 1 .. Len(rest) :
             Listed(rest[i].id) /\ rest[i].due = schedules[rest[i].id].next /\ rest[i].due <= now
    BY <1>1, <1>5, QueueIs
  <2> HIDE DEF rest
  <2>3. ASSUME NEW i \in 1 .. Len(rest)
        PROVE  Unmailed(rest[i].id, rest[i].due) /\ rest[i].due <= now
    <3> DEFINE s == rest[i].id
               t == rest[i].due
    <3>1. s \in Schedule /\ t \in Time
      BY <2>1, Queues
    <3>2. Listed(s) /\ schedules[s].next = t /\ t <= now
      BY <2>2
    <3> HIDE DEF s, t
    <3>3. ~Recording(s, t)
      <4>1. ASSUME NEW v \in Worker, ops[v] \in RunOp, ops[v].due = t
            PROVE  FALSE
        <5>1. t # None
          BY <3>1, NoneAssumption DEF Time
        <5>2. Ticking(ops[v]) /\ Ticking(ops[w]) /\ ops[w] \notin RunOp
          BY <1>1, <1>5, <4>1, <5>1, TickIs
        <5>3. QED
          BY <4>1, <5>2 DEF OneTick
      <4>2. QED
        BY <4>1 DEF Recording
    <3>4. t \in Nat /\ mailed[s][t] \in Nat
      BY <1>1, <3>1, TimesAre DEF Jobs, JobTypes
    <3>5. ~(schedules[s].next > t)
      BY <3>2, <3>4
    <3>6. ~(mailed[s][t] > 0) \/ Unwritten(s, t)
      BY <3>1, <3>2, <3>3, <3>5 DEF Serving, Mails
    <3>7. Unmailed(s, t) /\ t <= now
      BY <3>2, <3>4, <3>6 DEF Unmailed
    <3>8. QED
      BY <3>7 DEF s, t
  <2>4. QED
    BY <2>2, <2>3 DEF rest
<1>6. ops'[w] \notin ExportOp \cup ScanOp \cup RecordOp \cup SweepOp /\ ops'[w] # Idle
  <2>1. ops'[w].next \in {"build", "deliver", "finish", "due"} /\ Idle.next = "idle"
    BY DEF RunOp, DueOp, Idle
  <2>2. ops'[w] \in JobOp
    BY DEF JobOp
  <2>3. QED
    BY <2>1, <2>2, KindOf
<1>7. CASE ops'[w] \in RunOp
  BY <1>1, <1>2, <1>3, <1>4, <1>7, RunSteps, FreshRuns
<1>8. CASE ops'[w] \in DueOp
  <2>1. ops'[w] \notin RunOp
    BY <1>8 DEF DueOp, RunOp
  <2>2. QED
    BY <1>1, <1>2, <1>3, <1>5, <1>6, <1>8, <2>1, JobSteps
<1>9. QED
  BY <1>7, <1>8

LEMMA TurnGoesOn ==
    ASSUME Types, OneTick, DueWithRest, Serving, Reports, UNCHANGED mailed,
           NEW w \in Worker, ops'[w] \in RunOp, ops'[w].due # None
    PROVE  /\ ops'[w].due <= now
           /\ ops'[w].next # "finish" => Unmailed(ops'[w].about, ops'[w].due)
           /\ \A i \in 1 .. Len(ops'[w].rest) : ops'[w].rest[i].id # ops'[w].about
<1>1. Jobs
  BY DEF Types
<1>2. CASE ops'[w] = ops[w]
  BY <1>2 DEF Serving, InTurn
<1>3. CASE /\ Build(w) \/ Deliver(w)
           /\ ops[w] \in RunOp
           /\ \A k \in {"about", "run", "cron", "sends", "due", "rest"} : ops'[w][k] = ops[w][k]
  <2>1. ops[w].next # "finish"
    BY <1>3 DEF Build, Deliver, At
  <2>2. ops'[w].due = ops[w].due /\ ops'[w].about = ops[w].about /\ ops'[w].rest = ops[w].rest
    BY <1>3
  <2>3. QED
    BY <1>3, <2>1, <2>2 DEF Serving, InTurn
<1>4. ASSUME NEW s \in Schedule, NEW due, NEW rest, FreshRun(w, s, due, rest)
      PROVE  /\ due <= now
             /\ Unmailed(s, due)
             /\ \A i \in 1 .. Len(rest) : rest[i].id # s
  <2>1. ops'[w].due = due
    BY <1>1, <1>4, FreshRow
  <2>2. due # None
    BY <2>1
  <2>3. ops[w] \in DueOp /\ s = ops[w].rest[1].id /\ due = ops[w].rest[1].due /\ rest = Tail(ops[w].rest)
    BY <1>4, <2>2, Zenon DEF FreshRun
  <2> DEFINE queue == ops[w].rest
  <2>4. queue \in Queue /\ queue # <<>> /\ queue # None
    BY <1>1, <2>3, TickIs
  <2>5. Distinct(queue) /\ Unserved(queue)
    BY <2>3, <2>4 DEF Serving, Waiting
  <2>6. s = queue[1].id /\ due = queue[1].due /\ rest = Tail(queue)
    BY <2>3
  <2> HIDE DEF queue
  <2>7. /\ Len(queue) \in Nat \ {0} /\ Len(rest) = Len(queue) - 1
        /\ \A i \in 1 .. Len(queue) - 1 : rest[i] = queue[i + 1]
    BY <2>4, <2>6, TailIs
  <2>8. 1 \in 1 .. Len(queue)
    BY <2>7
  <2>9. Unmailed(s, due) /\ due <= now
    BY <2>5, <2>6, <2>8 DEF Unserved
  <2>10. ASSUME NEW i \in 1 .. Len(rest)
         PROVE  rest[i].id # s
    <3>1. rest[i] = queue[i + 1] /\ i + 1 \in 1 .. Len(queue) /\ i + 1 # 1
      BY <2>7
    <3>2. QED
      BY <2>5, <2>6, <2>8, <3>1 DEF Distinct
  <2>11. QED
    BY <2>9, <2>10
<1>5. ASSUME NEW s \in Schedule, NEW due, NEW rest, FreshRun(w, s, due, rest)
      PROVE  ops'[w].due = due /\ ops'[w].about = s /\ ops'[w].rest = rest
  BY <1>1, <1>5, FreshRow
<1>6. QED
  BY <1>1, <1>2, <1>3, <1>4, <1>5, RunSteps, FreshRuns

(* A schedule whose due time was mailed is planned beyond it, as soon as   *)
(* the run that mailed it is recorded.                                     *)
LEMMA MailsStay ==
    ASSUME Types, Serving, Reports, UNCHANGED mailed, NEW s \in Schedule, NEW t \in Time
    PROVE  Mails(s, t)'
<1>1. Jobs /\ UNCHANGED now /\ unrecorded \subseteq unrecorded'
  BY ReportsFrame DEF Types
<1> SUFFICES ASSUME mailed[s][t] > 0, ~Unwritten(s, t)'
             PROVE  /\ mailed[s][t] = 1 /\ t <= now /\ schedules'[s] # None
                    /\ \/ Listed(s)' => schedules'[s].next > t
                       \/ \E w \in Worker : /\ ops'[w] \in RunOp /\ ops'[w].about = s
                                            /\ ops'[w].due = t /\ ops'[w].next = "finish"
  BY <1>1 DEF Mails, Recording
<1>0. ~Unwritten(s, t)
  BY <1>1 DEF Unwritten
<1>2. mailed[s][t] = 1 /\ t <= now /\ schedules[s] # None
  BY <1>0 DEF Serving, Mails
<1>3. schedules'[s] # None
  BY <1>1, <1>2, TablesGrow
<1>4. now \in Nat /\ t \in Nat
  BY <1>1, TimesAre DEF Jobs, JobTypes
<1>5. ASSUME NEW cron \in Cron, schedules'[s].next = NextRun(cron, now)
      PROVE  schedules'[s].next > t
  <2>1. NextRun(cron, now) \in Nat /\ NextRun(cron, now) > now
    BY <1>4, NextRunIs
  <2>2. QED
    BY <1>2, <1>4, <1>5, <2>1
<1>6. CASE Listed(s) => schedules[s].next > t
  <2>1. schedules'[s] \in ScheduleRow => schedules'[s].cron \in Cron
    BY DEF ScheduleRow
  <2>2. \A w \in Worker : ops[w] \in RunOp => ops[w].cron \in Cron
    BY DEF RunOp
  <2>3. QED
    BY <1>1, <1>2, <1>3, <1>5, <1>6, <2>1, <2>2, ScheduleChanges DEF Listed
<1>7. ASSUME NEW w \in Worker, ops[w] \in RunOp, ops[w].about = s, ops[w].due = t, ops[w].next = "finish"
      PROVE  \/ Listed(s)' => schedules'[s].next > t
             \/ \E v \in Worker : /\ ops'[v] \in RunOp /\ ops'[v].about = s
                                  /\ ops'[v].due = t /\ ops'[v].next = "finish"
  <2>1. CASE ops'[w] = ops[w]
    BY <1>7, <2>1
  <2>2. CASE Finish(w)
    <3>1. schedules' = IF Listed(s) THEN [schedules EXCEPT ![s].next = NextRun(ops[w].cron, now)] ELSE schedules
      BY <1>7, <2>2 DEF Finish, Advance
    <3>2. CASE Listed(s)
      <4>1. schedules[s] \in ScheduleRow
        BY <1>1, <3>2, ScheduleRows DEF Jobs
      <4>2. schedules'[s] = [schedules[s] EXCEPT !.next = NextRun(ops[w].cron, now)]
        BY <1>1, <3>1, <3>2 DEF Jobs, JobTypes
      <4>3. ops[w].cron \in Cron
        BY <1>7 DEF RunOp
      <4>4. schedules'[s].next = NextRun(ops[w].cron, now)
        BY <1>4, <4>1, <4>2, <4>3, AdvancedRow
      <4>5. QED
        BY <1>5, <4>3, <4>4
    <3>3. CASE ~Listed(s)
      BY <3>1, <3>3 DEF Listed
    <3>4. QED
      BY <3>2, <3>3
  <2>3. ~Build(w) /\ ~Deliver(w)
    BY <1>7 DEF Build, Deliver, At
  <2>4. ~FinishFails(w)
    <3>1. FinishFails(w) => [run |-> ops[w].run, about |-> s, due |-> t] \in unrecorded'
      BY <1>7 DEF FinishFails
    <3>2. QED
      BY <3>1 DEF Unwritten
  <2>5. QED
    BY <1>1, <1>7, <2>1, <2>2, <2>3, <2>4, RunGoesOn
<1>8. Recording(s, t) \/ (Listed(s) => schedules[s].next > t)
  BY <1>0 DEF Serving, Mails
<1>9. QED
  BY <1>2, <1>3, <1>6, <1>7, <1>8 DEF Recording

LEMMA ServingGoesOn ==
    ASSUME Types, ServedOnce, [Next]_vars
    PROVE  ServedOnce'
<1>1. OneTick' /\ DueWithRest'
  BY TicksStayOne DEF ServedOnce
<1>2. CASE ~Reports
  <2>1. /\ UNCHANGED <<schedules, mailed, unrecorded>>
        /\ now' \in {now, now + 1} /\ (crashed => crashed')
        /\ \A w \in Worker : ops'[w] \in JobOp => ops'[w] = ops[w]
        /\ crashed' \/ \A w \in Worker : ops[w] \in RunOp => ops'[w] = ops[w]
    BY <1>2, RunsNotDropped, OtherJobs
  <2>2. SUFFICES ASSUME ~crashed'
                 PROVE  Serving'
    BY <1>1 DEF ServedOnce
  <2>3. Serving
    BY <2>1, <2>2 DEF ServedOnce
  <2>4. \A w \in Worker : /\ ops'[w] \in RunOp \cup DueOp => ops'[w] = ops[w]
                          /\ ops[w] \in RunOp => ops'[w] = ops[w]
    BY <2>1, <2>2 DEF JobOp
  <2>5. now \in Nat /\ now' \in Nat /\ now <= now'
    BY <2>1, TimesAre DEF Types, Jobs, JobTypes
  <2>6. ASSUME NEW w \in Worker, ops[w] \in RunOp \cup DueOp, ops[w].rest # None
        PROVE  \A i \in 1 .. Len(ops[w].rest) :
                 Unmailed(ops[w].rest[i].id, ops[w].rest[i].due) /\ ops[w].rest[i].due <= now'
    <3>1. ops[w].rest \in Queue
      BY <2>6, TickIs DEF ServedOnce, Types
    <3>2. \A i \in 1 .. Len(ops[w].rest) :
             Unmailed(ops[w].rest[i].id, ops[w].rest[i].due) /\ ops[w].rest[i].due <= now
      BY <2>3, <2>6 DEF Serving, Waiting, Unserved
    <3>3. \A i \in 1 .. Len(ops[w].rest) : ops[w].rest[i].due \in Nat
      BY <3>1, Queues, TimesAre
    <3>4. QED
      BY <2>5, <3>2, <3>3
  <2>7. ASSUME NEW w \in Worker, ops[w] \in RunOp, ops[w].due # None
        PROVE  /\ ops[w].due <= now'
               /\ ops[w].next # "finish" => Unmailed(ops[w].about, ops[w].due)
               /\ \A i \in 1 .. Len(ops[w].rest) : ops[w].rest[i].id # ops[w].about
    <3>1. ops[w].due \in Nat
      BY <2>7, TimesAre DEF RunOp
    <3>2. QED
      BY <2>3, <2>5, <2>7, <3>1 DEF Serving, InTurn
  <2>8. ASSUME NEW s \in Schedule, NEW t \in Time, mailed[s][t] > 0, ~Unwritten(s, t)
        PROVE  /\ mailed[s][t] = 1 /\ t <= now' /\ schedules[s] # None
               /\ (Listed(s) => schedules[s].next > t) \/ Recording(s, t)
    BY <2>3, <2>5, <2>8, TimesAre DEF Serving, Mails
  <2>9. \A w \in Worker : Waiting(ops[w])'
    BY <2>1, <2>3, <2>4, <2>6 DEF Waiting, Unserved, Unmailed, Unwritten, Distinct, Serving
  <2>10. \A w \in Worker : InTurn(ops[w])'
    BY <2>1, <2>4, <2>7 DEF InTurn, Unmailed, Unwritten
  <2>11. \A s \in Schedule, t \in Time : Mails(s, t)'
    BY <2>1, <2>4, <2>8 DEF Mails, Recording, Listed, Unwritten
  <2>12. QED
    BY <2>9, <2>10, <2>11 DEF Serving
<1>3. CASE Reports
  <2>1. Jobs /\ UNCHANGED <<now, crashed>> /\ unrecorded \subseteq unrecorded'
    BY <1>3, ReportsFrame DEF Types
  <2>2. SUFFICES ASSUME ~crashed
                 PROVE  Serving'
    BY <1>1, <2>1 DEF ServedOnce
  <2>3. Serving /\ OneTick /\ DueWithRest
    BY <2>2 DEF ServedOnce
  <2>4. CASE UNCHANGED mailed
    <3>0. \A s, t : Unmailed(s, t) => Unmailed(s, t)'
      BY <2>1, <2>4 DEF Unmailed, Unwritten
    <3>1. \A w \in Worker : Waiting(ops[w])'
      BY <1>3, <2>1, <2>3, <2>4, <3>0, QueueShrinks DEF Waiting, Unserved, Distinct
    <3>2. \A w \in Worker : InTurn(ops[w])'
      BY <1>3, <2>1, <2>3, <2>4, <3>0, TurnGoesOn DEF InTurn
    <3>3. \A s \in Schedule, t \in Time : Mails(s, t)'
      BY <1>3, <2>3, <2>4, MailsStay
    <3>4. QED
      BY <3>1, <3>2, <3>3 DEF Serving
  <2>5. CASE mailed' # mailed
    BY <1>3, <2>3, <2>5, MailServes
  <2>6. QED
    BY <2>4, <2>5
<1>4. QED
  BY <1>2, <1>3

(* What is due is mailed once, however ticks, runs someone asks for,       *)
(* patches, pauses and deletions fall between the read of the due list and *)
(* the mail, unless the process died before the run was recorded: ticks do *)
(* not overlap, a tick lists a schedule once, and whoever records a run    *)
(* plans the next beyond now (runner.py run_due_schedules, run_schedule).  *)
THEOREM DueIsServedOnce == Spec => []DueServedOnce
<1>1. Init => ServedOnce
  <2> SUFFICES ASSUME Init PROVE ServedOnce
    OBVIOUS
  <2>1. ops = [w \in Worker |-> Idle] /\ mailed = [x \in Schedule |-> [t \in Time |-> 0]]
    BY Zenon DEF Init
  <2>2. Idle \notin RunOp \cup DueOp /\ ~Ticking(Idle)
    BY DEF RunOp, DueOp, Idle, Ticking
  <2>3. QED
    BY <2>1, <2>2 DEF ServedOnce, OneTick, DueWithRest, Serving, Waiting, InTurn, Mails
<1>2. Types /\ ServedOnce /\ [Next]_vars => ServedOnce'
  BY ServingGoesOn
<1>3. Types /\ ServedOnce => DueServedOnce
  <2>1. ServedOnce /\ ~crashed => \A s \in Schedule, t \in Time :
          mailed[s][t] > 0 /\ ~Unwritten(s, t) => mailed[s][t] = 1
    BY DEF ServedOnce, Serving, Mails
  <2>2. ASSUME ServedOnce, NEW s \in Schedule, NEW t \in Time, mailed[s][t] > 1, Types
        PROVE  crashed \/ Unwritten(s, t)
    BY <2>1, <2>2 DEF Types, Jobs, JobTypes
  <2>3. QED
    BY <2>2 DEF DueServedOnce, Unwritten
<1>4. QED
  BY <1>1, <1>2, <1>3, TypesHold, PTL DEF Spec

(***************************************************************************)
(* Links and files.                                                        *)
(***************************************************************************)
FinishedSay == \A r \in Run : Exists(r) => (runs[r].status = "running" <=> runs[r].finished = None)

RunsInHand ==
    /\ \A w \in Worker : ops[w] \in RunOp =>
          /\ runs[ops[w].run] = Gone \/ runs[ops[w].run].status = "running"
          /\ ops[w].next = "deliver" => ops[w].file /\ ops[w].run \in disk
    /\ \A w, v \in Worker : ops[w] \in RunOp /\ ops[v] \in RunOp /\ ops[w].run = ops[v].run => w = v

(* A link that was mailed, while its run is in hand and after. *)
MailedLinks ==
    /\ \A w \in Worker, link \in links :
          ops[w] \in RunOp /\ link[1] = ops[w].run => ops[w].next = "finish" /\ ops[w].file
    /\ \A link \in links :
          /\ link[2] <= now + TokenLife
          /\ now <= link[2] => link[1] \in disk
          /\ Exists(link[1]) /\ runs[link[1]].status # "running" =>
                runs[link[1]].file /\ link[2] <= runs[link[1]].finished + TokenLife

(* What the sweep is about to delete was finished, and its links expired. *)
SweepsOld ==
    \A w \in Worker : ops[w] \in SweepOp => \A r \in ops[w].rows :
        /\ runs[r] = Gone \/ (Exists(r) /\ runs[r].finished # None)
        /\ \A link \in links : link[1] = r => link[2] < now
        /\ \A v \in Worker : ops[v] \in RunOp => ops[v].run # r

LinkChain == FinishedSay /\ RunsInHand /\ MailedLinks /\ SweepsOld

LEMMA LinkSent ==
    ASSUME Jobs, Reports, links' # links
    PROVE  \E w \in Worker :
              /\ ops[w] \in RunOp /\ ops[w].next = "deliver"
              /\ ops'[w] \in RunOp /\ ops'[w].next = "finish"
              /\ ops'[w].run = ops[w].run /\ ops'[w].file = ops[w].file
              /\ \A v \in Worker : v # w => ops'[v] = ops[v]
              /\ links' = links \cup {<<ops[w].run, now + TokenLife>>}
              /\ UNCHANGED <<runs, disk>>
<1>1. PICK w \in Worker : Deliver(w)
  BY Writers
<1>2. ops[w] \in RunOp /\ ops[w].next = "deliver" /\ UNCHANGED <<runs, disk>>
  BY <1>1, Stages DEF Deliver, At, Jobs
<1>3. links' = links \cup {<<ops[w].run, now + TokenLife>>}
  BY <1>1 DEF Deliver
<1>4. PICK mode \in {"attached", "link"} :
         \/ ops' = [ops EXCEPT ![w] = [ops[w] EXCEPT !.mode = mode, !.ok = TRUE, !.next = "finish"]]
         \/ ops' = [ops EXCEPT ![w] = [ops[w] EXCEPT !.mode = mode, !.next = "finish"]]
  BY <1>1 DEF Deliver, Put
<1>5. ops'[w] = [ops[w] EXCEPT !.mode = mode, !.ok = TRUE, !.next = "finish"]
      \/ ops'[w] = [ops[w] EXCEPT !.mode = mode, !.next = "finish"]
  BY <1>4, OpStep DEF Jobs
<1>6. \A v \in Worker : v # w => ops'[v] = ops[v]
  BY <1>4, OpStep DEF Jobs
<1>7. ops'[w] \in RunOp /\ ops'[w].next = "finish" /\ ops'[w].run = ops[w].run /\ ops'[w].file = ops[w].file
  BY <1>2, <1>5 DEF RunOp
<1>8. QED
  BY <1>2, <1>3, <1>6, <1>7

LEMMA DiskChanges ==
    ASSUME Jobs, Reports
    PROVE  \/ disk \subseteq disk'
           \/ /\ disk' \subseteq disk
              /\ \A r \in disk \ disk' : Exists(r) /\ Swept(r)
<1>1. CASE \E w \in Worker : Build(w)
  BY <1>1 DEF Build
<1>2. CASE \E w \in Worker : SweepFiles(w)
  BY <1>2 DEF SweepFiles, Exists
<1>3. CASE UNCHANGED disk
  BY <1>3
<1>4. QED
  BY <1>1, <1>2, <1>3, Writers

(* The file a link is about is dropped only when the link has expired. *)
LEMMA SweptAreOld ==
    ASSUME TokenLife <= KeepRuns, Jobs, FinishedSay, RunsInHand, MailedLinks, NEW r \in Run, Exists(r), Swept(r)
    PROVE  /\ runs[r].status # "running" /\ runs[r].finished # None
           /\ \A link \in links : link[1] = r => link[2] < now
           /\ \A w \in Worker : ops[w] \in RunOp => ops[w].run # r
<1>1. runs[r] \in RunRow /\ runs[r].finished # None /\ runs[r].finished < now - KeepRuns
  BY DEF Swept, Exists, Jobs, JobTypes
<1>2. runs[r].finished \in Nat /\ now \in Nat
  BY <1>1, TimesAre DEF RunRow, Jobs, JobTypes
<1>3. runs[r].status # "running"
  BY <1>1 DEF FinishedSay
<1>4. ASSUME NEW link \in links, link[1] = r
      PROVE  link[2] < now
  <2>1. link[2] <= runs[r].finished + TokenLife
    BY <1>3, <1>4 DEF MailedLinks
  <2>2. link[2] \in Nat
    BY DEF Jobs, JobTypes
  <2>3. QED
    BY <1>1, <1>2, <2>1, <2>2, ClockAssumption
<1>5. QED
  BY <1>1, <1>3, <1>4 DEF RunsInHand, Exists

LEMMA FinishedStillSay ==
    ASSUME Jobs, Reports, FinishedSay
    PROVE  FinishedSay'
<1> SUFFICES ASSUME NEW r \in Run, runs'[r] \notin {None, Gone}
             PROVE  runs'[r].status = "running" <=> runs'[r].finished = None
  BY DEF FinishedSay, Exists
<1>1. CASE runs'[r] = runs[r]
  BY <1>1 DEF FinishedSay, Exists
<1>2. ASSUME NEW w \in Worker, NEW s \in Schedule, NEW due, NEW rest, FreshRun(w, s, due, rest), r = NewRun
      PROVE  runs'[r].status = "running" /\ runs'[r].finished = None
  BY <1>2, FreshRow
<1>3. ASSUME NEW w \in Worker, ops[w] \in RunOp, Exists(r), runs'[r] = Record(runs[r], ops[w])
      PROVE  runs'[r].status # "running" /\ runs'[r].finished # None
  <2>1. runs[r] \in RunRow
    BY <1>3 DEF Exists, Jobs, JobTypes
  <2>2. now \in Time /\ now # None
    BY NoneAssumption DEF Jobs, JobTypes, Time
  <2>3. QED
    BY <1>3, <2>1, <2>2, RecordedRow
<1>4. QED
  BY <1>1, <1>2, <1>3, RunChanges

(* What a run in hand at the next step was before it. *)
LEMMA RunBefore ==
    ASSUME Jobs, Reports, NEW w \in Worker, ops'[w] \in RunOp
    PROVE  \/ /\ ops[w] \in RunOp /\ ops'[w].run = ops[w].run
              /\ \/ ops'[w] = ops[w]
                 \/ Build(w) /\ ops[w].next = "build"
                 \/ Deliver(w) /\ ops[w].next = "deliver" /\ ops'[w].next = "finish" /\ ops'[w].file = ops[w].file
           \/ /\ ops'[w].next = "build" /\ ops'[w].run \in Run
              /\ runs[ops'[w].run] = None /\ runs'[ops'[w].run].status = "running"
              /\ \A v \in Worker : v # w => ops'[v] = ops[v]
              /\ UNCHANGED <<disk, links>>
<1>1. CASE ops'[w] = ops[w]
  BY <1>1
<1>2. CASE Build(w) /\ ops[w] \in RunOp /\ ops'[w].run = ops[w].run
  BY <1>2 DEF Build, At
<1>3. CASE Deliver(w) /\ ops[w] \in RunOp /\ ops'[w].run = ops[w].run
  <2>1. PICK mode \in {"attached", "link"} :
         \/ ops' = [ops EXCEPT ![w] = [ops[w] EXCEPT !.mode = mode, !.ok = TRUE, !.next = "finish"]]
         \/ ops' = [ops EXCEPT ![w] = [ops[w] EXCEPT !.mode = mode, !.next = "finish"]]
    BY <1>3 DEF Deliver, Put
  <2>2. ops'[w] = [ops[w] EXCEPT !.mode = mode, !.ok = TRUE, !.next = "finish"]
        \/ ops'[w] = [ops[w] EXCEPT !.mode = mode, !.next = "finish"]
    BY <2>1, OpStep DEF Jobs
  <2>3. ops'[w].next = "finish" /\ ops'[w].file = ops[w].file
    BY <1>3, <2>2 DEF RunOp
  <2>4. QED
    BY <1>3, <2>3 DEF Deliver, At
<1>4. ASSUME NEW s \in Schedule, NEW due, NEW rest, FreshRun(w, s, due, rest)
      PROVE  /\ ops'[w].next = "build" /\ ops'[w].run \in Run
             /\ runs[ops'[w].run] = None /\ runs'[ops'[w].run].status = "running"
             /\ \A v \in Worker : v # w => ops'[v] = ops[v]
             /\ UNCHANGED <<disk, links>>
  <2>1. ops'[w].next = "build" /\ ops'[w].run = NewRun /\ runs'[NewRun].status = "running"
    BY <1>4, FreshRow
  <2>2. NewRun \in Run /\ runs[NewRun] = None /\ (\A v \in Worker : v # w => ops'[v] = ops[v]) /\ UNCHANGED <<disk, links>>
    BY <1>4, Zenon DEF FreshRun
  <2>3. QED
    BY <2>1, <2>2
<1>5. QED
  BY <1>1, <1>2, <1>3, <1>4, RunSteps, FreshRuns

LEMMA BuiltRun ==
    ASSUME Jobs, NEW w \in Worker, Build(w), ops[w] \in RunOp, ops'[w] # ops[w]
    PROVE  /\ ops'[w].next = "deliver" => ops'[w].file /\ ops'[w].run \in disk'
           /\ UNCHANGED <<links, runs>>
<1>1. UNCHANGED <<links, runs>>
  BY DEF Build
<1> DEFINE next == IF ops[w].sends THEN "deliver" ELSE "finish"
<1>2. \/ /\ disk' = disk \cup {ops[w].run}
         /\ ops'[w] = [ops[w] EXCEPT !.file = TRUE, !.next = next]
      \/ ops'[w] = [ops[w] EXCEPT !.next = "finish"]
  BY OpStep DEF Build, Put, Jobs
<1> HIDE DEF next
<1>3. /\ disk' = disk \cup {ops[w].run} /\ ops'[w].file /\ ops'[w].run = ops[w].run
      \/ ops'[w].next = "finish"
  BY <1>2 DEF RunOp
<1>4. QED
  BY <1>1, <1>3

LEMMA RunsStayInHand ==
    ASSUME TokenLife <= KeepRuns, Jobs, Reports, FinishedSay, RunsInHand, MailedLinks
    PROVE  RunsInHand'
<1>1. ASSUME NEW w \in Worker, NEW v \in Worker, ops'[w] \in RunOp, ops'[v] \in RunOp, ops'[w].run = ops'[v].run
      PROVE  w = v
  <2>1. ASSUME NEW x \in Worker, NEW y \in Worker, x # y, ops'[y] \in RunOp,
               runs[ops'[x].run] = None, \A z \in Worker : z # x => ops'[z] = ops[z]
        PROVE  ops'[y].run # ops'[x].run
    BY <2>1 DEF Jobs, KnownRuns
  <2>2. QED
    BY <1>1, <2>1, RunBefore DEF RunsInHand
<1>2. ASSUME NEW w \in Worker, ops'[w] \in RunOp
      PROVE  runs'[ops'[w].run] = Gone \/ runs'[ops'[w].run].status = "running"
  <2>1. CASE ops[w] \in RunOp /\ ops'[w].run = ops[w].run
    <3> DEFINE r == ops[w].run
    <3>1. r \in Run /\ runs[r] # None /\ (runs[r] = Gone \/ runs[r].status = "running")
      BY <2>1 DEF RunsInHand, Jobs, KnownRuns, RunOp
    <3>2. ASSUME NEW v \in Worker, Finish(v), ops[v] \in RunOp, ops[v].run = r
          PROVE  FALSE
      <4>1. v = w
        BY <2>1, <3>2 DEF RunsInHand
      <4>2. ops[w].next = "finish" /\ ops'[w] # ops[w]
        <5>1. ops[w].next = "finish"
          BY <3>2, <4>1 DEF Finish, At
        <5>2. ops' = [ops EXCEPT ![w] = IF ops[w].rest \in {None, <<>>} THEN Idle ELSE [next |-> "due", rest |-> ops[w].rest]]
          BY <3>2, <4>1 DEF Finish, Put, AfterRun
        <5>3. ops'[w] = Idle \/ ops'[w] = [next |-> "due", rest |-> ops[w].rest]
          BY <5>2, OpStep DEF Jobs
        <5>4. ops'[w].next \in {"idle", "due"}
          BY <5>3 DEF Idle
        <5>5. QED
          BY <5>1, <5>4
      <4>3. QED
        BY <1>2, <2>1, <3>1, <4>2, RunBefore
    <3> HIDE DEF r
    <3>3. runs'[r] = runs[r] \/ runs'[r] = Gone
      BY <3>1, <3>2, RunChanges
    <3>4. QED
      BY <2>1, <3>1, <3>3 DEF r
  <2>2. QED
    BY <1>2, <2>1, RunBefore
<1>3. ASSUME NEW w \in Worker, ops'[w] \in RunOp, ops'[w].next = "deliver"
      PROVE  ops'[w].file /\ ops'[w].run \in disk'
  <2>1. CASE ops'[w] = ops[w]
    <3> DEFINE r == ops[w].run
    <3>1. r \in Run /\ ops[w].file /\ r \in disk
      BY <1>3, <2>1 DEF RunsInHand, RunOp
    <3>2. ~(Exists(r) /\ Swept(r))
      BY <1>3, <2>1, <3>1, SweptAreOld
    <3> HIDE DEF r
    <3>3. r \in disk'
      BY <3>1, <3>2, DiskChanges
    <3>4. QED
      BY <2>1, <3>1, <3>3 DEF r
  <2>2. CASE Build(w) /\ ops[w] \in RunOp
    BY <1>3, <2>1, <2>2, BuiltRun
  <2>3. QED
    BY <1>3, <2>1, <2>2, RunBefore
<1>4. QED
  BY <1>1, <1>2, <1>3 DEF RunsInHand

LEMMA MailedLinksStay ==
    ASSUME TokenLife <= KeepRuns, Types, Reports, RunsKept, FinishedSay, RunsInHand, MailedLinks
    PROVE  MailedLinks'
<1>1. Jobs /\ UNCHANGED now /\ links \subseteq Run \X Nat /\ now \in Nat
  BY ReportsFrame, TimesAre DEF Types, Jobs, JobTypes
<1>2. ASSUME links' # links
      PROVE  MailedLinks'
  <2>1. PICK w \in Worker :
              /\ ops[w] \in RunOp /\ ops[w].next = "deliver"
              /\ ops'[w] \in RunOp /\ ops'[w].next = "finish"
              /\ ops'[w].run = ops[w].run /\ ops'[w].file = ops[w].file
              /\ \A v \in Worker : v # w => ops'[v] = ops[v]
              /\ links' = links \cup {<<ops[w].run, now + TokenLife>>}
              /\ UNCHANGED <<runs, disk>>
    BY <1>1, <1>2, LinkSent
  <2> DEFINE r == ops[w].run
  <2>2. r \in Run /\ r \in disk /\ ops[w].file /\ (runs[r] = Gone \/ runs[r].status = "running")
    BY <2>1 DEF RunsInHand, RunOp
  <2>3. links' = links \cup {<<r, now + TokenLife>>} /\ ops'[w].run = r
    BY <2>1
  <2> HIDE DEF r
  <2>4. ASSUME NEW v \in Worker, NEW link \in links', ops'[v] \in RunOp, link[1] = ops'[v].run
        PROVE  ops'[v].next = "finish" /\ ops'[v].file
    <3>1. CASE v = w
      BY <2>1, <2>2, <3>1
    <3>2. CASE v # w
      <4>1. ops'[v] = ops[v] /\ ops[v] \in RunOp
        BY <2>1, <2>4, <3>2
      <4>2. link \in links
        <5>1. ops[v].run # r
          BY <2>1, <3>2, <4>1 DEF RunsInHand, r
        <5>2. QED
          BY <2>3, <2>4, <4>1, <5>1
      <4>3. QED
        BY <2>4, <4>1, <4>2 DEF MailedLinks
    <3>3. QED
      BY <3>1, <3>2
  <2>5. ASSUME NEW link \in links'
        PROVE  /\ link[2] <= now' + TokenLife
               /\ now' <= link[2] => link[1] \in disk'
               /\ Exists(link[1])' /\ runs'[link[1]].status # "running" =>
                     runs'[link[1]].file /\ link[2] <= runs'[link[1]].finished + TokenLife
    <3>1. CASE link \in links
      BY <1>1, <2>1, <3>1 DEF MailedLinks, Exists
    <3>2. CASE link = <<r, now + TokenLife>>
      <4>1. link[1] = r /\ link[2] = now + TokenLife
        BY <3>2
      <4>2. link[2] <= now' + TokenLife
        BY <1>1, <4>1, ClockAssumption
      <4>3. ~(Exists(link[1])' /\ runs'[link[1]].status # "running")
        BY <2>1, <2>2, <4>1 DEF Exists
      <4>4. link[1] \in disk'
        BY <2>1, <2>2, <4>1
      <4>5. QED
        BY <4>2, <4>3, <4>4
    <3>3. QED
      BY <2>3, <2>5, <3>1, <3>2
  <2>6. QED
    BY <2>4, <2>5 DEF MailedLinks
<1>3. ASSUME links' = links
      PROVE  MailedLinks'
  <2>1. ASSUME NEW w \in Worker, NEW link \in links, ops'[w] \in RunOp, link[1] = ops'[w].run
        PROVE  ops'[w].next = "finish" /\ ops'[w].file
    <3>1. runs[link[1]] # None
      BY <2>1 DEF RunsKept
    <3>2. ops[w] \in RunOp /\ ops'[w].run = ops[w].run
      BY <1>1, <2>1, <3>1, RunBefore
    <3>3. ops[w].next = "finish" /\ ops[w].file
      BY <2>1, <3>2 DEF MailedLinks
    <3>4. QED
      BY <1>1, <2>1, <3>1, <3>3, RunBefore
  <2>2. ASSUME NEW link \in links, now <= link[2]
        PROVE  link[1] \in disk'
    <3> DEFINE r == link[1]
    <3>1. r \in Run /\ r \in disk /\ link[2] \in Nat
      BY <1>1, <2>2 DEF MailedLinks
    <3>2. ~(Exists(r) /\ Swept(r))
      BY <1>1, <2>2, <3>1, SweptAreOld
    <3> HIDE DEF r
    <3>3. r \in disk'
      BY <1>1, <3>1, <3>2, DiskChanges
    <3>4. QED
      BY <3>3 DEF r
  <2>3. ASSUME NEW link \in links, Exists(link[1])', runs'[link[1]].status # "running"
        PROVE  runs'[link[1]].file /\ link[2] <= runs'[link[1]].finished + TokenLife
    <3>1. PICK r \in Run : r = link[1]
      BY <1>1
    <3>2. link[2] <= now + TokenLife /\ runs[r] # None /\ Exists(r)' /\ runs'[r].status # "running"
      BY <2>3, <3>1 DEF MailedLinks, RunsKept, Exists
    <3>3. \A w \in Worker : ops[w] \in RunOp /\ ops[w].run = r => ops[w].file
      BY <2>3, <3>1 DEF MailedLinks
    <3>4. Exists(r) /\ runs[r].status # "running" => runs[r].file /\ link[2] <= runs[r].finished + TokenLife
      BY <2>3, <3>1 DEF MailedLinks
    <3>5. CASE runs'[r] = runs[r]
      BY <3>1, <3>2, <3>4, <3>5 DEF Exists
    <3>6. ASSUME NEW w \in Worker, ops[w] \in RunOp, ops[w].run = r, Exists(r), runs'[r] = Record(runs[r], ops[w])
          PROVE  runs'[r].file /\ runs'[r].finished = now
      <4>1. runs[r] \in RunRow
        BY <1>1, <3>1, <3>6 DEF Exists, Jobs, JobTypes
      <4>2. now \in Time
        BY <1>1 DEF Jobs, JobTypes
      <4>3. QED
        BY <3>3, <3>6, <4>1, <4>2, RecordedRow
    <3>7. runs'[r].file /\ link[2] <= runs'[r].finished + TokenLife
      BY <1>1, <3>1, <3>2, <3>5, <3>6, RunChanges DEF Exists
    <3>8. QED
      BY <3>1, <3>7
  <2>4. QED
    BY <1>1, <1>3, <2>1, <2>2, <2>3 DEF MailedLinks
<1>4. QED
  BY <1>2, <1>3

LEMMA SweepsStayOld ==
    ASSUME TokenLife <= KeepRuns, Types, Reports, LinkChain
    PROVE  SweepsOld'
<1>1. Jobs /\ UNCHANGED now /\ links \subseteq Run \X Nat /\ now \in Nat
  BY ReportsFrame, TimesAre DEF Types, Jobs, JobTypes
<1> SUFFICES ASSUME NEW w \in Worker, ops'[w] \in SweepOp, NEW r \in ops'[w].rows
             PROVE  /\ runs'[r] = Gone \/ (Exists(r)' /\ runs'[r].finished # None)
                    /\ \A link \in links' : link[1] = r => link[2] < now'
                    /\ \A v \in Worker : ops'[v] \in RunOp => ops'[v].run # r
  BY DEF SweepsOld
<1>2. r \in Run
  BY DEF SweepOp
<1>3. /\ runs[r] = Gone \/ (Exists(r) /\ runs[r].finished # None)
      /\ \A link \in links : link[1] = r => link[2] < now
      /\ \A v \in Worker : ops[v] \in RunOp => ops[v].run # r
  <2>1. CASE ops'[w] = ops[w]
    BY <2>1 DEF LinkChain, SweepsOld
  <2>2. CASE ops'[w].rows = {x \in Run : runs[x] \notin {None, Gone} /\ Swept(x)}
    <3>1. Exists(r) /\ Swept(r)
      BY <2>2 DEF Exists
    <3>2. QED
      BY <1>1, <1>2, <3>1, SweptAreOld DEF LinkChain
  <2>3. ops'[w] \notin RunOp \cup ExportOp \cup ScanOp \cup DueOp \cup RecordOp /\ ops'[w] # Idle
    <3>1. ops'[w].next = "sweep" /\ Idle.next = "idle" /\ ops'[w] \in JobOp
      BY DEF SweepOp, Idle, JobOp
    <3>2. QED
      BY <3>1, KindOf
  <2>4. QED
    BY <1>1, <2>1, <2>2, <2>3, JobSteps
<1>4. runs[r] # None
  BY <1>3, NoneAssumption DEF Exists
<1>5. ASSUME NEW v \in Worker, ops'[v] \in RunOp
      PROVE  ops'[v].run # r
  BY <1>1, <1>3, <1>4, <1>5, RunBefore
<1>6. runs'[r] = Gone \/ (Exists(r)' /\ runs'[r].finished # None)
  BY <1>1, <1>2, <1>3, <1>4, RunChanges DEF Exists
<1>7. ASSUME NEW link \in links', link[1] = r
      PROVE  link[2] < now'
  <2>1. link \in links
    <3>1. CASE links' = links
      BY <1>7, <3>1
    <3>2. CASE links' # links
      <4>1. PICK v \in Worker :
              /\ ops[v] \in RunOp /\ ops[v].next = "deliver"
              /\ ops'[v] \in RunOp /\ ops'[v].next = "finish"
              /\ ops'[v].run = ops[v].run /\ ops'[v].file = ops[v].file
              /\ \A u \in Worker : u # v => ops'[u] = ops[u]
              /\ links' = links \cup {<<ops[v].run, now + TokenLife>>}
              /\ UNCHANGED <<runs, disk>>
        BY <1>1, <3>2, LinkSent
      <4>2. ops[v].run # r
        BY <1>3, <4>1
      <4>3. QED
        BY <1>7, <4>1, <4>2
    <3>3. QED
      BY <3>1, <3>2
  <2>2. QED
    BY <1>1, <1>3, <1>7, <2>1
<1>8. QED
  BY <1>5, <1>6, <1>7

LEMMA LinksStayChained ==
    ASSUME TokenLife <= KeepRuns, Types, RunsKept, LinkChain, [Next]_vars
    PROVE  LinkChain'
<1>1. CASE ~Reports
  <2>1. /\ UNCHANGED <<runs, disk, links>> /\ now' \in {now, now + 1}
        /\ \A w \in Worker : ops'[w] \in JobOp => ops'[w] = ops[w]
    BY <1>1, OtherJobs
  <2>2. \A w \in Worker : ops'[w] \in RunOp \cup SweepOp => ops'[w] = ops[w]
    BY <2>1 DEF JobOp
  <2>3. now \in Nat /\ now' \in Nat /\ now <= now' /\ TokenLife \in Nat
    BY <2>1, TimesAre, ClockAssumption DEF Types, Jobs, JobTypes
  <2>4. \A link \in links : link[2] \in Nat
    BY DEF Types, Jobs, JobTypes
  <2>5. FinishedSay' /\ RunsInHand'
    BY <2>1, <2>2 DEF LinkChain, FinishedSay, RunsInHand, Exists
  <2>6. MailedLinks'
    <3>1. \A link \in links : /\ link[2] <= now' + TokenLife
                              /\ now' <= link[2] => link[1] \in disk
      BY <2>3, <2>4 DEF LinkChain, MailedLinks
    <3>2. QED
      BY <2>1, <2>2, <3>1 DEF LinkChain, MailedLinks, Exists
  <2>7. SweepsOld'
    <3>1. \A link \in links : link[2] < now => link[2] < now'
      BY <2>3, <2>4
    <3>2. QED
      BY <2>1, <2>2, <3>1 DEF LinkChain, SweepsOld, Exists
  <2>8. QED
    BY <2>5, <2>6, <2>7 DEF LinkChain
<1>2. CASE Reports
  BY <1>2, FinishedStillSay, RunsStayInHand, MailedLinksStay, SweepsStayOld DEF LinkChain, Types
<1>3. QED
  BY <1>1, <1>2

(* While the sweep keeps a run at least as long as its link is good, a     *)
(* link that was mailed and has not expired downloads the report once its  *)
(* run is recorded, as long as the schedule is there: neither the sweep's  *)
(* two transactions nor a failed mail takes the file from under it         *)
(* (signed_url.py, download_run, retention/sweep.py).                      *)
THEOREM MailedLinksWork ==
    ASSUME TokenLife <= KeepRuns
    PROVE  Spec => []LinksWork
<1>1. Init => LinkChain
  <2> SUFFICES ASSUME Init PROVE LinkChain
    OBVIOUS
  <2>1. ops = [w \in Worker |-> Idle] /\ runs = [r \in Run |-> None] /\ links = {}
    BY Zenon DEF Init
  <2>2. Idle \notin RunOp \cup SweepOp
    BY DEF RunOp, SweepOp, Idle
  <2>3. FinishedSay /\ RunsInHand
    BY <2>1, <2>2 DEF FinishedSay, RunsInHand, Exists
  <2>4. MailedLinks /\ SweepsOld
    BY <2>1, <2>2 DEF MailedLinks, SweepsOld
  <2>5. QED
    BY <2>3, <2>4 DEF LinkChain
<1>2. Types /\ RunsKept /\ LinkChain /\ [Next]_vars => LinkChain'
  BY LinksStayChained
<1>3. RunsKept /\ LinkChain => LinksWork
  <2> SUFFICES ASSUME RunsKept, LinkChain, NEW link \in links, now <= link[2]
               PROVE  \/ Downloads(link)
                      \/ runs[link[1]] = Gone /\ link[1] \in disk
                      \/ runs[link[1]] # Gone /\ runs[link[1]].status = "running"
    BY DEF LinksWork
  <2>1. link[1] \in disk /\ runs[link[1]] # None
    BY DEF LinkChain, MailedLinks, RunsKept
  <2>2. Exists(link[1]) /\ runs[link[1]].status # "running" => runs[link[1]].file
    BY DEF LinkChain, MailedLinks
  <2>3. QED
    BY <2>1, <2>2 DEF Downloads, Exists
<1>4. QED
  BY <1>1, <1>2, <1>3, RowsAreKept, PTL DEF Spec

===============================================================================
