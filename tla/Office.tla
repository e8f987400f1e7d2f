------------------------------- MODULE Office -------------------------------
(***************************************************************************)
(* One tenant's attendance and its background jobs together: the pages     *)
(* and jobs of both are in flight at the same time, share the clock and    *)
(* die together.                                                           *)
(***************************************************************************)
EXTENDS Attendance, ScheduledRuns

CONSTANTS
    Weekends,  \* sets of days the weekend may be set to
    Rematches  \* what a request to match again may hold

ASSUME RematchAssumption ==
    Rematches \subseteq [first : Day, last : Day, only : BOOLEAN, again : BOOLEAN]

(* A tenant on a working day: one employee has been seen twice, one policy *)
(* holds for all, one schedule is on, and so is the export.                *)
Init ==
    \E begin \in Beginnings :
    LET e    == CHOOSE x \in begin.staff : TRUE
        p    == CHOOSE x \in Policy : TRUE
        s    == CHOOSE x \in Schedule : TRUE
        form == CHOOSE x \in Form : x.type = "Fixed"
        cron == CHOOSE x \in Cron : TRUE
        a    == CHOOSE x \in Shot : TRUE
        b    == CHOOSE x \in Shot : x # a
    IN
    /\ now = 2
    /\ staff = begin.staff
    /\ shots = [k \in Shot |-> IF k = a THEN [at |-> 0, emp |-> e]
                               ELSE IF k = b THEN [at |-> 2, emp |-> e] ELSE None]
    /\ policies = [q \in Policy |->
           IF q = p THEN [type |-> form.type, config |-> form.config, from |-> 0, until |-> None]
           ELSE None]
    /\ assignments = {} /\ leaves = {} /\ holidays = {}
    /\ settings = [weekend |-> {}, ahead |-> begin.ahead]
    /\ records = [x \in Employee |-> [d \in Day |-> None]]
    /\ notices = [x \in Employee |-> [d \in Day |-> 0]]
    /\ schedules = [x \in Schedule |->
           IF x = s
           THEN [cron |-> cron, active |-> TRUE, sends |-> TRUE, next |-> NextRun(cron, 0)]
           ELSE None]
    /\ runs = [r \in Run |-> None]
    /\ disk = {} /\ links = {}
    /\ mailed = [x \in Schedule |-> [t \in Time |-> 0]]
    /\ email = TRUE
    /\ erp = [enabled |-> TRUE, cron |-> cron, next |-> NextRun(cron, 0)]
    /\ ops = [w \in Worker |-> Idle]
    /\ settled = {} /\ overtaken = {}
    /\ crashed = FALSE /\ unrecorded = {}
    /\ fuel = begin.fuel

Pages ==
    \/ \E k \in Shot, e \in Employee \cup {None} : Shoot(k, e)
    \/ \E p \in Policy :
        \/ \E form \in Form, window \in Window :
              CreatePolicy(p, form, window) \/ PatchPolicy(p, form, window)
        \/ DeletePolicy(p)
        \/ \E scope \in Employee \cup Department \cup {"tenant"}, window \in Window :
              CreateAssignment(p, scope, window)
    \/ \E a \in assignments : DeleteAssignment(a)
    \/ \E e \in Employee, first, last \in Day : CreateLeave(e, first, last)
    \/ \E l \in leaves : DeleteLeave(l)
    \/ \E d \in Day : CreateHoliday(d) \/ DeleteHoliday(d)
    \/ \E days \in {x \in SUBSET Day : Cardinality(x) > 1} : ImportHolidays(days)
    \/ \E weekend \in Weekends, ahead \in Zones : PatchSettings(weekend, ahead)
    \/ \E e \in Employee : Leave(e)

Recomputing ==
    \E w \in Worker :
        \/ RecomputeToday(w) \/ Snapshot(w) \/ WriteRow(w) \/ FailRow(w) \/ Reassign(w)
        \/ \E d \in Day : Regenerate(w, d)
        \/ \E e \in Employee, d \in Day : ReadRow(w, e, d) \/ SkipRow(w, e, d)
        \/ \E x \in Rematches : Rematch(w, x.first, x.last, x.only, x.again)

Reports ==
    \/ \E s \in Schedule :
        \/ \E cron \in Cron : PatchCron(s, cron) \/ \E sends \in BOOLEAN : CreateSchedule(s, cron, sends)
        \/ \E active, sends \in BOOLEAN : PatchSchedule(s, active, sends)
        \/ DeleteSchedule(s)
        \/ \E w \in Worker : RunNow(w, s)
    \/ \E enabled \in BOOLEAN : PatchEmail(enabled) \/ PatchErp(enabled)
    \/ \E cron \in Cron \cup {None} : PatchErpCron(cron)
    \/ \E w \in Worker :
        \/ Build(w) \/ Deliver(w) \/ Finish(w) \/ FinishFails(w)
        \/ Tick(w) \/ Scan(w) \/ StartDue(w) \/ SkipDue(w)
        \/ ExportNow(w) \/ RereadConfig(w) \/ RecordExport(w) \/ ExportFails(w)
        \/ SweepFiles(w) \/ SweepRows(w)

TimePasses ==
    /\ now + 1 \in Time
    /\ now' = now + 1
    /\ UNCHANGED <<attendanceVars, jobVars, ops, crashed, unrecorded, fuel>>

(* A transaction with which the job has nothing to go on raises, and what  *)
(* it did is rolled back.  The job of today comes again on its interval.   *)
Abandon(w) ==
    /\ Event(IF ops[w].next \in {"snapshot", "reassign"} THEN "recompute" ELSE "report")
    /\ ops[w].next \in {"snapshot", "reassign", "scan", "sweep"}
    /\ Done(w)
    /\ UNCHANGED <<now, attendanceVars, jobVars, crashed, unrecorded>>

(* The process dies and comes up again: what was in flight is lost, and    *)
(* the attendance scheduler begins with a recompute of today.              *)
Crash(w) ==
    /\ ~crashed /\ crashed' = TRUE
    /\ \E v \in Worker : ~At(v, "idle")
    /\ ops' = [v \in Worker |-> IF v = w THEN Today ELSE Idle]
    /\ UNCHANGED <<now, attendanceVars, jobVars, unrecorded, fuel>>

Next == Pages \/ Recomputing \/ Reports \/ TimePasses \/ \E w \in Worker : Abandon(w) \/ Crash(w)

Spec == Init /\ [][Next]_vars

(* Rows refer to rows: a record to its policy, a run to its schedule; and  *)
(* what is stored about a run belongs to a run that was begun.             *)
TypeOK ==
    /\ now \in Time /\ fuel \in [EventKind -> Nat] /\ crashed \in BOOLEAN
    /\ staff \subseteq Employee
    /\ \A k \in Shot : shots[k] # None => shots[k].at <= now /\ shots[k].emp \in Employee \cup {None}
    /\ \A e \in Employee, d \in Day : records[e][d] # None =>
          /\ policies[records[e][d].policy] # None
          /\ records[e][d].over >= 0
          /\ records[e][d].absent => records[e][d].in = None
    /\ \A a \in assignments : policies[a.policy] # None
    /\ settled \subseteq {x \in Pairs : records[x[1]][x[2]] # None}
    /\ \A r \in Run : runs[r] \notin {None, Gone} => Listed(runs[r].schedule)
    /\ \A r \in disk : runs[r] # None
    /\ \A link \in links : runs[link[1]] # None

=============================================================================
