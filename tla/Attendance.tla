----------------------------- MODULE Attendance -----------------------------
(***************************************************************************)
(* attendance/, attendance_calendar/, policies/, leave_calendar/ and the   *)
(* rematch of identification/: how detections, policies, leaves, holidays  *)
(* and settings become attendance records, which code recomputes a record  *)
(* and when, and how the pages read them.                                  *)
(*                                                                         *)
(* Minutes are slots of the day; the last slot is the last second of it.   *)
(* A record keeps whether its day is on leave, not the type of the leave.  *)
(***************************************************************************)
EXTENDS OfficeState

CONSTANT Gap  \* slots without a detection that a stay of the timeline bridges

ASSUME GapAssumption == Gap \in Nat

Pairs == Employee \X Day

Least(S) == CHOOSE x \in S : \A y \in S : x <= y
Greatest(S) == CHOOSE x \in S : \A y \in S : y <= x

-----------------------------------------------------------------------------
(* engine.py: the record of one employee and day. *)

Slot(k) == shots[k].at % DayLength

(* A policy is judged by the windows of its config or by its hours. *)
Flexible(p) == p.type = "Flex" \/ (p.type = "Custom" /\ p.config.inner = "Flex")

(* Hours and grace are added as times of day: they wrap at midnight. *)
Late(p, in) ==
    IF Flexible(p) THEN in > p.config.inEnd
    ELSE in > (p.config.start + p.config.grace) % DayLength

EarlyOut(p, out) ==
    IF Flexible(p) THEN out < p.config.outStart
    ELSE out < (p.config.end - p.config.grace) % DayLength

Unseen(p, onLeave, off) ==
    [policy |-> p.id, in |-> None, out |-> None, late |-> FALSE, early |-> FALSE, short |-> FALSE,
     absent |-> ~onLeave /\ ~off, over |-> 0, leave |-> onLeave]

(* One detection is a check in without a check out; a day off has overtime *)
(* and no other mark.                                                      *)
Seen(p, ks, onLeave, off) ==
    LET in    == Least({Slot(k) : k \in ks})
        last  == Greatest({Slot(k) : k \in ks})
        twice == Cardinality(ks) > 1
        total == last - in
    IN  [policy |-> p.id,
         in     |-> in,
         out    |-> IF twice THEN last ELSE None,
         late   |-> ~off /\ Late(p, in),
         early  |-> ~off /\ twice /\ EarlyOut(p, last),
         short  |-> ~off /\ twice /\ total < p.config.need,
         absent |-> FALSE,
         over   |-> IF ~twice THEN 0
                    ELSE IF off THEN total
                    ELSE Greatest({0, total - p.config.need}),
         leave  |-> onLeave]

Compute(p, ks, onLeave, off) ==
    IF ks = {} THEN Unseen(p, onLeave, off) ELSE Seen(p, ks, onLeave, off)

-----------------------------------------------------------------------------
(* repository.py: what the record is computed from. *)

Active(x, d) == x.from <= d /\ (x.until = None \/ d <= x.until)

Latest(S) == {x \in S : \A y \in S : y.from <= x.from}

Rows == {[id |-> p, type |-> policies[p].type, config |-> policies[p].config,
          from |-> policies[p].from, until |-> policies[p].until] :
            p \in {q \in Policy : policies[q] # None}}

(* Custom and Ramadan policies count on the days of their config's range. *)
Ranged(type, d) ==
    Latest({p \in Rows : /\ p.type = type /\ Active(p, d)
                         /\ p.config.lo # None /\ p.config.lo <= d /\ d <= p.config.hi})

(* An assignment counts in its own window; its policy's is not looked at. *)
Assigned(scope, d) ==
    LET latest == Latest({a \in assignments : a.scope = scope /\ Active(a, d)})
    IN  {p \in Rows : \E a \in latest : a.policy = p.id}

Legacy(d) == Latest({p \in Rows : Active(p, d)})

Tiers(e, d) ==
    <<Ranged("Custom", d), Ranged("Ramadan", d), Assigned(e, d),
      Assigned(DepartmentOf[e], d), Assigned("tenant", d), Legacy(d)>>

(* The policies resolution may pick: the first tier that has any.  Rows    *)
(* that are equally late come in no particular order.                      *)
Resolved(e, d) ==
    LET tiers == Tiers(e, d)
        held  == {i \in DOMAIN tiers : tiers[i] # {}}
    IN  IF held = {} THEN {} ELSE tiers[Least(held)]

OnLeave(e, d) == \E l \in leaves : l.emp = e /\ l.first <= d /\ d <= l.last

Off(d) == d \in holidays \/ d \in settings.weekend

(* Detections of the employee on a day of the server's zone. *)
Events(e, d) ==
    {k \in Shot : shots[k] # None /\ shots[k].emp = e /\ ServerDay(shots[k].at) = d}

Overtime(e, d) == IF records[e][d] = None THEN 0 ELSE records[e][d].over

-----------------------------------------------------------------------------
(* scheduler.py, attendance/router.py: the recomputes.  The job of today   *)
(* reads the settings, then the employees, policies and holidays, then     *)
(* takes each employee in a transaction of its own; the others read all    *)
(* again for every row.  A row in hand has been read and not yet written.  *)

Recompute(kind, todo) ==
    [kind |-> kind, next |-> "row", day |-> None, off |-> FALSE, plan |-> None,
     todo |-> todo, row |-> None, spoiled |-> {}]

Recomputes(op) == "spoiled" \in DOMAIN op

InHand(op) == IF Recomputes(op) /\ op.row # None THEN {op.row.pair} ELSE {}

(* What a job in flight has read of these pairs is out of date: the row in *)
(* hand or, when the plan of today's job is changed, all its rows.         *)
Spoiled(op, pairs, planned) ==
    IF ~Recomputes(op) THEN op
    ELSE [op EXCEPT !.spoiled =
             @ \cup IF planned /\ op.kind = "today" THEN pairs ELSE pairs \cap InHand(op)]

Changed(pairs, planned) ==
    /\ settled' = settled \ pairs
    /\ ops' = [w \in Worker |-> Spoiled(ops[w], pairs, planned)]

Today ==
    [Recompute("today", {}) EXCEPT
        !.next = "snapshot", !.day = TenantDay(now), !.off = TenantDay(now) \in settings.weekend]

(* The interval job. *)
RecomputeToday(w) ==
    /\ Event("recompute")
    /\ Begin(w, Today)
    /\ UNCHANGED <<now, attendanceVars, jobVars, crashed, unrecorded>>

(* Any other day is recomputed employee by employee. *)
Regenerate(w, d) ==
    /\ Event("recompute")
    /\ d = ServerDay(now) \/ staff # {}
    /\ Begin(w, IF d = ServerDay(now) THEN Today ELSE Recompute("each", staff \X {d}))
    /\ UNCHANGED <<now, attendanceVars, jobVars, crashed, unrecorded>>

Plans(d) ==
    {plan \in [Employee -> Rows \cup {None}] :
        \A e \in Employee :
            IF e \in staff /\ Resolved(e, d) # {} THEN plan[e] \in Resolved(e, d)
            ELSE plan[e] = None}

Left(op) == IF op.todo = {} THEN Idle ELSE op

Snapshot(w) ==
    LET op == ops[w] IN
    /\ At(w, "snapshot")
    /\ \E plan \in Plans(op.day) :
          Put(w, Left([op EXCEPT
              !.next = "row", !.off = @ \/ op.day \in holidays, !.plan = plan,
              !.todo = {e \in Employee : plan[e] # None} \X {op.day}]))
    /\ UNCHANGED <<now, attendanceVars, jobVars, crashed, unrecorded, fuel>>

ReadRow(w, e, d) ==
    LET op == ops[w] IN
    /\ At(w, "row") /\ op.row = None
    /\ <<e, d>> \in op.todo
    /\ \E p \in IF op.kind = "today" THEN {op.plan[e]} ELSE Resolved(e, d) :
          Put(w, [op EXCEPT
              !.todo = @ \ {<<e, d>>},
              !.row = [pair |-> <<e, d>>, prior |-> Overtime(e, d), raced |-> FALSE,
                       record |-> Compute(p, Events(e, d), OnLeave(e, d),
                                          IF op.kind = "today" THEN op.off ELSE Off(d))]])
    /\ UNCHANGED <<now, attendanceVars, jobVars, crashed, unrecorded, fuel>>

(* No policy resolves any more. *)
SkipRow(w, e, d) ==
    /\ At(w, "row") /\ ops[w].row = None
    /\ <<e, d>> \in ops[w].todo
    /\ ops[w].kind # "today" /\ Resolved(e, d) = {}
    /\ Put(w, Left([ops[w] EXCEPT !.todo = @ \ {<<e, d>>}]))
    /\ UNCHANGED <<now, attendanceVars, jobVars, crashed, unrecorded, fuel>>

(* Mutant: every recompute that finds overtime notifies. *)
CrossesAlways(row) == row.record.over > 0

(* The managers are told when overtime appears where none was stored. *)
Crosses(row) == row.record.over > 0 /\ row.prior = 0

(* Mutant: the conflict clause leaves the leave column alone. *)
UpsertKeepsLeave(old, new) == IF old = None THEN new ELSE [new EXCEPT !.leave = old.leave]

Upsert(old, new) == new

WriteRow(w) ==
    LET op == ops[w] IN
    /\ At(w, "row") /\ op.row # None
    /\ LET pair == op.row.pair
           e == pair[1]
           d == pair[2]
       IN  /\ records' = [records EXCEPT ![e][d] = Upsert(@, op.row.record)]
           /\ notices' = IF Crosses(op.row) THEN [notices EXCEPT ![e][d] = @ + 1] ELSE notices
           /\ settled' = IF pair \in op.spoiled THEN settled \ {pair} ELSE settled \cup {pair}
           /\ ops' = [v \in Worker |->
                 IF v = w THEN Left([op EXCEPT !.row = None])
                 ELSE IF pair \in InHand(ops[v]) THEN [ops[v] EXCEPT !.row.raced = TRUE]
                 ELSE ops[v]]
    /\ UNCHANGED <<now, inputs, jobVars, crashed, unrecorded, fuel>>

(* The row's transaction fails and is rolled back: the page's loop over    *)
(* another day gives up, the jobs go on.                                   *)
FailRow(w) ==
    LET op == ops[w] IN
    /\ Event("recompute")
    /\ At(w, "row") /\ op.row # None
    /\ Put(w, IF op.kind = "each" THEN Idle ELSE Left([op EXCEPT !.row = None]))
    /\ UNCHANGED <<now, attendanceVars, jobVars, crashed, unrecorded>>

-----------------------------------------------------------------------------
(* What changes the inputs of a record.  None of these handlers recomputes *)
(* anything.                                                               *)

Shoot(k, e) ==
    /\ Event("input")
    /\ shots[k] = None
    /\ e \in staff \cup {None}
    /\ shots' = [shots EXCEPT ![k] = [at |-> now, emp |-> e]]
    /\ Changed({e} \X {ServerDay(now)}, FALSE)
    /\ UNCHANGED <<now, staff, policies, assignments, leaves, holidays, settings, records,
                   notices, jobVars, crashed, unrecorded>>

WritePolicy(p, row) ==
    /\ policies' = [policies EXCEPT ![p] = row]
    /\ Changed(Pairs, TRUE)
    /\ UNCHANGED <<now, staff, shots, assignments, leaves, holidays, settings, records,
                   notices, jobVars, crashed, unrecorded>>

CreatePolicy(p, form, window) ==
    /\ Event("input")
    /\ policies[p] = None
    /\ WritePolicy(p, [type |-> form.type, config |-> form.config,
                       from |-> window[1], until |-> window[2]])

(* The config is replaced, whatever the type is. *)
PatchPolicy(p, form, window) ==
    /\ Event("input")
    /\ policies[p] # None
    /\ WritePolicy(p, [type |-> policies[p].type, config |-> form.config,
                       from |-> window[1], until |-> window[2]])

(* A soft delete: the policy was last active the day before. *)
DeletePolicy(p) ==
    /\ Event("input")
    /\ policies[p] # None
    /\ WritePolicy(p, [policies[p] EXCEPT !.until = ServerDay(now) - 1])

WriteAssignments(rows) ==
    /\ assignments' = rows
    /\ Changed(Pairs, TRUE)
    /\ UNCHANGED <<now, staff, shots, policies, leaves, holidays, settings, records,
                   notices, jobVars, crashed, unrecorded>>

CreateAssignment(p, scope, window) ==
    /\ Event("input")
    /\ policies[p] # None
    /\ WriteAssignments(assignments \cup
           {[policy |-> p, scope |-> scope, from |-> window[1], until |-> window[2]]})

DeleteAssignment(a) ==
    /\ Event("input")
    /\ WriteAssignments(assignments \ {a})

WriteLeaves(rows, e, first, last) ==
    /\ leaves' = rows
    /\ Changed({e} \X (first .. last), FALSE)
    /\ UNCHANGED <<now, staff, shots, policies, assignments, holidays, settings, records,
                   notices, jobVars, crashed, unrecorded>>

CreateLeave(e, first, last) ==
    /\ Event("input")
    /\ first <= last
    /\ WriteLeaves(leaves \cup {[emp |-> e, first |-> first, last |-> last]}, e, first, last)

DeleteLeave(l) ==
    /\ Event("input")
    /\ WriteLeaves(leaves \ {l}, l.emp, l.first, l.last)

WriteHolidays(days) ==
    /\ holidays' = days
    /\ Changed(Employee \X ((days \ holidays) \cup (holidays \ days)), TRUE)
    /\ UNCHANGED <<now, staff, shots, policies, assignments, leaves, settings, records,
                   notices, jobVars, crashed, unrecorded>>

CreateHoliday(d) ==
    /\ Event("input")
    /\ d \notin holidays
    /\ WriteHolidays(holidays \cup {d})

DeleteHoliday(d) ==
    /\ Event("input")
    /\ d \in holidays
    /\ WriteHolidays(holidays \ {d})

(* Days that are there already are skipped. *)
ImportHolidays(days) ==
    /\ Event("input")
    /\ WriteHolidays(holidays \cup days)

PatchSettings(weekend, ahead) ==
    /\ Event("input")
    /\ settings' = [weekend |-> weekend, ahead |-> ahead]
    /\ Changed(Pairs, TRUE)
    /\ UNCHANGED <<now, staff, shots, policies, assignments, leaves, holidays, records,
                   notices, jobVars, crashed, unrecorded>>

(* The employee is deactivated. *)
Leave(e) ==
    /\ Event("input")
    /\ e \in staff
    /\ staff' = staff \ {e}
    /\ UNCHANGED <<now, shots, policies, assignments, leaves, holidays, settings, records,
                   notices, settled, jobVars, ops, crashed, unrecorded>>

-----------------------------------------------------------------------------
(* identification/router.py: matching the detections of some days again.   *)

Rematch(w, first, last, only, again) ==
    LET read == {k \in Shot : /\ shots[k] # None
                              /\ TenantDay(shots[k].at) \in first .. last
                              /\ only => shots[k].emp = None}
    IN  /\ Event("recompute")
        /\ first <= last /\ last <= TenantDay(now)
        /\ Begin(w, [kind |-> "rematch", next |-> "reassign", again |-> again,
                     read |-> [k \in read |-> [emp |-> shots[k].emp,
                                               day |-> TenantDay(shots[k].at)]]])
        /\ UNCHANGED <<now, attendanceVars, jobVars, crashed, unrecorded>>

(* The detections that match someone else than they did when they were     *)
(* read are given to him; the rows of both are recomputed if that was      *)
(* asked for.                                                              *)
Reassign(w) ==
    LET op == ops[w] IN
    /\ At(w, "reassign")
    /\ \E owner \in [DOMAIN op.read -> staff \cup {None}] :
       LET moved  == {k \in DOMAIN op.read : owner[k] # op.read[k].emp}
           inputsOf == UNION {{shots[k].emp, owner[k]} \X {ServerDay(shots[k].at)} : k \in moved}
           todo   == UNION {({op.read[k].emp, owner[k]} \ {None}) \X {op.read[k].day} : k \in moved}
       IN  /\ shots' = [k \in Shot |-> IF k \in moved THEN [shots[k] EXCEPT !.emp = owner[k]]
                                       ELSE shots[k]]
           /\ settled' = settled \ inputsOf
           /\ ops' = [v \in Worker |->
                 IF v # w THEN Spoiled(ops[v], inputsOf, FALSE)
                 ELSE IF op.again THEN Left(Recompute("rematch", todo)) ELSE Idle]
    /\ UNCHANGED <<now, staff, policies, assignments, leaves, holidays, settings, records,
                   notices, jobVars, crashed, unrecorded, fuel>>

-----------------------------------------------------------------------------
(* attendance_calendar/queries.py, attendance/router.py and                *)
(* erp_export/builder.py: what the pages and the export make of a record.  *)

Marked(r) ==
    IF r.leave THEN "leave" ELSE IF r.absent THEN "absent"
    ELSE IF r.late THEN "late" ELSE "present"

(* Of a day as such, before any record is looked at. *)
Special(d) ==
    IF d > TenantDay(now) THEN "future" ELSE IF d \in holidays THEN "holiday"
    ELSE IF d \in settings.weekend THEN "weekend" ELSE None

PersonStatus(e, d) ==
    IF Special(d) # None THEN Special(d)
    ELSE IF records[e][d] # None THEN Marked(records[e][d])
    ELSE IF OnLeave(e, d) THEN "leave" ELSE "no_record"

(* Mutant: the drawer looks at the record first. *)
DayStatusByRow(e, d) ==
    IF records[e][d] # None THEN Marked(records[e][d])
    ELSE IF Special(d) # None THEN Special(d) ELSE "no_record"

(* The drawer of a day does not look at the leaves. *)
DayStatus(e, d) ==
    IF Special(d) # None THEN Special(d)
    ELSE IF records[e][d] # None THEN Marked(records[e][d]) ELSE "no_record"

ErpStatus(r) ==
    IF r.leave THEN "leave" ELSE IF r.absent THEN "absent" ELSE IF r.late THEN "late"
    ELSE IF r.short THEN "short" ELSE IF r.early THEN "early_out" ELSE "on_time"

RecordsOf(d) == {e \in Employee : records[e][d] # None}

CompanyDay(d) ==
    LET count(Is(_)) == Cardinality({e \in RecordsOf(d) : Is(records[e][d])})
        late    == count(LAMBDA r : r.late)
        onLeave == count(LAMBDA r : r.leave)
    IN  [present |-> Greatest({0, count(LAMBDA r : r.in # None) - late}),
         late    |-> late,
         leave   |-> onLeave,
         absent  |-> Greatest({0, count(LAMBDA r : r.absent) - onLeave})]

(* The list of today marks who is absent while the shift is not over. *)
Pending(e) ==
    LET r == records[e][TenantDay(now)] IN
    /\ r # None
    /\ r.absent /\ r.in = None /\ ~r.leave
    /\ (now + settings.ahead) % DayLength < policies[r.policy].config.end

LastSecond == DayLength - 1

(* Detections of the day of the tenant's zone, as stays.  The drawer's day *)
(* ends at 23:59:59: what is detected in the last second is not in it.     *)
Captured(e, d) ==
    {(shots[k].at + settings.ahead) % DayLength :
        k \in {x \in Shot : shots[x] # None /\ shots[x].emp = e /\ TenantDay(shots[x].at) = d}}
    \ {LastSecond}

Stays(at) ==
    LET bridged(a, b) == \A x \in at : a <= x /\ x < b => \E y \in at : x < y /\ y - x <= Gap
    IN  {s \in at \X at : /\ s[1] <= s[2] /\ bridged(s[1], s[2])
                          /\ \A x \in at : x + Gap < s[1] \/ s[1] <= x
                          /\ \A x \in at : x <= s[2] \/ s[2] + Gap < x}

(* Mutant: a stay is listed when the next one begins. *)
TimelineOpen(e, d) ==
    {s \in Stays(Captured(e, d)) : \E x \in Captured(e, d) : s[2] < x}

Timeline(e, d) == Stays(Captured(e, d))

-----------------------------------------------------------------------------
(* Properties. *)

(* A row that was last written from inputs nothing has changed since the   *)
(* recompute read them says, in every column, what the engine computes     *)
(* from them now: whatever read-and-write of other recomputes came between *)
(* (scheduler.py, repository.py upsert_attendance).  Nothing is said of a  *)
(* row whose last writer had read before a change: such a writer may put   *)
(* an older row over a newer one, and only a later recompute rights it.    *)
SettledRowsAreRight ==
    \A e \in Employee, d \in Day :
        <<e, d>> \in settled =>
            \E p \in Resolved(e, d) :
                records[e][d] = Compute(p, Events(e, d), OnLeave(e, d), Off(d))

(* The managers hear of a day's overtime when the stored row had none, and *)
(* not again, unless two recomputes of the row overlapped                  *)
(* (_maybe_notify_overtime).                                               *)
OvertimeNoticedOnce ==
    [][\A e \in Employee, d \in Day :
          notices'[e][d] > notices[e][d] =>
              \/ Overtime(e, d) = 0
              \/ \E w \in Worker : <<e, d>> \in InHand(ops[w]) /\ ops[w].row.raced]_vars

(* The month of a person, the drawer of a day, the list of today, the      *)
(* company's counts and the export tell the same of a row; the drawer and  *)
(* the month differ only on a leave no row has been written for.           *)
ViewsAgree ==
    \A d \in Day :
    LET shown == {e \in Employee : records[e][d] # None}
        status(e) == PersonStatus(e, d)
        onLeave   == \E e \in shown : records[e][d].leave
    IN  /\ \A e \in Employee : status(e) = DayStatus(e, d) \/ (e \notin shown /\ OnLeave(e, d))
        /\ \A e \in shown : Special(d) = None =>
              \/ status(e) = ErpStatus(records[e][d])
              \/ status(e) = "present" /\ ErpStatus(records[e][d]) \in {"short", "early_out", "on_time"}
        /\ CompanyDay(d).present + CompanyDay(d).late =
              Cardinality({e \in shown : records[e][d].in # None})
        /\ Special(d) = None /\ ~onLeave =>
              CompanyDay(d).absent = Cardinality({e \in shown : status(e) = "absent"})
        /\ d = TenantDay(now) =>
              \A e \in Employee : Pending(e) => status(e) \in {"absent", "holiday", "weekend"}

(* While the tenant lives in the server's zone, the stays the drawer shows *)
(* begin with the check in and end with the check out of an up-to-date     *)
(* row, and there are none if it has no check in or one in the last second *)
(* of the day (fetch_day_detail takes the day of the tenant's zone up to   *)
(* 23:59:59, events_for that of the server's up to the last microsecond:   *)
(* a check out in the last second is in the row and not in the drawer).    *)
DetailExplainsRow ==
    settings.ahead = 0 =>
    \A e \in Employee, d \in Day :
    LET r == records[e][d]
        stays == Timeline(e, d)
    IN  <<e, d>> \in settled =>
            IF r.in \in {None, LastSecond} THEN stays = {}
            ELSE /\ \E s \in stays : s[1] = r.in /\ \A t \in stays : r.in <= t[1]
                 /\ r.out \notin {None, LastSecond} =>
                       \E s \in stays : s[2] = r.out /\ \A t \in stays : t[2] <= r.out

=============================================================================
