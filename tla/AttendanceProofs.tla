--------------------------- MODULE AttendanceProofs ---------------------------
(***************************************************************************)
(* Theorems about the attendance records of a tenant: what a row says,     *)
(* when the managers hear of it and how the pages show it, for any         *)
(* calendar, any number of employees, detections and recomputes in flight, *)
(* and whatever the background jobs do meanwhile.                          *)
(***************************************************************************)
EXTENDS OfficeProofs

(***************************************************************************)
(* What a step leaves of the inputs of an employee's day.                  *)
(***************************************************************************)

(* What the job of today plans from: the policy, and whether the day is    *)
(* off.                                                                    *)
PlanStays(e, d) ==
    /\ Resolved(e, d)' = Resolved(e, d)
    /\ Off(d)' = Off(d)
    /\ d \in settings'.weekend <=> d \in settings.weekend

RowStays(e, d) ==
    /\ PlanStays(e, d)
    /\ OnLeave(e, d)' = OnLeave(e, d)
    /\ Events(e, d)' = Events(e, d)
    /\ \A k \in Events(e, d) : shots'[k].at = shots[k].at

LEMMA ResolvedStays ==
    ASSUME UNCHANGED <<policies, assignments>>, NEW e, NEW d
    PROVE  Resolved(e, d)' = Resolved(e, d)
<1>1. Rows' = Rows
  BY DEF Rows
<1>2. ASSUME NEW type
      PROVE  Ranged(type, d)' = Ranged(type, d)
  BY <1>1 DEF Ranged
<1>3. ASSUME NEW scope
      PROVE  Assigned(scope, d)' = Assigned(scope, d)
  BY <1>1 DEF Assigned
<1>4. Legacy(d)' = Legacy(d)
  BY <1>1 DEF Legacy
<1>5. Tiers(e, d)' = Tiers(e, d)
  BY <1>2, <1>3, <1>4 DEF Tiers
<1>6. QED
  BY <1>5 DEF Resolved

(* The row the engine computes depends on the times of the detections.     *)
LEMMA ComputeStays ==
    ASSUME NEW p, NEW ks, NEW onLeave, NEW off, \A k \in ks : shots'[k].at = shots[k].at
    PROVE  Compute(p, ks, onLeave, off)' = Compute(p, ks, onLeave, off)
<1> DEFINE S == {Slot(k) : k \in ks}
<1>1. \A k \in ks : Slot(k)' = Slot(k)
  BY DEF Slot
<1>2. S' = S
  BY <1>1
<1>3. Least(S)' = Least(S) /\ Greatest(S)' = Greatest(S)
  BY <1>2 DEF Least, Greatest
<1>4. Seen(p, ks, onLeave, off)' = Seen(p, ks, onLeave, off)
  BY <1>3 DEF Seen
<1>5. QED
  BY <1>4 DEF Compute

(* What the engine says of an employee's day, by a policy resolution may   *)
(* pick.                                                                   *)
RightRow(row, e, d) ==
    \E p \in Resolved(e, d) : row = Compute(p, Events(e, d), OnLeave(e, d), Off(d))

LEMMA RightRowStays ==
    ASSUME NEW row, NEW e, NEW d, RowStays(e, d), RightRow(row, e, d)
    PROVE  RightRow(row, e, d)'
<1>1. PICK p \in Resolved(e, d) : row = Compute(p, Events(e, d), OnLeave(e, d), Off(d))
  BY DEF RightRow
<1> DEFINE ks == Events(e, d)
           onLeave == OnLeave(e, d)
           off == Off(d)
<1>2. p \in Resolved(e, d)' /\ ks' = ks /\ onLeave' = onLeave /\ off' = off
  BY <1>1 DEF RowStays, PlanStays
<1>3. ASSUME NEW x, NEW l, NEW o, x = ks, l = onLeave, o = off
      PROVE  Compute(p, ks, onLeave, off)' = Compute(p, x, l, o)
  <2>1. \A k \in x : shots'[k].at = shots[k].at
    BY <1>3 DEF RowStays
  <2>2. Compute(p, x, l, o)' = Compute(p, x, l, o)
    BY <2>1, ComputeStays
  <2>3. ks' = x /\ onLeave' = l /\ off' = o
    BY <1>2, <1>3
  <2> HIDE DEF ks, onLeave, off
  <2>4. QED
    BY <2>2, <2>3 DEF Compute, Unseen, Seen
<1>4. QED
  BY <1>1, <1>2, <1>3 DEF RightRow

LEMMA InputsStay ==
    ASSUME UNCHANGED inputs, NEW e, NEW d
    PROVE  RowStays(e, d)
<1>1. UNCHANGED <<shots, policies, assignments, leaves, holidays, settings>>
  BY DEF inputs
<1>2. PlanStays(e, d)
  BY <1>1, ResolvedStays DEF PlanStays, Off
<1>3. QED
  BY <1>1, <1>2 DEF RowStays, OnLeave, Events, ServerDay
LEMMA EventsStay ==
    ASSUME NEW e, NEW d,
           \A k \in Shot : shots'[k] = shots[k] \/ (k \notin Events(e, d) /\ k \notin Events(e, d)')
    PROVE  /\ Events(e, d)' = Events(e, d)
           /\ \A k \in Events(e, d) : shots'[k].at = shots[k].at
<1>1. ASSUME NEW k \in Shot
      PROVE  k \in Events(e, d)' <=> k \in Events(e, d)
  BY DEF Events, ServerDay
<1>2. Events(e, d) \subseteq Shot /\ Events(e, d)' \subseteq Shot
  BY DEF Events
<1>3. QED
  BY <1>1, <1>2

(* What every change of an input marks is what it may change. *)
ChangesOnly(pairs, planned) ==
    \A e \in Employee, d \in Day :
        /\ <<e, d>> \notin pairs => RowStays(e, d)
        /\ ~planned => PlanStays(e, d)

LEMMA AllChange == ChangesOnly(Pairs, TRUE)
  BY DEF ChangesOnly, Pairs

LEMMA ShotChanges ==
    ASSUME Types, NEW k \in Shot, NEW f \in Employee \cup {None}, Shoot(k, f)
    PROVE  ChangesOnly({f} \X {ServerDay(now)}, FALSE)
<1>1. /\ shots[k] = None /\ shots' = [shots EXCEPT ![k] = [at |-> now, emp |-> f]]
      /\ UNCHANGED <<policies, assignments, leaves, holidays, settings>>
  BY DEF Shoot
<1>2. ASSUME NEW e \in Employee, NEW d \in Day
      PROVE  PlanStays(e, d) /\ OnLeave(e, d)' = OnLeave(e, d)
  BY <1>1, ResolvedStays DEF PlanStays, Off, OnLeave
<1>3. ASSUME NEW e \in Employee, NEW d \in Day, <<e, d>> \notin {f} \X {ServerDay(now)}
      PROVE  Events(e, d)' = Events(e, d) /\ \A x \in Events(e, d) : shots'[x].at = shots[x].at
  <2>1. ~(e = f /\ d = ServerDay(now))
    BY <1>3
  <2>2. shots'[k].emp = f /\ shots'[k].at = now
    BY <1>1 DEF Types, AttendanceTypes
  <2>3. k \notin Events(e, d) /\ k \notin Events(e, d)'
    BY <1>1, <2>1, <2>2 DEF Events, ServerDay
  <2>4. \A x \in Shot : x # k => shots'[x] = shots[x]
    BY <1>1 DEF Types, AttendanceTypes
  <2>5. QED
    BY <2>3, <2>4, EventsStay
<1>4. QED
  BY <1>2, <1>3 DEF ChangesOnly, RowStays

LEMMA LeaveChanges ==
    ASSUME Types, NEW f \in Employee, NEW first \in Day, NEW last \in Day, NEW rows, WriteLeaves(rows, f, first, last),
           \A l \in leaves : l \in rows \/ (l.emp = f /\ l.first = first /\ l.last = last),
           \A l \in rows : l \in leaves \/ (l.emp = f /\ l.first = first /\ l.last = last)
    PROVE  ChangesOnly({f} \X (first .. last), FALSE)
<1>1. leaves' = rows /\ UNCHANGED <<shots, policies, assignments, holidays, settings>>
  BY DEF WriteLeaves
<1>2. ASSUME NEW e \in Employee, NEW d \in Day
      PROVE  PlanStays(e, d) /\ Events(e, d)' = Events(e, d)
  BY <1>1, ResolvedStays DEF PlanStays, Off, Events, ServerDay
<1>3. ASSUME NEW e \in Employee, NEW d \in Day, <<e, d>> \notin {f} \X (first .. last)
      PROVE  OnLeave(e, d)' = OnLeave(e, d)
  <2>1. ~(e = f /\ first <= d /\ d <= last)
    BY <1>3, ClockAssumption DEF Day
  <2>2. QED
    BY <1>1, <2>1 DEF OnLeave
<1>4. QED
  BY <1>1, <1>2, <1>3 DEF ChangesOnly, RowStays

LEMMA HolidayChanges ==
    ASSUME Types, NEW days \in SUBSET Day, WriteHolidays(days)
    PROVE  ChangesOnly(Employee \X ((days \ holidays) \cup (holidays \ days)), TRUE)
<1>1. holidays' = days /\ UNCHANGED <<shots, policies, assignments, leaves, settings>>
  BY DEF WriteHolidays
<1>2. ASSUME NEW e \in Employee, NEW d \in Day
      PROVE  /\ Resolved(e, d)' = Resolved(e, d) /\ Events(e, d)' = Events(e, d)
             /\ OnLeave(e, d)' = OnLeave(e, d)
  BY <1>1, ResolvedStays DEF OnLeave, Events, ServerDay
<1>3. ASSUME NEW e \in Employee, NEW d \in Day, <<e, d>> \notin Employee \X ((days \ holidays) \cup (holidays \ days))
      PROVE  Off(d)' = Off(d)
  <2>1. d \in days <=> d \in holidays
    BY <1>3
  <2>2. QED
    BY <1>1, <2>1 DEF Off
<1>4. QED
  BY <1>1, <1>2, <1>3 DEF ChangesOnly, RowStays, PlanStays

LEMMA PageChanges ==
    ASSUME Types, Pages
    PROVE  \/ UNCHANGED <<ops, settled>> /\ ChangesOnly({}, FALSE)
           \/ \E pairs \in SUBSET Touched, planned \in BOOLEAN :
                 /\ planned => pairs \subseteq Pairs
                 /\ Changed(pairs, planned) /\ ChangesOnly(pairs, planned)
<1> DEFINE goal == \E pairs \in SUBSET Touched, planned \in BOOLEAN :
                      /\ planned => pairs \subseteq Pairs
                      /\ Changed(pairs, planned) /\ ChangesOnly(pairs, planned)
<1>1. Pairs \in SUBSET Touched
  BY DEF Pairs, Touched
<1>2. ASSUME Changed(Pairs, TRUE)
      PROVE  goal
  BY <1>1, <1>2, AllChange
<1>3. ASSUME NEW pairs \in SUBSET Touched, Changed(pairs, FALSE), ChangesOnly(pairs, FALSE)
      PROVE  goal
  BY <1>3
<1>4. ASSUME NEW k \in Shot, NEW e \in Employee \cup {None}, Shoot(k, e)
      PROVE  goal
  <2>1. {e} \X {ServerDay(now)} \in SUBSET Touched
    BY DayTypes DEF Touched, Types, Jobs
  <2>2. Changed({e} \X {ServerDay(now)}, FALSE)
    BY <1>4 DEF Shoot
  <2>3. ChangesOnly({e} \X {ServerDay(now)}, FALSE)
    BY <1>4, ShotChanges
  <2> HIDE DEF goal
  <2>4. QED
    BY <1>3, <2>1, <2>2, <2>3
<1>5. ASSUME NEW p \in Policy, NEW row, WritePolicy(p, row)
      PROVE  Changed(Pairs, TRUE)
  BY <1>5 DEF WritePolicy
<1>6. ASSUME NEW p \in Policy, \/ \E form \in Form, window \in Window :
                                    CreatePolicy(p, form, window) \/ PatchPolicy(p, form, window)
                               \/ DeletePolicy(p)
      PROVE  \E row : WritePolicy(p, row)
  BY <1>6, Zenon DEF CreatePolicy, PatchPolicy, DeletePolicy
<1>7. ASSUME NEW rows, WriteAssignments(rows)
      PROVE  Changed(Pairs, TRUE)
  BY <1>7 DEF WriteAssignments
<1>8. ASSUME \/ \E p \in Policy, scope \in Employee \cup Department \cup {"tenant"}, window \in Window :
                   CreateAssignment(p, scope, window)
             \/ \E a \in assignments : DeleteAssignment(a)
      PROVE  \E rows : WriteAssignments(rows)
  BY <1>8, Zenon DEF CreateAssignment, DeleteAssignment
<1>9. ASSUME NEW e \in Employee, NEW first \in Day, NEW last \in Day, NEW rows, WriteLeaves(rows, e, first, last),
             \A l \in leaves : l \in rows \/ (l.emp = e /\ l.first = first /\ l.last = last),
             \A l \in rows : l \in leaves \/ (l.emp = e /\ l.first = first /\ l.last = last)
      PROVE  goal
  <2>1. first .. last \subseteq Day
    BY ClockAssumption DEF Day
  <2>2. {e} \X (first .. last) \in SUBSET Touched
    BY <2>1 DEF Touched
  <2>3. ChangesOnly({e} \X (first .. last), FALSE)
    BY <1>9, LeaveChanges
  <2>4. Changed({e} \X (first .. last), FALSE)
    BY <1>9 DEF WriteLeaves
  <2> HIDE DEF goal
  <2>5. QED
    BY <1>3, <2>2, <2>3, <2>4
<1>10. ASSUME NEW e \in Employee, NEW first \in Day, NEW last \in Day, CreateLeave(e, first, last)
       PROVE  goal
  <2> DEFINE row == [emp |-> e, first |-> first, last |-> last]
  <2>1. row.emp = e /\ row.first = first /\ row.last = last
    OBVIOUS
  <2>2. WriteLeaves(leaves \cup {row}, e, first, last)
    BY <1>10 DEF CreateLeave
  <2> HIDE DEF row, goal
  <2>3. QED
    BY <1>9, <2>1, <2>2
<1>11. ASSUME NEW l \in leaves, DeleteLeave(l)
       PROVE  goal
  <2>1. l.emp \in Employee /\ l.first \in Day /\ l.last \in Day
    BY DEF Types, AttendanceTypes
  <2>2. WriteLeaves(leaves \ {l}, l.emp, l.first, l.last)
    BY <1>11 DEF DeleteLeave
  <2> HIDE DEF goal
  <2>3. QED
    BY <1>9, <2>1, <2>2
<1>12. ASSUME NEW days \in SUBSET Day, WriteHolidays(days)
       PROVE  goal
  <2> DEFINE pairs == Employee \X ((days \ holidays) \cup (holidays \ days))
  <2>1. pairs \subseteq Pairs /\ pairs \in SUBSET Touched
    BY DEF Pairs, Touched, Types, AttendanceTypes
  <2>2. Changed(pairs, TRUE)
    BY <1>12 DEF WriteHolidays
  <2>3. ChangesOnly(pairs, TRUE)
    BY <1>12, HolidayChanges
  <2> HIDE DEF pairs
  <2>4. QED
    BY <2>1, <2>2, <2>3
<1>13. ASSUME \/ \E d \in Day : CreateHoliday(d) \/ DeleteHoliday(d)
              \/ \E days \in {x \in SUBSET Day : Cardinality(x) > 1} : ImportHolidays(days)
       PROVE  \E days \in SUBSET Day : WriteHolidays(days)
  BY <1>13 DEF CreateHoliday, DeleteHoliday, ImportHolidays, Types, AttendanceTypes
<1>14. ASSUME NEW weekend \in Weekends, NEW ahead \in Zones, PatchSettings(weekend, ahead)
       PROVE  Changed(Pairs, TRUE)
  BY <1>14 DEF PatchSettings
<1>15. ASSUME NEW e \in Employee, Leave(e)
       PROVE  UNCHANGED <<ops, settled>> /\ ChangesOnly({}, FALSE)
  <2>1. UNCHANGED <<ops, settled, shots, policies, assignments, leaves, holidays, settings>>
    BY <1>15 DEF Leave
  <2>2. ASSUME NEW f \in Employee, NEW d \in Day
        PROVE  RowStays(f, d)
    <3>1. PlanStays(f, d)
      BY <2>1, ResolvedStays DEF PlanStays, Off
    <3>2. QED
      BY <2>1, <3>1 DEF RowStays, OnLeave, Events, ServerDay
  <2>3. QED
    BY <2>1, <2>2 DEF ChangesOnly, RowStays
<1> HIDE DEF goal
<1>16. \/ \E k \in Shot, e \in Employee \cup {None} : Shoot(k, e)
       \/ \E p \in Policy : \/ \E form \in Form, window \in Window :
                                    CreatePolicy(p, form, window) \/ PatchPolicy(p, form, window)
                            \/ DeletePolicy(p)
       \/ \E p \in Policy, scope \in Employee \cup Department \cup {"tenant"}, window \in Window :
                   CreateAssignment(p, scope, window)
       \/ \E a \in assignments : DeleteAssignment(a)
       \/ \E e \in Employee, first, last \in Day : CreateLeave(e, first, last)
       \/ \E l \in leaves : DeleteLeave(l)
       \/ \E d \in Day : CreateHoliday(d) \/ DeleteHoliday(d)
       \/ \E days \in {x \in SUBSET Day : Cardinality(x) > 1} : ImportHolidays(days)
       \/ \E weekend \in Weekends, ahead \in Zones : PatchSettings(weekend, ahead)
       \/ \E e \in Employee : Leave(e)
  BY Zenon DEF Pages
<1>17. ASSUME \E p \in Policy : \/ \E form \in Form, window \in Window :
                                    CreatePolicy(p, form, window) \/ PatchPolicy(p, form, window)
                              \/ DeletePolicy(p)
       PROVE  goal
  BY <1>2, <1>5, <1>6, <1>17
<1>18. ASSUME \/ \E p \in Policy, scope \in Employee \cup Department \cup {"tenant"}, window \in Window :
                   CreateAssignment(p, scope, window)
              \/ \E a \in assignments : DeleteAssignment(a)
       PROVE  goal
  BY <1>2, <1>7, <1>8, <1>18
<1>19. ASSUME \/ \E d \in Day : CreateHoliday(d) \/ DeleteHoliday(d)
              \/ \E days \in {x \in SUBSET Day : Cardinality(x) > 1} : ImportHolidays(days)
       PROVE  goal
  BY <1>12, <1>13, <1>19
<1>20. ASSUME \E weekend \in Weekends, ahead \in Zones : PatchSettings(weekend, ahead)
       PROVE  goal
  BY <1>2, <1>14, <1>20
<1>21. (UNCHANGED <<ops, settled>> /\ ChangesOnly({}, FALSE)) \/ goal
  BY <1>4, <1>10, <1>11, <1>15, <1>16, <1>17, <1>18, <1>19, <1>20
<1>22. QED
  BY <1>21 DEF goal

(***************************************************************************)
(* What a recompute has read and not yet written.                          *)
(***************************************************************************)
HandRight(op) ==
    op.row # None =>
        /\ op.row.pair \notin op.spoiled => RightRow(op.row.record, op.row.pair[1], op.row.pair[2])
        /\ ~op.row.raced => op.row.prior = Overtime(op.row.pair[1], op.row.pair[2])

PlanRight(op) ==
    /\ op \in SnapshotOp => \A e \in Employee :
          <<e, op.day>> \notin op.spoiled => op.off = (op.day \in settings.weekend)
    /\ op \in TodayOp => \A e \in Employee :
          <<e, op.day>> \in op.todo \ op.spoiled =>
              op.off = Off(op.day) /\ op.plan[e] \in Resolved(e, op.day)

OpsRight == \A w \in Worker : ops[w] \in RowsOp => HandRight(ops[w]) /\ PlanRight(ops[w])

SettledRight == \A e \in Employee, d \in Day : <<e, d>> \in settled => RightRow(records[e][d], e, d)

RecordsRight == OpsRight /\ SettledRight

LEMMA HandPair ==
    ASSUME NEW op \in RowsOp, op.row # None
    PROVE  \E e \in Employee, d \in Day : op.row.pair = <<e, d>> /\ op.row \in HandRow
<1>1. op.row \in HandRow
  BY DEF RowsOp, SnapshotOp, TodayOp, EachOp
<1>2. op.row.pair \in Pairs
  BY <1>1 DEF HandRow
<1>3. QED
  BY <1>1, <1>2 DEF Pairs

LEMMA PlanDay ==
    ASSUME NEW op \in SnapshotOp \cup TodayOp
    PROVE  op.day \in Day /\ op \in RowsOp /\ op.kind = "today" /\ op.off \in BOOLEAN
  BY RowsOps DEF SnapshotOp, TodayOp

(* A change of inputs marks what it makes wrong. *)
LEMMA HandStaysRight ==
    ASSUME Types, NEW pairs \in SUBSET Touched, NEW planned \in BOOLEAN, planned => pairs \subseteq Pairs,
           ChangesOnly(pairs, planned), UNCHANGED records,
           NEW w \in Worker, ops'[w] = Spoiled(ops[w], pairs, planned), ops'[w] \in RowsOp,
           ops[w] \in RowsOp => HandRight(ops[w]) /\ PlanRight(ops[w])
    PROVE  HandRight(ops[w])' /\ PlanRight(ops[w])'
<1>0. PICK op, new : op = ops[w] /\ new = ops'[w]
  OBVIOUS
<1>1. op \in {Idle} \cup JobOp \cup StaffOp
  BY <1>0 DEF Types, Jobs, OpTypes
<1>2. op \in RowsOp
  BY <1>0, <1>1, RowsOps, SpoiledStays
<1>3. /\ new.row = op.row /\ new.todo = op.todo /\ new.day = op.day /\ new.off = op.off
      /\ new.plan = op.plan /\ op.spoiled \subseteq new.spoiled
      /\ new \in TodayOp <=> op \in TodayOp
      /\ new \in SnapshotOp <=> op \in SnapshotOp
      /\ op.row # None /\ op.row.pair \in pairs => op.row.pair \in new.spoiled
      /\ planned /\ op \in TodayOp \cup SnapshotOp => pairs \subseteq new.spoiled
  BY <1>0, <1>1, <1>2, SpoiledStays
<1>4. HandRight(op) /\ PlanRight(op)
  BY <1>0, <1>2
<1>5. ASSUME new.row # None
      PROVE  /\ new.row.pair \notin new.spoiled => RightRow(new.row.record, new.row.pair[1], new.row.pair[2])'
             /\ ~new.row.raced => new.row.prior = Overtime(new.row.pair[1], new.row.pair[2])'
  <2>1. PICK e \in Employee, d \in Day : op.row.pair = <<e, d>>
    BY <1>2, <1>3, <1>5, HandPair
  <2>2. ASSUME <<e, d>> \notin new.spoiled, NEW row, row = op.row.record
        PROVE  RightRow(row, e, d)'
    <3>1. <<e, d>> \notin op.spoiled /\ <<e, d>> \notin pairs
      BY <1>3, <1>5, <2>1, <2>2
    <3>2. RightRow(row, e, d)
      BY <1>3, <1>4, <1>5, <2>1, <2>2, <3>1 DEF HandRight
    <3>3. RowStays(e, d)
      BY <3>1 DEF ChangesOnly
    <3>4. QED
      BY <3>2, <3>3, RightRowStays
  <2>3. Overtime(e, d)' = Overtime(e, d)
    BY DEF Overtime
  <2>4. ~op.row.raced => op.row.prior = Overtime(e, d)'
    BY <1>3, <1>4, <1>5, <2>1, <2>3 DEF HandRight
  <2>5. <<e, d>> \notin new.spoiled => RightRow(op.row.record, e, d)'
    BY <2>2
  <2>6. QED
    BY <1>3, <2>1, <2>4, <2>5
<1>6. ASSUME new \in SnapshotOp, NEW e \in Employee, <<e, new.day>> \notin new.spoiled
      PROVE  new.off = (new.day \in settings'.weekend)
  <2>1. op \in SnapshotOp /\ op.day \in Day
    BY <1>3, <1>6, PlanDay
  <2>2. op.off = (op.day \in settings.weekend)
    BY <1>3, <1>4, <1>6, <2>1 DEF PlanRight
  <2>3. PlanStays(e, op.day)
    BY <1>3, <1>6, <2>1 DEF ChangesOnly, RowStays
  <2>4. QED
    BY <1>3, <2>2, <2>3 DEF PlanStays
<1>7. ASSUME new \in TodayOp, NEW e \in Employee, <<e, new.day>> \in new.todo \ new.spoiled,
             NEW d, d = new.day
      PROVE  new.off = Off(d)' /\ new.plan[e] \in Resolved(e, d)'
  <2>1. op \in TodayOp /\ d \in Day
    BY <1>3, <1>7, PlanDay
  <2>2. op.off = Off(d) /\ op.plan[e] \in Resolved(e, d)
    BY <1>3, <1>4, <1>7, <2>1 DEF PlanRight
  <2>3. PlanStays(e, d)
    BY <1>3, <1>7, <2>1 DEF ChangesOnly, RowStays
  <2>4. QED
    BY <1>3, <2>2, <2>3 DEF PlanStays
<1>8. HandRight(ops[w])'
  BY <1>0, <1>5 DEF HandRight, RightRow, Overtime
<1>9. PlanRight(ops[w])'
  BY <1>0, <1>6, <1>7 DEF PlanRight, Off
<1>10. QED
  BY <1>8, <1>9

LEMMA SettledStays ==
    ASSUME NEW e, NEW d, RowStays(e, d), records'[e][d] = records[e][d], RightRow(records[e][d], e, d)
    PROVE  RightRow(records[e][d], e, d)'
<1>1. PICK row : row = records[e][d]
  OBVIOUS
<1>2. RightRow(row, e, d)'
  BY <1>1, RightRowStays
<1>3. row = records'[e][d]
  BY <1>1
<1>4. QED
  BY <1>2, <1>3 DEF RightRow

(* What a job carries from one of its steps to the next stays right when   *)
(* no input changes, unless another's write passes it.                     *)
LEMMA OpGoesOn ==
    ASSUME NEW old \in RowsOp, NEW new \in RowsOp, HandRight(old), PlanRight(old),
           \A e \in Employee, d \in Day : RowStays(e, d),
           new.row # None =>
              /\ old.row # None
              /\ new.row.pair = old.row.pair /\ new.row.record = old.row.record
              /\ new.row.prior = old.row.prior
              /\ ~new.row.raced =>
                   /\ ~old.row.raced
                   /\ Overtime(old.row.pair[1], old.row.pair[2])' = Overtime(old.row.pair[1], old.row.pair[2]),
           new.spoiled = old.spoiled, new.day = old.day, new.off = old.off, new.plan = old.plan,
           new.todo \subseteq old.todo,
           new \in TodayOp => old \in TodayOp, new \in SnapshotOp => old \in SnapshotOp
    PROVE  HandRight(new)' /\ PlanRight(new)'
<1>1. ASSUME new.row # None
      PROVE  /\ new.row.pair \notin new.spoiled => RightRow(new.row.record, new.row.pair[1], new.row.pair[2])'
             /\ ~new.row.raced => new.row.prior = Overtime(new.row.pair[1], new.row.pair[2])'
  <2>1. PICK e \in Employee, d \in Day : old.row.pair = <<e, d>>
    BY <1>1, HandPair
  <2>2. ASSUME <<e, d>> \notin new.spoiled, NEW row, row = old.row.record
        PROVE  RightRow(row, e, d)'
    <3>1. RightRow(row, e, d)
      BY <1>1, <2>1, <2>2 DEF HandRight
    <3>2. QED
      BY <3>1, RightRowStays
  <2>3. <<e, d>> \notin new.spoiled => RightRow(old.row.record, e, d)'
    BY <2>2
  <2>4. ~new.row.raced => old.row.prior = Overtime(e, d)'
    BY <1>1, <2>1 DEF HandRight
  <2>5. QED
    BY <1>1, <2>1, <2>3, <2>4
<1>2. ASSUME new \in SnapshotOp, NEW e \in Employee, <<e, new.day>> \notin new.spoiled
      PROVE  new.off = (new.day \in settings'.weekend)
  <2>1. old.off = (old.day \in settings.weekend) /\ old.day \in Day
    BY <1>2, PlanDay DEF PlanRight
  <2>2. PlanStays(e, old.day)
    BY <2>1 DEF RowStays
  <2>3. QED
    BY <2>1, <2>2 DEF PlanStays
<1>3. ASSUME new \in TodayOp, NEW e \in Employee, <<e, new.day>> \in new.todo \ new.spoiled,
             NEW d, d = new.day
      PROVE  new.off = Off(d)' /\ new.plan[e] \in Resolved(e, d)'
  <2>1. old.off = Off(d) /\ old.plan[e] \in Resolved(e, d) /\ d \in Day
    BY <1>3, PlanDay DEF PlanRight
  <2>2. PlanStays(e, d)
    BY <2>1 DEF RowStays
  <2>3. QED
    BY <2>1, <2>2 DEF PlanStays
<1>4. HandRight(new)'
  BY <1>1 DEF HandRight, RightRow, Overtime
<1>5. PlanRight(new)'
  BY <1>2, <1>3 DEF PlanRight, Off
<1>6. QED
  BY <1>4, <1>5

LEMMA OpStays ==
    ASSUME NEW w \in Worker, ops'[w] = ops[w], ops[w] \in RowsOp, HandRight(ops[w]), PlanRight(ops[w]),
           UNCHANGED records, \A e \in Employee, d \in Day : RowStays(e, d)
    PROVE  HandRight(ops[w])' /\ PlanRight(ops[w])'
<1>1. PICK op : op = ops[w]
  OBVIOUS
<1>2. \A e, d : Overtime(e, d)' = Overtime(e, d)
  BY DEF Overtime
<1>3. HandRight(op)' /\ PlanRight(op)'
  BY <1>1, <1>2, OpGoesOn
<1>4. op = ops'[w]
  BY <1>1
<1>5. QED
  BY <1>3, <1>4 DEF HandRight, PlanRight, RightRow, Overtime, Off

LEMMA NothingMoves ==
    ASSUME RecordsRight, UNCHANGED <<ops, settled, records>>, \A e \in Employee, d \in Day : RowStays(e, d)
    PROVE  RecordsRight'
<1>1. \A w \in Worker : ops'[w] \in RowsOp => HandRight(ops[w])' /\ PlanRight(ops[w])'
  BY OpStays DEF RecordsRight, OpsRight
<1>2. \A e \in Employee, d \in Day : <<e, d>> \in settled' => RightRow(records[e][d], e, d)'
  BY SettledStays DEF RecordsRight, SettledRight
<1>3. QED
  BY <1>1, <1>2 DEF RecordsRight, OpsRight, SettledRight

LEMMA PagesStayRight ==
    ASSUME Types, RecordsRight, Pages
    PROVE  RecordsRight'
<1>1. UNCHANGED records
  BY PageWrites DEF Types, Jobs
<1>2. ASSUME NEW pairs \in SUBSET Touched, NEW planned \in BOOLEAN, planned => pairs \subseteq Pairs,
             Changed(pairs, planned), ChangesOnly(pairs, planned)
      PROVE  RecordsRight'
  <2>1. \A w \in Worker : ops'[w] = Spoiled(ops[w], pairs, planned)
    BY <1>2, ChangedOps DEF Types, Jobs
  <2>2. ASSUME NEW w \in Worker, ops'[w] \in RowsOp
        PROVE  HandRight(ops[w])' /\ PlanRight(ops[w])'
    <3>1. ops[w] \in RowsOp => HandRight(ops[w]) /\ PlanRight(ops[w])
      BY DEF RecordsRight, OpsRight
    <3>2. QED
      BY <1>1, <1>2, <2>1, <2>2, <3>1, HandStaysRight
  <2>3. ASSUME NEW e \in Employee, NEW d \in Day, <<e, d>> \in settled'
        PROVE  RightRow(records[e][d], e, d)'
    <3>1. <<e, d>> \in settled \ pairs
      BY <1>2, <2>3 DEF Changed
    <3>2. RowStays(e, d)
      BY <1>2, <3>1 DEF ChangesOnly
    <3>3. RightRow(records[e][d], e, d)
      BY <3>1 DEF RecordsRight, SettledRight
    <3>4. QED
      BY <1>1, <3>2, <3>3, SettledStays
  <2>4. QED
    BY <2>2, <2>3 DEF RecordsRight, OpsRight, SettledRight
<1>3. ASSUME UNCHANGED <<ops, settled>>, ChangesOnly({}, FALSE)
      PROVE  RecordsRight'
  <2>1. \A e \in Employee, d \in Day : RowStays(e, d)
    BY <1>3 DEF ChangesOnly
  <2>2. QED
    BY <1>1, <1>3, <2>1, NothingMoves
<1>4. QED
  BY <1>2, <1>3, PageChanges

(* One job moves and nothing of the attendance does. *)
LEMMA OneMovesRight ==
    ASSUME Types, RecordsRight, NEW w \in Worker, NEW op, ops' = [ops EXCEPT ![w] = op],
           UNCHANGED attendanceVars, op \in RowsOp => HandRight(op) /\ PlanRight(op)
    PROVE  RecordsRight'
<1>1. ops'[w] = op /\ \A v \in Worker : v # w => ops'[v] = ops[v]
  BY OpStep DEF Types, Jobs
<1>2. UNCHANGED <<inputs, records, settled>>
  BY DEF attendanceVars
<1>3. \A e \in Employee, d \in Day : RowStays(e, d)
  BY <1>2, InputsStay
<1>4. \A e, d : Overtime(e, d)' = Overtime(e, d)
  BY <1>2 DEF Overtime
<1>5. ASSUME op \in RowsOp
      PROVE  HandRight(ops[w])' /\ PlanRight(ops[w])'
  <2>1. HandRight(op)' /\ PlanRight(op)'
    BY <1>3, <1>4, <1>5, OpGoesOn
  <2>2. QED
    BY <1>1, <2>1 DEF HandRight, PlanRight, RightRow, Overtime, Off
<1>6. ASSUME NEW v \in Worker, v # w, ops'[v] \in RowsOp
      PROVE  HandRight(ops[v])' /\ PlanRight(ops[v])'
  BY <1>1, <1>2, <1>3, <1>6, OpStays DEF RecordsRight, OpsRight
<1>7. \A v \in Worker : ops'[v] \in RowsOp => HandRight(ops[v])' /\ PlanRight(ops[v])'
  BY <1>1, <1>5, <1>6
<1>8. \A e \in Employee, d \in Day : <<e, d>> \in settled' => RightRow(records[e][d], e, d)'
  BY <1>2, <1>3, SettledStays DEF RecordsRight, SettledRight
<1>9. QED
  BY <1>7, <1>8 DEF RecordsRight, OpsRight, SettledRight

LEMMA TodayRight ==
    ASSUME Types
    PROVE  HandRight(Today) /\ PlanRight(Today)
<1>1. PICK op : op = Today
  OBVIOUS
<1>2. op \in SnapshotOp
  BY <1>1, FirstOps DEF Types, Jobs
<1>3. op.row = None /\ op \notin TodayOp
  BY <1>2, RowsOps DEF SnapshotOp
<1>4. op.day = TenantDay(now) /\ op.off = (TenantDay(now) \in settings.weekend)
  BY <1>1 DEF Today, Recompute
<1>5. QED
  BY <1>1, <1>3, <1>4 DEF HandRight, PlanRight

LEMMA FreshRight ==
    ASSUME NEW op \in EachOp, op.row = None
    PROVE  HandRight(op) /\ PlanRight(op)
  BY RowsOps DEF HandRight, PlanRight

LEMMA ReadRight ==
    ASSUME Types, RecordsRight, NEW w \in Worker, NEW e \in Employee, NEW d \in Day, ReadRow(w, e, d)
    PROVE  RecordsRight'
<1>1. PICK p \in PlanRow :
              /\ ops[w] \in TodayOp \cup EachOp /\ <<e, d>> \in ops[w].todo /\ ops[w].row = None
              /\ \/ ops[w] \in TodayOp /\ d = ops[w].day /\ p = ops[w].plan[e] /\ p # None
                 \/ ops[w] \in EachOp /\ p \in Resolved(e, d)
              /\ ReadHand(w, e, d, p) \in HandRow
              /\ Sound(ReadHand(w, e, d, p).record) /\ ReadHand(w, e, d, p).record.policy = p.id
              /\ ops' = [ops EXCEPT ![w] =
                    [ops[w] EXCEPT !.todo = ops[w].todo \ {<<e, d>>}, !.row = ReadHand(w, e, d, p)]]
              /\ UNCHANGED <<now, attendanceVars, jobVars, crashed, unrecorded, fuel>>
  BY ReadsRow
<1>2. PICK old, hand, new :
         /\ old = ops[w] /\ hand = ReadHand(w, e, d, p)
         /\ new = [old EXCEPT !.todo = old.todo \ {<<e, d>>}, !.row = hand]
  OBVIOUS
<1>3. /\ new.row = hand /\ new.todo = old.todo \ {<<e, d>>} /\ new.day = old.day /\ new.off = old.off
      /\ new.plan = old.plan /\ new.spoiled = old.spoiled /\ new.kind = old.kind /\ new.next = old.next
  BY <1>1, <1>2 DEF TodayOp, EachOp
<1>4. /\ old \in TodayOp => old.kind = "today" /\ old.next = "row"
      /\ old \in EachOp => old.kind # "today" /\ old.next = "row"
  BY DEF TodayOp, EachOp
<1>5. new \in TodayOp => old \in TodayOp
  BY <1>1, <1>2, <1>3, <1>4 DEF TodayOp
<1>6. new \notin SnapshotOp
  BY <1>1, <1>2, <1>3, <1>4 DEF SnapshotOp
<1>7. old \in TodayOp => PlanRight(old)
  BY <1>2, RowsOps DEF RecordsRight, OpsRight
<1>8. ASSUME <<e, d>> \notin old.spoiled
      PROVE  RightRow(hand.record, e, d)
  <2>1. hand.record = Compute(p, Events(e, d), OnLeave(e, d), IF old.kind = "today" THEN old.off ELSE Off(d))
    BY <1>2 DEF ReadHand
  <2>2. CASE old \in TodayOp
    <3>1. old.off = Off(d) /\ p \in Resolved(e, d)
      BY <1>1, <1>2, <1>7, <1>8, <2>2, RowsOps DEF PlanRight
    <3>2. QED
      BY <1>4, <2>1, <2>2, <3>1 DEF RightRow
  <2>3. CASE old \in EachOp
    BY <1>1, <1>2, <1>4, <2>1, <2>3, RowsOps DEF RightRow
  <2>4. QED
    BY <1>1, <1>2, <2>2, <2>3
<1>9. HandRight(new)
  <2>1. hand.pair = <<e, d>> /\ hand.prior = Overtime(e, d)
    BY <1>2 DEF ReadHand
  <2>2. QED
    BY <1>3, <1>8, <2>1 DEF HandRight
<1>10. PlanRight(new)
  BY <1>3, <1>5, <1>6, <1>7 DEF PlanRight
<1>11. ops' = [ops EXCEPT ![w] = new] /\ UNCHANGED attendanceVars
  BY <1>1, <1>2
<1>12. QED
  BY <1>9, <1>10, <1>11, OneMovesRight

LEMMA SnapshotRight ==
    ASSUME Types, RecordsRight, NEW w \in Worker, Snapshot(w)
    PROVE  RecordsRight'
<1>1. PICK plan \in [Employee -> PlanRow \cup {None}], op \in TodayOp :
              /\ ops[w] \in SnapshotOp
              /\ \A e \in Employee : plan[e] # None =>
                    plan[e] \in Resolved(e, ops[w].day) /\ policies[plan[e].id] # None
              /\ op.day = ops[w].day /\ op.plan = plan /\ op.row = None
              /\ op.todo = {e \in Employee : plan[e] # None} \X {ops[w].day}
              /\ op.off = (ops[w].off \/ ops[w].day \in holidays)
              /\ op.spoiled = ops[w].spoiled
              /\ ops' = [ops EXCEPT ![w] = Left(op)]
              /\ UNCHANGED <<now, attendanceVars, jobVars, crashed, unrecorded, fuel>>
  BY SnapshotsPlan
<1>2. PlanRight(ops[w])
  BY <1>1, RowsOps DEF RecordsRight, OpsRight
<1>3. ASSUME NEW e \in Employee, <<e, op.day>> \in op.todo \ op.spoiled
      PROVE  op.off = Off(op.day) /\ op.plan[e] \in Resolved(e, op.day)
  <2>1. ops[w].off = (ops[w].day \in settings.weekend)
    BY <1>1, <1>2, <1>3 DEF PlanRight
  <2>2. QED
    BY <1>1, <1>3, <2>1 DEF Off
<1>4. HandRight(op) /\ PlanRight(op)
  BY <1>1, <1>3, RowsOps DEF HandRight, PlanRight
<1>5. PICK new : new = Left(op)
  OBVIOUS
<1>6. Idle \notin RowsOp
  BY RowsOps
<1>7. new \in RowsOp => HandRight(new) /\ PlanRight(new)
  BY <1>4, <1>5, <1>6 DEF Left
<1>8. ops' = [ops EXCEPT ![w] = new] /\ UNCHANGED attendanceVars
  BY <1>1, <1>5
<1>9. QED
  BY <1>7, <1>8, OneMovesRight

LEMMA WriteRight ==
    ASSUME Types, RecordsRight, NEW w \in Worker, WriteRow(w)
    PROVE  RecordsRight'
<1>1. PICK e \in Employee, d \in Day :
              /\ ops[w] \in TodayOp \cup EachOp /\ ops[w].row # None
              /\ ops[w].row \in HandRow /\ ops[w].row.pair = <<e, d>>
              /\ records' = [records EXCEPT ![e][d] = ops[w].row.record]
              /\ notices' = IF Crosses(ops[w].row) THEN [notices EXCEPT ![e][d] = @ + 1] ELSE notices
              /\ settled' = IF <<e, d>> \in ops[w].spoiled THEN settled \ {<<e, d>>}
                            ELSE settled \cup {<<e, d>>}
              /\ ops' = [v \in Worker |-> IF v = w THEN Left([ops[w] EXCEPT !.row = None])
                                          ELSE Passed(v, <<e, d>>)]
              /\ UNCHANGED <<now, inputs, jobVars, crashed, unrecorded, fuel>>
  BY WritesRow
<1>2. \A f \in Employee, b \in Day : RowStays(f, b)
  BY <1>1, InputsStay
<1>3. \A f \in Employee, b \in Day :
         \/ f = e /\ b = d /\ records'[f][b] = ops[w].row.record
         \/ <<f, b>> # <<e, d>> /\ records'[f][b] = records[f][b]
  BY <1>1 DEF Types, AttendanceTypes
<1>4. \A f \in Employee, b \in Day : <<f, b>> # <<e, d>> => Overtime(f, b)' = Overtime(f, b)
  BY <1>3 DEF Overtime
<1>5. ops[w] \in RowsOp /\ HandRight(ops[w]) /\ PlanRight(ops[w])
  BY <1>1, RowsOps DEF RecordsRight, OpsRight
<1>6. ASSUME NEW f \in Employee, NEW b \in Day, <<f, b>> \in settled'
      PROVE  RightRow(records[f][b], f, b)'
  <2>1. CASE <<f, b>> # <<e, d>>
    <3>1. <<f, b>> \in settled /\ records'[f][b] = records[f][b]
      BY <1>1, <1>3, <1>6, <2>1
    <3>2. QED
      BY <1>2, <3>1, SettledStays DEF RecordsRight, SettledRight
  <2>2. CASE <<f, b>> = <<e, d>>
    <3>1. PICK row : row = ops[w].row.record
      OBVIOUS
    <3>2. <<e, d>> \notin ops[w].spoiled
      BY <1>1, <1>6, <2>2
    <3>3. RightRow(row, e, d)
      BY <1>1, <1>5, <3>1, <3>2 DEF HandRight
    <3>4. RightRow(row, f, b)'
      BY <1>2, <2>2, <3>3, RightRowStays
    <3>5. row = records'[f][b]
      BY <1>3, <2>2, <3>1
    <3>6. QED
      BY <3>4, <3>5 DEF RightRow
  <2>3. QED
    BY <2>1, <2>2
<1>7. ASSUME NEW v \in Worker, ops'[v] \in RowsOp
      PROVE  HandRight(ops[v])' /\ PlanRight(ops[v])'
  <2>1. PICK old, new : old = ops[v] /\ new = ops'[v]
    OBVIOUS
  <2>2. CASE v = w
    <3> DEFINE op == [old EXCEPT !.row = None]
    <3>1. new = Left(op)
      BY <1>1, <2>1, <2>2
    <3>2. /\ op \in TodayOp \cup EachOp /\ op.row = None
          /\ op \in TodayOp <=> old \in TodayOp
          /\ op.day = old.day /\ op.off = old.off /\ op.plan = old.plan /\ op.todo = old.todo
          /\ op.spoiled = old.spoiled
      BY <1>1, <2>1, <2>2, DropsRow
    <3> HIDE DEF op
    <3>3. new = op /\ op \in RowsOp /\ op \notin SnapshotOp
      BY <1>7, <2>1, <3>1, <3>2, RowsOps DEF Left
    <3>4. HandRight(op)' /\ PlanRight(op)'
      BY <1>2, <1>5, <2>1, <2>2, <3>2, <3>3, OpGoesOn
    <3>5. op = ops'[v]
      BY <2>1, <3>3
    <3>6. QED
      BY <3>4, <3>5 DEF HandRight, PlanRight, RightRow, Overtime, Off
  <2>3. CASE v # w
    <3>1. new = Passed(v, <<e, d>>)
      BY <1>1, <2>1, <2>3
    <3>2. old \in {Idle} \cup JobOp \cup StaffOp
      BY <2>1 DEF Types, Jobs, OpTypes
    <3>3. CASE <<e, d>> \notin InHand(old)
      <4>1. new = old /\ old \in RowsOp
        BY <1>7, <2>1, <3>1, <3>3 DEF Passed
      <4>2. HandRight(old) /\ PlanRight(old)
        BY <2>1, <4>1 DEF RecordsRight, OpsRight
      <4>3. ASSUME old.row # None
            PROVE  Overtime(old.row.pair[1], old.row.pair[2])' = Overtime(old.row.pair[1], old.row.pair[2])
        <5>1. old.row.pair # <<e, d>>
          BY <3>2, <3>3, <4>1, <4>3, WhoRecomputes DEF InHand
        <5>2. PICK f \in Employee, b \in Day : old.row.pair = <<f, b>>
          BY <4>1, <4>3, HandPair
        <5>3. QED
          BY <1>4, <5>1, <5>2
      <4>4. HandRight(new)' /\ PlanRight(new)'
        BY <1>2, <4>1, <4>2, <4>3, OpGoesOn
      <4>5. QED
        BY <2>1, <4>4 DEF HandRight, PlanRight, RightRow, Overtime, Off
    <3>4. CASE <<e, d>> \in InHand(old)
      <4> DEFINE op == [old EXCEPT !.row.raced = TRUE]
      <4>1. new = op /\ old \in RowsOp /\ old.row # None
        BY <2>1, <3>1, <3>2, <3>4, WhoRecomputes DEF Passed, InHand
      <4>2. old \in TodayOp \cup EachOp
        BY <4>1 DEF RowsOp, SnapshotOp
      <4>3. /\ op \in TodayOp \cup EachOp
            /\ op \in TodayOp <=> old \in TodayOp
            /\ op.row.raced /\ op.row.pair = old.row.pair /\ op.row.prior = old.row.prior
            /\ op.row.record = old.row.record
            /\ op.day = old.day /\ op.off = old.off /\ op.plan = old.plan /\ op.todo = old.todo
            /\ op.spoiled = old.spoiled
        BY <4>1, <4>2, RacedRow
      <4> HIDE DEF op
      <4>4. op \in RowsOp /\ op \notin SnapshotOp
        BY <4>3, RowsOps
      <4>5. HandRight(old) /\ PlanRight(old)
        BY <2>1, <4>1 DEF RecordsRight, OpsRight
      <4>6. HandRight(op)' /\ PlanRight(op)'
        BY <1>2, <4>1, <4>3, <4>4, <4>5, OpGoesOn
      <4>7. op = ops'[v]
        BY <2>1, <4>1
      <4>8. QED
        BY <4>6, <4>7 DEF HandRight, PlanRight, RightRow, Overtime, Off
    <3>5. QED
      BY <3>3, <3>4
  <2>4. QED
    BY <2>2, <2>3
<1>8. QED
  BY <1>6, <1>7 DEF RecordsRight, OpsRight, SettledRight

(* Detections that change hands change the days of both owners. *)
LEMMA HandOverChanges ==
    ASSUME Types, NEW w, NEW moved, NEW owner, NEW pairs, NEW todo, HandedOver(w, moved, owner, pairs, todo)
    PROVE  ChangesOnly(pairs, FALSE)
<1>1. UNCHANGED <<policies, assignments, leaves, holidays, settings>>
  BY DEF HandedOver
<1>2. ASSUME NEW e \in Employee, NEW d \in Day
      PROVE  PlanStays(e, d) /\ OnLeave(e, d)' = OnLeave(e, d)
  BY <1>1, ResolvedStays DEF PlanStays, Off, OnLeave
<1>3. ASSUME NEW e \in Employee, NEW d \in Day, <<e, d>> \notin pairs
      PROVE  Events(e, d)' = Events(e, d) /\ \A x \in Events(e, d) : shots'[x].at = shots[x].at
  <2>1. ASSUME NEW k \in moved
        PROVE  k \notin Events(e, d) /\ k \notin Events(e, d)'
    <3>1. k \in Shot /\ shots[k] \in ShotRow /\ shots'[k] = [shots[k] EXCEPT !.emp = owner[k]]
      BY <2>1 DEF HandedOver, Types, AttendanceTypes
    <3>2. shots'[k].emp = owner[k] /\ shots'[k].at = shots[k].at
      BY <3>1 DEF ShotRow
    <3>3. <<shots[k].emp, ServerDay(shots[k].at)>> \in pairs /\ <<owner[k], ServerDay(shots[k].at)>> \in pairs
      BY <2>1 DEF HandedOver
    <3>4. QED
      BY <1>3, <3>2, <3>3 DEF Events, ServerDay
  <2>2. \A k \in Shot : k \notin moved => shots'[k] = shots[k]
    BY DEF HandedOver
  <2>3. QED
    BY <2>1, <2>2, EventsStay
<1>4. QED
  BY <1>2, <1>3 DEF ChangesOnly, RowStays

LEMMA HandOverRight ==
    ASSUME Types, RecordsRight, NEW w \in Worker, Reassign(w)
    PROVE  RecordsRight'
<1>1. PICK moved, owner, pairs, todo : HandedOver(w, moved, owner, pairs, todo)
  BY ReassignsShots
<1>2. /\ pairs \in SUBSET Touched /\ UNCHANGED records /\ settled' = settled \ pairs
      /\ \A v \in Worker : v # w => ops'[v] = Spoiled(ops[v], pairs, FALSE)
      /\ ops'[w] = Left(Recompute("rematch", todo)) \/ ops'[w] = Idle
      /\ todo \in SUBSET Pairs
  BY <1>1 DEF HandedOver
<1>3. ChangesOnly(pairs, FALSE)
  BY <1>1, HandOverChanges
<1>4. ASSUME NEW v \in Worker, v # w, ops'[v] \in RowsOp
      PROVE  HandRight(ops[v])' /\ PlanRight(ops[v])'
  <2>1. ops[v] \in RowsOp => HandRight(ops[v]) /\ PlanRight(ops[v])
    BY DEF RecordsRight, OpsRight
  <2>2. QED
    BY <1>2, <1>3, <1>4, <2>1, HandStaysRight
<1>5. ASSUME ops'[w] \in RowsOp
      PROVE  HandRight(ops[w])' /\ PlanRight(ops[w])'
  <2>1. PICK op : op = ops'[w]
    OBVIOUS
  <2>2. op = Recompute("rematch", todo)
    BY <1>2, <1>5, <2>1, RowsOps DEF Left
  <2>3. op \in EachOp /\ op.row = None
    BY <1>2, <2>2, FirstOps DEF Types, Jobs, Recompute
  <2>4. op \notin TodayOp \cup SnapshotOp
    BY <2>3, RowsOps
  <2>5. QED
    BY <2>1, <2>3, <2>4 DEF HandRight, PlanRight
<1>6. ASSUME NEW e \in Employee, NEW d \in Day, <<e, d>> \in settled'
      PROVE  RightRow(records[e][d], e, d)'
  <2>1. <<e, d>> \in settled /\ RowStays(e, d)
    BY <1>2, <1>3, <1>6 DEF ChangesOnly
  <2>2. QED
    BY <1>2, <2>1, SettledStays DEF RecordsRight, SettledRight
<1>7. QED
  BY <1>4, <1>5, <1>6 DEF RecordsRight, OpsRight, SettledRight

LEMMA RecomputingStaysRight ==
    ASSUME Types, RecordsRight, Recomputing
    PROVE  RecordsRight'
<1>1. ASSUME NEW w \in Worker, RecomputeToday(w) \/ \E d \in Day : Regenerate(w, d)
      PROVE  RecordsRight'
  <2>1. PICK op \in SnapshotOp \cup EachOp :
              /\ op \in SnapshotOp => op = Today
              /\ op.row = None
              /\ ops[w] = Idle /\ ops' = [ops EXCEPT ![w] = op]
              /\ UNCHANGED <<now, attendanceVars, jobVars, crashed, unrecorded>> /\ Event("recompute")
    BY <1>1, BeginsRows
  <2>2. op \in SnapshotOp => HandRight(op) /\ PlanRight(op)
    BY <2>1, TodayRight DEF HandRight, PlanRight
  <2>3. QED
    BY <2>1, <2>2, FreshRight, OneMovesRight
<1>2. ASSUME NEW w \in Worker, FailRow(w) \/ \E e \in Employee, d \in Day : SkipRow(w, e, d)
      PROVE  RecordsRight'
  <2>1. PICK op :
              /\ ops[w] \in TodayOp \cup EachOp
              /\ op = Idle \/ GoesOn(ops[w], op)
              /\ ops' = [ops EXCEPT ![w] = op]
              /\ UNCHANGED <<now, attendanceVars, jobVars, crashed, unrecorded>> /\ (Event("recompute") \/ UNCHANGED fuel)
    BY <1>2, SkipsRow
  <2>2. PlanRight(ops[w])
    BY <2>1, RowsOps DEF RecordsRight, OpsRight
  <2>3. ASSUME op \in RowsOp
        PROVE  HandRight(op) /\ PlanRight(op)
    <3>1. GoesOn(ops[w], op)
      BY <2>1, <2>3, RowsOps
    <3>2. HandRight(op) /\ op \notin SnapshotOp
      BY <3>1, RowsOps DEF GoesOn, HandRight
    <3>3. PlanRight(op)
      BY <2>2, <3>1, <3>2 DEF GoesOn, PlanRight
    <3>4. QED
      BY <3>2, <3>3
  <2>4. QED
    BY <2>1, <2>3, OneMovesRight DEF attendanceVars
<1>3. ASSUME NEW w \in Worker, NEW x \in Rematches, Rematch(w, x.first, x.last, x.only, x.again)
      PROVE  RecordsRight'
  <2>1. PICK op \in RematchOp :
              /\ ops[w] = Idle /\ ops' = [ops EXCEPT ![w] = op]
              /\ \A k \in DOMAIN op.read : shots[k] # None
              /\ UNCHANGED <<now, attendanceVars, jobVars, crashed, unrecorded>> /\ Event("recompute")
    BY <1>3, RematchReads
  <2>2. op \notin RowsOp
    BY RowsOps
  <2>3. QED
    BY <2>1, <2>2, OneMovesRight
<1>4. QED
  BY <1>1, <1>2, <1>3, ReadRight, SnapshotRight, WriteRight, HandOverRight, Zenon DEF Recomputing

LEMMA OthersStayRight ==
    ASSUME Types, RecordsRight, Reports \/ Others \/ UNCHANGED vars
    PROVE  RecordsRight'
<1>1. UNCHANGED attendanceVars
  BY ReportsFrame, Zenon DEF Others, TimePasses, Abandon, Crash, vars
<1>2. UNCHANGED <<inputs, records, settled>>
  BY <1>1 DEF attendanceVars
<1>3. \A e \in Employee, d \in Day : RowStays(e, d)
  BY <1>2, InputsStay
<1>4. ASSUME NEW w \in Worker, ops'[w] \in RowsOp
      PROVE  HandRight(ops[w])' /\ PlanRight(ops[w])'
  <2>1. ops'[w] = ops[w] \/ (ops'[w] = Today /\ UNCHANGED now)
    <3>1. CASE Reports
      BY <1>4, <3>1, ReportsStaff, RowsOps
    <3>2. CASE ~Reports
      <4>1. ops'[w] = ops[w] \/ ops'[w] = Idle \/ (ops'[w] = Today /\ UNCHANGED now)
        BY <3>2 DEF Others, TimePasses, Abandon, Done, Put, Crash, vars, Types, Jobs, OpTypes
      <4>2. QED
        BY <1>4, <4>1, RowsOps
    <3>3. QED
      BY <3>1, <3>2
  <2>2. CASE ops'[w] = ops[w]
    BY <1>2, <1>3, <1>4, <2>2, OpStays DEF RecordsRight, OpsRight
  <2>3. CASE ops'[w] = Today
    <3>1. PICK op : op = Today
      OBVIOUS
    <3>2. op \in SnapshotOp /\ op \in RowsOp
      BY <3>1, RowsOps, FirstOps DEF Types, Jobs
    <3>3. HandRight(op) /\ PlanRight(op)
      BY <3>1, TodayRight DEF HandRight, PlanRight
    <3>4. \A e, d : Overtime(e, d)' = Overtime(e, d)
      BY <1>2 DEF Overtime
    <3>5. HandRight(op)' /\ PlanRight(op)'
      BY <1>3, <3>2, <3>3, <3>4, OpGoesOn
    <3>6. QED
      BY <2>3, <3>1, <3>5 DEF HandRight, PlanRight, RightRow, Overtime, Off
  <2>4. QED
    BY <2>1, <2>2, <2>3
<1>5. \A e \in Employee, d \in Day : <<e, d>> \in settled' => RightRow(records[e][d], e, d)'
  BY <1>2, <1>3, SettledStays DEF RecordsRight, SettledRight
<1>6. QED
  BY <1>4, <1>5 DEF RecordsRight, OpsRight, SettledRight

LEMMA InitRight == Init => RecordsRight
<1>1. Idle \notin RowsOp
  BY RowsOps
<1>2. Init => settled = {} /\ ops = [w \in Worker |-> Idle]
  BY DEF Init
<1>3. QED
  BY <1>1, <1>2 DEF RecordsRight, OpsRight, SettledRight

LEMMA RecordsStayRight == Types /\ RecordsRight /\ [Next]_vars => RecordsRight'
  BY PagesStayRight, RecomputingStaysRight, OthersStayRight, Zenon DEF Next, Others

(* A row that was written from inputs nothing has changed since says what  *)
(* the engine computes from them now, whatever pages, recomputes, rematch  *)
(* runs and crashes came between its read and its write (scheduler.py,     *)
(* repository.py upsert_attendance).                                       *)
THEOREM SettledRowsHold == Spec => []SettledRowsAreRight
<1>1. RecordsRight => SettledRowsAreRight
  BY DEF RecordsRight, SettledRight, RightRow, SettledRowsAreRight
<1>2. QED
  BY <1>1, InitRight, RecordsStayRight, TypesHold, PTL DEF Spec

(***************************************************************************)
(* When the managers hear of overtime.                                     *)
(***************************************************************************)
(* Only a recompute that writes its row touches the records.               *)
LEMMA OnlyWrites ==
    ASSUME Types, [Next]_vars, \A w \in Worker : ~WriteRow(w)
    PROVE  UNCHANGED <<records, notices>>
<1>1. CASE Pages
  BY <1>1, PageWrites DEF Types, Jobs
<1>2. CASE Recomputing
  <2>1. ASSUME NEW w \in Worker, \/ Snapshot(w) \/ FailRow(w)
                                 \/ \E e \in Employee, d \in Day : ReadRow(w, e, d) \/ SkipRow(w, e, d)
        PROVE  UNCHANGED <<records, notices>>
    BY <2>1, Zenon DEF Snapshot, FailRow, ReadRow, SkipRow, attendanceVars
  <2>2. ASSUME NEW w \in Worker, RecomputeToday(w) \/ Reassign(w) \/ (\E d \in Day : Regenerate(w, d))
        PROVE  UNCHANGED <<records, notices>>
    BY <2>2, Zenon DEF RecomputeToday, Reassign, Regenerate, attendanceVars
  <2>3. ASSUME NEW w \in Worker, NEW x \in Rematches, Rematch(w, x.first, x.last, x.only, x.again)
        PROVE  UNCHANGED <<records, notices>>
    BY <2>3, Zenon DEF Rematch, attendanceVars
  <2>4. QED
    BY <1>2, <2>1, <2>2, <2>3, Zenon DEF Recomputing
<1>3. CASE Reports \/ Others \/ UNCHANGED vars
  <2>1. UNCHANGED attendanceVars
    BY <1>3, ReportsFrame, Zenon DEF Others, TimePasses, Abandon, Crash, vars
  <2>2. QED
    BY <2>1 DEF attendanceVars
<1>4. QED
  BY <1>1, <1>2, <1>3 DEF Next, Others

(* The managers hear of a day's overtime when the stored row had none, and *)
(* not again, unless two recomputes of the row overlapped                  *)
(* (_maybe_notify_overtime).                                               *)
THEOREM NoticesAreNotRepeated == Spec => OvertimeNoticedOnce
<1> DEFINE kept == \A e \in Employee, d \in Day :
          notices'[e][d] > notices[e][d] =>
              \/ Overtime(e, d) = 0
              \/ \E w \in Worker : <<e, d>> \in InHand(ops[w]) /\ ops[w].row.raced
<1>1. ASSUME Types, RecordsRight, [Next]_vars
      PROVE  kept
  <2>1. SUFFICES ASSUME NEW e \in Employee, NEW d \in Day, notices'[e][d] > notices[e][d]
                 PROVE  \/ Overtime(e, d) = 0
                        \/ \E w \in Worker : <<e, d>> \in InHand(ops[w]) /\ ops[w].row.raced
    OBVIOUS
  <2>2. notices'[e][d] # notices[e][d]
    BY <1>1, <2>1 DEF Types, AttendanceTypes
  <2>3. PICK w \in Worker : WriteRow(w)
    BY <1>1, <2>2, OnlyWrites
  <2>4. PICK f \in Employee, b \in Day :
              /\ ops[w] \in TodayOp \cup EachOp /\ ops[w].row # None
              /\ ops[w].row \in HandRow /\ ops[w].row.pair = <<f, b>>
              /\ records' = [records EXCEPT ![f][b] = ops[w].row.record]
              /\ notices' = IF Crosses(ops[w].row) THEN [notices EXCEPT ![f][b] = @ + 1] ELSE notices
              /\ settled' = IF <<f, b>> \in ops[w].spoiled THEN settled \ {<<f, b>>}
                            ELSE settled \cup {<<f, b>>}
              /\ ops' = [v \in Worker |-> IF v = w THEN Left([ops[w] EXCEPT !.row = None])
                                          ELSE Passed(v, <<f, b>>)]
              /\ UNCHANGED <<now, inputs, jobVars, crashed, unrecorded, fuel>>
    BY <1>1, <2>3, WritesRow
  <2>5. Crosses(ops[w].row) /\ f = e /\ b = d
    BY <1>1, <2>2, <2>4 DEF Types, AttendanceTypes
  <2>6. ops[w] \in RowsOp /\ HandRight(ops[w])
    BY <1>1, <2>4, RowsOps DEF RecordsRight, OpsRight
  <2>7. CASE ops[w].row.raced
    <3>1. ops[w] \in {Idle} \cup JobOp \cup StaffOp
      BY <1>1 DEF Types, Jobs, OpTypes
    <3>2. InHand(ops[w]) = {<<e, d>>}
      BY <2>4, <2>5, <2>6, <3>1, WhoRecomputes DEF InHand
    <3>3. QED
      BY <2>7, <3>2
  <2>8. CASE ~ops[w].row.raced
    BY <2>4, <2>5, <2>6, <2>8 DEF HandRight, Crosses
  <2>9. QED
    BY <2>7, <2>8
<1>2. Types /\ RecordsRight /\ [Next]_vars => [kept]_vars
  BY <1>1
<1>3. QED
  BY <1>2, InitRight, RecordsStayRight, TypesHold, PTL DEF Spec, OvertimeNoticedOnce, kept

(***************************************************************************)
(* What the pages make of the rows.                                        *)
(***************************************************************************)
FiniteDays == \A d \in Day : IsFiniteSet(RecordsOf(d))

LEMMA DaysStayFinite == Types /\ FiniteDays /\ [Next]_vars => FiniteDays'
<1> SUFFICES ASSUME Types, FiniteDays, [Next]_vars, NEW d \in Day
             PROVE  IsFiniteSet(RecordsOf(d)')
  BY DEF FiniteDays
<1>1. CASE \A w \in Worker : ~WriteRow(w)
  <2>1. RecordsOf(d)' = RecordsOf(d)
    BY <1>1, OnlyWrites DEF RecordsOf
  <2>2. QED
    BY <2>1 DEF FiniteDays
<1>2. ASSUME NEW w \in Worker, WriteRow(w)
      PROVE  IsFiniteSet(RecordsOf(d)')
  <2>1. PICK e \in Employee, b \in Day :
              /\ ops[w] \in TodayOp \cup EachOp /\ ops[w].row # None
              /\ ops[w].row \in HandRow /\ ops[w].row.pair = <<e, b>>
              /\ records' = [records EXCEPT ![e][b] = ops[w].row.record]
              /\ notices' = IF Crosses(ops[w].row) THEN [notices EXCEPT ![e][b] = @ + 1] ELSE notices
              /\ settled' = IF <<e, b>> \in ops[w].spoiled THEN settled \ {<<e, b>>}
                            ELSE settled \cup {<<e, b>>}
              /\ ops' = [v \in Worker |-> IF v = w THEN Left([ops[w] EXCEPT !.row = None])
                                          ELSE Passed(v, <<e, b>>)]
              /\ UNCHANGED <<now, inputs, jobVars, crashed, unrecorded, fuel>>
    BY <1>2, WritesRow
  <2>2. \A f \in Employee : f # e => records'[f][d] = records[f][d]
    BY <2>1 DEF Types, AttendanceTypes
  <2>3. RecordsOf(d)' \subseteq RecordsOf(d) \cup {e}
    BY <2>2 DEF RecordsOf
  <2>4. IsFiniteSet(RecordsOf(d) \cup {e})
    BY FS_AddElement DEF FiniteDays
  <2>5. QED
    BY <2>3, <2>4, FS_Subset
<1>3. QED
  BY <1>1, <1>2

LEMMA InitFinite == Init => FiniteDays
<1>1. Init => \A d \in Day : RecordsOf(d) = {}
  BY DEF Init, RecordsOf
<1>2. QED
  BY <1>1, FS_EmptySet DEF FiniteDays

(* What is counted of a day. *)
In(d)     == {e \in RecordsOf(d) : records[e][d].in # None}
LateOf(d) == {e \in RecordsOf(d) : records[e][d].late}
AwayOf(d) == {e \in RecordsOf(d) : records[e][d].leave}
Out(d)    == {e \in RecordsOf(d) : records[e][d].absent}

LEMMA CompanyDayIs ==
    ASSUME NEW d
    PROVE  /\ CompanyDay(d).present = Greatest({0, Cardinality(In(d)) - Cardinality(LateOf(d))})
           /\ CompanyDay(d).late = Cardinality(LateOf(d))
           /\ CompanyDay(d).absent = Greatest({0, Cardinality(Out(d)) - Cardinality(AwayOf(d))})
  BY DEF CompanyDay, In, LateOf, AwayOf, Out

LEMMA RestOf ==
    ASSUME NEW m \in Nat, NEW n \in Nat, m <= n
    PROVE  Greatest({0, n - m}) + m = n
<1>1. n - m \in Int
  OBVIOUS
<1>2. Greatest({0, n - m}) = IF n - m > 0 THEN n - m ELSE 0
  BY <1>1, GreatestOfTwo
<1>3. QED
  BY <1>2

LEMMA CountsAdd ==
    ASSUME Types, Kept, FiniteDays, NEW d \in Day
    PROVE  /\ CompanyDay(d).present + CompanyDay(d).late = Cardinality(In(d))
           /\ AwayOf(d) = {} => CompanyDay(d).absent = Cardinality(Out(d))
<1>1. LateOf(d) \subseteq In(d)
  BY DEF LateOf, In, RecordsOf, Kept, RowKept, Sound
<1>2. In(d) \subseteq RecordsOf(d) /\ Out(d) \subseteq RecordsOf(d) /\ IsFiniteSet(RecordsOf(d))
  BY DEF In, Out, FiniteDays
<1>3. IsFiniteSet(In(d)) /\ IsFiniteSet(Out(d))
  BY <1>2, FS_Subset
<1>4. Cardinality(LateOf(d)) <= Cardinality(In(d)) /\ IsFiniteSet(LateOf(d))
  BY <1>1, <1>3, FS_Subset
<1>5. Cardinality(LateOf(d)) \in Nat /\ Cardinality(In(d)) \in Nat /\ Cardinality(Out(d)) \in Nat
  BY <1>3, <1>4, FS_CardinalityType
<1>6. CompanyDay(d).present + CompanyDay(d).late = Cardinality(In(d))
  BY <1>4, <1>5, CompanyDayIs, RestOf
<1>7. ASSUME AwayOf(d) = {}
      PROVE  CompanyDay(d).absent = Cardinality(Out(d))
  <2>1. Cardinality(AwayOf(d)) = 0
    BY <1>7, FS_EmptySet
  <2>2. Greatest({0, Cardinality(Out(d)) - 0}) + 0 = Cardinality(Out(d))
    BY <1>5, RestOf
  <2>3. Greatest({0, Cardinality(Out(d)) - 0}) \in Int
    BY <1>5, GreatestOfTwo
  <2>4. Greatest({0, Cardinality(Out(d)) - 0}) = Cardinality(Out(d))
    BY <2>2, <2>3
  <2>5. CompanyDay(d).absent = Greatest({0, Cardinality(Out(d)) - 0})
    BY <2>1, CompanyDayIs
  <2>6. QED
    BY <2>4, <2>5
<1>8. QED
  BY <1>6, <1>7

LEMMA SpecialIs ==
    ASSUME Types, NEW d \in Day
    PROVE  /\ Special(d) \in {None, "future", "holiday", "weekend"}
           /\ d = TenantDay(now) => Special(d) # "future"
           /\ None \notin {"future", "holiday", "weekend"}
<1>1. d \in Int
  BY DEF Day
<1>2. None \notin {"future", "holiday", "weekend"}
  BY NoneAssumption
<1>3. QED
  BY <1>1, <1>2 DEF Special

(* The month of a person, the drawer of a day, the list of today, the      *)
(* company's counts and the export tell the same of a row: the drawer and  *)
(* the month differ only on a leave no row has been written for, and the   *)
(* company's buckets never count an employee twice                         *)
(* (attendance_calendar/queries.py, erp_export/builder.py).                *)
THEOREM ViewsTellTheSame == Spec => []ViewsAgree
<1>1. ASSUME Types, Kept, FiniteDays
      PROVE  ViewsAgree
  <2> SUFFICES ASSUME NEW d \in Day
               PROVE  LET shown == {e \in Employee : records[e][d] # None}
                          status(e) == PersonStatus(e, d)
                          onLeave   == \E e \in shown : records[e][d].leave
                      IN  /\ \A e \in Employee : status(e) = DayStatus(e, d) \/ (e \notin shown /\ OnLeave(e, d))
                          /\ \A e \in shown : Special(d) = None =>
                                \/ status(e) = ErpStatus(records[e][d])
                                \/ status(e) = "present" /\ ErpStatus(records[e][d]) \in {"short", "early_out", "on_time"}
                          /\ CompanyDay(d).present + CompanyDay(d).late =
                                Cardinality({e \in shown : records[e][d].in # None})
                          /\ Special(d) = None /\ ~onLeave =>
                                CompanyDay(d).absent = Cardinality({e \in shown : status(e) = "absent"})
                          /\ d = TenantDay(now) =>
                                \A e \in Employee : Pending(e) => status(e) \in {"absent", "holiday", "weekend"}
    BY Zenon DEF ViewsAgree
  <2> DEFINE shown == {e \in Employee : records[e][d] # None}
             onLeave == \E e \in shown : records[e][d].leave
  <2>1. shown = RecordsOf(d)
    BY DEF RecordsOf
  <2>2. \A e \in Employee : PersonStatus(e, d) = DayStatus(e, d) \/ (e \notin shown /\ OnLeave(e, d))
    BY DEF PersonStatus, DayStatus
  <2>3. ASSUME NEW e \in shown, Special(d) = None
        PROVE  PersonStatus(e, d) = Marked(records[e][d])
    BY <2>3 DEF PersonStatus
  <2>4. ASSUME NEW e \in shown, Special(d) = None
        PROVE  \/ PersonStatus(e, d) = ErpStatus(records[e][d])
               \/ PersonStatus(e, d) = "present" /\ ErpStatus(records[e][d]) \in {"short", "early_out", "on_time"}
    BY <2>3, <2>4 DEF Marked, ErpStatus
  <2>5. CompanyDay(d).present + CompanyDay(d).late = Cardinality({e \in shown : records[e][d].in # None})
    <3>1. {e \in shown : records[e][d].in # None} = In(d)
      BY <2>1 DEF In
    <3>2. QED
      BY <1>1, <3>1, CountsAdd
  <2>6. ASSUME Special(d) = None, ~onLeave
        PROVE  CompanyDay(d).absent = Cardinality({e \in shown : PersonStatus(e, d) = "absent"})
    <3>1. AwayOf(d) = {}
      BY <2>1, <2>6 DEF AwayOf
    <3>2. \A e \in shown : PersonStatus(e, d) = "absent" <=> records[e][d].absent
      BY <2>3, <2>6 DEF Marked
    <3>3. {e \in shown : PersonStatus(e, d) = "absent"} = Out(d)
      BY <2>1, <3>2 DEF Out
    <3>4. QED
      BY <1>1, <3>1, <3>3, CountsAdd
  <2>7. ASSUME d = TenantDay(now), NEW e \in Employee, Pending(e)
        PROVE  PersonStatus(e, d) \in {"absent", "holiday", "weekend"}
    <3>1. e \in shown /\ records[e][d].absent /\ ~records[e][d].leave
      BY <2>7 DEF Pending
    <3>2. Special(d) # None => PersonStatus(e, d) = Special(d) /\ Special(d) \in {"holiday", "weekend"}
      BY <1>1, <2>7, SpecialIs DEF PersonStatus
    <3>3. Special(d) = None => PersonStatus(e, d) = "absent"
      BY <2>3, <3>1 DEF Marked
    <3>4. QED
      BY <3>2, <3>3
  <2>8. QED
    BY <2>2, <2>4, <2>5, <2>6, <2>7
<1>2. QED
  BY <1>1, InitFinite, DaysStayFinite, RowsAreKept, PTL DEF Spec

(***************************************************************************)
(* The stays of a timeline.                                                *)
(***************************************************************************)
LEMMA StaysAre ==
    ASSUME NEW n \in Nat, NEW A \in SUBSET (0 .. n), A # {}
    PROVE  /\ \E s \in Stays(A) : s[1] = Least(A)
           /\ \E s \in Stays(A) : s[2] = Greatest(A)
           /\ \A s \in Stays(A) : Least(A) <= s[1] /\ s[2] <= Greatest(A)
<1> DEFINE bridged(a, b) == \A x \in A : a <= x /\ x < b => \E y \in A : x < y /\ y - x <= Gap
           stay(a, b) == /\ a <= b /\ bridged(a, b)
                         /\ \A x \in A : x + Gap < a \/ a <= x
                         /\ \A x \in A : x <= b \/ b + Gap < x
<1>1. Stays(A) = {s \in A \X A : stay(s[1], s[2])}
  BY DEF Stays
<1>2. /\ A \in SUBSET Nat
      /\ Least(A) \in A /\ \A x \in A : Least(A) <= x
      /\ Greatest(A) \in A /\ \A x \in A : x <= Greatest(A)
  <2>1. A \in SUBSET Nat
    OBVIOUS
  <2>2. QED
    BY <2>1, LeastIs, GreatestIs
<1>3. ASSUME NEW a \in A, NEW b \in A, stay(a, b)
      PROVE  <<a, b>> \in Stays(A)
  <2>1. <<a, b>>[1] = a /\ <<a, b>>[2] = b /\ <<a, b>> \in A \X A
    OBVIOUS
  <2> HIDE DEF stay
  <2>2. QED
    BY <1>1, <1>3, <2>1
<1> DEFINE first == Least(A)
           last == Greatest(A)
<1> HIDE DEF first, last
<1>4. first \in A /\ last \in A /\ \A x \in A : first <= x /\ x <= last
  BY <1>2 DEF first, last
<1>5. \E b \in A : stay(first, b)
  <2> DEFINE B == {x \in A : bridged(first, x)}
             z == Greatest(B)
  <2>1. first \in B
    BY <1>2, <1>4
  <2>2. z \in B /\ \A x \in B : x <= z
    <3>1. B \in SUBSET (0 .. n) /\ B # {}
      BY <2>1
    <3> HIDE DEF B
    <3>2. QED
      BY <3>1, GreatestIs
  <2> HIDE DEF z
  <2>3. ASSUME NEW x \in A, z < x, x <= z + Gap
        PROVE  FALSE
    <3>1. ASSUME NEW u \in A, first <= u, u < x
          PROVE  \E y \in A : u < y /\ y - u <= Gap
      <4>1. CASE u < z
        BY <2>2, <3>1, <4>1
      <4>2. CASE ~(u < z)
        <5>1. u < x /\ x - u <= Gap
          BY <1>2, <2>2, <2>3, <3>1, <4>2, GapAssumption
        <5>2. QED
          BY <5>1
      <4>3. QED
        BY <4>1, <4>2
    <3>2. x \in B
      BY <3>1
    <3>3. QED
      BY <1>2, <2>2, <2>3, <3>2
  <2>4. \A x \in A : x <= z \/ z + Gap < x
    BY <1>2, <2>2, <2>3, GapAssumption
  <2>5. \A x \in A : x + Gap < first \/ first <= x
    BY <1>4
  <2>6. first <= z /\ bridged(first, z)
    BY <1>4, <2>2
  <2>7. QED
    BY <2>2, <2>4, <2>5, <2>6
<1>6. \E a \in A : stay(a, last)
  <2> DEFINE B == {x \in A : bridged(x, last)}
             z == Least(B)
  <2>1. last \in B
    BY <1>2, <1>4
  <2>2. z \in B /\ \A x \in B : z <= x
    <3>1. B \in SUBSET Nat /\ B # {}
      BY <1>2, <2>1
    <3> HIDE DEF B
    <3>2. QED
      BY <3>1, LeastIs
  <2> HIDE DEF z
  <2>3. ASSUME NEW x \in A, x < z, z <= x + Gap
        PROVE  FALSE
    <3>1. ASSUME NEW u \in A, x <= u, u < last
          PROVE  \E y \in A : u < y /\ y - u <= Gap
      <4>1. CASE z <= u
        BY <2>2, <3>1, <4>1
      <4>2. CASE ~(z <= u)
        <5>1. u < z /\ z - u <= Gap
          BY <1>2, <2>2, <2>3, <3>1, <4>2, GapAssumption
        <5>2. QED
          BY <2>2, <5>1
      <4>3. QED
        BY <4>1, <4>2
    <3>2. x \in B
      BY <3>1
    <3>3. QED
      BY <1>2, <2>2, <2>3, <3>2
  <2>4. \A x \in A : x + Gap < z \/ z <= x
    BY <1>2, <2>2, <2>3, GapAssumption
  <2>5. \A x \in A : x <= last \/ last + Gap < x
    BY <1>4
  <2>6. z <= last /\ bridged(z, last)
    BY <1>4, <2>2
  <2>7. QED
    BY <2>2, <2>4, <2>5, <2>6
<1>7. \E s \in Stays(A) : s[1] = first
  <2> HIDE DEF stay
  <2>1. PICK b \in A : stay(first, b)
    BY <1>5
  <2>2. QED
    BY <1>3, <1>4, <2>1
<1>8. \E s \in Stays(A) : s[2] = last
  <2> HIDE DEF stay
  <2>1. PICK a \in A : stay(a, last)
    BY <1>6
  <2>2. QED
    BY <1>3, <1>4, <2>1
<1>9. \A s \in Stays(A) : first <= s[1] /\ s[2] <= last
  <2> HIDE DEF stay
  <2>1. QED
    BY <1>1, <1>4
<1>10. QED
  BY <1>7, <1>8, <1>9 DEF first, last

(* A row's check in and check out are the first and the last detection. *)
LEMMA SeenMarks ==
    ASSUME NEW p, NEW ks, NEW onLeave, NEW off
    PROVE  /\ Seen(p, ks, onLeave, off).in = Least({Slot(k) : k \in ks})
           /\ Seen(p, ks, onLeave, off).out \in {None, Greatest({Slot(k) : k \in ks})}
<1> DEFINE in == Least({Slot(k) : k \in ks})
           last == Greatest({Slot(k) : k \in ks})
           twice == Cardinality(ks) > 1
           out == IF twice THEN last ELSE None
<1>1. Seen(p, ks, onLeave, off).in = in /\ Seen(p, ks, onLeave, off).out = out
  BY DEF Seen
<1>2. QED
  BY <1>1

(* In the server's zone the drawer sees the slots the engine sees, but for *)
(* the last.                                                               *)
LEMMA CapturedIs ==
    ASSUME Types, settings.ahead = 0, NEW e \in Employee, NEW d \in Day
    PROVE  /\ {Slot(k) : k \in Events(e, d)} \in SUBSET SlotOfDay
           /\ Captured(e, d) = {Slot(k) : k \in Events(e, d)} \ {LastSecond}
<1>1. ASSUME NEW k \in Shot, shots[k] # None
      PROVE  /\ TenantDay(shots[k].at) = ServerDay(shots[k].at)
             /\ (shots[k].at + settings.ahead) % DayLength = Slot(k)
             /\ Slot(k) \in SlotOfDay
  <2>1. shots[k].at \in Time /\ settings.ahead \in Zones
    BY <1>1 DEF Types, AttendanceTypes, ShotRow
  <2>2. shots[k].at \in Nat /\ shots[k].at % DayLength \in SlotOfDay
    BY <2>1, Days
  <2>3. shots[k].at + settings.ahead = shots[k].at
    BY <2>2
  <2>4. QED
    BY <2>2, <2>3 DEF TenantDay, ServerDay, Slot
<1> DEFINE ks == {x \in Shot : shots[x] # None /\ shots[x].emp = e /\ TenantDay(shots[x].at) = d}
<1>2. Events(e, d) = ks
  BY <1>1 DEF Events
<1>3. {(shots[k].at + settings.ahead) % DayLength : k \in ks} = {Slot(k) : k \in ks}
  BY <1>1
<1>4. {Slot(k) : k \in ks} \in SUBSET SlotOfDay
  BY <1>1
<1>5. Captured(e, d) = {(shots[k].at + settings.ahead) % DayLength : k \in ks} \ {LastSecond}
  BY DEF Captured
<1> HIDE DEF ks
<1>6. QED
  BY <1>2, <1>3, <1>4, <1>5

(* What leaving out the last slot does to the first and the last.          *)
LEMMA WithoutLast ==
    ASSUME NEW B \in SUBSET SlotOfDay, B # {}
    PROVE  /\ Least(B) = LastSecond => B \ {LastSecond} = {}
           /\ Least(B) # LastSecond =>
                 B \ {LastSecond} # {} /\ Least(B \ {LastSecond}) = Least(B)
           /\ Greatest(B) # LastSecond => B \ {LastSecond} = B
           /\ Least(B) # None /\ Greatest(B) # None
<1>1. DayLength \in Nat \ {0} /\ B \in SUBSET Nat /\ \A x \in B : x <= LastSecond
  BY ClockAssumption DEF SlotOfDay, LastSecond
<1>2. LastSecond \in Nat
  BY <1>1 DEF LastSecond
<1>3. Least(B) \in B /\ \A x \in B : Least(B) <= x
  BY <1>1, LeastIs
<1>4. Greatest(B) \in B /\ \A x \in B : x <= Greatest(B)
  <2>1. B \in SUBSET (0 .. LastSecond)
    BY <1>1, <1>2
  <2>2. QED
    BY <1>2, <2>1, GreatestIs
<1> DEFINE A == B \ {LastSecond}
           low == Least(B)
           high == Greatest(B)
<1>5. low = LastSecond => A = {}
  <2>1. ASSUME low = LastSecond, NEW x \in B
        PROVE  x = LastSecond
    <3>1. x \in Nat /\ x <= LastSecond /\ LastSecond <= x
      BY <1>1, <1>3, <2>1
    <3>2. QED
      BY <1>2, <3>1
  <2>2. QED
    BY <2>1
<1>6. low # LastSecond => A # {} /\ Least(A) = low
  <2> SUFFICES ASSUME low # LastSecond PROVE A # {} /\ Least(A) = low
    OBVIOUS
  <2>1. low \in A /\ A \in SUBSET Nat /\ A # {}
    BY <1>1, <1>3
  <2> HIDE DEF A
  <2>2. Least(A) \in A /\ \A x \in A : Least(A) <= x
    BY <2>1, LeastIs
  <2> DEFINE least == Least(A)
  <2>3. least \in Nat /\ low \in Nat /\ least <= low /\ low <= least
    BY <1>3, <2>1, <2>2 DEF A
  <2> HIDE DEF least
  <2>4. least = low
    BY <2>3
  <2>5. QED
    BY <2>1, <2>4 DEF least
<1>7. high # LastSecond => A = B
  <2> SUFFICES ASSUME high # LastSecond, LastSecond \in B PROVE FALSE
    OBVIOUS
  <2>1. high \in Nat /\ high <= LastSecond /\ LastSecond <= high
    BY <1>1, <1>4
  <2>2. QED
    BY <1>2, <2>1
<1>8. low # None /\ high # None
  <2>1. low \in B /\ high \in B
    BY <1>3, <1>4
  <2> HIDE DEF low, high
  <2>2. low \in Int /\ high \in Int
    BY <1>1, <2>1
  <2>3. QED
    BY <2>2, NoneAssumption
<1>9. QED
  BY <1>5, <1>6, <1>7, <1>8

(* While the tenant lives in the server's zone, the stays the drawer shows *)
(* begin with the check in and end with the check out of an up-to-date     *)
(* row, but for a check in or out in the last second of the day, which the *)
(* drawer's query leaves out (fetch_day_detail).                           *)
THEOREM DetailsExplainRows == Spec => []DetailExplainsRow
<1>1. ASSUME Types, RecordsRight, settings.ahead = 0, NEW e \in Employee, NEW d \in Day, <<e, d>> \in settled
      PROVE  IF records[e][d].in \in {None, LastSecond} THEN Timeline(e, d) = {}
             ELSE /\ \E s \in Timeline(e, d) : s[1] = records[e][d].in /\ \A t \in Timeline(e, d) : records[e][d].in <= t[1]
                  /\ records[e][d].out \notin {None, LastSecond} =>
                       \E s \in Timeline(e, d) : s[2] = records[e][d].out /\ \A t \in Timeline(e, d) : t[2] <= records[e][d].out
  <2>1. PICK p \in Resolved(e, d) : records[e][d] = Compute(p, Events(e, d), OnLeave(e, d), Off(d))
    BY <1>1 DEF RecordsRight, SettledRight, RightRow
  <2> DEFINE B == {Slot(k) : k \in Events(e, d)}
             A == Captured(e, d)
  <2>2. B \in SUBSET SlotOfDay /\ A = B \ {LastSecond}
    BY <1>1, CapturedIs
  <2>3. Timeline(e, d) = Stays(A)
    BY DEF Timeline
  <2>4. Stays({}) = {}
    BY DEF Stays
  <2>5. CASE Events(e, d) = {}
    <3>1. records[e][d].in = None
      BY <2>1, <2>5 DEF Compute, Unseen
    <3>2. A = {}
      BY <2>2, <2>5
    <3>3. QED
      BY <2>3, <2>4, <3>1, <3>2
  <2>6. CASE Events(e, d) # {}
    <3>1. records[e][d].in = Least(B) /\ records[e][d].out \in {None, Greatest(B)}
      BY <2>1, <2>6, SeenMarks DEF Compute
    <3>2. B # {}
      BY <2>6
    <3> HIDE DEF A, B
    <3>3. /\ Least(B) = LastSecond => A = {}
          /\ Least(B) # LastSecond => A # {} /\ Least(A) = Least(B)
          /\ Greatest(B) # LastSecond => A = B
          /\ Least(B) # None
      BY <2>2, <3>2, WithoutLast
    <3>4. CASE Least(B) = LastSecond
      BY <2>3, <2>4, <3>1, <3>3, <3>4
    <3>5. CASE Least(B) # LastSecond
      <4>1. A # {} /\ A \in SUBSET (0 .. DayLength - 1) /\ DayLength - 1 \in Nat
        <5>1. A \in SUBSET (0 .. DayLength - 1)
          BY <2>2 DEF SlotOfDay
        <5>2. DayLength - 1 \in Nat
          BY ClockAssumption
        <5>3. QED
          BY <3>3, <3>5, <5>1, <5>2
      <4>2. /\ \E s \in Stays(A) : s[1] = Least(A)
            /\ \E s \in Stays(A) : s[2] = Greatest(A)
            /\ \A s \in Stays(A) : Least(A) <= s[1] /\ s[2] <= Greatest(A)
        BY <4>1, StaysAre
      <4>3. Least(A) = records[e][d].in /\ records[e][d].in \notin {None, LastSecond}
        BY <3>1, <3>3, <3>5
      <4>4. records[e][d].out \notin {None, LastSecond} => records[e][d].out = Greatest(A)
        BY <3>1, <3>3
      <4>5. QED
        BY <2>3, <4>2, <4>3, <4>4
    <3>6. QED
      BY <3>4, <3>5
  <2>7. QED
    BY <2>5, <2>6
<1>2. Types /\ RecordsRight => DetailExplainsRow
  BY <1>1, Zenon DEF DetailExplainsRow
<1>3. QED
  BY <1>2, InitRight, RecordsStayRight, TypesHold, PTL DEF Spec

===============================================================================
