---------------------------- MODULE OfficeState ----------------------------
(***************************************************************************)
(* The state the attendance services and the background jobs of one tenant *)
(* share: what the recompute reads (detections, policies, leaves,          *)
(* holidays, settings), the attendance records it writes, the schedules    *)
(* that turn the records into files and mails, and the handlers and jobs   *)
(* that are between two of their transactions.                             *)
(*                                                                         *)
(* The clock counts slots of a day, DayLength to a day of the server's     *)
(* zone; the tenant's own zone may be ahead of it.  The database runs at   *)
(* READ COMMITTED and nothing is locked: a handler that writes what it     *)
(* computed from an earlier read is two steps.                             *)
(***************************************************************************)
EXTENDS Integers, FiniteSets, Sequences

CONSTANTS
    Employee, Department,
    DepartmentOf,  \* the department of every employee
    Policy, Form,  \* ids of shift policies, and what one may say
    Window,        \* <<first, last>> days a policy or an assignment may be active
    Shot,          \* ids of detection events
    Schedule, Run, \* ids of report schedules and of report runs
    Cron,          \* cron expressions, as periods in slots
    Worker,        \* handlers and jobs that may be in flight together
    Zones,         \* slots by which the tenant's zone may be ahead
    DayLength,     \* slots of a day
    LastDay,       \* days are 0 .. LastDay
    TokenLife,     \* slots a download link is good for
    KeepRuns,      \* slots the retention sweep leaves a finished run
    Beginnings,    \* who is on the staff, the zone, and the bounds on the events
    None,          \* no row; NULL
    Gone           \* no row any more: a deleted id is not handed out again

Day  == 0 .. LastDay
Time == {t \in 0 .. (LastDay + 1) * DayLength - 1 : \A z \in Zones : (t + z) \div DayLength \in Day}

(* What happens to the inputs of the records, what begins a recompute or   *)
(* fails in one, and the same of reports, exports and the sweep.           *)
EventKind == {"input", "recompute", "report"}

(* What the columns of a row may hold. *)
SlotOfDay    == 0 .. DayLength - 1
Config       == [inner : {"Fixed", "Flex"}, start : SlotOfDay, end : SlotOfDay, grace : Nat,
                 need : Nat, inEnd : SlotOfDay, outStart : SlotOfDay,
                 lo : Day \cup {None}, hi : Day \cup {None}]
ShotRow      == [at : Time, emp : Employee \cup {None}]
PolicyRow    == [type : {"Fixed", "Flex", "Ramadan", "Custom"}, config : Config,
                 from : Int, until : Int \cup {None}]
RecordRow    == [policy : Policy, in : SlotOfDay \cup {None}, out : SlotOfDay \cup {None},
                 late : BOOLEAN, early : BOOLEAN, short : BOOLEAN, absent : BOOLEAN,
                 over : Nat, leave : BOOLEAN]
ScheduleRow  == [cron : Cron, active : BOOLEAN, sends : BOOLEAN, next : Nat]
RunRow       == [schedule : Schedule, status : {"running", "succeeded", "failed"},
                 file : BOOLEAN, mode : {None, "attached", "link"}, finished : Time \cup {None}]

(* NULL and a row that is gone are neither ids nor rows. *)
ASSUME NoneAssumption ==
    /\ None # Gone
    /\ \A x \in {None, Gone} :
          /\ x \notin Employee \cup Department \cup Policy \cup Shot \cup Schedule \cup Run \cup Int
          /\ x \notin {"attached", "link", "future", "holiday", "weekend"}
          /\ x \notin Seq([id : Schedule, due : Time])
          /\ x \notin ShotRow \cup PolicyRow \cup RecordRow \cup ScheduleRow \cup RunRow

ASSUME ClockAssumption ==
    /\ DayLength \in Nat \ {0} /\ LastDay \in Nat
    /\ Beginnings \subseteq [staff : (SUBSET Employee) \ {{}}, ahead : Zones, fuel : [EventKind -> Nat]]
    /\ Zones \subseteq SlotOfDay /\ 2 \in Time
    /\ Cron \subseteq Nat \ {0} /\ Cron # {}
    /\ TokenLife \in Nat /\ KeepRuns \in Nat

(* The export is no schedule. *)
ASSUME ExportAssumption == "erp" \notin Schedule

ASSUME PlaceAssumption == DepartmentOf \in [Employee -> Department] /\ Employee # {}

ASSUME FormAssumption ==
    /\ Form \subseteq [type : {"Fixed", "Flex", "Ramadan", "Custom"}, config : Config]
    /\ \E form \in Form : form.type = "Fixed"
    /\ Window \subseteq Int \X (Int \cup {None})

VARIABLES
    now,         \* the clock
    staff,       \* employees whose status is "active"
    shots,       \* detection_events: when, and who was recognised
    policies,    \* shift_policies
    assignments, \* policy_assignments: policy, scope, window
    leaves,      \* approved_leaves: employee, first and last day
    holidays,    \* days with a holidays row
    settings,    \* tenant_settings: days of the weekend, slots the zone is ahead
    records,     \* attendance_records of an employee and day
    notices,     \* how often an employee's overtime of a day was notified
    schedules,   \* report_schedules
    runs,        \* report_runs
    disk,        \* runs whose file is below the report directory
    mailed,      \* how often the tick has mailed a schedule for a due time
    links,       \* download links in mailboxes: <<run, expiry>>
    email,       \* email_config.enabled
    erp,         \* erp_export_config
    ops,         \* what each handler or job in flight does next
    settled,     \* <<employee, day>> recomputed since the last change of its inputs
    overtaken,   \* schedules ("erp" too) whose cron was last patched under a run
    crashed,     \* the process has died once
    unrecorded,  \* runs whose last transaction raised: [run, about, due]
    fuel         \* how many events of each kind are left

inputs         == <<staff, shots, policies, assignments, leaves, holidays, settings>>
attendanceVars == <<inputs, records, notices, settled>>
jobVars        == <<schedules, runs, disk, mailed, links, email, erp, overtaken>>
vars           == <<now, attendanceVars, jobVars, ops, crashed, unrecorded, fuel>>

Event(kind) == fuel[kind] > 0 /\ fuel' = [fuel EXCEPT ![kind] = @ - 1]

ServerDay(t) == t \div DayLength
TenantDay(t) == (t + settings.ahead) \div DayLength

-----------------------------------------------------------------------------
(* Handlers and jobs in flight. *)

Idle == [next |-> "idle"]

At(w, next) == ops[w].next = next
Begin(w, op) == At(w, "idle") /\ ops' = [ops EXCEPT ![w] = op]
Put(w, op) == ops' = [ops EXCEPT ![w] = op]
Done(w) == Put(w, Idle)

(* croniter: the first match after t. *)
NextRun(cron, t) == ((t \div cron) + 1) * cron

=============================================================================
