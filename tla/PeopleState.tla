---------------------------- MODULE PeopleState ----------------------------
(***************************************************************************)
(* The state the employee services of one tenant share: the rows of the    *)
(* organisation (divisions, departments, sections, employees, users and    *)
(* what links them), the face photos with their files, the cache of the    *)
(* face matcher, the sessions of the users, and the requests that are      *)
(* between two of their steps.                                             *)
(*                                                                         *)
(* A transaction is one step, unless what it read may change before it     *)
(* writes: the database runs at READ COMMITTED and the handlers lock       *)
(* nothing, so such a handler reads in one step and writes in another.  A  *)
(* transaction that fails and is undone altogether is a request that takes *)
(* no further step; one that leaves something behind has a step for that.  *)
(***************************************************************************)
EXTENDS Naturals, FiniteSets, Sequences

CONSTANTS
    Employee, Division, Department, Section, User, Field, Photo,
                \* ids the database may hand out
    Option,     \* values a select field may offer
    Name,       \* names of divisions, departments and sections
    Request,    \* requests and jobs that may be in flight together
    Token,      \* ids of sessions, each made once
    LastDay,    \* days are 0 .. LastDay
    MaxEvents,  \* bound on the events of a behaviour
    None,       \* no row; NULL
    Gone        \* no row any more: a deleted id is not handed out again

Role == {"Admin", "HR", "Manager", "Employee"}
Day  == 0 .. LastDay

(* The steps of the transactions that take the photos of an employee away. *)
ErasureStep == {"erase", "purge", "redact", "purge row"}

(* What the columns of a row may hold. *)
DepartmentRow == [name : Name, division : Division \cup {None}]
SectionRow    == [name : Name, dept : Department]
UserRow       == [roles : SUBSET Role, active : BOOLEAN]
EmployeeRow   == [dept : Department, section : Section \cup {None},
                  status : {"active", "inactive", "deleted"}, last : Day \cup {None}]
PhotoRow      == [emp : Employee, status : {"pending", "approved"},
                  embedded : BOOLEAN, own : BOOLEAN]
SessionRow    == [user : User, role : Role, live : BOOLEAN, sent : BOOLEAN]

(* NULL and a row that is gone are neither ids nor rows. *)
ASSUME NoneAssumption ==
    /\ None # Gone
    /\ \A x \in {None, Gone} :
          /\ x \notin Employee \cup Division \cup Department \cup Section \cup User
                         \cup Field \cup Photo \cup Name \cup Token \cup Nat
          /\ x \notin DepartmentRow \cup SectionRow \cup UserRow \cup EmployeeRow
                         \cup PhotoRow \cup SessionRow
          /\ \A options \in SUBSET Option : x # options

ASSUME DaysAssumption == LastDay \in Nat /\ MaxEvents \in Nat

ASSUME SomeAssumption ==
    /\ {} \notin {Employee, Division, Department, Section, User, Name, Option, Token}
    /\ IsFiniteSet(Request)

VARIABLES
    divisions,    \* name of every division
    departments,  \* name and division of every department
    sections,     \* name and department of every section
    users,        \* roles of every user, and whether it may log in
    employees,    \* placement, status, last day and designation of every employee
    posts,        \* user_divisions, user_departments, user_sections: <<unit, user>>
    assigned,     \* manager_assignments: "none", "plain" or "primary"
    fields,       \* options of every custom field of type select
    values,       \* value of an employee's custom field
    photos,       \* employee_photos
    files,        \* <<employee, photo>>: files below the employee's faces directory
    deletes,      \* status of the delete requests of an employee, oldest first
    sessions,     \* user_sessions: user, active role, not expired, known to a browser
    failures,     \* LoginRateLimiter: failed attempts per user
    chosen,       \* <<user, preference>>: users.preferred_language, _theme and _density
    suspended,    \* public.tenants.status of the tenant
    oidc,         \* tenant_oidc_config: complete and enabled
    console,      \* the operator's session: not expired, acting for the tenant
    cache,        \* MatcherCache: loaded, and per employee the stack and the lifecycle
    ops,          \* what each request in flight does next
    today,        \* the tenant's local date
    stale,        \* <<employee, part>>: changed by code that does not tell the cache
    crashed,      \* the process has died once
    botched,      \* <<employee, step>>: an erasure has failed at this step
    fuel          \* events left

orgVars  == <<divisions, departments, sections, users, posts, assigned, fields, values>>
faceVars == <<photos, files, deletes, cache, stale>>
authVars == <<sessions, failures, chosen, suspended, oidc, console>>
world    == <<today, crashed, botched>>
vars     == <<orgVars, employees, faceVars, authVars, ops, world, fuel>>

Event == fuel > 0 /\ fuel' = fuel - 1

-----------------------------------------------------------------------------
(* Rows. *)

Exists(table, id) == id # None /\ table[id] \notin {None, Gone}

Employed(e) == Exists(employees, e)

Divided(d) == departments[d].division

(* The employees of a unit whose status is not "deleted": what the         *)
(* handlers count before they delete the unit.                             *)
CountedIn(column, unit) ==
    {e \in Employee : /\ Employed(e)
                      /\ employees[e][column] = unit
                      /\ employees[e].status # "deleted"}

(* ON DELETE RESTRICT: any employee row keeps its unit. *)
ReferTo(column, unit) ==
    {e \in Employee : Employed(e) /\ employees[e][column] = unit}

Idle == [kind |-> "idle"]

Begin(r, op) == ops[r] = Idle /\ ops' = [ops EXCEPT ![r] = op]
Step(r, next) == ops' = [ops EXCEPT ![r].next = next]
Done(r) == ops' = [ops EXCEPT ![r] = Idle]
At(r, next) == ops[r] # Idle /\ ops[r].next = next

Unloaded == [loaded |-> FALSE,
             stack  |-> [e \in Employee |-> {"absent"}],
             life   |-> [e \in Employee |-> None]]

(* A tenant in which everything that may exist does, but for one division  *)
(* and one id of an employee and, in a tenant just set up, for every       *)
(* second unit and user, the custom fields and the pending delete request  *)
(* and photo.  One user is signed in, and the operator unless the tenant   *)
(* is new.  Ids are interchangeable.                                       *)
Init ==
    \E new \in BOOLEAN, p \in Photo :
    LET e == CHOOSE x \in Employee : TRUE
        v == CHOOSE x \in Division : TRUE
        d == CHOOSE x \in Department : TRUE
        s == CHOOSE x \in Section : TRUE
        n == CHOOSE x \in Name : TRUE
        u == CHOOSE x \in User : TRUE
        other == IF Department = {d} THEN d ELSE CHOOSE x \in Department : x # d
    IN  /\ divisions = [x \in Division |-> IF x = v THEN n ELSE None]
        /\ departments = [x \in Department |->
               IF x = d \/ ~new THEN [name |-> n, division |-> v] ELSE None]
        /\ sections = [y \in Section |->
               IF y = s THEN [name |-> n, dept |-> d]
               ELSE IF new THEN None ELSE [name |-> n, dept |-> other]]
        /\ users = [x \in User |->
               IF x = u \/ ~new THEN [roles |-> {"Manager", "Employee"}, active |-> TRUE] ELSE None]
        /\ employees = [x \in Employee |->
               IF x = e THEN [dept |-> d, section |-> s, status |-> "active", last |-> LastDay]
               ELSE None]
        /\ posts = IF new THEN {} ELSE {<<d, u>>}
        /\ assigned = [x \in Employee |-> [y \in User |->
               IF x = e /\ y = u /\ ~new THEN "plain" ELSE "none"]]
        /\ fields = [x \in Field |-> IF new THEN None ELSE {CHOOSE o \in Option : TRUE}]
        /\ values = [x \in Employee |-> [y \in Field |->
               IF x = e /\ ~new THEN CHOOSE o \in Option : TRUE ELSE None]]
        /\ photos = [x \in Photo |->
               IF x = p THEN [emp |-> e, status |-> IF new THEN "approved" ELSE "pending",
                              embedded |-> TRUE, own |-> ~new]
               ELSE None]
        /\ files = {<<e, p>>}
        /\ deletes = [x \in Employee |-> IF x = e /\ ~new THEN <<"pending">> ELSE <<>>]
        /\ sessions = [t \in Token |->
               IF t = CHOOSE x \in Token : TRUE
               THEN [user |-> u, role |-> "Manager", live |-> TRUE, sent |-> TRUE] ELSE None]
        /\ failures = [x \in User |-> 0]
        /\ chosen = {} /\ suspended = FALSE /\ oidc = TRUE
        /\ console = IF new THEN None ELSE [live |-> TRUE, as |-> FALSE]
        /\ cache = Unloaded
        /\ ops = [r \in Request |-> Idle]
        /\ today = 0
        /\ stale = {}
        /\ crashed = FALSE /\ botched = {}
        /\ fuel = MaxEvents

=============================================================================
