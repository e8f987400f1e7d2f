------------------------------ MODULE OrgChart ------------------------------
(***************************************************************************)
(* The organisation of a tenant: divisions, departments and sections       *)
(* (divisions_router.py, departments_router.py, sections_router.py), the   *)
(* users and what they manage (users_lookup.py, manager_assignments), the  *)
(* custom fields, and the import of employees, whose every row is a        *)
(* transaction that makes what it names and does not find.                 *)
(***************************************************************************)
EXTENDS PeopleState

CONSTANTS
    Rows,     \* rows of an import file
    Rosters   \* sets of roles a user may be given

ASSUME RostersAssumption == Rosters \subseteq (SUBSET Role) \ {{}}

ASSUME RowsAssumption ==
    \A row \in Rows :
        /\ row.emp \in Employee /\ row.user \in User /\ row.field \in Field
        /\ row.dept \in Department /\ row.name \in Name /\ row.last \in Day \cup {None}
        /\ row.division \in Division \cup {None} /\ row.section \in Section \cup {None}

units == <<divisions, departments, sections>>

-----------------------------------------------------------------------------
(* Divisions, departments and sections. *)

CreateDivision(v, n) ==
    /\ Event /\ divisions[v] = None
    /\ divisions' = [divisions EXCEPT ![v] = n]
    /\ UNCHANGED <<departments, sections, users, posts, assigned, fields, values,
                   employees, faceVars, ops, authVars, world>>

PatchDivision(v, n) ==
    /\ Event /\ divisions[v] \notin {None, n}
    /\ divisions' = [divisions EXCEPT ![v] = n]
    /\ UNCHANGED <<departments, sections, users, posts, assigned, fields, values,
                   employees, faceVars, ops, authVars, world>>

(* Departments keep their division; the posts in it go with it. *)
DeleteDivision(v) ==
    /\ Event /\ divisions[v] # None
    /\ \A d \in Department : departments[d] # None => Divided(d) # v
    /\ divisions' = [divisions EXCEPT ![v] = None]
    /\ posts' = {x \in posts : x[1] # v}
    /\ UNCHANGED <<departments, sections, users, assigned, fields, values,
                   employees, faceVars, ops, authVars, world>>

CreateDepartment(d, n, v) ==
    /\ Event /\ departments[d] = None
    /\ v = None \/ Exists(divisions, v)
    /\ departments' = [departments EXCEPT ![d] = [name |-> n, division |-> v]]
    /\ UNCHANGED <<divisions, sections, users, posts, assigned, fields, values,
                   employees, faceVars, ops, authVars, world>>

(* The new name, the new division, or both. *)
PatchDepartment(d, n, v) ==
    /\ Event /\ departments[d] # None
    /\ v = None \/ Exists(divisions, v)
    /\ departments' = [departments EXCEPT ![d] = [name |-> n, division |-> v]]
    /\ departments' # departments
    /\ UNCHANGED <<divisions, sections, users, posts, assigned, fields, values,
                   employees, faceVars, ops, authVars, world>>

(* The handler counts the employees; the foreign keys count the erased     *)
(* ones too, and the sections.                                             *)
DeleteDepartment(d) ==
    /\ Event /\ departments[d] # None
    /\ CountedIn("dept", d) = {}
    /\ ReferTo("dept", d) = {}
    /\ \A s \in Section : sections[s] # None => sections[s].dept # d
    /\ departments' = [departments EXCEPT ![d] = None]
    /\ posts' = {x \in posts : x[1] # d}
    /\ UNCHANGED <<divisions, sections, users, assigned, fields, values,
                   employees, faceVars, ops, authVars, world>>

(* A row of the department file renames the department with its code, or   *)
(* makes one; each row is a transaction.                                   *)
ImportDepartment(d, n) ==
    /\ Event
    /\ departments' = [departments EXCEPT ![d] =
           IF departments[d] # None THEN [departments[d] EXCEPT !.name = n]
           ELSE [name |-> n, division |-> None]]
    /\ departments' # departments
    /\ UNCHANGED <<divisions, sections, users, posts, assigned, fields, values,
                   employees, faceVars, ops, authVars, world>>

CreateSection(s, n, d) ==
    /\ Event /\ sections[s] = None /\ Exists(departments, d)
    /\ sections' = [sections EXCEPT ![s] = [name |-> n, dept |-> d]]
    /\ UNCHANGED <<divisions, departments, users, posts, assigned, fields, values,
                   employees, faceVars, ops, authVars, world>>

(* Only the name: a section stays in its department. *)
PatchSection(s, n) ==
    /\ Event /\ sections[s] # None /\ sections[s].name # n
    /\ sections' = [sections EXCEPT ![s].name = n]
    /\ UNCHANGED <<divisions, departments, users, posts, assigned, fields, values,
                   employees, faceVars, ops, authVars, world>>

DeleteSection(s) ==
    /\ Event /\ sections[s] # None
    /\ CountedIn("section", s) = {}
    /\ ReferTo("section", s) = {}
    /\ sections' = [sections EXCEPT ![s] = None]
    /\ posts' = {x \in posts : x[1] # s}
    /\ UNCHANGED <<divisions, departments, users, assigned, fields, values,
                   employees, faceVars, ops, authVars, world>>

-----------------------------------------------------------------------------
(* Users and what they manage. *)

CreateUser(u, roles) ==
    /\ Event /\ users[u] = None
    /\ users' = [users EXCEPT ![u] = [roles |-> roles, active |-> TRUE]]
    /\ UNCHANGED <<units, posts, assigned, fields, values, employees, faceVars,
                   ops, authVars, world>>

(* New roles, or the account switched on or off.  What the user managed    *)
(* stays written down.                                                     *)
PatchUser(u, roles, active) ==
    /\ Event /\ users[u] # None
    /\ users' = [users EXCEPT ![u] = [roles |-> roles, active |-> active]]
    /\ users' # users
    /\ UNCHANGED <<units, posts, assigned, fields, values, employees, faceVars,
                   ops, authVars, world>>

MayManage(u) == users[u] # None /\ users[u].active /\ "Manager" \in users[u].roles

Post(unit, u) ==
    /\ Event
    /\ MayManage(u)
    /\ <<unit, u>> \notin posts
    /\ posts' = posts \cup {<<unit, u>>}
    /\ UNCHANGED <<units, users, assigned, fields, values, employees, faceVars,
                   ops, authVars, world>>

Unpost(unit, u) ==
    /\ Event
    /\ <<unit, u>> \in posts
    /\ posts' = posts \ {<<unit, u>>}
    /\ UNCHANGED <<units, users, assigned, fields, values, employees, faceVars,
                   ops, authVars, world>>

AssignDivisionManager(v, u)   == divisions[v] # None /\ Post(v, u)
RemoveDivisionManager(v, u)   == divisions[v] # None /\ Unpost(v, u)
AssignDepartmentManager(d, u) == departments[d] # None /\ Post(d, u)
RemoveDepartmentManager(d, u) == departments[d] # None /\ Unpost(d, u)
AssignSectionManager(s, u)    == sections[s] # None /\ Post(s, u)
RemoveSectionManager(s, u)    == sections[s] # None /\ Unpost(s, u)

Primaries(e) == {u \in User : assigned[e][u] = "primary"}

(* create_assignment checks the manager and the employee, and clears the   *)
(* primaries it sees ...                                                   *)
CheckAssignment(r, e, u, primary) ==
    /\ Event
    /\ MayManage(u)
    /\ Employed(e) /\ employees[e].status = "active"
    /\ Begin(r, [kind |-> "assign", next |-> "assign", emp |-> e, user |-> u,
                 primary |-> primary, seen |-> Primaries(e)])
    /\ UNCHANGED <<orgVars, employees, faceVars, authVars, world>>

\* Mutant: the schema has no unique index on the primary manager.
NoSecondPrimaryCheck(e, u, seen) == FALSE

(* The unique index refuses a second primary: one that another request     *)
(* committed since this one cleared those it saw.                          *)
SecondPrimary(e, u, seen) == Primaries(e) \ (seen \cup {u}) # {}

(* ... and then writes its own row, which fails when the employee is gone  *)
(* or another request has made somebody else the primary.                  *)
WriteAssignment(r) ==
    /\ At(r, "assign")
    /\ LET o == ops[r]
           fails == \/ ~Employed(o.emp)
                    \/ o.primary /\ SecondPrimary(o.emp, o.user, o.seen)
           cleared == [assigned EXCEPT ![o.emp] = [y \in User |->
               IF o.primary /\ y \in o.seen /\ assigned[o.emp][y] = "primary"
               THEN "plain" ELSE assigned[o.emp][y]]]
       IN  assigned' = IF fails THEN assigned
                       ELSE [cleared EXCEPT ![o.emp][o.user] =
                               IF o.primary THEN "primary" ELSE "plain"]
    /\ Done(r)
    /\ UNCHANGED <<units, users, posts, fields, values, employees, faceVars,
                   authVars, world, fuel>>

DeleteAssignment(e, u) ==
    /\ Event /\ assigned[e][u] # "none"
    /\ assigned' = [assigned EXCEPT ![e][u] = "none"]
    /\ UNCHANGED <<units, users, posts, fields, values, employees, faceVars,
                   ops, authVars, world>>

-----------------------------------------------------------------------------
(* Custom fields. *)

CreateField(f, options) ==
    /\ Event /\ fields[f] = None
    /\ fields' = [fields EXCEPT ![f] = options]
    /\ UNCHANGED <<units, users, posts, assigned, values, employees, faceVars,
                   ops, authVars, world>>

(* The values stored under the old options stay as they are. *)
PatchField(f, options) ==
    /\ Event /\ Exists(fields, f) /\ fields[f] # options
    /\ fields' = [fields EXCEPT ![f] = options]
    /\ UNCHANGED <<units, users, posts, assigned, values, employees, faceVars,
                   ops, authVars, world>>

DeleteField(f) ==
    /\ Event /\ Exists(fields, f)
    /\ fields' = [fields EXCEPT ![f] = Gone]
    /\ values' = [e \in Employee |-> [values[e] EXCEPT ![f] = None]]
    /\ UNCHANGED <<units, users, posts, assigned, employees, faceVars,
                   ops, authVars, world>>

(* An empty value clears the stored one, another must be an option. *)
PatchValue(e, f, x) ==
    /\ Event /\ Employed(e) /\ Exists(fields, f)
    /\ x # None => x \in fields[f]
    /\ values' = [values EXCEPT ![e][f] = x]
    /\ values' # values
    /\ UNCHANGED <<units, users, posts, assigned, fields, employees, faceVars,
                   ops, authVars, world>>

-----------------------------------------------------------------------------
(* Employees. *)

(* The section must be one of the department. *)
SectionFits(s, d) == s # None => Exists(sections, s) /\ sections[s].dept = d

CreateEmployee(e, d, s, status, last) ==
    /\ Event /\ employees[e] = None
    /\ Exists(departments, d) /\ SectionFits(s, d)
    /\ employees' = [employees EXCEPT ![e] =
           [dept |-> d, section |-> s, status |-> status, last |-> last]]
    /\ UNCHANGED <<orgVars, faceVars, ops, authVars, world>>

(* Only what the request holds is set. *)
Patched(change, row) == [k \in DOMAIN row |-> IF k \in DOMAIN change THEN change[k] ELSE row[k]]

\* Mutant: a section is not looked up in the department it is given with.
SectionExists(e, change) ==
    "section" \in DOMAIN change /\ change.section # None
        => Exists(sections, change.section)

(* A section that comes with the change must be one of the department the  *)
(* employee will be in; one that does not come with it is left alone.      *)
NewSectionFits(e, change) ==
    "section" \in DOMAIN change
        => SectionFits(change.section, Patched(change, employees[e]).dept)

(* What the handler sets: a status only when it is another than the row's. *)
Sets(change, row) ==
    [k \in {k \in DOMAIN change : k = "status" => change.status # row.status} |-> change[k]]

(* The department of the section that comes with a change.                 *)
Home(change) ==
    IF "section" \in DOMAIN change /\ change.section # None
    THEN sections[change.section].dept ELSE None

(* The row is read and the change is checked against it ...                *)
PatchEmployee(r, e, change) ==
    /\ Event /\ Employed(e)
    /\ "dept" \in DOMAIN change => Exists(departments, change.dept)
    /\ NewSectionFits(e, change)
    /\ Begin(r, [kind |-> "patch", next |-> "write", emp |-> e,
                 change |-> Sets(change, employees[e]),
                 dept |-> Patched(change, employees[e]).dept, home |-> Home(change)])
    /\ UNCHANGED <<orgVars, employees, faceVars, authVars, world>>

(* A row that refers to what has been deleted since is refused.  A section *)
(* made again in another department would have another id.                 *)
ChangeRefers(o) ==
    /\ "dept" \in DOMAIN o.change => Exists(departments, o.change.dept)
    /\ "section" \in DOMAIN o.change => SectionFits(o.change.section, o.home)

(* ... and the change is written by id, whatever has become of the rest of *)
(* the row.  Only a status that flipped reaches the matcher's cache, and   *)
(* only after the transaction.                                             *)
WritePatch(r) ==
    /\ At(r, "write")
    /\ LET o == ops[r] IN
       IF Employed(o.emp) /\ ChangeRefers(o)
       THEN /\ employees' = [employees EXCEPT ![o.emp] = Patched(o.change, @)]
            /\ IF "status" \in DOMAIN o.change
               THEN Step(r, "forget") /\ UNCHANGED stale
               ELSE /\ Done(r)
                    /\ stale' = IF "last" \in DOMAIN o.change
                                THEN stale \cup {<<o.emp, "life">>} ELSE stale
       ELSE Done(r) /\ UNCHANGED <<employees, stale>>
    /\ UNCHANGED <<orgVars, photos, files, deletes, cache, authVars, world, fuel>>

(* One employee, or each of a bulk request in a transaction of its own:    *)
(* the cache is not told.                                                  *)
SoftDelete(e) ==
    /\ Event /\ Employed(e) /\ employees[e].status # "inactive"
    /\ employees' = [employees EXCEPT ![e].status = "inactive"]
    /\ stale' = stale \cup {<<e, "life">>}
    /\ UNCHANGED <<orgVars, photos, files, deletes, cache, ops, authVars, world>>

BulkSoftDelete(e) == SoftDelete(e)

-----------------------------------------------------------------------------
(* The import. *)

(* The fields are read once, before the first row. *)
StartImport(r) ==
    /\ Event
    /\ Begin(r, [kind |-> "import", next |-> "row", defs |-> fields,
                 done |-> {}, failed |-> 0])
    /\ UNCHANGED <<orgVars, employees, faceVars, authVars, world>>

(* What a row's transaction makes of the units it names: a department or   *)
(* division that does not exist is created, the department is moved to the *)
(* division, the section is looked up below the department.                *)
RowDivisions(row) ==
    IF row.division # None /\ divisions[row.division] = None
    THEN [divisions EXCEPT ![row.division] = row.name] ELSE divisions

RowDepartments(row) ==
    LET made == IF departments[row.dept] = None
                THEN [name |-> row.name, division |-> None] ELSE departments[row.dept]
    IN  [departments EXCEPT ![row.dept] =
            IF row.division = None THEN made ELSE [made EXCEPT !.division = row.division]]

RowSections(row) ==
    IF row.section # None /\ sections[row.section] = None
    THEN [sections EXCEPT ![row.section] = [name |-> row.name, dept |-> row.dept]]
    ELSE sections

(* The login of a new employee: an account with that address is kept as it *)
(* is, otherwise one is made.                                              *)
RowUsers(row) ==
    IF users[row.user] # None THEN users
    ELSE [users EXCEPT ![row.user] = [roles |-> {"Employee"}, active |-> TRUE]]

(* A value the import takes for one of the field's options is stored;      *)
(* anything else is a warning.                                             *)
Takes(row, defs) == Exists(defs, row.field) /\ row.value \in defs[row.field]

RowValues(row, defs) ==
    IF Takes(row, defs)
    THEN [values EXCEPT ![row.emp][row.field] = row.value] ELSE values

RowEmployee(row) ==
    [dept |-> row.dept, section |-> row.section, status |-> "active",
     last |-> row.last]

(* The superior is unknown, the code is taken, or the field of a value has *)
(* been deleted since the import began.                                    *)
RowFails(row, defs) ==
    \/ row.boss # None /\ users[row.boss] = None
    \/ Employed(row.emp)
    \/ Takes(row, defs) /\ ~Exists(fields, row.field)

(* A section is looked up below its department: a row cannot name another. *)
SectionIsElsewhere(row) ==
    row.section # None /\ sections[row.section] # None
        /\ sections[row.section].dept # row.dept

(* One row: all of it or, when anything in it fails, nothing but an entry  *)
(* in the answer.  A code that came before in the file is an error too.    *)
ImportRow(r, row) ==
    /\ Event /\ At(r, "row") /\ ops[r].kind = "import"
    /\ row.emp \notin ops[r].done /\ ~SectionIsElsewhere(row)
    /\ employees[row.emp] # Gone
    /\ IF RowFails(row, ops[r].defs)
       THEN /\ ops' = [ops EXCEPT ![r] = [ops[r] EXCEPT !.failed = @ + 1,
                                                          !.done = @ \cup {row.emp}]]
            /\ UNCHANGED <<units, users, values, employees>>
       ELSE /\ divisions' = RowDivisions(row)
            /\ departments' = RowDepartments(row)
            /\ sections' = RowSections(row)
            /\ users' = RowUsers(row)
            /\ employees' = [employees EXCEPT ![row.emp] = RowEmployee(row)]
            /\ values' = RowValues(row, ops[r].defs)
            /\ ops' = [ops EXCEPT ![r].done = @ \cup {row.emp}]
    /\ UNCHANGED <<posts, assigned, fields, faceVars, authVars, world>>

EndImport(r) ==
    /\ At(r, "row") /\ ops[r].kind = "import"
    /\ Done(r)
    /\ UNCHANGED <<orgVars, employees, faceVars, authVars, world, fuel>>

-----------------------------------------------------------------------------
(* Properties. *)

(* Employees whose section belongs to another department than theirs. *)
Misplaced ==
    {e \in Employee :
        /\ Employed(e) /\ employees[e].section # None
        /\ sections[employees[e].section] # None
        /\ sections[employees[e].section].dept # employees[e].dept}

(* No order of creating, moving, importing and deleting puts an employee   *)
(* into a section of another department, but for the two ways the PATCH    *)
(* handler leaves open: a move that does not mention the section, and a    *)
(* section that was looked up in a department another PATCH has taken the  *)
(* employee out of before it is written.                                   *)
MisplacedByPatchOnly ==
    [][\A e \in Misplaced' \ Misplaced :
          \E r \in Request :
             /\ At(r, "write") /\ ops[r].emp = e /\ ops'[r] # ops[r]
             /\ \/ DOMAIN ops[r].change \cap {"dept", "section"} = {"dept"}
                \/ /\ DOMAIN ops[r].change \cap {"dept", "section"} = {"section"}
                   /\ employees[e].dept # ops[r].dept]_vars

(* However the requests that name a primary manager interleave, an         *)
(* employee has at most one.                                               *)
OnePrimaryManager == \A e \in Employee : Cardinality(Primaries(e)) <= 1

=============================================================================
