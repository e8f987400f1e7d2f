----------------------------- MODULE PeopleProofs -----------------------------
(***************************************************************************)
(* Theorems about the employee services of a tenant, for any sizes of the  *)
(* tenant, any number of requests in flight and any import file.           *)
(***************************************************************************)
EXTENDS People, FiniteSetTheorems, TLAPS

(***************************************************************************)
(* What the tables, and the requests between two of their steps, hold.     *)
(***************************************************************************)
Verdict == {"pending", "approved", "rejected", "admin_override"}

OrgTypes ==
    /\ divisions \in [Division -> Name \cup {None}]
    /\ departments \in [Department -> DepartmentRow \cup {None}]
    /\ sections \in [Section -> SectionRow \cup {None}]
    /\ users \in [User -> UserRow \cup {None}]
    /\ employees \in [Employee -> EmployeeRow \cup {None, Gone}]
    /\ assigned \in [Employee -> [User -> {"none", "plain", "primary"}]]
    /\ fields \in [Field -> (SUBSET Option) \cup {None, Gone}]
    /\ values \in [Employee -> [Field -> Option \cup {None}]]

FaceTypes ==
    /\ photos \in [Photo -> PhotoRow \cup {None, Gone}]
    /\ files \subseteq Employee \X Photo
    /\ deletes \in [Employee -> Seq(Verdict)]
    /\ stale \subseteq Employee \X {"faces", "life"}
    /\ botched \subseteq Employee \X ErasureStep
    /\ today \in Day /\ fuel \in 0 .. MaxEvents /\ crashed \in BOOLEAN

AuthTypes ==
    /\ sessions \in [Token -> SessionRow \cup {None, Gone}]
    /\ failures \in [User -> Nat]

Uploading == [kind : {"upload"}, next : {"row"}, emp : Employee, photo : Photo,
              status : {"pending", "approved"}, own : BOOLEAN]
Surveying == [kind : {"enroll"}, next : {"forget all", "list", "pick"},
              emp : Employee \cup {None}, photo : Photo \cup {None}, todo : SUBSET Photo]
Embedding == [kind : {"enroll"}, next : {"embed", "forget"},
              emp : Employee, photo : Photo, todo : SUBSET Photo]
Reviewing == [kind : {"photo"}, next : {"approve", "remove", "drop", "forget"},
              emp : Employee, photo : Photo]
Deciding  == [kind : {"erase"}, next : {"decide", "erase", "purge", "forget"},
              emp : Employee, index : Nat, verdict : Verdict, erase : BOOLEAN]
Erasing   == [kind : {"erase"}, next : {"erase", "purge", "forget"}, emp : Employee]
Purging   == [kind : {"pdpl"}, next : {"redact", "purge row"}, emp : Employee, seen : BOOLEAN]
Retiring  == [kind : {"cron", "script"}, next : {"deactivate", "forget all"},
              leavers : SUBSET Employee]
Patch     == {Sets(change, row) : change \in Changes, row \in EmployeeRow}
Patching  == {o \in [kind : {"patch"}, next : {"write", "forget"}, emp : Employee,
                     change : Patch, dept : Department, home : Department \cup {None}] :
                 /\ "dept" \in DOMAIN o.change => o.dept = o.change.dept
                 /\ "section" \in DOMAIN o.change =>
                       o.change.section = None \/ o.home = o.dept}
Assigning == [kind : {"assign"}, next : {"assign"}, emp : Employee, user : User,
              primary : BOOLEAN, seen : SUBSET User]
Importing == [kind : {"import"}, next : {"row"},
              defs : [Field -> (SUBSET Option) \cup {None, Gone}],
              done : SUBSET Employee, failed : Nat]
SigningOn == [kind : {"login", "oidc"}, next : {"verify", "callback", "match", "session"},
              user : User]
Arriving  == [kind : {"web"}, next : {"load", "expire"}, token : Token, want : Wants,
              user : {None}, stored : {None}, held : {{}}, acting : {None}]
Visiting  == [kind : {"web"}, next : {"user", "touch", "prefer", "logout"},
              token : Token, want : Wants, user : User, stored : Role,
              held : SUBSET Role, acting : Role \cup {None}]
Switching == [kind : {"web"}, next : {"switch"}, token : Token,
              want : [what : {"switch"}, role : Role], user : User, stored : Role,
              held : SUBSET Role, acting : Role \cup {None}]
Console   == [kind : {"console"}, next : {"admit", "impersonate"} \cup ConsoleWants,
              want : ConsoleWants]

FaceOp == Uploading \cup Surveying \cup Embedding \cup Reviewing
DataOp == Deciding \cup Erasing \cup Purging \cup Retiring \cup Patching
DeskOp == Assigning \cup Importing \cup SigningOn \cup Arriving \cup Visiting
              \cup Switching \cup Console

StaffOp == Patching \cup Importing \cup Assigning
VisitOp == Arriving \cup Visiting \cup Switching

AnyOp == {Idle} \cup FaceOp \cup DataOp \cup DeskOp

OpTypes == ops \in [Request -> AnyOp]

Types == OrgTypes /\ FaceTypes /\ AuthTypes /\ OpTypes

(***************************************************************************)
(* What each service leaves alone.                                         *)
(***************************************************************************)
faces == <<photos, files, deletes, cache, stale>>
access == <<sessions, failures, chosen, suspended, oidc, console>>

LEMMA UnitsFrame ==
    Units => UNCHANGED <<users, assigned, fields, values, employees, faces, access, ops,
                         today, crashed, botched>>
  BY DEF Units, CreateDivision, PatchDivision, DeleteDivision, CreateDepartment,
         PatchDepartment, ImportDepartment, DeleteDepartment, CreateSection, PatchSection,
         DeleteSection, faceVars, authVars, world, faces, access

LEMMA ManagersFrame ==
    Managers => UNCHANGED <<divisions, departments, sections, fields, values, employees,
                            faces, access, today, crashed, botched>>
  BY DEF Managers, CreateUser, PatchUser, AssignDivisionManager, RemoveDivisionManager,
         AssignDepartmentManager, RemoveDepartmentManager, AssignSectionManager,
         RemoveSectionManager, Post, Unpost, DeleteAssignment, CheckAssignment,
         WriteAssignment, orgVars, units, faceVars, authVars, world, faces, access

LEMMA CustomFieldsFrame ==
    CustomFields => UNCHANGED <<divisions, departments, sections, users, posts, assigned,
                                employees, faces, access, ops, today, crashed, botched>>
  BY DEF CustomFields, CreateField, PatchField, DeleteField, PatchValue, units, faceVars,
         authVars, world, faces, access

LEMMA StaffFrame ==
    Staff => UNCHANGED <<posts, assigned, fields, photos, files, deletes, cache, access,
                         today, crashed, botched>>
<1> DEFINE same == UNCHANGED <<posts, assigned, fields, photos, files, deletes, cache, access,
                               today, crashed, botched>>
<1> USE DEF orgVars, units, faceVars, authVars, world, access
<1>1. ASSUME NEW e \in Employee, SoftDelete(e) \/ BulkSoftDelete(e)
      PROVE  same
  BY <1>1 DEF SoftDelete, BulkSoftDelete
<1>2. ASSUME NEW e, NEW d, NEW s, NEW last, NEW status, CreateEmployee(e, d, s, status, last)
      PROVE  same
  BY <1>2 DEF CreateEmployee
<1>3. ASSUME NEW r, NEW e, NEW change, PatchEmployee(r, e, change)
      PROVE  same
  BY <1>3 DEF PatchEmployee
<1>4. ASSUME NEW r, NEW row, ImportRow(r, row)
      PROVE  same
  BY <1>4 DEF ImportRow
<1>5. ASSUME NEW r, StartImport(r) \/ EndImport(r) \/ WritePatch(r)
      PROVE  same
  BY <1>5 DEF StartImport, EndImport, WritePatch
<1> HIDE DEF same
<1>6. Staff => same
  BY <1>1, <1>2, <1>3, <1>4, <1>5 DEF Staff
<1>7. QED
  BY <1>6 DEF same

LEMMA FacesFrame ==
    Faces => UNCHANGED <<divisions, departments, sections, users, posts, assigned, fields,
                         values, employees, deletes, access, today, crashed, botched>>
<1> SUFFICES ASSUME Faces
             PROVE  UNCHANGED <<divisions, departments, sections, users, posts, assigned, fields,
                                values, employees, deletes, access, today, crashed, botched>>
  OBVIOUS
<1>1. CASE Match
  BY <1>1 DEF Match, orgVars, authVars, world, access
<1>2. CASE \E r \in Request, e \in Employee, p \in Photo :
              UploadMyPhoto(r, e, p) \/ UploadPhotos(r, e, p) \/ BulkIngest(r, e, p)
  BY <1>2 DEF UploadMyPhoto, UploadPhotos, BulkIngest, Upload, orgVars, authVars, world, access
<1>3. CASE \E r \in Request, p \in Photo :
              ApprovePhoto(r, p) \/ RejectPhoto(r, p) \/ DeleteMyPhoto(r, p) \/ DeletePhoto(r, p)
  BY <1>3 DEF ApprovePhoto, RejectPhoto, ReadPending, DeleteMyPhoto, DeletePhoto, Remove,
              orgVars, faceVars, authVars, world, access
<1>4. CASE \E r \in Request : EnrollMissing(r) \/ ReembedAll(r) \/ InsertPhotoRow(r)
                                 \/ ListMissing(r) \/ EnrollPhoto(r) \/ StoreEmbedding(r)
  BY <1>4 DEF EnrollMissing, ReembedAll, InsertPhotoRow, ListMissing, EnrollPhoto,
              StoreEmbedding, orgVars, faceVars, authVars, world, access
<1>5. CASE \E r \in Request : WriteApproval(r) \/ DeleteRowAndFile(r) \/ Forget(r) \/ ForgetAll(r)
  BY <1>5 DEF WriteApproval, DeleteRowAndFile, Forget, ForgetAll, orgVars, authVars, world, access
<1>6. QED
  BY <1>1, <1>2, <1>3, <1>4, <1>5 DEF Faces

LEMMA LeavingFrame ==
    Leaving => UNCHANGED <<divisions, departments, sections, users, posts, fields, sessions,
                           chosen, suspended, oidc, console>>
  BY ZenonT(30) DEF Leaving, SubmitByAdmin, SubmitByHr, PdplDelete, BulkPurge, RemoveFiles, HrDecide,
         AdminOverride, Decide, WriteDecision, Erase, EraseRow, DeleteEmployeeRow, Redact,
         PurgeRow, ErasureFails, LifecycleCron, LifecycleScript, RunLifecycle, Deactivate,
         DayPasses, Crash, orgVars, faceVars, authVars, world

LEMMA DeskFrame ==
    SigningIn \/ Browsing \/ Operators =>
        UNCHANGED <<divisions, departments, sections, users, posts, assigned, fields, values,
                    employees, faces, today, crashed, botched>>
  BY DEF SigningIn, StartLogin, StartOidc, VerifyPassword, OidcCallback, MatchClaims,
         MakeSession, PutOidcConfig, ResetLimiter, Browsing, Open, LoadSession,
         ExpireSession, LoadUser, TouchSession, Logout, SwitchRole, SetPreference,
         SessionIdles, SweepSessions, Operators, OpenConsole, AdmitOperator, AccessAs,
         SetImpersonation, UpdateStatus, ConsoleLogout, ConsoleLogin, ConsoleIdles,
         people, orgVars, faceVars, authVars, world, faces

(***************************************************************************)
(* The requests.                                                           *)
(***************************************************************************)
\* What a request knows at each of its steps.
LEMMA Stages ==
    ASSUME OpTypes, NEW r \in Request
    PROVE  /\ At(r, "row") => ops[r] \in Uploading \cup Importing
           /\ At(r, "list") \/ At(r, "pick") => ops[r] \in Surveying
           /\ At(r, "embed") => ops[r] \in Embedding
           /\ At(r, "approve") \/ At(r, "remove") \/ At(r, "drop") => ops[r] \in Reviewing
           /\ At(r, "decide") => ops[r] \in Deciding
           /\ At(r, "erase") \/ At(r, "purge") => ops[r] \in Deciding \cup Erasing
           /\ At(r, "redact") \/ At(r, "purge row") => ops[r] \in Purging
           /\ At(r, "deactivate") => ops[r] \in Retiring
           /\ At(r, "forget all") => ops[r] \in Surveying \cup Retiring
           /\ At(r, "forget") =>
                ops[r] \in Embedding \cup Reviewing \cup Deciding \cup Erasing \cup Patching
           /\ At(r, "assign") => ops[r] \in Assigning
           /\ At(r, "write") => ops[r] \in Patching
           /\ At(r, "verify") \/ At(r, "callback") \/ At(r, "match") \/ At(r, "session") =>
                ops[r] \in SigningOn
           /\ At(r, "load") \/ At(r, "expire") => ops[r] \in Arriving
           /\ At(r, "user") \/ At(r, "touch") \/ At(r, "prefer") => ops[r] \in Visiting
           /\ At(r, "switch") => ops[r] \in Switching
           /\ At(r, "logout") => ops[r] \in Visiting \cup Console
           /\ At(r, "admit") \/ At(r, "access") \/ At(r, "impersonate") \/ At(r, "exit")
                \/ At(r, "suspend") \/ At(r, "unsuspend") => ops[r] \in Console
<1> ops[r] \in AnyOp
  BY DEF OpTypes
<1> USE DEF At, AnyOp, FaceOp, DataOp, DeskOp, Idle
<1>1. /\ At(r, "row") => ops[r] \in Uploading \cup Importing
      /\ At(r, "list") \/ At(r, "pick") => ops[r] \in Surveying
      /\ At(r, "embed") => ops[r] \in Embedding
      /\ At(r, "approve") \/ At(r, "remove") \/ At(r, "drop") => ops[r] \in Reviewing
  BY DEF Uploading, Surveying, Embedding, Reviewing, Deciding, Erasing, Purging, Retiring,
         Patching, Assigning, Importing, SigningOn, Arriving, Visiting, Switching, Console,
         ConsoleWants
<1>2. /\ At(r, "decide") => ops[r] \in Deciding
      /\ At(r, "erase") \/ At(r, "purge") => ops[r] \in Deciding \cup Erasing
      /\ At(r, "redact") \/ At(r, "purge row") => ops[r] \in Purging
      /\ At(r, "deactivate") => ops[r] \in Retiring
  BY DEF Uploading, Surveying, Embedding, Reviewing, Deciding, Erasing, Purging, Retiring,
         Patching, Assigning, Importing, SigningOn, Arriving, Visiting, Switching, Console,
         ConsoleWants
<1>3. /\ At(r, "forget all") => ops[r] \in Surveying \cup Retiring
      /\ At(r, "forget") =>
           ops[r] \in Embedding \cup Reviewing \cup Deciding \cup Erasing \cup Patching
      /\ At(r, "assign") => ops[r] \in Assigning
      /\ At(r, "write") => ops[r] \in Patching
      /\ At(r, "verify") \/ At(r, "callback") \/ At(r, "match") \/ At(r, "session") =>
           ops[r] \in SigningOn
  BY DEF Uploading, Surveying, Embedding, Reviewing, Deciding, Erasing, Purging, Retiring,
         Patching, Assigning, Importing, SigningOn, Arriving, Visiting, Switching, Console,
         ConsoleWants
<1>4. /\ At(r, "load") \/ At(r, "expire") => ops[r] \in Arriving
      /\ At(r, "user") \/ At(r, "touch") \/ At(r, "prefer") => ops[r] \in Visiting
      /\ At(r, "switch") => ops[r] \in Switching
      /\ At(r, "logout") => ops[r] \in Visiting \cup Console
      /\ At(r, "admit") \/ At(r, "access") \/ At(r, "impersonate") \/ At(r, "exit")
           \/ At(r, "suspend") \/ At(r, "unsuspend") => ops[r] \in Console
  BY DEF Uploading, Surveying, Embedding, Reviewing, Deciding, Erasing, Purging, Retiring,
         Patching, Assigning, Importing, SigningOn, Arriving, Visiting, Switching, Console,
         ConsoleWants
<1>5. QED
  BY <1>1, <1>2, <1>3, <1>4

\* Every request is where it was, has ended, or has become one of S.
OpsBecome(S) ==
    /\ OpTypes'
    /\ \A r \in Request : ops'[r] \in {ops[r], Idle} \cup S

LEMMA OpStep ==
    ASSUME OpTypes, NEW S \in SUBSET AnyOp, NEW r \in Request, NEW x \in S,
           ops' = [ops EXCEPT ![r] = x]
    PROVE  OpsBecome(S)
  BY DEF OpTypes, OpsBecome

LEMMA OpEnds ==
    ASSUME OpTypes, NEW S \in SUBSET AnyOp, NEW r \in Request, Done(r)
    PROVE  OpsBecome(S)
  BY DEF OpTypes, OpsBecome, Done, AnyOp

LEMMA OpStays ==
    ASSUME OpTypes, NEW S \in SUBSET AnyOp, ops' = ops
    PROVE  OpsBecome(S)
  BY DEF OpTypes, OpsBecome

LEMMA FacesOps ==
    ASSUME Types, Faces
    PROVE  OpsBecome(FaceOp)
<1> USE DEF Types, FaceOp
<1> FaceOp \in SUBSET AnyOp
  BY DEF AnyOp, FaceOp, DataOp, DeskOp, StaffOp, VisitOp
<1>1. CASE Match
  BY <1>1, OpStays DEF Match
<1>2. CASE \E r \in Request, e \in Employee, p \in Photo :
              UploadMyPhoto(r, e, p) \/ UploadPhotos(r, e, p) \/ BulkIngest(r, e, p)
  <2>1. PICK r \in Request, e \in Employee, p \in Photo,
             status \in {"pending", "approved"}, own \in BOOLEAN : Upload(r, e, p, status, own)
    BY <1>2 DEF UploadMyPhoto, UploadPhotos, BulkIngest
  <2>2. [kind |-> "upload", next |-> "row", emp |-> e, photo |-> p,
         status |-> status, own |-> own] \in FaceOp
    BY DEF Uploading
  <2>3. QED
    BY <2>1, <2>2, OpStep DEF Upload, Begin
<1>3. CASE \E r \in Request, p \in Photo :
              ApprovePhoto(r, p) \/ RejectPhoto(r, p) \/ DeleteMyPhoto(r, p) \/ DeletePhoto(r, p)
  <2>1. PICK r \in Request, p \in Photo, next \in {"approve", "remove"} :
          /\ Exists(photos, p)
          /\ Begin(r, [kind |-> "photo", next |-> next, emp |-> photos[p].emp, photo |-> p])
    BY <1>3 DEF ApprovePhoto, RejectPhoto, ReadPending, DeleteMyPhoto, DeletePhoto, Remove
  <2>2. photos[p] \in PhotoRow
    BY <2>1 DEF FaceTypes, Exists
  <2>3. [kind |-> "photo", next |-> next, emp |-> photos[p].emp, photo |-> p] \in FaceOp
    BY <2>2 DEF Reviewing, PhotoRow
  <2>4. QED
    BY <2>1, <2>3, OpStep DEF Begin
<1>4. CASE \E r \in Request : EnrollMissing(r) \/ ReembedAll(r)
  <2>1. PICK r \in Request, next \in {"list", "forget all"} :
          Begin(r, [kind |-> "enroll", next |-> next, emp |-> None, photo |-> None, todo |-> {}])
    BY <1>4 DEF EnrollMissing, ReembedAll
  <2>2. [kind |-> "enroll", next |-> next, emp |-> None, photo |-> None, todo |-> {}] \in FaceOp
    BY DEF Surveying
  <2>3. QED
    BY <2>1, <2>2, OpStep DEF Begin
<1>5. ASSUME NEW r \in Request, InsertPhotoRow(r)
      PROVE  OpsBecome(FaceOp)
  <2>1. ops[r] \in Uploading
    BY <1>5, Stages DEF InsertPhotoRow, Importing
  <2>2. [kind |-> "enroll", next |-> "pick", emp |-> ops[r].emp, photo |-> ops[r].photo,
         todo |-> {ops[r].photo}] \in FaceOp
    BY <2>1 DEF Uploading, Surveying
  <2>3. QED
    BY <1>5, <2>2, OpStep, OpEnds DEF InsertPhotoRow
<1>6. ASSUME NEW r \in Request, ListMissing(r)
      PROVE  OpsBecome(FaceOp)
  <2>1. ops[r] \in Surveying
    BY <1>6, Stages DEF ListMissing
  <2>2. PICK todo \in SUBSET Photo : 
          ops' = [ops EXCEPT ![r] = [ops[r] EXCEPT !.next = "pick", !.todo = todo]]
    BY <1>6 DEF ListMissing
  <2>3. [ops[r] EXCEPT !.next = "pick", !.todo = todo] \in FaceOp
    BY <2>1 DEF Surveying
  <2>4. QED
    BY <2>2, <2>3, OpStep
<1>7. ASSUME NEW r \in Request, EnrollPhoto(r)
      PROVE  OpsBecome(FaceOp)
  <2>1. ops[r] \in Surveying
    BY <1>7, Stages DEF EnrollPhoto
  <2>2. CASE Done(r)
    BY <2>2, OpEnds
  <2>3. ASSUME NEW p \in ops[r].todo,
               ops' = [ops EXCEPT ![r] = [ops[r] EXCEPT !.todo = @ \ {p}]]
        PROVE  OpsBecome(FaceOp)
    <3>1. [ops[r] EXCEPT !.todo = @ \ {p}] \in FaceOp
      BY <2>1 DEF Surveying
    <3>2. QED
      BY <2>3, <3>1, OpStep
  <2>4. ASSUME NEW p \in ops[r].todo, Exists(photos, p),
               ops' = [ops EXCEPT ![r] = [[ops[r] EXCEPT !.todo = @ \ {p}] EXCEPT
                          !.next = "embed", !.photo = p, !.emp = photos[p].emp]]
        PROVE  OpsBecome(FaceOp)
    <3>1. p \in Photo /\ photos[p] \in PhotoRow
      BY <2>1, <2>4 DEF Surveying, FaceTypes, Exists
    <3>2. [[ops[r] EXCEPT !.todo = @ \ {p}] EXCEPT !.next = "embed", !.photo = p,
               !.emp = photos[p].emp] \in Embedding
      BY <2>1, <3>1 DEF Surveying, Embedding, PhotoRow
    <3>3. QED
      BY <2>4, <3>2, OpStep
  <2>5. QED
    BY <1>7, <2>2, <2>3, <2>4 DEF EnrollPhoto
<1>8. ASSUME NEW r \in Request, StoreEmbedding(r)
      PROVE  OpsBecome(FaceOp)
  <2>1. ops[r] \in Embedding
    BY <1>8, Stages DEF StoreEmbedding
  <2>2. [ops[r] EXCEPT !.next = "forget"] \in FaceOp
    BY <2>1 DEF Embedding
  <2>3. QED
    BY <1>8, <2>2, OpStep DEF StoreEmbedding, Step
<1>9. ASSUME NEW r \in Request, WriteApproval(r) \/ DeleteRowAndFile(r)
      PROVE  OpsBecome(FaceOp)
  <2>1. ops[r] \in Reviewing
    BY <1>9, Stages DEF WriteApproval, DeleteRowAndFile
  <2>2. \A next \in {"drop", "forget"} : [ops[r] EXCEPT !.next = next] \in FaceOp
    BY <2>1 DEF Reviewing
  <2>3. QED
    BY <1>9, <2>2, OpStep DEF WriteApproval, DeleteRowAndFile, Step
<1>10. ASSUME NEW r \in Request, Forget(r)
       PROVE  OpsBecome(FaceOp)
  <2>1. CASE ops[r].kind = "enroll"
    <3>1. ops[r] \in Embedding
      BY <1>10, <2>1, Stages DEF Forget, Reviewing, Deciding, Erasing, Patching
    <3>2. [ops[r] EXCEPT !.next = "pick"] \in FaceOp
      BY <3>1 DEF Embedding, Surveying
    <3>3. QED
      BY <1>10, <2>1, <3>2, OpStep DEF Forget, Step
  <2>2. CASE ops[r].kind # "enroll"
    BY <1>10, <2>2, OpEnds DEF Forget
  <2>3. QED
    BY <2>1, <2>2
<1>11. ASSUME NEW r \in Request, ForgetAll(r)
       PROVE  OpsBecome(FaceOp)
  <2>1. CASE ops[r].kind = "enroll"
    <3>1. ops[r] \in Surveying
      BY <1>11, <2>1, Stages DEF ForgetAll, Retiring
    <3>2. [ops[r] EXCEPT !.next = "list"] \in FaceOp
      BY <3>1 DEF Surveying
    <3>3. QED
      BY <1>11, <2>1, <3>2, OpStep DEF ForgetAll, Step
  <2>2. CASE ops[r].kind # "enroll"
    BY <1>11, <2>2, OpEnds DEF ForgetAll
  <2>3. QED
    BY <2>1, <2>2
<1>12. QED
  BY <1>1, <1>2, <1>3, <1>4, <1>5, <1>6, <1>7, <1>8, <1>9, <1>10, <1>11 DEF Faces

LEMMA LeavingOps ==
    ASSUME Types, Leaving
    PROVE  OpsBecome(DataOp)
<1> USE DEF Types, DataOp
<1> DataOp \in SUBSET AnyOp
  BY DEF AnyOp, FaceOp, DataOp, DeskOp, StaffOp, VisitOp
<1>1. CASE (\E e \in Employee : SubmitByAdmin(e)) \/ DayPasses
  BY <1>1, OpStays DEF SubmitByAdmin, DayPasses
<1>2. ASSUME NEW r \in Request, NEW e \in Employee, SubmitByHr(r, e)
      PROVE  OpsBecome(DataOp)
  <2>1. [kind |-> "erase", next |-> "erase", emp |-> e] \in DataOp
    BY DEF Erasing
  <2>2. QED
    BY <1>2, <2>1, OpStep DEF SubmitByHr, Begin
<1>3. ASSUME NEW r \in Request, NEW e \in Employee, PdplDelete(r, e) \/ BulkPurge(r, e)
      PROVE  OpsBecome(DataOp)
  <2>1. \A next \in {"redact", "purge row"} :
           [kind |-> "pdpl", next |-> next, emp |-> e, seen |-> PhotosOf(e) # {}] \in DataOp
    BY DEF Purging
  <2>2. QED
    BY <1>3, <2>1, OpStep DEF PdplDelete, BulkPurge, RemoveFiles, Begin
<1>4. ASSUME NEW r \in Request, NEW e \in Employee, NEW approve \in BOOLEAN,
             HrDecide(r, e, approve) \/ AdminOverride(r, e, approve)
      PROVE  OpsBecome(DataOp)
  <2>1. PICK verdict \in Verdict : Decide(r, e, verdict, approve)
    BY <1>4 DEF HrDecide, AdminOverride, Verdict
  <2>2. PICK i \in DOMAIN deletes[e] :
          Begin(r, [kind |-> "erase", next |-> "decide", emp |-> e, index |-> i,
                    verdict |-> verdict, erase |-> approve])
    BY <2>1 DEF Decide
  <2>3. i \in Nat
    BY DEF FaceTypes
  <2>4. [kind |-> "erase", next |-> "decide", emp |-> e, index |-> i,
         verdict |-> verdict, erase |-> approve] \in DataOp
    BY <2>3 DEF Deciding
  <2>5. QED
    BY <2>2, <2>4, OpStep DEF Begin
<1>5. ASSUME NEW r \in Request, WriteDecision(r)
      PROVE  OpsBecome(DataOp)
  <2>1. ops[r] \in Deciding
    BY <1>5, Stages DEF WriteDecision
  <2>2. [ops[r] EXCEPT !.next = "erase"] \in DataOp
    BY <2>1 DEF Deciding
  <2>3. QED
    BY <1>5, <2>2, OpStep, OpEnds DEF WriteDecision, Step
<1>6. ASSUME NEW r \in Request, Erase(r) \/ EraseRow(r)
      PROVE  OpsBecome(DataOp)
  <2>1. ops[r] \in Deciding \cup Erasing
    BY <1>6, Stages DEF Erase, EraseRow
  <2>2. \A next \in {"purge", "forget"} : [ops[r] EXCEPT !.next = next] \in DataOp
    BY <2>1 DEF Deciding, Erasing
  <2>3. QED
    BY <1>6, <2>2, OpStep, OpEnds DEF Erase, EraseRow, Step
<1>7. ASSUME NEW r \in Request, Redact(r) \/ PurgeRow(r) \/ ErasureFails(r)
      PROVE  OpsBecome(DataOp)
  BY <1>7, OpEnds DEF Redact, PurgeRow, ErasureFails
<1>8. ASSUME NEW r \in Request, LifecycleCron(r) \/ LifecycleScript(r)
      PROVE  OpsBecome(DataOp)
  <2>1. \A kind \in {"cron", "script"} :
           [kind |-> kind, next |-> "deactivate", leavers |-> Leavers] \in DataOp
    BY DEF Retiring, Leavers
  <2>2. QED
    BY <1>8, <2>1, OpStep DEF LifecycleCron, LifecycleScript, RunLifecycle, Begin
<1>9. ASSUME NEW r \in Request, Deactivate(r)
      PROVE  OpsBecome(DataOp)
  <2>1. ops[r] \in Retiring
    BY <1>9, Stages DEF Deactivate
  <2>2. [ops[r] EXCEPT !.next = "forget all"] \in DataOp
    BY <2>1 DEF Retiring
  <2>3. QED
    BY <1>9, <2>2, OpStep, OpEnds DEF Deactivate, Step
<1>10. CASE Crash
  BY <1>10 DEF Crash, OpTypes, OpsBecome, AnyOp
<1>11. QED
  BY <1>1, <1>2, <1>3, <1>4, <1>5, <1>6, <1>7, <1>8, <1>9, <1>10 DEF Leaving

\* A PATCH that passes its checks.
LEMMA PatchBegins ==
    ASSUME Types, NEW r, NEW e \in Employee, NEW change \in Changes, PatchEmployee(r, e, change)
    PROVE  \E o \in Patching :
              /\ Begin(r, o) /\ o.next = "write"
              /\ UNCHANGED <<orgVars, employees, faceVars, authVars, world>>
<1> DEFINE row == employees[e]
           o == [kind |-> "patch", next |-> "write", emp |-> e, change |-> Sets(change, row),
                 dept |-> Patched(change, row).dept, home |-> Home(change)]
<1>1. row \in EmployeeRow
  BY DEF Types, OrgTypes, PatchEmployee, Employed, Exists
<1>2. Begin(r, o) /\ NewSectionFits(e, change) /\ UNCHANGED <<orgVars, employees, faceVars, authVars, world>>
  BY DEF PatchEmployee
<1>3. Sets(change, row) \in Patch
  BY <1>1 DEF Patch
<1>4. Patched(change, row) \in EmployeeRow
  BY <1>1, ChangesAssumption DEF Patched, EmployeeRow
<1>5. Patched(change, row).dept \in Department
  BY <1>4 DEF EmployeeRow
<1>6. "section" \in DOMAIN change =>
        \/ change.section = None /\ Home(change) = None
        \/ change.section # None /\ Home(change) = Patched(change, row).dept
  BY <1>2 DEF NewSectionFits, SectionFits, Home
<1>7. Home(change) \in Department \cup {None}
  BY <1>5, <1>6 DEF Home
<1>8. /\ DOMAIN Sets(change, row) \subseteq DOMAIN change
      /\ \A k \in DOMAIN Sets(change, row) : Sets(change, row)[k] = change[k]
  BY DEF Sets
<1>9. "dept" \in DOMAIN Sets(change, row) => Patched(change, row).dept = Sets(change, row).dept
  BY <1>1, <1>8 DEF Patched, EmployeeRow
<1>10. "section" \in DOMAIN Sets(change, row) =>
          Sets(change, row).section = None \/ Home(change) = Patched(change, row).dept
  BY <1>6, <1>8
<1> HIDE DEF row
<1>11. o \in Patching
  BY <1>3, <1>5, <1>7, <1>9, <1>10 DEF Patching
<1>12. QED
  BY <1>2, <1>11

LEMMA StaffOps ==
    ASSUME Types, Staff \/ Managers
    PROVE  OpsBecome(StaffOp)
<1> USE DEF Types, StaffOp
<1> StaffOp \in SUBSET AnyOp
  BY DEF AnyOp, FaceOp, DataOp, DeskOp, StaffOp, VisitOp
<1>1. CASE \E e \in Employee :
              \/ \E d \in Department, s \in Section \cup {None}, last \in Day \cup {None},
                    status \in {"active", "inactive"} : CreateEmployee(e, d, s, status, last)
              \/ SoftDelete(e) \/ BulkSoftDelete(e)
  BY <1>1, OpStays DEF CreateEmployee, SoftDelete, BulkSoftDelete
<1>2. ASSUME NEW r \in Request, NEW e \in Employee, NEW change \in Changes,
             PatchEmployee(r, e, change)
      PROVE  OpsBecome(StaffOp)
  <2>1. PICK o \in Patching : Begin(r, o)
    BY <1>2, PatchBegins
  <2>2. QED
    BY <2>1, OpStep DEF Begin
<1>10. ASSUME NEW r \in Request, WritePatch(r)
       PROVE  OpsBecome(StaffOp)
  <2>1. ops[r] \in Patching
    BY <1>10, Stages DEF WritePatch
  <2>2. [ops[r] EXCEPT !.next = "forget"] \in StaffOp
    BY <2>1 DEF Patching
  <2>3. QED
    BY <1>10, <2>2, OpStep, OpEnds DEF WritePatch, Step
<1>3. ASSUME NEW r \in Request, StartImport(r)
      PROVE  OpsBecome(StaffOp)
  <2>1. [kind |-> "import", next |-> "row", defs |-> fields, done |-> {}, failed |-> 0] \in StaffOp
    BY DEF Importing, OrgTypes
  <2>2. QED
    BY <1>3, <2>1, OpStep DEF StartImport, Begin
<1>4. ASSUME NEW r \in Request, EndImport(r)
      PROVE  OpsBecome(StaffOp)
  BY <1>4, OpEnds DEF EndImport
<1>5. ASSUME NEW r \in Request, NEW row \in Rows, ImportRow(r, row)
      PROVE  OpsBecome(StaffOp)
  <2>1. ops[r] \in Importing /\ row.emp \in Employee
    BY <1>5, Stages, RowsAssumption DEF ImportRow, Uploading
  <2>2. [ops[r] EXCEPT !.done = @ \cup {row.emp}] \in StaffOp
    BY <2>1 DEF Importing
  <2>3. [ops[r] EXCEPT !.failed = @ + 1, !.done = @ \cup {row.emp}] \in StaffOp
    <3>1. ops[r].failed + 1 \in Nat /\ ops[r].done \cup {row.emp} \in SUBSET Employee
      BY <2>1 DEF Importing
    <3>2. QED
      BY <2>1, <3>1 DEF Importing
  <2>4. CASE ops' = [ops EXCEPT ![r].done = @ \cup {row.emp}]
    BY <2>2, <2>4, OpStep
  <2>5. CASE ops' = [ops EXCEPT ![r] = [ops[r] EXCEPT !.failed = @ + 1, !.done = @ \cup {row.emp}]]
    BY <2>3, <2>5, OpStep
  <2>6. \/ ops' = [ops EXCEPT ![r].done = @ \cup {row.emp}]
        \/ ops' = [ops EXCEPT ![r] = [ops[r] EXCEPT !.failed = @ + 1, !.done = @ \cup {row.emp}]]
    BY <1>5 DEF ImportRow
  <2>7. QED
    BY <2>4, <2>5, <2>6
<1>6. ASSUME NEW r \in Request, NEW e \in Employee, NEW u \in User, NEW primary \in BOOLEAN,
             CheckAssignment(r, e, u, primary)
      PROVE  OpsBecome(StaffOp)
  <2>1. [kind |-> "assign", next |-> "assign", emp |-> e, user |-> u,
         primary |-> primary, seen |-> Primaries(e)] \in StaffOp
    BY DEF Assigning, Primaries
  <2>2. QED
    BY <1>6, <2>1, OpStep DEF CheckAssignment, Begin
<1>7. ASSUME NEW r \in Request, WriteAssignment(r)
      PROVE  OpsBecome(StaffOp)
  BY <1>7, OpEnds DEF WriteAssignment
<1>8. CASE \E u \in User :
              \/ \E roles \in Rosters :
                    \/ CreateUser(u, roles)
                    \/ \E active \in BOOLEAN : PatchUser(u, roles, active)
              \/ \E v \in Division : AssignDivisionManager(v, u) \/ RemoveDivisionManager(v, u)
              \/ \E d \in Department : AssignDepartmentManager(d, u) \/ RemoveDepartmentManager(d, u)
              \/ \E s \in Section : AssignSectionManager(s, u) \/ RemoveSectionManager(s, u)
              \/ \E e \in Employee : DeleteAssignment(e, u)
  BY <1>8, OpStays DEF CreateUser, PatchUser, AssignDivisionManager, RemoveDivisionManager,
              AssignDepartmentManager, RemoveDepartmentManager, AssignSectionManager,
              RemoveSectionManager, Post, Unpost, DeleteAssignment
<1>9. QED
  BY <1>1, <1>2, <1>3, <1>4, <1>5, <1>6, <1>7, <1>8, <1>10 DEF Staff, Managers

\* The role a user signs in with is one there is.
LEMMA PrimaryIsRole ==
    ASSUME NEW roles \in SUBSET Role
    PROVE  Primary(roles) \in Role
<1> DEFINE First(i) == Ranked[i] \in roles /\ \A j \in 1 .. i - 1 : Ranked[j] \notin roles
<1>1. DOMAIN Ranked = 1 .. 4 /\ \A i \in 1 .. 4 : Ranked[i] \in Role
  BY DEF Ranked, Role
<1>2. CASE roles # {}
  <2>1. Ranked[1] = "Admin" /\ Ranked[2] = "HR" /\ Ranked[3] = "Manager" /\ Ranked[4] = "Employee"
    BY DEF Ranked
  <2>2. \E i \in 1 .. 4 : First(i)
    <3>1. CASE "Admin" \in roles
      BY <2>1, <3>1
    <3>2. CASE "Admin" \notin roles /\ "HR" \in roles
      BY <2>1, <3>2
    <3>3. CASE "Admin" \notin roles /\ "HR" \notin roles /\ "Manager" \in roles
      BY <2>1, <3>3
    <3>4. CASE "Admin" \notin roles /\ "HR" \notin roles /\ "Manager" \notin roles
      <4>1. "Employee" \in roles
        BY <1>2, <3>4 DEF Role
      <4>2. QED
        BY <2>1, <3>4, <4>1
    <3>5. QED
      BY <3>1, <3>2, <3>3, <3>4
  <2>3. (CHOOSE i \in DOMAIN Ranked : First(i)) \in 1 .. 4
    BY <1>1, <2>2
  <2>4. QED
    BY <1>1, <1>2, <2>3 DEF Primary
<1>3. CASE roles = {}
  BY <1>3 DEF Primary, Role
<1>4. QED
  BY <1>2, <1>3

LEMMA SigningOps ==
    ASSUME Types, SigningIn
    PROVE  OpsBecome(SigningOn)
<1> USE DEF Types
<1> SigningOn \in SUBSET AnyOp
  BY DEF AnyOp, FaceOp, DataOp, DeskOp, StaffOp, VisitOp
<1>1. ASSUME NEW r \in Request, NEW u \in User, StartLogin(r, u) \/ StartOidc(r, u)
      PROVE  OpsBecome(SigningOn)
  <2>1. /\ [kind |-> "login", next |-> "verify", user |-> u] \in SigningOn
        /\ [kind |-> "oidc", next |-> "callback", user |-> u] \in SigningOn
    BY DEF SigningOn
  <2>2. QED
    BY <1>1, <2>1, OpStep DEF StartLogin, StartOidc, Begin
<1>2. ASSUME NEW r \in Request, VerifyPassword(r) \/ OidcCallback(r) \/ MatchClaims(r) \/ MakeSession(r)
      PROVE  OpsBecome(SigningOn)
  <2>1. ops[r] \in SigningOn
    BY <1>2, Stages DEF VerifyPassword, OidcCallback, MatchClaims, MakeSession
  <2>2. \A next \in {"session", "match"} : [ops[r] EXCEPT !.next = next] \in SigningOn
    BY <2>1 DEF SigningOn
  <2>3. QED
    BY <1>2, <2>2, OpStep, OpEnds DEF VerifyPassword, OidcCallback, MatchClaims, MakeSession, Step
<1>3. CASE (\E enabled \in BOOLEAN : PutOidcConfig(enabled)) \/ ResetLimiter
  BY <1>3, OpStays DEF PutOidcConfig, ResetLimiter
<1>4. QED
  BY <1>1, <1>2, <1>3 DEF SigningIn

LEMMA BrowsingOps ==
    ASSUME Types, Browsing
    PROVE  OpsBecome(VisitOp)
<1> USE DEF Types, VisitOp
<1> VisitOp \in SUBSET AnyOp
  BY DEF AnyOp, FaceOp, DataOp, DeskOp, StaffOp, VisitOp
<1>1. ASSUME NEW r \in Request, NEW t \in Token, NEW want \in Wants, Open(r, t, want)
      PROVE  OpsBecome(VisitOp)
  <2>1. [kind |-> "web", next |-> "load", token |-> t, want |-> want,
         user |-> None, stored |-> None, held |-> {}, acting |-> None] \in VisitOp
    BY DEF Arriving
  <2>2. QED
    BY <1>1, <2>1, OpStep DEF Open, Begin
<1>2. ASSUME NEW r \in Request, LoadSession(r)
      PROVE  OpsBecome(VisitOp)
  <2>1. ops[r] \in Arriving
    BY <1>2, Stages DEF LoadSession
  <2>2. CASE Done(r)
    BY <2>2, OpEnds
  <2>3. CASE Step(r, "expire")
    <3>1. [ops[r] EXCEPT !.next = "expire"] \in VisitOp
      BY <2>1 DEF Arriving
    <3>2. QED
      BY <2>3, <3>1, OpStep DEF Step
  <2>4. ASSUME Exists(sessions, ops[r].token),
               ops' = [ops EXCEPT ![r] = [ops[r] EXCEPT !.next = "user",
                                              !.user = sessions[ops[r].token].user,
                                              !.stored = sessions[ops[r].token].role]]
        PROVE  OpsBecome(VisitOp)
    <3>1. sessions[ops[r].token] \in SessionRow
      BY <2>1, <2>4 DEF AuthTypes, Exists, Arriving
    <3>2. [ops[r] EXCEPT !.next = "user", !.user = sessions[ops[r].token].user,
                         !.stored = sessions[ops[r].token].role] \in VisitOp
      BY <2>1, <3>1 DEF Arriving, Visiting, SessionRow
    <3>3. QED
      BY <2>4, <3>2, OpStep
  <2>5. QED
    BY <1>2, <2>2, <2>3, <2>4 DEF LoadSession
<1>3. ASSUME NEW r \in Request, ExpireSession(r) \/ Logout(r) \/ SwitchRole(r) \/ SetPreference(r)
      PROVE  OpsBecome(VisitOp)
  BY <1>3, OpEnds DEF ExpireSession, Logout, SwitchRole, SetPreference
<1>4. ASSUME NEW r \in Request, LoadUser(r)
      PROVE  OpsBecome(VisitOp)
  <2>1. ops[r] \in Visiting
    BY <1>4, Stages DEF LoadUser
  <2>2. CASE Done(r)
    BY <2>2, OpEnds
  <2>3. CASE Allowed(ops[r].user)
    <3> DEFINE roles == users[ops[r].user].roles
               acting == IF ops[r].stored \in roles THEN ops[r].stored ELSE Primary(roles)
    <3>1. roles \in SUBSET Role
      BY <2>1, <2>3 DEF OrgTypes, Allowed, UserRow, Visiting
    <3>2. acting \in Role
      BY <2>1, <3>1, PrimaryIsRole DEF Visiting
    <3>3. ops' = [ops EXCEPT ![r] = [ops[r] EXCEPT !.next = "touch", !.held = roles,
                                         !.acting = acting]]
      BY <1>4, <2>3 DEF LoadUser
    <3> HIDE DEF roles, acting
    <3>4. [ops[r] EXCEPT !.next = "touch", !.held = roles, !.acting = acting] \in VisitOp
      BY <2>1, <3>1, <3>2 DEF Visiting
    <3>5. QED
      BY <3>3, <3>4, OpStep
  <2>4. QED
    BY <1>4, <2>2, <2>3 DEF LoadUser
<1>5. ASSUME NEW r \in Request, TouchSession(r)
      PROVE  OpsBecome(VisitOp)
  <2>1. ops[r] \in Visiting /\ ops[r].want \in Wants
    BY <1>5, Stages DEF TouchSession, Visiting
  <2>2. /\ Handler(ops[r]) \in {"answer", "switch", "logout", "prefer"}
        /\ Handler(ops[r]) = "switch" => ops[r].want \in [what : {"switch"}, role : Role]
    BY <2>1 DEF Handler, Wants
  <2>3. \A next \in {"logout", "prefer"} : [ops[r] EXCEPT !.next = next] \in VisitOp
    BY <2>1 DEF Visiting
  <2>4. Handler(ops[r]) = "switch" => [ops[r] EXCEPT !.next = "switch"] \in VisitOp
    BY <2>1, <2>2 DEF Visiting, Switching
  <2>5. QED
    BY <1>5, <2>2, <2>3, <2>4, OpStep, OpEnds DEF TouchSession, Step
<1>6. CASE (\E t \in Token : SessionIdles(t)) \/ SweepSessions
  BY <1>6, OpStays DEF SessionIdles, SweepSessions
<1>7. QED
  BY <1>1, <1>2, <1>3, <1>4, <1>5, <1>6 DEF Browsing

LEMMA OperatorsOps ==
    ASSUME Types, Operators
    PROVE  OpsBecome(Console)
<1> USE DEF Types
<1> Console \in SUBSET AnyOp
  BY DEF AnyOp, FaceOp, DataOp, DeskOp, StaffOp, VisitOp
<1>1. ASSUME NEW r \in Request, NEW want \in ConsoleWants, OpenConsole(r, want)
      PROVE  OpsBecome(Console)
  <2>1. [kind |-> "console", next |-> "admit", want |-> want] \in Console
    BY DEF Console
  <2>2. QED
    BY <1>1, <2>1, OpStep DEF OpenConsole, Begin
<1>2. ASSUME NEW r \in Request, AdmitOperator(r) \/ AccessAs(r)
      PROVE  OpsBecome(Console)
  <2>1. ops[r] \in Console
    BY <1>2, Stages DEF AdmitOperator, AccessAs
  <2>2. ops[r].want \in ConsoleWants
        /\ \A next \in ConsoleWants \cup {"impersonate"} : [ops[r] EXCEPT !.next = next] \in Console
    BY <2>1 DEF Console
  <2>3. QED
    BY <1>2, <2>2, OpStep, OpEnds DEF AdmitOperator, AccessAs, Step
<1>3. ASSUME NEW r \in Request, SetImpersonation(r) \/ UpdateStatus(r) \/ ConsoleLogout(r)
      PROVE  OpsBecome(Console)
  BY <1>3, OpEnds DEF SetImpersonation, UpdateStatus, ConsoleLogout
<1>4. CASE ConsoleLogin \/ ConsoleIdles
  BY <1>4, OpStays DEF ConsoleLogin, ConsoleIdles
<1>5. QED
  BY <1>1, <1>2, <1>3, <1>4 DEF Operators

(***************************************************************************)
(* The tables.                                                             *)
(***************************************************************************)
LEMMA TypesStart == Init => Types
<1> SUFFICES ASSUME Init PROVE Types
  OBVIOUS
<1> DEFINE e == CHOOSE x \in Employee : TRUE
           v == CHOOSE x \in Division : TRUE
           d == CHOOSE x \in Department : TRUE
           s == CHOOSE x \in Section : TRUE
           n == CHOOSE x \in Name : TRUE
           u == CHOOSE x \in User : TRUE
           o == CHOOSE x \in Option : TRUE
           k == CHOOSE x \in Token : TRUE
           other == IF Department = {d} THEN d ELSE CHOOSE x \in Department : x # d
<1>0. /\ e \in Employee /\ v \in Division /\ d \in Department /\ s \in Section /\ n \in Name
      /\ u \in User /\ o \in Option /\ k \in Token /\ other \in Department
  <2>1. e \in Employee /\ v \in Division /\ d \in Department /\ s \in Section /\ n \in Name
        /\ u \in User /\ o \in Option /\ k \in Token
    BY SomeAssumption
  <2> HIDE DEF d
  <2>2. other \in Department
    BY <2>1
  <2>3. QED
    BY <2>1, <2>2
<1>1. PICK new \in BOOLEAN, p \in Photo :
        /\ divisions = [x \in Division |-> IF x = v THEN n ELSE None]
        /\ departments = [x \in Department |->
               IF x = d \/ ~new THEN [name |-> n, division |-> v] ELSE None]
        /\ sections = [y \in Section |->
               IF y = s THEN [name |-> n, dept |-> d]
               ELSE IF new THEN None ELSE [name |-> n, dept |-> other]]
        /\ users = [x \in User |->
               IF x = u \/ ~new THEN [roles |-> {"Manager", "Employee"}, active |-> TRUE] ELSE None]
        /\ employees = [x \in Employee |->
               IF x = e THEN [dept |-> d, section |-> s, status |-> "active", last |-> LastDay]
               ELSE None]
        /\ posts = IF new THEN {} ELSE {<<d, u>>}
        /\ assigned = [x \in Employee |-> [y \in User |->
               IF x = e /\ y = u /\ ~new THEN "plain" ELSE "none"]]
        /\ fields = [x \in Field |-> IF new THEN None ELSE {o}]
        /\ values = [x \in Employee |-> [y \in Field |->
               IF x = e /\ ~new THEN o ELSE None]]
        /\ photos = [x \in Photo |->
               IF x = p THEN [emp |-> e, status |-> IF new THEN "approved" ELSE "pending",
                              embedded |-> TRUE, own |-> ~new]
               ELSE None]
        /\ files = {<<e, p>>}
        /\ deletes = [x \in Employee |-> IF x = e /\ ~new THEN <<"pending">> ELSE <<>>]
        /\ sessions = [t \in Token |->
               IF t = k THEN [user |-> u, role |-> "Manager", live |-> TRUE, sent |-> TRUE]
               ELSE None]
  BY DEF Init
<1> HIDE DEF e, v, d, s, n, u, o, k, other
<1>2. LastDay \in Nat /\ MaxEvents \in Nat /\ LastDay \in Day
  BY DaysAssumption DEF Day
<1>3. OrgTypes
  BY <1>0, <1>1, <1>2 DEF OrgTypes, DepartmentRow, SectionRow, UserRow, EmployeeRow, Role
<1>4. FaceTypes
  <2>1. photos \in [Photo -> PhotoRow \cup {None, Gone}] /\ files \subseteq Employee \X Photo
    BY <1>0, <1>1 DEF PhotoRow
  <2>2. deletes \in [Employee -> Seq(Verdict)]
    <3>1. <<"pending">> \in Seq(Verdict) /\ <<>> \in Seq(Verdict)
      BY DEF Verdict
    <3>2. QED
      BY <1>1, <3>1
  <2>3. stale = {} /\ botched = {} /\ today \in Day /\ fuel \in 0 .. MaxEvents /\ crashed \in BOOLEAN
    <3>1. stale = {} /\ botched = {} /\ today = 0 /\ fuel = MaxEvents /\ crashed = FALSE
      BY DEF Init
    <3>2. today \in Day /\ fuel \in 0 .. MaxEvents
      BY <1>2, <3>1 DEF Day
    <3>3. crashed \in BOOLEAN
      BY <3>1
    <3>4. QED
      BY <3>1, <3>2, <3>3
  <2>4. QED
    BY <2>1, <2>2, <2>3 DEF FaceTypes
<1>5. AuthTypes
  BY <1>0, <1>1 DEF Init, AuthTypes, SessionRow, Role
<1>6. OpTypes
  BY DEF Init, OpTypes, AnyOp
<1>7. QED
  BY <1>3, <1>4, <1>5, <1>6 DEF Types

LEMMA UnitsTypes ==
    ASSUME Types, Units
    PROVE  OrgTypes'
<1> USE DEF Types
<1>1. UNCHANGED <<users, assigned, fields, values, employees>>
  BY UnitsFrame
<1>2. CASE \E v \in Division :
              \/ \E n \in Name : CreateDivision(v, n) \/ PatchDivision(v, n)
              \/ DeleteDivision(v)
  BY <1>1, <1>2 DEF CreateDivision, PatchDivision, DeleteDivision, OrgTypes
<1>3. ASSUME NEW d \in Department, NEW n \in Name, NEW v \in Division \cup {None},
             CreateDepartment(d, n, v) \/ PatchDepartment(d, n, v)
      PROVE  OrgTypes'
  <2>1. [name |-> n, division |-> v] \in DepartmentRow
    BY DEF DepartmentRow
  <2>2. departments' = [departments EXCEPT ![d] = [name |-> n, division |-> v]]
        /\ divisions' = divisions /\ sections' = sections
    BY <1>3 DEF CreateDepartment, PatchDepartment
  <2>3. QED
    BY <1>1, <2>1, <2>2 DEF OrgTypes
<1>4. ASSUME NEW d \in Department, NEW n \in Name, ImportDepartment(d, n)
      PROVE  OrgTypes'
  <2>1. departments[d] # None => departments[d] \in DepartmentRow
    BY DEF OrgTypes
  <2>2. (IF departments[d] # None THEN [departments[d] EXCEPT !.name = n]
         ELSE [name |-> n, division |-> None]) \in DepartmentRow
    BY <2>1 DEF DepartmentRow
  <2>3. departments' \in [Department -> DepartmentRow \cup {None}]
    BY <1>4, <2>2 DEF ImportDepartment, OrgTypes
  <2>4. QED
    BY <1>1, <1>4, <2>3 DEF ImportDepartment, OrgTypes
<1>5. ASSUME NEW d \in Department, DeleteDepartment(d)
      PROVE  OrgTypes'
  BY <1>1, <1>5 DEF DeleteDepartment, OrgTypes
<1>6. ASSUME NEW s \in Section, NEW n \in Name, NEW d \in Department, CreateSection(s, n, d)
      PROVE  OrgTypes'
  BY <1>1, <1>6 DEF CreateSection, OrgTypes, SectionRow
<1>7. ASSUME NEW s \in Section, NEW n \in Name, PatchSection(s, n)
      PROVE  OrgTypes'
  BY <1>1, <1>7 DEF PatchSection, OrgTypes, SectionRow
<1>8. ASSUME NEW s \in Section, DeleteSection(s)
      PROVE  OrgTypes'
  BY <1>1, <1>8 DEF DeleteSection, OrgTypes
<1>9. QED
  BY <1>2, <1>3, <1>4, <1>5, <1>6, <1>7, <1>8 DEF Units

LEMMA ManagersTypes ==
    ASSUME Types, Managers
    PROVE  OrgTypes'
<1> USE DEF Types
<1>1. UNCHANGED <<divisions, departments, sections, fields, values, employees>>
  BY ManagersFrame
<1>2. CASE \E u \in User, roles \in Rosters :
              CreateUser(u, roles) \/ \E active \in BOOLEAN : PatchUser(u, roles, active)
  <2>1. PICK u \in User, roles \in Rosters, active \in BOOLEAN :
          users' = [users EXCEPT ![u] = [roles |-> roles, active |-> active]]
    BY <1>2 DEF CreateUser, PatchUser
  <2>2. [roles |-> roles, active |-> active] \in UserRow
    BY RostersAssumption DEF UserRow
  <2>3. assigned' = assigned
    BY <1>2 DEF CreateUser, PatchUser
  <2>4. QED
    BY <1>1, <2>1, <2>2, <2>3 DEF OrgTypes
<1>3. CASE \E u \in User :
              \/ \E v \in Division : AssignDivisionManager(v, u) \/ RemoveDivisionManager(v, u)
              \/ \E d \in Department : AssignDepartmentManager(d, u) \/ RemoveDepartmentManager(d, u)
              \/ \E s \in Section : AssignSectionManager(s, u) \/ RemoveSectionManager(s, u)
  BY <1>1, <1>3 DEF AssignDivisionManager, RemoveDivisionManager, AssignDepartmentManager,
                    RemoveDepartmentManager, AssignSectionManager, RemoveSectionManager,
                    Post, Unpost, OrgTypes
<1>4. ASSUME NEW e \in Employee, NEW u \in User, DeleteAssignment(e, u)
      PROVE  OrgTypes'
  BY <1>1, <1>4 DEF DeleteAssignment, OrgTypes
<1>5. ASSUME NEW r \in Request, NEW e \in Employee, NEW u \in User, NEW primary \in BOOLEAN,
             CheckAssignment(r, e, u, primary)
      PROVE  OrgTypes'
  BY <1>5 DEF CheckAssignment, orgVars, OrgTypes
<1>6. ASSUME NEW r \in Request, WriteAssignment(r)
      PROVE  OrgTypes'
  <2>1. ops[r] \in Assigning
    BY <1>6, Stages DEF WriteAssignment
  <2> DEFINE o == ops[r]
             after == [y \in User |->
               IF o.primary /\ y \in o.seen /\ assigned[o.emp][y] = "primary"
               THEN "plain" ELSE assigned[o.emp][y]]
             written == [after EXCEPT ![o.user] = IF o.primary THEN "primary" ELSE "plain"]
  <2>2. o.emp \in Employee /\ o.user \in User
    BY <2>1 DEF Assigning
  <2>3. after \in [User -> {"none", "plain", "primary"}]
    BY <2>2 DEF OrgTypes
  <2>4. written \in [User -> {"none", "plain", "primary"}]
    <3> HIDE DEF after
    <3>1. QED
      BY <2>3
  <2>5. assigned' = assigned \/ assigned' = [assigned EXCEPT ![o.emp] = written]
    BY <1>6, <2>2 DEF WriteAssignment, OrgTypes
  <2>6. users' = users
    BY <1>6 DEF WriteAssignment
  <2> HIDE DEF after, written
  <2>7. QED
    BY <1>1, <2>2, <2>4, <2>5, <2>6 DEF OrgTypes
<1>7. QED
  BY <1>2, <1>3, <1>4, <1>5, <1>6 DEF Managers

LEMMA CustomFieldsTypes ==
    ASSUME Types, CustomFields
    PROVE  OrgTypes'
<1> USE DEF Types
<1>1. UNCHANGED <<divisions, departments, sections, users, assigned, employees>>
  BY CustomFieldsFrame
<1>2. ASSUME NEW f \in Field, NEW options \in (SUBSET Option) \ {{}},
             CreateField(f, options) \/ PatchField(f, options)
      PROVE  OrgTypes'
  BY <1>1, <1>2 DEF CreateField, PatchField, OrgTypes
<1>3. ASSUME NEW f \in Field, DeleteField(f)
      PROVE  OrgTypes'
  BY <1>1, <1>3 DEF DeleteField, OrgTypes
<1>4. ASSUME NEW f \in Field, NEW e \in Employee, NEW x \in Option \cup {None}, PatchValue(e, f, x)
      PROVE  OrgTypes'
  BY <1>1, <1>4 DEF PatchValue, OrgTypes
<1>5. QED
  BY <1>2, <1>3, <1>4 DEF CustomFields

\* What a PATCH makes of a row is a row.
LEMMA PatchedRow ==
    ASSUME NEW change \in Patch, NEW row \in EmployeeRow
    PROVE  Patched(change, row) \in EmployeeRow
<1>1. PICK all \in Changes, old \in EmployeeRow : change = Sets(all, old)
  BY DEF Patch
<1>2. /\ DOMAIN change \subseteq DOMAIN all
      /\ \A k \in DOMAIN change : change[k] = all[k]
  BY <1>1 DEF Sets
<1>3. QED
  BY <1>2, ChangesAssumption DEF Patched, EmployeeRow

\* What the second half of a PATCH leaves.
LEMMA PatchWrites ==
    ASSUME Types, NEW r \in Request, WritePatch(r)
    PROVE  /\ ops[r] \in Patching /\ ops[r].emp \in Employee
           /\ UNCHANGED <<orgVars, photos, files, deletes, cache, authVars, world, fuel>>
           /\ \/ UNCHANGED <<employees, stale>> /\ Done(r)
              \/ /\ Employed(ops[r].emp) /\ ChangeRefers(ops[r])
                 /\ employees[ops[r].emp] \in EmployeeRow
                 /\ Patched(ops[r].change, employees[ops[r].emp]) \in EmployeeRow
                 /\ employees' = [employees EXCEPT ![ops[r].emp] =
                                    Patched(ops[r].change, employees[ops[r].emp])]
                 /\ \/ "status" \in DOMAIN ops[r].change /\ Step(r, "forget") /\ stale' = stale
                    \/ /\ "status" \notin DOMAIN ops[r].change /\ Done(r)
                       /\ stale' = IF "last" \in DOMAIN ops[r].change
                                   THEN stale \cup {<<ops[r].emp, "life">>} ELSE stale
<1>1. ops[r] \in Patching
  BY Stages DEF WritePatch, Types
<1>2. ops[r].emp \in Employee /\ ops[r].change \in Patch
  BY <1>1 DEF Patching
<1>3. Employed(ops[r].emp) => employees[ops[r].emp] \in EmployeeRow
  BY <1>2 DEF Types, OrgTypes, Employed, Exists
<1>4. Employed(ops[r].emp) => Patched(ops[r].change, employees[ops[r].emp]) \in EmployeeRow
  BY <1>2, <1>3, PatchedRow
<1>5. QED
  BY <1>1, <1>2, <1>3, <1>4 DEF WritePatch

LEMMA StaffTypes ==
    ASSUME Types, Staff
    PROVE  OrgTypes'
<1> USE DEF Types
<1>1. UNCHANGED <<assigned, fields>>
  BY StaffFrame
<1>2. ASSUME NEW e \in Employee, NEW d \in Department, NEW s \in Section \cup {None},
             NEW last \in Day \cup {None}, NEW status \in {"active", "inactive"},
             CreateEmployee(e, d, s, status, last)
      PROVE  OrgTypes'
  BY <1>1, <1>2 DEF CreateEmployee, orgVars, OrgTypes, EmployeeRow
<1>3. ASSUME NEW r \in Request, NEW e \in Employee, NEW change \in Changes,
             PatchEmployee(r, e, change)
      PROVE  OrgTypes'
  BY <1>3, PatchBegins DEF orgVars, OrgTypes
<1>8. ASSUME NEW r \in Request, WritePatch(r)
      PROVE  OrgTypes'
  BY <1>8, PatchWrites DEF orgVars, OrgTypes
<1>4. ASSUME NEW e \in Employee, SoftDelete(e) \/ BulkSoftDelete(e)
      PROVE  OrgTypes'
  <2>1. employees[e] \in EmployeeRow
    BY <1>4 DEF SoftDelete, BulkSoftDelete, OrgTypes, Employed, Exists
  <2>2. [employees[e] EXCEPT !.status = "inactive"] \in EmployeeRow
    BY <2>1 DEF EmployeeRow
  <2>3. employees' = [employees EXCEPT ![e] = [employees[e] EXCEPT !.status = "inactive"]]
        /\ UNCHANGED orgVars
    BY <1>4 DEF SoftDelete, BulkSoftDelete
  <2>4. QED
    BY <2>2, <2>3 DEF orgVars, OrgTypes
<1>5. ASSUME NEW r \in Request, StartImport(r) \/ EndImport(r)
      PROVE  OrgTypes'
  BY <1>5 DEF StartImport, EndImport, orgVars, OrgTypes
<1>6. ASSUME NEW r \in Request, NEW row \in Rows, ImportRow(r, row)
      PROVE  OrgTypes'
  <2>1. ops[r] \in Importing
    BY <1>6, Stages DEF ImportRow, Uploading
  <2>2. /\ row.emp \in Employee /\ row.user \in User /\ row.field \in Field
        /\ row.dept \in Department /\ row.name \in Name /\ row.last \in Day \cup {None}
        /\ row.division \in Division \cup {None} /\ row.section \in Section \cup {None}
    BY RowsAssumption
  <2>3. RowDivisions(row) \in [Division -> Name \cup {None}]
    BY <2>2 DEF RowDivisions, OrgTypes
  <2>4. RowDepartments(row) \in [Department -> DepartmentRow \cup {None}]
    <3> DEFINE made == IF departments[row.dept] = None
                       THEN [name |-> row.name, division |-> None] ELSE departments[row.dept]
    <3>1. made \in DepartmentRow
      BY <2>2 DEF OrgTypes, DepartmentRow
    <3> HIDE DEF made
    <3>2. (IF row.division = None THEN made ELSE [made EXCEPT !.division = row.division])
             \in DepartmentRow
      BY <2>2, <3>1 DEF DepartmentRow
    <3>3. RowDepartments(row) = [departments EXCEPT ![row.dept] =
             IF row.division = None THEN made ELSE [made EXCEPT !.division = row.division]]
      BY DEF RowDepartments, made
    <3>4. QED
      BY <2>2, <3>2, <3>3 DEF OrgTypes
  <2>5. RowSections(row) \in [Section -> SectionRow \cup {None}]
    BY <2>2 DEF RowSections, OrgTypes, SectionRow
  <2>6. RowUsers(row) \in [User -> UserRow \cup {None}]
    <3>1. [roles |-> {"Employee"}, active |-> TRUE] \in UserRow
      BY DEF UserRow, Role
    <3>2. QED
      BY <2>2, <3>1 DEF RowUsers, OrgTypes
  <2>7. RowValues(row, ops[r].defs) \in [Employee -> [Field -> Option \cup {None}]]
    <3>1. Takes(row, ops[r].defs) => row.value \in Option
      BY <2>1, <2>2 DEF Takes, Exists, Importing
    <3>2. QED
      BY <2>2, <3>1 DEF RowValues, OrgTypes
  <2>8. RowEmployee(row) \in EmployeeRow
    BY <2>2 DEF RowEmployee, EmployeeRow
  <2>9. QED
    BY ZenonT(30), <1>1, <1>6, <2>2, <2>3, <2>4, <2>5, <2>6, <2>7, <2>8 DEF ImportRow, units, OrgTypes
<1>7. QED
  BY <1>2, <1>3, <1>4, <1>5, <1>6, <1>8 DEF Staff

LEMMA LeavingOrgTypes ==
    ASSUME Types, Leaving
    PROVE  OrgTypes'
<1> USE DEF Types
<1>1. UNCHANGED <<divisions, departments, sections, users, fields>>
  BY LeavingFrame
<1>2. ASSUME NEW r \in Request, EraseRow(r) \/ PurgeRow(r)
      PROVE  OrgTypes'
  <2>1. PICK e : DeleteEmployeeRow(e)
    BY <1>2 DEF EraseRow, PurgeRow
  <2>2. employees' \in [Employee -> EmployeeRow \cup {None, Gone}]
    BY <2>1 DEF DeleteEmployeeRow, OrgTypes
  <2>3. assigned' \in [Employee -> [User -> {"none", "plain", "primary"}]]
    BY <2>1 DEF DeleteEmployeeRow, OrgTypes
  <2>4. values' \in [Employee -> [Field -> Option \cup {None}]]
    BY <2>1 DEF DeleteEmployeeRow, ValuesWithout, OrgTypes
  <2>5. QED
    BY <1>1, <2>2, <2>3, <2>4 DEF OrgTypes
<1>3. ASSUME NEW r \in Request, Redact(r)
      PROVE  OrgTypes'
  <2>1. CASE Employed(ops[r].emp)
    <3>1. ops[r].emp \in Employee /\ employees[ops[r].emp] \in EmployeeRow
      BY <1>3, <2>1, Stages DEF Redact, Purging, OrgTypes, Employed, Exists
    <3>2. [employees[ops[r].emp] EXCEPT !.status = "deleted"] \in EmployeeRow
      BY <3>1 DEF EmployeeRow
    <3>3. employees' \in [Employee -> EmployeeRow \cup {None, Gone}]
      BY <1>3, <2>1, <3>1, <3>2 DEF Redact, OrgTypes
    <3>4. values' \in [Employee -> [Field -> Option \cup {None}]]
      <4>1. values' = [values EXCEPT ![ops[r].emp] = [f \in Field |-> None]]
        BY <1>3, <2>1 DEF Redact, ValuesWithout
      <4>2. QED
        BY <3>1, <4>1 DEF OrgTypes
    <3>5. assigned' = assigned
      BY <1>3 DEF Redact
    <3>6. QED
      BY <1>1, <3>3, <3>4, <3>5 DEF OrgTypes
  <2>2. CASE ~Employed(ops[r].emp)
    BY <1>1, <1>3, <2>2 DEF Redact, OrgTypes
  <2>3. QED
    BY <2>1, <2>2
<1>4. ASSUME NEW r \in Request, Deactivate(r)
      PROVE  OrgTypes'
  <2>1. \A e \in Employee : Employed(e) => [employees[e] EXCEPT !.status = "inactive"] \in EmployeeRow
    BY DEF OrgTypes, Employed, Exists, EmployeeRow
  <2>2. employees' \in [Employee -> EmployeeRow \cup {None, Gone}]
    BY <1>4, <2>1 DEF Deactivate, OrgTypes
  <2>3. QED
    BY <1>4, <2>2 DEF Deactivate, orgVars, OrgTypes
<1>5. CASE \/ DayPasses \/ Crash
           \/ \E e \in Employee : SubmitByAdmin(e)
           \/ \E e \in Employee, r \in Request :
                 \/ SubmitByHr(r, e) \/ PdplDelete(r, e) \/ BulkPurge(r, e)
                 \/ \E approve \in BOOLEAN : HrDecide(r, e, approve) \/ AdminOverride(r, e, approve)
           \/ \E r \in Request : \/ WriteDecision(r) \/ Erase(r) \/ ErasureFails(r)
                                \/ LifecycleCron(r) \/ LifecycleScript(r)
  BY <1>5 DEF ErasureFails, DayPasses, Crash, SubmitByAdmin, SubmitByHr, PdplDelete, BulkPurge, RemoveFiles,
              HrDecide, AdminOverride, Decide, WriteDecision, Erase, LifecycleCron,
              LifecycleScript, RunLifecycle, orgVars, OrgTypes
<1>6. QED
  BY <1>2, <1>3, <1>4, <1>5 DEF Leaving

LEMMA OrgTypesHold ==
    ASSUME Types, Next
    PROVE  OrgTypes'
<1>1. CASE Faces
  BY <1>1, FacesFrame DEF Types, OrgTypes
<1>2. CASE SigningIn \/ Browsing \/ Operators
  BY <1>2, DeskFrame DEF Types, OrgTypes
<1>3. QED
  BY <1>1, <1>2, UnitsTypes, ManagersTypes, CustomFieldsTypes, StaffTypes, LeavingOrgTypes DEF Next

LEMMA FacesTypes ==
    ASSUME Types, Faces
    PROVE  FaceTypes'
<1> USE DEF Types
<1>1. UNCHANGED <<deletes, today, crashed, botched>>
  BY FacesFrame
<1>2. CASE Match
  BY <1>1, <1>2 DEF Match, FaceTypes
<1>3. ASSUME NEW r \in Request, NEW e \in Employee, NEW p \in Photo,
             UploadMyPhoto(r, e, p) \/ UploadPhotos(r, e, p) \/ BulkIngest(r, e, p)
      PROVE  FaceTypes'
  <2>1. files' = files \cup {<<e, p>>} /\ Event /\ UNCHANGED <<photos, stale>>
    BY <1>3 DEF UploadMyPhoto, UploadPhotos, BulkIngest, Upload
  <2>2. fuel' \in 0 .. MaxEvents
    BY <2>1, DaysAssumption DEF Event, FaceTypes
  <2>3. QED
    BY <1>1, <2>1, <2>2 DEF FaceTypes
<1>4. CASE \E r \in Request, p \in Photo :
              ApprovePhoto(r, p) \/ RejectPhoto(r, p) \/ DeleteMyPhoto(r, p) \/ DeletePhoto(r, p)
  <2>1. Event /\ UNCHANGED <<photos, files, stale>>
    BY <1>4 DEF ApprovePhoto, RejectPhoto, ReadPending, DeleteMyPhoto, DeletePhoto, Remove, faceVars
  <2>2. fuel' \in 0 .. MaxEvents
    BY <2>1, DaysAssumption DEF Event, FaceTypes
  <2>3. QED
    BY <1>1, <2>1, <2>2 DEF FaceTypes
<1>5. CASE \E r \in Request : EnrollMissing(r) \/ ReembedAll(r)
  <2>1. Event /\ UNCHANGED <<files, stale>>
        /\ \/ photos' = photos
           \/ photos' = [p \in Photo |-> IF Exists(photos, p)
                                         THEN [photos[p] EXCEPT !.embedded = FALSE] ELSE photos[p]]
    BY <1>5 DEF EnrollMissing, ReembedAll, faceVars
  <2>2. fuel' \in 0 .. MaxEvents
    BY <2>1, DaysAssumption DEF Event, FaceTypes
  <2>3. \A p \in Photo : Exists(photos, p) => [photos[p] EXCEPT !.embedded = FALSE] \in PhotoRow
    BY DEF FaceTypes, Exists, PhotoRow
  <2>4. photos' \in [Photo -> PhotoRow \cup {None, Gone}]
    BY <2>1, <2>3 DEF FaceTypes
  <2>5. QED
    BY <1>1, <2>1, <2>2, <2>4 DEF FaceTypes
<1>6. ASSUME NEW r \in Request, InsertPhotoRow(r)
      PROVE  FaceTypes'
  <2>1. ops[r] \in Uploading
    BY <1>6, Stages DEF InsertPhotoRow, Importing
  <2>2. [emp |-> ops[r].emp, status |-> ops[r].status, embedded |-> FALSE, own |-> ops[r].own]
           \in PhotoRow
    BY <2>1 DEF Uploading, PhotoRow
  <2>3. photos' \in [Photo -> PhotoRow \cup {None, Gone}]
    BY <1>6, <2>2 DEF InsertPhotoRow, FaceTypes
  <2>4. QED
    BY <1>1, <1>6, <2>3 DEF InsertPhotoRow, FaceTypes
<1>7. CASE \E r \in Request : ListMissing(r) \/ EnrollPhoto(r)
  BY <1>1, <1>7 DEF ListMissing, EnrollPhoto, faceVars, FaceTypes
<1>8. ASSUME NEW r \in Request, StoreEmbedding(r) \/ WriteApproval(r)
      PROVE  FaceTypes'
  <2>1. \A p \in Photo : Exists(photos, p) =>
           /\ [photos[p] EXCEPT !.embedded = TRUE] \in PhotoRow
           /\ [photos[p] EXCEPT !.status = "approved"] \in PhotoRow
    BY DEF FaceTypes, Exists, PhotoRow
  <2>2. ops[r].photo \in Photo
    BY <1>8, Stages DEF StoreEmbedding, WriteApproval, Embedding, Reviewing
  <2>3. photos' \in [Photo -> PhotoRow \cup {None, Gone}]
    BY <1>8, <2>1, <2>2 DEF StoreEmbedding, WriteApproval, FaceTypes
  <2>4. QED
    BY <1>1, <1>8, <2>3 DEF StoreEmbedding, WriteApproval, FaceTypes
<1>9. ASSUME NEW r \in Request, DeleteRowAndFile(r)
      PROVE  FaceTypes'
  BY <1>1, <1>9 DEF DeleteRowAndFile, FaceTypes
<1>10. CASE \E r \in Request : Forget(r) \/ ForgetAll(r)
  BY <1>1, <1>10 DEF Forget, ForgetAll, FaceTypes
<1>11. QED
  BY <1>2, <1>3, <1>4, <1>5, <1>6, <1>7, <1>8, <1>9, <1>10 DEF Faces

LEMMA EventSpendsFuel ==
    ASSUME FaceTypes, Event
    PROVE  fuel' \in 0 .. MaxEvents
  BY DaysAssumption DEF FaceTypes, Event

LEMMA OrgFaceTypes ==
    ASSUME Types, Units \/ Managers \/ CustomFields \/ SigningIn \/ Browsing \/ Operators
    PROVE  FaceTypes'
<1> USE DEF Types
<1>1. UNCHANGED <<faces, today, crashed, botched>>
  BY UnitsFrame, ManagersFrame, CustomFieldsFrame, DeskFrame
<1>2. Event \/ fuel' = fuel
  <2>1. Units => Event
    BY DEF Units, CreateDivision, PatchDivision, DeleteDivision, CreateDepartment,
           PatchDepartment, ImportDepartment, DeleteDepartment, CreateSection, PatchSection,
           DeleteSection
  <2>2. Managers => Event \/ fuel' = fuel
    BY DEF Managers, CreateUser, PatchUser, AssignDivisionManager, RemoveDivisionManager,
           AssignDepartmentManager, RemoveDepartmentManager, AssignSectionManager,
           RemoveSectionManager, Post, Unpost, DeleteAssignment, CheckAssignment, WriteAssignment
  <2>3. CustomFields => Event
    BY DEF CustomFields, CreateField, PatchField, DeleteField, PatchValue
  <2>4. SigningIn \/ Browsing \/ Operators => Event \/ fuel' = fuel
    BY DEF SigningIn, StartLogin, StartOidc, VerifyPassword, OidcCallback, MatchClaims,
           MakeSession, PutOidcConfig, ResetLimiter, Browsing, Open, LoadSession,
           ExpireSession, LoadUser, TouchSession, Logout, SwitchRole, SetPreference,
           SessionIdles, SweepSessions, Operators, OpenConsole, AdmitOperator, AccessAs,
           SetImpersonation, UpdateStatus, ConsoleLogout, ConsoleLogin, ConsoleIdles
  <2>5. QED
    BY <2>1, <2>2, <2>3, <2>4
<1>3. fuel' \in 0 .. MaxEvents
  <2>1. CASE Event
    BY <2>1, EventSpendsFuel
  <2>2. CASE fuel' = fuel
    BY <2>2 DEF FaceTypes
  <2>3. QED
    BY <1>2, <2>1, <2>2
<1>4. QED
  BY <1>1, <1>3 DEF FaceTypes, faces

LEMMA StaffFaceTypes ==
    ASSUME Types, Staff
    PROVE  FaceTypes'
<1> USE DEF Types
<1>1. UNCHANGED <<photos, files, deletes, today, crashed, botched>>
  BY StaffFrame
<1>2. stale' = stale \/ \E e \in Employee : stale' = stale \cup {<<e, "life">>}
  <2>1. ASSUME NEW r \in Request, WritePatch(r)
        PROVE  stale' = stale \/ \E e \in Employee : stale' = stale \cup {<<e, "life">>}
    BY <2>1, PatchWrites
  <2>2. QED
    BY <2>1 DEF Staff, CreateEmployee, PatchEmployee, SoftDelete, BulkSoftDelete, StartImport,
         EndImport, ImportRow, faceVars
<1>3. stale' \subseteq Employee \X {"faces", "life"}
  BY <1>2 DEF FaceTypes
<1>4. Event \/ fuel' = fuel
  BY DEF Staff, CreateEmployee, PatchEmployee, SoftDelete, BulkSoftDelete, StartImport,
         EndImport, ImportRow, WritePatch
<1>5. fuel' \in 0 .. MaxEvents
  <2>1. CASE Event
    BY <2>1, EventSpendsFuel
  <2>2. CASE fuel' = fuel
    BY <2>2 DEF FaceTypes
  <2>3. QED
    BY <1>4, <2>1, <2>2
<1>6. QED
  BY <1>1, <1>3, <1>5 DEF FaceTypes

LEMMA WithoutTypes ==
    ASSUME FaceTypes, NEW e
    PROVE  PhotosWithout(e) \in [Photo -> PhotoRow \cup {None, Gone}]
  BY DEF FaceTypes, PhotosWithout

LEMMA LeavingFaceTypes ==
    ASSUME Types, Leaving
    PROVE  FaceTypes'
<1> USE DEF Types
<1>1. ASSUME NEW e \in Employee, NEW verdict \in Verdict,
             deletes' = [deletes EXCEPT ![e] = Append(@, verdict)]
      PROVE  deletes' \in [Employee -> Seq(Verdict)]
  BY <1>1 DEF FaceTypes
<1>2. CASE \/ \E e \in Employee : SubmitByAdmin(e)
           \/ \E e \in Employee, r \in Request : SubmitByHr(r, e)
  <2>1. PICK e \in Employee, verdict \in Verdict : deletes' = [deletes EXCEPT ![e] = Append(@, verdict)]
    BY <1>2 DEF SubmitByAdmin, SubmitByHr, Verdict
  <2>2. Event /\ UNCHANGED <<photos, files, stale, world>>
    BY <1>2 DEF SubmitByAdmin, SubmitByHr
  <2>3. fuel' \in 0 .. MaxEvents
    BY <2>2, EventSpendsFuel
  <2>4. QED
    BY <1>1, <2>1, <2>2, <2>3 DEF FaceTypes, world
<1>3. CASE \E e \in Employee, r \in Request :
              PdplDelete(r, e) \/ BulkPurge(r, e)
                \/ \E approve \in BOOLEAN : HrDecide(r, e, approve) \/ AdminOverride(r, e, approve)
  <2>1. Event /\ files' \subseteq files /\ UNCHANGED <<photos, deletes, stale, world>>
    BY <1>3 DEF PdplDelete, BulkPurge, RemoveFiles, HrDecide, AdminOverride, Decide, faceVars
  <2>2. fuel' \in 0 .. MaxEvents
    BY <2>1, EventSpendsFuel
  <2>3. QED
    BY <2>1, <2>2 DEF FaceTypes, world
<1>4. ASSUME NEW r \in Request, WriteDecision(r)
      PROVE  FaceTypes'
  <2>1. ops[r] \in Deciding
    BY <1>4, Stages DEF WriteDecision
  <2>2. ops[r].emp \in Employee /\ ops[r].verdict \in Verdict
    BY <2>1 DEF Deciding
  <2>3. ops[r].index \in DOMAIN deletes[ops[r].emp] =>
          [deletes[ops[r].emp] EXCEPT ![ops[r].index] = ops[r].verdict] \in Seq(Verdict)
    BY <2>2 DEF FaceTypes
  <2>4. deletes' \in [Employee -> Seq(Verdict)]
    BY <1>4, <2>2, <2>3 DEF WriteDecision, FaceTypes
  <2>5. QED
    BY <1>4, <2>4 DEF WriteDecision, FaceTypes, world
<1>5. CASE \E r \in Request : Erase(r)
  BY <1>5 DEF Erase, FaceTypes, world
<1>6. ASSUME NEW r \in Request, EraseRow(r) \/ PurgeRow(r)
      PROVE  FaceTypes'
  <2>1. DeleteEmployeeRow(ops[r].emp) /\ ops[r].emp \in Employee
    BY <1>6, Stages DEF EraseRow, PurgeRow, Deciding, Erasing, Purging
  <2>2. photos' \in [Photo -> PhotoRow \cup {None, Gone}]
    BY <2>1, WithoutTypes DEF DeleteEmployeeRow
  <2>3. deletes' \in [Employee -> Seq(Verdict)]
    BY <2>1 DEF DeleteEmployeeRow, FaceTypes
  <2>4. stale' \subseteq Employee \X {"faces", "life"}
    <3> DEFINE e == ops[r].emp
    <3>1. stale' = stale \/ stale' = stale \cup {<<e, "faces">>, <<e, "life">>}
      BY <1>6 DEF EraseRow, PurgeRow, ForgottenByNobody
    <3> HIDE DEF e
    <3>2. e \in Employee
      BY <2>1 DEF e
    <3>3. QED
      BY <3>1, <3>2 DEF FaceTypes
  <2>5. QED
    BY <1>6, <2>2, <2>3, <2>4 DEF EraseRow, PurgeRow, FaceTypes, world
<1>7. ASSUME NEW r \in Request, Redact(r)
      PROVE  FaceTypes'
  <2>1. ops[r].emp \in Employee
    BY <1>7, Stages DEF Redact, Purging
  <2>2. photos' \in [Photo -> PhotoRow \cup {None, Gone}]
    BY <1>7, WithoutTypes DEF Redact, FaceTypes
  <2>3. stale' \subseteq Employee \X {"faces", "life"}
    BY <1>7, <2>1 DEF Redact, ForgottenByNobody, FaceTypes
  <2>4. QED
    BY <1>7, <2>2, <2>3 DEF Redact, FaceTypes, world
<1>8. CASE \E r \in Request : LifecycleCron(r) \/ LifecycleScript(r)
  <2>1. Event /\ UNCHANGED <<faceVars, world>>
    BY <1>8 DEF LifecycleCron, LifecycleScript, RunLifecycle
  <2>2. fuel' \in 0 .. MaxEvents
    BY <2>1, EventSpendsFuel
  <2>3. QED
    BY <2>1, <2>2 DEF FaceTypes, faceVars, world
<1>9. ASSUME NEW r \in Request, Deactivate(r)
      PROVE  FaceTypes'
  <2>1. ops[r].leavers \subseteq Employee
    BY <1>9, Stages DEF Deactivate, Retiring
  <2>2. stale' \subseteq Employee \X {"faces", "life"}
    <3>1. stale' = stale \/ stale' = stale \cup {<<e, "life">> : e \in ops[r].leavers}
      BY <1>9 DEF Deactivate
    <3>2. \A x \in {<<e, "life">> : e \in ops[r].leavers} : x \in Employee \X {"faces", "life"}
      BY <2>1
    <3>3. QED
      BY <3>1, <3>2 DEF FaceTypes
  <2>3. QED
    BY <1>9, <2>2 DEF Deactivate, FaceTypes, world
<1>10. CASE DayPasses
  <2>1. today' \in Day
    BY <1>10, DaysAssumption DEF DayPasses, FaceTypes, Day
  <2>2. QED
    BY <1>10, <2>1 DEF DayPasses, FaceTypes, faceVars
<1>11. CASE Crash
  <2>1. crashed' \in BOOLEAN
    BY <1>11 DEF Crash
  <2>2. QED
    BY <1>11, <2>1 DEF Crash, FaceTypes
<1>12. ASSUME NEW r \in Request, ErasureFails(r)
       PROVE  FaceTypes'
  <2>1. /\ botched' = botched \cup {<<ops[r].emp, ops[r].next>>}
        /\ UNCHANGED <<faceVars, today, crashed, fuel>>
    BY <1>12 DEF ErasureFails
  <2>2. ops[r].emp \in Employee /\ ops[r].next \in ErasureStep
    BY <1>12, Stages DEF ErasureFails, ErasureStep, At, Deciding, Erasing, Purging
  <2>3. QED
    BY <2>1, <2>2 DEF FaceTypes, faceVars
<1>13. QED
  BY <1>2, <1>3, <1>4, <1>5, <1>6, <1>7, <1>8, <1>9, <1>10, <1>11, <1>12 DEF Leaving

LEMMA FaceTypesHold ==
    ASSUME Types, Next
    PROVE  FaceTypes'
  BY FacesTypes, OrgFaceTypes, StaffFaceTypes, LeavingFaceTypes DEF Next

LEMMA NewTokenIsFree ==
    ASSUME \E t \in Token : sessions[t] = None
    PROVE  NewToken \in Token /\ sessions[NewToken] = None
  BY DEF NewToken

LEMMA SigningTypes ==
    ASSUME Types, SigningIn
    PROVE  AuthTypes'
<1> USE DEF Types
<1>1. CASE \/ \E r \in Request, u \in User : StartLogin(r, u) \/ StartOidc(r, u)
           \/ \E r \in Request : OidcCallback(r) \/ MatchClaims(r)
           \/ \E enabled \in BOOLEAN : PutOidcConfig(enabled)
  BY <1>1 DEF StartLogin, StartOidc, OidcCallback, MatchClaims, PutOidcConfig, authVars, AuthTypes
<1>2. ASSUME NEW r \in Request, VerifyPassword(r)
      PROVE  AuthTypes'
  <2>1. ops[r] \in SigningOn
    BY <1>2, Stages DEF VerifyPassword
  <2>2. ops[r].user \in User
    BY <2>1 DEF SigningOn
  <2>3. failures[ops[r].user] + 1 \in Nat
    BY <2>2 DEF AuthTypes
  <2>4. failures' \in [User -> Nat]
    BY <1>2, <2>2, <2>3 DEF VerifyPassword, AuthTypes
  <2>5. QED
    BY <1>2, <2>4 DEF VerifyPassword, AuthTypes
<1>3. ASSUME NEW r \in Request, MakeSession(r)
      PROVE  AuthTypes'
  <2>1. ops[r].user \in User
    BY <1>3, Stages DEF MakeSession, SigningOn
  <2> DEFINE roles == IF Allowed(ops[r].user) THEN users[ops[r].user].roles ELSE {}
             sent == Allowed(ops[r].user) \/ ops[r].kind = "oidc"
             row == [user |-> ops[r].user, live |-> TRUE, role |-> Primary(roles), sent |-> sent]
  <2>2. roles \in SUBSET Role
    BY <2>1 DEF OrgTypes, Allowed, UserRow
  <2>3. Primary(roles) \in Role
    BY <2>2, PrimaryIsRole
  <2>4. sent \in BOOLEAN
    OBVIOUS
  <2>5. row \in SessionRow
    <3> HIDE DEF roles, sent
    <3>1. QED
      BY <2>1, <2>3, <2>4 DEF SessionRow
  <2>6. NewToken \in Token /\ sessions' = [sessions EXCEPT ![NewToken] = row]
    BY <1>3, NewTokenIsFree DEF MakeSession, SetSession
  <2>7. failures' = failures
    BY <1>3 DEF MakeSession, others
  <2> HIDE DEF row
  <2>8. QED
    BY <2>5, <2>6, <2>7 DEF AuthTypes
<1>4. CASE ResetLimiter
  BY <1>4 DEF ResetLimiter, AuthTypes
<1>5. QED
  BY <1>1, <1>2, <1>3, <1>4 DEF SigningIn

LEMMA BrowsingTypes ==
    ASSUME Types, Browsing
    PROVE  AuthTypes'
<1> USE DEF Types
<1>1. failures' = failures
  BY DEF Browsing, Open, LoadSession, ExpireSession, LoadUser, TouchSession, Logout,
         SwitchRole, SetPreference, SessionIdles, SweepSessions, authVars, others
<1>2. \A t \in Token : Exists(sessions, t) =>
        /\ \A live \in BOOLEAN : [sessions[t] EXCEPT !.live = live] \in SessionRow
        /\ \A role \in Role : [sessions[t] EXCEPT !.role = role] \in SessionRow
  BY DEF AuthTypes, Exists, SessionRow
<1>3. CASE \E r \in Request : (\E t \in Token, want \in Wants : Open(r, t, want)) \/ LoadSession(r)
                                 \/ SetPreference(r)
  BY <1>1, <1>3 DEF Open, LoadSession, SetPreference, authVars, AuthTypes
<1>4. CASE \E r \in Request : ExpireSession(r) \/ LoadUser(r) \/ Logout(r)
  <2>1. sessions' = sessions \/ \E t : sessions' = [sessions EXCEPT ![t] = Gone]
    BY <1>4 DEF ExpireSession, LoadUser, Logout, DropSession, SetSession
  <2>2. QED
    BY <1>1, <2>1 DEF AuthTypes
<1>5. ASSUME NEW r \in Request, TouchSession(r)
      PROVE  AuthTypes'
  <2>1. ops[r].token \in Token
    BY <1>5, Stages DEF TouchSession, Visiting
  <2>2. sessions' \in [Token -> SessionRow \cup {None, Gone}]
    BY <1>2, <1>5, <2>1 DEF TouchSession, SetSession, AuthTypes
  <2>3. QED
    BY <1>1, <2>2 DEF AuthTypes
<1>6. ASSUME NEW r \in Request, SwitchRole(r)
      PROVE  AuthTypes'
  <2>1. ops[r].token \in Token /\ ops[r].want.role \in Role
    BY <1>6, Stages DEF SwitchRole, Switching
  <2>2. sessions' \in [Token -> SessionRow \cup {None, Gone}]
    BY <1>2, <1>6, <2>1 DEF SwitchRole, SetSession, AuthTypes
  <2>3. QED
    BY <1>1, <2>2 DEF AuthTypes
<1>7. CASE \E t \in Token : SessionIdles(t)
  BY <1>1, <1>2, <1>7 DEF SessionIdles, SetSession, AuthTypes
<1>8. CASE SweepSessions
  BY <1>1, <1>8 DEF SweepSessions, AuthTypes
<1>9. QED
  BY <1>3, <1>4, <1>5, <1>6, <1>7, <1>8 DEF Browsing

LEMMA AuthTypesHold ==
    ASSUME Types, Next
    PROVE  AuthTypes'
<1>1. CASE Units \/ Managers \/ CustomFields \/ Staff \/ Faces
  BY <1>1, UnitsFrame, ManagersFrame, CustomFieldsFrame, StaffFrame, FacesFrame
     DEF access, Types, AuthTypes
<1>2. CASE Leaving
  <2>1. failures' = failures \/ failures' = [u \in User |-> 0]
    BY <1>2 DEF Leaving, SubmitByAdmin, SubmitByHr, PdplDelete, BulkPurge, RemoveFiles, HrDecide,
                AdminOverride, Decide, WriteDecision, Erase, EraseRow, Redact, PurgeRow,
                ErasureFails, LifecycleCron, LifecycleScript, RunLifecycle, Deactivate, DayPasses, Crash,
                authVars
  <2>2. QED
    BY <1>2, <2>1, LeavingFrame DEF Types, AuthTypes
<1>3. CASE Operators
  <2>1. UNCHANGED <<sessions, failures>>
    BY <1>3 DEF Operators, OpenConsole, AdmitOperator, AccessAs, SetImpersonation, UpdateStatus,
                ConsoleLogout, ConsoleLogin, ConsoleIdles, tenant, authVars
  <2>2. QED
    BY <2>1 DEF Types, AuthTypes
<1>4. QED
  BY <1>1, <1>2, <1>3, SigningTypes, BrowsingTypes DEF Next

LEMMA OpTypesHold ==
    ASSUME Types, Next
    PROVE  OpTypes'
<1>1. CASE Units \/ CustomFields
  BY <1>1, UnitsFrame, CustomFieldsFrame DEF Types, OpTypes
<1>2. QED
  BY <1>1, FacesOps, LeavingOps, StaffOps, SigningOps, BrowsingOps, OperatorsOps DEF Next, OpsBecome

LEMMA TypesStutter ==
    ASSUME Types, UNCHANGED vars
    PROVE  Types'
  BY DEF vars, orgVars, faceVars, authVars, world, Types, OrgTypes, FaceTypes, AuthTypes, OpTypes

LEMMA TypesStep ==
    ASSUME Types, [Next]_vars
    PROVE  Types'
  BY OrgTypesHold, FaceTypesHold, AuthTypesHold, OpTypesHold, TypesStutter DEF Types

\* Whatever is asked of the tenant's services in whatever order, every row of
\* its tables and every request between two of its steps holds what the columns
\* and the code's local variables may hold.
THEOREM TypesHold == Spec => []Types
  BY TypesStart, TypesStep, PTL DEF Spec

(***************************************************************************)
(* What the rows refer to.                                                 *)
(***************************************************************************)
DepartmentsFit ==
    \A d \in Department : departments[d] # None =>
        Divided(d) = None \/ Exists(divisions, Divided(d))

SectionsFit ==
    \A s \in Section : sections[s] # None => Exists(departments, sections[s].dept)

EmployeesFit ==
    \A e \in Employee : Employed(e) =>
        /\ Exists(departments, employees[e].dept)
        /\ employees[e].section = None \/ Exists(sections, employees[e].section)

PostsFit == \A x \in posts : x[2] \in User /\ Exists(users, x[2])

PhotosFit == \A p \in Photo : Exists(photos, p) => Employed(photos[p].emp)

LeaversLeaveNothing ==
    \A e \in Employee : ~Employed(e) =>
        deletes[e] = <<>> /\ \A u \in User : assigned[e][u] = "none"

ValuesFit ==
    \A e \in Employee, f \in Field : values[e][f] # None => Employed(e) /\ Exists(fields, f)

(* A password that was right, or claims that match, are those of a user.   *)
SessionsFit ==
    /\ \A t \in Token : Exists(sessions, t) => Exists(users, sessions[t].user)
    /\ \A r \in Request : At(r, "session") => Exists(users, ops[r].user)

(* An attempt that has passed the limiter and not failed yet.              *)
Verifying(u) == {r \in Request : At(r, "verify") /\ ops[r].user = u}

FailuresFit ==
    \A u \in User :
        failures[u] + Cardinality(Verifying(u)) < MaxAttempts + Cardinality(Request)

References ==
    /\ DepartmentsFit /\ SectionsFit /\ EmployeesFit /\ PostsFit /\ PhotosFit
    /\ LeaversLeaveNothing /\ ValuesFit /\ SessionsFit /\ FailuresFit

LEMMA RowsThereAre ==
    ASSUME Types
    PROVE  /\ \A v \in Division : Exists(divisions, v) <=> divisions[v] # None
           /\ \A d \in Department : Exists(departments, d) <=> departments[d] # None
           /\ \A d \in Department : departments[d] # None => departments[d] \in DepartmentRow
           /\ \A s \in Section : Exists(sections, s) <=> sections[s] # None
           /\ \A s \in Section : sections[s] # None => sections[s] \in SectionRow
           /\ \A u \in User : Exists(users, u) <=> users[u] # None
           /\ \A e \in Employee : Employed(e) <=> employees[e] \in EmployeeRow
           /\ \A p \in Photo : Exists(photos, p) <=> photos[p] \in PhotoRow
           /\ \A t \in Token : Exists(sessions, t) <=> sessions[t] \in SessionRow
           /\ \A f \in Field : Exists(fields, f) <=> fields[f] \in SUBSET Option
<1>1. /\ \A v \in Division : Exists(divisions, v) <=> divisions[v] # None
      /\ \A u \in User : Exists(users, u) <=> users[u] # None
      /\ \A e \in Employee : Employed(e) <=> employees[e] \in EmployeeRow
      /\ \A f \in Field : Exists(fields, f) <=> fields[f] \in SUBSET Option
  BY NoneAssumption DEF Types, OrgTypes, Exists, Employed
<1>2. /\ \A d \in Department : Exists(departments, d) <=> departments[d] # None
      /\ \A d \in Department : departments[d] # None => departments[d] \in DepartmentRow
      /\ \A s \in Section : Exists(sections, s) <=> sections[s] # None
      /\ \A s \in Section : sections[s] # None => sections[s] \in SectionRow
  BY NoneAssumption DEF Types, OrgTypes, Exists
<1>3. /\ \A p \in Photo : Exists(photos, p) <=> photos[p] \in PhotoRow
      /\ \A t \in Token : Exists(sessions, t) <=> sessions[t] \in SessionRow
  BY NoneAssumption DEF Types, FaceTypes, AuthTypes, Exists
<1>4. QED
  BY <1>1, <1>2, <1>3

\* What a row of the import that goes through adds.
LEMMA ImportAdds ==
    ASSUME Types, NEW row \in Rows,
           divisions' = RowDivisions(row), departments' = RowDepartments(row),
           sections' = RowSections(row), users' = RowUsers(row)
    PROVE  /\ \A v \in Division : divisions[v] # None => divisions'[v] # None
           /\ row.division # None => divisions'[row.division] # None
           /\ departments'[row.dept] # None
           /\ \A d \in Department : departments[d] # None => departments'[d] # None
           /\ \A d \in Department : departments'[d] # None =>
                 \/ departments'[d].division \in {row.division, None}
                 \/ departments[d] # None /\ departments'[d].division = departments[d].division
           /\ \A s \in Section : sections[s] # None => sections'[s] = sections[s]
           /\ \A s \in Section : sections'[s] # None =>
                 sections[s] # None \/ sections'[s].dept = row.dept
           /\ row.section # None => sections'[row.section] # None
           /\ \A u \in User : users[u] # None => users'[u] # None
<1> USE RowsAssumption, NoneAssumption DEF Types, OrgTypes
<1>1. /\ \A v \in Division : divisions[v] # None => divisions'[v] # None
      /\ row.division # None => divisions'[row.division] # None
  BY DEF RowDivisions
<1>2. \A n, v : [name |-> n, division |-> v].division = v
  OBVIOUS
<1>3. /\ \A s \in Section : sections[s] # None => sections'[s] = sections[s]
      /\ \A s \in Section : sections'[s] # None => sections[s] # None \/ sections'[s].dept = row.dept
      /\ row.section # None => sections'[row.section] # None
  <2>1. [name |-> row.name, dept |-> row.dept] \in SectionRow
    BY DEF SectionRow
  <2>2. QED
    BY <2>1 DEF RowSections
<1>4. \A u \in User : users[u] # None => users'[u] # None
  BY DEF RowUsers
<1>5. /\ departments'[row.dept] # None
      /\ \A d \in Department : departments[d] # None => departments'[d] # None
      /\ \A d \in Department : departments'[d] # None =>
            \/ departments'[d].division \in {row.division, None}
            \/ departments[d] # None /\ departments'[d].division = departments[d].division
  <2> DEFINE made == IF departments[row.dept] = None
                     THEN [name |-> row.name, division |-> None] ELSE departments[row.dept]
             after == IF row.division = None THEN made ELSE [made EXCEPT !.division = row.division]
  <2>1. /\ made \in DepartmentRow
        /\ \/ made.division = None
           \/ departments[row.dept] # None /\ made = departments[row.dept]
    <3> HIDE RowsAssumption, NoneAssumption
    <3>1. row.dept \in Department /\ row.name \in Name
      BY RowsAssumption
    <3>2. CASE departments[row.dept] = None
      BY <3>1, <3>2 DEF DepartmentRow
    <3>3. CASE departments[row.dept] # None
      BY <3>1, <3>3 DEF DepartmentRow
    <3>4. QED
      BY <3>2, <3>3
  <2>2. departments' = [departments EXCEPT ![row.dept] = after]
    BY DEF RowDepartments
  <2> HIDE DEF made
  <2>3. /\ after \in DepartmentRow
        /\ \/ after.division \in {row.division, None}
           \/ departments[row.dept] # None /\ after.division = departments[row.dept].division
    BY <2>1 DEF DepartmentRow
  <2> HIDE DEF after
  <2>4. QED
    BY <2>2, <2>3
<1>6. QED
  BY <1>1, <1>3, <1>4, <1>5

\* How the rows of the employees and of their units change with the staff.
LEMMA StaffChanges ==
    ASSUME Types, Staff
    PROVE  \/ UNCHANGED <<divisions, departments, sections, users, values, employees>>
           \/ /\ UNCHANGED <<divisions, departments, sections, users, values>>
              /\ \E e \in Employee, row \in EmployeeRow :
                    /\ employees' = [employees EXCEPT ![e] = row]
                    /\ \/ Exists(departments, row.dept)
                       \/ Employed(e) /\ row.dept = employees[e].dept
                    /\ \/ row.section = None
                       \/ Exists(sections, row.section)
                       \/ Employed(e) /\ row.section = employees[e].section
           \/ \E r \in Request, row \in Rows :
                 /\ ops[r] \in Importing /\ ~RowFails(row, ops[r].defs)
                 /\ ~SectionIsElsewhere(row)
                 /\ divisions' = RowDivisions(row) /\ departments' = RowDepartments(row)
                 /\ sections' = RowSections(row) /\ users' = RowUsers(row)
                 /\ employees' = [employees EXCEPT ![row.emp] = RowEmployee(row)]
                 /\ values' = RowValues(row, ops[r].defs)
<1> USE DEF Types
<1>1. ASSUME NEW e \in Employee, NEW d \in Department, NEW s \in Section \cup {None},
             NEW last \in Day \cup {None}, NEW status \in {"active", "inactive"},
             CreateEmployee(e, d, s, status, last)
      PROVE  /\ UNCHANGED <<divisions, departments, sections, users, values>>
             /\ \E row \in EmployeeRow :
                   /\ employees' = [employees EXCEPT ![e] = row]
                   /\ Exists(departments, row.dept)
                   /\ \/ row.section = None
                      \/ Exists(sections, row.section) /\ sections[row.section].dept = row.dept
  <2> DEFINE row == [dept |-> d, section |-> s, status |-> status, last |-> last]
  <2>1. row \in EmployeeRow /\ row.dept = d /\ row.section = s
    BY DEF EmployeeRow
  <2>2. employees' = [employees EXCEPT ![e] = row] /\ Exists(departments, d) /\ SectionFits(s, d)
        /\ UNCHANGED orgVars
    BY <1>1 DEF CreateEmployee
  <2> HIDE DEF row
  <2>3. QED
    BY <2>1, <2>2 DEF SectionFits, orgVars
<1>2. ASSUME NEW r \in Request, WritePatch(r)
      PROVE  \/ UNCHANGED <<divisions, departments, sections, users, values, employees>>
             \/ /\ UNCHANGED <<divisions, departments, sections, users, values>>
                /\ \E e \in Employee, row \in EmployeeRow :
                   /\ employees' = [employees EXCEPT ![e] = row]
                   /\ Exists(departments, row.dept) \/ row.dept = employees[e].dept
                   /\ \/ row.section = None
                      \/ Exists(sections, row.section)
                      \/ row.section = employees[e].section
                   /\ Employed(e)
  <2> DEFINE o == ops[r]
             row == Patched(o.change, employees[o.emp])
  <2>1. UNCHANGED <<divisions, departments, sections, users, values>> /\ o.emp \in Employee
    BY <1>2, PatchWrites DEF orgVars
  <2>2. CASE employees' = employees
    BY <2>1, <2>2
  <2>3. CASE employees' # employees
    <3>1. /\ Employed(o.emp) /\ ChangeRefers(o) /\ employees[o.emp] \in EmployeeRow
          /\ row \in EmployeeRow /\ employees' = [employees EXCEPT ![o.emp] = row]
      BY <1>2, <2>3, PatchWrites
    <3>2. Exists(departments, row.dept) \/ row.dept = employees[o.emp].dept
      BY <3>1 DEF ChangeRefers, Patched, EmployeeRow
    <3>3. \/ row.section = None
          \/ Exists(sections, row.section)
          \/ row.section = employees[o.emp].section
      BY <3>1 DEF ChangeRefers, SectionFits, Patched, EmployeeRow
    <3> HIDE DEF row, o
    <3>4. QED
      BY <2>1, <3>1, <3>2, <3>3
  <2>4. QED
    BY <2>2, <2>3
<1>7. ASSUME NEW r \in Request, NEW e \in Employee, NEW change \in Changes,
             PatchEmployee(r, e, change)
      PROVE  UNCHANGED <<divisions, departments, sections, users, values, employees>>
  BY <1>7 DEF PatchEmployee, orgVars
<1>3. ASSUME NEW e \in Employee, SoftDelete(e) \/ BulkSoftDelete(e)
      PROVE  /\ UNCHANGED <<divisions, departments, sections, users, values>>
             /\ \E row \in EmployeeRow :
                   /\ employees' = [employees EXCEPT ![e] = row]
                   /\ row.dept = employees[e].dept /\ row.section = employees[e].section
             /\ Employed(e)
  <2> DEFINE row == [employees[e] EXCEPT !.status = "inactive"]
  <2>1. Employed(e) /\ employees[e] \in EmployeeRow
    BY <1>3 DEF SoftDelete, BulkSoftDelete, OrgTypes, Employed, Exists
  <2>2. row \in EmployeeRow /\ row.dept = employees[e].dept /\ row.section = employees[e].section
    BY <2>1 DEF EmployeeRow
  <2>3. employees' = [employees EXCEPT ![e] = row] /\ UNCHANGED orgVars
    BY <1>3, <2>1 DEF SoftDelete, BulkSoftDelete, OrgTypes
  <2> HIDE DEF row
  <2>4. QED
    BY <2>1, <2>2, <2>3 DEF orgVars
<1>4. ASSUME NEW r \in Request, StartImport(r) \/ EndImport(r)
      PROVE  UNCHANGED <<divisions, departments, sections, users, values, employees>>
  BY <1>4 DEF StartImport, EndImport, orgVars
<1>5. ASSUME NEW r \in Request, NEW row \in Rows, ImportRow(r, row)
      PROVE  \/ UNCHANGED <<divisions, departments, sections, users, values, employees>>
             \/ /\ ops[r] \in Importing /\ ~RowFails(row, ops[r].defs)
                /\ ~SectionIsElsewhere(row)
                /\ divisions' = RowDivisions(row) /\ departments' = RowDepartments(row)
                /\ sections' = RowSections(row) /\ users' = RowUsers(row)
                /\ employees' = [employees EXCEPT ![row.emp] = RowEmployee(row)]
                /\ values' = RowValues(row, ops[r].defs)
  <2>1. ops[r] \in Importing
    BY <1>5, Stages DEF ImportRow, Uploading
  <2>2. QED
    BY <1>5, <2>1 DEF ImportRow, units
<1>6. QED
  BY <1>1, <1>2, <1>3, <1>4, <1>5, <1>7 DEF Staff

LEMMA DepartmentsFitHolds ==
    ASSUME Types, DepartmentsFit, Next
    PROVE  DepartmentsFit'
<1> USE DEF DepartmentsFit
<1>1. CASE Managers \/ CustomFields \/ Faces \/ Leaving \/ SigningIn \/ Browsing \/ Operators
  <2>1. UNCHANGED <<divisions, departments>>
    BY <1>1, ManagersFrame, CustomFieldsFrame, FacesFrame, LeavingFrame, DeskFrame
  <2>2. QED
    BY <2>1 DEF Divided, Exists
<1>2. CASE Staff
  <2>1. CASE UNCHANGED <<divisions, departments>>
    BY <2>1 DEF Divided, Exists
  <2>2. ASSUME NEW row \in Rows,
               divisions' = RowDivisions(row), departments' = RowDepartments(row),
               sections' = RowSections(row), users' = RowUsers(row)
        PROVE  DepartmentsFit'
    <3>1. SUFFICES ASSUME NEW d \in Department, departments'[d] # None,
                          departments'[d].division # None
                   PROVE  Exists(divisions, departments[d].division)'
      BY DEF Divided
    <3>2. /\ \A v \in Division : divisions[v] # None => divisions'[v] # None
          /\ row.division # None => divisions'[row.division] # None
          /\ \/ departments'[d].division = row.division
             \/ departments[d] # None /\ departments'[d].division = departments[d].division
      BY <2>2, <3>1, ImportAdds
    <3>3. Types' /\ row.division \in Division \cup {None}
      BY TypesStep, RowsAssumption
    <3>4. \A v \in Division : divisions'[v] # None => Exists(divisions, v)'
      BY <3>3, NoneAssumption DEF Types, OrgTypes, Exists
    <3>5. CASE departments'[d].division = row.division
      BY <3>1, <3>2, <3>3, <3>4, <3>5
    <3>6. CASE departments[d] # None /\ departments'[d].division = departments[d].division
      <4>1. departments[d].division \in Division
        BY <3>1, <3>6, RowsThereAre DEF DepartmentRow
      <4>2. divisions[departments[d].division] # None
        BY <3>1, <3>6 DEF Divided, Exists
      <4>3. QED
        BY <3>2, <3>4, <3>6, <4>1, <4>2
    <3>7. QED
      BY <3>2, <3>5, <3>6
  <2>3. QED
    BY <1>2, <2>1, <2>2, StaffChanges
<1>3. CASE Units
  <2>1. ASSUME NEW d \in Department, NEW n \in Name, NEW v \in Division \cup {None},
               departments' = [departments EXCEPT ![d] = [name |-> n, division |-> v]],
               v = None \/ Exists(divisions, v), divisions' = divisions
        PROVE  DepartmentsFit'
    BY <2>1 DEF Types, OrgTypes, Divided, Exists
  <2>2. ASSUME NEW d \in Department, NEW n \in Name, ImportDepartment(d, n)
        PROVE  DepartmentsFit'
    <3>1. departments[d] # None => departments[d] \in DepartmentRow
      BY RowsThereAre
    <3>2. CASE departments[d] = None
      BY <2>2, <3>2 DEF ImportDepartment, Types, OrgTypes, Divided, Exists
    <3>3. CASE departments[d] # None
      BY <2>2, <3>1, <3>3 DEF ImportDepartment, Types, OrgTypes, DepartmentRow, Divided, Exists
    <3>4. QED
      BY <3>2, <3>3
  <2>3. ASSUME NEW v \in Division, NEW n \in Name,
               divisions' = [divisions EXCEPT ![v] = n], departments' = departments
        PROVE  DepartmentsFit'
    BY <2>3, NoneAssumption DEF Types, OrgTypes, Divided, Exists
  <2>4. ASSUME NEW v \in Division, DeleteDivision(v)
        PROVE  DepartmentsFit'
    BY <2>4 DEF DeleteDivision, Types, OrgTypes, Divided, Exists
  <2>5. ASSUME NEW d \in Department, DeleteDepartment(d)
        PROVE  DepartmentsFit'
    BY <2>5 DEF DeleteDepartment, Types, OrgTypes, Divided, Exists
  <2>6. CASE \E s \in Section :
                \/ \E n \in Name, d \in Department : CreateSection(s, n, d)
                \/ \E n \in Name : PatchSection(s, n)
                \/ DeleteSection(s)
    BY <2>6 DEF CreateSection, PatchSection, DeleteSection, Divided, Exists
  <2>7. QED
    BY <1>3, <2>1, <2>2, <2>3, <2>4, <2>5, <2>6
       DEF Units, CreateDivision, PatchDivision, CreateDepartment, PatchDepartment
<1>4. QED
  BY <1>1, <1>2, <1>3 DEF Next

\* Departments only go when no section and no employee refers to them; what the
\* units of a tenant are is otherwise only added to.
LEMMA UnitsKeep ==
    ASSUME Types, Units
    PROVE  /\ \A d \in Department : Exists(departments, d) =>
                 \/ Exists(departments, d)'
                 \/ /\ ReferTo("dept", d) = {}
                    /\ \A s \in Section : sections[s] # None => sections[s].dept # d
                    /\ sections' = sections
           /\ \A s \in Section : Exists(sections, s) =>
                 \/ Exists(sections, s)' /\ sections'[s].dept = sections[s].dept
                 \/ ReferTo("section", s) = {} /\ sections'[s] = None
           /\ \A s \in Section : sections'[s] # None =>
                 \/ sections[s] # None /\ sections'[s].dept = sections[s].dept
                 \/ Exists(departments, sections'[s].dept) /\ departments' = departments
<1> USE NoneAssumption DEF Types, OrgTypes, Exists
<1>1. CASE \/ \E v \in Division :
                \/ \E n \in Name : CreateDivision(v, n) \/ PatchDivision(v, n)
                \/ DeleteDivision(v)
  BY <1>1 DEF CreateDivision, PatchDivision, DeleteDivision
<1>2. ASSUME NEW d \in Department, NEW row \in DepartmentRow,
             departments' = [departments EXCEPT ![d] = row], sections' = sections
      PROVE  /\ \A x \in Department : Exists(departments, x) => Exists(departments, x)'
             /\ sections' = sections
  BY <1>2
<1>3. ASSUME NEW d \in Department, NEW n \in Name, NEW v \in Division \cup {None},
             CreateDepartment(d, n, v) \/ PatchDepartment(d, n, v) \/ ImportDepartment(d, n)
      PROVE  /\ \A x \in Department : Exists(departments, x) => Exists(departments, x)'
             /\ sections' = sections
  <2>1. /\ [name |-> n, division |-> v] \in DepartmentRow
        /\ [name |-> n, division |-> None] \in DepartmentRow
        /\ departments[d] # None => [departments[d] EXCEPT !.name = n] \in DepartmentRow
    <3>1. /\ [name |-> n, division |-> v] \in DepartmentRow
          /\ [name |-> n, division |-> None] \in DepartmentRow
      BY DEF DepartmentRow
    <3>2. departments[d] # None => departments[d] \in DepartmentRow
      OBVIOUS
    <3>3. departments[d] # None => [departments[d] EXCEPT !.name = n] \in DepartmentRow
      BY <3>2 DEF DepartmentRow
    <3>4. QED
      BY <3>1, <3>3
  <2>2. \E row \in DepartmentRow : departments' = [departments EXCEPT ![d] = row]
    BY <1>3, <2>1 DEF CreateDepartment, PatchDepartment, ImportDepartment
  <2>3. sections' = sections
    BY <1>3 DEF CreateDepartment, PatchDepartment, ImportDepartment
  <2>4. QED
    BY <1>2, <2>2, <2>3
<1>4. CASE \E d \in Department : DeleteDepartment(d)
  BY <1>4 DEF DeleteDepartment
<1>5. ASSUME NEW s \in Section, NEW n \in Name, NEW d \in Department, CreateSection(s, n, d)
      PROVE  /\ departments' = departments /\ Exists(departments, d) /\ sections[s] = None
             /\ \A x \in Section : x # s => sections'[x] = sections[x]
             /\ sections'[s].dept = d
  BY <1>5 DEF CreateSection
<1>6. ASSUME NEW s \in Section, NEW n \in Name, PatchSection(s, n)
      PROVE  /\ departments' = departments
             /\ \A x \in Section : x # s => sections'[x] = sections[x]
             /\ sections[s] # None /\ sections'[s] \in SectionRow
             /\ sections'[s].dept = sections[s].dept
  BY <1>6 DEF PatchSection, SectionRow
<1>7. ASSUME NEW s \in Section, DeleteSection(s)
      PROVE  /\ departments' = departments
             /\ \A x \in Section : x # s => sections'[x] = sections[x]
             /\ sections'[s] = None /\ ReferTo("section", s) = {}
  BY <1>7 DEF DeleteSection
<1>8. QED
  BY <1>1, <1>3, <1>4, <1>5, <1>6, <1>7 DEF Units

LEMMA SectionsFitHolds ==
    ASSUME Types, SectionsFit, Next
    PROVE  SectionsFit'
<1> USE DEF SectionsFit
<1>1. CASE Managers \/ CustomFields \/ Faces \/ Leaving \/ SigningIn \/ Browsing \/ Operators
  <2>1. UNCHANGED <<sections, departments>>
    BY <1>1, ManagersFrame, CustomFieldsFrame, FacesFrame, LeavingFrame, DeskFrame
  <2>2. QED
    BY <2>1 DEF Exists
<1>2. CASE Staff
  <2>1. CASE UNCHANGED <<sections, departments>>
    BY <2>1 DEF Exists
  <2>2. ASSUME NEW row \in Rows,
               divisions' = RowDivisions(row), departments' = RowDepartments(row),
               sections' = RowSections(row), users' = RowUsers(row)
        PROVE  SectionsFit'
    <3>1. SUFFICES ASSUME NEW s \in Section, sections'[s] # None
                   PROVE  Exists(departments, sections[s].dept)'
      OBVIOUS
    <3>2. /\ departments'[row.dept] # None
          /\ \A d \in Department : departments[d] # None => departments'[d] # None
          /\ \/ sections[s] # None /\ sections'[s] = sections[s]
             \/ sections'[s].dept = row.dept
      BY <2>2, <3>1, ImportAdds
    <3>3. \A d \in Department : departments'[d] # None => Exists(departments, d)'
      BY TypesStep, NoneAssumption DEF Types, OrgTypes, Exists
    <3>4. CASE sections'[s].dept = row.dept
      BY <3>2, <3>3, <3>4, RowsAssumption
    <3>5. CASE sections[s] # None /\ sections'[s] = sections[s]
      <4>1. sections[s].dept \in Department
        BY <3>5, RowsThereAre DEF SectionRow
      <4>2. QED
        BY <3>2, <3>3, <3>5, <4>1 DEF Exists
    <3>6. QED
      BY <3>2, <3>4, <3>5
  <2>3. QED
    BY <1>2, <2>1, <2>2, StaffChanges
<1>3. CASE Units
  <2>1. SUFFICES ASSUME NEW s \in Section, sections'[s] # None
                 PROVE  Exists(departments, sections[s].dept)'
    OBVIOUS
  <2>2. CASE sections[s] # None /\ sections'[s].dept = sections[s].dept
    <3>1. sections[s].dept \in Department /\ Exists(departments, sections[s].dept)
      BY <2>2, RowsThereAre DEF SectionRow
    <3>2. QED
      BY <1>3, <2>2, <3>1, UnitsKeep
  <2>3. CASE Exists(departments, sections'[s].dept) /\ departments' = departments
    BY <2>3 DEF Exists
  <2>4. QED
    BY <1>3, <2>1, <2>2, <2>3, UnitsKeep
<1>4. QED
  BY <1>1, <1>2, <1>3 DEF Next

\* Who leaves takes the row along; nobody else is moved.
LEMMA LeavingKeeps ==
    ASSUME Types, Leaving, NEW e \in Employee
    PROVE  \/ employees'[e] = employees[e]
           \/ employees'[e] = Gone
           \/ /\ Employed(e) /\ employees'[e] \in EmployeeRow
              /\ employees'[e].dept = employees[e].dept
              /\ employees'[e].section = employees[e].section
<1> USE DEF Types, OrgTypes
<1>1. CASE employees' = employees
  BY <1>1
<1>2. CASE \E r \in Request : EraseRow(r) \/ PurgeRow(r)
  BY <1>2 DEF EraseRow, PurgeRow, DeleteEmployeeRow
<1>3. Employed(e) => \A status \in {"inactive", "deleted"} :
        /\ [employees[e] EXCEPT !.status = status] \in EmployeeRow
        /\ [employees[e] EXCEPT !.status = status].dept = employees[e].dept
        /\ [employees[e] EXCEPT !.status = status].section = employees[e].section
  BY DEF Employed, Exists, EmployeeRow
<1>4. CASE \E r \in Request : Redact(r)
  <2>1. PICK x \in Employee :
          \/ employees' = employees
          \/ Employed(x) /\ employees' = [employees EXCEPT ![x] = [employees[x] EXCEPT !.status = "deleted"]]
    <3>1. PICK r \in Request : Redact(r)
      BY <1>4
    <3>2. ops[r].emp \in Employee
      BY <3>1, Stages DEF Redact, Purging
    <3>3. QED
      BY <3>1, <3>2 DEF Redact
  <2>2. QED
    BY <1>3, <2>1
<1>5. CASE \E r \in Request : Deactivate(r)
  <2>1. \/ employees'[e] = employees[e]
        \/ Employed(e) /\ employees'[e] = [employees[e] EXCEPT !.status = "inactive"]
    BY <1>5 DEF Deactivate
  <2>2. QED
    BY <1>3, <2>1
<1>6. QED
  BY <1>1, <1>2, <1>4, <1>5 DEF Leaving, SubmitByAdmin, SubmitByHr, PdplDelete, BulkPurge, RemoveFiles,
     HrDecide, AdminOverride, Decide, WriteDecision, Erase, ErasureFails, LifecycleCron,
     LifecycleScript, RunLifecycle, DayPasses, Crash

LEMMA StaffKeeps ==
    ASSUME Types, Staff
    PROVE  /\ \A e \in Employee : Employed(e) => Employed(e)'
           /\ \A d \in Department : Exists(departments, d) => Exists(departments, d)'
           /\ \A s \in Section : Exists(sections, s) =>
                 Exists(sections, s)' /\ sections'[s] = sections[s]
           /\ \A u \in User : Exists(users, u) => Exists(users, u)'
<1> USE DEF Types
<1>1. Types'
  BY TypesStep DEF Next
<1>2. /\ \A d \in Department : Exists(departments, d)' <=> departments'[d] # None
      /\ \A s \in Section : Exists(sections, s)' <=> sections'[s] # None
      /\ \A u \in User : Exists(users, u)' <=> users'[u] # None
  BY <1>1, NoneAssumption DEF OrgTypes, Exists
<1>3. \A e \in Employee : Employed(e)' <=> employees'[e] \in EmployeeRow
  BY <1>1, NoneAssumption DEF OrgTypes, Employed, Exists
<1>4. CASE UNCHANGED <<divisions, departments, sections, users, values, employees>>
  BY <1>4 DEF Employed, Exists
<1>5. ASSUME UNCHANGED <<departments, sections, users>>,
             NEW e \in Employee, NEW row \in EmployeeRow, employees' = [employees EXCEPT ![e] = row]
      PROVE  /\ \A x \in Employee : Employed(x) => Employed(x)'
             /\ UNCHANGED <<departments, sections, users>>
  BY <1>3, <1>5, RowsThereAre DEF OrgTypes
<1>6. ASSUME NEW row \in Rows, NEW r \in Request,
             divisions' = RowDivisions(row), departments' = RowDepartments(row),
             sections' = RowSections(row), users' = RowUsers(row),
             employees' = [employees EXCEPT ![row.emp] = RowEmployee(row)]
      PROVE  /\ \A e \in Employee : Employed(e) => Employed(e)'
             /\ \A d \in Department : departments[d] # None => departments'[d] # None
             /\ \A s \in Section : sections[s] # None => sections'[s] = sections[s]
             /\ \A u \in User : users[u] # None => users'[u] # None
  <2>1. RowEmployee(row) \in EmployeeRow
    BY RowsAssumption DEF RowEmployee, EmployeeRow
  <2>2. \A e \in Employee : Employed(e) => Employed(e)'
    BY <1>3, <1>6, <2>1, RowsAssumption, RowsThereAre DEF OrgTypes
  <2>3. QED
    BY <1>6, <2>2, ImportAdds
<1>7. CASE \E r \in Request, row \in Rows :
                 /\ divisions' = RowDivisions(row) /\ departments' = RowDepartments(row)
                 /\ sections' = RowSections(row) /\ users' = RowUsers(row)
                 /\ employees' = [employees EXCEPT ![row.emp] = RowEmployee(row)]
  BY <1>2, <1>6, <1>7, RowsThereAre
<1>8. CASE UNCHANGED <<departments, sections, users>>
           /\ \E e \in Employee, row \in EmployeeRow : employees' = [employees EXCEPT ![e] = row]
  <2>1. \A x \in Employee : Employed(x) => Employed(x)'
    BY <1>5, <1>8
  <2>2. QED
    BY <1>8, <2>1 DEF Exists
<1>9. QED
  BY <1>4, <1>7, <1>8, StaffChanges

LEMMA EmployeesFitHolds ==
    ASSUME Types, EmployeesFit, Next
    PROVE  EmployeesFit'
<1> USE DEF EmployeesFit
<1>1. CASE Managers \/ CustomFields \/ Faces \/ SigningIn \/ Browsing \/ Operators
  <2>1. UNCHANGED <<employees, sections, departments>>
    BY <1>1, ManagersFrame, CustomFieldsFrame, FacesFrame, DeskFrame
  <2>2. QED
    BY <2>1 DEF Exists, Employed
<1>2. CASE Units
  <2>1. SUFFICES ASSUME NEW e \in Employee, Employed(e)
                 PROVE  /\ Exists(departments, employees[e].dept)'
                        /\ employees[e].section = None \/ Exists(sections, employees[e].section)'
    BY <1>2, UnitsFrame DEF Employed, Exists
  <2>2. employees[e] \in EmployeeRow
    BY <2>1, RowsThereAre
  <2>3. employees' = employees
    BY <1>2, UnitsFrame
  <2>4. /\ employees[e].dept \in Department /\ e \in ReferTo("dept", employees[e].dept)
        /\ employees[e].section # None =>
             employees[e].section \in Section /\ e \in ReferTo("section", employees[e].section)
    BY <2>1, <2>2 DEF ReferTo, EmployeeRow
  <2>5. Exists(departments, employees[e].dept)'
    BY <1>2, <2>1, <2>3, <2>4, UnitsKeep
  <2>6. employees[e].section = None \/ Exists(sections, employees[e].section)'
    BY <1>2, <2>1, <2>3, <2>4, UnitsKeep
  <2>7. QED
    BY <2>5, <2>6
<1>3. CASE Leaving
  <2>1. SUFFICES ASSUME NEW e \in Employee, Employed(e)'
                 PROVE  /\ Exists(departments, employees'[e].dept)
                        /\ employees'[e].section = None \/ Exists(sections, employees'[e].section)
    BY <1>3, LeavingFrame DEF Exists
  <2>2. employees'[e] # Gone
    BY <2>1 DEF Employed, Exists
  <2>3. CASE employees'[e] = employees[e]
    BY <2>1, <2>3 DEF Employed, Exists
  <2>4. QED
    BY <1>3, <2>2, <2>3, LeavingKeeps
<1>4. CASE Staff
  <2>1. SUFFICES ASSUME NEW e \in Employee, Employed(e)'
                 PROVE  /\ Exists(departments, employees[e].dept)'
                        /\ employees'[e].section = None \/ Exists(sections, employees[e].section)'
    OBVIOUS
  <2>2. /\ \A d \in Department : Exists(departments, d) => Exists(departments, d)'
        /\ \A s \in Section : Exists(sections, s) => Exists(sections, s)'
    BY <1>4, StaffKeeps
  <2>3. employees'[e] = employees[e] =>
          /\ Employed(e)
          /\ employees[e].dept \in Department /\ employees[e].section \in Section \cup {None}
          /\ Exists(departments, employees[e].dept)
          /\ employees[e].section = None \/ Exists(sections, employees[e].section)
    <3>1. employees'[e] = employees[e] => Employed(e)
      BY <2>1 DEF Employed, Exists
    <3>2. Employed(e) => employees[e] \in EmployeeRow
      BY RowsThereAre
    <3>3. QED
      BY <3>1, <3>2 DEF EmployeeRow
  <2>4. CASE employees'[e] = employees[e]
    BY <2>2, <2>3, <2>4
  <2>5. ASSUME NEW x \in Employee, NEW row \in EmployeeRow,
               employees' = [employees EXCEPT ![x] = row],
               \/ Exists(departments, row.dept)
               \/ Employed(x) /\ row.dept = employees[x].dept,
               \/ row.section = None
               \/ Exists(sections, row.section)
               \/ Employed(x) /\ row.section = employees[x].section
        PROVE  /\ Exists(departments, employees[e].dept)'
               /\ employees'[e].section = None \/ Exists(sections, employees[e].section)'
    <3>1. CASE e # x
      BY <2>4, <2>5, <3>1 DEF Types, OrgTypes
    <3>2. CASE e = x
      <4>1. employees'[e] = row
        BY <2>5, <3>2 DEF Types, OrgTypes
      <4>2. row.dept \in Department /\ row.section \in Section \cup {None}
        BY DEF EmployeeRow
      <4>3. /\ Exists(departments, row.dept)
            /\ row.section = None \/ Exists(sections, row.section)
        BY <2>5
      <4>4. QED
        BY <2>2, <4>1, <4>2, <4>3
    <3>3. QED
      BY <3>1, <3>2
  <2>6. ASSUME NEW row \in Rows,
               divisions' = RowDivisions(row), departments' = RowDepartments(row),
               sections' = RowSections(row), users' = RowUsers(row),
               employees' = [employees EXCEPT ![row.emp] = RowEmployee(row)]
        PROVE  /\ Exists(departments, employees[e].dept)'
               /\ employees'[e].section = None \/ Exists(sections, employees[e].section)'
    <3>1. CASE e # row.emp
      BY <2>4, <2>6, <3>1 DEF Types, OrgTypes
    <3>2. CASE e = row.emp
      <4>1. employees'[e].dept = row.dept /\ employees'[e].section = row.section
        BY <2>6, <3>2 DEF Types, OrgTypes, RowEmployee
      <4>2. departments'[row.dept] # None /\ (row.section # None => sections'[row.section] # None)
        BY <2>6, ImportAdds
      <4>3. Types' /\ row.dept \in Department /\ row.section \in Section \cup {None}
        BY TypesStep, RowsAssumption
      <4>4. QED
        BY <4>1, <4>2, <4>3, NoneAssumption DEF Types, OrgTypes, Exists
    <3>3. QED
      BY <3>1, <3>2
  <2>7. CASE \E x \in Employee, row \in EmployeeRow :
               /\ employees' = [employees EXCEPT ![x] = row]
               /\ \/ Exists(departments, row.dept)
                  \/ Employed(x) /\ row.dept = employees[x].dept
               /\ \/ row.section = None
                  \/ Exists(sections, row.section)
                  \/ Employed(x) /\ row.section = employees[x].section
    BY <2>5, <2>7
  <2>8. QED
    BY <1>4, <2>4, <2>6, <2>7, StaffChanges
<1>5. QED
  BY <1>1, <1>2, <1>3, <1>4 DEF Next

LEMMA PostsFitHolds ==
    ASSUME Types, PostsFit, Next
    PROVE  PostsFit'
<1> USE DEF PostsFit
<1>1. CASE CustomFields \/ Faces \/ Leaving \/ SigningIn \/ Browsing \/ Operators
  <2>1. UNCHANGED <<posts, users>>
    BY <1>1, CustomFieldsFrame, FacesFrame, LeavingFrame, DeskFrame
  <2>2. QED
    BY <2>1 DEF Exists
<1>2. CASE Units
  <2>1. users' = users /\ posts' \subseteq posts
    BY <1>2, UnitsFrame DEF Units, CreateDivision, PatchDivision, DeleteDivision,
       CreateDepartment, PatchDepartment, ImportDepartment, DeleteDepartment, CreateSection,
       PatchSection, DeleteSection
  <2>2. QED
    BY <2>1 DEF Exists
<1>3. CASE Staff
  BY <1>3, StaffKeeps, StaffFrame
<1>4. CASE Managers
  <2>1. ASSUME NEW unit, NEW u \in User, Post(unit, u) \/ Unpost(unit, u)
        PROVE  PostsFit'
    <3>1. CASE Post(unit, u)
      <4>1. users[u] # None /\ posts' = posts \cup {<<unit, u>>} /\ users' = users
        BY <3>1 DEF Post, MayManage
      <4>2. Exists(users, u)
        BY <4>1, RowsThereAre
      <4>3. QED
        BY <4>1, <4>2 DEF Exists
    <3>2. CASE Unpost(unit, u)
      BY <3>2 DEF Unpost, Exists
    <3>3. QED
      BY <2>1, <3>1, <3>2
  <2>2. ASSUME NEW u \in User, NEW roles \in Rosters, NEW active \in BOOLEAN,
               CreateUser(u, roles) \/ PatchUser(u, roles, active)
        PROVE  PostsFit'
    <3>1. \A on \in BOOLEAN : [roles |-> roles, active |-> on] \in UserRow
      BY RostersAssumption DEF UserRow
    <3>2. /\ posts' = posts
          /\ \E on \in BOOLEAN : users' = [users EXCEPT ![u] = [roles |-> roles, active |-> on]]
      BY <2>2 DEF CreateUser, PatchUser
    <3>3. \A y \in User : Exists(users, y) => Exists(users, y)'
      BY <3>1, <3>2, NoneAssumption DEF Exists, Types, OrgTypes
    <3>4. QED
      BY <3>2, <3>3
  <2>3. CASE \/ \E u \in User, e \in Employee : DeleteAssignment(e, u)
             \/ \E r \in Request :
                   \/ \E e \in Employee, u \in User, primary \in BOOLEAN :
                         CheckAssignment(r, e, u, primary)
                   \/ WriteAssignment(r)
    BY <2>3 DEF DeleteAssignment, CheckAssignment, WriteAssignment, orgVars, Exists
  <2>4. QED
    BY <1>4, <2>1, <2>2, <2>3
       DEF Managers, AssignDivisionManager, RemoveDivisionManager, AssignDepartmentManager,
           RemoveDepartmentManager, AssignSectionManager, RemoveSectionManager
<1>5. QED
  BY <1>1, <1>2, <1>3, <1>4 DEF Next

\* A photo stays the photo of the same employee.
LEMMA FacesKeepPhotos ==
    ASSUME Types, Faces, NEW p \in Photo, Exists(photos, p)'
    PROVE  \/ Exists(photos, p) /\ photos'[p].emp = photos[p].emp
           \/ \E r \in Request :
                 /\ InsertPhotoRow(r) /\ Employed(ops[r].emp) /\ ops[r].photo = p
                 /\ photos'[p].emp = ops[r].emp
<1> USE DEF Types, FaceTypes
<1>1. photos'[p] \notin {None, Gone} /\ p # None
  BY DEF Exists
<1>2. CASE photos'[p] = photos[p]
  BY <1>1, <1>2 DEF Exists
<1>3. Exists(photos, p) =>
         /\ \A b \in BOOLEAN : [photos[p] EXCEPT !.embedded = b].emp = photos[p].emp
         /\ [photos[p] EXCEPT !.status = "approved"].emp = photos[p].emp
  BY DEF Exists, PhotoRow
<1>4. ASSUME NEW r \in Request, ReembedAll(r) \/ StoreEmbedding(r) \/ WriteApproval(r)
      PROVE  Exists(photos, p) /\ photos'[p].emp = photos[p].emp
  <2>1. \/ photos'[p] = photos[p]
        \/ /\ Exists(photos, p)
           /\ \/ \E b \in BOOLEAN : photos'[p] = [photos[p] EXCEPT !.embedded = b]
              \/ photos'[p] = [photos[p] EXCEPT !.status = "approved"]
    BY <1>4 DEF ReembedAll, StoreEmbedding, WriteApproval
  <2>2. QED
    BY <1>1, <1>3, <2>1 DEF Exists
<1>5. ASSUME NEW r \in Request, InsertPhotoRow(r)
      PROVE  \/ photos'[p] = photos[p]
             \/ Employed(ops[r].emp) /\ ops[r].photo = p /\ photos'[p].emp = ops[r].emp
  BY <1>5 DEF InsertPhotoRow
<1>6. ASSUME NEW r \in Request, DeleteRowAndFile(r)
      PROVE  photos'[p] = photos[p]
  BY <1>1, <1>6 DEF DeleteRowAndFile
<1>7. CASE photos' = photos
  BY <1>2, <1>7
<1>8. CASE \/ Match
           \/ \E r \in Request :
                \/ \E e \in Employee, x \in Photo :
                      UploadMyPhoto(r, e, x) \/ UploadPhotos(r, e, x) \/ BulkIngest(r, e, x)
                \/ \E x \in Photo :
                      ApprovePhoto(r, x) \/ RejectPhoto(r, x) \/ DeleteMyPhoto(r, x) \/ DeletePhoto(r, x)
                \/ EnrollMissing(r) \/ ListMissing(r) \/ EnrollPhoto(r) \/ Forget(r) \/ ForgetAll(r)
  BY <1>7, <1>8
     DEF Match, UploadMyPhoto, UploadPhotos, BulkIngest, Upload, ApprovePhoto, RejectPhoto,
         ReadPending, DeleteMyPhoto, DeletePhoto, Remove, EnrollMissing, ListMissing,
         EnrollPhoto, Forget, ForgetAll, faceVars
<1>9. QED
  BY <1>2, <1>4, <1>5, <1>6, <1>8 DEF Faces

\* Who leaves takes along the photos, and nobody else's.
LEMMA LeavingKeepsPhotos ==
    ASSUME Types, Leaving, NEW p \in Photo
    PROVE  \/ photos'[p] = Gone
           \/ /\ photos'[p] = photos[p]
              /\ \A e \in Employee : employees'[e] = Gone =>
                    employees[e] = Gone \/ ~Exists(photos, p) \/ photos[p].emp # e
<1> USE DEF Types, FaceTypes, OrgTypes
<1>1. CASE UNCHANGED <<photos, employees>>
  BY <1>1
<1>2. ASSUME NEW e, DeleteEmployeeRow(e)
      PROVE  \/ photos'[p] = Gone
             \/ /\ photos'[p] = photos[p]
                /\ \A x \in Employee : employees'[x] = Gone =>
                      employees[x] = Gone \/ ~Exists(photos, p) \/ photos[p].emp # x
  BY <1>2 DEF DeleteEmployeeRow, PhotosWithout, PhotosOf
<1>3. \A e \in Employee, status \in {"inactive", "deleted"} :
        Employed(e) => [employees[e] EXCEPT !.status = status] # Gone
  BY NoneAssumption DEF Employed, Exists, EmployeeRow
<1>4. ASSUME NEW r \in Request, Redact(r)
      PROVE  /\ photos'[p] \in {photos[p], Gone}
             /\ \A x \in Employee : employees'[x] = Gone => employees[x] = Gone
  BY <1>3, <1>4 DEF Redact, PhotosWithout
<1>5. ASSUME NEW r \in Request, Deactivate(r)
      PROVE  /\ photos' = photos
             /\ \A x \in Employee : employees'[x] = Gone => employees[x] = Gone
  BY <1>3, <1>5 DEF Deactivate
<1>6. QED
  BY <1>1, <1>2, <1>4, <1>5
     DEF Leaving, SubmitByAdmin, SubmitByHr, PdplDelete, BulkPurge, RemoveFiles, HrDecide,
         AdminOverride, Decide, WriteDecision, Erase, EraseRow, PurgeRow, ErasureFails,
         LifecycleCron, LifecycleScript, RunLifecycle, DayPasses, Crash, faceVars

LEMMA PhotosFitHolds ==
    ASSUME Types, PhotosFit, Next
    PROVE  PhotosFit'
<1> USE DEF PhotosFit
<1>1. CASE Units \/ Managers \/ CustomFields \/ SigningIn \/ Browsing \/ Operators
  <2>1. UNCHANGED <<photos, employees>>
    BY <1>1, UnitsFrame, ManagersFrame, CustomFieldsFrame, DeskFrame DEF faces
  <2>2. QED
    BY <2>1 DEF Exists, Employed
<1>2. CASE Staff
  <2>1. photos' = photos /\ \A e \in Employee : Employed(e) => Employed(e)'
    BY <1>2, StaffFrame, StaffKeeps
  <2>2. \A p \in Photo : Exists(photos, p) => photos[p].emp \in Employee
    BY RowsThereAre DEF PhotoRow
  <2>3. QED
    BY <2>1, <2>2 DEF Exists
<1>3. CASE Faces
  BY <1>3, FacesFrame, FacesKeepPhotos DEF Employed, Exists
<1>4. CASE Leaving
  <2>1. SUFFICES ASSUME NEW p \in Photo, Exists(photos, p)'
                 PROVE  Employed(photos[p].emp)'
    OBVIOUS
  <2>2. photos'[p] = photos[p] /\ Exists(photos, p) /\ photos[p].emp \in Employee
    <3>1. photos'[p] = photos[p]
      BY <1>4, <2>1, LeavingKeepsPhotos DEF Exists
    <3>2. Exists(photos, p)
      BY <2>1, <3>1 DEF Exists
    <3>3. QED
      BY <3>1, <3>2, RowsThereAre DEF PhotoRow
  <2>3. Employed(photos[p].emp)
    BY <2>2
  <2>4. employees'[photos[p].emp] # Gone
    BY <1>4, <2>1, <2>2, <2>3, LeavingKeepsPhotos DEF Employed, Exists
  <2>5. employees'[photos[p].emp] # None
    BY <1>4, <2>2, <2>3, <2>4, LeavingKeeps, NoneAssumption DEF Employed, Exists
  <2>6. QED
    BY <2>2, <2>3, <2>4, <2>5 DEF Employed, Exists
<1>5. QED
  BY <1>1, <1>2, <1>3, <1>4 DEF Next

LEMMA LeaversLeaveNothingHolds ==
    ASSUME Types, LeaversLeaveNothing, Next
    PROVE  LeaversLeaveNothing'
<1> USE DEF LeaversLeaveNothing
<1>1. CASE Units \/ CustomFields \/ Faces \/ SigningIn \/ Browsing \/ Operators
  <2>1. UNCHANGED <<employees, deletes, assigned>>
    BY <1>1, UnitsFrame, CustomFieldsFrame, FacesFrame, DeskFrame DEF faces
  <2>2. QED
    BY <2>1 DEF Employed, Exists
<1>2. CASE Staff
  <2>1. UNCHANGED <<deletes, assigned>> /\ \A e \in Employee : Employed(e) => Employed(e)'
    BY <1>2, StaffFrame, StaffKeeps
  <2>2. QED
    BY <2>1
<1>3. CASE Managers
  <2>1. UNCHANGED <<employees, deletes>>
    BY <1>3, ManagersFrame DEF faces
  <2>2. CASE assigned' = assigned
    BY <2>1, <2>2 DEF Employed, Exists
  <2>3. ASSUME NEW e \in Employee, NEW u \in User, DeleteAssignment(e, u)
        PROVE  LeaversLeaveNothing'
    BY <2>1, <2>3 DEF DeleteAssignment, Types, OrgTypes, Employed, Exists
  <2>4. ASSUME NEW r \in Request, WriteAssignment(r)
        PROVE  LeaversLeaveNothing'
    <3>1. \A e \in Employee : assigned'[e] = assigned[e] \/ Employed(e)
      BY <2>4 DEF WriteAssignment, Types, OrgTypes
    <3>2. QED
      BY <2>1, <3>1 DEF Employed, Exists
  <2>5. QED
    BY <1>3, <2>2, <2>3, <2>4
       DEF Managers, CreateUser, PatchUser, AssignDivisionManager, RemoveDivisionManager,
           AssignDepartmentManager, RemoveDepartmentManager, AssignSectionManager,
           RemoveSectionManager, Post, Unpost, CheckAssignment, orgVars
<1>4. CASE Leaving
  <2>1. SUFFICES ASSUME NEW e \in Employee, ~Employed(e)'
                 PROVE  deletes'[e] = <<>> /\ \A u \in User : assigned'[e][u] = "none"
    OBVIOUS
  <2>2. ASSUME ~Employed(e)
        PROVE  deletes[e] = <<>> /\ \A u \in User : assigned[e][u] = "none"
    BY <2>2
  <2>3. Employed(e)' <=> employees'[e] \notin {None, Gone}
    BY NoneAssumption DEF Employed, Exists
  <2>4. employees' = employees => ~Employed(e)
    BY <2>1 DEF Employed, Exists
  <2>5. CASE UNCHANGED <<employees, deletes, assigned>>
    BY <2>2, <2>4, <2>5
  <2>6. ASSUME NEW x \in Employee, SubmitByAdmin(x) \/ \E r \in Request : SubmitByHr(r, x)
        PROVE  deletes'[e] = <<>> /\ \A u \in User : assigned'[e][u] = "none"
    <3>1. Employed(x) /\ UNCHANGED <<employees, assigned>> /\ deletes'[e] \in {deletes[e]} \cup
             {Append(deletes[x], verdict) : verdict \in {z \in Verdict : e = x}}
      BY <2>6 DEF SubmitByAdmin, SubmitByHr, Types, FaceTypes, Verdict, orgVars
    <3>2. QED
      BY <2>2, <2>4, <3>1
  <2>7. ASSUME NEW r \in Request, WriteDecision(r)
        PROVE  deletes'[e] = <<>> /\ \A u \in User : assigned'[e][u] = "none"
    <3>1. ~Employed(e) /\ UNCHANGED <<employees, assigned>>
      BY <2>4, <2>7 DEF WriteDecision, orgVars
    <3>2. deletes[e] = <<>>
      BY <2>2, <3>1
    <3>3. deletes'[e] = deletes[e] \/ DOMAIN deletes[e] # {}
      BY <2>7 DEF WriteDecision, Types, FaceTypes
    <3>4. QED
      BY <2>2, <3>1, <3>2, <3>3
  <2>8. ASSUME NEW r \in Request, EraseRow(r) \/ PurgeRow(r)
        PROVE  deletes'[e] = <<>> /\ \A u \in User : assigned'[e][u] = "none"
    <3>1. DeleteEmployeeRow(ops[r].emp)
      BY <2>8 DEF EraseRow, PurgeRow
    <3>2. CASE e = ops[r].emp
      BY <3>1, <3>2 DEF DeleteEmployeeRow, Types, OrgTypes, FaceTypes
    <3>3. CASE e # ops[r].emp
      <4>1. /\ employees'[e] = employees[e] /\ deletes'[e] = deletes[e]
            /\ assigned'[e] = assigned[e]
        BY <3>1, <3>3 DEF DeleteEmployeeRow, Types, OrgTypes, FaceTypes
      <4>2. QED
        BY <2>1, <2>2, <4>1 DEF Employed, Exists
    <3>4. QED
      BY <3>2, <3>3
  <2>9. ASSUME NEW r \in Request, Redact(r) \/ Deactivate(r)
        PROVE  deletes'[e] = <<>> /\ \A u \in User : assigned'[e][u] = "none"
    <3>1. UNCHANGED <<deletes, assigned>>
      BY <2>9 DEF Redact, Deactivate, orgVars
    <3>2. employees'[e] # Gone \/ employees[e] = Gone
      <4>1. Employed(e) => \A status \in {"inactive", "deleted"} :
              [employees[e] EXCEPT !.status = status] # Gone
        BY NoneAssumption DEF Types, OrgTypes, Employed, Exists, EmployeeRow
      <4>2. CASE Deactivate(r)
        BY <4>1, <4>2 DEF Deactivate
      <4>3. CASE Redact(r)
        <5>1. ops[r].emp \in Employee
          BY <4>3, Stages DEF Types, Redact, Purging
        <5>2. QED
          BY <4>1, <4>3, <5>1 DEF Redact, Types, OrgTypes
      <4>4. QED
        BY <2>9, <4>2, <4>3
    <3>3. ~Employed(e)
      BY <1>4, <2>1, <3>2, LeavingKeeps, NoneAssumption DEF Employed, Exists
    <3>4. QED
      BY <2>2, <3>1, <3>3
  <2>10. QED
    BY <1>4, <2>5, <2>6, <2>7, <2>8, <2>9
       DEF Leaving, PdplDelete, BulkPurge, RemoveFiles, HrDecide, AdminOverride, Decide, Erase,
           ErasureFails, LifecycleCron, LifecycleScript, RunLifecycle, DayPasses, Crash, faceVars,
           orgVars
<1>5. QED
  BY <1>1, <1>2, <1>3, <1>4 DEF Next

LEMMA ValuesFitHolds ==
    ASSUME Types, ValuesFit, Next
    PROVE  ValuesFit'
<1> USE DEF ValuesFit
<1>1. CASE Units \/ Managers \/ Faces \/ SigningIn \/ Browsing \/ Operators
  <2>1. UNCHANGED <<employees, fields, values>>
    BY <1>1, UnitsFrame, ManagersFrame, FacesFrame, DeskFrame
  <2>2. QED
    BY <2>1 DEF Employed, Exists
<1>2. CASE CustomFields
  <2>1. employees' = employees
    BY <1>2, CustomFieldsFrame
  <2>2. ASSUME NEW f \in Field, NEW options \in (SUBSET Option) \ {{}},
               CreateField(f, options) \/ PatchField(f, options)
        PROVE  ValuesFit'
    <3>1. values' = values /\ fields' = [fields EXCEPT ![f] = options]
      BY <2>2 DEF CreateField, PatchField
    <3>2. \A x \in Field : Exists(fields, x) => Exists(fields, x)'
      BY <3>1, NoneAssumption DEF Types, OrgTypes, Exists
    <3>3. QED
      BY <2>1, <3>1, <3>2 DEF Employed, Exists
  <2>3. ASSUME NEW f \in Field, DeleteField(f)
        PROVE  ValuesFit'
    <3>1. /\ \A e \in Employee : values'[e] = [values[e] EXCEPT ![f] = None]
          /\ fields' = [fields EXCEPT ![f] = Gone]
      BY <2>3 DEF DeleteField
    <3>2. \A e \in Employee, x \in Field : values'[e][x] # None => x # f /\ values'[e][x] = values[e][x]
      <4>1. SUFFICES ASSUME NEW e \in Employee, NEW x \in Field
                     PROVE  values'[e][x] = IF x = f THEN None ELSE values[e][x]
        OBVIOUS
      <4>2. values'[e] = [values[e] EXCEPT ![f] = None] /\ values[e] \in [Field -> Option \cup {None}]
        BY <3>1 DEF Types, OrgTypes
      <4>3. QED
        BY <4>2
    <3>3. \A x \in Field : x # f => fields'[x] = fields[x]
      BY <3>1 DEF Types, OrgTypes
    <3>4. QED
      BY <2>1, <3>2, <3>3 DEF Employed, Exists
  <2>4. ASSUME NEW f \in Field, NEW e \in Employee, NEW x \in Option \cup {None}, PatchValue(e, f, x)
        PROVE  ValuesFit'
    BY <2>1, <2>4 DEF PatchValue, Types, OrgTypes, Employed, Exists
  <2>5. QED
    BY <1>2, <2>2, <2>3, <2>4 DEF CustomFields
<1>3. CASE Staff
  <2>1. fields' = fields /\ \A e \in Employee : Employed(e) => Employed(e)'
    BY <1>3, StaffFrame, StaffKeeps
  <2>2. CASE values' = values
    BY <2>1, <2>2 DEF Exists
  <2>3. ASSUME NEW r \in Request, NEW row \in Rows, ~RowFails(row, ops[r].defs),
               employees' = [employees EXCEPT ![row.emp] = RowEmployee(row)],
               values' = RowValues(row, ops[r].defs)
        PROVE  ValuesFit'
    <3>1. row.emp \in Employee /\ row.field \in Field
      BY RowsAssumption
    <3>2. Employed(row.emp)'
      <4>1. RowEmployee(row) \in EmployeeRow
        BY RowsAssumption DEF RowEmployee, EmployeeRow
      <4>2. QED
        BY <2>3, <3>1, <4>1, NoneAssumption DEF Types, OrgTypes, Employed, Exists
    <3>3. \A e \in Employee, f \in Field :
            \/ values'[e][f] = values[e][f]
            \/ e = row.emp /\ f = row.field /\ Exists(fields, f)
      BY <2>3, <3>1 DEF RowValues, RowFails, Types, OrgTypes
    <3>4. QED
      BY <2>1, <3>2, <3>3 DEF Exists
  <2>4. QED
    BY <1>3, <2>2, <2>3, StaffChanges
<1>4. CASE Leaving
  <2>1. fields' = fields
    BY <1>4, LeavingFrame
  <2>2. SUFFICES ASSUME NEW e \in Employee, NEW f \in Field, values'[e][f] # None
                 PROVE  Employed(e)' /\ Exists(fields, f)'
    OBVIOUS
  <2>3. CASE values'[e][f] = values[e][f] /\ (employees'[e] # Gone \/ employees[e] = Gone)
    <3>1. Employed(e) /\ Exists(fields, f)
      BY <2>2, <2>3
    <3>2. employees'[e] # Gone
      BY <2>3, <3>1 DEF Employed, Exists
    <3>3. Employed(e)'
      BY <1>4, <3>1, <3>2, LeavingKeeps, NoneAssumption DEF Employed, Exists
    <3>4. QED
      BY <2>1, <3>1, <3>3 DEF Exists
  <2>4. \A x \in Employee, status \in {"inactive", "deleted"} :
          Employed(x) => [employees[x] EXCEPT !.status = status] # Gone
    BY NoneAssumption DEF Types, OrgTypes, Employed, Exists, EmployeeRow
  <2>5. CASE UNCHANGED <<values, employees>>
    BY <2>3, <2>5
  <2>6. CASE \E r \in Request : EraseRow(r) \/ PurgeRow(r)
    <3>1. PICK x : DeleteEmployeeRow(x)
      BY <2>6 DEF EraseRow, PurgeRow
    <3>2. CASE e = x
      <4>1. values'[e] = [y \in Field |-> None]
        BY <3>1, <3>2 DEF DeleteEmployeeRow, ValuesWithout, Types, OrgTypes
      <4>2. QED
        BY <2>2, <4>1
    <3>3. CASE e # x
      <4>1. values'[e] = values[e] /\ employees'[e] = employees[e]
        BY <3>1, <3>3 DEF DeleteEmployeeRow, ValuesWithout, Types, OrgTypes
      <4>2. QED
        BY <2>3, <4>1
    <3>4. QED
      BY <3>2, <3>3
  <2>7. CASE \E r \in Request : Redact(r)
    BY <2>2, <2>3, <2>4, <2>7 DEF Redact, ValuesWithout, Types, OrgTypes
  <2>8. CASE \E r \in Request : Deactivate(r)
    BY <2>3, <2>4, <2>8 DEF Deactivate, orgVars
  <2>9. QED
    BY <1>4, <2>5, <2>6, <2>7, <2>8
       DEF Leaving, SubmitByAdmin, SubmitByHr, PdplDelete, BulkPurge, RemoveFiles, HrDecide,
           AdminOverride, Decide, WriteDecision, Erase, ErasureFails, LifecycleCron,
           LifecycleScript, RunLifecycle, DayPasses, Crash, orgVars
<1>5. QED
  BY <1>1, <1>2, <1>3, <1>4 DEF Next

\* Only sign-in lets a request reach one of its own steps.
LEMMA OutsideSignIn ==
    ASSUME Types, Next, ~SigningIn, NEW r \in Request, At(r, "session")' \/ At(r, "verify")'
    PROVE  ops'[r] = ops[r]
<1>1. \A x \in FaceOp \cup DataOp \cup StaffOp \cup VisitOp \cup Console :
        x.next \notin {"session", "verify"}
  <2>1. \A x \in FaceOp : x.next \notin {"session", "verify"}
    BY DEF FaceOp, Uploading, Surveying, Embedding, Reviewing
  <2>2. \A x \in DataOp : x.next \notin {"session", "verify"}
    BY DEF DataOp, Deciding, Erasing, Purging, Retiring, Patching
  <2>3. \A x \in StaffOp \cup VisitOp \cup Console : x.next \notin {"session", "verify"}
    BY DEF StaffOp, Patching, Importing, Assigning, VisitOp, Arriving, Visiting, Switching,
           Console, ConsoleWants
  <2>4. QED
    BY <2>1, <2>2, <2>3
<1>2. CASE ops' = ops
  BY <1>2
<1>3. \/ ops' = ops
      \/ ops'[r] \in {ops[r], Idle} \cup FaceOp \cup DataOp \cup StaffOp \cup VisitOp \cup Console
  BY FacesOps, LeavingOps, StaffOps, BrowsingOps, OperatorsOps, UnitsFrame, CustomFieldsFrame
     DEF Next, OpsBecome
<1>4. ops'[r] # Idle /\ ops'[r].next \in {"session", "verify"}
  BY DEF At
<1>5. QED
  BY <1>1, <1>2, <1>3, <1>4

LEMMA UsersStay ==
    ASSUME Types, Next, NEW u \in User, Exists(users, u)
    PROVE  Exists(users, u)'
<1>1. CASE users' = users
  BY <1>1 DEF Exists
<1>2. CASE Staff
  BY <1>2, StaffKeeps
<1>3. CASE Managers
  <2>1. ASSUME NEW x \in User, NEW roles \in Rosters, NEW active \in BOOLEAN,
               CreateUser(x, roles) \/ PatchUser(x, roles, active)
        PROVE  Exists(users, u)'
    <3>1. \A on \in BOOLEAN : [roles |-> roles, active |-> on] \in UserRow
      BY RostersAssumption DEF UserRow
    <3>2. \E on \in BOOLEAN : users' = [users EXCEPT ![x] = [roles |-> roles, active |-> on]]
      BY <2>1 DEF CreateUser, PatchUser
    <3>3. QED
      BY <3>1, <3>2, NoneAssumption DEF Exists, Types, OrgTypes
  <2>2. QED
    BY <1>1, <1>3, <2>1
       DEF Managers, Post, Unpost, AssignDivisionManager, RemoveDivisionManager,
           AssignDepartmentManager, RemoveDepartmentManager, AssignSectionManager,
           RemoveSectionManager, DeleteAssignment, CheckAssignment, WriteAssignment, orgVars
<1>4. QED
  BY <1>1, <1>2, <1>3, UnitsFrame, CustomFieldsFrame, FacesFrame, LeavingFrame, DeskFrame DEF Next

\* A session stays that of the same user.
LEMMA BrowsingKeepsUser ==
    ASSUME Types, Browsing, NEW t \in Token, Exists(sessions, t)'
    PROVE  Exists(sessions, t) /\ sessions'[t].user = sessions[t].user
<1> USE DEF Types, AuthTypes
<1>1. sessions'[t] \notin {None, Gone} /\ t # None
  BY DEF Exists
<1>2. CASE sessions'[t] = sessions[t]
  BY <1>1, <1>2 DEF Exists
<1>4. CASE \/ \E x : sessions' = [sessions EXCEPT ![x] = Gone]
           \/ sessions' = [x \in Token |->
                IF Exists(sessions, x) /\ ~sessions[x].live THEN Gone ELSE sessions[x]]
  BY <1>1, <1>2, <1>4
<1>5. CASE \E x \in Token :
              /\ Exists(sessions, x)
              /\ \/ \E live \in BOOLEAN : sessions' = [sessions EXCEPT ![x] = [sessions[x] EXCEPT !.live = live]]
                 \/ \E role : sessions' = [sessions EXCEPT ![x] = [sessions[x] EXCEPT !.role = role]]
  <2>1. PICK x \in Token :
              /\ Exists(sessions, x)
              /\ \/ \E live \in BOOLEAN : sessions' = [sessions EXCEPT ![x] = [sessions[x] EXCEPT !.live = live]]
                 \/ \E role : sessions' = [sessions EXCEPT ![x] = [sessions[x] EXCEPT !.role = role]]
    BY <1>5
  <2>2. CASE x # t
    BY <1>2, <2>1, <2>2
  <2>3. CASE x = t
    <3>1. \/ \E live \in BOOLEAN : sessions'[t] = [sessions[t] EXCEPT !.live = live]
          \/ \E role : sessions'[t] = [sessions[t] EXCEPT !.role = role]
      BY <2>1, <2>3
    <3>2. sessions[t] \in SessionRow
      BY <2>1, <2>3, RowsThereAre
    <3>3. ASSUME NEW live \in BOOLEAN, sessions'[t] = [sessions[t] EXCEPT !.live = live]
          PROVE  sessions'[t].user = sessions[t].user
      BY <3>2, <3>3 DEF SessionRow
    <3>4. ASSUME NEW role, sessions'[t] = [sessions[t] EXCEPT !.role = role]
          PROVE  sessions'[t].user = sessions[t].user
      BY <3>2, <3>4 DEF SessionRow
    <3>5. QED
      BY <2>1, <2>3, <3>1, <3>3, <3>4
  <2>4. QED
    BY <2>2, <2>3
<1>6. CASE sessions' = sessions
  BY <1>2, <1>6
<1>7. ASSUME NEW r \in Request, TouchSession(r) \/ SwitchRole(r)
      PROVE  Exists(sessions, t) /\ sessions'[t].user = sessions[t].user
  <2>1. ops[r].token \in Token
    BY <1>7, Stages DEF TouchSession, SwitchRole, Visiting, Switching
  <2>2. QED
    BY <1>5, <1>6, <1>7, <2>1 DEF TouchSession, SwitchRole, SetSession
<1>8. CASE \E x \in Token : SessionIdles(x)
  BY <1>5, <1>8 DEF SessionIdles, SetSession
<1>9. QED
  BY <1>4, <1>6, <1>7, <1>8
     DEF Browsing, Open, LoadSession, ExpireSession, LoadUser, Logout, SetPreference,
         SweepSessions, DropSession, SetSession, authVars

LEMMA SessionsFitHolds ==
    ASSUME Types, SessionsFit, Next
    PROVE  SessionsFit'
<1> USE DEF SessionsFit
<1>1. \A t \in Token : Exists(sessions, t) => sessions[t].user \in User
  BY RowsThereAre DEF SessionRow
<1>2. \A r \in Request : At(r, "session") => ops[r].user \in User
  BY Stages DEF Types, SigningOn
<1>3. ASSUME NEW r \in Request, At(r, "session")'
      PROVE  Exists(users, ops[r].user)'
  <2>1. CASE ~SigningIn
    <3>1. ops'[r] = ops[r]
      BY <1>3, <2>1, OutsideSignIn
    <3>2. At(r, "session")
      BY <1>3, <3>1 DEF At
    <3>3. QED
      BY <1>2, <3>1, <3>2, UsersStay
  <2>2. CASE SigningIn
    <3>1. users' = users
      BY <2>2, DeskFrame
    <3>2. CASE ops'[r] = ops[r]
      <4>1. At(r, "session")
        BY <1>3, <3>2 DEF At
      <4>2. QED
        BY <3>1, <3>2, <4>1 DEF Exists
    <3>3. ASSUME NEW x \in Request, VerifyPassword(x) \/ MatchClaims(x), ops'[r] # ops[r]
          PROVE  Exists(users, ops[r].user)'
      <4>1. x = r /\ ops[r] \in SigningOn
        BY <3>3, Stages DEF Types, OpTypes, VerifyPassword, MatchClaims, Step, Done
      <4>2. ~Done(r)
        BY <1>3 DEF Done, At, Types, OpTypes
      <4>3. Allowed(ops[r].user) /\ ops'[r] = [ops[r] EXCEPT !.next = "session"]
        BY <3>3, <4>1, <4>2 DEF VerifyPassword, MatchClaims, Step, Types, OpTypes
      <4>4. ops'[r].user = ops[r].user /\ ops[r].user \in User
        BY <4>1, <4>3 DEF SigningOn
      <4>5. QED
        BY <3>1, <4>3, <4>4, RowsThereAre DEF Allowed, Exists
    <3>4. ASSUME NEW x \in Request, Done(x)
          PROVE  ops'[r] = ops[r]
      BY <1>3, <3>4 DEF Done, At, Types, OpTypes
    <3>5. ASSUME NEW x \in Request,
                 \/ OidcCallback(x)
                 \/ \E u \in User : StartLogin(x, u) \/ StartOidc(x, u)
          PROVE  ops'[r] = ops[r]
      <4>1. CASE \E u \in User : StartLogin(x, u) \/ StartOidc(x, u)
        BY <1>3, <4>1 DEF StartLogin, StartOidc, Begin, At, Types, OpTypes
      <4>2. CASE OidcCallback(x)
        <5>1. ops[x] \in SigningOn
          BY <4>2, Stages DEF Types, OidcCallback
        <5>2. [ops[x] EXCEPT !.next = "match"].next = "match"
          BY <5>1 DEF SigningOn
        <5>3. QED
          BY <1>3, <3>4, <4>2, <5>2 DEF OidcCallback, Step, At, Types, OpTypes
      <4>3. QED
        BY <3>5, <4>1, <4>2
    <3>6. CASE ops' = ops
      BY <3>2, <3>6
    <3>7. QED
      BY <2>2, <3>2, <3>3, <3>4, <3>5, <3>6
         DEF SigningIn, MakeSession, PutOidcConfig, ResetLimiter
  <2>3. QED
    BY <2>1, <2>2
<1>4. ASSUME NEW t \in Token, Exists(sessions, t)'
      PROVE  Exists(users, sessions[t].user)'
  <2>1. CASE Exists(sessions, t) /\ sessions'[t].user = sessions[t].user
    BY <1>1, <2>1, UsersStay
  <2>2. CASE sessions' = sessions
    BY <1>4, <2>1, <2>2 DEF Exists
  <2>3. CASE Browsing
    BY <1>4, <2>1, <2>3, BrowsingKeepsUser
  <2>4. ASSUME NEW r \in Request, MakeSession(r)
        PROVE  Exists(users, sessions[t].user)'
    <3>1. At(r, "session") /\ users' = users
      BY <2>4 DEF MakeSession, people, orgVars
    <3>2. CASE t = NewToken
      <4>1. sessions'[t].user = ops[r].user
        BY <2>4, <3>2, NewTokenIsFree DEF MakeSession, SetSession, Types, AuthTypes
      <4>2. QED
        BY <3>1, <4>1 DEF Exists
    <3>3. CASE t # NewToken
      <4>1. sessions'[t] = sessions[t]
        BY <2>4, <3>3 DEF MakeSession, SetSession, Types, AuthTypes
      <4>2. QED
        BY <1>4, <2>1, <4>1 DEF Exists
    <3>4. QED
      BY <3>2, <3>3
  <2>5. CASE SigningIn
    BY <2>2, <2>4, <2>5 DEF SigningIn, StartLogin, StartOidc, VerifyPassword, OidcCallback,
       MatchClaims, PutOidcConfig, ResetLimiter, authVars
  <2>6. CASE Operators
    <3>1. sessions' = sessions
      BY <2>6 DEF Operators, OpenConsole, AdmitOperator, AccessAs, SetImpersonation, UpdateStatus,
              ConsoleLogout, ConsoleLogin, ConsoleIdles, tenant, authVars
    <3>2. QED
      BY <2>2, <3>1
  <2>7. QED
    BY <2>2, <2>3, <2>5, <2>6, UnitsFrame, ManagersFrame, CustomFieldsFrame, StaffFrame,
       FacesFrame, LeavingFrame DEF access, Next
<1>5. QED
  BY <1>3, <1>4

LEMMA VerifyingIsFinite ==
    ASSUME NEW u
    PROVE  /\ IsFiniteSet(Verifying(u)) /\ Cardinality(Verifying(u)) \in Nat
           /\ Cardinality(Request) \in Nat /\ Cardinality(Verifying(u)) <= Cardinality(Request)
<1>1. Verifying(u) \subseteq Request /\ IsFiniteSet(Request)
  BY SomeAssumption DEF Verifying
<1>2. QED
  BY <1>1, FS_Subset, FS_CardinalityType

LEMMA FailuresFitHolds ==
    ASSUME Types, Types', FailuresFit, Next
    PROVE  FailuresFit'
<1> SUFFICES ASSUME NEW u \in User
             PROVE  failures'[u] + Cardinality(Verifying(u)') < MaxAttempts + Cardinality(Request)
  BY DEF FailuresFit
<1>1. /\ failures[u] \in Nat /\ failures'[u] \in Nat /\ MaxAttempts \in Nat
      /\ Cardinality(Request) \in Nat
      /\ IsFiniteSet(Verifying(u)) /\ Cardinality(Verifying(u)) \in Nat
      /\ IsFiniteSet(Verifying(u)') /\ Cardinality(Verifying(u)') \in Nat
      /\ Cardinality(Verifying(u)') <= Cardinality(Request)
  <2>1. Verifying(u)' \subseteq Request /\ IsFiniteSet(Request)
    BY SomeAssumption DEF Verifying
  <2>2. QED
    BY <2>1, VerifyingIsFinite, FS_Subset, FS_CardinalityType, AttemptsAssumption
       DEF Types, AuthTypes
<1>2. failures[u] + Cardinality(Verifying(u)) < MaxAttempts + Cardinality(Request)
  BY DEF FailuresFit
<1>3. CASE failures'[u] <= failures[u] /\ Verifying(u)' \subseteq Verifying(u)
  <2>1. Cardinality(Verifying(u)') <= Cardinality(Verifying(u))
    BY <1>1, <1>3, FS_Subset
  <2>2. QED
    BY <1>1, <1>2, <1>3, <2>1
<1>4. ASSUME \A r \in Request : At(r, "verify")' => ops'[r] = ops[r]
      PROVE  Verifying(u)' \subseteq Verifying(u)
  BY <1>4 DEF Verifying, At
<1>5. CASE ~SigningIn
  <2>1. Verifying(u)' \subseteq Verifying(u)
    BY <1>4, <1>5, OutsideSignIn
  <2>2. failures' = failures \/ failures' = [x \in User |-> 0]
    <3>1. CASE Leaving
      BY <3>1 DEF Leaving, SubmitByAdmin, SubmitByHr, PdplDelete, BulkPurge, RemoveFiles, HrDecide,
                  AdminOverride, Decide, WriteDecision, Erase, EraseRow, Redact, PurgeRow,
                  ErasureFails, LifecycleCron, LifecycleScript, RunLifecycle, Deactivate, DayPasses, Crash, authVars
    <3>2. CASE Browsing \/ Operators
      BY <3>2 DEF Browsing, Open, LoadSession, ExpireSession, LoadUser, TouchSession, Logout,
                  SwitchRole, SetPreference, SessionIdles, SweepSessions, authVars, others,
                  Operators, OpenConsole, AdmitOperator, AccessAs, SetImpersonation, UpdateStatus,
                  ConsoleLogout, ConsoleLogin, ConsoleIdles, tenant
    <3>3. QED
      BY <1>5, <3>1, <3>2, UnitsFrame, ManagersFrame, CustomFieldsFrame, StaffFrame, FacesFrame
         DEF access, Next
  <2>3. failures'[u] <= failures[u]
    BY <1>1, <2>2
  <2>4. QED
    BY <1>3, <2>1, <2>3
<1>6. ASSUME NEW r \in Request, NEW x \in User, StartLogin(r, x)
      PROVE  failures'[u] + Cardinality(Verifying(u)') < MaxAttempts + Cardinality(Request)
  <2>1. failures' = failures /\ failures[x] < MaxAttempts
    BY <1>6 DEF StartLogin, authVars
  <2>2. CASE u = x
    BY <1>1, <2>1, <2>2
  <2>3. CASE u # x
    <3>1. [kind |-> "login", next |-> "verify", user |-> x].user # u
      BY <2>3
    <3>2. Verifying(u)' \subseteq Verifying(u)
      BY <1>6, <3>1 DEF StartLogin, Begin, Verifying, At, Types, OpTypes
    <3>3. QED
      BY <1>1, <1>3, <2>1, <3>2
  <2>4. QED
    BY <2>2, <2>3
<1>7. ASSUME NEW r \in Request, Done(r)
      PROVE  Verifying(u)' = Verifying(u) \ {r}
  BY <1>7 DEF Done, Verifying, At, Types, OpTypes
<1>8. ASSUME NEW r \in Request, NEW next \in {"session", "match"}, ops[r] \in SigningOn, Step(r, next)
      PROVE  Verifying(u)' \subseteq Verifying(u)
  <2>1. [ops[r] EXCEPT !.next = next].next = next
    BY <1>8 DEF SigningOn
  <2>2. QED
    BY <1>8, <2>1 DEF Step, Verifying, At, Types, OpTypes
<1>9. ASSUME NEW r \in Request, VerifyPassword(r)
      PROVE  failures'[u] + Cardinality(Verifying(u)') < MaxAttempts + Cardinality(Request)
  <2>1. ops[r] \in SigningOn /\ At(r, "verify")
    BY <1>9, Stages DEF Types, VerifyPassword
  <2>2. ASSUME failures' = [failures EXCEPT ![ops[r].user] = @ + 1], Done(r)
        PROVE  failures'[u] + Cardinality(Verifying(u)') < MaxAttempts + Cardinality(Request)
    <3>1. CASE u = ops[r].user
      <4>1. r \in Verifying(u) /\ failures'[u] = failures[u] + 1
        BY <2>1, <2>2, <3>1 DEF Verifying, Types, AuthTypes
      <4>2. Cardinality(Verifying(u)') = Cardinality(Verifying(u)) - 1
        BY <1>1, <1>7, <2>2, <4>1, FS_RemoveElement
      <4>3. QED
        BY <1>1, <1>2, <4>1, <4>2
    <3>2. CASE u # ops[r].user
      <4>1. failures'[u] = failures[u]
        BY <2>2, <3>2 DEF Types, AuthTypes
      <4>2. QED
        BY <1>1, <1>3, <1>7, <2>2, <4>1
    <3>3. QED
      BY <3>1, <3>2
  <2>3. ASSUME failures' = [failures EXCEPT ![ops[r].user] = 0], Step(r, "session")
        PROVE  failures'[u] + Cardinality(Verifying(u)') < MaxAttempts + Cardinality(Request)
    <3>1. failures'[u] <= failures[u]
      BY <1>1, <2>3 DEF Types, AuthTypes
    <3>2. QED
      BY <1>3, <1>8, <2>1, <2>3, <3>1
  <2>4. QED
    BY <1>9, <2>2, <2>3 DEF VerifyPassword
<1>10. ASSUME NEW r \in Request, OidcCallback(r) \/ MatchClaims(r) \/ MakeSession(r)
       PROVE  failures'[u] + Cardinality(Verifying(u)') < MaxAttempts + Cardinality(Request)
  <2>1. failures' = failures
    BY <1>10 DEF OidcCallback, MatchClaims, MakeSession, authVars, others
  <2>2. ops[r] \in SigningOn
    BY <1>10, Stages DEF Types, OidcCallback, MatchClaims, MakeSession
  <2>3. Verifying(u)' \subseteq Verifying(u)
    BY <1>7, <1>8, <1>10, <2>2 DEF OidcCallback, MatchClaims, MakeSession
  <2>4. QED
    BY <1>1, <1>3, <2>1, <2>3
<1>11. ASSUME NEW r \in Request, NEW x \in User, StartOidc(r, x)
       PROVE  failures'[u] + Cardinality(Verifying(u)') < MaxAttempts + Cardinality(Request)
  <2>1. failures' = failures
    BY <1>11 DEF StartOidc, authVars
  <2>2. Verifying(u)' \subseteq Verifying(u)
    BY <1>11 DEF StartOidc, Begin, Verifying, At, Types, OpTypes
  <2>3. QED
    BY <1>1, <1>3, <2>1, <2>2
<1>12. CASE (\E enabled \in BOOLEAN : PutOidcConfig(enabled)) \/ ResetLimiter
  <2>1. ops' = ops /\ (failures' = failures \/ failures' = [x \in User |-> 0])
    BY <1>12 DEF PutOidcConfig, ResetLimiter
  <2>2. failures'[u] <= failures[u]
    BY <1>1, <2>1
  <2>3. QED
    BY <1>3, <1>4, <2>1, <2>2
<1>13. QED
  BY <1>5, <1>6, <1>9, <1>10, <1>11, <1>12 DEF SigningIn

LEMMA ReferencesStart == Init => References
<1> SUFFICES ASSUME Init PROVE References
  OBVIOUS
<1> DEFINE e == CHOOSE x \in Employee : TRUE
           v == CHOOSE x \in Division : TRUE
           d == CHOOSE x \in Department : TRUE
           s == CHOOSE x \in Section : TRUE
           n == CHOOSE x \in Name : TRUE
           u == CHOOSE x \in User : TRUE
           o == CHOOSE x \in Option : TRUE
           k == CHOOSE x \in Token : TRUE
           other == IF Department = {d} THEN d ELSE CHOOSE x \in Department : x # d
<1>0. /\ e \in Employee /\ v \in Division /\ d \in Department /\ s \in Section /\ n \in Name
      /\ u \in User /\ o \in Option /\ k \in Token /\ other \in Department
      /\ other # d \/ Department = {d}
  <2>1. e \in Employee /\ v \in Division /\ d \in Department /\ s \in Section /\ n \in Name
        /\ u \in User /\ o \in Option /\ k \in Token
    BY SomeAssumption
  <2> HIDE DEF d
  <2>2. other \in Department
    BY <2>1
  <2>3. QED
    BY <2>1, <2>2
<1>1. PICK new \in BOOLEAN, p \in Photo :
        /\ divisions = [x \in Division |-> IF x = v THEN n ELSE None]
        /\ departments = [x \in Department |->
               IF x = d \/ ~new THEN [name |-> n, division |-> v] ELSE None]
        /\ sections = [y \in Section |->
               IF y = s THEN [name |-> n, dept |-> d]
               ELSE IF new THEN None ELSE [name |-> n, dept |-> other]]
        /\ users = [x \in User |->
               IF x = u \/ ~new THEN [roles |-> {"Manager", "Employee"}, active |-> TRUE] ELSE None]
        /\ employees = [x \in Employee |->
               IF x = e THEN [dept |-> d, section |-> s, status |-> "active", last |-> LastDay]
               ELSE None]
        /\ posts = IF new THEN {} ELSE {<<d, u>>}
        /\ assigned = [x \in Employee |-> [y \in User |->
               IF x = e /\ y = u /\ ~new THEN "plain" ELSE "none"]]
        /\ fields = [x \in Field |-> IF new THEN None ELSE {o}]
        /\ values = [x \in Employee |-> [y \in Field |->
               IF x = e /\ ~new THEN o ELSE None]]
        /\ photos = [x \in Photo |->
               IF x = p THEN [emp |-> e, status |-> IF new THEN "approved" ELSE "pending",
                              embedded |-> TRUE, own |-> ~new]
               ELSE None]
        /\ deletes = [x \in Employee |-> IF x = e /\ ~new THEN <<"pending">> ELSE <<>>]
        /\ sessions = [t \in Token |->
               IF t = k THEN [user |-> u, role |-> "Manager", live |-> TRUE, sent |-> TRUE]
               ELSE None]
  BY DEF Init
<1> HIDE DEF e, v, d, s, n, u, o, k, other
<1>2. Types
  BY TypesStart
<1>3. /\ Exists(divisions, v) /\ Exists(departments, d) /\ Exists(sections, s) /\ Exists(users, u)
      /\ ~new => \A x \in Department : Exists(departments, x)
  <2>1. /\ divisions[v] # None /\ departments[d] # None /\ sections[s] # None /\ users[u] # None
        /\ ~new => \A x \in Department : departments[x] # None
    <3>1. /\ [name |-> n, division |-> v] \in DepartmentRow
          /\ [name |-> n, dept |-> d] \in SectionRow
          /\ [roles |-> {"Manager", "Employee"}, active |-> TRUE] \in UserRow
      BY <1>0 DEF DepartmentRow, SectionRow, UserRow, Role
    <3>2. QED
      BY <1>0, <1>1, <3>1, NoneAssumption
  <2>2. QED
    BY <1>0, <1>2, <2>1, RowsThereAre
<1>4. \A x \in Employee : Employed(x) <=> x = e
  <2>1. [dept |-> d, section |-> s, status |-> "active", last |-> LastDay] \in EmployeeRow
    BY <1>0, DaysAssumption DEF EmployeeRow, Day
  <2>2. QED
    BY <1>0, <1>1, <2>1, NoneAssumption DEF Employed, Exists
<1>5. DepartmentsFit /\ SectionsFit
  BY <1>0, <1>1, <1>3 DEF DepartmentsFit, SectionsFit, Divided
<1>6. EmployeesFit
  BY <1>0, <1>1, <1>3, <1>4 DEF EmployeesFit
<1>7. PostsFit
  BY <1>0, <1>1, <1>3 DEF PostsFit
<1>8. PhotosFit
  BY <1>0, <1>1, <1>4, NoneAssumption DEF PhotosFit, Exists
<1>9. LeaversLeaveNothing
  BY <1>0, <1>1, <1>4 DEF LeaversLeaveNothing
<1>10. ValuesFit
  BY <1>0, <1>1, <1>4, NoneAssumption DEF ValuesFit, Exists
<1>11. SessionsFit
  <2>1. \A r \in Request : ~At(r, "session")
    BY DEF Init, At
  <2>2. QED
    BY <1>0, <1>1, <1>3, <2>1 DEF SessionsFit, Exists
<1>12. FailuresFit
  <2>1. \A x \in User : Verifying(x) = {} /\ failures[x] = 0
    BY DEF Init, Verifying, At
  <2>2. Cardinality({}) = 0 /\ Cardinality(Request) \in Nat /\ MaxAttempts \in Nat /\ MaxAttempts > 0
    BY FS_EmptySet, VerifyingIsFinite, AttemptsAssumption
  <2>3. QED
    BY <2>1, <2>2 DEF FailuresFit
<1>13. QED
  BY <1>5, <1>6, <1>7, <1>8, <1>9, <1>10, <1>11, <1>12 DEF References

LEMMA ReferencesStep ==
    ASSUME Types, References, [Next]_vars
    PROVE  References'
<1>1. CASE Next
  BY <1>1, TypesStep, DepartmentsFitHolds, SectionsFitHolds, EmployeesFitHolds, PostsFitHolds,
     PhotosFitHolds, LeaversLeaveNothingHolds, ValuesFitHolds, SessionsFitHolds, FailuresFitHolds
     DEF References
<1>2. CASE UNCHANGED vars
  BY <1>2 DEF vars, orgVars, faceVars, authVars, References, DepartmentsFit, SectionsFit,
     EmployeesFit, PostsFit, PhotosFit, LeaversLeaveNothing, ValuesFit, SessionsFit,
     FailuresFit, Verifying, At, Divided, Employed, Exists
<1>3. QED
  BY <1>1, <1>2

\* Every row refers to rows that exist, whatever is created, imported, moved
\* and deleted in whatever order; what refers to an employee goes with the
\* employee; and failed sign-ins are counted at most as far as the limit and
\* the attempts that were under way when it was reached.
THEOREM RowsStayWhole == Spec => []TypeOK
<1>1. Types /\ References => TypeOK
  <2> SUFFICES ASSUME Types, References PROVE TypeOK
    OBVIOUS
  <2>1. \A u \in User : failures[u] < MaxAttempts + Cardinality(Request)
    <3>1. \A u \in User : failures[u] \in Nat /\ Cardinality(Verifying(u)) \in Nat
            /\ failures[u] + Cardinality(Verifying(u)) < MaxAttempts + Cardinality(Request)
      BY VerifyingIsFinite DEF Types, AuthTypes, References, FailuresFit
    <3>2. MaxAttempts \in Nat /\ Cardinality(Request) \in Nat
      BY VerifyingIsFinite, AttemptsAssumption
    <3>3. QED
      BY <3>1, <3>2
  <2>2. \A e \in Employee : Employed(e) =>
          /\ employees[e].status \in {"active", "inactive", "deleted"}
          /\ employees[e].last \in Day \cup {None}
    BY RowsThereAre DEF EmployeeRow
  <2>3. \A p \in Photo : Exists(photos, p) => photos[p].status \in {"pending", "approved"}
    BY RowsThereAre DEF PhotoRow
  <2>4. /\ files \subseteq Employee \X Photo /\ stale \subseteq Employee \X {"faces", "life"}
        /\ today \in Day /\ fuel \in 0 .. MaxEvents
    BY DEF Types, FaceTypes
  <2>5. crashed \in BOOLEAN /\ botched \subseteq Employee \X ErasureStep
    BY DEF Types, FaceTypes
  <2>6. QED
    BY <2>1, <2>2, <2>3, <2>4, <2>5
       DEF TypeOK, References, DepartmentsFit, SectionsFit, EmployeesFit, PostsFit, PhotosFit,
           LeaversLeaveNothing, ValuesFit, SessionsFit
<1>2. QED
  BY <1>1, TypesStart, TypesStep, ReferencesStart, ReferencesStep, PTL DEF Spec

(***************************************************************************)
(* One primary manager.                                                    *)
(***************************************************************************)
OnePrimary == \A e \in Employee : \A u, y \in Primaries(e) : u = y

LEMMA OnePrimaryStep ==
    ASSUME Types, OnePrimary, [Next]_vars
    PROVE  OnePrimary'
<1> USE DEF OnePrimary
<1>1. CASE assigned' = assigned
  BY <1>1 DEF Primaries
<1>2. ASSUME NEW e \in Employee, NEW u \in User, DeleteAssignment(e, u)
      PROVE  OnePrimary'
  <2>1. \A x \in Employee : Primaries(x)' \subseteq Primaries(x)
    BY <1>2 DEF DeleteAssignment, Primaries, Types, OrgTypes
  <2>2. QED
    BY <2>1
<1>3. ASSUME NEW r \in Request, WriteAssignment(r)
      PROVE  OnePrimary'
  <2>1. ops[r] \in Assigning
    BY <1>3, Stages DEF Types, WriteAssignment
  <2>2. PICK e \in Employee, w \in User, p \in BOOLEAN, seen \in SUBSET User :
          e = ops[r].emp /\ w = ops[r].user /\ p = ops[r].primary /\ seen = ops[r].seen
    BY <2>1 DEF Assigning
  <2>3. CASE assigned' # assigned
    <3>1. \A x \in Employee : x # e => Primaries(x)' = Primaries(x)
      BY <1>3, <2>2, <2>3 DEF WriteAssignment, Primaries, Types, OrgTypes
    <3>2. /\ p => ~SecondPrimary(e, w, seen)
          /\ assigned' = [assigned EXCEPT ![e] =
               [[y \in User |-> IF p /\ y \in seen /\ assigned[e][y] = "primary"
                                THEN "plain" ELSE assigned[e][y]]
                EXCEPT ![w] = IF p THEN "primary" ELSE "plain"]]
      BY ZenonT(30), <1>3, <2>2, <2>3 DEF WriteAssignment, Types, OrgTypes
    <3>3. \A u \in User :
            assigned'[e][u] = IF u = w THEN (IF p THEN "primary" ELSE "plain")
                              ELSE IF p /\ u \in seen /\ assigned[e][u] = "primary"
                                   THEN "plain" ELSE assigned[e][u]
      BY <3>2 DEF Types, OrgTypes
    <3>4. CASE p
      <4>1. \A u \in User : u # w /\ assigned[e][u] = "primary" => u \in seen
        BY <3>2, <3>4 DEF SecondPrimary, Primaries
      <4>2. \A u \in User : assigned'[e][u] = "primary" => u = w
        BY <3>3, <3>4, <4>1
      <4>3. \A u \in Primaries(e)' : u = w
        BY <4>2 DEF Primaries
      <4>4. QED
        BY <3>1, <4>3
    <3>5. CASE ~p
      <4>1. \A u \in User : assigned'[e][u] = "primary" => assigned[e][u] = "primary"
        BY <3>3, <3>5
      <4>2. Primaries(e)' \subseteq Primaries(e)
        BY <4>1 DEF Primaries
      <4>3. QED
        BY <3>1, <4>2
    <3>6. QED
      BY <3>4, <3>5
  <2>4. QED
    BY <1>1, <2>3
<1>4. CASE Managers
  BY <1>1, <1>2, <1>3, <1>4
     DEF Managers, CreateUser, PatchUser, Post, Unpost, AssignDivisionManager,
         RemoveDivisionManager, AssignDepartmentManager, RemoveDepartmentManager,
         AssignSectionManager, RemoveSectionManager, CheckAssignment, orgVars
<1>5. ASSUME NEW r \in Request, EraseRow(r) \/ PurgeRow(r)
      PROVE  OnePrimary'
  <2>1. PICK x : assigned' = [assigned EXCEPT ![x] = [u \in User |-> "none"]]
    BY <1>5 DEF EraseRow, PurgeRow, DeleteEmployeeRow
  <2>2. \A e \in Employee : Primaries(e)' \subseteq Primaries(e)
    BY <2>1 DEF Primaries, Types, OrgTypes
  <2>3. QED
    BY <2>2
<1>6. CASE Leaving
  BY <1>1, <1>5, <1>6
     DEF Leaving, SubmitByAdmin, SubmitByHr, PdplDelete, BulkPurge, RemoveFiles, HrDecide,
         AdminOverride, Decide, WriteDecision, Erase, Redact, ErasureFails, LifecycleCron,
         LifecycleScript, RunLifecycle, Deactivate, DayPasses, Crash, orgVars
<1>7. QED
  BY <1>1, <1>4, <1>6, UnitsFrame, CustomFieldsFrame, StaffFrame, FacesFrame, DeskFrame
     DEF Next, vars, orgVars

\* However the requests that name a primary manager interleave with one another
\* and with an erasure, an employee has at most one: the unique index refuses
\* whoever did not see, and so did not clear, the primary there is.
THEOREM OnePrimaryHolds == Spec => []OnePrimaryManager
<1>1. Init => OnePrimary
  <2>1. SUFFICES ASSUME Init, NEW e \in Employee
                 PROVE  Primaries(e) = {}
    BY DEF OnePrimary
  <2>2. \A u \in User : assigned[e][u] \in {"plain", "none"}
    BY <2>1 DEF Init
  <2>3. QED
    BY <2>2 DEF Primaries
<1>2. OnePrimary => OnePrimaryManager
  <2>1. SUFFICES ASSUME OnePrimary, NEW e \in Employee
                 PROVE  Cardinality(Primaries(e)) <= 1
    BY DEF OnePrimaryManager
  <2>2. CASE Primaries(e) = {}
    BY <2>2, FS_EmptySet
  <2>3. CASE Primaries(e) # {}
    <3>1. PICK u : u \in Primaries(e)
      BY <2>3
    <3>2. Primaries(e) = {u}
      BY <2>1, <3>1 DEF OnePrimary
    <3>3. QED
      BY <3>2, FS_Singleton
  <2>4. QED
    BY <2>2, <2>3
<1>3. QED
  BY <1>1, <1>2, TypesStart, TypesStep, OnePrimaryStep, PTL DEF Spec

(***************************************************************************)
(* Sections of another department.                                         *)
(***************************************************************************)
LEMMA PlacedStay ==
    ASSUME Types, Types', References, Next, NEW e \in Employee, Employed(e), e \notin Misplaced,
           employees'[e].dept = employees[e].dept, employees'[e].section = employees[e].section
    PROVE  e \notin Misplaced'
<1> DEFINE s == employees[e].section
<1>1. employees[e] \in EmployeeRow
  BY RowsThereAre
<1>2. CASE s = None
  BY <1>2 DEF Misplaced
<1>3. CASE s # None
  <2>1. s \in Section /\ Exists(sections, s)
    BY <1>1, <1>3 DEF EmployeeRow, References, EmployeesFit
  <2>2. sections[s].dept = employees[e].dept
    BY <1>3, <2>1 DEF Misplaced, Exists
  <2>3. sections'[s] = None \/ sections'[s].dept = sections[s].dept
    <3>1. CASE Units
      BY <2>1, <3>1, UnitsKeep
    <3>2. CASE Staff
      BY <2>1, <3>2, StaffKeeps
    <3>3. QED
      BY <3>1, <3>2, ManagersFrame, CustomFieldsFrame, FacesFrame, LeavingFrame, DeskFrame DEF Next
  <2>4. QED
    BY <2>2, <2>3 DEF Misplaced
<1>4. QED
  BY <1>2, <1>3

\* The two ways in which the second half of a PATCH misplaces its employee.
Misplaces(r, e) ==
    /\ At(r, "write") /\ ops[r].emp = e /\ ops'[r] # ops[r]
    /\ \/ DOMAIN ops[r].change \cap {"dept", "section"} = {"dept"}
       \/ /\ DOMAIN ops[r].change \cap {"dept", "section"} = {"section"}
          /\ employees[e].dept # ops[r].dept

LEMMA PlacedAfresh ==
    ASSUME Types, Types', References, Staff, NEW e \in Employee, e \in Misplaced' \ Misplaced
    PROVE  \E r \in Request : Misplaces(r, e)
<1>1. /\ Employed(e)' /\ employees'[e].section # None
      /\ sections'[employees'[e].section] # None
      /\ sections'[employees'[e].section].dept # employees'[e].dept
  BY DEF Misplaced
<1>2. ASSUME Employed(e), employees'[e].dept = employees[e].dept,
             employees'[e].section = employees[e].section
      PROVE  FALSE
  BY <1>2, PlacedStay DEF Next
<1>3. employees'[e] # employees[e]
  BY <1>1, <1>2 DEF Employed, Exists
<1>4. ASSUME NEW x \in Employee, NEW d \in Department, NEW s \in Section \cup {None},
             NEW last \in Day \cup {None}, NEW status \in {"active", "inactive"},
             CreateEmployee(x, d, s, status, last)
      PROVE  FALSE
  <2>1. /\ employees' = [employees EXCEPT ![x] =
              [dept |-> d, section |-> s, status |-> status, last |-> last]]
        /\ SectionFits(s, d) /\ sections' = sections
    BY <1>4 DEF CreateEmployee, orgVars
  <2>2. x = e
    BY <1>3, <2>1 DEF Types, OrgTypes
  <2>3. employees'[e].dept = d /\ employees'[e].section = s
    BY <2>1, <2>2 DEF Types, OrgTypes
  <2>4. QED
    BY <1>1, <2>1, <2>3 DEF SectionFits
<1>5. ASSUME NEW x \in Employee, SoftDelete(x) \/ BulkSoftDelete(x)
      PROVE  FALSE
  <2>1. Employed(x) /\ employees' = [employees EXCEPT ![x] = [employees[x] EXCEPT !.status = "inactive"]]
    BY <1>5 DEF SoftDelete, BulkSoftDelete, Types, OrgTypes
  <2>2. x = e
    BY <1>3, <2>1 DEF Types, OrgTypes
  <2>3. employees[e] \in EmployeeRow /\ employees'[e] = [employees[e] EXCEPT !.status = "inactive"]
    BY <2>1, <2>2, RowsThereAre DEF Types, OrgTypes
  <2>4. employees'[e].dept = employees[e].dept /\ employees'[e].section = employees[e].section
    BY <2>3 DEF EmployeeRow
  <2>5. QED
    BY <1>2, <2>1, <2>2, <2>4
<1>6. ASSUME NEW r \in Request, NEW row \in Rows, ImportRow(r, row)
      PROVE  FALSE
  <2>1. /\ ~SectionIsElsewhere(row)
        /\ divisions' = RowDivisions(row) /\ departments' = RowDepartments(row)
        /\ sections' = RowSections(row) /\ users' = RowUsers(row)
        /\ employees' = [employees EXCEPT ![row.emp] = RowEmployee(row)]
    BY <1>3, <1>6 DEF ImportRow
  <2>2. e = row.emp
    BY <1>3, <2>1 DEF Types, OrgTypes
  <2>3. employees'[e].dept = row.dept /\ employees'[e].section = row.section
    BY <2>1, <2>2 DEF Types, OrgTypes, RowEmployee
  <2>4. row.section \in Section
    BY <1>1, <2>3, RowsAssumption
  <2>5. \/ sections[row.section] # None /\ sections'[row.section] = sections[row.section]
        \/ sections'[row.section].dept = row.dept
    BY <1>1, <2>1, <2>3, <2>4, ImportAdds
  <2>6. QED
    BY <1>1, <2>1, <2>3, <2>5 DEF SectionIsElsewhere
<1>7. ASSUME NEW r \in Request, WritePatch(r)
      PROVE  Misplaces(r, e)
  <2> DEFINE o == ops[r]
             row == Patched(o.change, employees[e])
  <2>1. /\ o \in Patching /\ o.emp \in Employee /\ sections' = sections /\ At(r, "write")
        /\ Employed(o.emp) /\ ChangeRefers(o)
        /\ employees' = [employees EXCEPT ![o.emp] = Patched(o.change, employees[o.emp])]
        /\ Step(r, "forget") \/ Done(r)
    BY <1>3, <1>7, PatchWrites DEF orgVars, WritePatch
  <2>2. o.emp = e
    BY <1>3, <2>1 DEF Types, OrgTypes
  <2>3. Employed(e) /\ employees[e] \in EmployeeRow /\ employees'[e] = row
    BY <2>1, <2>2, RowsThereAre DEF Types, OrgTypes
  <2>4. ops'[r] # ops[r]
    <3>1. o.next = "write" /\ o # Idle
      BY <2>1 DEF At
    <3>2. CASE Done(r)
      BY <3>1, <3>2 DEF Done, Types, OpTypes
    <3>3. CASE Step(r, "forget")
      <4>1. ops'[r] = [o EXCEPT !.next = "forget"]
        BY <3>3 DEF Step, Types, OpTypes
      <4>2. ops'[r].next = "forget"
        BY <2>1, <4>1 DEF Patching
      <4>3. QED
        BY <3>1, <4>2
    <3>4. QED
      BY <2>1, <3>2, <3>3
  <2>5. /\ row.dept = IF "dept" \in DOMAIN o.change THEN o.change.dept ELSE employees[e].dept
        /\ row.section = IF "section" \in DOMAIN o.change THEN o.change.section
                         ELSE employees[e].section
    BY <2>3 DEF Patched, EmployeeRow
  <2>6. /\ "dept" \in DOMAIN o.change => o.dept = o.change.dept
        /\ "section" \in DOMAIN o.change => o.change.section = None \/ o.home = o.dept
    BY <2>1 DEF Patching
  <2> HIDE DEF row
  <2>7. CASE "section" \in DOMAIN o.change
    <3>1. o.change.section # None /\ sections[o.change.section].dept # row.dept
      BY <1>1, <2>1, <2>3, <2>5, <2>7
    <3>2. sections[o.change.section].dept = o.dept
      BY <2>1, <2>6, <2>7, <3>1 DEF ChangeRefers, SectionFits
    <3>3. "dept" \notin DOMAIN o.change /\ employees[e].dept # o.dept
      BY <2>5, <2>6, <3>1, <3>2
    <3>4. DOMAIN o.change \cap {"dept", "section"} = {"section"}
      BY <2>7, <3>3
    <3>5. QED
      BY <2>1, <2>2, <2>4, <3>3, <3>4 DEF Misplaces
  <2>8. CASE "section" \notin DOMAIN o.change
    <3>1. "dept" \in DOMAIN o.change
      BY <1>2, <2>3, <2>5, <2>8
    <3>2. DOMAIN o.change \cap {"dept", "section"} = {"dept"}
      BY <2>8, <3>1
    <3>3. QED
      BY <2>1, <2>2, <2>4, <3>2 DEF Misplaces
  <2>9. QED
    BY <2>7, <2>8
<1>8. ASSUME NEW r, NEW x, NEW change, PatchEmployee(r, x, change)
      PROVE  FALSE
  BY <1>3, <1>8 DEF PatchEmployee
<1>9. ASSUME NEW r, StartImport(r) \/ EndImport(r)
      PROVE  FALSE
  BY <1>3, <1>9 DEF StartImport, EndImport
<1>10. QED
  BY <1>4, <1>5, <1>6, <1>7, <1>8, <1>9 DEF Staff

\* No order of creating, moving, importing and deleting puts an employee into a
\* section of another department, but for the two ways the PATCH handler leaves
\* open: a move that does not mention the section, and a section that was looked
\* up in a department another PATCH has taken the employee out of meanwhile.
THEOREM MisplacedByPatch == Spec => MisplacedByPatchOnly
<1> DEFINE fine == \A e \in Misplaced' \ Misplaced : \E r \in Request : Misplaces(r, e)
<1>1. ASSUME Types, Types', References, [Next]_vars
      PROVE  fine \/ UNCHANGED vars
  <2>1. SUFFICES ASSUME Next, NEW e \in Employee, e \in Misplaced' \ Misplaced, ~Staff
                 PROVE  FALSE
    BY <1>1, PlacedAfresh DEF Misplaced
  <2>2. CASE employees'[e] = employees[e]
    <3>1. Employed(e)
      BY <2>1, <2>2 DEF Misplaced, Employed, Exists
    <3>2. QED
      BY <1>1, <2>1, <2>2, <3>1, PlacedStay
  <2>3. CASE Leaving
    <3>1. employees'[e] # Gone
      BY <2>1 DEF Misplaced, Employed, Exists
    <3>2. QED
      BY <1>1, <2>1, <2>2, <2>3, <3>1, LeavingKeeps, PlacedStay
  <2>4. QED
    BY <2>1, <2>2, <2>3, UnitsFrame, ManagersFrame, CustomFieldsFrame, FacesFrame, DeskFrame DEF Next
<1>2. QED
  BY <1>1, TypesStart, TypesStep, ReferencesStart, ReferencesStep, PTL
     DEF Spec, MisplacedByPatchOnly, Misplaces

(***************************************************************************)
(* Sessions.                                                               *)
(***************************************************************************)
\* What a step may do to a session: drop it, keep its role, or switch the role
\* for the request that asked for it.
KeepsRole(t) ==
    /\ Exists(sessions, t)
    /\ sessions'[t] \in SessionRow /\ sessions'[t].role = sessions[t].role

Switches(t) ==
    \E r \in Request :
        /\ ops[r] \in Switching /\ ops[r] # Idle /\ ops[r].token = t /\ ops'[r] = Idle
        /\ Exists(sessions, t) /\ sessions'[t].role = ops[r].want.role

SessionMoves(t) ==
    \/ sessions[t] = None
    \/ sessions'[t] = sessions[t]
    \/ sessions'[t] = Gone
    \/ KeepsRole(t)
    \/ Exists(sessions, t) /\ Switches(t)

LEMMA BrowsingMoves ==
    ASSUME Types, Browsing, NEW t \in Token
    PROVE  SessionMoves(t)
<1> USE DEF Types, AuthTypes
<1>1. CASE UNCHANGED sessions
  BY <1>1 DEF SessionMoves
<1>2. CASE \/ \E x : sessions' = [sessions EXCEPT ![x] = Gone]
           \/ sessions' = [x \in Token |->
                IF Exists(sessions, x) /\ ~sessions[x].live THEN Gone ELSE sessions[x]]
  BY <1>2 DEF SessionMoves
<1>3. ASSUME NEW x \in Token, Exists(sessions, x), NEW live \in BOOLEAN,
             sessions' = [sessions EXCEPT ![x] = [sessions[x] EXCEPT !.live = live]]
      PROVE  SessionMoves(t)
  <2>1. sessions[x] \in SessionRow
    BY <1>3, RowsThereAre
  <2>2. /\ [sessions[x] EXCEPT !.live = live] \in SessionRow
        /\ [sessions[x] EXCEPT !.live = live].role = sessions[x].role
    BY <2>1 DEF SessionRow
  <2>3. CASE x = t
    BY <1>3, <2>2, <2>3 DEF SessionMoves, KeepsRole
  <2>4. CASE x # t
    BY <1>3, <2>4 DEF SessionMoves
  <2>5. QED
    BY <2>3, <2>4
<1>4. ASSUME NEW r \in Request, SwitchRole(r), ~UNCHANGED sessions
      PROVE  SessionMoves(t)
  <2>1. ops[r] \in Switching /\ ops[r] # Idle
    BY <1>4, Stages DEF SwitchRole, At
  <2>2. PICK x \in Token, role \in Role : x = ops[r].token /\ role = ops[r].want.role
    BY <2>1 DEF Switching
  <2>3. /\ Exists(sessions, x)
        /\ sessions' = [sessions EXCEPT ![x] = [sessions[x] EXCEPT !.role = role]]
    BY <1>4, <2>2 DEF SwitchRole, SetSession
  <2>4. CASE x = t
    <3>1. sessions[t] \in SessionRow
      BY <2>3, <2>4, RowsThereAre
    <3>2. sessions'[t].role = role
      BY <2>3, <2>4, <3>1 DEF SessionRow
    <3>3. ops'[r] = Idle
      BY <1>4 DEF SwitchRole, Done, OpTypes
    <3>4. QED
      BY <2>1, <2>2, <2>3, <2>4, <3>2, <3>3 DEF SessionMoves, Switches
  <2>5. CASE x # t
    BY <2>3, <2>5 DEF SessionMoves
  <2>6. QED
    BY <2>4, <2>5
<1>5. ASSUME NEW r \in Request, TouchSession(r)
      PROVE  SessionMoves(t)
  <2>1. ops[r].token \in Token
    BY <1>5, Stages DEF TouchSession, Visiting
  <2>2. QED
    BY <1>1, <1>3, <1>5, <2>1 DEF TouchSession, SetSession
<1>6. CASE \E x \in Token : SessionIdles(x)
  BY <1>3, <1>6 DEF SessionIdles, SetSession
<1>7. QED
  BY <1>1, <1>2, <1>4, <1>5, <1>6
     DEF Browsing, Open, LoadSession, ExpireSession, LoadUser, Logout, SetPreference,
         SweepSessions, DropSession, SetSession, authVars

LEMMA EveryStepMoves ==
    ASSUME Types, [Next]_vars, NEW t \in Token
    PROVE  SessionMoves(t)
<1>1. CASE UNCHANGED sessions
  BY <1>1 DEF SessionMoves
<1>2. ASSUME NEW r \in Request, MakeSession(r)
      PROVE  SessionMoves(t)
  <2>1. /\ NewToken \in Token /\ sessions[NewToken] = None
        /\ \E row : sessions' = [sessions EXCEPT ![NewToken] = row]
    BY <1>2, NewTokenIsFree DEF MakeSession, SetSession
  <2>2. QED
    BY <2>1 DEF SessionMoves, Types, AuthTypes
<1>3. CASE SigningIn
  BY <1>1, <1>2, <1>3
     DEF SigningIn, StartLogin, StartOidc, VerifyPassword, OidcCallback, MatchClaims,
         PutOidcConfig, ResetLimiter, authVars
<1>4. CASE Operators
  BY <1>1, <1>4 DEF Operators, OpenConsole, AdmitOperator, AccessAs, SetImpersonation,
     UpdateStatus, ConsoleLogout, ConsoleLogin, ConsoleIdles, tenant, authVars
<1>5. QED
  BY <1>1, <1>3, <1>4, BrowsingMoves, UnitsFrame, ManagersFrame, CustomFieldsFrame, StaffFrame,
     FacesFrame, LeavingFrame DEF Next, access, vars, authVars

\* No request undoes what another has done to its session meanwhile: a session
\* that was deleted does not come back with the touch of a request that had
\* loaded it before, and the role a user has switched to stays until the switch
\* of a request that asks for another.
THEOREM SessionsAreNotRevived == Spec => RequestsUndoNothing
<1> DEFINE kept(t) ==
             /\ sessions[t] = Gone => sessions'[t] = Gone
             /\ (Exists(sessions, t) /\ sessions'[t] # Gone /\ sessions'[t].role # sessions[t].role)
                   => \E r \in Request : /\ ops[r] # Idle /\ ops[r].kind = "web"
                                         /\ ops[r].token = t
                                         /\ ops[r].want = [what |-> "switch", role |-> sessions'[t].role]
                                         /\ ops'[r] = Idle
<1>1. ASSUME Types, [Next]_vars, NEW t \in Token
      PROVE  kept(t)
  <2>1. SessionMoves(t)
    BY <1>1, EveryStepMoves
  <2>2. CASE Exists(sessions, t) /\ Switches(t)
    <3>1. PICK r \in Request :
            /\ ops[r] \in Switching /\ ops[r] # Idle /\ ops[r].token = t /\ ops'[r] = Idle
            /\ Exists(sessions, t) /\ sessions'[t].role = ops[r].want.role
      BY <2>2 DEF Switches
    <3>2. ops[r].kind = "web" /\ ops[r].want = [what |-> "switch", role |-> sessions'[t].role]
      BY <3>1 DEF Switching
    <3>3. QED
      BY <3>1, <3>2 DEF Exists
  <2>3. QED
    BY <2>1, <2>2, NoneAssumption DEF SessionMoves, KeepsRole, Exists
<1> HIDE DEF kept
<1>2. Types /\ [Next]_vars => [\A t \in Token : kept(t)]_vars
  BY <1>1
<1>3. QED
  BY <1>2, TypesStart, TypesStep, PTL DEF Spec, RequestsUndoNothing, kept

(***************************************************************************)
(* The faces: their files, the requests to delete them, and the matcher's  *)
(* cache, beside everything else that the tenant's services do meanwhile.  *)
(* First what the requests of the gallery may rely on.                     *)
(***************************************************************************)
\* The photo a request has read is still that of the same employee, or gone.
PhotoKnown(r) ==
    \/ photos[ops[r].photo] = Gone
    \/ Exists(photos, ops[r].photo) /\ photos[ops[r].photo].emp = ops[r].emp

ReviewsFit ==
    \A r \in Request :
        /\ At(r, "embed") \/ At(r, "approve") \/ At(r, "remove") => PhotoKnown(r)
        /\ At(r, "drop") => photos[ops[r].photo] = Gone

Uploads(r) == At(r, "row") /\ ops[r].kind = "upload"

\* An erasure has removed the directory of the employee, but not yet the row.
Erased(e) == \E r \in Request : At(r, "purge") /\ ops[r].emp = e

\* The file of an upload is there when its row comes, but after an erasure.
UploadsFit ==
    \A r \in Request : Uploads(r) =>
        /\ photos[ops[r].photo] = None
        /\ \A x \in Request : Uploads(x) /\ ops[x].photo = ops[r].photo => x = r
        /\ \/ <<ops[r].emp, ops[r].photo>> \in files
           \/ crashed
           \/ employees[ops[r].emp] = Gone
           \/ <<ops[r].emp, "purge">> \in botched
           \/ Erased(ops[r].emp)

ApprovalsErase ==
    \A r \in Request : At(r, "decide") /\ ops[r].verdict = "approved" => ops[r].erase

Life == [status : {"active", "inactive", "deleted"}, last : Day \cup {None}]

CacheFits ==
    cache \in [loaded : BOOLEAN,
               stack  : [Employee -> SUBSET (Photo \cup {"absent", "stale"})],
               life   : [Employee -> Life \cup {None}]]

(***************************************************************************)
(* Who moves a request on.                                                 *)
(***************************************************************************)
\* A request that has begun to change the gallery is moved on by its own next
\* step, or lost in a crash.
LEMMA OwnStep ==
    ASSUME Types, Next, NEW r \in Request, ops[r] # Idle, ops'[r] # ops[r], ~Crash,
           ops[r].next \in {"drop", "forget", "forget all", "erase", "purge", "redact", "purge row"}
    PROVE  \/ At(r, "drop") /\ DeleteRowAndFile(r)
           \/ Forget(r) \/ ForgetAll(r)
           \/ Erase(r) \/ EraseRow(r) \/ Redact(r) \/ PurgeRow(r) \/ ErasureFails(r)
<1>0. ops \in [Request -> AnyOp]
  BY DEF Types, OpTypes
<1> USE <1>0
<1>1. ~SigningIn
  BY DEF SigningIn, StartLogin, StartOidc, VerifyPassword, OidcCallback, MatchClaims,
         MakeSession, PutOidcConfig, ResetLimiter, At, Begin, Step, Done
<1>2. ~Browsing
  BY DEF Browsing, Open, LoadSession, ExpireSession, LoadUser, TouchSession, Logout,
         SwitchRole, SetPreference, SessionIdles, SweepSessions, At, Begin, Step, Done
<1>3. ~Operators
  BY DEF Operators, OpenConsole, AdmitOperator, AccessAs, SetImpersonation, UpdateStatus,
         ConsoleLogout, ConsoleLogin, ConsoleIdles, At, Begin, Step, Done
<1>4. ~Managers
  BY DEF Managers, CreateUser, PatchUser, AssignDivisionManager, RemoveDivisionManager,
         AssignDepartmentManager, RemoveDepartmentManager, AssignSectionManager,
         RemoveSectionManager, Post, Unpost, DeleteAssignment, CheckAssignment,
         WriteAssignment, At, Begin, Done
<1>5. ~Staff
  <2>1. ASSUME NEW x, WritePatch(x)
        PROVE  FALSE
    BY <2>1 DEF WritePatch, At, Step, Done
  <2>2. QED
    BY ZenonT(30), <2>1 DEF Staff, CreateEmployee, PatchEmployee, SoftDelete, BulkSoftDelete,
         StartImport, EndImport, ImportRow, At, Begin, Done
<1>6. ~Units /\ ~CustomFields
  BY UnitsFrame, CustomFieldsFrame
<1>7. CASE Faces
  <2>1. ~ \E x \in Request :
             \/ \E e \in Employee, p \in Photo :
                   UploadMyPhoto(x, e, p) \/ UploadPhotos(x, e, p) \/ BulkIngest(x, e, p)
             \/ \E p \in Photo :
                   ApprovePhoto(x, p) \/ RejectPhoto(x, p) \/ DeleteMyPhoto(x, p) \/ DeletePhoto(x, p)
             \/ EnrollMissing(x) \/ ReembedAll(x)
    BY ZenonT(30) DEF UploadMyPhoto, UploadPhotos, BulkIngest, Upload, ApprovePhoto, RejectPhoto,
           ReadPending, DeleteMyPhoto, DeletePhoto, Remove, EnrollMissing, ReembedAll, Begin
  <2>2. ~Match
    BY DEF Match
  <2>3. ~ \E x \in Request :
             InsertPhotoRow(x) \/ ListMissing(x) \/ EnrollPhoto(x) \/ StoreEmbedding(x) \/ WriteApproval(x)
    BY DEF InsertPhotoRow, ListMissing, EnrollPhoto, StoreEmbedding, WriteApproval, At, Step, Done
  <2>4. PICK x \in Request : DeleteRowAndFile(x) \/ Forget(x) \/ ForgetAll(x)
    BY <1>7, <2>1, <2>2, <2>3 DEF Faces
  <2>5. x = r
    BY <2>4 DEF DeleteRowAndFile, Forget, ForgetAll, Step, Done
  <2>6. QED
    BY <2>4, <2>5 DEF DeleteRowAndFile, At
<1>8. CASE Leaving
  <2>1. ASSUME NEW x \in Request, NEW op, Begin(x, op)
        PROVE  FALSE
    BY <2>1 DEF Begin
  <2>2. ~ \E x \in Request :
             \/ \E e \in Employee :
                   \/ SubmitByHr(x, e) \/ PdplDelete(x, e) \/ BulkPurge(x, e)
                   \/ \E approve \in BOOLEAN : HrDecide(x, e, approve) \/ AdminOverride(x, e, approve)
             \/ LifecycleCron(x) \/ LifecycleScript(x)
    BY ZenonT(30), <2>1 DEF SubmitByHr, PdplDelete, BulkPurge, RemoveFiles, HrDecide, AdminOverride, Decide,
                LifecycleCron, LifecycleScript, RunLifecycle
  <2>3. ~DayPasses /\ ~ \E e \in Employee : SubmitByAdmin(e)
    BY DEF DayPasses, SubmitByAdmin
  <2>4. ~ \E x \in Request : WriteDecision(x) \/ Deactivate(x)
    BY DEF WriteDecision, Deactivate, At, Step, Done
  <2>5. PICK x \in Request : Erase(x) \/ EraseRow(x) \/ Redact(x) \/ PurgeRow(x) \/ ErasureFails(x)
    BY <1>8, <2>2, <2>3, <2>4 DEF Leaving
  <2>6. x = r
    BY <2>5 DEF Erase, EraseRow, Redact, PurgeRow, ErasureFails, Step, Done
  <2>7. QED
    BY <2>5, <2>6
<1>9. QED
  BY <1>1, <1>2, <1>3, <1>4, <1>5, <1>6, <1>7, <1>8 DEF Next

(***************************************************************************)
(* The photos a request has read.                                          *)
(***************************************************************************)
\* A photo that is gone stays gone; one that exists goes or stays the photo of
\* the same employee; a new one comes from an upload.
LEMMA PhotosStay ==
    ASSUME Types, Next, NEW p \in Photo
    PROVE  /\ photos[p] = Gone => photos'[p] = Gone \/ \E r \in Request : InsertPhotoRow(r) /\ ops[r].photo = p
           /\ Exists(photos, p) =>
                \/ photos'[p] = Gone
                \/ Exists(photos, p)' /\ photos'[p].emp = photos[p].emp
                \/ \E r \in Request : InsertPhotoRow(r) /\ ops[r].photo = p
           /\ photos[p] = None =>
                \/ photos'[p] = None
                \/ \E r \in Request : (InsertPhotoRow(r) \/ DeleteRowAndFile(r)) /\ ops[r].photo = p
<1> USE DEF Types, FaceTypes
<1>1. CASE photos'[p] = photos[p]
  BY <1>1 DEF Exists
<1>2. CASE Units \/ Managers \/ CustomFields \/ Staff \/ SigningIn \/ Browsing \/ Operators
  BY <1>1, <1>2, UnitsFrame, ManagersFrame, CustomFieldsFrame, StaffFrame, DeskFrame DEF faces
<1>3. CASE Faces
  <2>1. ASSUME NEW r \in Request, ReembedAll(r) \/ StoreEmbedding(r) \/ WriteApproval(r)
        PROVE  \/ photos'[p] = photos[p]
               \/ Exists(photos, p) /\ Exists(photos, p)' /\ photos'[p].emp = photos[p].emp
    <3>1. \/ photos'[p] = photos[p]
          \/ /\ Exists(photos, p)
             /\ \/ photos'[p] \in {[photos[p] EXCEPT !.embedded = b] : b \in BOOLEAN}
                \/ photos'[p] = [photos[p] EXCEPT !.status = "approved"]
      BY <2>1 DEF ReembedAll, StoreEmbedding, WriteApproval
    <3>2. Exists(photos, p) =>
            /\ \A b \in BOOLEAN : /\ [photos[p] EXCEPT !.embedded = b].emp = photos[p].emp
                                  /\ [photos[p] EXCEPT !.embedded = b] \in PhotoRow
            /\ [photos[p] EXCEPT !.status = "approved"].emp = photos[p].emp
            /\ [photos[p] EXCEPT !.status = "approved"] \in PhotoRow
      BY DEF Exists, PhotoRow
    <3>3. QED
      BY <3>1, <3>2, NoneAssumption DEF Exists
  <2>2. ASSUME NEW r \in Request, InsertPhotoRow(r)
        PROVE  photos'[p] = photos[p] \/ ops[r].photo = p
    BY <2>2 DEF InsertPhotoRow
  <2>3. ASSUME NEW r \in Request, DeleteRowAndFile(r)
        PROVE  photos'[p] = photos[p] \/ (photos'[p] = Gone /\ ops[r].photo = p)
    BY <2>3 DEF DeleteRowAndFile
  <2>4. CASE photos' = photos
    BY <1>1, <2>4
  <2>5. CASE \/ Match
             \/ \E r \in Request :
                  \/ \E e \in Employee, x \in Photo :
                        UploadMyPhoto(r, e, x) \/ UploadPhotos(r, e, x) \/ BulkIngest(r, e, x)
                  \/ \E x \in Photo :
                        ApprovePhoto(r, x) \/ RejectPhoto(r, x) \/ DeleteMyPhoto(r, x) \/ DeletePhoto(r, x)
                  \/ EnrollMissing(r) \/ ListMissing(r) \/ EnrollPhoto(r) \/ Forget(r) \/ ForgetAll(r)
    BY <2>4, <2>5
       DEF Match, UploadMyPhoto, UploadPhotos, BulkIngest, Upload, ApprovePhoto, RejectPhoto,
           ReadPending, DeleteMyPhoto, DeletePhoto, Remove, EnrollMissing, ListMissing,
           EnrollPhoto, Forget, ForgetAll, faceVars
  <2>6. QED
    BY <1>1, <1>3, <2>1, <2>2, <2>3, <2>5, NoneAssumption DEF Faces, Exists
<1>4. CASE Leaving
  <2>1. photos'[p] = photos[p] \/ (Exists(photos, p) /\ photos'[p] = Gone)
    BY ZenonT(30), <1>4 DEF Leaving, SubmitByAdmin, SubmitByHr, PdplDelete, BulkPurge, RemoveFiles, HrDecide,
         AdminOverride, Decide, WriteDecision, Erase, EraseRow, Redact, PurgeRow, ErasureFails,
         LifecycleCron, LifecycleScript, RunLifecycle, Deactivate, DayPasses, Crash, DeleteEmployeeRow,
         PhotosWithout, PhotosOf, faceVars
  <2>2. QED
    BY <1>1, <2>1, NoneAssumption DEF Exists
<1>5. QED
  BY <1>2, <1>3, <1>4 DEF Next

LEMMA PhotosAge ==
    ASSUME Types, ReviewsFit, UploadsFit, Next, NEW p \in Photo
    PROVE  /\ photos[p] = Gone => photos'[p] = Gone
           /\ Exists(photos, p) =>
                photos'[p] = Gone \/ (Exists(photos, p)' /\ photos'[p].emp = photos[p].emp)
           /\ photos[p] = None =>
                photos'[p] = None \/ \E r \in Request : InsertPhotoRow(r) /\ ops[r].photo = p
<1>1. \A r \in Request : InsertPhotoRow(r) => photos[ops[r].photo] = None
  BY DEF UploadsFit, Uploads, InsertPhotoRow
<1>2. \A r \in Request : DeleteRowAndFile(r) => photos[ops[r].photo] # None
  BY NoneAssumption DEF ReviewsFit, PhotoKnown, DeleteRowAndFile, Exists
<1>3. QED
  BY <1>1, <1>2, PhotosStay, NoneAssumption DEF Exists

\* Only the gallery's own handlers let a request reach their steps.
LEMMA OutsideFaces ==
    ASSUME Types, Next, ~Faces, NEW r \in Request, ops'[r] # Idle,
           \/ ops'[r].next \in {"embed", "approve", "remove", "drop"}
           \/ ops'[r].next = "row" /\ ops'[r].kind = "upload"
    PROVE  ops'[r] = ops[r]
<1>1. \A x \in DataOp \cup StaffOp \cup SigningOn \cup VisitOp \cup Console :
        /\ x.next \notin {"embed", "approve", "remove", "drop"}
        /\ x.next = "row" => x.kind = "import"
  <2>1. \A x \in DataOp : x.next \notin {"embed", "approve", "remove", "drop", "row"}
    BY DEF DataOp, Deciding, Erasing, Purging, Retiring, Patching
  <2>2. \A x \in StaffOp \cup SigningOn :
          /\ x.next \notin {"embed", "approve", "remove", "drop"}
          /\ x.next = "row" => x.kind = "import"
    BY DEF StaffOp, Patching, Importing, Assigning, SigningOn
  <2>3. \A x \in VisitOp \cup Console : x.next \notin {"embed", "approve", "remove", "drop", "row"}
    BY DEF VisitOp, Arriving, Visiting, Switching, Console, ConsoleWants
  <2>4. QED
    BY <2>1, <2>2, <2>3
<1>2. \/ ops' = ops
      \/ ops'[r] \in {ops[r], Idle} \cup DataOp \cup StaffOp \cup SigningOn \cup VisitOp \cup Console
  BY LeavingOps, StaffOps, SigningOps, BrowsingOps, OperatorsOps, UnitsFrame, CustomFieldsFrame
     DEF Next, OpsBecome
<1>3. QED
  BY <1>1, <1>2

LEMMA OutsideLeaving ==
    ASSUME Types, Next, ~Leaving, NEW r \in Request, ops'[r] # Idle,
           ops'[r].next \in {"decide", "erase", "purge", "redact", "purge row"}
    PROVE  ops'[r] = ops[r]
<1>1. \A x \in FaceOp \cup StaffOp \cup SigningOn \cup VisitOp \cup Console :
        x.next \notin {"decide", "erase", "purge", "redact", "purge row"}
  <2>1. \A x \in FaceOp : x.next \notin {"decide", "erase", "purge", "redact", "purge row"}
    BY DEF FaceOp, Uploading, Surveying, Embedding, Reviewing
  <2>2. \A x \in StaffOp \cup SigningOn \cup VisitOp \cup Console :
          x.next \notin {"decide", "erase", "purge", "redact", "purge row"}
    BY DEF StaffOp, Patching, Importing, Assigning, SigningOn, VisitOp, Arriving, Visiting,
           Switching, Console, ConsoleWants
  <2>3. QED
    BY <2>1, <2>2
<1>2. \/ ops' = ops
      \/ ops'[r] \in {ops[r], Idle} \cup FaceOp \cup StaffOp \cup SigningOn \cup VisitOp \cup Console
  BY FacesOps, StaffOps, SigningOps, BrowsingOps, OperatorsOps, UnitsFrame, CustomFieldsFrame
     DEF Next, OpsBecome
<1>3. QED
  BY <1>1, <1>2

LEMMA ReviewsFitHolds ==
    ASSUME Types, ReviewsFit, UploadsFit, Next
    PROVE  ReviewsFit'
<1> DEFINE knows(r) == /\ At(r, "embed") \/ At(r, "approve") \/ At(r, "remove") => PhotoKnown(r)
                       /\ At(r, "drop") => photos[ops[r].photo] = Gone
<1> SUFFICES ASSUME NEW r \in Request PROVE knows(r)'
  BY DEF ReviewsFit
<1> HIDE DEF knows
<1>0. ops \in [Request -> AnyOp]
  BY DEF Types, OpTypes
<1> USE <1>0
<1>1. CASE ops'[r] = ops[r]
  <2>1. knows(r)
    BY DEF knows, ReviewsFit
  <2>2. CASE At(r, "embed") \/ At(r, "approve") \/ At(r, "remove") \/ At(r, "drop")
    <3>1. ops[r].photo \in Photo /\ ops[r].emp \in Employee
      BY <2>2, Stages DEF Types, Embedding, Reviewing
    <3>2. PICK p \in Photo, e \in Employee : p = ops[r].photo /\ e = ops[r].emp
      BY <3>1
    <3>3. ops'[r].photo = p /\ ops'[r].emp = e
      BY <1>1, <3>2
    <3>4. CASE photos[p] = Gone
      <4>1. photos'[p] = Gone
        BY <3>4, PhotosAge
      <4>2. QED
        BY <1>1, <3>3, <4>1 DEF knows, PhotoKnown, At
    <3>5. CASE photos[p] # Gone
      <4>1. Exists(photos, p) /\ photos[p].emp = e /\ ~At(r, "drop")
        BY <2>1, <2>2, <3>2, <3>5 DEF knows, PhotoKnown
      <4>2. photos'[p] = Gone \/ (Exists(photos, p)' /\ photos'[p].emp = e)
        BY <4>1, PhotosAge
      <4>3. QED
        BY <1>1, <3>3, <4>1, <4>2 DEF knows, PhotoKnown, At, Exists
    <3>6. QED
      BY <3>4, <3>5
  <2>3. CASE ~(At(r, "embed") \/ At(r, "approve") \/ At(r, "remove") \/ At(r, "drop"))
    BY <1>1, <2>3 DEF knows, At
  <2>4. QED
    BY <2>2, <2>3
<1>2. CASE ops'[r] = Idle
  BY <1>2 DEF knows, At
<1>3. ASSUME NEW p \in Photo, Exists(photos, p), UNCHANGED photos,
             ops'[r].photo = p, ops'[r].emp = photos[p].emp, ops'[r].next # "drop"
      PROVE  knows(r)'
  BY <1>3 DEF knows, PhotoKnown, At, Exists
<1>4. CASE Faces /\ ops'[r] # ops[r] /\ ops'[r] # Idle
  <2>1. ASSUME NEW x \in Request, NEW p \in Photo,
               ApprovePhoto(x, p) \/ RejectPhoto(x, p) \/ DeleteMyPhoto(x, p) \/ DeletePhoto(x, p)
        PROVE  knows(r)'
    <3>1. /\ Exists(photos, p) /\ photos' = photos
          /\ \E next \in {"approve", "remove"} :
                Begin(x, [kind |-> "photo", next |-> next, emp |-> photos[p].emp, photo |-> p])
      BY <2>1 DEF ApprovePhoto, RejectPhoto, ReadPending, DeleteMyPhoto, DeletePhoto, Remove, faceVars
    <3>2. ops'[r].photo = p /\ ops'[r].emp = photos[p].emp /\ ops'[r].next # "drop"
      BY <1>4, <3>1 DEF Begin
    <3>3. QED
      BY <1>3, <3>1, <3>2
  <2>2. ASSUME NEW x \in Request, EnrollPhoto(x)
        PROVE  knows(r)'
    <3>1. ops[x] \in Surveying
      BY <2>2, Stages DEF EnrollPhoto, Types
    <3>2. x = r /\ photos' = photos
      BY <1>4, <2>2 DEF EnrollPhoto, Done, faceVars
    <3>3. PICK p \in ops[r].todo :
             \/ ops'[r] = [ops[r] EXCEPT !.todo = @ \ {p}]
             \/ /\ Exists(photos, p)
                /\ ops'[r] = [[ops[r] EXCEPT !.todo = @ \ {p}] EXCEPT
                                !.next = "embed", !.photo = p, !.emp = photos[p].emp]
      BY <1>4, <2>2, <3>2 DEF EnrollPhoto, Done
    <3>4. CASE ops'[r] = [ops[r] EXCEPT !.todo = @ \ {p}]
      <4>1. ops[r].next = "pick"
        BY <2>2, <3>2 DEF EnrollPhoto, At
      <4>2. ops'[r].next = "pick"
        BY <3>1, <3>2, <3>4, <4>1 DEF Surveying
      <4>3. QED
        BY <4>2 DEF knows, At
    <3>5. CASE ops'[r] # [ops[r] EXCEPT !.todo = @ \ {p}]
      <4>1. p \in Photo
        BY <3>1, <3>2 DEF Surveying
      <4>2. ops'[r].photo = p /\ ops'[r].emp = photos[p].emp /\ ops'[r].next = "embed"
        BY <3>1, <3>2, <3>3, <3>5 DEF Surveying
      <4>3. QED
        BY <1>3, <3>2, <3>3, <3>5, <4>1, <4>2
    <3>6. QED
      BY <3>4, <3>5
  <2>3. ASSUME NEW x \in Request, DeleteRowAndFile(x)
        PROVE  knows(r)'
    <3>1. ops[x] \in Reviewing
      BY <2>3, Stages DEF DeleteRowAndFile, Types
    <3>2. x = r
      BY <1>4, <2>3 DEF DeleteRowAndFile, Step
    <3>3. CASE Step(r, "forget")
      <4>1. ops'[r].next = "forget"
        BY <3>1, <3>2, <3>3 DEF Step, Reviewing
      <4>2. QED
        BY <4>1 DEF knows, At
    <3>4. CASE photos' = [photos EXCEPT ![ops[r].photo] = Gone] /\ Step(r, "drop")
      <4>1. PICK p \in Photo : p = ops[r].photo
        BY <3>1, <3>2 DEF Reviewing
      <4>2. ops'[r].next = "drop" /\ ops'[r].photo = p
        BY <3>1, <3>2, <3>4, <4>1 DEF Step, Reviewing
      <4>3. photos'[p] = Gone
        BY <3>4, <4>1 DEF Types, FaceTypes
      <4>4. QED
        BY <4>2, <4>3 DEF knows, At
    <3>5. QED
      BY <2>3, <3>2, <3>3, <3>4 DEF DeleteRowAndFile
  <2>4. ASSUME ops'[r].next \notin {"embed", "approve", "remove", "drop"}
        PROVE  knows(r)'
    BY <2>4 DEF knows, At
  <2>5. ASSUME NEW x \in Request,
               \/ \E e \in Employee, p \in Photo :
                     UploadMyPhoto(x, e, p) \/ UploadPhotos(x, e, p) \/ BulkIngest(x, e, p)
               \/ EnrollMissing(x) \/ ReembedAll(x)
        PROVE  knows(r)'
    <3>1. ASSUME NEW e, NEW p, NEW status, NEW own, Upload(x, e, p, status, own)
          PROVE  knows(r)'
      <4>1. ops'[r] = [kind |-> "upload", next |-> "row", emp |-> e, photo |-> p,
                       status |-> status, own |-> own]
        BY <1>4, <3>1 DEF Upload, Begin
      <4>2. QED
        BY <2>4, <4>1
    <3>2. CASE EnrollMissing(x)
      <4>1. ops'[r] = [kind |-> "enroll", next |-> "list", emp |-> None, photo |-> None, todo |-> {}]
        BY <1>4, <3>2 DEF EnrollMissing, Begin
      <4>2. QED
        BY <2>4, <4>1
    <3>3. CASE ReembedAll(x)
      <4> DEFINE op == [kind |-> "enroll", next |-> "forget all", emp |-> None, photo |-> None,
                        todo |-> {}]
      <4>1. op.next = "forget all"
        OBVIOUS
      <4>2. ops'[r] = op
        BY <1>4, <3>3 DEF ReembedAll, Begin
      <4> HIDE DEF op
      <4>3. QED
        BY <2>4, <4>1, <4>2
    <3>4. QED
      BY <2>5, <3>1, <3>2, <3>3 DEF UploadMyPhoto, UploadPhotos, BulkIngest
  <2>6. ASSUME NEW x \in Request, InsertPhotoRow(x)
        PROVE  knows(r)'
    BY <1>4, <2>4, <2>6 DEF InsertPhotoRow, Done
  <2>7. ASSUME NEW x \in Request, ListMissing(x) \/ StoreEmbedding(x) \/ WriteApproval(x) \/ Forget(x) \/ ForgetAll(x)
        PROVE  knows(r)'
    <3>1. x = r
      BY <1>4, <2>7 DEF ListMissing, StoreEmbedding, WriteApproval, Forget, ForgetAll, Step, Done
    <3>2. ops[r] \in Surveying \cup Embedding \cup Reviewing \cup DataOp
      BY <2>7, <3>1, Stages DEF ListMissing, StoreEmbedding, WriteApproval, Forget, ForgetAll, Types, DataOp
    <3>3. \A next : [ops[r] EXCEPT !.next = next].next = next
      BY <3>2 DEF Surveying, Embedding, Reviewing, DataOp, Deciding, Erasing, Purging, Retiring, Patching
    <3>4. CASE ListMissing(x)
      <4>1. ops[r] \in Surveying
        BY <3>1, <3>4, Stages DEF ListMissing, Types
      <4>2. ops'[r].next = "pick"
        BY <3>1, <3>4, <4>1 DEF ListMissing, Surveying
      <4>3. QED
        BY <2>4, <4>2
    <3>5. ASSUME ~ListMissing(x)
          PROVE  Done(r) \/ Step(r, "forget") \/ Step(r, "pick") \/ Step(r, "list")
      BY <2>7, <3>1, <3>5, Zenon DEF StoreEmbedding, WriteApproval, Forget, ForgetAll
    <3>6. ASSUME NEW next \in {"forget", "pick", "list"}, Step(r, next)
          PROVE  ops'[r].next = next
      BY <1>4, <3>3, <3>6 DEF Step
    <3>7. CASE Done(r)
      <4>1. ops'[r] = Idle
        BY <1>4, <3>7 DEF Done
      <4>2. QED
        BY <4>1 DEF knows, At
    <3>8. QED
      BY <2>4, <3>4, <3>5, <3>6, <3>7
  <2>8. QED
    BY <1>4, <2>1, <2>2, <2>3, <2>5, <2>6, <2>7 DEF Faces, Match
<1>5. CASE ~Faces
  BY <1>1, <1>2, <1>5, OutsideFaces DEF knows, At
<1>6. QED
  BY <1>1, <1>2, <1>4, <1>5

(***************************************************************************)
(* Approved delete requests.                                               *)
(***************************************************************************)
LEMMA ApprovalsEraseHolds ==
    ASSUME Types, ApprovalsErase, Next
    PROVE  ApprovalsErase'
<1> DEFINE fits(r) == At(r, "decide") /\ ops[r].verdict = "approved" => ops[r].erase
<1> SUFFICES ASSUME NEW r \in Request PROVE fits(r)'
  BY DEF ApprovalsErase
<1> HIDE DEF fits
<1>0. ops \in [Request -> AnyOp]
  BY DEF Types, OpTypes
<1> USE <1>0
<1>1. CASE ops'[r] = ops[r]
  BY <1>1 DEF fits, ApprovalsErase, At
<1>2. CASE ops'[r] = Idle
  BY <1>2 DEF fits, At
<1>3. CASE ops'[r].next # "decide"
  BY <1>3 DEF fits, At
<1>4. CASE ~Leaving
  BY <1>1, <1>2, <1>3, <1>4, OutsideLeaving
<1>5. CASE Leaving /\ ops'[r] # ops[r] /\ ops'[r] # Idle
  <2>1. ASSUME NEW x \in Request, NEW e \in Employee, NEW approve \in BOOLEAN,
               HrDecide(x, e, approve) \/ AdminOverride(x, e, approve)
        PROVE  fits(r)'
    <3>1. PICK verdict, i : /\ verdict = "approved" => approve
                            /\ Begin(x, [kind |-> "erase", next |-> "decide", emp |-> e, index |-> i,
                                         verdict |-> verdict, erase |-> approve])
      BY <2>1 DEF HrDecide, AdminOverride, Decide
    <3> DEFINE op == [kind |-> "erase", next |-> "decide", emp |-> e, index |-> i,
                      verdict |-> verdict, erase |-> approve]
    <3>2. op.verdict = verdict /\ op.erase = approve
      OBVIOUS
    <3>3. ops'[r] = op
      BY <1>5, <3>1 DEF Begin
    <3> HIDE DEF op
    <3>4. QED
      BY <3>1, <3>2, <3>3 DEF fits
  <2>2. ASSUME NEW x \in Request, NEW e \in Employee, SubmitByHr(x, e)
        PROVE  fits(r)'
    <3>1. ops'[r] = [kind |-> "erase", next |-> "erase", emp |-> e]
      BY <1>5, <2>2 DEF SubmitByHr, Begin
    <3>2. QED
      BY <1>3, <3>1
  <2>3. ASSUME NEW x \in Request, NEW e \in Employee, PdplDelete(x, e) \/ BulkPurge(x, e)
        PROVE  fits(r)'
    <3> DEFINE op(next) == [kind |-> "pdpl", next |-> next, emp |-> e, seen |-> PhotosOf(e) # {}]
    <3>1. ops'[r] = op("redact") \/ ops'[r] = op("purge row")
      BY <1>5, <2>3 DEF PdplDelete, BulkPurge, RemoveFiles, Begin
    <3>2. op("redact").next # "decide" /\ op("purge row").next # "decide"
      OBVIOUS
    <3> HIDE DEF op
    <3>3. QED
      BY <1>3, <3>1, <3>2
  <2>4. ASSUME NEW x \in Request, LifecycleCron(x) \/ LifecycleScript(x)
        PROVE  fits(r)'
    <3>1. \E kind : ops'[r] = [kind |-> kind, next |-> "deactivate", leavers |-> Leavers]
      BY <1>5, <2>4 DEF LifecycleCron, LifecycleScript, RunLifecycle, Begin
    <3>2. QED
      BY <1>3, <3>1
  <2>5. ASSUME NEW x \in Request,
               WriteDecision(x) \/ Erase(x) \/ EraseRow(x) \/ Redact(x) \/ PurgeRow(x) \/ Deactivate(x)
        PROVE  fits(r)'
    <3>1. x = r
      BY <1>5, <2>5 DEF WriteDecision, Erase, EraseRow, Redact, PurgeRow, Deactivate, Step, Done
    <3>2. ops[r] \in DataOp
      BY <2>5, <3>1, Stages
         DEF WriteDecision, Erase, EraseRow, Redact, PurgeRow, Deactivate, Types, DataOp
    <3>3. \A next : [ops[r] EXCEPT !.next = next].next = next
      BY <3>2 DEF DataOp, Deciding, Erasing, Purging, Retiring, Patching
    <3>4. \E next \in {"erase", "purge", "forget", "forget all"} : Step(r, next)
      BY <1>5, <2>5, <3>1 DEF WriteDecision, Erase, EraseRow, Redact, PurgeRow, Deactivate, Done
    <3>5. QED
      BY <1>3, <3>3, <3>4 DEF Step
  <2>6. ASSUME NEW x \in Request, ErasureFails(x)
        PROVE  FALSE
    BY <1>5, <2>6 DEF ErasureFails, Done
  <2>7. QED
    BY <1>5, <2>1, <2>2, <2>3, <2>4, <2>5, <2>6 DEF Leaving, SubmitByAdmin, DayPasses, Crash
<1>6. QED
  BY <1>1, <1>2, <1>4, <1>5

Approved(e) == \E i \in DOMAIN deletes[e] : deletes[e][i] = "approved"

Erasure(r, e) == (At(r, "erase") \/ At(r, "purge")) /\ ops[r].emp = e

\* Where an approval comes from.
LEMMA ApprovedBy ==
    ASSUME Types, References, ApprovalsErase, Leaving, NEW e \in Employee,
           Approved(e)', Employed(e)'
    PROVE  /\ Employed(e)
           /\ Approved(e) \/ \E r \in Request : Erasure(r, e)'
<1> USE DEF Types, FaceTypes, OpTypes
<1>1. Employed(e)
  <2>1. employees'[e] \notin {None, Gone} /\ e # None
    BY DEF Employed, Exists
  <2>2. QED
    BY <2>1, LeavingKeeps DEF Employed, Exists
<1>2. deletes'[e] = deletes[e] => Approved(e)
  BY DEF Approved
<1>3. ASSUME NEW x \in Employee, SubmitByAdmin(x)
      PROVE  Approved(e)
  <2>1. deletes'[e] = deletes[e] \/ (x = e /\ deletes'[e] = Append(deletes[e], "pending"))
    BY <1>3 DEF SubmitByAdmin
  <2>2. PICK i \in DOMAIN deletes'[e] : deletes'[e][i] = "approved"
    BY DEF Approved
  <2>3. deletes[e] \in Seq(Verdict)
    OBVIOUS
  <2>4. CASE deletes'[e] = Append(deletes[e], "pending")
    BY <2>2, <2>3, <2>4 DEF Approved
  <2>5. QED
    BY <1>2, <2>1, <2>4
<1>4. ASSUME NEW r \in Request, NEW x \in Employee, SubmitByHr(r, x)
      PROVE  Approved(e) \/ Erasure(r, e)'
  <2>1. CASE x = e
    <3>1. ops'[r] = [kind |-> "erase", next |-> "erase", emp |-> e]
      BY <1>4, <2>1 DEF SubmitByHr, Begin
    <3>2. QED
      BY <3>1 DEF Erasure, At, Idle
  <2>2. CASE x # e
    BY <1>2, <1>4, <2>2 DEF SubmitByHr
  <2>3. QED
    BY <2>1, <2>2
<1>5. ASSUME NEW r \in Request, WriteDecision(r)
      PROVE  Approved(e) \/ Erasure(r, e)'
  <2>1. ops[r] \in Deciding
    BY <1>5, Stages DEF WriteDecision
  <2>2. CASE ops[r].emp = e /\ ops[r].verdict = "approved"
    <3>1. ops' = [ops EXCEPT ![r] = [ops[r] EXCEPT !.next = "erase"]]
      BY <1>5, <2>2 DEF WriteDecision, ApprovalsErase, Step
    <3>2. ops'[r].next = "erase" /\ ops'[r].emp = e /\ ops'[r].kind = "erase"
      BY <2>1, <2>2, <3>1 DEF Deciding
    <3>3. QED
      BY <3>2 DEF Erasure, At, Idle
  <2>3. CASE ops[r].emp # e \/ ops[r].verdict # "approved"
    <3>1. PICK x \in Employee, i \in Nat, verdict \in Verdict :
             x = ops[r].emp /\ i = ops[r].index /\ verdict = ops[r].verdict
      BY <2>1 DEF Deciding
    <3>2. deletes'[e] = deletes[e] \/ (x = e /\ i \in DOMAIN deletes[e]
                                        /\ deletes'[e] = [deletes[e] EXCEPT ![i] = verdict])
      BY <1>5, <3>1 DEF WriteDecision
    <3>3. CASE x = e /\ i \in DOMAIN deletes[e] /\ deletes'[e] = [deletes[e] EXCEPT ![i] = verdict]
      <4>1. verdict # "approved"
        BY <2>3, <3>1, <3>3
      <4>2. PICK j \in DOMAIN deletes'[e] : deletes'[e][j] = "approved"
        BY DEF Approved
      <4>3. j # i /\ j \in DOMAIN deletes[e] /\ deletes[e][j] = "approved"
        BY <3>3, <4>1, <4>2
      <4>4. QED
        BY <4>3 DEF Approved
    <3>4. QED
      BY <1>2, <3>2, <3>3
  <2>4. QED
    BY <2>2, <2>3
<1>6. ASSUME NEW r \in Request, EraseRow(r) \/ PurgeRow(r)
      PROVE  deletes'[e] = deletes[e]
  <2>1. DeleteEmployeeRow(ops[r].emp) /\ ops[r].emp \in Employee
    BY <1>6, Stages DEF EraseRow, PurgeRow, Deciding, Erasing, Purging
  <2>2. ops[r].emp # e
    BY <2>1 DEF DeleteEmployeeRow, Employed, Exists, OrgTypes
  <2>3. QED
    BY <2>1, <2>2 DEF DeleteEmployeeRow
<1>7. QED
  BY <1>1, <1>2, <1>3, <1>4, <1>5, <1>6
     DEF Leaving, PdplDelete, BulkPurge, RemoveFiles, HrDecide, AdminOverride, Decide, Erase,
         Redact, ErasureFails, LifecycleCron, LifecycleScript, RunLifecycle, Deactivate, DayPasses,
         Crash, faceVars

\* The transaction that erases an employee has failed.
Botched(e) == <<e, "erase">> \in botched \/ <<e, "purge">> \in botched

\* What erases on behalf of an approval goes on until the row is gone or it fails.
LEMMA ErasureGoesOn ==
    ASSUME Types, Next, ~Crash, NEW r \in Request, NEW e \in Employee, Erasure(r, e), Employed(e)'
    PROVE  Erasure(r, e)' \/ Botched(e)'
<1>0. ops \in [Request -> AnyOp] /\ ops[r] \in Deciding \cup Erasing
  BY Stages DEF Types, OpTypes, Erasure
<1> USE <1>0
<1>1. CASE ops'[r] = ops[r]
  BY <1>1 DEF Erasure, At
<1>2. CASE ops'[r] # ops[r]
  <2>1. Erase(r) \/ EraseRow(r) \/ ErasureFails(r)
    BY <1>2, OwnStep DEF Erasure, At, Forget, ForgetAll, Redact, PurgeRow
  <2>6. CASE ErasureFails(r)
    BY <2>6 DEF ErasureFails, Erasure, At, Botched
  <2>2. CASE EraseRow(r)
    <3>1. DeleteEmployeeRow(e)
      BY <2>2 DEF EraseRow, Erasure
    <3>2. employees'[e] = Gone
      BY <3>1 DEF DeleteEmployeeRow, Types, OrgTypes
    <3>3. QED
      BY <3>2 DEF Employed, Exists
  <2>3. CASE Erase(r) /\ ~Employed(e)
    <3>1. employees' = employees
      BY <2>3 DEF Erase
    <3>2. QED
      BY <2>3, <3>1 DEF Employed, Exists
  <2>4. CASE Erase(r) /\ Employed(e)
    <3>1. ops' = [ops EXCEPT ![r] = [ops[r] EXCEPT !.next = "purge"]]
      BY <2>4 DEF Erase, Erasure, Step
    <3>2. ops'[r].next = "purge" /\ ops'[r].emp = ops[r].emp /\ ops'[r].kind = ops[r].kind
      BY <3>1 DEF Deciding, Erasing
    <3>3. ops[r].kind = "erase"
      BY DEF Deciding, Erasing
    <3>4. QED
      BY <3>2, <3>3 DEF Erasure, At, Idle
  <2>5. QED
    BY <2>1, <2>2, <2>3, <2>4, <2>6
<1>3. QED
  BY <1>1, <1>2

Stranded ==
    \A e \in Employee : Employed(e) /\ Approved(e) =>
        crashed \/ Botched(e) \/ \E r \in Request : Erasure(r, e)

\* That the process has died, and that an erasure has failed, stays true.
LEMMA CrashedStays ==
    ASSUME Next
    PROVE  /\ crashed => crashed'
           /\ botched \subseteq botched'
<1>1. Leaving => (crashed' = crashed \/ crashed' = TRUE) /\ botched \subseteq botched'
  BY ZenonT(30) DEF Leaving, SubmitByAdmin, SubmitByHr, PdplDelete, BulkPurge, RemoveFiles,
       HrDecide, AdminOverride, Decide, WriteDecision, Erase, EraseRow, Redact, PurgeRow,
       ErasureFails, LifecycleCron, LifecycleScript, RunLifecycle, Deactivate, DayPasses, Crash, world
<1>2. QED
  BY <1>1, UnitsFrame, ManagersFrame, CustomFieldsFrame, StaffFrame, FacesFrame, DeskFrame DEF Next

LEMMA StrandedStep ==
    ASSUME Types, References, ApprovalsErase, Stranded, [Next]_vars
    PROVE  Stranded'
<1> SUFFICES ASSUME NEW e \in Employee, Employed(e)', Approved(e)'
             PROVE  crashed' \/ Botched(e)' \/ \E r \in Request : Erasure(r, e)'
  BY DEF Stranded
<1>1. CASE UNCHANGED vars
  BY <1>1 DEF vars, orgVars, faceVars, world, Stranded, Employed, Exists, Approved, Erasure, At,
              Botched
<1>2. CASE Crash
  BY <1>2 DEF Crash
<1>3. CASE Next /\ ~Crash
  <2>1. CASE Employed(e) /\ Approved(e)
    <3>1. crashed \/ Botched(e) \/ \E r \in Request : Erasure(r, e)
      BY <2>1 DEF Stranded
    <3>2. /\ crashed => crashed'
          /\ Botched(e) => Botched(e)'
      BY <1>3, CrashedStays DEF Botched
    <3>3. QED
      BY <1>3, <3>1, <3>2, ErasureGoesOn
  <2>2. CASE Leaving
    BY <1>3, <2>1, <2>2, ApprovedBy
  <2>3. CASE ~Leaving
    <3>1. deletes' = deletes
      BY <1>3, <2>3, UnitsFrame, ManagersFrame, CustomFieldsFrame, StaffFrame, FacesFrame, DeskFrame
         DEF Next, faces
    <3>2. Approved(e)
      BY <3>1 DEF Approved
    <3>3. Employed(e)
      <4>1. deletes[e] = <<>> => ~Approved(e)
        BY DEF Approved
      <4>2. QED
        BY <3>2, <4>1 DEF References, LeaversLeaveNothing
    <3>4. QED
      BY <2>1, <3>2, <3>3
  <2>4. QED
    BY <2>2, <2>3
<1>4. QED
  BY <1>1, <1>2, <1>3

\* However decisions, erasures and everything else interleave, a delete request
\* that was approved has its employee erased, unless the process dies between
\* the decision and the deletion or the transaction of the deletion fails: the
\* two are separate transactions.
THEOREM ApprovalsAreCarriedOut == Spec => []OnlyFailuresStrandApproval
<1>1. Init => ApprovalsErase /\ Stranded
  <2>1. SUFFICES ASSUME Init
                 PROVE  ApprovalsErase /\ Stranded
    OBVIOUS
  <2>2. ApprovalsErase
    BY <2>1 DEF Init, ApprovalsErase, At
  <2>3. ASSUME NEW e \in Employee
        PROVE  ~Approved(e)
    <3>1. deletes[e] = <<>> \/ deletes[e] = <<"pending">>
      BY <2>1 DEF Init
    <3>2. QED
      BY <3>1 DEF Approved
  <2>4. QED
    BY <2>2, <2>3 DEF Stranded
<1>2. ApprovalsErase /\ UNCHANGED vars => ApprovalsErase'
  BY DEF vars, ApprovalsErase, At
<1>3. Types /\ ApprovalsErase /\ [Next]_vars => ApprovalsErase'
  BY <1>2, ApprovalsEraseHolds
<1>4. Stranded => OnlyFailuresStrandApproval
  BY DEF Stranded, OnlyFailuresStrandApproval, Approved, Erasure, Botched
<1>5. QED
  BY <1>1, <1>3, <1>4, TypesStart, TypesStep, ReferencesStart, ReferencesStep, StrandedStep, PTL DEF Spec

(***************************************************************************)
(* Files.                                                                  *)
(***************************************************************************)
LEMMA WhoUploads ==
    ASSUME Types, Next, NEW r \in Request, Uploads(r)', ops'[r] # ops[r]
    PROVE  \E e \in Employee, p \in Photo, status \in {"pending", "approved"}, own \in BOOLEAN :
              Upload(r, e, p, status, own)
<1>0. ops \in [Request -> AnyOp]
  BY DEF Types, OpTypes
<1> USE <1>0
<1>1. ops'[r] # Idle /\ ops'[r].next = "row" /\ ops'[r].kind = "upload"
  BY DEF Uploads, At
<1>2. Faces
  BY <1>1, OutsideFaces
<1>3. ASSUME NEW x \in Request, NEW p \in Photo,
             ApprovePhoto(x, p) \/ RejectPhoto(x, p) \/ DeleteMyPhoto(x, p) \/ DeletePhoto(x, p)
      PROVE  FALSE
  <2>1. \E next \in {"approve", "remove"} :
           Begin(x, [kind |-> "photo", next |-> next, emp |-> photos[p].emp, photo |-> p])
    BY <1>3 DEF ApprovePhoto, RejectPhoto, ReadPending, DeleteMyPhoto, DeletePhoto, Remove
  <2>2. ops'[r].kind = "photo"
    BY <2>1 DEF Begin
  <2>3. QED
    BY <1>1, <2>2
<1>4. ASSUME NEW x \in Request, EnrollMissing(x) \/ ReembedAll(x)
      PROVE  FALSE
  <2> DEFINE op(next) == [kind |-> "enroll", next |-> next, emp |-> None, photo |-> None,
                          todo |-> {}]
  <2>1. ops'[r] = op("list") \/ ops'[r] = op("forget all")
    BY <1>4 DEF EnrollMissing, ReembedAll, Begin
  <2>2. \A next : op(next).kind = "enroll"
    OBVIOUS
  <2> HIDE DEF op
  <2>3. QED
    BY <1>1, <2>1, <2>2
<1>5. ASSUME NEW x \in Request, InsertPhotoRow(x)
      PROVE  FALSE
  <2> DEFINE op(e, p) == [kind |-> "enroll", next |-> "pick", emp |-> e, photo |-> p,
                          todo |-> {p}]
  <2>1. ops'[r] = op(ops[x].emp, ops[x].photo)
    BY <1>1, <1>5 DEF InsertPhotoRow, Done
  <2>2. \A e, p : op(e, p).kind = "enroll"
    OBVIOUS
  <2> HIDE DEF op
  <2>3. QED
    BY <1>1, <2>1, <2>2
<1>6. ASSUME NEW x \in Request,
             ListMissing(x) \/ EnrollPhoto(x) \/ StoreEmbedding(x) \/ WriteApproval(x)
                \/ DeleteRowAndFile(x) \/ Forget(x) \/ ForgetAll(x)
      PROVE  FALSE
  <2>1. x = r
    BY <1>6 DEF ListMissing, EnrollPhoto, StoreEmbedding, WriteApproval, DeleteRowAndFile, Forget,
                ForgetAll, Step, Done
  <2>2. ops[r] \in Surveying \cup Embedding \cup Reviewing \cup DataOp
    BY <1>6, <2>1, Stages
       DEF ListMissing, EnrollPhoto, StoreEmbedding, WriteApproval, DeleteRowAndFile, Forget,
           ForgetAll, Types, DataOp
  <2>3. ops[r].kind # "upload"
    BY <2>2 DEF Surveying, Embedding, Reviewing, DataOp, Deciding, Erasing, Purging, Retiring, Patching
  <2>4. \A next : [ops[r] EXCEPT !.next = next].kind = ops[r].kind
    BY <2>2 DEF Surveying, Embedding, Reviewing, DataOp, Deciding, Erasing, Purging, Retiring, Patching
  <2>5. CASE Step(r, "forget") \/ Step(r, "drop") \/ Step(r, "pick") \/ Step(r, "list") \/ Done(r)
    BY <1>1, <2>3, <2>4, <2>5 DEF Step, Done, Idle
  <2>6. CASE EnrollPhoto(r) /\ ~Done(r)
    <3>1. ops[r] \in Surveying
      BY <2>6, Stages DEF EnrollPhoto, Types
    <3>2. PICK p \in ops[r].todo :
             \/ ops'[r] = [ops[r] EXCEPT !.todo = @ \ {p}]
             \/ ops'[r] = [[ops[r] EXCEPT !.todo = @ \ {p}] EXCEPT
                                !.next = "embed", !.photo = p, !.emp = photos[p].emp]
      BY <2>6 DEF EnrollPhoto
    <3>3. ops'[r].kind = "enroll"
      BY <3>1, <3>2 DEF Surveying
    <3>4. QED
      BY <1>1, <3>3
  <2>7. CASE ListMissing(r)
    <3>1. ops[r] \in Surveying
      BY <2>7, Stages DEF ListMissing, Types
    <3>2. ops'[r].kind = "enroll"
      BY <2>7, <3>1 DEF ListMissing, Surveying
    <3>3. QED
      BY <1>1, <3>2
  <2>8. QED
    BY <1>6, <2>1, <2>5, <2>6, <2>7
       DEF StoreEmbedding, WriteApproval, DeleteRowAndFile, Forget, ForgetAll
<1>7. PICK x \in Request, e \in Employee, p \in Photo, status \in {"pending", "approved"},
           own \in BOOLEAN : Upload(x, e, p, status, own)
  BY <1>2, <1>3, <1>4, <1>5, <1>6
     DEF Faces, Match, UploadMyPhoto, UploadPhotos, BulkIngest
<1>8. x = r
  BY <1>7 DEF Upload, Begin
<1>9. QED
  BY <1>7, <1>8

\* The id of an employee who is gone is not handed out again.
LEMMA GoneStays ==
    ASSUME Types, Next, NEW e \in Employee, employees[e] = Gone
    PROVE  employees'[e] = Gone
<1> USE DEF Types, OrgTypes
<1>1. ~Employed(e)
  BY DEF Employed, Exists
<1>2. CASE Leaving
  <2>1. employees'[e] \in {employees[e], Gone}
    BY <1>1, <1>2, LeavingKeeps
  <2>2. QED
    BY <2>1
<1>3. CASE Staff
  <2>1. ASSUME NEW x, NEW d, NEW s, NEW status, NEW last, CreateEmployee(x, d, s, status, last)
        PROVE  employees'[e] = Gone
    BY <2>1, NoneAssumption DEF CreateEmployee
  <2>2. ASSUME NEW r, NEW x, NEW change, PatchEmployee(r, x, change)
        PROVE  employees'[e] = Gone
    BY <2>2 DEF PatchEmployee
  <2>3. ASSUME NEW x, SoftDelete(x) \/ BulkSoftDelete(x)
        PROVE  employees'[e] = Gone
    BY <1>1, <2>3 DEF SoftDelete, BulkSoftDelete
  <2>4. ASSUME NEW r, NEW row, ImportRow(r, row)
        PROVE  employees'[e] = Gone
    <3>1. row.emp # e
      BY <2>4 DEF ImportRow
    <3>2. employees' = employees \/ employees' = [employees EXCEPT ![row.emp] = RowEmployee(row)]
      BY <2>4 DEF ImportRow
    <3>3. QED
      BY <3>1, <3>2
  <2>5. ASSUME NEW r, StartImport(r) \/ EndImport(r)
        PROVE  employees'[e] = Gone
    BY <2>5 DEF StartImport, EndImport
  <2>6. ASSUME NEW r, WritePatch(r)
        PROVE  employees'[e] = Gone
    BY <1>1, <2>6 DEF WritePatch
  <2>7. QED
    BY <1>3, <2>1, <2>2, <2>3, <2>4, <2>5, <2>6 DEF Staff
<1>4. QED
  BY <1>2, <1>3, UnitsFrame, ManagersFrame, CustomFieldsFrame, FacesFrame, DeskFrame DEF Next

\* What takes a file away.
LEMMA FilesStay ==
    ASSUME Types, Next, NEW e \in Employee, NEW p \in Photo, <<e, p>> \in files, <<e, p>> \notin files'
    PROVE  \/ \E r \in Request : /\ At(r, "drop") /\ DeleteRowAndFile(r)
                                 /\ ops[r].emp = e /\ ops[r].photo = p
           \/ \E r \in Request : Erase(r) /\ Employed(e) /\ ops[r].emp = e
           \/ /\ p \in PhotosOf(e)
              /\ \E r \in Request : PdplDelete(r, e) \/ BulkPurge(r, e)
<1>1. files' # files
  OBVIOUS
<1>2. Faces \/ Leaving
  BY <1>1, UnitsFrame, ManagersFrame, CustomFieldsFrame, StaffFrame, DeskFrame DEF Next, faces
<1>3. CASE Faces
  <2>1. files \subseteq files' \/ \E r \in Request : DeleteRowAndFile(r)
    BY ZenonT(30), <1>3 DEF Faces, Match, UploadMyPhoto, UploadPhotos, BulkIngest, Upload, ApprovePhoto,
         RejectPhoto, ReadPending, DeleteMyPhoto, DeletePhoto, Remove, EnrollMissing, ReembedAll,
         InsertPhotoRow, ListMissing, EnrollPhoto, StoreEmbedding, WriteApproval, Forget, ForgetAll,
         faceVars
  <2>2. QED
    BY <2>1 DEF DeleteRowAndFile
<1>4. CASE Leaving
  <2>1. CASE \E r \in Request : Erase(r)
    BY <1>1, <2>1 DEF Erase
  <2>2. CASE \E r \in Request, x \in Employee : PdplDelete(r, x) \/ BulkPurge(r, x)
    BY <2>2 DEF PdplDelete, BulkPurge, RemoveFiles
  <2>3. QED
    BY <1>1, <1>4, <2>1, <2>2
       DEF Leaving, SubmitByAdmin, SubmitByHr, HrDecide, AdminOverride, Decide, WriteDecision,
           EraseRow, Redact, PurgeRow, ErasureFails, LifecycleCron, LifecycleScript, RunLifecycle,
           Deactivate, DayPasses, Crash, faceVars
<1>5. QED
  BY <1>2, <1>3, <1>4

LEMMA ErasedGoesOn ==
    ASSUME Types, Next, ~Crash, NEW e \in Employee, Erased(e)
    PROVE  Erased(e)' \/ employees'[e] = Gone \/ <<e, "purge">> \in botched'
<1>1. PICK r \in Request : At(r, "purge") /\ ops[r].emp = e
  BY DEF Erased
<1>2. CASE ops'[r] = ops[r]
  BY <1>1, <1>2 DEF Erased, At
<1>3. CASE ops'[r] # ops[r]
  <2>1. EraseRow(r) \/ ErasureFails(r)
    BY <1>1, <1>3, OwnStep DEF At, DeleteRowAndFile, Forget, ForgetAll, Erase, Redact, PurgeRow
  <2>2. QED
    BY <1>1, <2>1 DEF EraseRow, ErasureFails, DeleteEmployeeRow, Types, OrgTypes, At
<1>4. QED
  BY <1>2, <1>3

\* The file of an upload outlives everything but an erasure of its employee.
LEMMA UploadKeepsFile ==
    ASSUME Types, ReviewsFit, UploadsFit, Next, NEW r \in Request, Uploads(r), ops'[r] = ops[r],
           NEW e \in Employee, NEW p \in Photo, ops[r].emp = e, ops[r].photo = p
    PROVE  \/ <<e, p>> \in files' \/ crashed' \/ employees'[e] = Gone
           \/ <<e, "purge">> \in botched' \/ Erased(e)'
<1>1. CASE Crash
  BY <1>1 DEF Crash
<1>2. CASE ~Crash
  <2>1. photos[p] = None
    BY DEF UploadsFit
  <2>2. CASE <<e, p>> \in files /\ <<e, p>> \notin files'
    <3>1. ~ \E x \in Request : At(x, "drop") /\ DeleteRowAndFile(x) /\ ops[x].emp = e /\ ops[x].photo = p
      BY <2>1, NoneAssumption DEF ReviewsFit
    <3>2. p \notin PhotosOf(e)
      BY <2>1 DEF PhotosOf, Exists
    <3>3. PICK x \in Request : Erase(x) /\ Employed(e) /\ ops[x].emp = e
      BY <2>2, <3>1, <3>2, FilesStay
    <3>4. /\ ops[x] \in Deciding \cup Erasing /\ ops \in [Request -> AnyOp]
          /\ ops' = [ops EXCEPT ![x] = [ops[x] EXCEPT !.next = "purge"]]
      BY <3>3, Stages DEF Erase, Step, Types, OpTypes
    <3>5. ops'[x].next = "purge" /\ ops'[x].emp = e /\ ops'[x].kind = "erase"
      BY <3>3, <3>4 DEF Deciding, Erasing
    <3>6. QED
      BY <3>5 DEF Erased, At, Idle
  <2>3. CASE <<e, p>> \notin files
    <3>1. crashed \/ employees[e] = Gone \/ <<e, "purge">> \in botched \/ Erased(e)
      BY <2>3 DEF UploadsFit
    <3>2. QED
      BY <1>2, <3>1, CrashedStays, GoneStays, ErasedGoesOn
  <2>4. QED
    BY <2>2, <2>3
<1>3. QED
  BY <1>1, <1>2

LEMMA UploadsFitHolds ==
    ASSUME Types, ReviewsFit, UploadsFit, Next
    PROVE  UploadsFit'
<1>0. ops \in [Request -> AnyOp]
  BY DEF Types, OpTypes
<1> USE <1>0
<1>1. SUFFICES ASSUME NEW r \in Request, Uploads(r)'
               PROVE  /\ photos'[ops'[r].photo] = None
                      /\ \A x \in Request : Uploads(x)' /\ ops'[x].photo = ops'[r].photo => x = r
                      /\ \/ <<ops'[r].emp, ops'[r].photo>> \in files'
                         \/ crashed'
                         \/ employees'[ops'[r].emp] = Gone
                         \/ <<ops'[r].emp, "purge">> \in botched'
                         \/ Erased(ops[r].emp)'
  BY DEF UploadsFit
<1>2. ASSUME NEW x \in Request, NEW y \in Request, x # y, Uploads(y), ops'[y] = ops[y],
             Uploads(x)', ops'[x] # ops[x]
      PROVE  ops'[x].photo # ops'[y].photo
  <2>1. PICK e \in Employee, p \in Photo, status \in {"pending", "approved"}, own \in BOOLEAN :
               Upload(x, e, p, status, own)
    BY <1>2, WhoUploads
  <2>2. ops[y].photo # p
    BY <1>2, <2>1 DEF Upload, Unused, Uploads
  <2>3. ops'[x].photo = p
    BY <2>1 DEF Upload, Begin
  <2>4. QED
    BY <1>2, <2>2, <2>3
<1>3. CASE ops'[r] = ops[r]
  <2>1. Uploads(r)
    BY <1>1, <1>3 DEF Uploads, At
  <2>2. ops[r] \in Uploading
    BY <2>1, Stages DEF Uploads, Types, Importing
  <2>3. PICK e \in Employee, p \in Photo : ops[r].emp = e /\ ops[r].photo = p
    BY <2>2 DEF Uploading
  <2>4. photos'[p] = None
    <3>1. photos[p] = None
      BY <2>1, <2>3 DEF UploadsFit
    <3>2. ASSUME NEW x \in Request, InsertPhotoRow(x), ops[x].photo = p
          PROVE  FALSE
      <4>1. x = r
        BY <2>1, <2>3, <3>2 DEF UploadsFit, Uploads, InsertPhotoRow
      <4> DEFINE op == [kind |-> "enroll", next |-> "pick", emp |-> ops[r].emp,
                        photo |-> ops[r].photo, todo |-> {ops[r].photo}]
      <4>2. op.kind = "enroll"
        OBVIOUS
      <4>3. ops'[r] \in {Idle, op}
        BY <3>2, <4>1 DEF InsertPhotoRow, Done
      <4> HIDE DEF op
      <4>4. QED
        BY <1>3, <2>1, <4>2, <4>3 DEF Uploads, At
    <3>3. QED
      BY <3>1, <3>2, PhotosAge
  <2>5. \A x \in Request : Uploads(x)' /\ ops'[x].photo = ops'[r].photo => x = r
    <3>1. SUFFICES ASSUME NEW x \in Request, Uploads(x)', ops'[x].photo = ops'[r].photo, x # r
                   PROVE  FALSE
      OBVIOUS
    <3>2. ops'[x] = ops[x]
      BY <1>2, <1>3, <2>1, <3>1
    <3>3. Uploads(x)
      BY <3>1, <3>2 DEF Uploads, At
    <3>4. QED
      BY <1>3, <2>1, <3>1, <3>2, <3>3 DEF UploadsFit
  <2>6. \/ <<e, p>> \in files' \/ crashed' \/ employees'[e] = Gone
        \/ <<e, "purge">> \in botched' \/ Erased(e)'
    BY <1>3, <2>1, <2>3, UploadKeepsFile
  <2>7. QED
    BY <1>3, <2>3, <2>4, <2>5, <2>6
<1>4. CASE ops'[r] # ops[r]
  <2>1. PICK e \in Employee, p \in Photo, status \in {"pending", "approved"}, own \in BOOLEAN :
               Upload(r, e, p, status, own)
    BY <1>1, <1>4, WhoUploads
  <2>2. ops'[r].emp = e /\ ops'[r].photo = p
    BY <2>1 DEF Upload, Begin
  <2>3. photos'[p] = None /\ <<e, p>> \in files'
    BY <2>1 DEF Upload, Unused
  <2>4. ASSUME NEW x \in Request, Uploads(x)', ops'[x].photo = p, x # r
        PROVE  FALSE
    <3>1. ops'[x] = ops[x]
      BY <2>1, <2>4 DEF Upload, Begin
    <3>2. Uploads(x)
      BY <2>4, <3>1 DEF Uploads, At
    <3>3. QED
      BY <2>1, <2>4, <3>1, <3>2 DEF Upload, Unused, Uploads
  <2>5. QED
    BY <2>2, <2>3, <2>4
<1>5. QED
  BY <1>3, <1>4

\* A request has removed files of the employee, and will remove the rows.
Clearing(r, e) ==
    /\ At(r, "purge") \/ (At(r, "redact") /\ ops[r].seen) \/ At(r, "purge row")
    /\ ops[r].emp = e

\* Or would have, had it not failed.
Cleared(e) == \E step \in ErasureStep \ {"erase"} : <<e, step>> \in botched

FilesKept ==
    \A p \in Photo : Exists(photos, p) =>
        \/ HasImage(p)
        \/ crashed
        \/ Cleared(photos[p].emp)
        \/ \E r \in Request : Clearing(r, photos[p].emp)

LEMMA ClearingGoesOn ==
    ASSUME Types, PhotosFit, Next, ~Crash, NEW r \in Request, NEW e \in Employee, Clearing(r, e),
           NEW p \in Photo, Exists(photos, p), photos[p].emp = e
    PROVE  Clearing(r, e)' \/ photos'[p] = Gone \/ Cleared(e)'
<1>1. CASE ops'[r] = ops[r]
  BY <1>1 DEF Clearing, At
<1>2. CASE ops'[r] # ops[r]
  <2>1. EraseRow(r) \/ Redact(r) \/ PurgeRow(r) \/ ErasureFails(r)
    BY <1>2, OwnStep DEF Clearing, At, DeleteRowAndFile, Forget, ForgetAll, Erase
  <2>2. Employed(e) /\ p \in PhotosOf(e)
    BY DEF PhotosFit, PhotosOf
  <2>3. CASE ErasureFails(r)
    BY <2>3 DEF ErasureFails, ErasureStep, Clearing, At, Cleared
  <2>4. CASE ~ErasureFails(r)
    <3>1. photos' = PhotosWithout(e)
      BY <2>1, <2>2, <2>4 DEF EraseRow, Redact, PurgeRow, DeleteEmployeeRow, Clearing, At
    <3>2. QED
      BY <2>2, <3>1 DEF PhotosWithout
  <2>5. QED
    BY <2>3, <2>4
<1>3. QED
  BY <1>1, <1>2

LEMMA LosesFile ==
    ASSUME Types, ReviewsFit, Next, NEW p \in Photo, Exists(photos, p), NEW e \in Employee,
           <<e, p>> \in files, <<e, p>> \notin files'
    PROVE  \E r \in Request : Clearing(r, e)'
<1>0. ops \in [Request -> AnyOp]
  BY DEF Types, OpTypes
<1>1. ASSUME NEW r \in Request, At(r, "drop"), ops[r].photo = p
      PROVE  FALSE
  BY <1>1 DEF ReviewsFit, Exists
<1>2. ASSUME NEW r \in Request, Erase(r), Employed(e), ops[r].emp = e
      PROVE  Clearing(r, e)'
  <2>1. /\ ops[r] \in Deciding \cup Erasing
        /\ ops' = [ops EXCEPT ![r] = [ops[r] EXCEPT !.next = "purge"]]
    BY <1>0, <1>2, Stages DEF Erase, Step, Types, OpTypes
  <2>2. ops'[r].next = "purge" /\ ops'[r].emp = e /\ ops'[r].kind = "erase"
    BY <1>0, <1>2, <2>1 DEF Deciding, Erasing
  <2>3. QED
    BY <2>2 DEF Clearing, At, Idle
<1>3. ASSUME NEW r \in Request, PdplDelete(r, e) \/ BulkPurge(r, e), p \in PhotosOf(e)
      PROVE  Clearing(r, e)'
  <2> DEFINE op(next) == [kind |-> "pdpl", next |-> next, emp |-> e, seen |-> TRUE]
  <2>1. \E next \in {"redact", "purge row"} : ops'[r] = op(next)
    BY <1>0, <1>3 DEF PdplDelete, BulkPurge, RemoveFiles, Begin
  <2>2. \A next : op(next).next = next /\ op(next).emp = e /\ op(next).seen /\ op(next) # Idle
    BY DEF Idle
  <2> HIDE DEF op
  <2>3. QED
    BY <2>1, <2>2 DEF Clearing, At
<1>4. QED
  BY <1>1, <1>2, <1>3, FilesStay

LEMMA FilesKeptStep ==
    ASSUME Types, PhotosFit, ReviewsFit, UploadsFit, FilesKept, Next
    PROVE  FilesKept'
<1> DEFINE kept(p) == \/ HasImage(p)
                      \/ crashed
                      \/ Cleared(photos[p].emp)
                      \/ \E r \in Request : Clearing(r, photos[p].emp)
<1>1. \A p \in Photo : Exists(photos, p) => kept(p)
  BY DEF FilesKept
<1>2. ASSUME NEW p \in Photo, Exists(photos, p)'
      PROVE  kept(p)'
  <2>1. PICK e \in Employee : photos'[p].emp = e
    <3>1. photos'[p] \in PhotoRow
      BY <1>2, FaceTypesHold DEF FaceTypes, Exists
    <3>2. QED
      BY <3>1 DEF PhotoRow
  <2>2. CASE <<e, p>> \in files' \/ crashed' \/ Cleared(e)' \/ \E r \in Request : Clearing(r, e)'
    BY <2>1, <2>2 DEF HasImage
  <2>3. CASE Crash
    BY <2>2, <2>3 DEF Crash
  <2>4. CASE Exists(photos, p) /\ ~Crash
    <3>1. photos[p].emp = e /\ photos'[p] # Gone
      BY <1>2, <2>1, <2>4, PhotosAge DEF Exists
    <3>2. <<e, p>> \in files \/ crashed \/ Cleared(e) \/ \E r \in Request : Clearing(r, e)
      BY <1>1, <2>4, <3>1 DEF HasImage
    <3>3. CASE <<e, p>> \in files
      BY <2>2, <2>4, <3>3, LosesFile
    <3>4. CASE crashed \/ Cleared(e)
      BY <2>2, <3>4, CrashedStays DEF Cleared
    <3>5. CASE \E r \in Request : Clearing(r, e)
      BY <2>2, <2>4, <3>1, <3>5, ClearingGoesOn
    <3>6. QED
      BY <3>2, <3>3, <3>4, <3>5
  <2>5. CASE ~Exists(photos, p)
    <3>1. photos[p] = None /\ photos'[p] # None
      BY <1>2, <2>5, PhotosAge DEF Exists
    <3>2. PICK r \in Request : InsertPhotoRow(r) /\ ops[r].photo = p
      BY <3>1, PhotosAge
    <3>3. Employed(ops[r].emp) /\ ops[r].emp = e
      <4>1. Employed(ops[r].emp)
        BY <3>1, <3>2 DEF InsertPhotoRow
      <4>2. photos'[p] = [emp |-> ops[r].emp, status |-> ops[r].status, embedded |-> FALSE,
                          own |-> ops[r].own]
        BY <3>2, <4>1 DEF InsertPhotoRow, Types, FaceTypes
      <4>3. QED
        BY <2>1, <4>1, <4>2
    <3>4. files' = files /\ crashed' = crashed /\ botched' = botched
      BY <3>2 DEF InsertPhotoRow, world
    <3>5. <<e, p>> \in files \/ crashed \/ <<e, "purge">> \in botched \/ Erased(e)
      BY <3>2, <3>3 DEF InsertPhotoRow, UploadsFit, Uploads, Employed, Exists
    <3>6. ASSUME NEW x \in Request, At(x, "purge"), ops[x].emp = e
          PROVE  Clearing(x, e)'
      <4>1. x # r
        BY <3>2, <3>6 DEF InsertPhotoRow, At
      <4>2. ops'[x] = ops[x]
        BY <3>2, <4>1 DEF InsertPhotoRow, Done, Types, OpTypes
      <4>3. QED
        BY <3>6, <4>2 DEF Clearing, At
    <3>7. <<e, "purge">> \in botched => Cleared(e)'
      BY <3>4 DEF Cleared, ErasureStep
    <3>8. QED
      BY <2>2, <3>4, <3>5, <3>6, <3>7 DEF Erased
  <2>6. QED
    BY <2>3, <2>4, <2>5
<1>3. QED
  BY <1>2 DEF FilesKept

\* However uploads, enrollments, deletions, erasures and purges interleave, a
\* photo in the database has its file, but between the two halves of an erasure,
\* or after a crash or a failure there.
THEOREM PhotosHaveFiles == Spec => []RowsHaveFiles
<1>1. Init => ReviewsFit /\ UploadsFit /\ FilesKept
  <2>1. SUFFICES ASSUME Init
                 PROVE  ReviewsFit /\ UploadsFit /\ FilesKept
    OBVIOUS
  <2>2. \A r \in Request : ops[r] = Idle
    BY <2>1 DEF Init
  <2>3. ReviewsFit /\ UploadsFit
    BY <2>2 DEF ReviewsFit, UploadsFit, Uploads, At
  <2>4. PICK new \in BOOLEAN, q \in Photo :
           /\ photos = [x \in Photo |->
                  IF x = q THEN [emp |-> CHOOSE y \in Employee : TRUE,
                                 status |-> IF new THEN "approved" ELSE "pending",
                                 embedded |-> TRUE, own |-> ~new]
                  ELSE None]
           /\ files = {<<CHOOSE y \in Employee : TRUE, q>>}
    BY <2>1 DEF Init
  <2>5. FilesKept
    <3>1. SUFFICES ASSUME NEW p \in Photo, Exists(photos, p)
                   PROVE  HasImage(p)
      BY DEF FilesKept
    <3>2. p = q
      BY <2>4, <3>1 DEF Exists
    <3>3. photos[p].emp = CHOOSE y \in Employee : TRUE
      BY <2>4, <3>2
    <3>4. QED
      BY <2>4, <3>2, <3>3 DEF HasImage
  <2>6. QED
    BY <2>3, <2>5
<1>2. UNCHANGED vars => /\ ReviewsFit => ReviewsFit'
                        /\ UploadsFit => UploadsFit'
                        /\ FilesKept => FilesKept'
  <2>1. SUFFICES ASSUME UNCHANGED <<employees, photos, files, ops, crashed, botched>>
                 PROVE  /\ ReviewsFit => ReviewsFit'
                        /\ UploadsFit => UploadsFit'
                        /\ FilesKept => FilesKept'
    BY DEF vars, faceVars, world
  <2>2. ReviewsFit => ReviewsFit'
    BY <2>1 DEF ReviewsFit, PhotoKnown, At, Exists
  <2>3. UploadsFit => UploadsFit'
    BY <2>1 DEF UploadsFit, Uploads, Erased, At
  <2>4. FilesKept => FilesKept'
    BY <2>1 DEF FilesKept, HasImage, Clearing, Cleared, At, Exists
  <2>5. QED
    BY <2>2, <2>3, <2>4
<1>3. Types /\ ReviewsFit /\ UploadsFit /\ [Next]_vars => ReviewsFit' /\ UploadsFit'
  BY <1>2, ReviewsFitHolds, UploadsFitHolds
<1>4. Types /\ References /\ ReviewsFit /\ UploadsFit /\ FilesKept /\ [Next]_vars => FilesKept'
  BY <1>2, FilesKeptStep DEF References
<1>5. FilesKept => RowsHaveFiles
  <2>1. SUFFICES ASSUME FilesKept, NEW p \in Photo, Exists(photos, p)
                 PROVE  \/ HasImage(p)
                        \/ crashed
                        \/ \E step \in ErasureStep \ {"erase"} :
                              \/ <<photos[p].emp, step>> \in botched
                              \/ \E r \in Request : At(r, step) /\ ops[r].emp = photos[p].emp
    BY DEF RowsHaveFiles
  <2>2. ASSUME NEW r \in Request, Clearing(r, photos[p].emp)
        PROVE  \E step \in ErasureStep \ {"erase"} : At(r, step) /\ ops[r].emp = photos[p].emp
    BY <2>2 DEF Clearing, ErasureStep
  <2>3. HasImage(p) \/ crashed \/ Cleared(photos[p].emp) \/ \E r \in Request : Clearing(r, photos[p].emp)
    BY <2>1 DEF FilesKept
  <2>4. QED
    BY <2>2, <2>3 DEF Cleared
<1>6. QED
  BY <1>1, <1>3, <1>4, <1>5, TypesStart, TypesStep, ReferencesStart, ReferencesStep, PTL DEF Spec

(***************************************************************************)(* The matcher's cache.                                                    *)
(***************************************************************************)
\* What only a match, a request that tells the cache, and a crash can do.
LEMMA WhoTells ==
    ASSUME Next, cache' # cache \/ ~(stale \subseteq stale')
    PROVE  Match \/ Crash \/ \E r \in Request : Forget(r) \/ ForgetAll(r)
<1>1. Staff => stale \subseteq stale' /\ cache' = cache
  BY DEF Staff, CreateEmployee, PatchEmployee, WritePatch, SoftDelete, BulkSoftDelete, StartImport,
       EndImport, ImportRow, faceVars
<1>2. Leaving => Crash \/ (stale \subseteq stale' /\ cache' = cache)
  BY DEF Leaving, SubmitByAdmin, SubmitByHr, PdplDelete, BulkPurge, RemoveFiles, HrDecide,
       AdminOverride, Decide, WriteDecision, Erase, EraseRow, Redact, PurgeRow, ForgottenByNobody,
       ErasureFails, LifecycleCron, LifecycleScript, RunLifecycle, Deactivate, DayPasses, faceVars
<1>3. Faces => \/ Match \/ \E r \in Request : Forget(r) \/ ForgetAll(r)
               \/ stale' = stale /\ cache' = cache
  BY ZenonT(30) DEF Faces, UploadMyPhoto, UploadPhotos, BulkIngest, Upload, ApprovePhoto,
       RejectPhoto, ReadPending, DeleteMyPhoto, DeletePhoto, Remove, EnrollMissing, ReembedAll,
       InsertPhotoRow, ListMissing, EnrollPhoto, StoreEmbedding, WriteApproval, DeleteRowAndFile,
       faceVars
<1>4. QED
  BY <1>1, <1>2, <1>3, UnitsFrame, ManagersFrame, CustomFieldsFrame, DeskFrame DEF Next, faces

\* The cache matches against no face of the employee, and asks for the rest.
Fresh(e) == cache.loaded => cache.stack[e] = Stale /\ cache.life[e] = None

LEMMA ForgetsOne ==
    ASSUME CacheFits, NEW r \in Request, Forget(r), NEW e \in Employee
    PROVE  /\ cache' \in [loaded : BOOLEAN,
                          stack  : [Employee -> SUBSET (Photo \cup {"absent", "stale"})],
                          life   : [Employee -> Life \cup {None}]]
           /\ ops[r].emp = e => Fresh(e)'
           /\ ops[r].emp # e /\ cache'.loaded =>
                cache.loaded /\ cache'.stack[e] = cache.stack[e] /\ cache'.life[e] = cache.life[e]
<1> DEFINE x == ops[r].emp
           loaded == cache.loaded /\ cache.stack[x] # Absent
           stack == IF cache.stack[x] = Absent THEN cache.stack ELSE [cache.stack EXCEPT ![x] = Stale]
           life == [cache.life EXCEPT ![x] = None]
<1>1. cache' = [loaded |-> loaded, stack |-> stack, life |-> life]
  BY DEF Forget, Invalidated
<1>2. /\ cache.loaded \in BOOLEAN
      /\ cache.stack \in [Employee -> SUBSET (Photo \cup {"absent", "stale"})]
      /\ cache.life \in [Employee -> Life \cup {None}]
  BY DEF CacheFits
<1>3. loaded \in BOOLEAN
  OBVIOUS
<1>4. stack \in [Employee -> SUBSET (Photo \cup {"absent", "stale"})]
  BY <1>2 DEF Stale
<1>5. life \in [Employee -> Life \cup {None}]
  BY <1>2
<1>6. x = e => life[e] = None /\ (loaded => stack[e] = Stale)
  BY <1>2
<1>7. x # e => life[e] = cache.life[e] /\ stack[e] = cache.stack[e]
  BY <1>2
<1>8. loaded => cache.loaded
  OBVIOUS
<1> HIDE DEF loaded, stack, life
<1>9. cache'.loaded = loaded /\ cache'.stack = stack /\ cache'.life = life
  BY <1>1
<1>10. QED
  BY <1>1, <1>3, <1>4, <1>5, <1>6, <1>7, <1>8, <1>9 DEF Fresh

LEMMA LifecycleIsLife ==
    ASSUME Types, NEW e \in Employee
    PROVE  Lifecycle(e) \in Life \cup {None}
<1>1. Employed(e) => employees[e] \in EmployeeRow
  BY DEF Employed, Exists, Types, OrgTypes
<1>2. QED
  BY <1>1 DEF Lifecycle, Life, EmployeeRow

\* A match that finds nothing loaded loads what the database holds; one that
\* does adds only what was marked.
LEMMA MatchLoads ==
    ASSUME Types, CacheFits, Match, NEW e \in Employee
    PROVE  /\ cache' \in [loaded : BOOLEAN,
                          stack  : [Employee -> SUBSET (Photo \cup {"absent", "stale"})],
                          life   : [Employee -> Life \cup {None}]]
           /\ \/ cache'.stack[e] \in {Stale, IF Enrolled(e) = {} THEN Absent ELSE Enrolled(e)}
              \/ cache.loaded /\ cache'.stack[e] = cache.stack[e]
           /\ \/ cache'.life[e] \in {None, Lifecycle(e)}
              \/ cache.loaded /\ cache'.life[e] = cache.life[e]
           /\ cache.loaded => stale' = stale
<1>1. /\ cache.loaded \in BOOLEAN
      /\ cache.stack \in [Employee -> SUBSET (Photo \cup {"absent", "stale"})]
      /\ cache.life \in [Employee -> Life \cup {None}]
  BY DEF CacheFits
<1>2. \A x \in Employee : Enrolled(x) \in SUBSET (Photo \cup {"absent", "stale"})
  BY DEF Enrolled
<1>3. \A x \in Employee : Lifecycle(x) \in Life \cup {None}
  BY LifecycleIsLife
<1>4. CASE cache.loaded
  <2>1. cache' = Refreshed /\ stale' = stale
    BY <1>4 DEF Match
  <2> DEFINE stack == [x \in Employee |->
                         IF cache.stack[x] # Stale THEN cache.stack[x]
                         ELSE IF Enrolled(x) = {} THEN Stale ELSE Enrolled(x)]
             life == [x \in Employee |->
                         IF cache.stack[x] # Absent /\ cache.life[x] = None
                         THEN Lifecycle(x) ELSE cache.life[x]]
  <2>2. cache' = [loaded |-> TRUE, stack |-> stack, life |-> life]
    BY <2>1 DEF Refreshed
  <2>3. stack \in [Employee -> SUBSET (Photo \cup {"absent", "stale"})]
    BY <1>1, <1>2 DEF Stale
  <2>4. life \in [Employee -> Life \cup {None}]
    BY <1>1, <1>3
  <2>5. \/ stack[e] \in {Stale, IF Enrolled(e) = {} THEN Absent ELSE Enrolled(e)}
        \/ stack[e] = cache.stack[e]
    OBVIOUS
  <2>6. life[e] = Lifecycle(e) \/ life[e] = cache.life[e]
    OBVIOUS
  <2> HIDE DEF stack, life
  <2>7. cache'.loaded = TRUE /\ cache'.stack = stack /\ cache'.life = life
    BY <2>2
  <2>8. QED
    BY <1>4, <2>1, <2>2, <2>3, <2>4, <2>5, <2>6, <2>7
<1>5. CASE ~cache.loaded
  <2> DEFINE stack == [x \in Employee |-> IF Enrolled(x) = {} THEN Absent ELSE Enrolled(x)]
             life == [x \in Employee |-> IF Enrolled(x) = {} THEN None ELSE Lifecycle(x)]
  <2>1. cache' = [loaded |-> TRUE, stack |-> stack, life |-> life]
    BY <1>5 DEF Match, FullLoad
  <2>2. stack \in [Employee -> SUBSET (Photo \cup {"absent", "stale"})]
    BY <1>2 DEF Absent
  <2>3. life \in [Employee -> Life \cup {None}]
    BY <1>3
  <2>4. stack[e] = (IF Enrolled(e) = {} THEN Absent ELSE Enrolled(e))
    OBVIOUS
  <2>5. life[e] \in {None, Lifecycle(e)}
    OBVIOUS
  <2> HIDE DEF stack, life
  <2>6. cache'.loaded = TRUE /\ cache'.stack = stack /\ cache'.life = life
    BY <2>1
  <2>7. QED
    BY <1>5, <2>1, <2>2, <2>3, <2>4, <2>5, <2>6
<1>6. QED
  BY <1>4, <1>5

LEMMA CacheFitsHolds ==
    ASSUME Types, CacheFits, Next
    PROVE  CacheFits'
<1>1. PICK e \in Employee : TRUE
  BY SomeAssumption
<1>2. CASE Match
  BY <1>1, <1>2, MatchLoads DEF CacheFits
<1>3. ASSUME NEW r \in Request, Forget(r)
      PROVE  CacheFits'
  BY <1>1, <1>3, ForgetsOne DEF CacheFits
<1>4. Unloaded \in [loaded : BOOLEAN,
                    stack  : [Employee -> SUBSET (Photo \cup {"absent", "stale"})],
                    life   : [Employee -> Life \cup {None}]]
  BY DEF Unloaded
<1>5. CASE Crash \/ \E r \in Request : ForgetAll(r)
  BY <1>4, <1>5 DEF Crash, ForgetAll, CacheFits
<1>6. CASE cache' = cache
  BY <1>6 DEF CacheFits
<1>7. QED
  BY <1>2, <1>3, <1>5, <1>6, WhoTells

LEMMA UnloadedIsFresh ==
    ASSUME Crash \/ \E r \in Request : ForgetAll(r), NEW e \in Employee
    PROVE  Fresh(e)'
<1>1. cache' = Unloaded
  BY DEF Crash, ForgetAll
<1>2. ~Unloaded.loaded
  BY DEF Unloaded
<1>3. QED
  BY <1>1, <1>2 DEF Fresh

\* Whoever has to tell the cache about an employee tells it.
LEMMA OwedGoesOn ==
    ASSUME Types, CacheFits, Next, NEW e \in Employee, Owed(e)
    PROVE  Owed(e)' \/ Fresh(e)'
<1>1. PICK r \in Request : \/ At(r, "forget all")
                           \/ (At(r, "forget") \/ At(r, "drop")) /\ ops[r].emp = e
  BY DEF Owed
<1>2. CASE Crash
  BY <1>2, UnloadedIsFresh
<1>3. CASE ops'[r] = ops[r]
  BY <1>1, <1>3 DEF Owed, At
<1>4. CASE ~Crash /\ ops'[r] # ops[r]
  <2>1. (At(r, "drop") /\ DeleteRowAndFile(r)) \/ Forget(r) \/ ForgetAll(r)
    BY <1>1, <1>4, OwnStep DEF At, Erase, EraseRow, Redact, PurgeRow, ErasureFails, ErasureStep
  <2>2. CASE ForgetAll(r)
    BY <2>2, UnloadedIsFresh
  <2>3. CASE Forget(r)
    <3>1. ops[r].emp = e
      BY <1>1, <2>3 DEF Forget, At
    <3>2. QED
      BY <2>3, <3>1, ForgetsOne
  <2>4. CASE At(r, "drop") /\ DeleteRowAndFile(r)
    <3>1. ops[r] \in Reviewing /\ ops[r].emp = e
      BY <1>1, <2>4, Stages DEF Types, At
    <3>2. ops'[r] = [ops[r] EXCEPT !.next = "forget"]
      BY <2>4 DEF DeleteRowAndFile, Step, At, Types, OpTypes
    <3>3. ops'[r].next = "forget" /\ ops'[r].emp = e /\ ops'[r].kind = "photo"
      BY <3>1, <3>2 DEF Reviewing
    <3>4. At(r, "forget")'
      BY <3>3 DEF At, Idle
    <3>5. QED
      BY <3>3, <3>4 DEF Owed
  <2>5. QED
    BY <2>1, <2>2, <2>3, <2>4
<1>5. QED
  BY <1>2, <1>3, <1>4

\* What nobody told the cache stays marked until the cache forgets it.
LEMMA StaleStays ==
    ASSUME Types, CacheFits, Next, ~Match, NEW e \in Employee, NEW part \in {"faces", "life"},
           <<e, part>> \in stale
    PROVE  <<e, part>> \in stale' \/ Fresh(e)'
<1>1. CASE stale \subseteq stale'
  BY <1>1
<1>2. ASSUME NEW r \in Request, Forget(r)
      PROVE  <<e, part>> \in stale' \/ Fresh(e)'
  <2>1. CASE ops[r].emp = e
    BY <1>2, <2>1, ForgetsOne
  <2>2. CASE ops[r].emp # e
    BY <1>2, <2>2 DEF Forget
  <2>3. QED
    BY <2>1, <2>2
<1>3. QED
  BY <1>1, <1>2, WhoTells, UnloadedIsFresh

LEMMA EntryStays ==
    ASSUME Types, CacheFits, Next, ~Match, NEW e \in Employee, cache'.loaded
    PROVE  \/ Fresh(e)'
           \/ cache.loaded /\ cache'.stack[e] = cache.stack[e] /\ cache'.life[e] = cache.life[e]
<1>1. ASSUME NEW r \in Request, Forget(r)
      PROVE  \/ Fresh(e)'
             \/ cache.loaded /\ cache'.stack[e] = cache.stack[e] /\ cache'.life[e] = cache.life[e]
  BY <1>1, ForgetsOne
<1>2. QED
  BY <1>1, WhoTells, UnloadedIsFresh

\* A request that has told the database is about to tell the cache.
LEMMA Tells ==
    ASSUME Types, NEW r \in Request, At(r, "embed") \/ At(r, "approve") \/ At(r, "remove") \/ At(r, "purge"),
           NEW next \in {"forget", "drop"}, Step(r, next), NEW e, e = ops[r].emp
    PROVE  Owed(e)'
<1>1. ops[r] \in Embedding \cup Reviewing \cup Deciding \cup Erasing
  BY Stages DEF Types
<1>2. ops'[r] = [ops[r] EXCEPT !.next = next]
  BY DEF Step, Types, OpTypes
<1>3. ops'[r].next = next /\ ops'[r].emp = e /\ ops'[r].kind = ops[r].kind /\ ops[r].kind # "idle"
  BY <1>1, <1>2 DEF Embedding, Reviewing, Deciding, Erasing
<1>4. At(r, next)'
  BY <1>3 DEF At, Idle
<1>5. QED
  BY <1>3, <1>4 DEF Owed

\* Who changes what the cache holds of an employee.
LEMMA EnrolledMoves ==
    ASSUME Types, ReviewsFit, UploadsFit, Next, NEW e \in Employee, Enrolled(e)' # Enrolled(e)
    PROVE  Owed(e)' \/ <<e, "faces">> \in stale'
<1> USE DEF Types, FaceTypes
<1>1. photos' # photos
  BY DEF Enrolled, Exists
<1>2. Faces \/ Leaving
  BY <1>1, UnitsFrame, ManagersFrame, CustomFieldsFrame, StaffFrame, DeskFrame DEF Next, faces
\* Only photos of one employee change.
<1>3. ASSUME NEW x, \A p \in Photo :
                \/ photos'[p] = photos[p]
                \/ /\ Exists(photos, p) => photos[p].emp = x
                   /\ Exists(photos, p)' => photos'[p].emp = x
      PROVE  x = e
  <2>1. SUFFICES ASSUME x # e
                 PROVE  Enrolled(e)' = Enrolled(e)
    OBVIOUS
  <2>2. \A p \in Photo : p \in Enrolled(e)' <=> p \in Enrolled(e)
    BY <1>3, <2>1 DEF Enrolled, Exists
  <2>3. QED
    BY <2>2 DEF Enrolled
<1>4. CASE Faces
  <2>1. ASSUME NEW r \in Request, ReembedAll(r)
        PROVE  Owed(e)'
    <3> DEFINE op == [kind |-> "enroll", next |-> "forget all", emp |-> None, photo |-> None,
                      todo |-> {}]
    <3>1. op.next = "forget all" /\ op # Idle
      BY DEF Idle
    <3>2. ops'[r] = op
      BY <2>1 DEF ReembedAll, Begin, OpTypes
    <3> HIDE DEF op
    <3>3. QED
      BY <3>1, <3>2 DEF Owed, At
  <2>2. ASSUME NEW r \in Request, StoreEmbedding(r) \/ WriteApproval(r)
        PROVE  Owed(e)'
    <3>1. /\ Exists(photos, ops[r].photo)
          /\ \A p \in Photo : p # ops[r].photo => photos'[p] = photos[p]
      BY <1>1, <2>2 DEF StoreEmbedding, WriteApproval
    <3>2. ops[r].photo \in Photo
      BY <2>2, Stages DEF StoreEmbedding, WriteApproval, Embedding, Reviewing
    <3>3. photos[ops[r].photo].emp = ops[r].emp
      BY <2>2, <3>1 DEF StoreEmbedding, WriteApproval, ReviewsFit, PhotoKnown, Exists
    <3>4. photos'[ops[r].photo] = Gone \/ photos'[ops[r].photo].emp = ops[r].emp
      BY <3>1, <3>2, <3>3, PhotosAge
    <3>5. ops[r].emp = e
      BY <1>3, <3>1, <3>3, <3>4 DEF Exists
    <3>6. QED
      BY <2>2, <3>5, Tells DEF StoreEmbedding, WriteApproval
  <2>3. ASSUME NEW r \in Request, InsertPhotoRow(r)
        PROVE  FALSE
    <3>1. /\ ops[r].photo \in Photo /\ photos[ops[r].photo] = None
          /\ photos' = [photos EXCEPT ![ops[r].photo] =
                [emp |-> ops[r].emp, status |-> ops[r].status, embedded |-> FALSE, own |-> ops[r].own]]
      BY <1>1, <2>3, Stages DEF InsertPhotoRow, UploadsFit, Uploads, Uploading, Importing
    <3>2. \A p \in Photo : p \in Enrolled(e)' <=> p \in Enrolled(e)
      BY <3>1 DEF Enrolled, Exists
    <3>3. QED
      BY <3>2 DEF Enrolled
  <2>4. ASSUME NEW r \in Request, DeleteRowAndFile(r)
        PROVE  Owed(e)'
    <3>1. At(r, "remove") /\ photos' = [photos EXCEPT ![ops[r].photo] = Gone] /\ Step(r, "drop")
      BY <1>1, <2>4 DEF DeleteRowAndFile
    <3>2. PhotoKnown(r) /\ ops[r].photo \in Photo
      BY <3>1, Stages DEF ReviewsFit, Reviewing
    <3>3. \A p \in Photo :
             \/ photos'[p] = photos[p]
             \/ /\ Exists(photos, p) => photos[p].emp = ops[r].emp
                /\ Exists(photos, p)' => photos'[p].emp = ops[r].emp
      BY <3>1, <3>2 DEF PhotoKnown, Exists
    <3>4. ops[r].emp = e
      BY <1>3, <3>3
    <3>5. QED
      BY <3>1, <3>4, Tells
  <2>5. photos' = photos \/ \E r \in Request : ReembedAll(r) \/ StoreEmbedding(r) \/ WriteApproval(r)
                                                 \/ InsertPhotoRow(r) \/ DeleteRowAndFile(r)
    BY ZenonT(30), <1>4 DEF Faces, Match, UploadMyPhoto, UploadPhotos, BulkIngest, Upload, ApprovePhoto,
         RejectPhoto, ReadPending, DeleteMyPhoto, DeletePhoto, Remove, EnrollMissing, ListMissing,
         EnrollPhoto, Forget, ForgetAll, faceVars
  <2>6. QED
    BY <1>1, <2>1, <2>2, <2>3, <2>4, <2>5
<1>5. CASE Leaving
  <2>1. PICK r \in Request : EraseRow(r) \/ Redact(r) \/ PurgeRow(r)
    BY <1>1, <1>5 DEF Leaving, SubmitByAdmin, SubmitByHr, PdplDelete, BulkPurge, RemoveFiles,
         HrDecide, AdminOverride, Decide, WriteDecision, Erase, ErasureFails, LifecycleCron,
         LifecycleScript, RunLifecycle, Deactivate, DayPasses, Crash, faceVars
  <2>2. photos' = PhotosWithout(ops[r].emp)
    BY <1>1, <2>1 DEF EraseRow, Redact, PurgeRow, DeleteEmployeeRow
  <2>3. ops[r].emp = e
    BY <1>3, <2>2 DEF PhotosWithout, PhotosOf, Exists
  <2>4. CASE EraseRow(r)
    BY <2>3, <2>4, Tells DEF EraseRow
  <2>5. CASE Redact(r) \/ PurgeRow(r)
    BY <1>1, <2>3, <2>5 DEF Redact, PurgeRow, ForgottenByNobody
  <2>6. QED
    BY <2>1, <2>4, <2>5
<1>6. QED
  BY <1>2, <1>4, <1>5

LEMMA LifecycleMoves ==
    ASSUME Types, Next, NEW e \in Employee, Employed(e), Lifecycle(e)' # Lifecycle(e)
    PROVE  Owed(e)' \/ <<e, "life">> \in stale'
<1> USE DEF Types, OrgTypes
<1>1. employees'[e] # employees[e] /\ employees[e] \in EmployeeRow
  BY DEF Lifecycle, Employed, Exists
<1>2. Staff \/ Leaving
  BY <1>1, UnitsFrame, ManagersFrame, CustomFieldsFrame, FacesFrame, DeskFrame DEF Next
<1>3. CASE Staff
  <2>1. ASSUME NEW r \in Request, WritePatch(r)
        PROVE  Owed(e)' \/ <<e, "life">> \in stale'
    <3> DEFINE o == ops[r]
               row == Patched(o.change, employees[e])
    <3>1. /\ o \in Patching /\ employees' = [employees EXCEPT ![o.emp] = Patched(o.change, employees[o.emp])]
          /\ \/ "status" \in DOMAIN o.change /\ Step(r, "forget")
             \/ /\ "status" \notin DOMAIN o.change
                /\ "last" \in DOMAIN o.change => <<o.emp, "life">> \in stale'
      BY <1>1, <2>1, PatchWrites
    <3>2. o.emp = e
      BY <1>1, <3>1
    <3>3. employees'[e] = row /\ row \in EmployeeRow
      BY <1>1, <2>1, <3>1, <3>2, PatchWrites
    <3>4. /\ "last" \notin DOMAIN o.change => row.last = employees[e].last
          /\ "status" \notin DOMAIN o.change => row.status = employees[e].status
      BY <1>1 DEF Patched, EmployeeRow
    <3> HIDE DEF row
    <3>5. Employed(e)'
      BY <1>1, <3>3, NoneAssumption DEF Employed, Exists
    <3>6. row.status # employees[e].status \/ row.last # employees[e].last
      BY <3>3, <3>5 DEF Lifecycle
    <3>7. CASE "status" \in DOMAIN o.change
      <4>1. ops'[r] = [o EXCEPT !.next = "forget"]
        BY <3>1, <3>7 DEF Step, OpTypes
      <4>2. ops'[r].next = "forget" /\ ops'[r].emp = e /\ ops'[r].kind = "patch"
        BY <3>1, <3>2, <4>1 DEF Patching
      <4>3. At(r, "forget")'
        BY <4>2 DEF At, Idle
      <4>4. QED
        BY <4>2, <4>3 DEF Owed
    <3>8. CASE "status" \notin DOMAIN o.change
      BY <3>1, <3>2, <3>4, <3>6, <3>8
    <3>9. QED
      BY <3>7, <3>8
  <2>2. ASSUME NEW x \in Employee, SoftDelete(x) \/ BulkSoftDelete(x)
        PROVE  <<e, "life">> \in stale'
    BY <1>1, <2>2 DEF SoftDelete, BulkSoftDelete
  <2>3. ASSUME NEW x \in Employee, NEW d, NEW s, NEW status, NEW last, CreateEmployee(x, d, s, status, last)
        PROVE  FALSE
    BY <1>1, <2>3 DEF CreateEmployee, Employed, Exists
  <2>4. ASSUME NEW r \in Request, NEW row \in Rows, ImportRow(r, row)
        PROVE  FALSE
    <3>1. ~RowFails(row, ops[r].defs)
      BY <1>1, <2>4 DEF ImportRow
    <3>2. ~Employed(row.emp) /\ employees' = [employees EXCEPT ![row.emp] = RowEmployee(row)]
      BY <2>4, <3>1 DEF ImportRow, RowFails
    <3>3. QED
      BY <1>1, <3>2
  <2>5. ASSUME NEW r, StartImport(r) \/ EndImport(r) \/ \E x, change : PatchEmployee(r, x, change)
        PROVE  FALSE
    BY <1>1, <2>5 DEF StartImport, EndImport, PatchEmployee
  <2>6. QED
    BY <1>3, <2>1, <2>2, <2>3, <2>4, <2>5 DEF Staff
<1>4. CASE Leaving
  <2>1. PICK r \in Request : EraseRow(r) \/ Redact(r) \/ PurgeRow(r) \/ Deactivate(r)
    BY <1>1, <1>4 DEF Leaving, SubmitByAdmin, SubmitByHr, PdplDelete, BulkPurge, RemoveFiles,
         HrDecide, AdminOverride, Decide, WriteDecision, Erase, ErasureFails, LifecycleCron,
         LifecycleScript, RunLifecycle, DayPasses, Crash
  <2>2. CASE EraseRow(r)
    <3>1. ops[r].emp = e
      BY <1>1, <2>2 DEF EraseRow, DeleteEmployeeRow
    <3>2. QED
      BY <2>2, <3>1, Tells DEF EraseRow
  <2>3. CASE Redact(r) \/ PurgeRow(r)
    <3>1. ops[r].emp = e
      BY <1>1, <2>3 DEF Redact, PurgeRow, DeleteEmployeeRow
    <3>2. QED
      BY <1>1, <2>3, <3>1 DEF Redact, PurgeRow, ForgottenByNobody
  <2>4. CASE Deactivate(r)
    <3>1. ops[r] \in Retiring /\ e \in ops[r].leavers
      BY <1>1, <2>4, Stages DEF Deactivate
    <3>2. CASE ops[r].kind = "script"
      BY <2>4, <3>1, <3>2 DEF Deactivate
    <3>3. CASE ops[r].kind # "script"
      <4> DEFINE op == [ops[r] EXCEPT !.next = "forget all"]
      <4>1. op.next = "forget all" /\ op.kind # "idle"
        BY <3>1 DEF Retiring
      <4>2. ops'[r] = op
        BY <2>4, <3>3 DEF Deactivate, Step, OpTypes
      <4> HIDE DEF op
      <4>3. Idle.kind = "idle"
        BY DEF Idle
      <4>4. At(r, "forget all")'
        BY <4>1, <4>2, <4>3 DEF At
      <4>5. QED
        BY <4>4 DEF Owed
    <3>4. QED
      BY <3>2, <3>3
  <2>5. QED
    BY <2>1, <2>2, <2>3, <2>4
<1>5. QED
  BY <1>2, <1>3, <1>4

Faced(e) == IF Enrolled(e) = {} THEN Absent ELSE Enrolled(e)

LEMMA GalleryStep ==
    ASSUME Types, ReviewsFit, UploadsFit, CacheFits, GalleryIsCurrent, Next
    PROVE  GalleryIsCurrent'
<1>1. SUFFICES ASSUME NEW e \in Employee, cache'.loaded
               PROVE  /\ \/ cache'.stack[e] = Stale
                         \/ cache'.stack[e] = Faced(e)'
                         \/ Owed(e)'
                         \/ <<e, "faces">> \in stale'
                      /\ \/ cache'.life[e] = None
                         \/ cache'.life[e] = Lifecycle(e)'
                         \/ Owed(e)'
                         \/ <<e, "life">> \in stale'
  BY DEF GalleryIsCurrent, StackIsCurrent, LifecycleIsCurrent, Faced
<1>2. cache.loaded =>
         /\ cache.stack[e] = Stale \/ cache.stack[e] = Faced(e) \/ Owed(e) \/ <<e, "faces">> \in stale
         /\ cache.life[e] = None \/ cache.life[e] = Lifecycle(e) \/ Owed(e) \/ <<e, "life">> \in stale
  BY DEF GalleryIsCurrent, StackIsCurrent, LifecycleIsCurrent, Faced
<1>3. CASE Match
  <2>1. UNCHANGED <<employees, photos, ops>>
    BY <1>3 DEF Match
  <2>2. Faced(e)' = Faced(e) /\ Lifecycle(e)' = Lifecycle(e) /\ (Owed(e)' <=> Owed(e))
    BY <2>1 DEF Faced, Enrolled, Exists, Lifecycle, Employed, Owed, At
  <2>3. /\ \/ cache'.stack[e] \in {Stale, Faced(e)}
           \/ cache.loaded /\ cache'.stack[e] = cache.stack[e]
        /\ \/ cache'.life[e] \in {None, Lifecycle(e)}
           \/ cache.loaded /\ cache'.life[e] = cache.life[e]
        /\ cache.loaded => stale' = stale
    BY <1>3, MatchLoads DEF Faced
  <2>4. QED
    BY <1>2, <2>2, <2>3
<1>4. CASE Fresh(e)'
  BY <1>1, <1>4 DEF Fresh
<1>5. CASE ~Match /\ ~Fresh(e)'
  <2>1. cache.loaded /\ cache'.stack[e] = cache.stack[e] /\ cache'.life[e] = cache.life[e]
    BY <1>1, <1>5, EntryStays
  <2>2. Owed(e) => Owed(e)'
    BY <1>5, OwedGoesOn
  <2>3. \A part \in {"faces", "life"} : <<e, part>> \in stale => <<e, part>> \in stale'
    BY <1>5, StaleStays
  <2>4. Faced(e)' = Faced(e) \/ Owed(e)' \/ <<e, "faces">> \in stale'
    BY EnrolledMoves DEF Faced
  <2>5. ~Employed(e) => Lifecycle(e) = None
    BY DEF Lifecycle
  <2>6. Lifecycle(e)' = Lifecycle(e) \/ Lifecycle(e) = None \/ Owed(e)' \/ <<e, "life">> \in stale'
    BY <2>5, LifecycleMoves
  <2>7. QED
    BY <1>2, <2>1, <2>2, <2>3, <2>4, <2>6
<1>6. QED
  BY <1>3, <1>4, <1>5

\* However matches, uploads, enrollments, decisions and deletions interleave, a
\* loaded cache holds of every employee exactly the faces, the status and the
\* last day that the database holds, but for what a request is about to tell it
\* and what was changed by code that tells it nothing.
THEOREM MatcherIsCurrent == Spec => []GalleryIsCurrent
<1>1. Init => ReviewsFit /\ UploadsFit /\ CacheFits /\ GalleryIsCurrent
  <2>1. SUFFICES ASSUME Init
                 PROVE  ReviewsFit /\ UploadsFit /\ CacheFits /\ GalleryIsCurrent
    OBVIOUS
  <2>2. \A r \in Request : ops[r] = Idle
    BY <2>1 DEF Init
  <2>3. ReviewsFit /\ UploadsFit
    BY <2>2 DEF ReviewsFit, UploadsFit, Uploads, At
  <2>4. cache = Unloaded
    BY <2>1 DEF Init
  <2>5. CacheFits
    BY <2>4 DEF CacheFits, Unloaded
  <2>6. ~cache.loaded
    BY <2>4 DEF Unloaded
  <2>7. GalleryIsCurrent
    BY <2>6 DEF GalleryIsCurrent, StackIsCurrent, LifecycleIsCurrent
  <2>8. QED
    BY <2>3, <2>5, <2>7
<1>2. UNCHANGED vars => /\ ReviewsFit => ReviewsFit'
                        /\ UploadsFit => UploadsFit'
                        /\ CacheFits => CacheFits'
                        /\ GalleryIsCurrent => GalleryIsCurrent'
  <2>1. SUFFICES ASSUME UNCHANGED <<employees, photos, files, ops, crashed, botched, cache, stale>>
                 PROVE  /\ ReviewsFit => ReviewsFit'
                        /\ UploadsFit => UploadsFit'
                        /\ CacheFits => CacheFits'
                        /\ GalleryIsCurrent => GalleryIsCurrent'
    BY DEF vars, faceVars, world
  <2>2. ReviewsFit => ReviewsFit'
    BY <2>1 DEF ReviewsFit, PhotoKnown, At, Exists
  <2>3. UploadsFit => UploadsFit'
    BY <2>1 DEF UploadsFit, Uploads, Erased, At
  <2>4. CacheFits => CacheFits'
    BY <2>1 DEF CacheFits
  <2>5. GalleryIsCurrent => GalleryIsCurrent'
    BY <2>1 DEF GalleryIsCurrent, StackIsCurrent, LifecycleIsCurrent, Enrolled, Exists, Lifecycle,
                Employed, Owed, At
  <2>6. QED
    BY <2>2, <2>3, <2>4, <2>5
<1>3. Types /\ ReviewsFit /\ UploadsFit /\ [Next]_vars => ReviewsFit' /\ UploadsFit'
  BY <1>2, ReviewsFitHolds, UploadsFitHolds
<1>4. Types /\ CacheFits /\ [Next]_vars => CacheFits'
  BY <1>2, CacheFitsHolds
<1>5. Types /\ ReviewsFit /\ UploadsFit /\ CacheFits /\ GalleryIsCurrent /\ [Next]_vars
         => GalleryIsCurrent'
  BY <1>2, GalleryStep
<1>6. QED
  BY <1>1, <1>3, <1>4, <1>5, TypesStart, TypesStep, PTL DEF Spec

===============================================================================
