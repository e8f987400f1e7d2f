------------------------------- MODULE People -------------------------------
(***************************************************************************)
(* The employee services of one tenant together: the organisation, the     *)
(* employees with their import, their faces, and who is signed in.         *)
(***************************************************************************)
EXTENDS OrgChart, FaceGallery, SignIn

CONSTANT Changes  \* what a PATCH of an employee may hold

ASSUME ChangesAssumption ==
    \A change \in Changes :
        /\ DOMAIN change \subseteq {"dept", "section", "status", "last"}
        /\ "dept" \in DOMAIN change => change.dept \in Department
        /\ "section" \in DOMAIN change => change.section \in Section \cup {None}
        /\ "status" \in DOMAIN change => change.status \in {"active", "inactive"}
        /\ "last" \in DOMAIN change => change.last \in Day \cup {None}

Units ==
    \/ \E v \in Division :
        \/ \E n \in Name : CreateDivision(v, n) \/ PatchDivision(v, n)
        \/ DeleteDivision(v)
    \/ \E d \in Department :
        \/ \E n \in Name, v \in Division \cup {None} :
              CreateDepartment(d, n, v) \/ PatchDepartment(d, n, v)
        \/ \E n \in Name : ImportDepartment(d, n)
        \/ DeleteDepartment(d)
    \/ \E s \in Section :
        \/ \E n \in Name, d \in Department : CreateSection(s, n, d)
        \/ \E n \in Name : PatchSection(s, n)
        \/ DeleteSection(s)

Managers ==
    \/ \E u \in User :
        \/ \E roles \in Rosters :
              \/ CreateUser(u, roles)
              \/ \E active \in BOOLEAN : PatchUser(u, roles, active)
        \/ \E v \in Division : AssignDivisionManager(v, u) \/ RemoveDivisionManager(v, u)
        \/ \E d \in Department : AssignDepartmentManager(d, u) \/ RemoveDepartmentManager(d, u)
        \/ \E s \in Section : AssignSectionManager(s, u) \/ RemoveSectionManager(s, u)
        \/ \E e \in Employee : DeleteAssignment(e, u)
    \/ \E r \in Request :
        \/ \E e \in Employee, u \in User, primary \in BOOLEAN :
              CheckAssignment(r, e, u, primary)
        \/ WriteAssignment(r)

CustomFields ==
    \E f \in Field :
        \/ \E options \in (SUBSET Option) \ {{}} : CreateField(f, options) \/ PatchField(f, options)
        \/ DeleteField(f)
        \/ \E e \in Employee, x \in Option \cup {None} : PatchValue(e, f, x)

Staff ==
    \/ \E e \in Employee :
        \/ \E d \in Department, s \in Section \cup {None}, last \in Day \cup {None},
              status \in {"active", "inactive"} : CreateEmployee(e, d, s, status, last)
        \/ \E r \in Request, change \in Changes : PatchEmployee(r, e, change)
        \/ SoftDelete(e) \/ BulkSoftDelete(e)
    \/ \E r \in Request :
        \/ StartImport(r) \/ EndImport(r) \/ WritePatch(r)
        \/ \E row \in Rows : ImportRow(r, row)

Faces ==
    \/ Match
    \/ \E r \in Request :
        \/ \E e \in Employee, p \in Photo :
              UploadMyPhoto(r, e, p) \/ UploadPhotos(r, e, p) \/ BulkIngest(r, e, p)
        \/ \E p \in Photo :
              ApprovePhoto(r, p) \/ RejectPhoto(r, p) \/ DeleteMyPhoto(r, p) \/ DeletePhoto(r, p)
        \/ EnrollMissing(r) \/ ReembedAll(r)
        \/ InsertPhotoRow(r) \/ ListMissing(r) \/ EnrollPhoto(r) \/ StoreEmbedding(r)
        \/ WriteApproval(r) \/ DeleteRowAndFile(r) \/ Forget(r) \/ ForgetAll(r)

Leaving ==
    \/ \E e \in Employee :
        \/ SubmitByAdmin(e)
        \/ \E r \in Request :
              \/ SubmitByHr(r, e) \/ PdplDelete(r, e) \/ BulkPurge(r, e)
              \/ \E approve \in BOOLEAN : HrDecide(r, e, approve) \/ AdminOverride(r, e, approve)
    \/ \E r \in Request :
        \/ WriteDecision(r) \/ Erase(r) \/ EraseRow(r) \/ Redact(r) \/ PurgeRow(r)
        \/ ErasureFails(r)
        \/ LifecycleCron(r) \/ LifecycleScript(r) \/ Deactivate(r)
    \/ DayPasses
    \/ Crash

SigningIn ==
    \/ \E r \in Request :
        \/ \E u \in User : StartLogin(r, u) \/ StartOidc(r, u)
        \/ VerifyPassword(r) \/ OidcCallback(r) \/ MatchClaims(r) \/ MakeSession(r)
    \/ \E enabled \in BOOLEAN : PutOidcConfig(enabled)
    \/ ResetLimiter

Browsing ==
    \/ \E r \in Request :
        \/ \E t \in Token, want \in Wants : Open(r, t, want)
        \/ LoadSession(r) \/ ExpireSession(r) \/ LoadUser(r) \/ TouchSession(r)
        \/ Logout(r) \/ SwitchRole(r) \/ SetPreference(r)
    \/ \E t \in Token : SessionIdles(t)
    \/ SweepSessions

Operators ==
    \/ \E r \in Request :
        \/ \E want \in ConsoleWants : OpenConsole(r, want)
        \/ AdmitOperator(r) \/ AccessAs(r) \/ SetImpersonation(r) \/ UpdateStatus(r)
        \/ ConsoleLogout(r)
    \/ ConsoleLogin
    \/ ConsoleIdles

Next == Units \/ Managers \/ CustomFields \/ Staff \/ Faces \/ Leaving
            \/ SigningIn \/ Browsing \/ Operators

Spec == Init /\ [][Next]_vars

(* Every row refers to rows that exist: what the foreign keys keep, also   *)
(* when a handler has read what another deletes.                           *)
TypeOK ==
    /\ \A d \in Department : departments[d] # None =>
          Divided(d) = None \/ Exists(divisions, Divided(d))
    /\ \A s \in Section : sections[s] # None => Exists(departments, sections[s].dept)
    /\ \A e \in Employee : Employed(e) =>
          /\ Exists(departments, employees[e].dept)
          /\ employees[e].section = None \/ Exists(sections, employees[e].section)
          /\ employees[e].status \in {"active", "inactive", "deleted"}
          /\ employees[e].last \in Day \cup {None}
    /\ \A x \in posts : Exists(users, x[2])
    /\ \A p \in Photo : Exists(photos, p) =>
          Employed(photos[p].emp) /\ photos[p].status \in {"pending", "approved"}
    /\ \A e \in Employee :
          /\ ~Employed(e) => /\ deletes[e] = <<>>
                             /\ \A u \in User : assigned[e][u] = "none"
          /\ \A f \in Field : values[e][f] # None => Employed(e) /\ Exists(fields, f)
    /\ files \subseteq Employee \X Photo
    /\ stale \subseteq Employee \X {"faces", "life"}
    /\ botched \subseteq Employee \X ErasureStep
    /\ \A t \in Token : Exists(sessions, t) => Exists(users, sessions[t].user)
    /\ \A u \in User : failures[u] < MaxAttempts + Cardinality(Request)
    /\ today \in Day /\ fuel \in 0 .. MaxEvents /\ crashed \in BOOLEAN

=============================================================================
