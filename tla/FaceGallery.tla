---------------------------- MODULE FaceGallery ----------------------------
(***************************************************************************)
(* The faces of the employees: photos come in as an encrypted file and a   *)
(* row (employees/router.py, photos.py), get an embedding (enrollment.py), *)
(* are approved, rejected and deleted, and disappear with the employee     *)
(* (delete_requests.py, pdpl.py).  The matcher (matcher.py) answers from a *)
(* cache in the server's memory, which each of these has to keep true.     *)
(***************************************************************************)
EXTENDS PeopleState

-----------------------------------------------------------------------------
(* The matcher's cache: per employee no entry, a stale one or a stack of   *)
(* embeddings, and the lifecycle that classifies a match.                  *)

Absent == {"absent"}
Stale  == {"stale"}

(* The approved photos of an employee that have an embedding. *)
Enrolled(e) ==
    {p \in Photo : /\ Exists(photos, p) /\ photos[p].emp = e
                   /\ photos[p].status = "approved" /\ photos[p].embedded}

Lifecycle(e) ==
    IF ~Employed(e) THEN None
    ELSE [status |-> employees[e].status, last |-> employees[e].last]

(* An employee without an entry makes the next match load everything. *)
Invalidated(e) ==
    [loaded |-> cache.loaded /\ cache.stack[e] # Absent,
     stack  |-> IF cache.stack[e] = Absent THEN cache.stack
                ELSE [cache.stack EXCEPT ![e] = Stale],
     life   |-> [cache.life EXCEPT ![e] = None]]

FullLoad ==
    [loaded |-> TRUE,
     stack  |-> [e \in Employee |-> IF Enrolled(e) = {} THEN Absent ELSE Enrolled(e)],
     life   |-> [e \in Employee |-> IF Enrolled(e) = {} THEN None ELSE Lifecycle(e)]]

(* Entries marked stale are fetched again; one with no photo left stays    *)
(* stale.                                                                  *)
Refreshed ==
    [loaded |-> TRUE,
     stack  |-> [e \in Employee |->
                    IF cache.stack[e] # Stale THEN cache.stack[e]
                    ELSE IF Enrolled(e) = {} THEN Stale ELSE Enrolled(e)],
     life   |-> [e \in Employee |->
                    IF cache.stack[e] # Absent /\ cache.life[e] = None
                    THEN Lifecycle(e) ELSE cache.life[e]]]

(* A match first brings the cache up to date, as far as it knows. *)
Match ==
    /\ cache' = IF cache.loaded THEN Refreshed ELSE FullLoad
    /\ cache' # cache
    /\ stale' = IF cache.loaded THEN stale ELSE {}
    /\ UNCHANGED <<orgVars, employees, photos, files, deletes, ops, authVars, world, fuel>>

(* The last step of most requests.  An enrollment goes on to its next      *)
(* photo.                                                                  *)
Forget(r) ==
    /\ At(r, "forget")
    /\ cache' = Invalidated(ops[r].emp)
    /\ stale' = stale \ {<<ops[r].emp, "faces">>, <<ops[r].emp, "life">>}
    /\ IF ops[r].kind = "enroll" THEN Step(r, "pick") ELSE Done(r)
    /\ UNCHANGED <<orgVars, employees, photos, files, deletes, authVars, world, fuel>>

(* invalidate_all and, with one tenant, invalidate_tenant. *)
ForgetAll(r) ==
    /\ At(r, "forget all")
    /\ cache' = Unloaded
    /\ stale' = {}
    /\ IF ops[r].kind = "enroll" THEN Step(r, "list") ELSE Done(r)
    /\ UNCHANGED <<orgVars, employees, photos, files, deletes, authVars, world, fuel>>

-----------------------------------------------------------------------------
(* Uploads. *)

(* Neither a row has had this id nor a file this name. *)
Unused(p) ==
    /\ photos[p] = None
    /\ \A e \in Employee : <<e, p>> \notin files
    /\ \A r \in Request : At(r, "row") /\ ops[r].kind = "upload" => ops[r].photo # p

(* The file is written first, below the directory of the employee. *)
Upload(r, e, p, status, own) ==
    /\ Event /\ Employed(e)
    /\ Unused(p)
    /\ files' = files \cup {<<e, p>>}
    /\ Begin(r, [kind |-> "upload", next |-> "row", emp |-> e, photo |-> p,
                 status |-> status, own |-> own])
    /\ UNCHANGED <<orgVars, employees, photos, deletes, cache, stale, authVars, world>>

UploadMyPhoto(r, e, p) == Upload(r, e, p, "pending", TRUE)
UploadPhotos(r, e, p)  == Upload(r, e, p, "approved", FALSE)
BulkIngest(r, e, p)    == Upload(r, e, p, "approved", FALSE)

(* ... then the row, which an employee deleted meanwhile refuses.  What    *)
(* follows is the enrollment of that photo alone.                          *)
InsertPhotoRow(r) ==
    /\ At(r, "row") /\ ops[r].kind = "upload"
    /\ LET o == ops[r] IN
       IF ~Employed(o.emp)
       THEN Done(r) /\ UNCHANGED photos
       ELSE /\ photos' = [photos EXCEPT ![o.photo] =
                   [emp |-> o.emp, status |-> o.status, embedded |-> FALSE, own |-> o.own]]
            /\ ops' = [ops EXCEPT ![r] = [kind |-> "enroll", next |-> "pick", emp |-> o.emp,
                                          photo |-> o.photo, todo |-> {o.photo}]]
    /\ UNCHANGED <<orgVars, employees, files, deletes, cache, stale, authVars, world, fuel>>

(* The bytes of a photo, or an answer that there is none. *)
HasImage(p) == <<photos[p].emp, p>> \in files

-----------------------------------------------------------------------------
(* Enrollment: of one photo, of those without an embedding, of all. *)

EnrollMissing(r) ==
    /\ Event
    /\ Begin(r, [kind |-> "enroll", next |-> "list", emp |-> None, photo |-> None,
                 todo |-> {}])
    /\ UNCHANGED <<orgVars, employees, faceVars, authVars, world>>

(* reembed_all clears the embeddings, then the cache, then enrolls. *)
ReembedAll(r) ==
    /\ Event
    /\ Begin(r, [kind |-> "enroll", next |-> "forget all", emp |-> None, photo |-> None,
                 todo |-> {}])
    /\ photos' = [p \in Photo |-> IF Exists(photos, p)
                                  THEN [photos[p] EXCEPT !.embedded = FALSE]
                                  ELSE photos[p]]
    /\ UNCHANGED <<orgVars, employees, files, deletes, cache, stale, authVars, world>>

ListMissing(r) ==
    /\ At(r, "list")
    /\ ops' = [ops EXCEPT ![r] = [@ EXCEPT !.next = "pick",
                   !.todo = {p \in Photo : Exists(photos, p) /\ ~photos[p].embedded}]]
    /\ UNCHANGED <<orgVars, employees, faceVars, authVars, world, fuel>>

(* enroll_photo reads the row and the file.  A photo that is gone, a file  *)
(* that is gone and an image without a face are skipped.                   *)
EnrollPhoto(r) ==
    /\ At(r, "pick")
    /\ \/ ops[r].todo = {} /\ Done(r)
       \/ \E p \in ops[r].todo :
            LET rest == [ops[r] EXCEPT !.todo = @ \ {p}] IN
            \/ ops' = [ops EXCEPT ![r] = rest]
            \/ /\ Exists(photos, p) /\ HasImage(p)
               /\ ops' = [ops EXCEPT ![r] = [rest EXCEPT !.next = "embed", !.photo = p,
                                                         !.emp = photos[p].emp]]
    /\ UNCHANGED <<orgVars, employees, faceVars, authVars, world, fuel>>

(* Its second transaction; no row is updated when the photo is gone. *)
StoreEmbedding(r) ==
    /\ At(r, "embed")
    /\ photos' = IF Exists(photos, ops[r].photo)
                 THEN [photos EXCEPT ![ops[r].photo].embedded = TRUE]
                 ELSE photos
    /\ Step(r, "forget")
    /\ UNCHANGED <<orgVars, employees, files, deletes, cache, stale, authVars, world, fuel>>


-----------------------------------------------------------------------------
(* Decisions about photos, and their deletion: first the row, then the     *)
(* file, then the cache.                                                   *)

ReadPending(r, p, next) ==
    /\ Event /\ Exists(photos, p) /\ photos[p].status = "pending"
    /\ Begin(r, [kind |-> "photo", next |-> next, emp |-> photos[p].emp, photo |-> p])
    /\ UNCHANGED <<orgVars, employees, faceVars, authVars, world>>

ApprovePhoto(r, p) == ReadPending(r, p, "approve")
RejectPhoto(r, p)  == ReadPending(r, p, "remove")

(* Both write by id, whatever has become of the row. *)
WriteApproval(r) ==
    /\ At(r, "approve")
    /\ photos' = IF Exists(photos, ops[r].photo)
                 THEN [photos EXCEPT ![ops[r].photo].status = "approved"]
                 ELSE photos
    /\ Step(r, "forget")
    /\ UNCHANGED <<orgVars, employees, files, deletes, cache, stale, authVars, world, fuel>>

Remove(r, p) ==
    /\ Event /\ Exists(photos, p)
    /\ Begin(r, [kind |-> "photo", next |-> "remove", emp |-> photos[p].emp, photo |-> p])
    /\ UNCHANGED <<orgVars, employees, faceVars, authVars, world>>

(* An employee deletes what came from their own account. *)
DeleteMyPhoto(r, p) == Exists(photos, p) /\ photos[p].own /\ Remove(r, p)
DeletePhoto(r, p)   == Remove(r, p)

\* Mutant: the file goes before the row.
DeleteFileFirst(r) ==
    \/ /\ At(r, "remove")
       /\ files' = files \ {<<ops[r].emp, ops[r].photo>>}
       /\ Step(r, "drop")
       /\ UNCHANGED <<orgVars, employees, photos, deletes, cache, stale, authVars, world, fuel>>
    \/ /\ At(r, "drop")
       /\ photos' = [photos EXCEPT ![ops[r].photo] = Gone]
       /\ Step(r, "forget")
       /\ UNCHANGED <<orgVars, employees, files, deletes, cache, stale, authVars, world, fuel>>

DeleteRowAndFile(r) ==
    \/ /\ At(r, "remove")
       /\ photos' = [photos EXCEPT ![ops[r].photo] = Gone]
       /\ Step(r, "drop")
       /\ UNCHANGED <<orgVars, employees, files, deletes, cache, stale, authVars, world, fuel>>
    \/ /\ At(r, "drop")
       /\ files' = files \ {<<ops[r].emp, ops[r].photo>>}
       /\ Step(r, "forget")
       /\ UNCHANGED <<orgVars, employees, photos, deletes, cache, stale, authVars, world, fuel>>

-----------------------------------------------------------------------------
(* Delete requests. *)

(* The partial unique index keeps one pending request per employee. *)
NoPending(e) == \A i \in DOMAIN deletes[e] : deletes[e][i] # "pending"

SubmitByAdmin(e) ==
    /\ Event /\ Employed(e) /\ NoPending(e)
    /\ deletes' = [deletes EXCEPT ![e] = Append(@, "pending")]
    /\ UNCHANGED <<orgVars, employees, photos, files, cache, stale, ops, authVars, world>>

SubmitByHr(r, e) ==
    /\ Event /\ Employed(e) /\ NoPending(e)
    /\ deletes' = [deletes EXCEPT ![e] = Append(@, "approved")]
    /\ Begin(r, [kind |-> "erase", next |-> "erase", emp |-> e])
    /\ UNCHANGED <<orgVars, employees, photos, files, cache, stale, authVars, world>>

(* The status is read here and written, by id, in the next step. *)
Decide(r, e, verdict, erase) ==
    /\ Event
    /\ \E i \in DOMAIN deletes[e] :
          /\ deletes[e][i] = "pending"
          /\ Begin(r, [kind |-> "erase", next |-> "decide", emp |-> e, index |-> i,
                       verdict |-> verdict, erase |-> erase])
    /\ UNCHANGED <<orgVars, employees, faceVars, authVars, world>>

HrDecide(r, e, approve) ==
    Decide(r, e, IF approve THEN "approved" ELSE "rejected", approve)
AdminOverride(r, e, approve) == Decide(r, e, "admin_override", approve)

\* Mutant: the employee is deleted when the list is next opened.
WriteDecisionOnly(r) ==
    /\ At(r, "decide")
    /\ LET o == ops[r] IN
       deletes' = IF o.index \in DOMAIN deletes[o.emp]
                  THEN [deletes EXCEPT ![o.emp][o.index] = o.verdict] ELSE deletes
    /\ Done(r)
    /\ UNCHANGED <<orgVars, employees, photos, files, cache, stale, authVars, world, fuel>>

WriteDecision(r) ==
    /\ At(r, "decide")
    /\ LET o == ops[r] IN
       deletes' = IF o.index \in DOMAIN deletes[o.emp]
                  THEN [deletes EXCEPT ![o.emp][o.index] = o.verdict] ELSE deletes
    /\ IF ops[r].erase THEN Step(r, "erase") ELSE Done(r)
    /\ UNCHANGED <<orgVars, employees, photos, files, cache, stale, authVars, world, fuel>>

PhotosOf(e) == {p \in Photo : Exists(photos, p) /\ photos[p].emp = e}

(* The transaction that erases takes the directory away first ... *)
Erase(r) ==
    /\ At(r, "erase")
    /\ IF Employed(ops[r].emp)
       THEN /\ files' = {f \in files : f[1] # ops[r].emp}
            /\ Step(r, "purge")
       ELSE Done(r) /\ UNCHANGED files
    /\ UNCHANGED <<orgVars, employees, photos, deletes, cache, stale, authVars, world, fuel>>

\* Mutant: the foreign key of a photo does not cascade.
KeepPhotos(e) == photos

(* What the foreign keys take along with the row of an employee. *)
PhotosWithout(e) == [p \in Photo |-> IF p \in PhotosOf(e) THEN Gone ELSE photos[p]]
ValuesWithout(e) == [values EXCEPT ![e] = [f \in Field |-> None]]

DeleteEmployeeRow(e) ==
    /\ employees' = [employees EXCEPT ![e] = Gone]
    /\ photos' = PhotosWithout(e)
    /\ deletes' = [deletes EXCEPT ![e] = <<>>]
    /\ assigned' = [assigned EXCEPT ![e] = [u \in User |-> "none"]]
    /\ values' = ValuesWithout(e)

(* ... then the row, and tells the cache when it has committed. *)
EraseRow(r) ==
    /\ At(r, "purge")
    /\ DeleteEmployeeRow(ops[r].emp)
    /\ Step(r, "forget")
    /\ UNCHANGED <<divisions, departments, sections, users, posts, fields,
                   files, cache, stale, authVars, world, fuel>>

-----------------------------------------------------------------------------
(* pdpl.py: the erasure on request keeps the row, the purge of the bulk    *)
(* delete does not.  Both remove the files of the photos they see before   *)
(* they commit; the call that should tell the cache has an argument too    *)
(* many, and its exception is swallowed.  The erasure deletes no row of a  *)
(* photo when it saw none.                                                 *)

RemoveFiles(r, e, next) ==
    /\ Event
    /\ files' = files \ {<<e, p>> : p \in PhotosOf(e)}
    /\ Begin(r, [kind |-> "pdpl", next |-> next, emp |-> e, seen |-> PhotosOf(e) # {}])
    /\ UNCHANGED <<orgVars, employees, photos, deletes, cache, stale, authVars, world>>

PdplDelete(r, e) == Employed(e) /\ employees[e].status # "deleted" /\ RemoveFiles(r, e, "redact")
BulkPurge(r, e)  == Employed(e) /\ RemoveFiles(r, e, "purge row")

ForgottenByNobody(e) == stale' = stale \cup {<<e, "faces">>, <<e, "life">>}

Redact(r) ==
    /\ At(r, "redact")
    /\ LET e == ops[r].emp IN
       IF Employed(e)
       THEN /\ photos' = IF ops[r].seen THEN PhotosWithout(e) ELSE photos
            /\ values' = ValuesWithout(e)
            /\ employees' = [employees EXCEPT ![e].status = "deleted"]
            /\ ForgottenByNobody(e)
       ELSE UNCHANGED <<photos, values, employees, stale>>
    /\ Done(r)
    /\ UNCHANGED <<divisions, departments, sections, users, posts, assigned, fields,
                   files, deletes, cache, authVars, world, fuel>>

PurgeRow(r) ==
    /\ At(r, "purge row")
    /\ DeleteEmployeeRow(ops[r].emp)
    /\ ForgottenByNobody(ops[r].emp)
    /\ Done(r)
    /\ UNCHANGED <<divisions, departments, sections, users, posts, fields,
                   files, cache, authVars, world, fuel>>

(* Any of these transactions may fail.  Its rows come back and its files   *)
(* do not, nobody tells the cache, and nobody tries again: the answer is   *)
(* an error, or a line in the answer of the bulk delete.                   *)
ErasureFails(r) ==
    /\ ops[r] # Idle /\ ops[r].next \in ErasureStep
    /\ botched' = botched \cup {<<ops[r].emp, ops[r].next>>}
    /\ Done(r)
    /\ UNCHANGED <<orgVars, employees, faceVars, authVars, today, crashed, fuel>>

-----------------------------------------------------------------------------
(* The lifecycle cron: in the server, and as a script beside it.           *)

(* Active employees whose last day has come. *)
Leavers == {e \in Employee : /\ Employed(e) /\ employees[e].status = "active"
                             /\ employees[e].last # None /\ employees[e].last <= today}

RunLifecycle(r, kind) ==
    /\ Event /\ Leavers # {}
    /\ Begin(r, [kind |-> kind, next |-> "deactivate", leavers |-> Leavers])
    /\ UNCHANGED <<orgVars, employees, faceVars, authVars, world>>

LifecycleCron(r)   == RunLifecycle(r, "cron")
LifecycleScript(r) == RunLifecycle(r, "script")

\* Mutant: the cron leaves the cache as it is.
DeactivateQuietly(r) ==
    /\ At(r, "deactivate")
    /\ employees' = [e \in Employee |->
           IF e \in ops[r].leavers /\ Employed(e)
           THEN [employees[e] EXCEPT !.status = "inactive"] ELSE employees[e]]
    /\ Done(r) /\ UNCHANGED stale
    /\ UNCHANGED <<orgVars, photos, files, deletes, cache, authVars, world, fuel>>

(* By id, whatever the status has become.  The script has a cache of its   *)
(* own: nobody tells the server's.                                         *)
Deactivate(r) ==
    /\ At(r, "deactivate")
    /\ employees' = [e \in Employee |->
           IF e \in ops[r].leavers /\ Employed(e)
           THEN [employees[e] EXCEPT !.status = "inactive"] ELSE employees[e]]
    /\ IF ops[r].kind = "script"
       THEN Done(r) /\ stale' = stale \cup {<<e, "life">> : e \in ops[r].leavers}
       ELSE Step(r, "forget all") /\ UNCHANGED stale
    /\ UNCHANGED <<orgVars, photos, files, deletes, cache, authVars, world, fuel>>

DayPasses ==
    /\ today < LastDay
    /\ today' = today + 1
    /\ UNCHANGED <<orgVars, employees, faceVars, authVars, ops, crashed, botched, fuel>>

(* Transactions that have not committed are undone; what was removed from  *)
(* the disk is not.                                                        *)
Crash ==
    /\ ~crashed
    /\ crashed' = TRUE
    /\ ops' = [r \in Request |-> Idle]
    /\ cache' = Unloaded
    /\ stale' = {}
    /\ failures' = [u \in User |-> 0]
    /\ UNCHANGED <<orgVars, employees, photos, files, deletes, sessions, chosen, suspended,
                   oidc, console, today, botched, fuel>>

-----------------------------------------------------------------------------
(* Properties. *)

(* A request will still tell the cache about this employee. *)
Owed(e) ==
    \E r \in Request :
        \/ At(r, "forget all")
        \/ (At(r, "forget") \/ At(r, "drop")) /\ ops[r].emp = e

(* A loaded cache matches against exactly the approved photos that have an *)
(* embedding, whatever uploads, approvals, rejections, deletions,          *)
(* enrollments and matches overlap: what differs is about to be told, or   *)
(* was changed by code that never tells.                                   *)
StackIsCurrent ==
    cache.loaded =>
        \A e \in Employee :
            \/ cache.stack[e] = Stale
            \/ cache.stack[e] = (IF Enrolled(e) = {} THEN Absent ELSE Enrolled(e))
            \/ Owed(e)
            \/ <<e, "faces">> \in stale

(* And it classifies a match by the status and the last day the row has. *)
LifecycleIsCurrent ==
    cache.loaded =>
        \A e \in Employee :
            \/ cache.life[e] = None
            \/ cache.life[e] = Lifecycle(e)
            \/ Owed(e)
            \/ <<e, "life">> \in stale

(* The cache of the matcher is true of the database. *)
GalleryIsCurrent == StackIsCurrent /\ LifecycleIsCurrent

(* A delete request that was approved has its employee erased, unless the  *)
(* process dies between the decision and the deletion, or the transaction  *)
(* of the deletion, which is not that of the decision, fails.              *)
OnlyFailuresStrandApproval ==
    \A e \in Employee :
        (Employed(e) /\ \E i \in DOMAIN deletes[e] : deletes[e][i] = "approved")
            => \/ crashed
               \/ <<e, "erase">> \in botched \/ <<e, "purge">> \in botched
               \/ \E r \in Request :
                     (At(r, "erase") \/ At(r, "purge")) /\ ops[r].emp = e

(* A photo in the database has its file, but for an employee of whom an    *)
(* erasure has taken the files and not yet the rows, or not any more: it   *)
(* has failed, or the process has died.                                    *)
RowsHaveFiles ==
    \A p \in Photo : Exists(photos, p) =>
        \/ HasImage(p)
        \/ crashed
        \/ \E step \in ErasureStep \ {"erase"} :
              \/ <<photos[p].emp, step>> \in botched
              \/ \E r \in Request : At(r, step) /\ ops[r].emp = photos[p].emp

=============================================================================
