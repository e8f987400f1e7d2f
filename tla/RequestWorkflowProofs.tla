------------------------ MODULE RequestWorkflowProofs ------------------------
(***************************************************************************)
(* RequestWorkflow keeps its types and implements RequestLifecycle, for    *)
(* any number of calls in flight; what that gives of HR's decisions; and   *)
(* no ledger row is of the workflow's making without an approval of its    *)
(* own.                                                                    *)
(***************************************************************************)
EXTENDS RequestWorkflow, FiniteSetTheorems, TLAPS

Entry == [before : Statuses \cup {"none"}, after : Statuses]

\* What a decision rests on until it commits, and when a request has a history.
Grounded ==
    /\ \A c \in Calls : pc[c] = "decided" => call[c] \in Decision /\ call[c].from \in Past
    /\ status # "none" => status \in Past
    /\ status = "none" => audit = <<>>

IInv == TypeOK /\ Grounded

(***************************************************************************)
(* Lemmas.                                                                 *)
(***************************************************************************)

\* A decision departs from and leads to a status, along an edge of the lifecycle.
LEMMA DecisionIsEdge ==
    ASSUME NEW d \in Decision
    PROVE  /\ d.from \in Statuses /\ d.to \in Statuses
           /\ <<d.from, d.to>> \in Lifecycle!Edges
  BY DEF Decision, Stages, Statuses, Needs, Outcomes, Lifecycle!Edges, Lifecycle!Statuses

\* An audit row adds its status to the past of the request.
LEMMA AuditAdds ==
    ASSUME audit \in Seq(Entry), NEW e \in Entry, audit' = Append(audit, e)
    PROVE  /\ audit' \in Seq(Entry)
           /\ Past' = Past \cup {e.after}
<1>1. audit' \in Seq(Entry) /\ DOMAIN audit' = DOMAIN audit \cup {Len(audit) + 1}
  OBVIOUS
<1>2. \A i \in DOMAIN audit : audit'[i] = audit[i]
  OBVIOUS
<1>3. audit'[Len(audit) + 1] = e
  OBVIOUS
<1>4. QED
  BY <1>1, <1>2, <1>3 DEF Past

\* A step that leaves the request alone and decides nothing.
LEMMA RequestUntouched ==
    ASSUME IInv, UNCHANGED <<request, call>>,
           \A c \in Calls : pc'[c] = "decided" => pc[c] = "decided"
    PROVE  Grounded'
  BY DEF IInv, Grounded, Past, request

\* An event is paid for.
LEMMA EventType ==
    ASSUME fuel \in 0 .. MaxEvents, Event
    PROVE  fuel' \in 0 .. MaxEvents
  BY WorkflowAssumption DEF Event

(***************************************************************************)
(* One lemma per action that writes the request or its decisions, one for  *)
(* the actions that do neither.                                            *)
(***************************************************************************)
LEMMA CreateKeeps ==
    ASSUME IInv, NEW c \in Calls, Create(c)
    PROVE  IInv' /\ Lifecycle!Submit
<1> DEFINE e == [before |-> "none", after |-> "submitted"]
<1>1. audit = <<>> /\ Past = {} /\ audit \in Seq(Entry)
  BY DEF IInv, TypeOK, Grounded, Create, Past, Entry
<1>2. e \in Entry /\ audit' = Append(audit, e)
  BY DEF Entry, Statuses, Create
<1>3. audit' \in Seq(Entry) /\ Past' = {"submitted"}
  BY <1>1, <1>2, AuditAdds
<1>4. TypeOK'
  BY <1>3, EventType DEF IInv, TypeOK, Entry, Create, Arrives, Statuses, ledger, threads
<1>5. Grounded'
  BY <1>1, <1>3 DEF IInv, Grounded, Create, threads
<1>6. QED
  BY <1>1, <1>3, <1>4, <1>5 DEF IInv, Create, Lifecycle!Submit

LEMMA DecideKeeps ==
    ASSUME IInv, NEW c \in Calls, NEW stage \in Stages, Decide(c, stage)
    PROVE  IInv' /\ UNCHANGED <<status, Past>>
<1>1. PICK to \in Outcomes[stage] :
        call' = [call EXCEPT ![c] = [stage |-> stage, from |-> status, to |-> to]]
  BY DEF Decide
<1> DEFINE d == [stage |-> stage, from |-> status, to |-> to]
<1>2. status \in Needs[stage] /\ status \in Statuses /\ to \in Statuses /\ status \in Past
  BY <1>1 DEF Decide, Needs, Outcomes, Stages, Statuses, IInv, Grounded
<1>3. d \in Decision
  BY <1>1, <1>2 DEF Decision
<1>4. d.from = status
  OBVIOUS
<1> HIDE DEF d
<1>5. call' = [call EXCEPT ![c] = d]
  BY <1>1 DEF d
<1>6. TypeOK'
  BY <1>3, <1>5, EventType
     DEF IInv, TypeOK, Decide, Arrives, Goto, Labels, Threads, request, ledger
<1>7. Grounded'
  <2>1. status' = status /\ audit' = audit /\ Past' = Past
    BY DEF Decide, request, Past
  <2>2. \A x \in Calls : pc'[x] = "decided" => x = c \/ (pc[x] = "decided" /\ call'[x] = call[x])
    BY <1>5 DEF IInv, TypeOK, Decide, Goto, Threads
  <2>3. call'[c] = d
    BY <1>5 DEF IInv, TypeOK
  <2>4. QED
    BY <1>2, <1>3, <1>4, <2>1, <2>2, <2>3 DEF IInv, Grounded
<1>8. UNCHANGED <<status, Past>>
  BY DEF Decide, request, Past
<1>9. QED
  BY <1>6, <1>7, <1>8 DEF IInv

LEMMA CommitKeeps ==
    ASSUME IInv, NEW c \in Calls, Commit(c)
    PROVE  IInv' /\ Lifecycle!Move
<1> DEFINE d == call[c]
           e == [before |-> d.from, after |-> d.to]
<1>1. d \in Decision /\ d.from \in Past
  BY DEF IInv, Grounded, Commit
<1>2. d.from \in Statuses /\ d.to \in Statuses /\ <<d.from, d.to>> \in Lifecycle!Edges
  BY <1>1, DecisionIsEdge
<1>3. e \in Entry /\ audit \in Seq(Entry) /\ audit' = Append(audit, e) /\ e.after = d.to
  BY <1>2 DEF Entry, IInv, TypeOK, Commit
<1>4. audit' \in Seq(Entry) /\ Past' = Past \cup {d.to}
  BY <1>3, AuditAdds
<1>5. status' = d.to /\ d.to # "none"
  BY <1>2 DEF Commit, Statuses
<1>6. TypeOK'
  <2>1. AfterCommit(d) \in Labels \ {"decided"}
    BY DEF AfterCommit, Labels
  <2>2. pc' \in [Threads -> Labels]
    BY <2>1 DEF IInv, TypeOK, Commit, Goto
  <2>3. call' \in [Calls -> Decision \cup {NoDecision}]
    BY DEF IInv, TypeOK, Commit
  <2>4. QED
    BY <1>2, <1>4, <1>5, <2>2, <2>3 DEF IInv, TypeOK, Commit, Entry, ledger
<1>7. Grounded'
  <2>1. \A x \in Calls : pc'[x] = "decided" => pc[x] = "decided" /\ call'[x] = call[x]
    BY DEF IInv, TypeOK, Commit, Goto, AfterCommit, Threads
  <2>2. QED
    BY <1>4, <1>5, <2>1 DEF IInv, Grounded
<1>8. Lifecycle!Move
  <2>1. <<d.from, d.to>>[1] = d.from /\ <<d.from, d.to>>[2] = d.to
    OBVIOUS
  <2>2. QED
    BY <1>1, <1>2, <1>4, <1>5, <2>1 DEF Lifecycle!Move
<1>9. QED
  BY <1>6, <1>7, <1>8 DEF IInv

Aside(t) == \/ Recompute(t) \/ Upsert(t) \/ RecomputeFails(t)
            \/ t \in Calls /\ \/ Lookup(t) \/ Insert(t) \/ Raises(t) \/ Answer500(t)
                              \/ EnterLeave(t) \/ DeleteLeave(t) \/ Regenerate(t)
            \/ JobRuns \/ Midnight \/ Crash \/ Boot

LEMMA AsideKeeps ==
    ASSUME IInv, NEW t \in Threads, Aside(t)
    PROVE  IInv' /\ UNCHANGED <<status, Past>>
<1>1. CASE Recompute(t)
  <2>1. TypeOK'
    BY <1>1 DEF IInv, TypeOK, Recompute, Goto, Labels, request, ledger
  <2>2. Grounded'
    BY <1>1, RequestUntouched DEF IInv, TypeOK, Recompute, Goto, Threads
  <2>3. QED
    BY <1>1, <2>1, <2>2 DEF IInv, Recompute, request, Past
<1>2. CASE Upsert(t)
  <2>1. TypeOK'
    BY <1>2 DEF IInv, TypeOK, Upsert, Goto, Labels, request, ledger
  <2>2. Grounded'
    BY <1>2, RequestUntouched DEF IInv, TypeOK, Upsert, Goto, Threads
  <2>3. QED
    BY <1>2, <2>1, <2>2 DEF IInv, Upsert, request, Past
<1>3. CASE RecomputeFails(t)
  <2>1. TypeOK'
    BY <1>3, EventType DEF IInv, TypeOK, RecomputeFails, Goto, Labels, request, ledger
  <2>2. Grounded'
    BY <1>3, RequestUntouched DEF IInv, TypeOK, RecomputeFails, Goto, Threads
  <2>3. QED
    BY <1>3, <2>1, <2>2 DEF IInv, RecomputeFails, request, Past
<1>4. CASE t \in Calls /\ Lookup(t)
  <2>1. TypeOK'
    BY <1>4 DEF IInv, TypeOK, Lookup, Goto, Labels, request, ledger
  <2>2. Grounded'
    BY <1>4, RequestUntouched DEF IInv, TypeOK, Lookup, Goto, Threads
  <2>3. QED
    BY <1>4, <2>1, <2>2 DEF IInv, Lookup, request, Past
<1>5. CASE t \in Calls /\ Insert(t)
  <2>1. TypeOK'
    BY <1>5 DEF IInv, TypeOK, Insert, Goto, Labels, request
  <2>2. Grounded'
    BY <1>5, RequestUntouched DEF IInv, TypeOK, Insert, Goto, Threads
  <2>3. QED
    BY <1>5, <2>1, <2>2 DEF IInv, Insert, request, Past
<1>6. CASE t \in Calls /\ EnterLeave(t)
  <2>1. TypeOK'
    BY <1>6, EventType DEF IInv, TypeOK, EnterLeave, Arrives, threads, request
  <2>2. Grounded'
    BY <1>6, RequestUntouched DEF EnterLeave, threads
  <2>3. QED
    BY <1>6, <2>1, <2>2 DEF IInv, EnterLeave, request, Past
<1>7. CASE t \in Calls /\ DeleteLeave(t)
  <2>1. TypeOK'
    BY <1>7, EventType DEF IInv, TypeOK, DeleteLeave, Arrives, threads, request
  <2>2. Grounded'
    BY <1>7, RequestUntouched DEF DeleteLeave, threads
  <2>3. QED
    BY <1>7, <2>1, <2>2 DEF IInv, DeleteLeave, request, Past
<1>8. CASE t \in Calls /\ Regenerate(t)
  <2>1. TypeOK'
    BY <1>8, EventType DEF IInv, TypeOK, Regenerate, Goto, Labels, Arrives, request, ledger
  <2>2. Grounded'
    BY <1>8, RequestUntouched DEF IInv, TypeOK, Regenerate, Goto, Threads
  <2>3. QED
    BY <1>8, <2>1, <2>2 DEF IInv, Regenerate, request, Past
<1>9. CASE JobRuns
  <2>1. TypeOK'
    BY <1>9 DEF IInv, TypeOK, JobRuns, Goto, Labels, request, ledger
  <2>2. Grounded'
    BY <1>9, RequestUntouched DEF IInv, TypeOK, JobRuns, Goto, Threads
  <2>3. QED
    BY <1>9, <2>1, <2>2 DEF IInv, JobRuns, request, Past
<1>10. CASE Midnight
  <2>1. TypeOK'
    BY <1>10, EventType DEF IInv, TypeOK, Midnight, threads, request, ledger
  <2>2. Grounded'
    BY <1>10, RequestUntouched DEF Midnight, threads
  <2>3. QED
    BY <1>10, <2>1, <2>2 DEF IInv, Midnight, request, Past
<1>11. CASE Crash
  <2>1. TypeOK'
    BY <1>11, EventType DEF IInv, TypeOK, Crash, Labels, request, ledger
  <2>2. \A c \in Calls : pc'[c] # "decided"
    BY <1>11 DEF Crash, Threads
  <2>3. UNCHANGED <<status, audit, Past>>
    BY <1>11 DEF Crash, request, Past
  <2>4. QED
    BY <2>1, <2>2, <2>3 DEF IInv, Grounded
<1>12. CASE Boot
  <2>1. TypeOK'
    BY <1>12 DEF IInv, TypeOK, Boot, Goto, Labels, request, ledger
  <2>2. Grounded'
    BY <1>12, RequestUntouched DEF IInv, TypeOK, Boot, Goto, Threads
  <2>3. QED
    BY <1>12, <2>1, <2>2 DEF IInv, Boot, request, Past
<1>13. CASE t \in Calls /\ Raises(t)
  <2>1. TypeOK'
    BY <1>13, EventType DEF IInv, TypeOK, Raises, Goto, Labels, request, ledger
  <2>2. \A c \in Calls : pc'[c] = "decided" => pc[c] = "decided" /\ call'[c] = call[c]
    BY <1>13 DEF IInv, TypeOK, Raises, Goto, Threads
  <2>3. UNCHANGED <<status, audit, Past>>
    BY <1>13 DEF Raises, request, Past
  <2>4. QED
    BY <2>1, <2>2, <2>3 DEF IInv, Grounded
<1>14. CASE t \in Calls /\ Answer500(t)
  <2>1. TypeOK'
    BY <1>14 DEF IInv, TypeOK, Answer500, Goto, Labels, request, ledger
  <2>2. Grounded'
    BY <1>14, RequestUntouched DEF IInv, TypeOK, Answer500, Goto, Threads
  <2>3. QED
    BY <1>14, <2>1, <2>2 DEF IInv, Answer500, request, Past
<1>15. QED
  BY <1>1, <1>2, <1>3, <1>4, <1>5, <1>6, <1>7, <1>8, <1>9, <1>10, <1>11, <1>12, <1>13, <1>14
     DEF Aside

LEMMA StutterKeeps ==
    ASSUME IInv, UNCHANGED vars
    PROVE  IInv' /\ UNCHANGED <<status, Past>>
<1>1. TypeOK'
  BY DEF IInv, TypeOK, vars
<1>2. Grounded' /\ UNCHANGED <<status, Past>>
  BY DEF IInv, Grounded, Past, vars
<1>3. QED
  BY <1>1, <1>2 DEF IInv

LEMMA InitEstablishes == Init => IInv /\ Lifecycle!Init
<1> SUFFICES ASSUME Init PROVE IInv /\ Lifecycle!Init
  OBVIOUS
<1>1. fuel \in 0 .. MaxEvents
  BY WorkflowAssumption DEF Init
<1>2. audit \in Seq([before : Statuses \cup {"none"}, after : Statuses])
  BY DEF Init
<1>3. pc \in [Threads -> Labels]
  BY DEF Init, Labels
<1>4. TypeOK
  BY <1>1, <1>2, <1>3 DEF Init, TypeOK
<1>5. Grounded /\ Past = {}
  BY DEF Init, Grounded, Past, Threads
<1>6. QED
  BY <1>4, <1>5 DEF IInv, Init, Lifecycle!Init

\* Every step keeps the invariant and is a step of the lifecycle or a stutter.
LEMMA StepKeeps ==
    IInv /\ [Next]_vars => IInv' /\ [Lifecycle!Next]_<<status, Past>>
<1> SUFFICES ASSUME IInv, [Next]_vars
             PROVE  IInv' /\ [Lifecycle!Next]_<<status, Past>>
  OBVIOUS
<1>1. ASSUME NEW c \in Calls, CallStep(c) PROVE IInv' /\ [Lifecycle!Next]_<<status, Past>>
  <2>1. CASE Commit(c)
    BY <2>1, CommitKeeps DEF Lifecycle!Next
  <2>2. CASE Lookup(c) \/ Insert(c) \/ Answer500(c) \/ Step(c)
    BY <2>2, AsideKeeps DEF Aside, Step, Threads
  <2>3. QED
    BY <1>1, <2>1, <2>2 DEF CallStep
<1>2. ASSUME NEW c \in Calls, Arrival(c) PROVE IInv' /\ [Lifecycle!Next]_<<status, Past>>
  <2>1. CASE Create(c)
    BY <2>1, CreateKeeps DEF Lifecycle!Next
  <2>2. CASE Cancel(c) \/ ManagerDecide(c) \/ HRDecide(c) \/ AdminOverride(c)
    BY <2>2, DecideKeeps DEF Stages, Cancel, ManagerDecide, HRDecide, AdminOverride
  <2>3. CASE EnterLeave(c) \/ DeleteLeave(c) \/ Regenerate(c)
    BY <2>3, AsideKeeps DEF Aside, Threads
  <2>4. QED
    BY <1>2, <2>1, <2>2, <2>3 DEF Arrival
<1>3. CASE Step("job") \/ Step("seed") \/ JobRuns \/ Boot \/ Midnight \/ Crash
  BY <1>3, AsideKeeps DEF Aside, Step, Threads
<1>4. CASE \E t \in Threads : RecomputeFails(t)
  BY <1>4, AsideKeeps DEF Aside
<1>5. ASSUME NEW c \in Calls, Raises(c) PROVE IInv' /\ [Lifecycle!Next]_<<status, Past>>
  BY <1>5, AsideKeeps DEF Aside, Threads
<1>6. CASE UNCHANGED vars
  BY <1>6, StutterKeeps
<1>7. QED
  BY <1>1, <1>2, <1>3, <1>4, <1>5, <1>6 DEF Next

(***************************************************************************)
(* Theorems.                                                               *)
(***************************************************************************)

\* Every variable of the workflow keeps its type: no interleaving of handlers
\* writes a status outside the table or counts a ledger row below zero.
THEOREM TypeCorrect == Spec => []TypeOK
<1>1. IInv => TypeOK
  BY DEF IInv
<1>2. QED
  BY <1>1, InitEstablishes, StepKeeps, PTL DEF Spec

\* The handlers implement the lifecycle: however they interleave, every status
\* written follows an edge of the state machine from a status the request had.
THEOREM Implementation == Spec => FollowsLifecycle
  BY InitEstablishes, StepKeeps, PTL DEF Spec, FollowsLifecycle, Lifecycle!Spec

\* HR never decides a request no manager has approved, whatever races: the
\* "HR can only act after the manager has approved" of hr_decide.
THEOREM HRFollowsManager == Spec => []Lifecycle!ManagerBeforeHR
<1>1. Lifecycle!Init => Lifecycle!ManagerBeforeHR
  BY DEF Lifecycle!Init, Lifecycle!ManagerBeforeHR
<1>2. Lifecycle!ManagerBeforeHR /\ [Lifecycle!Next]_<<status, Past>>
      => Lifecycle!ManagerBeforeHR'
  <2> SUFFICES ASSUME Lifecycle!ManagerBeforeHR, [Lifecycle!Next]_<<status, Past>>
               PROVE  Lifecycle!ManagerBeforeHR'
    OBVIOUS
  <2>1. CASE Lifecycle!Submit
    BY <2>1 DEF Lifecycle!Submit, Lifecycle!ManagerBeforeHR
  <2>2. CASE Lifecycle!Move
    <3>1. PICK edge \in Lifecycle!Edges : edge[1] \in Past /\ Past' = Past \cup {edge[2]}
      BY <2>2 DEF Lifecycle!Move
    <3>2. edge[2] \in {"hr_approved", "hr_rejected"} => edge[1] = "manager_approved"
      BY DEF Lifecycle!Edges, Lifecycle!Statuses
    <3>3. QED
      BY <3>1, <3>2 DEF Lifecycle!ManagerBeforeHR
  <2>3. CASE UNCHANGED <<status, Past>>
    BY <2>3 DEF Lifecycle!ManagerBeforeHR
  <2>4. QED
    BY <2>1, <2>2, <2>3 DEF Lifecycle!Next
<1>3. QED
  BY <1>1, <1>2, InitEstablishes, StepKeeps, PTL DEF Spec

(***************************************************************************)
(* Counting grants against approvals.  The calls between an approval and   *)
(* its ledger row are finitely many, however many calls there may be: each *)
(* committed an approval of its own to get there.                          *)
(***************************************************************************)
Granting == {c \in Calls : pc[c] \in {"lookup", "insert"}}

Approvals == {i \in DOMAIN audit : audit[i].after \in Approved}

Backed == IsFiniteSet(Granting) /\ GrantsAreApproved

LEMMA ApprovalsFinite ==
    ASSUME NEW trail \in Seq(Entry)
    PROVE  IsFiniteSet({i \in DOMAIN trail : trail[i].after \in Approved})
<1>1. DOMAIN trail = 1 .. Len(trail) /\ IsFiniteSet(1 .. Len(trail))
  BY FS_Interval
<1>2. QED
  BY <1>1, FS_Subset

\* A step that takes approvals from nobody, grants nothing and starts no grant.
LEMMA NothingGranted ==
    ASSUME TypeOK, TypeOK', Backed, granted' <= granted,
           Granting' \subseteq Granting, Approvals \subseteq Approvals'
    PROVE  Backed'
<1>1. IsFiniteSet(Approvals) /\ IsFiniteSet(Approvals')
  BY ApprovalsFinite DEF TypeOK, Entry, Approvals
<1>2. IsFiniteSet(Granting) /\ granted + Cardinality(Granting) <= Cardinality(Approvals)
  BY DEF Backed, GrantsAreApproved, Granting, Approvals
<1>3. /\ IsFiniteSet(Granting') /\ Cardinality(Granting') <= Cardinality(Granting)
      /\ Cardinality(Approvals) <= Cardinality(Approvals')
  BY <1>1, <1>2, FS_Subset
<1>4. /\ Cardinality(Granting) \in Nat /\ Cardinality(Granting') \in Nat
      /\ Cardinality(Approvals) \in Nat /\ Cardinality(Approvals') \in Nat
  BY <1>1, <1>2, <1>3, FS_CardinalityType
<1>5. granted' + Cardinality(Granting') <= Cardinality(Approvals')
  BY <1>2, <1>3, <1>4 DEF TypeOK
<1>6. QED
  BY <1>3, <1>5 DEF Backed, GrantsAreApproved, Granting, Approvals

\* What an audit row adds to the approvals.
LEMMA ApprovalsGrow ==
    ASSUME audit \in Seq(Entry), NEW e \in Entry, audit' = Append(audit, e)
    PROVE  /\ Approvals' = IF e.after \in Approved THEN Approvals \cup {Len(audit) + 1}
                           ELSE Approvals
           /\ Len(audit) + 1 \notin Approvals
<1>1. DOMAIN audit' = DOMAIN audit \cup {Len(audit) + 1} /\ Len(audit) + 1 \notin DOMAIN audit
  OBVIOUS
<1>2. /\ \A i \in DOMAIN audit : audit'[i] = audit[i]
      /\ audit'[Len(audit) + 1] = e
  OBVIOUS
<1>3. QED
  BY <1>1, <1>2 DEF Approvals

LEMMA CommitBacked ==
    ASSUME IInv, TypeOK', Backed, NEW c \in Calls, Commit(c)
    PROVE  Backed'
<1> DEFINE e == [before |-> call[c].from, after |-> call[c].to]
<1>1. e \in Entry /\ e.after = call[c].to
  BY DecisionIsEdge DEF Entry, IInv, Grounded, Commit
<1>2. audit \in Seq(Entry) /\ audit' = Append(audit, e) /\ granted' = granted
  BY DEF Entry, IInv, TypeOK, Commit, ledger
<1> HIDE DEF e
<1>3. /\ Approvals' = IF e.after \in Approved THEN Approvals \cup {Len(audit) + 1} ELSE Approvals
      /\ Len(audit) + 1 \notin Approvals
  BY <1>1, <1>2, ApprovalsGrow
<1>4. pc' = [pc EXCEPT ![c] = AfterCommit(call[c])] /\ pc \in [Threads -> Labels] /\ c \in Threads
  BY DEF Commit, Goto, IInv, TypeOK, Threads
<1>5. CASE e.after \in Approved /\ AfterCommit(call[c]) = "lookup"
  <2>1. Granting' = Granting \cup {c} /\ c \notin Granting
    BY <1>4, <1>5 DEF Granting, Commit, Threads
  <2>2. IsFiniteSet(Granting) /\ granted + Cardinality(Granting) <= Cardinality(Approvals)
    BY DEF Backed, GrantsAreApproved, Granting, Approvals
  <2>3. IsFiniteSet(Approvals)
    BY <1>2, ApprovalsFinite DEF Approvals
  <2>4. /\ IsFiniteSet(Granting') /\ Cardinality(Granting') = Cardinality(Granting) + 1
        /\ Cardinality(Approvals') = Cardinality(Approvals) + 1
    BY <1>3, <1>5, <2>1, <2>2, <2>3, FS_AddElement
  <2>5. Cardinality(Granting) \in Nat /\ Cardinality(Approvals) \in Nat
    BY <2>2, <2>3, FS_CardinalityType
  <2>6. granted' + Cardinality(Granting') <= Cardinality(Approvals')
    BY <1>2, <2>2, <2>4, <2>5 DEF IInv, TypeOK
  <2>7. QED
    BY <2>4, <2>6 DEF Backed, GrantsAreApproved, Granting, Approvals
<1>6. CASE AfterCommit(call[c]) # "lookup"
  <2>1. Granting' \subseteq Granting
    BY <1>4, <1>6 DEF Granting, AfterCommit, Threads
  <2>2. Approvals \subseteq Approvals' /\ granted' <= granted
    BY <1>2, <1>3 DEF IInv, TypeOK
  <2>3. QED
    BY <2>1, <2>2, NothingGranted DEF IInv
<1>7. AfterCommit(call[c]) = "lookup" => e.after \in Approved
  BY <1>1 DEF AfterCommit
<1>8. QED
  BY <1>5, <1>6, <1>7

LEMMA InsertBacked ==
    ASSUME IInv, TypeOK', Backed, NEW c \in Calls, Insert(c)
    PROVE  Backed'
<1>1. Granting' = Granting \ {c} /\ c \in Granting
  BY DEF Granting, Insert, Goto, IInv, TypeOK, Threads
<1>2. IsFiniteSet(Granting) /\ granted + Cardinality(Granting) <= Cardinality(Approvals)
  BY DEF Backed, GrantsAreApproved, Granting, Approvals
<1>3. IsFiniteSet(Granting') /\ Cardinality(Granting') = Cardinality(Granting) - 1
  BY <1>1, <1>2, FS_RemoveElement
<1>4. granted' = granted + 1 /\ Approvals' = Approvals
  BY DEF Insert, request, Approvals
<1>5. Cardinality(Granting) \in Nat /\ Cardinality(Approvals) \in Nat
  BY <1>2, ApprovalsFinite, FS_CardinalityType DEF IInv, TypeOK, Entry, Approvals
<1>6. granted' + Cardinality(Granting') <= Cardinality(Approvals')
  BY <1>2, <1>3, <1>4, <1>5 DEF IInv, TypeOK
<1>7. QED
  BY <1>3, <1>6 DEF Backed, GrantsAreApproved, Granting, Approvals

LEMMA CreateBacked ==
    ASSUME IInv, TypeOK', Backed, NEW c \in Calls, Create(c)
    PROVE  Backed'
<1> DEFINE e == [before |-> "none", after |-> "submitted"]
<1>1. e \in Entry /\ e.after \notin Approved
  BY DEF Entry, Statuses, Approved
<1>2. audit \in Seq(Entry) /\ audit' = Append(audit, e) /\ granted' = granted
  BY DEF Entry, IInv, TypeOK, Create, ledger
<1> HIDE DEF e
<1>3. Approvals' = Approvals
  BY <1>1, <1>2, ApprovalsGrow
<1>4. Granting' = Granting
  BY DEF Create, threads, Granting
<1>5. QED
  BY <1>2, <1>3, <1>4, NothingGranted DEF IInv, TypeOK

LEMMA DecideBacked ==
    ASSUME IInv, TypeOK', Backed, NEW c \in Calls, NEW stage \in Stages, Decide(c, stage)
    PROVE  Backed'
<1>1. granted' = granted /\ Approvals' = Approvals
  BY DEF Decide, request, ledger, Approvals
<1>2. Granting' \subseteq Granting
  BY DEF Granting, Decide, Goto, IInv, TypeOK, Threads
<1>3. QED
  BY <1>1, <1>2, NothingGranted DEF IInv, TypeOK

LEMMA AsideBacked ==
    ASSUME IInv, TypeOK', Backed, NEW t \in Threads, Aside(t)
    PROVE  Backed'
<1>1. CASE t \in Calls /\ Insert(t)
  BY <1>1, InsertBacked
<1>2. CASE ~(t \in Calls /\ Insert(t))
  <2>1. Approvals' = Approvals
    BY <1>2 DEF Aside, Recompute, Upsert, RecomputeFails, Lookup, Raises, Answer500,
         EnterLeave, DeleteLeave, Regenerate, JobRuns, Midnight, Crash, Boot, request, Approvals
  <2>2. granted' <= granted
    BY <1>2 DEF Aside, Recompute, Upsert, RecomputeFails, Lookup, Raises, Answer500,
         EnterLeave, DeleteLeave, Regenerate, JobRuns, Midnight, Crash, Boot, ledger, IInv, TypeOK
  <2>3. Granting' \subseteq Granting
    BY <1>2 DEF Aside, Recompute, Upsert, RecomputeFails, Lookup, Raises, Answer500,
         EnterLeave, DeleteLeave, Regenerate, JobRuns, Midnight, Crash, Boot, threads, Goto, Granting, IInv, TypeOK, Threads
  <2>4. QED
    BY <2>1, <2>2, <2>3, NothingGranted DEF IInv
<1>3. QED
  BY <1>1, <1>2

LEMMA StepBacked == IInv /\ TypeOK' /\ Backed /\ [Next]_vars => Backed'
<1> SUFFICES ASSUME IInv, TypeOK', Backed, [Next]_vars PROVE Backed'
  OBVIOUS
<1>1. ASSUME NEW c \in Calls, CallStep(c) PROVE Backed'
  <2>1. CASE Commit(c)
    BY <2>1, CommitBacked
  <2>2. CASE Lookup(c) \/ Insert(c) \/ Answer500(c) \/ Step(c)
    BY <2>2, AsideBacked DEF Aside, Step, Threads
  <2>3. QED
    BY <1>1, <2>1, <2>2 DEF CallStep
<1>2. ASSUME NEW c \in Calls, Arrival(c) PROVE Backed'
  <2>1. CASE Create(c)
    BY <2>1, CreateBacked
  <2>2. CASE Cancel(c) \/ ManagerDecide(c) \/ HRDecide(c) \/ AdminOverride(c)
    BY <2>2, DecideBacked DEF Stages, Cancel, ManagerDecide, HRDecide, AdminOverride
  <2>3. CASE EnterLeave(c) \/ DeleteLeave(c) \/ Regenerate(c)
    BY <2>3, AsideBacked DEF Aside, Threads
  <2>4. QED
    BY <1>2, <2>1, <2>2, <2>3 DEF Arrival
<1>3. CASE Step("job") \/ Step("seed") \/ JobRuns \/ Boot \/ Midnight \/ Crash
  BY <1>3, AsideBacked DEF Aside, Step, Threads
<1>4. CASE \E t \in Threads : RecomputeFails(t)
  BY <1>4, AsideBacked DEF Aside
<1>5. ASSUME NEW c \in Calls, Raises(c) PROVE Backed'
  BY <1>5, AsideBacked DEF Aside, Threads
<1>6. CASE UNCHANGED vars
  <2>1. granted' = granted /\ Approvals' = Approvals /\ Granting' = Granting
    BY <1>6 DEF vars, Approvals, Granting
  <2>2. QED
    BY <2>1, NothingGranted DEF IInv, TypeOK
<1>7. QED
  BY <1>1, <1>2, <1>3, <1>4, <1>5, <1>6 DEF Next

\* Whatever calls race, however often, and wherever a crash falls: the ledger
\* never holds, or is about to get, more rows from the workflow than there are
\* audited approvals.
THEOREM GrantsHaveApprovals == Spec => []GrantsAreApproved
<1>1. Init => Backed
  <2> SUFFICES ASSUME Init PROVE Backed
    OBVIOUS
  <2>1. Granting = {} /\ Approvals = {} /\ granted = 0
    BY DEF Init, Granting, Approvals, Threads
  <2>2. IsFiniteSet(Granting) /\ granted + Cardinality(Granting) <= Cardinality(Approvals)
    BY <2>1, FS_EmptySet
  <2>3. QED
    BY <2>2 DEF Backed, GrantsAreApproved, Granting, Approvals
<1>2. IInv => TypeOK
  BY DEF IInv
<1>3. Backed => GrantsAreApproved
  BY DEF Backed
<1>4. QED
  BY <1>1, <1>2, <1>3, InitEstablishes, StepKeeps, StepBacked, PTL DEF Spec

==============================================================================
