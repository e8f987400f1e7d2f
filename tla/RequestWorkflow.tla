--------------------------- MODULE RequestWorkflow ---------------------------
(***************************************************************************)
(* One leave or exception request of requests/router.py: filed, decided by *)
(* manager and HR, overridden by an admin or cancelled, and mirrored on    *)
(* approval into the leave ledger (approved_leaves) and into the           *)
(* attendance row of the requested date.                                   *)
(*                                                                         *)
(* Transactions run at READ COMMITTED and take no row lock when they read, *)
(* so a handler is as many steps as it has statements another transaction  *)
(* can come between: read and check; write, audit and commit; and, after   *)
(* the commit, the side effects in transactions of their own.              *)
(***************************************************************************)
EXTENDS Integers, Sequences, FiniteSets

CONSTANTS
    Calls,      \* HTTP calls in flight: one thread of the request pool each
    MaxEvents   \* bound on calls, ledger edits, failures and crashes

Threads == Calls \cup {"job", "seed"}   \* recompute_today runs in both

ASSUME WorkflowAssumption ==
    /\ Calls \cap {"job", "seed"} = {}
    /\ MaxEvents \in Nat

VARIABLES
    status,   \* requests.status, or "none" before the request is filed
    kind,     \* requests.type
    audit,    \* audit_log rows of the request: status before and after
    granted,  \* ledger rows inserted by approvals of this request
    entered,  \* ledger rows HR entered by hand for the same days and type
    mark,     \* the date's attendance row carries the leave
    today,    \* the requested date is today; later it is frozen
    up,       \* the backend process runs
    pc,       \* where each thread is
    call,     \* decision of each call: stage, status it read, status it writes
    saw,      \* whether a thread's recompute found a leave
    fuel      \* events left

request == <<status, kind, audit>>
ledger  == <<granted, entered>>
threads == <<pc, call, saw>>
vars    == <<status, kind, audit, granted, entered, mark, today, up,
             pc, call, saw, fuel>>

Statuses == {"submitted", "manager_approved", "manager_rejected", "hr_approved",
             "hr_rejected", "admin_approved", "admin_rejected", "cancelled"}

Terminal == Statuses \ {"submitted", "manager_approved"}

Approved == {"hr_approved", "admin_approved"}

Stages == {"cancel", "manager", "hr", "admin"}

\* Mutant: HR may decide before the manager has.
NeedsNoManager == [cancel  |-> {"submitted"},
                   manager |-> {"submitted"},
                   hr      |-> {"submitted", "manager_approved"},
                   admin   |-> Statuses]

\* state_machine.py: the statuses each transition may depart from, and where
\* its decisions lead.  cancel takes no decision.
Needs == [cancel  |-> {"submitted"},
          manager |-> {"submitted"},
          hr      |-> {"manager_approved"},
          admin   |-> Statuses]

Outcomes == [cancel  |-> {"cancelled"},
             manager |-> {"manager_approved", "manager_rejected"},
             hr      |-> {"hr_approved", "hr_rejected"},
             admin   |-> {"admin_approved", "admin_rejected"}]

Decision == {d \in [stage : Stages, from : Statuses, to : Statuses] :
                d.from \in Needs[d.stage] /\ d.to \in Outcomes[d.stage]}

NoDecision == [stage |-> "none", from |-> "none", to |-> "none"]

Labels == {"idle", "decided", "lookup", "insert", "recompute", "upsert", "raised"}

Rows == granted + entered

Init == /\ status = "none" /\ kind \in {"leave", "exception"}
        /\ audit = <<>>
        /\ granted = 0 /\ entered = 0
        /\ mark = FALSE /\ today \in BOOLEAN
        /\ up = TRUE
        /\ pc = [t \in Threads |-> "idle"]
        /\ call = [c \in Calls |-> NoDecision]
        /\ saw = [t \in Threads |-> FALSE]
        /\ fuel = MaxEvents

Event == fuel > 0 /\ fuel' = fuel - 1

Goto(t, label) == pc' = [pc EXCEPT ![t] = label]

Arrives(c) == up /\ pc[c] = "idle" /\ Event

(***************************************************************************)
(* The request's own transactions.                                         *)
(***************************************************************************)
Create(c) ==
    /\ Arrives(c)
    /\ status = "none"
    /\ status' = "submitted"
    /\ audit' = Append(audit, [before |-> "none", after |-> "submitted"])
    /\ UNCHANGED <<kind, ledger, mark, today, up, threads>>

\* get_request and the state machine's verdict; a refusal (409) changes nothing.
Decide(c, stage) ==
    /\ Arrives(c)
    /\ status \in Needs[stage]
    /\ \E to \in Outcomes[stage] :
         call' = [call EXCEPT ![c] = [stage |-> stage, from |-> status, to |-> to]]
    /\ Goto(c, "decided")
    /\ UNCHANGED <<request, ledger, mark, today, up, saw>>

Cancel(c)        == Decide(c, "cancel")
ManagerDecide(c) == Decide(c, "manager")
HRDecide(c)      == Decide(c, "hr")
AdminOverride(c) == Decide(c, "admin")

\* Mutant: the side effects follow a rejection, too.
AfterAnyCommit(d) ==
    IF d.stage \notin {"hr", "admin"} THEN "idle"
    ELSE IF kind = "leave" THEN "lookup"
    ELSE "recompute"

\* _apply_post_approval_side_effects, on the row as it was after the update.
AfterCommit(d) ==
    IF d.stage \notin {"hr", "admin"} \/ d.to \notin Approved THEN "idle"
    ELSE IF kind = "leave" THEN "lookup"
    ELSE "recompute"

\* update_status does not look at the status it overwrites.
Commit(c) ==
    /\ pc[c] = "decided"
    /\ status' = call[c].to
    /\ audit' = Append(audit, [before |-> call[c].from, after |-> call[c].to])
    /\ Goto(c, AfterCommit(call[c]))
    /\ call' = [call EXCEPT ![c] = NoDecision]
    /\ UNCHANGED <<kind, ledger, mark, today, up, saw, fuel>>

(***************************************************************************)
(* Side effects of an approval: look for the ledger row and insert it      *)
(* unless found, then recompute the attendance of the date.                *)
(***************************************************************************)
\* Mutant: the existence check is the wrong way round.
LookupInverted(c) ==
    /\ pc[c] = "lookup"
    /\ Goto(c, IF Rows > 0 THEN "insert" ELSE "recompute")
    /\ UNCHANGED <<request, ledger, mark, today, up, call, saw, fuel>>

Lookup(c) ==
    /\ pc[c] = "lookup"
    /\ Goto(c, IF Rows = 0 THEN "insert" ELSE "recompute")
    /\ UNCHANGED <<request, ledger, mark, today, up, call, saw, fuel>>

Insert(c) ==
    /\ pc[c] = "insert"
    /\ granted' = granted + 1
    /\ Goto(c, "recompute")
    /\ UNCHANGED <<request, entered, mark, today, up, call, saw, fuel>>

\* The transaction in hand raises and rolls back.  None of the three is in a
\* try: the handler is over, whatever it had still to do.
Raises(c) ==
    /\ pc[c] \in {"decided", "lookup", "insert"}
    /\ Event
    /\ Goto(c, "raised")
    /\ call' = [call EXCEPT ![c] = NoDecision]
    /\ UNCHANGED <<request, ledger, mark, today, up, saw>>

\* The error handler's 500 goes out to the caller.
Answer500(c) ==
    /\ pc[c] = "raised"
    /\ Goto(c, "idle")
    /\ UNCHANGED <<request, ledger, mark, today, up, call, saw, fuel>>

\* recompute_for and recompute_today: read the leaves, then upsert the row.
Recompute(t) ==
    /\ pc[t] = "recompute"
    /\ saw' = [saw EXCEPT ![t] = Rows > 0]
    /\ Goto(t, "upsert")
    /\ UNCHANGED <<request, ledger, mark, today, up, call, fuel>>

\* Mutant: the upsert leaves leave_type_id out of the columns it overwrites.
UpsertKeepsLeave(t) ==
    /\ pc[t] = "upsert"
    /\ mark' = (mark \/ saw[t])
    /\ saw' = [saw EXCEPT ![t] = FALSE]
    /\ Goto(t, "idle")
    /\ UNCHANGED <<request, ledger, today, up, call, fuel>>

Upsert(t) ==
    /\ pc[t] = "upsert"
    /\ mark' = saw[t]
    /\ saw' = [saw EXCEPT ![t] = FALSE]
    /\ Goto(t, "idle")
    /\ UNCHANGED <<request, ledger, today, up, call, fuel>>

\* A recompute that fails is logged and skipped.
RecomputeFails(t) ==
    /\ pc[t] \in {"recompute", "upsert"}
    /\ Event
    /\ saw' = [saw EXCEPT ![t] = FALSE]
    /\ Goto(t, "idle")
    /\ UNCHANGED <<request, ledger, mark, today, up, call>>

(***************************************************************************)
(* Other writers: HR's ledger edits (which recompute nothing), a manual    *)
(* regeneration or rematch, the attendance job, midnight.                  *)
(***************************************************************************)
EnterLeave(c) ==
    /\ Arrives(c)
    /\ entered' = entered + 1
    /\ UNCHANGED <<request, granted, mark, today, up, threads>>

\* Mutant: a delete of a row already gone is counted again.
DeleteLeaveTwice(c) ==
    /\ Arrives(c)
    /\ \/ granted' = granted - 1 /\ UNCHANGED entered
       \/ entered' = entered - 1 /\ UNCHANGED granted
    /\ UNCHANGED <<request, mark, today, up, threads>>

DeleteLeave(c) ==
    /\ Arrives(c)
    /\ \/ granted > 0 /\ granted' = granted - 1 /\ UNCHANGED entered
       \/ entered > 0 /\ entered' = entered - 1 /\ UNCHANGED granted
    /\ UNCHANGED <<request, mark, today, up, threads>>

Regenerate(c) ==
    /\ Arrives(c)
    /\ Goto(c, "recompute")
    /\ UNCHANGED <<request, ledger, mark, today, up, call, saw>>

JobRuns ==
    /\ up /\ today /\ pc["job"] = "idle"
    /\ Goto("job", "recompute")
    /\ UNCHANGED <<request, ledger, mark, today, up, call, saw, fuel>>

Midnight ==
    /\ today /\ Event
    /\ today' = FALSE
    /\ UNCHANGED <<request, ledger, mark, up, threads>>

\* A crash loses what the handlers had still to do after their commit.
Crash ==
    /\ up /\ Event
    /\ up' = FALSE
    /\ pc' = [t \in Threads |-> "idle"]
    /\ call' = [c \in Calls |-> NoDecision]
    /\ saw' = [t \in Threads |-> FALSE]
    /\ UNCHANGED <<request, ledger, mark, today>>

\* AttendanceScheduler.start: the job and the seed thread.
Boot ==
    /\ ~up
    /\ up' = TRUE
    /\ Goto("seed", IF today THEN "recompute" ELSE "idle")
    /\ UNCHANGED <<request, ledger, mark, today, call, saw, fuel>>

Step(t) == Recompute(t) \/ Upsert(t)

CallStep(c) == Commit(c) \/ Lookup(c) \/ Insert(c) \/ Answer500(c) \/ Step(c)

Arrival(c) == \/ Create(c) \/ EnterLeave(c) \/ DeleteLeave(c) \/ Regenerate(c)
              \/ Cancel(c) \/ ManagerDecide(c) \/ HRDecide(c) \/ AdminOverride(c)

Next == \/ \E c \in Calls : CallStep(c) \/ Arrival(c) \/ Raises(c)
        \/ Step("job") \/ Step("seed") \/ JobRuns \/ Boot
        \/ \E t \in Threads : RecomputeFails(t)
        \/ Midnight \/ Crash

Spec == Init /\ [][Next]_vars

\* Threads keep running, the job fires every interval, and the container is
\* restarted when the process dies.
Fairness == /\ \A c \in Calls : WF_vars(CallStep(c))
            /\ WF_vars(JobRuns \/ Step("job"))
            /\ WF_vars(Step("seed"))
            /\ WF_vars(Boot)

FairSpec == Spec /\ Fairness

(***************************************************************************)
(* Properties.                                                             *)
(***************************************************************************)

\* The state is well typed; no ledger count goes below zero.
TypeOK ==
    /\ status \in Statuses \cup {"none"}
    /\ kind \in {"leave", "exception"}
    /\ audit \in Seq([before : Statuses \cup {"none"}, after : Statuses])
    /\ granted \in Nat /\ entered \in Nat
    /\ mark \in BOOLEAN /\ today \in BOOLEAN /\ up \in BOOLEAN
    /\ pc \in [Threads -> Labels]
    /\ call \in [Calls -> Decision \cup {NoDecision}]
    /\ saw \in [Threads -> BOOLEAN]
    /\ fuel \in 0 .. MaxEvents

\* Statuses the audit trail says the request has had.
Past == {audit[i].after : i \in DOMAIN audit}

\* Every audited move follows an edge of the state machine from a status the
\* request had: races between deciders reorder decisions, they do not invent one.
Lifecycle == INSTANCE RequestLifecycle WITH past <- Past

FollowsLifecycle == Lifecycle!Spec

\* The workflow grants leave only on an approval: there are never more ledger
\* rows of its making, inserted or about to be, than audited approvals.
GrantsAreApproved ==
    granted + Cardinality({c \in Calls : pc[c] \in {"lookup", "insert"}})
    <= Cardinality({i \in DOMAIN audit : audit[i].after \in Approved})

\* No leave approval is lost in silence: once committed it reaches the ledger,
\* or its decider is answered 500 because the ledger's transaction raised, or
\* the process dies.  No answer of success leaves the ledger without the leave.
ApprovalReachesLedger ==
    \A c \in Calls : pc[c] = "lookup" ~> Rows > 0 \/ pc[c] = "raised" \/ ~up

\* Today's attendance row ends up agreeing with the ledger, whatever stale
\* recomputes, skipped failures, hand edits and crashes came before.
AttendanceFollowsLedger == <>[](today => mark = (Rows > 0))

\* state_machine.py: "no further transition allowed except by Admin override".
TerminalIsFinal ==
    [][(status \in Terminal) => status' \in {status, "admin_approved", "admin_rejected"}]_vars
=============================================================================
