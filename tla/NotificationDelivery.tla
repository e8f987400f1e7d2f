------------------------ MODULE NotificationDelivery ------------------------
(***************************************************************************)
(* The notification queue of one tenant: producers insert rows, the users  *)
(* change their preferences, and the worker of notifications/worker.py     *)
(* drains the rows by email, every 30 seconds and one at a time.           *)
(*                                                                         *)
(* The drain is a chain of small transactions with the provider called     *)
(* between them, so a preference may change, a database call may fail or   *)
(* the process may die at any point of it.                                 *)
(***************************************************************************)
EXTENDS Naturals, FiniteSets, FiniteSetsExt

CONSTANTS
    Subs,         \* subscriptions: a user and a category
    MaxRows,      \* bound on the rows of the notifications table
    BatchLimit,   \* limit of list_pending_email
    MaxAttempts,  \* max_attempts of list_pending_email
    MaxEvents,    \* bound on changes of settings, failures and interruptions
    None

Ids == 1 .. MaxRows

\* stamped is email_sent_at, which marks a skipped row as well as a sent one.
Row == [sub : Subs, stamped : BOOLEAN, attempts : 0 .. MaxAttempts,
        error : {"none", "failed", "skipped"}]

ASSUME DeliveryAssumption ==
    /\ None \notin Row
    /\ MaxRows \in Nat
    /\ BatchLimit \in Nat \ {0}
    /\ MaxAttempts \in Nat \ {0}
    /\ MaxEvents \in Nat

VARIABLES
    row,         \* the notifications table
    pref,        \* notification_preferences, absent rows resolved to TRUE
    address,     \* the user is active and has an email address
    email,       \* email_config: off, on, or on with a secret nobody can decrypt
    pc,          \* where the worker is
    batch,       \* rows of this drain still to be handled, the current one included
    sends,       \* per row, messages the provider has accepted
    unrecorded,  \* history: sends a row's attempt counter does not show
    late,        \* history: sends since the subscription last opted out
    fuel         \* events left

settings == <<pref, address, email>>
history  == <<unrecorded, late>>
vars     == <<row, pref, address, email, pc, batch, sends, unrecorded, late, fuel>>

Labels == {"idle", "disabled", "next", "skip", "send", "sent", "failed"}

current == Min(batch)

Init == /\ row = [i \in Ids |-> None]
        /\ pref \in [Subs -> [inApp : BOOLEAN, email : BOOLEAN]]
        /\ address \in [Subs -> BOOLEAN]
        /\ email \in {"off", "on", "broken"}
        /\ pc = "idle" /\ batch = {}
        /\ sends = [i \in Ids |-> 0]
        /\ unrecorded = [i \in Ids |-> 0]
        /\ late = [s \in Subs |-> 0]
        /\ fuel = MaxEvents

Event == fuel > 0 /\ fuel' = fuel - 1

(***************************************************************************)
(* Producers, users and the tenant's administrators.                       *)
(***************************************************************************)
\* notify_user: no row for a user who has silenced the bell.
Notify(s) ==
    /\ pref[s].inApp
    /\ \E i \in Ids :
         /\ row[i] = None
         /\ \A j \in Ids : j < i => row[j] # None
         /\ row' = [row EXCEPT ![i] = [sub |-> s, stamped |-> FALSE,
                                       attempts |-> 0, error |-> "none"]]
    /\ UNCHANGED <<settings, pc, batch, sends, history, fuel>>

SetPreference(s) ==
    /\ Event
    /\ \E new \in [inApp : BOOLEAN, email : BOOLEAN] :
         /\ pref' = [pref EXCEPT ![s] = new]
         /\ late' = [late EXCEPT ![s] = IF pref[s].email /\ ~new.email THEN 0 ELSE @]
    /\ UNCHANGED <<row, address, email, pc, batch, sends, unrecorded>>

EditUser(s) ==
    /\ Event
    /\ address' = [address EXCEPT ![s] = ~@]
    /\ UNCHANGED <<row, pref, email, pc, batch, sends, history>>

EditConfig ==
    /\ Event
    /\ email' \in {"off", "on", "broken"} \ {email}
    /\ UNCHANGED <<row, pref, address, pc, batch, sends, history>>

\* The worker docstring's way to have a row retried.
ClearAttempts(i) ==
    /\ row[i] # None
    /\ Event
    /\ row' = [row EXCEPT ![i].attempts = 0]
    /\ unrecorded' = [unrecorded EXCEPT ![i] = @ + row[i].attempts]
    /\ UNCHANGED <<settings, pc, batch, sends, late>>

(***************************************************************************)
(* The worker: drain_one_tenant.                                           *)
(***************************************************************************)
\* Mutant: a row that has failed once is not picked up again.
PendingUntried == {i \in Ids : row[i] # None /\ ~row[i].stamped /\ row[i].error = "none"}

\* Mutant: the attempt that reaches the limit is not the last.
PendingOffByOne ==
    {i \in Ids : row[i] # None /\ ~row[i].stamped /\ row[i].attempts <= MaxAttempts}

\* Mutant: rows already stamped are picked up, too.
PendingStamped == {i \in Ids : row[i] # None /\ row[i].attempts < MaxAttempts}

\* list_pending_email.
Pending == {i \in Ids : row[i] # None /\ ~row[i].stamped /\ row[i].attempts < MaxAttempts}

Oldest(S) == {i \in S : Cardinality({j \in S : j < i}) < BatchLimit}

\* The sender and the rows are read in one transaction.  A secret that does not
\* decrypt raises out of it, so the tenant's drain ends before it has begun.
Tick ==
    /\ pc = "idle"
    /\ email # "broken"
    /\ Pending # {}
    /\ batch' = Oldest(Pending)
    /\ pc' = IF email = "off" THEN "disabled" ELSE "next"
    /\ UNCHANGED <<row, settings, sends, history, fuel>>

\* mark_email_skipped, of every row of the batch in one transaction.
SkipAll ==
    /\ pc = "disabled"
    /\ row' = [i \in Ids |-> IF i \in batch
                                THEN [row[i] EXCEPT !.stamped = TRUE,
                                                    !.attempts = @ + 1,
                                                    !.error = "skipped"]
                                ELSE row[i]]
    /\ batch' = {}
    /\ pc' = "idle"
    /\ UNCHANGED <<settings, sends, history, fuel>>

\* Mutant: the preference is not read again for each row.
ResolveOnce ==
    /\ pc = "next" /\ batch # {}
    /\ pc' = IF address[row[current].sub] THEN "send" ELSE "skip"
    /\ UNCHANGED <<row, settings, batch, sends, history, fuel>>

\* resolve_preference and _user_email, in one transaction.
Resolve ==
    /\ pc = "next" /\ batch # {}
    /\ LET s == row[current].sub IN
         pc' = IF pref[s].email /\ address[s] THEN "send" ELSE "skip"
    /\ UNCHANGED <<row, settings, batch, sends, history, fuel>>

\* The provider accepts the message, whether or not its reply says so.
Delivered ==
    LET s == row[current].sub IN
    /\ sends' = [sends EXCEPT ![current] = @ + 1]
    /\ late' = [late EXCEPT ![s] = IF pref[s].email THEN @ ELSE @ + 1]

SendSucceeds ==
    /\ pc = "send"
    /\ Delivered
    /\ pc' = "sent"
    /\ UNCHANGED <<row, settings, batch, unrecorded, fuel>>

\* Mutant: the provider swallows its errors.
SendFailsQuietly ==
    /\ pc = "send"
    /\ Event
    /\ Delivered \/ UNCHANGED <<sends, late>>
    /\ pc' = "sent"
    /\ UNCHANGED <<row, settings, batch, unrecorded>>

SendFails ==
    /\ pc = "send"
    /\ Event
    /\ Delivered \/ UNCHANGED <<sends, late>>
    /\ pc' = "failed"
    /\ UNCHANGED <<row, settings, batch, unrecorded>>

\* mark_email_sent, mark_email_failed and mark_email_skipped of the current row.
Mark(stamp, error) ==
    /\ row' = [row EXCEPT ![current].stamped = @ \/ stamp,
                          ![current].attempts = @ + 1,
                          ![current].error = error]
    /\ batch' = batch \ {current}
    /\ pc' = "next"
    /\ UNCHANGED <<settings, sends, history, fuel>>

MarkSent    == pc = "sent" /\ Mark(TRUE, "none")

\* Mutant: a failure is recorded, but not counted.
MarkFailedUncounted ==
    /\ pc = "failed"
    /\ row' = [row EXCEPT ![current].error = "failed"]
    /\ batch' = batch \ {current}
    /\ pc' = "next"
    /\ UNCHANGED <<settings, sends, history, fuel>>

MarkFailed  == pc = "failed" /\ Mark(FALSE, "failed")

MarkSkipped == pc = "skip" /\ Mark(TRUE, "skipped")

DrainDone ==
    /\ pc = "next" /\ batch = {}
    /\ pc' = "idle"
    /\ UNCHANGED <<row, settings, batch, sends, history, fuel>>

\* A database call of the drain raises, or the process dies and starts again:
\* the rest of the batch is dropped, and with it what was not yet marked.
Interrupted ==
    /\ pc # "idle"
    /\ Event
    /\ unrecorded' = IF pc \in {"sent", "failed"}
                        THEN [unrecorded EXCEPT ![current] = @ + 1]
                        ELSE unrecorded
    /\ batch' = {}
    /\ pc' = "idle"
    /\ UNCHANGED <<row, settings, sends, late>>

Worker == \/ Tick \/ SkipAll \/ Resolve \/ SendSucceeds
          \/ MarkSent \/ MarkFailed \/ MarkSkipped \/ DrainDone

Next == \/ Worker \/ SendFails \/ Interrupted \/ EditConfig
        \/ \E s \in Subs : Notify(s) \/ SetPreference(s) \/ EditUser(s)
        \/ \E i \in Ids : ClearAttempts(i)

Spec == Init /\ [][Next]_vars

\* The scheduler ticks and the drain keeps running; nothing else has to happen.
FairSpec == Spec /\ WF_vars(Worker)

(***************************************************************************)
(* Properties.                                                             *)
(***************************************************************************)

\* The state is well typed; no row is attempted more often than the limit says.
TypeOK ==
    /\ row \in [Ids -> Row \cup {None}]
    /\ pref \in [Subs -> [inApp : BOOLEAN, email : BOOLEAN]]
    /\ address \in [Subs -> BOOLEAN]
    /\ email \in {"off", "on", "broken"}
    /\ pc \in Labels
    /\ batch \subseteq Ids
    /\ sends \in [Ids -> Nat]
    /\ unrecorded \in [Ids -> Nat]
    /\ late \in [Subs -> Nat]
    /\ fuel \in 0 .. MaxEvents

\* "Three attempts then we stop trying": a row is mailed at most MaxAttempts
\* times, but for the sends whose mark an interruption lost or that an operator
\* struck from the counter.
AttemptsAreBounded ==
    \A i \in Ids : sends[i] <= MaxAttempts + unrecorded[i]

\* A row marked as sent has been mailed; only a skipped one may be stamped
\* without a message having left.
StampedMeansMailed ==
    \A i \in Ids :
        row[i] # None /\ row[i].stamped /\ row[i].error # "skipped" => sends[i] > 0

\* The email preference is authoritative, "a flip during the tick must take
\* effect immediately": after an opt-out at most the one message goes out whose
\* preference had been read already, however long the batch is.
OptOutTakesEffect == \A s \in Subs : late[s] <= 1

\* Once a row is stamped, as sent or as skipped, it is never mailed again.
StampedIsFinal ==
    [][\A i \in Ids : row[i] # None /\ row[i].stamped
                      => row'[i].stamped /\ sends'[i] = sends[i]]_vars

\* The queue is drained: every row is in the end stamped or out of attempts,
\* unless the tenant's sender stays unreadable.
Settled(i) == row[i] # None /\ (row[i].stamped \/ row[i].attempts >= MaxAttempts)

EveryRowSettles ==
    <>[](email # "broken") => \A i \in Ids : row[i] # None ~> Settled(i)
=============================================================================
