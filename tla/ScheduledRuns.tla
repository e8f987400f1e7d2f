--------------------------- MODULE ScheduledRuns ---------------------------
(***************************************************************************)
(* scheduled_reports/, erp_export/ and retention/: the ticks that build    *)
(* the reports and exports that are due, the pages that edit, run and      *)
(* delete schedules, the download links, and the nightly sweep.            *)
(*                                                                         *)
(* What a report says is left out: it is a file of its run.                *)
(***************************************************************************)
EXTENDS OfficeState

Listed(s) == schedules[s] \notin {None, Gone}

(* Steps of a run or an export of this schedule ("erp" too) in flight. *)
Carries(op, s) == "about" \in DOMAIN op /\ op.about = s

Patched(s) ==
    IF \E w \in Worker : Carries(ops[w], s) THEN overtaken \cup {s} ELSE overtaken \ {s}

-----------------------------------------------------------------------------
(* scheduled_reports/router.py. *)

CreateSchedule(s, cron, sends) ==
    /\ Event("report")
    /\ schedules[s] = None
    /\ schedules' = [schedules EXCEPT ![s] =
           [cron |-> cron, active |-> TRUE, sends |-> sends, next |-> NextRun(cron, now)]]
    /\ UNCHANGED <<now, attendanceVars, runs, disk, mailed, links, email, erp, overtaken, ops, crashed, unrecorded>>

(* Mutant: the next run waits for the run the old expression planned. *)
RescheduleLazily(row, cron) == [row EXCEPT !.cron = cron]

Reschedule(row, cron) == [row EXCEPT !.cron = cron, !.next = NextRun(cron, now)]

PatchCron(s, cron) ==
    /\ Event("report")
    /\ Listed(s)
    /\ schedules' = [schedules EXCEPT ![s] = Reschedule(@, cron)]
    /\ overtaken' = Patched(s)
    /\ UNCHANGED <<now, attendanceVars, runs, disk, mailed, links, email, erp, ops, crashed, unrecorded>>

PatchSchedule(s, active, sends) ==
    /\ Event("report")
    /\ Listed(s)
    /\ schedules' = [schedules EXCEPT ![s].active = active, ![s].sends = sends]
    /\ UNCHANGED <<now, attendanceVars, runs, disk, mailed, links, email, erp, overtaken, ops, crashed, unrecorded>>

(* Mutant: the runs outlive their schedule. *)
DeleteScheduleOnly(s) ==
    /\ Event("report")
    /\ Listed(s)
    /\ schedules' = [schedules EXCEPT ![s] = Gone]
    /\ UNCHANGED <<now, attendanceVars, runs, disk, mailed, links, email, erp, overtaken, ops, crashed, unrecorded>>

(* The runs go with their schedule; their files stay. *)
DeleteSchedule(s) ==
    /\ Event("report")
    /\ Listed(s)
    /\ schedules' = [schedules EXCEPT ![s] = Gone]
    /\ runs' = [r \in Run |->
           IF runs[r] \notin {None, Gone} /\ runs[r].schedule = s THEN Gone ELSE runs[r]]
    /\ UNCHANGED <<now, attendanceVars, disk, mailed, links, email, erp, overtaken, ops, crashed, unrecorded>>

PatchEmail(enabled) ==
    /\ Event("report")
    /\ email' = enabled
    /\ UNCHANGED <<now, attendanceVars, schedules, runs, disk, mailed, links, erp, overtaken, ops, crashed, unrecorded>>

-----------------------------------------------------------------------------
(* scheduled_reports/runner.py: one run.  It keeps the schedule's row and  *)
(* the mail settings as they were when it began.                           *)

(* rest: the due schedules the tick still has before it, None for a run    *)
(* someone asked for; due: when it was due.                                *)
Started(s, r, due, rest) ==
    [next |-> "build", about |-> s, run |-> r, cron |-> schedules[s].cron,
     sends |-> schedules[s].sends /\ email, due |-> due, rest |-> rest,
     file |-> FALSE, mode |-> None, ok |-> FALSE]

(* Ids are handed out in order. *)
NewRun == CHOOSE r \in Run : runs[r] = None

Insert(s, r) ==
    /\ \E x \in Run : runs[x] = None
    /\ runs' = [runs EXCEPT ![r] =
           [schedule |-> s, status |-> "running", file |-> FALSE, mode |-> None, finished |-> None]]

RunNow(w, s) ==
    /\ Event("report")
    /\ Listed(s)
    /\ Insert(s, NewRun)
    /\ Begin(w, Started(s, NewRun, None, None))
    /\ UNCHANGED <<now, attendanceVars, schedules, disk, mailed, links, email, erp, overtaken, crashed, unrecorded>>

(* The report is built and stored, or it is not.  What is stored without a *)
(* recipient or with email off goes nowhere.                               *)
Build(w) ==
    LET op == ops[w] IN
    /\ At(w, "build")
    /\ \/ /\ disk' = disk \cup {op.run}
          /\ Put(w, [op EXCEPT !.file = TRUE, !.next = IF op.sends THEN "deliver" ELSE "finish"])
          /\ UNCHANGED fuel
       \/ /\ Event("report")
          /\ Put(w, [op EXCEPT !.next = "finish"])
          /\ UNCHANGED disk
    /\ UNCHANGED <<now, attendanceVars, schedules, runs, mailed, links, email, erp, overtaken, crashed, unrecorded>>

(* Small reports are attached, others sent as a link; the mail may fail. *)
Deliver(w) ==
    LET op == ops[w] IN
    /\ At(w, "deliver")
    /\ \E mode \in {"attached", "link"} :
       \/ /\ Put(w, [op EXCEPT !.mode = mode, !.ok = TRUE, !.next = "finish"])
          /\ links' = IF mode = "link" THEN links \cup {<<op.run, now + TokenLife>>} ELSE links
          /\ mailed' = IF op.due = None THEN mailed
                       ELSE [mailed EXCEPT ![op.about][op.due] = @ + 1]
          /\ UNCHANGED fuel
       \/ /\ Event("report")
          /\ Put(w, [op EXCEPT !.mode = mode, !.next = "finish"])
          /\ UNCHANGED <<links, mailed>>
    /\ UNCHANGED <<now, attendanceVars, schedules, runs, disk, email, erp, overtaken, crashed, unrecorded>>

(* Mutant: only a run that sent its mail is finished. *)
RecordSuccess(row, op) ==
    IF op.ok THEN [row EXCEPT !.status = "succeeded", !.finished = now,
                              !.file = op.file, !.mode = op.mode]
    ELSE row

Record(row, op) ==
    [row EXCEPT !.status = IF op.ok THEN "succeeded" ELSE "failed", !.finished = now,
                !.file = op.file, !.mode = op.mode]

(* Mutant: only the run someone asked for plans the next. *)
AdvanceAsked(op) ==
    IF op.due = None THEN [schedules EXCEPT ![op.about].next = NextRun(op.cron, now)] ELSE schedules

Advance(op) == [schedules EXCEPT ![op.about].next = NextRun(op.cron, now)]

(* A tick goes on with the schedules it has left. *)
AfterRun(rest) == IF rest \in {None, <<>>} THEN Idle ELSE [next |-> "due", rest |-> rest]

(* Rows deleted meanwhile are not updated.  The next run follows from the  *)
(* expression read at the start.                                           *)
Finish(w) ==
    LET op == ops[w] IN
    /\ At(w, "finish")
    /\ runs' = IF runs[op.run] = Gone THEN runs ELSE [runs EXCEPT ![op.run] = Record(@, op)]
    /\ schedules' = IF Listed(op.about) THEN Advance(op) ELSE schedules
    /\ Put(w, AfterRun(op.rest))
    /\ UNCHANGED <<now, attendanceVars, disk, mailed, links, email, erp, overtaken, crashed, unrecorded, fuel>>

(* This transaction is outside the try: when it raises, the page answers   *)
(* 500 and the tick goes on, and neither row is written.                   *)
FinishFails(w) ==
    LET op == ops[w] IN
    /\ Event("report")
    /\ At(w, "finish")
    /\ unrecorded' = unrecorded \cup {[run |-> op.run, about |-> op.about, due |-> op.due]}
    /\ Put(w, AfterRun(op.rest))
    /\ UNCHANGED <<now, attendanceVars, jobVars, crashed>>

-----------------------------------------------------------------------------
(* scheduled_reports/signed_url.py and download_run. *)

Downloads(link) ==
    LET r == link[1] IN
    /\ now <= link[2]
    /\ runs[r] \notin {None, Gone} /\ runs[r].file
    /\ r \in disk

-----------------------------------------------------------------------------
(* The tick: the export, then every schedule that is due, one by one.  A   *)
(* tick does not begin while the one before it runs.                       *)

Ticking(op) == op # Idle /\ "rest" \in DOMAIN op /\ op.rest # None

Export(rest) == [next |-> "export", about |-> "erp", cron |-> None, rest |-> rest]

ErpDue == erp.enabled /\ erp.cron # None /\ erp.next # None /\ erp.next <= now

Tick(w) ==
    /\ Event("report")
    /\ \A v \in Worker : ~Ticking(ops[v])
    /\ Begin(w, IF ErpDue THEN Export(<<>>) ELSE [next |-> "scan", rest |-> <<>>])
    /\ UNCHANGED <<now, attendanceVars, jobVars, crashed, unrecorded>>

Due == {s \in Schedule : Listed(s) /\ schedules[s].active /\ schedules[s].next <= now}

Scan(w) ==
    /\ At(w, "scan")
    /\ \E queue \in [1 .. Cardinality(Due) -> [id : Due, due : Time]] :
          /\ {queue[i].id : i \in DOMAIN queue} = Due
          /\ \A i \in DOMAIN queue : queue[i].due = schedules[queue[i].id].next
          /\ \A i, j \in DOMAIN queue : i < j => queue[i].due <= queue[j].due
          /\ Put(w, IF queue = <<>> THEN Idle ELSE [next |-> "due", rest |-> queue])
    /\ UNCHANGED <<now, attendanceVars, jobVars, crashed, unrecorded, fuel>>

(* A schedule that is gone by now is skipped, as is one whose first        *)
(* transaction raises; one paused by now is not.                           *)
SkipDue(w) ==
    LET op == ops[w] IN
    /\ At(w, "due")
    /\ IF Listed(op.rest[1].id) THEN Event("report") ELSE UNCHANGED fuel
    /\ Put(w, AfterRun(Tail(op.rest)))
    /\ UNCHANGED <<now, attendanceVars, jobVars, crashed, unrecorded>>

StartDue(w) ==
    LET op == ops[w]
        s  == op.rest[1].id
    IN  /\ At(w, "due")
        /\ Listed(s)
        /\ Insert(s, NewRun)
        /\ Put(w, Started(s, NewRun, op.rest[1].due, Tail(op.rest)))
        /\ UNCHANGED <<now, attendanceVars, schedules, disk, mailed, links, email, erp, overtaken,
                       crashed, unrecorded, fuel>>

-----------------------------------------------------------------------------
(* erp_export/. *)

(* A blank expression leaves the planned export where it is. *)
PatchErpCron(cron) ==
    /\ Event("report")
    /\ erp' = [erp EXCEPT !.cron = cron,
                          !.next = IF cron = None THEN @ ELSE NextRun(cron, now)]
    /\ overtaken' = Patched("erp")
    /\ UNCHANGED <<now, attendanceVars, schedules, runs, disk, mailed, links, email, ops, crashed, unrecorded>>

PatchErp(enabled) ==
    /\ Event("report")
    /\ erp' = [erp EXCEPT !.enabled = enabled]
    /\ UNCHANGED <<now, attendanceVars, schedules, runs, disk, mailed, links, email, overtaken, ops, crashed, unrecorded>>

ExportNow(w) ==
    /\ Event("report")
    /\ Begin(w, Export(None))
    /\ UNCHANGED <<now, attendanceVars, jobVars, crashed, unrecorded>>

NextExport == IF erp.cron = None THEN None ELSE NextRun(erp.cron, now)

(* The file is written, or the export has failed; the configuration is     *)
(* read again for the next run ...                                         *)
RereadConfig(w) ==
    /\ At(w, "export")
    /\ Put(w, [next |-> "record", about |-> "erp", due |-> NextExport, rest |-> ops[w].rest])
    /\ UNCHANGED <<now, attendanceVars, jobVars, crashed, unrecorded, fuel>>

(* ... which is recorded in a transaction of its own. *)
RecordExport(w) ==
    /\ At(w, "record")
    /\ erp' = [erp EXCEPT !.next = ops[w].due]
    /\ Put(w, IF ops[w].rest = None THEN Idle ELSE [next |-> "scan", rest |-> <<>>])
    /\ UNCHANGED <<now, attendanceVars, schedules, runs, disk, mailed, links, email, overtaken,
                   crashed, unrecorded, fuel>>

(* Either transaction may raise: the tick goes on. *)
ExportFails(w) ==
    /\ Event("report")
    /\ At(w, "export") \/ At(w, "record")
    /\ Put(w, IF ops[w].rest = None THEN Idle ELSE [next |-> "scan", rest |-> <<>>])
    /\ UNCHANGED <<now, attendanceVars, jobVars, crashed, unrecorded>>

-----------------------------------------------------------------------------
(* retention/sweep.py. *)

(* Mutant: runs are swept by their status, not by their age. *)
SweptFinished(r) == runs[r].finished # None

Swept(r) == runs[r].finished # None /\ runs[r].finished < now - KeepRuns

(* The files of old runs are unlinked first; one that cannot be is left. *)
SweepFiles(w) ==
    LET old == {r \in Run : runs[r] \notin {None, Gone} /\ Swept(r)} IN
    /\ Event("report")
    /\ \E dropped \in SUBSET {r \in old : runs[r].file} : disk' = disk \ dropped
    /\ Begin(w, [next |-> "sweep", rows |-> old])
    /\ UNCHANGED <<now, attendanceVars, schedules, runs, mailed, links, email, erp, overtaken, crashed, unrecorded>>

SweepRows(w) ==
    /\ At(w, "sweep")
    /\ runs' = [r \in Run |-> IF r \in ops[w].rows THEN Gone ELSE runs[r]]
    /\ Done(w)
    /\ UNCHANGED <<now, attendanceVars, schedules, disk, mailed, links, email, erp, overtaken,
                   crashed, unrecorded, fuel>>

-----------------------------------------------------------------------------
(* Properties. *)

(* The next run of a schedule is a time its expression matches, unless the *)
(* expression was last changed while a run of the schedule was in flight   *)
(* (runner.py writes what follows from the expression it read first).  The *)
(* same holds of the export.                                               *)
NextRunFollowsCron ==
    /\ \A s \in Schedule : Listed(s) /\ s \notin overtaken =>
          schedules[s].next % schedules[s].cron = 0
    /\ "erp" \notin overtaken /\ erp.cron # None /\ erp.next # None =>
          erp.next % erp.cron = 0

(* A run that says "running" is running: whatever fails on the way, the    *)
(* run is finished.  Two things strand it for good: the process dies, or   *)
(* the transaction that was to finish it raises (run_schedule_now).        *)
RunningRunsAreAlive ==
    \A r \in Run : runs[r] \notin {None, Gone} /\ runs[r].status = "running" =>
        \/ crashed
        \/ \E x \in unrecorded : x.run = r
        \/ \E w \in Worker : "run" \in DOMAIN ops[w] /\ ops[w].run = r

(* A link that was mailed and has not expired downloads the report, once   *)
(* its run is recorded and as long as the schedule is there: neither the   *)
(* sweep nor a failure takes the file from under it.                       *)
LinksWork ==
    \A link \in links :
        LET r == link[1] IN
        now <= link[2] =>
            \/ Downloads(link)
            \/ runs[r] = Gone /\ r \in disk  \* the schedule is deleted
            \/ runs[r] # Gone /\ runs[r].status = "running"

(* What was due is mailed once, unless the process died, or the recording  *)
(* of a run that served this very due time raised: next_run_at is still    *)
(* the due time then, and the next tick mails it again (run_schedule_now). *)
DueServedOnce ==
    \A s \in Schedule, t \in Time :
        mailed[s][t] > 1 => crashed \/ \E x \in unrecorded : x.about = s /\ x.due = t

=============================================================================
