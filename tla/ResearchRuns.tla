---------------------------- MODULE ResearchRuns ----------------------------
(***************************************************************************)
(* One offline research run of finboard: its row in research_runs, its      *)
(* artifacts, and the attempts of the background job that carry it out      *)
(* (ResearchRunExecutor driving a ResearchRunCoordinator).                  *)
(*                                                                          *)
(* Every store operation is a transaction of its own, so a status that was  *)
(* read is old as soon as it is used.  Nothing stops an attempt whose job   *)
(* was taken away: it goes on beside the next one and both write the same   *)
(* rows.  The job's row moves as JobQueue has it, without workers and       *)
(* sessions.  A decision's artifacts are one row here: they are committed   *)
(* together.  Its content is a choice, so that a strategy need not compute  *)
(* the same again, and carries on from the decision before it.              *)
(***************************************************************************)
EXTENDS Naturals

CONSTANTS MaxAttempts,  \* attempts of the job
          Decisions,    \* decisions of the strategy
          Values,       \* what a decision may turn out to be
          Opening,      \* the ledger before the first decision
          MaxBoots      \* bound on worker starts that scan for stale runs

ASSUME ResearchAssumption ==
  /\ MaxAttempts \in Nat \ {0} /\ Decisions \in Nat \ {0} /\ MaxBoots \in Nat
  /\ Opening \notin Values

VARIABLES
  run,     \* the research_runs row
  rows,    \* the decisions' artifacts
  report,  \* the report artifact
  job,     \* the background_jobs row
  ex,      \* the executions, by attempt
  boot,    \* the scan of a starting worker
  dropped, \* for properties: attempts that ended without settling the run
  taken,   \* for properties: was the job taken from a living attempt?
  late     \* for properties: decisions an attempt added to a cancelled run

vars == <<run, rows, report, job, ex, boot, dropped, taken, late>>
-----------------------------------------------------------------------------
Attempts == 1..MaxAttempts
Index    == 1..Decisions

RunStatus == {"queued", "running", "interrupted", "completed", "failed", "rejected",
              "cancelled"}
Startable == {"queued", "interrupted", "failed"}

\* The statuses _TRANSITIONS lets a run leave for another.
Sources(target) == CASE target = "interrupted" -> {"running"}
                     [] target = "failed"      -> {"running"}
                     [] target = "rejected"    -> {"queued", "running"}
                     [] target = "cancelled"   -> Startable \cup {"running"}

JobDone   == {"succeeded", "failed", "cancelled"}
Claimed   == {"running", "cancel_requested"}
Waiting   == {"retry_waiting", "interrupted"}
JobStatus == {"queued"} \cup JobDone \cup Claimed \cup Waiting

\* A decision's content binds it to the ledger it started from.
Content  == [value : Values, after : Values \cup {Opening}]
NoRow    == [value |-> Opening, after |-> Opening]
Table    == [Index -> Content \cup {NoRow}]
NoReport == [upto |-> 0, last |-> Opening, made |-> FALSE]
Report   == [upto : 0..Decisions, last : Values \cup {Opening}, made : BOOLEAN]

\* result_checksum digests the stages and checksums of all artifacts.
Digest(table, rep) == [saved |-> TRUE, rows |-> table, report |-> rep]
NoResult           == [saved |-> FALSE, rows |-> [k \in Index |-> NoRow],
                       report |-> NoReport]
Result             == [saved : BOOLEAN, rows : Table, report : Report]

\* _record_to_result.
Outcome(status) == CASE status = "completed"   -> "succeeded"
                     [] status = "cancelled"   -> "cancelled"
                     [] status = "interrupted" -> "retry_waiting"
                     [] OTHER                  -> "failed"

Before   == {"looking", "converging", "building", "failing", "unqueueing", "entering",
             "starting", "rereading"}
Owning   == {"marking", "loading", "checking", "appending", "reporting", "saving",
             "completing"}
Settling == {"settling", "writing"}
Alive    == {"claimed", "returned", "raised"} \cup Before \cup Owning \cup Settling
Stages   == {"none", "over"} \cup Alive

\* done, last: the decisions persisted, and the ledger after them.  seeds: those read
\* back.  out: the status or result it is heading for.  warned: cancel_state.
Execution == [at : Stages, seeds : Table, done : 0..Decisions,
              last : Values \cup {Opening},
              out : RunStatus \cup JobStatus \cup {"none"}, warned : BOOLEAN]
Fresh == [at |-> "none", seeds |-> [k \in Index |-> NoRow], done |-> 0,
          last |-> Opening, out |-> "none", warned |-> FALSE]

TypeOK ==
  /\ run \in [status : RunStatus, result : Result]
  /\ rows \in Table /\ report \in Report
  /\ job \in [status : JobStatus, attempt : 0..MaxAttempts, fresh : BOOLEAN]
  /\ ex \in [Attempts -> Execution]
  /\ \A a \in Attempts : ex[a].at = "none" <=> a > job.attempt
  /\ boot \in [at : {"idle", "listed", "orphan"}, count : 0..MaxBoots]
  /\ dropped \subseteq Attempts /\ taken \in BOOLEAN
  /\ late \in [Attempts -> Nat]

\* The run and its job are enqueued in one transaction.
Init ==
  /\ run = [status |-> "queued", result |-> NoResult]
  /\ rows = [k \in Index |-> NoRow] /\ report = NoReport
  /\ job = [status |-> "queued", attempt |-> 0, fresh |-> FALSE]
  /\ ex = [a \in Attempts |-> Fresh]
  /\ boot = [at |-> "idle", count |-> 0]
  /\ dropped = {} /\ taken = FALSE
  /\ late = [a \in Attempts |-> 0]
-----------------------------------------------------------------------------
\* An execution goes on, heads for a report, or has made its last decision: what it holds
\* of the decisions is forgotten then.
Go(a, stage)       == ex' = [ex EXCEPT ![a].at = stage]
Gather(a, outcome) == ex' = [ex EXCEPT ![a].at = "reporting", ![a].out = outcome]
Leave(a, stage, r) == ex' = [ex EXCEPT ![a] = [Fresh EXCEPT !.at = stage, !.out = r,
                                                            !.warned = ex[a].warned]]
Returned(a, s)     == Leave(a, "returned", Outcome(s))
Raised(a)          == Leave(a, "raised", "failed")
Settle(a, target)  == Leave(a, "settling", target)
Gone(a)            == ex' = [ex EXCEPT ![a] = [Fresh EXCEPT !.at = "over"]]

Become(status) == run' = [run EXCEPT !.status = status]
Drop(a)        == dropped' = dropped \cup {a}

Artifacts == <<rows, report>>
History   == <<dropped, taken, late>>
Rest      == <<job, boot, History>>
-----------------------------------------------------------------------------
(* The executor, up to the coordinator. *)

\* Mutant: the claim does not count as an attempt.
ClaimUncounted(a) ==
  /\ job.status = "queued" /\ a = job.attempt + 1
  /\ job' = [job EXCEPT !.status = "running", !.fresh = TRUE]
  /\ Go(a, "claimed")
  /\ UNCHANGED <<run, Artifacts, boot, History>>

Claim(a) ==
  /\ job.status = "queued" /\ a = job.attempt + 1
  /\ job' = [status |-> "running", attempt |-> a, fresh |-> TRUE]
  /\ Go(a, "claimed")
  /\ UNCHANGED <<run, Artifacts, boot, History>>

\* _run_one gives up when the job was cancelled or taken since the claim.
Begin(a) ==
  /\ ex[a].at = "claimed"
  /\ IF job.status = "running" THEN Go(a, "looking") /\ UNCHANGED dropped
                               ELSE Gone(a) /\ Drop(a)
  /\ UNCHANGED <<run, Artifacts, job, boot, taken, late>>

\* Mutant: what an earlier attempt left RUNNING is not looked for.
LookPast(a) ==
  /\ ex[a].at = "looking"
  /\ Go(a, "building")
  /\ UNCHANGED <<run, Artifacts, Rest>>

\* _converge_stale_running: a run still RUNNING is taken for the remains of an attempt
\* that was killed.
Look(a) ==
  /\ ex[a].at = "looking"
  /\ Go(a, IF run.status = "running" THEN "converging" ELSE "building")
  /\ UNCHANGED <<run, Artifacts, Rest>>

\* A conflict leaves the executor as an exception.
Converge(a) ==
  /\ ex[a].at = "converging"
  /\ \/ run.status = "running" /\ Become("interrupted") /\ Go(a, "building")
     \/ run.status # "running" /\ UNCHANGED run /\ Raised(a)
  /\ UNCHANGED <<Artifacts, Rest>>

\* The adapter factory.
Build(a) ==
  /\ ex[a].at = "building"
  /\ Go(a, "entering") \/ Go(a, "failing")
  /\ UNCHANGED <<run, Artifacts, Rest>>

\* _mark_run_failed: a queued run is set RUNNING first, to be FAILED next.
MarkLook(a) ==
  /\ ex[a].at = "failing"
  /\ Go(a, IF run.status = "queued" THEN "unqueueing" ELSE "marking")
  /\ UNCHANGED <<run, Artifacts, Rest>>

\* A conflict is passed over, here and in the second half.
MarkRunning(a) ==
  /\ ex[a].at = "unqueueing"
  /\ \/ run.status = "queued" /\ Become("running") /\ Go(a, "marking")
     \/ run.status # "queued" /\ UNCHANGED run /\ Raised(a)
  /\ UNCHANGED <<Artifacts, Rest>>

\* Only a RUNNING run is marked: one that Converge interrupted stays interrupted.
MarkFailed(a) ==
  /\ ex[a].at = "marking"
  /\ IF run.status = "running" THEN Become("failed") ELSE UNCHANGED run
  /\ Raised(a)
  /\ UNCHANGED <<Artifacts, Rest>>
-----------------------------------------------------------------------------
(* The coordinator's execute. *)

\* create_or_get finds the row; only a startable run goes on.
Enter(a) ==
  /\ ex[a].at = "entering"
  /\ IF run.status \in Startable THEN Go(a, "starting") ELSE Returned(a, run.status)
  /\ UNCHANGED <<run, Artifacts, Rest>>

\* validate_manifest and the locked transition to RUNNING.
Start(a) ==
  /\ ex[a].at = "starting"
  /\ \/ run.status \in Startable /\ Become("running") /\ Go(a, "loading")
     \/ run.status \notin Startable /\ UNCHANGED run /\ Go(a, "rereading")
     \/ UNCHANGED run /\ \E target \in {"rejected", "failed"} : Settle(a, target)
  /\ UNCHANGED <<Artifacts, Rest>>

\* After a conflict the record is handed on if another attempt has the run.
Reread(a) ==
  /\ ex[a].at = "rereading"
  /\ IF run.status \in {"running", "completed"} THEN Returned(a, run.status)
                                                ELSE Settle(a, "failed")
  /\ UNCHANGED <<run, Artifacts, Rest>>

\* _load_resume_prefix and _offer_resume: the decisions persisted so far are read back
\* and taken over, or all are computed anew.
Load(a) ==
  /\ ex[a].at = "loading"
  /\ \E seeds \in {rows, [k \in Index |-> NoRow]} :
       ex' = [ex EXCEPT ![a].at = "checking", ![a].seeds = seeds]
  /\ UNCHANGED <<run, Artifacts, Rest>>

\* Mutant: the status is read before the first decision only.
CheckOnce(a) ==
  /\ ex[a].at = "checking"
  /\ IF ex[a].done = Decisions THEN Gather(a, "completed")
     ELSE IF run.status = "running" \/ ex[a].done > 0 THEN Go(a, "appending")
     ELSE IF run.status = "cancelled" THEN Returned(a, "cancelled")
     ELSE Settle(a, "interrupted")
  /\ UNCHANGED <<run, Artifacts, Rest>>

\* A decision is there: the status is read before it is persisted.  After the last one
\* the report is built.
Check(a) ==
  /\ ex[a].at = "checking"
  /\ IF ex[a].done = Decisions THEN Gather(a, "completed")
     ELSE IF run.status = "running" THEN Go(a, "appending")
     ELSE IF run.status = "cancelled" THEN Returned(a, "cancelled")
     ELSE Settle(a, "interrupted")
  /\ UNCHANGED <<run, Artifacts, Rest>>

\* The decision cannot be made: a probe of the loader sees the run or the job cancelled
\* or taken, or a hard constraint fails, with evidence to save or without.
Give(a) ==
  /\ ex[a].at \in {"checking", "appending"} /\ ex[a].done < Decisions
  /\ \/ /\ ex[a].at = "checking"
        /\ run.status # "running" \/ job.status = "cancel_requested"
        /\ Settle(a, "interrupted")
     \/ Gather(a, "rejected")
     \/ Settle(a, "rejected")
  /\ UNCHANGED <<run, Artifacts, Rest>>

\* The content of the next decision: read back, or computed from the ledger.
Upcoming(x) == LET seed == x.seeds[x.done + 1]
               IN IF seed # NoRow THEN {seed}
                                  ELSE {[value |-> v, after |-> x.last] : v \in Values}

\* Mutant: the checksum of an artifact that is there already is not compared.
AdmitsAny(k, content) == rows[k] # NoRow \/ ~(report.made /\ report.upto = k - 1)

\* An artifact that is there must be equal; a new one must not have the sequence number of
\* the report.
Admits(k, content) == IF rows[k] # NoRow THEN rows[k] = content
                                         ELSE ~(report.made /\ report.upto = k - 1)

\* _persist_decision and append_artifacts.
Append(a) ==
  /\ ex[a].at = "appending"
  /\ \E content \in Upcoming(ex[a]) :
       LET k == ex[a].done + 1 IN
       IF Admits(k, content)
         THEN /\ rows' = [rows EXCEPT ![k] = content]
              /\ ex' = [ex EXCEPT ![a].at = "checking", ![a].done = k,
                                  ![a].last = content.value]
              /\ late' = IF run.status = "cancelled" /\ rows[k] = NoRow
                           THEN [late EXCEPT ![a] = @ + 1] ELSE late
         ELSE Settle(a, "failed") /\ UNCHANGED <<rows, late>>
  /\ UNCHANGED <<run, report, job, boot, dropped, taken>>

\* Mutant: reports have sequence numbers of their own.
FitsAnywhere(new) == ~report.made \/ report = new

\* The report's number is that of the decision that would come next.
Fits(new) == IF report.made THEN report = new
                            ELSE new.upto < Decisions => rows[new.upto + 1] = NoRow

\* _persist_report, of all decisions or of those before the failed constraint; evidence
\* that cannot be persisted is done without.
Conclude(a) ==
  /\ ex[a].at = "reporting"
  /\ LET new == [upto |-> ex[a].done, last |-> ex[a].last, made |-> TRUE]
     IN IF Fits(new)
          THEN report' = new /\ Go(a, "saving")
          ELSE /\ UNCHANGED report
               /\ Settle(a, IF ex[a].out = "completed" THEN "failed" ELSE "rejected")
  /\ UNCHANGED <<run, rows, Rest>>

\* list_artifact_digests and save_result: only an equal result may be there already.  No
\* artifact is added between the two, as there is a report.
Save(a) ==
  /\ ex[a].at = "saving"
  /\ LET result == Digest(rows, report)
         fits == run.result \in {NoResult, result}
     IN /\ run' = [run EXCEPT !.result = IF fits THEN result ELSE @]
        /\ IF ex[a].out = "completed"
             THEN IF fits THEN Go(a, "completing") ELSE Settle(a, "failed")
             ELSE Settle(a, "rejected")
  /\ UNCHANGED <<Artifacts, Rest>>

\* Mutant: a conflict counts as having been completed already.
CompleteAnyhow(a) ==
  /\ ex[a].at = "completing"
  /\ IF run.status = "running" THEN Become("completed") ELSE UNCHANGED run
  /\ Returned(a, "completed")
  /\ UNCHANGED <<Artifacts, Rest>>

\* The run is completed, unless it was cancelled or settled meanwhile.
Complete(a) ==
  /\ ex[a].at = "completing"
  /\ \/ run.status = "running" /\ Become("completed") /\ Returned(a, "completed")
     \/ run.status # "running" /\ UNCHANGED run /\ Settle(a, "failed")
  /\ UNCHANGED <<Artifacts, Rest>>

\* Any error, in the strategy or of the store, also of an operation that was carried out.
Fail(a) ==
  /\ ex[a].at \in (Owning \ {"marking"}) \cup {"starting"}
  /\ Settle(a, "failed")
  /\ UNCHANGED <<run, Artifacts, Rest>>

\* _safe_terminal_transition reads the status and keeps one it may not change ...
SettleLook(a) ==
  /\ ex[a].at = "settling"
  /\ IF run.status \in Sources(ex[a].out) THEN Go(a, "writing")
                                          ELSE Returned(a, run.status)
  /\ UNCHANGED <<run, Artifacts, Rest>>

\* ... and writes under the lock; a conflict leaves execute as an exception.
SettleWrite(a) ==
  /\ ex[a].at = "writing"
  /\ \/ /\ run.status \in Sources(ex[a].out)
        /\ Become(ex[a].out) /\ Returned(a, ex[a].out)
     \/ run.status \notin Sources(ex[a].out) /\ UNCHANGED run /\ Raised(a)
  /\ UNCHANGED <<Artifacts, Rest>>
-----------------------------------------------------------------------------
(* The worker around an execution. *)

\* A store error where nothing turns it into a status.
Break(a) ==
  /\ ex[a].at \in (Before \ {"building", "starting"}) \cup Settling \cup {"marking"}
  /\ Raised(a) /\ Drop(a)
  /\ UNCHANGED <<run, Artifacts, job, boot, taken, late>>

\* A progress call finds the cancel request: a CancelledError passes every handler.
Abort(a) ==
  /\ ex[a].at \in {"looking", "checking", "saving", "completing", "settling"}
  /\ job.status = "cancel_requested"
  /\ Leave(a, "returned", "cancelled") /\ Drop(a)
  /\ UNCHANGED <<run, Artifacts, job, boot, taken, late>>

\* The stall watchdog cancels the execution, which passes every handler too.
Stall(a) ==
  /\ ex[a].at \in Before \cup Owning \cup Settling
  /\ Leave(a, "returned", "retry_waiting") /\ Drop(a)
  /\ UNCHANGED <<run, Artifacts, job, boot, taken, late>>

\* The heartbeat, or the last progress call, sees a cancel request.
Warn(a) ==
  /\ ex[a].at \in Alive \ {"claimed", "raised"} /\ ~ex[a].warned
  /\ job.status = "cancel_requested"
  /\ ex' = [ex EXCEPT ![a].warned = TRUE]
  /\ UNCHANGED <<run, Artifacts, Rest>>

\* _finalize: neither the worker nor the attempt is compared.
Finalize(a) ==
  /\ ex[a].at \in {"returned", "raised"}
  /\ LET result == IF ex[a].warned /\ ex[a].at = "returned" THEN "cancelled" ELSE ex[a].out
     IN IF job.status \in Claimed THEN job' = [job EXCEPT !.status = result]
                                  ELSE UNCHANGED job
  /\ Gone(a)
  /\ UNCHANGED <<run, Artifacts, boot, History>>

\* The worker process ends, by a signal or by itself.
Crash(a) ==
  /\ ex[a].at \in Alive
  /\ Gone(a) /\ Drop(a)
  /\ UNCHANGED <<run, Artifacts, job, boot, taken, late>>
-----------------------------------------------------------------------------
(* The job's row: leases, maintenance and users. *)

Living == \E a \in Attempts : ex[a].at \in Alive
JobOnly == UNCHANGED <<run, Artifacts, ex, boot, dropped, late>>

Expire == /\ job.status \in Claimed /\ job.fresh
          /\ job' = [job EXCEPT !.fresh = FALSE]
          /\ UNCHANGED taken /\ JobOnly

\* reclaim_stale; the execution may be alive, with its renewals late.
Reclaim == /\ job.status \in Claimed /\ ~job.fresh
           /\ job' = [job EXCEPT !.status = "interrupted"]
           /\ taken' = (taken \/ Living) /\ JobOnly

\* _detect_zombie_jobs: no progress for too long; nothing tells the execution.
KillZombie == /\ job.status = "running"
              /\ job' = [job EXCEPT !.status = "retry_waiting"]
              /\ taken' = (taken \/ Living) /\ JobOnly

Requeue == /\ job.status \in Waiting
           /\ job' = [job EXCEPT !.status = IF job.attempt >= MaxAttempts THEN "failed"
                                                                          ELSE "queued"]
           /\ UNCHANGED taken /\ JobOnly

\* request_cancel; a waiting interrupted job refuses it.
CancelledJob == [job EXCEPT !.status = IF @ = "running" THEN "cancel_requested"
                                       ELSE IF @ \in {"queued", "retry_waiting"}
                                         THEN "cancelled" ELSE @]

\* A user cancels the job: the run's row is not written.
CancelJob == /\ job.status \in {"running", "queued", "retry_waiting"}
             /\ job' = CancelledJob
             /\ taken' = (taken \/ (Living /\ job.status # "running")) /\ JobOnly

\* A user cancels the run: both rows in one transaction.
CancelRun ==
  /\ run.status \in Sources("cancelled") \cup {"cancelled"}
  /\ <<run.status, job.status>> # <<"cancelled", CancelledJob.status>>
  /\ Become("cancelled") /\ job' = CancelledJob
  /\ taken' = (taken \/ (Living /\ job.status \in {"queued", "retry_waiting"}))
  /\ UNCHANGED <<Artifacts, ex, boot, dropped, late>>
-----------------------------------------------------------------------------
(* A worker starts: _recover_research_runs. *)

BootOnly == UNCHANGED <<Artifacts, job, ex, History>>

\* list_by_status.
Scan ==
  /\ boot.at = "idle" /\ boot.count < MaxBoots
  /\ run.status = "running"
  /\ boot' = [at |-> "listed", count |-> boot.count + 1]
  /\ UNCHANGED run /\ BootOnly

\* The ownership probe: a claimed job with a lease that has not expired.
Probe ==
  /\ boot.at = "listed"
  /\ boot' = [boot EXCEPT !.at = IF job.status \in Claimed /\ job.fresh THEN "idle"
                                                                        ELSE "orphan"]
  /\ UNCHANGED run /\ BootOnly

\* The run is interrupted if it is RUNNING still; otherwise the worker does not start.
MarkStale ==
  /\ boot.at = "orphan"
  /\ IF run.status = "running" THEN Become("interrupted") ELSE UNCHANGED run
  /\ boot' = [boot EXCEPT !.at = "idle"]
  /\ BootOnly
-----------------------------------------------------------------------------
Execute(a) ==
  \/ Begin(a) \/ Look(a) \/ Converge(a) \/ Build(a)
  \/ MarkLook(a) \/ MarkRunning(a) \/ MarkFailed(a)
  \/ Enter(a) \/ Start(a) \/ Reread(a) \/ Load(a)
  \/ Check(a) \/ Append(a) \/ Conclude(a) \/ Save(a) \/ Complete(a)
  \/ SettleLook(a) \/ SettleWrite(a) \/ Finalize(a)
Disturb(a) == Give(a) \/ Fail(a) \/ Break(a) \/ Abort(a) \/ Stall(a) \/ Warn(a) \/ Crash(a)
Maintain   == Expire \/ Reclaim \/ KillZombie \/ Requeue \/ CancelJob \/ CancelRun
Recover    == Scan \/ Probe \/ MarkStale

Next == \/ \E a \in Attempts : Claim(a) \/ Execute(a) \/ Disturb(a)
        \/ Maintain \/ Recover

Spec == Init /\ [][Next]_vars
-----------------------------------------------------------------------------
(* Properties. *)

\* However attempts overlap, resume or compute anew, and whatever their strategies come
\* to, the artifacts are one history: every decision carries on from the ledger of the
\* one before, and a report is of exactly the decisions that are there.
OneHistory ==
  /\ \A k \in Index : rows[k] # NoRow =>
       IF k = 1 THEN rows[k].after = Opening
                ELSE rows[k - 1] # NoRow /\ rows[k].after = rows[k - 1].value
  /\ report.made =>
       /\ \A k \in Index : rows[k] # NoRow <=> k <= report.upto
       /\ report.last = IF report.upto = 0 THEN Opening ELSE rows[report.upto].value

\* A saved result is the digest of the artifacts as they are, and a completed run has one
\* of all its decisions: no late attempt adds to what was digested.
ResultStands ==
  /\ run.result.saved => run.result = Digest(rows, report)
  /\ run.status = "completed" => run.result.saved /\ report.upto = Decisions

\* A job that succeeded belongs to a completed run, whichever attempt wrote either.
SuccessIsComplete == job.status = "succeeded" => run.status = "completed"

\* A cancelled run gets at most one more decision from each attempt.
CancelStops == \A a \in Attempts : late[a] <= 1

\* A run is left RUNNING for good, with its job settled and nobody executing it, only if
\* the last attempt ended without writing it: what an earlier one left is taken up again.
\* When attempts overlapped it may have been any of them.
NoneStranded ==
  job.status \in JobDone /\ ~Living /\ run.status = "running" =>
    IF taken THEN dropped # {} ELSE job.attempt \in dropped
============================================================================
