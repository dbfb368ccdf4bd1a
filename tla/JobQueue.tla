------------------------------ MODULE JobQueue ------------------------------
(***************************************************************************)
(* The background job queue of finboard: the background_jobs table behind  *)
(* BackgroundJobRepository (finboard_persistence), the BackgroundWorker    *)
(* processes that claim, execute and maintain jobs (finboard_backtest) and *)
(* the jobs API.                                                           *)
(*                                                                         *)
(* An action is one database transaction, or one step of an execution that *)
(* touches no row.  A worker id is drawn for each process, so a worker     *)
(* that is gone never comes back.  An execution belongs to the attempt     *)
(* whose claim started it; nothing but its worker's end stops it when its  *)
(* job is taken away.  Time is left out: a lease is held or has expired.   *)
(***************************************************************************)
EXTENDS Naturals, FiniteSets

CONSTANTS Jobs,          \* job ids
          Workers,       \* worker processes
          NoWorker,      \* the worker of a job nobody claimed
          KindOf,        \* the kind of each job
          KeyOf,         \* the idempotency key of each job
          KindLimit,     \* kind_concurrency: running jobs of each kind
          MaxConcurrent, \* executions of one worker
          MaxAttempts,   \* attempts of one job
          Managed,       \* bound: jobs users cancel or archive
          Lasting,       \* workers that never stop (for liveness)
          LockRereads    \* does locking a row the session read before reread it?

ASSUME JobsAssumption == /\ MaxAttempts \in Nat \ {0} /\ MaxConcurrent \in Nat \ {0}
                         /\ KindLimit \in [{KindOf[j] : j \in Jobs} -> Nat \ {0}]
ASSUME WorkersAssumption == NoWorker \notin Workers /\ Lasting \subseteq Workers
ASSUME ManagedAssumption == Managed \subseteq Jobs
ASSUME SessionAssumption == LockRereads \in BOOLEAN

VARIABLES
  row,      \* the background_jobs rows
  worker,   \* where each worker process is
  execs,    \* _inflight of all workers: the executions under way
  looked,   \* the status an API session read before it asks for a cancel
  suspect,  \* jobs a maintenance session read as running without progress
  trouble   \* history: why an execution may have lost its job

vars == <<row, worker, execs, looked, suspect, trouble>>
-----------------------------------------------------------------------------
Finished    == {"succeeded", "failed", "cancelled"}
Terminal    == Finished \cup {"interrupted"}      \* TERMINAL_STATUSES
Recreatable == {"failed", "cancelled"}            \* _RECREATABLE_STATUSES
Claimed     == {"running", "cancel_requested"}
Waiting     == {"retry_waiting", "interrupted"}
Status      == {"queued"} \cup Finished \cup Claimed \cup Waiting

JobRow == [status : Status \cup {"absent"}, attempt : 0..MaxAttempts,
           worker : Workers \cup {NoWorker}, lease : {"none", "held", "expired"},
           archived : BOOLEAN]

\* What an execution will ask _finalize to write; "none" while it runs.
Results == Finished \cup {"retry_waiting"}

\* phase: the task exists, the executor runs, it returned.  heart: does the
\* heartbeat task run?  cancelled: cancel_state.
Execution == [job : Jobs, attempt : 1..MaxAttempts, worker : Workers,
              phase : {"claimed", "running", "returned"}, heart : BOOLEAN,
              cancelled : BOOLEAN, result : Results \cup {"none"}]

Running(k) == {j \in Jobs : KindOf[j] = k /\ row[j].status = "running"}
Inflight(w) == {x \in execs : x.worker = w}
ExecsOf(j)  == {x \in execs : x.job = j}

\* The only rows the partial unique index admits once per key.
LiveRow(j) == row[j].status \notin Recreatable \cup {"absent"}

\* A lease is renewed long before its end by the heartbeat of an execution on
\* the owning worker; the short steps before and after count as renewing.
Renewed(j) == \E x \in ExecsOf(j) : x.worker = row[j].worker
                                      /\ (x.phase = "running" => x.heart)

Set(j, s)     == row' = [row EXCEPT ![j].status = s]
Become(x, y)  == execs' = (execs \ {x}) \cup {y}
Upset(j, why) == trouble' = [trouble EXCEPT ![j] = @ \cup {why}]

TypeOK ==
  /\ row \in [Jobs -> JobRow]
  /\ \A j \in Jobs : row[j].status = "absent" => row[j].attempt = 0
  /\ worker \in [Workers -> {"new", "up", "draining", "gone"}]
  /\ execs \subseteq Execution
  /\ \A x, y \in execs : x.job = y.job /\ x.attempt = y.attempt => x = y
  /\ \A x \in execs : /\ x.attempt <= row[x.job].attempt
                      /\ worker[x.worker] \in {"up", "draining"}
                      /\ x.phase = "returned" <=> x.result # "none"
  /\ looked \in [Jobs -> Status \cup {"none"}]
  /\ suspect \subseteq Jobs
  /\ trouble \in [Jobs -> SUBSET {"cancel", "zombie", "late"}]

Init ==
  /\ row = [j \in Jobs |-> [status |-> "absent", attempt |-> 0, worker |-> NoWorker,
                            lease |-> "none", archived |-> FALSE]]
  /\ worker = [w \in Workers |-> "new"]
  /\ execs = {}
  /\ looked = [j \in Jobs |-> "none"]
  /\ suspect = {}
  /\ trouble = [j \in Jobs |-> {}]
-----------------------------------------------------------------------------
(* The jobs API. *)

\* Mutant: an interrupted row does not count as live.
CreateBesideInterrupted(j) ==
  /\ row[j].status = "absent"
  /\ ~\E i \in Jobs : KeyOf[i] = KeyOf[j] /\ LiveRow(i) /\ row[i].status # "interrupted"
  /\ Set(j, "queued")
  /\ UNCHANGED <<worker, execs, looked, suspect, trouble>>

\* create_or_get: two sessions may both find no live row of the key, but the
\* index lets only one of them insert; otherwise the live row is returned.
Create(j) ==
  /\ row[j].status = "absent"
  /\ ~\E i \in Jobs : KeyOf[i] = KeyOf[j] /\ LiveRow(i)
  /\ Set(j, "queued")
  /\ UNCHANGED <<worker, execs, looked, suspect, trouble>>

\* cancel_job reads the row first, without a lock.
CancelLook(j) ==
  /\ j \in Managed /\ row[j].status # "absent" /\ looked[j] = "none"
  /\ looked' = [looked EXCEPT ![j] = row[j].status]
  /\ UNCHANGED <<row, worker, execs, suspect, trouble>>

\* request_cancel locks the row and decides on the status its session holds.
RequestCancel(j) ==
  /\ looked[j] # "none"
  /\ LET s == IF LockRereads THEN row[j].status ELSE looked[j]
     IN \/ /\ s = "running"
           /\ Set(j, "cancel_requested") /\ Upset(j, "cancel")
        \/ /\ s \in {"queued", "retry_waiting"}
           /\ Set(j, "cancelled") /\ Upset(j, "cancel")
        \/ /\ s \notin {"running", "queued", "retry_waiting"}
           /\ UNCHANGED <<row, trouble>>
  /\ looked' = [looked EXCEPT ![j] = "none"]
  /\ UNCHANGED <<worker, execs, suspect>>

\* archive and archive_bulk.
Archive(S) ==
  /\ S # {}
  /\ S \subseteq {j \in Managed : row[j].status \in Terminal /\ ~row[j].archived}
  /\ row' = [j \in Jobs |-> IF j \in S THEN [row[j] EXCEPT !.archived = TRUE]
                                        ELSE row[j]]
  /\ UNCHANGED <<worker, execs, looked, suspect, trouble>>

Unarchive(j) ==
  /\ row[j].archived
  /\ row' = [row EXCEPT ![j].archived = FALSE]
  /\ UNCHANGED <<worker, execs, looked, suspect, trouble>>
-----------------------------------------------------------------------------
(* The worker: claiming and executing. *)

Boot(w) ==
  /\ worker[w] = "new"
  /\ worker' = [worker EXCEPT ![w] = "up"]
  /\ UNCHANGED <<row, execs, looked, suspect, trouble>>

Claimable(w, S) ==
  /\ worker[w] = "up" /\ S # {}
  /\ S \subseteq {j \in Jobs : row[j].status = "queued"}
  /\ Cardinality(Inflight(w)) + Cardinality(S) <= MaxConcurrent

Owned(r, w) == [r EXCEPT !.status = "running", !.worker = w, !.lease = "held"]
Task(j, w)  == [job |-> j, attempt |-> row[j].attempt + 1, worker |-> w,
                phase |-> "claimed", heart |-> FALSE, cancelled |-> FALSE,
                result |-> "none"]

TakeOver(w, S) ==
  /\ row' = [j \in Jobs |-> IF j \in S THEN [Owned(row[j], w) EXCEPT !.attempt = @ + 1]
                                        ELSE row[j]]
  /\ execs' = execs \cup {Task(j, w) : j \in S}
  /\ UNCHANGED <<worker, looked, suspect, trouble>>

\* Mutant: the limit is compared only with what runs already, not row by row.
ClaimWholeBatch(w, S) ==
  /\ Claimable(w, S)
  /\ \A j \in S : Cardinality(Running(KindOf[j])) < KindLimit[KindOf[j]]
  /\ TakeOver(w, S)

\* claim_next, serialised by its advisory lock, and the tasks made of the rows.
\* Which queued rows come first is left open.
Claim(w, S) ==
  /\ Claimable(w, S)
  /\ \A j \in S : Cardinality(Running(KindOf[j]) \cup {i \in S : KindOf[i] = KindOf[j]})
                    <= KindLimit[KindOf[j]]
  /\ TakeOver(w, S)

\* _run_one gives up unless the row is running: also when a cancel came first.
\* It does not look whose attempt the row is at.
Begin(x) ==
  /\ x.phase = "claimed"
  /\ IF row[x.job].status = "running"
       THEN Become(x, [x EXCEPT !.phase = "running", !.heart = TRUE])
       ELSE execs' = execs \ {x}
  /\ UNCHANGED <<row, worker, looked, suspect, trouble>>

\* One heartbeat: it stops on a cancel request and when the job is not its
\* worker's any more, otherwise it renews the lease.
Heartbeat(x) ==
  /\ x.phase = "running" /\ x.heart
  /\ LET r == row[x.job]
         mine == r.status = "running" /\ r.worker = x.worker
     IN /\ IF mine THEN row' = [row EXCEPT ![x.job].lease = "held"] ELSE UNCHANGED row
        /\ IF mine THEN UNCHANGED execs
                   ELSE Become(x, [x EXCEPT !.heart = FALSE,
                                     !.cancelled = r.status = "cancel_requested"])
  /\ UNCHANGED <<worker, looked, suspect, trouble>>

\* A progress call finds the cancel request and aborts the executor; one that
\* does not only writes progress.
Abort(x) ==
  /\ x.phase = "running" /\ row[x.job].status = "cancel_requested"
  /\ Become(x, [x EXCEPT !.phase = "returned", !.heart = FALSE, !.cancelled = TRUE,
                         !.result = "cancelled"])
  /\ UNCHANGED <<row, worker, looked, suspect, trouble>>

\* The executor returns, raises, or is cancelled by the stall watchdog.  Once the
\* heartbeat saw a cancel request only an exception keeps its own result.
Return(x, result) ==
  /\ x.phase = "running"
  /\ result \in IF x.cancelled THEN {"cancelled", "failed", "retry_waiting"} ELSE Results
  /\ Become(x, [x EXCEPT !.phase = "returned", !.heart = FALSE, !.result = result])
  /\ UNCHANGED <<row, worker, looked, suspect, trouble>>

\* Mutant: the status is not looked at.
FinalizeBlindly(x) ==
  /\ x.phase = "returned"
  /\ Set(x.job, x.result)
  /\ execs' = execs \ {x}
  /\ UNCHANGED <<worker, looked, suspect, trouble>>

\* _finalize: the result is written unless the row left running and
\* cancel_requested.  Neither the worker nor the attempt is compared.
Finalize(x) ==
  /\ x.phase = "returned"
  /\ IF row[x.job].status \in Claimed THEN Set(x.job, x.result) ELSE UNCHANGED row
  /\ execs' = execs \ {x}
  /\ UNCHANGED <<worker, looked, suspect, trouble>>

\* A stop signal with a grace period: no more claims, the executions go on.
Drain(w) ==
  /\ worker[w] = "up" /\ w \notin Lasting
  /\ worker' = [worker EXCEPT ![w] = "draining"]
  /\ UNCHANGED <<row, execs, looked, suspect, trouble>>

\* The end of a worker process: drained, out of grace, forced or crashed.  Its
\* rows stay as they are.
Exit(w) ==
  /\ worker[w] \in {"up", "draining"} /\ w \notin Lasting
  /\ worker' = [worker EXCEPT ![w] = "gone"]
  /\ execs' = execs \ Inflight(w)
  /\ UNCHANGED <<row, looked, suspect, trouble>>
-----------------------------------------------------------------------------
(* Leases and maintenance. *)

\* A lease whose renewals stopped, or came late: the event loop or the database
\* stood still, the machine slept.
Expire(j) ==
  /\ row[j].status \in Claimed /\ row[j].lease = "held"
  /\ row' = [row EXCEPT ![j].lease = "expired"]
  /\ IF Renewed(j) THEN Upset(j, "late") ELSE UNCHANGED trouble
  /\ UNCHANGED <<worker, execs, looked, suspect>>

Expired(S) == \A j \in S : row[j].lease = "expired"
Interrupt(S) == /\ row' = [j \in Jobs |-> IF j \in S
                                             THEN [row[j] EXCEPT !.status = "interrupted"]
                                             ELSE row[j]]
                /\ UNCHANGED <<worker, execs, looked, suspect, trouble>>

\* Mutants: a lease is not looked at; a cancelled job is not reclaimed.
ReclaimHeld(S) == /\ S # {} /\ \A j \in S : row[j].status \in Claimed
                  /\ Interrupt(S)
ReclaimRunning(S) == /\ S # {} /\ \A j \in S : row[j].status = "running"
                     /\ Expired(S)
                     /\ Interrupt(S)

\* reclaim_stale, by maintenance, a starting worker or "worker recover"; rows
\* locked by another session are skipped.
Reclaim(S) == /\ S # {} /\ \A j \in S : row[j].status \in Claimed
              /\ Expired(S)
              /\ Interrupt(S)

Due(S) == S # {} /\ \A j \in S : row[j].status \in Waiting

\* Queued again; failed when its attempts have reached the limit.
Again(S, limit) ==
  /\ row' = [j \in Jobs |->
               IF j \in S
                 THEN [row[j] EXCEPT !.status = IF row[j].attempt >= limit THEN "failed"
                                                                           ELSE "queued"]
                 ELSE row[j]]
  /\ UNCHANGED <<worker, execs, looked, suspect, trouble>>

\* Mutants: one attempt too many; archived rows are not passed over.
RequeueOnceMore(S) == /\ Due(S) /\ \A j \in S : ~row[j].archived
                      /\ Again(S, MaxAttempts + 1)
RequeueArchived(S) == /\ Due(S)
                      /\ Again(S, MaxAttempts)

\* requeue_due, by the maintenance of a worker that is up.
Requeue(S) == /\ \E w \in Workers : worker[w] = "up"
              /\ Due(S) /\ \A j \in S : ~row[j].archived
              /\ Again(S, MaxAttempts)

\* _detect_zombie_jobs lists the running rows; one has made no progress.
Suspect(j) ==
  /\ \E w \in Workers : worker[w] = "up"
  /\ row[j].status = "running" /\ j \notin suspect
  /\ suspect' = suspect \cup {j}
  /\ UNCHANGED <<row, worker, execs, looked, trouble>>

\* Then it locks the row; the guard sees the status its session holds.
KillZombie(j) ==
  /\ \E w \in Workers : worker[w] = "up"
  /\ j \in suspect
  /\ IF LockRereads => row[j].status = "running"
       THEN Set(j, "retry_waiting") /\ Upset(j, "zombie")
       ELSE UNCHANGED <<row, trouble>>
  /\ suspect' = suspect \ {j}
  /\ UNCHANGED <<worker, execs, looked>>
-----------------------------------------------------------------------------
Api(j) == Create(j) \/ CancelLook(j) \/ RequestCancel(j) \/ Unarchive(j)
Run(x) == \/ Begin(x) \/ Heartbeat(x) \/ Abort(x) \/ Finalize(x)
          \/ \E result \in Results : Return(x, result)
Process(w) == \/ Boot(w) \/ Drain(w) \/ Exit(w)
              \/ \E S \in SUBSET Jobs : Claim(w, S)

Next == \/ \E j \in Jobs : Api(j) \/ Expire(j) \/ Suspect(j) \/ KillZombie(j)
        \/ \E x \in execs : Run(x)
        \/ \E w \in Workers : Process(w)
        \/ \E S \in SUBSET Jobs : Archive(S) \/ Reclaim(S) \/ Requeue(S)

Spec == Init /\ [][Next]_vars

\* A lasting worker polls, executes and maintains as long as it is up: the stall
\* watchdog ends an executor that never returns, time ends a lease.  No user has
\* to do anything, and no lease has to be late.
Fairness ==
  /\ WF_vars(\E w \in Lasting : Process(w))
  /\ WF_vars(\E S \in SUBSET Jobs : Reclaim(S))
  /\ WF_vars(\E S \in SUBSET Jobs : Requeue(S))
  /\ \A j \in Jobs :
       /\ WF_vars(Expire(j) /\ ~Renewed(j))
       /\ \A a \in 1..MaxAttempts :
            WF_vars(\E x \in ExecsOf(j) :
                      x.attempt = a /\ (Begin(x) \/ Finalize(x)
                                          \/ \E result \in Results : Return(x, result)))
LiveSpec == Spec /\ Fairness
-----------------------------------------------------------------------------
(* Safety. *)

\* The life cycle documented with BackgroundJobStatus, whatever workers, leases
\* and cancels do (background_jobs.py:14-38): attempts are bounded, a result is final
\* although late results, reclaims and zombie checks write the same row, and an
\* archived job is frozen (background_job_repo.py:584-614, 641-644).
Life == INSTANCE JobLifecycle WITH status   <- [j \in Jobs |-> row[j].status],
                                   attempt  <- [j \in Jobs |-> row[j].attempt],
                                   archived <- [j \in Jobs |-> row[j].archived]
LifeCycle == Life!Spec

\* Claims of several workers and of whole batches keep to the limit of a kind
\* (background_job_repo.py:276-357).
KindLimitHolds ==
  \A j \in Jobs : Cardinality(Running(KindOf[j])) <= KindLimit[KindOf[j]]

\* A job is not attempted more than max_attempts times, however its attempts
\* ended (background_job_repo.py:630-683).
AttemptsBounded ==
  \A j \in Jobs : /\ row[j].attempt <= MaxAttempts
                  /\ row[j].status = "queued" => row[j].attempt < MaxAttempts

\* Only one job of an idempotency key is pending, under way or succeeded
\* (background_job_repo.py:73-134).
OneLiveRowPerKey ==
  \A i, j \in Jobs : KeyOf[i] = KeyOf[j] /\ LiveRow(i) /\ LiveRow(j) => i = j

\* Unless a cancel, the zombie check or a late heartbeat takes a job from a living
\* execution, it is never executed twice at a time (worker.py:364-376, 629-660).
ExecutedOnce ==
  \A j \in Jobs : trouble[j] = {} =>
    Cardinality(ExecsOf(j)) <= 1

\* Under the same condition the result written is that of the current attempt
\* (background_job_repo.py:584-614).
ResultIsCurrent ==
  [][\A x \in execs : trouble[x.job] = {} /\ x.attempt < row[x.job].attempt
       => ~(x \notin execs' /\ row'[x.job].status # row[x.job].status)]_vars
-----------------------------------------------------------------------------
(* Liveness. *)

\* With a lasting worker every job comes to a final state, whatever becomes of
\* other workers and of its attempts, unless it was archived (worker.py:378-395).
JobSettles ==
  \A j \in Jobs : row[j].status # "absent"
                    ~> (row[j].status \in Finished \/ row[j].archived)
-----------------------------------------------------------------------------
(* What comments and docs say and the code does not keep. *)

\* The result of an execution whose job was taken away does not overwrite the
\* retry (worker.py:411-414).
StaleResultSkipped ==
  [][\A x \in execs : x.attempt < row[x.job].attempt
       => ~(x \notin execs' /\ row'[x.job].status # row[x.job].status)]_vars

\* A job whose cancel was accepted is not executed again (dev-guide.md:329-332,
\* worker.py:678-682).
CancelSticks ==
  [][\A j \in Jobs : "cancel" \in trouble[j] => row'[j].attempt = row[j].attempt]_vars
============================================================================
