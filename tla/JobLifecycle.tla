---------------------------- MODULE JobLifecycle ----------------------------
(***************************************************************************)
(* What the background job queue of finboard promises of every job: the    *)
(* eight-state life cycle that BackgroundJobStatus documents, with attempts *)
(* that are bounded, results that are final and archived jobs that do not   *)
(* move.  Workers, leases, executions and sessions do not appear here;      *)
(* JobQueue implements this.                                                *)
(* One step may move any number of jobs: the queue's transactions do.       *)
(***************************************************************************)
EXTENDS Naturals

CONSTANTS Jobs, MaxAttempts

VARIABLES status, attempt, archived

\* States no job leaves; a job that failed or was cancelled may be created
\* anew under the same idempotency key, as another job.
Settled == {"succeeded", "failed", "cancelled"}
Claimed == {"running", "cancel_requested"}
Waiting == {"retry_waiting", "interrupted"}
JobStatus == {"queued"} \cup Settled \cup Claimed \cup Waiting

Init == /\ status = [j \in Jobs |-> "absent"]
        /\ attempt = [j \in Jobs |-> 0]
        /\ archived = [j \in Jobs |-> FALSE]

Become(j, s) == status'[j] = s /\ attempt'[j] = attempt[j]

Submit(j)    == status[j] = "absent" /\ Become(j, "queued")
Start(j)     == /\ status[j] = "queued" /\ attempt[j] < MaxAttempts
                /\ status'[j] = "running"
                /\ attempt'[j] = attempt[j] + 1
Conclude(j)  == /\ status[j] \in Claimed
                /\ \E s \in Settled \cup {"retry_waiting"} : Become(j, s)
AskCancel(j) == status[j] = "running" /\ Become(j, "cancel_requested")
Cancel(j)    == status[j] \in {"queued", "retry_waiting"} /\ Become(j, "cancelled")
Interrupt(j) == status[j] \in Claimed /\ Become(j, "interrupted")
Retry(j)     == /\ status[j] \in Waiting /\ attempt[j] < MaxAttempts
                /\ Become(j, "queued")
GiveUp(j)    == /\ status[j] \in Waiting /\ attempt[j] >= MaxAttempts
                /\ Become(j, "failed")

Advance(j) == \/ Submit(j) \/ Start(j) \/ Conclude(j) \/ AskCancel(j)
              \/ Cancel(j) \/ Interrupt(j) \/ Retry(j) \/ GiveUp(j)

\* An archived job is frozen until it is unarchived; only one that settled or was
\* interrupted is archived.
Move(j) == ~archived[j] /\ ~archived'[j] /\ Advance(j)
File(j) == /\ archived'[j] => status[j] \in Settled \cup {"interrupted"}
           /\ Become(j, status[j])

Next == /\ status' \in [Jobs -> JobStatus \cup {"absent"}]
        /\ attempt' \in [Jobs -> 0..MaxAttempts]
        /\ archived' \in [Jobs -> BOOLEAN]
        /\ \A j \in Jobs : Move(j) \/ File(j)

Spec == Init /\ [][Next]_<<status, attempt, archived>>
============================================================================
