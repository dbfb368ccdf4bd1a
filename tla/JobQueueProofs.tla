--------------------------- MODULE JobQueueProofs ---------------------------
(***************************************************************************)
(* Theorems about JobQueue, for any jobs, workers, kinds, keys and limits. *)
(*                                                                         *)
(* What an action does to the rows and what it does to the executions are  *)
(* lemmas of their own; the invariants and the refinement are drawn from   *)
(* them.                                                                   *)
(***************************************************************************)
EXTENDS JobQueue, FiniteSetTheorems, TLAPS

RowType  == row \in [Jobs -> JobRow]
ExecType == execs \subseteq Execution
ExecFits == /\ \A x, y \in execs : x.job = y.job /\ x.attempt = y.attempt => x = y
            /\ \A x \in execs : /\ x.attempt <= row[x.job].attempt
                                /\ worker[x.worker] \in {"up", "draining"}
                                /\ x.phase = "returned" <=> x.result # "none"
RestType == /\ worker \in [Workers -> {"new", "up", "draining", "gone"}]
            /\ looked \in [Jobs -> Status \cup {"none"}]
            /\ suspect \subseteq Jobs
            /\ trouble \in [Jobs -> SUBSET {"cancel", "zombie", "late"}]

TypeInv == TypeOK /\ AttemptsBounded

\* What a change of one field leaves of a row.
LEMMA RowFields ==
  /\ \A r \in JobRow, s \in Status \cup {"absent"} :
       /\ [r EXCEPT !.status = s] \in JobRow
       /\ [r EXCEPT !.status = s].status = s
       /\ [r EXCEPT !.status = s].attempt = r.attempt
       /\ [r EXCEPT !.status = s].worker = r.worker
       /\ [r EXCEPT !.status = s].lease = r.lease
  /\ \A r \in JobRow, l \in {"none", "held", "expired"} :
       /\ [r EXCEPT !.lease = l] \in JobRow
       /\ [r EXCEPT !.lease = l].status = r.status
       /\ [r EXCEPT !.lease = l].attempt = r.attempt
       /\ [r EXCEPT !.lease = l].worker = r.worker
       /\ [r EXCEPT !.lease = l].lease = l
  /\ \A r \in JobRow, b \in BOOLEAN :
       /\ [r EXCEPT !.archived = b] \in JobRow
       /\ [r EXCEPT !.archived = b].status = r.status
       /\ [r EXCEPT !.archived = b].attempt = r.attempt
       /\ [r EXCEPT !.archived = b].worker = r.worker
       /\ [r EXCEPT !.archived = b].lease = r.lease
BY DEF JobRow

\* A claim makes a queued row running, owned and counted (claim_next).
LEMMA ClaimedRow ==
  ASSUME NEW r \in JobRow, NEW w \in Workers, r.attempt < MaxAttempts
  PROVE  LET c == [Owned(r, w) EXCEPT !.attempt = @ + 1]
         IN /\ c \in JobRow /\ c.status = "running" /\ c.attempt = r.attempt + 1
            /\ c.worker = w /\ c.lease = "held"
<1>1. \A q \in JobRow, v \in Workers :
        /\ Owned(q, v) \in JobRow
        /\ Owned(q, v).status = "running" /\ Owned(q, v).attempt = q.attempt
        /\ Owned(q, v).worker = v /\ Owned(q, v).lease = "held"
  BY DEF JobRow, Owned, Status, Claimed
<1>2. r.attempt + 1 \in 0..MaxAttempts /\ r.attempt \in 0..MaxAttempts
  BY JobsAssumption DEF JobRow
<1>4. \A q \in JobRow, a \in 0..MaxAttempts : [q EXCEPT !.attempt = a] \in JobRow
  BY DEF JobRow
<1>3. \A q \in JobRow : /\ [q EXCEPT !.attempt = @ + 1] = [q EXCEPT !.attempt = q.attempt + 1]
                        /\ [q EXCEPT !.attempt = q.attempt + 1].status = q.status
                        /\ [q EXCEPT !.attempt = q.attempt + 1].worker = q.worker
                        /\ [q EXCEPT !.attempt = q.attempt + 1].lease = q.lease
                        /\ [q EXCEPT !.attempt = q.attempt + 1].attempt = q.attempt + 1
  BY DEF JobRow
<1> QED
  BY <1>1, <1>2, <1>3, <1>4

\* What a transaction may do to the row of a job: only create_or_get and
\* requeue_due make it queued, only claim_next counts an attempt.
RowStep(j) ==
  /\ row'[j].attempt = row[j].attempt
       \/ /\ row'[j].attempt = row[j].attempt + 1
          /\ row[j].status = "queued" /\ row'[j].status = "running"
  /\ row'[j].status = "queued" =>
       row[j].status = "queued" \/ row'[j].attempt < MaxAttempts
  /\ row'[j].status = "absent" => row[j].status = "absent"
RowsStep == row' \in [Jobs -> JobRow] /\ \A j \in Jobs : RowStep(j)

\* Every disjunct of Next changes rows in this way only.
LEMMA RowSteps ==
  ASSUME TypeOK, AttemptsBounded, [Next]_vars
  PROVE  RowsStep
<1> USE DEF RowsStep
<1>t. row \in [Jobs -> JobRow]
  BY DEF TypeOK
<1>s. ASSUME NEW j \in Jobs, NEW s \in Status, s # "queued", Set(j, s)
      PROVE  RowsStep
  <2>1. row' = [row EXCEPT ![j] = [row[j] EXCEPT !.status = s]] /\ s # "absent"
    BY <1>s DEF Set, Status, Finished, Claimed, Waiting
  <2> QED
    BY <1>t, <1>s, <2>1, RowFields DEF RowStep
<1>u. ASSUME UNCHANGED row PROVE RowsStep
  BY <1>t, <1>u DEF RowStep, JobRow
<1>r. ASSUME NEW j \in Jobs, NEW r \in JobRow, row' = [row EXCEPT ![j] = r],
             r.attempt = row[j].attempt, r.status = row[j].status
      PROVE  RowsStep
  BY <1>t, <1>r DEF RowStep
<1>1. ASSUME NEW j \in Jobs, Create(j) PROVE RowsStep
  <2>1. row[j].attempt = 0 /\ "queued" \in Status
    BY <1>1 DEF Create, TypeOK, Status
  <2> QED
    BY <1>t, <1>1, <2>1, RowFields, JobsAssumption DEF Create, Set, RowStep, JobRow
<1>2. ASSUME NEW j \in Jobs, RequestCancel(j) PROVE RowsStep
  <2>1. UNCHANGED row \/ Set(j, "cancel_requested") \/ Set(j, "cancelled")
    BY <1>2 DEF RequestCancel
  <2> QED
    BY <2>1, <1>s, <1>u DEF Status, Claimed, Finished
<1>3. ASSUME NEW x \in execs, Finalize(x) PROVE RowsStep
  <2>1. x.job \in Jobs /\ x.result \in Results
    BY <1>3 DEF TypeOK, Execution, Finalize
  <2>2. x.result \in Status /\ x.result # "queued"
    BY <2>1 DEF Results, Status, Finished, Waiting
  <2> QED
    BY <1>3, <2>1, <2>2, <1>s, <1>u DEF Finalize
<1>4. ASSUME NEW j \in Jobs, KillZombie(j) PROVE RowsStep
  <2>1. UNCHANGED row \/ Set(j, "retry_waiting")
    BY <1>4 DEF KillZombie
  <2> QED
    BY <2>1, <1>s, <1>u DEF Status, Waiting
<1>5. ASSUME NEW j \in Jobs, Unarchive(j) PROVE RowsStep
  <2>1. row' = [row EXCEPT ![j] = [row[j] EXCEPT !.archived = FALSE]]
    BY <1>5 DEF Unarchive
  <2>2. row[j] \in JobRow
    BY <1>t
  <2> QED
    BY <1>r, <2>1, <2>2, RowFields
<1>6. ASSUME NEW j \in Jobs, Expire(j) PROVE RowsStep
  <2>1. row' = [row EXCEPT ![j] = [row[j] EXCEPT !.lease = "expired"]]
    BY <1>6 DEF Expire
  <2>2. row[j] \in JobRow
    BY <1>t
  <2> QED
    BY <1>r, <2>1, <2>2, RowFields
<1>7. ASSUME NEW x \in execs, Heartbeat(x) PROVE RowsStep
  <2>1. x.job \in Jobs
    BY DEF TypeOK, Execution
  <2>2. UNCHANGED row \/ row' = [row EXCEPT ![x.job] = [row[x.job] EXCEPT !.lease = "held"]]
    BY <1>7 DEF Heartbeat
  <2>3. row[x.job] \in JobRow
    BY <1>t, <2>1
  <2> QED
    BY <1>r, <1>u, <2>1, <2>2, <2>3, RowFields
<1>8. ASSUME NEW S \in SUBSET Jobs, Archive(S) PROVE RowsStep
  <2>1. row' = [j \in Jobs |-> IF j \in S THEN [row[j] EXCEPT !.archived = TRUE]
                                         ELSE row[j]]
    BY <1>8 DEF Archive
  <2> QED
    BY <1>t, <2>1, RowFields DEF RowStep
<1>9. ASSUME NEW S \in SUBSET Jobs, Reclaim(S) PROVE RowsStep
  <2>1. row' = [j \in Jobs |-> IF j \in S THEN [row[j] EXCEPT !.status = "interrupted"]
                                         ELSE row[j]]
    BY <1>9 DEF Reclaim, Interrupt
  <2>2. "interrupted" \in Status
    BY DEF Status, Waiting
  <2> QED
    BY <1>t, <2>1, <2>2, RowFields DEF RowStep
<1>10. ASSUME NEW S \in SUBSET Jobs, Requeue(S) PROVE RowsStep
  <2>1. row' = [j \in Jobs |->
                  IF j \in S
                    THEN [row[j] EXCEPT !.status = IF row[j].attempt >= MaxAttempts
                                                     THEN "failed" ELSE "queued"]
                    ELSE row[j]]
    BY <1>10 DEF Requeue, Again
  <2>2. "failed" \in Status /\ "queued" \in Status
    BY DEF Status, Finished
  <2>3. ASSUME NEW j \in Jobs
        PROVE  /\ row'[j] \in JobRow /\ row'[j].attempt = row[j].attempt
               /\ row'[j].status = "queued" =>
                    row[j].status = "queued" \/ ~(row[j].attempt >= MaxAttempts)
               /\ row'[j].status = "absent" => row[j].status = "absent"
    BY <1>t, <2>1, <2>2, RowFields
  <2>4. \A j \in Jobs : row[j].attempt \in Nat
    BY <1>t, JobsAssumption DEF JobRow
  <2> QED
    BY <2>1, <2>3, <2>4, JobsAssumption DEF RowStep
<1>11. ASSUME NEW w \in Workers, NEW S \in SUBSET Jobs, Claim(w, S) PROVE RowsStep
  <2>1. /\ \A j \in S : row[j].status = "queued"
        /\ row' = [j \in Jobs |-> IF j \in S
                                    THEN [Owned(row[j], w) EXCEPT !.attempt = @ + 1]
                                    ELSE row[j]]
    BY <1>11 DEF Claim, Claimable, TakeOver
  <2>2. \A j \in S : row[j].attempt < MaxAttempts /\ row[j] \in JobRow
    BY <1>t, <2>1 DEF AttemptsBounded
  <2>3. ASSUME NEW j \in S
        PROVE  row'[j] \in JobRow /\ row'[j].status = "running"
               /\ row'[j].attempt = row[j].attempt + 1
    BY <2>1, <2>2, ClaimedRow
  <2>4. ASSUME NEW j \in Jobs \ S PROVE row'[j] = row[j]
    BY <2>1
  <2> QED
    BY <1>t, <2>1, <2>3, <2>4 DEF RowStep, JobRow
<1>12. ASSUME NEW j \in Jobs, CancelLook(j) \/ Suspect(j) PROVE RowsStep
  BY <1>12, <1>u DEF CancelLook, Suspect
<1>13. ASSUME NEW x \in execs, \/ Begin(x) \/ Abort(x)
                               \/ \E result \in Results : Return(x, result)
       PROVE  RowsStep
  BY <1>13, <1>u DEF Begin, Abort, Return
<1>14. ASSUME NEW w \in Workers, Boot(w) \/ Drain(w) \/ Exit(w) PROVE RowsStep
  BY <1>14, <1>u DEF Boot, Drain, Exit
<1>15. CASE UNCHANGED vars
  BY <1>15, <1>u DEF vars
<1> QED
  BY <1>1, <1>2, <1>3, <1>4, <1>5, <1>6, <1>7, <1>8, <1>9, <1>10, <1>11, <1>12, <1>13,
     <1>14, <1>15 DEF Next, Api, Run, Process

\* What a step of an execution leaves of it.
LEMMA ExecutionFields ==
  /\ \A x \in Execution :
       /\ [x EXCEPT !.phase = "running", !.heart = TRUE] \in Execution
       /\ [x EXCEPT !.phase = "running", !.heart = TRUE].job = x.job
       /\ [x EXCEPT !.phase = "running", !.heart = TRUE].attempt = x.attempt
       /\ [x EXCEPT !.phase = "running", !.heart = TRUE].worker = x.worker
       /\ [x EXCEPT !.phase = "running", !.heart = TRUE].result = x.result
       /\ [x EXCEPT !.phase = "running", !.heart = TRUE].phase = "running"
       /\ [x EXCEPT !.phase = "running", !.heart = TRUE].heart = TRUE
  /\ \A x \in Execution, c \in BOOLEAN :
       /\ [x EXCEPT !.heart = FALSE, !.cancelled = c] \in Execution
       /\ [x EXCEPT !.heart = FALSE, !.cancelled = c].job = x.job
       /\ [x EXCEPT !.heart = FALSE, !.cancelled = c].attempt = x.attempt
       /\ [x EXCEPT !.heart = FALSE, !.cancelled = c].worker = x.worker
       /\ [x EXCEPT !.heart = FALSE, !.cancelled = c].result = x.result
       /\ [x EXCEPT !.heart = FALSE, !.cancelled = c].phase = x.phase
BY DEF Execution

\* An executor that came to an end keeps its identity.
LEMMA ReturnedFields ==
  /\ \A x \in Execution, r \in Results :
       LET y == [x EXCEPT !.phase = "returned", !.heart = FALSE, !.result = r]
       IN /\ y \in Execution /\ y.job = x.job /\ y.attempt = x.attempt
          /\ y.worker = x.worker /\ y.result = r /\ y.phase = "returned"
  /\ \A x \in Execution :
       LET y == [x EXCEPT !.phase = "returned", !.heart = FALSE, !.cancelled = TRUE,
                          !.result = "cancelled"]
       IN /\ y \in Execution /\ y.job = x.job /\ y.attempt = x.attempt
          /\ y.worker = x.worker /\ y.result = "cancelled" /\ y.phase = "returned"
<1>1. "cancelled" \in Results /\ "none" \notin Results
  BY DEF Results, Finished
<1> QED
  BY <1>1 DEF Execution

\* How a step of an execution may change the set of them.
SameTask(x, y) == x.job = y.job /\ x.attempt = y.attempt /\ x.worker = y.worker
Steps(x) ==
  \/ execs' = execs \ {x}
  \/ \E y \in Execution : /\ Become(x, y) /\ SameTask(x, y)
                          /\ y.phase = "returned" <=> y.result # "none"

\* An execution that steps on stays that of its job, attempt and worker (_run_one,
\* _execute_with_heart, _finalize; worker.py:495-746).
LEMMA RunSteps ==
  ASSUME TypeOK, NEW x \in execs, Run(x)
  PROVE  Steps(x) \/ UNCHANGED execs
<1>t. x \in Execution /\ (x.phase = "returned" <=> x.result # "none")
  BY DEF TypeOK
<1>1. CASE Begin(x)
  <2> DEFINE y == [x EXCEPT !.phase = "running", !.heart = TRUE]
  <2>1. x.phase = "claimed" /\ (Become(x, y) \/ execs' = execs \ {x})
    BY <1>1 DEF Begin
  <2>2. /\ y \in Execution /\ SameTask(x, y)
        /\ y.phase = "running" /\ y.result = x.result
    BY <1>t, ExecutionFields DEF SameTask
  <2> QED
    BY <1>t, <2>1, <2>2 DEF Steps
<1>2. CASE Heartbeat(x)
  <2> DEFINE y == [x EXCEPT !.heart = FALSE,
                            !.cancelled = row[x.job].status = "cancel_requested"]
  <2>1. Become(x, y) \/ UNCHANGED execs
    BY <1>2 DEF Heartbeat
  <2>2. (row[x.job].status = "cancel_requested") \in BOOLEAN
    OBVIOUS
  <2>3. /\ y \in Execution /\ SameTask(x, y)
        /\ y.phase = x.phase /\ y.result = x.result
    BY <1>t, <2>2, ExecutionFields DEF SameTask
  <2> QED
    BY <1>t, <2>1, <2>3 DEF Steps
<1>3. CASE Abort(x)
  BY <1>t, <1>3, ReturnedFields DEF Abort, Steps, SameTask
<1>4. CASE Finalize(x)
  BY <1>4 DEF Finalize, Steps
<1>5. ASSUME NEW result \in Results, Return(x, result) PROVE Steps(x)
  <2>1. result # "none"
    BY DEF Results, Finished
  <2> DEFINE y == [x EXCEPT !.phase = "returned", !.heart = FALSE, !.result = result]
  <2>2. Become(x, y)
    BY <1>5 DEF Return
  <2>3. /\ y \in Execution /\ SameTask(x, y)
        /\ y.phase = "returned" /\ y.result = result
    BY <1>t, ReturnedFields DEF SameTask
  <2> QED
    BY <2>1, <2>2, <2>3 DEF Steps
<1> QED
  BY <1>1, <1>2, <1>3, <1>4, <1>5 DEF Run

\* Types and the identity of executions are kept by every step (all of
\* BackgroundJobRepository and BackgroundWorker).
LEMMA TypeStep == TypeOK /\ AttemptsBounded /\ [Next]_vars => (TypeOK /\ AttemptsBounded)'
<1> SUFFICES ASSUME TypeOK, AttemptsBounded, [Next]_vars
             PROVE  (TypeOK /\ AttemptsBounded)'
  OBVIOUS
<1>1. RowsStep
  BY RowSteps
<1>2. AttemptsBounded' /\ RowType' /\ \A j \in Jobs : row'[j].status = "absent" => row'[j].attempt = 0
  <2>1. ASSUME NEW j \in Jobs
        PROVE  /\ row'[j].attempt <= MaxAttempts
               /\ row'[j].status = "queued" => row'[j].attempt < MaxAttempts
               /\ row'[j].status = "absent" => row'[j].attempt = 0
    <3>1. RowStep(j) /\ row[j] \in JobRow /\ row'[j] \in JobRow
      BY <1>1 DEF RowsStep, TypeOK
    <3>2. row[j].attempt \in 0..MaxAttempts /\ row'[j].attempt \in 0..MaxAttempts
      BY <3>1 DEF JobRow
    <3>3. row[j].status = "absent" => row[j].attempt = 0
      BY DEF TypeOK
    <3>4. row[j].status = "queued" => row[j].attempt < MaxAttempts
      BY DEF AttemptsBounded
    <3> QED
      BY <3>1, <3>2, <3>3, <3>4, JobsAssumption DEF RowStep
  <2> QED
    BY <1>1, <2>1 DEF AttemptsBounded, RowType, RowsStep
<1>3. \A j \in Jobs : row'[j].attempt \in Nat /\ row[j].attempt <= row'[j].attempt
  <2>1. ASSUME NEW j \in Jobs
        PROVE  row'[j].attempt \in Nat /\ row[j].attempt <= row'[j].attempt
    <3>1. RowStep(j) /\ row[j].attempt \in 0..MaxAttempts
      BY <1>1 DEF RowsStep, TypeOK, JobRow
    <3> QED
      BY <3>1, JobsAssumption DEF RowStep
  <2> QED
    BY <2>1
<1>a. ASSUME NEW x \in execs
      PROVE  /\ x.job \in Jobs /\ x.attempt <= row'[x.job].attempt
             /\ worker[x.worker] \in {"up", "draining"}
             /\ x.phase = "returned" <=> x.result # "none"
  <2>1. x.job \in Jobs /\ x.attempt \in 1..MaxAttempts /\ row[x.job].attempt \in 0..MaxAttempts
    BY DEF TypeOK, Execution, JobRow
  <2>2. /\ x.attempt <= row[x.job].attempt
        /\ worker[x.worker] \in {"up", "draining"}
        /\ x.phase = "returned" <=> x.result # "none"
    BY DEF TypeOK
  <2> QED
    BY <1>3, <2>1, <2>2, JobsAssumption
<1>b. /\ execs \subseteq Execution
      /\ \A x, y \in execs : x.job = y.job /\ x.attempt = y.attempt => x = y
  BY DEF TypeOK
<1> DEFINE Fits == execs' \subseteq Execution /\ ExecFits'
<1>4. ASSUME UNCHANGED worker, execs' \subseteq execs
      PROVE  Fits
  BY <1>a, <1>b, <1>4 DEF ExecFits
<1>5. ASSUME NEW x \in execs, UNCHANGED worker, Steps(x)
      PROVE  Fits
  <2>1. CASE execs' = execs \ {x}
    BY <1>4, <1>5, <2>1
  <2>2. ASSUME NEW y \in Execution, Become(x, y), SameTask(x, y),
               y.phase = "returned" <=> y.result # "none"
        PROVE  Fits
    <3>1. execs' = (execs \ {x}) \cup {y}
      BY <2>2 DEF Become
    <3>2. \A z \in execs' : z = y \/ (z \in execs /\ z # x)
      BY <3>1
    <3>3. ASSUME NEW u \in execs', NEW v \in execs', u.job = v.job, u.attempt = v.attempt
          PROVE  u = v
      BY <1>b, <2>2, <3>2, <3>3 DEF SameTask
    <3>4. ASSUME NEW z \in execs'
          PROVE  /\ z.attempt <= row'[z.job].attempt
                 /\ worker'[z.worker] \in {"up", "draining"}
                 /\ z.phase = "returned" <=> z.result # "none"
      BY <1>a, <1>5, <2>2, <3>2 DEF SameTask
    <3> QED
      BY <1>b, <2>2, <3>1, <3>3, <3>4 DEF ExecFits
  <2> QED
    BY <1>5, <2>1, <2>2 DEF Steps
<1>6. ASSUME NEW w \in Workers, NEW S \in SUBSET Jobs, Claim(w, S)
      PROVE  Fits
  <2>1. /\ execs' = execs \cup {Task(j, w) : j \in S}
        /\ worker[w] = "up" /\ UNCHANGED worker
        /\ \A j \in S : row[j].status = "queued"
        /\ row' = [j \in Jobs |-> IF j \in S
                                    THEN [Owned(row[j], w) EXCEPT !.attempt = @ + 1]
                                    ELSE row[j]]
    BY <1>6 DEF Claim, Claimable, TakeOver
  <2>2. ASSUME NEW j \in S
        PROVE  /\ row[j].attempt \in Nat /\ row[j].attempt < MaxAttempts
               /\ row'[j].attempt = row[j].attempt + 1
    <3>1. row[j] \in JobRow /\ row[j].attempt < MaxAttempts
      BY <2>1 DEF TypeOK, AttemptsBounded
    <3>2. row[j].attempt \in 0..MaxAttempts
      BY <3>1 DEF JobRow
    <3> QED
      BY <2>1, <3>1, <3>2, ClaimedRow, JobsAssumption
  <2>3. ASSUME NEW j \in S
        PROVE  /\ Task(j, w) \in Execution
               /\ Task(j, w).job = j /\ Task(j, w).attempt = row'[j].attempt
               /\ Task(j, w).worker = w
               /\ Task(j, w).phase = "claimed" /\ Task(j, w).result = "none"
    <3>1. row[j].attempt + 1 \in 1..MaxAttempts
      BY <2>2, JobsAssumption
    <3> QED
      BY <2>2, <3>1 DEF Task, Execution
  <2>4. \A z \in execs' : z \in execs \/ \E j \in S : z = Task(j, w)
    BY <2>1
  <2>5. \A x \in execs, j \in S : x.job = j => x.attempt # row'[j].attempt
    <3>1. \A x \in execs : x.attempt \in Nat /\ x.attempt <= row[x.job].attempt
      BY JobsAssumption DEF TypeOK, Execution
    <3> QED
      BY <2>2, <3>1
  <2>6. ASSUME NEW u \in execs', NEW v \in execs', u.job = v.job, u.attempt = v.attempt
        PROVE  u = v
    BY <1>b, <2>3, <2>4, <2>5, <2>6
  <2>7. ASSUME NEW z \in execs'
        PROVE  /\ z \in Execution
               /\ z.attempt <= row'[z.job].attempt
               /\ worker'[z.worker] \in {"up", "draining"}
               /\ z.phase = "returned" <=> z.result # "none"
    <3>1. CASE z \in execs
      BY <1>a, <1>b, <2>1, <3>1
    <3>2. ASSUME NEW j \in S, z = Task(j, w)
          PROVE  /\ z \in Execution
                 /\ z.attempt <= row'[z.job].attempt
                 /\ worker'[z.worker] \in {"up", "draining"}
                 /\ z.phase = "returned" <=> z.result # "none"
      <4>1. z \in Execution /\ z.job = j /\ z.attempt = row'[j].attempt /\ z.worker = w
        BY <2>3, <3>2
      <4>2. z.phase # "returned" /\ z.result = "none"
        BY <2>3, <3>2
      <4>3. row'[j].attempt <= row'[j].attempt
        BY <1>3
      <4> QED
        BY <2>1, <4>1, <4>2, <4>3
    <3> QED
      BY <2>4, <3>1, <3>2
  <2> QED
    BY <2>6, <2>7 DEF ExecFits
<1>7. ASSUME NEW w \in Workers, Boot(w) \/ Drain(w) \/ Exit(w)
      PROVE  Fits /\ RestType'
  <2>1. /\ execs' \subseteq execs
        /\ \A x \in execs' : worker'[x.worker] \in {"up", "draining"}
    <3>1. \A x \in execs : x.worker \in Workers
      BY DEF TypeOK, Execution
    <3>2. worker \in [Workers -> {"new", "up", "draining", "gone"}]
      BY DEF TypeOK
    <3>3. CASE Boot(w)
      BY <1>a, <3>1, <3>2, <3>3 DEF Boot
    <3>4. CASE Drain(w)
      BY <1>a, <3>1, <3>2, <3>4 DEF Drain
    <3>5. CASE Exit(w)
      BY <1>a, <3>1, <3>2, <3>5 DEF Exit, Inflight
    <3> QED
      BY <1>7, <3>3, <3>4, <3>5
  <2>2. RestType'
    BY <1>7 DEF TypeOK, RestType, Boot, Drain, Exit
  <2> QED
    BY <1>a, <1>b, <2>1, <2>2 DEF ExecFits
<1>8. ASSUME NEW x \in execs, Run(x)
      PROVE  Fits /\ RestType'
  <2>1. UNCHANGED worker
    BY <1>8 DEF Run, Begin, Heartbeat, Abort, Finalize, Return
  <2>2. RestType'
    BY <1>8 DEF TypeOK, RestType, Run, Begin, Heartbeat, Abort, Finalize, Return
  <2> QED
    BY <1>4, <1>5, <1>8, <2>1, <2>2, RunSteps
<1>9. ASSUME NEW j \in Jobs, Api(j) \/ Expire(j) \/ Suspect(j) \/ KillZombie(j)
      PROVE  Fits /\ RestType'
  <2>1. UNCHANGED <<worker, execs>>
    BY <1>9 DEF Api, Create, CancelLook, RequestCancel, Unarchive, Expire, Suspect, KillZombie
  <2>2. row[j].status \in Status \cup {"absent"}
    BY DEF TypeOK, JobRow
  <2>3. looked' \in [Jobs -> Status \cup {"none"}]
    BY <1>9, <2>2 DEF TypeOK, Api, Create, CancelLook, RequestCancel, Unarchive, Expire,
       Suspect, KillZombie
  <2>4. suspect' \subseteq Jobs
    BY <1>9 DEF TypeOK, Api, Create, CancelLook, RequestCancel, Unarchive, Expire,
       Suspect, KillZombie
  <2>5. trouble' \in [Jobs -> SUBSET {"cancel", "zombie", "late"}]
    <3>1. \/ UNCHANGED trouble
          \/ \E why \in {"cancel", "zombie", "late"} : Upset(j, why)
      BY <1>9 DEF Api, Create, CancelLook, RequestCancel, Unarchive, Expire, Suspect,
         KillZombie
    <3> QED
      BY <3>1 DEF TypeOK, Upset
  <2> QED
    BY <1>4, <2>1, <2>3, <2>4, <2>5 DEF TypeOK, RestType
<1>10. ASSUME NEW S \in SUBSET Jobs, Archive(S) \/ Reclaim(S) \/ Requeue(S)
       PROVE  Fits /\ RestType'
  <2>1. UNCHANGED <<worker, execs, looked, suspect, trouble>>
    BY <1>10 DEF Archive, Reclaim, Interrupt, Requeue, Again
  <2> QED
    BY <1>4, <2>1 DEF TypeOK, RestType
<1>11. ASSUME UNCHANGED vars PROVE Fits /\ RestType'
  <2>1. UNCHANGED <<worker, execs, looked, suspect, trouble>>
    BY <1>11 DEF vars
  <2>2. RestType'
    BY <2>1 DEF TypeOK, RestType
  <2>3. UNCHANGED worker /\ execs' \subseteq execs
    BY <2>1
  <2>4. Fits
    BY <1>4, <2>3
  <2> QED
    BY <2>2, <2>4
<1>12. ASSUME NEW w \in Workers, NEW S \in SUBSET Jobs, Claim(w, S)
       PROVE  RestType'
  BY <1>12 DEF TypeOK, RestType, Claim, TakeOver
<1> HIDE DEF Fits
<1>13. Fits /\ RestType'
  <2>1. ASSUME NEW w \in Workers, Process(w) PROVE Fits /\ RestType'
    BY <1>6, <1>7, <1>12, <2>1 DEF Process
  <2> QED
    BY <1>8, <1>9, <1>10, <1>11, <2>1 DEF Next
<1> QED
  BY <1>2, <1>13 DEF Fits, TypeOK, RowType, ExecFits, RestType

\* The initial state has its types.
LEMMA InitType == Init => TypeOK /\ AttemptsBounded
<1> SUFFICES ASSUME Init PROVE TypeOK /\ AttemptsBounded
  OBVIOUS
<1>1. \A j \in Jobs : row[j] \in JobRow /\ row[j].attempt = 0 /\ row[j].status = "absent"
  BY JobsAssumption DEF Init, JobRow
<1> QED
  <2>1. row \in [Jobs -> JobRow]
    BY <1>1 DEF Init
  <2>2. AttemptsBounded
    BY <1>1, JobsAssumption DEF AttemptsBounded
  <2> QED
    BY <1>1, <2>1, <2>2 DEF Init, TypeOK

\* Rows, executions and attempts are well formed in every reachable state.
THEOREM TypeCorrect == Spec => []TypeOK
<1>1. Spec => [](TypeOK /\ AttemptsBounded)
  BY InitType, TypeStep, PTL DEF Spec
<1> QED
  BY <1>1, PTL

\* No job is attempted more than max_attempts times (background_job_repo.py:630-683),
\* whatever its workers, leases, cancels and stale sessions do.
THEOREM AttemptsStayBounded == Spec => []AttemptsBounded
<1>1. Spec => [](TypeOK /\ AttemptsBounded)
  BY InitType, TypeStep, PTL DEF Spec
<1> QED
  BY <1>1, PTL

-----------------------------------------------------------------------------
(* Who may execute a job.  As long as nothing took the job away, the only     *)
(* execution is the one its row names, and its lease is being renewed: this   *)
(* is what keeps a second worker from claiming it.                            *)

Mine(x) == /\ x.attempt = row[x.job].attempt /\ x.worker = row[x.job].worker
           /\ row[x.job].status = "running" /\ row[x.job].lease = "held"
           /\ x.phase = "running" => x.heart
OwnInv  == \A x \in execs : trouble[x.job] = {} => Mine(x)

\* The parts of a row an execution depends on.
Kept(j) == /\ row'[j].attempt = row[j].attempt /\ row'[j].worker = row[j].worker
           /\ row'[j].status = row[j].status /\ row'[j].lease = row[j].lease

\* Executions that stay as they are keep their job if the row keeps its parts.
LEMMA KeepMine ==
  ASSUME OwnInv,
         \A z \in execs' : trouble'[z.job] = {} =>
           z \in execs /\ trouble[z.job] = {} /\ Kept(z.job)
  PROVE  OwnInv'
BY DEF OwnInv, Mine, Kept

\* Ownership is kept by every step: claims, heartbeats, results, reclaims, the
\* end of a worker (background_job_repo.py, worker.py:364-746).
LEMMA OwnStep == TypeOK /\ AttemptsBounded /\ OwnInv /\ [Next]_vars => OwnInv'
<1> SUFFICES ASSUME TypeOK, AttemptsBounded, OwnInv, [Next]_vars PROVE OwnInv'
  OBVIOUS
<1>t. row \in [Jobs -> JobRow] /\ \A x \in execs : x.job \in Jobs /\ x \in Execution
  BY DEF TypeOK, Execution
<1>u. ASSUME UNCHANGED <<row, trouble>>, execs' \subseteq execs PROVE OwnInv'
  BY <1>u, KeepMine DEF Kept
<1>s. ASSUME NEW S \in SUBSET Jobs, UNCHANGED <<execs, trouble>>,
             \A j \in Jobs \ S : row'[j] = row[j],
             \A j \in S : row[j].status # "running" \/ row[j].lease # "held"
      PROVE  OwnInv'
  BY <1>t, <1>s DEF OwnInv, Mine
<1>v. trouble \in [Jobs -> SUBSET {"cancel", "zombie", "late"}]
  BY DEF TypeOK
<1>1. ASSUME NEW j \in Jobs, Create(j) PROVE OwnInv'
  <2>1. /\ row' = [row EXCEPT ![j] = [row[j] EXCEPT !.status = "queued"]]
        /\ row[j].status = "absent" /\ UNCHANGED <<execs, trouble>>
    BY <1>1 DEF Create, Set
  <2>2. \A i \in Jobs \ {j} : row'[i] = row[i]
    BY <1>t, <2>1
  <2>3. {j} \in SUBSET Jobs /\ \A i \in {j} : row[i].status # "running"
    BY <2>1
  <2> QED
    BY <1>s, <2>1, <2>2, <2>3
<1>2. ASSUME NEW j \in Jobs, RequestCancel(j) \/ KillZombie(j) PROVE OwnInv'
  <2>1. /\ UNCHANGED execs
        /\ \/ UNCHANGED <<row, trouble>>
           \/ /\ \E s \in Status : Set(j, s)
              /\ Upset(j, "cancel") \/ Upset(j, "zombie")
    BY <1>2 DEF RequestCancel, KillZombie, Status, Claimed, Finished, Waiting
  <2>2. ASSUME NEW s \in Status, Set(j, s), Upset(j, "cancel") \/ Upset(j, "zombie"),
               UNCHANGED execs
        PROVE  OwnInv'
    <3>1. row' = [row EXCEPT ![j] = [row[j] EXCEPT !.status = s]]
      BY <2>2 DEF Set
    <3>2. \A i \in Jobs \ {j} : row'[i] = row[i]
      BY <1>t, <3>1
    <3>3. trouble'[j] # {} /\ \A i \in Jobs \ {j} : trouble'[i] = trouble[i]
      BY <1>v, <2>2 DEF Upset
    <3> QED
      BY <1>t, <2>2, <3>2, <3>3 DEF OwnInv, Mine
  <2> QED
    BY <1>u, <2>1, <2>2
<1>3. ASSUME NEW S \in SUBSET Jobs, Archive(S) \/ Reclaim(S) \/ Requeue(S) PROVE OwnInv'
  <2>1. /\ UNCHANGED <<execs, trouble>>
        /\ \A j \in Jobs \ S : row'[j] = row[j]
    BY <1>3 DEF Archive, Reclaim, Interrupt, Requeue, Again
  <2>2. \A j \in S : row[j].status # "running" \/ row[j].lease # "held"
    BY <1>3 DEF Archive, Reclaim, Expired, Requeue, Due, Terminal, Finished, Waiting
  <2> QED
    BY <1>s, <2>1, <2>2
<1>4. ASSUME NEW j \in Jobs, Unarchive(j) PROVE OwnInv'
  <2>1. /\ row' = [row EXCEPT ![j] = [row[j] EXCEPT !.archived = FALSE]]
        /\ UNCHANGED <<execs, trouble>>
    BY <1>4 DEF Unarchive
  <2>2. \A i \in Jobs : Kept(i)
    <3>1. row[j] \in JobRow
      BY <1>t
    <3> QED
      BY <1>t, <2>1, <3>1, RowFields DEF Kept
  <2> QED
    BY <1>t, <2>1, <2>2, KeepMine
<1>5. ASSUME NEW j \in Jobs, Expire(j) PROVE OwnInv'
  <2>1. /\ \A i \in Jobs \ {j} : row'[i] = row[i] /\ trouble'[i] = trouble[i]
        /\ UNCHANGED execs
    BY <1>5, <1>t, <1>v DEF Expire, Upset
  <2>2. CASE Renewed(j)
    <3>1. trouble'[j] # {}
      BY <1>v, <1>5, <2>2 DEF Expire, Upset
    <3> QED
      BY <1>t, <2>1, <3>1 DEF OwnInv, Mine
  <2>3. CASE ~Renewed(j)
    <3>1. trouble' = trouble
      BY <1>5, <2>3 DEF Expire
    <3>2. \A x \in execs : x.job = j => trouble[j] # {}
      BY <2>3 DEF Renewed, ExecsOf, OwnInv, Mine
    <3> QED
      BY <1>t, <2>1, <3>1, <3>2 DEF OwnInv, Mine
  <2> QED
    BY <2>2, <2>3
<1>6. ASSUME NEW w \in Workers, NEW S \in SUBSET Jobs, Claim(w, S) PROVE OwnInv'
  <2>1. /\ execs' = execs \cup {Task(j, w) : j \in S} /\ UNCHANGED trouble
        /\ \A j \in S : row[j].status = "queued"
        /\ row' = [j \in Jobs |-> IF j \in S
                                    THEN [Owned(row[j], w) EXCEPT !.attempt = @ + 1]
                                    ELSE row[j]]
    BY <1>6 DEF Claim, Claimable, TakeOver
  <2>2. ASSUME NEW j \in S, NEW z, z = Task(j, w)
        PROVE  Mine(z)'
    <3>1. row[j] \in JobRow /\ row[j].attempt < MaxAttempts
      BY <1>t, <2>1 DEF AttemptsBounded
    <3>2. /\ row'[j].status = "running" /\ row'[j].attempt = row[j].attempt + 1
          /\ row'[j].worker = w /\ row'[j].lease = "held"
      BY <2>1, <3>1, ClaimedRow
    <3>3. z.job = j /\ z.attempt = row[j].attempt + 1 /\ z.worker = w /\ z.phase = "claimed"
      BY <2>2 DEF Task
    <3> QED
      BY <3>2, <3>3 DEF Mine
  <2>3. ASSUME NEW z \in execs, trouble[z.job] = {}
        PROVE  Mine(z)'
    <3>1. z.job \in Jobs \ S
      BY <1>t, <2>1, <2>3 DEF OwnInv, Mine
    <3>2. row'[z.job] = row[z.job]
      BY <2>1, <3>1
    <3> QED
      BY <2>3, <3>2 DEF OwnInv, Mine
  <2> QED
    BY <2>1, <2>2, <2>3 DEF OwnInv
<1>7. ASSUME NEW x \in execs, Run(x) PROVE OwnInv'
  <2>t. x.job \in Jobs /\ row[x.job] \in JobRow /\ x \in Execution
    BY <1>t
  <2>b. ASSUME NEW y \in Execution, Become(x, y), SameTask(x, y), UNCHANGED <<row, trouble>>,
               trouble[x.job] = {} => (y.phase = "running" => y.heart)
        PROVE  OwnInv'
    <3>1. \A z \in execs' : z = y \/ z \in execs
      BY <2>b DEF Become
    <3> QED
      BY <2>b, <3>1 DEF OwnInv, Mine, SameTask
  <2>1. CASE Begin(x)
    <3> DEFINE y == [x EXCEPT !.phase = "running", !.heart = TRUE]
    <3>1. y \in Execution /\ SameTask(x, y) /\ y.heart
      BY <2>t, ExecutionFields DEF SameTask
    <3>2. UNCHANGED <<row, trouble>> /\ (Become(x, y) \/ execs' = execs \ {x})
      BY <2>1 DEF Begin
    <3> HIDE DEF y
    <3> QED
      BY <1>u, <2>b, <3>1, <3>2
  <2>2. CASE Heartbeat(x)
    <3>1. CASE row[x.job].status = "running" /\ row[x.job].worker = x.worker
      <4>1. /\ row' = [row EXCEPT ![x.job] = [row[x.job] EXCEPT !.lease = "held"]]
            /\ UNCHANGED <<execs, trouble>>
        BY <2>2, <3>1 DEF Heartbeat
      <4>2. \A j \in Jobs : trouble[j] = {} /\ (\E z \in execs : z.job = j) => Kept(j)
        BY <1>t, <2>t, <4>1, RowFields DEF Kept, OwnInv, Mine
      <4> QED
        BY <1>t, <4>1, <4>2, KeepMine
    <3>2. CASE ~(row[x.job].status = "running" /\ row[x.job].worker = x.worker)
      <4> DEFINE c == row[x.job].status = "cancel_requested"
                 y == [x EXCEPT !.heart = FALSE, !.cancelled = c]
      <4>1. UNCHANGED <<row, trouble>> /\ Become(x, y)
        BY <2>2, <3>2 DEF Heartbeat
      <4>2. c \in BOOLEAN
        OBVIOUS
      <4>3. y \in Execution /\ SameTask(x, y)
        BY <2>t, <4>2, ExecutionFields DEF SameTask
      <4>4. trouble[x.job] # {}
        BY <3>2 DEF OwnInv, Mine
      <4> HIDE DEF y
      <4> QED
        BY <2>b, <4>1, <4>3, <4>4
    <3> QED
      BY <3>1, <3>2
  <2>3. CASE Abort(x)
    <3> DEFINE y == [x EXCEPT !.phase = "returned", !.heart = FALSE, !.cancelled = TRUE,
                              !.result = "cancelled"]
    <3>1. y \in Execution /\ SameTask(x, y) /\ y.phase = "returned"
      BY <2>t, ReturnedFields DEF SameTask
    <3>2. UNCHANGED <<row, trouble>> /\ Become(x, y)
      BY <2>3 DEF Abort
    <3> HIDE DEF y
    <3> QED
      BY <2>b, <3>1, <3>2
  <2>4. ASSUME NEW result \in Results, Return(x, result) PROVE OwnInv'
    <3> DEFINE y == [x EXCEPT !.phase = "returned", !.heart = FALSE, !.result = result]
    <3>1. y \in Execution /\ SameTask(x, y) /\ y.phase = "returned"
      BY <2>t, ReturnedFields DEF SameTask
    <3>2. UNCHANGED <<row, trouble>> /\ Become(x, y)
      BY <2>4 DEF Return
    <3> HIDE DEF y
    <3> QED
      BY <2>b, <3>1, <3>2
  <2>5. CASE Finalize(x)
    <3>1. /\ execs' = execs \ {x} /\ UNCHANGED trouble
          /\ \A j \in Jobs \ {x.job} : row'[j] = row[j]
      BY <1>t, <2>5 DEF Finalize, Set
    <3>2. ASSUME NEW z \in execs', trouble[z.job] = {}
          PROVE  z.job # x.job
      <4>1. z \in execs /\ z # x
        BY <3>1
      <4>2. z.job = x.job => z.attempt = x.attempt
        BY <3>2, <4>1 DEF OwnInv, Mine
      <4> QED
        BY <4>1, <4>2 DEF TypeOK
    <3> QED
      BY <1>t, <3>1, <3>2 DEF OwnInv, Mine
  <2> QED
    BY <1>7, <2>1, <2>2, <2>3, <2>4, <2>5 DEF Run
<1>8. ASSUME NEW j \in Jobs, CancelLook(j) \/ Suspect(j) PROVE OwnInv'
  BY <1>u, <1>8 DEF CancelLook, Suspect
<1>9. ASSUME NEW w \in Workers, Boot(w) \/ Drain(w) \/ Exit(w) PROVE OwnInv'
  BY <1>u, <1>9 DEF Boot, Drain, Exit
<1>10. ASSUME UNCHANGED vars PROVE OwnInv'
  BY <1>u, <1>10 DEF vars
<1> QED
  BY <1>1, <1>2, <1>3, <1>4, <1>5, <1>6, <1>7, <1>8, <1>9, <1>10 DEF Next, Api, Process

\* The three invariants together are inductive.
LEMMA Ownership == Spec => [](TypeOK /\ AttemptsBounded /\ OwnInv)
<1>1. Init => TypeOK /\ AttemptsBounded /\ OwnInv
  BY InitType DEF Init, OwnInv
<1> QED
  BY <1>1, TypeStep, OwnStep, PTL DEF Spec

\* A job nothing was taken from has at most one execution: no second worker starts
\* it while the first one lives (background_job_repo.py:276-357, 429-459).
THEOREM OneExecution == Spec => []ExecutedOnce
<1>1. TypeOK /\ OwnInv => ExecutedOnce
  <2> SUFFICES ASSUME TypeOK, OwnInv, NEW j \in Jobs, trouble[j] = {}
               PROVE  Cardinality(ExecsOf(j)) <= 1
    BY DEF ExecutedOnce
  <2>1. \A x, y \in ExecsOf(j) : x = y
    BY DEF ExecsOf, OwnInv, Mine, TypeOK
  <2>2. ASSUME ExecsOf(j) = {} PROVE Cardinality(ExecsOf(j)) <= 1
    <3>1. Cardinality(ExecsOf(j)) = 0
      BY <2>2, FS_EmptySet
    <3> QED
      BY <3>1
  <2>3. ASSUME NEW x \in ExecsOf(j) PROVE Cardinality(ExecsOf(j)) <= 1
    <3>1. ExecsOf(j) = {x}
      BY <2>1, <2>3
    <3>2. Cardinality({x}) = 1
      BY FS_Singleton
    <3> QED
      BY <3>1, <3>2
  <2> QED
    BY <2>2, <2>3
<1> QED
  BY <1>1, Ownership, PTL

\* Under the same condition a result that is written belongs to the attempt the row
\* is at (background_job_repo.py:584-614, which compares neither).
THEOREM ResultsAreCurrent == Spec => ResultIsCurrent
<1>1. TypeOK /\ OwnInv =>
        \A x \in execs : ~(trouble[x.job] = {} /\ x.attempt < row[x.job].attempt)
  <2> SUFFICES ASSUME TypeOK, OwnInv, NEW x \in execs, trouble[x.job] = {}
               PROVE  ~(x.attempt < row[x.job].attempt)
    OBVIOUS
  <2>1. x.attempt = row[x.job].attempt /\ x.attempt \in Nat
    BY JobsAssumption DEF OwnInv, Mine, TypeOK, Execution
  <2> QED
    BY <2>1
<1>2. TypeOK /\ OwnInv /\ [Next]_vars =>
        [\A x \in execs : trouble[x.job] = {} /\ x.attempt < row[x.job].attempt
           => ~(x \notin execs' /\ row'[x.job].status # row[x.job].status)]_vars
  BY <1>1
<1> QED
  BY <1>2, Ownership, PTL DEF Spec, ResultIsCurrent
-----------------------------------------------------------------------------
(* The life cycle, the live row of a key and the limit of a kind are drawn from *)
(* what a step does to the status and the archive flag of a row; they need      *)
(* sessions that reread what they lock.                                         *)

\* What a change of one field leaves of the others, the archive flag included.
LEMMA FiledFields ==
  /\ \A r \in JobRow, s \in Status \cup {"absent"} : [r EXCEPT !.status = s].archived = r.archived
  /\ \A r \in JobRow, l \in {"none", "held", "expired"} :
       [r EXCEPT !.lease = l].archived = r.archived
  /\ \A r \in JobRow, b \in BOOLEAN : [r EXCEPT !.archived = b].archived = b
BY DEF JobRow

\* A claimed row keeps its archive flag.
LEMMA ClaimedFiled ==
  ASSUME NEW r \in JobRow, NEW w \in Workers
  PROVE  [Owned(r, w) EXCEPT !.attempt = @ + 1].archived = r.archived
BY DEF JobRow, Owned

Keeps(j) == row'[j].status = row[j].status /\ row'[j].attempt = row[j].attempt
Goes(j)  == row'[j].attempt = row[j].attempt /\ row'[j].archived = row[j].archived

\* No row of the key of j is live, and no row but j changes.
Alone(j) == /\ \A i \in Jobs : KeyOf[i] = KeyOf[j] => ~LiveRow(i)
            /\ \A i \in Jobs : i # j => row'[i] = row[i]
\* The rows of a kind that run after the step.
StillRunning(k) == {j \in Jobs : KindOf[j] = k /\ row'[j].status = "running"}

\* The steps of JobLifecycle, said of rows.
Moves(j) ==
  \/ Goes(j) /\ row[j].status = "absent" /\ row'[j].status = "queued" /\ Alone(j)
  \/ /\ row[j].status = "queued" /\ row'[j].status = "running"
     /\ row[j].attempt < MaxAttempts /\ row'[j].attempt = row[j].attempt + 1
     /\ row'[j].archived = row[j].archived
     /\ Cardinality(StillRunning(KindOf[j])) <= KindLimit[KindOf[j]]
  \/ /\ Goes(j) /\ row[j].status \in Claimed
     /\ row'[j].status \in Finished \cup {"retry_waiting", "interrupted"}
  \/ Goes(j) /\ row[j].status = "running" /\ row'[j].status = "cancel_requested"
  \/ Goes(j) /\ row[j].status \in {"queued", "retry_waiting"} /\ row'[j].status = "cancelled"
  \/ /\ Goes(j) /\ row[j].status \in Waiting /\ ~row[j].archived
     /\ \/ row[j].attempt < MaxAttempts /\ row'[j].status = "queued"
        \/ row[j].attempt >= MaxAttempts /\ row'[j].status = "failed"
Files(j) ==
  Keeps(j) /\ (row'[j].archived => row[j].archived \/ row[j].status \in Terminal)
Cycle(j) == Moves(j) \/ Files(j)

\* Only jobs that ended, or were interrupted, are archived.
FiledInv == \A j \in Jobs : row[j].archived => row[j].status \in Terminal

\* Every disjunct of Next takes each row one step along the life cycle, or leaves it.
LEMMA CycleSteps ==
  ASSUME LockRereads, TypeOK, AttemptsBounded, [Next]_vars
  PROVE  \A j \in Jobs : Cycle(j)
<1> DEFINE Goal == \A j \in Jobs : Cycle(j)
<1>t. row \in [Jobs -> JobRow]
  BY DEF TypeOK
<1>u. ASSUME UNCHANGED row PROVE Goal
  BY <1>u DEF Cycle, Files, Keeps
<1>s. ASSUME NEW j \in Jobs, NEW s \in Status, Set(j, s), s # row[j].status =>
               \/ /\ row[j].status = "absent" /\ s = "queued"
                  /\ \A i \in Jobs : KeyOf[i] = KeyOf[j] => ~LiveRow(i)
               \/ row[j].status \in Claimed /\ s \in Finished \cup {"retry_waiting", "interrupted"}
               \/ row[j].status = "running" /\ s = "cancel_requested"
               \/ row[j].status \in {"queued", "retry_waiting"} /\ s = "cancelled"
      PROVE  Goal
  <2>1. row[j] \in JobRow
    BY <1>t
  <2>2. /\ row'[j] = [row[j] EXCEPT !.status = s]
        /\ \A i \in Jobs : i # j => row'[i] = row[i]
    BY <1>t, <1>s DEF Set
  <2>3. Goes(j) /\ row'[j].status = s
    BY <2>1, <2>2, RowFields, FiledFields DEF Goes
  <2>4. Cycle(j)
    BY <1>s, <2>2, <2>3 DEF Cycle, Moves, Files, Keeps, Goes, Alone
  <2>5. \A i \in Jobs : i # j => Cycle(i)
    BY <2>2 DEF Cycle, Files, Keeps
  <2> QED
    BY <2>4, <2>5
<1>l. ASSUME NEW j \in Jobs, NEW l \in {"none", "held", "expired"},
             row' = [row EXCEPT ![j].lease = l]
      PROVE  Goal
  <2>1. row[j] \in JobRow
    BY <1>t
  <2>2. /\ row'[j] = [row[j] EXCEPT !.lease = l]
        /\ \A i \in Jobs : i # j => row'[i] = row[i]
    BY <1>t, <1>l
  <2>3. Keeps(j) /\ row'[j].archived = row[j].archived
    BY <2>1, <2>2, RowFields, FiledFields DEF Keeps
  <2> QED
    BY <2>2, <2>3 DEF Cycle, Files, Keeps
<1>1. ASSUME NEW j \in Jobs, Create(j) PROVE Goal
  <2>1. /\ row[j].status = "absent" /\ Set(j, "queued")
        /\ \A i \in Jobs : KeyOf[i] = KeyOf[j] => ~LiveRow(i)
    BY <1>1 DEF Create
  <2> QED
    BY <2>1, <1>s DEF Status
<1>2. ASSUME NEW j \in Jobs, RequestCancel(j) PROVE Goal
  <2>1. \/ UNCHANGED row
        \/ row[j].status = "running" /\ Set(j, "cancel_requested")
        \/ row[j].status \in {"queued", "retry_waiting"} /\ Set(j, "cancelled")
    BY <1>2 DEF RequestCancel
  <2> QED
    BY <2>1, <1>s, <1>u DEF Status, Claimed, Finished
<1>3. ASSUME NEW x \in execs, Finalize(x) PROVE Goal
  <2>1. x.job \in Jobs /\ x.result \in Results
    BY <1>3 DEF TypeOK, Execution, Finalize
  <2>2. x.result \in Status /\ x.result \in Finished \cup {"retry_waiting", "interrupted"}
    BY <2>1 DEF Results, Status, Finished, Waiting
  <2> QED
    BY <1>3, <2>1, <2>2, <1>s, <1>u DEF Finalize
<1>4. ASSUME NEW j \in Jobs, KillZombie(j) PROVE Goal
  <2>1. UNCHANGED row \/ (row[j].status = "running" /\ Set(j, "retry_waiting"))
    BY <1>4 DEF KillZombie
  <2> QED
    BY <2>1, <1>s, <1>u DEF Status, Waiting, Claimed
<1>5. ASSUME NEW j \in Jobs, Unarchive(j) PROVE Goal
  <2>1. row[j] \in JobRow
    BY <1>t
  <2>2. /\ row'[j] = [row[j] EXCEPT !.archived = FALSE]
        /\ \A i \in Jobs : i # j => row'[i] = row[i]
    BY <1>t, <1>5 DEF Unarchive
  <2>3. Keeps(j) /\ row'[j].archived = FALSE
    BY <2>1, <2>2, RowFields, FiledFields DEF Keeps
  <2> QED
    BY <2>2, <2>3 DEF Cycle, Files, Keeps
<1>6. ASSUME NEW j \in Jobs, Expire(j) PROVE Goal
  BY <1>6, <1>l DEF Expire
<1>7. ASSUME NEW x \in execs, Heartbeat(x) PROVE Goal
  <2>1. x.job \in Jobs
    BY DEF TypeOK, Execution
  <2>2. UNCHANGED row \/ row' = [row EXCEPT ![x.job].lease = "held"]
    BY <1>7 DEF Heartbeat
  <2> QED
    BY <1>l, <1>u, <2>1, <2>2
<1>8. ASSUME NEW S \in SUBSET Jobs, Archive(S) PROVE Goal
  <2>1. /\ \A j \in S : row[j].status \in Terminal
        /\ row' = [j \in Jobs |-> IF j \in S THEN [row[j] EXCEPT !.archived = TRUE]
                                             ELSE row[j]]
    BY <1>8 DEF Archive
  <2>2. ASSUME NEW j \in S PROVE Files(j)
    <3>1. row[j] \in JobRow /\ row'[j] = [row[j] EXCEPT !.archived = TRUE]
      BY <1>t, <2>1
    <3>2. Keeps(j)
      BY <3>1, RowFields DEF Keeps
    <3> QED
      BY <2>1, <3>2 DEF Files
  <2>3. ASSUME NEW j \in Jobs \ S PROVE Files(j)
    BY <2>1 DEF Files, Keeps
  <2> QED
    BY <2>2, <2>3 DEF Cycle
<1>9. ASSUME NEW S \in SUBSET Jobs, Reclaim(S) PROVE Goal
  <2>1. /\ \A j \in S : row[j].status \in Claimed
        /\ row' = [j \in Jobs |-> IF j \in S THEN [row[j] EXCEPT !.status = "interrupted"]
                                             ELSE row[j]]
    BY <1>9 DEF Reclaim, Interrupt
  <2>2. ASSUME NEW j \in S PROVE Moves(j)
    <3>1. row[j] \in JobRow /\ row'[j] = [row[j] EXCEPT !.status = "interrupted"]
          /\ "interrupted" \in Status
      BY <1>t, <2>1 DEF Status, Waiting
    <3>2. Goes(j) /\ row'[j].status = "interrupted"
      BY <3>1, RowFields, FiledFields DEF Goes
    <3> QED
      BY <2>1, <3>2 DEF Moves
  <2>3. ASSUME NEW j \in Jobs \ S PROVE Files(j)
    BY <2>1 DEF Files, Keeps
  <2> QED
    BY <2>2, <2>3 DEF Cycle
<1>10. ASSUME NEW S \in SUBSET Jobs, Requeue(S) PROVE Goal
  <2>1. /\ \A j \in S : row[j].status \in Waiting /\ ~row[j].archived
        /\ row' = [j \in Jobs |->
                     IF j \in S
                       THEN [row[j] EXCEPT !.status = IF row[j].attempt >= MaxAttempts
                                                        THEN "failed" ELSE "queued"]
                       ELSE row[j]]
    BY <1>10 DEF Requeue, Due, Again
  <2>2. ASSUME NEW j \in S PROVE Moves(j)
    <3> DEFINE s == IF row[j].attempt >= MaxAttempts THEN "failed" ELSE "queued"
    <3>1. row[j] \in JobRow /\ row'[j] = [row[j] EXCEPT !.status = s] /\ s \in Status
      BY <1>t, <2>1 DEF Status, Finished
    <3>2. Goes(j) /\ row'[j].status = s
      BY <3>1, RowFields, FiledFields DEF Goes
    <3>3. row[j].attempt \in Nat /\ MaxAttempts \in Nat
      BY <3>1, JobsAssumption DEF JobRow
    <3>4. \/ row[j].attempt >= MaxAttempts /\ s = "failed"
          \/ row[j].attempt < MaxAttempts /\ s = "queued"
      BY <3>3
    <3> QED
      BY <2>1, <3>2, <3>4 DEF Moves
  <2>3. ASSUME NEW j \in Jobs \ S PROVE Files(j)
    BY <2>1 DEF Files, Keeps
  <2> QED
    BY <2>2, <2>3 DEF Cycle
<1>11. ASSUME NEW w \in Workers, NEW S \in SUBSET Jobs, Claim(w, S) PROVE Goal
  <2>1. /\ \A j \in S : row[j].status = "queued"
        /\ row' = [j \in Jobs |-> IF j \in S
                                    THEN [Owned(row[j], w) EXCEPT !.attempt = @ + 1]
                                    ELSE row[j]]
        /\ \A j \in S : Cardinality(Running(KindOf[j])
                                      \cup {i \in S : KindOf[i] = KindOf[j]})
                          <= KindLimit[KindOf[j]]
    BY <1>11 DEF Claim, Claimable, TakeOver
  <2>c. ASSUME NEW i \in S PROVE row'[i].status = "running"
    <3>1. row[i].attempt < MaxAttempts /\ row[i] \in JobRow
      BY <1>t, <2>1 DEF AttemptsBounded
    <3> QED
      BY <2>1, <3>1, ClaimedRow
  <2>2. ASSUME NEW j \in S PROVE Moves(j)
    <3>1. row[j].attempt < MaxAttempts /\ row[j] \in JobRow
      BY <1>t, <2>1 DEF AttemptsBounded
    <3>2. row'[j].status = "running" /\ row'[j].attempt = row[j].attempt + 1
          /\ row'[j].archived = row[j].archived
      BY <2>1, <3>1, ClaimedRow, ClaimedFiled
    <3>3. StillRunning(KindOf[j]) = Running(KindOf[j]) \cup {i \in S : KindOf[i] = KindOf[j]}
      BY <2>1, <2>c DEF StillRunning, Running
    <3>4. Cardinality(StillRunning(KindOf[j])) <= KindLimit[KindOf[j]]
      BY <2>1, <3>3
    <3> QED
      BY <2>1, <3>1, <3>2, <3>4 DEF Moves
  <2>3. ASSUME NEW j \in Jobs \ S PROVE Files(j)
    BY <2>1 DEF Files, Keeps
  <2> QED
    BY <2>2, <2>3 DEF Cycle
<1>12. ASSUME NEW j \in Jobs, CancelLook(j) \/ Suspect(j) PROVE Goal
  BY <1>12, <1>u DEF CancelLook, Suspect
<1>13. ASSUME NEW x \in execs, \/ Begin(x) \/ Abort(x)
                               \/ \E result \in Results : Return(x, result)
       PROVE  Goal
  <2>1. UNCHANGED row
    BY <1>13, Zenon DEF Begin, Abort, Return
  <2> QED
    BY <2>1, <1>u
<1>14. ASSUME NEW w \in Workers, Boot(w) \/ Drain(w) \/ Exit(w) PROVE Goal
  BY <1>14, <1>u DEF Boot, Drain, Exit
<1>15. ASSUME UNCHANGED vars PROVE Goal
  BY <1>15, <1>u DEF vars
<1> HIDE DEF Goal
<1>16. ASSUME NEW j \in Jobs, Api(j) \/ Expire(j) \/ Suspect(j) \/ KillZombie(j) PROVE Goal
  BY <1>1, <1>2, <1>4, <1>5, <1>6, <1>12, <1>16 DEF Api
<1>17. ASSUME NEW x \in execs, Run(x) PROVE Goal
  BY <1>3, <1>7, <1>13, <1>17 DEF Run
<1>18. ASSUME NEW w \in Workers, Process(w) PROVE Goal
  BY <1>11, <1>14, <1>18 DEF Process
<1>19. Goal
  BY <1>8, <1>9, <1>10, <1>15, <1>16, <1>17, <1>18 DEF Next
<1> QED
  BY <1>19 DEF Goal

\* An archived row ended or was interrupted, and no step moves it.
LEMMA FiledStep ==
  ASSUME LockRereads, TypeOK, AttemptsBounded, FiledInv, [Next]_vars
  PROVE  FiledInv'
<1>1. \A j \in Jobs : Cycle(j)
  BY CycleSteps
<1> SUFFICES ASSUME NEW j \in Jobs, row'[j].archived PROVE row'[j].status \in Terminal
  BY DEF FiledInv
<1>2. CASE Moves(j)
  <2>1. row[j].archived => row[j].status \in Terminal
    BY DEF FiledInv
  <2> QED
    BY <1>2, <2>1 DEF Moves, Goes, Terminal, Finished, Claimed, Waiting
<1>3. CASE Files(j)
  BY <1>3 DEF Files, Keeps, FiledInv
<1> QED
  BY <1>1, <1>2, <1>3 DEF Cycle

LEMMA FiledSpec == ASSUME LockRereads PROVE Spec => [](TypeOK /\ AttemptsBounded /\ FiledInv)
<1>1. Init => TypeOK /\ AttemptsBounded /\ FiledInv
  BY InitType DEF Init, FiledInv
<1>2. TypeOK /\ AttemptsBounded /\ FiledInv /\ [Next]_vars
        => (TypeOK /\ AttemptsBounded /\ FiledInv)'
  BY TypeStep, FiledStep
<1> QED
  BY <1>1, <1>2, PTL DEF Spec

\* One row's step is a step of the abstract job.
LEMMA CycleIsLife ==
  ASSUME NEW j \in Jobs, TypeOK, TypeOK', FiledInv, Cycle(j)
  PROVE  Life!Move(j) \/ Life!File(j)
<1>t. row[j] \in JobRow /\ row'[j] \in JobRow
  BY DEF TypeOK
<1>f. row[j].archived => row[j].status \in Terminal
  BY DEF FiledInv
<1>1. CASE Files(j)
  <2>1. Keeps(j) /\ (row'[j].archived => row[j].status \in Terminal)
    BY <1>1, <1>f DEF Files
  <2> QED
    BY <2>1 DEF Life!File, Life!Become, Life!Settled, Keeps, Terminal, Finished
<1>2. CASE Moves(j)
  <2>1. ~row[j].archived /\ ~row'[j].archived
    BY <1>t, <1>2, <1>f DEF Moves, Goes, Terminal, Finished, Claimed, Waiting, JobRow
  <2>2. Life!Advance(j)
    BY <1>t, <1>2 DEF Moves, Goes, Finished, Claimed, Waiting, JobRow, Life!Advance, Life!Submit,
       Life!Start, Life!Conclude, Life!AskCancel, Life!Cancel, Life!Interrupt, Life!Retry,
       Life!GiveUp, Life!Become, Life!Settled, Life!Claimed, Life!Waiting
  <2> QED
    BY <2>1, <2>2 DEF Life!Move
<1> QED
  BY <1>1, <1>2 DEF Cycle

\* The queue implements the documented life cycle, for any jobs and workers: attempts
\* are bounded, results final, archived rows frozen (background_jobs.py:14-38).
THEOREM ImplementsLifeCycle == ASSUME LockRereads PROVE Spec => LifeCycle
<1>1. Init => Life!Init
  BY DEF Init, Life!Init
<1>2. /\ TypeOK /\ AttemptsBounded /\ FiledInv /\ (TypeOK /\ AttemptsBounded /\ FiledInv)'
      /\ [Next]_vars
      => [Life!Next]_<<[j \in Jobs |-> row[j].status], [j \in Jobs |-> row[j].attempt],
                       [j \in Jobs |-> row[j].archived]>>
  <2> SUFFICES ASSUME TypeOK, AttemptsBounded, FiledInv, TypeOK', [Next]_vars
               PROVE  Life!Next
    OBVIOUS
  <2>1. \A j \in Jobs : Life!Move(j) \/ Life!File(j)
    BY CycleSteps, CycleIsLife
  <2>2. \A j \in Jobs : /\ row'[j].status \in Status \cup {"absent"}
                        /\ row'[j].attempt \in 0..MaxAttempts
                        /\ row'[j].archived \in BOOLEAN
    BY DEF TypeOK, JobRow
  <2>3. Status \cup {"absent"} = Life!JobStatus \cup {"absent"}
    BY DEF Status, Finished, Claimed, Waiting, Life!JobStatus, Life!Settled, Life!Claimed,
       Life!Waiting
  <2> QED
    BY <2>1, <2>2, <2>3 DEF Life!Next
<1> QED
  BY <1>1, <1>2, FiledSpec, PTL DEF Spec, LifeCycle, Life!Spec

\* A row comes to life only by its creation.
LEMMA KeyStep ==
  ASSUME LockRereads, TypeOK, AttemptsBounded, OneLiveRowPerKey, [Next]_vars
  PROVE  OneLiveRowPerKey'
<1> USE DEF LiveRow
<1>1. \A j \in Jobs : Cycle(j)
  BY CycleSteps
<1>2. ASSUME NEW j \in Jobs, LiveRow(j)' PROVE LiveRow(j) \/ Alone(j)
  <2>1. CASE Moves(j)
    BY <1>2, <2>1 DEF Moves, Recreatable, Claimed, Waiting
  <2>2. CASE Files(j)
    BY <1>2, <2>2 DEF Files, Keeps
  <2> QED
    BY <1>1, <2>1, <2>2 DEF Cycle
<1> SUFFICES ASSUME NEW i \in Jobs, NEW j \in Jobs, KeyOf[i] = KeyOf[j],
                    LiveRow(i)', LiveRow(j)'
             PROVE  i = j
  BY DEF OneLiveRowPerKey
<1>3. CASE LiveRow(i) /\ LiveRow(j)
  BY <1>3 DEF OneLiveRowPerKey
<1>4. CASE Alone(i)
  BY <1>4 DEF Alone
<1>5. CASE Alone(j)
  BY <1>5 DEF Alone
<1> QED
  BY <1>2, <1>3, <1>4, <1>5

\* At most one job of an idempotency key is pending, under way or succeeded, for
\* any jobs and keys (background_job_repo.py:73-134).
THEOREM KeyUnique == ASSUME LockRereads PROVE Spec => []OneLiveRowPerKey
<1>1. Init => OneLiveRowPerKey
  BY DEF Init, OneLiveRowPerKey, LiveRow
<1>2. TypeOK /\ AttemptsBounded /\ OneLiveRowPerKey /\ [Next]_vars => OneLiveRowPerKey'
  BY KeyStep
<1> QED
  BY <1>1, <1>2, FiledSpec, PTL DEF Spec

\* A row starts to run only in a claim, which counts all that will run then.
LEMMA LimitStep ==
  ASSUME LockRereads, IsFiniteSet(Jobs), TypeOK, AttemptsBounded, KindLimitHolds, [Next]_vars
  PROVE  KindLimitHolds'
<1>1. \A j \in Jobs : Cycle(j)
  BY CycleSteps
<1> SUFFICES ASSUME NEW j \in Jobs
             PROVE  Cardinality(StillRunning(KindOf[j])) <= KindLimit[KindOf[j]]
  BY DEF KindLimitHolds, Running, StillRunning
<1> DEFINE k == KindOf[j]
<1>2. CASE \E i \in StillRunning(k) : row[i].status # "running"
  <2>1. PICK i \in StillRunning(k) : row[i].status # "running"
    BY <1>2
  <2>2. i \in Jobs /\ KindOf[i] = k /\ row'[i].status = "running"
    BY DEF StillRunning
  <2>3. Moves(i)
    BY <1>1, <2>1, <2>2 DEF Cycle, Files, Keeps
  <2>4. Cardinality(StillRunning(KindOf[i])) <= KindLimit[KindOf[i]]
    BY <2>1, <2>2, <2>3 DEF Moves, Claimed, Waiting, Finished
  <2> QED
    BY <2>2, <2>4
<1>3. CASE \A i \in StillRunning(k) : row[i].status = "running"
  <2>1. StillRunning(k) \in SUBSET Running(k) /\ Running(k) \in SUBSET Jobs
    BY <1>3 DEF StillRunning, Running
  <2>2. /\ IsFiniteSet(Running(k)) /\ IsFiniteSet(StillRunning(k))
        /\ Cardinality(StillRunning(k)) <= Cardinality(Running(k))
    BY <2>1, FS_Subset
  <2>3. Cardinality(Running(k)) \in Nat /\ Cardinality(StillRunning(k)) \in Nat
    BY <2>2, FS_CardinalityType
  <2>4. Cardinality(Running(k)) <= KindLimit[k]
    BY DEF KindLimitHolds
  <2>5. KindLimit[k] \in Nat
    BY JobsAssumption
  <2> QED
    BY <2>2, <2>3, <2>4, <2>5
<1> QED
  BY <1>2, <1>3

\* The running jobs of a kind keep to its limit, whatever batches the workers claim
\* (background_job_repo.py:276-357).
THEOREM LimitHolds ==
  ASSUME LockRereads, IsFiniteSet(Jobs) PROVE Spec => []KindLimitHolds
<1>1. Init => KindLimitHolds
  <2> SUFFICES ASSUME Init, NEW j \in Jobs
               PROVE  Cardinality(Running(KindOf[j])) <= KindLimit[KindOf[j]]
    BY DEF KindLimitHolds
  <2>1. Running(KindOf[j]) = {}
    BY DEF Init, Running
  <2>2. KindLimit[KindOf[j]] \in Nat
    BY JobsAssumption
  <2> QED
    BY <2>1, <2>2, FS_EmptySet
<1>2. TypeOK /\ AttemptsBounded /\ KindLimitHolds /\ [Next]_vars => KindLimitHolds'
  BY LimitStep
<1> QED
  BY <1>1, <1>2, FiledSpec, PTL DEF Spec
============================================================================
