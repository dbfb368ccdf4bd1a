------------------------- MODULE ResearchRunsProofs -------------------------
(***************************************************************************)
(* Theorems about ResearchRuns for any number of attempts, decisions and    *)
(* outcomes: the artifacts of a run stay one history, a result stays the    *)
(* digest of them, and a run is never left RUNNING behind its job without   *)
(* an attempt that was cut off.                                             *)
(***************************************************************************)
EXTENDS ResearchRuns, TLAPS

Outs == RunStatus \cup JobStatus \cup {"none"}

\* What a stage says of the status an execution is heading for, and of its decisions.
FitAt(at, out, done) ==
  /\ at = "appending" => done < Decisions
  /\ at \in {"reporting", "saving"} => out \in {"completed", "rejected"}
  /\ at = "reporting" /\ out = "completed" => done = Decisions
  /\ at \in Settling => out \in {"interrupted", "failed", "rejected"}
  /\ at = "returned" => out \in {"succeeded", "failed", "cancelled", "retry_waiting"}
  /\ at = "raised" => out = "failed"

Fit(x) == FitAt(x.at, x.out, x.done)

TypeInv == TypeOK /\ \A a \in Attempts : Fit(ex[a])

\* The part of it about the executions.
ExType == /\ ex \in [Attempts -> Execution]
          /\ \A a \in Attempts : ex[a].at = "none" <=> a > job.attempt
          /\ \A a \in Attempts : Fit(ex[a])

-----------------------------------------------------------------------------
(* What a step does to one execution. *)

\* Only the execution of a changes: to this stage, heading for that.
Moved(a, at, out) ==
  /\ ex' \in [Attempts -> Execution]
  /\ \A b \in Attempts \ {a} : ex'[b] = ex[b]
  /\ ex'[a].at = at /\ ex'[a].out = out

\* What it holds of the decisions is kept, or forgotten.
Keeps(a)   == ex'[a].seeds = ex[a].seeds /\ ex'[a].done = ex[a].done /\ ex'[a].last = ex[a].last
Forgets(a) == /\ \A k \in Index : ex'[a].seeds[k] = NoRow
              /\ ex'[a].done = 0 /\ ex'[a].last = Opening

LEMMA FreshType ==
  /\ Fresh \in Execution /\ Fresh.at = "none"
  /\ \A s \in Stages, o \in Outs, w \in BOOLEAN :
       [Fresh EXCEPT !.at = s, !.out = o, !.warned = w] \in Execution
  /\ \A s \in Stages : [Fresh EXCEPT !.at = s] \in Execution
<1>1. [k \in Index |-> NoRow] \in Table
  BY DEF Table
<1>2. 0 \in 0..Decisions
  BY ResearchAssumption
<1>3. "none" \in Stages /\ "none" \in Outs
  BY DEF Stages, Outs
<1>4. Fresh \in Execution /\ Fresh.at = "none"
  BY <1>1, <1>2, <1>3 DEF Fresh, Execution, Outs
<1>5. \A s \in Stages, o \in Outs, w \in BOOLEAN :
        [Fresh EXCEPT !.at = s, !.out = o, !.warned = w] \in Execution
  BY <1>4 DEF Execution, Outs
<1>6. \A s \in Stages : [Fresh EXCEPT !.at = s] \in Execution
  BY <1>4 DEF Execution
<1> QED
  BY <1>4, <1>5, <1>6

\* The ways an execution goes on, ends and is gone.
LEMMA Moves ==
  ASSUME ex \in [Attempts -> Execution], NEW a \in Attempts, NEW s \in Stages, NEW o \in Outs
  PROVE  /\ Go(a, s) => Moved(a, s, ex[a].out) /\ Keeps(a)
         /\ Gather(a, o) => Moved(a, "reporting", o) /\ Keeps(a)
         /\ Leave(a, s, o) => Moved(a, s, o) /\ Forgets(a)
         /\ Gone(a) => Moved(a, "over", "none") /\ Forgets(a)
<1>t. /\ ex[a] \in Execution /\ ex[a].warned \in BOOLEAN
      /\ {"reporting", "over"} \subseteq Stages
  BY DEF Execution, Stages, Alive, Owning
<1>1. ASSUME Go(a, s) PROVE Moved(a, s, ex[a].out) /\ Keeps(a)
  <2> DEFINE x == [ex[a] EXCEPT !.at = s]
  <2>1. x \in Execution /\ x.at = s /\ x.out = ex[a].out /\ x.seeds = ex[a].seeds
        /\ x.done = ex[a].done /\ x.last = ex[a].last
    BY <1>t DEF Execution
  <2>2. ex' = [ex EXCEPT ![a] = x]
    BY <1>1 DEF Go
  <2> HIDE DEF x
  <2> QED
    BY <2>1, <2>2 DEF Moved, Keeps
<1>2. ASSUME Gather(a, o) PROVE Moved(a, "reporting", o) /\ Keeps(a)
  <2> DEFINE x == [ex[a] EXCEPT !.at = "reporting", !.out = o]
  <2>1. x \in Execution /\ x.at = "reporting" /\ x.out = o /\ x.seeds = ex[a].seeds
        /\ x.done = ex[a].done /\ x.last = ex[a].last
    BY <1>t DEF Execution, Outs
  <2>2. ex' = [ex EXCEPT ![a] = x]
    BY <1>2, <1>t DEF Gather
  <2> HIDE DEF x
  <2> QED
    BY <2>1, <2>2 DEF Moved, Keeps
<1>3. ASSUME Leave(a, s, o) PROVE Moved(a, s, o) /\ Forgets(a)
  <2> DEFINE x == [Fresh EXCEPT !.at = s, !.out = o, !.warned = ex[a].warned]
  <2>1. x \in Execution
    BY <1>t, FreshType
  <2>2. x.at = s /\ x.out = o /\ x.done = 0 /\ x.last = Opening
        /\ \A k \in Index : x.seeds[k] = NoRow
    BY DEF Fresh
  <2>3. ex' = [ex EXCEPT ![a] = x]
    BY <1>3 DEF Leave
  <2> HIDE DEF x
  <2> QED
    BY <2>1, <2>2, <2>3 DEF Moved, Forgets
<1>4. ASSUME Gone(a) PROVE Moved(a, "over", "none") /\ Forgets(a)
  <2> DEFINE x == [Fresh EXCEPT !.at = "over"]
  <2>1. x \in Execution
    BY <1>t, FreshType
  <2>2. x.at = "over" /\ x.out = "none" /\ x.done = 0 /\ x.last = Opening
        /\ \A k \in Index : x.seeds[k] = NoRow
    BY DEF Fresh
  <2>3. ex' = [ex EXCEPT ![a] = x]
    BY <1>4 DEF Gone
  <2> HIDE DEF x
  <2> QED
    BY <2>1, <2>2, <2>3 DEF Moved, Forgets
<1> QED
  BY <1>1, <1>2, <1>3, <1>4

LEMMA Lists ==
  /\ Stages = {"none", "over", "claimed", "returned", "raised", "looking", "converging",
               "building", "failing", "unqueueing", "entering", "starting", "rereading",
               "marking", "loading", "checking", "appending", "reporting", "saving",
               "completing", "settling", "writing"}
  /\ Outs = {"none", "queued", "running", "interrupted", "completed", "failed", "rejected",
             "cancelled", "succeeded", "cancel_requested", "retry_waiting"}
BY DEF Stages, Alive, Before, Owning, Settling, Outs, RunStatus, JobStatus, JobDone, Claimed,
       Waiting

LEMMA Outcomes ==
  /\ Outcome("completed") = "succeeded" /\ Outcome("cancelled") = "cancelled"
  /\ \A s \in RunStatus : /\ Outcome(s) \in {"succeeded", "failed", "cancelled", "retry_waiting"}
                          /\ Outcome(s) = "succeeded" => s = "completed"
  /\ \A s \in {"interrupted", "failed", "rejected"} :
       "running" \in Sources(s) /\ \A q \in Sources(s) : q \in {"queued", "running"}
  /\ Sources("cancelled") = {"queued", "interrupted", "failed", "running"}
BY DEF Outcome, RunStatus, Sources, Startable

\* The next decision's content is one, carrying on from the last.
LEMMA UpcomingType ==
  ASSUME NEW x \in Execution, x.done + 1 \in Index, NEW content \in Upcoming(x)
  PROVE  /\ content \in Content /\ content # NoRow
         /\ \/ content = x.seeds[x.done + 1]
            \/ x.seeds[x.done + 1] = NoRow /\ content.after = x.last
<1>1. x.seeds[x.done + 1] \in Content \cup {NoRow} /\ x.last \in Values \cup {Opening}
  BY DEF Execution, Table
<1>2. \A v \in Values : /\ [value |-> v, after |-> x.last] \in Content
                        /\ [value |-> v, after |-> x.last].after = x.last
  BY <1>1 DEF Content
<1>3. \A c \in Content : c # NoRow
  BY ResearchAssumption DEF Content, NoRow
<1> QED
  BY <1>1, <1>2, <1>3 DEF Upcoming

\* Reading back, making the next decision, and being warned.
LEMMA Loading ==
  ASSUME TypeInv, NEW a \in Attempts, Load(a)
  PROVE  /\ Moved(a, "checking", ex[a].out) /\ ex[a].at = "loading"
         /\ ex'[a].done = ex[a].done /\ ex'[a].last = ex[a].last
         /\ ex'[a].seeds \in {rows, [k \in Index |-> NoRow]}
<1>1. PICK seeds \in {rows, [k \in Index |-> NoRow]} :
        ex' = [ex EXCEPT ![a].at = "checking", ![a].seeds = seeds]
  BY DEF Load
<1> DEFINE x == [ex[a] EXCEPT !.at = "checking", !.seeds = seeds]
<1>2. seeds \in Table /\ ex \in [Attempts -> Execution] /\ ex[a] \in Execution
  BY DEF TypeInv, TypeOK, Table
<1>3. /\ x \in Execution /\ x.at = "checking" /\ x.out = ex[a].out /\ x.done = ex[a].done
      /\ x.last = ex[a].last /\ x.seeds = seeds
  BY <1>2, Lists DEF Execution
<1>4. ex' = [ex EXCEPT ![a] = x]
  BY <1>1
<1> HIDE DEF x
<1> QED
  BY <1>2, <1>3, <1>4 DEF Load, Moved

\* The decision is persisted: content is what there is now.
Adds(a, content) ==
  /\ Admits(ex[a].done + 1, content)
  /\ rows' = [rows EXCEPT ![ex[a].done + 1] = content]
  /\ late' = IF run.status = "cancelled" /\ rows[ex[a].done + 1] = NoRow
               THEN [late EXCEPT ![a] = @ + 1] ELSE late
  /\ Moved(a, "checking", ex[a].out)
  /\ ex'[a].seeds = ex[a].seeds /\ ex'[a].done = ex[a].done + 1
  /\ ex'[a].last = content.value

LEMMA Appending ==
  ASSUME TypeInv, NEW a \in Attempts, Append(a)
  PROVE  /\ ex[a].at = "appending" /\ ex[a].done + 1 \in Index
         /\ UNCHANGED <<run, report>>
         /\ \/ Settle(a, "failed") /\ UNCHANGED <<rows, late>>
            \/ \E content \in Upcoming(ex[a]) : Adds(a, content)
<1>t. /\ ex \in [Attempts -> Execution] /\ ex[a] \in Execution
      /\ FitAt(ex[a].at, ex[a].out, ex[a].done) /\ ex[a].done \in 0..Decisions
  BY DEF TypeInv, TypeOK, Execution, Fit
<1>1. /\ ex[a].at = "appending" /\ ex[a].done + 1 \in 0..Decisions /\ ex[a].done + 1 \in Index
  BY <1>t, ResearchAssumption DEF Append, FitAt, Index
<1>2. CASE ~Settle(a, "failed")
  <2>1. PICK content \in Upcoming(ex[a]) :
          /\ Admits(ex[a].done + 1, content)
          /\ rows' = [rows EXCEPT ![ex[a].done + 1] = content]
          /\ ex' = [ex EXCEPT ![a].at = "checking", ![a].done = ex[a].done + 1,
                              ![a].last = content.value]
          /\ late' = IF run.status = "cancelled" /\ rows[ex[a].done + 1] = NoRow
                       THEN [late EXCEPT ![a] = @ + 1] ELSE late
    BY <1>2 DEF Append
  <2> DEFINE x == [ex[a] EXCEPT !.at = "checking", !.done = ex[a].done + 1,
                                !.last = content.value]
  <2>2. content.value \in Values \cup {Opening}
    BY <1>t, <1>1, UpcomingType DEF Content
  <2>3. /\ x \in Execution /\ x.at = "checking" /\ x.out = ex[a].out /\ x.seeds = ex[a].seeds
        /\ x.done = ex[a].done + 1 /\ x.last = content.value
    BY <1>t, <1>1, <2>2, Lists DEF Execution
  <2>4. ex' = [ex EXCEPT ![a] = x]
    BY <2>1
  <2> HIDE DEF x
  <2>5. Adds(a, content)
    BY <1>t, <2>1, <2>3, <2>4 DEF Adds, Moved
  <2> QED
    BY <1>1, <2>5 DEF Append
<1>3. CASE Settle(a, "failed") /\ UNCHANGED <<rows, late>>
  BY <1>1, <1>3 DEF Append
<1>4. CASE Settle(a, "failed") /\ ~UNCHANGED <<rows, late>>
  <2>1. ex'[a].at = "settling"
    BY <1>t, <1>4, Moves, Lists DEF Settle, Moved
  <2>2. PICK content \in Upcoming(ex[a]) :
          ex' = [ex EXCEPT ![a].at = "checking", ![a].done = ex[a].done + 1,
                           ![a].last = content.value]
    BY <1>4 DEF Append
  <2>3. ex'[a].at = "checking"
    BY <1>t, <2>2 DEF Execution
  <2> QED
    BY <2>1, <2>3
<1> QED
  BY <1>2, <1>3, <1>4

LEMMA Warning ==
  ASSUME TypeInv, NEW a \in Attempts, Warn(a)
  PROVE  Moved(a, ex[a].at, ex[a].out) /\ Keeps(a) /\ ex[a].at \notin {"none", "over"}
<1> DEFINE x == [ex[a] EXCEPT !.warned = TRUE]
<1>1. ex \in [Attempts -> Execution] /\ ex[a] \in Execution
  BY DEF TypeInv, TypeOK
<1>2. /\ x \in Execution /\ x.at = ex[a].at /\ x.out = ex[a].out /\ x.done = ex[a].done
      /\ x.seeds = ex[a].seeds /\ x.last = ex[a].last
  BY <1>1 DEF Execution
<1>3. ex' = [ex EXCEPT ![a] = x] /\ ex[a].at \notin {"none", "over"}
  BY DEF Warn, Alive, Before, Owning, Settling
<1> HIDE DEF x
<1> QED
  BY <1>1, <1>2, <1>3 DEF Moved, Keeps

\* Every step of an execution moves it on, and what it holds of the decisions changes only
\* when it reads them back or makes the next one.
Progress(a) ==
  /\ ex[a].at \notin {"none", "over"}
  /\ ex' \in [Attempts -> Execution]
  /\ \A b \in Attempts \ {a} : ex'[b] = ex[b]
  /\ ex'[a].at # "none" /\ Fit(ex'[a])
  /\ Keeps(a) \/ Forgets(a) \/ Load(a) \/ Append(a)

LEMMA Going ==
  ASSUME TypeInv, NEW a \in Attempts, ex[a].at \notin {"none", "over"},
         NEW s \in Stages \ {"none"}, NEW o \in Outs,
         \/ Go(a, s) /\ FitAt(s, ex[a].out, ex[a].done)
         \/ Gather(a, o) /\ FitAt("reporting", o, ex[a].done)
         \/ Leave(a, s, o) /\ FitAt(s, o, 0)
         \/ Gone(a)
  PROVE  Progress(a)
<1>1. ex \in [Attempts -> Execution]
  BY DEF TypeInv, TypeOK
<1>2. FitAt("over", "none", 0)
  BY DEF FitAt, Settling
<1> QED
  BY <1>1, <1>2, Moves DEF Progress, Moved, Keeps, Forgets, Fit

LEMMA ExecMoves ==
  ASSUME TypeInv, NEW a \in Attempts, Execute(a) \/ Disturb(a)
  PROVE  Progress(a)
<1>t. /\ ex \in [Attempts -> Execution] /\ ex[a] \in Execution
      /\ FitAt(ex[a].at, ex[a].out, ex[a].done)
      /\ run.status \in RunStatus /\ ex[a].out \in Outs /\ ex[a].done \in 0..Decisions
  BY DEF TypeInv, TypeOK, Execution, Outs, Fit
<1>1. CASE Begin(a)
  BY <1>t, <1>1, Going, Lists
  DEF Begin, FitAt, Before, Owning, Settling, Alive
<1>2. CASE Look(a)
  BY <1>t, <1>2, Going, Lists
  DEF Look, FitAt, Before, Owning, Settling, Alive
<1>3. CASE Converge(a)
  BY <1>t, <1>3, Going, Lists
  DEF Converge, FitAt, Before, Owning, Settling, Alive, Raised
<1>4. CASE Build(a)
  BY <1>t, <1>4, Going, Lists
  DEF Build, FitAt, Before, Owning, Settling, Alive
<1>5. CASE MarkLook(a)
  BY <1>t, <1>5, Going, Lists
  DEF MarkLook, FitAt, Before, Owning, Settling, Alive
<1>6. CASE MarkRunning(a)
  BY <1>t, <1>6, Going, Lists
  DEF MarkRunning, FitAt, Before, Owning, Settling, Alive, Raised
<1>7. CASE MarkFailed(a)
  BY <1>t, <1>7, Going, Lists
  DEF MarkFailed, FitAt, Before, Owning, Settling, Alive, Raised
<1>8. CASE Enter(a)
  BY <1>t, <1>8, Going, Lists, Outcomes
  DEF Enter, FitAt, Before, Owning, Settling, Alive, Returned
<1>9. CASE Start(a)
  BY <1>t, <1>9, Going, Lists
  DEF Start, FitAt, Before, Owning, Settling, Alive, Settle
<1>10. CASE Reread(a)
  BY <1>t, <1>10, Going, Lists, Outcomes
  DEF Reread, FitAt, Before, Owning, Settling, Alive, Returned, Settle
<1>11. CASE Load(a)
  BY <1>t, <1>11, Loading DEF Progress, Moved, Fit, FitAt, Settling
<1>12. CASE Check(a)
  BY <1>t, <1>12, Going, Lists, Outcomes, ResearchAssumption
  DEF Check, FitAt, Settling, Returned, Settle
<1>13. CASE Append(a)
  <2>1. CASE Settle(a, "failed")
    BY <1>t, <1>13, <2>1, Going, Lists DEF Append, FitAt, Settling, Settle
  <2>2. CASE ~Settle(a, "failed")
    BY <1>t, <1>13, <2>2, Appending DEF Adds, Moved, Progress, Fit, FitAt, Settling
  <2> QED
    BY <2>1, <2>2
<1>14. CASE Conclude(a)
  BY <1>t, <1>14, Going, Lists
  DEF Conclude, FitAt, Before, Owning, Settling, Alive, Settle
<1>15. CASE Save(a)
  BY <1>t, <1>15, Going, Lists
  DEF Save, FitAt, Before, Owning, Settling, Alive, Settle
<1>16. CASE Complete(a)
  BY <1>t, <1>16, Going, Lists, Outcomes
  DEF Complete, FitAt, Before, Owning, Settling, Alive, Settle, Returned
<1>17. CASE SettleLook(a)
  BY <1>t, <1>17, Going, Lists, Outcomes
  DEF SettleLook, FitAt, Before, Owning, Settling, Alive, Returned
<1>18. CASE SettleWrite(a)
  BY <1>t, <1>18, Going, Lists, Outcomes DEF SettleWrite, FitAt, Settling, Returned, Raised,
     RunStatus
<1>19. CASE Finalize(a)
  BY <1>t, <1>19, Going, Lists
  DEF Finalize, FitAt, Before, Owning, Settling, Alive
<1>20. CASE Give(a)
  BY <1>t, <1>20, Going, Lists
  DEF Give, FitAt, Before, Owning, Settling, Alive, Settle
<1>21. CASE Fail(a)
  BY <1>t, <1>21, Going, Lists
  DEF Fail, FitAt, Before, Owning, Settling, Alive, Settle
<1>22. CASE Break(a)
  BY <1>t, <1>22, Going, Lists
  DEF Break, FitAt, Before, Owning, Settling, Alive, Raised
<1>23. CASE Abort(a)
  BY <1>t, <1>23, Going, Lists
  DEF Abort, FitAt, Before, Owning, Settling, Alive
<1>24. CASE Stall(a)
  BY <1>t, <1>24, Going, Lists
  DEF Stall, FitAt, Before, Owning, Settling, Alive
<1>25. CASE Warn(a)
  BY <1>t, <1>25, Warning DEF Moved, Keeps, Progress, Fit
<1>26. CASE Crash(a)
  BY <1>t, <1>26, Going, Lists
  DEF Crash, FitAt, Before, Owning, Settling, Alive
<1> QED
  BY <1>1, <1>2, <1>3, <1>4, <1>5, <1>6, <1>7, <1>8, <1>9, <1>10, <1>11, <1>12, <1>13, <1>14,
     <1>15, <1>16, <1>17, <1>18, <1>19, <1>20, <1>21, <1>22, <1>23, <1>24, <1>25, <1>26 DEF
     Execute, Disturb

-----------------------------------------------------------------------------
(* What a step leaves alone. *)

LEMMA ExecFrame ==
  ASSUME NEW a \in Attempts, Execute(a) \/ Disturb(a)
  PROVE  /\ \/ UNCHANGED run \/ Converge(a) \/ MarkRunning(a) \/ MarkFailed(a) \/ Start(a)
            \/ Save(a) \/ Complete(a) \/ SettleWrite(a)
         /\ UNCHANGED rows \/ Append(a)
         /\ UNCHANGED report \/ Conclude(a)
         /\ UNCHANGED job \/ Finalize(a)
         /\ UNCHANGED late \/ Append(a)
         /\ UNCHANGED dropped \/ dropped' = dropped \cup {a}
         /\ UNCHANGED <<boot, taken>>
<1>1. CASE Begin(a) \/ Look(a) \/ Converge(a) \/ Build(a) \/ MarkLook(a) \/ MarkRunning(a)
  BY <1>1 DEF Begin, Look, Converge, Build, MarkLook, MarkRunning, Rest, History, Artifacts,
     Drop
<1>2. CASE MarkFailed(a) \/ Enter(a) \/ Start(a) \/ Reread(a) \/ Load(a) \/ Check(a)
  BY <1>2 DEF MarkFailed, Enter, Start, Reread, Load, Check, Rest, History, Artifacts
<1>3. CASE Append(a) \/ Conclude(a)
  BY <1>3 DEF Append, Conclude, Rest, History
<1>4. CASE Save(a) \/ Complete(a) \/ SettleLook(a) \/ SettleWrite(a) \/ Finalize(a)
  BY <1>4 DEF Save, Complete, SettleLook, SettleWrite, Finalize, Rest, History, Artifacts
<1>5. CASE Disturb(a)
  BY <1>5 DEF Disturb, Give, Fail, Break, Abort, Stall, Warn, Crash, Rest, History, Artifacts,
     Drop
<1> QED
  BY <1>1, <1>2, <1>3, <1>4, <1>5 DEF Execute

LEMMA RowFrame ==
  ASSUME Maintain \/ Recover
  PROVE  /\ UNCHANGED <<rows, report, ex, dropped, late>>
         /\ UNCHANGED run \/ CancelRun \/ MarkStale
         /\ UNCHANGED <<job, taken>> \/ (Maintain /\ UNCHANGED boot)
<1>1. CASE Maintain
  BY <1>1 DEF Maintain, Expire, Reclaim, KillZombie, Requeue, CancelJob, CancelRun, JobOnly,
              Artifacts
<1>2. CASE Recover
  BY <1>2 DEF Recover, Scan, Probe, MarkStale, BootOnly, History, Artifacts
<1> QED
  BY <1>1, <1>2

\* The status of a run, and what may change it.
LEMMA Becoming ==
  ASSUME TypeInv, NEW s \in RunStatus, Become(s)
  PROVE  /\ run' \in [status : RunStatus, result : Result]
         /\ run'.status = s /\ run'.result = run.result
BY DEF TypeInv, TypeOK, Become

StatusStep ==
  /\ run' \in [status : RunStatus, result : Result]
  /\ run'.result = run.result \/ \E a \in Attempts : Save(a)
  /\ run.status \in {"completed", "cancelled"} => run'.status = run.status
  /\ run'.status = "completed" => run.status = "completed" \/ \E a \in Attempts : Complete(a)
  /\ run'.status = "running" =>
       run.status = "running" \/ \E a \in Attempts : MarkRunning(a) \/ Start(a)

LEMMA StatusSteps == TypeInv /\ [Next]_vars => StatusStep
<1> SUFFICES ASSUME TypeInv, [Next]_vars PROVE StatusStep
  OBVIOUS
<1>t. run \in [status : RunStatus, result : Result] /\ run.status \in RunStatus
  BY DEF TypeInv, TypeOK
<1>0. CASE UNCHANGED run
  BY <1>0, <1>t DEF StatusStep
<1> DEFINE Named == {"queued", "running", "interrupted", "completed", "failed", "rejected",
                     "cancelled"}
<1>n. RunStatus = Named
  BY DEF RunStatus
<1>1. ASSUME NEW a \in Attempts, Execute(a) \/ Disturb(a) PROVE StatusStep
  <2>1. CASE Converge(a) \/ MarkFailed(a)
    BY <1>0, <1>t, <1>n, <2>1, Becoming DEF Converge, MarkFailed, StatusStep
  <2>2. CASE MarkRunning(a) \/ Start(a)
    BY <1>0, <1>t, <1>n, <2>2, Becoming DEF MarkRunning, Start, StatusStep, Startable
  <2>3. CASE Complete(a)
    BY <1>0, <1>t, <1>n, <2>3, Becoming DEF Complete, StatusStep
  <2>4. CASE SettleWrite(a)
    <3>1. FitAt(ex[a].at, ex[a].out, ex[a].done)
      BY DEF TypeInv, Fit
    <3>2. ex[a].out \in {"interrupted", "failed", "rejected"}
      BY <2>4, <3>1 DEF SettleWrite, FitAt, Settling
    <3> QED
      BY <1>0, <1>t, <1>n, <2>4, <3>2, Becoming, Outcomes DEF SettleWrite, StatusStep
  <2>5. CASE Save(a)
    <3>1. Digest(rows, report) \in Result
      BY DEF Digest, Result, TypeInv, TypeOK
    <3>2. PICK r \in Result : run' = [run EXCEPT !.result = r]
      BY <1>t, <2>5, <3>1 DEF Save
    <3> QED
      BY <1>t, <2>5, <3>2 DEF StatusStep
  <2> QED
    BY <1>0, <1>1, <2>1, <2>2, <2>3, <2>4, <2>5, ExecFrame
<1>2. CASE Maintain \/ Recover
  <2>1. CASE CancelRun
    BY <1>0, <1>t, <1>n, <2>1, Becoming, Outcomes DEF CancelRun, StatusStep
  <2>2. CASE MarkStale
    BY <1>0, <1>t, <1>n, <2>2, Becoming DEF MarkStale, StatusStep
  <2> QED
    BY <1>0, <1>2, <2>1, <2>2, RowFrame
<1>3. CASE \E a \in Attempts : Claim(a)
  BY <1>0, <1>3 DEF Claim
<1>4. CASE UNCHANGED vars
  BY <1>0, <1>4 DEF vars
<1> QED
  BY <1>1, <1>2, <1>3, <1>4 DEF Next

\* The job's row, and what may change it.
LEMMA JobFields ==
  ASSUME TypeInv, NEW s \in JobStatus, NEW f \in BOOLEAN
  PROVE  /\ [job EXCEPT !.status = s]
              \in [status : JobStatus, attempt : 0..MaxAttempts, fresh : BOOLEAN]
         /\ [job EXCEPT !.status = s].status = s
         /\ [job EXCEPT !.status = s].attempt = job.attempt
         /\ [job EXCEPT !.fresh = f]
              \in [status : JobStatus, attempt : 0..MaxAttempts, fresh : BOOLEAN]
         /\ [job EXCEPT !.fresh = f].status = job.status
         /\ [job EXCEPT !.fresh = f].attempt = job.attempt
BY DEF TypeInv, TypeOK

JobStep ==
  /\ job' \in [status : JobStatus, attempt : 0..MaxAttempts, fresh : BOOLEAN]
  /\ job'.attempt = job.attempt \/ \E a \in Attempts : Claim(a)
  /\ job'.status = "succeeded" =>
       job.status = "succeeded" \/ \E a \in Attempts : Finalize(a) /\ ex[a].out = "succeeded"

LEMMA JobSteps == TypeInv /\ [Next]_vars => JobStep
<1> SUFFICES ASSUME TypeInv, [Next]_vars PROVE JobStep
  OBVIOUS
<1> DEFINE Named == {"queued", "succeeded", "failed", "cancelled", "running", "cancel_requested",
                     "retry_waiting", "interrupted"}
<1>n. JobStatus = Named
  BY DEF JobStatus, JobDone, Claimed, Waiting
<1>t. /\ job \in [status : JobStatus, attempt : 0..MaxAttempts, fresh : BOOLEAN]
      /\ job.status \in JobStatus
  BY DEF TypeInv, TypeOK
<1>0. CASE UNCHANGED job
  BY <1>0, <1>t DEF JobStep
<1>1. ASSUME NEW a \in Attempts, Execute(a) \/ Disturb(a) PROVE JobStep
  <2>1. CASE Finalize(a)
    <3> DEFINE result == IF ex[a].warned /\ ex[a].at = "returned" THEN "cancelled"
                                                                  ELSE ex[a].out
    <3>1. FitAt(ex[a].at, ex[a].out, ex[a].done)
      BY DEF TypeInv, Fit
    <3>2. result \in {"succeeded", "failed", "cancelled", "retry_waiting"}
          /\ (result = "succeeded" => ex[a].out = "succeeded")
      BY <2>1, <3>1 DEF Finalize, FitAt
    <3>3. job' = [job EXCEPT !.status = result] \/ job' = job
      BY <2>1 DEF Finalize
    <3> HIDE DEF result
    <3> QED
      BY <1>t, <1>n, <2>1, <3>2, <3>3, JobFields DEF JobStep
  <2> QED
    BY <1>0, <1>1, <2>1, ExecFrame
<1>2. CASE Maintain \/ Recover
  <2>1. CASE Expire
    BY <1>t, <1>n, <2>1, JobFields DEF Expire, Claimed, JobStep
  <2>2. CASE Reclaim \/ KillZombie
    BY <1>t, <1>n, <2>2, JobFields DEF Reclaim, KillZombie, JobStep
  <2>3. CASE Requeue
    BY <1>t, <1>n, <2>3, JobFields DEF Requeue, JobStep
  <2>4. CASE CancelJob \/ CancelRun
    <3> DEFINE s == IF job.status = "running" THEN "cancel_requested"
                    ELSE IF job.status \in {"queued", "retry_waiting"}
                      THEN "cancelled" ELSE job.status
    <3>1. s \in JobStatus /\ (s = "succeeded" => job.status = "succeeded")
      BY <1>t, <1>n
    <3>2. job' = [job EXCEPT !.status = s]
      BY <2>4 DEF CancelJob, CancelRun, CancelledJob
    <3> HIDE DEF s
    <3> QED
      BY <1>t, <3>1, <3>2, JobFields DEF JobStep
  <2> QED
    BY <1>0, <1>2, <2>1, <2>2, <2>3, <2>4, RowFrame DEF Maintain
<1>3. ASSUME NEW a \in Attempts, Claim(a) PROVE JobStep
  <2>1. a \in 0..MaxAttempts
    BY ResearchAssumption DEF Attempts
  <2>2. /\ job' = [status |-> "running", attempt |-> a, fresh |-> TRUE]
        /\ "running" \in JobStatus
    BY <1>3, <1>n DEF Claim
  <2>3. job' \in [status : JobStatus, attempt : 0..MaxAttempts, fresh : BOOLEAN]
    BY <2>1, <2>2
  <2> QED
    BY <1>3, <2>2, <2>3 DEF JobStep
<1>4. CASE UNCHANGED vars
  BY <1>0, <1>4 DEF vars
<1> QED
  BY <1>1, <1>2, <1>3, <1>4 DEF Next

\* A claim starts the next attempt and touches no other.
LEMMA Claiming ==
  ASSUME TypeInv, NEW a \in Attempts, Claim(a)
  PROVE  /\ ex[a].at = "none" /\ Moved(a, "claimed", ex[a].out) /\ Keeps(a)
         /\ job'.attempt = a /\ a = job.attempt + 1 /\ job.status = "queued"
         /\ job'.status = "running"
<1>1. ex \in [Attempts -> Execution] /\ ex[a].out \in Outs /\ job.attempt \in Nat
  BY DEF TypeInv, TypeOK, Execution, Outs
<1>2. ex[a].at = "none"
  BY <1>1 DEF Claim, TypeInv, TypeOK, Attempts
<1> QED
  BY <1>1, <1>2, Moves, Lists DEF Claim

LEMMA TypeStep == TypeInv /\ [Next]_vars => TypeInv'
<1> SUFFICES ASSUME TypeInv, [Next]_vars PROVE TypeInv'
  OBVIOUS
<1>t. TypeOK /\ \A b \in Attempts : Fit(ex[b])
  BY DEF TypeInv
<1>1. ExType'
  <2>1. ASSUME NEW a \in Attempts, Execute(a) \/ Disturb(a) PROVE ExType'
    <3>1. Progress(a)
      BY <2>1, ExecMoves
    <3>2. job'.attempt = job.attempt
      <4>1. CASE Finalize(a)
        BY <1>t, <4>1 DEF Finalize, TypeOK
      <4> QED
        BY <2>1, <4>1, ExecFrame
    <3> QED
      BY <1>t, <3>1, <3>2 DEF Progress, TypeOK, ExType
  <2>2. ASSUME NEW a \in Attempts, Claim(a) PROVE ExType'
    <3>1. Fit(ex'[a])
      BY <2>2, Claiming DEF Moved, Fit, FitAt, Settling
    <3>2. job.attempt \in Nat
      BY <1>t DEF TypeOK
    <3> QED
      BY <1>t, <2>2, <3>1, <3>2, Claiming DEF Moved, TypeOK, Attempts, ExType
  <2>3. CASE Maintain \/ Recover \/ UNCHANGED vars
    <3>1. UNCHANGED ex
      BY <2>3, RowFrame DEF vars
    <3>2. job'.attempt = job.attempt
      <4>1. ~(\E a \in Attempts : Claim(a)) \/ UNCHANGED job
        BY <1>t, <3>1, Claiming DEF Moved, TypeOK, Execution
      <4> QED
        BY <4>1, JobSteps DEF JobStep
    <3> QED
      BY <1>t, <3>1, <3>2 DEF TypeOK, ExType
  <2> QED
    BY <2>1, <2>2, <2>3 DEF Next
<1>2. run' \in [status : RunStatus, result : Result]
  BY StatusSteps DEF StatusStep
<1>3. job' \in [status : JobStatus, attempt : 0..MaxAttempts, fresh : BOOLEAN]
  BY JobSteps DEF JobStep
<1>4. /\ rows' \in Table /\ report' \in Report
      /\ late' \in [Attempts -> Nat] /\ dropped' \subseteq Attempts
  <2>1. ASSUME NEW a \in Attempts, Execute(a) \/ Disturb(a)
        PROVE  /\ rows' \in Table /\ report' \in Report
               /\ late' \in [Attempts -> Nat] /\ dropped' \subseteq Attempts
    <3>1. CASE Append(a)
      <4>1. /\ ex[a] \in Execution /\ ex[a].at = "appending" => ex[a].done + 1 \in Index
        BY <1>t, ResearchAssumption DEF TypeOK, Execution, Fit, FitAt, Index
      <4>2. rows' \in Table
        BY <1>t, <3>1, <4>1, UpcomingType DEF Append, TypeOK, Table
      <4>3. late' \in [Attempts -> Nat]
        BY <1>t, <3>1 DEF Append, TypeOK
      <4> QED
        BY <1>t, <2>1, <3>1, <4>2, <4>3 DEF Append, TypeOK
    <3>2. CASE Conclude(a)
      <4>1. ex[a] \in Execution
        BY <1>t DEF TypeOK
      <4>2. [upto |-> ex[a].done, last |-> ex[a].last, made |-> TRUE] \in Report
        BY <4>1 DEF Report, Execution
      <4>3. report' \in Report
        BY <1>t, <3>2, <4>2 DEF Conclude, TypeOK
      <4> QED
        BY <1>t, <3>2, <4>3 DEF Conclude, TypeOK, Rest, History
    <3> QED
      BY <1>t, <2>1, <3>1, <3>2, ExecFrame DEF TypeOK
  <2>2. CASE \E a \in Attempts : Claim(a)
    BY <1>t, <2>2 DEF Claim, Artifacts, History, TypeOK
  <2>3. CASE Maintain \/ Recover \/ UNCHANGED vars
    BY <1>t, <2>3, RowFrame DEF vars, TypeOK
  <2> QED
    BY <2>1, <2>2, <2>3 DEF Next
<1>5. /\ boot' \in [at : {"idle", "listed", "orphan"}, count : 0..MaxBoots]
      /\ taken' \in BOOLEAN
  <2>1. ASSUME NEW a \in Attempts, Execute(a) \/ Disturb(a) \/ Claim(a)
        PROVE  UNCHANGED <<boot, taken>>
    BY <2>1, ExecFrame DEF Claim, History
  <2>2. CASE Recover
    BY <1>t, <2>2, ResearchAssumption DEF Recover, Scan, Probe, MarkStale, BootOnly, History,
       TypeOK
  <2>3. CASE Maintain
    BY <1>t, <2>3 DEF Maintain, Expire, Reclaim, KillZombie, Requeue, CancelJob, CancelRun,
                      JobOnly, TypeOK, Living
  <2> QED
    BY <1>t, <2>1, <2>2, <2>3 DEF Next, vars, TypeOK
<1> QED
  BY <1>1, <1>2, <1>3, <1>4, <1>5 DEF TypeInv, TypeOK, ExType

LEMMA TypeInit == Init => TypeInv
<1> SUFFICES ASSUME Init PROVE TypeInv
  OBVIOUS
<1>1. [k \in Index |-> NoRow] \in Table /\ 0 \in 0..Decisions /\ 0 \in 0..MaxAttempts
      /\ 0 \in 0..MaxBoots
  BY ResearchAssumption DEF Table
<1>2. NoReport \in Report
  BY <1>1 DEF NoReport, Report
<1>3. NoResult \in Result
  BY <1>1, <1>2 DEF NoResult, Result
<1>4. \A a \in Attempts : Fit(ex[a]) /\ (ex[a].at = "none" <=> a > 0)
  <2>1. \A a \in Attempts : ex[a].at = "none" /\ a > 0
    <3>1. Fresh.at = "none"
      BY DEF Fresh
    <3>2. \A a \in Attempts : a > 0
      BY ResearchAssumption DEF Attempts
    <3>3. \A a \in Attempts : ex[a] = Fresh
      BY DEF Init
    <3> QED
      BY <3>1, <3>2, <3>3
  <2> QED
    BY <2>1 DEF Fit, FitAt, Settling
<1> QED
  BY <1>1, <1>2, <1>3, <1>4, FreshType
  DEF Init, TypeInv, TypeOK, RunStatus, JobStatus, Startable

\* Every variable keeps its type, and every execution heads for a status its stage may have.
LEMMA Types == Spec => []TypeInv
<1> QED
  BY TypeInit, TypeStep, PTL DEF Spec

\* The rows, the executions and the job stay well formed, and exactly the attempts that were
\* claimed have an execution (claim_next counts each).
THEOREM Typed == Spec => []TypeOK
<1>1. TypeInv => TypeOK
  BY DEF TypeInv
<1> QED
  BY <1>1, Types, PTL

-----------------------------------------------------------------------------
(* Where a step of an execution leads. *)

Held    == Owning \cup Settling
Arriving == {"claimed", "looking", "converging"}

Leads(a) ==
  /\ ex'[a].at \in {"saving", "completing"} => Conclude(a) \/ Save(a) \/ Warn(a)
  /\ ex'[a].out = "succeeded" => ex[a].out = "succeeded" \/ run'.status = "completed"
  /\ ex'[a].at = "appending" => ex[a].at = "appending" \/ run.status = "running"
  /\ ex[a].at \in Held /\ ex'[a].at \notin Held => a \in dropped' \/ run'.status # "running"
  /\ ex[a].at \in Arriving /\ ex'[a].at \notin Arriving =>
       a \in dropped' \/ run'.status # "running"
  /\ run'.status = "running" => run.status = "running" \/ ex'[a].at \in Held

LEMMA ExecLeads ==
  ASSUME TypeInv, NEW a \in Attempts, Execute(a) \/ Disturb(a)
  PROVE  Leads(a)
<1>t. /\ ex \in [Attempts -> Execution] /\ ex[a] \in Execution
      /\ FitAt(ex[a].at, ex[a].out, ex[a].done)
      /\ run.status \in RunStatus /\ ex[a].out \in Outs /\ ex[a].done \in 0..Decisions
      /\ "completed" \in RunStatus /\ "failed" \in RunStatus /\ "interrupted" \in RunStatus
      /\ "running" \in RunStatus
  BY DEF TypeInv, TypeOK, Execution, Outs, Fit, RunStatus
<1>1. CASE Begin(a)
  BY <1>t, <1>1, Moves, Lists
  DEF Begin, Leads, Moved, Forgets, FitAt, Held, Arriving, Before, Owning, Settling, Alive, Drop
<1>2. CASE Look(a)
  BY <1>t, <1>2, Moves, Lists
  DEF Look, Leads, Moved, Forgets, FitAt, Held, Arriving, Before, Owning, Settling, Alive
<1>3. CASE Converge(a)
  BY <1>t, <1>3, Moves, Lists, Becoming
  DEF Converge, Leads, Moved, Forgets, FitAt, Held, Arriving, Before, Owning, Settling, Alive,
      Raised
<1>4. CASE Build(a)
  BY <1>t, <1>4, Moves, Lists
  DEF Build, Leads, Moved, Forgets, FitAt, Held, Arriving, Before, Owning, Settling, Alive
<1>5. CASE MarkLook(a)
  BY <1>t, <1>5, Moves, Lists
  DEF MarkLook, Leads, Moved, Forgets, FitAt, Held, Arriving, Before, Owning, Settling, Alive
<1>6. CASE MarkRunning(a)
  BY <1>t, <1>6, Moves, Lists, Becoming
  DEF MarkRunning, Leads, Moved, Forgets, FitAt, Held, Arriving, Before, Owning, Settling,
      Alive, Raised
<1>7. CASE MarkFailed(a)
  BY <1>t, <1>7, Moves, Lists, Becoming
  DEF MarkFailed, Leads, Moved, Forgets, FitAt, Held, Arriving, Before, Owning, Settling,
      Alive, Raised
<1>8. CASE Enter(a)
  BY <1>t, <1>8, Moves, Lists, Outcomes
  DEF Enter, Leads, Moved, Forgets, FitAt, Held, Arriving, Before, Owning, Settling, Alive,
      Returned
<1>9. CASE Start(a)
  <2>1. CASE Become("running") /\ Go(a, "loading")
    BY <1>t, <1>9, <2>1, Moves, Lists, Becoming
    DEF Start, Leads, Moved, Held, Arriving, Owning, Settling
  <2>2. CASE run.status \notin Startable /\ UNCHANGED run /\ Go(a, "rereading")
    BY <1>t, <1>9, <2>2, Moves, Lists DEF Start, Leads, Moved, Held, Arriving, Owning, Settling
  <2>3. CASE UNCHANGED run /\ \E target \in {"rejected", "failed"} : Settle(a, target)
    BY <1>t, <1>9, <2>3, Moves, Lists
    DEF Start, Leads, Moved, Held, Arriving, Owning, Settling, Settle
  <2> QED
    BY <1>9, <2>1, <2>2, <2>3 DEF Start
<1>10. CASE Reread(a)
  BY <1>t, <1>10, Moves, Lists, Outcomes
  DEF Reread, Leads, Moved, Forgets, FitAt, Held, Arriving, Before, Owning, Settling, Alive,
      Returned, Settle
<1>11. CASE Load(a)
  BY <1>t, <1>11, Loading DEF Load, Rest, Artifacts, Leads, Moved, Held, Arriving, Owning,
     Settling
<1>12. CASE Check(a)
  BY <1>t, <1>12, Moves, Lists, Outcomes
  DEF Check, Leads, Moved, Forgets, FitAt, Held, Arriving, Before, Owning, Settling, Alive,
      Returned, Settle
<1>13. CASE Append(a)
  BY <1>t, <1>13, Appending, Moves, Lists DEF Settle, Adds, Leads, Moved, Held, Arriving,
     Owning, Settling
<1>14. CASE Conclude(a)
  BY <1>t, <1>14, Moves, Lists
  DEF Conclude, Leads, Moved, Forgets, FitAt, Held, Arriving, Before, Owning, Settling, Alive,
      Settle
<1>15. CASE Save(a)
  BY <1>t, <1>15, Moves, Lists
  DEF Save, Leads, Moved, Forgets, FitAt, Held, Arriving, Before, Owning, Settling, Alive,
      Settle
<1>16. CASE Complete(a)
  BY <1>t, <1>16, Moves, Lists, Outcomes, Becoming
  DEF Complete, Leads, Moved, Forgets, FitAt, Held, Arriving, Before, Owning, Settling, Alive,
      Settle, Returned
<1>17. CASE SettleLook(a)
  BY <1>t, <1>17, Moves, Lists, Outcomes
  DEF SettleLook, Leads, Moved, FitAt, Held, Arriving, Owning, Settling, Returned
<1>18. CASE SettleWrite(a)
  <2>1. ex[a].out \in {"interrupted", "failed", "rejected"} /\ ex[a].out \in RunStatus
    BY <1>t, <1>18 DEF SettleWrite, FitAt, Settling, RunStatus
  <2>2. CASE run.status \in Sources(ex[a].out)
    <3> DEFINE o == Outcome(ex[a].out)
    <3>1. Become(ex[a].out) /\ Leave(a, "returned", o)
      BY <1>18, <2>2 DEF SettleWrite, Returned
    <3>2. o \in Outs /\ o # "succeeded"
      BY <2>1, Outcomes, Lists
    <3>3. run'.status = ex[a].out
      BY <2>1, <3>1, Becoming
    <3> HIDE DEF o
    <3>4. ex'[a].at = "returned" /\ ex'[a].out = o
      BY <1>t, <3>1, <3>2, Moves, Lists DEF Moved
    <3> QED
      BY <2>1, <3>2, <3>3, <3>4 DEF Leads, Held, Arriving, Owning, Settling
  <2>3. CASE run.status \notin Sources(ex[a].out)
    <3>1. Raised(a) /\ UNCHANGED run /\ run.status # "running"
      BY <1>18, <2>1, <2>3, Outcomes DEF SettleWrite
    <3>2. ex'[a].at = "raised" /\ ex'[a].out = "failed"
      BY <1>t, <3>1, Moves, Lists DEF Raised, Moved
    <3> QED
      BY <1>18, <3>1, <3>2 DEF SettleWrite, Leads, Held, Arriving, Owning, Settling
  <2> QED
    BY <2>2, <2>3
<1>19. CASE Finalize(a)
  BY <1>t, <1>19, Moves, Lists
  DEF Finalize, Leads, Moved, Forgets, FitAt, Held, Arriving, Before, Owning, Settling, Alive
<1>20. CASE Give(a)
  BY <1>t, <1>20, Moves, Lists
  DEF Give, Leads, Moved, Forgets, FitAt, Held, Arriving, Before, Owning, Settling, Alive,
      Settle
<1>21. CASE Fail(a)
  BY <1>t, <1>21, Moves, Lists
  DEF Fail, Leads, Moved, Forgets, FitAt, Held, Arriving, Before, Owning, Settling, Alive,
      Settle
<1>22. CASE Break(a)
  BY <1>t, <1>22, Moves, Lists
  DEF Break, Leads, Moved, Forgets, FitAt, Held, Arriving, Before, Owning, Settling, Alive,
      Raised, Drop
<1>23. CASE Abort(a)
  BY <1>t, <1>23, Moves, Lists
  DEF Abort, Leads, Moved, Forgets, FitAt, Held, Arriving, Before, Owning, Settling, Alive, Drop
<1>24. CASE Stall(a)
  BY <1>t, <1>24, Moves, Lists
  DEF Stall, Leads, Moved, Forgets, FitAt, Held, Arriving, Before, Owning, Settling, Alive, Drop
<1>25. CASE Warn(a)
  BY <1>t, <1>25, Warning DEF Warn, Leads, Moved
<1>26. CASE Crash(a)
  BY <1>t, <1>26, Moves, Lists
  DEF Crash, Leads, Moved, Forgets, FitAt, Held, Arriving, Before, Owning, Settling, Alive, Drop
<1> QED
  BY <1>1, <1>2, <1>3, <1>4, <1>5, <1>6, <1>7, <1>8, <1>9, <1>10, <1>11, <1>12, <1>13, <1>14,
     <1>15, <1>16, <1>17, <1>18, <1>19, <1>20, <1>21, <1>22, <1>23, <1>24, <1>25, <1>26 DEF
     Execute, Disturb

-----------------------------------------------------------------------------
(* The artifacts. *)

\* No decision is missing between two that are there.
Contiguous == \A j, k \in Index : j < k /\ rows[k] # NoRow => rows[j] # NoRow

\* What an execution holds agrees with the rows, however many others write them.
Remembers(x) ==
  /\ \A k \in Index : x.seeds[k] # NoRow => rows[k] = x.seeds[k]
  /\ \A k \in Index : k <= x.done => rows[k] # NoRow
  /\ x.last = IF x.done = 0 THEN Opening ELSE rows[x.done].value

\* It comes to the result, and to completing the run, by a report of all decisions.
Concluded(x) ==
  /\ x.at \in {"saving", "completing"} => report.made
  /\ x.at = "completing" \/ (x.at = "saving" /\ x.out = "completed") => report.upto = Decisions
  /\ x.at = "completing" => run.result.saved

HistoryInv ==
  /\ OneHistory /\ Contiguous /\ ResultStands
  /\ run.result.saved => report.made
  /\ \A a \in Attempts : Remembers(ex[a]) /\ Concluded(ex[a])

\* As long as rows stay, memory that is kept, forgotten or read back agrees with them.
LEMMA Recalling ==
  ASSUME TypeInv, TypeInv', HistoryInv, NEW a \in Attempts, UNCHANGED rows,
         Keeps(a) \/ Forgets(a) \/ Load(a) \/ ex'[a] = ex[a]
  PROVE  Remembers(ex[a])'
<1>1. Remembers(ex[a])
  BY DEF HistoryInv
<1>2. CASE Keeps(a) \/ ex'[a] = ex[a]
  BY <1>1, <1>2 DEF Keeps, Remembers
<1>3. CASE Forgets(a)
  BY <1>3, ResearchAssumption DEF Forgets, Remembers, Index
<1>4. CASE Load(a)
  <2>1. \A k \in Index : ex'[a].seeds[k] # NoRow => ex'[a].seeds[k] = rows[k]
    BY <1>4, Loading
  <2> QED
    BY <1>1, <1>4, <2>1, Loading DEF Remembers
<1> QED
  BY <1>2, <1>3, <1>4

\* A step that writes no artifact and no result.
LEMMA Untouched ==
  ASSUME TypeInv, TypeInv', HistoryInv, StatusStep, UNCHANGED <<rows, report>>,
         run'.result = run.result,
         \A a \in Attempts : Remembers(ex[a])' /\ Concluded(ex[a])'
  PROVE  HistoryInv'
<1>1. OneHistory' /\ Contiguous' /\ (run.result.saved => report.made)'
  BY DEF HistoryInv, OneHistory, Contiguous
<1>2. (run.result.saved => run.result = Digest(rows, report))'
  BY DEF HistoryInv, ResultStands, Digest
<1>3. (run.status = "completed" => run.result.saved /\ report.upto = Decisions)'
  <2>1. ASSUME NEW a \in Attempts, Complete(a)
        PROVE  run.result.saved /\ report.upto = Decisions
    BY <2>1 DEF HistoryInv, Concluded, Complete
  <2> QED
    BY <2>1 DEF HistoryInv, ResultStands, StatusStep
<1> QED
  BY <1>1, <1>2, <1>3 DEF HistoryInv, ResultStands

\* The next decision is added.
LEMMA Adding ==
  ASSUME TypeInv, TypeInv', HistoryInv, NEW a \in Attempts, ex[a].at = "appending",
         ex[a].done + 1 \in Index, NEW content \in Upcoming(ex[a]), Adds(a, content),
         UNCHANGED <<run, report>>
  PROVE  HistoryInv'
<1> DEFINE k == ex[a].done + 1
<1>t. /\ rows \in Table /\ ex[a] \in Execution /\ ex[a].done \in Nat /\ k \in Index
      /\ Decisions \in Nat /\ report.upto \in Nat /\ report.upto <= Decisions
      /\ \A b \in Attempts : ex[b].done \in Nat
  BY ResearchAssumption DEF TypeInv, TypeOK, Execution, Report
<1>h. /\ OneHistory /\ Contiguous /\ ResultStands
      /\ (run.result.saved => report.made)
      /\ \A b \in Attempts : Remembers(ex[b]) /\ Concluded(ex[b])
  BY DEF HistoryInv
<1>c. /\ content \in Content /\ content # NoRow
      /\ (content = ex[a].seeds[k] \/ (ex[a].seeds[k] = NoRow /\ content.after = ex[a].last))
  BY <1>t, UpcomingType
<1>1. /\ rows' \in Table /\ rows'[k] = content
      /\ \A j \in Index : j # k => rows'[j] = rows[j]
      /\ ex'[a].done = k /\ ex'[a].seeds = ex[a].seeds /\ ex'[a].last = content.value
      /\ \A b \in Attempts : b # a => ex'[b] = ex[b]
      /\ ex'[a].at = "checking"
  BY <1>t DEF Adds, Moved, Table, TypeInv, TypeOK
<1>2. \A b \in Attempts : Concluded(ex[b])'
  BY <1>h, <1>1 DEF Concluded
<1>3. CASE rows[k] # NoRow
  <2>1. rows[k] = content
    BY <1>3 DEF Adds, Admits
  <2>2. rows' = rows
    BY <1>t, <2>1 DEF Adds, Table
  <2>3. Remembers(ex[a])'
    BY <1>t, <1>h, <1>1, <1>3, <2>1, <2>2 DEF Remembers, Index
  <2>4. \A b \in Attempts : Remembers(ex[b])'
    BY <1>h, <1>1, <2>2, <2>3 DEF Remembers
  <2> QED
    BY <1>h, <1>2, <2>2, <2>4 DEF HistoryInv, OneHistory, Contiguous, ResultStands, Digest
<1>4. CASE rows[k] = NoRow
  <2>1. ex[a].seeds[k] = NoRow /\ content.after = ex[a].last
    BY <1>t, <1>h, <1>c, <1>4 DEF Remembers
  <2>2. ~report.made
    <3>1. SUFFICES ASSUME report.made PROVE FALSE
      OBVIOUS
    <3>2. \A j \in Index : rows[j] # NoRow <=> j <= report.upto
      BY <1>h, <3>1 DEF OneHistory
    <3>3. report.upto = ex[a].done
      <4>1. report.upto <= ex[a].done
        BY <1>t, <1>4, <3>2
      <4>2. ex[a].done = 0 \/ ex[a].done \in Index
        BY <1>t DEF Index
      <4>3. ex[a].done \in Index => ex[a].done <= report.upto
        BY <1>t, <1>h, <3>2 DEF Remembers
      <4> QED
        BY <1>t, <4>1, <4>2, <4>3
    <3> QED
      BY <1>t, <1>4, <3>1, <3>3 DEF Adds, Admits
  <2>3. ~run.result.saved /\ run.status # "completed"
    BY <1>h, <2>2 DEF ResultStands
  <2>4. OneHistory'
    <3>1. ASSUME NEW j \in Index, rows'[j] # NoRow
          PROVE  IF j = 1 THEN rows'[j].after = Opening
                          ELSE rows'[j - 1] # NoRow /\ rows'[j].after = rows'[j - 1].value
      <4>1. CASE j = k
        <5> DEFINE d == ex[a].done
        <5>1. /\ content.after = ex[a].last /\ rows'[j] = content
              /\ ex[a].last = IF d = 0 THEN Opening ELSE rows[d].value
              /\ \A m \in Index : m <= d => rows[m] # NoRow
          BY <1>h, <1>1, <2>1, <4>1 DEF Remembers
        <5>2. CASE d = 0
          BY <1>t, <4>1, <5>1, <5>2
        <5>3. CASE d # 0
          <6>1. d \in Index /\ j - 1 = d /\ j # 1 /\ d # k
            BY <1>t, <4>1, <5>3 DEF Index
          <6>2. rows'[d] = rows[d] /\ rows[d] # NoRow
            BY <1>t, <1>1, <5>1, <6>1
          <6> QED
            BY <5>1, <5>3, <6>1, <6>2
        <5> QED
          BY <5>2, <5>3
      <4>2. CASE j # k
        <5>1. rows[j] # NoRow /\ j # k + 1
          BY <1>t, <1>h, <1>1, <1>4, <3>1, <4>2 DEF Contiguous, Index
        <5> QED
          BY <1>t, <1>h, <1>1, <4>2, <5>1 DEF OneHistory, Index
      <4> QED
        BY <4>1, <4>2
    <3> QED
      BY <2>2, <3>1 DEF OneHistory
  <2>5. Contiguous'
    BY <1>t, <1>h, <1>1, <1>c DEF Contiguous, Remembers, Index
  <2>6. \A b \in Attempts : Remembers(ex[b])'
    <3>1. Remembers(ex[a])'
      BY <1>t, <1>h, <1>1, <1>c, <2>1 DEF Remembers, Index
    <3>2. ASSUME NEW b \in Attempts, b # a PROVE Remembers(ex[b])'
      <4>1. ex[b].done # k
        BY <1>t, <1>h, <1>4 DEF Remembers
      <4>2. \A m \in Index : rows[m] # NoRow => rows'[m] = rows[m]
        BY <1>1, <1>4
      <4>3. Remembers(ex[b]) /\ ex'[b] = ex[b]
        BY <1>h, <1>1, <3>2
      <4>4. ex[b].done \in 0..Decisions
        BY DEF TypeInv, TypeOK, Execution
      <4>5. ex[b].done = 0 \/ (ex[b].done \in Index /\ rows'[ex[b].done] = rows[ex[b].done])
        BY <1>t, <4>1, <1>1, <4>4 DEF Index
      <4>6. ex[b].seeds \in Table
        BY DEF TypeInv, TypeOK, Execution
      <4> QED
        BY <4>2, <4>3, <4>5, <4>6 DEF Remembers
    <3> QED
      BY <3>1, <3>2
  <2> QED
    BY <1>2, <2>2, <2>3, <2>4, <2>5, <2>6 DEF HistoryInv, ResultStands
<1> QED
  BY <1>3, <1>4

\* A report is made of the decisions so far, or is found to be there already.
LEMMA Concluding ==
  ASSUME TypeInv, TypeInv', HistoryInv, StatusStep, NEW a \in Attempts, Conclude(a)
  PROVE  HistoryInv'
<1> DEFINE new == [upto |-> ex[a].done, last |-> ex[a].last, made |-> TRUE]
<1>t. /\ ex \in [Attempts -> Execution] /\ ex[a].done \in 0..Decisions /\ Decisions \in Nat
      /\ FitAt(ex[a].at, ex[a].out, ex[a].done) /\ ex[a].at = "reporting" /\ ex[a].out \in Outs
  BY ResearchAssumption DEF TypeInv, TypeOK, Execution, Outs, Fit, Conclude
<1>h. /\ OneHistory /\ Contiguous /\ ResultStands
      /\ (run.result.saved => report.made)
      /\ \A b \in Attempts : Remembers(ex[b]) /\ Concluded(ex[b])
  BY DEF HistoryInv
<1>u. UNCHANGED <<run, rows>>
  BY DEF Conclude
<1>1. CASE Fits(new)
  <2>1. report' = new /\ Moved(a, "saving", ex[a].out) /\ Keeps(a)
    BY <1>t, <1>1, Moves, Lists DEF Conclude
  <2>2. \A b \in Attempts : Remembers(ex[b])'
    BY <1>u, <2>1, Recalling DEF Moved
  <2>3. ex[a].out = "completed" => ex[a].done = Decisions
    BY <1>t DEF FitAt
  <2>4. Concluded(ex[a])'
    BY <2>1, <2>3 DEF Concluded, Moved
  <2>5. CASE report.made
    <3>1. UNCHANGED report
      BY <1>1, <2>1, <2>5 DEF Fits
    <3>2. \A b \in Attempts : Concluded(ex[b])'
      BY <1>h, <1>u, <2>1, <2>4, <3>1 DEF Concluded, Moved
    <3> QED
      BY <1>u, <2>2, <3>1, <3>2, Untouched
  <2>6. CASE ~report.made
    <3>1. \A b \in Attempts : Concluded(ex[b])'
      BY <1>h, <2>1, <2>4, <2>6 DEF Concluded, Moved
    <3>2. ~run.result.saved /\ run.status # "completed"
      BY <1>h, <2>6 DEF ResultStands
    <3>3. ASSUME NEW k \in Index PROVE rows[k] # NoRow <=> k <= ex[a].done
      <4>1. k <= ex[a].done => rows[k] # NoRow
        BY <1>h DEF Remembers
      <4>2. CASE ex[a].done < Decisions /\ k > ex[a].done
        <5>1. rows[ex[a].done + 1] = NoRow
          BY <1>1, <2>6, <4>2 DEF Fits
        <5>2. ex[a].done + 1 \in Index /\ (k = ex[a].done + 1 \/ ex[a].done + 1 < k)
          BY <1>t, <4>2 DEF Index
        <5> QED
          BY <1>h, <1>t, <4>2, <5>1, <5>2 DEF Contiguous, Index
      <4>3. CASE ~(ex[a].done < Decisions)
        BY <1>t, <4>1, <4>3 DEF Index
      <4> QED
        BY <1>t, <4>1, <4>2, <4>3 DEF Index
    <3>4. ex[a].last = IF ex[a].done = 0 THEN Opening ELSE rows[ex[a].done].value
      BY <1>h DEF Remembers
    <3>5. OneHistory'
      BY <1>h, <1>u, <2>1, <3>3, <3>4 DEF OneHistory
    <3> QED
      BY <1>h, <1>u, <2>2, <3>1, <3>2, <3>5 DEF HistoryInv, Contiguous, ResultStands
  <2> QED
    BY <2>5, <2>6
<1>2. CASE ~Fits(new)
  <2>1. PICK o \in {"failed", "rejected"} : Settle(a, o) /\ UNCHANGED report
    BY <1>2 DEF Conclude
  <2>2. Moved(a, "settling", o) /\ Forgets(a)
    BY <1>t, <2>1, Moves, Lists DEF Settle
  <2>3. \A b \in Attempts : Remembers(ex[b])' /\ Concluded(ex[b])'
    BY <1>h, <1>u, <2>1, <2>2, Recalling DEF Moved, Concluded
  <2> QED
    BY <1>u, <2>1, <2>3, Untouched
<1> QED
  BY <1>1, <1>2

\* A result is saved, is there already, or differs from the one that is.
LEMMA Saving ==
  ASSUME TypeInv, TypeInv', HistoryInv, NEW a \in Attempts, Save(a)
  PROVE  HistoryInv' /\ ex[a].at = "saving" /\ ex'[a].at # "saving"
<1>t. /\ ex \in [Attempts -> Execution] /\ ex[a].out \in Outs
      /\ run \in [status : RunStatus, result : Result]
  BY DEF TypeInv, TypeOK, Execution, Outs
<1>h. /\ OneHistory /\ Contiguous /\ ResultStands
      /\ (run.result.saved => report.made)
      /\ \A b \in Attempts : Remembers(ex[b]) /\ Concluded(ex[b])
  BY DEF HistoryInv
<1> DEFINE result == Digest(rows, report)
<1>1. /\ run'.status = run.status
      /\ run'.result = result \/ (run'.result = run.result /\ ex'[a].at # "completing")
  <2>1. CASE run.result \in {NoResult, result}
    BY <1>t, <2>1 DEF Save
  <2>2. CASE run.result \notin {NoResult, result}
    BY <1>t, <2>2, Moves, Lists DEF Save, Settle, Moved
  <2> QED
    BY <2>1, <2>2
<1>2. /\ ex[a].at = "saving" /\ report.made /\ UNCHANGED <<rows, report>>
      /\ (ex[a].out = "completed" => report.upto = Decisions)
  BY <1>h DEF Save, Concluded, Artifacts
<1>3. /\ \A b \in Attempts \ {a} : ex'[b] = ex[b]
      /\ Keeps(a) \/ Forgets(a)
      /\ ex'[a].at \in {"completing", "settling"}
      /\ (ex'[a].at = "completing" => ex[a].out = "completed")
  BY <1>t, Moves, Lists DEF Save, Settle, Moved
<1>4. result.saved
  BY DEF Digest
<1>5. \A b \in Attempts : Remembers(ex[b])'
  BY <1>2, <1>3, Recalling
<1>6. \A b \in Attempts : Concluded(ex[b])'
  BY <1>h, <1>1, <1>2, <1>3, <1>4 DEF Concluded
<1>7. (run.result.saved => run.result = Digest(rows, report))'
  BY <1>h, <1>1, <1>2 DEF ResultStands, Digest
<1>8. (run.status = "completed" => run.result.saved /\ report.upto = Decisions)'
  BY <1>h, <1>1, <1>2, <1>4 DEF ResultStands
<1>9. OneHistory' /\ Contiguous' /\ report'.made
  BY <1>h, <1>2 DEF OneHistory, Contiguous
<1> QED
  BY <1>2, <1>3, <1>5, <1>6, <1>7, <1>8, <1>9 DEF HistoryInv, ResultStands

LEMMA HistoryStep == TypeInv /\ HistoryInv /\ [Next]_vars => HistoryInv'
<1> SUFFICES ASSUME TypeInv, HistoryInv, [Next]_vars PROVE HistoryInv'
  OBVIOUS
<1>t. TypeInv' /\ StatusStep
  BY TypeStep, StatusSteps
<1>h. \A b \in Attempts : Remembers(ex[b]) /\ Concluded(ex[b])
  BY DEF HistoryInv
<1>1. ASSUME NEW a \in Attempts, Execute(a) \/ Disturb(a) PROVE HistoryInv'
  <2>p. Progress(a) /\ Leads(a)
    BY <1>1, ExecMoves, ExecLeads
  <2>1. CASE Append(a)
    <3>1. CASE Settle(a, "failed") /\ UNCHANGED <<rows, late>>
      <4>1. /\ ex \in [Attempts -> Execution] /\ "failed" \in Outs /\ "settling" \in Stages
        BY Lists DEF TypeInv, TypeOK
      <4>2. Moved(a, "settling", "failed") /\ Forgets(a) /\ UNCHANGED <<run, report>>
        BY <2>1, <3>1, <4>1, Moves, Appending DEF Settle
      <4>3. \A b \in Attempts : Remembers(ex[b])' /\ Concluded(ex[b])'
        BY <1>t, <1>h, <3>1, <4>2, Recalling DEF Moved, Concluded
      <4> QED
        BY <1>t, <3>1, <4>2, <4>3, Untouched
    <3>2. CASE \E content \in Upcoming(ex[a]) : Adds(a, content)
      BY <1>t, <2>1, <3>2, Appending, Adding
    <3> QED
      BY <2>1, <3>1, <3>2, Appending
  <2>2. CASE Conclude(a)
    BY <1>t, <2>2, Concluding
  <2>3. CASE Save(a)
    BY <1>t, <2>3, Saving
  <2>4. CASE ~Append(a) /\ ~Conclude(a) /\ ~Save(a)
    <3>1. UNCHANGED <<rows, report>>
      BY <1>1, <2>4, ExecFrame
    <3>2. run'.result = run.result
      <4>1. ASSUME NEW b \in Attempts, Save(b) PROVE FALSE
        BY <1>t, <2>4, <2>p, <4>1, Saving DEF Progress
      <4> QED
        BY <1>t, <4>1 DEF StatusStep
    <3>3. \A b \in Attempts : Remembers(ex[b])'
      BY <1>t, <2>4, <2>p, <3>1, Recalling DEF Progress
    <3>4. Concluded(ex[a])'
      <4>1. CASE Warn(a)
        BY <1>h, <3>1, <3>2, <4>1, Warning DEF Moved, Concluded
      <4> QED
        BY <2>4, <2>p, <4>1 DEF Leads, Concluded
    <3>5. \A b \in Attempts : Concluded(ex[b])'
      BY <1>h, <2>p, <3>1, <3>2, <3>4 DEF Progress, Concluded
    <3> QED
      BY <1>t, <3>1, <3>2, <3>3, <3>5, Untouched
  <2> QED
    BY <2>1, <2>2, <2>3, <2>4
<1>2. CASE Maintain \/ Recover \/ UNCHANGED vars
  <2>1. UNCHANGED <<rows, report, ex>>
    BY <1>2, RowFrame DEF vars
  <2>2. run'.result = run.result
    <3>1. ASSUME NEW b \in Attempts, Save(b) PROVE FALSE
      BY <1>t, <2>1, <3>1, Saving
    <3> QED
      BY <1>t, <3>1 DEF StatusStep
  <2>3. \A b \in Attempts : Remembers(ex[b])' /\ Concluded(ex[b])'
    BY <1>h, <2>1, <2>2 DEF Remembers, Concluded
  <2> QED
    BY <1>t, <2>1, <2>2, <2>3, Untouched
<1>3. ASSUME NEW a \in Attempts, Claim(a) PROVE HistoryInv'
  <2>1. Moved(a, "claimed", ex[a].out) /\ Keeps(a) /\ UNCHANGED <<run, rows, report>>
    BY <1>3, Claiming DEF Claim, Artifacts
  <2>2. \A b \in Attempts : Remembers(ex[b])' /\ Concluded(ex[b])'
    BY <1>t, <1>h, <2>1, Recalling DEF Moved, Concluded
  <2> QED
    BY <1>t, <2>1, <2>2, Untouched
<1> QED
  BY <1>1, <1>2, <1>3 DEF Next

LEMMA HistoryInit == Init => HistoryInv
<1> SUFFICES ASSUME Init PROVE HistoryInv
  OBVIOUS
<1>1. /\ \A k \in Index : rows[k] = NoRow
      /\ ~report.made /\ ~run.result.saved /\ run.status = "queued"
  BY DEF Init, NoReport, NoResult
<1>2. \A a \in Attempts : /\ ex[a].at = "none" /\ ex[a].done = 0 /\ ex[a].last = Opening
                          /\ \A k \in Index : ex[a].seeds[k] = NoRow
  BY DEF Init, Fresh
<1>3. OneHistory /\ Contiguous /\ ResultStands
  BY <1>1 DEF OneHistory, Contiguous, ResultStands
<1>4. \A k \in Index : ~(k <= 0)
  BY DEF Index
<1> QED
  BY <1>1, <1>2, <1>3, <1>4 DEF HistoryInv, Remembers, Concluded

LEMMA Histories == Spec => [](TypeInv /\ HistoryInv)
<1>1. Init => TypeInv /\ HistoryInv
  BY TypeInit, HistoryInit
<1>2. TypeInv /\ HistoryInv /\ [Next]_vars => TypeInv' /\ HistoryInv'
  BY TypeStep, HistoryStep
<1> QED
  BY <1>1, <1>2, PTL DEF Spec

\* However many attempts append decisions they resumed or made anew, the rows are one
\* history that the report ends (append_artifacts compares checksums and sequence numbers).
THEOREM HistoryHolds == Spec => []OneHistory
<1>1. HistoryInv => OneHistory
  BY DEF HistoryInv
<1> QED
  BY <1>1, Histories, PTL

\* The result stays the digest of all the artifacts, and a completed run has one
\* (save_result is followed by no artifact, and only _execute_strategy completes).
THEOREM ResultHolds == Spec => []ResultStands
<1>1. HistoryInv => ResultStands
  BY DEF HistoryInv
<1> QED
  BY <1>1, Histories, PTL

-----------------------------------------------------------------------------
(* The statuses of the run and of its job. *)

\* Only an attempt whose run is completed reports a success.
SucceededInv ==
  /\ \A a \in Attempts : ex[a].out = "succeeded" => run.status = "completed"
  /\ SuccessIsComplete

\* An attempt that added a decision to the cancelled run will not come to add another.
LateInv ==
  \A a \in Attempts :
    late[a] = 0 \/ (late[a] = 1 /\ run.status = "cancelled" /\ ex[a].at # "appending")

\* A RUNNING run is in some execution's hands, or was left so by one that was cut off.
OwnedInv ==
  run.status = "running" => dropped # {} \/ \E a \in Attempts : ex[a].at \in Held

\* As long as the job was never taken from a living attempt, only the job's attempt lives;
\* it has the run, will look for a RUNNING one, or was cut off.
AloneInv ==
  /\ run.status = "running" => job.attempt \in Attempts
  /\ ~taken =>
       /\ \A a \in Attempts : ex[a].at \in Alive => a = job.attempt /\ job.status \in Claimed
       /\ run.status = "running" =>
            job.attempt \in dropped \/ ex[job.attempt].at \in Arriving \cup Held

LEMMA Lives ==
  /\ Alive = Stages \ {"none", "over"} /\ Arriving \cup Held \subseteq Alive
  /\ "claimed" \in Arriving /\ "over" \notin Alive /\ "none" \notin Alive
BY DEF Stages, Alive, Before, Arriving, Held, Owning, Settling

LEMMA SucceededStep == TypeInv /\ SucceededInv /\ [Next]_vars => SucceededInv'
<1> SUFFICES ASSUME TypeInv, SucceededInv, [Next]_vars PROVE SucceededInv'
  OBVIOUS
<1>t. StatusStep /\ JobStep
  BY StatusSteps, JobSteps
<1>c. run.status = "completed" => run'.status = "completed"
  BY <1>t DEF StatusStep
<1>1. ASSUME NEW a \in Attempts, ex'[a].out = "succeeded" PROVE run'.status = "completed"
  <2>1. ASSUME NEW b \in Attempts, Execute(b) \/ Disturb(b) PROVE run'.status = "completed"
    BY <1>c, <1>1, <2>1, ExecMoves, ExecLeads DEF SucceededInv, Progress, Leads
  <2>2. ASSUME NEW b \in Attempts, Claim(b) PROVE run'.status = "completed"
    BY <1>c, <1>1, <2>2, Claiming DEF SucceededInv, Moved
  <2>3. CASE Maintain \/ Recover \/ UNCHANGED vars
    BY <1>c, <1>1, <2>3, RowFrame DEF SucceededInv, vars
  <2> QED
    BY <2>1, <2>2, <2>3 DEF Next
<1>2. SuccessIsComplete'
  BY <1>t, <1>c DEF SucceededInv, SuccessIsComplete, JobStep
<1> QED
  BY <1>1, <1>2 DEF SucceededInv

LEMMA LateStep == TypeInv /\ LateInv /\ [Next]_vars => LateInv'
<1> SUFFICES ASSUME TypeInv, LateInv, [Next]_vars, NEW b \in Attempts
             PROVE  late'[b] = 0
                    \/ (late'[b] = 1 /\ run'.status = "cancelled" /\ ex'[b].at # "appending")
  BY DEF LateInv
<1>t. /\ run.status = "cancelled" => run'.status = "cancelled"
      /\ late \in [Attempts -> Nat]
  BY StatusSteps DEF StatusStep, TypeInv, TypeOK
<1>b. late[b] = 0 \/ (late[b] = 1 /\ run.status = "cancelled" /\ ex[b].at # "appending")
  BY DEF LateInv
<1>1. ASSUME NEW a \in Attempts, Execute(a) \/ Disturb(a)
      PROVE  late'[b] = 0
             \/ (late'[b] = 1 /\ run'.status = "cancelled" /\ ex'[b].at # "appending")
  <2>p. Progress(a) /\ Leads(a)
    BY <1>1, ExecMoves, ExecLeads
  <2>1. CASE UNCHANGED late
    <3>1. run.status = "cancelled" /\ ex[b].at # "appending" => ex'[b].at # "appending"
      BY <2>p DEF Progress, Leads
    <3> QED
      BY <1>t, <1>b, <2>1, <3>1
  <2>2. CASE Append(a) /\ ~UNCHANGED late
    <3>1. PICK content \in Upcoming(ex[a]) : Adds(a, content)
      BY <2>2, Appending
    <3>2. /\ late' = [late EXCEPT ![a] = @ + 1] /\ run.status = "cancelled"
          /\ ex'[a].at = "checking" /\ ex[a].at = "appending"
      BY <2>2, <3>1 DEF Adds, Moved, Append
    <3>3. CASE b = a
      BY <1>t, <1>b, <3>2, <3>3
    <3>4. CASE b # a
      BY <1>t, <1>b, <2>p, <3>2, <3>4 DEF Progress
    <3> QED
      BY <3>3, <3>4
  <2> QED
    BY <1>1, <2>1, <2>2, ExecFrame
<1>2. ASSUME NEW a \in Attempts, Claim(a)
      PROVE  late'[b] = 0
             \/ (late'[b] = 1 /\ run'.status = "cancelled" /\ ex'[b].at # "appending")
  BY <1>t, <1>b, <1>2, Claiming DEF Moved, Claim, History
<1>3. CASE Maintain \/ Recover \/ UNCHANGED vars
  BY <1>t, <1>b, <1>3, RowFrame DEF vars
<1> QED
  BY <1>1, <1>2, <1>3 DEF Next

\* Who is alive, and what a row's owner may do to it, in the steps that touch no execution.
LEMMA RowKeeps ==
  ASSUME TypeInv, Maintain \/ Recover \/ UNCHANGED vars
  PROVE  /\ UNCHANGED <<ex, dropped>>
         /\ run'.status = "running" => run.status = "running"
         /\ job'.attempt = job.attempt
         /\ ~taken' => ~taken /\ (Living /\ job.status \in Claimed => job'.status \in Claimed)
<1>1. UNCHANGED <<ex, dropped>>
  BY RowFrame DEF vars
<1>2. run'.status = "running" => run.status = "running"
  <2>1. CancelRun => run'.status = "cancelled"
    BY Becoming DEF CancelRun, RunStatus
  <2>2. MarkStale => UNCHANGED run \/ run'.status = "interrupted"
    BY Becoming DEF MarkStale, RunStatus
  <2> QED
    BY <2>1, <2>2, RowFrame DEF vars
<1>3. job'.attempt = job.attempt
  <2>1. ~(\E a \in Attempts : Claim(a))
    BY <1>1, Claiming DEF Moved
  <2> QED
    BY <2>1, JobSteps DEF JobStep, Next
<1>4. ~taken' => ~taken /\ (Living /\ job.status \in Claimed => job'.status \in Claimed)
  <2>t. /\ job \in [status : JobStatus, attempt : 0..MaxAttempts, fresh : BOOLEAN]
        /\ taken \in BOOLEAN /\ {"running", "cancel_requested"} \subseteq JobStatus
    BY DEF TypeInv, TypeOK, JobStatus, Claimed
  <2>1. CASE Expire
    BY <2>t, <2>1 DEF Expire
  <2>2. CASE Reclaim \/ KillZombie
    BY <2>t, <2>2 DEF Reclaim, KillZombie
  <2>3. CASE Requeue
    BY <2>t, <2>3 DEF Requeue, Waiting, Claimed
  <2>4. CASE CancelJob \/ CancelRun
    <3>1. ~taken' => ~taken
      BY <2>t, <2>4 DEF CancelJob, CancelRun
    <3>2. job.status = "running" => job'.status = "cancel_requested"
      BY <2>t, <2>4 DEF CancelJob, CancelRun, CancelledJob
    <3>3. job.status = "cancel_requested" => job'.status = job.status
      BY <2>t, <2>4 DEF CancelJob, CancelRun, CancelledJob
    <3> QED
      BY <3>1, <3>2, <3>3 DEF Claimed
  <2>5. CASE UNCHANGED <<job, taken>>
    BY <2>5
  <2> QED
    BY <2>1, <2>2, <2>3, <2>4, <2>5, RowFrame DEF Maintain, vars
<1> QED
  BY <1>1, <1>2, <1>3, <1>4

LEMMA OwnedStep == TypeInv /\ OwnedInv /\ [Next]_vars => OwnedInv'
<1> SUFFICES ASSUME TypeInv, OwnedInv, [Next]_vars, run'.status = "running", dropped' = {}
             PROVE  \E a \in Attempts : ex'[a].at \in Held
  BY DEF OwnedInv, Held
<1>1. ASSUME NEW a \in Attempts, Execute(a) \/ Disturb(a)
      PROVE  \E b \in Attempts : ex'[b].at \in Held
  <2>1. Progress(a) /\ Leads(a) /\ dropped = {}
    BY <1>1, ExecMoves, ExecLeads, ExecFrame
  <2>2. CASE run.status = "running"
    BY <2>1, <2>2 DEF OwnedInv, Progress, Leads
  <2>3. CASE run.status # "running"
    BY <2>1, <2>3 DEF Leads
  <2> QED
    BY <2>2, <2>3
<1>2. ASSUME NEW a \in Attempts, Claim(a) PROVE \E b \in Attempts : ex'[b].at \in Held
  <2>1. UNCHANGED <<run, dropped>> /\ ex[a].at \notin Held /\ Moved(a, "claimed", ex[a].out)
    BY <1>2, Claiming DEF Claim, History, Held, Owning, Settling
  <2> QED
    BY <2>1 DEF OwnedInv, Moved
<1>3. CASE Maintain \/ Recover \/ UNCHANGED vars
  BY <1>3, RowKeeps DEF OwnedInv
<1> QED
  BY <1>1, <1>2, <1>3 DEF Next

LEMMA AloneStep == TypeInv /\ AloneInv /\ [Next]_vars => AloneInv'
<1> SUFFICES ASSUME TypeInv, AloneInv, [Next]_vars PROVE AloneInv'
  OBVIOUS
<1>t. /\ \A a \in Attempts : ex[a].at = "none" <=> a > job.attempt
      /\ job \in [status : JobStatus, attempt : 0..MaxAttempts, fresh : BOOLEAN]
      /\ MaxAttempts \in Nat /\ \A a \in Attempts : ex[a] \in Execution
      /\ \A a \in Attempts : ex'[a] \in Execution
  BY TypeStep, ResearchAssumption DEF TypeInv, TypeOK
<1>1. ASSUME NEW a \in Attempts, Execute(a) \/ Disturb(a) PROVE AloneInv'
  <2>1. /\ Progress(a) /\ Leads(a) /\ UNCHANGED taken
        /\ UNCHANGED job \/ Finalize(a)
        /\ UNCHANGED dropped \/ dropped' = dropped \cup {a}
    BY <1>1, ExecMoves, ExecLeads, ExecFrame
  <2>2. ex[a].at \in Alive /\ a <= job.attempt /\ job.attempt \in Attempts
    BY <1>t, <2>1, Lives DEF Progress, Execution, Attempts
  <2>3. job'.attempt = job.attempt
    BY <1>t, <2>1 DEF Finalize
  <2>4. ASSUME ~taken
        PROVE  /\ \A b \in Attempts : ex'[b].at \in Alive =>
                                        b = job'.attempt /\ job'.status \in Claimed
               /\ run'.status = "running" =>
                    job'.attempt \in dropped' \/ ex'[job'.attempt].at \in Arriving \cup Held
    <3>1. /\ \A b \in Attempts : ex[b].at \in Alive => b = job.attempt /\ job.status \in Claimed
          /\ run.status = "running" =>
               job.attempt \in dropped \/ ex[job.attempt].at \in Arriving \cup Held
      BY <2>4 DEF AloneInv
    <3>2. a = job.attempt
      BY <2>2, <3>1
    <3>3. ASSUME NEW b \in Attempts, ex'[b].at \in Alive
          PROVE  b = job'.attempt /\ job'.status \in Claimed
      <4>1. b = a
        BY <2>1, <3>1, <3>2, <3>3 DEF Progress
      <4>2. ~Finalize(a)
        <5>1. Finalize(a) => ex'[a].at = "over"
          <6>1. /\ ex \in [Attempts -> Execution]
                /\ "over" \in Stages /\ "none" \in Outs
            BY Lists DEF TypeInv, TypeOK
          <6> QED
            BY <6>1, Moves DEF Finalize, Moved
        <5> QED
          BY <3>3, <4>1, <5>1, Lives
      <4> QED
        BY <2>1, <2>2, <3>1, <3>2, <4>1, <4>2
    <3>4. ASSUME run'.status = "running"
          PROVE  job'.attempt \in dropped' \/ ex'[job'.attempt].at \in Arriving \cup Held
      BY <2>1, <2>3, <3>1, <3>2, <3>4 DEF Leads
    <3> QED
      BY <3>3, <3>4
  <2> QED
    BY <2>1, <2>2, <2>3, <2>4 DEF AloneInv
<1>2. ASSUME NEW a \in Attempts, Claim(a) PROVE AloneInv'
  <2>1. /\ UNCHANGED <<run, taken>> /\ Moved(a, "claimed", ex[a].out)
        /\ job'.attempt = a /\ job'.status = "running" /\ job.status = "queued"
    BY <1>2, Claiming DEF Claim, History
  <2>2. ASSUME ~taken, NEW b \in Attempts, ex'[b].at \in Alive PROVE b = a
    BY <2>1, <2>2 DEF AloneInv, Moved, Claimed
  <2> QED
    BY <2>1, <2>2, Lives DEF AloneInv, Moved, Claimed
<1>3. CASE Maintain \/ Recover \/ UNCHANGED vars
  <2>1. /\ UNCHANGED <<ex, dropped>> /\ job'.attempt = job.attempt
        /\ run'.status = "running" => run.status = "running"
        /\ ~taken' => ~taken /\ (Living /\ job.status \in Claimed => job'.status \in Claimed)
    BY <1>3, RowKeeps
  <2>2. (\E a \in Attempts : ex[a].at \in Alive) => Living
    BY DEF Living
  <2> QED
    BY <2>1, <2>2 DEF AloneInv
<1> QED
  BY <1>1, <1>2, <1>3 DEF Next

StatusInv == SucceededInv /\ LateInv /\ OwnedInv /\ AloneInv

LEMMA StatusInit == Init => StatusInv
<1> SUFFICES ASSUME Init PROVE StatusInv
  OBVIOUS
<1>1. /\ run.status = "queued" /\ job.status = "queued"
      /\ \A a \in Attempts : ex[a].at = "none" /\ ex[a].out = "none" /\ late[a] = 0
  BY DEF Init, Fresh
<1> QED
  BY <1>1, Lives
  DEF StatusInv, SucceededInv, SuccessIsComplete, LateInv, OwnedInv, AloneInv

LEMMA Statuses == Spec => []StatusInv
<1>1. Init => TypeInv /\ StatusInv
  BY TypeInit, StatusInit
<1>2. TypeInv /\ StatusInv /\ [Next]_vars => TypeInv' /\ StatusInv'
  BY TypeStep, SucceededStep, LateStep, OwnedStep, AloneStep DEF StatusInv
<1> QED
  BY <1>1, <1>2, PTL DEF Spec

\* A job that succeeded has a completed run: an attempt reports the status it read or wrote
\* under the lock, and no one changes a completed run (_record_to_result, _TRANSITIONS).
THEOREM SuccessHolds == Spec => []SuccessIsComplete
<1>1. StatusInv => SuccessIsComplete
  BY DEF StatusInv, SucceededInv
<1> QED
  BY <1>1, Statuses, PTL

\* The status is read before each decision is persisted, so that a cancelled run gets one
\* more from each attempt at the most (_check_status of the coordinator's loop).
THEOREM CancelHolds == Spec => []CancelStops
<1>1. StatusInv => CancelStops
  BY DEF StatusInv, LateInv, CancelStops
<1> QED
  BY <1>1, Statuses, PTL

\* A run that stays RUNNING behind a settled job was left so by an attempt that was cut off:
\* the last one when attempts never overlapped, as it would have found the run RUNNING
\* (_converge_stale_running).
THEOREM StrandedByDrop == Spec => []NoneStranded
<1>1. StatusInv => NoneStranded
  <2> SUFFICES ASSUME StatusInv, ~Living, run.status = "running"
               PROVE  IF taken THEN dropped # {} ELSE job.attempt \in dropped
    BY DEF NoneStranded
  <2>1. \A a \in Attempts : ex[a].at \notin Arriving \cup Held
    BY Lives DEF Living
  <2>2. job.attempt \in Attempts
    BY DEF StatusInv, AloneInv
  <2>3. CASE taken
    BY <2>1, <2>3 DEF StatusInv, OwnedInv
  <2>4. CASE ~taken
    BY <2>1, <2>2, <2>4 DEF StatusInv, AloneInv
  <2> QED
    BY <2>3, <2>4
<1> QED
  BY <1>1, Statuses, PTL
=============================================================================
