--------------------------- MODULE OosValidation ---------------------------
(***************************************************************************)
(* finboard's out-of-sample validation of a research experiment: the rows   *)
(* of research_experiments and research_trials, the executions of its       *)
(* validation_experiment jobs (ValidationExperimentExecutor driving a       *)
(* ValidationRunner), and the MCP tools that write the same rows.           *)
(*                                                                          *)
(* An execution reads both tables, works on its copies through awaits that  *)
(* take minutes, and writes the whole experiment back at each commit; so do *)
(* the tools, over a shorter time.  Nothing locks the rows or compares them *)
(* with what was read.  Backtests are a choice of their outcome: a trial's  *)
(* rank stands for its in-sample Sharpe ratio, 0 when it failed or missed   *)
(* the gate.                                                                *)
(***************************************************************************)
EXTENDS Naturals, FiniteSets

CONSTANTS Runs,        \* executions of jobs for the experiment
          Agents,      \* callers of the MCP tools
          Candidates,  \* points of the parameter grid
          Budget,      \* plan.trial_budget
          TopRank,     \* bound on ranks
          MaxBegins,   \* bound on executions begun
          MaxManual    \* bound on trials the agents register

ASSUME OosAssumption ==
  /\ Runs \cap Agents = {}
  /\ Candidates \in Nat \ {0} /\ Budget \in Nat \ {0} /\ TopRank \in Nat
  /\ MaxBegins \in Nat /\ MaxManual \in Nat

VARIABLES exp,     \* the experiment's row
          trials,  \* its trial rows, by trial_index
          run,     \* per execution: what it holds in memory
          asked,   \* per agent: the tool call in progress and the row it read
          begun, manual,  \* counted against the bounds
          behind,  \* for properties: holders of a copy older than the rows
          seen     \* for properties: what happened to the rows

vars == <<exp, trials, run, asked, begun, manual, behind, seen>>

Status   == {"hypothesis", "in_sample", "validated_oos", "rejected"}
Runnable == {"hypothesis", "in_sample"}
Settled  == {"validated_oos", "rejected"}
Index    == 0..(Budget + MaxManual)
NoRow    == [status |-> "none"]
Idle     == [at |-> "idle"]

Experiment == [status : Status, used : 0..Budget, unsealed : BOOLEAN]

\* The runner names a trial by its index, an agent's trial has a name of its own.
Trial == [by : {"runner", "agent"}, status : {"candidate", "selected", "rejected"},
          rank : 0..TopRank, oos : BOOLEAN]
Memory == [at : {"planned", "saving", "hopeless", "walking", "sealed", "tested"},
           exp : Experiment, trials : [Index -> Trial \cup {NoRow}],
           unsaved : SUBSET Index, best : Index]
Request == [at : {"reject", "add"}, exp : Experiment]

Rows(table)   == {i \in Index : table[i] # NoRow}
Chosen(table) == {i \in Rows(table) : table[i].status = "selected" /\ table[i].by = "runner"}
Holders       == {r \in Runs : run[r] # Idle} \cup {a \in Agents : asked[a] # Idle}

TypeOK ==
  /\ exp \in Experiment \cup {NoRow}
  /\ trials \in [Index -> Trial \cup {NoRow}]
  /\ run \in [Runs -> Memory \cup {Idle}]
  /\ asked \in [Agents -> Request \cup {Idle}]
  /\ begun \in 0..MaxBegins /\ manual \in 0..MaxManual
  /\ behind \subseteq Holders
  /\ seen \in [stale : BOOLEAN, halved : BOOLEAN, finals : Nat]
  /\ exp # NoRow /\ exp.status = "validated_oos" => exp.unsealed

Init ==
  /\ exp = [status |-> "hypothesis", used |-> 0, unsealed |-> FALSE]
  /\ trials = [i \in Index |-> NoRow]
  /\ run = [r \in Runs |-> Idle] /\ asked = [a \in Agents |-> Idle]
  /\ begun = 0 /\ manual = 0
  /\ behind = {} /\ seen = [stale |-> FALSE, halved |-> FALSE, finals |-> 0]
-----------------------------------------------------------------------------
(* Reading and writing the rows. *)

\* Holder h commits: every other copy is older than the rows from now on.
Commits(h) == behind' = behind \cup (Holders \ {h})

\* The same in its last commit, after which it holds no copy.
CommitsLast(h) == behind' = Holders \ {h}

\* Holder h writes its copy over the experiment's row, or inserts it again.
SaveExp(h, copy) ==
  /\ exp' = copy
  /\ seen' = [seen EXCEPT !.stale = @ \/ h \in behind]

\* ResearchTrialRepository.save by a runner: the row of that name is updated; a new one
\* needs its index free and its experiment there.
CanSave(i, row) == IF trials[i] # NoRow THEN trials[i].by = "runner" ELSE row # NoRow
Leaves(r)       == run' = [run EXCEPT ![r] = Idle]
-----------------------------------------------------------------------------
(* An execution. *)

\* How many candidates it plans: _candidates cuts the grid at the budget.
Planned == IF Candidates < Budget THEN Candidates ELSE Budget

\* How many candidates are pending, and how many of them the budget lets run.
Pending(have)      == IF have < Planned THEN Planned - have ELSE 0
Afforded(n, used)  == IF n < Budget - used THEN n ELSE Budget - used

\* Mutant: candidates are skipped by one more than there are rows.
NewTrialsSkipOne(have, used) ==
  {i \in Index : have < i /\ i < have + Afforded(Pending(have), used)}

\* The trials run_in_sample adds: the candidates after as many as there are rows, as
\* long as the budget lasts.
NewTrials(have, used) ==
  {i \in Index : have <= i /\ i < have + Afforded(Pending(have), used)}

\* max() over the trials in index order: the first of the best.
IsBest(table, i) ==
  /\ i \in Chosen(table)
  /\ \A j \in Chosen(table) : \/ table[j].rank < table[i].rank
                              \/ table[j].rank = table[i].rank /\ i <= j

\* _precheck_runnable.
MayRun == exp # NoRow /\ exp.status \in Runnable /\ ~exp.unsealed

\* The rows are read; then every pending candidate is backtested before any is saved.
Begin(r) ==
  /\ run[r] = Idle /\ MayRun
  /\ begun < MaxBegins /\ begun' = begun + 1
  /\ LET have == Cardinality(Rows(trials))
         new  == NewTrials(have, exp.used)
     IN \E rank \in [new -> 0..TopRank], best \in Index :
          LET table == [i \in Index |-> IF i \in new
                          THEN [by |-> "runner", rank |-> rank[i], oos |-> FALSE,
                                status |-> IF rank[i] > 0 THEN "selected" ELSE "rejected"]
                          ELSE trials[i]]
              hope  == Chosen(table) # {}
          IN /\ IF hope THEN IsBest(table, best) ELSE best = 0
             /\ run' = [run EXCEPT ![r] =
                  [at |-> IF new # {} THEN "planned" ELSE IF hope THEN "walking" ELSE "hopeless",
                   exp |-> [exp EXCEPT !.status = IF Pending(have) > 0 THEN "in_sample" ELSE @,
                                       !.used = @ + Cardinality(new)],
                   trials |-> table, unsaved |-> new, best |-> best]]
  /\ UNCHANGED <<exp, trials, asked, manual, behind, seen>>

\* One trial and the experiment, which counts all of them already, are committed.
SaveTrial(r) ==
  /\ run[r].at \in {"planned", "saving"}
  /\ \E i \in run[r].unsaved :
       /\ \A j \in run[r].unsaved : i <= j
       /\ CanSave(i, exp)
       /\ trials' = [trials EXCEPT ![i] = run[r].trials[i]]
       /\ run' = [run EXCEPT ![r].unsaved = @ \ {i},
                             ![r].at = IF run[r].unsaved # {i} THEN "saving"
                                       ELSE IF Chosen(run[r].trials) # {} THEN "walking"
                                       ELSE "hopeless"]
  /\ SaveExp(r, run[r].exp) /\ Commits(r)
  /\ UNCHANGED <<asked, begun, manual>>

\* No trial passed the in-sample gate.
GiveUp(r) ==
  /\ run[r].at = "hopeless"
  /\ SaveExp(r, [run[r].exp EXCEPT !.status = "rejected"]) /\ CommitsLast(r)
  /\ Leaves(r)
  /\ UNCHANGED <<trials, asked, begun, manual>>

\* run_walk_forward: the best trial passes its windows, fails them, or has none, in
\* which case it is rejected in the saved row and not in memory.
WalkForward(r, result) ==
  /\ run[r].at = "walking"
  /\ LET i   == run[r].best
         row == [run[r].trials[i] EXCEPT !.status = IF result = "passes" THEN @ ELSE "rejected",
                                         !.oos = @ \/ result # "no windows"]
     IN /\ CanSave(i, exp)
        /\ trials' = [trials EXCEPT ![i] = row]
        /\ run' = [run EXCEPT ![r].at = "sealed",
                              ![r].trials[i] = IF result = "no windows" THEN @ ELSE row]
  /\ Commits(r)
  /\ UNCHANGED <<exp, asked, begun, manual, seen>>

\* unseal_final_test: marked in memory, then the frozen test set is used.
FinalTest(r, passes) ==
  /\ run[r].at = "sealed"
  /\ run[r].exp.status = "in_sample" /\ ~run[r].exp.unsealed
  /\ run' = [run EXCEPT ![r].at = "tested", ![r].exp.unsealed = TRUE,
                        ![r].exp.status = IF passes THEN "validated_oos" ELSE "rejected"]
  /\ UNCHANGED <<exp, trials, asked, begun, manual, behind, seen>>

\* Mutant: the best trial is committed and the verdict is not.
PublishTrialOnly(r) ==
  /\ run[r].at = "tested"
  /\ CanSave(run[r].best, exp)
  /\ trials' = [trials EXCEPT ![run[r].best] = run[r].trials[run[r].best]]
  /\ seen' = [seen EXCEPT !.stale = @ \/ r \in behind, !.finals = @ + 1]
  /\ CommitsLast(r) /\ Leaves(r)
  /\ UNCHANGED <<exp, asked, begun, manual>>

\* The verdict and the best trial are committed.
Publish(r) ==
  /\ run[r].at = "tested"
  /\ CanSave(run[r].best, run[r].exp)
  /\ exp' = run[r].exp
  /\ trials' = [trials EXCEPT ![run[r].best] = run[r].trials[run[r].best]]
  /\ seen' = [seen EXCEPT !.stale = @ \/ r \in behind, !.finals = @ + 1]
  /\ CommitsLast(r) /\ Leaves(r)
  /\ UNCHANGED <<asked, begun, manual>>

\* The execution ends early: an exception, a cancellation, its process.
Stop(r) ==
  /\ run[r] # Idle
  /\ Leaves(r) /\ behind' = behind \ {r}
  /\ seen' = [seen EXCEPT !.halved = @ \/ run[r].at = "saving"]
  /\ UNCHANGED <<exp, trials, asked, begun, manual>>
-----------------------------------------------------------------------------
(* The MCP tools. *)

\* Mutant: only the rejected status is looked at.
MayRejectValidated(copy) == copy.status # "rejected"

\* The guards of validation_experiment_reject and of transition_status; a rejected
\* experiment is rejected again without a change.
MayReject(copy) == copy.status \in Runnable

\* can_run_trial.
MayAdd(copy) == copy.status \in Runnable /\ copy.used < Budget

\* A tool reads the experiment and passes its guards.
Ask(a, tool) ==
  /\ asked[a] = Idle /\ exp # NoRow
  /\ CASE tool = "reject" -> MayReject(exp)
       [] tool = "add"    -> MayAdd(exp) /\ manual < MaxManual
  /\ asked' = [asked EXCEPT ![a] = [at |-> tool, exp |-> exp]]
  /\ UNCHANGED <<exp, trials, run, begun, manual, behind, seen>>

\* The call is over.
Answer(a) == asked' = [asked EXCEPT ![a] = Idle]

\* validation_experiment_reject commits.
Reject(a) ==
  /\ asked[a].at = "reject"
  /\ SaveExp(a, [asked[a].exp EXCEPT !.status = "rejected"]) /\ CommitsLast(a)
  /\ Answer(a)
  /\ UNCHANGED <<trials, run, begun, manual>>

\* Mutant: the trial is not counted.
AddTrialUncounted(a) ==
  LET i == Cardinality(Rows(trials)) IN
  /\ asked[a].at = "add" /\ manual < MaxManual
  /\ exp # NoRow /\ trials[i] = NoRow
  /\ trials' = [trials EXCEPT ![i] =
       [by |-> "agent", status |-> "candidate", rank |-> 0, oos |-> FALSE]]
  /\ SaveExp(a, asked[a].exp) /\ CommitsLast(a)
  /\ manual' = manual + 1
  /\ Answer(a)
  /\ UNCHANGED <<run, begun>>

\* validation_experiment_add_trial lists the rows and commits a trial at the index after
\* them, if that is free, with the count of the row it had read.
AddTrial(a) ==
  LET i == Cardinality(Rows(trials)) IN
  /\ asked[a].at = "add" /\ manual < MaxManual
  /\ exp # NoRow /\ trials[i] = NoRow
  /\ trials' = [trials EXCEPT ![i] =
       [by |-> "agent", status |-> "candidate", rank |-> 0, oos |-> FALSE]]
  /\ SaveExp(a, [asked[a].exp EXCEPT !.used = @ + 1]) /\ CommitsLast(a)
  /\ manual' = manual + 1
  /\ Answer(a)
  /\ UNCHANGED <<run, begun>>

\* The call fails and its transaction is rolled back.
Abandon(a) ==
  /\ asked[a] # Idle
  /\ Answer(a) /\ behind' = behind \ {a}
  /\ UNCHANGED <<exp, trials, run, begun, manual, seen>>

\* validation_experiment_delete: the trial rows go with the experiment's.
Delete ==
  /\ exp # NoRow
  /\ exp' = NoRow /\ trials' = [i \in Index |-> NoRow]
  /\ behind' = Holders
  /\ UNCHANGED <<run, asked, begun, manual, seen>>
-----------------------------------------------------------------------------
Next ==
  \/ \E r \in Runs :
       \/ Begin(r) \/ SaveTrial(r) \/ GiveUp(r) \/ Publish(r) \/ Stop(r)
       \/ \E result \in {"passes", "fails", "no windows"} : WalkForward(r, result)
       \/ \E passes \in BOOLEAN : FinalTest(r, passes)
  \/ \E a \in Agents :
       \/ \E tool \in {"reject", "add"} : Ask(a, tool)
       \/ Reject(a) \/ AddTrial(a) \/ Abandon(a)
  \/ Delete

Spec == Init /\ [][Next]_vars
-----------------------------------------------------------------------------
(* Properties. *)

\* As long as nobody writes a copy older than the rows, every trial row is counted in
\* trials_used, whichever of the executor and add_trial wrote it, and the count stays
\* within the budget; nothing is counted twice unless an execution stopped, or still is,
\* between its first and its last trial's commit: the first one counts them all already.
TrialsCounted ==
  exp # NoRow /\ ~seen.stale =>
    /\ Cardinality(Rows(trials)) <= exp.used /\ exp.used <= Budget
    /\ seen.halved \/ (\E r \in Runs : run[r].at = "saving")
         \/ exp.used = Cardinality(Rows(trials))

\* A verdict on the frozen test set is published once, however often the job runs, stops
\* and is enqueued again and however its executions overlap, unless one wrote an old copy.
FinalTestOnce == ~seen.stale => seen.finals <= 1

\* An unsealed experiment has a row for every candidate it planned: resuming skipped none,
\* with the same exception for an execution that stopped half way, and unless an agent's
\* trial took a candidate's place.
AllTried ==
  /\ exp # NoRow /\ exp.unsealed /\ manual = 0 /\ ~seen.halved /\ ~seen.stale
  /\ \A r \in Runs : run[r].at # "saving"
  => Cardinality(Rows(trials)) = Planned

\* A settled experiment is never changed but by its deletion: no step of a late execution
\* or tool call, unless it writes a copy older than the rows, reopens or reverses it.
VerdictStands ==
  [][exp # NoRow /\ exp.status \in Settled /\ ~seen'.stale => exp' \in {exp, NoRow}]_vars

=============================================================================
