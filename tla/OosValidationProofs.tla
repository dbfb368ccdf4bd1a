------------------------ MODULE OosValidationProofs -------------------------
(***************************************************************************)
(* Theorems about OosValidation, for any number of executions, agents and   *)
(* candidates and any budget: its types, that a verdict stands, that one    *)
(* verdict on the frozen test set is published, and that every trial is     *)
(* counted and none skipped.                                                *)
(*                                                                          *)
(* The argument: once the experiment is settled or gone nobody takes a copy *)
(* of it any more, and everybody who holds one is behind; so whoever writes *)
(* then writes an old copy.  Before that, the rows are a prefix of the      *)
(* indices, and who is not behind saves the next of them.                   *)
(***************************************************************************)
EXTENDS OosValidation, FiniteSetTheorems, TLAPS

\* The experiment is over: settled, or deleted.
Over == exp = NoRow \/ exp.status \in Settled

\* What the holders' copies are: runnable when they were read, and settled by the final
\* test only.
CopiesFit ==
  /\ \A r \in Runs : run[r] # Idle =>
       IF run[r].at = "tested" THEN run[r].exp.unsealed /\ run[r].exp.status \in Settled
       ELSE run[r].exp.status \in Runnable
  /\ \A a \in Agents : asked[a] # Idle =>
       /\ asked[a].exp.status \in Runnable
       /\ asked[a].at = "add" => asked[a].exp.used < Budget

\* An execution that has a best trial, or will have when its trials are saved, holds it.
BestThere == \A r \in Runs :
  /\ run[r] # Idle /\ run[r].at # "hopeless"
  /\ run[r].at \in {"planned", "saving"} => Chosen(run[r].trials) # {}
  => run[r].trials[run[r].best] \in Trial

\* Nobody holds a current copy of an experiment that is over.
AllBehind == Over /\ ~seen.stale => Holders \subseteq behind

\* A published verdict leaves the experiment over.
Published == ~seen.stale => seen.finals <= 1 /\ (~Over => seen.finals = 0)

OosInv == TypeOK /\ CopiesFit /\ BestThere /\ AllBehind /\ Published
-----------------------------------------------------------------------------
\* The pending trials a runner adds are within the budget that is left.
LEMMA NewTrialsFit ==
  ASSUME NEW have \in Nat, NEW used \in 0..Budget
  PROVE  /\ NewTrials(have, used) \subseteq Index
         /\ Cardinality(NewTrials(have, used)) \in Nat
         /\ used + Cardinality(NewTrials(have, used)) \in 0..Budget
<1> DEFINE n    == Afforded(Pending(have), used)
           some == have..(have + n - 1)
           new  == NewTrials(have, used)
<1>1. Candidates \in Nat /\ Budget \in Nat
  BY OosAssumption
<1>2. n \in Nat /\ n <= Budget - used
  BY <1>1 DEF Afforded, Pending, Planned
<1>3. new \subseteq some
  BY <1>2 DEF NewTrials, Index
<1> HIDE DEF n
<1>4. IsFiniteSet(some) /\ Cardinality(some) = n
  <2>1. have \in Int /\ have + n - 1 \in Int
    BY <1>2
  <2>2. /\ IsFiniteSet(some)
        /\ Cardinality(some) = IF have > have + n - 1 THEN 0 ELSE (have + n - 1) - have + 1
    BY <2>1, FS_Interval, Zenon
  <2>3. QED
    BY <1>2, <2>2
<1>5. IsFiniteSet(new) /\ Cardinality(new) <= n
  BY <1>3, <1>4, FS_Subset, Zenon
<1>6. Cardinality(new) \in Nat
  BY <1>5, FS_CardinalityType
<1>7. new \subseteq Index
  BY DEF NewTrials
<1> HIDE DEF new
<1>8. used + Cardinality(new) \in 0..Budget
  BY <1>1, <1>2, <1>5, <1>6
<1>9. QED
  BY <1>6, <1>7, <1>8 DEF new

\* The rows are finitely many.
LEMMA RowsFinite ==
  ASSUME NEW table
  PROVE  Cardinality(Rows(table)) \in Nat
<1>1. Budget + MaxManual \in Nat
  BY OosAssumption
<1>2. IsFiniteSet(Index)
  BY <1>1, FS_Interval DEF Index
<1>3. Rows(table) \subseteq Index
  BY DEF Rows
<1>4. QED
  BY <1>2, <1>3, FS_Subset, FS_CardinalityType, Zenon

\* Initially.
LEMMA InitInv == Init => OosInv
<1> SUFFICES ASSUME Init PROVE OosInv
  OBVIOUS
<1>1. Budget \in Nat /\ MaxManual \in Nat /\ MaxBegins \in Nat
  BY OosAssumption
<1>2. TypeOK
  BY <1>1 DEF Init, TypeOK, Experiment, Status, Holders
<1>3. CopiesFit /\ BestThere
  BY DEF Init, CopiesFit, BestThere
<1>4. AllBehind /\ Published
  BY DEF Init, AllBehind, Published, Over, Holders, Settled, NoRow
<1>5. QED
  BY <1>2, <1>3, <1>4 DEF OosInv
-----------------------------------------------------------------------------
\* Facts every step of the induction starts from.
LEMMA Setting ==
  ASSUME OosInv
  PROVE  /\ exp \in Experiment \cup {NoRow}
         /\ trials \in [Index -> Trial \cup {NoRow}]
         /\ run \in [Runs -> Memory \cup {Idle}]
         /\ asked \in [Agents -> Request \cup {Idle}]
         /\ begun \in 0..MaxBegins /\ manual \in 0..MaxManual
         /\ behind \subseteq Holders
         /\ seen \in [stale : BOOLEAN, halved : BOOLEAN, finals : Nat]
         /\ exp # NoRow /\ exp.status = "validated_oos" => exp.unsealed
         /\ Budget \in Nat /\ MaxBegins \in Nat /\ MaxManual \in Nat
         /\ Runs \cap Agents = {}
  BY OosAssumption DEF OosInv, TypeOK

\* An execution at work has a memory.
LEMMA AtWork ==
  ASSUME OosInv, NEW r \in Runs, run[r] # Idle
  PROVE  run[r] \in Memory /\ r \in Holders
  BY Setting DEF Holders

\* A tool call in progress has a request.
LEMMA Asking ==
  ASSUME OosInv, NEW a \in Agents, asked[a] # Idle
  PROVE  asked[a] \in Request /\ a \in Holders
  BY Setting DEF Holders

\* A copy written by somebody who is not behind goes over a runnable experiment.
LEMMA CurrentWriter ==
  ASSUME OosInv, NEW h \in Holders, ~(seen.stale \/ h \in behind)
  PROVE  ~Over /\ exp \in Experiment /\ seen.finals = 0
<1>1. ~Over
  BY DEF OosInv, AllBehind
<1>2. QED
  BY <1>1, Setting DEF Over, OosInv, Published

\* What saving the experiment does to the flags.
LEMMA SaveMarks ==
  ASSUME OosInv, NEW h, NEW copy, SaveExp(h, copy)
  PROVE  /\ exp' = copy
         /\ seen' \in [stale : BOOLEAN, halved : BOOLEAN, finals : Nat]
         /\ seen'.stale = (seen.stale \/ h \in behind)
         /\ seen'.finals = seen.finals
  BY Setting DEF SaveExp

\* Runnable and settled exclude each other, and neither is the missing row.
LEMMA Phases ==
  ASSUME NEW copy \in Experiment
  PROVE  /\ copy # NoRow
         /\ copy.status \in Runnable => copy.status \notin Settled
         /\ copy.status = "rejected" => copy.status \in Settled
  BY DEF Experiment, NoRow, Status, Runnable, Settled

\* A rejected copy is a copy.
LEMMA RejectedCopy ==
  ASSUME NEW copy \in Experiment
  PROVE  [copy EXCEPT !.status = "rejected"] \in Experiment
         /\ [copy EXCEPT !.status = "rejected"].status = "rejected"
  BY DEF Experiment, Status

\* What Begin gives an execution: the memory of a runnable experiment, whose trials are
\* the rows and the new ones, all of them counted.
Begun(r, m) ==
  LET have == Cardinality(Rows(trials))
      new  == NewTrials(have, exp.used)
  IN /\ m \in Memory /\ m # Idle
     /\ m.at = "planned" <=> new # {}
     /\ m.at \in {"planned", "walking", "hopeless"}
     /\ m.exp.status \in Runnable /\ ~m.exp.unsealed
     /\ m.exp.used = exp.used + Cardinality(new)
     /\ m.unsaved = new
     /\ Rows(m.trials) = Rows(trials) \cup new
     /\ m.at # "hopeless" /\ (m.at = "planned" => Chosen(m.trials) # {})
          => m.trials[m.best] \in Trial
     /\ run' = [run EXCEPT ![r] = m]

LEMMA BeginEffect == ASSUME OosInv, NEW r \in Runs, Begin(r) PROVE \E m : Begun(r, m)
<1> DEFINE have == Cardinality(Rows(trials))
           new  == NewTrials(have, exp.used)
<1>1. exp \in Experiment /\ exp # NoRow /\ exp.status \in Runnable /\ ~exp.unsealed
  BY Setting DEF Begin, MayRun
<1>2. have \in Nat /\ exp.used \in 0..Budget
  BY <1>1, RowsFinite DEF Experiment
<1>3. new \subseteq Index /\ Cardinality(new) \in Nat /\ exp.used + Cardinality(new) \in 0..Budget
  BY <1>2, NewTrialsFit
<1>4. PICK rank \in [new -> 0..TopRank], best \in Index :
        LET table == [i \in Index |-> IF i \in new
                        THEN [by |-> "runner", rank |-> rank[i], oos |-> FALSE,
                              status |-> IF rank[i] > 0 THEN "selected" ELSE "rejected"]
                        ELSE trials[i]]
            hope  == Chosen(table) # {}
        IN /\ IF hope THEN IsBest(table, best) ELSE best = 0
           /\ run' = [run EXCEPT ![r] =
             [at |-> IF new # {} THEN "planned" ELSE IF hope THEN "walking" ELSE "hopeless",
              exp |-> [exp EXCEPT !.status = IF Pending(have) > 0 THEN "in_sample" ELSE @,
                                  !.used = @ + Cardinality(new)],
              trials |-> table, unsaved |-> new, best |-> best]]
  BY DEF Begin
<1> DEFINE table == [i \in Index |-> IF i \in new
                      THEN [by |-> "runner", rank |-> rank[i], oos |-> FALSE,
                            status |-> IF rank[i] > 0 THEN "selected" ELSE "rejected"]
                      ELSE trials[i]]
           at    == IF new # {} THEN "planned"
                    ELSE IF Chosen(table) # {} THEN "walking" ELSE "hopeless"
           count == exp.used + Cardinality(new)
           phase == IF Pending(have) > 0 THEN "in_sample" ELSE exp.status
           copy  == [exp EXCEPT !.status = phase, !.used = count]
<1>5. table \in [Index -> Trial \cup {NoRow}]
  BY Setting DEF Trial
<1>6. at \in {"planned", "walking", "hopeless"}
  OBVIOUS
<1>7. phase \in Runnable
  BY <1>1 DEF Runnable
<1>8. run' = [run EXCEPT ![r] = [at |-> at, exp |-> copy, trials |-> table,
                                 unsaved |-> new, best |-> best]]
  BY <1>4
<1>8a. Chosen(table) # {} => table[best] \in Trial
  <2>1. Chosen(table) # {} => IsBest(table, best)
    BY <1>4
  <2>2. best \in Chosen(table) => table[best] # NoRow /\ best \in Index
    BY DEF Chosen, Rows
  <2>3. QED
    BY <1>5, <2>1, <2>2 DEF IsBest
<1>8b. at = "walking" => Chosen(table) # {}
  OBVIOUS
<1> HIDE DEF table, at, new, have, phase
<1>9. copy \in Experiment /\ copy.status = phase
  <2>1. count \in 0..Budget
    BY <1>3
  <2> HIDE DEF count
  <2>2. QED
    BY <1>1, <1>7, <2>1 DEF Experiment, Runnable, Status
<1>9a. copy.unsealed = FALSE /\ copy.used = count
  <2>1. count \in 0..Budget
    BY <1>3
  <2> HIDE DEF count
  <2>2. QED
    BY <1>1 DEF Experiment
<1> HIDE DEF copy, count
<1>9b. Rows(table) = Rows(trials) \cup new
  BY <1>3 DEF Rows, table, NoRow
<1> DEFINE m == [at |-> at, exp |-> copy, trials |-> table, unsaved |-> new, best |-> best]
<1>10. m \in Memory /\ m # Idle /\ m.exp.status \in Runnable
  BY <1>3, <1>5, <1>6, <1>7, <1>9 DEF Memory, Idle
<1>11. run' = [run EXCEPT ![r] = m]
  BY <1>8
<1>12. /\ m.at = at /\ m.exp = copy /\ m.trials = table /\ m.unsaved = new /\ m.best = best
  OBVIOUS
<1> HIDE DEF m
<1>13. m.at # "hopeless" /\ (m.at = "planned" => Chosen(m.trials) # {})
         => m.trials[m.best] \in Trial
  BY <1>6, <1>8a, <1>8b, <1>12
<1>14. m.at = "planned" <=> new # {}
  BY <1>12 DEF at
<1>15. Begun(r, m)
  BY <1>6, <1>9a, <1>9b, <1>10, <1>11, <1>12, <1>13, <1>14 DEF Begun, new, have, count
<1>16. QED
  BY <1>15

\* Begin keeps the invariant: it reads an experiment that is not over.
LEMMA BeginInv == ASSUME OosInv, NEW r \in Runs, Begin(r) PROVE OosInv'
<1>1. exp \in Experiment /\ exp # NoRow /\ exp.status \in Runnable /\ ~exp.unsealed
  BY Setting DEF Begin, MayRun
<1>8. PICK m : Begun(r, m)
  BY BeginEffect
<1>10. m \in Memory /\ m # Idle /\ m.at # "tested" /\ m.exp.status \in Runnable
  BY <1>8 DEF Begun
<1>11. run' = [run EXCEPT ![r] = m]
  BY <1>8 DEF Begun
<1>12. /\ run' \in [Runs -> Memory \cup {Idle}] /\ run'[r] = m
       /\ \A q \in Runs \ {r} : run'[q] = run[q]
  BY <1>10, <1>11, Setting
<1>13. /\ begun' = begun + 1 /\ begun < MaxBegins
       /\ exp' = exp /\ trials' = trials /\ asked' = asked /\ manual' = manual
       /\ behind' = behind /\ seen' = seen
  BY DEF Begin
<1>14. Holders \subseteq Holders'
  BY <1>10, <1>12, <1>13 DEF Holders
<1>15. TypeOK'
  <2>1. begun' \in 0..MaxBegins
    BY <1>13, Setting
  <2>2. behind' \subseteq Holders'
    BY <1>13, <1>14, Setting
  <2>3. QED
    BY <1>12, <1>13, <2>1, <2>2, Setting DEF TypeOK
<1>16. CopiesFit'
  BY <1>10, <1>12, <1>13 DEF OosInv, CopiesFit
<1>16a. BestThere'
  <2>1. m.at # "hopeless" /\ (m.at \in {"planned", "saving"} => Chosen(m.trials) # {})
        => m.trials[m.best] \in Trial
    BY <1>8 DEF Begun
  <2>2. QED
    BY <1>12, <2>1 DEF OosInv, BestThere
<1>17. ~Over /\ ~Over'
  BY <1>1, <1>13 DEF Over, Runnable, Settled
<1>18. AllBehind' /\ Published'
  BY <1>13, <1>17 DEF OosInv, AllBehind, Published
<1>19. QED
  BY <1>15, <1>16, <1>16a, <1>18 DEF OosInv

\* SaveTrial keeps the invariant: the copy it writes is runnable.
LEMMA SaveTrialInv == ASSUME OosInv, NEW r \in Runs, SaveTrial(r) PROVE OosInv'
<1>1. run[r] # Idle
  BY DEF SaveTrial, Idle
<1>2. /\ run[r] \in Memory /\ r \in Holders
      /\ run[r].exp \in Experiment /\ run[r].at # "tested"
  BY <1>1, AtWork DEF Memory, SaveTrial
<1>3. run[r].exp.status \in Runnable
  BY <1>1, <1>2 DEF OosInv, CopiesFit
<1>4. PICK i \in run[r].unsaved :
        /\ trials' = [trials EXCEPT ![i] = run[r].trials[i]]
        /\ run' = [run EXCEPT ![r].unsaved = @ \ {i},
                              ![r].at = IF run[r].unsaved # {i} THEN "saving"
                                        ELSE IF Chosen(run[r].trials) # {} THEN "walking"
                                        ELSE "hopeless"]
  BY DEF SaveTrial
<1> DEFINE at == IF run[r].unsaved # {i} THEN "saving"
                 ELSE IF Chosen(run[r].trials) # {} THEN "walking" ELSE "hopeless"
           m  == [run[r] EXCEPT !.unsaved = @ \ {i}, !.at = at]
<1>5. at \in {"saving", "walking", "hopeless"}
  OBVIOUS
<1>6. run' = [run EXCEPT ![r] = m]
  BY <1>4
<1>5a. at = "walking" => Chosen(run[r].trials) # {}
  OBVIOUS
<1> HIDE DEF at
<1>7. /\ m \in Memory /\ m # Idle /\ m.at = at /\ m.exp = run[r].exp
      /\ m.trials = run[r].trials /\ m.best = run[r].best
  BY <1>2, <1>5 DEF Memory, Idle
<1> HIDE DEF m
<1>8. /\ run' \in [Runs -> Memory \cup {Idle}] /\ run'[r] = m
      /\ \A q \in Runs \ {r} : run'[q] = run[q]
  BY <1>6, <1>7, Setting
<1>9. trials' \in [Index -> Trial \cup {NoRow}]
  <2>1. i \in Index /\ run[r].trials[i] \in Trial \cup {NoRow}
    BY <1>2, <1>4 DEF Memory
  <2>2. QED
    BY <1>4, <2>1, Setting
<1>10. /\ asked' = asked /\ begun' = begun /\ manual' = manual
       /\ behind' = behind \cup (Holders \ {r}) /\ SaveExp(r, run[r].exp)
  BY DEF SaveTrial, Commits
<1>11. Holders' = Holders
  BY <1>1, <1>7, <1>8, <1>10 DEF Holders
<1>12. /\ exp' = run[r].exp
       /\ seen' \in [stale : BOOLEAN, halved : BOOLEAN, finals : Nat]
       /\ seen'.stale = (seen.stale \/ r \in behind)
       /\ seen'.finals = seen.finals
  BY <1>10, SaveMarks
<1>13. ~Over'
  BY <1>2, <1>3, <1>12, Phases DEF Over
<1>14. TypeOK'
  <2>1. behind' \subseteq Holders'
    BY <1>10, <1>11, Setting
  <2>2. exp' \in Experiment /\ exp'.status # "validated_oos"
    BY <1>2, <1>3, <1>12 DEF Runnable
  <2>3. QED
    BY <1>8, <1>9, <1>10, <1>12, <2>1, <2>2, Setting DEF TypeOK
<1>15. CopiesFit'
  BY <1>3, <1>5, <1>7, <1>8, <1>10 DEF OosInv, CopiesFit
<1>15a. BestThere'
  <2>1. run[r].at \in {"planned", "saving"}
    BY DEF SaveTrial
  <2>2. Chosen(run[r].trials) # {} => run[r].trials[run[r].best] \in Trial
    BY <1>1, <2>1 DEF OosInv, BestThere
  <2>3. m.at # "hopeless" /\ (m.at \in {"planned", "saving"} => Chosen(m.trials) # {})
        => m.trials[m.best] \in Trial
    BY <1>5, <1>5a, <1>7, <2>2
  <2>4. QED
    BY <1>8, <2>3 DEF OosInv, BestThere
<1>16. AllBehind'
  BY <1>13 DEF AllBehind
<1>17. Published'
  BY <1>2, <1>12, CurrentWriter DEF Published
<1>18. QED
  BY <1>14, <1>15, <1>15a, <1>16, <1>17 DEF OosInv

\* GiveUp keeps the invariant: it settles the experiment and leaves everybody else behind.
LEMMA GiveUpInv == ASSUME OosInv, NEW r \in Runs, GiveUp(r) PROVE OosInv'
<1>1. run[r] # Idle
  BY DEF GiveUp, Idle
<1>2. run[r] \in Memory /\ r \in Holders /\ run[r].exp \in Experiment
  BY <1>1, AtWork DEF Memory
<1> DEFINE copy == [run[r].exp EXCEPT !.status = "rejected"]
<1>3. copy \in Experiment /\ copy.status = "rejected"
  BY <1>2, RejectedCopy
<1>4. SaveExp(r, copy)
  BY DEF GiveUp
<1> HIDE DEF copy
<1>5. /\ exp' = copy
      /\ seen' \in [stale : BOOLEAN, halved : BOOLEAN, finals : Nat]
      /\ seen'.stale = (seen.stale \/ r \in behind)
      /\ seen'.finals = seen.finals
  BY <1>4, SaveMarks
<1>6. /\ run' = [run EXCEPT ![r] = Idle]
      /\ trials' = trials /\ asked' = asked /\ begun' = begun /\ manual' = manual
      /\ behind' = Holders \ {r}
  BY DEF GiveUp, Leaves, CommitsLast
<1>7. /\ run' \in [Runs -> Memory \cup {Idle}] /\ run'[r] = Idle
      /\ \A q \in Runs \ {r} : run'[q] = run[q]
  BY <1>6, Setting
<1>8. Holders' = Holders \ {r}
  BY <1>6, <1>7, Setting DEF Holders
<1>9. TypeOK'
  BY <1>3, <1>5, <1>6, <1>7, <1>8, Setting DEF TypeOK
<1>10. CopiesFit' /\ BestThere'
  BY <1>6, <1>7 DEF OosInv, CopiesFit, BestThere
<1>11. Over'
  BY <1>3, <1>5, Phases DEF Over
<1>12. AllBehind'
  BY <1>6, <1>8 DEF AllBehind
<1>13. Published'
  BY <1>2, <1>5, <1>11, CurrentWriter DEF Published
<1>14. QED
  BY <1>9, <1>10, <1>12, <1>13 DEF OosInv

\* WalkForward keeps the invariant: it leaves the experiment alone.
LEMMA WalkForwardInv ==
  ASSUME OosInv, NEW r \in Runs, NEW result \in {"passes", "fails", "no windows"},
         WalkForward(r, result)
  PROVE  OosInv'
<1>0. run[r].at = "walking"
  BY Zenon DEF WalkForward
<1>1. run[r] # Idle
  <2>1. Idle.at = "idle"
    BY DEF Idle
  <2>2. QED
    BY ONLY <1>0, <2>1
<1>2. /\ run[r] \in Memory /\ r \in Holders
      /\ run[r].exp \in Experiment /\ run[r].at # "tested"
  BY <1>0, <1>1, AtWork DEF Memory
<1>3. run[r].exp.status \in Runnable
  BY <1>1, <1>2 DEF OosInv, CopiesFit
<1> DEFINE i   == run[r].best
           old == run[r].trials[i]
           row == [old EXCEPT !.status = IF result = "passes" THEN @ ELSE "rejected",
                              !.oos = @ \/ result # "no windows"]
           new == IF result = "no windows" THEN old ELSE row
           held == [run[r].trials EXCEPT ![i] = new]
           m   == [run[r] EXCEPT !.at = "sealed", !.trials = held]
<1>4. i \in Index /\ run[r].trials \in [Index -> Trial \cup {NoRow}]
  BY <1>2 DEF Memory
<1>4a. old \in Trial
  BY <1>0, <1>1 DEF OosInv, BestThere
<1>4b. row \in Trial /\ new \in Trial
  BY <1>4a DEF Trial
<1>5. trials' = [trials EXCEPT ![i] = row]
  BY Zenon DEF WalkForward
<1>6. run' = [run EXCEPT ![r] = m]
  BY <1>2, Setting DEF WalkForward, Memory
<1>7. /\ exp' = exp /\ asked' = asked /\ begun' = begun /\ manual' = manual
      /\ seen' = seen /\ behind' = behind \cup (Holders \ {r})
  BY Zenon DEF WalkForward, Commits
<1> HIDE DEF old, row, new
<1>8. trials' \in [Index -> Trial \cup {NoRow}]
  BY <1>4, <1>4b, <1>5, Setting
<1>9. held \in [Index -> Trial \cup {NoRow}] /\ held[i] \in Trial
  BY <1>4, <1>4b
<1> HIDE DEF held
<1>10. /\ m \in Memory /\ m # Idle /\ m.at = "sealed" /\ m.exp = run[r].exp
       /\ m.trials = held /\ m.best = i
  BY <1>2, <1>9 DEF Memory, Idle
<1> HIDE DEF m, i
<1>11. /\ run' \in [Runs -> Memory \cup {Idle}] /\ run'[r] = m
       /\ \A q \in Runs \ {r} : run'[q] = run[q]
  BY <1>6, <1>10, Setting
<1>12. Holders' = Holders
  BY <1>1, <1>7, <1>10, <1>11 DEF Holders
<1>13. TypeOK'
  <2>1. behind' \subseteq Holders'
    BY <1>7, <1>12, Setting
  <2>2. QED
    BY <1>7, <1>8, <1>11, <2>1, Setting DEF TypeOK
<1>14. CopiesFit'
  BY <1>3, <1>7, <1>10, <1>11 DEF OosInv, CopiesFit
<1>15. BestThere'
  BY <1>9, <1>10, <1>11 DEF OosInv, BestThere
<1>16. AllBehind'
  BY <1>7, <1>12 DEF OosInv, AllBehind, Over
<1>17. Published'
  BY <1>7 DEF OosInv, Published, Over
<1>18. QED
  BY <1>13, <1>14, <1>15, <1>16, <1>17 DEF OosInv

\* FinalTest keeps the invariant: only the copy in memory is marked and settled.
LEMMA FinalTestInv ==
  ASSUME OosInv, NEW r \in Runs, NEW passes \in BOOLEAN, FinalTest(r, passes)
  PROVE  OosInv'
<1>0. run[r].at = "sealed"
  BY DEF FinalTest
<1>1. run[r] # Idle
  BY <1>0 DEF Idle
<1>2. run[r] \in Memory /\ r \in Holders /\ run[r].exp \in Experiment
  BY <1>1, AtWork DEF Memory
<1> DEFINE end  == IF passes THEN "validated_oos" ELSE "rejected"
           copy == [run[r].exp EXCEPT !.unsealed = TRUE, !.status = end]
           m    == [run[r] EXCEPT !.at = "tested", !.exp = copy]
<1>3. copy \in Experiment /\ copy.unsealed /\ copy.status \in Settled
  BY <1>2 DEF Experiment, Status, Settled
<1>4. run' = [run EXCEPT ![r] = m]
  BY <1>2, Setting DEF FinalTest, Memory, Experiment
<1> HIDE DEF copy
<1>5. /\ m \in Memory /\ m # Idle /\ m.at = "tested" /\ m.exp = copy
      /\ m.trials = run[r].trials /\ m.best = run[r].best
  BY <1>2, <1>3 DEF Memory, Idle
<1> HIDE DEF m
<1>6. /\ run' \in [Runs -> Memory \cup {Idle}] /\ run'[r] = m
      /\ \A q \in Runs \ {r} : run'[q] = run[q]
  BY <1>4, <1>5, Setting
<1>7. /\ exp' = exp /\ trials' = trials /\ asked' = asked /\ begun' = begun
      /\ manual' = manual /\ behind' = behind /\ seen' = seen
  BY DEF FinalTest
<1>8. Holders' = Holders
  BY <1>1, <1>5, <1>6, <1>7 DEF Holders
<1>9. TypeOK'
  <2>1. behind' \subseteq Holders'
    BY <1>7, <1>8, Setting
  <2>2. QED
    BY <1>6, <1>7, <2>1, Setting DEF TypeOK
<1>10. CopiesFit'
  BY <1>3, <1>5, <1>6, <1>7 DEF OosInv, CopiesFit
<1>11. BestThere'
  <2>1. run[r].trials[run[r].best] \in Trial
    BY <1>0, <1>1 DEF OosInv, BestThere
  <2>2. QED
    BY <1>5, <1>6, <2>1 DEF OosInv, BestThere
<1>12. AllBehind' /\ Published'
  BY <1>7, <1>8 DEF OosInv, AllBehind, Published, Over
<1>13. QED
  BY <1>9, <1>10, <1>11, <1>12 DEF OosInv

\* Publish keeps the invariant: a current publisher finds no verdict, and after it the
\* experiment is settled and everybody else behind.
LEMMA PublishInv == ASSUME OosInv, NEW r \in Runs, Publish(r) PROVE OosInv'
<1>0. run[r].at = "tested"
  BY DEF Publish
<1>1. run[r] # Idle
  BY <1>0 DEF Idle
<1>2. /\ run[r] \in Memory /\ r \in Holders /\ run[r].exp \in Experiment
      /\ run[r].best \in Index /\ run[r].trials[run[r].best] \in Trial \cup {NoRow}
  BY <1>1, AtWork DEF Memory
<1>3. run[r].exp.unsealed /\ run[r].exp.status \in Settled
  BY <1>0, <1>1 DEF OosInv, CopiesFit
<1>4. /\ run' = [run EXCEPT ![r] = Idle]
      /\ exp' = run[r].exp
      /\ trials' = [trials EXCEPT ![run[r].best] = run[r].trials[run[r].best]]
      /\ seen' = [seen EXCEPT !.stale = @ \/ r \in behind, !.finals = @ + 1]
      /\ asked' = asked /\ begun' = begun /\ manual' = manual
      /\ behind' = Holders \ {r}
  BY DEF Publish, Leaves, CommitsLast
<1>5. trials' \in [Index -> Trial \cup {NoRow}]
  BY <1>2, <1>4, Setting
<1>6. /\ run' \in [Runs -> Memory \cup {Idle}] /\ run'[r] = Idle
      /\ \A q \in Runs \ {r} : run'[q] = run[q]
  BY <1>4, Setting
<1>7. Holders' = Holders \ {r}
  BY <1>4, <1>6, Setting DEF Holders
<1>8. /\ seen' \in [stale : BOOLEAN, halved : BOOLEAN, finals : Nat]
      /\ seen'.stale = (seen.stale \/ r \in behind)
      /\ seen'.finals = seen.finals + 1
  <2> DEFINE stale == seen.stale \/ r \in behind
             count == seen.finals + 1
  <2>1. seen \in [stale : BOOLEAN, halved : BOOLEAN, finals : Nat]
    BY Setting
  <2>2. stale \in BOOLEAN /\ count \in Nat
    BY <2>1
  <2>3. seen' = [seen EXCEPT !.stale = stale, !.finals = count]
    BY <1>4
  <2> HIDE DEF stale, count
  <2>4. /\ seen' \in [stale : BOOLEAN, halved : BOOLEAN, finals : Nat]
        /\ seen'.stale = stale /\ seen'.finals = count
    BY <2>1, <2>2, <2>3
  <2>5. QED
    BY <2>4 DEF stale, count
<1>9. TypeOK'
  BY <1>2, <1>3, <1>4, <1>5, <1>6, <1>7, <1>8, Setting DEF TypeOK
<1>10. CopiesFit' /\ BestThere'
  BY <1>4, <1>6 DEF OosInv, CopiesFit, BestThere
<1>11. Over'
  BY <1>3, <1>4 DEF Over
<1>12. AllBehind'
  BY <1>4, <1>7 DEF AllBehind
<1>13. Published'
  BY <1>2, <1>8, <1>11, CurrentWriter DEF Published
<1>14. QED
  BY <1>9, <1>10, <1>12, <1>13 DEF OosInv

\* Stop keeps the invariant: it forgets a copy.
LEMMA StopInv == ASSUME OosInv, NEW r \in Runs, Stop(r) PROVE OosInv'
<1>1. /\ run' = [run EXCEPT ![r] = Idle]
      /\ exp' = exp /\ trials' = trials /\ asked' = asked
      /\ begun' = begun /\ manual' = manual /\ behind' = behind \ {r}
  BY DEF Stop, Leaves
<1>2. /\ seen' \in [stale : BOOLEAN, halved : BOOLEAN, finals : Nat]
      /\ seen'.stale = seen.stale /\ seen'.finals = seen.finals
  BY Setting DEF Stop
<1>3. /\ run' \in [Runs -> Memory \cup {Idle}] /\ run'[r] = Idle
      /\ \A q \in Runs \ {r} : run'[q] = run[q]
  BY <1>1, Setting
<1>4. Holders' = Holders \ {r}
  BY <1>1, <1>3, Setting DEF Holders
<1>5. TypeOK'
  BY <1>1, <1>2, <1>3, <1>4, Setting DEF TypeOK
<1>6. CopiesFit' /\ BestThere'
  BY <1>1, <1>3 DEF OosInv, CopiesFit, BestThere
<1>7. AllBehind' /\ Published'
  BY <1>1, <1>2, <1>4 DEF OosInv, AllBehind, Published, Over
<1>8. QED
  BY <1>5, <1>6, <1>7 DEF OosInv

\* Ask keeps the invariant: it reads an experiment that is not over.
LEMMA AskInv ==
  ASSUME OosInv, NEW a \in Agents, NEW tool \in {"reject", "add"}, Ask(a, tool)
  PROVE  OosInv'
<1>1. /\ exp # NoRow /\ asked' = [asked EXCEPT ![a] = [at |-> tool, exp |-> exp]]
      /\ exp' = exp /\ trials' = trials /\ run' = run /\ begun' = begun
      /\ manual' = manual /\ behind' = behind /\ seen' = seen
  BY DEF Ask
<1>2. exp.status \in Runnable /\ (tool = "add" => exp.used < Budget)
  <2>1. CASE tool = "reject"
    BY <2>1 DEF Ask, MayReject
  <2>2. CASE tool = "add"
    BY <2>2 DEF Ask, MayAdd
  <2>3. QED
    BY <2>1, <2>2
<1> DEFINE q == [at |-> tool, exp |-> exp]
<1>3. q \in Request /\ q # Idle /\ q.at = tool /\ q.exp = exp
  BY <1>1, Setting DEF Request, Idle
<1>4. asked' = [asked EXCEPT ![a] = q]
  BY <1>1
<1> HIDE DEF q
<1>5. /\ asked' \in [Agents -> Request \cup {Idle}] /\ asked'[a] = q
      /\ \A b \in Agents \ {a} : asked'[b] = asked[b]
  BY <1>3, <1>4, Setting
<1>6. Holders \subseteq Holders'
  BY <1>1, <1>3, <1>5 DEF Holders
<1>7. TypeOK'
  <2>1. behind' \subseteq Holders'
    BY <1>1, <1>6, Setting
  <2>2. QED
    BY <1>1, <1>5, <2>1, Setting DEF TypeOK
<1>8. CopiesFit'
  BY <1>1, <1>2, <1>3, <1>5 DEF OosInv, CopiesFit
<1>9. BestThere'
  BY <1>1 DEF OosInv, BestThere
<1>10. ~Over'
  BY <1>1, <1>2 DEF Over, Runnable, Settled
<1>11. AllBehind' /\ Published'
  BY <1>1, <1>10 DEF OosInv, AllBehind, Published, Over
<1>12. QED
  BY <1>7, <1>8, <1>9, <1>11 DEF OosInv

\* What the end of a tool call does to the holders.
LEMMA AnswerEffect ==
  ASSUME OosInv, NEW a \in Agents, Answer(a), run' = run
  PROVE  /\ asked' \in [Agents -> Request \cup {Idle}] /\ asked'[a] = Idle
         /\ \A b \in Agents \ {a} : asked'[b] = asked[b]
         /\ Holders' = Holders \ {a}
<1>1. /\ asked' \in [Agents -> Request \cup {Idle}] /\ asked'[a] = Idle
      /\ \A b \in Agents \ {a} : asked'[b] = asked[b]
  BY Setting DEF Answer
<1>2. Holders' = Holders \ {a}
  BY <1>1, Setting DEF Holders
<1>3. QED
  BY <1>1, <1>2

\* Reject keeps the invariant: it settles the experiment and leaves everybody else behind.
LEMMA RejectInv == ASSUME OosInv, NEW a \in Agents, Reject(a) PROVE OosInv'
<1>0. asked[a].at = "reject"
  BY DEF Reject
<1>1. asked[a] # Idle
  BY <1>0 DEF Idle
<1>2. asked[a] \in Request /\ a \in Holders /\ asked[a].exp \in Experiment
  BY <1>1, Asking DEF Request
<1> DEFINE copy == [asked[a].exp EXCEPT !.status = "rejected"]
<1>3. copy \in Experiment /\ copy.status = "rejected"
  BY <1>2, RejectedCopy
<1>4. SaveExp(a, copy)
  BY DEF Reject
<1> HIDE DEF copy
<1>5. /\ exp' = copy
      /\ seen' \in [stale : BOOLEAN, halved : BOOLEAN, finals : Nat]
      /\ seen'.stale = (seen.stale \/ a \in behind)
      /\ seen'.finals = seen.finals
  BY <1>4, SaveMarks
<1>6. /\ Answer(a) /\ run' = run /\ trials' = trials
      /\ begun' = begun /\ manual' = manual /\ behind' = Holders \ {a}
  BY DEF Reject, CommitsLast
<1>7. /\ asked' \in [Agents -> Request \cup {Idle}] /\ asked'[a] = Idle
      /\ \A b \in Agents \ {a} : asked'[b] = asked[b]
      /\ Holders' = Holders \ {a}
  BY <1>6, AnswerEffect
<1>8. TypeOK'
  BY <1>3, <1>5, <1>6, <1>7, Setting DEF TypeOK
<1>9. CopiesFit' /\ BestThere'
  BY <1>6, <1>7 DEF OosInv, CopiesFit, BestThere
<1>10. Over'
  BY <1>3, <1>5, Phases DEF Over
<1>11. AllBehind'
  BY <1>6, <1>7 DEF AllBehind
<1>12. Published'
  BY <1>2, <1>5, <1>10, CurrentWriter DEF Published
<1>13. QED
  BY <1>8, <1>9, <1>11, <1>12 DEF OosInv

\* AddTrial keeps the invariant: the copy it writes is runnable and had budget left.
LEMMA AddTrialInv == ASSUME OosInv, NEW a \in Agents, AddTrial(a) PROVE OosInv'
<1> DEFINE i   == Cardinality(Rows(trials))
           row == [by |-> "agent", status |-> "candidate", rank |-> 0, oos |-> FALSE]
           copy == [asked[a].exp EXCEPT !.used = @ + 1]
<1>0. /\ asked[a].at = "add" /\ manual < MaxManual /\ manual' = manual + 1
      /\ trials' = [trials EXCEPT ![i] = row]
      /\ SaveExp(a, copy) /\ Answer(a) /\ run' = run /\ begun' = begun
      /\ behind' = Holders \ {a}
  BY DEF AddTrial, CommitsLast
<1>1. asked[a] # Idle
  BY <1>0 DEF Idle
<1>2. asked[a] \in Request /\ a \in Holders /\ asked[a].exp \in Experiment
  BY <1>1, Asking DEF Request
<1>3. asked[a].exp.status \in Runnable /\ asked[a].exp.used < Budget
  BY <1>0, <1>1 DEF OosInv, CopiesFit
<1>4. copy \in Experiment /\ copy.status = asked[a].exp.status
  <2> DEFINE count == asked[a].exp.used + 1
  <2>1. count \in 0..Budget
    BY <1>2, <1>3, Setting DEF Experiment
  <2> HIDE DEF count
  <2>2. [asked[a].exp EXCEPT !.used = count] \in Experiment
        /\ [asked[a].exp EXCEPT !.used = count].status = asked[a].exp.status
    BY <1>2, <2>1 DEF Experiment
  <2>3. QED
    BY <2>2 DEF count
<1>5. row \in Trial
  BY OosAssumption DEF Trial
<1> HIDE DEF copy, row, i
<1>6. trials' \in [Index -> Trial \cup {NoRow}]
  BY <1>0, <1>5, Setting
<1>7. /\ exp' = copy
      /\ seen' \in [stale : BOOLEAN, halved : BOOLEAN, finals : Nat]
      /\ seen'.stale = (seen.stale \/ a \in behind)
      /\ seen'.finals = seen.finals
  BY <1>0, SaveMarks
<1>8. /\ asked' \in [Agents -> Request \cup {Idle}] /\ asked'[a] = Idle
      /\ \A b \in Agents \ {a} : asked'[b] = asked[b]
      /\ Holders' = Holders \ {a}
  BY <1>0, AnswerEffect
<1>9. TypeOK'
  <2>1. manual' \in 0..MaxManual
    BY <1>0, Setting
  <2>2. exp' \in Experiment /\ exp'.status # "validated_oos"
    BY <1>3, <1>4, <1>7 DEF Runnable
  <2>3. QED
    BY <1>0, <1>6, <1>7, <1>8, <2>1, <2>2, Setting DEF TypeOK
<1>10. CopiesFit' /\ BestThere'
  BY <1>0, <1>8 DEF OosInv, CopiesFit, BestThere
<1>11. ~Over'
  BY <1>3, <1>4, <1>7, Phases DEF Over
<1>12. AllBehind'
  BY <1>11 DEF AllBehind
<1>13. Published'
  BY <1>2, <1>7, CurrentWriter DEF Published
<1>14. QED
  BY <1>9, <1>10, <1>12, <1>13 DEF OosInv

\* Abandon keeps the invariant: it forgets a copy.
LEMMA AbandonInv == ASSUME OosInv, NEW a \in Agents, Abandon(a) PROVE OosInv'
<1>1. /\ Answer(a) /\ behind' = behind \ {a} /\ exp' = exp /\ trials' = trials
      /\ run' = run /\ begun' = begun /\ manual' = manual /\ seen' = seen
  BY DEF Abandon
<1>2. /\ asked' \in [Agents -> Request \cup {Idle}] /\ asked'[a] = Idle
      /\ \A b \in Agents \ {a} : asked'[b] = asked[b]
      /\ Holders' = Holders \ {a}
  BY <1>1, AnswerEffect
<1>3. TypeOK'
  BY <1>1, <1>2, Setting DEF TypeOK
<1>4. CopiesFit' /\ BestThere'
  BY <1>1, <1>2 DEF OosInv, CopiesFit, BestThere
<1>5. AllBehind' /\ Published'
  BY <1>1, <1>2 DEF OosInv, AllBehind, Published, Over
<1>6. QED
  BY <1>3, <1>4, <1>5 DEF OosInv

\* Delete keeps the invariant: every holder is behind.
LEMMA DeleteInv == ASSUME OosInv, Delete PROVE OosInv'
<1>1. /\ exp' = NoRow /\ trials' = [i \in Index |-> NoRow] /\ behind' = Holders
      /\ run' = run /\ asked' = asked /\ begun' = begun /\ manual' = manual
      /\ seen' = seen
  BY DEF Delete
<1>2. Holders' = Holders
  BY <1>1 DEF Holders
<1>3. TypeOK'
  BY <1>1, <1>2, Setting DEF TypeOK
<1>4. CopiesFit' /\ BestThere'
  BY <1>1 DEF OosInv, CopiesFit, BestThere
<1>5. Over'
  BY <1>1 DEF Over
<1>6. AllBehind' /\ Published'
  BY <1>1, <1>2, <1>5 DEF OosInv, AllBehind, Published
<1>7. QED
  BY <1>3, <1>4, <1>6 DEF OosInv
-----------------------------------------------------------------------------
\* Every step keeps the invariant.
LEMMA StepInv == OosInv /\ [Next]_vars => OosInv'
<1> SUFFICES ASSUME OosInv, [Next]_vars PROVE OosInv'
  OBVIOUS
<1>1. ASSUME NEW r \in Runs,
             \/ Begin(r) \/ SaveTrial(r) \/ GiveUp(r) \/ Publish(r) \/ Stop(r)
             \/ \E result \in {"passes", "fails", "no windows"} : WalkForward(r, result)
             \/ \E passes \in BOOLEAN : FinalTest(r, passes)
      PROVE  OosInv'
  BY <1>1, BeginInv, SaveTrialInv, GiveUpInv, PublishInv, StopInv, WalkForwardInv,
     FinalTestInv, Zenon
<1>2. ASSUME NEW a \in Agents,
             \/ \E tool \in {"reject", "add"} : Ask(a, tool)
             \/ Reject(a) \/ AddTrial(a) \/ Abandon(a)
      PROVE  OosInv'
  BY <1>2, AskInv, RejectInv, AddTrialInv, AbandonInv, Zenon
<1>3. CASE UNCHANGED vars
  <2>1. /\ exp' = exp /\ trials' = trials /\ run' = run /\ asked' = asked
        /\ begun' = begun /\ manual' = manual /\ behind' = behind /\ seen' = seen
    BY <1>3 DEF vars
  <2>2. Holders' = Holders
    BY <2>1 DEF Holders
  <2>3. TypeOK'
    BY <2>1, <2>2, Setting DEF TypeOK
  <2>4. CopiesFit' /\ BestThere' /\ AllBehind' /\ Published'
    BY <2>1, <2>2 DEF OosInv, CopiesFit, BestThere, AllBehind, Published, Over
  <2>5. QED
    BY <2>3, <2>4 DEF OosInv
<1>4. QED
  BY <1>1, <1>2, <1>3, DeleteInv, Zenon DEF Next

\* The rows, the copies and the bounds have their types, and the strengthening holds: who
\* holds a copy of an experiment that is over is behind.
THEOREM ValidationInvariant == Spec => []OosInv
  BY InitInv, StepInv, PTL DEF Spec

\* The rows, the copies and the counters have their types; only an unsealed experiment is
\* validated and the count stays within the budget.
THEOREM Typed == Spec => []TypeOK
<1>1. OosInv => TypeOK
  BY DEF OosInv
<1>2. QED
  BY <1>1, ValidationInvariant, PTL

\* One verdict on the frozen test set is published, for any number of executions, restarts
\* and overlaps, unless an old copy was written.
THEOREM OneVerdict == Spec => []FinalTestOnce
<1>1. OosInv => FinalTestOnce
  BY DEF OosInv, Published, FinalTestOnce
<1>2. QED
  BY <1>1, ValidationInvariant, PTL

\* No step takes the mark of an old copy away.
LEMMA MarkStays == ASSUME OosInv, [Next]_vars, seen.stale PROVE seen'.stale
<1>1. ASSUME NEW h, NEW copy, SaveExp(h, copy) PROVE seen'.stale
  BY <1>1, SaveMarks
<1>2. ASSUME NEW r \in Runs, SaveTrial(r) \/ GiveUp(r) PROVE seen'.stale
  BY <1>1, <1>2 DEF SaveTrial, GiveUp
<1>3. ASSUME NEW a \in Agents, Reject(a) \/ AddTrial(a) PROVE seen'.stale
  BY <1>1, <1>3 DEF Reject, AddTrial
<1>4. ASSUME NEW r \in Runs, Publish(r) PROVE seen'.stale
  BY <1>4, Setting DEF Publish
<1>5. ASSUME NEW r \in Runs, Stop(r) PROVE seen'.stale
  BY <1>5, Setting DEF Stop
<1>6. ASSUME NEW r \in Runs,
             \/ Begin(r)
             \/ \E result \in {"passes", "fails", "no windows"} : WalkForward(r, result)
             \/ \E passes \in BOOLEAN : FinalTest(r, passes)
      PROVE  seen' = seen
  BY <1>6, Zenon DEF Begin, WalkForward, FinalTest
<1>7. ASSUME NEW a \in Agents,
             Abandon(a) \/ \E tool \in {"reject", "add"} : Ask(a, tool)
      PROVE  seen' = seen
  BY <1>7, Zenon DEF Abandon, Ask
<1>8. ASSUME Delete PROVE seen' = seen
  BY <1>8 DEF Delete
<1>9. ASSUME UNCHANGED vars PROVE seen' = seen
  BY <1>9 DEF vars
<1>10. QED
  BY <1>2, <1>3, <1>4, <1>5, <1>6, <1>7, <1>8, <1>9, Zenon DEF Next

\* A step that leaves no mark keeps an experiment that is over: all its writers are behind.
LEMMA OverKept ==
  ASSUME OosInv, [Next]_vars, Over, ~seen'.stale
  PROVE  exp' \in {exp, NoRow}
<1>1. Over
  OBVIOUS
<1>2. ASSUME NEW h \in Holders, NEW copy, SaveExp(h, copy) PROVE FALSE
  BY <1>1, <1>2, SaveMarks, CurrentWriter
<1>3. ASSUME NEW r \in Runs, run[r] # Idle PROVE r \in Holders
  BY <1>3 DEF Holders
<1>4. ASSUME NEW a \in Agents, asked[a] # Idle PROVE a \in Holders
  BY <1>4 DEF Holders
<1>5. ASSUME NEW r \in Runs, SaveTrial(r) PROVE FALSE
  BY <1>2, <1>3, <1>5 DEF SaveTrial, Idle
<1>6. ASSUME NEW r \in Runs, GiveUp(r) PROVE FALSE
  BY <1>2, <1>3, <1>6 DEF GiveUp, Idle
<1>7. ASSUME NEW r \in Runs, Publish(r) PROVE FALSE
  <2>1. r \in Holders
    BY <1>3, <1>7 DEF Publish, Idle
  <2>2. ~(seen.stale \/ r \in behind)
    BY <1>7, Setting DEF Publish
  <2>3. QED
    BY <1>1, <2>1, <2>2, CurrentWriter
<1>8. ASSUME NEW a \in Agents, Reject(a) PROVE FALSE
  BY <1>2, <1>4, <1>8 DEF Reject, Idle
<1>9. ASSUME NEW a \in Agents, AddTrial(a) PROVE FALSE
  BY <1>2, <1>4, <1>9 DEF AddTrial, Idle
<1>10. ASSUME NEW r \in Runs,
              \/ Begin(r) \/ Stop(r)
              \/ \E result \in {"passes", "fails", "no windows"} : WalkForward(r, result)
              \/ \E passes \in BOOLEAN : FinalTest(r, passes)
       PROVE  exp' = exp
  BY <1>10, Zenon DEF Begin, Stop, WalkForward, FinalTest
<1>11. ASSUME NEW a \in Agents,
              Abandon(a) \/ \E tool \in {"reject", "add"} : Ask(a, tool)
       PROVE  exp' = exp
  BY <1>11, Zenon DEF Abandon, Ask
<1>12. ASSUME Delete PROVE exp' = NoRow
  BY <1>12 DEF Delete
<1>13. ASSUME UNCHANGED vars PROVE exp' = exp
  BY <1>13 DEF vars
<1>14. QED
  BY <1>5, <1>6, <1>7, <1>8, <1>9, <1>10, <1>11, <1>12, <1>13, Zenon DEF Next

\* A settled experiment is never reopened or reversed, only deleted, unless an old copy is
\* written over it.
THEOREM VerdictKept == Spec => VerdictStands
<1>1. OosInv /\ [Next]_vars =>
        [exp # NoRow /\ exp.status \in Settled /\ ~seen'.stale => exp' \in {exp, NoRow}]_vars
  BY OverKept DEF Over
<1>2. QED
  BY <1>1, ValidationInvariant, PTL DEF Spec, VerdictStands
-----------------------------------------------------------------------------
(* The trials and their count. *)

Count       == Cardinality(Rows(trials))
Saving(r)   == run[r].at = "saving"
ToSave      == {"planned", "saving"}

\* An execution is, or was stopped, between its first and its last trial's commit; the
\* same of another execution than r.
Interrupted   == seen.halved \/ \E q \in Runs : Saving(q)
Overlapped(r) == seen.halved \/ \E q \in Runs \ {r} : Saving(q)

\* The rows have the first indices, all of them counted.
RowsCounted ==
  /\ Rows(trials) = {i \in Index : i < Count}
  /\ Count <= exp.used
  /\ Interrupted \/ exp.used = Count
  /\ manual = 0 => Count <= Planned
  /\ manual = 0 /\ exp.unsealed => Interrupted \/ Count = Planned

\* An execution's trials are rows or still to be saved, whether or not it is behind.
MemoryFits(r) ==
  /\ Rows(run[r].trials) \subseteq Rows(trials) \cup run[r].unsaved
  /\ run[r].unsaved \subseteq Rows(run[r].trials)
  /\ run[r].at \notin ToSave => run[r].unsaved = {}
  /\ run[r].at # "tested" => ~run[r].exp.unsealed

\* What an execution that is not behind still saves are the indices from the rows on, up
\* to e, which it counted already.
Ahead(r, e) ==
  /\ run[r].unsaved = {i \in Index : Count <= i /\ i < e}
  /\ e <= run[r].exp.used
  /\ Overlapped(r) \/ e = run[r].exp.used
  /\ manual = 0 => e <= Planned /\ (Overlapped(r) \/ e = Planned)

\* The count of an execution that is not behind is that of the row, but for the trials it
\* has planned and not begun to save.
Current(r) ==
  /\ run[r].at \in ToSave => \E e \in 0..Budget : Ahead(r, e)
  /\ run[r].at # "planned" => run[r].exp.used = exp.used
  /\ run[r].at \notin ToSave /\ manual = 0 => Interrupted \/ Count = Planned

Memories == \A r \in Runs : run[r] # Idle => MemoryFits(r) /\ (r \notin behind => Current(r))
Requests == \A a \in Agents \ behind : asked[a] # Idle => asked[a].exp = exp

CountInv == exp # NoRow /\ ~seen.stale => RowsCounted /\ Memories /\ Requests

\* Facts the count is argued from.
LEMMA CountSetting ==
  ASSUME OosInv, exp # NoRow
  PROVE  /\ exp \in Experiment /\ exp.used \in 0..Budget /\ exp.unsealed \in BOOLEAN
         /\ Count \in Nat /\ Budget \in Nat /\ MaxManual \in Nat /\ Candidates \in Nat
         /\ Planned \in Nat /\ Planned <= Budget
<1>1. Candidates \in Nat /\ Budget \in Nat /\ MaxManual \in Nat
  BY OosAssumption
<1>2. Planned \in Nat /\ Planned <= Budget
  BY <1>1 DEF Planned
<1>3. exp \in Experiment
  BY Setting
<1>4. QED
  BY <1>1, <1>2, <1>3, RowsFinite DEF Count, Experiment

\* An execution that stays current while the rows and the experiment stay.
LEMMA CurrentStays ==
  ASSUME NEW r, Current(r), run'[r] = run[r], exp' = exp, manual' = manual, Count' = Count,
         Overlapped(r) => Overlapped(r)', Interrupted => Interrupted'
  PROVE  Current(r)'
<1>1. ASSUME NEW e \in 0..Budget, Ahead(r, e) PROVE Ahead(r, e)'
  BY <1>1 DEF Ahead
<1>2. QED
  BY <1>1 DEF Current

\* A step that writes no row and leaves a half-saved set of trials noticed.
LEMMA QuietCount ==
  ASSUME CountInv, exp' = exp, trials' = trials, manual' = manual, seen'.stale = seen.stale,
         seen.halved => seen'.halved,
         \A q \in Runs : Saving(q) => Saving(q)' \/ seen'.halved,
         \A q \in Runs : run'[q] # Idle /\ exp # NoRow /\ ~seen.stale =>
           \/ run'[q] = run[q] /\ (q \notin behind' => q \notin behind)
           \/ MemoryFits(q)' /\ (q \notin behind' => Current(q)'),
         \A a \in Agents \ behind' : asked'[a] # Idle =>
           \/ asked'[a] = asked[a] /\ a \notin behind
           \/ asked'[a].exp = exp
  PROVE  CountInv'
<1> SUFFICES ASSUME exp # NoRow, ~seen.stale PROVE RowsCounted' /\ Memories' /\ Requests'
  BY DEF CountInv
<1>1. RowsCounted /\ Memories /\ Requests
  BY DEF CountInv
<1>2. Rows(trials)' = Rows(trials)
  BY DEF Rows
<1>3. Count' = Count
  BY <1>2 DEF Count
<1>4. Interrupted => Interrupted'
  BY DEF Interrupted
<1>5. ASSUME NEW q \in Runs PROVE Overlapped(q) => Overlapped(q)'
  BY DEF Overlapped
<1>6. RowsCounted'
  BY <1>1, <1>2, <1>3, <1>4 DEF RowsCounted
<1>7. ASSUME NEW q \in Runs, run'[q] # Idle, run'[q] = run[q]
      PROVE  MemoryFits(q)'
  BY <1>1, <1>2, <1>7 DEF Memories, MemoryFits
<1>8. ASSUME NEW q \in Runs, run'[q] # Idle, run'[q] = run[q], q \notin behind
      PROVE  Current(q)'
  BY <1>1, <1>3, <1>4, <1>5, <1>8, CurrentStays DEF Memories
<1>9. Memories'
  BY <1>7, <1>8 DEF Memories
<1>10. Requests'
  BY <1>1 DEF Requests
<1>11. QED
  BY <1>6, <1>9, <1>10

\* After a commit by h nobody else is current.
LEMMA OthersBehind ==
  ASSUME OosInv, NEW h, Holders \ {h} \subseteq behind', Holders' \subseteq Holders \cup {h}
  PROVE  /\ \A q \in Runs \ {h} : run'[q] # Idle => q \in behind'
         /\ \A a \in Agents \ {h} : asked'[a] # Idle => a \in behind'
<1>1. /\ \A q \in Runs : run'[q] # Idle => q \in Holders'
      /\ \A a \in Agents : asked'[a] # Idle => a \in Holders'
  BY DEF Holders
<1>2. QED
  BY <1>1

\* Begin plans the pending trials and counts them in memory.
LEMMA BeginCount == ASSUME OosInv, CountInv, NEW r \in Runs, Begin(r) PROVE CountInv'
<1>1. /\ exp' = exp /\ trials' = trials /\ asked' = asked /\ manual' = manual
      /\ behind' = behind /\ seen' = seen /\ run[r] = Idle /\ exp # NoRow
  BY DEF Begin, MayRun
<1>2. PICK m : Begun(r, m)
  BY BeginEffect
<1> DEFINE new == NewTrials(Count, exp.used)
           n   == Afforded(Pending(Count), exp.used)
<1>3. /\ m # Idle /\ m.at \in {"planned", "walking", "hopeless"} /\ m.unsaved = new
      /\ m.at = "planned" <=> new # {}
      /\ ~m.exp.unsealed /\ m.exp.used = exp.used + Cardinality(new)
      /\ Rows(m.trials) = Rows(trials) \cup new
      /\ run' = [run EXCEPT ![r] = m]
  BY <1>2 DEF Begun, Count
<1>4. run'[r] = m /\ \A q \in Runs \ {r} : run'[q] = run[q]
  BY <1>3, Setting
<1>5. \A q \in Runs : Saving(q)' <=> Saving(q)
  BY <1>1, <1>3, <1>4 DEF Saving, Idle
<1>6. ASSUME ~seen.stale PROVE MemoryFits(r)' /\ Current(r)'
  <2>1. RowsCounted
    BY <1>1, <1>6 DEF CountInv
  <2>2. /\ exp.used \in 0..Budget /\ Count \in Nat /\ Budget \in Nat /\ MaxManual \in Nat
        /\ Planned \in Nat /\ Planned <= Budget
    BY <1>1, CountSetting
  <2>3. Count' = Count
    BY <1>1 DEF Count, Rows
  <2>4. /\ n \in Nat /\ Count + n <= exp.used + n /\ exp.used + n <= Budget
        /\ manual = 0 => Count + n <= Planned
        /\ manual = 0 /\ exp.used = Count => Count + n = Planned
    BY <2>1, <2>2 DEF RowsCounted, Afforded, Pending
  <2>5. new = {i \in Index : Count <= i /\ i < Count + n}
    BY DEF NewTrials
  <2> HIDE DEF n
  <2>6. new = Count..(Count + n - 1)
    BY <2>2, <2>4, <2>5 DEF Index
  <2>7. Cardinality(new) = n
    <3>1. Count \in Int /\ Count + n - 1 \in Int
      BY <2>2, <2>4
    <3>2. Cardinality(Count..(Count + n - 1)) =
            IF Count > Count + n - 1 THEN 0 ELSE (Count + n - 1) - Count + 1
      BY <3>1, FS_Interval, Zenon
    <3>3. QED
      BY <2>2, <2>4, <2>6, <3>2
  <2> HIDE DEF new
  <2>8. Interrupted => Overlapped(r)' /\ Interrupted'
    BY <1>1, <1>4, <1>5 DEF Interrupted, Overlapped, Saving, Idle
  <2>9. Interrupted \/ exp.used = Count
    BY <2>1 DEF RowsCounted
  <2>10. MemoryFits(r)'
    <3>1. Rows(trials)' = Rows(trials)
      BY <1>1 DEF Rows
    <3>2. Rows(run[r].trials)' = Rows(trials) \cup new
      BY <1>3, <1>4 DEF Rows
    <3>3. QED
      BY <1>3, <1>4, <3>1, <3>2 DEF MemoryFits, ToSave
  <2>11. ASSUME NEW e \in 0..Budget, e = Count + n PROVE Ahead(r, e)'
    <3>1. run'[r].unsaved = {i \in Index : Count' <= i /\ i < e}
      BY <1>3, <1>4, <2>3, <2>5, <2>11
    <3>2. run'[r].exp.used = exp.used + n
      BY <1>3, <1>4, <2>7
    <3>3. e <= run'[r].exp.used /\ (Overlapped(r)' \/ e = run'[r].exp.used)
      BY <2>2, <2>4, <2>8, <2>9, <2>11, <3>2
    <3>4. manual' = 0 => e <= Planned /\ (Overlapped(r)' \/ e = Planned)
      BY <1>1, <2>4, <2>8, <2>9, <2>11
    <3>5. QED
      BY <3>1, <3>3, <3>4 DEF Ahead
  <2>12. Count + n \in 0..Budget
    BY <2>2, <2>4
  <2>13. n = 0 => new = {}
    BY <2>2, <2>6
  <2>14. new = {} => n = 0
    BY <2>7, FS_EmptySet
  <2>15. run'[r].at # "planned" => run'[r].exp.used = exp.used
    BY <1>3, <1>4, <2>2, <2>7, <2>14
  <2>16. run'[r].at \notin ToSave /\ manual = 0 => Interrupted' \/ Count = Planned
    BY <1>3, <1>4, <2>2, <2>4, <2>8, <2>9, <2>14 DEF ToSave
  <2>17. \E e \in 0..Budget : Ahead(r, e)'
    BY <2>11, <2>12
  <2>18. Current(r)'
    BY <1>1, <2>3, <2>15, <2>16, <2>17 DEF Current
  <2>19. QED
    BY <2>10, <2>18
<1>7. QED
  BY <1>1, <1>4, <1>5, <1>6, QuietCount DEF Requests, CountInv

\* A row is added at the end.
LEMMA RowAdded ==
  ASSUME OosInv, exp # NoRow, Rows(trials) = {i \in Index : i < Count}, Count \in Index,
         NEW row \in Trial, trials' = [trials EXCEPT ![Count] = row]
  PROVE  /\ Count' = Count + 1 /\ Rows(trials)' = Rows(trials) \cup {Count}
         /\ Rows(trials)' = {i \in Index : i < Count + 1}
<1>1. row # NoRow
  BY DEF Trial, NoRow
<1>2. trials \in [Index -> Trial \cup {NoRow}]
  BY Setting
<1>3. Rows(trials)' = Rows(trials) \cup {Count}
  BY <1>1, <1>2 DEF Rows
<1>4. Count \in Nat /\ Budget \in Nat /\ MaxManual \in Nat
  BY CountSetting
<1>5. Rows(trials)' = {i \in Index : i < Count + 1}
  <2>1. \A i \in Index : i < Count + 1 <=> i < Count \/ i = Count
    BY <1>4 DEF Index
  <2>2. QED
    BY <1>3, <2>1
<1>6. IsFiniteSet(Index)
  BY <1>4, FS_Interval DEF Index
<1>7. IsFiniteSet(Rows(trials))
  BY <1>6, FS_Subset DEF Rows
<1>8. Count \notin Rows(trials)
  BY <1>4
<1>9. Count' = Count + 1
  BY <1>3, <1>7, <1>8, FS_AddElement DEF Count
<1>10. QED
  BY <1>3, <1>5, <1>9

\* SaveTrial counts what it saves, and by its last commit everything it counted is saved.
LEMMA SaveTrialCount ==
  ASSUME OosInv, CountInv, NEW r \in Runs, SaveTrial(r)
  PROVE  CountInv'
<1> SUFFICES ASSUME ~seen'.stale PROVE CountInv'
  BY DEF CountInv
<1>1. run[r] # Idle /\ run[r].at \in ToSave
  BY DEF SaveTrial, Idle, ToSave
<1>2. run[r] \in Memory /\ r \in Holders
  BY <1>1, AtWork
<1>3. /\ SaveExp(r, run[r].exp) /\ behind' = behind \cup (Holders \ {r})
      /\ asked' = asked /\ manual' = manual /\ seen'.halved = seen.halved
  BY Setting DEF SaveTrial, Commits, SaveExp
<1>4. exp' = run[r].exp /\ ~seen.stale /\ r \notin behind
  BY <1>3, SaveMarks
<1>5. exp \in Experiment /\ exp # NoRow
  BY <1>2, <1>4, CurrentWriter, Phases
<1>6. RowsCounted /\ Memories /\ Requests
  BY <1>4, <1>5 DEF CountInv
<1>7. MemoryFits(r) /\ Current(r)
  BY <1>1, <1>4, <1>6 DEF Memories
<1>8. PICK e \in 0..Budget : Ahead(r, e)
  BY <1>1, <1>7 DEF Current
<1>9. PICK i \in run[r].unsaved :
        /\ \A j \in run[r].unsaved : i <= j
        /\ trials' = [trials EXCEPT ![i] = run[r].trials[i]]
        /\ run' = [run EXCEPT ![r].unsaved = @ \ {i},
                              ![r].at = IF run[r].unsaved # {i} THEN "saving"
                                        ELSE IF Chosen(run[r].trials) # {} THEN "walking"
                                        ELSE "hopeless"]
  BY DEF SaveTrial
<1>10. Count \in Nat /\ Budget \in Nat /\ MaxManual \in Nat
  BY <1>5, CountSetting
<1>11. i = Count /\ Count \in Index /\ Count < e
  <2>1. i \in Index /\ Count <= i /\ i < e /\ i \in Nat
    BY <1>8, <1>9, <1>10 DEF Ahead, Index
  <2>2. Count \in Index /\ Count < e
    BY <1>10, <2>1 DEF Index
  <2>3. Count \in run[r].unsaved
    BY <1>8, <1>10, <2>2 DEF Ahead
  <2>4. i <= Count
    BY <1>9, <2>3
  <2>5. QED
    BY <1>10, <2>1, <2>2, <2>4
<1>12. run[r].trials[i] \in Trial
  BY <1>2, <1>7, <1>9, <1>11 DEF Memory, MemoryFits, Rows
<1>13. /\ Count' = Count + 1 /\ Rows(trials)' = Rows(trials) \cup {Count}
       /\ Rows(trials)' = {j \in Index : j < Count + 1}
  BY <1>5, <1>6, <1>9, <1>11, <1>12, RowAdded DEF RowsCounted
<1> DEFINE at == IF run[r].unsaved # {i} THEN "saving"
                 ELSE IF Chosen(run[r].trials) # {} THEN "walking" ELSE "hopeless"
           m  == [run[r] EXCEPT !.unsaved = @ \ {i}, !.at = at]
<1>14. /\ at \in {"saving", "walking", "hopeless"}
       /\ at = "saving" <=> run[r].unsaved # {i}
  OBVIOUS
<1>15. run' = [run EXCEPT ![r] = m]
  BY <1>9
<1> HIDE DEF at
<1>16. /\ m # Idle /\ m.at = at /\ m.exp = run[r].exp /\ m.trials = run[r].trials
       /\ m.unsaved = run[r].unsaved \ {i}
  BY <1>2, <1>14 DEF Memory, Idle
<1> HIDE DEF m
<1>17. run'[r] = m /\ \A q \in Runs \ {r} : run'[q] = run[q]
  BY <1>15, Setting
<1>18. \A q \in Runs : q # r => (Saving(q)' <=> Saving(q))
  BY <1>17 DEF Saving
<1>19. Overlapped(r) => Overlapped(r)' /\ Interrupted'
  BY <1>3, <1>18 DEF Overlapped, Interrupted
<1>20. m.unsaved = {j \in Index : Count + 1 <= j /\ j < e}
  BY <1>8, <1>10, <1>11, <1>16 DEF Ahead, Index
<1>21. ASSUME at # "saving" PROVE m.unsaved = {} /\ e = Count + 1
  <2>1. m.unsaved = {}
    BY <1>14, <1>16, <1>21
  <2>2. e \in Nat /\ e <= Budget
    BY <1>10
  <2>3. ~(Count + 1 < e)
    <3>1. SUFFICES ASSUME Count + 1 < e PROVE FALSE
      OBVIOUS
    <3>2. Count + 1 \in Index
      BY <1>10, <2>2, <3>1 DEF Index
    <3>3. QED
      BY <1>10, <1>20, <2>1, <3>1, <3>2
  <2>4. QED
    BY <1>10, <1>11, <2>1, <2>2, <2>3
<1>22. /\ exp'.used = run[r].exp.used /\ exp'.used \in 0..Budget /\ ~exp'.unsealed
       /\ Count + 1 <= exp'.used /\ e <= exp'.used
  <2>1. run[r].exp.used \in 0..Budget /\ e <= run[r].exp.used
    BY <1>2, <1>8 DEF Memory, Experiment, Ahead
  <2>2. ~run[r].exp.unsealed
    BY <1>1, <1>7 DEF MemoryFits, ToSave
  <2>3. QED
    BY <1>4, <1>10, <1>11, <2>1, <2>2
<1>23. RowsCounted'
  <2>1. Interrupted' \/ exp'.used = Count + 1
    <3>1. CASE at = "saving"
      BY <1>16, <1>17, <3>1 DEF Interrupted, Saving
    <3>2. CASE at # "saving"
      BY <1>8, <1>19, <1>21, <1>22, <3>2 DEF Ahead
    <3>3. QED
      BY <3>1, <3>2
  <2>2. manual' = 0 => Count + 1 <= Planned
    BY <1>3, <1>5, <1>8, <1>10, <1>11, CountSetting DEF Ahead
  <2>3. QED
    BY <1>13, <1>22, <2>1, <2>2 DEF RowsCounted
<1>24. MemoryFits(r)'
  <2>1. Rows(run[r].trials)' = Rows(run[r].trials)
    BY <1>16, <1>17 DEF Rows
  <2>2. Rows(run[r].trials) \subseteq Rows(trials)' \cup m.unsaved
    BY <1>7, <1>11, <1>13, <1>16 DEF MemoryFits
  <2>3. m.unsaved \subseteq Rows(run[r].trials)
    BY <1>7, <1>16 DEF MemoryFits
  <2>4. m.at \notin ToSave => m.unsaved = {}
    BY <1>16, <1>21 DEF ToSave
  <2>5. ~m.exp.unsealed
    BY <1>4, <1>16, <1>22
  <2>6. QED
    BY <1>17, <2>1, <2>2, <2>3, <2>4, <2>5 DEF MemoryFits
<1>25. Current(r)'
  <2>1. Ahead(r, e)'
    <3>1. run'[r].unsaved = {j \in Index : Count' <= j /\ j < e}
      BY <1>13, <1>17, <1>20
    <3>2. run'[r].exp.used = run[r].exp.used
      BY <1>16, <1>17
    <3>3. QED
      BY <1>3, <1>8, <1>19, <3>1, <3>2 DEF Ahead
  <2>2. run'[r].exp.used = exp'.used
    BY <1>16, <1>17, <1>22
  <2>3. ASSUME at # "saving", manual = 0 PROVE Interrupted' \/ Count' = Planned
    BY <1>8, <1>13, <1>19, <1>21, <2>3 DEF Ahead
  <2>4. QED
    BY <1>3, <1>14, <1>16, <1>17, <2>1, <2>2, <2>3 DEF Current, ToSave
<1>26. Holders' \subseteq Holders
  BY <1>1, <1>2, <1>3, <1>17 DEF Holders
<1>27. /\ \A q \in Runs \ {r} : run'[q] # Idle => q \in behind'
       /\ \A a \in Agents \ {r} : asked'[a] # Idle => a \in behind'
  BY <1>3, <1>26, OthersBehind
<1>28. ASSUME NEW q \in Runs \ {r}, run'[q] # Idle PROVE MemoryFits(q)'
  <2>1. Rows(run[q].trials)' = Rows(run[q].trials) /\ MemoryFits(q)
    BY <1>6, <1>17, <1>28 DEF Rows, Memories
  <2>2. QED
    BY <1>13, <1>17, <2>1 DEF MemoryFits
<1>29. Memories'
  BY <1>24, <1>25, <1>27, <1>28 DEF Memories
<1>30. Requests'
  BY <1>2, <1>27, Setting DEF Requests
<1>31. QED
  BY <1>23, <1>29, <1>30 DEF CountInv

\* What a current holder writes last: the experiment with the count it has, after which
\* nobody is current.
LEMMA LastCount ==
  ASSUME OosInv, CountInv, NEW h \in Holders, ~seen'.stale,
         seen'.stale = (seen.stale \/ h \in behind), seen'.halved = seen.halved,
         manual' = manual, Rows(trials)' = Rows(trials), behind' = Holders \ {h},
         exp'.used = exp.used,
         manual = 0 /\ exp'.unsealed => Interrupted \/ Count = Planned,
         \A q \in Runs \ {h} : run'[q] = run[q],
         h \in Runs => run'[h] = Idle /\ ~Saving(h),
         \A a \in Agents \ {h} : asked'[a] = asked[a],
         h \in Agents => asked'[h] = Idle
  PROVE  CountInv'
<1>1. ~seen.stale /\ h \notin behind
  OBVIOUS
<1>2. exp # NoRow /\ exp \in Experiment
  BY <1>1, CurrentWriter, Phases
<1>3. RowsCounted /\ Memories /\ Requests
  BY <1>1, <1>2 DEF CountInv
<1>4. Count' = Count
  BY DEF Count
<1>5. Interrupted' <=> Interrupted
  <2>1. \A q \in Runs : Saving(q)' <=> Saving(q)
    BY DEF Saving, Idle
  <2>2. QED
    BY <2>1 DEF Interrupted
<1>6. RowsCounted'
  BY <1>3, <1>4, <1>5 DEF RowsCounted
<1>7. ASSUME NEW q \in Runs, run'[q] # Idle PROVE MemoryFits(q)' /\ q \in behind'
  <2>1. q # h /\ run'[q] = run[q]
    BY <1>7
  <2>2. q \in Holders
    BY <1>7, <2>1 DEF Holders
  <2>3. MemoryFits(q)
    BY <1>3, <1>7, <2>1 DEF Memories
  <2>4. Rows(run[q].trials)' = Rows(run[q].trials)
    BY <2>1 DEF Rows
  <2>5. QED
    BY <2>1, <2>2, <2>3, <2>4 DEF MemoryFits
<1>8. ASSUME NEW a \in Agents, asked'[a] # Idle PROVE a \in behind'
  <2>1. a # h /\ asked'[a] = asked[a]
    BY <1>8
  <2>2. QED
    BY <1>8, <2>1 DEF Holders
<1>9. Memories' /\ Requests'
  BY <1>7, <1>8 DEF Memories, Requests
<1>10. QED
  BY <1>6, <1>9 DEF CountInv

\* GiveUp writes the count it has.
LEMMA GiveUpCount ==
  ASSUME OosInv, CountInv, NEW r \in Runs, GiveUp(r)
  PROVE  CountInv'
<1> SUFFICES ASSUME ~seen'.stale PROVE CountInv'
  BY DEF CountInv
<1>1. run[r] # Idle /\ run[r].at = "hopeless"
  BY DEF GiveUp, Idle
<1>2. run[r] \in Memory /\ r \in Holders /\ run[r].exp \in Experiment
  BY <1>1, AtWork DEF Memory
<1> DEFINE copy == [run[r].exp EXCEPT !.status = "rejected"]
<1>3. copy.used = run[r].exp.used /\ copy.unsealed = run[r].exp.unsealed
  BY <1>2 DEF Experiment
<1>4. /\ SaveExp(r, copy) /\ run' = [run EXCEPT ![r] = Idle] /\ behind' = Holders \ {r}
      /\ trials' = trials /\ asked' = asked /\ manual' = manual
  BY DEF GiveUp, Leaves, CommitsLast
<1> HIDE DEF copy
<1>5. /\ exp' = copy /\ seen'.stale = (seen.stale \/ r \in behind)
      /\ seen'.halved = seen.halved
  BY <1>4, SaveMarks, Setting DEF SaveExp
<1>6. exp # NoRow
  BY <1>2, <1>5, CurrentWriter, Phases
<1>7. Current(r) /\ MemoryFits(r)
  BY <1>1, <1>5, <1>6 DEF CountInv, Memories
<1>8. exp'.used = exp.used /\ ~exp'.unsealed
  BY <1>1, <1>3, <1>5, <1>7 DEF Current, MemoryFits
<1>9. run'[r] = Idle /\ \A q \in Runs \ {r} : run'[q] = run[q]
  BY <1>4, Setting
<1>10. Rows(trials)' = Rows(trials)
  BY <1>4 DEF Rows
<1>11. ~Saving(r) /\ r \notin Agents
  BY <1>1, Setting DEF Saving
<1>12. QED
  BY <1>2, <1>4, <1>5, <1>8, <1>9, <1>10, <1>11, LastCount

\* Publish writes the count it has; nothing is pending any more.
LEMMA PublishCount ==
  ASSUME OosInv, CountInv, NEW r \in Runs, Publish(r)
  PROVE  CountInv'
<1> SUFFICES ASSUME ~seen'.stale PROVE CountInv'
  BY DEF CountInv
<1>1. run[r] # Idle /\ run[r].at = "tested"
  BY DEF Publish, Idle
<1>2. run[r] \in Memory /\ r \in Holders /\ run[r].exp \in Experiment
  BY <1>1, AtWork DEF Memory
<1> DEFINE i == run[r].best
<1>3. i \in Index /\ run[r].trials[i] \in Trial
  BY <1>1, <1>2 DEF Memory, OosInv, BestThere
<1>4. /\ exp' = run[r].exp /\ trials' = [trials EXCEPT ![i] = run[r].trials[i]]
      /\ run' = [run EXCEPT ![r] = Idle] /\ behind' = Holders \ {r}
      /\ asked' = asked /\ manual' = manual
  BY DEF Publish, Leaves, CommitsLast
<1>5. seen'.stale = (seen.stale \/ r \in behind) /\ seen'.halved = seen.halved
  BY Setting DEF Publish
<1>6. exp # NoRow
  BY <1>2, <1>5, CurrentWriter, Phases
<1>7. Current(r) /\ MemoryFits(r)
  BY <1>1, <1>5, <1>6 DEF CountInv, Memories
<1>8. exp'.used = exp.used /\ (manual = 0 => Interrupted \/ Count = Planned)
  BY <1>1, <1>4, <1>7 DEF Current, ToSave
<1>9. run'[r] = Idle /\ \A q \in Runs \ {r} : run'[q] = run[q]
  BY <1>4, Setting
<1>10. Rows(trials)' = Rows(trials)
  <2>1. i \in Rows(trials)
    BY <1>1, <1>3, <1>7 DEF MemoryFits, ToSave, Rows, Trial, NoRow
  <2>2. QED
    BY <1>3, <1>4, <2>1, Setting DEF Rows, Trial, NoRow
<1>11. ~Saving(r) /\ r \notin Agents
  BY <1>1, Setting DEF Saving
<1>12. QED
  BY <1>2, <1>4, <1>5, <1>8, <1>9, <1>10, <1>11, LastCount

\* Reject writes the count that was read.
LEMMA RejectCount ==
  ASSUME OosInv, CountInv, NEW a \in Agents, Reject(a)
  PROVE  CountInv'
<1> SUFFICES ASSUME ~seen'.stale PROVE CountInv'
  BY DEF CountInv
<1>1. asked[a] # Idle
  BY DEF Reject, Idle
<1>2. asked[a] \in Request /\ a \in Holders /\ asked[a].exp \in Experiment
  BY <1>1, Asking DEF Request
<1> DEFINE copy == [asked[a].exp EXCEPT !.status = "rejected"]
<1>3. copy.used = asked[a].exp.used /\ copy.unsealed = asked[a].exp.unsealed
  BY <1>2 DEF Experiment
<1>4. /\ SaveExp(a, copy) /\ Answer(a) /\ behind' = Holders \ {a}
      /\ trials' = trials /\ run' = run /\ manual' = manual
  BY DEF Reject, CommitsLast
<1> HIDE DEF copy
<1>5. /\ exp' = copy /\ seen'.stale = (seen.stale \/ a \in behind)
      /\ seen'.halved = seen.halved
  BY <1>4, SaveMarks, Setting DEF SaveExp
<1>6. exp # NoRow
  BY <1>2, <1>5, CurrentWriter, Phases
<1>7. asked[a].exp = exp /\ RowsCounted
  BY <1>1, <1>5, <1>6 DEF CountInv, Requests
<1>8. /\ exp'.used = exp.used
      /\ manual = 0 /\ exp'.unsealed => Interrupted \/ Count = Planned
  BY <1>3, <1>5, <1>7 DEF RowsCounted
<1>9. asked'[a] = Idle /\ \A b \in Agents \ {a} : asked'[b] = asked[b]
  BY <1>4, AnswerEffect
<1>10. Rows(trials)' = Rows(trials)
  BY <1>4 DEF Rows
<1>11. a \notin Runs
  BY Setting
<1>12. QED
  BY <1>2, <1>4, <1>5, <1>8, <1>9, <1>10, <1>11, LastCount

\* AddTrial counts the trial it adds.
LEMMA AddTrialCount ==
  ASSUME OosInv, CountInv, NEW a \in Agents, AddTrial(a)
  PROVE  CountInv'
<1> SUFFICES ASSUME ~seen'.stale PROVE CountInv'
  BY DEF CountInv
<1> DEFINE row == [by |-> "agent", status |-> "candidate", rank |-> 0, oos |-> FALSE]
           copy == [asked[a].exp EXCEPT !.used = @ + 1]
<1>0. /\ asked[a].at = "add" /\ manual' = manual + 1
      /\ trials' = [trials EXCEPT ![Count] = row]
      /\ SaveExp(a, copy) /\ Answer(a) /\ run' = run /\ behind' = Holders \ {a}
  BY DEF AddTrial, CommitsLast, Count
<1>1. asked[a] # Idle
  BY <1>0 DEF Idle
<1>2. asked[a] \in Request /\ a \in Holders /\ asked[a].exp \in Experiment
  BY <1>1, Asking DEF Request
<1>3. copy.used = asked[a].exp.used + 1
  BY <1>2 DEF Experiment
<1>4. row \in Trial
  BY OosAssumption DEF Trial
<1> HIDE DEF copy, row
<1>5. /\ exp' = copy /\ seen'.stale = (seen.stale \/ a \in behind)
      /\ seen'.halved = seen.halved
  BY <1>0, SaveMarks, Setting DEF SaveExp
<1>6. exp # NoRow
  BY <1>2, <1>5, CurrentWriter, Phases
<1>7. asked[a].exp = exp /\ RowsCounted /\ Memories
  BY <1>1, <1>5, <1>6 DEF CountInv, Requests
<1>8. exp'.used = exp.used + 1 /\ exp.used < Budget
  BY <1>0, <1>1, <1>3, <1>5, <1>7 DEF OosInv, CopiesFit
<1>9. /\ Count \in Nat /\ Budget \in Nat /\ MaxManual \in Nat /\ exp.used \in 0..Budget
      /\ manual \in Nat
  BY <1>6, CountSetting, Setting
<1>10. Count \in Index
  BY <1>7, <1>8, <1>9 DEF RowsCounted, Index
<1>11. /\ Count' = Count + 1 /\ Rows(trials)' = Rows(trials) \cup {Count}
       /\ Rows(trials)' = {i \in Index : i < Count + 1}
  BY <1>0, <1>4, <1>6, <1>7, <1>10, RowAdded DEF RowsCounted
<1>12. Interrupted' <=> Interrupted
  BY <1>0, <1>5 DEF Interrupted, Saving
<1>13. RowsCounted'
  <2>1. manual' # 0
    BY <1>0, <1>9
  <2>2. Count + 1 <= exp'.used /\ (Interrupted' \/ exp'.used = Count + 1)
    BY <1>7, <1>8, <1>9, <1>12 DEF RowsCounted
  <2>3. QED
    BY <1>11, <2>1, <2>2 DEF RowsCounted
<1>14. /\ asked'[a] = Idle /\ \A b \in Agents \ {a} : asked'[b] = asked[b]
       /\ Holders' = Holders \ {a}
  BY <1>0, AnswerEffect
<1>15. /\ \A q \in Runs : run'[q] # Idle => q \in behind'
       /\ \A b \in Agents : asked'[b] # Idle => b \in behind'
  BY <1>0, <1>14 DEF Holders
<1>16. ASSUME NEW q \in Runs, run'[q] # Idle PROVE MemoryFits(q)'
  <2>1. Rows(run[q].trials)' = Rows(run[q].trials) /\ MemoryFits(q)
    BY <1>0, <1>7, <1>16 DEF Rows, Memories
  <2>2. QED
    BY <1>0, <1>11, <2>1 DEF MemoryFits
<1>17. Memories' /\ Requests'
  BY <1>15, <1>16 DEF Memories, Requests
<1>18. QED
  BY <1>13, <1>17 DEF CountInv

\* A trial's row replaced by another is still there.
LEMMA SameRows ==
  ASSUME NEW table \in [Index -> Trial \cup {NoRow}], NEW i \in Index, table[i] \in Trial,
         NEW row \in Trial
  PROVE  Rows([table EXCEPT ![i] = row]) = Rows(table)
  BY DEF Rows, Trial, NoRow

\* The row of an execution's best trial is there, and is updated.
LEMMA BestUpdated ==
  ASSUME OosInv, CountInv, NEW r \in Runs, run[r].at = "walking",
         NEW row \in Trial, NEW m, m # Idle, m.at = "sealed", m.exp = run[r].exp,
         m.unsaved = run[r].unsaved, Rows(m.trials) = Rows(run[r].trials),
         run' = [run EXCEPT ![r] = m], trials' = [trials EXCEPT ![run[r].best] = row],
         exp' = exp, asked' = asked, manual' = manual, seen' = seen,
         behind' = behind \cup (Holders \ {r})
  PROVE  CountInv'
<1> SUFFICES ASSUME exp # NoRow, ~seen.stale PROVE CountInv'
  BY DEF CountInv
<1>1. run[r] # Idle
  BY DEF Idle
<1>2. run[r] \in Memory /\ r \in Holders
  BY <1>1, AtWork
<1> DEFINE i == run[r].best
<1>3. i \in Index /\ run[r].trials[i] \in Trial
  BY <1>1, <1>2 DEF Memory, OosInv, BestThere
<1>4. RowsCounted /\ Memories /\ Requests /\ MemoryFits(r) /\ (r \notin behind => Current(r))
  BY <1>1 DEF CountInv, Memories
<1>5. i \in Rows(run[r].trials)
  BY <1>3 DEF Rows, Trial, NoRow
<1>6. run'[r] = m /\ \A q \in Runs \ {r} : run'[q] = run[q]
  BY Setting
<1>7. i \in Rows(trials) /\ Rows(run[r].trials) \subseteq Rows(trials)
  BY <1>4, <1>5 DEF MemoryFits, ToSave
<1>8. Rows(trials)' = Rows(trials)
  BY <1>3, <1>7, Setting DEF Rows, Trial, NoRow
<1>9. Count' = Count
  BY <1>8 DEF Count
<1>10. \A q \in Runs : Saving(q)' <=> Saving(q)
  BY <1>6 DEF Saving
<1>11. Interrupted' <=> Interrupted
  BY <1>10 DEF Interrupted
<1>12. RowsCounted'
  BY <1>4, <1>8, <1>9, <1>11 DEF RowsCounted
<1>13. MemoryFits(r)'
  <2>1. Rows(run[r].trials)' = Rows(m.trials)
    BY <1>6 DEF Rows
  <2>2. m.unsaved = {} /\ ~m.exp.unsealed
    BY <1>4 DEF MemoryFits, ToSave
  <2>3. QED
    BY <1>6, <1>7, <1>8, <2>1, <2>2 DEF MemoryFits
<1>14. r \notin behind => Current(r)'
  BY <1>4, <1>6, <1>9, <1>11 DEF Current, ToSave
<1>15. Holders' \subseteq Holders
  BY <1>1, <1>2, <1>6 DEF Holders
<1>16. /\ \A q \in Runs \ {r} : run'[q] # Idle => q \in behind'
       /\ \A a \in Agents \ {r} : asked'[a] # Idle => a \in behind'
  BY <1>15, OthersBehind
<1>17. ASSUME NEW q \in Runs \ {r}, run'[q] # Idle PROVE MemoryFits(q)'
  <2>1. Rows(run[q].trials)' = Rows(run[q].trials) /\ MemoryFits(q)
    BY <1>4, <1>6, <1>17 DEF Rows, Memories
  <2>2. QED
    BY <1>6, <1>8, <2>1 DEF MemoryFits
<1>18. Memories'
  BY <1>13, <1>14, <1>16, <1>17 DEF Memories
<1>19. Requests'
  BY <1>16, Setting DEF Requests
<1>20. QED
  BY <1>12, <1>18, <1>19 DEF CountInv

\* WalkForward updates a row that is there, also when it is behind.
LEMMA WalkForwardCount ==
  ASSUME OosInv, CountInv, NEW r \in Runs, NEW result \in {"passes", "fails", "no windows"},
         WalkForward(r, result)
  PROVE  CountInv'
<1>0. run[r].at = "walking"
  BY Zenon DEF WalkForward
<1>1. run[r] # Idle
  <2>1. Idle.at = "idle"
    BY DEF Idle
  <2>2. QED
    BY ONLY <1>0, <2>1
<1>2. run[r] \in Memory
  BY <1>1, AtWork
<1> DEFINE i    == run[r].best
           old  == run[r].trials[i]
           row  == [old EXCEPT !.status = IF result = "passes" THEN @ ELSE "rejected",
                               !.oos = @ \/ result # "no windows"]
           new  == IF result = "no windows" THEN old ELSE row
           held == [run[r].trials EXCEPT ![i] = new]
           m    == [run[r] EXCEPT !.at = "sealed", !.trials = held]
<1>3. i \in Index /\ run[r].trials \in [Index -> Trial \cup {NoRow}]
  BY <1>2 DEF Memory
<1>4. old \in Trial
  BY <1>0, <1>1 DEF OosInv, BestThere
<1>5. row \in Trial /\ new \in Trial
  BY <1>4 DEF Trial
<1>6. trials' = [trials EXCEPT ![i] = row]
  BY Zenon DEF WalkForward
<1>7. run' = [run EXCEPT ![r] = m]
  BY <1>2, Setting DEF WalkForward, Memory
<1>8. /\ exp' = exp /\ asked' = asked /\ manual' = manual /\ seen' = seen
      /\ behind' = behind \cup (Holders \ {r})
  BY Zenon DEF WalkForward, Commits
<1> HIDE DEF row, new
<1>9. Rows(held) = Rows(run[r].trials)
  BY <1>3, <1>4, <1>5, SameRows
<1> HIDE DEF held, old
<1>10. /\ m # Idle /\ m.at = "sealed" /\ m.exp = run[r].exp /\ m.unsaved = run[r].unsaved
       /\ m.trials = held
  BY <1>2 DEF Memory, Idle
<1> HIDE DEF m
<1>11. Rows(m.trials) = Rows(run[r].trials)
  BY <1>9, <1>10
<1>12. QED
  BY <1>0, <1>5, <1>6, <1>7, <1>8, <1>10, <1>11, BestUpdated, Zenon

\* FinalTest changes no trial and no count.
LEMMA FinalTestCount ==
  ASSUME OosInv, CountInv, NEW r \in Runs, NEW passes \in BOOLEAN, FinalTest(r, passes)
  PROVE  CountInv'
<1>1. run[r].at = "sealed" /\ run[r] # Idle
  BY DEF FinalTest, Idle
<1>2. run[r] \in Memory /\ run[r].exp \in Experiment
  BY <1>1, AtWork DEF Memory
<1> DEFINE end  == IF passes THEN "validated_oos" ELSE "rejected"
           copy == [run[r].exp EXCEPT !.unsealed = TRUE, !.status = end]
           m    == [run[r] EXCEPT !.at = "tested", !.exp = copy]
<1>3. copy.used = run[r].exp.used
  BY <1>2 DEF Experiment
<1>4. run' = [run EXCEPT ![r] = m]
  BY <1>2, Setting DEF FinalTest, Memory, Experiment
<1> HIDE DEF copy
<1>5. /\ m.at = "tested" /\ m.exp = copy /\ m.trials = run[r].trials
      /\ m.unsaved = run[r].unsaved
  BY <1>2 DEF Memory
<1> HIDE DEF m
<1>6. run'[r] = m /\ \A q \in Runs \ {r} : run'[q] = run[q]
  BY <1>4, Setting
<1>7. /\ exp' = exp /\ trials' = trials /\ asked' = asked /\ manual' = manual
      /\ behind' = behind /\ seen' = seen
  BY DEF FinalTest
<1>8. \A q \in Runs : Saving(q)' <=> Saving(q)
  BY <1>1, <1>5, <1>6 DEF Saving
<1>9. Rows(trials)' = Rows(trials) /\ Rows(run[r].trials)' = Rows(run[r].trials)
  BY <1>5, <1>6, <1>7 DEF Rows
<1>10. Count' = Count /\ (Interrupted => Interrupted')
  BY <1>7, <1>8, <1>9 DEF Count, Interrupted
<1>11. ASSUME exp # NoRow, ~seen.stale
       PROVE  MemoryFits(r)' /\ (r \notin behind' => Current(r)')
  <2>1. MemoryFits(r) /\ (r \notin behind => Current(r))
    BY <1>1, <1>11 DEF CountInv, Memories
  <2>2. MemoryFits(r)'
    BY <1>1, <1>5, <1>6, <1>9, <2>1 DEF MemoryFits, ToSave
  <2>3. ASSUME r \notin behind PROVE Current(r)'
    BY <1>1, <1>3, <1>5, <1>6, <1>7, <1>10, <2>1, <2>3 DEF Current, ToSave
  <2>4. QED
    BY <1>7, <2>2, <2>3
<1>12. QED
  BY <1>6, <1>7, <1>8, <1>11, QuietCount

\* Stop between two commits is noticed.
LEMMA StopCount == ASSUME OosInv, CountInv, NEW r \in Runs, Stop(r) PROVE CountInv'
<1>1. /\ exp' = exp /\ trials' = trials /\ asked' = asked /\ manual' = manual
      /\ behind' = behind \ {r} /\ run' = [run EXCEPT ![r] = Idle]
  BY DEF Stop, Leaves
<1>2. run'[r] = Idle /\ \A q \in Runs \ {r} : run'[q] = run[q]
  BY <1>1, Setting
<1>3. seen'.stale = seen.stale /\ seen'.halved = (seen.halved \/ run[r].at = "saving")
  BY Setting DEF Stop
<1>4. \A q \in Runs : Saving(q) => Saving(q)' \/ seen'.halved
  BY <1>2, <1>3 DEF Saving
<1>5. \A a \in Agents : a # r
  BY Setting
<1>6. ASSUME NEW a \in Agents \ behind', asked'[a] # Idle
      PROVE  asked'[a] = asked[a] /\ a \notin behind
  BY <1>1, <1>5
<1>7. QED
  BY <1>1, <1>2, <1>3, <1>4, <1>6, QuietCount

\* Ask reads the row as it is.
LEMMA AskCount ==
  ASSUME OosInv, CountInv, NEW a \in Agents, NEW tool \in {"reject", "add"}, Ask(a, tool)
  PROVE  CountInv'
<1>1. /\ asked' = [asked EXCEPT ![a] = [at |-> tool, exp |-> exp]]
      /\ exp' = exp /\ trials' = trials /\ run' = run
      /\ manual' = manual /\ behind' = behind /\ seen' = seen
  BY DEF Ask
<1>2. asked'[a].exp = exp /\ \A b \in Agents \ {a} : asked'[b] = asked[b]
  BY <1>1, Setting
<1>3. \A q \in Runs : Saving(q) => Saving(q)' \/ seen'.halved
  BY <1>1 DEF Saving
<1>4. QED
  BY <1>1, <1>2, <1>3, QuietCount

\* Abandon forgets a copy.
LEMMA AbandonCount == ASSUME OosInv, CountInv, NEW a \in Agents, Abandon(a) PROVE CountInv'
<1>1. /\ Answer(a) /\ behind' = behind \ {a} /\ exp' = exp /\ trials' = trials
      /\ run' = run /\ manual' = manual /\ seen' = seen
  BY DEF Abandon
<1>2. asked'[a] = Idle /\ \A b \in Agents \ {a} : asked'[b] = asked[b]
  BY <1>1, AnswerEffect
<1>3. \A q \in Runs : q # a /\ (Saving(q) => Saving(q)' \/ seen'.halved)
  BY <1>1, Setting DEF Saving
<1>4. QED
  BY <1>1, <1>2, <1>3, QuietCount
-----------------------------------------------------------------------------
\* Initially there are no trials.
LEMMA InitCount == Init => CountInv
<1> SUFFICES ASSUME Init PROVE CountInv
  OBVIOUS
<1>1. Rows(trials) = {} /\ Count = 0
  <2>1. Rows(trials) = {}
    BY DEF Init, Rows
  <2>2. QED
    BY <2>1, FS_EmptySet DEF Count
<1>2. {i \in Index : i < 0} = {}
  BY OosAssumption DEF Index
<1>3. Planned \in Nat
  BY OosAssumption DEF Planned
<1>4. exp.used = 0 /\ ~exp.unsealed
  BY DEF Init
<1>5. RowsCounted
  BY <1>1, <1>2, <1>3, <1>4 DEF RowsCounted
<1>6. Memories /\ Requests
  BY DEF Init, Memories, Requests
<1>7. QED
  BY <1>5, <1>6 DEF CountInv

\* Every step keeps the count.
LEMMA StepCount == OosInv /\ CountInv /\ [Next]_vars => CountInv'
<1> SUFFICES ASSUME OosInv, CountInv, [Next]_vars PROVE CountInv'
  OBVIOUS
<1>1. ASSUME NEW r \in Runs,
             \/ Begin(r) \/ SaveTrial(r) \/ GiveUp(r) \/ Publish(r) \/ Stop(r)
             \/ \E result \in {"passes", "fails", "no windows"} : WalkForward(r, result)
             \/ \E passes \in BOOLEAN : FinalTest(r, passes)
      PROVE  CountInv'
  BY <1>1, BeginCount, SaveTrialCount, GiveUpCount, PublishCount, StopCount,
     WalkForwardCount, FinalTestCount, Zenon
<1>2. ASSUME NEW a \in Agents,
             \/ \E tool \in {"reject", "add"} : Ask(a, tool)
             \/ Reject(a) \/ AddTrial(a) \/ Abandon(a)
      PROVE  CountInv'
  BY <1>2, AskCount, RejectCount, AddTrialCount, AbandonCount, Zenon
<1>3. CASE Delete
  BY <1>3 DEF Delete, CountInv
<1>4. CASE UNCHANGED vars
  <2>1. /\ exp' = exp /\ trials' = trials /\ run' = run /\ asked' = asked
        /\ manual' = manual /\ behind' = behind /\ seen' = seen
    BY <1>4 DEF vars
  <2>2. \A q \in Runs : Saving(q) => Saving(q)' \/ seen'.halved
    BY <2>1 DEF Saving
  <2>3. QED
    BY <2>1, <2>2, QuietCount
<1>5. QED
  BY <1>1, <1>2, <1>3, <1>4, Zenon DEF Next

\* The strengthening about the count holds of every reachable state.
THEOREM CountInvariant == Spec => []CountInv
  BY InitCount, StepCount, ValidationInvariant, PTL DEF Spec

\* As long as nobody writes a copy older than the rows, every trial is counted, once, and
\* within the budget, except for an execution stopped between its first and its last
\* trial's commit: for any number of overlapping executions, agents and candidates.
THEOREM CountExact == Spec => []TrialsCounted
<1>1. OosInv /\ CountInv => TrialsCounted
  <2> SUFFICES ASSUME OosInv, CountInv, exp # NoRow, ~seen.stale
               PROVE  /\ Count <= exp.used /\ exp.used <= Budget
                      /\ seen.halved \/ (\E r \in Runs : run[r].at = "saving")
                           \/ exp.used = Count
    BY DEF TrialsCounted, Count
  <2>1. RowsCounted
    BY DEF CountInv
  <2>2. QED
    BY <2>1, CountSetting DEF RowsCounted, Interrupted, Saving
<1>2. QED
  BY <1>1, CountInvariant, ValidationInvariant, PTL

\* A published verdict has a trial for every candidate planned, under the same provisos.
THEOREM NoneSkipped == Spec => []AllTried
<1>1. CountInv => AllTried
  BY DEF CountInv, RowsCounted, Interrupted, Saving, Count, AllTried
<1>2. QED
  BY <1>1, CountInvariant, PTL
=============================================================================
