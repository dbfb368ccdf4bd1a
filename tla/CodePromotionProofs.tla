------------------------ MODULE CodePromotionProofs -------------------------
(***************************************************************************)
(* Theorems about CodePromotion, for any number of versions, callers and    *)
(* executions: its types, that an active version keeps its passed promotion *)
(* and a retired one stays retired, that there is one active version unless *)
(* two promotions ran together, and that the evidence under an active       *)
(* version stands.  The last rests on the validation's own invariant.       *)
(***************************************************************************)
EXTENDS CodePromotion, OosValidationProofs

\* A promotion in its transaction.
InTransaction(p) == call[p] # Idle /\ call[p].at = "locked"

PromotionTypes ==
  /\ art \in [Artifacts -> Artifact]
  /\ call \in [Callers -> Call \cup {Idle}]
  /\ together \in BOOLEAN
  /\ \A a \in Artifacts : art[a].status = "unregistered" => art[a].promotion = "pending"

\* A transaction promotes a draft it alone has locked, and retires what was active.
LocksHold ==
  /\ \A p \in Callers : InTransaction(p) =>
       /\ art[call[p].of].status = "draft"
       /\ \A a \in call[p].old : art[a].status \in {"active", "retired"}
  /\ \A p, q \in Callers :
       InTransaction(p) /\ InTransaction(q) /\ call[p].of = call[q].of => p = q

\* Without two promotions together there is one transaction, it saw every active version,
\* and one version is active.
AloneHolds == ~together =>
  /\ \A p, q \in Callers : InTransaction(p) /\ InTransaction(q) => p = q
  /\ \A p \in Callers : InTransaction(p) => Active \subseteq call[p].old
  /\ \A a, b \in Active : a = b

\* The bound experiment was published as validated, and still is unless it was deleted or
\* an old copy was written over it.
Stands == exp = NoRow \/ seen.stale \/ (exp.status = "validated_oos" /\ exp.unsealed)

\* The bound version is active, or about to be, on such an experiment only.
EvidenceHolds ==
  /\ art[Bound].status = "active" => Stands
  /\ \A p \in Callers :
       call[p] # Idle /\ call[p].of = Bound /\ call[p].passed => Stands
  /\ \A p \in Callers : InTransaction(p) => call[p].passed

PromotionInv ==
  OosInv /\ PromotionTypes /\ LocksHold /\ PassedStays /\ AloneHolds /\ EvidenceHolds
-----------------------------------------------------------------------------
\* Initially.
LEMMA PromotionInitInv == PromotionInit => PromotionInv
<1> SUFFICES ASSUME PromotionInit PROVE PromotionInv
  OBVIOUS
<1>1. OosInv
  BY InitInv DEF PromotionInit
<1>2. PromotionTypes
  BY DEF PromotionInit, PromotionTypes, Artifact
<1>3. \A p \in Callers : ~InTransaction(p) /\ call[p] = Idle
  BY DEF PromotionInit, InTransaction
<1>4. \A a \in Artifacts : art[a].status = "unregistered" /\ art[a].promotion = "pending"
  BY DEF PromotionInit
<1>5. LocksHold /\ PassedStays /\ AloneHolds /\ EvidenceHolds
  BY <1>3, <1>4, PromotionAssumption
     DEF LocksHold, PassedStays, AloneHolds, EvidenceHolds, Active
<1>6. QED
  BY <1>1, <1>2, <1>5 DEF PromotionInv

\* A validation step keeps what a bound version rests on.
LEMMA StandsKept == ASSUME OosInv, [Next]_vars, Stands PROVE Stands'
<1>1. CASE seen.stale
  BY <1>1, MarkStays DEF Stands
<1>2. CASE exp = NoRow
  BY <1>2, OverKept DEF Stands, Over
<1>3. CASE exp # NoRow /\ exp.status = "validated_oos" /\ exp.unsealed
  BY <1>3, OverKept DEF Stands, Over, Settled
<1>4. QED
  BY <1>1, <1>2, <1>3 DEF Stands

\* Steps of the validation keep the invariant.
LEMMA ValidationStep == ASSUME PromotionInv, [Next]_vars, UNCHANGED pvars PROVE PromotionInv'
<1>1. OosInv'
  BY StepInv DEF PromotionInv
<1>2. art' = art /\ call' = call /\ together' = together
  BY DEF pvars
<1>3. PromotionTypes' /\ PassedStays'
  BY <1>2 DEF PromotionInv, PromotionTypes, PassedStays
<1>4. \A p \in Callers : InTransaction(p)' <=> InTransaction(p)
  BY <1>2 DEF InTransaction
<1>5. Active' = Active
  BY <1>2 DEF Active
<1>6. LocksHold' /\ AloneHolds'
  BY <1>2, <1>4, <1>5 DEF PromotionInv, LocksHold, AloneHolds
<1>7. EvidenceHolds'
  BY <1>2, <1>4, StandsKept DEF PromotionInv, EvidenceHolds
<1>8. QED
  BY <1>1, <1>3, <1>6, <1>7 DEF PromotionInv

\* A promotion step leaves the validation as it is.
LEMMA ValidationIdle ==
  ASSUME PromotionInv, UNCHANGED vars
  PROVE  OosInv' /\ (Stands' <=> Stands)
<1>1. OosInv'
  BY StepInv DEF PromotionInv
<1>2. exp' = exp /\ seen' = seen
  BY DEF vars
<1>3. QED
  BY <1>1, <1>2 DEF Stands

\* A version is registered as a draft.
LEMMA RegisterStep == ASSUME PromotionInv, NEW a \in Artifacts, Register(a) PROVE PromotionInv'
<1>1. /\ art[a].status = "unregistered" /\ art' = [art EXCEPT ![a].status = "draft"]
      /\ call' = call /\ together' = together
  BY DEF Register
<1>2. OosInv' /\ (Stands' <=> Stands)
  BY ValidationIdle DEF Register
<1>3. art \in [Artifacts -> Artifact] /\ art[a].promotion = "pending"
  BY <1>1 DEF PromotionInv, PromotionTypes
<1>4. /\ art' \in [Artifacts -> Artifact]
      /\ art'[a].status = "draft" /\ art'[a].promotion = "pending"
      /\ \A b \in Artifacts \ {a} : art'[b] = art[b]
  BY <1>1, <1>3 DEF Artifact
<1>5. \A p \in Callers : InTransaction(p)' <=> InTransaction(p)
  BY <1>1 DEF InTransaction
<1>6. PromotionTypes'
  BY <1>1, <1>4 DEF PromotionInv, PromotionTypes
<1>7. PassedStays'
  BY <1>4 DEF PromotionInv, PassedStays
<1>8. Active' = Active
  BY <1>1, <1>4 DEF Active
<1>9. LocksHold'
  BY <1>1, <1>4, <1>5 DEF PromotionInv, LocksHold, PromotionTypes, Call, InTransaction
<1>10. AloneHolds'
  BY <1>1, <1>5, <1>8 DEF PromotionInv, AloneHolds
<1>11. EvidenceHolds'
  BY <1>1, <1>2, <1>4, <1>5 DEF PromotionInv, EvidenceHolds
<1>12. QED
  BY <1>2, <1>6, <1>7, <1>9, <1>10, <1>11 DEF PromotionInv

\* A call in progress has its fields.
LEMMA InCall ==
  ASSUME PromotionInv, NEW p \in Callers, call[p] # Idle
  PROVE  call[p] \in Call /\ call[p].of \in Artifacts
  BY DEF PromotionInv, PromotionTypes, Call

\* The gate passes the bound version only on an experiment that stands.
LEMMA CheckStep ==
  ASSUME PromotionInv, NEW p \in Callers, NEW a \in Artifacts, NEW screen \in BOOLEAN,
         Check(p, a, screen)
  PROVE  PromotionInv'
<1> DEFINE ok == screen /\ Gate(a)
           c  == [at |-> "checked", of |-> a, passed |-> ok, old |-> {}]
<1>1. /\ call[p] = Idle /\ call' = [call EXCEPT ![p] = c]
      /\ art' = art /\ together' = together
  BY DEF Check
<1>2. OosInv' /\ (Stands' <=> Stands)
  BY ValidationIdle DEF Check
<1>3. ok \in BOOLEAN /\ (a = Bound /\ ok => Stands)
  BY DEF Gate, Stands
<1> HIDE DEF ok
<1>4. c \in Call /\ c # Idle /\ c.at = "checked" /\ c.of = a /\ c.passed = ok
  BY <1>3 DEF Call, Idle
<1> HIDE DEF c
<1>5. /\ call' \in [Callers -> Call \cup {Idle}] /\ call'[p] = c
      /\ \A q \in Callers \ {p} : call'[q] = call[q]
  BY <1>1, <1>4 DEF PromotionInv, PromotionTypes
<1>6. \A q \in Callers : InTransaction(q)' <=> InTransaction(q)
  BY <1>1, <1>4, <1>5 DEF InTransaction
<1>7. \A q \in Callers : InTransaction(q) => call'[q] = call[q]
  BY <1>1, <1>5 DEF InTransaction
<1>8. PromotionTypes' /\ PassedStays'
  BY <1>1, <1>5 DEF PromotionInv, PromotionTypes, PassedStays
<1>9. Active' = Active
  BY <1>1 DEF Active
<1>10. LocksHold'
  BY <1>1, <1>6, <1>7 DEF PromotionInv, LocksHold
<1>11. AloneHolds'
  BY <1>1, <1>6, <1>7, <1>9 DEF PromotionInv, AloneHolds
<1>12. EvidenceHolds'
  BY <1>1, <1>2, <1>3, <1>4, <1>5, <1>6, <1>7 DEF PromotionInv, EvidenceHolds
<1>13. QED
  BY <1>2, <1>8, <1>10, <1>11, <1>12 DEF PromotionInv

\* The transaction starts: the draft is locked and the active versions are seen.
LEMMA LockStep == ASSUME PromotionInv, NEW p \in Callers, Lock(p) PROVE PromotionInv'
<1>1. /\ call[p].at = "checked" /\ call[p].passed /\ ~Locked(call[p].of)
      /\ art[call[p].of].status = "draft"
      /\ call' = [call EXCEPT ![p].at = "locked", ![p].old = Active]
      /\ together' = (together \/ \E a \in Artifacts : Locked(a))
      /\ art' = art
  BY DEF Lock
<1>2. OosInv' /\ (Stands' <=> Stands)
  BY ValidationIdle DEF Lock
<1>3. call[p] # Idle /\ ~InTransaction(p)
  BY <1>1 DEF Idle, InTransaction
<1>4. call[p] \in Call /\ call[p].of \in Artifacts
  BY <1>3, InCall
<1> DEFINE c == [call[p] EXCEPT !.at = "locked", !.old = Active]
<1>5. /\ c \in Call /\ c # Idle /\ c.at = "locked" /\ c.old = Active
      /\ c.of = call[p].of /\ c.passed = call[p].passed
  BY <1>4 DEF Call, Idle, Active
<1>6. call' = [call EXCEPT ![p] = c]
  BY <1>1
<1> HIDE DEF c
<1>7. /\ call' \in [Callers -> Call \cup {Idle}] /\ call'[p] = c
      /\ \A q \in Callers \ {p} : call'[q] = call[q]
  BY <1>5, <1>6 DEF PromotionInv, PromotionTypes
<1>8. /\ InTransaction(p)'
      /\ \A q \in Callers \ {p} : InTransaction(q)' <=> InTransaction(q)
  BY <1>5, <1>7 DEF InTransaction
<1>9. \A q \in Callers : InTransaction(q) => call[q].of \in Artifacts /\ Locked(call[q].of)
  BY InCall DEF Locked, InTransaction
<1>10. Active' = Active
  BY <1>1 DEF Active
<1>11. together' \in BOOLEAN
  BY <1>1 DEF PromotionInv, PromotionTypes
<1>12. PromotionTypes' /\ PassedStays'
  BY <1>1, <1>7, <1>11 DEF PromotionInv, PromotionTypes, PassedStays
<1>13. LocksHold'
  <2>1. \A q \in Callers : InTransaction(q)' =>
          /\ art'[call'[q].of].status = "draft"
          /\ \A a \in call'[q].old : art'[a].status \in {"active", "retired"}
    <3>1. art'[c.of].status = "draft"
          /\ \A a \in c.old : art'[a].status \in {"active", "retired"}
      BY <1>1, <1>5 DEF Active
    <3>2. QED
      BY <1>1, <1>7, <1>8, <3>1 DEF PromotionInv, LocksHold
  <2>2. \A q \in Callers \ {p} : InTransaction(q)' => call'[q].of # c.of
    BY <1>1, <1>5, <1>7, <1>8, <1>9
  <2>3. QED
    BY <1>7, <1>8, <2>1, <2>2 DEF PromotionInv, LocksHold
<1>14. AloneHolds'
  <2> SUFFICES ASSUME ~together' PROVE AloneHolds'
    BY DEF AloneHolds
  <2>1. ~together /\ \A a \in Artifacts : ~Locked(a)
    BY <1>1
  <2>2. \A q \in Callers : ~InTransaction(q)
    BY <1>9, <2>1
  <2>3. \A q \in Callers : InTransaction(q)' => q = p
    BY <1>8, <2>2
  <2>4. call'[p].old = Active'
    BY <1>5, <1>7, <1>10
  <2>5. \A a, b \in Active' : a = b
    BY <1>10, <2>1 DEF PromotionInv, AloneHolds
  <2>6. QED
    BY <2>3, <2>4, <2>5 DEF AloneHolds
<1>15. EvidenceHolds'
  BY <1>1, <1>2, <1>3, <1>5, <1>7, <1>8 DEF PromotionInv, EvidenceHolds
<1>16. QED
  BY <1>2, <1>12, <1>13, <1>14, <1>15 DEF PromotionInv

\* A call that ends leaves the others.
LEMMA ReturnEffect ==
  ASSUME PromotionInv, NEW p \in Callers, Return(p)
  PROVE  /\ call' \in [Callers -> Call \cup {Idle}] /\ call'[p] = Idle
         /\ \A q \in Callers \ {p} : call'[q] = call[q]
         /\ ~InTransaction(p)'
         /\ \A q \in Callers \ {p} : InTransaction(q)' <=> InTransaction(q)
<1>1. /\ call' \in [Callers -> Call \cup {Idle}] /\ call'[p] = Idle
      /\ \A q \in Callers \ {p} : call'[q] = call[q]
  BY DEF Return, PromotionInv, PromotionTypes
<1>2. QED
  BY <1>1 DEF InTransaction

\* The transaction commits: its draft is active and what it saw is retired.
LEMMA PromoteStep == ASSUME PromotionInv, NEW p \in Callers, Promote(p) PROVE PromotionInv'
<1> DEFINE d == call[p].of
<1>1. /\ call[p].at = "locked" /\ Return(p) /\ together' = together
      /\ art' = [a \in Artifacts |->
           IF a = d THEN [status |-> "active", promotion |-> "passed"]
           ELSE IF a \in call[p].old THEN [art[a] EXCEPT !.status = "retired"] ELSE art[a]]
  BY DEF Promote, Retired
<1>2. OosInv' /\ (Stands' <=> Stands)
  BY ValidationIdle DEF Promote
<1>3. call[p] # Idle /\ InTransaction(p)
  BY <1>1 DEF Idle, InTransaction
<1>4. d \in Artifacts /\ call[p].passed
  BY <1>3, InCall DEF PromotionInv, EvidenceHolds
<1>5. /\ call' \in [Callers -> Call \cup {Idle}] /\ call'[p] = Idle
      /\ \A q \in Callers \ {p} : call'[q] = call[q]
      /\ ~InTransaction(p)'
      /\ \A q \in Callers \ {p} : InTransaction(q)' <=> InTransaction(q)
  BY <1>1, ReturnEffect
<1>6. art \in [Artifacts -> Artifact]
  BY DEF PromotionInv, PromotionTypes
<1>7. /\ art[d].status = "draft"
      /\ \A a \in call[p].old : art[a].status \in {"active", "retired"}
  BY <1>3 DEF PromotionInv, LocksHold
<1> HIDE DEF d
<1>8. /\ art'[d].status = "active" /\ art'[d].promotion = "passed"
      /\ \A a \in Artifacts \ {d} :
           /\ art'[a].promotion = art[a].promotion
           /\ art'[a].status = IF a \in call[p].old THEN "retired" ELSE art[a].status
  BY <1>1, <1>4, <1>6 DEF Artifact
<1>9. art' \in [Artifacts -> Artifact]
  BY <1>1, <1>6 DEF Artifact
<1>10. PromotionTypes'
  BY <1>1, <1>5, <1>8, <1>9 DEF PromotionInv, PromotionTypes
<1>11. PassedStays'
  BY <1>7, <1>8 DEF PromotionInv, PassedStays
<1>12. LocksHold'
  <2>1. ASSUME NEW q \in Callers \ {p}, InTransaction(q)
        PROVE  /\ art'[call[q].of].status = "draft"
               /\ \A a \in call[q].old : art'[a].status \in {"active", "retired"}
    <3>1. call[q].of \in Artifacts /\ call[q].old \subseteq Artifacts
      BY <2>1, InCall DEF InTransaction, Call
    <3>2. call[q].of # d
      BY <1>3, <2>1 DEF PromotionInv, LocksHold, d
    <3>3. /\ art[call[q].of].status = "draft"
          /\ \A a \in call[q].old : art[a].status \in {"active", "retired"}
      BY <2>1 DEF PromotionInv, LocksHold
    <3>4. QED
      BY <1>7, <1>8, <3>1, <3>2, <3>3
  <2>2. QED
    BY <1>5, <2>1 DEF PromotionInv, LocksHold
<1>13. AloneHolds'
  <2> SUFFICES ASSUME ~together' PROVE AloneHolds'
    BY DEF AloneHolds
  <2>1. /\ \A q \in Callers : ~InTransaction(q)'
    BY <1>1, <1>3, <1>5 DEF PromotionInv, AloneHolds
  <2>2. Active \subseteq call[p].old
    BY <1>1, <1>3 DEF PromotionInv, AloneHolds
  <2>3. \A a \in Active' : a = d
    BY <1>8, <2>2 DEF Active
  <2>4. QED
    BY <2>1, <2>3 DEF AloneHolds
<1>14. EvidenceHolds'
  <2>1. Bound \in Artifacts
    BY PromotionAssumption
  <2>2. art'[Bound].status = "active" => art[Bound].status = "active" \/ Bound = d
    BY <1>8, <2>1
  <2>3. Bound = d => Stands
    BY <1>3, <1>4 DEF PromotionInv, EvidenceHolds, d
  <2>4. QED
    BY <1>2, <1>5, <2>2, <2>3 DEF PromotionInv, EvidenceHolds
<1>15. QED
  BY <1>2, <1>10, <1>11, <1>12, <1>13, <1>14 DEF PromotionInv

\* A failure is recorded on a draft nobody has locked.
LEMMA MarkFailedStep ==
  ASSUME PromotionInv, NEW p \in Callers, MarkFailed(p)
  PROVE  PromotionInv'
<1> DEFINE d == call[p].of
<1>1. /\ call[p].at = "checked" /\ art[d].status = "draft"
      /\ art' = [art EXCEPT ![d].promotion = "failed"]
      /\ Return(p) /\ together' = together
  BY DEF MarkFailed
<1>2. OosInv' /\ (Stands' <=> Stands)
  BY ValidationIdle DEF MarkFailed
<1>3. call[p] # Idle /\ ~InTransaction(p)
  BY <1>1 DEF Idle, InTransaction
<1>4. d \in Artifacts
  BY <1>3, InCall
<1>5. /\ call' \in [Callers -> Call \cup {Idle}] /\ call'[p] = Idle
      /\ \A q \in Callers \ {p} : call'[q] = call[q]
      /\ ~InTransaction(p)'
      /\ \A q \in Callers \ {p} : InTransaction(q)' <=> InTransaction(q)
  BY <1>1, ReturnEffect
<1> HIDE DEF d
<1>6. /\ art' \in [Artifacts -> Artifact]
      /\ art'[d].status = "draft" /\ art'[d].promotion = "failed"
      /\ \A a \in Artifacts \ {d} : art'[a] = art[a]
  BY <1>1, <1>4 DEF PromotionInv, PromotionTypes, Artifact
<1>7. \A a \in Artifacts : art'[a].status = art[a].status
  BY <1>1, <1>6
<1>8. Active' = Active
  BY <1>7 DEF Active
<1>9. PromotionTypes'
  BY <1>1, <1>5, <1>6 DEF PromotionInv, PromotionTypes
<1>10. PassedStays'
  BY <1>6 DEF PromotionInv, PassedStays
<1>11. \A q \in Callers : InTransaction(q) =>
         call[q].of \in Artifacts /\ call[q].old \subseteq Artifacts
  BY InCall DEF InTransaction, Call
<1>12. LocksHold'
  BY <1>3, <1>5, <1>7, <1>11 DEF PromotionInv, LocksHold
<1>13. AloneHolds'
  BY <1>1, <1>3, <1>5, <1>8 DEF PromotionInv, AloneHolds
<1>14. EvidenceHolds'
  BY <1>2, <1>5, <1>7, PromotionAssumption DEF PromotionInv, EvidenceHolds
<1>15. QED
  BY <1>2, <1>9, <1>10, <1>12, <1>13, <1>14 DEF PromotionInv

\* A call that is dropped changes no version.
LEMMA DropStep == ASSUME PromotionInv, NEW p \in Callers, Drop(p) PROVE PromotionInv'
<1>1. Return(p) /\ art' = art /\ together' = together
  BY DEF Drop
<1>2. OosInv' /\ (Stands' <=> Stands)
  BY ValidationIdle DEF Drop
<1>3. /\ call' \in [Callers -> Call \cup {Idle}] /\ call'[p] = Idle
      /\ \A q \in Callers \ {p} : call'[q] = call[q]
      /\ ~InTransaction(p)'
      /\ \A q \in Callers \ {p} : InTransaction(q)' <=> InTransaction(q)
  BY <1>1, ReturnEffect
<1>4. PromotionTypes' /\ PassedStays'
  BY <1>1, <1>3 DEF PromotionInv, PromotionTypes, PassedStays
<1>5. Active' = Active
  BY <1>1 DEF Active
<1>6. LocksHold'
  BY <1>1, <1>3 DEF PromotionInv, LocksHold
<1>7. AloneHolds'
  BY <1>1, <1>3, <1>5 DEF PromotionInv, AloneHolds
<1>8. EvidenceHolds'
  BY <1>1, <1>2, <1>3 DEF PromotionInv, EvidenceHolds
<1>9. QED
  BY <1>2, <1>4, <1>6, <1>7, <1>8 DEF PromotionInv
-----------------------------------------------------------------------------
\* Every step of the composition keeps the invariant.
LEMMA PromotionStepInv == PromotionInv /\ [PromotionNext]_allVars => PromotionInv'
<1> SUFFICES ASSUME PromotionInv, [PromotionNext]_allVars PROVE PromotionInv'
  OBVIOUS
<1>1. CASE Next /\ UNCHANGED pvars
  BY <1>1, ValidationStep
<1>2. CASE Promotion
  <2>1. ASSUME NEW a \in Artifacts, Register(a) PROVE PromotionInv'
    BY <2>1, RegisterStep
  <2>2. ASSUME NEW p \in Callers,
               \/ \E a \in Artifacts, screen \in BOOLEAN : Check(p, a, screen)
               \/ Lock(p) \/ Promote(p) \/ MarkFailed(p) \/ Drop(p)
        PROVE  PromotionInv'
    BY <2>2, CheckStep, LockStep, PromoteStep, MarkFailedStep, DropStep, Zenon
  <2>3. QED
    BY <1>2, <2>1, <2>2, Zenon DEF Promotion
<1>3. CASE UNCHANGED allVars
  BY <1>3, ValidationStep DEF allVars
<1>4. QED
  BY <1>1, <1>2, <1>3 DEF PromotionNext

\* The invariant of the composition: transactions hold their locks, and what a bound
\* version rests on stands from the gate on.
THEOREM PromotionInvariant == PromotionSpec => []PromotionInv
  BY PromotionInitInv, PromotionStepInv, PTL DEF PromotionSpec

\* The rows and the calls have their types.
THEOREM PromotionTyped == PromotionSpec => []PromotionTypeOK
<1>1. PromotionInv => PromotionTypeOK
  BY DEF PromotionInv, PromotionTypes, PromotionTypeOK, OosInv
<1>2. QED
  BY <1>1, PromotionInvariant, PTL

\* Promotion and validation agree although they share no lock: an active version bound to
\* the experiment rests on a published passing verdict.
THEOREM Evidence == PromotionSpec => []EvidenceStands
<1>1. PromotionInv => EvidenceStands
  BY DEF PromotionInv, EvidenceHolds, EvidenceStands, Stands
<1>2. QED
  BY <1>1, PromotionInvariant, PTL

\* The failure of a call that read the draft earlier never marks a promoted version.
THEOREM Passed == PromotionSpec => []PassedStays
<1>1. PromotionInv => PassedStays
  BY DEF PromotionInv
<1>2. QED
  BY <1>1, PromotionInvariant, PTL

\* Promotions that do not overlap leave at most one active version.
THEOREM OneActiveAlone == PromotionSpec => []OneActive
<1>1. ASSUME PromotionInv PROVE OneActive
  <2> SUFFICES ASSUME ~together PROVE Cardinality(Active) <= 1
    BY DEF OneActive
  <2>1. \A a, b \in Active : a = b
    BY <1>1 DEF PromotionInv, AloneHolds
  <2>2. CASE Active = {}
    BY <2>2, FS_EmptySet
  <2>3. CASE Active # {}
    <3>1. PICK a \in Active : Active = {a}
      BY <2>1, <2>3
    <3>2. QED
      BY <3>1, FS_Singleton
  <2>4. QED
    BY <2>2, <2>3
<1>2. QED
  BY <1>1, PromotionInvariant, PTL

\* A promotion that started from a draft never revives a version retired since.
THEOREM RetiredForGood == PromotionSpec => RetiredIsFinal
<1>1. ASSUME PromotionInv, [PromotionNext]_allVars,
             NEW b \in Artifacts, art[b].status = "retired"
      PROVE  art'[b].status = "retired"
  <2>1. art \in [Artifacts -> Artifact]
    BY <1>1 DEF PromotionInv, PromotionTypes
  <2>2. ASSUME NEW a \in Artifacts, Register(a) PROVE art'[b].status = "retired"
    BY <1>1, <2>1, <2>2 DEF Register
  <2>3. ASSUME NEW p \in Callers, Promote(p) PROVE art'[b].status = "retired"
    <3>1. InTransaction(p)
      BY <2>3 DEF Promote, InTransaction, Idle
    <3>2. b # call[p].of
      BY <1>1, <3>1 DEF PromotionInv, LocksHold
    <3>3. QED
      BY <1>1, <2>1, <2>3, <3>2 DEF Promote, Artifact
  <2>4. ASSUME NEW p \in Callers, MarkFailed(p) PROVE art'[b].status = "retired"
    BY <1>1, <2>1, <2>4 DEF MarkFailed, Artifact
  <2>5. ASSUME NEW p \in Callers,
               \/ \E a \in Artifacts, screen \in BOOLEAN : Check(p, a, screen)
               \/ Lock(p) \/ Drop(p)
        PROVE  art' = art
    BY <2>5, Zenon DEF Check, Lock, Drop
  <2>6. ASSUME UNCHANGED pvars PROVE art' = art
    BY <2>6 DEF pvars
  <2>7. QED
    BY <1>1, <2>2, <2>3, <2>4, <2>5, <2>6, Zenon DEF PromotionNext, Promotion, allVars
<1>2. PromotionInv /\ [PromotionNext]_allVars =>
        [\A a \in Artifacts : art[a].status = "retired" => art'[a].status = "retired"]_allVars
  BY <1>1
<1>3. QED
  BY <1>2, PromotionInvariant, PTL DEF PromotionSpec, RetiredIsFinal
=============================================================================
