---------------------------- MODULE CodePromotion ----------------------------
(***************************************************************************)
(* The promotion of research code, composed with the validation it rests    *)
(* on: the versions of one (kind, name) in research_code_artifacts, and the *)
(* calls of finboard.research_code.promote.  A call checks a draft against  *)
(* its screen and against the experiment that names it, without a lock;     *)
(* then it locks the draft's row, retires the versions its UPDATE sees as   *)
(* active and makes the draft active, in one transaction under READ         *)
(* COMMITTED.                                                               *)
(***************************************************************************)
EXTENDS OosValidation

CONSTANTS Artifacts,  \* versions of one name
          Bound,      \* the version the experiment's stamp names
          Callers     \* callers of promote

ASSUME PromotionAssumption == Bound \in Artifacts

VARIABLES art,      \* the artifacts' rows
          call,     \* per caller: the promotion in progress
          together  \* for properties: two promotions of the name were in their transaction

pvars == <<art, call, together>>
allVars == <<vars, pvars>>

Artifact == [status : {"unregistered", "draft", "active", "retired"},
             promotion : {"pending", "failed", "passed"}]
Call == [at : {"checked", "locked"}, of : Artifacts, passed : BOOLEAN, old : SUBSET Artifacts]

Active    == {a \in Artifacts : art[a].status = "active"}
Locked(a) == \E p \in Callers : call[p] # Idle /\ call[p].at = "locked" /\ call[p].of = a

PromotionTypeOK ==
  /\ TypeOK
  /\ art \in [Artifacts -> Artifact]
  /\ call \in [Callers -> Call \cup {Idle}]
  /\ together \in BOOLEAN
  /\ \A a \in Artifacts : art[a].status = "unregistered" => art[a].promotion = "pending"

PromotionInit ==
  /\ Init
  /\ art = [a \in Artifacts |-> [status |-> "unregistered", promotion |-> "pending"]]
  /\ call = [p \in Callers |-> Idle]
  /\ together = FALSE
-----------------------------------------------------------------------------
Return(p) == call' = [call EXCEPT ![p] = Idle]

\* submit, and rollback_to_draft of an old commit: a version of its own.
Register(a) ==
  /\ art[a].status = "unregistered"
  /\ art' = [art EXCEPT ![a].status = "draft"]
  /\ UNCHANGED <<vars, call, together>>

\* Mutant: the verdict counts before the final test is committed.
GateInSample(a) == a = Bound => exp # NoRow /\ exp.status \in {"in_sample", "validated_oos"}

\* The validation half of evaluate_promotion_gates; other versions have experiments of
\* their own.
Gate(a) == a = Bound => exp # NoRow /\ exp.status = "validated_oos" /\ exp.unsealed

\* promote reads the draft, its evidence and the gates; screen is the other half.
Check(p, a, screen) ==
  /\ call[p] = Idle /\ art[a].status = "draft"
  /\ call' = [call EXCEPT ![p] =
       [at |-> "checked", of |-> a, passed |-> screen /\ Gate(a), old |-> {}]]
  /\ UNCHANGED <<vars, art, together>>

\* The passed draft's row is locked, if it is a draft still, and the UPDATE of
\* _retire_active takes its snapshot.
Lock(p) ==
  /\ call[p].at = "checked" /\ call[p].passed /\ ~Locked(call[p].of)
  /\ art[call[p].of].status = "draft"
  /\ call' = [call EXCEPT ![p].at = "locked", ![p].old = Active]
  /\ together' = (together \/ \E a \in Artifacts : Locked(a))
  /\ UNCHANGED <<vars, art>>

\* Mutant: nothing is retired.
RetiredNone(p) == {}

\* What the transaction retires.
Retired(p) == call[p].old

\* ResearchCodeArtifactRepository.promote commits.
Promote(p) ==
  /\ call[p].at = "locked"
  /\ art' = [a \in Artifacts |->
       IF a = call[p].of THEN [status |-> "active", promotion |-> "passed"]
       ELSE IF a \in Retired(p) THEN [art[a] EXCEPT !.status = "retired"] ELSE art[a]]
  /\ Return(p)
  /\ UNCHANGED <<vars, together>>

\* mark_promotion_failed: the draft stays a draft.
MarkFailed(p) ==
  /\ call[p].at = "checked" /\ ~call[p].passed /\ ~Locked(call[p].of)
  /\ art[call[p].of].status = "draft"
  /\ art' = [art EXCEPT ![call[p].of].promotion = "failed"]
  /\ Return(p)
  /\ UNCHANGED <<vars, together>>

\* The call ends without a commit: the version is no draft any more, or it fails.
Drop(p) == call[p] # Idle /\ Return(p) /\ UNCHANGED <<vars, art, together>>
-----------------------------------------------------------------------------
Promotion ==
  \/ \E a \in Artifacts : Register(a)
  \/ \E p \in Callers :
       \/ \E a \in Artifacts, screen \in BOOLEAN : Check(p, a, screen)
       \/ Lock(p) \/ Promote(p) \/ MarkFailed(p) \/ Drop(p)

PromotionNext == (Next /\ UNCHANGED pvars) \/ Promotion

PromotionSpec == PromotionInit /\ [][PromotionNext]_allVars
-----------------------------------------------------------------------------
(* Properties. *)

\* Two components' agreement: as long as the experiment exists and nobody wrote an old copy
\* over it, an active version bound to it rests on a published passing verdict, although
\* the gate was checked before the transaction and the executor shares no lock with it.
EvidenceStands ==
  art[Bound].status = "active" /\ exp # NoRow /\ ~seen.stale =>
    exp.status = "validated_oos" /\ exp.unsealed

\* A version that was active once keeps its passed promotion: a failing call that had read
\* the draft before another call promoted it does not mark it (get_active would lose it).
PassedStays ==
  \A a \in Artifacts : art[a].status \in {"active", "retired"} <=> art[a].promotion = "passed"

\* Formal runs find at most one active version, unless two promotions of the name were in
\* their transactions together: no index holds the two apart.
OneActive == ~together => Cardinality(Active) <= 1

\* A retired version comes back only as a new draft, never by a late promotion.
RetiredIsFinal ==
  [][\A a \in Artifacts : art[a].status = "retired" => art'[a].status = "retired"]_allVars
=============================================================================
