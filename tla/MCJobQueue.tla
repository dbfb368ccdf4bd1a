----------------------------- MODULE MCJobQueue -----------------------------
(* Constants for model-checking JobQueue: all jobs are of one kind, which    *)
(* may run one job at a time; each has its own key, or all but one share it. *)
EXTENDS JobQueue

CONSTANTS Loner   \* the job that shares its key with no other

OneKind    == [j \in Jobs |-> "kind"]
OwnKey     == [j \in Jobs |-> j]
SharedKey  == [j \in Jobs |-> IF j = Loner THEN "own" ELSE "shared"]
OneAtATime == [k \in {"kind"} |-> 1]
============================================================================
