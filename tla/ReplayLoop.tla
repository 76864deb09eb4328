----------------------------- MODULE ReplayLoop -----------------------------
(***************************************************************************)
(* The loop of invalidate_channel, pass by pass, as the reference for      *)
(* ReplayClosed: BatchEncoder states where a replay starts by a closure    *)
(* condition, the code computes it by expanding two sets.                  *)
(***************************************************************************)
EXTENDS BatchPipeline

Sorting == INSTANCE SequencesExt

(* One pass over the artifacts, in creation order. *)
SweepArtifacts(e, affected) ==
    LET visit(acc, a) ==
            LET ids == e.egress.artifacts[a].channel_ids
            IN  IF ids \cap acc.channels = {} /\ a \notin acc.artifacts
                THEN acc
                ELSE [channels |-> acc.channels \cup ids, artifacts |-> acc.artifacts \cup {a}]
    IN  FoldLeft(visit, affected, Sorting!SetToSortSeq(DOMAIN e.egress.artifacts, <))

ExtendWithSubmissionArtifacts(g, artifacts) ==
    artifacts \cup UNION {lease \in Range(g.pending) : lease \cap artifacts # {}}

(* Position of the first affected channel. *)
FirstAffected(e, ids) == Min({i \in DOMAIN e.channels : e.channels[i].id \in ids})

RECURSIVE Expand(_, _)
Expand(e, affected) ==
    LET swept == SweepArtifacts(e, affected)
        suffix == FirstAffected(e, swept.channels)..Len(e.channels)
        next == [channels |-> swept.channels \cup {e.channels[i].id : i \in suffix},
                 artifacts |-> ExtendWithSubmissionArtifacts(e.egress, swept.artifacts)]
    IN  IF next = affected THEN affected ELSE Expand(e, next)

(***************************************************************************)
(* Whichever channel expires, the loop of invalidate_channel stops at the  *)
(* position and the artifacts InvalidateChannel uses.                      *)
(***************************************************************************)
ReplayMatchesLoop ==
    \A idx \in DOMAIN encoder.channels :
        LET affected == Expand(encoder, [channels |-> {encoder.channels[idx].id}, artifacts |-> {}])
            replay == FirstAffected(encoder, affected.channels)
        IN  /\ replay = Max({i \in 1..idx : ReplayClosed(encoder, i)})
            /\ affected.artifacts = ReplayedArtifacts(encoder, replay)
=============================================================================
