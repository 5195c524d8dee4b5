------------------------------ MODULE MCGitRepo ------------------------------
(***************************************************************************)
(* Instances of PipelineGitRepo for TLC.                                   *)
(***************************************************************************)
EXTENDS PipelineGitRepo

\* Upstream has its default branch, another one, and two tags: the other branch's name
\* ends as the first tag does, and the second tag's as they both do. The branch
\* shadows the first tag; the second tag comes after both and shadows nothing.
MCBranches == <<"main", "pre-v1">>
MCTags     == <<"v1", "wip-pre-v1">>

MCEndsWith(n, r) ==
  \/ n = r
  \/ n = "pre-v1" /\ r = "v1"
  \/ n = "wip-pre-v1" /\ r \in {"pre-v1", "v1"}

=============================================================================
