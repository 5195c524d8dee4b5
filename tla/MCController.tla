---------------------------- MODULE MCController ----------------------------
(***************************************************************************)
(* Instances of OperatorPipelineController for TLC.                        *)
(***************************************************************************)
EXTENDS OperatorPipelineController, TLC

CONSTANTS p1, p2, p3, n1, n2

Swap == Permutations({p1, p2})

\* CRs of one namespace, and three CRs of which one has a namespace of its own.
OneNamespace == [p \in Pipelines |-> n1]
ThreeInTwo   == (p1 :> n1) @@ (p2 :> n1) @@ (p3 :> n2)

=============================================================================
