----------------------------- MODULE MCNamespace -----------------------------
(***************************************************************************)
(* Instances of NamespaceObjects for TLC.                                  *)
(***************************************************************************)
EXTENDS NamespaceObjects, TLC

CONSTANTS p1, p2, ci, task, stream, r1, r2

\* One object of each kind, in the order of a pass.
OneOfEach == <<ci, task, stream>>

\* Two CRs of which the first switches the pipeline on and the second does not.
OneSwitchesOn ==
  {(p1 :> [release |-> r1, apply |-> {ci}]) @@ (p2 :> [release |-> r1, apply |-> {}])}

\* One CR that asks for all there is.
AllOn == {[p \in Pipelines |-> [release |-> r1, apply |-> TektonPipelines]]}

=============================================================================
