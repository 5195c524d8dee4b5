---------------------------- MODULE StatusReports ----------------------------
(***************************************************************************)
(* What the StatusReconciler promises to those who read an                 *)
(* OperatorPipeline: every status is that of one whole pass over the CR as *)
(* it is when the status is written. A pass reports the checks in their    *)
(* order, down to the first that does not hold, and leaves the conditions  *)
(* of those after it alone.                                                *)
(***************************************************************************)
EXTENDS Integers, Sequences

CONSTANTS
  Checks,      \* what there is to check
  CheckOrder,  \* the order in which a pass checks it
  Optional,    \* the checks that are made only if the spec asks for them
  Silent,      \* those that may fail without a word, when their read fails
  Editable,    \* what users ask for or not
  Failures     \* the reasons of conditions that are False

VARIABLE cr

Init ==
  \E asked \in SUBSET Editable :
    cr = [generation         |-> 1,
          asked              |-> asked,
          observedGeneration |-> 0,
          reason             |-> [c \in Checks |-> "none"],
          observed           |-> [c \in Checks |-> 0]]

Relevant(c) == c \notin Optional \/ c \in cr.asked

\* The checks that a pass makes before the k-th.
Before(k) == {c \in Checks : Relevant(c) /\ \E i \in 1..(k - 1) : CheckOrder[i] = c}

\* The CR with the status of a pass in which some checks held and some failed.
With(held, failed, reason) ==
  [cr EXCEPT
     !.observedGeneration = cr.generation,
     !.reason   = [c \in Checks |-> IF c \in held THEN "AsExpected"
                                    ELSE IF c \in failed THEN reason ELSE cr.reason[c]],
     !.observed = [c \in Checks |-> IF c \in held \cup failed THEN cr.generation
                                    ELSE cr.observed[c]]]

\* A user writes a new spec.
Edit ==
  \E asked \in SUBSET Editable :
    cr' = [cr EXCEPT !.generation = @ + 1, !.asked = asked]

\* Everything holds.
ReportAll == cr' = With(Before(Len(CheckOrder) + 1), {}, "none")

\* The k-th check fails, and says why.
ReportFailure(k) ==
  /\ Relevant(CheckOrder[k])
  /\ \E reason \in Failures : cr' = With(Before(k), {CheckOrder[k]}, reason)

\* The k-th check could not be made.
ReportUntil(k) ==
  /\ Relevant(CheckOrder[k]) /\ CheckOrder[k] \in Silent
  /\ cr' = With(Before(k), {}, "none")

\* A pass is cut off by a crash, or its write is rejected because the CR has changed:
\* there is no report of it at all.
NoReport == UNCHANGED cr

Next ==
  \/ NoReport
  \/ Edit
  \/ ReportAll
  \/ \E k \in 1..Len(CheckOrder) : ReportFailure(k) \/ ReportUntil(k)

Spec == Init /\ [][Next]_cr

=============================================================================
