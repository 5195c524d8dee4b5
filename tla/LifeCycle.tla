------------------------------ MODULE LifeCycle ------------------------------
(***************************************************************************)
(* What the operator promises of the objects that OperatorPipelines share  *)
(* and that no garbage collector removes: they come with the first CR that *)
(* needs them and go with the last one. Passes, caches, queues, conflicts  *)
(* and crashes are not seen here. OperatorPipelineController implements    *)
(* this as long as its caches keep up and users delete in the background   *)
(* a CR that has its finalizer.                                            *)
(***************************************************************************)

CONSTANTS
  Pipelines,  \* the OperatorPipelines
  Objects,    \* the shared objects
  NeedsOf     \* the set of objects that each OperatorPipeline needs

VARIABLES
  life,  \* each CR: absent, new, guarded (by its finalizer) or leaving
  objs   \* the objects that exist

vars == <<life, objs>>

Present(p) == life[p] # "absent"

Users(o) == {p \in Pipelines : Present(p) /\ o \in NeedsOf[p]}

TypeOK ==
  /\ life \in [Pipelines -> {"absent", "new", "guarded", "leaving"}]
  /\ objs \subseteq Objects

Init ==
  /\ life = [p \in Pipelines |-> "absent"]
  /\ objs = {}

Becomes(p, before, after) ==
  /\ life[p] = before
  /\ life' = [life EXCEPT ![p] = after]
  /\ UNCHANGED objs

Create(p) == Becomes(p, "absent", "new")
Guard(p)  == Becomes(p, "new", "guarded")
Delete(p) == Becomes(p, "guarded", "leaving")

\* A CR may go when what it needs is gone, or needed by another one.
Release(p) ==
  /\ Becomes(p, "leaving", "absent")
  /\ \A o \in objs \cap NeedsOf[p] : Users(o) # {p}

Provide(o) ==
  /\ o \notin objs
  /\ Users(o) # {}
  /\ objs' = objs \cup {o}
  /\ UNCHANGED life

\* An object is removed for a CR that leaves. Another one that needs it can only
\* have come in the meantime: it has no finalizer, and its pass is still to come.
Remove(o) ==
  /\ o \in objs
  /\ \E p \in Users(o) :
       /\ life[p] = "leaving"
       /\ \A q \in Users(o) \ {p} : life[q] = "new"
  /\ objs' = objs \ {o}
  /\ UNCHANGED life

Next ==
  \/ \E p \in Pipelines : Create(p) \/ Guard(p) \/ Delete(p) \/ Release(p)
  \/ \E o \in Objects : Provide(o) \/ Remove(o)

Spec == Init /\ [][Next]_vars

\* No object outlives the CRs that need it.
EveryObjectHasAUser == \A o \in objs : Users(o) # {}

=============================================================================
