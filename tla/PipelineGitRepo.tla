--------------------------- MODULE PipelineGitRepo ---------------------------
(***************************************************************************)
(* PipelineGitRepoReconciler: the one clone of the operator-pipelines      *)
(* repository that all OperatorPipelines share, and the worktree that the  *)
(* reconcilers after it read.                                              *)
(*                                                                         *)
(* One worker makes the passes of all CRs. A pass clones or opens the      *)
(* repository, fetches, looks for the CR's release among the references,   *)
(* resets the worktree and checks the release out. When one of these       *)
(* fails, the pass goes on with the worktree as it is. Upstream moves, and *)
(* the process may stop, between any two steps.                            *)
(***************************************************************************)
EXTENDS Integers, Sequences

CONSTANTS
  Pipelines,       \* the OperatorPipelines
  Branches, Tags,  \* the names of upstream's branches and tags, sorted
  Default,         \* the branch that upstream's HEAD names
  Releases,        \* what the specs of OperatorPipelines ask for
  EndsWith(_, _),  \* the first name has the second as a suffix
  NoPipeline,      \* the worker's request when it has none
  Annotated,       \* the annotated tags: their references hold an object of their
                   \* own that names a commit
  NoCommit,        \* no commit
  TagObject,       \* what HEAD holds when it holds the object of an annotated tag
  Mixed,           \* the files of a checkout that did not finish
  MaxCommits,      \* bound on the commits of a branch or tag
  MaxDisturbances  \* bound on pushes, deletions and edits of users, and on
                   \* failed calls and stops of the process, together

NameSet(s) == {s[i] : i \in 1..Len(s)}
Names == NameSet(Branches) \cup NameSet(Tags)

\* A commit is the name it was pushed to, and a number. The object of an annotated tag
\* goes by the commit that it names, except in HEAD.
Commits == Names \X (1..MaxCommits)

ASSUME GitAssumption ==
  /\ Branches \in Seq(STRING) /\ Tags \in Seq(STRING)
  /\ Default \in NameSet(Branches)
  /\ Releases \subseteq Names
  /\ \A n, r \in Names : EndsWith(n, r) \in BOOLEAN
  /\ \A r \in Releases : EndsWith(r, r)
  /\ Annotated \subseteq NameSet(Tags) \ NameSet(Branches)
  /\ NoPipeline \notin Pipelines
  /\ NoCommit \notin Commits /\ Mixed \notin Commits /\ NoCommit # Mixed
  /\ TagObject \notin Commits \cup {NoCommit, Mixed}
  /\ MaxCommits \in Nat \ {0}
  /\ MaxDisturbances \in Nat

VARIABLES
  remote,        \* upstream: the commit of each branch and tag
  wanted,        \* the operatorPipelinesRelease of each OperatorPipeline
  cloned,        \* the clone's directory exists
  refs,          \* the clone's references, in the order of RefOrder
  head, tree,    \* what HEAD names, and whose files the worktree has
  pc, req,       \* the worker
  release, hash, \* the release of its copy of the CR, and the commit found for it
  failed,        \* cloneOrPullRepo returned an error
  disturbances

clone == <<cloned, refs, head, tree>>
vars  == <<remote, wanted, cloned, refs, head, tree, pc, req, release, hash,
           failed, disturbances>>

\* References in the order in which an iteration visits them: refs/heads, which
\* has the branch made by the clone, refs/remotes/origin, refs/tags.
RefOrder ==
  <<[kind |-> "head", name |-> Default]>>
    \o [i \in 1..Len(Branches) |-> [kind |-> "remote", name |-> Branches[i]]]
    \o [i \in 1..Len(Tags) |-> [kind |-> "tag", name |-> Tags[i]]]

Places == 1..Len(RefOrder)

Steps == {"clone", "fetch", "find", "reset", "checkout", "apply"}

TypeOK ==
  /\ remote \in [Names -> Commits \cup {NoCommit}]
  /\ wanted \in [Pipelines -> Releases]
  /\ cloned \in BOOLEAN
  /\ refs \in [Places -> Commits \cup {NoCommit}]
  /\ head \in Commits \cup {NoCommit, TagObject}
  /\ tree \in Commits \cup {NoCommit, Mixed}
  /\ pc \in {"idle"} \cup Steps
  /\ req \in Pipelines \cup {NoPipeline}
  /\ (req = NoPipeline) <=> (pc = "idle")
  /\ release \in Releases
  /\ hash \in Commits \cup {NoCommit}
  /\ failed \in BOOLEAN
  /\ disturbances \in 0..MaxDisturbances

NoRefs == [i \in Places |-> NoCommit]

\* Upstream has its default branch and maybe others; the volume is empty.
Init ==
  /\ \E there \in SUBSET Names :
       /\ Default \in there
       /\ remote = [n \in Names |-> IF n \in there THEN <<n, 1>> ELSE NoCommit]
  /\ wanted \in [Pipelines -> Releases]
  /\ cloned = FALSE
  /\ refs = NoRefs
  /\ head = NoCommit
  /\ tree = NoCommit
  /\ pc = "idle"
  /\ req = NoPipeline
  /\ release \in Releases
  /\ hash = NoCommit
  /\ failed = FALSE
  /\ disturbances = 0

-----------------------------------------------------------------------------
(***************************************************************************)
(* The surroundings                                                        *)
(***************************************************************************)

Disturb ==
  /\ disturbances < MaxDisturbances
  /\ disturbances' = disturbances + 1

worker == <<pc, req, release, hash, failed>>

\* A push moves a branch or a tag, or makes it.
Push(n) ==
  /\ Disturb
  /\ \/ remote[n] = NoCommit /\ remote' = [remote EXCEPT ![n] = <<n, 1>>]
     \/ /\ remote[n] # NoCommit /\ remote[n][2] < MaxCommits
        /\ remote' = [remote EXCEPT ![n] = <<n, @[2] + 1>>]
  /\ UNCHANGED <<wanted, clone, worker>>

UpstreamDeletes(n) ==
  /\ Disturb
  /\ n # Default /\ remote[n] # NoCommit
  /\ remote' = [remote EXCEPT ![n] = NoCommit]
  /\ UNCHANGED <<wanted, clone, worker>>

UserEdits(p) ==
  /\ Disturb
  /\ \E r \in Releases \ {wanted[p]} : wanted' = [wanted EXCEPT ![p] = r]
  /\ UNCHANGED <<remote, clone, worker>>

\* References after a fetch. Branches and tags are moved by force; none is pruned,
\* and the local branch is not touched.
Fetched(old) ==
  [i \in Places |->
     IF RefOrder[i].kind = "head" \/ remote[RefOrder[i].name] = NoCommit
     THEN old[i] ELSE remote[RefOrder[i].name]]

\* What a clone makes of them: the remote's, and the local branch beside them.
Cloned ==
  [i \in Places |-> IF RefOrder[i].kind = "head" THEN remote[Default] ELSE Fetched(NoRefs)[i]]

\* Mutant of Idle: the worker keeps the request of the pass that ended.
IdleKeepsRequest ==
  /\ pc' = "idle"
  /\ hash' = NoCommit
  /\ failed' = FALSE
  /\ UNCHANGED <<req, release>>

\* The pass is over.
Idle ==
  /\ pc' = "idle"
  /\ req' = NoPipeline
  /\ hash' = NoCommit
  /\ failed' = FALSE
  /\ UNCHANGED release

\* w.Checkout writes HEAD twice: first the hash that it was given, then, after a look
\* at the worktree, the commit that this is or names.
FirstHead == IF hash[1] \in Annotated THEN TagObject ELSE hash

\* It ends after the first write, or after the second and amid the files.
HalfCheckout ==
  \/ head' = FirstHead /\ UNCHANGED tree
  \/ head' = hash /\ tree' = Mixed

\* The process stops and its container is started again, with the volume as it is:
\* a clone that was begun, or a worktree that was being written.
ContainerRestarts ==
  /\ Disturb
  /\ Idle
  /\ \/ UNCHANGED clone
     \/ /\ pc = "clone" /\ ~cloned
        /\ cloned' = TRUE
        /\ \/ UNCHANGED <<refs, head, tree>>
           \/ refs' = Cloned /\ head' = remote[Default] /\ tree' = Mixed
     \/ pc = "reset" /\ tree' = Mixed /\ UNCHANGED <<cloned, refs, head>>
     \/ pc = "checkout" /\ HalfCheckout /\ UNCHANGED <<cloned, refs>>
  /\ UNCHANGED <<remote, wanted>>

\* The pod is replaced, and the emptyDir with it.
PodIsReplaced ==
  /\ Disturb
  /\ Idle
  /\ cloned' = FALSE
  /\ refs' = NoRefs
  /\ head' = NoCommit
  /\ tree' = NoCommit
  /\ UNCHANGED <<remote, wanted>>

-----------------------------------------------------------------------------
(***************************************************************************)
(* One pass                                                                *)
(***************************************************************************)

\* The pass goes on with the next step of cloneOrPullRepo.
GoOn(step) == pc' = step /\ UNCHANGED <<remote, wanted, req, release, failed>>

\* cloneOrPullRepo returns an error: the requeue is noted, and the next reconciler
\* called all the same.
Fails == pc' = "apply" /\ failed' = TRUE /\ UNCHANGED <<remote, wanted, req, release, hash>>

Start(p) ==
  /\ pc = "idle"
  /\ pc' = "clone"
  /\ req' = p
  /\ release' = wanted[p]
  /\ UNCHANGED <<remote, wanted, clone, hash, failed, disturbances>>

\* git.PlainClone of a directory that is empty, with a checkout of the default branch.
Clone ==
  /\ pc = "clone" /\ ~cloned
  /\ cloned' = TRUE
  /\ refs' = Cloned
  /\ head' = remote[Default]
  /\ tree' = remote[Default]
  /\ GoOn("fetch")
  /\ UNCHANGED <<hash, disturbances>>

\* ErrRepositoryAlreadyExists, and git.PlainOpen.
Open ==
  /\ pc = "clone" /\ cloned
  /\ GoOn("fetch")
  /\ UNCHANGED <<clone, hash, disturbances>>

Fetch ==
  /\ pc = "fetch"
  /\ refs' = Fetched(refs)
  /\ GoOn("find")
  /\ UNCHANGED <<cloned, head, tree, hash, disturbances>>

\* The short name of a reference ends with the release (origin/x ends as x does).
Matches(i) == refs[i] # NoCommit /\ EndsWith(RefOrder[i].name, release)

\* Mutant of FindReference: the iteration does not stop at the first match.
FindLastReference ==
  /\ pc = "find"
  /\ \/ \E i \in Places :
          /\ Matches(i)
          /\ \A j \in (i + 1)..Len(RefOrder) : ~Matches(j)
          /\ hash' = refs[i]
          /\ GoOn("reset")
     \/ (\A i \in Places : ~Matches(i)) /\ Fails
  /\ UNCHANGED <<clone, disturbances>>

\* The first reference that matches is taken, or none is found.
FindReference ==
  /\ pc = "find"
  /\ \/ \E i \in Places :
          /\ Matches(i)
          /\ \A j \in 1..(i - 1) : ~Matches(j)
          /\ hash' = refs[i]
          /\ GoOn("reset")
     \/ (\A i \in Places : ~Matches(i)) /\ Fails
  /\ UNCHANGED <<clone, disturbances>>

\* Mutant of Reset: local changes stay.
ResetNothing ==
  /\ pc = "reset"
  /\ GoOn("checkout")
  /\ UNCHANGED <<clone, hash, disturbances>>

\* Mutant of Reset: a HEAD that names no commit is not an error.
ResetAnyHead ==
  /\ pc = "reset"
  /\ tree' = IF head = TagObject THEN tree ELSE head
  /\ GoOn("checkout")
  /\ UNCHANGED <<cloned, refs, head, hash, disturbances>>

\* A hard reset to HEAD, which has to name a commit.
Reset ==
  /\ pc = "reset"
  /\ \/ head \in Commits /\ tree' = head /\ GoOn("checkout") /\ UNCHANGED hash
     \/ head \notin Commits /\ Fails /\ UNCHANGED tree
  /\ UNCHANGED <<cloned, refs, head, disturbances>>

\* Mutant of Checkout: its error is not returned.
CheckoutLogged ==
  /\ pc = "checkout"
  /\ head' = hash
  /\ \/ tree = head /\ tree' = hash /\ UNCHANGED disturbances
     \/ tree # head /\ UNCHANGED <<tree, disturbances>>
     \/ Disturb /\ tree' = Mixed
  /\ GoOn("apply")
  /\ UNCHANGED <<cloned, refs, hash>>

\* HEAD is moved first; files that differ from the old HEAD are an error then.
Checkout ==
  /\ pc = "checkout"
  /\ \/ /\ tree = head
        /\ head' = hash /\ tree' = hash
        /\ GoOn("apply")
        /\ UNCHANGED <<hash, disturbances>>
     \/ tree # head /\ head' = FirstHead /\ Fails /\ UNCHANGED <<tree, disturbances>>
     \/ Disturb /\ HalfCheckout /\ Fails
  /\ UNCHANGED <<cloned, refs>>

\* The network or the disk fails. A clone that fails removes what it made.
StepFails ==
  /\ pc \in {"clone", "fetch", "find", "reset"}
  /\ Disturb
  /\ Fails
  /\ \/ UNCHANGED clone
     \/ pc = "reset" /\ tree' = Mixed /\ UNCHANGED <<cloned, refs, head>>

\* The reconcilers after it work from the worktree, and the pass ends.
Apply ==
  /\ pc = "apply"
  /\ Idle
  /\ UNCHANGED <<remote, wanted, clone, disturbances>>

-----------------------------------------------------------------------------
Environment ==
  \/ \E n \in Names : Push(n) \/ UpstreamDeletes(n)
  \/ \E p \in Pipelines : UserEdits(p)
  \/ ContainerRestarts
  \/ PodIsReplaced

Step ==
  \/ Clone \/ Open \/ Fetch \/ FindReference \/ Reset \/ Checkout
  \/ StepFails \/ Apply

Next ==
  \/ Environment
  \/ \E p \in Pipelines : Start(p)
  \/ Step

Spec == Init /\ [][Next]_vars

\* A pass goes on, and every CR gets its passes: requeues after a failure, else the
\* informers' resync.
FairSpec == Spec /\ WF_vars(Step) /\ \A p \in Pipelines : SF_vars(Start(p))

-----------------------------------------------------------------------------
(***************************************************************************)
(* Properties                                                              *)
(***************************************************************************)

\* The worktree that the next reconcilers read and the HEAD that the status reports
\* as PipelinesRepoHash are, when cloneOrPullRepo succeeded, one commit, and one that
\* a reference for the CR's release names: no file of another CR's release, or of a
\* checkout that was interrupted, is left over.
SuccessInstallsAMatch ==
  pc = "apply" /\ ~failed =>
    tree = head /\ \E i \in Places : Matches(i) /\ tree = refs[i]

\* A clone whose HEAD names no commit: it was interrupted before it had a HEAD, or a
\* checkout of an annotated tag was between its two writes of HEAD.
Wedged == cloned /\ head \notin Commits

\* Another reference, visited earlier, ends with the release too.
Shadowed(r) ==
  \E i, j \in Places :
    /\ j < i /\ RefOrder[i].kind # "head" /\ RefOrder[i].name = r
    /\ refs[j] # NoCommit /\ EndsWith(RefOrder[j].name, r)

\* The clone has what upstream has now.
UpToDate ==
  \A i \in Places : RefOrder[i].kind # "head" /\ remote[RefOrder[i].name] # NoCommit =>
    refs[i] = remote[RefOrder[i].name]

\* A pass that has fetched all there is, and that succeeded, works from the very branch
\* or tag that its release names, and not only from one whose name ends like it, as
\* long as no earlier one does (the iteration over the references and its ErrStop).
SuccessInstallsTheRelease ==
  pc = "apply" /\ ~failed /\ UpToDate /\ remote[release] # NoCommit /\ ~Shadowed(release) =>
    tree = remote[release]

\* No worktree makes a pass fail, whatever other CRs checked out and interrupted
\* checkouts left in it: a pass only fails because a call did, because no reference
\* has its release, or because its HEAD names no commit ("Reset the worktree to
\* discard any local changes. This avoids reconciliation errors").
LeftoversAreHarmless ==
  [][failed' /\ ~failed =>
       \/ disturbances' # disturbances
       \/ pc = "find" /\ \A i \in Places : ~Matches(i)
       \/ pc = "reset" /\ Wedged]_vars

\* Passes never repair a clone whose HEAD names no commit, though each of them opens
\* it, fetches into it and may find its reference there, and though the checkout that
\* none of them comes to would give it a HEAD: it stays until the volume goes with the
\* pod (the hard reset to HEAD before every checkout).
OnlyAPodRepairsAClone == [][Wedged => Wedged' \/ ~cloned']_vars

Installs(p) ==
  pc = "apply" /\ req = p /\ remote[wanted[p]] # NoCommit /\ ~Wedged =>
    ~failed /\ tree = remote[wanted[p]]

\* When upstream and the users rest, every pass of every CR comes to work from what
\* upstream has under the name of its release, whatever the other CRs check out and
\* wherever checkouts were interrupted; releases that are shadowed excepted.
ReleaseConverges ==
  \A p \in Pipelines : <>[](~Shadowed(wanted[p]) => Installs(p))

\* "The directory is already there, so let's just update to latest": the same of
\* every release.
LatestIsInstalled == \A p \in Pipelines : <>[]Installs(p)

=============================================================================
