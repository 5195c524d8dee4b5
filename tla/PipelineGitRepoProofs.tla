------------------------ MODULE PipelineGitRepoProofs ------------------------
(***************************************************************************)
(* Proofs about PipelineGitRepo, for any OperatorPipelines, branches, tags *)
(* and suffixes, and any number of pushes, failures and restarts.          *)
(***************************************************************************)
EXTENDS PipelineGitRepo, TLAPS

-----------------------------------------------------------------------------
(***************************************************************************)
(* Types                                                                   *)
(***************************************************************************)

\* Every reference of the clone has the name of a branch or a tag.
LEMMA RefNames == \A i \in Places : RefOrder[i].name \in Names
<1> DEFINE heads   == <<[kind |-> "head", name |-> Default]>>
           remotes == [i \in 1..Len(Branches) |-> [kind |-> "remote", name |-> Branches[i]]]
           tags    == [i \in 1..Len(Tags) |-> [kind |-> "tag", name |-> Tags[i]]]
           Named   == [kind : {"head", "remote", "tag"}, name : Names]
<1>1. Len(Branches) \in Nat /\ Len(Tags) \in Nat
  BY GitAssumption
<1>2. heads \in Seq(Named)
  BY GitAssumption DEF Names
<1>3. remotes \in Seq(Named)
  <2>1. \A i \in 1..Len(Branches) : Branches[i] \in Names
    BY DEF Names, NameSet
  <2> QED
    BY <1>1, <2>1
<1>4. tags \in Seq(Named)
  <2>1. \A i \in 1..Len(Tags) : Tags[i] \in Names
    BY DEF Names, NameSet
  <2> QED
    BY <1>1, <2>1
<1>5. RefOrder \in Seq(Named)
  <2>1. RefOrder = heads \o remotes \o tags
    BY DEF RefOrder
  <2> HIDE DEF heads, remotes, tags, Named
  <2> QED
    BY <1>2, <1>3, <1>4, <2>1
<1> HIDE DEF Named
<1>6. \A i \in Places : RefOrder[i] \in Named
  BY <1>5 DEF Places
<1> QED
  BY <1>6 DEF Named

\* The references after a fetch, and after a clone, are commits.
LEMMA FetchedType ==
  ASSUME TypeOK
  PROVE  /\ Fetched(refs) \in [Places -> Commits \cup {NoCommit}]
         /\ Cloned \in [Places -> Commits \cup {NoCommit}]
<1>1. \A i \in Places : remote[RefOrder[i].name] \in Commits \cup {NoCommit}
  BY RefNames DEF TypeOK
<1>2. remote[Default] \in Commits \cup {NoCommit}
  BY GitAssumption DEF TypeOK, Names
<1>3. \A old \in [Places -> Commits \cup {NoCommit}] :
        Fetched(old) \in [Places -> Commits \cup {NoCommit}]
  BY <1>1 DEF Fetched
<1>4. NoRefs \in [Places -> Commits \cup {NoCommit}]
  BY DEF NoRefs
<1> QED
  BY <1>2, <1>3, <1>4 DEF Cloned, TypeOK

\* Upstream and the users.
LEMMA OutsideType ==
  ASSUME TypeOK,
         \/ \E n \in Names : Push(n) \/ UpstreamDeletes(n)
         \/ \E p \in Pipelines : UserEdits(p)
  PROVE  TypeOK'
<1>1. disturbances' \in 0..MaxDisturbances
  BY GitAssumption DEF TypeOK, Push, UpstreamDeletes, UserEdits, Disturb
<1>2. CASE \E n \in Names : Push(n)
  <2>1. PICK n \in Names : Push(n)
    BY <1>2
  <2>2. <<n, 1>> \in Commits
    BY GitAssumption DEF Commits
  <2>3. ASSUME remote[n] # NoCommit, remote[n][2] < MaxCommits
        PROVE  <<n, remote[n][2] + 1>> \in Commits
    <3>1. remote[n][2] \in 1..MaxCommits
      BY <2>3 DEF TypeOK, Commits
    <3> QED
      BY <2>3, <3>1, GitAssumption DEF Commits
  <2>4. remote' \in [Names -> Commits \cup {NoCommit}]
    BY <2>1, <2>2, <2>3 DEF Push, TypeOK
  <2> QED
    BY <1>1, <2>1, <2>4 DEF Push, TypeOK, clone, worker
<1>3. CASE \E n \in Names : UpstreamDeletes(n)
  BY <1>1, <1>3 DEF UpstreamDeletes, TypeOK, clone, worker
<1>4. CASE \E p \in Pipelines : UserEdits(p)
  BY <1>1, <1>4 DEF UserEdits, TypeOK, clone, worker
<1> QED
  BY <1>2, <1>3, <1>4

\* The ways in which a pass moves on.
LEMMA MovesType ==
  ASSUME TypeOK
  PROVE  /\ \A step \in Steps : GoOn(step) /\ pc # "idle" =>
              /\ remote' = remote /\ wanted' = wanted /\ req' = req
              /\ release' = release /\ failed' = failed
              /\ pc' = step /\ req' # NoPipeline /\ pc' # "idle"
         /\ Fails /\ pc # "idle" =>
              /\ remote' = remote /\ wanted' = wanted /\ req' = req
              /\ release' = release /\ failed' \in BOOLEAN
              /\ hash' = hash /\ pc' = "apply" /\ req' # NoPipeline
  BY DEF TypeOK, GoOn, Fails, Steps

\* A pass.
LEMMA StepType ==
  ASSUME TypeOK, Step
  PROVE  TypeOK'
<1> USE DEF Steps
<1>1. CASE Clone
  <2>1. refs' \in [Places -> Commits \cup {NoCommit}]
    BY <1>1, FetchedType DEF Clone
  <2>2. remote[Default] \in Commits \cup {NoCommit}
    BY GitAssumption DEF TypeOK, Names
  <2> QED
    BY <1>1, <2>1, <2>2 DEF Clone, GoOn, TypeOK
<1>2. CASE Open
  BY <1>2 DEF Open, GoOn, TypeOK, clone
<1>3. CASE Fetch
  <2>1. refs' \in [Places -> Commits \cup {NoCommit}]
    BY <1>3, FetchedType DEF Fetch
  <2> QED
    BY <1>3, <2>1 DEF Fetch, GoOn, TypeOK
<1>4. CASE FindReference
  BY <1>4 DEF FindReference, GoOn, Fails, TypeOK, clone
<1>5. CASE Reset
  BY <1>5 DEF Reset, GoOn, Fails, TypeOK
<1>6. CASE Checkout
  <2>1. disturbances' \in 0..MaxDisturbances
    BY <1>6, GitAssumption DEF Checkout, Disturb, TypeOK
  <2> QED
    BY <1>6, <2>1 DEF Checkout, HalfCheckout, FirstHead, GoOn, Fails, TypeOK
<1>7. CASE StepFails
  <2>1. disturbances' \in 0..MaxDisturbances
    BY <1>7, GitAssumption DEF StepFails, Disturb, TypeOK
  <2> QED
    BY <1>7, <2>1 DEF StepFails, Fails, TypeOK, clone
<1>8. CASE Apply
  BY <1>8 DEF Apply, Idle, TypeOK, clone
<1> QED
  BY <1>1, <1>2, <1>3, <1>4, <1>5, <1>6, <1>7, <1>8 DEF Step

\* Every other step.
LEMMA NextType == TypeOK /\ [Next]_vars => TypeOK'
<1> SUFFICES ASSUME TypeOK, [Next]_vars
             PROVE  TypeOK'
  OBVIOUS
<1>1. CASE ContainerRestarts
  <2>1. disturbances' \in 0..MaxDisturbances
    BY <1>1, GitAssumption DEF ContainerRestarts, Disturb, TypeOK
  <2>2. refs' \in [Places -> Commits \cup {NoCommit}]
    BY <1>1, FetchedType DEF ContainerRestarts, TypeOK, clone
  <2>3. /\ head' \in Commits \cup {NoCommit, TagObject}
        /\ tree' \in Commits \cup {NoCommit, Mixed}
    <3>1. remote[Default] \in Commits \cup {NoCommit}
      BY GitAssumption DEF TypeOK, Names
    <3> QED
      BY <1>1, <3>1 DEF ContainerRestarts, HalfCheckout, FirstHead, TypeOK, clone
  <2> QED
    BY <1>1, <2>1, <2>2, <2>3 DEF ContainerRestarts, Idle, TypeOK, clone
<1>2. CASE PodIsReplaced
  <2>1. disturbances' \in 0..MaxDisturbances
    BY <1>2, GitAssumption DEF PodIsReplaced, Disturb, TypeOK
  <2> QED
    BY <1>2, <2>1 DEF PodIsReplaced, Idle, NoRefs, TypeOK
<1>3. CASE \E p \in Pipelines : Start(p)
  BY <1>3, GitAssumption DEF Start, TypeOK, Steps, clone
<1>4. CASE UNCHANGED vars
  BY <1>4 DEF vars, TypeOK
<1> QED
  BY <1>1, <1>2, <1>3, <1>4, OutsideType, StepType DEF Next, Environment

\* The type invariant of PipelineGitRepo: among others, the worker has a request
\* exactly while a pass runs, and the worktree is a commit's, or empty, or mixed.
THEOREM GitTypeCorrect == Spec => []TypeOK
<1>1. Init => TypeOK
  <2> SUFFICES ASSUME Init PROVE TypeOK
    OBVIOUS
  <2>1. remote \in [Names -> Commits \cup {NoCommit}]
    BY GitAssumption DEF Init, Commits
  <2>2. refs \in [Places -> Commits \cup {NoCommit}]
    BY DEF Init, NoRefs
  <2>3. disturbances \in 0..MaxDisturbances
    BY GitAssumption DEF Init
  <2> QED
    BY <2>1, <2>2, <2>3 DEF Init, TypeOK
<1> QED
  BY <1>1, NextType, PTL DEF Spec

-----------------------------------------------------------------------------
(***************************************************************************)
(* What a pass works from                                                  *)
(***************************************************************************)

\* The reference that a pass takes: the first that matches its release.
First(i) == Matches(i) /\ \A j \in 1..(i - 1) : ~Matches(j)

\* Once a reference was found, it stays: only Clone and Fetch move references, and
\* both come before in a pass. An error ends cloneOrPullRepo, and a checkout starts
\* from the files of a HEAD that names a commit.
PassInv ==
  /\ pc # "apply" => ~failed
  /\ pc \in {"fetch", "find", "reset", "checkout"} => cloned
  /\ pc \in {"reset", "checkout"} => \E i \in Places : First(i) /\ hash = refs[i]
  /\ pc = "checkout" => tree = head /\ head \in Commits
  /\ pc = "apply" /\ ~failed => tree = head /\ \E i \in Places : First(i) /\ tree = refs[i]

\* A step that leaves the pass and its clone alone keeps the invariant.
LEMMA QuietKeepsPassInv ==
  ASSUME PassInv, UNCHANGED <<cloned, refs, head, tree, pc, release, hash, failed>>
  PROVE  PassInv'
  BY DEF PassInv, First, Matches

\* Nor does a pass that ends, or an error.
LEMMA EndKeepsPassInv ==
  ASSUME PassInv, Idle \/ Fails
  PROVE  PassInv'
  BY DEF PassInv, Idle, Fails

\* No step breaks it.
LEMMA NextPassInv == PassInv /\ [Next]_vars => PassInv'
<1> SUFFICES ASSUME PassInv, [Next]_vars
             PROVE  PassInv'
  OBVIOUS
<1>1. CASE \/ \E n \in Names : Push(n) \/ UpstreamDeletes(n)
           \/ \E p \in Pipelines : UserEdits(p)
           \/ UNCHANGED vars
  BY <1>1, QuietKeepsPassInv DEF Push, UpstreamDeletes, UserEdits, vars, clone, worker
<1>2. CASE ContainerRestarts \/ PodIsReplaced \/ Apply
  BY <1>2, EndKeepsPassInv DEF ContainerRestarts, PodIsReplaced, Apply
<1>3. CASE \E p \in Pipelines : Start(p)
  BY <1>3 DEF Start, PassInv
<1>4. CASE Clone \/ Open \/ Fetch
  BY <1>4 DEF Clone, Open, Fetch, GoOn, clone, PassInv
<1>5. CASE FindReference
  <2>1. CASE Fails
    BY <2>1, EndKeepsPassInv
  <2>2. CASE ~Fails
    <3>1. PICK i \in Places : First(i) /\ hash' = refs[i] /\ GoOn("reset")
      BY <1>5, <2>2 DEF FindReference, First
    <3>2. UNCHANGED <<cloned, refs, release>> /\ cloned
      BY <1>5, <3>1 DEF FindReference, GoOn, clone, PassInv
    <3>3. First(i)' /\ hash' = refs'[i]
      BY <3>1, <3>2 DEF First, Matches
    <3> QED
      BY <1>5, <3>1, <3>2, <3>3 DEF FindReference, GoOn, PassInv
  <2> QED
    BY <2>1, <2>2
<1>6. CASE Reset
  <2>1. CASE Fails
    BY <2>1, EndKeepsPassInv
  <2>2. CASE ~Fails
    BY <1>6, <2>2 DEF Reset, GoOn, First, Matches, PassInv
  <2> QED
    BY <2>1, <2>2
<1>7. CASE Checkout
  <2>1. CASE Fails
    BY <2>1, EndKeepsPassInv
  <2>2. CASE ~Fails
    BY <1>7, <2>2 DEF Checkout, GoOn, First, Matches, PassInv
  <2> QED
    BY <2>1, <2>2
<1>8. CASE StepFails
  BY <1>8, EndKeepsPassInv DEF StepFails
<1> QED
  BY <1>1, <1>2, <1>3, <1>4, <1>5, <1>6, <1>7, <1>8 DEF Next, Environment, Step

\* The inductive invariant behind the theorems of this section.
THEOREM PassInvariant == Spec => []PassInv
<1>1. Init => PassInv
  BY DEF Init, PassInv
<1> QED
  BY <1>1, NextPassInv, PTL DEF Spec

\* Whatever the other CRs check out and wherever a checkout was interrupted, a pass
\* whose cloneOrPullRepo succeeded works from one commit, that of a reference for its
\* own release, which HEAD names as well.
THEOREM PassInstallsAMatch == Spec => []SuccessInstallsAMatch
<1>1. PassInv => SuccessInstallsAMatch
  BY DEF PassInv, First, SuccessInstallsAMatch
<1> QED
  BY <1>1, PassInvariant, PTL

\* Where the elements of three sequences are when these are put together.
LEMMA ThreeParts ==
  ASSUME NEW S, NEW a \in Seq(S), NEW b \in Seq(S), NEW c \in Seq(S)
  PROVE  /\ Len(a \o b \o c) = Len(a) + Len(b) + Len(c)
         /\ \A i \in 1..Len(b) : (a \o b \o c)[Len(a) + i] = b[i]
         /\ \A i \in 1..Len(c) : (a \o b \o c)[Len(a) + Len(b) + i] = c[i]
<1>1. ASSUME NEW d \in Seq(S), NEW e \in Seq(S)
      PROVE  /\ d \o e \in Seq(S) /\ Len(d \o e) = Len(d) + Len(e)
             /\ \A i \in 1..Len(d) : (d \o e)[i] = d[i]
             /\ \A i \in 1..Len(e) : (d \o e)[Len(d) + i] = e[i]
  OBVIOUS
<1>2. PICK ab \in Seq(S) : /\ ab = a \o b /\ Len(ab) = Len(a) + Len(b)
                          /\ \A i \in 1..Len(b) : ab[Len(a) + i] = b[i]
  BY <1>1
<1>3. /\ Len(ab \o c) = Len(ab) + Len(c)
      /\ \A i \in 1..Len(ab) : (ab \o c)[i] = ab[i]
      /\ \A i \in 1..Len(c) : (ab \o c)[Len(ab) + i] = c[i]
  BY <1>1
<1>4. Len(a) \in Nat /\ Len(b) \in Nat
  OBVIOUS
<1>5. \A i \in 1..Len(b) : Len(a) + i \in 1..Len(ab)
  BY <1>2, <1>4
<1>6. \A i \in 1..Len(b) : (ab \o c)[Len(a) + i] = b[i]
  BY <1>2, <1>3, <1>5
<1> QED
  BY <1>2, <1>3, <1>6

\* The three directories of references, one after the other.
HeadRefs   == <<[kind |-> "head", name |-> Default]>>
RemoteRefs == [i \in 1..Len(Branches) |-> [kind |-> "remote", name |-> Branches[i]]]
TagRefs    == [i \in 1..Len(Tags) |-> [kind |-> "tag", name |-> Tags[i]]]

\* Every branch and tag of upstream has a place among the references, besides that of
\* the local branch.
LEMMA EveryNameHasAPlace ==
  \A n \in Names : \E i \in Places : RefOrder[i].kind # "head" /\ RefOrder[i].name = n
<1> DEFINE Ref == [kind : {"head", "remote", "tag"}, name : Names]
<1>1. Len(Branches) \in Nat /\ Len(Tags) \in Nat
  BY GitAssumption
<1>2. HeadRefs \in Seq(Ref) /\ Len(HeadRefs) = 1
  BY GitAssumption DEF Names, HeadRefs
<1>3. RemoteRefs \in Seq(Ref) /\ Len(RemoteRefs) = Len(Branches)
  <2>1. \A i \in 1..Len(Branches) : Branches[i] \in Names
    BY DEF Names, NameSet
  <2> QED
    BY <1>1, <2>1 DEF RemoteRefs
<1>4. TagRefs \in Seq(Ref) /\ Len(TagRefs) = Len(Tags)
  <2>1. \A i \in 1..Len(Tags) : Tags[i] \in Names
    BY DEF Names, NameSet
  <2> QED
    BY <1>1, <2>1 DEF TagRefs
<1>5. RefOrder = HeadRefs \o RemoteRefs \o TagRefs
  BY DEF RefOrder, HeadRefs, RemoteRefs, TagRefs
<1> HIDE DEF Ref
<1>6. /\ Len(RefOrder) = 1 + Len(Branches) + Len(Tags)
      /\ \A i \in 1..Len(Branches) : RefOrder[1 + i] = RemoteRefs[i]
      /\ \A i \in 1..Len(Tags) : RefOrder[1 + Len(Branches) + i] = TagRefs[i]
  <2>1. ASSUME NEW a \in Seq(Ref), NEW b \in Seq(Ref), NEW c \in Seq(Ref),
               Len(a) = 1, Len(b) = Len(Branches), Len(c) = Len(Tags),
               RefOrder = a \o b \o c
        PROVE  /\ Len(RefOrder) = 1 + Len(Branches) + Len(Tags)
               /\ \A i \in 1..Len(Branches) : RefOrder[1 + i] = b[i]
               /\ \A i \in 1..Len(Tags) : RefOrder[1 + Len(Branches) + i] = c[i]
    <3>1. /\ Len(a \o b \o c) = Len(a) + Len(b) + Len(c)
          /\ \A i \in 1..Len(b) : (a \o b \o c)[Len(a) + i] = b[i]
          /\ \A i \in 1..Len(c) : (a \o b \o c)[Len(a) + Len(b) + i] = c[i]
      BY ThreeParts
    <3> QED
      BY <2>1, <3>1
  <2> QED
    BY <1>2, <1>3, <1>4, <1>5, <2>1
<1>7. ASSUME NEW i \in 1..Len(Branches)
      PROVE  \E k \in Places : RefOrder[k].kind # "head" /\ RefOrder[k].name = Branches[i]
  <2>1. 1 + i \in Places
    BY <1>1, <1>6 DEF Places
  <2>2. RefOrder[1 + i] = [kind |-> "remote", name |-> Branches[i]]
    BY <1>6 DEF RemoteRefs
  <2>3. RefOrder[1 + i].kind # "head" /\ RefOrder[1 + i].name = Branches[i]
    BY <2>2
  <2> QED
    BY <2>1, <2>3
<1>8. ASSUME NEW i \in 1..Len(Tags)
      PROVE  \E k \in Places : RefOrder[k].kind # "head" /\ RefOrder[k].name = Tags[i]
  <2>1. 1 + Len(Branches) + i \in Places
    BY <1>1, <1>6 DEF Places
  <2>2. RefOrder[1 + Len(Branches) + i] = [kind |-> "tag", name |-> Tags[i]]
    BY <1>6 DEF TagRefs
  <2>3. /\ RefOrder[1 + Len(Branches) + i].kind # "head"
        /\ RefOrder[1 + Len(Branches) + i].name = Tags[i]
    BY <2>2
  <2> QED
    BY <2>1, <2>3
<1> QED
  BY <1>7, <1>8 DEF Names, NameSet

\* A pass that has fetched all there is works from the very branch or tag of its
\* release, unless an earlier reference ends with that name.
THEOREM PassInstallsTheRelease == Spec => []SuccessInstallsTheRelease
<1>1. TypeOK /\ PassInv => SuccessInstallsTheRelease
  <2> SUFFICES ASSUME TypeOK, PassInv, pc = "apply", ~failed, UpToDate,
                      remote[release] # NoCommit, ~Shadowed(release)
               PROVE  tree = remote[release]
    BY DEF SuccessInstallsTheRelease
  <2>1. PICK k \in Places : First(k) /\ tree = refs[k]
    BY DEF PassInv
  <2>2. release \in Names /\ EndsWith(release, release)
    BY GitAssumption DEF TypeOK
  <2>3. PICK i \in Places : RefOrder[i].kind # "head" /\ RefOrder[i].name = release
    BY <2>2, EveryNameHasAPlace
  <2>4. refs[i] = remote[release] /\ Matches(i)
    BY <2>2, <2>3 DEF UpToDate, Matches
  <2>5. i \in Int /\ k \in Int
    BY DEF Places
  <2>6. ~(k < i)
    BY <2>1, <2>3 DEF First, Matches, Shadowed
  <2>7. ~(i < k)
    <3>1. i < k => i \in 1..(k - 1)
      BY <2>5 DEF Places
    <3> QED
      BY <2>1, <2>4, <3>1 DEF First
  <2> QED
    BY <2>1, <2>4, <2>5, <2>6, <2>7
<1> QED
  BY <1>1, GitTypeCorrect, PassInvariant, PTL

\* No worktree makes a pass fail, whatever was left in it.
THEOREM LeftoversDoNoHarm == Spec => LeftoversAreHarmless
<1> DEFINE Cause == \/ disturbances' # disturbances
                    \/ pc = "find" /\ \A i \in Places : ~Matches(i)
                    \/ pc = "reset" /\ Wedged
<1>1. TypeOK /\ PassInv /\ [Next]_vars => [failed' /\ ~failed => Cause]_vars
  <2> SUFFICES ASSUME TypeOK, PassInv, Next, failed', ~failed
               PROVE  Cause
    OBVIOUS
  <2>1. Disturb => disturbances' # disturbances
    BY GitAssumption DEF Disturb, TypeOK
  <2>2. CASE Environment
    BY <2>1, <2>2 DEF Environment, Push, UpstreamDeletes, UserEdits, ContainerRestarts,
                      PodIsReplaced
  <2>3. CASE \E p \in Pipelines : Start(p)
    BY <2>3 DEF Start
  <2>4. CASE Clone \/ Open \/ Fetch \/ Apply
    BY <2>4 DEF Clone, Open, Fetch, GoOn, Apply, Idle
  <2>5. CASE FindReference
    BY <2>5 DEF FindReference, GoOn
  <2>6. CASE Reset
    BY <2>6 DEF Reset, GoOn, PassInv, Wedged
  <2>7. CASE Checkout
    BY <2>1, <2>7 DEF Checkout, GoOn, PassInv
  <2>8. CASE StepFails
    BY <2>1, <2>8 DEF StepFails
  <2> QED
    BY <2>2, <2>3, <2>4, <2>5, <2>6, <2>7, <2>8 DEF Next, Step
<1> QED
  BY <1>1, GitTypeCorrect, PassInvariant, PTL DEF Spec, LeftoversAreHarmless

\* A clone whose HEAD names no commit gets one that does from no pass: a checkout, the
\* only step that writes HEAD, comes after a reset that fails then.
THEOREM WedgedStays == Spec => OnlyAPodRepairsAClone
<1>1. PassInv /\ [Next]_vars => [Wedged => Wedged' \/ ~cloned']_vars
  <2> SUFFICES ASSUME PassInv, Next, Wedged
               PROVE  Wedged' \/ ~cloned'
    OBVIOUS
  <2> USE DEF Wedged
  <2>1. CASE ContainerRestarts
    BY <2>1 DEF ContainerRestarts, PassInv, clone
  <2>2. CASE PodIsReplaced
    BY <2>2 DEF PodIsReplaced
  <2>3. CASE \/ \E n \in Names : Push(n) \/ UpstreamDeletes(n)
             \/ \E p \in Pipelines : UserEdits(p) \/ Start(p)
    BY <2>3 DEF Push, UpstreamDeletes, UserEdits, Start, clone
  <2>4. CASE Clone \/ Checkout
    BY <2>4 DEF Clone, Checkout, PassInv
  <2>5. CASE Open \/ Fetch \/ FindReference \/ Reset \/ StepFails \/ Apply
    BY <2>5 DEF Open, Fetch, FindReference, Reset, StepFails, Apply, clone
  <2> QED
    BY <2>1, <2>2, <2>3, <2>4, <2>5 DEF Next, Environment, Step
<1> QED
  BY <1>1, PassInvariant, PTL DEF Spec, OnlyAPodRepairsAClone

=============================================================================
