----------------------- MODULE PromptControllerProofs -----------------------
(***************************************************************************)
(* Proofs about OperatorPipelineController when its caches keep up and     *)
(* users delete, in the background, CRs that have their finalizer: it      *)
(* implements LifeCycle, and leaves no orphan. Failed calls, conflicts and *)
(* crashes are unbounded.                                                  *)
(***************************************************************************)
EXTENDS ProvisioningProofs

\* Every watch event arrives before the worker's next step, and users delete no
\* CR before its first pass is over, nor in the foreground.
Prompt == ~LaggingCache /\ ~EarlyDeletion /\ ~ForegroundDeletion

\* A CR that is being deleted waits for the operator, and for nobody else.
DeletionIsOurs ==
  \A p \in Pipelines :
    /\ "foreground" \notin api[p].finalizers
    /\ api[p].phase = "terminating" => Guarded(api[p])

\* The CR of a pass does not go before the pass lets it go.
PassHoldsCR ==
  /\ pc \in ApplySteps => Present(api[req])
  /\ pc \in DeleteSteps => api[req].phase = "terminating"

OtherUser(o) == \E q \in Pipelines \ {req} : Present(api[q]) /\ o \in Needs(q)

\* What a teardown has left behind so far is needed by another CR.
TornDown ==
  /\ pc \in {"listCluster", "deleteClusterRole", "deleteSCC", "release"} =>
       (NamespaceOf[req] \in objs => OtherUser(NamespaceOf[req]))
  /\ pc \in {"deleteSCC", "release"} => (ClusterRole \in objs => OtherUser(ClusterRole))
  /\ pc = "release" => (SCC \in objs => OtherUser(SCC))

PromptInv == DeletionIsOurs /\ PassHoldsCR /\ TornDown

-----------------------------------------------------------------------------
(***************************************************************************)
(* What the steps do                                                       *)
(***************************************************************************)

\* What users do to a CR: they create it, edit it, or delete it once it has its
\* finalizer; the controller and the objects are left alone.
LEMMA UserStep ==
  ASSUME Prompt, TypeOK, CacheInv, DeletionIsOurs, NEW p \in Pipelines,
         UserCreates(p) \/ UserEdits(p) \/ UserDeletes(p) \/ ForegroundDone(p)
  PROVE  /\ \/ ~Present(api[p]) /\ api' = [api EXCEPT ![p] = Created]
            \/ UNCHANGED api
            \/ /\ api[p].phase = "active" /\ Guarded(api[p])
               /\ api' = [api EXCEPT ![p] = [api[p] EXCEPT !.phase = "terminating"]]
         /\ current' = current \ {p}
         /\ UNCHANGED <<objVars, cached, queue, pc, req, currentPipeline, failed>>
<1>0. api[p] \in OperatorPipeline /\ "foreground" \notin api[p].finalizers
  BY DEF TypeOK, DeletionIsOurs
<1>1. CASE UserCreates(p) \/ UserEdits(p)
  BY <1>0, <1>1 DEF UserCreates, UserEdits, UserWrites, StoreCR, TypeOK
<1>2. CASE UserDeletes(p)
  <2>1. Guarded(api[p]) /\ api[p].phase = "active"
    BY <1>2 DEF Prompt, UserDeletes
  <2>2. UserWrites(p, WithFinalizers([api[p] EXCEPT !.phase = "terminating"],
                                     api[p].finalizers))
    BY <1>2 DEF Prompt, UserDeletes
  <2>3. WithFinalizers([api[p] EXCEPT !.phase = "terminating"], api[p].finalizers)
          = [api[p] EXCEPT !.phase = "terminating"]
    BY <1>0, <2>1 DEF WithFinalizers, OperatorPipeline, Guarded
  <2> QED
    BY <2>1, <2>2, <2>3 DEF UserWrites, StoreCR
<1>3. CASE ForegroundDone(p)
  BY <1>0, <1>3 DEF ForegroundDone
<1> QED
  BY <1>1, <1>2, <1>3

\* What the end of a pass does to its CR: it gets the finalizer, it goes, or it is
\* left as it is.
LEMMA FinalizerStep ==
  ASSUME TypeOK, CacheInv, DeletionIsOurs, AddFinalizer \/ RemoveFinalizer
  PROVE  /\ \/ UNCHANGED api
            \/ /\ AddFinalizer
               /\ api[req].phase = "active" /\ ~Guarded(api[req])
               /\ api' = [api EXCEPT ![req] = [api[req] EXCEPT !.finalizers = {"operator"}]]
            \/ /\ RemoveFinalizer
               /\ api[req].phase = "terminating"
               /\ api' = [api EXCEPT ![req] = Gone]
         /\ req \in Pipelines
         /\ UNCHANGED <<objVars, cached>>
         /\ pc' = "idle"
<1>1. req \in Pipelines /\ api[req] \in OperatorPipeline
      /\ "foreground" \notin api[req].finalizers
  BY DEF AddFinalizer, RemoveFinalizer, TypeOK, DeletionIsOurs
<1>2. UNCHANGED <<objVars, cached>> /\ pc' = "idle"
  BY DEF AddFinalizer, RemoveFinalizer, UpdateFinalizers, Finish
<1>3. CASE AddFinalizer /\ Guarded(currentPipeline)
  BY <1>1, <1>2, <1>3 DEF AddFinalizer, storeVars
<1>4. CASE AddFinalizer /\ ~Guarded(currentPipeline)
  <2> DEFINE fs == currentPipeline.finalizers \cup {"operator"}
  <2>1. \/ UNCHANGED api
        \/ fresh /\ api' = [api EXCEPT ![req] = WithFinalizers(api[req], fs)]
    BY <1>4 DEF AddFinalizer, UpdateFinalizers, StoreCR
  <2>2. ASSUME fresh
        PROVE  /\ api[req].phase = "active" /\ ~Guarded(api[req])
               /\ WithFinalizers(api[req], fs) = [api[req] EXCEPT !.finalizers = {"operator"}]
    <3>1. currentPipeline = api[req] /\ api[req].phase = "active"
      BY <1>4, <2>2 DEF CacheInv, FreshPass, PassKind, AddFinalizer, ApplySteps
    <3>2. fs = {"operator"}
      BY <1>1, <3>1 DEF OperatorPipeline
    <3> QED
      BY <1>1, <1>4, <3>1, <3>2 DEF WithFinalizers
  <2> QED
    BY <1>1, <1>2, <1>4, <2>1, <2>2
<1>5. CASE RemoveFinalizer
  <2> DEFINE fs == currentPipeline.finalizers \ {"operator"}
  <2>1. \/ UNCHANGED api
        \/ fresh /\ api' = [api EXCEPT ![req] = WithFinalizers(api[req], fs)]
    BY <1>5 DEF RemoveFinalizer, UpdateFinalizers, StoreCR
  <2>2. ASSUME fresh
        PROVE  api[req].phase = "terminating" /\ WithFinalizers(api[req], fs) = Gone
    <3>1. currentPipeline = api[req] /\ api[req].phase = "terminating"
      BY <1>5, <2>2 DEF CacheInv, FreshPass, PassKind, RemoveFinalizer, DeleteSteps
    <3>2. fs = {}
      BY <1>1, <3>1 DEF OperatorPipeline
    <3> QED
      BY <3>1, <3>2 DEF WithFinalizers
  <2> QED
    BY <1>1, <1>2, <1>5, <2>1, <2>2
<1> QED
  BY <1>3, <1>4, <1>5

-----------------------------------------------------------------------------
(***************************************************************************)
(* The invariant                                                           *)
(***************************************************************************)

\* A CR that is being deleted keeps the operator's finalizer, and only that.
LEMMA KeepsDeletionOurs ==
  Prompt /\ TypeOK /\ CacheInv /\ DeletionIsOurs /\ [Next]_vars => DeletionIsOurs'
<1> SUFFICES ASSUME Prompt, TypeOK, CacheInv, DeletionIsOurs, [Next]_vars
             PROVE  DeletionIsOurs'
  OBVIOUS
<1>0. \A p \in Pipelines : api[p] \in OperatorPipeline
  BY DEF TypeOK
<1>1. ASSUME NEW p \in Pipelines,
             UserCreates(p) \/ UserEdits(p) \/ UserDeletes(p) \/ ForegroundDone(p)
      PROVE  DeletionIsOurs'
  <2>1. \/ api' = [api EXCEPT ![p] = Created]
        \/ UNCHANGED api
        \/ /\ Guarded(api[p])
           /\ api' = [api EXCEPT ![p] = [api[p] EXCEPT !.phase = "terminating"]]
    BY <1>1, UserStep
  <2> QED
    BY <1>0, <2>1 DEF DeletionIsOurs, TypeOK, Created, Guarded, OperatorPipeline
<1>2. CASE AddFinalizer \/ RemoveFinalizer
  <2>1. /\ req \in Pipelines
        /\ \/ UNCHANGED api
           \/ api' = [api EXCEPT ![req] = [api[req] EXCEPT !.finalizers = {"operator"}]]
           \/ api' = [api EXCEPT ![req] = Gone]
    BY <1>2, FinalizerStep
  <2>2. CASE UNCHANGED api
    BY <2>2 DEF DeletionIsOurs
  <2>3. ASSUME NEW cr, api' = [api EXCEPT ![req] = cr],
               "foreground" \notin cr.finalizers,
               cr.phase = "terminating" => Guarded(cr)
        PROVE  DeletionIsOurs'
    BY <2>3 DEF DeletionIsOurs, TypeOK
  <2>4. /\ "foreground" \notin Gone.finalizers /\ Gone.phase # "terminating"
        /\ [api[req] EXCEPT !.finalizers = {"operator"}].finalizers = {"operator"}
    BY <1>0, <2>1 DEF Gone, OperatorPipeline
  <2> QED
    BY <2>1, <2>2, <2>3, <2>4 DEF Guarded
<1>3. CASE PassStep /\ ~AddFinalizer /\ ~RemoveFinalizer
  BY <1>3, OtherPassStep DEF DeletionIsOurs
<1>4. CASE \/ HealthChanges \/ PipelineInformerSyncs \/ Resync \/ Crash \/ UNCHANGED vars
           \/ \E o \in ClusterObjects : ObjectInformerSyncs(o)
           \/ \E p \in Pipelines : Start(p)
  BY <1>4, QuietStep DEF DeletionIsOurs
<1> QED
  BY <1>1, <1>2, <1>3, <1>4 DEF Next, Environment, Step

\* Nobody but the pass over a CR lets the CR go.
LEMMA KeepsPassHolding ==
  Prompt /\ TypeOK /\ CacheInv /\ DeletionIsOurs /\ PassHoldsCR /\ [Next]_vars
    => PassHoldsCR'
<1> SUFFICES ASSUME Prompt, TypeOK, CacheInv, DeletionIsOurs, PassHoldsCR, [Next]_vars
             PROVE  PassHoldsCR'
  OBVIOUS
<1>0. /\ \A p \in Pipelines : api[p] \in OperatorPipeline
      /\ pc \in ApplySteps \cup DeleteSteps => req \in Pipelines
      /\ "idle" \notin ApplySteps \cup DeleteSteps
  BY DEF TypeOK, ApplySteps, DeleteSteps
<1>1. ASSUME NEW p \in Pipelines,
             UserCreates(p) \/ UserEdits(p) \/ UserDeletes(p) \/ ForegroundDone(p)
      PROVE  PassHoldsCR'
  <2>1. \/ ~Present(api[p]) /\ api' = [api EXCEPT ![p] = Created]
        \/ UNCHANGED api
        \/ /\ api[p].phase = "active"
           /\ api' = [api EXCEPT ![p] = [api[p] EXCEPT !.phase = "terminating"]]
    BY <1>1, UserStep
  <2>2. UNCHANGED <<pc, req>>
    BY <1>1, UserStep
  <2> QED
    BY <1>0, <2>1, <2>2 DEF PassHoldsCR, Present, TypeOK, Created, OperatorPipeline
<1>2. CASE AddFinalizer \/ RemoveFinalizer
  BY <1>0, <1>2, FinalizerStep DEF PassHoldsCR
<1>3. CASE PassStep /\ ~AddFinalizer /\ ~RemoveFinalizer
  <2>1. ApplySteps \cap DeleteSteps = {}
    BY DEF ApplySteps, DeleteSteps
  <2>2. pc \in ApplySteps \cup DeleteSteps
    BY <1>3 DEF PassStep, ApplyNamespacedManifests, ApplySCC, ApplyClusterRole,
       ApplyBinding, ApplyImageStreams, CommitStatus, CommitStatusFails,
       ListNamespace, DeleteBinding, ListCluster, ListFails, DeleteClusterRole, DeleteSCC,
       ApplySteps, DeleteSteps
  <2> QED
    BY <1>0, <1>3, <2>1, <2>2, OtherPassStep DEF PassHoldsCR
<1>4. CASE \/ HealthChanges \/ PipelineInformerSyncs \/ Resync \/ Crash \/ UNCHANGED vars
           \/ \E o \in ClusterObjects : ObjectInformerSyncs(o)
           \/ \E p \in Pipelines : Start(p)
  <2>1. CASE UNCHANGED <<pc, req>>
    BY <1>4, <2>1, QuietStep DEF PassHoldsCR
  <2>2. ASSUME NEW p \in Pipelines, Start(p)
        PROVE  PassHoldsCR'
    BY <1>0, <2>2, StartReadsStored, QuietStep
       DEF Prompt, PassHoldsCR, ApplySteps, DeleteSteps, Present
  <2> QED
    BY <1>0, <1>4, <2>1, <2>2, QuietStep DEF PassHoldsCR
<1> QED
  BY <1>1, <1>2, <1>3, <1>4 DEF Next, Environment, Step

\* A List that shows another CR besides that of the pass shows one that is present,
\* and one that shows fewer shows that there is none.
LEMMA OthersAreListed ==
  ASSUME Prompt, TypeOK, CacheInv, PassHoldsCR, pc \in DeleteSteps, CachesReady
  PROVE  /\ req \in Pipelines
         /\ ~OnlyOne(NamespacePipelines(NamespaceOf[req])) => OtherUser(NamespaceOf[req])
         /\ ~OnlyOne(ClusterPipelines) => OtherUser(ClusterRole) /\ OtherUser(SCC)
<1>1. cached = api /\ req \in Pipelines
  BY DEF Prompt, CachesReady, CacheInv, CacheAgrees, TypeOK, DeleteSteps
<1>2. Present(api[req])
  BY DEF PassHoldsCR, Present
<1>3. ASSUME NEW S \in SUBSET Pipelines, req \in S, ~OnlyOne(S)
      PROVE  \E q \in S : q # req
  <2>1. CASE S = {req}
    BY <1>3, <2>1, FS_Singleton DEF OnlyOne
  <2> QED
    BY <1>3, <2>1
<1>4. ASSUME ~OnlyOne(NamespacePipelines(NamespaceOf[req]))
      PROVE  OtherUser(NamespaceOf[req])
  <2>1. req \in NamespacePipelines(NamespaceOf[req])
    BY <1>1, <1>2 DEF NamespacePipelines, ClusterPipelines
  <2>2. PICK q \in NamespacePipelines(NamespaceOf[req]) : q # req
    BY <1>3, <1>4, <2>1 DEF NamespacePipelines, ClusterPipelines
  <2> QED
    BY <1>1, <2>2 DEF NamespacePipelines, ClusterPipelines, OtherUser, Needs
<1>5. ASSUME ~OnlyOne(ClusterPipelines)
      PROVE  OtherUser(ClusterRole) /\ OtherUser(SCC)
  <2>1. req \in ClusterPipelines
    BY <1>1, <1>2 DEF ClusterPipelines
  <2>2. PICK q \in ClusterPipelines : q # req
    BY <1>3, <1>5, <2>1 DEF ClusterPipelines
  <2> QED
    BY <1>1, <2>2 DEF ClusterPipelines, OtherUser, Needs
<1> QED
  BY <1>1, <1>4, <1>5

\* What the worker of another step than a teardown has left behind does not matter,
\* and what is needed by another CR stays so: that CR goes in a pass of its own.
LEMMA KeepsTornDown ==
  Prompt /\ TypeOK /\ CacheInv /\ PromptInv /\ [Next]_vars => TornDown'
<1> SUFFICES ASSUME Prompt, TypeOK, CacheInv, PromptInv, [Next]_vars
             PROVE  TornDown'
  OBVIOUS
<1> USE DEF PromptInv
<1>0. SCC # ClusterRole /\ (req \in Pipelines => NamespaceOf[req] \notin {SCC, ClusterRole})
  BY ObjectsAssumption, PipelinesAssumption
<1>1. ASSUME NEW p \in Pipelines,
             UserCreates(p) \/ UserEdits(p) \/ UserDeletes(p) \/ ForegroundDone(p)
      PROVE  TornDown'
  <2>1. UNCHANGED <<objs, pc, req>>
    BY <1>1, UserStep DEF objVars
  <2>2. ASSUME NEW q \in Pipelines, Present(api[q])
        PROVE  Present(api'[q])
    <3>1. \/ ~Present(api[p]) /\ api' = [api EXCEPT ![p] = Created]
          \/ UNCHANGED api
          \/ api' = [api EXCEPT ![p] = [api[p] EXCEPT !.phase = "terminating"]]
      BY <1>1, UserStep
    <3>2. api[p] \in OperatorPipeline /\ api \in [Pipelines -> OperatorPipeline]
      BY DEF TypeOK
    <3> QED
      BY <2>2, <3>1, <3>2 DEF Present, OperatorPipeline
  <2> QED
    BY <2>1, <2>2 DEF TornDown, OtherUser
<1>2. CASE AddFinalizer \/ RemoveFinalizer
  BY <1>2, FinalizerStep DEF TornDown
<1>3. CASE \/ HealthChanges \/ PipelineInformerSyncs \/ Resync \/ Crash \/ UNCHANGED vars
           \/ \E o \in ClusterObjects : ObjectInformerSyncs(o)
           \/ \E p \in Pipelines : Start(p)
  BY <1>3, QuietStep DEF TornDown, OtherUser
<1>4. CASE PassStep /\ CachesReady /\ ~AddFinalizer /\ ~RemoveFinalizer
  <2>0. UNCHANGED api
    BY <1>4, OtherPassStep
  <2>1. CASE pc \in ApplySteps
    BY <1>4, <2>1, OtherPassStep DEF TornDown, ApplySteps
  <2>2. CASE ListNamespace
    <3>1. /\ UNCHANGED <<objs, req>> /\ pc \in DeleteSteps
          /\ pc' = IF OnlyOne(NamespacePipelines(NamespaceOf[req]))
                   THEN "deleteBinding" ELSE "listCluster"
      BY <2>2 DEF ListNamespace, Goto, objVars, DeleteSteps
    <3> QED
      BY <1>4, <2>0, <3>1, OthersAreListed DEF TornDown, OtherUser
  <2>3. CASE DeleteBinding
    <3>1. \/ pc' = "listCluster" /\ NamespaceOf[req] \notin objs' /\ UNCHANGED req
          \/ pc' = "idle"
      BY <1>4, <2>3, DeletedOrEnded DEF Prompt, DeleteBinding
    <3> QED
      BY <3>1 DEF TornDown
  <2>4. CASE ListCluster
    <3>1. /\ UNCHANGED <<objs, req>> /\ pc \in DeleteSteps /\ pc = "listCluster"
          /\ pc' = IF OnlyOne(ClusterPipelines) THEN "deleteClusterRole" ELSE "release"
      BY <2>4 DEF ListCluster, Goto, objVars, DeleteSteps
    <3> QED
      BY <1>4, <2>0, <3>1, OthersAreListed DEF TornDown, OtherUser
  <2>5. CASE DeleteClusterRole
    <3>1. /\ pc = "deleteClusterRole" /\ objs' \subseteq objs
          /\ \/ pc' = "deleteSCC" /\ ClusterRole \notin objs' /\ UNCHANGED req
             \/ pc' = "idle"
      BY <1>4, <2>5, DeletedOrEnded DEF Prompt, DeleteClusterRole
    <3> QED
      BY <2>0, <3>1 DEF TornDown, OtherUser
  <2>6. CASE DeleteSCC
    <3>1. /\ pc = "deleteSCC" /\ objs' \subseteq objs
          /\ \/ pc' = "release" /\ SCC \notin objs' /\ UNCHANGED req
             \/ pc' = "idle"
      BY <1>4, <2>6, DeletedOrEnded DEF Prompt, DeleteSCC
    <3> QED
      BY <2>0, <3>1 DEF TornDown, OtherUser
  <2>7. pc \notin ApplySteps =>
          \/ ListNamespace \/ DeleteBinding \/ ListCluster \/ ListFails
          \/ DeleteClusterRole \/ DeleteSCC
    BY <1>4 DEF PassStep, ApplyNamespacedManifests, ApplySCC, ApplyClusterRole,
       ApplyBinding, ApplyImageStreams, CommitStatus, CommitStatusFails, ApplySteps
  <2>8. CASE ListFails
    BY <2>8, FailedListEnds DEF TornDown
  <2> QED
    BY <2>1, <2>2, <2>3, <2>4, <2>5, <2>6, <2>7, <2>8
<1> QED
  BY <1>1, <1>2, <1>3, <1>4 DEF Next, Environment, Step

\* The invariant of the prompt controller.
LEMMA PromptInvariant ==
  ASSUME Prompt
  PROVE  Spec => []PromptInv
<1>1. Init => PromptInv
  BY DEF Init, PromptInv, DeletionIsOurs, PassHoldsCR, TornDown, Gone, ApplySteps, DeleteSteps
<1>2. TypeOK /\ CacheInv /\ PromptInv /\ [Next]_vars => PromptInv'
  BY KeepsDeletionOurs, KeepsPassHolding, KeepsTornDown DEF PromptInv
<1> QED
  BY <1>1, <1>2, TypeCorrect, CacheInvariant, PTL DEF Spec

-----------------------------------------------------------------------------
(***************************************************************************)
(* The controller implements LifeCycle                                     *)
(***************************************************************************)

\* The lives of the CRs, as LifeCycle has them.
Lives == [p \in Pipelines |-> Life(api[p])]

\* A step that changes one CR changes one life.
LEMMA OneLifeChanges ==
  ASSUME NEW p \in Pipelines, NEW cr, TypeOK, api' = [api EXCEPT ![p] = cr]
  PROVE  Lives' = [Lives EXCEPT ![p] = Life(cr)]
  BY DEF TypeOK, Lives

\* Life and the state of a CR.
LEMMA LifeFacts ==
  ASSUME NEW cr \in OperatorPipeline
  PROVE  /\ Life(cr) = "absent" <=> ~Present(cr)
         /\ Life(cr) = "new" <=> cr.phase = "active" /\ ~Guarded(cr)
         /\ Life(cr) = "guarded" <=> cr.phase = "active" /\ Guarded(cr)
         /\ Life(cr) = "leaving" <=> cr.phase = "terminating"
  BY DEF Life, Present, OperatorPipeline

\* The users of an object, in LifeCycle's terms.
LEMMA UsersFacts ==
  ASSUME TypeOK, NEW o
  PROVE  LC!Users(o) = {p \in Pipelines : Present(api[p]) /\ o \in Needs(p)}
  BY LifeFacts DEF TypeOK, LC!Users, LC!Present

\* An object that a pass applies is needed by its CR.
LEMMA ProvideStep ==
  ASSUME TypeOK, PassHoldsCR, pc \in ApplySteps,
         NEW o \in Needs(req), UNCHANGED api, objs' \in {objs, objs \cup {o}}
  PROVE  [LC!Next]_LC!vars
<1>1. req \in Pipelines /\ Present(api[req]) /\ o \in ClusterObjects
  BY PipelinesAssumption DEF TypeOK, ApplySteps, PassHoldsCR, Needs, ClusterObjects
<1>2. LC!Users(o) # {}
  BY <1>1, UsersFacts
<1>3. CASE o \in objs
  BY <1>3 DEF LC!vars
<1>4. CASE o \notin objs
  BY <1>1, <1>2, <1>4 DEF LC!Next, LC!Provide, LC!vars
<1> QED
  BY <1>3, <1>4

\* An object that a pass deletes is needed by its CR, which is being deleted, and by
\* others at most that have no finalizer.
LEMMA RemoveStep ==
  ASSUME TypeOK, DeletionIsOurs, PassHoldsCR, pc \in DeleteSteps,
         NEW o \in Needs(req), UNCHANGED api, objs' \in {objs, objs \ {o}},
         \A q \in Pipelines \ {req} : o \in Needs(q) => ~Guarded(api[q])
  PROVE  [LC!Next]_LC!vars
<1>1. req \in Pipelines /\ o \in ClusterObjects /\ api[req].phase = "terminating"
  BY PipelinesAssumption DEF TypeOK, DeleteSteps, PassHoldsCR, Needs, ClusterObjects
<1>2. req \in LC!Users(o) /\ Lives[req] = "leaving"
  BY <1>1, UsersFacts, LifeFacts DEF Present, TypeOK, Lives
<1>3. ASSUME NEW q \in LC!Users(o) \ {req}
      PROVE  Lives[q] = "new"
  <2>1. q \in Pipelines /\ Present(api[q]) /\ o \in Needs(q) /\ api[q] \in OperatorPipeline
    BY <1>3, UsersFacts DEF TypeOK
  <2>2. api[q].phase = "active" /\ ~Guarded(api[q])
    BY <1>3, <2>1 DEF DeletionIsOurs, Present, OperatorPipeline
  <2> QED
    BY <2>1, <2>2, LifeFacts DEF Lives
<1>4. CASE objs' = objs
  BY <1>4 DEF LC!vars
<1>5. CASE o \in objs /\ objs' = objs \ {o}
  BY <1>1, <1>2, <1>3, <1>5 DEF LC!Next, LC!Remove, LC!vars, Lives
<1>6. CASE o \notin objs
  BY <1>6 DEF LC!vars
<1> QED
  BY <1>4, <1>5, <1>6

\* A step of a pass that leaves the CR alone.
LEMMA PassRefines ==
  ASSUME Prompt, CachesReady, TypeOK, CacheInv, PromptInv, TeardownSparesFinalizedPeers,
         PassStep, ~AddFinalizer, ~RemoveFinalizer
  PROVE  [LC!Next]_LC!vars
<1> USE DEF PromptInv
<1>0. UNCHANGED api /\ req \in Pipelines
  BY OtherPassStep
<1>a. SCC \in Needs(req) /\ ClusterRole \in Needs(req) /\ NamespaceOf[req] \in Needs(req)
  BY DEF Needs
<1>1. CASE \/ ApplyNamespacedManifests \/ ApplyImageStreams \/ CommitStatus
           \/ CommitStatusFails \/ ListNamespace \/ ListCluster \/ ListFails
  BY <1>0, <1>1 DEF ApplyNamespacedManifests, ApplyImageStreams, CommitStatus,
     CommitStatusFails, ListNamespace, ListCluster, ListFails, objVars, LC!vars
<1>2. CASE ApplySCC
  BY <1>0, <1>a, <1>2, ProvideStep DEF ApplySCC, ApplyManifest, ApplySteps
<1>3. CASE ApplyClusterRole
  BY <1>0, <1>a, <1>3, ProvideStep DEF ApplyClusterRole, ApplyManifest, ApplySteps
<1>4. CASE ApplyBinding
  BY <1>0, <1>a, <1>4, ProvideStep DEF ApplyBinding, BindingOf, ApplyManifest, ApplySteps
<1>5. CASE DeleteBinding \/ DeleteClusterRole \/ DeleteSCC
  <2>1. pc \in DeleteSteps /\ Guarded(api[req])
    BY <1>0, <1>5 DEF DeleteBinding, DeleteClusterRole, DeleteSCC, DeleteSteps,
                      PassHoldsCR, DeletionIsOurs
  <2>2. CASE DeleteBinding
    <3>1. pc = "deleteBinding" /\ objs' \in {objs, objs \ {NamespaceOf[req]}}
      BY <2>2, DeletedOrEnded DEF Prompt, DeleteBinding
    <3>2. \A q \in Pipelines \ {req} :
            NamespaceOf[req] \in Needs(q) => NamespaceOf[q] = NamespaceOf[req]
      BY <1>0, ObjectsAssumption, PipelinesAssumption DEF Needs
    <3> QED
      BY <1>0, <1>a, <2>1, <3>1, <3>2, RemoveStep DEF TeardownSparesFinalizedPeers
  <2>3. CASE DeleteClusterRole
    <3>1. pc = "deleteClusterRole" /\ objs' \in {objs, objs \ {ClusterRole}}
      BY <2>3, DeletedOrEnded DEF Prompt, DeleteClusterRole
    <3> QED
      BY <1>0, <1>a, <2>1, <3>1, RemoveStep DEF TeardownSparesFinalizedPeers
  <2>4. CASE DeleteSCC
    <3>1. pc = "deleteSCC" /\ objs' \in {objs, objs \ {SCC}}
      BY <2>4, DeletedOrEnded DEF Prompt, DeleteSCC
    <3> QED
      BY <1>0, <1>a, <2>1, <3>1, RemoveStep DEF TeardownSparesFinalizedPeers
  <2> QED
    BY <1>5, <2>2, <2>3, <2>4
<1> QED
  BY <1>1, <1>2, <1>3, <1>4, <1>5 DEF PassStep

\* The end of a pass.
LEMMA FinalizerRefines ==
  ASSUME TypeOK, CacheInv, PromptInv, AddFinalizer \/ RemoveFinalizer
  PROVE  [LC!Next]_LC!vars
<1> USE DEF PromptInv
<1>0. req \in Pipelines /\ api[req] \in OperatorPipeline /\ UNCHANGED objs
  BY FinalizerStep DEF TypeOK, objVars
<1>1. CASE UNCHANGED api
  BY <1>0, <1>1 DEF LC!vars
<1>2. CASE /\ api[req].phase = "active" /\ ~Guarded(api[req])
           /\ api' = [api EXCEPT ![req] = [api[req] EXCEPT !.finalizers = {"operator"}]]
  <2> DEFINE cr == [api[req] EXCEPT !.finalizers = {"operator"}]
  <2>1. cr \in OperatorPipeline /\ cr.phase = "active" /\ Guarded(cr)
    BY <1>0, <1>2 DEF OperatorPipeline, Guarded
  <2>2. Lives[req] = "new" /\ Lives' = [Lives EXCEPT ![req] = "guarded"]
    <3>1. Lives[req] = "new"
      BY <1>0, <1>2, LifeFacts DEF Lives
    <3>2. Life(cr) = "guarded"
      BY <2>1, LifeFacts
    <3>3. Lives' = [Lives EXCEPT ![req] = Life(cr)]
      BY <1>0, <1>2, OneLifeChanges
    <3> QED
      BY <3>1, <3>2, <3>3
  <2> QED
    BY <1>0, <2>2 DEF LC!Next, LC!Guard, LC!Becomes, Lives
<1>3. CASE /\ RemoveFinalizer
           /\ api[req].phase = "terminating"
           /\ api' = [api EXCEPT ![req] = Gone]
  <2>1. Gone \in OperatorPipeline /\ ~Present(Gone)
    BY DEF Gone, OperatorPipeline, Present
  <2>2. Lives[req] = "leaving" /\ Lives' = [Lives EXCEPT ![req] = "absent"]
    <3>1. Lives[req] = "leaving"
      BY <1>0, <1>3, LifeFacts DEF Lives
    <3>2. Life(Gone) = "absent"
      BY <2>1, LifeFacts
    <3>3. Lives' = [Lives EXCEPT ![req] = Life(Gone)]
      BY <1>0, <1>3, OneLifeChanges
    <3> QED
      BY <3>1, <3>2, <3>3
  <2>3. ASSUME NEW o \in objs \cap Needs(req)
        PROVE  LC!Users(o) # {req}
    <3>1. OtherUser(o)
      BY <1>3 DEF RemoveFinalizer, TornDown, Needs
    <3> QED
      BY <3>1, UsersFacts DEF OtherUser
  <2> QED
    BY <1>0, <2>2, <2>3 DEF LC!Next, LC!Release, LC!Becomes, Lives
<1> QED
  BY <1>1, <1>2, <1>3, FinalizerStep

\* What users do.
LEMMA UserRefines ==
  ASSUME Prompt, TypeOK, CacheInv, DeletionIsOurs, NEW p \in Pipelines,
         UserCreates(p) \/ UserEdits(p) \/ UserDeletes(p) \/ ForegroundDone(p)
  PROVE  [LC!Next]_LC!vars
<1>0. UNCHANGED objs /\ api[p] \in OperatorPipeline
  BY UserStep DEF objVars, TypeOK
<1>1. CASE ~Present(api[p]) /\ api' = [api EXCEPT ![p] = Created]
  <2>1. Created \in OperatorPipeline /\ Created.phase = "active" /\ ~Guarded(Created)
    BY DEF Created, OperatorPipeline, Guarded
  <2>2. Lives[p] = "absent" /\ Lives' = [Lives EXCEPT ![p] = "new"]
    <3>1. Lives[p] = "absent"
      BY <1>0, <1>1, LifeFacts DEF Lives
    <3>2. Life(Created) = "new"
      BY <2>1, LifeFacts
    <3>3. Lives' = [Lives EXCEPT ![p] = Life(Created)]
      BY <1>0, <1>1, OneLifeChanges
    <3> QED
      BY <3>1, <3>2, <3>3
  <2> QED
    BY <1>0, <2>2 DEF LC!Next, LC!Create, LC!Becomes, Lives
<1>2. CASE UNCHANGED api
  BY <1>0, <1>2 DEF LC!vars
<1>3. CASE /\ api[p].phase = "active" /\ Guarded(api[p])
           /\ api' = [api EXCEPT ![p] = [api[p] EXCEPT !.phase = "terminating"]]
  <2> DEFINE cr == [api[p] EXCEPT !.phase = "terminating"]
  <2>1. cr \in OperatorPipeline /\ cr.phase = "terminating"
    BY <1>0 DEF OperatorPipeline
  <2>2. Lives[p] = "guarded" /\ Lives' = [Lives EXCEPT ![p] = "leaving"]
    <3>1. Lives[p] = "guarded"
      BY <1>0, <1>3, LifeFacts DEF Lives
    <3>2. Life(cr) = "leaving"
      BY <2>1, LifeFacts
    <3>3. Lives' = [Lives EXCEPT ![p] = Life(cr)]
      BY <1>0, <1>3, OneLifeChanges
    <3> QED
      BY <3>1, <3>2, <3>3
  <2> QED
    BY <1>0, <2>2 DEF LC!Next, LC!Delete, LC!Becomes, Lives
<1> QED
  BY <1>1, <1>2, <1>3, UserStep

\* With caches that keep up, and users who delete in the background CRs that have
\* their finalizer, Reconcile gives the cluster-scoped objects the life that
\* LifeCycle promises, whatever call of a pass fails or is its last.
THEOREM ImplementsLifeCycleWhenPrompt ==
  ASSUME Prompt
  PROVE  Spec => ImplementsLifeCycle
<1>1. Init => LC!Init
  <2>1. Gone \in OperatorPipeline /\ ~Present(Gone)
    BY DEF Gone, OperatorPipeline, Present
  <2> QED
    BY <2>1, LifeFacts DEF Init, LC!Init
<1>2. TypeOK /\ CacheInv /\ PromptInv /\ TeardownSparesFinalizedPeers /\ [Next]_vars
        => [LC!Next]_LC!vars
  <2> SUFFICES ASSUME TypeOK, CacheInv, PromptInv, TeardownSparesFinalizedPeers, [Next]_vars
               PROVE  [LC!Next]_LC!vars
    OBVIOUS
  <2>1. CASE \E p \in Pipelines :
               UserCreates(p) \/ UserEdits(p) \/ UserDeletes(p) \/ ForegroundDone(p)
    BY <2>1, UserRefines DEF PromptInv
  <2>2. CASE AddFinalizer \/ RemoveFinalizer
    BY <2>2, FinalizerRefines
  <2>3. CASE PassStep /\ CachesReady /\ ~AddFinalizer /\ ~RemoveFinalizer
    BY <2>3, PassRefines
  <2>4. CASE \/ HealthChanges \/ PipelineInformerSyncs \/ Resync \/ Crash \/ UNCHANGED vars
             \/ \E o \in ClusterObjects : ObjectInformerSyncs(o)
             \/ \E p \in Pipelines : Start(p)
    BY <2>4, QuietStep DEF LC!vars
  <2> QED
    BY <2>1, <2>2, <2>3, <2>4 DEF Next, Environment, Step
<1> QED
  BY <1>1, <1>2, TypeCorrect, CacheInvariant, PromptInvariant, TeardownSafe, PTL
     DEF Spec, ImplementsLifeCycle, LC!Spec

\* No cluster-scoped object outlives the CRs that it was created for: LifeCycle
\* keeps every object used, and the controller implements LifeCycle.
THEOREM NoOrphansWhenPrompt ==
  ASSUME Prompt
  PROVE  Spec => []NoOrphans
<1>1. LC!Init => LC!EveryObjectHasAUser
  BY DEF LC!Init, LC!EveryObjectHasAUser
<1>2. LC!EveryObjectHasAUser /\ [LC!Next]_LC!vars => LC!EveryObjectHasAUser'
  <2> SUFFICES ASSUME LC!EveryObjectHasAUser, [LC!Next]_LC!vars
               PROVE  LC!EveryObjectHasAUser'
    OBVIOUS
  <2> USE DEF LC!EveryObjectHasAUser, LC!Users, LC!Present
  <2>1. CASE UNCHANGED LC!vars
    BY <2>1 DEF LC!vars
  <2>2. ASSUME NEW p \in Pipelines, LC!Create(p) \/ LC!Guard(p) \/ LC!Delete(p)
        PROVE  LC!EveryObjectHasAUser'
    <3>1. PICK after \in {"new", "guarded", "leaving"} :
            Lives' = [Lives EXCEPT ![p] = after] /\ UNCHANGED objs
      BY <2>2 DEF LC!Create, LC!Guard, LC!Delete, LC!Becomes, Lives
    <3>2. \A q \in Pipelines : Lives[q] # "absent" => Lives'[q] # "absent"
      BY <3>1 DEF Lives
    <3> QED
      BY <3>1, <3>2 DEF Lives
  <2>3. ASSUME NEW p \in Pipelines, LC!Release(p)
        PROVE  LC!EveryObjectHasAUser'
    <3>1. Lives' = [Lives EXCEPT ![p] = "absent"] /\ UNCHANGED objs
      BY <2>3 DEF LC!Release, LC!Becomes, Lives
    <3>2. \A q \in Pipelines \ {p} : Lives'[q] = Lives[q]
      BY <3>1 DEF Lives
    <3>3. ASSUME NEW o \in objs
          PROVE  \E q \in Pipelines \ {p} : Lives[q] # "absent" /\ o \in Needs(q)
      <4>1. PICK q \in Pipelines : Lives[q] # "absent" /\ o \in Needs(q)
        BY DEF Lives
      <4>2. o \in Needs(p) => LC!Users(o) # {p} /\ p \in LC!Users(o)
        BY <2>3 DEF LC!Release, LC!Becomes
      <4> QED
        BY <4>1, <4>2 DEF Lives
    <3> QED
      BY <3>1, <3>2, <3>3 DEF Lives
  <2>4. ASSUME NEW o \in ClusterObjects, LC!Provide(o) \/ LC!Remove(o)
        PROVE  LC!EveryObjectHasAUser'
    BY <2>4 DEF LC!Provide, LC!Remove
  <2> QED
    BY <2>1, <2>2, <2>3, <2>4 DEF LC!Next
<1>3. LC!EveryObjectHasAUser /\ TypeOK => NoOrphans
  BY UsersFacts DEF LC!EveryObjectHasAUser, NoOrphans
<1> QED
  BY <1>1, <1>2, <1>3, ImplementsLifeCycleWhenPrompt, TypeCorrect, PTL
     DEF ImplementsLifeCycle, LC!Spec

=============================================================================
