------------------------- MODULE ProvisioningProofs -------------------------
(***************************************************************************)
(* Proofs about OperatorPipelineController when its caches keep up, with   *)
(* deletions of every kind, at any time: every live CR is provided with    *)
(* its cluster-scoped objects. Failed calls, conflicts and crashes are     *)
(* unbounded.                                                              *)
(***************************************************************************)
EXTENDS OperatorPipelineControllerProofs

\* A List that fails ends the pass, and its request is queued again.
LEMMA FailedListEnds ==
  ListFails => /\ pc \in DeleteSteps
               /\ UNCHANGED <<api, current, objs>>
               /\ pc' = "idle" /\ queue' = queue \cup {req}
  BY DEF ListFails, Finish, storeVars, objVars, DeleteSteps

\* The other steps of a pass leave the CRs alone, and may end it.
LEMMA OtherPassStep ==
  ASSUME TypeOK, PassStep, ~AddFinalizer, ~RemoveFinalizer
  PROVE  /\ req \in Pipelines
         /\ UNCHANGED api
         /\ UNCHANGED req \/ pc' = "idle"
         /\ pc \in ApplySteps => pc' \in ApplySteps
         /\ pc \in DeleteSteps => pc' \in DeleteSteps \cup {"idle"}
<1>1. CASE ApplyNamespacedManifests \/ ApplyImageStreams \/ CommitStatus \/ CommitStatusFails
  BY <1>1 DEF ApplyNamespacedManifests, ApplyImageStreams, CommitStatus, CommitStatusFails,
              Goto, storeVars, ApplySteps, DeleteSteps, TypeOK
<1>2. CASE ApplySCC \/ ApplyClusterRole \/ ApplyBinding
  BY <1>2 DEF ApplySCC, ApplyClusterRole, ApplyBinding, BindingOf, ApplyManifest,
              Goto, storeVars, ApplySteps, DeleteSteps, TypeOK
<1>3. CASE ListNamespace \/ ListCluster
  BY <1>3 DEF ListNamespace, ListCluster, Goto, storeVars, ApplySteps, DeleteSteps, TypeOK
<1>4. CASE DeleteBinding \/ DeleteClusterRole \/ DeleteSCC
  BY <1>4 DEF DeleteBinding, DeleteClusterRole, DeleteSCC, DeleteObject, Finish,
              Goto, storeVars, ApplySteps, DeleteSteps, TypeOK
<1>5. CASE ListFails
  BY <1>5, FailedListEnds DEF ApplySteps, DeleteSteps, TypeOK
<1> QED
  BY <1>1, <1>2, <1>3, <1>4, <1>5 DEF PassStep

\* The informers, the resync, crashes and the beginning of a pass: they leave the
\* CRs and the objects alone.
LEMMA QuietStep ==
  ASSUME \/ HealthChanges \/ PipelineInformerSyncs \/ Resync \/ Crash \/ UNCHANGED vars
         \/ \E o \in ClusterObjects : ObjectInformerSyncs(o)
         \/ \E p \in Pipelines : Start(p)
  PROVE  /\ UNCHANGED <<api, objs>>
         /\ \/ UNCHANGED <<pc, req>>
            \/ pc' = "idle"
            \/ \E p \in Pipelines : Start(p) /\ req' = p /\ pc' \in {"manifests", "listNamespace"}
  BY DEF HealthChanges, PipelineInformerSyncs, Resync, Crash, ObjectInformerSyncs, vars,
         Start, GetPipeline, GetFails, storeVars, objVars, workerVars

\* The controller starts a pass on what the API server has.
LEMMA StartReadsStored ==
  ASSUME ~LaggingCache, CacheInv, TypeOK, NEW p \in Pipelines, Start(p)
  PROVE  /\ cached = api
         /\ pc = "idle"
         /\ \/ UNCHANGED <<pc, req>>
            \/ req' = p /\ pc' = "manifests" /\ api[p].phase = "active"
            \/ req' = p /\ pc' = "listNamespace" /\ api[p].phase = "terminating"
               /\ Guarded(api[p])
<1>1. current = Pipelines /\ (GetPipeline(p) \/ GetFails(p))
  BY DEF CachesReady, Start
<1>2. cached = api
  BY <1>1 DEF CacheInv, CacheAgrees, TypeOK
<1> QED
  BY <1>1, <1>2 DEF GetPipeline, GetFails, workerVars

\* A teardown that goes on has deleted the object, whatever the cache showed.
LEMMA DeletedOrEnded ==
  ASSUME ~LaggingCache, CachesReady, NEW o, NEW next, DeleteObject(o, next)
  PROVE  /\ objs' \in {objs, objs \ {o}}
         /\ UNCHANGED <<api, current>>
         /\ \/ pc' = next /\ o \notin objs' /\ UNCHANGED <<req, queue>>
            \/ pc' = "idle" /\ queue' = queue \cup {req}
<1>1. objCache = objs
  BY DEF CachesReady
<1> QED
  BY <1>1 DEF DeleteObject, Goto, Finish, storeVars

\* The CR of a teardown waits for the teardown to take its finalizer away.
TeardownHolds == pc \in DeleteSteps => api[req].phase = "terminating" /\ Guarded(api[req])

\* What users and the garbage collector do to a CR: its informer will hear of it, and
\* a CR that waits for the operator goes on waiting.
LEMMA OutsideWrites ==
  ASSUME TypeOK, NEW p \in Pipelines,
         UserCreates(p) \/ UserEdits(p) \/ UserDeletes(p) \/ ForegroundDone(p)
  PROVE  /\ p \notin current' /\ current' \subseteq current
         /\ UNCHANGED <<objs, queue, pc, req, failed>>
         /\ \A q \in Pipelines \ {p} : api'[q] = api[q]
         /\ api[p].phase = "terminating" /\ Guarded(api[p]) =>
              api'[p].phase = "terminating" /\ Guarded(api'[p])
<1>0. api \in [Pipelines -> OperatorPipeline] /\ api[p] \in OperatorPipeline
  BY DEF TypeOK
<1>1. ASSUME NEW cr, UserWrites(p, cr)
      PROVE  /\ p \notin current' /\ current' \subseteq current
             /\ UNCHANGED <<objs, queue, pc, req, failed>>
             /\ \A q \in Pipelines \ {p} : api'[q] = api[q]
             /\ api'[p] = cr
  BY <1>0, <1>1 DEF UserWrites, StoreCR, objVars
<1>2. CASE UserCreates(p)
  BY <1>1, <1>2 DEF UserCreates, Present
<1>3. CASE UserEdits(p)
  BY <1>1, <1>3 DEF UserEdits
<1>4. CASE UserDeletes(p)
  BY <1>1, <1>4 DEF UserDeletes
<1>5. CASE ForegroundDone(p)
  <2>1. UserWrites(p, WithFinalizers(api[p], api[p].finalizers \ {"foreground"}))
    BY <1>5 DEF ForegroundDone
  <2>2. ASSUME api[p].phase = "terminating", Guarded(api[p])
        PROVE  LET cr == WithFinalizers(api[p], api[p].finalizers \ {"foreground"})
               IN  cr.phase = "terminating" /\ Guarded(cr)
    BY <1>0, <2>2 DEF WithFinalizers, Guarded, OperatorPipeline
  <2> QED
    BY <1>1, <2>1, <2>2
<1> QED
  BY <1>2, <1>3, <1>4, <1>5

\* What the end of a pass does: its CR apart, it changes nothing.
LEMMA PassEnds ==
  ASSUME TypeOK, AddFinalizer \/ RemoveFinalizer
  PROVE  /\ req \in Pipelines
         /\ pc' = "idle"
         /\ UNCHANGED objs
         /\ queue \subseteq queue' /\ current' \subseteq current
         /\ \A p \in Pipelines \ {req} : api'[p] = api[p]
<1>1. req \in Pipelines
  BY DEF AddFinalizer, RemoveFinalizer, TypeOK
<1>2. /\ pc' = "idle" /\ UNCHANGED objs
      /\ queue \subseteq queue' /\ current' \subseteq current
  BY DEF AddFinalizer, RemoveFinalizer, UpdateFinalizers, Finish, StoreCR, storeVars, objVars
<1>3. UNCHANGED api \/ \E cr : api' = [api EXCEPT ![req] = cr]
  BY DEF AddFinalizer, RemoveFinalizer, UpdateFinalizers, StoreCR, storeVars
<1> QED
  BY <1>1, <1>2, <1>3 DEF TypeOK

\* Only the pass itself takes the finalizer of the CR that it tears down for.
LEMMA KeepsTeardownHolding ==
  ~LaggingCache /\ TypeOK /\ CacheInv /\ TeardownHolds /\ [Next]_vars => TeardownHolds'
<1> SUFFICES ASSUME ~LaggingCache, TypeOK, CacheInv, TeardownHolds, [Next]_vars
             PROVE  TeardownHolds'
  OBVIOUS
<1>0. (pc \in DeleteSteps => req \in Pipelines) /\ "idle" \notin DeleteSteps
  BY DEF TypeOK, DeleteSteps
<1>1. ASSUME NEW p \in Pipelines,
             UserCreates(p) \/ UserEdits(p) \/ UserDeletes(p) \/ ForegroundDone(p)
      PROVE  TeardownHolds'
  <2>1. UNCHANGED <<pc, req>>
    BY <1>1, OutsideWrites
  <2>2. pc \in DeleteSteps => api'[req].phase = "terminating" /\ Guarded(api'[req])
    BY <1>0, <1>1, OutsideWrites DEF TeardownHolds
  <2> QED
    BY <2>1, <2>2 DEF TeardownHolds
<1>2. CASE AddFinalizer \/ RemoveFinalizer
  BY <1>0, <1>2, PassEnds DEF TeardownHolds
<1>3. CASE PassStep /\ ~AddFinalizer /\ ~RemoveFinalizer
  <2>1. pc \in ApplySteps \cup DeleteSteps
    BY <1>3 DEF PassStep, ApplyNamespacedManifests, ApplySCC, ApplyClusterRole,
       ApplyBinding, ApplyImageStreams, CommitStatus, CommitStatusFails,
       ListNamespace, DeleteBinding, ListCluster, ListFails, DeleteClusterRole, DeleteSCC,
       ApplySteps, DeleteSteps
  <2>2. ApplySteps \cap DeleteSteps = {}
    BY DEF ApplySteps, DeleteSteps
  <2> QED
    BY <1>0, <1>3, <2>1, <2>2, OtherPassStep DEF TeardownHolds
<1>4. CASE \/ HealthChanges \/ PipelineInformerSyncs \/ Resync \/ Crash \/ UNCHANGED vars
           \/ \E o \in ClusterObjects : ObjectInformerSyncs(o)
           \/ \E p \in Pipelines : Start(p)
  <2>1. UNCHANGED api
    BY <1>4, QuietStep
  <2>2. CASE UNCHANGED <<pc, req>> \/ pc' = "idle"
    BY <1>0, <2>1, <2>2 DEF TeardownHolds
  <2>3. ASSUME NEW p \in Pipelines, Start(p)
        PROVE  TeardownHolds'
    <3>1. \/ UNCHANGED <<pc, req>>
          \/ req' = p /\ pc' = "manifests"
          \/ req' = p /\ api[p].phase = "terminating" /\ Guarded(api[p])
      BY <2>3, StartReadsStored
    <3> QED
      BY <2>1, <3>1 DEF TeardownHolds, DeleteSteps
  <2> QED
    BY <1>4, <2>2, <2>3, QuietStep
<1> QED
  BY <1>1, <1>2, <1>3, <1>4 DEF Next, Environment, Step

-----------------------------------------------------------------------------
(***************************************************************************)
(* Every live CR is provided with its objects                              *)
(***************************************************************************)

\* What a pass that nothing has failed in has applied so far.
Applied ==
  ~failed =>
    /\ pc \in {"clusterRole", "binding", "streams", "status", "finalizer"} => SCC \in objs
    /\ pc \in {"binding", "streams", "status", "finalizer"} => ClusterRole \in objs
    /\ pc \in {"streams", "status", "finalizer"} => NamespaceOf[req] \in objs

\* A live CR has its objects, or a pass over it is still to come or to end.
AwaitsObjects(p) ==
  api[p].phase = "active" =>
    \/ p \in queue
    \/ p \notin current
    \/ req = p /\ pc \in ApplySteps
    \/ Needs(p) \subseteq objs

OwedObjects == Applied /\ \A p \in Pipelines : AwaitsObjects(p)

\* A step of a pass applies what it comes to, or has failed.
LEMMA ApplyKeepsApplied ==
  ASSUME TypeOK, OwedObjects, PassStep, pc \in ApplySteps, pc # "finalizer"
  PROVE  OwedObjects'
<1>1. /\ UNCHANGED <<api, req, queue>>
      /\ pc' \in ApplySteps
      /\ current' \subseteq current
      /\ objs \subseteq objs'
      /\ Applied'
  <2>1. CASE ApplyNamespacedManifests \/ ApplyImageStreams
    BY <2>1 DEF ApplyNamespacedManifests, ApplyImageStreams, Goto, storeVars, objVars,
                ApplySteps, OwedObjects, Applied, TypeOK
  <2>2. CASE CommitStatus \/ CommitStatusFails
    BY <2>2 DEF CommitStatus, CommitStatusFails, Goto, storeVars, objVars,
                ApplySteps, OwedObjects, Applied, TypeOK
  <2>3. CASE ApplySCC
    BY <2>3 DEF ApplySCC, ApplyManifest, Goto, storeVars, ApplySteps, OwedObjects, Applied
  <2>4. CASE ApplyClusterRole
    BY <2>4 DEF ApplyClusterRole, ApplyManifest, Goto, storeVars, ApplySteps, OwedObjects,
                Applied
  <2>5. CASE ApplyBinding
    BY <2>5 DEF ApplyBinding, BindingOf, ApplyManifest, Goto, storeVars, ApplySteps, OwedObjects,
                Applied
  <2> QED
    BY <2>1, <2>2, <2>3, <2>4, <2>5
       DEF PassStep, AddFinalizer, ListNamespace, DeleteBinding, ListCluster, ListFails,
           DeleteClusterRole, DeleteSCC, RemoveFinalizer, ApplySteps
<1> QED
  BY <1>1 DEF OwedObjects, AwaitsObjects, Needs

\* The end of a pass: it has applied everything, or its request is queued again, or
\* the CR has been written and its watch event will queue it.
LEMMA FinishKeepsObjects ==
  ASSUME TypeOK, OwedObjects, AddFinalizer \/ RemoveFinalizer
  PROVE  OwedObjects'
<1>1. req \in Pipelines /\ pc' = "idle" /\ UNCHANGED objs
  BY PassEnds
<1>2. Applied'
  BY <1>1 DEF Applied
<1>3. ASSUME NEW p \in Pipelines \ {req}
      PROVE  AwaitsObjects(p)'
  <2>1. queue \subseteq queue' /\ current' \subseteq current /\ api'[p] = api[p]
    BY PassEnds
  <2> QED
    BY <1>1, <1>3, <2>1 DEF OwedObjects, AwaitsObjects, Needs
<1>4. AwaitsObjects(req)
  BY <1>1 DEF OwedObjects
<1>5. ASSUME api'[req].phase = "active"
      PROVE  req \in queue' \/ req \notin current' \/ Needs(req) \subseteq objs'
  <2>1. CASE AddFinalizer /\ Guarded(currentPipeline)
    <3>1. CASE failed
      BY <2>1, <3>1 DEF AddFinalizer, Finish
    <3>2. CASE ~failed
      BY <1>1, <2>1, <3>2 DEF AddFinalizer, OwedObjects, Applied, Needs
    <3> QED
      BY <3>1, <3>2
  <2>2. CASE RemoveFinalizer \/ (AddFinalizer /\ ~Guarded(currentPipeline))
    BY <2>2 DEF AddFinalizer, RemoveFinalizer, UpdateFinalizers, Finish, StoreCR
  <2> QED
    BY <2>1, <2>2
<1>6. \A p \in Pipelines : p = req => AwaitsObjects(p)'
  BY <1>1, <1>5 DEF AwaitsObjects, Needs
<1> QED
  BY <1>2, <1>3, <1>6 DEF OwedObjects

\* A teardown takes objects only from live CRs whose first pass is still to end.
LEMMA TeardownKeepsObjects ==
  ASSUME ~LaggingCache, CachesReady, TypeOK, TeardownHolds, OwedObjects, OwedWork,
         TeardownSparesFinalizedPeers,
         \/ ListNamespace \/ DeleteBinding \/ ListCluster \/ ListFails
         \/ DeleteClusterRole \/ DeleteSCC
  PROVE  OwedObjects'
<1>0. /\ pc \in DeleteSteps /\ req \in Pipelines
      /\ api[req].phase = "terminating" /\ Guarded(api[req])
  BY FailedListEnds
  DEF ListNamespace, DeleteBinding, ListCluster, DeleteClusterRole, DeleteSCC, DeleteSteps,
      TypeOK, TeardownHolds
<1>1. /\ UNCHANGED <<api, current>> /\ queue \subseteq queue'
      /\ pc' \in DeleteSteps \cup {"idle"}
  <2>1. CASE ListNamespace \/ ListCluster
    BY <2>1 DEF ListNamespace, ListCluster, Goto, storeVars, DeleteSteps
  <2>2. CASE DeleteBinding \/ DeleteClusterRole \/ DeleteSCC
    BY <2>2, DeletedOrEnded DEF DeleteBinding, DeleteClusterRole, DeleteSCC, DeleteSteps
  <2>3. CASE ListFails
    BY <2>3, FailedListEnds
  <2> QED
    BY <2>1, <2>2, <2>3
<1>2. ASSUME NEW p \in Pipelines, api[p].phase = "active", ~(Needs(p) \cap objs \subseteq objs')
      PROVE  ~Guarded(api[p])
  <2>1. p # req
    BY <1>0, <1>2
  <2>2. CASE ListNamespace \/ ListCluster \/ ListFails
    BY <1>2, <2>2, FailedListEnds DEF ListNamespace, ListCluster, objVars
  <2>3. CASE DeleteBinding
    <3>1. pc = "deleteBinding" /\ objs' \in {objs, objs \ {NamespaceOf[req]}}
      BY <2>3, DeletedOrEnded DEF DeleteBinding
    <3>2. NamespaceOf[req] \in Needs(p)
      BY <1>2, <3>1
    <3>3. NamespaceOf[p] = NamespaceOf[req]
      BY <1>0, <3>2, ObjectsAssumption, PipelinesAssumption DEF Needs
    <3> QED
      BY <1>0, <1>2, <2>1, <3>1, <3>3 DEF TeardownSparesFinalizedPeers
  <2>4. CASE DeleteClusterRole \/ DeleteSCC
    BY <1>0, <1>2, <2>1, <2>4 DEF DeleteClusterRole, DeleteSCC, TeardownSparesFinalizedPeers
  <2> QED
    BY <2>2, <2>3, <2>4
<1>3. ASSUME NEW p \in Pipelines
      PROVE  AwaitsObjects(p)'
  <2>1. CASE api[p].phase # "active"
    BY <1>1, <2>1 DEF AwaitsObjects
  <2>2. p # req \/ pc \notin ApplySteps
    BY <1>0 DEF ApplySteps, DeleteSteps
  <2>3. CASE api[p].phase = "active" /\ ~Guarded(api[p])
    BY <1>0, <1>1, <2>2, <2>3 DEF OwedWork, AwaitsFinalizer, AwaitsObjects
  <2>4. CASE api[p].phase = "active" /\ Needs(p) \cap objs \subseteq objs'
    BY <1>1, <2>2, <2>4 DEF OwedObjects, AwaitsObjects, Needs
  <2> QED
    BY <1>2, <2>1, <2>3, <2>4
<1>4. Applied'
  BY <1>1 DEF Applied, DeleteSteps
<1> QED
  BY <1>3, <1>4 DEF OwedObjects

\* What comes from outside takes no objects, and queues what it changes.
LEMMA OutsideKeepsObjects ==
  ASSUME ~LaggingCache, TypeOK, CacheInv, OwedObjects,
         Environment \/ (\E p \in Pipelines : Start(p)) \/ UNCHANGED vars
  PROVE  OwedObjects'
<1>1. ASSUME NEW r \in Pipelines,
             UserCreates(r) \/ UserEdits(r) \/ UserDeletes(r) \/ ForegroundDone(r)
      PROVE  OwedObjects'
  <2>1. /\ r \notin current' /\ current' \subseteq current
        /\ UNCHANGED <<objs, queue, pc, req, failed>>
        /\ \A p \in Pipelines \ {r} : api'[p] = api[p]
    BY <1>1, OutsideWrites
  <2> QED
    BY <2>1 DEF OwedObjects, Applied, AwaitsObjects, Needs
<1>2. CASE PipelineInformerSyncs \/ Resync
  <2>1. UNCHANGED <<api, objs, pc, req, failed>>
    BY <1>2 DEF PipelineInformerSyncs, Resync, storeVars, objVars, workerVars
  <2>2. \A p \in Pipelines : p \in queue \/ p \notin current => p \in queue' \/ p \notin current'
    BY <1>2 DEF PipelineInformerSyncs, Resync, storeVars
  <2> QED
    BY <2>1, <2>2 DEF OwedObjects, Applied, AwaitsObjects, Needs
<1>3. CASE Crash
  <2>1. Applied'
    BY <1>3 DEF Crash, Applied
  <2>2. \A p \in Pipelines : AwaitsObjects(p)'
    BY <1>3 DEF Crash, AwaitsObjects, Present
  <2> QED
    BY <2>1, <2>2 DEF OwedObjects
<1>4. ASSUME NEW r \in Pipelines, Start(r)
      PROVE  OwedObjects'
  <2>0. CASE GetFails(r)
    BY <2>0 DEF GetFails, storeVars, objVars, workerVars, OwedObjects, Applied,
                AwaitsObjects, Needs
  <2> SUFFICES ASSUME GetPipeline(r)
               PROVE  OwedObjects'
    BY <1>4, <2>0 DEF Start
  <2>1. /\ UNCHANGED <<api, objs, current, failed>> /\ queue' = queue \ {r}
        /\ pc = "idle" /\ pc' \in {"idle", "manifests", "listNamespace"}
    BY DEF GetPipeline, storeVars, objVars
  <2>2. Applied'
    BY <2>1 DEF Applied
  <2>3. \A p \in Pipelines \ {r} : AwaitsObjects(p)'
    BY <2>1 DEF OwedObjects, AwaitsObjects, Needs, ApplySteps
  <2>4. cached = api
    BY <1>4, StartReadsStored
  <2>5. AwaitsObjects(r)'
    BY <2>1, <2>4 DEF GetPipeline, AwaitsObjects, ApplySteps
  <2> QED
    BY <2>2, <2>3, <2>5 DEF OwedObjects
<1>5. CASE \/ HealthChanges \/ UNCHANGED vars
           \/ \E o \in ClusterObjects : ObjectInformerSyncs(o)
  BY <1>5 DEF HealthChanges, ObjectInformerSyncs, vars, storeVars, objVars, workerVars,
              OwedObjects, Applied, AwaitsObjects, Needs
<1> QED
  BY <1>1, <1>2, <1>3, <1>4, <1>5 DEF Environment

\* When nothing is left to do, every live CR has its cluster-scoped objects: a
\* teardown that takes them from it, or a failure in its own pass, leaves it queued,
\* though CRs are deleted in the middle of their passes, before or after they have
\* their finalizer, and wait for others than the operator.
THEOREM ProvisionedWhenCachesKeepUp ==
  ASSUME ~LaggingCache
  PROVE  Spec => []SettledIsProvisioned
<1>1. Init => TeardownHolds /\ OwedObjects /\ OwedWork
  BY DEF Init, TeardownHolds, DeleteSteps, OwedObjects, Applied, AwaitsObjects, OwedWork,
         AwaitsFinalizer, AwaitsRelease, Gone
<1>2. TypeOK /\ CacheInv /\ OwedWork /\ [Next]_vars => OwedWork'
  BY NextKeepsOwed
<1>3. TypeOK /\ CacheInv /\ TeardownHolds /\ [Next]_vars => TeardownHolds'
  BY KeepsTeardownHolding
<1>4. TypeOK /\ CacheInv /\ TeardownHolds /\ TeardownSparesFinalizedPeers
        /\ OwedWork /\ OwedObjects /\ [Next]_vars => OwedObjects'
  <2> SUFFICES ASSUME TypeOK, CacheInv, TeardownHolds, TeardownSparesFinalizedPeers,
                      OwedWork, OwedObjects, [Next]_vars
               PROVE  OwedObjects'
    OBVIOUS
  <2>1. CASE Environment \/ (\E p \in Pipelines : Start(p)) \/ UNCHANGED vars
    BY <2>1, OutsideKeepsObjects
  <2>2. CASE AddFinalizer \/ RemoveFinalizer
    BY <2>2, FinishKeepsObjects
  <2>3. CASE PassStep /\ pc \in ApplySteps /\ pc # "finalizer"
    BY <2>3, ApplyKeepsApplied
  <2>4. CASE /\ CachesReady
             /\ \/ ListNamespace \/ DeleteBinding \/ ListCluster \/ ListFails
                \/ DeleteClusterRole \/ DeleteSCC
    BY <2>4, TeardownKeepsObjects
  <2>5. ASSUME PassStep
        PROVE  \/ AddFinalizer \/ RemoveFinalizer
               \/ pc \in ApplySteps /\ pc # "finalizer"
               \/ ListNamespace \/ DeleteBinding \/ ListCluster \/ ListFails
               \/ DeleteClusterRole \/ DeleteSCC
    BY <2>5 DEF PassStep, ApplyNamespacedManifests, ApplySCC, ApplyClusterRole,
       ApplyBinding, ApplyImageStreams, CommitStatus, CommitStatusFails, ApplySteps
  <2> QED
    BY <2>1, <2>2, <2>3, <2>4, <2>5 DEF Next, Step
<1>5. OwedObjects => SettledIsProvisioned
  BY DEF OwedObjects, AwaitsObjects, SettledIsProvisioned, Settled, ApplySteps
<1> QED
  BY <1>1, <1>2, <1>3, <1>4, <1>5, TypeCorrect, CacheInvariant, TeardownSafe, PTL DEF Spec

=============================================================================
