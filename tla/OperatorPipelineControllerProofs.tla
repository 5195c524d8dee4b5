------------------- MODULE OperatorPipelineControllerProofs -------------------
(***************************************************************************)
(* Proofs about OperatorPipelineController, for any number of              *)
(* OperatorPipelines, namespaces and disturbances, with caches that lag.   *)
(***************************************************************************)
EXTENDS OperatorPipelineController, FiniteSetTheorems, TLAPS

\* A CR that does not exist has no finalizer.
GoneIsBare == \A p \in Pipelines : api[p].phase = "absent" => api[p].finalizers = {}

\* current names the CRs whose cached copy is the stored one.
CacheAgrees == \A p \in current : cached[p] = api[p]

\* A pass that is still fresh works on what is stored and cached.
FreshPass == fresh => req \in current /\ currentPipeline = api[req]

\* Each branch of Reconcile runs on the kind of CR its guard asked for.
PassKind ==
  /\ pc \in ApplySteps => currentPipeline.phase = "active"
  /\ pc \in DeleteSteps => currentPipeline.phase = "terminating" /\ Guarded(currentPipeline)

\* The operator's finalizer is only ever put on a CR that the cache shows, and
\* a CR that holds it cannot leave the cache: it is counted by every List.
FinalizedIsCached == \A p \in Pipelines : Guarded(api[p]) => Present(cached[p])

\* What the worker may assume of the API server and of its cache.
CacheInv ==
  /\ GoneIsBare
  /\ CacheAgrees
  /\ FreshPass
  /\ PassKind
  /\ FinalizedIsCached

-----------------------------------------------------------------------------
(***************************************************************************)
(* Types                                                                   *)
(***************************************************************************)

\* What a finalizer update leaves of a CR is again a CR.
LEMMA WithFinalizersType ==
  ASSUME NEW cr \in OperatorPipeline, NEW fs \in SUBSET {"operator", "foreground"}
  PROVE  WithFinalizers(cr, fs) \in OperatorPipeline
  BY DEF WithFinalizers, OperatorPipeline, Gone

\* The type invariant holds at the start.
LEMMA InitType == Init => TypeOK
<1>1. Gone \in OperatorPipeline
  BY DEF Gone, OperatorPipeline
<1>2. 0 \in 0..MaxDisturbances
  BY EnvironmentAssumption
<1> QED
  BY <1>1, <1>2 DEF Init, TypeOK

\* The bound on disturbances is kept.
LEMMA DisturbType ==
  ASSUME TypeOK, Disturb \/ UNCHANGED disturbances
  PROVE  disturbances' \in 0..MaxDisturbances
<1>1. CASE Disturb
  BY <1>1, EnvironmentAssumption DEF TypeOK, Disturb
<1> QED
  BY <1>1 DEF TypeOK

\* A user's write, whatever the action it belongs to, keeps the types.
LEMMA UserWritesType ==
  ASSUME TypeOK, NEW p \in Pipelines, NEW cr \in OperatorPipeline,
         UserWrites(p, cr), disturbances' \in 0..MaxDisturbances
  PROVE  TypeOK'
  BY DEF TypeOK, UserWrites, StoreCR, objVars

\* So does a finalizer update.
LEMMA UpdateFinalizersType ==
  ASSUME TypeOK, NEW fs \in SUBSET {"operator", "foreground"}, NEW requeue \in BOOLEAN,
         pc # "idle", UpdateFinalizers(fs, requeue)
  PROVE  TypeOK'
<1>1. req \in Pipelines
  BY DEF TypeOK
<1>2. WithFinalizers(api[req], fs) \in OperatorPipeline
  BY <1>1, WithFinalizersType DEF TypeOK
<1>3. /\ api' \in [Pipelines -> OperatorPipeline]
      /\ current' \subseteq Pipelines
  BY <1>1, <1>2 DEF UpdateFinalizers, StoreCR, TypeOK
<1>4. disturbances' \in 0..MaxDisturbances
  BY DisturbType DEF UpdateFinalizers
<1>5. queue' \subseteq Pipelines /\ pc' = "idle" /\ req' = NoPipeline
      /\ currentPipeline' = Gone /\ fresh' = FALSE /\ failed' = FALSE
  BY <1>1 DEF UpdateFinalizers, Finish, TypeOK
<1>6. Gone \in OperatorPipeline
  BY DEF Gone, OperatorPipeline
<1>7. UNCHANGED <<status, objs, objCache, cached, health>>
  BY DEF UpdateFinalizers, objVars
<1> QED
  BY <1>3, <1>4, <1>5, <1>6, <1>7 DEF TypeOK

\* So does the application of a cluster-scoped object,
LEMMA ApplyManifestType ==
  ASSUME TypeOK, pc # "idle", NEW o \in ClusterObjects, NEW next \in ApplySteps,
         ApplyManifest(o, next)
  PROVE  TypeOK'
<1>1. disturbances' \in 0..MaxDisturbances
  BY DisturbType DEF ApplyManifest
<1>a. objs' \subseteq ClusterObjects
  BY DEF ApplyManifest, TypeOK
<1>2. \E step \in ApplySteps, failure \in BOOLEAN : Goto(step, failure)
  BY DEF ApplyManifest, ApplySteps
<1>3. UNCHANGED <<api, status, current, objCache, cached, fresh, health>>
  BY DEF ApplyManifest, storeVars
<1>4. /\ pc' \in ApplySteps /\ failed' \in BOOLEAN
      /\ UNCHANGED <<queue, req, currentPipeline>>
  BY <1>2 DEF Goto, TypeOK
<1>5. pc' # "idle" /\ req # NoPipeline
  BY <1>4 DEF ApplySteps, TypeOK
<1> QED
  BY <1>1, <1>a, <1>3, <1>4, <1>5 DEF TypeOK

\* and its deletion.
LEMMA DeleteObjectType ==
  ASSUME TypeOK, pc # "idle", NEW o \in ClusterObjects, NEW next \in DeleteSteps,
         DeleteObject(o, next)
  PROVE  TypeOK'
<1>0. UNCHANGED <<api, status, current, objCache, cached, health>>
  BY DEF DeleteObject, storeVars
<1>1. disturbances' \in 0..MaxDisturbances
  BY DisturbType DEF DeleteObject
<1>a. objs' \subseteq ClusterObjects
  BY DEF DeleteObject, TypeOK
<1>2. CASE Goto(next, FALSE) /\ UNCHANGED fresh
  <2>1. /\ pc' \in DeleteSteps /\ failed' \in BOOLEAN
        /\ UNCHANGED <<queue, req, currentPipeline, fresh>>
    BY <1>2 DEF Goto, TypeOK
  <2>2. pc' # "idle" /\ req # NoPipeline
    BY <2>1 DEF DeleteSteps, TypeOK
  <2> QED
    BY <1>0, <1>1, <1>a, <2>1, <2>2 DEF TypeOK
<1>3. CASE Finish(TRUE)
  <2>1. /\ queue' \subseteq Pipelines /\ pc' = "idle" /\ req' = NoPipeline
        /\ currentPipeline' = Gone /\ fresh' = FALSE /\ failed' = FALSE
    BY <1>3 DEF Finish, TypeOK
  <2>2. Gone \in OperatorPipeline
    BY DEF Gone, OperatorPipeline
  <2> QED
    BY <1>0, <1>1, <1>a, <2>1, <2>2 DEF TypeOK
<1> QED
  BY <1>2, <1>3 DEF DeleteObject

\* A step that only moves the pass on keeps the types.
LEMMA GotoType ==
  ASSUME TypeOK, NEW step \in ApplySteps \cup DeleteSteps, NEW failure \in BOOLEAN,
         Goto(step, failure), pc # "idle",
         api' \in [Pipelines -> OperatorPipeline],
         status' \in [Pipelines -> Reports \cup {"none"}],
         current' \subseteq Pipelines, fresh' \in BOOLEAN,
         disturbances' \in 0..MaxDisturbances,
         UNCHANGED <<objs, objCache, cached, health>>
  PROVE  TypeOK'
<1>1. pc' # "idle" /\ req # NoPipeline
  BY DEF Goto, ApplySteps, DeleteSteps, TypeOK
<1> QED
  BY <1>1 DEF Goto, TypeOK

\* A List that fails ends the pass as one in a deletion does.
LEMMA FailedListIsFailedDelete ==
  ListFails => pc \in DeleteSteps /\ DeleteObject(SCC, "release")
  BY DEF ListFails, DeleteObject, objVars, DeleteSteps

\* Every step of a pass keeps the types.
LEMMA PassStepType == TypeOK /\ PassStep => TypeOK'
<1> SUFFICES ASSUME TypeOK, PassStep
             PROVE  TypeOK'
  OBVIOUS
<1>a. req \in Pipelines /\ pc # "idle"
  BY DEF TypeOK, PassStep, ApplyNamespacedManifests, ApplySCC, ApplyClusterRole,
         ApplyBinding, ApplyImageStreams, CommitStatus, CommitStatusFails, AddFinalizer,
         ListNamespace, DeleteBinding, ListCluster, ListFails, DeleteClusterRole,
         DeleteSCC, RemoveFinalizer
<1>b. NamespaceOf[req] \in ClusterObjects /\ SCC \in ClusterObjects
      /\ ClusterRole \in ClusterObjects
  BY <1>a, PipelinesAssumption DEF ClusterObjects
<1>c. /\ currentPipeline.finalizers \cup {"operator"} \in SUBSET {"operator", "foreground"}
      /\ currentPipeline.finalizers \ {"operator"} \in SUBSET {"operator", "foreground"}
      /\ failed \in BOOLEAN
  BY DEF TypeOK, OperatorPipeline
<1>1. CASE ApplyNamespacedManifests
  <2>1. PICK step \in {"scc", "streams"}, failure \in BOOLEAN : Goto(step, failure)
    BY <1>1 DEF ApplyNamespacedManifests
  <2>2. step \in ApplySteps \cup DeleteSteps
    BY DEF ApplySteps
  <2>3. disturbances' \in 0..MaxDisturbances
    BY <1>1, DisturbType DEF ApplyNamespacedManifests
  <2> QED
    BY <1>1, <1>a, <2>1, <2>2, <2>3, GotoType
    DEF ApplyNamespacedManifests, TypeOK, storeVars, objVars
<1>2. CASE ApplySCC
  BY <1>2, <1>a, <1>b, ApplyManifestType DEF ApplySCC, ApplySteps
<1>3. CASE ApplyClusterRole
  BY <1>3, <1>a, <1>b, ApplyManifestType DEF ApplyClusterRole, ApplySteps
<1>4. CASE ApplyBinding
  BY <1>4, <1>a, <1>b, ApplyManifestType DEF ApplyBinding, BindingOf, ApplySteps
<1>5. CASE ApplyImageStreams
  <2>1. PICK failure \in BOOLEAN : Goto("status", failure)
    BY <1>5 DEF ApplyImageStreams
  <2>2. "status" \in ApplySteps \cup DeleteSteps
    BY DEF ApplySteps
  <2>3. disturbances' \in 0..MaxDisturbances
    BY <1>5, DisturbType DEF ApplyImageStreams
  <2> QED
    BY <1>5, <1>a, <2>1, <2>2, <2>3, GotoType
    DEF ApplyImageStreams, TypeOK, storeVars, objVars
<1>6. CASE CommitStatus
  <2>1. /\ "finalizer" \in ApplySteps \cup DeleteSteps
        /\ (health = "degraded") \in BOOLEAN
    BY DEF ApplySteps
  <2>2. health \in Reports \cup {"none"}
    BY DEF TypeOK
  <2>3. /\ status' \in [Pipelines -> Reports \cup {"none"}]
        /\ current' \subseteq Pipelines
        /\ fresh' \in BOOLEAN
    BY <1>6, <1>a, <2>2 DEF CommitStatus, TypeOK
  <2> QED
    BY <1>6, <1>a, <2>1, <2>3, GotoType DEF CommitStatus, TypeOK, objVars
<1>7. CASE CommitStatusFails
  <2>1. /\ "finalizer" \in ApplySteps \cup DeleteSteps
        /\ (health = "degraded") \in BOOLEAN
    BY DEF ApplySteps
  <2>2. disturbances' \in 0..MaxDisturbances
    BY <1>7, DisturbType DEF CommitStatusFails
  <2> QED
    BY <1>7, <1>a, <2>1, <2>2, GotoType
    DEF CommitStatusFails, TypeOK, storeVars, objVars
<1>8. CASE AddFinalizer
  <2>1. CASE Guarded(currentPipeline)
    <3>1. /\ queue' \subseteq Pipelines /\ pc' = "idle" /\ req' = NoPipeline
          /\ currentPipeline' = Gone /\ fresh' = FALSE /\ failed' = FALSE
      BY <1>8, <1>a, <2>1 DEF AddFinalizer, Finish, TypeOK
    <3>2. Gone \in OperatorPipeline
      BY DEF Gone, OperatorPipeline
    <3>3. UNCHANGED <<api, status, current, objs, objCache, cached, health, disturbances>>
      BY <1>8, <2>1 DEF AddFinalizer, storeVars, objVars
    <3> QED
      BY <3>1, <3>2, <3>3 DEF TypeOK
  <2> QED
    BY <1>8, <1>a, <1>c, <2>1, UpdateFinalizersType DEF AddFinalizer
<1>9. CASE ListNamespace \/ ListCluster
  <2>1. PICK step \in DeleteSteps : Goto(step, FALSE)
    BY <1>9 DEF ListNamespace, ListCluster, DeleteSteps
  <2>2. UNCHANGED <<storeVars, objVars, cached, fresh, health, disturbances>>
    BY <1>9 DEF ListNamespace, ListCluster
  <2> QED
    BY <1>a, <2>1, <2>2, GotoType DEF TypeOK, storeVars, objVars
<1>10. CASE DeleteBinding
  BY <1>10, <1>a, <1>b, DeleteObjectType DEF DeleteBinding, DeleteSteps
<1>11. CASE DeleteClusterRole
  BY <1>11, <1>a, <1>b, DeleteObjectType DEF DeleteClusterRole, DeleteSteps
<1>12. CASE DeleteSCC
  BY <1>12, <1>a, <1>b, DeleteObjectType DEF DeleteSCC, DeleteSteps
<1>13. CASE RemoveFinalizer
  BY <1>13, <1>a, <1>c, UpdateFinalizersType DEF RemoveFinalizer
<1>14. CASE ListFails
  BY <1>14, <1>a, <1>b, FailedListIsFailedDelete, DeleteObjectType DEF DeleteSteps
<1> QED
  BY <1>1, <1>2, <1>3, <1>4, <1>5, <1>6, <1>7, <1>8, <1>9, <1>10, <1>11, <1>12, <1>13,
     <1>14
  DEF PassStep

\* Every step keeps the types.
LEMMA NextType == TypeOK /\ [Next]_vars => TypeOK'
<1> SUFFICES ASSUME TypeOK, [Next]_vars
             PROVE  TypeOK'
  OBVIOUS
<1>0. /\ Gone \in OperatorPipeline
      /\ Created \in OperatorPipeline
  BY DEF Gone, Created, OperatorPipeline
<1>1. ASSUME NEW p \in Pipelines, UserCreates(p)
      PROVE  TypeOK'
  BY <1>0, <1>1, UserWritesType, DisturbType DEF UserCreates
<1>2. ASSUME NEW p \in Pipelines, UserEdits(p)
      PROVE  TypeOK'
  <2>1. api[p] \in OperatorPipeline
    BY DEF TypeOK
  <2> QED
    BY <1>2, <2>1, UserWritesType, DisturbType DEF UserEdits
<1>3. ASSUME NEW p \in Pipelines, UserDeletes(p)
      PROVE  TypeOK'
  <2>1. PICK extra \in {{}, {"foreground"}} :
          UserWrites(p, WithFinalizers([api[p] EXCEPT !.phase = "terminating"],
                                       api[p].finalizers \cup extra))
    BY <1>3 DEF UserDeletes
  <2>2. /\ [api[p] EXCEPT !.phase = "terminating"] \in OperatorPipeline
        /\ api[p].finalizers \cup extra \in SUBSET {"operator", "foreground"}
    BY DEF TypeOK, OperatorPipeline
  <2>3. disturbances' \in 0..MaxDisturbances
    BY <1>3, DisturbType DEF UserDeletes
  <2> QED
    BY <2>1, <2>2, <2>3, WithFinalizersType, UserWritesType
<1>4. ASSUME NEW p \in Pipelines, ForegroundDone(p)
      PROVE  TypeOK'
  <2>1. /\ api[p] \in OperatorPipeline
        /\ api[p].finalizers \ {"foreground"} \in SUBSET {"operator", "foreground"}
    BY DEF TypeOK, OperatorPipeline
  <2>2. disturbances' \in 0..MaxDisturbances
    BY <1>4, DisturbType DEF ForegroundDone
  <2> QED
    BY <1>4, <2>1, <2>2, WithFinalizersType, UserWritesType DEF ForegroundDone
<1>5. CASE HealthChanges
  BY <1>5, DisturbType
  DEF HealthChanges, TypeOK, storeVars, objVars, workerVars
<1>6. CASE PipelineInformerSyncs
  BY <1>6 DEF PipelineInformerSyncs, TypeOK, objVars, workerVars
<1>7. ASSUME NEW o \in ClusterObjects, ObjectInformerSyncs(o)
      PROVE  TypeOK'
  BY <1>7 DEF ObjectInformerSyncs, TypeOK, storeVars, workerVars
<1>8. CASE Resync
  BY <1>8 DEF Resync, TypeOK, storeVars, objVars, workerVars
<1>9. CASE Crash
  <2>1. disturbances' \in 0..MaxDisturbances
    BY <1>9, DisturbType DEF Crash
  <2> QED
    BY <1>0, <1>9, <2>1 DEF Crash, TypeOK
<1>10. ASSUME NEW p \in Pipelines, GetPipeline(p)
       PROVE  TypeOK'
  <2>1. /\ queue' \subseteq Pipelines
        /\ UNCHANGED <<api, status, current, objs, objCache, cached, failed, health,
                       disturbances>>
    BY <1>10 DEF GetPipeline, TypeOK, storeVars, objVars
  <2>2. CASE UNCHANGED <<pc, req, currentPipeline, fresh>>
    BY <2>1, <2>2 DEF TypeOK
  <2>3. CASE /\ pc' \in {"manifests", "listNamespace"}
             /\ req' = p
             /\ currentPipeline' = cached[p]
             /\ fresh' = (p \in current)
    <3>1. pc' \in ApplySteps \cup DeleteSteps /\ pc' # "idle"
      BY <2>3 DEF ApplySteps, DeleteSteps
    <3>2. req' \in Pipelines /\ req' # NoPipeline
      BY <2>3, PipelinesAssumption
    <3>3. currentPipeline' \in OperatorPipeline /\ fresh' \in BOOLEAN
      BY <2>3 DEF TypeOK
    <3> QED
      BY <2>1, <3>1, <3>2, <3>3 DEF TypeOK
  <2> QED
    BY <1>10, <2>2, <2>3 DEF GetPipeline
<1>13. ASSUME NEW p \in Pipelines, GetFails(p)
       PROVE  TypeOK'
  <2>1. disturbances' \in 0..MaxDisturbances
    BY <1>13, DisturbType DEF GetFails
  <2> QED
    BY <1>13, <2>1 DEF GetFails, TypeOK, storeVars, objVars, workerVars
<1>11. CASE Step
  BY <1>11, PassStepType DEF Step
<1>12. CASE UNCHANGED vars
  BY <1>12 DEF vars, TypeOK
<1> QED
  BY <1>1, <1>2, <1>3, <1>4, <1>5, <1>6, <1>7, <1>8, <1>9, <1>10, <1>11, <1>12, <1>13
  DEF Next, Environment, Start

\* In every reachable state every variable has its type, the worker's request is
\* set exactly while a pass runs, and the disturbances keep to their bound.
THEOREM TypeCorrect == Spec => []TypeOK
  BY InitType, NextType, PTL DEF Spec

-----------------------------------------------------------------------------
(***************************************************************************)
(* The cache and the pass                                                  *)
(***************************************************************************)

\* An update that leaves a CR without finalizers leaves it bare or live, and
\* puts on it no finalizer that it was not given.
LEMMA WithFinalizersFacts ==
  ASSUME NEW cr \in OperatorPipeline, NEW fs \in SUBSET {"operator", "foreground"},
         cr.phase # "absent"
  PROVE  LET w == WithFinalizers(cr, fs) IN
         /\ w.phase = "absent" => w.finalizers = {}
         /\ Guarded(w) => "operator" \in fs
         /\ w.phase \in {"absent", cr.phase}
  BY DEF WithFinalizers, OperatorPipeline, Gone, Guarded

\* No write of a user gives a CR the operator's finalizer, and none of them
\* disturbs what the worker may assume.
LEMMA UserWritesInv ==
  ASSUME TypeOK, CacheInv, NEW p \in Pipelines, NEW cr \in OperatorPipeline,
         cr.phase = "absent" => cr.finalizers = {},
         Guarded(cr) => Guarded(api[p]),
         UserWrites(p, cr)
  PROVE  CacheInv'
<1>1. /\ api' = [api EXCEPT ![p] = cr]
      /\ current' = current \ {p}
      /\ fresh' = (fresh /\ req # p)
      /\ UNCHANGED <<cached, pc, req, currentPipeline>>
  BY DEF UserWrites, StoreCR
<1>2. \A q \in Pipelines : api'[q] = IF q = p THEN cr ELSE api[q]
  BY <1>1 DEF TypeOK
<1>3. GoneIsBare'
  BY <1>2 DEF GoneIsBare, CacheInv
<1>4. CacheAgrees'
  BY <1>1, <1>2 DEF CacheAgrees, CacheInv, TypeOK
<1>5. FreshPass'
  BY <1>1, <1>2 DEF FreshPass, CacheInv, TypeOK
<1>6. PassKind'
  BY <1>1 DEF PassKind, CacheInv, Guarded
<1>7. FinalizedIsCached'
  BY <1>1, <1>2 DEF FinalizedIsCached, CacheInv, Guarded, Present
<1> QED
  BY <1>3, <1>4, <1>5, <1>6, <1>7 DEF CacheInv

\* A step that stores no CR and moves the pass on within its branch, or ends it,
\* leaves the cache as it was.
LEMMA PassMovesInv ==
  ASSUME CacheInv, UNCHANGED <<api, current, cached>>,
         \/ /\ UNCHANGED <<req, currentPipeline, fresh>>
            /\ \/ pc \in ApplySteps /\ pc' \in ApplySteps
               \/ pc \in DeleteSteps /\ pc' \in DeleteSteps
         \/ \E requeue \in BOOLEAN : Finish(requeue)
  PROVE  CacheInv'
<1>1. GoneIsBare' /\ CacheAgrees' /\ FinalizedIsCached'
  BY DEF CacheInv, GoneIsBare, CacheAgrees, FinalizedIsCached, Guarded, Present
<1>2. CASE /\ UNCHANGED <<req, currentPipeline, fresh>>
           /\ \/ pc \in ApplySteps /\ pc' \in ApplySteps
              \/ pc \in DeleteSteps /\ pc' \in DeleteSteps
  <2>1. FreshPass' /\ PassKind'
    BY <1>2 DEF CacheInv, FreshPass, PassKind, ApplySteps, DeleteSteps, Guarded
  <2> QED
    BY <1>1, <2>1 DEF CacheInv
<1>3. CASE \E requeue \in BOOLEAN : Finish(requeue)
  <2>1. pc' = "idle" /\ fresh' = FALSE
    BY <1>3 DEF Finish
  <2>2. FreshPass' /\ PassKind'
    BY <2>1 DEF FreshPass, PassKind, ApplySteps, DeleteSteps
  <2> QED
    BY <1>1, <2>2 DEF CacheInv
<1> QED
  BY <1>2, <1>3

\* A finalizer update is rejected unless the pass is fresh, and then the cache
\* shows the CR that it writes.
LEMMA UpdateFinalizersInv ==
  ASSUME TypeOK, CacheInv, pc \in ApplySteps \cup DeleteSteps,
         NEW fs \in SUBSET {"operator", "foreground"}, NEW requeue \in BOOLEAN,
         UpdateFinalizers(fs, requeue)
  PROVE  CacheInv'
<1>0. \E r \in BOOLEAN : Finish(r)
  BY DEF UpdateFinalizers
<1>1. CASE UNCHANGED <<api, current>>
  BY <1>0, <1>1, PassMovesInv DEF UpdateFinalizers
<1>2. CASE fresh /\ StoreCR(req, WithFinalizers(api[req], fs))
  <2> DEFINE w == WithFinalizers(api[req], fs)
  <2>1. /\ req \in Pipelines /\ api[req] \in OperatorPipeline
        /\ cached[req] = api[req] /\ currentPipeline = api[req]
    BY <1>2 DEF CacheInv, FreshPass, CacheAgrees, TypeOK
  <2>2. api[req].phase # "absent"
    BY <2>1 DEF CacheInv, PassKind
  <2>3. w.phase = "absent" => w.finalizers = {}
    BY <2>1, <2>2, WithFinalizersFacts
  <2>4. /\ \A q \in Pipelines : api'[q] = IF q = req THEN w ELSE api[q]
        /\ current' = current \ {req}
        /\ cached' = cached
    BY <1>2, <2>1 DEF StoreCR, TypeOK, UpdateFinalizers
  <2>5. pc' = "idle" /\ fresh' = FALSE
    BY <1>0 DEF Finish
  <2>6. GoneIsBare'
    BY <2>3, <2>4 DEF CacheInv, GoneIsBare
  <2>7. CacheAgrees'
    BY <2>4 DEF CacheInv, CacheAgrees, TypeOK
  <2>8. FreshPass' /\ PassKind'
    BY <2>5 DEF FreshPass, PassKind, ApplySteps, DeleteSteps
  <2>9. FinalizedIsCached'
    BY <2>1, <2>2, <2>4 DEF CacheInv, FinalizedIsCached, Guarded, Present
  <2> QED
    BY <2>6, <2>7, <2>8, <2>9 DEF CacheInv
<1> QED
  BY <1>1, <1>2 DEF UpdateFinalizers

\* Every step of a pass keeps what the worker may assume.
LEMMA PassStepInv == TypeOK /\ CacheInv /\ PassStep => CacheInv'
<1> SUFFICES ASSUME TypeOK, CacheInv, PassStep
             PROVE  CacheInv'
  OBVIOUS
<1>1. CASE ApplyNamespacedManifests \/ ApplyImageStreams \/ CommitStatusFails
  BY <1>1, PassMovesInv
  DEF ApplyNamespacedManifests, ApplyImageStreams, CommitStatusFails, Goto, ApplySteps,
      storeVars
<1>2. CASE ApplySCC \/ ApplyClusterRole \/ ApplyBinding
  BY <1>2, PassMovesInv
  DEF ApplySCC, ApplyClusterRole, ApplyBinding, BindingOf, ApplyManifest, Goto, ApplySteps, storeVars
<1>3. CASE CommitStatus
  <2>1. /\ pc \in ApplySteps /\ pc' \in ApplySteps
        /\ UNCHANGED <<api, cached, req, currentPipeline>>
    BY <1>3 DEF CommitStatus, Goto, ApplySteps
  <2>2. CASE UNCHANGED <<current, fresh>>
    BY <2>1, <2>2, PassMovesInv
  <2>3. CASE current' = current \ {req} /\ fresh' = FALSE
    <3>1. GoneIsBare' /\ FinalizedIsCached'
      BY <2>1 DEF CacheInv, GoneIsBare, FinalizedIsCached, Guarded, Present
    <3>2. CacheAgrees' /\ FreshPass'
      BY <2>1, <2>3 DEF CacheInv, CacheAgrees, FreshPass
    <3>3. PassKind'
      BY <2>1 DEF CacheInv, PassKind, ApplySteps, DeleteSteps
    <3> QED
      BY <3>1, <3>2, <3>3 DEF CacheInv
  <2> QED
    BY <1>3, <2>2, <2>3 DEF CommitStatus
<1>4. CASE AddFinalizer
  <2>1. CASE Guarded(currentPipeline)
    BY <1>4, <2>1, PassMovesInv DEF AddFinalizer, storeVars, TypeOK
  <2>2. CASE ~Guarded(currentPipeline)
    <3>1. UpdateFinalizers(currentPipeline.finalizers \cup {"operator"}, failed)
      BY <1>4, <2>2 DEF AddFinalizer
    <3>2. /\ currentPipeline.finalizers \cup {"operator"} \in SUBSET {"operator", "foreground"}
          /\ failed \in BOOLEAN
          /\ pc \in ApplySteps \cup DeleteSteps
      BY <1>4 DEF AddFinalizer, TypeOK, OperatorPipeline, ApplySteps
    <3> QED
      BY <3>1, <3>2, UpdateFinalizersInv
  <2> QED
    BY <2>1, <2>2
<1>5. CASE ListNamespace \/ ListCluster
  BY <1>5, PassMovesInv DEF ListNamespace, ListCluster, Goto, DeleteSteps, storeVars
<1>6. CASE DeleteBinding \/ ListFails \/ DeleteClusterRole \/ DeleteSCC
  <2>1. PICK o \in ClusterObjects \cup {NamespaceOf[req]},
             next \in {"listCluster", "deleteSCC", "release"} :
          DeleteObject(o, next) /\ pc \in DeleteSteps
    BY <1>6, FailedListIsFailedDelete
    DEF DeleteBinding, DeleteClusterRole, DeleteSCC, ClusterObjects, DeleteSteps
  <2>2. UNCHANGED <<api, current, cached>>
    BY <2>1 DEF DeleteObject, storeVars
  <2>3. \/ Finish(TRUE)
        \/ Goto(next, FALSE) /\ UNCHANGED fresh
    BY <2>1 DEF DeleteObject
  <2>4. CASE Finish(TRUE)
    BY <2>2, <2>4, PassMovesInv
  <2>5. CASE Goto(next, FALSE) /\ UNCHANGED fresh
    BY <2>1, <2>2, <2>5, PassMovesInv DEF Goto, DeleteSteps
  <2> QED
    BY <2>3, <2>4, <2>5
<1>7. CASE RemoveFinalizer
  <2>1. /\ currentPipeline.finalizers \ {"operator"} \in SUBSET {"operator", "foreground"}
        /\ pc \in ApplySteps \cup DeleteSteps
    BY <1>7 DEF RemoveFinalizer, TypeOK, OperatorPipeline, DeleteSteps
  <2> QED
    BY <1>7, <2>1, UpdateFinalizersInv DEF RemoveFinalizer
<1> QED
  BY <1>1, <1>2, <1>3, <1>4, <1>5, <1>6, <1>7 DEF PassStep

\* The start of a pass keeps it too: the copy it works on is the cached one.
LEMMA StartInv ==
  ASSUME TypeOK, CacheInv, NEW p \in Pipelines, Start(p)
  PROVE  CacheInv'
<1>1. UNCHANGED <<api, current, cached>>
  BY DEF Start, GetPipeline, GetFails, storeVars
<1>2. GoneIsBare' /\ CacheAgrees' /\ FinalizedIsCached'
  BY <1>1 DEF CacheInv, GoneIsBare, CacheAgrees, FinalizedIsCached, Guarded, Present
<1>3. CASE UNCHANGED <<pc, req, currentPipeline, fresh>>
  BY <1>1, <1>2, <1>3 DEF CacheInv, FreshPass, PassKind, Guarded
<1>4. CASE /\ cached[p].phase = "active" \/ (cached[p].phase = "terminating" /\ Guarded(cached[p]))
           /\ pc' = IF cached[p].phase = "active" THEN "manifests" ELSE "listNamespace"
           /\ req' = p /\ currentPipeline' = cached[p] /\ fresh' = (p \in current)
  <2>1. FreshPass'
    BY <1>1, <1>4 DEF FreshPass, CacheInv, CacheAgrees
  <2>2. PassKind'
    BY <1>4 DEF PassKind, ApplySteps, DeleteSteps, Guarded
  <2> QED
    BY <1>2, <2>1, <2>2 DEF CacheInv
<1> QED
  BY <1>3, <1>4 DEF Start, GetPipeline, GetFails, workerVars

\* Every step keeps it.
LEMMA NextInv == TypeOK /\ CacheInv /\ [Next]_vars => CacheInv'
<1> SUFFICES ASSUME TypeOK, CacheInv, [Next]_vars
             PROVE  CacheInv'
  OBVIOUS
<1>1. ASSUME NEW p \in Pipelines, UserCreates(p)
      PROVE  CacheInv'
  <2>1. Created \in OperatorPipeline /\ Created.phase # "absent" /\ ~Guarded(Created)
    BY DEF Created, OperatorPipeline, Guarded
  <2> QED
    BY <1>1, <2>1, UserWritesInv DEF UserCreates
<1>2. ASSUME NEW p \in Pipelines, UserEdits(p)
      PROVE  CacheInv'
  <2>1. api[p] \in OperatorPipeline /\ api[p].phase # "absent"
    BY <1>2 DEF TypeOK, UserEdits, Present
  <2> QED
    BY <1>2, <2>1, UserWritesInv DEF UserEdits
<1>3. ASSUME NEW p \in Pipelines, UserDeletes(p)
      PROVE  CacheInv'
  <2>1. PICK extra \in {{}, {"foreground"}} :
          UserWrites(p, WithFinalizers([api[p] EXCEPT !.phase = "terminating"],
                                       api[p].finalizers \cup extra))
    BY <1>3 DEF UserDeletes
  <2> DEFINE t  == [api[p] EXCEPT !.phase = "terminating"]
             fs == api[p].finalizers \cup extra
  <2>2. t \in OperatorPipeline /\ t.phase # "absent" /\ fs \in SUBSET {"operator", "foreground"}
    BY DEF TypeOK, OperatorPipeline
  <2>3. "operator" \in fs => Guarded(api[p])
    BY DEF Guarded
  <2> HIDE DEF t, fs
  <2> QED
    BY <2>1, <2>2, <2>3, WithFinalizersType, WithFinalizersFacts, UserWritesInv DEF t, fs
<1>4. ASSUME NEW p \in Pipelines, ForegroundDone(p)
      PROVE  CacheInv'
  <2> DEFINE fs == api[p].finalizers \ {"foreground"}
  <2>1. /\ api[p] \in OperatorPipeline
        /\ api[p].phase # "absent"
        /\ fs \in SUBSET {"operator", "foreground"}
    BY <1>4 DEF TypeOK, OperatorPipeline, ForegroundDone, CacheInv, GoneIsBare
  <2>2. UserWrites(p, WithFinalizers(api[p], fs)) /\ ("operator" \in fs => Guarded(api[p]))
    BY <1>4 DEF ForegroundDone, Guarded
  <2> HIDE DEF fs
  <2> QED
    BY <2>1, <2>2, WithFinalizersType, WithFinalizersFacts, UserWritesInv
<1>5. CASE HealthChanges \/ Resync
  BY <1>5 DEF HealthChanges, Resync, CacheInv, GoneIsBare, CacheAgrees, FreshPass, PassKind,
              FinalizedIsCached, Guarded, Present, storeVars, workerVars
<1>6. CASE PipelineInformerSyncs
  <2>1. cached' = api /\ UNCHANGED <<api, pc, req, currentPipeline, fresh>> /\ current' = Pipelines
    BY <1>6 DEF PipelineInformerSyncs, workerVars
  <2>2. GoneIsBare' /\ CacheAgrees' /\ PassKind'
    BY <2>1 DEF CacheInv, GoneIsBare, CacheAgrees, PassKind, Guarded
  <2>3. FreshPass'
    BY <2>1 DEF CacheInv, FreshPass, TypeOK
  <2>4. FinalizedIsCached'
    BY <2>1 DEF CacheInv, GoneIsBare, FinalizedIsCached, Guarded, Present
  <2> QED
    BY <2>2, <2>3, <2>4 DEF CacheInv
<1>7. ASSUME NEW o \in ClusterObjects, ObjectInformerSyncs(o)
      PROVE  CacheInv'
  BY <1>7 DEF ObjectInformerSyncs, CacheInv, GoneIsBare, CacheAgrees, FreshPass, PassKind,
              FinalizedIsCached, Guarded, Present, storeVars, workerVars
<1>8. CASE Crash
  <2>1. cached' = api /\ UNCHANGED api /\ pc' = "idle" /\ fresh' = FALSE /\ current' = Pipelines
    BY <1>8 DEF Crash
  <2>2. GoneIsBare' /\ CacheAgrees' /\ FreshPass' /\ PassKind'
    BY <2>1 DEF CacheInv, GoneIsBare, CacheAgrees, FreshPass, PassKind, ApplySteps, DeleteSteps
  <2>3. FinalizedIsCached'
    BY <2>1 DEF CacheInv, GoneIsBare, FinalizedIsCached, Guarded, Present
  <2> QED
    BY <2>2, <2>3 DEF CacheInv
<1>9. CASE UNCHANGED vars
  BY <1>9 DEF vars, CacheInv, GoneIsBare, CacheAgrees, FreshPass, PassKind,
              FinalizedIsCached, Guarded, Present
<1> QED
  BY <1>1, <1>2, <1>3, <1>4, <1>5, <1>6, <1>7, <1>8, <1>9, StartInv, PassStepInv
  DEF Next, Environment, Step

LEMMA InitInv == Init => CacheInv
  BY DEF Init, CacheInv, GoneIsBare, CacheAgrees, FreshPass, PassKind, FinalizedIsCached,
         Gone, Guarded, Present, ApplySteps, DeleteSteps

\* In every reachable state the cache is right about each CR it holds at the stored
\* version, a fresh pass works on what is stored, and every CR that holds the
\* operator's finalizer is in the cache, however far the cache is behind.
THEOREM CacheInvariant == Spec => []CacheInv
<1>1. Init => CacheInv
  BY InitInv
<1>2. TypeOK /\ CacheInv /\ [Next]_vars => CacheInv'
  BY NextInv
<1> QED
  BY <1>1, <1>2, TypeCorrect, PTL DEF Spec

-----------------------------------------------------------------------------
(***************************************************************************)
(* The teardown                                                            *)
(***************************************************************************)

\* A list that holds req and has length 1 holds nothing else.
LEMMA OnlyOneIsReq ==
  ASSUME NEW items \in SUBSET Pipelines, OnlyOne(items), NEW r \in items
  PROVE  \A q \in items : q = r
<1>1. IsFiniteSet(items)
  BY PipelinesAssumption, FS_Subset
<1>2. PICK x : items = {x}
  BY <1>1, FS_Singleton DEF OnlyOne
<1> QED
  BY <1>2

\* No step but the worker's own finalizer update puts the finalizer on a CR.
LEMMA NotGuardedStays ==
  ASSUME TypeOK, [Next]_vars, pc' \in DeleteSteps, NEW q \in Pipelines, ~Guarded(api[q])
  PROVE  ~Guarded(api'[q])
<1>2. ASSUME NEW p \in Pipelines,
             UserCreates(p) \/ UserEdits(p) \/ UserDeletes(p) \/ ForegroundDone(p)
      PROVE  ~Guarded(api'[q])
  <2>1. CASE q # p
    BY <1>2, <2>1 DEF UserCreates, UserEdits, UserDeletes, ForegroundDone, UserWrites,
                      StoreCR, TypeOK
  <2>2. CASE q = p
    <3>1. api[p] \in OperatorPipeline
      BY DEF TypeOK
    <3>2. CASE UserCreates(p) \/ UserEdits(p)
      BY <2>2, <3>2 DEF UserCreates, UserEdits, UserWrites, StoreCR, TypeOK, Created, Guarded
    <3>3. CASE UserDeletes(p) \/ ForegroundDone(p)
      <4>a. [api[p] EXCEPT !.phase = "terminating"] \in OperatorPipeline
        BY <3>1 DEF OperatorPipeline
      <4>b. \A c : UserWrites(p, c) => api'[p] = c
        BY DEF UserWrites, StoreCR, TypeOK
      <4>1. PICK cr \in OperatorPipeline, fs \in SUBSET (api[p].finalizers \cup {"foreground"}) :
              api'[p] = WithFinalizers(cr, fs)
        BY <3>1, <3>3, <4>a, <4>b DEF UserDeletes, ForegroundDone
      <4>2. "operator" \notin fs
        BY <2>2 DEF Guarded
      <4>3. \A c \in OperatorPipeline : WithFinalizers(c, fs).finalizers \subseteq fs
        BY DEF WithFinalizers, OperatorPipeline, Gone
      <4> QED
        BY <2>2, <4>1, <4>2, <4>3 DEF Guarded
    <3> QED
      BY <1>2, <3>2, <3>3
  <2> QED
    BY <2>1, <2>2
<1>3. CASE \/ HealthChanges \/ PipelineInformerSyncs \/ Resync \/ Crash \/ UNCHANGED vars
           \/ \E o \in ClusterObjects : ObjectInformerSyncs(o)
           \/ \E p \in Pipelines : Start(p)
  BY <1>3 DEF HealthChanges, PipelineInformerSyncs, Resync, Crash, ObjectInformerSyncs,
              Start, GetPipeline, GetFails, storeVars, vars
<1>4. CASE Step
  <2>1. UNCHANGED api \/ pc' = "idle"
    BY <1>4 DEF Step, PassStep, ApplyNamespacedManifests, ApplySCC, ApplyClusterRole,
       ApplyBinding, ApplyManifest, ApplyImageStreams, CommitStatus, CommitStatusFails,
       AddFinalizer, UpdateFinalizers, Finish, ListNamespace, DeleteBinding, ListCluster,
       ListFails, DeleteClusterRole, DeleteSCC, DeleteObject, RemoveFinalizer, storeVars
  <2> QED
    BY <2>1 DEF DeleteSteps
<1> QED
  BY <1>2, <1>3, <1>4 DEF Next, Environment

\* The teardown's targets, as they are found and as the pass moves on.
LEMMA TeardownStep ==
  TypeOK /\ CacheInv /\ TeardownSparesFinalizedPeers /\ TypeOK' /\ [Next]_vars
    => TeardownSparesFinalizedPeers'
<1> SUFFICES ASSUME TypeOK, CacheInv, TeardownSparesFinalizedPeers, TypeOK', [Next]_vars,
                    pc' \in DeleteSteps, Guarded(api'[req']),
                    NEW q \in Pipelines, q # req'
             PROVE  /\ pc' = "deleteBinding" /\ NamespaceOf[q] = NamespaceOf[req']
                         => ~Guarded(api'[q])
                    /\ pc' \in {"deleteClusterRole", "deleteSCC"} => ~Guarded(api'[q])
  BY DEF TeardownSparesFinalizedPeers
<1>1. CASE UNCHANGED <<pc, req>>
  <2>1. Guarded(api[req])
    BY <1>1, NotGuardedStays DEF TypeOK, DeleteSteps
  <2> QED
    BY <1>1, <2>1, NotGuardedStays DEF TeardownSparesFinalizedPeers
<1>2. CASE \E p \in Pipelines : Start(p)
  BY <1>1, <1>2 DEF Start, GetPipeline, GetFails, workerVars
<1>3. CASE Step /\ UNCHANGED req
  <2>0. UNCHANGED api /\ req \in Pipelines
    BY <1>3 DEF Step, PassStep, ApplyNamespacedManifests, ApplySCC, ApplyClusterRole,
       ApplyBinding, ApplyManifest, ApplyImageStreams, CommitStatus, CommitStatusFails,
       AddFinalizer, UpdateFinalizers, Finish, ListNamespace, DeleteBinding, ListCluster,
       ListFails, DeleteClusterRole, DeleteSCC, DeleteObject, RemoveFinalizer, storeVars, DeleteSteps,
       TypeOK
  <2>a. Present(cached[req]) /\ (~Present(cached[q]) => ~Guarded(api[q]))
    BY <1>3, <2>0 DEF CacheInv, FinalizedIsCached
  <2>1. CASE ListNamespace
    <3>1. pc' = "deleteBinding" => OnlyOne(NamespacePipelines(NamespaceOf[req]))
      BY <2>1 DEF ListNamespace, Goto
    <3>2. req \in NamespacePipelines(NamespaceOf[req])
      BY <2>0, <2>a DEF NamespacePipelines, ClusterPipelines
    <3>3. NamespacePipelines(NamespaceOf[req]) \in SUBSET Pipelines
      BY DEF NamespacePipelines, ClusterPipelines
    <3>4. pc' = "deleteBinding" => q \notin NamespacePipelines(NamespaceOf[req])
      BY <1>3, <3>1, <3>2, <3>3, OnlyOneIsReq
    <3>5. pc' \in {"deleteBinding", "listCluster"}
      BY <2>1 DEF ListNamespace, Goto
    <3> QED
      BY <1>3, <2>0, <2>a, <3>4, <3>5 DEF NamespacePipelines, ClusterPipelines
  <2>2. CASE ListCluster
    <3>1. pc' = "deleteClusterRole" => OnlyOne(ClusterPipelines)
      BY <2>2 DEF ListCluster, Goto
    <3>2. req \in ClusterPipelines /\ ClusterPipelines \in SUBSET Pipelines
      BY <2>0, <2>a DEF ClusterPipelines
    <3>3. pc' = "deleteClusterRole" => q \notin ClusterPipelines
      BY <1>3, <3>1, <3>2, OnlyOneIsReq
    <3>4. pc' \in {"deleteClusterRole", "release"}
      BY <2>2 DEF ListCluster, Goto
    <3> QED
      BY <1>3, <2>0, <2>a, <3>3, <3>4 DEF ClusterPipelines
  <2>3. CASE DeleteBinding
    <3>1. pc' \in {"listCluster", "idle"}
      BY <2>3 DEF DeleteBinding, DeleteObject, Goto, Finish
    <3> QED
      BY <3>1
  <2>4. CASE DeleteClusterRole
    <3>1. pc' \in {"deleteSCC", "idle"} /\ pc = "deleteClusterRole"
      BY <2>4 DEF DeleteClusterRole, DeleteObject, Goto, Finish
    <3> QED
      BY <1>3, <2>0, <3>1 DEF TeardownSparesFinalizedPeers, DeleteSteps
  <2>5. CASE DeleteSCC
    <3>1. pc' \in {"release", "idle"}
      BY <2>5 DEF DeleteSCC, DeleteObject, Goto, Finish
    <3> QED
      BY <3>1
  <2>6. pc' \in DeleteSteps =>
          ListNamespace \/ ListCluster \/ DeleteBinding \/ DeleteClusterRole \/ DeleteSCC
    BY <1>3 DEF Step, PassStep, ApplyNamespacedManifests, ApplySCC, ApplyClusterRole,
       ApplyBinding, ApplyManifest, ApplyImageStreams, CommitStatus, CommitStatusFails,
       AddFinalizer, UpdateFinalizers, Goto, Finish, RemoveFinalizer, ListFails, DeleteSteps
  <2> QED
    BY <2>1, <2>2, <2>3, <2>4, <2>5, <2>6
<1>4. CASE Step /\ req' # req
  BY <1>4 DEF Step, PassStep, ApplyNamespacedManifests, ApplySCC, ApplyClusterRole,
       ApplyBinding, ApplyManifest, ApplyImageStreams, CommitStatus, CommitStatusFails,
       AddFinalizer, UpdateFinalizers, Goto, Finish, ListNamespace, DeleteBinding,
       ListCluster, ListFails, DeleteClusterRole, DeleteSCC, DeleteObject, RemoveFinalizer,
       DeleteSteps
<1>5. CASE Environment \/ UNCHANGED vars
  BY <1>1, <1>5 DEF Environment, vars, UserCreates, UserEdits, UserDeletes, ForegroundDone,
       UserWrites, HealthChanges, PipelineInformerSyncs, ObjectInformerSyncs, Resync, Crash,
       workerVars, DeleteSteps
<1> QED
  BY <1>2, <1>3, <1>4, <1>5 DEF Next

\* While the CR being torn down still holds its finalizer, the objects about to be
\* deleted are those of no other CR that holds one, with any number of CRs and with a
\* cache that is behind by any amount.
THEOREM TeardownSafe == Spec => []TeardownSparesFinalizedPeers
<1>1. Init => TeardownSparesFinalizedPeers
  BY DEF Init, TeardownSparesFinalizedPeers, DeleteSteps
<1>2. TypeOK /\ CacheInv /\ TeardownSparesFinalizedPeers /\ TypeOK' /\ [Next]_vars
        => TeardownSparesFinalizedPeers'
  BY TeardownStep
<1> QED
  BY <1>1, <1>2, TypeCorrect, CacheInvariant, PTL DEF Spec

-----------------------------------------------------------------------------
(***************************************************************************)
(* No lost wake-up                                                         *)
(***************************************************************************)

\* A live CR without the finalizer is queued, or a watch event is on its way, or
\* the worker is at it and will come to AddFinalizer.
AwaitsFinalizer(p) ==
  api[p].phase = "active" /\ ~Guarded(api[p]) =>
    \/ p \in queue
    \/ p \notin current
    \/ req = p /\ pc \in ApplySteps /\ ~Guarded(currentPipeline)

\* The same of a deleted CR that still has it.
AwaitsRelease(p) ==
  api[p].phase = "terminating" /\ Guarded(api[p]) =>
    \/ p \in queue
    \/ p \notin current
    \/ req = p /\ pc \in DeleteSteps

OwedWork == \A p \in Pipelines : AwaitsFinalizer(p) /\ AwaitsRelease(p)

\* A step that only moves the pass on, in its branch, loses no wake-up.
LEMMA MovesKeepOwed ==
  ASSUME OwedWork, UNCHANGED <<api, queue, req, currentPipeline>>, current' \subseteq current,
         \/ pc \in ApplySteps /\ pc' \in ApplySteps
         \/ pc \in DeleteSteps /\ pc' \in DeleteSteps
  PROVE  OwedWork'
  BY DEF OwedWork, AwaitsFinalizer, AwaitsRelease, ApplySteps, DeleteSteps, Guarded

\* Nor does the end of a pass that leaves its request queued or its CR rewritten.
LEMMA FinishKeepsOwed ==
  ASSUME OwedWork, req \in Pipelines, NEW requeue \in BOOLEAN, Finish(requeue),
         \A p \in Pipelines \ {req} : api'[p] = api[p] /\ (p \in current' => p \in current),
         requeue \/ req \notin current'
  PROVE  OwedWork'
<1>1. queue' = IF requeue THEN queue \cup {req} ELSE queue
  BY DEF Finish
<1> SUFFICES ASSUME NEW p \in Pipelines
             PROVE  (p \in queue \/ p \notin current \/ req = p => p \in queue' \/ p \notin current')
                    /\ (p # req => api'[p] = api[p])
  BY <1>1 DEF OwedWork, AwaitsFinalizer, AwaitsRelease, Guarded
<1> QED
  BY <1>1

\* No finalizer update loses a wake-up: it is rejected or fails, and its request is
\* queued again, or it is stored, and the watch will queue it.
LEMMA UpdateKeepsOwed ==
  ASSUME TypeOK, OwedWork, pc # "idle", NEW fs, NEW requeue \in BOOLEAN,
         UpdateFinalizers(fs, requeue)
  PROVE  OwedWork'
<1>1. req \in Pipelines
  BY DEF TypeOK
<1>2. CASE StoreCR(req, WithFinalizers(api[req], fs))
  <2>1. PICK r \in BOOLEAN : Finish(r)
    BY DEF UpdateFinalizers
  <2>2. req \notin current'
    BY <1>2 DEF StoreCR
  <2>3. \A p \in Pipelines \ {req} : api'[p] = api[p] /\ (p \in current' => p \in current)
    BY <1>2 DEF StoreCR, TypeOK
  <2> QED
    BY <1>1, <2>1, <2>2, <2>3, FinishKeepsOwed
<1>3. CASE Finish(TRUE) /\ UNCHANGED <<api, current>>
  BY <1>1, <1>3, FinishKeepsOwed
<1> QED
  BY <1>2, <1>3 DEF UpdateFinalizers

\* No step of a pass loses a wake-up.
LEMMA PassKeepsOwed == TypeOK /\ CacheInv /\ OwedWork /\ PassStep => OwedWork'
<1> SUFFICES ASSUME TypeOK, CacheInv, OwedWork, PassStep
             PROVE  OwedWork'
  OBVIOUS
<1>1. CASE ApplyNamespacedManifests \/ ApplyImageStreams \/ CommitStatusFails
  BY <1>1, MovesKeepOwed
  DEF ApplyNamespacedManifests, ApplyImageStreams, CommitStatusFails, Goto, ApplySteps,
      storeVars
<1>2. CASE ApplySCC \/ ApplyClusterRole \/ ApplyBinding
  BY <1>2, MovesKeepOwed
  DEF ApplySCC, ApplyClusterRole, ApplyBinding, BindingOf, ApplyManifest, Goto, ApplySteps, storeVars
<1>3. CASE CommitStatus
  BY <1>3, MovesKeepOwed DEF CommitStatus, Goto, ApplySteps
<1>4. CASE AddFinalizer
  <2>1. CASE Guarded(currentPipeline)
    <3>1. pc = "finalizer" /\ Finish(failed) /\ UNCHANGED <<api, current>>
      BY <1>4, <2>1 DEF AddFinalizer, storeVars
    <3>2. \A p \in Pipelines : p \in queue => p \in queue'
      BY <3>1 DEF Finish
    <3> QED
      BY <2>1, <3>1, <3>2 DEF OwedWork, AwaitsFinalizer, AwaitsRelease, DeleteSteps, Guarded
  <2>2. CASE ~Guarded(currentPipeline)
    BY <1>4, <2>2, UpdateKeepsOwed DEF AddFinalizer, TypeOK
  <2> QED
    BY <2>1, <2>2
<1>5. CASE ListNamespace \/ ListCluster
  BY <1>5, MovesKeepOwed DEF ListNamespace, ListCluster, Goto, DeleteSteps, storeVars
<1>6. CASE DeleteBinding \/ ListFails \/ DeleteClusterRole \/ DeleteSCC
  <2>1. PICK o \in ClusterObjects \cup {NamespaceOf[req]},
             next \in {"listCluster", "deleteSCC", "release"} :
          DeleteObject(o, next) /\ pc \in DeleteSteps
    BY <1>6, FailedListIsFailedDelete
    DEF DeleteBinding, DeleteClusterRole, DeleteSCC, ClusterObjects, DeleteSteps
  <2>2. UNCHANGED <<api, current>> /\ req \in Pipelines
    BY <2>1 DEF DeleteObject, storeVars, DeleteSteps, TypeOK
  <2>3. CASE Finish(TRUE)
    BY <2>2, <2>3, FinishKeepsOwed
  <2>4. CASE Goto(next, FALSE)
    BY <2>1, <2>2, <2>4, MovesKeepOwed DEF Goto, DeleteSteps
  <2> QED
    BY <2>1, <2>3, <2>4 DEF DeleteObject
<1>7. CASE RemoveFinalizer
  BY <1>7, UpdateKeepsOwed DEF RemoveFinalizer
<1> QED
  BY <1>1, <1>2, <1>3, <1>4, <1>5, <1>6, <1>7 DEF PassStep

\* No step at all does.
LEMMA NextKeepsOwed == TypeOK /\ CacheInv /\ OwedWork /\ [Next]_vars => OwedWork'
<1> SUFFICES ASSUME TypeOK, CacheInv, OwedWork, [Next]_vars
             PROVE  OwedWork'
  OBVIOUS
<1>1. ASSUME NEW r \in Pipelines,
             UserCreates(r) \/ UserEdits(r) \/ UserDeletes(r) \/ ForegroundDone(r)
      PROVE  OwedWork'
  <2>1. PICK cr : UserWrites(r, cr)
    BY <1>1 DEF UserCreates, UserEdits, UserDeletes, ForegroundDone
  <2>2. /\ r \notin current' /\ current' \subseteq current
        /\ UNCHANGED <<queue, pc, req, currentPipeline>>
        /\ \A p \in Pipelines \ {r} : api'[p] = api[p] /\ (p \in current' <=> p \in current)
    BY <2>1 DEF UserWrites, StoreCR, TypeOK
  <2> QED
    BY <2>2 DEF OwedWork, AwaitsFinalizer, AwaitsRelease, Guarded
<1>2. CASE PipelineInformerSyncs \/ Resync
  <2>1. UNCHANGED <<api, pc, req, currentPipeline>>
    BY <1>2 DEF PipelineInformerSyncs, Resync, storeVars, workerVars
  <2>2. \A p \in Pipelines : p \in queue \/ p \notin current => p \in queue' \/ p \notin current'
    BY <1>2 DEF PipelineInformerSyncs, Resync, storeVars
  <2> QED
    BY <2>1, <2>2 DEF OwedWork, AwaitsFinalizer, AwaitsRelease, Guarded
<1>3. CASE Crash
  BY <1>3 DEF Crash, OwedWork, AwaitsFinalizer, AwaitsRelease, Present
<1>4. ASSUME NEW r \in Pipelines, GetPipeline(r)
      PROVE  OwedWork'
  <2>1. /\ UNCHANGED <<api, current>> /\ queue' = queue \ {r}
        /\ pc = "idle" /\ req \notin Pipelines
    BY <1>4, PipelinesAssumption DEF GetPipeline, storeVars, TypeOK
  <2>2. \A p \in Pipelines \ {r} : AwaitsFinalizer(p)' /\ AwaitsRelease(p)'
    BY <2>1 DEF OwedWork, AwaitsFinalizer, AwaitsRelease, Guarded
  <2>3. r \in current => cached[r] = api[r]
    BY DEF CacheInv, CacheAgrees
  <2>4. AwaitsFinalizer(r)' /\ AwaitsRelease(r)'
    BY <1>4, <2>1, <2>3
    DEF GetPipeline, AwaitsFinalizer, AwaitsRelease, Guarded, ApplySteps, DeleteSteps
  <2> QED
    BY <2>2, <2>4 DEF OwedWork
<1>5. CASE \/ HealthChanges \/ UNCHANGED vars
           \/ \E o \in ClusterObjects : ObjectInformerSyncs(o)
           \/ \E r \in Pipelines : GetFails(r)
  BY <1>5 DEF HealthChanges, ObjectInformerSyncs, GetFails, vars, storeVars, workerVars,
              OwedWork, AwaitsFinalizer, AwaitsRelease, Guarded
<1> QED
  BY <1>1, <1>2, <1>3, <1>4, <1>5, PassKeepsOwed DEF Next, Environment, Start, Step

\* When the worker is idle with an empty queue and the cache is up to date, every live
\* CR has its finalizer and none is left with one after its deletion, whatever
\* conflicts, failed calls and crashes came before.
THEOREM NothingStuck == Spec => []NoStuckPipeline
<1>1. Init => OwedWork
  BY DEF Init, OwedWork, AwaitsFinalizer, AwaitsRelease, Gone
<1>2. TypeOK /\ CacheInv /\ OwedWork /\ [Next]_vars => OwedWork'
  BY NextKeepsOwed
<1>3. OwedWork => NoStuckPipeline
  BY DEF OwedWork, AwaitsFinalizer, AwaitsRelease, NoStuckPipeline, Settled, ApplySteps,
         DeleteSteps
<1> QED
  BY <1>1, <1>2, <1>3, TypeCorrect, CacheInvariant, PTL DEF Spec
=============================================================================
