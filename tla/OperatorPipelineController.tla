--------------------- MODULE OperatorPipelineController ---------------------
(***************************************************************************)
(* OperatorPipelineReconciler.Reconcile: the finalizer of an               *)
(* OperatorPipeline and the cluster-scoped objects that its reconcilers    *)
(* create and its finalizer removes (the SecurityContextConstraints, the   *)
(* ClusterRole and one ClusterRoleBinding per namespace).                  *)
(*                                                                         *)
(* Every API call of the handler is a step, so users, the informers and    *)
(* crashes interleave between any two calls. Reads go to the informers'    *)
(* caches, which lag the API server; writes go to the API server, which    *)
(* rejects an update that carries an old resourceVersion. What the other   *)
(* reconcilers do inside their namespace is abstracted to success or       *)
(* failure.                                                                *)
(***************************************************************************)
EXTENDS Integers, FiniteSets

CONSTANTS
  Pipelines,          \* the OperatorPipelines (a namespace and a name each)
  Namespaces,         \* the namespaces; n also stands for n's ClusterRoleBinding
  NamespaceOf,        \* the namespace of each OperatorPipeline
  NoPipeline,         \* the worker's request when it has none
  SCC, ClusterRole,   \* the two objects shared by the whole cluster
  MaxDisturbances,    \* bound on creations, edits, failed calls, crashes and
                      \* health changes, together
  LaggingCache,       \* TRUE: the worker may act while a cache is behind
  EarlyDeletion,      \* TRUE: a user may delete a CR that has no finalizer yet
  ForegroundDeletion  \* TRUE: a user may delete with foreground propagation

ASSUME PipelinesAssumption ==
  /\ IsFiniteSet(Pipelines)
  /\ NamespaceOf \in [Pipelines -> Namespaces]
  /\ NoPipeline \notin Pipelines

ASSUME ObjectsAssumption ==
  /\ SCC # ClusterRole
  /\ SCC \notin Namespaces
  /\ ClusterRole \notin Namespaces

ASSUME EnvironmentAssumption ==
  /\ MaxDisturbances \in Nat
  /\ LaggingCache \in BOOLEAN
  /\ EarlyDeletion \in BOOLEAN
  /\ ForegroundDeletion \in BOOLEAN

VARIABLES
  \* The API server
  api,          \* each OperatorPipeline as stored, its status apart
  status,       \* what the status of each OperatorPipeline reports of its
                \* present generation
  objs,         \* the cluster-scoped objects that exist
  \* The informers
  cached,       \* the OperatorPipelines as the informer last saw them
  current,      \* those whose cached copy has the stored resourceVersion
  objCache,     \* the cluster-scoped objects in the informers' caches
  \* The controller: its work queue and its one worker
  queue, pc, req, currentPipeline,
  fresh,        \* currentPipeline still has the stored resourceVersion
  failed,       \* a reconciler of this pass asked for a requeue
  \* The environment
  health,       \* what the checks of the StatusReconciler would report now
  disturbances

storeVars  == <<api, status, current>>
objVars    == <<objs, objCache>>
workerVars == <<pc, req, currentPipeline, fresh, failed>>
vars == <<api, status, objs, cached, current, objCache, queue, pc, req,
          currentPipeline, fresh, failed, health, disturbances>>

ClusterObjects == Namespaces \cup {SCC, ClusterRole}

Reports == {"ready", "degraded"}

OperatorPipeline ==
  [phase      : {"absent", "active", "terminating"},
   finalizers : SUBSET {"operator", "foreground"}]

Gone    == [phase |-> "absent", finalizers |-> {}]
Created == [phase |-> "active", finalizers |-> {}]

Present(cr) == cr.phase # "absent"
Guarded(cr) == "operator" \in cr.finalizers

\* The steps of a pass over a live CR, and of one over a CR being deleted.
ApplySteps  == {"manifests", "scc", "clusterRole", "binding", "streams",
                "status", "finalizer"}
DeleteSteps == {"listNamespace", "deleteBinding", "listCluster",
                "deleteClusterRole", "deleteSCC", "release"}

TypeOK ==
  /\ api \in [Pipelines -> OperatorPipeline]
  /\ status \in [Pipelines -> Reports \cup {"none"}]
  /\ cached \in [Pipelines -> OperatorPipeline]
  /\ current \subseteq Pipelines
  /\ objs \subseteq ClusterObjects
  /\ objCache \subseteq ClusterObjects
  /\ queue \subseteq Pipelines
  /\ pc \in {"idle"} \cup ApplySteps \cup DeleteSteps
  /\ req \in Pipelines \cup {NoPipeline}
  /\ (req = NoPipeline) <=> (pc = "idle")
  /\ currentPipeline \in OperatorPipeline
  /\ fresh \in BOOLEAN
  /\ failed \in BOOLEAN
  /\ health \in Reports
  /\ disturbances \in 0..MaxDisturbances

Init ==
  /\ api = [p \in Pipelines |-> Gone]
  /\ status = [p \in Pipelines |-> "none"]
  /\ cached = api
  /\ current = Pipelines
  /\ objs = {}
  /\ objCache = {}
  /\ queue = {}
  /\ pc = "idle"
  /\ req = NoPipeline
  /\ currentPipeline = Gone
  /\ fresh = FALSE
  /\ failed = FALSE
  /\ health \in Reports
  /\ disturbances = 0

-----------------------------------------------------------------------------
(***************************************************************************)
(* The API server and the informers                                        *)
(***************************************************************************)

Disturb ==
  /\ disturbances < MaxDisturbances
  /\ disturbances' = disturbances + 1

\* A successful write gives the object a new resourceVersion.
StoreCR(p, cr) ==
  /\ api' = [api EXCEPT ![p] = cr]
  /\ current' = current \ {p}

\* A CR that is being deleted disappears with its last finalizer.
WithFinalizers(cr, fs) ==
  IF cr.phase = "terminating" /\ fs = {} THEN Gone
  ELSE [cr EXCEPT !.finalizers = fs]

\* The first write, a new spec and a deletion begin a new generation.
UserWrites(p, cr) ==
  /\ StoreCR(p, cr)
  /\ status' = [status EXCEPT ![p] = "none"]
  /\ fresh' = (fresh /\ req # p)
  /\ UNCHANGED <<cached, objVars, queue, pc, req, currentPipeline, failed, health>>

UserCreates(p) ==
  /\ ~Present(api[p])
  /\ Disturb
  /\ UserWrites(p, Created)

UserEdits(p) ==
  /\ Present(api[p])
  /\ Disturb
  /\ UserWrites(p, api[p])

UserDeletes(p) ==
  /\ api[p].phase = "active"
  /\ EarlyDeletion \/ Guarded(api[p])
  /\ \E extra \in IF ForegroundDeletion THEN {{}, {"foreground"}} ELSE {{}} :
       UserWrites(p, WithFinalizers([api[p] EXCEPT !.phase = "terminating"],
                                    api[p].finalizers \cup extra))
  /\ UNCHANGED disturbances

\* The garbage collector ends a foreground deletion.
ForegroundDone(p) ==
  /\ "foreground" \in api[p].finalizers
  /\ UserWrites(p, WithFinalizers(api[p], api[p].finalizers \ {"foreground"}))
  /\ UNCHANGED disturbances

HealthChanges ==
  /\ Disturb
  /\ health' \in Reports \ {health}
  /\ UNCHANGED <<storeVars, objVars, cached, queue, workerVars>>

\* One informer watches all OperatorPipelines, so its cache is the store at
\* some earlier time; every object it sees change is queued (For).
PipelineInformerSyncs ==
  /\ current # Pipelines
  /\ cached' = api
  /\ current' = Pipelines
  /\ queue' = queue \cup (Pipelines \ current)
  /\ UNCHANGED <<api, status, objVars, workerVars, health, disturbances>>

\* The informers of the owned cluster-scoped kinds (Owns). Their events name an
\* owner in the object's own, empty, namespace: no OperatorPipeline is queued.
ObjectInformerSyncs(o) ==
  /\ (o \in objCache) # (o \in objs)
  /\ objCache' = (objCache \ {o}) \cup (objs \cap {o})
  /\ UNCHANGED <<storeVars, cached, objs, queue, workerVars, health, disturbances>>

\* The informers' periodic resync queues every cached OperatorPipeline.
Resync ==
  /\ queue' = queue \cup {p \in Pipelines : Present(cached[p])}
  /\ UNCHANGED <<storeVars, objVars, cached, workerVars, health, disturbances>>

\* The manager restarts: it lists everything again and queues what it listed.
Crash ==
  /\ Disturb
  /\ cached' = api
  /\ current' = Pipelines
  /\ objCache' = objs
  /\ queue' = {p \in Pipelines : Present(api[p])}
  /\ pc' = "idle"
  /\ req' = NoPipeline
  /\ currentPipeline' = Gone
  /\ fresh' = FALSE
  /\ failed' = FALSE
  /\ UNCHANGED <<api, status, objs, health>>

-----------------------------------------------------------------------------
(***************************************************************************)
(* The worker: one pass of Reconcile                                       *)
(***************************************************************************)

Goto(step, failure) ==
  /\ pc' = step
  /\ failed' = (failed \/ failure)
  /\ UNCHANGED <<queue, req, currentPipeline>>

\* Mutant of Finish: the worker keeps the request it has handed back.
FinishKeepsRequest(requeue) ==
  /\ queue' = IF requeue THEN queue \cup {req} ELSE queue
  /\ pc' = "idle"
  /\ currentPipeline' = Gone
  /\ fresh' = FALSE
  /\ failed' = FALSE
  /\ UNCHANGED req

\* Reconcile returns; an error or a requeue puts the request back.
Finish(requeue) ==
  /\ queue' = IF requeue THEN queue \cup {req} ELSE queue
  /\ pc' = "idle"
  /\ req' = NoPipeline
  /\ currentPipeline' = Gone
  /\ fresh' = FALSE
  /\ failed' = FALSE

\* r.Get: the request is taken off the queue and the CR read from the cache. A
\* CR that is not found, or that waits for finalizers of others, is left alone.
GetPipeline(p) ==
  LET cr == cached[p] IN
  /\ pc = "idle"
  /\ p \in queue
  /\ queue' = queue \ {p}
  /\ IF cr.phase = "active" \/ (cr.phase = "terminating" /\ Guarded(cr))
     THEN /\ pc' = IF cr.phase = "active" THEN "manifests" ELSE "listNamespace"
          /\ req' = p
          /\ currentPipeline' = cr
          /\ fresh' = (p \in current)
     ELSE UNCHANGED <<pc, req, currentPipeline, fresh>>
  /\ UNCHANGED <<storeVars, objVars, cached, failed, health, disturbances>>

\* r.Get fails otherwise: the request is put back.
GetFails(p) ==
  /\ pc = "idle"
  /\ p \in queue
  /\ Disturb
  /\ UNCHANGED <<storeVars, objVars, cached, queue, workerVars, health>>

\* PipelineGitRepoReconciler, then PipelineDependenciesReconciler up to the
\* tasks. A clone that fails (the first disjunct may follow it) does not stop
\* the manifests; a manifest that fails ends the dependencies reconciler.
ApplyNamespacedManifests ==
  /\ pc = "manifests"
  /\ \/ Goto("scc", FALSE) /\ UNCHANGED disturbances
     \/ Disturb /\ \E step \in {"scc", "streams"} : Goto(step, TRUE)
  /\ UNCHANGED <<storeVars, objVars, cached, fresh, health>>

\* Mutant of ApplyManifest: a Get that finds nothing is an error like any other.
ApplyManifestFound(o, next) ==
  /\ pc' \in IF o \in objCache THEN {next} ELSE {"streams"}
  /\ failed' = (failed \/ o \notin objCache)
  /\ UNCHANGED <<queue, req, currentPipeline, objs, disturbances>>
  /\ UNCHANGED <<storeVars, objCache, cached, fresh, health>>

\* applyManifests for a cluster-scoped object: Get from the cache, then Update
\* what was found or Create what was not. The update writes back what it read,
\* so it changes nothing; a cache that is behind makes either call fail.
ApplyManifest(o, next) ==
  /\ \/ /\ (o \in objCache) = (o \in objs)
        /\ objs' = objs \cup {o}
        /\ Goto(next, FALSE)
        /\ UNCHANGED disturbances
     \/ /\ (o \in objCache) # (o \in objs)
        /\ Goto("streams", TRUE)
        /\ UNCHANGED <<objs, disturbances>>
     \/ /\ Disturb
        /\ Goto("streams", TRUE)
        /\ \/ UNCHANGED objs
           \/ o \notin objCache /\ objs' = objs \cup {o}
  /\ UNCHANGED <<storeVars, objCache, cached, fresh, health>>

\* modifyAndSaveTempClusterRoleBinding: the template becomes a binding that is named,
\* and labelled, after the namespace of the CR, so each namespace has its own.
BindingOf(p) == NamespaceOf[p]

ApplySCC         == pc = "scc" /\ ApplyManifest(SCC, "clusterRole")
ApplyClusterRole == pc = "clusterRole" /\ ApplyManifest(ClusterRole, "binding")
ApplyBinding     == pc = "binding" /\ ApplyManifest(BindingOf(req), "streams")

\* The two ImageStream reconcilers: only whether they fail matters here.
ApplyImageStreams ==
  /\ pc = "streams"
  /\ \/ Goto("status", FALSE) /\ UNCHANGED disturbances
     \/ Goto("status", TRUE) /\ Disturb
  /\ UNCHANGED <<storeVars, objVars, cached, fresh, health>>

\* Mutant of CommitStatus: every pass writes something new into the status.
CommitStatusAlways ==
  /\ pc = "status"
  /\ Goto("finalizer", health = "degraded")
  /\ status' = [status EXCEPT ![req] = health]
  /\ current' = current \ {req}
  /\ fresh' = FALSE
  /\ UNCHANGED <<api, objVars, cached, health, disturbances>>

\* commitStatus: the status is written through a copy of currentPipeline, whose
\* own resourceVersion stays behind. Conflicts and failures are only logged.
CommitStatus ==
  /\ pc = "status"
  /\ Goto("finalizer", health = "degraded")
  /\ \/ /\ fresh /\ status[req] # health
        /\ status' = [status EXCEPT ![req] = health]
        /\ current' = current \ {req}
        /\ fresh' = FALSE
     \/ /\ ~fresh \/ status[req] = health
        /\ UNCHANGED <<status, current, fresh>>
  /\ UNCHANGED <<api, objVars, cached, health, disturbances>>

CommitStatusFails ==
  /\ pc = "status"
  /\ Disturb
  /\ Goto("finalizer", health = "degraded")
  /\ UNCHANGED <<storeVars, fresh, objVars, cached, health>>

\* Mutant of UpdateFinalizers: an error that is not a conflict is only logged.
UpdateFinalizersLogged(fs, requeue) ==
  LET Stored == fresh /\ StoreCR(req, WithFinalizers(api[req], fs)) IN
  /\ \/ Stored /\ Finish(requeue) /\ UNCHANGED disturbances
     \/ ~fresh /\ Finish(TRUE) /\ UNCHANGED <<api, current, disturbances>>
     \/ Disturb /\ Finish(requeue) /\ (Stored \/ UNCHANGED <<api, current>>)
  /\ UNCHANGED <<status, objVars, cached, health>>

\* r.Update(ctx, currentPipeline) with new finalizers: it succeeds, conflicts, or
\* fails with or without having been applied.
UpdateFinalizers(fs, requeue) ==
  LET Stored == fresh /\ StoreCR(req, WithFinalizers(api[req], fs)) IN
  /\ \/ Stored /\ Finish(requeue) /\ UNCHANGED disturbances
     \/ ~fresh /\ Finish(TRUE) /\ UNCHANGED <<api, current, disturbances>>
     \/ Disturb /\ Finish(TRUE) /\ (Stored \/ UNCHANGED <<api, current>>)
  /\ UNCHANGED <<status, objVars, cached, health>>

AddFinalizer ==
  /\ pc = "finalizer"
  /\ IF Guarded(currentPipeline)
     THEN Finish(failed) /\ UNCHANGED <<storeVars, objVars, cached, health, disturbances>>
     ELSE UpdateFinalizers(currentPipeline.finalizers \cup {"operator"}, failed)

\* Mutant of ClusterPipelines: only the CRs that are being deleted are counted.
ClusterPipelinesLeaving == {p \in Pipelines : cached[p].phase = "terminating"}

ClusterPipelines      == {p \in Pipelines : Present(cached[p])}
NamespacePipelines(n) == {p \in ClusterPipelines : NamespaceOf[p] = n}

\* Mutant of OnlyOne: off by one.
AtMostTwo(items) == Cardinality(items) <= 2

\* The test that decides a teardown: len(Items) == 1.
OnlyOne(items) == Cardinality(items) = 1

\* Mutant of ListNamespace: the list lacks client.InNamespace.
ListNamespaceEverywhere ==
  /\ pc = "listNamespace"
  /\ Goto(IF OnlyOne(ClusterPipelines) THEN "deleteBinding" ELSE "listCluster", FALSE)
  /\ UNCHANGED <<storeVars, objVars, cached, fresh, health, disturbances>>

ListNamespace ==
  /\ pc = "listNamespace"
  /\ Goto(IF OnlyOne(NamespacePipelines(NamespaceOf[req]))
          THEN "deleteBinding" ELSE "listCluster", FALSE)
  /\ UNCHANGED <<storeVars, objVars, cached, fresh, health, disturbances>>

\* Mutant of ListCluster: it counts the CRs of the namespace, like ListNamespace.
ListClusterOfNamespace ==
  /\ pc = "listCluster"
  /\ Goto(IF OnlyOne(NamespacePipelines(NamespaceOf[req]))
          THEN "deleteClusterRole" ELSE "release", FALSE)
  /\ UNCHANGED <<storeVars, objVars, cached, fresh, health, disturbances>>

ListCluster ==
  /\ pc = "listCluster"
  /\ Goto(IF OnlyOne(ClusterPipelines) THEN "deleteClusterRole" ELSE "release", FALSE)
  /\ UNCHANGED <<storeVars, objVars, cached, fresh, health, disturbances>>

\* Either List fails, and Reconcile returns the error.
ListFails ==
  /\ pc \in {"listNamespace", "listCluster"}
  /\ Disturb
  /\ Finish(TRUE)
  /\ UNCHANGED <<storeVars, objVars, cached, health>>

\* List by label from the cache, then Delete what was listed. A List that fails and
\* an object that is gone already, like any other failure, end the pass with an error.
DeleteObject(o, next) ==
  /\ \/ /\ o \in objCache => o \in objs
        /\ objs' = objs \ (objCache \cap {o})
        /\ Goto(next, FALSE)
        /\ UNCHANGED <<fresh, disturbances>>
     \/ /\ o \in objCache /\ o \notin objs
        /\ Finish(TRUE)
        /\ UNCHANGED <<objs, disturbances>>
     \/ /\ Disturb
        /\ Finish(TRUE)
        /\ UNCHANGED objs \/ (o \in objCache /\ objs' = objs \ {o})
  /\ UNCHANGED <<storeVars, objCache, cached, health>>

DeleteBinding     == pc = "deleteBinding" /\ DeleteObject(NamespaceOf[req], "listCluster")
DeleteClusterRole == pc = "deleteClusterRole" /\ DeleteObject(ClusterRole, "deleteSCC")
DeleteSCC         == pc = "deleteSCC" /\ DeleteObject(SCC, "release")

\* Mutant of RemoveFinalizer: the update is made before RemoveFinalizer.
RemoveFinalizerLate ==
  /\ pc = "release"
  /\ UpdateFinalizers(currentPipeline.finalizers, FALSE)

RemoveFinalizer ==
  /\ pc = "release"
  /\ UpdateFinalizers(currentPipeline.finalizers \ {"operator"}, FALSE)

-----------------------------------------------------------------------------
Environment ==
  \/ \E p \in Pipelines :
       UserCreates(p) \/ UserEdits(p) \/ UserDeletes(p) \/ ForegroundDone(p)
  \/ HealthChanges
  \/ PipelineInformerSyncs
  \/ \E o \in ClusterObjects : ObjectInformerSyncs(o)
  \/ Resync
  \/ Crash

\* Without LaggingCache every watch event arrives before the worker's next step.
CachesReady == LaggingCache \/ (current = Pipelines /\ objCache = objs)

PassStep ==
  \/ ApplyNamespacedManifests \/ ApplySCC \/ ApplyClusterRole \/ ApplyBinding
  \/ ApplyImageStreams \/ CommitStatus \/ CommitStatusFails \/ AddFinalizer
  \/ ListNamespace \/ DeleteBinding \/ ListCluster \/ ListFails
  \/ DeleteClusterRole \/ DeleteSCC \/ RemoveFinalizer

Start(p) == CachesReady /\ (GetPipeline(p) \/ GetFails(p))
Step     == CachesReady /\ PassStep

Next ==
  \/ Environment
  \/ \E p \in Pipelines : Start(p)
  \/ Step

Spec == Init /\ [][Next]_vars

\* The scheduling of client-go and controller-runtime: a queued request is
\* processed in the end, a pass runs to its end, watches deliver, the informers
\* resync, and the garbage collector completes foreground deletions.
Fairness ==
  /\ WF_vars(Step)
  /\ WF_vars(PipelineInformerSyncs)
  /\ WF_vars(Resync)
  /\ \A p \in Pipelines : SF_vars(Start(p)) /\ WF_vars(ForegroundDone(p))
  /\ \A o \in ClusterObjects : WF_vars(ObjectInformerSyncs(o))

FairSpec == Spec /\ Fairness

-----------------------------------------------------------------------------
(***************************************************************************)
(* Properties                                                              *)
(***************************************************************************)

\* While the CR that the worker tears down still holds its finalizer, the
\* ClusterRoleBinding is deleted only if no other CR of the namespace holds
\* one, and the ClusterRole and SCC only if no other CR of the cluster does
\* (the len(Items) == 1 tests of Reconcile, made on a cache).
TeardownSparesFinalizedPeers ==
  pc \in DeleteSteps /\ Guarded(api[req]) =>
    \A q \in Pipelines \ {req} :
      /\ pc = "deleteBinding" /\ NamespaceOf[q] = NamespaceOf[req] => ~Guarded(api[q])
      /\ pc \in {"deleteClusterRole", "deleteSCC"} => ~Guarded(api[q])

Settled == pc = "idle" /\ queue = {} /\ current = Pipelines

\* No wake-up is lost: when the worker is idle, its queue empty and the cache up
\* to date, every live CR has its finalizer and no deleted CR still waits for
\* the operator to remove it.
NoStuckPipeline ==
  Settled => \A p \in Pipelines :
    /\ api[p].phase = "active" => Guarded(api[p])
    /\ api[p].phase = "terminating" => ~Guarded(api[p])

Needs(p) == {SCC, ClusterRole, NamespaceOf[p]}

\* When nothing is left to do, every live CR has its cluster-scoped objects.
SettledIsProvisioned ==
  Settled => \A p \in Pipelines : api[p].phase = "active" => Needs(p) \subseteq objs

\* "If last CR in namespace we can remove the ClusterRoleBinding associated with
\* the namespace": no object outlives the CRs it was created for.
NoOrphans ==
  \A o \in objs : \E p \in Pipelines : Present(api[p]) /\ o \in Needs(p)

\* "If the length is 1 we know this is the last CR in a given namespace": when
\* the binding is about to be deleted no live CR of the namespace relies on it.
OneItemMeansLast ==
  pc = "deleteBinding" =>
    \A q \in Pipelines \ {req} :
      NamespaceOf[q] = NamespaceOf[req] =>
        ~(api[q].phase = "active" /\ Guarded(api[q]))

\* What a CR is to those who only see its life and the objects it needs.
Life(cr) ==
  CASE cr.phase = "absent" -> "absent"
    [] cr.phase = "active" -> IF Guarded(cr) THEN "guarded" ELSE "new"
    [] cr.phase = "terminating" -> "leaving"

LC == INSTANCE LifeCycle WITH
        Objects <- ClusterObjects,
        NeedsOf <- [p \in Pipelines |-> Needs(p)],
        life    <- [p \in Pipelines |-> Life(api[p])]

\* With caches that keep up, and deletions in the background of CRs that have their
\* finalizer, a pass that is interrupted, fails or conflicts at any call is, to the
\* cluster, a part of a life cycle: objects come with the first CR that needs
\* them, go with the last one, and the last one only goes after them.
ImplementsLifeCycle == LC!Spec

\* Every deletion of a CR completes.
DeletionCompletes ==
  \A p \in Pipelines : (api[p].phase = "terminating") ~> (api[p].phase # "terminating")

\* Every CR gets its finalizer or is deleted, though the status written by a
\* pass makes the same pass's update of the finalizer conflict.
FinalizerIsAdded ==
  \A p \in Pipelines :
    (api[p].phase = "active") ~> (Guarded(api[p]) \/ api[p].phase # "active")

\* Every CR gets its cluster-scoped objects or is deleted.
ObjectsAreProvided ==
  \A p \in Pipelines :
    (api[p].phase = "active") ~> (Needs(p) \subseteq objs \/ api[p].phase # "active")

=============================================================================
