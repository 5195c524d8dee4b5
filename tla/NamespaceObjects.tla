-------------------------- MODULE NamespaceObjects --------------------------
(***************************************************************************)
(* The objects that the OperatorPipelines of one namespace share: the      *)
(* Tekton pipelines and tasks that PipelineDependenciesReconciler applies  *)
(* from the worktree, and the image streams that the two ImageStream       *)
(* reconcilers import for the versions that Pyxis lists.                   *)
(*                                                                         *)
(* Each object belongs to one OperatorPipeline at most and goes with it    *)
(* (the garbage collector). A pass handles the objects one after the       *)
(* other; the Get and the write of one object are a step, because the      *)
(* cache that Get reads may be old in any case. A pass over any CR may     *)
(* come at any time, since the informers' resync queues all of them, so    *)
(* there is no work queue here and no requeue. The OperatorPipelines       *)
(* themselves are read up to date, and their teardown is one step: see     *)
(* OperatorPipelineController.                                             *)
(***************************************************************************)
EXTENDS Integers, Sequences

CONSTANTS
  Pipelines,        \* the OperatorPipelines of the namespace
  TektonPipelines,  \* the pipelines that a spec switches on and off
  Tasks,            \* the tasks of the worktree
  ImageStreams,     \* the image streams
  Order,            \* all of them, in the order in which a pass handles them
  Releases,         \* what the specs of OperatorPipelines ask for
  Requests,         \* the specs with which they may be created
  Nobody, Nothing,  \* no OperatorPipeline; no content
  MaxPublished,     \* bound on the versions that Pyxis comes to list
  MaxDisturbances   \* bound on edits, deletions of objects by users, new
                    \* versions, failed calls and crashes, together

Manifests == TektonPipelines \cup Tasks
Objects   == Manifests \cup ImageStreams

\* The content of an object is the release of its manifest, or the number of
\* versions that were listed when a stream was imported.
Contents == Releases \cup (0..MaxPublished)

Stages == 1..Len(Order)

Specs == [release : Releases, apply : SUBSET TektonPipelines]

ASSUME NamespaceAssumption ==
  /\ TektonPipelines \cap Tasks = {}
  /\ Manifests \cap ImageStreams = {}
  /\ Order \in Seq(Objects)
  /\ \A o \in Objects : \E i \in Stages : Order[i] = o
  /\ \A i, j \in Stages :
       i < j /\ Order[i] \in ImageStreams => Order[j] \in ImageStreams
  /\ Requests \subseteq [Pipelines -> Specs]
  /\ Nobody \notin Pipelines
  /\ Nothing \notin Contents
  /\ MaxPublished \in Nat \ {0}
  /\ MaxDisturbances \in Nat

VARIABLES
  phase, spec,       \* the OperatorPipelines; a guarded one has the finalizer
  objs,              \* the objects in the API server
  published,         \* how many versions Pyxis lists
  cache, synced,     \* the informers' copies, and which of them are the stored version
  req, wish, stage,  \* the worker: its CR, the copy of its spec, and its place
  tree,              \* the releases that the files of the worktree are of
  disturbances

crVars     == <<phase, spec>>
objectVars == <<objs, published, cache, synced>>
workerVars == <<req, wish, stage, tree>>
vars == <<crVars, objectVars, workerVars, disturbances>>

Object == [owner : Pipelines \cup {Nobody}, content : Contents]

NoSpec  == [release |-> Nothing, apply |-> {}]
Missing == [owner |-> Nobody, content |-> Nothing]

Exists(x) == x.content # Nothing

TypeOK ==
  /\ phase \in [Pipelines -> {"new", "guarded", "gone"}]
  /\ spec \in [Pipelines -> Specs]
  /\ objs \in [Objects -> Object \cup {Missing}]
  /\ published \in 1..MaxPublished
  /\ cache \in [Objects -> Object \cup {Missing}]
  /\ synced \subseteq Objects
  /\ req \in Pipelines \cup {Nobody}
  /\ wish \in Specs \cup {NoSpec}
  /\ stage \in 0..(Len(Order) + 1)
  /\ (req = Nobody) <=> (stage = 0)
  /\ tree \subseteq Releases
  /\ stage \in Stages /\ Order[stage] \in Manifests => tree # {}
  /\ disturbances \in 0..MaxDisturbances

\* A namespace whose OperatorPipelines have been created. One that is created
\* later is one whose first pass comes later.
Init ==
  /\ phase = [p \in Pipelines |-> "new"]
  /\ spec \in Requests
  /\ objs = [o \in Objects |-> Missing]
  /\ published = 1
  /\ cache = objs
  /\ synced = Objects
  /\ req = Nobody
  /\ wish = NoSpec
  /\ stage = 0
  /\ tree = {}
  /\ disturbances = 0

-----------------------------------------------------------------------------
(***************************************************************************)
(* The API server, the users, the garbage collector and the informers      *)
(***************************************************************************)

Disturb ==
  /\ disturbances < MaxDisturbances
  /\ disturbances' = disturbances + 1

Live == {p \in Pipelines : phase[p] \in {"new", "guarded"}}

\* A successful write gives the object a new resourceVersion.
Store(o, x) ==
  /\ objs' = [objs EXCEPT ![o] = x]
  /\ synced' = synced \ {o}

UserEdits(p) ==
  /\ Disturb
  /\ p \in Live
  /\ \E s \in Specs \ {spec[p]} : spec' = [spec EXCEPT ![p] = s]
  /\ UNCHANGED <<phase, objectVars, workerVars>>

\* A CR that has the finalizer goes in a pass of its own, any other at once.
PipelineGoes(p) ==
  /\ phase[p] = "new" \/ (phase[p] = "guarded" /\ req = Nobody)
  /\ phase' = [phase EXCEPT ![p] = "gone"]
  /\ UNCHANGED <<spec, objectVars, workerVars, disturbances>>

UserDeletesObject(o) ==
  /\ Disturb
  /\ Exists(objs[o])
  /\ Store(o, Missing)
  /\ UNCHANGED <<crVars, published, cache, workerVars>>

\* The garbage collector deletes what belongs to an OperatorPipeline that is gone.
GarbageCollects(o) ==
  /\ objs[o].owner # Nobody
  /\ phase[objs[o].owner] = "gone"
  /\ Store(o, Missing)
  /\ UNCHANGED <<crVars, published, cache, workerVars, disturbances>>

Publish ==
  /\ Disturb
  /\ published < MaxPublished
  /\ published' = published + 1
  /\ UNCHANGED <<crVars, objs, cache, synced, workerVars>>

InformerSyncs(o) ==
  /\ o \notin synced
  /\ cache' = [cache EXCEPT ![o] = objs[o]]
  /\ synced' = synced \cup {o}
  /\ UNCHANGED <<crVars, objs, published, workerVars, disturbances>>

\* Mutant of Idle: the worker keeps the request of the pass that ended.
IdleKeepsRequest == wish' = NoSpec /\ stage' = 0 /\ UNCHANGED req

Idle == req' = Nobody /\ wish' = NoSpec /\ stage' = 0

\* The manager restarts and lists everything again; the clone stays.
Crash ==
  /\ Disturb
  /\ cache' = objs
  /\ synced' = Objects
  /\ Idle
  /\ UNCHANGED <<crVars, objs, published, tree>>

-----------------------------------------------------------------------------
(***************************************************************************)
(* The worker: one pass over the objects                                   *)
(***************************************************************************)

Current == Order[stage]

\* After a failed manifest the others are left out, and the pass goes on with the
\* next reconciler, that of the first stream.
FirstStreamStage ==
  {i \in 1..(Len(Order) + 1) :
     /\ \A j \in Stages : j < i => Order[j] \in Manifests
     /\ i \in Stages => Order[i] \in ImageStreams}

GoOn           == stage' = stage + 1
LeaveManifests == stage' \in FirstStreamStage

\* r.Get of the CR, then PipelineGitRepoReconciler: when it fails, the worktree stays
\* as another pass left it, or a checkout that failed half-way leaves files of both
\* releases, a first clone those of its default branch. Without a clone no manifest
\* can be read.
Start(p) ==
  /\ req = Nobody
  /\ p \in Live
  /\ req' = p
  /\ wish' = spec[p]
  /\ \/ /\ tree' = {spec[p].release}
        /\ stage' = 1
        /\ UNCHANGED disturbances
     \/ /\ Disturb
        /\ \E written \in SUBSET (IF tree = {} THEN Releases ELSE {spec[p].release}) :
             tree' = tree \cup written
        /\ IF tree' = {} THEN LeaveManifests ELSE stage' = 1
  /\ UNCHANGED <<crVars, objectVars>>

\* Mutant of Owned: SetControllerReference is left out.
OwnedByNobody(content) == [owner |-> Nobody, content |-> content]

\* A manifest from the worktree, with the owner set by SetControllerReference.
Owned(content) == [owner |-> req, content |-> content]

\* Mutant of Applies: the branches of applyOrDeletePipeline are swapped.
AppliesOff(o) == o \in Tasks \/ (o \in TektonPipelines /\ o \notin wish.apply)

\* Tasks are applied always, a pipeline if the spec says so.
Applies(o) == o \in Tasks \/ (o \in TektonPipelines /\ o \in wish.apply)

\* The object of a manifest is created with what its file says.
Create(o) == \E release \in tree : Store(o, Owned(release))

\* Mutant of ApplyManifest: what is found is updated with the file's manifest, on
\* which SetControllerReference has not been called.
ApplyManifestOfFile ==
  LET o == Current IN
  /\ stage \in Stages /\ Applies(o)
  /\ \/ /\ Exists(cache[o]) /\ o \in synced
        /\ \E release \in tree : Store(o, OwnedByNobody(release))
     \/ ~Exists(cache[o]) /\ ~Exists(objs[o]) /\ Create(o)
  /\ GoOn
  /\ UNCHANGED <<crVars, published, cache, req, wish, tree, disturbances>>

\* applyManifests: Get overwrites the manifest with what the cache has, so that
\* the Update that follows changes nothing; what is not found is created.
ApplyManifest ==
  LET o == Current IN
  /\ stage \in Stages /\ Applies(o)
  /\ \/ /\ Exists(cache[o]) /\ o \in synced
        /\ GoOn
        /\ UNCHANGED <<objs, synced, disturbances>>
     \/ /\ ~Exists(cache[o]) /\ ~Exists(objs[o])
        /\ Create(o)
        /\ GoOn
        /\ UNCHANGED disturbances
     \/ \* Conflict, NotFound or AlreadyExists: the cache is behind.
        /\ Exists(cache[o]) => o \notin synced
        /\ Exists(cache[o]) \/ Exists(objs[o])
        /\ LeaveManifests
        /\ UNCHANGED <<objs, synced, disturbances>>
     \/ /\ Disturb
        /\ LeaveManifests
        /\ \/ UNCHANGED <<objs, synced>>
           \/ /\ ~Exists(cache[o]) /\ ~Exists(objs[o])
              /\ Create(o)
  /\ UNCHANGED <<crVars, published, cache, req, wish, tree>>

\* deleteManifests: what is found is deleted, whichever CR owns it.
DeleteManifest ==
  LET o == Current IN
  /\ stage \in Stages /\ o \in TektonPipelines /\ ~Applies(o)
  /\ \/ /\ ~Exists(cache[o])
        /\ GoOn
        /\ UNCHANGED <<objs, synced, disturbances>>
     \/ /\ Exists(cache[o]) /\ Exists(objs[o])
        /\ Store(o, Missing)
        /\ GoOn
        /\ UNCHANGED disturbances
     \/ /\ Exists(cache[o]) /\ ~Exists(objs[o])
        /\ LeaveManifests
        /\ UNCHANGED <<objs, synced, disturbances>>
     \/ /\ Disturb
        /\ LeaveManifests
        /\ \/ UNCHANGED <<objs, synced>>
           \/ Exists(cache[o]) /\ Exists(objs[o]) /\ Store(o, Missing)
  /\ UNCHANGED <<crVars, published, cache, req, wish, tree>>

\* An answer of Pyxis that reports an error in its body is read as an empty list.
FindOperatorIndices(listed) ==
  \/ listed = published /\ UNCHANGED disturbances
  \/ listed = 0 /\ Disturb

\* Mutant of AlreadyOwned: a stream without a controller is refused as well.
AlreadyOwnedUnlessMine(x) == x.owner # req

\* Mutant of AlreadyOwned: SetOwnerReference in place of SetControllerReference.
AlreadyOwnedNever(x) == FALSE

\* SetControllerReference fails for an object with another controller.
AlreadyOwned(x) == x.owner \notin {Nobody, req}

\* The lookup in the cache that decides between an owner and an import.
IsObjectFound(o) == Exists(cache[o])

\* A stream that is found gets an owner; its update may fail without notice. A
\* lookup that fails counts as one that found something, and changes nothing.
OwnImageStream ==
  LET o == Current IN
  /\ stage \in Stages /\ o \in ImageStreams
  /\ \/ /\ IsObjectFound(o)
        /\ IF AlreadyOwned(cache[o]) \/ o \notin synced \/ cache[o].owner = req
           THEN UNCHANGED <<objs, synced>>
           ELSE Store(o, [objs[o] EXCEPT !.owner = req])
        /\ UNCHANGED disturbances
     \/ Disturb /\ UNCHANGED <<objs, synced>>
  /\ GoOn
  /\ UNCHANGED <<crVars, published, cache, req, wish, tree>>

\* The ImageStreamImport: it makes the stream, without an owner, or brings one
\* that the cache does not show yet up to date.
ImportImageStream ==
  LET o == Current
      Imported(listed) == Store(o, [objs[o] EXCEPT !.content = listed])
  IN
  /\ stage \in Stages /\ o \in ImageStreams /\ ~IsObjectFound(o)
  /\ \E listed \in 0..MaxPublished : FindOperatorIndices(listed) /\ Imported(listed)
  /\ GoOn
  /\ UNCHANGED <<crVars, published, cache, req, wish, tree>>

\* The query fails, or the import does, with or without having been made.
ImageStreamFails ==
  LET o == Current IN
  /\ stage \in Stages /\ o \in ImageStreams
  /\ Disturb
  /\ \/ UNCHANGED <<objs, synced>>
     \/ ~IsObjectFound(o) /\ Store(o, [objs[o] EXCEPT !.content = published])
  /\ GoOn
  /\ UNCHANGED <<crVars, published, cache, req, wish, tree>>

\* The finalizer is added, unless the update conflicts or the CR is gone.
Finish ==
  /\ stage = Len(Order) + 1
  /\ Idle
  /\ \/ UNCHANGED phase
     \/ phase[req] = "new" /\ phase' = [phase EXCEPT ![req] = "guarded"]
  /\ UNCHANGED <<spec, objectVars, tree, disturbances>>

Step ==
  \/ ApplyManifest \/ DeleteManifest
  \/ OwnImageStream \/ ImportImageStream \/ ImageStreamFails
  \/ Finish

Environment ==
  \/ \E p \in Pipelines : UserEdits(p) \/ PipelineGoes(p)
  \/ \E o \in Objects : UserDeletesObject(o) \/ GarbageCollects(o) \/ InformerSyncs(o)
  \/ Publish \/ Crash

Next == Environment \/ (\E p \in Pipelines : Start(p)) \/ Step

Spec == Init /\ [][Next]_vars

\* Passes go on, the informers' resync brings each CR a pass again and again
\* (the worker is busy with others in between), watches deliver and the garbage
\* collector works.
Fairness ==
  /\ WF_vars(Step)
  /\ \A p \in Pipelines : SF_vars(Start(p))
  /\ \A o \in Objects : WF_vars(InformerSyncs(o)) /\ WF_vars(GarbageCollects(o))

FairSpec == Spec /\ Fairness

-----------------------------------------------------------------------------
(***************************************************************************)
(* Properties                                                              *)
(***************************************************************************)

\* The pipelines that one live CR switches on and another one switches off are
\* created and deleted in turn; all other objects that a CR needs are due.
Due(o) ==
  /\ Live # {}
  /\ o \in TektonPipelines => \A p \in Live : o \in spec[p].apply

\* Whatever was deleted by users, collected with its owner or created by a pass
\* that failed: the objects that are due come to exist and stay.
ObjectsReturn == \A o \in Objects : <>[](Due(o) => Exists(objs[o]))

\* "this should self correct on subsequent reconciles": as long as a CR lives,
\* each stream comes to belong to one that lives, so that it will be collected.
StreamsGetOwners ==
  \A o \in ImageStreams : <>[](Live # {} => objs[o].owner \in Live)

\* After the last CR of the namespace is gone, nothing of the pipelines and tasks
\* remains, though a pass over a CR that is gone may still create some.
NothingIsLeft ==
  \A o \in Manifests :
    (\A p \in Pipelines : phase[p] = "gone") ~> ~Exists(objs[o])

\* No pipeline or task is ever left without an owner, so that the garbage collector
\* finds each of them, whichever passes created, deleted and created it again, and
\* whatever the copies in their caches were. Streams have no owner at first.
ManifestsAreOwned == \A o \in Manifests : Exists(objs[o]) => objs[o].owner # Nobody

\* A pass never takes an object over from another CR.
OwnersAreKept ==
  [][\A o \in Objects :
       Exists(objs[o]) /\ Exists(objs'[o]) /\ objs[o].owner # Nobody
         => objs'[o].owner = objs[o].owner]_vars

\* What an object would be made of now: the release of the CR that it belongs to,
\* or the versions that Pyxis lists.
Offered(o) ==
  IF o \in ImageStreams THEN published ELSE spec[objs[o].owner].release

\* "OperatorPipelinesRelease is the Operator Pipelines release (version) to
\* install", and each stream is to be "present and up to date": once nothing
\* changes any more, the objects of live CRs have the content that is offered.
ObjectsAreUpToDate ==
  \A o \in Objects : <>[](objs[o].owner \in Live => objs[o].content = Offered(o))

=============================================================================
