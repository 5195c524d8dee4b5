----------------------- MODULE NamespaceObjectsProofs -----------------------
(***************************************************************************)
(* Proofs about NamespaceObjects, for any OperatorPipelines and objects,   *)
(* any order of the objects and any number of disturbances.                *)
(***************************************************************************)
EXTENDS NamespaceObjects, TLAPS, WellFoundedInduction

-----------------------------------------------------------------------------
(***************************************************************************)
(* Types                                                                   *)
(***************************************************************************)

\* A copy that is up to date is the object: SetControllerReference then judges
\* the controller that the object has.
CacheAgrees == \A o \in synced : cache[o] = objs[o]

\* The stages of a pass are numbers, each of one object.
LEMMA StageFacts ==
  /\ Len(Order) \in Nat
  /\ \A i \in Stages : Order[i] \in Objects
  /\ Stages \subseteq 0..(Len(Order) + 1)
  BY NamespaceAssumption DEF Stages

\* Disturbances stay within their bound.
LEMMA DisturbType ==
  ASSUME TypeOK, Disturb \/ disturbances' = disturbances
  PROVE  disturbances' \in 0..MaxDisturbances
<1>1. disturbances \in 0..MaxDisturbances
  BY DEF TypeOK
<1>2. CASE Disturb
  BY <1>1, <1>2, NamespaceAssumption DEF Disturb
<1> QED
  BY <1>1, <1>2

\* What a pass may store for an object.
LEMMA StoredTypes ==
  ASSUME NEW x \in Object \cup {Missing}
  PROVE  /\ Missing \in Object \cup {Missing}
         /\ \A p \in Pipelines : Exists(x) => [x EXCEPT !.owner = p] \in Object
         /\ \A c \in Contents : [x EXCEPT !.content = c] \in Object
         /\ x.owner \in Pipelines \cup {Nobody}
  BY DEF Object, Missing, Exists

\* Storing an object keeps the types of the objects and of their copies.
LEMMA StoreType ==
  ASSUME TypeOK, NEW o \in Objects, NEW x \in Object \cup {Missing}, Store(o, x)
  PROVE  /\ objs' \in [Objects -> Object \cup {Missing}]
         /\ synced' \subseteq Objects
  BY DEF TypeOK, Store

\* Leaving the manifests leads to a stage without one, and so does going on from a
\* stage without one.
LEMMA LaterStages ==
  ASSUME stage \in Stages
  PROVE  /\ GoOn => /\ stage' \in 1..(Len(Order) + 1)
                    /\ stage' \in Stages /\ Order[stage'] \in Manifests
                         => Order[stage] \in Manifests
         /\ LeaveManifests => /\ stage' \in 1..(Len(Order) + 1)
                              /\ ~(stage' \in Stages /\ Order[stage'] \in Manifests)
<1>1. Len(Order) \in Nat
  BY StageFacts
<1>2. ASSUME GoOn
      PROVE  /\ stage' \in 1..(Len(Order) + 1)
             /\ stage' \in Stages /\ Order[stage'] \in Manifests
                  => Order[stage] \in Manifests
  <2>1. stage' \in 1..(Len(Order) + 1) /\ stage < stage'
    BY <1>1, <1>2 DEF GoOn, Stages
  <2>2. ASSUME stage' \in Stages, Order[stage'] \in Manifests
        PROVE  Order[stage] \in Manifests
    <3>1. Order[stage] \notin ImageStreams
      BY <2>1, <2>2, NamespaceAssumption
    <3> QED
      BY <3>1, StageFacts DEF Objects
  <2> QED
    BY <2>1, <2>2
<1>3. ASSUME LeaveManifests
      PROVE  /\ stage' \in 1..(Len(Order) + 1)
             /\ ~(stage' \in Stages /\ Order[stage'] \in Manifests)
  BY <1>3, NamespaceAssumption DEF LeaveManifests, FirstStreamStage
<1> QED
  BY <1>2, <1>3

\* A set of numbers that is not empty has a least element.
LEMMA LeastElement ==
  ASSUME NEW T, T \subseteq Nat, T # {}
  PROVE  \E i \in T : \A j \in T : i <= j
<1>1. PICK i \in T : \A j \in T : ~(<<j, i>> \in OpToRel(<, Nat))
  BY NatLessThanWellFounded, WFMin, Zenon
<1>2. ASSUME NEW j \in T
      PROVE  i <= j
  <2>1. i \in Nat /\ j \in Nat
    OBVIOUS
  <2>2. ~(j < i)
    BY <1>1, <2>1 DEF OpToRel
  <2> QED
    BY <2>1, <2>2
<1> QED
  BY <1>2

\* Leaving the manifests leads to one stage and there always is one: a pass whose
\* dependencies failed goes on (the loop of Reconcile over the reconcilers).
LEMMA OneFirstStream == \E i \in 1..(Len(Order) + 1) : FirstStreamStage = {i}
<1> DEFINE T == {i \in 1..(Len(Order) + 1) : i \in Stages => Order[i] \in ImageStreams}
<1>1. Len(Order) \in Nat /\ Stages = 1..Len(Order)
  BY StageFacts DEF Stages
<1>2. Len(Order) + 1 \in T /\ T \subseteq Nat
  BY <1>1
<1>3. PICK i \in T : \A j \in T : i <= j
  BY <1>2, LeastElement
<1>4. ASSUME NEW j \in Stages, j < i
      PROVE  Order[j] \in Manifests
  <2>1. j \notin T
    BY <1>1, <1>2, <1>3, <1>4
  <2>2. Order[j] \notin ImageStreams
    BY <1>1, <2>1
  <2> QED
    BY <2>2, StageFacts DEF Objects
<1>5. i \in FirstStreamStage
  BY <1>3, <1>4 DEF FirstStreamStage
<1>6. ASSUME NEW k \in FirstStreamStage
      PROVE  k = i
  <2>1. k \in T /\ \A j \in Stages : j < k => Order[j] \in Manifests
    BY DEF FirstStreamStage
  <2>2. i <= k
    BY <1>3, <2>1
  <2>3. CASE i < k
    <3>1. i \in Stages
      BY <1>1, <1>3, <2>1, <2>3
    <3> QED
      BY <1>3, <2>1, <2>3, <3>1, NamespaceAssumption
  <2> QED
    BY <1>1, <1>3, <2>1, <2>2, <2>3
<1> QED
  BY <1>3, <1>5, <1>6

\* What the users, the garbage collector, upstream and the informers do.
LEMMA EnvironmentType ==
  ASSUME TypeOK, Environment
  PROVE  TypeOK'
<1> USE DEF crVars, workerVars, Stages
<1>1. ASSUME NEW p \in Pipelines, UserEdits(p)
      PROVE  TypeOK'
  <2>1. disturbances' \in 0..MaxDisturbances
    BY <1>1, DisturbType DEF UserEdits
  <2>2. spec' \in [Pipelines -> Specs]
    BY <1>1 DEF TypeOK, UserEdits
  <2> QED
    BY <1>1, <2>1, <2>2 DEF TypeOK, UserEdits, objectVars
<1>2. ASSUME NEW p \in Pipelines, PipelineGoes(p)
      PROVE  TypeOK'
  BY <1>2 DEF TypeOK, PipelineGoes, objectVars
<1>3. ASSUME NEW o \in Objects, UserDeletesObject(o) \/ GarbageCollects(o)
      PROVE  TypeOK'
  <2>1. Store(o, Missing)
    BY <1>3 DEF UserDeletesObject, GarbageCollects
  <2>2. /\ objs' \in [Objects -> Object \cup {Missing}]
        /\ synced' \subseteq Objects
    BY <2>1, StoreType
  <2>3. disturbances' \in 0..MaxDisturbances
    BY <1>3, DisturbType DEF UserDeletesObject, GarbageCollects
  <2>4. UNCHANGED <<crVars, published, cache, workerVars>>
    BY <1>3 DEF UserDeletesObject, GarbageCollects
  <2> QED
    BY <2>2, <2>3, <2>4 DEF TypeOK
<1>4. CASE \E o \in Objects : InformerSyncs(o)
  BY <1>4 DEF TypeOK, InformerSyncs
<1>5. CASE Publish
  <2>1. disturbances' \in 0..MaxDisturbances
    BY <1>5, DisturbType DEF Publish
  <2>2. published \in 1..MaxPublished
    BY DEF TypeOK
  <2>3. published' \in 1..MaxPublished
    BY <1>5, <2>2, NamespaceAssumption DEF Publish
  <2> QED
    BY <1>5, <2>1, <2>3 DEF TypeOK, Publish
<1>6. CASE Crash
  <2>1. disturbances' \in 0..MaxDisturbances
    BY <1>6, DisturbType DEF Crash
  <2>2. stage' \in 0..(Len(Order) + 1)
    BY <1>6, StageFacts DEF Crash, Idle
  <2>3. stage' \notin Stages
    BY <1>6 DEF Crash, Idle
  <2> QED
    BY <1>6, <2>1, <2>2, <2>3 DEF TypeOK, Crash, Idle
<1> QED
  BY <1>1, <1>2, <1>3, <1>4, <1>5, <1>6 DEF Environment

\* The beginning of a pass.
LEMMA StartType ==
  ASSUME TypeOK, NEW p \in Pipelines, Start(p)
  PROVE  TypeOK'
<1>1. spec[p] \in Specs /\ spec[p].release \in Releases
  BY DEF TypeOK, Specs
<1>2. disturbances' \in 0..MaxDisturbances
  BY DisturbType DEF Start
<1>3. /\ stage' \in 1..(Len(Order) + 1)
      /\ stage' \in Stages /\ Order[stage'] \in Manifests => tree' # {}
  <2>1. Len(Order) \in Nat
    BY StageFacts
  <2>2. CASE LeaveManifests
    BY <2>2, NamespaceAssumption DEF LeaveManifests, FirstStreamStage
  <2>3. CASE stage' = 1 /\ tree' # {}
    BY <2>1, <2>3
  <2> QED
    BY <2>2, <2>3 DEF Start
<1>4. tree' \subseteq Releases
  BY <1>1 DEF TypeOK, Start
<1>5. req' = p /\ wish' \in Specs /\ p # Nobody
  BY <1>1, NamespaceAssumption DEF Start
<1> QED
  BY <1>2, <1>3, <1>4, <1>5, StageFacts DEF TypeOK, Start, crVars, objectVars, Stages

\* What a step of a pass at an object leaves alone, and where it leads.
LEMMA ObjectStepFrame ==
  ASSUME TypeOK,
         ApplyManifest \/ DeleteManifest
           \/ OwnImageStream \/ ImportImageStream \/ ImageStreamFails
  PROVE  /\ stage \in Stages
         /\ req \in Pipelines
         /\ UNCHANGED <<crVars, published, cache, req, wish, tree>>
         /\ stage' \in 1..(Len(Order) + 1)
         /\ stage' \in Stages /\ Order[stage'] \in Manifests => tree' # {}
         /\ disturbances' \in 0..MaxDisturbances
<1>0. /\ stage \in Stages => req \in Pipelines
      /\ disturbances' = disturbances \/ Disturb => disturbances' \in 0..MaxDisturbances
  <2>1. 0 \notin Stages
    BY DEF Stages
  <2> QED
    BY <2>1, DisturbType DEF TypeOK
<1>1. CASE ApplyManifest
  <2>1. stage \in Stages /\ Order[stage] \in Manifests /\ (GoOn \/ LeaveManifests)
    BY <1>1 DEF ApplyManifest, Applies, Manifests, Current
  <2>2. disturbances' = disturbances \/ Disturb
    BY <1>1 DEF ApplyManifest
  <2>3. UNCHANGED <<crVars, published, cache, req, wish, tree>>
    BY <1>1 DEF ApplyManifest
  <2> QED
    BY <1>0, <2>1, <2>2, <2>3, LaterStages DEF TypeOK
<1>2. CASE DeleteManifest
  <2>1. stage \in Stages /\ Order[stage] \in Manifests /\ (GoOn \/ LeaveManifests)
    BY <1>2 DEF DeleteManifest, Manifests, Current
  <2>2. disturbances' = disturbances \/ Disturb
    BY <1>2 DEF DeleteManifest
  <2>3. UNCHANGED <<crVars, published, cache, req, wish, tree>>
    BY <1>2 DEF DeleteManifest
  <2> QED
    BY <1>0, <2>1, <2>2, <2>3, LaterStages DEF TypeOK
<1>3. CASE OwnImageStream \/ ImportImageStream \/ ImageStreamFails
  <2>1. stage \in Stages /\ Order[stage] \in ImageStreams /\ GoOn
    BY <1>3 DEF OwnImageStream, ImportImageStream, ImageStreamFails, Current
  <2>2. disturbances' = disturbances \/ Disturb
    BY <1>3 DEF OwnImageStream, ImportImageStream, ImageStreamFails, FindOperatorIndices
  <2>3. UNCHANGED <<crVars, published, cache, req, wish, tree>>
    BY <1>3 DEF OwnImageStream, ImportImageStream, ImageStreamFails
  <2>4. Order[stage] \notin Manifests
    BY <2>1, NamespaceAssumption
  <2> QED
    BY <1>0, <2>1, <2>2, <2>3, <2>4, LaterStages DEF TypeOK
<1> QED
  BY <1>1, <1>2, <1>3

\* What a step of a pass at an object stores: nothing, or one version of the
\* object, which has the owner that it had if there was one already.
LEMMA ObjectStepWrites ==
  ASSUME TypeOK, CacheAgrees,
         ApplyManifest \/ DeleteManifest
           \/ OwnImageStream \/ ImportImageStream \/ ImageStreamFails
  PROVE  \/ UNCHANGED <<objs, synced>>
         \/ \E x \in Object \cup {Missing} : Store(Order[stage], x)
<1> DEFINE o == Order[stage]
<1>1. stage \in Stages /\ o \in Objects /\ req \in Pipelines
  BY ObjectStepFrame, StageFacts
<1>2. objs[o] \in Object \cup {Missing} /\ Missing \in Object \cup {Missing}
  BY <1>1 DEF TypeOK
<1>3. CASE ApplyManifest
  <2>1. o \in Manifests
    BY <1>3 DEF ApplyManifest, Applies, Manifests, Current
  <2>2. ASSUME NEW release \in tree
        PROVE  Owned(release) \in Object
    BY <1>1, <2>2 DEF TypeOK, Contents, Owned, Object
  <2>3. UNCHANGED <<objs, synced>> \/ Create(o)
    BY <1>3 DEF ApplyManifest, Current
  <2> QED
    BY <2>2, <2>3 DEF Create
<1>4. CASE DeleteManifest
  <2>1. UNCHANGED <<objs, synced>> \/ Store(o, Missing)
    BY <1>4 DEF DeleteManifest, Current
  <2> QED
    BY <1>2, <2>1
<1>5. CASE OwnImageStream
  <2>1. \/ UNCHANGED <<objs, synced>>
        \/ Exists(cache[o]) /\ o \in synced /\ Store(o, [objs[o] EXCEPT !.owner = req])
    BY <1>5 DEF OwnImageStream, Current, IsObjectFound
  <2>2. ASSUME Exists(cache[o]), o \in synced
        PROVE  [objs[o] EXCEPT !.owner = req] \in Object
    BY <1>1, <1>2, <2>2, StoredTypes DEF CacheAgrees
  <2> QED
    BY <2>1, <2>2
<1>6. CASE ImportImageStream
  <2>1. PICK c \in 0..MaxPublished : Store(o, [objs[o] EXCEPT !.content = c])
    BY <1>6 DEF ImportImageStream, Current
  <2> QED
    BY <1>2, <2>1, StoredTypes DEF Contents
<1>7. CASE ImageStreamFails
  <2>1. UNCHANGED <<objs, synced>> \/ Store(o, [objs[o] EXCEPT !.content = published])
    BY <1>7 DEF ImageStreamFails, Current
  <2>2. published \in Contents
    BY NamespaceAssumption DEF TypeOK, Contents
  <2> QED
    BY <1>2, <2>1, <2>2, StoredTypes
<1> QED
  BY <1>3, <1>4, <1>5, <1>6, <1>7

\* A step of a pass at one object.
LEMMA ObjectStepType ==
  ASSUME TypeOK, CacheAgrees,
         ApplyManifest \/ DeleteManifest
           \/ OwnImageStream \/ ImportImageStream \/ ImageStreamFails
  PROVE  TypeOK'
<1>1. /\ objs' \in [Objects -> Object \cup {Missing}]
      /\ synced' \subseteq Objects
  <2>1. CASE UNCHANGED <<objs, synced>>
    BY <2>1 DEF TypeOK
  <2>2. CASE \E x \in Object \cup {Missing} : Store(Order[stage], x)
    BY <2>2, ObjectStepFrame, StageFacts, StoreType
  <2> QED
    BY <2>1, <2>2, ObjectStepWrites
<1>2. stage' \in 0..(Len(Order) + 1) /\ stage' # 0 /\ req # Nobody
  BY ObjectStepFrame, StageFacts, NamespaceAssumption
<1>3. UNCHANGED <<phase, spec, published, cache, req, wish, tree>>
  BY ObjectStepFrame DEF crVars
<1>4. disturbances' \in 0..MaxDisturbances
  BY ObjectStepFrame
<1>5. stage' \in Stages /\ Order[stage'] \in Manifests => tree' # {}
  BY ObjectStepFrame
<1> QED
  BY <1>1, <1>2, <1>3, <1>4, <1>5 DEF TypeOK, Stages

\* The end of a pass.
LEMMA FinishType ==
  ASSUME TypeOK, Finish
  PROVE  TypeOK'
<1>1. stage' = 0 /\ 0 \notin Stages /\ 0 \in 0..(Len(Order) + 1)
  BY StageFacts DEF Finish, Idle, Stages
<1>2. phase' \in [Pipelines -> {"new", "guarded", "gone"}]
  BY DEF TypeOK, Finish
<1> QED
  BY <1>1, <1>2 DEF TypeOK, Finish, Idle, objectVars, Stages

\* The invariant that types the variables holds in every step.
LEMMA NextType ==
  ASSUME TypeOK, CacheAgrees, [Next]_vars
  PROVE  TypeOK'
<1>1. CASE UNCHANGED vars
  BY <1>1 DEF TypeOK, vars, crVars, objectVars, workerVars, Stages
<1> QED
  BY <1>1, EnvironmentType, StartType, ObjectStepType, FinishType DEF Next, Step

\* Whatever is stored, the copies that stay up to date are those of the others.
LEMMA StoreAgrees ==
  ASSUME TypeOK, CacheAgrees, NEW o \in Objects, NEW x, Store(o, x), UNCHANGED cache
  PROVE  CacheAgrees'
  BY DEF TypeOK, CacheAgrees, Store

LEMMA NextAgrees ==
  ASSUME TypeOK, CacheAgrees, [Next]_vars
  PROVE  CacheAgrees'
<1>1. CASE UNCHANGED <<objs, cache, synced>>
  BY <1>1 DEF CacheAgrees
<1>2. ASSUME NEW o \in Objects, UserDeletesObject(o) \/ GarbageCollects(o)
      PROVE  CacheAgrees'
  BY <1>2, StoreAgrees DEF UserDeletesObject, GarbageCollects
<1>3. ASSUME NEW o \in Objects, InformerSyncs(o)
      PROVE  CacheAgrees'
  BY <1>3 DEF TypeOK, CacheAgrees, InformerSyncs
<1>4. CASE Crash
  BY <1>4 DEF CacheAgrees, Crash
<1>5. CASE ApplyManifest \/ DeleteManifest
             \/ OwnImageStream \/ ImportImageStream \/ ImageStreamFails
  BY <1>1, <1>5, ObjectStepFrame, ObjectStepWrites, StageFacts, StoreAgrees
<1>6. CASE Publish \/ Finish \/ (\E p \in Pipelines : UserEdits(p) \/ PipelineGoes(p) \/ Start(p))
  <2>1. UNCHANGED <<objs, cache, synced>>
    BY <1>6 DEF Publish, Finish, UserEdits, PipelineGoes, Start, objectVars
  <2> QED
    BY <1>1, <2>1
<1>7. CASE UNCHANGED vars
  BY <1>1, <1>7 DEF vars, objectVars
<1> QED
  BY <1>2, <1>3, <1>4, <1>5, <1>6, <1>7 DEF Next, Environment, Step

\* Together the types and the agreement of the copies are inductive: an owner is
\* written over the copy of an object, which therefore has to exist.
LEMMA NamespaceInvariant == Spec => [](TypeOK /\ CacheAgrees)
<1>1. Init => TypeOK /\ CacheAgrees
  <2> SUFFICES ASSUME Init
               PROVE  TypeOK /\ CacheAgrees
    OBVIOUS
  <2>1. spec \in [Pipelines -> Specs] /\ published \in 1..MaxPublished
    BY NamespaceAssumption DEF Init
  <2>2. 0 \notin Stages /\ 0 \in 0..(Len(Order) + 1)
    BY StageFacts DEF Stages
  <2> QED
    BY <2>1, <2>2, NamespaceAssumption DEF Init, TypeOK, CacheAgrees
<1> QED
  BY <1>1, NextType, NextAgrees, PTL DEF Spec

\* Every variable keeps its type, and a pass reaches a manifest only when there is
\* a worktree to read it from (applyManifests, pipeline_dependencies.go).
THEOREM NamespaceTypeCorrect == Spec => []TypeOK
  BY NamespaceInvariant, PTL

-----------------------------------------------------------------------------
(***************************************************************************)
(* Owners                                                                  *)
(***************************************************************************)

\* An object changes only by being stored, and then only that one.
LEMMA OthersKept ==
  ASSUME TypeOK, NEW o \in Objects, NEW q \in Objects, NEW x, Store(q, x),
         Exists(x) /\ Exists(objs[q]) => x.owner = objs[q].owner \/ objs[q].owner = Nobody,
         Exists(objs[o]), Exists(objs'[o]), objs[o].owner # Nobody
  PROVE  objs'[o].owner = objs[o].owner
<1>1. objs'[o] = IF o = q THEN x ELSE objs[o]
  BY DEF TypeOK, Store
<1> QED
  BY <1>1

\* A pass never takes an object over from another CR: what applyManifests stores
\* did not exist, an import leaves the owner alone, and SetControllerReference
\* refuses what another CR controls.
THEOREM OwnersKept == Spec => OwnersAreKept
<1> DEFINE Kept(o) == Exists(objs[o]) /\ Exists(objs'[o]) /\ objs[o].owner # Nobody
                        => objs'[o].owner = objs[o].owner
<1>1. ASSUME TypeOK, CacheAgrees, Next, NEW o \in Objects
      PROVE  Kept(o)
  <2>1. CASE UNCHANGED objs
    BY <2>1
  <2>2. ASSUME NEW q \in Objects, UserDeletesObject(q) \/ GarbageCollects(q)
        PROVE  Kept(o)
    <3>1. Store(q, Missing) /\ ~Exists(Missing)
      BY <2>2 DEF UserDeletesObject, GarbageCollects, Exists, Missing
    <3> QED
      BY <1>1, <3>1, OthersKept
  <2>3. CASE ApplyManifest
    <3> DEFINE q == Order[stage]
    <3>1. q \in Objects
      BY <1>1, <2>3, ObjectStepFrame, StageFacts
    <3>2. UNCHANGED objs \/ (\E x : Store(q, x) /\ ~Exists(objs[q]))
      BY <2>3 DEF ApplyManifest, Current, Create
    <3> QED
      BY <1>1, <3>1, <3>2, OthersKept
  <2>4. CASE DeleteManifest
    <3> DEFINE q == Order[stage]
    <3>1. q \in Objects
      BY <1>1, <2>4, ObjectStepFrame, StageFacts
    <3>2. UNCHANGED objs \/ Store(q, Missing)
      BY <2>4 DEF DeleteManifest, Current
    <3>3. ~Exists(Missing)
      BY DEF Exists, Missing
    <3> QED
      BY <1>1, <3>1, <3>2, <3>3, OthersKept
  <2>5. CASE OwnImageStream
    <3> DEFINE q == Order[stage]
               x == [objs[q] EXCEPT !.owner = req]
    <3>1. q \in Objects /\ objs[q] \in Object \cup {Missing}
      BY <1>1, <2>5, ObjectStepFrame, StageFacts DEF TypeOK
    <3>2. \/ UNCHANGED objs
          \/ Store(q, x) /\ q \in synced /\ ~AlreadyOwned(cache[q])
      BY <2>5 DEF OwnImageStream, Current
    <3>3. x.owner = req
      BY <3>1 DEF Object, Missing
    <3>4. ASSUME q \in synced, ~AlreadyOwned(cache[q])
          PROVE  objs[q].owner \in {Nobody, req}
      BY <1>1, <3>4 DEF CacheAgrees, AlreadyOwned
    <3> HIDE DEF q, x
    <3> QED
      BY <1>1, <3>1, <3>2, <3>3, <3>4, OthersKept
  <2>6. CASE ImportImageStream \/ ImageStreamFails
    <3> DEFINE q == Order[stage]
    <3>1. q \in Objects /\ objs[q] \in Object \cup {Missing}
      BY <1>1, <2>6, ObjectStepFrame, StageFacts DEF TypeOK
    <3>2. UNCHANGED objs \/ (\E c : Store(q, [objs[q] EXCEPT !.content = c]))
      BY <2>6 DEF ImportImageStream, ImageStreamFails, Current
    <3>3. ASSUME NEW c
          PROVE  [objs[q] EXCEPT !.content = c].owner = objs[q].owner
      BY <3>1 DEF Object, Missing
    <3> HIDE DEF q
    <3> QED
      BY <1>1, <3>1, <3>2, <3>3, OthersKept
  <2>7. CASE Finish \/ Publish \/ Crash
    BY <2>1, <2>7 DEF Finish, Publish, Crash, objectVars
  <2>8. CASE \E p \in Pipelines : UserEdits(p) \/ PipelineGoes(p) \/ Start(p)
    BY <2>1, <2>8 DEF UserEdits, PipelineGoes, Start, objectVars
  <2>9. CASE \E q \in Objects : InformerSyncs(q)
    BY <2>1, <2>9 DEF InformerSyncs
  <2> QED
    BY <1>1, <2>2, <2>3, <2>4, <2>5, <2>6, <2>7, <2>8, <2>9 DEF Next, Environment, Step
<1>2. TypeOK /\ CacheAgrees /\ [Next]_vars => [\A o \in Objects : Kept(o)]_vars
  BY <1>1
<1> QED
  BY NamespaceInvariant, <1>2, PTL DEF Spec, OwnersAreKept

\* What a step of a pass stores for a pipeline or a task has an owner.
LEMMA StoredManifests ==
  ASSUME TypeOK,
         ApplyManifest \/ DeleteManifest
           \/ OwnImageStream \/ ImportImageStream \/ ImageStreamFails
  PROVE  \/ UNCHANGED objs
         \/ \E o \in ImageStreams : \E x : Store(o, x)
         \/ \E o \in Objects : \E x : Store(o, x) /\ (Exists(x) => x.owner # Nobody)
<1> DEFINE o == Order[stage]
<1>1. stage \in Stages /\ o \in Objects /\ req \in Pipelines
  BY ObjectStepFrame, StageFacts
<1>2. CASE ApplyManifest
  <2>1. UNCHANGED objs \/ (\E release : Store(o, Owned(release)))
    BY <1>2 DEF ApplyManifest, Current, Create
  <2>2. \A release : Owned(release).owner # Nobody
    BY <1>1, NamespaceAssumption DEF Owned
  <2> QED
    BY <1>1, <2>1, <2>2
<1>3. CASE DeleteManifest
  <2>1. UNCHANGED objs \/ Store(o, Missing)
    BY <1>3 DEF DeleteManifest, Current
  <2>2. ~Exists(Missing)
    BY DEF Exists, Missing
  <2> QED
    BY <1>1, <2>1, <2>2
<1>4. CASE OwnImageStream
  <2>1. o \in ImageStreams
    BY <1>4 DEF OwnImageStream, Current
  <2>2. UNCHANGED objs \/ Store(o, [objs[o] EXCEPT !.owner = req])
    BY <1>4 DEF OwnImageStream, Current
  <2> QED
    BY <2>1, <2>2
<1>5. CASE ImportImageStream \/ ImageStreamFails
  <2>1. o \in ImageStreams
    BY <1>5 DEF ImportImageStream, ImageStreamFails, Current
  <2>2. UNCHANGED objs \/ \E c : Store(o, [objs[o] EXCEPT !.content = c])
    BY <1>5 DEF ImportImageStream, ImageStreamFails, Current
  <2> QED
    BY <2>1, <2>2
<1> QED
  BY <1>2, <1>3, <1>4, <1>5

\* Every pipeline and task has an owner: manifests are stored with the CR of the pass
\* (SetControllerReference in applyManifests), and what is stored without one, or
\* brought up to date as it is, is a stream (createImageStreamImport).
THEOREM ManifestsOwned == Spec => []ManifestsAreOwned
<1>1. Init => ManifestsAreOwned
  <2>1. ~Exists(Missing) /\ Manifests \subseteq Objects
    BY DEF Exists, Missing, Objects
  <2> QED
    BY <2>1 DEF Init, ManifestsAreOwned
<1>2. ASSUME TypeOK, ManifestsAreOwned, [Next]_vars
      PROVE  ManifestsAreOwned'
  <2>1. CASE UNCHANGED objs
    BY <1>2, <2>1 DEF ManifestsAreOwned, Exists
  <2>2. ASSUME NEW o \in Objects, NEW x, Store(o, x), Exists(x) => x.owner # Nobody
        PROVE  ManifestsAreOwned'
    <3>1. ASSUME NEW q \in Manifests, Exists(objs'[q])
          PROVE  objs'[q].owner # Nobody
      <4>1. objs'[q] = IF q = o THEN x ELSE objs[q]
        BY <1>2, <2>2 DEF TypeOK, Store, Objects
      <4> QED
        BY <1>2, <2>2, <3>1, <4>1 DEF ManifestsAreOwned
    <3> QED
      BY <3>1 DEF ManifestsAreOwned, Exists
  <2>3. ASSUME NEW o \in ImageStreams, NEW x, Store(o, x)
        PROVE  ManifestsAreOwned'
    <3>1. ASSUME NEW q \in Manifests
          PROVE  objs'[q] = objs[q]
      <4>1. q # o /\ q \in Objects
        BY NamespaceAssumption DEF Objects
      <4> QED
        BY <1>2, <2>3, <4>1 DEF TypeOK, Store
    <3> QED
      BY <1>2, <3>1 DEF ManifestsAreOwned, Exists
  <2>4. ASSUME NEW o \in Objects, UserDeletesObject(o) \/ GarbageCollects(o)
        PROVE  ManifestsAreOwned'
    <3>1. Store(o, Missing) /\ ~Exists(Missing)
      BY <2>4 DEF UserDeletesObject, GarbageCollects, Exists, Missing
    <3> QED
      BY <2>2, <3>1
  <2>5. CASE ApplyManifest \/ DeleteManifest
               \/ OwnImageStream \/ ImportImageStream \/ ImageStreamFails
    BY <1>2, <2>1, <2>2, <2>3, <2>5, StoredManifests
  <2>6. CASE Finish \/ Publish \/ Crash
    BY <2>1, <2>6 DEF Finish, Publish, Crash, objectVars
  <2>7. CASE \E p \in Pipelines : UserEdits(p) \/ PipelineGoes(p) \/ Start(p)
    BY <2>1, <2>7 DEF UserEdits, PipelineGoes, Start, objectVars
  <2>8. CASE (\E o \in Objects : InformerSyncs(o)) \/ UNCHANGED vars
    BY <2>1, <2>8 DEF InformerSyncs, vars, objectVars
  <2> QED
    BY <1>2, <2>4, <2>5, <2>6, <2>7, <2>8 DEF Next, Environment, Step
<1> QED
  BY NamespaceInvariant, <1>1, <1>2, PTL DEF Spec

=============================================================================
