----------------------- MODULE StatusReconcilerProofs -----------------------
(***************************************************************************)
(* Proofs about StatusReconciler, for any resources that change, any       *)
(* secrets and pipelines a user edits, and any bounds.                     *)
(***************************************************************************)
EXTENDS StatusReconciler, TLAPS

Positions == 1..12

-----------------------------------------------------------------------------
(***************************************************************************)
(* The checks                                                              *)
(***************************************************************************)

\* Every check has one place in the order.
LEMMA OrderFacts ==
  /\ Len(CheckOrder) = 12
  /\ \A i \in Positions : CheckOrder[i] \in Checks
  /\ \A i, j \in Positions : i < j => CheckOrder[i] # CheckOrder[j]
<1>1. Len(CheckOrder) = 12
  BY DEF CheckOrder
<1>2. \A i \in Positions : CheckOrder[i] \in Checks
  BY DEF CheckOrder, Positions, Checks, Secrets, PipelineChecks, ImageStreams
<1>3. \A i, j \in Positions : i < j => CheckOrder[i] # CheckOrder[j]
  BY DEF CheckOrder, Positions
<1> QED
  BY <1>1, <1>2, <1>3

\* What a condition changes of the copy that a pass works on.
LEMMA SetConditionFacts ==
  ASSUME pipeline \in OperatorPipeline, NEW c \in Checks, NEW reason \in Reasons,
         SetCondition(c, reason)
  PROVE  /\ pipeline' \in OperatorPipeline
         /\ pipeline'.generation = pipeline.generation
         /\ pipeline'.observedGeneration = pipeline.observedGeneration
         /\ pipeline'.observed = [pipeline.observed EXCEPT ![c] = pipeline.generation]
  BY DEF OperatorPipeline, SetCondition

\* A check is made, with a condition or without, at its place in the order; the pass
\* goes on to the next one only from a check that set its condition, or that is of an
\* optional secret.
LEMMA CheckFacts ==
  ASSUME TypeOK, Check
  PROVE  /\ position \in Positions
         /\ \/ UNCHANGED pipeline
            \/ \E reason \in Reasons : SetCondition(CheckOrder[position], reason)
         /\ \/ position' = CommitPosition
            \/ /\ position' = position + 1
               /\ \/ \E reason \in Reasons : SetCondition(CheckOrder[position], reason)
                  \/ UNCHANGED pipeline /\ CheckOrder[position] \notin Required
         /\ UNCHANGED <<crVars, resources, queued, fresh>>
         /\ requeue' \in BOOLEAN
         /\ disturbances' \in 0..MaxDisturbances
<1> USE DEF Checking
<1>a. \A c : At(c) => position \in Positions /\ c = CheckOrder[position]
  BY OrderFacts DEF At, Positions
<1>b. \A c : SecretReason(c) \in Reasons
  BY DEF SecretReason, Reasons
<1>c. ASSUME NEW c, NEW reason \in Reasons, At(c), Report(c, reason), Checking,
             UNCHANGED disturbances
      PROVE  /\ SetCondition(CheckOrder[position], reason)
             /\ position' = CommitPosition \/ position' = position + 1
             /\ requeue' \in BOOLEAN
             /\ disturbances' \in 0..MaxDisturbances
  BY <1>a, <1>c DEF Report, GoOn, Stop, TypeOK
<1>1. CASE CheckGitRepo
  <2>1. PICK reason \in Reasons : Report("GitRepo", reason)
    BY <1>1 DEF CheckGitRepo, Reasons
  <2> QED
    BY <1>1, <2>1, <1>a, <1>c DEF CheckGitRepo
<1>2. CASE \E c \in Secrets : CheckSecret(c)
  <2>1. PICK c \in Secrets : CheckSecret(c)
    BY <1>2
  <2> QED
    BY <2>1, <1>a, <1>b, <1>c DEF CheckSecret
<1>3. CASE \E c \in Secrets : SkipSecret(c)
  BY <1>3, <1>a DEF SkipSecret, GoOn, TypeOK, Required
<1>4. CASE \E c \in PipelineChecks : CheckPipeline(c)
  <2>1. PICK c \in PipelineChecks : CheckPipeline(c)
    BY <1>4
  <2>2. PipelineReason(c) \in Reasons
    BY DEF PipelineReason, Reasons
  <2> QED
    BY <2>1, <2>2, <1>a, <1>c DEF CheckPipeline
<1>5. CASE CheckTasks
  <2>1. TasksReason \in Reasons
    BY DEF TasksReason, Reasons
  <2> QED
    BY <1>5, <2>1, <1>a, <1>c DEF CheckTasks
<1>6. CASE \E c \in ImageStreams : CheckImageStream(c)
  <2>1. PICK c \in ImageStreams : CheckImageStream(c)
    BY <1>6
  <2>2. PICK reason \in Reasons : Report(c, reason)
    BY <2>1 DEF CheckImageStream, Reasons
  <2> QED
    BY <2>1, <2>2, <1>a, <1>c DEF CheckImageStream
<1>7. CASE \E c \in Checks : ReadFails(c)
  <2>1. PICK c \in Checks : ReadFails(c)
    BY <1>7
  <2>2. UNCHANGED pipeline \/ \E reason \in Reasons : SetCondition(c, reason)
    BY <2>1 DEF ReadFails, Reasons
  <2>3. disturbances' \in 0..MaxDisturbances
    BY <2>1, StatusAssumption DEF ReadFails, Disturb, TypeOK
  <2>4. position' = CommitPosition /\ requeue' \in BOOLEAN
    BY <2>1 DEF ReadFails, Stop
  <2> QED
    BY <2>1, <2>2, <2>3, <2>4, <1>a DEF ReadFails
<1> QED
  BY <1>1, <1>2, <1>3, <1>4, <1>5, <1>6, <1>7 DEF Check

-----------------------------------------------------------------------------
(***************************************************************************)
(* Types                                                                   *)
(***************************************************************************)

\* What the worker holds between passes is a CR without conditions.
LEMMA NoPipelineType == NoPipeline \in OperatorPipeline
  BY StatusAssumption DEF NoPipeline, OperatorPipeline, Generations, Reasons

\* What users and the API server make of the CR.
LEMMA EnvironmentType ==
  ASSUME TypeOK, Environment
  PROVE  TypeOK'
<1>1. disturbances' \in 0..MaxDisturbances
  <2>1. Disturb \/ UNCHANGED disturbances
    BY DEF Environment, UserEdits, MetadataChanges, ResourceChanges, InformerSyncs, Resync, Crash
  <2> QED
    BY <2>1, StatusAssumption DEF Disturb, TypeOK
<1>2. CASE UserEdits
  <2>1. PICK asked \in SUBSET Editable :
          StoreCR([stored EXCEPT !.generation = @ + 1, !.asked = asked])
    BY <1>2 DEF UserEdits
  <2>2. stored.generation + 1 \in Generations
    BY <1>2, StatusAssumption DEF UserEdits, TypeOK, OperatorPipeline, Generations
  <2>3. asked \in SUBSET (Optional \cup PipelineChecks)
    BY <2>1, StatusAssumption
  <2>4. stored' = [stored EXCEPT !.generation = stored.generation + 1, !.asked = asked]
    BY <2>1 DEF StoreCR
  <2>5. stored' \in OperatorPipeline
    BY <2>2, <2>3, <2>4 DEF TypeOK, OperatorPipeline
  <2> QED
    BY <1>1, <1>2, <2>1, <2>5 DEF UserEdits, StoreCR, TypeOK
<1>3. CASE MetadataChanges
  BY <1>1, <1>3 DEF MetadataChanges, StoreCR, TypeOK
<1>4. CASE ResourceChanges
  <2>1. resources' \in [Checks -> States]
    BY <1>4, StatusAssumption DEF ResourceChanges, TypeOK
  <2> QED
    BY <1>1, <1>4, <2>1 DEF ResourceChanges, TypeOK, crVars, passVars
<1>5. CASE InformerSyncs \/ Resync
  BY <1>1, <1>5 DEF InformerSyncs, Resync, TypeOK, crVars
<1>6. CASE Crash
  <2>1. position' \in 0..CommitPosition
    BY <1>6 DEF Crash, CommitPosition
  <2> QED
    BY <1>1, <1>6, <2>1, NoPipelineType DEF Crash, TypeOK
<1> QED
  BY <1>2, <1>3, <1>4, <1>5, <1>6 DEF Environment

\* The start and the end of a pass, and its checks.
LEMMA PassType ==
  ASSUME TypeOK, Pass
  PROVE  TypeOK'
<1>1. CASE BeginPass
  <2>1. [cached EXCEPT !.observedGeneration = cached.generation] \in OperatorPipeline
    BY DEF TypeOK, OperatorPipeline
  <2>2. position' \in 0..CommitPosition
    BY <1>1 DEF BeginPass, CommitPosition
  <2> QED
    BY <1>1, <2>1, <2>2 DEF BeginPass, TypeOK, crVars
<1>2. CASE Check
  <2>1. pipeline' \in OperatorPipeline
    BY <1>2, CheckFacts, SetConditionFacts, OrderFacts DEF TypeOK
  <2>2. position' \in 0..CommitPosition
    BY <1>2, CheckFacts DEF CommitPosition, Positions
  <2>3. requeue' \in BOOLEAN /\ disturbances' \in 0..MaxDisturbances
    BY <1>2, CheckFacts
  <2>4. UNCHANGED <<stored, cached, current, resources, queued, fresh>>
    BY <1>2, CheckFacts DEF crVars
  <2> QED
    BY <2>1, <2>2, <2>3, <2>4 DEF TypeOK
<1>3. CASE CommitStatus \/ CommitFails
  <2>1. disturbances' \in 0..MaxDisturbances
    BY <1>3, StatusAssumption DEF CommitStatus, CommitFails, Disturb, TypeOK
  <2>2. stored' \in OperatorPipeline /\ current' \in BOOLEAN /\ fresh' \in BOOLEAN
    BY <1>3 DEF CommitStatus, CommitFails, StoreCR, TypeOK, crVars
  <2>3. position' \in 0..CommitPosition /\ queued' \in BOOLEAN
    <3>1. position' = 0 /\ queued' = (queued \/ requeue)
      BY <1>3 DEF CommitStatus, CommitFails, EndPass
    <3>2. position' \in 0..CommitPosition
      BY <3>1 DEF CommitPosition
    <3>3. queued' \in BOOLEAN
      BY <3>1
    <3> QED
      BY <3>2, <3>3
  <2> QED
    BY <1>3, <2>1, <2>2, <2>3, NoPipelineType
       DEF CommitStatus, CommitFails, EndPass, TypeOK, crVars
<1> QED
  BY <1>1, <1>2, <1>3 DEF Pass

\* The type invariant holds at the start.
LEMMA InitType == Init => TypeOK
<1> SUFFICES ASSUME Init PROVE TypeOK
  OBVIOUS
<1>1. PICK asked \in SUBSET Editable :
        stored = [NoPipeline EXCEPT !.generation = 1, !.asked = asked]
  BY DEF Init
<1>2. stored \in OperatorPipeline
  <2>1. 1 \in Generations /\ asked \in SUBSET (Optional \cup PipelineChecks)
    BY StatusAssumption DEF Generations
  <2> QED
    BY <1>1, <2>1, NoPipelineType DEF OperatorPipeline
<1>3. resources \in [Checks -> States]
  BY DEF Init, States
<1>4. 0 \in 0..MaxDisturbances /\ 0 \in 0..CommitPosition
  BY StatusAssumption DEF CommitPosition
<1> QED
  BY <1>2, <1>3, <1>4, NoPipelineType DEF Init, TypeOK

\* The type invariant of StatusReconciler: among others, no generation that the status
\* observes is one that the bound on edits does not allow.
THEOREM StatusTypeCorrect == Spec => []TypeOK
<1>1. TypeOK /\ [Next]_vars => TypeOK'
  <2>1. TypeOK /\ UNCHANGED vars => TypeOK'
    BY DEF TypeOK, vars
  <2> QED
    BY <2>1, EnvironmentType, PassType DEF Next
<1> QED
  BY <1>1, InitType, PTL DEF Spec

-----------------------------------------------------------------------------
(***************************************************************************)
(* Generations                                                             *)
(***************************************************************************)

Descends(cr) ==
  \A i, j \in Positions :
    i < j /\ CheckOrder[i] \in Required /\ CheckOrder[j] \in Required =>
      cr.observed[CheckOrder[i]] >= cr.observed[CheckOrder[j]]

\* Nothing observes a generation that the spec has not reached.
Bounded(cr) ==
  /\ cr.observedGeneration <= cr.generation
  /\ \A c \in Checks : cr.observed[c] <= cr.generation

Sound(cr) == Descends(cr) /\ Bounded(cr)

\* The required checks before place k are of the generation of the copy.
DoneBefore(cr, k) ==
  \A i \in Positions : i < k /\ CheckOrder[i] \in Required =>
    cr.observed[CheckOrder[i]] = cr.generation

NotBehind(new, old) ==
  /\ new.observedGeneration >= old.observedGeneration
  /\ \A c \in Checks : new.observed[c] >= old.observed[c]

\* All copies of the CR descend, and one that would be stored is ahead of the store.
GenerationInv ==
  /\ Sound(stored) /\ Sound(cached) /\ Sound(pipeline)
  /\ current => cached = stored
  /\ position \in Positions => DoneBefore(pipeline, position)
  /\ fresh => NotBehind(pipeline, stored)

\* A condition set at its place in the order leaves the copy sound and no older.
LEMMA SetConditionKeeps ==
  ASSUME pipeline \in OperatorPipeline, position \in Positions, Sound(pipeline),
         DoneBefore(pipeline, position),
         NEW reason \in Reasons, SetCondition(CheckOrder[position], reason)
  PROVE  /\ Sound(pipeline')
         /\ DoneBefore(pipeline', position + 1)
         /\ NotBehind(pipeline', pipeline)
<1>1. /\ pipeline' \in OperatorPipeline
      /\ pipeline'.generation = pipeline.generation
      /\ pipeline'.observedGeneration = pipeline.observedGeneration
      /\ pipeline'.observed = [pipeline.observed EXCEPT ![CheckOrder[position]] = pipeline.generation]
  BY SetConditionFacts, OrderFacts
<1>2. /\ pipeline.generation \in Nat /\ pipeline.observedGeneration \in Nat
      /\ pipeline.observed \in [Checks -> Nat]
  BY StatusAssumption DEF OperatorPipeline, Generations
<1>3. Bounded(pipeline')
  BY <1>1, <1>2 DEF Bounded, Sound
<1>4. NotBehind(pipeline', pipeline)
  BY <1>1, <1>2 DEF Bounded, Sound, NotBehind
<1>5. DoneBefore(pipeline', position + 1)
  <2> SUFFICES ASSUME NEW i \in Positions, i < position + 1, CheckOrder[i] \in Required
               PROVE  pipeline'.observed[CheckOrder[i]] = pipeline.generation
    BY <1>1 DEF DoneBefore
  <2>1. CASE i = position
    BY <1>1, <1>2, <2>1, OrderFacts
  <2>2. CASE i < position
    <3>1. pipeline.observed[CheckOrder[i]] = pipeline.generation
      BY <2>2 DEF DoneBefore
    <3>2. CheckOrder[i] # CheckOrder[position]
      BY <2>2, OrderFacts
    <3> QED
      BY <1>1, <1>2, <3>1, <3>2, OrderFacts
  <2> QED
    BY <2>1, <2>2 DEF Positions
<1>6. Descends(pipeline')
  <2> SUFFICES ASSUME NEW i \in Positions, NEW j \in Positions, i < j,
                      CheckOrder[i] \in Required, CheckOrder[j] \in Required
               PROVE  pipeline'.observed[CheckOrder[i]] >= pipeline'.observed[CheckOrder[j]]
    BY DEF Descends
  <2>0. CheckOrder[i] \in Checks /\ CheckOrder[j] \in Checks
    BY OrderFacts
  <2>1. CASE i < position + 1
    <3>1. pipeline'.observed[CheckOrder[i]] = pipeline'.generation
      BY <1>5, <2>1 DEF DoneBefore
    <3> QED
      BY <1>1, <1>2, <1>3, <2>0, <3>1 DEF Bounded
  <2>2. CASE ~(i < position + 1)
    <3>1. CheckOrder[i] # CheckOrder[position] /\ CheckOrder[j] # CheckOrder[position]
      BY <2>2, OrderFacts DEF Positions
    <3>2. pipeline.observed[CheckOrder[i]] >= pipeline.observed[CheckOrder[j]]
      BY DEF Sound, Descends
    <3> QED
      BY <1>1, <1>2, <2>0, <3>1, <3>2
  <2> QED
    BY <2>1, <2>2
<1> QED
  BY <1>3, <1>4, <1>5, <1>6 DEF Sound

\* Being ahead of a copy that is ahead.
LEMMA NotBehindTransitive ==
  ASSUME NEW a \in OperatorPipeline, NEW b \in OperatorPipeline, NEW c \in OperatorPipeline,
         NotBehind(a, b), NotBehind(b, c)
  PROVE  NotBehind(a, c)
<1>1. \A cr \in OperatorPipeline :
        cr.observedGeneration \in Nat /\ cr.observed \in [Checks -> Nat]
  BY StatusAssumption DEF OperatorPipeline, Generations
<1> QED
  BY <1>1 DEF NotBehind

\* A CR without conditions.
LEMMA NoPipelineSound == Sound(NoPipeline)
  BY OrderFacts DEF Sound, Descends, Bounded, NoPipeline, Positions

\* Users write only the spec, whose generation grows.
LEMMA EnvironmentKeepsGenerations ==
  ASSUME TypeOK, GenerationInv, Environment
  PROVE  GenerationInv' /\ NotBehind(stored', stored)
<1>1. \A cr \in OperatorPipeline : NotBehind(cr, cr)
  BY StatusAssumption DEF OperatorPipeline, Generations, NotBehind
<1>2. CASE UserEdits
  <2>1. PICK asked \in SUBSET Editable :
          StoreCR([stored EXCEPT !.generation = @ + 1, !.asked = asked])
    BY <1>2 DEF UserEdits
  <2>2. /\ stored'.generation = stored.generation + 1
        /\ stored'.observedGeneration = stored.observedGeneration
        /\ stored'.observed = stored.observed
    BY <2>1 DEF StoreCR, TypeOK, OperatorPipeline
  <2>3. /\ stored.generation \in Nat /\ stored.observedGeneration \in Nat
        /\ stored.observed \in [Checks -> Nat]
    BY StatusAssumption DEF TypeOK, OperatorPipeline, Generations
  <2>4. Sound(stored') /\ NotBehind(stored', stored)
    BY <2>2, <2>3 DEF GenerationInv, Sound, Descends, Bounded, NotBehind
  <2> QED
    BY <1>2, <2>1, <2>4 DEF UserEdits, StoreCR, GenerationInv
<1>3. CASE MetadataChanges
  BY <1>1, <1>3 DEF MetadataChanges, StoreCR, GenerationInv, TypeOK
<1>4. CASE ResourceChanges \/ InformerSyncs \/ Resync
  BY <1>1, <1>4 DEF ResourceChanges, InformerSyncs, Resync, GenerationInv, TypeOK,
                    crVars, passVars
<1>5. CASE Crash
  <2>1. position' \notin Positions
    BY <1>5 DEF Crash, Positions
  <2> QED
    BY <1>1, <1>5, <2>1, NoPipelineSound DEF Crash, GenerationInv, TypeOK
<1> QED
  BY <1>2, <1>3, <1>4, <1>5 DEF Environment

\* A pass starts from a sound copy, and stores only one that the store has not overtaken.
LEMMA PassKeepsGenerations ==
  ASSUME TypeOK, TypeOK', GenerationInv, Pass
  PROVE  GenerationInv' /\ NotBehind(stored', stored)
<1>1. \A cr \in OperatorPipeline : NotBehind(cr, cr)
  BY StatusAssumption DEF OperatorPipeline, Generations, NotBehind
<1>2. CASE BeginPass
  <2>1. /\ pipeline'.generation = cached.generation
        /\ pipeline'.observedGeneration = cached.generation
        /\ pipeline'.observed = cached.observed
    BY <1>2 DEF BeginPass, TypeOK, OperatorPipeline
  <2>2. /\ cached.generation \in Nat /\ cached.observedGeneration \in Nat
        /\ cached.observed \in [Checks -> Nat]
    BY StatusAssumption DEF TypeOK, OperatorPipeline, Generations
  <2>3. Sound(pipeline') /\ NotBehind(pipeline', cached)
    BY <2>1, <2>2 DEF GenerationInv, Sound, Descends, Bounded, NotBehind
  <2>4. DoneBefore(pipeline', position')
    BY <1>2 DEF BeginPass, DoneBefore, Positions
  <2> QED
    BY <1>1, <1>2, <2>3, <2>4 DEF BeginPass, GenerationInv, TypeOK, crVars
<1>3. CASE Check
  <2>1. UNCHANGED <<stored, cached, current, fresh>>
    BY <1>3, CheckFacts DEF crVars
  <2>2. position \in Positions /\ DoneBefore(pipeline, position)
    BY <1>3, CheckFacts DEF GenerationInv
  <2>3. Sound(pipeline') /\ NotBehind(pipeline', pipeline)
    <3>1. CASE UNCHANGED pipeline
      BY <1>1, <3>1 DEF GenerationInv, TypeOK
    <3>2. CASE \E reason \in Reasons : SetCondition(CheckOrder[position], reason)
      BY <2>2, <3>2, SetConditionKeeps DEF GenerationInv, TypeOK
    <3> QED
      BY <1>3, <3>1, <3>2, CheckFacts
  <2>4. ASSUME position' \in Positions
        PROVE  DoneBefore(pipeline', position')
    <3>1. position' = position + 1
      BY <1>3, <2>4, CheckFacts DEF CommitPosition, Positions
    <3>2. CASE \E reason \in Reasons : SetCondition(CheckOrder[position], reason)
      BY <2>2, <3>1, <3>2, SetConditionKeeps DEF GenerationInv, TypeOK
    <3>3. CASE UNCHANGED pipeline /\ CheckOrder[position] \notin Required
      BY <2>2, <3>1, <3>3 DEF DoneBefore, Positions
    <3> QED
      BY <1>3, <2>4, <3>2, <3>3, CheckFacts DEF CommitPosition, Positions
  <2>5. fresh' => NotBehind(pipeline', stored')
    BY <2>1, <2>3, NotBehindTransitive DEF GenerationInv, TypeOK
  <2> QED
    BY <1>1, <2>1, <2>3, <2>4, <2>5 DEF GenerationInv, TypeOK
<1>4. CASE CommitStatus \/ CommitFails
  <2>1. position' \notin Positions
    BY <1>4 DEF CommitStatus, CommitFails, EndPass, Positions
  <2> QED
    BY <1>1, <1>4, <2>1, NoPipelineSound
       DEF CommitStatus, CommitFails, EndPass, StoreCR, GenerationInv, TypeOK, crVars
<1> QED
  BY <1>2, <1>3, <1>4 DEF Pass

\* It holds at the start.
LEMMA InitGenerations == Init => GenerationInv
<1> SUFFICES ASSUME Init PROVE GenerationInv
  OBVIOUS
<1>1. PICK asked \in SUBSET Editable :
        stored = [NoPipeline EXCEPT !.generation = 1, !.asked = asked]
  BY DEF Init
<1>2. Sound(stored)
  BY <1>1, OrderFacts DEF Sound, Descends, Bounded, NoPipeline, Positions
<1>3. position \notin Positions
  BY DEF Init, Positions
<1> QED
  BY <1>2, <1>3, NoPipelineSound DEF Init, GenerationInv

\* The inductive invariant behind the next two theorems: passes over old copies,
\* conflicts, early returns and crashes leave every copy of the CR sound.
THEOREM GenerationsSound == Spec => []GenerationInv
<1>1. TypeOK /\ TypeOK' /\ GenerationInv /\ [Next]_vars => GenerationInv'
  <2>1. GenerationInv /\ UNCHANGED vars => GenerationInv'
    BY DEF GenerationInv, vars
  <2> QED
    BY <2>1, EnvironmentKeepsGenerations, PassKeepsGenerations DEF Next
<1> QED
  BY <1>1, InitGenerations, StatusTypeCorrect, PTL DEF Spec

\* The observed generations of the stored required conditions never increase along the
\* order of the checks.
THEOREM StoredGenerationsDescend == Spec => []GenerationsDescend
<1>1. GenerationInv => GenerationsDescend
  BY OrderFacts DEF GenerationInv, Sound, Descends, GenerationsDescend, Positions
<1> QED
  BY <1>1, GenerationsSound, PTL

\* No write takes the status back to an older generation.
THEOREM StoredGenerationsAdvance == Spec => GenerationsAdvance
<1> DEFINE Advance ==
      /\ stored'.observedGeneration >= stored.observedGeneration
      /\ \A c \in Checks : stored'.observed[c] >= stored.observed[c]
<1>1. TypeOK /\ TypeOK' /\ GenerationInv /\ [Next]_vars => [Advance]_stored
  <2>1. UNCHANGED vars => UNCHANGED stored
    BY DEF vars
  <2> QED
    BY <2>1, EnvironmentKeepsGenerations, PassKeepsGenerations DEF Next, NotBehind
<1> QED
  BY <1>1, GenerationsSound, StatusTypeCorrect, PTL DEF Spec, GenerationsAdvance

-----------------------------------------------------------------------------
(***************************************************************************)
(* Retries                                                                 *)
(***************************************************************************)

Passing == 1..CommitPosition

\* The required checks before place k are True and of the generation of the copy.
GoodBefore(cr, k) ==
  \A i \in Positions : i < k /\ CheckOrder[i] \in Required =>
    /\ cr.reason[CheckOrder[i]] = "AsExpected"
    /\ cr.observed[CheckOrder[i]] = cr.generation

\* A pass that asks for no requeue has found nothing wrong so far, and one whose
\* commit will conflict has a watch event on its way or delivered.
RetryInv ==
  /\ FailureIsRetried
  /\ position \in Passing /\ ~requeue => GoodBefore(pipeline, position)
  /\ position \in Passing /\ ~fresh => queued \/ ~current

\* No required check is missing from the order.
LEMMA OrderIsComplete == \A c \in Checks : \E i \in Positions : CheckOrder[i] = c
<1>1. /\ 1 \in Positions /\ 2 \in Positions /\ 3 \in Positions /\ 4 \in Positions
      /\ 5 \in Positions /\ 6 \in Positions /\ 7 \in Positions /\ 8 \in Positions
      /\ 9 \in Positions /\ 10 \in Positions /\ 11 \in Positions /\ 12 \in Positions
  BY DEF Positions
<1>2. /\ CheckOrder[1] = "GitRepo" /\ CheckOrder[2] = "KubeconfigSecret"
      /\ CheckOrder[3] = "GithubApiSecret" /\ CheckOrder[4] = "GithubSSHSecret"
      /\ CheckOrder[5] = "PyxisApiSecret" /\ CheckOrder[6] = "DockerRegistrySecret"
      /\ CheckOrder[7] = "CIPipeline" /\ CheckOrder[8] = "HostedPipeline"
      /\ CheckOrder[9] = "ReleasePipeline" /\ CheckOrder[10] = "Tasks"
      /\ CheckOrder[11] = "CertifiedIndex" /\ CheckOrder[12] = "MarketplaceIndex"
  BY DEF CheckOrder
<1> QED
  BY <1>1, <1>2 DEF Checks, Secrets, PipelineChecks, ImageStreams

\* A check stops the pass, or goes on from a condition that is True, or from an
\* optional secret that is not asked for.
LEMMA CheckOutcome ==
  ASSUME TypeOK, Check
  PROVE  \/ Stop
         \/ GoOn /\ SetCondition(CheckOrder[position], "AsExpected")
         \/ GoOn /\ UNCHANGED pipeline /\ CheckOrder[position] \notin Required
<1>a. \A c : At(c) => c = CheckOrder[position]
  BY DEF At
<1>b. ASSUME NEW c, NEW reason, At(c), Report(c, reason)
      PROVE  Stop \/ (GoOn /\ SetCondition(CheckOrder[position], "AsExpected"))
  BY <1>a, <1>b DEF Report
<1>1. CASE CheckGitRepo \/ CheckTasks
  BY <1>1, <1>b DEF CheckGitRepo, CheckTasks
<1>2. CASE \E c \in Secrets : CheckSecret(c)
  BY <1>2, <1>b DEF CheckSecret
<1>3. CASE \E c \in Secrets : SkipSecret(c)
  BY <1>3, <1>a DEF SkipSecret, Required
<1>4. CASE \E c \in PipelineChecks : CheckPipeline(c)
  BY <1>4, <1>b DEF CheckPipeline
<1>5. CASE \E c \in ImageStreams : CheckImageStream(c)
  BY <1>5, <1>b DEF CheckImageStream
<1>6. CASE \E c \in Checks : ReadFails(c)
  BY <1>6 DEF ReadFails
<1> QED
  BY <1>1, <1>2, <1>3, <1>4, <1>5, <1>6 DEF Check

\* What happens outside of a pass queues the CR, or leaves a watch event on its way.
LEMMA EnvironmentKeepsRetries ==
  ASSUME TypeOK, RetryInv, Environment
  PROVE  RetryInv'
<1> USE DEF RetryInv, FailureIsRetried, Settled
<1>1. CASE UserEdits \/ MetadataChanges
  BY <1>1 DEF UserEdits, MetadataChanges, StoreCR
<1>2. CASE ResourceChanges
  BY <1>2 DEF ResourceChanges, crVars, passVars
<1>3. CASE InformerSyncs \/ Resync
  BY <1>3 DEF InformerSyncs, Resync, crVars
<1>4. CASE Crash
  <2>1. position' = 0 /\ position' \notin Passing
    BY <1>4 DEF Crash, Passing
  <2> QED
    BY <1>4, <2>1 DEF Crash
<1> QED
  BY <1>1, <1>2, <1>3, <1>4 DEF Environment

\* A pass that finds something wrong queues the CR; one that does not has found every
\* required check good, and stores that, or conflicts with what will queue the CR.
LEMMA PassKeepsRetries ==
  ASSUME ~CommitsFail, TypeOK, GenerationInv, RetryInv, Pass
  PROVE  RetryInv'
<1>1. CASE BeginPass
  <2>1. position' = 1 /\ fresh' = current /\ UNCHANGED current
    BY <1>1 DEF BeginPass, crVars
  <2>2. GoodBefore(pipeline, position)'
    BY <2>1 DEF GoodBefore, Positions
  <2>3. position' # 0
    BY <2>1
  <2> QED
    BY <2>1, <2>2, <2>3 DEF RetryInv, FailureIsRetried, Settled
<1>2. CASE Check
  <2>1. /\ position \in Positions /\ UNCHANGED <<current, queued, fresh>>
        /\ pipeline \in OperatorPipeline
    BY <1>2, CheckFacts DEF crVars, TypeOK
  <2>2. position \in Passing /\ position' # 0
    BY <1>2, <2>1, CheckFacts DEF Positions, Passing, CommitPosition
  <2>3. ASSUME ~requeue'
        PROVE  GoodBefore(pipeline, position)'
    <3>1. GoOn /\ position' = position + 1 /\ ~requeue
      <4>1. ~Stop
        BY <2>3 DEF Stop
      <4>2. GoOn
        BY <1>2, <4>1, CheckOutcome
      <4>3. UNCHANGED requeue
        BY <4>2 DEF GoOn
      <4> QED
        BY <2>3, <4>2, <4>3 DEF GoOn
    <3>2. GoodBefore(pipeline, position)
      BY <2>2, <3>1 DEF RetryInv
    <3>3. CASE SetCondition(CheckOrder[position], "AsExpected")
      <4>1. /\ pipeline'.generation = pipeline.generation
            /\ pipeline'.reason = [pipeline.reason EXCEPT ![CheckOrder[position]] = "AsExpected"]
            /\ pipeline'.observed
                 = [pipeline.observed EXCEPT ![CheckOrder[position]] = pipeline.generation]
            /\ pipeline.reason \in [Checks -> Reasons]
            /\ pipeline.observed \in [Checks -> Generations]
        BY <2>1, <3>3 DEF SetCondition, OperatorPipeline
      <4> SUFFICES ASSUME NEW i \in Positions, i < position + 1, CheckOrder[i] \in Required
                   PROVE  /\ pipeline'.reason[CheckOrder[i]] = "AsExpected"
                          /\ pipeline'.observed[CheckOrder[i]] = pipeline'.generation
        BY <3>1 DEF GoodBefore
      <4>2. CASE i = position
        BY <4>1, <4>2, OrderFacts
      <4>3. CASE i < position
        <5>1. CheckOrder[i] # CheckOrder[position] /\ CheckOrder[i] \in Checks
          BY <2>1, <4>3, OrderFacts
        <5>2. /\ pipeline.reason[CheckOrder[i]] = "AsExpected"
              /\ pipeline.observed[CheckOrder[i]] = pipeline.generation
          BY <3>2, <4>3 DEF GoodBefore
        <5> QED
          BY <4>1, <5>1, <5>2
      <4> QED
        BY <2>1, <4>2, <4>3 DEF Positions
    <3>4. CASE UNCHANGED pipeline /\ CheckOrder[position] \notin Required
      BY <2>1, <3>1, <3>2, <3>4 DEF GoodBefore, Positions
    <3>5. ~Stop
      BY <2>3 DEF Stop
    <3> QED
      BY <1>2, <3>3, <3>4, <3>5, CheckOutcome
  <2> QED
    BY <2>1, <2>2, <2>3 DEF RetryInv, FailureIsRetried, Settled
<1>3. CASE CommitStatus
  <2>1. position = CommitPosition /\ position \in Passing /\ position' = 0
        /\ position' \notin Passing
    BY <1>3 DEF CommitStatus, EndPass, Passing, CommitPosition
  <2>2. ASSUME ~queued', current'
        PROVE  \A c \in Required :
                 stored'.reason[c] = "AsExpected" /\ stored'.observed[c] = stored'.generation
    <3>1. ~queued /\ ~requeue
      BY <1>3, <2>2 DEF CommitStatus, EndPass
    <3>2. UNCHANGED <<stored, current>> /\ (fresh => pipeline = stored)
      BY <1>3, <2>2 DEF CommitStatus, StoreCR
    <3>3. pipeline = stored
      BY <2>1, <2>2, <3>1, <3>2 DEF RetryInv
    <3>4. GoodBefore(stored, CommitPosition)
      BY <2>1, <3>1, <3>3 DEF RetryInv
    <3>5. ASSUME NEW c \in Required
          PROVE  stored.reason[c] = "AsExpected" /\ stored.observed[c] = stored.generation
      <4>1. PICK i \in Positions : CheckOrder[i] = c
        BY OrderIsComplete DEF Required
      <4>2. i < CommitPosition
        BY DEF Positions, CommitPosition
      <4> QED
        BY <3>4, <4>1, <4>2 DEF GoodBefore
    <3> QED
      BY <3>2, <3>5
  <2> QED
    BY <2>1, <2>2 DEF RetryInv, FailureIsRetried, Settled
<1>4. CASE CommitFails
  BY <1>4 DEF CommitFails
<1> QED
  BY <1>1, <1>2, <1>3, <1>4 DEF Pass

\* As long as no status update fails for another reason than a conflict: once nothing
\* is queued, running or on its way, every required condition is True and of the
\* present generation, so that a failure that the status reports is being retried.
THEOREM FailuresAreRetried ==
  ASSUME ~CommitsFail
  PROVE  Spec => []FailureIsRetried
<1>1. Init => RetryInv
  BY DEF Init, RetryInv, FailureIsRetried, Settled, Passing
<1>2. TypeOK /\ GenerationInv /\ RetryInv /\ [Next]_vars => RetryInv'
  <2>1. RetryInv /\ UNCHANGED vars => RetryInv'
    BY DEF RetryInv, FailureIsRetried, Settled, GoodBefore, vars
  <2> QED
    BY <2>1, EnvironmentKeepsRetries, PassKeepsRetries DEF Next
<1>3. RetryInv => FailureIsRetried
  BY DEF RetryInv
<1> QED
  BY <1>1, <1>2, <1>3, StatusTypeCorrect, GenerationsSound, PTL DEF Spec

=============================================================================
