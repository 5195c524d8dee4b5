-------------------------- MODULE StatusReconciler --------------------------
(***************************************************************************)
(* StatusReconciler.Reconcile: the conditions of one OperatorPipeline.     *)
(*                                                                         *)
(* A pass starts from the cached CR, makes its checks in a fixed order,    *)
(* stops at the first that fails, and in any case writes the status back,  *)
(* which the API server rejects if the CR has changed meanwhile. Each      *)
(* check reads its resource when its turn comes, so resources change       *)
(* between the checks of a pass. The conditions of the checks a pass does  *)
(* not reach stay as an earlier pass left them.                            *)
(***************************************************************************)
EXTENDS Integers, Sequences

CONSTANTS
  Volatile,          \* the checks whose resources change during a run
  Editable,          \* the optional secrets and pipelines a user asks for or not
  MaxGeneration,     \* bound on the generations of the spec
  MaxDisturbances,   \* bound on resource changes, failed reads, crashes and
                     \* writes of others to the CR, together
  CommitsFail        \* TRUE: a status update may fail though nothing changed

Secrets == {"KubeconfigSecret", "GithubApiSecret", "GithubSSHSecret",
            "PyxisApiSecret", "DockerRegistrySecret"}
PipelineChecks == {"CIPipeline", "HostedPipeline", "ReleasePipeline"}
ImageStreams   == {"CertifiedIndex", "MarketplaceIndex"}
Checks == {"GitRepo", "Tasks"} \cup Secrets \cup PipelineChecks \cup ImageStreams

\* Secrets that are checked only if the spec names them.
Optional == {"GithubSSHSecret", "DockerRegistrySecret"}
Required == Checks \ Optional

CheckOrder ==
  <<"GitRepo", "KubeconfigSecret", "GithubApiSecret", "GithubSSHSecret",
    "PyxisApiSecret", "DockerRegistrySecret", "CIPipeline", "HostedPipeline",
    "ReleasePipeline", "Tasks", "CertifiedIndex", "MarketplaceIndex">>

CommitPosition == 13

ASSUME StatusAssumption ==
  /\ Volatile \subseteq Checks
  /\ Editable \subseteq Optional \cup PipelineChecks
  /\ MaxGeneration \in Nat \ {0}
  /\ MaxDisturbances \in Nat
  /\ CommitsFail \in BOOLEAN

VARIABLES
  stored,       \* the OperatorPipeline in the API server
  cached,       \* the informer's copy of it
  current,      \* the informer's copy has the stored resourceVersion
  resources,    \* what each check would find
  queued,       \* the CR waits in the work queue
  position,     \* the next check of the pass, 0 when no pass runs
  pipeline,     \* the copy the pass works on
  fresh,        \* that copy has the stored resourceVersion
  requeue,      \* a check of the pass failed
  disturbances

crVars   == <<stored, cached, current>>
passVars == <<queued, position, pipeline, fresh, requeue>>
vars == <<stored, cached, current, resources, queued, position, pipeline,
          fresh, requeue, disturbances>>

Generations == 0..MaxGeneration

\* A condition is True iff its reason is AsExpected; "none" is a condition that
\* was never set.
Reasons == {"none", "AsExpected", "NotFound", "Invalid", "KeyNotFound", "KeyDataInvalid"}

OperatorPipeline ==
  [generation         : Generations,
   asked              : SUBSET (Optional \cup PipelineChecks),
   observedGeneration : Generations,
   reason             : [Checks -> Reasons],
   observed           : [Checks -> Generations]]

\* No CR: what the worker holds between passes.
NoPipeline ==
  [generation         |-> 0,
   asked              |-> {},
   observedGeneration |-> 0,
   reason             |-> [c \in Checks |-> "none"],
   observed           |-> [c \in Checks |-> 0]]

States == {"ok", "missing", "invalid"}

TypeOK ==
  /\ stored \in OperatorPipeline
  /\ cached \in OperatorPipeline
  /\ current \in BOOLEAN
  /\ resources \in [Checks -> States]
  /\ queued \in BOOLEAN
  /\ position \in 0..CommitPosition
  /\ pipeline \in OperatorPipeline
  /\ fresh \in BOOLEAN
  /\ requeue \in BOOLEAN
  /\ disturbances \in 0..MaxDisturbances

\* The CR has just been created and the informer has delivered it.
Init ==
  /\ \E asked \in SUBSET Editable :
       stored = [NoPipeline EXCEPT !.generation = 1, !.asked = asked]
  /\ cached = stored
  /\ current = TRUE
  /\ \E missing \in SUBSET Volatile :
       resources = [c \in Checks |-> IF c \in missing THEN "missing" ELSE "ok"]
  /\ queued = TRUE
  /\ position = 0
  /\ pipeline = NoPipeline
  /\ fresh = FALSE
  /\ requeue = FALSE
  /\ disturbances = 0

-----------------------------------------------------------------------------
(***************************************************************************)
(* The cluster                                                             *)
(***************************************************************************)

Disturb ==
  /\ disturbances < MaxDisturbances
  /\ disturbances' = disturbances + 1

StoreCR(cr) ==
  /\ stored' = cr
  /\ current' = FALSE
  /\ fresh' = FALSE

\* A new spec is a new generation. One that names another secret is an edit
\* followed by a change of what the check finds.
UserEdits ==
  /\ stored.generation < MaxGeneration
  /\ \E asked \in SUBSET Editable :
       StoreCR([stored EXCEPT !.generation = @ + 1, !.asked = asked])
  /\ UNCHANGED <<cached, resources, queued, position, pipeline, requeue, disturbances>>

\* The finalizer, or any write to the metadata: a new resourceVersion only.
MetadataChanges ==
  /\ Disturb
  /\ StoreCR(stored)
  /\ UNCHANGED <<cached, resources, queued, position, pipeline, requeue>>

\* Secrets of users and resources that the CR does not own: no event follows.
ResourceChanges ==
  /\ Disturb
  /\ \E c \in Volatile, s \in States : resources' = [resources EXCEPT ![c] = s]
  /\ UNCHANGED <<crVars, passVars>>

InformerSyncs ==
  /\ ~current
  /\ cached' = stored
  /\ current' = TRUE
  /\ queued' = TRUE
  /\ UNCHANGED <<stored, resources, position, pipeline, fresh, requeue, disturbances>>

Resync ==
  /\ queued' = TRUE
  /\ UNCHANGED <<crVars, resources, position, pipeline, fresh, requeue, disturbances>>

Crash ==
  /\ Disturb
  /\ cached' = stored
  /\ current' = TRUE
  /\ queued' = TRUE
  /\ position' = 0
  /\ pipeline' = NoPipeline
  /\ fresh' = FALSE
  /\ requeue' = FALSE
  /\ UNCHANGED <<stored, resources>>

-----------------------------------------------------------------------------
(***************************************************************************)
(* One pass                                                                *)
(***************************************************************************)

\* Mutant of BeginPass: the generation that the write will make is announced.
BeginPassAhead ==
  /\ position = 0
  /\ queued
  /\ queued' = FALSE
  /\ position' = 1
  /\ pipeline' = [cached EXCEPT !.observedGeneration = cached.generation + 1]
  /\ fresh' = current
  /\ requeue' = FALSE
  /\ UNCHANGED <<crVars, resources, disturbances>>

\* The pass works on a copy of what the cache has. observedGeneration is set
\* before any check is made.
BeginPass ==
  /\ position = 0
  /\ queued
  /\ queued' = FALSE
  /\ position' = 1
  /\ pipeline' = [cached EXCEPT !.observedGeneration = cached.generation]
  /\ fresh' = current
  /\ requeue' = FALSE
  /\ UNCHANGED <<crVars, resources, disturbances>>

\* Mutant of SetCondition: a condition that keeps its reason is left alone.
SetChangedCondition(c, reason) ==
  pipeline' = IF pipeline.reason[c] = reason THEN pipeline
              ELSE [pipeline EXCEPT !.reason[c] = reason,
                                    !.observed[c] = pipeline.generation]

\* meta.SetStatusCondition with the generation of the pass.
SetCondition(c, reason) ==
  pipeline' = [pipeline EXCEPT !.reason[c] = reason,
                               !.observed[c] = pipeline.generation]

\* Mutant of Stop: the failure is in the status, but not in the result.
StopQuietly == position' = CommitPosition /\ UNCHANGED requeue

\* The pass goes on, or stops and asks for a requeue; both end in the commit.
GoOn == position' = position + 1 /\ UNCHANGED requeue
Stop == position' = CommitPosition /\ requeue' = TRUE

\* Mutant of Report: a check that fails does not end the pass.
ReportGoesOn(c, reason) ==
  /\ SetCondition(c, reason)
  /\ position' = position + 1
  /\ requeue' = (requeue \/ reason # "AsExpected")

Report(c, reason) ==
  /\ SetCondition(c, reason)
  /\ IF reason = "AsExpected" THEN GoOn ELSE Stop

At(c) == position \in 1..Len(CheckOrder) /\ CheckOrder[position] = c

Checking == UNCHANGED <<crVars, resources, queued, fresh>>

\* reconcilePipelineGitRepoStatus.
CheckGitRepo ==
  /\ At("GitRepo")
  /\ Report("GitRepo", CASE resources["GitRepo"] = "missing" -> "NotFound"
                         [] resources["GitRepo"] = "invalid" -> "Invalid"
                         [] OTHER -> "AsExpected")
  /\ Checking /\ UNCHANGED disturbances

\* reconcileSecretStatus. The Data of a secret that was not found is empty, so
\* its key is found missing before the secret is.
SecretReason(state) ==
  CASE state = "missing" -> "KeyNotFound"
    [] state = "invalid" -> "KeyDataInvalid"
    [] OTHER -> "AsExpected"

CheckSecret(c) ==
  /\ At(c)
  /\ c \in Optional => c \in pipeline.asked
  /\ Report(c, SecretReason(resources[c]))
  /\ Checking /\ UNCHANGED disturbances

\* An optional secret that the spec does not name is not looked at.
SkipSecret(c) ==
  /\ At(c)
  /\ c \in Optional /\ c \notin pipeline.asked
  /\ GoOn
  /\ Checking /\ UNCHANGED <<pipeline, disturbances>>

\* reconcilePipelineStatus.
PipelineReason(c) ==
  CASE c \notin pipeline.asked          -> "AsExpected"
    [] resources["GitRepo"] = "missing" -> "NotFound"
    [] resources[c] = "invalid"         -> "Invalid"
    [] resources[c] = "missing"         -> "NotFound"
    [] OTHER                            -> "AsExpected"

CheckPipeline(c) ==
  /\ At(c)
  /\ Report(c, PipelineReason(c))
  /\ Checking /\ UNCHANGED disturbances

\* reconcileTasksStatus. The names of the tasks that are not found are collected
\* but not looked at: the test that should is made on unmarshalErrors.
TasksReason ==
  CASE resources["GitRepo"] = "missing" -> "NotFound"
    [] resources["Tasks"] = "invalid"   -> "Invalid"
    [] OTHER                            -> "AsExpected"

CheckTasks ==
  /\ At("Tasks")
  /\ Report("Tasks", TasksReason)
  /\ Checking /\ UNCHANGED disturbances

\* reconcileImageStreamStatus.
CheckImageStream(c) ==
  /\ At(c)
  /\ Report(c, IF resources[c] = "missing" THEN "NotFound" ELSE "AsExpected")
  /\ Checking /\ UNCHANGED disturbances

\* Mutant of ReadFails: the pass goes on to the next check.
ReadFailsGoesOn(c) ==
  /\ At(c)
  /\ Disturb
  /\ GoOn
  /\ Checking /\ UNCHANGED pipeline

\* A read fails: of a secret or an image stream, which sets no condition; of the
\* YAML or the object of a pipeline; or of the YAML of a task.
ReadFails(c) ==
  /\ At(c)
  /\ Disturb
  /\ Stop
  /\ \/ /\ c \in Secrets \cup ImageStreams
        /\ c \in Optional => c \in pipeline.asked
        /\ UNCHANGED pipeline
     \/ /\ c \in PipelineChecks \cap pipeline.asked
        /\ \E reason \in {"Invalid", "NotFound"} : SetCondition(c, reason)
     \/ c = "Tasks" /\ SetCondition(c, "NotFound")
  /\ Checking

EndPass ==
  /\ position = CommitPosition
  /\ position' = 0
  /\ queued' = (queued \/ requeue)
  /\ pipeline' = NoPipeline
  /\ requeue' = FALSE

\* Mutant of CommitStatus: the update does not carry a resourceVersion.
CommitStatusBlindly ==
  /\ EndPass
  /\ StoreCR([pipeline EXCEPT !.generation = stored.generation, !.asked = stored.asked])
  /\ UNCHANGED <<cached, resources, disturbances>>

\* commitStatus, run when Reconcile returns. An update that changes nothing makes
\* no new version; a conflict is only logged, and so is any other error.
CommitStatus ==
  /\ EndPass
  /\ IF fresh /\ pipeline # stored
     THEN StoreCR(pipeline)
     ELSE fresh' = FALSE /\ UNCHANGED <<stored, current>>
  /\ UNCHANGED <<cached, resources, disturbances>>

CommitFails ==
  /\ CommitsFail
  /\ Disturb
  /\ EndPass
  /\ fresh' = FALSE
  /\ UNCHANGED <<crVars, resources>>

-----------------------------------------------------------------------------
Environment ==
  \/ UserEdits \/ MetadataChanges \/ ResourceChanges
  \/ InformerSyncs \/ Resync \/ Crash

Check ==
  \/ CheckGitRepo
  \/ \E c \in Secrets : CheckSecret(c) \/ SkipSecret(c)
  \/ \E c \in PipelineChecks : CheckPipeline(c)
  \/ CheckTasks
  \/ \E c \in ImageStreams : CheckImageStream(c)
  \/ \E c \in Checks : ReadFails(c)

Pass == BeginPass \/ Check \/ CommitStatus \/ CommitFails

Next == Environment \/ Pass

Spec == Init /\ [][Next]_vars

\* The work queue hands out what is queued, a pass runs to its end, and the
\* informer delivers and resyncs.
FairSpec == Spec /\ WF_vars(Pass) /\ WF_vars(InformerSyncs) /\ WF_vars(Resync)

-----------------------------------------------------------------------------
(***************************************************************************)
(* Properties                                                              *)
(***************************************************************************)

\* Later checks are never more recent than earlier ones: the observedGeneration
\* of a required condition is at most that of every required condition checked
\* before it, so a reader who finds the last one at the generation of the spec
\* knows that all of them were made for it (the order of Reconcile).
GenerationsDescend ==
  \A i, j \in 1..Len(CheckOrder) :
    i < j /\ CheckOrder[i] \in Required /\ CheckOrder[j] \in Required =>
      stored.observed[CheckOrder[i]] >= stored.observed[CheckOrder[j]]

\* A pass over an old copy of the CR never takes the status back: no write lowers
\* the generation observed by the status or by one of its conditions (commitStatus
\* and its conflicts).
GenerationsAdvance ==
  [][/\ stored'.observedGeneration >= stored.observedGeneration
     /\ \A c \in Checks : stored'.observed[c] >= stored.observed[c]]_stored

Settled == position = 0 /\ ~queued /\ current

\* A failure that the status reports is always being retried: once nothing is
\* queued, running or on its way, the required conditions are all True and of the
\* present generation.
FailureIsRetried ==
  Settled => \A c \in Required :
    stored.reason[c] = "AsExpected" /\ stored.observed[c] = stored.generation

Reports == INSTANCE StatusReports WITH
             Silent   <- Secrets \cup ImageStreams,
             Failures <- Reasons \ {"none", "AsExpected"},
             cr       <- stored

\* Every status that is stored is the report of one whole pass over the CR as it is
\* stored at that moment: checks down to the first that fails, with no condition
\* skipped and none of an older spec, though a pass is many calls with edits, other
\* writes and crashes between them (commitStatus, and the returns of Reconcile).
ImplementsReports == Reports!Spec

\* What a check would report now, of the spec as stored.
Due(c) ==
  CASE c \in Secrets -> SecretReason(resources[c])
    [] c \in ImageStreams ->
         IF resources[c] = "missing" THEN "NotFound" ELSE "AsExpected"
    [] c \in PipelineChecks /\ c \notin stored.asked -> "AsExpected"
    [] c = "Tasks" /\ resources[c] = "missing" -> "AsExpected"
    [] OTHER -> CASE resources[c] = "missing" -> "NotFound"
                  [] resources[c] = "invalid" -> "Invalid"
                  [] OTHER -> "AsExpected"

Relevant(c) == c \in Required \/ c \in stored.asked

\* The status tells the truth down to the first check that fails.
Accurate ==
  /\ stored.observedGeneration = stored.generation
  /\ \A i \in 1..Len(CheckOrder) :
       /\ Relevant(CheckOrder[i])
       /\ \A j \in 1..(i - 1) : Relevant(CheckOrder[j]) => Due(CheckOrder[j]) = "AsExpected"
       => /\ stored.reason[CheckOrder[i]] = Due(CheckOrder[i])
          /\ stored.observed[CheckOrder[i]] = stored.generation

\* When the cluster stays as it is the status becomes accurate and stays so, with
\* the informers' resync as the only wake-up after a resource changes unseen or a
\* status update is lost.
StatusConverges == <>[]Accurate

\* "Tasks are ready" and "Some tasks are not present": the Tasks condition is not
\* set to True while the tasks are missing.
TasksReadyMeansPresent ==
  [][At("Tasks") /\ position' # position /\ resources["Tasks"] = "missing"
     => pipeline'.reason["Tasks"] # "AsExpected"]_vars

=============================================================================
