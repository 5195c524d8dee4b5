------------------------- MODULE StatusReportsProofs -------------------------
(***************************************************************************)
(* Proof that StatusReconciler implements StatusReports: a pass is many    *)
(* steps, with edits, other writes, informers and crashes between them,    *)
(* but what it stores is the report of one moment.                         *)
(***************************************************************************)
EXTENDS StatusReconcilerProofs

FailureReasons == Reasons \ {"none", "AsExpected"}

\* The CR as stored, with the report of a pass that has found nothing wrong before
\* its k-th check.
GoodUntil(k) == Reports!With(Reports!Before(k), {}, "none")

\* The same, of a pass that its k-th check has ended.
FailedAt(k, reason) == Reports!With(Reports!Before(k), {CheckOrder[k]}, reason)

IsReport(cr) ==
  \/ cr = GoodUntil(CommitPosition)
  \/ \E k \in Positions :
       /\ Reports!Relevant(CheckOrder[k])
       /\ \/ \E reason \in FailureReasons : cr = FailedAt(k, reason)
          \/ CheckOrder[k] \in Secrets \cup ImageStreams /\ cr = GoodUntil(k)

\* A pass whose write will be accepted has so far reported on what is stored.
ReportInv ==
  fresh =>
    /\ position \in Positions => pipeline = GoodUntil(position)
    /\ position = CommitPosition => IsReport(pipeline)

-----------------------------------------------------------------------------
(***************************************************************************)
(* The report of one check                                                 *)
(***************************************************************************)

\* A check goes on from a condition that is True, or from a secret that the spec does
\* not name; and ends the pass with a condition that is False, or silently when it
\* cannot read a secret or an image stream.
LEMMA CheckReports ==
  ASSUME TypeOK, Check
  PROVE  LET c     == CheckOrder[position]
             asked == c \notin Optional \/ c \in pipeline.asked
         IN  \/ GoOn /\ asked /\ SetCondition(c, "AsExpected")
             \/ GoOn /\ ~asked /\ UNCHANGED pipeline
             \/ Stop /\ asked /\ \E reason \in FailureReasons : SetCondition(c, reason)
             \/ Stop /\ asked /\ c \in Secrets \cup ImageStreams /\ UNCHANGED pipeline
<1> DEFINE Asked(c) == c \notin Optional \/ c \in pipeline.asked
           Outcome(c) ==
             \/ GoOn /\ Asked(c) /\ SetCondition(c, "AsExpected")
             \/ GoOn /\ ~Asked(c) /\ UNCHANGED pipeline
             \/ Stop /\ Asked(c) /\ \E reason \in FailureReasons : SetCondition(c, reason)
             \/ Stop /\ Asked(c) /\ c \in Secrets \cup ImageStreams /\ UNCHANGED pipeline
<1>0. \A c \in Checks \ Secrets : Asked(c)
  BY DEF Optional, Secrets
<1>a. \A c : At(c) => c = CheckOrder[position]
  BY DEF At
<1>b. ASSUME NEW c, NEW reason \in FailureReasons \cup {"AsExpected"}, Asked(c),
             Report(c, reason)
      PROVE  Outcome(c)
  BY <1>b DEF Report, FailureReasons
<1>c. \E c : At(c) /\ Outcome(c)
  <2>1. CASE CheckGitRepo
    <3>1. PICK reason \in FailureReasons \cup {"AsExpected"} : Report("GitRepo", reason)
      BY <2>1 DEF CheckGitRepo, FailureReasons, Reasons
    <3>2. Asked("GitRepo")
      BY DEF Optional
    <3> QED
      BY <1>b, <2>1, <3>1, <3>2 DEF CheckGitRepo
  <2>2. CASE \E c \in Secrets : CheckSecret(c)
    <3>1. PICK c \in Secrets : CheckSecret(c)
      BY <2>2
    <3>2. Asked(c) /\ At(c) /\ Report(c, SecretReason(resources[c]))
      BY <3>1 DEF CheckSecret
    <3>3. SecretReason(resources[c]) \in FailureReasons \cup {"AsExpected"}
      BY DEF SecretReason, FailureReasons, Reasons
    <3> QED
      BY <1>b, <3>2, <3>3
  <2>3. CASE \E c \in Secrets : SkipSecret(c)
    BY <2>3 DEF SkipSecret
  <2>4. CASE \E c \in PipelineChecks : CheckPipeline(c)
    <3>1. PICK c \in PipelineChecks : CheckPipeline(c)
      BY <2>4
    <3>2. PipelineReason(c) \in FailureReasons \cup {"AsExpected"}
      BY DEF PipelineReason, FailureReasons, Reasons
    <3>3. Asked(c)
      BY DEF Optional, PipelineChecks
    <3> QED
      BY <1>b, <3>1, <3>2, <3>3 DEF CheckPipeline
  <2>5. CASE CheckTasks
    <3>1. TasksReason \in FailureReasons \cup {"AsExpected"}
      BY DEF TasksReason, FailureReasons, Reasons
    <3>2. Asked("Tasks")
      BY DEF Optional
    <3> QED
      BY <1>b, <2>5, <3>1, <3>2 DEF CheckTasks
  <2>6. CASE \E c \in ImageStreams : CheckImageStream(c)
    <3>1. PICK c \in ImageStreams : CheckImageStream(c)
      BY <2>6
    <3>2. PICK reason \in FailureReasons \cup {"AsExpected"} : Report(c, reason)
      BY <3>1 DEF CheckImageStream, FailureReasons, Reasons
    <3>3. Asked(c)
      BY DEF Optional, ImageStreams
    <3> QED
      BY <1>b, <3>1, <3>2, <3>3 DEF CheckImageStream
  <2>7. CASE \E c \in Checks : ReadFails(c)
    <3>1. PICK c \in Checks : ReadFails(c)
      BY <2>7
    <3>2. At(c) /\ Stop
      BY <3>1 DEF ReadFails
    <3>3. \/ c \in Secrets \cup ImageStreams /\ UNCHANGED pipeline
          \/ \E reason \in FailureReasons : SetCondition(c, reason)
      BY <3>1 DEF ReadFails, FailureReasons, Reasons
    <3>4. Asked(c)
      BY <3>1 DEF ReadFails, Optional, PipelineChecks
    <3> QED
      BY <3>2, <3>3, <3>4
  <2> QED
    BY <2>1, <2>2, <2>3, <2>4, <2>5, <2>6, <2>7 DEF Check
<1> QED
  BY <1>a, <1>c

\* The checks before the next one.
LEMMA BeforeNext ==
  ASSUME NEW k \in Positions
  PROVE  /\ Reports!Before(k + 1)
              = IF Reports!Relevant(CheckOrder[k]) THEN Reports!Before(k) \cup {CheckOrder[k]}
                ELSE Reports!Before(k)
         /\ CheckOrder[k] \notin Reports!Before(k)
<1>1. 1..((k + 1) - 1) = 1..(k - 1) \cup {k} /\ 1..(k - 1) \subseteq Positions
  BY DEF Positions
<1>2. \A i \in 1..(k - 1) : CheckOrder[i] # CheckOrder[k]
  BY <1>1, OrderFacts DEF Positions
<1> QED
  BY <1>1, <1>2, OrderFacts DEF Reports!Before

\* A pass starts with the CR that is stored, its generation observed.
LEMMA GoodFromTheStart ==
  ASSUME stored \in OperatorPipeline
  PROVE  GoodUntil(1) = [stored EXCEPT !.observedGeneration = stored.generation]
<1>1. Reports!Before(1) = {}
  BY DEF Reports!Before
<1> QED
  BY <1>1 DEF GoodUntil, Reports!With, OperatorPipeline

\* A report is one of the CR as it is stored: it has the same spec.
LEMMA ReportFacts ==
  ASSUME stored \in OperatorPipeline, NEW held, NEW failed, NEW reason
  PROVE  LET cr == Reports!With(held, failed, reason) IN
         /\ cr.generation = stored.generation
         /\ cr.asked = stored.asked
         /\ cr.observedGeneration = stored.generation
         /\ cr.reason = [c \in Checks |-> IF c \in held THEN "AsExpected"
                                          ELSE IF c \in failed THEN reason ELSE stored.reason[c]]
         /\ cr.observed = [c \in Checks |-> IF c \in held \cup failed THEN stored.generation
                                            ELSE stored.observed[c]]
  BY DEF Reports!With, OperatorPipeline

\* Two CRs with the same spec and the same conditions are the same.
LEMMA SamePipeline ==
  ASSUME NEW a \in OperatorPipeline, NEW b \in OperatorPipeline,
         a.generation = b.generation, a.asked = b.asked,
         a.observedGeneration = b.observedGeneration,
         \A c \in Checks : a.reason[c] = b.reason[c] /\ a.observed[c] = b.observed[c]
  PROVE  a = b
<1>1. /\ a.reason \in [Checks -> Reasons] /\ b.reason \in [Checks -> Reasons]
      /\ a.observed \in [Checks -> Generations] /\ b.observed \in [Checks -> Generations]
  BY DEF OperatorPipeline
<1>2. a.reason = b.reason
  BY <1>1
<1>3. a.observed = b.observed
  BY <1>1
<1> QED
  BY <1>2, <1>3 DEF OperatorPipeline

\* Reports are CRs.
LEMMA ReportType ==
  ASSUME stored \in OperatorPipeline, NEW held, NEW failed, NEW reason \in Reasons
  PROVE  Reports!With(held, failed, reason) \in OperatorPipeline
  BY DEF Reports!With, OperatorPipeline, Reasons

\* A condition that is set at its place makes the report of a check that held, or that
\* failed.
LEMMA ConditionReports ==
  ASSUME TypeOK, position \in Positions, pipeline = GoodUntil(position),
         NEW reason \in Reasons, SetCondition(CheckOrder[position], reason),
         Reports!Relevant(CheckOrder[position])
  PROVE  /\ reason = "AsExpected" => pipeline' = GoodUntil(position + 1)
         /\ pipeline' = FailedAt(position, reason)
<1> DEFINE c == CheckOrder[position]
           before == Reports!Before(position)
<1>0. stored \in OperatorPipeline /\ pipeline \in OperatorPipeline /\ c \in Checks
  BY OrderFacts DEF TypeOK
<1>1. /\ pipeline' \in OperatorPipeline
      /\ pipeline'.generation = pipeline.generation
      /\ pipeline'.asked = pipeline.asked
      /\ pipeline'.observedGeneration = pipeline.observedGeneration
      /\ pipeline'.reason = [d \in Checks |-> IF d = c THEN reason ELSE pipeline.reason[d]]
      /\ pipeline'.observed = [d \in Checks |-> IF d = c THEN pipeline.generation
                                                ELSE pipeline.observed[d]]
  BY <1>0 DEF SetCondition, OperatorPipeline
<1>2. /\ pipeline.generation = stored.generation
      /\ pipeline.asked = stored.asked
      /\ pipeline.observedGeneration = stored.generation
      /\ pipeline.reason = [d \in Checks |-> IF d \in before THEN "AsExpected"
                                             ELSE stored.reason[d]]
      /\ pipeline.observed = [d \in Checks |-> IF d \in before THEN stored.generation
                                               ELSE stored.observed[d]]
  <2>1. pipeline = Reports!With(before, {}, "none")
    BY DEF GoodUntil
  <2> QED
    BY <1>0, <2>1, ReportFacts
<1>3. c \notin before /\ Reports!Before(position + 1) = before \cup {c}
  BY BeforeNext
<1> HIDE DEF c, before
<1>4. pipeline' = FailedAt(position, reason)
  <2> DEFINE cr == Reports!With(before, {c}, reason)
  <2>1. cr \in OperatorPipeline
    BY <1>0, ReportType
  <2>2. /\ cr.generation = stored.generation /\ cr.asked = stored.asked
        /\ cr.observedGeneration = stored.generation
        /\ cr.reason = [d \in Checks |-> IF d \in before THEN "AsExpected"
                                         ELSE IF d \in {c} THEN reason ELSE stored.reason[d]]
        /\ cr.observed = [d \in Checks |-> IF d \in before \cup {c} THEN stored.generation
                                           ELSE stored.observed[d]]
    BY <1>0, ReportFacts
  <2>3. \A d \in Checks : pipeline'.reason[d] = cr.reason[d]
    BY <1>1, <1>2, <1>3, <2>2
  <2>4. \A d \in Checks : pipeline'.observed[d] = cr.observed[d]
    BY <1>1, <1>2, <2>2
  <2>5. /\ pipeline' \in OperatorPipeline
        /\ pipeline'.generation = cr.generation /\ pipeline'.asked = cr.asked
        /\ pipeline'.observedGeneration = cr.observedGeneration
    BY <1>1, <1>2, <2>2
  <2> HIDE DEF cr
  <2>6. pipeline' = cr
    BY <2>1, <2>3, <2>4, <2>5, SamePipeline
  <2> QED
    BY <2>6 DEF FailedAt, cr, before, c
<1>5. ASSUME reason = "AsExpected"
      PROVE  pipeline' = GoodUntil(position + 1)
  <2> DEFINE cr == Reports!With(before \cup {c}, {}, "none")
  <2>1. cr \in OperatorPipeline
    BY <1>0, ReportType DEF Reasons
  <2>2. /\ cr.generation = stored.generation /\ cr.asked = stored.asked
        /\ cr.observedGeneration = stored.generation
        /\ cr.reason = [d \in Checks |-> IF d \in before \cup {c} THEN "AsExpected"
                                         ELSE stored.reason[d]]
        /\ cr.observed = [d \in Checks |-> IF d \in before \cup {c} THEN stored.generation
                                           ELSE stored.observed[d]]
    BY <1>0, ReportFacts
  <2>3. \A d \in Checks : pipeline'.reason[d] = cr.reason[d]
    BY <1>1, <1>2, <1>5, <2>2
  <2>4. \A d \in Checks : pipeline'.observed[d] = cr.observed[d]
    BY <1>1, <1>2, <2>2
  <2>5. /\ pipeline' \in OperatorPipeline
        /\ pipeline'.generation = cr.generation /\ pipeline'.asked = cr.asked
        /\ pipeline'.observedGeneration = cr.observedGeneration
    BY <1>1, <1>2, <2>2
  <2> HIDE DEF cr
  <2>6. pipeline' = cr
    BY <2>1, <2>3, <2>4, <2>5, SamePipeline
  <2> QED
    BY <1>3, <2>6 DEF GoodUntil, cr, before, c
<1> QED
  BY <1>4, <1>5

-----------------------------------------------------------------------------
(***************************************************************************)
(* The report of a pass                                                    *)
(***************************************************************************)

\* What is a report stays one as long as nothing is stored.
LEMMA ReportsStay ==
  ASSUME UNCHANGED stored
  PROVE  /\ \A k : GoodUntil(k)' = GoodUntil(k)
         /\ \A k, reason : FailedAt(k, reason)' = FailedAt(k, reason)
         /\ \A c : Reports!Relevant(c)' = Reports!Relevant(c)
  BY DEF GoodUntil, FailedAt, Reports!With, Reports!Before, Reports!Relevant

\* The environment may store something, and then the pass is no longer fresh.
LEMMA EnvironmentKeepsReports ==
  ASSUME ReportInv, Environment \/ UNCHANGED vars
  PROVE  ReportInv'
<1>1. CASE UserEdits \/ MetadataChanges \/ Crash
  BY <1>1 DEF UserEdits, MetadataChanges, Crash, StoreCR, ReportInv
<1>2. CASE ResourceChanges \/ InformerSyncs \/ Resync \/ UNCHANGED vars
  <2>1. UNCHANGED <<stored, pipeline, position, fresh>>
    BY <1>2 DEF ResourceChanges, InformerSyncs, Resync, vars, crVars, passVars
  <2> QED
    BY <2>1, ReportsStay DEF ReportInv, IsReport
<1> QED
  BY <1>1, <1>2 DEF Environment

\* A check adds what it finds to the report, and a pass that ends has one to write.
LEMMA CheckKeepsReports ==
  ASSUME TypeOK, ReportInv, Check
  PROVE  ReportInv'
<1>1. position \in Positions /\ UNCHANGED <<stored, fresh>>
  BY CheckFacts DEF crVars
<1> SUFFICES ASSUME fresh
             PROVE  /\ position' \in Positions => pipeline' = GoodUntil(position')
                    /\ position' = CommitPosition => IsReport(pipeline')
  BY <1>1, ReportsStay DEF ReportInv, IsReport
<1> DEFINE c == CheckOrder[position]
<1>2. pipeline = GoodUntil(position) /\ pipeline.asked = stored.asked
  <2>1. pipeline = GoodUntil(position)
    BY <1>1 DEF ReportInv
  <2>2. Reports!With(Reports!Before(position), {}, "none").asked = stored.asked
    BY DEF Reports!With, TypeOK, OperatorPipeline
  <2> QED
    BY <2>1, <2>2 DEF GoodUntil
<1>3. Reports!Relevant(c) <=> c \notin Optional \/ c \in pipeline.asked
  BY <1>2 DEF Reports!Relevant
<1>4. ASSUME GoOn, pipeline' = GoodUntil(position + 1)
      PROVE  /\ position' \in Positions => pipeline' = GoodUntil(position')
             /\ position' = CommitPosition => IsReport(pipeline')
  BY <1>4 DEF GoOn, IsReport
<1>5. CASE GoOn /\ Reports!Relevant(c) /\ SetCondition(c, "AsExpected")
  BY <1>1, <1>2, <1>4, <1>5, ConditionReports DEF Reasons
<1>6. CASE GoOn /\ ~Reports!Relevant(c) /\ UNCHANGED pipeline
  BY <1>1, <1>2, <1>4, <1>6, BeforeNext DEF GoodUntil
<1>7. Stop => position' = CommitPosition /\ position' \notin Positions
  BY DEF Stop, Positions, CommitPosition
<1>8. CASE Stop /\ Reports!Relevant(c) /\ \E reason \in FailureReasons : SetCondition(c, reason)
  <2>1. PICK reason \in FailureReasons : SetCondition(c, reason)
    BY <1>8
  <2>2. pipeline' = FailedAt(position, reason)
    BY <1>1, <1>2, <1>8, <2>1, ConditionReports DEF FailureReasons
  <2> QED
    BY <1>1, <1>7, <1>8, <2>2 DEF IsReport
<1>9. CASE Stop /\ Reports!Relevant(c) /\ c \in Secrets \cup ImageStreams /\ UNCHANGED pipeline
  BY <1>1, <1>2, <1>7, <1>9 DEF IsReport
<1> QED
  BY <1>3, <1>5, <1>6, <1>8, <1>9, CheckReports

\* The beginning and the end of a pass.
LEMMA PassKeepsReports ==
  ASSUME TypeOK, GenerationInv, ReportInv, Pass
  PROVE  ReportInv'
<1>1. CASE BeginPass
  <2>1. position' = 1 /\ UNCHANGED stored /\ fresh' = current
        /\ pipeline' = [cached EXCEPT !.observedGeneration = cached.generation]
    BY <1>1 DEF BeginPass, crVars
  <2>2. fresh' => pipeline' = GoodUntil(1)
    BY <2>1, GoodFromTheStart DEF GenerationInv, TypeOK
  <2> QED
    BY <2>1, <2>2, ReportsStay DEF ReportInv, CommitPosition
<1>2. CASE Check
  BY <1>2, CheckKeepsReports
<1>3. CASE CommitStatus \/ CommitFails
  <2>1. ~fresh'
    BY <1>3 DEF CommitStatus, CommitFails, StoreCR
  <2> QED
    BY <2>1 DEF ReportInv
<1> QED
  BY <1>1, <1>2, <1>3 DEF Pass

-----------------------------------------------------------------------------
(***************************************************************************)
(* The refinement                                                          *)
(***************************************************************************)

\* What is stored is an edit of the spec, or the report of a pass.
LEMMA StepReports ==
  ASSUME TypeOK, ReportInv, [Next]_vars
  PROVE  [Reports!Next]_stored
<1>1. CASE UserEdits
  BY <1>1 DEF UserEdits, StoreCR, Reports!Next, Reports!Edit
<1>2. CASE CommitStatus
  <2>1. CASE UNCHANGED stored
    BY <2>1
  <2>2. CASE fresh /\ stored' = pipeline
    <3>1. IsReport(pipeline)
      BY <1>2, <2>2 DEF CommitStatus, EndPass, ReportInv
    <3>2. Len(CheckOrder) = 12 /\ Positions = 1..Len(CheckOrder)
          /\ CommitPosition = Len(CheckOrder) + 1
      BY OrderFacts DEF Positions, CommitPosition
    <3>3. CASE pipeline = GoodUntil(CommitPosition)
      BY <2>2, <3>2, <3>3 DEF GoodUntil, Reports!Next, Reports!ReportAll
    <3>4. ASSUME NEW k \in Positions, Reports!Relevant(CheckOrder[k]),
                 NEW reason \in FailureReasons, pipeline = FailedAt(k, reason)
          PROVE  Reports!Next
      <4>1. Reports!ReportFailure(k)
        BY <2>2, <3>4 DEF FailedAt, FailureReasons, Reports!ReportFailure
      <4> QED
        BY <3>2, <4>1 DEF Reports!Next
    <3>5. ASSUME NEW k \in Positions, Reports!Relevant(CheckOrder[k]),
                 CheckOrder[k] \in Secrets \cup ImageStreams, pipeline = GoodUntil(k)
          PROVE  Reports!Next
      <4>1. Reports!ReportUntil(k)
        BY <2>2, <3>5 DEF GoodUntil, Reports!ReportUntil
      <4> QED
        BY <3>2, <4>1 DEF Reports!Next
    <3> QED
      BY <3>1, <3>3, <3>4, <3>5 DEF IsReport
  <2> QED
    BY <1>2, <2>1, <2>2 DEF CommitStatus, StoreCR
<1>3. CASE Check
  BY <1>3, CheckFacts DEF crVars
<1>4. CASE \/ MetadataChanges \/ ResourceChanges \/ InformerSyncs \/ Resync \/ Crash
           \/ BeginPass \/ CommitFails \/ UNCHANGED vars
  BY <1>4 DEF MetadataChanges, ResourceChanges, InformerSyncs, Resync, Crash, BeginPass,
              CommitFails, StoreCR, vars, crVars
<1> QED
  BY <1>1, <1>2, <1>3, <1>4 DEF Next, Environment, Pass

\* Every status that is stored is the report of one whole pass over the CR as it is
\* stored at that moment, however the pass was interleaved with edits, other writes,
\* late informers, failed updates and crashes.
THEOREM StatusImplementsReports == Spec => ImplementsReports
<1>1. Init => Reports!Init
  <2> SUFFICES ASSUME Init PROVE Reports!Init
    OBVIOUS
  <2>1. PICK asked \in SUBSET Editable :
          stored = [NoPipeline EXCEPT !.generation = 1, !.asked = asked]
    BY DEF Init
  <2> QED
    BY <2>1 DEF NoPipeline, Reports!Init
<1>2. Init => ReportInv
  BY DEF Init, ReportInv
<1>3. TypeOK /\ GenerationInv /\ ReportInv /\ [Next]_vars => ReportInv'
  BY EnvironmentKeepsReports, PassKeepsReports DEF Next
<1>4. TypeOK /\ ReportInv /\ [Next]_vars => [Reports!Next]_stored
  BY StepReports
<1> QED
  BY <1>1, <1>2, <1>3, <1>4, StatusTypeCorrect, GenerationsSound, PTL
     DEF Spec, ImplementsReports, Reports!Spec

=============================================================================
