-------------------------- MODULE BackOfficeProofs --------------------------
(***************************************************************************)
(* Theorems about three components beside the calls, each with its own      *)
(* specification: AnalysisJobs (type correctness, and the rule under which  *)
(* two analyses of a call may be under way at once), Catalogue (what a call *)
(* runs does not change under it) and OffhostBackups (the newest backup can *)
(* be fetched).                                                             *)
(***************************************************************************)
EXTENDS AnalysisJobs, Catalogue, OffhostBackups, WellFoundedInduction, TLAPS

USE DEF Versions

\* The kinds of step.
LEMMA StepKinds ==
  ASSUME AnalysisNext
  PROVE  \/ \E w \in Analysts : AnalystStep(w) \/ AbandonAnalysis(w)
         \/ \E q \in Requesters : RequestAnalysis(q)
         \/ \E q \in Requesters : InsertAnalysis(q)
         \/ \E v \in Versions : AnalysisElapse(v)
  BY DEF AnalysisNext

-----------------------------------------------------------------------------
(* Types                                                                   *)

LEMMA OutcomeTypes ==
  /\ CompleteAnalysis \in Outcomes
  /\ \A j : FailAnalysis(j) \in Outcomes
  BY DEF CompleteAnalysis, FailAnalysis, Outcomes

LEMMA AnalystTypes ==
  ASSUME AnalysisTypeOK, NEW w \in Analysts, AnalystStep(w) \/ AbandonAnalysis(w)
  PROVE  AnalysisTypeOK'
  <1> USE DEF AnalysisTypeOK, analystVars
  <1>1. CASE ClaimPendingAnalysis(w)
    <2>1. PICK v \in Versions :
            /\ job' = [job EXCEPT ![v] = [status |-> "processing",
                                          attempts |-> @.attempts + 1, due |-> "later"]]
            /\ busy' = [busy EXCEPT ![w] = v]
      BY <1>1 DEF ClaimPendingAnalysis
    <2>2. job' \in [Versions -> CallAiAnalysis]
      BY <2>1 DEF CallAiAnalysis
    <2>3. busy' \in [Analysts -> Versions \cup {0}] /\ stage' \in [Analysts -> Stages]
      BY <1>1, <2>1 DEF ClaimPendingAnalysis, Stages
    <2> QED
      BY <1>1, <2>2, <2>3 DEF ClaimPendingAnalysis
  <1>2. CASE Prepare(w) \/ Analyze(w)
    BY <1>2 DEF Prepare, Analyze, ToStage, Stages
  <1>3. CASE Conclude(w)
    <2>1. verdict' \in [Analysts -> Outcomes \cup {NoOutcome}]
      BY <1>3, OutcomeTypes DEF Conclude
    <2> QED
      BY <1>3, <2>1 DEF Conclude
  <1>4. ASSUME AnalystIdle(w)
        PROVE  /\ busy' \in [Analysts -> Versions \cup {0}]
               /\ stage' \in [Analysts -> Stages]
               /\ verdict' \in [Analysts -> Outcomes \cup {NoOutcome}]
    BY <1>4 DEF AnalystIdle, Stages
  <1>5. CASE AnalysisConflict(w)
    BY <1>4, <1>5 DEF AnalysisConflict, AnalystIdle
  <1>6. CASE CommitVerdict(w)
    <2>1. verdict[w] \in Outcomes
      BY <1>6 DEF CommitVerdict
    <2>2. job' \in [Versions -> CallAiAnalysis]
      <3> DEFINE j == job[busy[w]]
                 new == [[j EXCEPT !.status = verdict[w].status] EXCEPT !.due = verdict[w].due]
      <3>1. job' = IF Allowed(j, verdict[w]) THEN [job EXCEPT ![busy[w]] = new] ELSE job
        BY <1>6 DEF CommitVerdict
      <3>2. j \in CallAiAnalysis => new \in CallAiAnalysis
        BY <2>1 DEF Outcomes, CallAiAnalysis
      <3>3. busy[w] \in Versions => j \in CallAiAnalysis
        OBVIOUS
      <3> HIDE DEF j, new
      <3> QED
        BY <3>1, <3>2, <3>3
    <2> QED
      BY <1>4, <1>6, <2>2 DEF CommitVerdict, AnalystIdle
  <1>7. CASE AbandonAnalysis(w)
    <2>1. mishaps' \in 0..MaxMishaps
      BY <1>7, AnalysisAssumption DEF AbandonAnalysis
    <2> QED
      BY <1>4, <1>7, <2>1 DEF AbandonAnalysis, AnalystIdle
  <1> QED
    BY <1>1, <1>2, <1>3, <1>5, <1>6, <1>7 DEF AnalystStep

LEMMA RequestTypes ==
  ASSUME AnalysisTypeOK, NEW q \in Requesters, RequestAnalysis(q) \/ InsertAnalysis(q)
  PROVE  AnalysisTypeOK'
  <1> USE DEF AnalysisTypeOK, analystVars
  <1>1. CASE RequestAnalysis(q)
    <2>1. PICK v \in 0..(MaxVersion - 1) :
            /\ asking' = [asking EXCEPT ![q] = v + 1]
            /\ overtaken' = overtaken \cup {u \in {v} \cap Versions : job[u].status = "failed"}
      BY <1>1 DEF RequestAnalysis
    <2>2. v + 1 \in Versions
      BY AnalysisAssumption
    <2> QED
      BY <1>1, <2>1, <2>2 DEF RequestAnalysis
  <1>2. CASE InsertAnalysis(q)
    <2>1. job' \in [Versions -> CallAiAnalysis]
      BY <1>2 DEF InsertAnalysis, CallAiAnalysis
    <2> QED
      BY <1>2, <2>1 DEF InsertAnalysis
  <1> QED
    BY <1>1, <1>2

LEMMA ElapseTypes ==
  ASSUME AnalysisTypeOK, NEW v \in Versions, AnalysisElapse(v)
  PROVE  AnalysisTypeOK'
  <1>1. job' \in [Versions -> CallAiAnalysis]
    BY DEF AnalysisTypeOK, AnalysisElapse, CallAiAnalysis
  <1> QED
    BY <1>1 DEF AnalysisTypeOK, AnalysisElapse, analystVars

\* Every variable of the analysis jobs keeps its type.
THEOREM AnalysisTypeCorrect == AnalysisSpec => []AnalysisTypeOK
  <1>1. AnalysisInit => AnalysisTypeOK
    BY AnalysisAssumption DEF AnalysisInit, AnalysisTypeOK, CallAiAnalysis, Stages
  <1>2. AnalysisTypeOK /\ [AnalysisNext]_analysisVars => AnalysisTypeOK'
    <2> SUFFICES ASSUME AnalysisTypeOK, [AnalysisNext]_analysisVars
                 PROVE  AnalysisTypeOK'
      OBVIOUS
    <2>1. CASE AnalysisNext
      BY <2>1, AnalystTypes, RequestTypes, ElapseTypes DEF AnalysisNext
    <2>2. CASE UNCHANGED analysisVars
      BY <2>2 DEF analysisVars, AnalysisTypeOK
    <2> QED
      BY <2>1, <2>2
  <1> QED
    BY <1>1, <1>2, PTL DEF AnalysisSpec

-----------------------------------------------------------------------------
(* Concurrent analyses                                                     *)

\* A version that need not be excused again: it is completed for good, or was passed over.
Past(v) == job[v].status = "completed" \/ v \in overtaken

\* Whatever exists, or is about to be inserted, has only such versions before it.
SuccessionInvariant ==
  /\ \A u \in Existing, v \in Versions : v < u => Past(v)
  /\ \A q \in Requesters, v \in Versions : v < asking[q] => Past(v)

\* The trigger and the claim leave a completed row alone, and no excuse is taken back.
LEMMA PastIsForever ==
  ASSUME AnalysisTypeOK, AnalysisNext, NEW v \in Versions, Past(v)
  PROVE  Past(v)'
  <1> USE DEF AnalysisTypeOK, Past
  <1>1. overtaken \subseteq overtaken'
    BY DEF AnalysisNext, AnalystStep, ClaimPendingAnalysis, Prepare, Analyze, ToStage, Conclude,
           AnalysisConflict, CommitVerdict, AbandonAnalysis, AnalystIdle, RequestAnalysis,
           InsertAnalysis, AnalysisElapse
  <1>2. job[v].status = "completed" => job'[v].status = "completed"
    <2> SUFFICES ASSUME job[v].status = "completed"
                 PROVE  job'[v].status = "completed"
      OBVIOUS
    <2>1. ASSUME NEW w \in Analysts, ClaimPendingAnalysis(w)
          PROVE  job'[v] = job[v]
      BY <2>1 DEF ClaimPendingAnalysis, AnalysisIsDue
    <2>2. ASSUME NEW w \in Analysts, CommitVerdict(w)
          PROVE  job'[v] = job[v]
      BY <2>2 DEF CommitVerdict, Allowed
    <2>3. ASSUME NEW w \in Analysts,
                 \/ Prepare(w) \/ Analyze(w) \/ Conclude(w)
                 \/ AnalysisConflict(w) \/ AbandonAnalysis(w)
          PROVE  job' = job
      BY <2>3 DEF Prepare, Analyze, ToStage, Conclude, AnalysisConflict, AbandonAnalysis
    <2>4. ASSUME NEW q \in Requesters, RequestAnalysis(q) \/ InsertAnalysis(q)
          PROVE  job'[v] = job[v]
      BY <2>4 DEF RequestAnalysis, InsertAnalysis, VersionIsFree
    <2>5. ASSUME NEW u \in Versions, AnalysisElapse(u)
          PROVE  job'[v].status = job[v].status
      BY <2>5 DEF AnalysisElapse, CallAiAnalysis
    <2> QED
      BY <2>1, <2>2, <2>3, <2>4, <2>5 DEF AnalysisNext, AnalystStep
  <1> QED
    BY <1>1, <1>2

\* A worker that runs an analysis runs one that exists.
RunsExist ==
  \A w \in Analysts :
    /\ stage[w] # "idle" => busy[w] \in Existing
    /\ verdict[w] # NoOutcome => stage[w] # "idle"

\* Versions are never removed.
LEMMA ExistingGrows ==
  ASSUME AnalysisTypeOK, AnalysisNext
  PROVE  Existing \subseteq Existing'
  <1> USE DEF AnalysisTypeOK, Existing
  <1>1. ASSUME NEW w \in Analysts, ClaimPendingAnalysis(w), NEW u \in Existing
        PROVE  u \in Existing'
    BY <1>1 DEF ClaimPendingAnalysis
  <1>2. ASSUME NEW w \in Analysts, CommitVerdict(w), NEW u \in Existing
        PROVE  u \in Existing'
    BY <1>2 DEF CommitVerdict, Outcomes
  <1>3. ASSUME NEW w \in Analysts,
               \/ Prepare(w) \/ Analyze(w) \/ Conclude(w)
               \/ AnalysisConflict(w) \/ AbandonAnalysis(w)
        PROVE  job' = job
    BY <1>3 DEF Prepare, Analyze, ToStage, Conclude, AnalysisConflict, AbandonAnalysis
  <1>4. ASSUME NEW q \in Requesters, RequestAnalysis(q) \/ InsertAnalysis(q), NEW u \in Existing
        PROVE  u \in Existing'
    <2>1. job'[u] = job[u]
      BY <1>4 DEF RequestAnalysis, InsertAnalysis, VersionIsFree
    <2> QED
      BY <2>1
  <1>5. ASSUME NEW v \in Versions, AnalysisElapse(v), NEW u \in Existing
        PROVE  u \in Existing'
    BY <1>5 DEF AnalysisElapse, CallAiAnalysis
  <1> QED
    BY <1>1, <1>2, <1>3, <1>4, <1>5 DEF AnalysisNext, AnalystStep

LEMMA RunsExistStep ==
  ASSUME AnalysisTypeOK, RunsExist, AnalysisNext
  PROVE  RunsExist'
  <1> USE DEF AnalysisTypeOK, RunsExist
  <1>1. SUFFICES ASSUME NEW x \in Analysts
                 PROVE  /\ stage'[x] # "idle" => busy'[x] \in Existing'
                        /\ verdict'[x] # NoOutcome => stage'[x] # "idle"
    BY DEF NoOutcome
  <1>2. Existing \subseteq Existing'
    BY ExistingGrows
  <1>3. ASSUME NEW w \in Analysts, ClaimPendingAnalysis(w)
        PROVE  /\ stage'[x] # "idle" => busy'[x] \in Existing'
               /\ verdict'[x] # NoOutcome => stage'[x] # "idle"
    <2>1. PICK v \in Versions : AnalysisIsDue(v) /\ busy' = [busy EXCEPT ![w] = v]
      BY <1>3 DEF ClaimPendingAnalysis
    <2>2. v \in Existing'
      BY <1>2, <2>1 DEF AnalysisIsDue, Existing
    <2> QED
      BY <1>2, <1>3, <2>1, <2>2 DEF ClaimPendingAnalysis
  <1>4. ASSUME NEW w \in Analysts, Prepare(w) \/ Analyze(w) \/ Conclude(w)
        PROVE  /\ stage'[x] # "idle" => busy'[x] \in Existing'
               /\ verdict'[x] # NoOutcome => stage'[x] # "idle"
    BY <1>2, <1>4 DEF Prepare, Analyze, ToStage, Conclude
  <1>5. ASSUME NEW w \in Analysts, AnalysisConflict(w) \/ CommitVerdict(w) \/ AbandonAnalysis(w)
        PROVE  /\ stage'[x] # "idle" => busy'[x] \in Existing'
               /\ verdict'[x] # NoOutcome => stage'[x] # "idle"
    BY <1>2, <1>5 DEF AnalysisConflict, CommitVerdict, AbandonAnalysis, AnalystIdle
  <1>6. ASSUME \/ \E q \in Requesters : RequestAnalysis(q) \/ InsertAnalysis(q)
               \/ \E v \in Versions : AnalysisElapse(v)
        PROVE  /\ stage'[x] # "idle" => busy'[x] \in Existing'
               /\ verdict'[x] # NoOutcome => stage'[x] # "idle"
    BY <1>2, <1>6 DEF RequestAnalysis, InsertAnalysis, AnalysisElapse, analystVars
  <1> QED
    BY <1>3, <1>4, <1>5, <1>6 DEF AnalysisNext, AnalystStep

\* Only an insert brings a version into being, and only the one it asked for.
LEMMA OnlyInsertsExist ==
  ASSUME AnalysisTypeOK, RunsExist, AnalysisNext, NEW u \in Existing', u \notin Existing
  PROVE  \E q \in Requesters : asking[q] = u
  <1> USE DEF AnalysisTypeOK, Existing
  <1>1. u \in Versions /\ job[u].status = "absent" /\ job'[u].status # "absent"
    OBVIOUS
  <1>2. ASSUME NEW w \in Analysts, ClaimPendingAnalysis(w)
        PROVE  job'[u] = job[u]
    BY <1>1, <1>2 DEF ClaimPendingAnalysis, AnalysisIsDue
  <1>3. ASSUME NEW w \in Analysts, CommitVerdict(w)
        PROVE  \E q \in Requesters : asking[q] = u
    <2>1. busy[w] # u
      BY <1>3 DEF CommitVerdict, RunsExist
    <2>2. job'[u] = job[u]
      BY <1>1, <1>3, <2>1 DEF CommitVerdict
    <2> QED
      BY <1>1, <2>2
  <1>4. ASSUME NEW w \in Analysts,
               \/ Prepare(w) \/ Analyze(w) \/ Conclude(w)
               \/ AnalysisConflict(w) \/ AbandonAnalysis(w)
        PROVE  job' = job
    BY <1>4 DEF Prepare, Analyze, ToStage, Conclude, AnalysisConflict, AbandonAnalysis
  <1>5. ASSUME NEW q \in Requesters, RequestAnalysis(q)
        PROVE  job' = job
    BY <1>5 DEF RequestAnalysis
  <1>6. ASSUME NEW q \in Requesters, InsertAnalysis(q), asking[q] # u
        PROVE  job'[u] = job[u]
    BY <1>1, <1>6 DEF InsertAnalysis
  <1>7. ASSUME NEW v \in Versions, AnalysisElapse(v)
        PROVE  job'[u].status = job[u].status
    BY <1>1, <1>7 DEF AnalysisElapse, CallAiAnalysis
  <1> QED
    BY <1>1, <1>2, <1>3, <1>4, <1>5, <1>6, <1>7 DEF AnalysisNext, AnalystStep

\* A request asks for the version after the latest one, which MayFollow() leaves completed,
\* or failed and passed over.
LEMMA SuccessionStep ==
  ASSUME AnalysisTypeOK, RunsExist, SuccessionInvariant, AnalysisNext
  PROVE  SuccessionInvariant'
  <1>1. ASSUME NEW u \in Existing', NEW v \in Versions, v < u
        PROVE  Past(v)'
    <2>1. CASE u \in Existing
      BY <1>1, <2>1, PastIsForever DEF SuccessionInvariant
    <2>2. CASE u \notin Existing
      <3>1. PICK q \in Requesters : asking[q] = u
        BY <2>2, OnlyInsertsExist
      <3> QED
        BY <1>1, <3>1, PastIsForever DEF SuccessionInvariant
    <2> QED
      BY <2>1, <2>2
  <1>2. ASSUME NEW q \in Requesters, NEW v \in Versions, v < asking'[q]
        PROVE  Past(v)'
    <2>1. CASE asking'[q] = asking[q]
      BY <1>2, <2>1, PastIsForever DEF SuccessionInvariant
    <2>2. CASE asking'[q] # asking[q]
      <3>1. RequestAnalysis(q)
        <4>1. ASSUME NEW p \in Requesters, RequestAnalysis(p)
              PROVE  p = q
          BY <2>2, <4>1 DEF RequestAnalysis, AnalysisTypeOK
        <4>2. ASSUME NEW p \in Requesters, InsertAnalysis(p)
              PROVE  FALSE
          BY <1>2, <2>2, <4>2 DEF InsertAnalysis, AnalysisTypeOK
        <4>3. ASSUME \/ \E w \in Analysts : AnalystStep(w) \/ AbandonAnalysis(w)
                     \/ \E x \in Versions : AnalysisElapse(x)
              PROVE  asking' = asking
          BY <4>3 DEF AnalystStep, ClaimPendingAnalysis, Prepare, Analyze, ToStage, Conclude,
                      AnalysisConflict, CommitVerdict, AbandonAnalysis, AnalystIdle,
                      AnalysisElapse
        <4> QED
          BY <2>2, <4>1, <4>2, <4>3, StepKinds
      <3>2. PICK n \in 0..(MaxVersion - 1) :
              /\ Latest(n) /\ MayFollow(n)
              /\ asking' = [asking EXCEPT ![q] = n + 1]
              /\ overtaken' = overtaken \cup {x \in {n} \cap Versions : job[x].status = "failed"}
              /\ job' = job
        BY <3>1 DEF RequestAnalysis
      <3>3. asking'[q] = n + 1 /\ (v < n \/ v = n)
        BY <1>2, <3>2, AnalysisAssumption DEF AnalysisTypeOK
      <3>4. CASE v < n
        <4>1. n \in Existing
          BY <3>2, <3>4, AnalysisAssumption DEF Latest
        <4> QED
          BY <3>4, <4>1, PastIsForever DEF SuccessionInvariant
      <3>5. CASE v = n
        <4>1. job[v].status \in {"completed", "failed"}
          BY <3>2, <3>5, AnalysisAssumption DEF MayFollow
        <4> QED
          BY <3>2, <3>5, <4>1 DEF Past
      <3> QED
        BY <3>3, <3>4, <3>5
    <2> QED
      BY <2>1, <2>2
  <1> QED
    BY <1>1, <1>2 DEF SuccessionInvariant

\* service.py, request_analysis: an older version is under way beside a newer one only if it
\* had failed when the newer one was asked for.
THEOREM ConcurrentAnalysesHold == AnalysisSpec => []ConcurrentAnalysesAreExcused
  <1>1. AnalysisInit => RunsExist /\ SuccessionInvariant
    BY DEF AnalysisInit, RunsExist, SuccessionInvariant, Existing, NoOutcome
  <1>2. AnalysisTypeOK /\ RunsExist /\ SuccessionInvariant /\ [AnalysisNext]_analysisVars
          => RunsExist' /\ SuccessionInvariant'
    <2> SUFFICES ASSUME AnalysisTypeOK, RunsExist, SuccessionInvariant,
                        [AnalysisNext]_analysisVars
                 PROVE  RunsExist' /\ SuccessionInvariant'
      OBVIOUS
    <2>1. CASE AnalysisNext
      BY <2>1, RunsExistStep, SuccessionStep
    <2>2. CASE UNCHANGED analysisVars
      BY <2>2 DEF analysisVars, RunsExist, SuccessionInvariant, Existing, Past
    <2> QED
      BY <2>1, <2>2
  <1>3. SuccessionInvariant => ConcurrentAnalysesAreExcused
    BY DEF SuccessionInvariant, ConcurrentAnalysesAreExcused, Past
  <1> QED
    BY <1>1, <1>2, <1>3, AnalysisTypeCorrect, PTL DEF AnalysisSpec

-----------------------------------------------------------------------------
(* Catalogue: types                                                        *)

\* The edits under way, by what they are.
LEMMA EditFields ==
  ASSUME CatalogueTypeOK, NEW e \in Editors
  PROVE  /\ edit[e] \in Edits
         /\ edit[e].op \in {"none", "draft", "publish", "archive", "item"}
         /\ edit[e].op = "draft" => edit[e].v \in VersionNumbers \cup {0}
                                    /\ edit[e].cites \in BOOLEAN
         /\ edit[e].op = "publish" => edit[e].v \in VersionNumbers
                                      /\ edit[e].clears \in BOOLEAN
         /\ edit[e].op = "archive" => edit[e].v \in VersionNumbers
         /\ edit[e].op = "item" => edit[e].becomes \in Item
  <1>1. edit[e] \in Edits
    BY DEF CatalogueTypeOK
  <1>2. ASSUME NEW x \in Edits
        PROVE  /\ x.op \in {"none", "draft", "publish", "archive", "item"}
               /\ x.op = "draft" => x.v \in VersionNumbers \cup {0} /\ x.cites \in BOOLEAN
               /\ x.op = "publish" => x.v \in VersionNumbers /\ x.clears \in BOOLEAN
               /\ x.op = "archive" => x.v \in VersionNumbers
               /\ x.op = "item" => x.becomes \in Item
    BY DEF Edits
  <1> QED
    BY <1>1, <1>2

LEMMA EditsMade ==
  /\ NoEdit \in Edits
  /\ \A v \in VersionNumbers \cup {0}, b \in BOOLEAN :
       [op |-> "draft", v |-> v, cites |-> b] \in Edits
  /\ \A v \in VersionNumbers, b \in BOOLEAN : [op |-> "publish", v |-> v, clears |-> b] \in Edits
  /\ \A v \in VersionNumbers : [op |-> "archive", v |-> v] \in Edits
  /\ \A new \in Item : [op |-> "item", becomes |-> new] \in Edits
  BY DEF Edits, NoEdit

\* Editor e comes to hold x.
Holds(e, x) ==
  /\ edit' \in [Editors -> Edits] /\ edit'[e] = x
  /\ \A d \in Editors \ {e} : edit'[d] = edit[d]

LEMMA EditsTurn ==
  ASSUME CatalogueTypeOK, NEW e \in Editors
  PROVE  /\ Ends(e) => Holds(e, NoEdit)
         /\ \A x \in Edits : Begins(e, x) => Holds(e, x) /\ UNCHANGED <<rowVars, call, reopening>>
  BY EditsMade DEF CatalogueTypeOK, Ends, Begins, Holds

-----------------------------------------------------------------------------
(* Catalogue: what a call runs                                             *)

\* The drafts are numbered without a gap, and a number was free when it was chosen.
Numbered ==
  \E n \in 0..MaxDrafts :
    /\ InDraft = 1..n
    /\ \A e \in Editors : edit[e].op = "draft" => edit[e].v <= n + 1

\* What is about to be written was decided on a version that exists, and citing an item needs
\* one that has left its draft.
EditsAreSound ==
  \A e \in Editors :
    /\ edit[e].op = "draft" /\ edit[e].cites => item.status # "draft"
    /\ edit[e].op = "publish" => /\ version[edit[e].v].status # "absent"
                                 /\ version[edit[e].v].status = "archived"
                                      => edit[e].v \in reopening
    /\ edit[e].op = "archive" => version[edit[e].v].status \in {"published", "archived"}

\* Whoever reads the agent reads a version that was published, and so does whoever runs it.
PublishedIsPublished ==
  /\ \A v \in VersionNumbers : version[v].cites => item.status # "draft"
  /\ agent.published # 0 => version[agent.published].status \in {"published", "archived"}
  /\ call.at = "created" => /\ call.version \in VersionNumbers
                            /\ version[call.version].status \in {"published", "archived"}

CatalogueInv == CatalogueTypeOK /\ Numbered /\ EditsAreSound /\ PublishedIsPublished

\* The next number is the one after the last.
LEMMA NextNumberFollows ==
  ASSUME NEW n \in 0..MaxDrafts, InDraft = 1..n
  PROVE  NextNumber = n + 1
  <1>1. n \in Nat /\ MaxDrafts \in Nat /\ n + 1 \in 1..(MaxDrafts + 1)
    BY CatalogueAssumption
  <1>2. n + 1 \notin InDraft /\ 1..((n + 1) - 1) = InDraft
    BY <1>1
  <1>3. ASSUME NEW m \in 1..(MaxDrafts + 1), m \notin InDraft, 1..(m - 1) = InDraft
        PROVE  m = n + 1
    <2>1. m \in Nat /\ m >= 1 /\ m - 1 \in Nat
      BY <1>1, <1>3
    <2>2. m > n
      BY <1>1, <1>3, <2>1
    <2>3. ~ (m > n + 1)
      <3> SUFFICES ASSUME m > n + 1 PROVE FALSE
        OBVIOUS
      <3>1. n + 1 \in 1..(m - 1)
        BY <1>1, <2>1
      <3> QED
        BY <1>2, <1>3, <3>1
    <2> QED
      BY <1>1, <2>1, <2>2, <2>3
  <1> QED
    BY <1>1, <1>2, <1>3 DEF NextNumber

\* An editor that only decides on something sound keeps the invariant.
LEMMA DecisionsAreSound ==
  ASSUME CatalogueInv, NEW e \in Editors, NEW x \in Edits, Holds(e, x),
         UNCHANGED <<rowVars, call, reopening>>,
         x.op = "draft" => /\ x.cites => item.status # "draft"
                           /\ x.v # 0 => x.v = NextNumber,
         x.op = "publish" => version[x.v].status = "draft",
         x.op = "archive" => version[x.v].status = "published"
  PROVE  CatalogueInv'
  <1>1. CatalogueTypeOK'
    BY DEF CatalogueInv, CatalogueTypeOK, Holds, rowVars
  <1>2. Numbered'
    <2>1. PICK n \in 0..MaxDrafts :
            /\ InDraft = 1..n
            /\ \A d \in Editors : edit[d].op = "draft" => edit[d].v <= n + 1
      BY DEF CatalogueInv, Numbered
    <2>2. InDraft' = 1..n
      BY <2>1 DEF InDraft, rowVars
    <2>3. x.op = "draft" => x.v = 0 \/ x.v = n + 1
      BY <2>1, NextNumberFollows
    <2>4. 0 <= n + 1 /\ n + 1 <= n + 1
      BY CatalogueAssumption
    <2>5. \A d \in Editors : edit'[d].op = "draft" => edit'[d].v <= n + 1
      BY <2>1, <2>3, <2>4 DEF Holds
    <2> QED
      BY <2>2, <2>5 DEF Numbered
  <1>3. EditsAreSound'
    <2>1. UNCHANGED <<version, item, reopening>> /\ EditsAreSound
      BY DEF rowVars, CatalogueInv
    <2> QED
      BY <2>1 DEF EditsAreSound, Holds
  <1>4. PublishedIsPublished'
    BY DEF CatalogueInv, PublishedIsPublished, rowVars
  <1> QED
    BY <1>1, <1>2, <1>3, <1>4 DEF CatalogueInv

\* The decisions of the services are sound.
LEMMA EditorsDecide ==
  ASSUME CatalogueInv, NEW e \in Editors,
         \/ CheckConfig(e) \/ NumberDraft(e)
         \/ \E v \in VersionNumbers : PublishVersion(e, v) \/ ArchiveVersion(e, v)
         \/ UpdateItem(e) \/ MoveItem(e)
  PROVE  CatalogueInv' /\ UNCHANGED <<rowVars, call, reopening>>
  <1>0. CatalogueTypeOK /\ item \in Item
    BY DEF CatalogueInv, CatalogueTypeOK
  <1>1. CASE CheckConfig(e)
    <2>1. PICK cites \in BOOLEAN :
            (cites => IsActive) /\ Begins(e, [op |-> "draft", v |-> 0, cites |-> cites])
      BY <1>1 DEF CheckConfig
    <2> DEFINE x == [op |-> "draft", v |-> 0, cites |-> cites]
    <2>2. x \in Edits /\ Holds(e, x) /\ UNCHANGED <<rowVars, call, reopening>>
      BY <1>0, <2>1, EditsMade, EditsTurn
    <2>3. x.op = "draft" /\ x.v = 0 /\ (x.cites => item.status # "draft")
      BY <2>1 DEF IsActive
    <2> HIDE DEF x
    <2> QED
      BY <2>2, <2>3, DecisionsAreSound
  <1>2. CASE NumberDraft(e)
    <2>0. edit[e].op = "draft" /\ edit[e].cites \in BOOLEAN
          /\ (edit[e].cites => item.status # "draft")
          /\ edit[e] \in [op : {"draft"}, v : VersionNumbers \cup {0}, cites : BOOLEAN]
      <3>1. edit[e].op = "draft" /\ edit[e] \in Edits
        BY <1>0, <1>2, EditFields DEF NumberDraft
      <3> QED
        BY <1>0, <3>1, EditFields DEF Edits, CatalogueInv, EditsAreSound
    <2> DEFINE x == [op |-> "draft", v |-> NextNumber, cites |-> edit[e].cites]
    <2>1. NextNumber \in VersionNumbers
      <3>1. PICK n \in 0..MaxDrafts : InDraft = 1..n
        BY DEF CatalogueInv, Numbered
      <3>2. NextNumber = n + 1 /\ NextNumber <= MaxDrafts
        BY <1>2, <3>1, NextNumberFollows DEF NumberDraft
      <3> QED
        BY <3>2, CatalogueAssumption DEF VersionNumbers
    <2>2. x \in Edits
      BY <2>0, <2>1, EditsMade
    <2>3. [edit[e] EXCEPT !.v = NextNumber] = x
      BY <2>0
    <2>4. x.op = "draft" /\ x.v = NextNumber /\ x.cites = edit[e].cites
      OBVIOUS
    <2> HIDE DEF x
    <2>5. Holds(e, x) /\ UNCHANGED <<rowVars, call, reopening>>
      BY <1>0, <1>2, <2>2, <2>3 DEF NumberDraft, Holds, CatalogueTypeOK
    <2> QED
      BY <2>0, <2>2, <2>4, <2>5, DecisionsAreSound
  <1>3. ASSUME NEW v \in VersionNumbers, PublishVersion(e, v)
        PROVE  CatalogueInv' /\ UNCHANGED <<rowVars, call, reopening>>
    <2> DEFINE x == [op |-> "publish", v |-> v, clears |-> agent.draft = v]
    <2>1. x \in Edits /\ x.op = "publish" /\ x.v = v
      BY EditsMade
    <2> HIDE DEF x
    <2>2. Holds(e, x) /\ UNCHANGED <<rowVars, call, reopening>>
      BY <1>0, <1>3, <2>1, EditsTurn DEF PublishVersion, x
    <2> QED
      BY <1>3, <2>1, <2>2, DecisionsAreSound DEF PublishVersion
  <1>4. ASSUME NEW v \in VersionNumbers, ArchiveVersion(e, v)
        PROVE  CatalogueInv' /\ UNCHANGED <<rowVars, call, reopening>>
    <2> DEFINE x == [op |-> "archive", v |-> v]
    <2>1. x \in Edits /\ x.op = "archive" /\ x.v = v
      BY EditsMade
    <2> HIDE DEF x
    <2>2. Holds(e, x) /\ UNCHANGED <<rowVars, call, reopening>>
      BY <1>0, <1>4, <2>1, EditsTurn DEF ArchiveVersion, x
    <2> QED
      BY <1>4, <2>1, <2>2, DecisionsAreSound DEF ArchiveVersion
  <1>5. CASE UpdateItem(e) \/ MoveItem(e)
    <2>1. PICK new \in Item : Begins(e, [op |-> "item", becomes |-> new])
      <3>1. CASE UpdateItem(e)
        <4>1. PICK c \in Contents :
                Begins(e, [op |-> "item", becomes |-> [item EXCEPT !.content = c]])
          BY <3>1 DEF UpdateItem
        <4>2. [item EXCEPT !.content = c] \in Item
          BY <1>0 DEF Item
        <4> QED
          BY <4>1, <4>2
      <3>2. CASE MoveItem(e)
        <4>1. PICK next \in {"active", "archived"} :
                Begins(e, [op |-> "item", becomes |-> [item EXCEPT !.status = next]])
          BY <3>2 DEF MoveItem
        <4>2. [item EXCEPT !.status = next] \in Item
          BY <1>0 DEF Item
        <4> QED
          BY <4>1, <4>2
      <3> QED
        BY <1>5, <3>1, <3>2
    <2> DEFINE x == [op |-> "item", becomes |-> new]
    <2>2. x \in Edits /\ x.op = "item"
      BY EditsMade
    <2> HIDE DEF x
    <2>3. Holds(e, x) /\ UNCHANGED <<rowVars, call, reopening>>
      BY <1>0, <2>1, <2>2, EditsTurn DEF x
    <2> QED
      BY <2>2, <2>3, DecisionsAreSound
  <1> QED
    BY <1>1, <1>2, <1>3, <1>4, <1>5

\* Version v becomes x, and the others stay what they are.
VersionBecomes(v, x) ==
  /\ version' \in [VersionNumbers -> AgentVersion] /\ version'[v] = x
  /\ \A u \in VersionNumbers \ {v} : version'[u] = version[u]

\* What the writes make of a version.
LEMMA DraftRecord ==
  ASSUME NEW y \in AgentVersion, NEW b \in BOOLEAN
  PROVE  /\ [y EXCEPT !.status = "draft", !.cites = b] \in AgentVersion
         /\ [y EXCEPT !.status = "draft", !.cites = b].status = "draft"
         /\ [y EXCEPT !.status = "draft", !.cites = b].cites = b
  BY DEF AgentVersion

LEMMA VersionRecords ==
  ASSUME NEW y \in AgentVersion
  PROVE  /\ [y EXCEPT !.status = "published", !.publications = @ + 1] \in AgentVersion
         /\ [y EXCEPT !.status = "published", !.publications = @ + 1].status = "published"
         /\ [y EXCEPT !.status = "published", !.publications = @ + 1].cites = y.cites
         /\ [y EXCEPT !.status = "archived"] \in AgentVersion
         /\ [y EXCEPT !.status = "archived"].status = "archived"
         /\ [y EXCEPT !.status = "archived"].cites = y.cites
  <1>1. y.publications + 1 \in Nat
    BY DEF AgentVersion
  <1> DEFINE n == y.publications + 1
  <1>2. n \in Nat
    BY <1>1
  <1> HIDE DEF n
  <1>3. /\ [y EXCEPT !.status = "published", !.publications = n] \in AgentVersion
        /\ [y EXCEPT !.status = "published", !.publications = n].status = "published"
        /\ [y EXCEPT !.status = "published", !.publications = n].cites = y.cites
    BY <1>2 DEF AgentVersion
  <1>4. [y EXCEPT !.status = "published", !.publications = @ + 1]
          = [y EXCEPT !.status = "published", !.publications = n]
    BY DEF n
  <1>5. /\ [y EXCEPT !.status = "archived"] \in AgentVersion
        /\ [y EXCEPT !.status = "archived"].status = "archived"
        /\ [y EXCEPT !.status = "archived"].cites = y.cites
    BY DEF AgentVersion
  <1> QED
    BY <1>3, <1>4, <1>5

LEMMA VersionWritten ==
  ASSUME CatalogueTypeOK, NEW v \in VersionNumbers, NEW x \in AgentVersion,
         version' = [version EXCEPT ![v] = x]
  PROVE  VersionBecomes(v, x)
  BY DEF CatalogueTypeOK, VersionBecomes

\* What the commits do to the rows that a call may run.
FrozenRows ==
  /\ \A v \in VersionNumbers : version[v].status \in {"published", "archived"} =>
       \/ version'[v] \in {version[v], [version[v] EXCEPT !.status = "archived"]}
       \/ v \in reopening
  /\ item.status # "draft" => item'.content = item.content /\ item'.status # "draft"

\* A draft is inserted under a free number, or not at all.
LEMMA InsertDraftKeeps ==
  ASSUME CatalogueInv, NEW e \in Editors, InsertDraft(e)
  PROVE  CatalogueInv' /\ FrozenRows
  <1> DEFINE v == edit[e].v
  <1>0. /\ CatalogueTypeOK /\ edit[e].op = "draft" /\ v \in VersionNumbers
        /\ edit[e].cites \in BOOLEAN /\ (edit[e].cites => item.status # "draft")
        /\ Holds(e, NoEdit) /\ UNCHANGED <<item, routed, active, call, reopening>>
        /\ NoEdit.op = "none"
    <2>1. CatalogueTypeOK /\ edit[e].op = "draft" /\ v # 0 /\ Ends(e)
          /\ UNCHANGED <<item, routed, active, call, reopening>>
      BY DEF CatalogueInv, InsertDraft
    <2> QED
      BY <2>1, EditFields, EditsTurn DEF CatalogueInv, EditsAreSound, NoEdit
  <1>1. CASE version[v].status # "absent"
    <2>1. UNCHANGED <<version, agent>>
      BY <1>1 DEF InsertDraft
    <2>2. CatalogueTypeOK'
      BY <1>0, <2>1 DEF CatalogueTypeOK, Holds
    <2>3. Numbered'
      BY <1>0, <2>1 DEF CatalogueInv, Numbered, InDraft, Holds
    <2>4. EditsAreSound'
      BY <1>0, <2>1 DEF CatalogueInv, EditsAreSound, Holds
    <2>5. PublishedIsPublished'
      BY <1>0, <2>1 DEF CatalogueInv, PublishedIsPublished
    <2> QED
      BY <1>0, <2>1, <2>2, <2>3, <2>4, <2>5 DEF CatalogueInv, FrozenRows
  <1>2. CASE version[v].status = "absent"
    <2> DEFINE x == [version[v] EXCEPT !.status = "draft", !.cites = edit[e].cites]
    <2>0. x \in AgentVersion /\ x.status = "draft" /\ x.cites = edit[e].cites
      <3> DEFINE y == version[v]
                 b == edit[e].cites
      <3>1. y \in AgentVersion /\ b \in BOOLEAN
        BY <1>0 DEF CatalogueTypeOK
      <3> HIDE DEF y, b
      <3>2. /\ [y EXCEPT !.status = "draft", !.cites = b] \in AgentVersion
            /\ [y EXCEPT !.status = "draft", !.cites = b].status = "draft"
            /\ [y EXCEPT !.status = "draft", !.cites = b].cites = b
        BY <3>1, DraftRecord
      <3> QED
        BY <3>2 DEF y, b
    <2>1. version' = [version EXCEPT ![v] = x] /\ agent' = [agent EXCEPT !.draft = v]
      BY <1>0, <1>2 DEF InsertDraft, CatalogueTypeOK
    <2> HIDE DEF x
    <2>2. /\ VersionBecomes(v, version'[v]) /\ version'[v].status = "draft"
          /\ version'[v].cites = edit[e].cites
      BY <1>0, <2>0, <2>1, VersionWritten DEF VersionBecomes
    <2>3. agent' \in [draft : VersionNumbers \cup {0}, published : VersionNumbers \cup {0}]
          /\ agent'.published = agent.published
      BY <1>0, <2>1 DEF CatalogueTypeOK
    <2> HIDE DEF v
    <2>4. CatalogueTypeOK'
      BY <1>0, <2>2, <2>3 DEF CatalogueTypeOK, Holds, VersionBecomes
    <2>5. Numbered'
      <3>1. PICK n \in 0..MaxDrafts :
              /\ InDraft = 1..n
              /\ \A d \in Editors : edit[d].op = "draft" => edit[d].v <= n + 1
        BY DEF CatalogueInv, Numbered
      <3>2. v \in Nat /\ v >= 1 /\ v <= MaxDrafts /\ n \in Nat /\ MaxDrafts \in Nat
        BY <1>0, CatalogueAssumption DEF VersionNumbers
      <3>3. v = n + 1
        <4>1. v <= n + 1 /\ v \notin 1..n
          BY <1>0, <1>2, <3>1 DEF InDraft, v
        <4> QED
          BY <3>2, <4>1
      <3>4. InDraft' = 1..n \cup {v}
        BY <1>0, <2>2, <3>1 DEF InDraft, VersionBecomes
      <3>5. 1..n \cup {v} = 1..(n + 1) /\ n + 1 \in 0..MaxDrafts
        BY <3>2, <3>3
      <3>6. ASSUME NEW d \in Editors, edit'[d].op = "draft"
            PROVE  edit'[d].v <= (n + 1) + 1
        <4>1. edit'[d] = edit[d] /\ edit[d].v \in Nat
          BY <1>0, <3>6, EditFields DEF Holds, VersionNumbers
        <4>2. edit[d].v <= n + 1
          BY <3>1, <3>6, <4>1
        <4> QED
          BY <3>2, <4>1, <4>2
      <3> QED
        BY <3>4, <3>5, <3>6 DEF Numbered
    <2>6. EditsAreSound'
      <3>1. \A d \in Editors : edit'[d] = edit[d] \/ edit'[d].op = "none"
        BY <1>0 DEF Holds
      <3>2. ASSUME NEW d \in Editors, edit'[d] = edit[d], edit[d].op \in {"publish", "archive"}
            PROVE  version'[edit[d].v] = version[edit[d].v]
        <4>1. edit[d].v \in VersionNumbers /\ edit[d].v # v
          BY <1>0, <1>2, <3>2, EditFields DEF CatalogueInv, EditsAreSound
        <4> QED
          BY <2>2, <4>1 DEF VersionBecomes
      <3> QED
        BY <1>0, <3>1, <3>2 DEF CatalogueInv, EditsAreSound
    <2>7. PublishedIsPublished'
      <3>1. \A u \in VersionNumbers : version[u].status # "absent" => version'[u] = version[u]
        BY <1>2, <2>2 DEF VersionBecomes, v
      <3>2. agent.published # 0 => agent.published \in VersionNumbers
        BY <1>0 DEF CatalogueTypeOK
      <3>3. \A u \in VersionNumbers : version'[u].cites => item.status # "draft"
        BY <1>0, <2>2 DEF VersionBecomes, CatalogueInv, PublishedIsPublished, v
      <3> QED
        BY <1>0, <2>3, <3>1, <3>2, <3>3 DEF CatalogueInv, PublishedIsPublished
    <2>8. FrozenRows
      BY <1>0, <1>2, <2>2 DEF FrozenRows, VersionBecomes, v
    <2> QED
      BY <2>4, <2>5, <2>6, <2>7, <2>8 DEF CatalogueInv
  <1> QED
    BY <1>1, <1>2

\* A publication or an archiving of a version leaves its number and its citations alone.
LEMMA CommitsKeep ==
  ASSUME CatalogueInv, NEW e \in Editors, NEW v \in VersionNumbers, Holds(e, NoEdit),
         NEW x \in AgentVersion, x.status \in {"published", "archived"},
         x.cites = version[v].cites, version' = [version EXCEPT ![v] = x],
         agent' \in [draft : VersionNumbers \cup {0}, published : VersionNumbers \cup {0}],
         agent'.published = agent.published \/ (agent'.published = v),
         reopening \subseteq reopening', reopening' \subseteq VersionNumbers,
         x.status = "archived" =>
           \A d \in Editors : edit[d].op = "publish" /\ edit[d].v = v => v \in reopening',
         version[v].status # "absent",
         UNCHANGED <<item, routed, active, call>>
  PROVE  CatalogueInv'
  <1>0. CatalogueTypeOK /\ version[v].cites \in BOOLEAN /\ NoEdit.op = "none"
    BY DEF CatalogueInv, CatalogueTypeOK, AgentVersion, NoEdit
  <1>1. VersionBecomes(v, version'[v]) /\ version'[v].status = x.status
        /\ version'[v].cites = version[v].cites
    BY <1>0, VersionWritten DEF VersionBecomes
  <1>2. CatalogueTypeOK'
    BY <1>0, <1>1 DEF CatalogueTypeOK, VersionBecomes, Holds
  <1>3. /\ \A u \in VersionNumbers : /\ version'[u].cites = version[u].cites
                                     /\ version[u].status \in {"published", "archived"}
                                          => version'[u].status \in {"published", "archived"}
                                     /\ version'[u].status = "absent"
                                          <=> version[u].status = "absent"
        /\ version'[v].status \in {"published", "archived"}
        /\ \A d \in Editors : edit'[d] = edit[d] \/ edit'[d].op = "none"
    BY <1>0, <1>1 DEF VersionBecomes, Holds
  <1>4. InDraft' = InDraft
    BY <1>3 DEF InDraft
  <1>5. Numbered'
    <2>1. PICK n \in 0..MaxDrafts :
            /\ InDraft = 1..n
            /\ \A d \in Editors : edit[d].op = "draft" => edit[d].v <= n + 1
      BY DEF CatalogueInv, Numbered
    <2> QED
      BY <1>3, <1>4, <2>1 DEF Numbered
  <1>6. EditsAreSound'
    <2>1. ASSUME NEW d \in Editors, edit'[d].op = "publish"
          PROVE  /\ version'[edit'[d].v].status # "absent"
                 /\ version'[edit'[d].v].status = "archived" => edit'[d].v \in reopening'
      <3>1. edit'[d] = edit[d] /\ edit[d].v \in VersionNumbers /\ edit[d].op = "publish"
        BY <1>0, <1>3, <2>1, EditFields
      <3>2. CASE edit[d].v = v
        BY <1>1, <3>1, <3>2
      <3>3. CASE edit[d].v # v
        BY <1>1, <3>1, <3>3 DEF VersionBecomes, CatalogueInv, EditsAreSound
      <3> QED
        BY <3>2, <3>3
    <2>2. ASSUME NEW d \in Editors, edit'[d].op = "archive"
          PROVE  version'[edit'[d].v].status \in {"published", "archived"}
      <3>1. edit'[d] = edit[d] /\ edit[d].v \in VersionNumbers /\ edit[d].op = "archive"
        BY <1>0, <1>3, <2>2, EditFields
      <3> QED
        BY <1>3, <3>1 DEF CatalogueInv, EditsAreSound
    <2>3. ASSUME NEW d \in Editors, edit'[d].op = "draft", edit'[d].cites
          PROVE  item'.status # "draft"
      BY <1>3, <2>3 DEF CatalogueInv, EditsAreSound
    <2> QED
      BY <2>1, <2>2, <2>3 DEF EditsAreSound
  <1>7. PublishedIsPublished'
    <2>1. agent'.published # 0 =>
            version'[agent'.published].status \in {"published", "archived"}
      <3>1. CASE agent'.published = agent.published
        BY <1>0, <1>3, <3>1 DEF CatalogueInv, PublishedIsPublished, CatalogueTypeOK
      <3>2. CASE agent'.published = v
        BY <1>3, <3>2
      <3> QED
        BY <3>1, <3>2
    <2> QED
      BY <1>3, <2>1 DEF CatalogueInv, PublishedIsPublished
  <1> QED
    BY <1>2, <1>5, <1>6, <1>7 DEF CatalogueInv

\* The commits of a publication and of an archiving are of this kind, and what was published
\* is at most archived, but for what is reopened.
LEMMA VersionCommits ==
  ASSUME CatalogueInv, NEW e \in Editors, CommitPublication(e) \/ CommitArchive(e)
  PROVE  CatalogueInv' /\ FrozenRows
  <1> DEFINE v == edit[e].v
  <1>0. /\ CatalogueTypeOK /\ Holds(e, NoEdit) /\ v \in VersionNumbers
        /\ edit[e].op \in {"publish", "archive"} /\ version[v].status # "absent"
        /\ version \in [VersionNumbers -> AgentVersion] /\ version[v] \in AgentVersion
        /\ UNCHANGED <<item, routed, active, call>>
    <2>1. /\ CatalogueTypeOK /\ edit[e].op \in {"publish", "archive"} /\ Ends(e)
          /\ UNCHANGED <<item, routed, active, call>>
      BY DEF CatalogueInv, CommitPublication, CommitArchive
    <2> QED
      BY <2>1, EditFields, EditsTurn DEF CatalogueInv, EditsAreSound, CatalogueTypeOK
  <1>1. CASE CommitPublication(e) /\ MayBecome(v, "published")
    <2> DEFINE x == [version[v] EXCEPT !.status = "published", !.publications = @ + 1]
    <2>0. x \in AgentVersion /\ x.status = "published" /\ x.cites = version[v].cites
      BY <1>0, VersionRecords
    <2>1. /\ version' = [version EXCEPT ![v] = x]
          /\ agent' = [agent EXCEPT !.published = v,
                                    !.draft = IF edit[e].clears THEN 0 ELSE @]
          /\ UNCHANGED reopening
      BY <1>0, <1>1 DEF CommitPublication
    <2> HIDE DEF x
    <2>2. agent' \in [draft : VersionNumbers \cup {0}, published : VersionNumbers \cup {0}]
          /\ agent'.published = v
      BY <1>0, <2>1 DEF CatalogueTypeOK
    <2>3. /\ version[v].status # "published"
          /\ version[v].status = "archived" => v \in reopening
      BY <1>0, <1>1 DEF CommitPublication, MayBecome, CatalogueInv, EditsAreSound
    <2>4. \A u \in VersionNumbers : u # v => version'[u] = version[u]
      BY <1>0, <2>1
    <2> HIDE DEF v
    <2>5. CatalogueInv'
      BY <1>0, <2>0, <2>1, <2>2, CommitsKeep DEF CatalogueTypeOK
    <2> QED
      BY <1>0, <2>3, <2>4, <2>5 DEF FrozenRows
  <1>2. CASE CommitPublication(e) /\ ~ MayBecome(v, "published")
    <2>1. UNCHANGED <<version, agent, reopening>> /\ NoEdit.op = "none"
      BY <1>2 DEF CommitPublication, NoEdit
    <2>2. CatalogueTypeOK'
      BY <1>0, <2>1 DEF CatalogueTypeOK, Holds
    <2>3. Numbered'
      BY <1>0, <2>1 DEF CatalogueInv, Numbered, InDraft, Holds
    <2>4. EditsAreSound'
      BY <1>0, <2>1 DEF CatalogueInv, EditsAreSound, Holds
    <2>5. PublishedIsPublished'
      BY <1>0, <2>1 DEF CatalogueInv, PublishedIsPublished
    <2> QED
      BY <1>0, <2>1, <2>2, <2>3, <2>4, <2>5 DEF CatalogueInv, FrozenRows
  <1>3. CASE CommitArchive(e)
    <2> DEFINE x == [version[v] EXCEPT !.status = "archived"]
    <2>0. x \in AgentVersion /\ x.status = "archived" /\ x.cites = version[v].cites
      BY <1>0, VersionRecords
    <2>1. /\ version' = [version EXCEPT ![v] = x]
          /\ reopening' = IF \E d \in Editors : edit[d].op = "publish" /\ edit[d].v = v
                            THEN reopening \cup {v} ELSE reopening
          /\ UNCHANGED agent
      BY <1>0, <1>3 DEF CommitArchive
    <2>3. \A u \in VersionNumbers :
            version'[u] \in {version[u], [version[u] EXCEPT !.status = "archived"]}
      BY <1>0, <2>1
    <2> HIDE DEF v, x
    <2>4. /\ reopening \subseteq reopening' /\ reopening' \subseteq VersionNumbers
          /\ \A d \in Editors : edit[d].op = "publish" /\ edit[d].v = v => v \in reopening'
      BY <1>0, <2>1 DEF CatalogueTypeOK
    <2>5. CatalogueInv'
      BY <1>0, <2>0, <2>1, <2>4, CommitsKeep DEF CatalogueTypeOK
    <2> QED
      BY <1>0, <2>3, <2>5 DEF FrozenRows
  <1> QED
    BY <1>1, <1>2, <1>3

\* An item that has left its draft keeps its content.
LEMMA CommitItemKeeps ==
  ASSUME CatalogueInv, NEW e \in Editors, CommitItem(e)
  PROVE  CatalogueInv' /\ FrozenRows
  <1>0. /\ CatalogueTypeOK /\ Holds(e, NoEdit) /\ edit[e].becomes \in Item /\ item \in Item
        /\ UNCHANGED <<version, agent, routed, active, call, reopening>>
        /\ NoEdit.op = "none"
    <2>1. /\ CatalogueTypeOK /\ edit[e].op = "item" /\ Ends(e) /\ item \in Item
          /\ UNCHANGED <<version, agent, routed, active, call, reopening>>
      BY DEF CatalogueInv, CatalogueTypeOK, CommitItem
    <2> QED
      BY <2>1, EditFields, EditsTurn DEF NoEdit
  <1> DEFINE new == Written(item, edit[e].becomes)
  <1>1. new \in Item
    BY <1>0 DEF Written, Item
  <1>2. item' = item \/ (item' = new /\ ItemMayBecome(new))
    BY DEF CommitItem
  <1> HIDE DEF new
  <1>3. item' \in Item
        /\ (item.status # "draft" => item'.content = item.content /\ item'.status # "draft")
    BY <1>0, <1>1, <1>2 DEF ItemMayBecome
  <1>4. CatalogueTypeOK'
    BY <1>0, <1>3 DEF CatalogueTypeOK, Holds
  <1>5. Numbered'
    BY <1>0 DEF CatalogueInv, Numbered, InDraft, Holds
  <1>6. EditsAreSound'
    BY <1>0, <1>3 DEF CatalogueInv, EditsAreSound, Holds
  <1>7. PublishedIsPublished'
    BY <1>0, <1>3 DEF CatalogueInv, PublishedIsPublished
  <1> QED
    BY <1>0, <1>3, <1>4, <1>5, <1>6, <1>7 DEF CatalogueInv, FrozenRows

\* The number, the agent's status and the call change nothing that a call may run.
LEMMA CallSteps ==
  ASSUME CatalogueInv, UpdatePhoneNumber \/ UpdateAgent \/ ResolveInboundRoute \/ ResolveVersion
  PROVE  CatalogueInv' /\ FrozenRows
  <1>0. CatalogueTypeOK /\ UNCHANGED <<version, agent, item, edit, reopening>>
    BY DEF CatalogueInv, UpdatePhoneNumber, UpdateAgent, ResolveInboundRoute, ResolveVersion,
           OnCall, rowVars
  <1>1. routed' \in BOOLEAN /\ active' \in BOOLEAN
    BY <1>0 DEF CatalogueTypeOK, UpdatePhoneNumber, SyncInboundRoute, UpdateAgent,
                ResolveInboundRoute, ResolveVersion, OnCall, rowVars
  <1>2. \/ UNCHANGED call
        \/ call' = [at |-> "routed", version |-> 0]
        \/ call' = [at |-> "none", version |-> 0]
        \/ call' = [at |-> "created", version |-> agent.published] /\ agent.published # 0
    BY DEF UpdatePhoneNumber, UpdateAgent, ResolveInboundRoute, ResolveVersion,
           SelectAgentVersion, OnCall
  <1>3. agent.published \in VersionNumbers \cup {0}
    BY <1>0 DEF CatalogueTypeOK
  <1>4. call' \in [at : {"none", "routed", "created"}, version : VersionNumbers \cup {0}]
    BY <1>0, <1>2, <1>3 DEF CatalogueTypeOK
  <1>5. CatalogueTypeOK'
    BY <1>0, <1>1, <1>4 DEF CatalogueTypeOK
  <1>6. Numbered' /\ EditsAreSound'
    BY <1>0 DEF CatalogueInv, Numbered, InDraft, EditsAreSound
  <1>7. PublishedIsPublished'
    BY <1>0, <1>2, <1>3 DEF CatalogueInv, PublishedIsPublished
  <1> QED
    BY <1>0, <1>5, <1>6, <1>7 DEF CatalogueInv, FrozenRows

LEMMA CatalogueInvStep ==
  ASSUME CatalogueInv, [CatalogueNext]_catalogueVars
  PROVE  CatalogueInv' /\ FrozenRows
  <1>1. ASSUME UNCHANGED rowVars PROVE FrozenRows
    BY <1>1 DEF rowVars, FrozenRows
  <1>2. ASSUME NEW e \in Editors, EditStep(e)
        PROVE  CatalogueInv' /\ FrozenRows
    BY <1>1, <1>2, EditorsDecide, InsertDraftKeeps, VersionCommits, CommitItemKeeps DEF EditStep
  <1>3. CASE UNCHANGED catalogueVars
    BY <1>1, <1>3 DEF catalogueVars, rowVars, CatalogueInv, CatalogueTypeOK, Numbered, InDraft,
                      EditsAreSound, PublishedIsPublished
  <1> QED
    BY <1>2, <1>3, CallSteps DEF CatalogueNext

\* The inductive invariant of the catalogue: versions only leave their draft, an edit was
\* decided on something that exists, and a call runs what was published.
THEOREM CatalogueInvHolds == CatalogueSpec => []CatalogueInv
  <1>1. CatalogueInit => CatalogueInv
    <2> SUFFICES ASSUME CatalogueInit PROVE CatalogueInv
      OBVIOUS
    <2>1. CatalogueTypeOK
      <3>1. \E c \in Contents : TRUE
        BY CatalogueAssumption
      <3>2. item \in Item
        BY <3>1 DEF CatalogueInit, Item
      <3> QED
        BY <3>2, EditsMade DEF CatalogueInit, CatalogueTypeOK, AgentVersion
    <2>2. InDraft = {} /\ \A v \in VersionNumbers : ~ version[v].cites
      BY DEF CatalogueInit, InDraft
    <2>3. \A e \in Editors : edit[e].op = "none"
      BY DEF CatalogueInit, NoEdit
    <2>4. InDraft = 1..0 /\ 0 \in 0..MaxDrafts
      BY <2>2, CatalogueAssumption
    <2>5. Numbered /\ EditsAreSound
      BY <2>3, <2>4 DEF Numbered, EditsAreSound
    <2>6. PublishedIsPublished
      BY <2>2 DEF CatalogueInit, PublishedIsPublished
    <2> QED
      BY <2>1, <2>5, <2>6 DEF CatalogueInv
  <1>2. CatalogueInv /\ [CatalogueNext]_catalogueVars => CatalogueInv'
    BY CatalogueInvStep
  <1> QED
    BY <1>1, <1>2, PTL DEF CatalogueSpec

\* Every variable of the catalogue keeps its type.
THEOREM CatalogueTypeCorrect == CatalogueSpec => []CatalogueTypeOK
  <1>1. CatalogueInv => CatalogueTypeOK
    BY DEF CatalogueInv
  <1> QED
    BY <1>1, CatalogueInvHolds, PTL

\* CallRunsFrozenContent: what a call runs was published, its text reviewed, and neither
\* changes under it, whatever is edited meanwhile, but for a publication that was overtaken
\* by an archiving.
THEOREM CallRunsFrozenContentHolds == CatalogueSpec => CallRunsFrozenContent
  <1> DEFINE Frozen ==
        call.at = "created" =>
          LET was == version[call.version]
              is  == version'[call.version] IN
          /\ was.status \in {"published", "archived"}
          /\ is \in {was, [was EXCEPT !.status = "archived"]} \/ call.version \in reopening
          /\ was.cites => item.status # "draft" /\ item'.content = item.content
  <1>1. CatalogueInv /\ [CatalogueNext]_catalogueVars => [Frozen]_catalogueVars
    <2> SUFFICES ASSUME CatalogueInv, [CatalogueNext]_catalogueVars, call.at = "created"
                 PROVE  /\ version[call.version].status \in {"published", "archived"}
                        /\ \/ version'[call.version] \in
                                {version[call.version],
                                 [version[call.version] EXCEPT !.status = "archived"]}
                           \/ call.version \in reopening
                        /\ version[call.version].cites =>
                             item.status # "draft" /\ item'.content = item.content
      OBVIOUS
    <2>1. call.version \in VersionNumbers
          /\ version[call.version].status \in {"published", "archived"}
          /\ (version[call.version].cites => item.status # "draft")
      BY DEF CatalogueInv, PublishedIsPublished
    <2>2. FrozenRows
      BY CatalogueInvStep
    <2> QED
      BY <2>1, <2>2 DEF FrozenRows
  <1> HIDE DEF Frozen
  <1>2. CatalogueSpec => [][Frozen]_catalogueVars
    BY <1>1, CatalogueInvHolds, PTL DEF CatalogueSpec
  <1> QED
    BY <1>2 DEF CallRunsFrozenContent, Frozen

-----------------------------------------------------------------------------
(* OffhostBackups: types                                                   *)

ProcessType ==
  [at : ProcessStages, backup : BOOLEAN, dump : 0..MaxDumps, read : SUBSET Dumps,
   doomed : SUBSET Dumps, gone : SUBSET Dumps]

\* Process p becomes what it is, and the others stay what they are.
Turns(p) ==
  /\ process' \in [Processes -> ProcessType]
  /\ \A q \in Processes \ {p} : process'[q] = process[q]

\* It goes to another stage, with what it has in hand,
Moves(p, there) ==
  /\ Turns(p)
  /\ process'[p].at = there
  /\ process'[p].dump = process[p].dump /\ process'[p].read = process[p].read
  /\ process'[p].doomed = process[p].doomed /\ process'[p].gone = process[p].gone

\* or leaves it behind.
Clears(p, there) ==
  /\ Turns(p)
  /\ process'[p].at = there /\ process'[p].dump = 0
  /\ process'[p].doomed = {} /\ process'[p].gone = {}

\* The ways in which a step turns a process.
LEMMA ProcessTurns ==
  ASSUME BackupTypeOK, NEW p \in Processes
  PROVE  /\ \A there \in ProcessStages : Goes(p, there) => Moves(p, there)
         /\ Stops(p) => Clears(p, "idle")
         /\ Unlocks(p) => Clears(p, "unlock")
         /\ process' = [process EXCEPT ![p] = [Idle EXCEPT !.at = "retain"]]
              => Clears(p, "retain")
  <1>1. process \in [Processes -> ProcessType] /\ process[p] \in ProcessType
    BY DEF BackupTypeOK, ProcessType
  <1>2. ASSUME NEW there \in ProcessStages, NEW x \in ProcessType
        PROVE  /\ [x EXCEPT !.at = there] \in ProcessType
               /\ [x EXCEPT !.at = there].at = there
               /\ [x EXCEPT !.at = there].dump = x.dump
               /\ [x EXCEPT !.at = there].read = x.read
               /\ [x EXCEPT !.at = there].doomed = x.doomed
               /\ [x EXCEPT !.at = there].gone = x.gone
    BY DEF ProcessType
  <1>3. Idle \in ProcessType /\ {"idle", "unlock", "retain"} \subseteq ProcessStages
    <2>1. 0 \in 0..MaxDumps
      BY BackupAssumption
    <2> QED
      BY <2>1 DEF Idle, ProcessType, ProcessStages
  <1>4. Idle.at = "idle" /\ Idle.dump = 0 /\ Idle.doomed = {} /\ Idle.gone = {}
    BY DEF Idle
  <1>5. ASSUME NEW there \in ProcessStages, Goes(p, there)
        PROVE  Moves(p, there)
    BY <1>1, <1>2, <1>5 DEF Goes, Moves, Turns
  <1>6. Stops(p) => Clears(p, "idle")
    BY <1>1, <1>3, <1>4 DEF Stops, Clears, Turns
  <1>7. Unlocks(p) => Clears(p, "unlock")
    BY <1>1, <1>2, <1>3, <1>4 DEF Unlocks, Clears, Turns
  <1>8. process' = [process EXCEPT ![p] = [Idle EXCEPT !.at = "retain"]] => Clears(p, "retain")
    BY <1>1, <1>2, <1>3, <1>4 DEF Clears, Turns
  <1> QED
    BY <1>5, <1>6, <1>7, <1>8

\* What a process is.
LEMMA ProcessFields ==
  ASSUME BackupTypeOK, NEW p \in Processes
  PROVE  /\ process \in [Processes -> ProcessType] /\ process[p] \in ProcessType
         /\ process[p].at \in ProcessStages /\ process[p].backup \in BOOLEAN
         /\ process[p].dump \in 0..MaxDumps /\ process[p].read \subseteq Dumps
         /\ process[p].doomed \subseteq Dumps /\ process[p].gone \subseteq Dumps
  BY DEF BackupTypeOK, ProcessType

-----------------------------------------------------------------------------
(* OffhostBackups: the newest backup                                       *)

\* The stages in which a process has the lock file, or believes it has.
Holding == {"claimed", "held", "dumped", "transferred", "record", "recorded", "retain",
            "delete", "save", "unlock", "unlink"}

\* As long as no lock was taken from the living: the lock is the process's own, the dump it
\* has taken is the newest and not in the ledger yet, it writes what it has read, and it
\* deletes none that is not followed by a newer one.
HasLock(p) ==
  /\ process[p].at \in Holding => lock.by = p
  /\ process[p].at \in Holding \ {"claimed"} => lock.written
  /\ process[p].at \in {"dumped", "transferred", "record", "recorded"}
       => process[p].dump = taken /\ taken \in Dumps /\ taken \notin verified
  /\ process[p].at \in {"record", "recorded"} => process[p].dump \in remote
  /\ process[p].at \in {"recorded", "delete", "save"} => process[p].read = ledger
  /\ process[p].at \in {"delete", "save"}
       => /\ process[p].gone \cap remote = {}
          /\ \A d \in process[p].doomed \cup process[p].gone : \E m \in ledger : d < m

\* No dump is in the ledger or off the host that was not taken, and the newest entry of the
\* ledger is off the host.
LedgerIsSound ==
  /\ ledger \subseteq verified /\ verified \subseteq 1..taken
  /\ ledger # {} => \E m \in ledger : m \in remote /\ \A d \in ledger : d <= m
  /\ verified \cap remote \subseteq ledger

\* The stages in which a process has a dump in hand.
InHand == {"dumped", "transferred", "record", "recorded",
           "fetched", "checked", "restoring", "restored"}

\* A drill has a dump, and the drill database is its own once it restores.
DrillIsSound ==
  /\ \A p \in Processes :
       /\ process[p].at \in InHand => process[p].dump \in Dumps
       /\ process[p].at \in {"restoring", "restored"}
            => target = [dump |-> process[p].dump, whole |-> process[p].at = "restored"]
       /\ process[p].at \notin {"delete", "save"} => process[p].gone = {}
  /\ \A p, q \in Processes :
       process[p].at \in {"restoring", "restored"} /\ process[q].at \in {"restoring", "restored"}
         => p = q

BackupInv ==
  /\ BackupTypeOK
  /\ DrillIsSound
  /\ ~ overlapped => LedgerIsSound /\ \A p \in Processes : HasLock(p)

\* A set of dumps has an oldest.
LEMMA OldestExists ==
  ASSUME NEW S \in SUBSET Nat, S # {}
  PROVE  Min(S) \in S
  <1> DEFINE Less == {ss \in Nat \X Nat : ss[1] < ss[2]}
  <1>0. IsWellFoundedOn(Less, Nat)
    BY NatLessThanWellFounded DEF OpToRel
  <1>2. \A x, y \in Nat : y < x => <<y, x>> \in Less
    OBVIOUS
  <1> HIDE DEF Less
  <1>1. \E x \in S : \A y \in S : ~ (<<y, x>> \in Less)
    BY <1>0, WFMin
  <1>3. PICK x \in S : \A y \in S : ~ (<<y, x>> \in Less)
    BY <1>1
  <1>4. x \in Nat /\ \A y \in S : y \in Nat
    OBVIOUS
  <1>5. ASSUME NEW y \in S PROVE x <= y
    <2>1. ~ (<<y, x>> \in Less)
      BY <1>3
    <2>2. x \in Nat /\ y \in Nat
      OBVIOUS
    <2>3. ~ (y < x)
      BY <1>2, <2>1, <2>2
    <2> QED
      BY <2>2, <2>3
  <1> QED
    BY <1>5 DEF Min

\* What a step of p leaves of it: it keeps its part of the invariant, and the others see no
\* change of the lock or have no part in it.
Fits(p) ==
  /\ Turns(p)
  /\ lock' \in [by : Processes \cup {"nobody", "dead"}, written : BOOLEAN]
  /\ overlapped' \in BOOLEAN
  /\ ~ overlapped' => ~ overlapped /\ HasLock(p)'
  /\ ~ overlapped' => UNCHANGED <<lock, copyVars>> \/ lock.by \notin Processes \ {p}
  /\ process'[p].at \in InHand => process'[p].dump \in Dumps
  /\ process'[p].at \notin {"restoring", "restored"}
  /\ process'[p].at \notin {"delete", "save"} => process'[p].gone = {}

LEMMA FittingStep ==
  ASSUME BackupInv, NEW p \in Processes, Fits(p),
         taken' \in 0..MaxDumps, remote' \subseteq Dumps, ledger' \subseteq Dumps,
         verified' \subseteq Dumps, target' = target,
         ~ overlapped' => LedgerIsSound'
  PROVE  BackupInv'
  <1>1. BackupTypeOK'
    BY DEF BackupInv, BackupTypeOK, Fits, Turns, ProcessType
  <1>2. DrillIsSound'
    <2>1. \A q \in Processes : q # p => process'[q] = process[q]
      BY DEF Fits, Turns
    <2>2. DrillIsSound
      BY DEF BackupInv
    <2>3. ASSUME NEW q \in Processes
          PROVE  /\ process'[q].at \in InHand => process'[q].dump \in Dumps
                 /\ process'[q].at \in {"restoring", "restored"}
                      => target' = [dump |-> process'[q].dump,
                                    whole |-> process'[q].at = "restored"]
                 /\ process'[q].at \notin {"delete", "save"} => process'[q].gone = {}
      BY <2>1, <2>2 DEF DrillIsSound, Fits
    <2>4. ASSUME NEW q \in Processes, NEW r \in Processes,
                 process'[q].at \in {"restoring", "restored"},
                 process'[r].at \in {"restoring", "restored"}
          PROVE  q = r
      BY <2>1, <2>2, <2>4 DEF DrillIsSound, Fits
    <2> QED
      BY <2>3, <2>4 DEF DrillIsSound
  <1>3. ASSUME ~ overlapped', NEW q \in Processes
        PROVE  HasLock(q)'
    <2>1. CASE q = p
      BY <1>3, <2>1 DEF Fits
    <2>2. CASE q # p
      <3>1. process'[q] = process[q] /\ HasLock(q)
        BY <1>3, <2>2 DEF BackupInv, Fits, Turns
      <3>2. CASE UNCHANGED <<lock, copyVars>>
        BY <3>1, <3>2 DEF HasLock, copyVars
      <3>3. CASE lock.by \notin Processes \ {p}
        <4>1. process'[q].at \notin Holding
          BY <2>2, <3>1, <3>3 DEF HasLock
        <4> QED
          BY <4>1 DEF HasLock, Holding, InHand
      <3> QED
        BY <1>3, <3>2, <3>3 DEF Fits
    <2> QED
      BY <2>1, <2>2
  <1> QED
    BY <1>1, <1>2, <1>3 DEF BackupInv

\* The steps about the lock file, the tests and the ends of the drill change neither ledger
\* nor dumps.
LEMMA LockStepsFit ==
  ASSUME BackupInv, NEW p \in Processes,
         \/ StartsRun(p) \/ WriteLock(p) \/ JudgeLock(p) \/ RemoveStaleLock(p) \/ ClaimAgain(p)
         \/ CheckToken(p) \/ ReleaseLock(p) \/ OffHostVerify(p) \/ LoadToRecord(p)
         \/ RetentionOnly(p) \/ SelectRetention(p) \/ Recover(p) \/ CheckTarget(p)
         \/ ReportDrill(p) \/ Dies(p)
  PROVE  Fits(p)
  <1>0. /\ BackupTypeOK
        /\ lock \in [by : Processes \cup {"nobody", "dead"}, written : BOOLEAN]
        /\ overlapped \in BOOLEAN
        /\ ~ overlapped => HasLock(p)
        /\ process[p].at \notin {"delete", "save"} => process[p].gone = {}
        /\ process[p].at \in InHand => process[p].dump \in Dumps
        /\ NoLock \in [by : Processes \cup {"nobody", "dead"}, written : BOOLEAN]
        /\ NoLock.by \notin Processes
    BY BackupAssumption DEF BackupInv, BackupTypeOK, DrillIsSound, NoLock
  <1>1. CASE StartsRun(p)
    <2>1. PICK backup \in BOOLEAN :
            process' = [process EXCEPT ![p].backup = backup,
                                       ![p].at = IF lock = NoLock THEN "claimed" ELSE "refused"]
      BY <1>1 DEF StartsRun
    <2> DEFINE there == IF lock = NoLock THEN "claimed" ELSE "refused"
    <2>2. ASSUME NEW x \in ProcessType
          PROVE  /\ [x EXCEPT !.backup = backup, !.at = there] \in ProcessType
                 /\ [x EXCEPT !.backup = backup, !.at = there].at = there
                 /\ [x EXCEPT !.backup = backup, !.at = there].gone = x.gone
      BY DEF ProcessType, ProcessStages
    <2>3. process'[p] = [process[p] EXCEPT !.backup = backup, !.at = there]
          /\ \A q \in Processes \ {p} : process'[q] = process[q]
      BY <1>0, <2>1 DEF BackupTypeOK
    <2>4. Turns(p) /\ process'[p].at = there /\ process'[p].gone = process[p].gone
      <3>1. process[p] \in ProcessType /\ process \in [Processes -> ProcessType]
        BY <1>0, ProcessFields
      <3>2. process'[p] \in ProcessType /\ process'[p].at = there
            /\ process'[p].gone = process[p].gone
        BY <2>2, <2>3, <3>1
      <3>3. process' \in [Processes -> ProcessType]
        BY <2>1, <2>3, <3>1, <3>2
      <3> QED
        BY <2>3, <3>2, <3>3 DEF Turns
    <2>5. process[p].gone = {} /\ process'[p].at \in {"claimed", "refused"}
      BY <1>0, <1>1, <2>4 DEF StartsRun, At
    <2> QED
      BY <1>0, <1>1, <2>4, <2>5 DEF StartsRun, Fits, HasLock, Holding, InHand
  <1>2. CASE WriteLock(p)
    <2>1. Moves(p, "held") /\ process[p].at = "claimed"
      BY <1>0, <1>2, ProcessTurns DEF WriteLock, At, ProcessStages
    <2> QED
      BY <1>0, <1>2, <2>1 DEF WriteLock, Moves, Fits, HasLock, Holding, InHand
  <1>3. CASE JudgeLock(p)
    <2>1. (Moves(p, "stale") \/ Clears(p, "idle")) /\ process[p].at = "refused"
      BY <1>0, <1>3, ProcessTurns DEF JudgeLock, At, ProcessStages
    <2> QED
      BY <1>0, <1>3, <2>1
      DEF JudgeLock, lockVars, copyVars, Moves, Clears, Fits, HasLock, Holding, InHand
  <1>4. CASE RemoveStaleLock(p)
    <2>1. Moves(p, "cleared") /\ process[p].at = "stale"
      BY <1>0, <1>4, ProcessTurns DEF RemoveStaleLock, At, ProcessStages
    <2> QED
      BY <1>0, <1>4, <2>1 DEF RemoveStaleLock, RemovesLock, Moves, Fits, HasLock, Holding, InHand
  <1>5. CASE ClaimAgain(p)
    <2>1. /\ process[p].at = "cleared"
          /\ \/ Moves(p, "claimed") /\ lock = NoLock /\ lock' = [by |-> p, written |-> FALSE]
             \/ Clears(p, "idle") /\ UNCHANGED lock
      BY <1>0, <1>5, ProcessTurns DEF ClaimAgain, At, ProcessStages
    <2>2. overlapped' = overlapped /\ UNCHANGED copyVars
          /\ process[p].gone = {}
      BY <1>0, <1>5, <2>1 DEF ClaimAgain
    <2>3. CASE Moves(p, "claimed") /\ lock = NoLock /\ lock' = [by |-> p, written |-> FALSE]
      BY <1>0, <2>2, <2>3 DEF copyVars, Moves, Fits, HasLock, Holding, InHand
    <2>4. CASE Clears(p, "idle") /\ UNCHANGED lock
      BY <1>0, <2>2, <2>4 DEF copyVars, Clears, Fits, HasLock, Holding, InHand
    <2> QED
      BY <2>1, <2>3, <2>4
  <1>6. CASE CheckToken(p)
    <2>1. /\ process[p].at = "unlock"
          /\ Clears(p, "idle") \/ (Moves(p, "unlink") /\ lock = [by |-> p, written |-> TRUE])
      BY <1>0, <1>6, ProcessTurns DEF CheckToken, At, ProcessStages
    <2> QED
      BY <1>0, <1>6, <2>1
      DEF CheckToken, lockVars, copyVars, Moves, Clears, Fits, HasLock, Holding, InHand
  <1>7. CASE ReleaseLock(p)
    <2>1. Clears(p, "idle") /\ process[p].at = "unlink"
      BY <1>0, <1>7, ProcessTurns DEF ReleaseLock, At
    <2> QED
      BY <1>0, <1>7, <2>1 DEF ReleaseLock, RemovesLock, Clears, Fits, HasLock, Holding, InHand
  <1>8. CASE OffHostVerify(p)
    <2>1. /\ process[p].at = "transferred"
          /\ (Moves(p, "record") /\ process[p].dump \in remote) \/ Clears(p, "unlock")
      BY <1>0, <1>8, ProcessTurns DEF OffHostVerify, IsOffHost, At, ProcessStages
    <2> QED
      BY <1>0, <1>8, <2>1
      DEF OffHostVerify, lockVars, copyVars, Moves, Clears, Fits, HasLock, Holding, InHand
  <1>9. CASE LoadToRecord(p)
    <2>1. process' = [process EXCEPT ![p].at = "recorded", ![p].read = ledger]
      BY <1>9 DEF LoadToRecord
    <2>2. ASSUME NEW x \in ProcessType
          PROVE  /\ [x EXCEPT !.at = "recorded", !.read = ledger] \in ProcessType
                 /\ [x EXCEPT !.at = "recorded", !.read = ledger].at = "recorded"
                 /\ [x EXCEPT !.at = "recorded", !.read = ledger].read = ledger
                 /\ [x EXCEPT !.at = "recorded", !.read = ledger].dump = x.dump
                 /\ [x EXCEPT !.at = "recorded", !.read = ledger].gone = x.gone
      BY <1>0 DEF ProcessType, ProcessStages, BackupTypeOK
    <2>3. /\ Turns(p) /\ process'[p].at = "recorded" /\ process'[p].read = ledger
          /\ process'[p].dump = process[p].dump /\ process'[p].gone = process[p].gone
      <3>1. process'[p] = [process[p] EXCEPT !.at = "recorded", !.read = ledger]
            /\ \A q \in Processes \ {p} : process'[q] = process[q]
        BY <1>0, <2>1 DEF BackupTypeOK
      <3>2. process[p] \in ProcessType /\ process \in [Processes -> ProcessType]
        BY <1>0, ProcessFields
      <3>3. process' \in [Processes -> ProcessType]
        BY <2>1, <2>2, <3>1, <3>2
      <3> QED
        BY <2>2, <3>1, <3>2, <3>3 DEF Turns
    <2>4. process[p].at = "record"
      BY <1>9 DEF LoadToRecord, At
    <2>5. UNCHANGED <<lock, overlapped, taken, remote, ledger, verified>>
          /\ process'[p].gone = {}
      BY <1>0, <1>9, <2>3, <2>4 DEF LoadToRecord, lockVars, copyVars
    <2>6. ~ overlapped' => HasLock(p)'
      BY <1>0, <2>3, <2>4, <2>5 DEF HasLock, Holding, InHand
    <2> QED
      BY <1>0, <2>3, <2>4, <2>5, <2>6 DEF copyVars, Fits, InHand
  <1>10. CASE RetentionOnly(p)
    <2>1. Moves(p, "retain") /\ process[p].at = "held"
      BY <1>0, <1>10, ProcessTurns DEF RetentionOnly, At, ProcessStages
    <2> QED
      BY <1>0, <1>10, <2>1
      DEF RetentionOnly, lockVars, copyVars, Moves, Fits, HasLock, Holding, InHand
  <1>11. CASE SelectRetention(p)
    <2>1. PICK oldest \in OldestKept :
            process' = [process EXCEPT ![p].at = "delete", ![p].read = ledger,
                                       ![p].doomed = {d \in ledger : d < oldest}]
      BY <1>11 DEF SelectRetention
    <2> DEFINE doomed == {d \in ledger : d < oldest}
    <2>2. doomed \subseteq Dumps /\ \A d \in doomed : \E m \in ledger : d < m
      BY <1>0 DEF OldestKept, BackupTypeOK, Dumps
    <2> HIDE DEF doomed
    <2>3. ASSUME NEW x \in ProcessType
          PROVE  /\ [x EXCEPT !.at = "delete", !.read = ledger, !.doomed = doomed] \in ProcessType
                 /\ [x EXCEPT !.at = "delete", !.read = ledger, !.doomed = doomed].at = "delete"
                 /\ [x EXCEPT !.at = "delete", !.read = ledger, !.doomed = doomed].read = ledger
                 /\ [x EXCEPT !.at = "delete", !.read = ledger, !.doomed = doomed].doomed = doomed
                 /\ [x EXCEPT !.at = "delete", !.read = ledger, !.doomed = doomed].gone = x.gone
      BY <1>0, <2>2 DEF ProcessType, ProcessStages, BackupTypeOK
    <2>4. process' = [process EXCEPT ![p].at = "delete", ![p].read = ledger,
                                     ![p].doomed = doomed]
      BY <2>1 DEF doomed
    <2>5. /\ Turns(p) /\ process'[p].at = "delete" /\ process'[p].read = ledger
          /\ process'[p].doomed = doomed /\ process'[p].gone = process[p].gone
      <3>1. process'[p] = [process[p] EXCEPT !.at = "delete", !.read = ledger,
                                             !.doomed = doomed]
            /\ \A q \in Processes \ {p} : process'[q] = process[q]
        BY <1>0, <2>4 DEF BackupTypeOK
      <3>2. process[p] \in ProcessType /\ process \in [Processes -> ProcessType]
        BY <1>0, ProcessFields
      <3>3. process' \in [Processes -> ProcessType]
        BY <2>3, <2>4, <3>1, <3>2
      <3> QED
        BY <2>3, <3>1, <3>2, <3>3 DEF Turns
    <2>6. process[p].at = "retain"
      BY <1>11 DEF SelectRetention, At
    <2> QED
      BY <1>0, <1>11, <2>2, <2>5, <2>6
      DEF SelectRetention, lockVars, copyVars, Fits, HasLock, Holding, InHand
  <1>12. CASE Recover(p)
    <2>1. PICK d \in ledger \cap remote :
            process' = [process EXCEPT ![p].at = "fetched", ![p].dump = d]
      BY <1>12 DEF Recover
    <2>2. d \in Dumps /\ d \in 0..MaxDumps
      BY <1>0, <2>1 DEF BackupTypeOK, Dumps
    <2>3. ASSUME NEW x \in ProcessType
          PROVE  /\ [x EXCEPT !.at = "fetched", !.dump = d] \in ProcessType
                 /\ [x EXCEPT !.at = "fetched", !.dump = d].at = "fetched"
                 /\ [x EXCEPT !.at = "fetched", !.dump = d].dump = d
                 /\ [x EXCEPT !.at = "fetched", !.dump = d].gone = x.gone
      BY <2>2 DEF ProcessType, ProcessStages
    <2>4. /\ Turns(p) /\ process'[p].at = "fetched" /\ process'[p].dump = d
          /\ process'[p].gone = process[p].gone
      <3>1. process'[p] = [process[p] EXCEPT !.at = "fetched", !.dump = d]
            /\ \A q \in Processes \ {p} : process'[q] = process[q]
        BY <1>0, <2>1 DEF BackupTypeOK
      <3>2. process[p] \in ProcessType /\ process \in [Processes -> ProcessType]
        BY <1>0, ProcessFields
      <3>3. process' \in [Processes -> ProcessType]
        BY <2>1, <2>3, <3>1, <3>2
      <3> QED
        BY <2>3, <3>1, <3>2, <3>3 DEF Turns
    <2>5. process[p].at = "idle"
      BY <1>12 DEF Recover, At
    <2> QED
      BY <1>0, <1>12, <2>2, <2>4, <2>5
      DEF Recover, lockVars, copyVars, Fits, HasLock, Holding, InHand
  <1>13. CASE CheckTarget(p)
    <2>1. (Moves(p, "checked") \/ Clears(p, "idle")) /\ process[p].at = "fetched"
      BY <1>0, <1>13, ProcessTurns DEF CheckTarget, At, ProcessStages
    <2> QED
      BY <1>0, <1>13, <2>1
      DEF CheckTarget, lockVars, copyVars, Moves, Clears, Fits, HasLock, Holding, InHand
  <1>14. CASE ReportDrill(p)
    <2>1. Clears(p, "idle")
      BY <1>0, <1>14, ProcessTurns DEF ReportDrill
    <2> QED
      BY <1>0, <1>14, <2>1
      DEF ReportDrill, lockVars, copyVars, Clears, Fits, HasLock, Holding, InHand
  <1>15. CASE Dies(p)
    <2>1. Clears(p, "idle")
      BY <1>0, <1>15, ProcessTurns DEF Dies
    <2>2. lock' \in [by : Processes \cup {"nobody", "dead"}, written : BOOLEAN]
      BY <1>0, <1>15 DEF Dies
    <2> QED
      BY <1>0, <1>15, <2>1, <2>2 DEF Dies, copyVars, Clears, Fits, HasLock, Holding, InHand
  <1> QED
    BY <1>1, <1>2, <1>3, <1>4, <1>5, <1>6, <1>7, <1>8, <1>9, <1>10, <1>11, <1>12, <1>13,
       <1>14, <1>15

\* The steps that take, copy, record and delete dumps are those of the process that has the
\* lock.
LEMMA CopyStepsKeepBackups ==
  ASSUME BackupInv, NEW p \in Processes,
         TakeDump(p) \/ TransferArtifact(p) \/ RecordVerified(p) \/ DeleteRemote(p)
           \/ SaveLedger(p)
  PROVE  BackupInv'
  <1>0. /\ BackupTypeOK
        /\ lock \in [by : Processes \cup {"nobody", "dead"}, written : BOOLEAN]
        /\ overlapped \in BOOLEAN /\ taken \in 0..MaxDumps /\ MaxDumps \in Nat
        /\ remote \subseteq Dumps /\ ledger \subseteq Dumps /\ verified \subseteq Dumps
        /\ ~ overlapped => HasLock(p) /\ LedgerIsSound
        /\ process[p].at \notin {"delete", "save"} => process[p].gone = {}
        /\ process[p].at \in InHand => process[p].dump \in Dumps
    BY BackupAssumption DEF BackupInv, BackupTypeOK, DrillIsSound
  <1> DEFINE Own == /\ UNCHANGED <<lockVars, target>> /\ process[p].at \in Holding
  <1>1. CASE TakeDump(p)
    <2>1. process[p].at = "held" /\ Own /\ UNCHANGED <<remote, ledger, verified>>
      BY <1>1 DEF TakeDump, At, Holding
    <2>2. CASE Clears(p, "unlock") /\ UNCHANGED taken
      <3>1. Fits(p)
        BY <1>0, <2>1, <2>2 DEF Clears, Fits, HasLock, Holding, InHand, lockVars
      <3> QED
        BY <1>0, <2>1, <2>2, <3>1, FittingStep DEF lockVars, LedgerIsSound
    <2>3. CASE /\ taken < MaxDumps /\ taken' = taken + 1
               /\ process' = [process EXCEPT ![p].at = "dumped", ![p].dump = taken + 1]
      <3> DEFINE n == taken + 1
      <3>1. n \in 0..MaxDumps /\ n \in Dumps /\ n \in Nat /\ taken' = n
        BY <1>0, <2>3 DEF Dumps
      <3>2. 1..taken \subseteq 1..n /\ n \notin 1..taken
        BY <1>0
      <3>3. process' = [process EXCEPT ![p] = [@ EXCEPT !.at = "dumped", !.dump = n]]
        BY <1>0, <2>3 DEF BackupTypeOK
      <3> HIDE DEF n
      <3>4. ASSUME NEW x \in ProcessType
            PROVE  /\ [x EXCEPT !.at = "dumped", !.dump = n] \in ProcessType
                   /\ [x EXCEPT !.at = "dumped", !.dump = n].at = "dumped"
                   /\ [x EXCEPT !.at = "dumped", !.dump = n].dump = n
                   /\ [x EXCEPT !.at = "dumped", !.dump = n].gone = x.gone
        BY <3>1 DEF ProcessType, ProcessStages
      <3>6. process[p] \in ProcessType /\ process \in [Processes -> ProcessType]
        BY <1>0, ProcessFields
      <3>8. /\ Turns(p) /\ process'[p].at = "dumped" /\ process'[p].dump = n
            /\ process'[p].gone = {}
        BY <1>0, <2>1, <3>3, <3>4, <3>6 DEF Turns
      <3>9. ~ overlapped => n \notin verified
        BY <1>0, <3>2 DEF LedgerIsSound
      <3>10. Fits(p)
        BY <1>0, <2>1, <3>1, <3>8, <3>9 DEF Fits, HasLock, Holding, InHand, lockVars
      <3>11. ~ overlapped' => LedgerIsSound'
        BY <1>0, <2>1, <3>1, <3>2 DEF lockVars, LedgerIsSound
      <3> QED
        BY <1>0, <2>1, <3>1, <3>10, <3>11, FittingStep
    <2> QED
      BY <1>0, <1>1, <2>2, <2>3, ProcessTurns DEF TakeDump
  <1>2. CASE TransferArtifact(p)
    <2>1. process[p].at = "dumped" /\ Own /\ UNCHANGED <<taken, ledger, verified>>
      BY <1>2 DEF TransferArtifact, At, Holding
    <2>2. Moves(p, "transferred") \/ Clears(p, "unlock")
      BY <1>0, <1>2, ProcessTurns DEF TransferArtifact, ProcessStages
    <2>3. remote' = remote \/ remote' = remote \cup {process[p].dump}
      BY <1>2 DEF TransferArtifact
    <2>4. ~ overlapped => /\ process[p].dump = taken /\ taken \in Dumps
                          /\ taken \notin verified /\ lock.by = p
      BY <1>0, <2>1 DEF HasLock, Holding, InHand
    <2>5. Fits(p)
      BY <1>0, <2>1, <2>2, <2>4 DEF Moves, Clears, Fits, HasLock, Holding, InHand, lockVars
    <2>6. ~ overlapped' => LedgerIsSound'
      BY <1>0, <2>1, <2>3, <2>4 DEF lockVars, LedgerIsSound
    <2>7. remote' \subseteq Dumps
      BY <1>0, <2>1, <2>3 DEF InHand
    <2> QED
      BY <1>0, <2>1, <2>5, <2>6, <2>7, FittingStep
  <1>3. CASE RecordVerified(p)
    <2>1. /\ process[p].at = "recorded" /\ Own /\ UNCHANGED <<taken, remote>>
          /\ ledger' = process[p].read \cup {process[p].dump}
          /\ verified' = verified \cup {process[p].dump}
      BY <1>3 DEF RecordVerified, At, Holding
    <2>2. Clears(p, "retain") \/ Clears(p, "unlock")
      BY <1>0, <1>3, ProcessTurns DEF RecordVerified
    <2>3. ~ overlapped => /\ process[p].dump = taken /\ taken \in Dumps /\ taken \in remote
                          /\ lock.by = p /\ lock.written /\ process[p].read = ledger
      BY <1>0, <2>1 DEF HasLock, Holding, InHand
    <2>4. Fits(p)
      BY <1>0, <2>1, <2>2, <2>3 DEF Clears, Fits, HasLock, Holding, InHand, lockVars
    <2>5. ~ overlapped' => LedgerIsSound'
      <3> SUFFICES ASSUME ~ overlapped' PROVE LedgerIsSound'
        OBVIOUS
      <3>1. /\ LedgerIsSound /\ taken \in remote' /\ taken' = taken /\ taken \in 1..taken
            /\ ledger' = ledger \cup {taken} /\ verified' = verified \cup {taken}
            /\ remote' = remote
        BY <1>0, <2>1, <2>3 DEF lockVars, Dumps
      <3>2. \A d \in ledger' : d <= taken
        <4>1. \A d \in ledger : d \in 1..taken
          BY <3>1 DEF LedgerIsSound
        <4> QED
          BY <1>0, <3>1, <4>1
      <3> QED
        BY <3>1, <3>2 DEF LedgerIsSound
    <2>6. ledger' \subseteq Dumps /\ verified' \subseteq Dumps
      BY <1>0, <2>1, ProcessFields DEF InHand
    <2> QED
      BY <1>0, <2>1, <2>4, <2>5, <2>6, FittingStep
  <1>4. CASE DeleteRemote(p)
    <2>1. /\ process[p].at = "delete" /\ Own /\ UNCHANGED <<taken, ledger, verified>>
          /\ process[p].doomed \subseteq Dumps /\ process[p].gone \subseteq Dumps
      BY <1>0, <1>4, ProcessFields DEF DeleteRemote, At, Holding
    <2>2. ~ overlapped =>
            /\ lock.by = p /\ lock.written /\ process[p].read = ledger
            /\ process[p].gone \cap remote = {}
            /\ \A d \in process[p].doomed \cup process[p].gone : \E m \in ledger : d < m
      BY <1>0, <2>1 DEF HasLock, Holding, InHand
    <2>3. CASE process[p].doomed = {}
      <3>1. Moves(p, "save") /\ UNCHANGED remote
        BY <1>0, <1>4, <2>3, ProcessTurns DEF DeleteRemote, ProcessStages
      <3>2. Fits(p)
        BY <1>0, <2>1, <2>2, <3>1 DEF Moves, Fits, HasLock, Holding, InHand, lockVars
      <3> QED
        BY <1>0, <2>1, <3>1, <3>2, FittingStep DEF lockVars, LedgerIsSound
    <2>4. CASE process[p].doomed # {}
      <3> DEFINE d == Min(process[p].doomed)
      <3>1. PICK deleted \in BOOLEAN, failed \in BOOLEAN :
              /\ deleted \/ failed
              /\ remote' = IF deleted THEN remote \ {d} ELSE remote
              /\ process' = [process EXCEPT ![p].doomed = @ \ {d},
                                            ![p].gone = IF failed THEN @ ELSE @ \cup {d}]
        BY <1>4, <2>4 DEF DeleteRemote
      <3>2. d \in process[p].doomed /\ d \in Dumps
        BY <1>0, <2>1, <2>4, OldestExists DEF Dumps
      <3> HIDE DEF d
      <3> DEFINE doomed == process[p].doomed \ {d}
                 gone == IF failed THEN process[p].gone ELSE process[p].gone \cup {d}
      <3>3. doomed \subseteq Dumps /\ gone \subseteq Dumps /\ gone \cap remote' \subseteq
              process[p].gone \cap remote
        BY <2>1, <3>1, <3>2
      <3>4. doomed \cup gone \subseteq process[p].doomed \cup process[p].gone
        BY <3>2
      <3>5. process' = [process EXCEPT ![p] = [@ EXCEPT !.doomed = doomed, !.gone = gone]]
        BY <1>0, <3>1 DEF BackupTypeOK
      <3> HIDE DEF doomed, gone
      <3>6. ASSUME NEW x \in ProcessType
            PROVE  /\ [x EXCEPT !.doomed = doomed, !.gone = gone] \in ProcessType
                   /\ [x EXCEPT !.doomed = doomed, !.gone = gone].at = x.at
                   /\ [x EXCEPT !.doomed = doomed, !.gone = gone].doomed = doomed
                   /\ [x EXCEPT !.doomed = doomed, !.gone = gone].gone = gone
                   /\ [x EXCEPT !.doomed = doomed, !.gone = gone].read = x.read
        BY <3>3 DEF ProcessType
      <3>7. process[p] \in ProcessType /\ process \in [Processes -> ProcessType]
        BY <1>0, ProcessFields
      <3>8. /\ Turns(p) /\ process'[p].at = "delete" /\ process'[p].read = process[p].read
            /\ process'[p].doomed = doomed /\ process'[p].gone = gone
        BY <2>1, <3>5, <3>6, <3>7 DEF Turns
      <3>9. ~ overlapped' => HasLock(p)'
        BY <2>1, <2>2, <3>3, <3>4, <3>8 DEF HasLock, Holding, InHand, lockVars
      <3>10. Fits(p)
        BY <1>0, <2>1, <2>2, <3>8, <3>9 DEF Fits, InHand, lockVars
      <3>11. ~ overlapped' => LedgerIsSound'
        BY <1>0, <2>1, <2>2, <3>1, <3>2 DEF lockVars, LedgerIsSound
      <3> QED
        BY <1>0, <2>1, <3>1, <3>10, <3>11, FittingStep
    <2> QED
      BY <2>3, <2>4
  <1>5. CASE SaveLedger(p)
    <2>1. /\ process[p].at = "save" /\ Own /\ UNCHANGED <<taken, remote, verified>>
          /\ ledger' = process[p].read \ process[p].gone
      BY <1>5 DEF SaveLedger, At, Holding
    <2>2. Clears(p, "unlock")
      BY <1>0, <1>5, ProcessTurns DEF SaveLedger
    <2>3. ~ overlapped => /\ lock.by = p /\ lock.written /\ process[p].read = ledger
                          /\ process[p].gone \cap remote = {}
                          /\ \A d \in process[p].gone : \E m \in ledger : d < m
      BY <1>0, <2>1 DEF HasLock, Holding, InHand
    <2>4. Fits(p)
      BY <1>0, <2>1, <2>2, <2>3 DEF Clears, Fits, HasLock, Holding, InHand, lockVars
    <2>5. ~ overlapped' => LedgerIsSound'
      BY <1>0, <2>1, <2>3 DEF lockVars, LedgerIsSound
    <2>6. ledger' \subseteq Dumps
      BY <1>0, <2>1, ProcessFields
    <2> QED
      BY <1>0, <2>1, <2>4, <2>5, <2>6, FittingStep
  <1> QED
    BY <1>1, <1>2, <1>3, <1>4, <1>5

\* Restoring is up to one process, which finds the drill database new.
LEMMA RestoreStepsKeepBackups ==
  ASSUME BackupInv, NEW p \in Processes, BeginRestore(p) \/ FinishRestore(p)
  PROVE  BackupInv'
  <1>0. /\ BackupTypeOK /\ DrillIsSound
        /\ ~ overlapped => LedgerIsSound /\ \A q \in Processes : HasLock(q)
    BY DEF BackupInv
  <1>1. UNCHANGED <<lockVars, copyVars>>
    BY DEF BeginRestore, FinishRestore
  <1>2. /\ process[p].at \in InHand /\ process[p].at \notin Holding
        /\ process[p].dump \in Dumps /\ process[p].dump # 0 /\ process[p].gone = {}
    BY <1>0 DEF BeginRestore, FinishRestore, At, InHand, Holding, DrillIsSound, Dumps
  <1>3. \/ /\ Clears(p, "idle") /\ UNCHANGED target
        \/ /\ Moves(p, "restoring") /\ target.dump = 0
           /\ target' = [dump |-> process[p].dump, whole |-> FALSE]
        \/ /\ Moves(p, "restored") /\ process[p].at = "restoring"
           /\ target' = [target EXCEPT !.whole = TRUE]
    BY <1>0, ProcessTurns DEF BeginRestore, FinishRestore, SchemaIsNew, At, ProcessStages
  <1>4. /\ Turns(p) /\ process'[p].at \in {"idle", "restoring", "restored"}
        /\ process'[p].gone = {}
        /\ process'[p].at # "idle" => process'[p].dump = process[p].dump
    BY <1>2, <1>3 DEF Clears, Moves
  <1>5. \A q \in Processes : process[q].at \in {"restoring", "restored"} => target.dump # 0
    BY <1>0 DEF DrillIsSound, InHand, Dumps
  <1>6. /\ process'[p].at \in {"restoring", "restored"}
             => /\ target' = [dump |-> process'[p].dump, whole |-> process'[p].at = "restored"]
                /\ \A q \in Processes \ {p} : process[q].at \notin {"restoring", "restored"}
        /\ process'[p].at = "idle" => target' = target
    <2>1. CASE Clears(p, "idle") /\ UNCHANGED target
      BY <2>1 DEF Clears
    <2>2. CASE /\ Moves(p, "restoring") /\ target.dump = 0
               /\ target' = [dump |-> process[p].dump, whole |-> FALSE]
      BY <1>5, <2>2 DEF Moves
    <2>3. CASE /\ Moves(p, "restored") /\ process[p].at = "restoring"
               /\ target' = [target EXCEPT !.whole = TRUE]
      <3>1. target = [dump |-> process[p].dump, whole |-> FALSE]
        BY <1>0, <2>3 DEF DrillIsSound
      <3>2. target' = [dump |-> process[p].dump, whole |-> TRUE]
        BY <2>3, <3>1
      <3> QED
        BY <1>0, <2>3, <3>2 DEF DrillIsSound, Moves
    <2> QED
      BY <1>3, <2>1, <2>2, <2>3
  <1>7. BackupTypeOK'
    <2>1. target' \in [dump : 0..MaxDumps, whole : BOOLEAN]
      <3>1. target \in [dump : 0..MaxDumps, whole : BOOLEAN] /\ process[p].dump \in 0..MaxDumps
        BY <1>0, ProcessFields DEF BackupTypeOK
      <3>2. [target EXCEPT !.whole = TRUE] \in [dump : 0..MaxDumps, whole : BOOLEAN]
        BY <3>1
      <3>3. [dump |-> process[p].dump, whole |-> FALSE] \in [dump : 0..MaxDumps, whole : BOOLEAN]
        BY <3>1
      <3> QED
        BY <1>3, <3>1, <3>2, <3>3
    <2> QED
      BY <1>0, <1>1, <1>4, <2>1 DEF BackupTypeOK, Turns, ProcessType, lockVars, copyVars
  <1>8. DrillIsSound'
    <2>1. \A q \in Processes : q # p => process'[q] = process[q]
      BY <1>4 DEF Turns
    <2>2. ASSUME NEW q \in Processes
          PROVE  /\ process'[q].at \in InHand => process'[q].dump \in Dumps
                 /\ process'[q].at \in {"restoring", "restored"}
                      => target' = [dump |-> process'[q].dump,
                                    whole |-> process'[q].at = "restored"]
                 /\ process'[q].at \notin {"delete", "save"} => process'[q].gone = {}
      <3>1. CASE q = p
        BY <1>2, <1>4, <1>6, <3>1 DEF InHand
      <3>2. CASE q # p
        <4>1. process'[q] = process[q]
          BY <2>1, <3>2
        <4>2. process[q].at \in {"restoring", "restored"} => target' = target
          BY <1>4, <1>6, <3>2
        <4> QED
          BY <1>0, <4>1, <4>2 DEF DrillIsSound
      <3> QED
        BY <3>1, <3>2
    <2>3. ASSUME NEW q \in Processes, NEW r \in Processes,
                 process'[q].at \in {"restoring", "restored"},
                 process'[r].at \in {"restoring", "restored"}
          PROVE  q = r
      BY <1>0, <1>4, <1>6, <2>1, <2>3 DEF DrillIsSound
    <2> QED
      BY <2>2, <2>3 DEF DrillIsSound
  <1>9. ASSUME ~ overlapped' PROVE LedgerIsSound' /\ \A q \in Processes : HasLock(q)'
    <2>1. LedgerIsSound'
      BY <1>0, <1>1, <1>9 DEF lockVars, copyVars, LedgerIsSound
    <2>2. ASSUME NEW q \in Processes, q # p PROVE HasLock(q)'
      BY <1>0, <1>1, <1>4, <1>9, <2>2 DEF lockVars, copyVars, HasLock, Turns
    <2>3. HasLock(p)'
      BY <1>4 DEF HasLock, Holding
    <2> QED
      BY <2>1, <2>2, <2>3
  <1> QED
    BY <1>7, <1>8, <1>9 DEF BackupInv

\* The inductive invariant of the backups: under an undisturbed lock, what is in the ledger is
\* the business of one process, and restoring always is.
THEOREM BackupInvHolds == BackupSpec => []BackupInv
  <1>1. BackupInit => BackupInv
    <2> SUFFICES ASSUME BackupInit PROVE BackupInv
      OBVIOUS
    <2>1. 0 \in 0..MaxDumps
      BY BackupAssumption
    <2>2. \A p \in Processes : process[p] = Idle
      BY DEF BackupInit
    <2>3. BackupTypeOK
      BY <2>1 DEF BackupInit, BackupTypeOK, Idle, NoLock, ProcessStages
    <2>4. DrillIsSound /\ LedgerIsSound /\ \A p \in Processes : HasLock(p)
      BY <2>2 DEF BackupInit, Idle, DrillIsSound, LedgerIsSound, HasLock, Holding, InHand
    <2> QED
      BY <2>3, <2>4 DEF BackupInv
  <1>2. BackupInv /\ [BackupNext]_backupVars => BackupInv'
    <2> SUFFICES ASSUME BackupInv, [BackupNext]_backupVars PROVE BackupInv'
      OBVIOUS
    <2>1. ASSUME NEW p \in Processes,
                 \/ StartsRun(p) \/ WriteLock(p) \/ JudgeLock(p) \/ RemoveStaleLock(p)
                 \/ ClaimAgain(p) \/ CheckToken(p) \/ ReleaseLock(p) \/ OffHostVerify(p)
                 \/ LoadToRecord(p) \/ RetentionOnly(p) \/ SelectRetention(p) \/ Recover(p)
                 \/ CheckTarget(p) \/ ReportDrill(p) \/ Dies(p)
          PROVE  BackupInv'
      <3>1. Fits(p)
        BY <2>1, LockStepsFit
      <3>2. UNCHANGED <<copyVars, target>>
        BY <2>1 DEF StartsRun, WriteLock, JudgeLock, RemoveStaleLock, ClaimAgain, CheckToken,
           ReleaseLock, OffHostVerify, LoadToRecord, RetentionOnly, SelectRetention, Recover,
           CheckTarget, ReportDrill, Dies
      <3>3. ~ overlapped' => LedgerIsSound'
        BY <3>1, <3>2 DEF Fits, BackupInv, copyVars, LedgerIsSound
      <3> QED
        BY <3>1, <3>2, <3>3, FittingStep DEF BackupInv, BackupTypeOK, copyVars
    <2>2. ASSUME NEW p \in Processes, ProcessStep(p)
          PROVE  BackupInv'
      BY <2>1, <2>2, CopyStepsKeepBackups, RestoreStepsKeepBackups DEF ProcessStep
    <2>3. CASE UNCHANGED backupVars
      BY <2>3 DEF backupVars, BackupInv, BackupTypeOK, DrillIsSound, LedgerIsSound, HasLock
    <2> QED
      BY <2>2, <2>3 DEF BackupNext
  <1> QED
    BY <1>1, <1>2, PTL DEF BackupSpec

\* Every variable of the backups keeps its type.
THEOREM BackupTypeCorrect == BackupSpec => []BackupTypeOK
  <1>1. BackupInv => BackupTypeOK
    BY DEF BackupInv
  <1> QED
    BY <1>1, BackupInvHolds, PTL

\* BackupsAreRecoverable: run_retention spares the newest entry and record_verified adds only
\* what is off the host, so that as long as acquire_lock takes no lock from the living the
\* newest entry can be fetched; and a drill that has restored checks its own dump.
THEOREM BackupsAreRecoverableHolds == BackupSpec => []BackupsAreRecoverable
  <1>1. BackupInv => BackupsAreRecoverable
    <2> SUFFICES ASSUME BackupInv PROVE BackupsAreRecoverable
      OBVIOUS
    <2>1. ASSUME ~ overlapped, ledger # {} PROVE Max(ledger) \in remote
      <3>1. PICK m \in ledger : m \in remote /\ \A d \in ledger : d <= m
        BY <2>1 DEF BackupInv, LedgerIsSound
      <3>2. ledger \subseteq Nat
        BY DEF BackupInv, BackupTypeOK, Dumps
      <3>3. \A n \in ledger : (\A d \in ledger : n >= d) => n = m
        BY <3>1, <3>2
      <3>4. \A d \in ledger : m >= d
        BY <3>1, <3>2
      <3>5. Max(ledger) = m
        BY <3>3, <3>4 DEF Max
      <3> QED
        BY <3>1, <3>5
    <2>2. ~ overlapped => verified \cap remote \subseteq ledger
      BY DEF BackupInv, LedgerIsSound
    <2>3. \A p \in Processes :
            At(p, "restored") => target = [dump |-> process[p].dump, whole |-> TRUE]
      BY DEF BackupInv, DrillIsSound, At
    <2> QED
      BY <2>1, <2>2, <2>3 DEF BackupsAreRecoverable
  <1> QED
    BY <1>1, BackupInvHolds, PTL
=============================================================================
