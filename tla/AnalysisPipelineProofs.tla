----------------------- MODULE AnalysisPipelineProofs -----------------------
(***************************************************************************)
(* Proofs about AnalysisPipeline, for any evidence, environments and       *)
(* reports, with and without an analysis review, and for any number of     *)
(* turns, repairs, inspections and crashes.                                *)
(*                                                                         *)
(* What a stage is made from is worked out from the rows of the workflow   *)
(* first (Graph).  A stage is pending until all it is made from has passed *)
(* (Grounded), so a product can only change while nothing rests on it, and *)
(* answers and findings stay about what is accepted (JobsCurrent,          *)
(* FindingsCurrent).  A rejected study stays out because it is no longer   *)
(* the last one remembered for its premises once its replacement has       *)
(* passed, and nothing brings it back until then (RejectedReplaced).       *)
(***************************************************************************)
EXTENDS AnalysisPipeline, TLAPS

USE DEF Evidence, Environment, Knowledge, Study, Handoff, Contracts, Review

-----------------------------------------------------------------------------
(* The stages of the phase.                                                *)

\* No driver is looked up blindly in the developer's mode.
LEMMA NoBlindBinding == \A S : S \cup (IF Prospective THEN {"blind_binding"} ELSE {}) = S
BY AnalysisAssumption DEF Prospective

\* The rows of the phase, by name.
LEMMA DesignNames ==
  /\ Len(DesignRows) \in Nat
  /\ AnalysisReview => Len(DesignRows) <= 7 /\ Len(DesignRows) >= 7
  /\ ~AnalysisReview => Len(DesignRows) <= 6 /\ Len(DesignRows) >= 6
  /\ DesignRows[1].name = Evidence /\ DesignRows[1].prerequisites = {"migration_envelope_freeze"}
  /\ DesignRows[2].name = Environment
  /\ DesignRows[3].name = Knowledge
  /\ DesignRows[4].name = Study
  /\ DesignRows[5].name = Handoff
  /\ DesignRows[6].name = Contracts
  /\ AnalysisReview => DesignRows[7].name = Review
<1>1. CASE AnalysisReview
  BY <1>1, AnalysisAssumption DEF DesignRows, When, Row
<1>2. CASE ~AnalysisReview
  BY <1>2, AnalysisAssumption DEF DesignRows, When, Row
<1> QED BY <1>1, <1>2

\* What the handoff requires.
LEMMA HandoffRow == DesignRows[5].prerequisites =
         {"migration_envelope_freeze", "repository_acquisition", "evidence_closure",
          "environment_recovery", "knowledge_base"}
<1>1. DesignRows[5].prerequisites =
         {"migration_envelope_freeze", "repository_acquisition", "evidence_closure",
          "environment_recovery", "knowledge_base"} \cup (IF Prospective THEN {"blind_binding"} ELSE {})
  <2>1. CASE AnalysisReview
    BY <2>1, AnalysisAssumption DEF DesignRows, When, Row
  <2>2. CASE ~AnalysisReview
    BY <2>2, AnalysisAssumption DEF DesignRows, When, Row
  <2> QED BY <2>1, <2>2
<1> QED BY <1>1, NoBlindBinding

\* What the contracts require.
LEMMA ContractsRow == DesignRows[6].prerequisites =
         {"migration_handoff", "knowledge_base", "target_platform_study",
          "repository_acquisition", "evidence_closure"}
  <1>1. CASE AnalysisReview
    BY <1>1, AnalysisAssumption DEF DesignRows, When, Row
  <1>2. CASE ~AnalysisReview
    BY <1>2, AnalysisAssumption DEF DesignRows, When, Row
  <1> QED BY <1>1, <1>2

\* What the review requires.
LEMMA ReviewRow ==
  AnalysisReview => DesignRows[7].prerequisites =
    {"target_platform_study", "migration_handoff", "evidence_closure", "environment_recovery"}
BY AnalysisAssumption DEF DesignRows, When, Row

\* The rows of the other phases.
LEMMA ScopeNames ==
  /\ Len(ScopeRows) \in Nat /\ Len(ScopeRows) <= 6 /\ Len(ScopeRows) >= 6
  /\ ScopeRows[1].name = "project_init"
  /\ ScopeRows[2].name = "request_intake"
  /\ ScopeRows[3].name = "driver_candidate_resolution"
  /\ ScopeRows[4].name = "scope_confirmation"
  /\ ScopeRows[5].name = "migration_envelope_freeze"
  /\ ScopeRows[6].name = "repository_acquisition"
BY AnalysisAssumption DEF ScopeRows, When, Prospective, Row

\* The names of the delivery.
DeliveryNames ==
  {"target_framework_enablement", "driver_implementation", "artifact_preparation",
   "public_qemu_validation", "final_evidence_review"}

\* The rows of the delivery have names of their own.
LEMMA DeliveryNamed ==
  /\ Len(DeliveryRows) \in Nat
  /\ \A i \in 1 .. Len(DeliveryRows) : DeliveryRows[i].name \in DeliveryNames
<1>1. CASE FinalReview
  BY <1>1, AnalysisAssumption DEF DeliveryRows, When, Row, DeliveryNames
<1>2. CASE ~FinalReview
  BY <1>2, AnalysisAssumption DEF DeliveryRows, When, Row, DeliveryNames
<1> QED BY <1>1, <1>2

\* Nothing is sealed in the developer's mode.
LEMMA NoSealing == Len(SealingRows) \in Nat /\ Len(SealingRows) <= 0
BY AnalysisAssumption DEF SealingRows, When

\* The last row of the phase.
LastRow == IF AnalysisReview THEN 13 ELSE 12

\* How the rows of the phases follow each other.
LEMMA PhaseLengths ==
  /\ Len(ScopeRows) \in Nat /\ Len(ScopeRows) + 1 = 7
  /\ Len(DesignRows) \in Nat /\ Len(DesignRows) + 6 = LastRow
  /\ Len(DeliveryRows) \in Nat
  /\ Len(SealingRows) \in Nat /\ Len(SealingRows) + 1 = 1
BY ScopeNames, DesignNames, DeliveryNamed, NoSealing DEF LastRow

\* All rows, counted.
LEMMA RowsCounted == Len(Rows) = Len(ScopeRows) + Len(DesignRows) + Len(DeliveryRows) + Len(SealingRows)
BY PhaseLengths DEF Rows

\* And joined.
LEMMA RowsJoined ==
 \A i \in 1 .. Len(Rows) :
   Rows[i] = IF i <= 6 THEN ScopeRows[i]
             ELSE IF i <= LastRow THEN DesignRows[i - 6] ELSE DeliveryRows[i - LastRow]
BY PhaseLengths DEF Rows, LastRow

\* Where the rows of the phase are among all rows.
LEMMA RowsAre ==
  /\ Len(Rows) \in Nat /\ Len(Rows) >= LastRow
  /\ \A i \in 1 .. 6 : Rows[i] = ScopeRows[i]
  /\ \A i \in 7 .. LastRow : Rows[i] = DesignRows[i - 6]
  /\ \A i \in 1 .. Len(Rows) : i > LastRow => Rows[i].name \in DeliveryNames
<1>1. Len(Rows) = LastRow + Len(DeliveryRows) /\ LastRow \in {12, 13}
  BY PhaseLengths, RowsCounted DEF LastRow
<1>2. \A i \in 1 .. Len(Rows) : i > LastRow =>
        Rows[i] = DeliveryRows[i - LastRow] /\ i - LastRow \in 1 .. Len(DeliveryRows)
  BY <1>1, RowsJoined, DeliveryNamed
<1>3. \A i \in 1 .. Len(Rows) : i > LastRow => Rows[i].name \in DeliveryNames
  BY <1>2, DeliveryNamed
<1> QED BY <1>1, <1>3, RowsJoined, DeliveryNamed

\* The names of the rows of the first two phases.
LEMMA RowNames ==
  /\ Rows[1].name = "project_init"
  /\ Rows[2].name = "request_intake"
  /\ Rows[3].name = "driver_candidate_resolution"
  /\ Rows[4].name = "scope_confirmation"
  /\ Rows[5].name = "migration_envelope_freeze"
  /\ Rows[6].name = "repository_acquisition"
  /\ Rows[7].name = Evidence
  /\ Rows[8].name = Environment
  /\ Rows[9].name = Knowledge
  /\ Rows[10].name = Study
  /\ Rows[11].name = Handoff
  /\ Rows[12].name = Contracts
  /\ AnalysisReview => Rows[13].name = Review
<1>1. /\ Rows[1] = ScopeRows[1] /\ Rows[2] = ScopeRows[2] /\ Rows[3] = ScopeRows[3]
      /\ Rows[4] = ScopeRows[4] /\ Rows[5] = ScopeRows[5] /\ Rows[6] = ScopeRows[6]
  BY RowsAre
<1>2. /\ Rows[7] = DesignRows[1] /\ Rows[8] = DesignRows[2] /\ Rows[9] = DesignRows[3]
      /\ Rows[10] = DesignRows[4] /\ Rows[11] = DesignRows[5] /\ Rows[12] = DesignRows[6]
      /\ AnalysisReview => Rows[13] = DesignRows[7]
  BY RowsAre DEF LastRow
<1> QED BY <1>1, <1>2, ScopeNames, DesignNames

\* The stages of the phase.
Six == {Evidence, Environment, Knowledge, Study, Handoff, Contracts}
Named == IF AnalysisReview THEN Six \cup {Review} ELSE Six

\* And every row is one of these.
LEMMA NameOfRow ==
  \A i \in WorkflowStages :
    \/ i = 1 /\ Rows[i].name = "project_init"
    \/ i = 2 /\ Rows[i].name = "request_intake"
    \/ i = 3 /\ Rows[i].name = "driver_candidate_resolution"
    \/ i = 4 /\ Rows[i].name = "scope_confirmation"
    \/ i = 5 /\ Rows[i].name = "migration_envelope_freeze"
    \/ i = 6 /\ Rows[i].name = "repository_acquisition"
    \/ i = 7 /\ Rows[i].name = Evidence
    \/ i = 8 /\ Rows[i].name = Environment
    \/ i = 9 /\ Rows[i].name = Knowledge
    \/ i = 10 /\ Rows[i].name = Study
    \/ i = 11 /\ Rows[i].name = Handoff
    \/ i = 12 /\ Rows[i].name = Contracts
    \/ i = 13 /\ AnalysisReview /\ Rows[i].name = Review
    \/ i > LastRow /\ Rows[i].name \in DeliveryNames
BY RowsAre, RowNames DEF WorkflowStages, LastRow

\* So a stage has one position.
LEMMA Positions ==
  /\ Position("migration_envelope_freeze") = 5
  /\ Position("repository_acquisition") = 6
  /\ Position(Evidence) = 7
  /\ Position(Environment) = 8
  /\ Position(Knowledge) = 9
  /\ Position(Study) = 10
  /\ Position(Handoff) = 11
  /\ Position(Contracts) = 12
  /\ AnalysisReview => Position(Review) = 13
<1>1. ASSUME NEW n, NEW k \in WorkflowStages, Rows[k].name = n,
             \A i \in WorkflowStages : Rows[i].name = n => i = k
      PROVE  Position(n) = k
  BY <1>1 DEF Position
<1>2. 1 .. 12 \subseteq WorkflowStages /\ (AnalysisReview => 13 \in WorkflowStages)
  BY RowsAre DEF WorkflowStages, LastRow
<1>3. Position("migration_envelope_freeze") = 5 /\ Position("repository_acquisition") = 6
  BY <1>1, <1>2, NameOfRow, RowNames DEF DeliveryNames
<1>4. Position(Evidence) = 7 /\ Position(Environment) = 8 /\ Position(Knowledge) = 9
  BY <1>1, <1>2, NameOfRow, RowNames DEF DeliveryNames
<1>5. Position(Study) = 10 /\ Position(Handoff) = 11 /\ Position(Contracts) = 12
  BY <1>1, <1>2, NameOfRow, RowNames DEF DeliveryNames
<1>6. AnalysisReview => Position(Review) = 13
  BY <1>1, <1>2, NameOfRow, RowNames DEF DeliveryNames
<1> QED BY <1>3, <1>4, <1>5, <1>6

\* The stages of the phase are those of its group.
LEMMA Ranks == \A i \in WorkflowStages : WorkflowRank[i] = 2 <=> Rows[i].name \in Six \cup {Review}
<1> SUFFICES ASSUME NEW i \in WorkflowStages
             PROVE  WorkflowRank[i] = 2 <=> Rows[i].name \in Six \cup {Review}
  OBVIOUS
<1>1. /\ DOMAIN Groups = 1 .. 4
      /\ Groups[2] = Six \cup {Review}
      /\ Groups[1] \cap Groups[2] = {} /\ Groups[3] \cap Groups[2] = {} /\ Groups[4] \cap Groups[2] = {}
  BY DEF Groups, Six
<1>2. CASE Rows[i].name \in Six \cup {Review}
  <2>1. \A g \in DOMAIN Groups : Rows[i].name \in Groups[g] <=> g = 2
    BY <1>1, <1>2
  <2> QED BY <1>1, <1>2, <2>1 DEF WorkflowRank
<1>3. CASE Rows[i].name \notin Six \cup {Review}
  <2>1. Rows[i].name \notin Groups[2]
    BY <1>1, <1>3
  <2>2. WorkflowRank[i] = IF \E g \in DOMAIN Groups : Rows[i].name \in Groups[g]
                            THEN CHOOSE g \in DOMAIN Groups : Rows[i].name \in Groups[g]
                            ELSE 0
    BY DEF WorkflowRank
  <2>3. WorkflowRank[i] # 2
    BY <2>1, <2>2
  <2> QED BY <1>3, <2>3
<1> QED BY <1>2, <1>3

\* They are the six, and the review where there is one.
LEMMA StagesAre == Stages = Named
<1>1. \A i \in WorkflowStages : WorkflowRank[i] = 2 => Rows[i].name \in Named
  BY Ranks, NameOfRow DEF Named, Six, DeliveryNames
<1>2. ASSUME NEW s \in Named
      PROVE  \E i \in WorkflowStages : WorkflowRank[i] = 2 /\ Rows[i].name = s
  <2>1. 1 .. 12 \subseteq WorkflowStages /\ (AnalysisReview => 13 \in WorkflowStages)
    BY RowsAre DEF WorkflowStages, LastRow
  <2>2. \E i \in WorkflowStages : Rows[i].name = s
    BY <2>1, RowNames, <1>2 DEF Named, Six
  <2> QED BY <2>2, Ranks, <1>2 DEF Named
<1> QED BY <1>1, <1>2 DEF Stages

\* Positions tell the stages of the phase apart.
LEMMA PlaceAmong ==
  /\ \A s \in Stages : Position(s) \in 7 .. LastRow
  /\ \A s, r \in Stages : Position(s) = Position(r) => s = r
  /\ Six \subseteq Stages
  /\ Review \in Stages <=> AnalysisReview
BY StagesAre, Positions DEF Named, Six, LastRow

\* A row that does not only read data waits for the row before it and its prerequisites.
LEMMA DepsOfRow ==
  ASSUME NEW i \in WorkflowStages, Rows[i].name \notin {Environment, Knowledge, Study}, i > 1
  PROVE  WorkflowDeps[i] = {i - 1} \cup {Position(d) : d \in Rows[i].prerequisites}
BY DEF WorkflowDeps, DataDependencies

\* Three stages wait for the data they read only.
LEMMA DataDeps ==
  /\ WorkflowDeps[8] = {6} /\ WorkflowDeps[9] = {7} /\ WorkflowDeps[10] = {9, 8}
<1>1. {8, 9, 10} \subseteq WorkflowStages
  BY RowsAre DEF WorkflowStages, LastRow
<1>2. WorkflowDeps[8] = {Position(d) : d \in {"repository_acquisition"}}
  BY <1>1, RowNames DEF WorkflowDeps, DataDependencies
<1>3. WorkflowDeps[9] = {Position(d) : d \in {"evidence_closure"}}
  BY <1>1, RowNames DEF WorkflowDeps, DataDependencies
<1>4. WorkflowDeps[10] = {Position(d) : d \in {"knowledge_base", "environment_recovery"}}
  BY <1>1, RowNames DEF WorkflowDeps, DataDependencies
<1> QED BY <1>2, <1>3, <1>4, Positions

\* What each stage waits for within the phase.
LEMMA DepsAre ==
  /\ Deps[Evidence] = {} /\ Deps[Environment] = {}
  /\ Deps[Knowledge] = {Evidence}
  /\ Deps[Study] = {Environment, Knowledge}
  /\ Deps[Handoff] = {Evidence, Environment, Knowledge, Study}
  /\ Deps[Contracts] = {Evidence, Knowledge, Study, Handoff}
  /\ AnalysisReview => Deps[Review] = {Evidence, Environment, Study, Handoff, Contracts}
<1>1. \A s \in Stages : Deps[s] = {d \in Stages : Position(d) \in WorkflowDeps[Position(s)]}
  BY DEF Deps
<1>2. 7 .. LastRow \subseteq WorkflowStages
  BY RowsAre DEF WorkflowStages, LastRow
<1>3. WorkflowDeps[7] = {6, 5}
  <2>1. WorkflowDeps[7] = {7 - 1} \cup {Position(d) : d \in {"migration_envelope_freeze"}}
    <3>1. Rows[7].prerequisites = DesignRows[1].prerequisites
      <4>1. 7 \in 7 .. LastRow /\ 7 - 6 = 1
        BY DEF LastRow
      <4>2. Rows[7] = DesignRows[7 - 6]
        BY <4>1, RowsAre
      <4> QED BY <4>1, <4>2
    <3>2. WorkflowDeps[7] = {7 - 1} \cup {Position(d) : d \in DesignRows[1].prerequisites}
      BY <3>1, <1>2, DepsOfRow, RowNames DEF LastRow
    <3> QED BY <3>2, DesignNames
  <2> QED BY <2>1, Positions
<1>4. WorkflowDeps[11] = {10, 5, 6, 7, 8, 9}
  <2>1. Rows[11].prerequisites = DesignRows[5].prerequisites
    BY RowsAre DEF LastRow
  <2>2. WorkflowDeps[11] = {11 - 1} \cup {Position(d) : d \in DesignRows[5].prerequisites}
    BY <2>1, <1>2, DepsOfRow, RowNames DEF LastRow
  <2> QED BY <2>2, HandoffRow, Positions
<1>5. WorkflowDeps[12] = {11, 9, 10, 6, 7}
  <2>1. Rows[12].prerequisites = DesignRows[6].prerequisites
    BY RowsAre DEF LastRow
  <2>2. WorkflowDeps[12] = {12 - 1} \cup {Position(d) : d \in DesignRows[6].prerequisites}
    BY <2>1, <1>2, DepsOfRow, RowNames DEF LastRow
  <2> QED BY <2>2, ContractsRow, Positions
<1>6. AnalysisReview => WorkflowDeps[13] = {12, 10, 11, 7, 8}
  <2> SUFFICES ASSUME AnalysisReview
               PROVE  WorkflowDeps[13] = {12, 10, 11, 7, 8}
    OBVIOUS
  <2>1. Rows[13].prerequisites = DesignRows[7].prerequisites
    BY RowsAre DEF LastRow
  <2>2. WorkflowDeps[13] = {13 - 1} \cup {Position(d) : d \in DesignRows[7].prerequisites}
    BY <2>1, <1>2, DepsOfRow, RowNames DEF LastRow
  <2> QED BY <2>2, ReviewRow, Positions
<1>7. Stages = Named
  BY StagesAre
<1>8. Deps[Evidence] = {} /\ Deps[Environment] = {} /\ Deps[Knowledge] = {Evidence}
  BY <1>1, <1>3, <1>7, DataDeps, Positions DEF Named, Six
<1>9. Deps[Study] = {Environment, Knowledge}
  BY <1>1, <1>7, DataDeps, Positions DEF Named, Six
<1>10. Deps[Handoff] = {Evidence, Environment, Knowledge, Study}
  BY <1>1, <1>4, <1>7, Positions DEF Named, Six
<1>11. Deps[Contracts] = {Evidence, Knowledge, Study, Handoff}
  BY <1>1, <1>5, <1>7, Positions DEF Named, Six
<1>12. AnalysisReview => Deps[Review] = {Evidence, Environment, Study, Handoff, Contracts}
  BY <1>1, <1>6, <1>7, Positions DEF Named, Six
<1> QED BY <1>8, <1>9, <1>10, <1>11, <1>12

\* What is before each stage.
LEMMA EarlierAre ==
  /\ Earlier[Evidence] = {} /\ Earlier[Environment] = {Evidence}
  /\ Earlier[Knowledge] = {Evidence, Environment}
  /\ Earlier[Study] = {Evidence, Environment, Knowledge}
  /\ Earlier[Handoff] = {Evidence, Environment, Knowledge, Study}
  /\ Earlier[Contracts] = {Evidence, Environment, Knowledge, Study, Handoff}
  /\ AnalysisReview => Earlier[Review] = Six
<1>1. \A s \in Stages : Earlier[s] = {r \in Stages : Position(r) < Position(s)}
  BY DEF Earlier
<1>2. Stages = Named
  BY StagesAre
<1> QED BY <1>1, <1>2, Positions DEF Named, Six

\* The recursive function of the ancestors is the one its equation describes, as what a stage
\* waits for is before it.
LEMMA AncestorsEquation ==
  \A s \in Stages : Ancestors[s] = Deps[s] \cup UNION {Ancestors[d] : d \in Deps[s]}
<1> DEFINE Above == [s \in Stages |->
             CASE s \in {Evidence, Environment} -> {}
               [] s = Knowledge -> {Evidence}
               [] s = Study -> {Evidence, Environment, Knowledge}
               [] s = Handoff -> {Evidence, Environment, Knowledge, Study}
               [] s = Contracts -> {Evidence, Environment, Knowledge, Study, Handoff}
               [] OTHER -> Six]
           Step(f) == [s \in Stages |-> Deps[s] \cup UNION {f[d] : d \in Deps[s]}]
           above == CHOOSE f : f = Step(f)
<1>1. Above = Step(Above)
  <2>1. ASSUME NEW s \in Stages
        PROVE  Above[s] = Deps[s] \cup UNION {Above[d] : d \in Deps[s]}
    <3>1. /\ Above[Evidence] = {} /\ Above[Environment] = {} /\ Above[Knowledge] = {Evidence}
          /\ Above[Study] = {Evidence, Environment, Knowledge}
          /\ Above[Handoff] = {Evidence, Environment, Knowledge, Study}
          /\ Above[Contracts] = {Evidence, Environment, Knowledge, Study, Handoff}
          /\ AnalysisReview => Above[Review] = Six
      BY PlaceAmong DEF Six
    <3> HIDE DEF Above
    <3>2. CASE s \in {Evidence, Environment}
      BY <3>1, <3>2, DepsAre
    <3>3. CASE s = Knowledge
      BY <3>1, <3>3, DepsAre
    <3>4. CASE s = Study
      BY <3>1, <3>4, DepsAre
    <3>5. CASE s = Handoff
      BY <3>1, <3>5, DepsAre
    <3>6. CASE s = Contracts
      BY <3>1, <3>6, DepsAre
    <3>7. CASE s = Review /\ AnalysisReview
      BY <3>1, <3>7, DepsAre DEF Six
    <3> QED BY <3>2, <3>3, <3>4, <3>5, <3>6, <3>7, StagesAre DEF Named, Six
  <2>2. Above = [s \in Stages |-> Above[s]]
    OBVIOUS
  <2> HIDE DEF Above
  <2> QED BY <2>1, <2>2
<1>2. Ancestors = [s \in Stages |-> above[s]]
  BY DEF Ancestors
<1> HIDE DEF Above, Step
<1>3. above = Step(above)
  BY <1>1
<1> HIDE DEF above
<1>4. \A s \in Stages : Ancestors[s] = above[s]
  BY <1>2
<1>5. \A s \in Stages : Deps[s] \subseteq Stages
  BY DEF Deps
<1>6. ASSUME NEW s \in Stages
      PROVE  Ancestors[s] = Deps[s] \cup UNION {Ancestors[d] : d \in Deps[s]}
  <2>1. above[s] = Deps[s] \cup UNION {above[d] : d \in Deps[s]}
    BY <1>3 DEF Step
  <2>2. \A d \in Deps[s] : Ancestors[d] = above[d]
    BY <1>4, <1>5
  <2> QED BY <1>4, <2>1, <2>2
<1> QED BY <1>6

\* What each stage is made from.
LEMMA AncestorsAre ==
  /\ Ancestors[Evidence] = {} /\ Ancestors[Environment] = {} /\ Ancestors[Knowledge] = {Evidence}
  /\ Ancestors[Study] = {Evidence, Environment, Knowledge}
  /\ Ancestors[Handoff] = {Evidence, Environment, Knowledge, Study}
  /\ Ancestors[Contracts] = {Evidence, Environment, Knowledge, Study, Handoff}
  /\ AnalysisReview => Ancestors[Review] = Six
<1>1. Six \subseteq Stages /\ (Review \in Stages <=> AnalysisReview)
  BY PlaceAmong
<1>2. Ancestors[Evidence] = {} /\ Ancestors[Environment] = {}
  BY <1>1, DepsAre, AncestorsEquation DEF Six
<1>3. Ancestors[Knowledge] = {Evidence}
  BY <1>1, <1>2, DepsAre, AncestorsEquation DEF Six
<1>4. Ancestors[Study] = {Evidence, Environment, Knowledge}
  BY <1>1, <1>2, <1>3, DepsAre, AncestorsEquation DEF Six
<1>5. Ancestors[Handoff] = {Evidence, Environment, Knowledge, Study}
  BY <1>1, <1>2, <1>3, <1>4, DepsAre, AncestorsEquation DEF Six
<1>6. Ancestors[Contracts] = {Evidence, Environment, Knowledge, Study, Handoff}
  BY <1>1, <1>2, <1>3, <1>4, <1>5, DepsAre, AncestorsEquation DEF Six
<1>7. AnalysisReview => Ancestors[Review] = Six
  BY <1>1, <1>2, <1>3, <1>4, <1>5, <1>6, DepsAre, AncestorsEquation DEF Six
<1> QED BY <1>2, <1>3, <1>4, <1>5, <1>6, <1>7

\* What the proofs below use of all this: a stage is made from earlier ones, among them those
\* it waits for, and from whatever these are made from.
LEMMA Graph ==
  ASSUME NEW s \in Stages
  PROVE  /\ Ancestors[s] \subseteq Earlier[s] /\ Earlier[s] \subseteq Stages \ {s}
         /\ \A a \in Ancestors[s] : Ancestors[a] \subseteq Ancestors[s]
         /\ Deps[s] \subseteq Ancestors[s]
         /\ \A a \in Ancestors[s] : a \in Deps[s] \/ \E d \in Deps[s] : a \in Ancestors[d]
         /\ \A r \in Stages : r = s \/ r \in Earlier[s] \/ s \in Earlier[r]
         /\ \A r \in Earlier[s] : s \notin Earlier[r]
<1>1. Stages = Named
  BY StagesAre
<1>2. CASE s \in {Evidence, Environment, Knowledge}
  BY <1>1, <1>2, DepsAre, EarlierAre, AncestorsAre DEF Named, Six
<1>3. CASE s \in {Study, Handoff}
  BY <1>1, <1>3, DepsAre, EarlierAre, AncestorsAre DEF Named, Six
<1>4. CASE s = Contracts
  BY <1>1, <1>4, DepsAre, EarlierAre, AncestorsAre DEF Named, Six
<1>5. CASE s = Review /\ AnalysisReview
  BY <1>1, <1>5, DepsAre, EarlierAre, AncestorsAre DEF Named, Six
<1> QED BY <1>1, <1>2, <1>3, <1>4, <1>5 DEF Named, Six

-----------------------------------------------------------------------------
(* The inductive invariant.                                                *)

States == {"PENDING", "READY", "RUNNING", "BLOCKED", "PASS"}

\* A stage is pending until all it is made from has passed.
Grounded == \A s \in Stages : status[s] = "PENDING" <=> \E d \in Ancestors[s] : status[d] # "PASS"

\* Answers are about what is accepted now.
JobsCurrent ==
  \A s \in Stages : job[s] # None => status[s] # "PENDING" /\ job[s].view = View(s)

\* And so are findings, which keep their stage at work.
FindingsCurrent ==
  findings # None =>
    /\ status[findings.stage] = "RUNNING"
    /\ findings.made.view = View(findings.stage)

\* The last study remembered for its premises.
Last(i) == \A k \in DOMAIN receipts : receipts[k].identity = receipts[i].identity => k <= i

\* A remembered study was made from what it is remembered for, and there is a last one
\* for whatever is remembered.
ReceiptsAgree ==
  /\ receipts \in Seq({receipts[i] : i \in DOMAIN receipts})
  /\ \A i \in DOMAIN receipts :
       LET study == receipts[i].study IN
       /\ IsProduct(Study, study) /\ study.content.number \in 1 .. studies
       /\ study.view[Evidence].rest = receipts[i].identity.evidence
       /\ study.view[Environment].mode = receipts[i].identity.environment
       /\ study.view[Knowledge] = Knowledge
  /\ \A i \in DOMAIN receipts :
       \E k \in DOMAIN receipts : receipts[k].identity = receipts[i].identity /\ Last(k)

\* A study waits to be remembered only after it was accepted from a turn.
StudyAccepted ==
  /\ at = "remember" => status[Study] = "PASS" /\ product[Study].content.number = studies
  /\ status[Study] = "PASS" => product[Study].content.number \in 1 .. studies

\* What the controller has yet to record of the attempt.
ToInspect == status[Environment] = "READY" \/ at \in {"inspect", "inventory"}
ToList == ToInspect \/ at = "candidates"

Owed(record) == IF record THEN 1 ELSE 0

USE DEF ToInspect, ToList, Owed

\* Only the operator makes more than one inspection of an attempt.
Counted ==
  /\ inventory + Owed(hand = "inventory") + Owed(ToInspect) <= acts + 1
  /\ candidates + Owed(hand # "none") + Owed(ToList) <= acts + 1
  /\ hand # "none" => acts > 0
  /\ at \in {"inventory", "candidates"} => status[Environment] = "RUNNING"
  /\ at = "inspect" => status[Environment] \in {"READY", "RUNNING"}
  /\ status[Environment] = "READY" => inventory = 0 /\ candidates = 0

\* As long as nothing has gone wrong with it one inspection is under way, or none.
InspectedSoFar ==
  "inspected" \notin accidents =>
    /\ at \in {"inspect", "inventory", "candidates"} \/ status[Environment] = "READY" => hand = "none"
    /\ at = "inspect" => status[Environment] = "READY"
    /\ at = "inventory" \/ hand = "inventory" => inventory = 0 /\ candidates = 0
    /\ at = "candidates" \/ hand = "candidates" => inventory = 1 /\ candidates = 0
    /\ status[Environment] \in {"RUNNING", "PASS"} /\ at \notin {"inventory", "candidates"}
         /\ hand = "none" => Inspected

\* The study at work follows a rejected one of the same premises, and has not been
\* opened again by a repair of the evidence.
Replacing(i) ==
  /\ receipts[i].identity = StudyIdentity
  /\ \/ at = "remember"
     \/ status[Study] \in {"READY", "RUNNING"} /\ root[Study] = Study
     \/ status[Study] = "BLOCKED"

\* A rejected study is the last remembered for its premises only as long as its
\* replacement is being made, and what is accepted is remembered last.
RejectedReplaced ==
  {"handed_on", "unremembered"} \cap accidents = {} =>
    /\ status[Study] = "PASS" => product[Study].content.number \notin rejected
    /\ \A i \in DOMAIN receipts :
         Last(i) /\ receipts[i].study.content.number \in rejected => Replacing(i)
    /\ status[Study] = "PASS" /\ at # "remember" =>
         \E i \in DOMAIN receipts :
           /\ Last(i) /\ receipts[i].identity = StudyIdentity
           /\ receipts[i].study.content.number = product[Study].content.number
    /\ at = "remember" => \A i \in DOMAIN receipts : receipts[i].study.content.number # studies
    /\ \A i, k \in DOMAIN receipts :
         receipts[i].study.content.number = receipts[k].study.content.number => i = k

IInv == /\ TypeOK /\ Grounded /\ JobsCurrent /\ FindingsCurrent /\ ReceiptsAgree /\ StudyAccepted
        /\ Counted /\ InspectedSoFar /\ RestsOnCurrent /\ RejectedReplaced

-----------------------------------------------------------------------------
(* Stages and products.                                                    *)

\* The stages the code names are there.
LEMMA Constant ==
  /\ TypeOK => status \in [Stages -> States]
  /\ Evidence \in Stages /\ Environment \in Stages /\ Knowledge \in Stages /\ Study \in Stages
  /\ Handoff \in Stages
  /\ \A s \in Stages : Ancestors[s] \subseteq Stages
BY PlaceAmong, Graph DEF TypeOK, States, Six

\* What a stage may be accepted with.
LEMMA OutcomesAre ==
  /\ Outcomes(Evidence) = Evidences /\ Outcomes(Environment) = Modes /\ Outcomes(Study) = Studies
  /\ \A s \in Stages \ {Evidence, Environment, Study} : Outcomes(s) = {s}
  /\ Contents(Evidence) = Evidences /\ Contents(Environment) = Environments /\ Contents(Study) = Reports
  /\ \A s \in Stages \ {Evidence, Environment, Study} : Contents(s) = {s}
BY DEF Outcomes, Contents

\* The environment is never pending: it reads nothing of its phase.
LEMMA EnvironmentReady == Grounded => status[Environment] # "PENDING"
BY Constant, AncestorsAre DEF Grounded

\* What a stage reads once it is ready.
LEMMA ViewTyped ==
  ASSUME TypeOK, Grounded, NEW s \in Stages, status[s] # "PENDING"
  PROVE  IsView(s, View(s))
BY Constant DEF TypeOK, Grounded, IsView, View, IsProduct

\* What is made from it is a product.
LEMMA Typed ==
  ASSUME TypeOK, Grounded, NEW s \in Stages, status[s] # "PENDING", NEW content \in Outcomes(s)
  PROVE  IsProduct(s, [content |-> content, view |-> View(s)])
<1> DEFINE made == [content |-> content, view |-> View(s)]
<1>1. made \in Products(s)
  <2>1. View(s) \in [Ancestors[s] -> Evidences \cup Modes \cup Studies \cup Stages]
    <3>1. \A d \in Stages : Outcomes(d) \subseteq Evidences \cup Modes \cup Studies \cup Stages
      BY PlaceAmong DEF Outcomes, Contents
    <3>2. \A d \in Ancestors[s] : product[d].content \in Outcomes(d)
      BY ViewTyped DEF IsView, View
    <3> QED BY <3>1, <3>2, Constant DEF View
  <2> QED BY <2>1 DEF Products
<1> QED BY <1>1, NoneAssumption, ViewTyped DEF IsProduct

\* Nothing is disregarded of what has not changed.
LEMMA AgreesNow ==
  /\ \A s, d, x : Agrees(s, d, x, x)
  /\ \A s : \A d \in Ancestors[s] : Agrees(s, d, View(s)[d], product[d].content)
BY DEF Agrees, View

\* An answer that passes its stage has a content of that stage.
LEMMA Passing ==
  ASSUME TypeOK, NEW s \in Stages, Answered(s, "pass")
  PROVE  job[s] # None /\ job[s].answer.content \in Contents(s)
BY DEF TypeOK, Answered, Answers, Passes, Blocker, Asks

\* Only the environment and the handoff have findings, and they are judged first.
LEMMA FindingsOf ==
  /\ TypeOK => \A s \in Stages \ {Environment, Handoff} : ~Judging(s)
  /\ \A s \in Stages : AtGate(s) => ~Judging(s)
BY DEF TypeOK, Judging, AtGate

\* A repair undoes the target and whatever reads it, and nothing it reads.
LEMMA Below ==
  ASSUME NEW t \in Stages
  PROVE  /\ Descendants(t) \subseteq Stages /\ t \in Descendants(t)
         /\ \A r \in Stages \ Descendants(t) : \A a \in Ancestors[r] : a \notin Descendants(t)
         /\ \A a \in Ancestors[t] : a \notin Descendants(t)
         /\ \A r \in Descendants(t) \ {t} : t \in Ancestors[r]
<1>1. \A r \in Stages \ Descendants(t) : \A a \in Ancestors[r] : a \notin Descendants(t)
  BY Graph, Constant DEF Descendants
<1>2. \A a \in Ancestors[t] : a \notin Descendants(t)
  BY Graph, Constant DEF Descendants
<1> QED BY <1>1, <1>2 DEF Descendants

\* Some remembered study is the newest of its premises.
LEMMA NewestIs ==
  ASSUME ReceiptsAgree, Remembered # {}
  PROVE  Newest \in Remembered /\ Last(Newest)
<1>1. DOMAIN receipts \subseteq Nat
  <2>1. receipts \in Seq({receipts[i] : i \in DOMAIN receipts})
    BY DEF ReceiptsAgree
  <2> QED BY <2>1
<1>2. PICK k \in Remembered : Last(k)
  BY DEF ReceiptsAgree, Remembered, Last
<1>3. \A i \in Remembered : i <= k
  BY <1>2 DEF Remembered, Last
<1>4. Newest \in Remembered /\ \A i \in Remembered : i <= Newest
  BY <1>2, <1>3 DEF Newest
<1>5. Last(Newest)
  BY <1>4 DEF Last, Remembered
<1> QED BY <1>4, <1>5

-----------------------------------------------------------------------------
(* Steps that accept nothing and send nothing back.                        *)

\* They leave what has passed, what is pending and what is accepted.
Stays ==
  /\ product' = product
  /\ status' \in [Stages -> States]
  /\ \A r \in Stages : /\ status'[r] = "PASS" <=> status[r] = "PASS"
                       /\ status'[r] = "PENDING" <=> status[r] = "PENDING"

\* A stage that starts, is blocked or opened again.
LEMMA Moves ==
  ASSUME TypeOK, NEW s \in Stages, status[s] \in {"READY", "RUNNING", "BLOCKED"},
         NEW x \in {"READY", "RUNNING", "BLOCKED"}, status' = [status EXCEPT ![s] = x],
         product' = product
  PROVE  /\ Stays /\ status'[s] = x
         /\ \A r \in Stages \ {s} : status'[r] = status[r]
BY DEF TypeOK, States, Stays

\* What is accepted still rests on what is accepted.
LEMMA StaysGrounded ==
  ASSUME IInv, Stays
  PROVE  /\ Grounded' /\ RestsOnCurrent'
         /\ \A r \in Stages : View(r)' = View(r)
         /\ \A s \in Stages : /\ status'[s] = "PASS" <=> product'[s] # None
                              /\ product'[s] # None => IsProduct(s, product'[s])
         /\ DOMAIN product' = Stages
<1>1. Grounded'
  BY Constant DEF IInv, Grounded, Stays
<1>2. RestsOnCurrent'
  BY Constant DEF IInv, RestsOnCurrent, Stays
<1>3. \A r \in Stages : View(r)' = View(r)
  BY DEF View, Stays
<1> QED BY <1>1, <1>2, <1>3 DEF IInv, TypeOK, Stays

\* A rejected study stays out while the study is blocked, opened again or at work.
LEMMA StaysReplaced ==
  ASSUME IInv, product' = product, receipts' = receipts, rejected' = rejected, studies' = studies,
         accidents \ {"inspected"} \subseteq accidents',
         \/ at' = "remember" <=> at = "remember"
         \/ at' = "loop" /\ "unremembered" \in accidents',
         status'[Study] = "PASS" <=> status[Study] = "PASS",
         \/ status'[Study] = "BLOCKED"
         \/ status'[Study] = status[Study] /\ root'[Study] = root[Study]
         \/ status[Study] = "BLOCKED" /\ status'[Study] = "READY" /\ root'[Study] = Study
         \/ status[Study] = "READY" /\ status'[Study] = "RUNNING" /\ root'[Study] = root[Study]
  PROVE  RejectedReplaced' /\ StudyAccepted' /\ ReceiptsAgree'
<1>1. StudyIdentity' = StudyIdentity
  BY DEF StudyIdentity
<1>2. StudyAccepted' /\ ReceiptsAgree'
  BY DEF IInv, StudyAccepted, ReceiptsAgree, Last
<1>3. RejectedReplaced'
  BY <1>1 DEF IInv, RejectedReplaced, Replacing, Last
<1> QED BY <1>2, <1>3

\* The controller finds the environment ready.
LEMMA InspectKeeps ==
  ASSUME IInv, Inspect
  PROVE  IInv'
<1>1. Stays /\ status' = status
  BY Constant DEF IInv, Stays, Inspect, Current, Uninspected, work, inspection, history, bounds
<1>2. /\ Grounded' /\ RestsOnCurrent' /\ DOMAIN product' = Stages
      /\ \A r \in Stages : View(r)' = View(r)
      /\ \A r \in Stages : /\ status'[r] = "PASS" <=> product'[r] # None
                           /\ product'[r] # None => IsProduct(r, product'[r])
  BY <1>1, StaysGrounded
<1>3. Counted' /\ InspectedSoFar'
  BY <1>1, Constant
  DEF IInv, Counted, InspectedSoFar, Inspected, TypeOK,
      Inspect, Current, Uninspected, work, inspection, history, bounds
<1>4. TypeOK'
  BY <1>1, <1>2, <1>3, ViewTyped, AnalysisAssumption
  DEF IInv, Counted, TypeOK, States, Stays, Inspect, Current, Uninspected, work, inspection, history, bounds
<1>5. JobsCurrent' /\ FindingsCurrent'
  BY <1>1, <1>2, Constant
  DEF IInv, JobsCurrent, FindingsCurrent, TypeOK, Inspect, Current, Uninspected, work, inspection, history, bounds
<1>6. RejectedReplaced' /\ StudyAccepted' /\ ReceiptsAgree'
  BY <1>1, StaysReplaced, Constant
  DEF IInv, TypeOK, Stays, Inspect, Current, Uninspected, work, inspection, history, bounds
<1> QED BY <1>2, <1>3, <1>4, <1>5, <1>6 DEF IInv

\* It starts the environment of an attempt.
LEMMA BeginInspectionKeeps ==
  ASSUME IInv, BeginInspection
  PROVE  IInv'
<1>1. /\ Stays /\ status'[Environment] = "RUNNING" /\ status[Environment] \in {"READY", "RUNNING"}
      /\ \A r \in Stages \ {Environment} : status'[r] = status[r]
  BY Moves, Constant
  DEF IInv, Counted, TypeOK, BeginInspection, Start, Uninspected, work, inspection, history, bounds
<1>2. /\ Grounded' /\ RestsOnCurrent' /\ DOMAIN product' = Stages
      /\ \A r \in Stages : View(r)' = View(r)
      /\ \A r \in Stages : /\ status'[r] = "PASS" <=> product'[r] # None
                           /\ product'[r] # None => IsProduct(r, product'[r])
  BY <1>1, StaysGrounded
<1>3. Counted' /\ InspectedSoFar'
  BY <1>1, Constant
  DEF IInv, Counted, InspectedSoFar, Inspected, TypeOK,
      BeginInspection, Start, Uninspected, work, inspection, history, bounds
<1>4. TypeOK'
  BY <1>1, <1>2, <1>3, ViewTyped, AnalysisAssumption
  DEF IInv, Counted, TypeOK, States, Stays, BeginInspection, Start, Uninspected, work, inspection, history, bounds
<1>5. JobsCurrent' /\ FindingsCurrent'
  BY <1>1, <1>2, Constant
  DEF IInv, JobsCurrent, FindingsCurrent, TypeOK, BeginInspection, Start, Uninspected, work, inspection, history, bounds
<1>6. RejectedReplaced' /\ StudyAccepted' /\ ReceiptsAgree'
  BY <1>1, StaysReplaced, Constant
  DEF IInv, TypeOK, Stays, BeginInspection, Start, Uninspected, work, inspection, history, bounds
<1> QED BY <1>2, <1>3, <1>4, <1>5, <1>6 DEF IInv

\* The first write of an inspection.
LEMMA RecordInventoryKeeps ==
  ASSUME IInv, RecordInventory
  PROVE  IInv'
<1>1. Stays /\ status' = status
  BY Constant DEF IInv, Stays, RecordInventory, work, history, bounds
<1>2. /\ Grounded' /\ RestsOnCurrent' /\ DOMAIN product' = Stages
      /\ \A r \in Stages : View(r)' = View(r)
      /\ \A r \in Stages : /\ status'[r] = "PASS" <=> product'[r] # None
                           /\ product'[r] # None => IsProduct(r, product'[r])
  BY <1>1, StaysGrounded
<1>3. Counted' /\ InspectedSoFar'
  BY <1>1, Constant
  DEF IInv, Counted, InspectedSoFar, Inspected, TypeOK,
      RecordInventory, work, history, bounds
<1>4. TypeOK'
  BY <1>1, <1>2, <1>3, ViewTyped, AnalysisAssumption
  DEF IInv, Counted, TypeOK, States, Stays, RecordInventory, work, history, bounds
<1>5. JobsCurrent' /\ FindingsCurrent'
  BY <1>1, <1>2, Constant
  DEF IInv, JobsCurrent, FindingsCurrent, TypeOK, RecordInventory, work, history, bounds
<1>6. RejectedReplaced' /\ StudyAccepted' /\ ReceiptsAgree'
  BY <1>1, StaysReplaced, Constant
  DEF IInv, TypeOK, Stays, RecordInventory, work, history, bounds
<1> QED BY <1>2, <1>3, <1>4, <1>5, <1>6 DEF IInv

\* The second.
LEMMA RecordCandidatesKeeps ==
  ASSUME IInv, RecordCandidates
  PROVE  IInv'
<1>1. Stays /\ status' = status
  BY Constant DEF IInv, Stays, RecordCandidates, work, history, bounds
<1>2. /\ Grounded' /\ RestsOnCurrent' /\ DOMAIN product' = Stages
      /\ \A r \in Stages : View(r)' = View(r)
      /\ \A r \in Stages : /\ status'[r] = "PASS" <=> product'[r] # None
                           /\ product'[r] # None => IsProduct(r, product'[r])
  BY <1>1, StaysGrounded
<1>3. Counted' /\ InspectedSoFar'
  BY <1>1, Constant
  DEF IInv, Counted, InspectedSoFar, Inspected, TypeOK,
      RecordCandidates, work, history, bounds
<1>4. TypeOK'
  BY <1>1, <1>2, <1>3, ViewTyped, AnalysisAssumption
  DEF IInv, Counted, TypeOK, States, Stays, RecordCandidates, work, history, bounds
<1>5. JobsCurrent' /\ FindingsCurrent'
  BY <1>1, <1>2, Constant
  DEF IInv, JobsCurrent, FindingsCurrent, TypeOK, RecordCandidates, work, history, bounds
<1>6. RejectedReplaced' /\ StudyAccepted' /\ ReceiptsAgree'
  BY <1>1, StaysReplaced, Constant
  DEF IInv, TypeOK, Stays, RecordCandidates, work, history, bounds
<1> QED BY <1>2, <1>3, <1>4, <1>5, <1>6 DEF IInv

\* An inspection that raises.
LEMMA InspectionFailsKeeps ==
  ASSUME IInv, InspectionFails
  PROVE  IInv'
<1>1. Stays /\ status' = status
  BY Constant DEF IInv, Stays, InspectionFails, Uninspected, work, inspection, history
<1>2. /\ Grounded' /\ RestsOnCurrent' /\ DOMAIN product' = Stages
      /\ \A r \in Stages : View(r)' = View(r)
      /\ \A r \in Stages : /\ status'[r] = "PASS" <=> product'[r] # None
                           /\ product'[r] # None => IsProduct(r, product'[r])
  BY <1>1, StaysGrounded
<1>3. Counted' /\ InspectedSoFar'
  BY <1>1, Constant
  DEF IInv, Counted, InspectedSoFar, Inspected, TypeOK,
      InspectionFails, Uninspected, work, inspection, history
<1>4. TypeOK'
  BY <1>1, <1>2, <1>3, ViewTyped, AnalysisAssumption
  DEF IInv, Counted, TypeOK, States, Stays, InspectionFails, Uninspected, work, inspection, history
<1>5. JobsCurrent' /\ FindingsCurrent'
  BY <1>1, <1>2, Constant
  DEF IInv, JobsCurrent, FindingsCurrent, TypeOK, InspectionFails, Uninspected, work, inspection, history
<1>6. RejectedReplaced' /\ StudyAccepted' /\ ReceiptsAgree'
  BY <1>1, StaysReplaced, Constant
  DEF IInv, TypeOK, Stays, InspectionFails, Uninspected, work, inspection, history
<1> QED BY <1>2, <1>3, <1>4, <1>5, <1>6 DEF IInv

\* An inspection by the operator, which may come between the controller's steps.
LEMMA InspectByHandKeeps ==
  ASSUME IInv, InspectByHand
  PROVE  IInv'
<1>1. /\ Stays /\ status'[Environment] = "RUNNING" /\ status[Environment] \in {"READY", "RUNNING"}
      /\ \A r \in Stages \ {Environment} : status'[r] = status[r]
  BY Moves, Constant
  DEF IInv, Counted, TypeOK, InspectByHand, Start, Uninspected, work, history
<1>2. /\ Grounded' /\ RestsOnCurrent' /\ DOMAIN product' = Stages
      /\ \A r \in Stages : View(r)' = View(r)
      /\ \A r \in Stages : /\ status'[r] = "PASS" <=> product'[r] # None
                           /\ product'[r] # None => IsProduct(r, product'[r])
  BY <1>1, StaysGrounded
<1>3. Counted' /\ InspectedSoFar'
  BY <1>1, Constant
  DEF IInv, Counted, InspectedSoFar, Inspected, TypeOK,
      InspectByHand, Start, Uninspected, work, history
<1>4. TypeOK'
  BY <1>1, <1>2, <1>3, ViewTyped, AnalysisAssumption
  DEF IInv, Counted, TypeOK, States, Stays, InspectByHand, Start, Uninspected, work, history
<1>5. JobsCurrent' /\ FindingsCurrent'
  BY <1>1, <1>2, Constant
  DEF IInv, JobsCurrent, FindingsCurrent, TypeOK, InspectByHand, Start, Uninspected, work, history
<1>6. RejectedReplaced' /\ StudyAccepted' /\ ReceiptsAgree'
  BY <1>1, StaysReplaced, Constant
  DEF IInv, TypeOK, Stays, InspectByHand, Start, Uninspected, work, history
<1> QED BY <1>2, <1>3, <1>4, <1>5, <1>6 DEF IInv

\* Its first write.
LEMMA HandRecordsInventoryKeeps ==
  ASSUME IInv, HandRecordsInventory
  PROVE  IInv'
<1>1. Stays /\ status' = status
  BY Constant DEF IInv, Stays, HandRecordsInventory, work, history, bounds
<1>2. /\ Grounded' /\ RestsOnCurrent' /\ DOMAIN product' = Stages
      /\ \A r \in Stages : View(r)' = View(r)
      /\ \A r \in Stages : /\ status'[r] = "PASS" <=> product'[r] # None
                           /\ product'[r] # None => IsProduct(r, product'[r])
  BY <1>1, StaysGrounded
<1>3. Counted' /\ InspectedSoFar'
  BY <1>1, Constant
  DEF IInv, Counted, InspectedSoFar, Inspected, TypeOK,
      HandRecordsInventory, work, history, bounds
<1>4. TypeOK'
  BY <1>1, <1>2, <1>3, ViewTyped, AnalysisAssumption
  DEF IInv, Counted, TypeOK, States, Stays, HandRecordsInventory, work, history, bounds
<1>5. JobsCurrent' /\ FindingsCurrent'
  BY <1>1, <1>2, Constant
  DEF IInv, JobsCurrent, FindingsCurrent, TypeOK, HandRecordsInventory, work, history, bounds
<1>6. RejectedReplaced' /\ StudyAccepted' /\ ReceiptsAgree'
  BY <1>1, StaysReplaced, Constant
  DEF IInv, TypeOK, Stays, HandRecordsInventory, work, history, bounds
<1> QED BY <1>2, <1>3, <1>4, <1>5, <1>6 DEF IInv

\* Its second.
LEMMA HandRecordsCandidatesKeeps ==
  ASSUME IInv, HandRecordsCandidates
  PROVE  IInv'
<1>1. Stays /\ status' = status
  BY Constant DEF IInv, Stays, HandRecordsCandidates, work, history, bounds
<1>2. /\ Grounded' /\ RestsOnCurrent' /\ DOMAIN product' = Stages
      /\ \A r \in Stages : View(r)' = View(r)
      /\ \A r \in Stages : /\ status'[r] = "PASS" <=> product'[r] # None
                           /\ product'[r] # None => IsProduct(r, product'[r])
  BY <1>1, StaysGrounded
<1>3. Counted' /\ InspectedSoFar'
  BY <1>1, Constant
  DEF IInv, Counted, InspectedSoFar, Inspected, TypeOK,
      HandRecordsCandidates, work, history, bounds
<1>4. TypeOK'
  BY <1>1, <1>2, <1>3, ViewTyped, AnalysisAssumption
  DEF IInv, Counted, TypeOK, States, Stays, HandRecordsCandidates, work, history, bounds
<1>5. JobsCurrent' /\ FindingsCurrent'
  BY <1>1, <1>2, Constant
  DEF IInv, JobsCurrent, FindingsCurrent, TypeOK, HandRecordsCandidates, work, history, bounds
<1>6. RejectedReplaced' /\ StudyAccepted' /\ ReceiptsAgree'
  BY <1>1, StaysReplaced, Constant
  DEF IInv, TypeOK, Stays, HandRecordsCandidates, work, history, bounds
<1> QED BY <1>2, <1>3, <1>4, <1>5, <1>6 DEF IInv

\* It ends before its time.
LEMMA HandEndsKeeps ==
  ASSUME IInv, HandEnds
  PROVE  IInv'
<1>1. Stays /\ status' = status
  BY Constant DEF IInv, Stays, HandEnds, work, history
<1>2. /\ Grounded' /\ RestsOnCurrent' /\ DOMAIN product' = Stages
      /\ \A r \in Stages : View(r)' = View(r)
      /\ \A r \in Stages : /\ status'[r] = "PASS" <=> product'[r] # None
                           /\ product'[r] # None => IsProduct(r, product'[r])
  BY <1>1, StaysGrounded
<1>3. Counted' /\ InspectedSoFar'
  BY <1>1, Constant
  DEF IInv, Counted, InspectedSoFar, Inspected, TypeOK,
      HandEnds, work, history
<1>4. TypeOK'
  BY <1>1, <1>2, <1>3, ViewTyped, AnalysisAssumption
  DEF IInv, Counted, TypeOK, States, Stays, HandEnds, work, history
<1>5. JobsCurrent' /\ FindingsCurrent'
  BY <1>1, <1>2, Constant
  DEF IInv, JobsCurrent, FindingsCurrent, TypeOK, HandEnds, work, history
<1>6. RejectedReplaced' /\ StudyAccepted' /\ ReceiptsAgree'
  BY <1>1, StaysReplaced, Constant
  DEF IInv, TypeOK, Stays, HandEnds, work, history
<1> QED BY <1>2, <1>3, <1>4, <1>5, <1>6 DEF IInv

\* A worker answers about what is accepted now.
LEMMA TurnKeeps ==
  ASSUME IInv, NEW s \in Stages, Turn(s)
  PROVE  IInv'
<1>1. /\ Stays /\ status'[s] = "RUNNING" /\ status[s] \in {"READY", "RUNNING", "BLOCKED"}
      /\ \A r \in Stages \ {s} : status'[r] = status[r]
  BY Moves, Constant
  DEF IInv, Turn, AtGate, Current, Start, Uninspected, inspection, history, bounds
<1>2. /\ Grounded' /\ RestsOnCurrent' /\ DOMAIN product' = Stages
      /\ \A r \in Stages : View(r)' = View(r)
      /\ \A r \in Stages : /\ status'[r] = "PASS" <=> product'[r] # None
                           /\ product'[r] # None => IsProduct(r, product'[r])
  BY <1>1, StaysGrounded
<1>3. Counted' /\ InspectedSoFar'
  BY <1>1, Constant
  DEF IInv, Counted, InspectedSoFar, Inspected, TypeOK, Turn, AtGate, Current, Start,
      Uninspected, inspection, history, bounds
<1>4. TypeOK'
  BY <1>1, <1>2, <1>3, ViewTyped, AnalysisAssumption
  DEF IInv, Counted, TypeOK, States, Stays, Turn, AtGate, Current, Start, Uninspected,
      inspection, history, bounds
<1>5. JobsCurrent' /\ FindingsCurrent'
  BY <1>1, <1>2, Constant
  DEF IInv, JobsCurrent, FindingsCurrent, TypeOK, Judging, Turn, AtGate, Current, Start,
      Uninspected, inspection, history, bounds
<1>6. RejectedReplaced' /\ StudyAccepted' /\ ReceiptsAgree'
  BY <1>1, StaysReplaced, Constant
  DEF IInv, TypeOK, Stays, Turn, AtGate, Current, Start, Uninspected, inspection, history,
      bounds
<1> QED BY <1>2, <1>3, <1>4, <1>5, <1>6 DEF IInv

\* An answer that cannot be used is dropped.
LEMMA UnusableKeeps ==
  ASSUME IInv, NEW s \in Stages, Unusable(s)
  PROVE  IInv'
<1>1. Stays /\ status' = status
  BY Constant DEF IInv, Stays, Unusable, Answered, AtGate, Current, inspection, history, bounds
<1>2. /\ Grounded' /\ RestsOnCurrent' /\ DOMAIN product' = Stages
      /\ \A r \in Stages : View(r)' = View(r)
      /\ \A r \in Stages : /\ status'[r] = "PASS" <=> product'[r] # None
                           /\ product'[r] # None => IsProduct(r, product'[r])
  BY <1>1, StaysGrounded
<1>3. Counted' /\ InspectedSoFar'
  BY <1>1, Constant
  DEF IInv, Counted, InspectedSoFar, Inspected, TypeOK, Unusable, Answered, AtGate, Current,
      inspection, history, bounds
<1>4. TypeOK'
  BY <1>1, <1>2, <1>3, ViewTyped, AnalysisAssumption
  DEF IInv, Counted, TypeOK, States, Stays, Unusable, Answered, AtGate, Current, inspection,
      history, bounds
<1>5. JobsCurrent' /\ FindingsCurrent'
  BY <1>1, <1>2, Constant
  DEF IInv, JobsCurrent, FindingsCurrent, TypeOK, Judging, Unusable, Answered, AtGate,
      Current, inspection, history, bounds
<1>6. RejectedReplaced' /\ StudyAccepted' /\ ReceiptsAgree'
  BY <1>1, StaysReplaced, Constant
  DEF IInv, TypeOK, Stays, Unusable, Answered, AtGate, Current, inspection, history, bounds
<1> QED BY <1>2, <1>3, <1>4, <1>5, <1>6 DEF IInv

\* A worker gives up.
LEMMA GiveUpKeeps ==
  ASSUME IInv, NEW s \in Stages, GiveUp(s)
  PROVE  IInv'
<1>1. /\ Stays /\ status'[s] = "BLOCKED" /\ status[s] \in {"READY", "RUNNING", "BLOCKED"}
      /\ \A r \in Stages \ {s} : status'[r] = status[r]
  BY Moves, Constant
  DEF IInv, GiveUp, Answered, AtGate, Current, Block, Uninspected, work, inspection,
      history, bounds
<1>2. /\ Grounded' /\ RestsOnCurrent' /\ DOMAIN product' = Stages
      /\ \A r \in Stages : View(r)' = View(r)
      /\ \A r \in Stages : /\ status'[r] = "PASS" <=> product'[r] # None
                           /\ product'[r] # None => IsProduct(r, product'[r])
  BY <1>1, StaysGrounded
<1>3. Counted' /\ InspectedSoFar'
  BY <1>1, Constant
  DEF IInv, Counted, InspectedSoFar, Inspected, TypeOK, GiveUp, Answered, AtGate, Current,
      Block, Uninspected, work, inspection, history, bounds
<1>4. TypeOK'
  BY <1>1, <1>2, <1>3, ViewTyped, AnalysisAssumption
  DEF IInv, Counted, TypeOK, States, Stays, GiveUp, Answered, AtGate, Current, Block,
      Uninspected, work, inspection, history, bounds
<1>5. JobsCurrent' /\ FindingsCurrent'
  BY <1>1, <1>2, Constant
  DEF IInv, JobsCurrent, FindingsCurrent, TypeOK, Judging, GiveUp, Answered, AtGate,
      Current, Block, Uninspected, work, inspection, history, bounds
<1>6. RejectedReplaced' /\ StudyAccepted' /\ ReceiptsAgree'
  BY <1>1, StaysReplaced, Constant
  DEF IInv, TypeOK, Stays, GiveUp, Answered, AtGate, Current, Block, Uninspected, work,
      inspection, history, bounds
<1> QED BY <1>2, <1>3, <1>4, <1>5, <1>6 DEF IInv

\* A repair asked for again blocks who asks.
LEMMA ExhaustKeeps ==
  ASSUME IInv, NEW s \in Stages, Exhaust(s)
  PROVE  IInv'
<1>1. /\ Stays /\ status'[s] = "BLOCKED" /\ status[s] \in {"READY", "RUNNING", "BLOCKED"}
      /\ \A r \in Stages \ {s} : status'[r] = status[r]
  BY Moves, Constant
  DEF IInv, Exhaust, Answered, AtGate, Current, Block, Uninspected, work, inspection,
      history, bounds
<1>2. /\ Grounded' /\ RestsOnCurrent' /\ DOMAIN product' = Stages
      /\ \A r \in Stages : View(r)' = View(r)
      /\ \A r \in Stages : /\ status'[r] = "PASS" <=> product'[r] # None
                           /\ product'[r] # None => IsProduct(r, product'[r])
  BY <1>1, StaysGrounded
<1>3. Counted' /\ InspectedSoFar'
  BY <1>1, Constant
  DEF IInv, Counted, InspectedSoFar, Inspected, TypeOK, Exhaust, Answered, AtGate, Current,
      Block, Uninspected, work, inspection, history, bounds
<1>4. TypeOK'
  BY <1>1, <1>2, <1>3, ViewTyped, AnalysisAssumption
  DEF IInv, Counted, TypeOK, States, Stays, Exhaust, Answered, AtGate, Current, Block,
      Uninspected, work, inspection, history, bounds
<1>5. JobsCurrent' /\ FindingsCurrent'
  BY <1>1, <1>2, Constant
  DEF IInv, JobsCurrent, FindingsCurrent, TypeOK, Judging, Exhaust, Answered, AtGate,
      Current, Block, Uninspected, work, inspection, history, bounds
<1>6. RejectedReplaced' /\ StudyAccepted' /\ ReceiptsAgree'
  BY <1>1, StaysReplaced, Constant
  DEF IInv, TypeOK, Stays, Exhaust, Answered, AtGate, Current, Block, Uninspected, work,
      inspection, history, bounds
<1> QED BY <1>2, <1>3, <1>4, <1>5, <1>6 DEF IInv

\* The operator opens a blocked stage again.
LEMMA ReopenKeeps ==
  ASSUME IInv, NEW s \in Stages, Reopen(s)
  PROVE  IInv'
<1>1. /\ Stays /\ status'[s] = "READY" /\ status[s] \in {"READY", "RUNNING", "BLOCKED"}
      /\ \A r \in Stages \ {s} : status'[r] = status[r]
  BY Moves, Constant DEF IInv, Reopen, Dropped, Afresh, history
<1>2. /\ Grounded' /\ RestsOnCurrent' /\ DOMAIN product' = Stages
      /\ \A r \in Stages : View(r)' = View(r)
      /\ \A r \in Stages : /\ status'[r] = "PASS" <=> product'[r] # None
                           /\ product'[r] # None => IsProduct(r, product'[r])
  BY <1>1, StaysGrounded
<1>3. Counted' /\ InspectedSoFar'
  BY <1>1, Constant DEF IInv, Counted, InspectedSoFar, Inspected, TypeOK, Reopen, Dropped, Afresh, history
<1>4. TypeOK'
  BY <1>1, <1>2, <1>3, ViewTyped, AnalysisAssumption
  DEF IInv, Counted, TypeOK, States, Stays, Reopen, Dropped, Afresh, history
<1>5. JobsCurrent' /\ FindingsCurrent'
  BY <1>1, <1>2, Constant DEF IInv, JobsCurrent, FindingsCurrent, TypeOK, Reopen, Dropped, Afresh, history
<1>6. RejectedReplaced' /\ StudyAccepted' /\ ReceiptsAgree'
  BY <1>1, StaysReplaced, Constant DEF IInv, TypeOK, Stays, Reopen, Dropped, Afresh, history
<1> QED BY <1>2, <1>3, <1>4, <1>5, <1>6 DEF IInv

\* A crash between two writes.
LEMMA CrashKeeps ==
  ASSUME IInv, Crash
  PROVE  IInv'
<1>1. Stays /\ status' = status
  BY Constant DEF IInv, Stays, Crash, work, inspection, history
<1>2. /\ Grounded' /\ RestsOnCurrent' /\ DOMAIN product' = Stages
      /\ \A r \in Stages : View(r)' = View(r)
      /\ \A r \in Stages : /\ status'[r] = "PASS" <=> product'[r] # None
                           /\ product'[r] # None => IsProduct(r, product'[r])
  BY <1>1, StaysGrounded
<1>3. Counted' /\ InspectedSoFar'
  BY <1>1, Constant
  DEF IInv, Counted, InspectedSoFar, Inspected, TypeOK, Crash, work, inspection, history
<1>4. TypeOK'
  BY <1>1, <1>2, <1>3, ViewTyped, AnalysisAssumption
  DEF IInv, Counted, TypeOK, States, Stays, Crash, work, inspection, history
<1>5. JobsCurrent' /\ FindingsCurrent'
  BY <1>1, <1>2, Constant
  DEF IInv, JobsCurrent, FindingsCurrent, TypeOK, Crash, work, inspection, history
<1>6. RejectedReplaced' /\ StudyAccepted' /\ ReceiptsAgree'
  BY <1>1, StaysReplaced, Constant DEF IInv, TypeOK, Stays, Crash, work, inspection, history
<1> QED BY <1>2, <1>3, <1>4, <1>5, <1>6 DEF IInv

-----------------------------------------------------------------------------
(* Steps that accept a product.                                            *)

\* What such a step leaves: what became ready reads nothing that has not passed.
Accepted(s, made) ==
  /\ status' \in [Stages -> States] /\ status'[s] = "PASS"
  /\ \A r \in Stages \ {s} : status'[r] = status[r] \/ (status[r] = "PENDING" /\ status'[r] = "READY")
  /\ DOMAIN product' = Stages /\ product'[s] = made /\ \A r \in Stages \ {s} : product'[r] = product[r]
  /\ root' \in [Stages -> Stages \cup {None}] /\ \A r \in Stages \ {s} : root'[r] = root[r]
  /\ \A r \in Stages : status[r] # "PENDING" => s \notin Ancestors[r] /\ View(r)' = View(r)

\* A commit is one.
LEMMA Commits ==
  ASSUME TypeOK, Grounded, NEW s \in Stages, status[s] \in {"READY", "RUNNING"}, NEW made, Commit(s, made)
  PROVE  Accepted(s, made) /\ Grounded'
<1>1. /\ status' = [r \in Stages |-> IF /\ r # s /\ status[r] = "PENDING"
                                        /\ \A d \in Deps[r] : d = s \/ status[d] = "PASS"
                                     THEN "READY" ELSE IF r = s THEN "PASS" ELSE status[r]]
      /\ product' = [product EXCEPT ![s] = made] /\ root' = [root EXCEPT ![s] = None]
  <2>1. \A r \in Stages : \A d \in Deps[r] : d \in Stages
    BY Graph
  <2> QED BY <2>1 DEF Commit, TypeOK
<1>2. \A r \in Stages : status[r] # "PENDING" => s \notin Ancestors[r]
  BY DEF Grounded
<1>3. Grounded'
  <2> SUFFICES ASSUME NEW r \in Stages
               PROVE  /\ status'[r] = "PENDING" => \E a \in Ancestors[r] : status'[a] # "PASS"
                      /\ \A a \in Ancestors[r] : status'[r] # "PENDING" => status'[a] = "PASS"
    BY DEF Grounded
  <2>1. status'[r] = "PENDING" => \E a \in Ancestors[r] : status'[a] # "PASS"
    <3>1. status'[r] = "PENDING" => \E d \in Deps[r] : d \in Stages /\ d # s /\ status[d] # "PASS"
      BY <1>1, Graph
    <3> QED BY <1>1, <3>1, Graph
  <2>2. ASSUME NEW a \in Ancestors[r], status'[r] # "PENDING"
        PROVE  status'[a] = "PASS"
    <3>1. a \in Stages /\ a # r
      BY Graph
    <3>2. CASE status[r] # "PENDING"
      BY <1>1, <3>1, <3>2 DEF Grounded
    <3>3. CASE status[r] = "PENDING"
      <4>1. \A d \in Deps[r] : d \in Stages /\ (d = s \/ status[d] = "PASS")
        BY <1>1, <2>2, <3>3, Graph
      <4>2. a = s \/ status[a] = "PASS"
        <5>1. CASE a \in Deps[r]
          BY <4>1, <5>1
        <5>2. ASSUME NEW d \in Deps[r], a \in Ancestors[d]
              PROVE  status[a] = "PASS"
          BY <4>1, <5>2 DEF Grounded
        <5> QED BY <5>1, <5>2, Graph
      <4> QED BY <1>1, <3>1, <4>2
    <3> QED BY <3>2, <3>3
  <2> QED BY <2>1, <2>2
<1>4. \A r \in Stages : status[r] # "PENDING" => View(r)' = View(r)
  <2> SUFFICES ASSUME NEW r \in Stages, status[r] # "PENDING"
               PROVE  View(r)' = View(r)
    OBVIOUS
  <2>1. \A d \in Ancestors[r] : product'[d] = product[d]
    BY <1>1, <1>2, Graph DEF TypeOK
  <2> QED BY <2>1 DEF View
<1> QED BY <1>1, <1>2, <1>3, <1>4 DEF TypeOK, States, Accepted

\* Whatever does not concern remembered studies.
LEMMA AcceptsKeep ==
  ASSUME IInv, NEW s \in Stages, status[s] \in {"READY", "RUNNING"},
         s = Environment => status[s] = "RUNNING",
         NEW made, Commit(s, made), IsProduct(s, made),
         \A d \in Ancestors[s] : Agrees(s, d, made.view[d], product[d].content),
         at = "loop", at' \in {"loop", "remember"},
         UNCHANGED <<job, inspection, bounds>>,
         studies' \in Nat, rejected' \subseteq 1 .. studies',
         findings' = None \/ (findings' = findings /\ ~Judging(s))
  PROVE  /\ Accepted(s, made)
         /\ TypeOK' /\ Grounded' /\ JobsCurrent' /\ FindingsCurrent' /\ Counted' /\ InspectedSoFar'
         /\ RestsOnCurrent'
<1>1. Accepted(s, made) /\ Grounded'
  BY Commits DEF IInv
<1>2. \A r \in Stages : /\ status'[r] = "PASS" <=> product'[r] # None
                        /\ product'[r] # None => IsProduct(r, product'[r])
  BY <1>1 DEF IInv, TypeOK, IsProduct, Accepted
<1>3. RestsOnCurrent'
  <2> SUFFICES ASSUME NEW r \in Stages, status'[r] = "PASS", NEW d \in Ancestors[r]
               PROVE  status'[d] = "PASS" /\ Agrees(r, d, product'[r].view[d], product'[d].content)
    BY DEF RestsOnCurrent
  <2>1. status'[d] = "PASS" /\ d \in Stages /\ d # r
    BY <1>1, Graph DEF Grounded
  <2>2. CASE r = s
    BY <1>1, <2>1, <2>2 DEF Accepted
  <2>3. CASE r # s
    BY <1>1, <2>1, <2>3 DEF IInv, RestsOnCurrent, Accepted
  <2> QED BY <2>1, <2>2, <2>3
<1>4. Counted' /\ InspectedSoFar'
  BY <1>1, EnvironmentReady, Constant
  DEF IInv, Counted, InspectedSoFar, Inspected, TypeOK, Accepted, inspection, bounds
<1>5. TypeOK'
  BY <1>1, <1>2, <1>4, AnalysisAssumption
  DEF IInv, TypeOK, States, Counted, Accepted, inspection, bounds
<1>6. JobsCurrent'
  BY <1>1 DEF IInv, JobsCurrent, Accepted
<1>7. FindingsCurrent'
  BY <1>1, Constant DEF IInv, FindingsCurrent, TypeOK, Judging, Accepted
<1> QED BY <1>1, <1>3, <1>4, <1>5, <1>6, <1>7

\* Nothing but the study's own steps concerns them: what is accepted before it finds it
\* pending, what is accepted after it leaves its premises.
LEMMA AcceptsReplaced ==
  ASSUME IInv, NEW s \in Stages \ {Study}, NEW made, status[s] \in {"READY", "RUNNING"}, Accepted(s, made),
         at = "loop", UNCHANGED <<history, at, bounds>>
  PROVE  RejectedReplaced' /\ StudyAccepted' /\ ReceiptsAgree'
<1>1. StudyAccepted' /\ ReceiptsAgree'
  BY Constant DEF IInv, StudyAccepted, ReceiptsAgree, Last, Accepted, history
<1>2. CASE s \in {Evidence, Environment, Knowledge}
  <2>1. status[Study] = "PENDING" /\ status'[Study] \in {"PENDING", "READY"}
    BY <1>2, AncestorsAre, Constant DEF IInv, TypeOK, Grounded, Accepted
  <2> QED BY <1>1, <2>1 DEF IInv, RejectedReplaced, Replacing, Last, history, bounds
<1>3. CASE s \notin {Evidence, Environment, Knowledge}
  <2>1. StudyIdentity' = StudyIdentity /\ product'[Study] = product[Study] /\ root'[Study] = root[Study]
    BY <1>3, Constant DEF StudyIdentity, Accepted
  <2>2. status[Study] = "PASS" /\ status'[Study] = "PASS"
    <3>1. Study \in Ancestors[s]
      BY <1>3, AncestorsAre, StagesAre DEF Named, Six
    <3> QED BY <3>1, Constant DEF IInv, Grounded, Accepted
  <2> QED BY <1>1, <2>1, <2>2 DEF IInv, RejectedReplaced, Replacing, Last, history, bounds
<1> QED BY <1>2, <1>3

\* A product made from what is accepted now.
LEMMA MadeKeeps ==
  ASSUME IInv, NEW s \in Stages \ {Study}, status[s] \in {"READY", "RUNNING"},
         s = Environment => status[s] = "RUNNING",
         NEW content \in Outcomes(s), Commit(s, [content |-> content, view |-> View(s)]),
         at = "loop", ~Judging(s), UNCHANGED <<job, findings, inspection, history, at, bounds>>
  PROVE  IInv'
<1> DEFINE made == [content |-> content, view |-> View(s)]
<1>1. /\ IsProduct(s, made)
      /\ \A d \in Ancestors[s] : Agrees(s, d, made.view[d], product[d].content)
  BY Typed, AgreesNow DEF IInv
<1>2. studies' \in Nat /\ rejected' \subseteq 1 .. studies'
  BY DEF IInv, TypeOK, history
<1> HIDE DEF made
<1>3. Commit(s, made)
  BY DEF made
<1>4. /\ Accepted(s, made)
      /\ TypeOK' /\ Grounded' /\ JobsCurrent' /\ FindingsCurrent' /\ Counted' /\ InspectedSoFar'
      /\ RestsOnCurrent'
  BY <1>1, <1>2, <1>3, AcceptsKeep
<1>5. RejectedReplaced' /\ StudyAccepted' /\ ReceiptsAgree'
  BY <1>4, AcceptsReplaced
<1> QED BY <1>4, <1>5 DEF IInv

\* A finding its worker lets pass: it is about what is accepted now as well.
LEMMA JudgedKeeps ==
  ASSUME IInv, NEW s \in Stages \ {Study}, status[s] \in {"READY", "RUNNING"},
         findings # None, findings.stage = s, findings' = None, Commit(s, findings.made),
         at = "loop", UNCHANGED <<job, inspection, history, at, bounds>>
  PROVE  IInv'
<1> DEFINE made == findings.made
<1>1. /\ IsProduct(s, made) /\ status[s] = "RUNNING"
      /\ \A d \in Ancestors[s] : Agrees(s, d, made.view[d], product[d].content)
  BY AgreesNow DEF IInv, TypeOK, FindingsCurrent
<1>2. studies' \in Nat /\ rejected' \subseteq 1 .. studies'
  BY DEF IInv, TypeOK, history
<1> HIDE DEF made
<1>3. Commit(s, made)
  BY DEF made
<1>4. /\ Accepted(s, made)
      /\ TypeOK' /\ Grounded' /\ JobsCurrent' /\ FindingsCurrent' /\ Counted' /\ InspectedSoFar'
      /\ RestsOnCurrent'
  BY <1>1, <1>2, <1>3, AcceptsKeep
<1>5. RejectedReplaced' /\ StudyAccepted' /\ ReceiptsAgree'
  BY <1>4, AcceptsReplaced
<1> QED BY <1>4, <1>5 DEF IInv

\* The knowledge base is built.
LEMMA BuildKnowledgeKeeps ==
  ASSUME IInv, BuildKnowledge
  PROVE  IInv'
<1>1. /\ status[Knowledge] \in {"READY", "RUNNING"} /\ Knowledge \in Stages
      /\ at = "loop" /\ ~Judging(Knowledge)
      /\ UNCHANGED <<job, findings, inspection, history, at, bounds>>
  BY FindingsOf, Constant DEF IInv, BuildKnowledge, Current
<1>2. Commit(Knowledge, [content |-> Knowledge, view |-> View(Knowledge)]) /\ Knowledge \in Outcomes(Knowledge)
  BY <1>1, OutcomesAre, Passing, Constant DEF IInv, BuildKnowledge, Current
<1> QED BY <1>1, <1>2, MadeKeeps

\* Evidence, contracts or a review are accepted from a worker.
LEMMA AcceptKeeps ==
  ASSUME IInv, NEW s \in Stages, Accept(s)
  PROVE  IInv'
<1>1. /\ status[s] \in {"READY", "RUNNING"} /\ s \in Stages \ {Study}
      /\ at = "loop" /\ ~Judging(s) /\ (s = Environment => status[s] = "RUNNING")
      /\ UNCHANGED <<job, findings, inspection, history, at, bounds>>
  BY FindingsOf, Constant DEF IInv, Accept, Answered, AtGate, Current
<1>2. Commit(s, [content |-> Chosen(s), view |-> View(s)]) /\ Chosen(s) \in Outcomes(s)
  BY <1>1, OutcomesAre, Passing, Constant
  DEF IInv, Accept, Answered, AtGate, Current, Made, Chosen, JobsCurrent
<1> QED BY <1>1, <1>2, MadeKeeps

\* The smoke of the environment passes, or what it showed becomes a finding.
LEMMA RunHarnessKeeps ==
  ASSUME IInv, NEW ready \in BOOLEAN, RunHarness(ready)
  PROVE  IInv'
<1> DEFINE mode == [mode |-> Chosen(Environment), ready |-> ready]
<1>1. CASE ready
  <2>1. /\ status[Environment] \in {"READY", "RUNNING"} /\ Environment \in Stages
        /\ at = "loop" /\ ~Judging(Environment) /\ status[Environment] = "RUNNING"
        /\ UNCHANGED <<job, findings, inspection, history, at, bounds>>
    BY <1>1, FindingsOf, Constant DEF IInv, RunHarness, Answered, AtGate, Current, Uninspected
  <2>2. Commit(Environment, [content |-> mode, view |-> View(Environment)]) /\ mode \in Outcomes(Environment)
    BY <1>1, <2>1, OutcomesAre, Passing, Constant
    DEF IInv, RunHarness, Answered, AtGate, Current, Uninspected, Made, Chosen, JobsCurrent,
        Modes
  <2> QED BY <2>1, <2>2, MadeKeeps
<1>2. CASE ~ready
  <2>1. findings' = [stage |-> Environment, made |-> [content |-> mode, view |-> View(Environment)]]
        /\ mode \in Outcomes(Environment) /\ status[Environment] # "PENDING"
    BY <1>2, OutcomesAre, Passing, Constant
    DEF IInv, RunHarness, Answered, AtGate, Current, Uninspected, inspection, history,
        bounds, Made, Chosen, JobsCurrent, Modes
  <2>2. IsProduct(Environment, [content |-> mode, view |-> View(Environment)])
    BY <2>1, Typed, Constant DEF IInv
  <2>3. findings'.stage = Environment /\ IsProduct(Environment, findings'.made) /\ findings'.made.view = View(Environment)
    BY <2>1, <2>2
  <2>4. Stays /\ status' = status
    BY <1>2, <2>3, Constant
    DEF IInv, Stays, RunHarness, Answered, AtGate, Current, Uninspected, inspection,
        history, bounds
  <2>5. /\ Grounded' /\ RestsOnCurrent' /\ DOMAIN product' = Stages
        /\ \A r \in Stages : View(r)' = View(r)
        /\ \A r \in Stages : /\ status'[r] = "PASS" <=> product'[r] # None
                             /\ product'[r] # None => IsProduct(r, product'[r])
    BY <2>4, StaysGrounded
  <2>6. Counted' /\ InspectedSoFar'
    BY <1>2, <2>3, <2>4, Constant
    DEF IInv, Counted, InspectedSoFar, Inspected, TypeOK, RunHarness, Answered, AtGate,
        Current, Uninspected, inspection, history, bounds
  <2>7. TypeOK'
    BY <1>2, <2>3, <2>4, <2>5, <2>6, ViewTyped, AnalysisAssumption
    DEF IInv, Counted, TypeOK, States, Stays, RunHarness, Answered, AtGate, Current,
        Uninspected, inspection, history, bounds
  <2>8. JobsCurrent' /\ FindingsCurrent'
    BY <1>2, <2>3, <2>4, <2>5, Constant
    DEF IInv, JobsCurrent, FindingsCurrent, TypeOK, Judging, RunHarness, Answered, AtGate,
        Current, Uninspected, inspection, history, bounds
  <2>9. RejectedReplaced' /\ StudyAccepted' /\ ReceiptsAgree'
    BY <1>2, <2>3, <2>4, StaysReplaced, Constant
    DEF IInv, TypeOK, Stays, RunHarness, Answered, AtGate, Current, Uninspected, inspection,
        history, bounds
  <2> QED BY <2>5, <2>6, <2>7, <2>8, <2>9 DEF IInv
<1> QED BY <1>1, <1>2

\* The handoff of an environment whose smoke passed, or another finding.
LEMMA CreateHandoffKeeps ==
  ASSUME IInv, CreateHandoff
  PROVE  IInv'
<1>1. CASE product[Environment].content.ready
  <2>1. /\ status[Handoff] \in {"READY", "RUNNING"} /\ Handoff \in Stages
        /\ at = "loop" /\ ~Judging(Handoff)
        /\ UNCHANGED <<job, findings, inspection, history, at, bounds>>
    BY <1>1, FindingsOf, Constant DEF IInv, CreateHandoff, Current
  <2>2. Commit(Handoff, [content |-> Handoff, view |-> View(Handoff)]) /\ Handoff \in Outcomes(Handoff)
    BY <1>1, <2>1, OutcomesAre, Passing, Constant DEF IInv, CreateHandoff, Current
  <2> QED BY <2>1, <2>2, MadeKeeps
<1>2. CASE ~product[Environment].content.ready
  <2>1. findings' = [stage |-> Handoff, made |-> [content |-> Handoff, view |-> View(Handoff)]]
        /\ Handoff \in Outcomes(Handoff) /\ status[Handoff] # "PENDING"
    BY <1>2, OutcomesAre, Passing, Constant
    DEF IInv, CreateHandoff, Current, Start, inspection, history, bounds
  <2>2. IsProduct(Handoff, [content |-> Handoff, view |-> View(Handoff)])
    BY <2>1, Typed, Constant DEF IInv
  <2>3. findings'.stage = Handoff /\ IsProduct(Handoff, findings'.made) /\ findings'.made.view = View(Handoff)
    BY <2>1, <2>2
  <2>4. /\ Stays /\ status'[Handoff] = "RUNNING" /\ status[Handoff] \in {"READY", "RUNNING", "BLOCKED"}
        /\ \A r \in Stages \ {Handoff} : status'[r] = status[r]
    BY <1>2, <2>3, Moves, Constant
    DEF IInv, CreateHandoff, Current, Start, inspection, history, bounds
  <2>5. /\ Grounded' /\ RestsOnCurrent' /\ DOMAIN product' = Stages
        /\ \A r \in Stages : View(r)' = View(r)
        /\ \A r \in Stages : /\ status'[r] = "PASS" <=> product'[r] # None
                             /\ product'[r] # None => IsProduct(r, product'[r])
    BY <2>4, StaysGrounded
  <2>6. Counted' /\ InspectedSoFar'
    BY <1>2, <2>3, <2>4, Constant
    DEF IInv, Counted, InspectedSoFar, Inspected, TypeOK, CreateHandoff, Current, Start,
        inspection, history, bounds
  <2>7. TypeOK'
    BY <1>2, <2>3, <2>4, <2>5, <2>6, ViewTyped, AnalysisAssumption
    DEF IInv, Counted, TypeOK, States, Stays, CreateHandoff, Current, Start, inspection,
        history, bounds
  <2>8. JobsCurrent' /\ FindingsCurrent'
    BY <1>2, <2>3, <2>4, <2>5, Constant
    DEF IInv, JobsCurrent, FindingsCurrent, TypeOK, Judging, CreateHandoff, Current, Start,
        inspection, history, bounds
  <2>9. RejectedReplaced' /\ StudyAccepted' /\ ReceiptsAgree'
    BY <1>2, <2>3, <2>4, StaysReplaced, Constant
    DEF IInv, TypeOK, Stays, CreateHandoff, Current, Start, inspection, history, bounds
  <2> QED BY <2>5, <2>6, <2>7, <2>8, <2>9 DEF IInv
<1> QED BY <1>1, <1>2

\* What the worker of the environment makes of a finding.
LEMMA JudgeEnvironmentKeeps ==
  ASSUME IInv, JudgeEnvironment
  PROVE  IInv'
<1>1. CASE Commit(Environment, findings.made) /\ UNCHANGED job
  <2>1. /\ status[Environment] \in {"READY", "RUNNING"} /\ Environment \in Stages
        /\ at = "loop" /\ findings # None /\ findings.stage = Environment /\ findings' = None
        /\ UNCHANGED <<job, inspection, history, at, bounds>>
    BY <1>1, Constant DEF JudgeEnvironment, Judging, Current
  <2> QED BY <1>1, <2>1, JudgedKeeps
<1>2. ASSUME NEW a \in Answers(Environment),
             job' = [job EXCEPT ![Environment] = [answer |-> a, view |-> View(Environment)]],
             UNCHANGED <<status, product, root>>
      PROVE  IInv'
  <2>1. Stays /\ status' = status
    BY <1>2, Constant
    DEF IInv, Stays, JudgeEnvironment, Judging, Current, inspection, history, bounds
  <2>2. /\ Grounded' /\ RestsOnCurrent' /\ DOMAIN product' = Stages
        /\ \A r \in Stages : View(r)' = View(r)
        /\ \A r \in Stages : /\ status'[r] = "PASS" <=> product'[r] # None
                             /\ product'[r] # None => IsProduct(r, product'[r])
    BY <2>1, StaysGrounded
  <2>3. Counted' /\ InspectedSoFar'
    BY <1>2, <2>1, Constant
    DEF IInv, Counted, InspectedSoFar, Inspected, TypeOK, JudgeEnvironment, Judging,
        Current, inspection, history, bounds
  <2>4. TypeOK'
    BY <1>2, <2>1, <2>2, <2>3, ViewTyped, AnalysisAssumption
    DEF IInv, Counted, TypeOK, States, Stays, JudgeEnvironment, Judging, Current,
        inspection, history, bounds
  <2>5. JobsCurrent' /\ FindingsCurrent'
    BY <1>2, <2>1, <2>2, Constant
    DEF IInv, JobsCurrent, FindingsCurrent, TypeOK, Judging, JudgeEnvironment, Judging,
        Current, inspection, history, bounds
  <2>6. RejectedReplaced' /\ StudyAccepted' /\ ReceiptsAgree'
    BY <1>2, <2>1, StaysReplaced, Constant
    DEF IInv, TypeOK, Stays, JudgeEnvironment, Judging, Current, inspection, history, bounds
  <2> QED BY <2>2, <2>3, <2>4, <2>5, <2>6 DEF IInv
<1> QED BY <1>1, <1>2 DEF JudgeEnvironment

\* What the worker of the handoff makes of one.
LEMMA JudgeHandoffKeeps ==
  ASSUME IInv, JudgeHandoff
  PROVE  IInv'
<1>1. CASE Commit(Handoff, findings.made)
  <2>1. /\ status[Handoff] \in {"READY", "RUNNING"} /\ Handoff \in Stages
        /\ at = "loop" /\ findings # None /\ findings.stage = Handoff /\ findings' = None
        /\ UNCHANGED <<job, inspection, history, at, bounds>>
    BY <1>1, Constant DEF JudgeHandoff, Judging, Current
  <2> QED BY <1>1, <2>1, JudgedKeeps
<1>2. CASE Block(Handoff) /\ UNCHANGED product
  <2>1. /\ Stays /\ status'[Handoff] = "BLOCKED" /\ status[Handoff] \in {"READY", "RUNNING", "BLOCKED"}
        /\ \A r \in Stages \ {Handoff} : status'[r] = status[r]
    BY <1>2, Moves, Constant
    DEF IInv, JudgeHandoff, Judging, Current, Block, inspection, history, bounds
  <2>2. /\ Grounded' /\ RestsOnCurrent' /\ DOMAIN product' = Stages
        /\ \A r \in Stages : View(r)' = View(r)
        /\ \A r \in Stages : /\ status'[r] = "PASS" <=> product'[r] # None
                             /\ product'[r] # None => IsProduct(r, product'[r])
    BY <2>1, StaysGrounded
  <2>3. Counted' /\ InspectedSoFar'
    BY <1>2, <2>1, Constant
    DEF IInv, Counted, InspectedSoFar, Inspected, TypeOK, JudgeHandoff, Judging, Current,
        Block, inspection, history, bounds
  <2>4. TypeOK'
    BY <1>2, <2>1, <2>2, <2>3, ViewTyped, AnalysisAssumption
    DEF IInv, Counted, TypeOK, States, Stays, JudgeHandoff, Judging, Current, Block,
        inspection, history, bounds
  <2>5. JobsCurrent' /\ FindingsCurrent'
    BY <1>2, <2>1, <2>2, Constant
    DEF IInv, JobsCurrent, FindingsCurrent, TypeOK, Judging, JudgeHandoff, Judging, Current,
        Block, inspection, history, bounds
  <2>6. RejectedReplaced' /\ StudyAccepted' /\ ReceiptsAgree'
    BY <1>2, <2>1, StaysReplaced, Constant
    DEF IInv, TypeOK, Stays, JudgeHandoff, Judging, Current, Block, inspection, history,
        bounds
  <2> QED BY <2>2, <2>3, <2>4, <2>5, <2>6 DEF IInv
<1> QED BY <1>1, <1>2 DEF JudgeHandoff

-----------------------------------------------------------------------------
(* The studies.                                                            *)

\* A study is accepted from a turn: it is a new one.
LEMMA AcceptStudyKeeps ==
  ASSUME IInv, AcceptStudy
  PROVE  IInv'
<1> DEFINE content == [report |-> Chosen(Study), number |-> studies + 1]
           made == Made(Study, content)
<1>1. /\ status[Study] \in {"READY", "RUNNING"} /\ at = "loop" /\ Study \in Stages /\ ~Judging(Study)
      /\ Commit(Study, made)
      /\ UNCHANGED <<job, findings, inspection, receipts, repairs, rejected, bounds>>
      /\ studies' = studies + 1 /\ at' = "remember"
  BY FindingsOf, Constant DEF IInv, AcceptStudy, Answered, AtGate, Current
<1>2. studies \in Nat /\ rejected \subseteq 1 .. studies /\ Chosen(Study) \in Reports
  BY Passing, OutcomesAre, Constant DEF IInv, TypeOK, Chosen, AcceptStudy
<1>3. content \in Studies
  BY <1>2 DEF Studies
<1>4. made = [content |-> content, view |-> View(Study)] /\ content \in Outcomes(Study)
  BY <1>1, <1>3, OutcomesAre DEF IInv, AcceptStudy, Answered, Made, JobsCurrent
<1>5. /\ IsProduct(Study, made)
      /\ \A d \in Ancestors[Study] : Agrees(Study, d, made.view[d], product[d].content)
  BY <1>1, <1>4, Typed, AgreesNow DEF IInv
<1>6. made.content.number = studies + 1
  BY <1>4
<1> HIDE DEF made
<1>7. studies' \in Nat /\ rejected' \subseteq 1 .. studies'
  BY <1>1, <1>2
<1>8. /\ Accepted(Study, made)
      /\ TypeOK' /\ Grounded' /\ JobsCurrent' /\ FindingsCurrent' /\ Counted' /\ InspectedSoFar'
      /\ RestsOnCurrent'
  BY <1>1, <1>5, <1>7, AcceptsKeep
<1>9. status'[Study] = "PASS" /\ product'[Study].content.number = studies'
  BY <1>1, <1>6, <1>8 DEF Accepted
<1>10. /\ receipts' = receipts /\ rejected' = rejected /\ accidents' = accidents
       /\ studies' = studies + 1 /\ 1 .. studies \subseteq 1 .. studies'
  BY <1>1, <1>2 DEF bounds
<1>11. StudyAccepted'
  BY <1>2, <1>9, <1>10 DEF StudyAccepted
<1>12. ReceiptsAgree'
  BY <1>10 DEF IInv, ReceiptsAgree, Last
<1>13. RejectedReplaced'
  <2>1. StudyIdentity' = StudyIdentity
    BY <1>8, Constant DEF StudyIdentity, Accepted
  <2>2. \A i \in DOMAIN receipts : receipts[i].study.content.number \in 1 .. studies
    BY DEF IInv, ReceiptsAgree
  <2> QED BY <1>1, <1>2, <1>9, <1>10, <2>1, <2>2 DEF IInv, RejectedReplaced, Replacing, Last
<1> QED BY <1>8, <1>11, <1>12, <1>13 DEF IInv

\* A study comes back: it is the last of its premises, and it was not rejected, as a
\* study that replaces another is not restored.
LEMMA RestoreKeeps ==
  ASSUME IInv, Restore
  PROVE  IInv'
<1> DEFINE study == receipts[Newest].study
<1>1. /\ status[Study] \in {"READY", "RUNNING"} /\ at = "loop" /\ Study \in Stages /\ ~Judging(Study)
      /\ root[Study] = Evidence /\ Remembered # {}
      /\ Commit(Study, study) /\ UNCHANGED <<job, findings, inspection, history, at, bounds>>
  BY FindingsOf, Constant DEF IInv, Restore, Restorable, Current
<1>2. /\ Newest \in DOMAIN receipts /\ Last(Newest) /\ receipts[Newest].identity = StudyIdentity
  BY <1>1, NewestIs DEF IInv, Remembered
<1>3. /\ IsProduct(Study, study) /\ study.content.number \in 1 .. studies
      /\ study.view[Evidence].rest = product[Evidence].content.rest
      /\ study.view[Environment].mode = product[Environment].content.mode
      /\ study.view[Knowledge] = Knowledge
  <2>1. \A i \in DOMAIN receipts :
          /\ IsProduct(Study, receipts[i].study) /\ receipts[i].study.content.number \in 1 .. studies
          /\ receipts[i].study.view[Evidence].rest = receipts[i].identity.evidence
          /\ receipts[i].study.view[Environment].mode = receipts[i].identity.environment
          /\ receipts[i].study.view[Knowledge] = Knowledge
    BY DEF IInv, ReceiptsAgree
  <2> QED BY <1>2, <2>1 DEF StudyIdentity
<1> HIDE DEF study
<1>4. \A d \in Ancestors[Study] : Agrees(Study, d, study.view[d], product[d].content)
  <2>1. product[Knowledge].content = Knowledge
    <3>1. product[Knowledge].content \in Outcomes(Knowledge)
      BY <1>1, AncestorsAre, Constant DEF IInv, TypeOK, Grounded, IsProduct
    <3> QED BY <3>1, OutcomesAre, Constant
  <2> QED BY <1>3, <2>1, AncestorsAre DEF Agrees
<1>5. studies' \in Nat /\ rejected' \subseteq 1 .. studies'
  BY <1>1 DEF IInv, TypeOK, history
<1>6. /\ Accepted(Study, study)
      /\ TypeOK' /\ Grounded' /\ JobsCurrent' /\ FindingsCurrent' /\ Counted' /\ InspectedSoFar'
      /\ RestsOnCurrent'
  BY <1>1, <1>3, <1>4, <1>5, AcceptsKeep
<1>7. ReceiptsAgree' /\ StudyAccepted'
  BY <1>1, <1>3, <1>6 DEF IInv, ReceiptsAgree, StudyAccepted, Last, Accepted, history
<1>8. RejectedReplaced'
  <2>1. StudyIdentity' = StudyIdentity
    BY <1>6, Constant DEF StudyIdentity, Accepted
  <2>2. /\ receipts' = receipts /\ rejected' = rejected /\ accidents' = accidents /\ studies' = studies
        /\ at' = "loop"
    BY <1>1 DEF history, bounds
  <2>3. \A i \in DOMAIN receipts : ~Replacing(i)
    BY <1>1, Constant DEF Replacing
  <2>4. status'[Study] = "PASS" /\ product'[Study].content.number = receipts[Newest].study.content.number
    BY <1>6 DEF study, Accepted
  <2> QED BY <1>2, <2>1, <2>2, <2>3, <2>4 DEF RejectedReplaced, Last, IInv
<1> QED BY <1>6, <1>7, <1>8 DEF IInv

\* It is remembered: now it is the last of its premises.
LEMMA RememberKeeps ==
  ASSUME IInv, Remember
  PROVE  IInv'
<1> DEFINE new == [identity |-> StudyIdentity, study |-> product[Study]]
<1>1. /\ at = "remember" /\ at' = "loop" /\ receipts' = Append(receipts, new)
      /\ UNCHANGED <<status, work, inspection, root, repairs, studies, rejected, bounds>>
  BY DEF Remember
<1>2. Stays
  BY <1>1, Constant DEF IInv, Stays, work
<1>3. /\ Grounded' /\ RestsOnCurrent'
      /\ \A r \in Stages : View(r)' = View(r)
      /\ StudyIdentity' = StudyIdentity
  BY <1>2, StaysGrounded DEF StudyIdentity, Stays
<1>4. TypeOK' /\ JobsCurrent' /\ FindingsCurrent' /\ Counted' /\ InspectedSoFar' /\ StudyAccepted'
  <2>1. TypeOK'
    BY <1>1 DEF IInv, TypeOK, work, inspection, bounds
  <2>2. JobsCurrent' /\ FindingsCurrent'
    BY <1>1, <1>3, Constant DEF IInv, JobsCurrent, FindingsCurrent, TypeOK, work
  <2>3. Counted' /\ InspectedSoFar' /\ StudyAccepted'
    BY <1>1 DEF IInv, Counted, InspectedSoFar, StudyAccepted, Inspected, work, inspection, bounds
  <2> QED BY <2>1, <2>2, <2>3
<1>5. /\ receipts \in Seq({receipts[i] : i \in DOMAIN receipts})
      /\ Len(receipts) \in Nat /\ DOMAIN receipts = 1 .. Len(receipts)
  BY DEF IInv, ReceiptsAgree
<1> HIDE DEF new
<1>13. PICK n \in Nat : n = Len(receipts) + 1
  BY <1>5
<1>6. /\ DOMAIN receipts' = 1 .. n
      /\ receipts'[n] = new /\ \A i \in DOMAIN receipts : receipts'[i] = receipts[i]
  BY <1>1, <1>5, <1>13
<1>7. receipts' \in Seq({receipts'[i] : i \in DOMAIN receipts'})
  <2> DEFINE All == {receipts'[i] : i \in DOMAIN receipts'}
  <2>1. new \in All /\ \A i \in DOMAIN receipts : receipts[i] \in All
    BY <1>5, <1>6, <1>13
  <2> HIDE DEF All
  <2>2. receipts \in Seq(All)
    BY <1>5, <2>1
  <2>3. Append(receipts, new) \in Seq(All)
    BY <2>1, <2>2
  <2> QED BY <1>1, <2>3 DEF All
<1>8. /\ new.identity = StudyIdentity /\ new.study = product[Study]
  BY DEF new
<1>9. Last(n)' /\ n \in DOMAIN receipts'
  BY <1>5, <1>6, <1>13 DEF Last
<1>10. \A i \in DOMAIN receipts : Last(i)' <=> Last(i) /\ receipts[i].identity # StudyIdentity
  BY <1>5, <1>6, <1>8, <1>13 DEF Last
<1>11. ReceiptsAgree'
  <2>1. status[Study] = "PASS" /\ product[Study].content.number \in 1 .. studies /\ IsProduct(Study, product[Study])
    BY <1>1, Constant DEF IInv, StudyAccepted, TypeOK
  <2>2. /\ product[Study].view[Evidence].rest = product[Evidence].content.rest
        /\ product[Study].view[Environment].mode = product[Environment].content.mode
        /\ product[Study].view[Knowledge] = product[Knowledge].content
        /\ status[Knowledge] = "PASS"
    BY <2>1, AncestorsAre, Constant DEF IInv, RestsOnCurrent, Agrees
  <2>3. product[Knowledge].content = Knowledge
    BY <2>2, OutcomesAre, Constant DEF IInv, TypeOK, IsProduct
  <2>4. ASSUME NEW i \in DOMAIN receipts'
        PROVE  /\ IsProduct(Study, receipts'[i].study) /\ receipts'[i].study.content.number \in 1 .. studies
               /\ receipts'[i].study.view[Evidence].rest = receipts'[i].identity.evidence
               /\ receipts'[i].study.view[Environment].mode = receipts'[i].identity.environment
               /\ receipts'[i].study.view[Knowledge] = Knowledge
    <3>1. CASE i \in DOMAIN receipts
      BY <3>1, <1>6 DEF IInv, ReceiptsAgree
    <3>2. CASE i = n
      BY <3>2, <1>6, <1>8, <2>1, <2>2, <2>3 DEF StudyIdentity
    <3> QED BY <1>5, <1>6, <1>13, <3>1, <3>2
  <2>5. ASSUME NEW i \in DOMAIN receipts'
        PROVE  \E k \in DOMAIN receipts' : receipts'[k].identity = receipts'[i].identity /\ Last(k)'
    <3>1. CASE receipts'[i].identity = StudyIdentity
      BY <3>1, <1>6, <1>8, <1>9
    <3>2. CASE receipts'[i].identity # StudyIdentity
      <4>1. i \in DOMAIN receipts
        BY <3>2, <1>5, <1>6, <1>8, <1>13
      <4>2. PICK k \in DOMAIN receipts : receipts[k].identity = receipts[i].identity /\ Last(k)
        BY <4>1 DEF IInv, ReceiptsAgree
      <4> QED BY <3>2, <4>1, <4>2, <1>5, <1>6, <1>10, <1>13
    <3> QED BY <3>1, <3>2
  <2>6. studies' = studies
    BY <1>1
  <2> QED BY <1>7, <2>4, <2>5, <2>6 DEF ReceiptsAgree
<1>12. RejectedReplaced'
  <2>1. /\ status' = status /\ product' = product /\ accidents' = accidents /\ rejected' = rejected /\ studies' = studies
        /\ at' = "loop" /\ at = "remember"
    BY <1>1 DEF work, bounds
  <2>2. status[Study] = "PASS" /\ product[Study].content.number = studies
    BY <1>1 DEF IInv, StudyAccepted
  <2> SUFFICES ASSUME {"handed_on", "unremembered"} \cap accidents = {}
               PROVE  RejectedReplaced'
    BY <2>1 DEF RejectedReplaced
  <2>3. product[Study].content.number \notin rejected
    BY <2>2 DEF IInv, RejectedReplaced
  <2>4. ASSUME NEW i \in DOMAIN receipts', Last(i)'
        PROVE  receipts'[i].study.content.number \notin rejected
    <3>1. CASE i \in DOMAIN receipts
      <4>1. Last(i) /\ ~Replacing(i)
        BY <3>1, <2>4, <1>10 DEF Replacing
      <4> QED BY <3>1, <4>1, <1>6 DEF IInv, RejectedReplaced
    <3>2. CASE i = n
      BY <3>2, <1>6, <1>8, <2>3
    <3> QED BY <1>5, <1>6, <1>13, <3>1, <3>2
  <2>5. ASSUME NEW i \in DOMAIN receipts', NEW k \in DOMAIN receipts',
               receipts'[i].study.content.number = receipts'[k].study.content.number
        PROVE  i = k
    <3>1. \A j \in DOMAIN receipts : receipts[j].study.content.number # studies
      BY <2>1 DEF IInv, RejectedReplaced
    <3>2. \A j, l \in DOMAIN receipts : receipts[j].study.content.number = receipts[l].study.content.number => j = l
      BY DEF IInv, RejectedReplaced
    <3>3. CASE i \in DOMAIN receipts /\ k \in DOMAIN receipts
      BY <2>5, <3>2, <3>3, <1>6
    <3>4. receipts'[n].study.content.number = studies
      <4>1. receipts'[n].study = product[Study]
        BY <1>6, <1>8
      <4> QED BY <2>2, <4>1
    <3>5. CASE i = n
      BY <2>5, <3>1, <3>4, <3>5, <1>5, <1>6, <1>13
    <3>6. CASE k = n
      BY <2>5, <3>1, <3>4, <3>6, <1>5, <1>6, <1>13
    <3> QED BY <3>3, <3>5, <3>6, <1>5, <1>6, <1>13
  <2> QED BY <1>3, <1>6, <1>8, <1>9, <2>1, <2>3, <2>4, <2>5 DEF RejectedReplaced
<1> QED BY <1>3, <1>4, <1>11, <1>12 DEF IInv

-----------------------------------------------------------------------------
(* Sending work back.                                                      *)

\* Who sends back what it was made from has it accepted, and has no findings waiting; it is
\* the study or made from the study.
LEMMA SentBack ==
  ASSUME IInv, NEW s \in Stages, SendBack(s)
  PROVE  LET t == job[s].answer.target IN
         /\ t \in Ancestors[s] /\ t \in Stages /\ status[t] = "PASS" /\ s \in Descendants(t)
         /\ t \notin {Knowledge, Handoff} /\ s \notin {Knowledge, Handoff}
         /\ status[s] \in {"READY", "RUNNING"} /\ at = "loop"
         /\ findings = None
         /\ s = Study \/ (Study \in Ancestors[s] /\ status[Study] = "PASS")
<1> DEFINE t == job[s].answer.target
<1>1. /\ t \notin Static /\ status[t] = "PASS" /\ t \in Earlier[s] /\ s \in Descendants(t)
      /\ s \notin Static /\ ~Judging(s) /\ Current(s)
  BY DEF SendBack, Answered, AtGate, Repairable
<1>2. t \in Stages /\ t # s
  BY <1>1, Graph
<1>3. t \in Ancestors[s]
  BY <1>1, <1>2 DEF Descendants
<1>4. s \in {Study, Contracts, Review}
  BY <1>1, <1>3, AncestorsAre, StagesAre DEF Static, Named, Six
<1>5. s = Study \/ (Study \in Ancestors[s] /\ status[Study] = "PASS")
  <2>1. s = Study \/ Study \in Ancestors[s]
    BY <1>4, AncestorsAre, StagesAre DEF Named, Six
  <2> QED BY <1>1, <2>1 DEF IInv, Grounded, Current
<1>6. findings = None
  <2> SUFFICES ASSUME findings # None
               PROVE  FALSE
    OBVIOUS
  <2>1. findings.stage \in {Environment, Handoff} /\ status[findings.stage] = "RUNNING"
    BY DEF IInv, TypeOK, FindingsCurrent
  <2>2. findings.stage \notin Earlier[s]
    BY <1>1, <2>1 DEF Current
  <2>3. CASE s = Study
    <3>1. findings.stage = Handoff /\ Study \in Ancestors[Handoff]
      BY <2>1, <2>2, <2>3, EarlierAre, AncestorsAre
    <3> QED BY <1>1, <2>1, <2>3, <3>1, Constant DEF IInv, Grounded, Current
  <2>4. CASE s # Study
    BY <1>4, <2>1, <2>2, <2>4, EarlierAre, StagesAre DEF Named, Six
  <2> QED BY <2>3, <2>4
<1> QED BY <1>1, <1>2, <1>3, <1>5, <1>6 DEF Static, Current

\* A repair of the study makes it follow the one it rejects; a repair of its premises, asked for
\* by a later stage, finds no study being replaced.
LEMMA SendBackKeeps ==
  ASSUME IInv, NEW s \in Stages, SendBack(s)
  PROVE  IInv'
<1>13. PICK t \in Stages : t = job[s].answer.target
  BY SentBack
<1>1. /\ t \in Ancestors[s] /\ status[t] = "PASS" /\ s \in Descendants(t)
      /\ t \notin {Knowledge, Handoff}
      /\ status[s] \in {"READY", "RUNNING"} /\ at = "loop" /\ findings = None
      /\ s = Study \/ (Study \in Ancestors[s] /\ status[Study] = "PASS")
  BY <1>13, SentBack
<1>2. /\ status' = [r \in Stages |-> CASE r = t -> "READY"
                                       [] r \in Descendants(t) \ {t} -> "PENDING"
                                       [] OTHER -> status[r]]
      /\ product' = [r \in Stages |-> IF r \in Descendants(t) THEN None ELSE product[r]]
      /\ job' = [r \in Stages |-> IF r \in Descendants(t) THEN None ELSE job[r]]
      /\ root' = [r \in Stages |-> IF r \in Descendants(t) THEN t ELSE root[r]]
      /\ inventory' = IF t = Environment THEN 0 ELSE inventory
      /\ candidates' = IF t = Environment THEN 0 ELSE candidates
      /\ rejected' = rejected \cup IF t = Study THEN {product[t].content.number} ELSE {}
      /\ accidents' = Afresh(t) \cup IF s = Study /\ rejected # {} THEN {"handed_on"} ELSE {}
      /\ UNCHANGED <<findings, hand, receipts, studies, at, acts>>
  BY <1>13 DEF SendBack, Dropped
<1>3. /\ status' \in [Stages -> States] /\ status'[t] = "READY"
      /\ \A r \in Descendants(t) \ {t} : status'[r] = "PENDING"
      /\ \A r \in Descendants(t) : product'[r] = None /\ job'[r] = None /\ root'[r] = t
      /\ \A r \in Stages \ Descendants(t) :
           status'[r] = status[r] /\ product'[r] = product[r] /\ job'[r] = job[r] /\ root'[r] = root[r]
  BY <1>2, Below, Constant DEF IInv, TypeOK, States
<1>4. Grounded'
  <2> SUFFICES ASSUME NEW r \in Stages
               PROVE  status'[r] = "PENDING" <=> \E a \in Ancestors[r] : status'[a] # "PASS"
    BY DEF Grounded
  <2>1. CASE r \in Descendants(t) \ {t}
    BY <1>3, <2>1, Below
  <2>2. CASE r = t
    BY <1>1, <1>3, <2>2, Below, Constant DEF IInv, Grounded
  <2>3. CASE r \notin Descendants(t)
    BY <1>3, <2>3, Below, Constant DEF IInv, Grounded
  <2> QED BY <2>1, <2>2, <2>3
<1>5. \A r \in Stages \ Descendants(t) : View(r)' = View(r)
  BY <1>3, Below, Constant DEF View
<1>6. Counted' /\ InspectedSoFar'
  <2>1. Environment \in Descendants(t) => t = Environment
    BY AncestorsAre DEF Descendants
  <2> QED BY <1>1, <1>2, <1>3, <2>1, Constant DEF IInv, TypeOK, Counted, InspectedSoFar, Inspected, Afresh
<1>7. t = Study => product[t].content.number \in 1 .. studies
  BY <1>1 DEF IInv, StudyAccepted
<1>8. TypeOK'
  <2>1. \A r \in Stages :
          /\ status'[r] = "PASS" <=> product'[r] # None
          /\ product'[r] # None => IsProduct(r, product'[r])
          /\ job'[r] # None => job'[r].answer \in Answers(r) /\ IsView(r, job'[r].view)
    BY <1>3, Below DEF IInv, TypeOK
  <2>2. rejected' \subseteq 1 .. studies'
    BY <1>2, <1>7 DEF IInv, TypeOK
  <2>3. root' \in [Stages -> Stages \cup {None}]
    BY <1>2 DEF IInv, TypeOK
  <2> QED BY <1>1, <1>2, <1>3, <1>6, <2>1, <2>2, <2>3, AnalysisAssumption
  DEF IInv, TypeOK, Counted, States
<1>9. JobsCurrent' /\ FindingsCurrent'
  BY <1>1, <1>2, <1>3, <1>5, Below DEF IInv, JobsCurrent, FindingsCurrent
<1>10. RestsOnCurrent'
  <2> SUFFICES ASSUME NEW r \in Stages, status'[r] = "PASS", NEW d \in Ancestors[r]
               PROVE  status'[d] = "PASS" /\ Agrees(r, d, product'[r].view[d], product'[d].content)
    BY DEF RestsOnCurrent
  <2>1. r \notin Descendants(t) /\ d \in Stages \ Descendants(t)
    BY <1>3, Below, Constant
  <2> QED BY <1>3, <2>1 DEF IInv, RestsOnCurrent
<1>11. ReceiptsAgree' /\ StudyAccepted'
  BY <1>1, <1>2, <1>3, Constant DEF IInv, ReceiptsAgree, StudyAccepted, Last
<1>12. RejectedReplaced'
  <2> SUFFICES ASSUME {"handed_on", "unremembered"} \cap accidents' = {}
               PROVE  RejectedReplaced'
    BY DEF RejectedReplaced
  <2>1. {"handed_on", "unremembered"} \cap accidents = {} /\ (s = Study => rejected = {})
    BY <1>2 DEF Afresh
  <2>2. /\ receipts' = receipts /\ at' = "loop" /\ studies' = studies
    BY <1>1, <1>2
  <2>3. status'[Study] = "PASS" => status[Study] = "PASS" /\ product'[Study] = product[Study]
    BY <1>3, Constant
  <2>4. \A i \in DOMAIN receipts : Last(i)' <=> Last(i)
    BY <2>2 DEF Last
  <2>5. CASE t = Study
    <3>1. StudyIdentity' = StudyIdentity
      <4>1. Evidence \notin Descendants(Study) /\ Environment \notin Descendants(Study)
        BY AncestorsAre DEF Descendants
      <4> QED BY <1>3, <2>5, <4>1, Constant DEF StudyIdentity
    <3>2. PICK i \in DOMAIN receipts :
            /\ Last(i) /\ receipts[i].identity = StudyIdentity
            /\ receipts[i].study.content.number = product[Study].content.number
      BY <1>1, <2>1, <2>5 DEF IInv, RejectedReplaced
    <3>3. \A k \in DOMAIN receipts : Last(k) => receipts[k].study.content.number \notin rejected
      BY <1>1, <2>1, <2>5 DEF IInv, RejectedReplaced, Replacing
    <3>4. \A k \in DOMAIN receipts : Last(k) /\ receipts[k].study.content.number \in rejected' => k = i
      BY <1>2, <2>1, <2>5, <3>2, <3>3 DEF IInv, RejectedReplaced
    <3>5. Replacing(i)'
      BY <1>3, <2>2, <2>5, <3>1, <3>2, Below DEF Replacing
    <3>6. status'[Study] = "READY"
      BY <1>3, <2>5
    <3> QED BY <2>1, <2>2, <2>4, <3>4, <3>5, <3>6 DEF IInv, RejectedReplaced
  <2>6. CASE t # Study
    <3>1. rejected' = rejected
      BY <1>2, <2>6
    <3>2. \A k \in DOMAIN receipts : Last(k) => receipts[k].study.content.number \notin rejected
      BY <1>1, <2>1 DEF IInv, RejectedReplaced, Replacing
    <3>3. status'[Study] = "PASS" => StudyIdentity' = StudyIdentity
      <4>1. ASSUME status'[Study] = "PASS"
            PROVE  Evidence \notin Descendants(t) /\ Environment \notin Descendants(t)
        BY <4>1, <1>3, Below, AncestorsAre, Constant
      <4> QED BY <1>3, <4>1, Constant DEF StudyIdentity
    <3>4. ASSUME status'[Study] = "PASS"
          PROVE  \E i \in DOMAIN receipts' :
                   /\ Last(i)' /\ receipts'[i].identity = StudyIdentity'
                   /\ receipts'[i].study.content.number = product'[Study].content.number
      <4>1. PICK i \in DOMAIN receipts :
              /\ Last(i) /\ receipts[i].identity = StudyIdentity
              /\ receipts[i].study.content.number = product[Study].content.number
        BY <1>1, <2>1, <2>3, <3>4 DEF IInv, RejectedReplaced
      <4> QED BY <2>2, <2>3, <2>4, <3>3, <3>4, <4>1
    <3>5. status'[Study] = "PASS" => product'[Study].content.number \notin rejected'
      BY <2>1, <2>3, <3>1 DEF IInv, RejectedReplaced
    <3> QED BY <2>1, <2>2, <2>4, <3>1, <3>2, <3>4, <3>5 DEF IInv, RejectedReplaced
  <2> QED BY <2>5, <2>6
<1> QED BY <1>4, <1>6, <1>8, <1>9, <1>10, <1>11, <1>12 DEF IInv

-----------------------------------------------------------------------------
(* The theorems.                                                           *)

\* The phase starts that way.
LEMMA InitHolds == Init => IInv
<1> SUFFICES ASSUME Init
             PROVE  IInv
  OBVIOUS
<1>1. \A s \in Stages : product[s] = None /\ job[s] = None /\ root[s] = None
  BY DEF Init
<1>2. \A s \in Stages : status[s] \in {"READY", "PENDING"} /\ (status[s] = "READY" <=> Ancestors[s] = {})
  BY Graph DEF Init
<1>3. TypeOK
  BY <1>1, <1>2, AnalysisAssumption DEF Init, TypeOK
<1>4. Grounded /\ RestsOnCurrent
  BY <1>2, Constant DEF Grounded, RestsOnCurrent
<1>5. JobsCurrent /\ FindingsCurrent /\ Counted /\ InspectedSoFar
  BY <1>1, <1>2, AnalysisAssumption, Constant
  DEF Init, JobsCurrent, FindingsCurrent, Counted, InspectedSoFar, Inspected
<1>6. ReceiptsAgree /\ StudyAccepted /\ RejectedReplaced
  BY <1>1, <1>2, Constant
  DEF Init, ReceiptsAgree, StudyAccepted, RejectedReplaced, Replacing, Last
<1> QED BY <1>3, <1>4, <1>5, <1>6 DEF IInv

\* The invariant holds in every reachable state.
THEOREM Invariant == Spec => []IInv
<1>1. Init => IInv
  BY InitHolds
<1>2. IInv /\ [Next]_vars => IInv'
  <2> SUFFICES ASSUME IInv, [Next]_vars
               PROVE  IInv'
    OBVIOUS
  <2>1. CASE Next
    <3>0. CASE \/ Inspect \/ BeginInspection \/ RecordInventory \/ RecordCandidates \/ InspectionFails
               \/ InspectByHand \/ HandRecordsInventory \/ HandRecordsCandidates \/ HandEnds
      BY <3>0, InspectKeeps, BeginInspectionKeeps, RecordInventoryKeeps, RecordCandidatesKeeps,
         InspectionFailsKeeps, InspectByHandKeeps, HandRecordsInventoryKeeps, HandRecordsCandidatesKeeps,
         HandEndsKeeps
    <3>1. CASE Restore \/ AcceptStudy \/ Remember \/ Crash
      BY <3>1, RestoreKeeps, AcceptStudyKeeps, RememberKeeps, CrashKeeps
    <3>2. CASE \E ready \in BOOLEAN : RunHarness(ready)
      BY <3>2, RunHarnessKeeps
    <3>3. CASE BuildKnowledge \/ CreateHandoff \/ JudgeEnvironment \/ JudgeHandoff
      BY <3>3, BuildKnowledgeKeeps, CreateHandoffKeeps, JudgeEnvironmentKeeps, JudgeHandoffKeeps
    <3>4. ASSUME NEW s \in Stages,
                 Turn(s) \/ Unusable(s) \/ GiveUp(s) \/ Accept(s) \/ SendBack(s) \/ Exhaust(s) \/ Reopen(s)
          PROVE  IInv'
      BY <3>4, TurnKeeps, UnusableKeeps, GiveUpKeeps, AcceptKeeps, SendBackKeeps, ExhaustKeeps, ReopenKeeps
    <3> QED BY <2>1, <3>0, <3>1, <3>2, <3>3, <3>4 DEF Next
  <2>2. CASE UNCHANGED vars
    <3>1. UNCHANGED <<status, product, job, findings, inventory, candidates, hand, root, receipts, repairs, at,
                      studies, rejected, accidents, acts>>
      BY <2>2 DEF vars, work, inspection, history, bounds
    <3>2. /\ \A r \in Stages : View(r)' = View(r)
          /\ StudyIdentity' = StudyIdentity
      BY <3>1 DEF View, StudyIdentity
    <3>3. TypeOK' /\ Grounded' /\ RestsOnCurrent'
      BY <3>1 DEF IInv, TypeOK, Grounded, RestsOnCurrent
    <3>4. JobsCurrent' /\ FindingsCurrent' /\ Counted' /\ InspectedSoFar'
      BY <3>1, <3>2, Constant
      DEF IInv, TypeOK, JobsCurrent, FindingsCurrent, Counted, InspectedSoFar, Inspected
    <3>5. ReceiptsAgree' /\ StudyAccepted' /\ RejectedReplaced'
      BY <3>1, <3>2 DEF IInv, ReceiptsAgree, StudyAccepted, RejectedReplaced, Replacing, Last
    <3> QED BY <3>3, <3>4, <3>5 DEF IInv
  <2> QED BY <2>1, <2>2
<1> QED BY <1>1, <1>2, PTL DEF Spec

\* Every accepted product is one its stage may be accepted with, with a view of all it was
\* made from (port.py, project.py).
THEOREM TypeCorrect == Spec => []TypeOK
<1>1. IInv => TypeOK
  BY DEF IInv
<1> QED BY Invariant, <1>1, PTL

\* Every accepted product was made from the products accepted now, whatever was sent back,
\* kept or restored in between (retry_from, target_study/reuse.py).
THEOREM RestsAlwaysOnCurrent == Spec => []RestsOnCurrent
<1>1. IInv => RestsOnCurrent
  BY DEF IInv
<1> QED BY Invariant, <1>1, PTL

\* A study that was sent back is not accepted again without a turn, unless the worker of a
\* study hands a repair on or a study was not remembered (target_study/reuse.py).
THEOREM RejectedAlwaysStaysOut == Spec => []RejectedStaysOut
<1>1. IInv => RejectedStaysOut
  BY DEF IInv, RejectedReplaced, RejectedStaysOut
<1> QED BY Invariant, <1>1, PTL

\* Once nobody inspects, a running or accepted attempt at the environment has one inventory and
\* one list of modes, unless an inspection of this attempt raised or was cut off, was not the only
\* one, or was left over from the attempt before (environment/inventory.py, port.py, environment/cli.py).
THEOREM InspectedAlwaysOnce == Spec => []InspectedOnce
<1>1. IInv => InspectedOnce
  BY DEF IInv, InspectedSoFar, InspectedOnce
<1> QED BY Invariant, <1>1, PTL
=============================================================================
