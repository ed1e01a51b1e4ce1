------------------------- MODULE MigrationWorkflow -------------------------
(***************************************************************************)
(* The stages of a migration workspace and what each depends on, as        *)
(* orchestration/migration.py builds them for one project configuration,   *)
(* and the phase of each stage (core/phases.py).                           *)
(***************************************************************************)
EXTENDS Naturals, Sequences

CONSTANTS
  Mode,            \* EvaluationMode of the project
  AnalysisReview,  \* enable_analysis_review
  FinalReview      \* enable_final_evidence_review

\* validate_project_config: blind workflows keep the final review.
ASSUME ConfigAssumption ==
  /\ Mode \in {"developer-evidence", "prospective-blind", "post-hoc-sealed-blind"}
  /\ AnalysisReview \in BOOLEAN
  /\ FinalReview \in BOOLEAN
  /\ Mode # "developer-evidence" => FinalReview

Row(name, prerequisites) == <<[name |-> name, prerequisites |-> prerequisites]>>

When(condition, rows) == IF condition THEN rows ELSE <<>>

Prospective == Mode = "prospective-blind"

ScopeRows ==
  Row("project_init", {})
  \o When(Prospective, Row("blind_binding", {}))
  \o Row("request_intake", {})
  \o Row("driver_candidate_resolution", {})
  \o Row("scope_confirmation", {})
  \o Row("migration_envelope_freeze", {})
  \o Row("repository_acquisition", {"migration_envelope_freeze"})

DesignRows ==
  Row("evidence_closure", {"migration_envelope_freeze"})
  \o Row("environment_recovery", {})
  \o Row("knowledge_base", {})
  \o Row("target_platform_study", {})
  \o Row("migration_handoff",
         {"migration_envelope_freeze", "repository_acquisition", "evidence_closure",
          "environment_recovery", "knowledge_base"}
           \cup IF Prospective THEN {"blind_binding"} ELSE {})
  \o Row("migration_contracts",
         {"migration_handoff", "knowledge_base", "target_platform_study",
          "repository_acquisition", "evidence_closure"})
  \o When(Mode = "developer-evidence" /\ AnalysisReview,
          Row("analysis_review", {"target_platform_study", "migration_handoff",
                                  "evidence_closure", "environment_recovery"}))

DeliveryRows ==
  Row("target_framework_enablement",
      {"migration_handoff", "migration_contracts", "target_platform_study", "knowledge_base"})
  \o Row("driver_implementation",
         {"migration_handoff", "migration_contracts", "target_framework_enablement",
          "target_platform_study", "knowledge_base"})
  \o Row("artifact_preparation",
         {"migration_handoff", "driver_implementation", "target_framework_enablement",
          "environment_recovery"})
  \o Row("public_qemu_validation",
         {"migration_handoff", "migration_contracts", "driver_implementation",
          "environment_recovery", "knowledge_base", "evidence_closure"})
  \o When(FinalReview,
          Row("final_evidence_review",
              {"driver_implementation", "migration_contracts",
               "target_framework_enablement", "artifact_preparation"}))

SealingRows ==
  When(Mode # "developer-evidence",
       Row("candidate_sealing", {})
       \o Row(IF Prospective THEN "candidate_transfer" ELSE "opaque_digest_export", {})
       \o Row("completion_audit", {}))

\* migration_workflow: a stage's place in this tuple is its position.
Rows == ScopeRows \o DesignRows \o DeliveryRows \o SealingRows

WorkflowStages == 1..Len(Rows)

Position(name) == CHOOSE i \in WorkflowStages : Rows[i].name = name

\* _data_dependencies: these stages depend on the data they read and not on the
\* stage before them.
DataDependencies ==
  [environment_recovery  |-> {"repository_acquisition"},
   knowledge_base        |-> {"evidence_closure"},
   target_platform_study |-> {"knowledge_base", "environment_recovery"}]

\* _migration_rows and append_linear: a row awaits the row before it and what it declares.
WorkflowDeps ==
  [i \in WorkflowStages |->
     IF Rows[i].name \in DOMAIN DataDependencies
       THEN {Position(d) : d \in DataDependencies[Rows[i].name]}
       ELSE (IF i = 1 THEN {} ELSE {i - 1})
              \cup {Position(d) : d \in Rows[i].prerequisites}]

\* GROUPS: stages of no group are a phase of their own.
Groups ==
  <<{"project_init", "request_intake", "driver_candidate_resolution", "scope_confirmation",
     "migration_envelope_freeze", "repository_acquisition"},
    {"evidence_closure", "environment_recovery", "knowledge_base", "target_platform_study",
     "migration_handoff", "migration_contracts", "analysis_review"},
    {"target_framework_enablement", "driver_implementation", "artifact_preparation",
     "public_qemu_validation", "final_evidence_review"},
    {"completion_audit"}>>

WorkflowRank ==
  [i \in WorkflowStages |->
     IF \E g \in DOMAIN Groups : Rows[i].name \in Groups[g]
       THEN CHOOSE g \in DOMAIN Groups : Rows[i].name \in Groups[g]
       ELSE 0]
=============================================================================
