------------------------- MODULE MCMigrationLedger -------------------------
(***************************************************************************)
(* StageLedger on the workflow of a real configuration.                    *)
(***************************************************************************)
EXTENDS StageLedger, MigrationWorkflow

CONSTANT c1

OneReport == [s \in WorkflowStages |-> {"report"}]
NoKinds == [s \in WorkflowStages |-> {}]

\* The workflow built is such a graph: what the theorem about PhasesInOrder asks for.
ASSUME WorkflowAssumption == PhasesRestOnEarlier
=============================================================================
