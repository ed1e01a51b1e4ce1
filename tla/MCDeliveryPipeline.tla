------------------------- MODULE MCDeliveryPipeline -------------------------
(***************************************************************************)
(* DeliveryPipeline with one framework file and one driver file.           *)
(***************************************************************************)
EXTENDS DeliveryPipeline, TLC

CONSTANTS f, d

Work(framework, driver, runtime, harness) ==
  [files |-> (f :> framework @@ d :> driver), runtime |-> runtime, harness |-> harness]

\* The framework alone; a complete driver; the driver changed and the framework undone; the
\* package replaced by mere text with other scripts.
SomeWorks == {Work(1, 0, 0, 0), Work(1, 1, 1, 1), Work(0, 2, 1, 1), Work(1, 1, 2, 2)}
=============================================================================
