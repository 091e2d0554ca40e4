----------------------------- MODULE MCPipeline -----------------------------
(* TLC instances of the pipeline.                                            *)
EXTENDS PipelineProperties, TLC

\* The second argument of NewAsynqServer in the four main functions
AsConfigured == [upload |-> 2, state |-> 5, analyze |-> 2, embed |-> 2]
OneSlot == [type \in TaskTypes |-> 1]

\* Which task types are delivered a second time before they are archived.
Retried(types) == [type \in TaskTypes |-> IF type \in types THEN 1 ELSE 0]

NoRetry == Retried({})
UploadRetry == Retried({"upload"})
EmbedRetry == Retried({"embed"})
EarlyRetry == Retried({"upload", "state"})
LateRetry == Retried({"analyze", "embed"})
OneRetry == Retried(TaskTypes)

\* Goroutines, task ids and file names are interchangeable (safety runs only).
Symmetry == Permutations(Workers) \cup Permutations(TaskIds) \cup Permutations(Files)

=============================================================================
