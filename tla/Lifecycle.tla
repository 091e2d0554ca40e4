----------------------------- MODULE Lifecycle ------------------------------
(***************************************************************************)
(* What the pipeline promises about a job, without queues, workers or      *)
(* faults: its status moves freely between the stages (deliveries repeat   *)
(* and overlap), but a stage is entered only when the evidence it builds   *)
(* on exists, and evidence is never lost.                                  *)
(***************************************************************************)
CONSTANT Jobs

VARIABLES
    status,
    uploaded,     \* jobs whose row names a provider file
    analyzed,     \* jobs with a manifest
    embedded      \* jobs whose scenes are in video_scene

vars == <<status, uploaded, analyzed, embedded>>

Init ==
    /\ status = [j \in Jobs |-> "NONE"]
    /\ uploaded = {} /\ analyzed = {} /\ embedded = {}

\* A job that has been deleted with its video never comes back.
Enter(j, s) ==
    /\ status[j] # "GONE"
    /\ status' = [status EXCEPT ![j] = s]
    /\ UNCHANGED <<analyzed, embedded>>

Create(j) == status[j] = "NONE" /\ Enter(j, "PENDING") /\ UNCHANGED uploaded

\* The file id and the status that announces it appear together.
Upload(j) ==
    /\ status[j] # "NONE"
    /\ Enter(j, "UPLOADED_TO_PROVIDER")
    /\ uploaded' = uploaded \cup {j}

Analysis(j) ==
    /\ j \in uploaded
    /\ \E s \in {"READY_FOR_ANALYSIS", "ANALYZING"} : Enter(j, s)
    /\ UNCHANGED uploaded

Embedding(j) ==
    /\ j \in analyzed
    /\ \E s \in {"READY_FOR_EMBEDDING", "EMBEDDING"} : Enter(j, s)
    /\ UNCHANGED uploaded

Completion(j) ==
    /\ j \in embedded
    /\ \E s \in {"COMPLETED", "MANUAL_EMBEDDING"} : Enter(j, s)
    /\ UNCHANGED uploaded

Fail(j) == status[j] # "NONE" /\ Enter(j, "FAILED") /\ UNCHANGED uploaded

Delete(j) == status[j] # "NONE" /\ Enter(j, "GONE") /\ UNCHANGED uploaded

Analyze(j) ==
    /\ j \in uploaded
    /\ analyzed' = analyzed \cup {j}
    /\ UNCHANGED <<status, uploaded, embedded>>

Embed(j) ==
    /\ j \in analyzed
    /\ embedded' = embedded \cup {j}
    /\ UNCHANGED <<status, uploaded, analyzed>>

Next ==
    \E j \in Jobs :
        \/ Create(j) \/ Upload(j) \/ Analysis(j) \/ Embedding(j)
        \/ Completion(j) \/ Fail(j) \/ Delete(j) \/ Analyze(j) \/ Embed(j)

Spec == Init /\ [][Next]_vars

=============================================================================
