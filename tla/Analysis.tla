------------------------------ MODULE Analysis ------------------------------
(***************************************************************************)
(* The conversation in which the Gemini client gets the metadata of one    *)
(* video, and the two files the analyzer may leave: the manifest that the  *)
(* embedder reads, and the "_broken" one of an analysis that gave up.      *)
(*                                                                         *)
(* Each request sends the whole history; a reply that is no metadata is    *)
(* answered by the same request again, and metadata with problems by a     *)
(* request that lists them.  Status, redelivery and torn writes are the    *)
(* subject of Pipeline.  Times are integers in any unit.                   *)
(***************************************************************************)
EXTENDS Integers, Sequences

CONSTANTS
    Metadata,     \* what the model may return, as parsed by json.Unmarshal
    None,
    MaxRetries,   \* AI_API_MAX_RETRIES, which is 0 when it is no number
    Faults        \* "gemini", "disk", "crash"

ASSUME MaxRetriesAssumption == MaxRetries \in Int

\* Seeded bug: the setting is taken as it is.
MaxAttemptsAsSet == MaxRetries

\* NewClient: the loop counts attempts, not retries, and has at least one.
MaxAttempts == IF MaxRetries <= 0 THEN 3 ELSE MaxRetries

VARIABLES call, manifest, broken

vars == <<call, manifest, broken>>

VideoFields == {"video_title", "video_category", "global_keywords"}
SceneFields == {"name", "content", "items"}

\* blank: the fields that are missing or empty.
SceneMetadata == [start : Int, end : Int, blank : SUBSET SceneFields]
GeminiMetadata ==
    [blank : SUBSET VideoFields, duration : Int, scenes : Seq(SceneMetadata)]

ASSUME MetadataAssumption == Metadata \subseteq GeminiMetadata /\ None \notin Metadata

Problem(at, field, wrong) == IF wrong THEN {<<at, field>>} ELSE {}

\* The checks on scene i
SceneProblems(m, i) ==
    LET scene == m.scenes[i] IN
    {<<i, field>> : field \in scene.blank}
    \cup Problem(i, "start_time", scene.start < 0)
    \cup Problem(i, "end_time", scene.end <= scene.start)
    \cup Problem(i, "beyond", m.duration > 0 /\ scene.end > m.duration)

\* validateMetadata.  It asks for less than the prompt and the response schema do.
Problems(m) ==
    {<<0, field>> : field \in m.blank}
    \cup Problem(0, "duration", m.duration <= 0)
    \cup Problem(0, "scenes", m.scenes = <<>>)
    \cup (UNION {SceneProblems(m, i) : i \in DOMAIN m.scenes})
    \cup Problem(0, "unit", /\ m.duration > 0 /\ m.scenes # <<>>
                            /\ 2 * m.scenes[Len(m.scenes)].end < m.duration)

\* A turn of the conversation: metadata the model gave, or the problems of
\* some that the user lists; the first one is the prompt.
Turn(role, says) == [role |-> role, says |-> says]

Prompt == Turn("user", {})

NoCall == [pc |-> "idle", attempt |-> 0, history |-> <<>>, last |-> None]

Init == call = NoCall /\ manifest = None /\ broken = None

\* A file that cannot be resolved ends the call with nothing: no change here.
Analyze ==
    /\ call.pc = "idle"
    /\ call' = [pc |-> "ask", attempt |-> 1, history |-> <<Prompt>>, last |-> None]
    /\ UNCHANGED <<manifest, broken>>

\* Seeded bug: the analyzer takes the metadata that comes with the error.
NextAttemptSaving(c) ==
    IF c.attempt < MaxAttempts THEN [c EXCEPT !.attempt = @ + 1]
    ELSE IF c.last # None THEN [c EXCEPT !.pc = "save"]
    ELSE NoCall

\* The loop goes on, or gives back its last metadata with an error, for which
\* the analyzer writes the "_broken" file if there is any.
NextAttempt(c) ==
    IF c.attempt < MaxAttempts THEN [c EXCEPT !.attempt = @ + 1]
    ELSE IF c.last # None THEN [c EXCEPT !.pc = "saveBroken"]
    ELSE NoCall

\* Seeded bug: an attempt that got no metadata starts the conversation anew.
StartAnew ==
    /\ call.pc = "ask" /\ "gemini" \in Faults
    /\ call' = [NoCall EXCEPT !.pc = "ask", !.attempt = 1, !.history = <<Prompt>>]
    /\ UNCHANGED <<manifest, broken>>

\* An error, an empty reply, or text that is not JSON of the right shape
NoMetadata ==
    /\ call.pc = "ask" /\ "gemini" \in Faults
    /\ call' = NextAttempt(call)
    /\ UNCHANGED <<manifest, broken>>

\* Seeded bug: the feedback goes out without the reply it is about.
RejectWithoutReply(m) ==
    /\ call.pc = "ask" /\ Problems(m) # {}
    /\ call' = NextAttempt([call EXCEPT !.last = m,
                               !.history = Append(@, Turn("user", Problems(m)))])
    /\ UNCHANGED <<manifest, broken>>

\* Seeded bug: the first metadata is kept.
RejectKeepingFirst(m) ==
    /\ call.pc = "ask" /\ Problems(m) # {}
    /\ call' = NextAttempt(
          [call EXCEPT !.last = IF @ = None THEN m ELSE @,
                       !.history = @ \o <<Turn("model", m), Turn("user", Problems(m))>>])
    /\ UNCHANGED <<manifest, broken>>

Reject(m) ==
    /\ call.pc = "ask" /\ Problems(m) # {}
    /\ call' = NextAttempt(
          [call EXCEPT !.last = m,
                       !.history = @ \o <<Turn("model", m), Turn("user", Problems(m))>>])
    /\ UNCHANGED <<manifest, broken>>

Accept(m) ==
    /\ call.pc = "ask" /\ Problems(m) = {}
    /\ call' = [call EXCEPT !.last = m, !.pc = "save"]
    /\ UNCHANGED <<manifest, broken>>

\* A candidate without content makes the handler panic; so does a crash end it.
CutOff ==
    /\ call.pc # "idle"
    /\ "crash" \in Faults \/ (call.pc = "ask" /\ "gemini" \in Faults)
    /\ call' = NoCall
    /\ UNCHANGED <<manifest, broken>>

WriteManifest ==
    /\ call.pc = "save"
    /\ manifest' = call.last \/ ("disk" \in Faults /\ UNCHANGED manifest)
    /\ call' = NoCall
    /\ UNCHANGED broken

WriteBroken ==
    /\ call.pc = "saveBroken"
    /\ broken' = call.last \/ ("disk" \in Faults /\ UNCHANGED broken)
    /\ call' = NoCall
    /\ UNCHANGED manifest

Step ==
    \/ NoMetadata \/ (\E m \in Metadata : Reject(m) \/ Accept(m))
    \/ WriteManifest \/ WriteBroken

Next == Analyze \/ Step \/ CutOff

Spec == Init /\ [][Next]_vars

\* A request gets an answer or an error, and the goroutine goes on.
FairSpec == Spec /\ WF_vars(Step)

=============================================================================
