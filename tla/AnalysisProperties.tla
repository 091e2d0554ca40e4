------------------------- MODULE AnalysisProperties -------------------------
(* What the conversation with the model must achieve.                        *)
EXTENDS Analysis

TypeOK ==
    /\ call.pc \in {"idle", "ask", "save", "saveBroken"}
    /\ call.attempt \in 0 .. MaxAttempts
    /\ call.last \in Metadata \cup {None}
    /\ Len(call.history) <= 2 * MaxAttempts + 1
    /\ manifest \in Metadata \cup {None}
    /\ broken \in Metadata \cup {None}

\* The two files do not mix: the manifest that the embedder reads has passed
\* validateMetadata, and the "_broken" file has not, whatever conversations gave
\* up before or after, since both hand the analyzer metadata (analyzer.go:66-93).
\* It is not said that a manifest is all that responseSchema asks for: see README.
FilesAreKeptApart ==
    /\ manifest # None => Problems(manifest) = {}
    /\ broken # None => Problems(broken) # {}

\* The history is a conversation the API accepts: the two sides take turns, and
\* each feedback lists the problems of the reply just before it.
TakesTurns(history) ==
    \A i \in DOMAIN history :
        LET turn == history[i] IN
        /\ turn.role = IF i % 2 = 1 THEN "user" ELSE "model"
        /\ i % 2 = 1 /\ i > 1 => turn.says = Problems(history[i - 1].says)

FeedbackFollowsReply == TakesTurns(call.history)

\* Analyzers that give up save the last metadata of the conversation, the one
\* that had the most feedback, also when later attempts brought none.
SavesLastReply ==
    call.pc = "saveBroken" => call.last = call.history[Len(call.history) - 1].says

\* Each conversation ends, however the model answers.
ConversationEnds == call.pc = "ask" ~> call.pc # "ask"

=============================================================================
