--------------------------- MODULE AnalysisProofs ---------------------------
(***************************************************************************)
(* The safety properties of the conversation, for any replies, any number  *)
(* of attempts and any set of faults.                                      *)
(***************************************************************************)
EXTENDS AnalysisProperties, TLAPS

Turns == [role : {"user", "model"},
          says : Metadata \cup {{}} \cup {Problems(m) : m \in Metadata}]

\* Whatever the setting, at least one request is made.
LEMMA AttemptsArePositive == MaxAttempts \in Nat \ {0}
BY MaxRetriesAssumption DEF MaxAttempts

CallSet == [pc : {"idle", "ask", "save", "saveBroken"}, attempt : 0 .. MaxAttempts,
            history : Seq(Turns), last : Metadata \cup {None}]

\* The conversation has two turns for each rejected reply, at most one reply
\* for each attempt before the current one, and ends in the last metadata and
\* its problems, if there is any.
Rounds(history, n) == n \in Nat /\ Len(history) = 2 * n + 1

EndsIn(history, m) ==
    /\ Len(history) >= 3
    /\ history[Len(history) - 1].says = m
    /\ Problems(m) # {}

\* A call in its loop, when it may have had at most the given number of replies
InLoop(c, replies) ==
    /\ \E n \in 0 .. replies : Rounds(c.history, n)
    /\ c.last # None => EndsIn(c.history, c.last)

CallOK(c) ==
    /\ c \in CallSet
    /\ TakesTurns(c.history)
    /\ c.pc = "idle" => c = NoCall
    /\ c.pc = "ask" => c.attempt >= 1 /\ InLoop(c, c.attempt - 1)
    /\ c.pc = "save" => /\ c.last # None /\ Problems(c.last) = {}
                        /\ \E n \in 0 .. MaxAttempts : Rounds(c.history, n)
    /\ c.pc = "saveBroken" => c.last # None /\ InLoop(c, MaxAttempts)

FilesOK ==
    /\ manifest \in Metadata \cup {None} /\ broken \in Metadata \cup {None}
    /\ manifest # None => Problems(manifest) = {}
    /\ broken # None => Problems(broken) # {}

Inv == CallOK(call) /\ FilesOK

-----------------------------------------------------------------------------
(* Lemmas about the history and the loop. *)

\* A rejected reply and its problems go on with the conversation.
LEMMA OneMoreRound ==
    ASSUME NEW h \in Seq(Turns), NEW n \in Nat, Rounds(h, n), TakesTurns(h),
           NEW m \in Metadata, Problems(m) # {}
    PROVE  LET longer == h \o <<Turn("model", m), Turn("user", Problems(m))>> IN
           /\ longer \in Seq(Turns)
           /\ Rounds(longer, n + 1)
           /\ TakesTurns(longer)
           /\ EndsIn(longer, m)
<1> DEFINE reply == Turn("model", m)
           feedback == Turn("user", Problems(m))
           longer == h \o <<reply, feedback>>
<1>1. reply \in Turns /\ feedback \in Turns
  BY DEF Turns, Turn
<1>2. longer \in Seq(Turns) /\ Len(longer) = Len(h) + 2
  BY <1>1
<1>3. /\ \A i \in 1 .. Len(h) : longer[i] = h[i]
      /\ longer[Len(h) + 1] = reply /\ longer[Len(h) + 2] = feedback
  BY <1>1
<1>4. Rounds(longer, n + 1)
  BY <1>2 DEF Rounds
<1>5. reply.role = "model" /\ reply.says = m
      /\ feedback.role = "user" /\ feedback.says = Problems(m)
  BY DEF Turn
<1>6. EndsIn(longer, m)
  BY <1>2, <1>3, <1>5 DEF EndsIn, Rounds
<1>7. ASSUME NEW i \in DOMAIN longer
      PROVE  /\ longer[i].role = IF i % 2 = 1 THEN "user" ELSE "model"
             /\ i % 2 = 1 /\ i > 1 => longer[i].says = Problems(longer[i - 1].says)
  <2>1. i \in 1 .. (2 * n + 3) BY <1>2 DEF Rounds
  <2>2. CASE i \in 1 .. Len(h)
    <3>1. i > 1 => longer[i - 1] = h[i - 1] BY <1>3, <2>1, <2>2
    <3>2. longer[i] = h[i] /\ i \in DOMAIN h BY <1>3, <2>2
    <3> QED BY <3>1, <3>2 DEF TakesTurns
  <2>3. CASE i = 2 * n + 2
    <3>1. i % 2 # 1 BY <2>3
    <3> QED BY <1>3, <1>5, <2>3, <3>1 DEF Rounds
  <2>4. CASE i = 2 * n + 3
    <3>1. i % 2 = 1 BY <2>4
    <3>2. longer[i] = feedback /\ longer[i - 1] = reply
      BY <1>3, <2>4 DEF Rounds
    <3> QED BY <1>5, <3>1, <3>2
  <2> QED BY <2>1, <2>2, <2>3, <2>4 DEF Rounds
<1> HIDE DEF longer
<1>8. TakesTurns(longer)
  BY <1>7 DEF TakesTurns
<1> QED BY <1>2, <1>4, <1>6, <1>8 DEF longer

LEMMA NoCallOK == CallOK(NoCall)
<1>1. NoCall \in CallSet
  BY AttemptsArePositive DEF NoCall, CallSet
<1>2. TakesTurns(<<>>)
  BY DEF TakesTurns
<1>3. NoCall.pc = "idle" /\ NoCall.history = <<>>
  BY DEF NoCall
<1> QED BY <1>1, <1>2, <1>3 DEF CallOK

\* The end of an attempt leaves a call in order that had at most one reply for
\* each attempt up to the one that ends.
LEMMA NextAttemptOK ==
    ASSUME NEW c, c \in CallSet, c.pc = "ask", c.attempt >= 1,
           TakesTurns(c.history), InLoop(c, c.attempt)
    PROVE  CallOK(NextAttempt(c))
<1> USE AttemptsArePositive
<1>1. CASE c.attempt < MaxAttempts
  <2> DEFINE next == [c EXCEPT !.attempt = @ + 1]
  <2>1. next \in CallSet BY <1>1 DEF CallSet
  <2>2. /\ next.pc = "ask" /\ next.attempt = c.attempt + 1
        /\ next.history = c.history /\ next.last = c.last
    BY DEF CallSet
  <2>3. c.attempt \in Nat BY DEF CallSet
  <2>4. next.attempt - 1 = c.attempt BY <2>2, <2>3
  <2>5. NextAttempt(c) = next BY <1>1 DEF NextAttempt
  <2> HIDE DEF next
  <2>6. InLoop(next, next.attempt - 1) BY <2>2, <2>4 DEF InLoop
  <2> QED BY <2>1, <2>2, <2>3, <2>5, <2>6 DEF CallOK
<1>2. CASE ~(c.attempt < MaxAttempts) /\ c.last # None
  <2> DEFINE next == [c EXCEPT !.pc = "saveBroken"]
  <2>1. next \in CallSet BY DEF CallSet
  <2>2. next.pc = "saveBroken" /\ next.history = c.history /\ next.last = c.last
    BY DEF CallSet
  <2>3. c.attempt \in 0 .. MaxAttempts BY DEF CallSet
  <2>4. NextAttempt(c) = next BY <1>2 DEF NextAttempt
  <2> HIDE DEF next
  <2>5. InLoop(next, MaxAttempts) BY <2>2, <2>3 DEF InLoop
  <2> QED BY <1>2, <2>1, <2>2, <2>4, <2>5 DEF CallOK
<1>3. CASE ~(c.attempt < MaxAttempts) /\ ~(c.last # None)
  BY <1>3, NoCallOK DEF NextAttempt
<1> QED BY <1>1, <1>2, <1>3

-----------------------------------------------------------------------------
(* The inductive invariant. *)

LEMMA Initially == Init => Inv
BY NoCallOK DEF Init, Inv, FilesOK

LEMMA AnalyzeInv == Inv /\ Analyze => Inv'
<1> SUFFICES ASSUME Inv, Analyze PROVE Inv'
  OBVIOUS
<1> DEFINE first == [pc |-> "ask", attempt |-> 1, history |-> <<Prompt>>, last |-> None]
<1>1. call' = first /\ UNCHANGED <<manifest, broken>>
  BY DEF Analyze
<1>2. Prompt \in Turns /\ Prompt.role = "user"
  BY DEF Prompt, Turn, Turns
<1>3. first \in CallSet
  BY <1>2, AttemptsArePositive DEF CallSet
<1>4. TakesTurns(<<Prompt>>)
  BY <1>2 DEF TakesTurns
<1>5. Rounds(<<Prompt>>, 0)
  BY DEF Rounds
<1>6. InLoop(first, 0)
  BY <1>5 DEF InLoop
<1>7. CallOK(first)
  BY <1>3, <1>4, <1>6 DEF CallOK
<1> QED BY <1>1, <1>7 DEF Inv, FilesOK

LEMMA NoMetadataInv == Inv /\ NoMetadata => Inv'
<1> SUFFICES ASSUME Inv, NoMetadata PROVE Inv'
  OBVIOUS
<1>1. call \in CallSet /\ call.pc = "ask" /\ call.attempt >= 1 /\ TakesTurns(call.history)
      /\ InLoop(call, call.attempt - 1)
  BY DEF Inv, CallOK, NoMetadata
<1>2. InLoop(call, call.attempt)
  BY <1>1 DEF InLoop, CallSet
<1>3. CallOK(NextAttempt(call))
  BY <1>1, <1>2, NextAttemptOK
<1> QED BY <1>3 DEF Inv, FilesOK, NoMetadata

LEMMA RejectInv == ASSUME NEW m \in Metadata PROVE Inv /\ Reject(m) => Inv'
<1> SUFFICES ASSUME Inv, Reject(m) PROVE Inv'
  OBVIOUS
<1>1. call \in CallSet /\ call.pc = "ask" /\ call.attempt >= 1 /\ TakesTurns(call.history)
      /\ InLoop(call, call.attempt - 1) /\ call.attempt \in Nat
  BY DEF Inv, CallOK, Reject, CallSet
<1>2. PICK n \in 0 .. (call.attempt - 1) : Rounds(call.history, n)
  BY <1>1 DEF InLoop
<1> DEFINE longer == call.history \o <<Turn("model", m), Turn("user", Problems(m))>>
           c == [call EXCEPT !.last = m, !.history = longer]
<1>3. /\ longer \in Seq(Turns) /\ Rounds(longer, n + 1)
      /\ TakesTurns(longer) /\ EndsIn(longer, m)
  <2>1. call.history \in Seq(Turns) /\ n \in Nat /\ Problems(m) # {}
    BY <1>1 DEF CallSet, Reject
  <2> QED BY <1>1, <1>2, <2>1, OneMoreRound
<1>4. call' = NextAttempt(c) /\ UNCHANGED <<manifest, broken>>
  BY <1>1 DEF Reject, CallSet
<1> HIDE DEF longer
<1>5. c \in CallSet /\ c.pc = "ask" /\ c.attempt = call.attempt /\ c.last = m /\ c.history = longer
  BY <1>1, <1>3 DEF CallSet
<1> HIDE DEF c
<1>6. InLoop(c, c.attempt)
  BY <1>1, <1>2, <1>3, <1>5 DEF InLoop
<1>7. CallOK(NextAttempt(c))
  BY <1>1, <1>3, <1>5, <1>6, NextAttemptOK
<1> QED BY <1>4, <1>7 DEF Inv, FilesOK

LEMMA AcceptInv == ASSUME NEW m \in Metadata PROVE Inv /\ Accept(m) => Inv'
<1> SUFFICES ASSUME Inv, Accept(m) PROVE Inv'
  OBVIOUS
<1>1. call \in CallSet /\ TakesTurns(call.history) /\ InLoop(call, call.attempt - 1)
  BY DEF Inv, CallOK, Accept
<1> DEFINE c == [call EXCEPT !.last = m, !.pc = "save"]
<1>2. c \in CallSet /\ c.pc = "save" /\ c.last = m /\ c.history = call.history
  BY <1>1 DEF CallSet
<1>3. call' = c /\ Problems(m) = {} /\ m # None /\ UNCHANGED <<manifest, broken>>
  BY MetadataAssumption DEF Accept
<1>4. \E n \in 0 .. MaxAttempts : Rounds(call.history, n)
  BY <1>1, AttemptsArePositive DEF InLoop, CallSet
<1> HIDE DEF c
<1>5. CallOK(c)
  BY <1>1, <1>2, <1>3, <1>4 DEF CallOK
<1> QED BY <1>3, <1>5 DEF Inv, FilesOK

LEMMA WriteManifestInv == Inv /\ WriteManifest => Inv'
<1> SUFFICES ASSUME Inv, WriteManifest PROVE Inv'
  OBVIOUS
<1>1. call.last \in Metadata /\ Problems(call.last) = {}
  BY DEF Inv, CallOK, CallSet, WriteManifest
<1> QED BY <1>1, NoCallOK DEF Inv, FilesOK, WriteManifest

LEMMA WriteBrokenInv == Inv /\ WriteBroken => Inv'
<1> SUFFICES ASSUME Inv, WriteBroken PROVE Inv'
  OBVIOUS
<1>1. call.last \in Metadata /\ Problems(call.last) # {}
  BY DEF Inv, CallOK, CallSet, WriteBroken, InLoop, EndsIn
<1> QED BY <1>1, NoCallOK DEF Inv, FilesOK, WriteBroken

\* Every reachable state of the analysis is in order.
THEOREM Invariance == Spec => []Inv
<1>1. Inv /\ [Next]_vars => Inv'
  <2> SUFFICES ASSUME Inv, [Next]_vars PROVE Inv'
    OBVIOUS
  <2>1. CASE Analyze BY <2>1, AnalyzeInv
  <2>2. CASE NoMetadata BY <2>2, NoMetadataInv
  <2>3. ASSUME NEW m \in Metadata, Reject(m) PROVE Inv' BY <2>3, RejectInv
  <2>4. ASSUME NEW m \in Metadata, Accept(m) PROVE Inv' BY <2>4, AcceptInv
  <2>5. CASE WriteManifest BY <2>5, WriteManifestInv
  <2>6. CASE WriteBroken BY <2>6, WriteBrokenInv
  <2>7. CASE CutOff BY <2>7, NoCallOK DEF CutOff, Inv, FilesOK
  <2>8. CASE UNCHANGED vars BY <2>8 DEF vars, Inv, FilesOK
  <2> QED BY <2>1, <2>2, <2>3, <2>4, <2>5, <2>6, <2>7, <2>8 DEF Next, Step
<1> QED BY <1>1, Initially, PTL DEF Spec

-----------------------------------------------------------------------------
(* What it implies. *)

\* Every variable keeps its type, and the history stays within its bound.
THEOREM TypeCorrect == Spec => []TypeOK
<1>1. Inv => TypeOK
  <2> SUFFICES ASSUME Inv PROVE TypeOK
    OBVIOUS
  <2>1. call \in CallSet /\ FilesOK
    BY DEF Inv, CallOK
  <2>2. Len(call.history) <= 2 * MaxAttempts + 1
    <3>1. CASE call.pc = "idle"
      BY <3>1, AttemptsArePositive DEF Inv, CallOK, NoCall
    <3>2. CASE call.pc # "idle"
      <4>1. \E n \in 0 .. MaxAttempts : Rounds(call.history, n)
        BY <2>1, <3>2, AttemptsArePositive DEF Inv, CallOK, CallSet, InLoop
      <4> QED BY <4>1, AttemptsArePositive DEF Rounds
    <3> QED BY <3>1, <3>2
  <2> QED BY <2>1, <2>2 DEF TypeOK, CallSet, FilesOK
<1> QED BY <1>1, Invariance, PTL

\* The manifest only ever holds metadata that has passed the check, and the
\* "_broken" file only metadata that has not, over any sequence of conversations.
THEOREM FilesKeptApart == Spec => []FilesAreKeptApart
<1>1. Inv => FilesAreKeptApart
  BY DEF Inv, FilesOK, FilesAreKeptApart
<1> QED BY <1>1, Invariance, PTL

\* Model and user take turns, and each feedback is about the reply before it.
THEOREM FeedbackFollows == Spec => []FeedbackFollowsReply
<1>1. Inv => FeedbackFollowsReply
  BY DEF Inv, CallOK, FeedbackFollowsReply
<1> QED BY <1>1, Invariance, PTL

\* What is saved of an analysis that gave up is its last metadata.
THEOREM LastReplySaved == Spec => []SavesLastReply
<1>1. Inv => SavesLastReply
  BY DEF Inv, CallOK, InLoop, EndsIn, SavesLastReply
<1> QED BY <1>1, Invariance, PTL

=============================================================================
