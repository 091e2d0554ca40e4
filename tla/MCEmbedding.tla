---------------------------- MODULE MCEmbedding -----------------------------
(* TLC instances of the embedder.                                            *)
EXTENDS EmbeddingProperties, TLC

CONSTANTS a, b, s, t, u, i1, i2, i3, i4, i5

\* "a+" is a range less than a millisecond away from "a".
MCRanges == {"a", "a+", "b"}
MCKey == [x \in MCRanges |-> IF x = "b" THEN b ELSE a]

Scene(range, soup) == [range |-> range, soup |-> soup]
Row(id, range, soup) == [id |-> id, range |-> range, soup |-> soup, vector |-> soup]

\* A scene is edited, moved by less than a millisecond, added or removed.
DistinctManifests ==
    {<<>>, <<Scene("a", s)>>, <<Scene("a+", t), Scene("b", s)>>, <<Scene("b", s), Scene("a", s)>>}

\* Two scenes of one time range: validateMetadata does not ask for distinct ones.
RepeatedManifests == {<<Scene("a", s), Scene("a+", t)>>}

\* Nothing has been stored for the video.
EmptyTable == {{}}

\* A manifest before and after an edit: other texts for both ranges, listed in the
\* other order.  A mixture of the two is neither.
Draft == <<Scene("a", s), Scene("b", t)>>
Rewrites == {Draft, <<Scene("b", s), Scene("a", t)>>}

\* What is stored before: nothing, or outdated scenes, one of them twice.
Outdated == {{}, {Row(i1, "a", u), Row(i2, "a", u), Row(i3, "b", u)}}

\* What runs that overlapped may have left: duplicates, mixtures, nothing.
Leftovers ==
    {{}, {Row(i1, "a", s), Row(i2, "a", s)}, {Row(i1, "a", t), Row(i2, "a+", s), Row(i3, "b", s)}}

\* Bound: the manifest is edited once, at any time.
EditOnce(j) == manifest[j] = Draft /\ EditManifest(j)

EditedOnceNext ==
    \/ \E r \in Runs, j \in Jobs : Start(r, j)
    \/ \E r \in Runs : Step(r) \/ Fail(r) \/ Crash(r)
    \/ \E j \in Jobs : EditOnce(j)

EditedOnce == Init /\ [][EditedOnceNext]_vars /\ Fairness

=============================================================================
