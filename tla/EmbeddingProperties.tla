------------------------ MODULE EmbeddingProperties -------------------------
(* What embedding must do to the scenes of a video.                          *)
EXTENDS Embedding

Pair(x) == <<SceneKey(x), x.soup>>
Contents(table) == {Pair(row) : row \in table}
ContentsOf(scenes) == {Pair(scenes[i]) : i \in DOMAIN scenes}

HasDistinctKeys(scenes) ==
    \A i, k \in DOMAIN scenes : SceneKey(scenes[i]) = SceneKey(scenes[k]) => i = k

OneRowPerKey(table) == \A x, y \in table : SceneKey(x) = SceneKey(y) => x = y

TypeOK ==
    /\ status \in [Jobs -> Statuses]
    /\ manifest \in [Jobs -> Manifests]
    /\ rows \in SUBSET Rows
    /\ UniqueIds(rows)
    /\ alone \in SUBSET Runs
    /\ \A r \in Runs :
          /\ runs[r].pc \in Pcs
          /\ runs[r].job \in Jobs \cup {NoJob}
          /\ runs[r].scenes \in Manifests \cup {<<>>}
          /\ DOMAIN runs[r].vectors \subseteq DOMAIN runs[r].scenes
          /\ runs[r].failed \in 0 .. EmbedAttempts - 1
          /\ runs[r].gone \subseteq Ids
          /\ \A id \in DOMAIN runs[r].written :
                runs[r].plan.update[runs[r].written[id]] = id

\* Whatever interrupted or overlapping runs left in the table, and whichever of
\* two rows with one key the planner comes upon, a run that was alone from its
\* start until it reports COMPLETED has stored exactly one row for each scene of
\* the manifest it loaded, and no other: running embedding again repairs a video.
\* This is so for manifests that repeat no time range (see ReembedStoresManifest).
StoredBeforeComplete ==
    \A r \in alone :
        runs[r].pc = "complete" => /\ Contents(rows) = ContentsOf(runs[r].scenes)
                                   /\ OneRowPerKey(rows)

\* planner.go:34-35: the planner "compares the manifest against the database to
\* determine exactly what needs to be created, updated, or deleted": when a run
\* reports COMPLETED, each scene of the manifest it loaded is stored.
ReembedStoresManifest ==
    \A r \in Runs :
        runs[r].pc = "complete" => Contents(rows) = ContentsOf(runs[r].scenes)

\* embed.go:21: "selectively re-embeds scenes whose content has changed": of a
\* key that is stored once, the row survives a re-embedding that is alone
\* untouched when the manifest still has its content.
KeepsUnchangedRows ==
    [][\A r \in alone : runs[r].again /\ rows' # rows /\ runs'[r] # runs[r]
        => \A x \in rows :
              /\ Pair(x) \in ContentsOf(runs[r].scenes)
              /\ \A y \in rows : SceneKey(x) = SceneKey(y) => x = y
              => x \in rows']_vars

\* A run that nobody overlaps replaces the scenes of the video as a whole or not at
\* all, whichever statement fails and whatever others have left: never by nothing,
\* nor by a part of its manifest.  Runs that overlap may leave a mixture, of what
\* was there and the manifest each has loaded.
Table == INSTANCE SceneSet WITH
    contents <- Contents(rows),
    crowded <- \E r \in Runs \ alone : runs[r].pc # "idle",
    Before <- {Contents(t) : t \in Tables},
    Whole <- {ContentsOf(m) : m \in Manifests \ {<<>>}}

ReplacesWhole == Table!Spec

\* The search compares vectors: a row's vector is that of the text the row holds
\* now, also when two runs have read the row, have loaded different texts for it
\* and have embedded them before either of them writes.
VectorsFit == \A row \in rows : row.vector = row.soup

\* Every run ends, also when Gemini answers no call and when runs lock each
\* other's rows.
RunsEnd == \A r \in Runs : runs[r].pc # "idle" ~> runs[r].pc = "idle"

=============================================================================
