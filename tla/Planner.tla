------------------------------ MODULE Planner -------------------------------
(***************************************************************************)
(* planReembedding: the difference between a manifest and the scenes that  *)
(* are stored for a video, as a pure function.                             *)
(*                                                                         *)
(* A scene of a manifest has a time range and a soup: the text that        *)
(* BuildDenseContent makes of it, which is what is hashed and embedded.    *)
(* SHA-256 is taken to be injective, so a soup stands for its own hash and *)
(* for the content that is written with it; a vector stands for the soup   *)
(* it was computed from.  The name of a scene is not part of the text and  *)
(* is left out.                                                            *)
(***************************************************************************)
EXTENDS Naturals, Sequences

CONSTANTS
    Ranges,       \* time ranges of scenes, as pairs of floats
    Key,          \* the "%.3f:%.3f" text of each range: not injective
    Soups,
    Ids           \* ids of rows of video_scenes

ASSUME KeyAssumption == DOMAIN Key = Ranges

Scenes == [range : Ranges, soup : Soups]
Rows == [id : Ids, range : Ranges, soup : Soups, vector : Soups]

SceneKey(scene) == Key[scene.range]

IdsOf(rows) == {row.id : row \in rows}

\* buildSceneIndex: of several rows with one key the last one read wins, and
\* ORDER BY start_time leaves open which one that is.
Indexes(rows) ==
    {idx \in [{SceneKey(row) : row \in rows} -> rows] :
        \A k \in DOMAIN idx : SceneKey(idx[k]) = k}

\* The three cases of the loop over the manifest; a scene is named by its
\* position.
Found(scenes, idx) == {i \in DOMAIN scenes : SceneKey(scenes[i]) \in DOMAIN idx}

Existing(scenes, idx, i) == idx[SceneKey(scenes[i])]

ToUpdate(scenes, idx) ==
    {i \in Found(scenes, idx) : Existing(scenes, idx, i).soup # scenes[i].soup}

ToCreate(scenes, idx) == DOMAIN scenes \ Found(scenes, idx)

\* Seeded bug: unchanged scenes are not remembered as processed.
ProcessedOnlyUpdated(scenes, idx) ==
    {Existing(scenes, idx, i).id : i \in ToUpdate(scenes, idx)}

Processed(scenes, idx) == {Existing(scenes, idx, i).id : i \in Found(scenes, idx)}

\* update gives the row to overwrite for each position to update.
PlanReembedding(scenes, rows, idx) ==
    [create |-> ToCreate(scenes, idx),
     update |-> [i \in ToUpdate(scenes, idx) |-> Existing(scenes, idx, i).id],
     delete |-> IdsOf(rows) \ Processed(scenes, idx)]

=============================================================================
