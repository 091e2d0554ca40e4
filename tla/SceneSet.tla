------------------------------ MODULE SceneSet ------------------------------
(***************************************************************************)
(* What embedding promises about the scenes of one video: they are         *)
(* replaced as a whole, by the scenes of one manifest.  While several runs *)
(* are at it each may leave some scenes of the others, but brings none     *)
(* that is not of its own manifest.                                        *)
(***************************************************************************)
CONSTANTS
    Before,       \* what a table may hold to begin with: sets of (key, soup)
    Whole         \* the sets that are the scenes of a manifest

VARIABLES
    contents,
    crowded       \* some run at work has been overlapped by another

Init == contents \in Before

Replace == contents' \in Whole

Mix == crowded /\ \E scenes \in Whole : contents' \subseteq contents \cup scenes

Spec == Init /\ [][Replace \/ Mix]_contents

=============================================================================
