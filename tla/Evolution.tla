----------------------------- MODULE Evolution ------------------------------
(***************************************************************************)
(* What cmd/migrate promises of a table that is in use, without versions,  *)
(* dirty flags, locks or processes: migrations follow one another, going   *)
(* up through all definitions in order or one definition back; jobs are    *)
(* inserted while there is a table and disappear with it, or by themselves *)
(* only under the last definition, which cascades.                         *)
(***************************************************************************)
EXTENDS Naturals

CONSTANTS Jobs, Last

VARIABLES
    level,    \* the definition the table has; 0: there is none
    work,     \* the migration under way: "up", "down", or "done" with its one step
    jobs      \* the rows

vars == <<level, work, jobs>>

Init == level = 0 /\ work = "none" /\ jobs = {}

Start ==
    /\ work = "none" /\ work' \in {"up", "down"}
    /\ UNCHANGED <<level, jobs>>

Up ==
    /\ work = "up" /\ level < Last /\ level' = level + 1
    /\ UNCHANGED <<work, jobs>>

Down ==
    /\ work = "down" /\ level > 0 /\ level' = level - 1
    /\ work' = "done"
    /\ jobs' = IF level = 1 THEN {} ELSE jobs

End == work # "none" /\ work' = "none" /\ UNCHANGED <<level, jobs>>

Insert(j) == level > 0 /\ jobs' = jobs \cup {j} /\ UNCHANGED <<level, work>>

Cascade == level = Last /\ jobs' \subseteq jobs /\ UNCHANGED <<level, work>>

Next == Start \/ Up \/ Down \/ End \/ (\E j \in Jobs : Insert(j)) \/ Cascade

Spec == Init /\ [][Next]_vars

=============================================================================
