----------------------------- MODULE MCAnalysis -----------------------------
(* TLC instance of the conversation with the model.                          *)
EXTENDS AnalysisProperties

Scene(start, end, blank) == [start |-> start, end |-> end, blank |-> blank]
Video(blank, duration, scenes) == [blank |-> blank, duration |-> duration, scenes |-> scenes]

\* Two answers that are fine, one of them with its scenes out of order, and one
\* for each check, at the boundary where it has one.
MCMetadata ==
    {Video({}, 4, <<Scene(0, 2, {})>>),
     Video({}, 4, <<Scene(2, 4, {}), Scene(0, 2, {})>>),
     Video({"global_keywords"}, 4, <<Scene(0, 4, {})>>),
     Video({}, 0, <<Scene(0, 1, {})>>),
     Video({}, 4, <<>>),
     Video({}, 4, <<Scene(-1, 2, {"name"})>>),
     Video({}, 4, <<Scene(2, 2, {}), Scene(2, 5, {})>>),
     Video({}, 4, <<Scene(0, 1, {})>>)}

=============================================================================
