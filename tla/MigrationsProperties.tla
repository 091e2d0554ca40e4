------------------------ MODULE MigrationsProperties ------------------------
(* What the migrations owe the program and those who run them.               *)
EXTENDS Migrations

TypeOK ==
    /\ version \in Versions /\ dirty \in BOOLEAN /\ schema \in Schemas
    /\ fileId \in [Jobs -> FileIds]
    /\ sourceTable \in BOOLEAN /\ videos \subseteq Videos /\ asked \subseteq Jobs
    /\ lock \in Processes \cup {NoProcess}
    /\ run \in [Processes -> Runs]

\* The definition of the table at a version.  002 down leaves a default that
\* 001 up does not give (002_async_upload.down.sql:4), so version 1 has two.
SchemaOf(v) ==
    {s \in Schemas :
        /\ s.table <=> v > 0
        /\ s.notNull <=> v = 1
        /\ s.default = "empty" => v = 1
        /\ s.fk = "restrict" <=> v = 3
        /\ s.fk = "cascade" <=> v = 4}

\* A clean version is the definition the table has, whoever died and whatever was
\* rolled back; a dirty one is at most one script away from it, so that setting
\* the version by hand to one of its neighbours, or to itself, is a repair.
VersionTellsSchema ==
    \/ schema \in SchemaOf(version)
    \/ dirty /\ \E v \in Versions : /\ v = version + 1 \/ version = v + 1
                                    /\ schema \in SchemaOf(v)

\* The id of an uploaded file is lost only with its row, and a row only with its
\* video or with the whole table: no script and no insert writes over it.
FileIdsKept ==
    [][\A j \in Jobs :
          fileId[j] = "file" /\ fileId'[j] # "file" =>
              /\ fileId'[j] = "absent"
              /\ VideoOf[j] \in videos \ videos' \/ ~schema'.table]_vars

\* Only two of the eight scripts can fail on what is in the database: 003 up where
\* nobody has made source_video, or on a job whose video is gone, and 002 down, for
\* all its backfill, on a job that was inserted behind it.
FailsForCause ==
    [][\A p \in Processes :
          run[p].pc # "failed" /\ run'[p].pc = "failed" =>
              \/ run[p].up /\ run[p].script = 3 /\ (~sourceTable \/ Orphans # {})
              \/ ~run[p].up /\ run[p].script = 2 /\ ~(Blank \subseteq run[p].seen)]_vars

\* The definition of the table; whether or not it has a default, see SchemaOf.
Level(s) ==
    CASE ~s.table -> 0
      [] s.table /\ s.notNull -> 1
      [] s.table /\ ~s.notNull /\ s.fk = "none" -> 2
      [] s.table /\ ~s.notNull /\ s.fk = "restrict" -> 3
      [] s.table /\ ~s.notNull /\ s.fk = "cascade" -> 4

\* The migration under way is that of the process with the lock.
Work ==
    CASE lock = NoProcess -> "none"
      [] lock # NoProcess /\ run[lock].up -> "up"
      [] lock # NoProcess /\ ~run[lock].up ->
            IF run[lock].pc = "applied" THEN "done" ELSE "down"

\* However many processes migrate up and down, and whoever of them dies, the table
\* that API and workers see changes as in Evolution.tla: one migration at a time,
\* script by script, main.go:96 to the end and main.go:107 by one; and jobs are
\* lost to a deleted video only once 004 has been applied.
Table == INSTANCE Evolution WITH level <- Level(schema), work <- Work, jobs <- Rows

ImplementsEvolution == Table!Spec

=============================================================================
