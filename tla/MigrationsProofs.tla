-------------------------- MODULE MigrationsProofs --------------------------
(***************************************************************************)
(* The safety properties of the migrations, for any number of processes,   *)
(* jobs and videos.                                                        *)
(*                                                                         *)
(* A dirty version alone does not say on which side of it the table is.    *)
(* What the process with the lock has done so far does, and one process    *)
(* has the lock.                                                           *)
(***************************************************************************)
EXTENDS MigrationsProperties, TLAPS

Working(p) == run[p].pc \in {"locked", "marked", "backfilled", "applied"}

\* The version a script starts from.
Source(r) == IF r.up THEN r.script - 1 ELSE r.script

\* The process with the lock knows the table, although the version is dirty.
Follows(r, v, isDirty, s) ==
    /\ r.script \in 1 .. Last
    /\ r.pc = "locked" => ~isDirty /\ v = Source(r) /\ s \in SchemaOf(v)
    /\ r.pc \in {"marked", "backfilled"} =>
          isDirty /\ v = Target(r) /\ s \in SchemaOf(Source(r))
    /\ r.pc = "applied" => isDirty /\ v = Target(r) /\ s \in SchemaOf(v)

LockHeld == \A p \in Processes : Working(p) <=> lock = p
LockKnows == \A p \in Processes : Working(p) => Follows(run[p], version, dirty, schema)

\* Only an open backfill locks rows, and these are still to be filled.
SeenIsBlank ==
    \A p \in Processes :
        /\ run[p].seen # {} => run[p].pc = "backfilled"
        /\ run[p].pc = "backfilled" => IsBackfill(run[p])
        /\ \A j \in run[p].seen : fileId[j] = "null"

AskedAreNew == \A j \in asked : fileId[j] = "absent"
NoOrphans == schema.fk # "none" => sourceTable /\ Orphans = {}

Inv ==
    /\ TypeOK
    /\ VersionTellsSchema
    /\ LockHeld
    /\ LockKnows
    /\ SeenIsBlank
    /\ AskedAreNew
    /\ NoOrphans

-----------------------------------------------------------------------------
(* The scripts as steps between versions *)

\* What the table of a version looks like.
LEMMA SchemaFacts ==
    ASSUME NEW v \in Versions, NEW s \in SchemaOf(v)
    PROVE  /\ s \in Schemas
           /\ v > 0 <=> s.table
           /\ v < 3 <=> s.fk = "none"
           /\ v = 1 <=> s.notNull
           /\ v # 1 => s.default = "null"
BY DEF SchemaOf, Schemas, Versions, Last

LEMMA NoTableIsSchema == NoTable \in SchemaOf(0)
BY DEF NoTable, SchemaOf, Schemas

\* Each up script makes the table of its version from that of the one before.
LEMMA UpLeadsOn ==
    ASSUME NEW n \in 1 .. Last, NEW s \in SchemaOf(n - 1)
    PROVE  AfterUp(n, s) \in SchemaOf(n)
<1>0. s \in Schemas
  BY DEF SchemaOf
<1>1. CASE n = 1
  <2> DEFINE t == NewTable
  <2>1. t \in Schemas
    BY DEF NewTable, Schemas
  <2>2. t.table /\ t.notNull /\ t.default = "null" /\ t.fk = "none"
    BY DEF NewTable
  <2>3. ~s.table
    BY <1>1, SchemaFacts DEF Versions, Last
  <2>4. AfterUp(n, s) = t
    BY <1>1, <2>3 DEF AfterUp, InitUp
  <2> HIDE DEF t
  <2>5. t \in SchemaOf(1)
    BY <2>1, <2>2 DEF SchemaOf
  <2> QED  BY <1>1, <2>4, <2>5
<1>2. CASE n = 2
  <2> DEFINE t == [s EXCEPT !.notNull = FALSE, !.default = "null"]
  <2>1. AfterUp(n, s) = t
    BY <1>2 DEF AfterUp, AsyncUploadUp
  <2>2. s.table /\ s.fk = "none"
    BY <1>2, SchemaFacts DEF Versions, Last
  <2>3. t \in Schemas /\ t.table = s.table /\ t.fk = s.fk /\ ~t.notNull /\ t.default = "null"
    BY <1>0 DEF Schemas
  <2> HIDE DEF t
  <2>4. t.table
    BY <2>2, <2>3
  <2>5. t \in SchemaOf(2)
    BY <2>2, <2>3, <2>4 DEF SchemaOf
  <2> QED  BY <1>2, <2>1, <2>5
<1>3. CASE n = 3
  BY <1>3 DEF AfterUp, FkSourceVideoUp, SchemaOf, Schemas
<1>4. CASE n = 4
  BY <1>4 DEF AfterUp, CascadeDeleteUp, SchemaOf, Schemas
<1> QED  BY <1>1, <1>2, <1>3, <1>4 DEF Last

\* Each down script makes the table of the version before.
LEMMA DownLeadsBack ==
    ASSUME NEW n \in 1 .. Last, NEW s \in SchemaOf(n)
    PROVE  AfterDown(n, s) \in SchemaOf(n - 1)
<1>0. s \in Schemas
  BY DEF SchemaOf
<1>1. CASE n = 1
  BY <1>1, NoTableIsSchema DEF AfterDown, InitDown
<1>2. CASE n = 2
  <2> DEFINE t == [s EXCEPT !.notNull = TRUE, !.default = "empty"]
  <2>1. AfterDown(n, s) = t
    BY <1>2 DEF AfterDown, AsyncUploadDown
  <2>2. s.table /\ s.fk = "none"
    BY <1>2, SchemaFacts DEF Versions, Last
  <2>3. t \in Schemas /\ t.table = s.table /\ t.fk = s.fk /\ t.notNull
    BY <1>0 DEF Schemas
  <2> HIDE DEF t
  <2>4. t.table
    BY <2>2, <2>3
  <2>5. t \in SchemaOf(1)
    BY <2>2, <2>3, <2>4 DEF SchemaOf
  <2> QED  BY <1>2, <2>1, <2>5
<1>3. CASE n = 3
  BY <1>3 DEF AfterDown, FkSourceVideoDown, SchemaOf, Schemas
<1>4. CASE n = 4
  BY <1>4 DEF AfterDown, CascadeDeleteDown, SchemaOf, Schemas
<1> QED  BY <1>1, <1>2, <1>3, <1>4 DEF Last

\* A script leads from one version to a neighbour.
LEMMA ScriptFacts ==
    ASSUME NEW r \in Runs, r.script \in 1 .. Last
    PROVE  /\ Source(r) \in Versions /\ Target(r) \in Versions
           /\ Source(r) = Target(r) + 1 \/ Target(r) = Source(r) + 1
BY DEF Runs, Source, Target, Versions, Last

-----------------------------------------------------------------------------
(* The invariant *)

\* What a process does in each of its steps.
LEMMA RunTypes ==
    ASSUME NEW r \in Runs, NEW pc \in Pcs
    PROVE  /\ [r EXCEPT !.pc = pc] \in Runs
           /\ \A n \in Versions : [r EXCEPT !.pc = pc, !.script = n] \in Runs
           /\ \A jobs \in SUBSET Jobs : [r EXCEPT !.pc = pc, !.seen = jobs] \in Runs
BY DEF Runs

LEMMA IdleTypes ==
    /\ Idle \in Runs
    /\ \A pc \in Pcs : [Idle EXCEPT !.pc = pc] \in Runs
    /\ \A up \in BOOLEAN, n \in Versions :
          [Idle EXCEPT !.pc = "locked", !.up = up, !.script = n] \in Runs
<1>1. Idle \in Runs
  BY DEF Idle, Runs, Pcs, Versions, Last
<1>2. "locked" \in Pcs
  BY DEF Pcs
<1> QED  BY <1>1, <1>2 DEF Runs

LEMMA Initial == Init => Inv
<1> SUFFICES ASSUME Init PROVE Inv  OBVIOUS
<1>1. TypeOK
  <2>1. version \in Versions /\ dirty \in BOOLEAN /\ schema \in Schemas
    <3>1. NoTable \in Schemas
      BY NoTableIsSchema DEF SchemaOf
    <3>2. version \in Versions
      BY DEF Init, Versions, Last
    <3>3. dirty \in BOOLEAN
      BY DEF Init
    <3>4. schema \in Schemas
      BY <3>1 DEF Init
    <3> QED  BY <3>2, <3>3, <3>4
  <2>2. /\ fileId \in [Jobs -> FileIds] /\ asked \subseteq Jobs
        /\ sourceTable \in BOOLEAN /\ videos \subseteq Videos
    BY DEF Init, FileIds
  <2>3. lock \in Processes \cup {NoProcess} /\ run \in [Processes -> Runs]
    BY IdleTypes DEF Init
  <2> QED  BY <2>1, <2>2, <2>3 DEF TypeOK
<1>2. VersionTellsSchema
  BY NoTableIsSchema DEF Init, VersionTellsSchema
<1>3. LockHeld /\ LockKnows /\ SeenIsBlank
  BY ProcessesAssumption DEF Init, LockHeld, LockKnows, SeenIsBlank, Working, Idle
<1>4. AskedAreNew /\ NoOrphans
  BY DEF Init, AskedAreNew, NoOrphans, NoTable
<1> QED  BY <1>1, <1>2, <1>3, <1>4 DEF Inv

\* A step of p that leaves the database alone to the others: nobody else works.
LEMMA OnlyOneWorks ==
    ASSUME Inv, NEW p \in Processes, lock \in {p, NoProcess}
    PROVE  \A q \in Processes \ {p} : ~Working(q) /\ run[q].seen = {}
<1>1. \A q \in Processes \ {p} : ~Working(q)
  BY ProcessesAssumption DEF Inv, LockHeld
<1> QED  BY <1>1 DEF Inv, SeenIsBlank, Working

LEMMA ProcessStep ==
    ASSUME Inv, NEW p \in Processes, lock \in {p, NoProcess},
           NEW r \in Runs, run' = [run EXCEPT ![p] = r],
           lock' = IF r.pc \in {"locked", "marked", "backfilled", "applied"}
                   THEN p ELSE NoProcess,
           lock' = p => Follows(r, version', dirty', schema'),
           r.seen # {} => r.pc = "backfilled",
           r.pc = "backfilled" => IsBackfill(r),
           \A j \in r.seen : fileId'[j] = "null"
    PROVE  LockHeld' /\ LockKnows' /\ SeenIsBlank'
<1>1. \A q \in Processes : run'[q] = IF q = p THEN r ELSE run[q]
  BY DEF Inv, TypeOK
<1>2. \A q \in Processes \ {p} : ~Working(q)' /\ run'[q].seen = {}
  BY <1>1, OnlyOneWorks DEF Working
<1>3. LockHeld'
  BY <1>1, <1>2, ProcessesAssumption DEF LockHeld, Working
<1>4. LockKnows'
  BY <1>1, <1>2, ProcessesAssumption DEF LockKnows, Working
<1>5. SeenIsBlank'
  BY <1>1, <1>2 DEF SeenIsBlank, Working
<1> QED  BY <1>3, <1>4, <1>5

-----------------------------------------------------------------------------
(* Each step *)

LEMMA UpOrDownStep ==
    ASSUME Inv, NEW p \in Processes, NEW up \in BOOLEAN, UpOrDown(p, up)
    PROVE  Inv'
<1> DEFINE n == IF up THEN version + 1 ELSE version
           r == [Idle EXCEPT !.pc = "locked", !.up = up, !.script = n]
<1>1. n \in 1 .. Last
  BY DEF UpOrDown, Inv, TypeOK, Versions, Last
<1>2. r \in Runs
  <2>1. n \in Versions
    BY <1>1 DEF Versions, Last
  <2> HIDE DEF n
  <2> QED  BY <2>1, IdleTypes
<1>3. r.pc = "locked" /\ r.up = up /\ r.script = n /\ r.seen = {}
  BY DEF Idle
<1>4. run' = [run EXCEPT ![p] = r] /\ lock' = p /\ lock = NoProcess
  BY DEF UpOrDown
<1>5. /\ ~dirty
      /\ UNCHANGED <<version, dirty, schema, fileId, videos, asked, sourceTable>>
  BY DEF UpOrDown, appVars
<1>6. Source(r) = version
  BY <1>1, <1>3 DEF Source, Inv, TypeOK, Versions
<1> HIDE DEF r, n
<1>7. schema \in SchemaOf(version)
  BY <1>5 DEF Inv, VersionTellsSchema
<1>8. Follows(r, version', dirty', schema')
  BY <1>1, <1>3, <1>5, <1>6, <1>7 DEF Follows, Source
<1>9. TypeOK'
  BY <1>2, <1>4, <1>5 DEF Inv, TypeOK
<1>10. LockHeld' /\ LockKnows' /\ SeenIsBlank'
  BY <1>2, <1>3, <1>4, <1>5, <1>8, ProcessStep
<1>11. VersionTellsSchema' /\ AskedAreNew' /\ NoOrphans'
  BY <1>5 DEF Inv, VersionTellsSchema, AskedAreNew, NoOrphans, Orphans, Rows
<1> QED  BY <1>9, <1>10, <1>11 DEF Inv

\* What is known when the process with the lock makes a step.
LEMMA AtWork ==
    ASSUME Inv, NEW p \in Processes, Working(p)
    PROVE  /\ lock = p /\ run[p] \in Runs
           /\ Follows(run[p], version, dirty, schema) /\ run[p].script \in 1 .. Last
           /\ Source(run[p]) \in Versions /\ Target(run[p]) \in Versions
           /\ Source(run[p]) = Target(run[p]) + 1 \/ Target(run[p]) = Source(run[p]) + 1
<1>1. lock = p /\ run[p] \in Runs /\ Follows(run[p], version, dirty, schema)
  BY DEF Inv, LockHeld, LockKnows, TypeOK
<1>2. run[p].script \in 1 .. Last
  BY <1>1 DEF Follows
<1> QED  BY <1>1, <1>2, ScriptFacts

LEMMA SetDirtyStep ==
    ASSUME Inv, NEW p \in Processes, SetDirty(p)
    PROVE  Inv'
<1> DEFINE r == [run[p] EXCEPT !.pc = "marked"]
<1>1. run[p].pc = "locked" /\ Working(p)
  BY DEF SetDirty, Working
<1>2. r \in Runs
  BY <1>1, AtWork, RunTypes DEF Pcs
<1>3. /\ r.pc = "marked" /\ r.seen = {}
      /\ r.up = run[p].up /\ r.script = run[p].script
  BY <1>1, AtWork DEF Runs, Inv, SeenIsBlank
<1>4. run' = [run EXCEPT ![p] = r] /\ lock' = p /\ lock = p
  BY <1>1, AtWork DEF SetDirty
<1>5. /\ version' = Target(run[p]) /\ dirty'
      /\ UNCHANGED <<schema, fileId, videos, asked, sourceTable>>
  BY DEF SetDirty, appVars
<1> HIDE DEF r
<1>6. Target(r) = Target(run[p]) /\ Source(r) = Source(run[p])
  BY <1>3 DEF Target, Source
<1>7. schema \in SchemaOf(Source(run[p]))
  BY <1>1, AtWork DEF Follows
<1>8. Follows(r, version', dirty', schema')
  BY <1>1, <1>3, <1>5, <1>6, <1>7, AtWork DEF Follows, Source, Target
<1>9. TypeOK'
  BY <1>1, <1>2, <1>4, <1>5, AtWork DEF Inv, TypeOK
<1>10. LockHeld' /\ LockKnows' /\ SeenIsBlank'
  BY <1>2, <1>3, <1>4, <1>5, <1>8, ProcessStep
<1>11. VersionTellsSchema'
  BY <1>1, <1>5, <1>7, AtWork DEF VersionTellsSchema
<1>12. AskedAreNew' /\ NoOrphans'
  BY <1>5 DEF Inv, AskedAreNew, NoOrphans, Orphans, Rows
<1> QED  BY <1>9, <1>10, <1>11, <1>12 DEF Inv

LEMMA BackfillStep ==
    ASSUME Inv, NEW p \in Processes, Backfill(p)
    PROVE  Inv'
<1> DEFINE r == [run[p] EXCEPT !.pc = "backfilled", !.seen = Blank]
<1>1. run[p].pc = "marked" /\ Working(p) /\ IsBackfill(run[p])
  BY DEF Backfill, Working
<1>2. r \in Runs
  BY <1>1, AtWork, RunTypes DEF Pcs, Blank
<1>3. /\ r.pc = "backfilled" /\ r.seen = Blank
      /\ r.up = run[p].up /\ r.script = run[p].script
  BY <1>1, AtWork DEF Runs
<1>4. run' = [run EXCEPT ![p] = r] /\ lock' = p /\ lock = p
  BY <1>1, AtWork DEF Backfill
<1>5. UNCHANGED <<version, dirty, schema, fileId, videos, asked, sourceTable>>
  BY DEF Backfill, appVars
<1> HIDE DEF r
<1>6. Target(r) = Target(run[p]) /\ Source(r) = Source(run[p]) /\ IsBackfill(r)
  BY <1>1, <1>3 DEF Target, Source, IsBackfill
<1>7. Follows(r, version', dirty', schema')
  BY <1>1, <1>3, <1>5, <1>6, AtWork DEF Follows, Source, Target
<1>8. TypeOK'
  BY <1>2, <1>4, <1>5 DEF Inv, TypeOK
<1>9. \A j \in r.seen : fileId'[j] = "null"
  BY <1>3, <1>5 DEF Blank
<1>10. LockHeld' /\ LockKnows' /\ SeenIsBlank'
  BY <1>2, <1>3, <1>4, <1>6, <1>7, <1>9, ProcessStep
<1>11. VersionTellsSchema' /\ AskedAreNew' /\ NoOrphans'
  BY <1>5 DEF Inv, VersionTellsSchema, AskedAreNew, NoOrphans, Orphans, Rows
<1> QED  BY <1>8, <1>10, <1>11 DEF Inv

\* What a transaction that is about to commit can count on.
LEMMA AtCommitFacts ==
    ASSUME Inv, NEW p \in Processes, AtCommit(run[p])
    PROVE  /\ Working(p) /\ dirty /\ version = Target(run[p])
           /\ schema \in SchemaOf(Source(run[p]))
           /\ run[p].seen # {} => ~run[p].up /\ run[p].script = 2
<1>1. Working(p) /\ run[p].pc \in {"marked", "backfilled"}
  BY DEF AtCommit, Working
<1>2. run[p].seen # {} => IsBackfill(run[p])
  BY DEF Inv, SeenIsBlank
<1> QED  BY <1>1, <1>2, AtWork DEF Follows, IsBackfill

\* A script that succeeds leaves the table of its target.
LEMMA AfterIsTarget ==
    ASSUME Inv, NEW p \in Processes, AtCommit(run[p])
    PROVE  After(run[p]) \in SchemaOf(Target(run[p]))
<1>1. run[p].script \in 1 .. Last /\ schema \in SchemaOf(Source(run[p]))
  BY AtCommitFacts, AtWork
<1>2. CASE run[p].up
  <2>1. schema \in SchemaOf(run[p].script - 1)
    BY <1>1, <1>2 DEF Source
  <2> QED  BY <1>1, <1>2, <2>1, UpLeadsOn DEF After, Target
<1>3. CASE ~run[p].up
  <2>1. schema \in SchemaOf(run[p].script)
    BY <1>1, <1>3 DEF Source
  <2> QED  BY <1>1, <1>3, <2>1, DownLeadsBack DEF After, Target
<1> QED  BY <1>2, <1>3

\* A constraint that a script adds has been checked; one it keeps holds already.
LEMMA CommitKeepsForeignKey ==
    ASSUME Inv, NEW p \in Processes, Apply(p)
    PROVE  NoOrphans'
<1> DEFINE r == run[p]
<1>1. /\ Working(p) /\ r.script \in 1 .. Last
      /\ After(r) \in SchemaOf(Target(r)) /\ schema \in SchemaOf(Source(r))
      /\ Target(r) \in Versions /\ Source(r) \in Versions
  BY AtCommitFacts, AtWork, AfterIsTarget DEF Apply
<1>2. schema' = After(r) /\ fileId' = FileIdsAfter(r) /\ UNCHANGED <<sourceTable, videos>>
  BY DEF Apply
<1>3. \A j \in Jobs : fileId'[j] # "absent" => fileId[j] # "absent"
  <2>1. \A j \in r.seen : fileId[j] = "null"
    BY DEF Inv, SeenIsBlank
  <2> QED  BY <1>2, <2>1 DEF FileIdsAfter
<1>4. Orphans = {} => Orphans' = {}
  BY <1>2, <1>3 DEF Orphans, Rows
<1>5. schema'.fk # "none" => sourceTable /\ Orphans = {}
  <2>1. schema'.fk # "none" => Target(r) > 2
    BY <1>1, <1>2, SchemaFacts DEF Versions, Last
  <2>2. schema.fk = "none" => Source(r) < 3
    BY <1>1, SchemaFacts DEF Versions, Last
  <2>3. Succeeds(r)
    BY DEF Apply
  <2>4. CASE r.up /\ r.script \in {3, 4}
    BY <2>3, <2>4 DEF Succeeds, UpSucceeds
  <2>5. CASE r.up /\ r.script \notin {3, 4}
    BY <1>1, <2>1, <2>5 DEF Target, Last
  <2>6. CASE ~r.up /\ r.script = 4
    BY <2>3, <2>6 DEF Succeeds, DownSucceeds
  <2>7. CASE ~r.up /\ r.script # 4
    BY <1>1, <2>1, <2>7 DEF Target, Last
  <2> QED  BY <2>4, <2>5, <2>6, <2>7
<1> QED  BY <1>2, <1>4, <1>5 DEF NoOrphans

LEMMA ApplyStep ==
    ASSUME Inv, NEW p \in Processes, Apply(p)
    PROVE  Inv'
<1> DEFINE r == [run[p] EXCEPT !.pc = "applied", !.seen = {}]
<1>1. AtCommit(run[p]) /\ Working(p)
  BY AtCommitFacts DEF Apply
<1>2. r \in Runs
  BY <1>1, AtWork, RunTypes DEF Pcs
<1>3. /\ r.pc = "applied" /\ r.seen = {}
      /\ r.up = run[p].up /\ r.script = run[p].script
  BY <1>1, AtWork DEF Runs
<1>4. run' = [run EXCEPT ![p] = r] /\ lock' = p /\ lock = p
  BY <1>1, AtWork DEF Apply
<1>5. /\ schema' = After(run[p]) /\ fileId' = FileIdsAfter(run[p])
      /\ UNCHANGED <<version, dirty, videos, asked, sourceTable>>
  BY DEF Apply
<1> HIDE DEF r
<1>6. Target(r) = Target(run[p])
  BY <1>3 DEF Target
<1>7. dirty /\ version = Target(run[p]) /\ schema' \in SchemaOf(version')
  BY <1>1, <1>5, AtCommitFacts, AfterIsTarget
<1>8. Follows(r, version', dirty', schema')
  BY <1>1, <1>3, <1>5, <1>6, <1>7, AtWork DEF Follows
<1>9. TypeOK'
  <2>1. fileId' \in [Jobs -> FileIds]
    BY <1>5 DEF FileIdsAfter, FileIds, Inv, TypeOK
  <2>2. schema' \in Schemas
    BY <1>7 DEF SchemaOf
  <2> QED  BY <1>2, <1>4, <1>5, <2>1, <2>2 DEF Inv, TypeOK
<1>10. LockHeld' /\ LockKnows' /\ SeenIsBlank'
  BY <1>2, <1>3, <1>4, <1>8, ProcessStep
<1>11. VersionTellsSchema'
  BY <1>7 DEF VersionTellsSchema
<1>12. AskedAreNew'
  <2>1. \A j \in run[p].seen : fileId[j] = "null"
    BY DEF Inv, SeenIsBlank
  <2> QED  BY <1>5, <2>1 DEF FileIdsAfter, AskedAreNew, Inv, TypeOK
<1> QED  BY <1>9, <1>10, <1>11, <1>12, CommitKeepsForeignKey DEF Inv

LEMMA SetCleanStep ==
    ASSUME Inv, NEW p \in Processes, SetClean(p)
    PROVE  Inv'
<1>1. run[p].pc = "applied" /\ Working(p)
  BY DEF SetClean, Working
<1>2. dirty' = FALSE /\ UNCHANGED <<version, schema, fileId, videos, asked, sourceTable>>
  BY DEF SetClean, appVars
<1>3. version = Target(run[p]) /\ schema \in SchemaOf(version)
  BY <1>1, AtWork DEF Follows
<1>4. VersionTellsSchema' /\ AskedAreNew' /\ NoOrphans'
  BY <1>2, <1>3 DEF Inv, VersionTellsSchema, AskedAreNew, NoOrphans, Orphans, Rows
<1>5. CASE run[p].up /\ run[p].script < Last
  <2> DEFINE r == [run[p] EXCEPT !.pc = "locked", !.script = @ + 1]
  <2>1. run[p].script + 1 \in Versions
    BY <1>1, <1>5, AtWork DEF Versions, Last
  <2>2. r \in Runs
    BY <1>1, <2>1, AtWork, RunTypes DEF Pcs
  <2>3. /\ r.pc = "locked" /\ r.seen = {}
        /\ r.up = run[p].up /\ r.script = run[p].script + 1
    BY <1>1, AtWork DEF Runs, Inv, SeenIsBlank
  <2>4. run' = [run EXCEPT ![p] = r] /\ lock' = p /\ lock = p
    BY <1>1, <1>5, AtWork DEF SetClean
  <2> HIDE DEF r
  <2>5. Source(r) = version /\ r.script \in 1 .. Last
    BY <1>1, <1>3, <1>5, <2>3, AtWork DEF Source, Target, Last
  <2>6. Follows(r, version', dirty', schema')
    BY <1>2, <1>3, <2>3, <2>5 DEF Follows
  <2>7. TypeOK'
    BY <1>2, <2>2, <2>4 DEF Inv, TypeOK
  <2>8. LockHeld' /\ LockKnows' /\ SeenIsBlank'
    BY <2>2, <2>3, <2>4, <2>6, ProcessStep
  <2> QED  BY <1>4, <2>7, <2>8 DEF Inv
<1>6. CASE ~(run[p].up /\ run[p].script < Last)
  <2>1. run' = [run EXCEPT ![p] = Idle] /\ lock' = NoProcess /\ lock = p
    BY <1>1, <1>6, AtWork DEF SetClean
  <2>2. Idle \in Runs /\ Idle.pc = "idle" /\ Idle.seen = {}
    BY IdleTypes DEF Idle
  <2> HIDE DEF Idle
  <2>3. TypeOK'
    BY <1>2, <2>1, <2>2 DEF Inv, TypeOK
  <2>4. LockHeld' /\ LockKnows' /\ SeenIsBlank'
    BY <2>1, <2>2, ProcessStep, ProcessesAssumption
  <2> QED  BY <1>4, <2>3, <2>4 DEF Inv
<1> QED  BY <1>5, <1>6

\* A process that ends, by a script that fails or by force, leaves a dirty
\* version behind if it has begun a script.
LEMMA EndStep ==
    ASSUME Inv, NEW p \in Processes, Working(p),
           NEW r \in Runs, r.pc \in {"idle", "failed"}, r.seen = {},
           run' = [run EXCEPT ![p] = r], lock' = NoProcess,
           UNCHANGED <<version, dirty, schema, fileId, videos, asked, sourceTable>>
    PROVE  Inv'
<1>1. lock = p
  BY AtWork
<1>2. TypeOK'
  BY DEF Inv, TypeOK
<1>3. LockHeld' /\ LockKnows' /\ SeenIsBlank'
  BY <1>1, ProcessStep, ProcessesAssumption
<1>4. VersionTellsSchema' /\ AskedAreNew' /\ NoOrphans'
  BY DEF Inv, VersionTellsSchema, AskedAreNew, NoOrphans, Orphans, Rows
<1> QED  BY <1>2, <1>3, <1>4 DEF Inv

LEMMA FailStep ==
    ASSUME Inv, NEW p \in Processes, Fail(p)
    PROVE  Inv'
<1> DEFINE r == [Idle EXCEPT !.pc = "failed"]
<1>1. Working(p)
  BY AtCommitFacts DEF Fail
<1>2. r \in Runs
  BY IdleTypes DEF Pcs
<1>3. r.pc = "failed" /\ r.seen = {}
  BY DEF Idle
<1>4. /\ run' = [run EXCEPT ![p] = r] /\ lock' = NoProcess
      /\ UNCHANGED <<version, dirty, schema, fileId, videos, asked, sourceTable>>
  BY DEF Fail, appVars
<1> HIDE DEF r
<1> QED  BY <1>1, <1>2, <1>3, <1>4, EndStep

LEMMA AbortStep ==
    ASSUME Inv, NEW p \in Processes, Abort(p)
    PROVE  Inv'
<1>1. Working(p)
  BY DEF Abort, Inv, LockHeld
<1>2. Idle \in Runs /\ Idle.pc = "idle" /\ Idle.seen = {}
  BY IdleTypes DEF Idle
<1>3. /\ run' = [run EXCEPT ![p] = Idle] /\ lock' = NoProcess
      /\ UNCHANGED <<version, dirty, schema, fileId, videos, asked, sourceTable>>
  BY DEF Abort, appVars
<1> QED  BY <1>1, <1>2, <1>3, EndStep

-----------------------------------------------------------------------------
(* The program's steps *)

\* What a statement of the program must not break.
Undisturbed ==
    /\ fileId' \in [Jobs -> FileIds] /\ asked' \subseteq Jobs
    /\ sourceTable' \in BOOLEAN /\ videos' \subseteq Videos
    /\ \A p \in Processes : \A j \in run[p].seen : fileId'[j] = "null"
    /\ AskedAreNew'
    /\ NoOrphans'

LEMMA InsertUndisturbing ==
    ASSUME Inv, NEW j \in Jobs, CreatePendingJob(j)
    PROVE  Undisturbed
<1>1. j \in asked /\ fileId[j] = "absent" /\ asked' = asked \ {j}
  BY DEF CreatePendingJob, Inv, AskedAreNew
<1>2. UNCHANGED <<version, dirty, schema, sourceTable, videos, lock, run>>
  BY DEF CreatePendingJob
<1>3. \A p \in Processes : \A k \in run[p].seen : k # j /\ k \in Jobs
  BY <1>1 DEF Inv, SeenIsBlank, TypeOK, Runs
<1>4. CASE Inserts(j)
  <2>1. fileId' = [fileId EXCEPT ![j] = schema.default]
    BY <1>4 DEF CreatePendingJob
  <2>2. schema.default \in {"null", "empty"}
    BY DEF Inv, TypeOK, Schemas
  <2>3. fileId' \in [Jobs -> FileIds] /\ \A k \in Jobs \ {j} : fileId'[k] = fileId[k]
    BY <2>1, <2>2 DEF Inv, TypeOK, FileIds
  <2>4. schema.fk # "none" => VideoOf[j] \in videos
    BY <1>4 DEF Inserts
  <2>5. NoOrphans'
    BY <1>2, <2>3, <2>4 DEF NoOrphans, Orphans, Rows, Inv
  <2> QED  BY <1>1, <1>2, <1>3, <2>3, <2>5 DEF Undisturbed, AskedAreNew, SeenIsBlank, Inv, TypeOK
<1>5. CASE ~Inserts(j)
  <2>1. UNCHANGED fileId
    BY <1>5 DEF CreatePendingJob
  <2> QED  BY <1>1, <1>2, <2>1 DEF Undisturbed, AskedAreNew, SeenIsBlank, NoOrphans, Orphans,
                                   Rows, Inv, TypeOK
<1> QED  BY <1>4, <1>5

LEMMA UploadUndisturbing ==
    ASSUME Inv, NEW j \in Jobs, UpdateJobAfterUpload(j)
    PROVE  Undisturbed
<1>1. /\ fileId[j] # "absent" /\ \A p \in Processes : j \notin run[p].seen
      /\ fileId' = [fileId EXCEPT ![j] = "file"]
      /\ UNCHANGED <<version, dirty, schema, sourceTable, videos, asked, lock, run>>
  BY DEF UpdateJobAfterUpload, Rows
<1>2. fileId' \in [Jobs -> FileIds] /\ \A k \in Jobs \ {j} : fileId'[k] = fileId[k]
  BY <1>1 DEF Inv, TypeOK, FileIds
<1>3. \A p \in Processes : run[p].seen \subseteq Jobs \ {j}
  BY <1>1 DEF Inv, TypeOK, Runs
<1>4. j \notin asked
  BY <1>1 DEF Inv, AskedAreNew
<1>5. NoOrphans'
  BY <1>1, <1>2 DEF NoOrphans, Orphans, Rows, Inv
<1> QED  BY <1>1, <1>2, <1>3, <1>4, <1>5 DEF Undisturbed, AskedAreNew, SeenIsBlank, Inv, TypeOK

\* While a backfill is open there is no constraint that could delete its rows.
LEMMA DeleteUndisturbing ==
    ASSUME Inv, NEW v \in Videos, DeleteVideo(v)
    PROVE  Undisturbed
<1> DEFINE its == {j \in Rows : VideoOf[j] = v}
<1>1. /\ schema.fk = "restrict" => its = {}
      /\ videos' = videos \ {v}
      /\ fileId' = [j \in Jobs |-> IF schema.fk = "cascade" /\ j \in its
                                   THEN "absent" ELSE fileId[j]]
      /\ UNCHANGED <<version, dirty, schema, sourceTable, asked, lock, run>>
  BY DEF DeleteVideo
<1>2. schema.fk \in {"none", "restrict", "cascade"}
  BY DEF Inv, TypeOK, Schemas
<1>3. fileId' \in [Jobs -> FileIds]
  BY <1>1 DEF Inv, TypeOK, FileIds
<1>4. \A p \in Processes : \A j \in run[p].seen : fileId'[j] = "null"
  <2> SUFFICES ASSUME NEW p \in Processes, NEW j \in run[p].seen PROVE fileId'[j] = "null"
    OBVIOUS
  <2>1. run[p].pc = "backfilled" /\ IsBackfill(run[p]) /\ fileId[j] = "null"
    BY DEF Inv, SeenIsBlank
  <2>2. AtCommit(run[p]) /\ run[p].script = 2 /\ ~run[p].up
    BY <2>1 DEF AtCommit, IsBackfill
  <2>3. schema \in SchemaOf(2)
    BY <2>2, AtCommitFacts DEF Source
  <2>4. schema.fk = "none"
    BY <2>3, SchemaFacts DEF Versions, Last
  <2>5. j \in Jobs
    BY DEF Inv, TypeOK, Runs
  <2> QED  BY <1>1, <2>1, <2>4, <2>5
<1>5. AskedAreNew'
  BY <1>1 DEF Inv, TypeOK, AskedAreNew
<1>6. NoOrphans'
  <2> SUFFICES ASSUME schema.fk # "none", NEW j \in Jobs, fileId'[j] # "absent",
                      VideoOf[j] \notin videos'
               PROVE  FALSE
    BY <1>1 DEF NoOrphans, Orphans, Rows, Inv
  <2>1. j \in Rows
    BY <1>1 DEF Rows
  <2>2. VideoOf[j] \in videos
    BY <2>1 DEF Inv, NoOrphans, Orphans
  <2>3. j \in its
    BY <1>1, <2>1, <2>2
  <2> QED  BY <1>1, <1>2, <2>3
<1> QED  BY <1>1, <1>3, <1>4, <1>5, <1>6 DEF Undisturbed, Inv, TypeOK

\* No statement of the program disturbs what the processes know.
LEMMA ProgramStep ==
    ASSUME Inv, Program
    PROVE  Inv'
<1>1. UNCHANGED <<version, dirty, schema, lock, run>>
  BY DEF Program, GetSourceVideo, CreatePendingJob, UpdateJobAfterUpload, CreateTable,
         AddVideo, DeleteVideo
<1>2. VersionTellsSchema' /\ LockHeld' /\ LockKnows'
  BY <1>1 DEF Inv, VersionTellsSchema, LockHeld, LockKnows, Working
<1>3. Undisturbed
  <2>1. ASSUME NEW j \in Jobs, GetSourceVideo(j) PROVE Undisturbed
    BY <2>1 DEF GetSourceVideo, Undisturbed, AskedAreNew, NoOrphans, Orphans, Rows,
                SeenIsBlank, Inv, TypeOK
  <2>2. ASSUME NEW v \in Videos, AddVideo(v) PROVE Undisturbed
    BY <2>2 DEF AddVideo, Undisturbed, AskedAreNew, NoOrphans, Orphans, Rows,
                SeenIsBlank, Inv, TypeOK
  <2>3. ASSUME CreateTable PROVE Undisturbed
    BY <2>3 DEF CreateTable, Undisturbed, AskedAreNew, NoOrphans, Orphans, Rows,
                SeenIsBlank, Inv, TypeOK
  <2> QED  BY <2>1, <2>2, <2>3, InsertUndisturbing, UploadUndisturbing, DeleteUndisturbing DEF Program
<1> QED  BY <1>1, <1>2, <1>3 DEF Undisturbed, Inv, TypeOK, SeenIsBlank, IsBackfill

LEMMA NextStep == Inv /\ [Next]_vars => Inv'
<1> SUFFICES ASSUME Inv, [Next]_vars PROVE Inv'  OBVIOUS
<1>1. ASSUME NEW p \in Processes, Migrate(p) PROVE Inv'
  BY <1>1, SetDirtyStep, BackfillStep, ApplyStep, FailStep, SetCleanStep DEF Migrate
<1>2. ASSUME NEW p \in Processes, NEW up \in BOOLEAN, UpOrDown(p, up) PROVE Inv'
  BY <1>2, UpOrDownStep
<1>3. CASE UNCHANGED vars
  BY <1>3 DEF vars, Inv, TypeOK, VersionTellsSchema, LockHeld, LockKnows, Working,
              SeenIsBlank, AskedAreNew, NoOrphans, Orphans, Rows
<1> QED  BY <1>1, <1>2, <1>3, AbortStep, ProgramStep DEF Next

-----------------------------------------------------------------------------
(* The theorems *)

\* The invariant: what the process with the lock knows, and nobody else works.
THEOREM Invariance == Spec => []Inv
BY Initial, NextStep, PTL DEF Spec

\* Every variable keeps its type.
THEOREM TypeCorrect == Spec => []TypeOK
<1>1. Inv => TypeOK
  BY DEF Inv
<1> QED  BY <1>1, Invariance, PTL

\* A clean version is the definition of the table, a dirty one is next to it.
THEOREM VersionTells == Spec => []VersionTellsSchema
<1>1. Inv => VersionTellsSchema
  BY DEF Inv
<1> QED  BY <1>1, Invariance, PTL

\* While there is a foreign key there is source_video, and every job has its video.
THEOREM ForeignKeyHolds == Spec => []NoOrphans
<1>1. Inv => NoOrphans
  BY DEF Inv
<1> QED  BY <1>1, Invariance, PTL

\* Only 003 up and 002 down can fail on what is in the database.
LEMMA FailureHasCause ==
    ASSUME Inv, NEW p \in Processes, AtCommit(run[p]), ~Succeeds(run[p])
    PROVE  \/ run[p].up /\ run[p].script = 3 /\ (~sourceTable \/ Orphans # {})
           \/ ~run[p].up /\ run[p].script = 2 /\ ~(Blank \subseteq run[p].seen)
<1> DEFINE n == run[p].script
<1>1. n \in 1 .. 4 /\ schema \in SchemaOf(Source(run[p])) /\ Source(run[p]) \in Versions
  BY AtCommitFacts, AtWork DEF Last
<1>2. Source(run[p]) > 0 <=> schema.table
  BY <1>1, SchemaFacts
<1>3. Source(run[p]) < 3 <=> schema.fk = "none"
  BY <1>1, SchemaFacts
<1>4. schema.fk # "none" => sourceTable /\ Orphans = {}
  BY DEF Inv, NoOrphans
<1>5. CASE run[p].up
  <2>1. Source(run[p]) = n - 1
    BY <1>5 DEF Source
  <2>2. ~UpSucceeds(n)
    BY <1>5 DEF Succeeds
  <2>3. n > 1 => schema.table
    BY <1>1, <1>2, <2>1
  <2>4. n = 3 => schema.fk = "none"
    BY <1>3, <2>1
  <2>5. n = 4 => sourceTable /\ Orphans = {}
    BY <1>3, <1>4, <2>1
  <2> QED  BY <1>5, <2>2, <2>3, <2>4, <2>5 DEF UpSucceeds
<1>6. CASE ~run[p].up
  <2>1. Source(run[p]) = n
    BY <1>6 DEF Source
  <2>2. ~DownSucceeds(n, run[p].seen)
    BY <1>6 DEF Succeeds
  <2>3. schema.table
    BY <1>1, <1>2, <2>1
  <2>4. n = 4 => sourceTable /\ Orphans = {}
    BY <1>3, <1>4, <2>1
  <2> QED  BY <1>6, <2>2, <2>3, <2>4 DEF DownSucceeds
<1> QED  BY <1>5, <1>6

\* A process fails in no other step.
LEMMA OnlyFailFails ==
    ASSUME Inv, [Next]_vars, NEW p \in Processes,
           run[p].pc # "failed", run'[p].pc = "failed"
    PROVE  AtCommit(run[p]) /\ ~Succeeds(run[p])
<1> USE DEF Inv, TypeOK, Runs
<1>1. Idle.pc # "failed"
  BY DEF Idle
<1>2. ASSUME NEW q \in Processes, NEW up \in BOOLEAN, UpOrDown(q, up) PROVE FALSE
  BY <1>2 DEF UpOrDown, Idle
<1>3. ASSUME NEW q \in Processes, SetDirty(q) \/ Backfill(q) \/ Apply(q) PROVE FALSE
  BY <1>3 DEF SetDirty, Backfill, Apply
<1>4. ASSUME NEW q \in Processes, SetClean(q) PROVE FALSE
  BY <1>1, <1>4 DEF SetClean
<1>5. ASSUME NEW q \in Processes, Abort(q) PROVE FALSE
  BY <1>1, <1>5 DEF Abort
<1>6. ASSUME NEW q \in Processes, Fail(q) PROVE AtCommit(run[p]) /\ ~Succeeds(run[p])
  BY <1>6 DEF Fail
<1>7. ASSUME Program PROVE FALSE
  BY <1>7 DEF Program, GetSourceVideo, CreatePendingJob, UpdateJobAfterUpload, CreateTable,
              AddVideo, DeleteVideo
<1>8. ASSUME UNCHANGED vars PROVE FALSE
  BY <1>8 DEF vars
<1> QED  BY <1>2, <1>3, <1>4, <1>5, <1>6, <1>7, <1>8 DEF Next, Migrate

\* Scripts fail for no reason but these: no source_video or an orphan for 003 up,
\* a job inserted behind the backfill for 002 down.
THEOREM FailuresHaveCause == Spec => FailsForCause
<1>1. Inv /\ [Next]_vars =>
        [\A p \in Processes :
            run[p].pc # "failed" /\ run'[p].pc = "failed" =>
              \/ run[p].up /\ run[p].script = 3 /\ (~sourceTable \/ Orphans # {})
              \/ ~run[p].up /\ run[p].script = 2 /\ ~(Blank \subseteq run[p].seen)]_vars
  BY FailureHasCause, OnlyFailFails
<1> QED  BY <1>1, Invariance, PTL DEF Spec, FailsForCause

\* A file id is lost only with its row, and a row with its video or the table.
LEMMA StepKeepsFileIds ==
    ASSUME Inv, [Next]_vars, NEW j \in Jobs, fileId[j] = "file", fileId'[j] # "file"
    PROVE  fileId'[j] = "absent" /\ (VideoOf[j] \in videos \ videos' \/ ~schema'.table)
<1> USE DEF Inv, TypeOK
<1>1. ASSUME NEW p \in Processes, Apply(p)
      PROVE  fileId'[j] = "absent" /\ ~schema'.table
  <2>1. j \notin run[p].seen
    BY DEF SeenIsBlank
  <2>2. ~run[p].up /\ run[p].script = 1 /\ fileId'[j] = "absent"
    BY <1>1, <2>1 DEF Apply, FileIdsAfter
  <2>3. schema' = NoTable
    BY <1>1, <2>2 DEF Apply, After, AfterDown, InitDown
  <2> QED  BY <2>2, <2>3 DEF NoTable
<1>2. ASSUME NEW p \in Processes, Migrate(p), ~Apply(p) PROVE FALSE
  BY <1>2 DEF Migrate, SetDirty, Backfill, Fail, SetClean, appVars
<1>3. ASSUME NEW p \in Processes, Abort(p) \/ (\E up \in BOOLEAN : UpOrDown(p, up)) PROVE FALSE
  BY <1>3 DEF Abort, UpOrDown, appVars
<1>4. ASSUME NEW k \in Jobs, GetSourceVideo(k) \/ UpdateJobAfterUpload(k) PROVE FALSE
  BY <1>4 DEF GetSourceVideo, UpdateJobAfterUpload
<1>5. ASSUME NEW k \in Jobs, CreatePendingJob(k) PROVE FALSE
  <2>1. fileId[k] = "absent"
    BY <1>5 DEF CreatePendingJob, AskedAreNew
  <2> QED  BY <1>5, <2>1 DEF CreatePendingJob
<1>6. ASSUME NEW v \in Videos, AddVideo(v) PROVE FALSE
  BY <1>6 DEF AddVideo
<1>7. ASSUME NEW v \in Videos, DeleteVideo(v)
      PROVE  fileId'[j] = "absent" /\ VideoOf[j] \in videos \ videos'
  BY <1>7 DEF DeleteVideo
<1>8. ASSUME CreateTable \/ UNCHANGED vars PROVE FALSE
  BY <1>8 DEF CreateTable, vars
<1> QED  BY <1>1, <1>2, <1>3, <1>4, <1>5, <1>6, <1>7, <1>8 DEF Next, Program

\* No script and no insert writes over the id of an uploaded file.
THEOREM FileIdsStay == Spec => FileIdsKept
<1>1. Inv /\ [Next]_vars =>
        [\A j \in Jobs :
            fileId[j] = "file" /\ fileId'[j] # "file" =>
              /\ fileId'[j] = "absent"
              /\ VideoOf[j] \in videos \ videos' \/ ~schema'.table]_vars
  BY StepKeepsFileIds
<1> QED  BY <1>1, Invariance, PTL DEF Spec, FileIdsKept

-----------------------------------------------------------------------------
(* The processes implement Evolution. *)

LEMMA LevelOfSchema ==
    ASSUME NEW v \in Versions, NEW s \in SchemaOf(v)
    PROVE  Level(s) = v
<1>1. v \in 0 .. 4 /\ s.fk \in {"none", "restrict", "cascade"}
  BY DEF SchemaOf, Schemas, Versions, Last
<1> QED  BY <1>1 DEF SchemaOf, Level

LEMMA TableHasLevel ==
    ASSUME Inv
    PROVE  \E v \in Versions : schema \in SchemaOf(v) /\ Level(schema) = v
BY LevelOfSchema DEF Inv, VersionTellsSchema, TypeOK

\* Who has the lock is at work, and what it does is the work under way.
LEMMA WorkOfHolder ==
    ASSUME Inv, NEW p \in Processes, lock = p
    PROVE  /\ Working(p)
           /\ Work = IF run[p].up THEN "up"
                     ELSE IF run[p].pc = "applied" THEN "done" ELSE "down"
BY ProcessesAssumption DEF Inv, LockHeld, Work

\* What a step may do to the three variables of Evolution.
Evolves == [Table!Next]_(Table!vars)

\* Taking the lock is the start, and giving it up the end of a migration.
LEMMA LockEvolves ==
    ASSUME Inv, UNCHANGED <<schema, fileId>>, NEW p \in Processes,
           \/ /\ lock = NoProcess /\ lock' = p /\ run'[p].pc = "locked"
              /\ run'[p].up \in BOOLEAN
           \/ lock = p /\ lock' = NoProcess
    PROVE  Evolves
<1>1. UNCHANGED <<Level(schema), Rows>>
  BY DEF Rows
<1>2. CASE lock = NoProcess /\ lock' = p /\ run'[p].pc = "locked" /\ run'[p].up \in BOOLEAN
  <2>1. Work = "none"
    BY <1>2 DEF Work
  <2>2. Work' \in {"up", "down"}
    BY <1>2, ProcessesAssumption DEF Work
  <2> QED  BY <1>1, <2>1, <2>2 DEF Evolves, Table!Next, Table!Start
<1>3. CASE lock = p /\ lock' = NoProcess
  <2>1. Work # "none"
    BY <1>3, WorkOfHolder
  <2>2. Work' = "none"
    BY <1>3 DEF Work
  <2> QED  BY <1>1, <2>1, <2>2 DEF Evolves, Table!Next, Table!End
<1> QED  BY <1>2, <1>3

\* What the process with the lock does between two scripts is not seen.
LEMMA BetweenEvolves ==
    ASSUME Inv, UNCHANGED <<schema, fileId, lock>>, NEW p \in Processes, Working(p),
           run'[p].up = run[p].up,
           run[p].pc = "applied" => run[p].up, run'[p].pc # "applied"
    PROVE  Evolves
<1>1. lock = p
  BY DEF Inv, LockHeld
<1>2. Work' = Work
  BY <1>1, ProcessesAssumption DEF Work, Inv, TypeOK, Runs
<1> QED  BY <1>2 DEF Evolves, Table!vars, Rows

\* A script is one step up or down, and only that of 001 down takes rows away.
LEMMA ApplyEvolves ==
    ASSUME Inv, NEW p \in Processes, Apply(p)
    PROVE  Evolves
<1> DEFINE r == run[p]
<1>1. /\ AtCommit(r) /\ schema' = After(r) /\ fileId' = FileIdsAfter(r)
      /\ run' = [run EXCEPT ![p].pc = "applied", ![p].seen = {}]
      /\ UNCHANGED lock
  BY DEF Apply
<1>2. lock = p /\ r \in Runs
  BY <1>1 DEF AtCommit, Inv, LockHeld, Working, TypeOK
<1>3. /\ r.script \in 1 .. 4
      /\ Source(r) \in Versions /\ schema \in SchemaOf(Source(r))
      /\ Target(r) \in Versions /\ schema' \in SchemaOf(Target(r))
  BY <1>1, AtCommitFacts, AtWork, AfterIsTarget DEF Last
<1>4. Level(schema) = Source(r) /\ Level(schema)' = Target(r)
  BY <1>3, LevelOfSchema
<1>5. run'[p].up = r.up /\ run'[p].pc = "applied" /\ r.pc # "applied"
  BY <1>1 DEF AtCommit, Inv, TypeOK, Runs
<1>6. Work' = IF r.up THEN "up" ELSE "done"
  BY <1>1, <1>2, <1>5, ProcessesAssumption DEF Work, Runs
<1>7. Work = IF r.up THEN "up" ELSE "down"
  BY <1>2, <1>5, WorkOfHolder
<1>8. \A j \in r.seen : j \in Rows
  BY DEF Inv, SeenIsBlank, Rows, TypeOK, Runs
<1>9. CASE r.up
  <2>1. Rows' = Rows
    BY <1>1, <1>8, <1>9 DEF FileIdsAfter, Rows
  <2>2. Source(r) < Last /\ Target(r) = Source(r) + 1
    BY <1>3, <1>9 DEF Source, Target, Last
  <2> QED  BY <1>4, <1>6, <1>7, <1>9, <2>1, <2>2 DEF Evolves, Table!Next, Table!Up
<1>10. CASE ~r.up
  <2>1. Rows' = IF r.script = 1 THEN {} ELSE Rows
    BY <1>1, <1>8, <1>10 DEF FileIdsAfter, Rows
  <2>2. Source(r) = r.script /\ Source(r) > 0 /\ Target(r) = Source(r) - 1
    BY <1>3, <1>10 DEF Source, Target
  <2> QED  BY <1>4, <1>6, <1>7, <1>10, <2>1, <2>2 DEF Evolves, Table!Next, Table!Down
<1> QED  BY <1>9, <1>10

LEMMA ProgramEvolves ==
    ASSUME Inv, Program
    PROVE  Evolves
<1>1. PICK v \in Versions : schema \in SchemaOf(v) /\ Level(schema) = v
  BY TableHasLevel
<1>2. UNCHANGED <<schema, lock, run>>
  BY DEF Program, GetSourceVideo, CreatePendingJob, UpdateJobAfterUpload, CreateTable,
         AddVideo, DeleteVideo
<1>3. UNCHANGED <<Level(schema), Work>>
  BY <1>2 DEF Work
<1>4. fileId \in [Jobs -> FileIds]
  BY DEF Inv, TypeOK
<1>5. CASE Rows' = Rows
  BY <1>3, <1>5 DEF Evolves, Table!vars
<1>6. ASSUME NEW j \in Jobs, CreatePendingJob(j), Rows' # Rows PROVE Evolves
  <2>1. schema.table /\ Rows' = Rows \cup {j}
    BY <1>4, <1>6 DEF CreatePendingJob, Inserts, Rows, Inv, TypeOK, Schemas
  <2>2. Level(schema) > 0
    BY <1>1, <2>1, SchemaFacts
  <2> QED  BY <1>3, <2>1, <2>2 DEF Evolves, Table!Next, Table!Insert
<1>7. ASSUME NEW v2 \in Videos, DeleteVideo(v2), Rows' # Rows PROVE Evolves
  <2>1. schema.fk = "cascade" /\ Rows' \subseteq Rows
    BY <1>4, <1>7 DEF DeleteVideo, Rows
  <2>2. v = 4
    BY <1>1, <2>1 DEF SchemaOf
  <2> QED  BY <1>1, <1>3, <2>1, <2>2 DEF Evolves, Table!Next, Table!Cascade, Last
<1>8. ASSUME NEW j \in Jobs, GetSourceVideo(j) \/ UpdateJobAfterUpload(j)
      PROVE  Rows' = Rows
  BY <1>4, <1>8 DEF GetSourceVideo, UpdateJobAfterUpload, Rows
<1>9. ASSUME CreateTable \/ (\E u \in Videos : AddVideo(u)) PROVE Rows' = Rows
  BY <1>9 DEF CreateTable, AddVideo, Rows
<1> QED  BY <1>5, <1>6, <1>7, <1>8, <1>9 DEF Program

LEMMA StepEvolves == Inv /\ [Next]_vars => Evolves
<1> SUFFICES ASSUME Inv, [Next]_vars PROVE Evolves  OBVIOUS
<1>1. ASSUME NEW p \in Processes, NEW up \in BOOLEAN, UpOrDown(p, up) PROVE Evolves
  <2>1. lock = NoProcess /\ lock' = p /\ UNCHANGED <<schema, fileId>>
    BY <1>1 DEF UpOrDown, appVars
  <2>2. run'[p].pc = "locked" /\ run'[p].up = up
    BY <1>1 DEF UpOrDown, Idle, Inv, TypeOK
  <2> QED  BY <2>1, <2>2, LockEvolves
<1>2. ASSUME NEW p \in Processes, SetDirty(p) \/ Backfill(p) PROVE Evolves
  <2>1. Working(p) /\ run[p].pc # "applied" /\ UNCHANGED <<schema, fileId, lock>>
    BY <1>2 DEF SetDirty, Backfill, Working, appVars
  <2>2. run'[p].up = run[p].up /\ run'[p].pc # "applied"
    BY <1>2 DEF SetDirty, Backfill, Inv, TypeOK, Runs
  <2> QED  BY <2>1, <2>2, BetweenEvolves
<1>3. ASSUME NEW p \in Processes, Fail(p) \/ Abort(p) PROVE Evolves
  <2>1. lock = p
    BY <1>3 DEF Fail, Abort, AtCommit, Inv, LockHeld, Working
  <2> QED  BY <1>3, <2>1, LockEvolves DEF Fail, Abort, appVars
<1>4. ASSUME NEW p \in Processes, SetClean(p) PROVE Evolves
  <2>1. lock = p /\ Working(p) /\ UNCHANGED <<schema, fileId>>
    BY <1>4 DEF SetClean, Inv, LockHeld, Working, appVars
  <2>2. CASE run[p].up /\ run[p].script < Last
    <3>1. /\ run' = [run EXCEPT ![p].pc = "locked", ![p].script = @ + 1]
          /\ UNCHANGED lock
      BY <1>4, <2>2 DEF SetClean
    <3>2. run[p] \in Runs /\ p \in DOMAIN run
      BY DEF Inv, TypeOK
    <3>3. run'[p].pc = "locked" /\ run'[p].up = run[p].up
      BY <3>1, <3>2 DEF Runs
    <3> QED  BY <2>1, <2>2, <3>1, <3>3, BetweenEvolves
  <2>3. CASE ~(run[p].up /\ run[p].script < Last)
    <3>1. lock' = NoProcess
      BY <1>4, <2>3 DEF SetClean
    <3> QED  BY <2>1, <3>1, LockEvolves
  <2> QED  BY <2>2, <2>3
<1>5. CASE UNCHANGED vars
  BY <1>5 DEF vars, Evolves, Table!vars, Work, Rows
<1> QED  BY <1>1, <1>2, <1>3, <1>4, <1>5, ApplyEvolves, ProgramEvolves DEF Next, Migrate

\* Whoever migrates and dies, the table changes under the program by whole
\* scripts, in order, one migration at a time.
THEOREM Implementation == Spec => ImplementsEvolution
<1>1. Init => Table!Init
  <2> SUFFICES ASSUME Init PROVE Level(schema) = 0 /\ Work = "none" /\ Rows = {}
    BY DEF Table!Init
  <2>1. schema = NoTable /\ lock = NoProcess /\ \A j \in Jobs : fileId[j] = "absent"
    BY DEF Init
  <2> QED  BY <2>1 DEF Level, NoTable, Work, Rows
<1>2. Inv /\ [Next]_vars => [Table!Next]_(Table!vars)
  BY StepEvolves DEF Evolves
<1> QED  BY <1>1, <1>2, Invariance, PTL DEF Spec, ImplementsEvolution, Table!Spec

=============================================================================
