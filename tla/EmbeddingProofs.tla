-------------------------- MODULE EmbeddingProofs ---------------------------
(***************************************************************************)
(* Embedding by any number of runs, for any manifests, any table to begin  *)
(* with and any set of faults: first what holds of runs in any company,    *)
(* then what a run that nobody overlapped leaves behind.                   *)
(***************************************************************************)
EXTENDS EmbeddingProperties, TLAPS

OneAtATime == \A r, s \in Runs : r = s

DistinctKeys == \A m \in Manifests : HasDistinctKeys(m)

\* The vectors that are stored to begin with fit.
TablesFit == \A table \in Tables : \A row \in table : row.vector = row.soup

\* All updates of a run have been sent, and each found its row.
AllWritten(run) ==
    /\ \A k \in DOMAIN run.plan.update : run.plan.update[k] \in DOMAIN run.written
    /\ \A id \in DOMAIN run.written :
          run.written[id] \in DOMAIN run.plan.update /\ run.plan.update[run.written[id]] = id

\* Every scene to write has its vector.
AllEmbedded(run) ==
    \A i \in run.plan.create \cup DOMAIN run.plan.update :
        i \in DOMAIN run.vectors /\ run.vectors[i] = run.scenes[i].soup

-----------------------------------------------------------------------------
(* The plan. *)

\* A plan that is made from the rows it is applied to, and applied in full,
\* leaves exactly one row for each scene of the manifest.
LEMMA PlanIsExact ==
    ASSUME NEW scenes \in Seq(Scenes), HasDistinctKeys(scenes),
           rows \subseteq Rows, UniqueIds(rows), NEW idx \in Indexes(rows),
           NEW run, run.scenes = scenes,
           run.plan = PlanReembedding(scenes, rows, idx),
           run.gone = run.plan.delete, AllWritten(run), AllEmbedded(run),
           NEW id \in Injection(run.plan.create, Ids \ IdsOf(rows))
    PROVE  LET table == Committed(run, id) IN
           /\ table \subseteq Rows /\ UniqueIds(table)
           /\ Contents(table) = ContentsOf(scenes)
           /\ OneRowPerKey(table)
<1> DEFINE table == Committed(run, id)
           found == Found(scenes, idx)
           ex(i) == Existing(scenes, idx, i)
           new(i) == [id |-> id[i], range |-> scenes[i].range, soup |-> scenes[i].soup,
                      vector |-> run.vectors[i]]
<1>1. /\ DOMAIN scenes \subseteq Nat
      /\ \A i \in DOMAIN scenes : scenes[i] \in Scenes
  OBVIOUS
<1>0. /\ id \in [run.plan.create -> Ids \ IdsOf(rows)]
      /\ \A i, k \in run.plan.create : id[i] = id[k] => i = k
  BY DEF Injection, IsInjective
<1>2. /\ run.plan.create = ToCreate(scenes, idx)
      /\ run.plan.update = [i \in ToUpdate(scenes, idx) |-> ex(i).id]
      /\ run.gone = IdsOf(rows) \ Processed(scenes, idx)
      /\ DOMAIN run.plan.update = ToUpdate(scenes, idx)
      /\ \A i \in ToUpdate(scenes, idx) : run.plan.update[i] = ex(i).id
  BY DEF PlanReembedding
<1>3. /\ found \subseteq DOMAIN scenes
      /\ ToUpdate(scenes, idx) = {i \in found : ex(i).soup # scenes[i].soup}
      /\ ToCreate(scenes, idx) = DOMAIN scenes \ found
      /\ Processed(scenes, idx) = {ex(i).id : i \in found}
  BY DEF Found, ToUpdate, ToCreate, Processed
<1>4. \A i \in found : ex(i) \in rows /\ SceneKey(ex(i)) = SceneKey(scenes[i])
  BY DEF Found, Existing, Indexes
<1>5. \A i, k \in found : ex(i).id = ex(k).id => i = k
  BY <1>3, <1>4 DEF UniqueIds, HasDistinctKeys
<1> HIDE DEF found, ex
<1>6. ASSUME NEW x \in rows, x.id \notin run.gone
      PROVE  \E i \in found : x = ex(i)
  <2>1. x.id \in Processed(scenes, idx) BY <1>2, <1>6 DEF IdsOf
  <2>2. PICK i \in found : ex(i).id = x.id BY <1>3, <2>1
  <2> QED BY <1>4, <2>2 DEF UniqueIds
<1>7. ASSUME NEW i \in found
      PROVE  /\ ex(i).id \notin run.gone
             /\ Pair(Updated(run, ex(i))) = Pair(scenes[i])
             /\ Updated(run, ex(i)) \in Rows /\ Updated(run, ex(i)).id = ex(i).id
  <2>1. ex(i).id \notin run.gone BY <1>2, <1>3
  <2>2. /\ Updated(run, ex(i)).id = ex(i).id /\ Updated(run, ex(i)).range = ex(i).range
        /\ Updated(run, ex(i)).soup = scenes[i].soup
        /\ Updated(run, ex(i)) \in Rows
    <3>1. ex(i) \in Rows /\ scenes[i].soup \in Soups
      BY <1>1, <1>3, <1>4 DEF Scenes
    <3>2. CASE ex(i).soup = scenes[i].soup
      <4>1. \A k \in ToUpdate(scenes, idx) : ex(k).id # ex(i).id
        BY <1>3, <1>5, <3>2
      <4>2. ex(i).id \notin DOMAIN run.written
        BY <1>2, <4>1 DEF AllWritten
      <4>3. Updated(run, ex(i)) = ex(i)
        BY <4>2 DEF Updated
      <4> QED BY <3>1, <3>2, <4>3 DEF Rows
    <3>3. CASE ex(i).soup # scenes[i].soup
      <4>1. i \in ToUpdate(scenes, idx) /\ run.plan.update[i] = ex(i).id
        BY <1>2, <1>3, <3>3
      <4>2. ex(i).id \in DOMAIN run.written
        BY <1>2, <4>1 DEF AllWritten
      <4>3. run.written[ex(i).id] \in ToUpdate(scenes, idx)
            /\ ex(run.written[ex(i).id]).id = ex(i).id
        BY <1>2, <4>2 DEF AllWritten
      <4>4. run.written[ex(i).id] = i
        BY <1>3, <1>5, <4>1, <4>3
      <4>5. run.vectors[i] = scenes[i].soup
        BY <1>2, <4>1 DEF AllEmbedded
      <4>6. Updated(run, ex(i)) = [ex(i) EXCEPT !.soup = scenes[i].soup,
                                                !.vector = scenes[i].soup]
        BY <4>2, <4>4, <4>5 DEF Updated
      <4> QED BY <3>1, <4>6 DEF Rows
    <3> QED BY <3>2, <3>3
  <2>3. ex(i) \in Rows /\ scenes[i] \in Scenes BY <1>1, <1>3, <1>4
  <2>4. /\ Updated(run, ex(i)) \in Rows /\ Updated(run, ex(i)).id = ex(i).id
        /\ Updated(run, ex(i)).range = ex(i).range
        /\ Updated(run, ex(i)).soup = scenes[i].soup
    BY <2>2
  <2>5. SceneKey(Updated(run, ex(i))) = SceneKey(scenes[i])
    BY <1>4, <2>4 DEF SceneKey
  <2> QED BY <2>1, <2>4, <2>5 DEF Pair
<1>8. NewRows(run, id) = {new(i) : i \in ToCreate(scenes, idx)}
  BY <1>2 DEF NewRows
<1>9. \A i \in ToCreate(scenes, idx) :
          /\ Pair(new(i)) = Pair(scenes[i])
          /\ new(i) \in Rows /\ new(i).id = id[i] /\ new(i).id \notin IdsOf(rows)
  BY <1>0, <1>1, <1>2, <1>3 DEF Pair, SceneKey, Rows, Scenes, AllEmbedded
<1>10. table = {Updated(run, ex(i)) : i \in found} \cup {new(i) : i \in ToCreate(scenes, idx)}
  <2>1. {Updated(run, row) : row \in {x \in rows : x.id \notin run.gone}}
        = {Updated(run, ex(i)) : i \in found}
    BY <1>4, <1>6, <1>7
  <2> QED BY <1>8, <2>1 DEF Committed
<1>11. \A i \in DOMAIN scenes : i \in found \/ i \in ToCreate(scenes, idx)
  BY <1>3
<1> HIDE DEF table, new
<1>12. Contents(table) = ContentsOf(scenes)
  BY <1>3, <1>7, <1>9, <1>10, <1>11 DEF Contents, ContentsOf
<1>13. ASSUME NEW x \in table
       PROVE  \E i \in DOMAIN scenes :
                 /\ SceneKey(x) = SceneKey(scenes[i])
                 /\ x = IF i \in found THEN Updated(run, ex(i)) ELSE new(i)
  <2>1. CASE \E i \in found : x = Updated(run, ex(i))
    BY <1>3, <1>7, <2>1 DEF Pair
  <2>2. CASE \E i \in ToCreate(scenes, idx) : x = new(i)
    BY <1>3, <1>9, <2>2 DEF Pair
  <2> QED BY <1>10, <2>1, <2>2
<1>14. OneRowPerKey(table)
  BY <1>13 DEF OneRowPerKey, HasDistinctKeys
<1>15. table \subseteq Rows
  BY <1>7, <1>9, <1>10
<1>16. UniqueIds(table)
  <2> SUFFICES ASSUME NEW x \in table, NEW y \in table, x.id = y.id PROVE x = y
    BY DEF UniqueIds
  <2>1. \A i \in found : Updated(run, ex(i)).id \in IdsOf(rows)
    BY <1>4, <1>7 DEF IdsOf
  <2>2. CASE \E i, k \in found : x = Updated(run, ex(i)) /\ y = Updated(run, ex(k))
    BY <1>5, <1>7, <2>2
  <2>3. CASE \E i, k \in ToCreate(scenes, idx) : x = new(i) /\ y = new(k)
    BY <1>0, <1>2, <1>9, <2>3
  <2> QED BY <1>9, <1>10, <2>1, <2>2, <2>3
<1> QED BY <1>12, <1>14, <1>15, <1>16 DEF table

\* Replacing everything leaves exactly one row for each scene as well.
LEMMA ReplaceIsExact ==
    ASSUME NEW scenes \in Seq(Scenes), HasDistinctKeys(scenes),
           NEW run, run.scenes = scenes, run.plan.create = DOMAIN scenes,
           run.gone = IdsOf(rows), AllEmbedded(run),
           NEW id \in Injection(run.plan.create, Ids \ IdsOf(rows))
    PROVE  LET table == Committed(run, id) IN
           /\ table \subseteq Rows /\ UniqueIds(table)
           /\ Contents(table) = ContentsOf(scenes)
           /\ OneRowPerKey(table)
<1> DEFINE table == Committed(run, id)
           new(i) == [id |-> id[i], range |-> scenes[i].range, soup |-> scenes[i].soup,
                      vector |-> run.vectors[i]]
<1>1. \A i \in DOMAIN scenes : scenes[i] \in Scenes
  OBVIOUS
<1>2. /\ id \in [DOMAIN scenes -> Ids]
      /\ \A i, k \in DOMAIN scenes : id[i] = id[k] => i = k
  BY DEF Injection, IsInjective
<1>3. table = {new(i) : i \in DOMAIN scenes}
  BY DEF Committed, NewRows, IdsOf
<1>4. \A i \in DOMAIN scenes :
          /\ new(i) \in Rows /\ new(i).id = id[i]
          /\ Pair(new(i)) = Pair(scenes[i]) /\ SceneKey(new(i)) = SceneKey(scenes[i])
  BY <1>1, <1>2 DEF Pair, SceneKey, Rows, Scenes, AllEmbedded
<1> HIDE DEF table, new
<1>5. table \subseteq Rows /\ UniqueIds(table)
  BY <1>2, <1>3, <1>4 DEF UniqueIds
<1>6. Contents(table) = ContentsOf(scenes)
  BY <1>3, <1>4 DEF Contents, ContentsOf
<1>7. OneRowPerKey(table)
  BY <1>3, <1>4 DEF OneRowPerKey, HasDistinctKeys
<1> QED BY <1>5, <1>6, <1>7 DEF table

-----------------------------------------------------------------------------
(* The inductive invariant. *)

Partial(A, B) == UNION {[D -> B] : D \in SUBSET A}

PlanSet == [create : SUBSET Nat, update : Partial(Nat, Ids), delete : SUBSET Ids]

RunSet == [pc : Pcs, job : Jobs \cup {NoJob}, again : BOOLEAN, scenes : Seq(Scenes),
           plan : PlanSet, vectors : Partial(Nat, Soups), failed : 0 .. EmbedAttempts - 1,
           left : SUBSET (Ids \cup Nat), gone : SUBSET Ids, written : Partial(Ids, Nat)]

Untouched(run) == run.gone = {} /\ DOMAIN run.written = {}

Unplanned(run) == run.plan = NoPlan /\ DOMAIN run.vectors = {}

\* What the run will write belongs to its manifest, and the rows it will update
\* have the time range of the scene they are updated with: ids are not reused
\* and updates leave the range alone.
Fits(run) ==
    /\ run.plan.create \cup DOMAIN run.plan.update \subseteq DOMAIN run.scenes
    /\ \A i \in DOMAIN run.vectors :
          i \in DOMAIN run.scenes /\ run.vectors[i] = run.scenes[i].soup
    /\ \A id \in DOMAIN run.written :
          run.written[id] \in DOMAIN run.plan.update /\ run.plan.update[run.written[id]] = id
    /\ \A i \in DOMAIN run.plan.update : \A row \in rows :
          row.id = run.plan.update[i] => SceneKey(row) = SceneKey(run.scenes[i])

\* What holds of a run in any company.
RunOK(run) ==
    /\ run \in RunSet
    /\ run.pc = "idle" => run = IdleRun
    /\ run.pc # "idle" => run.job \in Jobs
    /\ run.scenes \in Manifests \cup {<<>>}
    /\ run.pc \in {"begin", "load", "read"} => Unplanned(run)
    /\ run.pc \in {"begin", "load", "read", "embed"} => Untouched(run)
    /\ run.pc \in {"read", "embed", "deleting", "writing", "complete"}
          => run.scenes \in Manifests \ {<<>>}
    /\ run.pc = "read" => run.again
    /\ run.pc \in {"deleting", "writing"} => Pending(run) = {}
    /\ run.pc = "writing" => run.left \subseteq DOMAIN run.plan.update
    /\ Fits(run)

\* The ids a run deletes: those of its plan, or all.
ToDelete(run) == IF run.again THEN run.plan.delete ELSE IdsOf(rows)

\* The plan of the run fits the table as it is now.
Planned(run) ==
    /\ run.scenes \in Manifests
    /\ IF run.again
       THEN \E idx \in Indexes(rows) : run.plan = PlanReembedding(run.scenes, rows, idx)
       ELSE run.plan = [NoPlan EXCEPT !.create = DOMAIN run.scenes]

\* What holds in addition of a run that nobody overlaps.
LoneOK(run) ==
    /\ run.pc = "embed" => Planned(run)
    /\ run.pc = "deleting" => /\ Planned(run) /\ DOMAIN run.written = {}
                              /\ run.left \subseteq ToDelete(run)
                              /\ run.gone = ToDelete(run) \ run.left
    /\ run.pc = "writing" => /\ Planned(run) /\ run.gone = ToDelete(run)
                             /\ \A k \in (DOMAIN run.plan.update) \ run.left :
                                   run.plan.update[k] \in DOMAIN run.written
    /\ run.pc = "complete" => (DistinctKeys => /\ Contents(rows) = ContentsOf(run.scenes)
                                               /\ OneRowPerKey(rows))

TableOK == rows \subseteq Rows /\ UniqueIds(rows)

Inv ==
    /\ TableOK
    /\ status \in [Jobs -> Statuses]
    /\ manifest \in [Jobs -> Manifests]
    /\ alone \subseteq Runs
    /\ DOMAIN runs = Runs
    /\ \A r \in Runs : RunOK(runs[r])
    /\ \A r \in alone : LoneOK(runs[r]) /\ \A s \in Runs \ {r} : runs[s].pc = "idle"

LEMMA PutType ==
    ASSUME NEW A, NEW B, NEW f \in Partial(A, B), NEW x \in A, NEW v \in B
    PROVE  Put(f, x, v) \in Partial(A, B)
<1>1. PICK D \in SUBSET A : f \in [D -> B]
  BY DEF Partial
<1>2. Put(f, x, v) \in [{x} \cup D -> B] /\ {x} \cup D \in SUBSET A
  BY <1>1 DEF Put
<1> QED BY <1>2, Zenon DEF Partial

LEMMA EmptyPartial ==
    ASSUME NEW A, NEW B PROVE <<>> \in Partial(A, B)
<1>1. <<>> \in [{} -> B] /\ {} \in SUBSET A
  OBVIOUS
<1> QED BY <1>1, Zenon DEF Partial

LEMMA IdleRunSet == IdleRun \in RunSet
<1>1. <<>> \in Partial(Nat, Ids) /\ <<>> \in Partial(Nat, Soups) /\ <<>> \in Partial(Ids, Nat)
  BY EmptyPartial
<1>2. NoPlan \in PlanSet
  BY <1>1 DEF NoPlan, PlanSet
<1>3. <<>> \in Seq(Scenes) /\ 0 \in 0 .. EmbedAttempts - 1
  BY DEF EmbedAttempts
<1> HIDE DEF NoPlan
<1> QED BY <1>1, <1>2, <1>3 DEF IdleRun, RunSet, Pcs

\* A run that has not planned anything is in order, in any company or none.
LEMMA FreshRunOK ==
    ASSUME NEW run, run \in RunSet, Unplanned(run), Untouched(run),
           run.pc \in {"idle", "begin", "load", "read", "mark"},
           run.pc = "idle" => run = IdleRun, run.pc # "idle" => run.job \in Jobs,
           run.pc = "read" => run.again /\ run.scenes \in Manifests \ {<<>>},
           run.scenes \in Manifests \cup {<<>>}
    PROVE  RunOK(run) /\ LoneOK(run)
BY DEF RunOK, LoneOK, Fits, Unplanned, Untouched, NoPlan

LEMMA IdleRunOK == RunOK(IdleRun) /\ LoneOK(IdleRun)
<1>1. Unplanned(IdleRun) /\ Untouched(IdleRun) /\ IdleRun.pc = "idle" /\ IdleRun.scenes = <<>>
  BY DEF IdleRun, Unplanned, Untouched
<1> QED BY <1>1, IdleRunSet, FreshRunOK

LEMMA MarkRunOK ==
    ASSUME NEW j \in Jobs
    PROVE  LET run == [IdleRun EXCEPT !.pc = "mark", !.job = j] IN RunOK(run) /\ LoneOK(run)
<1> DEFINE run == [IdleRun EXCEPT !.pc = "mark", !.job = j]
<1>1. run \in RunSet
  BY IdleRunSet DEF RunSet, Pcs
<1>2. run.pc = "mark" /\ run.job = j /\ run.scenes = <<>> /\ Unplanned(run) /\ Untouched(run)
  BY DEF IdleRun, Unplanned, Untouched
<1> HIDE DEF run
<1>3. RunOK(run) /\ LoneOK(run)
  BY <1>1, <1>2, FreshRunOK
<1> QED BY <1>3 DEF run

\* What a plan names.
LEMMA PlanType ==
    ASSUME TableOK, NEW run, run.scenes \in Seq(Scenes), Planned(run)
    PROVE  /\ run.plan \in PlanSet
           /\ run.plan.create \cup DOMAIN run.plan.update \subseteq DOMAIN run.scenes
           /\ ToDelete(run) \subseteq IdsOf(rows)
           /\ \A i \in DOMAIN run.plan.update : \E row \in rows :
                 row.id = run.plan.update[i] /\ SceneKey(row) = SceneKey(run.scenes[i])
<1> USE DEF TableOK
<1>1. DOMAIN run.scenes \subseteq Nat /\ IdsOf(rows) \subseteq Ids
  BY DEF IdsOf, Rows
<1>2. CASE run.again
  <2>1. PICK idx \in Indexes(rows) : run.plan = PlanReembedding(run.scenes, rows, idx)
    BY <1>2 DEF Planned
  <2>2. \A i \in ToUpdate(run.scenes, idx) :
            /\ i \in DOMAIN run.scenes
            /\ Existing(run.scenes, idx, i) \in rows
            /\ SceneKey(Existing(run.scenes, idx, i)) = SceneKey(run.scenes[i])
            /\ Existing(run.scenes, idx, i).id \in IdsOf(rows)
    BY DEF ToUpdate, Found, Existing, Indexes, IdsOf
  <2>3. ToCreate(run.scenes, idx) \subseteq DOMAIN run.scenes
    BY DEF ToCreate
  <2>4. [i \in ToUpdate(run.scenes, idx) |-> Existing(run.scenes, idx, i).id]
        \in [ToUpdate(run.scenes, idx) -> Ids]
    BY <1>1, <2>2
  <2>5. ToUpdate(run.scenes, idx) \in SUBSET Nat
    BY <1>1, <2>2
  <2>6. [i \in ToUpdate(run.scenes, idx) |-> Existing(run.scenes, idx, i).id]
        \in Partial(Nat, Ids)
    BY <2>4, <2>5, Zenon DEF Partial
  <2>7. \A i \in DOMAIN run.plan.update : \E row \in rows :
            row.id = run.plan.update[i] /\ SceneKey(row) = SceneKey(run.scenes[i])
    BY <2>1, <2>2 DEF PlanReembedding
  <2>8. /\ run.plan \in PlanSet
        /\ run.plan.create \cup DOMAIN run.plan.update \subseteq DOMAIN run.scenes
        /\ ToDelete(run) \subseteq IdsOf(rows)
    BY <1>1, <1>2, <2>1, <2>2, <2>3, <2>6 DEF PlanReembedding, PlanSet, ToDelete
  <2> QED BY <2>7, <2>8
<1>3. CASE ~run.again
  <2>1. run.plan = [create |-> DOMAIN run.scenes, update |-> <<>>, delete |-> {}]
    BY <1>3 DEF Planned, NoPlan
  <2>2. run.plan \in PlanSet
    BY <1>1, <2>1, EmptyPartial DEF PlanSet
  <2>3. DOMAIN run.plan.update = {}
    BY <2>1
  <2> QED BY <1>3, <2>1, <2>2, <2>3 DEF ToDelete
<1> QED BY <1>2, <1>3

-----------------------------------------------------------------------------
(* The steps that leave the table as it is. *)

LEMMA Moves ==
    ASSUME Inv, NEW r \in Runs, NEW run, RunOK(run), r \in alone' => LoneOK(run),
           runs' = [runs EXCEPT ![r] = run],
           alone' \subseteq Runs,
           \A s \in alone' : \A q \in Runs \ {s} : runs'[q].pc = "idle",
           \A s \in alone' : s \in alone \/ s = r,
           UNCHANGED rows, status' \in [Jobs -> Statuses], manifest' \in [Jobs -> Manifests]
    PROVE  Inv'
<1>1. DOMAIN runs' = Runs /\ runs'[r] = run /\ \A s \in Runs \ {r} : runs'[s] = runs[s]
  BY DEF Inv
<1>2. ASSUME NEW s \in Runs PROVE RunOK(runs[s])'
  <2>1. RunOK(runs'[s])
    BY <1>1 DEF Inv
  <2> HIDE DEF RunOK
  <2> QED BY <2>1 DEF RunOK, Fits
<1>3. ASSUME NEW s \in alone' PROVE LoneOK(runs[s])'
  <2>1. LoneOK(runs'[s])
    BY <1>1, <1>3 DEF Inv
  <2> QED BY <2>1 DEF LoneOK, Planned, ToDelete, Contents
<1>4. TableOK'
  BY DEF Inv, TableOK
<1> QED BY <1>1, <1>2, <1>3, <1>4 DEF Inv

\* The same for the steps of a run that is under way.
LEMMA RunMoves ==
    ASSUME Inv, NEW r \in Runs, runs[r].pc # "idle", NEW run, RunOK(run),
           r \in alone => LoneOK(run),
           runs' = [runs EXCEPT ![r] = run], UNCHANGED <<rows, alone>>,
           status' \in [Jobs -> Statuses], manifest' \in [Jobs -> Manifests]
    PROVE  Inv'
<1>1. \A s \in alone : s = r
  BY DEF Inv
<1>2. \A s \in alone' : \A q \in Runs \ {s} : runs'[q].pc = "idle"
  BY <1>1 DEF Inv
<1> QED BY <1>1, <1>2, Moves DEF Inv

LEMMA GiveUpInv ==
    ASSUME Inv, NEW r \in Runs, runs[r].pc # "idle", GiveUp(r),
           UNCHANGED <<status, manifest, rows, alone>>
    PROVE  Inv'
<1> DEFINE run == [IdleRun EXCEPT !.pc = "mark", !.job = runs[r].job]
<1>1. runs[r].job \in Jobs
  BY DEF Inv, RunOK
<1>2. RunOK(run) /\ LoneOK(run)
  BY <1>1, MarkRunOK
<1>3. runs' = [runs EXCEPT ![r] = run]
  BY DEF GiveUp
<1> HIDE DEF run
<1> QED BY <1>2, <1>3, RunMoves DEF Inv

LEMMA IdleInv ==
    ASSUME Inv, NEW r \in Runs, runs' = [runs EXCEPT ![r] = IdleRun],
           UNCHANGED <<manifest, rows, alone>>, status' \in [Jobs -> Statuses]
    PROVE  Inv'
<1>1. \A s \in alone' : \A q \in Runs \ {s} : runs'[q].pc = "idle"
  BY DEF Inv, IdleRun
<1> QED BY <1>1, IdleRunOK, Moves DEF Inv

LEMMA StartInv ==
    ASSUME Inv, NEW r \in Runs, NEW j \in Jobs, Start(r, j)
    PROVE  Inv'
<1> DEFINE run == [IdleRun EXCEPT !.pc = "begin", !.job = j,
                                  !.again = status[j] = "COMPLETED"]
<1>0. run \in RunSet
  BY IdleRunSet DEF RunSet, Pcs
<1>1. /\ run.pc = "begin" /\ run.job = j
      /\ run.scenes = <<>> /\ Unplanned(run) /\ Untouched(run)
  BY DEF IdleRun, Untouched, Unplanned
<1>2. runs' = [runs EXCEPT ![r] = run]
  BY DEF Start
<1> HIDE DEF run
<1>3. RunOK(run) /\ LoneOK(run)
  BY <1>0, <1>1, FreshRunOK
<1>4. alone' \subseteq {r} /\ \A s \in alone' : \A q \in Runs \ {r} : runs[q] = IdleRun
  BY DEF Start
<1>5. \A s \in alone' : \A q \in Runs \ {s} : runs'[q].pc = "idle"
  BY <1>2, <1>4 DEF IdleRun
<1> QED BY <1>2, <1>3, <1>4, <1>5, Moves DEF Start, Inv

LEMMA BeginInv ==
    ASSUME Inv, NEW r \in Runs, Begin(r)
    PROVE  Inv'
<1>1. CASE runs' = [runs EXCEPT ![r] = IdleRun] /\ UNCHANGED status
  BY <1>1, IdleInv DEF Begin, Inv
<1>2. CASE Goto(r, "load") /\ status' = [status EXCEPT ![runs[r].job] =
                IF runs[r].again THEN "MANUAL_EMBEDDING" ELSE "EMBEDDING"]
  <2> DEFINE run == [runs[r] EXCEPT !.pc = "load"]
  <2>1. /\ runs[r] \in RunSet /\ runs[r].job \in Jobs
        /\ runs[r].scenes \in Manifests \cup {<<>>}
        /\ Unplanned(runs[r]) /\ Untouched(runs[r])
    BY DEF Inv, RunOK, Begin
  <2>2. /\ run \in RunSet /\ run.pc = "load" /\ run.job \in Jobs
        /\ run.scenes \in Manifests \cup {<<>>}
        /\ Unplanned(run) /\ Untouched(run)
    BY <2>1 DEF RunSet, Pcs, Untouched, Unplanned
  <2>3. runs' = [runs EXCEPT ![r] = run]
    BY <1>2 DEF Goto
  <2>4. status' \in [Jobs -> Statuses]
    BY <1>2, <2>1 DEF Inv, Statuses
  <2> HIDE DEF run
  <2>5. RunOK(run) /\ LoneOK(run)
    BY <2>2, FreshRunOK
  <2> QED BY <2>3, <2>4, <2>5, RunMoves DEF Begin, Inv
<1> QED BY <1>1, <1>2 DEF Begin

LEMMA LoadManifestInv ==
    ASSUME Inv, NEW r \in Runs, LoadManifest(r)
    PROVE  Inv'
<1>1. CASE GiveUp(r)
  BY <1>1, GiveUpInv DEF LoadManifest
<1>2. CASE ~GiveUp(r)
  <2> DEFINE scenes == manifest[runs[r].job]
             create == IF runs[r].again THEN {} ELSE DOMAIN scenes
             run == [runs[r] EXCEPT !.scenes = scenes,
                        !.pc = IF runs[r].again THEN "read" ELSE "embed",
                        !.plan = [NoPlan EXCEPT !.create = create]]
  <2>1. /\ runs[r] \in RunSet /\ runs[r].job \in Jobs
        /\ Unplanned(runs[r]) /\ Untouched(runs[r])
    BY DEF Inv, RunOK, LoadManifest
  <2>2. scenes \in Manifests \ {<<>>} /\ scenes \in Seq(Scenes)
    BY <1>2, <2>1, ManifestsAssumption DEF Inv, LoadManifest
  <2>3. runs' = [runs EXCEPT ![r] = run]
    BY <1>2, <2>1 DEF LoadManifest, RunSet, Unplanned
  <2> HIDE DEF scenes
  <2>4. /\ create \subseteq DOMAIN scenes /\ create \in SUBSET Nat
        /\ (~runs[r].again => create = DOMAIN scenes) /\ (runs[r].again => create = {})
    BY <2>2
  <2> HIDE DEF create
  <2>5. [NoPlan EXCEPT !.create = create] \in PlanSet
    BY <2>4, EmptyPartial DEF NoPlan, PlanSet
  <2> DEFINE plan == [NoPlan EXCEPT !.create = create]
  <2>5a. plan.create = create /\ DOMAIN plan.update = {} /\ plan \in PlanSet
    BY <2>5 DEF NoPlan
  <2> HIDE DEF plan
  <2>5b. run \in RunSet
    BY <2>1, <2>2, <2>5a DEF RunSet, Pcs, plan
  <2>6. /\ run.job \in Jobs /\ run.scenes = scenes
        /\ run.again = runs[r].again /\ run.plan = plan
        /\ run.pc = (IF run.again THEN "read" ELSE "embed")
        /\ DOMAIN run.vectors = {} /\ Untouched(run)
    BY <2>1 DEF RunSet, Unplanned, Untouched, plan
  <2> HIDE DEF run
  <2>7. run.again => Unplanned(run)
    BY <2>4, <2>6 DEF Unplanned, NoPlan, plan
  <2>8. Fits(run)
    BY <2>4, <2>6, <2>5a DEF Fits, Untouched
  <2>9. RunOK(run)
    BY <2>2, <2>6, <2>7, <2>8, <2>5b DEF RunOK
  <2>10. LoneOK(run)
    BY <2>2, <2>4, <2>6 DEF LoneOK, Planned, plan
  <2> QED BY <2>3, <2>9, <2>10, RunMoves DEF LoadManifest, Inv
<1> QED BY <1>1, <1>2

LEMMA ReadScenesInv ==
    ASSUME Inv, NEW r \in Runs, ReadScenes(r)
    PROVE  Inv'
<1>1. CASE GiveUp(r)
  BY <1>1, GiveUpInv DEF ReadScenes
<1>2. ASSUME NEW idx \in Indexes(rows),
             runs' = [runs EXCEPT
                ![r].plan = PlanReembedding(runs[r].scenes, rows, idx), ![r].pc = "embed"]
      PROVE  Inv'
  <2> DEFINE plan == PlanReembedding(runs[r].scenes, rows, idx)
             run == [runs[r] EXCEPT !.plan = plan, !.pc = "embed"]
  <2>1. /\ runs[r] \in RunSet /\ runs[r].job \in Jobs /\ runs[r].again
        /\ runs[r].scenes \in Manifests \ {<<>>} /\ Unplanned(runs[r]) /\ Untouched(runs[r])
    BY DEF Inv, RunOK, ReadScenes
  <2> HIDE DEF plan
  <2>2. /\ run.job = runs[r].job /\ run.again /\ run.scenes = runs[r].scenes
        /\ run.plan = plan /\ run.pc = "embed" /\ Untouched(run)
        /\ DOMAIN run.vectors = {}
    BY <2>1 DEF RunSet, Untouched, Unplanned
  <2>3. runs' = [runs EXCEPT ![r] = run]
    BY <1>2 DEF plan
  <2>4. Planned(run)
    BY <2>1, <2>2 DEF Planned, plan
  <2>5. run.scenes \in Seq(Scenes) /\ TableOK
    BY <2>1, <2>2, ManifestsAssumption DEF Inv
  <2>6. /\ plan \in PlanSet
        /\ plan.create \cup DOMAIN plan.update \subseteq DOMAIN run.scenes
        /\ \A i \in DOMAIN plan.update : \E row \in rows :
              row.id = plan.update[i] /\ SceneKey(row) = SceneKey(run.scenes[i])
    <3> HIDE DEF run
    <3> QED BY <2>2, <2>4, <2>5, PlanType
  <2>7. run \in RunSet
    BY <2>1, <2>6 DEF RunSet, Pcs
  <2> HIDE DEF run
  <2>8. Fits(run)
    BY <2>2, <2>5, <2>6 DEF Fits, Untouched, TableOK, UniqueIds
  <2>9. RunOK(run)
    BY <2>1, <2>2, <2>7, <2>8 DEF RunOK
  <2>10. LoneOK(run)
    BY <2>2, <2>4 DEF LoneOK
  <2> QED BY <2>3, <2>9, <2>10, RunMoves DEF ReadScenes, Inv
<1> QED BY <1>1, <1>2 DEF ReadScenes

LEMMA EmbedSceneInv ==
    ASSUME Inv, NEW r \in Runs, EmbedScene(r)
    PROVE  Inv'
<1>1. /\ runs[r] \in RunSet /\ runs[r].job \in Jobs /\ runs[r].pc = "embed"
      /\ runs[r].scenes \in Manifests \ {<<>>}
      /\ Untouched(runs[r]) /\ Fits(runs[r])
      /\ r \in alone => Planned(runs[r])
  BY DEF Inv, RunOK, LoneOK, EmbedScene
<1>2. CASE GiveUp(r)
  BY <1>1, <1>2, GiveUpInv DEF EmbedScene
<1>3. ASSUME NEW run, run \in RunSet, runs' = [runs EXCEPT ![r] = run],
             run.pc = "embed", run.job = runs[r].job, run.again = runs[r].again,
             run.scenes = runs[r].scenes, run.plan = runs[r].plan,
             run.gone = runs[r].gone, run.written = runs[r].written,
             \A i \in DOMAIN run.vectors :
                i \in DOMAIN run.scenes /\ run.vectors[i] = run.scenes[i].soup
      PROVE  Inv'
  <2>1. Fits(run) /\ Untouched(run)
    BY <1>1, <1>3 DEF Fits, Untouched
  <2>2. RunOK(run)
    BY <1>1, <1>3, <2>1 DEF RunOK
  <2>3. r \in alone => LoneOK(run)
    BY <1>1, <1>3 DEF LoneOK, Planned
  <2> QED BY <1>1, <1>3, <2>2, <2>3, RunMoves DEF EmbedScene, Inv
<1>4. PICK i \in Pending(runs[r]) :
         \/ runs' = [runs EXCEPT ![r].failed = 0,
                 ![r].vectors = Put(@, i, runs[r].scenes[i].soup)]
         \/ GiveUp(r)
         \/ /\ runs[r].failed + 1 < EmbedAttempts
            /\ runs' = [runs EXCEPT ![r].failed = @ + 1]
  BY DEF EmbedScene, Upcoming
<1>5. ASSUME runs' = [runs EXCEPT ![r].failed = 0,
                 ![r].vectors = Put(@, i, runs[r].scenes[i].soup)]
      PROVE  Inv'
  <2> DEFINE vectors == Put(runs[r].vectors, i, runs[r].scenes[i].soup)
  <2>1. runs[r].vectors \in Partial(Nat, Soups) /\ runs[r].scenes \in Seq(Scenes)
    BY <1>1 DEF RunSet
  <2>2. i \in DOMAIN runs[r].scenes
    BY <1>1, <1>4 DEF Pending, Fits
  <2>3. i \in Nat /\ runs[r].scenes[i].soup \in Soups
    <3>1. \A s \in Seq(Scenes) : \A k \in DOMAIN s : k \in Nat /\ s[k] \in Scenes
      OBVIOUS
    <3>2. i \in Nat /\ runs[r].scenes[i] \in Scenes
      BY <2>1, <2>2, <3>1
    <3> QED BY <3>2 DEF Scenes
  <2>4. /\ vectors \in Partial(Nat, Soups)
        /\ \A k \in DOMAIN vectors :
              k \in DOMAIN runs[r].scenes /\ vectors[k] = runs[r].scenes[k].soup
    <3>0. vectors \in Partial(Nat, Soups)
      BY <2>1, <2>3, PutType
    <3>1. /\ DOMAIN vectors = {i} \cup DOMAIN runs[r].vectors
          /\ vectors[i] = runs[r].scenes[i].soup
          /\ \A y \in (DOMAIN runs[r].vectors) \ {i} : vectors[y] = runs[r].vectors[y]
      BY DEF Put
    <3> HIDE DEF vectors
    <3> QED BY <1>1, <2>2, <3>0, <3>1 DEF Fits
  <2> DEFINE run == [runs[r] EXCEPT !.failed = 0, !.vectors = vectors]
  <2>5. runs' = [runs EXCEPT ![r] = run]
    BY <1>5
  <2>6. 0 \in 0 .. EmbedAttempts - 1
    BY DEF EmbedAttempts
  <2> HIDE DEF vectors
  <2>7. /\ run \in RunSet /\ run.pc = "embed" /\ run.job = runs[r].job
        /\ run.again = runs[r].again /\ run.scenes = runs[r].scenes
        /\ run.plan = runs[r].plan /\ run.gone = runs[r].gone
        /\ run.written = runs[r].written /\ run.vectors = vectors
    BY <1>1, <2>4, <2>6 DEF RunSet
  <2> HIDE DEF run
  <2> QED BY <1>3, <2>4, <2>5, <2>7
<1>6. ASSUME runs[r].failed + 1 < EmbedAttempts, runs' = [runs EXCEPT ![r].failed = @ + 1]
      PROVE  Inv'
  <2> DEFINE run == [runs[r] EXCEPT !.failed = @ + 1]
  <2>1. runs[r].failed + 1 \in 0 .. EmbedAttempts - 1
    BY <1>1, <1>6 DEF RunSet, EmbedAttempts
  <2>2. runs' = [runs EXCEPT ![r] = run]
    BY <1>6
  <2>3. /\ run \in RunSet /\ run.pc = "embed" /\ run.job = runs[r].job
        /\ run.again = runs[r].again /\ run.scenes = runs[r].scenes
        /\ run.plan = runs[r].plan /\ run.gone = runs[r].gone
        /\ run.written = runs[r].written /\ run.vectors = runs[r].vectors
    BY <1>1, <2>1 DEF RunSet
  <2> HIDE DEF run
  <2> QED BY <1>1, <1>3, <2>2, <2>3 DEF Fits
<1> QED BY <1>2, <1>4, <1>5, <1>6

LEMMA StartDeleteInv ==
    ASSUME Inv, NEW r \in Runs, StartDelete(r)
    PROVE  Inv'
<1> DEFINE left == IF runs[r].again THEN runs[r].plan.delete ELSE IdsOf(rows)
           run == [runs[r] EXCEPT !.pc = "deleting", !.left = left]
<1>1. /\ runs[r] \in RunSet /\ runs[r].job \in Jobs /\ runs[r].pc = "embed"
      /\ runs[r].scenes \in Manifests \ {<<>>} /\ Pending(runs[r]) = {}
      /\ Untouched(runs[r]) /\ Fits(runs[r])
      /\ r \in alone => Planned(runs[r])
  BY DEF Inv, RunOK, LoneOK, StartDelete
<1>2. left = ToDelete(runs[r]) /\ left \subseteq Ids
  <2>1. runs[r].plan \in PlanSet
    BY <1>1 DEF RunSet
  <2>2. IdsOf(rows) \subseteq Ids
    BY DEF Inv, TableOK, Rows, IdsOf
  <2> QED BY <2>1, <2>2 DEF ToDelete, PlanSet
<1>3. runs' = [runs EXCEPT ![r] = run]
  BY DEF StartDelete
<1> HIDE DEF left
<1>4. /\ run \in RunSet /\ run.pc = "deleting" /\ run.job \in Jobs /\ run.left = left
      /\ Untouched(run) /\ run.plan = runs[r].plan /\ run.scenes = runs[r].scenes
      /\ run.again = runs[r].again /\ run.vectors = runs[r].vectors
      /\ run.written = runs[r].written
  BY <1>1, <1>2 DEF RunSet, Pcs, Untouched
<1> HIDE DEF run
<1>5. RunOK(run)
  BY <1>1, <1>4 DEF RunOK, Fits, Pending
<1>6. ToDelete(run) = left
  BY <1>2, <1>4 DEF ToDelete
<1>7. r \in alone => LoneOK(run)
  BY <1>1, <1>4, <1>6 DEF LoneOK, Planned, Untouched
<1> QED BY <1>1, <1>3, <1>5, <1>7, RunMoves DEF StartDelete, Inv

LEMMA DeleteRowInv ==
    ASSUME Inv, NEW r \in Runs, NEW id \in Ids, DeleteRow(r, id)
    PROVE  Inv'
<1> DEFINE gone == runs[r].gone \cup ({id} \cap IdsOf(rows))
           run == [runs[r] EXCEPT !.left = @ \ {id}, !.gone = gone]
<1>1. /\ runs[r] \in RunSet /\ runs[r].job \in Jobs /\ runs[r].pc = "deleting"
      /\ runs[r].scenes \in Manifests \ {<<>>} /\ Pending(runs[r]) = {}
      /\ Fits(runs[r]) /\ id \in runs[r].left
  BY DEF Inv, RunOK, DeleteRow
<1>2. gone \subseteq Ids
  BY <1>1 DEF RunSet
<1>3. runs' = [runs EXCEPT ![r] = run]
  BY DEF DeleteRow
<1>4. /\ run \in RunSet /\ run.pc = "deleting" /\ run.job \in Jobs
      /\ run.left = runs[r].left \ {id} /\ run.gone = gone
      /\ run.plan = runs[r].plan /\ run.scenes = runs[r].scenes
      /\ run.again = runs[r].again /\ run.vectors = runs[r].vectors
      /\ run.written = runs[r].written
  BY <1>1, <1>2 DEF RunSet
<1> HIDE DEF run
<1>5. RunOK(run)
  BY <1>1, <1>4 DEF RunOK, Fits, Pending
<1>6. ASSUME r \in alone PROVE LoneOK(run)
  <2>1. /\ Planned(runs[r]) /\ DOMAIN runs[r].written = {}
        /\ runs[r].left \subseteq ToDelete(runs[r])
        /\ runs[r].gone = ToDelete(runs[r]) \ runs[r].left
    BY <1>1, <1>6 DEF Inv, LoneOK
  <2>2. ToDelete(runs[r]) \subseteq IdsOf(rows)
    BY <1>1, <2>1, PlanType DEF Inv, RunSet
  <2>3. gone = ToDelete(runs[r]) \ (runs[r].left \ {id})
    BY <1>1, <2>1, <2>2
  <2>4. Planned(run) /\ ToDelete(run) = ToDelete(runs[r])
    BY <1>4, <2>1 DEF Planned, ToDelete
  <2> HIDE DEF gone
  <2> QED BY <1>4, <2>1, <2>3, <2>4 DEF LoneOK
<1> QED BY <1>1, <1>3, <1>5, <1>6, RunMoves DEF DeleteRow, Inv

LEMMA StartUpdatesInv ==
    ASSUME Inv, NEW r \in Runs, StartUpdates(r)
    PROVE  Inv'
<1> DEFINE left == DOMAIN runs[r].plan.update
           run == [runs[r] EXCEPT !.pc = "writing", !.left = left]
<1>1. /\ runs[r] \in RunSet /\ runs[r].job \in Jobs /\ runs[r].pc = "deleting"
      /\ runs[r].scenes \in Manifests \ {<<>>} /\ Pending(runs[r]) = {}
      /\ Fits(runs[r]) /\ runs[r].left = {}
  BY DEF Inv, RunOK, StartUpdates
<1>2. left \subseteq Nat
  BY <1>1 DEF Fits, RunSet
<1>3. runs' = [runs EXCEPT ![r] = run]
  BY DEF StartUpdates
<1> HIDE DEF left
<1>4. /\ run \in RunSet /\ run.pc = "writing" /\ run.job \in Jobs /\ run.left = left
      /\ run.gone = runs[r].gone
      /\ run.plan = runs[r].plan /\ run.scenes = runs[r].scenes
      /\ run.again = runs[r].again /\ run.vectors = runs[r].vectors
      /\ run.written = runs[r].written
  BY <1>1, <1>2 DEF RunSet, Pcs
<1> HIDE DEF run
<1>5. RunOK(run)
  BY <1>1, <1>4 DEF RunOK, Fits, Pending, left
<1>6. ASSUME r \in alone PROVE LoneOK(run)
  <2>0. Planned(runs[r]) /\ runs[r].gone = ToDelete(runs[r]) \ runs[r].left
    BY <1>1, <1>6 DEF Inv, LoneOK
  <2>1. Planned(runs[r]) /\ runs[r].gone = ToDelete(runs[r])
    BY <1>1, <2>0
  <2>2. Planned(run) /\ ToDelete(run) = ToDelete(runs[r])
    BY <1>4, <2>1 DEF Planned, ToDelete
  <2> QED BY <1>4, <2>1, <2>2 DEF LoneOK, left
<1> QED BY <1>1, <1>3, <1>5, <1>6, RunMoves DEF StartUpdates, Inv

LEMMA UpdateRowInv ==
    ASSUME Inv, NEW r \in Runs, UpdateRow(r)
    PROVE  Inv'
<1>1. /\ runs[r] \in RunSet /\ runs[r].job \in Jobs /\ runs[r].pc = "writing"
      /\ runs[r].scenes \in Manifests \ {<<>>} /\ Pending(runs[r]) = {}
      /\ Fits(runs[r])
  BY DEF Inv, RunOK, UpdateRow
<1>2. PICK i \in runs[r].left :
         LET id == runs[r].plan.update[i] IN
         runs' = [runs EXCEPT ![r].left = @ \ {i},
                     ![r].written = IF id \in IdsOf(rows) THEN Put(@, id, i) ELSE @]
  BY DEF UpdateRow
<1> DEFINE id == runs[r].plan.update[i]
           written == IF id \in IdsOf(rows) THEN Put(runs[r].written, id, i)
                                            ELSE runs[r].written
           run == [runs[r] EXCEPT !.left = @ \ {i}, !.written = written]
<1>3. runs' = [runs EXCEPT ![r] = run]
  BY <1>2
<1>4. i \in DOMAIN runs[r].plan.update /\ i \in Nat /\ id \in Ids
  <2>1. runs[r].plan \in PlanSet /\ i \in DOMAIN runs[r].plan.update
    BY <1>1, <1>2 DEF RunSet, Inv, RunOK
  <2>2. PICK D \in SUBSET Nat : runs[r].plan.update \in [D -> Ids]
    BY <2>1 DEF PlanSet, Partial
  <2> QED BY <2>1, <2>2
<1>5. /\ written \in Partial(Ids, Nat)
      /\ \A x \in DOMAIN written : written[x] \in DOMAIN runs[r].plan.update
                                 /\ runs[r].plan.update[written[x]] = x
      /\ DOMAIN runs[r].written \subseteq DOMAIN written
      /\ id \in IdsOf(rows) => id \in DOMAIN written
  <2>1. runs[r].written \in Partial(Ids, Nat)
    BY <1>1 DEF RunSet
  <2>6. Put(runs[r].written, id, i) \in Partial(Ids, Nat)
    BY <1>4, <2>1, PutType
  <2>2. /\ DOMAIN Put(runs[r].written, id, i) = {id} \cup DOMAIN runs[r].written
        /\ Put(runs[r].written, id, i)[id] = i
        /\ \A y \in (DOMAIN runs[r].written) \ {id} :
              Put(runs[r].written, id, i)[y] = runs[r].written[y]
    BY DEF Put
  <2>3. \A x \in DOMAIN runs[r].written :
           /\ runs[r].written[x] \in DOMAIN runs[r].plan.update
           /\ runs[r].plan.update[runs[r].written[x]] = x
    BY <1>1 DEF Fits
  <2>4. CASE id \in IdsOf(rows)
    <3>1. written = Put(runs[r].written, id, i)
      BY <2>4
    <3>2. runs[r].plan.update[i] = id
      OBVIOUS
    <3> HIDE DEF written, id
    <3> QED BY <1>4, <2>2, <2>3, <2>6, <3>1, <3>2
  <2>5. CASE id \notin IdsOf(rows)
    <3>1. written = runs[r].written
      BY <2>5
    <3> HIDE DEF written, id
    <3> QED BY <2>1, <2>3, <2>5, <3>1
  <2> QED BY <2>4, <2>5
<1> HIDE DEF written
<1>6. /\ run \in RunSet /\ run.pc = "writing" /\ run.job \in Jobs
      /\ run.left = runs[r].left \ {i} /\ run.gone = runs[r].gone
      /\ run.plan = runs[r].plan /\ run.scenes = runs[r].scenes
      /\ run.again = runs[r].again /\ run.vectors = runs[r].vectors
      /\ run.written = written
  BY <1>1, <1>5 DEF RunSet
<1> HIDE DEF run
<1>7. runs[r].left \subseteq DOMAIN runs[r].plan.update
  BY <1>1 DEF Inv, RunOK
<1>8. RunOK(run)
  BY <1>1, <1>5, <1>6, <1>7 DEF RunOK, Fits, Pending
<1>9. ASSUME r \in alone PROVE LoneOK(run)
  <2>1. /\ Planned(runs[r]) /\ runs[r].gone = ToDelete(runs[r])
        /\ \A k \in (DOMAIN runs[r].plan.update) \ runs[r].left :
              runs[r].plan.update[k] \in DOMAIN runs[r].written
    BY <1>1, <1>9 DEF Inv, LoneOK
  <2>2. id \in IdsOf(rows)
    BY <1>1, <1>4, <2>1, PlanType DEF Inv, RunSet, IdsOf
  <2>3. Planned(run) /\ ToDelete(run) = ToDelete(runs[r])
    BY <1>6, <2>1 DEF Planned, ToDelete
  <2>4. \A k \in (DOMAIN run.plan.update) \ run.left :
            run.plan.update[k] \in DOMAIN run.written
    BY <1>5, <1>6, <2>1, <2>2
  <2> QED BY <1>6, <2>1, <2>3, <2>4 DEF LoneOK
<1> QED BY <1>1, <1>3, <1>8, <1>9, RunMoves DEF UpdateRow, Inv

-----------------------------------------------------------------------------
(* The commit. *)

LEMMA RunsSceneType ==
    ASSUME Inv, NEW r \in Runs, NEW i \in DOMAIN runs[r].scenes
    PROVE  /\ runs[r].scenes \in Manifests /\ runs[r].scenes[i] \in Scenes
           /\ i \in Nat
<1>1. runs[r].scenes \in Manifests \cup {<<>>}
  BY DEF Inv, RunOK
<1>2. DOMAIN <<>> = {}
  OBVIOUS
<1>3. runs[r].scenes \in Manifests
  BY <1>1, <1>2
<1>4. \A s \in Seq(Scenes) : \A k \in DOMAIN s : k \in Nat /\ s[k] \in Scenes
  OBVIOUS
<1> QED BY <1>3, <1>4, ManifestsAssumption

\* Where a row of the new table comes from: it was there before, with the same
\* time range, or it holds a scene of the manifest under a new id.
LEMMA RowOrigin ==
    ASSUME Inv, NEW r \in Runs, runs[r].pc = "writing",
           NEW id \in Injection(runs[r].plan.create, Unused),
           NEW x \in Committed(runs[r], id)
    PROVE  LET scenes == runs[r].scenes IN
           /\ x \in Rows
           /\ \/ \E y \in rows :
                    /\ x = Updated(runs[r], y) /\ x.id = y.id /\ x.range = y.range
                    /\ \/ x = y
                       \/ \E i \in DOMAIN scenes :
                             /\ SceneKey(y) = SceneKey(scenes[i])
                             /\ x.soup = scenes[i].soup /\ x.vector = scenes[i].soup
              \/ \E i \in runs[r].plan.create :
                    /\ i \in DOMAIN scenes /\ x.id = id[i] /\ x.id \in Unused
                    /\ x = [id |-> id[i], range |-> scenes[i].range,
                            soup |-> scenes[i].soup, vector |-> scenes[i].soup]
<1> DEFINE run == runs[r]
           scenes == runs[r].scenes
<1>1. Fits(run) /\ Pending(run) = {} /\ rows \subseteq Rows
  BY DEF Inv, RunOK, TableOK
<1>2. \A i \in DOMAIN scenes : scenes[i] \in Scenes
  BY RunsSceneType
<1>3. id \in [run.plan.create -> Unused] /\ Unused \subseteq Ids
  BY DEF Injection, IsInjective, Unused
<1> HIDE DEF run, scenes
<1>4. \A i \in run.plan.create \cup DOMAIN run.plan.update :
          i \in DOMAIN scenes /\ run.vectors[i] = scenes[i].soup
  BY <1>1 DEF Fits, Pending, run, scenes
<1>5. CASE \E y \in rows : x = Updated(run, y)
  <2>1. PICK y \in rows : x = Updated(run, y)
    BY <1>5
  <2>2. CASE y.id \notin DOMAIN run.written
    <3>1. x = y
      BY <2>1, <2>2 DEF Updated
    <3> QED BY <1>1, <2>1, <3>1 DEF run
  <2>3. CASE y.id \in DOMAIN run.written
    <3> DEFINE i == run.written[y.id]
    <3>1. i \in DOMAIN run.plan.update /\ run.plan.update[i] = y.id
      BY <1>1, <2>3 DEF Fits
    <3>2. i \in DOMAIN scenes /\ run.vectors[i] = scenes[i].soup
      BY <1>4, <3>1
    <3>3. SceneKey(y) = SceneKey(scenes[i])
      BY <1>1, <3>1 DEF Fits, run, scenes
    <3>4. x = [y EXCEPT !.soup = scenes[i].soup, !.vector = scenes[i].soup]
      BY <2>1, <2>3, <3>2 DEF Updated, run, scenes
    <3>5. y \in Rows /\ scenes[i].soup \in Soups
      BY <1>1, <1>2, <3>2 DEF Scenes
    <3> HIDE DEF i
    <3>6. /\ x \in Rows /\ x.id = y.id /\ x.range = y.range
          /\ x.soup = scenes[i].soup /\ x.vector = scenes[i].soup
      BY <3>4, <3>5 DEF Rows
    <3> QED BY <2>1, <3>2, <3>3, <3>6 DEF run, scenes
  <2> QED BY <2>2, <2>3
<1>6. CASE x \in NewRows(run, id)
  <2>1. PICK i \in run.plan.create :
           x = [id |-> id[i], range |-> scenes[i].range, soup |-> scenes[i].soup,
                vector |-> run.vectors[i]]
    BY <1>6 DEF NewRows, run, scenes
  <2>2. i \in DOMAIN scenes /\ run.vectors[i] = scenes[i].soup /\ id[i] \in Unused
    BY <1>3, <1>4
  <2>3. scenes[i] \in Scenes
    BY <1>2, <2>2
  <2>4. x \in Rows
    BY <1>3, <2>1, <2>2, <2>3 DEF Rows, Scenes
  <2> QED BY <2>1, <2>2, <2>4 DEF run, scenes
<1> QED BY <1>5, <1>6 DEF Committed, run

\* Whoever else is at work, a commit leaves rows that hold a scene each, with its
\* vector, and no row under an id that a plan names but with another time range.
LEMMA CommitTable ==
    ASSUME Inv, NEW r \in Runs, Commit(r)
    PROVE  /\ TableOK' /\ (VectorsFit => VectorsFit')
           /\ Contents(rows)' \subseteq Contents(rows) \cup ContentsOf(runs[r].scenes)
           /\ \A s \in Runs : \A i \in DOMAIN runs[s].plan.update : \A row \in rows' :
                 row.id = runs[s].plan.update[i]
                 => SceneKey(row) = SceneKey(runs[s].scenes[i])
<1> DEFINE scenes == runs[r].scenes
<1>1. PICK id \in Injection(runs[r].plan.create, Unused) : rows' = Committed(runs[r], id)
  BY DEF Commit
<1>2. \A x \in rows' :
           /\ x \in Rows
           /\ \/ \E y \in rows :
                    /\ x = Updated(runs[r], y) /\ x.id = y.id /\ x.range = y.range
                    /\ \/ x = y
                       \/ \E i \in DOMAIN scenes :
                             /\ SceneKey(y) = SceneKey(scenes[i])
                             /\ x.soup = scenes[i].soup /\ x.vector = scenes[i].soup
              \/ \E i \in runs[r].plan.create :
                    /\ i \in DOMAIN scenes /\ x.id = id[i] /\ x.id \in Unused
                    /\ x = [id |-> id[i], range |-> scenes[i].range,
                            soup |-> scenes[i].soup, vector |-> scenes[i].soup]
  BY <1>1, RowOrigin DEF Commit
<1>3. \A x \in rows : x.id \notin Unused
  BY DEF Unused, IdsOf
<1>4. TableOK'
  <2>1. \A i, k \in runs[r].plan.create : id[i] = id[k] => i = k
    BY <1>1 DEF Injection, IsInjective
  <2>2. UniqueIds(rows)'
    <3> SUFFICES ASSUME NEW x \in rows', NEW z \in rows', x.id = z.id PROVE x = z
      BY DEF UniqueIds
    <3>1. CASE x.id \in Unused
      BY <1>2, <1>3, <2>1, <3>1
    <3>2. CASE x.id \notin Unused
      <4>1. PICK y \in rows : x = Updated(runs[r], y) /\ x.id = y.id
        BY <1>2, <3>2
      <4>2. PICK w \in rows : z = Updated(runs[r], w) /\ z.id = w.id
        BY <1>2, <3>2
      <4>3. y = w
        BY <4>1, <4>2 DEF Inv, TableOK, UniqueIds
      <4> QED BY <4>1, <4>2, <4>3
    <3> QED BY <3>1, <3>2
  <2> QED BY <1>2, <2>2 DEF TableOK
<1>5. ASSUME NEW x \in rows'
      PROVE  \/ \E y \in rows : Pair(x) = Pair(y)
             \/ \E i \in DOMAIN scenes : Pair(x) = Pair(scenes[i])
  <2>1. CASE \E y \in rows : x = y
    BY <2>1
  <2>2. CASE \E y \in rows, i \in DOMAIN scenes :
                /\ x.range = y.range /\ SceneKey(y) = SceneKey(scenes[i])
                /\ x.soup = scenes[i].soup
    BY <2>2 DEF Pair, SceneKey
  <2>3. CASE \E i \in DOMAIN scenes : x.range = scenes[i].range /\ x.soup = scenes[i].soup
    BY <2>3 DEF Pair, SceneKey
  <2> QED BY <1>2, <2>1, <2>2, <2>3
<1>6. Contents(rows)' \subseteq Contents(rows) \cup ContentsOf(scenes)
  <2>1. \A x \in rows' : Pair(x) \in Contents(rows) \cup ContentsOf(scenes)
    BY <1>5 DEF Contents, ContentsOf
  <2> QED BY <2>1 DEF Contents
<1>7. VectorsFit => VectorsFit'
  BY <1>2 DEF VectorsFit
<1>8. ASSUME NEW s \in Runs, NEW i \in DOMAIN runs[s].plan.update, NEW x \in rows',
             x.id = runs[s].plan.update[i]
      PROVE  SceneKey(x) = SceneKey(runs[s].scenes[i])
  <2>1. x.id \notin Unused
    BY <1>8 DEF Unused, Named, Range
  <2>2. PICK y \in rows : x.id = y.id /\ x.range = y.range
    BY <1>2, <2>1
  <2>3. Fits(runs[s])
    BY DEF Inv, RunOK
  <2>4. SceneKey(y) = SceneKey(runs[s].scenes[i])
    BY <1>8, <2>2, <2>3 DEF Fits
  <2> QED BY <2>2, <2>4 DEF SceneKey
<1> QED BY <1>4, <1>6, <1>7, <1>8

\* The commit of a run that nobody overlaps leaves exactly the scenes of its
\* manifest.
LEMMA CommitIsExact ==
    ASSUME DistinctKeys, Inv, NEW r \in alone, Commit(r)
    PROVE  /\ Contents(rows)' = ContentsOf(runs[r].scenes)
           /\ OneRowPerKey(rows)'
<1> DEFINE run == runs[r]
<1>1. /\ r \in Runs /\ run.pc = "writing" /\ Planned(run) /\ run.gone = ToDelete(run)
      /\ Fits(run) /\ Pending(run) = {} /\ TableOK
      /\ \A k \in DOMAIN run.plan.update : run.plan.update[k] \in DOMAIN run.written
  BY DEF Inv, RunOK, LoneOK, Commit
<1>2. PICK id \in Injection(run.plan.create, Unused) : rows' = Committed(run, id)
  BY DEF Commit
<1>3. id \in Injection(run.plan.create, Ids \ IdsOf(rows))
  <2>1. Unused \subseteq Ids \ IdsOf(rows)
    BY DEF Unused
  <2> QED BY <2>1 DEF Injection
<1>4. run.scenes \in Manifests /\ run.scenes \in Seq(Scenes) /\ HasDistinctKeys(run.scenes)
  BY <1>1, ManifestsAssumption DEF Planned, DistinctKeys
<1> HIDE DEF run
<1>5. AllWritten(run) /\ AllEmbedded(run)
  BY <1>1 DEF AllWritten, AllEmbedded, Fits, Pending
<1>6. CASE run.again
  <2>1. PICK idx \in Indexes(rows) : run.plan = PlanReembedding(run.scenes, rows, idx)
    BY <1>1, <1>6 DEF Planned
  <2>2. run.gone = run.plan.delete
    BY <1>1, <1>6 DEF ToDelete
  <2>3. LET table == Committed(run, id) IN
        /\ table \subseteq Rows /\ UniqueIds(table)
        /\ Contents(table) = ContentsOf(run.scenes) /\ OneRowPerKey(table)
    BY <1>1, <1>3, <1>4, <1>5, <2>1, <2>2, PlanIsExact DEF TableOK
  <2> QED BY <1>2, <1>4, <2>3 DEF Contents, OneRowPerKey, run
<1>7. CASE ~run.again
  <2>1. run.plan.create = DOMAIN run.scenes
    BY <1>1, <1>7 DEF Planned, NoPlan
  <2>2. run.gone = IdsOf(rows)
    BY <1>1, <1>7 DEF ToDelete
  <2>3. LET table == Committed(run, id) IN
        Contents(table) = ContentsOf(run.scenes) /\ OneRowPerKey(table)
    BY <1>3, <1>4, <1>5, <2>1, <2>2, ReplaceIsExact
  <2> QED BY <1>2, <1>4, <2>3 DEF Contents, OneRowPerKey, run
<1> QED BY <1>6, <1>7

LEMMA CommitInv ==
    ASSUME Inv, NEW r \in Runs, Commit(r)
    PROVE  Inv'
<1> DEFINE done == [IdleRun EXCEPT !.pc = "complete", !.job = runs[r].job,
                                   !.scenes = runs[r].scenes]
           given == [IdleRun EXCEPT !.pc = "mark", !.job = runs[r].job]
<1>1. /\ runs[r].job \in Jobs /\ runs[r].scenes \in Manifests \ {<<>>}
      /\ runs[r].scenes \in Seq(Scenes) /\ runs[r].pc = "writing"
  BY DEF Inv, RunOK, RunSet, Commit
<1>2. PICK run : /\ runs' = [runs EXCEPT ![r] = run]
                 /\ run \in {done, given}
  BY DEF Commit, GiveUp
<1>3. /\ run \in RunSet /\ run.job \in Jobs /\ run.pc \in {"complete", "mark"}
      /\ run.scenes \in Manifests \cup {<<>>}
      /\ run.pc = "complete" => run.scenes = runs[r].scenes
      /\ run.plan = NoPlan /\ DOMAIN run.vectors = {} /\ Untouched(run)
  <2>1. /\ done \in RunSet /\ done.job \in Jobs /\ done.pc = "complete"
        /\ done.scenes = runs[r].scenes
    BY <1>1, IdleRunSet DEF RunSet, Pcs
  <2>2. done.plan = NoPlan /\ DOMAIN done.vectors = {} /\ Untouched(done)
    BY DEF IdleRun, Untouched
  <2>3. given \in RunSet /\ given.job \in Jobs /\ given.pc = "mark"
    BY <1>1, IdleRunSet DEF RunSet, Pcs
  <2>4. given.scenes = <<>> /\ given.plan = NoPlan /\ DOMAIN given.vectors = {}
        /\ Untouched(given)
    BY DEF IdleRun, Untouched
  <2> HIDE DEF done, given
  <2> QED BY <1>1, <1>2, <2>1, <2>2, <2>3, <2>4
<1> HIDE DEF done, given
<1>4. /\ TableOK'
      /\ \A s \in Runs : \A i \in DOMAIN runs[s].plan.update : \A row \in rows' :
            row.id = runs[s].plan.update[i] => SceneKey(row) = SceneKey(runs[s].scenes[i])
  BY CommitTable
<1>5. DOMAIN runs' = Runs /\ runs'[r] = run /\ \A s \in Runs \ {r} : runs'[s] = runs[s]
  BY <1>2 DEF Inv
<1>6. ASSUME NEW s \in Runs PROVE RunOK(runs[s])'
  <2>1. CASE s = r
    <3>1. Fits(run)'
      BY <1>3 DEF Fits, NoPlan, Untouched
    <3>2. RunOK(run)'
      BY <1>1, <1>3, <3>1 DEF RunOK
    <3> QED BY <1>5, <2>1, <3>2
  <2>2. CASE s # r
    <3>1. RunOK(runs[s])
      BY DEF Inv
    <3>2. Fits(runs[s]) /\ runs'[s] = runs[s]
      BY <1>5, <2>2, <3>1 DEF RunOK
    <3>3. Fits(runs[s])'
      BY <1>4, <3>2 DEF Fits
    <3> QED BY <3>1, <3>2, <3>3 DEF RunOK
  <2> QED BY <2>1, <2>2
<1>7. ASSUME NEW s \in alone'
      PROVE  LoneOK(runs[s])' /\ \A q \in Runs \ {s} : runs'[q].pc = "idle"
  <2>1. s \in alone /\ s = r
    BY <1>1, <1>7 DEF Inv, Commit
  <2>2. \A q \in Runs \ {s} : runs'[q].pc = "idle"
    BY <1>5, <2>1 DEF Inv
  <2>3. DistinctKeys => /\ Contents(rows)' = ContentsOf(runs[r].scenes)
                        /\ OneRowPerKey(rows)'
    BY <2>1, CommitIsExact
  <2>4. LoneOK(run)'
    BY <1>3, <2>3 DEF LoneOK, Contents
  <2> QED BY <1>5, <2>1, <2>2, <2>4
<1> QED BY <1>4, <1>5, <1>6, <1>7 DEF Inv, Commit

LEMMA ManifestInv ==
    ASSUME Inv, manifest' \in [Jobs -> Manifests], status' \in [Jobs -> Statuses],
           UNCHANGED <<rows, runs, alone>>
    PROVE  Inv'
<1>1. ASSUME NEW r \in Runs PROVE RunOK(runs[r])'
  <2>1. RunOK(runs[r])
    BY DEF Inv
  <2> QED BY <2>1 DEF RunOK, Fits
<1>2. ASSUME NEW r \in alone' PROVE LoneOK(runs[r])'
  <2>1. LoneOK(runs[r])
    BY <1>2 DEF Inv
  <2> QED BY <2>1 DEF LoneOK, Planned, ToDelete, Contents
<1> QED BY <1>1, <1>2 DEF Inv, TableOK, Contents

LEMMA StepInv ==
    ASSUME Inv, NEW r \in Runs, Step(r)
    PROVE  Inv'
<1>0. \A s \in Statuses : \A j \in Jobs : [status EXCEPT ![j] = s] \in [Jobs -> Statuses]
  BY DEF Inv
<1>1. CASE Begin(r) BY <1>1, BeginInv
<1>2. CASE LoadManifest(r) BY <1>2, LoadManifestInv
<1>3. CASE ReadScenes(r) BY <1>3, ReadScenesInv
<1>4. CASE EmbedScene(r) BY <1>4, EmbedSceneInv
<1>5. CASE StartDelete(r) BY <1>5, StartDeleteInv
<1>6. CASE \E id \in Ids : DeleteRow(r, id) BY <1>6, DeleteRowInv
<1>7. CASE StartUpdates(r) BY <1>7, StartUpdatesInv
<1>8. CASE UpdateRow(r) BY <1>8, UpdateRowInv
<1>9. CASE Commit(r) BY <1>9, CommitInv
<1>10. CASE AbortDeadlocked(r)
  BY <1>10, GiveUpInv DEF AbortDeadlocked, InTransaction
<1>11. CASE Complete(r)
  <2>1. status' \in [Jobs -> Statuses]
    BY <1>0, <1>11 DEF Complete, Inv, RunOK, Statuses
  <2> QED BY <1>11, <2>1, IdleInv DEF Complete
<1>12. CASE MarkFailed(r)
  <2>1. status' \in [Jobs -> Statuses]
    BY <1>0, <1>12 DEF MarkFailed, Inv, RunOK, Statuses
  <2> QED BY <1>12, <2>1, IdleInv DEF MarkFailed
<1> QED BY <1>1, <1>2, <1>3, <1>4, <1>5, <1>6, <1>7, <1>8, <1>9, <1>10, <1>11, <1>12
        DEF Step

LEMMA Initially ==
    ASSUME Init PROVE Inv
<1>1. TableOK
  BY TablesAssumption DEF Init, TableOK
<1>2. \A r \in Runs : runs[r] = IdleRun
  BY DEF Init
<1>3. /\ DOMAIN runs = Runs /\ manifest \in [Jobs -> Manifests] /\ alone = {}
      /\ status \in [Jobs -> Statuses]
  BY DEF Init, Statuses
<1>4. \A r \in Runs : RunOK(runs[r])
  BY <1>2, IdleRunOK
<1> QED BY <1>1, <1>3, <1>4 DEF Inv

LEMMA NextInv ==
    ASSUME Inv, [Next]_vars
    PROVE  Inv'
<1>1. ASSUME NEW r \in Runs, NEW j \in Jobs, Start(r, j) PROVE Inv'
  BY <1>1, StartInv
<1>2. ASSUME NEW r \in Runs, Step(r) PROVE Inv'
  BY <1>2, StepInv
<1>3. ASSUME NEW r \in Runs, Fail(r) PROVE Inv'
  BY <1>3, GiveUpInv DEF Fail, InTransaction
<1>4. ASSUME NEW r \in Runs, Crash(r) PROVE Inv'
  BY <1>4, IdleInv DEF Crash, Inv
<1>5. ASSUME NEW j \in Jobs, Analyze(j) \/ EditManifest(j) PROVE Inv'
  <2>1. manifest' \in [Jobs -> Manifests] /\ status' \in [Jobs -> Statuses]
    BY <1>5 DEF Analyze, EditManifest, Inv, Statuses
  <2> QED BY <1>5, <2>1, ManifestInv DEF Analyze, EditManifest
<1>6. CASE UNCHANGED vars
  BY <1>6, ManifestInv DEF vars, Inv
<1> QED BY <1>1, <1>2, <1>3, <1>4, <1>5, <1>6 DEF Next

\* Every reachable state is in order, for any number of runs.
THEOREM Invariance == Spec => []Inv
<1>1. Init => Inv
  BY Initially
<1>2. Inv /\ [Next]_vars => Inv'
  BY NextInv
<1> QED BY <1>1, <1>2, PTL DEF Spec

-----------------------------------------------------------------------------
(* What it implies. *)

\* Types, and that what a run has embedded and written belongs to its manifest.
THEOREM TypeCorrect == Spec => []TypeOK
<1>1. Inv => TypeOK
  <2> SUFFICES ASSUME Inv, NEW r \in Runs
               PROVE  /\ runs[r].pc \in Pcs
                      /\ runs[r].job \in Jobs \cup {NoJob}
                      /\ runs[r].scenes \in Manifests \cup {<<>>}
                      /\ DOMAIN runs[r].vectors \subseteq DOMAIN runs[r].scenes
                      /\ runs[r].failed \in 0 .. EmbedAttempts - 1
                      /\ runs[r].gone \subseteq Ids
                      /\ \A id \in DOMAIN runs[r].written :
                            runs[r].plan.update[runs[r].written[id]] = id
    BY DEF TypeOK, Inv, TableOK
  <2>1. runs[r] \in RunSet /\ runs[r].scenes \in Manifests \cup {<<>>} /\ Fits(runs[r])
    BY DEF Inv, RunOK
  <2> QED BY <2>1 DEF RunSet, Fits
<1> QED BY <1>1, Invariance, PTL

\* Of any number of runs, one that nobody overlapped and that reports COMPLETED
\* has stored one row for each scene of its manifest and no other, whatever
\* earlier runs left in the table.
THEOREM LoneStores ==
    ASSUME DistinctKeys
    PROVE  Spec => []StoredBeforeComplete
<1>1. Inv => StoredBeforeComplete
  BY DEF Inv, LoneOK, StoredBeforeComplete
<1> QED BY <1>1, Invariance, PTL

\* Only a commit changes the table.
LEMMA TableChanges ==
    ASSUME [Next]_vars, rows' # rows
    PROVE  \E r \in Runs : Commit(r)
BY DEF Next, vars, Start, Step, Begin, LoadManifest, ReadScenes, EmbedScene, StartDelete,
       DeleteRow, StartUpdates, UpdateRow, AbortDeadlocked, Complete, MarkFailed, Fail,
       Crash, Analyze, EditManifest

\* However many runs overlap, every stored vector is that of the stored text.
THEOREM AnyRunsVectors ==
    ASSUME TablesFit
    PROVE  Spec => []VectorsFit
<1>1. Init => VectorsFit
  BY DEF Init, VectorsFit, TablesFit
<1>2. Inv /\ VectorsFit /\ [Next]_vars => VectorsFit'
  <2> SUFFICES ASSUME Inv, VectorsFit, [Next]_vars PROVE VectorsFit'
    OBVIOUS
  <2>1. CASE rows' = rows
    BY <2>1 DEF VectorsFit
  <2>2. CASE rows' # rows
    BY <2>2, TableChanges, CommitTable
  <2> QED BY <2>1, <2>2
<1> QED BY <1>1, <1>2, Invariance, PTL DEF Spec

\* A re-embedding that nobody overlaps leaves alone what its manifest has not
\* changed.
THEOREM LoneKeeps ==
    ASSUME DistinctKeys
    PROVE  Spec => KeepsUnchangedRows
<1>1. ASSUME Inv, [Next]_vars, NEW r \in alone, runs[r].again, rows' # rows,
             runs'[r] # runs[r], NEW x \in rows, Pair(x) \in ContentsOf(runs[r].scenes),
             \A y \in rows : SceneKey(x) = SceneKey(y) => x = y
      PROVE  x \in rows'
  <2> DEFINE run == runs[r]
             scenes == runs[r].scenes
  <2>1. Commit(r) /\ r \in Runs
    <3>1. PICK q \in Runs : Commit(q)
      BY <1>1, TableChanges
    <3>2. r \in Runs /\ \A s \in Runs \ {r} : runs[s].pc = "idle"
      BY <1>1 DEF Inv
    <3>3. runs[q].pc = "writing"
      BY <3>1 DEF Commit
    <3>4. q = r
      BY <3>2, <3>3
    <3> QED BY <3>1, <3>2, <3>4
  <2>2. /\ Planned(run) /\ run.gone = ToDelete(run) /\ Fits(run) /\ UniqueIds(rows)
    BY <1>1, <2>1 DEF Inv, RunOK, LoneOK, Commit, TableOK
  <2>3. HasDistinctKeys(scenes)
    BY <2>2 DEF Planned, DistinctKeys
  <2>4. PICK idx \in Indexes(rows) : run.plan = PlanReembedding(scenes, rows, idx)
    BY <1>1, <2>2 DEF Planned
  <2>5. PICK i \in DOMAIN scenes : SceneKey(scenes[i]) = SceneKey(x) /\ scenes[i].soup = x.soup
    BY <1>1 DEF ContentsOf, Pair
  <2> HIDE DEF run, scenes
  <2>6. i \in Found(scenes, idx) /\ Existing(scenes, idx, i) = x
    BY <1>1, <2>5 DEF Found, Existing, Indexes
  <2>7. x.id \notin run.gone
    BY <1>1, <2>2, <2>4, <2>6 DEF ToDelete, PlanReembedding, Processed, run
  <2>8. x.id \notin DOMAIN run.written
    <3> SUFFICES ASSUME x.id \in DOMAIN run.written PROVE FALSE
      OBVIOUS
    <3> DEFINE k == run.written[x.id]
    <3>1. k \in DOMAIN run.plan.update /\ run.plan.update[k] = x.id
      BY <2>2 DEF Fits
    <3> HIDE DEF k
    <3>2. /\ k \in Found(scenes, idx) /\ Existing(scenes, idx, k).id = x.id
          /\ Existing(scenes, idx, k).soup # scenes[k].soup
      BY <2>4, <3>1 DEF PlanReembedding, ToUpdate
    <3>3. Existing(scenes, idx, k) \in rows
          /\ SceneKey(Existing(scenes, idx, k)) = SceneKey(scenes[k]) /\ k \in DOMAIN scenes
      BY <3>2 DEF Found, Existing, Indexes
    <3>4. Existing(scenes, idx, k) = x
      BY <2>2, <3>2, <3>3 DEF UniqueIds
    <3>5. k = i
      BY <2>3, <2>5, <3>3, <3>4 DEF HasDistinctKeys
    <3> QED BY <2>5, <3>2, <3>4, <3>5
  <2>9. Updated(run, x) = x
    BY <2>8 DEF Updated
  <2>10. PICK id : rows' = Committed(run, id)
    BY <2>1 DEF Commit, run
  <2> QED BY <2>7, <2>9, <2>10 DEF Committed
<1>2. Inv /\ [Next]_vars => [\A r \in alone : runs[r].again /\ rows' # rows /\ runs'[r] # runs[r]
        => \A x \in rows :
              /\ Pair(x) \in ContentsOf(runs[r].scenes)
              /\ \A y \in rows : SceneKey(x) = SceneKey(y) => x = y
              => x \in rows']_vars
  BY <1>1
<1> QED BY <1>2, Invariance, PTL DEF Spec, KeepsUnchangedRows

\* The statements of the transactions implement the replacement of the scenes
\* as a whole, by any number of runs: a commit that nobody overlapped leaves the
\* scenes of its manifest, any other brings in none but those.
THEOREM Replaces ==
    ASSUME DistinctKeys
    PROVE  Spec => ReplacesWhole
<1>1. Init => Table!Init
  BY DEF Init, Table!Init
<1>2. Inv /\ [Next]_vars => [Table!Replace \/ Table!Mix]_(Contents(rows))
  <2> SUFFICES ASSUME Inv, [Next]_vars, rows' # rows PROVE Table!Replace \/ Table!Mix
    BY DEF Contents
  <2>1. PICK r \in Runs : Commit(r)
    BY TableChanges
  <2>2. runs[r].pc = "writing" /\ runs[r].scenes \in Manifests \ {<<>>}
    BY <2>1 DEF Commit, Inv, RunOK
  <2>3. CASE r \in alone
    <3>1. Contents(rows)' = ContentsOf(runs[r].scenes)
      BY <2>1, <2>3, CommitIsExact
    <3> QED BY <2>2, <3>1 DEF Table!Replace
  <2>4. CASE r \notin alone
    <3>1. Contents(rows)' \subseteq Contents(rows) \cup ContentsOf(runs[r].scenes)
      BY <2>1, CommitTable
    <3>2. \E q \in Runs \ alone : runs[q].pc # "idle"
      BY <2>2, <2>4
    <3> QED BY <2>2, <3>1, <3>2 DEF Table!Mix
  <2> QED BY <2>3, <2>4
<1>3. Init /\ [][Next]_vars => Table!Init /\ [][Table!Replace \/ Table!Mix]_(Contents(rows))
  BY <1>1, <1>2, Invariance, PTL DEF Spec
<1> QED BY <1>3 DEF ReplacesWhole, Table!Spec, Spec

-----------------------------------------------------------------------------
(* One run at a time. *)

UnderWayIsAlone == \A r \in Runs : runs[r].pc # "idle" => r \in alone

\* With one run at a time nothing overlaps it.
LEMMA StaysAlone ==
    ASSUME OneAtATime
    PROVE  Spec => []UnderWayIsAlone
<1>1. Init => UnderWayIsAlone
  BY DEF Init, UnderWayIsAlone, IdleRun
<1>2. Inv /\ UnderWayIsAlone /\ [Next]_vars => UnderWayIsAlone'
  <2> SUFFICES ASSUME Inv, UnderWayIsAlone, [Next]_vars, NEW q \in Runs, runs'[q].pc # "idle"
               PROVE  q \in alone'
    BY DEF UnderWayIsAlone
  <2>1. ASSUME NEW r \in Runs, NEW j \in Jobs, Start(r, j) PROVE q \in alone'
    BY <2>1 DEF Start, OneAtATime
  <2>2. CASE UNCHANGED alone /\ runs[q].pc # "idle"
    BY <2>2 DEF UnderWayIsAlone
  <2>3. ASSUME NEW r \in Runs, Step(r) \/ Fail(r), runs[q].pc = "idle" PROVE FALSE
    <3>1. q = r
      BY DEF OneAtATime
    <3> QED BY <2>3, <3>1 DEF Step, Begin, LoadManifest, ReadScenes, EmbedScene, StartDelete,
             DeleteRow, StartUpdates, UpdateRow, Commit, AbortDeadlocked, Complete,
             MarkFailed, Fail, InTransaction
  <2>4. ASSUME NEW r \in Runs, Crash(r) PROVE FALSE
    BY <2>4 DEF Crash, Inv, OneAtATime, IdleRun
  <2>5. ASSUME NEW r \in Runs, Step(r) \/ Fail(r) PROVE UNCHANGED alone
    BY <2>5 DEF Step, Begin, LoadManifest, ReadScenes, EmbedScene, StartDelete,
             DeleteRow, StartUpdates, UpdateRow, Commit, AbortDeadlocked, Complete,
             MarkFailed, Fail
  <2>6. ASSUME NEW j \in Jobs, Analyze(j) \/ EditManifest(j)
        PROVE  UNCHANGED alone /\ runs[q].pc # "idle"
    BY <2>6 DEF Analyze, EditManifest
  <2>7. CASE UNCHANGED vars
    BY <2>2, <2>7 DEF vars
  <2> QED BY <2>1, <2>2, <2>3, <2>4, <2>5, <2>6, <2>7 DEF Next
<1> QED BY <1>1, <1>2, Invariance, PTL DEF Spec

\* Run by run, re-embedding stores each scene of its manifest, as
\* planner.go:34-35 says, and an initial embedding too: what it takes besides is
\* that no manifest repeats a time range.
THEOREM SerialStores ==
    ASSUME OneAtATime, DistinctKeys
    PROVE  Spec => []ReembedStoresManifest
<1>1. StoredBeforeComplete /\ UnderWayIsAlone => ReembedStoresManifest
  BY DEF StoredBeforeComplete, UnderWayIsAlone, ReembedStoresManifest
<1> QED BY <1>1, LoneStores, StaysAlone, PTL

=============================================================================
