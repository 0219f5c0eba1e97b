---------------------------- MODULE MemoryExport ----------------------------
(***************************************************************************)
(* Opening genie-core's memory database and the durable export beside it:  *)
(* the schema migration, the dream cycle that promotes memories, and the   *)
(* MEMORY.md tree rebuilt after every change to a promoted one.            *)
(*                                                                         *)
(* The store's mutex is held across an operation, so operations do not     *)
(* interleave; a step is one statement or one file operation, which may    *)
(* fail, and the process may die between any two.  The order of lines, the *)
(* front matter and the event log are left out, and so are the derived     *)
(* tables (see Memory).                                                    *)
(***************************************************************************)
EXTENDS Naturals, FiniteSets, FiniteSetsExt

CONSTANTS
  MemoIds,         \* rowids
  Contents,           \* contents
  MayHear,       \* those a shared room may hear, by infer_metadata
  FolderOf,        \* the namespace of a content's kind and scope
  Columns,         \* what the migration adds to memories
  PolicyColumns,   \* scope, sensitivity and spoken_policy among them
  MinRecalls,      \* recalls that make a memory a candidate
  MinScore,        \* promotion threshold, in percent
  MaxPromotions,   \* promotions in one cycle
  Measures,        \* relevance and recency a candidate may have, in percent
  MaxRecalls,      \* bound on counted recalls
  MaxChanges,      \* bound on changes to rows and on cycles
  MaxFaults,       \* bound on failing statements and file operations
  MaxDeaths        \* bound on deaths of the process

ASSUME ExportAssumption ==
  /\ MayHear \subseteq Contents /\ PolicyColumns \subseteq Columns
  /\ {MinRecalls, MaxPromotions, MaxRecalls, MaxChanges, MaxFaults, MaxDeaths} \subseteq Nat

VARIABLES
  memos,   \* the table: per id a row, or NoMemo
  schema,  \* user_version is set; columns; this open's migration_degraded
  disk,    \* the files of the export
  job,     \* the operation under way
  worn,    \* changes, faults and deaths so far
  stale    \* history: an operation on the export was cut short since the last whole one

exportVars == <<memos, schema, disk, job, worn, stale>>

NoMemo == [text |-> "", shared |-> TRUE, promoted |-> FALSE, recalls |-> 0, queries |-> 0]
Absent == [plan |-> {}, folders |-> {}, over |-> FALSE, there |-> FALSE]
NoFile == [plan |-> {}, there |-> FALSE]

Rows == {i \in MemoIds : memos[i] # NoMemo}
Promoted == {i \in Rows : memos[i].promoted}

(* Idle when closed or open; otherwise where the operation is, what it has  *)
(* left to do, what the rebuild read, and what the live export was before.  *)
Rest(pc) == [pc |-> pc, todo |-> {}, plan |-> {}, then |-> "open", had |-> FALSE, faults |-> 0]

(* A database of an older release: no column, rows with no policy. *)
ExportInit ==
  /\ memos \in [MemoIds -> {NoMemo} \cup {[NoMemo EXCEPT !.text = t] : t \in Contents}]
  /\ schema = [current |-> FALSE, columns |-> {}, degraded |-> FALSE]
  /\ disk = [live |-> Absent, bak |-> Absent, tmp |-> Absent, index |-> NoFile, root |-> NoFile,
             indexTmp |-> NoFile, rootTmp |-> NoFile]
  /\ job = Rest("closed") /\ worn = [changes |-> 0, faults |-> 0, deaths |-> 0] /\ stale = FALSE

At(pc) == job.pc = pc
GoTo(pc) == job' = [job EXCEPT !.pc = pc]
MayFail == worn.faults < MaxFaults
Fault == worn' = [worn EXCEPT !.faults = @ + 1]

-----------------------------------------------------------------------------
(* open_with_half_life. *)

OpenStore ==
  /\ At("closed")
  /\ schema' = [schema EXCEPT !.degraded = FALSE]
  /\ job' = IF schema.current THEN Rest("open") ELSE [Rest("alter") EXCEPT !.todo = Columns]
  /\ UNCHANGED <<memos, disk, worn, stale>>

(* run_open_migration: a column that is there already is no failure, any     *)
(* other one degrades the store.                                            *)
RunOpenMigration(c) ==
  \/ schema' = [schema EXCEPT !.columns = @ \cup {c}] /\ UNCHANGED worn
  \/ /\ c \notin schema.columns /\ MayFail /\ Fault
     /\ schema' = [schema EXCEPT !.degraded = TRUE]
AddColumn(c) ==
  /\ At("alter") /\ c \in job.todo
  /\ job' = [job EXCEPT !.todo = @ \ {c}]
  /\ RunOpenMigration(c)
  /\ UNCHANGED <<memos, disk, stale>>

(* The indexes; backfill_policy_columns reads the policy columns or fails. *)
StartBackfill ==
  /\ At("alter") /\ job.todo = {}
  /\ job' = IF PolicyColumns \subseteq schema.columns
            THEN [Rest("backfill") EXCEPT !.todo = Rows] ELSE Rest("closed")
  /\ UNCHANGED <<memos, schema, disk, worn, stale>>

(* A row with a default in any policy column is classified anew. *)
BackfillRow(i) ==
  /\ At("backfill") /\ i \in job.todo
  /\ \/ /\ memos' = IF memos[i].shared
                    THEN [memos EXCEPT ![i].shared = memos[i].text \in MayHear] ELSE memos
        /\ job' = [job EXCEPT !.todo = @ \ {i}] /\ UNCHANGED worn
     \/ MayFail /\ Fault /\ job' = Rest("closed") /\ UNCHANGED memos
  /\ UNCHANGED <<schema, disk, stale>>

(* PRAGMA user_version, unless a step failed. *)
StoreVersion ==
  /\ At("backfill") /\ job.todo = {}
  /\ schema' = [schema EXCEPT !.current = ~schema.degraded]
  /\ job' = Rest("open")
  /\ UNCHANGED <<memos, disk, worn, stale>>

-----------------------------------------------------------------------------
(* Operations on rows; what touches a promoted one rebuilds the export. *)

Ready == At("open")
Change == Ready /\ worn.changes < MaxChanges /\ worn' = [worn EXCEPT !.changes = @ + 1]
StartRebuild(then) ==
  job' = [Rest("plan") EXCEPT !.then = then, !.had = disk.live.there]

StoreMemo(i, t) ==
  /\ Change /\ i \notin Rows
  /\ memos' = [memos EXCEPT ![i] = [NoMemo EXCEPT !.text = t, !.shared = t \in MayHear]]
  /\ UNCHANGED <<schema, disk, job, stale>>

(* update_recall_tracking, for a query seen before or a new one. *)
RecallMemo(i, new) ==
  /\ Ready /\ i \in Rows /\ memos[i].recalls < MaxRecalls
  /\ memos' = [memos EXCEPT ![i].recalls = @ + 1, ![i].queries = @ + (IF new THEN 1 ELSE 0)]
  /\ UNCHANGED <<schema, disk, job, worn, stale>>

UpdateRow(i, t) ==
  /\ Change /\ i \in Rows /\ t # memos[i].text
  /\ memos' = [memos EXCEPT ![i].text = t, ![i].shared = t \in MayHear]
  /\ IF memos[i].promoted THEN StartRebuild("open") ELSE UNCHANGED job
  /\ UNCHANGED <<schema, disk, stale>>

DeleteRow(i) ==
  /\ Change /\ i \in Rows
  /\ memos' = [memos EXCEPT ![i] = NoMemo]
  /\ IF memos[i].promoted THEN StartRebuild("open") ELSE UNCHANGED job
  /\ UNCHANGED <<schema, disk, stale>>

(* The order of the lines changes; the tree is rebuilt whatever the rows are. *)
ReorderManaged ==
  /\ Change /\ Rows # {} /\ StartRebuild("open")
  /\ UNCHANGED <<memos, schema, disk, stale>>

-----------------------------------------------------------------------------
(* dream_cycle *)

AtMost(n, bound) == IF n > bound THEN bound ELSE n
FrequencyScore(recalls) == AtMost(10 * recalls, 100)
(* ln(n) / ln(10), in percent *)
ConsolidationScore(recalls) ==
  CASE recalls <= 1 -> 0 [] recalls = 2 -> 30 [] recalls = 3 -> 48 [] recalls = 4 -> 60
    [] recalls = 5 -> 70 [] recalls = 6 -> 78 [] recalls = 7 -> 85 [] recalls = 8 -> 90
    [] recalls = 9 -> 95 [] OTHER -> 100
QueryDiversity(m) == m.queries
DiversityScore(queries) == AtMost(25 * queries, 100)

(* The weighted sum; relevance is max_score, recency decays with disuse. *)
PromotionScore(m, relevance, recency) ==
  (25 * FrequencyScore(m.recalls) + 30 * relevance + 20 * recency
   + 15 * ConsolidationScore(m.recalls) + 10 * DiversityScore(QueryDiversity(m))) \div 100

PromotionCandidates == {i \in Rows \ Promoted : memos[i].recalls >= MinRecalls}

(* The best MaxPromotions candidates, and of these the ones above the       *)
(* threshold; which of two equal ones goes first is left open.              *)
Winners(score) ==
  {w \in SUBSET PromotionCandidates :
     \E top \in SUBSET PromotionCandidates :
       /\ Cardinality(top) = AtMost(MaxPromotions, Cardinality(PromotionCandidates))
       /\ \A i \in top, j \in PromotionCandidates \ top : score[i] >= score[j]
       /\ w = {i \in top : score[i] >= MinScore}}

DreamCycle(relevance, recency) ==
  /\ Change
  /\ \E w \in Winners([i \in Rows |-> PromotionScore(memos[i], relevance[i], recency)]) :
       job' = IF w = {} THEN Rest("prune") ELSE [Rest("mark") EXCEPT !.todo = w]
  /\ UNCHANGED <<memos, schema, disk, stale>>

(* mark_promoted_many: one auto-committed update per winner. *)
MarkPromoted(i) ==
  /\ At("mark") /\ i \in job.todo
  /\ memos' = [memos EXCEPT ![i].promoted = TRUE]
  /\ IF job.todo = {i} THEN StartRebuild("prune") ELSE job' = [job EXCEPT !.todo = @ \ {i}]
  /\ stale' = TRUE
  /\ UNCHANGED <<schema, disk, worn>>

(* prune_decayed: any rows that have not been used, but for promoted ones. *)
PruneDecayed(decayed) ==
  /\ At("prune") /\ decayed \subseteq Rows \ Promoted
  /\ memos' = [i \in MemoIds |-> IF i \in decayed THEN NoMemo ELSE memos[i]]
  /\ GoTo("open")
  /\ UNCHANGED <<schema, disk, worn, stale>>

-----------------------------------------------------------------------------
(* rebuild_root_memory_file: a line is an id with its text, or redacted. *)

Redacted == "redacted"
Line(i) == [id |-> i, folder |-> FolderOf[memos[i].text],
            text |-> IF memos[i].shared THEN memos[i].text ELSE Redacted]
RootLines(plan) == {l \in plan : l.text # Redacted}
Folders(plan) == {l.folder : l \in plan}

Step(at, next, d) ==
  /\ At(at) /\ disk' = d /\ GoTo(next)
  /\ UNCHANGED <<memos, schema, worn, stale>>
(* `?`: the operation ends here with an error. *)
StepFails(at, d) ==
  /\ At(at) /\ MayFail /\ Fault /\ disk' = d
  /\ job' = [Rest("open") EXCEPT !.had = job.had, !.faults = job.faults + 1]
  /\ stale' = TRUE
  /\ UNCHANGED <<memos, schema>>
(* `let _ =`: the removal failed and the operation goes on. *)
RemovalFails(at, next, d) ==
  /\ At(at) /\ MayFail /\ Fault /\ disk' = d
  /\ job' = [job EXCEPT !.pc = next, !.faults = @ + 1]
  /\ UNCHANGED <<memos, schema, stale>>

ReadPlan ==
  /\ At("plan")
  /\ job' = IF Promoted = {} THEN [job EXCEPT !.pc = "no_live", !.had = FALSE]
            ELSE [job EXCEPT !.pc = "clear", !.plan = {Line(i) : i \in Promoted}]
  /\ UNCHANGED <<memos, schema, disk, worn, stale>>

(* Nothing is promoted: the tree goes. *)
RemoveTree ==
  \/ Step("no_live", "no_root", [disk EXCEPT !.live = Absent])
  \/ disk.live.there /\ RemovalFails("no_live", "no_root", disk)
  \/ Step("no_root", "no_index", [disk EXCEPT !.root = NoFile])
  \/ disk.root.there /\ RemovalFails("no_root", "no_index", disk)
  \/ Step("no_index", "done", [disk EXCEPT !.index = NoFile])
  \/ disk.index.there /\ RemovalFails("no_index", "done", disk)

Staging(over) == [plan |-> job.plan, folders |-> {}, over |-> over, there |-> TRUE]
ClearStaging ==
  \/ Step("clear", "notes", [disk EXCEPT !.tmp = Staging(FALSE)])
  \/ disk.tmp.there /\ RemovalFails("clear", "notes", [disk EXCEPT !.tmp = Staging(TRUE)])
  \/ StepFails("clear", [disk EXCEPT !.tmp = Absent])

(* One note per namespace, then INDEX.md.tmp and MEMORY.md.tmp. *)
WriteNote(f) ==
  /\ f \in Folders(job.plan) \ disk.tmp.folders
  /\ \/ Step("notes", "notes", [disk EXCEPT !.tmp.folders = @ \cup {f}])
     \/ StepFails("notes", disk)
WriteStaged ==
  \/ /\ disk.tmp.folders = Folders(job.plan)
     /\ \/ Step("notes", "staged", [disk EXCEPT !.indexTmp = [plan |-> job.plan, there |-> TRUE]])
        \/ StepFails("notes", disk)
  \/ Step("staged", "sweep",
          [disk EXCEPT !.rootTmp = [plan |-> RootLines(job.plan), there |-> TRUE]])
  \/ StepFails("staged", disk)

(* A stale namespaces.bak goes; the live tree is set aside; the staged one  *)
(* takes its place.                                                        *)
SweepBackup ==
  \/ Step("sweep", "sideline", [disk EXCEPT !.bak = Absent])
  \/ disk.bak.there /\ RemovalFails("sweep", "sideline", disk)
Sideline ==
  \/ Step("sideline", "swap", IF disk.live.there
                              THEN [disk EXCEPT !.bak = disk.live, !.live = Absent] ELSE disk)
  \/ disk.live.there /\ StepFails("sideline", disk)

\* Variant: a failed swap leaves the old tree under its backup name.
SwapUnrestored ==
  \/ Step("swap", "unbak", [disk EXCEPT !.live = disk.tmp, !.tmp = Absent])
  \/ StepFails("swap", disk)

SwapIn ==
  \/ Step("swap", "unbak", [disk EXCEPT !.live = disk.tmp, !.tmp = Absent])
  \/ StepFails("swap", IF disk.bak.there THEN [disk EXCEPT !.live = disk.bak, !.bak = Absent]
                       ELSE disk)
DropBackup ==
  \/ Step("unbak", "index", [disk EXCEPT !.bak = Absent])
  \/ disk.bak.there /\ RemovalFails("unbak", "index", disk)
SwapFiles ==
  \/ Step("index", "root", [disk EXCEPT !.index = disk.indexTmp, !.indexTmp = NoFile])
  \/ StepFails("index", disk)
  \/ Step("root", "done", [disk EXCEPT !.root = disk.rootTmp, !.rootTmp = NoFile])
  \/ StepFails("root", disk)

(* The events of the operation are logged, or fail; a cycle goes on to prune. *)
EndRebuild ==
  /\ At("done")
  /\ stale' = (job.faults > 0)
  /\ \/ job' = [job EXCEPT !.pc = job.then] /\ UNCHANGED worn
     \/ MayFail /\ Fault /\ job' = [job EXCEPT !.pc = "open"]
  /\ UNCHANGED <<memos, schema, disk>>

(* An update of the table fails; a statement on the derived tables fails     *)
(* after the row has changed, and the rebuild is not reached.               *)
StatementFails == StepFails("mark", disk) \/ StepFails("plan", disk)

RebuildTree ==
  \/ ReadPlan \/ RemoveTree \/ ClearStaging \/ (\E f \in Folders(job.plan) : WriteNote(f))
  \/ WriteStaged \/ SweepBackup \/ Sideline \/ SwapIn \/ DropBackup \/ SwapFiles \/ EndRebuild

(* The process dies; the database keeps what was committed. *)
ProcessDies ==
  /\ job.pc # "closed" /\ worn.deaths < MaxDeaths
  /\ worn' = [worn EXCEPT !.deaths = @ + 1]
  /\ stale' = (stale \/ job.pc \notin {"alter", "backfill", "open", "prune"})
  /\ job' = Rest("closed")
  /\ UNCHANGED <<memos, schema, disk>>

ExportNext ==
  \/ OpenStore \/ (\E c \in Columns : AddColumn(c)) \/ StartBackfill
  \/ (\E i \in MemoIds : BackfillRow(i)) \/ StoreVersion
  \/ \E i \in MemoIds :
       \/ \E t \in Contents : StoreMemo(i, t) \/ UpdateRow(i, t)
       \/ (\E new \in BOOLEAN : RecallMemo(i, new)) \/ DeleteRow(i) \/ MarkPromoted(i)
  \/ ReorderManaged
  \/ /\ Ready
     /\ \E relevance \in [Rows -> Measures], recency \in Measures : DreamCycle(relevance, recency)
  \/ \E decayed \in SUBSET MemoIds : PruneDecayed(decayed)
  \/ RebuildTree \/ StatementFails \/ ProcessDies

ExportSpec == ExportInit /\ [][ExportNext]_exportVars

-----------------------------------------------------------------------------
(***************************************************************************)
(* When no operation is under way and the last one on the export was not   *)
(* cut short by an error or a death, MEMORY.md, INDEX.md and the namespace *)
(* notes show the promoted rows, with the text of none that a shared room  *)
(* may not hear: every operation that changes a promoted row rebuilds.     *)
(***************************************************************************)
ExportExact ==
  At("open") /\ ~stale =>
    LET shown == {[Line(i) EXCEPT !.text = IF memos[i].text \in MayHear THEN @ ELSE Redacted]
                    : i \in Promoted}
    IN /\ disk.live.there = (shown # {})
       /\ disk.live.plan = shown /\ disk.index.plan = shown
       /\ disk.root.plan = RootLines(shown)

(***************************************************************************)
(* "The originals are untouched until every write has succeeded": the live *)
(* namespaces directory is never half written, whatever fails or dies when *)
(* (over leftovers that could not be removed there is no promise), and an  *)
(* operation that fails once leaves a live directory if it found one.      *)
(***************************************************************************)
LiveTreeWhole ==
  /\ disk.live.there => disk.live.over \/ disk.live.folders = Folders(disk.live.plan)
  /\ At("open") /\ job.had /\ job.faults <= 1 => disk.live.there

(***************************************************************************)
(* An open store serves no row of an older release before its content is   *)
(* classified: a migration that died or failed half-way is run again.      *)
(***************************************************************************)
OpenedIsClassified ==
  Ready => \A i \in Rows : memos[i].shared => memos[i].text \in MayHear

(***************************************************************************)
(* The export shows the promoted rows, its directory is never half         *)
(* written, and an opened store is classified (rebuild_memory_exports,     *)
(* migrate).                                                               *)
(***************************************************************************)
ExportSound == ExportExact /\ LiveTreeWhole /\ OpenedIsClassified
=============================================================================
