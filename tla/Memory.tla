------------------------------- MODULE Memory -------------------------------
(***************************************************************************)
(* The household memory of genie-core (memory/mod.rs, memory/structured.rs)*)
(* and the paths that change it: the memory tools, automatic capture, the  *)
(* profile loaded at startup, the dashboard's memory pages and the         *)
(* background pruner.                                                      *)
(*                                                                         *)
(* One mutex guards the store, so operations do not interleave; but each   *)
(* SQLite statement commits by itself, and an operation can stop after any *)
(* of them: a statement or a write to the event log fails, or the process  *)
(* dies.  So the operation that holds the mutex is a variable, and every   *)
(* statement that changes a table is a step.                               *)
(*                                                                         *)
(* Left out: promotion and the MEMORY.md export (MemoryExport), the        *)
(* sentences behind the derived rows (HouseholdFacts), the display order   *)
(* of the dashboard, recall scores (SemanticRecall), and the append-only   *)
(* event log and daily notes, of which only the failure matters here.      *)
(***************************************************************************)
EXTENDS MemoryPolicy, Integers, Sequences, FiniteSets

CONSTANTS
  Facts,      \* what can be said to the house
  Similar,    \* has_similar: <<f, g>> if the key words of f all occur in g
  Profile,    \* the facts of the profile files, in order
  KindLimit,  \* the LIMIT of get_by_kind in store_resolved (100)
  MaxAge,     \* age from which a row has decayed
  MaxBatch,   \* bound on facts per call
  MaxId,      \* bound on row ids: an insert beyond it fails
  MaxTime,    \* bound on the clock
  MaxFaults,  \* bound on failed operations
  MaxBoots    \* bound on restarts

ASSUME MemoryAssumption ==
  /\ Similar \subseteq Facts \X Facts
  /\ Profile \in Seq(Facts)
  /\ KindLimit \in Nat /\ MaxAge \in Nat /\ MaxBatch \in Nat /\ MaxId \in Nat
  /\ MaxTime \in Nat /\ MaxFaults \in Nat /\ MaxBoots \in Nat

VARIABLES
  rows,     \* the table memories: [id, fact, evergreen, at (accessed_ms)]
  derived,  \* the derived tables: [table, id (source_memory_id), fact]
  jobs,     \* the facts the operation in progress still has to store
  op,       \* where the operation in progress is
  now,      \* the clock
  torn,     \* history: rows whose projection was cut short
  faults,   \* failed operations so far
  boots     \* restarts so far

vars == <<rows, derived, jobs, op, now, torn, faults, boots>>

TableOrder == <<"household", "device_aliases", "secret_references", "embedded_memories">>

Row == [id : 1..MaxId, fact : Facts, evergreen : BOOLEAN, at : 0..MaxTime]
Job == [how : {"tool", "capture", "profile"}, fact : Facts, known : BOOLEAN]

(***************************************************************************)
(* The operation that holds the mutex.  "delete": rows still to delete,    *)
(* then the fact to insert, if any; "clear" and "project": one derived     *)
(* table after the other is emptied of the row `id`, or rewritten.         *)
(***************************************************************************)
Stages == {"idle", "delete", "clear", "project"}
Op == [stage : Stages, victims : SUBSET Row, id : 0..MaxId, left : Seq(Tables),
       store : SUBSET Facts, evergreen : BOOLEAN, edit : BOOLEAN]
Idle == [stage |-> "idle", victims |-> {}, id |-> 0, left |-> <<>>,
         store |-> {}, evergreen |-> FALSE, edit |-> FALSE]

TypeOK ==
  /\ rows \subseteq Row
  /\ derived \subseteq [table : Tables, id : 1..MaxId, fact : Facts]
  /\ jobs \in Seq(Job)
  /\ op \in Op
  /\ now \in 0..MaxTime /\ torn \subseteq 1..MaxId
  /\ faults \in 0..MaxFaults /\ boots \in 0..MaxBoots

Free == op.stage = "idle" /\ jobs = <<>>

JobsOf(how, facts, known) ==
  [i \in DOMAIN facts |-> [how |-> how, fact |-> facts[i], known |-> known]]

Init ==
  /\ rows = {} /\ derived = {}
  /\ jobs = JobsOf("profile", Profile, FALSE)
  /\ op = Idle
  /\ now = 0 /\ torn = {} /\ faults = 0 /\ boots = 0

-----------------------------------------------------------------------------
(* SQLite: `id INTEGER PRIMARY KEY` gives the row above the highest one, so *)
(* the id of a deleted last row is used again.                              *)
IsNextRowId(n) ==
  /\ \A r \in rows : r.id < n
  /\ n = 1 \/ \E r \in rows : r.id = n - 1

HasExact(f)   == \E r \in rows : r.fact.text = f.text
HasSimilar(f) == \E r \in rows : <<f, r.fact>> \in Similar

SameSlot(f, g) == f.slot # NoSlot /\ f.kind = g.kind /\ f.slot = g.slot

(* get_by_kind: the `limit` rows of the kind accessed last. *)
ByKind(kind, limit) ==
  LET all == {r \in rows : r.fact.kind = kind} IN
  {s \in SUBSET all :
     /\ Cardinality(s) = (IF Cardinality(all) < limit THEN Cardinality(all) ELSE limit)
     /\ \A r \in s, q \in all \ s : r.at >= q.at}

Deleting(victims) == [Idle EXCEPT !.stage = "delete", !.victims = victims]
Storing(f, victims, evergreen) ==
  [Deleting(victims) EXCEPT !.store = {f}, !.evergreen = evergreen]

\* Variant: the loop stops at the first value it deletes.
StoreResolvedOnce(f) ==
  LET duplicate == IF f.slot = NoSlot THEN HasSimilar(f) ELSE HasExact(f) IN
  \/ duplicate /\ op' = Idle
  \/ ~duplicate /\ \E recent \in ByKind(f.kind, KindLimit) :
       LET old == {r \in recent : SameSlot(f, r.fact)} IN
       \/ old = {} /\ op' = Storing(f, {}, FALSE)
       \/ \E r \in old : (\A q \in old : r.at >= q.at) /\ op' = Storing(f, {r}, FALSE)

(* store_resolved: a duplicate is dropped; the values a single-valued fact *)
(* supersedes are deleted, then it is stored.                              *)
StoreResolved(f) ==
  LET duplicate == IF f.slot = NoSlot THEN HasSimilar(f) ELSE HasExact(f) IN
  \/ /\ duplicate
     /\ op' = Idle
  \/ /\ ~duplicate
     /\ \E recent \in ByKind(f.kind, KindLimit) :
          op' = Storing(f, {r \in recent : SameSlot(f, r.fact) /\ r.fact.text # f.text}, FALSE)

Skip(rest) == op' = Idle /\ jobs' = rest

(***************************************************************************)
(* The next fact of exec_memory_store, extract_and_store or the profile.   *)
(* A refused fact is skipped; a person-linked fact from somebody unknown   *)
(* ends the tool call.                                                     *)
(***************************************************************************)
TakeJob ==
  /\ op.stage = "idle" /\ jobs # <<>>
  /\ LET job == Head(jobs)  f == Head(jobs).fact IN
     \/ ~WriteAllowed(f) /\ Skip(Tail(jobs))
     \/ /\ WriteAllowed(f) /\ job.how = "tool"
        /\ \/ Scope(f) = "person" /\ ~job.known /\ Skip(<<>>)
           \/ ~(Scope(f) = "person" /\ ~job.known) /\ StoreResolved(f) /\ jobs' = Tail(jobs)
     \/ /\ WriteAllowed(f) /\ job.how = "capture"
        /\ \/ f.slot = NoSlot /\ HasSimilar(f) /\ Skip(Tail(jobs))
           \/ ~(f.slot = NoSlot /\ HasSimilar(f)) /\ StoreResolved(f) /\ jobs' = Tail(jobs)
     \/ /\ WriteAllowed(f) /\ job.how = "profile"
        /\ \/ HasSimilar(f) /\ Skip(Tail(jobs))
           \/ ~HasSimilar(f) /\ op' = Storing(f, {}, TRUE) /\ jobs' = Tail(jobs)
  /\ UNCHANGED <<rows, derived, now, torn, faults, boots>>

-----------------------------------------------------------------------------
(* The statements of delete_by_id and store_with_metadata. *)

Without(t, id) == {d \in derived : ~(d.table = t /\ d.id = id)}

Rows(t, id, f) == IF Projects(t, f) THEN {[table |-> t, id |-> id, fact |-> f]} ELSE {}

DeleteRow ==
  /\ op.stage = "delete"
  /\ \E r \in op.victims :
       /\ \A q \in op.victims : r.at >= q.at
       /\ rows' = rows \ {r}
       /\ op' = [op EXCEPT !.stage = "clear", !.victims = @ \ {r},
                           !.id = r.id, !.left = TableOrder]
  /\ UNCHANGED <<derived, jobs, now, torn, faults, boots>>

ClearTable ==
  /\ op.stage = "clear"
  /\ derived' = Without(Head(op.left), op.id)
  /\ op' = IF Len(op.left) > 1 THEN [op EXCEPT !.left = Tail(@)]
           ELSE IF op.victims = {} /\ op.store = {} THEN Idle
           ELSE [op EXCEPT !.stage = "delete", !.left = <<>>]
  /\ UNCHANGED <<rows, jobs, now, torn, faults, boots>>

InsertRow ==
  /\ op.stage = "delete" /\ op.victims = {}
  /\ \E f \in op.store, n \in 1..MaxId :
       /\ IsNextRowId(n)
       /\ rows' = rows \cup {[id |-> n, fact |-> f, evergreen |-> op.evergreen, at |-> now]}
       /\ op' = [op EXCEPT !.stage = "project", !.id = n, !.left = TableOrder]
  /\ UNCHANGED <<derived, jobs, now, torn, faults, boots>>

\* Variant: the upsert only inserts.
InsertOnly(t, id, f) == derived \cup Rows(t, id, f)

(* upsert_*_from_memory: delete the rows of the memory, derive them again. *)
Upsert(t, id, f) == Without(t, id) \cup Rows(t, id, f)

ProjectTable ==
  /\ op.stage = "project"
  /\ \E f \in op.store : derived' = Upsert(Head(op.left), op.id, f)
  /\ op' = IF Len(op.left) > 1 THEN [op EXCEPT !.left = Tail(@)] ELSE Idle
  /\ torn' = IF Len(op.left) > 1 THEN torn ELSE torn \ {op.id}
  /\ UNCHANGED <<rows, jobs, now, faults, boots>>

(***************************************************************************)
(* The operation stops where it is.  An upsert may have deleted and not    *)
(* inserted.                                                               *)
(***************************************************************************)
CutShort ==
  /\ op.stage # "idle"
  /\ derived' \in {derived} \cup
       {Without(t, op.id) : t \in {op.left[i] : i \in {1} \cap DOMAIN op.left}}
  /\ torn' = IF op.stage = "project" THEN torn \cup {op.id} ELSE torn

(* The tool reports an error and stops; capture and the profile go on with *)
(* the next fact.                                                          *)
GiveUp == /\ op' = Idle
          /\ jobs' = IF jobs # <<>> /\ Head(jobs).how = "tool" THEN <<>> ELSE jobs

(* A statement, or the write to the event log, fails. *)
Fail ==
  /\ faults < MaxFaults
  /\ CutShort
  /\ GiveUp
  /\ faults' = faults + 1
  /\ UNCHANGED <<rows, now, boots>>

(* The bound on ids is the end of the disk: an insert beyond it fails. *)
DiskFull ==
  /\ op.stage = "delete" /\ op.victims = {}
  /\ \A n \in 1..MaxId : ~IsNextRowId(n)
  /\ GiveUp
  /\ UNCHANGED <<rows, derived, now, torn, faults, boots>>

-----------------------------------------------------------------------------
(* The callers. *)

Batches == UNION {[1..n -> Facts] : n \in 1..MaxBatch}

(* exec_memory_store *)
MemoryStore ==
  /\ Free
  /\ \E facts \in Batches, known \in BOOLEAN :
       jobs' = JobsOf("tool", facts, known)
  /\ UNCHANGED <<rows, derived, op, now, torn, faults, boots>>

(* extract_and_store, on what the user said *)
Capture ==
  /\ Free
  /\ \E f \in Facts : jobs' = JobsOf("capture", <<f>>, FALSE)
  /\ UNCHANGED <<rows, derived, op, now, torn, faults, boots>>

(* search: the hits are refreshed, whether or not the context may read them. *)
Touched(hits) == (rows \ hits) \cup {[r EXCEPT !.at = now] : r \in hits}

(* exec_memory_recall and the recall for a prompt *)
Recall ==
  /\ Free
  /\ \E hits \in SUBSET rows \ {{}} : rows' = Touched(hits)
  /\ UNCHANGED <<derived, jobs, op, now, torn, faults, boots>>

(* exec_memory_forget: only what the speaker may read is deleted. *)
Forget ==
  /\ Free
  /\ \E hits \in SUBSET rows, known \in BOOLEAN :
       LET found == {[r EXCEPT !.at = now] : r \in hits}
           allowed == {r \in found : ReadAllowed(r.fact, known)}
       IN  /\ rows' = Touched(hits)
           /\ op' = IF allowed = {} THEN Idle ELSE Deleting(allowed)
  /\ UNCHANGED <<derived, jobs, now, torn, faults, boots>>

(* delete_by_id from the dashboard *)
DeleteManaged ==
  /\ Free
  /\ \E r \in rows : op' = Deleting({r})
  /\ UNCHANGED <<rows, derived, jobs, now, torn, faults, boots>>

\* Variant: the dashboard may write what it likes.
EditableAnyway(f) == TRUE

Editable(f) == WriteAllowed(f)

(* update_managed: the row, then every projection of it. *)
UpdateManaged ==
  /\ Free
  /\ \E r \in rows, f \in Facts :
       /\ f # r.fact /\ Editable(f)
       /\ rows' = (rows \ {r}) \cup {[r EXCEPT !.fact = f]}
       /\ op' = [Idle EXCEPT !.stage = "project", !.id = r.id, !.left = TableOrder,
                             !.store = {f}, !.evergreen = r.evergreen, !.edit = TRUE]
  /\ UNCHANGED <<derived, jobs, now, torn, faults, boots>>

(* prune_and_checkpoint: the rows go, their projections stay. *)
Prune ==
  /\ Free
  /\ rows' = {r \in rows : r.evergreen \/ now - r.at < MaxAge}
  /\ rows' # rows
  /\ UNCHANGED <<derived, jobs, op, now, torn, faults, boots>>

Tick == Free /\ now < MaxTime /\ now' = now + 1
        /\ UNCHANGED <<rows, derived, jobs, op, torn, faults, boots>>

(***************************************************************************)
(* The process stops, possibly in an operation, and starts again: open     *)
(* rebuilds the projections only when DERIVATION_VERSION changed, and the  *)
(* profile is read again.                                                  *)
(***************************************************************************)
Projection == UNION {Rows(t, r.id, r.fact) : t \in Tables, r \in rows}

Restart ==
  /\ boots < MaxBoots
  /\ \/ derived' = Projection /\ torn' = {}
     \/ CutShort
     \/ op.stage = "idle" /\ UNCHANGED <<derived, torn>>
  /\ op' = Idle
  /\ jobs' = JobsOf("profile", Profile, FALSE)
  /\ boots' = boots + 1
  /\ UNCHANGED <<rows, now, faults>>

Next ==
  \/ TakeJob \/ DeleteRow \/ ClearTable \/ InsertRow \/ ProjectTable
  \/ Fail \/ DiskFull
  \/ MemoryStore \/ Capture \/ Recall \/ Forget
  \/ DeleteManaged \/ UpdateManaged \/ Prune \/ Tick \/ Restart

Spec == Init /\ [][Next]_vars

-----------------------------------------------------------------------------
(* The tables that are spoken from without a look at who is asking.  Of a  *)
(* secret reference it is the label: the words of the text before " is "   *)
(* and the like, and the text itself where it has none of them             *)
(* (secret_label_from_text).                                               *)
Spoken == {"device_aliases", "household", "secret_references"}

MaySpeak(t, f) == IF t = "secret_references" THEN WriteAllowed(f) ELSE Shareable(f)

(***************************************************************************)
(* structured_household_answer, household_profiles_by_role and             *)
(* device_alias answer without a read context.  Whatever was stored,       *)
(* edited, deleted, pruned, cut short or restarted, what they answer from  *)
(* may be heard in a shared room; except for app_only_secret_references,   *)
(* kept of facts a shared room may not hear: their labels are of no fact   *)
(* the write policy takes for a secret or a private note.                  *)
(***************************************************************************)
AnswersShareable == \A d \in derived : d.table \in Spoken => MaySpeak(d.table, d.fact)

(***************************************************************************)
(* No path leads a secret or a private note into the store, neither a tool *)
(* call, nor capture, nor the profile, nor an edit on the dashboard.       *)
(***************************************************************************)
StoredIsWritable == \A r \in rows : WriteAllowed(r.fact)

(***************************************************************************)
(* The derived rows of a memory are those of what it says now, although    *)
(* the pruner leaves the rows of dead memories behind and ids are used     *)
(* again: the projections of an id are always replaced, never added to.    *)
(* Exempt is the row an operation is working on, or was when it was cut    *)
(* short.                                                                  *)
(***************************************************************************)
LiveRowsProjected ==
  \A r \in rows :
    r.id \notin torn /\ ~(op.stage = "project" /\ op.id = r.id) =>
      {d \in derived : d.id = r.id} = UNION {Rows(t, r.id, r.fact) : t \in Tables}

(***************************************************************************)
(* When store_resolved inserts the value of a single-valued fact, no other *)
(* value is left: not the profile's evergreen one, not one of several that *)
(* edits left there.                                                       *)
(***************************************************************************)
Inserting == op.stage = "delete" /\ op'.stage = "project"

CorrectionSupersedes ==
  [][Inserting /\ ~op.evergreen =>
       \A f \in op.store, r \in rows' : SameSlot(f, r.fact) => r.fact = f]_vars

(***************************************************************************)
(* device_alias: evergreen before ordinary memories, then the oldest.      *)
(***************************************************************************)
Aliases(a) ==
  {r \in rows : \E d \in derived : d.table = "device_aliases" /\ d.id = r.id /\ d.fact.alias = a}

Beats(r, q) ==
  \/ r.evergreen /\ ~q.evergreen
  \/ r.evergreen = q.evergreen /\ r.id < q.id

DeviceAlias(a) == {r.id : r \in {r \in Aliases(a) : \A q \in Aliases(a) : r = q \/ Beats(r, q)}}

(***************************************************************************)
(* What somebody says does not re-aim a device alias that already works:   *)
(* while an ordinary memory is inserted and projected, every alias that    *)
(* resolves keeps its memory, the freed ids and stale rows of the pruner   *)
(* notwithstanding.                                                        *)
(***************************************************************************)
AliasNames == {f.alias : f \in Facts} \ {NoAlias}

AliasStable ==
  [][(Inserting \/ op.stage = "project") /\ ~op.edit /\ ~op.evergreen /\ boots' = boots =>
       \A a \in AliasNames : DeviceAlias(a) \subseteq DeviceAlias(a)' \cup {op.id}]_vars

(***************************************************************************)
(* What somebody states takes effect where it is meant to: a correction    *)
(* replaces every other value, and nothing else that works is re-aimed     *)
(* (store_resolved, device_alias).                                         *)
(***************************************************************************)
StatementsTake == CorrectionSupersedes /\ AliasStable
=============================================================================
