---------------------------- MODULE MemoryProofs ----------------------------
(***************************************************************************)
(* What the household memory never holds and never says, for every set of  *)
(* facts, every profile and any number of operations, failures and         *)
(* restarts.  Both invariants also need to be known of the operation in    *)
(* progress: the fact it is about to insert, or has inserted and is        *)
(* projecting, passed the write policy when the operation began.           *)
(***************************************************************************)
EXTENDS Memory, SequenceTheorems, FiniteSetTheorems, TLAPS

(* The loops over the derived tables never run empty, and know their row. *)
OpShape == op.stage \in {"clear", "project"} => op.left # <<>> /\ op.id \in 1..MaxId

OpWritable == \A f \in op.store : WriteAllowed(f)

Inv == StoredIsWritable /\ AnswersShareable /\ OpWritable

(* What an upsert writes of a stored fact into a spoken table may be said. *)
LEMMA RowsShareable ==
  ASSUME NEW t, NEW id, NEW f, WriteAllowed(f)
  PROVE  \A d \in Rows(t, id, f) : d.table \in Spoken => MaySpeak(d.table, d.fact)
<1>1. t \in Spoken /\ Projects(t, f) => MaySpeak(t, f)
  BY DEF Spoken, Projects, MaySpeak
<1>2. QED
  BY <1>1 DEF Rows

(* An operation that is cut short leaves no new derived row. *)
LEMMA CutShortShrinks ==
  ASSUME CutShort
  PROVE  derived' \subseteq derived
  BY DEF CutShort, Without

LEMMA IdleStoresNothing == Idle.store = {} /\ \A v : Deleting(v).store = {}
  BY DEF Idle, Deleting

LEMMA StoringStores == \A f, v, e : Storing(f, v, e).store = {f}
  BY DEF Storing, Deleting, Idle

LEMMA InitInv == Init => Inv
  BY IdleStoresNothing DEF Init, Inv, StoredIsWritable, AnswersShareable, OpWritable

(* The steps that choose what to store next. *)
LEMMA JobInv ==
  ASSUME Inv, TakeJob
  PROVE  Inv'
<1>1. OpWritable'
  <2> DEFINE f == Head(jobs).fact
  <2>1. CASE op' = Idle
    BY <2>1, IdleStoresNothing DEF OpWritable
  <2>2. CASE WriteAllowed(f) /\ StoreResolved(f)
    <3>1. op' = Idle \/ \E v, e : op' = Storing(f, v, e)
      BY <2>2 DEF StoreResolved
    <3>2. QED
      BY <2>2, <3>1, IdleStoresNothing, StoringStores DEF OpWritable
  <2>3. CASE WriteAllowed(f) /\ op' = Storing(f, {}, TRUE)
    <3>1. op'.store = {f}
      BY <2>3, StoringStores
    <3>2. QED
      BY <2>3, <3>1 DEF OpWritable
  <2>4. \/ op' = Idle
        \/ WriteAllowed(f) /\ StoreResolved(f)
        \/ WriteAllowed(f) /\ op' = Storing(f, {}, TRUE)
    BY DEF TakeJob, Skip
  <2>5. QED
    BY <2>1, <2>2, <2>3, <2>4
<1>2. QED
  BY <1>1 DEF TakeJob, Inv, StoredIsWritable, AnswersShareable

(* The statements of an operation in progress. *)
LEMMA StatementInv ==
  ASSUME TypeOK, Inv, DeleteRow \/ ClearTable \/ InsertRow \/ ProjectTable
  PROVE  Inv'
<1>1. CASE DeleteRow
  <2>1. rows' \subseteq rows /\ derived' = derived /\ op'.store = op.store
    BY <1>1 DEF DeleteRow, TypeOK, Op
  <2>2. QED
    BY <2>1 DEF Inv, StoredIsWritable, AnswersShareable, OpWritable
<1>2. CASE ClearTable
  <2>1. rows' = rows /\ derived' \subseteq derived
    BY <1>2 DEF ClearTable, Without
  <2>2. op'.store = op.store \/ op'.store = {}
    BY <1>2, IdleStoresNothing DEF ClearTable, TypeOK, Op
  <2>3. QED
    BY <2>1, <2>2 DEF Inv, StoredIsWritable, AnswersShareable, OpWritable
<1>3. CASE InsertRow
  <2>1. derived' = derived /\ op'.store = op.store
    BY <1>3 DEF InsertRow, TypeOK, Op
  <2>2. \A r \in rows' : r \in rows \/ r.fact \in op.store
    <3>1. PICK f \in op.store, n \in 1..MaxId :
            rows' = rows \cup {[id |-> n, fact |-> f, evergreen |-> op.evergreen, at |-> now]}
      BY <1>3 DEF InsertRow
    <3>2. [id |-> n, fact |-> f, evergreen |-> op.evergreen, at |-> now].fact = f
      OBVIOUS
    <3>3. QED
      BY <3>1, <3>2
  <2>3. QED
    BY <2>1, <2>2 DEF Inv, StoredIsWritable, AnswersShareable, OpWritable
<1>4. CASE ProjectTable
  <2>1. PICK f \in op.store : derived' = Upsert(Head(op.left), op.id, f)
    BY <1>4 DEF ProjectTable
  <2>2. \A d \in derived' : d \in derived \/ d \in Rows(Head(op.left), op.id, f)
    BY <2>1 DEF Upsert, Without
  <2>3. AnswersShareable'
    <3>1. WriteAllowed(f)
      BY <2>1 DEF Inv, OpWritable
    <3>2. QED
      BY <2>2, <3>1, RowsShareable DEF Inv, AnswersShareable
  <2>4. op'.store = op.store \/ op'.store = {}
    BY <1>4, IdleStoresNothing DEF ProjectTable, TypeOK, Op
  <2>5. rows' = rows
    BY <1>4 DEF ProjectTable
  <2>6. QED
    BY <2>3, <2>4, <2>5 DEF Inv, StoredIsWritable, OpWritable
<1>5. QED
  BY <1>1, <1>2, <1>3, <1>4

(* The operations that begin, and the ones that are a single statement. *)
LEMMA CallerInv ==
  ASSUME TypeOK, Inv, \/ MemoryStore \/ Capture \/ Recall \/ Forget
                      \/ DeleteManaged \/ UpdateManaged \/ Prune \/ Tick
  PROVE  Inv'
<1>1. derived' = derived
  BY DEF MemoryStore, Capture, Recall, Forget, DeleteManaged, UpdateManaged, Prune, Tick
<1>2. \A hits \in SUBSET rows : \A q \in Touched(hits) : \E r \in rows : q.fact = r.fact
  BY DEF Touched, TypeOK, Row
<1>3. CASE MemoryStore \/ Capture \/ Tick
  BY <1>3 DEF MemoryStore, Capture, Tick, Inv, StoredIsWritable, AnswersShareable, OpWritable
<1>4. CASE Recall
  <2>1. op' = op /\ \A q \in rows' : \E r \in rows : q.fact = r.fact
    BY <1>2, <1>4 DEF Recall
  <2>2. QED
    BY <1>1, <2>1 DEF Inv, StoredIsWritable, AnswersShareable, OpWritable
<1>5. CASE Forget
  <2>1. \A q \in rows' : \E r \in rows : q.fact = r.fact
    BY <1>2, <1>5 DEF Forget
  <2>2. op'.store = {}
    BY <1>5, IdleStoresNothing DEF Forget
  <2>3. QED
    BY <1>1, <2>1, <2>2 DEF Inv, StoredIsWritable, AnswersShareable, OpWritable
<1>6. CASE DeleteManaged
  BY <1>6, IdleStoresNothing DEF DeleteManaged, Inv, StoredIsWritable, AnswersShareable, OpWritable
<1>7. CASE UpdateManaged
  <2>1. PICK r \in rows, f \in Facts :
          /\ WriteAllowed(f)
          /\ rows' = (rows \ {r}) \cup {[r EXCEPT !.fact = f]}
          /\ op' = [Idle EXCEPT !.stage = "project", !.id = r.id, !.left = TableOrder,
                                !.store = {f}, !.evergreen = r.evergreen, !.edit = TRUE]
    BY <1>7 DEF UpdateManaged, Editable
  <2>2. op'.store = {f}
    BY <2>1 DEF Idle
  <2>3. [r EXCEPT !.fact = f].fact = f
    BY <2>1 DEF TypeOK, Row
  <2>4. QED
    BY <1>1, <2>1, <2>2, <2>3 DEF Inv, StoredIsWritable, AnswersShareable, OpWritable
<1>8. CASE Prune
  BY <1>8 DEF Prune, Inv, StoredIsWritable, AnswersShareable, OpWritable
<1>9. QED
  BY <1>3, <1>4, <1>5, <1>6, <1>7, <1>8

(* The ways an operation ends early. *)
LEMMA InterruptionInv ==
  ASSUME Inv, Fail \/ DiskFull \/ Restart
  PROVE  Inv'
<1>1. rows' = rows /\ op' = Idle
  BY DEF Fail, DiskFull, Restart, GiveUp
<1>2. derived' \subseteq derived \/ derived' = Projection
  BY CutShortShrinks DEF Fail, DiskFull, Restart
<1>3. \A d \in Projection : d.table \in Spoken => MaySpeak(d.table, d.fact)
  BY RowsShareable DEF Projection, Inv, StoredIsWritable
<1>4. QED
  BY <1>1, <1>2, <1>3, IdleStoresNothing
  DEF Inv, StoredIsWritable, AnswersShareable, OpWritable
-----------------------------------------------------------------------------
(* Types. *)

LEMMA TableOrderType == TableOrder \in Seq(Tables) /\ TableOrder # <<>>
  BY DEF TableOrder, Tables

LEMMA LongTail ==
  ASSUME NEW s \in Seq(Tables), Len(s) > 1
  PROVE  Tail(s) \in Seq(Tables) /\ Tail(s) # <<>>
<1>1. s # <<>> /\ Len(s) \in Nat
  BY EmptySeq, LenProperties
<1>2. Tail(s) \in Seq(Tables) /\ Len(Tail(s)) = Len(s) - 1
  BY <1>1, HeadTailProperties
<1>3. \A m \in Nat : m > 1 => m - 1 # 0
  OBVIOUS
<1>4. Len(Tail(s)) # 0
  BY <1>1, <1>2, <1>3
<1>5. QED
  BY <1>2, <1>4, EmptySeq

LEMMA JobsType ==
  ASSUME NEW facts \in Seq(Facts), NEW how \in {"tool", "capture", "profile"},
         NEW known \in BOOLEAN
  PROVE  JobsOf(how, facts, known) \in Seq(Job)
<1>1. \A i \in 1..Len(facts) : [how |-> how, fact |-> facts[i], known |-> known] \in Job
  BY DEF Job
<1>2. JobsOf(how, facts, known) \in [1..Len(facts) -> Job]
  BY <1>1 DEF JobsOf
<1>3. QED
  BY <1>2

LEMMA OpUpdates ==
  ASSUME NEW o \in Op
  PROVE  /\ \A s \in Stages : [o EXCEPT !.stage = s] \in Op
         /\ \A v \in SUBSET Row : [o EXCEPT !.victims = v] \in Op
         /\ \A i \in 0..MaxId : [o EXCEPT !.id = i] \in Op
         /\ \A l \in Seq(Tables) : [o EXCEPT !.left = l] \in Op
         /\ \A f \in SUBSET Facts : [o EXCEPT !.store = f] \in Op
         /\ \A b \in BOOLEAN : [o EXCEPT !.evergreen = b] \in Op
         /\ \A b \in BOOLEAN : [o EXCEPT !.edit = b] \in Op
<1>1. \A s \in Stages : [o EXCEPT !.stage = s] \in Op
  BY DEF Op
<1>2. \A v \in SUBSET Row : [o EXCEPT !.victims = v] \in Op
  BY DEF Op
<1>3. \A i \in 0..MaxId : [o EXCEPT !.id = i] \in Op
  BY DEF Op
<1>4. \A l \in Seq(Tables) : [o EXCEPT !.left = l] \in Op
  BY DEF Op
<1>5. \A f \in SUBSET Facts : [o EXCEPT !.store = f] \in Op
  BY DEF Op
<1>6. \A b \in BOOLEAN : [o EXCEPT !.evergreen = b] \in Op
  BY DEF Op
<1>7. \A b \in BOOLEAN : [o EXCEPT !.edit = b] \in Op
  BY DEF Op
<1>8. QED
  BY <1>1, <1>2, <1>3, <1>4, <1>5, <1>6, <1>7

(* A loop that points at a row and its tables is well-formed. *)
LEMMA Pointed ==
  ASSUME NEW o \in Op, NEW s \in {"clear", "project"}, NEW i \in 1..MaxId
  PROVE  [o EXCEPT !.stage = s, !.id = i, !.left = TableOrder] \in Op
<1>1. [o EXCEPT !.stage = s] \in Op
  BY OpUpdates DEF Stages
<1>2. [o EXCEPT !.stage = s, !.id = i] \in Op
  <2>1. i \in 0..MaxId
    BY MemoryAssumption
  <2>2. QED
    BY <1>1, <2>1, OpUpdates
<1>3. QED
  BY <1>2, OpUpdates, TableOrderType

LEMMA IdleType == Idle \in Op /\ Idle.stage = "idle"
  BY MemoryAssumption DEF Idle, Op, Stages

LEMMA DeletingType ==
  ASSUME NEW v \in SUBSET Row
  PROVE  Deleting(v) \in Op /\ Deleting(v).stage = "delete"
<1>1. [Idle EXCEPT !.stage = "delete"] \in Op
  BY IdleType, OpUpdates DEF Stages
<1>2. Deleting(v) \in Op
  BY <1>1, OpUpdates DEF Deleting
<1>3. Deleting(v).stage = "delete"
  BY DEF Deleting, Idle
<1>4. QED
  BY <1>2, <1>3

LEMMA StoringType ==
  ASSUME NEW f \in Facts, NEW v \in SUBSET Row, NEW e \in BOOLEAN
  PROVE  Storing(f, v, e) \in Op /\ Storing(f, v, e).stage = "delete"
<1>1. [Deleting(v) EXCEPT !.store = {f}] \in Op
  BY DeletingType, OpUpdates
<1>2. Storing(f, v, e) \in Op
  BY <1>1, OpUpdates DEF Storing
<1>3. Storing(f, v, e).stage = "delete"
  BY DEF Storing, Deleting, Idle
<1>4. QED
  BY <1>2, <1>3

LEMMA InitType == Init => TypeOK /\ OpShape
<1>1. JobsOf("profile", Profile, FALSE) \in Seq(Job)
  BY JobsType, MemoryAssumption
<1>2. Init => OpShape
  BY IdleType DEF Init, OpShape
<1>3. 0 \in 0..MaxTime /\ 0 \in 0..MaxFaults /\ 0 \in 0..MaxBoots
  BY MemoryAssumption
<1>4. Init => TypeOK
  BY <1>1, <1>3, IdleType DEF Init, TypeOK
<1>5. QED
  BY <1>2, <1>4

LEMMA JobType ==
  ASSUME TypeOK, TakeJob
  PROVE  TypeOK' /\ OpShape'
<1> DEFINE f == Head(jobs).fact
<1>1. Head(jobs) \in Job /\ f \in Facts /\ Tail(jobs) \in Seq(Job)
  <2>1. jobs \in Seq(Job) /\ jobs # <<>>
    BY DEF TakeJob, TypeOK
  <2>2. Head(jobs) \in Job /\ Tail(jobs) \in Seq(Job)
    BY <2>1, HeadTailProperties
  <2>3. QED
    BY <2>2 DEF Job
<1>2. jobs' \in Seq(Job)
  <2>1. jobs' = Tail(jobs) \/ jobs' = <<>>
    BY DEF TakeJob, Skip
  <2>2. QED
    BY <1>1, <2>1, EmptySeq
<1>3. op' = Idle \/ \E v \in SUBSET Row, e \in BOOLEAN : op' = Storing(f, v, e)
  <2>1. ASSUME StoreResolved(f)
        PROVE  op' = Idle \/ \E v \in SUBSET Row, e \in BOOLEAN : op' = Storing(f, v, e)
    BY <2>1 DEF StoreResolved, ByKind, TypeOK
  <2>2. op' = Idle \/ StoreResolved(f) \/ op' = Storing(f, {}, TRUE)
    BY DEF TakeJob, Skip
  <2>3. QED
    BY <2>1, <2>2
<1>4. op' \in Op /\ op'.stage \notin {"clear", "project"}
  BY <1>1, <1>3, IdleType, StoringType
<1>5. QED
  BY <1>2, <1>4 DEF TakeJob, TypeOK, OpShape

LEMMA StatementType ==
  ASSUME TypeOK, OpShape, DeleteRow \/ ClearTable \/ InsertRow \/ ProjectTable
  PROVE  TypeOK' /\ OpShape'
<1>1. CASE DeleteRow
  <2>1. PICK r \in op.victims :
          /\ rows' = rows \ {r}
          /\ op' = [op EXCEPT !.stage = "clear", !.victims = @ \ {r},
                              !.id = r.id, !.left = TableOrder]
    BY <1>1 DEF DeleteRow
  <2>2. r.id \in 1..MaxId
    BY <2>1 DEF TypeOK, Op, Row
  <2>3. op' \in Op
    <3>1. op.victims \ {r} \in SUBSET Row /\ op \in Op
      BY DEF TypeOK, Op
    <3>2. [op EXCEPT !.stage = "clear"] \in Op
      BY <3>1, OpUpdates DEF Stages
    <3>3. [op EXCEPT !.stage = "clear", !.victims = @ \ {r}] \in Op
      BY <3>1, <3>2, OpUpdates
    <3>4. [op EXCEPT !.stage = "clear", !.victims = @ \ {r}, !.id = r.id] \in Op
      <4>1. r.id \in 0..MaxId
        BY <2>2, MemoryAssumption
      <4>2. QED
        BY <3>3, <4>1, OpUpdates
    <3>5. QED
      BY <2>1, <3>4, OpUpdates, TableOrderType
  <2>4. op'.left = TableOrder /\ op'.id = r.id
    BY <2>1 DEF TypeOK, Op
  <2>5. QED
    BY <1>1, <2>1, <2>2, <2>3, <2>4, TableOrderType DEF DeleteRow, TypeOK, OpShape
<1>2. CASE ClearTable
  <2>1. derived' \subseteq derived
    BY <1>2 DEF ClearTable, Without
  <2>2. op' \in Op /\ OpShape'
    <3>1. CASE Len(op.left) > 1
      <4>1. Tail(op.left) \in Seq(Tables) /\ Tail(op.left) # <<>>
        <5>1. op.left \in Seq(Tables)
          BY DEF TypeOK, Op
        <5>2. QED
          BY <3>1, <5>1, LongTail
      <4>2. QED
        BY <1>2, <3>1, <4>1 DEF ClearTable, TypeOK, Op, OpShape
    <3>2. CASE ~(Len(op.left) > 1) /\ op' = Idle
      BY <3>2, IdleType DEF OpShape
    <3>3. CASE op' = [op EXCEPT !.stage = "delete", !.left = <<>>]
      <4>1. [op EXCEPT !.stage = "delete"] \in Op
        BY OpUpdates DEF TypeOK, Stages
      <4>2. op' \in Op
        BY <3>3, <4>1, OpUpdates, EmptySeq
      <4>3. op'.stage = "delete"
        BY <3>3 DEF TypeOK, Op
      <4>4. QED
        BY <4>2, <4>3 DEF OpShape
    <3>4. QED
      BY <1>2, <3>1, <3>2, <3>3 DEF ClearTable
  <2>3. QED
    BY <1>2, <2>1, <2>2 DEF ClearTable, TypeOK
<1>3. CASE InsertRow
  <2>1. PICK f \in op.store, n \in 1..MaxId :
          /\ rows' = rows \cup {[id |-> n, fact |-> f, evergreen |-> op.evergreen, at |-> now]}
          /\ op' = [op EXCEPT !.stage = "project", !.id = n, !.left = TableOrder]
    BY <1>3 DEF InsertRow
  <2>2. rows' \subseteq Row
    BY <2>1 DEF TypeOK, Op, Row
  <2>3. op' \in Op /\ OpShape'
    <3>1. op' \in Op
      BY <2>1, Pointed DEF TypeOK
    <3>2. op'.left = TableOrder /\ op'.id = n
      BY <2>1 DEF TypeOK, Op
    <3>3. QED
      BY <3>1, <3>2, TableOrderType DEF OpShape
  <2>4. QED
    BY <1>3, <2>2, <2>3 DEF InsertRow, TypeOK
<1>4. CASE ProjectTable
  <2>1. PICK f \in op.store : derived' = Upsert(Head(op.left), op.id, f)
    BY <1>4 DEF ProjectTable
  <2>2. Head(op.left) \in Tables /\ op.id \in 1..MaxId /\ f \in Facts
    BY <1>4, <2>1 DEF ProjectTable, TypeOK, Op, OpShape
  <2>3. derived' \subseteq [table : Tables, id : 1..MaxId, fact : Facts]
    BY <2>1, <2>2 DEF Upsert, Without, Rows, TypeOK
  <2>4. op' \in Op /\ OpShape'
    <3>1. CASE Len(op.left) > 1
      <4>1. Tail(op.left) \in Seq(Tables) /\ Tail(op.left) # <<>>
        <5>1. op.left \in Seq(Tables)
          BY DEF TypeOK, Op
        <5>2. QED
          BY <3>1, <5>1, LongTail
      <4>2. QED
        BY <1>4, <3>1, <4>1 DEF ProjectTable, TypeOK, Op, OpShape
    <3>2. CASE ~(Len(op.left) > 1)
      BY <1>4, <3>2, IdleType DEF ProjectTable, OpShape
    <3>3. QED
      BY <3>1, <3>2
  <2>5. torn' \subseteq 1..MaxId
    BY <1>4 DEF ProjectTable, TypeOK
  <2>6. QED
    BY <1>4, <2>3, <2>4, <2>5 DEF ProjectTable, TypeOK
<1>5. QED
  BY <1>1, <1>2, <1>3, <1>4

LEMMA CallerType ==
  ASSUME TypeOK, OpShape,
         \/ MemoryStore \/ Capture \/ Recall \/ Forget
         \/ DeleteManaged \/ UpdateManaged \/ Prune \/ Tick
  PROVE  TypeOK' /\ OpShape'
<1>1. \A hits \in SUBSET rows : {[r EXCEPT !.at = now] : r \in hits} \subseteq Row
  BY DEF TypeOK, Row
<1>2. CASE MemoryStore
  <2>1. Batches \subseteq Seq(Facts)
    BY MemoryAssumption DEF Batches
  <2>2. jobs' \in Seq(Job)
    BY <1>2, <2>1, JobsType DEF MemoryStore
  <2>3. QED
    BY <1>2, <2>2 DEF MemoryStore, TypeOK, OpShape
<1>3. CASE Capture
  <2>1. \A f \in Facts : <<f>> \in Seq(Facts)
    OBVIOUS
  <2>2. jobs' \in Seq(Job)
    BY <1>3, <2>1, JobsType DEF Capture
  <2>3. QED
    BY <1>3, <2>2 DEF Capture, TypeOK, OpShape
<1>4. CASE Recall
  BY <1>1, <1>4 DEF Recall, Touched, TypeOK, OpShape
<1>5. CASE Forget
  <2>1. PICK hits \in SUBSET rows, known \in BOOLEAN :
          LET found == {[r EXCEPT !.at = now] : r \in hits}
              allowed == {r \in found : ReadAllowed(r.fact, known)}
          IN  /\ rows' = Touched(hits)
              /\ op' = IF allowed = {} THEN Idle ELSE Deleting(allowed)
    BY <1>5 DEF Forget
  <2>2. rows' \subseteq Row
    BY <1>1, <2>1 DEF Touched, TypeOK
  <2>3. op' = Idle \/ \E v \in SUBSET Row : op' = Deleting(v)
    BY <1>1, <2>1
  <2>4. op' \in Op /\ OpShape'
    BY <2>3, IdleType, DeletingType DEF OpShape
  <2>5. QED
    BY <1>5, <2>2, <2>4 DEF Forget, TypeOK
<1>6. CASE DeleteManaged
  <2>1. PICK r \in rows : op' = Deleting({r})
    BY <1>6 DEF DeleteManaged
  <2>2. op' \in Op /\ OpShape'
    BY <2>1, DeletingType DEF OpShape, TypeOK
  <2>3. QED
    BY <1>6, <2>2 DEF DeleteManaged, TypeOK
<1>7. CASE UpdateManaged
  <2>1. PICK r \in rows, f \in Facts :
          /\ rows' = (rows \ {r}) \cup {[r EXCEPT !.fact = f]}
          /\ op' = [Idle EXCEPT !.stage = "project", !.id = r.id, !.left = TableOrder,
                                !.store = {f}, !.evergreen = r.evergreen, !.edit = TRUE]
    BY <1>7 DEF UpdateManaged
  <2>2. r \in Row /\ [r EXCEPT !.fact = f] \in Row
    BY DEF TypeOK, Row
  <2>3. op' \in Op /\ OpShape'
    <3>1. r.id \in 1..MaxId /\ r.evergreen \in BOOLEAN
      BY <2>2 DEF Row
    <3>2. [Idle EXCEPT !.stage = "project", !.id = r.id, !.left = TableOrder] \in Op
      BY <3>1, IdleType, Pointed
    <3>3. [Idle EXCEPT !.stage = "project", !.id = r.id, !.left = TableOrder,
                       !.store = {f}] \in Op
      BY <3>2, OpUpdates
    <3>4. [Idle EXCEPT !.stage = "project", !.id = r.id, !.left = TableOrder,
                       !.store = {f}, !.evergreen = r.evergreen] \in Op
      BY <3>1, <3>3, OpUpdates
    <3>5. op' \in Op
      BY <2>1, <3>4, OpUpdates
    <3>6. op'.left = TableOrder /\ op'.id = r.id
      BY <2>1 DEF Idle
    <3>7. QED
      BY <3>1, <3>5, <3>6, TableOrderType DEF OpShape
  <2>4. QED
    BY <1>7, <2>1, <2>2, <2>3 DEF UpdateManaged, TypeOK
<1>8. CASE Prune
  BY <1>8 DEF Prune, TypeOK, OpShape
<1>9. CASE Tick
  BY <1>9, MemoryAssumption DEF Tick, TypeOK, OpShape
<1>10. QED
  BY <1>2, <1>3, <1>4, <1>5, <1>6, <1>7, <1>8, <1>9

LEMMA CutShortType ==
  ASSUME TypeOK, OpShape, CutShort
  PROVE  derived' \subseteq derived /\ torn' \subseteq 1..MaxId
  BY CutShortShrinks DEF CutShort, TypeOK, OpShape

LEMMA ProjectionType ==
  ASSUME TypeOK
  PROVE  Projection \subseteq [table : Tables, id : 1..MaxId, fact : Facts]
<1>1. \A t \in Tables, r \in rows :
        Rows(t, r.id, r.fact) \subseteq [table : Tables, id : 1..MaxId, fact : Facts]
  BY DEF Rows, TypeOK, Row
<1>2. QED
  BY <1>1 DEF Projection

LEMMA InterruptionType ==
  ASSUME TypeOK, OpShape, Fail \/ DiskFull \/ Restart
  PROVE  TypeOK' /\ OpShape'
<1>1. op' = Idle /\ op' \in Op /\ OpShape'
  BY IdleType DEF Fail, DiskFull, Restart, GiveUp, OpShape
<1>2. CASE Fail
  BY <1>1, <1>2, CutShortType, MemoryAssumption DEF Fail, GiveUp, TypeOK
<1>3. CASE DiskFull
  BY <1>1, <1>3 DEF DiskFull, GiveUp, TypeOK
<1>4. CASE Restart
  <2>1. derived' \subseteq [table : Tables, id : 1..MaxId, fact : Facts] /\ torn' \subseteq 1..MaxId
    BY <1>4, CutShortType, ProjectionType DEF Restart, TypeOK
  <2>2. jobs' \in Seq(Job)
    BY <1>4, JobsType, MemoryAssumption DEF Restart
  <2>3. boots' \in 0..MaxBoots
    BY <1>4, MemoryAssumption DEF Restart, TypeOK
  <2>4. QED
    BY <1>1, <1>4, <2>1, <2>2, <2>3 DEF Restart, TypeOK
<1>5. QED
  BY <1>2, <1>3, <1>4

-----------------------------------------------------------------------------
LEMMA StepInv ==
  ASSUME TypeOK, OpShape, Inv, [Next]_vars
  PROVE  TypeOK' /\ OpShape' /\ Inv'
<1>1. CASE TakeJob
  BY <1>1, JobType, JobInv
<1>2. CASE DeleteRow \/ ClearTable \/ InsertRow \/ ProjectTable
  BY <1>2, StatementType, StatementInv
<1>3. CASE \/ MemoryStore \/ Capture \/ Recall \/ Forget
           \/ DeleteManaged \/ UpdateManaged \/ Prune \/ Tick
  BY <1>3, CallerType, CallerInv
<1>4. CASE Fail \/ DiskFull \/ Restart
  BY <1>4, InterruptionType, InterruptionInv
<1>5. CASE UNCHANGED vars
  BY <1>5 DEF vars, TypeOK, OpShape, Inv, StoredIsWritable, AnswersShareable, OpWritable
<1>6. QED
  BY <1>1, <1>2, <1>3, <1>4, <1>5 DEF Next

(***************************************************************************)
(* The inductive invariant: types, the loops of delete_by_id and of the    *)
(* upserts never past their last table, and both safety properties with    *)
(* what they need of the operation in progress.                            *)
(***************************************************************************)
THEOREM MemoryInvariant == Spec => [](TypeOK /\ OpShape /\ Inv)
<1>1. Init => TypeOK /\ OpShape /\ Inv
  BY InitType, InitInv
<1>2. TypeOK /\ OpShape /\ Inv /\ [Next]_vars => (TypeOK /\ OpShape /\ Inv)'
  BY StepInv
<1>3. QED
  BY <1>1, <1>2, PTL DEF Spec

(***************************************************************************)
(* No tool call, automatic capture, profile or dashboard edit stores what  *)
(* assess_memory_write refuses, whatever fails or restarts in between.     *)
(***************************************************************************)
THEOREM StoredIsWritableAlways == Spec => []StoredIsWritable
  BY MemoryInvariant, PTL DEF Inv

(***************************************************************************)
(* The tables that are spoken without a read context never hold what a     *)
(* shared room may not hear, nor the references to secrets anything that   *)
(* assess_memory_write refuses, stale rows of pruned memories included.    *)
(***************************************************************************)
THEOREM AnswersShareableAlways == Spec => []AnswersShareable
  BY MemoryInvariant, PTL DEF Inv

-----------------------------------------------------------------------------
(* The derived rows of a live memory are those of what it says.            *)

OfRow(t, id) == {d \in derived : d.table = t /\ d.id = id}
Projected(t, r) == OfRow(t, r.id) = Rows(t, r.id, r.fact)

IdsUnique == \A r, q \in rows : r.id = q.id => r = q

(* What an operation may delete is still there, and what it clears is not. *)
DeletionSound ==
  /\ op.stage \in {"delete", "clear"} => op.victims \subseteq rows
  /\ op.stage = "delete" => op.left = <<>>
  /\ op.stage = "clear" => \A r \in rows : r.id # op.id
  /\ \A f, g \in op.store : f = g

(* The row that is being projected is live, says what is projected, and    *)
(* the tables already passed are up to date.                               *)
ProjectionSound ==
  op.stage = "project" =>
    \E r \in rows :
      /\ r.id = op.id /\ \A f \in op.store : f = r.fact
      /\ \A t \in Tables : (\A i \in DOMAIN op.left : op.left[i] # t) => Projected(t, r)

Settled(r) == r.id \notin torn /\ ~(op.stage = "project" /\ op.id = r.id)
SettledProjected == \A r \in rows : Settled(r) => \A t \in Tables : Projected(t, r)

ProjInv == IdsUnique /\ DeletionSound /\ ProjectionSound /\ SettledProjected

LEMMA UpsertReplaces ==
  ASSUME NEW t, NEW id, NEW f
  PROVE  /\ {d \in Upsert(t, id, f) : d.table = t /\ d.id = id} = Rows(t, id, f)
         /\ \A u, i : u # t \/ i # id => {d \in Upsert(t, id, f) : d.table = u /\ d.id = i} = OfRow(u, i)
<1>1. \A d \in Rows(t, id, f) : d.table = t /\ d.id = id
  BY DEF Rows
<1> QED
  BY <1>1 DEF Upsert, Without, OfRow

LEMMA WithoutElsewhere ==
  ASSUME NEW t, NEW id
  PROVE  \A u, i : i # id => {d \in Without(t, id) : d.table = u /\ d.id = i} = OfRow(u, i)
  BY DEF Without, OfRow

LEMMA AllTables == \A t \in Tables : \E i \in DOMAIN TableOrder : TableOrder[i] = t
<1>1. /\ TableOrder[1] = "household" /\ TableOrder[2] = "device_aliases"
      /\ TableOrder[3] = "secret_references" /\ TableOrder[4] = "embedded_memories"
      /\ {1, 2, 3, 4} \subseteq DOMAIN TableOrder
  BY DEF TableOrder
<1> QED
  BY <1>1 DEF Tables

(* Refreshing the rows that were found changes neither ids nor facts.      *)
LEMMA TouchedRows ==
  ASSUME TypeOK, IdsUnique, NEW hits \in SUBSET rows
  PROVE  /\ \A q \in Touched(hits) : \E r \in rows : q.id = r.id /\ q.fact = r.fact
         /\ \A q, p \in Touched(hits) : q.id = p.id => q = p
<1>1. \A r \in rows : [r EXCEPT !.at = now].id = r.id /\ [r EXCEPT !.at = now].fact = r.fact
  BY DEF TypeOK, Row
<1>2. \A q \in Touched(hits) : \E r \in rows :
        q.id = r.id /\ q.fact = r.fact /\ q = IF r \in hits THEN [r EXCEPT !.at = now] ELSE r
  BY <1>1 DEF Touched
<1> QED
  BY <1>2 DEF IdsUnique

(* Steps that begin or finish nothing in the tables: the rows keep what    *)
(* they say.                                                               *)
LEMMA QuietStep ==
  ASSUME ProjInv, UNCHANGED <<derived, torn>>, op.stage # "project", op'.stage # "project",
         \A q \in rows' : \E r \in rows : q.id = r.id /\ q.fact = r.fact
  PROVE  ProjectionSound' /\ SettledProjected'
<1>1. ProjectionSound'
  BY DEF ProjectionSound
<1>2. SettledProjected'
  <2> SUFFICES ASSUME NEW q \in rows', q.id \notin torn, NEW t \in Tables
               PROVE  {d \in derived : d.table = t /\ d.id = q.id} = Rows(t, q.id, q.fact)
    BY DEF SettledProjected, Settled, Projected, OfRow
  <2>1. PICK r \in rows : q.id = r.id /\ q.fact = r.fact
    OBVIOUS
  <2>2. Projected(t, r)
    BY <2>1 DEF ProjInv, SettledProjected, Settled
  <2> QED
    BY <2>1, <2>2 DEF Projected, OfRow
<1> QED
  BY <1>1, <1>2

LEMMA DeletingShape ==
  \A v : /\ Deleting(v).stage = "delete" /\ Deleting(v).victims = v /\ Deleting(v).left = <<>>
         /\ Deleting(v).store = {}
  BY DEF Deleting, Idle

LEMMA StoringShape ==
  \A f, v, e : /\ Storing(f, v, e).stage = "delete" /\ Storing(f, v, e).victims = v
               /\ Storing(f, v, e).left = <<>> /\ Storing(f, v, e).store = {f}
  BY DEF Storing, Deleting, Idle

LEMMA IdleDeletion ==
  ASSUME op' = Idle
  PROVE  DeletionSound'
  BY DEF DeletionSound, Idle

LEMMA JobProj ==
  ASSUME TypeOK, ProjInv, TakeJob
  PROVE  ProjInv'
<1> DEFINE f == Head(jobs).fact
<1>1. UNCHANGED <<rows, derived, torn>> /\ op.stage = "idle"
  BY DEF TakeJob
<1>2. op' = Idle \/ \E v \in SUBSET rows : \E e : op' = Storing(f, v, e)
  <2>1. StoreResolved(f) => op' = Idle \/ \E v \in SUBSET rows : op' = Storing(f, v, FALSE)
    <3> SUFFICES ASSUME StoreResolved(f), op' # Idle
                 PROVE  \E v \in SUBSET rows : op' = Storing(f, v, FALSE)
      OBVIOUS
    <3>1. PICK recent \in ByKind(f.kind, KindLimit) :
            op' = Storing(f, {r \in recent : SameSlot(f, r.fact) /\ r.fact.text # f.text}, FALSE)
      BY DEF StoreResolved
    <3>2. recent \subseteq rows
      BY DEF ByKind
    <3> QED
      BY <3>1, <3>2
  <2> QED
    BY <2>1 DEF TakeJob, Skip
<1>3. DeletionSound' /\ op'.stage # "project"
  <2>1. CASE op' = Idle
    BY <2>1, IdleDeletion DEF Idle
  <2>2. CASE \E v \in SUBSET rows : \E e : op' = Storing(f, v, e)
    <3>0. PICK v \in SUBSET rows : \E e : op' = Storing(f, v, e)
      BY <2>2
    <3>1. PICK e : op' = Storing(f, v, e)
      BY <3>0
    <3>2. op'.stage = "delete" /\ op'.victims = v /\ op'.left = <<>> /\ op'.store = {f}
      BY <3>1, StoringShape
    <3> QED
      BY <1>1, <3>2 DEF DeletionSound
  <2> QED
    BY <1>2, <2>1, <2>2
<1>4. ProjectionSound' /\ SettledProjected'
  BY <1>1, <1>3, QuietStep
<1> QED
  BY <1>1, <1>3, <1>4 DEF ProjInv, IdsUnique

LEMMA DeleteProj ==
  ASSUME TypeOK, ProjInv, DeleteRow
  PROVE  ProjInv'
<1>1. PICK r \in op.victims : /\ rows' = rows \ {r}
                              /\ op' = [op EXCEPT !.stage = "clear", !.victims = @ \ {r},
                                                  !.id = r.id, !.left = TableOrder]
  BY DEF DeleteRow
<1>2. op.stage = "delete" /\ UNCHANGED <<derived, torn>> /\ op \in Op
  BY DEF DeleteRow, TypeOK
<1>3. op'.stage = "clear" /\ op'.victims = op.victims \ {r} /\ op'.id = r.id /\ op'.store = op.store
  BY <1>1, <1>2 DEF Op
<1>4. r \in rows /\ op.victims \subseteq rows
  BY <1>2 DEF ProjInv, DeletionSound
<1>5. IdsUnique'
  BY <1>1 DEF ProjInv, IdsUnique
<1>6. DeletionSound'
  BY <1>1, <1>3, <1>4 DEF ProjInv, IdsUnique, DeletionSound
<1>7. ProjectionSound' /\ SettledProjected'
  BY <1>1, <1>2, <1>3, QuietStep
<1> QED
  BY <1>5, <1>6, <1>7 DEF ProjInv

LEMMA ClearProj ==
  ASSUME TypeOK, ProjInv, ClearTable
  PROVE  ProjInv'
<1>1. /\ op.stage = "clear" /\ UNCHANGED <<rows, torn>> /\ op \in Op
      /\ derived' = Without(Head(op.left), op.id)
      /\ \A r \in rows : r.id # op.id
  BY DEF ClearTable, TypeOK, ProjInv, DeletionSound
<1>2. /\ op'.stage \in {"idle", "delete", "clear"}
      /\ op'.stage = "clear" => op'.id = op.id /\ op'.victims = op.victims
      /\ op'.stage = "delete" => op'.left = <<>> /\ op'.victims = op.victims
      /\ op'.store \in {op.store, {}}
  <2>1. CASE op' = [op EXCEPT !.left = Tail(@)]
    BY <1>1, <2>1 DEF Op
  <2>2. CASE op' = Idle
    BY <2>2 DEF Idle
  <2>3. CASE op' = [op EXCEPT !.stage = "delete", !.left = <<>>]
    BY <1>1, <2>3 DEF Op
  <2> QED
    BY <2>1, <2>2, <2>3 DEF ClearTable
<1>3. DeletionSound'
  BY <1>1, <1>2 DEF ProjInv, DeletionSound
<1>4. SettledProjected'
  <2> SUFFICES ASSUME NEW r \in rows, r.id \notin torn, NEW t \in Tables
               PROVE  {d \in derived' : d.table = t /\ d.id = r.id} = Rows(t, r.id, r.fact)
    BY <1>1 DEF SettledProjected, Settled, Projected, OfRow
  <2>1. {d \in derived' : d.table = t /\ d.id = r.id} = OfRow(t, r.id)
    BY <1>1, WithoutElsewhere
  <2>2. Projected(t, r)
    BY <1>1 DEF ProjInv, SettledProjected, Settled
  <2> QED
    BY <2>1, <2>2 DEF Projected
<1> QED
  BY <1>1, <1>2, <1>3, <1>4 DEF ProjInv, IdsUnique, ProjectionSound

LEMMA InsertProj ==
  ASSUME TypeOK, ProjInv, InsertRow
  PROVE  ProjInv'
<1>1. PICK f \in op.store, n \in 1..MaxId :
        /\ IsNextRowId(n)
        /\ rows' = rows \cup {[id |-> n, fact |-> f, evergreen |-> op.evergreen, at |-> now]}
        /\ op' = [op EXCEPT !.stage = "project", !.id = n, !.left = TableOrder]
  BY DEF InsertRow
<1>2. PICK q : q = [id |-> n, fact |-> f, evergreen |-> op.evergreen, at |-> now]
  OBVIOUS
<1>3. q.id = n /\ q.fact = f /\ rows' = rows \cup {q}
  BY <1>1, <1>2
<1>4. op.stage = "delete" /\ UNCHANGED <<derived, torn>> /\ op \in Op
  BY DEF InsertRow, TypeOK
<1>5. op'.stage = "project" /\ op'.id = n /\ op'.left = TableOrder /\ op'.store = op.store
  BY <1>1, <1>4 DEF Op
<1>6. \A r \in rows : r.id # n
  <2>1. \A r \in rows : r.id < n /\ r.id \in Nat
    BY <1>1 DEF IsNextRowId, TypeOK, Row
  <2> QED
    BY <2>1
<1>7. IdsUnique'
  BY <1>3, <1>6 DEF ProjInv, IdsUnique
<1>8. DeletionSound'
  BY <1>5 DEF ProjInv, DeletionSound
<1>9. ProjectionSound'
  BY <1>1, <1>3, <1>5, AllTables DEF ProjectionSound, ProjInv, DeletionSound
<1>10. SettledProjected'
  BY <1>3, <1>4, <1>5, <1>6 DEF ProjInv, SettledProjected, Settled, Projected, OfRow
<1> QED
  BY <1>7, <1>8, <1>9, <1>10 DEF ProjInv

LEMMA UpsertProj ==
  ASSUME TypeOK, OpShape, ProjInv, ProjectTable
  PROVE  ProjInv'
<1> DEFINE t == Head(op.left)
<1>1. PICK f \in op.store : derived' = Upsert(t, op.id, f)
  BY DEF ProjectTable
<1>2. /\ op.stage = "project" /\ rows' = rows /\ op \in Op /\ op.left \in Seq(Tables) /\ op.left # <<>>
  BY DEF ProjectTable, TypeOK, OpShape, Op
<1>3. PICK r \in rows :
        /\ r.id = op.id /\ \A g \in op.store : g = r.fact
        /\ \A u \in Tables : (\A i \in DOMAIN op.left : op.left[i] # u) => Projected(u, r)
  BY <1>2 DEF ProjInv, ProjectionSound
<1>4. PICK h, id : h = t /\ id = op.id
  OBVIOUS
<1>5. f = r.fact /\ derived' = Upsert(h, id, r.fact) /\ r.id = id
  BY <1>1, <1>3, <1>4
<1>6. Projected(h, r)'
  BY <1>5, UpsertReplaces DEF Projected, OfRow
<1>7. \A u, q : (u # h \/ q.id # id) /\ Projected(u, q) => Projected(u, q)'
  BY <1>5, UpsertReplaces DEF Projected, OfRow
<1>8. \A q \in rows : q # r => q.id # id
  BY <1>5 DEF ProjInv, IdsUnique
<1>9. CASE Len(op.left) > 1
  <2>1. op' = [op EXCEPT !.left = Tail(@)] /\ torn' = torn
    BY <1>9 DEF ProjectTable
  <2>2. op'.stage = "project" /\ op'.id = op.id /\ op'.store = op.store /\ op'.left = Tail(op.left)
    BY <1>2, <2>1 DEF Op
  <2>3. \A u \in Tables : (\A i \in DOMAIN Tail(op.left) : Tail(op.left)[i] # u)
                          => u = h \/ \A i \in DOMAIN op.left : op.left[i] # u
    <3> SUFFICES ASSUME NEW u \in Tables, \A i \in DOMAIN Tail(op.left) : Tail(op.left)[i] # u, u # h,
                        NEW i \in DOMAIN op.left
                 PROVE  op.left[i] # u
      OBVIOUS
    <3>1. CASE i = 1
      BY <1>2, <1>4, <3>1
    <3>2. CASE i # 1
      <4>1. i - 1 \in DOMAIN Tail(op.left) /\ Tail(op.left)[i - 1] = op.left[i]
        BY <1>2, <1>9, <3>2
      <4> QED
        BY <4>1
    <3> QED
      BY <3>1, <3>2
  <2>4. \A u \in Tables : (\A i \in DOMAIN Tail(op.left) : Tail(op.left)[i] # u) => Projected(u, r)'
    <3> SUFFICES ASSUME NEW u \in Tables, \A i \in DOMAIN Tail(op.left) : Tail(op.left)[i] # u
                 PROVE  Projected(u, r)'
      OBVIOUS
    <3>1. CASE u = h
      BY <1>6, <3>1
    <3>2. CASE u # h
      BY <1>3, <1>7, <2>3, <3>2
    <3> QED
      BY <3>1, <3>2
  <2>5. ProjectionSound'
    BY <1>2, <1>3, <2>2, <2>4 DEF ProjectionSound
  <2>6. SettledProjected'
    <3> SUFFICES ASSUME NEW q \in rows, q.id \notin torn, q.id # op.id, NEW u \in Tables
                 PROVE  Projected(u, q)'
      BY <1>2, <2>1, <2>2 DEF SettledProjected, Settled
    <3>1. Projected(u, q)
      BY DEF ProjInv, SettledProjected, Settled
    <3> QED
      BY <1>4, <1>7, <3>1
  <2> QED
    BY <1>2, <2>2, <2>5, <2>6 DEF ProjInv, IdsUnique, DeletionSound
<1>10. CASE ~(Len(op.left) > 1)
  <2>1. op' = Idle /\ torn' = torn \ {op.id}
    BY <1>10 DEF ProjectTable
  <2>2. \A i \in DOMAIN op.left : op.left[i] = h
    BY <1>2, <1>4, <1>10
  <2>3. \A u \in Tables : Projected(u, r)'
    BY <1>3, <1>6, <1>7, <2>2
  <2>4. SettledProjected'
    <3> SUFFICES ASSUME NEW q \in rows, q.id \notin torn \ {op.id}, NEW u \in Tables
                 PROVE  Projected(u, q)'
      BY <1>2, <2>1 DEF SettledProjected, Settled
    <3>1. CASE q = r
      BY <2>3, <3>1
    <3>2. CASE q # r
      <4>1. q.id # id
        BY <1>8, <3>2
      <4>2. Projected(u, q)
        BY <1>4, <4>1 DEF ProjInv, SettledProjected, Settled
      <4> QED
        BY <1>7, <4>1, <4>2
    <3> QED
      BY <3>1, <3>2
  <2>5. DeletionSound' /\ ProjectionSound'
    BY <2>1, IdleDeletion DEF ProjectionSound, Idle
  <2> QED
    BY <1>2, <2>4, <2>5 DEF ProjInv, IdsUnique
<1> QED
  BY <1>9, <1>10

LEMMA CallerProj ==
  ASSUME TypeOK, ProjInv, \/ MemoryStore \/ Capture \/ Recall \/ Forget
                          \/ DeleteManaged \/ UpdateManaged \/ Prune \/ Tick
  PROVE  ProjInv'
<1>1. op.stage = "idle" /\ UNCHANGED <<derived, torn>>
  BY DEF Free, MemoryStore, Capture, Recall, Forget, DeleteManaged, UpdateManaged, Prune, Tick
<1>2. CASE MemoryStore \/ Capture \/ Tick \/ Prune
  <2>1. rows' \subseteq rows /\ op' = op
    BY <1>2 DEF MemoryStore, Capture, Tick, Prune
  <2>2. ProjectionSound' /\ SettledProjected'
    BY <1>1, <2>1, QuietStep
  <2> QED
    BY <1>1, <2>1, <2>2 DEF ProjInv, IdsUnique, DeletionSound
<1>3. CASE Recall
  <2>1. PICK hits \in SUBSET rows : rows' = Touched(hits)
    BY <1>3 DEF Recall
  <2>2. op' = op
    BY <1>3 DEF Recall
  <2>3. /\ \A q \in rows' : \E r \in rows : q.id = r.id /\ q.fact = r.fact
        /\ IdsUnique'
    BY <2>1, TouchedRows DEF ProjInv, IdsUnique
  <2>4. ProjectionSound' /\ SettledProjected'
    BY <1>1, <2>2, <2>3, QuietStep
  <2> QED
    BY <1>1, <2>2, <2>3, <2>4 DEF ProjInv, DeletionSound
<1>4. CASE Forget
  <2>1. PICK hits \in SUBSET rows, known \in BOOLEAN :
          LET found == {[r EXCEPT !.at = now] : r \in hits}
              allowed == {r \in found : ReadAllowed(r.fact, known)}
          IN  /\ rows' = Touched(hits)
              /\ op' = IF allowed = {} THEN Idle ELSE Deleting(allowed)
    BY <1>4 DEF Forget
  <2>2. /\ \A q \in rows' : \E r \in rows : q.id = r.id /\ q.fact = r.fact
        /\ IdsUnique'
    BY <2>1, TouchedRows DEF ProjInv, IdsUnique
  <2>3. op' = Idle \/ \E v \in SUBSET rows' : op' = Deleting(v)
    BY <2>1 DEF Touched
  <2>4. DeletionSound' /\ op'.stage # "project"
    <3>1. CASE op' = Idle
      BY <3>1, IdleDeletion DEF Idle
    <3>2. CASE \E v \in SUBSET rows' : op' = Deleting(v)
      BY <3>2, DeletingShape DEF DeletionSound
    <3> QED
      BY <2>3, <3>1, <3>2
  <2>5. ProjectionSound' /\ SettledProjected'
    BY <1>1, <2>2, <2>4, QuietStep
  <2> QED
    BY <2>2, <2>4, <2>5 DEF ProjInv
<1>5. CASE DeleteManaged
  <2>1. PICK r \in rows : op' = Deleting({r})
    BY <1>5 DEF DeleteManaged
  <2>2. rows' = rows
    BY <1>5 DEF DeleteManaged
  <2>3. DeletionSound' /\ op'.stage # "project"
    BY <2>1, <2>2, DeletingShape DEF DeletionSound
  <2>4. ProjectionSound' /\ SettledProjected'
    BY <1>1, <2>2, <2>3, QuietStep
  <2> QED
    BY <2>2, <2>3, <2>4 DEF ProjInv, IdsUnique
<1>6. CASE UpdateManaged
  <2>1. PICK r \in rows, f \in Facts :
          /\ rows' = (rows \ {r}) \cup {[r EXCEPT !.fact = f]}
          /\ op' = [Idle EXCEPT !.stage = "project", !.id = r.id, !.left = TableOrder,
                                !.store = {f}, !.evergreen = r.evergreen, !.edit = TRUE]
    BY <1>6 DEF UpdateManaged
  <2>2. PICK q : q = [r EXCEPT !.fact = f]
    OBVIOUS
  <2>3. q.id = r.id /\ q.fact = f /\ rows' = (rows \ {r}) \cup {q}
    BY <2>1, <2>2 DEF TypeOK, Row
  <2>4. op'.stage = "project" /\ op'.id = r.id /\ op'.left = TableOrder /\ op'.store = {f}
    BY <2>1 DEF Idle
  <2>5. IdsUnique'
    BY <2>3 DEF ProjInv, IdsUnique
  <2>6. DeletionSound'
    BY <2>4 DEF DeletionSound
  <2>7. ProjectionSound'
    BY <2>3, <2>4, AllTables DEF ProjectionSound
  <2>8. SettledProjected'
    BY <1>1, <2>3, <2>4 DEF ProjInv, SettledProjected, Settled, Projected, OfRow
  <2> QED
    BY <2>5, <2>6, <2>7, <2>8 DEF ProjInv
<1> QED
  BY <1>2, <1>3, <1>4, <1>5, <1>6

(* An operation that is cut short leaves only its own row unprojected.     *)
LEMMA CutShortProj ==
  ASSUME TypeOK, ProjInv, CutShort, rows' = rows, op' = Idle
  PROVE  SettledProjected'
<1> SUFFICES ASSUME NEW r \in rows, r.id \notin torn', NEW t \in Tables
             PROVE  Projected(t, r)'
  BY DEF SettledProjected, Settled
<1>1. torn' = IF op.stage = "project" THEN torn \cup {op.id} ELSE torn
  BY DEF CutShort
<1>2. Projected(t, r)
  BY <1>1 DEF ProjInv, SettledProjected, Settled
<1>3. CASE derived' = derived
  BY <1>2, <1>3 DEF Projected, OfRow
<1>4. CASE derived' # derived
  <2>1. PICK u : derived' = Without(u, op.id)
    BY <1>4 DEF CutShort
  <2>2. DOMAIN op.left # {}
    BY <1>4 DEF CutShort
  <2>3. op.stage \in {"clear", "project"}
    BY <2>2 DEF CutShort, TypeOK, Op, Stages, ProjInv, DeletionSound
  <2>4. r.id # op.id
    BY <1>1, <2>3 DEF ProjInv, DeletionSound
  <2>5. PICK id : id = op.id
    OBVIOUS
  <2>6. {d \in derived' : d.table = t /\ d.id = r.id} = OfRow(t, r.id)
    BY <2>1, <2>4, <2>5, WithoutElsewhere
  <2> QED
    BY <1>2, <2>6 DEF Projected, OfRow
<1> QED
  BY <1>3, <1>4

(* open rebuilds every projection. *)
LEMMA RebuiltProj ==
  ASSUME TypeOK, IdsUnique
  PROVE  \A r \in rows, t \in Tables :
           {d \in Projection : d.table = t /\ d.id = r.id} = Rows(t, r.id, r.fact)
<1> SUFFICES ASSUME NEW r \in rows, NEW t \in Tables
             PROVE  {d \in Projection : d.table = t /\ d.id = r.id} = Rows(t, r.id, r.fact)
  OBVIOUS
<1>1. \A u \in Tables, q \in rows : \A d \in Rows(u, q.id, q.fact) : d.table = u /\ d.id = q.id
  BY DEF Rows
<1>2. Rows(t, r.id, r.fact) \subseteq Projection
  BY DEF Projection
<1>3. \A d \in Projection : d.table = t /\ d.id = r.id => d \in Rows(t, r.id, r.fact)
  BY <1>1 DEF Projection, IdsUnique
<1> QED
  BY <1>1, <1>2, <1>3

LEMMA InterruptionProj ==
  ASSUME TypeOK, ProjInv, Fail \/ DiskFull \/ Restart
  PROVE  ProjInv'
<1>1. op' = Idle /\ rows' = rows
  BY DEF Fail, DiskFull, Restart, GiveUp
<1>2. IdsUnique' /\ DeletionSound' /\ ProjectionSound'
  BY <1>1, IdleDeletion DEF ProjInv, IdsUnique, ProjectionSound, Idle
<1>3. CASE CutShort
  BY <1>1, <1>2, <1>3, CutShortProj DEF ProjInv
<1>4. CASE UNCHANGED <<derived, torn>> /\ op.stage # "project"
  BY <1>1, <1>2, <1>4, QuietStep DEF ProjInv, Idle
<1>5. CASE derived' = Projection /\ torn' = {}
  <2>1. SettledProjected'
    BY <1>1, <1>5, RebuiltProj DEF SettledProjected, Projected, OfRow, ProjInv
  <2> QED
    BY <1>2, <2>1 DEF ProjInv
<1> QED
  BY <1>3, <1>4, <1>5 DEF Fail, DiskFull, Restart

LEMMA StepProj ==
  ASSUME TypeOK, OpShape, ProjInv, [Next]_vars
  PROVE  ProjInv'
<1>1. CASE UNCHANGED vars
  BY <1>1 DEF vars, ProjInv, IdsUnique, DeletionSound, ProjectionSound, SettledProjected, Settled,
              Projected, OfRow
<1> QED
  BY <1>1, JobProj, DeleteProj, ClearProj, InsertProj, UpsertProj, CallerProj, InterruptionProj DEF Next

(***************************************************************************)
(* Whatever the pruner left behind under an id that is used again, the     *)
(* derived rows of a memory are those of what it says now, once no         *)
(* operation is at work on it or was cut short (upsert_*_from_memory,      *)
(* delete_by_id).                                                          *)
(***************************************************************************)
THEOREM LiveRowsAlwaysProjected == Spec => []LiveRowsProjected
<1>1. Init => ProjInv
  BY IdleStoresNothing DEF Init, ProjInv, IdsUnique, DeletionSound, ProjectionSound, SettledProjected, Idle
<1>2. TypeOK /\ OpShape /\ ProjInv /\ [Next]_vars => ProjInv'
  BY StepProj
<1>3. TypeOK /\ ProjInv => LiveRowsProjected
  <2> SUFFICES ASSUME TypeOK, ProjInv, NEW r \in rows, Settled(r)
               PROVE  {d \in derived : d.id = r.id} = UNION {Rows(t, r.id, r.fact) : t \in Tables}
    BY DEF LiveRowsProjected, Settled
  <2>1. \A t \in Tables : OfRow(t, r.id) = Rows(t, r.id, r.fact)
    BY DEF ProjInv, SettledProjected, Projected
  <2>2. {d \in derived : d.id = r.id} = UNION {OfRow(t, r.id) : t \in Tables}
    BY DEF TypeOK, OfRow
  <2> QED
    BY <2>1, <2>2
<1> QED
  BY <1>1, <1>2, <1>3, MemoryInvariant, PTL DEF Spec

-----------------------------------------------------------------------------
(* What is stated takes effect where it is meant to.                       *)

(* get_by_kind returns every row of a kind. *)
KindsFit == \A f \in Facts : Cardinality({r \in rows : r.fact.kind = f.kind}) <= KindLimit

(* Before a correction is stored, what holds another value is to be deleted. *)
Superseding ==
  op.stage \in {"delete", "clear"} /\ ~op.evergreen =>
    \A f \in op.store, r \in rows : SameSlot(f, r.fact) => r \in op.victims

(* The row that was just stored has the highest id. *)
StoredLast ==
  op.stage = "project" /\ ~op.edit =>
    \A r \in rows : /\ r.id = op.id => r.evergreen = op.evergreen
                    /\ r.id # op.id => r.id < op.id

TakesInv == Superseding /\ StoredLast

LEMMA RowsFinite ==
  ASSUME TypeOK, IdsUnique
  PROVE  IsFiniteSet(rows)
<1> DEFINE idOf == [r \in rows |-> r.id]
<1>1. idOf \in [rows -> 1..MaxId]
  BY DEF TypeOK, Row
<1>2. \A r, q \in rows : idOf[r] = idOf[q] => r = q
  BY DEF IdsUnique
<1> HIDE DEF idOf
<1>3. idOf \in Injection(rows, 1..MaxId)
  BY <1>1, <1>2 DEF Injection, IsInjective
<1>4. IsFiniteSet(1..MaxId)
  BY MemoryAssumption, FS_Interval
<1> QED
  BY <1>3, <1>4, FS_Injection

LEMMA EveryOldValue ==
  ASSUME TypeOK, IdsUnique, KindsFit, NEW f \in Facts, StoreResolved(f), op' # Idle
  PROVE  \E v : /\ op' = Storing(f, v, FALSE)
                /\ \A r \in rows : SameSlot(f, r.fact) => r \in v
<1> DEFINE all == {r \in rows : r.fact.kind = f.kind}
<1>1. PICK recent \in ByKind(f.kind, KindLimit) :
        op' = Storing(f, {r \in recent : SameSlot(f, r.fact) /\ r.fact.text # f.text}, FALSE)
  BY DEF StoreResolved
<1>2. recent = all
  <2>1. IsFiniteSet(all) /\ Cardinality(all) \in Nat
    <3>1. all \in SUBSET rows
      OBVIOUS
    <3> QED
      BY <3>1, RowsFinite, FS_Subset, FS_CardinalityType
  <2>2. Cardinality(all) <= KindLimit /\ KindLimit \in Nat
    BY MemoryAssumption DEF KindsFit
  <2>3. recent \in SUBSET all /\ Cardinality(recent) = Cardinality(all)
    BY <2>1, <2>2 DEF ByKind
  <2> HIDE DEF all
  <2> QED
    BY <2>1, <2>3, FS_Subset
<1>3. ASSUME NEW r \in rows, SameSlot(f, r.fact)
      PROVE  r \in recent /\ r.fact.text # f.text
  <2>1. f.slot # NoSlot /\ r.fact.kind = f.kind
    BY <1>3 DEF SameSlot
  <2>2. ~HasExact(f)
    BY <2>1 DEF StoreResolved
  <2> QED
    BY <1>2, <1>3, <2>1, <2>2 DEF HasExact
<1> QED
  BY <1>1, <1>3

LEMMA QuietOp ==
  ASSUME TypeOK, op'.stage = "idle" \/ (op'.stage = "delete" /\ op'.store = {})
  PROVE  TakesInv'
  BY DEF TakesInv, Superseding, StoredLast

LEMMA IdleOp ==
  ASSUME TypeOK, op' = Idle
  PROVE  TakesInv'
  BY QuietOp DEF Idle

LEMMA TakesStep ==
  ASSUME TypeOK, OpShape, ProjInv, TakesInv, KindsFit, [Next]_vars
  PROVE  TakesInv'
<1>0. op \in Op
  BY DEF TypeOK
<1>1. CASE TakeJob
  <2> DEFINE f == Head(jobs).fact
  <2>1. rows' = rows
    BY <1>1 DEF TakeJob
  <2>2. op' = Idle \/ StoreResolved(f) \/ op' = Storing(f, {}, TRUE)
    BY <1>1 DEF TakeJob, Skip
  <2>3. f \in Facts
    <3>1. jobs \in Seq(Job) /\ jobs # <<>>
      BY <1>1 DEF TakeJob, TypeOK
    <3>2. Head(jobs) \in Job
      BY <3>1, HeadTailProperties
    <3> QED
      BY <3>2 DEF Job
  <2> HIDE DEF f
  <2>4. CASE op' = Idle
    BY <2>4, IdleOp
  <2>5. CASE op' = Storing(f, {}, TRUE)
    <3>1. op'.stage = "delete" /\ op'.evergreen = TRUE
      BY <2>5 DEF Storing, Deleting, Idle
    <3> QED
      BY <3>1 DEF TakesInv, Superseding, StoredLast
  <2>6. CASE StoreResolved(f) /\ op' # Idle
    <3>1. PICK v : /\ op' = Storing(f, v, FALSE)
                   /\ \A r \in rows : SameSlot(f, r.fact) => r \in v
      BY <2>3, <2>6, EveryOldValue DEF ProjInv
    <3>2. op'.stage = "delete" /\ op'.store = {f} /\ op'.victims = v
      BY <3>1 DEF Storing, Deleting, Idle
    <3> QED
      BY <2>1, <3>1, <3>2 DEF TakesInv, Superseding, StoredLast
  <2> QED
    BY <2>2, <2>4, <2>5, <2>6
<1>2. CASE DeleteRow
  <2>1. PICK r \in op.victims : /\ rows' = rows \ {r}
                                /\ op' = [op EXCEPT !.stage = "clear", !.victims = @ \ {r},
                                                    !.id = r.id, !.left = TableOrder]
    BY <1>2 DEF DeleteRow
  <2>2. /\ op'.stage = "clear" /\ op'.victims = op.victims \ {r}
        /\ op'.store = op.store /\ op'.evergreen = op.evergreen
    BY <1>0, <2>1 DEF Op
  <2>3. op.stage = "delete"
    BY <1>2 DEF DeleteRow
  <2> QED
    BY <2>1, <2>2, <2>3 DEF TakesInv, Superseding, StoredLast
<1>3. CASE ClearTable
  <2>1. op.stage = "clear" /\ rows' = rows
    BY <1>3 DEF ClearTable
  <2>2. CASE op' = Idle
    BY <2>2, IdleOp
  <2>3. CASE op' # Idle
    <3>1. /\ op'.stage \in {"clear", "delete"} /\ op'.victims = op.victims
          /\ op'.store = op.store /\ op'.evergreen = op.evergreen
      BY <1>0, <1>3, <2>1, <2>3 DEF ClearTable, Op
    <3> QED
      BY <2>1, <3>1 DEF TakesInv, Superseding, StoredLast
  <2> QED
    BY <2>2, <2>3
<1>4. CASE InsertRow
  <2>1. PICK f \in op.store, n \in 1..MaxId :
          /\ IsNextRowId(n)
          /\ rows' = rows \cup {[id |-> n, fact |-> f, evergreen |-> op.evergreen, at |-> now]}
          /\ op' = [op EXCEPT !.stage = "project", !.id = n, !.left = TableOrder]
    BY <1>4 DEF InsertRow
  <2>2. op'.stage = "project" /\ op'.id = n /\ op'.evergreen = op.evergreen
    BY <1>0, <2>1 DEF Op
  <2>3. \A r \in rows : r.id < n /\ r.id # n
    BY <2>1 DEF IsNextRowId, TypeOK, Row
  <2> QED
    BY <2>1, <2>2, <2>3 DEF TakesInv, Superseding, StoredLast
<1>5. CASE ProjectTable
  <2>1. op.stage = "project" /\ rows' = rows
    BY <1>5 DEF ProjectTable
  <2>2. CASE op' = Idle
    BY <2>2, IdleOp
  <2>3. CASE op' # Idle
    <3>1. /\ op'.stage = "project" /\ op'.id = op.id
          /\ op'.edit = op.edit /\ op'.evergreen = op.evergreen
      BY <1>0, <1>5, <2>1, <2>3 DEF ProjectTable, Op
    <3> QED
      BY <2>1, <3>1 DEF TakesInv, Superseding, StoredLast
  <2> QED
    BY <2>2, <2>3
<1>6. CASE Fail \/ DiskFull \/ Restart
  BY <1>6, IdleOp DEF Fail, DiskFull, Restart, GiveUp
<1>7. CASE MemoryStore \/ Capture \/ Recall \/ Prune \/ Tick
  <2>1. op' = op /\ op.stage = "idle"
    BY <1>7 DEF MemoryStore, Capture, Recall, Prune, Tick, Free
  <2> QED
    BY <2>1, QuietOp
<1>8. CASE Forget \/ DeleteManaged
  <2>1. op' = Idle \/ \E v : op' = Deleting(v)
    BY <1>8 DEF Forget, DeleteManaged
  <2> QED
    BY <2>1, IdleOp, QuietOp, DeletingShape
<1>9. CASE UpdateManaged
  <2>1. PICK i, f, e :
          op' = [Idle EXCEPT !.stage = "project", !.id = i, !.left = TableOrder,
                             !.store = {f}, !.evergreen = e, !.edit = TRUE]
    BY <1>9 DEF UpdateManaged
  <2>2. op'.stage = "project" /\ op'.edit = TRUE
    BY <2>1 DEF Idle
  <2> QED
    BY <2>2 DEF TakesInv, Superseding, StoredLast
<1>10. CASE UNCHANGED vars
  BY <1>10 DEF vars, TakesInv, Superseding, StoredLast
<1> QED
  BY <1>1, <1>2, <1>3, <1>4, <1>5, <1>6, <1>7, <1>8, <1>9, <1>10 DEF Next

(* The steps of an operation that is about to store, or is projecting. *)
LEMMA StoringSteps ==
  ASSUME TypeOK, [Next]_vars, op.stage \in {"delete", "project"}
  PROVE  /\ op.stage = "delete" /\ op'.stage = "project" => InsertRow
         /\ op.stage = "project" => ProjectTable \/ Fail \/ Restart \/ UNCHANGED vars
<1>1. \/ DeleteRow \/ InsertRow \/ ProjectTable \/ Fail \/ DiskFull \/ Restart
      \/ UNCHANGED vars
  BY DEF Next, TakeJob, ClearTable, MemoryStore, Capture, Recall, Forget, DeleteManaged,
         UpdateManaged, Prune, Tick, Free
<1>2. DeleteRow => op.stage = "delete" /\ op'.stage = "clear"
  BY DEF DeleteRow, TypeOK, Op
<1>3. Fail \/ DiskFull \/ Restart => op'.stage = "idle"
  <2>1. Fail \/ DiskFull \/ Restart => op' = Idle
    BY DEF Fail, DiskFull, Restart, GiveUp
  <2> QED
    BY <2>1, IdleType
<1>4. (ProjectTable => op.stage = "project")
      /\ (InsertRow \/ DiskFull => op.stage = "delete")
      /\ (UNCHANGED vars => op' = op)
  BY DEF ProjectTable, InsertRow, DiskFull, vars
<1> QED
  BY <1>1, <1>2, <1>3, <1>4

LEMMA CorrectionStep ==
  ASSUME TypeOK, ProjInv, TakesInv, [Next]_vars, Inserting, ~op.evergreen,
         NEW f \in op.store, NEW r \in rows', SameSlot(f, r.fact)
  PROVE  r.fact = f
<1>1. InsertRow
  BY StoringSteps DEF Inserting
<1>2. PICK g \in op.store, n \in 1..MaxId :
        rows' = rows \cup {[id |-> n, fact |-> g, evergreen |-> op.evergreen, at |-> now]}
  BY <1>1 DEF InsertRow
<1>3. r \notin rows
  BY <1>1 DEF InsertRow, TakesInv, Superseding
<1>4. r.fact = g
  BY <1>2, <1>3
<1> QED
  BY <1>4 DEF ProjInv, DeletionSound

(* A row that had no better one for its alias still has none, if the only  *)
(* new rival is an ordinary memory with a higher id.                       *)
LEMMA StillBest ==
  ASSUME TypeOK, NEW a, NEW r \in Aliases(a), \A q \in Aliases(a) : r = q \/ Beats(r, q),
         r \in Aliases(a)',
         \A q \in Aliases(a)' : q \in Aliases(a) \/ (q.evergreen = FALSE /\ r.id < q.id)
  PROVE  r.id \in DeviceAlias(a)'
<1>1. r.evergreen \in BOOLEAN
  BY DEF Aliases, TypeOK, Row
<1>2. \A q \in Aliases(a)' : r = q \/ Beats(r, q)
  BY <1>1 DEF Beats
<1> QED
  BY <1>2 DEF DeviceAlias, Beats

LEMMA AliasStep ==
  ASSUME TypeOK, OpShape, ProjInv, TakesInv, [Next]_vars, Inserting \/ op.stage = "project",
         ~op.edit, ~op.evergreen, boots' = boots, NEW a
  PROVE  DeviceAlias(a) \subseteq DeviceAlias(a)' \cup {op.id}
<1> SUFFICES ASSUME NEW r \in Aliases(a), \A q \in Aliases(a) : r = q \/ Beats(r, q),
                    r.id # op.id
             PROVE  r.id \in DeviceAlias(a)'
  BY DEF DeviceAlias
<1>0. r \in rows /\ op.evergreen = FALSE /\ op.edit = FALSE
  BY DEF Aliases, TypeOK, Op
<1>1. CASE Inserting
  <2>1. InsertRow
    BY <1>1, StoringSteps DEF Inserting
  <2>2. PICK f \in op.store, n \in 1..MaxId :
          /\ IsNextRowId(n)
          /\ rows' = rows \cup {[id |-> n, fact |-> f, evergreen |-> op.evergreen, at |-> now]}
    BY <2>1 DEF InsertRow
  <2>3. derived' = derived
    BY <2>1 DEF InsertRow
  <2>4. r \in Aliases(a)'
    BY <2>2, <2>3 DEF Aliases
  <2>5. ASSUME NEW q \in Aliases(a)', q \notin Aliases(a)
        PROVE  q.evergreen = FALSE /\ r.id < q.id
    <3>1. q \in rows' /\ q \notin rows
      BY <2>3, <2>5 DEF Aliases
    <3>2. q.id = n /\ q.evergreen = FALSE
      BY <1>0, <2>2, <3>1
    <3> QED
      BY <1>0, <2>2, <3>2 DEF IsNextRowId
  <2> QED
    BY <2>4, <2>5, StillBest
<1>2. CASE op.stage = "project"
  <2>1. ProjectTable \/ Fail \/ UNCHANGED vars
    <3>1. ~Restart
      <4>1. boots \in Nat
        BY DEF TypeOK
      <4>2. Restart => boots' = boots + 1
        BY DEF Restart
      <4> QED
        BY <4>1, <4>2
    <3> QED
      BY <1>2, <3>1, StoringSteps
  <2>2. rows' = rows
    BY <2>1 DEF ProjectTable, Fail, vars
  <2>3. \A d : d.id # op.id => (d \in derived' <=> d \in derived)
    BY <2>1 DEF ProjectTable, Fail, CutShort, vars, Upsert, Without, Rows
  <2>4. \A q \in rows : q.id # op.id => (q \in Aliases(a)' <=> q \in Aliases(a))
    BY <2>2, <2>3 DEF Aliases
  <2>5. r \in Aliases(a)'
    BY <1>0, <2>4
  <2>6. ASSUME NEW q \in Aliases(a)', q \notin Aliases(a)
        PROVE  q.evergreen = FALSE /\ r.id < q.id
    <3>1. q \in rows /\ q.id = op.id
      BY <2>2, <2>4, <2>6 DEF Aliases
    <3> QED
      BY <1>0, <1>2, <3>1 DEF TakesInv, StoredLast
  <2> QED
    BY <2>5, <2>6, StillBest
<1> QED
  BY <1>1, <1>2

(***************************************************************************)
(* StatementsTake, as long as no kind has more rows than get_by_kind       *)
(* returns to store_resolved (100): a correction replaces every other      *)
(* value of its fact, evergreen or edited ones as well, and whatever is    *)
(* stored, with stale rows and freed ids around, leaves every alias that   *)
(* works where it points (store_resolved, device_alias).                   *)
(***************************************************************************)
THEOREM StatementsAlwaysTake == Spec /\ []KindsFit => StatementsTake
<1>1. Init => ProjInv /\ TakesInv
  BY IdleStoresNothing
  DEF Init, ProjInv, IdsUnique, DeletionSound, ProjectionSound, SettledProjected, TakesInv,
      Superseding, StoredLast, Idle
<1>2. TypeOK /\ OpShape /\ ProjInv /\ [Next]_vars => ProjInv'
  BY StepProj
<1>3. TypeOK /\ OpShape /\ ProjInv /\ TakesInv /\ KindsFit /\ [Next]_vars => TakesInv'
  BY TakesStep
<1>4. TypeOK /\ ProjInv /\ TakesInv /\ [Next]_vars
        => [Inserting /\ ~op.evergreen =>
              \A f \in op.store, r \in rows' : SameSlot(f, r.fact) => r.fact = f]_vars
  BY CorrectionStep
<1>5. TypeOK /\ OpShape /\ ProjInv /\ TakesInv /\ [Next]_vars
        => [(Inserting \/ op.stage = "project") /\ ~op.edit /\ ~op.evergreen /\ boots' = boots =>
              \A a \in AliasNames : DeviceAlias(a) \subseteq DeviceAlias(a)' \cup {op.id}]_vars
  BY AliasStep
<1> QED
  BY <1>1, <1>2, <1>3, <1>4, <1>5, MemoryInvariant, PTL
  DEF Spec, StatementsTake, CorrectionSupersedes, AliasStable
=============================================================================
