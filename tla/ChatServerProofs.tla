-------------------------- MODULE ChatServerProofs --------------------------
(***************************************************************************)
(* Theorems about the chat server: what /api/health and the registry say   *)
(* of the running turn, what a conversation keeps and what a prompt holds, *)
(* for any number of connections, conversations, turns and faults.         *)
(***************************************************************************)
EXTENDS ChatServer, FiniteSetTheorems, SequenceTheorems, TLAPS

-----------------------------------------------------------------------------
(* The types of the state.  The queue is left free: no property needs it.   *)

Ids == ClientIds \cup {NewId(t) : t \in Nat}
Roles == {"user", "assistant", "system"}
Messages == [id : Nat, conv : Ids, turn : Nat, role : Roles, ts : Nat]

Outside == {"idle", "wait", "clear"}
Stored  == {"quick", "recent", "llm", "answer", "tool_call", "tool_result"}
Pcs     == Outside \cup Stored \cup {"begin", "user", "user_stream", "done"}

Requests == [pc : Pcs, conv : Ids \cup {NoConv}, turn : Nat, prompt : Seq(Messages)]

StoreTypeOK ==
  /\ now \in Nat /\ turns \in Nat
  /\ convs \subseteq Ids /\ msgs \subseteq Messages /\ IsFiniteSet(msgs)
  /\ \A c \in DOMAIN appended : c \in Ids /\ appended[c] \in Seq(Messages)

ServerTypeOK ==
  /\ tasks \in [Handlers -> Requests]
  /\ holder \in Handlers \cup {NoHandler}
  /\ gate \in [waiters : Int, inFlight : BOOLEAN, since : Nat]
  /\ current \in Ids
  /\ sessions \subseteq [id : Ids, at : Nat] /\ IsFiniteSet(sessions)

-----------------------------------------------------------------------------
(* A turn runs while its handler holds the gate. *)

Waiting == {h \in Handlers : At(h, "wait")}

GateInv ==
  /\ \A h \in Handlers : /\ Turn(h) # 0 <=> holder = h
                         /\ Turn(h) # 0 <=> tasks[h].pc \notin Outside
                         /\ Turn(h) # 0 => Turn(h) = turns
                         /\ Turn(h) = 0 => tasks[h].prompt = <<>>
  /\ gate.inFlight <=> holder # NoHandler
  /\ IsFiniteSet(Waiting) /\ gate.waiters = Cardinality(Waiting)
  /\ holder # NoHandler => gate.since <= now /\ now - gate.since <= TurnLimit

RegistryInv ==
  /\ Cardinality(sessions) <= MaxSessions
  /\ \A h \in Handlers :
       /\ tasks[h].pc \in Stored \cup {"user", "user_stream", "clear"} => Conv(h) \in Ids
       /\ tasks[h].pc \in {"wait", "begin"} => Conv(h) = NoConv
       /\ Turn(h) # 0 /\ Conv(h) # NoConv => Conv(h) \in Tracked(sessions)

ServerInv == ServerTypeOK /\ GateInv /\ RegistryInv

-----------------------------------------------------------------------------
(* The rows of a conversation are the end of what was stored in it. *)

Suffix(a, s) == {a[i] : i \in (s + 1)..Len(a)}

Increasing(a) == \A i, j \in 1..Len(a) : i < j => Before(a[i], a[j]) /\ a[i].turn <= a[j].turn

(* No row to come is before one of the history. *)
Past(m, clock, turn, rows) ==
  /\ m.ts <= clock /\ m.turn <= turn
  /\ m.ts < clock \/ \E k \in rows : k.ts = clock /\ k.id >= m.id

(* a is the history of c when these are the stored rows. *)
IsHistory(a, c, clock, turn, rows) ==
  /\ Increasing(a)
  /\ \A i \in 1..Len(a) : a[i].conv = c /\ Past(a[i], clock, turn, rows)
  /\ \E s \in 0..Len(a) : Of(rows, c) = Suffix(a, s)

HistoryInv ==
  /\ \A c \in DOMAIN appended : IsHistory(appended[c], c, now, turns, msgs)
  /\ \A m \in msgs : m.conv \in DOMAIN appended /\ m.conv \in convs

(* The last message of c is stored, and no older than the turn that runs. *)
LastStored(c, hist, rows, since) ==
  /\ c \in DOMAIN hist /\ Len(hist[c]) > 0
  /\ hist[c][Len(hist[c])] \in rows
  /\ hist[c][Len(hist[c])].ts >= since

EndsWithUser(a, turn) == a[Len(a)].turn = turn /\ a[Len(a)].role = "user"

PromptOk(p, turn) ==
  EndsWithUser(p, turn) /\ \A i, j \in DOMAIN p : i < j => p[i].turn <= p[j].turn

TaskOk(r, hist, rows, since) ==
  /\ r.pc \in Stored => LastStored(r.conv, hist, rows, since)
  /\ r.pc = "recent" => EndsWithUser(hist[r.conv], r.turn)
  /\ r.prompt # <<>> => PromptOk(r.prompt, r.turn)

TurnInv == missed = {} /\ \A h \in Handlers : TaskOk(tasks[h], appended, msgs, gate.since)

ChatInv == StoreTypeOK /\ ServerInv /\ HistoryInv /\ TurnInv

-----------------------------------------------------------------------------
(* Increasing sequences of rows: their ends, and what the queries make of   *)
(* them.                                                                    *)

Span(a, lo, hi) == {a[i] : i \in lo..hi}

LEMMA MessageFields ==
  ASSUME NEW m \in Messages
  PROVE  m.id \in Nat /\ m.conv \in Ids /\ m.turn \in Nat /\ m.role \in Roles /\ m.ts \in Nat
  BY DEF Messages

LEMMA SpanCounted ==
  ASSUME NEW a \in Seq(Messages), Increasing(a), NEW lo \in Nat, NEW hi \in Nat,
         1 <= lo, lo <= hi + 1, hi <= Len(a)
  PROVE  IsFiniteSet(Span(a, lo, hi)) /\ Cardinality(Span(a, lo, hi)) = hi - lo + 1
<1> DEFINE f == [i \in lo..hi |-> a[i]]
<1>1. \A i, j \in lo..hi : a[i] = a[j] => i = j
  <2> SUFFICES ASSUME NEW i \in lo..hi, NEW j \in lo..hi, i < j PROVE a[i] # a[j]
    OBVIOUS
  <2>1. i \in 1..Len(a) /\ j \in 1..Len(a)
    OBVIOUS
  <2>2. Before(a[i], a[j]) /\ a[i] \in Messages
    BY <2>1 DEF Increasing
  <2> QED
    BY <2>2 DEF Before, Messages
<1>2. f \in Bijection(lo..hi, Span(a, lo, hi))
  <2>1. f \in [lo..hi -> Span(a, lo, hi)]
    BY DEF Span
  <2>2. \A i, j \in lo..hi : f[i] = f[j] => i = j
    BY <1>1
  <2>3. \A m \in Span(a, lo, hi) : \E i \in lo..hi : f[i] = m
    BY DEF Span
  <2> QED
    BY <2>1, <2>2, <2>3 DEF Bijection, Injection, IsInjective, Surjection
<1>3. IsFiniteSet(lo..hi) /\ Cardinality(lo..hi) = hi - lo + 1
  <2>1. IsFiniteSet(lo..hi) /\ Cardinality(lo..hi) = IF lo > hi THEN 0 ELSE hi - lo + 1
    BY FS_Interval
  <2> QED
    BY <2>1
<1> QED
  BY <1>2, <1>3, FS_Bijection DEF ExistsBijection

LEMMA SuffixIsSpan ==
  ASSUME NEW a \in Seq(Messages), Increasing(a), NEW s \in 0..Len(a)
  PROVE  /\ Suffix(a, s) = Span(a, s + 1, Len(a)) /\ Suffix(a, s) \subseteq Messages
         /\ IsFiniteSet(Suffix(a, s)) /\ Cardinality(Suffix(a, s)) = Len(a) - s
<1>1. Suffix(a, s) = Span(a, s + 1, Len(a))
  BY DEF Suffix, Span
<1>2. Suffix(a, s) \subseteq Messages
  BY DEF Suffix
<1>3. /\ IsFiniteSet(Span(a, s + 1, Len(a)))
      /\ Cardinality(Span(a, s + 1, Len(a))) = Len(a) - (s + 1) + 1
  <2>1. s + 1 \in Nat /\ Len(a) \in Nat /\ 1 <= s + 1 /\ s + 1 <= Len(a) + 1 /\ Len(a) <= Len(a)
    OBVIOUS
  <2> QED
    BY <2>1, SpanCounted
<1>4. Len(a) - (s + 1) + 1 = Len(a) - s
  OBVIOUS
<1> QED
  BY <1>1, <1>2, <1>3, <1>4

(* Where a row stands among those of the suffix. *)
LEMMA RankInSuffix ==
  ASSUME NEW a \in Seq(Messages), Increasing(a), NEW s \in 0..Len(a), NEW i \in (s + 1)..Len(a)
  PROVE  /\ Cardinality({k \in Suffix(a, s) : Before(k, a[i])}) = i - s - 1
         /\ Cardinality({k \in Suffix(a, s) : Before(a[i], k)}) = Len(a) - i
<1>1. \A j \in (s + 1)..Len(a) :
        (Before(a[j], a[i]) <=> j < i) /\ (Before(a[i], a[j]) <=> i < j)
  <2> SUFFICES ASSUME NEW j \in (s + 1)..Len(a)
               PROVE  (Before(a[j], a[i]) <=> j < i) /\ (Before(a[i], a[j]) <=> i < j)
    OBVIOUS
  <2>1. i \in 1..Len(a) /\ j \in 1..Len(a)
    OBVIOUS
  <2>2. a[i] \in Messages /\ a[j] \in Messages
    BY <2>1
  <2>3. (i < j => Before(a[i], a[j])) /\ (j < i => Before(a[j], a[i]))
    BY <2>1 DEF Increasing
  <2>4. ~Before(a[i], a[i]) /\ ~(Before(a[i], a[j]) /\ Before(a[j], a[i]))
    <3>1. a[i].ts \in Nat /\ a[i].id \in Nat /\ a[j].ts \in Nat /\ a[j].id \in Nat
      BY <2>2, MessageFields
    <3> QED
      BY <3>1 DEF Before
  <2> QED
    BY <2>1, <2>3, <2>4
<1>2. {k \in Suffix(a, s) : Before(k, a[i])} = Span(a, s + 1, i - 1)
  <2>1. \A k : k \in {x \in Suffix(a, s) : Before(x, a[i])} <=> k \in Span(a, s + 1, i - 1)
    BY <1>1 DEF Suffix, Span
  <2> QED
    BY <2>1
<1>3. {k \in Suffix(a, s) : Before(a[i], k)} = Span(a, i + 1, Len(a))
  <2>1. \A k : k \in {x \in Suffix(a, s) : Before(a[i], x)} <=> k \in Span(a, i + 1, Len(a))
    BY <1>1 DEF Suffix, Span
  <2> QED
    BY <2>1
<1>4. Cardinality(Span(a, s + 1, i - 1)) = (i - 1) - (s + 1) + 1
  <2>1. s + 1 \in Nat /\ i - 1 \in Nat /\ 1 <= s + 1 /\ s + 1 <= (i - 1) + 1 /\ i - 1 <= Len(a)
    OBVIOUS
  <2> QED
    BY <2>1, SpanCounted
<1>5. Cardinality(Span(a, i + 1, Len(a))) = Len(a) - (i + 1) + 1
  <2>1. i + 1 \in Nat /\ Len(a) \in Nat /\ 1 <= i + 1 /\ i + 1 <= Len(a) + 1 /\ Len(a) <= Len(a)
    OBVIOUS
  <2> QED
    BY <2>1, SpanCounted
<1>6. (i - 1) - (s + 1) + 1 = i - s - 1 /\ Len(a) - (i + 1) + 1 = Len(a) - i
  OBVIOUS
<1> QED
  BY <1>2, <1>3, <1>4, <1>5, <1>6

(* The latest rows of a suffix are a suffix. *)
LEMMA LatestOfSuffix ==
  ASSUME NEW a \in Seq(Messages), Increasing(a), NEW s \in 0..Len(a), NEW n \in Nat \ {0}
  PROVE  \E t \in s..Len(a) : /\ Latest(Suffix(a, s), n) = Suffix(a, t)
                              /\ s < Len(a) => t < Len(a)
<1> DEFINE t == IF Len(a) - n > s THEN Len(a) - n ELSE s
<1>1. t \in s..Len(a) /\ (s < Len(a) => t < Len(a)) /\ t \in Nat
  OBVIOUS
<1>2. \A i \in (s + 1)..Len(a) :
        (Cardinality({k \in Suffix(a, s) : Before(a[i], k)}) < n) <=> i \in (t + 1)..Len(a)
  <2> SUFFICES ASSUME NEW i \in (s + 1)..Len(a)
               PROVE  (Cardinality({k \in Suffix(a, s) : Before(a[i], k)}) < n) <=> i \in (t + 1)..Len(a)
    OBVIOUS
  <2>1. Cardinality({k \in Suffix(a, s) : Before(a[i], k)}) = Len(a) - i
    BY RankInSuffix
  <2> QED
    BY <2>1
<1> HIDE DEF t
<1>3. \A m : m \in Latest(Suffix(a, s), n) <=> m \in Suffix(a, t)
  <2>1. \A i : i \in (t + 1)..Len(a) => i \in (s + 1)..Len(a)
    BY <1>1
  <2>2. \A m : m \in Latest(Suffix(a, s), n)
               <=> \E i \in (s + 1)..Len(a) :
                     m = a[i] /\ Cardinality({k \in Suffix(a, s) : Before(a[i], k)}) < n
    BY DEF Latest, Suffix
  <2>3. \A m : m \in Suffix(a, t) <=> \E i \in (t + 1)..Len(a) : m = a[i]
    BY DEF Suffix
  <2> QED
    BY <1>2, <2>1, <2>2, <2>3
<1>4. Latest(Suffix(a, s), n) = Suffix(a, t)
  BY <1>3 DEF Latest, Suffix
<1> QED
  BY <1>1, <1>4

(* In order, a suffix is the end of the sequence. *)
LEMMA OrderedSuffix ==
  ASSUME NEW a \in Seq(Messages), Increasing(a), NEW s \in 0..Len(a)
  PROVE  Ordered(Suffix(a, s)) = [i \in 1..(Len(a) - s) |-> a[s + i]]
<1> DEFINE rows == Suffix(a, s)
           Nth(i) == CHOOSE m \in rows : Cardinality({k \in rows : Before(k, m)}) = i - 1
<1>1. Cardinality(rows) = Len(a) - s
  BY SuffixIsSpan
<1>2. ASSUME NEW i \in 1..(Len(a) - s) PROVE Nth(i) = a[s + i]
  <2>1. s + i \in (s + 1)..Len(a)
    OBVIOUS
  <2>2. a[s + i] \in rows /\ Cardinality({k \in rows : Before(k, a[s + i])}) = i - 1
    <3>1. a[s + i] \in rows
      BY <2>1 DEF Suffix
    <3>2. Cardinality({k \in rows : Before(k, a[s + i])}) = (s + i) - s - 1
      BY <2>1, RankInSuffix
    <3> QED
      BY <3>1, <3>2
  <2>3. ASSUME NEW m \in rows, Cardinality({k \in rows : Before(k, m)}) = i - 1 PROVE m = a[s + i]
    <3>1. PICK j \in (s + 1)..Len(a) : m = a[j]
      BY <2>3 DEF Suffix
    <3>2. Cardinality({k \in rows : Before(k, a[j])}) = j - s - 1
      BY <3>1, RankInSuffix
    <3>3. j - s - 1 = i - 1
      BY <2>3, <3>1, <3>2
    <3>4. j = s + i
      BY <3>3
    <3> QED
      BY <3>1, <3>4
  <2> HIDE DEF rows
  <2> QED
    BY <2>2, <2>3
<1>3. Ordered(rows) = [i \in 1..Cardinality(rows) |-> Nth(i)]
  BY DEF Ordered
<1> QED
  BY <1>1, <1>2, <1>3

(* What age leaves of a suffix is a suffix. *)
LEMMA YoungOfSuffix ==
  ASSUME NEW a \in Seq(Messages), Increasing(a), NEW s \in 0..Len(a), NEW cut \in Int
  PROVE  \E t \in s..Len(a) :
           /\ {m \in Suffix(a, s) : m.ts >= cut} = Suffix(a, t)
           /\ s < Len(a) /\ a[Len(a)].ts >= cut => t < Len(a)
<1> DEFINE Y == {i \in (s + 1)..Len(a) : a[i].ts >= cut}
<1>1. \A i \in 1..Len(a) : a[i].ts \in Nat
  BY MessageFields
<1>2. CASE Y = {}
  <2>1. {m \in Suffix(a, s) : m.ts >= cut} = Suffix(a, Len(a))
    BY <1>2 DEF Suffix
  <2>2. ~(s < Len(a) /\ a[Len(a)].ts >= cut)
    BY <1>2
  <2> QED
    BY <2>1, <2>2
<1>3. CASE Y # {}
  <2>1. Y \subseteq Nat
    OBVIOUS
  <2> HIDE DEF Y
  <2>2. \E x \in Y : \A y \in Y : ~(<<y, x>> \in OpToRel(<, Nat))
    BY <1>3, <2>1, WFMin, NatLessThanWellFounded, Zenon
  <2>3. PICK x \in Y : \A y \in Y : ~(y < x)
    BY <2>1, <2>2 DEF OpToRel
  <2> USE DEF Y
  <2>4. x \in (s + 1)..Len(a) /\ a[x].ts >= cut /\ x - 1 \in s..Len(a) /\ x - 1 < Len(a)
    BY <2>3
  <2>5. \A i \in (s + 1)..Len(a) : a[i].ts >= cut <=> i >= x
    <3> SUFFICES ASSUME NEW i \in (s + 1)..Len(a) PROVE a[i].ts >= cut <=> i >= x
      OBVIOUS
    <3>1. CASE i < x
      BY <2>3, <2>4, <3>1
    <3>2. CASE i = x
      BY <2>4, <3>2
    <3>3. CASE x < i
      <4>1. x \in 1..Len(a) /\ i \in 1..Len(a)
        BY <2>4
      <4>2. Before(a[x], a[i])
        BY <3>3, <4>1 DEF Increasing
      <4>3. a[x].ts <= a[i].ts
        BY <1>1, <4>1, <4>2 DEF Before
      <4> QED
        BY <1>1, <2>4, <3>3, <4>1, <4>3
    <3> QED
      BY <2>4, <3>1, <3>2, <3>3
  <2>6. {m \in Suffix(a, s) : m.ts >= cut} = Suffix(a, x - 1)
    <3>1. \A i : i \in ((x - 1) + 1)..Len(a) <=> i \in (s + 1)..Len(a) /\ i >= x
      BY <2>4
    <3>2. \A m : m \in {k \in Suffix(a, s) : k.ts >= cut}
                 <=> \E i \in (s + 1)..Len(a) : m = a[i] /\ a[i].ts >= cut
      BY DEF Suffix
    <3>3. \A m : m \in Suffix(a, x - 1) <=> \E i \in ((x - 1) + 1)..Len(a) : m = a[i]
      BY DEF Suffix
    <3>4. \A m : m \in {k \in Suffix(a, s) : k.ts >= cut} <=> m \in Suffix(a, x - 1)
      BY <2>5, <3>1, <3>2, <3>3
    <3> QED
      BY <3>4
  <2> QED
    BY <2>4, <2>6
<1> QED
  BY <1>2, <1>3

-----------------------------------------------------------------------------
(* What the store's operations keep. *)

LEMMA LargestOf ==
  ASSUME NEW S, S \subseteq Nat, S # {}, IsFiniteSet(S)
  PROVE  \E i \in S : \A j \in S : j <= i
<1> DEFINE Above(i) == {j \in S : j > i}
           T == {Cardinality(Above(i)) : i \in S}
<1>1. \A i \in S : IsFiniteSet(Above(i)) /\ Cardinality(Above(i)) \in Nat
  <2> SUFFICES ASSUME NEW i \in S PROVE IsFiniteSet(Above(i)) /\ Cardinality(Above(i)) \in Nat
    OBVIOUS
  <2>1. Above(i) \in SUBSET S
    OBVIOUS
  <2> HIDE DEF Above
  <2> QED
    BY <2>1, FS_Subset, FS_CardinalityType
<1>2. T \subseteq Nat /\ T # {}
  BY <1>1
<1>3. \E x \in T : \A y \in T : ~(<<y, x>> \in OpToRel(<, Nat))
  <2> HIDE DEF T
  <2> QED
    BY <1>2, WFMin, NatLessThanWellFounded, Zenon
<1>4. PICK x \in T : \A y \in T : ~(y < x)
  BY <1>2, <1>3 DEF OpToRel
<1>5. PICK i \in S : x = Cardinality(Above(i))
  BY <1>4
<1>6. ASSUME NEW j \in S, ~(j <= i) PROVE FALSE
  <2>1. Above(j) \in SUBSET Above(i) /\ j \in Above(i) /\ j \notin Above(j)
    <3>1. i \in Nat /\ j \in Nat /\ j > i
      BY <1>6
    <3>2. \A k \in S : k \in Nat
      OBVIOUS
    <3>3. \A k \in S : k > j => k > i
      BY <3>1, <3>2
    <3>4. ~(j > j)
      BY <3>1
    <3> QED
      BY <3>1, <3>3, <3>4
  <2>2. Cardinality(Above(j)) \in T
    OBVIOUS
  <2>3. ~(Cardinality(Above(j)) < Cardinality(Above(i)))
    BY <1>4, <1>5, <2>2
  <2> HIDE DEF Above
  <2>4. /\ Cardinality(Above(j)) <= Cardinality(Above(i))
        /\ Cardinality(Above(i)) = Cardinality(Above(j)) => Above(i) = Above(j)
    BY <1>1, <2>1, FS_Subset
  <2> QED
    BY <1>1, <2>1, <2>3, <2>4
<1> QED
  BY <1>6

LEMMA NextRowIsNew ==
  ASSUME StoreTypeOK
  PROVE  NextRow \in Nat \ {0} /\ \A m \in msgs : m.id < NextRow
<1>1. \A m \in msgs : m.id \in Nat
  BY MessageFields DEF StoreTypeOK
<1>2. CASE msgs = {}
  BY <1>2 DEF NextRow
<1>3. CASE msgs # {}
  <2> DEFINE f == [m \in msgs |-> m.id]
  <2>1. RowIds \subseteq Nat /\ RowIds # {}
    BY <1>1, <1>3 DEF RowIds
  <2>2. f \in Surjection(msgs, RowIds)
    BY DEF RowIds, Surjection
  <2>3. IsFiniteSet(RowIds)
    BY <2>2, FS_Surjection DEF StoreTypeOK
  <2>4. \E i \in RowIds : \A j \in RowIds : j <= i
    BY <2>1, <2>3, LargestOf
  <2>5. PICK top : top = CHOOSE i \in RowIds : \A j \in RowIds : j <= i
    OBVIOUS
  <2>6. top \in RowIds /\ \A j \in RowIds : j <= top
    BY <2>4, <2>5
  <2>7. NextRow = 1 + top /\ top \in Nat
    BY <1>3, <2>1, <2>5, <2>6 DEF NextRow
  <2>8. \A m \in msgs : m.id \in RowIds
    BY DEF RowIds
  <2> QED
    BY <1>1, <2>6, <2>7, <2>8
<1> QED
  BY <1>2, <1>3

(* A sequence continued by later rows. *)
LEMMA ConcatIncreasing ==
  ASSUME NEW a \in Seq(Messages), Increasing(a), NEW b \in Seq(Messages), Increasing(b),
         \A i \in 1..Len(a), j \in 1..Len(b) : Before(a[i], b[j]) /\ a[i].turn <= b[j].turn,
         NEW both \in Seq(Messages), Len(both) = Len(a) + Len(b),
         \A i \in 1..(Len(a) + Len(b)) : both[i] = IF i <= Len(a) THEN a[i] ELSE b[i - Len(a)]
  PROVE  /\ both \in Seq(Messages) /\ Len(both) = Len(a) + Len(b) /\ Increasing(both)
         /\ \A i \in 1..Len(a) : both[i] = a[i]
         /\ \A j \in 1..Len(b) : both[Len(a) + j] = b[j]
         /\ \A s \in 0..Len(a) : Suffix(both, s) = Suffix(a, s) \cup Span(b, 1, Len(b))
<1>1. /\ both \in Seq(Messages) /\ Len(both) = Len(a) + Len(b)
      /\ Len(a) \in Nat /\ Len(b) \in Nat
      /\ \A i \in 1..(Len(a) + Len(b)) : both[i] = IF i <= Len(a) THEN a[i] ELSE b[i - Len(a)]
  OBVIOUS
<1>2. \A i \in 1..Len(a) : both[i] = a[i]
  BY <1>1
<1>3. \A j \in 1..Len(b) : both[Len(a) + j] = b[j]
  <2> SUFFICES ASSUME NEW j \in 1..Len(b) PROVE both[Len(a) + j] = b[j]
    OBVIOUS
  <2>1. /\ Len(a) + j \in 1..(Len(a) + Len(b)) /\ ~(Len(a) + j <= Len(a))
        /\ (Len(a) + j) - Len(a) = j
    BY <1>1
  <2> QED
    BY <1>1, <2>1
<1>4. \A i \in 1..Len(both) : \/ i \in 1..Len(a)
                              \/ \E j \in 1..Len(b) : i = Len(a) + j
  <2> SUFFICES ASSUME NEW i \in 1..Len(both), i \notin 1..Len(a) PROVE \E j \in 1..Len(b) : i = Len(a) + j
    OBVIOUS
  <2>1. i - Len(a) \in 1..Len(b) /\ i = Len(a) + (i - Len(a))
    BY <1>1
  <2> QED
    BY <2>1
<1>5. Increasing(both)
  <2> SUFFICES ASSUME NEW i \in 1..Len(both), NEW j \in 1..Len(both), i < j
               PROVE  Before(both[i], both[j]) /\ both[i].turn <= both[j].turn
    BY DEF Increasing
  <2>1. CASE i \in 1..Len(a) /\ j \in 1..Len(a)
    BY <1>2, <2>1 DEF Increasing
  <2>2. CASE i \in 1..Len(a) /\ j \notin 1..Len(a)
    BY <1>2, <1>3, <1>4, <2>2
  <2>3. CASE i \notin 1..Len(a)
    <3>1. PICK k \in 1..Len(b) : i = Len(a) + k
      BY <1>4, <2>3
    <3>2. j \notin 1..Len(a)
      BY <1>1, <3>1
    <3>3. PICK l \in 1..Len(b) : j = Len(a) + l
      BY <1>4, <3>2
    <3>4. k < l
      BY <1>1, <3>1, <3>3
    <3> QED
      BY <1>3, <3>1, <3>3, <3>4 DEF Increasing
  <2> QED
    BY <2>1, <2>2, <2>3
<1>6. ASSUME NEW s \in 0..Len(a)
      PROVE  Suffix(both, s) = Suffix(a, s) \cup Span(b, 1, Len(b))
  <2>1. ASSUME NEW m \in Suffix(both, s) PROVE m \in Suffix(a, s) \cup Span(b, 1, Len(b))
    <3>1. PICK i \in (s + 1)..Len(both) : m = both[i]
      BY <2>1 DEF Suffix
    <3>2. i \in 1..Len(both)
      BY <1>1
    <3>3. CASE i \in 1..Len(a)
      <4>1. i \in (s + 1)..Len(a) /\ m = a[i]
        BY <1>1, <1>2, <3>1, <3>3
      <4> QED
        BY <4>1 DEF Suffix
    <3>4. CASE i \notin 1..Len(a)
      <4>1. PICK k \in 1..Len(b) : i = Len(a) + k
        BY <1>4, <3>2, <3>4
      <4>2. m = b[k]
        BY <1>3, <3>1, <4>1
      <4> QED
        BY <4>2 DEF Span
    <3> QED
      BY <3>3, <3>4
  <2>2. ASSUME NEW m \in Suffix(a, s) PROVE m \in Suffix(both, s)
    <3>1. PICK i \in (s + 1)..Len(a) : m = a[i]
      BY <2>2 DEF Suffix
    <3>2. i \in (s + 1)..Len(both) /\ i \in 1..Len(a)
      BY <1>1
    <3>3. m = both[i]
      BY <1>2, <3>1, <3>2
    <3> QED
      BY <3>2, <3>3 DEF Suffix
  <2>3. \A j \in 1..Len(b) : b[j] \in Suffix(both, s)
    <3> SUFFICES ASSUME NEW j \in 1..Len(b) PROVE b[j] \in Suffix(both, s)
      OBVIOUS
    <3>1. Len(a) + j \in (s + 1)..Len(both)
      BY <1>1
    <3> QED
      BY <1>3, <3>1 DEF Suffix
  <2> QED
    BY <2>1, <2>2, <2>3 DEF Span
<1> QED
  BY <1>1, <1>2, <1>3, <1>5, <1>6

(* The rows of one operation come after all that were stored. *)
LEMMA RowsAreNew ==
  ASSUME StoreTypeOK, NEW c \in Ids, NEW roles \in Seq(Roles), NEW b, b = Rows(c, turns, roles)
  PROVE  /\ b \in Seq(Messages) /\ Len(b) = Len(roles) /\ Increasing(b)
         /\ \A j \in 1..Len(b) :
              /\ b[j] = [id |-> NextRow + j - 1, conv |-> c, turn |-> turns, role |-> roles[j], ts |-> now]
              /\ b[j].id >= NextRow
<1>1. NextRow \in Nat \ {0} /\ turns \in Nat /\ now \in Nat
  BY NextRowIsNew DEF StoreTypeOK
<1>2. PICK n \in Nat : n = Len(roles)
  OBVIOUS
<1>3. DOMAIN roles = 1..n /\ \A j \in 1..n : roles[j] \in Roles
  BY <1>2
<1>4. PICK row \in Nat \ {0} : row = NextRow
  BY <1>1
<1>5. b = [j \in 1..n |-> [id |-> row + j - 1, conv |-> c, turn |-> turns, role |-> roles[j], ts |-> now]]
  BY <1>3, <1>4 DEF Rows
<1>6. ASSUME NEW j \in 1..n
      PROVE  /\ b[j] = [id |-> row + j - 1, conv |-> c, turn |-> turns, role |-> roles[j], ts |-> now]
             /\ b[j] \in Messages /\ b[j].id >= row
  <2>1. row + j - 1 \in Nat /\ row + j - 1 >= row /\ roles[j] \in Roles
    BY <1>3, <1>6
  <2>2. b[j] = [id |-> row + j - 1, conv |-> c, turn |-> turns, role |-> roles[j], ts |-> now]
    BY <1>5
  <2>3. b[j] \in Messages
    BY <1>1, <2>1, <2>2 DEF Messages
  <2> QED
    BY <2>1, <2>2, <2>3
<1>7. b \in [1..n -> Messages]
  BY <1>5, <1>6
<1>8. b \in Seq(Messages) /\ Len(b) = n
  BY <1>7
<1>9. Increasing(b)
  <2> SUFFICES ASSUME NEW i \in 1..n, NEW j \in 1..n, i < j
               PROVE  Before(b[i], b[j]) /\ b[i].turn <= b[j].turn
    BY <1>8 DEF Increasing
  <2>1. /\ b[i].ts = now /\ b[j].ts = now /\ b[i].turn = turns /\ b[j].turn = turns
        /\ b[i].id = row + i - 1 /\ b[j].id = row + j - 1
    <3>1. b[i] = [id |-> row + i - 1, conv |-> c, turn |-> turns, role |-> roles[i], ts |-> now]
      BY <1>6
    <3>2. b[j] = [id |-> row + j - 1, conv |-> c, turn |-> turns, role |-> roles[j], ts |-> now]
      BY <1>6
    <3> QED
      BY <3>1, <3>2
  <2>2. row + i - 1 < row + j - 1 /\ turns <= turns
    BY <1>1
  <2> QED
    BY <2>1, <2>2 DEF Before
<1> QED
  BY <1>2, <1>4, <1>6, <1>8, <1>9

(* What Insert does to the history. *)
LEMMA InsertEffect ==
  ASSUME NEW c, NEW roles, Insert(c, turns, roles), NEW b, b = Rows(c, turns, roles),
         DOMAIN b = 1..Len(b)
  PROVE  /\ msgs' = msgs \cup Span(b, 1, Len(b))
         /\ DOMAIN appended' = DOMAIN appended \cup {c}
         /\ appended'[c] = History(c) \o b
         /\ \A d \in DOMAIN appended : d # c => appended'[d] = appended[d]
<1>1. msgs' = msgs \cup Span(b, 1, Len(b))
  <2>1. msgs' = msgs \cup {b[j] : j \in DOMAIN b}
    BY DEF Insert
  <2> QED
    BY <2>1 DEF Span
<1>2. PICK all : all = History(c) \o b
  OBVIOUS
<1>3. appended' = [d \in DOMAIN appended \cup {c} |-> IF d = c THEN all ELSE appended[d]]
  BY <1>2 DEF Insert
<1> QED
  BY <1>1, <1>2, <1>3

(* A turn's messages are stored at the end of its conversation. *)
LEMMA InsertKeeps ==
  ASSUME StoreTypeOK, HistoryInv, NEW c \in Ids, NEW roles \in Seq(Roles), Len(roles) > 0,
         Insert(c, turns, roles), convs' = convs \cup {c}, now' = now, turns' = turns
  PROVE  /\ StoreTypeOK' /\ HistoryInv'
         /\ msgs \subseteq msgs' /\ DOMAIN appended' = DOMAIN appended \cup {c}
         /\ \A d \in DOMAIN appended : d # c => appended'[d] = appended[d]
         /\ Len(appended'[c]) > 0
         /\ \E m \in msgs' : /\ m = appended'[c][Len(appended'[c])]
                             /\ m.turn = turns /\ m.ts = now /\ m.role = roles[Len(roles)]
<1>1. PICK b : b = Rows(c, turns, roles)
  OBVIOUS
<1>2. /\ b \in Seq(Messages) /\ Len(b) = Len(roles) /\ Increasing(b) /\ Len(b) \in Nat
      /\ \A j \in 1..Len(b) :
           /\ b[j] = [id |-> NextRow + j - 1, conv |-> c, turn |-> turns, role |-> roles[j], ts |-> now]
           /\ b[j].id >= NextRow
  BY <1>1, RowsAreNew
<1>3. \A j \in 1..Len(b) : /\ b[j].conv = c /\ b[j].turn = turns /\ b[j].role = roles[j]
                           /\ b[j].ts = now /\ b[j].id >= NextRow /\ b[j].id \in Nat
                           /\ b[j] \in Messages
  <2> SUFFICES ASSUME NEW j \in 1..Len(b)
               PROVE  /\ b[j].conv = c /\ b[j].turn = turns /\ b[j].role = roles[j]
                      /\ b[j].ts = now /\ b[j].id >= NextRow /\ b[j].id \in Nat
                      /\ b[j] \in Messages
    OBVIOUS
  <2>1. /\ b[j] = [id |-> NextRow + j - 1, conv |-> c, turn |-> turns, role |-> roles[j], ts |-> now]
        /\ b[j].id >= NextRow /\ b[j] \in Messages
    BY <1>2
  <2> QED
    BY <2>1, MessageFields
<1>4. /\ msgs' = msgs \cup Span(b, 1, Len(b))
      /\ DOMAIN appended' = DOMAIN appended \cup {c}
      /\ appended'[c] = History(c) \o b
      /\ \A d \in DOMAIN appended : d # c => appended'[d] = appended[d]
  <2>1. DOMAIN b = 1..Len(b)
    BY <1>2
  <2> QED
    BY <1>1, <2>1, InsertEffect
<1>5. PICK a : a = History(c)
  OBVIOUS
<1>6. /\ a \in Seq(Messages) /\ Increasing(a) /\ Len(a) \in Nat
      /\ \A i \in 1..Len(a) : a[i].conv = c /\ Past(a[i], now, turns, msgs) /\ a[i] \in Messages
      /\ \E s \in 0..Len(a) : Of(msgs, c) = Suffix(a, s)
  <2>1. CASE c \in DOMAIN appended
    BY <1>5, <2>1 DEF History, HistoryInv, IsHistory, StoreTypeOK
  <2>2. CASE c \notin DOMAIN appended
    <3>1. a = <<>>
      BY <1>5, <2>2 DEF History
    <3>2. Of(msgs, c) = {}
      BY <2>2 DEF Of, HistoryInv
    <3>3. Suffix(a, 0) = {}
      BY <3>1 DEF Suffix
    <3> QED
      BY <3>1, <3>2, <3>3 DEF Increasing
  <2> QED
    BY <2>1, <2>2
<1>7. \A i \in 1..Len(a), j \in 1..Len(b) : Before(a[i], b[j]) /\ a[i].turn <= b[j].turn
  <2> SUFFICES ASSUME NEW i \in 1..Len(a), NEW j \in 1..Len(b)
               PROVE  Before(a[i], b[j]) /\ a[i].turn <= b[j].turn
    OBVIOUS
  <2>1. /\ b[j].turn = turns /\ b[j].ts = now /\ b[j].id >= NextRow /\ b[j].id \in Nat
        /\ Past(a[i], now, turns, msgs) /\ a[i].id \in Nat /\ a[i].ts \in Nat /\ a[i].turn \in Nat
    BY <1>3, <1>6, MessageFields
  <2>2. NextRow \in Nat /\ \A m \in msgs : m.id < NextRow /\ m.id \in Nat
    BY NextRowIsNew, MessageFields DEF StoreTypeOK
  <2>3. CASE a[i].ts < now
    BY <2>1, <2>3 DEF Before, Past
  <2>4. CASE ~(a[i].ts < now)
    <3>1. PICK k \in msgs : k.ts = now /\ k.id >= a[i].id
      BY <2>1, <2>4 DEF Past
    <3>2. a[i].id < b[j].id
      BY <2>1, <2>2, <3>1
    <3>3. a[i].ts = now
      BY <2>1, <2>4 DEF Past, StoreTypeOK
    <3> QED
      BY <2>1, <3>2, <3>3 DEF Before, Past
  <2> QED
    BY <2>3, <2>4
<1>8. PICK all : all = a \o b
  OBVIOUS
<1>9. /\ all \in Seq(Messages) /\ Len(all) = Len(a) + Len(b) /\ Increasing(all)
      /\ \A i \in 1..Len(a) : all[i] = a[i]
      /\ \A j \in 1..Len(b) : all[Len(a) + j] = b[j]
      /\ \A s \in 0..Len(a) : Suffix(all, s) = Suffix(a, s) \cup Span(b, 1, Len(b))
  <2>1. a \in Seq(Messages) /\ b \in Seq(Messages) /\ Increasing(a) /\ Increasing(b)
    BY <1>2, <1>6
  <2>2. /\ all \in Seq(Messages) /\ Len(all) = Len(a) + Len(b)
        /\ \A i \in 1..(Len(a) + Len(b)) : all[i] = IF i <= Len(a) THEN a[i] ELSE b[i - Len(a)]
    BY <1>8, <2>1, ConcatProperties
  <2> QED
    BY <1>7, <2>1, <2>2, ConcatIncreasing
<1>10. appended'[c] = all
  BY <1>4, <1>5, <1>8
<1>11. \A m : Past(m, now, turns, msgs) => Past(m, now', turns', msgs')
  BY <1>4 DEF Past
<1>12. \A j \in 1..Len(b) : Past(b[j], now', turns', msgs')
  <2> SUFFICES ASSUME NEW j \in 1..Len(b) PROVE Past(b[j], now', turns', msgs')
    OBVIOUS
  <2>1. /\ b[j] \in msgs' /\ b[j].ts = now' /\ b[j].turn = turns' /\ b[j].id \in Nat
        /\ now' \in Nat /\ turns' \in Nat
    BY <1>3, <1>4 DEF StoreTypeOK, Span
  <2>2. b[j].ts <= now' /\ b[j].turn <= turns' /\ b[j].id >= b[j].id
    BY <2>1
  <2> QED
    BY <2>1, <2>2 DEF Past
<1>13. \A i \in 1..Len(all) : all[i].conv = c /\ Past(all[i], now', turns', msgs')
  <2> SUFFICES ASSUME NEW i \in 1..Len(all) PROVE all[i].conv = c /\ Past(all[i], now', turns', msgs')
    OBVIOUS
  <2>1. CASE i \in 1..Len(a)
    BY <1>6, <1>9, <1>11, <2>1
  <2>2. CASE i \notin 1..Len(a)
    <3>1. i - Len(a) \in 1..Len(b) /\ i = Len(a) + (i - Len(a))
      BY <1>2, <1>6, <1>9, <2>2
    <3>2. all[i] = b[i - Len(a)]
      BY <1>9, <3>1
    <3> QED
      BY <1>3, <1>12, <3>1, <3>2
  <2> QED
    BY <2>1, <2>2
<1>14. StoreTypeOK'
  <2>1. msgs' \subseteq Messages /\ convs' \subseteq Ids /\ now' \in Nat /\ turns' \in Nat
    BY <1>3, <1>4 DEF StoreTypeOK, Span
  <2>2. IsFiniteSet(msgs')
    <3>1. IsFiniteSet(Span(b, 1, Len(b)))
      BY <1>2, SpanCounted
    <3> QED
      BY <1>4, <3>1, FS_Union DEF StoreTypeOK
  <2>3. \A d \in DOMAIN appended' : d \in Ids /\ appended'[d] \in Seq(Messages)
    BY <1>4, <1>9, <1>10 DEF StoreTypeOK
  <2> QED
    BY <2>1, <2>2, <2>3 DEF StoreTypeOK
<1>15. HistoryInv'
  <2>1. ASSUME NEW d \in DOMAIN appended'
        PROVE  IsHistory(appended'[d], d, now', turns', msgs')
    <3>1. CASE d = c
      <4>1. PICK s \in 0..Len(a) : Of(msgs, c) = Suffix(a, s)
        BY <1>6
      <4>2. Of(msgs', c) = Of(msgs, c) \cup Span(b, 1, Len(b))
        <5>1. \A m \in Span(b, 1, Len(b)) : m.conv = c
          BY <1>3 DEF Span
        <5> QED
          BY <1>4, <5>1 DEF Of
      <4>3. s \in 0..Len(all) /\ Of(msgs', c) = Suffix(all, s)
        BY <1>2, <1>6, <1>9, <4>1, <4>2
      <4> QED
        BY <1>9, <1>10, <1>13, <3>1, <4>3 DEF IsHistory
    <3>2. CASE d # c
      <4>1. d \in DOMAIN appended /\ appended'[d] = appended[d]
        BY <1>4, <3>2
      <4>2. Of(msgs', d) = Of(msgs, d)
        BY <1>3, <1>4, <3>2 DEF Of, Span
      <4> QED
        BY <1>11, <4>1, <4>2 DEF HistoryInv, IsHistory
    <3> QED
      BY <3>1, <3>2
  <2>2. \A m \in msgs' : m.conv \in DOMAIN appended' /\ m.conv \in convs'
    BY <1>3, <1>4 DEF HistoryInv, Span
  <2> QED
    BY <2>1, <2>2 DEF HistoryInv
<1>16. /\ Len(all) > 0
       /\ \E m \in msgs' : /\ m = all[Len(all)]
                           /\ m.turn = turns /\ m.ts = now /\ m.role = roles[Len(roles)]
  <2>1. Len(b) \in 1..Len(b) /\ all[Len(all)] = b[Len(b)] /\ Len(all) > 0
    BY <1>2, <1>6, <1>9
  <2> QED
    BY <1>2, <1>3, <1>4, <2>1 DEF Span
<1> QED
  BY <1>4, <1>10, <1>14, <1>15, <1>16

(* Steps that store and delete no message. *)
LEMMA QuietKeeps ==
  ASSUME StoreTypeOK, HistoryInv, msgs' = msgs, appended' = appended,
         convs \subseteq convs', convs' \subseteq Ids, now' \in {now, now + 1}, turns' \in {turns, turns + 1}
  PROVE  StoreTypeOK' /\ HistoryInv'
<1>1. StoreTypeOK'
  BY DEF StoreTypeOK
<1>2. ASSUME NEW c \in DOMAIN appended, NEW i \in 1..Len(appended[c])
      PROVE  Past(appended[c][i], now', turns', msgs')
  <2>1. Past(appended[c][i], now, turns, msgs)
    BY <1>2 DEF HistoryInv, IsHistory
  <2>2. /\ appended[c][i].ts \in Nat /\ appended[c][i].turn \in Nat
        /\ now \in Nat /\ turns \in Nat
    BY <1>2, MessageFields DEF StoreTypeOK
  <2> QED
    BY <2>1, <2>2 DEF Past
<1>3. ASSUME NEW c \in DOMAIN appended PROVE IsHistory(appended[c], c, now', turns', msgs')
  BY <1>2 DEF HistoryInv, IsHistory
<1>4. HistoryInv'
  BY <1>3 DEF HistoryInv
<1> QED
  BY <1>1, <1>4

(* The pruner leaves the end of every conversation, and its last message as *)
(* long as that is not too old.                                             *)
LEMMA PruneLeavesSuffix ==
  ASSUME StoreTypeOK, HistoryInv, PruneOldTurns, NEW c \in DOMAIN appended, NEW a, a = appended[c]
  PROVE  /\ \E t \in 0..Len(a) : Of(msgs', c) = Suffix(a, t)
         /\ Len(a) > 0 /\ a[Len(a)] \in msgs /\ a[Len(a)].ts >= now - Retention
              => a[Len(a)] \in msgs'
<1> DEFINE cut == now - Retention
           young == {m \in msgs : m.ts >= cut}
<1>1. /\ a \in Seq(Messages) /\ Increasing(a) /\ Len(a) \in Nat
      /\ \A i \in 1..Len(a) : a[i].conv = c
      /\ cut \in Int /\ MaxMessages \in Nat \ {0}
  BY StoreAssumption DEF StoreTypeOK, HistoryInv, IsHistory
<1>2. msgs' = Cap(young)
  BY DEF PruneOldTurns
<1>3. PICK s \in 0..Len(a) : Of(msgs, c) = Suffix(a, s)
  BY DEF HistoryInv, IsHistory
<1>4. Of(young, c) = {m \in Suffix(a, s) : m.ts >= cut}
  BY <1>3 DEF Of
<1> HIDE DEF cut
<1>5. PICK t \in s..Len(a) : /\ {m \in Suffix(a, s) : m.ts >= cut} = Suffix(a, t)
                             /\ s < Len(a) /\ a[Len(a)].ts >= cut => t < Len(a)
  BY <1>1, YoungOfSuffix
<1>6. t \in 0..Len(a) /\ Of(young, c) = Suffix(a, t)
  <2>1. t \in 0..Len(a)
    BY <1>1
  <2> QED
    BY <1>4, <1>5, <2>1
<1>7. PICK u \in t..Len(a) : /\ Latest(Suffix(a, t), MaxMessages) = Suffix(a, u)
                             /\ t < Len(a) => u < Len(a)
  BY <1>1, <1>6, LatestOfSuffix
<1>8. Of(Cap(young), c) = Latest(Of(young, c), MaxMessages)
  <2>1. Latest(Of(young, c), MaxMessages) \subseteq Of(young, c)
    BY DEF Latest
  <2>2. \A m : m \in Of(Cap(young), c) <=> m \in young /\ m.conv = c /\ m \in Latest(Of(young, c), MaxMessages)
    BY DEF Of, Cap
  <2>3. \A m : m \in Of(young, c) <=> m \in young /\ m.conv = c
    BY DEF Of
  <2>4. \A m : m \in Of(Cap(young), c) <=> m \in Latest(Of(young, c), MaxMessages)
    BY <2>1, <2>2, <2>3
  <2> QED
    BY <2>1, <2>4 DEF Of
<1>9. Of(msgs', c) = Suffix(a, u) /\ u \in 0..Len(a)
  <2>1. u \in 0..Len(a)
    BY <1>1, <1>6
  <2> HIDE DEF young
  <2> QED
    BY <1>2, <1>6, <1>7, <1>8, <2>1
<1>10. ASSUME Len(a) > 0, a[Len(a)] \in msgs, a[Len(a)].ts >= cut PROVE a[Len(a)] \in msgs'
  <2>1. a[Len(a)] \in Suffix(a, s)
    BY <1>1, <1>3, <1>10 DEF Of
  <2>2. s < Len(a)
    <3>1. \E i \in (s + 1)..Len(a) : TRUE
      BY <2>1 DEF Suffix
    <3> QED
      BY <1>1, <3>1
  <2>3. u < Len(a)
    <3>1. t < Len(a)
      BY <1>5, <1>10, <2>2
    <3> QED
      BY <1>7, <3>1
  <2>4. Len(a) \in (u + 1)..Len(a)
    BY <1>1, <1>9, <2>3
  <2>5. a[Len(a)] \in Of(msgs', c)
    BY <1>9, <2>4 DEF Suffix
  <2> QED
    BY <2>5 DEF Of
<1> QED
  BY <1>9, <1>10 DEF cut

LEMMA PruneKeeps ==
  ASSUME StoreTypeOK, HistoryInv, PruneOldTurns, now' = now, turns' = turns
  PROVE  StoreTypeOK' /\ HistoryInv'
<1> DEFINE cut == now - Retention
           young == {m \in msgs : m.ts >= cut}
<1>1. /\ convs' = {c \in convs : Of(young, c) # {}} /\ msgs' = Cap(young) /\ appended' = appended
      /\ now \in Nat /\ Retention \in Nat
  BY StoreAssumption DEF PruneOldTurns, StoreTypeOK
<1>2. msgs' \subseteq young /\ young \subseteq msgs
  BY <1>1 DEF Cap
<1>3. StoreTypeOK'
  <2>1. IsFiniteSet(msgs')
    <3>1. msgs' \in SUBSET msgs
      BY <1>2
    <3> HIDE DEF young
    <3> QED
      BY <3>1, FS_Subset DEF StoreTypeOK
  <2> QED
    BY <1>1, <1>2, <2>1 DEF StoreTypeOK
<1>4. ASSUME NEW k \in msgs, k.ts = now
      PROVE  \E q \in msgs' : q.ts = now /\ q.id >= k.id
  <2>1. PICK d : d = k.conv
    OBVIOUS
  <2>2. d \in DOMAIN appended
    BY <2>1 DEF HistoryInv
  <2>3. PICK a : a = appended[d]
    OBVIOUS
  <2>4. /\ a \in Seq(Messages) /\ Increasing(a) /\ Len(a) \in Nat
        /\ \A i \in 1..Len(a) : Past(a[i], now, turns, msgs)
    BY <2>2, <2>3 DEF StoreTypeOK, HistoryInv, IsHistory
  <2>5. PICK s \in 0..Len(a) : Of(msgs, d) = Suffix(a, s)
    BY <2>2, <2>3 DEF HistoryInv, IsHistory
  <2>6. PICK i \in (s + 1)..Len(a) : k = a[i]
    BY <2>1, <2>5 DEF Of, Suffix
  <2>7. i \in 1..Len(a) /\ Len(a) \in 1..Len(a) /\ Len(a) \in (s + 1)..Len(a) /\ Len(a) > 0
    BY <2>4
  <2>8. PICK q : q = a[Len(a)]
    OBVIOUS
  <2>9. q \in Messages /\ k \in Messages
    BY <2>4, <2>6, <2>7, <2>8
  <2>10. q.ts \in Nat /\ q.id \in Nat /\ k.ts \in Nat /\ k.id \in Nat
    BY <2>9, MessageFields
  <2>11. q = k \/ Before(k, q)
    <3>1. i = Len(a) \/ i < Len(a)
      BY <2>4
    <3> QED
      BY <2>4, <2>6, <2>7, <2>8, <3>1 DEF Increasing
  <2>12. q.ts = now /\ q.id >= k.id
    <3>1. q.ts <= now
      BY <2>4, <2>7, <2>8 DEF Past
    <3> QED
      BY <1>1, <1>4, <2>10, <2>11, <3>1 DEF Before
  <2>13. q \in msgs
    BY <2>5, <2>7, <2>8 DEF Suffix, Of
  <2>14. q.ts >= now - Retention
    BY <1>1, <2>12
  <2>15. q \in msgs'
    BY <2>2, <2>3, <2>7, <2>8, <2>13, <2>14, PruneLeavesSuffix
  <2> QED
    BY <2>12, <2>15
<1>5. ASSUME NEW c \in DOMAIN appended PROVE IsHistory(appended[c], c, now', turns', msgs')
  <2>1. IsHistory(appended[c], c, now, turns, msgs)
    BY DEF HistoryInv
  <2>2. \A m \in Messages : Past(m, now, turns, msgs) => Past(m, now', turns', msgs')
    <3> SUFFICES ASSUME NEW m \in Messages, Past(m, now, turns, msgs), ~(m.ts < now)
                 PROVE  \E q \in msgs' : q.ts = now /\ q.id >= m.id
      BY DEF Past
    <3>1. PICK k \in msgs : k.ts = now /\ k.id >= m.id
      BY DEF Past
    <3>2. PICK q \in msgs' : q.ts = now /\ q.id >= k.id
      BY <1>4, <3>1
    <3>3. m.id \in Nat /\ k.id \in Nat /\ q.id \in Nat
      BY <1>3, MessageFields DEF StoreTypeOK
    <3> QED
      BY <3>1, <3>2, <3>3
  <2>3. \E t \in 0..Len(appended[c]) : Of(msgs', c) = Suffix(appended[c], t)
    BY PruneLeavesSuffix
  <2>4. \A i \in 1..Len(appended[c]) : appended[c][i] \in Messages
    BY DEF StoreTypeOK
  <2> QED
    BY <2>1, <2>2, <2>3, <2>4 DEF IsHistory
<1>6. \A m \in msgs' : m.conv \in DOMAIN appended' /\ m.conv \in convs'
  BY <1>1, <1>2 DEF HistoryInv, Of
<1>7. HistoryInv'
  BY <1>1, <1>5, <1>6 DEF HistoryInv
<1> QED
  BY <1>3, <1>7

-----------------------------------------------------------------------------
(* The gate and the registry. *)

LEMMA NoRequestType == NoRequest \in Requests
  BY DEF NoRequest, Requests, Pcs, Outside

LEMMA RequestFields ==
  ASSUME NEW r \in Requests
  PROVE  r.pc \in Pcs /\ r.conv \in Ids \cup {NoConv} /\ r.turn \in Nat /\ r.prompt \in Seq(Messages)
  BY DEF Requests

(* A task of which some fields are set, as a record. *)
LEMMA SetConv ==
  ASSUME NEW q \in Requests, NEW pc, NEW v
  PROVE  [q EXCEPT !.pc = pc, !.conv = v] = [pc |-> pc, conv |-> v, turn |-> q.turn, prompt |-> q.prompt]
<1>1. q = [pc |-> q.pc, conv |-> q.conv, turn |-> q.turn, prompt |-> q.prompt]
  BY DEF Requests
<1>2. PICK r : r = [q EXCEPT !.pc = pc]
  OBVIOUS
<1>3. r = [pc |-> pc, conv |-> q.conv, turn |-> q.turn, prompt |-> q.prompt]
  BY <1>1, <1>2
<1>4. [r EXCEPT !.conv = v] = [pc |-> pc, conv |-> v, turn |-> q.turn, prompt |-> q.prompt]
  BY <1>3
<1>5. [q EXCEPT !.pc = pc, !.conv = v] = [r EXCEPT !.conv = v]
  BY <1>2, Zenon
<1> QED
  BY <1>4, <1>5

LEMMA SetTurn ==
  ASSUME NEW q \in Requests, NEW pc, NEW v
  PROVE  [q EXCEPT !.pc = pc, !.turn = v] = [pc |-> pc, conv |-> q.conv, turn |-> v, prompt |-> q.prompt]
<1>1. q = [pc |-> q.pc, conv |-> q.conv, turn |-> q.turn, prompt |-> q.prompt]
  BY DEF Requests
<1>2. PICK r : r = [q EXCEPT !.pc = pc]
  OBVIOUS
<1>3. r = [pc |-> pc, conv |-> q.conv, turn |-> q.turn, prompt |-> q.prompt]
  BY <1>1, <1>2
<1>4. [r EXCEPT !.turn = v] = [pc |-> pc, conv |-> q.conv, turn |-> v, prompt |-> q.prompt]
  BY <1>3
<1>5. [q EXCEPT !.pc = pc, !.turn = v] = [r EXCEPT !.turn = v]
  BY <1>2, Zenon
<1> QED
  BY <1>4, <1>5

LEMMA SetPrompt ==
  ASSUME NEW q \in Requests, NEW pc, NEW v
  PROVE  [q EXCEPT !.pc = pc, !.prompt = v] = [pc |-> pc, conv |-> q.conv, turn |-> q.turn, prompt |-> v]
<1>1. q = [pc |-> q.pc, conv |-> q.conv, turn |-> q.turn, prompt |-> q.prompt]
  BY DEF Requests
<1>2. PICK r : r = [q EXCEPT !.pc = pc]
  OBVIOUS
<1>3. r = [pc |-> pc, conv |-> q.conv, turn |-> q.turn, prompt |-> q.prompt]
  BY <1>1, <1>2
<1>4. [r EXCEPT !.prompt = v] = [pc |-> pc, conv |-> q.conv, turn |-> q.turn, prompt |-> v]
  BY <1>3
<1>5. [q EXCEPT !.pc = pc, !.prompt = v] = [r EXCEPT !.prompt = v]
  BY <1>2, Zenon
<1> QED
  BY <1>4, <1>5

LEMMA SetPc ==
  ASSUME NEW q \in Requests, NEW pc
  PROVE  [q EXCEPT !.pc = pc] = [pc |-> pc, conv |-> q.conv, turn |-> q.turn, prompt |-> q.prompt]
<1>1. q = [pc |-> q.pc, conv |-> q.conv, turn |-> q.turn, prompt |-> q.prompt]
  BY DEF Requests
<1> QED
  BY <1>1

(* A registry keeps to its cap, with the conversation it was given. *)
LEMMA TrackKeeps ==
  ASSUME NEW reg, reg \subseteq [id : Ids, at : Nat], IsFiniteSet(reg), Cardinality(reg) <= MaxSessions,
         NEW c \in Ids, NEW clock \in Nat, NEW new \in Track(reg, c, clock)
  PROVE  /\ new \subseteq [id : Ids, at : Nat] /\ IsFiniteSet(new)
         /\ Cardinality(new) <= MaxSessions /\ c \in Tracked(new)
<1> DEFINE live == EvictIdle(reg, clock)
           entry == [id |-> c, at |-> clock]
<1>1. live \in SUBSET reg /\ MaxSessions \in Nat \ {0} /\ entry \in [id : Ids, at : Nat] /\ entry.id = c
  BY ServerAssumption DEF EvictIdle
<1> HIDE DEF live, entry
<1>2. /\ IsFiniteSet(live) /\ Cardinality(live) \in Nat /\ Cardinality(live) <= MaxSessions
  BY <1>1, FS_Subset, FS_CardinalityType
<1>3. PICK rest : /\ rest \in SUBSET live /\ new = rest \cup {entry}
                  /\ (\E s \in live : s \notin rest) \/ Cardinality(live) < MaxSessions
  <2>1. CASE c \in Tracked(live)
    <3>1. new = {s \in live : s.id # c} \cup {entry}
      BY <2>1 DEF Track, live, entry
    <3>2. PICK s \in live : s.id = c
      BY <2>1 DEF Tracked
    <3>3. PICK rest : rest = {x \in live : x.id # c}
      OBVIOUS
    <3>4. rest \in SUBSET live /\ s \notin rest /\ new = rest \cup {entry}
      BY <3>1, <3>2, <3>3
    <3> QED
      BY <3>2, <3>4
  <2>2. CASE c \notin Tracked(live) /\ Cardinality(live) >= MaxSessions
    <3>1. PICK rest \in EnforceCap(live) : new = rest \cup {entry}
      BY <2>2 DEF Track, live, entry
    <3>2. PICK s \in Oldest(live) : rest = live \ {s}
      BY <2>2, <3>1 DEF EnforceCap
    <3>3. s \in live
      BY <3>2 DEF Oldest
    <3> QED
      BY <3>1, <3>2, <3>3
  <2>3. CASE c \notin Tracked(live) /\ ~(Cardinality(live) >= MaxSessions)
    <3>1. PICK rest \in EnforceCap(live) : new = rest \cup {entry}
      BY <2>3 DEF Track, live, entry
    <3>2. rest = live
      BY <2>3, <3>1 DEF EnforceCap
    <3> QED
      BY <1>1, <1>2, <2>3, <3>1, <3>2
  <2> QED
    BY <2>1, <2>2, <2>3
<1>4. IsFiniteSet(rest) /\ Cardinality(rest) \in Nat /\ Cardinality(rest) < MaxSessions
  <2>1. /\ IsFiniteSet(rest) /\ Cardinality(rest) \in Nat /\ Cardinality(rest) <= Cardinality(live)
        /\ Cardinality(live) = Cardinality(rest) => live = rest
    BY <1>2, <1>3, FS_Subset, FS_CardinalityType
  <2> QED
    BY <1>1, <1>2, <1>3, <2>1
<1>5. IsFiniteSet(new) /\ Cardinality(new) <= Cardinality(rest) + 1
  <2>1. /\ IsFiniteSet(rest \cup {entry})
        /\ Cardinality(rest \cup {entry}) = IF entry \in rest THEN Cardinality(rest) ELSE Cardinality(rest) + 1
    BY <1>4, FS_AddElement
  <2> QED
    BY <1>3, <1>4, <2>1
<1>6. Cardinality(new) \in Nat
  BY <1>5, FS_CardinalityType
<1>7. c \in Tracked(new)
  BY <1>1, <1>3 DEF Tracked
<1>8. new \subseteq [id : Ids, at : Nat]
  BY <1>1, <1>3
<1> QED
  BY <1>1, <1>4, <1>5, <1>6, <1>7, <1>8

(* A step of the turn that runs, which stays in its turn. *)
LEMMA MoveKeeps ==
  ASSUME StoreTypeOK, ServerInv, NEW h \in Handlers, tasks[h].pc \notin Outside,
         NEW r \in Requests, r.pc \notin Outside \cup {"begin"}, r.turn = Turn(h), r.conv = Conv(h),
         r.pc = "done" \/ Conv(h) \in Ids,
         tasks' = [tasks EXCEPT ![h] = r], UNCHANGED server, turns' = turns, now' = now
  PROVE  ServerInv'
<1>1. /\ tasks' \in [Handlers -> Requests] /\ tasks'[h] = r
      /\ \A g \in Handlers : g # h => tasks'[g] = tasks[g]
  BY DEF ServerInv, ServerTypeOK
<1>2. queue' = queue /\ holder' = holder /\ gate' = gate /\ current' = current /\ sessions' = sessions
  BY DEF server
<1>3. ServerTypeOK'
  BY <1>1, <1>2 DEF ServerInv, ServerTypeOK
<1>4. Waiting' = Waiting
  BY <1>1 DEF Waiting, At, Outside
<1>5. Turn(h) # 0
  BY DEF ServerInv, GateInv
<1>6. GateInv'
  BY <1>1, <1>2, <1>4, <1>5 DEF ServerInv, GateInv, Turn
<1>7. RegistryInv'
  <2>1. /\ tasks'[h].pc \notin {"wait", "begin", "clear"} /\ tasks'[h].conv = tasks[h].conv
        /\ tasks'[h].turn = tasks[h].turn /\ (tasks'[h].pc = "done" \/ tasks'[h].conv \in Ids)
    BY <1>1 DEF Outside, Turn, Conv
  <2>2. "done" \notin Stored \cup {"user", "user_stream", "clear"}
    BY DEF Stored
  <2> QED
    BY <1>1, <1>2, <1>5, <2>1, <2>2 DEF ServerInv, RegistryInv, Turn, Conv
<1> QED
  BY <1>3, <1>6, <1>7 DEF ServerInv

(* The end of a turn. *)
LEMMA ReleaseKeeps ==
  ASSUME StoreTypeOK, ServerInv, NEW h \in Handlers, tasks[h].pc \notin Outside,
         Release(h), turns' = turns, now' = now
  PROVE  ServerInv'
<1>1. /\ tasks' \in [Handlers -> Requests] /\ tasks'[h] = NoRequest
      /\ \A g \in Handlers : g # h => tasks'[g] = tasks[g]
  BY NoRequestType DEF Release, ServerInv, ServerTypeOK
<1>2. /\ holder' = NoHandler /\ queue' = queue /\ current' = current /\ sessions' = sessions
      /\ gate' = [waiters |-> gate.waiters, inFlight |-> FALSE, since |-> 0]
  BY DEF Release, ServerInv, ServerTypeOK
<1>3. ServerTypeOK'
  BY <1>1, <1>2 DEF ServerInv, ServerTypeOK
<1>4. Waiting' = Waiting
  BY <1>1 DEF Waiting, At, Outside, NoRequest
<1>5. Turn(h) # 0 /\ holder = h
  BY DEF ServerInv, GateInv
<1>6. NoRequest.pc = "idle" /\ NoRequest.turn = 0 /\ NoRequest.prompt = <<>> /\ NoRequest.conv = NoConv
  BY DEF NoRequest
<1>7. GateInv'
  BY <1>1, <1>2, <1>4, <1>5, <1>6, ServerAssumption DEF ServerInv, GateInv, Turn, Outside
<1>8. RegistryInv'
  BY <1>1, <1>2, <1>6 DEF ServerInv, RegistryInv, Turn, Conv, Stored
<1> QED
  BY <1>3, <1>7, <1>8 DEF ServerInv

LEMMA ArriveKeeps ==
  ASSUME StoreTypeOK, ServerInv, NEW h \in Handlers, Arrive(h)
  PROVE  ServerInv'
<1>1. PICK r : r = [pc |-> "wait", conv |-> NoConv, turn |-> 0, prompt |-> <<>>]
  OBVIOUS
<1>2. /\ tasks' = [tasks EXCEPT ![h] = r] /\ tasks[h].pc = "idle"
      /\ gate' = [waiters |-> gate.waiters + 1, inFlight |-> gate.inFlight, since |-> gate.since]
      /\ now' = now /\ turns' = turns /\ holder' = holder /\ current' = current /\ sessions' = sessions
  <2>1. [NoRequest EXCEPT !.pc = "wait"] = r
    BY <1>1 DEF NoRequest
  <2>2. gate' = [waiters |-> gate.waiters + 1, inFlight |-> gate.inFlight, since |-> gate.since]
    BY DEF Arrive, ServerInv, ServerTypeOK
  <2> QED
    BY <2>1, <2>2 DEF Arrive, At
<1>3. r \in Requests
  BY <1>1 DEF Requests, Pcs, Outside
<1>4. /\ tasks' \in [Handlers -> Requests] /\ tasks'[h] = r
      /\ \A g \in Handlers : g # h => tasks'[g] = tasks[g]
  BY <1>2, <1>3 DEF ServerInv, ServerTypeOK
<1>5. ServerTypeOK'
  BY <1>2, <1>4 DEF ServerInv, ServerTypeOK
<1>6. Waiting' = Waiting \cup {h} /\ h \notin Waiting
  BY <1>1, <1>2, <1>4 DEF Waiting, At
<1>7. IsFiniteSet(Waiting') /\ Cardinality(Waiting') = Cardinality(Waiting) + 1
  <2>1. IsFiniteSet(Waiting)
    BY DEF ServerInv, GateInv
  <2> QED
    BY <1>6, <2>1, FS_AddElement
<1>8. Turn(h) = 0
  BY <1>2 DEF ServerInv, GateInv, Outside
<1>9. GateInv'
  BY <1>1, <1>2, <1>4, <1>7, <1>8 DEF ServerInv, GateInv, Turn, Outside
<1>10. RegistryInv'
  BY <1>1, <1>2, <1>4 DEF ServerInv, RegistryInv, Turn, Conv, Stored
<1> QED
  BY <1>5, <1>9, <1>10 DEF ServerInv

(* A waiter less: it leaves the queue for its turn, or gives up. *)
LEMMA OneWaiterLess ==
  ASSUME ServerInv, NEW h \in Handlers, tasks[h].pc = "wait", tasks' \in [Handlers -> Requests],
         tasks'[h].pc # "wait", \A g \in Handlers : g # h => tasks'[g] = tasks[g]
  PROVE  IsFiniteSet(Waiting') /\ Cardinality(Waiting') = Cardinality(Waiting) - 1
<1>1. Waiting' = Waiting \ {h} /\ h \in Waiting
  BY DEF Waiting, At
<1>2. IsFiniteSet(Waiting)
  BY DEF ServerInv, GateInv
<1> QED
  BY <1>1, <1>2, FS_RemoveElement

LEMMA AcquireKeeps ==
  ASSUME StoreTypeOK, ServerInv, NEW h \in Handlers, Acquire(h)
  PROVE  ServerInv'
<1>1. PICK r : r = [pc |-> "begin", conv |-> Conv(h), turn |-> turns + 1, prompt |-> tasks[h].prompt]
  OBVIOUS
<1>2. tasks[h] \in Requests /\ turns \in Nat /\ now \in Nat
  BY DEF ServerInv, ServerTypeOK, StoreTypeOK
<1>3. /\ tasks' = [tasks EXCEPT ![h] = r] /\ tasks[h].pc = "wait" /\ holder = NoHandler
      /\ gate' = [waiters |-> gate.waiters - 1, inFlight |-> TRUE, since |-> now]
      /\ now' = now /\ turns' = turns + 1 /\ holder' = h /\ current' = current /\ sessions' = sessions
  <2>1. tasks' = [tasks EXCEPT ![h] = r]
    <3>1. PICK q \in Requests : q = tasks[h]
      BY <1>2
    <3>2. PICK v : v = turns + 1
      OBVIOUS
    <3>3. tasks' = [tasks EXCEPT ![h] = [q EXCEPT !.pc = "begin", !.turn = v]]
      BY <3>1, <3>2 DEF Acquire
    <3>4. [q EXCEPT !.pc = "begin", !.turn = v] = r
      BY <1>1, <3>1, <3>2, SetTurn DEF Conv
    <3> QED
      BY <3>3, <3>4
  <2> QED
    BY <2>1 DEF Acquire, At, ServerInv, ServerTypeOK
<1>4. r \in Requests /\ r.turn # 0
  BY <1>1, <1>2 DEF Requests, Pcs, Conv
<1>5. /\ tasks' \in [Handlers -> Requests] /\ tasks'[h] = r
      /\ \A g \in Handlers : g # h => tasks'[g] = tasks[g]
  BY <1>3, <1>4 DEF ServerInv, ServerTypeOK
<1>6. ServerTypeOK'
  BY <1>2, <1>3, <1>5 DEF ServerInv, ServerTypeOK
<1>7. IsFiniteSet(Waiting') /\ Cardinality(Waiting') = Cardinality(Waiting) - 1
  BY <1>1, <1>3, <1>5, OneWaiterLess
<1>8. \A g \in Handlers : Turn(g) = 0 /\ g # NoHandler
  BY <1>3, ServerAssumption DEF ServerInv, GateInv
<1>9. TurnLimit \in Nat
  BY ServerAssumption
<1>10. GateInv'
  <2>1. now' - gate'.since <= TurnLimit /\ gate'.since <= now'
    BY <1>2, <1>3, <1>9
  <2>2. gate'.waiters = Cardinality(Waiting')
    BY <1>3, <1>7 DEF ServerInv, GateInv
  <2>3. ASSUME NEW g \in Handlers
        PROVE  /\ tasks'[g].turn # 0 <=> holder' = g
               /\ tasks'[g].turn # 0 <=> tasks'[g].pc \notin Outside
               /\ tasks'[g].turn # 0 => tasks'[g].turn = turns'
               /\ tasks'[g].turn = 0 => tasks'[g].prompt = <<>>
    <3>1. CASE g = h
      BY <1>1, <1>3, <1>4, <1>5, <3>1 DEF Outside
    <3>2. CASE g # h
      BY <1>3, <1>5, <1>8, <3>2 DEF ServerInv, GateInv, Turn
    <3> QED
      BY <3>1, <3>2
  <2> QED
    BY <1>3, <1>7, <1>8, <2>1, <2>2, <2>3 DEF GateInv, Turn
<1>11. RegistryInv'
  <2>1. r.conv = NoConv /\ r.pc = "begin"
    BY <1>1, <1>3 DEF ServerInv, RegistryInv
  <2> QED
    BY <1>3, <1>5, <2>1 DEF ServerInv, RegistryInv, Turn, Conv, Stored
<1> QED
  BY <1>6, <1>10, <1>11 DEF ServerInv

LEMMA BusyKeeps ==
  ASSUME StoreTypeOK, ServerInv, NEW h \in Handlers, Busy(h)
  PROVE  ServerInv'
<1>1. /\ tasks' = [tasks EXCEPT ![h] = NoRequest] /\ tasks[h].pc = "wait"
      /\ gate' = [waiters |-> gate.waiters - 1, inFlight |-> gate.inFlight, since |-> gate.since]
      /\ now' = now /\ turns' = turns /\ holder' = holder /\ current' = current /\ sessions' = sessions
  BY DEF Busy, At, ServerInv, ServerTypeOK
<1>2. /\ tasks' \in [Handlers -> Requests] /\ tasks'[h] = NoRequest
      /\ \A g \in Handlers : g # h => tasks'[g] = tasks[g]
  BY <1>1, NoRequestType DEF ServerInv, ServerTypeOK
<1>3. NoRequest.pc = "idle" /\ NoRequest.turn = 0 /\ NoRequest.prompt = <<>> /\ NoRequest.conv = NoConv
  BY DEF NoRequest
<1>4. ServerTypeOK'
  BY <1>1, <1>2 DEF ServerInv, ServerTypeOK
<1>5. IsFiniteSet(Waiting') /\ Cardinality(Waiting') = Cardinality(Waiting) - 1
  BY <1>1, <1>2, <1>3, OneWaiterLess
<1>6. Turn(h) = 0
  BY <1>1 DEF ServerInv, GateInv, Outside
<1>7. GateInv'
  BY <1>1, <1>2, <1>3, <1>5, <1>6 DEF ServerInv, GateInv, Turn, Outside
<1>8. RegistryInv'
  BY <1>1, <1>2, <1>3 DEF ServerInv, RegistryInv, Turn, Conv, Stored
<1> QED
  BY <1>4, <1>7, <1>8 DEF ServerInv

LEMMA BeginKeeps ==
  ASSUME StoreTypeOK, ServerInv, NEW h \in Handlers, NEW pc \in {"user", "user_stream"}, Begin(h, pc)
  PROVE  ServerInv'
<1>1. PICK c \in ClientIds \cup {current} :
        /\ sessions' \in Track(sessions, c, now)
        /\ tasks' = [tasks EXCEPT ![h] = [@ EXCEPT !.pc = pc, !.conv = c]]
  BY DEF Begin
<1>2. c \in Ids /\ tasks[h] \in Requests /\ now \in Nat /\ tasks[h].pc = "begin"
  BY <1>1 DEF Ids, ServerInv, ServerTypeOK, StoreTypeOK, Begin, At
<1>3. PICK r : r = [pc |-> pc, conv |-> c, turn |-> Turn(h), prompt |-> tasks[h].prompt]
  OBVIOUS
<1>4. tasks' = [tasks EXCEPT ![h] = r]
  <2>1. PICK q \in Requests : q = tasks[h]
    BY <1>2
  <2>2. tasks' = [tasks EXCEPT ![h] = [q EXCEPT !.pc = pc, !.conv = c]]
    BY <1>1, <2>1
  <2>3. [q EXCEPT !.pc = pc, !.conv = c] = r
    BY <1>3, <2>1, SetConv DEF Turn
  <2> QED
    BY <2>2, <2>3
<1>5. r \in Requests
  BY <1>2, <1>3 DEF Requests, Pcs, Turn
<1>6. /\ tasks' \in [Handlers -> Requests] /\ tasks'[h] = r
      /\ \A g \in Handlers : g # h => tasks'[g] = tasks[g]
  BY <1>4, <1>5 DEF ServerInv, ServerTypeOK
<1>7. /\ now' = now /\ turns' = turns /\ holder' = holder /\ gate' = gate /\ current' = current
  BY DEF Begin
<1>8. /\ sessions' \subseteq [id : Ids, at : Nat] /\ IsFiniteSet(sessions')
      /\ Cardinality(sessions') <= MaxSessions /\ c \in Tracked(sessions')
  BY <1>1, <1>2, TrackKeeps DEF ServerInv, ServerTypeOK, RegistryInv
<1>9. ServerTypeOK'
  BY <1>6, <1>7, <1>8 DEF ServerInv, ServerTypeOK
<1>10. Waiting' = Waiting
  BY <1>2, <1>3, <1>6 DEF Waiting, At
<1>11. Turn(h) # 0 /\ \A g \in Handlers : g # h => Turn(g) = 0
  BY <1>2 DEF ServerInv, GateInv, Outside
<1>12. GateInv'
  BY <1>3, <1>6, <1>7, <1>10, <1>11 DEF ServerInv, GateInv, Turn, Outside
<1>13. RegistryInv'
  <2>1. \A g \in Handlers : g # h => tasks'[g].turn = 0
    BY <1>6, <1>11 DEF Turn
  <2> QED
    BY <1>2, <1>3, <1>6, <1>8, <2>1 DEF ServerInv, RegistryInv, Turn, Conv
<1> QED
  BY <1>9, <1>12, <1>13 DEF ServerInv

(* /api/chat/clear, before and after it created the conversation. *)
LEMMA OutsideKeeps ==
  ASSUME StoreTypeOK, ServerInv, NEW h \in Handlers, tasks[h].pc \in {"idle", "clear"},
         NEW r \in Requests, r.pc \in {"idle", "clear"}, r.turn = 0, r.prompt = <<>>,
         r.pc = "clear" => r.conv \in Ids,
         tasks' = [tasks EXCEPT ![h] = r], current' \in Ids,
         now' = now, turns' = turns, holder' = holder, gate' = gate, sessions' = sessions
  PROVE  ServerInv'
<1>1. /\ tasks' \in [Handlers -> Requests] /\ tasks'[h] = r
      /\ \A g \in Handlers : g # h => tasks'[g] = tasks[g]
  BY DEF ServerInv, ServerTypeOK
<1>2. ServerTypeOK'
  BY <1>1 DEF ServerInv, ServerTypeOK
<1>3. Waiting' = Waiting
  BY <1>1 DEF Waiting, At
<1>4. Turn(h) = 0
  BY DEF ServerInv, GateInv, Outside
<1>5. GateInv'
  BY <1>1, <1>3, <1>4 DEF ServerInv, GateInv, Turn, Outside
<1>6. RegistryInv'
  BY <1>1, <1>4 DEF ServerInv, RegistryInv, Turn, Conv, Stored
<1> QED
  BY <1>2, <1>5, <1>6 DEF ServerInv

LEMMA TickKeepsServer ==
  ASSUME StoreTypeOK, ServerInv, Tick
  PROVE  ServerInv'
<1>1. /\ now' = now + 1 /\ tasks' = tasks /\ turns' = turns /\ queue' = queue /\ holder' = holder
      /\ gate' = gate /\ current' = current /\ sessions' = sessions
  BY DEF Tick, server
<1>2. Waiting' = Waiting
  BY <1>1 DEF Waiting, At
<1>3. now \in Nat /\ gate.since \in Nat /\ TurnLimit \in Nat
  BY ServerAssumption DEF StoreTypeOK, ServerInv, ServerTypeOK
<1>4. holder # NoHandler => gate.since <= now /\ now - gate.since < TurnLimit
  BY DEF Tick, ServerInv, GateInv
<1>5. holder' # NoHandler => gate'.since <= now' /\ now' - gate'.since <= TurnLimit
  BY <1>1, <1>3, <1>4
<1>6. GateInv'
  BY <1>1, <1>2, <1>5 DEF ServerInv, GateInv, Turn
<1>7. ServerTypeOK' /\ RegistryInv'
  BY <1>1 DEF ServerInv, ServerTypeOK, RegistryInv, Turn, Conv
<1> QED
  BY <1>6, <1>7 DEF ServerInv

(* Nothing waits and nothing runs. *)
LEMMA FreshServer ==
  ASSUME NEW t \in Nat
  PROVE  (/\ tasks = [h \in Handlers |-> NoRequest] /\ holder = NoHandler /\ gate = OpenGate
          /\ current = NewId(t) /\ sessions = {}) => ServerInv
<1> SUFFICES ASSUME tasks = [h \in Handlers |-> NoRequest], holder = NoHandler, gate = OpenGate,
                    current = NewId(t), sessions = {}
             PROVE  ServerInv
  OBVIOUS
<1>1. NoRequest.pc = "idle" /\ NoRequest.turn = 0 /\ NoRequest.prompt = <<>> /\ NoRequest.conv = NoConv
  BY DEF NoRequest
<1>2. gate \in [waiters : Int, inFlight : BOOLEAN, since : Nat] /\ gate.waiters = 0 /\ ~gate.inFlight
  BY DEF OpenGate
<1>3. IsFiniteSet({}) /\ Cardinality({}) = 0 /\ MaxSessions \in Nat
  BY FS_EmptySet, ServerAssumption
<1>4. Waiting = {}
  BY <1>1 DEF Waiting, At
<1>5. current \in Ids
  BY DEF Ids
<1>6. ServerTypeOK
  BY <1>2, <1>3, <1>5, NoRequestType DEF ServerTypeOK
<1>7. GateInv
  BY <1>1, <1>2, <1>3, <1>4, ServerAssumption DEF GateInv, Turn, Outside
<1>8. RegistryInv
  BY <1>1, <1>3 DEF RegistryInv, Turn, Conv, Stored
<1> QED
  BY <1>6, <1>7, <1>8 DEF ServerInv

-----------------------------------------------------------------------------
(* The turn that runs and its messages. *)

LEMMA OthersOutside ==
  ASSUME ServerInv, NEW h \in Handlers, tasks[h].pc \notin Outside
  PROVE  /\ Turn(h) # 0 /\ Turn(h) = turns /\ holder = h
         /\ \A g \in Handlers : g # h => tasks[g].pc \in Outside
<1>1. Turn(h) # 0 /\ Turn(h) = turns /\ holder = h
  BY DEF ServerInv, GateInv
<1> QED
  BY <1>1 DEF ServerInv, GateInv

(* A step of the turn that runs has to account for its own task only. *)
LEMMA TurnKeeps ==
  ASSUME ServerInv, TurnInv, NEW h \in Handlers, tasks[h].pc \notin Outside,
         NEW r, tasks'[h] = r, \A g \in Handlers : g # h => tasks'[g] = tasks[g], missed' = {},
         TaskOk(r, appended', msgs', gate'.since)
  PROVE  TurnInv'
<1> SUFFICES ASSUME NEW g \in Handlers, g # h PROVE TaskOk(tasks[g], appended', msgs', gate'.since)
  BY DEF TurnInv
<1>1. tasks[g].pc \notin Stored /\ tasks[g].pc # "recent"
  BY OthersOutside DEF Outside, Stored
<1>2. tasks[g].prompt # <<>> => PromptOk(tasks[g].prompt, tasks[g].turn)
  BY DEF TurnInv, TaskOk
<1> QED
  BY <1>1, <1>2 DEF TaskOk

(* A step beside the turn that runs leaves its messages and its gate alone. *)
LEMMA BesideKeeps ==
  ASSUME ServerInv, TurnInv, NEW h \in Handlers, NEW r, tasks'[h] = r,
         \A g \in Handlers : g # h => tasks'[g] = tasks[g],
         r.pc \notin Stored, r.prompt = <<>>, missed' = missed, msgs' = msgs, appended' = appended,
         gate'.since = gate.since \/ holder = NoHandler
  PROVE  TurnInv'
<1> SUFFICES ASSUME NEW g \in Handlers PROVE TaskOk(tasks'[g], appended, msgs, gate'.since)
  BY DEF TurnInv
<1>1. CASE g = h
  BY <1>1 DEF TaskOk, Stored
<1>2. CASE g # h /\ gate'.since = gate.since
  BY <1>2 DEF TurnInv
<1>3. CASE g # h /\ holder = NoHandler
  <2>1. tasks[g].pc \in Outside
    BY <1>3, ServerAssumption DEF ServerInv, GateInv
  <2>2. tasks[g].pc \notin Stored /\ tasks[g].pc # "recent"
    BY <2>1 DEF Outside, Stored
  <2>3. tasks[g].prompt # <<>> => PromptOk(tasks[g].prompt, tasks[g].turn)
    BY DEF TurnInv, TaskOk
  <2> QED
    BY <1>3, <2>2, <2>3 DEF TaskOk
<1> QED
  BY <1>1, <1>2, <1>3

(* The prompt is the end of the history. *)
LEMMA RecentEndsHistory ==
  ASSUME StoreTypeOK, HistoryInv, NEW c \in DOMAIN appended, NEW a, a = appended[c],
         Len(a) > 0, a[Len(a)] \in msgs, NEW p, p = Recent(c)
  PROVE  /\ p \in Seq(Messages) /\ Len(p) \in Nat /\ Len(p) > 0 /\ p[Len(p)] = a[Len(a)]
         /\ \A i, j \in DOMAIN p : i < j => p[i].turn <= p[j].turn
<1>1. /\ a \in Seq(Messages) /\ Increasing(a) /\ Len(a) \in Nat
      /\ \A i \in 1..Len(a) : a[i].conv = c
      /\ MaxHistory \in Nat \ {0}
  BY ServerAssumption DEF StoreTypeOK, HistoryInv, IsHistory
<1>2. PICK s \in 0..Len(a) : Of(msgs, c) = Suffix(a, s)
  BY DEF HistoryInv, IsHistory
<1>3. s < Len(a)
  <2>1. a[Len(a)] \in Suffix(a, s)
    BY <1>1, <1>2 DEF Of
  <2>2. \E i \in (s + 1)..Len(a) : TRUE
    BY <2>1 DEF Suffix
  <2> QED
    BY <1>1, <2>2
<1>4. PICK t \in s..Len(a) : /\ Latest(Suffix(a, s), MaxHistory) = Suffix(a, t)
                             /\ s < Len(a) => t < Len(a)
  BY <1>1, LatestOfSuffix
<1>5. t \in 0..Len(a) /\ t < Len(a)
  BY <1>1, <1>3, <1>4
<1>6. PICK n \in Nat : n = Len(a) - t /\ n > 0 /\ t + n = Len(a)
  BY <1>1, <1>5
<1>7. p = [i \in 1..n |-> a[t + i]]
  <2>1. p = Ordered(Suffix(a, t))
    BY <1>2, <1>4 DEF Recent
  <2> QED
    BY <1>1, <1>5, <1>6, <2>1, OrderedSuffix
<1>8. \A i \in 1..n : t + i \in 1..Len(a)
  BY <1>1, <1>5, <1>6
<1>9. p \in [1..n -> Messages]
  BY <1>1, <1>7, <1>8
<1>10. p \in Seq(Messages) /\ Len(p) = n /\ DOMAIN p = 1..n
  BY <1>9
<1>11. p[n] = a[Len(a)]
  BY <1>6, <1>7
<1>12. \A i, j \in 1..n : i < j => p[i].turn <= p[j].turn
  <2> SUFFICES ASSUME NEW i \in 1..n, NEW j \in 1..n, i < j PROVE p[i].turn <= p[j].turn
    OBVIOUS
  <2>1. p[i] = a[t + i] /\ p[j] = a[t + j] /\ t + i < t + j
    BY <1>5, <1>7
  <2> QED
    BY <1>1, <1>8, <2>1 DEF Increasing
<1> QED
  BY <1>6, <1>10, <1>11, <1>12

(* Messages of the turn that runs are stored. *)
LEMMA StoreKeeps ==
  ASSUME ChatInv, NEW h \in Handlers, tasks[h].pc \notin Outside, NEW c \in Ids, c = Conv(h),
         NEW roles \in Seq(Roles), Len(roles) > 0, Insert(Conv(h), Turn(h), roles),
         convs' = convs \cup {Conv(h)}, now' = now, turns' = turns
  PROVE  /\ StoreTypeOK' /\ HistoryInv'
         /\ LastStored(c, appended', msgs', gate.since)
         /\ roles[Len(roles)] = "user" => EndsWithUser(appended'[c], Turn(h))
<1> USE DEF ChatInv
<1>1. Turn(h) = turns /\ holder = h /\ holder # NoHandler
  BY OthersOutside, ServerAssumption
<1>2. Rows(Conv(h), Turn(h), roles) = Rows(c, turns, roles) /\ History(Conv(h)) = History(c)
  BY <1>1 DEF Rows, History
<1>3. Insert(c, turns, roles)
  BY <1>2 DEF Insert
<1>4. convs' = convs \cup {c}
  OBVIOUS
<1>5. /\ StoreTypeOK' /\ HistoryInv' /\ DOMAIN appended' = DOMAIN appended \cup {c}
      /\ Len(appended'[c]) > 0
      /\ \E m \in msgs' : /\ m = appended'[c][Len(appended'[c])]
                          /\ m.turn = turns /\ m.ts = now /\ m.role = roles[Len(roles)]
  BY <1>3, <1>4, InsertKeeps
<1>6. now >= gate.since
  BY <1>1 DEF ServerInv, ServerTypeOK, GateInv, StoreTypeOK
<1> QED
  BY <1>1, <1>5, <1>6 DEF LastStored, EndsWithUser

(* The store is what it was, up to conversations just created. *)
LEMMA SameStore ==
  ASSUME ChatInv, UNCHANGED store, now' = now, turns' \in {turns, turns + 1}
  PROVE  StoreTypeOK' /\ HistoryInv'
  BY QuietKeeps DEF ChatInv, StoreTypeOK, store

LEMMA CreateKeeps ==
  ASSUME ChatInv, Create, now' = now, turns' = turns
  PROVE  StoreTypeOK' /\ HistoryInv'
<1>1. NewId(now) \in Ids
  BY DEF ChatInv, StoreTypeOK, Ids
<1> QED
  BY <1>1, QuietKeeps DEF ChatInv, StoreTypeOK, Create

LEMMA ReleaseKeepsAll ==
  ASSUME ChatInv, NEW h \in Handlers, tasks[h].pc \notin Outside, Release(h),
         turns' = turns, now' = now, missed' = missed, StoreTypeOK', HistoryInv'
  PROVE  ChatInv'
<1> USE DEF ChatInv
<1>1. ServerInv'
  BY ReleaseKeeps
<1>2. tasks'[h] = NoRequest /\ \A g \in Handlers : g # h => tasks'[g] = tasks[g]
  BY DEF Release, ServerInv, ServerTypeOK
<1>3. TaskOk(NoRequest, appended', msgs', gate'.since)
  BY DEF TaskOk, NoRequest, Stored
<1>4. TurnInv'
  BY <1>2, <1>3, TurnKeeps DEF TurnInv
<1> QED
  BY <1>1, <1>4

LEMMA MoveKeepsAll ==
  ASSUME ChatInv, NEW h \in Handlers, tasks[h].pc \notin Outside,
         NEW r \in Requests, r.pc \notin Outside \cup {"begin"}, r.turn = Turn(h), r.conv = Conv(h),
         r.pc = "done" \/ Conv(h) \in Ids,
         tasks' = [tasks EXCEPT ![h] = r], UNCHANGED server, turns' = turns, now' = now,
         missed' = missed, StoreTypeOK', HistoryInv', TaskOk(r, appended', msgs', gate.since)
  PROVE  ChatInv'
<1> USE DEF ChatInv
<1>1. ServerInv'
  BY MoveKeeps
<1>2. tasks'[h] = r /\ \A g \in Handlers : g # h => tasks'[g] = tasks[g]
  BY DEF ServerInv, ServerTypeOK
<1>3. gate' = gate
  BY DEF server
<1>4. TurnInv'
  BY <1>2, <1>3, TurnKeeps DEF TurnInv
<1> QED
  BY <1>1, <1>4

(* The turn that runs goes on to another step. *)
LEMMA GoKeepsAll ==
  ASSUME ChatInv, NEW h \in Handlers, tasks[h].pc \notin Outside,
         NEW pc \in Pcs, pc \notin Outside \cup {"begin"}, pc = "done" \/ Conv(h) \in Ids,
         Go(h, pc), UNCHANGED server, turns' = turns, now' = now,
         missed' = missed, StoreTypeOK', HistoryInv',
         pc \in Stored => LastStored(Conv(h), appended', msgs', gate.since),
         pc = "recent" => EndsWithUser(appended'[Conv(h)], Turn(h))
  PROVE  ChatInv'
<1>1. PICK q \in Requests : q = tasks[h]
  BY DEF ChatInv, ServerInv, ServerTypeOK
<1>2. PICK r : r = [pc |-> pc, conv |-> q.conv, turn |-> q.turn, prompt |-> q.prompt]
  OBVIOUS
<1>3. tasks' = [tasks EXCEPT ![h] = r]
  <2>1. tasks' = [tasks EXCEPT ![h] = [q EXCEPT !.pc = pc]]
    BY <1>1 DEF Go
  <2> QED
    BY <1>1, <1>2, <2>1, SetPc
<1>4. /\ r \in Requests /\ r.pc = pc /\ r.turn = Turn(h) /\ r.conv = Conv(h)
      /\ r.prompt = tasks[h].prompt
  BY <1>1, <1>2, RequestFields DEF Requests, Turn, Conv
<1>5. TaskOk(r, appended', msgs', gate.since)
  BY <1>4 DEF ChatInv, TurnInv, TaskOk, Turn
<1> QED
  BY <1>3, <1>4, <1>5, MoveKeepsAll

-----------------------------------------------------------------------------
(* Every action keeps the invariant. *)

LEMMA ArriveStep ==
  ASSUME ChatInv, NEW h \in Handlers, Arrive(h)
  PROVE  ChatInv'
<1> USE DEF ChatInv
<1>1. StoreTypeOK' /\ HistoryInv'
  BY SameStore DEF Arrive
<1>2. ServerInv'
  BY ArriveKeeps
<1>3. PICK r : r = [NoRequest EXCEPT !.pc = "wait"]
  OBVIOUS
<1>4. r.pc \notin Stored /\ r.prompt = <<>>
  BY <1>3 DEF NoRequest, Stored
<1>5. /\ tasks'[h] = r /\ \A g \in Handlers : g # h => tasks'[g] = tasks[g]
      /\ missed' = missed /\ msgs' = msgs /\ appended' = appended /\ gate'.since = gate.since
  BY <1>3 DEF Arrive, store, ServerInv, ServerTypeOK
<1>6. TurnInv'
  BY <1>4, <1>5, BesideKeeps
<1> QED
  BY <1>1, <1>2, <1>6

LEMMA AcquireStep ==
  ASSUME ChatInv, NEW h \in Handlers, Acquire(h)
  PROVE  ChatInv'
<1> USE DEF ChatInv
<1>1. StoreTypeOK' /\ HistoryInv'
  BY SameStore DEF Acquire
<1>2. ServerInv'
  BY AcquireKeeps
<1>3. PICK q \in Requests : q = tasks[h]
  BY DEF ServerInv, ServerTypeOK
<1>4. PICK v : v = turns + 1
  OBVIOUS
<1>5. PICK r : r = [q EXCEPT !.pc = "begin", !.turn = v]
  OBVIOUS
<1>6. r.pc = "begin" /\ r.prompt = q.prompt
  BY <1>5, SetTurn
<1>7. q.prompt = <<>>
  BY <1>3 DEF Acquire, At, ServerInv, GateInv, Outside
<1>8. /\ tasks'[h] = r /\ \A g \in Handlers : g # h => tasks'[g] = tasks[g]
      /\ missed' = missed /\ msgs' = msgs /\ appended' = appended /\ holder = NoHandler
  BY <1>3, <1>4, <1>5 DEF Acquire, store, ServerInv, ServerTypeOK
<1>9. r.pc \notin Stored
  BY <1>6 DEF Stored
<1>10. TurnInv'
  BY <1>6, <1>7, <1>8, <1>9, BesideKeeps
<1> QED
  BY <1>1, <1>2, <1>10

LEMMA BusyStep ==
  ASSUME ChatInv, NEW h \in Handlers, Busy(h)
  PROVE  ChatInv'
<1> USE DEF ChatInv
<1>1. StoreTypeOK' /\ HistoryInv'
  BY SameStore DEF Busy
<1>2. ServerInv'
  BY BusyKeeps
<1>3. NoRequest.pc \notin Stored /\ NoRequest.prompt = <<>>
  BY DEF NoRequest, Stored
<1>4. /\ tasks'[h] = NoRequest /\ \A g \in Handlers : g # h => tasks'[g] = tasks[g]
      /\ missed' = missed /\ msgs' = msgs /\ appended' = appended /\ gate'.since = gate.since
  BY DEF Busy, store, ServerInv, ServerTypeOK
<1>5. TurnInv'
  BY <1>3, <1>4, BesideKeeps
<1> QED
  BY <1>1, <1>2, <1>5

LEMMA ClearStep ==
  ASSUME ChatInv, NEW h \in Handlers, Clear(h)
  PROVE  ChatInv'
<1> USE DEF ChatInv
<1>1. StoreTypeOK' /\ HistoryInv'
  BY CreateKeeps DEF Clear
<1>2. PICK r : r = [pc |-> "clear", conv |-> NewId(now), turn |-> 0, prompt |-> <<>>]
  OBVIOUS
<1>3. NewId(now) \in Ids
  BY DEF StoreTypeOK, Ids
<1>4. r \in Requests
  BY <1>2, <1>3 DEF Requests, Pcs, Outside
<1>5. /\ tasks' = [tasks EXCEPT ![h] = r] /\ tasks[h].pc = "idle" /\ missed' = missed
      /\ msgs' = msgs /\ appended' = appended /\ now' = now /\ turns' = turns
      /\ holder' = holder /\ gate' = gate /\ current' = current /\ sessions' = sessions
  <2>1. [NoRequest EXCEPT !.pc = "clear", !.conv = NewId(now)]
          = [pc |-> "clear", conv |-> NewId(now), turn |-> NoRequest.turn, prompt |-> NoRequest.prompt]
    BY NoRequestType, SetConv
  <2>2. NoRequest.turn = 0 /\ NoRequest.prompt = <<>>
    BY DEF NoRequest
  <2>3. [NoRequest EXCEPT !.pc = "clear", !.conv = NewId(now)] = r
    BY <1>2, <2>1, <2>2
  <2>4. tasks' = [tasks EXCEPT ![h] = r]
    BY <2>3 DEF Clear
  <2> QED
    BY <2>4 DEF Clear, Create, At, server
<1>6. ServerInv'
  <2>1. current' \in Ids
    BY <1>5 DEF ServerInv, ServerTypeOK
  <2>2. r.pc = "clear" /\ r.turn = 0 /\ r.prompt = <<>> /\ r.conv \in Ids
    BY <1>2, <1>3
  <2> QED
    BY <1>4, <1>5, <2>1, <2>2, OutsideKeeps
<1>7. r.pc \notin Stored /\ r.prompt = <<>>
  BY <1>2 DEF Stored
<1>8. tasks'[h] = r /\ \A g \in Handlers : g # h => tasks'[g] = tasks[g]
  BY <1>5 DEF ServerInv, ServerTypeOK
<1>9. TurnInv'
  BY <1>5, <1>7, <1>8, BesideKeeps
<1> QED
  BY <1>1, <1>6, <1>9

LEMMA SetCurrentStep ==
  ASSUME ChatInv, NEW h \in Handlers, SetCurrent(h)
  PROVE  ChatInv'
<1> USE DEF ChatInv
<1>1. StoreTypeOK' /\ HistoryInv'
  BY SameStore DEF SetCurrent
<1>2. /\ tasks' = [tasks EXCEPT ![h] = NoRequest] /\ tasks[h].pc = "clear" /\ missed' = missed
      /\ msgs' = msgs /\ appended' = appended /\ now' = now /\ turns' = turns
      /\ holder' = holder /\ gate' = gate /\ current' = Conv(h) /\ sessions' = sessions
  BY DEF SetCurrent, At, store
<1>3. NoRequest.pc = "idle" /\ NoRequest.turn = 0 /\ NoRequest.prompt = <<>>
  BY DEF NoRequest
<1>4. current' \in Ids
  BY <1>2 DEF ServerInv, RegistryInv
<1>5. ServerInv'
  BY <1>2, <1>3, <1>4, NoRequestType, OutsideKeeps
<1>6. NoRequest.pc \notin Stored
  BY <1>3 DEF Stored
<1>7. tasks'[h] = NoRequest /\ \A g \in Handlers : g # h => tasks'[g] = tasks[g]
  BY <1>2 DEF ServerInv, ServerTypeOK
<1>8. TurnInv'
  BY <1>2, <1>3, <1>6, <1>7, BesideKeeps
<1> QED
  BY <1>1, <1>5, <1>8

(* The guard goes without a message. *)
LEMMA QuietReleaseStep ==
  ASSUME ChatInv, NEW h \in Handlers, tasks[h].pc \notin Outside, Release(h),
         UNCHANGED <<now, store, turns, missed>>
  PROVE  ChatInv'
<1>1. StoreTypeOK' /\ HistoryInv'
  BY SameStore
<1> QED
  BY <1>1, ReleaseKeepsAll

LEMMA BeginStep ==
  ASSUME ChatInv, NEW h \in Handlers, NEW pc \in {"user", "user_stream"}, Begin(h, pc)
  PROVE  ChatInv'
<1> USE DEF ChatInv
<1>1. StoreTypeOK' /\ HistoryInv'
  BY SameStore DEF Begin
<1>2. ServerInv'
  BY BeginKeeps
<1>3. PICK q \in Requests : q = tasks[h]
  BY DEF ServerInv, ServerTypeOK
<1>4. PICK c : tasks' = [tasks EXCEPT ![h] = [q EXCEPT !.pc = pc, !.conv = c]]
  BY <1>3 DEF Begin
<1>5. PICK r : r = [q EXCEPT !.pc = pc, !.conv = c]
  OBVIOUS
<1>6. r.pc = pc /\ r.prompt = q.prompt /\ r.turn = q.turn
  BY <1>5, SetConv
<1>7. /\ tasks'[h] = r /\ \A g \in Handlers : g # h => tasks'[g] = tasks[g]
      /\ missed' = missed /\ gate' = gate /\ tasks[h].pc \notin Outside
  BY <1>4, <1>5 DEF Begin, At, Outside, ServerInv, ServerTypeOK
<1>8. TaskOk(r, appended', msgs', gate'.since)
  BY <1>3, <1>6 DEF TurnInv, TaskOk, Stored
<1>9. TurnInv'
  BY <1>7, <1>8, TurnKeeps DEF TurnInv
<1> QED
  BY <1>1, <1>2, <1>9

LEMMA BridgeStep ==
  ASSUME ChatInv, NEW h \in Handlers, Bridge(h)
  PROVE  ChatInv'
<1>1. StoreTypeOK' /\ HistoryInv'
  BY SameStore DEF Bridge
<1>2. tasks[h].pc \notin Outside
  BY DEF Bridge, At, Outside
<1>3. "done" \in Pcs /\ "done" \notin Outside \cup {"begin"} /\ "done" \notin Stored
  BY DEF Pcs, Outside, Stored
<1> QED
  BY <1>1, <1>2, <1>3, GoKeepsAll DEF Bridge

LEMMA RolesOfBatch ==
  /\ \A role \in Roles : /\ <<role>> \in Seq(Roles) /\ Len(<<role>>) = 1
                         /\ <<role>>[1] = role
  /\ /\ <<"assistant", "system", "assistant">> \in Seq(Roles)
     /\ Len(<<"assistant", "system", "assistant">>) = 3
<1>1. "assistant" \in Roles /\ "system" \in Roles
  BY DEF Roles
<1> QED
  BY <1>1

LEMMA StoreUserStep ==
  ASSUME ChatInv, NEW h \in Handlers, StoreUser(h)
  PROVE  ChatInv'
<1>1. tasks[h].pc \in {"user", "user_stream"}
  BY DEF StoreUser, At
<1>2. tasks[h].pc \notin Outside /\ Conv(h) \in Ids
  BY <1>1 DEF Outside, ChatInv, ServerInv, RegistryInv
<1>3. PICK c \in Ids : c = Conv(h)
  BY <1>2
<1>4. PICK roles : roles = <<"user">>
  OBVIOUS
<1>4a. roles \in Seq(Roles) /\ Len(roles) > 0 /\ roles[Len(roles)] = "user"
  <2>1. "user" \in Roles
    BY DEF Roles
  <2>2. roles \in Seq(Roles) /\ Len(roles) = 1 /\ roles[1] = "user"
    BY <1>4, <2>1, RolesOfBatch
  <2> QED
    BY <2>2
<1>5. Insert(Conv(h), Turn(h), roles) /\ convs' = convs \cup {Conv(h)}
  BY <1>4 DEF StoreUser, EnsureAndAppendBatch
<1>6. now' = now /\ turns' = turns /\ missed' = missed
  BY DEF StoreUser
<1>7. /\ StoreTypeOK' /\ HistoryInv' /\ LastStored(Conv(h), appended', msgs', gate.since)
      /\ EndsWithUser(appended'[Conv(h)], Turn(h))
  BY <1>2, <1>3, <1>4a, <1>5, <1>6, StoreKeeps
<1>8. ASSUME NEW pc \in {"quick", "recent"}, Go(h, pc), UNCHANGED server PROVE ChatInv'
  <2>1. pc \in Pcs /\ pc \notin Outside \cup {"begin"}
    BY DEF Pcs, Outside, Stored
  <2> QED
    BY <1>2, <1>6, <1>7, <1>8, <2>1, GoKeepsAll
<1>9. CASE Release(h)
  BY <1>2, <1>6, <1>7, <1>9, ReleaseKeepsAll
<1> QED
  BY <1>8, <1>9 DEF StoreUser

LEMMA StoreQuickStep ==
  ASSUME ChatInv, NEW h \in Handlers, StoreQuick(h)
  PROVE  ChatInv'
<1>1. tasks[h].pc = "quick"
  BY DEF StoreQuick, At
<1>2. tasks[h].pc \notin Outside /\ Conv(h) \in Ids
  BY <1>1 DEF Outside, Stored, ChatInv, ServerInv, RegistryInv
<1>3. PICK c \in Ids : c = Conv(h)
  BY <1>2
<1>4. PICK roles : roles = <<"assistant", "system", "assistant">>
  OBVIOUS
<1>4a. roles \in Seq(Roles) /\ Len(roles) > 0
  <2>1. roles \in Seq(Roles) /\ Len(roles) = 3
    BY <1>4, RolesOfBatch
  <2> QED
    BY <2>1
<1>5. Insert(Conv(h), Turn(h), roles) /\ convs' = convs \cup {Conv(h)}
  BY <1>4 DEF StoreQuick, EnsureAndAppendBatch
<1>6. now' = now /\ turns' = turns /\ missed' = missed /\ UNCHANGED server /\ Go(h, "done")
  BY DEF StoreQuick
<1>7. StoreTypeOK' /\ HistoryInv'
  BY <1>2, <1>3, <1>4a, <1>5, <1>6, StoreKeeps
<1>8. "done" \in Pcs /\ "done" \notin Outside \cup {"begin"} /\ "done" \notin Stored
  BY DEF Pcs, Outside, Stored
<1> QED
  BY <1>2, <1>6, <1>7, <1>8, GoKeepsAll

(* A later message of the turn finds its conversation: the turn's user      *)
(* message is in it, too young for the pruner.                              *)
LEMMA ConversationThere ==
  ASSUME ChatInv, NEW h \in Handlers, tasks[h].pc \in Stored
  PROVE  CanAppend(Conv(h)) /\ Conv(h) \in Ids
<1>1. Conv(h) \in Ids
  BY DEF ChatInv, ServerInv, RegistryInv
<1>2. LastStored(Conv(h), appended, msgs, gate.since)
  BY DEF ChatInv, TurnInv, TaskOk, Conv
<1>3. PICK c \in DOMAIN appended : c = Conv(h)
  BY <1>2 DEF LastStored
<1>4. PICK a \in Seq(Messages) : a = appended[c] /\ Len(a) > 0 /\ a[Len(a)] \in msgs
  BY <1>2, <1>3 DEF ChatInv, StoreTypeOK, LastStored
<1>5. Len(a) \in 1..Len(a)
  BY <1>4
<1>6. a[Len(a)].conv = c
  BY <1>4, <1>5 DEF ChatInv, HistoryInv, IsHistory
<1> QED
  BY <1>1, <1>3, <1>4, <1>6 DEF ChatInv, HistoryInv, CanAppend

LEMMA StoreNextStep ==
  ASSUME ChatInv, NEW h \in Handlers, NEW pc \in {"answer", "tool_call", "tool_result"},
         NEW role \in Roles, NEW next \in {"done", "tool_result", "answer"},
         StoreNext(h, pc, role, next)
  PROVE  ChatInv'
<1>1. tasks[h].pc = pc /\ tasks[h].pc \in Stored /\ tasks[h].pc \notin Outside
  BY DEF StoreNext, At, Stored, Outside
<1>2. CanAppend(Conv(h)) /\ Conv(h) \in Ids
  BY <1>1, ConversationThere
<1>3. PICK c \in Ids : c = Conv(h)
  BY <1>2
<1>4. PICK roles : roles = <<role>>
  OBVIOUS
<1>4a. roles \in Seq(Roles) /\ Len(roles) > 0
  <2>1. roles \in Seq(Roles) /\ Len(roles) = 1
    BY <1>4, RolesOfBatch
  <2> QED
    BY <2>1
<1>5. Insert(Conv(h), Turn(h), roles) /\ convs' = convs /\ missed' = missed
  BY <1>2, <1>4 DEF StoreNext, AppendMsg
<1>6. now' = now /\ turns' = turns /\ UNCHANGED server /\ Go(h, next)
  BY DEF StoreNext
<1>7. convs' = convs \cup {Conv(h)}
  BY <1>2, <1>5 DEF CanAppend
<1>8. StoreTypeOK' /\ HistoryInv' /\ LastStored(Conv(h), appended', msgs', gate.since)
  BY <1>1, <1>3, <1>4a, <1>5, <1>6, <1>7, StoreKeeps
<1>9. next \in Pcs /\ next \notin Outside \cup {"begin"} /\ next # "recent"
  BY DEF Pcs, Outside, Stored
<1> QED
  BY <1>1, <1>2, <1>5, <1>6, <1>8, <1>9, GoKeepsAll

LEMMA BuildPromptStep ==
  ASSUME ChatInv, NEW h \in Handlers, BuildPrompt(h)
  PROVE  ChatInv'
<1>1. tasks[h].pc = "recent" /\ tasks[h].pc \in Stored /\ tasks[h].pc \notin Outside
  BY DEF BuildPrompt, At, Stored, Outside
<1>2. PICK q \in Requests : q = tasks[h]
  BY DEF ChatInv, ServerInv, ServerTypeOK
<1>3. /\ LastStored(q.conv, appended, msgs, gate.since) /\ EndsWithUser(appended[q.conv], q.turn)
      /\ q.conv = Conv(h) /\ q.turn = Turn(h)
  BY <1>1, <1>2 DEF ChatInv, TurnInv, TaskOk, Conv, Turn
<1>4. PICK c \in DOMAIN appended : c = q.conv
  BY <1>3 DEF LastStored
<1>5. PICK a : a = appended[c] /\ Len(a) > 0 /\ a[Len(a)] \in msgs /\ EndsWithUser(a, q.turn)
  BY <1>3, <1>4 DEF LastStored
<1>6. PICK p : p = Recent(c)
  OBVIOUS
<1>7. /\ p \in Seq(Messages) /\ Len(p) \in Nat /\ Len(p) > 0 /\ p[Len(p)] = a[Len(a)]
      /\ \A i, j \in DOMAIN p : i < j => p[i].turn <= p[j].turn
  BY <1>5, <1>6, RecentEndsHistory DEF ChatInv
<1>8. PromptOk(p, q.turn)
  BY <1>5, <1>7 DEF PromptOk, EndsWithUser
<1>9. PICK r : r = [pc |-> "llm", conv |-> q.conv, turn |-> q.turn, prompt |-> p]
  OBVIOUS
<1>10. tasks' = [tasks EXCEPT ![h] = r]
  <2>1. tasks' = [tasks EXCEPT ![h] = [q EXCEPT !.pc = "llm", !.prompt = Recent(Conv(h))]]
    BY <1>2 DEF BuildPrompt
  <2>2. Recent(Conv(h)) = p
    BY <1>3, <1>4, <1>6
  <2>3. [q EXCEPT !.pc = "llm", !.prompt = p] = r
    BY <1>9, SetPrompt
  <2> QED
    BY <2>1, <2>2, <2>3
<1>11. r \in Requests /\ r.pc \notin Outside \cup {"begin"} /\ r.pc # "recent"
  BY <1>2, <1>7, <1>9, RequestFields DEF Requests, Pcs, Stored, Outside
<1>12. /\ now' = now /\ turns' = turns /\ missed' = missed /\ UNCHANGED server
       /\ msgs' = msgs /\ appended' = appended
  BY DEF BuildPrompt, store
<1>13. StoreTypeOK' /\ HistoryInv'
  BY SameStore DEF BuildPrompt
<1>14. TaskOk(r, appended', msgs', gate.since)
  BY <1>3, <1>8, <1>9, <1>12 DEF TaskOk
<1>15. Conv(h) \in Ids
  BY <1>1, ConversationThere
<1>16. r.turn = Turn(h) /\ r.conv = Conv(h)
  BY <1>3, <1>9
<1> QED
  BY <1>1, <1>10, <1>11, <1>12, <1>13, <1>14, <1>15, <1>16, MoveKeepsAll

LEMMA ModelAnswersStep ==
  ASSUME ChatInv, NEW h \in Handlers, ModelAnswers(h)
  PROVE  ChatInv'
<1>1. tasks[h].pc = "llm" /\ tasks[h].pc \in Stored /\ tasks[h].pc \notin Outside
  BY DEF ModelAnswers, At, Stored, Outside
<1>2. UNCHANGED <<now, store, turns, missed>>
  BY DEF ModelAnswers
<1>3. CASE Release(h)
  BY <1>1, <1>2, <1>3, QuietReleaseStep
<1>4. ASSUME NEW pc \in {"answer", "tool_call"}, UNCHANGED server,
             tasks' = [tasks EXCEPT ![h] = [@ EXCEPT !.pc = pc, !.prompt = <<>>]]
      PROVE  ChatInv'
  <2>1. PICK q \in Requests : q = tasks[h]
    BY DEF ChatInv, ServerInv, ServerTypeOK
  <2>2. PICK p : p = <<>>
    OBVIOUS
  <2>3. PICK r : r = [pc |-> pc, conv |-> q.conv, turn |-> q.turn, prompt |-> p]
    OBVIOUS
  <2>4. tasks' = [tasks EXCEPT ![h] = r]
    <3>1. tasks' = [tasks EXCEPT ![h] = [q EXCEPT !.pc = pc, !.prompt = p]]
      BY <1>4, <2>1, <2>2
    <3>2. [q EXCEPT !.pc = pc, !.prompt = p] = r
      BY <2>3, SetPrompt
    <3> QED
      BY <3>1, <3>2
  <2>5. p \in Seq(Messages)
    BY <2>2
  <2>6. r \in Requests /\ r.pc \notin Outside \cup {"begin"} /\ r.pc # "recent"
    BY <2>1, <2>3, <2>5, RequestFields DEF Requests, Pcs, Stored, Outside
  <2>7. r.turn = Turn(h) /\ r.conv = Conv(h)
    BY <2>1, <2>3 DEF Turn, Conv
  <2>8. StoreTypeOK' /\ HistoryInv'
    BY <1>2, SameStore
  <2>9. LastStored(q.conv, appended, msgs, gate.since)
    BY <1>1, <2>1 DEF ChatInv, TurnInv, TaskOk
  <2>10. TaskOk(r, appended', msgs', gate.since)
    BY <1>2, <2>2, <2>3, <2>9 DEF TaskOk, store
  <2>11. Conv(h) \in Ids
    BY <1>1, ConversationThere
  <2> QED
    BY <1>1, <1>2, <1>4, <2>4, <2>6, <2>7, <2>8, <2>10, <2>11, MoveKeepsAll
<1> QED
  BY <1>3, <1>4 DEF ModelAnswers

LEMMA StoreFailsStep ==
  ASSUME ChatInv, NEW h \in Handlers, StoreFails(h)
  PROVE  ChatInv'
<1>1. UNCHANGED <<now, store, turns, missed>>
  BY DEF StoreFails
<1>2. tasks[h].pc \in Stored \cup {"user", "user_stream"} /\ tasks[h].pc \notin Outside
  BY DEF StoreFails, At, Stored, Outside
<1>3. CASE Release(h)
  BY <1>1, <1>2, <1>3, QuietReleaseStep
<1>4. ASSUME NEW pc \in {"tool_result", "answer", "done"}, Go(h, pc), UNCHANGED server,
             tasks[h].pc \in Stored
      PROVE  ChatInv'
  <2>1. StoreTypeOK' /\ HistoryInv'
    BY <1>1, SameStore
  <2>2. LastStored(Conv(h), appended', msgs', gate.since)
    BY <1>1, <1>4 DEF ChatInv, TurnInv, TaskOk, Conv, store
  <2>3. pc \in Pcs /\ pc \notin Outside \cup {"begin"} /\ pc # "recent"
    BY DEF Pcs, Stored, Outside
  <2>4. Conv(h) \in Ids
    BY <1>4, ConversationThere
  <2> QED
    BY <1>1, <1>2, <1>4, <2>1, <2>2, <2>3, <2>4, GoKeepsAll
<1>5. \/ Release(h)
      \/ \E pc \in {"tool_result", "answer", "done"} :
           Go(h, pc) /\ UNCHANGED server /\ tasks[h].pc \in Stored
  BY DEF StoreFails, At, Stored
<1> QED
  BY <1>3, <1>4, <1>5

(* The pruner leaves the messages of the turn that runs: no turn outlasts   *)
(* TurnLimit, and nothing younger than Retention goes by age.               *)
LEMMA PruneStep ==
  ASSUME ChatInv, Prune
  PROVE  ChatInv'
<1> USE DEF ChatInv
<1>1. /\ PruneOldTurns /\ now' = now /\ turns' = turns /\ tasks' = tasks /\ holder' = holder
      /\ gate' = gate /\ current' = current /\ sessions' = sessions /\ missed' = missed
      /\ appended' = appended
  BY DEF Prune, PruneOldTurns, server
<1>2. StoreTypeOK' /\ HistoryInv'
  BY <1>1, PruneKeeps
<1>3. Waiting' = Waiting
  BY <1>1 DEF Waiting, At
<1>4. ServerInv'
  BY <1>1, <1>3 DEF ServerInv, ServerTypeOK, GateInv, RegistryInv, Turn, Conv
<1>5. ASSUME NEW h \in Handlers PROVE TaskOk(tasks[h], appended, msgs', gate.since)
  <2>1. CASE tasks[h].pc \notin Stored
    <3>1. tasks[h].pc # "recent"
      BY <2>1 DEF Stored
    <3> QED
      BY <2>1, <3>1 DEF TurnInv, TaskOk
  <2>2. CASE tasks[h].pc \in Stored
    <3>1. tasks[h].pc \notin Outside
      BY <2>2 DEF Stored, Outside
    <3>2. holder # NoHandler
      BY <3>1, OthersOutside, ServerAssumption
    <3>3. LastStored(tasks[h].conv, appended, msgs, gate.since)
      BY <2>2 DEF TurnInv, TaskOk
    <3>4. PICK c \in DOMAIN appended : c = tasks[h].conv
      BY <3>3 DEF LastStored
    <3>5. PICK a \in Seq(Messages) : a = appended[c]
      BY <3>4 DEF StoreTypeOK
    <3>6. Len(a) > 0 /\ a[Len(a)] \in msgs /\ a[Len(a)].ts >= gate.since
      BY <3>3, <3>4, <3>5 DEF LastStored
    <3>7. a[Len(a)].ts \in Nat /\ gate.since \in Nat /\ now \in Nat
      BY <3>6, MessageFields DEF StoreTypeOK, ServerInv, ServerTypeOK
    <3>8. now - gate.since <= TurnLimit /\ TurnLimit <= Retention /\ TurnLimit \in Nat /\ Retention \in Nat
      BY <3>2, StoreAssumption, ServerAssumption DEF ServerInv, GateInv
    <3>9. a[Len(a)].ts >= now - Retention
      BY <3>6, <3>7, <3>8
    <3>10. a[Len(a)] \in msgs'
      BY <1>1, <3>5, <3>6, <3>9, PruneLeavesSuffix
    <3>11. LastStored(tasks[h].conv, appended, msgs', gate.since)
      BY <3>3, <3>4, <3>5, <3>10 DEF LastStored
    <3> QED
      BY <3>11 DEF TurnInv, TaskOk
  <2> QED
    BY <2>1, <2>2
<1>6. TurnInv'
  BY <1>1, <1>5 DEF TurnInv
<1> QED
  BY <1>2, <1>4, <1>6

LEMMA TickStep ==
  ASSUME ChatInv, Tick
  PROVE  ChatInv'
<1> USE DEF ChatInv
<1>1. /\ convs' = convs /\ msgs' = msgs /\ appended' = appended /\ now' = now + 1 /\ turns' = turns
      /\ tasks' = tasks /\ gate' = gate /\ missed' = missed
  BY DEF Tick, store, server
<1>2. StoreTypeOK' /\ HistoryInv'
  BY <1>1, QuietKeeps DEF StoreTypeOK
<1>3. ServerInv'
  BY TickKeepsServer
<1>4. TurnInv'
  BY <1>1 DEF TurnInv
<1> QED
  BY <1>2, <1>3, <1>4

LEMMA RestartStep ==
  ASSUME ChatInv, Restart
  PROVE  ChatInv'
<1> USE DEF ChatInv
<1>1. StoreTypeOK' /\ HistoryInv'
  BY CreateKeeps DEF Restart
<1>2. now \in Nat
  BY DEF StoreTypeOK
<1>3. /\ tasks' = [h \in Handlers |-> NoRequest] /\ holder' = NoHandler /\ gate' = OpenGate
      /\ current' = NewId(now) /\ sessions' = {} /\ missed' = missed
  BY DEF Restart
<1>4. NoRequest.pc = "idle" /\ NoRequest.turn = 0 /\ NoRequest.prompt = <<>> /\ NoRequest.conv = NoConv
  BY DEF NoRequest
<1>5. gate' \in [waiters : Int, inFlight : BOOLEAN, since : Nat] /\ gate'.waiters = 0 /\ ~gate'.inFlight
  BY <1>3 DEF OpenGate
<1>6. IsFiniteSet({}) /\ Cardinality({}) = 0 /\ MaxSessions \in Nat
  BY FS_EmptySet, ServerAssumption
<1>7. Waiting' = {}
  BY <1>3, <1>4 DEF Waiting, At
<1>8. current' \in Ids
  BY <1>2, <1>3 DEF Ids
<1>9. ServerTypeOK'
  BY <1>3, <1>5, <1>6, <1>8, NoRequestType DEF ServerTypeOK
<1>10. GateInv'
  BY <1>3, <1>4, <1>5, <1>6, <1>7, ServerAssumption DEF GateInv, Turn, Outside
<1>11. RegistryInv'
  BY <1>3, <1>4, <1>6 DEF RegistryInv, Turn, Conv, Stored
<1>12. TurnInv'
  BY <1>3, <1>4 DEF TurnInv, TaskOk, Stored
<1> QED
  BY <1>1, <1>9, <1>10, <1>11, <1>12 DEF ServerInv

LEMMA StutterStep ==
  ASSUME ChatInv, UNCHANGED vars
  PROVE  ChatInv'
<1> USE DEF ChatInv
<1>1. /\ now' = now /\ convs' = convs /\ msgs' = msgs /\ appended' = appended /\ tasks' = tasks
      /\ holder' = holder /\ gate' = gate /\ current' = current /\ sessions' = sessions
      /\ turns' = turns /\ missed' = missed
  BY DEF vars
<1>2. Waiting' = Waiting
  BY <1>1 DEF Waiting, At
<1>3. StoreTypeOK' /\ HistoryInv'
  BY <1>1, QuietKeeps DEF StoreTypeOK
<1>4. ServerInv'
  BY <1>1, <1>2 DEF ServerInv, ServerTypeOK, GateInv, RegistryInv, Turn, Conv
<1>5. TurnInv'
  BY <1>1 DEF TurnInv
<1> QED
  BY <1>3, <1>4, <1>5

LEMMA InitInv ==
  ASSUME Init
  PROVE  ChatInv
<1>1. 0 \in Nat /\ NewId(0) \in Ids
  BY DEF Ids
<1>2. DOMAIN appended = {}
  BY DEF Init
<1>3. StoreTypeOK
  BY <1>1, <1>2, FS_EmptySet DEF Init, StoreTypeOK
<1>4. HistoryInv
  BY <1>2 DEF Init, HistoryInv
<1>5. ServerInv
  BY <1>1, FreshServer DEF Init
<1>6. NoRequest.pc \notin Stored /\ NoRequest.pc # "recent" /\ NoRequest.prompt = <<>>
  BY DEF NoRequest, Stored
<1>7. TurnInv
  BY <1>6 DEF Init, TurnInv, TaskOk
<1> QED
  BY <1>3, <1>4, <1>5, <1>7 DEF ChatInv

LEMMA NextInv ==
  ASSUME ChatInv, [Next]_vars
  PROVE  ChatInv'
<1>1. ASSUME NEW h \in Handlers, Arrive(h) PROVE ChatInv'
  BY <1>1, ArriveStep
<1>2. ASSUME NEW h \in Handlers, GateStep(h) PROVE ChatInv'
  BY <1>2, AcquireStep, BusyStep DEF GateStep
<1>3. ASSUME NEW h \in Handlers, TurnStep(h) PROVE ChatInv'
  <2>1. CASE Reject(h)
    <3>1. tasks[h].pc \notin Outside
      BY <2>1 DEF Reject, At, Outside
    <3> QED
      BY <2>1, <3>1, QuietReleaseStep DEF Reject
  <2>2. CASE Begin(h, "user") \/ Begin(h, "user_stream")
    BY <2>2, BeginStep
  <2>3. CASE Bridge(h)
    BY <2>3, BridgeStep
  <2>4. CASE StoreUser(h)
    BY <2>4, StoreUserStep
  <2>5. CASE StoreQuick(h)
    BY <2>5, StoreQuickStep
  <2>6. CASE BuildPrompt(h)
    BY <2>6, BuildPromptStep
  <2>7. CASE ModelAnswers(h)
    BY <2>7, ModelAnswersStep
  <2>8. "assistant" \in Roles /\ "system" \in Roles
    BY DEF Roles
  <2>9. CASE StoreAnswer(h)
    BY <2>8, <2>9, StoreNextStep DEF StoreAnswer
  <2>10. CASE StoreToolCall(h)
    BY <2>8, <2>10, StoreNextStep DEF StoreToolCall
  <2>11. CASE StoreToolResult(h)
    BY <2>8, <2>11, StoreNextStep DEF StoreToolResult
  <2>12. CASE Finish(h)
    <3>1. tasks[h].pc \notin Outside
      BY <2>12 DEF Finish, At, Outside
    <3> QED
      BY <2>12, <3>1, QuietReleaseStep DEF Finish
  <2>13. CASE SetCurrent(h)
    BY <2>13, SetCurrentStep
  <2> QED
    BY <1>3, <2>1, <2>2, <2>3, <2>4, <2>5, <2>6, <2>7, <2>9, <2>10, <2>11, <2>12, <2>13
       DEF TurnStep
<1>4. ASSUME NEW h \in Handlers, StoreFails(h) PROVE ChatInv'
  BY <1>4, StoreFailsStep
<1>5. ASSUME NEW h \in Handlers, Clear(h) PROVE ChatInv'
  BY <1>5, ClearStep
<1>6. CASE Prune
  BY <1>6, PruneStep
<1>7. CASE Tick
  BY <1>7, TickStep
<1>8. CASE Restart
  BY <1>8, RestartStep
<1>9. CASE UNCHANGED vars
  BY <1>9, StutterStep
<1> QED
  BY <1>1, <1>2, <1>3, <1>4, <1>5, <1>6, <1>7, <1>8, <1>9 DEF Next

(* The invariant of the chat server's reachable states. *)
LEMMA ChatInvariant == Spec => []ChatInv
<1>1. Init => ChatInv
  BY InitInv
<1>2. ChatInv /\ [Next]_vars => ChatInv'
  BY NextInv
<1> QED
  BY <1>1, <1>2, PTL DEF Spec

-----------------------------------------------------------------------------
LEMMA SeenWhenInv ==
  ASSUME ChatInv
  PROVE  RunningTurnSeen
<1> USE DEF ChatInv, ServerInv
<1>1. gate.waiters = Cardinality({h \in Handlers : At(h, "wait")})
  BY DEF GateInv, Waiting
<1>2. gate.inFlight = (\E h \in Handlers : tasks[h].turn # 0)
  <2>1. gate.inFlight <=> \E h \in Handlers : tasks[h].turn # 0
    BY ServerAssumption DEF GateInv, ServerTypeOK, Turn
  <2>2. gate.inFlight \in BOOLEAN
    BY DEF ServerTypeOK
  <2> QED
    BY <2>1, <2>2
<1>3. Cardinality(Tracked(sessions)) <= MaxSessions
  <2> DEFINE f == [s \in sessions |-> s.id]
  <2>1. f \in Surjection(sessions, Tracked(sessions))
    BY DEF Tracked, Surjection
  <2>2. IsFiniteSet(sessions) /\ Cardinality(sessions) <= MaxSessions
    BY DEF ServerTypeOK, RegistryInv
  <2> HIDE DEF f
  <2>3. IsFiniteSet(Tracked(sessions)) /\ Cardinality(Tracked(sessions)) <= Cardinality(sessions)
    BY <2>1, <2>2, FS_Surjection
  <2>4. Cardinality(sessions) \in Nat /\ Cardinality(Tracked(sessions)) \in Nat /\ MaxSessions \in Nat
    BY <2>2, <2>3, FS_CardinalityType, ServerAssumption
  <2> QED
    BY <2>2, <2>3, <2>4
<1> QED
  BY <1>1, <1>2, <1>3 DEF RunningTurnSeen, LivenessReportExact, RunningTurnTracked, RegistryInv

LEMMA PromptWhenInv ==
  ASSUME ChatInv
  PROVE  PromptEndsWithTurn
  BY DEF ChatInv, TurnInv, TaskOk, PromptOk, EndsWithUser, PromptEndsWithTurn, Turn

LEMMA WholeWhenInv ==
  ASSUME ChatInv
  PROVE  ConversationWhole
<1>1. ASSUME NEW c \in DOMAIN appended, NEW all, all = appended[c],
             NEW kept, kept = Ordered(Of(msgs, c))
      PROVE  /\ kept = SubSeq(all, Len(all) - Len(kept) + 1, Len(all))
             /\ \A i, j, k \in DOMAIN all :
                  i < j /\ j < k /\ all[i].turn = all[k].turn => all[j].turn = all[i].turn
  <2>1. all \in Seq(Messages) /\ Increasing(all) /\ Len(all) \in Nat
    BY <1>1 DEF ChatInv, StoreTypeOK, HistoryInv, IsHistory
  <2>2. PICK s \in 0..Len(all) : Of(msgs, c) = Suffix(all, s)
    BY <1>1 DEF ChatInv, HistoryInv, IsHistory
  <2>3. kept = [i \in 1..(Len(all) - s) |-> all[s + i]]
    BY <1>1, <2>1, <2>2, OrderedSuffix
  <2>4. PICK n \in Nat : n = Len(all) - s
    BY <2>1
  <2>5. Len(kept) = n /\ kept \in Seq(Messages)
    <3>1. \A i \in 1..n : all[s + i] \in Messages
      BY <2>1, <2>4
    <3>2. kept \in [1..n -> Messages]
      BY <2>3, <2>4, <3>1
    <3> QED
      BY <3>2
  <2>6. kept = SubSeq(all, Len(all) - Len(kept) + 1, Len(all))
    <3>1. Len(all) - Len(kept) + 1 = s + 1
      BY <2>1, <2>4, <2>5
    <3>2. SubSeq(all, s + 1, Len(all)) = [i \in 1..(Len(all) - s) |-> all[s + i]]
      <4>1. PICK m \in Nat : m = s + 1
        OBVIOUS
      <4>2. /\ SubSeq(all, m, Len(all)) \in Seq(Messages)
            /\ Len(SubSeq(all, m, Len(all))) = IF m <= Len(all) THEN Len(all) - m + 1 ELSE 0
            /\ \A i \in 1..(Len(all) - m + 1) : SubSeq(all, m, Len(all))[i] = all[m + i - 1]
        BY <2>1, <4>1, SubSeqProperties
      <4> QED
        BY <2>1, <4>1, <4>2
    <3> QED
      BY <2>3, <3>1, <3>2
  <2>7. ASSUME NEW i \in 1..Len(all), NEW j \in 1..Len(all), NEW k \in 1..Len(all),
               i < j, j < k, all[i].turn = all[k].turn
        PROVE  all[j].turn = all[i].turn
    <3>1. all[i].turn <= all[j].turn /\ all[j].turn <= all[k].turn
      BY <2>1, <2>7 DEF Increasing
    <3>2. all[i].turn \in Nat /\ all[j].turn \in Nat /\ all[k].turn \in Nat
      BY <2>1, MessageFields
    <3> QED
      BY <2>7, <3>1, <3>2
  <2>8. DOMAIN all = 1..Len(all)
    BY <2>1
  <2> QED
    BY <2>6, <2>7, <2>8
<1>2. StoredIsSuffix
  BY <1>1 DEF StoredIsSuffix
<1>3. NoMessageMissed
  BY DEF ChatInv, TurnInv, NoMessageMissed
<1> QED
  BY <1>2, <1>3 DEF ConversationWhole

(***************************************************************************)
(* For any number of connections, clients and sessions: /api/health counts *)
(* the waiters and names the running turn exactly, and the registry holds  *)
(* that turn's conversation within its cap (ChatTurnGate::try_acquire,     *)
(* SessionRegistry::track).                                                *)
(***************************************************************************)
THEOREM RunningTurnAlwaysSeen == Spec => []RunningTurnSeen
<1>1. ChatInv => RunningTurnSeen
  BY SeenWhenInv
<1> QED
  BY <1>1, ChatInvariant, PTL

(***************************************************************************)
(* For any history limit, cap and retention not shorter than a turn: every *)
(* prompt ends with the message of its own turn and has its turns in order *)
(* (get_recent against prune_old_turns between the two store operations).  *)
(***************************************************************************)
THEOREM PromptsAlwaysEndWithTurn == Spec => []PromptEndsWithTurn
<1>1. ChatInv => PromptEndsWithTurn
  BY PromptWhenInv
<1> QED
  BY <1>1, ChatInvariant, PTL

(***************************************************************************)
(* For any cap and retention: what a conversation keeps is the end of what *)
(* was stored in it, turn by turn, and no later message of a running turn  *)
(* loses its conversation to the pruner or to a restart                    *)
(* (ensure_and_append_batch, append, prune_old_turns).                     *)
(***************************************************************************)
THEOREM ConversationsAlwaysWhole == Spec => []ConversationWhole
<1>1. ChatInv => ConversationWhole
  BY WholeWhenInv
<1> QED
  BY <1>1, ChatInvariant, PTL
=============================================================================
