--------------------------- MODULE ToolGateProofs ---------------------------
(***************************************************************************)
(* Two-step confirmation is sound for any set of origins, tools, arguments *)
(* and any policy: an execution of a listed tool has a first leg of its    *)
(* own, within the TTL; no tool is admitted more often than its window     *)
(* says; and the ledger of executed actions agrees with its audit file,    *)
(* for any number of actions, failed appends and restarts.                 *)
(***************************************************************************)
EXTENDS ToolGateSystem, LedgerSystem, FiniteSetTheorems, TLAPS

(* An ask for k is in the log with the time of the leg, and no execution of *)
(* the same request has followed it.                                        *)
LiveAsk(k) ==
  \E i \in DOMAIN gateLog :
    /\ Asks(i) /\ gateLog[i].key = k /\ gateLog[i].at = firstSeen[k]
    /\ \A m \in (i + 1)..Len(gateLog) : ~(Runs(m) /\ gateLog[m].key = k)

(* A leg in the map belongs to a listed tool and to a live ask. *)
LegIsLive ==
  \A k \in Keys : firstSeen[k] # NoLeg => ToolRequiresConfirmation(k[2]) /\ LiveAsk(k)

IInv == TypeOK /\ LegIsLive /\ EveryRunHasItsOwnLeg

(* What each of the two legs does to the map. *)
LEMMA FirstLegEffect ==
  ASSUME GateTypeOK, NEW key \in Keys, FirstLeg(key)
  PROVE  /\ firstSeen' \in [Keys -> Nat \cup {NoLeg}]
         /\ firstSeen'[key] = now
         /\ \A k \in Keys \ {key} : firstSeen'[k] \in {firstSeen[k], NoLeg}
  BY DEF GateTypeOK, FirstLeg, Retained, NoLeg, Oldest, Legs

LEMMA ConfirmLegEffect ==
  ASSUME GateTypeOK, NEW key \in Keys, ConfirmLeg(key)
  PROVE  /\ firstSeen' \in [Keys -> Nat \cup {NoLeg}]
         /\ firstSeen'[key] = NoLeg
         /\ \A k \in Keys \ {key} : firstSeen'[k] \in {firstSeen[k], NoLeg}
  BY DEF GateTypeOK, ConfirmLeg, Retained, NoLeg

(* Popping expired admissions keeps a bucket a sequence of times. *)
LEMMA DropExpiredType ==
  ASSUME NEW b \in Seq(Nat), NEW c \in Nat
  PROVE  DropExpired(b, c) \in Seq(Nat)
<1>1. IsFiniteSet(1..Len(b))
  BY FS_Interval
<1>2. StalePrefix(b, c) \subseteq 1..Len(b)
  BY DEF StalePrefix
<1>3. Cardinality(StalePrefix(b, c)) \in Nat
  BY <1>1, <1>2, FS_Subset, FS_CardinalityType
<1> QED
  BY <1>3 DEF DropExpired

LEMMA CheckAndRecordType ==
  ASSUME NEW b \in Seq(Nat), NEW limit \in Nat, NEW t \in Nat, NEW w \in Nat
  PROVE  /\ CheckAndRecord(b, limit, t, w).bucket \in Seq(Nat)
         /\ CheckAndRecord(b, limit, t, w).ok \in BOOLEAN
<1>1. Cutoff(t, w) \in Nat
  BY DEF Cutoff
<1>2. DropExpired(b, Cutoff(t, w)) \in Seq(Nat)
  BY <1>1, DropExpiredType
<1> QED
  BY <1>2 DEF CheckAndRecord

(* The limiter touches the bucket of its own tool only. *)
LEMMA ChargeToolType ==
  ASSUME GateTypeOK, NEW tool \in Tools, NEW ok \in BOOLEAN, ChargeTool(tool, ok)
  PROVE  toolBuckets' \in [Tools -> Seq(Nat)]
<1>1. CASE ~Limited(tool)
  BY <1>1 DEF ChargeTool, GateTypeOK
<1>2. CASE Limited(tool)
  <2> DEFINE r == CheckAndRecord(toolBuckets[tool], ToolRateLimit(tool), now, Window)
  <2>1. ToolRateLimit(tool) \in Nat
    BY <1>2, GateAssumption DEF Limited, ToolRateLimit
  <2>2. toolBuckets[tool] \in Seq(Nat) /\ now \in Nat
    BY DEF GateTypeOK
  <2>3. r.bucket \in Seq(Nat)
    BY <2>1, <2>2, GateAssumption, CheckAndRecordType
  <2>4. toolBuckets' = [toolBuckets EXCEPT ![tool] = r.bucket]
    BY <1>2 DEF ChargeTool
  <2> QED BY <2>3, <2>4 DEF GateTypeOK
<1> QED BY <1>1, <1>2

(* The gate keeps its own types. *)
LEMMA RunGateType ==
  ASSUME GateTypeOK, NEW o \in Origins, NEW t \in Tools, NEW a \in Args,
         NEW c \in BOOLEAN, NEW d \in Decisions, RunGate(o, t, a, c, d)
  PROVE  /\ firstSeen' \in [Keys -> Nat \cup {NoLeg}]
         /\ toolBuckets' \in [Tools -> Seq(Nat)]
<1> DEFINE key == <<o, t, a>>
<1>0. key \in Keys
  BY DEF Keys
<1>1. CASE UNCHANGED gateVars
  BY <1>1 DEF gateVars, GateTypeOK
<1>2. CASE FirstLeg(key) /\ UNCHANGED toolBuckets
  BY <1>0, <1>2, FirstLegEffect DEF GateTypeOK
<1>3. CASE ConfirmLeg(key) /\ UNCHANGED toolBuckets
  BY <1>0, <1>3, ConfirmLegEffect DEF GateTypeOK
<1>4. CASE (\E ok \in BOOLEAN : ChargeTool(t, ok)) /\ UNCHANGED firstSeen
  BY <1>4, ChargeToolType DEF GateTypeOK
<1> QED
  BY <1>1, <1>2, <1>3, <1>4 DEF RunGate

(***************************************************************************)
(* What one call does to the legs: it may set the leg of its own key, only *)
(* when it answers pending_confirmation; a run consumes the leg of its key *)
(* and needs it in time when the tool is listed; the legs of other keys    *)
(* only disappear.                                                         *)
(***************************************************************************)
LEMMA RunGateLegs ==
  ASSUME GateTypeOK, NEW o \in Origins, NEW t \in Tools, NEW a \in Args,
         NEW c \in BOOLEAN, NEW d \in Decisions, RunGate(o, t, a, c, d),
         \A k \in Keys : firstSeen[k] # NoLeg => ToolRequiresConfirmation(k[2])
  PROVE  LET key == <<o, t, a>> IN
         /\ \A k \in Keys \ {key} : firstSeen'[k] \in {firstSeen[k], NoLeg}
         /\ \/ firstSeen'[key] \in {firstSeen[key], NoLeg}
            \/ /\ firstSeen'[key] = now
               /\ d = "pending_confirmation"
               /\ ToolRequiresConfirmation(t)
         /\ d = "run" => /\ firstSeen'[key] = NoLeg
                         /\ ToolRequiresConfirmation(t) =>
                              firstSeen[key] # NoLeg /\ now - firstSeen[key] <= ToolTtl
<1> DEFINE key == <<o, t, a>>
<1>0. key \in Keys /\ key[2] = t
  BY DEF Keys
<1>1. CASE ~ToolOriginAllowed(o, t)
  BY <1>0, <1>1 DEF RunGate, gateVars
<1>2. CASE ToolOriginAllowed(o, t) /\ ToolRequiresConfirmation(t) /\ ~c
  <2>1. FirstLeg(key) /\ d = "pending_confirmation"
    BY <1>2 DEF RunGate
  <2> QED BY <1>0, <1>2, <2>1, FirstLegEffect
<1>3. CASE ToolOriginAllowed(o, t) /\ ToolRequiresConfirmation(t) /\ c
  <2>1. ConfirmLeg(key) /\ (d = "run" => LegInTime(key))
    BY <1>3 DEF RunGate
  <2>2. LegInTime(key) => firstSeen[key] # NoLeg /\ now - firstSeen[key] <= ToolTtl
    BY <1>0 DEF LegInTime, Retained
  <2> QED BY <1>0, <2>1, <2>2, ConfirmLegEffect
<1>4. CASE ToolOriginAllowed(o, t) /\ ~ToolRequiresConfirmation(t)
  <2>1. UNCHANGED firstSeen
    BY <1>4 DEF RunGate, gateVars
  <2>2. firstSeen[key] = NoLeg
    BY <1>0, <1>4
  <2> QED BY <1>0, <1>4, <2>1, <2>2
<1> QED
  BY <1>1, <1>2, <1>3, <1>4

(* Type correctness of the gate and of its history. *)
THEOREM TypeCorrect == Spec => []TypeOK
<1>1. Init => TypeOK
  BY DEF Init, GateInit, TypeOK, GateTypeOK
<1>2. TypeOK /\ [Next]_vars => TypeOK'
  <2> SUFFICES ASSUME TypeOK, [Next]_vars PROVE TypeOK'
    OBVIOUS
  <2>1. CASE Tick
    BY <2>1 DEF Tick, TypeOK, GateTypeOK
  <2>2. ASSUME NEW o \in Origins, NEW t \in Tools, NEW a \in Args, NEW c \in ConfirmedFlags,
               NEW d \in Decisions, Call(o, t, a, c, d)
        PROVE  TypeOK'
    <3>1. c \in BOOLEAN /\ RunGate(o, t, a, c, d) /\ now' = now
      BY <2>2, SystemAssumption DEF Call
    <3>2. GateTypeOK'
      BY <3>1, RunGateType DEF TypeOK, GateTypeOK
    <3>3. gateLog' \in Seq(Event)
      BY <2>2, <3>1 DEF Call, TypeOK, GateTypeOK, Event, Keys
    <3> QED BY <3>2, <3>3 DEF TypeOK
  <2>3. CASE UNCHANGED vars
    BY <2>3 DEF vars, TypeOK, GateTypeOK
  <2> QED BY <2>1, <2>2, <2>3 DEF Next
<1> QED BY <1>1, <1>2, PTL DEF Spec

(***************************************************************************)
(* For every policy and every set of origins, tools and arguments, each    *)
(* execution of a tool in requires_confirmation_tools has a first leg of   *)
(* its own, no older than the TTL (ToolConfirmationGate::evaluate).        *)
(***************************************************************************)
THEOREM TwoStepSound == Spec => []EveryRunHasItsOwnLeg
<1>1. Init => IInv
  BY DEF Init, GateInit, IInv, TypeOK, GateTypeOK, LegIsLive, EveryRunHasItsOwnLeg
<1>2. IInv /\ TypeOK' /\ [Next]_vars => IInv'
  <2> SUFFICES ASSUME IInv, TypeOK', [Next]_vars PROVE LegIsLive' /\ EveryRunHasItsOwnLeg'
    BY DEF IInv
  <2>1. CASE Tick \/ UNCHANGED vars
    BY <2>1 DEF Tick, vars, IInv, LegIsLive, LiveAsk, EveryRunHasItsOwnLeg, Asks, Runs, ToolOf
  <2>2. ASSUME NEW o \in Origins, NEW t \in Tools, NEW a \in Args, NEW c \in ConfirmedFlags,
               NEW d \in Decisions, Call(o, t, a, c, d)
        PROVE  LegIsLive' /\ EveryRunHasItsOwnLeg'
    <3> DEFINE key == <<o, t, a>>
               n   == Len(gateLog)
    <3>1. /\ c \in BOOLEAN /\ key \in Keys /\ key[2] = t /\ n \in Nat /\ now \in Nat
          /\ gateLog \in Seq(Event) /\ GateTypeOK /\ ToolTtl \in Nat
      BY <2>2, SystemAssumption, GateAssumption DEF IInv, TypeOK, GateTypeOK, Keys
    <3>2. /\ \A k \in Keys \ {key} : firstSeen'[k] \in {firstSeen[k], NoLeg}
          /\ \/ firstSeen'[key] \in {firstSeen[key], NoLeg}
             \/ /\ firstSeen'[key] = now
                /\ d = "pending_confirmation"
                /\ ToolRequiresConfirmation(t)
          /\ d = "run" => /\ firstSeen'[key] = NoLeg
                          /\ ToolRequiresConfirmation(t) =>
                               firstSeen[key] # NoLeg /\ now - firstSeen[key] <= ToolTtl
      BY <2>2, <3>1, RunGateLegs DEF Call, IInv, LegIsLive
    <3>3. /\ Len(gateLog') = n + 1 /\ DOMAIN gateLog' = 1..(n + 1) /\ DOMAIN gateLog = 1..n
          /\ \A i \in 1..n : gateLog'[i] = gateLog[i]
          /\ gateLog'[n + 1].key = key /\ gateLog'[n + 1].at = now
          /\ gateLog'[n + 1].decision = d
      BY <2>2, <3>1 DEF Call
    <3>4. LegIsLive'
      <4> SUFFICES ASSUME NEW k \in Keys, firstSeen'[k] # NoLeg
                   PROVE  /\ ToolRequiresConfirmation(k[2])
                          /\ \E i \in 1..(n + 1) :
                               /\ gateLog'[i].decision = "pending_confirmation"
                               /\ gateLog'[i].key = k /\ gateLog'[i].at = firstSeen'[k]
                               /\ \A m \in (i + 1)..(n + 1) :
                                    ~(gateLog'[m].decision = "run" /\ gateLog'[m].key = k)
        <5>1. SUFFICES ASSUME NEW k \in Keys, firstSeen'[k] # NoLeg
                       PROVE  ToolRequiresConfirmation(k[2]) /\ LiveAsk(k)'
          BY DEF LegIsLive
        <5> QED BY <3>1, <3>3, <5>1 DEF LiveAsk, Asks, Runs
      <4>1. CASE firstSeen'[k] = firstSeen[k]
        <5>1. /\ ToolRequiresConfirmation(k[2])
              /\ \E i \in 1..n :
                   /\ gateLog[i].decision = "pending_confirmation"
                   /\ gateLog[i].key = k /\ gateLog[i].at = firstSeen[k]
                   /\ \A m \in (i + 1)..n :
                        ~(gateLog[m].decision = "run" /\ gateLog[m].key = k)
          BY <3>1, <3>3, <4>1 DEF IInv, LegIsLive, LiveAsk, Asks, Runs
        <5>2. ~(d = "run" /\ key = k)
          BY <3>2
        <5>3. PICK i \in 1..n :
                /\ gateLog[i].decision = "pending_confirmation"
                /\ gateLog[i].key = k /\ gateLog[i].at = firstSeen[k]
                /\ \A m \in (i + 1)..n :
                     ~(gateLog[m].decision = "run" /\ gateLog[m].key = k)
          BY <5>1
        <5>4. \A m \in (i + 1)..(n + 1) :
                ~(gateLog'[m].decision = "run" /\ gateLog'[m].key = k)
          BY <3>1, <3>3, <5>2, <5>3
        <5>5. i \in 1..(n + 1) /\ gateLog'[i] = gateLog[i]
          BY <3>1, <3>3
        <5> QED BY <4>1, <5>1, <5>3, <5>4, <5>5
      <4>2. CASE firstSeen'[k] # firstSeen[k]
        <5>1. k = key /\ firstSeen'[k] = now /\ d = "pending_confirmation"
              /\ ToolRequiresConfirmation(t)
          BY <3>2, <4>2
        <5> QED BY <3>1, <3>3, <5>1
      <4> QED BY <4>1, <4>2
    <3>5. EveryRunHasItsOwnLeg'
      <4> SUFFICES ASSUME NEW j \in 1..(n + 1), gateLog'[j].decision = "run",
                          ToolRequiresConfirmation(gateLog'[j].key[2])
                   PROVE  \E i \in 1..(j - 1) :
                            /\ gateLog'[i].decision = "pending_confirmation"
                            /\ gateLog'[i].key = gateLog'[j].key
                            /\ gateLog'[j].at - gateLog'[i].at <= ToolTtl
                            /\ \A m \in (i + 1)..(j - 1) :
                                 ~(gateLog'[m].decision = "run" /\ gateLog'[m].key = gateLog'[j].key)
        BY <3>1, <3>3 DEF EveryRunHasItsOwnLeg, Asks, Runs, ToolOf
      <4>1. CASE j \in 1..n
        <5>1. \E i \in 1..(j - 1) :
                /\ gateLog[i].decision = "pending_confirmation"
                /\ gateLog[i].key = gateLog[j].key
                /\ gateLog[j].at - gateLog[i].at <= ToolTtl
                /\ \A m \in (i + 1)..(j - 1) :
                     ~(gateLog[m].decision = "run" /\ gateLog[m].key = gateLog[j].key)
          BY <3>1, <3>3, <4>1 DEF IInv, EveryRunHasItsOwnLeg, Asks, Runs, ToolOf
        <5>2. \A m \in 1..j : gateLog'[m] = gateLog[m]
          BY <3>1, <3>3, <4>1
        <5>3. PICK i \in 1..(j - 1) :
                /\ gateLog[i].decision = "pending_confirmation"
                /\ gateLog[i].key = gateLog[j].key
                /\ gateLog[j].at - gateLog[i].at <= ToolTtl
                /\ \A m \in (i + 1)..(j - 1) :
                     ~(gateLog[m].decision = "run" /\ gateLog[m].key = gateLog[j].key)
          BY <5>1
        <5>4. gateLog'[i] = gateLog[i] /\ gateLog'[j] = gateLog[j]
          BY <3>1, <4>1, <5>2
        <5>5. \A m \in (i + 1)..(j - 1) :
                ~(gateLog'[m].decision = "run" /\ gateLog'[m].key = gateLog'[j].key)
          BY <3>1, <4>1, <5>2, <5>3, <5>4
        <5> QED BY <5>3, <5>4, <5>5
      <4>2. CASE j = n + 1
        <5>1. firstSeen[key] # NoLeg /\ now - firstSeen[key] <= ToolTtl
          BY <3>1, <3>2, <3>3, <4>2
        <5>2. \E i \in 1..n :
                /\ gateLog[i].decision = "pending_confirmation"
                /\ gateLog[i].key = key /\ gateLog[i].at = firstSeen[key]
                /\ \A m \in (i + 1)..n :
                     ~(gateLog[m].decision = "run" /\ gateLog[m].key = key)
          <6>1. LiveAsk(key)
            BY <3>1, <5>1 DEF IInv, LegIsLive
          <6> QED BY <3>1, <3>3, <6>1 DEF LiveAsk, Asks, Runs
        <5>3. PICK i \in 1..n :
                /\ gateLog[i].decision = "pending_confirmation"
                /\ gateLog[i].key = key /\ gateLog[i].at = firstSeen[key]
                /\ \A m \in (i + 1)..n :
                     ~(gateLog[m].decision = "run" /\ gateLog[m].key = key)
          BY <5>2
        <5>4. \A m \in 1..n : gateLog'[m] = gateLog[m]
          BY <3>3
        <5>5. gateLog'[j].key = key /\ gateLog'[j].at = now /\ j - 1 = n
          BY <3>1, <3>3, <4>2
        <5>6. \A m \in (i + 1)..(j - 1) :
                ~(gateLog'[m].decision = "run" /\ gateLog'[m].key = gateLog'[j].key)
          BY <3>1, <5>3, <5>4, <5>5
        <5> QED BY <5>1, <5>3, <5>4, <5>5, <5>6
      <4> QED BY <4>1, <4>2
    <3> QED BY <3>4, <3>5
  <2> QED BY <2>1, <2>2 DEF Next
<1>3. IInv => EveryRunHasItsOwnLeg
  BY DEF IInv
<1> QED BY <1>1, <1>2, <1>3, TypeCorrect, PTL DEF Spec

-----------------------------------------------------------------------------
(***************************************************************************)
(* The rate limit.  The property counts the log, the limiter its buckets:  *)
(* the invariant is that from any time a window ago on, the bucket holds   *)
(* as many admissions as the log, and that each admission found fewer      *)
(* than the limit in the window before it.                                 *)
(***************************************************************************)

(* The events of a log that took a slot of the tool's window. *)
Admitted(log, tool) ==
  {i \in 1..Len(log) : log[i].decision = "run" /\ ~log[i].confirmed /\ log[i].key[2] = tool}

AdmittedSince(log, tool, c) == {i \in Admitted(log, tool) : log[i].at >= c}

HeldSince(bucket, c) == {p \in 1..Len(bucket) : bucket[p] >= c}

(* The admissions within the window before one. *)
WindowBefore(log, tool, i) ==
  {j \in Admitted(log, tool) : j < i /\ log[j].at + Window >= log[i].at}

BucketsCount ==
  \A tool \in Tools : Limited(tool) => \A c \in Nat : c >= Cutoff(now, Window) =>
    Cardinality(AdmittedSince(gateLog, tool, c)) <= Cardinality(HeldSince(toolBuckets[tool], c))

AdmittedWithinLimit ==
  \A tool \in Tools : Limited(tool) => \A i \in Admitted(gateLog, tool) :
    Cardinality(WindowBefore(gateLog, tool, i)) < ToolRateLimit(tool)

WInv == TypeOK /\ BucketsCount /\ AdmittedWithinLimit

(* Subsets of the indices of a sequence are finite. *)
LEMMA IndicesFinite ==
  ASSUME NEW n \in Nat, NEW S, S \subseteq 1..n
  PROVE  IsFiniteSet(S) /\ Cardinality(S) \in Nat /\ Cardinality(S) <= n
<1>1. IsFiniteSet(1..n) /\ Cardinality(1..n) = n
  <2>1. IsFiniteSet(1..n) /\ Cardinality(1..n) = IF 1 > n THEN 0 ELSE n - 1 + 1
    BY FS_Interval
  <2> QED
    BY <2>1
<1>2. S \in SUBSET (1..n)
  OBVIOUS
<1> QED
  BY <1>1, <1>2, FS_Subset, FS_CardinalityType

(* The expired admissions are the first ones. *)
LEMMA StaleAreFirst ==
  ASSUME NEW b \in Seq(Nat), NEW cut \in Nat, NEW k, k = Cardinality(StalePrefix(b, cut))
  PROVE  /\ k \in Nat /\ k <= Len(b)
         /\ \A p \in 1..Len(b) : p <= k => b[p] < cut
<1> DEFINE S == StalePrefix(b, cut)
<1>1. S \subseteq 1..Len(b) /\ Len(b) \in Nat
  BY DEF StalePrefix
<1>2. k \in Nat /\ k <= Len(b)
  BY <1>1, IndicesFinite
<1>3. ASSUME NEW p \in 1..Len(b), p <= k, ~(b[p] < cut) PROVE FALSE
  <2>1. S \subseteq 1..(p - 1)
    BY <1>3 DEF StalePrefix
  <2>2. p - 1 \in Nat
    OBVIOUS
  <2>3. Cardinality(S) <= p - 1
    BY <2>1, <2>2, IndicesFinite
  <2> QED
    BY <1>2, <1>3, <2>3
<1> QED
  BY <1>2, <1>3

(* Dropping what expired before the cutoff loses nothing since. *)
LEMMA DropKeepsSince ==
  ASSUME NEW b \in Seq(Nat), NEW cut \in Nat, NEW c \in Nat, c >= cut,
         NEW live, live = DropExpired(b, cut)
  PROVE  Cardinality(HeldSince(b, c)) <= Cardinality(HeldSince(live, c))
<1> DEFINE k == Cardinality(StalePrefix(b, cut))
           f == [p \in HeldSince(b, c) |-> p - k]
<1>1. /\ k \in Nat /\ k <= Len(b) /\ Len(b) \in Nat
      /\ \A p \in 1..Len(b) : p <= k => b[p] < cut
  BY StaleAreFirst
<1>2. live = SubSeq(b, k + 1, Len(b))
  BY DEF DropExpired
<1> HIDE DEF k
<1>3. /\ Len(live) = Len(b) - k
      /\ \A i \in 1..(Len(b) - k) : live[i] = b[i + k]
  BY <1>1, <1>2
<1>4. ASSUME NEW p \in HeldSince(b, c)
      PROVE  p - k \in HeldSince(live, c)
  <2>1. p \in 1..Len(b) /\ b[p] >= c /\ b[p] \in Nat
    BY <1>4 DEF HeldSince
  <2>2. p > k
    BY <1>1, <2>1
  <2>3. p - k \in 1..(Len(b) - k) /\ (p - k) + k = p
    BY <1>1, <2>1, <2>2
  <2>4. live[p - k] = b[p]
    BY <1>3, <2>3
  <2> QED
    BY <1>3, <2>1, <2>3, <2>4 DEF HeldSince
<1>5. f \in Injection(HeldSince(b, c), HeldSince(live, c))
  <2>1. f \in [HeldSince(b, c) -> HeldSince(live, c)]
    BY <1>4
  <2>2. ASSUME NEW p \in HeldSince(b, c), NEW q \in HeldSince(b, c), f[p] = f[q] PROVE p = q
    BY <1>1, <2>2 DEF HeldSince
  <2> QED
    BY <2>1, <2>2 DEF Injection, IsInjective
<1>6. IsFiniteSet(HeldSince(live, c))
  <2>1. HeldSince(live, c) \subseteq 1..Len(live) /\ Len(live) \in Nat
    BY <1>1, <1>3 DEF HeldSince
  <2> QED
    BY <2>1, IndicesFinite
<1> QED
  BY <1>5, <1>6, FS_Injection

(* What is held since the cutoff is no more than what is left. *)
LEMMA HeldWithinBucket ==
  ASSUME NEW b \in Seq(Nat), NEW c \in Nat
  PROVE  Cardinality(HeldSince(b, c)) \in Nat /\ Cardinality(HeldSince(b, c)) <= Len(b)
  BY IndicesFinite DEF HeldSince

(* An admission is held from its own time on. *)
LEMMA AppendIsHeld ==
  ASSUME NEW b \in Seq(Nat), NEW t \in Nat, NEW c \in Nat
  PROVE  Cardinality(HeldSince(Append(b, t), c)) =
           Cardinality(HeldSince(b, c)) + (IF t >= c THEN 1 ELSE 0)
<1> DEFINE n == Len(b)
<1>1. /\ n \in Nat /\ Len(Append(b, t)) = n + 1 /\ Append(b, t)[n + 1] = t
      /\ \A p \in 1..n : Append(b, t)[p] = b[p]
  OBVIOUS
<1>2. HeldSince(b, c) \subseteq 1..n
  BY DEF HeldSince
<1>3. IsFiniteSet(HeldSince(b, c)) /\ n + 1 \notin HeldSince(b, c)
      /\ Cardinality(HeldSince(b, c)) \in Nat
  BY <1>1, <1>2, IndicesFinite
<1>4. HeldSince(Append(b, t), c) = IF t >= c THEN HeldSince(b, c) \cup {n + 1} ELSE HeldSince(b, c)
  BY <1>1 DEF HeldSince
<1>5. CASE t >= c
  BY <1>3, <1>4, <1>5, FS_AddElement
<1>6. CASE ~(t >= c)
  BY <1>3, <1>4, <1>6
<1> QED
  BY <1>5, <1>6

LEMMA AdmittedFinite ==
  ASSUME NEW log \in Seq(Event), NEW tool, NEW S, S \subseteq Admitted(log, tool)
  PROVE  IsFiniteSet(S) /\ Cardinality(S) \in Nat
<1>1. S \subseteq 1..Len(log) /\ Len(log) \in Nat
  BY DEF Admitted
<1> QED
  BY <1>1, IndicesFinite

(* What Append returns. *)
LEMMA AppendFacts ==
  ASSUME NEW S, NEW log \in Seq(S), NEW e \in S
  PROVE  /\ Append(log, e) \in Seq(S) /\ Len(Append(log, e)) = Len(log) + 1
         /\ Append(log, e)[Len(log) + 1] = e
         /\ \A i \in 1..Len(log) : Append(log, e)[i] = log[i]
  OBVIOUS

(* What the limiter does to the bucket of a limited tool. *)
LEMMA ChargeCounts ==
  ASSUME TypeOK, NEW tool \in Tools, Limited(tool), NEW ok \in BOOLEAN, ChargeTool(tool, ok),
         NEW b, b = toolBuckets[tool], NEW after, after = toolBuckets'[tool]
  PROVE  /\ \A c \in Nat : c >= Cutoff(now, Window) =>
              Cardinality(HeldSince(b, c)) + (IF ok /\ now >= c THEN 1 ELSE 0)
                <= Cardinality(HeldSince(after, c))
         /\ ok => Cardinality(HeldSince(b, Cutoff(now, Window))) < ToolRateLimit(tool)
         /\ \A other \in Tools \ {tool} : toolBuckets'[other] = toolBuckets[other]
<1> DEFINE cut == Cutoff(now, Window)
           limit == ToolRateLimit(tool)
           live == DropExpired(b, cut)
           r == CheckAndRecord(b, limit, now, Window)
<1>1. limit \in Nat
  BY GateAssumption DEF Limited, ToolRateLimit
<1>2. b \in Seq(Nat) /\ now \in Nat /\ cut \in Nat
  BY GateAssumption DEF TypeOK, GateTypeOK, Cutoff
<1>3. live \in Seq(Nat)
  BY <1>2, DropExpiredType
<1>4. ok = r.ok /\ toolBuckets' = [toolBuckets EXCEPT ![tool] = r.bucket]
  BY DEF ChargeTool
<1>5. after = r.bucket /\ \A other \in Tools \ {tool} : toolBuckets'[other] = toolBuckets[other]
  BY <1>4 DEF TypeOK, GateTypeOK
<1>6. /\ limit = 0 => ~ok /\ after = b
      /\ limit # 0 /\ Len(live) >= limit => ~ok /\ after = live
      /\ limit # 0 /\ ~(Len(live) >= limit) => ok /\ after = Append(live, now)
  BY <1>4, <1>5 DEF CheckAndRecord
<1> HIDE DEF r, limit, live, cut
<1>7. ASSUME NEW c \in Nat, c >= cut
      PROVE  Cardinality(HeldSince(b, c)) + (IF ok /\ now >= c THEN 1 ELSE 0)
               <= Cardinality(HeldSince(after, c))
  <2>1. Cardinality(HeldSince(b, c)) <= Cardinality(HeldSince(live, c))
    BY <1>2, <1>7, DropKeepsSince DEF live
  <2>2. Cardinality(HeldSince(b, c)) \in Nat /\ Cardinality(HeldSince(live, c)) \in Nat
    BY <1>2, <1>3, HeldWithinBucket
  <2>3. Cardinality(HeldSince(Append(live, now), c)) =
          Cardinality(HeldSince(live, c)) + (IF now >= c THEN 1 ELSE 0)
    BY <1>2, <1>3, AppendIsHeld
  <2>4. CASE limit = 0
    BY <1>6, <2>2, <2>4
  <2>5. CASE limit # 0 /\ Len(live) >= limit
    BY <1>6, <2>1, <2>2, <2>5
  <2>6. CASE limit # 0 /\ ~(Len(live) >= limit)
    <3>1. after = Append(live, now)
      BY <1>6, <2>6
    <3>2. CASE now >= c
      BY <2>1, <2>2, <2>3, <3>1, <3>2
    <3>3. CASE ~(now >= c)
      BY <2>1, <2>2, <2>3, <3>1, <3>3
    <3> QED
      BY <3>2, <3>3
  <2> QED
    BY <2>4, <2>5, <2>6
<1>8. ASSUME ok PROVE Cardinality(HeldSince(b, cut)) < limit
  <2>1. Cardinality(HeldSince(b, cut)) <= Cardinality(HeldSince(live, cut))
    BY <1>2, DropKeepsSince DEF live
  <2>2. /\ Cardinality(HeldSince(b, cut)) \in Nat /\ Cardinality(HeldSince(live, cut)) \in Nat
        /\ Cardinality(HeldSince(live, cut)) <= Len(live)
    BY <1>2, <1>3, HeldWithinBucket
  <2>3. Len(live) < limit /\ Len(live) \in Nat
    BY <1>1, <1>3, <1>6, <1>8
  <2> QED
    BY <1>1, <2>1, <2>2, <2>3
<1> QED
  BY <1>5, <1>7, <1>8 DEF cut, limit

(* An unconfirmed call runs only when the limiter admits it, and what the   *)
(* limiter does not admit is not an admission in the log.                   *)
LEMMA CallCounts ==
  ASSUME TypeOK, NEW o \in Origins, NEW t \in Tools, NEW a \in Args, NEW c \in BOOLEAN,
         NEW d \in Decisions, RunGate(o, t, a, c, d), NEW tool \in Tools, Limited(tool),
         NEW b, b = toolBuckets[tool], NEW after, after = toolBuckets'[tool],
         NEW admits \in BOOLEAN, admits <=> (d = "run" /\ ~c /\ t = tool)
  PROVE  /\ \A k \in Nat : k >= Cutoff(now, Window) =>
              Cardinality(HeldSince(b, k)) + (IF admits /\ now >= k THEN 1 ELSE 0)
                <= Cardinality(HeldSince(after, k))
         /\ admits => Cardinality(HeldSince(b, Cutoff(now, Window))) < ToolRateLimit(tool)
<1>1. \/ UNCHANGED toolBuckets /\ ~(d = "run" /\ ~c)
      \/ ~c /\ \E ok \in BOOLEAN : ChargeTool(t, ok) /\ d = IF ok THEN "run" ELSE "rate_limited"
  BY DEF RunGate, gateVars
<1>2. b \in Seq(Nat) /\ now \in Nat
  BY DEF TypeOK, GateTypeOK
<1>3. CASE after = b /\ ~admits
  <2>1. \A k \in Nat : Cardinality(HeldSince(b, k)) \in Nat
    BY <1>2, HeldWithinBucket
  <2> QED
    BY <1>3, <2>1
<1>4. CASE ~c /\ \E ok \in BOOLEAN : ChargeTool(t, ok) /\ d = IF ok THEN "run" ELSE "rate_limited"
  <2>1. PICK ok \in BOOLEAN : ChargeTool(t, ok) /\ d = IF ok THEN "run" ELSE "rate_limited"
    BY <1>4
  <2>2. CASE t = tool
    <3>1. admits = ok
      BY <1>4, <2>1, <2>2
    <3> QED
      BY <2>1, <2>2, <3>1, ChargeCounts
  <2>3. CASE t # tool
    <3>1. ~admits
      BY <2>3
    <3>2. after = b
      <4>1. CASE Limited(t)
        <5>1. \A other \in Tools \ {t} : toolBuckets'[other] = toolBuckets[other]
          BY <2>1, <4>1, ChargeCounts
        <5> QED
          BY <2>3, <5>1
      <4>2. CASE ~Limited(t)
        BY <2>1, <4>2 DEF ChargeTool
      <4> QED
        BY <4>1, <4>2
    <3> QED
      BY <1>3, <3>1, <3>2
  <2> QED
    BY <2>2, <2>3
<1> QED
  BY <1>1, <1>3, <1>4

(* A call keeps both counts. *)
LEMMA CallKeepsWindow ==
  ASSUME WInv, NEW o \in Origins, NEW t \in Tools, NEW a \in Args, NEW c \in ConfirmedFlags,
         NEW d \in Decisions, Call(o, t, a, c, d)
  PROVE  BucketsCount' /\ AdmittedWithinLimit'
<1>1. PICK e : e = [key |-> <<o, t, a>>, at |-> now, confirmed |-> c, decision |-> d,
                    charged |-> /\ d \in {"run", "pending_confirmation"}
                                /\ toolBuckets' # toolBuckets]
  OBVIOUS
<1>2. /\ TypeOK /\ c \in BOOLEAN /\ RunGate(o, t, a, c, d) /\ now' = now /\ now \in Nat
      /\ gateLog' = Append(gateLog, e) /\ gateLog \in Seq(Event) /\ Window \in Nat
  BY <1>1, SystemAssumption, GateAssumption DEF Call, WInv, TypeOK, GateTypeOK
<1>3. e \in Event /\ e.decision = d /\ e.confirmed = c /\ e.key[2] = t /\ e.at = now
  BY <1>1, <1>2 DEF Event, Keys
<1>4. PICK log, more, n : log = gateLog /\ more = gateLog' /\ n = Len(gateLog)
  OBVIOUS
<1>5. PICK cut : cut = Cutoff(now, Window)
  OBVIOUS
<1> SUFFICES ASSUME NEW tool \in Tools, Limited(tool)
             PROVE  /\ \A k \in Nat : k >= cut =>
                         Cardinality(AdmittedSince(more, tool, k))
                           <= Cardinality(HeldSince(toolBuckets'[tool], k))
                    /\ \A i \in Admitted(more, tool) :
                         Cardinality(WindowBefore(more, tool, i)) < ToolRateLimit(tool)
  BY <1>2, <1>4, <1>5 DEF BucketsCount, AdmittedWithinLimit
<1>6. PICK admits \in BOOLEAN : admits <=> (d = "run" /\ ~c /\ t = tool)
  OBVIOUS
<1>7. PICK b, after : b = toolBuckets[tool] /\ after = toolBuckets'[tool]
  OBVIOUS
<1>8. /\ \A k \in Nat : k >= cut =>
           Cardinality(HeldSince(b, k)) + (IF admits /\ now >= k THEN 1 ELSE 0)
             <= Cardinality(HeldSince(after, k))
      /\ admits => Cardinality(HeldSince(b, cut)) < ToolRateLimit(tool)
  <2>1. /\ TypeOK /\ c \in BOOLEAN /\ RunGate(o, t, a, c, d)
        /\ b = toolBuckets[tool] /\ after = toolBuckets'[tool]
        /\ admits <=> (d = "run" /\ ~c /\ t = tool)
    BY <1>2, <1>6, <1>7
  <2>2. /\ \A k \in Nat : k >= Cutoff(now, Window) =>
             Cardinality(HeldSince(b, k)) + (IF admits /\ now >= k THEN 1 ELSE 0)
               <= Cardinality(HeldSince(after, k))
        /\ admits => Cardinality(HeldSince(b, Cutoff(now, Window))) < ToolRateLimit(tool)
    BY <2>1, CallCounts
  <2> QED
    BY <1>5, <2>2
<1>9. /\ n \in Nat /\ Admitted(log, tool) \subseteq 1..n
      /\ Admitted(more, tool) = IF admits THEN Admitted(log, tool) \cup {n + 1} ELSE Admitted(log, tool)
      /\ \A i \in 1..n : more[i] = log[i]
      /\ more[n + 1] = e
  <2>1. /\ log \in Seq(Event) /\ more \in Seq(Event) /\ n = Len(log) /\ Len(more) = n + 1
        /\ more[n + 1] = e /\ \A i \in 1..n : more[i] = log[i]
    <3>1. log \in Seq(Event) /\ e \in Event /\ more = Append(log, e) /\ n = Len(log)
      BY <1>2, <1>3, <1>4
    <3> QED
      BY <3>1, AppendFacts
  <2>2. admits <=> (e.decision = "run" /\ ~e.confirmed /\ e.key[2] = tool)
    BY <1>3, <1>6
  <2>3. /\ n \in Nat
        /\ Admitted(log, tool) \subseteq 1..n
        /\ admits => Admitted(more, tool) = Admitted(log, tool) \cup {n + 1}
        /\ ~admits => Admitted(more, tool) = Admitted(log, tool)
    <3>1. 1..(n + 1) = (1..n) \cup {n + 1} /\ n \in Nat
      BY <2>1
    <3>2. Admitted(log, tool) \subseteq 1..n
      BY <2>1 DEF Admitted
    <3>3. \A i : i \in Admitted(more, tool)
                  <=> i \in Admitted(log, tool) \/ (admits /\ i = n + 1)
      BY <2>1, <2>2, <3>1 DEF Admitted
    <3> QED
      BY <3>1, <3>2, <3>3
  <2> QED
    BY <2>1, <2>3
<1>10. /\ \A k \in Nat : k >= cut =>
            Cardinality(AdmittedSince(log, tool, k)) <= Cardinality(HeldSince(b, k))
       /\ \A i \in Admitted(log, tool) :
            Cardinality(WindowBefore(log, tool, i)) < ToolRateLimit(tool)
  BY <1>4, <1>5, <1>7 DEF WInv, BucketsCount, AdmittedWithinLimit
<1>11. b \in Seq(Nat) /\ cut \in Nat /\ ToolRateLimit(tool) \in Nat
  BY <1>2, <1>5, <1>7, GateAssumption DEF TypeOK, GateTypeOK, Cutoff, Limited, ToolRateLimit
<1>12. log \in Seq(Event) /\ more \in Seq(Event)
  BY <1>2, <1>3, <1>4
<1>13. ASSUME NEW k \in Nat, k >= cut
       PROVE  Cardinality(AdmittedSince(more, tool, k)) <= Cardinality(HeldSince(after, k))
  <2>1. AdmittedSince(more, tool, k) = IF admits /\ now >= k
                                       THEN AdmittedSince(log, tool, k) \cup {n + 1}
                                       ELSE AdmittedSince(log, tool, k)
    <3>1. \A i \in Admitted(log, tool) : more[i] = log[i]
      BY <1>9
    <3>2. more[n + 1].at = now
      BY <1>3, <1>9
    <3> QED
      BY <1>9, <3>1, <3>2 DEF AdmittedSince
  <2>2. /\ IsFiniteSet(AdmittedSince(log, tool, k)) /\ Cardinality(AdmittedSince(log, tool, k)) \in Nat
        /\ n + 1 \notin AdmittedSince(log, tool, k)
    <3>1. AdmittedSince(log, tool, k) \subseteq Admitted(log, tool)
      BY DEF AdmittedSince
    <3> QED
      BY <1>9, <1>12, <3>1, AdmittedFinite
  <2>3. Cardinality(AdmittedSince(more, tool, k)) =
          Cardinality(AdmittedSince(log, tool, k)) + (IF admits /\ now >= k THEN 1 ELSE 0)
    <3>1. CASE admits /\ now >= k
      BY <2>1, <2>2, <3>1, FS_AddElement
    <3>2. CASE ~(admits /\ now >= k)
      BY <2>1, <2>2, <3>2
    <3> QED
      BY <3>1, <3>2
  <2>4. /\ Cardinality(AdmittedSince(log, tool, k)) <= Cardinality(HeldSince(b, k))
        /\ Cardinality(HeldSince(b, k)) + (IF admits /\ now >= k THEN 1 ELSE 0)
             <= Cardinality(HeldSince(after, k))
        /\ Cardinality(HeldSince(b, k)) \in Nat
    BY <1>8, <1>10, <1>11, <1>13, HeldWithinBucket
  <2>5. Cardinality(HeldSince(after, k)) \in Nat
    <3>1. after \in Seq(Nat)
      BY <1>2, <1>7, RunGateType DEF TypeOK
    <3> QED
      BY <3>1, HeldWithinBucket
  <2>6. CASE admits /\ now >= k
    BY <2>2, <2>3, <2>4, <2>5, <2>6
  <2>7. CASE ~(admits /\ now >= k)
    BY <2>2, <2>3, <2>4, <2>5, <2>7
  <2> QED
    BY <2>6, <2>7
<1>14. ASSUME NEW i \in Admitted(more, tool)
       PROVE  Cardinality(WindowBefore(more, tool, i)) < ToolRateLimit(tool)
  <2>1. CASE i \in Admitted(log, tool)
    <3>1. i \in 1..n
      BY <1>9, <2>1
    <3>2. WindowBefore(more, tool, i) = WindowBefore(log, tool, i)
      BY <1>9, <3>1 DEF WindowBefore
    <3> QED
      BY <1>10, <2>1, <3>2
  <2>2. CASE i \notin Admitted(log, tool)
    <3>1. admits /\ i = n + 1
      BY <1>9, <1>14, <2>2
    <3>2. WindowBefore(more, tool, i) \subseteq AdmittedSince(log, tool, cut)
      <4> SUFFICES ASSUME NEW j \in WindowBefore(more, tool, i)
                   PROVE  j \in AdmittedSince(log, tool, cut)
        OBVIOUS
      <4>1. j \in Admitted(more, tool) /\ j < i /\ more[j].at + Window >= more[i].at
        BY DEF WindowBefore
      <4>2. j \in Admitted(log, tool) /\ j \in 1..n
        BY <1>9, <3>1, <4>1
      <4>3. more[j] = log[j] /\ more[i].at = now /\ log[j] \in Event
        BY <1>3, <1>4, <1>9, <1>12, <3>1, <4>2
      <4>4. log[j].at \in Nat /\ log[j].at + Window >= now
        BY <4>1, <4>3 DEF Event
      <4>5. log[j].at >= cut
        BY <1>2, <1>5, <4>4 DEF Cutoff
      <4> QED
        BY <4>2, <4>5 DEF AdmittedSince
    <3>3. AdmittedSince(log, tool, cut) \subseteq Admitted(log, tool)
      BY DEF AdmittedSince
    <3>4. /\ IsFiniteSet(AdmittedSince(log, tool, cut))
          /\ Cardinality(AdmittedSince(log, tool, cut)) \in Nat
      BY <1>12, <3>3, AdmittedFinite
    <3>5. /\ IsFiniteSet(WindowBefore(more, tool, i)) /\ Cardinality(WindowBefore(more, tool, i)) \in Nat
          /\ Cardinality(WindowBefore(more, tool, i)) <= Cardinality(AdmittedSince(log, tool, cut))
      BY <3>2, <3>4, FS_Subset, FS_CardinalityType
    <3>6. /\ Cardinality(AdmittedSince(log, tool, cut)) <= Cardinality(HeldSince(b, cut))
          /\ Cardinality(HeldSince(b, cut)) < ToolRateLimit(tool)
          /\ Cardinality(HeldSince(b, cut)) \in Nat
      BY <1>8, <1>10, <1>11, <3>1, HeldWithinBucket
    <3> QED
      BY <1>11, <3>4, <3>5, <3>6
  <2> QED
    BY <2>1, <2>2
<1> QED
  BY <1>7, <1>13, <1>14

LEMMA LargestOf ==
  ASSUME NEW n \in Nat, NEW S, S \subseteq 1..n, S # {}
  PROVE  \E i \in S : \A j \in S : j <= i
<1> DEFINE T == {n - i : i \in S}
<1>1. T \subseteq Nat /\ T # {}
  <2>1. \A i \in S : n - i \in Nat
    OBVIOUS
  <2>2. PICK i \in S : TRUE
    OBVIOUS
  <2>3. n - i \in T
    OBVIOUS
  <2> QED
    BY <2>1, <2>3
<1>2. \E x \in T : \A y \in T : ~(<<y, x>> \in OpToRel(<, Nat))
  BY <1>1, WFMin, NatLessThanWellFounded, Zenon
<1>3. PICK x \in T : \A y \in T : ~(y < x)
  BY <1>1, <1>2 DEF OpToRel
<1>4. PICK i \in S : x = n - i
  BY <1>3
<1>5. ASSUME NEW j \in S PROVE j <= i
  <2>1. n - j \in T
    BY <1>5
  <2>2. ~(n - j < n - i)
    BY <1>3, <1>4, <2>1
  <2>3. i \in 1..n /\ j \in 1..n
    BY <1>4, <1>5
  <2> HIDE DEF T
  <2> QED
    BY <2>2, <2>3
<1> QED
  BY <1>5

(* In any interval the last admission found the others in its window. *)
LEMMA CountsBoundWindow == WInv => WindowNeverExceeded
<1> SUFFICES ASSUME WInv, NEW tool \in Tools, Limited(tool), NEW t \in 0..now
             PROVE  Cardinality({i \in DOMAIN gateLog :
                       /\ Runs(i) /\ ~gateLog[i].confirmed /\ ToolOf(i) = tool
                       /\ gateLog[i].at \in t..(t + Window)}) <= ToolRateLimit(tool)
  BY DEF WindowNeverExceeded
<1> DEFINE S == {i \in DOMAIN gateLog :
                   /\ Runs(i) /\ ~gateLog[i].confirmed /\ ToolOf(i) = tool
                   /\ gateLog[i].at \in t..(t + Window)}
           n == Len(gateLog)
<1>1. gateLog \in Seq(Event) /\ n \in Nat /\ now \in Nat /\ Window \in Nat
      /\ ToolRateLimit(tool) \in Nat
  BY GateAssumption DEF WInv, TypeOK, GateTypeOK, Limited, ToolRateLimit
<1>2. S \subseteq Admitted(gateLog, tool)
  BY <1>1 DEF Admitted, Runs, ToolOf
<1>3. Admitted(gateLog, tool) \subseteq 1..n
  BY DEF Admitted
<1>4. IsFiniteSet(S) /\ Cardinality(S) \in Nat
  BY <1>1, <1>2, AdmittedFinite
<1>5. CASE S = {}
  <2>1. Cardinality(S) = 0
    BY <1>5, FS_EmptySet
  <2> QED
    BY <1>1, <2>1
<1>6. CASE S # {}
  <2>1. PICK i \in S : \A j \in S : j <= i
    <3>1. S \subseteq 1..n
      BY <1>2, <1>3
    <3> HIDE DEF S, n
    <3> QED
      BY <1>1, <1>6, <3>1, LargestOf
  <2>2. S \ {i} \subseteq WindowBefore(gateLog, tool, i)
    <3> SUFFICES ASSUME NEW j \in S, j # i PROVE j \in WindowBefore(gateLog, tool, i)
      OBVIOUS
    <3>1. j \in 1..n /\ i \in 1..n /\ j \in Admitted(gateLog, tool)
      BY <1>2, <1>3
    <3>2. gateLog[i].at \in t..(t + Window) /\ gateLog[j].at \in t..(t + Window)
      OBVIOUS
    <3>3. j < i
      BY <1>1, <2>1, <3>1
    <3>4. gateLog[j].at + Window >= gateLog[i].at
      BY <1>1, <3>2
    <3> QED
      BY <3>1, <3>3, <3>4 DEF WindowBefore
  <2>3. Cardinality(WindowBefore(gateLog, tool, i)) < ToolRateLimit(tool)
    BY <1>2 DEF WInv, AdmittedWithinLimit
  <2>4. IsFiniteSet(WindowBefore(gateLog, tool, i)) /\ Cardinality(WindowBefore(gateLog, tool, i)) \in Nat
    <3>1. WindowBefore(gateLog, tool, i) \subseteq Admitted(gateLog, tool)
      BY DEF WindowBefore
    <3> QED
      BY <1>1, <3>1, AdmittedFinite
  <2> HIDE DEF S
  <2>5. Cardinality(S \ {i}) <= Cardinality(WindowBefore(gateLog, tool, i))
    BY <2>2, <2>4, FS_Subset
  <2>6. Cardinality(S \ {i}) = Cardinality(S) - 1
    BY <1>4, FS_RemoveElement
  <2> QED
    BY <1>1, <1>4, <2>3, <2>4, <2>5, <2>6 DEF S
<1> QED
  BY <1>5, <1>6

(***************************************************************************)
(* However calls are timed and whatever the limits are, no closed interval *)
(* as long as the window sees more admissions of a tool than its limit     *)
(* (ToolRateLimiter::check_and_record, the cutoff of the pops included).   *)
(***************************************************************************)
THEOREM WindowIsNeverExceeded == Spec => []WindowNeverExceeded
<1>1. Init => WInv
  <2> SUFFICES ASSUME Init PROVE WInv
    OBVIOUS
  <2>1. \A tool : Admitted(gateLog, tool) = {}
    BY DEF Init, Admitted
  <2>2. TypeOK
    BY DEF Init, GateInit, TypeOK, GateTypeOK
  <2>3. ASSUME NEW tool \in Tools, NEW c \in Nat
        PROVE  Cardinality(AdmittedSince(gateLog, tool, c)) <= Cardinality(HeldSince(toolBuckets[tool], c))
    <3>1. AdmittedSince(gateLog, tool, c) = {}
      BY <2>1 DEF AdmittedSince
    <3>2. Cardinality(HeldSince(toolBuckets[tool], c)) \in Nat
      BY <2>2, HeldWithinBucket DEF TypeOK, GateTypeOK
    <3> QED
      BY <3>1, <3>2, FS_EmptySet
  <2> QED
    BY <2>1, <2>2, <2>3 DEF WInv, BucketsCount, AdmittedWithinLimit
<1>2. WInv /\ TypeOK' /\ [Next]_vars => WInv'
  <2> SUFFICES ASSUME WInv, TypeOK', [Next]_vars PROVE BucketsCount' /\ AdmittedWithinLimit'
    BY DEF WInv
  <2>1. CASE Tick
    <3>1. Cutoff(now', Window) >= Cutoff(now, Window) /\ Cutoff(now, Window) \in Nat
          /\ Cutoff(now', Window) \in Nat
      BY <2>1, GateAssumption DEF Tick, Cutoff, WInv, TypeOK, GateTypeOK
    <3>2. BucketsCount'
      BY <2>1, <3>1 DEF Tick, WInv, BucketsCount
    <3>3. AdmittedWithinLimit'
      BY <2>1 DEF Tick, WInv, AdmittedWithinLimit
    <3> QED
      BY <3>2, <3>3
  <2>2. ASSUME NEW o \in Origins, NEW t \in Tools, NEW a \in Args, NEW c \in ConfirmedFlags,
               NEW d \in Decisions, Call(o, t, a, c, d)
        PROVE  BucketsCount' /\ AdmittedWithinLimit'
    BY <2>2, CallKeepsWindow
  <2>3. CASE UNCHANGED vars
    BY <2>3 DEF vars, WInv, BucketsCount, AdmittedWithinLimit
  <2> QED
    BY <2>1, <2>2, <2>3 DEF Next
<1>3. WInv => WindowNeverExceeded
  BY CountsBoundWindow
<1> QED
  BY <1>1, <1>2, <1>3, TypeCorrect, PTL DEF Spec

-----------------------------------------------------------------------------
(* The ledger and its audit file *)

AuditLine == [status : {"other", "garbage"}] \cup [status : {"executed"}, action : Entry]
FileTail == ExecutedTail(audit.lines)
Noted(i) == audit.lines[i].action

(* The executed lines a restart looks at are a history: numbered from 1 in *)
(* order, an undo after what it undid, and nothing undone twice.           *)
FileOrdered ==
  /\ \A i \in FileTail : Noted(i).id \in 1..ledger.nextId /\ Noted(i).undoOf < Noted(i).id
  /\ \A i, j \in FileTail : i < j => Noted(i).id < Noted(j).id
  /\ \A i, j \in FileTail : Noted(i).undoOf = Noted(j).undoOf /\ Noted(i).undoOf # NoAction => i = j

LedgerNumbered ==
  /\ LedgerOrdered
  /\ \A k \in DOMAIN ledger.actions : ledger.actions[k].id >= 1

(* What the file holds from the ledger's first action on, the ledger holds *)
(* too: so an undo that was written down is marked.                        *)
FileInLedger ==
  \A i \in FileTail, k \in DOMAIN ledger.actions :
    Noted(i).id >= ledger.actions[k].id =>
      \E n \in DOMAIN ledger.actions : ledger.actions[n] = Noted(i)

(* What the undo in flight will mark was recorded, and nothing undid it. *)
UndoPending ==
  undoing # NoAction =>
    /\ undoing <= ledger.nextId
    /\ \A i \in FileTail : Noted(i).undoOf # undoing

LedgerAndFile == LedgerNumbered /\ MarksExact /\ FileOrdered /\ FileInLedger

LedgerInv == LedgerTypeOK /\ (~unreadable => LedgerAndFile /\ UndoPending)

(* The last n elements of a sequence: an offset into it. *)
LEMMA LastOf ==
  ASSUME NEW S, NEW s \in Seq(S), NEW n \in Nat \ {0}
  PROVE  /\ Last(s, n) \in Seq(S)
         /\ \E d \in 0..Len(s) :
              /\ Len(Last(s, n)) = Len(s) - d
              /\ \A k \in 1..(Len(s) - d) : Last(s, n)[k] = s[d + k]
              /\ Len(s) > 0 => d < Len(s)
<1>1. CASE Len(s) > n
  <2>1. Last(s, n) = SubSeq(s, Len(s) - n + 1, Len(s))
    BY <1>1 DEF Last
  <2>2. /\ Last(s, n) \in Seq(S) /\ Len(Last(s, n)) = n
        /\ \A k \in 1..n : Last(s, n)[k] = s[Len(s) - n + k]
    BY <1>1, <2>1
  <2>3. Len(s) - n \in 0..Len(s) /\ Len(s) - (Len(s) - n) = n /\ Len(s) - n < Len(s)
    <3>1. Len(s) \in Nat /\ n \in Nat /\ n > 0
      OBVIOUS
    <3> QED
      BY <1>1, <3>1
  <2>5. PICK d \in 0..Len(s) : d = Len(s) - n
    BY <2>3
  <2>4. Len(Last(s, n)) = Len(s) - d /\ \A k \in 1..(Len(s) - d) : Last(s, n)[k] = s[d + k]
    BY <2>2, <2>3, <2>5
  <2> QED
    BY <2>2, <2>3, <2>4, <2>5
<1>2. CASE ~(Len(s) > n)
  <2>1. Last(s, n) = SubSeq(s, 1, Len(s))
    BY <1>2 DEF Last
  <2>2. /\ Last(s, n) \in Seq(S) /\ Len(Last(s, n)) = Len(s)
        /\ \A k \in 1..Len(s) : Last(s, n)[k] = s[0 + k]
    BY <2>1
  <2> QED
    BY <2>2
<1> QED
  BY <1>1, <1>2

(* InOrder lists a set of positions once each, smallest first. *)
LEMMA Ordering ==
  ASSUME NEW n \in Nat, NEW S, S \subseteq 1..n
  PROVE  /\ Cardinality(S) \in Nat /\ DOMAIN InOrder(S) = 1..Cardinality(S)
         /\ InOrder(S) \in [1..Cardinality(S) -> S]
         /\ \A k, l \in 1..Cardinality(S) : k < l <=> InOrder(S)[k] < InOrder(S)[l]
         /\ \A i \in S : \E k \in 1..Cardinality(S) : InOrder(S)[k] = i
<1> DEFINE Below(i) == {j \in S : j <= i}
           rank == [i \in S |-> Cardinality(Below(i))]
           size == Cardinality(S)
<1>1. IsFiniteSet(S) /\ size \in Nat
  BY IndicesFinite
<1>2. \A i \in S : IsFiniteSet(Below(i)) /\ rank[i] \in 1..size
  <2> SUFFICES ASSUME NEW i \in S PROVE IsFiniteSet(Below(i)) /\ rank[i] \in 1..size
    OBVIOUS
  <2>1. Below(i) \in SUBSET S /\ i \in Below(i) /\ rank[i] = Cardinality(Below(i))
    OBVIOUS
  <2> HIDE DEF Below, rank
  <2>2. IsFiniteSet(Below(i)) /\ rank[i] <= size /\ rank[i] \in Nat
    BY <1>1, <2>1, FS_Subset, FS_CardinalityType
  <2>3. rank[i] # 0
    BY <2>1, <2>2, FS_EmptySet
  <2> QED
    BY <1>1, <2>2, <2>3
<1>3. \A i, j \in S : i < j => rank[i] < rank[j]
  <2> SUFFICES ASSUME NEW i \in S, NEW j \in S, i < j PROVE rank[i] < rank[j]
    OBVIOUS
  <2>1. Below(i) \in SUBSET Below(j) /\ j \in Below(j) /\ j \notin Below(i)
    <3>1. i \in Int /\ j \in Int /\ \A y \in S : y \in Int
      OBVIOUS
    <3>2. \A y \in S : y <= i => y <= j
      BY <3>1
    <3>3. ~(j <= i) /\ j <= j
      BY <3>1
    <3> QED
      BY <3>2, <3>3
  <2>2. rank[i] = Cardinality(Below(i)) /\ rank[j] = Cardinality(Below(j))
    OBVIOUS
  <2>3. rank[i] \in Nat /\ rank[j] \in Nat /\ IsFiniteSet(Below(j))
    BY <1>2
  <2> HIDE DEF Below, rank
  <2>4. rank[i] <= rank[j] /\ rank[i] # rank[j]
    BY <2>1, <2>2, <2>3, FS_Subset
  <2> QED
    BY <2>3, <2>4
<1>4. \A i, j \in S : rank[i] = rank[j] => i = j
  <2> SUFFICES ASSUME NEW i \in S, NEW j \in S, rank[i] = rank[j] PROVE i = j
    OBVIOUS
  <2>1. i \in Int /\ j \in Int /\ rank[i] \in Nat
    BY <1>2
  <2> HIDE DEF rank
  <2> QED
    BY <1>3, <2>1
<1>5. rank \in Injection(S, 1..size)
  <2>1. rank \in [S -> 1..size]
    BY <1>2
  <2> HIDE DEF rank
  <2> QED
    BY <1>4, <2>1 DEF Injection, IsInjective
<1>6. rank \in Surjection(S, 1..size)
  <2>1. IsFiniteSet(1..size) /\ Cardinality(1..size) = size
    BY <1>1, IndicesFinite, FS_Interval
  <2> HIDE DEF rank, size
  <2> QED
    BY <1>5, <2>1, FS_Injection DEF size
<1>7. \A k \in 1..size : \E i \in S : Cardinality(Below(i)) = k
  BY <1>6 DEF Surjection
<1> DEFINE order == InOrder(S)
<1>8. order = [k \in 1..size |-> CHOOSE i \in S : Cardinality(Below(i)) = k]
  BY DEF InOrder
<1>9. \A k \in 1..size : order[k] \in S /\ rank[order[k]] = k
  <2> SUFFICES ASSUME NEW k \in 1..size PROVE order[k] \in S /\ rank[order[k]] = k
    OBVIOUS
  <2>1. order[k] = CHOOSE i \in S : Cardinality(Below(i)) = k
    BY <1>8
  <2>2. order[k] \in S /\ Cardinality(Below(order[k])) = k
    <3> HIDE DEF order, Below, size
    <3> QED
      BY <1>7, <2>1
  <2> QED
    BY <2>2
<1>10. DOMAIN order = 1..size /\ order \in [1..size -> S]
  <2> HIDE DEF rank, Below
  <2> QED
    BY <1>8, <1>9
<1>11. \A k, l \in 1..size : k < l <=> order[k] < order[l]
  <2> SUFFICES ASSUME NEW k \in 1..size, NEW l \in 1..size PROVE k < l <=> order[k] < order[l]
    OBVIOUS
  <2>1. order[k] \in S /\ order[l] \in S /\ rank[order[k]] = k /\ rank[order[l]] = l
    BY <1>9
  <2>2. order[k] \in Int /\ order[l] \in Int /\ k \in Int /\ l \in Int
    <3>1. \A y \in S : y \in Int
      OBVIOUS
    <3>2. k \in Int /\ l \in Int
      BY <1>1
    <3> HIDE DEF rank, order, size
    <3> QED
      BY <2>1, <3>1, <3>2
  <2> HIDE DEF rank, order, size
  <2> QED
    BY <1>3, <2>1, <2>2
<1>12. \A i \in S : \E k \in 1..size : order[k] = i
  <2> SUFFICES ASSUME NEW i \in S PROVE \E k \in 1..size : order[k] = i
    OBVIOUS
  <2>1. rank[i] \in 1..size
    BY <1>2
  <2>2. order[rank[i]] \in S /\ rank[order[rank[i]]] = rank[i]
    BY <1>9, <2>1
  <2>3. order[rank[i]] = i
    BY <1>4, <2>2
  <2> QED
    BY <2>1, <2>3
<1> QED
  BY <1>1, <1>10, <1>11, <1>12

(* With a position, every later one of the set is among the latest. *)
LEMMA LatestIsUpward ==
  ASSUME NEW n \in Nat, NEW S, S \subseteq 1..n, NEW m \in Nat
  PROVE  /\ Latest(S, m) \subseteq S
         /\ \A i \in Latest(S, m), j \in S : i <= j => j \in Latest(S, m)
<1> SUFFICES ASSUME NEW i \in Latest(S, m), NEW j \in S, i <= j PROVE j \in Latest(S, m)
  BY DEF Latest
<1> DEFINE Above(x) == {y \in S : y > x}
<1>1. i \in S /\ Cardinality(Above(i)) < m
  BY DEF Latest
<1>2. Above(j) \in SUBSET Above(i) /\ Above(i) \subseteq 1..n /\ Above(j) \subseteq 1..n
  <2>1. i \in Int /\ j \in Int /\ \A y \in S : y \in Int
    BY <1>1
  <2>2. \A y \in S : y > j => y > i
    BY <2>1
  <2> QED
    BY <2>2
<1>3. Cardinality(Above(j)) < m
  <2> HIDE DEF Above
  <2>1. IsFiniteSet(Above(i)) /\ Cardinality(Above(i)) \in Nat /\ Cardinality(Above(j)) \in Nat
    BY <1>2, IndicesFinite
  <2>2. Cardinality(Above(j)) <= Cardinality(Above(i))
    BY <1>2, <2>1, FS_Subset
  <2> QED
    BY <1>1, <2>1, <2>2
<1> QED
  BY <1>3 DEF Latest


LEMMA NotedType ==
  ASSUME audit.lines \in Seq(AuditLine), NEW i \in FileTail
  PROVE  i \in 1..Len(audit.lines) /\ Noted(i) \in Entry
<1>1. i \in DOMAIN audit.lines /\ audit.lines[i].status = "executed"
  BY DEF FileTail, ExecutedTail
<1>2. audit.lines[i] \in AuditLine /\ i \in 1..Len(audit.lines)
  BY <1>1
<1> QED
  BY <1>1, <1>2 DEF AuditLine, Noted

(* An append adds at most its own line to what a restart would look at. *)
LEMMA AppendEffect ==
  ASSUME audit.lines \in Seq(AuditLine), NEW line \in AuditLine, NEW outcome \in AppendOutcomes,
         audit' = AppendJsonLine(audit, line, outcome), audit.open \in BOOLEAN
  PROVE  /\ audit'.lines \in Seq(AuditLine) /\ audit'.open \in BOOLEAN
         /\ \A i \in FileTail' :
              \/ i \in FileTail /\ Noted(i)' = Noted(i)
              \/ i = Len(audit.lines) + 1 /\ line.status = "executed" /\ Noted(i)' = line.action
<1> DEFINE text == IF outcome = "half_line" THEN Garbage ELSE line
           scan == HistoryLimit * ScanFactor
<1>1. Garbage \in AuditLine /\ text \in AuditLine /\ Garbage.status # "executed"
  BY DEF Garbage, AuditLine
<1>2. scan \in Int /\ Len(audit.lines) \in Nat
  BY LedgerAssumption
<1>3. /\ FileTail = {i \in DOMAIN audit.lines : i > Len(audit.lines) - scan /\ audit.lines[i].status = "executed"}
      /\ FileTail' = {i \in DOMAIN audit'.lines : i > Len(audit'.lines) - scan /\ audit'.lines[i].status = "executed"}
  BY DEF FileTail, ExecutedTail
<1> HIDE DEF scan
<1>4. CASE outcome = "not_opened"
  BY <1>3, <1>4 DEF AppendJsonLine, Noted
<1>5. CASE outcome # "not_opened" /\ audit.open
  <2>1. audit'.lines = [audit.lines EXCEPT ![Len(audit.lines)] = Garbage]
    BY <1>5 DEF AppendJsonLine
  <2>2. audit'.open = (outcome # "ok")
    BY <1>5 DEF AppendJsonLine
  <2>3. /\ audit'.lines \in Seq(AuditLine) /\ Len(audit'.lines) = Len(audit.lines)
        /\ \A i \in 1..Len(audit.lines) : i # Len(audit.lines) => audit'.lines[i] = audit.lines[i]
        /\ Len(audit.lines) > 0 => audit'.lines[Len(audit.lines)] = Garbage
    <3>1. audit'.lines = [i \in 1..Len(audit.lines) |-> IF i = Len(audit.lines) THEN Garbage ELSE audit.lines[i]]
      BY <1>2, <2>1
    <3>2. \A i \in 1..Len(audit.lines) : (IF i = Len(audit.lines) THEN Garbage ELSE audit.lines[i]) \in AuditLine
      BY <1>1
    <3> HIDE DEF text
    <3>3. audit'.lines \in Seq(AuditLine) /\ Len(audit'.lines) = Len(audit.lines)
      BY <1>2, <3>1, <3>2
    <3> QED
      BY <1>2, <3>1, <3>3
  <2>4. \A i \in FileTail' : i \in FileTail /\ audit'.lines[i] = audit.lines[i]
    <3> SUFFICES ASSUME NEW i \in FileTail' PROVE i \in FileTail /\ audit'.lines[i] = audit.lines[i]
      OBVIOUS
    <3>1. /\ i \in 1..Len(audit.lines) /\ i > Len(audit.lines) - scan /\ audit'.lines[i].status = "executed"
      BY <1>3, <2>3
    <3>2. i # Len(audit.lines)
      BY <1>1, <2>3, <3>1
    <3> QED
      BY <1>3, <2>3, <3>1, <3>2
  <2>5. audit'.open \in BOOLEAN
    BY <2>2
  <2> QED
    BY <2>3, <2>4, <2>5 DEF Noted
<1>6. CASE outcome # "not_opened" /\ ~audit.open
  <2>1. audit'.lines = Append(audit.lines, text)
    BY <1>6 DEF AppendJsonLine
  <2>2. audit'.open = (outcome # "ok")
    BY <1>6 DEF AppendJsonLine
  <2>3. text.status = "executed" => text = line
    BY <1>1
  <2> HIDE DEF text
  <2>4. /\ audit'.lines \in Seq(AuditLine) /\ Len(audit'.lines) = Len(audit.lines) + 1
        /\ \A i \in 1..Len(audit.lines) : audit'.lines[i] = audit.lines[i]
        /\ audit'.lines[Len(audit.lines) + 1] = text
    BY <1>1, <2>1
  <2>5. ASSUME NEW i \in FileTail'
        PROVE  \/ i \in FileTail /\ Noted(i)' = Noted(i)
               \/ i = Len(audit.lines) + 1 /\ line.status = "executed" /\ Noted(i)' = line.action
    <3>1. /\ i \in 1..(Len(audit.lines) + 1) /\ i > Len(audit.lines) + 1 - scan
          /\ audit'.lines[i].status = "executed"
      <4>1. i \in DOMAIN audit'.lines /\ i > Len(audit'.lines) - scan /\ audit'.lines[i].status = "executed"
        BY <1>3, <2>5
      <4>2. DOMAIN audit'.lines = 1..Len(audit'.lines) /\ Len(audit'.lines) = Len(audit.lines) + 1
        BY <2>4
      <4> QED
        BY <1>2, <4>1, <4>2
    <3>2. CASE i = Len(audit.lines) + 1
      BY <1>2, <2>3, <2>4, <3>1, <3>2 DEF Noted
    <3>3. CASE i # Len(audit.lines) + 1
      <4>1. i \in 1..Len(audit.lines) /\ i > Len(audit.lines) - scan
        BY <1>2, <3>1, <3>3
      <4> QED
        BY <1>3, <2>4, <3>1, <4>1 DEF Noted
    <3> QED
      BY <3>2, <3>3
  <2>6. audit'.open \in BOOLEAN
    BY <2>2
  <2> QED
    BY <2>4, <2>5, <2>6
<1> QED
  BY <1>4, <1>5, <1>6

(* What a restart reads back: the latest executed lines of the tail. *)
LEMMA ReadBack ==
  ASSUME audit.lines \in Seq(AuditLine)
  PROVE  LET past == ReadRecentExecuted(audit) IN
         /\ past \in Seq(Entry)
         /\ FileTail # {} => Len(past) > 0
         /\ \E at \in [1..Len(past) -> FileTail] :
              /\ \A k \in 1..Len(past) : past[k] = Noted(at[k])
              /\ \A k, l \in 1..Len(past) : k < l <=> at[k] < at[l]
              /\ \A k \in 1..Len(past), i \in FileTail :
                   at[k] <= i => \E l \in 1..Len(past) : at[l] = i
<1> DEFINE n == Len(audit.lines)
           latest == Latest(FileTail, HistoryLimit)
           size == Cardinality(latest)
           at == InOrder(latest)
           past == ReadRecentExecuted(audit)
<1>1. n \in Nat /\ FileTail \subseteq 1..n /\ HistoryLimit \in Nat \ {0}
  <2>1. DOMAIN audit.lines = 1..n /\ n \in Nat
    OBVIOUS
  <2>2. FileTail \subseteq DOMAIN audit.lines
    BY DEF FileTail, ExecutedTail
  <2> QED
    BY <2>1, <2>2, LedgerAssumption
<1>2. /\ latest \subseteq FileTail /\ latest \subseteq 1..n
      /\ \A i \in latest, j \in FileTail : i <= j => j \in latest
  <2> HIDE DEF n
  <2> QED
    BY <1>1, LatestIsUpward
<1>3. /\ size \in Nat /\ DOMAIN at = 1..size /\ at \in [1..size -> latest]
      /\ \A k, l \in 1..size : k < l <=> at[k] < at[l]
      /\ \A i \in latest : \E k \in 1..size : at[k] = i
  <2> HIDE DEF n, latest
  <2> QED
    BY <1>1, <1>2, Ordering
<1>4. past = [k \in 1..size |-> Noted(at[k])]
  BY <1>3 DEF ReadRecentExecuted, Noted, FileTail
<1> HIDE DEF n, latest, size, at, past
<1>5. \A k \in 1..size : at[k] \in FileTail /\ Noted(at[k]) \in Entry
  BY <1>2, <1>3, NotedType
<1>6. past \in Seq(Entry) /\ Len(past) = size /\ \A k \in 1..size : past[k] = Noted(at[k])
  BY <1>3, <1>4, <1>5
<1>7. ASSUME FileTail # {} PROVE size > 0
  <2>1. PICK i \in FileTail : \A j \in FileTail : j <= i
    BY <1>1, <1>7, LargestOf
  <2>2. {j \in FileTail : j > i} = {}
    <3>1. \A j \in FileTail : j \in Int
      BY <1>1
    <3> QED
      BY <2>1, <3>1
  <2>3. i \in latest
    <3>1. Cardinality({}) = 0
      BY FS_EmptySet
    <3>2. Cardinality({j \in FileTail : j > i}) = 0
      BY <2>2, <3>1, Zenon
    <3>3. 0 < HistoryLimit
      BY <1>1
    <3> QED
      BY <3>2, <3>3 DEF latest, Latest
  <2> QED
    BY <1>3, <2>3
<1>8. at \in [1..Len(past) -> FileTail]
  BY <1>2, <1>3, <1>6
<1>9. \A k \in 1..size, i \in FileTail : at[k] <= i => \E l \in 1..size : at[l] = i
  BY <1>2, <1>3
<1> QED
  BY <1>3, <1>6, <1>7, <1>8, <1>9 DEF past


LEMMA LargestNumber ==
  ASSUME NEW S, S \subseteq Nat, S # {}, IsFiniteSet(S)
  PROVE  \E m \in S : \A x \in S : x <= m
<1> DEFINE Above(i) == {j \in S : j > i}
           T == {Cardinality(Above(i)) : i \in S}
<1>1. \A i \in S : Above(i) \in SUBSET S
  OBVIOUS
<1>2. \A i \in S : IsFiniteSet(Above(i)) /\ Cardinality(Above(i)) \in Nat
  <2> HIDE DEF Above
  <2> QED
    BY <1>1, FS_Subset, FS_CardinalityType
<1>3. T \subseteq Nat /\ T # {}
  BY <1>2
<1>4. \E x \in T : \A y \in T : ~(<<y, x>> \in OpToRel(<, Nat))
  <2> HIDE DEF T
  <2> QED
    BY <1>3, WFMin, NatLessThanWellFounded, Zenon
<1>5. PICK m \in S : \A i \in S : ~(Cardinality(Above(i)) < Cardinality(Above(m)))
  BY <1>3, <1>4 DEF OpToRel
<1>6. ASSUME NEW j \in S, ~(j <= m) PROVE FALSE
  <2>1. Above(j) \in SUBSET Above(m) /\ j \in Above(m) /\ j \notin Above(j)
    <3>1. m \in Nat /\ j \in Nat /\ j > m /\ ~(j > j)
      BY <1>6
    <3>2. \A k \in S : k \in Nat
      OBVIOUS
    <3>3. \A k \in S : k > j => k > m
      BY <3>1, <3>2
    <3> QED
      BY <3>1, <3>3
  <2> HIDE DEF Above
  <2>2. /\ Cardinality(Above(j)) <= Cardinality(Above(m))
        /\ Cardinality(Above(m)) = Cardinality(Above(j)) => Above(m) = Above(j)
    BY <1>2, <2>1, FS_Subset
  <2> QED
    BY <1>2, <1>5, <2>1, <2>2
<1> QED
  BY <1>6

LEMMA LargestId ==
  ASSUME NEW a \in Seq(Entry)
  PROVE  MaxId(a) \in Nat /\ \A k \in DOMAIN a : a[k].id <= MaxId(a)
<1> DEFINE told == {a[i].id : i \in DOMAIN a}
           ids == told \cup {0}
<1>1. DOMAIN a = 1..Len(a) /\ Len(a) \in Nat /\ \A k \in 1..Len(a) : a[k] \in Entry
  OBVIOUS
<1>2. \A k \in DOMAIN a : a[k].id \in Nat
  BY <1>1 DEF Entry
<1>3. ids \subseteq Nat /\ ids # {}
  BY <1>2
<1>4. IsFiniteSet(ids)
  <2> DEFINE f == [i \in DOMAIN a |-> a[i].id]
  <2>1. f \in Surjection(DOMAIN a, told)
    BY DEF Surjection
  <2>2. IsFiniteSet(DOMAIN a)
    BY <1>1, IndicesFinite
  <2> HIDE DEF f, told
  <2>3. IsFiniteSet(told)
    BY <2>1, <2>2, FS_Surjection
  <2> QED
    BY <2>3, FS_AddElement
<1>5. MaxId(a) = CHOOSE m \in ids : \A x \in ids : x <= m
  BY DEF MaxId
<1>6. \A k \in DOMAIN a : a[k].id \in ids
  OBVIOUS
<1> HIDE DEF ids
<1>7. MaxId(a) \in ids /\ \A x \in ids : x <= MaxId(a)
  BY <1>3, <1>4, <1>5, LargestNumber
<1> QED
  BY <1>3, <1>6, <1>7

LEMMA HydrateType ==
  ASSUME NEW past \in Seq(Entry), ledger' = Hydrate(past)
  PROVE  ledger'.nextId \in Nat /\ ledger'.actions \in Seq(Entry) /\ ledger'.undone \subseteq Nat
<1> DEFINE kept == Last(past, HistoryLimit)
<1>1. kept \in Seq(Entry)
  BY LastOf, LedgerAssumption
<1>2. /\ ledger'.nextId = MaxId(kept) /\ ledger'.actions = kept
      /\ ledger'.undone = {kept[i].undoOf : i \in DOMAIN kept} \ {NoAction}
  BY DEF Hydrate
<1> HIDE DEF kept
<1>3. MaxId(kept) \in Nat
  BY <1>1, LargestId
<1>4. \A i \in DOMAIN kept : kept[i] \in Entry
  BY <1>1
<1> QED
  BY <1>1, <1>2, <1>3, <1>4 DEF Entry

(* A restart that reads a sound file finds a sound ledger in it. *)
LEMMA HydrateSound ==
  ASSUME audit.lines \in Seq(AuditLine), FileOrdered, ledger.nextId \in Nat,
         ledger' = Hydrate(ReadRecentExecuted(audit)), audit' = audit
  PROVE  /\ ledger'.nextId \in Nat /\ ledger'.actions \in Seq(Entry) /\ ledger'.undone \subseteq Nat
         /\ LedgerNumbered' /\ MarksExact' /\ FileOrdered' /\ FileInLedger'
<1> DEFINE past == ReadRecentExecuted(audit)
           kept == Last(past, HistoryLimit)
<1>1. /\ past \in Seq(Entry) /\ (FileTail # {} => Len(past) > 0)
      /\ \E at \in [1..Len(past) -> FileTail] :
           /\ \A k \in 1..Len(past) : past[k] = Noted(at[k])
           /\ \A k, l \in 1..Len(past) : k < l <=> at[k] < at[l]
           /\ \A k \in 1..Len(past), i \in FileTail :
                at[k] <= i => \E l \in 1..Len(past) : at[l] = i
  BY ReadBack
<1>2. PICK at \in [1..Len(past) -> FileTail] :
        /\ \A k \in 1..Len(past) : past[k] = Noted(at[k])
        /\ \A k, l \in 1..Len(past) : k < l <=> at[k] < at[l]
        /\ \A k \in 1..Len(past), i \in FileTail :
             at[k] <= i => \E l \in 1..Len(past) : at[l] = i
  BY <1>1
<1>3. ledger'.nextId = MaxId(kept) /\ ledger'.actions = kept
      /\ ledger'.undone = {kept[i].undoOf : i \in DOMAIN kept} \ {NoAction}
  BY DEF Hydrate
<1> HIDE DEF past
<1>4. /\ kept \in Seq(Entry)
      /\ \E d \in 0..Len(past) :
           /\ Len(kept) = Len(past) - d
           /\ \A k \in 1..(Len(past) - d) : kept[k] = past[d + k]
           /\ Len(past) > 0 => d < Len(past)
  BY <1>1, LastOf, LedgerAssumption
<1>5. PICK d \in 0..Len(past) :
        /\ Len(kept) = Len(past) - d
        /\ \A k \in 1..(Len(past) - d) : kept[k] = past[d + k]
        /\ Len(past) > 0 => d < Len(past)
  BY <1>4
<1> HIDE DEF kept
<1>6. Len(past) \in Nat /\ d \in Nat /\ Len(kept) \in Nat /\ DOMAIN kept = 1..Len(kept)
  BY <1>1, <1>4
<1> DEFINE pos == [k \in 1..Len(kept) |-> at[d + k]]
<1>7. \A k \in 1..Len(kept) : d + k \in 1..Len(past) /\ pos[k] = at[d + k]
  BY <1>5, <1>6
<1> HIDE DEF pos
<1>8. \A k \in 1..Len(kept) : pos[k] \in FileTail /\ kept[k] = Noted(pos[k])
  BY <1>2, <1>5, <1>7
<1>9. \A k, l \in 1..Len(kept) : k < l <=> pos[k] < pos[l]
  <2> SUFFICES ASSUME NEW k \in 1..Len(kept), NEW l \in 1..Len(kept) PROVE k < l <=> pos[k] < pos[l]
    OBVIOUS
  <2>1. d + k < d + l <=> pos[k] < pos[l]
    BY <1>2, <1>7
  <2> QED
    BY <1>6, <2>1
<1>10. \A k \in 1..Len(kept), i \in FileTail : pos[k] <= i => \E l \in 1..Len(kept) : pos[l] = i
  <2> SUFFICES ASSUME NEW k \in 1..Len(kept), NEW i \in FileTail, pos[k] <= i
               PROVE  \E l \in 1..Len(kept) : pos[l] = i
    OBVIOUS
  <2>1. PICK m \in 1..Len(past) : at[m] = i
    BY <1>2, <1>7
  <2>2. m >= d + k
    <3>1. at[d + k] <= at[m] /\ at[d + k] \in Int /\ at[m] \in Int
      BY <1>2, <1>7, <2>1, NotedType
    <3>2. ~(m < d + k)
      BY <1>2, <1>7, <3>1
    <3> QED
      BY <1>6, <3>2
  <2>3. PICK l \in 1..Len(kept) : d + l = m
    <3>1. m - d \in 1..Len(kept) /\ d + (m - d) = m
      BY <1>5, <1>6, <2>2
    <3> QED
      BY <3>1
  <2> QED
    BY <1>7, <2>1, <2>3
<1>11. FileTail # {} => Len(kept) > 0
  BY <1>1, <1>5, <1>6
<1>12. \A i \in FileTail : i \in Int /\ Noted(i).id \in Nat /\ Noted(i).undoOf \in Nat
                           /\ Noted(i).id >= 1 /\ Noted(i).undoOf < Noted(i).id
  BY NotedType DEF FileOrdered, Entry
<1>13. IdsIncrease(kept)
  BY <1>6, <1>8, <1>9 DEF IdsIncrease, FileOrdered
<1>14. MaxId(kept) \in Nat /\ \A k \in 1..Len(kept) : kept[k].id <= MaxId(kept)
  BY <1>4, <1>6, LargestId
<1>15. \A i, j \in FileTail : Noted(i).id >= Noted(j).id => j <= i
  BY <1>12 DEF FileOrdered
<1>16. FileTail' = FileTail /\ \A i \in FileTail : Noted(i)' = Noted(i)
  BY DEF FileTail, Noted
<1>17. ledger'.undone \subseteq Nat /\ \A id \in ledger'.undone : id <= MaxId(kept)
  <2> SUFFICES ASSUME NEW id \in ledger'.undone PROVE id \in Nat /\ id <= MaxId(kept)
    OBVIOUS
  <2>1. PICK k \in 1..Len(kept) : id = kept[k].undoOf
    BY <1>3, <1>6
  <2> QED
    BY <1>8, <1>12, <1>14, <2>1
<1>18. LedgerNumbered'
  BY <1>3, <1>6, <1>8, <1>12, <1>13, <1>14, <1>17 DEF LedgerNumbered, LedgerOrdered
<1>19. MarksExact'
  <2> SUFFICES ASSUME NEW i \in 1..Len(kept)
               PROVE  kept[i].id \in ledger'.undone <=>
                        \E j \in 1..Len(kept) : j > i /\ kept[j].undoOf = kept[i].id
    BY <1>3, <1>6 DEF MarksExact
  <2>1. kept[i].id # NoAction
    BY <1>8, <1>12 DEF NoAction
  <2>2. ASSUME NEW j \in 1..Len(kept), kept[j].undoOf = kept[i].id PROVE j > i
    <3>1. Noted(pos[i]).id < Noted(pos[j]).id
      BY <1>8, <1>12, <2>2
    <3>2. ~(pos[j] < pos[i]) /\ pos[j] # pos[i]
      BY <1>8, <1>12, <3>1 DEF FileOrdered
    <3>3. ~(j < i) /\ i # j
      BY <1>9, <3>2
    <3> QED
      BY <1>6, <3>3
  <2> QED
    BY <1>3, <1>6, <2>1, <2>2
<1>20. FileOrdered'
  <2>1. ASSUME NEW i \in FileTail PROVE Noted(i).id <= MaxId(kept)
    <3>1. 1 \in 1..Len(kept)
      BY <1>6, <1>11, <2>1
    <3>2. pos[1] \in FileTail /\ kept[1] = Noted(pos[1]) /\ kept[1].id <= MaxId(kept)
      BY <1>8, <1>14, <3>1
    <3>3. CASE pos[1] <= i
      BY <1>8, <1>10, <1>14, <3>1, <3>3
    <3>4. CASE ~(pos[1] <= i)
      <4>1. i < pos[1]
        BY <1>12, <3>2, <3>4
      <4>2. Noted(i).id < Noted(pos[1]).id
        BY <3>2, <4>1 DEF FileOrdered
      <4> QED
        BY <1>12, <1>14, <3>2, <4>2
    <3> QED
      BY <3>3, <3>4
  <2>2. \A i \in FileTail : Noted(i).id \in 1..MaxId(kept)
    BY <1>12, <1>14, <2>1
  <2> QED
    BY <1>3, <1>16, <2>2 DEF FileOrdered
<1>21. FileInLedger'
  <2> SUFFICES ASSUME NEW i \in FileTail, NEW k \in 1..Len(kept), Noted(i).id >= kept[k].id
               PROVE  \E n \in 1..Len(kept) : kept[n] = Noted(i)
    BY <1>3, <1>6, <1>16 DEF FileInLedger
  <2>1. pos[k] <= i
    BY <1>8, <1>15
  <2> QED
    BY <1>8, <1>10, <2>1
<1> QED
  BY <1>3, <1>4, <1>14, <1>17, <1>18, <1>19, <1>20, <1>21


Recorded(act, u) == [id |-> ledger.nextId + 1, undoOf |-> u, act |-> act, restore |-> NoRestore]

(* The next ledger is all but the first d of the old actions and e, and   *)
(* its marks are those of the old one and of what e undoes, without them.  *)
NextLedger(all, d, e) ==
  /\ \A k \in 1..Len(ledger.actions) : all[k] = ledger.actions[k]
  /\ all[Len(ledger.actions) + 1] = e
  /\ d \in 0..Len(ledger.actions) /\ Len(ledger'.actions) = Len(ledger.actions) + 1 - d
  /\ \A k \in 1..Len(ledger'.actions) : ledger'.actions[k] = all[d + k]
  /\ \A x : x \in ledger'.undone <=>
              /\ x \in ledger.undone \/ (e.undoOf # NoAction /\ x = e.undoOf)
              /\ \A i \in 1..d : all[i].id # x

(* record_internal numbers the action, appends it and drops the oldest. *)
LEMMA RecordEffect ==
  ASSUME LedgerTypeOK, NEW act \in Acts, NEW u \in Nat,
         ledger' = RecordInternal(ledger, [id |-> 0, undoOf |-> u, act |-> act, restore |-> NoRestore])
  PROVE  /\ Recorded(act, u) \in Entry
         /\ ledger'.nextId = ledger.nextId + 1 /\ ledger'.actions \in Seq(Entry)
         /\ \E all, d : NextLedger(all, d, Recorded(act, u))
<1>1. ledger.nextId \in Nat /\ ledger.actions \in Seq(Entry) /\ ledger.undone \subseteq Nat
  BY DEF LedgerTypeOK
<1>2. PICK entry : entry = [id |-> 0, undoOf |-> u, act |-> act, restore |-> NoRestore]
  OBVIOUS
<1> DEFINE e == [entry EXCEPT !.id = ledger.nextId + 1]
           all == Append(ledger.actions, e)
           kept == Last(all, HistoryLimit)
           marked == IF entry.undoOf = NoAction THEN {} ELSE {entry.undoOf}
           gone == {all[i].id : i \in 1..(Len(all) - Len(kept))}
<1>3. e = Recorded(act, u) /\ e \in Entry /\ entry.undoOf = u
  BY <1>1, <1>2 DEF Recorded, Entry
<1>4. ledger' = [nextId |-> ledger.nextId + 1, actions |-> kept, undone |-> (ledger.undone \cup marked) \ gone]
  BY <1>2 DEF RecordInternal
<1> HIDE DEF e
<1>5. all \in Seq(Entry) /\ Len(all) = Len(ledger.actions) + 1 /\ Len(ledger.actions) \in Nat
  BY <1>1, <1>3
<1>6. (\A k \in 1..Len(ledger.actions) : all[k] = ledger.actions[k]) /\ all[Len(ledger.actions) + 1] = e
  BY <1>1, <1>3
<1> HIDE DEF all
<1>7. /\ kept \in Seq(Entry)
      /\ \E d \in 0..Len(all) :
           /\ Len(kept) = Len(all) - d
           /\ \A k \in 1..(Len(all) - d) : kept[k] = all[d + k]
           /\ Len(all) > 0 => d < Len(all)
  BY <1>5, LastOf, LedgerAssumption
<1>8. PICK d \in 0..Len(all) :
        /\ Len(kept) = Len(all) - d
        /\ \A k \in 1..(Len(all) - d) : kept[k] = all[d + k]
        /\ Len(all) > 0 => d < Len(all)
  BY <1>7
<1> HIDE DEF kept
<1>9. d \in 0..Len(ledger.actions) /\ Len(all) - Len(kept) = d /\ Len(kept) = Len(ledger.actions) + 1 - d
  BY <1>5, <1>8
<1>10. \A k \in 1..Len(kept) : kept[k] = all[d + k]
  BY <1>8
<1>11. \A x : x \in (ledger.undone \cup marked) \ gone <=>
                /\ x \in ledger.undone \/ (u # NoAction /\ x = u)
                /\ \A i \in 1..d : all[i].id # x
  <2>1. \A x : x \in gone <=> \E i \in 1..d : all[i].id = x
    BY <1>9
  <2>2. \A x : x \in marked <=> u # NoAction /\ x = u
    BY <1>3
  <2> HIDE DEF gone, marked
  <2> QED
    BY <2>1, <2>2
<1>12. ledger'.nextId = ledger.nextId + 1 /\ ledger'.actions = kept
       /\ ledger'.undone = (ledger.undone \cup marked) \ gone
  <2> HIDE DEF marked, gone
  <2> QED
    BY <1>4
<1>13. \A x : x \in ledger'.undone <=>
                /\ x \in ledger.undone \/ (u # NoAction /\ x = u)
                /\ \A i \in 1..d : all[i].id # x
  BY <1>11, <1>12
<1> HIDE DEF marked, gone
<1>14. NextLedger(all, d, Recorded(act, u))
  <2>1. ledger'.actions = kept /\ Recorded(act, u).undoOf = u
    BY <1>12 DEF Recorded
  <2> QED
    BY <1>3, <1>6, <1>9, <1>10, <1>13, <2>1 DEF NextLedger
<1> QED
  BY <1>3, <1>7, <1>12, <1>14

(* One more action: what the ledger and the file hold of it fits the rest. *)
LEMMA RecordSound ==
  ASSUME LedgerTypeOK, ~unreadable, LedgerNumbered, MarksExact, FileOrdered, FileInLedger,
         NEW act \in Acts, NEW u \in Nat,
         u # NoAction => u <= ledger.nextId /\ \A i \in FileTail : Noted(i).undoOf # u,
         ledger' = RecordInternal(ledger, [id |-> 0, undoOf |-> u, act |-> act, restore |-> NoRestore]),
         \A i \in FileTail' :
           \/ i \in FileTail /\ Noted(i)' = Noted(i)
           \/ i = Len(audit.lines) + 1 /\ Noted(i)' = Recorded(act, u)
  PROVE  LedgerNumbered' /\ MarksExact' /\ FileOrdered' /\ FileInLedger'
<1> DEFINE e == Recorded(act, u)
           kept == ledger'.actions
           old == Len(ledger.actions)
           n == ledger.nextId
<1>1. e \in Entry /\ ledger'.nextId = n + 1 /\ kept \in Seq(Entry)
  BY RecordEffect
<1>0. PICK all, d : NextLedger(all, d, e)
  BY RecordEffect
<1>2. /\ \A k \in 1..old : all[k] = ledger.actions[k]
      /\ all[old + 1] = e
      /\ d \in 0..old /\ Len(kept) = old + 1 - d
      /\ \A k \in 1..Len(kept) : kept[k] = all[d + k]
      /\ \A x : x \in ledger'.undone <=>
                  /\ x \in ledger.undone \/ (u # NoAction /\ x = u)
                  /\ \A i \in 1..d : all[i].id # x
  <2>1. e.undoOf = u
    BY DEF Recorded
  <2> QED
    BY <1>0, <2>1 DEF NextLedger
<1>3. /\ n \in Nat /\ ledger.actions \in Seq(Entry) /\ old \in Nat /\ DOMAIN ledger.actions = 1..old
      /\ ledger.undone \subseteq Nat
  BY DEF LedgerTypeOK
<1>4. \A k \in 1..old : /\ ledger.actions[k].id \in Nat /\ ledger.actions[k].undoOf \in Nat
                        /\ ledger.actions[k].id >= 1 /\ ledger.actions[k].id <= n
  <2>1. \A k \in 1..old : ledger.actions[k] \in Entry
    BY <1>3
  <2>2. \A k \in 1..old : ledger.actions[k].id >= 1 /\ ledger.actions[k].id <= n
    BY <1>3 DEF LedgerNumbered, LedgerOrdered
  <2> QED
    BY <2>1, <2>2 DEF Entry
<1>5. \A k, l \in 1..old : k < l => ledger.actions[k].id < ledger.actions[l].id
  BY <1>3 DEF LedgerNumbered, LedgerOrdered, IdsIncrease
<1>6. e.id = n + 1 /\ e.undoOf = u
  BY DEF Recorded
<1> HIDE DEF e
<1>7. (\A k \in 1..old : all[k] = ledger.actions[k]) /\ all[old + 1] = e
  BY <1>2
<1> HIDE DEF kept, n, old
<1>8. \A k \in 1..(old + 1) : all[k].id \in Nat /\ all[k].id >= 1 /\ all[k].id <= n + 1
  <2> SUFFICES ASSUME NEW k \in 1..(old + 1)
               PROVE  all[k].id \in Nat /\ all[k].id >= 1 /\ all[k].id <= n + 1
    OBVIOUS
  <2>1. CASE k = old + 1
    BY <1>3, <1>6, <1>7, <2>1
  <2>2. CASE k # old + 1
    <3>1. k \in 1..old
      BY <1>3, <2>2
    <3> QED
      BY <1>3, <1>4, <1>7, <3>1
  <2> QED
    BY <2>1, <2>2
<1>9. \A k, l \in 1..(old + 1) : k < l => all[k].id < all[l].id
  <2> SUFFICES ASSUME NEW k \in 1..(old + 1), NEW l \in 1..(old + 1), k < l PROVE all[k].id < all[l].id
    OBVIOUS
  <2>1. k \in 1..old
    BY <1>3
  <2>2. CASE l = old + 1
    BY <1>3, <1>4, <1>6, <1>7, <2>1, <2>2
  <2>3. CASE l # old + 1
    <3>1. l \in 1..old
      BY <1>3, <2>3
    <3> QED
      BY <1>5, <1>7, <2>1, <3>1
  <2> QED
    BY <2>2, <2>3
<1>10. /\ DOMAIN kept = 1..Len(kept) /\ Len(kept) \in Nat /\ d \in Nat /\ Len(kept) >= 1
       /\ d + Len(kept) = old + 1
  BY <1>1, <1>2, <1>3
<1>11. \A k \in 1..Len(kept) : d + k \in 1..(old + 1) /\ kept[k] = all[d + k]
  BY <1>2, <1>3, <1>10
<1>12. \A id \in ledger.undone : id <= n
  BY <1>3 DEF LedgerNumbered, LedgerOrdered, n
<1>13. u # NoAction => u <= n
  BY DEF n
<1>14. LedgerNumbered'
  <2>1. IdsIncrease(kept)
    <3> SUFFICES ASSUME NEW k \in 1..Len(kept), NEW l \in 1..Len(kept), k < l PROVE kept[k].id < kept[l].id
      BY <1>10 DEF IdsIncrease
    <3>1. d + k < d + l
      BY <1>10
    <3> QED
      BY <1>9, <1>11, <3>1
  <2>2. \A k \in DOMAIN kept : kept[k].id <= n + 1 /\ kept[k].id >= 1
    BY <1>8, <1>10, <1>11
  <2>3. \A id \in ledger'.undone : id <= n + 1
    <3> SUFFICES ASSUME NEW id \in ledger'.undone PROVE id <= n + 1
      OBVIOUS
    <3>1. id \in ledger.undone \/ (u # NoAction /\ id = u)
      BY <1>2
    <3> QED
      BY <1>3, <1>12, <1>13, <3>1
  <2> QED
    BY <1>1, <2>1, <2>2, <2>3 DEF LedgerNumbered, LedgerOrdered, kept
<1>15. MarksExact'
  <2> SUFFICES ASSUME NEW i \in 1..Len(kept)
               PROVE  kept[i].id \in ledger'.undone <=>
                        \E j \in 1..Len(kept) : j > i /\ kept[j].undoOf = kept[i].id
    <3>1. DOMAIN ledger'.actions = 1..Len(kept)
      BY <1>10 DEF kept
    <3> QED
      BY <3>1 DEF MarksExact, kept
  <2>1. d + i \in 1..(old + 1) /\ kept[i] = all[d + i] /\ kept[i].id \in Nat /\ kept[i].id >= 1
    BY <1>8, <1>11
  <2>2. \A x \in 1..d : all[x].id # kept[i].id
    <3> SUFFICES ASSUME NEW x \in 1..d, all[x].id = all[d + i].id PROVE FALSE
      BY <2>1
    <3>1. x \in 1..(old + 1) /\ x < d + i
      BY <1>3, <1>10, <2>1
    <3>2. all[x].id < all[d + i].id /\ all[x].id \in Nat
      BY <1>8, <1>9, <2>1, <3>1
    <3> QED
      BY <3>2
  <2>3. kept[i].id \in ledger'.undone <=> kept[i].id \in ledger.undone \/ kept[i].id = u
    BY <1>2, <2>1, <2>2 DEF NoAction
  <2>4. CASE i = Len(kept)
    <3>1. kept[i].id = n + 1
      BY <1>6, <1>7, <1>10, <2>1, <2>4
    <3>2. kept[i].id \notin ledger.undone /\ kept[i].id # u
      BY <1>3, <1>12, <1>13, <3>1 DEF NoAction
    <3>3. ~ \E j \in 1..Len(kept) : j > i
      BY <1>10, <2>4
    <3> QED
      BY <2>3, <3>2, <3>3
  <2>5. CASE i # Len(kept)
    <3>1. d + i \in 1..old /\ kept[i] = ledger.actions[d + i]
      <4>1. d + i # old + 1
        <5>1. Len(kept) \in Nat /\ d \in Nat /\ d + Len(kept) = old + 1
          BY <1>10
        <5> QED
          BY <2>5, <5>1
      <4>2. d + i \in 1..old
        BY <1>3, <2>1, <4>1
      <4> QED
        BY <1>7, <2>1, <4>2
    <3>2. kept[i].id \in ledger.undone <=>
            \E x \in 1..old : x > d + i /\ ledger.actions[x].undoOf = kept[i].id
      BY <1>3, <3>1 DEF MarksExact
    <3>3. ASSUME kept[i].id \in ledger'.undone
          PROVE  \E j \in 1..Len(kept) : j > i /\ kept[j].undoOf = kept[i].id
      <4>1. CASE kept[i].id = u
        <5>1. Len(kept) \in 1..Len(kept) /\ Len(kept) > i /\ kept[Len(kept)] = e
          <6>1. Len(kept) \in 1..Len(kept) /\ Len(kept) > i
            <7>1. Len(kept) \in Nat /\ Len(kept) >= 1
              BY <1>10
            <7> QED
              BY <2>5, <7>1
          <6>2. kept[Len(kept)] = all[old + 1]
            BY <1>10, <1>11, <6>1
          <6> QED
            BY <1>7, <6>1, <6>2
        <5> QED
          BY <1>6, <4>1, <5>1
      <4>2. CASE kept[i].id \in ledger.undone
        <5>1. PICK x \in 1..old : x > d + i /\ ledger.actions[x].undoOf = kept[i].id
          BY <3>2, <4>2
        <5>2. x - d \in 1..Len(kept) /\ x - d > i /\ d + (x - d) = x
          BY <1>3, <1>10, <5>1
        <5>3. kept[x - d] = ledger.actions[x]
          BY <1>7, <1>11, <5>2
        <5> QED
          BY <5>1, <5>2, <5>3
      <4> QED
        BY <2>3, <3>3, <4>1, <4>2
    <3>4. ASSUME NEW j \in 1..Len(kept), j > i, kept[j].undoOf = kept[i].id
          PROVE  kept[i].id \in ledger'.undone
      <4>1. d + j \in 1..(old + 1) /\ kept[j] = all[d + j] /\ d + j > d + i
        BY <1>10, <1>11, <3>4
      <4>2. CASE d + j = old + 1
        BY <1>6, <1>7, <2>3, <3>4, <4>1, <4>2
      <4>3. CASE d + j # old + 1
        <5>1. d + j \in 1..old
          BY <1>3, <4>1, <4>3
        <5> QED
          BY <1>7, <2>3, <3>2, <3>4, <4>1, <5>1
      <4> QED
        BY <4>2, <4>3
    <3> QED
      BY <3>3, <3>4
  <2> QED
    BY <2>4, <2>5
<1>16. \A i \in FileTail : /\ i \in 1..Len(audit.lines) /\ Noted(i).id \in Nat /\ Noted(i).undoOf \in Nat
                           /\ Noted(i).id >= 1 /\ Noted(i).id <= n /\ Noted(i).undoOf < Noted(i).id
  <2>1. audit.lines \in Seq(AuditLine)
    BY DEF LedgerTypeOK, AuditLine
  <2>2. \A i \in FileTail : i \in 1..Len(audit.lines) /\ Noted(i) \in Entry
    BY <2>1, NotedType
  <2> QED
    BY <1>3, <2>2 DEF FileOrdered, Entry, n
<1>17. \A i \in FileTail' :
         \/ i \in FileTail /\ Noted(i)' = Noted(i)
         \/ i = Len(audit.lines) + 1 /\ Noted(i)' = e
  BY DEF e
<1>18. FileOrdered'
  <2>1. ASSUME NEW i \in FileTail' PROVE Noted(i)'.id \in 1..(n + 1) /\ Noted(i)'.undoOf < Noted(i)'.id
    <3>1. CASE i \in FileTail /\ Noted(i)' = Noted(i)
      BY <1>3, <1>16, <3>1
    <3>2. CASE Noted(i)' = e
      BY <1>3, <1>6, <1>13, <3>2 DEF NoAction
    <3> QED
      BY <1>17, <3>1, <3>2
  <2>2. ASSUME NEW i \in FileTail', NEW j \in FileTail', i < j PROVE Noted(i)'.id < Noted(j)'.id
    <3>1. i \in FileTail /\ Noted(i)' = Noted(i)
      <4>1. Len(audit.lines) \in Nat
        BY DEF LedgerTypeOK
      <4> QED
        BY <1>16, <1>17, <2>2, <4>1
    <3>2. CASE j \in FileTail /\ Noted(j)' = Noted(j)
      BY <2>2, <3>1, <3>2 DEF FileOrdered
    <3>3. CASE Noted(j)' = e
      BY <1>3, <1>6, <1>16, <3>1, <3>3
    <3> QED
      BY <1>17, <3>2, <3>3
  <2>3. ASSUME NEW i \in FileTail', NEW j \in FileTail', Noted(i)'.undoOf = Noted(j)'.undoOf,
               Noted(i)'.undoOf # NoAction
        PROVE  i = j
    <3>1. CASE i \in FileTail /\ Noted(i)' = Noted(i) /\ j \in FileTail /\ Noted(j)' = Noted(j)
      BY <2>3, <3>1 DEF FileOrdered
    <3>2. CASE Noted(i)' = e \/ Noted(j)' = e
      <4>1. Noted(i)'.undoOf = u /\ Noted(j)'.undoOf = u /\ \A x \in FileTail : Noted(x).undoOf # u
        BY <1>6, <2>3, <3>2
      <4> QED
        BY <1>17, <4>1
    <3> QED
      BY <1>17, <3>1, <3>2
  <2> QED
    BY <1>1, <2>1, <2>2, <2>3 DEF FileOrdered
<1>19. FileInLedger'
  <2> SUFFICES ASSUME NEW i \in FileTail', NEW k \in 1..Len(kept), Noted(i)'.id >= kept[k].id
               PROVE  \E m \in 1..Len(kept) : kept[m] = Noted(i)'
    BY <1>10 DEF FileInLedger, kept
  <2>1. CASE Noted(i)' = e
    BY <1>7, <1>10, <1>11, <2>1
  <2>2. CASE i \in FileTail /\ Noted(i)' = Noted(i)
    <3>1. k # Len(kept)
      <4>1. ASSUME k = Len(kept) PROVE FALSE
        <5>1. kept[k] = all[old + 1]
          BY <1>10, <1>11, <4>1
        <5>2. kept[k].id = n + 1
          BY <1>6, <1>7, <5>1
        <5> QED
          BY <1>3, <1>16, <2>2, <5>2
      <4> QED
        BY <4>1
    <3>2. d + k \in 1..old /\ kept[k] = ledger.actions[d + k]
      <4>1. d + k # old + 1
        <5>1. Len(kept) \in Nat /\ d \in Nat /\ d + Len(kept) = old + 1
          BY <1>10
        <5> QED
          BY <3>1, <5>1
      <4>2. d + k \in 1..old
        BY <1>3, <1>11, <4>1
      <4> QED
        BY <1>7, <1>11, <4>2
    <3>3. PICK m \in 1..old : ledger.actions[m] = Noted(i)
      BY <1>3, <2>2, <3>2 DEF FileInLedger
    <3>4. m >= d + k
      <4>1. ledger.actions[m].id >= ledger.actions[d + k].id
        BY <2>2, <3>2, <3>3
      <4>2. ~(m < d + k)
        BY <1>4, <1>5, <3>2, <4>1
      <4> QED
        BY <1>3, <3>2, <4>2
    <3>5. m - d \in 1..Len(kept) /\ d + (m - d) = m
      BY <1>3, <1>10, <3>2, <3>4
    <3>6. kept[m - d] = ledger.actions[m]
      BY <1>7, <1>11, <3>5
    <3> QED
      BY <2>2, <3>3, <3>5, <3>6
  <2> QED
    BY <1>17, <2>1, <2>2
<1> QED
  BY <1>14, <1>15, <1>18, <1>19


LEMMA RecordKeeps ==
  ASSUME LedgerInv, NEW act \in Acts, NEW u \in {NoAction, undoing}, RecordAndAudit(act, u), undoing' \in Nat
  PROVE  /\ LedgerTypeOK' /\ (~unreadable' => LedgerAndFile')
         /\ ledger'.nextId = ledger.nextId + 1 /\ unreadable' = unreadable
         /\ \A i \in FileTail' : \/ i \in FileTail /\ Noted(i)' = Noted(i)
                                 \/ Noted(i)'.undoOf = u
<1>1. LedgerTypeOK /\ (~unreadable => LedgerAndFile /\ UndoPending)
  BY DEF LedgerInv, LedgerAndFile
<1>2. u \in Nat /\ (~unreadable /\ u # NoAction => u <= ledger.nextId /\ \A i \in FileTail : Noted(i).undoOf # u)
  BY <1>1 DEF LedgerTypeOK, UndoPending, NoAction
<1>3. /\ ledger' = RecordInternal(ledger, [id |-> 0, undoOf |-> u, act |-> act, restore |-> NoRestore])
      /\ unreadable' = unreadable
      /\ \E outcome \in AppendOutcomes :
           audit' = AppendJsonLine(audit, Executed(ledger'.actions[Len(ledger'.actions)]), outcome)
  BY DEF RecordAndAudit
<1>4. Recorded(act, u) \in Entry /\ ledger'.nextId = ledger.nextId + 1 /\ ledger'.actions \in Seq(Entry)
  BY <1>1, <1>2, <1>3, RecordEffect
<1>5. PICK all, d : NextLedger(all, d, Recorded(act, u))
  BY <1>1, <1>2, <1>3, RecordEffect
<1>6. ledger'.actions[Len(ledger'.actions)] = Recorded(act, u)
  <2>1. Len(ledger.actions) \in Nat /\ Len(ledger'.actions) \in Nat
    BY <1>1, <1>4 DEF LedgerTypeOK
  <2>2. d \in 0..Len(ledger.actions) /\ Len(ledger'.actions) = Len(ledger.actions) + 1 - d
    BY <1>5 DEF NextLedger
  <2>3. Len(ledger'.actions) \in 1..Len(ledger'.actions) /\ d + Len(ledger'.actions) = Len(ledger.actions) + 1
    BY <2>1, <2>2
  <2> QED
    BY <1>5, <2>3 DEF NextLedger
<1>7. PICK outcome \in AppendOutcomes : audit' = AppendJsonLine(audit, Executed(Recorded(act, u)), outcome)
  BY <1>3, <1>6
<1>8. Executed(Recorded(act, u)) \in AuditLine /\ Executed(Recorded(act, u)).action = Recorded(act, u)
  BY <1>4 DEF Executed, AuditLine
<1>9. audit.lines \in Seq(AuditLine) /\ audit.open \in BOOLEAN
  BY <1>1 DEF LedgerTypeOK, AuditLine
<1>10. /\ audit'.lines \in Seq(AuditLine) /\ audit'.open \in BOOLEAN
       /\ \A i \in FileTail' : \/ i \in FileTail /\ Noted(i)' = Noted(i)
                               \/ i = Len(audit.lines) + 1 /\ Noted(i)' = Recorded(act, u)
  <2> HIDE DEF Recorded
  <2>1. /\ audit'.lines \in Seq(AuditLine) /\ audit'.open \in BOOLEAN
        /\ \A i \in FileTail' : \/ i \in FileTail /\ Noted(i)' = Noted(i)
                                \/ i = Len(audit.lines) + 1 /\ Executed(Recorded(act, u)).status = "executed"
                                   /\ Noted(i)' = Executed(Recorded(act, u)).action
    BY <1>7, <1>8, <1>9, AppendEffect
  <2> QED
    BY <1>8, <2>1
<1>11. \A i \in FileTail' : \/ i \in FileTail /\ Noted(i)' = Noted(i)
                            \/ Noted(i)'.undoOf = u
  BY <1>10 DEF Recorded
<1>12. ledger'.undone \subseteq Nat
  <2>1. \A x \in ledger'.undone : x \in ledger.undone \/ x = u
    BY <1>5 DEF NextLedger, Recorded
  <2> QED
    BY <1>1, <1>2, <2>1 DEF LedgerTypeOK
<1>13. LedgerTypeOK'
  BY <1>1, <1>4, <1>10, <1>12 DEF LedgerTypeOK, AuditLine
<1>14. ASSUME ~unreadable PROVE LedgerAndFile'
  BY <1>1, <1>2, <1>3, <1>10, <1>14, RecordSound DEF LedgerAndFile
<1> QED
  BY <1>3, <1>4, <1>11, <1>13, <1>14

LEMMA LastUndoableIsLive ==
  ASSUME LedgerTypeOK, Undoable(ledger) # {}
  PROVE  \E k \in DOMAIN ledger.actions :
           LastUndoable(ledger) = ledger.actions[k] /\ ledger.actions[k].id \notin ledger.undone
<1>1. Undoable(ledger) \subseteq 1..Len(ledger.actions) /\ Len(ledger.actions) \in Nat
      /\ \A i \in Undoable(ledger) : ledger.actions[i].id \notin ledger.undone
  BY DEF LedgerTypeOK, Undoable
<1>2. \E i \in Undoable(ledger) : \A j \in Undoable(ledger) : j <= i
  BY <1>1, LargestOf
<1>3. PICK k : k = CHOOSE i \in Undoable(ledger) : \A j \in Undoable(ledger) : j <= i
  OBVIOUS
<1>4. k \in Undoable(ledger) /\ LastUndoable(ledger) = ledger.actions[k]
  BY <1>2, <1>3 DEF LastUndoable
<1> QED
  BY <1>1, <1>4 DEF LedgerTypeOK

(* No undo that was written down has marked what last_undoable offers. *)
LEMMA UndoKeeps ==
  ASSUME LedgerInv, BeginUndo
  PROVE  LedgerInv'
<1>1. LedgerTypeOK /\ (~unreadable => LedgerAndFile /\ UndoPending)
  BY DEF LedgerInv, LedgerAndFile
<1>2. /\ undoing' = LastUndoable(ledger).id /\ Undoable(ledger) # {}
      /\ UNCHANGED <<ledger, audit, recorded, boots, unreadable>>
  BY DEF BeginUndo
<1>3. PICK k \in DOMAIN ledger.actions :
        LastUndoable(ledger) = ledger.actions[k] /\ ledger.actions[k].id \notin ledger.undone
  BY <1>1, <1>2, LastUndoableIsLive
<1>4. DOMAIN ledger.actions = 1..Len(ledger.actions) /\ \A n \in DOMAIN ledger.actions : ledger.actions[n].id \in Nat
  <2>1. ledger.actions \in Seq(Entry)
    BY <1>1 DEF LedgerTypeOK
  <2>2. DOMAIN ledger.actions = 1..Len(ledger.actions) /\ \A n \in DOMAIN ledger.actions : ledger.actions[n] \in Entry
    BY <2>1
  <2> QED
    BY <2>2 DEF Entry
<1>5. undoing' = ledger.actions[k].id /\ undoing' \in Nat
  BY <1>2, <1>3, <1>4
<1>6. LedgerTypeOK'
  BY <1>1, <1>2, <1>5 DEF LedgerTypeOK
<1>7. FileTail' = FileTail /\ \A i : Noted(i)' = Noted(i)
  BY <1>2 DEF FileTail, Noted
<1>8. ASSUME ~unreadable PROVE LedgerAndFile' /\ UndoPending'
  <2>1. LedgerAndFile'
    BY <1>1, <1>2, <1>7, <1>8 DEF LedgerAndFile, LedgerNumbered, LedgerOrdered, MarksExact, FileOrdered, FileInLedger
  <2>2. ASSUME NEW i \in FileTail, Noted(i).undoOf = ledger.actions[k].id PROVE FALSE
    <3>1. Noted(i).undoOf < Noted(i).id /\ Noted(i).id \in Nat
      BY <1>1, <1>8 DEF LedgerAndFile, FileOrdered
    <3>2. PICK n \in DOMAIN ledger.actions : ledger.actions[n] = Noted(i)
      BY <1>1, <1>4, <1>8, <2>2, <3>1 DEF LedgerAndFile, FileInLedger
    <3>3. ledger.actions[k].id < ledger.actions[n].id
      BY <2>2, <3>1, <3>2
    <3>4. ~(n < k) /\ n # k
      BY <1>1, <1>4, <1>8, <3>3 DEF LedgerAndFile, LedgerNumbered, LedgerOrdered, IdsIncrease
    <3>5. n > k /\ ledger.actions[n].undoOf = ledger.actions[k].id
      BY <1>4, <2>2, <3>2, <3>4
    <3> QED
      BY <1>1, <1>3, <1>8, <3>5 DEF LedgerAndFile, MarksExact
  <2>3. ledger.actions[k].id <= ledger.nextId
    BY <1>1, <1>8 DEF LedgerAndFile, LedgerNumbered, LedgerOrdered
  <2> QED
    BY <1>2, <1>5, <1>7, <2>1, <2>2, <2>3 DEF UndoPending
<1> QED
  BY <1>2, <1>6, <1>8 DEF LedgerInv, LedgerAndFile

LEMMA HydrateKeeps ==
  ASSUME LedgerInv, Restart
  PROVE  LedgerInv'
<1>1. LedgerTypeOK /\ (~unreadable => LedgerAndFile)
  BY DEF LedgerInv, LedgerAndFile
<1>2. audit.lines \in Seq(AuditLine) /\ ledger.nextId \in Nat
  BY <1>1 DEF LedgerTypeOK, AuditLine
<1>3. /\ audit' = audit /\ undoing' = NoAction
      /\ \/ ledger' = Hydrate(ReadRecentExecuted(audit)) /\ unreadable' = unreadable
         \/ ledger' = Hydrate(<<>>) /\ unreadable' = TRUE
  BY DEF Restart
<1>4. LedgerTypeOK'
  <2>1. ReadRecentExecuted(audit) \in Seq(Entry) /\ <<>> \in Seq(Entry)
    BY <1>2, ReadBack
  <2>2. ledger'.nextId \in Nat /\ ledger'.actions \in Seq(Entry) /\ ledger'.undone \subseteq Nat
    BY <1>3, <2>1, HydrateType
  <2> QED
    BY <1>1, <1>3, <2>2 DEF LedgerTypeOK, NoAction
<1>5. ASSUME ~unreadable' PROVE LedgerAndFile' /\ UndoPending'
  <2>1. ledger' = Hydrate(ReadRecentExecuted(audit)) /\ ~unreadable
    BY <1>3, <1>5
  <2> QED
    BY <1>1, <1>2, <1>3, <2>1, HydrateSound DEF LedgerAndFile, UndoPending
<1> QED
  BY <1>4, <1>5 DEF LedgerInv, LedgerAndFile

LEMMA AuditKeeps ==
  ASSUME LedgerInv, AuditOther
  PROVE  LedgerInv'
<1>1. LedgerTypeOK /\ (~unreadable => LedgerAndFile /\ UndoPending)
  BY DEF LedgerInv, LedgerAndFile
<1>2. PICK outcome \in AppendOutcomes : audit' = AppendJsonLine(audit, Other, outcome)
  BY DEF AuditOther
<1>3. ledger' = ledger /\ unreadable' = unreadable /\ undoing' \in {undoing, NoAction}
  BY DEF AuditOther
<1>4. Other \in AuditLine /\ Other.status # "executed"
  BY DEF Other, AuditLine
<1>5. audit.lines \in Seq(AuditLine) /\ audit.open \in BOOLEAN
  BY <1>1 DEF LedgerTypeOK, AuditLine
<1>6. /\ audit'.lines \in Seq(AuditLine) /\ audit'.open \in BOOLEAN
      /\ \A i \in FileTail' : i \in FileTail /\ Noted(i)' = Noted(i)
  BY <1>2, <1>4, <1>5, AppendEffect
<1>7. LedgerTypeOK'
  BY <1>1, <1>3, <1>6 DEF LedgerTypeOK, AuditLine, NoAction
<1>8. ASSUME ~unreadable PROVE LedgerAndFile' /\ UndoPending'
  <2>1. LedgerNumbered' /\ MarksExact'
    BY <1>1, <1>3, <1>8 DEF LedgerAndFile, LedgerNumbered, LedgerOrdered, MarksExact
  <2>2. FileOrdered'
    BY <1>1, <1>3, <1>6, <1>8 DEF LedgerAndFile, FileOrdered
  <2>3. FileInLedger'
    BY <1>1, <1>3, <1>6, <1>8 DEF LedgerAndFile, FileInLedger
  <2>4. UndoPending'
    BY <1>1, <1>3, <1>6, <1>8 DEF UndoPending
  <2> QED
    BY <2>1, <2>2, <2>3, <2>4 DEF LedgerAndFile
<1> QED
  BY <1>3, <1>7, <1>8 DEF LedgerInv, LedgerAndFile

LEMMA LedgerStepKeeps == LedgerInv /\ [LedgerNext]_ledgerVars => LedgerInv'
<1> SUFFICES ASSUME LedgerInv, [LedgerNext]_ledgerVars PROVE LedgerInv'
  OBVIOUS
<1>1. LedgerTypeOK /\ (~unreadable => UndoPending)
  BY DEF LedgerInv
<1>2. CASE ExecuteAction
  <2>1. PICK act \in Acts : RecordAndAudit(act, NoAction) /\ undoing' = undoing
    BY <1>2 DEF ExecuteAction
  <2>2. undoing' \in Nat /\ undoing \in Nat
    BY <1>1, <2>1 DEF LedgerTypeOK
  <2>3. /\ LedgerTypeOK' /\ (~unreadable' => LedgerAndFile')
        /\ ledger'.nextId = ledger.nextId + 1 /\ unreadable' = unreadable
        /\ \A i \in FileTail' : \/ i \in FileTail /\ Noted(i)' = Noted(i)
                                \/ Noted(i)'.undoOf = NoAction
    BY <2>1, <2>2, RecordKeeps
  <2>4. ~unreadable' => UndoPending'
    BY <1>1, <2>1, <2>2, <2>3 DEF UndoPending, LedgerTypeOK
  <2> QED
    BY <2>3, <2>4 DEF LedgerInv, LedgerAndFile
<1>3. CASE FinishUndo
  <2>1. PICK act \in Acts : RecordAndAudit(act, undoing) /\ undoing' = NoAction
    BY <1>3 DEF FinishUndo
  <2>2. undoing' \in Nat
    BY <2>1 DEF NoAction
  <2>3. LedgerTypeOK' /\ (~unreadable' => LedgerAndFile')
    BY <2>1, <2>2, RecordKeeps
  <2> QED
    BY <2>1, <2>3 DEF LedgerInv, LedgerAndFile, UndoPending
<1>4. CASE UNCHANGED ledgerVars
  BY <1>4 DEF ledgerVars, LedgerInv, LedgerAndFile, LedgerTypeOK, LedgerNumbered, LedgerOrdered, MarksExact, FileOrdered,
              FileInLedger, UndoPending, FileTail, Noted
<1> QED
  BY <1>2, <1>3, <1>4, UndoKeeps, AuditKeeps, HydrateKeeps DEF LedgerNext

LEMMA LedgerStarts == LedgerInit => LedgerInv
<1> SUFFICES ASSUME LedgerInit PROVE LedgerInv
  OBVIOUS
<1>1. ledger.nextId = 0 /\ ledger.actions = <<>> /\ ledger.undone = {} /\ audit.lines = <<>> /\ audit.open = FALSE
      /\ undoing = NoAction
  BY DEF LedgerInit, EmptyLedger, EmptyLog
<1>2. LedgerTypeOK
  <2>1. <<>> \in Seq(Entry) /\ <<>> \in Seq(AuditLine)
    OBVIOUS
  <2>2. ledger.nextId \in Nat /\ ledger.undone \subseteq Nat /\ undoing \in Nat
    BY <1>1 DEF NoAction
  <2>3. audit.open \in BOOLEAN
    BY <1>1
  <2>4. ledger.actions \in Seq(Entry) /\ audit.lines \in Seq(AuditLine)
    BY <1>1, <2>1, Zenon
  <2> QED
    BY <2>2, <2>3, <2>4, Zenon DEF LedgerTypeOK, AuditLine
<1>3. FileTail = {} /\ DOMAIN ledger.actions = {}
  BY <1>1 DEF FileTail, ExecutedTail
<1> QED
  BY <1>1, <1>2, <1>3 DEF LedgerInv, LedgerAndFile, LedgerNumbered, LedgerOrdered, IdsIncrease, MarksExact, FileOrdered,
                          FileInLedger, UndoPending

(***************************************************************************)
(* For any limits, actions, failed or torn appends, undos in flight and    *)
(* restarts: as long as every restart could read the file, the ledger's    *)
(* ids increase, its undo marks are exact, and what a restart would read   *)
(* back is a history in which nothing is undone twice (record_internal,    *)
(* hydrate, read_recent_executed_actions).                                 *)
(***************************************************************************)
THEOREM LedgerAlwaysSound == LedgerSpec => []LedgerSound
<1>1. LedgerInv => LedgerSound
  <2> SUFFICES ASSUME LedgerInv PROVE LedgerSound
    OBVIOUS
  <2>1. LedgerOrdered /\ MarksExact
    BY DEF LedgerInv, LedgerAndFile, LedgerNumbered, LedgerOrdered, MarksExact
  <2>2. DurableHistorySound
    <3> SUFFICES ASSUME ~unreadable PROVE DurableHistorySound
      BY DEF DurableHistorySound
    <3> DEFINE past == ReadRecentExecuted(audit)
    <3>1. FileOrdered /\ audit.lines \in Seq(AuditLine)
      BY DEF LedgerInv, LedgerAndFile, LedgerTypeOK, AuditLine
    <3>2. past \in Seq(Entry)
          /\ \E at \in [1..Len(past) -> FileTail] :
               /\ \A k \in 1..Len(past) : past[k] = Noted(at[k])
               /\ \A k, l \in 1..Len(past) : k < l <=> at[k] < at[l]
      BY <3>1, ReadBack
    <3>3. PICK at \in [1..Len(past) -> FileTail] :
            /\ \A k \in 1..Len(past) : past[k] = Noted(at[k])
            /\ \A k, l \in 1..Len(past) : k < l <=> at[k] < at[l]
      BY <3>2
    <3> HIDE DEF past
    <3>4. DOMAIN past = 1..Len(past) /\ Len(past) \in Nat
      BY <3>2
    <3>5. \A k \in 1..Len(past) : at[k] \in FileTail
      BY <3>3
    <3>6. IdsIncrease(past) /\ \A i \in DOMAIN past : past[i].undoOf < past[i].id
      BY <3>1, <3>3, <3>4, <3>5 DEF IdsIncrease, FileOrdered
    <3>7. ASSUME NEW i \in 1..Len(past), NEW j \in 1..Len(past), past[i].undoOf = past[j].undoOf,
                 past[i].undoOf # NoAction
          PROVE  i = j
      <4>1. at[i] = at[j]
        BY <3>1, <3>3, <3>5, <3>7 DEF FileOrdered
      <4>2. at[i] \in Int
        BY <3>1, <3>5, NotedType
      <4>3. ~(i < j) /\ ~(j < i)
        BY <3>3, <4>1, <4>2
      <4> QED
        BY <3>4, <4>3
    <3> QED
      BY <3>4, <3>6, <3>7 DEF DurableHistorySound, past
  <2> QED
    BY <2>1, <2>2 DEF LedgerSound
<1> QED
  BY <1>1, LedgerStarts, LedgerStepKeeps, PTL DEF LedgerSpec
=============================================================================
