--------------------------- MODULE ActuationProofs --------------------------
(***************************************************************************)
(* Every applied service call has a slot of the rate window of its own,    *)
(* and every guarded one a token of its own, for any household, policy,    *)
(* number of confirm handlers and restarts.                                *)
(*                                                                         *)
(* A slot has at most one claim on it at any time: a request that has not  *)
(* executed yet, a pending token, or a service call.  Every step moves a   *)
(* claim along this chain or drops it; a token goes the same way, from     *)
(* the pending map through the handler that confirmed it.                  *)
(*                                                                         *)
(* An undo restores what was captured: every record and request keeps      *)
(* pointing at its service call, and the calls on a device form a chain.   *)
(***************************************************************************)
EXTENDS Actuation, FiniteSetTheorems, TLAPS

(* A sequence, of whatever values. *)
Sequence(s) == \E S : s \in Seq(S)

Shape ==
  /\ Sequence(slots) /\ Sequence(issued) /\ Sequence(runs)
  /\ pending \subseteq DOMAIN issued
  /\ req = [p \in Procs |-> req[p]]
  /\ \A p \in Procs : req[p] = [f \in DOMAIN Idle |-> req[p][f]]

Holds(p) == req[p].pc \in Awaiting

(* A claim's slot was charged to the claim's origin. *)
ClaimsPaid ==
  /\ \A p \in Procs : Holds(p) =>
       req[p].slot \in DOMAIN slots /\ slots[req[p].slot].origin = req[p].origin
  /\ \A t \in pending :
       issued[t].slot \in DOMAIN slots /\ slots[issued[t].slot].origin = issued[t].origin

(* No two claims share a slot. *)
ClaimsDistinct ==
  /\ \A p, q \in Procs : Holds(p) /\ Holds(q) /\ req[p].slot = req[q].slot => p = q
  /\ \A t, u \in pending : issued[t].slot = issued[u].slot => t = u
  /\ \A p \in Procs, t \in pending : Holds(p) => req[p].slot # issued[t].slot
  /\ \A p \in Procs, i \in DOMAIN runs : Holds(p) => req[p].slot # runs[i].slot
  /\ \A t \in pending, i \in DOMAIN runs : issued[t].slot # runs[i].slot

IInv == Shape /\ ClaimsPaid /\ ClaimsDistinct /\ EveryExecutionPaid

-----------------------------------------------------------------------------
LEMMA AppendFacts ==
  ASSUME NEW s, NEW e, Sequence(s)
  PROVE  /\ Sequence(Append(s, e))
         /\ Len(s) \in Nat
         /\ DOMAIN s = 1..Len(s)
         /\ DOMAIN Append(s, e) = 1..(Len(s) + 1)
         /\ Append(s, e)[Len(s) + 1] = e
         /\ \A i \in DOMAIN s : Append(s, e)[i] = s[i]
<1>1. PICK R : s \in Seq(R)
  BY DEF Sequence
<1> DEFINE S == R \cup {e}
<1>2. s \in Seq(S)
  BY <1>1
<1>3. e \in S
  OBVIOUS
<1> HIDE DEF S
<1>4. Append(s, e) \in Seq(S)
  BY <1>2, <1>3
<1>5. Sequence(Append(s, e))
  BY <1>4 DEF Sequence
<1>6. /\ Len(s) \in Nat /\ DOMAIN s = 1..Len(s)
      /\ DOMAIN Append(s, e) = 1..(Len(s) + 1)
      /\ Append(s, e)[Len(s) + 1] = e
      /\ \A i \in DOMAIN s : Append(s, e)[i] = s[i]
  BY <1>2, <1>3, <1>4
<1> QED
  BY <1>5, <1>6

LEMMA InitOK == Init => IInv
<1> SUFFICES ASSUME Init PROVE IInv
  OBVIOUS
<1>1. Sequence(<<>>)
  <2>1. <<>> \in Seq({})
    OBVIOUS
  <2> QED
    BY <2>1 DEF Sequence
<1>2. DOMAIN <<>> = {}
  OBVIOUS
<1>3. Shape
  BY <1>1, <1>2 DEF Init, Shape, Idle
<1>4. \A p \in Procs : ~Holds(p)
  BY DEF Init, Holds, Awaiting, Idle
<1> QED
  BY <1>2, <1>3, <1>4 DEF Init, IInv, ClaimsPaid, ClaimsDistinct, EveryExecutionPaid

-----------------------------------------------------------------------------
(* What the updates of one process do to all of them. *)

LEMMA GoToEffect ==
  ASSUME Shape, NEW p \in Procs, NEW pc, GoTo(p, pc)
  PROVE  /\ req' = [q \in Procs |-> req'[q]]
         /\ \A q \in Procs : req'[q] = [f \in DOMAIN Idle |-> req'[q][f]]
         /\ \A q \in Procs \ {p} : req'[q] = req[q]
         /\ req'[p].pc = pc /\ req'[p].slot = req[p].slot /\ req'[p].origin = req[p].origin
<1>1. {"pc", "slot", "origin"} \subseteq DOMAIN Idle
  BY DEF Idle
<1>2. req' = [req EXCEPT ![p] = [req[p] EXCEPT !.pc = pc]]
  BY DEF GoTo
<1>3. req[p] = [f \in DOMAIN Idle |-> req[p][f]]
  BY DEF Shape
<1>4. \A q \in Procs \ {p} : req'[q] = req[q]
  BY <1>2 DEF Shape
<1>5. req'[p] = [req[p] EXCEPT !.pc = pc]
  BY <1>2 DEF Shape
<1>6. /\ req'[p] = [f \in DOMAIN Idle |-> req'[p][f]]
      /\ req'[p].pc = pc /\ req'[p].slot = req[p].slot /\ req'[p].origin = req[p].origin
  BY <1>1, <1>3, <1>5
<1>7. req' = [q \in Procs |-> req'[q]]
  BY <1>2 DEF Shape
<1> QED
  BY <1>4, <1>6, <1>7 DEF Shape

(* Replacing the record of one process by another of the same shape. *)
LEMMA ReplaceEffect ==
  ASSUME Shape, NEW p \in Procs, NEW r, r = [f \in DOMAIN Idle |-> r[f]],
         req' = [req EXCEPT ![p] = r]
  PROVE  /\ req' = [q \in Procs |-> req'[q]]
         /\ \A q \in Procs : req'[q] = [f \in DOMAIN Idle |-> req'[q][f]]
         /\ \A q \in Procs \ {p} : req'[q] = req[q]
         /\ req'[p] = r
<1>1. req' = [q \in Procs |-> req'[q]] /\ req'[p] = r
      /\ \A q \in Procs \ {p} : req'[q] = req[q]
  BY DEF Shape
<1> QED
  BY <1>1 DEF Shape

(* Claims can only be dropped: the slots and service calls stay. *)
LEMMA DropClaims ==
  ASSUME IInv, slots' = slots, runs' = runs, issued' = issued, pending' \subseteq pending,
         req' = [q \in Procs |-> req'[q]],
         \A q \in Procs : req'[q] = [f \in DOMAIN Idle |-> req'[q][f]],
         \A q \in Procs : Holds(q)' => /\ Holds(q)
                                       /\ req'[q].slot = req[q].slot
                                       /\ req'[q].origin = req[q].origin
  PROVE  IInv'
<1>1. Shape'
  BY DEF IInv, Shape
<1>2. ClaimsPaid'
  BY DEF IInv, ClaimsPaid
<1>3. ClaimsDistinct'
  BY DEF IInv, ClaimsDistinct
<1>4. EveryExecutionPaid'
  BY DEF IInv, EveryExecutionPaid
<1> QED
  BY <1>1, <1>2, <1>3, <1>4 DEF IInv

(* A process goes on or gives up. *)
LEMMA MoveOn ==
  ASSUME IInv, NEW p \in Procs, Holds(p) \/ req[p].pc = "record",
         slots' = slots, runs' = runs, issued' = issued, pending' \subseteq pending,
         Finish(p) \/ (Holds(p) /\ \E pc : GoTo(p, pc))
  PROVE  IInv'
<1>1. CASE Finish(p)
  <2>1. Idle = [f \in DOMAIN Idle |-> Idle[f]] /\ Idle.pc = "idle"
    BY DEF Idle
  <2>2. /\ req' = [q \in Procs |-> req'[q]]
        /\ \A q \in Procs : req'[q] = [f \in DOMAIN Idle |-> req'[q][f]]
        /\ \A q \in Procs \ {p} : req'[q] = req[q]
        /\ req'[p] = Idle
    BY <1>1, <2>1, ReplaceEffect DEF Finish, IInv
  <2>3. \A q \in Procs : Holds(q)' => Holds(q) /\ req'[q] = req[q]
    BY <2>1, <2>2 DEF Holds, Awaiting
  <2> QED
    BY <2>2, <2>3, DropClaims
<1>2. CASE Holds(p) /\ \E pc : GoTo(p, pc)
  <2>1. PICK pc : GoTo(p, pc)
    BY <1>2
  <2>2. /\ req' = [q \in Procs |-> req'[q]]
        /\ \A q \in Procs : req'[q] = [f \in DOMAIN Idle |-> req'[q][f]]
        /\ \A q \in Procs \ {p} : req'[q] = req[q]
        /\ req'[p].slot = req[p].slot /\ req'[p].origin = req[p].origin
    BY <2>1, GoToEffect DEF IInv
  <2>3. \A q \in Procs : Holds(q)' => /\ Holds(q)
                                      /\ req'[q].slot = req[q].slot
                                      /\ req'[q].origin = req[q].origin
    BY <1>2, <2>2 DEF Holds
  <2> QED
    BY <2>2, <2>3, DropClaims
<1> QED
  BY <1>1, <1>2

-----------------------------------------------------------------------------
(* The four ways a claim arises or changes hands. *)

LEMMA AdmitEffect ==
  ASSUME Shape, NEW p \in Procs, NEW cmd, NEW origin, NEW token, NEW undo, NEW slot,
         Admit(p, cmd, origin, token, undo, slot)
  PROVE  /\ req' = [q \in Procs |-> req'[q]]
         /\ \A q \in Procs : req'[q] = [f \in DOMAIN Idle |-> req'[q][f]]
         /\ \A q \in Procs \ {p} : req'[q] = req[q]
         /\ req'[p].slot = slot /\ req'[p].origin = origin
<1> DEFINE r == [pc |-> FirstStop(cmd.act, undo.id), dev |-> cmd.dev, act |-> cmd.act,
                 val |-> cmd.val, origin |-> origin, token |-> token, undoOf |-> undo.id,
                 restore |-> NoRestore, slot |-> slot,
                 orig |-> undo.run, seen |-> 0, at |-> now]
<1>1. req' = [req EXCEPT ![p] = r]
  BY DEF Admit
<1>2. r = [f \in DOMAIN Idle |-> r[f]]
  BY DEF Idle
<1>3. r.slot = slot /\ r.origin = origin
  OBVIOUS
<1> HIDE DEF r
<1> QED
  BY <1>1, <1>2, <1>3, ReplaceEffect

(* A fresh slot for a process that held none. *)
LEMMA NewSlot ==
  ASSUME IInv, NEW p \in Procs, ~Holds(p), NEW cmd, NEW origin, NEW undo, NEW at, NEW boot,
         slots' = Append(slots, [origin |-> origin, at |-> at, boot |-> boot]),
         Admit(p, cmd, origin, NoToken, undo, Len(slots) + 1),
         runs' = runs, issued' = issued, pending' = pending
  PROVE  IInv'
<1> DEFINE n == Len(slots) + 1
           e == [origin |-> origin, at |-> at, boot |-> boot]
<1>1. /\ Sequence(slots') /\ n \in Nat /\ n \notin DOMAIN slots
      /\ n \in DOMAIN slots' /\ slots'[n].origin = origin
      /\ \A i \in DOMAIN slots : i \in DOMAIN slots' /\ slots'[i] = slots[i]
  <2>1. Sequence(slots) /\ slots' = Append(slots, e) /\ e.origin = origin
    BY DEF IInv, Shape
  <2> HIDE DEF e
  <2> QED
    BY <2>1, AppendFacts
<1>2. /\ req' = [q \in Procs |-> req'[q]]
      /\ \A q \in Procs : req'[q] = [f \in DOMAIN Idle |-> req'[q][f]]
      /\ \A q \in Procs \ {p} : req'[q] = req[q]
      /\ req'[p].slot = n /\ req'[p].origin = origin
  BY AdmitEffect DEF IInv
<1> HIDE DEF n, e
<1>3. Shape'
  BY <1>1, <1>2 DEF IInv, Shape
<1>4. ClaimsPaid'
  BY <1>1, <1>2 DEF IInv, ClaimsPaid, Holds
<1>5. ClaimsDistinct'
  <2>1. /\ \A q \in Procs : Holds(q) => req[q].slot # n
        /\ \A t \in pending : issued[t].slot # n
        /\ \A i \in DOMAIN runs : runs[i].slot # n
    BY <1>1 DEF IInv, ClaimsPaid, EveryExecutionPaid
  <2>2. \A q \in Procs \ {p} : Holds(q)' => Holds(q) /\ req'[q] = req[q]
    BY <1>2 DEF Holds
  <2> QED
    BY <1>2, <2>1, <2>2 DEF IInv, ClaimsDistinct
<1>6. EveryExecutionPaid'
  BY <1>1 DEF IInv, EveryExecutionPaid
<1> QED
  BY <1>3, <1>4, <1>5, <1>6 DEF IInv

(* A token's slot goes to the handler that consumed it. *)
LEMMA TokenToRequest ==
  ASSUME IInv, NEW p \in Procs, ~Holds(p), NEW t \in pending, NEW cmd, NEW undo,
         pending' \subseteq pending \ {t},
         Admit(p, cmd, issued[t].origin, t, undo, issued[t].slot),
         slots' = slots, runs' = runs, issued' = issued
  PROVE  IInv'
<1>1. /\ req' = [q \in Procs |-> req'[q]]
      /\ \A q \in Procs : req'[q] = [f \in DOMAIN Idle |-> req'[q][f]]
      /\ \A q \in Procs \ {p} : req'[q] = req[q]
      /\ req'[p].slot = issued[t].slot /\ req'[p].origin = issued[t].origin
  BY AdmitEffect DEF IInv
<1>2. Shape'
  BY <1>1 DEF IInv, Shape
<1>3. ClaimsPaid'
  BY <1>1 DEF IInv, ClaimsPaid, Holds
<1>4. ClaimsDistinct'
  BY <1>1 DEF IInv, ClaimsDistinct, Holds
<1>5. EveryExecutionPaid'
  BY DEF IInv, EveryExecutionPaid
<1> QED
  BY <1>2, <1>3, <1>4, <1>5 DEF IInv

(* A request's slot goes to the token issued for it. *)
LEMMA RequestToToken ==
  ASSUME IInv, NEW p \in Procs, Holds(p), NEW item,
         item.slot = req[p].slot, item.origin = req[p].origin,
         issued' = Append(issued, item),
         NEW kept \in SUBSET pending, pending' = kept \cup {Len(issued) + 1},
         Finish(p), slots' = slots, runs' = runs
  PROVE  IInv'
<1> DEFINE n == Len(issued) + 1
<1>1. /\ Sequence(issued') /\ n \notin DOMAIN issued
      /\ n \in DOMAIN issued' /\ issued'[n] = item
      /\ \A i \in DOMAIN issued : i \in DOMAIN issued' /\ issued'[i] = issued[i]
  BY AppendFacts DEF IInv, Shape
<1>2. Idle = [f \in DOMAIN Idle |-> Idle[f]] /\ Idle.pc = "idle"
  BY DEF Idle
<1>3. /\ req' = [q \in Procs |-> req'[q]]
      /\ \A q \in Procs : req'[q] = [f \in DOMAIN Idle |-> req'[q][f]]
      /\ \A q \in Procs \ {p} : req'[q] = req[q]
      /\ req'[p] = Idle
  BY <1>2, ReplaceEffect DEF Finish, IInv
<1>4. /\ ~Holds(p)'
      /\ \A q \in Procs : Holds(q)' => q # p /\ Holds(q) /\ req'[q] = req[q]
  BY <1>2, <1>3 DEF Holds, Awaiting
<1>5. /\ pending' = kept \cup {n} /\ kept \subseteq DOMAIN issued
      /\ \A t \in kept : issued'[t] = issued[t]
  BY <1>1 DEF IInv, Shape
<1> HIDE DEF n
<1>6. Shape'
  BY <1>1, <1>3, <1>5 DEF IInv, Shape
<1>7. ClaimsPaid'
  BY <1>1, <1>4, <1>5 DEF IInv, ClaimsPaid
<1>8. ClaimsDistinct'
  BY <1>1, <1>4, <1>5 DEF IInv, ClaimsDistinct
<1>9. EveryExecutionPaid'
  BY DEF IInv, EveryExecutionPaid
<1> QED
  BY <1>6, <1>7, <1>8, <1>9 DEF IInv

(* A request's slot is spent on the service call. *)
LEMMA RequestToRun ==
  ASSUME IInv, NEW p \in Procs, Holds(p), NEW run,
         run.slot = req[p].slot, run.origin = req[p].origin,
         runs' = Append(runs, run), GoTo(p, "record") \/ Finish(p),
         slots' = slots, issued' = issued, pending' = pending
  PROVE  IInv'
<1> DEFINE n == Len(runs) + 1
<1>1. /\ Sequence(runs') /\ n \notin DOMAIN runs
      /\ DOMAIN runs' = DOMAIN runs \cup {n} /\ runs'[n] = run
      /\ \A i \in DOMAIN runs : runs'[i] = runs[i]
  BY AppendFacts DEF IInv, Shape
<1>2. /\ req' = [q \in Procs |-> req'[q]]
      /\ \A q \in Procs : req'[q] = [f \in DOMAIN Idle |-> req'[q][f]]
      /\ \A q \in Procs \ {p} : req'[q] = req[q]
      /\ req'[p].pc \in {"record", "idle"}
  <2>1. CASE Finish(p)
    <3>1. Idle = [f \in DOMAIN Idle |-> Idle[f]] /\ Idle.pc = "idle"
      BY DEF Idle
    <3> QED
      BY <2>1, <3>1, ReplaceEffect DEF Finish, IInv
  <2>2. CASE GoTo(p, "record")
    BY <2>2, GoToEffect DEF IInv
  <2> QED
    BY <2>1, <2>2
<1>3. \A q \in Procs : Holds(q)' => q # p /\ Holds(q) /\ req'[q] = req[q]
  BY <1>2 DEF Holds, Awaiting
<1> HIDE DEF n
<1>4. Shape'
  BY <1>1, <1>2 DEF IInv, Shape
<1>5. ClaimsPaid'
  BY <1>3 DEF IInv, ClaimsPaid
<1>6. ClaimsDistinct'
  BY <1>1, <1>3 DEF IInv, ClaimsDistinct
<1>7. EveryExecutionPaid'
  BY <1>1 DEF IInv, EveryExecutionPaid, ClaimsPaid, ClaimsDistinct
<1> QED
  BY <1>4, <1>5, <1>6, <1>7 DEF IInv

-----------------------------------------------------------------------------
LEMMA EnterKeeps ==
  ASSUME IInv, NEW p \in Procs, ~Holds(p), NEW cmd, NEW origin, NEW undo,
         EnterPlain(p, cmd, origin, undo),
         runs' = runs, issued' = issued, pending' = pending
  PROVE  IInv'
<1>1. CASE req' = req /\ slots' = slots
  BY <1>1, DropClaims DEF IInv, Shape, Holds
<1>2. CASE ~(req' = req /\ slots' = slots)
  <2>1. /\ slots' = Append(slots, [origin |-> origin, at |-> now, boot |-> boots])
        /\ Admit(p, cmd, origin, NoToken, undo, Len(slots) + 1)
    BY <1>2 DEF EnterPlain
  <2> QED
    BY <2>1, NewSlot
<1> QED
  BY <1>1, <1>2

LEMMA ResolveKeeps ==
  ASSUME IInv, NEW p \in Procs, Resolve(p)
  PROVE  IInv'
<1>1. Holds(p) /\ slots' = slots /\ runs' = runs
  BY DEF Resolve, Holds, Awaiting, history
<1>2. CASE pending' \subseteq pending /\ issued' = issued
  <2>1. Finish(p) \/ GoTo(p, "check")
    BY DEF Resolve
  <2> QED
    BY <1>1, <1>2, <2>1, MoveOn
<1>3. CASE ~(pending' \subseteq pending /\ issued' = issued)
  <2> DEFINE item == [dev |-> req[p].dev, act |-> req[p].act, val |-> req[p].val,
                      origin |-> req[p].origin, created |-> now,
                      expires |-> now + ConfirmTtl,
                      slot |-> req[p].slot, orig |-> req[p].orig]
  <2>1. Issue(p) /\ Finish(p)
    BY <1>3 DEF Resolve
  <2>2. LivePending \subseteq pending
    BY DEF LivePending
  <2>3. /\ issued' = Append(issued, item)
        /\ pending' = LivePending \cup {Len(issued) + 1}
    BY <1>3, <2>1, <2>2 DEF Issue
  <2>4. item.slot = req[p].slot /\ item.origin = req[p].origin
    OBVIOUS
  <2> HIDE DEF item
  <2> QED
    BY <1>1, <2>1, <2>2, <2>3, <2>4, RequestToToken
<1> QED
  BY <1>2, <1>3

LEMMA ExecuteKeeps ==
  ASSUME IInv, NEW p \in Procs, Execute(p)
  PROVE  IInv'
<1>1. /\ Holds(p) /\ slots' = slots /\ issued' = issued /\ pending' = pending
  BY DEF Execute, Holds, Awaiting, memVars
<1>2. CASE Finish(p) /\ runs' = runs
  BY <1>1, <1>2, MoveOn
<1>3. CASE ~(Finish(p) /\ runs' = runs)
  <2>1. Applied(p) /\ (GoTo(p, "record") \/ Finish(p))
    BY <1>3 DEF Execute
  <2> DEFINE after == Effect(req[p].act, req[p].val, Target[req[p].dev].domain,
                             devState[req[p].dev])
             run == [dev |-> req[p].dev, act |-> req[p].act, val |-> req[p].val,
                     origin |-> req[p].origin, token |-> req[p].token, slot |-> req[p].slot,
                     restore |-> req[p].restore, before |-> devState[req[p].dev],
                     after |-> after, orig |-> req[p].orig, seen |-> req[p].seen,
                     at |-> req[p].at]
  <2>2. runs' = Append(runs, run)
    BY <2>1 DEF Applied
  <2>3. run.slot = req[p].slot /\ run.origin = req[p].origin
    OBVIOUS
  <2> HIDE DEF run
  <2> QED
    BY <1>1, <2>1, <2>2, <2>3, RequestToRun
<1> QED
  BY <1>2, <1>3

LEMMA NextOK ==
  ASSUME IInv, [Next]_vars
  PROVE  IInv'
<1> USE DEF memVars, history
<1>0. "chat" \in Procs /\ Confirmers \subseteq Procs
  BY DEF Procs
<1>1. ASSUME NEW cmd \in Commands, NEW origin \in Origins, HomeControl(cmd, origin)
      PROVE  IInv'
  <2>1. /\ ~Holds("chat") /\ runs' = runs /\ issued' = issued /\ pending' = pending
        /\ \/ EnterPlain("chat", cmd, origin, NotUndo)
           \/ req' = req /\ slots' = slots
    BY <1>1 DEF HomeControl, ChatReady, Holds, Awaiting
  <2>2. CASE req' = req /\ slots' = slots
    BY <2>1, <2>2, DropClaims DEF IInv, Shape, Holds
  <2> QED
    BY <1>0, <2>1, <2>2, EnterKeeps
<1>2. ASSUME NEW origin \in Origins, HomeUndo(origin)
      PROVE  IInv'
  <2>1. /\ ~Holds("chat") /\ runs' = runs /\ issued' = issued /\ pending' = pending
        /\ \/ \E cmd, undo : EnterPlain("chat", cmd, origin, undo)
           \/ req' = req /\ slots' = slots
    BY <1>2 DEF HomeUndo, ChatReady, Holds, Awaiting
  <2>2. CASE req' = req /\ slots' = slots
    BY <2>1, <2>2, DropClaims DEF IInv, Shape, Holds
  <2> QED
    BY <1>0, <2>1, <2>2, EnterKeeps
<1>3. ASSUME NEW p \in Confirmers, NEW t \in pending, ConfirmToken(p, t)
      PROVE  IInv'
  <2>1. /\ ~Holds(p) /\ slots' = slots /\ runs' = runs /\ issued' = issued
        /\ pending' \subseteq pending \ {t}
        /\ \/ \E cmd, undo : Admit(p, cmd, issued[t].origin, t, undo, issued[t].slot)
           \/ req' = req
    BY <1>3 DEF ConfirmToken, TakeToken, LivePending, Holds, Awaiting
  <2>2. CASE req' = req
    BY <2>1, <2>2, DropClaims DEF IInv, Shape, Holds
  <2> QED
    BY <1>0, <2>1, <2>2, TokenToRequest
<1>4. CASE ListPending
  <2>1. pending' \subseteq pending /\ UNCHANGED <<issued, req, slots, runs>>
    BY <1>4 DEF ListPending, LivePending
  <2> QED
    BY <2>1, DropClaims DEF IInv, Shape, Holds
<1>5. ASSUME NEW p \in Procs, Step(p)
      PROVE  IInv'
  <2>1. CASE Capture(p)
    <3>1. PICK restore :
            req' = [req EXCEPT ![p].restore = restore, ![p].pc = "resolve",
                               ![p].seen = Len(runs)]
      BY <2>1 DEF Capture
    <3> DEFINE r == [f \in DOMAIN Idle |->
                       CASE f = "restore" -> restore [] f = "pc" -> "resolve"
                         [] f = "seen" -> Len(runs)  [] OTHER -> req[p][f]]
    <3>2. req' = [req EXCEPT ![p] = r]
      BY <3>1 DEF IInv, Shape, Idle
    <3>3. r.slot = req[p].slot /\ r.origin = req[p].origin /\ r = [f \in DOMAIN Idle |-> r[f]]
      BY DEF Idle
    <3> HIDE DEF r
    <3>4. /\ req' = [q \in Procs |-> req'[q]]
          /\ \A q \in Procs : req'[q] = [f \in DOMAIN Idle |-> req'[q][f]]
          /\ \A q \in Procs \ {p} : req'[q] = req[q]
          /\ req'[p] = r
      BY <3>2, <3>3, ReplaceEffect DEF IInv
    <3>5. Holds(p) /\ UNCHANGED <<slots, runs, issued, pending>>
      BY <2>1 DEF Capture, Holds, Awaiting
    <3>6. \A q \in Procs : Holds(q)' => /\ Holds(q)
                                        /\ req'[q].slot = req[q].slot
                                        /\ req'[q].origin = req[q].origin
      BY <3>3, <3>4, <3>5 DEF Holds
    <3> QED
      BY <3>4, <3>5, <3>6, DropClaims
  <2>2. CASE Resolve(p)
    BY <2>2, ResolveKeeps
  <2>3. CASE Check(p)
    <3>1. /\ Holds(p) /\ UNCHANGED <<slots, runs, issued, pending>>
          /\ Finish(p) \/ GoTo(p, "execute")
      BY <2>3 DEF Check, Holds, Awaiting
    <3> QED
      BY <3>1, MoveOn
  <2>4. CASE Execute(p)
    BY <2>4, ExecuteKeeps
  <2>5. CASE Record(p)
    <3>1. req[p].pc = "record" /\ Finish(p) /\ UNCHANGED <<slots, runs, issued, pending>>
      BY <2>5 DEF Record
    <3> QED
      BY <3>1, MoveOn
  <2> QED
    BY <1>5, <2>1, <2>2, <2>3, <2>4, <2>5 DEF Step
<1>6. CASE Tick
  <2>1. UNCHANGED <<issued, pending, req, slots, runs>>
    BY <1>6 DEF Tick
  <2> QED
    BY <2>1, DropClaims DEF IInv, Shape, Holds
<1>7. CASE Crash
  <2>1. pending' = {} /\ req' = [p \in Procs |-> Idle] /\ UNCHANGED <<issued, slots, runs>>
    BY <1>7 DEF Crash
  <2>2. Idle = [f \in DOMAIN Idle |-> Idle[f]] /\ Idle.pc = "idle"
    BY DEF Idle
  <2>3. \A q \in Procs : ~Holds(q)' /\ req'[q] = [f \in DOMAIN Idle |-> req'[q][f]]
    BY <2>1, <2>2 DEF Holds, Awaiting
  <2>4. req' = [q \in Procs |-> req'[q]]
    BY <2>1
  <2> QED
    BY <2>1, <2>3, <2>4, DropClaims
<1>8. CASE UNCHANGED vars
  <2>1. UNCHANGED <<issued, pending, req, slots, runs>>
    BY <1>8 DEF vars
  <2> QED
    BY <2>1, DropClaims DEF IInv, Shape, Holds
<1> QED
  BY <1>1, <1>2, <1>3, <1>4, <1>5, <1>6, <1>7, <1>8 DEF Next

(***************************************************************************)
(* EveryExecutionPaid holds of every behaviour: whatever the household,    *)
(* the policies, the limits, the number of concurrent confirmations and    *)
(* the restarts, no slot of a rate window pays for two service calls, and  *)
(* none goes unpaid (exec_home_control_inner, confirm_pending_home_action).*)
(***************************************************************************)
THEOREM ExecutionsPaid == Spec => []EveryExecutionPaid
<1>1. IInv => EveryExecutionPaid
  BY DEF IInv
<1> QED
  BY <1>1, InitOK, NextOK, PTL DEF Spec

-----------------------------------------------------------------------------
(***************************************************************************)
(* GuardedRunsConfirmed, along the same chain: a token is pending, held by *)
(* one request, or spent on one service call.  A request that holds one    *)
(* asks for what the token was issued for, and was admitted in its time; a *)
(* request without one that is past the household policy needs none.       *)
(***************************************************************************)
Asked(r) == <<r.dev, r.act, r.val, r.origin>>

Backed(r) ==
  /\ r.token \in DOMAIN issued
  /\ Asked(issued[r.token]) = Asked(r)
  /\ issued[r.token].created <= r.at /\ r.at < issued[r.token].expires

HoldsToken(p) == Holds(p) /\ req[p].token # NoToken

ClockKept ==
  /\ now \in Nat
  /\ \A t \in DOMAIN issued : issued[t].created \in Nat /\ issued[t].created <= now

TokensBacked == \A p \in Procs : HoldsToken(p) => Backed(req[p])

TokensSpentOnce ==
  /\ \A p \in Procs : HoldsToken(p) => req[p].token \notin pending
  /\ \A p, q \in Procs : HoldsToken(p) /\ HoldsToken(q) /\ req[p].token = req[q].token => p = q
  /\ \A p \in Procs, i \in DOMAIN runs : HoldsToken(p) => runs[i].token # req[p].token
  /\ \A t \in pending, i \in DOMAIN runs : runs[i].token # t
  /\ \A i \in DOMAIN runs : runs[i].token = NoToken \/ runs[i].token \in DOMAIN issued

Cleared ==
  \A p \in Procs : req[p].pc \in {"check", "execute"} /\ req[p].token = NoToken
                   => ~NeedsConfirmation(req[p])

TInv == ClockKept /\ TokensBacked /\ TokensSpentOnce /\ Cleared /\ GuardedRunsConfirmed

(* What a process works on does not change. *)
SameRequest(q) ==
  /\ req'[q].dev = req[q].dev /\ req'[q].act = req[q].act /\ req'[q].val = req[q].val
  /\ req'[q].origin = req[q].origin /\ req'[q].token = req[q].token
  /\ req'[q].at = req[q].at

LEMMA TInitOK == Init => TInv
<1> SUFFICES ASSUME Init PROVE TInv
  OBVIOUS
<1>1. DOMAIN issued = {} /\ DOMAIN runs = {} /\ pending = {}
  BY DEF Init
<1>2. \A p \in Procs : req[p].pc = "idle"
  BY DEF Init, Idle
<1>3. now = 0
  BY DEF Init, GateInit
<1> QED
  BY <1>1, <1>2, <1>3 DEF TInv, ClockKept, TokensBacked, TokensSpentOnce, Cleared,
     GuardedRunsConfirmed, HoldsToken, Holds, Awaiting

(* Tokens can only be dropped, and a request only be cleared by the policy. *)
LEMMA DropTokens ==
  ASSUME TInv, runs' = runs, issued' = issued, pending' \subseteq pending,
         now' \in Nat, now <= now',
         \A q \in Procs : Holds(q)' => Holds(q) /\ SameRequest(q),
         \A q \in Procs : req'[q].pc \in {"check", "execute"} /\ req'[q].token = NoToken
                          => ~NeedsConfirmation(req[q])
  PROVE  TInv'
<1>1. ClockKept'
  BY DEF TInv, ClockKept
<1>2. \A q \in Procs : HoldsToken(q)' => HoldsToken(q) /\ SameRequest(q)
  BY DEF HoldsToken, SameRequest
<1>3. TokensBacked'
  BY <1>2 DEF TInv, TokensBacked, Backed, Asked, SameRequest
<1>4. TokensSpentOnce'
  BY <1>2 DEF TInv, TokensSpentOnce, SameRequest
<1>5. Cleared'
  <2> SUFFICES ASSUME NEW q \in Procs, req'[q].pc \in {"check", "execute"},
                      req'[q].token = NoToken
               PROVE  ~NeedsConfirmation(req'[q])
    BY DEF Cleared, NeedsConfirmation
  <2>1. SameRequest(q)
    BY DEF Holds, Awaiting
  <2> QED
    BY <2>1 DEF NeedsConfirmation, SameRequest
<1>6. GuardedRunsConfirmed'
  BY DEF TInv, GuardedRunsConfirmed, NeedsConfirmation
<1> QED
  BY <1>1, <1>3, <1>4, <1>5, <1>6 DEF TInv

LEMMA GoToSame ==
  ASSUME Shape, NEW p \in Procs, NEW pc, GoTo(p, pc)
  PROVE  SameRequest(p)
<1>1. {"pc", "dev", "act", "val", "origin", "token", "at"} \subseteq DOMAIN Idle
  BY DEF Idle
<1>2. req[p] = [f \in DOMAIN Idle |-> req[p][f]]
  BY DEF Shape
<1>3. req'[p] = [req[p] EXCEPT !.pc = pc]
  BY DEF GoTo, Shape
<1> QED
  BY <1>1, <1>2, <1>3 DEF SameRequest

LEMMA AdmitSets ==
  ASSUME Shape, NEW p \in Procs, NEW cmd, NEW origin, NEW token, NEW undo, NEW slot,
         Admit(p, cmd, origin, token, undo, slot)
  PROVE  /\ req'[p].pc \in {"capture", "resolve"}
         /\ Asked(req'[p]) = <<cmd.dev, cmd.act, cmd.val, origin>>
         /\ req'[p].token = token /\ req'[p].at = now
<1> DEFINE r == [pc |-> FirstStop(cmd.act, undo.id), dev |-> cmd.dev, act |-> cmd.act,
                 val |-> cmd.val, origin |-> origin, token |-> token, undoOf |-> undo.id,
                 restore |-> NoRestore, slot |-> slot,
                 orig |-> undo.run, seen |-> 0, at |-> now]
<1>1. req'[p] = r
  BY DEF Admit, Shape
<1>2. r.pc \in {"capture", "resolve"}
  BY DEF FirstStop
<1> QED
  BY <1>1, <1>2 DEF Asked

(* A process goes on, past the policy if the policy lets it, or gives up. *)
LEMMA MoveOnTokens ==
  ASSUME IInv, TInv, NEW p \in Procs,
         runs' = runs, issued' = issued, pending' \subseteq pending, now' = now,
         \/ Finish(p)
         \/ /\ Holds(p) /\ \E pc : GoTo(p, pc)
            /\ req[p].token = NoToken => ~NeedsConfirmation(req[p])
  PROVE  TInv'
<1>1. /\ \A q \in Procs \ {p} : req'[q] = req[q]
      /\ \/ req'[p].pc = "idle"
         \/ /\ Holds(p) /\ SameRequest(p)
            /\ req[p].token = NoToken => ~NeedsConfirmation(req[p])
  <2>1. CASE Finish(p)
    <3>1. Idle = [f \in DOMAIN Idle |-> Idle[f]] /\ Idle.pc = "idle"
      BY DEF Idle
    <3> QED
      BY <2>1, <3>1, ReplaceEffect DEF Finish, IInv
  <2>2. CASE ~Finish(p)
    BY <2>2, GoToEffect, GoToSame DEF IInv
  <2> QED
    BY <2>1, <2>2
<1>2. \A q \in Procs : Holds(q)' => Holds(q) /\ SameRequest(q)
  BY <1>1 DEF Holds, Awaiting, SameRequest
<1>3. ASSUME NEW q \in Procs, req'[q].pc \in {"check", "execute"}, req'[q].token = NoToken
      PROVE  ~NeedsConfirmation(req[q])
  BY <1>1, <1>2, <1>3 DEF TInv, Cleared, SameRequest
<1>4. now' \in Nat /\ now <= now'
  BY DEF TInv, ClockKept
<1> QED
  BY <1>2, <1>3, <1>4, DropTokens

-----------------------------------------------------------------------------
(* The five ways a token arises or changes hands. *)

(* Nothing that the tokens are about happened. *)
LEMMA IdleTokens ==
  ASSUME TInv, req' = req, runs' = runs, issued' = issued, pending' \subseteq pending,
         now' \in Nat, now <= now'
  PROVE  TInv'
<1>1. \A q \in Procs : Holds(q)' => Holds(q) /\ SameRequest(q)
  BY DEF Holds, SameRequest
<1>2. ASSUME NEW q \in Procs, req'[q].pc \in {"check", "execute"}, req'[q].token = NoToken
      PROVE  ~NeedsConfirmation(req[q])
  BY <1>2 DEF TInv, Cleared
<1> QED
  BY <1>1, <1>2, DropTokens

(* A request admitted without a token. *)
LEMMA EnterTokens ==
  ASSUME IInv, TInv, NEW p \in Procs, NEW cmd, NEW origin, NEW undo,
         EnterPlain(p, cmd, origin, undo),
         runs' = runs, issued' = issued, pending' = pending, now' = now
  PROVE  TInv'
<1>0. now' \in Nat /\ now <= now'
  BY DEF TInv, ClockKept
<1>1. CASE req' = req
  BY <1>0, <1>1, IdleTokens
<1>2. CASE req' # req
  <2>1. Admit(p, cmd, origin, NoToken, undo, Len(slots) + 1)
    BY <1>2 DEF EnterPlain
  <2>2. /\ \A q \in Procs \ {p} : req'[q] = req[q]
        /\ req'[p].pc \in {"capture", "resolve"} /\ req'[p].token = NoToken
    BY <2>1, AdmitEffect, AdmitSets DEF IInv
  <2>3. \A q \in Procs : HoldsToken(q)' => q # p /\ HoldsToken(q) /\ req'[q] = req[q]
    BY <2>2 DEF HoldsToken, Holds
  <2>4. ClockKept'
    BY DEF TInv, ClockKept
  <2>5. TokensBacked'
    BY <2>3 DEF TInv, TokensBacked, Backed, Asked
  <2>6. TokensSpentOnce'
    BY <2>3 DEF TInv, TokensSpentOnce
  <2>7. Cleared'
    BY <2>2 DEF TInv, Cleared, NeedsConfirmation
  <2>8. GuardedRunsConfirmed'
    BY DEF TInv, GuardedRunsConfirmed, NeedsConfirmation
  <2> QED
    BY <2>4, <2>5, <2>6, <2>7, <2>8 DEF TInv
<1> QED
  BY <1>1, <1>2

(* A live token goes to the handler that consumed it. *)
LEMMA ConfirmTokens ==
  ASSUME IInv, TInv, NEW p \in Procs, NEW t \in LivePending, NEW cmd, NEW undo,
         pending' \subseteq pending \ {t},
         cmd = [dev |-> issued[t].dev, act |-> issued[t].act, val |-> issued[t].val],
         Admit(p, cmd, issued[t].origin, t, undo, issued[t].slot),
         runs' = runs, issued' = issued, now' = now
  PROVE  TInv'
<1>1. /\ \A q \in Procs \ {p} : req'[q] = req[q]
      /\ req'[p].pc \in {"capture", "resolve"}
      /\ req'[p].token = t /\ req'[p].at = now
      /\ Asked(req'[p]) = <<cmd.dev, cmd.act, cmd.val, issued[t].origin>>
  BY AdmitEffect, AdmitSets DEF IInv
<1>2. /\ t \in pending /\ t \in DOMAIN issued /\ issued[t].expires > now
      /\ issued[t].created <= now
  BY DEF LivePending, IInv, Shape, TInv, ClockKept
<1>3. Asked(req'[p]) = Asked(issued[t])
  BY <1>1 DEF Asked
<1>4. \A q \in Procs \ {p} : HoldsToken(q)' => HoldsToken(q) /\ req'[q] = req[q]
  BY <1>1 DEF HoldsToken, Holds
<1>5. ClockKept'
  BY DEF TInv, ClockKept
<1>6. TokensBacked'
  <2> SUFFICES ASSUME NEW q \in Procs, HoldsToken(q)'
               PROVE  Backed(req[q])'
    BY DEF TokensBacked
  <2>1. CASE q = p
    BY <1>1, <1>2, <1>3, <2>1 DEF Backed
  <2>2. CASE q # p
    BY <1>4, <2>2 DEF TInv, TokensBacked, Backed, Asked
  <2> QED
    BY <2>1, <2>2
<1>7. TokensSpentOnce'
  <2>1. \A q \in Procs \ {p} : HoldsToken(q)' => req'[q].token # t /\ req'[q].token \notin pending'
    BY <1>2, <1>4 DEF TInv, TokensSpentOnce
  <2>2. t \notin pending' /\ \A i \in DOMAIN runs : runs[i].token # t
    BY <1>2 DEF TInv, TokensSpentOnce
  <2> QED
    BY <1>1, <1>4, <2>1, <2>2 DEF TInv, TokensSpentOnce
<1>8. Cleared'
  BY <1>1 DEF TInv, Cleared, NeedsConfirmation
<1>9. GuardedRunsConfirmed'
  BY DEF TInv, GuardedRunsConfirmed, NeedsConfirmation
<1> QED
  BY <1>5, <1>6, <1>7, <1>8, <1>9 DEF TInv

(* A fresh token, issued for a request that ends. *)
LEMMA IssueTokens ==
  ASSUME IInv, TInv, NEW p \in Procs, NEW item, item.created = now,
         issued' = Append(issued, item),
         NEW kept \in SUBSET pending, pending' = kept \cup {Len(issued) + 1},
         Finish(p), runs' = runs, now' = now
  PROVE  TInv'
<1> DEFINE n == Len(issued) + 1
<1>1. /\ n \in Nat /\ n # NoToken /\ n \notin DOMAIN issued
      /\ DOMAIN issued' = DOMAIN issued \cup {n} /\ issued'[n] = item
      /\ \A i \in DOMAIN issued : issued'[i] = issued[i]
  BY AppendFacts DEF IInv, Shape, NoToken
<1>2. Idle = [f \in DOMAIN Idle |-> Idle[f]] /\ Idle.pc = "idle"
  BY DEF Idle
<1>3. (\A q \in Procs \ {p} : req'[q] = req[q]) /\ req'[p] = Idle
  BY <1>2, ReplaceEffect DEF Finish, IInv
<1>4. \A q \in Procs : HoldsToken(q)' => HoldsToken(q) /\ req'[q] = req[q]
  BY <1>2, <1>3 DEF HoldsToken, Holds, Awaiting
<1>5. pending' = kept \cup {n}
  OBVIOUS
<1> HIDE DEF n
<1>6. ClockKept'
  BY <1>1 DEF TInv, ClockKept
<1>7. TokensBacked'
  BY <1>1, <1>4 DEF TInv, TokensBacked, Backed, Asked
<1>8. TokensSpentOnce'
  <2>1. \A q \in Procs : HoldsToken(q) => req[q].token # n
    BY <1>1 DEF TInv, TokensBacked, Backed
  <2>2. \A i \in DOMAIN runs : runs[i].token # n
    BY <1>1 DEF TInv, TokensSpentOnce
  <2> QED
    BY <1>1, <1>4, <1>5, <2>1, <2>2 DEF TInv, TokensSpentOnce
<1>9. Cleared'
  BY <1>2, <1>3 DEF TInv, Cleared, NeedsConfirmation
<1>10. GuardedRunsConfirmed'
  BY <1>1 DEF TInv, GuardedRunsConfirmed, NeedsConfirmation
<1> QED
  BY <1>6, <1>7, <1>8, <1>9, <1>10 DEF TInv

(* A request at "execute" spends its token, if it has one, on the service call. *)
LEMMA SpendToken ==
  ASSUME IInv, TInv, NEW p \in Procs, req[p].pc = "execute", NEW run,
         Asked(run) = Asked(req[p]), run.dev = req[p].dev, run.act = req[p].act,
         run.origin = req[p].origin, run.token = req[p].token, run.at = req[p].at,
         runs' = Append(runs, run), GoTo(p, "record") \/ Finish(p),
         issued' = issued, pending' = pending, now' = now
  PROVE  TInv'
<1> DEFINE n == Len(runs) + 1
<1>1. /\ n \notin DOMAIN runs
      /\ DOMAIN runs' = DOMAIN runs \cup {n} /\ runs'[n] = run
      /\ \A i \in DOMAIN runs : runs'[i] = runs[i]
  BY AppendFacts DEF IInv, Shape
<1>2. /\ \A q \in Procs \ {p} : req'[q] = req[q]
      /\ req'[p].pc \in {"record", "idle"}
  <2>1. CASE Finish(p)
    <3>1. Idle = [f \in DOMAIN Idle |-> Idle[f]] /\ Idle.pc = "idle"
      BY DEF Idle
    <3> QED
      BY <2>1, <3>1, ReplaceEffect DEF Finish, IInv
  <2>2. CASE GoTo(p, "record")
    BY <2>2, GoToEffect DEF IInv
  <2> QED
    BY <2>1, <2>2
<1>3. \A q \in Procs : HoldsToken(q)' => q # p /\ HoldsToken(q) /\ req'[q] = req[q]
  BY <1>2 DEF HoldsToken, Holds, Awaiting
<1>4. HoldsToken(p) \/ req[p].token = NoToken
  BY DEF HoldsToken, Holds, Awaiting
<1> HIDE DEF n
<1>5. ClockKept'
  BY DEF TInv, ClockKept
<1>6. TokensBacked'
  BY <1>3 DEF TInv, TokensBacked, Backed, Asked
<1>7. TokensSpentOnce'
  <2>1. \A q \in Procs : HoldsToken(q)' => req'[q].token # run.token
    BY <1>3, <1>4 DEF TInv, TokensSpentOnce, HoldsToken
  <2>2. \A t \in pending : run.token # t
    <3>1. NoToken \notin pending
      <4>1. issued = issued /\ DOMAIN issued = 1..Len(issued)
        BY AppendFacts DEF IInv, Shape
      <4> QED
        BY <4>1 DEF IInv, Shape, NoToken
    <3> QED
      BY <1>4, <3>1 DEF TInv, TokensSpentOnce
  <2>3. run.token = NoToken \/ run.token \in DOMAIN issued
    BY <1>4 DEF TInv, TokensBacked, Backed
  <2> QED
    BY <1>1, <1>3, <2>1, <2>2, <2>3 DEF TInv, TokensSpentOnce
<1>8. Cleared'
  BY <1>2 DEF TInv, Cleared, NeedsConfirmation
<1>9. GuardedRunsConfirmed'
  <2>1. NeedsConfirmation(run) =>
          /\ HoldsToken(p) /\ Backed(req[p])
          /\ \A i \in DOMAIN runs : runs[i].token # run.token
    <3>1. NeedsConfirmation(run) => req[p].token # NoToken
      BY DEF TInv, Cleared, NeedsConfirmation
    <3> QED
      BY <1>4, <3>1 DEF TInv, TokensBacked, TokensSpentOnce
  <2>2. NeedsConfirmation(run) =>
          /\ run.token \in DOMAIN issued
          /\ Asked(issued[run.token]) = Asked(run)
          /\ issued[run.token].created <= run.at /\ run.at < issued[run.token].expires
    BY <2>1 DEF Backed
  <2>3. \A i \in DOMAIN runs : NeedsConfirmation(runs[i]) => runs[i].token # run.token
    <3>1. CASE HoldsToken(p)
      BY <3>1 DEF TInv, TokensSpentOnce
    <3>2. CASE req[p].token = NoToken
      <4>1. NoToken \notin DOMAIN issued
        <5>1. DOMAIN issued = 1..Len(issued)
          BY AppendFacts DEF IInv, Shape
        <5> QED
          BY <5>1 DEF NoToken
      <4> QED
        BY <3>2, <4>1 DEF TInv, GuardedRunsConfirmed
    <3> QED
      BY <1>4, <3>1, <3>2
  <2> SUFFICES ASSUME NEW i \in DOMAIN runs', NeedsConfirmation(runs'[i])
               PROVE  /\ runs'[i].token \in DOMAIN issued
                      /\ Asked(issued[runs'[i].token]) = Asked(runs'[i])
                      /\ issued[runs'[i].token].created <= runs'[i].at
                      /\ runs'[i].at < issued[runs'[i].token].expires
                      /\ \A j \in DOMAIN runs' : runs'[j].token = runs'[i].token => i = j
    BY DEF GuardedRunsConfirmed, NeedsConfirmation, Asked
  <2>4. CASE i = n
    BY <1>1, <2>1, <2>2, <2>4
  <2>5. CASE i \in DOMAIN runs
    <3>1. runs'[i] = runs[i]
      BY <1>1, <2>5
    <3>2. /\ runs[i].token \in DOMAIN issued
          /\ Asked(issued[runs[i].token]) = Asked(runs[i])
          /\ issued[runs[i].token].created <= runs[i].at
          /\ runs[i].at < issued[runs[i].token].expires
          /\ \A j \in DOMAIN runs : runs[j].token = runs[i].token => i = j
      BY <2>5, <3>1 DEF TInv, GuardedRunsConfirmed, Asked
    <3> QED
      BY <1>1, <2>3, <2>5, <3>1, <3>2
  <2> QED
    BY <1>1, <2>4, <2>5
<1> QED
  BY <1>5, <1>6, <1>7, <1>8, <1>9 DEF TInv

-----------------------------------------------------------------------------
LEMMA ResolveTokens ==
  ASSUME IInv, TInv, NEW p \in Procs, Resolve(p)
  PROVE  TInv'
<1>1. Holds(p) /\ runs' = runs /\ now' = now
  BY DEF Resolve, Holds, Awaiting, history
<1>2. CASE pending' \subseteq pending /\ issued' = issued
  <2>1. \/ Finish(p)
        \/ GoTo(p, "check") /\ PolicyOutcome(Policy(p), req[p].origin,
                                             req[p].token # NoToken) = "check"
    BY DEF Resolve
  <2>2. CASE Finish(p)
    BY <1>1, <1>2, <2>2, MoveOnTokens
  <2>3. CASE ~Finish(p)
    <3>1. PolicyOutcome(Policy(p), req[p].origin, req[p].token # NoToken) = "check"
      BY <2>1, <2>3
    <3>2. ASSUME req[p].token = NoToken PROVE ~NeedsConfirmation(req[p])
      <4>1. (req[p].token # NoToken) = FALSE
        BY <3>2
      <4>2. PolicyOutcome(Policy(p), req[p].origin, FALSE) = "check"
        BY <3>1, <4>1
      <4> QED
        BY <4>2 DEF NeedsConfirmation, Policy
    <3> QED
      BY <1>1, <1>2, <2>1, <2>3, <3>2, MoveOnTokens
  <2> QED
    BY <2>2, <2>3
<1>3. CASE ~(pending' \subseteq pending /\ issued' = issued)
  <2> DEFINE item == [dev |-> req[p].dev, act |-> req[p].act, val |-> req[p].val,
                      origin |-> req[p].origin, created |-> now,
                      expires |-> now + ConfirmTtl,
                      slot |-> req[p].slot, orig |-> req[p].orig]
  <2>1. Issue(p) /\ Finish(p)
    BY <1>3 DEF Resolve
  <2>2. LivePending \subseteq pending
    BY DEF LivePending
  <2>3. /\ issued' = Append(issued, item)
        /\ pending' = LivePending \cup {Len(issued) + 1}
    BY <1>3, <2>1, <2>2 DEF Issue
  <2>4. item.created = now
    OBVIOUS
  <2> HIDE DEF item
  <2> QED
    BY <1>1, <2>1, <2>2, <2>3, <2>4, IssueTokens
<1> QED
  BY <1>2, <1>3

LEMMA ExecuteTokens ==
  ASSUME IInv, TInv, NEW p \in Procs, Execute(p)
  PROVE  TInv'
<1>1. /\ req[p].pc = "execute" /\ issued' = issued /\ pending' = pending /\ now' = now
  BY DEF Execute, memVars
<1>2. CASE Finish(p) /\ runs' = runs
  BY <1>1, <1>2, MoveOnTokens
<1>3. CASE ~(Finish(p) /\ runs' = runs)
  <2>1. Applied(p) /\ (GoTo(p, "record") \/ Finish(p))
    BY <1>3 DEF Execute
  <2> DEFINE after == Effect(req[p].act, req[p].val, Target[req[p].dev].domain,
                             devState[req[p].dev])
             run == [dev |-> req[p].dev, act |-> req[p].act, val |-> req[p].val,
                     origin |-> req[p].origin, token |-> req[p].token, slot |-> req[p].slot,
                     restore |-> req[p].restore, before |-> devState[req[p].dev],
                     after |-> after, orig |-> req[p].orig, seen |-> req[p].seen,
                     at |-> req[p].at]
  <2>2. runs' = Append(runs, run)
    BY <2>1 DEF Applied
  <2>3. /\ Asked(run) = Asked(req[p]) /\ run.dev = req[p].dev /\ run.act = req[p].act
        /\ run.origin = req[p].origin /\ run.token = req[p].token /\ run.at = req[p].at
    BY DEF Asked
  <2> HIDE DEF run
  <2> QED
    BY <1>1, <2>1, <2>2, <2>3, SpendToken
<1> QED
  BY <1>2, <1>3

LEMMA CaptureTokens ==
  ASSUME IInv, TInv, NEW p \in Procs, Capture(p)
  PROVE  TInv'
<1>1. /\ Holds(p)
      /\ issued' = issued /\ pending' = pending /\ runs' = runs /\ now' = now
  BY DEF Capture, Holds, Awaiting, memVars, history
<1>2. PICK restore :
        req' = [req EXCEPT ![p].restore = restore, ![p].pc = "resolve", ![p].seen = Len(runs)]
  BY DEF Capture
<1>3. \A q \in Procs \ {p} : req'[q] = req[q]
  BY <1>2 DEF IInv, Shape
<1>4. SameRequest(p) /\ req'[p].pc = "resolve"
  BY <1>2 DEF IInv, Shape, Idle, SameRequest
<1>5. \A q \in Procs : Holds(q)' => Holds(q) /\ SameRequest(q)
  BY <1>1, <1>3, <1>4 DEF Holds, SameRequest
<1>6. ASSUME NEW q \in Procs, req'[q].pc \in {"check", "execute"}, req'[q].token = NoToken
      PROVE  ~NeedsConfirmation(req[q])
  BY <1>3, <1>4, <1>6 DEF TInv, Cleared
<1>7. now' \in Nat /\ now <= now'
  BY <1>1 DEF TInv, ClockKept
<1> QED
  BY <1>1, <1>5, <1>6, <1>7, DropTokens

LEMMA TNextOK ==
  ASSUME IInv, TInv, [Next]_vars
  PROVE  TInv'
<1>0. "chat" \in Procs /\ Confirmers \subseteq Procs
  BY DEF Procs
<1>n. now \in Nat
  BY DEF TInv, ClockKept
<1>1. ASSUME NEW cmd \in Commands, NEW origin \in Origins, HomeControl(cmd, origin)
      PROVE  TInv'
  <2>1. /\ runs' = runs /\ issued' = issued /\ pending' = pending /\ now' = now
        /\ EnterPlain("chat", cmd, origin, NotUndo) \/ req' = req
    BY <1>1 DEF HomeControl
  <2> QED
    BY <1>0, <1>n, <2>1, EnterTokens, IdleTokens
<1>2. ASSUME NEW origin \in Origins, HomeUndo(origin)
      PROVE  TInv'
  <2>1. /\ runs' = runs /\ issued' = issued /\ pending' = pending /\ now' = now
        /\ (\E cmd, undo : EnterPlain("chat", cmd, origin, undo)) \/ req' = req
    BY <1>2 DEF HomeUndo
  <2> QED
    BY <1>0, <1>n, <2>1, EnterTokens, IdleTokens
<1>3. ASSUME NEW p \in Confirmers, NEW t \in pending, ConfirmToken(p, t)
      PROVE  TInv'
  <2> DEFINE cmd == [dev |-> issued[t].dev, act |-> issued[t].act, val |-> issued[t].val]
  <2>1. /\ runs' = runs /\ issued' = issued /\ now' = now
        /\ t \in LivePending /\ pending' \subseteq pending \ {t}
        /\ \/ \E undo : Admit(p, cmd, issued[t].origin, t, undo, issued[t].slot)
           \/ req' = req
    BY <1>3 DEF ConfirmToken, TakeToken, LivePending
  <2>2. CASE req' = req
    BY <1>n, <2>1, <2>2, IdleTokens
  <2>3. CASE req' # req
    BY <1>0, <2>1, <2>3, ConfirmTokens
  <2> QED
    BY <2>2, <2>3
<1>4. CASE ListPending
  <2>1. pending' \subseteq pending /\ UNCHANGED <<issued, req, runs, now>>
    BY <1>4 DEF ListPending, LivePending
  <2> QED
    BY <1>n, <2>1, IdleTokens
<1>5. ASSUME NEW p \in Procs, Step(p)
      PROVE  TInv'
  <2>1. CASE Capture(p)
    BY <2>1, CaptureTokens
  <2>2. CASE Resolve(p)
    BY <2>2, ResolveTokens
  <2>3. CASE Check(p)
    <3>1. /\ Holds(p) /\ UNCHANGED <<runs, issued, pending, now>>
          /\ Finish(p) \/ GoTo(p, "execute")
          /\ req[p].token = NoToken => ~NeedsConfirmation(req[p])
      BY <2>3 DEF Check, Holds, Awaiting, memVars, history, TInv, Cleared
    <3> QED
      BY <3>1, MoveOnTokens
  <2>4. CASE Execute(p)
    BY <2>4, ExecuteTokens
  <2>5. CASE Record(p)
    <3>1. Finish(p) /\ UNCHANGED <<runs, issued, pending, now>>
      BY <2>5 DEF Record, history
    <3> QED
      BY <3>1, MoveOnTokens
  <2> QED
    BY <1>5, <2>1, <2>2, <2>3, <2>4, <2>5 DEF Step
<1>6. CASE Tick
  <2>1. UNCHANGED <<issued, pending, req, runs>> /\ now' = now + 1
    BY <1>6 DEF Tick, memVars, history
  <2> QED
    BY <1>n, <2>1, IdleTokens
<1>7. CASE Crash
  <2>1. pending' = {} /\ req' = [p \in Procs |-> Idle] /\ UNCHANGED <<issued, runs, now>>
    BY <1>7 DEF Crash
  <2>2. \A q \in Procs : req'[q].pc = "idle"
    BY <2>1 DEF Idle
  <2>3. \A q \in Procs : Holds(q)' => Holds(q) /\ SameRequest(q)
    BY <2>2 DEF Holds, Awaiting
  <2> QED
    BY <1>n, <2>1, <2>2, <2>3, DropTokens
<1>8. CASE UNCHANGED vars
  BY <1>n, <1>8, IdleTokens DEF vars
<1> QED
  BY <1>1, <1>2, <1>3, <1>4, <1>5, <1>6, <1>7, <1>8 DEF Next

(***************************************************************************)
(* GuardedRunsConfirmed holds of every behaviour: whatever the household,  *)
(* its policies, the lifetime of a token and the number of handlers, an    *)
(* action the household policy guards runs only for a token issued for it, *)
(* taken in time and used once (ConfirmationManager::issue and confirm,    *)
(* exec_home_control_inner).                                               *)
(***************************************************************************)
THEOREM GuardedRunsAreConfirmed == Spec => []GuardedRunsConfirmed
<1>1. IInv /\ TInv => GuardedRunsConfirmed
  BY DEF TInv
<1>2. Init => IInv /\ TInv
  BY InitOK, TInitOK
<1>3. IInv /\ TInv /\ [Next]_vars => (IInv /\ TInv)'
  BY NextOK, TNextOK
<1> QED
  BY <1>1, <1>2, <1>3, PTL DEF Spec

-----------------------------------------------------------------------------
(***************************************************************************)
(* What the two policy layers of home::control guarantee for every action, *)
(* target, configuration and report of Home Assistant, whatever the        *)
(* domains, confidences and numbers of entities.                           *)
(***************************************************************************)
ResolvedTarget == [kind : TargetKinds, domain : STRING, voiceSafe : BOOLEAN,
                   barrier : BOOLEAN, entities : Nat, confidence : Nat]

Config == [enabled : BOOLEAN, minTarget : Nat, minSensitive : Nat,
           denyMultiTargetSensitive : BOOLEAN, requireAvailableState : BOOLEAN]

(* The physical effects the household must confirm. *)
Guarded(action, target) ==
  \/ ~target.voiceSafe
  \/ target.domain \in {"lock", "alarm_control_panel", "camera"}
  \/ action = "unlock"
  \/ action = "open" /\ target.barrier
  \/ target.domain = "cover" /\ action \in {"open", "close", "toggle"}
  \/ target.domain = "climate" /\ action = "set_temperature"
  \/ target.domain = "script" /\ action = "activate"

(* A guarded action is refused, or asks, or carries some risk. *)
LEMMA GuardedAssessed ==
  ASSUME NEW action \in Kinds, NEW target \in ResolvedTarget, Guarded(action, target)
  PROVE  LET policy == AssessHomeAction(action, target)
         IN  ~policy.allowed \/ policy.risk # "low"
<1>1. CASE ~target.voiceSafe
  BY <1>1 DEF AssessHomeAction, Deny, RequireConfirmation, ResolvedTarget
<1>2. CASE target.voiceSafe
  BY <1>2 DEF AssessHomeAction, Allow, RequireConfirmation, Guarded, MediumRisk, ResolvedTarget
<1>3. QED
  BY <1>1, <1>2 DEF ResolvedTarget

(***************************************************************************)
(* Through the two layers of home::control, no channel that confirms       *)
(* non-low-risk requests gets a guarded action executed unconfirmed,       *)
(* whatever the confidence, the configuration, the health and the state.   *)
(***************************************************************************)
THEOREM GuardedNeedsConfirmation ==
  ASSUME NEW action \in Kinds, NEW target \in ResolvedTarget, NEW config \in Config,
         NEW connected \in BOOLEAN, NEW available \in BOOLEAN,
         NEW origin \in ConfirmingOrigins, Guarded(action, target)
  PROVE  Control(action, target, connected, available, config, origin, FALSE)
           \in {"denied", "confirm"}
<1> DEFINE policy == AssessHomeAction(action, target)
<1>1. ~policy.allowed \/ policy.risk # "low"
  BY GuardedAssessed
<1> HIDE DEF policy
<1>2. PolicyOutcome(policy, origin, FALSE) \in {"denied", "confirm"}
  BY <1>1 DEF PolicyOutcome
<1>3. QED
  BY <1>2 DEF Control, policy

(***************************************************************************)
(* A confirmation is never lost in a loop, and never blocks: a confirmed   *)
(* request is not answered with another request to confirm, and what the   *)
(* channel could execute unconfirmed it can execute confirmed              *)
(* (control(), and the confidence floors of assess_runtime_home_action).   *)
(***************************************************************************)
THEOREM ConfirmationHelps ==
  ASSUME NEW action \in Kinds, NEW target \in ResolvedTarget, NEW config \in Config,
         NEW connected \in BOOLEAN, NEW available \in BOOLEAN,
         NEW origin \in RequestOrigin
  PROVE  LET plain     == Control(action, target, connected, available, config, origin, FALSE)
             confirmed == Control(action, target, connected, available, config, origin, TRUE)
         IN  confirmed # "confirm" /\ (plain = "execute" => confirmed = "execute")
<1> DEFINE policy == AssessHomeAction(action, target)
           Allowed(c) ==
             RuntimeAllows(target, policy, connected, available, config, origin, c)
<1>1. PolicyOutcome(policy, origin, TRUE) \in {"denied", "check"}
  BY DEF PolicyOutcome
<1>2. PolicyOutcome(policy, origin, FALSE) = "check"
        => PolicyOutcome(policy, origin, TRUE) = "check"
  BY DEF PolicyOutcome
<1>3. RequiredConfidence(policy, config, origin, TRUE)
        <= RequiredConfidence(policy, config, origin, FALSE)
  BY DEF RequiredConfidence, Highest, OriginFloor, Config
<1>4. /\ RequiredConfidence(policy, config, origin, TRUE) \in Nat
      /\ RequiredConfidence(policy, config, origin, FALSE) \in Nat
  BY DEF RequiredConfidence, Highest, OriginFloor, Config
<1> HIDE DEF policy
<1>5. Allowed(FALSE) => Allowed(TRUE)
  <2>1. target.confidence \in Nat
    BY DEF ResolvedTarget
  <2>2. \A x, y, z \in Nat : z >= y /\ x <= y => z >= x
    OBVIOUS
  <2>3. target.confidence >= RequiredConfidence(policy, config, origin, FALSE)
          => target.confidence >= RequiredConfidence(policy, config, origin, TRUE)
    BY <1>3, <1>4, <2>1, <2>2, Zenon
  <2>4. QED
    BY <2>3 DEF RuntimeAllows
<1>6. \A c \in BOOLEAN :
        Control(action, target, connected, available, config, origin, c)
          = IF PolicyOutcome(policy, origin, c) # "check"
            THEN PolicyOutcome(policy, origin, c)
            ELSE IF Allowed(c) THEN "execute" ELSE "blocked"
  BY DEF Control, policy
<1> HIDE DEF Allowed
<1> DEFINE plain     == Control(action, target, connected, available, config, origin, FALSE)
           confirmed == Control(action, target, connected, available, config, origin, TRUE)
<1>7. confirmed # "confirm"
  BY <1>1, <1>6
<1>8. plain = "execute" => Allowed(FALSE) /\ PolicyOutcome(policy, origin, FALSE) = "check"
  <2>1. PolicyOutcome(policy, origin, FALSE) # "execute"
    BY DEF PolicyOutcome
  <2>2. QED
    BY <1>6, <2>1
<1>9. Allowed(TRUE) /\ PolicyOutcome(policy, origin, TRUE) = "check" => confirmed = "execute"
  BY <1>6
<1>10. QED
  BY <1>2, <1>5, <1>7, <1>8, <1>9

(***************************************************************************)
(* The hard deny of a script that is not voice-safe is reached: it can be  *)
(* neither confirmed nor executed (the order of the first two rules of     *)
(* assess_home_action).                                                    *)
(***************************************************************************)
THEOREM UnsafeScriptIsRefused ==
  ASSUME NEW target \in ResolvedTarget, NEW config \in Config,
         NEW connected \in BOOLEAN, NEW available \in BOOLEAN, NEW confirmed \in BOOLEAN,
         NEW origin \in RequestOrigin, target.kind = "script", ~target.voiceSafe
  PROVE  Control("activate", target, connected, available, config, origin, confirmed)
           = "denied"
<1>1. AssessHomeAction("activate", target) = Deny
  BY DEF AssessHomeAction
<1>2. PolicyOutcome(Deny, origin, confirmed) = "denied"
  BY DEF PolicyOutcome, Deny
<1>3. QED
  BY <1>1, <1>2 DEF Control

-----------------------------------------------------------------------------
(***************************************************************************)
(* CapturedUndoRestores.  The ledger, the audit file and every request     *)
(* that undoes something point back at the service call they are about;    *)
(* what was captured is the state of the device for as long as nothing has *)
(* touched it since; and each call starts from where the last call on its  *)
(* device ended.  The operators take the history of service calls, rs, and *)
(* the entity states, devs, so that a step can be described by what it     *)
(* makes of them.                                                          *)
(***************************************************************************)

(* Quiet, of a history of service calls. *)
Untouched(rs, dev, a, b) == \A k \in (a + 1)..(b - 1) : rs[k].dev # dev

IsCall(call) == call = [act |-> call.act, val |-> call.val] /\ call.val \in Int

(* c undoes the service call it names. *)
Undoes(c, rs) ==
  c.orig # 0 =>
    /\ c.orig \in DOMAIN rs /\ c.dev = rs[c.orig].dev
    /\ rs[c.orig].restore # NoRestore => [act |-> c.act, val |-> c.val] = rs[c.orig].restore

Asks(c, rs) == c.dev \in Devices /\ c.val \in Int /\ Undoes(c, rs)

(* What r captured is the device's state, unless a call came in between. *)
CapturedNow(r, rs, devs) ==
  r.restore # NoRestore =>
    /\ IsCall(r.restore) /\ r.seen \in 0..Len(rs)
    /\ Untouched(rs, r.dev, r.seen, Len(rs) + 1) => r.restore = RestoreForEntity(r.act, devs[r.dev])

(* The service call that was made is the one a record is about. *)
About(a, run) == a.dev = run.dev /\ a.act = run.act /\ a.restore = run.restore

MadeFor(r, rs) == \E i \in DOMAIN rs : rs[i].slot = r.slot /\ About(r, rs[i])

Working(r, rs, devs) ==
  r.pc # "idle" =>
    /\ Asks(r, rs) /\ CapturedNow(r, rs, devs)
    /\ r.pc = "record" => MadeFor(r, rs)

RequestsBacked == /\ \A p \in Procs : Working(req[p], runs, devState)
                  /\ \A t \in DOMAIN issued : Asks(issued[t], runs)

Recorded(a, rs) == a.run \in DOMAIN rs /\ About(a, rs[a.run])

ActionsBacked(actions, rs) == \E S : actions \in Seq(S) /\ \A a \in S : Recorded(a, rs)

LinesBacked(lines, rs) ==
  \E S : lines \in Seq(S) /\ \A l \in S : l.status = "executed" => Recorded(l.action, rs)

RecordsBacked == /\ ActionsBacked(ledger.actions, runs)
                 /\ LinesBacked(audit.lines, runs) /\ ~audit.open

DomainOf(dev) == Target[dev].domain

(* A service call did what Home Assistant does, from the state it found. *)
Made(rs, j) ==
  LET run == rs[j] IN
  /\ Asks(run, rs) /\ run.orig \in 0..(j - 1)
  /\ Reported(run.before, DomainOf(run.dev)) /\ Supported(run.act, DomainOf(run.dev))
  /\ run.after = Effect(run.act, run.val, DomainOf(run.dev), run.before)
  /\ run.restore # NoRestore =>
       /\ IsCall(run.restore) /\ run.seen \in Nat
       /\ Untouched(rs, run.dev, run.seen, j) => run.restore = RestoreForEntity(run.act, run.before)
  /\ \A i \in 1..(j - 1) :
       rs[i].dev = run.dev /\ Untouched(rs, run.dev, i, j) => run.before = rs[i].after

CallsMade(rs) == \A j \in DOMAIN rs : Made(rs, j)

(* Every device is where the last call on it left it. *)
DevicesFollow(devs, rs) ==
  /\ DOMAIN devs = Devices /\ \A d \in Devices : Reported(devs[d], DomainOf(d))
  /\ \A i \in DOMAIN rs :
       Untouched(rs, rs[i].dev, i, Len(rs) + 1) => devs[rs[i].dev] = rs[i].after

UndoInv == RequestsBacked /\ RecordsBacked /\ CallsMade(runs) /\ DevicesFollow(devState, runs)

-----------------------------------------------------------------------------
(* What an undo does to a device *)

LEMMA RoundedOnce == \A n \in Nat : RoundedDiv(100 * n, 100) = n
  BY DEF RoundedDiv

LEMMA BrightnessKept ==
  ASSUME NEW level \in 1..RawMax
  PROVE  NormalizeBrightness(100 * level) = level
<1>1. level \in Nat /\ 100 * level \in Int /\ 0 <= 100 * level /\ 100 * level <= 100 * PercentUnit
  BY DEF RawMax, PercentUnit
<1>2. Clamp(100 * level, 0, 100 * PercentUnit) = 100 * level
  BY <1>1 DEF Clamp, PercentUnit
<1> QED
  BY <1>1, <1>2, RoundedOnce DEF NormalizeBrightness

LEMMA BrightnessBounds == \A val \in Int : NormalizeBrightness(val) \in 0..RawMax
<1> SUFFICES ASSUME NEW val \in Int  PROVE NormalizeBrightness(val) \in 0..RawMax
  OBVIOUS
<1>1. ASSUME NEW v \in Int, 0 <= v, v <= 25500  PROVE RoundedDiv(v, 100) \in 0..255
  <2>1. (2 * v + 100) \div 200 >= 0 /\ (2 * v + 100) \div 200 <= 255
    BY <1>1
  <2>2. RoundedDiv(v, 100) = (2 * v + 100) \div 200
    BY DEF RoundedDiv
  <2> QED
    BY <2>1, <2>2
<1>2. ASSUME NEW v \in Int, 0 <= v, v <= 65025  PROVE RoundedDiv(v, 255) \in 0..255
  <2>1. (2 * v + 255) \div 510 >= 0 /\ (2 * v + 255) \div 510 <= 255
    BY <1>2
  <2>2. RoundedDiv(v, 255) = (2 * v + 255) \div 510
    BY DEF RoundedDiv
  <2> QED
    BY <2>1, <2>2
<1>3. ASSUME NEW hi \in Nat  PROVE Clamp(val, 0, hi) \in Int /\ 0 <= Clamp(val, 0, hi) /\ Clamp(val, 0, hi) <= hi
  BY <1>3 DEF Clamp
<1>4. RoundedDiv(Clamp(val, 0, 25500), 100) \in 0..255 /\ RoundedDiv(Clamp(val, 0, 65025), 255) \in 0..255
  BY <1>1, <1>2, <1>3
<1>5. /\ NormalizeBrightness(val) = IF val <= 25500 THEN RoundedDiv(Clamp(val, 0, 25500), 100)
                                    ELSE RoundedDiv(Clamp(val, 0, 65025), 255)
      /\ RawMax = 255
  BY DEF NormalizeBrightness, PercentUnit, RawMax
<1> QED
  BY <1>4, <1>5

LEMMA EffectIsReported ==
  ASSUME NEW act, NEW val \in Int, NEW domain, NEW s, Reported(s, domain), Supported(act, domain)
  PROVE  Reported(Effect(act, val, domain, s), domain)
<1>1. s = [power |-> s.power, level |-> s.level] /\ s.level \in Int
  BY DEF Reported
<1>2. ASSUME NEW word, domain = "light" => word \in {"on", "off"}, domain = "climate" => word # "on"
      PROVE  Reported([s EXCEPT !.power = word], domain)
  BY <1>1, <1>2 DEF Reported
<1>3. CASE act \in {"turn_on", "turn_off", "toggle"}
  <2>1. (domain = "light" => OnState(domain) = "on")
        /\ (domain = "climate" => OnState(domain) = "heat")
    BY DEF OnState
  <2>2. (domain = "light" => Toggled(domain, s.power) \in {"on", "off"})
        /\ (domain = "climate" => Toggled(domain, s.power) # "on")
    BY <2>1 DEF Toggled
  <2> QED
    BY <1>2, <1>3, <2>1, <2>2 DEF Effect
<1>4. CASE act \in {"open", "close", "lock", "unlock"}
  <2>1. domain \in {"cover", "lock"}
    BY <1>4 DEF Supported
  <2> QED
    BY <1>2, <1>4, <2>1 DEF Effect
<1>5. CASE act = "set_temperature"
  <2>1. domain = "climate"
    BY <1>5 DEF Supported
  <2> QED
    BY <1>1, <1>5, <2>1 DEF Effect, Reported
<1>6. CASE act = "set_brightness"
  <2>1. domain = "light"
    BY <1>6 DEF Supported
  <2>2. CASE NormalizeBrightness(val) = 0
    BY <1>2, <1>6, <2>1, <2>2 DEF Effect
  <2>3. CASE NormalizeBrightness(val) # 0
    <3>1. NormalizeBrightness(val) \in 1..RawMax
      BY <2>3, BrightnessBounds DEF RawMax
    <3> QED
      BY <1>6, <2>1, <2>3, <3>1 DEF Effect, Reported, RawMax
  <2> QED
    BY <2>2, <2>3
<1>7. CASE act \notin {"turn_on", "turn_off", "toggle", "open", "close", "lock", "unlock",
                       "set_temperature", "set_brightness"}
  BY <1>7 DEF Effect
<1> QED
  BY <1>3, <1>4, <1>5, <1>6, <1>7

LEMMA UndoPutsBack ==
  ASSUME NEW act, NEW val \in Int, NEW domain, NEW s, Reported(s, domain), Supported(act, domain),
         NEW r, r = RestoreForEntity(act, s), r # NoRestore, Supported(r.act, domain)
  PROVE  SameState(Effect(r.act, r.val, domain, Effect(act, val, domain, s)), s)
<1>1. s = [power |-> s.power, level |-> s.level] /\ s.level \in Int
  BY DEF Reported
<1> DEFINE t == Effect(act, val, domain, s)
<1>2. t = [power |-> t.power, level |-> t.level] /\ t.level \in Int
  BY EffectIsReported DEF Reported
<1>3. CASE act \in {"set_brightness", "set_temperature"} /\ s.power = "off"
  <2>1. r.act = "turn_off"
    BY <1>3 DEF RestoreForEntity
  <2>2. Effect(r.act, r.val, domain, t).power = "off"
    BY <1>2, <2>1 DEF Effect
  <2> HIDE DEF t
  <2> QED
    BY <1>3, <2>2 DEF SameState, t
<1>4. CASE act = "set_brightness" /\ s.power # "off"
  <2>1. s.level # NoValue /\ r = [act |-> "set_brightness", val |-> 100 * s.level]
    BY <1>4 DEF RestoreForEntity
  <2>2. domain = "light"
    BY <1>4 DEF Supported
  <2>3. s.power = "on" /\ s.level \in 1..RawMax
    BY <1>4, <2>1, <2>2 DEF Reported
  <2>4. NormalizeBrightness(r.val) = s.level /\ s.level # 0
    BY <2>1, <2>3, BrightnessKept
  <2>5. Effect(r.act, r.val, domain, t) = [power |-> "on", level |-> s.level]
    BY <2>1, <2>4 DEF Effect
  <2> QED
    BY <2>3, <2>5 DEF SameState
<1>5. CASE act = "set_temperature" /\ s.power # "off"
  <2>1. r = [act |-> "set_temperature", val |-> s.level]
    BY <1>5 DEF RestoreForEntity
  <2>2. t.power = s.power
    BY <1>1, <1>5 DEF Effect
  <2>3. Effect(r.act, r.val, domain, t) = [t EXCEPT !.level = s.level]
    BY <2>1 DEF Effect
  <2> HIDE DEF t
  <2>4. [t EXCEPT !.level = s.level].power = s.power /\ [t EXCEPT !.level = s.level].level = s.level
    BY <1>2, <2>2
  <2> QED
    BY <2>3, <2>4 DEF SameState, t
<1>6. CASE act = "toggle"
  <2>1. s.power \in DOMAIN PowerRestore /\ r = [act |-> PowerRestore[s.power], val |-> NoValue]
    BY <1>6 DEF RestoreForEntity
  <2>2. s.power \in {"on", "off", "open", "closed", "locked", "unlocked"}
    BY <2>1 DEF PowerRestore
  <2>3. domain = "climate" => s.power # "on"
    BY DEF Reported
  <2>4. Effect(r.act, r.val, domain, t) = [t EXCEPT !.power = s.power]
    <3> HIDE DEF t
    <3>1. CASE s.power = "on"
      <4>1. r.act = "turn_on" /\ OnState(domain) = "on"
        BY <2>1, <2>3, <3>1 DEF PowerRestore, OnState
      <4> QED
        BY <3>1, <4>1 DEF Effect
    <3>2. CASE s.power = "off"
      <4>1. r.act = "turn_off"
        BY <2>1, <3>2 DEF PowerRestore
      <4> QED
        BY <3>2, <4>1 DEF Effect
    <3>3. CASE s.power = "open"
      <4>1. r.act = "open"
        BY <2>1, <3>3 DEF PowerRestore
      <4> QED
        BY <3>3, <4>1 DEF Effect
    <3>4. CASE s.power = "closed"
      <4>1. r.act = "close"
        BY <2>1, <3>4 DEF PowerRestore
      <4> QED
        BY <3>4, <4>1 DEF Effect
    <3>5. CASE s.power = "locked"
      <4>1. r.act = "lock"
        BY <2>1, <3>5 DEF PowerRestore
      <4> QED
        BY <3>5, <4>1 DEF Effect
    <3>6. CASE s.power = "unlocked"
      <4>1. r.act = "unlock"
        BY <2>1, <3>6 DEF PowerRestore
      <4> QED
        BY <3>6, <4>1 DEF Effect
    <3> QED
      BY <2>2, <3>1, <3>2, <3>3, <3>4, <3>5, <3>6
  <2>5. t.level = s.level
    BY <1>1, <1>6 DEF Effect
  <2> HIDE DEF t
  <2>6. [t EXCEPT !.power = s.power].power = s.power /\ [t EXCEPT !.power = s.power].level = s.level
    BY <1>2, <2>5
  <2> QED
    BY <2>4, <2>6 DEF SameState, t
<1>7. act \in CapturedActions
  BY DEF RestoreForEntity, CapturedActions
<1> QED
  BY <1>3, <1>4, <1>5, <1>6, <1>7 DEF CapturedActions
(* Subsets of the indices of a sequence are finite. *)
LEMMA IndicesFinite ==
  ASSUME NEW n \in Nat, NEW S, S \subseteq 1..n
  PROVE  IsFiniteSet(S) /\ Cardinality(S) \in Nat /\ Cardinality(S) <= n
<1>1. IsFiniteSet(1..n) /\ Cardinality(1..n) = n
  <2>1. IsFiniteSet(1..n) /\ Cardinality(1..n) = IF 1 > n THEN 0 ELSE n - 1 + 1
    BY FS_Interval
  <2> QED
    BY <2>1
<1>2. S \in SUBSET (1..n)
  OBVIOUS
<1> QED
  BY <1>1, <1>2, FS_Subset, FS_CardinalityType

(* A set of positions has a last one. *)
LEMMA LargestOf ==
  ASSUME NEW n \in Nat, NEW S, S \subseteq 1..n, S # {}
  PROVE  \E i \in S : \A j \in S : j <= i
<1> DEFINE T == {n - i : i \in S}
<1>1. T \subseteq Nat /\ T # {}
  <2>1. \A i \in S : n - i \in Nat
    OBVIOUS
  <2>2. PICK i \in S : TRUE
    OBVIOUS
  <2>3. n - i \in T
    OBVIOUS
  <2> QED
    BY <2>1, <2>3
<1>2. \E x \in T : \A y \in T : ~(<<y, x>> \in OpToRel(<, Nat))
  BY <1>1, WFMin, NatLessThanWellFounded, Zenon
<1>3. PICK x \in T : \A y \in T : ~(y < x)
  BY <1>1, <1>2 DEF OpToRel
<1>4. PICK i \in S : x = n - i
  BY <1>3
<1>5. ASSUME NEW j \in S PROVE j <= i
  <2>1. n - j \in T
    BY <1>5
  <2>2. ~(n - j < n - i)
    BY <1>3, <1>4, <2>1
  <2>3. i \in 1..n /\ j \in 1..n
    BY <1>4, <1>5
  <2> HIDE DEF T
  <2> QED
    BY <2>2, <2>3
<1> QED
  BY <1>5

-----------------------------------------------------------------------------
(* One more service call, e, on the history rs. *)

Extended(rs2, rs, e) ==
  /\ Len(rs) \in Nat /\ DOMAIN rs = 1..Len(rs)
  /\ Len(rs2) = Len(rs) + 1 /\ DOMAIN rs2 = 1..(Len(rs) + 1)
  /\ rs2[Len(rs) + 1] = e /\ \A i \in 1..Len(rs) : rs2[i] = rs[i]

LEMMA AppendExtends ==
  ASSUME NEW rs, NEW e, Sequence(rs)
  PROVE  Extended(Append(rs, e), rs, e)
<1>1. /\ Len(rs) \in Nat /\ DOMAIN rs = 1..Len(rs)
      /\ DOMAIN Append(rs, e) = 1..(Len(rs) + 1)
      /\ Append(rs, e)[Len(rs) + 1] = e
      /\ \A i \in DOMAIN rs : Append(rs, e)[i] = rs[i]
  BY AppendFacts
<1>2. Len(Append(rs, e)) = Len(rs) + 1
  <2>1. PICK R : rs \in Seq(R)
    BY DEF Sequence
  <2> DEFINE S == R \cup {e}
  <2>2. rs \in Seq(S) /\ e \in S
    BY <2>1
  <2> HIDE DEF S
  <2> QED
    BY <2>2
<1> QED
  BY <1>1, <1>2 DEF Extended

LEMMA UntouchedBefore ==
  ASSUME NEW rs, NEW rs2, NEW e, Extended(rs2, rs, e), NEW dev, NEW a \in Nat, NEW b \in Nat,
         b <= Len(rs) + 1
  PROVE  Untouched(rs2, dev, a, b) <=> Untouched(rs, dev, a, b)
<1>1. \A k \in (a + 1)..(b - 1) : k \in 1..Len(rs) /\ rs2[k] = rs[k]
  <2>1. \A k \in (a + 1)..(b - 1) : k \in 1..Len(rs)
    BY DEF Extended
  <2> QED
    BY <2>1 DEF Extended
<1> QED
  BY <1>1 DEF Untouched

LEMMA UntouchedBy ==
  ASSUME NEW rs, NEW rs2, NEW e, Extended(rs2, rs, e), NEW dev, NEW a \in 0..Len(rs),
         Untouched(rs2, dev, a, Len(rs2) + 1)
  PROVE  Untouched(rs, dev, a, Len(rs) + 1) /\ e.dev # dev
<1>1. Len(rs) \in Nat /\ Len(rs2) = Len(rs) + 1
  BY DEF Extended
<1>2. Len(rs) + 1 \in (a + 1)..(Len(rs2) + 1 - 1)
  BY <1>1
<1>3. \A k \in (a + 1)..(Len(rs) + 1 - 1) :
        k \in (a + 1)..(Len(rs2) + 1 - 1) /\ k \in 1..Len(rs)
  BY <1>1
<1> QED
  BY <1>2, <1>3 DEF Untouched, Extended

LEMMA AsksStill ==
  ASSUME NEW rs, NEW rs2, NEW e, Extended(rs2, rs, e), NEW c, Asks(c, rs)
  PROVE  Asks(c, rs2)
  BY DEF Asks, Undoes, Extended

LEMMA RecordedStill ==
  ASSUME NEW rs, NEW rs2, NEW e, Extended(rs2, rs, e)
  PROVE  /\ \A a : Recorded(a, rs) => Recorded(a, rs2)
         /\ \A r : MadeFor(r, rs) => MadeFor(r, rs2)
  BY DEF Recorded, MadeFor, Extended

LEMMA MadeStill ==
  ASSUME NEW rs, NEW rs2, NEW e, Extended(rs2, rs, e), NEW j \in DOMAIN rs, Made(rs, j)
  PROVE  Made(rs2, j)
<1>1. /\ rs2[j] = rs[j] /\ j \in Nat /\ j <= Len(rs) + 1
      /\ \A i \in 1..(j - 1) : i \in Nat /\ rs2[i] = rs[i]
  <2>1. j \in Nat /\ j <= Len(rs) + 1 /\ \A i \in 1..(j - 1) : i \in 1..Len(rs)
    BY DEF Extended
  <2> QED
    BY <2>1 DEF Extended
<1>2. Asks(rs[j], rs2)
  BY AsksStill DEF Made
<1>3. \A dev : \A a \in Nat : Untouched(rs2, dev, a, j) <=> Untouched(rs, dev, a, j)
  BY <1>1, UntouchedBefore
<1> QED
  BY <1>1, <1>2, <1>3 DEF Made

LEMMA WorkingStill ==
  ASSUME NEW rs, NEW rs2, NEW e, Extended(rs2, rs, e), NEW devs, NEW devs2,
         \A d \in Devices : d # e.dev => devs2[d] = devs[d],
         NEW r, Working(r, rs, devs)
  PROVE  Working(r, rs2, devs2)
<1> SUFFICES ASSUME r.pc # "idle"
             PROVE  Asks(r, rs2) /\ CapturedNow(r, rs2, devs2)
                    /\ (r.pc = "record" => MadeFor(r, rs2))
  BY DEF Working
<1>1. Asks(r, rs) /\ CapturedNow(r, rs, devs) /\ (r.pc = "record" => MadeFor(r, rs))
  BY DEF Working
<1>2. Asks(r, rs2) /\ r.dev \in Devices
  BY <1>1, AsksStill DEF Asks
<1>3. CapturedNow(r, rs2, devs2)
  <2> SUFFICES ASSUME r.restore # NoRestore
               PROVE  /\ IsCall(r.restore) /\ r.seen \in 0..Len(rs2)
                      /\ Untouched(rs2, r.dev, r.seen, Len(rs2) + 1)
                           => r.restore = RestoreForEntity(r.act, devs2[r.dev])
    BY DEF CapturedNow
  <2>1. /\ IsCall(r.restore) /\ r.seen \in 0..Len(rs)
        /\ Untouched(rs, r.dev, r.seen, Len(rs) + 1)
             => r.restore = RestoreForEntity(r.act, devs[r.dev])
    BY <1>1 DEF CapturedNow
  <2>2. r.seen \in 0..Len(rs2)
    BY <2>1 DEF Extended
  <2>3. Untouched(rs2, r.dev, r.seen, Len(rs2) + 1)
          => Untouched(rs, r.dev, r.seen, Len(rs) + 1) /\ e.dev # r.dev
    BY <2>1, UntouchedBy
  <2> QED
    BY <1>2, <2>1, <2>2, <2>3
<1>4. r.pc = "record" => MadeFor(r, rs2)
  BY <1>1, RecordedStill
<1> QED
  BY <1>2, <1>3, <1>4

(* e is the call of request r, on the device as it is. *)
CallOf(e, r, devs) ==
  /\ e.dev = r.dev /\ e.act = r.act /\ e.val = r.val /\ e.orig = r.orig /\ e.slot = r.slot
  /\ e.restore = r.restore /\ e.seen = r.seen
  /\ e.before = devs[r.dev] /\ e.after = Effect(r.act, r.val, DomainOf(r.dev), e.before)

LEMMA CallIsMade ==
  ASSUME NEW rs, NEW rs2, NEW e, Extended(rs2, rs, e), NEW devs, NEW r, CallOf(e, r, devs),
         Asks(r, rs), CapturedNow(r, rs, devs), DevicesFollow(devs, rs),
         Supported(r.act, DomainOf(r.dev))
  PROVE  Made(rs2, Len(rs2))
<1> DEFINE n == Len(rs) + 1
<1>1. n = Len(rs2) /\ n \in Nat /\ rs2[n] = e /\ Len(rs) \in Nat /\ Len(rs) = n - 1
  BY DEF Extended
<1>2. Asks(e, rs2) /\ e.orig \in 0..(n - 1)
  <2>1. Asks(e, rs)
    BY DEF Asks, Undoes, CallOf
  <2>2. e.orig # 0 => e.orig \in 1..Len(rs)
    BY <2>1 DEF Asks, Undoes, Extended
  <2> QED
    BY <1>1, <2>1, <2>2, AsksStill
<1>3. /\ Reported(e.before, DomainOf(e.dev)) /\ Supported(e.act, DomainOf(e.dev))
      /\ e.after = Effect(e.act, e.val, DomainOf(e.dev), e.before)
  BY DEF CallOf, DevicesFollow, Asks
<1>4. ASSUME e.restore # NoRestore
      PROVE  /\ IsCall(e.restore) /\ e.seen \in Nat
             /\ Untouched(rs2, e.dev, e.seen, n) => e.restore = RestoreForEntity(e.act, e.before)
  <2>1. /\ IsCall(e.restore) /\ e.seen \in 0..Len(rs)
        /\ Untouched(rs, e.dev, e.seen, n) => e.restore = RestoreForEntity(e.act, e.before)
    BY <1>4 DEF CapturedNow, CallOf
  <2>2. e.seen \in Nat /\ n <= Len(rs) + 1
    BY <1>1, <2>1
  <2>3. Untouched(rs2, e.dev, e.seen, n) <=> Untouched(rs, e.dev, e.seen, n)
    BY <1>1, <2>2, UntouchedBefore
  <2> QED
    BY <2>1, <2>2, <2>3
<1>5. ASSUME NEW i \in 1..(n - 1), rs2[i].dev = e.dev, Untouched(rs2, e.dev, i, n)
      PROVE  e.before = rs2[i].after
  <2>1. i \in DOMAIN rs /\ i \in Nat /\ rs2[i] = rs[i] /\ n <= Len(rs) + 1
    BY <1>1 DEF Extended
  <2>2. Untouched(rs, rs[i].dev, i, Len(rs) + 1)
    BY <1>1, <1>5, <2>1, UntouchedBefore
  <2> QED
    BY <1>5, <2>1, <2>2 DEF DevicesFollow, CallOf
<1> HIDE DEF n
<1> QED
  BY <1>1, <1>2, <1>3, <1>4, <1>5 DEF Made

LEMMA DevicesStill ==
  ASSUME NEW rs, NEW rs2, NEW e, Extended(rs2, rs, e), NEW devs, NEW devs2,
         devs2 = [devs EXCEPT ![e.dev] = e.after], DevicesFollow(devs, rs),
         e.dev \in Devices, Reported(e.after, DomainOf(e.dev)),
         \A i \in DOMAIN rs : rs[i].dev \in Devices
  PROVE  DevicesFollow(devs2, rs2)
<1>1. /\ DOMAIN devs2 = Devices /\ devs2[e.dev] = e.after
      /\ \A d \in Devices : d # e.dev => devs2[d] = devs[d]
  BY DEF DevicesFollow
<1>2. \A d \in Devices : Reported(devs2[d], DomainOf(d))
  BY <1>1 DEF DevicesFollow
<1>3. ASSUME NEW i \in DOMAIN rs2, Untouched(rs2, rs2[i].dev, i, Len(rs2) + 1)
      PROVE  devs2[rs2[i].dev] = rs2[i].after
  <2>1. CASE i = Len(rs) + 1
    BY <1>1, <2>1 DEF Extended
  <2>2. CASE i # Len(rs) + 1
    <3>1. i \in DOMAIN rs /\ i \in 0..Len(rs)
      BY <2>2 DEF Extended
    <3>2. rs2[i] = rs[i]
      BY <3>1 DEF Extended
    <3>3. Untouched(rs, rs[i].dev, i, Len(rs) + 1) /\ e.dev # rs[i].dev
      BY <1>3, <3>1, <3>2, UntouchedBy
    <3> QED
      BY <1>1, <3>1, <3>2, <3>3 DEF DevicesFollow
  <2> QED
    BY <2>1, <2>2
<1> QED
  BY <1>1, <1>2, <1>3 DEF DevicesFollow

-----------------------------------------------------------------------------
(* Steps that make no service call *)

LEMMA AuditsOther ==
  ASSUME RecordsBacked, audit' = audit \/ AuditOther
  PROVE  LinesBacked(audit'.lines, runs) /\ ~audit'.open
<1>1. CASE audit' = audit
  BY <1>1 DEF RecordsBacked
<1>2. CASE AuditOther
  <2>1. PICK S : audit.lines \in Seq(S)
                 /\ \A l \in S : l.status = "executed" => Recorded(l.action, runs)
    BY DEF RecordsBacked, LinesBacked
  <2>2. audit' = [lines |-> Append(audit.lines, Other), open |-> FALSE]
    BY <1>2 DEF AuditOther, AppendJsonLine, RecordsBacked
  <2>3. Other.status # "executed"
    BY DEF Other
  <2> DEFINE T == S \cup {Other}
  <2>4. audit.lines \in Seq(T) /\ Other \in T
    BY <2>1
  <2>5. \A l \in T : l.status = "executed" => Recorded(l.action, runs)
    BY <2>1, <2>3
  <2> HIDE DEF T
  <2>6. Append(audit.lines, Other) \in Seq(T)
    BY <2>4
  <2> QED
    BY <2>2, <2>5, <2>6 DEF LinesBacked
<1> QED
  BY <1>1, <1>2

LEMMA NoCall ==
  ASSUME UndoInv, runs' = runs, devState' = devState, ledger' = ledger,
         audit' = audit \/ AuditOther,
         \A q \in Procs : req'[q] = req[q] \/ Working(req'[q], runs, devState),
         \A t \in DOMAIN issued' : Asks(issued'[t], runs)
  PROVE  UndoInv'
<1>1. RequestsBacked'
  <2>1. \A q \in Procs : Working(req'[q], runs, devState)
    BY DEF UndoInv, RequestsBacked
  <2> QED
    BY <2>1 DEF RequestsBacked
<1>2. RecordsBacked'
  <2>1. LinesBacked(audit'.lines, runs) /\ ~audit'.open
    BY AuditsOther DEF UndoInv
  <2> QED
    BY <2>1 DEF UndoInv, RecordsBacked
<1> QED
  BY <1>1, <1>2 DEF UndoInv

(* The fields of a request that say what it does. *)
SameTask(r2, r) ==
  /\ r2.dev = r.dev /\ r2.act = r.act /\ r2.val = r.val /\ r2.orig = r.orig
  /\ r2.restore = r.restore /\ r2.seen = r.seen /\ r2.slot = r.slot

LEMMA GoToKeeps ==
  ASSUME Shape, NEW p \in Procs, NEW pc, GoTo(p, pc)
  PROVE  /\ req'[p].pc = pc /\ SameTask(req'[p], req[p])
         /\ \A q \in Procs \ {p} : req'[q] = req[q]
<1>1. {"pc", "dev", "act", "val", "orig", "restore", "seen", "slot"} \subseteq DOMAIN Idle
  BY DEF Idle
<1>2. req[p] = [f \in DOMAIN Idle |-> req[p][f]]
  BY DEF Shape
<1>3. req'[p] = [req[p] EXCEPT !.pc = pc] /\ \A q \in Procs \ {p} : req'[q] = req[q]
  BY DEF GoTo, Shape
<1> QED
  BY <1>1, <1>2, <1>3 DEF SameTask

LEMMA FinishKeeps ==
  ASSUME Shape, NEW p \in Procs, Finish(p)
  PROVE  \A q \in Procs : req'[q] = req[q] \/ Working(req'[q], runs, devState)
<1>1. req'[p] = Idle /\ \A q \in Procs \ {p} : req'[q] = req[q]
  BY DEF Finish, Shape
<1>2. Idle.pc = "idle"
  BY DEF Idle
<1> QED
  BY <1>1, <1>2 DEF Working

LEMMA GoToWorks ==
  ASSUME Shape, RequestsBacked, NEW p \in Procs, NEW pc, GoTo(p, pc),
         req[p].pc # "idle", pc # "record"
  PROVE  \A q \in Procs : req'[q] = req[q] \/ Working(req'[q], runs, devState)
<1>1. /\ req'[p].pc = pc /\ SameTask(req'[p], req[p])
      /\ \A q \in Procs \ {p} : req'[q] = req[q]
  BY GoToKeeps
<1>2. Asks(req[p], runs) /\ CapturedNow(req[p], runs, devState)
  BY DEF RequestsBacked, Working
<1>3. Asks(req'[p], runs) /\ CapturedNow(req'[p], runs, devState)
  BY <1>1, <1>2 DEF SameTask, Asks, Undoes, CapturedNow
<1> QED
  BY <1>1, <1>3 DEF Working

LEMMA AdmitWorks ==
  ASSUME Shape, NEW p \in Procs, NEW cmd, NEW origin, NEW token, NEW undo, NEW slot,
         Admit(p, cmd, origin, token, undo, slot),
         Asks([dev |-> cmd.dev, act |-> cmd.act, val |-> cmd.val, orig |-> undo.run], runs)
  PROVE  \A q \in Procs : req'[q] = req[q] \/ Working(req'[q], runs, devState)
<1> DEFINE r == [pc |-> FirstStop(cmd.act, undo.id), dev |-> cmd.dev, act |-> cmd.act,
                 val |-> cmd.val, origin |-> origin, token |-> token, undoOf |-> undo.id,
                 restore |-> NoRestore, slot |-> slot,
                 orig |-> undo.run, seen |-> 0, at |-> now]
<1>1. req' = [req EXCEPT ![p] = r]
  BY DEF Admit
<1>2. r.restore = NoRestore /\ r.pc # "record"
  BY DEF FirstStop
<1>3. Asks(r, runs)
  BY DEF Asks, Undoes
<1> HIDE DEF r
<1>4. req'[p] = r /\ \A q \in Procs \ {p} : req'[q] = req[q]
  BY <1>1 DEF Shape
<1>5. Working(r, runs, devState)
  BY <1>2, <1>3 DEF Working, CapturedNow
<1> QED
  BY <1>4, <1>5

LEMMA EnterWorks ==
  ASSUME Shape, UndoInv, NEW p \in Procs, NEW cmd, NEW origin, NEW undo,
         EnterPlain(p, cmd, origin, undo),
         Asks([dev |-> cmd.dev, act |-> cmd.act, val |-> cmd.val, orig |-> undo.run], runs),
         runs' = runs, devState' = devState, ledger' = ledger, issued' = issued
  PROVE  UndoInv'
<1>1. /\ req' = req \/ Admit(p, cmd, origin, NoToken, undo, Len(slots) + 1)
      /\ audit' = audit \/ AuditOther
  BY DEF EnterPlain
<1>2. \A q \in Procs : req'[q] = req[q] \/ Working(req'[q], runs, devState)
  BY <1>1, AdmitWorks
<1>3. \A t \in DOMAIN issued' : Asks(issued'[t], runs)
  BY DEF UndoInv, RequestsBacked
<1> QED
  BY <1>1, <1>2, <1>3, NoCall

LEMMA HomeControlUndo ==
  ASSUME Shape, UndoInv, NEW cmd \in Commands, NEW origin \in Origins, HomeControl(cmd, origin)
  PROVE  UndoInv'
<1>1. /\ runs' = runs /\ devState' = devState /\ ledger' = ledger /\ issued' = issued
      /\ EnterPlain("chat", cmd, origin, NotUndo) \/ (req' = req /\ audit' = audit)
  BY DEF HomeControl
<1>2. Asks([dev |-> cmd.dev, act |-> cmd.act, val |-> cmd.val, orig |-> NotUndo.run], runs)
  BY HouseholdAssumption DEF Asks, Undoes, NotUndo
<1>3. CASE EnterPlain("chat", cmd, origin, NotUndo)
  <2>1. "chat" \in Procs
    BY DEF Procs
  <2> QED
    BY <1>1, <1>2, <1>3, <2>1, EnterWorks
<1>4. CASE req' = req /\ audit' = audit
  BY <1>1, <1>4, NoCall DEF UndoInv, RequestsBacked
<1> QED
  BY <1>1, <1>3, <1>4

(* What home_undo asks for undoes the call of the record it found. *)
LEMMA LastIsBacked ==
  ASSUME UndoInv, Undoable(ledger) # {}
  PROVE  LET last == LastUndoable(ledger)
             args == UndoArgs(last)
         IN  Asks([dev |-> last.dev, act |-> args.act, val |-> args.val, orig |-> last.run], runs)
<1> DEFINE last == LastUndoable(ledger)
           args == UndoArgs(last)
<1> SUFFICES Asks([dev |-> last.dev, act |-> args.act, val |-> args.val, orig |-> last.run], runs)
  OBVIOUS
<1>1. PICK S : ledger.actions \in Seq(S) /\ \A a \in S : Recorded(a, runs)
  BY DEF UndoInv, RecordsBacked, ActionsBacked
<1>2. Undoable(ledger) \subseteq DOMAIN ledger.actions
  BY DEF Undoable
<1>3. DOMAIN ledger.actions = 1..Len(ledger.actions) /\ Len(ledger.actions) \in Nat
  BY <1>1
<1>4. \E i \in Undoable(ledger) : \A j \in Undoable(ledger) : j <= i
  BY <1>2, <1>3, LargestOf
<1>5. \E i \in Undoable(ledger) : last = ledger.actions[i]
  BY <1>4 DEF LastUndoable
<1>6. last \in S
  BY <1>1, <1>2, <1>5
<1>7. last.run \in DOMAIN runs /\ About(last, runs[last.run])
  BY <1>1, <1>6 DEF Recorded
<1>8. Made(runs, last.run)
  BY <1>7 DEF UndoInv, CallsMade
<1> HIDE DEF last
<1>9. last.dev \in Devices /\ last.dev = runs[last.run].dev
      /\ last.restore = runs[last.run].restore
      /\ (last.restore # NoRestore => IsCall(last.restore))
  BY <1>7, <1>8 DEF About, Made, Asks
<1>10. CASE last.restore # NoRestore
  <2>1. args = last.restore
    BY <1>10 DEF UndoArgs
  <2>2. args = [act |-> args.act, val |-> args.val] /\ args.val \in Int
    BY <1>9, <1>10, <2>1 DEF IsCall
  <2> HIDE DEF args
  <2> QED
    BY <1>7, <1>9, <2>1, <2>2 DEF Asks, Undoes
<1>11. CASE last.restore = NoRestore
  <2>1. args.val = NoValue /\ NoValue \in Int
    BY <1>11 DEF UndoArgs, NoValue
  <2> HIDE DEF args
  <2> QED
    BY <1>7, <1>9, <1>11, <2>1 DEF Asks, Undoes
<1> QED
  BY <1>10, <1>11

LEMMA HomeUndoUndo ==
  ASSUME Shape, UndoInv, NEW origin \in Origins, HomeUndo(origin)
  PROVE  UndoInv'
<1> DEFINE last == LastUndoable(ledger)
           args == UndoArgs(last)
           cmd  == [dev |-> last.dev, act |-> args.act, val |-> args.val]
<1>1. /\ runs' = runs /\ devState' = devState /\ ledger' = ledger /\ issued' = issued
      /\ \/ Undoable(ledger) # {} /\ EnterPlain("chat", cmd, origin, last)
         \/ req' = req /\ audit' = audit
  BY DEF HomeUndo
<1>2. CASE Undoable(ledger) # {} /\ EnterPlain("chat", cmd, origin, last)
  <2>1. Asks([dev |-> last.dev, act |-> args.act, val |-> args.val, orig |-> last.run], runs)
    BY <1>2, LastIsBacked
  <2>2. Asks([dev |-> cmd.dev, act |-> cmd.act, val |-> cmd.val, orig |-> last.run], runs)
    BY <2>1
  <2>3. "chat" \in Procs
    BY DEF Procs
  <2> HIDE DEF cmd, args, last
  <2> QED
    BY <1>1, <1>2, <2>2, <2>3, EnterWorks
<1>3. CASE req' = req /\ audit' = audit
  BY <1>1, <1>3, NoCall DEF UndoInv, RequestsBacked
<1> QED
  BY <1>1, <1>2, <1>3

LEMMA ConfirmUndo ==
  ASSUME Shape, UndoInv, NEW p \in Confirmers, NEW t \in pending, ConfirmToken(p, t)
  PROVE  UndoInv'
<1> DEFINE cmd  == [dev |-> issued[t].dev, act |-> issued[t].act, val |-> issued[t].val]
           undo == [id |-> NoAction, run |-> issued[t].orig]
<1>1. /\ runs' = runs /\ devState' = devState /\ ledger' = ledger /\ issued' = issued
      /\ audit' = audit
      /\ Admit(p, cmd, issued[t].origin, t, undo, issued[t].slot) \/ req' = req
  BY DEF ConfirmToken
<1>2. Asks(issued[t], runs) /\ p \in Procs
  BY DEF UndoInv, RequestsBacked, Shape, Procs
<1>3. Asks([dev |-> cmd.dev, act |-> cmd.act, val |-> cmd.val, orig |-> undo.run], runs)
  BY <1>2 DEF Asks, Undoes
<1> HIDE DEF cmd, undo
<1>4. \A q \in Procs : req'[q] = req[q] \/ Working(req'[q], runs, devState)
  BY <1>1, <1>2, <1>3, AdmitWorks
<1> QED
  BY <1>1, <1>4, NoCall DEF UndoInv, RequestsBacked

LEMMA CaptureUndo ==
  ASSUME Shape, UndoInv, NEW p \in Procs, Capture(p)
  PROVE  UndoInv'
<1> DEFINE r == req[p]
           now0 == RestoreForEntity(r.act, devState[r.dev])
<1>1. /\ r.pc = "capture" /\ UNCHANGED <<runs, devState, ledger, audit, issued>>
  BY DEF Capture, memVars, history
<1>2. UndoRestoreFromPrior(r.act, {devState[r.dev]}) = now0
  <2>1. {RestoreForEntity(r.act, e) : e \in {devState[r.dev]}} = {now0}
    OBVIOUS
  <2>2. Cardinality({now0}) = 1
    BY FS_Singleton
  <2> HIDE DEF now0
  <2> QED
    BY <2>1, <2>2 DEF UndoRestoreFromPrior
<1>3. PICK restore \in {NoRestore, now0} :
        req' = [req EXCEPT ![p].restore = restore, ![p].pc = "resolve", ![p].seen = Len(runs)]
  BY <1>2 DEF Capture
<1>4. Asks(r, runs)
  BY <1>1 DEF UndoInv, RequestsBacked, Working
<1>5. restore # NoRestore => restore = now0 /\ IsCall(restore)
  <2>1. devState[r.dev].level \in Int
    BY <1>4 DEF UndoInv, DevicesFollow, Asks, Reported
  <2>2. now0 # NoRestore => IsCall(now0)
    BY <2>1 DEF RestoreForEntity, IsCall, NoValue
  <2> QED
    BY <1>3, <2>2
<1>6. Len(runs) \in Nat
  BY AppendFacts DEF Shape
<1> HIDE DEF now0
<1>7. \A q \in Procs \ {p} : req'[q] = req[q]
  BY <1>3 DEF Shape
<1>8. /\ req'[p].restore = restore /\ req'[p].pc = "resolve" /\ req'[p].seen = Len(runs)
      /\ req'[p].dev = r.dev /\ req'[p].act = r.act /\ req'[p].val = r.val
      /\ req'[p].orig = r.orig
  <2>1. r = [f \in DOMAIN Idle |-> r[f]]
    BY DEF Shape
  <2>2. {"restore", "pc", "seen", "dev", "act", "val", "orig"} \subseteq DOMAIN Idle
    BY DEF Idle
  <2>3. req'[p] = [r EXCEPT !.restore = restore, !.pc = "resolve", !.seen = Len(runs)]
    BY <1>3 DEF Shape
  <2> HIDE DEF r
  <2> QED
    BY <2>1, <2>2, <2>3
<1>9. Asks(req'[p], runs)
  BY <1>4, <1>8 DEF Asks, Undoes
<1>10. CapturedNow(req'[p], runs, devState)
  BY <1>5, <1>6, <1>8 DEF CapturedNow, now0
<1>11. \A q \in Procs : req'[q] = req[q] \/ Working(req'[q], runs, devState)
  BY <1>7, <1>8, <1>9, <1>10 DEF Working
<1> QED
  BY <1>1, <1>11, NoCall DEF UndoInv, RequestsBacked

LEMMA ResolveUndo ==
  ASSUME Shape, UndoInv, NEW p \in Procs, Resolve(p)
  PROVE  UndoInv'
<1> DEFINE item == [dev |-> req[p].dev, act |-> req[p].act, val |-> req[p].val,
                    origin |-> req[p].origin, created |-> now,
                    expires |-> now + ConfirmTtl,
                    slot |-> req[p].slot, orig |-> req[p].orig]
<1>1. /\ req[p].pc = "resolve" /\ UNCHANGED <<runs, devState, ledger>>
      /\ Finish(p) \/ GoTo(p, "check")
      /\ audit' = audit \/ AuditOther
      /\ issued' = issued \/ issued' = Append(issued, item)
  BY DEF Resolve, Issue, history
<1>2. \A q \in Procs : req'[q] = req[q] \/ Working(req'[q], runs, devState)
  BY <1>1, FinishKeeps, GoToWorks DEF UndoInv
<1>3. Asks(item, runs)
  <2>1. Asks(req[p], runs)
    BY <1>1 DEF UndoInv, RequestsBacked, Working
  <2> QED
    BY <2>1 DEF Asks, Undoes
<1> HIDE DEF item
<1>4. \A t \in DOMAIN issued' : Asks(issued'[t], runs)
  <2>1. \A t \in DOMAIN issued : Asks(issued[t], runs)
    BY DEF UndoInv, RequestsBacked
  <2>2. CASE issued' = Append(issued, item)
    <3>1. Extended(issued', issued, item)
      BY <2>2, AppendExtends DEF Shape
    <3> QED
      BY <1>3, <2>1, <3>1 DEF Extended
  <2> QED
    BY <1>1, <2>1, <2>2
<1> QED
  BY <1>1, <1>2, <1>4, NoCall

LEMMA CheckUndo ==
  ASSUME Shape, UndoInv, NEW p \in Procs, Check(p)
  PROVE  UndoInv'
<1>1. /\ req[p].pc = "check" /\ UNCHANGED <<runs, devState, ledger, issued>>
      /\ Finish(p) \/ GoTo(p, "execute")
      /\ audit' = audit \/ AuditOther
  BY DEF Check, memVars, history
<1>2. \A q \in Procs : req'[q] = req[q] \/ Working(req'[q], runs, devState)
  BY <1>1, FinishKeeps, GoToWorks DEF UndoInv
<1> QED
  BY <1>1, <1>2, NoCall DEF UndoInv, RequestsBacked

-----------------------------------------------------------------------------
(* The service call *)

LEMMA BackedStill ==
  ASSUME NEW rs, NEW rs2, NEW e, Extended(rs2, rs, e)
  PROVE  /\ \A actions : ActionsBacked(actions, rs) => ActionsBacked(actions, rs2)
         /\ \A lines : LinesBacked(lines, rs) => LinesBacked(lines, rs2)
<1>1. \A a : Recorded(a, rs) => Recorded(a, rs2)
  BY RecordedStill
<1>2. ASSUME NEW actions, ActionsBacked(actions, rs)
      PROVE  ActionsBacked(actions, rs2)
  <2>1. PICK S : actions \in Seq(S) /\ \A a \in S : Recorded(a, rs)
    BY <1>2 DEF ActionsBacked
  <2> QED
    BY <1>1, <2>1 DEF ActionsBacked
<1>3. ASSUME NEW lines, LinesBacked(lines, rs)
      PROVE  LinesBacked(lines, rs2)
  <2>1. PICK S : lines \in Seq(S)
                 /\ \A l \in S : l.status = "executed" => Recorded(l.action, rs)
    BY <1>3 DEF LinesBacked
  <2> QED
    BY <1>1, <2>1 DEF LinesBacked
<1> QED
  BY <1>2, <1>3

LEMMA ApplyUndo ==
  ASSUME Shape, UndoInv, NEW p \in Procs, req[p].pc = "execute",
         Supported(req[p].act, DomainOf(req[p].dev)), Applied(p),
         \/ GoTo(p, "record") /\ audit' = audit
         \/ Finish(p) /\ AuditOther,
         ledger' = ledger, issued' = issued
  PROVE  UndoInv'
<1> DEFINE r == req[p]
           after == Effect(r.act, r.val, Target[r.dev].domain, devState[r.dev])
           e == [dev |-> r.dev, act |-> r.act, val |-> r.val,
                 origin |-> r.origin, token |-> r.token, slot |-> r.slot,
                 restore |-> r.restore, before |-> devState[r.dev], after |-> after,
                 orig |-> r.orig, seen |-> r.seen, at |-> r.at]
<1>1. runs' = Append(runs, e) /\ devState' = [devState EXCEPT ![e.dev] = e.after]
  BY DEF Applied
<1>2. CallOf(e, r, devState)
  BY DEF CallOf, DomainOf
<1> HIDE DEF e
<1>3. Extended(runs', runs, e)
  BY <1>1, AppendExtends DEF Shape
<1>4. Asks(r, runs) /\ CapturedNow(r, runs, devState)
  BY DEF UndoInv, RequestsBacked, Working
<1>5. e.dev = r.dev /\ e.act = r.act /\ e.slot = r.slot /\ e.restore = r.restore
  BY <1>2 DEF CallOf
<1>6. r.dev \in Devices /\ r.val \in Int /\ DevicesFollow(devState, runs)
  BY <1>4 DEF Asks, UndoInv
<1>7. CallsMade(runs')
  <2>1. Made(runs', Len(runs'))
    BY <1>2, <1>3, <1>4, <1>6, CallIsMade
  <2>2. \A j \in DOMAIN runs : Made(runs', j)
    BY <1>3, MadeStill DEF UndoInv, CallsMade
  <2>3. \A j \in DOMAIN runs' : j \in DOMAIN runs \/ j = Len(runs')
    BY <1>3 DEF Extended
  <2> QED
    BY <2>1, <2>2, <2>3 DEF CallsMade
<1>8. DevicesFollow(devState', runs')
  <2>1. Reported(e.after, DomainOf(e.dev))
    <3>1. Reported(devState[r.dev], DomainOf(r.dev))
      BY <1>6 DEF DevicesFollow
    <3>2. Reported(Effect(r.act, r.val, DomainOf(r.dev), devState[r.dev]), DomainOf(r.dev))
      BY <1>6, <3>1, EffectIsReported
    <3> QED
      BY <1>2, <3>2 DEF CallOf
  <2>2. \A i \in DOMAIN runs : runs[i].dev \in Devices
    BY DEF UndoInv, CallsMade, Made, Asks
  <2> QED
    BY <1>1, <1>3, <1>5, <1>6, <2>1, <2>2, DevicesStill
<1>9. RequestsBacked'
  <2>1. \A d \in Devices : d # e.dev => devState'[d] = devState[d]
    BY <1>1, <1>6 DEF DevicesFollow
  <2>2. \A q \in Procs : Working(req[q], runs', devState')
    BY <1>3, <2>1, WorkingStill DEF UndoInv, RequestsBacked
  <2>3. \A t \in DOMAIN issued : Asks(issued[t], runs')
    BY <1>3, AsksStill DEF UndoInv, RequestsBacked
  <2>4. Working(req'[p], runs', devState')
    <3>1. CASE Finish(p)
      <4>1. req'[p] = Idle /\ Idle.pc = "idle"
        BY <3>1 DEF Finish, Shape, Idle
      <4> QED
        BY <4>1 DEF Working
    <3>2. CASE GoTo(p, "record")
      <4>1. SameTask(req'[p], r)
        BY <3>2, GoToKeeps
      <4>2. Asks(r, runs') /\ CapturedNow(r, runs', devState')
        BY <2>2 DEF Working
      <4>3. Asks(req'[p], runs') /\ CapturedNow(req'[p], runs', devState')
        BY <4>1, <4>2 DEF SameTask, Asks, Undoes, CapturedNow
      <4>4. MadeFor(req'[p], runs')
        <5>1. Len(runs') \in DOMAIN runs' /\ runs'[Len(runs')] = e
          BY <1>3 DEF Extended
        <5> QED
          BY <1>5, <4>1, <5>1 DEF MadeFor, About, SameTask
      <4> QED
        BY <4>3, <4>4 DEF Working
    <3> QED
      BY <3>1, <3>2
  <2>5. \A q \in Procs \ {p} : req'[q] = req[q]
    BY DEF Finish, GoTo, Shape
  <2> QED
    BY <2>2, <2>3, <2>4, <2>5 DEF RequestsBacked
<1>10. RecordsBacked'
  <2>1. ActionsBacked(ledger.actions, runs) /\ LinesBacked(audit'.lines, runs) /\ ~audit'.open
    BY AuditsOther DEF UndoInv, RecordsBacked
  <2>2. ActionsBacked(ledger.actions, runs') /\ LinesBacked(audit'.lines, runs')
    BY <1>3, <2>1, BackedStill
  <2> QED
    BY <2>1, <2>2 DEF RecordsBacked
<1> QED
  BY <1>7, <1>8, <1>9, <1>10 DEF UndoInv

LEMMA ExecuteUndo ==
  ASSUME Shape, UndoInv, NEW p \in Procs, Execute(p)
  PROVE  UndoInv'
<1>1. /\ req[p].pc = "execute" /\ ledger' = ledger /\ issued' = issued
  BY DEF Execute, memVars
<1>2. CASE Finish(p) /\ AuditOther /\ UNCHANGED <<devState, runs>>
  <2>1. \A q \in Procs : req'[q] = req[q] \/ Working(req'[q], runs, devState)
    BY <1>2, FinishKeeps
  <2> QED
    BY <1>1, <1>2, <2>1, NoCall DEF UndoInv, RequestsBacked
<1>3. CASE ~(Finish(p) /\ AuditOther /\ UNCHANGED <<devState, runs>>)
  BY <1>1, <1>3, ApplyUndo DEF Execute, DomainOf
<1> QED
  BY <1>2, <1>3

-----------------------------------------------------------------------------
(* The record of a call, and the ledger a restart reads back *)

LEMMA LastKeeps ==
  ASSUME NEW S, NEW s \in Seq(S), NEW n \in Nat
  PROVE  Last(s, n) \in Seq(S)
<1>1. CASE Len(s) > n
  <2>1. Last(s, n) = SubSeq(s, Len(s) - n + 1, Len(s))
    BY <1>1 DEF Last
  <2> QED
    BY <1>1, <2>1
<1>2. CASE ~(Len(s) > n)
  <2>1. Last(s, n) = SubSeq(s, 1, Len(s))
    BY <1>2 DEF Last
  <2> QED
    BY <2>1
<1> QED
  BY <1>1, <1>2

(* InOrder lists positions of the set. *)
LEMMA Listing ==
  ASSUME NEW n \in Nat, NEW S, S \subseteq 1..n
  PROVE  /\ Cardinality(S) \in Nat /\ DOMAIN InOrder(S) = 1..Cardinality(S)
         /\ InOrder(S) \in [1..Cardinality(S) -> S]
<1> DEFINE Below(i) == {j \in S : j <= i}
           rank == [i \in S |-> Cardinality(Below(i))]
           size == Cardinality(S)
<1>1. IsFiniteSet(S) /\ size \in Nat
  BY IndicesFinite
<1>2. \A i \in S : IsFiniteSet(Below(i)) /\ rank[i] \in 1..size
  <2> SUFFICES ASSUME NEW i \in S PROVE IsFiniteSet(Below(i)) /\ rank[i] \in 1..size
    OBVIOUS
  <2>1. Below(i) \in SUBSET S /\ i \in Below(i) /\ rank[i] = Cardinality(Below(i))
    OBVIOUS
  <2> HIDE DEF Below, rank
  <2>2. IsFiniteSet(Below(i)) /\ rank[i] <= size /\ rank[i] \in Nat
    BY <1>1, <2>1, FS_Subset, FS_CardinalityType
  <2>3. rank[i] # 0
    BY <2>1, <2>2, FS_EmptySet
  <2> QED
    BY <1>1, <2>2, <2>3
<1>3. \A i, j \in S : i < j => rank[i] < rank[j]
  <2> SUFFICES ASSUME NEW i \in S, NEW j \in S, i < j PROVE rank[i] < rank[j]
    OBVIOUS
  <2>1. Below(i) \in SUBSET Below(j) /\ j \in Below(j) /\ j \notin Below(i)
    <3>1. i \in Int /\ j \in Int /\ \A y \in S : y \in Int
      OBVIOUS
    <3>2. \A y \in S : y <= i => y <= j
      BY <3>1
    <3>3. ~(j <= i) /\ j <= j
      BY <3>1
    <3> QED
      BY <3>2, <3>3
  <2>2. rank[i] = Cardinality(Below(i)) /\ rank[j] = Cardinality(Below(j))
    OBVIOUS
  <2>3. rank[i] \in Nat /\ rank[j] \in Nat /\ IsFiniteSet(Below(j))
    BY <1>2
  <2> HIDE DEF Below, rank
  <2>4. rank[i] <= rank[j] /\ rank[i] # rank[j]
    BY <2>1, <2>2, <2>3, FS_Subset
  <2> QED
    BY <2>3, <2>4
<1>4. \A i, j \in S : rank[i] = rank[j] => i = j
  <2> SUFFICES ASSUME NEW i \in S, NEW j \in S, rank[i] = rank[j] PROVE i = j
    OBVIOUS
  <2>1. i \in Int /\ j \in Int /\ rank[i] \in Nat
    BY <1>2
  <2> HIDE DEF rank
  <2> QED
    BY <1>3, <2>1
<1>5. rank \in Injection(S, 1..size)
  <2>1. rank \in [S -> 1..size]
    BY <1>2
  <2> HIDE DEF rank
  <2> QED
    BY <1>4, <2>1 DEF Injection, IsInjective
<1>6. rank \in Surjection(S, 1..size)
  <2>1. IsFiniteSet(1..size) /\ Cardinality(1..size) = size
    BY <1>1, IndicesFinite, FS_Interval
  <2> HIDE DEF rank, size
  <2> QED
    BY <1>5, <2>1, FS_Injection DEF size
<1>7. \A k \in 1..size : \E i \in S : Cardinality(Below(i)) = k
  BY <1>6 DEF Surjection
<1> DEFINE order == InOrder(S)
<1>8. order = [k \in 1..size |-> CHOOSE i \in S : Cardinality(Below(i)) = k]
  BY DEF InOrder
<1>9. \A k \in 1..size : order[k] \in S /\ rank[order[k]] = k
  <2> SUFFICES ASSUME NEW k \in 1..size PROVE order[k] \in S /\ rank[order[k]] = k
    OBVIOUS
  <2>1. order[k] = CHOOSE i \in S : Cardinality(Below(i)) = k
    BY <1>8
  <2>2. order[k] \in S /\ Cardinality(Below(order[k])) = k
    <3> HIDE DEF order, Below, size
    <3> QED
      BY <1>7, <2>1
  <2> QED
    BY <2>2
<1>10. DOMAIN order = 1..size /\ order \in [1..size -> S]
  <2> HIDE DEF rank, Below
  <2> QED
    BY <1>8, <1>9
<1> QED
  BY <1>1, <1>10

LEMMA ReadBack ==
  ASSUME NEW log, NEW rs, LinesBacked(log.lines, rs)
  PROVE  ActionsBacked(ReadRecentExecuted(log), rs)
<1> DEFINE lines == log.lines
           T == Latest(ExecutedTail(lines), HistoryLimit)
           order == InOrder(T)
<1>1. PICK S : lines \in Seq(S)
               /\ \A l \in S : l.status = "executed" => Recorded(l.action, rs)
  BY DEF LinesBacked
<1>2. /\ Len(lines) \in Nat /\ DOMAIN lines = 1..Len(lines)
      /\ \A i \in 1..Len(lines) : lines[i] \in S
  BY <1>1
<1>3. T \subseteq 1..Len(lines) /\ \A i \in T : lines[i].status = "executed"
  BY <1>2 DEF Latest, ExecutedTail
<1>4. /\ Cardinality(T) \in Nat /\ DOMAIN order = 1..Cardinality(T)
      /\ order \in [1..Cardinality(T) -> T]
  <2> HIDE DEF T
  <2> QED
    BY <1>2, <1>3, Listing
<1> DEFINE read == ReadRecentExecuted(log)
           R == {l.action : l \in {m \in S : m.status = "executed"}}
<1>5. read = [k \in 1..Cardinality(T) |-> lines[order[k]].action]
  BY <1>4 DEF ReadRecentExecuted
<1> HIDE DEF T, order, read
<1>6. \A k \in 1..Cardinality(T) : lines[order[k]].action \in R
  <2> SUFFICES ASSUME NEW k \in 1..Cardinality(T)  PROVE lines[order[k]].action \in R
    OBVIOUS
  <2>1. order[k] \in T
    BY <1>4
  <2>2. lines[order[k]] \in S /\ lines[order[k]].status = "executed"
    BY <1>2, <1>3, <2>1
  <2> QED
    BY <2>2
<1>7. \A a \in R : Recorded(a, rs)
  BY <1>1
<1> HIDE DEF R, lines
<1>8. read \in Seq(R)
  BY <1>4, <1>5, <1>6
<1> QED
  BY <1>7, <1>8 DEF ActionsBacked, read

LEMMA RecordUndo ==
  ASSUME Shape, EveryExecutionPaid, UndoInv, NEW p \in Procs, Record(p)
  PROVE  UndoInv'
<1> DEFINE r == req[p]
           entry == [id |-> 0, undoOf |-> r.undoOf, act |-> r.act,
                     restore |-> r.restore, dev |-> r.dev,
                     val |-> r.val, origin |-> r.origin, run |-> RunOf(p)]
           id == ledger.nextId + 1
           all == Append(ledger.actions, [entry EXCEPT !.id = id])
           action == ledger'.actions[Len(ledger'.actions)]
<1>1. /\ r.pc = "record" /\ Finish(p) /\ UNCHANGED <<runs, devState, issued>>
      /\ ledger' = RecordInternal(ledger, entry)
      /\ audit' = AppendJsonLine(audit, Executed(action), "ok")
  BY DEF Record, RecordAction, history
<1>2. PICK i \in DOMAIN runs : runs[i].slot = r.slot /\ About(r, runs[i])
  BY <1>1 DEF UndoInv, RequestsBacked, Working, MadeFor
<1>3. RunOf(p) = i
  BY <1>2 DEF RunOf, EveryExecutionPaid
<1>4. Recorded([entry EXCEPT !.id = id], runs)
  BY <1>2, <1>3 DEF Recorded, About
<1>5. PICK S : ledger.actions \in Seq(S) /\ \A a \in S : Recorded(a, runs)
  BY DEF UndoInv, RecordsBacked, ActionsBacked
<1> DEFINE T == S \cup {[entry EXCEPT !.id = id]}
<1>6. all \in Seq(T) /\ \A a \in T : Recorded(a, runs)
  <2> HIDE DEF entry, id
  <2>1. ledger.actions \in Seq(T) /\ [entry EXCEPT !.id = id] \in T
    BY <1>5
  <2>2. \A a \in T : Recorded(a, runs)
    BY <1>4, <1>5
  <2> HIDE DEF T
  <2> QED
    BY <2>1, <2>2
<1>7. ledger'.actions = Last(all, HistoryLimit)
  BY <1>1 DEF RecordInternal
<1>8. HistoryLimit \in Nat \ {0}
  BY LedgerAssumption
<1> HIDE DEF entry, T
<1>9. ledger'.actions \in Seq(T) /\ Len(ledger'.actions) \in Nat \ {0}
  <2>1. Len(all) \in Nat \ {0}
    BY <1>5
  <2> HIDE DEF all
  <2>2. Last(all, HistoryLimit) \in Seq(T)
    BY <1>6, <1>8, LastKeeps
  <2>3. Len(Last(all, HistoryLimit)) # 0
    <3>1. CASE Len(all) > HistoryLimit
      BY <1>6, <1>8, <2>1, <3>1 DEF Last
    <3>2. CASE ~(Len(all) > HistoryLimit)
      BY <1>6, <1>8, <2>1, <3>2 DEF Last
    <3> QED
      BY <3>1, <3>2
  <2> QED
    BY <1>7, <2>2, <2>3
<1>10. Recorded(action, runs)
  BY <1>6, <1>9
<1>11. RecordsBacked'
  <2>1. ActionsBacked(ledger'.actions, runs)
    BY <1>6, <1>9 DEF ActionsBacked
  <2>2. PICK U : audit.lines \in Seq(U)
                 /\ \A l \in U : l.status = "executed" => Recorded(l.action, runs)
    BY DEF UndoInv, RecordsBacked, LinesBacked
  <2> DEFINE line == Executed(action)
             V == U \cup {line}
  <2>3. audit' = [lines |-> Append(audit.lines, line), open |-> FALSE]
    BY <1>1 DEF AppendJsonLine, UndoInv, RecordsBacked
  <2>4. line.action = action
    BY DEF Executed
  <2> HIDE DEF action, line
  <2>5. \A l \in V : l.status = "executed" => Recorded(l.action, runs)
    BY <1>10, <2>2, <2>4
  <2>6. audit.lines \in Seq(V) /\ line \in V
    BY <2>2
  <2> HIDE DEF V
  <2>7. Append(audit.lines, line) \in Seq(V)
    BY <2>6
  <2>8. LinesBacked(audit'.lines, runs) /\ ~audit'.open
    BY <2>3, <2>5, <2>7 DEF LinesBacked
  <2> QED
    BY <1>1, <2>1, <2>8 DEF RecordsBacked
<1>12. RequestsBacked'
  <2>1. \A q \in Procs : req'[q] = req[q] \/ Working(req'[q], runs, devState)
    BY <1>1, FinishKeeps
  <2>2. \A q \in Procs : Working(req'[q], runs, devState)
    BY <2>1 DEF UndoInv, RequestsBacked
  <2> QED
    BY <1>1, <2>2 DEF UndoInv, RequestsBacked
<1> QED
  BY <1>1, <1>11, <1>12 DEF UndoInv

LEMMA CrashUndo ==
  ASSUME Shape, UndoInv, Crash
  PROVE  UndoInv'
<1>1. /\ UNCHANGED <<runs, devState, issued, audit>> /\ req' = [p \in Procs |-> Idle]
      /\ ledger'.actions = Last(ReadRecentExecuted(audit), HistoryLimit)
  BY DEF Crash, Hydrate
<1>2. RequestsBacked'
  <2>1. \A q \in Procs : Working(req'[q], runs, devState)
    BY <1>1 DEF Working, Idle
  <2> QED
    BY <1>1, <2>1 DEF UndoInv, RequestsBacked
<1>3. RecordsBacked'
  <2>1. ActionsBacked(ReadRecentExecuted(audit), runs)
    BY ReadBack DEF UndoInv, RecordsBacked
  <2>2. PICK S : ReadRecentExecuted(audit) \in Seq(S) /\ \A a \in S : Recorded(a, runs)
    BY <2>1 DEF ActionsBacked
  <2>3. ledger'.actions \in Seq(S)
    BY <1>1, <2>2, LastKeeps, LedgerAssumption
  <2>4. ActionsBacked(ledger'.actions, runs)
    BY <2>2, <2>3 DEF ActionsBacked
  <2> QED
    BY <1>1, <2>4 DEF UndoInv, RecordsBacked
<1> QED
  BY <1>1, <1>2, <1>3 DEF UndoInv

LEMMA UndoInitOK == Init => UndoInv
<1> SUFFICES ASSUME Init PROVE UndoInv
  OBVIOUS
<1>1. <<>> \in Seq({}) /\ DOMAIN <<>> = {}
  OBVIOUS
<1>2. RequestsBacked
  BY <1>1 DEF Init, RequestsBacked, Working, Idle
<1>3. RecordsBacked
  BY <1>1 DEF Init, RecordsBacked, ActionsBacked, LinesBacked, EmptyLedger, EmptyLog
<1>4. CallsMade(runs)
  BY <1>1 DEF Init, CallsMade
<1>5. DevicesFollow(devState, runs)
  BY <1>1, HouseholdAssumption DEF Init, DevicesFollow, DomainOf
<1> QED
  BY <1>2, <1>3, <1>4, <1>5 DEF UndoInv

LEMMA UndoNextOK ==
  ASSUME IInv, UndoInv, [Next]_vars
  PROVE  UndoInv'
<1> USE DEF IInv
<1>1. ASSUME NEW cmd \in Commands, NEW origin \in Origins, HomeControl(cmd, origin)
      PROVE  UndoInv'
  BY <1>1, HomeControlUndo
<1>2. ASSUME NEW origin \in Origins, HomeUndo(origin)
      PROVE  UndoInv'
  BY <1>2, HomeUndoUndo
<1>3. ASSUME NEW p \in Confirmers, NEW t \in pending, ConfirmToken(p, t)
      PROVE  UndoInv'
  BY <1>3, ConfirmUndo
<1>4. CASE ListPending
  BY <1>4, NoCall DEF ListPending, UndoInv, RequestsBacked
<1>5. ASSUME NEW p \in Procs, Step(p)
      PROVE  UndoInv'
  BY <1>5, CaptureUndo, ResolveUndo, CheckUndo, ExecuteUndo, RecordUndo DEF Step
<1>6. CASE Tick
  BY <1>6, NoCall DEF Tick, memVars, history, UndoInv, RequestsBacked
<1>7. CASE Crash
  BY <1>7, CrashUndo
<1>8. CASE UNCHANGED vars
  BY <1>8, NoCall DEF vars, UndoInv, RequestsBacked
<1> QED
  BY <1>1, <1>2, <1>3, <1>4, <1>5, <1>6, <1>7, <1>8 DEF Next

LEMMA CallsUndone ==
  ASSUME IInv, UndoInv
  PROVE  CapturedUndoRestores
<1> SUFFICES ASSUME NEW j \in DOMAIN runs, CleanUndo(j),
                    runs[runs[j].orig].restore # NoRestore,
                    Quiet(runs[runs[j].orig].dev, runs[runs[j].orig].seen, runs[j].orig)
             PROVE  SameState(runs[j].after, runs[runs[j].orig].before)
  BY DEF CapturedUndoRestores
<1> DEFINE i == runs[j].orig
           run == runs[j]
           orig == runs[i]
           domain == DomainOf(orig.dev)
<1>1. Made(runs, j)
  BY DEF UndoInv, CallsMade
<1>2. i # 0 /\ Untouched(runs, run.dev, i, j)
  BY DEF CleanUndo, Quiet, Untouched
<1>3. /\ i \in DOMAIN runs /\ run.dev = orig.dev
      /\ [act |-> run.act, val |-> run.val] = orig.restore
  BY <1>1, <1>2 DEF Made, Asks, Undoes
<1>4. i \in 1..(j - 1)
  <2>1. Len(runs) \in Nat /\ DOMAIN runs = 1..Len(runs)
    BY AppendFacts DEF IInv, Shape
  <2>2. j \in Nat
    BY <2>1
  <2> QED
    BY <1>1, <1>2, <2>2 DEF Made
<1>5. Made(runs, i)
  BY <1>3 DEF UndoInv, CallsMade
<1>6. Untouched(runs, orig.dev, orig.seen, i)
  BY DEF Quiet, Untouched
<1>7. /\ Supported(run.act, domain) /\ run.val \in Int
      /\ run.after = Effect(run.act, run.val, domain, orig.after)
  BY <1>1, <1>2, <1>3, <1>4 DEF Made, Asks
<1>8. /\ Reported(orig.before, domain) /\ Supported(orig.act, domain) /\ orig.val \in Int
      /\ orig.after = Effect(orig.act, orig.val, domain, orig.before)
      /\ orig.restore = RestoreForEntity(orig.act, orig.before)
  BY <1>5, <1>6 DEF Made, Asks
<1>9. run.act = orig.restore.act /\ run.val = orig.restore.val
  BY <1>3
<1> HIDE DEF i, run, orig, domain
<1>10. SameState(Effect(orig.restore.act, orig.restore.val, domain,
                        Effect(orig.act, orig.val, domain, orig.before)), orig.before)
  BY <1>7, <1>8, <1>9, UndoPutsBack DEF orig, i
<1>11. SameState(run.after, orig.before)
  BY <1>7, <1>8, <1>9, <1>10
<1> QED
  BY <1>11 DEF run, orig, i

(***************************************************************************)
(* CapturedUndoRestores holds of every behaviour: whatever the household,  *)
(* the commands, the failures and restarts in between, and however the     *)
(* handlers interleave, undoing a captured set or toggle puts the device   *)
(* back (undo_restore_from_prior, undo_home_control_args, last_undoable,   *)
(* with_actuation_audit_path).                                             *)
(***************************************************************************)
THEOREM UndosAlwaysRestore == Spec => []CapturedUndoRestores
<1>1. IInv /\ UndoInv => CapturedUndoRestores
  BY CallsUndone
<1>2. Init => IInv /\ UndoInv
  BY InitOK, UndoInitOK
<1>3. IInv /\ UndoInv /\ [Next]_vars => (IInv /\ UndoInv)'
  BY NextOK, UndoNextOK
<1> QED
  BY <1>1, <1>2, <1>3, PTL DEF Spec
=============================================================================
