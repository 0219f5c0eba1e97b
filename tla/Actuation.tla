----------------------------- MODULE Actuation ------------------------------
(***************************************************************************)
(* The actuation path of genie-core, end to end: a home_control or         *)
(* home_undo tool call of the (single, gated) chat turn and any number of  *)
(* concurrent /api/actuation/confirm handlers go through the tool gate,    *)
(* the channel policy, the per-origin rate limiter, the capture of the     *)
(* prior state, the household policy, the pending confirmations, the       *)
(* runtime gate and Home Assistant, to the ledger and the audit file.      *)
(*                                                                         *)
(* The runtime is single-threaded, so the steps are the stretches between  *)
(* two awaits.  A process is the chat turn or a confirm handler; its state *)
(* is where it awaits and what it has read so far.  Home Assistant may     *)
(* fail any request, and may apply a service call whose answer is lost.    *)
(***************************************************************************)
EXTENDS ToolGate, HomePolicy, ActionLedger

CONSTANTS
  Devices,         \* household entities
  Target,          \* what resolve_target returns for each of them
  InitialState,    \* their initial states
  Commands,        \* home_control arguments the chat sends: [dev, act, val]
  Confirmers,      \* concurrent confirm handlers
  AllowedOrigins,  \* actuation_safety.allowed_origins
  OriginLimit,     \* actuation_rate_limit, by origin
  Safety,          \* the rest of ActuationSafetyConfig
  ConfirmTtl,      \* the 10 minutes of PendingConfirmation.expires_ms
  MaxPending,      \* MAX_PENDING_CONFIRMATIONS
  MaxSlots,        \* bound on admitted requests
  MaxAudit,        \* bound on the audit file, for new chat calls
  MaxTime,         \* bound on the clock
  MaxBoots         \* bound on restarts

ASSUME ActuationAssumption ==
  /\ AllowedOrigins \subseteq Origins
  /\ OriginLimit \in [Origins -> Nat]
  /\ ConfirmTtl \in Nat /\ MaxPending \in Nat
  /\ MaxSlots \in Nat /\ MaxAudit \in Nat /\ MaxTime \in Nat /\ MaxBoots \in Nat
  /\ "chat" \notin Confirmers

VARIABLES
  buckets,   \* ActuationRateLimiter.attempts
  pending,   \* ConfirmationManager.pending: the tokens not yet used
  issued,    \* the PendingConfirmation of every token so far (token = index)
  ledger,    \* ActionLedger
  audit,     \* the actuation audit file
  req,       \* the request each process is working on
  devState,  \* Home Assistant's entity states
  slots,     \* history: admissions by the rate limiter
  runs,      \* history: service calls Home Assistant applied
  boots      \* history: restarts so far

memVars  == <<firstSeen, toolBuckets, buckets, pending, ledger>>
history  == <<slots, runs, boots>>
vars     == <<now, firstSeen, toolBuckets, buckets, pending, issued, ledger, audit,
              req, devState, slots, runs, boots>>

-----------------------------------------------------------------------------
(* Home Assistant, as far as the actuation path can tell: the state of an  *)
(* entity and what a service call does to it.  A state has a power string  *)
(* and a level: the raw brightness of a light, the setpoint of a climate   *)
(* entity.  Brightness arguments count units of 1/255 of a percent.        *)

PercentUnit == 255
RawMax      == 255

Clamp(v, lo, hi)     == IF v < lo THEN lo ELSE IF v > hi THEN hi ELSE v
RoundedDiv(v, d)     == (2 * v + d) \div (2 * d)

\* Variant: every value is a raw level.
RawBrightness(value) == RoundedDiv(Clamp(value, 0, RawMax * PercentUnit), PercentUnit)

(* A value up to 100 is a percentage, a larger one a raw level. *)
NormalizeBrightness(value) ==
  IF value <= 100 * PercentUnit
  THEN RoundedDiv(Clamp(value, 0, 100 * PercentUnit), 100)
  ELSE RoundedDiv(Clamp(value, 0, RawMax * PercentUnit), PercentUnit)

(* The domains provider.execute accepts for an action (ensure_domain). *)
Supported(act, domain) ==
  CASE act = "set_brightness"    -> domain = "light"
    [] act = "set_temperature"   -> domain = "climate"
    [] act \in {"open", "close"} -> domain = "cover"
    [] act \in {"lock", "unlock"} -> domain = "lock"
    [] OTHER -> TRUE

OnState(domain) == IF domain = "climate" THEN "heat" ELSE "on"

Toggled(domain, power) ==
  CASE domain = "cover" -> IF power = "open" THEN "closed" ELSE "open"
    [] OTHER            -> IF power = "off" THEN OnState(domain) ELSE "off"

(* The service call of provider.execute, once Home Assistant applies it. *)
Effect(act, val, domain, s) ==
  CASE act = "turn_on"         -> [s EXCEPT !.power = OnState(domain)]
    [] act = "turn_off"        -> [s EXCEPT !.power = "off"]
    [] act = "toggle"          -> [s EXCEPT !.power = Toggled(domain, s.power)]
    [] act = "open"            -> [s EXCEPT !.power = "open"]
    [] act = "close"           -> [s EXCEPT !.power = "closed"]
    [] act = "lock"            -> [s EXCEPT !.power = "locked"]
    [] act = "unlock"          -> [s EXCEPT !.power = "unlocked"]
    [] act = "set_temperature" -> [s EXCEPT !.level = val]
    [] act = "set_brightness"  -> IF NormalizeBrightness(val) = 0
                                  THEN [s EXCEPT !.power = "off"]
                                  ELSE [power |-> "on", level |-> NormalizeBrightness(val)]
    [] OTHER -> s

(* Two states a household cannot tell apart: the level of an entity that is *)
(* off does not show.                                                       *)
SameState(s, t) == s.power = t.power /\ (s.power # "off" => s.level = t.level)

(* What Home Assistant reports of an entity: a light that has a brightness   *)
(* is on or off, and a climate entity that is on says how.                   *)
Reported(s, domain) ==
  /\ s = [power |-> s.power, level |-> s.level] /\ s.level \in Int
  /\ domain = "light" => s.level = NoValue \/ (s.power \in {"on", "off"} /\ s.level \in 1..RawMax)
  /\ domain = "climate" => s.power # "on"

ASSUME HouseholdAssumption ==
  /\ DOMAIN InitialState = Devices
  /\ \A d \in Devices : Reported(InitialState[d], Target[d].domain)
  /\ \A cmd \in Commands : cmd.dev \in Devices /\ cmd.val \in Int

-----------------------------------------------------------------------------
(* The processes and what they have read                                   *)

Procs   == {"chat"} \cup Confirmers
NoToken == 0
NoSlot  == 0

Idle == [pc |-> "idle", dev |-> "none", act |-> "none", val |-> NoValue,
         origin |-> "none", token |-> NoToken, undoOf |-> NoAction,
         restore |-> NoRestore, slot |-> NoSlot,
         orig |-> 0, seen |-> 0, at |-> 0]

(* A request's history fields: the slot of the rate window it holds, the   *)
(* service call an undo means to reverse, how many service calls had been  *)
(* applied when the prior state was read, and the time it was admitted.    *)
Awaiting == {"capture", "resolve", "check", "execute"}  \* holding a slot not yet used

(* `value` is null in the arguments of a confirmed re-entry, absent in the *)
(* chat's, so the gate tells the two apart.                                *)
GateArgs(cmd, reentry) ==
  [dev |-> cmd.dev, act |-> cmd.act, val |-> cmd.val,
   null |-> reentry /\ cmd.val = NoValue]
NoArgs == [dev |-> "none", act |-> "none", val |-> NoValue, null |-> FALSE]

Init ==
  /\ GateInit
  /\ buckets = [o \in Origins |-> <<>>]
  /\ pending = {} /\ issued = <<>>
  /\ ledger = EmptyLedger /\ audit = EmptyLog
  /\ req = [p \in Procs |-> Idle]
  /\ devState = InitialState
  /\ slots = <<>> /\ runs = <<>> /\ boots = 0

-----------------------------------------------------------------------------
(* Entering exec_home_control_inner. *)

NotUndo == [id |-> NoAction, run |-> 0]

ChatReady == req["chat"].pc = "idle" /\ Len(slots) < MaxSlots /\ Len(audit.lines) < MaxAudit

AuditOther == audit' = AppendJsonLine(audit, Other, "ok")

FirstStop(act, undoOf) ==
  IF undoOf = NoAction /\ act \in CapturedActions THEN "capture" ELSE "resolve"

Admit(p, cmd, origin, token, undo, slot) ==
  req' = [req EXCEPT ![p] =
            [pc |-> FirstStop(cmd.act, undo.id), dev |-> cmd.dev, act |-> cmd.act,
             val |-> cmd.val, origin |-> origin, token |-> token, undoOf |-> undo.id,
             restore |-> NoRestore, slot |-> slot,
             orig |-> undo.run, seen |-> 0, at |-> now]]

(* An unconfirmed request: channel policy, then a slot of the origin's      *)
(* rate window.  Either refusal is audited and ends the request.            *)
EnterPlain(p, cmd, origin, undo) ==
  LET r == CheckAndRecord(buckets[origin], OriginLimit[origin], now, Window) IN
  \/ /\ origin \notin AllowedOrigins
     /\ AuditOther
     /\ UNCHANGED <<buckets, req, slots>>
  \/ /\ origin \in AllowedOrigins
     /\ ~r.ok
     /\ buckets' = [buckets EXCEPT ![origin] = r.bucket]
     /\ AuditOther
     /\ UNCHANGED <<req, slots>>
  \/ /\ origin \in AllowedOrigins
     /\ r.ok
     /\ buckets' = [buckets EXCEPT ![origin] = r.bucket]
     /\ slots' = Append(slots, [origin |-> origin, at |-> now, boot |-> boots])
     /\ Admit(p, cmd, origin, NoToken, undo, Len(slots) + 1)
     /\ UNCHANGED audit

(* A home_control call of the chat turn, from a channel. *)
HomeControl(cmd, origin) ==
  /\ ChatReady
  /\ \E decision \in Decisions :
       /\ RunGate(origin, "home_control", GateArgs(cmd, FALSE), FALSE, decision)
       /\ \/ decision = "run" /\ EnterPlain("chat", cmd, origin, NotUndo)
          \/ decision # "run" /\ UNCHANGED <<buckets, audit, req, slots>>
  /\ UNCHANGED <<now, pending, issued, ledger, devState, runs, boots>>

(* A home_undo call: last_undoable is read here, before any await. *)
HomeUndo(origin) ==
  /\ ChatReady
  /\ \E decision \in Decisions :
       /\ RunGate(origin, "home_undo", NoArgs, FALSE, decision)
       /\ \/ /\ decision = "run" /\ Undoable(ledger) # {}
             /\ LET last == LastUndoable(ledger)
                    args == UndoArgs(last)
                IN  EnterPlain("chat", [dev |-> last.dev, act |-> args.act, val |-> args.val],
                               origin, last)
          \/ /\ decision # "run" \/ Undoable(ledger) = {}
             /\ UNCHANGED <<buckets, audit, req, slots>>
  /\ UNCHANGED <<now, pending, issued, ledger, devState, runs, boots>>

-----------------------------------------------------------------------------
(* ConfirmationManager. *)

\* Variant: nothing expires.
UnprunedPending == pending

(* prune_expired *)
LivePending == {t \in pending : issued[t].expires > now}

\* Variant: the token stays valid after its use.
LookUpToken(token) == token \in LivePending /\ pending' = LivePending

(* confirm: the token is consumed, whatever becomes of the request. *)
TakeToken(token) == token \in LivePending /\ pending' = LivePending \ {token}

(* confirm_pending_home_action up to its first await: the request goes     *)
(* back through the gate under its original origin, confirmed, and is not  *)
(* charged again.  (The channel policy passes as it did the first time.)   *)
ConfirmToken(p, token) ==
  /\ req[p].pc = "idle"
  /\ TakeToken(token)
  /\ LET item == issued[token]
         cmd  == [dev |-> item.dev, act |-> item.act, val |-> item.val]
     IN  \E decision \in Decisions :
           /\ RunGate(item.origin, "home_control", GateArgs(cmd, TRUE), TRUE, decision)
           /\ \/ /\ decision = "run"
                 /\ Admit(p, cmd, item.origin, token, [id |-> NoAction, run |-> item.orig],
                          item.slot)
              \/ /\ decision # "run"
                 /\ UNCHANGED req
  /\ UNCHANGED <<now, audit, buckets, issued, ledger, devState, slots, runs, boots>>

(* /api/actuation/pending, action_history, or a token nobody issued. *)
ListPending ==
  /\ pending' = LivePending /\ pending' # pending
  /\ UNCHANGED <<now, firstSeen, toolBuckets, buckets, issued, ledger, audit, req,
                 devState, slots, runs, boots>>

-----------------------------------------------------------------------------
(* The rest of a request, one action per stretch between awaits. *)

GoTo(p, pc) == req' = [req EXCEPT ![p].pc = pc]
Finish(p)   == req' = [req EXCEPT ![p] = Idle]

(* The prior state of a set or a toggle is read before control() starts; a *)
(* failure only means there is nothing to restore.                          *)
Capture(p) ==
  /\ req[p].pc = "capture"
  /\ \E restore \in {NoRestore, UndoRestoreFromPrior(req[p].act, {devState[req[p].dev]})} :
       req' = [req EXCEPT ![p].restore = restore, ![p].pc = "resolve", ![p].seen = Len(runs)]
  /\ UNCHANGED <<now, memVars, issued, audit, devState, history>>

Policy(p) == AssessHomeAction(req[p].act, Target[req[p].dev])

(* issue: prune, refuse when full (without an audit line), else remember    *)
(* the action under a fresh random token.  `slot` and `orig` are history:   *)
(* a PendingConfirmation does not know that it is an undo.                  *)
Issue(p) ==
  IF Cardinality(LivePending) >= MaxPending
  THEN pending' = LivePending /\ UNCHANGED <<issued, audit>>
  ELSE /\ issued' = Append(issued, [dev |-> req[p].dev, act |-> req[p].act, val |-> req[p].val,
                                    origin |-> req[p].origin, created |-> now,
                                    expires |-> now + ConfirmTtl,
                                    slot |-> req[p].slot, orig |-> req[p].orig])
       /\ pending' = LivePending \cup {Len(issued) + 1}
       /\ AuditOther

(* resolve_target has answered: the household policy decides. *)
Resolve(p) ==
  /\ req[p].pc = "resolve"
  /\ LET outcome == PolicyOutcome(Policy(p), req[p].origin, req[p].token # NoToken) IN
     \/ /\ Finish(p) /\ AuditOther                           \* unresolved, or denied
        /\ UNCHANGED <<pending, issued>>
     \/ /\ outcome = "confirm"
        /\ Issue(p) /\ Finish(p)
     \/ /\ outcome = "check"
        /\ GoTo(p, "check")
        /\ UNCHANGED <<pending, issued, audit>>
  /\ UNCHANGED <<now, firstSeen, toolBuckets, buckets, ledger, devState, history>>

(* health and the current state have been read: the runtime gate decides. *)
Check(p) ==
  /\ req[p].pc = "check"
  /\ \/ Finish(p) /\ AuditOther                              \* state not readable
     \/ \E connected, available \in BOOLEAN :
          IF RuntimeAllows(Target[req[p].dev], Policy(p), connected, available, Safety,
                           req[p].origin, req[p].token # NoToken)
          THEN GoTo(p, "execute") /\ UNCHANGED audit
          ELSE Finish(p) /\ AuditOther
  /\ UNCHANGED <<now, memVars, issued, devState, history>>

Applied(p) ==
  LET r == req[p]
      before == devState[r.dev]
      after  == Effect(r.act, r.val, Target[r.dev].domain, before)
  IN  /\ devState' = [devState EXCEPT ![r.dev] = after]
      /\ runs' = Append(runs, [dev |-> r.dev, act |-> r.act, val |-> r.val,
                               origin |-> r.origin, token |-> r.token, slot |-> r.slot,
                               restore |-> r.restore, before |-> before, after |-> after,
                               orig |-> r.orig, seen |-> r.seen, at |-> r.at])

(* provider.execute: refused, applied, or applied with the answer lost to   *)
(* the request timeout, which the caller cannot tell from a refusal.        *)
Execute(p) ==
  /\ req[p].pc = "execute"
  /\ \/ /\ Finish(p) /\ AuditOther
        /\ UNCHANGED <<devState, runs>>
     \/ /\ Supported(req[p].act, Target[req[p].dev].domain)
        /\ Applied(p)
        /\ \/ GoTo(p, "record") /\ UNCHANGED audit
           \/ Finish(p) /\ AuditOther
  /\ UNCHANGED <<now, memVars, issued, slots, boots>>

(* record or record_undo.  `run` is history: the service call recorded. *)
RunOf(p) == CHOOSE i \in DOMAIN runs : runs[i].slot = req[p].slot

RecordAction(p) ==
  ledger' = RecordInternal(ledger, [id |-> 0, undoOf |-> req[p].undoOf, act |-> req[p].act,
                                    restore |-> req[p].restore, dev |-> req[p].dev,
                                    val |-> req[p].val, origin |-> req[p].origin,
                                    run |-> RunOf(p)])

(* The call returned (after reading the state back): ledger, then audit. *)
Record(p) ==
  /\ req[p].pc = "record"
  /\ RecordAction(p)
  /\ audit' = AppendJsonLine(audit, Executed(ledger'.actions[Len(ledger'.actions)]), "ok")
  /\ Finish(p)
  /\ UNCHANGED <<now, firstSeen, toolBuckets, buckets, pending, issued, devState, history>>

-----------------------------------------------------------------------------
Tick ==
  /\ now < MaxTime /\ now' = now + 1
  /\ UNCHANGED <<memVars, issued, audit, req, devState, history>>

(* The process dies and comes back: only the audit file survives, and       *)
(* with_actuation_audit_path hydrates the ledger from it.                   *)
Crash ==
  /\ boots < MaxBoots /\ boots' = boots + 1
  /\ firstSeen' = [k \in Keys |-> NoLeg] /\ toolBuckets' = [t \in Tools |-> <<>>]
  /\ buckets' = [o \in Origins |-> <<>>]
  /\ pending' = {}
  /\ ledger' = Hydrate(ReadRecentExecuted(audit))
  /\ req' = [p \in Procs |-> Idle]
  /\ UNCHANGED <<now, issued, audit, devState, slots, runs>>

Step(p) == Capture(p) \/ Resolve(p) \/ Check(p) \/ Execute(p) \/ Record(p)

Next ==
  \/ \E cmd \in Commands, origin \in Origins : HomeControl(cmd, origin)
  \/ \E origin \in Origins : HomeUndo(origin)
  \/ \E p \in Confirmers, token \in pending : ConfirmToken(p, token)
  \/ ListPending
  \/ \E p \in Procs : Step(p)
  \/ Tick
  \/ Crash

Spec == Init /\ [][Next]_vars

-----------------------------------------------------------------------------
(***************************************************************************)
(* Every service call Home Assistant applies was paid for with a slot of   *)
(* its own in the rate window of the channel that asked, and no slot pays  *)
(* twice: not across the wait for a confirmation, whose re-entry skips the *)
(* limiter, not by a concurrent confirm of the same token, and not after a *)
(* lost answer or a restart.                                               *)
(***************************************************************************)
EveryExecutionPaid ==
  \A i \in DOMAIN runs :
    /\ runs[i].slot \in DOMAIN slots
    /\ slots[runs[i].slot].origin = runs[i].origin
    /\ \A j \in DOMAIN runs : runs[i].slot = runs[j].slot => i = j

(* The household policy does not let this run unconfirmed. *)
NeedsConfirmation(run) ==
  PolicyOutcome(AssessHomeAction(run.act, Target[run.dev]), run.origin, FALSE) # "check"

(***************************************************************************)
(* A guarded action only runs for a token of its own, issued for the same  *)
(* action on behalf of the same channel, and confirmed before it expired.  *)
(***************************************************************************)
GuardedRunsConfirmed ==
  \A i \in DOMAIN runs :
    NeedsConfirmation(runs[i]) =>
      /\ runs[i].token \in DOMAIN issued
      /\ LET item == issued[runs[i].token] IN
         /\ <<item.dev, item.act, item.val, item.origin>> =
              <<runs[i].dev, runs[i].act, runs[i].val, runs[i].origin>>
         /\ item.created <= runs[i].at /\ runs[i].at < item.expires
      /\ \A j \in DOMAIN runs : runs[j].token = runs[i].token => i = j

(* No service call between the a-th and the b-th touched the device. *)
Quiet(dev, a, b) == \A k \in (a + 1)..(b - 1) : runs[k].dev # dev

(* The j-th service call is an undo that nothing else interfered with. *)
CleanUndo(j) ==
  /\ runs[j].orig # 0
  /\ Quiet(runs[j].dev, runs[j].orig, j)

(***************************************************************************)
(* Undoing a set or a toggle whose prior state was captured puts the       *)
(* device back into the state it had before: brightness survives its       *)
(* conversion to a percentage and back, a device that was off is switched  *)
(* off again.  Only a service call on the device between the capture and   *)
(* the action, or between the action and its undo, makes the undo stale.   *)
(***************************************************************************)
CapturedUndoRestores ==
  \A j \in DOMAIN runs :
    LET orig == runs[runs[j].orig] IN
    CleanUndo(j) /\ orig.restore # NoRestore
                 /\ Quiet(orig.dev, orig.seen, runs[j].orig)
    => SameState(runs[j].after, orig.before)
=============================================================================
