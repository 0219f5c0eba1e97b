------------------------------ MODULE ToolGate ------------------------------
(***************************************************************************)
(* The tool-call gate of ToolDispatcher (tools/dispatch/mod.rs, run_gate): *)
(* per-origin ACLs, two-step confirmation of the configured tools, and a   *)
(* per-tool sliding-window rate limit, in that order.  run_gate has no     *)
(* await, so on the current-thread runtime it is one step.                 *)
(*                                                                         *)
(* RunGate is a relation between a call, the gate's decision and the       *)
(* gate's next state; ToolGateSystem and Actuation use it in their         *)
(* actions.                                                                *)
(***************************************************************************)
EXTENDS Integers, Sequences, FiniteSets

CONSTANTS
  Origins,               \* RequestOrigin values in use
  Tools,                 \* tool names in use
  Args,                  \* serialized argument objects
  PolicyEnabled,         \* tool_policy.enabled
  AllowedTools,          \* allowed_tools_by_origin
  DeniedTools,           \* denied_tools_by_origin
  ConfirmTools,          \* requires_confirmation_tools
  ToolLimits,            \* max_actions_per_minute_by_tool
  ToolTtl,               \* confirmation_ttl_secs
  Retention,             \* TOOL_CONFIRMATION_RETENTION_MS
  MaxToolConfirmations,  \* MAX_TOOL_CONFIRMATIONS
  Window                 \* ACTUATION_RATE_WINDOW_MS

ASSUME GateAssumption ==
  /\ ToolTtl \in Nat /\ Retention \in Nat /\ Window \in Nat
  /\ MaxToolConfirmations \in Nat \ {0}
  /\ PolicyEnabled \in BOOLEAN
  /\ ConfirmTools \subseteq Tools \cup {"*"}
  /\ "*" \notin Tools \cup Origins
  /\ \A tool \in DOMAIN ToolLimits : ToolLimits[tool] \in Nat

-----------------------------------------------------------------------------
(***************************************************************************)
(* The sliding-window limiter shared by ActuationRateLimiter (one bucket   *)
(* per request origin) and ToolRateLimiter (one bucket per tool).  A       *)
(* bucket is the VecDeque of admission times, oldest first.                *)
(***************************************************************************)
\* Variant: the window is one unit short.
ShortCutoff(now, window) == IF now > window THEN now - window + 1 ELSE 0

(* now.saturating_sub(ACTUATION_RATE_WINDOW_MS) *)
Cutoff(now, window) == IF now > window THEN now - window ELSE 0

(* while bucket.front() < cutoff { pop_front } *)
StalePrefix(bucket, cutoff)  == {i \in DOMAIN bucket : \A j \in 1..i : bucket[j] < cutoff}
DropExpired(bucket, cutoff) ==
  SubSeq(bucket, Cardinality(StalePrefix(bucket, cutoff)) + 1, Len(bucket))

(* What check_and_record leaves in the bucket and whether it admits the call. *)
CheckAndRecord(bucket, limit, now, window) ==
  LET live == DropExpired(bucket, Cutoff(now, window))
  IN  IF limit = 0             THEN [ok |-> FALSE, bucket |-> bucket]
      ELSE IF Len(live) >= limit THEN [ok |-> FALSE, bucket |-> live]
      ELSE                          [ok |-> TRUE,  bucket |-> Append(live, now)]
-----------------------------------------------------------------------------
VARIABLES
  now,         \* wall clock, now_ms()
  firstSeen,   \* ToolConfirmationGate.pending: key -> first-leg time
  toolBuckets  \* ToolRateLimiter.attempts: tool -> admission times

gateVars == <<firstSeen, toolBuckets>>

Keys  == Origins \X Tools \X Args
NoLeg == -1

GateTypeOK ==
  /\ now \in Nat
  /\ firstSeen \in [Keys -> Nat \cup {NoLeg}]
  /\ toolBuckets \in [Tools -> Seq(Nat)]

GateInit ==
  /\ now = 0
  /\ firstSeen = [k \in Keys |-> NoLeg]
  /\ toolBuckets = [t \in Tools |-> <<>>]

-----------------------------------------------------------------------------
(* 1. ACLs.  A rule table is a function from some origins (or "*") to sets *)
(* of tool names (or "*").                                                 *)

ToolMatches(list, tool) == "*" \in list \/ tool \in list

(* The entry of `origin`, else the "*" entry. *)
HasList(rules, origin) == {origin, "*"} \cap DOMAIN rules # {}
ListOf(rules, origin)  == rules[IF origin \in DOMAIN rules THEN origin ELSE "*"]

ToolOriginAllowed(origin, tool) ==
  PolicyEnabled =>
    /\ HasList(DeniedTools, origin)  => ~ToolMatches(ListOf(DeniedTools, origin), tool)
    /\ HasList(AllowedTools, origin) => ToolMatches(ListOf(AllowedTools, origin), tool)

-----------------------------------------------------------------------------
(* 2. Two-step confirmation. *)

ToolRequiresConfirmation(tool) == PolicyEnabled /\ ToolMatches(ConfirmTools, tool)

(* pending.retain(now - first_seen < RETENTION) *)
Retained ==
  [k \in Keys |-> IF firstSeen[k] # NoLeg /\ now - firstSeen[k] < Retention
                  THEN firstSeen[k] ELSE NoLeg]

Legs(pending)   == {k \in Keys : pending[k] # NoLeg}
Oldest(pending) == {k \in Legs(pending) : \A j \in Legs(pending) : pending[k] <= pending[j]}

(* First leg: record or refresh, evicting the oldest leg of a full map.  The *)
(* map's iteration order decides between equally old legs.                   *)
FirstLeg(key) ==
  LET kept == Retained
      full == Cardinality(Legs(kept)) >= MaxToolConfirmations /\ kept[key] = NoLeg
  IN  IF full
      THEN \E oldest \in Oldest(kept) :
             firstSeen' = [kept EXCEPT ![oldest] = NoLeg, ![key] = now]
      ELSE firstSeen' = [kept EXCEPT ![key] = now]

(* Confirming leg: the first leg is removed whatever the outcome. *)
LegInTime(key) == Retained[key] # NoLeg /\ now - Retained[key] <= ToolTtl

\* Variant: get instead of remove.
ConfirmLegKeepsIt(key) == firstSeen' = Retained

ConfirmLeg(key) == firstSeen' = [Retained EXCEPT ![key] = NoLeg]

-----------------------------------------------------------------------------
(* 3. Per-tool rate limit: the tool's own entry, else "*", else unlimited. *)

Limited(tool)       == PolicyEnabled /\ {tool, "*"} \cap DOMAIN ToolLimits # {}
ToolRateLimit(tool) == ToolLimits[IF tool \in DOMAIN ToolLimits THEN tool ELSE "*"]

ChargeTool(tool, admitted) ==
  IF Limited(tool)
  THEN LET r == CheckAndRecord(toolBuckets[tool], ToolRateLimit(tool), now, Window)
       IN  admitted = r.ok /\ toolBuckets' = [toolBuckets EXCEPT ![tool] = r.bucket]
  ELSE admitted /\ UNCHANGED toolBuckets

-----------------------------------------------------------------------------
(* run_gate.  `decision` is GateDecision, with "run" for a call that may   *)
(* proceed to its tool body.                                               *)
Decisions == {"denied_policy", "pending_confirmation", "confirmation_expired",
              "rate_limited", "run"}

RunGate(origin, tool, args, confirmed, decision) ==
  LET key == <<origin, tool, args>> IN
  \/ /\ ~ToolOriginAllowed(origin, tool)
     /\ decision = "denied_policy"
     /\ UNCHANGED gateVars
  \/ /\ ToolOriginAllowed(origin, tool)
     /\ ToolRequiresConfirmation(tool)
     /\ ~confirmed
     /\ decision = "pending_confirmation"
     /\ FirstLeg(key)
     /\ UNCHANGED toolBuckets
  \/ /\ ToolOriginAllowed(origin, tool)
     /\ ToolRequiresConfirmation(tool)
     /\ confirmed
     /\ decision = IF LegInTime(key) THEN "run" ELSE "confirmation_expired"
     /\ ConfirmLeg(key)
     /\ UNCHANGED toolBuckets
  \/ /\ ToolOriginAllowed(origin, tool)
     /\ ~ToolRequiresConfirmation(tool)
     /\ confirmed
     /\ decision = "run"
     /\ UNCHANGED gateVars
  \/ /\ ToolOriginAllowed(origin, tool)
     /\ ~ToolRequiresConfirmation(tool)
     /\ ~confirmed
     /\ \E admitted \in BOOLEAN :
          /\ ChargeTool(tool, admitted)
          /\ decision = IF admitted THEN "run" ELSE "rate_limited"
     /\ UNCHANGED firstSeen
=============================================================================
