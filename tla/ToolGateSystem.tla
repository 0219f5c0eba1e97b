--------------------------- MODULE ToolGateSystem ---------------------------
(***************************************************************************)
(* The gate driven by arbitrary calls: any origin, tool and arguments, and *)
(* either value of ToolExecutionContext.confirmed that the callers pass.   *)
(***************************************************************************)
EXTENDS ToolGate

CONSTANTS
  ConfirmedFlags,  \* the values of exec_ctx.confirmed the callers use
  MaxCalls,        \* bound on the number of logged calls
  MaxTime          \* bound on the clock

ASSUME SystemAssumption ==
  ConfirmedFlags \subseteq BOOLEAN /\ MaxCalls \in Nat /\ MaxTime \in Nat

VARIABLE gateLog   \* history: the audited decisions, oldest first

vars == <<now, firstSeen, toolBuckets, gateLog>>

Event == [key : Keys, at : Nat, confirmed : BOOLEAN, charged : BOOLEAN,
          decision : Decisions]

TypeOK == GateTypeOK /\ gateLog \in Seq(Event)

Init == GateInit /\ gateLog = <<>>

(* execute_with_context up to the tool body; the decision is audited.  An *)
(* event is `charged` when the call took a slot of its tool's window.     *)
Call(origin, tool, args, confirmed, decision) ==
  /\ Len(gateLog) < MaxCalls
  /\ RunGate(origin, tool, args, confirmed, decision)
  /\ gateLog' = Append(gateLog, [key |-> <<origin, tool, args>>, at |-> now,
                                 confirmed |-> confirmed, decision |-> decision,
                                 charged |-> /\ decision \in {"run", "pending_confirmation"}
                                             /\ toolBuckets' # toolBuckets])
  /\ UNCHANGED now

Tick == now < MaxTime /\ now' = now + 1 /\ UNCHANGED <<firstSeen, toolBuckets, gateLog>>

Next ==
  \/ Tick
  \/ \E origin \in Origins, tool \in Tools, args \in Args, confirmed \in ConfirmedFlags,
        decision \in Decisions : Call(origin, tool, args, confirmed, decision)

Spec == Init /\ [][Next]_vars

-----------------------------------------------------------------------------
ToolOf(i) == gateLog[i].key[2]

Asks(i) == gateLog[i].decision = "pending_confirmation"
Runs(i) == gateLog[i].decision = "run"

(***************************************************************************)
(* Every execution of a listed tool is authorized by a first leg of its    *)
(* own: an earlier request with the same origin, tool and arguments, no    *)
(* older than the TTL, that no other execution has used (evaluate removes  *)
(* the leg it confirms).                                                   *)
(***************************************************************************)
EveryRunHasItsOwnLeg ==
  \A j \in DOMAIN gateLog :
    Runs(j) /\ ToolRequiresConfirmation(ToolOf(j)) =>
      \E i \in 1..(j - 1) :
        /\ Asks(i) /\ gateLog[i].key = gateLog[j].key
        /\ gateLog[j].at - gateLog[i].at <= ToolTtl
        /\ \A m \in (i + 1)..(j - 1) : ~(Runs(m) /\ gateLog[m].key = gateLog[j].key)

(***************************************************************************)
(* Over any closed interval as long as the window, a tool is admitted      *)
(* unconfirmed at most as often as its limit says (ToolRateLimiter).       *)
(***************************************************************************)
WindowNeverExceeded ==
  \A tool \in Tools : Limited(tool) =>
    \A t \in 0..now :
      Cardinality({i \in DOMAIN gateLog :
                     /\ Runs(i) /\ ~gateLog[i].confirmed /\ ToolOf(i) = tool
                     /\ gateLog[i].at \in t..(t + Window)}) <= ToolRateLimit(tool)
=============================================================================
