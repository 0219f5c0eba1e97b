---------------------------- MODULE ActionLedger ----------------------------
(***************************************************************************)
(* The record of executed home actions (tools/actuation.rs): the in-memory *)
(* ActionLedger that home_undo and action_history read, and the JSONL      *)
(* audit file behind it, from which a restart rebuilds the ledger.         *)
(*                                                                         *)
(* The operators are the methods of ActionLedger and AuditLogger as        *)
(* functions of their state; LedgerSystem and Actuation use them in their  *)
(* actions.                                                                *)
(***************************************************************************)
EXTENDS Integers, Sequences, FiniteSets

CONSTANTS
  HistoryLimit,  \* ACTION_HISTORY_LIMIT
  ScanFactor     \* audit lines read per action asked for, on restart

ASSUME LedgerAssumption == HistoryLimit \in Nat \ {0} /\ ScanFactor \in Nat \ {0}

NoValue   == -1
NoAction  == 0    \* undo_of: None
NoRestore == [act |-> "none", val |-> NoValue]

-----------------------------------------------------------------------------
(* What undoing an action means. *)

InverseAction == [turn_on |-> "turn_off", turn_off |-> "turn_on", open |-> "close",
                  close |-> "open", lock |-> "unlock", unlock |-> "lock"]

(* undo_restore_for_power_state *)
PowerRestore == [on |-> "turn_on", off |-> "turn_off", open |-> "open",
                 closed |-> "close", locked |-> "lock", unlocked |-> "unlock"]

CapturedActions == {"set_brightness", "set_temperature", "toggle"}

(***************************************************************************)
(* restore_for_entity: the call that puts an entity back to `prior`.  A    *)
(* brightness is read as a raw level and stored as a percentage; values    *)
(* count units of 1/255 of a percent, so that the conversion is exact.     *)
(***************************************************************************)
RestoreForEntity(act, prior) ==
  CASE act \in {"set_brightness", "set_temperature"} /\ prior.power = "off"
         -> [act |-> "turn_off", val |-> NoValue]
    [] act = "set_brightness" /\ prior.power # "off" /\ prior.level # NoValue
         -> [act |-> "set_brightness", val |-> 100 * prior.level]
    [] act = "set_temperature" /\ prior.power # "off" /\ prior.level # NoValue
         -> [act |-> "set_temperature", val |-> prior.level]
    [] act = "toggle" /\ prior.power \in DOMAIN PowerRestore
         -> [act |-> PowerRestore[prior.power], val |-> NoValue]
    [] OTHER -> NoRestore

(* undo_restore_from_prior: a group is restorable when its entities agree. *)
UndoRestoreFromPrior(act, entities) ==
  LET restores == {RestoreForEntity(act, e) : e \in entities}
  IN  IF Cardinality(restores) = 1 THEN CHOOSE r \in restores : TRUE ELSE NoRestore

-----------------------------------------------------------------------------
(* The ledger. *)

EmptyLedger == [nextId |-> 0, actions |-> <<>>, undone |-> {}]

(* The last `n` elements of a sequence. *)
Last(s, n) == SubSeq(s, IF Len(s) > n THEN Len(s) - n + 1 ELSE 1, Len(s))

(* record_internal: number the entry, mark what it undoes, keep the last    *)
(* HistoryLimit entries, and forget the undo marks of the entries dropped.  *)
RecordInternal(ledger, entry) ==
  LET id      == ledger.nextId + 1
      all     == Append(ledger.actions, [entry EXCEPT !.id = id])
      kept    == Last(all, HistoryLimit)
      dropped == {all[i].id : i \in 1..(Len(all) - Len(kept))}
      marked  == IF entry.undoOf = NoAction THEN {} ELSE {entry.undoOf}
  IN  [nextId |-> id, actions |-> kept, undone |-> (ledger.undone \cup marked) \ dropped]

Undoable(ledger) ==
  {i \in DOMAIN ledger.actions :
     LET a == ledger.actions[i] IN
     /\ a.undoOf = NoAction
     /\ a.id \notin ledger.undone
     /\ a.restore # NoRestore \/ a.act \in DOMAIN InverseAction}

(* last_undoable, when there is one *)
LastUndoable(ledger) ==
  ledger.actions[CHOOSE i \in Undoable(ledger) : \A j \in Undoable(ledger) : j <= i]

(* undo_home_control_args *)
UndoArgs(action) ==
  IF action.restore # NoRestore THEN action.restore
  ELSE [act |-> InverseAction[action.act], val |-> NoValue]

MaxId(actions) ==
  LET ids == {actions[i].id : i \in DOMAIN actions} \cup {0}
  IN  CHOOSE m \in ids : \A n \in ids : n <= m

\* Variant: the undo marks are not rebuilt.
HydrateWithoutMarks(actions) ==
  [nextId |-> MaxId(actions), actions |-> Last(actions, HistoryLimit), undone |-> {}]

Hydrate(actions) ==
  LET kept == Last(actions, HistoryLimit)
  IN  [nextId  |-> MaxId(kept),
       actions |-> kept,
       undone  |-> {kept[i].undoOf : i \in DOMAIN kept} \ {NoAction}]

-----------------------------------------------------------------------------
(***************************************************************************)
(* The audit file: its lines, and whether the last one still lacks its     *)
(* newline.  writeln! writes the text and the newline separately, so an    *)
(* I/O error or a crash can leave half a line, or a whole line without its *)
(* newline; the next append then lands on the same line, which no longer   *)
(* parses.  append_or_log reports an error and goes on.                    *)
(***************************************************************************)
EmptyLog == [lines |-> <<>>, open |-> FALSE]

Other   == [status |-> "other"]     \* any event that is not Executed
Garbage == [status |-> "garbage"]   \* text that does not parse
Executed(action) == [status |-> "executed", action |-> action]

AppendOutcomes == {"ok", "not_opened", "half_line", "no_newline"}

AppendJsonLine(log, line, outcome) ==
  LET text == IF outcome = "half_line" THEN Garbage ELSE line
  IN  IF outcome = "not_opened" THEN log
      ELSE [lines |-> IF log.open THEN [log.lines EXCEPT ![Len(log.lines)] = Garbage]
                      ELSE Append(log.lines, text),
            open  |-> outcome # "ok"]

(* The lines of the tail that hold an executed action, by position. *)
ExecutedTail(lines) ==
  {i \in DOMAIN lines : i > Len(lines) - HistoryLimit * ScanFactor /\ lines[i].status = "executed"}

Latest(S, n) == {i \in S : Cardinality({j \in S : j > i}) < n}

(* The numbers of a finite set, in order. *)
InOrder(S) ==
  [k \in 1..Cardinality(S) |-> CHOOSE i \in S : Cardinality({j \in S : j <= i}) = k]

(* read_recent_executed_actions(HistoryLimit) *)
ReadRecentExecuted(log) ==
  LET order == InOrder(Latest(ExecutedTail(log.lines), HistoryLimit))
  IN  [k \in DOMAIN order |-> log.lines[order[k]].action]
=============================================================================
