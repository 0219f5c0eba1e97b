---------------------------- MODULE LedgerSystem ----------------------------
(***************************************************************************)
(* The ledger and its audit file under the calls the dispatcher makes.     *)
(* One undo at a time is in flight (the chat gate serializes chat turns):  *)
(* last_undoable is read before the Home Assistant call and record_undo    *)
(* runs after it, and confirmed actions are recorded in between.  Every    *)
(* append may fail, and the process may crash and restart at any point.    *)
(***************************************************************************)
EXTENDS ActionLedger

CONSTANTS
  Acts,       \* actions executed, by name
  MaxActions, \* bound on recorded actions over all boots
  MaxLines,   \* bound on the audit file's length
  MaxBoots    \* bound on the number of restarts

ASSUME BoundsAssumption == MaxActions \in Nat /\ MaxLines \in Nat /\ MaxBoots \in Nat

VARIABLES
  ledger,      \* ActionLedgerState
  audit,       \* the audit file
  undoing,     \* id the undo in flight took from last_undoable, or NoAction
  recorded,    \* history: number of actions recorded so far
  boots,       \* history: number of restarts so far
  unreadable   \* history: some restart could not read the audit file

ledgerVars == <<ledger, audit, undoing, recorded, boots, unreadable>>

Entry == [id : Nat, undoOf : Nat, act : Acts, restore : {NoRestore}]

LedgerTypeOK ==
  /\ ledger.nextId \in Nat
  /\ ledger.actions \in Seq(Entry)
  /\ ledger.undone \subseteq Nat
  /\ audit.open \in BOOLEAN
  /\ audit.lines \in Seq([status : {"other", "garbage"}]
                          \cup [status : {"executed"}, action : Entry])
  /\ undoing \in Nat

LedgerInit ==
  /\ ledger = EmptyLedger /\ audit = EmptyLog
  /\ undoing = NoAction
  /\ recorded = 0 /\ boots = 0 /\ unreadable = FALSE

(* record or record_undo, then the Executed audit line, without an await. *)
RecordAndAudit(act, undoOf) ==
  /\ recorded < MaxActions /\ recorded' = recorded + 1
  /\ ledger' = RecordInternal(ledger, [id |-> 0, undoOf |-> undoOf, act |-> act,
                                       restore |-> NoRestore])
  /\ \E outcome \in AppendOutcomes :
       audit' = AppendJsonLine(audit, Executed(ledger'.actions[Len(ledger'.actions)]), outcome)
  /\ UNCHANGED <<boots, unreadable>>

ExecuteAction == \E act \in Acts : RecordAndAudit(act, NoAction) /\ UNCHANGED undoing

BeginUndo ==
  /\ undoing = NoAction /\ Undoable(ledger) # {}
  /\ undoing' = LastUndoable(ledger).id
  /\ UNCHANGED <<ledger, audit, recorded, boots, unreadable>>

FinishUndo == \E act \in Acts : undoing # NoAction /\ undoing' = NoAction
                                /\ RecordAndAudit(act, undoing)

(* A blocked, failed or confirmation event; a failed undo ends with one. *)
AuditOther ==
  /\ Len(audit.lines) < MaxLines
  /\ \E outcome \in AppendOutcomes : audit' = AppendJsonLine(audit, Other, outcome)
  /\ undoing' \in {undoing, NoAction}
  /\ UNCHANGED <<ledger, recorded, boots, unreadable>>

(* Crash, then with_actuation_audit_path on the way up.  A file that cannot *)
(* be read hydrates nothing.                                                *)
Restart ==
  /\ boots < MaxBoots /\ boots' = boots + 1
  /\ undoing' = NoAction
  /\ \/ ledger' = Hydrate(ReadRecentExecuted(audit)) /\ UNCHANGED unreadable
     \/ ledger' = Hydrate(<<>>) /\ unreadable' = TRUE
  /\ UNCHANGED <<audit, recorded>>

LedgerNext == ExecuteAction \/ BeginUndo \/ FinishUndo \/ AuditOther \/ Restart

LedgerSpec == LedgerInit /\ [][LedgerNext]_ledgerVars

-----------------------------------------------------------------------------
(* Positions of an action sequence in the order of their ids. *)
IdsIncrease(actions) ==
  \A i, j \in DOMAIN actions : i < j => actions[i].id < actions[j].id

(***************************************************************************)
(* As long as every restart could read the file, the ledger's ids increase *)
(* strictly, across lost audit lines and restarts alike, up to the counter *)
(* the next id is taken from, and no id an undo mark holds can be given to *)
(* a new action, which would then be born undone.                          *)
(***************************************************************************)
LedgerOrdered ==
  ~unreadable =>
    /\ IdsIncrease(ledger.actions)
    /\ \A i \in DOMAIN ledger.actions : ledger.actions[i].id <= ledger.nextId
    /\ \A id \in ledger.undone : id <= ledger.nextId

(***************************************************************************)
(* The undo marks are exact for every action the ledger still holds: it is *)
(* marked when, and only when, a later entry of the ledger undid it.  So   *)
(* last_undoable neither offers an undone action again nor hides a live    *)
(* one, whatever was evicted, lost or hydrated.                            *)
(***************************************************************************)
MarksExact ==
  ~unreadable =>
    \A i \in DOMAIN ledger.actions :
      ledger.actions[i].id \in ledger.undone <=>
        \E j \in DOMAIN ledger.actions :
          j > i /\ ledger.actions[j].undoOf = ledger.actions[i].id

(***************************************************************************)
(* What a restart would read back is a sound history: ids increase, an     *)
(* undo comes after what it undid, and no action was undone twice.         *)
(***************************************************************************)
DurableHistorySound ==
  ~unreadable =>
    LET past == ReadRecentExecuted(audit) IN
    /\ IdsIncrease(past)
    /\ \A i \in DOMAIN past : past[i].undoOf < past[i].id
    /\ \A i, j \in DOMAIN past :
         past[i].undoOf = past[j].undoOf /\ past[i].undoOf # NoAction => i = j

(***************************************************************************)
(* The ledger and the file it is rebuilt from agree on order, undo marks   *)
(* and history, whatever was evicted, lost or torn.                        *)
(***************************************************************************)
LedgerSound == LedgerOrdered /\ MarksExact /\ DurableHistorySound
=============================================================================
