----------------------------- MODULE ChatServer -----------------------------
(***************************************************************************)
(* genie-core's HTTP chat surface: connection tasks that run chat turns    *)
(* one at a time behind ChatTurnGate, /api/chat/clear and the pruner       *)
(* beside them, with the conversation store and the session registry.      *)
(*                                                                         *)
(* A step of a handler ends at an await that lets other tasks in: the      *)
(* gate, a store operation on the blocking pool, the model, a tool.  The   *)
(* store is SQLite's, with one connection behind a mutex: each of its      *)
(* operations is one step.  A message is its turn, its role, its row id    *)
(* and its time; titles and other metadata are left out.                   *)
(***************************************************************************)
EXTENDS Integers, Sequences, FiniteSets, TLC

CONSTANTS
  Retention,        \* conversation_retention_days, in units of the clock
  MaxMessages,      \* max_messages_per_conversation
  Handlers,         \* connection tasks
  NoHandler,
  ClientIds,        \* conversation ids clients bring, or that name a speaker
  MaxSessions,      \* cap on tracked sessions
  IdleTtl,          \* time after which an idle session is dropped
  MaxHistory,       \* messages in a prompt
  TurnLimit,        \* the longest a turn takes, by the timeouts of what it calls
  MaxTurns,         \* bound on turns
  MaxTime,          \* bound on the clock
  MaxFaults,        \* bound on failing store operations and restarts
  MaxClears         \* bound on /api/chat/clear

ASSUME StoreAssumption == {Retention, MaxMessages} \subseteq Nat \ {0}

ASSUME ServerAssumption ==
  /\ NoHandler \notin Handlers
  /\ {MaxSessions, IdleTtl, MaxHistory, TurnLimit, MaxTurns} \subseteq Nat \ {0}
  /\ TurnLimit <= Retention
  /\ {MaxTime, MaxFaults, MaxClears} \subseteq Nat

VARIABLES
  now,       \* the clock
  convs,     \* rows of conversations
  msgs,      \* rows of messages
  appended,  \* history: per conversation, every message ever stored, in order
  tasks,     \* per handler: its request
  queue,     \* handlers waiting for the gate's lock, first come first served
  holder,    \* the handler that holds it
  gate,      \* GateState
  current,   \* current_conv_id
  sessions,  \* the session registry
  turns,     \* turns begun
  budget,    \* what is left of the bounds
  missed     \* history: turns one of whose messages found no conversation

server == <<queue, holder, gate, current, sessions>>
Connections == Permutations(Handlers)  \* connection tasks are alike

vars == <<now, convs, msgs, appended, tasks, queue, holder, gate, current, sessions, turns,
          budget, missed>>

-----------------------------------------------------------------------------
(* The conversation store. *)

store == <<convs, msgs, appended>>

(* generate_id: the milliseconds. *)
NewId(t) == <<"conv", t>>

RowIds == {m.id : m \in msgs}
NextRow == IF msgs = {} THEN 1 ELSE 1 + CHOOSE i \in RowIds : \A j \in RowIds : j <= i

Of(rows, c) == {m \in rows : m.conv = c}
Before(m, n) == m.ts < n.ts \/ (m.ts = n.ts /\ m.id < n.id)

(* The last n of a set of rows by time and row id (DESC LIMIT n). *)
Latest(rows, n) == {m \in rows : Cardinality({k \in rows : Before(m, k)}) < n}

(* A set of rows in the order of the queries (ORDER BY ts_ms ASC, id ASC). *)
Ordered(rows) ==
  [i \in 1..Cardinality(rows) |->
     CHOOSE m \in rows : Cardinality({k \in rows : Before(k, m)}) = i - 1]

(* The rows for a turn's messages with the given roles. *)
Rows(c, turn, roles) ==
  [i \in DOMAIN roles |->
     [id |-> NextRow + i - 1, conv |-> c, turn |-> turn, role |-> roles[i], ts |-> now]]

History(c) == IF c \in DOMAIN appended THEN appended[c] ELSE <<>>

Insert(c, turn, roles) ==
  LET rows == Rows(c, turn, roles)
  IN  /\ msgs' = msgs \cup {rows[i] : i \in DOMAIN rows}
      /\ appended' = [d \in DOMAIN appended \cup {c} |->
                        IF d = c THEN History(c) \o rows ELSE appended[d]]

(* create: INSERT fails, and nothing changes, when this millisecond's id is taken. *)
CanCreate == NewId(now) \notin convs
Create == CanCreate /\ convs' = convs \cup {NewId(now)} /\ UNCHANGED <<msgs, appended>>

(* append: the foreign key refuses a message of a conversation that is gone. *)
CanAppend(c) == c \in convs
AppendMsg(c, turn, role) == CanAppend(c) /\ Insert(c, turn, <<role>>) /\ UNCHANGED convs

\* Variant: the batch relies on the conversation being there.
AppendBatchOnly(c, turn, roles) ==
  IF CanAppend(c) THEN Insert(c, turn, roles) /\ UNCHANGED convs ELSE UNCHANGED store

EnsureAndAppendBatch(c, turn, roles) ==
  convs' = convs \cup {c} /\ Insert(c, turn, roles)

(* What the per-conversation cap leaves. *)
Cap(rows) == {m \in rows : m \in Latest(Of(rows, m.conv), MaxMessages)}

(* prune_old_turns: by age, then conversations with no message, then the cap. *)
PruneOldTurns ==
  LET young == {m \in msgs : m.ts >= now - Retention}
  IN  /\ convs' = {c \in convs : Of(young, c) # {}}
      /\ msgs' = Cap(young)
      /\ UNCHANGED appended

-----------------------------------------------------------------------------
(* The session registry: the bounded, idle-expiring set of conversation ids *)
(* in use.  An entry's key is its conversation id, so the map is a set of   *)
(* ids with the time each was last active.                                  *)

(* A registry is a set of [id, at] records, one for an id at most. *)
Tracked(reg) == {s.id : s \in reg}

EvictIdle(reg, clock) == {s \in reg : s.at >= clock - IdleTtl}

Oldest(reg) == {s \in reg : \A t \in reg : s.at <= t.at}

(* What enforce_cap leaves when it removes the least recently active one.  *)
(* Among equals the smallest key goes; any of them may be.                 *)
EnforceCap(reg) ==
  IF Cardinality(reg) >= MaxSessions
  THEN {reg \ {s} : s \in Oldest(reg)}
  ELSE {reg}

(* The registries track may leave. *)
Track(reg, id, clock) ==
  LET live  == EvictIdle(reg, clock)
      entry == [id |-> id, at |-> clock]
  IN  IF id \in Tracked(live)
      THEN {{s \in live : s.id # id} \cup {entry}}
      ELSE {rest \cup {entry} : rest \in EnforceCap(live)}
-----------------------------------------------------------------------------
NoConv == <<"none">>
NoRequest == [pc |-> "idle", conv |-> NoConv, turn |-> 0, prompt |-> <<>>]
OpenGate == [waiters |-> 0, inFlight |-> FALSE, since |-> 0]

(* ChatServer::new creates the first conversation. *)
Init ==
  /\ now = 0 /\ convs = {NewId(0)} /\ msgs = {} /\ appended = <<>>
  /\ tasks = [h \in Handlers |-> NoRequest]
  /\ queue = <<>> /\ holder = NoHandler /\ gate = OpenGate
  /\ current = NewId(0) /\ sessions = {}
  /\ turns = 0 /\ missed = {}
  /\ budget = [faults |-> MaxFaults, clears |-> MaxClears]

At(h, pc) == tasks[h].pc = pc
Go(h, pc) == tasks' = [tasks EXCEPT ![h].pc = pc]

-----------------------------------------------------------------------------
(* The gate. *)

(* try_acquire registers a waiter and queues for the lock. *)
Arrive(h) ==
  /\ At(h, "idle") /\ turns < MaxTurns
  /\ tasks' = [tasks EXCEPT ![h] = [NoRequest EXCEPT !.pc = "wait"]]
  /\ queue' = Append(queue, h)
  /\ gate' = [gate EXCEPT !.waiters = @ + 1]
  /\ UNCHANGED <<now, store, holder, current, sessions, turns, budget, missed>>

Acquire(h) ==
  /\ At(h, "wait") /\ holder = NoHandler /\ Head(queue) = h
  /\ turns < MaxTurns
  /\ holder' = h /\ queue' = Tail(queue)
  /\ gate' = [gate EXCEPT !.waiters = @ - 1, !.inFlight = TRUE, !.since = now]
  /\ turns' = turns + 1
  /\ tasks' = [tasks EXCEPT ![h] = [@ EXCEPT !.pc = "begin", !.turn = turns + 1]]
  /\ UNCHANGED <<now, store, current, sessions, budget, missed>>

\* Variant: a wait that times out leaves its waiter counted.
BusyLeaking(h) ==
  /\ At(h, "wait") /\ (holder # NoHandler \/ Head(queue) # h)
  /\ queue' = SelectSeq(queue, LAMBDA w : w # h)
  /\ tasks' = [tasks EXCEPT ![h] = NoRequest]
  /\ UNCHANGED <<now, store, holder, gate, current, sessions, turns, budget, missed>>

(* busy_wait passes: the waiter leaves and the client is told "busy". *)
Busy(h) ==
  /\ At(h, "wait") /\ (holder # NoHandler \/ Head(queue) # h)
  /\ queue' = SelectSeq(queue, LAMBDA w : w # h)
  /\ gate' = [gate EXCEPT !.waiters = @ - 1]
  /\ tasks' = [tasks EXCEPT ![h] = NoRequest]
  /\ UNCHANGED <<now, store, holder, current, sessions, turns, budget, missed>>

(* ChatTurnGuard's drop: on_turn_complete, then the lock is released. *)
Release(h) ==
  /\ holder' = NoHandler
  /\ gate' = [gate EXCEPT !.inFlight = FALSE, !.since = 0]
  /\ tasks' = [tasks EXCEPT ![h] = NoRequest]
  /\ UNCHANGED <<queue, current, sessions>>

-----------------------------------------------------------------------------
(* A turn. *)

(* A body that cannot be used, or a provider that is misconfigured. *)
Reject(h) ==
  /\ At(h, "begin")
  /\ Release(h)
  /\ UNCHANGED <<now, store, turns, budget, missed>>

(* /api/chat and /api/chat/stream resolve the conversation: the client's id, *)
(* the speaker's, or the current one (resolve_chat_conv_id).                  *)
Begin(h, pc) ==
  /\ At(h, "begin")
  /\ \E c \in ClientIds \cup {current} :
       /\ sessions' \in Track(sessions, c, now)
       /\ tasks' = [tasks EXCEPT ![h] = [@ EXCEPT !.pc = pc, !.conv = c]]
  /\ UNCHANGED <<now, store, queue, holder, gate, current, turns, budget, missed>>

(* The OpenAI bridge keeps no conversation: a tool or the model, and a reply. *)
Bridge(h) ==
  /\ At(h, "begin") /\ Go(h, "done")
  /\ UNCHANGED <<now, store, server, turns, budget, missed>>

Conv(h) == tasks[h].conv
Turn(h) == tasks[h].turn

(* The user message is stored; then the quick router, or the model.  The     *)
(* streaming handler refuses a misconfigured provider only now.              *)
StoreUser(h) ==
  /\ At(h, "user") \/ At(h, "user_stream")
  /\ EnsureAndAppendBatch(Conv(h), Turn(h), <<"user">>)
  /\ \/ Go(h, "quick") /\ UNCHANGED server
     \/ Go(h, "recent") /\ UNCHANGED server
     \/ At(h, "user_stream") /\ Release(h)
  /\ UNCHANGED <<now, turns, budget, missed>>

(* A store operation that fails: fatal to the turn here, logged elsewhere. *)
StoreFails(h) ==
  /\ budget.faults > 0 /\ budget' = [budget EXCEPT !.faults = @ - 1]
  /\ \/ (At(h, "user") \/ At(h, "user_stream") \/ At(h, "recent")) /\ Release(h)
     \/ At(h, "tool_call") /\ Go(h, "tool_result") /\ UNCHANGED server
     \/ At(h, "tool_result") /\ Go(h, "answer") /\ UNCHANGED server
     \/ (At(h, "quick") \/ At(h, "answer")) /\ Go(h, "done") /\ UNCHANGED server
  /\ UNCHANGED <<now, store, turns, missed>>

(* finalize_direct_tool_turn after the tool. *)
StoreQuick(h) ==
  /\ At(h, "quick")
  /\ EnsureAndAppendBatch(Conv(h), Turn(h), <<"assistant", "system", "assistant">>)
  /\ Go(h, "done")
  /\ UNCHANGED <<now, server, turns, budget, missed>>

\* Variant: the first messages of the conversation, not the latest.
FirstRows(c) == LET all == Ordered(Of(msgs, c)) IN
  SubSeq(all, 1, IF Len(all) < MaxHistory THEN Len(all) ELSE MaxHistory)

(* get_recent *)
Recent(c) == Ordered(Latest(Of(msgs, c), MaxHistory))

BuildPrompt(h) ==
  /\ At(h, "recent")
  /\ tasks' = [tasks EXCEPT ![h] = [@ EXCEPT !.pc = "llm", !.prompt = Recent(Conv(h))]]
  /\ UNCHANGED <<now, store, server, turns, budget, missed>>

(* The model answers with a text or a tool call, which is run; or there is   *)
(* no answer, or the streaming client is gone.                               *)
ModelAnswers(h) ==
  /\ At(h, "llm")
  /\ \/ /\ \E pc \in {"answer", "tool_call"} :
             tasks' = [tasks EXCEPT ![h] = [@ EXCEPT !.pc = pc, !.prompt = <<>>]]
        /\ UNCHANGED server
     \/ Release(h)
  /\ UNCHANGED <<now, store, turns, budget, missed>>

(* append_or_log of a later message of the turn. *)
StoreNext(h, pc, role, next) ==
  /\ At(h, pc)
  /\ \/ AppendMsg(Conv(h), Turn(h), role) /\ UNCHANGED missed
     \/ ~CanAppend(Conv(h)) /\ UNCHANGED store /\ missed' = missed \cup {Turn(h)}
  /\ Go(h, next)
  /\ UNCHANGED <<now, server, turns, budget>>

StoreAnswer(h)     == StoreNext(h, "answer", "assistant", "done")
StoreToolCall(h)   == StoreNext(h, "tool_call", "assistant", "tool_result")
StoreToolResult(h) == StoreNext(h, "tool_result", "system", "answer")  \* and summarize

(* extract_and_store, the response, and the guard goes. *)
Finish(h) ==
  /\ At(h, "done")
  /\ Release(h)
  /\ UNCHANGED <<now, store, turns, budget, missed>>

-----------------------------------------------------------------------------
(* Beside the gate. *)

(* /api/chat/clear: a new conversation, then the current one is set. *)
Clear(h) ==
  /\ At(h, "idle") /\ budget.clears > 0
  /\ Create
  /\ tasks' = [tasks EXCEPT ![h] = [NoRequest EXCEPT !.pc = "clear", !.conv = NewId(now)]]
  /\ budget' = [budget EXCEPT !.clears = @ - 1]
  /\ UNCHANGED <<now, server, turns, missed>>

SetCurrent(h) ==
  /\ At(h, "clear")
  /\ current' = Conv(h)
  /\ tasks' = [tasks EXCEPT ![h] = NoRequest]
  /\ UNCHANGED <<now, store, queue, holder, gate, sessions, turns, budget, missed>>

Prune ==
  /\ PruneOldTurns /\ store' # store
  /\ UNCHANGED <<now, tasks, server, turns, budget, missed>>

(* No turn outlasts the timeouts of the model and of the tools. *)
Tick ==
  /\ now < MaxTime
  /\ holder # NoHandler => now - gate.since < TurnLimit
  /\ now' = now + 1
  /\ UNCHANGED <<store, tasks, server, turns, budget, missed>>

(* genie-core restarts: what the store committed is what is left. *)
Restart ==
  /\ budget.faults > 0 /\ budget' = [budget EXCEPT !.faults = @ - 1]
  /\ Create
  /\ tasks' = [h \in Handlers |-> NoRequest]
  /\ queue' = <<>> /\ holder' = NoHandler /\ gate' = OpenGate
  /\ current' = NewId(now) /\ sessions' = {}
  /\ UNCHANGED <<now, turns, missed>>

TurnStep(h) ==
  \/ Reject(h) \/ Begin(h, "user") \/ Begin(h, "user_stream") \/ Bridge(h) 
  \/ StoreUser(h) \/ StoreQuick(h) \/ BuildPrompt(h)
  \/ ModelAnswers(h) \/ StoreAnswer(h) \/ StoreToolCall(h) \/ StoreToolResult(h)
  \/ Finish(h) \/ SetCurrent(h)

GateStep(h) == Acquire(h) \/ Busy(h)

Next ==
  \/ \E h \in Handlers :
       \/ Arrive(h) \/ GateStep(h) \/ TurnStep(h) \/ StoreFails(h) \/ Clear(h)
  \/ Prune \/ Tick \/ Restart

Spec == Init /\ [][Next]_vars

-----------------------------------------------------------------------------
(***************************************************************************)
(* What /api/health reports of the chat path is exact: no waiter leaks and *)
(* in_flight is the lock, through timeouts, errors and rejected bodies.    *)
(***************************************************************************)
LivenessReportExact ==
  /\ gate.waiters = Cardinality({h \in Handlers : At(h, "wait")})
  /\ gate.inFlight = (\E h \in Handlers : tasks[h].turn # 0)

(***************************************************************************)
(* The prompt of a turn is the end of its conversation and ends with the   *)
(* turn's own message, also when the pruner ran in between.                *)
(***************************************************************************)
PromptEndsWithTurn ==
  \A h \in Handlers : tasks[h].prompt # <<>> =>
    LET p == tasks[h].prompt IN
    /\ p[Len(p)].turn = Turn(h) /\ p[Len(p)].role = "user"
    /\ \A i, j \in DOMAIN p : i < j => p[i].turn <= p[j].turn

(***************************************************************************)
(* What is stored of a conversation is the end of what was ever stored in  *)
(* it, in that order: no holes, no reordering, and the messages of a turn  *)
(* are never between those of another.                                     *)
(***************************************************************************)
StoredIsSuffix ==
  \A c \in DOMAIN appended :
    LET kept == Ordered(Of(msgs, c))
        all  == appended[c]
    IN  /\ kept = SubSeq(all, Len(all) - Len(kept) + 1, Len(all))
        /\ \A i, j, k \in DOMAIN all :
             i < j /\ j < k /\ all[i].turn = all[k].turn => all[j].turn = all[i].turn

(***************************************************************************)
(* The messages of a running turn always find their conversation, although *)
(* the pruner deletes conversations that are empty, as one just cleared.   *)
(***************************************************************************)
NoMessageMissed == missed = {}

(***************************************************************************)
(* The registry stays within its cap and holds the conversation of the     *)
(* turn that runs.                                                         *)
(***************************************************************************)
RunningTurnTracked ==
  /\ Cardinality(Tracked(sessions)) <= MaxSessions
  /\ \A h \in Handlers : Turn(h) # 0 /\ Conv(h) # NoConv => Conv(h) \in Tracked(sessions)

(***************************************************************************)
(* A conversation keeps every message of its turns, in order               *)
(* (ensure_and_append_batch, prune_old_turns).                             *)
(***************************************************************************)
ConversationWhole == StoredIsSuffix /\ NoMessageMissed

(***************************************************************************)
(* The turn that runs is the one /api/health reports and the registry      *)
(* holds (ChatTurnGate, SessionRegistry::track).                           *)
(***************************************************************************)
RunningTurnSeen == LivenessReportExact /\ RunningTurnTracked
=============================================================================
