------------------------------ MODULE Telegram ------------------------------
(***************************************************************************)
(* genie-core's Telegram adapter: a poll loop (the dispatcher) that routes *)
(* each message to its chat's inbox, and one driver task per chat that     *)
(* serves the inbox and retires when the chat goes quiet.                  *)
(*                                                                         *)
(* Updates are numbered in the order Telegram delivers them; a message is  *)
(* its number.  A step ends where the code awaits something that another   *)
(* task can delay: a gate, a permit, an inbox with no room, a request.     *)
(***************************************************************************)
EXTENDS Integers, Sequences, FiniteSets

CONSTANTS
  Chats,           \* allowed chats
  NoChat,
  Slots,           \* identities for driver tasks
  NoSlot,
  Posts,           \* updates that are posted: records of a chat and a kind
  InboxSize,       \* capacity of a driver's mpsc inbox
  UpdateSlots,     \* update_permits
  VoiceSlots,      \* voice_permits
  BatchSize,       \* updates in one getUpdates answer
  MaxUpdates,      \* bound on updates
  MaxFaults        \* bound on failing sendMessage calls and restarts of genie-core

ASSUME TelegramAssumption ==
  /\ NoSlot \notin Slots /\ NoChat \notin Chats
  /\ {InboxSize, UpdateSlots, VoiceSlots, BatchSize} \subseteq Nat \ {0}
  /\ VoiceSlots <= UpdateSlots
  /\ {MaxUpdates, MaxFaults} \subseteq Nat

VARIABLES
  updates,    \* what was posted: updates[u] is a chat and a kind
  confirmed,  \* Telegram's side: updates before this one are forgotten
  offset,     \* the poll loop's offset
  batch,      \* updates of the answer being routed
  dpc,        \* where the dispatcher is: "poll", "route", "gate", "send"
  target,     \* the driver the head of the batch goes to
  drivers,    \* per slot: the task
  driverOf,   \* the dispatcher's map of chats to drivers
  permits,    \* free update_permits
  voice,      \* free voice_permits
  budget,     \* faults left of the bound
  served,     \* history: per chat, the messages taken from an inbox, in order
  replayed    \* history: a bootstrap failed, so old updates may come again

dispatcher == <<offset, batch, dpc, target>>
pool       == <<permits, voice>>
vars == <<updates, confirmed, offset, batch, dpc, target, drivers, driverOf, permits, voice,
          budget, served, replayed>>

(* "skip" stands for what the dispatcher drops: no message, a bot, a chat    *)
(* that is not allowed; "other" for what a driver answers or ignores itself. *)
UpdateKinds == {"text", "voice", "other", "skip"}

ASSUME PostsAssumption == Posts \subseteq [chat : Chats, kind : UpdateKinds]

Gone == [chat |-> NoChat, pc |-> "gone", inbox |-> <<>>]
Fresh(c, inbox) == [chat |-> c, pc |-> "recv", inbox |-> inbox]

Init ==
  /\ updates = <<>> /\ confirmed = 1
  /\ offset = 0 /\ batch = <<>> /\ dpc = "poll" /\ target = NoSlot
  /\ drivers = [d \in Slots |-> Gone]
  /\ driverOf = [c \in Chats |-> NoSlot]
  /\ permits = UpdateSlots /\ voice = VoiceSlots
  /\ budget = MaxFaults
  /\ served = [c \in Chats |-> <<>>] /\ replayed = FALSE

Closed(d) == drivers[d].pc = "gone"        \* Sender::is_closed
GateHeld(d) == dpc = "send" /\ target = d  \* the dispatcher holds ChatDriver::gate

(* The map has an entry for the chat and its inbox is open. *)
HasDriver(c) == driverOf[c] \in {d \in Slots : ~Closed(d)}

FreeSlots == {d \in Slots : Closed(d) /\ d # target /\ \A c \in Chats : driverOf[c] # d}
NewSlot == CHOOSE d \in FreeSlots : TRUE

Put(d, driver) == drivers' = [drivers EXCEPT ![d] = driver]

-----------------------------------------------------------------------------
(* Telegram's side. *)

Post(update) ==
  /\ Len(updates) < MaxUpdates
  /\ updates' = Append(updates, update)
  /\ UNCHANGED <<confirmed, dispatcher, drivers, driverOf, pool, budget, replayed, served>>

(* What an answer holds when updates before `from` are confirmed. *)
Answer(from) ==
  LET upto == IF from + BatchSize - 1 > Len(updates) THEN Len(updates) ELSE from + BatchSize - 1
  IN  [i \in 1..(upto - from + 1) |-> from + i - 1]

Confirm == IF offset > confirmed THEN offset ELSE confirmed

-----------------------------------------------------------------------------
(* The dispatcher. *)

\* Variant: quiet chats are dropped from the map although their driver runs.
RetainIdle == [c \in Chats |-> IF driverOf[c] # NoSlot /\ drivers[driverOf[c]].inbox = <<>>
                               THEN NoSlot ELSE driverOf[c]]

(* drivers.retain: entries whose inbox is closed go. *)
Retain == [c \in Chats |-> IF driverOf[c] # NoSlot /\ Closed(driverOf[c])
                           THEN NoSlot ELSE driverOf[c]]

Poll ==
  /\ dpc = "poll"
  /\ confirmed' = Confirm
  /\ batch' = Answer(confirmed')
  /\ dpc' = IF batch' = <<>> THEN "poll" ELSE "route"
  /\ driverOf' = Retain
  /\ UNCHANGED <<updates, offset, target, drivers, pool, budget, replayed, served>>

(* The answer is lost; the loop tries again. *)
PollFails ==
  /\ dpc = "poll" /\ confirmed' = Confirm
  /\ UNCHANGED <<updates, dispatcher, drivers, driverOf, pool, budget, replayed, served>>

(* On to the next update of the batch. *)
Routed ==
  /\ batch' = Tail(batch)
  /\ dpc' = IF Tail(batch) = <<>> THEN "poll" ELSE "route"
  /\ target' = NoSlot

Route ==
  /\ dpc = "route"
  /\ offset' = IF Head(batch) + 1 > offset THEN Head(batch) + 1 ELSE offset
  /\ LET c == updates[Head(batch)].chat
     IN  \/ /\ updates[Head(batch)].kind = "skip"
            /\ Routed /\ UNCHANGED <<drivers, driverOf>>
         \/ /\ updates[Head(batch)].kind # "skip"
            /\ HasDriver(c)
            /\ target' = driverOf[c] /\ dpc' = "gate"
            /\ UNCHANGED <<batch, drivers, driverOf>>
         \/ /\ updates[Head(batch)].kind # "skip"
            /\ ~HasDriver(c)
            /\ FreeSlots # {}
            /\ target' = NewSlot /\ dpc' = "gate"
            /\ Put(NewSlot, Fresh(c, <<>>))                   \* spawn_chat_driver
            /\ driverOf' = [driverOf EXCEPT ![c] = NewSlot]
            /\ UNCHANGED batch
  /\ UNCHANGED <<updates, confirmed, pool, budget, replayed, served>>

(* The gate is first come, first served: a driver that waits for it to retire *)
(* goes before the dispatcher.                                               *)
TakeGate ==
  /\ dpc = "gate" /\ drivers[target].pc # "retire"
  /\ dpc' = "send"
  /\ UNCHANGED <<updates, confirmed, offset, batch, target, drivers, driverOf, pool, budget,
                 replayed, served>>

(* The send under the gate waits for room, and fails if the driver is gone. *)
Send ==
  /\ dpc = "send" /\ ~Closed(target) /\ Len(drivers[target].inbox) < InboxSize
  /\ Put(target, [drivers[target] EXCEPT !.inbox = Append(@, Head(batch))])
  /\ Routed
  /\ UNCHANGED <<updates, confirmed, offset, driverOf, pool, budget, served, replayed>>

Redeliver ==
  /\ dpc = "send" /\ Closed(target) /\ FreeSlots # {}
  /\ LET c == updates[Head(batch)].chat
     IN  /\ Put(NewSlot, Fresh(c, <<Head(batch)>>))
         /\ driverOf' = [driverOf EXCEPT ![c] = NewSlot]
  /\ Routed
  /\ UNCHANGED <<updates, confirmed, offset, pool, budget, served, replayed>>

-----------------------------------------------------------------------------
(* A driver: serve_channel over TelegramChatChannel. *)

(* The next place of a driver that has taken message u. *)
Taken(driver, u) ==
  [driver EXCEPT !.inbox = Tail(@),
                 !.pc = CASE updates[u].kind = "text"  -> "permit"
                          [] updates[u].kind = "voice" -> "voice_permit"
                          [] OTHER                     -> "recv"]

Take(d) ==
  /\ Put(d, Taken(drivers[d], Head(drivers[d].inbox)))
  /\ served' = [served EXCEPT ![drivers[d].chat] = Append(@, Head(drivers[d].inbox))]

Recv(d) ==
  /\ drivers[d].pc = "recv" /\ drivers[d].inbox # <<>>
  /\ Take(d)
  /\ UNCHANGED <<updates, confirmed, dispatcher, driverOf, pool, budget, replayed>>

IdleTimeout(d) ==
  /\ drivers[d].pc = "recv" /\ drivers[d].inbox = <<>>
  /\ Put(d, [drivers[d] EXCEPT !.pc = "retire"])
  /\ UNCHANGED <<updates, confirmed, dispatcher, driverOf, pool, budget, replayed, served>>

\* Variant: the inbox is closed without a last look under the gate.
RetireUnseen(d) ==
  /\ drivers[d].pc = "retire"
  /\ Put(d, Gone)
  /\ UNCHANGED <<updates, confirmed, dispatcher, driverOf, pool, budget, replayed, served>>

(* Under the gate: take a message that raced the timeout, or close and exit. *)
Retire(d) ==
  /\ drivers[d].pc = "retire" /\ ~GateHeld(d)
  /\ \/ drivers[d].inbox # <<>> /\ Take(d)
     \/ /\ drivers[d].inbox = <<>> /\ Put(d, Gone)
        /\ UNCHANGED served
  /\ UNCHANGED <<updates, confirmed, dispatcher, driverOf, pool, budget, replayed>>

Go(d, pc) == Put(d, [drivers[d] EXCEPT !.pc = pc])

(* The turn handler: a permit, held across the request to genie-core. *)
TakePermit(d) ==
  /\ drivers[d].pc = "permit" /\ permits > 0
  /\ permits' = permits - 1
  /\ Go(d, "core")
  /\ UNCHANGED <<updates, confirmed, dispatcher, driverOf, voice, budget, replayed, served>>

\* Variant: the permit of a turn that failed is not returned.
CoreAnswersLeaking(d) ==
  /\ drivers[d].pc = "core"
  /\ \/ Go(d, "reply") /\ permits' = permits + 1
     \/ Go(d, "recv") /\ UNCHANGED permits
  /\ UNCHANGED <<updates, confirmed, dispatcher, driverOf, voice, budget, replayed, served>>

(* An error of chat_core skips the turn: there is no reply. *)
CoreAnswers(d) ==
  /\ drivers[d].pc = "core"
  /\ permits' = permits + 1
  /\ Go(d, "reply") \/ Go(d, "recv")
  /\ UNCHANGED <<updates, confirmed, dispatcher, driverOf, voice, budget, replayed, served>>

Reply(d) ==
  /\ drivers[d].pc = "reply"
  /\ Go(d, "recv")
  /\ UNCHANGED <<updates, confirmed, dispatcher, driverOf, pool, budget, replayed, served>>

(* A failed send ends serve_channel, the task, and the inbox with it. *)
ReplyFails(d) ==
  /\ drivers[d].pc = "reply" /\ budget > 0
  /\ budget' = budget - 1
  /\ Put(d, Gone)
  /\ UNCHANGED <<updates, confirmed, dispatcher, driverOf, pool, served, replayed>>

(* handle_voice_message: rejected at once, or a permit for the transcription. *)
VoiceMessage(d) ==
  /\ drivers[d].pc = "voice_permit"
  /\ \/ Go(d, "recv") /\ UNCHANGED voice
     \/ voice > 0 /\ voice' = voice - 1 /\ Go(d, "stt")
  /\ UNCHANGED <<updates, confirmed, dispatcher, driverOf, permits, budget, replayed, served>>

(* The transcription ends, in a failure, nothing intelligible, or a text. *)
Transcribed(d) ==
  /\ drivers[d].pc = "stt"
  /\ voice' = voice + 1
  /\ Go(d, "recv") \/ Go(d, "voice_core")
  /\ UNCHANGED <<updates, confirmed, dispatcher, driverOf, permits, budget, replayed, served>>

(* chat_core and send_reply; an error of either is logged. *)
VoiceAnswered(d) ==
  /\ drivers[d].pc = "voice_core"
  /\ Go(d, "recv")
  /\ UNCHANGED <<updates, confirmed, dispatcher, driverOf, pool, budget, replayed, served>>

-----------------------------------------------------------------------------

(* bootstrap_offset: after the pending updates of one answer. *)
Bootstrap(pending) == IF pending = <<>> THEN 0 ELSE pending[Len(pending)] + 1

(* genie-core restarts: every task and inbox is gone; bootstrap_offset skips *)
(* the first pending updates, or fails and starts from 0.                    *)
Crash ==
  /\ budget > 0
  /\ budget' = budget - 1
  /\ \/ offset' = Bootstrap(Answer(confirmed)) /\ UNCHANGED replayed
     \/ offset' = 0 /\ replayed' = TRUE
  /\ batch' = <<>> /\ dpc' = "poll" /\ target' = NoSlot
  /\ drivers' = [d \in Slots |-> Gone]
  /\ driverOf' = [c \in Chats |-> NoSlot]
  /\ permits' = UpdateSlots /\ voice' = VoiceSlots
  /\ UNCHANGED <<updates, confirmed, served>>

Dispatch == Poll \/ Route \/ TakeGate \/ Send \/ Redeliver

Serve(d) ==
  \/ Recv(d) \/ Retire(d) \/ TakePermit(d) \/ CoreAnswers(d) \/ Reply(d) \/ ReplyFails(d)
  \/ VoiceMessage(d) \/ Transcribed(d) \/ VoiceAnswered(d)

Next ==
  \/ \E update \in Posts : Post(update)
  \/ Dispatch \/ PollFails
  \/ \E d \in Slots : Serve(d) \/ IdleTimeout(d)
  \/ Crash

(* Every request of the adapter has a timeout, and the executor polls every  *)
(* task that can go on.                                                      *)
Fairness == WF_vars(Dispatch) /\ \A d \in Slots : WF_vars(Serve(d))

Spec == Init /\ [][Next]_vars /\ Fairness

-----------------------------------------------------------------------------
InTurn(d) == drivers[d].pc \notin {"gone", "recv", "retire"}

(***************************************************************************)
(* Two drivers of one chat never overlap in a turn (issue #77), whatever   *)
(* the dispatcher's map, retirements, redeliveries and failed sends do.    *)
(***************************************************************************)
OneTurnPerChat ==
  \A d, e \in Slots : InTurn(d) /\ InTurn(e) /\ drivers[d].chat = drivers[e].chat => d = e

Running(c) == {d \in Slots : drivers[d].chat = c /\ ~Closed(d)}

(* What waits for a chat is in the inbox of the task that runs for it. *)
Mail == [c \in Chats |-> IF Running(c) = {} THEN <<>>
                         ELSE drivers[CHOOSE d \in Running(c) : TRUE].inbox]

Busy == {c \in Chats : \E d \in Slots : drivers[d].chat = c /\ InTurn(d)}

Mailbox == INSTANCE ChatMailbox WITH
  Messages <- 1..MaxUpdates,
  Capacity <- InboxSize,
  mail     <- Mail,
  taken    <- served,
  busy     <- Busy,
  repeats  <- replayed

(***************************************************************************)
(* The adapter implements a mailbox per chat.  Whatever the dispatcher's   *)
(* map, idle timeouts, retirements, redeliveries and restarts do, a        *)
(* message an inbox accepted is taken once, in the order of delivery and   *)
(* while no other turn of the chat runs; retirement strands none, and a    *)
(* restart repeats none unless its bootstrap failed.                       *)
(***************************************************************************)
ImplementsMailbox == Mailbox!Spec

(***************************************************************************)
(* Every update is eventually routed and every inbox emptied: the gate,    *)
(* the full inbox and the permits never leave everyone waiting.            *)
(***************************************************************************)
AllRouted ==
  <>[](/\ dpc = "poll" /\ confirmed > Len(updates)
       /\ \A d \in Slots : drivers[d].inbox = <<>> /\ ~InTurn(d))
=============================================================================
