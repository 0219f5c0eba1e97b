--------------------------- MODULE TelegramProofs ---------------------------
(* For any number of chats, tasks, permits, updates, failures and restarts:  *)
(* the turns of one chat never overlap, its messages come in order and once, *)
(* and voice handlers that run at once never mix their sound.                *)
EXTENDS Telegram, TelegramMedia, SequenceTheorems, TLAPS

Places == {"gone", "recv", "retire", "permit", "core", "reply", "voice_permit", "stt",
           "voice_core"}

Typed ==
  /\ updates \in Seq([chat : Chats, kind : UpdateKinds])
  /\ confirmed \in Nat \ {0} /\ offset \in Nat
  /\ batch \in Seq(Nat)
  /\ dpc \in {"poll", "route", "gate", "send"}
  /\ drivers \in [Slots -> [chat : Chats \cup {NoChat}, pc : Places, inbox : Seq(Nat)]]
  /\ driverOf \in [Chats -> Slots \cup {NoSlot}]

(* What is being routed is one of the updates. *)
BatchPosted ==
  /\ dpc # "poll" => batch # <<>>
  /\ \A i \in 1..Len(batch) : batch[i] \in 1..Len(updates)

(* The dispatcher sends to the driver its map has for the chat. *)
TargetMapped ==
  dpc \in {"gate", "send"} => driverOf[updates[Head(batch)].chat] = target

(* The dispatcher's map knows every driver that runs. *)
DriversMapped ==
  \A d \in Slots : drivers[d].pc # "gone" =>
    drivers[d].chat \in Chats /\ driverOf[drivers[d].chat] = d

Inv == Typed /\ BatchPosted /\ TargetMapped /\ DriversMapped

Tasks == [chat : Chats \cup {NoChat}, pc : Places, inbox : Seq(Nat)]

LEMMA ElementOf ==
  ASSUME NEW S, NEW s \in Seq(S), NEW i \in 1..Len(s)
  PROVE  s[i] \in S
  OBVIOUS

(* An answer holds updates that were posted. *)
LEMMA AnswerPosted ==
  ASSUME NEW from \in Nat \ {0}, updates \in Seq([chat : Chats, kind : UpdateKinds])
  PROVE  /\ Answer(from) \in Seq(Nat)
         /\ \A i \in 1..Len(Answer(from)) : Answer(from)[i] \in 1..Len(updates)
<1> DEFINE upto == IF from + BatchSize - 1 > Len(updates) THEN Len(updates)
                   ELSE from + BatchSize - 1
           n == upto - from + 1
<1>1. Len(updates) \in Nat /\ BatchSize \in Nat \ {0}
  BY TelegramAssumption
<1>2. upto \in Int /\ upto <= Len(updates) /\ n \in Int
  BY <1>1
<1>3. Answer(from) = [i \in 1..n |-> from + i - 1]
  BY DEF Answer
<1> HIDE DEF upto
<1>4. \A i \in 1..n : from + i - 1 \in 1..Len(updates)
  BY <1>1, <1>2
<1>5. CASE n < 0
  <2>1. Answer(from) = <<>>
    BY <1>2, <1>3, <1>5
  <2> QED
    BY <2>1
<1>6. CASE n >= 0
  <2>1. n \in Nat
    BY <1>2, <1>6
  <2>2. \A i \in 1..n : from + i - 1 \in Nat
    BY <1>4
  <2>3. Answer(from) \in Seq(Nat) /\ Len(Answer(from)) = n
    BY <1>3, <2>1, <2>2
  <2> QED
    BY <1>3, <1>4, <2>3
<1> QED
  BY <1>2, <1>5, <1>6

(* A driver moves on with its chat, or ends; nothing else of the dispatcher's *)
(* changes.                                                                   *)
LEMMA DriverStep ==
  ASSUME Inv, NEW d \in Slots, ~Closed(d), NEW r \in Tasks, Put(d, r),
         r.pc = "gone" \/ r.chat = drivers[d].chat,
         UNCHANGED <<updates, confirmed, dispatcher, driverOf>>
  PROVE  Inv'
<1>1. /\ drivers' \in [Slots -> Tasks] /\ drivers'[d] = r
      /\ \A e \in Slots \ {d} : drivers'[e] = drivers[e]
  BY DEF Put, Inv, Typed, Tasks
<1>2. Typed' /\ BatchPosted' /\ TargetMapped'
  BY <1>1 DEF Inv, Typed, BatchPosted, TargetMapped, dispatcher, Tasks
<1>3. DriversMapped'
  BY <1>1 DEF Inv, DriversMapped, Closed
<1> QED
  BY <1>2, <1>3 DEF Inv

LEMMA GoneIsTask == Gone \in Tasks /\ Gone.pc = "gone"
  BY DEF Gone, Tasks, Places

LEMMA TaskFacts ==
  ASSUME Typed, NEW d \in Slots
  PROVE  drivers[d] \in Tasks
  BY DEF Typed, Tasks

(* Moving to another place keeps the chat. *)
LEMMA GoStep ==
  ASSUME Inv, NEW d \in Slots, ~Closed(d), NEW pc \in Places, Go(d, pc),
         UNCHANGED <<updates, confirmed, dispatcher, driverOf>>
  PROVE  Inv'
<1> DEFINE r == [drivers[d] EXCEPT !.pc = pc]
<1>1. r \in Tasks /\ r.chat = drivers[d].chat
  BY TaskFacts DEF Inv, Tasks
<1>2. Put(d, r)
  BY DEF Go
<1> QED
  BY <1>1, <1>2, DriverStep

LEMMA TakeStep ==
  ASSUME Inv, NEW d \in Slots, ~Closed(d), drivers[d].inbox # <<>>, Take(d),
         UNCHANGED <<updates, confirmed, dispatcher, driverOf>>
  PROVE  Inv'
<1> DEFINE r == Taken(drivers[d], Head(drivers[d].inbox))
<1>1. drivers[d] \in Tasks /\ drivers[d].inbox \in Seq(Nat)
  BY TaskFacts DEF Inv, Tasks
<1>2. Tail(drivers[d].inbox) \in Seq(Nat)
  BY <1>1
<1>3. r \in Tasks /\ r.chat = drivers[d].chat
  BY <1>1, <1>2 DEF Taken, Tasks, Places
<1>4. Put(d, r)
  BY DEF Take
<1> QED
  BY <1>3, <1>4, DriverStep

(* The update at the head of the batch belongs to a chat. *)
LEMMA HeadPosted ==
  ASSUME Inv, dpc # "poll"
  PROVE  /\ batch # <<>> /\ Head(batch) \in 1..Len(updates) /\ Head(batch) \in Nat
         /\ updates[Head(batch)].chat \in Chats
<1>1. batch # <<>> /\ batch \in Seq(Nat) /\ updates \in Seq([chat : Chats, kind : UpdateKinds])
  BY DEF Inv, Typed, BatchPosted
<1>2. Head(batch) = batch[1] /\ 1 \in 1..Len(batch)
  BY <1>1
<1>3. Head(batch) \in 1..Len(updates)
  BY <1>2 DEF Inv, BatchPosted
<1>4. updates[Head(batch)] \in [chat : Chats, kind : UpdateKinds]
  BY <1>1, <1>3, ElementOf
<1> QED
  BY <1>1, <1>3, <1>4

(* What is left of the batch after its head. *)
LEMMA RestPosted ==
  ASSUME Inv, dpc # "poll", Routed, UNCHANGED updates
  PROVE  /\ batch' \in Seq(Nat) /\ dpc' \in {"poll", "route"}
         /\ BatchPosted'
<1>1. batch # <<>> /\ batch \in Seq(Nat)
  BY DEF Inv, Typed, BatchPosted
<1>2. batch' \in Seq(Nat) /\ Len(batch') = Len(batch) - 1
      /\ \A i \in 1..Len(batch') : batch'[i] = batch[i + 1]
  BY <1>1 DEF Routed
<1>3. ASSUME NEW i \in 1..Len(batch') PROVE batch'[i] \in 1..Len(updates)
  <2>1. i + 1 \in 1..Len(batch) /\ batch'[i] = batch[i + 1]
    BY <1>1, <1>2
  <2> QED
    BY <2>1 DEF Inv, BatchPosted
<1> QED
  BY <1>2, <1>3 DEF Routed, BatchPosted

LEMMA NewSlotIsFree ==
  ASSUME FreeSlots # {}
  PROVE  NewSlot \in Slots /\ Closed(NewSlot) /\ \A c \in Chats : driverOf[c] # NewSlot
<1>1. NewSlot \in FreeSlots
  BY DEF NewSlot
<1> QED
  BY <1>1 DEF FreeSlots

(* A new driver for a chat whose mapped driver is gone. *)
LEMMA SpawnStep ==
  ASSUME Inv, NEW c \in Chats, NEW inbox \in Seq(Nat), FreeSlots # {},
         \A d \in Slots : driverOf[c] = d => Closed(d),
         Put(NewSlot, Fresh(c, inbox)),
         driverOf' = [driverOf EXCEPT ![c] = NewSlot]
  PROVE  /\ drivers' \in [Slots -> Tasks]
         /\ driverOf' \in [Chats -> Slots \cup {NoSlot}] /\ driverOf'[c] = NewSlot
         /\ DriversMapped'
<1>1. NewSlot \in Slots /\ Closed(NewSlot) /\ \A b \in Chats : driverOf[b] # NewSlot
  BY NewSlotIsFree
<1>2. Fresh(c, inbox) \in Tasks /\ Fresh(c, inbox).chat = c
  BY DEF Fresh, Tasks, Places
<1>3. drivers' \in [Slots -> Tasks] /\ drivers'[NewSlot] = Fresh(c, inbox)
      /\ \A e \in Slots \ {NewSlot} : drivers'[e] = drivers[e]
  BY <1>1, <1>2 DEF Put, Inv, Typed, Tasks
<1>4. driverOf' \in [Chats -> Slots \cup {NoSlot}] /\ driverOf'[c] = NewSlot
      /\ \A b \in Chats \ {c} : driverOf'[b] = driverOf[b]
  BY <1>1 DEF Inv, Typed
<1>5. ASSUME NEW d \in Slots, drivers'[d].pc # "gone"
      PROVE  drivers'[d].chat \in Chats /\ driverOf'[drivers'[d].chat] = d
  <2>1. CASE d = NewSlot
    BY <2>1, <1>2, <1>3, <1>4
  <2>2. CASE d # NewSlot
    <3>1. drivers[d].pc # "gone" /\ drivers'[d] = drivers[d]
      BY <2>2, <1>3, <1>5
    <3>2. drivers[d].chat \in Chats /\ driverOf[drivers[d].chat] = d
      BY <3>1 DEF Inv, DriversMapped
    <3>3. drivers[d].chat # c
      BY <3>1, <3>2 DEF Closed
    <3> QED
      BY <3>1, <3>2, <3>3, <1>4
  <2> QED
    BY <2>1, <2>2
<1> QED
  BY <1>3, <1>4, <1>5 DEF DriversMapped

LEMMA InvInit == Init => Inv
<1> SUFFICES ASSUME Init PROVE Inv
  OBVIOUS
<1>1. drivers \in [Slots -> Tasks]
  BY GoneIsTask DEF Init
<1>2. Typed
  BY <1>1 DEF Init, Typed, Tasks
<1> QED
  BY <1>2, GoneIsTask DEF Init, Inv, BatchPosted, TargetMapped, DriversMapped

LEMMA InvNext == Inv /\ [Next]_vars => Inv'
<1> SUFFICES ASSUME Inv, [Next]_vars PROVE Inv'
  OBVIOUS
<1>1. ASSUME NEW update \in Posts, Post(update) PROVE Inv'
  <2>1. /\ updates' \in Seq([chat : Chats, kind : UpdateKinds]) /\ Len(updates') = Len(updates) + 1
        /\ \A i \in 1..Len(updates) : updates'[i] = updates[i]
    BY <1>1, PostsAssumption DEF Post, Inv, Typed
  <2>2. Typed' /\ BatchPosted'
    BY <1>1, <2>1 DEF Post, Inv, Typed, BatchPosted, dispatcher
  <2>3. TargetMapped'
    BY <1>1, <2>1, HeadPosted DEF Post, Inv, TargetMapped, dispatcher
  <2> QED
    BY <1>1, <2>2, <2>3 DEF Post, Inv, DriversMapped
<1>2. CASE Poll
  <2>1. confirmed' \in Nat \ {0}
    BY <1>2 DEF Poll, Confirm, Inv, Typed
  <2>2. /\ batch' \in Seq(Nat)
        /\ \A i \in 1..Len(batch') : batch'[i] \in 1..Len(updates)
    <3>1. updates \in Seq([chat : Chats, kind : UpdateKinds]) /\ batch' = Answer(confirmed')
      BY <1>2 DEF Poll, Inv, Typed
    <3> QED
      BY <2>1, <3>1, AnswerPosted
  <2>3. driverOf' \in [Chats -> Slots \cup {NoSlot}]
    BY <1>2 DEF Poll, Retain, Inv, Typed
  <2>4. Typed' /\ BatchPosted' /\ TargetMapped'
    BY <1>2, <2>1, <2>2, <2>3 DEF Poll, Inv, Typed, BatchPosted, TargetMapped
  <2>5. DriversMapped'
    BY <1>2 DEF Poll, Retain, Closed, Inv, Typed, DriversMapped
  <2> QED
    BY <2>4, <2>5 DEF Inv
<1>3. CASE PollFails
  BY <1>3 DEF PollFails, Confirm, Inv, Typed, BatchPosted, TargetMapped, DriversMapped, dispatcher
<1>4. CASE Route
  <2> DEFINE c == updates[Head(batch)].chat
  <2>1. c \in Chats /\ Head(batch) \in Nat /\ batch # <<>>
    BY <1>4, HeadPosted DEF Route
  <2>2. offset' \in Nat /\ UNCHANGED <<updates, confirmed>>
    BY <1>4, <2>1 DEF Route, Inv, Typed
  <2>3. CASE Routed /\ UNCHANGED <<drivers, driverOf>>
    <3>1. batch' \in Seq(Nat) /\ dpc' \in {"poll", "route"} /\ BatchPosted'
      BY <1>4, <2>2, <2>3, RestPosted DEF Route
    <3> QED
      BY <2>2, <2>3, <3>1 DEF Inv, Typed, TargetMapped, DriversMapped
  <2>4. CASE /\ target' = driverOf[c] /\ dpc' = "gate"
             /\ UNCHANGED <<batch, drivers, driverOf>>
    BY <2>1, <2>2, <2>4 DEF Inv, Typed, BatchPosted, TargetMapped, DriversMapped
  <2>5. CASE /\ ~HasDriver(c) /\ FreeSlots # {}
             /\ target' = NewSlot /\ dpc' = "gate"
             /\ Put(NewSlot, Fresh(c, <<>>))
             /\ driverOf' = [driverOf EXCEPT ![c] = NewSlot]
             /\ UNCHANGED batch
    <3>1. \A d \in Slots : driverOf[c] = d => Closed(d)
      BY <2>5 DEF HasDriver
    <3>2. /\ drivers' \in [Slots -> Tasks] /\ driverOf' \in [Chats -> Slots \cup {NoSlot}]
          /\ driverOf'[c] = NewSlot /\ DriversMapped'
      <4>1. <<>> \in Seq(Nat)
        OBVIOUS
      <4> HIDE DEF c
      <4> QED
        BY <2>1, <2>5, <3>1, <4>1, SpawnStep
    <3>3. Typed' /\ BatchPosted' /\ TargetMapped'
      BY <2>1, <2>2, <2>5, <3>2 DEF Inv, Typed, BatchPosted, TargetMapped, Tasks
    <3> QED
      BY <3>2, <3>3 DEF Inv
  <2> QED
    BY <1>4, <2>3, <2>4, <2>5 DEF Route
<1>5. CASE TakeGate
  BY <1>5 DEF TakeGate, Inv, Typed, BatchPosted, TargetMapped, DriversMapped
<1>6. CASE Send
  <2> DEFINE c == updates[Head(batch)].chat
             r == [drivers[target] EXCEPT !.inbox = Append(@, Head(batch))]
  <2>1. c \in Chats /\ Head(batch) \in Nat /\ dpc = "send"
    BY <1>6, HeadPosted DEF Send
  <2>2. batch' \in Seq(Nat) /\ dpc' \in {"poll", "route"} /\ BatchPosted'
    BY <1>6, RestPosted DEF Send
  <2>3. CASE target \in Slots
    <3>1. r \in Tasks /\ r.chat = drivers[target].chat /\ r.pc = drivers[target].pc
      <4>1. drivers[target] \in Tasks
        BY <2>3, TaskFacts DEF Inv
      <4>2. Append(drivers[target].inbox, Head(batch)) \in Seq(Nat)
        BY <2>1, <4>1 DEF Tasks
      <4> QED
        BY <4>1, <4>2 DEF Tasks
    <3>2. drivers' \in [Slots -> Tasks] /\ drivers'[target] = r
          /\ \A e \in Slots \ {target} : drivers'[e] = drivers[e]
      BY <1>6, <2>3, <3>1 DEF Send, Put, Inv, Typed, Tasks
    <3>3. Typed' /\ TargetMapped'
      BY <1>6, <2>2, <3>2 DEF Send, Inv, Typed, TargetMapped, Tasks
    <3>4. DriversMapped'
      <4>1. \A d \in Slots : drivers'[d].chat = drivers[d].chat /\ drivers'[d].pc = drivers[d].pc
        BY <3>1, <3>2
      <4>2. driverOf' = driverOf
        BY <1>6 DEF Send
      <4> QED
        BY <4>1, <4>2 DEF Inv, DriversMapped
    <3> QED
      BY <2>2, <3>3, <3>4 DEF Inv
  <2>4. CASE target \notin Slots
    <3>1. drivers' = drivers
      BY <1>6, <2>4 DEF Send, Put, Inv, Typed
    <3> QED
      BY <1>6, <2>2, <3>1 DEF Send, Inv, Typed, TargetMapped, DriversMapped
  <2> QED
    BY <2>3, <2>4
<1>7. CASE Redeliver
  <2> DEFINE c == updates[Head(batch)].chat
  <2>1. c \in Chats /\ Head(batch) \in Nat /\ dpc = "send"
    BY <1>7, HeadPosted DEF Redeliver
  <2>2. batch' \in Seq(Nat) /\ dpc' \in {"poll", "route"} /\ BatchPosted'
    BY <1>7, RestPosted DEF Redeliver
  <2>3. \A d \in Slots : driverOf[c] = d => Closed(d)
    BY <1>7, <2>1 DEF Redeliver, Inv, TargetMapped
  <2>4. <<Head(batch)>> \in Seq(Nat)
    BY <2>1
  <2>5. /\ FreeSlots # {} /\ Put(NewSlot, Fresh(c, <<Head(batch)>>))
        /\ driverOf' = [driverOf EXCEPT ![c] = NewSlot]
    BY <1>7 DEF Redeliver
  <2>6. /\ drivers' \in [Slots -> Tasks] /\ driverOf' \in [Chats -> Slots \cup {NoSlot}]
        /\ DriversMapped'
    BY <2>1, <2>3, <2>4, <2>5, SpawnStep
  <2>7. Typed' /\ TargetMapped'
    BY <1>7, <2>2, <2>6 DEF Redeliver, Inv, Typed, TargetMapped, Tasks
  <2> QED
    BY <2>2, <2>6, <2>7 DEF Inv
<1>8. ASSUME NEW d \in Slots, Serve(d) \/ IdleTimeout(d) PROVE Inv'
  <2>0. {"recv", "retire", "core", "reply", "stt", "voice_core"} \subseteq Places
    BY DEF Places
  <2>1. CASE Recv(d)
    BY <2>1, TakeStep DEF Recv, Closed
  <2>2. CASE IdleTimeout(d)
    BY <2>2, <2>0, GoStep DEF IdleTimeout, Go, Closed
  <2>3. CASE Retire(d)
    <3>1. CASE drivers[d].inbox # <<>> /\ Take(d)
      BY <2>3, <3>1, TakeStep DEF Retire, Closed
    <3>2. CASE Put(d, Gone)
      BY <2>3, <3>2, GoneIsTask, DriverStep DEF Retire, Closed
    <3> QED
      BY <2>3, <3>1, <3>2 DEF Retire
  <2>4. CASE TakePermit(d)
    BY <2>4, <2>0, GoStep DEF TakePermit, Closed
  <2>5. CASE CoreAnswers(d)
    BY <2>5, <2>0, GoStep DEF CoreAnswers, Closed
  <2>6. CASE Reply(d)
    BY <2>6, <2>0, GoStep DEF Reply, Closed
  <2>7. CASE ReplyFails(d)
    BY <2>7, GoneIsTask, DriverStep DEF ReplyFails, Closed
  <2>8. CASE VoiceMessage(d)
    BY <2>8, <2>0, GoStep DEF VoiceMessage, Closed
  <2>9. CASE Transcribed(d)
    BY <2>9, <2>0, GoStep DEF Transcribed, Closed
  <2>10. CASE VoiceAnswered(d)
    BY <2>10, <2>0, GoStep DEF VoiceAnswered, Closed
  <2> QED
    BY <1>8, <2>1, <2>2, <2>3, <2>4, <2>5, <2>6, <2>7, <2>8, <2>9, <2>10 DEF Serve
<1>9. CASE Crash
  <2>1. drivers' \in [Slots -> Tasks] /\ \A d \in Slots : drivers'[d].pc = "gone"
    BY <1>9, GoneIsTask DEF Crash
  <2>2. offset' \in Nat
    <3>1. /\ Answer(confirmed) \in Seq(Nat)
          /\ \A i \in 1..Len(Answer(confirmed)) : Answer(confirmed)[i] \in 1..Len(updates)
      BY AnswerPosted DEF Inv, Typed
    <3>2. Answer(confirmed) # <<>> => Len(Answer(confirmed)) \in 1..Len(Answer(confirmed))
      BY <3>1
    <3>3. Bootstrap(Answer(confirmed)) \in Nat
      BY <3>1, <3>2 DEF Bootstrap
    <3> QED
      BY <1>9, <3>3 DEF Crash
  <2>3. Typed'
    BY <1>9, <2>1, <2>2 DEF Crash, Inv, Typed, Tasks
  <2> QED
    BY <1>9, <2>1, <2>3 DEF Crash, Inv, BatchPosted, TargetMapped, DriversMapped
<1>10. CASE UNCHANGED vars
  BY <1>10 DEF vars, Inv, Typed, BatchPosted, TargetMapped, DriversMapped
<1> QED
  BY <1>1, <1>2, <1>3, <1>4, <1>5, <1>6, <1>7, <1>8, <1>9, <1>10 DEF Next, Dispatch

(* Two drivers of one chat in a turn would both be the one its map entry has. *)
LEMMA MappedMeansOne == Inv => OneTurnPerChat
  BY DEF Inv, DriversMapped, OneTurnPerChat, InTurn

(* The turns of one chat never overlap, whatever retires, is redelivered to, *)
(* fails to send or restarts (TelegramChatChannel::recv and run).            *)
THEOREM ChatTurnsSerial == Spec => []OneTurnPerChat
<1>1. Init => Inv
  BY InvInit
<1>2. Inv /\ [Next]_vars => Inv'
  BY InvNext
<1>3. Inv => OneTurnPerChat
  BY MappedMeansOne
<1> QED
  BY <1>1, <1>2, <1>3, PTL DEF Spec

-----------------------------------------------------------------------------
(* The adapter implements a mailbox per chat. *)

(* What was accepted so far, taken or waiting, is older than update n. *)
OlderThan(history, tasks, n) ==
  /\ \A c \in Chats : \A i \in 1..Len(history[c]) : history[c][i] < n
  /\ \A d \in Slots : \A i \in 1..Len(tasks[d].inbox) : tasks[d].inbox[i] < n

(* The first update that an inbox may get next. *)
Due == IF dpc = "poll" THEN Confirm ELSE Head(batch)

(* A batch is in order, part of the answer to the last poll, and what the  *)
(* dispatcher has begun to deliver is behind its offset.                   *)
BatchInOrder ==
  /\ \A i, j \in 1..Len(batch) : i < j => batch[i] < batch[j]
  /\ \A i \in 1..Len(batch) : batch[i] < confirmed + BatchSize
  /\ dpc \in {"gate", "send"} => target \in Slots /\ Head(batch) < offset

(* Nothing comes twice or late: neither by the next answer, nor by the one  *)
(* that a restart would skip.                                               *)
InOrder ==
  ~replayed => /\ OlderThan(served, drivers, Due)
               /\ OlderThan(served, drivers, confirmed + BatchSize)
               /\ OlderThan(served, drivers, Len(updates) + 1)

MailInv ==
  /\ Inv
  /\ Len(updates) <= MaxUpdates
  /\ served \in [Chats -> Seq(Nat)] /\ replayed \in BOOLEAN
  /\ BatchInOrder
  /\ InOrder

InATurn == Places \ {"gone", "recv", "retire"}

(* Mail and Busy as functions of the tasks. *)
MailOf(tasks, c) ==
  LET running == {d \in Slots : tasks[d].chat = c /\ ~(tasks[d].pc = "gone")}
  IN  IF running = {} THEN <<>> ELSE tasks[CHOOSE d \in running : TRUE].inbox

BusyIn(tasks) ==
  {c \in Chats : \E d \in Slots : tasks[d].chat = c /\ tasks[d].pc \notin {"gone", "recv", "retire"}}

MappedIn(tasks, map) ==
  \A d \in Slots : tasks[d].pc # "gone" => tasks[d].chat \in Chats /\ map[tasks[d].chat] = d

LEMMA MailboxState ==
  /\ Mail = [c \in Chats |-> MailOf(drivers, c)] /\ Mail' = [c \in Chats |-> MailOf(drivers', c)]
  /\ Busy = BusyIn(drivers) /\ Busy' = BusyIn(drivers')
<1>1. Mail = [c \in Chats |-> MailOf(drivers, c)]
  BY DEF Mail, MailOf, Running, Closed
<1>2. Mail' = [c \in Chats |-> MailOf(drivers', c)]
  BY DEF Mail, MailOf, Running, Closed
<1>3. Busy = BusyIn(drivers) /\ Busy' = BusyIn(drivers')
  BY DEF Busy, BusyIn, InTurn
<1> QED
  BY <1>1, <1>2, <1>3

(* The mail of a chat is the inbox of its one running task. *)
LEMMA InboxOfChat ==
  ASSUME NEW tasks, NEW map, MappedIn(tasks, map), NEW d \in Slots, tasks[d].pc # "gone"
  PROVE  /\ MailOf(tasks, tasks[d].chat) = tasks[d].inbox
         /\ tasks[d].chat \in BusyIn(tasks) <=> tasks[d].pc \notin {"gone", "recv", "retire"}
<1> DEFINE running == {e \in Slots : tasks[e].chat = tasks[d].chat /\ ~(tasks[e].pc = "gone")}
<1>1. running = {d}
  BY DEF MappedIn
<1>2. MailOf(tasks, tasks[d].chat) = tasks[CHOOSE e \in running : TRUE].inbox
  BY <1>1 DEF MailOf
<1>3. (CHOOSE e \in running : TRUE) = d
  BY <1>1
<1>4. tasks[d].chat \in BusyIn(tasks) <=> tasks[d].pc \notin {"gone", "recv", "retire"}
  BY DEF MappedIn, BusyIn
<1> HIDE DEF running
<1> QED
  BY <1>2, <1>3, <1>4

LEMMA NoInbox ==
  ASSUME NEW tasks, NEW c, \A d \in Slots : tasks[d].chat = c => tasks[d].pc = "gone"
  PROVE  MailOf(tasks, c) = <<>> /\ c \notin BusyIn(tasks)
  BY DEF MailOf, BusyIn

(* A chat none of whose tasks changes keeps its mail. *)
LEMMA OtherChat ==
  ASSUME NEW before, NEW after, NEW c,
         \A d \in Slots : \/ after[d] = before[d]
                          \/ /\ before[d].pc = "gone" \/ before[d].chat # c
                             /\ after[d].pc = "gone" \/ after[d].chat # c
  PROVE  MailOf(after, c) = MailOf(before, c) /\ (c \in BusyIn(after) <=> c \in BusyIn(before))
<1> DEFINE running(t) == {d \in Slots : t[d].chat = c /\ ~(t[d].pc = "gone")}
<1>1. running(after) = running(before)
  OBVIOUS
<1>2. \A d \in running(before) : after[d] = before[d]
  OBVIOUS
<1>3. running(before) # {} => (CHOOSE d \in running(before) : TRUE) \in running(before)
  OBVIOUS
<1>4. MailOf(after, c) = IF running(after) = {} THEN <<>>
                         ELSE after[CHOOSE d \in running(after) : TRUE].inbox
  BY DEF MailOf
<1>5. MailOf(before, c) = IF running(before) = {} THEN <<>>
                          ELSE before[CHOOSE d \in running(before) : TRUE].inbox
  BY DEF MailOf
<1>6. c \in BusyIn(after) <=> c \in BusyIn(before)
  BY DEF BusyIn
<1> HIDE DEF running
<1> QED
  BY <1>1, <1>2, <1>3, <1>4, <1>5, <1>6

(* What a task that runs does to the mailbox of its chat. *)
LEMMA MailboxMoves ==
  ASSUME Inv, Inv', NEW d \in Slots, ~Closed(d), NEW r \in Tasks, Put(d, r),
         r.pc = "gone" \/ r.chat = drivers[d].chat, UNCHANGED driverOf,
         NEW c, c = drivers[d].chat
  PROVE  /\ c \in Chats /\ Mail[c] = drivers[d].inbox
         /\ Mail' = [Mail EXCEPT ![c] = IF r.pc = "gone" THEN <<>> ELSE r.inbox]
         /\ c \in Busy <=> drivers[d].pc \in InATurn
         /\ Busy' = IF r.pc \in InATurn THEN Busy \cup {c} ELSE Busy \ {c}
<1>1. MappedIn(drivers, driverOf) /\ MappedIn(drivers', driverOf)
  BY DEF Inv, DriversMapped, MappedIn
<1>2. /\ drivers'[d] = r /\ \A e \in Slots \ {d} : drivers'[e] = drivers[e]
      /\ drivers[d] \in Tasks /\ drivers[d].pc # "gone"
  BY DEF Put, Inv, Typed, Tasks, Closed
<1>3. c \in Chats /\ MailOf(drivers, c) = drivers[d].inbox
      /\ (c \in BusyIn(drivers) <=> drivers[d].pc \in InATurn)
  BY <1>1, <1>2, InboxOfChat DEF MappedIn, InATurn, Tasks
<1>4. /\ MailOf(drivers', c) = IF r.pc = "gone" THEN <<>> ELSE r.inbox
      /\ c \in BusyIn(drivers') <=> r.pc \in InATurn
  <2>1. CASE r.pc = "gone"
    <3>1. \A e \in Slots : drivers'[e].chat = c => drivers'[e].pc = "gone"
      BY <1>1, <1>2, <2>1 DEF MappedIn
    <3> QED
      BY <3>1, <2>1, NoInbox DEF InATurn
  <2>2. CASE r.pc # "gone"
    BY <1>1, <1>2, <2>2, InboxOfChat DEF InATurn, Tasks
  <2> QED
    BY <2>1, <2>2
<1>5. ASSUME NEW b \in Chats \ {c}
      PROVE  MailOf(drivers', b) = MailOf(drivers, b)
             /\ (b \in BusyIn(drivers') <=> b \in BusyIn(drivers))
  BY <1>2, <1>5, OtherChat
<1>6. BusyIn(drivers) \subseteq Chats /\ BusyIn(drivers') \subseteq Chats
  BY DEF BusyIn
<1>7. Busy' = IF r.pc \in InATurn THEN Busy \cup {c} ELSE Busy \ {c}
  BY <1>3, <1>4, <1>5, <1>6, MailboxState
<1>8. Mail' = [Mail EXCEPT ![c] = IF r.pc = "gone" THEN <<>> ELSE r.inbox]
  BY <1>3, <1>4, <1>5, MailboxState
<1> QED
  BY <1>3, <1>7, <1>8, MailboxState

(* A new task for a chat that had none. *)
LEMMA MailboxSpawns ==
  ASSUME Inv, Inv', NEW c \in Chats, NEW inbox \in Seq(Nat), FreeSlots # {},
         \A d \in Slots : driverOf[c] = d => Closed(d),
         Put(NewSlot, Fresh(c, inbox))
  PROVE  /\ Mail[c] = <<>> /\ Mail' = [Mail EXCEPT ![c] = inbox]
         /\ Busy' = Busy
<1> DEFINE n == NewSlot
<1>1. n \in Slots /\ drivers[n].pc = "gone"
  BY NewSlotIsFree DEF Closed
<1>2. drivers'[n] = Fresh(c, inbox) /\ \A e \in Slots \ {n} : drivers'[e] = drivers[e]
  BY <1>1 DEF Put, Inv, Typed
<1>3. Fresh(c, inbox).chat = c /\ Fresh(c, inbox).pc = "recv" /\ Fresh(c, inbox).inbox = inbox
  BY DEF Fresh
<1> HIDE DEF n
<1>4. \A e \in Slots : drivers[e].chat = c => drivers[e].pc = "gone"
  BY DEF Inv, DriversMapped, Closed
<1>5. MailOf(drivers, c) = <<>> /\ c \notin BusyIn(drivers)
  BY <1>4, NoInbox
<1>6. MappedIn(drivers', driverOf')
  BY DEF Inv, DriversMapped, MappedIn
<1>7. MailOf(drivers', c) = inbox /\ c \notin BusyIn(drivers')
  <2>1. drivers'[n].pc # "gone" /\ drivers'[n].chat = c
    BY <1>2, <1>3
  <2> QED
    BY <1>1, <1>2, <1>3, <1>6, <2>1, InboxOfChat
<1>8. ASSUME NEW b \in Chats \ {c}
      PROVE  MailOf(drivers', b) = MailOf(drivers, b)
             /\ (b \in BusyIn(drivers') <=> b \in BusyIn(drivers))
  BY <1>1, <1>2, <1>3, <1>8, OtherChat
<1>9. BusyIn(drivers) \subseteq Chats /\ BusyIn(drivers') \subseteq Chats
  BY DEF BusyIn
<1>10. Busy' = Busy
  <2>1. \A b \in Chats : b \in BusyIn(drivers') <=> b \in BusyIn(drivers)
    BY <1>5, <1>7, <1>8
  <2>2. BusyIn(drivers') = BusyIn(drivers)
    BY <1>9, <2>1
  <2> QED
    BY <2>2, MailboxState
<1>11. Mail[c] = <<>> /\ Mail' = [Mail EXCEPT ![c] = inbox]
  BY <1>5, <1>7, <1>8, MailboxState
<1> QED
  BY <1>10, <1>11

-----------------------------------------------------------------------------
(* What was accepted stays older than what comes. *)

LEMMA OlderStill ==
  ASSUME NEW history, NEW tasks, NEW n \in Int, NEW k \in Int, n <= k,
         history \in [Chats -> Seq(Nat)], tasks \in [Slots -> Tasks],
         OlderThan(history, tasks, n)
  PROVE  OlderThan(history, tasks, k)
<1>1. \A c \in Chats : \A i \in 1..Len(history[c]) : history[c][i] \in Nat
  BY ElementOf
<1>2. \A d \in Slots : \A i \in 1..Len(tasks[d].inbox) : tasks[d].inbox[i] \in Nat
  BY ElementOf DEF Tasks
<1> QED
  BY <1>1, <1>2 DEF OlderThan

(* The next answer reaches at least as far. *)
LEMMA OlderAnswer ==
  ASSUME NEW history, NEW tasks, NEW from \in Nat, NEW to \in Nat, from <= to,
         history \in [Chats -> Seq(Nat)], tasks \in [Slots -> Tasks],
         OlderThan(history, tasks, from + BatchSize)
  PROVE  OlderThan(history, tasks, to + BatchSize)
<1>1. BatchSize \in Nat
  BY TelegramAssumption
<1>2. from + BatchSize \in Int /\ to + BatchSize \in Int /\ from + BatchSize <= to + BatchSize
  BY <1>1
<1> QED
  BY <1>2, OlderStill

(* A task whose inbox keeps its messages or loses them. *)
LEMMA OlderMoves ==
  ASSUME NEW history, NEW before, NEW after, NEW n, OlderThan(history, before, n),
         \A d \in Slots : after[d].inbox = before[d].inbox \/ after[d].inbox = <<>>
  PROVE  OlderThan(history, after, n)
<1>1. ASSUME NEW d \in Slots, NEW i \in 1..Len(after[d].inbox)
      PROVE  after[d].inbox[i] < n
  <2>1. after[d].inbox = before[d].inbox
    BY <1>1
  <2> QED
    BY <2>1, <1>1 DEF OlderThan
<1> QED
  BY <1>1 DEF OlderThan

(* A message is taken: it moves from the inbox to the history. *)
LEMMA OlderTaken ==
  ASSUME Inv, NEW n, served \in [Chats -> Seq(Nat)], OlderThan(served, drivers, n),
         NEW d \in Slots, ~Closed(d), drivers[d].inbox # <<>>, Take(d)
  PROVE  OlderThan(served', drivers', n) /\ served' \in [Chats -> Seq(Nat)]
<1> DEFINE c == drivers[d].chat
           s == drivers[d].inbox
<1>1. c \in Chats /\ s \in Seq(Nat) /\ s # <<>>
  BY DEF Inv, Typed, DriversMapped, Closed
<1>2. /\ Head(s) \in Nat /\ Head(s) < n /\ Tail(s) \in Seq(Nat) /\ Len(Tail(s)) = Len(s) - 1
      /\ \A i \in 1..Len(Tail(s)) : Tail(s)[i] < n
  <2>1. \A i \in 1..Len(s) : s[i] < n
    BY DEF OlderThan
  <2>2. Head(s) = s[1] /\ 1 \in 1..Len(s) /\ Head(s) \in Nat
    BY <1>1
  <2>3. Tail(s) \in Seq(Nat) /\ Len(Tail(s)) = Len(s) - 1
        /\ \A i \in 1..Len(Tail(s)) : Tail(s)[i] = s[i + 1] /\ i + 1 \in 1..Len(s)
    BY <1>1
  <2> HIDE DEF s
  <2> QED
    BY <2>1, <2>2, <2>3
<1>3. drivers' = [drivers EXCEPT ![d] = Taken(drivers[d], Head(s))]
      /\ served' = [served EXCEPT ![c] = Append(@, Head(s))]
  BY DEF Take, Put
<1>4. Taken(drivers[d], Head(s)).inbox = Tail(s)
  BY DEF Inv, Typed, Taken
<1>5. drivers'[d].inbox = Tail(s) /\ \A e \in Slots \ {d} : drivers'[e] = drivers[e]
  BY <1>3, <1>4 DEF Inv, Typed
<1> HIDE DEF c, s
<1>6. /\ served'[c] = Append(served[c], Head(s)) /\ \A b \in Chats \ {c} : served'[b] = served[b]
      /\ served' \in [Chats -> Seq(Nat)]
  BY <1>1, <1>2, <1>3
<1>7. ASSUME NEW i \in 1..Len(served'[c]) PROVE served'[c][i] < n
  <2>1. served[c] \in Seq(Nat) /\ \A j \in 1..Len(served[c]) : served[c][j] < n
    BY <1>1 DEF OlderThan
  <2>2. /\ Len(served'[c]) = Len(served[c]) + 1
        /\ \A j \in 1..Len(served[c]) : served'[c][j] = served[c][j]
        /\ served'[c][Len(served[c]) + 1] = Head(s)
    BY <1>2, <1>6, <2>1
  <2>3. i \in 1..Len(served[c]) \/ i = Len(served[c]) + 1
    BY <2>1, <2>2
  <2> QED
    BY <1>2, <2>1, <2>2, <2>3
<1> QED
  BY <1>2, <1>5, <1>6, <1>7 DEF OlderThan

(* A message is put into an inbox. *)
LEMMA OlderPut ==
  ASSUME NEW history, NEW before, NEW after, NEW n \in Int, NEW u \in Nat,
         NEW d \in Slots, NEW s \in Seq(Nat), s = before[d].inbox \/ s = <<>>,
         after[d].inbox = Append(s, u), \A e \in Slots \ {d} : after[e] = before[e],
         OlderThan(history, before, n), u < n
  PROVE  OlderThan(history, after, n)
<1>1. ASSUME NEW i \in 1..Len(after[d].inbox) PROVE after[d].inbox[i] < n
  <2>1. CASE i = Len(s) + 1
    BY <2>1
  <2>2. CASE i # Len(s) + 1
    <3>1. i \in 1..Len(s) /\ after[d].inbox[i] = s[i]
      BY <1>1, <2>2
    <3>2. s = before[d].inbox
      BY <3>1
    <3> QED
      BY <3>1, <3>2 DEF OlderThan
  <2> QED
    BY <2>1, <2>2
<1> QED
  BY <1>1 DEF OlderThan

LEMMA AnswerInOrder ==
  ASSUME NEW from \in Nat \ {0}, updates \in Seq([chat : Chats, kind : UpdateKinds]),
         NEW s, s = Answer(from)
  PROVE  /\ s \in Seq(Nat)
         /\ \A i \in 1..Len(s) : s[i] = from + i - 1 /\ s[i] < from + BatchSize
         /\ s = <<>> => Len(updates) < from
         /\ s # <<>> => s[Len(s)] + 1 = from + BatchSize \/ s[Len(s)] = Len(updates)
<1> DEFINE upto == IF from + BatchSize - 1 > Len(updates) THEN Len(updates)
                   ELSE from + BatchSize - 1
           n == upto - from + 1
<1>1. Len(updates) \in Nat /\ BatchSize \in Nat \ {0}
  BY TelegramAssumption
<1>2. /\ upto \in Int /\ upto <= from + BatchSize - 1 /\ n \in Int
      /\ upto = Len(updates) \/ upto = from + BatchSize - 1
  BY <1>1
<1>3. s = [i \in 1..n |-> from + i - 1]
  BY DEF Answer
<1> HIDE DEF upto
<1>4. CASE n <= 0
  <2>1. s = <<>>
    BY <1>2, <1>3, <1>4
  <2>2. Len(updates) < from
    BY <1>1, <1>2, <1>4
  <2> QED
    BY <2>1, <2>2
<1>5. CASE n > 0
  <2>1. n \in Nat /\ \A i \in 1..n : from + i - 1 \in Nat
    BY <1>2, <1>5
  <2>2. s \in Seq(Nat) /\ Len(s) = n
    BY <1>3, <2>1
  <2>3. s # <<>> /\ \A i \in 1..Len(s) : s[i] = from + i - 1
    BY <1>3, <1>5, <2>1, <2>2
  <2>4. \A i \in 1..Len(s) : s[i] < from + BatchSize
    BY <1>1, <1>2, <2>2, <2>3
  <2>5. s[Len(s)] = upto
    BY <1>2, <1>5, <2>2, <2>3
  <2> QED
    BY <1>1, <1>2, <2>2, <2>3, <2>4, <2>5
<1> QED
  BY <1>2, <1>4, <1>5

LEMMA MailTypes ==
  ASSUME MailInv
  PROVE  /\ Inv /\ drivers \in [Slots -> Tasks] /\ served \in [Chats -> Seq(Nat)]
         /\ batch \in Seq(Nat) /\ confirmed \in Nat \ {0} /\ offset \in Nat
         /\ Len(updates) \in Nat /\ BatchSize \in Nat \ {0}
         /\ dpc # "poll" => Head(batch) \in Nat /\ Head(batch) <= Len(updates) /\ batch # <<>>
  BY HeadPosted, TelegramAssumption DEF MailInv, Inv, Typed, Tasks

(* A step of a task that keeps what is accepted. *)
LEMMA ServeKeepsOrder ==
  ASSUME MailInv, Inv', UNCHANGED <<updates, confirmed, dispatcher, replayed>>,
         served' \in [Chats -> Seq(Nat)],
         \A n : OlderThan(served, drivers, n) => OlderThan(served', drivers', n)
  PROVE  MailInv'
<1>1. Due' = Due
  BY DEF Due, Confirm, dispatcher
<1>2. InOrder'
  BY <1>1 DEF MailInv, InOrder
<1>3. BatchInOrder'
  BY DEF MailInv, BatchInOrder, dispatcher
<1> QED
  BY <1>2, <1>3 DEF MailInv

(* The head of the batch leaves it for an inbox, or is dropped. *)
LEMMA RoutedInOrder ==
  ASSUME MailInv, Inv', dpc # "poll", Routed, Head(batch) < offset',
         UNCHANGED <<updates, confirmed, served, replayed>>,
         \A n \in Int : Head(batch) < n /\ OlderThan(served, drivers, n)
                       => OlderThan(served, drivers', n)
  PROVE  MailInv'
<1>1. /\ batch \in Seq(Nat) /\ batch # <<>> /\ Head(batch) = batch[1] /\ Head(batch) \in Nat
      /\ Head(batch) <= Len(updates) /\ Len(updates) \in Nat /\ confirmed \in Nat
      /\ BatchSize \in Nat
  BY MailTypes
<1>2. /\ batch' \in Seq(Nat) /\ Len(batch') = Len(batch) - 1
      /\ \A i \in 1..Len(batch') : batch'[i] = batch[i + 1] /\ i + 1 \in 1..Len(batch)
  BY <1>1 DEF Routed
<1>3. /\ \A i, j \in 1..Len(batch) : i < j => batch[i] < batch[j]
      /\ \A i \in 1..Len(batch) : batch[i] < confirmed + BatchSize
  BY DEF MailInv, BatchInOrder
<1>4. BatchInOrder'
  <2>1. ASSUME NEW i \in 1..Len(batch'), NEW j \in 1..Len(batch'), i < j
        PROVE  batch'[i] < batch'[j]
    <3>1. i + 1 \in 1..Len(batch) /\ j + 1 \in 1..Len(batch) /\ i + 1 < j + 1
      BY <1>2, <2>1
    <3> QED
      BY <1>2, <1>3, <3>1
  <2>2. \A i \in 1..Len(batch') : batch'[i] < confirmed' + BatchSize
    BY <1>2, <1>3
  <2> QED
    BY <2>1, <2>2 DEF BatchInOrder, Routed
<1>5. Due' \in Int /\ Head(batch) < Due'
  <2>1. CASE batch' = <<>>
    <3>1. dpc' = "poll" /\ offset' \in Nat /\ confirmed' \in Nat
      BY <2>1 DEF Routed, Inv, Typed
    <3>2. Due' = IF offset' > confirmed' THEN offset' ELSE confirmed'
      BY <3>1 DEF Due, Confirm
    <3> QED
      BY <1>1, <3>1, <3>2
  <2>2. CASE batch' # <<>>
    <3>1. dpc' = "route" /\ Due' = Head(batch')
      BY <2>2 DEF Routed, Due
    <3>2. Head(batch') = batch'[1] /\ 1 \in 1..Len(batch') /\ batch'[1] = batch[2]
          /\ 2 \in 1..Len(batch) /\ 1 \in 1..Len(batch) /\ batch[2] \in Nat
      BY <1>1, <1>2, <2>2, ElementOf
    <3> QED
      BY <1>1, <1>3, <3>1, <3>2
  <2> QED
    BY <2>1, <2>2
<1>6. Due = Head(batch)
  BY DEF Due
<1>7. ASSUME ~replayed, NEW n \in Int, Head(batch) < n
      PROVE  OlderThan(served, drivers', n)
  <2>1. OlderThan(served, drivers, Head(batch))
    BY <1>6, <1>7 DEF MailInv, InOrder
  <2>2. OlderThan(served, drivers, n)
    BY <1>1, <1>7, <2>1, OlderStill, MailTypes
  <2> QED
    BY <1>7, <2>2
<1>8. Head(batch) < confirmed + BatchSize /\ Head(batch) < Len(updates) + 1
  BY <1>1, <1>3
<1>9. InOrder'
  <2>1. confirmed + BatchSize \in Int /\ Len(updates) + 1 \in Int
    BY <1>1
  <2> QED
    BY <1>5, <1>7, <1>8, <2>1 DEF InOrder
<1> QED
  BY <1>4, <1>9 DEF MailInv

LEMMA GoFacts ==
  ASSUME Inv, NEW d \in Slots, NEW pc \in Places, Go(d, pc)
  PROVE  /\ Put(d, [drivers[d] EXCEPT !.pc = pc]) /\ [drivers[d] EXCEPT !.pc = pc] \in Tasks
         /\ [drivers[d] EXCEPT !.pc = pc].pc = pc
         /\ [drivers[d] EXCEPT !.pc = pc].chat = drivers[d].chat
         /\ [drivers[d] EXCEPT !.pc = pc].inbox = drivers[d].inbox
         /\ \A e \in Slots : drivers'[e].inbox = drivers[e].inbox
<1>1. drivers[d] \in Tasks
  BY TaskFacts DEF Inv
<1>2. drivers' = [drivers EXCEPT ![d] = [drivers[d] EXCEPT !.pc = pc]]
  BY DEF Go, Put
<1>3. \A e \in Slots : drivers'[e].inbox = drivers[e].inbox
  BY <1>1, <1>2 DEF Inv, Typed, Tasks
<1> QED
  BY <1>1, <1>2, <1>3 DEF Put, Tasks

LEMMA EndFacts ==
  ASSUME Inv, NEW d \in Slots, Put(d, Gone)
  PROVE  \A e \in Slots : drivers'[e].inbox = drivers[e].inbox \/ drivers'[e].inbox = <<>>
  BY DEF Inv, Typed, Put, Gone

LEMMA MailInit == Init => MailInv
<1> SUFFICES ASSUME Init PROVE MailInv
  OBVIOUS
<1>1. Inv
  BY InvInit
<1>2. Len(updates) <= MaxUpdates /\ served \in [Chats -> Seq(Nat)] /\ replayed \in BOOLEAN
  <2>1. Len(<<>>) = 0 /\ 0 <= MaxUpdates
    BY TelegramAssumption
  <2>2. served \in [Chats -> Seq(Nat)]
    BY DEF Init
  <2> QED
    BY <2>1, <2>2 DEF Init
<1>3. BatchInOrder
  BY DEF Init, BatchInOrder
<1>4. \A d \in Slots : drivers[d].inbox = <<>>
  BY DEF Init, Gone
<1>5. \A n : OlderThan(served, drivers, n)
  BY <1>4 DEF Init, OlderThan
<1> QED
  BY <1>1, <1>2, <1>3, <1>5 DEF MailInv, InOrder

LEMMA MailNext == MailInv /\ [Next]_vars => MailInv'
<1> SUFFICES ASSUME MailInv, [Next]_vars PROVE MailInv'
  OBVIOUS
<1>0. Inv'
  BY InvNext DEF MailInv
<1>a. /\ Inv /\ drivers \in [Slots -> Tasks] /\ served \in [Chats -> Seq(Nat)]
      /\ batch \in Seq(Nat) /\ confirmed \in Nat \ {0} /\ offset \in Nat
      /\ Len(updates) \in Nat /\ BatchSize \in Nat \ {0}
      /\ dpc # "poll" => Head(batch) \in Nat /\ Head(batch) <= Len(updates) /\ batch # <<>>
  BY MailTypes
<1>b. updates \in Seq([chat : Chats, kind : UpdateKinds])
  BY <1>a DEF Inv, Typed
<1>c. confirmed' \in Nat \ {0}
  BY <1>0 DEF Inv, Typed
<1>1. ASSUME NEW update \in Posts, Post(update) PROVE MailInv'
  <2>1. Len(updates') = Len(updates) + 1 /\ Len(updates') <= MaxUpdates
    BY <1>1, <1>b, TelegramAssumption DEF Post
  <2>2. Due' = Due /\ BatchInOrder'
    BY <1>1 DEF Post, Due, Confirm, dispatcher, MailInv, BatchInOrder
  <2>3. InOrder'
    <3>1. ASSUME ~replayed PROVE OlderThan(served, drivers, Len(updates') + 1)
      BY <1>a, <2>1, <3>1, OlderStill DEF MailInv, InOrder
    <3> QED
      BY <1>1, <2>2, <3>1 DEF Post, MailInv, InOrder
  <2> QED
    BY <1>0, <1>1, <2>1, <2>2, <2>3 DEF Post, MailInv
<1>2. CASE Poll
  <2>1. confirmed' = Confirm /\ batch' = Answer(confirmed')
    BY <1>2 DEF Poll
  <2>2. /\ batch' \in Seq(Nat)
        /\ \A i \in 1..Len(batch') : batch'[i] = confirmed' + i - 1
                                     /\ batch'[i] < confirmed' + BatchSize
    BY <1>b, <1>c, <2>1, AnswerInOrder
  <2>3. BatchInOrder'
    BY <1>2, <1>a, <1>c, <2>2 DEF Poll, BatchInOrder
  <2>4. confirmed <= confirmed' /\ offset <= confirmed'
    BY <1>a, <2>1 DEF Confirm
  <2>5. Due' = Due
    <3>1. Due = confirmed'
      BY <1>2, <2>1 DEF Poll, Due
    <3>2. CASE batch' = <<>>
      <4>1. dpc' = "poll" /\ offset' = offset
        BY <1>2, <3>2 DEF Poll
      <4>2. Due' = confirmed'
        BY <1>a, <1>c, <2>4, <4>1 DEF Due, Confirm
      <4> QED
        BY <3>1, <4>2
    <3>3. CASE batch' # <<>>
      <4>1. dpc' = "route" /\ Head(batch') = batch'[1] /\ 1 \in 1..Len(batch')
        BY <1>2, <2>2, <3>3 DEF Poll
      <4>2. batch'[1] = confirmed'
        BY <1>c, <2>2, <4>1
      <4> QED
        BY <3>1, <4>1, <4>2 DEF Due
    <3> QED
      BY <3>2, <3>3
  <2>6. InOrder'
    <3>1. ASSUME ~replayed PROVE OlderThan(served, drivers, confirmed' + BatchSize)
      <4>1. OlderThan(served, drivers, confirmed + BatchSize)
        BY <3>1 DEF MailInv, InOrder
      <4>2. confirmed \in Nat /\ confirmed' \in Nat
        BY <1>a, <1>c
      <4> QED
        BY <1>a, <2>4, <4>1, <4>2, OlderAnswer
    <3> QED
      BY <1>2, <2>5, <3>1 DEF Poll, MailInv, InOrder
  <2> QED
    BY <1>0, <1>2, <2>3, <2>6 DEF Poll, MailInv
<1>3. CASE PollFails
  <2>1. confirmed <= confirmed' /\ offset <= confirmed'
    BY <1>3, <1>a DEF PollFails, Confirm
  <2>2. Due' = Due
    BY <1>3, <1>a, <2>1 DEF PollFails, Due, Confirm, dispatcher
  <2>3. BatchInOrder'
    <3>1. \A i \in 1..Len(batch) : batch[i] \in Nat /\ batch[i] < confirmed + BatchSize
      BY <1>a, ElementOf DEF MailInv, BatchInOrder
    <3> QED
      BY <1>3, <1>a, <1>c, <2>1, <3>1 DEF PollFails, dispatcher, MailInv, BatchInOrder
  <2>4. InOrder'
    <3>1. ASSUME ~replayed PROVE OlderThan(served, drivers, confirmed' + BatchSize)
      <4>1. OlderThan(served, drivers, confirmed + BatchSize)
        BY <3>1 DEF MailInv, InOrder
      <4>2. confirmed \in Nat /\ confirmed' \in Nat
        BY <1>a, <1>c
      <4> QED
        BY <1>a, <2>1, <4>1, <4>2, OlderAnswer
    <3> QED
      BY <1>3, <2>2, <3>1 DEF PollFails, MailInv, InOrder
  <2> QED
    BY <1>0, <1>3, <2>3, <2>4 DEF PollFails, MailInv
<1>4. CASE Route
  <2> DEFINE c == updates[Head(batch)].chat
  <2>1. Head(batch) < offset' /\ dpc = "route" /\ UNCHANGED <<updates, confirmed, served, replayed>>
    BY <1>4, <1>a DEF Route
  <2>2. CASE Routed /\ UNCHANGED <<drivers, driverOf>>
    BY <1>0, <2>1, <2>2, RoutedInOrder
  <2>3. CASE target' \in Slots /\ dpc' = "gate" /\ batch' = batch
             /\ \A d \in Slots : drivers'[d].inbox = drivers[d].inbox \/ drivers'[d].inbox = <<>>
    <3>1. Due' = Due
      BY <2>1, <2>3 DEF Due
    <3>2. InOrder'
      BY <2>1, <2>3, <3>1, OlderMoves DEF MailInv, InOrder
    <3>3. BatchInOrder'
      BY <2>1, <2>3 DEF MailInv, BatchInOrder
    <3> QED
      BY <1>0, <2>1, <3>2, <3>3 DEF MailInv
  <2>4. CASE /\ HasDriver(c) /\ target' = driverOf[c] /\ dpc' = "gate"
             /\ UNCHANGED <<batch, drivers, driverOf>>
    BY <2>3, <2>4 DEF HasDriver
  <2>5. CASE /\ FreeSlots # {} /\ target' = NewSlot /\ dpc' = "gate"
             /\ Put(NewSlot, Fresh(c, <<>>)) /\ UNCHANGED batch
    <3>1. NewSlot \in Slots
      BY <2>5, NewSlotIsFree
    <3>2. Fresh(c, <<>>).inbox = <<>>
      BY DEF Fresh
    <3>3. \A d \in Slots : drivers'[d].inbox = drivers[d].inbox \/ drivers'[d].inbox = <<>>
      BY <1>a, <2>5, <3>1, <3>2 DEF Put
    <3> QED
      BY <2>3, <2>5, <3>1, <3>3
  <2> QED
    BY <1>4, <2>2, <2>4, <2>5 DEF Route
<1>5. CASE TakeGate
  <2>1. target \in Slots /\ Head(batch) < offset /\ Due' = Due
    BY <1>5 DEF TakeGate, MailInv, BatchInOrder, Due
  <2>2. BatchInOrder' /\ InOrder'
    BY <1>5, <2>1 DEF TakeGate, MailInv, BatchInOrder, InOrder
  <2> QED
    BY <1>0, <1>5, <2>2 DEF TakeGate, MailInv
<1>6. CASE Send
  <2>1. /\ target \in Slots /\ Head(batch) < offset' /\ dpc = "send" /\ Routed
        /\ UNCHANGED <<updates, confirmed, served, replayed>>
    BY <1>6 DEF Send, MailInv, BatchInOrder
  <2>2. /\ drivers'[target].inbox = Append(drivers[target].inbox, Head(batch))
        /\ \A e \in Slots \ {target} : drivers'[e] = drivers[e]
    BY <1>6, <1>a, <2>1 DEF Send, Put, Tasks
  <2>3. drivers[target].inbox \in Seq(Nat) /\ Head(batch) \in Nat
    BY <1>a, <2>1 DEF Tasks
  <2>4. \A n \in Int : Head(batch) < n /\ OlderThan(served, drivers, n)
                       => OlderThan(served, drivers', n)
    BY <2>1, <2>2, <2>3, OlderPut
  <2> QED
    BY <1>0, <2>1, <2>4, RoutedInOrder
<1>7. CASE Redeliver
  <2> DEFINE r == Fresh(updates[Head(batch)].chat, <<Head(batch)>>)
  <2>1. /\ Head(batch) < offset' /\ dpc = "send" /\ Routed /\ Head(batch) \in Nat
        /\ UNCHANGED <<updates, confirmed, served, replayed>>
    BY <1>7, <1>a DEF Redeliver, MailInv, BatchInOrder
  <2>2. NewSlot \in Slots /\ Put(NewSlot, r)
    BY <1>7, NewSlotIsFree DEF Redeliver
  <2>3. r.inbox = Append(<<>>, Head(batch)) /\ <<>> \in Seq(Nat)
    BY <2>1 DEF Fresh
  <2> HIDE DEF r
  <2>4. /\ drivers'[NewSlot].inbox = Append(<<>>, Head(batch))
        /\ \A e \in Slots \ {NewSlot} : drivers'[e] = drivers[e]
    BY <1>a, <2>2, <2>3 DEF Put
  <2>5. \A n \in Int : Head(batch) < n /\ OlderThan(served, drivers, n)
                       => OlderThan(served, drivers', n)
    BY <2>1, <2>2, <2>3, <2>4, OlderPut
  <2> QED
    BY <1>0, <2>1, <2>5, RoutedInOrder
<1>8. ASSUME NEW d \in Slots, Serve(d) \/ IdleTimeout(d) PROVE MailInv'
  <2>0. {"recv", "retire", "core", "reply", "stt", "voice_core"} \subseteq Places
    BY DEF Places
  <2>1. UNCHANGED <<updates, confirmed, dispatcher, replayed>>
    BY <1>8 DEF Serve, Recv, IdleTimeout, Retire, TakePermit, CoreAnswers, Reply, ReplyFails,
                VoiceMessage, Transcribed, VoiceAnswered
  <2>2. CASE ~Closed(d) /\ drivers[d].inbox # <<>> /\ Take(d)
    <3>1. \A n : OlderThan(served, drivers, n) => OlderThan(served', drivers', n)
      BY <1>a, <2>2, OlderTaken
    <3>2. served' \in [Chats -> Seq(Nat)]
      <4>1. drivers[d].chat \in Chats /\ drivers[d].inbox \in Seq(Nat)
        BY <1>a, <2>2 DEF Inv, DriversMapped, Closed, Tasks
      <4>2. Head(drivers[d].inbox) \in Nat
        BY <2>2, <4>1
      <4> QED
        BY <1>a, <2>2, <4>1, <4>2 DEF Take
    <3> QED
      BY <1>0, <2>1, <3>1, <3>2, ServeKeepsOrder
  <2>3. CASE (Put(d, Gone) \/ \E pc \in Places : Go(d, pc)) /\ served' = served
    <3>1. \A e \in Slots : drivers'[e].inbox = drivers[e].inbox \/ drivers'[e].inbox = <<>>
      BY <1>a, <2>3, GoFacts, EndFacts
    <3>2. \A n : OlderThan(served, drivers, n) => OlderThan(served', drivers', n)
      BY <2>3, <3>1, OlderMoves
    <3> QED
      BY <1>0, <1>a, <2>1, <2>3, <3>2, ServeKeepsOrder
  <2>4. CASE Recv(d) \/ Retire(d)
    BY <2>2, <2>3, <2>4 DEF Recv, Retire, Closed
  <2>5. CASE IdleTimeout(d)
    BY <2>0, <2>3, <2>5 DEF IdleTimeout, Go
  <2>6. CASE TakePermit(d) \/ CoreAnswers(d) \/ Reply(d) \/ ReplyFails(d)
    BY <2>0, <2>3, <2>6 DEF TakePermit, CoreAnswers, Reply, ReplyFails
  <2>7. CASE VoiceMessage(d) \/ Transcribed(d) \/ VoiceAnswered(d)
    BY <2>0, <2>3, <2>7 DEF VoiceMessage, Transcribed, VoiceAnswered
  <2> QED
    BY <1>8, <2>4, <2>5, <2>6, <2>7 DEF Serve
<1>9. CASE Crash
  <2>1. /\ UNCHANGED <<updates, confirmed, served>> /\ dpc' = "poll" /\ batch' = <<>>
        /\ \A d \in Slots : drivers'[d].inbox = <<>>
    BY <1>9 DEF Crash, Gone
  <2>2. \A n : OlderThan(served, drivers, n) => OlderThan(served, drivers', n)
    BY <2>1, OlderMoves
  <2>3. BatchInOrder'
    BY <2>1 DEF BatchInOrder
  <2>4. Due' \in Nat /\ confirmed <= Due' /\ offset' <= Due'
    <3>1. offset' \in Nat
      BY <1>0 DEF Inv, Typed
    <3> QED
      BY <1>a, <2>1, <3>1 DEF Due, Confirm
  <2>5. InOrder'
    <3> SUFFICES ASSUME ~replayed' PROVE InOrder'
      BY DEF InOrder
    <3>1. ~replayed /\ offset' = Bootstrap(Answer(confirmed))
      BY <1>9 DEF Crash
    <3>2. PICK s : s = Answer(confirmed)
      OBVIOUS
    <3>3. /\ s \in Seq(Nat)
          /\ s = <<>> => Len(updates) < confirmed
          /\ s # <<>> => s[Len(s)] + 1 = confirmed + BatchSize \/ s[Len(s)] = Len(updates)
      BY <1>a, <1>b, <3>2, AnswerInOrder
    <3>4. confirmed + BatchSize <= Due' \/ Len(updates) + 1 <= Due'
      BY <1>a, <2>4, <3>1, <3>2, <3>3 DEF Bootstrap
    <3>5. OlderThan(served, drivers, Due')
      BY <1>a, <2>4, <3>1, <3>4, OlderStill DEF MailInv, InOrder
    <3> QED
      BY <2>1, <2>2, <3>1, <3>5 DEF MailInv, InOrder
  <2>6. replayed' \in BOOLEAN
    BY <1>9 DEF Crash, MailInv
  <2> QED
    BY <1>0, <2>1, <2>3, <2>5, <2>6 DEF MailInv
<1>10. CASE UNCHANGED vars
  <2>1. Due' = Due
    BY <1>10 DEF vars, Due, Confirm
  <2> QED
    BY <1>0, <1>10, <2>1 DEF vars, MailInv, BatchInOrder, InOrder
<1> QED
  BY <1>1, <1>2, <1>3, <1>4, <1>5, <1>6, <1>7, <1>8, <1>9, <1>10 DEF Next, Dispatch

-----------------------------------------------------------------------------
(* Each step is one of the mailbox, or does not touch it. *)

MailboxStep == [Mailbox!Next]_Mailbox!mailboxVars

LEMMA MailStutters ==
  ASSUME Mail' = Mail, Busy' = Busy, UNCHANGED <<served, replayed>>
  PROVE  MailboxStep
  BY DEF MailboxStep, Mailbox!mailboxVars

(* Nothing of the tasks changes. *)
LEMMA TasksStutter ==
  ASSUME UNCHANGED <<drivers, served, replayed>>
  PROVE  MailboxStep
<1>1. Mail' = Mail /\ Busy' = Busy
  BY MailboxState
<1> QED
  BY <1>1, MailStutters

(* A task that goes on within its turn, or outside of one. *)
LEMMA TurnGoesOn ==
  ASSUME Inv, Inv', NEW d \in Slots, ~Closed(d), NEW pc \in Places, pc # "gone", Go(d, pc),
         drivers[d].pc \in InATurn <=> pc \in InATurn, UNCHANGED <<driverOf, served, replayed>>
  PROVE  MailboxStep
<1> DEFINE r == [drivers[d] EXCEPT !.pc = pc]
           c == drivers[d].chat
<1>1. Put(d, r) /\ r \in Tasks /\ r.pc = pc /\ r.chat = c /\ r.inbox = drivers[d].inbox
  BY GoFacts
<1> HIDE DEF r
<1>2. /\ c \in Chats /\ Mail[c] = drivers[d].inbox
      /\ Mail' = [Mail EXCEPT ![c] = IF r.pc = "gone" THEN <<>> ELSE r.inbox]
      /\ c \in Busy <=> drivers[d].pc \in InATurn
      /\ Busy' = IF r.pc \in InATurn THEN Busy \cup {c} ELSE Busy \ {c}
  BY <1>1, MailboxMoves
<1>3. Mail' = Mail
  BY <1>1, <1>2 DEF Mail
<1>4. Busy' = Busy
  BY <1>1, <1>2
<1> QED
  BY <1>3, <1>4, MailStutters

(* A task whose turn ends. *)
LEMMA TurnIsOver ==
  ASSUME Inv, Inv', NEW d \in Slots, ~Closed(d), drivers[d].pc \in InATurn, Go(d, "recv"),
         UNCHANGED <<driverOf, served, replayed>>
  PROVE  MailboxStep
<1> DEFINE r == [drivers[d] EXCEPT !.pc = "recv"]
           c == drivers[d].chat
<1>1. Put(d, r) /\ r \in Tasks /\ r.pc = "recv" /\ r.chat = c /\ r.inbox = drivers[d].inbox
  <2>1. "recv" \in Places
    BY DEF Places
  <2> QED
    BY <2>1, GoFacts
<1> HIDE DEF r
<1>2. /\ c \in Chats /\ Mail[c] = drivers[d].inbox
      /\ Mail' = [Mail EXCEPT ![c] = IF r.pc = "gone" THEN <<>> ELSE r.inbox]
      /\ c \in Busy <=> drivers[d].pc \in InATurn
      /\ Busy' = IF r.pc \in InATurn THEN Busy \cup {c} ELSE Busy \ {c}
  BY <1>1, MailboxMoves
<1>3. Mail' = Mail
  BY <1>1, <1>2 DEF Mail
<1>4. c \in Busy /\ Busy' = Busy \ {c}
  BY <1>1, <1>2 DEF InATurn
<1>5. Mailbox!Finish(c)
  BY <1>3, <1>4 DEF Mailbox!Finish
<1> QED
  BY <1>2, <1>5 DEF MailboxStep, Mailbox!Next

(* A task that ends: its reply failed to send, or its inbox is empty. *)
LEMMA TaskIsOver ==
  ASSUME Inv, Inv', NEW d \in Slots, ~Closed(d), Put(d, Gone),
         \/ drivers[d].pc \in InATurn
         \/ drivers[d].pc \notin InATurn /\ drivers[d].inbox = <<>>,
         UNCHANGED <<driverOf, served, replayed>>
  PROVE  MailboxStep
<1> DEFINE c == drivers[d].chat
<1>1. Gone \in Tasks /\ Gone.pc = "gone" /\ Gone.pc \notin InATurn
  BY GoneIsTask DEF InATurn
<1>2. /\ c \in Chats /\ Mail[c] = drivers[d].inbox
      /\ Mail' = [Mail EXCEPT ![c] = IF Gone.pc = "gone" THEN <<>> ELSE Gone.inbox]
      /\ c \in Busy <=> drivers[d].pc \in InATurn
      /\ Busy' = IF Gone.pc \in InATurn THEN Busy \cup {c} ELSE Busy \ {c}
  BY <1>1, MailboxMoves
<1>3. Mail' = [Mail EXCEPT ![c] = <<>>] /\ Busy' = Busy \ {c}
  BY <1>1, <1>2
<1>4. CASE drivers[d].pc \in InATurn
  <2>1. Mailbox!Abandon(c)
    BY <1>2, <1>3, <1>4 DEF Mailbox!Abandon
  <2> QED
    BY <1>2, <2>1 DEF MailboxStep, Mailbox!Next
<1>5. CASE drivers[d].pc \notin InATurn /\ drivers[d].inbox = <<>>
  <2>1. Busy' = Busy
    BY <1>2, <1>3, <1>5
  <2>2. Mail[c] = <<>> /\ c \in Chats
    BY <1>2, <1>5
  <2>3. PICK m : m = [b \in Chats |-> MailOf(drivers, b)]
    OBVIOUS
  <2>4. m[c] = <<>> /\ Mail = m
    BY <2>2, <2>3, MailboxState
  <2>5. [m EXCEPT ![c] = <<>>] = m
    BY <2>2, <2>3, <2>4
  <2> QED
    BY <1>3, <2>1, <2>4, <2>5, MailStutters
<1> QED
  BY <1>4, <1>5

(* A message is taken when no turn of its chat runs. *)
LEMMA MessageTaken ==
  ASSUME Inv, Inv', NEW d \in Slots, drivers[d].pc \in {"recv", "retire"},
         drivers[d].inbox # <<>>, Take(d), UNCHANGED <<driverOf, replayed>>
  PROVE  MailboxStep
<1> DEFINE c == drivers[d].chat
           u == Head(drivers[d].inbox)
           r == Taken(drivers[d], u)
<1>1. Put(d, r) /\ served' = [served EXCEPT ![c] = Append(@, u)]
  BY DEF Take
<1>2. drivers[d] \in Tasks /\ drivers[d].inbox \in Seq(Nat)
  BY TaskFacts DEF Inv, Tasks
<1>3. /\ r \in Tasks /\ r.chat = c /\ r.inbox = Tail(drivers[d].inbox)
      /\ r.pc # "gone"
  <2>1. Tail(drivers[d].inbox) \in Seq(Nat)
    BY <1>2
  <2>2. r \in Tasks /\ r.chat = c
    BY <1>2, <2>1 DEF Taken, Tasks, Places
  <2>3. r.inbox = Tail(drivers[d].inbox) /\ r.pc # "gone"
    BY <1>2, <2>1 DEF Taken, Tasks
  <2> QED
    BY <2>2, <2>3
<1>4. ~Closed(d) /\ drivers[d].pc \notin InATurn
  BY DEF Closed, InATurn
<1> HIDE DEF r
<1>5. /\ c \in Chats /\ Mail[c] = drivers[d].inbox
      /\ Mail' = [Mail EXCEPT ![c] = IF r.pc = "gone" THEN <<>> ELSE r.inbox]
      /\ c \in Busy <=> drivers[d].pc \in InATurn
      /\ Busy' = IF r.pc \in InATurn THEN Busy \cup {c} ELSE Busy \ {c}
  BY <1>1, <1>3, <1>4, MailboxMoves
<1>6. Mail[c] # <<>> /\ u = Head(Mail[c]) /\ Mail' = [Mail EXCEPT ![c] = Tail(@)]
  BY <1>3, <1>5
<1>7. c \notin Busy /\ Busy' \in {Busy, Busy \cup {c}}
  BY <1>4, <1>5
<1>8. served' = [served EXCEPT ![c] = Append(@, Head(Mail[c]))]
  BY <1>1, <1>6
<1>9. Mailbox!Take(c)
  BY <1>6, <1>7, <1>8 DEF Mailbox!Take
<1> QED
  BY <1>5, <1>9 DEF MailboxStep, Mailbox!Next

(* What is delivered is newer than all that the chat was given. *)
LEMMA DeliveryIsNewer ==
  ASSUME MailInv, dpc = "send", ~replayed, NEW c \in Chats, NEW d \in Slots,
         Mail[c] = drivers[d].inbox \/ Mail[c] = <<>>
  PROVE  Mailbox!IsNewer(c, Head(batch))
<1>1. OlderThan(served, drivers, Head(batch))
  BY DEF MailInv, InOrder, Due
<1>2. served[c] \in Seq(Nat) /\ drivers[d].inbox \in Seq(Nat) /\ Head(batch) \in Nat
  BY MailTypes DEF Tasks
<1>3. ASSUME NEW i \in DOMAIN served[c] PROVE Head(batch) > served[c][i]
  <2>1. i \in 1..Len(served[c]) /\ served[c][i] \in Nat
    BY <1>2, <1>3, ElementOf
  <2> QED
    BY <1>1, <1>2, <2>1 DEF OlderThan
<1>4. ASSUME NEW i \in DOMAIN Mail[c] PROVE Head(batch) > Mail[c][i]
  <2>1. Mail[c] = drivers[d].inbox
    BY <1>4
  <2>2. i \in 1..Len(drivers[d].inbox) /\ drivers[d].inbox[i] \in Nat
    BY <1>2, <1>4, <2>1, ElementOf
  <2> QED
    BY <1>1, <1>2, <2>1, <2>2 DEF OlderThan
<1> QED
  BY <1>3, <1>4 DEF Mailbox!IsNewer, Mailbox!ToSet

(* A message is accepted. *)
LEMMA MessageAccepted ==
  ASSUME MailInv, dpc = "send", NEW c \in Chats, NEW d \in Slots,
         Mail[c] = drivers[d].inbox \/ Mail[c] = <<>>, Len(Mail[c]) < InboxSize,
         Mail' = [Mail EXCEPT ![c] = Append(@, Head(batch))], Busy' = Busy,
         UNCHANGED <<served, replayed>>
  PROVE  MailboxStep
<1>1. Head(batch) \in 1..MaxUpdates
  <2>1. Head(batch) \in 1..Len(updates) /\ Len(updates) \in Nat /\ Len(updates) <= MaxUpdates
        /\ MaxUpdates \in Nat
    BY HeadPosted, MailTypes, TelegramAssumption DEF MailInv
  <2> QED
    BY <2>1
<1>2. Mailbox!IsNewer(c, Head(batch)) \/ replayed
  BY DeliveryIsNewer
<1>3. Mailbox!Accept(c)
  BY <1>1, <1>2 DEF Mailbox!Accept
<1> QED
  BY <1>3 DEF MailboxStep, Mailbox!Next

LEMMA MailboxInit == Init => Mailbox!Init
<1> SUFFICES ASSUME Init PROVE Mailbox!Init
  OBVIOUS
<1>1. \A d \in Slots : drivers[d].pc = "gone"
  BY DEF Init, Gone
<1>2. \A c \in Chats : MailOf(drivers, c) = <<>> /\ c \notin BusyIn(drivers)
  BY <1>1, NoInbox
<1>3. Mail = [c \in Chats |-> <<>>]
  BY <1>2, MailboxState
<1>4. Busy = {}
  BY <1>1 DEF Busy, InTurn
<1> QED
  BY <1>3, <1>4 DEF Init, Mailbox!Init

LEMMA MailboxNext == MailInv /\ [Next]_vars => MailboxStep
<1> SUFFICES ASSUME MailInv, [Next]_vars PROVE MailboxStep
  OBVIOUS
<1>0. Inv /\ Inv'
  BY InvNext DEF MailInv
<1>1. ASSUME NEW update \in Posts, Post(update) PROVE MailboxStep
  BY <1>1, TasksStutter DEF Post
<1>2. CASE Poll \/ PollFails \/ TakeGate
  BY <1>2, TasksStutter DEF Poll, PollFails, TakeGate
<1>3. CASE Route
  <2> DEFINE c == updates[Head(batch)].chat
  <2>1. c \in Chats /\ UNCHANGED <<served, replayed>>
    BY <1>0, <1>3, HeadPosted DEF Route
  <2>2. CASE UNCHANGED drivers
    BY <2>1, <2>2, TasksStutter
  <2>3. CASE ~HasDriver(c) /\ FreeSlots # {} /\ Put(NewSlot, Fresh(c, <<>>))
    <3>1. \A d \in Slots : driverOf[c] = d => Closed(d)
      BY <2>3 DEF HasDriver
    <3>2. <<>> \in Seq(Nat)
      OBVIOUS
    <3> HIDE DEF c
    <3>3. Mail[c] = <<>> /\ Mail' = [Mail EXCEPT ![c] = <<>>] /\ Busy' = Busy
      BY <1>0, <2>1, <2>3, <3>1, <3>2, MailboxSpawns
    <3>4. PICK m : m = [b \in Chats |-> MailOf(drivers, b)]
      OBVIOUS
    <3>5. m[c] = <<>> /\ Mail = m
      BY <3>3, <3>4, MailboxState
    <3>6. [m EXCEPT ![c] = <<>>] = m
      BY <2>1, <3>4, <3>5
    <3> QED
      BY <2>1, <3>3, <3>5, <3>6, MailStutters
  <2> QED
    BY <1>3, <2>2, <2>3 DEF Route
<1>4. CASE Send
  <2> DEFINE r == [drivers[target] EXCEPT !.inbox = Append(@, Head(batch))]
             c == drivers[target].chat
  <2>1. /\ target \in Slots /\ ~Closed(target) /\ dpc = "send" /\ Put(target, r)
        /\ Len(drivers[target].inbox) < InboxSize /\ UNCHANGED <<driverOf, served, replayed>>
    BY <1>4 DEF Send, MailInv, BatchInOrder
  <2>2. drivers[target] \in Tasks /\ Append(drivers[target].inbox, Head(batch)) \in Seq(Nat)
    <3>1. Head(batch) \in Nat /\ drivers[target] \in Tasks
      BY <2>1, MailTypes
    <3> QED
      BY <3>1 DEF Tasks
  <2>3. /\ r \in Tasks /\ r.chat = c /\ r.inbox = Append(drivers[target].inbox, Head(batch))
        /\ r.pc = drivers[target].pc /\ r.pc # "gone"
    BY <2>1, <2>2 DEF Tasks, Closed
  <2> HIDE DEF r
  <2>4. /\ c \in Chats /\ Mail[c] = drivers[target].inbox
        /\ Mail' = [Mail EXCEPT ![c] = IF r.pc = "gone" THEN <<>> ELSE r.inbox]
        /\ c \in Busy <=> drivers[target].pc \in InATurn
        /\ Busy' = IF r.pc \in InATurn THEN Busy \cup {c} ELSE Busy \ {c}
    BY <1>0, <2>1, <2>3, MailboxMoves
  <2>5. Mail' = [Mail EXCEPT ![c] = Append(@, Head(batch))] /\ Busy' = Busy
    BY <2>3, <2>4
  <2> QED
    BY <2>1, <2>4, <2>5, MessageAccepted
<1>5. CASE Redeliver
  <2> DEFINE c == updates[Head(batch)].chat
             u == Head(batch)
  <2>1. /\ c \in Chats /\ u \in Nat /\ dpc = "send" /\ target \in Slots
        /\ UNCHANGED <<served, replayed>> /\ FreeSlots # {} /\ Put(NewSlot, Fresh(c, <<u>>))
    BY <1>0, <1>5, HeadPosted DEF Redeliver, MailInv, BatchInOrder
  <2>2. \A d \in Slots : driverOf[c] = d => Closed(d)
    BY <1>0, <1>5 DEF Redeliver, Inv, TargetMapped
  <2>3. <<u>> \in Seq(Nat) /\ Append(<<>>, u) = <<u>> /\ Len(<<>>) = 0 /\ 0 < InboxSize
    BY <2>1, TelegramAssumption
  <2> HIDE DEF c, u
  <2>4. Mail[c] = <<>> /\ Mail' = [Mail EXCEPT ![c] = <<u>>] /\ Busy' = Busy
    BY <1>0, <2>1, <2>2, <2>3, MailboxSpawns
  <2>5. Mail' = [Mail EXCEPT ![c] = Append(@, u)] /\ Len(Mail[c]) < InboxSize
    BY <2>3, <2>4
  <2> QED
    BY <2>1, <2>4, <2>5, MessageAccepted DEF u
<1>6. ASSUME NEW d \in Slots, Serve(d) \/ IdleTimeout(d) PROVE MailboxStep
  <2>0. /\ InATurn = {"permit", "core", "reply", "voice_permit", "stt", "voice_core"}
        /\ InATurn \subseteq Places /\ {"recv", "retire"} \subseteq Places
    BY DEF InATurn, Places
  <2>1. UNCHANGED <<driverOf, replayed>>
    BY <1>6 DEF Serve, Recv, IdleTimeout, Retire, TakePermit, CoreAnswers, Reply, ReplyFails,
                VoiceMessage, Transcribed, VoiceAnswered
  <2>2. CASE ~Closed(d) /\ drivers[d].pc \in InATurn /\ Go(d, "recv") /\ UNCHANGED served
    BY <1>0, <2>1, <2>2, TurnIsOver
  <2>3. CASE /\ ~Closed(d) /\ UNCHANGED served
             /\ \E pc \in Places \ {"gone"} : Go(d, pc) /\ (drivers[d].pc \in InATurn <=> pc \in InATurn)
    BY <1>0, <2>1, <2>3, TurnGoesOn
  <2>4. CASE Recv(d)
    BY <1>0, <2>1, <2>4, MessageTaken DEF Recv
  <2>5. CASE IdleTimeout(d)
    BY <2>0, <2>3, <2>5 DEF IdleTimeout, Closed, Go
  <2>6. CASE Retire(d)
    <3>1. CASE drivers[d].inbox # <<>> /\ Take(d)
      BY <1>0, <2>1, <2>6, <3>1, MessageTaken DEF Retire
    <3>2. CASE drivers[d].inbox = <<>> /\ Put(d, Gone) /\ UNCHANGED served
      BY <1>0, <2>0, <2>1, <2>6, <3>2, TaskIsOver DEF Retire, Closed
    <3> QED
      BY <2>6, <3>1, <3>2 DEF Retire
  <2>7. CASE TakePermit(d)
    BY <2>0, <2>3, <2>7 DEF TakePermit, Closed
  <2>8. CASE CoreAnswers(d)
    <3>1. drivers[d].pc = "core" /\ ~Closed(d) /\ UNCHANGED served /\ (Go(d, "reply") \/ Go(d, "recv"))
      BY <2>8 DEF CoreAnswers, Closed
    <3> QED
      BY <2>0, <2>2, <2>3, <3>1
  <2>9. CASE Reply(d)
    BY <2>0, <2>2, <2>9 DEF Reply, Closed
  <2>10. CASE ReplyFails(d)
    BY <1>0, <2>0, <2>1, <2>10, TaskIsOver DEF ReplyFails, Closed
  <2>11. CASE VoiceMessage(d)
    <3>1. /\ drivers[d].pc = "voice_permit" /\ ~Closed(d) /\ UNCHANGED served
          /\ Go(d, "recv") \/ Go(d, "stt")
      BY <2>11 DEF VoiceMessage, Closed
    <3> QED
      BY <2>0, <2>2, <2>3, <3>1
  <2>12. CASE Transcribed(d)
    <3>1. /\ drivers[d].pc = "stt" /\ ~Closed(d) /\ UNCHANGED served
          /\ Go(d, "recv") \/ Go(d, "voice_core")
      BY <2>12 DEF Transcribed, Closed
    <3> QED
      BY <2>0, <2>2, <2>3, <3>1
  <2>13. CASE VoiceAnswered(d)
    BY <2>0, <2>2, <2>13 DEF VoiceAnswered, Closed
  <2> QED
    BY <1>6, <2>4, <2>5, <2>6, <2>7, <2>8, <2>9, <2>10, <2>11, <2>12, <2>13 DEF Serve
<1>7. CASE Crash
  <2>1. \A d \in Slots : drivers'[d].pc = "gone"
    BY <1>7 DEF Crash, Gone
  <2>2. \A c \in Chats : MailOf(drivers', c) = <<>> /\ c \notin BusyIn(drivers')
    BY <2>1, NoInbox
  <2>3. Mail' = [c \in Chats |-> <<>>]
    BY <2>2, MailboxState
  <2>4. BusyIn(drivers') \subseteq Chats
    BY DEF BusyIn
  <2>5. Busy' = {}
    BY <2>2, <2>4, MailboxState
  <2>6. replayed' \in {replayed, TRUE} /\ UNCHANGED served
    BY <1>7 DEF Crash
  <2>7. Mailbox!Restart
    BY <2>3, <2>5, <2>6 DEF Mailbox!Restart
  <2> QED
    BY <2>7 DEF MailboxStep, Mailbox!Next
<1>8. CASE UNCHANGED vars
  BY <1>8, TasksStutter DEF vars
<1> QED
  BY <1>1, <1>2, <1>3, <1>4, <1>5, <1>6, <1>7, <1>8 DEF Next, Dispatch

(* The adapter implements a mailbox per chat: what an inbox accepts is      *)
(* taken once, in the order of delivery and one turn at a time; retirement  *)
(* strands nothing, and a restart repeats nothing unless its bootstrap      *)
(* failed (run, TelegramChatChannel::recv, bootstrap_offset).               *)
THEOREM AdapterImplementsMailbox == Spec => ImplementsMailbox
<1>1. Init => MailInv
  BY MailInit
<1>2. MailInv /\ [Next]_vars => MailInv'
  BY MailNext
<1>3. Init => Mailbox!Init
  BY MailboxInit
<1>4. MailInv /\ [Next]_vars => [Mailbox!Next]_Mailbox!mailboxVars
  BY MailboxNext DEF MailboxStep
<1> QED
  BY <1>1, <1>2, <1>3, <1>4, PTL DEF Spec, ImplementsMailbox, Mailbox!Spec
-----------------------------------------------------------------------------
(***************************************************************************)
(* Voice messages: handlers that run at once keep their sound apart.       *)
(***************************************************************************)
Exts == {"ogg", "wav"}
FileNames == [kind : {"voice", "reply"}, pid : Nat, nonce : Nat, ext : Exts]
VoiceFields == {"at", "guard", "reply", "left", "failed"}

MediaTypeOK ==
  /\ process \in [pid : Nat, nonce : Nat, asVoice : BOOLEAN, delete : BOOLEAN]
  /\ DOMAIN voices = Voices /\ \A v \in Voices : DOMAIN voices[v] = VoiceFields
  /\ \A v \in Voices : voices[v].guard \subseteq FileNames
  /\ DOMAIN sounds \subseteq FileNames

(* A place that reads or writes a file holds its name; before the first    *)
(* there is none to hold.                                                  *)
Holds(r) ==
  /\ r.at \in {"rest", "waiting"} => r.guard = {}
  /\ r.at \in {"download", "transcode", "transcribe"} =>
       \A x \in Exts : \E n \in r.guard : n.kind = "voice" /\ n.ext = x
  /\ r.at \in {"synth", "encode", "send_voice"} =>
       \A x \in Exts : \E n \in r.guard : n.kind = "reply" /\ n.ext = x

(* Names in use were made by this process from nonces it has passed, and   *)
(* no two handlers hold one.                                               *)
GuardsApart ==
  /\ \A v \in Voices : Holds(voices[v])
  /\ \A v \in Voices : \A n \in voices[v].guard : n.pid = process.pid /\ n.nonce < process.nonce
  /\ \A v, w \in Voices : v # w => voices[v].guard \cap voices[w].guard = {}

(* A file under a name a handler holds is its own; one of this process has *)
(* a nonce it has passed, and is under such a name unless files are kept;  *)
(* none is of a process still to come.                                     *)
FilesOwned ==
  /\ \A v \in Voices : \A n \in voices[v].guard \cap DOMAIN sounds : sounds[n] = v
  /\ \A n \in DOMAIN sounds : /\ n.pid <= process.pid
                              /\ n.pid = process.pid => n.nonce < process.nonce
                              /\ process.delete /\ n.pid = process.pid =>
                                   \E v \in Voices : n \in voices[v].guard

FilesSound == MediaTypeOK /\ GuardsApart /\ FilesOwned

OwnHeard == DOMAIN heard = Voices /\ \A v \in Voices : heard[v] \subseteq {v}

OwnSent ==
  /\ DOMAIN sent = Voices
  /\ \A v \in Voices : /\ Len(sent[v]) \in Nat /\ sent[v] = [i \in 1..Len(sent[v]) |-> sent[v][i]]
                       /\ \A i \in 1..Len(sent[v]) : sent[v][i][1] = "voice" => sent[v][i][2] = v

MediaInv == FilesSound /\ OwnHeard /\ OwnSent

(* Only v's record changes, to r. *)
Becomes(v, r) == voices' = [voices EXCEPT ![v] = r]

LEMMA MovingKeepsFiles ==
  ASSUME FilesSound, NEW v \in Voices, NEW r, Becomes(v, r), DOMAIN r = VoiceFields, Holds(r),
         r.guard = voices[v].guard, UNCHANGED <<sounds, process>>
  PROVE  FilesSound'
<1>1. /\ DOMAIN voices' = Voices /\ \A w \in Voices : voices'[w].guard = voices[w].guard
      /\ \A w \in Voices : voices'[w] = IF w = v THEN r ELSE voices[w]
  BY DEF Becomes, FilesSound, MediaTypeOK
<1>2. MediaTypeOK'
  BY <1>1 DEF FilesSound, MediaTypeOK
<1>3. GuardsApart'
  <2>1. \A w \in Voices : Holds(voices'[w])
    BY <1>1 DEF FilesSound, GuardsApart
  <2> QED
    BY <1>1, <2>1 DEF FilesSound, GuardsApart, Holds
<1>4. FilesOwned'
  BY <1>1 DEF FilesSound, FilesOwned
<1> QED
  BY <1>2, <1>3, <1>4 DEF FilesSound

LEMMA WritingKeepsFiles ==
  ASSUME FilesSound, NEW v \in Voices, NEW r, Becomes(v, r), DOMAIN r = VoiceFields, Holds(r),
         r.guard = voices[v].guard, NEW name \in voices[v].guard, Write(name, v), UNCHANGED process
  PROVE  FilesSound'
<1>1. /\ DOMAIN voices' = Voices /\ \A w \in Voices : voices'[w].guard = voices[w].guard
      /\ \A w \in Voices : voices'[w] = IF w = v THEN r ELSE voices[w]
  BY DEF Becomes, FilesSound, MediaTypeOK
<1>2. /\ DOMAIN sounds' = DOMAIN sounds \cup {name}
      /\ \A n \in DOMAIN sounds' : sounds'[n] = IF n = name THEN v ELSE sounds[n]
  BY DEF Write
<1>3. name \in FileNames /\ name.pid = process.pid /\ process.pid \in Nat /\ name.nonce < process.nonce
  BY DEF FilesSound, MediaTypeOK, GuardsApart
<1>4. MediaTypeOK'
  BY <1>1, <1>2, <1>3 DEF FilesSound, MediaTypeOK
<1>5. GuardsApart'
  <2>1. \A w \in Voices : Holds(voices'[w])
    BY <1>1 DEF FilesSound, GuardsApart
  <2> QED
    BY <1>1, <2>1 DEF FilesSound, GuardsApart, Holds
<1>6. FilesOwned'
  <2>1. ASSUME NEW w \in Voices, NEW n \in voices'[w].guard \cap DOMAIN sounds'
        PROVE  sounds'[n] = w
    <3>1. CASE n = name
      BY <1>1, <1>2, <2>1, <3>1 DEF FilesSound, GuardsApart
    <3>2. CASE n # name
      BY <1>1, <1>2, <2>1, <3>2 DEF FilesSound, FilesOwned
    <3> QED
      BY <3>1, <3>2
  <2>2. ASSUME NEW n \in DOMAIN sounds'
        PROVE  /\ n.pid <= process'.pid /\ (n.pid = process'.pid => n.nonce < process'.nonce)
               /\ process'.delete /\ n.pid = process'.pid => \E w \in Voices : n \in voices'[w].guard
    <3>1. CASE n = name
      BY <1>1, <1>3, <3>1
    <3>2. CASE n # name
      BY <1>1, <1>2, <3>2 DEF FilesSound, FilesOwned
    <3> QED
      BY <3>1, <3>2
  <2> QED
    BY <2>1, <2>2 DEF FilesOwned
<1> QED
  BY <1>4, <1>5, <1>6 DEF FilesSound

(* The names taken are new: no handler holds them and no file has them. *)
LEMMA TakingKeepsFiles ==
  ASSUME FilesSound, NEW v \in Voices, NEW r, Becomes(v, r), DOMAIN r = VoiceFields, Holds(r),
         NEW kind \in {"voice", "reply"}, TakeNonce,
         r.guard \subseteq voices[v].guard \cup TempNames(kind), voices[v].guard \subseteq r.guard,
         UNCHANGED sounds
  PROVE  FilesSound'
<1> DEFINE new == TempNames(kind)
<1>1. /\ DOMAIN voices' = Voices
      /\ \A w \in Voices : voices'[w] = IF w = v THEN r ELSE voices[w]
  BY DEF Becomes, FilesSound, MediaTypeOK
<1>2. /\ process \in [pid : Nat, nonce : Nat, asVoice : BOOLEAN, delete : BOOLEAN]
      /\ process' \in [pid : Nat, nonce : Nat, asVoice : BOOLEAN, delete : BOOLEAN]
      /\ process'.pid = process.pid /\ process'.nonce = process.nonce + 1
      /\ process'.delete = process.delete
  BY DEF FilesSound, MediaTypeOK, TakeNonce
<1>3. \A n \in new : n \in FileNames /\ n.pid = process.pid /\ n.nonce = process.nonce
  BY <1>2 DEF TempNames, FileNames, Exts
<1> HIDE DEF new
<1>4. \A w \in Voices : voices[w].guard \cap new = {}
  BY <1>2, <1>3 DEF FilesSound, GuardsApart
<1>5. new \cap DOMAIN sounds = {}
  BY <1>2, <1>3 DEF FilesSound, FilesOwned
<1>6. r.guard \subseteq voices[v].guard \cup new
  BY DEF new
<1>7. MediaTypeOK'
  BY <1>1, <1>2, <1>3, <1>6 DEF FilesSound, MediaTypeOK
<1>8. GuardsApart'
  <2>1. \A w \in Voices : Holds(voices'[w])
    BY <1>1 DEF FilesSound, GuardsApart
  <2>2. \A w \in Voices : \A n \in voices'[w].guard : n.pid = process'.pid /\ n.nonce < process'.nonce
    <3> SUFFICES ASSUME NEW w \in Voices, NEW n \in voices'[w].guard
                 PROVE  n.pid = process'.pid /\ n.nonce < process'.nonce
      OBVIOUS
    <3>1. CASE n \in voices[w].guard
      <4>1. n \in FileNames /\ n.pid = process.pid /\ n.nonce < process.nonce
        BY <3>1 DEF FilesSound, MediaTypeOK, GuardsApart
      <4> QED
        BY <1>2, <4>1 DEF FileNames
    <3>2. CASE n \notin voices[w].guard
      BY <1>1, <1>2, <1>3, <1>6, <3>2
    <3> QED
      BY <3>1, <3>2
  <2>3. \A u, w \in Voices : u # w => voices'[u].guard \cap voices'[w].guard = {}
    BY <1>1, <1>4, <1>6 DEF FilesSound, GuardsApart
  <2> QED
    BY <2>1, <2>2, <2>3 DEF GuardsApart, Holds
<1>9. FilesOwned'
  <2>1. \A w \in Voices : \A n \in voices'[w].guard \cap DOMAIN sounds : sounds[n] = w
    BY <1>1, <1>5, <1>6 DEF FilesSound, FilesOwned
  <2>2. ASSUME NEW n \in DOMAIN sounds
        PROVE  /\ n.pid <= process'.pid /\ (n.pid = process'.pid => n.nonce < process'.nonce)
               /\ process'.delete /\ n.pid = process'.pid => \E w \in Voices : n \in voices'[w].guard
    <3>1. n \in FileNames /\ n.nonce \in Nat
      BY DEF FilesSound, MediaTypeOK, FileNames
    <3> QED
      BY <1>1, <1>2, <3>1 DEF FilesSound, FilesOwned
  <2> QED
    BY <2>1, <2>2 DEF FilesOwned
<1> QED
  BY <1>7, <1>8, <1>9 DEF FilesSound

LEMMA EndingKeepsFiles ==
  ASSUME FilesSound, NEW v \in Voices, NEW failed, Ends(v, failed), UNCHANGED process
  PROVE  FilesSound'
<1> DEFINE r == [AtRest EXCEPT !.at = "over", !.reply = voices[v].reply, !.failed = failed]
<1>1. DOMAIN r = VoiceFields /\ r.guard = {} /\ r.at = "over"
  BY DEF AtRest, VoiceFields
<1>2. voices' = [voices EXCEPT ![v] = r]
  BY DEF Ends
<1> HIDE DEF r
<1>3. /\ DOMAIN voices' = Voices
      /\ \A w \in Voices : voices'[w] = IF w = v THEN r ELSE voices[w]
  BY <1>2 DEF FilesSound, MediaTypeOK
<1>4. /\ DOMAIN sounds' = IF process.delete THEN DOMAIN sounds \ voices[v].guard ELSE DOMAIN sounds
      /\ \A n \in DOMAIN sounds' : sounds'[n] = sounds[n]
  BY DEF Ends, CleanUp
<1>5. MediaTypeOK'
  BY <1>1, <1>3, <1>4 DEF FilesSound, MediaTypeOK
<1>6. GuardsApart'
  <2>1. Holds(r)
    BY <1>1 DEF Holds
  <2>2. \A w \in Voices : Holds(voices'[w])
    BY <1>3, <2>1 DEF FilesSound, GuardsApart
  <2>3. \A w \in Voices : voices'[w].guard \subseteq voices[w].guard
    BY <1>1, <1>3
  <2>4. \A w \in Voices : \A n \in voices'[w].guard : n.pid = process'.pid /\ n.nonce < process'.nonce
    BY <2>3 DEF FilesSound, GuardsApart
  <2>5. \A u, w \in Voices : u # w => voices'[u].guard \cap voices'[w].guard = {}
    BY <2>3 DEF FilesSound, GuardsApart
  <2> QED
    BY <2>2, <2>4, <2>5 DEF GuardsApart, Holds
<1>7. FilesOwned'
  BY <1>1, <1>3, <1>4 DEF FilesSound, FilesOwned
<1> QED
  BY <1>5, <1>6, <1>7 DEF FilesSound

-----------------------------------------------------------------------------
(* The name of a held file, and whose sound it holds *)

LEMMA NameIsHeld ==
  ASSUME NEW v \in Voices, NEW kind, NEW ext,
         \E n \in voices[v].guard : n.kind = kind /\ n.ext = ext
  PROVE  Name(v, kind, ext) \in voices[v].guard
  BY DEF Name

LEMMA ConvertedIsOwn ==
  ASSUME FilesSound, NEW v \in Voices, NEW kind, NEW from, NEW to, Convert(v, kind, from, to),
         \A x \in {from, to} : \E n \in voices[v].guard : n.kind = kind /\ n.ext = x
  PROVE  Name(v, kind, to) \in voices[v].guard /\ Write(Name(v, kind, to), v)
<1>1. Name(v, kind, from) \in voices[v].guard /\ Name(v, kind, to) \in voices[v].guard
  BY NameIsHeld
<1>2. sounds[Name(v, kind, from)] = v
  BY <1>1 DEF Convert, FilesSound, FilesOwned
<1> QED
  BY <1>1, <1>2 DEF Convert

LEMMA SendingKeepsSent ==
  ASSUME OwnSent, NEW v \in Voices, NEW m, m[1] = "voice" => m[2] = v,
         sent' = [sent EXCEPT ![v] = Append(@, m)]
  PROVE  OwnSent'
<1> DEFINE s == sent[v]
           S == {s[i] : i \in 1..Len(s)} \cup {m}
<1>1. DOMAIN sent' = Voices /\ sent'[v] = Append(s, m) /\ \A w \in Voices : w # v => sent'[w] = sent[w]
  BY DEF OwnSent
<1>2. Len(s) \in Nat /\ s \in Seq(S) /\ m \in S
  <2>1. Len(s) \in Nat /\ s = [i \in 1..Len(s) |-> s[i]]
    BY DEF OwnSent
  <2>2. ASSUME NEW n \in Nat, NEW t, t = [i \in 1..n |-> t[i]]
        PROVE  t \in Seq({t[i] : i \in 1..n} \cup {m})
    BY <2>2
  <2> QED
    BY <2>1, <2>2, Zenon
<1>3. /\ Append(s, m) \in Seq(S) /\ Len(Append(s, m)) = Len(s) + 1
      /\ \A i \in 1..Len(s) : Append(s, m)[i] = s[i]
      /\ Append(s, m)[Len(s) + 1] = m
  <2> HIDE DEF s, S
  <2> QED
    BY <1>2, AppendProperties
<1>4. /\ Len(sent'[v]) \in Nat /\ sent'[v] = [i \in 1..Len(sent'[v]) |-> sent'[v][i]]
      /\ \A i \in 1..Len(sent'[v]) : sent'[v][i][1] = "voice" => sent'[v][i][2] = v
  <2>1. \A i \in 1..Len(s) : s[i][1] = "voice" => s[i][2] = v
    BY DEF OwnSent
  <2>2. \A i \in 1..(Len(s) + 1) : i \in 1..Len(s) \/ i = Len(s) + 1
    BY <1>2
  <2>3. ASSUME NEW t \in Seq(S)  PROVE Len(t) \in Nat /\ t = [i \in 1..Len(t) |-> t[i]]
    OBVIOUS
  <2> HIDE DEF s, S
  <2> QED
    <3>1. sent'[v] \in Seq(S) /\ Len(sent'[v]) = Len(s) + 1
      BY <1>1, <1>3
    <3>2. ASSUME NEW i \in 1..(Len(s) + 1), sent'[v][i][1] = "voice"  PROVE sent'[v][i][2] = v
      <4>1. CASE i \in 1..Len(s)
        BY <1>1, <1>3, <2>1, <3>2, <4>1
      <4>2. CASE i = Len(s) + 1
        BY <1>1, <1>3, <3>2, <4>2
      <4> QED
        BY <2>2, <4>1, <4>2
    <3> QED
      BY <2>3, <3>1, <3>2
<1> QED
  BY <1>1, <1>4 DEF OwnSent

-----------------------------------------------------------------------------
(* The steps of a handler *)

LEMMA UntouchedKeeps ==
  ASSUME OwnHeard, OwnSent
  PROVE  (heard' = heard => OwnHeard') /\ (sent' = sent => OwnSent')
<1>1. heard' = heard => OwnHeard'
  BY DEF OwnHeard
<1>2. sent' = sent => OwnSent'
  BY DEF OwnSent
<1> QED
  BY <1>1, <1>2

(* Between these places a handler needs no other file than before. *)
Onward(v, at) ==
  \/ at \in {"transcript", "core", "gate", "split", "text", "over"}
  \/ {at, voices[v].at} \subseteq {"rest", "waiting"}
  \/ {at, voices[v].at} \subseteq {"download", "transcode", "transcribe"}
  \/ {at, voices[v].at} \subseteq {"synth", "encode", "send_voice"}

LEMMA HoldsAt ==
  ASSUME FilesSound, NEW v \in Voices, NEW at, Onward(v, at)
  PROVE  LET r == [voices[v] EXCEPT !.at = at]
         IN  DOMAIN r = VoiceFields /\ r.guard = voices[v].guard /\ Holds(r)
<1> DEFINE r == [voices[v] EXCEPT !.at = at]
<1>1. DOMAIN r = VoiceFields /\ r.at = at /\ r.guard = voices[v].guard
  BY DEF FilesSound, MediaTypeOK, VoiceFields
<1>2. Holds(voices[v])
  BY DEF FilesSound, GuardsApart
<1> HIDE DEF r
<1>3. Holds(r)
  BY <1>1, <1>2 DEF Holds, Onward
<1> QED
  BY <1>1, <1>3 DEF r

LEMMA ToPlaceKeepsFiles ==
  ASSUME FilesSound, NEW v \in Voices, NEW at, ToPlace(v, at), Onward(v, at), UNCHANGED <<sounds, process>>
  PROVE  FilesSound'
<1> DEFINE r == [voices[v] EXCEPT !.at = at]
<1>1. Becomes(v, r)
  BY DEF ToPlace, Becomes, FilesSound, MediaTypeOK
<1>2. DOMAIN r = VoiceFields /\ r.guard = voices[v].guard /\ Holds(r)
  BY HoldsAt
<1> HIDE DEF r
<1> QED
  BY <1>1, <1>2, MovingKeepsFiles

LEMMA ToPlaceWritingKeepsFiles ==
  ASSUME FilesSound, NEW v \in Voices, NEW at, ToPlace(v, at), Onward(v, at),
         NEW name \in voices[v].guard, Write(name, v), UNCHANGED process
  PROVE  FilesSound'
<1> DEFINE r == [voices[v] EXCEPT !.at = at]
<1>1. Becomes(v, r)
  BY DEF ToPlace, Becomes, FilesSound, MediaTypeOK
<1>2. DOMAIN r = VoiceFields /\ r.guard = voices[v].guard /\ Holds(r)
  BY HoldsAt
<1> HIDE DEF r
<1> QED
  BY <1>1, <1>2, WritingKeepsFiles

LEMMA TempNamesHeld ==
  ASSUME NEW kind, NEW x \in Exts
  PROVE  \E n \in TempNames(kind) : n.kind = kind /\ n.ext = x
<1> DEFINE n == [kind |-> kind, pid |-> process.pid, nonce |-> process.nonce, ext |-> x]
<1>1. n \in TempNames(kind) /\ n.kind = kind /\ n.ext = x
  BY DEF TempNames, Exts
<1> QED
  BY <1>1

LEMMA VoiceFilesHeld ==
  ASSUME FilesSound, NEW v \in Voices
  PROVE  /\ voices[v].at \in {"download", "transcode", "transcribe"} =>
              \A x \in Exts : \E n \in voices[v].guard : n.kind = "voice" /\ n.ext = x
         /\ voices[v].at \in {"synth", "encode", "send_voice"} =>
              \A x \in Exts : \E n \in voices[v].guard : n.kind = "reply" /\ n.ext = x
  BY DEF FilesSound, GuardsApart, Holds

LEMMA HearingKeepsMediaInv ==
  ASSUME MediaInv, NEW v \in Voices,
         \/ VoiceArrives(v) \/ AcquireVoice(v) \/ DownloadVoiceFile(v) \/ TranscodeToWav(v)
         \/ TranscribeWav(v) \/ CleanTranscript(v)
  PROVE  MediaInv'
<1>1. FilesSound /\ OwnHeard /\ OwnSent
  BY DEF MediaInv
<1>2. sent' = sent /\ OwnSent'
  BY <1>1, UntouchedKeeps
     DEF VoiceArrives, AcquireVoice, DownloadVoiceFile, TranscodeToWav, TranscribeWav, CleanTranscript, GiveUp
<1>3. CASE VoiceArrives(v)
  <2>1. FilesSound'
    BY <1>1, <1>3, ToPlaceKeepsFiles DEF VoiceArrives, Is, Onward
  <2> QED
    BY <1>1, <1>2, <1>3, <2>1, UntouchedKeeps DEF MediaInv, VoiceArrives
<1>4. CASE AcquireVoice(v)
  <2> DEFINE r == [[voices[v] EXCEPT !.at = "download"] EXCEPT !.guard = TempNames("voice")]
  <2>1. DOMAIN r = VoiceFields /\ r.at = "download" /\ r.guard = TempNames("voice")
    BY <1>1 DEF FilesSound, MediaTypeOK, VoiceFields
  <2>2. Becomes(v, r)
    BY <1>1, <1>4 DEF AcquireVoice, Becomes, FilesSound, MediaTypeOK
  <2>3. Holds(r)
    BY <2>1, TempNamesHeld DEF Holds
  <2> HIDE DEF r
  <2>4. FilesSound'
    <3>1. voices[v].guard = {} /\ TakeNonce /\ UNCHANGED sounds
      BY <1>1, <1>4 DEF AcquireVoice, Is, FilesSound, GuardsApart, Holds
    <3> QED
      BY <1>1, <2>1, <2>2, <2>3, <3>1, TakingKeepsFiles
  <2> QED
    BY <1>1, <1>2, <1>4, <2>4, UntouchedKeeps DEF MediaInv, AcquireVoice
<1>5. CASE DownloadVoiceFile(v)
  <2>1. CASE GiveUp(v)
    <3>1. FilesSound'
      BY <1>1, <2>1, EndingKeepsFiles DEF GiveUp
    <3> QED
      BY <1>1, <1>2, <2>1, <3>1, UntouchedKeeps DEF MediaInv, GiveUp
  <2>2. CASE Write(Name(v, "voice", "ogg"), v) /\ ToPlace(v, "transcode") /\ UNCHANGED <<process, heard>>
    <3>1. Is(v, "download")
      BY <1>5 DEF DownloadVoiceFile
    <3>2. Name(v, "voice", "ogg") \in voices[v].guard
      BY <1>1, <3>1, VoiceFilesHeld, NameIsHeld DEF Is, Exts
    <3>3. FilesSound'
      BY <1>1, <2>2, <3>1, <3>2, ToPlaceWritingKeepsFiles DEF Is, Onward
    <3> QED
      BY <1>1, <1>2, <2>2, <3>3, UntouchedKeeps DEF MediaInv
  <2> QED
    BY <1>5, <2>1, <2>2 DEF DownloadVoiceFile
<1>6. CASE TranscodeToWav(v)
  <2>1. CASE GiveUp(v)
    <3>1. FilesSound'
      BY <1>1, <2>1, EndingKeepsFiles DEF GiveUp
    <3> QED
      BY <1>1, <1>2, <2>1, <3>1, UntouchedKeeps DEF MediaInv, GiveUp
  <2>2. CASE Convert(v, "voice", "ogg", "wav") /\ ToPlace(v, "transcribe") /\ UNCHANGED <<process, heard>>
    <3>1. Is(v, "transcode")
      BY <1>6 DEF TranscodeToWav
    <3>2. Name(v, "voice", "wav") \in voices[v].guard /\ Write(Name(v, "voice", "wav"), v)
      BY <1>1, <2>2, <3>1, VoiceFilesHeld, ConvertedIsOwn DEF Is, Exts
    <3>3. FilesSound'
      BY <1>1, <2>2, <3>1, <3>2, ToPlaceWritingKeepsFiles DEF Is, Onward
    <3> QED
      BY <1>1, <1>2, <2>2, <3>3, UntouchedKeeps DEF MediaInv
  <2> QED
    BY <1>6, <2>1, <2>2 DEF TranscodeToWav
<1>7. CASE TranscribeWav(v)
  <2>1. CASE GiveUp(v)
    <3>1. FilesSound'
      BY <1>1, <2>1, EndingKeepsFiles DEF GiveUp
    <3> QED
      BY <1>1, <1>2, <2>1, <3>1, UntouchedKeeps DEF MediaInv, GiveUp
  <2>2. CASE /\ Name(v, "voice", "wav") \in DOMAIN sounds
             /\ heard' = [heard EXCEPT ![v] = @ \cup {sounds[Name(v, "voice", "wav")]}]
             /\ ToPlace(v, "transcript") /\ UNCHANGED <<sounds, process>>
    <3>1. Is(v, "transcribe")
      BY <1>7 DEF TranscribeWav
    <3>2. Name(v, "voice", "wav") \in voices[v].guard
      BY <1>1, <3>1, VoiceFilesHeld, NameIsHeld DEF Is, Exts
    <3>3. sounds[Name(v, "voice", "wav")] = v
      BY <1>1, <2>2, <3>2 DEF FilesSound, FilesOwned
    <3>4. OwnHeard'
      BY <1>1, <2>2, <3>3 DEF OwnHeard
    <3>5. FilesSound'
      BY <1>1, <2>2, ToPlaceKeepsFiles DEF Onward
    <3> QED
      BY <1>2, <3>4, <3>5 DEF MediaInv
  <2> QED
    BY <1>7, <2>1, <2>2 DEF TranscribeWav
<1>8. CASE CleanTranscript(v)
  <2>1. CASE Ends(v, TRUE) /\ UNCHANGED <<process, heard>>
    <3>1. FilesSound'
      BY <1>1, <2>1, EndingKeepsFiles
    <3> QED
      BY <1>1, <1>2, <2>1, <3>1, UntouchedKeeps DEF MediaInv
  <2>2. CASE ToPlace(v, "core") /\ UNCHANGED <<sounds, process, heard>>
    <3>1. FilesSound'
      BY <1>1, <2>2, ToPlaceKeepsFiles DEF Onward
    <3> QED
      BY <1>1, <1>2, <2>2, <3>1, UntouchedKeeps DEF MediaInv
  <2> QED
    BY <1>8, <2>1, <2>2 DEF CleanTranscript
<1> QED
  BY <1>3, <1>4, <1>5, <1>6, <1>7, <1>8

(* A step that changes the record but no guard, and needs no file after. *)
LEMMA IdleKeepsFiles ==
  ASSUME FilesSound, NEW v \in Voices, NEW r, Becomes(v, r), DOMAIN r = VoiceFields,
         r.guard = voices[v].guard, r.at \in {"gate", "split", "text"}, UNCHANGED <<sounds, process>>
  PROVE  FilesSound'
<1>1. Holds(r)
  BY DEF Holds
<1> QED
  BY <1>1, MovingKeepsFiles

LEMMA AnsweringKeepsMediaInv ==
  ASSUME MediaInv, NEW v \in Voices, ChatCore(v) \/ StartReply(v)
  PROVE  MediaInv'
<1>1. FilesSound /\ OwnHeard /\ OwnSent
  BY DEF MediaInv
<1>2. OwnHeard' /\ OwnSent'
  BY <1>1, UntouchedKeeps DEF ChatCore, StartReply
<1>3. DOMAIN voices = Voices /\ DOMAIN voices[v] = VoiceFields
  BY <1>1 DEF FilesSound, MediaTypeOK
<1>4. CASE ChatCore(v)
  <2>1. CASE Ends(v, TRUE) /\ UNCHANGED process
    BY <1>1, <1>2, <2>1, EndingKeepsFiles DEF MediaInv
  <2>2. ASSUME NEW answer, UNCHANGED <<sounds, process>>,
               voices' = [voices EXCEPT ![v].reply = answer, ![v].at = "gate"]
        PROVE  MediaInv'
    <3> DEFINE r == [[voices[v] EXCEPT !.reply = answer] EXCEPT !.at = "gate"]
    <3>1. DOMAIN r = VoiceFields /\ r.at = "gate" /\ r.guard = voices[v].guard
      BY <1>3 DEF VoiceFields
    <3>2. Becomes(v, r)
      BY <1>3, <2>2 DEF Becomes
    <3> HIDE DEF r
    <3>3. FilesSound'
      BY <1>1, <2>2, <3>1, <3>2, IdleKeepsFiles
    <3> QED
      BY <1>2, <3>3 DEF MediaInv
  <2> QED
    BY <1>4, <2>1, <2>2 DEF ChatCore
<1>5. CASE StartReply(v) /\ VoiceReplyGate(voices[v].reply)
  <2> DEFINE r == [[voices[v] EXCEPT !.at = "synth"] EXCEPT !.guard = @ \cup TempNames("reply")]
  <2>1. /\ DOMAIN r = VoiceFields /\ r.at = "synth"
        /\ r.guard = voices[v].guard \cup TempNames("reply")
    BY <1>3 DEF VoiceFields
  <2>2. Becomes(v, r) /\ TakeNonce /\ UNCHANGED sounds
    BY <1>3, <1>5 DEF Becomes, StartReply
  <2> HIDE DEF r
  <2>3. Holds(r)
    BY <2>1, TempNamesHeld DEF Holds
  <2>4. FilesSound'
    BY <1>1, <2>1, <2>2, <2>3, TakingKeepsFiles
  <2> QED
    BY <1>2, <2>4 DEF MediaInv
<1>6. CASE StartReply(v) /\ ~VoiceReplyGate(voices[v].reply)
  <2>1. ToPlace(v, "split") /\ UNCHANGED <<sounds, process>>
    BY <1>6 DEF StartReply, ToPlace
  <2>2. FilesSound'
    BY <1>1, <2>1, ToPlaceKeepsFiles DEF Onward
  <2> QED
    BY <1>2, <2>2 DEF MediaInv
<1> QED
  BY <1>4, <1>5, <1>6

LEMMA FallBackKeepsMediaInv ==
  ASSUME MediaInv, NEW v \in Voices, FallBack(v)
  PROVE  MediaInv'
<1>1. FilesSound'
  BY ToPlaceKeepsFiles DEF MediaInv, FallBack, Onward
<1> QED
  BY <1>1, UntouchedKeeps DEF MediaInv, FallBack

LEMMA SpeakingKeepsMediaInv ==
  ASSUME MediaInv, NEW v \in Voices, SynthesizeReplyToWav(v) \/ WavToOggOpus(v) \/ SendVoice(v)
  PROVE  MediaInv'
<1>1. FilesSound /\ OwnHeard /\ OwnSent
  BY DEF MediaInv
<1>2. OwnHeard'
  BY <1>1, UntouchedKeeps DEF SynthesizeReplyToWav, WavToOggOpus, SendVoice, FallBack
<1>3. \A x \in Exts : voices[v].at \in {"synth", "encode", "send_voice"} =>
        Name(v, "reply", x) \in voices[v].guard
  BY <1>1, VoiceFilesHeld, NameIsHeld
<1>4. CASE FallBack(v)
  BY <1>4, FallBackKeepsMediaInv
<1>5. CASE SynthesizeReplyToWav(v) /\ ~FallBack(v)
  <2>1. /\ Is(v, "synth") /\ Write(Name(v, "reply", "wav"), v) /\ ToPlace(v, "encode")
        /\ UNCHANGED <<process, sent>>
    BY <1>5 DEF SynthesizeReplyToWav
  <2>2. Name(v, "reply", "wav") \in voices[v].guard
    BY <1>3, <2>1 DEF Is, Exts
  <2>3. FilesSound'
    BY <1>1, <2>1, <2>2, ToPlaceWritingKeepsFiles DEF Is, Onward
  <2> QED
    BY <1>1, <1>2, <2>1, <2>3, UntouchedKeeps DEF MediaInv
<1>6. CASE WavToOggOpus(v) /\ ~FallBack(v)
  <2>1. /\ Is(v, "encode") /\ Convert(v, "reply", "wav", "ogg") /\ ToPlace(v, "send_voice")
        /\ UNCHANGED <<process, sent>>
    BY <1>6 DEF WavToOggOpus
  <2>2. Name(v, "reply", "ogg") \in voices[v].guard /\ Write(Name(v, "reply", "ogg"), v)
    BY <1>1, <2>1, VoiceFilesHeld, ConvertedIsOwn DEF Is, Exts
  <2>3. FilesSound'
    BY <1>1, <2>1, <2>2, ToPlaceWritingKeepsFiles DEF Is, Onward
  <2> QED
    BY <1>1, <1>2, <2>1, <2>3, UntouchedKeeps DEF MediaInv
<1>7. CASE SendVoice(v) /\ ~FallBack(v)
  <2> DEFINE name == Name(v, "reply", "ogg")
  <2>1. /\ Is(v, "send_voice") /\ name \in DOMAIN sounds /\ UNCHANGED process
        /\ sent' = [sent EXCEPT ![v] = Append(@, <<"voice", sounds[name]>>)]
        /\ Ends(v, FALSE) \/ (ToPlace(v, "split") /\ UNCHANGED sounds)
    BY <1>7 DEF SendVoice
  <2>2. name \in voices[v].guard
    BY <1>3, <2>1 DEF Is, Exts
  <2>3. sounds[name] = v
    BY <1>1, <2>1, <2>2 DEF FilesSound, FilesOwned
  <2>4. OwnSent'
    <3>1. <<"voice", v>>[2] = v
      OBVIOUS
    <3>2. sent' = [sent EXCEPT ![v] = Append(@, <<"voice", v>>)]
      BY <2>1, <2>3
    <3> QED
      BY <1>1, <3>1, <3>2, SendingKeepsSent
  <2>5. FilesSound'
    BY <1>1, <2>1, EndingKeepsFiles, ToPlaceKeepsFiles DEF Onward
  <2> QED
    BY <1>2, <2>4, <2>5 DEF MediaInv
<1> QED
  BY <1>4, <1>5, <1>6, <1>7

LEMMA TextingKeepsMediaInv ==
  ASSUME MediaInv, NEW v \in Voices,
         SplitMessage(v) \/ SendPiece(v) \/ \E answer \in Answers : TextReply(v, answer)
  PROVE  MediaInv'
<1>1. FilesSound /\ OwnHeard /\ OwnSent
  BY DEF MediaInv
<1>2. OwnHeard'
  BY <1>1, UntouchedKeeps DEF SplitMessage, SendPiece, TextReply
<1>3. DOMAIN voices = Voices /\ DOMAIN voices[v] = VoiceFields
  BY <1>1 DEF FilesSound, MediaTypeOK
<1>4. CASE SplitMessage(v)
  <2> DEFINE r == [[voices[v] EXCEPT !.at = "text"] EXCEPT !.left = voices[v].reply]
  <2>1. DOMAIN r = VoiceFields /\ r.at = "text" /\ r.guard = voices[v].guard
    BY <1>3 DEF VoiceFields
  <2>2. Becomes(v, r) /\ UNCHANGED <<sounds, process, sent>>
    BY <1>3, <1>4 DEF Becomes, SplitMessage
  <2> HIDE DEF r
  <2>3. FilesSound'
    BY <1>1, <2>1, <2>2, IdleKeepsFiles
  <2> QED
    BY <1>1, <1>2, <2>2, <2>3, UntouchedKeeps DEF MediaInv
<1>5. ASSUME NEW answer, TextReply(v, answer)  PROVE MediaInv'
  <2> DEFINE r == [[voices[v] EXCEPT !.at = "split"] EXCEPT !.reply = answer]
  <2>1. DOMAIN r = VoiceFields /\ r.at = "split" /\ r.guard = voices[v].guard
    BY <1>3 DEF VoiceFields
  <2>2. Becomes(v, r) /\ UNCHANGED <<sounds, process, sent>>
    BY <1>3, <1>5 DEF Becomes, TextReply
  <2> HIDE DEF r
  <2>3. FilesSound'
    BY <1>1, <2>1, <2>2, IdleKeepsFiles
  <2> QED
    BY <1>1, <1>2, <2>2, <2>3, UntouchedKeeps DEF MediaInv
<1>6. CASE SendPiece(v)
  <2>1. OwnSent'
    <3>1. ASSUME NEW piece, sent' = [sent EXCEPT ![v] = Append(@, <<"text", piece>>)]  PROVE OwnSent'
      <4>1. <<"text", piece>>[1] # "voice"
        OBVIOUS
      <4> QED
        BY <1>1, <3>1, <4>1, SendingKeepsSent
    <3> QED
      BY <1>1, <1>6, <3>1, UntouchedKeeps DEF SendPiece
  <2>2. CASE \E failed : Ends(v, failed)
    <3>1. FilesSound'
      BY <1>1, <1>6, <2>2, EndingKeepsFiles DEF SendPiece
    <3> QED
      BY <1>2, <2>1, <3>1 DEF MediaInv
  <2>3. ASSUME NEW rest, voices' = [voices EXCEPT ![v].left = rest], UNCHANGED sounds  PROVE MediaInv'
    <3> DEFINE r == [voices[v] EXCEPT !.left = rest]
    <3>1. DOMAIN r = VoiceFields /\ r.at = voices[v].at /\ r.guard = voices[v].guard
      BY <1>3 DEF VoiceFields
    <3>2. Becomes(v, r) /\ UNCHANGED <<sounds, process>> /\ Is(v, "text")
      BY <1>3, <1>6, <2>3 DEF Becomes, SendPiece
    <3> HIDE DEF r
    <3>3. FilesSound'
      BY <1>1, <3>1, <3>2, IdleKeepsFiles DEF Is
    <3> QED
      BY <1>2, <2>1, <3>3 DEF MediaInv
  <2> QED
    BY <1>6, <2>2, <2>3 DEF SendPiece
<1> QED
  BY <1>4, <1>5, <1>6

(* A new process holds no name, and no file bears its id yet. *)
LEMMA RestartKeepsMediaInv ==
  ASSUME MediaInv, AdapterRestarts
  PROVE  MediaInv'
<1>1. FilesSound /\ OwnHeard /\ OwnSent
  BY DEF MediaInv
<1>2. /\ process.pid \in Nat /\ process'.pid = process.pid + 1 /\ sounds' = sounds
      /\ process' \in [pid : Nat, nonce : Nat, asVoice : BOOLEAN, delete : BOOLEAN]
      /\ DOMAIN sounds \subseteq FileNames
  <2>1. process \in [pid : Nat, nonce : Nat, asVoice : BOOLEAN, delete : BOOLEAN] /\ DOMAIN sounds \subseteq FileNames
    BY <1>1 DEF FilesSound, MediaTypeOK
  <2>2. process' = [process EXCEPT !.pid = @ + 1, !.nonce = 0] /\ sounds' = sounds
    BY DEF AdapterRestarts
  <2> DEFINE next == [process EXCEPT !.pid = @ + 1]
  <2>3. /\ next \in [pid : Nat, nonce : Nat, asVoice : BOOLEAN, delete : BOOLEAN]
        /\ process.pid \in Nat /\ next.pid = process.pid + 1
    BY <2>1
  <2>4. process' = [next EXCEPT !.nonce = 0]
    BY <2>2, Zenon
  <2> HIDE DEF next
  <2> QED
    BY <2>1, <2>2, <2>3, <2>4
<1>3. /\ DOMAIN voices' = Voices
      /\ \A v \in Voices : /\ DOMAIN voices'[v] = VoiceFields /\ voices'[v].guard = {}
                           /\ voices'[v].at \in {"rest", "over"}
  BY DEF AdapterRestarts, AtRest, VoiceFields
<1>4. MediaTypeOK'
  BY <1>2, <1>3 DEF MediaTypeOK
<1>5. GuardsApart'
  BY <1>3 DEF GuardsApart, Holds
<1>6. FilesOwned'
  <2>1. ASSUME NEW n \in DOMAIN sounds  PROVE n.pid < process.pid + 1 /\ n.pid \in Nat
    <3>1. n \in FileNames /\ n.pid <= process.pid
      BY <1>1, <1>2 DEF FilesSound, FilesOwned
    <3> QED
      BY <1>2, <3>1 DEF FileNames
  <2> QED
    BY <1>2, <1>3, <2>1 DEF FilesOwned
<1> QED
  BY <1>1, <1>4, <1>5, <1>6, UntouchedKeeps DEF MediaInv, FilesSound, AdapterRestarts

LEMMA MediaInitSound == MediaInit => MediaInv
<1> SUFFICES ASSUME MediaInit  PROVE MediaInv
  OBVIOUS
<1>1. /\ DOMAIN voices = Voices /\ sounds = [n \in {} |-> "none"]
      /\ process \in [pid : Nat, nonce : Nat, asVoice : BOOLEAN, delete : BOOLEAN]
      /\ \A v \in Voices : /\ DOMAIN voices[v] = VoiceFields /\ voices[v].guard = {} /\ voices[v].at = "rest"
  <2>1. \A o \in AudioOptions : o.asVoice \in BOOLEAN /\ o.delete \in BOOLEAN
    BY MediaAssumption
  <2> QED
    BY <2>1 DEF MediaInit, AtRest, VoiceFields
<1>2. FilesSound
  BY <1>1 DEF FilesSound, MediaTypeOK, GuardsApart, FilesOwned, Holds
<1>3. OwnHeard
  BY DEF MediaInit, OwnHeard
<1>4. OwnSent
  <2>1. DOMAIN sent = Voices /\ \A v \in Voices : sent[v] = <<>>
    BY DEF MediaInit
  <2>2. ASSUME NEW v, NEW s, s = <<>>
        PROVE  /\ Len(s) \in Nat /\ s = [i \in 1..Len(s) |-> s[i]]
               /\ \A i \in 1..Len(s) : s[i][1] = "voice" => s[i][2] = v
    BY <2>2
  <2>3. ASSUME NEW v \in Voices
        PROVE  /\ Len(sent[v]) \in Nat /\ sent[v] = [i \in 1..Len(sent[v]) |-> sent[v][i]]
               /\ \A i \in 1..Len(sent[v]) : sent[v][i][1] = "voice" => sent[v][i][2] = v
    BY <2>1, <2>2, Zenon
  <2> QED
    BY <2>1, <2>3, Zenon DEF OwnSent
<1> QED
  BY <1>2, <1>3, <1>4 DEF MediaInv

(***************************************************************************)
(* Voice handlers that run at once keep their sound apart: what a chat's   *)
(* message is transcribed from and what it is sent is its own, and no file *)
(* of the running process outlives its guard unless files are to be kept,  *)
(* whatever fails and however often the adapter restarts                   *)
(* (handle_voice_message, TempCleanup).                                    *)
(***************************************************************************)
THEOREM SoundsAlwaysApart == MediaSpec => []SoundsStayApart
<1>1. MediaInv /\ [MediaNext]_mediaVars => MediaInv'
  <2> SUFFICES ASSUME MediaInv, [MediaNext]_mediaVars  PROVE MediaInv'
    OBVIOUS
  <2>1. ASSUME NEW v \in Voices, Handle(v)  PROVE MediaInv'
    BY <2>1, HearingKeepsMediaInv, AnsweringKeepsMediaInv, SpeakingKeepsMediaInv, TextingKeepsMediaInv
       DEF Handle
  <2>2. CASE UNCHANGED mediaVars
    BY <2>2 DEF mediaVars, MediaInv, FilesSound, MediaTypeOK, GuardsApart, Holds, FilesOwned, OwnHeard, OwnSent
  <2> QED
    BY <2>1, <2>2, RestartKeepsMediaInv DEF MediaNext
<1>2. MediaInv => SoundsStayApart
  <2> SUFFICES ASSUME MediaInv  PROVE SoundsStayApart
    OBVIOUS
  <2>1. \A v \in Voices : DOMAIN sent[v] = 1..Len(sent[v])
    <3>1. ASSUME NEW s, NEW n, s = [i \in 1..n |-> s[i]]  PROVE DOMAIN s = 1..n
      BY <3>1
    <3> QED
      BY <3>1 DEF MediaInv, OwnSent
  <2> QED
    BY <2>1 DEF MediaInv, FilesSound, FilesOwned, OwnHeard, OwnSent, SoundsStayApart
<1> QED
  BY <1>1, <1>2, MediaInitSound, PTL DEF MediaSpec
=============================================================================
