---------------------------- MODULE ChatMailbox -----------------------------
(***************************************************************************)
(* What the Telegram adapter promises each chat, without drivers, gates,   *)
(* permits or a dispatcher: a bounded first-in first-out mailbox whose     *)
(* messages are each taken once, one turn at a time.  Messages leave it    *)
(* untaken only when a turn's reply could not be sent or the process ends. *)
(***************************************************************************)
EXTENDS Naturals, Sequences, SequencesExt

CONSTANTS
  Chats,
  Messages,  \* numbered in the order of delivery
  Capacity   \* messages a mailbox holds

VARIABLES
  mail,      \* per chat: messages waiting, in order
  taken,     \* per chat: messages taken, in order
  busy,      \* chats with a turn under way
  repeats    \* old messages may come again

mailboxVars == <<mail, taken, busy, repeats>>

Init ==
  /\ mail = [c \in Chats |-> <<>>] /\ taken = [c \in Chats |-> <<>>]
  /\ busy = {} /\ repeats = FALSE

IsNewer(c, u) == \A v \in ToSet(mail[c]) \cup ToSet(taken[c]) : u > v

Accept(c) ==
  /\ Len(mail[c]) < Capacity
  /\ \E u \in Messages : mail' = [mail EXCEPT ![c] = Append(@, u)] /\ (IsNewer(c, u) \/ repeats)
  /\ UNCHANGED <<taken, busy, repeats>>

(* A message that needs no turn leaves the chat as it is. *)
Take(c) ==
  /\ c \notin busy /\ mail[c] # <<>>
  /\ mail' = [mail EXCEPT ![c] = Tail(@)]
  /\ taken' = [taken EXCEPT ![c] = Append(@, Head(mail[c]))]
  /\ busy' \in {busy, busy \cup {c}}
  /\ UNCHANGED repeats

Finish(c) ==
  /\ c \in busy /\ busy' = busy \ {c}
  /\ UNCHANGED <<mail, taken, repeats>>

(* The turn's reply could not be sent. *)
Abandon(c) ==
  /\ c \in busy /\ busy' = busy \ {c}
  /\ mail' = [mail EXCEPT ![c] = <<>>]
  /\ UNCHANGED <<taken, repeats>>

(* What was taken is not offered again, unless the start went wrong. *)
Restart ==
  /\ mail' = [c \in Chats |-> <<>>] /\ busy' = {}
  /\ repeats' \in {repeats, TRUE}
  /\ UNCHANGED taken

Next == Restart \/ \E c \in Chats : Accept(c) \/ Take(c) \/ Finish(c) \/ Abandon(c)

Spec == Init /\ [][Next]_mailboxVars
=============================================================================
