----------------------------- MODULE MCTelegram -----------------------------
(* Two chats with one-message inboxes, one update permit, one voice permit, *)
(* and a task identity to spare for a driver spawned while another leaves.  *)
EXTENDS Telegram
CONSTANTS a, b

\* Texts of two chats, voice messages of one, skipped updates of the other.
AllPosts == [chat : {a}, kind : {"text", "skip"}] \cup [chat : {b}, kind : {"text", "voice"}]
=============================================================================
