----------------------------- MODULE TurnProofs -----------------------------
(***************************************************************************)
(* What one turn shows, stores and sends, for every sentence, reply and    *)
(* history: theorems about ChatTurn.  The turn is one record; its          *)
(* invariants say, place by place, what has been done when it gets there.  *)
(***************************************************************************)
EXTENDS ChatTurn, SequenceTheorems, TLAPS

(* Where a turn is: before it has asked a model, while it asks, while the  *)
(* reply streams in, and what follows a reply.                             *)
Opening == {"idle", "gate", "store", "route", "quick_headers", "run_quick", "prompt", "post", "choose",
            "headers", "ask_stream", "open_stream"}
Asking == {"proxy_first", "local", "local_last", "proxy_last", "bridge"}
Streaming == {"streaming", "draining", "drain_failed"}
Ending == {"store_quick", "replace", "extract", "bridge_result", "store_call", "store_result",
           "summarize", "store_answer", "finished", "failed"}
Places == Opening \cup Asking \cup Streaming \cup Ending \cup {"interpret"}

TurnFields == DOMAIN NoTurn

TurnTypeOK ==
  /\ turn = [f \in TurnFields |-> turn[f]]
  /\ turn.at \in Places /\ turn.path \in {"chat", "stream", "bridge"}
  /\ turn.overflow \in BOOLEAN
  /\ turn.got \in Nat /\ turn.taken \in 0..turn.got
  /\ turn.mode \in {"undecided", "text", "tool"} /\ turn.emitted \in BOOLEAN
  /\ turn.lost \in BOOLEAN /\ turn.answer \in {"none", "result", "summary", "text", "fallback"}
  /\ turn.reply \in Replies \cup {NoReply}

(* The bridge asks on a path of its own and keeps nothing.                 *)
PathsApart ==
  IF turn.path = "bridge"
  THEN turn.at \in {"route", "run_quick", "post", "bridge", "interpret", "bridge_result", "extract",
                    "finished", "failed"}
  ELSE turn.at \notin {"post", "bridge", "bridge_result"}

(* No call has run before the reply is read; afterwards at most one, and   *)
(* what is stored of it is what the places passed have stored.             *)
Ran == turn.ran # <<>>
BeforeReply == (Opening \ {"idle"}) \cup Asking \cup Streaming \cup {"interpret"}
Stored(ms) == turn.lost \/ turn.stored = ms
StoredByPlace ==
  /\ turn.at = "store" \/ (turn.at = "gate" /\ turn.path = "chat") => turn.stored = <<>>
  /\ turn.at \in (BeforeReply \ {"store", "gate"}) \cup {"store_quick", "store_call"}
       \/ (turn.at = "gate" /\ turn.path = "stream") => turn.stored = <<"user">>
  /\ turn.at = "store_result" => Stored(<<"user", "call">>)
  /\ turn.at = "summarize" => Stored(<<"user", "call", "result">>)
  /\ turn.at = "store_answer" => IF Ran THEN Stored(<<"user", "call", "result">>)
                                 ELSE turn.stored = <<"user">>
  /\ turn.at \in {"replace", "extract", "finished", "failed"} =>
       IF Ran THEN Stored(<<"user", "call", "result", "answer">>)
       ELSE turn.stored \in {<<>>, <<"user">>, <<"user", "answer">>}
StoredSoFar ==
  /\ turn.at \in BeforeReply => ~Ran
  /\ turn.at \in {"store_quick", "bridge_result", "store_call", "store_result", "summarize"} => Ran
  /\ Len(turn.ran) <= 1
  /\ turn.at = "idle" => ~Ran /\ turn.stored = <<>>
  /\ IF turn.path = "bridge" THEN turn.stored = <<>> ELSE StoredByPlace

(* What the client of a stream has been sent is all that was taken, once   *)
(* anything was; and all that arrived, once the turn goes on.              *)
ShownSoFar ==
  /\ turn.streamed = IF turn.emitted THEN [i \in 1..turn.taken |-> i] ELSE <<>>
  /\ turn.mode = "tool" => ~turn.emitted
  /\ turn.at \in Streaming \cup {"interpret"} => (turn.emitted => turn.mode = "text")
  /\ turn.at \in Opening => turn.got = 0 /\ turn.mode = "undecided"
  /\ turn.at \in Opening \cup Asking => ~turn.emitted /\ turn.taken = 0
  /\ turn.at = "interpret" => turn.taken = turn.got \/ (turn.path # "stream" /\ ~turn.emitted)
  /\ turn.at \in Ending \ {"failed"} => (turn.emitted => turn.taken = turn.got)

(* The text of a reply is the answer only when nothing ran, and then is    *)
(* not the raw text of a call.                                             *)
AnsweredSoFar ==
  /\ turn.at \in Streaming \cup {"interpret"} => turn.reply \in Replies
  /\ turn.answer = "text" =>
       /\ turn.at \in {"store_answer", "extract", "finished", "failed"} /\ ~Ran
       /\ turn.reply \in Replies
       /\ Whole => (LooksToolish(turn.reply) => turn.reply.shape = "nameless")

(* A prompt leaves the house for a reason that holds where it is sent.     *)
EscalatedSoFar ==
  /\ EscalationPermitted
  /\ turn.at \in Opening \ {"open_stream"} => turn.sent = {}
  /\ turn.at \in {"choose", "local", "local_last", "proxy_first", "proxy_last"} => turn.path = "chat"
  /\ turn.at = "proxy_first" => turn.overflow /\ MayEscalate("overflow")
  /\ turn.at = "proxy_last" => MayEscalate("decline") /\ \E l \in turn.sent : l.to = "local"

TurnInv == TurnTypeOK /\ PathsApart /\ StoredSoFar /\ ShownSoFar /\ AnsweredSoFar /\ EscalatedSoFar

-----------------------------------------------------------------------------
(* Operators *)

LEMMA NoRawCall ==
  ASSUME NEW r \in ReplyKinds, ParseToolCallValue(r) = NoToolCall, ~IsUnparsedToolCall(r), LooksToolish(r)
  PROVE  r.shape = "nameless"
<1>1. \A tool, args : tool # "none" => ReadCall(tool, args) # NoToolCall
  BY DEF ReadCall, NoToolCall
<1>2. r.tool # "none" /\ r.shape \in {"named", "openai", "hollow", "nameless", "broken", "inner"}
  BY DEF ReplyKinds, LooksToolish, Toolish
<1>3. CASE r.shape = "broken"
  BY <1>3 DEF IsUnparsedToolCall, ExtractJson
<1>4. CASE r.shape = "inner"
  BY <1>1, <1>2, <1>4 DEF ParseToolCallValue, ParseToolCallsForEval, ParseSingleToolCall, ExtractJson
<1>5. CASE r.shape = "named"
  BY <1>1, <1>2, <1>5 DEF ParseToolCallValue, ParseToolCallsForEval, ParseSingleToolCall, ExtractJson
<1>6. CASE r.shape \in {"openai", "hollow"}
  BY <1>1, <1>2, <1>6 DEF ParseToolCallValue, ParseToolCallsForEval, ParseSingleToolCall, ExtractJson, IsUnparsedToolCall
<1> QED
  BY <1>2, <1>3, <1>4, <1>5, <1>6

LEMMA ModesOnly ==
  ASSUME NEW p  PROVE  DetectStreamMode(p) \in {"undecided", "text", "tool"}
  BY DEF DetectStreamMode

LEMMA PiecesCounted ==
  ASSUME NEW r \in ReplyKinds  PROVE  Len(Pieces(r)) \in Nat
<1>1. DEFINE before == CASE r.lead = "fence" -> <<"fence">> [] r.lead = "split" -> <<"ticks", "ticks">>
                         [] r.lead = "prose" -> <<"word">>  [] OTHER -> <<>>
             body == IF r.shape = "none" THEN <<"word", "word">>
                     ELSE <<r.open>> \o (IF r.pad THEN <<"pad">> ELSE <<>>)
                          \o (IF Marked(r.shape) THEN <<"mark">> ELSE <<"word">>)
             Kinds == {"fence", "ticks", "word", "pad", "mark", "brace", "bracket"}
<1>2. before \in Seq(Kinds)
  <2>1. <<"fence">> \in Seq(Kinds) /\ <<"ticks", "ticks">> \in Seq(Kinds) /\ <<"word">> \in Seq(Kinds)
        /\ <<>> \in Seq(Kinds)
    OBVIOUS
  <2> HIDE DEF Kinds
  <2> QED
    BY <2>1
<1>3. body \in Seq(Kinds)
  <2>1. <<r.open>> \in Seq(Kinds) /\ <<"word", "word">> \in Seq(Kinds)
    BY DEF ReplyKinds
  <2>2. <<"pad">> \in Seq(Kinds) /\ <<"mark">> \in Seq(Kinds) /\ <<"word">> \in Seq(Kinds)
        /\ <<>> \in Seq(Kinds)
    OBVIOUS
  <2> HIDE DEF Kinds
  <2>3. (IF r.pad THEN <<"pad">> ELSE <<>>) \in Seq(Kinds)
        /\ (IF Marked(r.shape) THEN <<"mark">> ELSE <<"word">>) \in Seq(Kinds)
    BY <2>2
  <2> QED
    BY <2>1, <2>3
<1>4. Pieces(r) = before \o body
  BY DEF Pieces
<1> QED
  BY <1>2, <1>3, <1>4

LEMMA OneMore ==
  ASSUME NEW n \in Nat, NEW s, s = [i \in 1..n |-> i], NEW w, w = [i \in 1..1 |-> n + i]
  PROVE  s \o w = [i \in 1..(n + 1) |-> i]
<1>1. s \in Seq(Nat) /\ Len(s) = n
  OBVIOUS
<1>2. w \in Seq(Nat) /\ Len(w) = 1 /\ w[1] = n + 1
  OBVIOUS
<1>3. s \o w \in Seq(Nat) /\ Len(s \o w) = n + 1
      /\ \A i \in 1..(n + 1) : (s \o w)[i] = IF i <= n THEN s[i] ELSE w[i - n]
  BY <1>1, <1>2, ConcatProperties
<1>4. \A i \in 1..(n + 1) : i <= n => i \in 1..n
  OBVIOUS
<1>5. \A i \in 1..(n + 1) : ~(i <= n) => i = n + 1 /\ i - n = 1
  OBVIOUS
<1>6. \A i \in 1..(n + 1) : (s \o w)[i] = i
  BY <1>2, <1>3, <1>4, <1>5
<1> QED
  BY <1>3, <1>6

(* Whatever was held back, what the client gets is without a gap.          *)
LEMMA WrittenInOrder ==
  ASSUME NEW t, t.taken \in Nat,
         t.streamed = <<>> \/ t.streamed = [i \in 1..t.taken |-> i]
  PROVE  t.streamed \o Written(t) = [i \in 1..(t.taken + 1) |-> i]
<1>1. CASE t.streamed = <<>>
  <2>1. Written(t) = [i \in 1..(t.taken + 1) |-> i]
    BY <1>1 DEF Written
  <2>2. Written(t) \in Seq(Nat)
    BY <2>1
  <2> QED
    BY <1>1, <2>1, <2>2
<1>2. CASE t.streamed = [i \in 1..t.taken |-> i]
  <2>1. Len(t.streamed) = t.taken
    BY <1>2
  <2>2. Written(t) = [i \in 1..1 |-> t.taken + i]
    BY <2>1 DEF Written
  <2> QED
    BY <1>2, <2>2, OneMore
<1> QED
  BY <1>1, <1>2

-----------------------------------------------------------------------------
(* Steps *)

(* What a step leaves as it was: the reply and what is shown of it, what   *)
(* was done and stored, or both.                                           *)
SameTalk ==
  /\ turn'.path = turn.path /\ turn'.overflow = turn.overflow /\ turn'.reply = turn.reply
  /\ turn'.got = turn.got /\ turn'.taken = turn.taken /\ turn'.mode = turn.mode
  /\ turn'.emitted = turn.emitted /\ turn'.streamed = turn.streamed
SameRecord ==
  /\ turn'.ran = turn.ran /\ turn'.stored = turn.stored /\ turn'.lost = turn.lost
  /\ turn'.answer = turn.answer
SameWork == SameTalk /\ SameRecord

LEMMA TurnIsRecord ==
  ASSUME TurnTypeOK
  PROVE  DOMAIN turn = {"at", "path", "said", "call", "prompt", "sent", "overflow", "reply", "got", "taken",
                        "mode", "emitted", "streamed", "ran", "stored", "lost", "answer"}
<1>1. DOMAIN turn = TurnFields
  BY DEF TurnTypeOK
<1> QED
  BY <1>1 DEF TurnFields, NoTurn

LEMMA Went ==
  ASSUME TurnTypeOK, NEW s \in Places, Go(s)
  PROVE  TurnTypeOK' /\ turn'.at = s /\ SameWork /\ turn'.sent = turn.sent
<1>1. turn'.at = s /\ SameWork /\ turn'.sent = turn.sent
  BY TurnIsRecord DEF Go, SameWork, SameTalk, SameRecord
<1>2. turn' = [f \in TurnFields |-> turn'[f]]
  BY DEF Go, TurnTypeOK
<1> QED
  BY <1>1, <1>2 DEF SameWork, SameTalk, SameRecord, TurnTypeOK

(* Where a turn may be given up. *)
LEMMA FailingKeepsTurnInv ==
  ASSUME TurnInv, Go("failed"),
         turn.at \in {"gate", "store", "quick_headers", "replace", "prompt", "headers", "open_stream",
                      "extract", "interpret"} \cup Streaming
  PROVE  TurnInv'
<1>1. TurnTypeOK' /\ turn'.at = "failed" /\ SameWork /\ turn'.sent = turn.sent
  BY Went DEF TurnInv, Places, Ending
<1>2. PathsApart'
  BY <1>1 DEF TurnInv, PathsApart, SameWork, SameTalk, SameRecord
<1>3. StoredSoFar'
  <2>1. ASSUME turn.path # "bridge"  PROVE StoredByPlace'
    <3>1. StoredByPlace /\ turn.path \in {"chat", "stream"}
      BY <2>1 DEF TurnInv, StoredSoFar, TurnTypeOK
    <3>2. IF Ran THEN Stored(<<"user", "call", "result", "answer">>)
          ELSE turn.stored \in {<<>>, <<"user">>, <<"user", "answer">>}
      BY <3>1 DEF TurnInv, StoredSoFar, StoredByPlace, BeforeReply, Opening, Asking, Streaming
    <3> QED
      BY <1>1, <3>2 DEF StoredByPlace, Stored, Ran, SameWork, SameTalk, SameRecord, BeforeReply, Opening, Asking, Streaming
  <2> QED
    BY <1>1, <2>1 DEF TurnInv, StoredSoFar, Ran, SameWork, SameTalk, SameRecord, BeforeReply, Opening, Asking, Streaming
<1>4. ShownSoFar'
  BY <1>1 DEF TurnInv, ShownSoFar, SameWork, SameTalk, SameRecord, Opening, Asking, Streaming, Ending, Places, BeforeReply
<1>5. AnsweredSoFar'
  BY <1>1 DEF TurnInv, AnsweredSoFar, Ran, Whole, SameWork, SameTalk, SameRecord, Streaming
<1>6. EscalatedSoFar'
  BY <1>1 DEF TurnInv, EscalatedSoFar, EscalationPermitted, SameWork, SameTalk, SameRecord, Opening
<1> QED
  BY <1>1, <1>2, <1>3, <1>4, <1>5, <1>6 DEF TurnInv

(* Steps that only lead on. *)
LEMMA LeadingOnKeepsTurnInv ==
  ASSUME TurnInv, NEW s, Go(s),
         \/ turn.at = "gate" /\ s = IF turn.path = "chat" THEN "store" ELSE "prompt"
         \/ turn.at = "route" /\ turn.path = "chat" /\ s \in {"prompt", "run_quick"}
         \/ turn.at = "route" /\ turn.path = "stream" /\ s \in {"gate", "quick_headers"}
         \/ turn.at = "route" /\ turn.path = "bridge" /\ s \in {"post", "run_quick"}
         \/ turn.at = "quick_headers" /\ s = "run_quick"
         \/ turn.at = "replace" /\ s = "extract"
         \/ turn.at = "choose" /\ s = IF TriggersOverflow(turn) THEN "proxy_first" ELSE "local"
         \/ turn.at = "headers" /\ s = "ask_stream"
         \/ turn.at = "streaming" /\ s \in {"draining", "drain_failed"}
         \/ turn.at = "draining" /\ turn.taken = turn.got /\ s = "interpret"
         \/ turn.at = "extract" /\ s = "finished"
  PROVE  TurnInv'
<1>1. s \in Places
  BY DEF Opening, Asking, Streaming, Ending, Places, BeforeReply
<1>2. TurnTypeOK' /\ turn'.at = s /\ SameWork /\ turn'.sent = turn.sent
  BY <1>1, Went DEF TurnInv
<1>3. PathsApart'
  BY <1>2 DEF TurnInv, TurnTypeOK, PathsApart, EscalatedSoFar, SameWork, SameTalk, SameRecord
<1>4. StoredSoFar'
  <2>1. /\ s \in BeforeReply => ~Ran
        /\ s \notin {"idle", "store_quick", "bridge_result", "store_call", "store_result", "summarize"}
    BY DEF TurnInv, StoredSoFar, BeforeReply, Opening, Asking, Streaming
  <2>2. ASSUME turn.path # "bridge"  PROVE StoredByPlace'
    <3>1. StoredByPlace /\ turn.path \in {"chat", "stream"}
      BY <2>2 DEF TurnInv, StoredSoFar, TurnTypeOK
    <3>2. CASE turn.at \in {"replace", "extract"}
      BY <1>2, <3>1, <3>2 DEF StoredByPlace, Stored, Ran, SameWork, SameTalk, SameRecord, BeforeReply, Opening, Asking, Streaming
    <3>3. CASE turn.at \notin {"replace", "extract"}
      <4>1. turn.stored = <<"user">> \/ (turn.at = "gate" /\ turn.path = "chat" /\ turn.stored = <<>>)
        BY <3>1, <3>3 DEF StoredByPlace, BeforeReply, Opening, Asking, Streaming
      <4> QED
        BY <1>2, <3>1, <3>3, <4>1 DEF StoredByPlace, SameWork, SameTalk, SameRecord, BeforeReply, Opening, Asking, Streaming
    <3> QED
      BY <3>2, <3>3
  <2> QED
    BY <1>2, <2>1, <2>2 DEF TurnInv, StoredSoFar, Ran, SameWork, SameTalk, SameRecord
<1>5. ShownSoFar'
  BY <1>2 DEF TurnInv, ShownSoFar, SameWork, SameTalk, SameRecord, Opening, Asking, Streaming, Ending, Places, BeforeReply
<1>6. AnsweredSoFar'
  BY <1>2 DEF TurnInv, AnsweredSoFar, Ran, Whole, SameWork, SameTalk, SameRecord, Streaming
<1>7. EscalatedSoFar'
  BY <1>2 DEF TurnInv, EscalatedSoFar, EscalationPermitted, TriggersOverflow, PathsApart, SameWork, SameTalk, SameRecord, Opening
<1> QED
  BY <1>2, <1>3, <1>4, <1>5, <1>6, <1>7 DEF TurnInv

(* A turn that has just begun, or the place between two turns. *)
LEMMA FreshIsSound ==
  ASSUME NEW at, NEW path, NEW u, NEW c,
         turn' = [NoTurn EXCEPT !.at = at, !.path = path, !.said = u, !.call = c],
         \/ at = "gate" /\ path = "chat"
         \/ at = "store" /\ path = "stream"
         \/ at \in {"route", "failed"} /\ path = "bridge"
         \/ at = "idle" /\ path = "chat"
  PROVE  TurnInv'
<1>1. /\ turn'.at = at /\ turn'.path = path /\ turn'.overflow = FALSE /\ turn'.reply = NoReply
      /\ turn'.got = 0 /\ turn'.taken = 0 /\ turn'.mode = "undecided" /\ turn'.emitted = FALSE
      /\ turn'.streamed = <<>> /\ turn'.ran = <<>> /\ turn'.stored = <<>> /\ turn'.lost = FALSE
      /\ turn'.answer = "none" /\ turn'.sent = {}
  BY DEF NoTurn
<1>2. TurnTypeOK'
  <2>1. turn' = [f \in TurnFields |-> turn'[f]]
    BY DEF TurnFields, NoTurn
  <2>2. at \in Places
    BY DEF Places, Opening, Ending
  <2>3. turn'.at \in Places /\ turn'.path \in {"chat", "stream", "bridge"} /\ turn'.reply \in Replies \cup {NoReply}
    BY <1>1, <2>2
  <2>4. turn'.got \in Nat /\ turn'.taken \in 0..turn'.got
    BY <1>1
  <2>5. /\ turn'.overflow \in BOOLEAN /\ turn'.emitted \in BOOLEAN /\ turn'.lost \in BOOLEAN
        /\ turn'.mode \in {"undecided", "text", "tool"}
        /\ turn'.answer \in {"none", "result", "summary", "text", "fallback"}
    BY <1>1
  <2> QED
    BY <2>1, <2>3, <2>4, <2>5 DEF TurnTypeOK
<1>3. PathsApart'
  BY <1>1 DEF PathsApart
<1>4. StoredSoFar'
  <2>1. Len(turn'.ran) <= 1 /\ ~Ran'
    BY <1>1 DEF Ran
  <2>2. path # "bridge" => StoredByPlace'
    BY <1>1, <2>1 DEF StoredByPlace, BeforeReply, Opening, Asking, Streaming
  <2> QED
    BY <1>1, <2>1, <2>2 DEF StoredSoFar
<1>5. ShownSoFar'
  BY <1>1 DEF ShownSoFar, Opening, Streaming, Asking, Ending
<1>6. AnsweredSoFar'
  BY <1>1 DEF AnsweredSoFar, Streaming
<1>7. EscalatedSoFar'
  BY <1>1 DEF EscalatedSoFar, EscalationPermitted, Opening
<1> QED
  BY <1>2, <1>3, <1>4, <1>5, <1>6, <1>7 DEF TurnInv

LEMMA InitIsSound == TurnInit => TurnInv
<1> SUFFICES ASSUME TurnInit PROVE TurnInv
  OBVIOUS
<1>1. /\ turn.at = "idle" /\ turn.path = "chat" /\ turn.overflow = FALSE /\ turn.reply = NoReply
      /\ turn.got = 0 /\ turn.taken = 0 /\ turn.mode = "undecided" /\ turn.emitted = FALSE
      /\ turn.streamed = <<>> /\ turn.ran = <<>> /\ turn.stored = <<>> /\ turn.lost = FALSE
      /\ turn.answer = "none" /\ turn.sent = {}
  BY DEF TurnInit, NoTurn
<1>2. TurnTypeOK
  <2>1. turn = [f \in TurnFields |-> turn[f]]
    BY DEF TurnInit, TurnFields, NoTurn
  <2>2. turn.at \in Places
    BY <1>1 DEF Places, Opening
  <2>3. turn.path \in {"chat", "stream", "bridge"} /\ turn.reply \in Replies \cup {NoReply}
    BY <1>1
  <2>4. turn.got \in Nat /\ turn.taken \in 0..turn.got
    BY <1>1
  <2>5. /\ turn.overflow \in BOOLEAN /\ turn.emitted \in BOOLEAN /\ turn.lost \in BOOLEAN
        /\ turn.mode \in {"undecided", "text", "tool"}
        /\ turn.answer \in {"none", "result", "summary", "text", "fallback"}
    BY <1>1
  <2> QED
    BY <2>1, <2>2, <2>3, <2>4, <2>5 DEF TurnTypeOK
<1>3. Len(turn.ran) <= 1 /\ ~Ran
  BY <1>1 DEF Ran
<1>4. StoredSoFar
  BY <1>1, <1>3 DEF StoredSoFar, StoredByPlace, BeforeReply, Opening, Asking, Streaming
<1>5. ShownSoFar
  BY <1>1 DEF ShownSoFar, Opening, Streaming, Asking, Ending
<1>6. PathsApart /\ AnsweredSoFar /\ EscalatedSoFar
  BY <1>1 DEF PathsApart, AnsweredSoFar, Streaming, EscalatedSoFar, EscalationPermitted, Opening
<1> QED
  BY <1>2, <1>4, <1>5, <1>6 DEF TurnInv

LEMMA BeginningKeepsTurnInv ==
  ASSUME TurnInv, Begin \/ BeginBridge \/ Return  PROVE TurnInv'
<1>1. CASE Begin
  <2>1. PICK path \in {"chat", "stream"}, u \in Sentences :
          turn' = [NoTurn EXCEPT !.at = IF path = "chat" THEN "gate" ELSE "store", !.path = path,
                                 !.said = u, !.call = Routes[u]]
    BY <1>1 DEF Begin
  <2> QED
    BY <2>1, FreshIsSound
<1>2. CASE BeginBridge
  <2>1. PICK at \in {"route", "failed"}, u \in Sentences :
          turn' = [NoTurn EXCEPT !.at = at, !.path = "bridge", !.said = u, !.call = Routes[u]]
    BY <1>2 DEF BeginBridge
  <2> QED
    BY <2>1, FreshIsSound
<1>3. CASE Return
  <2>1. NoTurn.at = "idle" /\ NoTurn.path = "chat"
    BY DEF NoTurn
  <2>2. NoTurn = [f \in DOMAIN NoTurn |-> NoTurn[f]]
    BY DEF NoTurn
  <2>3. NoTurn = [NoTurn EXCEPT !.at = NoTurn.at, !.path = NoTurn.path, !.said = NoTurn.said,
                                !.call = NoTurn.call]
    BY <2>2
  <2>4. turn' = [NoTurn EXCEPT !.at = "idle", !.path = "chat", !.said = NoTurn.said, !.call = NoTurn.call]
    BY <1>3, <2>1, <2>3 DEF Return
  <2> QED
    BY <2>4, FreshIsSound
<1> QED
  BY <1>1, <1>2, <1>3

(* The question is stored. *)
LEMMA StoreUserKeepsTurnInv ==
  ASSUME TurnInv, StoreUser  PROVE TurnInv'
<1>1. CASE Go("failed")
  BY <1>1, FailingKeepsTurnInv DEF StoreUser, AtStep
<1>2. CASE turn' = [turn EXCEPT !.stored = <<"user">>, !.at = "route"]
  <2>1. turn.at = "store" /\ TurnTypeOK
    BY DEF StoreUser, AtStep, TurnInv
  <2>2. /\ turn'.at = "route" /\ turn'.stored = <<"user">>
        /\ turn'.path = turn.path /\ turn'.overflow = turn.overflow /\ turn'.reply = turn.reply
        /\ turn'.got = turn.got /\ turn'.taken = turn.taken /\ turn'.mode = turn.mode
        /\ turn'.emitted = turn.emitted /\ turn'.streamed = turn.streamed /\ turn'.ran = turn.ran
        /\ turn'.lost = turn.lost /\ turn'.answer = turn.answer /\ turn'.sent = turn.sent
    BY <1>2, <2>1, TurnIsRecord
  <2>3. TurnTypeOK'
    <3>1. turn' = [f \in TurnFields |-> turn'[f]]
      BY <1>2, <2>1 DEF TurnTypeOK
    <3> QED
      BY <2>1, <2>2, <3>1 DEF TurnTypeOK, Places, Opening
  <2>4. turn.path # "bridge" /\ PathsApart'
    BY <2>1, <2>2 DEF TurnInv, PathsApart
  <2>5. StoredSoFar'
    BY <2>1, <2>2, <2>4 DEF TurnInv, StoredSoFar, StoredByPlace, Ran, BeforeReply, Opening, Asking, Streaming
  <2>6. ShownSoFar'
    BY <2>1, <2>2 DEF TurnInv, ShownSoFar, Opening, Asking, Streaming, Ending
  <2>7. AnsweredSoFar' /\ EscalatedSoFar'
    BY <2>1, <2>2 DEF TurnInv, AnsweredSoFar, Streaming, EscalatedSoFar, EscalationPermitted, Opening
  <2> QED
    BY <2>3, <2>4, <2>5, <2>6, <2>7 DEF TurnInv
<1> QED
  BY <1>1, <1>2 DEF StoreUser

(* A routed call runs at once, and what it did is stored. *)
LEMMA RunQuickKeepsTurnInv ==
  ASSUME TurnInv, RunQuick  PROVE TurnInv'
<1>1. turn.at = "run_quick" /\ TurnTypeOK /\ turn.ran = <<>>
  BY DEF RunQuick, AtStep, TurnInv, StoredSoFar, Ran, BeforeReply, Opening
<1>2. /\ turn'.at = AfterQuickRun(turn) /\ turn'.ran = <<turn.call>> /\ turn'.answer = "result"
      /\ turn'.path = turn.path /\ turn'.overflow = turn.overflow /\ turn'.reply = turn.reply
      /\ turn'.got = turn.got /\ turn'.taken = turn.taken /\ turn'.mode = turn.mode
      /\ turn'.emitted = turn.emitted /\ turn'.streamed = turn.streamed /\ turn'.stored = turn.stored
      /\ turn'.lost = turn.lost /\ turn'.sent = turn.sent
  <2>1. Append(turn.ran, turn.call) = <<turn.call>>
    BY <1>1
  <2> QED
    BY <1>1, <2>1, TurnIsRecord DEF RunQuick
<1>3. turn'.at = IF turn.path = "bridge" THEN "extract" ELSE "store_quick"
  BY <1>2 DEF AfterQuickRun
<1>4. TurnTypeOK'
  <2>1. turn' = [f \in TurnFields |-> turn'[f]]
    BY <1>1 DEF TurnTypeOK, RunQuick
  <2>2. turn'.at \in Places
    BY <1>3 DEF Places, Ending
  <2> QED
    BY <1>1, <1>2, <2>1, <2>2 DEF TurnTypeOK
<1>5. PathsApart'
  BY <1>2, <1>3 DEF TurnInv, PathsApart
<1>6. StoredSoFar'
  <2>1. Ran' /\ Len(turn'.ran) <= 1
    BY <1>2 DEF Ran
  <2> QED
    BY <1>1, <1>2, <1>3, <2>1 DEF TurnInv, StoredSoFar, StoredByPlace, BeforeReply, Opening, Asking, Streaming
<1>7. ShownSoFar'
  BY <1>1, <1>2, <1>3 DEF TurnInv, ShownSoFar, Opening, Asking, Streaming, Ending
<1>8. AnsweredSoFar' /\ EscalatedSoFar'
  BY <1>1, <1>2, <1>3 DEF TurnInv, AnsweredSoFar, Streaming, EscalatedSoFar, EscalationPermitted, Opening
<1> QED
  BY <1>4, <1>5, <1>6, <1>7, <1>8 DEF TurnInv

(* append_or_log: the message is stored, or a loss is noted. *)
Kept(ms) == \/ turn'.stored = ms /\ turn'.lost = turn.lost
            \/ turn'.stored = turn.stored /\ turn'.lost = TRUE

LEMMA BatchIsWhole == <<"user">> \o <<"call", "result", "answer">> = <<"user", "call", "result", "answer">>
<1> DEFINE Kinds == {"user", "call", "result", "answer"}
           s == <<"user">>
           b == <<"call", "result", "answer">>
<1>1. s \in Seq(Kinds) /\ b \in Seq(Kinds) /\ Len(s) = 1 /\ Len(b) = 3
  OBVIOUS
<1>2. /\ s \o b \in Seq(Kinds) /\ Len(s \o b) = 4
      /\ \A i \in 1..4 : (s \o b)[i] = IF i <= 1 THEN s[i] ELSE b[i - 1]
  <2> HIDE DEF s, b, Kinds
  <2>1. /\ s \o b \in Seq(Kinds) /\ Len(s \o b) = Len(s) + Len(b)
        /\ \A i \in 1..(Len(s) + Len(b)) : (s \o b)[i] = IF i <= Len(s) THEN s[i] ELSE b[i - Len(s)]
    BY <1>1, ConcatProperties
  <2> QED
    BY <1>1, <2>1
<1>3. (s \o b)[1] = "user" /\ (s \o b)[2] = "call" /\ (s \o b)[3] = "result" /\ (s \o b)[4] = "answer"
  BY <1>2
<1> QED
  <2>1. \A c \in Seq(Kinds) : Len(c) = 4 /\ c[1] = "user" /\ c[2] = "call" /\ c[3] = "result" /\ c[4] = "answer"
           => c = <<"user", "call", "result", "answer">>
    OBVIOUS
  <2> QED
    BY <1>2, <1>3, <2>1

LEMMA OneByOne ==
  /\ Append(<<"user">>, "call") = <<"user", "call">>
  /\ Append(<<"user", "call">>, "result") = <<"user", "call", "result">>
  /\ Append(<<"user", "call", "result">>, "answer") = <<"user", "call", "result", "answer">>
  /\ Append(<<"user">>, "answer") = <<"user", "answer">>
<1> DEFINE Kinds == {"user", "call", "result", "answer"}
<1>1. ASSUME NEW s \in Seq(Kinds), NEW m \in Kinds, NEW n \in Nat, Len(s) = n
      PROVE  /\ Append(s, m) \in Seq(Kinds) /\ Len(Append(s, m)) = n + 1 /\ Append(s, m)[n + 1] = m
             /\ \A i \in 1..n : Append(s, m)[i] = s[i]
  <2> HIDE DEF Kinds
  <2> QED
    BY <1>1, AppendProperties
<1>2. /\ <<"user">> \in Seq(Kinds) /\ <<"user", "call">> \in Seq(Kinds)
      /\ <<"user", "call", "result">> \in Seq(Kinds)
  OBVIOUS
<1>3. \A c \in Seq(Kinds), a \in Kinds, b \in Kinds : Len(c) = 2 /\ c[1] = a /\ c[2] = b => c = <<a, b>>
  OBVIOUS
<1>4. \A c \in Seq(Kinds) : Len(c) = 3 /\ c[1] = "user" /\ c[2] = "call" /\ c[3] = "result"
        => c = <<"user", "call", "result">>
  OBVIOUS
<1>5. \A c \in Seq(Kinds) : Len(c) = 4 /\ c[1] = "user" /\ c[2] = "call" /\ c[3] = "result" /\ c[4] = "answer"
        => c = <<"user", "call", "result", "answer">>
  OBVIOUS
<1>6. ASSUME NEW s, s = <<"user">>  PROVE Append(s, "call") = <<"user", "call">>
  <2>1. s \in Seq(Kinds) /\ Len(s) = 1 /\ s[1] = "user"
    BY <1>6
  <2>2. "call" \in Kinds /\ 1 \in Nat
    OBVIOUS
  <2> HIDE DEF Kinds
  <2>3. /\ Append(s, "call") \in Seq(Kinds) /\ Len(Append(s, "call")) = 2
        /\ Append(s, "call")[2] = "call" /\ \A i \in 1..1 : Append(s, "call")[i] = s[i]
    BY <1>1, <2>1, <2>2
  <2>4. ASSUME NEW c \in Seq(Kinds), Len(c) = 2, c[2] = "call", \A i \in 1..1 : c[i] = s[i]
        PROVE  c = <<"user", "call">>
    BY <1>3, <2>1, <2>4
  <2> QED
    BY <2>3, <2>4, Zenon
<1>7. ASSUME NEW s, s = <<"user">>  PROVE Append(s, "answer") = <<"user", "answer">>
  <2>1. s \in Seq(Kinds) /\ Len(s) = 1 /\ s[1] = "user"
    BY <1>7
  <2>2. "answer" \in Kinds /\ 1 \in Nat
    OBVIOUS
  <2> HIDE DEF Kinds
  <2>3. /\ Append(s, "answer") \in Seq(Kinds) /\ Len(Append(s, "answer")) = 2
        /\ Append(s, "answer")[2] = "answer" /\ \A i \in 1..1 : Append(s, "answer")[i] = s[i]
    BY <1>1, <2>1, <2>2
  <2>4. ASSUME NEW c \in Seq(Kinds), Len(c) = 2, c[2] = "answer", \A i \in 1..1 : c[i] = s[i]
        PROVE  c = <<"user", "answer">>
    BY <1>3, <2>1, <2>4
  <2> QED
    BY <2>3, <2>4, Zenon
<1>8. ASSUME NEW s, s = <<"user", "call">>  PROVE Append(s, "result") = <<"user", "call", "result">>
  <2>1. s \in Seq(Kinds) /\ Len(s) = 2 /\ s[1] = "user" /\ s[2] = "call"
    BY <1>8
  <2>2. "result" \in Kinds /\ 2 \in Nat
    OBVIOUS
  <2> HIDE DEF Kinds
  <2>3. /\ Append(s, "result") \in Seq(Kinds) /\ Len(Append(s, "result")) = 3
        /\ Append(s, "result")[3] = "result" /\ \A i \in 1..2 : Append(s, "result")[i] = s[i]
    BY <1>1, <2>1, <2>2, SMTT(30)
  <2>4. ASSUME NEW c \in Seq(Kinds), Len(c) = 3, c[3] = "result", \A i \in 1..2 : c[i] = s[i]
        PROVE  c = <<"user", "call", "result">>
    BY <1>4, <2>1, <2>4
  <2> QED
    BY <2>3, <2>4, Zenon
<1>9. ASSUME NEW s, s = <<"user", "call", "result">>  PROVE Append(s, "answer") = <<"user", "call", "result", "answer">>
  <2>1. s \in Seq(Kinds) /\ Len(s) = 3 /\ s[1] = "user" /\ s[2] = "call" /\ s[3] = "result"
    BY <1>9
  <2>2. "answer" \in Kinds /\ 3 \in Nat
    OBVIOUS
  <2> HIDE DEF Kinds
  <2>3. /\ Append(s, "answer") \in Seq(Kinds) /\ Len(Append(s, "answer")) = 4
        /\ Append(s, "answer")[4] = "answer" /\ \A i \in 1..3 : Append(s, "answer")[i] = s[i]
    BY <1>1, <2>1, <2>2
  <2>4. ASSUME NEW c \in Seq(Kinds), Len(c) = 4, c[4] = "answer", \A i \in 1..3 : c[i] = s[i]
        PROVE  c = <<"user", "call", "result", "answer">>
    BY <1>5, <2>1, <2>4
  <2> QED
    BY <2>3, <2>4, Zenon
<1> QED
  BY <1>6, <1>7, <1>8, <1>9

(* From the first message stored after the call to the last. *)
LEMMA StoringKeepsTurnInv ==
  ASSUME TurnInv, turn' = [f \in TurnFields |-> turn'[f]],
         SameTalk, turn'.ran = turn.ran, turn'.sent = turn.sent, turn'.answer = turn.answer,
         \/ /\ turn.at = "store_quick" /\ Kept(turn.stored \o <<"call", "result", "answer">>)
            /\ turn'.at = IF turn.path = "stream" THEN "replace" ELSE "extract"
         \/ turn.at = "store_call" /\ turn'.at = "store_result" /\ Kept(Append(turn.stored, "call"))
         \/ turn.at = "store_result" /\ turn'.at \in {"summarize", "store_answer"} /\ Kept(Append(turn.stored, "result"))
         \/ /\ turn.at = "store_answer" /\ Kept(Append(turn.stored, "answer"))
            /\ turn'.at \in {"replace", "extract"} /\ (turn'.at = "replace" => Ran)
  PROVE  TurnInv'
<1>1. TurnTypeOK /\ turn.path # "bridge" /\ turn.path \in {"chat", "stream"} /\ StoredByPlace
  BY DEF TurnInv, PathsApart, TurnTypeOK, StoredSoFar
<1>2. TurnTypeOK'
  BY <1>1 DEF SameTalk, TurnTypeOK, Kept, Places, Ending
<1>3. PathsApart'
  BY <1>1 DEF SameTalk, PathsApart
<1>4. <<"user">> \o <<"call", "result", "answer">> = <<"user", "call", "result", "answer">>
  BY BatchIsWhole
<1>5. /\ Append(<<"user">>, "call") = <<"user", "call">>
      /\ Append(<<"user", "call">>, "result") = <<"user", "call", "result">>
      /\ Append(<<"user", "call", "result">>, "answer") = <<"user", "call", "result", "answer">>
      /\ Append(<<"user">>, "answer") = <<"user", "answer">>
  BY OneByOne
<1>6. StoredSoFar'
  <2>1. turn.at # "store_answer" => Ran
    BY DEF TurnInv, StoredSoFar
  <2>2. StoredByPlace'
    <3>1. CASE turn.at = "store_quick"
      BY <1>1, <1>4, <2>1, <3>1 DEF Kept, StoredByPlace, Stored, Ran, BeforeReply, Opening, Asking, Streaming
    <3>2. CASE turn.at = "store_call"
      BY <1>1, <1>5, <2>1, <3>2 DEF Kept, StoredByPlace, Stored, Ran, BeforeReply, Opening, Asking, Streaming
    <3>3. CASE turn.at = "store_result"
      BY <1>1, <1>5, <2>1, <3>3 DEF Kept, StoredByPlace, Stored, Ran, BeforeReply, Opening, Asking, Streaming
    <3>4. CASE turn.at = "store_answer"
      BY <1>1, <1>5, <3>4 DEF Kept, StoredByPlace, Stored, Ran, BeforeReply, Opening, Asking, Streaming
    <3> QED
      BY <3>1, <3>2, <3>3, <3>4
  <2> QED
    BY <1>1, <2>1, <2>2 DEF TurnInv, StoredSoFar, Ran, SameTalk, BeforeReply, Opening, Asking, Streaming
<1>7. ShownSoFar'
  BY <1>1 DEF TurnInv, ShownSoFar, SameTalk, Opening, Asking, Streaming, Ending
<1>8. AnsweredSoFar' /\ EscalatedSoFar'
  BY <1>1 DEF TurnInv, AnsweredSoFar, Whole, Ran, Streaming, EscalatedSoFar, EscalationPermitted, SameTalk, Opening
<1> QED
  BY <1>2, <1>3, <1>6, <1>7, <1>8 DEF TurnInv

LEMMA StoreStepsKeepTurnInv ==
  ASSUME TurnInv, StoreQuick \/ StoreCall \/ StoreResult \/ StoreAnswer  PROVE TurnInv'
<1>1. TurnTypeOK
  BY DEF TurnInv
<1>2. CASE StoreQuick
  <2>1. turn' = [f \in TurnFields |-> turn'[f]]
    BY <1>1, <1>2 DEF TurnTypeOK, StoreQuick
  <2>2. /\ turn.at = "store_quick" /\ Kept(turn.stored \o <<"call", "result", "answer">>)
        /\ turn'.at = IF turn.path = "stream" THEN "replace" ELSE "extract"
        /\ SameTalk /\ turn'.ran = turn.ran /\ turn'.sent = turn.sent /\ turn'.answer = turn.answer
    BY <1>1, <1>2, TurnIsRecord DEF StoreQuick, AtStep, Kept, SameTalk
  <2> QED
    BY <2>1, <2>2, StoringKeepsTurnInv
<1>3. CASE StoreCall
  <2>1. turn' = [f \in TurnFields |-> turn'[f]]
    BY <1>1, <1>3 DEF TurnTypeOK, StoreCall, OrLost
  <2>2. /\ turn.at = "store_call" /\ Kept(Append(turn.stored, "call")) /\ turn'.at = "store_result"
        /\ SameTalk /\ turn'.ran = turn.ran /\ turn'.sent = turn.sent /\ turn'.answer = turn.answer
    BY <1>1, <1>3, TurnIsRecord DEF StoreCall, OrLost, AtStep, Kept, SameTalk
  <2> QED
    BY <2>1, <2>2, StoringKeepsTurnInv
<1>4. CASE StoreResult
  <2>1. turn' = [f \in TurnFields |-> turn'[f]]
    BY <1>1, <1>4 DEF TurnTypeOK, StoreResult, OrLost
  <2>2. /\ turn.at = "store_result" /\ Kept(Append(turn.stored, "result")) /\ turn'.at \in {"summarize", "store_answer"}
        /\ SameTalk /\ turn'.ran = turn.ran /\ turn'.sent = turn.sent /\ turn'.answer = turn.answer
    BY <1>1, <1>4, TurnIsRecord DEF StoreResult, OrLost, AtStep, Kept, SameTalk
  <2> QED
    BY <2>1, <2>2, StoringKeepsTurnInv
<1>5. CASE StoreAnswer
  <2>1. turn' = [f \in TurnFields |-> turn'[f]]
    BY <1>1, <1>5 DEF TurnTypeOK, StoreAnswer, OrLost
  <2>2. /\ turn.at = "store_answer" /\ Kept(Append(turn.stored, "answer"))
        /\ turn'.at \in {"replace", "extract"} /\ (turn'.at = "replace" => Ran)
        /\ SameTalk /\ turn'.ran = turn.ran /\ turn'.sent = turn.sent /\ turn'.answer = turn.answer
    BY <1>1, <1>5, TurnIsRecord DEF StoreAnswer, OrLost, AtStep, Kept, SameTalk, Ran
  <2> QED
    BY <2>1, <2>2, StoringKeepsTurnInv
<1> QED
  BY <1>2, <1>3, <1>4, <1>5

(* The result of a call is put into a sentence, or is the answer. *)
LEMMA SummingUpKeepsTurnInv ==
  ASSUME TurnInv, Summarize \/ BridgeResult  PROVE TurnInv'
<1>1. TurnTypeOK /\ Ran
  BY DEF TurnInv, StoredSoFar, Summarize, BridgeResult, AtStep
<1>2. PICK a \in {"summary", "result"} :
        \/ turn.at = "summarize" /\ turn' = [turn EXCEPT !.answer = a, !.at = "store_answer"]
        \/ turn.at = "bridge_result" /\ turn' = [turn EXCEPT !.answer = a, !.at = "extract"]
  BY DEF Summarize, BridgeResult, AtStep
<1>3. /\ turn'.at = IF turn.at = "summarize" THEN "store_answer" ELSE "extract"
      /\ turn'.answer = a /\ SameTalk /\ turn'.ran = turn.ran /\ turn'.stored = turn.stored
      /\ turn'.lost = turn.lost /\ turn'.sent = turn.sent
  BY <1>1, <1>2, TurnIsRecord DEF SameTalk
<1>4. TurnTypeOK'
  <2>1. turn' = [f \in TurnFields |-> turn'[f]]
    BY <1>1, <1>2 DEF TurnTypeOK
  <2> QED
    BY <1>1, <1>3, <2>1 DEF TurnTypeOK, SameTalk, Places, Ending
<1>5. PathsApart'
  BY <1>2, <1>3 DEF TurnInv, PathsApart, SameTalk
<1>6. StoredSoFar'
  <2>1. turn.path # "bridge" => turn.at = "summarize"
    BY <1>2 DEF TurnInv, PathsApart
  <2>2. ASSUME turn.path # "bridge"  PROVE StoredByPlace'
    BY <1>1, <1>3, <2>1, <2>2 DEF TurnInv, StoredSoFar, StoredByPlace, Stored, Ran, BeforeReply, Opening, Asking, Streaming
  <2> QED
    BY <1>1, <1>2, <1>3, <2>2 DEF TurnInv, StoredSoFar, Ran, SameTalk, BeforeReply, Opening, Asking, Streaming
<1>7. ShownSoFar'
  BY <1>2, <1>3 DEF TurnInv, ShownSoFar, SameTalk, Opening, Asking, Streaming, Ending
<1>8. AnsweredSoFar' /\ EscalatedSoFar'
  BY <1>2, <1>3 DEF TurnInv, AnsweredSoFar, Streaming, EscalatedSoFar, EscalationPermitted, SameTalk, Opening
<1> QED
  BY <1>4, <1>5, <1>6, <1>7, <1>8 DEF TurnInv

(* The prompt is built: from here on the request may be too long. *)
LEMMA PromptingKeepsTurnInv ==
  ASSUME TurnInv, BuildPrompt \/ BuildBridgePrompt  PROVE TurnInv'
<1>1. TurnTypeOK
  BY DEF TurnInv
<1>2. CASE turn.at = "prompt" /\ Go("failed")
  BY <1>2, FailingKeepsTurnInv
<1>3. CASE \/ /\ turn.at = "prompt"
              /\ \E ms : \E long \in BOOLEAN :
                   turn' = [turn EXCEPT !.said = NoTurn.said, !.prompt = ms, !.overflow = long,
                                        !.at = IF turn.path = "chat" THEN "choose" ELSE "headers"]
           \/ /\ turn.at = "post"
              /\ \E ms : turn' = [turn EXCEPT !.said = NoTurn.said, !.prompt = ms, !.at = "bridge"]
  <2>1. /\ turn'.at = IF turn.at = "post" THEN "bridge" ELSE IF turn.path = "chat" THEN "choose" ELSE "headers"
        /\ turn'.path = turn.path /\ turn'.overflow \in BOOLEAN /\ turn'.reply = turn.reply
        /\ turn'.got = turn.got /\ turn'.taken = turn.taken /\ turn'.mode = turn.mode
        /\ turn'.emitted = turn.emitted /\ turn'.streamed = turn.streamed /\ turn'.sent = turn.sent
        /\ SameRecord
    BY <1>1, <1>3, TurnIsRecord DEF SameRecord, TurnTypeOK
  <2>2. turn' = [f \in TurnFields |-> turn'[f]]
    BY <1>1, <1>3 DEF TurnTypeOK
  <2>3. turn.path = "bridge" <=> turn.at = "post"
    BY <1>3 DEF TurnInv, PathsApart
  <2>4. TurnTypeOK'
    BY <1>1, <2>1, <2>2 DEF TurnTypeOK, SameRecord, Places, Opening, Asking
  <2>5. PathsApart'
    BY <2>1, <2>3 DEF PathsApart
  <2>6. StoredSoFar'
    <3>1. ~Ran /\ (turn.path # "bridge" => turn.stored = <<"user">>)
      BY <1>3 DEF TurnInv, StoredSoFar, StoredByPlace, BeforeReply, Opening, Asking, Streaming
    <3> QED
      BY <2>1, <2>3, <3>1 DEF TurnInv, StoredSoFar, StoredByPlace, Ran, SameRecord, BeforeReply, Opening, Asking, Streaming
  <2>7. ShownSoFar'
    BY <1>3, <2>1 DEF TurnInv, ShownSoFar, Opening, Asking, Streaming, Ending
  <2>8. AnsweredSoFar' /\ EscalatedSoFar'
    <3>1. turn.sent = {}
      BY <1>3 DEF TurnInv, EscalatedSoFar, Opening
    <3> QED
      BY <1>3, <2>1, <3>1 DEF TurnInv, AnsweredSoFar, Streaming, EscalatedSoFar, EscalationPermitted, SameRecord
  <2> QED
    BY <2>4, <2>5, <2>6, <2>7, <2>8 DEF TurnInv
<1>4. \A ms : (EstimateBytes(ms) > Context) \in BOOLEAN
  OBVIOUS
<1>5. CASE BuildPrompt
  <2>1. CASE \E ms : turn' = [turn EXCEPT !.said = NoTurn.said, !.prompt = ms,
                                         !.overflow = EstimateBytes(ms) > Context,
                                         !.at = IF turn.path = "chat" THEN "choose" ELSE "headers"]
    BY <1>3, <1>4, <1>5, <2>1, Zenon DEF BuildPrompt, AtStep
  <2> QED
    BY <1>2, <1>5, <2>1 DEF BuildPrompt, AtStep
<1>6. CASE BuildBridgePrompt
  BY <1>3, <1>6 DEF BuildBridgePrompt, AtStep
<1> QED
  BY <1>5, <1>6

-----------------------------------------------------------------------------
(* The models *)

(* One request to the local model, or to the proxy for a reason that is    *)
(* configured and has occurred; where a failure leads.                     *)
LEMMA AskingKeepsTurnInv ==
  ASSUME TurnInv, NEW to, NEW body, NEW reason, NEW failure, AskModel(to, body, reason, failure),
         \/ turn.at = "proxy_first" /\ to = "proxy" /\ reason = "overflow" /\ failure = "local_last"
         \/ /\ turn.at = "local" /\ to = "local"
            /\ failure = IF MayEscalate("decline") THEN "proxy_last" ELSE "failed"
         \/ turn.at \in {"local_last", "bridge"} /\ to = "local" /\ failure = "failed"
         \/ turn.at = "proxy_last" /\ to = "proxy" /\ reason = "decline" /\ failure = "failed"
  PROVE  TurnInv'
<1> DEFINE sent == turn.sent \cup {Sent(to, body, reason)}
<1>1. TurnTypeOK
  BY DEF TurnInv
<1>2. \/ \E r \in Replies : /\ turn'.at = "interpret" /\ turn'.reply = r /\ turn'.got = Len(Pieces(r))
                            /\ turn'.got \in Nat
      \/ turn'.at \in {turn.at, failure} /\ turn'.reply = turn.reply /\ turn'.got = turn.got
  <2>1. \A r \in Replies : Len(Pieces(r)) \in Nat
    BY PiecesCounted, ChatTurnAssumption
  <2> QED
    BY <1>1, <2>1, TurnIsRecord DEF AskModel
<1>3. /\ turn'.sent = sent /\ turn'.path = turn.path /\ turn'.overflow = turn.overflow
      /\ turn'.taken = turn.taken /\ turn'.mode = turn.mode
      /\ turn'.emitted = turn.emitted /\ turn'.streamed = turn.streamed /\ SameRecord
  BY <1>1, TurnIsRecord DEF AskModel, SameRecord
<1>4. turn.path \in {"chat", "bridge"} /\ (turn.path = "bridge" <=> turn.at = "bridge")
  BY <1>1 DEF TurnInv, PathsApart, EscalatedSoFar
<1>5. TurnTypeOK'
  <2>1. turn' = [f \in TurnFields |-> turn'[f]]
    BY <1>1 DEF TurnTypeOK, AskModel
  <2>2. turn'.at \in Places /\ turn'.got \in Nat /\ turn'.reply \in Replies \cup {NoReply}
    BY <1>1, <1>2 DEF TurnTypeOK, Places, Asking, Ending
  <2>3. turn.taken = 0
    BY DEF TurnInv, ShownSoFar, Asking
  <2> QED
    BY <1>1, <1>3, <2>1, <2>2, <2>3 DEF TurnTypeOK, SameRecord
<1>6. PathsApart'
  BY <1>2, <1>3, <1>4 DEF PathsApart
<1>7. StoredSoFar'
  <2>1. ~Ran /\ (turn.path # "bridge" => turn.stored = <<"user">>)
    BY DEF TurnInv, StoredSoFar, StoredByPlace, BeforeReply, Opening, Asking, Streaming
  <2>2. turn'.at \in Asking \cup {"interpret", "failed"}
    BY <1>2 DEF Asking
  <2> QED
    BY <1>3, <2>1, <2>2 DEF TurnInv, StoredSoFar, StoredByPlace, Ran, SameRecord, BeforeReply, Opening, Asking, Streaming
<1>8. ShownSoFar'
  <2>1. ~turn.emitted /\ turn.taken = 0
    BY DEF TurnInv, ShownSoFar, Asking
  <2>2. turn'.at \in Asking \cup {"interpret", "failed"}
    BY <1>2 DEF Asking
  <2> QED
    BY <1>3, <1>4, <2>1, <2>2 DEF TurnInv, ShownSoFar, Opening, Asking, Streaming, Ending
<1>9. AnsweredSoFar'
  BY <1>2, <1>3 DEF TurnInv, AnsweredSoFar, Streaming, SameRecord
<1>10. EscalatedSoFar'
  <2>1. Sent(to, body, reason).to = to /\ Sent(to, body, reason).reason = reason
    BY DEF Sent
  <2>2. to = "proxy" => /\ turn.path = "chat" /\ MayEscalate(reason)
                        /\ IF reason = "overflow" THEN turn.overflow ELSE \E l \in turn.sent : l.to = "local"
    BY DEF TurnInv, EscalatedSoFar
  <2>3. EscalationPermitted'
    BY <1>3, <2>1, <2>2 DEF TurnInv, EscalatedSoFar, EscalationPermitted, MayEscalate
  <2>4. turn'.at = "proxy_last" => MayEscalate("decline") /\ \E l \in sent : l.to = "local"
    BY <1>2, <2>1 DEF TurnInv, EscalatedSoFar
  <2> QED
    BY <1>2, <1>3, <1>4, <2>3, <2>4 DEF TurnInv, EscalatedSoFar, Opening
<1> QED
  BY <1>5, <1>6, <1>7, <1>8, <1>9, <1>10 DEF TurnInv

-----------------------------------------------------------------------------
(* The stream *)

LEMMA StreamOpensKeepsTurnInv ==
  ASSUME TurnInv, AskStream \/ OpenStream  PROVE TurnInv'
<1>1. TurnTypeOK
  BY DEF TurnInv
<1>2. CASE turn.at = "open_stream" /\ Go("failed")
  BY <1>2, FailingKeepsTurnInv
<1>3. CASE AskStream \/ (turn.at = "open_stream" /\ \E r \in Replies : turn' = [Asked EXCEPT !.reply = r, !.at = "streaming"])
  <2>1. /\ turn'.path = turn.path /\ turn'.got = turn.got /\ turn'.taken = turn.taken /\ turn'.mode = turn.mode
        /\ turn'.emitted = turn.emitted /\ turn'.streamed = turn.streamed
        /\ SameRecord
        /\ \/ /\ turn.at = "ask_stream" /\ turn'.at = "open_stream" /\ turn'.reply = turn.reply
              /\ turn'.sent = turn.sent \cup {Sent("local", PrepareBody(turn.prompt), "turn")}
              /\ turn'.overflow = turn.overflow
           \/ /\ turn.at = "open_stream" /\ turn'.at = "streaming" /\ turn'.reply \in Replies
              /\ turn'.sent = {} /\ turn'.overflow = FALSE
    BY <1>1, <1>3, TurnIsRecord DEF AskStream, AtStep, Asked, SameRecord
  <2>2. turn' = [f \in TurnFields |-> turn'[f]]
    BY <1>1, <1>3 DEF TurnTypeOK, AskStream, Asked
  <2>3. TurnTypeOK'
    BY <1>1, <2>1, <2>2 DEF TurnTypeOK, SameRecord, Places, Opening, Streaming
  <2>4. turn.path # "bridge" /\ PathsApart'
    BY <2>1 DEF TurnInv, PathsApart
  <2>5. StoredSoFar'
    <3>1. ~Ran /\ turn.stored = <<"user">>
      BY <2>1, <2>4 DEF TurnInv, StoredSoFar, StoredByPlace, BeforeReply, Opening, Asking, Streaming
    <3> QED
      BY <2>1, <2>4, <3>1 DEF TurnInv, StoredSoFar, StoredByPlace, Ran, SameRecord, BeforeReply, Opening, Asking, Streaming
  <2>6. ShownSoFar'
    BY <2>1 DEF TurnInv, ShownSoFar, Opening, Asking, Streaming, Ending
  <2>7. AnsweredSoFar'
    BY <2>1 DEF TurnInv, AnsweredSoFar, Streaming, SameRecord
  <2>8. EscalatedSoFar'
    <3>1. Sent("local", PrepareBody(turn.prompt), "turn").to = "local"
      BY DEF Sent
    <3>2. EscalationPermitted'
      BY <2>1, <3>1 DEF TurnInv, EscalatedSoFar, EscalationPermitted
    <3> QED
      BY <2>1, <3>2 DEF EscalatedSoFar, Opening
  <2> QED
    BY <2>3, <2>4, <2>5, <2>6, <2>7, <2>8 DEF TurnInv
<1> QED
  BY <1>2, <1>3 DEF OpenStream, AtStep

(* A piece is read, or written to the client. *)
LEMMA PieceKeepsTurnInv ==
  ASSUME TurnInv, turn' = [f \in TurnFields |-> turn'[f]], turn.at \in Streaming,
         turn'.at = turn.at, turn'.path = turn.path, turn'.overflow = turn.overflow,
         turn'.reply = turn.reply, turn'.sent = turn.sent, SameRecord,
         \/ /\ turn'.got = turn.got + 1 /\ turn'.taken = turn.taken /\ turn'.mode = turn.mode
            /\ turn'.emitted = turn.emitted /\ turn'.streamed = turn.streamed
         \/ /\ turn.taken < turn.got /\ turn'.got = turn.got /\ turn'.taken = turn.taken + 1
            /\ turn'.mode \in {"undecided", "text", "tool"} /\ (turn.mode # "undecided" => turn'.mode = turn.mode)
            /\ turn'.emitted = (turn.emitted \/ turn'.mode = "text")
            /\ turn'.streamed = IF turn'.mode = "text" THEN [i \in 1..(turn.taken + 1) |-> i] ELSE turn.streamed
  PROVE  TurnInv'
<1>1. TurnTypeOK
  BY DEF TurnInv
<1>2. TurnTypeOK'
  <2>1. turn'.got \in Nat /\ turn'.taken \in 0..turn'.got
    BY <1>1 DEF TurnTypeOK
  <2>2. turn'.mode \in {"undecided", "text", "tool"} /\ turn'.emitted \in BOOLEAN
    BY <1>1 DEF TurnTypeOK
  <2> QED
    BY <1>1, <2>1, <2>2 DEF TurnTypeOK, SameRecord
<1>3. PathsApart'
  BY DEF TurnInv, PathsApart
<1>4. StoredSoFar'
  <2>1. ~Ran /\ (turn.path # "bridge" => turn.stored = <<"user">>)
    BY DEF TurnInv, StoredSoFar, StoredByPlace, BeforeReply, Opening, Asking, Streaming
  <2> QED
    BY <2>1 DEF TurnInv, StoredSoFar, StoredByPlace, Ran, SameRecord, BeforeReply, Opening, Asking, Streaming
<1>5. ShownSoFar'
  <2>1. (turn.emitted => turn.mode = "text") /\ (turn.mode = "tool" => ~turn.emitted)
    BY DEF TurnInv, ShownSoFar
  <2>2. turn'.streamed = IF turn'.emitted THEN [i \in 1..turn'.taken |-> i] ELSE <<>>
    BY <2>1 DEF TurnInv, ShownSoFar
  <2>3. (turn'.mode = "tool" => ~turn'.emitted) /\ (turn'.emitted => turn'.mode = "text")
    BY <2>1
  <2> QED
    BY <2>2, <2>3 DEF ShownSoFar, Opening, Asking, Streaming, Ending
<1>6. AnsweredSoFar'
  BY DEF TurnInv, AnsweredSoFar, Streaming, SameRecord
<1>7. EscalatedSoFar'
  BY DEF TurnInv, EscalatedSoFar, EscalationPermitted, Streaming, Opening
<1> QED
  BY <1>2, <1>3, <1>4, <1>5, <1>6, <1>7 DEF TurnInv

LEMMA StreamingKeepsTurnInv ==
  ASSUME TurnInv, PieceArrives \/ TakePiece  PROVE TurnInv'
<1>1. TurnTypeOK
  BY DEF TurnInv
<1>2. CASE PieceArrives
  <2>1. turn' = [f \in TurnFields |-> turn'[f]]
    BY <1>1, <1>2 DEF TurnTypeOK, PieceArrives
  <2>2. /\ turn.at \in Streaming /\ turn'.at = turn.at /\ turn'.path = turn.path
        /\ turn'.overflow = turn.overflow /\ turn'.reply = turn.reply /\ turn'.sent = turn.sent /\ SameRecord
        /\ turn'.got = turn.got + 1 /\ turn'.taken = turn.taken /\ turn'.mode = turn.mode
        /\ turn'.emitted = turn.emitted /\ turn'.streamed = turn.streamed
    BY <1>1, <1>2, TurnIsRecord DEF PieceArrives, AtStep, Streaming, SameRecord
  <2> QED
    BY <2>1, <2>2, PieceKeepsTurnInv
<1>3. CASE TakePiece /\ turn' = Consumed(turn)
  <2> DEFINE n == [turn EXCEPT !.taken = @ + 1, !.mode = StreamMode(turn)]
  <2>1. Consumed(turn) = IF n.mode = "text" THEN [n EXCEPT !.emitted = TRUE, !.streamed = @ \o Written(turn)] ELSE n
    BY DEF Consumed
  <2>2. n.mode = StreamMode(turn) /\ n.streamed = turn.streamed /\ n.emitted = turn.emitted /\ DOMAIN n = DOMAIN turn
    BY <1>1, TurnIsRecord
  <2>3. turn' = [f \in TurnFields |-> turn'[f]]
    BY <1>1, <1>3, <2>1 DEF TurnTypeOK
  <2>4. turn.taken < turn.got /\ turn.at \in Streaming
    BY <1>3 DEF TakePiece, Streaming
  <2>5. /\ turn'.at = turn.at /\ turn'.path = turn.path
        /\ turn'.overflow = turn.overflow /\ turn'.reply = turn.reply /\ turn'.sent = turn.sent /\ SameRecord
        /\ turn'.got = turn.got /\ turn'.taken = turn.taken + 1 /\ turn'.mode = StreamMode(turn)
        /\ turn'.emitted = IF StreamMode(turn) = "text" THEN TRUE ELSE turn.emitted
        /\ turn'.streamed = IF StreamMode(turn) = "text" THEN turn.streamed \o Written(turn) ELSE turn.streamed
    BY <1>1, <1>3, <2>1, <2>2, TurnIsRecord DEF SameRecord
  <2>6. StreamMode(turn) \in {"undecided", "text", "tool"} /\ (turn.mode # "undecided" => StreamMode(turn) = turn.mode)
    BY <1>1, ModesOnly DEF StreamMode, TurnTypeOK
  <2>7. turn.streamed \o Written(turn) = [i \in 1..(turn.taken + 1) |-> i]
    <3>1. turn.taken \in Nat
      BY <1>1 DEF TurnTypeOK
    <3> QED
      BY <3>1, WrittenInOrder DEF TurnInv, ShownSoFar
  <2>8. turn'.emitted = (turn.emitted \/ turn'.mode = "text")
    BY <1>1, <2>5 DEF TurnTypeOK
  <2> QED
    BY <2>3, <2>4, <2>5, <2>6, <2>7, <2>8, PieceKeepsTurnInv
<1>4. CASE TakePiece /\ Go("failed")
  BY <1>4, FailingKeepsTurnInv DEF TakePiece, Streaming
<1> QED
  BY <1>2, <1>3, <1>4 DEF TakePiece

-----------------------------------------------------------------------------
(* What the reply leads to *)

LEMMA RunReplyCallKeepsTurnInv ==
  ASSUME TurnInv, RunReplyCall  PROVE TurnInv'
<1>1. turn.at = "interpret" /\ TurnTypeOK /\ turn.ran = <<>> /\ (turn.path # "bridge" => turn.stored = <<"user">>)
  BY DEF RunReplyCall, AtStep, TurnInv, StoredSoFar, StoredByPlace, Ran, BeforeReply, Opening, Asking, Streaming
<1>2. /\ turn'.at = IF turn.path = "bridge" THEN "bridge_result" ELSE "store_call"
      /\ turn'.ran = <<ReplyCall>> /\ turn'.answer = "result" /\ turn'.overflow = FALSE /\ turn'.sent = {}
      /\ turn'.path = turn.path /\ turn'.reply = turn.reply
      /\ turn'.got = turn.got /\ turn'.taken = turn.taken /\ turn'.mode = turn.mode
      /\ turn'.emitted = turn.emitted /\ turn'.streamed = turn.streamed
      /\ turn'.stored = turn.stored /\ turn'.lost = turn.lost
  <2>1. Append(turn.ran, ReplyCall) = <<ReplyCall>>
    BY <1>1
  <2> QED
    BY <1>1, <2>1, TurnIsRecord DEF RunReplyCall, Asked
<1>3. TurnTypeOK'
  <2>1. turn' = [f \in TurnFields |-> turn'[f]]
    BY <1>1 DEF TurnTypeOK, RunReplyCall, Asked
  <2> QED
    BY <1>1, <1>2, <2>1 DEF TurnTypeOK, Places, Ending
<1>4. PathsApart'
  BY <1>1, <1>2 DEF TurnInv, PathsApart
<1>5. StoredSoFar'
  <2>1. Ran' /\ Len(turn'.ran) <= 1
    BY <1>2 DEF Ran
  <2> QED
    BY <1>1, <1>2, <2>1 DEF TurnInv, StoredSoFar, StoredByPlace, BeforeReply, Opening, Asking, Streaming
<1>6. ShownSoFar'
  BY <1>1, <1>2 DEF TurnInv, ShownSoFar, TurnTypeOK, Opening, Asking, Streaming, Ending
<1>7. AnsweredSoFar' /\ EscalatedSoFar'
  BY <1>1, <1>2 DEF TurnInv, AnsweredSoFar, Streaming, EscalatedSoFar, EscalationPermitted, Opening
<1> QED
  BY <1>3, <1>4, <1>5, <1>6, <1>7 DEF TurnInv

LEMMA PlainReplyKeepsTurnInv ==
  ASSUME TurnInv, PlainReply  PROVE TurnInv'
<1> DEFINE t == [Asked EXCEPT !.answer = IF Unparsed THEN "fallback" ELSE "text",
                              !.at = IF turn.path = "bridge" THEN "extract" ELSE "store_answer"]
           held == turn.path = "stream" /\ turn.mode = "undecided" /\ turn.taken > 0
<1>1. turn.at = "interpret" /\ TurnTypeOK /\ ~Ran /\ (turn.path # "bridge" => turn.stored = <<"user">>)
  BY DEF PlainReply, AtStep, TurnInv, StoredSoFar, StoredByPlace, Ran, BeforeReply, Opening, Asking, Streaming
<1>2. CASE Go("failed")
  BY <1>1, <1>2, FailingKeepsTurnInv
<1>3. CASE turn' = IF held THEN [t EXCEPT !.streamed = [i \in 1..turn.taken |-> i], !.emitted = TRUE] ELSE t
  <2>1. /\ turn'.at = IF turn.path = "bridge" THEN "extract" ELSE "store_answer"
        /\ turn'.answer = IF Unparsed THEN "fallback" ELSE "text"
        /\ turn'.overflow = FALSE /\ turn'.sent = {}
        /\ turn'.path = turn.path /\ turn'.reply = turn.reply /\ turn'.got = turn.got
        /\ turn'.taken = turn.taken /\ turn'.mode = turn.mode /\ turn'.ran = turn.ran
        /\ turn'.stored = turn.stored /\ turn'.lost = turn.lost
        /\ turn'.emitted = IF held THEN TRUE ELSE turn.emitted
        /\ turn'.streamed = IF held THEN [i \in 1..turn.taken |-> i] ELSE turn.streamed
    BY <1>1, <1>3, TurnIsRecord DEF Asked
  <2>2. TurnTypeOK'
    <3>1. turn' = [f \in TurnFields |-> turn'[f]]
      BY <1>1, <1>3 DEF TurnTypeOK, Asked
    <3>2. turn'.emitted \in BOOLEAN /\ turn'.answer \in {"fallback", "text"}
      BY <1>1, <2>1 DEF TurnTypeOK
    <3> QED
      BY <1>1, <2>1, <3>1, <3>2 DEF TurnTypeOK, Places, Ending
  <2>3. PathsApart'
    BY <1>1, <2>1 DEF TurnInv, PathsApart
  <2>4. StoredSoFar'
    <3>1. ~Ran'
      BY <1>1, <2>1 DEF Ran
    <3> QED
      BY <1>1, <2>1, <3>1 DEF TurnInv, StoredSoFar, StoredByPlace, BeforeReply, Opening, Asking, Streaming
  <2>5. ShownSoFar'
    <3>1. turn'.streamed = IF turn'.emitted THEN [i \in 1..turn'.taken |-> i] ELSE <<>>
      BY <2>1 DEF TurnInv, ShownSoFar
    <3>2. turn'.mode = "tool" => ~turn'.emitted
      BY <2>1 DEF TurnInv, ShownSoFar
    <3>3. turn'.emitted => turn'.taken = turn'.got
      BY <1>1, <2>1 DEF TurnInv, ShownSoFar
    <3> QED
      BY <2>1, <3>1, <3>2, <3>3 DEF ShownSoFar, Opening, Asking, Streaming
  <2>6. AnsweredSoFar'
    <3>1. turn.reply \in Replies /\ turn.reply \in ReplyKinds
      BY <1>1, ChatTurnAssumption DEF TurnInv, AnsweredSoFar
    <3>2. turn'.answer = "text" /\ Whole /\ LooksToolish(turn.reply) => turn.reply.shape = "nameless"
      BY <2>1, <3>1, NoRawCall DEF PlainReply, ReplyCall, Unparsed
    <3>3. Whole' <=> Whole
      BY <2>1 DEF Whole
    <3> QED
      BY <1>1, <2>1, <3>1, <3>2, <3>3 DEF AnsweredSoFar, Ran, Streaming
  <2>7. EscalatedSoFar'
    BY <2>1 DEF EscalatedSoFar, EscalationPermitted, Opening
  <2> QED
    BY <2>2, <2>3, <2>4, <2>5, <2>6, <2>7 DEF TurnInv
<1> QED
  BY <1>2, <1>3 DEF PlainReply, Writing

-----------------------------------------------------------------------------
(* Every step *)

LEMMA StepKeepsTurnInv ==
  ASSUME TurnInv, Step  PROVE TurnInv'
<1>1. CASE ProviderGate
  <2>1. turn.at = "gate" /\ \/ Go("failed")
                            \/ Go(IF turn.path = "chat" THEN "store" ELSE "prompt")
    BY <1>1 DEF ProviderGate, AtStep
  <2> QED
    BY <2>1, FailingKeepsTurnInv, LeadingOnKeepsTurnInv
<1>2. CASE QuickRoute
  <2>1. turn.at = "route" /\ turn.path \in {"chat", "stream", "bridge"}
    BY <1>2 DEF QuickRoute, AtStep, TurnInv, TurnTypeOK
  <2>2. /\ turn.path = "chat" => Go("prompt") \/ Go("run_quick")
        /\ turn.path = "stream" => Go("gate") \/ Go("quick_headers")
        /\ turn.path = "bridge" => Go("post") \/ Go("run_quick")
    BY <1>2 DEF QuickRoute
  <2> QED
    BY <2>1, <2>2, LeadingOnKeepsTurnInv
<1>3. CASE QuickHeaders
  <2>1. turn.at = "quick_headers" /\ (Go("run_quick") \/ Go("failed"))
    BY <1>3 DEF QuickHeaders, AtStep, Writing
  <2> QED
    BY <2>1, FailingKeepsTurnInv, LeadingOnKeepsTurnInv
<1>4. CASE Replace
  <2>1. turn.at = "replace" /\ (Go("extract") \/ Go("failed"))
    BY <1>4 DEF Replace, AtStep, Writing
  <2> QED
    BY <2>1, FailingKeepsTurnInv, LeadingOnKeepsTurnInv
<1>5. CASE Choose
  <2>1. turn.at = "choose" /\ Go(IF TriggersOverflow(turn) THEN "proxy_first" ELSE "local")
    BY <1>5 DEF Choose, AtStep
  <2> QED
    BY <2>1, LeadingOnKeepsTurnInv
<1>6. CASE StreamHeaders
  <2>1. turn.at = "headers" /\ (Go("ask_stream") \/ Go("failed"))
    BY <1>6 DEF StreamHeaders, AtStep, Writing
  <2> QED
    BY <2>1, FailingKeepsTurnInv, LeadingOnKeepsTurnInv
<1>7. CASE ProducerEnds
  <2>1. turn.at = "streaming" /\ (Go("draining") \/ Go("drain_failed"))
    BY <1>7 DEF ProducerEnds, AtStep
  <2> QED
    BY <2>1, LeadingOnKeepsTurnInv
<1>8. CASE Drained
  <2>1. \/ turn.at = "draining" /\ turn.taken = turn.got /\ Go("interpret")
        \/ turn.at = "drain_failed" /\ Go("failed")
    BY <1>8 DEF Drained, AtStep
  <2> QED
    BY <2>1, FailingKeepsTurnInv, LeadingOnKeepsTurnInv DEF Streaming
<1>9. CASE Extract
  <2>1. turn.at = "extract" /\ (Go("finished") \/ Go("failed"))
    BY <1>9 DEF Extract, AtStep, Writing
  <2> QED
    BY <2>1, FailingKeepsTurnInv, LeadingOnKeepsTurnInv
<1>10. CASE AskProxyFirst \/ AskLocal \/ AskLocalLast \/ AskProxyLast \/ AskBridge
  BY <1>10, AskingKeepsTurnInv DEF AskProxyFirst, AskLocal, AskLocalLast, AskProxyLast, AskBridge, AtStep, AfterProxyFailed
<1>11. CASE StoreUser \/ RunQuick
  BY <1>11, StoreUserKeepsTurnInv, RunQuickKeepsTurnInv
<1>12. CASE StoreQuick \/ StoreCall \/ StoreResult \/ StoreAnswer
  BY <1>12, StoreStepsKeepTurnInv
<1>13. CASE Summarize \/ BridgeResult
  BY <1>13, SummingUpKeepsTurnInv
<1>14. CASE BuildPrompt \/ BuildBridgePrompt
  BY <1>14, PromptingKeepsTurnInv
<1>15. CASE AskStream \/ OpenStream
  BY <1>15, StreamOpensKeepsTurnInv
<1>16. CASE PieceArrives \/ TakePiece
  BY <1>16, StreamingKeepsTurnInv
<1>17. CASE RunReplyCall \/ PlainReply
  BY <1>17, RunReplyCallKeepsTurnInv, PlainReplyKeepsTurnInv
<1> QED
  BY <1>1, <1>2, <1>3, <1>4, <1>5, <1>6, <1>7, <1>8, <1>9, <1>10, <1>11, <1>12, <1>13, <1>14, <1>15, <1>16, <1>17
     DEF Step

LEMMA TurnInvHolds == TurnSpec => []TurnInv
<1>1. TurnInv /\ UNCHANGED turn => TurnInv'
  <2> SUFFICES ASSUME TurnInv, turn' = turn  PROVE TurnInv'
    OBVIOUS
  <2>1. TurnTypeOK' /\ PathsApart' /\ ShownSoFar'
    BY DEF TurnInv, TurnTypeOK, PathsApart, ShownSoFar
  <2>2. StoredSoFar'
    BY DEF TurnInv, StoredSoFar, StoredByPlace, Stored, Ran
  <2>3. AnsweredSoFar' /\ EscalatedSoFar'
    BY DEF TurnInv, AnsweredSoFar, Whole, Ran, EscalatedSoFar, EscalationPermitted
  <2> QED
    BY <2>1, <2>2, <2>3 DEF TurnInv
<1>2. TurnInv /\ [TurnNext]_turnVars => TurnInv'
  BY <1>1, BeginningKeepsTurnInv, StepKeepsTurnInv DEF TurnNext, ClientLeaves, turnVars
<1> QED
  BY InitIsSound, <1>2, PTL DEF TurnSpec

-----------------------------------------------------------------------------
(***************************************************************************)
(* Whatever fails and whenever the client leaves, a turn executes at most  *)
(* one call, and one it executed is in the conversation with result and    *)
(* answer when the turn is over, unless storing failed                     *)
(* (finalize_direct_tool_turn, finalize_tool_turn).                        *)
(***************************************************************************)
THEOREM EffectsAlwaysRecorded == TurnSpec => []EffectsRecorded
<1>1. TurnInv => EffectsRecorded
  <2> SUFFICES ASSUME TurnInv, Over  PROVE EffectsRecorded
    BY DEF EffectsRecorded
  <2>1. turn.at \in {"idle", "finished", "failed"} /\ Len(turn.ran) <= 1
        /\ (turn.path = "bridge" => turn.stored = <<>>)
    BY DEF Over, TurnInv, StoredSoFar
  <2>2. turn.at = "idle" => turn.ran = <<>> /\ turn.stored = <<>>
    BY DEF TurnInv, StoredSoFar, Ran
  <2>3. turn.at # "idle" /\ turn.path # "bridge" =>
          IF turn.ran # <<>> THEN turn.lost \/ turn.stored = <<"user", "call", "result", "answer">>
          ELSE turn.stored \in {<<>>, <<"user">>, <<"user", "answer">>}
    BY <2>1 DEF TurnInv, StoredSoFar, StoredByPlace, Stored, Ran
  <2> QED
    BY <2>1, <2>2, <2>3 DEF EffectsRecorded
<1> QED
  BY TurnInvHolds, <1>1, PTL

(***************************************************************************)
(* However producer and consumer interleave and wherever a stream breaks   *)
(* off, its client gets the pieces of the reply in order and without gaps, *)
(* all of them if the turn finishes, and none of a call; and for every     *)
(* shape of reply the answer is never the raw text of a call, but for an   *)
(* object with several keys and no name (handle_chat_stream,               *)
(* is_unparsed_tool_call).                                                 *)
(***************************************************************************)
THEOREM ReplyAlwaysShown == TurnSpec => []ReplyShown
<1>1. TurnInv => AnswerNeverToolText
  BY DEF TurnInv, AnsweredSoFar, AnswerNeverToolText, Ran
<1>2. TurnInv => StreamFaithful
  <2> SUFFICES ASSUME TurnInv  PROVE StreamFaithful
    OBVIOUS
  <2>1. turn.got \in Nat /\ turn.taken \in 0..turn.got /\ turn.emitted \in BOOLEAN
    BY DEF TurnInv, TurnTypeOK
  <2>2. CASE turn.emitted
    <3>1. turn.streamed = [i \in 1..turn.taken |-> i] /\ turn.mode # "tool"
      BY <2>2 DEF TurnInv, ShownSoFar
    <3>2. Len(turn.streamed) = turn.taken
      BY <2>1, <3>1
    <3>3. turn.at = "finished" => turn.taken = turn.got
      BY <2>2 DEF TurnInv, ShownSoFar, Ending
    <3> QED
      BY <2>1, <3>1, <3>2, <3>3 DEF StreamFaithful
  <2>3. CASE ~turn.emitted
    <3>1. turn.streamed = <<>> /\ Len(turn.streamed) = 0
      BY <2>3 DEF TurnInv, ShownSoFar
    <3>2. turn.streamed = [i \in 1..Len(turn.streamed) |-> i]
      BY <3>1
    <3> QED
      BY <2>1, <2>3, <3>1, <3>2 DEF StreamFaithful
  <2> QED
    BY <2>2, <2>3
<1> QED
  BY TurnInvHolds, <1>1, <1>2, PTL DEF ReplyShown

(***************************************************************************)
(* A prompt leaves the house only to a proxy that is enabled, from the     *)
(* path that may use it, for a configured reason that has occurred: it is  *)
(* too long, or the local model was asked before (may_escalate,            *)
(* process_chat_turn).                                                     *)
(***************************************************************************)
THEOREM EscalationAlwaysPermitted == TurnSpec => []EscalationPermitted
<1>1. TurnInv => EscalationPermitted
  BY DEF TurnInv, EscalatedSoFar
<1> QED
  BY TurnInvHolds, <1>1, PTL
=============================================================================
