------------------------------ MODULE ChatTurn ------------------------------
(***************************************************************************)
(* One conversation turn from the request to the answer (server.rs:        *)
(* process_chat_turn, handle_chat_stream and handle_openai_chat): the quick *)
(* router first, then the local model or the privacy proxy, then the tool   *)
(* the reply asks for.                                                     *)
(* Turns follow each other (the turn gate is ChatServer's); what happens   *)
(* inside one turn is the client that may leave, the store that may fail   *)
(* and the models that may fail or break off.                              *)
(*                                                                         *)
(*   at        the next step                                               *)
(*   path      "chat" answers at the end, "stream" while the model speaks, *)
(*             "bridge" serves OpenAI clients, which bring their history   *)
(*   said      the sentence (QuickRouter); call: what the router, a        *)
(*             function of the sentence alone, makes of it                 *)
(*   prompt    the messages to send; sent: the bodies that were sent       *)
(*   overflow  the prompt is estimated beyond the context window           *)
(*   reply     what the model says; got: how much of it has arrived        *)
(*   taken     how much of that the consumer has taken; mode, emitted: its *)
(*             stream mode and whether a token event was written           *)
(*   streamed  the pieces of the reply the client was sent as tokens       *)
(*   ran       the calls executed; stored: the messages kept for the turn  *)
(*   lost      a message of the turn could not be stored (logged)          *)
(*   answer    what the final response consists of                         *)
(***************************************************************************)
EXTENDS QuickRouter, ToolCalls, LlmClient

CONSTANTS Sentences,  \* the sentences that may be said
          Routes,     \* sentence -> what the router makes of it
          Replies,    \* the replies the model may give
          Histories,  \* the older messages of the conversation
          Posts,      \* the messages an OpenAI client may post
          MaxHistory, \* of which the last so many are read
          Context,    \* bytes that fit into the context window
          ProxyOn,    \* the privacy proxy is enabled and its endpoint valid
          Trigger,    \* reasons it may be used for
          TimerLimit  \* MAX_TIMERS

ASSUME RoutesAssumption == Routes = [u \in Sentences |-> RouteForAvailableTools(u, TRUE, TRUE)]
ASSUME ChatTurnAssumption == /\ Replies \subseteq ReplyKinds
                             /\ ProxyOn \in BOOLEAN
                             /\ Trigger \subseteq {"overflow", "decline"}
                             /\ Context \in Nat /\ TimerLimit \in Nat

VARIABLES turn, client,
          timers  \* how many are armed; nothing in the daemon takes one off
turnVars == <<turn, timers, client>>

NoReply == [shape |-> "unasked"]
NoTurn == [at |-> "idle", path |-> "chat", said |-> [hit |-> "none"], call |-> NoCall, prompt |-> <<>>, sent |-> {},
           overflow |-> FALSE, reply |-> NoReply, got |-> 0, taken |-> 0, mode |-> "undecided",
           emitted |-> FALSE, streamed |-> <<>>, ran |-> <<>>, stored |-> <<>>, lost |-> FALSE,
           answer |-> "none"]

TurnInit == turn = NoTurn /\ timers = 0 /\ client = "there"

\* A turn that has answered or failed.
Over == turn.at \in {"idle", "finished", "failed"}
AtStep(s) == turn.at = s
Go(s) == turn' = [turn EXCEPT !.at = s]
Quiet == UNCHANGED <<timers, client>>

Begin ==
    /\ turn.at = "idle"
    /\ \E path \in {"chat", "stream"}, u \in Sentences :
          turn' = [NoTurn EXCEPT !.at = IF path = "chat" THEN "gate" ELSE "store", !.path = path,
                                 !.said = u, !.call = Routes[u]]
    /\ Quiet

\* The handler returns.
Return == turn.at \in {"finished", "failed"} /\ turn' = NoTurn /\ client' = "there" /\ UNCHANGED timers

\* The stream's client closes its connection; a later write may notice.
ClientLeaves ==
    /\ ~Over /\ turn.path = "stream" /\ client = "there" /\ client' = "gone"
    /\ UNCHANGED <<turn, timers>>

\* Writes the stream makes: the effect, or the error that ends the turn.
Writing(effect) == \/ effect
                   \/ client = "gone" /\ Go("failed")

\* The optional provider is misconfigured (a credential may go at any time):
\* /api/chat answers 503 at once, the stream only after the quick router.
ProviderGate ==
    /\ AtStep("gate")
    /\ Go(IF turn.path = "chat" THEN "store" ELSE "prompt") \/ Go("failed")
    /\ Quiet

StoreUser ==
    /\ AtStep("store")
    /\ \/ turn' = [turn EXCEPT !.stored = <<"user">>, !.at = "route"]
       \/ Go("failed")
    /\ Quiet

QuickRoute ==
    /\ AtStep("route")
    /\ Go(IF turn.call = NoCall THEN [chat |-> "prompt", stream |-> "gate", bridge |-> "post"][turn.path]
          ELSE IF turn.path = "stream" THEN "quick_headers" ELSE "run_quick")
    /\ Quiet

QuickHeaders == AtStep("quick_headers") /\ Writing(Go("run_quick")) /\ Quiet

\* exec_timer; a full list or an impossible duration is an error result.
ArmTimer(seconds) ==
    timers' = IF TimerAccepted(seconds, timers, TimerLimit) THEN timers + 1 ELSE timers

\* Variant: the reply is written before the turn is stored.
AfterQuickRunShow(t) == IF t.path = "stream" THEN "replace" ELSE "extract"

\* The bridge keeps no conversation.
AfterQuickRun(t) == IF t.path = "bridge" THEN "extract" ELSE "store_quick"

RunQuick ==
    /\ AtStep("run_quick")
    /\ turn' = [turn EXCEPT !.ran = Append(@, turn.call), !.at = AfterQuickRun(turn), !.answer = "result"]
    /\ IF turn.call.tool = "set_timer" THEN ArmTimer(turn.call.seconds) ELSE UNCHANGED timers
    /\ UNCHANGED client

\* One batch of three messages, or none and a log line.
StoreQuick ==
    /\ AtStep("store_quick")
    /\ LET t == [turn EXCEPT !.at = IF turn.path = "stream" THEN "replace" ELSE "extract"]
       IN  \/ turn' = [t EXCEPT !.stored = @ \o <<"call", "result", "answer">>]
           \/ turn' = [t EXCEPT !.lost = TRUE]
    /\ Quiet

Replace == AtStep("replace") /\ Writing(Go("extract")) /\ Quiet

-----------------------------------------------------------------------------
(* The prompt and the models.                                              *)

TurnMessage == Message("user", 2, 0, "turn")
Instructions == Message("system", 3, 1, "instructions")

\* What was said lives on in the prompt.
BuildPrompt ==
    /\ AtStep("prompt")
    /\ \/ \E h \in Histories :
            LET ms == <<Instructions>> \o h \o <<TurnMessage>>
            IN  turn' = [turn EXCEPT !.said = NoTurn.said, !.prompt = ms, !.overflow = EstimateBytes(ms) > Context,
                                     !.at = IF turn.path = "chat" THEN "choose" ELSE "headers"]
       \/ Go("failed")
    /\ Quiet

MayEscalate(reason) == ProxyOn /\ reason \in Trigger

TriggersOverflow(t) == t.overflow /\ MayEscalate("overflow")

Choose ==
    /\ AtStep("choose")
    /\ Go(IF TriggersOverflow(turn) THEN "proxy_first" ELSE "local")
    /\ Quiet

\* Once a reply is there the messages are no longer needed.
Asked == [turn EXCEPT !.prompt = <<>>, !.sent = {}, !.overflow = FALSE]

Sent(to, body, reason) == [to |-> to, body |-> body, reason |-> reason]

\* Only a prompt with a system message is retried, and the retry has none.
CanRetry(ms) == HasSystem(ms)

\* One request: an answer, "system role not supported", or any other failure
\* (refused, error status, timeout, a body that does not parse).
AskModel(to, body, reason, failure) ==
    LET t == [turn EXCEPT !.sent = @ \cup {Sent(to, body, reason)}]
    IN  \/ \E r \in Replies : turn' = [t EXCEPT !.reply = r, !.got = Len(Pieces(r)), !.at = "interpret"]
        \/ /\ CanRetry(turn.prompt)
           /\ turn' = [t EXCEPT !.prompt = FlattenSystemIntoFirstUser(@)]
        \/ turn' = [t EXCEPT !.at = failure]

AskProxyFirst == AtStep("proxy_first") /\ AskModel("proxy", turn.prompt, "overflow", "local_last") /\ Quiet

\* complete: the body for the local model is compacted if need be.
AskLocal ==
    /\ AtStep("local")
    /\ AskModel("local", PrepareBody(turn.prompt), "turn",
                IF MayEscalate("decline") THEN "proxy_last" ELSE "failed")
    /\ Quiet
AskLocalLast == AtStep("local_last") /\ AskModel("local", PrepareBody(turn.prompt), "turn", "failed") /\ Quiet

\* Variant: the local model is asked again.
AfterProxyFailedLocal == "local"

\* The local error is returned.
AfterProxyFailed == "failed"
AskProxyLast == AtStep("proxy_last") /\ AskModel("proxy", turn.prompt, "decline", AfterProxyFailed) /\ Quiet

-----------------------------------------------------------------------------
(* The OpenAI bridge: the client posts the whole conversation.             *)

IsUser(m) == m.role = "user"

\* The last of the posted messages, those of a known role that hold text.
ParseOpenAiMessages(post) ==
    SelectSeq(SubSeq(post, IF Len(post) > MaxHistory THEN Len(post) - MaxHistory + 1 ELSE 1, Len(post)),
              LAMBDA m : m.role \in {"system", "user", "assistant"} /\ m.bytes > 0)

\* A missing or unreadable body, or no user message among those read: 400.
BeginBridge ==
    /\ turn.at = "idle"
    /\ \E u \in Sentences, post \in Posts :
          LET asked == \E i \in DOMAIN ParseOpenAiMessages(post) : IsUser(ParseOpenAiMessages(post)[i])
          IN  turn' = [NoTurn EXCEPT !.at = IF asked THEN "route" ELSE "failed", !.path = "bridge",
                                     !.said = u, !.call = Routes[u]]
    /\ Quiet

\* What was said is the last user message, wherever it stands.
PostedPrompt(ms) == <<Instructions>> \o [ms EXCEPT ![SelectLastInSeq(ms, IsUser)].what = "turn"]

BuildBridgePrompt ==
    /\ AtStep("post")
    /\ \E post \in Posts :
          LET ms == ParseOpenAiMessages(post)
          IN  /\ \E i \in DOMAIN ms : IsUser(ms[i])
              /\ turn' = [turn EXCEPT !.said = NoTurn.said, !.prompt = PostedPrompt(ms), !.at = "bridge"]
    /\ Quiet

\* The local model only: no proxy, and an error is the answer.
AskBridge == AtStep("bridge") /\ AskModel("local", PrepareBody(turn.prompt), "turn", "failed") /\ Quiet

-----------------------------------------------------------------------------
(* The stream: a producer that reads the model's reply and a consumer that *)
(* writes to the client, joined by an unbounded channel.                   *)

StreamHeaders == AtStep("headers") /\ Writing(Go("ask_stream")) /\ Quiet

AskStream ==
    /\ AtStep("ask_stream")
    /\ turn' = [turn EXCEPT !.sent = @ \cup {Sent("local", PrepareBody(turn.prompt), "turn")},
                            !.at = "open_stream"]
    /\ Quiet

\* The status line: a reply follows, or the request failed.  There is no
\* retry without the system role and no escalation here.
OpenStream ==
    /\ AtStep("open_stream")
    /\ \/ \E r \in Replies : turn' = [Asked EXCEPT !.reply = r, !.at = "streaming"]
       \/ Go("failed")
    /\ Quiet

PieceArrives ==
    /\ AtStep("streaming") /\ turn.got < Len(Pieces(turn.reply))
    /\ turn' = [turn EXCEPT !.got = @ + 1]
    /\ Quiet

StreamMode(t) ==
    IF t.mode = "undecided" THEN DetectStreamMode(SubSeq(Pieces(t.reply), 1, t.taken + 1)) ELSE t.mode

\* Variant: what was held back is not written when the stream turns out text.
WrittenNewest(t) == <<t.taken + 1>>

\* Everything held back, then piece by piece.
Written(t) == [ i \in 1..(t.taken + 1 - Len(t.streamed)) |-> Len(t.streamed) + i ]

\* The consumer takes a piece; in an undecided stream the mode is decided on
\* everything taken so far.
Consumed(t) ==
    LET n == [t EXCEPT !.taken = @ + 1, !.mode = StreamMode(t)]
    IN  IF n.mode = "text" THEN [n EXCEPT !.emitted = TRUE, !.streamed = @ \o Written(t)] ELSE n

TakePiece ==
    /\ turn.at \in {"streaming", "draining", "drain_failed"} /\ turn.taken < turn.got
    /\ LET n == Consumed(turn)
       IN  \/ turn' = n
           \/ n.mode = "text" /\ client = "gone" /\ Go("failed")
    /\ Quiet

\* The producer ends first: the reply is complete, the connection closed
\* early (what arrived counts as the reply), or it failed.  Either way what
\* is in the channel is written before the turn goes on.
ProducerEnds ==
    /\ AtStep("streaming")
    /\ Go("draining") \/ Go("drain_failed")
    /\ Quiet

Drained ==
    /\ turn.at \in {"draining", "drain_failed"} /\ turn.taken = turn.got
    /\ Go(IF AtStep("draining") THEN "interpret" ELSE "failed")
    /\ Quiet

-----------------------------------------------------------------------------
(* What the reply leads to.                                                *)

Whole == turn.got = Len(Pieces(turn.reply))
ReplyCall == IF Whole THEN ParseToolCallValue(turn.reply) ELSE NoToolCall
Unparsed == Whole /\ IsUnparsedToolCall(turn.reply)

\* try_tool_call_with_context: the call is executed whether or not its
\* arguments will be accepted.
RunReplyCall ==
    /\ AtStep("interpret") /\ ReplyCall # NoToolCall
    /\ turn' = [Asked EXCEPT !.ran = Append(@, ReplyCall), !.answer = "result",
                             !.at = IF turn.path = "bridge" THEN "bridge_result" ELSE "store_call"]
    /\ IF ReplyCall.tool = "set_timer" /\ CallAccepted(ReplyCall)
       THEN \E s \in {0, 60, MaxTimerSeconds + 1} : ArmTimer(s) ELSE UNCHANGED timers
    /\ UNCHANGED client

\* append_or_log, once for the call and once for its result.
OrLost(t, m) == turn' = [t EXCEPT !.stored = Append(@, m)] \/ turn' = [t EXCEPT !.lost = TRUE]

StoreCall == AtStep("store_call") /\ OrLost([turn EXCEPT !.at = "store_result"], "call") /\ Quiet
StoreResult ==
    /\ AtStep("store_result")
    /\ OrLost([turn EXCEPT !.at = IF ShouldSummarize(ReplyCall.tool) /\ CallAccepted(ReplyCall)
                                  THEN "summarize" ELSE "store_answer"], "result")
    /\ Quiet

\* A second request puts the result into a sentence; on any failure the
\* result itself is the answer.
Summarize ==
    /\ AtStep("summarize")
    /\ \E a \in {"summary", "result"} : turn' = [turn EXCEPT !.answer = a, !.at = "store_answer"]
    /\ Quiet

\* The bridge has a failed call summarized too.
BridgeResult ==
    /\ AtStep("bridge_result")
    /\ \E a \in IF ShouldSummarize(ReplyCall.tool) THEN {"summary", "result"} ELSE {"result"} :
          turn' = [turn EXCEPT !.answer = a, !.at = "extract"]
    /\ Quiet

\* No call: the fallback sentence for a failed call, else the text itself.
\* A stream still undecided writes what it held back, before storing.
PlainReply ==
    /\ AtStep("interpret") /\ ReplyCall = NoToolCall
    /\ LET t == [Asked EXCEPT !.answer = IF Unparsed THEN "fallback" ELSE "text",
                              !.at = IF turn.path = "bridge" THEN "extract" ELSE "store_answer"]
           held == turn.path = "stream" /\ turn.mode = "undecided" /\ turn.taken > 0
       IN  IF held THEN Writing(turn' = [t EXCEPT !.streamed = [i \in 1..turn.taken |-> i], !.emitted = TRUE])
           ELSE turn' = t
    /\ Quiet

StoreAnswer ==
    /\ AtStep("store_answer")
    /\ LET ran == turn.ran # <<>>
           next == IF turn.path = "stream" /\ ran /\ ~turn.emitted THEN "replace" ELSE "extract"
       IN  OrLost([turn EXCEPT !.at = next], "answer")
    /\ Quiet

\* Memory extraction from what was said, then the final response.
Extract ==
    /\ AtStep("extract")
    /\ IF turn.path = "stream" THEN Writing(Go("finished")) ELSE Go("finished")
    /\ Quiet

Step ==
    \/ ProviderGate \/ StoreUser \/ QuickRoute \/ QuickHeaders \/ RunQuick \/ StoreQuick \/ Replace
    \/ BuildPrompt \/ Choose \/ AskProxyFirst \/ AskLocal \/ AskLocalLast \/ AskProxyLast
    \/ BuildBridgePrompt \/ AskBridge \/ BridgeResult
    \/ StreamHeaders \/ AskStream \/ OpenStream \/ PieceArrives \/ TakePiece \/ ProducerEnds \/ Drained
    \/ RunReplyCall \/ StoreCall \/ StoreResult \/ Summarize \/ PlainReply \/ StoreAnswer \/ Extract

TurnNext ==
    \/ Begin \/ BeginBridge
    \/ Return
    \/ ClientLeaves
    \/ Step

\* Every await of a turn is bounded by a timeout or by the end of the reply.
TurnSpec == TurnInit /\ [][TurnNext]_turnVars /\ WF_turnVars(Step)

-----------------------------------------------------------------------------
\* A routed call is one the dispatcher can execute; a sentence that excludes
\* or lists devices is never actuated as if it named one, also when a rule's
\* unusable verb let it fall through; a command with a delay is left to the
\* model, unless a "please" follows the delay (route, canonicalize_household_action,
\* simple_turn_request, home_control_request).
Excludes(u) ==
    u.many \/ (u.hit = "priority" /\ PriorityControl[u.rule] \in {"turn_off_except", "lock_except"})
RoutedCallSound ==
    turn.reply = NoReply => \A i \in DOMAIN turn.ran :
        LET c == turn.ran[i]
            u == turn.said
        IN  /\ c.tool \in KnownTools
            /\ c.tool = "home_control" =>
                 /\ c.action \in HomeControlActions
                 /\ ActionRequiresValue(c.action) => c.value # NoValue
                 /\ ~(Excludes(u) /\ {u.hit, u.also} \subseteq {"priority", "turn", "none"} /\ u.also # "priority")
                 /\ ~(u.delayed /\ u.polite # "trail" /\ {u.hit, u.also} \subseteq {"turn", "set", "none"})
            /\ c.tool = "set_timer" => c.seconds > 0
            /\ c.tool = "home_status" /\ u.device \in StatusPerDevice => (c.object = u.object \/ u.rule \in {1, 3})

\* A phrase of spans that adds up: only the first may be an idiom ("half an
\* hour", "a couple of minutes"), only the last may end in "and a half".
Summable(ph) ==
    \A i \in DOMAIN ph : /\ i > 1 => ph[i].form \in {"plain", "tail"}
                         /\ i < Len(ph) => ph[i].form # "tail"
                         /\ ph[i].form = "dozen" => Len(SayNumber(ph[i].word)) = 1

\* The timer runs for as long as was said (timer_request and its parsers).
DurationHeard ==
    turn.reply = NoReply => \A i \in DOMAIN turn.ran :
        turn.ran[i].tool = "set_timer" /\ turn.said.hit = "timer" /\ Summable(turn.said.phrase)
            => turn.ran[i].seconds = PhraseMeans(turn.said.phrase)

\* The answer of a finished turn is never the raw text of a call, be it one
\* that was executed or one that could not be read; only an object with
\* several keys and no name still passes for an answer (is_unparsed_tool_call).
AnswerNeverToolText ==
    turn.at = "finished" /\ turn.answer = "text" /\ Whole =>
        turn.ran = <<>> /\ (LooksToolish(turn.reply) => turn.reply.shape = "nameless")

\* The client of a stream gets the pieces of the reply in order and without
\* gaps, whenever the mode was decided and however producer and consumer
\* interleave, and all of them when a turn ends that showed any; a stream
\* taken for a call shows none (handle_chat_stream).
StreamFaithful ==
    /\ turn.streamed = [i \in 1..Len(turn.streamed) |-> i]
    /\ Len(turn.streamed) <= turn.got
    /\ turn.mode = "tool" => turn.streamed = <<>>
    /\ turn.at = "finished" /\ turn.emitted => Len(turn.streamed) = turn.got

\* A turn executes at most one call, and when it is over, finished or cut off
\* by a lost client, an executed call is in the conversation with its result
\* and answer, unless storing failed or the client keeps the conversation
\* itself (finalize_direct_tool_turn, finalize_tool_turn).
EffectsRecorded ==
    Over => /\ Len(turn.ran) <= 1
            /\ turn.path = "bridge" => turn.stored = <<>>
            /\ turn.ran # <<>> /\ ~turn.lost /\ turn.path # "bridge"
                 => turn.stored = <<"user", "call", "result", "answer">>
            /\ turn.ran = <<>> => turn.stored \in {<<>>, <<"user">>, <<"user", "answer">>}

\* Every body sent holds what was just said, at its end unless an OpenAI
\* client posted more after it, and before it the newest messages without a
\* gap.  One for the runtime fits its limit with two exceptions: what must be
\* kept is too large, or the envelope and the escapes of what was kept take
\* more than the room left for both, as the compaction reckons without escapes
\* (compact_genie_runtime_messages, estimate_message_bytes).
Earlier(body) ==
    LET before == SubSeq(body, 1, SelectLastInSeq(body, LAMBDA m : m.what = "turn") - 1)
        h == SelectSeq(before, LAMBDA m : NotSystem(m) /\ m.what # "instructions")
    IN  [i \in DOMAIN h |-> h[i].what]
PromptKeepsTurn ==
    \A s \in turn.sent :
        LET h == Earlier(s.body)
        IN  /\ \E i \in DOMAIN s.body : s.body[i].what = "turn" /\ (i = Len(s.body) \/ turn.path = "bridge")
            /\ IsSuffix(h, Earlier(turn.prompt))
            /\ s.to = "local" /\ Runtime =>
                  BodyBytes(s.body) <= MaxBody \/ h = <<>> \/ Envelope + EscapeBytes(s.body) > Overhead

\* A prompt goes to the proxy only for a reason that is configured, which must
\* have occurred: the prompt overflows, or the local model was asked and
\* failed; and never from the streaming handler (may_escalate,
\* process_chat_turn).
EscalationPermitted ==
    \A s \in turn.sent : s.to = "proxy" =>
        /\ turn.path = "chat" /\ ProxyOn /\ s.reason \in Trigger
        /\ IF s.reason = "overflow" THEN turn.overflow ELSE \E l \in turn.sent : l.to = "local"

\* Every turn answers or fails (the awaits of a turn are all bounded).
TurnEnds == ~Over ~> Over

(***************************************************************************)
(* What is routed without the model is a call the dispatcher executes,     *)
(* with the duration the sentence says (quick.rs).                         *)
(***************************************************************************)
RoutedAsMeant == RoutedCallSound /\ DurationHeard

(***************************************************************************)
(* The user is shown the reply, all of it in order, and never a call in    *)
(* its place (handle_chat_stream, is_unparsed_tool_call).                  *)
(***************************************************************************)
ReplyShown == AnswerNeverToolText /\ StreamFaithful

(***************************************************************************)
(* What the model is asked holds the turn and fits, and leaves the house   *)
(* only as configured (compact_genie_runtime_messages, may_escalate).      *)
(***************************************************************************)
RequestsSound == PromptKeepsTurn /\ EscalationPermitted
=============================================================================
