------------------------------ MODULE ToolCalls ------------------------------
(***************************************************************************)
(* What a model reply is taken for: the JSON found in it and the call read *)
(* from that (tools/parser.rs), the decision how to stream it while it is  *)
(* still arriving (server.rs), and the argument checks of the tool bodies  *)
(* (tools/dispatch).                                                       *)
(*                                                                         *)
(* A reply r, instead of its characters:                                   *)
(*   lead   what precedes the JSON: nothing, a fence, a fence whose ticks  *)
(*          arrive in two tokens (split), or prose                         *)
(*   open   brace, or bracket for a list around it                         *)
(*   pad    96 characters or more come before the first telling key        *)
(*   shape  which JSON it is; "none" is plain prose                        *)
(*   tool, args  what it names and the form of the arguments               *)
(***************************************************************************)
EXTENDS Naturals, Sequences, SequencesExt

NoToolCall == [tool |-> "none", args |-> "none"]

\* The shapes of a reply: "none" of the others; "named" {"tool": ..,
\* "arguments": ..}; "builtin" {"<built-in>": ..}; "skill" {"<skill>": ..};
\* "answer" {"answer": ..}; "other" {"<any other key>": ..}; "openai"
\* {"tool_calls": [..]}; "hollow", the same with nothing usable inside;
\* "nameless", several keys and no name; "broken", invalid JSON; "inner",
\* invalid JSON around a valid one-key object.

ReplyKinds == [lead : {"none", "fence", "split", "prose"}, open : {"brace", "bracket"}, pad : BOOLEAN,
               shape : {"none", "named", "builtin", "skill", "answer", "other", "openai", "hollow",
                        "nameless", "broken", "inner"},
               tool : STRING \ {"none"}, args : STRING]

\* One of "tool", "arguments", "name", "tool_calls", "function_call" occurs.
Toolish(shape) == shape \in {"named", "openai", "hollow", "nameless", "broken", "inner"}

\* looks_like_tool_json: "tool", "arguments" or a built-in tool's name.
Marked(shape) == shape \in {"named", "builtin", "openai", "nameless", "broken", "inner"}

-----------------------------------------------------------------------------
(* parser.rs                                                               *)

\* The first JSON that parses: the whole text, the fenced block, or the first
\* balanced part of it, trailing commas repaired.
ExtractJson(r) ==
    CASE r.shape \in {"none", "broken"} -> "nothing"
      [] r.shape = "inner"              -> "part"
      [] OTHER                          -> "whole"

\* Tools with exactly one required scalar argument.
ScalarPrimaryArg == {"get_weather", "web_search", "calculate", "play_media", "memory_recall",
                     "memory_store", "memory_forget", "home_status", "set_timer"}

\* {tool: value}: an object is the arguments, a scalar the primary argument.
NormalizeSingleKeyArguments(tool, args) ==
    CASE args = "scalar" -> IF tool \in ScalarPrimaryArg THEN "full" ELSE "empty"
      [] args \in {"list", "null"} -> "empty"
      [] OTHER -> args

\* Arguments given as text are parsed, null is no arguments.
NormalizeEvalArguments(args) ==
    CASE args = "text" -> "full" [] args = "null" -> "empty" [] OTHER -> args

ReadCall(tool, args) == [tool |-> tool, args |-> args]

\* One element, without a list of known tools: every single key but the ones
\* for plain answers is a tool name.
ParseSingleToolCall(r) ==
    CASE r.shape = "named" -> ReadCall(r.tool, NormalizeEvalArguments(r.args))
      [] r.shape \in {"builtin", "skill", "other", "inner"} ->
            ReadCall(r.tool, NormalizeSingleKeyArguments(r.tool, r.args))
      [] OTHER -> NoToolCall

\* parse_tool_call_value_for_eval: list, wrapper or single object; the first
\* call counts.
ParseToolCallsForEval(r) ==
    CASE ExtractJson(r) = "nothing" -> NoToolCall
      [] r.shape = "openai" /\ r.open = "brace" ->
            ReadCall(r.tool, NormalizeEvalArguments(r.args))
      [] OTHER -> ParseSingleToolCall(r)

\* A named object is taken as it is; its arguments are not normalised.
ParseToolCallValue(r) ==
    IF r.shape = "named" /\ r.open = "brace" THEN ReadCall(r.tool, r.args)
    ELSE ParseToolCallsForEval(r)

LooksToolish(r) == r.lead # "prose" /\ Toolish(r.shape)

IsUnparsedToolCall(r) ==
    IF ExtractJson(r) = "nothing" THEN LooksToolish(r)
    ELSE /\ \/ r.shape \in {"openai", "hollow"}
            \/ r.open = "bracket" /\ r.lead = "none"
         /\ ParseToolCallsForEval(r) = NoToolCall

-----------------------------------------------------------------------------
(* Streaming: the reply arrives in pieces and the mode is decided on what  *)
(* has arrived.                                                            *)

Pieces(r) ==
    LET before == CASE r.lead = "fence" -> <<"fence">> [] r.lead = "split" -> <<"ticks", "ticks">>
                    [] r.lead = "prose" -> <<"word">>  [] OTHER -> <<>>
        body == IF r.shape = "none" THEN <<"word", "word">>
                ELSE <<r.open>> \o (IF r.pad THEN <<"pad">> ELSE <<>>)
                     \o (IF Marked(r.shape) THEN <<"mark">> ELSE <<"word">>)
    IN  before \o body

DetectStreamMode(p) ==
    LET q == IF p # <<>> /\ Head(p) = "fence" THEN Tail(p) ELSE p
    IN  CASE q = <<>>               -> "undecided"
          [] Head(q) # "brace"      -> "text"
          [] Contains(q, "mark")    -> "tool"
          [] ~Contains(q, "pad")    -> "undecided"
          [] OTHER                  -> "text"

-----------------------------------------------------------------------------
(* The checks of the tool bodies.                                          *)

KnownTools == {"get_time", "get_weather", "web_search", "calculate", "play_media",
               "memory_recall", "memory_store", "memory_forget", "memory_status", "home_control",
               "home_status", "home_undo", "action_history", "set_timer", "system_info", "skill"}
NeedsArguments == KnownTools \ {"get_time", "system_info", "memory_status", "home_undo",
                                "action_history", "skill"}

\* An unknown name and missing or mistyped required arguments are errors.
CallAccepted(call) ==
    call.tool \in KnownTools /\ (call.tool \in NeedsArguments => call.args = "full")

\* Reminders of a timer: 1 second to 7 days, at most limit timers at once.
MaxTimerSeconds == 7 * 24 * 3600
TimerAccepted(seconds, armed, limit) == seconds \in 1..MaxTimerSeconds /\ armed < limit

\* Whose result is put into a sentence by a second model call.
ShouldSummarize(tool) ==
    tool \notin {"system_info", "web_search", "memory_recall", "memory_status", "memory_store",
                 "memory_forget"}
=============================================================================
