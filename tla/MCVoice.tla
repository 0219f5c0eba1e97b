------------------------------- MODULE MCVoice -------------------------------
(* One speaker profile; replies that exercise the boundary rules (a short      *)
(* first sentence, an abbreviation, a CJK stop, a code fence) and a tool call. *)
EXTENDS VoiceLoop

Short == <<Word, Dot, Space, Abbr, Dot, Space, Word, Bang, Newline, Word>>
Fenced == <<Word, Word, Cjk, Tick, Tick, Tick, Word, Tick, Tick, Tick, Word>>
ToolCall == <<Markup, Word, Word>>
Mute == <<Tick, Markup>>

AllReplies == {Short, Fenced, ToolCall, Mute}
FewReplies == {ToolCall}
CallReplies == {ToolCall}
MuteReplies == {Mute}
NoReplies == {}
=============================================================================
