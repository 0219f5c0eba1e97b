------------------------------ MODULE VoiceLoop ------------------------------
(***************************************************************************)
(* The voice loop (voice_loop.rs) with the wake-word listener process it   *)
(* starts, the microphone both use, the recordings and the spoken reply.   *)
(*                                                                         *)
(* pc is where the loop is.  It runs in one of two modes: the listener     *)
(* prints WAKE, gives the microphone up and waits for READY; or Enter is   *)
(* pressed.  A leg is the utterance after the wake word or, in continuous  *)
(* mode, the follow-up recorded before READY is sent.                      *)
(***************************************************************************)
EXTENDS SpeechPipeline

CONSTANTS
  Utterances,    \* what whisper may return: see Kinds
  ToolReplies,   \* the replies that are tool calls
  Unspoken,      \* the replies that format::for_voice leaves nothing of
  Providers,     \* speaker identity providers
  Modes,         \* subset of {"wake", "ptt"}
  MaxCycles,     \* bound on recordings
  MaxCrashes     \* bound on deaths of the listener process

Kinds == {"empty", "ghost", "effect", "filler", "narration", "quick", "search", "talk"}

ASSUME VoiceAssumption ==
  /\ Unspoken = {t \in Replies : ForVoice(t) = <<>>}
  /\ Utterances \subseteq Kinds /\ ToolReplies \subseteq Replies
  /\ NoSpeaker \notin Profiles /\ Modes \subseteq {"wake", "ptt"}

VARIABLES
  mode, continuous, denoiser, provider,   \* configuration
  listener,   \* "none", "loading", "listening", "woke", "ended"
  line,       \* the listener's stdout: "none", "LISTENING", "ERROR", "WAKE", "other"
  stdin,      \* READY is in the listener's stdin
  mic,        \* who has the capture device open
  pc, leg,
  cycle,      \* recordings started
  files, path,
  text,       \* the transcript
  who,        \* the speaker
  rows,       \* rows this turn has added to its conversation
  captured,   \* extract_and_store ran for this turn
  crashes

config == <<mode, continuous, denoiser, provider>>
child  == <<listener, line, stdin>>
capture == <<files, path, cycle>>
turn   == <<text, who, rows, captured>>
vars == <<mode, continuous, denoiser, provider, listener, line, stdin, mic, pc, leg, cycle,
          files, path, text, who, rows, captured, crashes,
          phase, reply, fed, streamer, sentences, pcm, speaker, outcome, emitted, played>>

Init ==
  /\ mode \in Modes /\ denoiser \in Denoisers /\ provider \in Providers
  /\ continuous \in IF mode = "wake" THEN BOOLEAN ELSE {FALSE}
  /\ listener = "none" /\ line = "none" /\ stdin = FALSE
  /\ mic = {} /\ pc = IF mode = "wake" THEN "spawn" ELSE "wait"
  /\ leg = "cycle" /\ cycle = 0 /\ files = NoFiles /\ path = "failed"
  /\ text = "empty" /\ who = NoSpeaker /\ rows = <<>> /\ captured = FALSE /\ crashes = 0
  /\ SpeechInit
-----------------------------------------------------------------------------
(* The listener, genie-wake-listen.py.                                       *)

ListenerUp ==
  /\ listener = "loading"
  /\ \/ listener' = "listening" /\ line' = "LISTENING" /\ mic' = mic \cup {"listener"}
     \/ listener' = "ended" /\ line' = "ERROR" /\ UNCHANGED mic
  /\ UNCHANGED <<config, stdin, pc, leg, capture, turn, crashes, speech>>

\* Variant: the device stays open while the parent records.
DetectHolding ==
  /\ listener = "listening" /\ line = "none" /\ cycle < MaxCycles
  /\ listener' = "woke" /\ line' = "WAKE"
  /\ UNCHANGED <<config, stdin, mic, pc, leg, capture, turn, crashes, speech>>

\* The wake phrase: the device is closed before WAKE is printed.
Detect ==
  /\ listener = "listening" /\ line = "none" /\ cycle < MaxCycles
  /\ \/ listener' = "woke" /\ line' = "WAKE" /\ mic' = mic \ {"listener"}
     \/ line' = "other" /\ UNCHANGED <<listener, mic>>
  /\ UNCHANGED <<config, stdin, pc, leg, capture, turn, crashes, speech>>

Resume ==
  /\ listener = "woke" /\ stdin
  /\ stdin' = FALSE
  /\ listener' = "listening" /\ mic' = mic \cup {"listener"}
  /\ UNCHANGED <<config, line, pc, leg, capture, turn, crashes, speech>>

\* The process dies, or cannot open the device again.
ListenerDies ==
  /\ listener \in {"loading", "listening", "woke"} /\ crashes < MaxCrashes
  /\ listener' = "ended" /\ mic' = mic \ {"listener"} /\ crashes' = crashes + 1
  /\ UNCHANGED <<config, line, stdin, pc, leg, capture, turn, speech>>
-----------------------------------------------------------------------------
(* run_with_wakeword and run_push_to_talk                                    *)

Spawn ==
  /\ pc = "spawn"
  /\ \/ pc' = "handshake" /\ listener' = "loading"
     \/ pc' = "exited" /\ UNCHANGED listener
  /\ line' = "none" /\ stdin' = FALSE
  /\ UNCHANGED <<config, mic, leg, capture, turn, crashes, speech>>

\* The first line, or the end of the pipe, which reads as an empty line.
Handshake ==
  /\ pc = "handshake" /\ (line # "none" \/ listener = "ended")
  /\ line' = "none"
  /\ IF line = "LISTENING" THEN pc' = "wait" /\ UNCHANGED <<listener, mic>>
     ELSE pc' = "exited" /\ listener' = "none" /\ mic' = mic \ {"listener"}
  /\ UNCHANGED <<config, stdin, leg, capture, turn, crashes, speech>>

BeginCycle ==
  /\ leg' = "cycle" /\ pc' = "flush" /\ cycle' = cycle + 1
  /\ text' = "empty" /\ who' = NoSpeaker /\ rows' = <<>> /\ captured' = FALSE
  /\ UNCHANGED <<files, path>>

ReadLine ==
  /\ pc = "wait" /\ line # "none" /\ line' = "none"
  /\ IF line = "WAKE" THEN BeginCycle
     ELSE UNCHANGED <<pc, leg, capture, turn>>
  /\ UNCHANGED <<config, listener, stdin, mic, crashes, speech>>

\* Read 0 bytes, or READY could not be written: kill, pause, start over.
Restart ==
  /\ \/ pc = "wait" /\ mode = "wake" /\ line = "none" /\ listener = "ended"
     \/ pc = "restart"
  /\ pc' = "spawn" /\ listener' = "none" /\ line' = "none" /\ stdin' = FALSE
  /\ mic' = mic \ {"listener"}
  /\ UNCHANGED <<config, leg, capture, turn, crashes, speech>>

\* Push to talk: Enter starts a cycle; "quit" and the end of input leave.
Enter ==
  /\ pc = "wait" /\ mode = "ptt"
  /\ \/ cycle < MaxCycles /\ BeginCycle
     \/ pc' = "exited" /\ UNCHANGED <<leg, capture, turn>>
  /\ UNCHANGED <<config, child, mic, crashes, speech>>

\* voice_cycle returned: a follow-up before READY in continuous mode.
After ==
  /\ pc = "after"
  /\ IF mode = "ptt" THEN pc' = "wait" /\ UNCHANGED <<leg, capture, turn>>
     ELSE IF continuous /\ cycle < MaxCycles
     THEN /\ leg' = "follow" /\ pc' = "flush" /\ cycle' = cycle + 1
          /\ text' = "empty" /\ who' = NoSpeaker /\ rows' = <<>> /\ captured' = FALSE
          /\ UNCHANGED <<files, path>>
     ELSE pc' = "ready" /\ UNCHANGED <<leg, capture, turn>>
  /\ UNCHANGED <<config, child, mic, crashes, speech>>

\* A write to a process that has just ended may still succeed.
SendReady ==
  /\ pc = "ready"
  /\ \/ pc' = "wait" /\ stdin' = TRUE
     \/ listener = "ended" /\ pc' = "restart" /\ UNCHANGED stdin
  /\ UNCHANGED <<config, listener, line, mic, leg, capture, turn, crashes, speech>>

LoopStep == Spawn \/ Handshake \/ ReadLine \/ Restart \/ After \/ SendReady
-----------------------------------------------------------------------------
(* Capturing: flush_mic_buffer, record_audio, transcribe_file.               *)

\* Where a leg goes when it ends early.
Leave == pc' = IF leg = "cycle" THEN "after" ELSE "ready"

OpenMic ==
  /\ pc \in {"flush", "record"}
  /\ mic' = mic \cup {"arecord"}
  /\ pc' = IF pc = "flush" THEN "flushing" ELSE "recording"
  /\ UNCHANGED <<config, child, leg, capture, turn, crashes, speech>>

Flushed ==
  /\ pc = "flushing" /\ pc' = "record" /\ mic' = mic \ {"arecord"}
  /\ UNCHANGED <<config, child, leg, capture, turn, crashes, speech>>

Recorded ==
  /\ pc = "recording" /\ mic' = mic \ {"arecord"}
  /\ \E r \in RecordAudio(files, cycle, denoiser) :
       /\ files' = r.files /\ path' = r.path
       /\ IF r.path = "failed" THEN Leave ELSE pc' = "stt"
  /\ UNCHANGED <<config, child, leg, cycle, turn, crashes, speech>>

Transcribe ==
  /\ pc = "stt"
  /\ text' \in TranscribeFile(Utterances, TRUE) \cup TranscribeFile(Utterances, FALSE)
  /\ IF text' = "failed" THEN files' = Removed(files, {path}) /\ Leave
     ELSE pc' = "heard" /\ UNCHANGED files
  /\ UNCHANGED <<config, child, mic, leg, path, cycle, who, rows, captured, crashes, speech>>

WhoSpoke ==
  \E score \in [Profiles -> {0, LocalMinScore, 92}] :
    who' \in Identify(provider, score, files[path] # 0)

\* Variant: a rejected utterance goes back to reading, as in a follow-up.
HeardSkipping ==
  /\ pc = "heard" /\ leg = "cycle" /\ files' = Removed(files, {path})
  /\ IF text = "empty" THEN Leave /\ UNCHANGED <<who, rows>>
     ELSE /\ WhoSpoke
          /\ IF AssessTranscript(text) = "reject"
             THEN pc' = "wait" /\ UNCHANGED rows
             ELSE pc' = "route" /\ rows' = <<"user">>
  /\ UNCHANGED <<config, child, mic, leg, path, cycle, text, captured, crashes, speech>>

\* In a cycle the intent gate comes before the speaker is identified; the
\* recording goes once nobody needs it.
Heard ==
  /\ pc = "heard" /\ leg = "cycle" /\ files' = Removed(files, {path})
  /\ IF text = "empty" \/ AssessTranscript(text) = "reject"
     THEN Leave /\ UNCHANGED <<who, rows>>
     ELSE WhoSpoke /\ pc' = "route" /\ rows' = <<"user">>
  /\ UNCHANGED <<config, child, mic, leg, path, cycle, text, captured, crashes, speech>>

\* In a follow-up it comes after; one that is rejected goes straight back to
\* reading the listener's output.
HeardFollowUp ==
  /\ pc = "heard" /\ leg = "follow" /\ files' = Removed(files, {path})
  /\ IF text = "empty" THEN Leave /\ UNCHANGED <<who, rows>>
     ELSE /\ WhoSpoke
          /\ IF AssessTranscript(text) = "reject"
             THEN pc' = "wait" /\ UNCHANGED rows
             ELSE pc' = "route" /\ rows' = <<"user">>
  /\ UNCHANGED <<config, child, mic, leg, path, cycle, text, captured, crashes, speech>>

CaptureStep == OpenMic \/ Flushed \/ Recorded \/ Transcribe \/ Heard \/ HeardFollowUp
-----------------------------------------------------------------------------
(* Answering: process_transcript and the follow-up's copy of it.             *)

\* format::for_voice may leave nothing to say.
Utter(t) == IF t \in Unspoken THEN SkipSpeech ELSE Speak(t)

\* handle_quick_tool_for_voice: what is said is stored first.
QuickTool ==
  /\ pc = "route" /\ text \in {"quick", "search"}
  /\ \/ rows' = rows \o <<"tool", "result", "assistant">>
     \/ text = "search" /\ rows' = rows \o <<"assistant">>   \* refused, or bad arguments
  /\ \E t \in Replies : Utter(t)
  /\ pc' = "quick"
  /\ UNCHANGED <<config, child, mic, leg, capture, text, who, captured, crashes>>

\* A follow-up answered by a quick tool also goes straight back to reading.
QuickDone ==
  /\ pc = "quick" /\ Return
  /\ IF leg = "cycle" THEN captured' = TRUE /\ pc' = "after"
     ELSE pc' = "wait" /\ UNCHANGED captured
  /\ UNCHANGED <<config, child, mic, leg, capture, text, who, rows, crashes>>

AskModel ==
  /\ pc = "route" /\ text \notin {"quick", "search"}
  /\ \E t \in Replies : StartStream(t)
  /\ pc' = "answer"
  /\ UNCHANGED <<config, child, mic, leg, capture, turn, crashes>>

Store(row) == rows' = Append(rows, row) /\ captured' = TRUE

\* A reply the loop goes on with: a tool call in a cycle is executed.
Accept ==
  IF leg = "cycle" /\ reply \in ToolReplies
  THEN /\ rows' = rows \o <<"tool", "result">>
       /\ \E t \in Replies : StartStream(t)
       /\ pc' = "summary" /\ UNCHANGED captured
  ELSE Store("assistant") /\ Leave /\ Return

\* A stream that failed: the cycle asks again and says all of it, or gives up;
\* the follow-up gives up at once.
AnswerFailed ==
  \/ /\ leg = "cycle" /\ Utter(reply) /\ pc' = "fallback" /\ UNCHANGED <<rows, captured>>
  \/ Return /\ Leave /\ captured' = (leg = "follow") /\ UNCHANGED rows

Answered ==
  /\ pc = "answer" /\ phase = "done"
  /\ IF outcome = "ok" THEN Accept ELSE AnswerFailed
  /\ UNCHANGED <<config, child, mic, leg, capture, text, who, crashes>>

Fallback ==
  /\ pc = "fallback" /\ phase = "done" /\ Accept
  /\ UNCHANGED <<config, child, mic, leg, capture, text, who, crashes>>

\* The summary: streamed, or asked for again, or the tool's own output.
Summarised ==
  /\ pc = "summary" /\ phase = "done"
  /\ IF outcome = "error"
     THEN Utter(reply) /\ pc' = "said" /\ UNCHANGED <<rows, captured>>
     ELSE Store("assistant") /\ Leave /\ Return
  /\ UNCHANGED <<config, child, mic, leg, capture, text, who, crashes>>

Said ==
  /\ pc = "said" /\ Return /\ Store("assistant") /\ Leave
  /\ UNCHANGED <<config, child, mic, leg, capture, text, who, crashes>>

AnswerStep == QuickTool \/ QuickDone \/ AskModel \/ Answered \/ Fallback \/ Summarised \/ Said

loop == <<config, child, mic, pc, leg, capture, turn, crashes>>
Speech == SpeechStep /\ UNCHANGED loop

Next == \/ ListenerUp \/ Detect \/ Resume \/ ListenerDies
        \/ LoopStep \/ Enter \/ CaptureStep \/ AnswerStep \/ Speech

(* The loop is one task that always has its next step; the children it waits *)
(* for end (aplay under a deadline, the model under its idle timeout), and   *)
(* the listener reacts to READY.  Nobody has to say the wake word.           *)
Fairness == /\ WF_vars(LoopStep) /\ WF_vars(CaptureStep) /\ WF_vars(AnswerStep)
            /\ WF_vars(SpeechEnds /\ UNCHANGED loop) /\ WF_vars(ListenerUp) /\ WF_vars(Resume)

Spec == Init /\ [][Next]_vars /\ Fairness
-----------------------------------------------------------------------------
(* Properties                                                                *)

\* The capture device has one user at a time (the listener closes it before it
\* prints WAKE, and opens it again only for READY), and arecord never runs
\* while the assistant's own voice plays, waits to be played or still sounds in
\* the room: both tasks are joined and the post-TTS silence kept before the
\* next capture.
HalfDuplex ==
  "arecord" \in mic => /\ mic = {"arecord"}
                       /\ ~Speaking /\ sentences = <<>> /\ pcm = <<>>

\* The file handed to whisper and to the speaker recognizer holds this cycle's
\* voice, although the names of the files are reused, a chain may fail half way
\* and leave its output, and earlier cycles may have left theirs.
RecordingIsThisCycles ==
  pc \in {"stt", "heard"} => files[path] = cycle

\* What is spoken does not depend on how the model's tokens split the text, and
\* is played in the order of the text, with nothing invented or said twice; a
\* sentence that fails to synthesize is left out.
SpokenFaithfully ==
  LET st == Feed(NewStreamer, SubSeq(reply, 1, fed))
      Pick(I) == [k \in 1 .. Cardinality(I) |->
                    emitted[CHOOSE i \in I : Cardinality({j \in I : j <= i}) = k]]
  IN /\ phase = "stream" => emitted = st.out
     /\ phase = "drain"  => emitted = st.out \o Finish(st)
     /\ \E I \in SUBSET (1 .. Len(emitted)) : played = Pick(I)

\* After WAKE the loop gets the listener going again, whatever becomes of the
\* recording, the transcript, the model and the speech; here without the
\* follow-up of continuous mode.
ResumesListening == (listener = "woke" /\ ~continuous) ~> listener # "woke"

\* The same in every mode, as the module's comment has it ("voice loop records +
\* processes, then sends "READY" to resume listening"): a follow-up that is
\* rejected or answered by a quick tool leaves both sides waiting for the other.
AlwaysResumesListening == (listener = "woke") ~> listener # "woke"

(***************************************************************************)
(* What is transcribed is what the user said in this cycle: neither the    *)
(* assistant's own voice nor an older recording (flush_mic_buffer,         *)
(* run_sox_chain).                                                         *)
(***************************************************************************)
HearsOnlyUser == HalfDuplex /\ RecordingIsThisCycles
=============================================================================
