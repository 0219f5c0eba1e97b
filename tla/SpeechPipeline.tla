--------------------------- MODULE SpeechPipeline ---------------------------
(***************************************************************************)
(* Speech out and in, for the voice loop.                                  *)
(*                                                                         *)
(* Speaking a reply: stream_and_speak_with_hints runs the model's stream,  *)
(* a synthesis task and a playback task side by side, joined by two        *)
(* unbounded channels; TtsEngine::speak does one text on its own.  Piper,  *)
(* aplay and the model are external: every outcome of theirs that the code *)
(* tells apart is a disjunct.                                              *)
(***************************************************************************)
EXTENDS Naturals, Sequences, FiniteSets, SequencesExt

CONSTANTS
  MaxSentences, \* MAX_SPOKEN_SENTENCES, and the 3 of format::for_voice
  MinChars,     \* MIN_SENTENCE_CHARS of streaming.rs
  MinClause,    \* MIN_SENTENCE_CHARS of format.rs
  Replies,      \* texts the model may write
  MaxToken      \* bound on the characters of one token

ASSUME StreamerAssumption ==
  {MaxSentences, MinChars, MinClause} \subseteq Nat \ {0}

-----------------------------------------------------------------------------
(* How a reply becomes the pieces that are spoken: voice/streaming.rs cuts *)
(* it while the model is still writing it, voice/format.rs once it is all  *)
(* there.  A text is a sequence of character classes, one per rule of the  *)
(* code that tells characters apart.                                       *)

Word == "x"       \* any character without a rule of its own
Abbr == "a"       \* a whole abbreviation ("Dr", "p.m") up to its last dot
Space == "s"
Newline == "n"
Dot == "."
Bang == "!"       \* the other ASCII terminators
Cjk == "k"        \* a CJK terminator
Tick == "t"
Markup == "m"     \* emphasis, links, URLs: removed before speaking

Blank == {Space, Newline}
AsciiEnd == {Dot, Bang}

(* clean_sentence, clean_for_tts: markup goes, runs of blanks become one and  *)
(* none is left at an end.  Push cleans as it adds a character, CleanSentence *)
(* drops the blank that may end the result.                                   *)
Push(s, c) ==
  CASE c \in {Tick, Markup} -> s
    [] c \in Blank -> IF s = <<>> \/ s[Len(s)] = Space THEN s ELSE Append(s, Space)
    [] OTHER -> Append(s, c)
CleanSentence(s) == IF s # <<>> /\ s[Len(s)] = Space THEN SubSeq(s, 1, Len(s) - 1) ELSE s
Clean(s) == CleanSentence(FoldLeft(Push, <<>>, s))

(* The last blank-delimited token, less its dots, is a known abbreviation.   *)
EndsWithAbbreviation(s) ==
  LET t == CleanSentence(s)
  IN \E i \in 1 .. Len(t) :
       /\ t[i] = Abbr
       /\ i = 1 \/ t[i - 1] = Space
       /\ \A j \in i + 1 .. Len(t) : t[j] = Dot
-----------------------------------------------------------------------------
(* SentenceStreamer: pending is kept cleaned, out is what feed has returned. *)
NewStreamer ==
  [pending |-> <<>>, fence |-> FALSE, marker |-> 0, awaiting |-> FALSE, out |-> <<>>]

Full(st) == Len(st.out) >= MaxSentences

TryEmit(st) ==
  LET cleaned == CleanSentence(st.pending)
  IN IF Len(cleaned) < MinChars THEN st
     ELSE [st EXCEPT !.pending = <<>>, !.out = Append(@, cleaned)]

ConsumeFenceMarker(st) ==
  IF st.marker < 2 THEN [st EXCEPT !.marker = @ + 1]
  ELSE [st EXCEPT !.marker = 0, !.fence = ~@]

\* A blank after a terminator confirms the boundary; anything else rejects it.
Confirm(st, c) ==
  LET seen == [st EXCEPT !.awaiting = FALSE]
      cut  == IF EndsWithAbbreviation(seen.pending) THEN seen ELSE TryEmit(seen)
  IN IF Full(cut) THEN cut ELSE [cut EXCEPT !.pending = Push(@, c)]

Take(st, c) ==
  LET kept == [st EXCEPT !.pending = Push(@, c), !.awaiting = c \in AsciiEnd]
  IN IF c = Cjk THEN TryEmit(kept) ELSE kept

FeedChar(st, c) ==
  LET plain == [st EXCEPT !.marker = 0]
  IN CASE Full(st)                        -> st
       [] ~Full(st) /\ c = Tick           -> ConsumeFenceMarker(st)
       [] ~Full(st) /\ c # Tick /\ st.fence -> plain
       [] OTHER -> IF st.awaiting /\ c \in Blank THEN Confirm(plain, c) ELSE Take(plain, c)

\* Variant: the boundary flag does not outlive a token.
FeedPerToken(st, chunk) == FoldLeft(FeedChar, [st EXCEPT !.awaiting = FALSE], chunk)

Feed(st, chunk) == FoldLeft(FeedChar, st, chunk)

\* The tail that finish() sends, if any; stray ticks are cleaned away.
Finish(st) ==
  IF Full(st) \/ CleanSentence(st.pending) = <<>> THEN <<>> ELSE <<CleanSentence(st.pending)>>
-----------------------------------------------------------------------------
(* format::for_voice                                                         *)
LineEnd(acc, drop) ==
  LET line == Clean(acc.line)
  IN IF drop \/ acc.block \/ line = <<>> THEN [acc EXCEPT !.line = <<>>]
     ELSE [acc EXCEPT !.line = <<>>,
                      !.text = (IF @ = <<>> THEN @ ELSE Append(@, Space)) \o line]

\* A line that starts with three ticks opens or closes a code block.
StripMarkdown(text) ==
  LET IsFence(line) == Len(line) >= 3 /\ \A i \in 1 .. 3 : line[i] = Tick
      Step(acc, c) ==
        CASE c # Newline -> [acc EXCEPT !.line = Append(@, c)]
          [] c = Newline /\ IsFence(acc.line) ->
               [acc EXCEPT !.line = <<>>, !.block = ~@]
          [] OTHER -> LineEnd(acc, FALSE)
      end == FoldLeft(Step, [line |-> <<>>, block |-> FALSE, text |-> <<>>], text)
  IN LineEnd(end, IsFence(end.line)).text

EndsSentence(text, i, current) ==
  \/ text[i] = Cjk
  \/ /\ text[i] \in AsciiEnd
     /\ i = Len(text) \/ text[i + 1] \in Blank
     /\ Len(Clean(current)) >= MinClause
     /\ ~EndsWithAbbreviation(Clean(current))

\* At most MaxSentences sentences, as a sequence of them.
TruncateForVoice(text) ==
  LET Step(acc, i) ==
        LET current == Append(acc.current, text[i])
        IN IF Len(acc.done) = MaxSentences THEN acc
           ELSE IF EndsSentence(text, i, current)
                THEN [done |-> Append(acc.done, Clean(current)), current |-> <<>>]
                ELSE [acc EXCEPT !.current = current]
      end == FoldLeft(Step, [done |-> <<>>, current |-> <<>>],
                      [i \in 1 .. Len(text) |-> i])
      trailing == Clean(end.current)
  IN IF trailing = <<>> \/ Len(end.done) = MaxSentences THEN end.done
     ELSE Append(end.done, trailing)

ForVoice(text) == TruncateForVoice(StripMarkdown(text))
-----------------------------------------------------------------------------
VARIABLES
  phase,      \* "idle", "stream", "drain", "say", "done"
  reply,      \* what the model writes
  fed,        \* how much of it has arrived
  streamer,
  sentences,  \* the tx channel: cut, not synthesized
  pcm,        \* the pcm_tx channel: synthesized, not played
  speaker,    \* "quiet", "playing", "decay" (no silence since it played), "cut"
  outcome,    \* stream_result: "ok", "error"
  emitted,    \* history: sentences put in the channel for this reply
  played      \* history: sentences played for this reply

speech == <<phase, reply, fed, streamer, sentences, pcm, speaker, outcome, emitted, played>>

SpeechInit ==
  /\ phase = "idle" /\ reply = <<>> /\ fed = 0 /\ streamer = NewStreamer
  /\ sentences = <<>> /\ pcm = <<>> /\ speaker = "quiet" /\ outcome = "ok"
  /\ emitted = <<>> /\ played = <<>>

StartStream(text) ==
  /\ phase' = "stream" /\ reply' = text /\ fed' = 0 /\ streamer' = NewStreamer
  /\ sentences' = <<>> /\ pcm' = <<>> /\ emitted' = <<>> /\ played' = <<>>
  /\ outcome' = "ok"
  /\ UNCHANGED speaker

\* on_token: what the streamer cuts goes to the synthesis task at once.
Token ==
  /\ phase = "stream" /\ fed < Len(reply)
  /\ \E n \in 1 .. MaxToken :
       /\ fed + n <= Len(reply)
       /\ fed' = fed + n
       /\ streamer' = Feed(streamer, SubSeq(reply, fed + 1, fed + n))
  /\ LET new == SubSeq(streamer'.out, Len(streamer.out) + 1, Len(streamer'.out))
     IN sentences' = sentences \o new /\ emitted' = emitted \o new
  /\ UNCHANGED <<phase, reply, pcm, speaker, outcome, played>>

\* [DONE], the end of the connection, or an error of the backend: the tail is
\* sent and the channel closed whichever it was.
StreamEnds ==
  /\ phase = "stream"
  /\ \/ fed = Len(reply) /\ outcome' = "ok"
     \/ outcome' = "error"
  /\ LET tail == Finish(streamer)
     IN sentences' = sentences \o tail /\ emitted' = emitted \o tail
  /\ phase' = "drain"
  /\ UNCHANGED <<reply, fed, streamer, pcm, speaker, played>>

\* The synthesis task: a sentence Piper fails on is skipped.
Synthesize ==
  /\ phase \in {"stream", "drain"} /\ sentences # <<>>
  /\ sentences' = Tail(sentences)
  /\ \/ pcm' = Append(pcm, Head(sentences))
     \/ UNCHANGED pcm
  /\ UNCHANGED <<phase, reply, fed, streamer, speaker, outcome, emitted, played>>

\* TtsEngine::speak of a text that is not empty: synthesized here, or not at
\* all (Piper fails, or says nothing), in which case nothing is played.
Speak(text) ==
  /\ reply' = text /\ fed' = Len(text) /\ streamer' = NewStreamer
  /\ sentences' = <<>> /\ emitted' = <<text>> /\ played' = <<>>
  /\ \/ phase' = "say" /\ pcm' = <<text>>
     \/ phase' = "done" /\ pcm' = <<>>
  /\ UNCHANGED <<speaker, outcome>>

SkipSpeech == /\ phase' = "done" /\ UNCHANGED <<reply, fed, streamer, sentences, pcm, speaker,
                                                outcome, emitted, played>>

\* The playback task hands the next buffer to aplay.
PlayNext ==
  /\ phase \in {"stream", "drain", "say"} /\ pcm # <<>> /\ speaker # "playing"
  /\ \/ speaker' = "playing" /\ played' = Append(played, Head(pcm)) /\ pcm' = Tail(pcm)
        /\ UNCHANGED phase
     \/ /\ pcm' = Tail(pcm) /\ UNCHANGED <<speaker, played>>     \* aplay does not start
        /\ phase' = IF phase = "say" THEN "done" ELSE phase
  /\ UNCHANGED <<reply, fed, streamer, sentences, outcome, emitted>>

\* aplay ends, or is killed at its deadline; or it dies while it is being fed,
\* which makes speak return at once.
PlayEnds ==
  /\ speaker = "playing"
  /\ \/ speaker' = "decay" /\ UNCHANGED phase
     \/ /\ speaker' = "cut"
        /\ phase' = IF phase = "say" THEN "done" ELSE phase
  /\ UNCHANGED <<reply, fed, streamer, sentences, pcm, outcome, emitted, played>>

\* Both tasks have ended: the half-duplex gate, once.
PostSilence ==
  /\ phase \in {"drain", "say"} /\ sentences = <<>> /\ pcm = <<>> /\ speaker # "playing"
  /\ phase' = "done" /\ speaker' = "quiet"
  /\ UNCHANGED <<reply, fed, streamer, sentences, pcm, outcome, emitted, played>>

\* The call returns: its channels and tasks are gone.
Return ==
  /\ phase = "done" /\ phase' = "idle" /\ reply' = <<>> /\ fed' = 0
  /\ streamer' = NewStreamer /\ sentences' = <<>> /\ pcm' = <<>>
  /\ outcome' = "ok" /\ emitted' = <<>> /\ played' = <<>>
  /\ UNCHANGED speaker

\* What must come to an end; tokens need not come.
SpeechEnds == StreamEnds \/ Synthesize \/ PlayNext \/ PlayEnds \/ PostSilence
SpeechStep == Token \/ SpeechEnds

Speaking == speaker \in {"playing", "decay"}

-----------------------------------------------------------------------------
(***************************************************************************)
(* Capturing an utterance: arecord, the clean-up chains of voice/stt.rs,   *)
(* the transcript and the speaker's identity.  The recording passes        *)
(* through files whose names are fixed for the process, so a file can hold *)
(* an earlier cycle's audio: a file is the number of the cycle whose voice *)
(* it holds, 0 when there is none.  arecord, sox, deep-filter and whisper  *)
(* are external; an operator here is the set of outcomes they allow.       *)
(***************************************************************************)
CONSTANTS
  Profiles,    \* enrolled voice profiles
  NoSpeaker,
  LocalMinScore,    \* local_min_score, in percent
  Denoisers    \* configured audio_denoiser values

Files == {"raw", "mono", "dfn", "norm"}
NoFiles == [f \in Files |-> 0]
Removed(files, fs) == [f \in Files |-> IF f \in fs THEN 0 ELSE files[f]]

\* run_sox_chain: sox may fail before or after it began its output; then the
\* raw recording is used, and what sox left behind stays.
RunSoxChain(files) ==
  {[files |-> [files EXCEPT !.norm = files["raw"]], path |-> "norm"],
   [files |-> [files EXCEPT !.norm = files["raw"]], path |-> "raw"],
   [files |-> files, path |-> "raw"]}

\* run_deepfilternet_chain: downmix, denoise, normalize; any failure falls back
\* to the sox chain on the raw recording.
RunDeepFilterNetChain(files) ==
  LET mono == [files EXCEPT !.dfn = 0, !.mono = files["raw"]]
      norm == [files EXCEPT !.dfn = 0, !.mono = 0, !.norm = files["raw"]]
      failed == {files,                                 \* binary or directory missing
                 Removed(mono, {"dfn"}),                \* stage 1 wrote and failed
                 Removed(files, {"mono", "dfn"}),       \* stage 2 or 3 failed
                 norm}                                  \* stage 3 wrote and failed
  IN (UNION {RunSoxChain(f) : f \in failed}) \cup {[files |-> norm, path |-> "norm"]}

PreprocessCapture(files, denoiser) ==
  IF denoiser = "deepfilternet" THEN RunDeepFilterNetChain(files) ELSE RunSoxChain(files)

\* record_audio in cycle n: a failure leaves the raw file of this or an earlier
\* cycle where it is; success removes it once a cleaned one exists.
RecordAudio(files, n, denoiser) ==
  LET Done(r) == IF r.path = "raw" THEN r
                 ELSE [r EXCEPT !.files = Removed(r.files, {"raw"})]
      Cleaned(raw) == {Done(r) : r \in PreprocessCapture(raw, denoiser)}
  IN (UNION {{[files |-> raw, path |-> "failed"]} \cup Cleaned(raw) :
               raw \in {[files EXCEPT !.raw = n]}})
       \cup {[files |-> files, path |-> "failed"]}
-----------------------------------------------------------------------------
(* transcribe_file: whisper-server, or whisper-cli, which is run once more   *)
(* on the CPU when the GPU fails; a ghost phrase or a bracketed sound effect  *)
(* becomes the empty text.                                                   *)
CleanHallucinations(text) == IF text \in {"ghost", "effect"} THEN "empty" ELSE text
ViaServer(texts) == {CleanHallucinations(t) : t \in texts} \cup {"failed"}
ViaCli(texts) ==
  LET cpu == {CleanHallucinations(t) : t \in texts} \cup {"failed"}
      gpu == {CleanHallucinations(t) : t \in texts} \cup {"failed", "gpu failed"}
  IN UNION {IF t = "gpu failed" THEN cpu ELSE {t} : t \in gpu}
TranscribeFile(texts, server) == IF server THEN ViaServer(texts) ELSE ViaCli(texts)

(* assess_transcript: filler and, unless it reads like a request, narration  *)
(* are rejected.                                                             *)
AssessTranscript(text) == IF text \in {"empty", "filler", "narration"} THEN "reject" ELSE "accept"

(* LocalBiometricRecognizer: the best profile at or above the threshold, by  *)
(* its score against the recording, in percent.                              *)
IdentifyFingerprint(score) ==
  LET able == {p \in Profiles : score[p] >= LocalMinScore}
  IN IF able = {} THEN {NoSpeaker}
     ELSE {p \in able : \A q \in able : score[q] <= score[p]}

(* SpeakerIdentityProvider::identify: no recording to read, no speaker.      *)
Identify(provider, score, readable) ==
  CASE provider = "none"  -> {NoSpeaker}
    [] provider = "fixed" -> {CHOOSE p \in Profiles : TRUE}
    [] OTHER -> IF readable THEN IdentifyFingerprint(score) ELSE {NoSpeaker}
=============================================================================
