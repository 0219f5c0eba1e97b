--------------------------- MODULE TelegramMedia ----------------------------
(***************************************************************************)
(* What a voice message of the Telegram adapter goes through: download,    *)
(* transcoding and transcription under a voice permit, the turn, and the   *)
(* reply as synthesized speech or as text in pieces sendMessage accepts.   *)
(* Handlers of several chats share the temporary directory and the nonce   *)
(* in its file names; which chat's turn it is belongs to Telegram.tla.     *)
(*                                                                         *)
(* A text is a sequence of word, space and newline; sound is known by the  *)
(* handler whose message or reply it is.                                   *)
(***************************************************************************)
EXTENDS Naturals, Sequences, SequencesExt, FiniteSets, FiniteSetsExt

CONSTANTS
  Voices,        \* handlers of voice messages
  VoicePermits,  \* max_parallel_voice
  Answers,       \* replies of genie-core, which may be blank or begin and end with blanks
  MaxPiece,      \* TELEGRAM_MAX_MESSAGE_LEN
  MaxSpoken,     \* max_reply_chars
  AudioOptions,  \* [asVoice, delete]: values of reply_as_voice and delete_temp_audio
  MaxTrouble,    \* bound on failing steps
  MaxAdapterRestarts \* bound on restarts

ASSUME MediaAssumption == AudioOptions \subseteq [asVoice : BOOLEAN, delete : BOOLEAN]

VARIABLES
  voices,    \* per handler: its place, its files' names, the reply, what is left to send
  freeVoice, \* free voice_permits
  sounds,    \* the temporary directory: file name to whose sound it holds
  process,   \* process id, next nonce and its options
  heard,     \* history: per handler, whose sound was transcribed
  sent,      \* history: per handler, what its chat received
  trouble    \* failing steps so far

mediaVars == <<voices, freeVoice, sounds, process, heard, sent, trouble>>

Letter == "w"
Newline == "n"
Blanks == {" ", Newline}

AtRest == [at |-> "rest", guard |-> {}, reply |-> <<>>, left |-> <<>>, failed |-> FALSE]

MediaInit ==
  /\ voices = [v \in Voices |-> AtRest] /\ freeVoice = VoicePermits
  /\ sounds = [n \in {} |-> "none"] /\ (\E o \in AudioOptions : process = [pid |-> 1, nonce |-> 0, asVoice |-> o.asVoice, delete |-> o.delete])
  /\ heard = [v \in Voices |-> {}] /\ sent = [v \in Voices |-> <<>>] /\ trouble = 0

Is(v, at) == voices[v].at = at
ToPlace(v, at) == voices' = [voices EXCEPT ![v].at = at]
Trouble == trouble < MaxTrouble /\ trouble' = trouble + 1

-----------------------------------------------------------------------------
(* Temporary files: the names a guard (TempCleanup) holds, and the directory. *)

\* Variant: only the process id tells the files of two handlers apart.
TempNamesByPid(kind) ==
  {[kind |-> kind, pid |-> process.pid, nonce |-> 0, ext |-> x] : x \in {"ogg", "wav"}}

TempNames(kind) ==
  {[kind |-> kind, pid |-> process.pid, nonce |-> process.nonce, ext |-> x] : x \in {"ogg", "wav"}}
TakeNonce == process' = [process EXCEPT !.nonce = @ + 1]

Name(v, kind, ext) == CHOOSE n \in voices[v].guard : n.kind = kind /\ n.ext = ext

(* Writing replaces what is there; a converter reads one file of the guard  *)
(* and writes the other.                                                    *)
Write(name, whose) ==
  sounds' = [n \in DOMAIN sounds \cup {name} |-> IF n = name THEN whose ELSE sounds[n]]
Convert(v, kind, from, to) ==
  /\ Name(v, kind, from) \in DOMAIN sounds
  /\ Write(Name(v, kind, to), sounds[Name(v, kind, from)])

(* The guards' drop; delete_temp_audio = false keeps the files. *)
CleanUp(v) == IF process.delete THEN [n \in DOMAIN sounds \ voices[v].guard |-> sounds[n]] ELSE sounds

Ends(v, failed) ==
  /\ sounds' = CleanUp(v)
  /\ voices' = [voices EXCEPT ![v] = [AtRest EXCEPT !.at = "over", !.reply = voices[v].reply,
                                                    !.failed = failed]]

-----------------------------------------------------------------------------
(* handle_voice_message *)

(* Not rejected: voice is enabled and the message is short enough. *)
VoiceArrives(v) ==
  /\ Is(v, "rest") /\ ToPlace(v, "waiting")
  /\ UNCHANGED <<freeVoice, sounds, process, heard, sent, trouble>>

(* voice_permits.acquire; the two temporary paths and their guard *)
AcquireVoice(v) ==
  /\ Is(v, "waiting") /\ freeVoice > 0
  /\ freeVoice' = freeVoice - 1
  /\ voices' = [voices EXCEPT ![v].at = "download", ![v].guard = TempNames("voice")]
  /\ TakeNonce
  /\ UNCHANGED <<sounds, heard, sent, trouble>>

(* An apology is sent, or fails too; the guard and the permit go. *)
GiveUp(v) ==
  /\ Trouble /\ Ends(v, TRUE) /\ freeVoice' = freeVoice + 1
  /\ UNCHANGED <<process, heard, sent>>

(* download_voice_file: getFile, then the file itself *)
DownloadVoiceFile(v) ==
  /\ Is(v, "download")
  /\ \/ /\ Write(Name(v, "voice", "ogg"), v) /\ ToPlace(v, "transcode")
        /\ UNCHANGED <<freeVoice, process, heard, sent, trouble>>
     \/ GiveUp(v)

(* transcode_to_wav: ffmpeg, for at most FFMPEG_TIMEOUT *)
TranscodeToWav(v) ==
  /\ Is(v, "transcode")
  /\ \/ /\ Convert(v, "voice", "ogg", "wav") /\ ToPlace(v, "transcribe")
        /\ UNCHANGED <<freeVoice, process, heard, sent, trouble>>
     \/ GiveUp(v)

(* transcribe_wav: whisper-server or whisper-cli *)
TranscribeWav(v) ==
  /\ Is(v, "transcribe")
  /\ \/ /\ Name(v, "voice", "wav") \in DOMAIN sounds
        /\ heard' = [heard EXCEPT ![v] = @ \cup {sounds[Name(v, "voice", "wav")]}]
        /\ ToPlace(v, "transcript")
        /\ UNCHANGED <<freeVoice, sounds, process, sent, trouble>>
     \/ GiveUp(v)

(* clean_transcript; the permit goes; nothing intelligible is said so. *)
CleanTranscript(v) ==
  /\ Is(v, "transcript")
  /\ freeVoice' = freeVoice + 1
  /\ \/ ToPlace(v, "core") /\ UNCHANGED <<sounds, trouble>>
     \/ Trouble /\ Ends(v, TRUE)
  /\ UNCHANGED <<process, heard, sent>>

(* chat_core; an error ends the handler without a word to the chat. *)
ChatCore(v) ==
  /\ Is(v, "core")
  /\ \/ /\ \E answer \in Answers :
             voices' = [voices EXCEPT ![v].reply = answer, ![v].at = "gate"]
        /\ UNCHANGED <<sounds, trouble>>
     \/ Trouble /\ Ends(v, TRUE)
  /\ UNCHANGED <<freeVoice, process, heard, sent>>

-----------------------------------------------------------------------------
(* send_reply *)

Inked(text) == {i \in DOMAIN text : text[i] \notin Blanks}
IsBlank(text) == Inked(text) = {}
Trim(text) == IF IsBlank(text) THEN <<>> ELSE SubSeq(text, Min(Inked(text)), Max(Inked(text)))

(* voice_reply_gate: whether a reply is spoken, and not sent as text *)
VoiceReplyGate(text) ==
  process.asVoice /\ ~IsBlank(text) /\ Len(Trim(text)) <= MaxSpoken

StartReply(v) ==
  /\ Is(v, "gate")
  /\ IF VoiceReplyGate(voices[v].reply)
     THEN /\ voices' = [voices EXCEPT ![v].at = "synth", ![v].guard = @ \cup TempNames("reply")]
          /\ TakeNonce
     ELSE /\ voices' = [voices EXCEPT ![v].at = "split"]
          /\ UNCHANGED process
  /\ UNCHANGED <<freeVoice, sounds, heard, sent, trouble>>

(* Any failure on the way to speech falls back to text. *)
FallBack(v) ==
  /\ Trouble /\ ToPlace(v, "split")
  /\ UNCHANGED <<freeVoice, sounds, process, heard, sent>>

(* synthesize_reply_to_wav: piper, bounded, and a file of some size *)
SynthesizeReplyToWav(v) ==
  /\ Is(v, "synth")
  /\ \/ /\ Write(Name(v, "reply", "wav"), v) /\ ToPlace(v, "encode")
        /\ UNCHANGED <<freeVoice, process, heard, sent, trouble>>
     \/ FallBack(v)

WavToOggOpus(v) ==
  /\ Is(v, "encode")
  /\ \/ /\ Convert(v, "reply", "wav", "ogg") /\ ToPlace(v, "send_voice")
        /\ UNCHANGED <<freeVoice, process, heard, sent, trouble>>
     \/ FallBack(v)

(* sendVoice may fail after Telegram took the sound: it is then sent twice. *)
SendVoice(v) ==
  /\ Is(v, "send_voice")
  /\ \/ /\ Name(v, "reply", "ogg") \in DOMAIN sounds
        /\ sent' = [sent EXCEPT ![v] = Append(@, <<"voice", sounds[Name(v, "reply", "ogg")]>>)]
        /\ Ends(v, FALSE)
        /\ UNCHANGED <<freeVoice, process, heard, trouble>>
     \/ /\ Name(v, "reply", "ogg") \in DOMAIN sounds /\ Trouble
        /\ sent' = [sent EXCEPT ![v] = Append(@, <<"voice", sounds[Name(v, "reply", "ogg")]>>)]
        /\ ToPlace(v, "split")
        /\ UNCHANGED <<freeVoice, sounds, process, heard>>
     \/ FallBack(v)

-----------------------------------------------------------------------------
(* split_message and send_text *)

Whites(text) == {i \in DOMAIN text : \A j \in 1..i : text[j] \in Blanks}
TrimStart(text) == SubSeq(text, Cardinality(Whites(text)) + 1, Len(text))

(* rfind: how many characters come before the last one of the area *)
Before(text, c) == {i - 1 : i \in {j \in 1..MaxPiece : text[j] = c}}

(* The length of the next piece of a text that is too long *)
PieceEnd(text) ==
  LET breaks == IF Before(text, Newline) # {} THEN Before(text, Newline) ELSE Before(text, " ")
  IN IF breaks = {} \/ Max(breaks) = 0 THEN MaxPiece ELSE Max(breaks)

RestAfter(text) == TrimStart(SubSeq(text, PieceEnd(text) + 1, Len(text)))

(* A short message is one piece as it is. *)
SplitMessage(v) ==
  /\ Is(v, "split")
  /\ voices' = [voices EXCEPT ![v].at = "text", ![v].left = voices[v].reply]
  /\ UNCHANGED <<freeVoice, sounds, process, heard, sent, trouble>>

(* TelegramChatChannel::send: the reply to a text message is text. *)
TextReply(v, answer) ==
  /\ Is(v, "rest")
  /\ voices' = [voices EXCEPT ![v].at = "split", ![v].reply = answer]
  /\ UNCHANGED <<freeVoice, sounds, process, heard, sent, trouble>>

(* One sendMessage per piece; a failure ends the reply.  Telegram refuses a *)
(* piece that is blank.                                                     *)
SendPiece(v) ==
  /\ Is(v, "text")
  /\ LET left  == voices[v].left
         last  == Len(left) <= MaxPiece
         piece == IF last THEN left ELSE Trim(SubSeq(left, 1, PieceEnd(left)))
     IN \/ /\ ~IsBlank(piece)
           /\ sent' = [sent EXCEPT ![v] = Append(@, <<"text", piece>>)]
           /\ IF last \/ RestAfter(left) = <<>> THEN Ends(v, FALSE)
              ELSE voices' = [voices EXCEPT ![v].left = RestAfter(left)] /\ UNCHANGED sounds
           /\ UNCHANGED trouble
        \/ Trouble /\ Ends(v, TRUE) /\ UNCHANGED sent
        \/ IsBlank(piece) /\ Ends(v, TRUE) /\ UNCHANGED <<sent, trouble>>
  /\ UNCHANGED <<freeVoice, process, heard>>

(* The process is gone with its handlers; its files stay, under its id. *)
AdapterRestarts ==
  /\ process.pid <= MaxAdapterRestarts
  /\ process' = [process EXCEPT !.pid = @ + 1, !.nonce = 0]
  /\ voices' = [v \in Voices |-> [AtRest EXCEPT !.at = IF Is(v, "rest") THEN "rest" ELSE "over",
                                                !.failed = TRUE]]
  /\ freeVoice' = VoicePermits
  /\ UNCHANGED <<sounds, heard, sent, trouble>>

Handle(v) ==
  \/ VoiceArrives(v) \/ AcquireVoice(v) \/ DownloadVoiceFile(v) \/ TranscodeToWav(v)
  \/ TranscribeWav(v) \/ CleanTranscript(v) \/ ChatCore(v) \/ StartReply(v)
  \/ SynthesizeReplyToWav(v) \/ WavToOggOpus(v) \/ SendVoice(v) \/ SplitMessage(v) \/ SendPiece(v)
  \/ \E answer \in Answers : TextReply(v, answer)

MediaNext == (\E v \in Voices : Handle(v)) \/ AdapterRestarts

MediaSpec == MediaInit /\ [][MediaNext]_mediaVars

-----------------------------------------------------------------------------
(***************************************************************************)
(* Handlers that run at once never mix their sound: what is transcribed is *)
(* the chat's own message, what it is sent is its own reply, and a file of *)
(* the running process is there only while a handler holds its guard,      *)
(* unless files are to be kept (TempCleanup, next_temp_nonce).             *)
(***************************************************************************)
SoundsStayApart ==
  /\ \A v \in Voices : heard[v] \subseteq {v}
  /\ \A v \in Voices : \A i \in DOMAIN sent[v] : sent[v][i][1] = "voice" => sent[v][i][2] = v
  /\ \A n \in DOMAIN sounds :
       process.delete /\ n.pid = process.pid => \E v \in Voices : n \in voices[v].guard

Ink(text) == SelectSeq(text, LAMBDA c : c \notin Blanks)
Texts(v) == SelectSeq(sent[v], LAMBDA m : m[1] = "text")
InkSent(v) == FlattenSeq([i \in DOMAIN Texts(v) |-> Ink(Texts(v)[i][2])])

Mishap == trouble > 0 \/ process.pid > 1

(***************************************************************************)
(* "The user is never left without a reply" (telegram.rs:591): a handler   *)
(* that ends without an error has sent the reply of the turn, as sound or  *)
(* as text, whole and in order, in pieces that sendMessage accepts; and    *)
(* one that ends with an error had one, or a reply that begins with a      *)
(* blank: of such a reply split_message may make a first piece of nothing, *)
(* which Telegram refuses, and the rest is never sent.                     *)
(***************************************************************************)
ReplyReachesChat ==
  /\ \A v \in Voices :
       Is(v, "over") /\ ~voices[v].failed =>
         sent[v] = <<<<"voice", v>>>> \/ InkSent(v) = Ink(voices[v].reply)
  /\ \A v \in Voices :
       Is(v, "over") /\ voices[v].failed =>
         Mishap \/ voices[v].reply = <<>> \/ voices[v].reply[1] \in Blanks
  /\ \A v \in Voices : \A i \in DOMAIN sent[v] :
       sent[v][i][1] = "text" => Len(sent[v][i][2]) \in 1..MaxPiece

(***************************************************************************)
(* A voice message gets its own reply, whole (handle_voice_message,        *)
(* send_text).                                                             *)
(***************************************************************************)
VoiceAnsweredWhole == SoundsStayApart /\ ReplyReachesChat
=============================================================================
