-------------------------- MODULE HouseholdContext --------------------------
(***************************************************************************)
(* From what the household says and what its profile directory holds to    *)
(* the memory section of a prompt: the scanners that find facts in a text  *)
(* and judge it, the profile loaded again at every start, and the context  *)
(* of a turn under its token budget.                                       *)
(*                                                                         *)
(* A text is a sequence of words; punctuation is a word of its own.  The   *)
(* code searches characters, so a phrase is also found where its first     *)
(* word ends a longer one or its last word begins one, unless the searched *)
(* literal has a space there.  How rows are stored statement by statement, *)
(* and their derived tables, are Memory.tla's.                             *)
(***************************************************************************)
EXTENDS MemoryPolicy, Naturals, Sequences, SequencesExt, FiniteSets, FiniteSetsExt

CONSTANTS
  Stories,        \* what may happen: records of says, asks and files
  PartOf,        \* pairs of words, the first somewhere inside the second,
  EndOf,         \* at its end
  StartOf,       \* or at its start
  Numbers,       \* words that are numbers from 1 to 120
  RowLimit,      \* per kind: get_by_kind's limit
  FoundLimit,    \* memory.search's limit
  LineLimit,     \* entries after which preferences are left out
  TokenBudget,   \* MEMORY_HYDRATION_BUDGET_TOKENS
  Proper,        \* words written with a capital that are no common first word
  RecentLimit,   \* rows the masking vocabulary is taken from
  MaxTold,       \* bound on utterances
  MaxStarts      \* bound on starts

ASSUME PartsOfWords == EndOf \cup StartOf \subseteq PartOf

VARIABLES
  story,     \* the scenario
  files,     \* the profile directory: entries of profile.toml and documents
  loading,   \* entries the start has still to load, or "served"
  remembered,\* the memories table, least recently accessed first
  context,   \* the last prompt's lines, with the read context they were for
  spoken,    \* history: statements of the last utterance
  vocabulary,\* names the privacy proxy was given, each with the row it came from
  count      \* utterances and starts so far

contextVars == <<story, files, loading, remembered, context, spoken, vocabulary, count>>

-----------------------------------------------------------------------------
(* Words in a text *)

(* The words that may stand for one of a phrase, if they may go on to its  *)
(* left or to its right                                                    *)
LongerWords(left, right) ==
  CASE left /\ right -> PartOf [] left /\ ~right -> EndOf [] ~left /\ right -> StartOf [] OTHER -> {}
OccursAt(text, phrase, i, left, right) ==
  /\ i + Len(phrase) - 1 <= Len(text)
  /\ \A k \in DOMAIN phrase :
       \/ text[i + k - 1] = phrase[k]
       \/ <<phrase[k], text[i + k - 1]>> \in LongerWords(left /\ k = 1, right /\ k = Len(phrase))

Occurs(text, phrase) == \E i \in DOMAIN text : OccursAt(text, phrase, i, TRUE, TRUE)
AnyOf(text, phrases) == \E p \in phrases : Occurs(text, p)

(* " phrase" and " phrase ": with a space before it, and after it. *)
OccursLater(text, phrase) == \E i \in DOMAIN text : i > 1 /\ OccursAt(text, phrase, i, FALSE, TRUE)
OccursWithin(text, phrase) ==
  \E i \in DOMAIN text : i > 1 /\ OccursAt(text, phrase, i, FALSE, FALSE) /\ i + Len(phrase) <= Len(text)
AnyWithin(text, phrases) == \E p \in phrases : OccursWithin(text, p)

Pairs(firsts, second) == {<<w, second>> : w \in firsts}
Singles(words) == {<<w>> : w \in words}

-----------------------------------------------------------------------------
(* What a text gives away (restricted_secret_reason and its parts) *)

SecretPhrases ==
  Singles({"password", "pass:", "passcode", "otp"})
  \cup Pairs({"one-time", "2fa", "recovery"}, "code") \cup Pairs({"seed", "recovery"}, "phrase")
  \cup Pairs({"private", "secret", "api"}, "key") \cup {<<"access", "token">>, <<"one", "time", "code">>}
AccessPhrases ==
  Pairs({"gate", "door", "garage", "alarm", "security", "safe"}, "code")
  \cup Pairs({"safe", "lock"}, "combination") \cup {<<"lock", "combo">>}
PaymentPhrases ==
  Singles({"cvv", "ssn"}) \cup Pairs({"account", "confirmation", "routing", "passport", "card"}, "number")
  \cup {<<"credit", "card">>, <<"bank", "account">>, <<"social", "security">>,
        <<"driver", "license", "number">>, <<"government", "id">>}

LocationPhrases ==
  {<<be, w>> : be \in {"is", "are"}, w \in {"in", "inside"}}
  \cup {<<be, w, at>> : be \in {"is", "are"}, w \in {"kept", "stored"}, at \in {"in", "at"}}
  \cup {<<be, "hidden", at>> : be \in {"is", "are"}, at \in {"in", "under"}}
  \cup Singles({"under", "behind"})
SensitiveObjects ==
  Pairs({"house", "spare", "safe"}, "key")
  \cup {<<"passport">>, <<"birth", "certificate">>, <<"social", "security", "card">>, <<"ssn", "card">>,
        <<"government", "id">>, <<"car", "title">>, <<"property", "deed">>}
DescribesSensitiveLocation(text) ==
  \/ AnyOf(text, SensitiveObjects) /\ AnyWithin(text, LocationPhrases)
  \/ AnyOf(text, {<<x, "are", w, "the", "safe">> : x \in {"documents", "valuables"}, w \in {"in", "inside"}}
                 \cup {<<"important", "documents", "are", w>> : w \in {"in", "kept"}})

RestrictedSecretReason(text) ==
  AnyOf(text, SecretPhrases \cup AccessPhrases \cup PaymentPhrases) \/ DescribesSensitiveLocation(text)

HasPrivateIntent(text) ==
  AnyOf(text, {<<"remember", "this", "privately">>, <<"private", "memory">>, <<"private", "note">>,
               <<"for", "me", "only">>, <<"do", "not", "say", "this", "aloud">>,
               <<"don't", "say", "this", "aloud">>})

Conditions == {"diabetes", "cancer", "depression", "anxiety", "hypertension", "epilepsy", "asthma"}
CautiousPhrases ==
  {<<"medical", "diagnosis">>, <<"mental", "health">>, <<"therapy", "session">>, <<"legal", "problem">>,
   <<"personal", "secret">>, <<"diagnosed", "with">>}
  \cup {<<"for", c>> : c \in Conditions}
  \cup Singles({"medication", "prescription", "insulin", "chemotherapy", "dialysis"})

-----------------------------------------------------------------------------
(* The cheap gates before those scans *)

NeedsRestrictedSecretScan(text) ==
  \/ AnyOf(text, Singles({"password", "passcode", "pass:", "one-time", "otp", "2fa", "recovery",
                          "combination", "cvv", "ssn", "passport"})
                 \cup {<<"one", "time">>, <<"seed", "phrase">>, <<"access", "token">>, <<"credit", "card">>,
                       <<"bank", "account">>, <<"social", "security">>, <<"driver", "license">>,
                       <<"government", "id">>, <<"birth", "certificate">>, <<"car", "title">>,
                       <<"property", "deed">>, <<"documents", "are">>, <<"valuables", "are">>,
                       <<"important", "documents">>}
                 \cup Pairs({"private", "secret", "api", "house", "spare", "safe"}, "key")
                 \cup Pairs({"gate", "door", "garage", "alarm", "security", "safe"}, "code")
                 \cup Pairs({"card", "account", "confirmation", "routing"}, "number"))
  \/ OccursLater(text, <<"lock", "combo">>)
  \/ AnyWithin(text, {<<be, w>> : be \in {"is", "are"}, w \in {"in", "inside", "kept", "stored", "hidden"}}
                     \cup Singles({"under", "behind"}))

NeedsPrivateIntentScan(text) ==
  AnyOf(text, Singles({"private", "aloud"}) \cup {<<"for", "me", "only">>, <<"remember", "this">>})

HealthTriggers ==
  Conditions \cup {"medical", "therapy", "legal", "secret", "medication", "prescription", "diagnosed",
                   "insulin", "chemotherapy", "dialysis"}
NeedsCautiousScan(text) == AnyOf(text, Singles(HealthTriggers) \cup {<<"mental", "health">>})

NeedsPolicyContentLower(text) ==
  NeedsRestrictedSecretScan(text) \/ NeedsPrivateIntentScan(text) \/ NeedsCautiousScan(text)

(* What MemoryPolicy judges: the attributes of a memory's kind and text *)
InferMetadataKindOnly(kind) ==
  [private |-> kind = "private", person |-> kind = "person", restricted |-> FALSE, cautious |-> FALSE]

IsCautiousMemory(kind, text) ==
  kind = "private" \/ (NeedsCautiousScan(text) /\ AnyOf(text, CautiousPhrases))

InferMetadataLower(kind, text) ==
  [private    |-> kind = "private" \/ (NeedsPrivateIntentScan(text) /\ HasPrivateIntent(text)),
   person     |-> kind = "person",
   restricted |-> NeedsRestrictedSecretScan(text) /\ RestrictedSecretReason(text),
   cautious   |-> IsCautiousMemory(kind, text)]

InferMetadata(kind, text) ==
  IF NeedsPolicyContentLower(text) THEN InferMetadataLower(kind, text) ELSE InferMetadataKindOnly(kind)

-----------------------------------------------------------------------------
(* Facts in an utterance (extract.rs) *)

Punctuation == {".", ",", "!", "?"}
BoundaryMarkers ==
  {"and", "but", "or", "nor", "so", "yet", "because", "since", "while", "when", "where", "who", "whom",
   "whose", "which", "that", "with", "then", "though", "although", "however", "also", "plus", "too"}

UpTo(text, ends) == SubSeq(text, 1, Min(ends \cup {Len(text) + 1}) - 1)
Sentence(text) == UpTo(text, {i \in DOMAIN text : text[i] \in Punctuation})

(* A marker counts with a word on either side. *)
FirstClause(value) ==
  UpTo(value, {i \in DOMAIN value : i > 1 /\ i < Len(value) /\ value[i] \in BoundaryMarkers})

(* "phrase ": with a space after it *)
OpensIn(text, phrase) == \E i \in DOMAIN text : OccursAt(text, phrase, i, TRUE, FALSE)
(* What follows the first place it is found, nothing where it is not *)
After(text, phrase) ==
  LET places == {i \in DOMAIN text : OccursAt(text, phrase, i, TRUE, FALSE)}
  IN SubSeq(text, Min(places \cup {Len(text)}) + Len(phrase), Len(text))

(* extract_pattern: the value after the first prefix that has one *)
FirstValue(values) == Head(SelectSeq(values, LAMBDA v : Len(v) \in 1..10) \o <<<<>>>>)
ExtractPattern(text, prefixes) ==
  FirstValue([k \in DOMAIN prefixes |-> FirstClause(Sentence(After(text, prefixes[k])))])

Fact(kind, text) == [kind |-> kind, text |-> text]
Capped(value, n) == IF Len(value) > n THEN <<>> ELSE value

NeedsIdentityScan(text) ==
  AnyOf(text, Singles({"called", "i'm"})
              \cup {<<"my", "name">>, <<"call", "me">>, <<"i", "work">>, <<"working", "at">>,
                    <<"work", "as">>, <<"i", "live">>, <<"i", "am">>, <<"based", "in">>})
NeedsPreferenceScan(text) ==
  AnyOf(text, {<<"i", w>> : w \in {"like", "love", "enjoy", "prefer", "hate", "dislike"}}
              \cup {<<"i", "don't", "like">>, <<"i", "can't", "stand">>} \cup Singles({"favorite", "favourite"}))

(* The extractors: what each looks for, in this order, and what it says.   *)
(* "favorite" stands for both spellings.                                   *)
Openings ==
  [name     |-> <<<<"my", "name", "is">>, <<"call", "me">>, <<"i'm", "called">>>>,
   age      |-> <<<<"i'm">>, <<"i", "am">>>>,
   work     |-> <<<<"i", "work", "at">>, <<"i", "work", "for">>, <<"i'm", "working", "at">>,
                  <<"i", "am", "working", "at">>>>,
   job      |-> <<<<"i'm", "a">>, <<"i", "am", "a">>, <<"i", "work", "as", "a">>, <<"i", "work", "as", "an">>>>,
   place    |-> <<<<"i", "live", "in">>, <<"i'm", "from">>, <<"i", "am", "from">>, <<"i'm", "based", "in">>>>,
   likes    |-> <<<<"i", "like">>, <<"i", "love">>, <<"i", "enjoy">>, <<"i", "prefer">>>>,
   dislikes |-> <<<<"i", "hate">>, <<"i", "dislike">>, <<"i", "don't", "like">>, <<"i", "can't", "stand">>>>,
   favorite |-> <<<<"my", "favorite">>>>]
Saying ==
  [name |-> <<"user's", "name", "is">>, age |-> <<"user", "is">>, work |-> <<"user", "works", "at">>,
   job |-> <<"user", "is", "a">>, place |-> <<"user", "lives", "in">>, likes |-> <<"user", "likes">>,
   dislikes |-> <<"user", "dislikes">>, favorite |-> <<"user's", "favorite">>]

(* A number that ends the text or is followed by "years", after the first  *)
(* place a lead occurs                                                     *)
AgeAfter(text, lead) ==
  LET a == After(text, lead)
  IN IF /\ a # <<>> /\ a[1] \in Numbers
        /\ Len(a) = 1 \/ a[2] \in {"years", "year", ",", "."}
     THEN <<a[1], "years", "old">> ELSE <<>>
ExtractAge(text) ==
  FirstValue([k \in DOMAIN Openings.age |-> AgeAfter(text, Openings.age[k])])

(* Around the first " is ", where a text has one *)
BeforeIs(text) == UpTo(text, {i \in 2..(Len(text) - 1) : text[i] = "is"})
ExtractFavorite(text) ==
  LET rest  == After(text, Openings.favorite[1])
      thing == BeforeIs(rest)
      value == FirstClause(Sentence(SubSeq(rest, Len(thing) + 2, Len(rest))))
  IN IF value = <<>> THEN <<>> ELSE thing \o <<"is">> \o value

Extracted(x, text) ==
  LET value == ExtractPattern(text, Openings[x])
  IN CASE x = "age"                   -> ExtractAge(text)
       [] x = "favorite"              -> ExtractFavorite(text)
       [] x = "job"                   -> IF Len(value) > 1 /\ Head(value) \in {"bit", "lot", "fan"} THEN <<>> ELSE value
       [] x \in {"likes", "dislikes"} -> Capped(value, 8)
       [] OTHER                       -> value

(* Those whose gate the text passes *)
Extractors(text) ==
  (IF NeedsIdentityScan(text) THEN <<"name", "age", "work", "job", "place">> ELSE <<>>)
  \o (IF NeedsPreferenceScan(text) THEN <<"likes", "dislikes", "favorite">> ELSE <<>>)
FactIf(x, value) ==
  IF value = <<>> THEN <<>>
  ELSE <<Fact(IF x \in {"likes", "dislikes", "favorite"} THEN "preference" ELSE "identity", Saying[x] \o value)>>

Relations ==
  {"wife", "husband", "partner", "son", "daughter", "mom", "dad", "mother", "father", "brother", "sister",
   "friend", "dog", "cat", "pet", "child", "baby", "boyfriend", "girlfriend"}
PatternsOf(r) == {<<"my", r, "is", "named">>, <<"my", r, "'s", "name", "is">>, <<"my", r, "is", "called">>}
(* One word, for each pattern of each relation that has one *)
ExtractRelationships(text) ==
  UNION {{Fact("relationship", <<"user's", r, "is", "named", Head(After(text, p))>>) :
            p \in {q \in PatternsOf(r) : After(text, q) # <<>> /\ Head(After(text, q)) \notin Punctuation}} : r \in Relations}

ExtractRemember(text) ==
  LET rest == Tail(text) IN IF rest # <<>> /\ Head(rest) = "that" THEN Tail(rest) ELSE rest

ExtractFacts(text) ==
  LET own == FoldLeft(LAMBDA facts, x : facts \o FactIf(x, Extracted(x, text)), <<>>, Extractors(text))
      relationship == IF ~OpensIn(text, <<"my">>) THEN <<>> ELSE SetToSeq(ExtractRelationships(text))
      found == own \o relationship
  IN IF found = <<>> /\ text # <<>> /\ text[1] = "remember"
     THEN (IF ExtractRemember(text) = <<>> THEN <<>> ELSE <<Fact("fact", ExtractRemember(text))>>)
     ELSE found

-----------------------------------------------------------------------------
(* Rows of the memories table *)

Unsourced(text) == UpTo(text, {i \in DOMAIN text : text[i] = "(source:"})

(* memory_slot: the single-valued question an identity or a favorite answers *)
Starts(text, lead) == Len(text) > Len(lead) /\ OccursAt(text, lead, 1, FALSE, FALSE)
MemorySlot(f) ==
  CASE f.kind = "identity" /\ Starts(f.text, <<"user's", "name", "is">>) -> "name"
    [] f.kind = "identity" /\ Starts(f.text, <<"user", "is">>) /\ OccursLater(f.text, <<"years", "old">>) -> "age"
    [] f.kind = "identity" /\ Starts(f.text, <<"user", "lives", "in">>) -> "location"
    [] f.kind = "identity" /\ Starts(f.text, <<"user", "works", "at">>) -> "workplace"
    [] f.kind = "identity" /\ Starts(f.text, <<"user", "is", "a">>)
                          /\ ~OccursLater(f.text, <<"years", "old">>) -> "occupation"
    [] f.kind = "preference" /\ Starts(f.text, <<"user's", "favorite">>) /\ OccursWithin(f.text, <<"is">>) ->
         ToString(BeforeIs(f.text))
    [] OTHER -> NoSlot

(* Common words, and what has no token of two characters *)
Skipped ==
  {"user", "users", "user's", "the", "is", "are", "was", "has", "have", "and", "for", "that", "this",
   "with", "from", "not", "a", "an", "about", "can", "did", "do", "does", "how", "i", "it", "me", "my", "of",
   "on", "or", "please", "remember", "to", "what", "whats", "when", "where", "who", "you", "your",
   "'s", "i'm"} \cup Punctuation

(* has_similar: some row holds the first four telling words. *)
TellingWords(text) ==
  LET words == SelectSeq(Unsourced(text), LAMBDA w : w \notin Skipped) IN SubSeq(words, 1, Min({4, Len(words)}))
HasSimilarRow(table, text) ==
  /\ TellingWords(text) # <<>>
  /\ \E i \in DOMAIN table : \A w \in ToSet(TellingWords(text)) :
       \E v \in ToSet(table[i].text) : w = v \/ <<w, v>> \in PartOf
HasExact(table, text) == \E i \in DOMAIN table : table[i].text = Unsourced(text)

Row(f) == [kind |-> f.kind, text |-> f.text, meta |-> InferMetadata(f.kind, f.text)]
MayWrite(f) == WriteAllowed(InferMetadata(f.kind, f.text))

(* extract_and_store and store_resolved *)
StoreResolved(table, f) ==
  LET slot == MemorySlot(f)
      known == IF slot = NoSlot THEN HasSimilarRow(table, f.text) ELSE HasExact(table, f.text)
      kept == SelectSeq(table, LAMBDA r : slot = NoSlot \/ MemorySlot(r) # slot)
  IN IF known \/ ~MayWrite(f) THEN table ELSE Append(kept, Row(f))

(* The profile's facts: no slot is resolved, what looks known is left out. *)
StoreEvergreen(table, f) ==
  IF HasSimilarRow(table, f.text) \/ ~MayWrite(f) THEN table ELSE Append(table, Row(f))

-----------------------------------------------------------------------------
(* The profile directory *)

(* load_toml_profile: one fact per key of a section, by its wording *)
TomlFacts(e) ==
  CASE e.section = "identity"    -> <<Fact("identity", <<"user's", e.key, "is">> \o e.value)>>
    [] e.section = "preferences" -> <<Fact("preference", <<"user", "prefers", e.key>> \o e.value)>>
    [] e.section = "family"      -> <<Fact("relationship", <<"user's", e.key, "is">> \o e.value)>>
    [] e.section = "routines"    -> <<Fact("context", <<e.key, "routine:">> \o e.value)>>
    [] e.section = "work"        -> <<Fact("identity", <<"user's", "work", e.key>> \o e.value)>>
    [] e.section = "about"       -> ExtractFacts(e.value)

(* extract_key_value_facts: "Key: Value" lines of a document *)
KeyLead ==
  [name |-> <<"user's", "name", "is">>, email |-> <<"user's", "email", "is">>,
   phone |-> <<"user's", "phone", "is">>, location |-> <<"user", "lives", "in">>,
   occupation |-> <<"user", "works", "as">>, company |-> <<"user", "works", "at">>,
   education |-> <<"user's", "education:">>, skills |-> <<"user's", "skills:">>,
   interests |-> <<"user's", "interests:">>, bio |-> <<"user", "bio:">>]
KeyValueFacts(e) ==
  IF e.key \notin DOMAIN KeyLead \/ e.value = <<>> THEN <<>>
  ELSE <<Fact(IF e.key = "interests" THEN "preference" ELSE "identity", KeyLead[e.key] \o e.value)>>

(* ingest_text: what a line says, and its key and value, with their source *)
Sourced(e, facts) ==
  [k \in DOMAIN facts |-> [facts[k] EXCEPT !.text = @ \o <<"(source:", e.section>>]]
LineFacts(e) ==
  LET line == IF e.key = "none" THEN e.value ELSE <<e.key>> \o e.value
  IN Sourced(e, ExtractFacts(line) \o KeyValueFacts(e))

Sections == <<"identity", "preferences", "family", "routines", "work", "about">>
FromToml(e) == e.section \in ToSet(Sections)
FactsOf(e) == IF FromToml(e) THEN TomlFacts(e) ELSE LineFacts(e)

(* profile.toml first, section by section, then the documents. *)
Place(e) == IF FromToml(e) THEN CHOOSE k \in DOMAIN Sections : Sections[k] = e.section ELSE Len(Sections) + 1
NextEntries == {e \in loading : \A other \in loading : Place(e) <= Place(other)}

Serving == loading = {} /\ count.starts > 0

ContextInit ==
  /\ story \in Stories /\ files \in story.files
  /\ loading = {} /\ remembered = <<>> /\ context = [lines |-> <<>>, known |-> FALSE, bytes |-> 0]
  /\ spoken = <<>> /\ vocabulary = {} /\ count = [told |-> 0, starts |-> 0]

(* extract_pdf_text: a document whose text cannot be extracted in time is  *)
(* left out.                                                               *)
Readings(now) == {read \in SUBSET now : {e \in now : FromToml(e)} \subseteq read}

(* genie-core starts, also in the middle of a start, with whatever the     *)
(* directory then holds.                                                   *)
LoadProfile ==
  /\ count.starts < MaxStarts
  /\ \E now \in story.files : \E read \in Readings(now) : files' = now /\ loading' = read
  /\ count' = [count EXCEPT !.starts = @ + 1]
  /\ UNCHANGED <<story, remembered, context, spoken, vocabulary>>

LoadEntry ==
  \E e \in NextEntries : \E facts \in {FactsOf(e)} :
    /\ loading' = loading \ {e}
    /\ remembered' = FoldSeq(LAMBDA f, table : StoreEvergreen(table, f), remembered, facts)
    /\ UNCHANGED <<story, files, context, spoken, vocabulary, count>>

(* What someone says, as statements joined by "and" *)
Utterance(parts) == IF Len(parts) = 1 THEN parts[1] ELSE parts[1] \o <<"and">> \o parts[2]

Tell ==
  /\ Serving /\ count.told < MaxTold
  /\ \E parts \in story.says : \E facts \in {ExtractFacts(Utterance(parts))} :
       /\ spoken' = parts
       /\ remembered' = FoldSeq(LAMBDA f, table : StoreResolved(table, f), remembered, facts)
  /\ count' = [count EXCEPT !.told = @ + 1]
  /\ UNCHANGED <<story, files, loading, context, vocabulary>>

(* memory_store: what the text says, or the text itself under its category *)
NormalizeMemoriesToStore(f) ==
  LET facts == ExtractFacts(f.text) IN IF facts = <<>> THEN <<f>> ELSE facts

(* A person's memory needs a verified speaker: without one the call ends   *)
(* there, with what it stored before.                                      *)
StoreEach(verified, stored, f) ==
  IF stored.failed \/ (MayWrite(f) /\ Scope(InferMetadata(f.kind, f.text)) = "person" /\ ~verified)
  THEN [stored EXCEPT !.failed = TRUE]
  ELSE [stored EXCEPT !.table = StoreResolved(@, f)]

StoreTool ==
  /\ Serving /\ count.told < MaxTold
  /\ \E f \in story.stores, verified \in BOOLEAN : \E facts \in {NormalizeMemoriesToStore(f)} :
       remembered' = FoldLeft(LAMBDA stored, g : StoreEach(verified, stored, g),
                              [table |-> remembered, failed |-> FALSE], facts).table
  /\ count' = [count EXCEPT !.told = @ + 1]
  /\ UNCHANGED <<story, files, loading, context, spoken, vocabulary>>

-----------------------------------------------------------------------------
(* build_memory_context *)

TextMentionsNamedPerson(text) ==
  \/ \E p \in {<<"what", "does">>, <<"what", "did">>, <<"tell", "me", "about">>, <<"who", "is">>, <<"does">>,
               <<"is">>, <<"ask">>, <<"call">>, <<"text">>, <<"message">>, <<"remind">>} : Starts(text, p)
  \/ \E r \in {"wife", "husband", "son", "daughter", "mom", "mother", "dad", "father", "friend", "partner"} :
       OccursLater(text, <<"my", r>>)

(* A speaker nobody resolved is read to as a shared room, whatever the text. *)
Known(text, confidence) ==
  confidence # "unknown" /\ (TextMentionsNamedPerson(text) \/ confidence \in {"medium", "high"})

Newest(kind) ==
  LET mine == SelectSeq(remembered, LAMBDA r : r.kind = kind)
  IN SubSeq(Reverse(mine), 1, Min({RowLimit[kind], Len(mine)}))

Matching(text) == {i \in DOMAIN remembered : ToSet(TellingWords(remembered[i].text)) \cap ToSet(text) # {}}
(* memory.search: some ranking of what matches *)
Rankings(text) ==
  LET size == Min({FoundLimit, Cardinality(Matching(text))})
  IN {[k \in 1..size |-> remembered[f[k]]] : f \in {g \in [1..size -> Matching(text)] : IsInjective(g)}}

Candidates(found, known) ==
  LET always == Newest("identity") \o Newest("relationship")
      seen == always \o SelectSeq(found, LAMBDA r : r \notin ToSet(always))
      shown == SelectSeq(seen, LAMBDA r : ReadAllowed(r.meta, known))
      prefs == SelectSeq(Newest("preference"),
                         LAMBDA r : r \notin ToSet(seen) /\ ReadAllowed(r.meta, known))
  IN IF Len(shown) >= LineLimit THEN shown
     ELSE shown \o SubSeq(prefs, 1, Min({LineLimit - Len(shown), Len(prefs)}))

(* Bytes of a line "- [kind] text", a byte per word, and the token estimate *)
EntryBytes(r) == 2 + Len(r.text)
Tokens(bytes) == (bytes + 3) \div 4
JoinedBytes(sizes) == FoldSeq(LAMBDA n, sum : sum + 2 + n, 0, sizes) + (IF sizes = <<>> THEN 0 ELSE Len(sizes) - 1)

FitEntries(sizes) ==
  Max({n \in 0..Len(sizes) : \A m \in 1..n : Tokens(JoinedBytes(SubSeq(sizes, 1, m))) <= TokenBudget})

(* truncate_entry_to_budget: a binary search for the longest prefix that     *)
(* fits with its three-byte ellipsis                                         *)
FitsCut(size, mid) == Tokens(2 + mid + (IF mid >= size THEN 0 ELSE 3)) <= TokenBudget
TruncateEntry(size) ==
  LET narrow[r \in (0..size) \X (0..size)] ==
        IF r[1] >= r[2] THEN r[1]
        ELSE LET mid == (r[1] + r[2] + 1) \div 2
             IN IF FitsCut(size, mid) THEN narrow[<<mid, r[2]>>] ELSE narrow[<<r[1], mid - 1>>]
  IN narrow[<<0, size>>]

ApplyHydrationBudget(lines) ==
  LET sizes == [k \in DOMAIN lines |-> EntryBytes(lines[k])]
      kept == FitEntries(sizes)
      cut == IF lines = <<>> THEN 0 ELSE TruncateEntry(sizes[1])
  IN IF kept > 0 \/ cut = 0
     THEN [lines |-> SubSeq(lines, 1, kept), bytes |-> JoinedBytes(SubSeq(sizes, 1, kept))]
     ELSE [lines |-> SubSeq(lines, 1, 1), bytes |-> 2 + cut + (IF cut >= sizes[1] THEN 0 ELSE 3)]

(* search marks what it found as accessed. *)
Touched(found) == SelectSeq(remembered, LAMBDA r : r \notin ToSet(found)) \o Reverse(found)

BuildMemoryContext ==
  /\ Serving
  /\ \E ask \in story.asks : \E found \in Rankings(ask.text) :
       LET known == Known(ask.text, ask.confidence)
           built == ApplyHydrationBudget(Candidates(found, known))
       IN /\ context' = [lines |-> built.lines, known |-> known, bytes |-> built.bytes]
          /\ remembered' = Touched(found)
  /\ UNCHANGED <<story, files, loading, spoken, vocabulary, count>>

-----------------------------------------------------------------------------
(* The masking vocabulary of the privacy proxy, seeded before a turn is    *)
(* escalated                                                               *)

MaximalRun(text, i, j) ==
  /\ \A k \in i..j : text[k] \in Proper
  /\ i > 1 => text[i - 1] \notin Proper
  /\ j < Len(text) => text[j + 1] \notin Proper

(* Runs of proper words, and the first word of each *)
ExtractVocabTerms(text) ==
  LET runs == {r \in (DOMAIN text) \X (DOMAIN text) : r[1] <= r[2] /\ MaximalRun(text, r[1], r[2])}
  IN {SubSeq(text, r[1], r[2]) : r \in runs} \cup {<<text[r[1]]>> : r \in runs}

EscalationPolicy(meta) ==
  IF Scope(meta) = "private" \/ Sensitivity(meta) \in {"restricted", "cautious"}
  THEN "local_only" ELSE "anonymized"

EligibleForEscalation(r) ==
  r.kind # "identity" /\ EscalationPolicy(InferMetadata(r.kind, r.text)) = "anonymized"

VocabularyTerms ==
  LET recent == SubSeq(Reverse(remembered), 1, Min({RecentLimit, Len(remembered)}))
  IN UNION {{[term |-> t, from |-> r] : t \in ExtractVocabTerms(r.text)} :
              r \in {x \in ToSet(recent) : EligibleForEscalation(x)}}

(* The proxy keeps what it was given; a failed post may or may not have    *)
(* reached it, and the turn is escalated all the same.                     *)
SeedVocab ==
  /\ Serving /\ VocabularyTerms # {}
  /\ \E sent \in {{}, VocabularyTerms} : vocabulary' = vocabulary \cup sent
  /\ UNCHANGED <<story, files, loading, remembered, context, spoken, count>>

ContextNext == LoadProfile \/ LoadEntry \/ Tell \/ StoreTool \/ BuildMemoryContext \/ SeedVocab

-----------------------------------------------------------------------------
(* What a memory is, by the scans themselves *)
Judged(kind, text) ==
  [private    |-> kind = "private" \/ HasPrivateIntent(text), person |-> kind = "person",
   restricted |-> RestrictedSecretReason(text),
   cautious   |-> kind = "private" \/ AnyOf(text, CautiousPhrases)]

(***************************************************************************)
(* The cheap gates of the scanners hide nothing: whatever is stored, from  *)
(* the profile, by the tool or from an utterance, carries the policy the   *)
(* full scans give it, and what they refuse is not stored.  The one hole   *)
(* is "lock combo" with no space before it, at the start of a text or in   *)
(* "padlock combo": the scan looks for the words, its gate for a space and *)
(* the words.                                                              *)
(***************************************************************************)
GatesHideNothing ==
  \A i \in DOMAIN remembered :
    \/ /\ Occurs(remembered[i].text, <<"lock", "combo">>)
       /\ ~OccursLater(remembered[i].text, <<"lock", "combo">>)
    \/ /\ Scope(remembered[i].meta) = Scope(Judged(remembered[i].kind, remembered[i].text))
       /\ Sensitivity(remembered[i].meta) = Sensitivity(Judged(remembered[i].kind, remembered[i].text))
       /\ WriteAllowed(Judged(remembered[i].kind, remembered[i].text))

(***************************************************************************)
(* A name the privacy proxy was ever given comes from a memory that is     *)
(* neither about the speaker's identity nor, by the full scans, private,   *)
(* cautious or restricted, whatever was corrected or stored since.         *)
(***************************************************************************)
LocalStaysLocal ==
  \A v \in vocabulary :
    /\ v.from.kind # "identity"
    /\ Scope(Judged(v.from.kind, v.from.text)) # "private"
    /\ Sensitivity(Judged(v.from.kind, v.from.text)) = "normal"

(***************************************************************************)
(* A prompt's memory section holds each memory once, only those the policy *)
(* lets this reader hear, whatever path they came by, and stays within the *)
(* token budget.                                                           *)
(***************************************************************************)
ContextReadable ==
  /\ IsInjective(context.lines) /\ Tokens(context.bytes) <= TokenBudget
  /\ \A i \in DOMAIN context.lines : ReadAllowed(context.lines[i].meta, context.known)

(***************************************************************************)
(* However often the profile is loaded, in whatever state of its files and *)
(* of a start that died half-way, a memory is never there twice.           *)
(***************************************************************************)
StoredOnce ==
  \A i, j \in DOMAIN remembered :
    remembered[i].kind = remembered[j].kind /\ remembered[i].text = remembered[j].text => i = j

(* Each extractor looks once, from its first opening on: what one statement *)
(* says is lost when the other has an opening listed earlier, or the same  *)
(* one said before; an age without "years" must end the text; and          *)
(* "remember" counts only where nothing else is found.                     *)
Overruled(f, k, other) ==
  \/ f.kind = "fact"
  \/ /\ f.text = Saying.age \o Extracted("age", spoken[k])
     /\ k = 1 /\ Last(spoken[k]) \in Numbers
  \/ \E x \in DOMAIN Openings : \E p, q \in DOMAIN Openings[x] :
       /\ f.text = Saying[x] \o Extracted(x, spoken[k])
       /\ OpensIn(spoken[k], Openings[x][q]) /\ OpensIn(spoken[other], Openings[x][p])
       /\ p < q \/ (p = q /\ other < k)
  \/ /\ f.kind = "relationship" /\ other < k
     /\ \E r \in Relations : \E p \in PatternsOf(r) : OpensIn(spoken[k], p) /\ OpensIn(spoken[other], p)

(***************************************************************************)
(* Statements joined by "and" are captured as if said one by one: no value *)
(* swallows the clause after it or is put together from two, and no gate   *)
(* or prefix of one hides the other, but where an extractor, which looks   *)
(* once, was ahead of it (Overruled).                                      *)
(***************************************************************************)
ClausesKept ==
  LET said(k) == ToSet(ExtractFacts(spoken[k]))
      captured == ToSet(ExtractFacts(Utterance(spoken)))
  IN Len(spoken) = 2 =>
       /\ \A f \in captured : f.kind = "fact" \/ f \in said(1) \cup said(2)
       /\ \A k \in 1..2 : \A f \in said(k) : f \in captured \/ Overruled(f, k, 3 - k)

=============================================================================
