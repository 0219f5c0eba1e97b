---------------------------- MODULE MCHousehold -----------------------------
(***************************************************************************)
(* What a turn of the household reaches through its tools: typed recall,   *)
(* the household facts, web search, skills, and the targets of the home;   *)
(* the durable export of what it remembers, and the memory section of its  *)
(* prompts.  The seven share no state, so a behaviour is one of them: part *)
(* says which, and the others rest in one of their initial states.         *)
(***************************************************************************)
EXTENDS WebSearch, Skills, SemanticRecall, HouseholdFacts, HomeTargets,
        MemoryExport, HouseholdContext

VARIABLE part
parts == <<part, searchVars, skillVars, recallVars, factVars, homeVars, exportVars, contextVars>>

-----------------------------------------------------------------------------
(* Skills: two files that give the same name, one of them signed, one that *)
(* asks for too much and one that does not load.                           *)
MCSkillName == [timer |-> "timer", timer2 |-> "timer", greedy |-> "greedy", broken |-> "broken"]

-----------------------------------------------------------------------------
(* Facts: of every table and type, three statements that agree or differ   *)
(* in person, day and value; the shopping list; a question about everyone; *)
(* a question with and without a person.                                   *)
Say(table, type, person, subject, day, value) ==
  [table |-> table, type |-> type, person |-> person, subject |-> subject, day |-> day,
   value |-> value, status |-> "none", items |-> <<>>]
Shop(status, items) == [Say("shopping", "list", "none", "none", "none", "none")
                          EXCEPT !.status = status, !.items = items]
AskFor(s) == [s EXCEPT !.value = "none"]

SubjectOf ==
  [feeding |-> {"dog", "cat"}, channel_guide |-> {"sports"},
   school_bus_arrival |-> {"school bus", "leo"}, bill_due |-> {"water"}, paid_bill |-> {"water"},
   school_conference |-> {"leo"}, stock_price |-> {"acme"},
   community_facility_hours |-> {"pool", "community pool"},
   business_hours |-> {"library", "public library"}, subscription_renewal |-> {"films"},
   home_arrival |-> {"leo"}, presence_home |-> {"leo"}, allowance |-> {"leo"},
   screen_time |-> {"tablet"}, allergy |-> {"nuts"}, homework |-> {"homework"},
   unlock |-> {"front door"}, playlist |-> {"party"}, wifi_password |-> {"guest"},
   lock_code |-> {"front door"}, kind |-> {"batteries"}, remember_that |-> {"batteries"},
   remember_to |-> {"batteries"}, note |-> {"batteries"}, manual |-> {"batteries"},
   watched |-> {"batteries"}]
Subjects(type) == IF type \in DOMAIN SubjectOf THEN SubjectOf[type] ELSE {"none"}

OneTable(table, type) ==
  LET said == UNION {{Say(table, type, "Leo", x, "none", "four"),
                      Say(table, type, "Leo", x, "none", "five"),
                      Say(table, type, "Mia", x, "today", "four")} : x \in Subjects(type)}
  IN [said |-> said, asked |-> {{AskFor(s)} : s \in said}]

ANote    == Say("note", "note", "none", "eggs", "none", "one")
Shopping ==
  [said  |-> {Shop("pending", <<"milk">>), Shop("pending", <<"milk", "eggs">>),
              Shop("removed", <<"milk">>), ANote},
   asked |-> {{AskFor(Shop("pending", <<>>))}, {AskFor(Shop("pending", <<>>)), AskFor(ANote)}}]
Everyone ==
  [said  |-> {Say("task", "brush_teeth", p, "none", "none", "done") : p \in {"Leo", "Mia"}},
   asked |-> {{Say("task", "brush_teeth", "everyone", "none", "none", "none")}}]
OpenPerson ==
  [said  |-> {Say("calendar", "school_pickup", p, "none", "today", "three") : p \in {"none", "Leo"}},
   asked |-> {{Say("calendar", "school_pickup", p, "none", "today", "none")}
                : p \in {"none", "Leo", "Mia"}}]

MCTopics ==
  {Shopping, Everyone, OpenPerson}
  \cup UNION {{OneTable(t, y) : y \in DOMAIN Told[t]} : t \in DOMAIN Told \ {"shopping"}}

-----------------------------------------------------------------------------
(* Homes: one light and a room without any; two lamps of one room; lamps   *)
(* of two rooms with a scene and scripts.  Every query with every hint in  *)
(* every home, and two queries while the home is edited.                   *)
Dev(id, domain, name, safe, state) ==
  [id |-> id, domain |-> domain, name |-> name, safe |-> safe, state |-> state]
KitchenLight == Dev("light.k", "light", <<"kitchen", "ceiling">>, FALSE, "on")
ReadingLamp  == Dev("light.r", "light", <<"reading", "lamp">>, FALSE, "off")
FloorLamp    == Dev("light.f", "light", <<"floor", "lamp">>, FALSE, "on")
HallFan      == Dev("fan.h", "fan", <<"hall", "fan">>, FALSE, "off")
MovieScene   == Dev("scene.m", "scene", <<"movie", "night">>, FALSE, "off")
VoiceScript  == Dev("script.v", "script", <<"voice", "movie">>, TRUE, "off")
QuietScript  == Dev("script.q", "script", <<"movie">>, FALSE, "off")
Sun          == Dev("sun.sun", "sun", <<"sun">>, FALSE, "on")

Living(m)  == [name |-> <<"living", "room">>, members |-> m]
Kitchen(m) == [name |-> <<"kitchen">>, members |-> m]
Bedroom(m) == [name |-> <<"bedroom">>, members |-> m]

OneLight == [entities |-> <<KitchenLight, HallFan, Sun>>,
             areas    |-> <<Kitchen({"light.k"}), Living({})>>]
TwoLamps == [entities |-> <<KitchenLight, ReadingLamp, FloorLamp>>,
             areas    |-> <<Kitchen({"light.k"}), Living({"light.r", "light.f"}), Bedroom({})>>]
Scenes   == [entities |-> <<ReadingLamp, FloorLamp, MovieScene, QuietScript, VoiceScript>>,
             areas    |-> <<Living({"light.f"}), Bedroom({"light.r", "scene.m"})>>]

Asks(words, id, hint) == [query |-> [words |-> words, id |-> id], hint |-> hint]
Phrases == {<<>>, <<"lights">>, <<"living", "room", "lights">>, <<"reading", "lamp">>, <<"lamp">>,
            <<"upstairs", "lights">>, <<"kitchen">>, <<"bedroom", "reading", "lamp">>, <<"movie">>,
            <<"all", "the", "fans">>, <<"kitchen", "coffee">>, <<"room", "light">>}
Hints   == {"none", "turn_on", "activate"}
Single  == {Asks(p, "none", h) : p \in Phrases, h \in Hints}
           \cup {Asks(<<"light", "k">>, "light.k", h) : h \in Hints}
           \cup {Asks(<<"scene", "m">>, "scene.m", h) : h \in Hints}

MCHouseholds ==
  {[homes |-> {TwoLamps, Scenes}, until |-> 3,
    menu  |-> {Asks(<<"bedroom", "reading", "lamp">>, "none", "turn_on"),
               Asks(<<"living", "room", "lights">>, "none", "none")}]}
  \cup {[homes |-> {h}, menu |-> {ask}, until |-> 0] :
          h \in {OneLight, TwoLamps, Scenes}, ask \in Single}

-----------------------------------------------------------------------------
(* The export: something anyone may hear and something nobody should. *)
MCFolder == [note |-> "facts", diet |-> "private"]

-----------------------------------------------------------------------------
(* The prompt's memory section: a profile that is edited between starts    *)
(* while the household corrects it; memories of every kind and policy;     *)
(* every phrase of the scanners, alone and with words around it; every     *)
(* pair of things people say about themselves.                             *)
InFile(section, key, value) == [section |-> section, key |-> key, value |-> value]
Story(fs, us, kept, qs) == [files |-> fs, says |-> us, stores |-> kept, asks |-> qs]
AskBy(text, confidence) == [text |-> text, confidence |-> confidence]

NameIs(who) == InFile("identity", "name", <<who>>)
Profile(who) == {NameIs(who), InFile("routines", "morning", <<"coffee", "news">>),
                 InFile("resume", "name", <<"dana">>),
                 InFile("resume", "none", <<"my", "dog", "is", "called", "rex">>)}
OtherFile == {InFile("preferences", "music", <<"jazz">>), InFile("family", "wife", <<"ann">>),
              InFile("work", "role", <<"nurse">>), InFile("about", "none", <<"i", "live", "in", "york">>),
              InFile("resume", "interests", <<"chess">>), InFile("resume", "hobby", <<"golf">>)}
ProfileStory ==
  {Story({Profile("dana"), Profile("dan")}, {<<<<"my", "name", "is", "ann">>>>}, {}, {}),
   Story({OtherFile}, {}, {}, {AskBy(<<"what", "does", "ann", "like">>, "unknown")})}

MixedStory ==
  {Story({{}}, {}, {Fact("identity", <<"user's", "name", "is", "dana">>), Fact("person", <<"dana", "likes", "tea">>),
                    Fact("identity", <<"user", "takes", "insulin">>),
                    Fact("relationship", <<"user's", "wife", "is", "ann", "york">>),
                    Fact("preference", <<"user", "prefers", "music", "jazz", "and", "soul", "and", "funk", "and", "rock">>)},
         {AskBy(<<"who", "is", "dana">>, c) : c \in {"unknown", "low", "high"}}
         \cup {AskBy(<<"tea", "please">>, "low")})}

Scanned == SecretPhrases \cup AccessPhrases \cup PaymentPhrases \cup CautiousPhrases
           \cup {<<"important", "documents", "are", "kept">>, <<"valuables", "are", "inside", "the", "safe">>,
                 <<"for", "me", "only">>, <<"private", "note">>, <<"don't", "say", "this", "aloud">>,
                 <<"padlock", "combo">>, <<"padlock", "combos">>, <<"hotplate">>, <<"illegal", "problems">>}
Around(p) == {p, <<"our">> \o p, p \o <<"here">>, <<"our">> \o p \o <<"here">>}
Located == {o \o l \o <<"here">> : o \in SensitiveObjects, l \in LocationPhrases}
ScanStory == {Story({{}}, {}, {Fact(k, t)}, {}) :
                k \in {"fact", "person"}, t \in UNION {Around(p) : p \in Scanned} \cup Located}

Said == {<<"my", "name", "is", "dana">>, <<"call", "me", "dan">>, <<"i", "work", "at", "acme">>,
         <<"i'm", "a", "nurse">>, <<"i'm", "a", "fan", "of", "golf">>, <<"i'm", "from", "york">>,
         <<"i'm", "40", "years", "old">>, <<"i", "am", "40">>, <<"i", "love", "jazz">>, <<"i", "like", "tea">>,
         <<"i", "can't", "stand", "golf">>, <<"my", "favorite", "color", "is", "blue">>,
         <<"my", "favorite", "food", "is", "soup">>, <<"my", "dog", "'s", "name", "is", "rex">>,
         <<"my", "dog", "'s", "name", "is", "spot">>, <<"my", "cat", "is", "called", "tom">>,
         <<"remember", "that", "bins", "go", "out">>}
SaidStory == {Story({{}}, {<<s, t>>}, {}, {}) : <<s, t>> \in {p \in Said \X Said : p[1] # p[2]}}
             \cup {Story({{}}, {<<t>>}, {}, {}) : t \in Said}

MCStories == ProfileStory \cup MixedStory \cup ScanStory \cup SaidStory
MCRowLimit == [identity |-> 2, relationship |-> 1, preference |-> 1]
MCEndOf == {<<"lock", "padlock">>, <<"legal", "illegal">>, <<"therapy", "chemotherapy">>, <<"likes", "dislikes">>}
MCStartOf == {<<"dan", "dana">>, <<"combo", "combos">>, <<"problem", "problems">>, <<"in", "inside">>,
              <<"private", "privately">>, <<"person", "personal">>, <<"go", "golf">>, <<"like", "likes">>,
              <<"live", "lives">>, <<"work", "works">>, <<"prefer", "prefers">>, <<"year", "years">>}
MCPartOf == MCEndOf \cup MCStartOf \cup {<<"otp", "hotplate">>}

-----------------------------------------------------------------------------
Pinned(p, f) == part # p => f

Init ==
  /\ part \in {"search", "skills", "recall", "facts", "targets", "export", "context"}
  /\ SearchInit /\ SkillsInit
  /\ Pinned("recall", theme = CHOOSE t \in Themes : TRUE) /\ RecallInit
  /\ Pinned("facts", topic = Shopping) /\ FactsInit
  /\ Pinned("targets", house = CHOOSE h \in Households : TRUE)
  /\ Pinned("targets", home = CHOOSE h \in house.homes : TRUE) /\ TargetsInit
  /\ Pinned("export", memos = [i \in MemoIds |-> NoMemo]) /\ ExportInit
  /\ Pinned("context", story = CHOOSE x \in MixedStory : TRUE) /\ ContextInit

Next ==
  \/ /\ part = "search" /\ SearchNext
     /\ UNCHANGED <<part, skillVars, recallVars, factVars, homeVars, exportVars, contextVars>>
  \/ /\ part = "skills" /\ SkillsNext
     /\ UNCHANGED <<part, searchVars, recallVars, factVars, homeVars, exportVars, contextVars>>
  \/ /\ part = "recall" /\ RecallNext
     /\ UNCHANGED <<part, searchVars, skillVars, factVars, homeVars, exportVars, contextVars>>
  \/ /\ part = "facts" /\ FactsNext
     /\ UNCHANGED <<part, searchVars, skillVars, recallVars, homeVars, exportVars, contextVars>>
  \/ /\ part = "targets" /\ TargetsNext
     /\ UNCHANGED <<part, searchVars, skillVars, recallVars, factVars, exportVars, contextVars>>
  \/ /\ part = "export" /\ ExportNext
     /\ UNCHANGED <<part, searchVars, skillVars, recallVars, factVars, homeVars, contextVars>>
  \/ /\ part = "context" /\ ContextNext
     /\ UNCHANGED <<part, searchVars, skillVars, recallVars, factVars, homeVars, exportVars>>

Spec == Init /\ [][Next]_parts
=============================================================================
