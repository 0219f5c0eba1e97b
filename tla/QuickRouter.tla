----------------------------- MODULE QuickRouter -----------------------------
(***************************************************************************)
(* The deterministic router (tools/quick.rs, tools/home_action.rs): a      *)
(* sentence is tried against the extractors in a fixed order and the first *)
(* one that yields a call wins.  The keyword tests are abstracted to which *)
(* rule of which extractor a sentence satisfies first; the tables hold what *)
(* each rule answers, in source order, because whether a rule's answer can *)
(* be executed decides if the sentence falls through to a later extractor. *)
(*                                                                         *)
(* A sentence u:                                                           *)
(*   hit, rule       an extractor it satisfies and the first rule there    *)
(*   also, alsoRule  a second extractor it satisfies, or "none"            *)
(*   polite          "please" at its start ("lead"), end ("trail") or not  *)
(*   delayed         it ends in "in <duration>"                            *)
(*   many            it names several devices or excludes one              *)
(*   object          what the wording is applied to: named, a bare class,  *)
(*                   a pronoun, or empty                                   *)
(*   device          the device class its object names                    *)
(***************************************************************************)
EXTENDS Naturals, Sequences, SequencesExt, FiniteSets, FiniteSetsExt, Folds, TLC

-----------------------------------------------------------------------------
(* How a spoken duration becomes seconds (quick.rs, number_words.rs).  An  *)
(* utterance is a sequence of words; only the words that matter to a       *)
(* duration are told apart.  The reference is the other direction: a       *)
(* phrase is a list of spans that says what it means, and SayPhrase puts   *)
(* it into words.                                                          *)

\* Words that are a plain number, and the two that multiply.
CardinalValue == ("one" :> 1) @@ ("a" :> 1) @@ ("an" :> 1) @@ ("two" :> 2) @@ ("five" :> 5)
                   @@ ("twenty" :> 20)
CardinalWord == DOMAIN CardinalValue \cup {"hundred"}
Digits == ("3" :> 3) @@ ("15" :> 15)

UnitSeconds == ("second" :> 1) @@ ("minute" :> 60) @@ ("hour" :> 3600)
Divisor == ("half" :> 2) @@ ("quarter" :> 4)

At(ts, i) == IF i \in 1..Len(ts) THEN ts[i] ELSE "end"
Unheard == [ok |-> FALSE, value |-> 0, last |-> 0]
Heard(v, i) == [ok |-> TRUE, value |-> v, last |-> i]

\* Every word of the number that starts at s, an "and" before a further
\* cardinal word included.
NumberEnd(ts, s) ==
    Min({ i \in s..(Len(ts) + 1) :
            ~(\/ At(ts, i) \in CardinalWord
              \/ i > s /\ At(ts, i) = "and" /\ At(ts, i + 1) \in CardinalWord) })

AddWord(group, w) ==
    CASE w = "and"     -> group
      [] w = "hundred" -> 100 * Max({1, group})
      [] OTHER         -> group + CardinalValue[w]

\* .last is the index after the number.
NumberUpTo(ts, s, e) == IF e = s THEN Unheard ELSE Heard(FoldLeft(AddWord, 0, SubSeq(ts, s, e - 1)), e)
ParseSpokenNumber(ts, s) ==
    IF At(ts, s) \in DOMAIN Digits THEN Heard(Digits[ts[s]], s + 1)
    ELSE NumberUpTo(ts, s, NumberEnd(ts, s))

\* A number n followed by a unit; .last is the index of the unit.
SpanOfNumber(ts, n) ==
    IF n.ok /\ At(ts, n.last) \in DOMAIN UnitSeconds
    THEN Heard(n.value * UnitSeconds[ts[n.last]], n.last) ELSE Unheard
Span(ts, s) == SpanOfNumber(ts, ParseSpokenNumber(ts, s))

Skip(ts, i, w) == IF At(ts, i) \in w THEN i + 1 ELSE i

\* The further spans right after the unit at u, one "and" allowed before each.
TrailingSpans(ts, u) ==
    LET span == [i \in 1..Len(ts) |-> Span(ts, Skip(ts, i + 1, {"and"}))]
        sum[i \in 1..Len(ts)] == IF span[i].ok
                                 THEN Heard(span[i].value + sum[span[i].last].value,
                                            sum[span[i].last].last)
                                 ELSE Heard(0, i)
    IN  sum[u]

\* "two and a half hours": the number of head that ends right before the
\* "and" that head ends with.
NumberBefore(head) ==
    LET numbers == { n \in { ParseSpokenNumber(head, s) : s \in 1..Len(head) } :
                       n.ok /\ n.last = Len(head) }
    IN  Max({0} \cup { n.value : n \in numbers })
WholePart(ts, lead) == IF At(ts, lead) = "and" THEN NumberBefore(SubSeq(ts, 1, lead)) ELSE 0

FractionUnit(ts, i) == Skip(ts, Skip(ts, i + 1, {"of"}), {"a", "an"})
Fraction(ts, i, u) ==
    Heard(WholePart(ts, IF At(ts, i - 1) \in {"a", "an"} THEN i - 2 ELSE i - 1) * UnitSeconds[ts[u]]
          + UnitSeconds[ts[u]] \div Divisor[ts[i]], u)
FirstFraction(ts, at) == IF at = {} THEN Unheard ELSE Fraction(ts, Min(at), FractionUnit(ts, Min(at)))
FractionalDuration(ts) ==
    FirstFraction(ts, { i \in 1..Len(ts) : /\ ts[i] \in DOMAIN Divisor
                                           /\ At(ts, FractionUnit(ts, i)) \in DOMAIN UnitSeconds })

\* "couple" and "dozen": only the first one, at i, is looked at.
Idiom(ts, count, u) ==
    IF At(ts, u) \in DOMAIN UnitSeconds THEN Heard(count * UnitSeconds[ts[u]], u) ELSE Unheard

CoupleDuration(ts) ==
    LET i == SelectInSeq(ts, LAMBDA w : w = "couple")
    IN  IF i = 0 THEN Unheard ELSE Idiom(ts, 2, Skip(ts, i + 1, {"of"}))

\* One word before it may say how many; "half a dozen" is left alone.
Dozens(one) == IF one.ok THEN 12 * one.value ELSE 12
DozenDuration(ts) ==
    LET i == SelectInSeq(ts, LAMBDA w : w = "dozen")
    IN  IF i = 0 \/ {At(ts, i - 1), At(ts, i - 2)} \cap DOMAIN Divisor # {} THEN Unheard
        ELSE Idiom(ts, Dozens(ParseSpokenNumber(<<At(ts, i - 1)>>, 1)), Skip(ts, i + 1, {"of"}))

Plus(d, more) == Heard(d.value + more.value, more.last)
SpansFrom(ts, first) == IF first.ok THEN Plus(first, TrailingSpans(ts, first.last)) ELSE Unheard
ParseDuration(ts) ==
    SpansFrom(ts, LET at == { s \in 1..Len(ts) : Span(ts, s).ok }
                  IN  IF at = {} THEN Unheard ELSE Span(ts, Min(at)))

\* "and a half" of the last unit.
HalfAfter(ts, d, tail) ==
    IF At(ts, tail) \in DOMAIN Divisor /\ At(ts, d.last) \in DOMAIN UnitSeconds
    THEN Heard(d.value + UnitSeconds[ts[d.last]] \div Divisor[ts[tail]], tail) ELSE d
WithHalf(ts, d) == HalfAfter(ts, d, Skip(ts, Skip(ts, d.last + 1, {"and"}), {"a", "an"}))

\* Variant: the idioms return what they matched.
ExtendNothing(ts, d) == d

\* Further spans after whichever detector matched, then the half.
ExtendDuration(ts, d) == WithHalf(ts, Plus(d, TrailingSpans(ts, d.last)))

\* The duration of timer_request, 0 for none (the router then abstains): the
\* first detector that hears one.
Extended(ts, heard) == IF heard = <<>> THEN 0 ELSE ExtendDuration(ts, Head(heard)).value
TimerSeconds(ts) ==
    Extended(ts, SelectSeq(<<FractionalDuration(ts), CoupleDuration(ts), DozenDuration(ts),
                             ParseDuration(ts)>>, LAMBDA d : d.ok))

-----------------------------------------------------------------------------
(* What a phrase means.  A span is said in one of the forms below.         *)

Forms == {"plain", "mixed", "fraction", "couple", "dozen", "tail"}
SpanOf(form, unit, word) == [form |-> form, unit |-> unit, word |-> word]

SayNumber(w) == IF w = "twenty-five" THEN <<"twenty", "five">>
                ELSE IF w = "hundred-five" THEN <<"one", "hundred", "and", "five">> ELSE <<w>>
NumberMeant(w) == IF w = "twenty-five" THEN 25 ELSE IF w = "hundred-five" THEN 105
                  ELSE IF w \in DOMAIN Digits THEN Digits[w] ELSE CardinalValue[w]

Say(s) ==
    CASE s.form = "plain"    -> SayNumber(s.word) \o <<s.unit>>
      [] s.form = "mixed"    -> SayNumber(s.word) \o <<"and", "a", "half", s.unit>>
      [] s.form = "fraction" -> <<"half", "an", s.unit>>
      [] s.form = "couple"   -> <<"a", "couple", "of", s.unit>>
      [] s.form = "dozen"    -> <<s.word, "dozen", s.unit>>
      [] s.form = "tail"     -> SayNumber(s.word) \o <<s.unit, "and", "a", "half">>

Meant(s) ==
    LET unit == UnitSeconds[s.unit]
    IN  CASE s.form = "plain"             -> NumberMeant(s.word) * unit
          [] s.form \in {"mixed", "tail"} -> NumberMeant(s.word) * unit + unit \div 2
          [] s.form = "fraction"          -> unit \div 2
          [] s.form = "couple"            -> 2 * unit
          [] s.form = "dozen"             -> 12 * NumberMeant(s.word) * unit

SayPhrase(ph) == FoldLeft(LAMBDA acc, s : IF acc = <<>> THEN Say(s) ELSE acc \o <<"and">> \o Say(s),
                          <<>>, ph)
PhraseMeans(ph) == FoldLeft(LAMBDA acc, s : acc + Meant(s), 0, ph)
-----------------------------------------------------------------------------
NoCall == [tool |-> "none"]
NoValue == 0
Call(t) == [tool |-> t, action |-> "none", value |-> NoValue, object |-> "named", seconds |-> 0]
Control(a, v) == [Call("home_control") EXCEPT !.action = a, !.value = v]
Timer(s) == [Call("set_timer") EXCEPT !.seconds = s]
About(t, o) == [Call(t) EXCEPT !.object = o]

-----------------------------------------------------------------------------
(* home_action.rs                                                          *)

HomeControlActions ==
    {"turn_on", "turn_off", "toggle", "set_brightness", "set_temperature", "open", "close",
     "lock", "unlock", "activate"}
ActionRequiresValue(a) == a \in {"set_brightness", "set_temperature"}

Synonym == [ a \in {"deactivate", "disable", "switch_off", "power_off", "shut_off"} |-> "turn_off" ]
           @@ [ a \in {"enable", "switch_on", "power_on"} |-> "turn_on" ]
           @@ ("activate_scene" :> "activate")
MapSynonym(a) == IF a \in DOMAIN Synonym THEN Synonym[a] ELSE a

\* "none" when the verb is not one the dispatcher executes.
CanonHomeControlAction(a) == IF MapSynonym(a) \in HomeControlActions THEN MapSynonym(a) ELSE "none"

CanonicalizeHouseholdAction(a) ==
    IF a = "set_level" THEN "set_brightness" ELSE CanonHomeControlAction(a)

-----------------------------------------------------------------------------
(* What the rules of each extractor answer.                                *)

PriorityControl1 ==
    <<"activate", "activate", "activate", "allow_mom_only", "schedule_on_alarm", "activate", "run",
      "create_until_21", "activate", "activate", "activate", "pause", "set_level", "activate",
      "create", "activate_until_5pm", "play_low_volume", "hold", "check_and_alert",
      "check_and_vent", "activate", "create_threshold_10", "activate", "activate", "activate",
      "activate", "schedule", "activate", "create", "set_for_tomorrow", "activate", "activate">>
PriorityControl2 ==
    <<"create", "privacy_20", "create", "enable", "show", "schedule", "run", "cut_power_and_vent",
      "activate", "schedule_on_arrival", "activate", "schedule_after_21", "activate",
      "schedule_gradual_blinds", "show_guest_card", "activate", "activate", "activate",
      "apply_scene", "schedule_pulse", "activate", "activate", "show_agenda", "cool_down",
      "shut_water_zone", "turn_off", "block_until_math_done", "allow_10_to_10_20", "activate",
      "activate", "schedule", "activate", "activate">>
PriorityControl3 ==
    <<"verify_and_alert", "start_video_call", "activate", "warm_for_minutes",
      "activate_until_5pm", "activate", "activate", "activate", "open", "activate", "activate",
      "activate", "schedule", "clean", "mute_for_practice", "activate", "lock_except", "activate",
      "turn_off_except", "activate", "activate", "activate", "activate", "activate", "activate",
      "set_volume", "set_color_blue", "pause_until_dinner", "activate", "activate", "activate">>
PriorityControl4 ==
    <<"remote_start", "send_destination", "activate", "activate", "activate", "activate",
      "activate", "activate", "activate", "activate", "activate", "unlock">>
PriorityControl == PriorityControl1 \o PriorityControl2 \o PriorityControl3 \o PriorityControl4

\* The setpoints the rules carry.
RuleValue == ("set_level" :> 90) @@ ("cool_down" :> 2) @@ ("warm_for_minutes" :> 25)
             @@ ("set_volume" :> 25) @@ ("remote_start" :> 72)
ValueOf(a) == IF a \in DOMAIN RuleValue THEN RuleValue[a] ELSE NoValue

\* The fixed phrases of home_control_request.
FixedControl == <<"turn_off", "start", "set_preset", "arm", "start", "test", "turn_off", "turn_off",
                  "activate", "activate", "pause", "schedule_on_arrival", "activate">>

\* The categories the store rules write under.
ReminderStores ==
    <<"permission_requests", "item_location_events", "user_media_aliases", "preference",
      "reminders", "reminder", "activity_preference_embeddings", "project_list_items", "alarms",
      "scene_embeddings", "daily_checklists", "preference", "reminder", "alarm",
      "presence_alert", "reservation">>
PersonalFactStores == <<"health_tracker", "reminders", "reminders", "fact">>

Extractors == {"undo", "history", "memory_status", "list_add", "list_remove", "rule", "health",
               "reminder", "fact", "lego", "priority", "weather", "freezer", "forget", "recall",
               "system", "search", "timer", "scene", "media", "fixed", "turn", "set", "calc",
               "status", "time"}
Rules(x) == CASE x = "priority" -> DOMAIN PriorityControl
              [] x = "fixed"    -> DOMAIN FixedControl
              [] x = "reminder" -> DOMAIN ReminderStores
              [] x = "fact"     -> DOMAIN PersonalFactStores
              [] x = "recall"   -> 1..8
              [] x = "search"   -> 1..3
              [] x \in {"weather", "timer"} -> 1..2
              [] x = "status"   -> 1..4
              [] OTHER          -> {1}

-----------------------------------------------------------------------------
(* The extractors.                                                         *)

RuleOf(u, x) == IF u.hit = x THEN u.rule ELSE IF u.also = x THEN u.alsoRule ELSE 0
Says(u, x) == RuleOf(u, x) # 0
When(b, c) == IF b THEN c ELSE NoCall
FirstCall(answers) ==
    LET calls == SelectSeq(answers, LAMBDA c : c # NoCall)
    IN  IF calls = <<>> THEN NoCall ELSE Head(calls)

\* Undo, the action history and memory diagnostics take no argument.
AsksHomeUndo(u) == When(Says(u, "undo"), Call("home_undo"))
AsksActionHistory(u) == When(Says(u, "history"), Call("action_history"))
AsksMemoryStatus(u) == When(Says(u, "memory_status"), Call("memory_status"))

\* Both list commands drop a "please" at either end and need an item.
ShoppingList(u) ==
    When((Says(u, "list_add") \/ Says(u, "list_remove")) /\ u.object # "empty", Call("memory_store"))
HouseholdRule(u) == When(Says(u, "rule"), Call("memory_store"))
HealthLog(u) == When(Says(u, "health"), Call("memory_store"))
ReminderOrAlarm(u) == When(Says(u, "reminder"), Call("memory_store"))
PersonalFact(u) == When(Says(u, "fact") /\ u.polite # "lead" /\ u.object # "empty", Call("memory_store"))
PreferredTimer(u) == When(Says(u, "lego"), Timer(600))

\* A rule whose verb is not executable abstains: later extractors are tried.
ControlWith(c, v) == When(c # "none", Control(c, v))
Household(a) == ControlWith(CanonicalizeHouseholdAction(a), ValueOf(a))
PriorityHomeControl(u) ==
    IF Says(u, "priority") THEN Household(PriorityControl[RuleOf(u, "priority")]) ELSE NoCall

\* Rain questions (1) default to home; the others need a place, and a time
\* after the marker is not a place.
Weather(u) == When(\/ RuleOf(u, "weather") = 1
                   \/ RuleOf(u, "weather") = 2 /\ u.object = "named" /\ ~u.delayed,
                   Call("get_weather"))
PriorityHomeStatus(u) == When(Says(u, "freezer"), Call("home_status"))

\* Anchored at the first word, so a leading "please" abstains; so do a bare
\* pronoun and nothing.
MemoryForget(u) == When(Says(u, "forget") /\ u.polite # "lead" /\ u.object = "named",
                        About("memory_forget", u.object))

\* The rules of memory_recall_query in source order: the speaker's name, a
\* household role, the four recognisers of whole questions, the prefix forms,
\* and "what do you remember" of the speaker.
AsksNameOrRole(u) == RuleOf(u, "recall") \in {1, 2, 8}
IsStructuredHouseholdQuestion(u) == RuleOf(u, "recall") = 3
IsAppOnlySecretQuestion(u) == RuleOf(u, "recall") = 4
IsHouseholdNoteQuestion(u) == RuleOf(u, "recall") = 5
IsSemanticHouseholdMemoryQuestion(u) == RuleOf(u, "recall") = 6
IsPrefixedRecall(u) == RuleOf(u, "recall") = 7 /\ u.polite # "lead" /\ u.object = "named"
MemoryRecall(u) ==
    When(\/ AsksNameOrRole(u) \/ IsStructuredHouseholdQuestion(u) \/ IsAppOnlySecretQuestion(u)
         \/ IsHouseholdNoteQuestion(u) \/ IsSemanticHouseholdMemoryQuestion(u)
         \/ IsPrefixedRecall(u),
         Call("memory_recall"))

SystemStatus(u) == When(Says(u, "system"), Call("system_info"))

\* Stock prices and news (1, 2) always have a query; "remind me" (2 of the
\* timer rules) is left to the timer extractor.
WebSearch(u) ==
    When(/\ Says(u, "search") /\ RuleOf(u, "timer") # 2
         /\ RuleOf(u, "search") = 3 => u.polite # "lead" /\ u.object # "empty",
         Call("web_search"))

TimerFor(s) == When(s # 0, Timer(s))
TimerRequest(u) == IF Says(u, "timer") THEN TimerFor(TimerSeconds(SayPhrase(u.phrase))) ELSE NoCall

\* A fixed greeting, or "activate|start|run <name> scene|routine".
SceneOrRoutine(u) == When(Says(u, "scene") /\ u.object # "empty", Control("activate", NoValue))
PlayMedia(u) == When(Says(u, "media"), Call("play_media"))

\* The delay guard looks at what follows the last " in ".  A "please" after
\* the duration is the last word there, so the duration is not recognised.
IsTimeExpressionTail(u) == u.delayed /\ u.polite # "trail"

KnownTurnDevice(d) == d \in {"light", "fan"}
SimpleTurn(u) ==
    When(/\ Says(u, "turn") /\ u.polite # "lead" /\ u.object # "empty"
         /\ ~IsTimeExpressionTail(u) /\ ~u.many /\ KnownTurnDevice(u.device),
         Control("turn_on", NoValue))

\* "set <device> to <number>": the device decides the verb.
SetAction(d) == CASE d = "light" -> "set_brightness" [] d = "heater" -> "set_temperature"
                  [] OTHER -> "none"
SetTarget(u) ==
    When(/\ Says(u, "set") /\ u.polite # "lead" /\ u.object # "empty"
         /\ ~IsTimeExpressionTail(u) /\ SetAction(u.device) # "none",
         Control(SetAction(u.device), 68))

HomeControl(u) ==
    IF Says(u, "fixed") THEN Household(FixedControl[RuleOf(u, "fixed")])
    ELSE IF SimpleTurn(u) # NoCall THEN SimpleTurn(u) ELSE SetTarget(u)

Calculation(u) == When(Says(u, "calc") /\ u.polite = "no", Call("calculate"))
\* Curated questions name their own target: known by words anywhere in them
\* (1), or by how they begin ("is the oven ... on", "did ... mail", 3).  The
\* others, asked with a question word in front (2) or with "status" in them
\* (4), need a device class; where the class has several devices the room or
\* name asked about is kept, so that one device is not answered for all.  The
\* classes of the home have one answer, save that the front sprinklers, the
\* basement's humidity and the garage's freezer are devices of their own.
StatusPerDevice == {"light", "switch", "heater", "cover", "lock", "dryer"}
StatusPerHome == {"icemaker", "driveway", "sprinklers", "humidity", "car", "stove", "package",
                  "freezer"}
CuratedStatus(u) == When(RuleOf(u, "status") = 1, Call("home_status"))
AnchoredStatus(u) == When(RuleOf(u, "status") = 3 /\ u.polite # "lead", Call("home_status"))
LooksLikeStatusQuery(u) ==
    \/ RuleOf(u, "status") = 4
    \/ RuleOf(u, "status") = 2 /\ u.polite # "lead"
GenericStatus(u) ==
    When(LooksLikeStatusQuery(u) /\ u.object # "empty" /\ u.device \in StatusPerDevice \cup StatusPerHome,
         About("home_status", IF u.device \in StatusPerDevice THEN u.object ELSE "class"))
HomeStatus(u) == FirstCall(<<CuratedStatus(u), AnchoredStatus(u), GenericStatus(u)>>)
CurrentTime(u) == When(Says(u, "time") /\ u.polite # "lead", Call("get_time"))

Route(u) ==
    FirstCall(<<AsksHomeUndo(u), AsksActionHistory(u), AsksMemoryStatus(u), ShoppingList(u),
                HouseholdRule(u), HealthLog(u), ReminderOrAlarm(u), PersonalFact(u),
                PreferredTimer(u), PriorityHomeControl(u), Weather(u), PriorityHomeStatus(u),
                MemoryForget(u), MemoryRecall(u), SystemStatus(u), WebSearch(u),
                TimerRequest(u), SceneOrRoutine(u), PlayMedia(u), HomeControl(u),
                Calculation(u), HomeStatus(u), CurrentTime(u)>>)

\* A call to a tool that is not wired up is dropped, not routed again.
Available(c, home, web) ==
    /\ c.tool \in {"home_control", "home_status", "home_undo", "action_history"} => home
    /\ c.tool = "web_search" => web
RouteForAvailableTools(u, home, web) ==
    FirstCall(SelectSeq(<<Route(u)>>, LAMBDA c : Available(c, home, web)))
=============================================================================
