------------------------------- MODULE MCTurn -------------------------------
(***************************************************************************)
(* Instances of ChatTurn: every rule of the router on its own, the rules   *)
(* whose verb cannot be executed together with every other extractor, the  *)
(* wordings of a command, the durations of one and two spans, and for the  *)
(* model every kind of reply and of history.                               *)
(***************************************************************************)
EXTENDS ChatTurn

Plain == [hit |-> "none", rule |-> 0, also |-> "none", alsoRule |-> 0, polite |-> "no",
          delayed |-> FALSE, many |-> FALSE, object |-> "named", device |-> "other",
          phrase |-> <<SpanOf("plain", "minute", "five")>>]

EveryRule == UNION { { [Plain EXCEPT !.hit = x, !.rule = i, !.polite = p] :
                         i \in Rules(x), p \in {"no", "lead", "trail"} } : x \in Extractors }

\* One rule of each verb that cannot be executed.
Abstaining == { i \in DOMAIN PriorityControl :
                  /\ CanonicalizeHouseholdAction(PriorityControl[i]) = "none"
                  /\ \A j \in 1..(i - 1) : PriorityControl[j] # PriorityControl[i] }
FallThrough == { [Plain EXCEPT !.hit = "priority", !.rule = i, !.also = x, !.alsoRule = 1,
                               !.device = "light",
                               !.many = PriorityControl[i] \in {"turn_off_except", "lock_except"}] :
                       i \in Abstaining, x \in Extractors \ {"priority"} }

Commands == [hit : {"turn", "set"}, rule : {1}, also : {"none"}, alsoRule : {0},
             polite : {"no", "lead", "trail"}, delayed : BOOLEAN, many : BOOLEAN,
             object : {"named", "bare", "empty"}, device : {"light", "fan", "heater", "other"},
             phrase : {Plain.phrase}]
Questions == { [Plain EXCEPT !.hit = "status", !.rule = i, !.object = o, !.device = d, !.polite = p] :
                 i \in 2..4, o \in {"named", "bare", "empty"}, p \in {"no", "lead"},
                 d \in StatusPerDevice \cup StatusPerHome \cup {"other"} }

Spans == { SpanOf(f, u, w) : f \in Forms, u \in {"minute", "hour"}, w \in {"one", "15", "twenty-five"} }
Phrases == { <<s>> : s \in Spans } \cup { <<s, t>> : s \in Spans, t \in Spans }
Durations == { [Plain EXCEPT !.hit = "timer", !.rule = 1, !.phrase = ph] : ph \in Phrases }

MCSentences == EveryRule \cup FallThrough \cup Commands \cup Questions \cup Durations
MCRoutes == [u \in MCSentences |-> RouteForAvailableTools(u, TRUE, TRUE)]

Reply(lead, open, pad, shape, tool, args) ==
    [lead |-> lead, open |-> open, pad |-> pad, shape |-> shape, tool |-> tool, args |-> args]
Named == { Reply(l, o, p, "named", t, a) :
             l \in {"none", "fence", "split", "prose"}, o \in {"brace", "bracket"}, p \in BOOLEAN,
             t \in {"set_timer"}, a \in {"full", "text"} }
Compact == { Reply("none", "brace", FALSE, "builtin", t, a) :
               t \in {"get_weather", "home_control", "system_info"}, a \in {"full", "scalar", "list"} }
Odd == { Reply(l, o, p, s, "unknown", "full") :
           l \in {"none", "fence", "prose"}, o \in {"brace", "bracket"}, p \in BOOLEAN,
           s \in {"none", "answer", "other", "hollow", "nameless", "broken", "inner"} }
Wrapped == { Reply(l, "brace", FALSE, s, t, a) :
               l \in {"none", "prose"}, s \in {"openai", "skill"}, t \in {"skill"},
               a \in {"full", "text", "null"} }
MCReplies == Named \cup Compact \cup Odd \cup Wrapped

Older(n, bytes, escapes) ==
    Message(IF n % 2 = 1 THEN "user" ELSE "assistant", bytes, escapes, <<"m1", "m2", "m3", "m4">>[n])
MCHistories == { <<>>, <<Older(1, 1, 0), Older(2, 1, 0)>>, <<Older(1, 1, 0), Older(2, 5, 0)>>,
                 <<Older(1, 1, 0), Older(2, 4, 0), Message("system", 2, 0, "m3")>>,
                 <<Older(1, 1, 2), Older(2, 1, 0)>>, <<Older(1, 4, 0), Older(2, 4, 1)>>,
                 <<Older(1, 4, 0), Older(2, 4, 0), Older(3, 1, 0), Older(4, 1, 0)>> }

(* Posted by an OpenAI client: with a role or a content nobody reads, with *)
(* something after the last user message, with none among those read.      *)
Posted(role, bytes, what) == Message(role, bytes, 0, what)
MCPosts == { <<>>, <<Posted("user", 2, "m1")>>,
             <<Posted("user", 2, "m1"), Posted("assistant", 1, "m2"), Posted("tool", 1, "m3"), Posted("user", 0, "m4")>>,
             <<Posted("user", 1, "m1"), Posted("assistant", 4, "m2"), Posted("user", 2, "m3"), Posted("system", 1, "m4")>>,
             <<Posted("assistant", 3, "m1"), Posted("user", 3, "m2"), Posted("user", 3, "m3")>>,
             <<Posted("user", 2, "m1"), Posted("assistant", 1, "m2"), Posted("tool", 1, "m3"),
               Posted("assistant", 1, "m4"), Posted("tool", 1, "m5")>> }
=============================================================================
