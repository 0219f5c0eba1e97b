---------------------------- MODULE HomeTargets -----------------------------
(***************************************************************************)
(* HomeAssistantProvider: what a spoken target means in this home.  The    *)
(* provider fetches the entities and then the areas of Home Assistant,     *)
(* builds a graph of them, caches it, and resolves a query in the cached   *)
(* graph; a miss fetches the structure again.  Requests run concurrently   *)
(* and the home is edited while they do.                                   *)
(*                                                                         *)
(* A phrase is a sequence of words (what normalize leaves of a text), a    *)
(* score counts thousandths.  One character string contains another when   *)
(* its words do: Starts and Ends list the words of the instance that are   *)
(* part of a longer one.                                                   *)
(***************************************************************************)
EXTENDS Integers, Sequences, FiniteSets, SequencesExt

CONSTANTS
  Askers,          \* tasks that call the provider
  Households,      \* [homes, menu, until]: the structures Home Assistant may have,
                   \* each [entities, areas], what is asked for, each [query, hint],
                   \* and how many moments may pass
  GraphTtl,        \* GRAPH_CACHE_TTL, in ticks
  CallTimeout,     \* the client's connect and request deadline, in ticks
  MaxEdits,        \* bound: changes of the home
  MaxAsks          \* bound: requests

VARIABLES
  home,       \* the structure Home Assistant has now
  graphCache, \* the cached graph and its synced_at, or NoGraph
  asking,     \* asking[a]: the call of a
  house,      \* the household of this behaviour
  moment,
  edits, asks,
  listed      \* history: every structure and when Home Assistant had it

homeVars == <<home, graphCache, asking, house, moment, edits, asks, listed>>

NoGraph  == [graph |-> [areas |-> <<>>, entities |-> <<>>], at |-> -1]
NoPlace  == <<>>
NoTarget == [kind |-> "none", entities |-> {}, area |-> NoPlace, score |-> 0]
NobodyAsks == [pc |-> "free", query |-> [words |-> <<>>, id |-> "none"], hint |-> "none",
               cached |-> FALSE, graph |-> NoGraph.graph, states |-> <<>>, since |-> 0,
               target |-> NoTarget, answer |-> "none", at |-> 0]

-----------------------------------------------------------------------------
(* Words. *)

WordStarts == {<<"light", "lights">>, <<"lamp", "lamps">>, <<"lock", "locks">>,
               <<"fan", "fans">>, <<"blind", "blinds">>, <<"switch", "switches">>}
WordEnds   == {<<"room", "bedroom">>}

StartsWord(w, v)   == v = w \/ <<v, w>> \in WordStarts   \* w starts with v
EndsWord(w, v)     == v = w \/ <<v, w>> \in WordEnds
WordContains(w, v) == StartsWord(w, v) \/ EndsWord(w, v)

(* candidate.contains(query), for phrases *)
PhraseContains(big, small) ==
  \/ small = <<>>
  \/ Len(small) = 1 /\ \E i \in 1..Len(big) : WordContains(big[i], small[1])
  \/ /\ Len(small) > 1
     /\ \E i \in 0..(Len(big) - Len(small)) :
          /\ EndsWord(big[i + 1], small[1])
          /\ StartsWord(big[i + Len(small)], small[Len(small)])
          /\ \A k \in 2..(Len(small) - 1) : big[i + k] = small[k]

PhraseStarts(big, small) ==
  /\ Len(small) <= Len(big)
  /\ \A k \in 1..(Len(small) - 1) : big[k] = small[k]
  /\ small # <<>> => StartsWord(big[Len(small)], small[Len(small)])

MatchingWords(query, candidate) ==
  {i \in 1..Len(query) : \E w \in ToSet(candidate) :
     WordContains(w, query[i]) \/ WordContains(query[i], w)}

FuzzyScore(query, candidate) ==
  Min({1000,
       (IF candidate = query THEN 1000
        ELSE IF PhraseContains(candidate, query) \/ PhraseContains(query, candidate) THEN 750
        ELSE 0)
       + (IF query = <<>> THEN 0
          ELSE (350 * Cardinality(MatchingWords(query, candidate))) \div Len(query))
       + (IF PhraseStarts(candidate, query) THEN 150 ELSE 0)})

BestAliasScore(query, aliases) == Max({FuzzyScore(query, a) : a \in aliases} \cup {0})

(* domain_of_word *)
DomainWords ==
  [light   |-> {"light", "lights", "lamp", "lamps"},
   switch  |-> {"switch", "switches", "plug", "outlet"},
   fan     |-> {"fan", "fans"},
   climate |-> {"thermostat", "temperature", "heat", "heating", "cooling", "ac"},
   cover   |-> {"blind", "blinds", "shade", "shades", "curtain", "curtains", "cover",
                "covers", "garage"},
   lock    |-> {"lock", "locks", "unlock"}]

IsDomainWord(w) == \E d \in DOMAIN DomainWords : w \in DomainWords[d]

DomainOrder == <<"light", "switch", "fan", "climate", "cover", "lock">>

DomainsNamed(query) ==
  {i \in 1..Len(DomainOrder) : \E w \in ToSet(query) :
     \/ w \in DomainWords[DomainOrder[i]]
     \/ DomainOrder[i] = "climate" /\ w \in {"warmer", "cooler"}}

InferDomain(query) ==
  IF DomainsNamed(query) = {} THEN "none" ELSE DomainOrder[Min(DomainsNamed(query))]

DomainSynonyms(domain) ==
  CASE domain = "light"   -> {<<"light">>, <<"lights">>, <<"lamp">>, <<"lamps">>}
    [] domain = "switch"  -> {<<"switch">>, <<"switches">>, <<"plug">>, <<"outlet">>}
    [] domain = "fan"     -> {<<"fan">>, <<"fans">>}
    [] domain = "climate" -> {<<"thermostat">>, <<"temperature">>, <<"heater">>}
    [] domain = "cover"   -> {<<"cover">>, <<"covers">>, <<"blind">>, <<"blinds">>}
    [] domain = "lock"    -> {<<"lock">>, <<"locks">>, <<"door", "lock">>}
    [] domain = "scene"   -> {<<"scene">>, <<"scenes">>}
    [] domain = "script"  -> {<<"script">>, <<"routine">>}
    [] OTHER              -> {}

-----------------------------------------------------------------------------
(* The graph. *)

VoiceRelevant == {"light", "switch", "fan", "scene", "script", "climate", "cover", "lock",
                  "sensor", "binary_sensor", "media_player"}

BuildAliases(name, domain, area) ==
  LET own == {name} \cup DomainSynonyms(domain)
  IN (own \cup (IF area = NoPlace THEN {} ELSE {area \o a : a \in own})) \ {<<>>}

(* The last area that lists an entity is the one it is in. *)
AreaOf(id, areas) ==
  LET within == {i \in 1..Len(areas) : id \in areas[i].members}
  IN IF within = {} THEN NoPlace ELSE areas[Max(within)].name

EntityRef(state, area) ==
  [id |-> state.id, name |-> state.name, domain |-> state.domain, area |-> area,
   aliases |-> BuildAliases(state.name, state.domain, area), safe |-> state.safe]

EntityRefs(relevant, areas) ==
  [i \in 1..Len(relevant) |-> EntityRef(relevant[i], AreaOf(relevant[i].id, areas))]

BuildGraph(states, areas) ==
  [areas    |-> [i \in 1..Len(areas) |-> areas[i].name],
   entities |-> EntityRefs(SelectSeq(states, LAMBDA s : s.domain \in VoiceRelevant), areas)]

-----------------------------------------------------------------------------
(* Resolution in a graph. *)

Target(kind, entities, area, score) ==
  [kind |-> kind, entities |-> entities, area |-> area, score |-> score]

KindOf(e) == IF e.domain \in {"scene", "script"} THEN e.domain ELSE "entity"

(* The first entry with the best score above a floor, or 0. *)
FirstBest(scores, floor) ==
  LET over == {i \in 1..Len(scores) : scores[i] > floor}
  IN IF over = {} THEN 0
     ELSE CHOOSE i \in over : \A j \in over :
            scores[j] < scores[i] \/ (scores[j] = scores[i] /\ i <= j)

ScoredArea(areas, scores, best) ==
  IF best = 0 THEN [name |-> NoPlace, score |-> 0]
  ELSE [name |-> areas[best], score |-> scores[best]]

AreaMatchOf(areas, scores) == ScoredArea(areas, scores, FirstBest(scores, 450))

BestAreaMatch(areas, query) ==
  AreaMatchOf(areas, [i \in 1..Len(areas) |-> BestAliasScore(query, {areas[i]} \ {<<>>})])

ExactTarget(e, hint) ==
  IF KindOf(e) # "entity" /\ hint \notin {"activate", "none"} THEN NoTarget
  ELSE Target(KindOf(e), {e.id}, e.area, 1000)

ResolveExactEntityId(graph, id, hint) ==
  LET hits == SelectSeq(graph.entities, LAMBDA e : e.id = id)
  IN IF hits = <<>> THEN NoTarget ELSE ExactTarget(Head(hits), hint)

(* whole_home_resolution_is_trustworthy: every word that is no domain word  *)
(* belongs to an area with a device of the first domain named.              *)
BenignWords == {"all", "the", "a", "an", "every", "any", "my", "our", "this", "that", "please",
                "now", "here", "turn", "switch", "set", "get", "status", "of", "to", "in"}

FirstDomainNamed(query) ==
  LET named == SelectSeq(query, IsDomainWord)
  IN IF named = <<>> THEN "none"
     ELSE CHOOSE d \in DOMAIN DomainWords : Head(named) \in DomainWords[d]

PlacesOf(graph, domain) ==
  UNION {ToSet(e.area) : e \in {f \in ToSet(graph.entities) : f.domain = domain}}

WholeHomeTrustworthy(graph, query) ==
  \/ FirstDomainNamed(query) = "none"
  \/ \A w \in ToSet(query) : \/ IsDomainWord(w) \/ w \in BenignWords
                             \/ w \in PlacesOf(graph, FirstDomainNamed(query))

WholeHomeConfidence == 900

ResolveDomainTarget(graph, query, domain) ==
  LET ids == {e.id : e \in {f \in ToSet(graph.entities) : f.domain = domain}}
  IN IF ids = {} \/ ~WholeHomeTrustworthy(graph, query) THEN NoTarget
     ELSE Target("group", ids, NoPlace, WholeHomeConfidence)

ResolveGroupTarget(graph, domain, area, score) ==
  LET ids == {e.id : e \in {f \in ToSet(graph.entities) : f.domain = domain /\ f.area = area}}
  IN IF ids = {} THEN NoTarget ELSE Target("group", ids, area, score)

(* The devices within the tie margin of the best score. *)
TiedOver(scored) == {m \in scored : \A n \in scored : n.s <= m.s + 1}

TiedNamedMatches(graph, query) ==
  LET devices == {e \in ToSet(graph.entities) : e.domain \notin {"scene", "script"}}
  IN TiedOver({m \in {[e |-> e, s |-> BestAliasScore(query, e.aliases)] : e \in devices} :
                 m.s > 420})

(* top_named_entity_match: one device, or none when several tie. *)
TopOf(tied) == IF Cardinality(tied) = 1 THEN tied ELSE {}

EntityTarget(top) ==
  IF top = {} THEN NoTarget
  ELSE LET m == CHOOSE t \in top : TRUE IN Target("entity", {m.e.id}, m.e.area, m.s)

(* Scenes, then scripts marked for voice, before the devices of a tie. *)
ActivatedBest(refs, scores, best) ==
  IF best = 0 THEN NoTarget
  ELSE Target(refs[best].domain, {refs[best].id}, refs[best].area, scores[best])

ActivatedOf(refs, scores) == ActivatedBest(refs, scores, FirstBest(scores, 420))

Activatable(graph) == SelectSeq(graph.entities, LAMBDA e : e.domain = "scene")
                      \o SelectSeq(graph.entities, LAMBDA e : e.domain = "script" /\ e.safe)

ResolveActivated(refs, query) ==
  ActivatedOf(refs, [i \in 1..Len(refs) |-> BestAliasScore(query, refs[i].aliases)])

(* The first of a list of attempts that found something. *)
FirstFound(targets) ==
  LET found == SelectSeq(targets, LAMBDA t : t # NoTarget)
  IN IF found = <<>> THEN NoTarget ELSE Head(found)

ResolveNamedEntity(graph, query, hint) ==
  FirstFound(<<IF hint = "activate" THEN ResolveActivated(Activatable(graph), query) ELSE NoTarget,
               EntityTarget(TopOf(TiedNamedMatches(graph, query)))>>)

IsBareAreaDomain(query, area, domain) ==
  \A w \in ToSet(query) : \/ w \in ToSet(area)
                          \/ \E s \in DomainSynonyms(domain) : w \in ToSet(s)
                          \/ w \in DomainWords[domain]

IsBareArea(query, area) == ToSet(query) \subseteq ToSet(area)

(* The attempts in their order: a room and a kind of device, a kind of      *)
(* device in the whole home, a room alone, a name.                          *)
ResolveByWords(graph, query, hint, area, domain, named) ==
  FirstFound(
    (IF area.name # NoPlace /\ domain # "none"
     THEN (IF IsBareAreaDomain(query, area.name, domain) THEN <<>> ELSE <<named>>)
          \o <<ResolveGroupTarget(graph, domain, area.name, area.score)>>
     ELSE <<>>)
    \o (IF area.name = NoPlace /\ domain # "none"
        THEN <<ResolveDomainTarget(graph, query, domain)>> ELSE <<>>)
    \o (IF hint = "none" /\ area.name # NoPlace
        THEN (IF IsBareArea(query, area.name) THEN <<>> ELSE <<named>>)
             \o <<ResolveGroupTarget(graph, "light", area.name, (area.score * 4) \div 5)>>
        ELSE <<>>)
    \o <<named>>)

ResolveTargetInGraph(graph, query, hint) ==
  FirstFound(<<ResolveExactEntityId(graph, query.id, hint),
               ResolveByWords(graph, query.words, hint,
                              BestAreaMatch(graph.areas, query.words),
                              InferDomain(query.words),
                              ResolveNamedEntity(graph, query.words, hint))>>)

(* Why nothing was found: the message resolve_target ends with. *)
Refusal(graph, query) ==
  CASE Cardinality(TiedNamedMatches(graph, query.words)) > 1 -> "ambiguous"
    [] /\ BestAreaMatch(graph.areas, query.words).name = NoPlace
       /\ InferDomain(query.words) # "none"
       /\ ~WholeHomeTrustworthy(graph, query.words)          -> "not_in_this_home"
    [] OTHER                                                 -> "no_match"

-----------------------------------------------------------------------------
(* The provider's calls. *)

\* Variant: a cached graph never expires.
FreshForever == graphCache # NoGraph

Fresh == graphCache # NoGraph /\ moment - graphCache.at < GraphTtl

Answered(call, graph, target) ==
  [call EXCEPT !.graph = graph, !.target = target, !.at = moment,
               !.pc = IF target = NoTarget THEN "missed" ELSE "found"]

Resolved(call, graph) == Answered(call, graph, ResolveTargetInGraph(graph, call.query, call.hint))

(* A miss in the cached graph fetches the structure again. *)
OrRefresh(done) ==
  IF done.pc = "found" THEN done
  ELSE [done EXCEPT !.pc = "states", !.cached = TRUE, !.since = moment]

WithCached(call) == OrRefresh(Resolved(call, graphCache.graph))

(* graph(): the cached one while it is fresh. *)
FirstGraph(call) ==
  IF Fresh THEN WithCached(call) ELSE [call EXCEPT !.pc = "states", !.since = moment]

(* resolve_target, up to its first request to Home Assistant. *)
ResolveTarget(a) ==
  \E ask \in house.menu :
    /\ asking[a].pc \in {"free", "found", "missed", "told"} /\ asks < MaxAsks
    /\ asking' = [asking EXCEPT ![a] = FirstGraph([NobodyAsks EXCEPT !.query = ask.query,
                                                                     !.hint = ask.hint])]
    /\ asks' = asks + 1
    /\ UNCHANGED <<home, graphCache, house, moment, edits, listed>>

(* get_states answers: the entities as they are now. *)
StatesArrive(a) ==
  /\ asking[a].pc = "states"
  /\ asking' = [asking EXCEPT ![a].pc = "areas", ![a].states = home.entities, ![a].since = moment]
  /\ UNCHANGED <<home, graphCache, house, moment, edits, asks, listed>>

(* get_states fails, or its deadline passes: a refresh keeps the miss of    *)
(* the cached graph, a first load is the error of the call.                 *)
StatesFail(a) ==
  /\ asking[a].pc = "states"
  /\ asking' = [asking EXCEPT ![a] =
       [asking[a] EXCEPT !.pc = "missed", !.at = moment,
          !.answer = IF asking[a].cached THEN Refusal(asking[a].graph, asking[a].query)
                     ELSE "unavailable"]]
  /\ UNCHANGED <<home, graphCache, house, moment, edits, asks, listed>>

(* load_areas answers, or fails and leaves the graph without areas; the     *)
(* cache takes the graph, and the call is resolved in it.  A refusal speaks *)
(* of the graph the call began with.                                        *)
OrRefuse(done, first) ==
  IF done.pc = "found" THEN done ELSE [done EXCEPT !.answer = Refusal(first, done.query)]

SyncedWith(a, graph) ==
  /\ graphCache' = [graph |-> graph, at |-> moment]
  /\ asking' = [asking EXCEPT ![a] =
       OrRefuse(Resolved(asking[a], graph), IF asking[a].cached THEN asking[a].graph ELSE graph)]
  /\ UNCHANGED <<home, house, moment, edits, asks, listed>>

Synced(a, areas) == asking[a].pc = "areas" /\ SyncedWith(a, BuildGraph(asking[a].states, areas))

AreasArrive(a) == Synced(a, home.areas)
AreasFail(a)   == Synced(a, <<>>)

ActiveStates == {"on", "open", "unlocked", "playing", "heat", "cool", "auto", "heat_cool",
                 "dry", "fan_only"}

(* get_state of what was found: how many of the entities that still exist   *)
(* are active (summarize_state).                                            *)
GetState(a) ==
  LET live == {e \in ToSet(home.entities) : e.id \in asking[a].target.entities}
  IN /\ asking[a].pc = "found" /\ asking[a].hint = "none"
     /\ asking' = [asking EXCEPT ![a].pc = "told", ![a].answer =
          IF live = {} THEN "no_state"
          ELSE IF \E e \in live : e.state \in ActiveStates THEN "active" ELSE "inactive"]
     /\ UNCHANGED <<home, graphCache, house, moment, edits, asks, listed>>

(* The household edits its home in Home Assistant (external). *)
EditHome ==
  /\ edits < MaxEdits
  /\ \E h \in house.homes \ {home} : home' = h /\ listed' = listed \cup {[home |-> h, at |-> moment]}
  /\ edits' = edits + 1
  /\ UNCHANGED <<graphCache, asking, house, moment, asks>>

(* A request never outlives its deadline (tokio::time::timeout). *)
MomentPasses ==
  /\ moment < house.until
  /\ \A a \in Askers : asking[a].pc \in {"states", "areas"} => moment < asking[a].since + CallTimeout
  /\ moment' = moment + 1
  /\ listed' = listed \cup {[home |-> home, at |-> moment + 1]}
  /\ UNCHANGED <<home, graphCache, asking, house, edits, asks>>

TargetsInit ==
  /\ house \in Households /\ home \in house.homes /\ graphCache = NoGraph
  /\ asking = [a \in Askers |-> NobodyAsks]
  /\ moment = 0 /\ edits = 0 /\ asks = 0
  /\ listed = {[home |-> home, at |-> 0]}

TargetsNext ==
  \/ \E a \in Askers : \/ ResolveTarget(a) \/ StatesArrive(a) \/ StatesFail(a)
                       \/ AreasArrive(a) \/ AreasFail(a) \/ GetState(a)
  \/ EditHome
  \/ MomentPasses

-----------------------------------------------------------------------------
(* Every entity a call may act on was in the home, and in the area the      *)
(* target names, no longer ago than the cache may be old and the requests   *)
(* may take: an expired graph is never used, whatever refreshes overlap.    *)
(* The home is read in two requests, so the two may be of two moments.      *)
TargetsCurrent ==
  \A a \in Askers : LET target == asking[a].target
                        recent == {then.home : then \in {was \in listed :
                                     was.at >= asking[a].at - (GraphTtl - 1) - CallTimeout}} IN
    asking[a].pc = "found" => \A id \in target.entities :
      /\ \E then \in recent : id \in {e.id : e \in ToSet(then.entities)}
      /\ target.area # NoPlace => \E then \in recent : AreaOf(id, then.areas) = target.area

(* The room a group is taken from is one the words name, or name a part of  *)
(* (best_area_match): its devices are not those of another room.            *)
RoomAsSaid ==
  \A a \in Askers : LET target == asking[a].target  words == asking[a].query.words IN
    (asking[a].pc = "found" /\ target.kind = "group" /\ target.area # NoPlace) =>
      PhraseContains(words, target.area) \/ PhraseContains(target.area, words)

(* A device chosen by name is called, in the words said, something that no  *)
(* other device of the graph is called: a tie is a question, never a guess  *)
(* (resolve_named_entity, #511).                                            *)
NeverGuesses ==
  \A a \in Askers : LET call == asking[a] IN
    (call.pc = "found" /\ call.target.kind = "entity" /\ call.query.id = "none") =>
      \E e \in ToSet(call.graph.entities) :
        /\ call.target.entities = {e.id}
        /\ \E alias \in e.aliases :
             /\ PhraseContains(alias, call.query.words) \/ PhraseContains(call.query.words, alias)
             /\ \A d \in ToSet(call.graph.entities) :
                  (d.id # e.id /\ KindOf(d) = "entity") => alias \notin d.aliases

(***************************************************************************)
(* A command is aimed at devices the home has, in the room it names, and   *)
(* at the one it names (resolve_target, resolve_named_entity).             *)
(***************************************************************************)
TargetsSound == TargetsCurrent /\ RoomAsSaid /\ NeverGuesses
=============================================================================
