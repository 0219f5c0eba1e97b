------------------------------ MODULE WebSearch ------------------------------
(***************************************************************************)
(* The web search tool and its process-wide answer cache                   *)
(* (tools/web_search.rs).  The lock is held for the lookup and for the     *)
(* store, never across the request between them, so several searches of    *)
(* one key can be in flight at once.  What the web says at time t is t:    *)
(* an answer is the moment the provider looked.                            *)
(***************************************************************************)
EXTENDS Naturals, FiniteSets

CONSTANTS Searchers,   \* turns that may search at the same time
          Keys,        \* (provider, base URL, normalised query, limit)
          PrivateKeys, \* queries that name a secret
          Ttl,         \* cache_ttl_secs
          Timeout,     \* timeout_secs of the HTTP client
          MaxEntries,  \* cache_max_entries
          MaxTime      \* bound on the clock

ASSUME WebSearchAssumption == /\ PrivateKeys \subseteq Keys
                              /\ Ttl \in Nat \ {0} /\ Timeout \in Nat \ {0}
                              /\ MaxEntries \in Nat \ {0} /\ MaxTime \in Nat

VARIABLES cache,     \* key -> [seen, at]: the answer and when it was stored
          searching, \* searcher -> its request in flight, or NoSearch
          answer,    \* the last answer given to a turn
          clock
searchVars == <<cache, searching, answer, clock>>

NoSearch == [key |-> "none", fresh |-> FALSE, began |-> 0]
NoAnswer == [kind |-> "none", fresh |-> FALSE, asked |-> 0, at |-> 0, seen |-> 0]
Answer(kind, fresh, asked, seen) ==
    [kind |-> kind, fresh |-> fresh, asked |-> asked, at |-> clock, seen |-> seen]

SearchInit ==
    /\ cache = [k \in {} |-> 0]
    /\ searching = [s \in Searchers |-> NoSearch]
    /\ answer = NoAnswer
    /\ clock = 0

Expired(e) == clock - e.at > Ttl

\* Variant: an entry is served however old it is.
LookupNoTtl(k) == k \in DOMAIN cache

CacheLookup(k) == k \in DOMAIN cache /\ ~Expired(cache[k])

\* A private query is refused before the cache and the network; a usable
\* entry answers; anything else starts a request.  An expired entry is
\* removed by the lookup that finds it.
Search(s, k, fresh) ==
    /\ searching[s] = NoSearch
    /\ IF k \in PrivateKeys
       THEN /\ answer' = Answer("blocked", fresh, clock, clock)
            /\ UNCHANGED <<cache, searching>>
       ELSE IF ~fresh /\ CacheLookup(k)
       THEN /\ answer' = Answer("cached", fresh, clock, cache[k].seen)
            /\ UNCHANGED <<cache, searching>>
       ELSE /\ searching' = [searching EXCEPT ![s] = [key |-> k, fresh |-> fresh, began |-> clock]]
            /\ cache' = IF ~fresh /\ k \in DOMAIN cache
                        THEN [x \in DOMAIN cache \ {k} |-> cache[x]] ELSE cache
            /\ UNCHANGED answer
    /\ UNCHANGED clock

Oldest == CHOOSE k \in DOMAIN cache : \A x \in DOMAIN cache : cache[k].at <= cache[x].at

\* The entries that stay when k is stored: at the limit a new key evicts the
\* oldest entry.
Kept(k) == IF Cardinality(DOMAIN cache) >= MaxEntries /\ k \notin DOMAIN cache
           THEN DOMAIN cache \ {Oldest} ELSE DOMAIN cache

CacheStore(k, seen) ==
    cache' = [x \in Kept(k) \cup {k} |->
                IF x = k THEN [seen |-> seen, at |-> clock] ELSE cache[x]]

\* The provider looked at some moment of the request.
Arrive(s) ==
    LET q == searching[s]
    IN  /\ q # NoSearch
        /\ \E seen \in q.began..clock :
              /\ answer' = Answer("fetched", q.fresh, q.began, seen)
              /\ CacheStore(q.key, seen)
        /\ searching' = [searching EXCEPT ![s] = NoSearch]
        /\ UNCHANGED clock

\* A refused connection, an error status, an unparsable body or the timeout.
SearchFails(s) ==
    /\ searching[s] # NoSearch
    /\ answer' = Answer("error", searching[s].fresh, searching[s].began, clock)
    /\ searching' = [searching EXCEPT ![s] = NoSearch]
    /\ UNCHANGED <<cache, clock>>

\* No request outlives the client's timeout.
SearchTick ==
    /\ clock < MaxTime
    /\ \A s \in Searchers : searching[s] # NoSearch => clock - searching[s].began < Timeout
    /\ clock' = clock + 1
    /\ UNCHANGED <<cache, searching, answer>>

SearchNext ==
    \/ \E s \in Searchers, k \in Keys, fresh \in BOOLEAN : Search(s, k, fresh)
    \/ \E s \in Searchers : Arrive(s)
    \/ \E s \in Searchers : SearchFails(s)
    \/ SearchTick

SearchSpec == SearchInit /\ [][SearchNext]_searchVars

-----------------------------------------------------------------------------
\* An answer that was asked for fresh was looked up after the question; any
\* other is at most a time-to-live plus one request old, although a slow
\* request may store over a newer answer of the same key; and the cache keeps
\* within its limit (search_response_with_options, cache_store).
SearchAnswersFresh ==
    /\ answer.fresh => answer.seen >= answer.asked
    /\ answer.at - answer.seen <= Ttl + Timeout
    /\ Cardinality(DOMAIN cache) <= MaxEntries
=============================================================================
