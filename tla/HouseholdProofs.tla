--------------------------- MODULE HouseholdProofs ---------------------------
(***************************************************************************)
(* Parts of a turn that work on shared state of their own, for any number  *)
(* of turns, files and keys: native skills, whose libraries are counted by *)
(* the handles on them, the web search with its cache, the voice loop with *)
(* its listener, and the durable export of the memories.                   *)
(***************************************************************************)
EXTENDS Skills, WebSearch, MemoryExport, VoiceLoop, FiniteSetTheorems, TLAPS

-----------------------------------------------------------------------------
(* Skills *)

Thread == [id : Nat, by : Callers, file : SkillFiles, abandoned : BOOLEAN]
Users(f) == {t \in threads : t.file = f}
Registered(f) == \E n \in DOMAIN loaded : loaded[n].file = f

SkillsTypeOK ==
  /\ unread \subseteq SkillFiles /\ ran \subseteq SkillFiles
  /\ loaded = [n \in DOMAIN loaded |-> loaded[n]]
  /\ refs \in [SkillFiles -> Nat]
  /\ threads \subseteq Thread /\ IsFiniteSet(threads)
  /\ issued \in Nat

(* A registered skill came from a file that was read, run and accepted, is *)
(* registered under the file's own name and has not used up its faults.    *)
RegisteredFromFile ==
  \A n \in DOMAIN loaded :
    /\ loaded[n] \in [file : ran \ unread, faults : 0..(FaultLimit - 1)]
    /\ SkillName[loaded[n].file] = n
    /\ EnforceSkillPolicy(loaded[n].file)

(* Threads are told apart by their ids, and run in files that were read. *)
ThreadsDistinct ==
  /\ \A t \in threads : t.id < issued /\ t.file \notin unread
  /\ \A t, u \in threads : t.id = u.id => t = u

(* The count of a library: one handle for each thread in it, and one for   *)
(* the registry.                                                           *)
HandlesCounted ==
  \A f \in SkillFiles : refs[f] = Cardinality(Users(f)) + (IF Registered(f) THEN 1 ELSE 0)

SignedOnly == RequireSignature => ran \subseteq Signed

SkillsInv == SkillsTypeOK /\ RegisteredFromFile /\ ThreadsDistinct /\ HandlesCounted /\ SignedOnly

LEMMA UsersCounted ==
  ASSUME SkillsTypeOK, NEW f \in SkillFiles
  PROVE  IsFiniteSet(Users(f)) /\ Cardinality(Users(f)) \in Nat
<1>1. Users(f) \in SUBSET threads
  BY DEF Users
<1> QED
  BY <1>1, FS_Subset, FS_CardinalityType DEF SkillsTypeOK

LEMMA LoadKeepsSkillsInv ==
  ASSUME SkillsInv, NEW f \in SkillFiles, LoadSkill(f)
  PROVE  SkillsInv'
<1> USE SkillsAssumption
<1>1. CASE MayOpen(f) /\ f \notin Unusable /\ SkillName[f] \notin DOMAIN loaded /\ EnforceSkillPolicy(f)
  <2> DEFINE name == SkillName[f]
  <2>1. /\ unread' = unread \ {f} /\ ran' = ran \cup {f} /\ threads' = threads /\ issued' = issued
        /\ loaded' = [n \in DOMAIN loaded \cup {name} |->
                        IF n = name THEN [file |-> f, faults |-> 0] ELSE loaded[n]]
        /\ refs' = [refs EXCEPT ![f] = 1] /\ f \in unread
    BY <1>1 DEF LoadSkill
  <2>2. SkillsTypeOK'
    BY <2>1 DEF SkillsInv, SkillsTypeOK
  <2>3. RegisteredFromFile'
    BY <2>1, <1>1 DEF SkillsInv, RegisteredFromFile, FaultLimit, EnforceSkillPolicy
  <2>4. ThreadsDistinct'
    BY <2>1 DEF SkillsInv, ThreadsDistinct
  <2>5. \A g \in SkillFiles : Users(g)' = Users(g)
    BY <2>1 DEF Users
  <2>6. Users(f) = {}
    BY <2>1 DEF Users, SkillsInv, ThreadsDistinct
  <2>7. Registered(f)'
    BY <2>1 DEF Registered
  <2>8. \A g \in SkillFiles \ {f} : Registered(g)' <=> Registered(g)
    BY <2>1, <1>1 DEF Registered
  <2>9. HandlesCounted'
    <3>1. refs'[f] = 1 /\ \A g \in SkillFiles \ {f} : refs'[g] = refs[g]
      BY <2>1 DEF SkillsInv, SkillsTypeOK
    <3>2. Cardinality(Users(f)') = 0
      BY <2>5, <2>6, FS_EmptySet
    <3> QED
      BY <3>1, <3>2, <2>5, <2>7, <2>8 DEF HandlesCounted, SkillsInv
  <2> QED
    BY <2>1, <2>2, <2>3, <2>4, <2>9, <1>1 DEF SkillsInv, SignedOnly, MayOpen
<1>2. CASE ~(MayOpen(f) /\ f \notin Unusable /\ SkillName[f] \notin DOMAIN loaded /\ EnforceSkillPolicy(f))
  <2>1. /\ unread' = unread \ {f} /\ threads' = threads /\ issued' = issued
        /\ ran' = IF MayOpen(f) THEN ran \cup {f} ELSE ran
        /\ loaded' = loaded /\ refs' = refs
    BY <1>2 DEF LoadSkill
  <2>2. SkillsTypeOK' /\ ThreadsDistinct'
    BY <2>1 DEF SkillsInv, SkillsTypeOK, ThreadsDistinct
  <2>3. RegisteredFromFile'
    BY <2>1 DEF SkillsInv, RegisteredFromFile, EnforceSkillPolicy
  <2>4. HandlesCounted'
    BY <2>1 DEF SkillsInv, HandlesCounted, Users, Registered
  <2> QED
    BY <2>1, <2>2, <2>3, <2>4 DEF SkillsInv, SignedOnly, MayOpen
<1> QED
  BY <1>1, <1>2

LEMMA ExecKeepsSkillsInv ==
  ASSUME SkillsInv, NEW c \in Callers, NEW n \in DOMAIN loaded, ExecSkill(c, n)
  PROVE  SkillsInv'
<1>1. loaded[n].file \in SkillFiles /\ loaded[n].file \notin unread
  BY DEF SkillsInv, RegisteredFromFile, SkillsTypeOK
<1>2. PICK f \in SkillFiles : f = loaded[n].file
  BY <1>1
<1>3. PICK t : t = [id |-> issued, by |-> c, file |-> f, abandoned |-> FALSE]
  OBVIOUS
<1>4. /\ refs' = [refs EXCEPT ![f] = @ + 1] /\ threads' = threads \cup {t}
      /\ issued' = issued + 1 /\ UNCHANGED <<unread, ran, loaded>>
  BY <1>2, <1>3 DEF ExecSkill, Prepare
<1>5. t \in Thread /\ t \notin threads /\ t.id = issued /\ t.file = f
  BY <1>3 DEF Thread, SkillsInv, SkillsTypeOK, ThreadsDistinct
<1>6. SkillsTypeOK'
  <2>1. IsFiniteSet(threads')
    BY <1>4, FS_AddElement DEF SkillsInv, SkillsTypeOK
  <2>2. refs' \in [SkillFiles -> Nat]
    BY <1>4 DEF SkillsInv, SkillsTypeOK
  <2> QED
    BY <2>1, <2>2, <1>4, <1>5 DEF SkillsInv, SkillsTypeOK
<1>7. RegisteredFromFile' /\ SignedOnly'
  BY <1>4 DEF SkillsInv, RegisteredFromFile, SignedOnly, EnforceSkillPolicy
<1>8. ThreadsDistinct'
  <2>1. \A u \in threads : u.id \in Nat /\ u.id < issued /\ u.file \notin unread
    BY DEF SkillsInv, SkillsTypeOK, ThreadsDistinct, Thread
  <2>2. issued \in Nat
    BY DEF SkillsInv, SkillsTypeOK
  <2>3. \A u \in threads' : u.id < issued' /\ u.file \notin unread'
    BY <2>1, <2>2, <1>1, <1>2, <1>4, <1>5
  <2>4. \A u, v \in threads' : u.id = v.id => u = v
    BY <2>1, <2>2, <1>4, <1>5 DEF SkillsInv, ThreadsDistinct
  <2> QED
    BY <2>3, <2>4 DEF ThreadsDistinct
<1>9. HandlesCounted'
  <2>1. \A g \in SkillFiles : Registered(g)' <=> Registered(g)
    BY <1>4 DEF Registered
  <2>2. Users(f)' = Users(f) \cup {t} /\ t \notin Users(f)
    BY <1>4, <1>5 DEF Users
  <2>3. \A g \in SkillFiles \ {f} : Users(g)' = Users(g)
    BY <1>4, <1>5 DEF Users
  <2>4. Cardinality(Users(f)') = Cardinality(Users(f)) + 1 /\ Cardinality(Users(f)) \in Nat
    BY <2>2, UsersCounted, FS_AddElement DEF SkillsInv
  <2>5. refs'[f] = refs[f] + 1 /\ \A g \in SkillFiles \ {f} : refs'[g] = refs[g]
    BY <1>4 DEF SkillsInv, SkillsTypeOK
  <2> QED
    BY <2>1, <2>3, <2>4, <2>5 DEF SkillsInv, HandlesCounted
<1> QED
  BY <1>6, <1>7, <1>8, <1>9 DEF SkillsInv

LEMMA EndKeepsSkillsInv ==
  ASSUME SkillsInv, NEW t \in threads, ThreadEnds(t)
  PROVE  SkillsInv'
<1> DEFINE f == t.file
<1>1. /\ refs' = [refs EXCEPT ![f] = @ - 1] /\ threads' = threads \ {t}
      /\ UNCHANGED <<unread, ran, loaded, issued>>
  BY DEF ThreadEnds, Drop
<1>2. f \in SkillFiles
  BY DEF SkillsInv, SkillsTypeOK, Thread
<1>3. RegisteredFromFile' /\ SignedOnly' /\ ThreadsDistinct'
  BY <1>1 DEF SkillsInv, RegisteredFromFile, SignedOnly, EnforceSkillPolicy, ThreadsDistinct
<1>4. \A g \in SkillFiles : Registered(g)' <=> Registered(g)
  BY <1>1 DEF Registered
<1>5. Users(f)' = Users(f) \ {t} /\ t \in Users(f)
  BY <1>1 DEF Users
<1>6. \A g \in SkillFiles \ {f} : Users(g)' = Users(g)
  BY <1>1 DEF Users
<1>7. /\ Cardinality(Users(f)') = Cardinality(Users(f)) - 1
      /\ Cardinality(Users(f)) \in Nat /\ Cardinality(Users(f)') \in Nat
  <2>1. IsFiniteSet(Users(f)) /\ Cardinality(Users(f)) \in Nat
    BY <1>2, UsersCounted DEF SkillsInv
  <2> QED
    BY <2>1, <1>5, FS_RemoveElement, FS_CardinalityType
<1>8. refs'[f] = refs[f] - 1 /\ \A g \in SkillFiles \ {f} : refs'[g] = refs[g]
  BY <1>1, <1>2 DEF SkillsInv, SkillsTypeOK
<1>9. HandlesCounted'
  BY <1>2, <1>4, <1>6, <1>7, <1>8 DEF SkillsInv, HandlesCounted
<1>10. SkillsTypeOK'
  <2>1. refs[f] - 1 \in Nat
    BY <1>2, <1>7, <1>8 DEF SkillsInv, HandlesCounted
  <2>2. refs' \in [SkillFiles -> Nat]
    BY <2>1, <1>1, <1>2 DEF SkillsInv, SkillsTypeOK
  <2>3. IsFiniteSet(threads')
    BY <1>1, FS_RemoveElement DEF SkillsInv, SkillsTypeOK
  <2> QED
    BY <2>2, <2>3, <1>1 DEF SkillsInv, SkillsTypeOK
<1> QED
  BY <1>3, <1>9, <1>10 DEF SkillsInv

LEMMA TimeoutKeepsSkillsInv ==
  ASSUME SkillsInv, NEW t \in threads, SkillTimeout(t)
  PROVE  SkillsInv'
<1> DEFINE f == t.file
           u == [t EXCEPT !.abandoned = TRUE]
<1>1. /\ threads' = (threads \ {t}) \cup {u} /\ ~t.abandoned
      /\ UNCHANGED <<unread, ran, loaded, refs, issued>>
  BY DEF SkillTimeout
<1>2. t \in Thread /\ u \in Thread /\ u.id = t.id /\ u.file = f /\ u # t
  BY <1>1 DEF SkillsInv, SkillsTypeOK, Thread
<1>3. u \notin threads
  BY <1>2 DEF SkillsInv, ThreadsDistinct
<1>4. RegisteredFromFile' /\ SignedOnly'
  BY <1>1 DEF SkillsInv, RegisteredFromFile, SignedOnly, EnforceSkillPolicy
<1>5. ThreadsDistinct'
  BY <1>1, <1>2 DEF SkillsInv, ThreadsDistinct
<1>6. SkillsTypeOK'
  <2>1. IsFiniteSet(threads')
    BY <1>1, FS_RemoveElement, FS_AddElement DEF SkillsInv, SkillsTypeOK
  <2> QED
    BY <2>1, <1>1, <1>2 DEF SkillsInv, SkillsTypeOK
<1>7. \A g \in SkillFiles : Registered(g)' <=> Registered(g)
  BY <1>1 DEF Registered
<1>8. Users(f)' = (Users(f) \ {t}) \cup {u} /\ t \in Users(f) /\ u \notin Users(f)
  BY <1>1, <1>2, <1>3 DEF Users
<1>9. \A g \in SkillFiles \ {f} : Users(g)' = Users(g)
  BY <1>1, <1>2 DEF Users
<1>10. Cardinality(Users(f)') = Cardinality(Users(f))
  <2>1. f \in SkillFiles
    BY <1>2 DEF Thread
  <2>2. IsFiniteSet(Users(f)) /\ Cardinality(Users(f)) \in Nat
    BY <2>1, UsersCounted DEF SkillsInv
  <2>3. IsFiniteSet(Users(f) \ {t}) /\ Cardinality(Users(f) \ {t}) = Cardinality(Users(f)) - 1
    BY <2>2, <1>8, FS_RemoveElement
  <2>4. Cardinality((Users(f) \ {t}) \cup {u}) = Cardinality(Users(f) \ {t}) + 1
    BY <2>3, <1>8, FS_AddElement
  <2> QED
    BY <2>2, <2>3, <2>4, <1>8
<1>11. HandlesCounted'
  BY <1>1, <1>7, <1>9, <1>10 DEF SkillsInv, HandlesCounted
<1> QED
  BY <1>4, <1>5, <1>6, <1>11 DEF SkillsInv

LEMMA RecordKeepsSkillsInv ==
  ASSUME SkillsInv, NEW c \in Callers, RecordOutcome(c)
  PROVE  SkillsInv'
<1> DEFINE n == waiting[c].name
           f == loaded[n].file
           faults == IF waiting[c].faulted THEN loaded[n].faults + 1 ELSE loaded[n].faults
<1>1. UNCHANGED <<unread, ran, threads, issued>>
  BY DEF RecordOutcome
<1>2. CASE n \notin DOMAIN loaded
  <2>1. loaded' = loaded /\ refs' = refs
    BY <1>2 DEF RecordOutcome
  <2> QED
    BY <1>1, <2>1 DEF SkillsInv, SkillsTypeOK, RegisteredFromFile, EnforceSkillPolicy, ThreadsDistinct,
                      HandlesCounted, Users, Registered, SignedOnly
<1>3. CASE n \in DOMAIN loaded /\ faults < FaultLimit
  <2>1. loaded[n] \in [file : ran \ unread, faults : 0..(FaultLimit - 1)] /\ faults \in Nat
    BY <1>3 DEF SkillsInv, RegisteredFromFile, FaultLimit
  <2>2. loaded' = [loaded EXCEPT ![n].faults = faults] /\ refs' = refs
    BY <1>3, <2>1 DEF RecordOutcome, FaultLimit
  <2>3. DOMAIN loaded' = DOMAIN loaded /\ \A m \in DOMAIN loaded : m # n => loaded'[m] = loaded[m]
    BY <2>2 DEF SkillsInv, SkillsTypeOK
  <2>4. loaded'[n] = [loaded[n] EXCEPT !.faults = faults]
    BY <2>2, <1>3 DEF SkillsInv, SkillsTypeOK
  <2>5. loaded'[n] \in [file : ran \ unread, faults : 0..(FaultLimit - 1)] /\ loaded'[n].file = f
    BY <2>4, <2>1, <1>3 DEF FaultLimit
  <2>6. RegisteredFromFile'
    BY <1>1, <2>3, <2>5 DEF SkillsInv, RegisteredFromFile, EnforceSkillPolicy
  <2>7. \A g \in SkillFiles : Registered(g)' <=> Registered(g)
    BY <2>3, <2>5, <1>3 DEF Registered
  <2>8. SkillsTypeOK'
    BY <1>1, <2>2 DEF SkillsInv, SkillsTypeOK
  <2>9. HandlesCounted'
    BY <1>1, <2>2, <2>7 DEF SkillsInv, HandlesCounted, Users
  <2> QED
    BY <1>1, <2>6, <2>8, <2>9 DEF SkillsInv, ThreadsDistinct, SignedOnly
<1>4. CASE n \in DOMAIN loaded /\ ~(faults < FaultLimit)
  <2>1. loaded[n] \in [file : ran \ unread, faults : 0..(FaultLimit - 1)] /\ faults \in Nat
    BY <1>4 DEF SkillsInv, RegisteredFromFile, FaultLimit
  <2>2. loaded' = [x \in DOMAIN loaded \ {n} |-> loaded[x]] /\ refs' = [refs EXCEPT ![f] = @ - 1]
    BY <1>4, <2>1 DEF RecordOutcome, FaultLimit, Without, Drop
  <2>3. PICK g \in SkillFiles : g = f
    BY <2>1 DEF SkillsInv, SkillsTypeOK
  <2>4. RegisteredFromFile'
    BY <1>1, <2>2 DEF SkillsInv, RegisteredFromFile, EnforceSkillPolicy
  <2>5. Registered(g) /\ ~Registered(g)'
    BY <2>2, <2>3, <1>4 DEF Registered, SkillsInv, RegisteredFromFile
  <2>6. \A h \in SkillFiles \ {g} : Registered(h)' <=> Registered(h)
    BY <2>2, <2>3 DEF Registered
  <2>7. \A h \in SkillFiles : Users(h)' = Users(h)
    BY <1>1 DEF Users
  <2>8. Cardinality(Users(g)) \in Nat /\ refs[g] = Cardinality(Users(g)) + 1
    BY <2>3, <2>5, UsersCounted DEF SkillsInv, HandlesCounted
  <2>9. refs'[g] = Cardinality(Users(g)) /\ \A h \in SkillFiles \ {g} : refs'[h] = refs[h]
    BY <2>2, <2>3, <2>8 DEF SkillsInv, SkillsTypeOK
  <2>10. SkillsTypeOK'
    <3>1. refs' \in [SkillFiles -> Nat]
      BY <2>2, <2>3, <2>8 DEF SkillsInv, SkillsTypeOK
    <3> QED
      BY <3>1, <1>1, <2>2 DEF SkillsInv, SkillsTypeOK
  <2>11. HandlesCounted'
    BY <2>3, <2>5, <2>6, <2>7, <2>8, <2>9 DEF SkillsInv, HandlesCounted
  <2> QED
    BY <1>1, <2>4, <2>10, <2>11 DEF SkillsInv, ThreadsDistinct, SignedOnly
<1> QED
  BY <1>2, <1>3, <1>4

(* What the counts and the registry say together is what SkillsSound asks. *)
LEMMA SkillsInvSound ==
  ASSUME SkillsInv
  PROVE  SkillsSound
<1>1. SkillCodeMapped
  <2> SUFFICES ASSUME NEW f \in SkillFiles
               PROVE  refs[f] > 0 <=> (\E t \in threads : t.file = f) \/ Registered(f)
    BY DEF SkillCodeMapped, Registered
  <2>1. IsFiniteSet(Users(f)) /\ Cardinality(Users(f)) \in Nat
    BY UsersCounted DEF SkillsInv
  <2>2. Cardinality(Users(f)) = 0 <=> ~(\E t \in threads : t.file = f)
    BY <2>1, FS_EmptySet DEF Users
  <2> QED
    BY <2>1, <2>2 DEF SkillsInv, HandlesCounted
<1>2. OnlyVerifiedCodeRuns
  BY DEF OnlyVerifiedCodeRuns, SkillsInv, SignedOnly, RegisteredFromFile, FaultLimit
<1> QED
  BY <1>1, <1>2 DEF SkillsSound

(***************************************************************************)
(* A skill's code runs only when it was verified and only while its        *)
(* library is mapped, whatever the files, the callers and the number of    *)
(* abandoned calls (load_skill, prepare, record_outcome).                  *)
(***************************************************************************)
THEOREM SkillsAlwaysSound == SkillsSpec => []SkillsSound
<1>1. SkillsInit => SkillsInv
  <2> SUFFICES ASSUME SkillsInit
               PROVE  SkillsInv
    OBVIOUS
  <2>1. SkillsTypeOK /\ RegisteredFromFile /\ ThreadsDistinct /\ SignedOnly
    BY FS_EmptySet DEF SkillsInit, SkillsTypeOK, RegisteredFromFile, ThreadsDistinct, SignedOnly
  <2>2. \A f \in SkillFiles : Users(f) = {} /\ ~Registered(f)
    BY DEF SkillsInit, Users, Registered
  <2> QED
    BY <2>1, <2>2, FS_EmptySet DEF SkillsInit, SkillsInv, HandlesCounted
<1>2. SkillsInv /\ [SkillsNext]_skillVars => SkillsInv'
  <2> SUFFICES ASSUME SkillsInv, [SkillsNext]_skillVars
               PROVE  SkillsInv'
    OBVIOUS
  <2>1. CASE UNCHANGED skillVars
    BY <2>1 DEF skillVars, SkillsInv, SkillsTypeOK, RegisteredFromFile, EnforceSkillPolicy,
                ThreadsDistinct, HandlesCounted, Users, Registered, SignedOnly
  <2> QED
    BY <2>1, LoadKeepsSkillsInv, ExecKeepsSkillsInv, EndKeepsSkillsInv, TimeoutKeepsSkillsInv,
       RecordKeepsSkillsInv DEF SkillsNext
<1> QED
  BY <1>1, <1>2, SkillsInvSound, PTL DEF SkillsSpec

-----------------------------------------------------------------------------
(* Web search *)

AnswerKind == {"none", "blocked", "cached", "fetched", "error"}

SearchTypeOK ==
  /\ cache = [k \in DOMAIN cache |-> cache[k]] /\ IsFiniteSet(DOMAIN cache)
  /\ \A k \in DOMAIN cache : cache[k] \in [seen : Nat, at : Nat]
  /\ searching \in [Searchers -> [key : Keys \cup {"none"}, fresh : BOOLEAN, began : Nat]]
  /\ answer \in [kind : AnswerKind, fresh : BOOLEAN, asked : Nat, at : Nat, seen : Nat]
  /\ clock \in Nat

(* What is stored was looked up at most one request before it was stored. *)
EntriesRecent ==
  \A k \in DOMAIN cache : /\ cache[k].seen <= cache[k].at /\ cache[k].at <= clock
                          /\ cache[k].at <= cache[k].seen + Timeout

(* A request in flight is not older than the client's timeout. *)
RequestsRecent ==
  \A s \in Searchers : searching[s] # NoSearch =>
     searching[s].began <= clock /\ clock <= searching[s].began + Timeout

SearchInv == SearchTypeOK /\ EntriesRecent /\ RequestsRecent /\ SearchAnswersFresh

LEMMA LeastOfNaturals ==
  ASSUME NEW T, T \subseteq Nat, T # {}
  PROVE  \E x \in T : \A y \in T : x <= y
<1>1. \E x \in T : \A y \in T : ~(<<y, x>> \in OpToRel(<, Nat))
  BY WFMin, NatLessThanWellFounded, Zenon
<1>2. \E x \in T : \A y \in T : ~(y < x)
  BY <1>1 DEF OpToRel
<1> QED
  BY <1>2

(* The entry that makes room is one of the cache. *)
LEMMA OldestIsAnEntry ==
  ASSUME SearchTypeOK, DOMAIN cache # {}
  PROVE  Oldest \in DOMAIN cache
<1> DEFINE T == {cache[k].at : k \in DOMAIN cache}
<1>1. T \subseteq Nat /\ T # {}
  BY DEF SearchTypeOK
<1>2. PICK x \in T : \A y \in T : x <= y
  BY <1>1, LeastOfNaturals
<1>3. \E k \in DOMAIN cache : \A y \in DOMAIN cache : cache[k].at <= cache[y].at
  BY <1>2
<1> QED
  BY <1>3 DEF Oldest

LEMMA SearchKeepsSearchInv ==
  ASSUME SearchInv, NEW s \in Searchers, NEW k \in Keys, NEW fresh \in BOOLEAN, Search(s, k, fresh)
  PROVE  SearchInv'
<1> USE WebSearchAssumption
<1>1. clock' = clock
  BY DEF Search
<1>2. CASE k \in PrivateKeys
  <2>1. answer' = [kind |-> "blocked", fresh |-> fresh, asked |-> clock, at |-> clock, seen |-> clock]
        /\ UNCHANGED <<cache, searching>>
    BY <1>2 DEF Search, Answer
  <2> QED
    BY <1>1, <2>1 DEF SearchInv, SearchTypeOK, AnswerKind, EntriesRecent, RequestsRecent, SearchAnswersFresh
<1>3. CASE k \notin PrivateKeys /\ ~fresh /\ CacheLookup(k)
  <2>1. answer' = [kind |-> "cached", fresh |-> fresh, asked |-> clock, at |-> clock, seen |-> cache[k].seen]
        /\ UNCHANGED <<cache, searching>>
    BY <1>3 DEF Search, Answer
  <2>2. /\ k \in DOMAIN cache /\ clock - cache[k].at <= Ttl /\ cache[k] \in [seen : Nat, at : Nat]
        /\ cache[k].at <= cache[k].seen + Timeout /\ clock \in Nat
    BY <1>3 DEF CacheLookup, Expired, SearchInv, SearchTypeOK, EntriesRecent
  <2>3. clock - cache[k].seen <= Ttl + Timeout
    BY <2>2
  <2> QED
    BY <1>1, <1>3, <2>1, <2>2, <2>3
    DEF SearchInv, SearchTypeOK, AnswerKind, EntriesRecent, RequestsRecent, SearchAnswersFresh
<1>4. CASE k \notin PrivateKeys /\ ~(~fresh /\ CacheLookup(k))
  <2>1. /\ searching' = [searching EXCEPT ![s] = [key |-> k, fresh |-> fresh, began |-> clock]]
        /\ cache' = IF ~fresh /\ k \in DOMAIN cache THEN [x \in DOMAIN cache \ {k} |-> cache[x]] ELSE cache
        /\ answer' = answer
    BY <1>4 DEF Search
  <2>2. IsFiniteSet(DOMAIN cache \ {k}) /\ Cardinality(DOMAIN cache \ {k}) <= Cardinality(DOMAIN cache)
        /\ Cardinality(DOMAIN cache \ {k}) \in Nat /\ Cardinality(DOMAIN cache) \in Nat
    BY FS_Subset, FS_CardinalityType DEF SearchInv, SearchTypeOK
  <2>3. SearchTypeOK'
    BY <1>1, <2>1, <2>2 DEF SearchInv, SearchTypeOK
  <2>4. EntriesRecent'
    BY <1>1, <2>1 DEF SearchInv, EntriesRecent
  <2>5. RequestsRecent'
    BY <1>1, <2>1 DEF SearchInv, SearchTypeOK, RequestsRecent
  <2>6. Cardinality(DOMAIN cache') <= MaxEntries
    BY <2>1, <2>2 DEF SearchInv, SearchAnswersFresh
  <2> QED
    BY <2>1, <2>3, <2>4, <2>5, <2>6 DEF SearchInv, SearchAnswersFresh
<1> QED
  BY <1>2, <1>3, <1>4

LEMMA StoreKeepsCache ==
  ASSUME SearchInv, NEW k, NEW seen \in Nat, CacheStore(k, seen),
         seen <= clock, clock <= seen + Timeout, clock' = clock
  PROVE  /\ cache' = [x \in DOMAIN cache' |-> cache'[x]] /\ IsFiniteSet(DOMAIN cache')
         /\ \A x \in DOMAIN cache' : cache'[x] \in [seen : Nat, at : Nat]
         /\ EntriesRecent' /\ Cardinality(DOMAIN cache') <= MaxEntries
<1> USE WebSearchAssumption
<1>1. Kept(k) \subseteq DOMAIN cache
  BY DEF Kept
<1>2. cache' = [x \in Kept(k) \cup {k} |-> IF x = k THEN [seen |-> seen, at |-> clock] ELSE cache[x]]
  BY DEF CacheStore
<1>3. \A x \in DOMAIN cache' : \/ cache'[x] = [seen |-> seen, at |-> clock]
                               \/ x \in DOMAIN cache /\ cache'[x] = cache[x]
  BY <1>1, <1>2
<1>4. \A x \in DOMAIN cache' : cache'[x] \in [seen : Nat, at : Nat]
  BY <1>3 DEF SearchInv, SearchTypeOK
<1>5. EntriesRecent'
  BY <1>3 DEF SearchInv, SearchTypeOK, EntriesRecent
<1>6. IsFiniteSet(DOMAIN cache) /\ Cardinality(DOMAIN cache) \in Nat /\ Cardinality(DOMAIN cache) <= MaxEntries
  BY FS_CardinalityType DEF SearchInv, SearchTypeOK, SearchAnswersFresh
<1>7. DOMAIN cache' = Kept(k) \cup {k}
  BY <1>2
<1>8. CASE Cardinality(DOMAIN cache) >= MaxEntries /\ k \notin DOMAIN cache
  <2>1. DOMAIN cache # {}
    BY <1>8, <1>6, FS_EmptySet
  <2>2. Oldest \in DOMAIN cache
    BY <2>1, OldestIsAnEntry DEF SearchInv
  <2>3. IsFiniteSet(Kept(k)) /\ Cardinality(Kept(k)) = Cardinality(DOMAIN cache) - 1
    BY <1>8, <1>6, <2>2, FS_RemoveElement DEF Kept
  <2>4. IsFiniteSet(Kept(k) \cup {k}) /\ Cardinality(Kept(k) \cup {k}) = Cardinality(DOMAIN cache)
    BY <1>1, <1>8, <1>6, <2>3, FS_AddElement
  <2> QED
    BY <1>2, <1>4, <1>5, <1>6, <1>7, <2>4
<1>9. CASE ~(Cardinality(DOMAIN cache) >= MaxEntries /\ k \notin DOMAIN cache)
  <2>1. Kept(k) = DOMAIN cache
    BY <1>9 DEF Kept
  <2>2. IsFiniteSet(Kept(k) \cup {k}) /\ Cardinality(Kept(k) \cup {k}) <= MaxEntries
    <3>1. CASE k \in DOMAIN cache
      <4>1. Kept(k) \cup {k} = DOMAIN cache
        BY <2>1, <3>1
      <4> QED
        BY <1>6, <4>1
    <3>2. CASE k \notin DOMAIN cache
      <4>1. Cardinality(DOMAIN cache) + 1 <= MaxEntries
        BY <1>6, <1>9, <3>2
      <4>2. IsFiniteSet(DOMAIN cache \cup {k}) /\ Cardinality(DOMAIN cache \cup {k}) = Cardinality(DOMAIN cache) + 1
        BY <1>6, <3>2, FS_AddElement
      <4> QED
        BY <2>1, <4>1, <4>2
    <3> QED
      BY <3>1, <3>2
  <2> QED
    BY <1>2, <1>4, <1>5, <1>7, <2>2
<1> QED
  BY <1>8, <1>9

LEMMA ArriveKeepsSearchInv ==
  ASSUME SearchInv, NEW s \in Searchers, Arrive(s)
  PROVE  SearchInv'
<1> USE WebSearchAssumption
<1>1. clock' = clock /\ searching[s] # NoSearch /\ searching' = [searching EXCEPT ![s] = NoSearch]
  BY DEF Arrive
<1>2. PICK seen \in searching[s].began..clock :
         /\ answer' = [kind |-> "fetched", fresh |-> searching[s].fresh, asked |-> searching[s].began,
                       at |-> clock, seen |-> seen]
         /\ CacheStore(searching[s].key, seen)
  BY DEF Arrive, Answer
<1>3. /\ searching[s] \in [key : Keys \cup {"none"}, fresh : BOOLEAN, began : Nat] /\ clock \in Nat
      /\ searching[s].began <= clock /\ clock <= searching[s].began + Timeout
  BY <1>1 DEF SearchInv, SearchTypeOK, RequestsRecent
<1>4. seen \in Nat /\ searching[s].began <= seen /\ seen <= clock /\ clock <= seen + Timeout
  BY <1>2, <1>3
<1>5. /\ cache' = [x \in DOMAIN cache' |-> cache'[x]] /\ IsFiniteSet(DOMAIN cache')
      /\ \A x \in DOMAIN cache' : cache'[x] \in [seen : Nat, at : Nat]
      /\ EntriesRecent' /\ Cardinality(DOMAIN cache') <= MaxEntries
  BY <1>1, <1>2, <1>4, StoreKeepsCache
<1>6. searching' \in [Searchers -> [key : Keys \cup {"none"}, fresh : BOOLEAN, began : Nat]]
  BY <1>1 DEF SearchInv, SearchTypeOK, NoSearch
<1>7. RequestsRecent'
  BY <1>1 DEF SearchInv, SearchTypeOK, RequestsRecent
<1>8. answer' \in [kind : AnswerKind, fresh : BOOLEAN, asked : Nat, at : Nat, seen : Nat]
  BY <1>2, <1>3, <1>4 DEF AnswerKind
<1>9. clock - seen <= Ttl + Timeout
  BY <1>3, <1>4
<1>10. SearchAnswersFresh'
  BY <1>2, <1>4, <1>5, <1>9 DEF SearchAnswersFresh
<1> QED
  BY <1>1, <1>5, <1>6, <1>7, <1>8, <1>10 DEF SearchInv, SearchTypeOK

LEMMA FailKeepsSearchInv ==
  ASSUME SearchInv, NEW s \in Searchers, SearchFails(s)
  PROVE  SearchInv'
<1> USE WebSearchAssumption
<1>1. /\ clock' = clock /\ cache' = cache /\ searching[s] # NoSearch
      /\ searching' = [searching EXCEPT ![s] = NoSearch]
      /\ answer' = [kind |-> "error", fresh |-> searching[s].fresh, asked |-> searching[s].began,
                    at |-> clock, seen |-> clock]
  BY DEF SearchFails, Answer
<1>2. /\ searching[s] \in [key : Keys \cup {"none"}, fresh : BOOLEAN, began : Nat] /\ clock \in Nat
      /\ searching[s].began <= clock
  BY <1>1 DEF SearchInv, SearchTypeOK, RequestsRecent
<1>3. SearchTypeOK'
  BY <1>1, <1>2 DEF SearchInv, SearchTypeOK, AnswerKind, NoSearch
<1>4. EntriesRecent' /\ RequestsRecent'
  BY <1>1 DEF SearchInv, SearchTypeOK, EntriesRecent, RequestsRecent
<1>5. SearchAnswersFresh'
  BY <1>1, <1>2 DEF SearchInv, SearchAnswersFresh
<1> QED
  BY <1>3, <1>4, <1>5 DEF SearchInv

LEMMA TickKeepsSearchInv ==
  ASSUME SearchInv, SearchTick
  PROVE  SearchInv'
<1> USE WebSearchAssumption
<1>1. /\ clock' = clock + 1 /\ UNCHANGED <<cache, searching, answer>> /\ clock \in Nat
      /\ \A s \in Searchers : searching[s] # NoSearch => clock - searching[s].began < Timeout
  BY DEF SearchTick, SearchInv, SearchTypeOK
<1>2. \A s \in Searchers : searching[s].began \in Nat
  BY DEF SearchInv, SearchTypeOK
<1>3. RequestsRecent'
  BY <1>1, <1>2 DEF SearchInv, RequestsRecent
<1>4. EntriesRecent'
  BY <1>1 DEF SearchInv, SearchTypeOK, EntriesRecent
<1> QED
  BY <1>1, <1>3, <1>4 DEF SearchInv, SearchTypeOK, SearchAnswersFresh

(***************************************************************************)
(* A fresh search is never answered from before the question, any other    *)
(* from at most a time-to-live and one request ago, and the cache stays    *)
(* within its limit, for any number of searches in flight over any keys    *)
(* (search_response_with_options, cache_lookup, cache_store).              *)
(***************************************************************************)
THEOREM SearchAlwaysFresh == SearchSpec => []SearchAnswersFresh
<1>1. SearchInit => SearchInv
  BY FS_EmptySet, WebSearchAssumption
  DEF SearchInit, SearchInv, SearchTypeOK, EntriesRecent, RequestsRecent, SearchAnswersFresh, NoSearch, NoAnswer,
      AnswerKind
<1>2. SearchInv /\ [SearchNext]_searchVars => SearchInv'
  <2> SUFFICES ASSUME SearchInv, [SearchNext]_searchVars
               PROVE  SearchInv'
    OBVIOUS
  <2>1. CASE UNCHANGED searchVars
    BY <2>1 DEF searchVars, SearchInv, SearchTypeOK, EntriesRecent, RequestsRecent, SearchAnswersFresh
  <2> QED
    BY <2>1, SearchKeepsSearchInv, ArriveKeepsSearchInv, FailKeepsSearchInv, TickKeepsSearchInv DEF SearchNext
<1>3. SearchInv => SearchAnswersFresh
  BY DEF SearchInv
<1> QED
  BY <1>1, <1>2, <1>3, PTL DEF SearchSpec

-----------------------------------------------------------------------------
(* The voice loop *)

Capturing == {"flushing", "recording"}
Idling == {"spawn", "handshake", "wait", "exited"}
Busy == {"flush", "record", "stt", "heard", "route", "after", "ready", "restart"} \cup Capturing
Replying == {"quick", "answer", "fallback", "summary", "said"}

VoiceTypeOK ==
  /\ mode \in {"wake", "ptt"} /\ leg \in {"cycle", "follow"}
  /\ pc \in Idling \cup Busy \cup Replying
  /\ listener \in {"none", "loading", "listening", "woke", "ended"}
  /\ line \in {"none", "LISTENING", "ERROR", "WAKE", "other"} /\ stdin \in BOOLEAN
  /\ mic \subseteq {"arecord", "listener"}
  /\ cycle \in Nat /\ files \in [Files -> Nat]

(* The listener has the device open only while it listens, and it listens  *)
(* only while the loop reads its lines; from WAKE to READY it is silent.   *)
ListenerSilent ==
  /\ "listener" \in mic => listener = "listening"
  /\ listener = "listening" => pc = "wait" \/ (pc = "handshake" /\ line = "LISTENING")
  /\ listener = "loading" => pc = "handshake" /\ line = "none"
  /\ pc = "spawn" => listener = "none"
  /\ line = "LISTENING" => pc = "handshake"
  /\ line = "WAKE" => pc = "wait" /\ listener # "listening"
  /\ pc \in Busy \cup Replying => line = "none"
  /\ mode = "ptt" => /\ listener = "none" /\ line = "none" /\ ~stdin /\ leg = "cycle"
                     /\ pc \notin {"spawn", "handshake", "ready", "restart"}
  /\ stdin => pc = "wait" /\ line = "none" /\ listener # "listening"

(* Nothing of a reply is left over when no reply is under way, nor when    *)
(* speak returns early.                                                    *)
SpeechOver ==
  /\ pc \notin Replying => phase = "idle"
  /\ phase \in {"idle", "done"} => ~Speaking /\ sentences = <<>> /\ pcm = <<>>
  /\ phase = "say" => /\ sentences = <<>>
                      /\ pcm = <<>> \/ (pcm = <<reply>> /\ ~Speaking)

CaptureSound ==
  /\ "arecord" \in mic <=> pc \in Capturing
  /\ RecordingIsThisCycles

VoiceInv == VoiceTypeOK /\ ListenerSilent /\ SpeechOver /\ CaptureSound

(***************************************************************************)
(* record_audio in cycle n: whatever the chains fail at, the file a        *)
(* recording is handed on in holds the voice of cycle n.                   *)
(***************************************************************************)
LEMMA RemovedType ==
  ASSUME NEW fs \in [Files -> Nat], NEW S
  PROVE  Removed(fs, S) \in [Files -> Nat] /\ \A f \in Files \ S : Removed(fs, S)[f] = fs[f]
BY DEF Removed

(* A chain that starts with n in the raw file. *)
LEMMA PreprocessKeepsVoice ==
  ASSUME NEW n \in Nat, NEW fs \in [Files -> Nat], fs["raw"] = n, NEW denoiser_,
         NEW r \in PreprocessCapture(fs, denoiser_)
  PROVE  /\ r.files \in [Files -> Nat] /\ r.path \in {"raw", "norm"}
         /\ r.files[r.path] = n
         /\ r = [files |-> r.files, path |-> r.path]
<1> DEFINE Voiced(g) == g \in [Files -> Nat] /\ g["raw"] = n
<1>1. ASSUME NEW g, Voiced(g), NEW q \in RunSoxChain(g)
      PROVE  /\ q.files \in [Files -> Nat] /\ q.path \in {"raw", "norm"} /\ q.files[q.path] = n
             /\ q = [files |-> q.files, path |-> q.path]
  <2>1. PICK h, p : q = [files |-> h, path |-> p] /\ <<h, p>> \in
               {<<[g EXCEPT !.norm = g["raw"]], "norm">>, <<[g EXCEPT !.norm = g["raw"]], "raw">>, <<g, "raw">>}
    BY <1>1 DEF RunSoxChain
  <2> QED
    BY <1>1, <2>1 DEF Files
<1>2. CASE denoiser_ # "deepfilternet"
  BY <1>1, <1>2 DEF PreprocessCapture
<1>3. CASE denoiser_ = "deepfilternet"
  <2> DEFINE mono == [fs EXCEPT !.dfn = 0, !.mono = fs["raw"]]
             norm == [fs EXCEPT !.dfn = 0, !.mono = 0, !.norm = fs["raw"]]
             failed == {fs, Removed(mono, {"dfn"}), Removed(fs, {"mono", "dfn"}), norm}
  <2>1. Voiced(mono) /\ Voiced(norm) /\ norm["norm"] = n
    BY DEF Files
  <2>2. \A g \in failed : Voiced(g)
    <3>1. "raw" \in Files \ {"dfn"} /\ "raw" \in Files \ {"mono", "dfn"}
      BY DEF Files
    <3> HIDE DEF mono, norm
    <3>2. Voiced(Removed(mono, {"dfn"})) /\ Voiced(Removed(fs, {"mono", "dfn"}))
      BY <2>1, <3>1, RemovedType
    <3> QED
      BY <2>1, <3>2
  <2>3. r \in (UNION {RunSoxChain(g) : g \in failed}) \cup {[files |-> norm, path |-> "norm"]}
    BY <1>3 DEF PreprocessCapture, RunDeepFilterNetChain
  <2> HIDE DEF norm, failed, Voiced
  <2>4. CASE r = [files |-> norm, path |-> "norm"]
    BY <2>1, <2>4 DEF Voiced
  <2>5. CASE r # [files |-> norm, path |-> "norm"]
    <3>1. PICK g \in failed : r \in RunSoxChain(g)
      BY <2>3, <2>5
    <3> QED
      BY <1>1, <2>2, <3>1
  <2> QED
    BY <2>4, <2>5
<1> QED
  BY <1>2, <1>3

LEMMA RecordedIsThisCycles ==
  ASSUME NEW fs \in [Files -> Nat], NEW n \in Nat, NEW d, NEW r \in RecordAudio(fs, n, d)
  PROVE  /\ r.files \in [Files -> Nat]
         /\ r.path # "failed" => r.files[r.path] = n
<1> DEFINE raw == [fs EXCEPT !.raw = n]
           Done(q) == IF q.path = "raw" THEN q ELSE [q EXCEPT !.files = Removed(q.files, {"raw"})]
<1>1. raw \in [Files -> Nat] /\ raw["raw"] = n
  BY DEF Files
<1>2. r = [files |-> raw, path |-> "failed"] \/ r = [files |-> fs, path |-> "failed"]
      \/ \E q \in PreprocessCapture(raw, d) : r = Done(q)
  BY DEF RecordAudio
<1>3. CASE \E q \in PreprocessCapture(raw, d) : r = Done(q)
  <2>1. PICK q \in PreprocessCapture(raw, d) : r = Done(q)
    BY <1>3
  <2> HIDE DEF raw
  <2>2. /\ q.files \in [Files -> Nat] /\ q.path \in {"raw", "norm"} /\ q.files[q.path] = n
        /\ q = [files |-> q.files, path |-> q.path]
    BY <1>1, PreprocessKeepsVoice
  <2>3. CASE q.path = "raw"
    BY <2>1, <2>2, <2>3
  <2>4. CASE q.path = "norm"
    <3>1. r.files = Removed(q.files, {"raw"}) /\ r.path = "norm"
      BY <2>1, <2>2, <2>4
    <3>2. "norm" \in Files \ {"raw"}
      BY DEF Files
    <3> QED
      BY <2>2, <2>4, <3>1, <3>2, RemovedType
  <2> QED
    BY <2>2, <2>3, <2>4
<1> QED
  BY <1>1, <1>2, <1>3

-----------------------------------------------------------------------------
LEMMA ListenerKeepsVoiceInv ==
  ASSUME VoiceInv, ListenerUp \/ Detect \/ Resume \/ ListenerDies
  PROVE  VoiceInv'
<1> USE DEF VoiceInv, VoiceTypeOK, ListenerSilent, SpeechOver, CaptureSound, RecordingIsThisCycles,
            Speaking, config, child, capture, turn, speech, Capturing, Idling, Busy, Replying
<1>1. CASE ListenerUp
  BY <1>1 DEF ListenerUp
<1>2. CASE Detect
  BY <1>2 DEF Detect
<1>3. CASE Resume
  BY <1>3 DEF Resume
<1>4. CASE ListenerDies
  BY <1>4 DEF ListenerDies
<1> QED
  BY <1>1, <1>2, <1>3, <1>4

(* Steps between replies leave the speech alone. *)
LEMMA SilenceKept ==
  ASSUME SpeechOver, UNCHANGED speech, pc \notin Replying, pc' \notin Replying
  PROVE  SpeechOver'
BY DEF SpeechOver, speech, Speaking

LEMMA LoopKeepsVoiceInv ==
  ASSUME VoiceInv, LoopStep \/ Enter
  PROVE  VoiceInv'
<1> USE DEF VoiceInv, config, child, capture, turn
<1>1. pc \in (Idling \cup Busy) \ Capturing /\ UNCHANGED speech /\ pc' \in (Idling \cup Busy) \ Capturing
      /\ (pc' # pc => pc' \notin {"stt", "heard"}) /\ cycle' \in {cycle, cycle + 1}
      /\ files' = files /\ path' = path /\ pc \notin {"stt", "heard"}
      /\ mode' = mode /\ mic' \subseteq mic /\ ("arecord" \in mic => "arecord" \in mic')
  BY DEF LoopStep, Spawn, Handshake, ReadLine, Restart, After, SendReady, Enter, BeginCycle,
         Idling, Busy, Capturing, Replying, VoiceTypeOK
<1>2. SpeechOver' /\ CaptureSound'
  BY <1>1, SilenceKept DEF Idling, Busy, Capturing, Replying, CaptureSound, RecordingIsThisCycles
<1>3. ASSUME listener' \in {"none", "loading", listener}, line' \in {line, "none"},
             stdin' \in BOOLEAN, leg' \in {"cycle", "follow"}
      PROVE  VoiceTypeOK'
  BY <1>1, <1>3 DEF VoiceTypeOK, Idling, Busy
<1> USE DEF ListenerSilent, VoiceTypeOK, Idling, Busy, Capturing, Replying
<1>4. CASE Spawn
  BY <1>1, <1>2, <1>3, <1>4 DEF Spawn
<1>5. CASE Handshake
  BY <1>1, <1>2, <1>3, <1>5 DEF Handshake
<1>6. CASE ReadLine
  BY <1>1, <1>2, <1>3, <1>6 DEF ReadLine, BeginCycle
<1>7. CASE Restart
  BY <1>1, <1>2, <1>3, <1>7 DEF Restart
<1>8. CASE After
  BY <1>1, <1>2, <1>3, <1>8 DEF After
<1>9. CASE SendReady
  BY <1>1, <1>2, <1>3, <1>9 DEF SendReady
<1>10. CASE Enter
  <2>1. /\ mode = "ptt" /\ pc' \in {"flush", "exited"} /\ leg' \in {"cycle", leg}
        /\ UNCHANGED <<listener, line, stdin, mic>>
    BY <1>10 DEF Enter, BeginCycle
  <2>2. ListenerSilent'
    BY <1>1, <2>1
  <2> QED
    BY <1>2, <1>3, <2>1, <2>2
<1> QED
  BY <1>4, <1>5, <1>6, <1>7, <1>8, <1>9, <1>10 DEF LoopStep

LEMMA CaptureKeepsVoiceInv ==
  ASSUME VoiceInv, CaptureStep
  PROVE  VoiceInv'
<1> USE DEF VoiceInv, VoiceTypeOK, ListenerSilent, SpeechOver, CaptureSound, RecordingIsThisCycles,
            Speaking, config, child, capture, turn, speech, Capturing, Idling, Busy, Replying
<1>1. CASE OpenMic
  BY <1>1 DEF OpenMic
<1>2. CASE Flushed
  BY <1>2 DEF Flushed
<1>3. CASE Recorded
  <2>1. /\ files' \in [Files -> Nat]
        /\ path' # "failed" => files'[path'] = cycle
        /\ pc' # "stt" \/ path' # "failed"
        /\ pc' \in {"stt", IF leg = "cycle" THEN "after" ELSE "ready"}
    <3>1. PICK r \in RecordAudio(files, cycle, denoiser) :
            /\ files' = r.files /\ path' = r.path
            /\ IF r.path = "failed" THEN Leave ELSE pc' = "stt"
      BY <1>3 DEF Recorded
    <3> QED
      BY <3>1, RecordedIsThisCycles DEF Leave
  <2> QED
    BY <1>3, <2>1 DEF Recorded
<1>4. CASE Transcribe
  BY <1>4, RemovedType DEF Transcribe, Leave
<1>5. CASE Heard
  BY <1>5, RemovedType DEF Heard, Leave
<1>6. CASE HeardFollowUp
  BY <1>6, RemovedType DEF HeardFollowUp, Leave
<1> QED
  BY <1>1, <1>2, <1>3, <1>4, <1>5, <1>6 DEF CaptureStep

LEMMA AnswerKeepsVoiceInv ==
  ASSUME VoiceInv, AnswerStep
  PROVE  VoiceInv'
<1> USE DEF VoiceInv, VoiceTypeOK, ListenerSilent, SpeechOver, CaptureSound, RecordingIsThisCycles,
            Speaking, config, child, capture, turn, speech, Capturing, Idling, Busy, Replying
<1>1. ASSUME phase \in {"idle", "done"}, NEW t, Utter(t), pc' \in Replying
      PROVE  SpeechOver'
  BY <1>1 DEF Utter, Speak, SkipSpeech
<1>2. ASSUME NEW t, StartStream(t), pc' \in Replying
      PROVE  SpeechOver'
  BY <1>2 DEF StartStream
<1>3. ASSUME Return
      PROVE  SpeechOver'
  BY <1>3 DEF Return
<1>4. CASE QuickTool
  BY <1>1, <1>4 DEF QuickTool
<1>5. CASE QuickDone
  BY <1>3, <1>5 DEF QuickDone
<1>6. CASE AskModel
  BY <1>2, <1>6 DEF AskModel
<1>7. CASE Answered
  BY <1>1, <1>2, <1>3, <1>7 DEF Answered, Accept, AnswerFailed, Leave, Store
<1>8. CASE Fallback
  BY <1>1, <1>2, <1>3, <1>8 DEF Fallback, Accept, Leave, Store
<1>9. CASE Summarised
  BY <1>1, <1>3, <1>9 DEF Summarised, Leave, Store
<1>10. CASE Said
  BY <1>3, <1>10 DEF Said, Leave, Store
<1> QED
  BY <1>4, <1>5, <1>6, <1>7, <1>8, <1>9, <1>10 DEF AnswerStep

LEMMA SpeechKeepsVoiceInv ==
  ASSUME VoiceInv, Speech
  PROVE  VoiceInv'
<1> USE DEF VoiceInv, SpeechOver, Speaking
<1>1. VoiceTypeOK' /\ ListenerSilent' /\ CaptureSound' /\ pc' = pc
  BY DEF Speech, loop, config, child, capture, turn, VoiceTypeOK, ListenerSilent, CaptureSound,
         RecordingIsThisCycles
<1>2. CASE Token
  BY <1>1, <1>2 DEF Token
<1>3. CASE StreamEnds
  BY <1>1, <1>3 DEF StreamEnds
<1>4. CASE Synthesize
  BY <1>1, <1>4 DEF Synthesize
<1>5. CASE PlayNext
  <2>1. Tail(<<reply>>) = <<>>
    OBVIOUS
  <2> QED
    BY <1>1, <1>5, <2>1 DEF PlayNext
<1>6. CASE PlayEnds
  BY <1>1, <1>6 DEF PlayEnds
<1>7. CASE PostSilence
  BY <1>1, <1>7 DEF PostSilence
<1> QED
  BY <1>2, <1>3, <1>4, <1>5, <1>6, <1>7 DEF Speech, SpeechStep, SpeechEnds

(***************************************************************************)
(* For any replies, utterances, denoisers and profiles, in both modes and  *)
(* whatever dies or fails: the device is recorded from by one process, and *)
(* only while the assistant is silent, and what is transcribed is the      *)
(* voice of this cycle (flush_mic_buffer, record_audio, run_sox_chain).    *)
(***************************************************************************)
THEOREM AlwaysHearsOnlyUser == Spec => []HearsOnlyUser
<1>1. Init => VoiceInv
  <2> SUFFICES ASSUME Init PROVE VoiceInv
    OBVIOUS
  <2>1. /\ mode \in {"wake", "ptt"} /\ pc \in {"spawn", "wait"} /\ (mode = "ptt" => pc = "wait")
        /\ files \in [Files -> Nat]
    BY VoiceAssumption DEF Init, NoFiles
  <2> QED
    BY <2>1 DEF Init, SpeechInit, VoiceInv, VoiceTypeOK, ListenerSilent, SpeechOver,
     CaptureSound, RecordingIsThisCycles, Speaking, Capturing, Idling, Busy, Replying
<1>2. VoiceInv /\ [Next]_vars => VoiceInv'
  <2>1. ASSUME VoiceInv, UNCHANGED vars PROVE VoiceInv'
    BY <2>1 DEF vars, VoiceInv, VoiceTypeOK, ListenerSilent, SpeechOver, CaptureSound,
                RecordingIsThisCycles, Speaking
  <2> QED
    BY <2>1, ListenerKeepsVoiceInv, LoopKeepsVoiceInv, CaptureKeepsVoiceInv, AnswerKeepsVoiceInv,
       SpeechKeepsVoiceInv DEF Next
<1>3. VoiceInv => HearsOnlyUser
  BY DEF VoiceInv, VoiceTypeOK, ListenerSilent, SpeechOver, CaptureSound, HearsOnlyUser, HalfDuplex,
         Capturing, Replying
<1> QED
  BY <1>1, <1>2, <1>3, PTL DEF Spec

-----------------------------------------------------------------------------
(* The durable export *)

Texts == Contents \cup {""}
Spaces == {FolderOf[t] : t \in Texts}
Lines == [id : MemoIds, folder : Spaces, text : Texts \cup {Redacted}]
Memo == [text : Texts, shared : BOOLEAN, promoted : BOOLEAN, recalls : Nat, queries : Nat]
Tree == [plan : SUBSET Lines, folders : SUBSET Spaces, over : BOOLEAN, there : BOOLEAN]
File == [plan : SUBSET Lines, there : BOOLEAN]

Opening == {"closed", "alter", "backfill"}
Writing == {"clear", "notes", "staged", "sweep", "sideline"}
Swapped == {"unbak", "index", "root"}
Removing == {"no_live", "no_root", "no_index"}
Places == Opening \cup Writing \cup Swapped \cup Removing \cup {"open", "mark", "prune", "plan", "swap", "done"}

Disk == [live : Tree, bak : Tree, tmp : Tree, index : File, root : File,
         indexTmp : File, rootTmp : File]
Job == [pc : Places, todo : SUBSET (MemoIds \cup Columns), plan : SUBSET Lines,
        then : {"open", "prune"}, had : BOOLEAN, faults : Nat]

ExportTypeOK ==
  /\ memos \in [MemoIds -> Memo] /\ stale \in BOOLEAN
  /\ schema \in [current : BOOLEAN, columns : SUBSET Columns, degraded : BOOLEAN]
  /\ disk \in Disk /\ job \in Job

Classified(i) == memos[i].shared => memos[i].text \in MayHear

(* Rows are classified before the store is first opened, and promoted only *)
(* while it is open.                                                       *)
RowsClassified ==
  /\ \A i \in Promoted : Classified(i)
  /\ schema.current \/ job.pc \notin Opening => \A i \in Rows : Classified(i)
  /\ job.pc = "backfill" => job.todo \subseteq Rows /\ \A i \in Rows \ job.todo : Classified(i)
  /\ job.pc = "mark" => job.todo \subseteq Rows

PromotedLines == {Line(i) : i \in Promoted}
Exact == /\ disk.live.there = (Promoted # {}) /\ disk.live.plan = PromotedLines
         /\ disk.index.plan = PromotedLines /\ disk.root.plan = RootLines(PromotedLines)

(* What a rebuild has put on a disk d when it gets to a place. *)
Built(d, at, plan) ==
  /\ at \in {"notes", "staged", "sweep", "sideline", "swap"} => d.tmp.there /\ d.tmp.plan = plan
  /\ at \in {"staged", "sweep", "sideline", "swap"} => d.tmp.folders = Folders(plan)
  /\ at \in {"staged", "sweep", "sideline", "swap", "unbak", "index"} => d.indexTmp.plan = plan
  /\ at \in {"sweep", "sideline", "swap", "unbak", "index", "root"} => d.rootTmp.plan = RootLines(plan)
  /\ at \in Swapped => d.live.there /\ d.live.plan = plan
  /\ at = "root" => d.index.plan = plan

RebuildSound ==
  /\ Built(disk, job.pc, job.plan)
  /\ job.pc \in Writing \cup Swapped \cup {"swap"} => job.plan = PromotedLines /\ Promoted # {}
  /\ job.pc \in Removing => Promoted = {}
  /\ job.pc \in {"no_root", "no_index"} /\ job.faults = 0 => disk.live = Absent
  /\ job.pc = "no_index" /\ job.faults = 0 => disk.root = NoFile
  /\ job.pc = "done" /\ job.faults = 0 => Exact
  /\ job.pc \in Opening \cup {"open", "prune"} /\ ~stale => Exact

Whole(tree) == tree.there => tree.over \/ tree.folders = Folders(tree.plan)

(* A tree that was there is there or under its backup name. *)
Safe(d, at) ==
  /\ Whole(d.live) /\ Whole(d.bak)
  /\ job.had => IF at = "swap" THEN d.bak.there
                ELSE at \notin Removing \cup Opening \cup {"mark"} /\ d.live.there

TreeKept == Safe(disk, job.pc)

ExportInv == ExportTypeOK /\ RowsClassified /\ RebuildSound /\ TreeKept

LEMMA PromotedRows ==
  ASSUME ExportTypeOK
  PROVE  /\ Promoted = {i \in MemoIds : memos[i].promoted}
         /\ \A i \in Promoted : Line(i) \in Lines
         /\ PromotedLines \subseteq Lines
         /\ PromotedLines = {} <=> Promoted = {}
<1>1. Promoted = {i \in MemoIds : memos[i].promoted}
  <2>1. NoMemo.promoted = FALSE
    BY DEF NoMemo
  <2> QED
    BY <2>1 DEF Promoted, Rows
<1>2. \A i \in Promoted : Line(i) \in Lines
  BY <1>1 DEF Line, Lines, Spaces, ExportTypeOK, Memo
<1> QED
  BY <1>1, <1>2 DEF PromotedLines

(* Nothing that the export shows of a row has changed. *)
LEMMA LinesKept ==
  ASSUME ExportTypeOK, ExportTypeOK',
         \A i \in MemoIds : /\ memos'[i].promoted = memos[i].promoted
                            /\ memos[i].promoted => /\ memos'[i].text = memos[i].text
                                                    /\ memos'[i].shared = memos[i].shared
  PROVE  Promoted' = Promoted /\ PromotedLines' = PromotedLines
<1>1. Promoted = {i \in MemoIds : memos[i].promoted} /\ Promoted' = {i \in MemoIds : memos'[i].promoted}
  <2>1. NoMemo.promoted = FALSE
    BY DEF NoMemo
  <2> QED
    BY <2>1 DEF Promoted, Rows
<1>2. Promoted' = Promoted
  BY <1>1
<1>3. \A i \in Promoted : Line(i)' = Line(i)
  BY <1>1 DEF Line
<1> QED
  BY <1>2, <1>3 DEF PromotedLines

(* A plan is written as notes, an index and a public root file. *)
LEMMA PlanParts ==
  ASSUME NEW plan \in SUBSET Lines
  PROVE  RootLines(plan) \in SUBSET Lines /\ Folders(plan) \in SUBSET Spaces
BY DEF RootLines, Folders, Lines

LEMMA NothingOnDisk ==
  /\ Absent \in Tree /\ NoFile \in File /\ Whole(Absent) /\ RootLines({}) = {}
  /\ Absent.plan = {} /\ Absent.there = FALSE /\ NoFile.plan = {}
BY DEF Absent, Tree, NoFile, File, Whole, RootLines

(* While the store is open the rows are classified, and stay so. *)
LEMMA RowsKept ==
  ASSUME ExportInv, memos' = memos, schema' = schema,
         job.pc \notin Opening, job'.pc \notin {"backfill", "mark"}
  PROVE  /\ RowsClassified' /\ Promoted' = Promoted /\ PromotedLines' = PromotedLines
<1>1. Promoted' = Promoted /\ PromotedLines' = PromotedLines /\ Rows' = Rows
  BY DEF Promoted, PromotedLines, Rows, Line
<1> QED
  BY <1>1 DEF ExportInv, RowsClassified, Classified, Opening

LEMMA StepFailsKeepsExportInv ==
  ASSUME ExportInv, NEW at, NEW d \in Disk, StepFails(at, d), at \notin Opening,
         Whole(d.live), Whole(d.bak), job.had => d.live.there
  PROVE  ExportInv'
<1>1. /\ disk' = d /\ stale' = TRUE /\ memos' = memos /\ schema' = schema /\ job.pc = at
      /\ job' = [pc |-> "open", todo |-> {}, plan |-> {}, then |-> "open", had |-> job.had,
                 faults |-> job.faults + 1]
  BY DEF StepFails, Rest, At
<1>2. ExportTypeOK'
  BY <1>1 DEF ExportInv, ExportTypeOK, Job, Places
<1>3. RowsClassified'
  BY <1>1, RowsKept
<1>4. RebuildSound'
  BY <1>1 DEF RebuildSound, Built, Writing, Swapped, Removing, Opening
<1>5. TreeKept'
  BY <1>1 DEF TreeKept, Safe, Removing, Opening
<1> QED
  BY <1>2, <1>3, <1>4, <1>5 DEF ExportInv

(* A removal that failed, and the next step all the same. *)
LEMMA MoveOnKeepsType ==
  ASSUME ExportTypeOK, NEW d \in Disk, NEW at, NEW next \in Places,
         Step(at, next, d) \/ RemovalFails(at, next, d)
  PROVE  /\ ExportTypeOK' /\ disk' = d /\ memos' = memos /\ schema' = schema /\ stale' = stale
         /\ job.pc = at /\ job'.pc = next /\ job'.plan = job.plan /\ job'.had = job.had
         /\ job'.faults = 0 => job.faults = 0 /\ Step(at, next, d)
<1>1. CASE Step(at, next, d)
  BY <1>1 DEF Step, At, GoTo, ExportTypeOK, Job
<1>2. CASE RemovalFails(at, next, d)
  <2>1. /\ disk' = d /\ memos' = memos /\ schema' = schema /\ stale' = stale /\ job.pc = at
        /\ job' = [job EXCEPT !.pc = next, !.faults = @ + 1]
    BY <1>2 DEF RemovalFails, At
  <2>2. job \in Job /\ job.faults \in Nat
    BY DEF ExportTypeOK, Job
  <2>3. job'.pc = next /\ job'.plan = job.plan /\ job'.had = job.had /\ job'.faults = job.faults + 1
    BY <2>1, <2>2 DEF Job
  <2>4. job' \in Job
    <3>1. job' = [pc |-> next, todo |-> job.todo, plan |-> job.plan, then |-> job.then,
                  had |-> job.had, faults |-> job.faults + 1]
      BY <2>1, <2>2 DEF Job
    <3>2. job.faults + 1 \in Nat
      BY <2>2
    <3> QED
      BY <2>2, <3>1, <3>2 DEF Job
  <2> QED
    BY <2>1, <2>2, <2>3, <2>4 DEF ExportTypeOK
<1> QED
  BY <1>1, <1>2

LEMMA RemovingKeepsExportInv ==
  ASSUME ExportInv, RemoveTree
  PROVE  ExportInv'
<1> USE DEF ExportInv
<1>1. ASSUME NEW at \in Removing, NEW next \in {"no_root", "no_index", "done"}, NEW d \in Disk,
             Step(at, next, d) \/ RemovalFails(at, next, d), Whole(d.live), d.bak = disk.bak,
             job'.faults = 0 => /\ next = "no_root" => at = "no_live" /\ d.live = Absent
                                /\ next = "no_index" => at = "no_root" /\ d.live = disk.live /\ d.root = NoFile
                                /\ next = "done" => /\ at = "no_index" /\ d.live = disk.live
                                                    /\ d.root = disk.root /\ d.index = NoFile
      PROVE  ExportInv'
  <2>1. next \in Places
    BY DEF Places, Removing
  <2>2. /\ ExportTypeOK' /\ disk' = d /\ memos' = memos /\ schema' = schema /\ stale' = stale
        /\ job.pc = at /\ job'.pc = next /\ job'.plan = job.plan /\ job'.had = job.had
        /\ job'.faults = 0 => job.faults = 0
    BY <1>1, <2>1, MoveOnKeepsType
  <2>3. RowsClassified' /\ Promoted' = Promoted /\ PromotedLines' = PromotedLines
    BY <1>1, <2>2, RowsKept DEF Opening, Removing
  <2>4. RebuildSound'
    <3>1. Promoted = {} /\ PromotedLines = {}
      BY <1>1, <2>2 DEF RebuildSound, Built, PromotedLines
    <3>2. job'.faults = 0 /\ next = "done" => Exact'
      BY <1>1, <2>2, <2>3, <3>1, NothingOnDisk DEF Exact, RebuildSound
    <3> QED
      BY <1>1, <2>2, <2>3, <3>1, <3>2 DEF RebuildSound, Built, Writing, Swapped, Removing, Opening
  <2>5. TreeKept'
    BY <1>1, <2>2 DEF TreeKept, Safe, Removing
  <2> QED
    BY <2>2, <2>3, <2>4, <2>5
<1>2. /\ disk \in Disk /\ [disk EXCEPT !.live = Absent] \in Disk /\ [disk EXCEPT !.root = NoFile] \in Disk
      /\ [disk EXCEPT !.index = NoFile] \in Disk
  BY NothingOnDisk DEF ExportTypeOK, Disk
<1>3. Whole(disk.live)
  BY DEF TreeKept, Safe
<1>4. ASSUME NEW at, NEW next, RemovalFails(at, next, disk)
      PROVE  job'.faults # 0
  BY <1>4 DEF RemovalFails, ExportTypeOK, Job
<1> USE DEF Removing
<1>5. CASE Step("no_live", "no_root", [disk EXCEPT !.live = Absent])
  BY <1>1, <1>2, <1>5, NothingOnDisk DEF Disk
<1>6. CASE Step("no_root", "no_index", [disk EXCEPT !.root = NoFile])
  BY <1>1, <1>2, <1>3, <1>6 DEF Disk
<1>7. CASE Step("no_index", "done", [disk EXCEPT !.index = NoFile])
  BY <1>1, <1>2, <1>3, <1>7 DEF Disk
<1>8. CASE RemovalFails("no_live", "no_root", disk)
  BY <1>1, <1>2, <1>3, <1>4, <1>8
<1>9. CASE RemovalFails("no_root", "no_index", disk)
  BY <1>1, <1>2, <1>3, <1>4, <1>9
<1>10. CASE RemovalFails("no_index", "done", disk)
  BY <1>1, <1>2, <1>3, <1>4, <1>10
<1> QED
  BY <1>5, <1>6, <1>7, <1>8, <1>9, <1>10 DEF RemoveTree

LEMMA ForwardKeepsExportInv ==
  ASSUME ExportInv, NEW at \in Writing \cup Swapped \cup {"swap"},
         NEW next \in Writing \cup Swapped \cup {"swap", "done"}, NEW d \in Disk,
         Step(at, next, d) \/ RemovalFails(at, next, d),
         Built(d, next, job.plan), Safe(d, next),
         next = "done" => /\ d.live.there = TRUE /\ d.live.plan = job.plan /\ d.index.plan = job.plan
                          /\ d.root.plan = RootLines(job.plan)
  PROVE  ExportInv'
<1> USE DEF ExportInv
<1>1. next \in Places /\ at \in Places \ (Opening \cup Removing \cup {"open", "mark", "prune", "done"})
      /\ next \notin Opening \cup Removing \cup {"open", "mark", "prune", "backfill"}
  BY DEF Places, Writing, Swapped, Opening, Removing
<1>2. /\ ExportTypeOK' /\ disk' = d /\ memos' = memos /\ schema' = schema /\ stale' = stale
      /\ job.pc = at /\ job'.pc = next /\ job'.plan = job.plan /\ job'.had = job.had
  BY <1>1, MoveOnKeepsType
<1>3. RowsClassified' /\ Promoted' = Promoted /\ PromotedLines' = PromotedLines
  BY <1>1, <1>2, RowsKept
<1>4. job.plan = PromotedLines /\ Promoted # {}
  BY <1>2 DEF RebuildSound
<1>5. next = "done" => Exact'
  BY <1>2, <1>3, <1>4 DEF Exact
<1>6. RebuildSound'
  <2>1. Built(disk, job.pc, job.plan)'
    BY <1>2 DEF Built
  <2>2. next \notin {"no_root", "no_index"}
    BY <1>1 DEF Removing
  <2> QED
    BY <1>1, <1>2, <1>3, <1>4, <1>5, <2>1, <2>2 DEF RebuildSound
<1>7. TreeKept'
  BY <1>2 DEF TreeKept, Safe, Whole
<1> QED
  BY <1>2, <1>3, <1>6, <1>7

LEMMA ReadPlanKeepsExportInv ==
  ASSUME ExportInv, ReadPlan
  PROVE  ExportInv'
<1> USE DEF ExportInv
<1>1. /\ job.pc = "plan" /\ disk' = disk /\ memos' = memos /\ schema' = schema /\ stale' = stale
      /\ job' = IF Promoted = {} THEN [job EXCEPT !.pc = "no_live", !.had = FALSE]
                ELSE [job EXCEPT !.pc = "clear", !.plan = PromotedLines]
  BY DEF ReadPlan, At, PromotedLines
<1>2. ExportTypeOK'
  BY <1>1, PromotedRows DEF ExportTypeOK, Job, Places, Writing, Removing
<1>3. job'.pc = IF Promoted = {} THEN "no_live" ELSE "clear"
  BY <1>1 DEF ExportTypeOK, Job
<1>4. RowsClassified' /\ Promoted' = Promoted /\ PromotedLines' = PromotedLines
  BY <1>1, <1>3, RowsKept DEF Opening
<1>5. CASE Promoted = {}
  <2>1. job'.pc = "no_live" /\ job'.had = FALSE
    BY <1>1, <1>5 DEF ExportTypeOK, Job
  <2>2. RebuildSound'
    BY <1>4, <1>5, <2>1 DEF RebuildSound, Built, Writing, Swapped, Removing, Opening
  <2>3. TreeKept'
    BY <1>1, <2>1 DEF TreeKept, Safe, Whole
  <2> QED
    BY <1>2, <1>4, <2>2, <2>3
<1>6. CASE Promoted # {}
  <2>1. job'.pc = "clear" /\ job'.had = job.had /\ job'.plan = PromotedLines
    BY <1>1, <1>6 DEF ExportTypeOK, Job
  <2>2. RebuildSound'
    BY <1>4, <1>6, <2>1 DEF RebuildSound, Built, Writing, Swapped, Removing, Opening
  <2>3. TreeKept'
    BY <1>1, <2>1 DEF TreeKept, Safe, Whole, Removing, Opening
  <2> QED
    BY <1>2, <1>4, <2>2, <2>3
<1> QED
  BY <1>5, <1>6

LEMMA WritingKeepsExportInv ==
  ASSUME ExportInv, \/ ClearStaging \/ (\E f \in Folders(job.plan) : WriteNote(f)) \/ WriteStaged
  PROVE  ExportInv'
<1> USE DEF ExportInv
<1>1. /\ disk \in Disk /\ job.plan \in SUBSET Lines
      /\ RootLines(job.plan) \in SUBSET Lines /\ Folders(job.plan) \in SUBSET Spaces
  BY PlanParts DEF ExportTypeOK, Job
<1>2. Built(disk, job.pc, job.plan) /\ Safe(disk, job.pc)
  BY DEF RebuildSound, TreeKept
<1>3. ASSUME NEW at \in {"clear", "notes", "staged"}, NEW next \in {"notes", "staged", "sweep"},
             NEW d \in Disk, Step(at, next, d) \/ RemovalFails(at, next, d),
             d.live = disk.live, d.bak = disk.bak, Built(d, next, job.plan)
      PROVE  ExportInv'
  <2>1. job.pc = at
    BY <1>3 DEF Step, RemovalFails, At
  <2>2. Safe(d, next)
    BY <1>2, <1>3, <2>1 DEF Safe, Removing, Opening
  <2>3. at \in Writing /\ next \in Writing /\ next # "done"
    BY DEF Writing
  <2> QED
    BY <1>3, <2>2, <2>3, ForwardKeepsExportInv
<1>4. ASSUME NEW at \in {"clear", "notes", "staged"}, NEW d \in Disk, StepFails(at, d),
             d.live = disk.live, d.bak = disk.bak
      PROVE  ExportInv'
  <2>1. job.pc = at /\ at \notin Opening
    BY <1>4 DEF StepFails, At, Opening
  <2> QED
    BY <1>2, <1>4, <2>1, StepFailsKeepsExportInv DEF Safe
<1> HIDE DEF ExportInv
<1>5. CASE ClearStaging
  <2>1. \A over \in BOOLEAN : [disk EXCEPT !.tmp = Staging(over)] \in Disk
    BY <1>1 DEF Disk, Tree, Staging
  <2>2. [disk EXCEPT !.tmp = Absent] \in Disk
    BY <1>1, NothingOnDisk DEF Disk
  <2>3. \A over \in BOOLEAN : Built([disk EXCEPT !.tmp = Staging(over)], "notes", job.plan)
    BY <1>1 DEF Built, Staging, Disk, Swapped
  <2>4. ASSUME NEW over \in BOOLEAN,
               \/ Step("clear", "notes", [disk EXCEPT !.tmp = Staging(over)])
               \/ RemovalFails("clear", "notes", [disk EXCEPT !.tmp = Staging(over)])
        PROVE  ExportInv'
    BY <1>1, <1>3, <2>1, <2>3, <2>4 DEF Disk
  <2>5. CASE StepFails("clear", [disk EXCEPT !.tmp = Absent])
    BY <1>1, <1>4, <2>2, <2>5 DEF Disk
  <2> QED
    BY <1>5, <2>4, <2>5 DEF ClearStaging
<1>6. ASSUME NEW f \in Folders(job.plan), WriteNote(f)
      PROVE  ExportInv'
  <2>1. CASE StepFails("notes", disk)
    BY <1>1, <1>4, <2>1
  <2>2. CASE Step("notes", "notes", [disk EXCEPT !.tmp.folders = @ \cup {f}])
    <3> DEFINE d == [disk EXCEPT !.tmp.folders = @ \cup {f}]
    <3>1. d \in Disk /\ d.live = disk.live /\ d.bak = disk.bak
          /\ d.tmp.there = disk.tmp.there /\ d.tmp.plan = disk.tmp.plan
      BY <1>1 DEF Disk, Tree
    <3>2. job.pc = "notes"
      BY <2>2 DEF Step, At
    <3>3. Built(d, "notes", job.plan)
      BY <1>2, <3>1, <3>2 DEF Built, Swapped
    <3> QED
      BY <1>3, <2>2, <3>1, <3>3
  <2> QED
    BY <1>6, <2>1, <2>2 DEF WriteNote
<1>7. CASE WriteStaged
  <2>1. CASE StepFails("notes", disk) \/ StepFails("staged", disk)
    BY <1>1, <1>4, <2>1
  <2>2. CASE disk.tmp.folders = Folders(job.plan)
             /\ Step("notes", "staged", [disk EXCEPT !.indexTmp = [plan |-> job.plan, there |-> TRUE]])
    <3> DEFINE d == [disk EXCEPT !.indexTmp = [plan |-> job.plan, there |-> TRUE]]
    <3>1. d \in Disk /\ d.live = disk.live /\ d.bak = disk.bak /\ d.tmp = disk.tmp /\ d.indexTmp.plan = job.plan
      BY <1>1 DEF Disk, File
    <3>2. job.pc = "notes"
      BY <2>2 DEF Step, At
    <3>3. Built(d, "staged", job.plan)
      BY <1>2, <2>2, <3>1, <3>2 DEF Built, Swapped
    <3> QED
      BY <1>3, <2>2, <3>1, <3>3
  <2>3. CASE Step("staged", "sweep",
                  [disk EXCEPT !.rootTmp = [plan |-> RootLines(job.plan), there |-> TRUE]])
    <3> DEFINE d == [disk EXCEPT !.rootTmp = [plan |-> RootLines(job.plan), there |-> TRUE]]
    <3>1. d \in Disk /\ d.live = disk.live /\ d.bak = disk.bak /\ d.tmp = disk.tmp
          /\ d.indexTmp = disk.indexTmp /\ d.rootTmp.plan = RootLines(job.plan)
      BY <1>1 DEF Disk, File
    <3>2. job.pc = "staged"
      BY <2>3 DEF Step, At
    <3>3. Built(d, "sweep", job.plan)
      BY <1>2, <3>1, <3>2 DEF Built, Swapped
    <3> QED
      BY <1>3, <2>3, <3>1, <3>3
  <2> QED
    BY <1>7, <2>1, <2>2, <2>3 DEF WriteStaged
<1> QED
  BY <1>5, <1>6, <1>7

LEMMA SwappingKeepsExportInv ==
  ASSUME ExportInv, SweepBackup \/ Sideline \/ SwapIn \/ DropBackup \/ SwapFiles
  PROVE  ExportInv'
<1> USE DEF ExportInv
<1>1. disk \in Disk /\ job.plan \in SUBSET Lines
  BY DEF ExportTypeOK, Job
<1>2. Built(disk, job.pc, job.plan) /\ Safe(disk, job.pc)
  BY DEF RebuildSound, TreeKept
<1> HIDE DEF ExportInv
<1>3. CASE SweepBackup
  <2>1. ASSUME NEW d \in {disk, [disk EXCEPT !.bak = Absent]},
               Step("sweep", "sideline", d) \/ RemovalFails("sweep", "sideline", d)
        PROVE  ExportInv'
    <3>1. d \in Disk /\ d.live = disk.live /\ d.tmp = disk.tmp /\ d.indexTmp = disk.indexTmp
          /\ d.rootTmp = disk.rootTmp /\ Whole(d.bak)
      BY <1>1, <1>2, NothingOnDisk DEF Disk, Safe
    <3>2. job.pc = "sweep"
      BY <2>1 DEF Step, RemovalFails, At
    <3>3. Built(d, "sideline", job.plan) /\ Safe(d, "sideline")
      BY <1>2, <3>1, <3>2 DEF Built, Safe, Swapped, Removing, Opening
    <3>4. "sweep" \in Writing /\ "sideline" \in Writing
      BY DEF Writing
    <3> QED
      BY <2>1, <3>1, <3>3, <3>4, ForwardKeepsExportInv
  <2> QED
    BY <1>3, <2>1 DEF SweepBackup
<1>4. CASE Sideline
  <2> DEFINE d == IF disk.live.there THEN [disk EXCEPT !.bak = disk.live, !.live = Absent] ELSE disk
  <2>1. CASE Step("sideline", "swap", d)
    <3>1. d \in Disk /\ d.tmp = disk.tmp /\ d.indexTmp = disk.indexTmp /\ d.rootTmp = disk.rootTmp
      BY <1>1, NothingOnDisk DEF Disk
    <3>2. /\ Whole(d.live) /\ Whole(d.bak)
          /\ disk.live.there => d.bak.there
      BY <1>1, <1>2, NothingOnDisk DEF Safe, Disk
    <3>3. job.pc = "sideline"
      BY <2>1 DEF Step, At
    <3>4. Built(d, "swap", job.plan) /\ Safe(d, "swap")
      BY <1>2, <3>1, <3>2, <3>3 DEF Built, Safe, Swapped
    <3>5. "sideline" \in Writing
      BY DEF Writing
    <3> QED
      BY <2>1, <3>1, <3>4, <3>5, ForwardKeepsExportInv
  <2>2. CASE disk.live.there /\ StepFails("sideline", disk)
    BY <1>1, <1>2, <2>2, StepFailsKeepsExportInv DEF Safe, Opening
  <2> QED
    BY <1>4, <2>1, <2>2 DEF Sideline
<1>5. CASE SwapIn
  <2>1. CASE Step("swap", "unbak", [disk EXCEPT !.live = disk.tmp, !.tmp = Absent])
    <3> DEFINE d == [disk EXCEPT !.live = disk.tmp, !.tmp = Absent]
    <3>1. d \in Disk /\ d.live = disk.tmp /\ d.bak = disk.bak /\ d.indexTmp = disk.indexTmp
          /\ d.rootTmp = disk.rootTmp
      BY <1>1, NothingOnDisk DEF Disk
    <3>2. job.pc = "swap"
      BY <2>1 DEF Step, At
    <3>3. d.live.there /\ d.live.plan = job.plan /\ d.live.folders = Folders(job.plan)
      BY <1>2, <3>1, <3>2 DEF Built
    <3>4. Built(d, "unbak", job.plan) /\ Safe(d, "unbak")
      BY <1>2, <3>1, <3>2, <3>3 DEF Built, Safe, Whole, Removing, Opening
    <3>5. "unbak" \in Swapped
      BY DEF Swapped
    <3> QED
      BY <2>1, <3>1, <3>4, <3>5, ForwardKeepsExportInv
  <2>2. CASE StepFails("swap", IF disk.bak.there THEN [disk EXCEPT !.live = disk.bak, !.bak = Absent] ELSE disk)
    <3> DEFINE d == IF disk.bak.there THEN [disk EXCEPT !.live = disk.bak, !.bak = Absent] ELSE disk
    <3>1. d \in Disk /\ (disk.bak.there => d.live.there) /\ Whole(d.live) /\ Whole(d.bak)
      BY <1>1, <1>2, NothingOnDisk DEF Disk, Safe
    <3>2. job.pc = "swap"
      BY <2>2 DEF StepFails, At
    <3> QED
      BY <1>2, <2>2, <3>1, <3>2, StepFailsKeepsExportInv DEF Safe, Opening
  <2> QED
    BY <1>5, <2>1, <2>2 DEF SwapIn
<1>6. CASE DropBackup
  <2>1. ASSUME NEW d \in {disk, [disk EXCEPT !.bak = Absent]},
               Step("unbak", "index", d) \/ RemovalFails("unbak", "index", d)
        PROVE  ExportInv'
    <3>1. d \in Disk /\ d.live = disk.live /\ d.indexTmp = disk.indexTmp
          /\ d.rootTmp = disk.rootTmp /\ Whole(d.bak)
      BY <1>1, <1>2, NothingOnDisk DEF Disk, Safe
    <3>2. job.pc = "unbak"
      BY <2>1 DEF Step, RemovalFails, At
    <3>3. Built(d, "index", job.plan) /\ Safe(d, "index")
      BY <1>2, <3>1, <3>2 DEF Built, Safe, Swapped, Removing, Opening
    <3>4. "unbak" \in Swapped /\ "index" \in Swapped
      BY DEF Swapped
    <3> QED
      BY <2>1, <3>1, <3>3, <3>4, ForwardKeepsExportInv
  <2> QED
    BY <1>6, <2>1 DEF DropBackup
<1>7. CASE SwapFiles
  <2>1. CASE StepFails("index", disk) \/ StepFails("root", disk)
    <3>1. job.pc \in {"index", "root"}
      BY <2>1 DEF StepFails, At
    <3> QED
      BY <1>1, <1>2, <2>1, <3>1, StepFailsKeepsExportInv DEF Safe, Opening, Removing
  <2>2. CASE Step("index", "root", [disk EXCEPT !.index = disk.indexTmp, !.indexTmp = NoFile])
    <3> DEFINE d == [disk EXCEPT !.index = disk.indexTmp, !.indexTmp = NoFile]
    <3>1. d \in Disk /\ d.live = disk.live /\ d.bak = disk.bak /\ d.index = disk.indexTmp
          /\ d.rootTmp = disk.rootTmp
      BY <1>1, NothingOnDisk DEF Disk
    <3>2. job.pc = "index"
      BY <2>2 DEF Step, At
    <3>3. Built(d, "root", job.plan) /\ Safe(d, "root")
      BY <1>2, <3>1, <3>2 DEF Built, Safe, Swapped, Removing, Opening
    <3>4. "index" \in Swapped /\ "root" \in Swapped
      BY DEF Swapped
    <3> QED
      BY <2>2, <3>1, <3>3, <3>4, ForwardKeepsExportInv
  <2>3. CASE Step("root", "done", [disk EXCEPT !.root = disk.rootTmp, !.rootTmp = NoFile])
    <3> DEFINE d == [disk EXCEPT !.root = disk.rootTmp, !.rootTmp = NoFile]
    <3>1. d \in Disk /\ d.live = disk.live /\ d.bak = disk.bak /\ d.index = disk.index
          /\ d.root = disk.rootTmp
      BY <1>1, NothingOnDisk DEF Disk
    <3>2. job.pc = "root"
      BY <2>3 DEF Step, At
    <3>3. Built(d, "done", job.plan) /\ Safe(d, "done")
      BY <1>2, <3>1, <3>2 DEF Built, Safe, Swapped, Removing, Opening
    <3>4. /\ d.live.there = TRUE /\ d.live.plan = job.plan /\ d.index.plan = job.plan
          /\ d.root.plan = RootLines(job.plan)
      BY <1>1, <1>2, <3>1, <3>2 DEF Built, Swapped, Disk, Tree
    <3>5. "root" \in Swapped
      BY DEF Swapped
    <3> HIDE DEF d
    <3> QED
      BY <2>3, <3>1, <3>3, <3>4, <3>5, ForwardKeepsExportInv DEF d
  <2> QED
    BY <1>7, <2>1, <2>2, <2>3 DEF SwapFiles
<1> QED
  BY <1>3, <1>4, <1>5, <1>6, <1>7

(* An operation ends, well or not, or the process does. *)
LEMMA EndingKeepsExportInv ==
  ASSUME ExportInv, EndRebuild \/ StatementFails \/ ProcessDies
  PROVE  ExportInv'
<1> USE DEF ExportInv
<1>1. CASE EndRebuild
  <2>1. /\ job.pc = "done" /\ memos' = memos /\ schema' = schema /\ disk' = disk
        /\ stale' = (job.faults > 0)
        /\ job' = [job EXCEPT !.pc = job.then] \/ job' = [job EXCEPT !.pc = "open"]
    BY <1>1 DEF EndRebuild, At
  <2>2. job' \in Job /\ job'.pc \in {"open", "prune"} /\ job'.had = job.had /\ job.faults \in Nat
    BY <2>1 DEF ExportTypeOK, Job, Places
  <2>3. RowsClassified' /\ Promoted' = Promoted /\ PromotedLines' = PromotedLines
    BY <2>1, <2>2, RowsKept DEF Opening
  <2>4. ~stale' => Exact'
    <3>1. ~stale' => job.faults = 0
      <4>1. ~stale' => ~(job.faults > 0)
        BY <2>1, Zenon
      <4> QED
        BY <2>2, <4>1
    <3>2. ~stale' => Exact
      BY <2>1, <3>1 DEF RebuildSound
    <3> QED
      BY <2>1, <2>3, <3>2 DEF Exact
  <2>5. RebuildSound'
    BY <2>2, <2>4 DEF RebuildSound, Built, Writing, Swapped, Removing, Opening
  <2>6. TreeKept'
    BY <2>1, <2>2 DEF TreeKept, Safe, Whole, Removing, Opening
  <2> QED
    BY <2>1, <2>2, <2>3, <2>5, <2>6 DEF ExportTypeOK
<1>2. CASE StatementFails
  <2>1. PICK at \in {"mark", "plan"} : StepFails(at, disk)
    BY <1>2 DEF StatementFails
  <2>2. job.pc = at
    BY <2>1 DEF StepFails, At
  <2> QED
    BY <2>1, <2>2, StepFailsKeepsExportInv DEF ExportTypeOK, TreeKept, Safe, Opening
<1>3. CASE ProcessDies
  <2>1. /\ memos' = memos /\ schema' = schema /\ disk' = disk
        /\ stale' = (stale \/ job.pc \notin {"alter", "backfill", "open", "prune"})
        /\ job' = [pc |-> "closed", todo |-> {}, plan |-> {}, then |-> "open", had |-> FALSE, faults |-> 0]
        /\ job.pc # "closed"
    BY <1>3 DEF ProcessDies, Rest
  <2>2. Promoted' = Promoted /\ PromotedLines' = PromotedLines /\ Rows' = Rows
    BY <2>1 DEF Promoted, PromotedLines, Rows, Line
  <2>3. ExportTypeOK'
    BY <2>1 DEF ExportTypeOK, Job, Places, Opening
  <2>4. RowsClassified'
    BY <2>1, <2>2 DEF RowsClassified, Classified, Opening
  <2>5. RebuildSound'
    BY <2>1, <2>2 DEF RebuildSound, Exact, Built, Writing, Swapped, Removing, Opening
  <2>6. TreeKept'
    BY <2>1 DEF TreeKept, Safe, Whole
  <2> QED
    BY <2>3, <2>4, <2>5, <2>6
<1> QED
  BY <1>1, <1>2, <1>3

LEMMA OpeningKeepsExportInv ==
  ASSUME ExportInv, \/ OpenStore \/ (\E c \in Columns : AddColumn(c)) \/ StartBackfill
                    \/ (\E i \in MemoIds : BackfillRow(i)) \/ StoreVersion
  PROVE  ExportInv'
<1> USE DEF ExportInv
<1>1. ASSUME job.pc \in Opening, job'.pc \in Opening \cup {"open"}, job'.had = FALSE, ExportTypeOK',
             RowsClassified', UNCHANGED <<disk, stale>>,
             Promoted' = Promoted, PromotedLines' = PromotedLines
      PROVE  ExportInv'
  <2>1. RebuildSound'
    BY <1>1 DEF RebuildSound, Exact, Built, Writing, Swapped, Removing, Opening
  <2>2. TreeKept'
    BY <1>1 DEF TreeKept, Safe, Whole
  <2> QED
    BY <1>1, <2>1, <2>2
<1>2. ASSUME memos' = memos
      PROVE  Promoted' = Promoted /\ PromotedLines' = PromotedLines /\ Rows' = Rows
  BY <1>2 DEF Promoted, PromotedLines, Rows, Line
<1>3. \A p \in Places : Rest(p) \in Job /\ Rest(p).pc = p /\ Rest(p).had = FALSE /\ Rest(p).todo = {}
  BY DEF Rest, Job
<1>4. {"closed", "alter", "backfill", "open"} \subseteq Places
  BY DEF Places, Opening
<1> HIDE DEF ExportInv
<1>5. CASE OpenStore
  <2>1. /\ job.pc = "closed" /\ memos' = memos /\ disk' = disk /\ stale' = stale
        /\ schema' = [schema EXCEPT !.degraded = FALSE]
        /\ job' = IF schema.current THEN Rest("open") ELSE [Rest("alter") EXCEPT !.todo = Columns]
    BY <1>5 DEF OpenStore, At
  <2>2. schema'.current = schema.current
    BY <2>1 DEF ExportInv, ExportTypeOK
  <2>3. job'.pc = (IF schema.current THEN "open" ELSE "alter") /\ job'.had = FALSE /\ job' \in Job
    BY <1>3, <1>4, <2>1 DEF Job
  <2>4. ExportTypeOK'
    BY <2>1, <2>3 DEF ExportInv, ExportTypeOK
  <2>5. RowsClassified'
    BY <1>2, <2>1, <2>2, <2>3 DEF ExportInv, RowsClassified, Classified, Opening
  <2> QED
    BY <1>1, <1>2, <2>1, <2>3, <2>4, <2>5 DEF Opening
<1>6. ASSUME NEW c \in Columns, AddColumn(c)
      PROVE  ExportInv'
  <2>1. /\ job.pc = "alter" /\ memos' = memos /\ disk' = disk /\ stale' = stale
        /\ schema' \in {[schema EXCEPT !.columns = @ \cup {c}], [schema EXCEPT !.degraded = TRUE]}
        /\ job' = [job EXCEPT !.todo = @ \ {c}]
    BY <1>6 DEF AddColumn, RunOpenMigration, At
  <2>2. schema'.current = schema.current /\ job'.pc = "alter" /\ job'.had = job.had /\ ExportTypeOK'
    BY <2>1 DEF ExportInv, ExportTypeOK, Job
  <2>3. RowsClassified' /\ ~job.had
    BY <1>2, <2>1, <2>2 DEF ExportInv, RowsClassified, Classified, TreeKept, Safe, Opening
  <2>4. job'.had = FALSE
    BY <2>2, <2>3 DEF ExportInv, ExportTypeOK, Job
  <2> QED
    BY <1>1, <1>2, <2>1, <2>2, <2>3, <2>4 DEF Opening
<1>7. CASE StartBackfill
  <2>1. /\ job.pc = "alter" /\ memos' = memos /\ schema' = schema /\ disk' = disk /\ stale' = stale
        /\ job' \in {[Rest("backfill") EXCEPT !.todo = Rows], Rest("closed")}
    BY <1>7 DEF StartBackfill, At
  <2>2. Rows \subseteq MemoIds
    BY DEF Rows
  <2>3. /\ job'.pc \in {"backfill", "closed"} /\ job'.had = FALSE /\ job' \in Job
        /\ job'.pc = "backfill" => job'.todo = Rows
    BY <1>3, <1>4, <2>1, <2>2 DEF Job
  <2>4. ExportTypeOK'
    BY <2>1, <2>3 DEF ExportInv, ExportTypeOK
  <2>5. RowsClassified'
    BY <1>2, <2>1, <2>3 DEF ExportInv, RowsClassified, Classified, Opening
  <2> QED
    BY <1>1, <1>2, <2>1, <2>3, <2>4, <2>5 DEF Opening
<1>8. ASSUME NEW i \in MemoIds, BackfillRow(i)
      PROVE  ExportInv'
  <2>1. /\ job.pc = "backfill" /\ i \in job.todo /\ schema' = schema /\ disk' = disk /\ stale' = stale
    BY <1>8 DEF BackfillRow, At
  <2>2. CASE memos' = memos /\ job' = Rest("closed")
    <3>1. ExportTypeOK'
      BY <1>3, <1>4, <2>1, <2>2 DEF ExportInv, ExportTypeOK
    <3>2. RowsClassified'
      BY <1>2, <1>3, <1>4, <2>1, <2>2 DEF ExportInv, RowsClassified, Classified, Opening
    <3> QED
      BY <1>1, <1>2, <1>3, <1>4, <2>1, <2>2, <3>1, <3>2 DEF Opening
  <2>3. CASE /\ memos' = IF memos[i].shared
                         THEN [memos EXCEPT ![i].shared = memos[i].text \in MayHear] ELSE memos
             /\ job' = [job EXCEPT !.todo = @ \ {i}]
    <3>1. memos \in [MemoIds -> Memo] /\ i \in Rows /\ job \in Job /\ job.had = FALSE
      BY <2>1 DEF ExportInv, ExportTypeOK, RowsClassified, TreeKept, Safe, Opening, Job
    <3>2. /\ job'.pc = "backfill" /\ job'.had = job.had /\ job'.todo = job.todo \ {i} /\ job' \in Job
      BY <2>1, <2>3, <3>1 DEF Job
    <3>3. /\ memos' \in [MemoIds -> Memo]
          /\ \A k \in MemoIds \ {i} : memos'[k] = memos[k]
          /\ memos'[i].promoted = memos[i].promoted /\ memos'[i].text = memos[i].text
          /\ memos'[i].shared => memos[i].shared /\ memos[i].text \in MayHear
          /\ ~memos[i].shared \/ memos[i].text \in MayHear => memos'[i] = memos[i]
          /\ memos'[i] = memos[i] \/ memos'[i].shared = FALSE
      <4>1. PICK b \in BOOLEAN : b <=> memos[i].text \in MayHear
        OBVIOUS
      <4>2. b = (memos[i].text \in MayHear)
        BY <4>1
      <4>3. memos' = IF memos[i].shared THEN [memos EXCEPT ![i].shared = b] ELSE memos
        BY <2>3, <4>2, Zenon
      <4>4. i \in MemoIds /\ memos[i] \in Memo
        BY <3>1
      <4>5. CASE memos[i].shared
        <5>1. memos'[i] = [memos[i] EXCEPT !.shared = b] /\ memos' = [memos EXCEPT ![i] = memos'[i]]
          BY <3>1, <4>3, <4>5
        <5>2. /\ memos'[i] \in Memo /\ memos'[i].promoted = memos[i].promoted
              /\ memos'[i].text = memos[i].text /\ memos'[i].shared = b
              /\ b = TRUE => memos'[i] = memos[i]
          BY <4>4, <4>5, <5>1 DEF Memo
        <5> QED
          BY <3>1, <4>1, <4>4, <4>5, <5>1, <5>2
      <4>6. CASE ~memos[i].shared
        BY <3>1, <4>3, <4>6
      <4> QED
        BY <4>5, <4>6
    <3>4. ExportTypeOK'
      BY <2>1, <3>2, <3>3 DEF ExportInv, ExportTypeOK
    <3>5. memos[i].promoted => memos'[i].shared = memos[i].shared
      <4>1. memos[i].promoted => (memos[i].shared => memos[i].text \in MayHear)
        BY <3>1 DEF ExportInv, RowsClassified, Promoted, Classified
      <4> QED
        BY <3>3, <4>1
    <3>6. Promoted' = Promoted /\ PromotedLines' = PromotedLines
      BY <3>3, <3>4, <3>5, LinesKept DEF ExportInv
    <3>7. \A k \in MemoIds \ {i} : (k \in Rows' <=> k \in Rows) /\ Classified(k)' = Classified(k)
      BY <3>3 DEF Rows, Classified
    <3>8. Classified(i)' /\ i \in Rows'
      <4>1. CASE memos'[i] = memos[i]
        BY <3>1, <3>3, <4>1 DEF Rows, Classified
      <4>2. CASE memos'[i] # memos[i]
        <5>1. memos'[i].shared = FALSE
          BY <3>3, <4>2
        <5>2. NoMemo.shared = TRUE
          BY DEF NoMemo
        <5> QED
          BY <5>1, <5>2 DEF Rows, Classified
      <4> QED
        BY <4>1, <4>2
    <3>9. RowsClassified'
      <4>1. Rows \subseteq MemoIds /\ Rows' \subseteq MemoIds /\ Promoted' \subseteq Rows'
        BY DEF Rows, Promoted
      <4>2. \A k \in Rows' \ job'.todo : Classified(k)'
        BY <2>1, <3>2, <3>7, <3>8, <4>1 DEF ExportInv, RowsClassified
      <4>3. \A k \in Promoted' : Classified(k)'
        BY <3>6, <3>7, <3>8, <4>1 DEF ExportInv, RowsClassified
      <4>4. schema.current => \A k \in Rows' : Classified(k)'
        BY <3>7, <3>8, <4>1 DEF ExportInv, RowsClassified
      <4>5. job'.todo \subseteq Rows'
        BY <2>1, <3>2, <3>7, <4>1 DEF ExportInv, RowsClassified
      <4> QED
        BY <2>1, <3>2, <4>2, <4>3, <4>4, <4>5 DEF RowsClassified, Opening
    <3> QED
      BY <1>1, <2>1, <3>1, <3>2, <3>4, <3>6, <3>9 DEF Opening
  <2> QED
    BY <1>8, <2>2, <2>3 DEF BackfillRow
<1>9. CASE StoreVersion
  <2>1. /\ job.pc = "backfill" /\ job.todo = {} /\ memos' = memos /\ disk' = disk /\ stale' = stale
        /\ schema' = [schema EXCEPT !.current = ~schema.degraded] /\ job' = Rest("open")
    BY <1>9 DEF StoreVersion, At
  <2>2. ExportTypeOK' /\ job'.pc = "open" /\ job'.had = FALSE
    BY <1>3, <1>4, <2>1 DEF ExportInv, ExportTypeOK
  <2>3. \A k \in Rows : Classified(k)
    BY <2>1 DEF ExportInv, RowsClassified
  <2>4. RowsClassified'
    BY <1>2, <2>1, <2>2, <2>3 DEF ExportInv, RowsClassified, Classified
  <2> QED
    BY <1>1, <1>2, <2>1, <2>2, <2>4 DEF Opening
<1> QED
  BY <1>5, <1>6, <1>7, <1>8, <1>9

LEMMA RebuildStarts ==
  ASSUME ExportInv, NEW then \in {"open", "prune"}, StartRebuild(then),
         memos' \in [MemoIds -> Memo], schema' = schema, disk' = disk, stale' \in BOOLEAN,
         \A k \in Rows' : Classified(k)'
  PROVE  ExportInv'
<1>1. job' = [pc |-> "plan", todo |-> {}, plan |-> {}, then |-> then, had |-> disk.live.there, faults |-> 0]
  BY DEF StartRebuild, Rest
<1>2. ExportTypeOK'
  BY <1>1 DEF ExportInv, ExportTypeOK, Job, Places, Disk, Tree
<1>3. RowsClassified'
  BY <1>1 DEF RowsClassified, Promoted
<1>4. RebuildSound'
  BY <1>1 DEF RebuildSound, Built, Writing, Swapped, Removing, Opening
<1>5. TreeKept'
  BY <1>1 DEF ExportInv, TreeKept, Safe, Whole, Removing, Opening
<1> QED
  BY <1>2, <1>3, <1>4, <1>5 DEF ExportInv

(* A change of rows that the export does not show. *)
LEMMA UnseenChange ==
  ASSUME ExportInv, job.pc \in {"open", "prune"}, job' \in Job, job'.pc = "open", job'.had = job.had,
         memos' \in [MemoIds -> Memo], schema' = schema, disk' = disk, stale' = stale,
         \A k \in Rows' : Classified(k)',
         \A k \in MemoIds : /\ memos'[k].promoted = memos[k].promoted
                            /\ memos[k].promoted => /\ memos'[k].text = memos[k].text
                                                    /\ memos'[k].shared = memos[k].shared
  PROVE  ExportInv'
<1>1. ExportTypeOK'
  BY DEF ExportInv, ExportTypeOK
<1>2. Promoted' = Promoted /\ PromotedLines' = PromotedLines
  BY <1>1, LinesKept DEF ExportInv
<1>3. RowsClassified'
  BY DEF RowsClassified, Promoted
<1>4. RebuildSound'
  BY <1>2 DEF ExportInv, RebuildSound, Exact, Built, Writing, Swapped, Removing, Opening
<1>5. TreeKept'
  BY DEF ExportInv, TreeKept, Safe, Whole, Removing, Opening
<1> QED
  BY <1>1, <1>3, <1>4, <1>5 DEF ExportInv

LEMMA NewRow ==
  ASSUME ExportInv, job.pc \notin Opening, NEW i \in MemoIds, NEW m \in Memo,
         m.shared => m.text \in MayHear, memos' = [memos EXCEPT ![i] = m]
  PROVE  memos' \in [MemoIds -> Memo] /\ \A k \in Rows' : Classified(k)'
<1>1. memos \in [MemoIds -> Memo] /\ \A k \in Rows : Classified(k)
  BY DEF ExportInv, ExportTypeOK, RowsClassified
<1>2. memos' \in [MemoIds -> Memo] /\ memos'[i] = m /\ \A k \in MemoIds \ {i} : memos'[k] = memos[k]
  BY <1>1
<1>3. \A k \in Rows' \ {i} : Classified(k)'
  BY <1>1, <1>2 DEF Rows, Classified
<1>4. Classified(i)'
  BY <1>2 DEF Classified
<1> QED
  BY <1>2, <1>3, <1>4

LEMMA NoMemoIsMemo == NoMemo \in Memo /\ NoMemo.promoted = FALSE
BY DEF NoMemo, Memo, Texts

LEMMA RowsKeepExportInv ==
  ASSUME ExportInv, NEW i \in MemoIds,
         \/ \E t \in Contents : StoreMemo(i, t) \/ UpdateRow(i, t)
         \/ \E new \in BOOLEAN : RecallMemo(i, new)
         \/ DeleteRow(i) \/ MarkPromoted(i)
  PROVE  ExportInv'
<1>1. memos \in [MemoIds -> Memo] /\ disk \in Disk /\ job \in Job /\ stale \in BOOLEAN
  BY DEF ExportInv, ExportTypeOK
<1>2. \A b \in BOOLEAN : "open" \notin Opening /\ "mark" \notin Opening
  BY DEF Opening
<1>3. \A k \in MemoIds : memos[k] \in Memo /\ (memos[k].promoted => k \in Rows)
  BY <1>1, PromotedRows DEF ExportInv, Promoted
<1>4. NoMemo = [text |-> "", shared |-> TRUE, promoted |-> FALSE, recalls |-> 0, queries |-> 0] /\ NoMemo \in Memo
  BY NoMemoIsMemo, Zenon DEF NoMemo
<1>5. job.pc \notin Opening => \A k \in Rows : Classified(k)
  BY DEF ExportInv, RowsClassified
<1>6. ASSUME NEW t \in Contents, StoreMemo(i, t)
      PROVE  ExportInv'
  <2>0. (t \in MayHear) \in BOOLEAN
    BY SMT
  <2>1. PICK b \in BOOLEAN : b = (t \in MayHear)
    BY <2>0, Zenon
  <2> DEFINE m == [NoMemo EXCEPT !.text = t, !.shared = b]
  <2>2. /\ job.pc = "open" /\ i \notin Rows /\ UNCHANGED <<schema, disk, job, stale>>
        /\ memos' = [memos EXCEPT ![i] = [NoMemo EXCEPT !.text = t, !.shared = t \in MayHear]]
    BY <1>6 DEF StoreMemo, Change, Ready, At
  <2>3. m = [NoMemo EXCEPT !.text = t, !.shared = t \in MayHear]
    BY <2>1, Zenon
  <2>4. m \in Memo /\ m.promoted = FALSE /\ (m.shared => m.text \in MayHear)
    BY <2>1, NoMemoIsMemo DEF Memo, Texts
  <2> HIDE DEF m
  <2>5. memos' = [memos EXCEPT ![i] = m]
    BY <2>2, <2>3
  <2>6. memos' \in [MemoIds -> Memo] /\ \A k \in Rows' : Classified(k)'
    BY <1>2, <2>2, <2>4, <2>5, NewRow
  <2>7. memos[i].promoted = FALSE
    BY <1>3, <2>2 DEF Memo
  <2> QED
    BY <1>1, <2>2, <2>4, <2>5, <2>6, <2>7, UnseenChange DEF Job
<1>7. ASSUME NEW t \in Contents, UpdateRow(i, t)
      PROVE  ExportInv'
  <2>0. (t \in MayHear) \in BOOLEAN
    BY SMT
  <2>1. PICK b \in BOOLEAN : b = (t \in MayHear)
    BY <2>0, Zenon
  <2> DEFINE m == [memos[i] EXCEPT !.text = t, !.shared = b]
  <2>2. /\ job.pc = "open" /\ UNCHANGED <<schema, disk, stale>>
        /\ memos' = [memos EXCEPT ![i].text = t, ![i].shared = t \in MayHear]
        /\ IF memos[i].promoted THEN StartRebuild("open") ELSE job' = job
    BY <1>7 DEF UpdateRow, Change, Ready, At
  <2>3. m \in Memo /\ m.promoted = memos[i].promoted /\ (m.shared => m.text \in MayHear)
    BY <1>3, <2>1 DEF Memo, Texts
  <2>4. memos' = [memos EXCEPT ![i] = m]
    <3>1. memos' = [memos EXCEPT ![i].text = t, ![i].shared = b]
      BY <2>1, <2>2, Zenon
    <3> QED
      BY <3>1, Zenon
  <2> HIDE DEF m
  <2>5. memos' \in [MemoIds -> Memo] /\ \A k \in Rows' : Classified(k)'
    BY <1>2, <2>2, <2>3, <2>4, NewRow
  <2>6. CASE memos[i].promoted
    BY <1>1, <2>2, <2>5, <2>6, RebuildStarts
  <2>7. CASE ~memos[i].promoted
    BY <1>1, <2>2, <2>3, <2>4, <2>5, <2>7, UnseenChange DEF Job
  <2> QED
    BY <2>6, <2>7
<1>8. ASSUME NEW new \in BOOLEAN, RecallMemo(i, new)
      PROVE  ExportInv'
  <2> DEFINE more == IF new THEN 1 ELSE 0
             m == [memos[i] EXCEPT !.recalls = @ + 1, !.queries = @ + more]
  <2>1. /\ job.pc = "open" /\ i \in Rows /\ UNCHANGED <<schema, disk, job, stale>>
        /\ memos' = [memos EXCEPT ![i].recalls = @ + 1, ![i].queries = @ + more]
    BY <1>8 DEF RecallMemo, Ready, At
  <2>2. more \in Nat
    OBVIOUS
  <2> HIDE DEF more
  <2>3. m \in Memo /\ m.promoted = memos[i].promoted /\ m.text = memos[i].text /\ m.shared = memos[i].shared
    <3>1. memos[i].recalls + 1 \in Nat /\ memos[i].queries + more \in Nat
      BY <1>3, <2>2 DEF Memo
    <3>2. PICK x \in Nat, y \in Nat : x = memos[i].recalls + 1 /\ y = memos[i].queries + more
      BY <3>1
    <3>3. m = [memos[i] EXCEPT !.recalls = x, !.queries = y]
      BY <3>2
    <3> QED
      BY <1>3, <3>3 DEF Memo
  <2>4. memos' = [memos EXCEPT ![i] = m]
    BY <2>1, Zenon
  <2>5. memos[i].shared => memos[i].text \in MayHear
    BY <1>2, <1>5, <2>1 DEF Classified
  <2> HIDE DEF m
  <2>6. memos' \in [MemoIds -> Memo] /\ \A k \in Rows' : Classified(k)'
    BY <1>2, <2>1, <2>3, <2>4, <2>5, NewRow
  <2> QED
    BY <1>1, <2>1, <2>3, <2>4, <2>6, UnseenChange DEF Job
<1>9. CASE DeleteRow(i)
  <2>1. /\ job.pc = "open" /\ UNCHANGED <<schema, disk, stale>>
        /\ memos' = [memos EXCEPT ![i] = NoMemo]
        /\ IF memos[i].promoted THEN StartRebuild("open") ELSE job' = job
    BY <1>9 DEF DeleteRow, Change, Ready, At
  <2>2. memos' \in [MemoIds -> Memo] /\ \A k \in MemoIds \ {i} : memos'[k] = memos[k]
    BY <1>1, <1>4, <2>1
  <2>3. memos'[i] = NoMemo
    BY <1>1, <2>1
  <2>4. \A k \in Rows' : Classified(k)'
    BY <1>2, <1>5, <2>1, <2>2, <2>3 DEF Rows, Classified
  <2>5. CASE memos[i].promoted
    BY <1>1, <2>1, <2>2, <2>4, <2>5, RebuildStarts
  <2>6. CASE ~memos[i].promoted
    <3>1. memos[i].promoted \in BOOLEAN
      BY <1>3 DEF Memo
    <3>2. memos[i].promoted = FALSE
      BY <2>6, <3>1, Zenon
    <3>3. memos'[i].promoted = FALSE
      BY <2>3, NoMemoIsMemo
    <3> QED
      BY <1>1, <2>1, <2>2, <2>4, <2>6, <3>2, <3>3, UnseenChange DEF Job
  <2> QED
    BY <2>5, <2>6
<1>10. CASE MarkPromoted(i)
  <2> DEFINE m == [memos[i] EXCEPT !.promoted = TRUE]
  <2>1. /\ job.pc = "mark" /\ i \in job.todo /\ schema' = schema /\ disk' = disk /\ stale' = TRUE
        /\ memos' = [memos EXCEPT ![i].promoted = TRUE]
        /\ IF job.todo = {i} THEN StartRebuild("prune") ELSE job' = [job EXCEPT !.todo = @ \ {i}]
    BY <1>10 DEF MarkPromoted, At
  <2>2. i \in Rows /\ job.todo \subseteq Rows /\ job.had # TRUE
    BY <2>1 DEF ExportInv, RowsClassified, TreeKept, Safe
  <2>3. m \in Memo /\ m.promoted = TRUE /\ m.text = memos[i].text /\ m.shared = memos[i].shared
    BY <1>3 DEF Memo
  <2>4. memos' = [memos EXCEPT ![i] = m]
    BY <2>1, Zenon
  <2>5. memos[i].shared => memos[i].text \in MayHear
    BY <1>2, <1>5, <2>1, <2>2 DEF Classified
  <2> HIDE DEF m
  <2>6. memos' \in [MemoIds -> Memo] /\ \A k \in Rows' : Classified(k)'
    BY <1>2, <2>1, <2>3, <2>4, <2>5, NewRow
  <2>7. CASE job.todo = {i}
    BY <2>1, <2>6, <2>7, RebuildStarts
  <2>8. CASE job.todo # {i}
    <3>1. /\ job'.pc = "mark" /\ job'.had = job.had /\ job'.todo = job.todo \ {i} /\ job' \in Job
      BY <1>1, <2>1, <2>8 DEF Job
    <3>2. ExportTypeOK'
      BY <1>1, <2>1, <2>6, <3>1 DEF ExportInv, ExportTypeOK
    <3>3. RowsClassified'
      <4>1. \A k \in MemoIds \ {i} : memos'[k] = memos[k]
        BY <1>1, <2>4
      <4>2. job'.todo \subseteq Rows'
        BY <2>2, <3>1, <4>1 DEF Rows
      <4> QED
        BY <2>6, <3>1, <4>2 DEF RowsClassified, Promoted
    <3>4. RebuildSound'
      BY <3>1 DEF RebuildSound, Built, Writing, Swapped, Removing, Opening
    <3>5. TreeKept'
      BY <1>1, <2>1, <2>2, <3>1 DEF ExportInv, TreeKept, Safe, Whole, Job
    <3> QED
      BY <3>2, <3>3, <3>4, <3>5 DEF ExportInv
  <2> QED
    BY <2>7, <2>8
<1> QED
  BY <1>6, <1>7, <1>8, <1>9, <1>10

LEMMA CycleKeepsExportInv ==
  ASSUME ExportInv, \/ ReorderManaged \/ (\E decayed \in SUBSET MemoIds : PruneDecayed(decayed))
                    \/ \E relevance, recency : Ready /\ DreamCycle(relevance, recency)
  PROVE  ExportInv'
<1>1. memos \in [MemoIds -> Memo] /\ disk \in Disk /\ job \in Job /\ stale \in BOOLEAN
  BY DEF ExportInv, ExportTypeOK
<1>2. job.pc \notin Opening => \A k \in Rows : Classified(k)
  BY DEF ExportInv, RowsClassified
<1>3. CASE ReorderManaged
  <2>1. job.pc = "open" /\ StartRebuild("open") /\ UNCHANGED <<memos, schema, disk, stale>>
    BY <1>3 DEF ReorderManaged, Change, Ready, At
  <2>2. \A k \in Rows' : Classified(k)'
    BY <1>2, <2>1 DEF Rows, Classified, Opening
  <2> QED
    BY <1>1, <2>1, <2>2, RebuildStarts
<1>4. ASSUME NEW decayed \in SUBSET MemoIds, PruneDecayed(decayed)
      PROVE  ExportInv'
  <2>1. /\ job.pc = "prune" /\ decayed \subseteq Rows \ Promoted /\ UNCHANGED <<schema, disk, stale>>
        /\ memos' = [i \in MemoIds |-> IF i \in decayed THEN NoMemo ELSE memos[i]]
        /\ job' = [job EXCEPT !.pc = "open"]
    BY <1>4 DEF PruneDecayed, GoTo, At
  <2>2. NoMemo \in Memo /\ NoMemo.promoted = FALSE
    BY DEF NoMemo, Memo, Texts
  <2>3. /\ memos' \in [MemoIds -> Memo]
        /\ \A k \in MemoIds \ decayed : memos'[k] = memos[k]
        /\ \A k \in decayed : memos'[k] = NoMemo
    BY <1>1, <2>1, <2>2
  <2>4. \A k \in Rows' : Classified(k)'
    BY <1>2, <2>1, <2>3 DEF Rows, Classified, Opening
  <2>5. \A k \in decayed : memos[k].promoted = FALSE
    <3>1. \A k \in decayed : ~memos[k].promoted
      BY <2>1 DEF Promoted
    <3> QED
      BY <1>1, <3>1 DEF Memo
  <2>6. job' \in Job /\ job'.pc = "open" /\ job'.had = job.had
    BY <1>1, <2>1 DEF Job, Places
  <2> QED
    BY <2>1, <2>2, <2>3, <2>4, <2>5, <2>6, UnseenChange
<1>5. ASSUME NEW relevance, NEW recency, DreamCycle(relevance, recency)
      PROVE  ExportInv'
  <2>1. PICK score : \E w \in Winners(score) :
          job' = IF w = {} THEN Rest("prune") ELSE [Rest("mark") EXCEPT !.todo = w]
    BY <1>5 DEF DreamCycle
  <2>0. PICK w \in Winners(score) :
          job' = IF w = {} THEN Rest("prune") ELSE [Rest("mark") EXCEPT !.todo = w]
    BY <2>1
  <2>2. job.pc = "open" /\ UNCHANGED <<memos, schema, disk, stale>>
    BY <1>5 DEF DreamCycle, Change, Ready, At
  <2>3. w \subseteq Rows /\ Rows \subseteq MemoIds
    BY <2>0 DEF Winners, PromotionCandidates, Rows
  <2>4. /\ job'.pc \in {"prune", "mark"} /\ job'.had = FALSE /\ job' \in Job /\ job'.todo \subseteq Rows
    BY <2>0, <2>3 DEF Rest, Job, Places
  <2>5. Promoted' = Promoted /\ PromotedLines' = PromotedLines /\ Rows' = Rows
    BY <2>2 DEF Promoted, PromotedLines, Rows, Line
  <2>6. ExportTypeOK'
    BY <2>2, <2>4 DEF ExportInv, ExportTypeOK
  <2>7. RowsClassified'
    BY <1>2, <2>2, <2>4, <2>5 DEF ExportInv, RowsClassified, Classified, Opening
  <2>8. RebuildSound'
    BY <2>2, <2>4, <2>5 DEF ExportInv, RebuildSound, Exact, Built, Writing, Swapped, Removing, Opening
  <2>9. TreeKept'
    BY <2>2, <2>4 DEF ExportInv, TreeKept, Safe, Whole
  <2> QED
    BY <2>6, <2>7, <2>8, <2>9 DEF ExportInv
<1> QED
  BY <1>3, <1>4, <1>5

(***************************************************************************)
(* For any rows, contents, policies, columns and promotion rules, whatever *)
(* statement or file operation fails and whenever the process dies: the    *)
(* export shows the promoted rows and nothing a shared room may not hear,  *)
(* its directory is never half written, and an opened store is classified  *)
(* (rebuild_root_memory_file, dream_cycle, open_with_half_life).           *)
(***************************************************************************)
THEOREM ExportAlwaysSound == ExportSpec => []ExportSound
<1>1. ExportInit => ExportInv
  <2> SUFFICES ASSUME ExportInit PROVE ExportInv
    OBVIOUS
  <2>1. ExportTypeOK
    <3>1. NoMemo \in Memo /\ \A t \in Contents : [NoMemo EXCEPT !.text = t] \in Memo
      BY DEF NoMemo, Memo, Texts
    <3>2. Rest("closed") \in Job
      BY DEF Rest, Job, Places, Opening
    <3>3. memos \in [MemoIds -> Memo] /\ job \in Job /\ stale \in BOOLEAN
      <4>1. {NoMemo} \cup {[NoMemo EXCEPT !.text = t] : t \in Contents} \subseteq Memo
        BY <3>1
      <4> QED
        BY <3>2, <4>1 DEF ExportInit
    <3>4. disk \in Disk
      BY NothingOnDisk DEF ExportInit, Disk
    <3>5. ExportTypeOK
      BY <3>3, <3>4 DEF ExportInit, ExportTypeOK
    <3> QED
      BY <3>5
  <2>2. Promoted = {}
    <3>1. \A i \in MemoIds : memos[i] \in {NoMemo} \cup {[NoMemo EXCEPT !.text = t] : t \in Contents}
      BY DEF ExportInit
    <3>2. \A t \in Contents : [NoMemo EXCEPT !.text = t].promoted = FALSE
      BY DEF NoMemo
    <3>3. \A i \in MemoIds : memos[i].promoted = FALSE
      BY <3>1, <3>2, NoMemoIsMemo
    <3> QED
      BY <3>3 DEF Promoted, Rows
  <2>3. job.pc = "closed" /\ job.had = FALSE /\ ~schema.current
    BY DEF ExportInit, Rest
  <2>4. RowsClassified
    BY <2>2, <2>3 DEF RowsClassified, Opening
  <2>5. Exact
    BY <2>2, NothingOnDisk DEF ExportInit, Exact, PromotedLines
  <2>6. RebuildSound
    BY <2>3, <2>5 DEF RebuildSound, Built, Writing, Swapped, Removing, Opening
  <2>7. TreeKept
    BY <2>3, NothingOnDisk DEF ExportInit, TreeKept, Safe
  <2> QED
    BY <2>1, <2>4, <2>6, <2>7 DEF ExportInv
<1>2. ExportInv /\ [ExportNext]_exportVars => ExportInv'
  <2>1. ASSUME ExportInv, UNCHANGED exportVars PROVE ExportInv'
    BY <2>1 DEF exportVars, ExportInv, ExportTypeOK, RowsClassified, RebuildSound, TreeKept, Built, Safe,
                Exact, Promoted, PromotedLines, Rows, Line, Classified, Whole
  <2> QED
    BY <2>1, OpeningKeepsExportInv, RowsKeepExportInv, CycleKeepsExportInv, ReadPlanKeepsExportInv,
       RemovingKeepsExportInv, WritingKeepsExportInv, SwappingKeepsExportInv, EndingKeepsExportInv
       DEF ExportNext, RebuildTree
<1>3. ExportInv => ExportSound
  <2> SUFFICES ASSUME ExportInv PROVE ExportSound
    OBVIOUS
  <2>1. OpenedIsClassified
    BY DEF OpenedIsClassified, Ready, At, ExportInv, RowsClassified, Classified, Opening
  <2>2. LiveTreeWhole
    BY DEF LiveTreeWhole, At, ExportInv, TreeKept, Safe, Whole
  <2>3. ExportExact
    <3> DEFINE shown == {[Line(i) EXCEPT !.text = IF memos[i].text \in MayHear THEN @ ELSE Redacted]
                           : i \in Promoted}
    <3>1. \A i \in Promoted : [Line(i) EXCEPT !.text = IF memos[i].text \in MayHear THEN @ ELSE Redacted] = Line(i)
      BY DEF ExportInv, RowsClassified, Classified, Line
    <3>2. shown = PromotedLines
      BY <3>1 DEF PromotedLines
    <3>3. shown = {} <=> Promoted = {}
      OBVIOUS
    <3> HIDE DEF shown
    <3>4. At("open") /\ ~stale => Exact
      BY DEF At, ExportInv, RebuildSound
    <3>5. (shown # {}) = (Promoted # {})
      BY <3>3
    <3> QED
      BY <3>2, <3>4, <3>5 DEF ExportExact, Exact, shown
  <2> QED
    BY <2>1, <2>2, <2>3 DEF ExportSound
<1> QED
  BY <1>1, <1>2, <1>3, PTL DEF ExportSpec
=============================================================================
