------------------------------- MODULE Skills -------------------------------
(***************************************************************************)
(* Native skills (skills/loader.rs, skills/signature.rs,                   *)
(* tools/dispatch/skill.rs): libraries loaded once at start and called on  *)
(* blocking threads.  A call that times out is reported and its thread     *)
(* abandoned; a skill with three faults is dropped while such threads may  *)
(* still run in its library.  refs counts the Arc handles on a library:    *)
(* it is unmapped when the last one is dropped.                            *)
(***************************************************************************)
EXTENDS Naturals, FiniteSets

CONSTANTS SkillFiles,        \* the .so files of the skills directory
          SkillName,         \* file -> the name its vtable gives
          Signed,            \* files whose signature a trusted key verifies
          ManifestOk,        \* files whose manifest names the same skill and version
          Denied,            \* files that ask for a denied permission
          Unusable,          \* files without a valid entry point, ABI or schema
          RequireSignature, RequireManifest,
          Callers, MaxCalls  \* turns that call skills; bound on all calls

ASSUME SkillsAssumption == /\ SkillName \in [SkillFiles -> STRING]
                           /\ Signed \subseteq SkillFiles /\ ManifestOk \subseteq SkillFiles
                           /\ RequireSignature \in BOOLEAN /\ RequireManifest \in BOOLEAN

FaultLimit == 3

VARIABLES unread,   \* files load_all has not reached
          ran,      \* files whose code has been run
          loaded,   \* skill name -> [file, faults]
          refs,     \* file -> handles on its library
          threads,  \* blocking threads: [id, by, file, abandoned]
          waiting,  \* caller -> what it does in exec_skill
          issued    \* calls so far
skillVars == <<unread, ran, loaded, refs, threads, waiting, issued>>

Idle == [at |-> "idle", name |-> "none", faulted |-> FALSE]

SkillsInit ==
    /\ unread = SkillFiles /\ ran = {}
    /\ loaded = [n \in {} |-> 0]
    /\ refs = [f \in SkillFiles |-> 0]
    /\ threads = {} /\ issued = 0
    /\ waiting = [c \in Callers |-> Idle]

Without(m, n) == [x \in DOMAIN m \ {n} |-> m[x]]

\* enforce_skill_policy: checks that need the loaded vtable.
EnforceSkillPolicy(f) == (RequireManifest => f \in ManifestOk) /\ f \notin Denied

\* Before dlopen: nothing of an unverified file runs when a signature is
\* required.
MayOpen(f) == RequireSignature => f \in Signed

\* One file of load_all.  dlopen and genie_skill_init run its code; a later
\* rejection drops the library again.
LoadSkill(f) ==
    LET name == SkillName[f]
        accepted == /\ MayOpen(f) /\ f \notin Unusable
                    /\ name \notin DOMAIN loaded /\ EnforceSkillPolicy(f)
    IN  /\ f \in unread
        /\ unread' = unread \ {f}
        /\ ran' = IF MayOpen(f) THEN ran \cup {f} ELSE ran
        /\ loaded' = IF accepted
                     THEN [n \in DOMAIN loaded \cup {name} |->
                             IF n = name THEN [file |-> f, faults |-> 0] ELSE loaded[n]]
                     ELSE loaded
        /\ refs' = IF accepted THEN [refs EXCEPT ![f] = 1] ELSE refs
        /\ UNCHANGED <<threads, waiting, issued>>

\* Variant: the call uses the vtable without a handle of its own.
PrepareNoHandle(f) == refs

\* prepare clones the library handle under the lock.
Prepare(f) == [refs EXCEPT ![f] = @ + 1]

\* exec_skill up to the await.  The dispatcher serves turns once load_all has
\* returned; an unknown name is an error.
ExecSkill(c, name) ==
    /\ unread = {} /\ waiting[c] = Idle /\ issued < MaxCalls
    /\ name \in DOMAIN loaded
    /\ LET f == loaded[name].file
       IN  /\ refs' = Prepare(f)
           /\ threads' = threads \cup {[id |-> issued, by |-> c, file |-> f, abandoned |-> FALSE]}
    /\ waiting' = [waiting EXCEPT ![c] = [at |-> "call", name |-> name, faulted |-> FALSE]]
    /\ issued' = issued + 1
    /\ UNCHANGED <<unread, ran, loaded>>

Drop(f) == [refs EXCEPT ![f] = @ - 1]

\* The thread ends; its caller sees what came back unless it stopped waiting.
\* Null, a panic and success:false are faults; text that is not JSON is not.
ThreadEnds(t) ==
    /\ threads' = threads \ {t}
    /\ refs' = Drop(t.file)
    /\ IF t.abandoned THEN UNCHANGED waiting
       ELSE \E faulted \in BOOLEAN :
              waiting' = [waiting EXCEPT ![t.by].at = "record", ![t.by].faulted = faulted]
    /\ UNCHANGED <<unread, ran, loaded, issued>>

\* The deadline: the caller goes on, the thread cannot be cancelled.
SkillTimeout(t) ==
    /\ ~t.abandoned
    /\ threads' = (threads \ {t}) \cup {[t EXCEPT !.abandoned = TRUE]}
    /\ waiting' = [waiting EXCEPT ![t.by].at = "record", ![t.by].faulted = TRUE]
    /\ UNCHANGED <<unread, ran, loaded, refs, issued>>

\* The second lock: charge the fault if the skill is still there and prune.
RecordOutcome(c) ==
    LET w == waiting[c]
        known == w.name \in DOMAIN loaded
        faults == IF w.faulted THEN loaded[w.name].faults + 1 ELSE loaded[w.name].faults
    IN  /\ w.at = "record"
        /\ IF known /\ faults >= FaultLimit
           THEN loaded' = Without(loaded, w.name) /\ refs' = Drop(loaded[w.name].file)
           ELSE /\ loaded' = IF known THEN [loaded EXCEPT ![w.name].faults = faults] ELSE loaded
                /\ UNCHANGED refs
        /\ waiting' = [waiting EXCEPT ![c] = Idle]
        /\ UNCHANGED <<unread, ran, threads, issued>>

SkillsNext ==
    \/ \E f \in SkillFiles : LoadSkill(f)
    \/ \E c \in Callers, n \in DOMAIN loaded : ExecSkill(c, n)
    \/ \E t \in threads : ThreadEnds(t)
    \/ \E t \in threads : SkillTimeout(t)
    \/ \E c \in Callers : RecordOutcome(c)

SkillsSpec == SkillsInit /\ [][SkillsNext]_skillVars

-----------------------------------------------------------------------------
\* While a thread runs in a skill, abandoned or not, its library stays mapped
\* although the skill may have been dropped meanwhile; a library nobody uses
\* is unmapped (LoadedSkill.lib, SkillInvocation._lib).
SkillCodeMapped ==
    \A f \in SkillFiles :
        refs[f] > 0 <=> \/ \E t \in threads : t.file = f
                        \/ \E n \in DOMAIN loaded : loaded[n].file = f

\* With signatures required, the entry point of an unverified file is never
\* run, and what is loaded passed the whole policy (load_skill).
OnlyVerifiedCodeRuns ==
    /\ RequireSignature => ran \subseteq Signed
    /\ \A n \in DOMAIN loaded : loaded[n].file \in ran /\ EnforceSkillPolicy(loaded[n].file)
                                /\ loaded[n].faults < FaultLimit

(***************************************************************************)
(* What a skill's code may do: it runs only when it was verified, and      *)
(* never after its library was unmapped (load_skill, SkillInvocation).     *)
(***************************************************************************)
SkillsSound == SkillCodeMapped /\ OnlyVerifiedCodeRuns
=============================================================================
