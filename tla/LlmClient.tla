------------------------------ MODULE LlmClient ------------------------------
(***************************************************************************)
(* The request the LLM clients send (llm/openai_compat.rs): the on-device  *)
(* runtime takes bodies up to MaxBody, larger ones are compacted; a        *)
(* backend without a system role gets it folded into the first user        *)
(* message.  A message is [role, bytes, escapes, what]: bytes is what the   *)
(* compaction reckons for it, the text and a fixed surplus; escapes is     *)
(* what its JSON form takes beyond that (a quote or a line end takes two   *)
(* bytes); what tells the messages apart.                                  *)
(***************************************************************************)
EXTENDS Naturals, Sequences, SequencesExt

CONSTANTS Runtime,        \* the backend is genie-ai-runtime
          MaxBody,        \* GENIE_RUNTIME_MAX_BODY_BYTES
          Overhead,       \* GENIE_RUNTIME_BODY_OVERHEAD_BYTES
          Envelope,       \* bytes of the body around its messages
          CompactSystem,  \* reckoned for the compacted system message
          CompactEscapes  \* and what escaping it takes beyond

ASSUME LlmAssumption == /\ Runtime \in BOOLEAN
                        /\ MaxBody \in Nat /\ Overhead \in Nat /\ Envelope \in Nat
                        /\ CompactSystem \in Nat /\ CompactEscapes \in Nat
                        /\ Overhead <= MaxBody

Message(role, bytes, escapes, what) ==
    [role |-> role, bytes |-> bytes, escapes |-> escapes, what |-> what]

\* The compaction budgets with the first, the runtime sees the last.
EstimateBytes(ms) == FoldLeft(LAMBDA sum, m : sum + m.bytes, 0, ms)
EscapeBytes(ms) == FoldLeft(LAMBDA sum, m : sum + m.escapes, 0, ms)
BodyBytes(ms) == Envelope + EstimateBytes(ms) + EscapeBytes(ms)
IsSystem(m) == m.role = "system"
NotSystem(m) == m.role # "system"
HasSystem(ms) == \E i \in DOMAIN ms : IsSystem(ms[i])

\* The tools, rules and household context found in the system messages, in a
\* fixed form; everything else of them is dropped.
CompactRuntimeSystem(ms) ==
    IF HasSystem(ms) THEN <<Message("system", CompactSystem, CompactEscapes, "compact")>> ELSE <<>>

\* The last user message, else the last one that is not a system message.
LatestIndex(ms) ==
    IF \E i \in DOMAIN ms : ms[i].role = "user"
    THEN SelectLastInSeq(ms, LAMBDA m : m.role = "user")
    ELSE SelectLastInSeq(ms, NotSystem)

\* Variant: a message that does not fit is left out and older ones are tried.
RetainedSkipping(older, room) ==
    FoldRight(LAMBDA m, kept : IF EstimateBytes(kept) + m.bytes <= room THEN <<m>> \o kept
                               ELSE kept, older, <<>>)

\* The newest messages that fit, up to the first that does not.
RetainedHistory(older, room) ==
    LET fits == { k \in 0..Len(older) :
                    \A j \in 0..k : EstimateBytes(SubSeq(older, Len(older) - j + 1, Len(older))) <= room }
        k == CHOOSE k \in fits : \A j \in fits : j <= k
    IN  SubSeq(older, Len(older) - k + 1, Len(older))

\* With no system message the latest one carries the compact instructions.
CompactMessages(ms) ==
    LET system == CompactRuntimeSystem(ms)
        i == LatestIndex(ms)
        last == ms[i]
        latest == IF system = <<>> THEN Message("user", last.bytes + CompactSystem, last.escapes + CompactEscapes, last.what)
                  ELSE [last EXCEPT !.role = "user"]
        used == EstimateBytes(system) + latest.bytes
        room == IF used + Overhead > MaxBody THEN 0 ELSE MaxBody - Overhead - used
        older == SelectSeq(SubSeq(ms, 1, i - 1), NotSystem)
    IN  IF i = 0 THEN system
        ELSE system \o (IF used + Overhead > MaxBody THEN <<>> ELSE RetainedHistory(older, room))
                    \o <<latest>>

\* The length is taken before the compaction, and not again after it.
PrepareBody(ms) == IF ~Runtime \/ BodyBytes(ms) <= MaxBody THEN ms ELSE CompactMessages(ms)

\* For the one retry after "system role not supported".
FlattenSystemIntoFirstUser(ms) ==
    LET system == SelectSeq(ms, IsSystem)
        rest == SelectSeq(ms, NotSystem)
        i == SelectInSeq(rest, LAMBDA m : m.role = "user")
    IN  IF system = <<>> THEN rest
        ELSE IF i = 0 THEN <<Message("user", EstimateBytes(system), EscapeBytes(system), "instructions")>> \o rest
        ELSE [rest EXCEPT ![i].bytes = @ + EstimateBytes(system), ![i].escapes = @ + EscapeBytes(system)]
=============================================================================
