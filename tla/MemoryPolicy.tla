---------------------------- MODULE MemoryPolicy ----------------------------
(***************************************************************************)
(* Which household memories may be written and spoken (memory/policy.rs).  *)
(*                                                                         *)
(* A fact is what one memory says: its kind and text, and what the text    *)
(* scanners of the memory module find in them.                             *)
(*   private, person      a private or person-linked kind, or a text that  *)
(*                        asks for privacy                                 *)
(*   restricted, cautious restricted_secret_reason, is_cautious_memory     *)
(*   slot                 memory_slot: the single-valued question the fact *)
(*                        answers, or NoSlot                               *)
(*   alias                device_alias_from_memory: the spoken alias, or   *)
(*                        NoAlias                                          *)
(*   tables               the derived tables whose extractor knows the text*)
(*   vault                the text names an app-only place for a secret    *)
(***************************************************************************)
NoSlot  == "no slot"
NoAlias == "no alias"

Tables == {"device_aliases", "household", "secret_references", "embedded_memories"}

FactOf(kinds, texts, slots, aliases) ==
  [kind : kinds, text : texts, private : BOOLEAN, person : BOOLEAN,
   restricted : BOOLEAN, cautious : BOOLEAN, vault : BOOLEAN,
   slot : slots \cup {NoSlot}, alias : aliases \cup {NoAlias}, tables : SUBSET Tables]

(* infer_metadata *)
Scope(f) == IF f.private THEN "private" ELSE IF f.person THEN "person" ELSE "household"

Sensitivity(f) ==
  IF f.restricted THEN "restricted"
  ELSE IF f.cautious \/ f.private THEN "cautious" ELSE "normal"

SpokenPolicy(f) ==
  CASE Sensitivity(f) = "restricted"                            -> "deny"
    [] Sensitivity(f) # "restricted" /\ Scope(f) = "private"    -> "app_only"
    [] Sensitivity(f) = "cautious" /\ Scope(f) # "private"      -> "confirm"
    [] OTHER                                                    -> "allow"

(* assess_memory_write *)
WriteAllowed(f) == ~f.restricted /\ Scope(f) # "private"

(***************************************************************************)
(* assess_memory_read(...).allowed.  `known` stands for what the read      *)
(* context says about the speaker: explicit_named_person, or an identity   *)
(* confidence of at least Medium.  In a shared room nobody is known.       *)
(***************************************************************************)
ReadAllowed(f, known) ==
  /\ SpokenPolicy(f) # "deny"
  /\ \/ Scope(f) = "household" /\ SpokenPolicy(f) = "allow"
     \/ Scope(f) = "person" /\ known

SharedRoom == FALSE
Shareable(f) == ReadAllowed(f, SharedRoom)

-----------------------------------------------------------------------------
\* Variant: the note tables are filled whatever the policy says.
ProjectsUnguarded(t, f) == t \in f.tables

(***************************************************************************)
(* Whether the upsert of table t derives rows from the fact: the household *)
(* tables and the aliases from what a shared room may hear, the embedding  *)
(* (should_embed_memory) also only from what names no secret, the secret   *)
(* references (app_only_secret_reference_from_memory: a label and a place) *)
(* from what must stay in the app.                                         *)
(***************************************************************************)
Projects(t, f) ==
  /\ t \in f.tables
  /\ CASE t = "secret_references" -> ~Shareable(f) \/ f.vault \/ SpokenPolicy(f) = "app_only"
       [] t = "embedded_memories" -> Shareable(f) /\ "secret_references" \notin f.tables
       [] OTHER                   -> Shareable(f)
=============================================================================
