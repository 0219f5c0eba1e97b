------------------------------ MODULE MCMemory ------------------------------
(* Two names for one slot, two targets for one alias, a cautious note    *)
(* about a person and where her pills are, and a password.                 *)
EXTENDS Memory

Plain(kind, text) ==
  [kind |-> kind, text |-> text, private |-> FALSE, person |-> FALSE,
   restricted |-> FALSE, cautious |-> FALSE, vault |-> FALSE,
   slot |-> NoSlot, alias |-> NoAlias, tables |-> {"embedded_memories"}]

Dana  == [Plain("identity", "dana") EXCEPT !.slot = "name"]
Dan   == [Plain("identity", "dan") EXCEPT !.slot = "name"]
Lamp  == [Plain("fact", "lamp") EXCEPT !.alias = "playroom", !.tables = {"device_aliases"}]
Spot  == [Plain("fact", "spot") EXCEPT !.alias = "playroom", !.tables = {"device_aliases"}]
Maya  == [Plain("person_preference", "maya") EXCEPT !.person = TRUE, !.cautious = TRUE,
            !.tables = {"household", "secret_references"}]
Code  == [Plain("fact", "code") EXCEPT !.restricted = TRUE, !.tables = {"household", "secret_references"}]

MCFacts   == {Dana, Dan, Lamp, Spot, Maya, Code}
MCSimilar == {<<f, f>> : f \in Facts} \cup ({<<Dan, Dana>>} \cap (Facts \X Facts))
MCProfile == <<Dana>>
=============================================================================
