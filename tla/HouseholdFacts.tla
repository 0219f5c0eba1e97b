--------------------------- MODULE HouseholdFacts ---------------------------
(***************************************************************************)
(* Structured household facts: what memory_store keeps of a statement, the *)
(* typed rows the extractors project from it (memory/mod.rs,               *)
(* parse_household.rs, structured.rs) and how structured_household_answer  *)
(* answers a question from them.                                           *)
(*                                                                         *)
(* A statement is what an extractor reads in it: table, type, person,      *)
(* subject and day ("none" is NULL), and the value said last (a time, an   *)
(* amount); a shopping statement has a status and items instead.  A        *)
(* question is what its recogniser reads in it.  Policy and slots are in   *)
(* Memory; here everything may be heard in the shared room.                *)
(***************************************************************************)
EXTENDS Naturals, Sequences, FiniteSets, SequencesExt

CONSTANTS Topics,       \* sets of statements and questions that occur together:
                        \* [said, asked], a question being the set of its readings
          MaxRows,      \* bound on rows
          MaxMs         \* bound on the clock

ASSUME FactsAssumption == MaxRows \in Nat /\ MaxMs \in Nat

VARIABLES topic,  \* what this household talks about
          rows,   \* id -> [said, updated, edited]: live memories with their projection
          ms,     \* the clock of updated_ms
          reply   \* what the last operation said
factVars == <<topic, rows, ms, reply>>

-----------------------------------------------------------------------------
(* What the extractors project, table by table: the subject each type of row *)
(* gets, "said" when it is the one named.  In each table the tests are       *)
(* independent: a statement that meets two gives two rows.                   *)
Named(types) == [t \in types |-> "said"]
CalendarTold == Named({"piano_lesson", "dentist_appointment", "vet_appointment", "school_pickup"})
TaskTold == [feeding |-> "said", brush_teeth |-> "none"]
ScheduleTold1 == [channel_guide |-> "said", tv_tonight |-> "tv tonight", community_meeting |-> "city council",
                  school_bus_arrival |-> "said", bill_due |-> "said"]
ScheduleTold2 == [recycling |-> "recycling", trash_pickup |-> "trash", school_conference |-> "said",
                  sunset |-> "sunset", community_facility_hours |-> "said", business_hours |-> "said",
                  subscription_renewal |-> "said"]
EventTold1 == [credit_score |-> "credit score", vo2_max |-> "vo2 max", stock_price |-> "said",
               weight_reading |-> "weight", clean_status |-> "dishwasher", collection |-> "trash",
               temperature |-> "attic"]
EventTold2 == [home_arrival |-> "said", presence_home |-> "said", open |-> "garage door",
               disarm |-> "security system", allowance |-> "said", paid_bill |-> "said"]
RuleTold == Named({"allergy", "screen_time", "homework"})
AttributeTold == Named({"age", "likes", "shoe_size", "favorite"})
PermissionTold == Named({"unlock"})
InventoryTold == [eggs |-> "none"]
PlaylistTold == Named({"playlist"})
SecretTold == Named({"wifi_password", "lock_code"})
ShoppingTold == [list |-> "none"]

\* A memory is a note by its kind, or by how it is worded: "remember that",
\* "remember to", "note:", a manual, a film that was watched.
NoteTold == Named({"kind", "remember_that", "remember_to", "note", "manual", "watched"})

Told == [calendar |-> CalendarTold, task |-> TaskTold, schedule |-> ScheduleTold1 @@ ScheduleTold2,
         event |-> EventTold1 @@ EventTold2, rule |-> RuleTold, attribute |-> AttributeTold,
         permission |-> PermissionTold, inventory |-> InventoryTold, playlist |-> PlaylistTold,
         secret |-> SecretTold, note |-> NoteTold, shopping |-> ShoppingTold]

\* What the recognisers of questions know: type -> subject they ask for.  No
\* question asks for a favorite, and one about allergies names no person.
AttributeAsked == Named({"age", "likes", "shoe_size"})
AllergyAsked == [allergy |-> "said"]
AllowedAsked == [screen_time |-> "said"]
HomeworkAsked == [homework |-> "homework"]
CalendarAsked == Named({"vet_appointment", "dentist_appointment", "piano_lesson"})
PickupAsked == [school_pickup |-> "said"]
TaskAsked == [feeding |-> "said", brush_teeth |-> "none"]
ScheduleAsked == Named({"channel_guide", "school_bus_arrival", "bill_due"})
              @@ [tv_tonight |-> "tv tonight", community_meeting |-> "city council", sunset |-> "sunset",
                  recycling |-> "recycling", trash_pickup |-> "trash", school_conference |-> "none",
                  community_facility_hours |-> "community pool", business_hours |-> "library",
                  subscription_renewal |-> "none"]
EventAsked == Named({"home_arrival", "presence_home", "allowance", "paid_bill"})
           @@ [credit_score |-> "credit score", stock_price |-> "none", vo2_max |-> "vo2 max",
               weight_reading |-> "weight", clean_status |-> "dishwasher", collection |-> "trash",
               temperature |-> "attic", open |-> "garage door", disarm |-> "security system"]
Asked == [Told EXCEPT !.attribute = AttributeAsked, !.rule = AllergyAsked @@ AllowedAsked @@ HomeworkAsked,
                      !.calendar = CalendarAsked @@ PickupAsked, !.task = TaskAsked,
                      !.schedule = ScheduleAsked, !.event = EventAsked]

\* The day an extractor or a recogniser takes when none is said.
ToldDay(s) ==
    IF s.day = "none" /\ (s.type \in {"brush_teeth", "sunset", "tv_tonight"}
                          \/ (s.type = "feeding" /\ s.subject = "cat"))
    THEN "today" ELSE s.day
AskedDay(type, day) ==
    IF day = "none" /\ type \in {"feeding", "brush_teeth", "sunset", "tv_tonight", "school_pickup",
                                 "community_facility_hours"} THEN "today" ELSE day

SubjectAs(subject, said) == IF subject = "said" THEN said ELSE subject
Project(s) == [s EXCEPT !.subject = SubjectAs(Told[s.table][s.type], @), !.day = ToldDay(s)]
Recognised(q) == q.type \in DOMAIN Asked[q.table]
Recognise(q) == [q EXCEPT !.subject = SubjectAs(Asked[q.table][q.type], @),
                          !.person = IF q.type = "allergy" THEN "none" ELSE @,
                          !.day = AskedDay(q.type, @)]

-----------------------------------------------------------------------------
(* The WHERE clauses. *)
Within == {<<"pool", "community pool">>, <<"library", "public library">>}
Overlap(a, b) == a = b \/ <<a, b>> \in Within \/ <<b, a>> \in Within
AnyOr(asked, told) == asked = "none" \/ asked = told
OpenOr(asked, told) == AnyOr(asked, told) \/ told = "none"

AttributeRow(q, f) == f.person = q.person
RuleRow(q, f) == AnyOr(q.person, f.person) /\ AnyOr(q.subject, f.subject)
CalendarRow(q, f) == OpenOr(q.person, f.person) /\ AnyOr(q.day, f.day)
PermissionRow(q, f) == f.person = q.person /\ Overlap(f.subject, q.subject)
TaskRow(q, f) == /\ f.person = q.person \/ q.person = "everyone"
                 /\ OpenOr(q.subject, f.subject) /\ q.day = f.day
ScheduleRow(q, f) == /\ OpenOr(q.subject, f.subject) \/ Overlap(q.subject, f.subject)
                     /\ OpenOr(q.day, f.day)
EventRow(q, f) == OpenOr(q.subject, f.subject)
SecretRow(q, f) == AnyOr(q.subject, f.subject)
PlaylistRow(q, f) == f.subject = q.subject /\ OpenOr(q.person, f.person)
NoteRow(q, f) == f.subject = q.subject

Matches(q, f) == CASE q.table = "attribute"  -> AttributeRow(q, f)
                   [] q.table = "rule"       -> RuleRow(q, f)
                   [] q.table = "calendar"   -> CalendarRow(q, f)
                   [] q.table = "permission" -> PermissionRow(q, f)
                   [] q.table = "task"       -> TaskRow(q, f)
                   [] q.table = "schedule"   -> ScheduleRow(q, f)
                   [] q.table = "event"      -> EventRow(q, f)
                   [] q.table = "inventory"  -> TRUE
                   [] q.table = "secret"     -> SecretRow(q, f)
                   [] q.table = "playlist"   -> PlaylistRow(q, f)
                   [] q.table = "note"       -> NoteRow(q, f)

\* The search for notes looks at no type.
SameType(q, f) == f.table = q.table /\ (f.type = q.type \/ q.table = "note")

Found(q) == {i \in DOMAIN rows : SameType(q, rows[i].said) /\ Matches(q, Project(rows[i].said))}

\* Variant: only the time orders the rows.
NewerByTime(i, j) == rows[i].updated > rows[j].updated

\* ORDER BY updated_ms DESC, source_memory_id DESC.
Newer(i, j) == \/ rows[i].updated > rows[j].updated
               \/ rows[i].updated = rows[j].updated /\ i > j

\* Calendar events and playlists put the asked person's own rows first.
Own(q, i) == rows[i].said.person = q.person
Prefers(q, i, j) == IF q.table \in {"calendar", "playlist"} /\ Own(q, i) # Own(q, j)
                    THEN Own(q, i) ELSE Newer(i, j)

Best(q, found) == {i \in found : \A j \in found \ {i} : ~Prefers(q, j, i)}

\* Notes come by text rank, so any of them.
Chosen(q, found) == IF q.table = "note" THEN found ELSE Best(q, found)

\* shopping_list_items: no newer row, of any status, names the item.
Lists(i, item) == rows[i].said.table = "shopping" /\ item \in ToSet(rows[i].said.items)
PendingRow(i, item) == /\ Lists(i, item) /\ rows[i].said.status = "pending"
                       /\ \A j \in DOMAIN rows : Lists(j, item) => ~Newer(j, i)
Items == UNION {ToSet(s.items) : s \in topic.said}
Pending == {item \in Items : \E i \in DOMAIN rows : PendingRow(i, item)}

-----------------------------------------------------------------------------
NoReply == [kind |-> "none"]
FactsInit == topic \in Topics /\ rows = [i \in {} |-> 0] /\ ms = 0 /\ reply = NoReply

\* has_similar compares the first four key words: of a shopping statement
\* "shopping", "list", the status and the first item; of the others the value,
\* said last, is among them when the wording is short.
HasSimilar(s, short) ==
    \E i \in DOMAIN rows :
        LET t == rows[i].said
        IN  IF s.table = "shopping" THEN t.table = "shopping" /\ t.status = s.status /\ s.items[1] \in ToSet(t.items)
            ELSE IF short THEN t = s ELSE [t EXCEPT !.value = s.value] = s

NextId == IF DOMAIN rows = {} THEN 1 ELSE 1 + CHOOSE i \in DOMAIN rows : \A j \in DOMAIN rows : j <= i
Put(i, row) == [j \in DOMAIN rows \cup {i} |-> IF j = i THEN row ELSE rows[j]]

\* exec_memory_store: the reply is the same when the statement was dropped as
\* a duplicate; a shopping reply counts the pending items.
MemoryStore(s, short) ==
    /\ IF HasSimilar(s, short) THEN UNCHANGED rows
       ELSE NextId <= MaxRows /\ rows' = Put(NextId, [said |-> s, updated |-> ms, edited |-> FALSE])
    /\ reply' = [kind |-> IF s.table = "shopping" THEN s.status ELSE "remembered", said |-> s]
    /\ UNCHANGED <<topic, ms>>

\* memory_forget and the dashboard's delete.
DeleteById(i) == /\ i \in DOMAIN rows
                 /\ rows' = [j \in DOMAIN rows \ {i} |-> rows[j]]
                 /\ reply' = NoReply /\ UNCHANGED <<topic, ms>>

\* update_managed projects the new text with the time of the edit.
UpdateManaged(i, s) == /\ i \in DOMAIN rows /\ rows[i].said # s
                       /\ rows' = Put(i, [said |-> s, updated |-> ms, edited |-> TRUE])
                       /\ reply' = NoReply /\ UNCHANGED <<topic, ms>>

\* Opening the store with another DERIVATION_VERSION projects every row again
\* with the time of the rebuild.
Rebuild == /\ rows # [i \in {} |-> 0]
           /\ rows' = [i \in DOMAIN rows |-> [rows[i] EXCEPT !.updated = ms]]
           /\ reply' = NoReply /\ UNCHANGED <<topic, ms>>

Tick == ms < MaxMs /\ ms' = ms + 1 /\ reply' = NoReply /\ UNCHANGED <<topic, rows>>

\* The stages of structured_household_answer, each for one table; a stage
\* without a row leaves the question to the next.  Playlists are asked for by
\* play_media alone.
Stages == <<"attribute", "rule", "calendar", "permission", "task", "schedule", "event", "shopping",
            "inventory", "secret", "note", "playlist">>
StageOf(q) == CHOOSE i \in DOMAIN Stages : Stages[i] = q.table
FirstStage(readings) == CHOOSE q \in readings : \A p \in readings : StageOf(q) <= StageOf(p)

\* A question may be recognised by two stages: the first that finds answers.
StructuredAnswer(readings) ==
    LET some == {q \in {Recognise(r) : r \in {r \in readings : Recognised(r)}} :
                    IF q.table = "shopping" THEN Pending # {} ELSE Found(q) # {}}
    IN  /\ IF some = {} THEN reply' = [kind |-> "unanswered", readings |-> readings]
           ELSE LET q == FirstStage(some)
                IN  IF q.table = "shopping" THEN reply' = [kind |-> "list", items |-> Pending]
                    ELSE \E i \in Chosen(q, Found(q)) : reply' = [kind |-> "answer", id |-> i, q |-> q]
        /\ UNCHANGED <<topic, rows, ms>>

FactsNext ==
    \/ \E s \in topic.said, short \in BOOLEAN : MemoryStore(s, short)
    \/ \E i \in DOMAIN rows : DeleteById(i)
    \/ \E i \in DOMAIN rows, s \in topic.said : UpdateManaged(i, s)
    \/ Rebuild
    \/ Tick
    \/ \E readings \in topic.asked : StructuredAnswer(readings)

-----------------------------------------------------------------------------
Unedited(i) == i \in DOMAIN rows /\ ~rows[i].edited
SameQuestion(q, s) == q = [s EXCEPT !.value = "none"] /\ s.table # "shopping"
SameFact(i, j) == [rows[i].said EXCEPT !.value = "none"] = [rows[j].said EXCEPT !.value = "none"]

\* An answer is a live statement that was not restated since, and the list is
\* what the last word on each item left pending, whatever was forgotten, when
\* clocks tie and after a rebuild gave every row the same time; only an edit
\* brings an older statement forward (structured_household_answer,
\* shopping_list_items, rebuild_*).
LatestStatementAnswers ==
    /\ reply.kind = "answer" /\ Unedited(reply.id) /\ reply.q.table # "note" =>
         ~\E j \in DOMAIN rows : j > reply.id /\ Unedited(j) /\ SameFact(reply.id, j)
    /\ reply.kind = "list" =>
         \A item \in Items :
            LET about == {i \in DOMAIN rows : Lists(i, item)}
            IN  (\A i \in about : Unedited(i)) =>
                   (item \in reply.items <=> \E i \in about : /\ \A j \in about : j <= i
                                                             /\ rows[i].said.status = "pending")

\* No question asks for a favorite; the dog's feeding and the school pickup,
\* told without a day, are asked about today.
Unasked(s) == s.type = "favorite"
Dayless(s) == s.day = "none" /\ (s.type = "school_pickup" \/ (s.type = "feeding" /\ s.subject # "cat"))

\* A question that asks for what was told is answered: extractors and
\* recognisers agree on types, subjects and days (family_calendar_events_from_memory and
\* its siblings, calendar_event_query and its siblings).
ToldIsAnswered ==
    reply.kind = "unanswered" =>
        \A q \in reply.readings, i \in DOMAIN rows :
            ~(SameQuestion(q, rows[i].said) /\ ~Dayless(q) /\ ~Unasked(q))

(***************************************************************************)
(* A question about the household is answered, and with the last word on   *)
(* it (structured_household_answer, shopping_list_items).                  *)
(***************************************************************************)
HouseholdAnswered == LatestStatementAnswers /\ ToldIsAnswered
=============================================================================
