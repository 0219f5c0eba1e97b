--------------------------- MODULE SemanticRecall ---------------------------
(***************************************************************************)
(* Semantic recall (memory/mod.rs, memory/recall.rs).  A memory and a      *)
(* question are each given a type by a long if-else cascade over their     *)
(* words: the first rule whose test the text meets decides.  A text is the *)
(* set of the rules it meets, a cascade the sequence of the types its      *)
(* rules give.  A memory of the question's type scores at least 0.95; the  *)
(* hits are fused with those of the full-text search and filtered by the   *)
(* reader's rights.  Scores are in hundredths; what the embedding and the  *)
(* full-text index find is chosen freely.                                  *)
(***************************************************************************)
EXTENDS Naturals, Sequences, SequencesExt, FiniteSets, FiniteSetsExt

CONSTANTS Limit,       \* hits asked of each search (10 in exec_memory_recall)
          Themes,      \* the rules of the query's cascade that questions meet
          MaxMemories  \* bound on stored memories

ASSUME RecallAssumption == Limit \in Nat \ {0, 1} /\ MaxMemories \in Nat

VARIABLES theme,     \* the rule the questions of this behaviour meet
          memories,  \* the stored memories, in the order of their ids
          recalled   \* what the last question found
recallVars == <<theme, memories, recalled>>

-----------------------------------------------------------------------------
(* contextual_household_batch_five_type comes first in every cascade. *)
BatchFive1 ==
    <<"after_dinner_cleanup", "upstairs_lights_on", "grandma_front_door_permission",
      "school_lunch_debate", "board_game_scene", "basement_humidity_cause",
      "test_practice_notifications", "rain_boots_location", "charging_tonight", "coffee_wake_brew",
      "sleep_fan_low_preference", "post_bath_comfort", "slow_cooker_timer_chart",
      "basement_flood_check", "garage_bike_camera", "next_filter_change", "puzzle_done_reminder",
      "grandma_temporary_code", "desk_glare_comfort", "front_door_after_leo", "water_heater_receipt",
      "quiet_drawing_time", "homework_print_permission", "upstairs_cool_except_leo",
      "noisy_appliance", "tooth_fairy_box", "white_extension_cord", "family_dinner_screens",
      "garage_changes_today", "stairwell_bright", "plant_after_school_reminder",
      "peanut_free_chicken_recipe", "security_alarm_chirp", "microwave_permission",
      "rehearsal_comfort", "backyard_presence", "workshop_dust_control", "bedtime_chart_remaining",
      "closet_light_automation", "upstairs_window_before_rain", "low_power_mode", "vaccination_form",
      "field_trip_form_signed", "animal_show_low_volume", "guest_wifi_devices",
      "entry_lights_until_mia", "side_path_ice_risk", "dripping_leak_check", "office_internet_slow",
      "school_night_reset", "photo_backdrop_instructions", "red_marker_location",
      "freezer_threshold_alert", "leo_skipped_chores", "mirror_lights_only", "cat_sleep_permission",
      "grilling_lights", "purifier_high_reason", "swim_meet_packing_list", "cookie_recipe_next_step",
      "outdoor_camera_cleaning", "garage_closed_after_jared", "project_list_supplies",
      "downstairs_reassurance", "furnace_code_31", "dinner_warm_until_jared", "wednesday_quiet_time">>
BatchFive2 ==
    <<"cat_feeding_amount", "oldest_fridge_food", "cleaner_outside_air", "lamp_flicker_reason",
      "garage_door_permission", "holiday_lighting_schedule", "plumber_shutoff_note",
      "rainy_day_alarm", "soccer_practice_gear", "sensor_bypass_report", "guest_breakfast_mode",
      "winter_poem", "laundry_room_reassurance", "water_pressure_status", "oven_preheat_reminder",
      "hallway_camera_privacy", "cookie_cooling_alert", "vacuum_dining_room_skip",
      "toddler_gate_instructions", "room_smell_air_quality", "message_read_status",
      "laundry_leak_shutoff", "entryway_backpacks", "alarm_skip_holidays",
      "morning_checklist_display", "camera_privacy_report", "green_bowl_recipe", "drums_permission",
      "emergency_flashlight", "top_automation_today", "kids_morning_warmth", "tournament_snacks",
      "final_safety_sweep">>
BatchFive == BatchFive1 \o BatchFive2

(* semantic_memory_type *)
MemoryTypes1 ==
    <<"bedtime_story", "romantic_poem", "hiking_trail", "basil_recipe", "sunset_photos",
      "goldfish_name", "anxiety_support", "roman_history", "mood_music", "camping_checklist",
      "cocktail_recipe", "working_late", "date_night", "washer_leak", "bike_security", "taco_bar",
      "person_room_comfort", "reading_light_comfort", "cozy_room_scene", "screen_time_status",
      "science_fair_checklist", "movie_night_scene", "personal_delivery", "garden_watering",
      "chickpea_recipe", "hallway_light_troubleshooting", "sleep_comfort", "night_hallway_safety",
      "tablet_charger_location", "outlet_spill_safety", "bathroom_warmup", "pizza_box_disposal",
      "focus_mode", "quiet_porch_alerts", "room_heat_cause", "storm_prep", "dinner_attendees",
      "night_reassurance", "chores_status", "electricity_week_compare", "electricity_usage",
      "marker_stain_removal">>
MemoryTypes2 ==
    <<"bathroom_reservation", "backpack_location", "morning_sun_blinds", "piano_quiet_mode",
      "bus_tomorrow", "freezer_door_left_open", "gas_safety", "presence_alert", "ocean_essay_draft",
      "windows_status", "bedtime_reading_override", "pajama_day", "laptop_charger_location",
      "scheduled_vacation_mode", "leftovers_priority", "robot_vacuum_under_bed", "violin_dnd",
      "sprinkler_run_history", "toddler_safe_kitchen", "sleepover_approval", "lock_except_back_gate",
      "allergy_action_plan", "spaceship_hallway", "morning_readiness", "kids_homework_mode",
      "car_keys_location", "quiet_baking", "robot_vacuum_stuck", "thermostat_audit",
      "ladder_safety_note", "bathroom_mirror_schedule", "bed_cooling_comfort",
      "porch_package_present", "sink_leak_safety", "art_lighting_scene", "allergy_medicine_status",
      "dinosaur_fact", "office_standby_power", "beeping_device_alert", "youtube_math_block",
      "contractor_garage_access", "sleepover_guest_mode", "stars_closet_dark", "printer_wifi_reset",
      "porch_light_motion", "grandma_wifi_note", "outdoor_play_permission", "school_morning_blinds",
      "electricity_week_compare", "back_burner_status", "wet_soccer_shoes", "warm_not_steamy_shower",
      "quiet_security", "laundry_finish_status", "tomorrow_checklist", "green_night_light_preference",
      "drafty_room_report", "mia_blue_paint", "glass_break_safety", "call_mom_kitchen_screen",
      "offline_devices", "babysitter_mode", "laundry_moved_status", "kitchen_alarm_exit_route",
      "rainy_pickup_mode", "dishwasher_breaker", "after_school_guest_request", "toaster_smoke_safety",
      "pollen_mode", "trash_day_prep", "red_hoodie_location">>
MemoryTypes3 ==
    <<"lego_cleanup_timer", "ant_response_history", "driveway_arrival_lighting", "video_call_room",
      "garbage_bins_out", "camping_flashlight", "sprinkler_skip_reason", "dishwasher_after_nine",
      "internet_homework", "stove_permission", "cold_medicine_instructions", "sunlight_alarm",
      "guest_info_display", "fridge_door_closed", "reading_with_dad", "rainy_day_playlist",
      "sensor_battery_report", "work_call_quiet", "library_book_packed", "alarm_failure_reason",
      "garage_paint_ventilation", "plant_attention", "blue_cup_location", "sleepover_lights",
      "side_gate_away", "recital_outfit_note", "cookie_done_light_alert", "bathroom_available",
      "away_mode_failure", "calm_morning_leo", "guest_speaker_pairing", "end_of_day_summary",
      "painting_hobby", "stomach_ache", "magic_tricks", "manicure_booking", "charity_suggestion",
      "french_learning", "podcast_suggestion", "motivational_speech", "dress_shoes",
      "thirst_beverage", "yoga_class", "sunbathing_safety", "guys_night", "thai_food_order",
      "fever_management", "snow_protocol", "homework_check", "weather_report", "arrival_back",
      "haircut_booking", "wedding_outfit", "meditation_content", "spanish_learning">>
MemoryTypes4 ==
    <<"spicy_food", "hotel_booking", "ac_filter", "kids_activity", "clogged_toilet", "sewing_help",
      "jazz_music", "book_recommendation", "takeout_suggestion", "banana_recipe", "beach_photos",
      "freeze_protection", "weight_trend", "school_lunch", "patio_cushions", "cycling_routine",
      "breakfast_plan", "father_day_gift", "quick_break", "steak_wine_pairing", "ventilation_comfort",
      "work_from_home", "printer_ink", "running_safety", "gift_history", "game_night",
      "baby_crying_again", "cooking_substitute", "diy_bookshelf", "toilet_troubleshooting",
      "running_injury", "pasta_side_dish", "gym_bag", "budget_advice">>
MemoryTypes5 ==
    <<"birthday_message", "arrival_rain", "food_safety", "safety_protocol", "unwatched_media",
      "turkey_thawing", "airport_departure", "dinner_party_food", "guest_arrival", "baby_awake",
      "meal_plan", "running_routine", "delivery_tracking", "space_learning", "sleep_routine",
      "comedy_media", "cooling_comfort", "air_quality_health", "train_commute", "slow_cooker_recipe",
      "party_planning", "home_comfort", "outdoor_preference", "shopping", "scary_media", "media",
      "device_manual", "activity_suggestion", "vehicle_routine", "vehicle_troubleshooting",
      "device_troubleshooting", "recipe", "home_maintenance", "date_night", "family_contact",
      "routine", "wellness", "science_project", "first_aid", "story", "pet_shopping", "trip_planning",
      "diet_recipe", "appliance_troubleshooting", "watch_history", "visitor", "focus_music",
      "beverage", "light_comfort", "social_support", "home_maintenance", "commute", "meal_planning",
      "humidity_comfort", "first_aid", "location", "outdoor_sound", "pizza_order", "arrival_routine">>
MemoryTypes6 ==
    <<"education_help", "music_control", "entertainment_joke", "dictionary_definition",
      "fort_activity", "pest_control", "location", "food_safety">>

MemoryCascade == BatchFive \o MemoryTypes1 \o MemoryTypes2 \o MemoryTypes3
                           \o MemoryTypes4 \o MemoryTypes5 \o MemoryTypes6

(* semantic_query_type *)
QueryTypes1 ==
    <<"person_room_comfort", "screen_time_status", "science_fair_checklist", "device_manual",
      "reading_light_comfort", "cozy_room_scene", "personal_delivery", "garden_watering",
      "chickpea_recipe", "hallway_light_troubleshooting", "sleep_comfort", "night_hallway_safety",
      "tablet_charger_location", "outlet_spill_safety", "bathroom_warmup", "pizza_box_disposal",
      "focus_mode", "quiet_porch_alerts", "room_heat_cause", "storm_prep", "dinner_attendees",
      "night_reassurance", "chores_status", "electricity_week_compare", "electricity_usage",
      "marker_stain_removal", "bathroom_reservation", "backpack_location", "morning_sun_blinds",
      "piano_quiet_mode", "bus_tomorrow", "freezer_door_left_open", "gas_safety", "presence_alert",
      "ocean_essay_draft", "windows_status", "bedtime_reading_override", "pajama_day",
      "laptop_charger_location", "scheduled_vacation_mode", "leftovers_priority",
      "robot_vacuum_under_bed", "violin_dnd", "sprinkler_run_history", "toddler_safe_kitchen",
      "sleepover_approval", "lock_except_back_gate", "allergy_action_plan", "spaceship_hallway",
      "morning_readiness", "kids_homework_mode", "car_keys_location", "quiet_baking",
      "robot_vacuum_stuck", "thermostat_audit", "ladder_safety_note", "bathroom_mirror_schedule",
      "bed_cooling_comfort", "porch_package_present", "sink_leak_safety", "art_lighting_scene",
      "allergy_medicine_status", "dinosaur_fact", "office_standby_power", "beeping_device_alert",
      "youtube_math_block", "contractor_garage_access", "sleepover_guest_mode", "stars_closet_dark",
      "printer_wifi_reset", "porch_light_motion">>
QueryTypes2 ==
    <<"grandma_wifi_note", "outdoor_play_permission", "school_morning_blinds", "back_burner_status",
      "wet_soccer_shoes", "warm_not_steamy_shower", "quiet_security", "laundry_finish_status",
      "tomorrow_checklist", "green_night_light_preference", "drafty_room_report", "mia_blue_paint",
      "glass_break_safety", "call_mom_kitchen_screen", "offline_devices", "babysitter_mode",
      "laundry_moved_status", "kitchen_alarm_exit_route", "rainy_pickup_mode", "dishwasher_breaker",
      "after_school_guest_request", "toaster_smoke_safety", "pollen_mode", "trash_day_prep",
      "red_hoodie_location", "lego_cleanup_timer", "ant_response_history",
      "driveway_arrival_lighting", "video_call_room", "garbage_bins_out", "camping_flashlight",
      "sprinkler_skip_reason", "dishwasher_after_nine", "internet_homework", "stove_permission",
      "cold_medicine_instructions", "sunlight_alarm", "guest_info_display", "fridge_door_closed",
      "reading_with_dad", "rainy_day_playlist", "sensor_battery_report", "work_call_quiet",
      "library_book_packed", "alarm_failure_reason", "garage_paint_ventilation", "plant_attention",
      "blue_cup_location", "sleepover_lights", "side_gate_away", "recital_outfit_note",
      "cookie_done_light_alert", "bathroom_available", "away_mode_failure", "calm_morning_leo",
      "guest_speaker_pairing", "end_of_day_summary", "bedtime_story", "romantic_poem", "hiking_trail",
      "basil_recipe", "spicy_food", "sunset_photos", "goldfish_name", "anxiety_support",
      "roman_history", "mood_music", "camping_checklist", "cocktail_recipe", "working_late">>
QueryTypes3 ==
    <<"date_night", "washer_leak", "bike_security", "taco_bar", "painting_hobby", "stomach_ache",
      "magic_tricks", "manicure_booking", "charity_suggestion", "french_learning",
      "podcast_suggestion", "motivational_speech", "dress_shoes", "thirst_beverage", "yoga_class",
      "sunbathing_safety", "guys_night", "thai_food_order", "fever_management", "snow_protocol",
      "homework_check", "weather_report", "arrival_back", "haircut_booking", "wedding_outfit",
      "meditation_content", "spanish_learning", "spicy_food", "hotel_booking", "ac_filter",
      "kids_activity", "clogged_toilet", "sewing_help", "jazz_music", "book_recommendation",
      "takeout_suggestion", "banana_recipe", "beach_photos", "freeze_protection", "weight_trend",
      "school_lunch", "patio_cushions", "cycling_routine", "breakfast_plan", "father_day_gift",
      "quick_break", "steak_wine_pairing", "ventilation_comfort", "work_from_home", "printer_ink",
      "running_safety", "gift_history", "game_night", "baby_crying_again", "cooking_substitute",
      "diy_bookshelf", "toilet_troubleshooting", "running_injury", "pasta_side_dish", "gym_bag",
      "budget_advice", "birthday_message", "arrival_rain", "food_safety", "safety_protocol",
      "unwatched_media", "turkey_thawing", "airport_departure">>
QueryTypes4 ==
    <<"dinner_party_food", "comedy_media", "space_learning", "sleep_routine", "cooling_comfort",
      "guest_arrival", "baby_awake", "meal_plan", "running_routine", "delivery_tracking",
      "home_comfort", "shopping", "scary_media", "media", "activity_suggestion", "vehicle_routine",
      "vehicle_troubleshooting", "device_troubleshooting", "recipe", "outdoor_preference",
      "home_maintenance", "family_contact", "routine", "wellness", "science_project", "recipe",
      "first_aid", "story", "media", "pet_shopping", "trip_planning", "diet_recipe",
      "appliance_troubleshooting", "watch_history", "visitor", "focus_music", "beverage",
      "light_comfort", "social_support", "home_maintenance", "commute", "meal_planning",
      "humidity_comfort", "first_aid", "location", "outdoor_sound", "pizza_order", "arrival_routine",
      "education_help", "music_control", "entertainment_joke", "dictionary_definition",
      "fort_activity", "train_commute", "air_quality_health", "slow_cooker_recipe", "party_planning",
      "pest_control", "location", "food_safety">>
QueryCascade == BatchFive \o QueryTypes1 \o QueryTypes2 \o QueryTypes3 \o QueryTypes4

(* embedding_text_for_query repeats the query's cascade to put the type in  *)
(* front of the embedded words; ten of its rules are not there.             *)
Unprefixed == {"haircut_booking", "wedding_outfit", "meditation_content", "spanish_learning", "spicy_food",
               "hotel_booking", "ac_filter", "kids_activity", "clogged_toilet", "sewing_help"}
Prefixed(types) == SelectSeq(types, LAMBDA t : t \notin Unprefixed)
EmbeddingTypes1 == Prefixed(SubSeq(QueryTypes1, 1, 38))
EmbeddingTypes2 == Prefixed(SubSeq(QueryTypes1, 39, Len(QueryTypes1)))
EmbeddingTypes3 == Prefixed(SubSeq(QueryTypes2, 1, 27))
EmbeddingTypes4 == Prefixed(SubSeq(QueryTypes2, 28, Len(QueryTypes2)))
EmbeddingTypes5 == Prefixed(QueryTypes3)
EmbeddingTypes6 == Prefixed(QueryTypes4)
EmbeddedTypes == ToSet(BatchFive \o EmbeddingTypes1 \o EmbeddingTypes2 \o EmbeddingTypes3
                         \o EmbeddingTypes4 \o EmbeddingTypes5 \o EmbeddingTypes6)

MemoryType(rules, kind) == IF rules = {} THEN kind ELSE MemoryCascade[Min(rules)]
QueryType == QueryCascade[theme]
RulesGiving(t) == {j \in DOMAIN MemoryCascade : MemoryCascade[j] = t}
EveryTypeIsGiven == \A t \in ToSet(QueryCascade) \cup EmbeddedTypes : RulesGiving(t) # {}

\* should_embed_memory: never a secret, never what the shared room may not
\* hear, else a listed kind, a text of at least 48 bytes, or one with a word of
\* its list.  Neither list is that of the cascades, so a text that meets one
\* of their rules need not be embedded, nor one that is embedded meet any.
ShouldEmbed(text) == ~text.secret /\ text.shared /\ (text.listed \/ text.long \/ text.topical)

-----------------------------------------------------------------------------
NoRecall == [semantic |-> <<>>, answer |-> <<>>, known |-> FALSE]

RecallInit == theme \in Themes /\ memories = <<>> /\ recalled = NoRecall

\* The type is stored with the embedding.
Remember(text) ==
    /\ Len(memories) < MaxMemories
    /\ memories' = Append(memories, [type |-> MemoryType(text.rules, "note"), shared |-> text.shared,
                                     embedded |-> ShouldEmbed(text)])
    /\ recalled' = NoRecall
    /\ UNCHANGED theme

\* A similarity of an embedded memory to the question; below 42 is no hit.
Similarities == {0, 50, 97}
Typed(id) == memories[id].type = QueryType
Scores(id) == IF Typed(id) THEN {95, 99} ELSE Similarities

\* By score, the newer memory first among equals.
SemanticSearch(score) ==
    LET hits == {id \in DOMAIN score : score[id] >= 42}
        ranked == SortSeq(SetToSeq(hits), LAMBDA a, b : \/ score[a] > score[b]
                                                        \/ score[a] = score[b] /\ a > b)
    IN  SubSeq(ranked, 1, IF Len(ranked) < Limit THEN Len(ranked) ELSE Limit)

Seen(lexical, semantic) == lexical \o SelectSeq(semantic, LAMBDA id : id \notin ToSet(lexical))
First(s) == SubSeq(s, 1, IF Len(s) < Limit THEN Len(s) ELSE Limit)

\* Reciprocal rank fusion, scaled to integers.
Rank(list, id) == IF id \in ToSet(list)
                  THEN 1000000 \div (60 + CHOOSE i \in DOMAIN list : list[i] = id) ELSE 0
Fused(lexical, semantic, id) == Rank(lexical, id) + Rank(semantic, id)

\* Variant: the lexical hits first, then the semantic ones, cut at the limit.
FuseConcatenated(lexical, semantic, seen) == First(seen)

FuseRecallCandidates(lexical, semantic, seen) ==
    LET before(i, j) == \/ Fused(lexical, semantic, seen[i]) > Fused(lexical, semantic, seen[j])
                        \/ /\ Fused(lexical, semantic, seen[i]) = Fused(lexical, semantic, seen[j])
                           /\ i < j
        order == SortSeq([i \in DOMAIN seen |-> i], before)
    IN  First([i \in DOMAIN order |-> seen[order[i]]])

\* filter_recall_results: after the fusion and its limit.
Readable(list, known) == SelectSeq(list, LAMBDA id : memories[id].shared \/ known)

\* recall_with_context, from a known speaker or not.
Recall(known) ==
    /\ recalled = NoRecall
    /\ \E score \in [{id \in DOMAIN memories : memories[id].embedded} -> {0, 50, 95, 97, 99}] :
         /\ \A id \in DOMAIN score : score[id] \in Scores(id)
         /\ \E found \in SUBSET (DOMAIN memories) :
              /\ Cardinality(found) <= Limit
              /\ \E lexical \in SetToSeqs(found) :
                   LET semantic == SemanticSearch(score)
                   IN  recalled' = [semantic |-> semantic, known |-> known,
                                    answer |-> Readable(FuseRecallCandidates(lexical, semantic,
                                                            Seen(lexical, semantic)), known)]
    /\ UNCHANGED <<theme, memories>>

\* A memory meets one of the rules that give the question's type, another
\* rule before or after it, or none.
Texts == [rules : {{}, {1}} \cup {{j} : j \in RulesGiving(QueryType)},
          listed : BOOLEAN, long : BOOLEAN, topical : BOOLEAN, shared : BOOLEAN, secret : BOOLEAN]

RecallNext ==
    \/ \E text \in Texts : Remember(text)
    \/ \E known \in BOOLEAN : Recall(known)

-----------------------------------------------------------------------------
\* Every type a question can have is a type some memory can have, and an
\* embedded memory of that type is among the semantic hits unless a full list
\* of others scores as high (semantic_memory_type and semantic_query_type are
\* kept in step, semantic_search).  A memory of the type that
\* should_embed_memory passed over is left to the full-text search.
TypedRecallFinds ==
    /\ EveryTypeIsGiven
    /\ recalled # NoRecall =>
         \A id \in DOMAIN memories :
            memories[id].embedded /\ Typed(id) =>
                id \in ToSet(recalled.semantic) \/ Len(recalled.semantic) = Limit

\* Full lists of lexical hits, private ones among them, do not drown what the
\* semantic search found: the answer holds one of its hits for every reader
\* (fuse_recall_candidates, filter_recall_results).
RecallKeepsSemantic ==
    recalled.semantic # <<>> => ToSet(recalled.answer) \cap ToSet(recalled.semantic) # {}

(***************************************************************************)
(* Recall by meaning finds what was stored under a type and keeps a place  *)
(* for it in the answer (semantic_search, fuse_recall_candidates).         *)
(***************************************************************************)
RecallSound == TypedRecallFinds /\ RecallKeepsSemantic
=============================================================================
