------------------------------ MODULE Governor ------------------------------
(***************************************************************************)
(* genie-governor: the loop that keeps the device in one of five operating *)
(* modes by starting and stopping systemd units and swapping the LLM.      *)
(*                                                                         *)
(* The loop handles one tick or command at a time, but a transition is     *)
(* many service operations: each is a step here, may fail, may time out    *)
(* after taking effect, and the governor may be killed between any two.    *)
(* genie-core's file fallback writes the media marker at any such point.   *)
(***************************************************************************)
EXTENDS Integers, Sequences, FiniteSets

CONSTANTS
  Managed,     \* service aliases with a unit on this device
  NightSwap,   \* governor.night_model_swap
  Levels,      \* memory levels, 0 being the lowest
  StopOptins,  \* pressure.stop_optins_mb, as a level
  ZramLevel,   \* pressure.zram_mb, as a level
  MaxFailures, \* bound on failing operations
  MaxCommands, \* bound on commands and marker writes
  MaxShifts,   \* bound on changes of the hour and of the memory level
  MaxCrashes   \* bound on restarts of the governor

ASSUME GovernorAssumption ==
  /\ NightSwap \in BOOLEAN
  /\ Levels \subseteq Nat /\ StopOptins \in Nat /\ ZramLevel \in Nat
  /\ {MaxFailures, MaxCommands, MaxShifts, MaxCrashes} \subseteq Nat
  /\ "llm" \in Managed

VARIABLES
  mode,      \* current_mode
  lastMem,   \* last_mem_avail_mb
  zram,      \* zram_enabled
  marker,    \* /run/geniepod/media_mode exists
  running,   \* active units
  override,  \* model named in the LLM unit's override file
  resident,  \* model the LLM service has loaded, when it runs
  work,      \* the tick or command in progress
  mem,       \* /proc/meminfo
  night,     \* current_hour is in the night interval
  budget,    \* what is left of the bounds
  lastEnd    \* history: how the last transition ended (Ended)

disk   == <<marker, running, override, resident>>
gov    == <<mode, lastMem, zram>>
env    == <<mem, night>>
vars   == <<mode, lastMem, zram, marker, running, override, resident, work, mem, night,
            budget, lastEnd>>

-----------------------------------------------------------------------------
(* genie-common/mode.rs *)

Modes == {"day", "night_a", "night_b", "media", "pressure"}
Model4B == "nemotron-4b"
Model9B == "nemotron-9b"
NoModel == "none"

RequiredServices(m) ==
  CASE m \in {"day", "night_a"} ->
         <<"genie-wakeword", "genie-core", "llm", "genie-mqtt", "homeassistant">>
    [] m \in {"night_b", "pressure"} ->
         <<"genie-wakeword", "genie-core", "llm", "genie-mqtt">>
    [] m = "media" ->
         <<"genie-wakeword", "genie-core", "genie-mqtt">>

StoppedServices(m) ==
  CASE m \in {"day", "night_a"} -> <<>>
    [] m = "night_b"            -> <<"homeassistant", "nextcloud", "jellyfin">>
    [] m = "media"              -> <<"llm", "nextcloud", "jellyfin">>
    [] m = "pressure"           -> <<"nextcloud", "jellyfin">>

LlmModel(m) == CASE m = "night_b" -> Model9B [] m = "media" -> NoModel [] OTHER -> Model4B

(* The aliases of a list that have a unit (service_unit_for_alias). *)
UnitSet(list) == {list[i] : i \in DOMAIN list} \cap Managed

\* Variant: a list of transitions instead of the models they need.
ChangesWeightsByList(from, target) ==
  {from, target} = {"day", "night_b"} \/ (from # target /\ "media" \in {from, target})

(* transition_changes_llm_weights *)
ChangesWeights(from, target) == LlmModel(from) # LlmModel(target)

-----------------------------------------------------------------------------
(* Choosing the mode.  NoReading is a failed /proc/meminfo read with no     *)
(* earlier value to fall back on.                                           *)
NoReading == -1

TimeBasedMode == IF ~night THEN "day" ELSE IF NightSwap THEN "night_b" ELSE "night_a"

\* Variant: media goes before pressure.
DetermineMediaFirst(reading) ==
  CASE marker                            -> "media"
    [] ~marker /\ reading = NoReading    -> mode
    [] ~marker /\ reading \in 0..(StopOptins - 1) -> "pressure"
    [] OTHER                             -> TimeBasedMode

DetermineMode(reading) ==
  CASE reading = NoReading -> mode
    [] reading # NoReading /\ reading < StopOptins -> "pressure"
    [] OTHER -> IF marker THEN "media" ELSE TimeBasedMode

DetermineModeAfterMedia(reading) ==
  CASE reading # NoReading /\ reading < StopOptins -> "pressure"
    [] reading = NoReading /\ mode = "pressure"    -> "pressure"
    [] OTHER -> TimeBasedMode

-----------------------------------------------------------------------------
Resting == [pc |-> "rest", from |-> "day", target |-> "day", todo |-> <<>>,
            stopped |-> <<>>, started |-> <<>>, reading |-> NoReading, before |-> {},
            faults |-> 0]

Init ==
  /\ mode = "day" /\ lastMem = NoReading /\ zram = FALSE
  /\ marker = FALSE
  /\ running = Managed /\ override = Model4B /\ resident = Model4B
  /\ work = Resting
  /\ mem \in Levels /\ night \in BOOLEAN
  /\ budget = [faults |-> MaxFailures, commands |-> MaxCommands, shifts |-> MaxShifts,
               crashes |-> MaxCrashes]
  /\ lastEnd = [how |-> "none", before |-> {}, sound |-> TRUE]

(* One unit of each of these kinds is spent. *)
Pay(kinds) ==
  /\ \A k \in kinds : budget[k] > 0
  /\ budget' = [k \in DOMAIN budget |-> IF k \in kinds THEN budget[k] - 1 ELSE budget[k]]
Spend(kind) == Pay({kind})

(* An operation goes wrong. *)
Fault(w) == Spend("faults") /\ work' = [w EXCEPT !.faults = @ + 1]
FaultEnd == Spend("faults") /\ work' = Resting
Fine(w)  == work' = w /\ UNCHANGED budget

(* History: how the last transition ended ("clean" without a failing         *)
(* operation, "patchy" with one, "rolled_back" when only the operation that  *)
(* failed it went wrong, else "abandoned"), which units ran before a rolled  *)
(* back one, and whether none was ever abandoned.                            *)
Ended(how) ==
  lastEnd' = [how |-> how, before |-> IF how = "rolled_back" THEN work.before ELSE {},
              sound |-> lastEnd.sound /\ how # "abandoned"]

(* Starting the LLM loads the model its override names. *)
StartUnit(u) ==
  /\ running' = running \cup {u}
  /\ resident' = IF u = "llm" /\ u \notin running THEN override ELSE resident
StopUnit(u) == running' = running \ {u} /\ UNCHANGED resident

(* read_mem_avail_mb: the level, or the last known one after a failed read.  *)
(* `command` is what the command that asks for it costs.                     *)
ReadMem(reading, command) ==
  \/ reading = mem /\ lastMem' = mem /\ Pay(command)
  \/ reading = lastMem /\ UNCHANGED lastMem /\ Pay(command \cup {"faults"})

-----------------------------------------------------------------------------
(* The entry of a transition.  A tick goes on with handle_pressure after a  *)
(* successful transition, or when there is none to make; `reading` is       *)
(* NoReading where nothing follows.                                         *)

AfterTransition(reading) ==
  IF reading = NoReading THEN Resting
  ELSE [Resting EXCEPT !.pc = "pressure", !.reading = reading]

Begin(target, reading) ==
  work' = IF target = mode
          THEN AfterTransition(reading)
          ELSE [Resting EXCEPT !.pc = "stop", !.from = mode, !.target = target,
                               !.todo = StoppedServices(target),
                               !.reading = reading, !.before = running]

Tick ==
  /\ work.pc = "rest"
  /\ \E reading \in Levels \cup {NoReading} :
       ReadMem(reading, {}) /\ Begin(DetermineMode(reading), reading)
  /\ UNCHANGED <<mode, zram, disk, env, lastEnd>>

SetMode(target) ==
  /\ work.pc = "rest" /\ Spend("commands")
  /\ Begin(target, NoReading)
  /\ UNCHANGED <<gov, disk, env, lastEnd>>

MediaStart ==
  /\ work.pc = "rest" /\ Spend("commands")
  /\ marker' = TRUE
  /\ Begin("media", NoReading)
  /\ UNCHANGED <<gov, running, override, resident, env, lastEnd>>

(* The marker goes first, then the target is resolved. *)
MediaStop ==
  /\ work.pc = "rest"
  /\ marker' = FALSE
  /\ \E reading \in Levels \cup {NoReading} :
       ReadMem(reading, {"commands"}) /\ Begin(DetermineModeAfterMedia(reading), NoReading)
  /\ UNCHANGED <<mode, zram, running, override, resident, env, lastEnd>>

(* The reading a status query takes is the one a later failed read falls     *)
(* back on.                                                                  *)
Status ==
  /\ work.pc = "rest"
  /\ \E reading \in Levels \cup {NoReading} : ReadMem(reading, {"commands"})
  /\ UNCHANGED <<mode, zram, disk, work, env, lastEnd>>

(* genie-core's exec_play_media, when the governor is down or too busy to    *)
(* answer.                                                                   *)
MarkerFallback ==
  /\ Spend("commands")
  /\ marker' = TRUE
  /\ UNCHANGED <<gov, running, override, resident, work, env, lastEnd>>

-----------------------------------------------------------------------------
(* transition, one service operation at a time. *)

Rollback(w) == [w EXCEPT !.pc = "undo_start"]           \* rollback_transition, then Err

(* The next alias of stopped_services.  One without a unit is skipped, as   *)
(* is one that is not active; is_active answers false when it times out; an *)
(* error of stop ends the transition at once.                               *)
StopNext ==
  /\ work.pc = "stop" /\ work.todo # <<>>
  /\ LET u    == Head(work.todo)
         rest == [work EXCEPT !.todo = Tail(@)]
     IN  \/ u \notin running /\ Fine(rest) /\ UNCHANGED <<running, resident>>
         \/ u \in running /\ Fault(rest) /\ UNCHANGED <<running, resident>>
         \/ /\ u \in running /\ Fine([rest EXCEPT !.stopped = Append(@, u)])
            /\ StopUnit(u)
         \/ /\ u \in running /\ FaultEnd
            /\ StopUnit(u) \/ UNCHANGED <<running, resident>>
  /\ IF work'.pc = "rest" THEN Ended("abandoned") ELSE UNCHANGED lastEnd
  /\ UNCHANGED <<gov, marker, override, env>>

(* swap_llm_model: write the override, daemon-reload, restart. *)
SwapOk(m) == override' = m /\ resident' = m /\ running' = running \cup {"llm"}
SwapFailed(m) ==
  \/ UNCHANGED <<override, resident, running>>
  \/ override' = m /\ UNCHANGED <<resident, running>>
  \/ override' = m /\ running' = running \ {"llm"} /\ UNCHANGED resident
  \/ override' = m /\ resident' = m /\ running' = running \cup {"llm"}

ToStart(w) == [w EXCEPT !.pc = "start", !.todo = RequiredServices(w.target)]

(* apply_llm_swaps, and the end of a media session. *)
ApplyLlmSwaps ==
  /\ work.pc = "stop" /\ work.todo = <<>>
  /\ \/ /\ work.target = "media" /\ "llm" \notin running
        /\ Fine(ToStart(work)) /\ UNCHANGED <<running, override, resident>>
     \/ /\ work.target = "media" /\ "llm" \in running
        /\ \/ /\ StopUnit("llm") /\ Fine(ToStart([work EXCEPT !.stopped = Append(@, "llm")]))
           \/ /\ Fault(ToStart(work)) /\ UNCHANGED <<running, resident>>
           \/ /\ Fault(Rollback(work))
              /\ StopUnit("llm") \/ UNCHANGED <<running, resident>>
        /\ UNCHANGED override
     \/ /\ work.target # "media" /\ ChangesWeights(work.from, work.target)
        /\ \/ SwapOk(LlmModel(work.target)) /\ Fine(ToStart(work))
           \/ SwapFailed(LlmModel(work.target)) /\ Fault(Rollback(work))
     \/ /\ work.target # "media" /\ ~ChangesWeights(work.from, work.target)
        /\ Fine(ToStart(work)) /\ UNCHANGED <<running, override, resident>>
  /\ marker' = IF work.from = "media" /\ work'.pc = "start" THEN FALSE ELSE marker
  /\ UNCHANGED <<gov, env, lastEnd>>

(* The next alias of required_services; one without a unit is skipped. *)
StartNext ==
  /\ work.pc = "start" /\ work.todo # <<>>
  /\ LET u    == Head(work.todo)
         rest == [work EXCEPT !.todo = Tail(@)]
         up   == [rest EXCEPT !.started = Append(@, u)]
     IN  \/ u \notin Managed \ running /\ Fine(rest) /\ UNCHANGED <<running, resident>>
         \/ u \in running /\ Fault(up) /\ UNCHANGED <<running, resident>>
         \/ u \in Managed \ running /\ Fine(up) /\ StartUnit(u)
         \/ /\ u \in Managed \ running /\ Fault(Rollback(rest))
            /\ StartUnit(u) \/ UNCHANGED <<running, resident>>
  /\ UNCHANGED <<gov, marker, override, env, lastEnd>>

(* insert_transition, then the new mode; its error leaves the old one. *)
Commit ==
  /\ work.pc = "start" /\ work.todo = <<>>
  /\ \/ /\ Fine(AfterTransition(work.reading))
        /\ mode' = work.target
        /\ Ended(IF work.faults = 0 THEN "clean" ELSE "patchy")
     \/ /\ FaultEnd
        /\ Ended("abandoned")
        /\ UNCHANGED mode
  /\ UNCHANGED <<lastMem, zram, disk, env>>

-----------------------------------------------------------------------------
(* rollback_transition, best effort. *)

\* Variant: only what the new mode requires is started again.
RestoreForTarget(w) == UnitSet(w.stopped) \cap UnitSet(RequiredServices(w.target))

(* service_aliases_to_restore; they are started in the order of `stopped`. *)
ToRestore(w) == UnitSet(w.stopped) \cap UnitSet(RequiredServices(w.from))

(* Stop what was started, latest first. *)
UndoStart ==
  /\ work.pc = "undo_start"
  /\ IF work.started = <<>>
     THEN /\ Fine([work EXCEPT !.pc = "undo_stop", !.todo = work.stopped])
          /\ UNCHANGED <<running, resident>>
     ELSE LET u    == work.started[Len(work.started)]
              rest == [work EXCEPT !.started = SubSeq(@, 1, Len(@) - 1)]
          IN  \/ Fine(rest) /\ StopUnit(u)
              \/ Fault(rest) /\ (StopUnit(u) \/ UNCHANGED <<running, resident>>)
  /\ UNCHANGED <<gov, marker, override, env, lastEnd>>

(* Start what was stopped, if the old mode requires it. *)
UndoStop ==
  /\ work.pc = "undo_stop" /\ work.todo # <<>>
  /\ LET u    == Head(work.todo)
         rest == [work EXCEPT !.todo = Tail(@)]
     IN  \/ u \notin ToRestore(work) /\ Fine(rest) /\ UNCHANGED <<running, resident>>
         \/ u \in ToRestore(work) /\ Fine(rest) /\ StartUnit(u)
         \/ /\ u \in ToRestore(work) /\ Fault(rest)
            /\ StartUnit(u) \/ UNCHANGED <<running, resident>>
  /\ UNCHANGED <<gov, marker, override, env, lastEnd>>

(* media_marker_rollback_action *)
UndoMarker(from, target) ==
  marker' = IF (from = "media") = (target = "media") THEN marker ELSE from = "media"

UndoneFine  == Fine(Resting) /\ Ended(IF work.faults = 1 THEN "rolled_back" ELSE "abandoned")
UndoneBadly == FaultEnd /\ Ended("abandoned")

(* llm_rollback_action *)
UndoLlm ==
  /\ work.pc = "undo_stop" /\ work.todo = <<>>
  /\ UndoMarker(work.from, work.target)
  /\ \/ /\ ~ChangesWeights(work.from, work.target)
        /\ UndoneFine /\ UNCHANGED <<running, override, resident>>
     \/ /\ ChangesWeights(work.from, work.target) /\ work.from # "media"
        /\ \/ SwapOk(LlmModel(work.from)) /\ UndoneFine
           \/ SwapFailed(LlmModel(work.from)) /\ UndoneBadly
     \/ /\ ChangesWeights(work.from, work.target) /\ work.from = "media"
        /\ \/ StopUnit("llm") /\ UndoneFine
           \/ /\ "llm" \in running /\ UndoneBadly
              /\ StopUnit("llm") \/ UNCHANGED <<running, resident>>
        /\ UNCHANGED override
  /\ UNCHANGED <<gov, env>>

-----------------------------------------------------------------------------
(* handle_pressure.  A zram script that cannot be run ends the tick; one     *)
(* that fails, and a failing docker_stop, do not.                            *)
HandlePressure ==
  /\ work.pc = "pressure"
  /\ LET optins   == {"nextcloud", "jellyfin"} \cap Managed
         needZram == work.reading < ZramLevel /\ ~zram
     IN  \/ /\ zram' = (zram \/ needZram)
            /\ work.reading < StopOptins
            /\ \E down \in SUBSET optins :
                 /\ running' = running \ down
                 /\ IF down = optins THEN Fine(Resting) ELSE FaultEnd
         \/ /\ zram' = (zram \/ needZram)
            /\ work.reading >= StopOptins /\ Fine(Resting) /\ UNCHANGED running
         \/ needZram /\ FaultEnd /\ UNCHANGED <<zram, running>>
  /\ UNCHANGED <<mode, lastMem, marker, override, resident, env, lastEnd>>

Shift ==
  /\ Spend("shifts")
  /\ \/ mem' \in Levels \ {mem} /\ UNCHANGED night
     \/ night' = ~night /\ UNCHANGED mem
  /\ UNCHANGED <<gov, disk, work, lastEnd>>

(* The governor is killed and started again by systemd: Governor::new. *)
Crash ==
  /\ Spend("crashes")
  /\ mode' = "day" /\ lastMem' = NoReading /\ zram' = FALSE /\ work' = Resting
  /\ lastEnd' = [how |-> "crashed", before |-> {}, sound |-> FALSE]
  /\ UNCHANGED <<disk, env>>

Steps == StopNext \/ ApplyLlmSwaps \/ StartNext \/ Commit \/ UndoStart \/ UndoStop \/ UndoLlm
           \/ HandlePressure

Next ==
  \/ Tick \/ Steps
  \/ \E m \in Modes : SetMode(m)
  \/ MediaStart \/ MediaStop \/ Status \/ MarkerFallback
  \/ Shift \/ Crash

(* The interval keeps ticking, and every operation of a transition ends     *)
(* within SERVICE_CTL_TIMEOUT.                                              *)
Spec == Init /\ [][Next]_vars /\ WF_vars(Tick) /\ WF_vars(Steps)

-----------------------------------------------------------------------------
AtRest == work.pc \in {"rest", "pressure"}

Required == UnitSet(RequiredServices(mode))

(***************************************************************************)
(* After a transition during which nothing failed, and whatever failed     *)
(* before it, the services mode.rs requires of the mode are running and    *)
(* the ones it forbids are not.                                            *)
(***************************************************************************)
CleanTransitionServes ==
  AtRest /\ lastEnd.how = "clean" =>
    Required \subseteq running /\ UnitSet(StoppedServices(mode)) \cap running = {}

(***************************************************************************)
(* As long as every failed transition was rolled back, the LLM that is     *)
(* resident between transitions is the mode's own: the large model is      *)
(* never left behind in a mode that relies on the small one's memory.      *)
(* (In media mode an LLM may survive a timed out is_active.)               *)
(***************************************************************************)
ResidentModelFits ==
  AtRest /\ lastEnd.sound /\ mode # "media" /\ "llm" \in running => resident = LlmModel(mode)

(***************************************************************************)
(* A rollback whose own operations succeed brings back every service that  *)
(* the old mode requires and that ran before the failed transition.        *)
(***************************************************************************)
RollbackRestores ==
  AtRest /\ lastEnd.how = "rolled_back" => Required \cap lastEnd.before \subseteq running

(* What the conditions ask for: pressure, then media, then the hour. *)
Wanted == IF mem < StopOptins THEN "pressure" ELSE IF marker THEN "media" ELSE TimeBasedMode

(***************************************************************************)
(* Once the conditions stop changing and operations stop failing, the      *)
(* governor reaches the mode they ask for and stays in it, after any       *)
(* sequence of commands, failures, rollbacks and restarts.                 *)
(***************************************************************************)
ModeSettles == <>[](mode = Wanted)

(***************************************************************************)
(* The services of the mode serve in it: after a transition without a      *)
(* failure, and after a rollback (transition, rollback_transition).        *)
(***************************************************************************)
ServicesFollowMode == CleanTransitionServes /\ RollbackRestores
=============================================================================
