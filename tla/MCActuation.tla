---------------------------- MODULE MCActuation -----------------------------
(* A lamp, whose actions run at once, and a thermostat, whose setpoint only *)
(* a confirmation changes; the prior state of both is captured for an undo. *)
EXTENDS Actuation, TLC

Handlers == Permutations(Confirmers)

Entity(domain) == [kind |-> "entity", domain |-> domain, voiceSafe |-> TRUE,
                   barrier |-> FALSE, entities |-> 1, confidence |-> 95]

AllDevices == [lamp |-> "light", heater |-> "climate"]
MCTarget == [d \in Devices |-> Entity(AllDevices[d])]
MCInitialState ==
  [d \in Devices |-> IF d = "lamp" THEN [power |-> "on", level |-> 77]
                     ELSE [power |-> "heat", level |-> 20]]

Cmd(dev, act, val) == [dev |-> dev, act |-> act, val |-> val]

HomeCommands == {Cmd("lamp", "set_brightness", 40 * PercentUnit),
                 Cmd("lamp", "toggle", NoValue),
                 Cmd("heater", "toggle", NoValue),
                 Cmd("heater", "set_temperature", 23)}

MCTools == {"home_control", "home_undo"}
HomeArgs == {NoArgs} \cup {GateArgs(c, b) : c \in HomeCommands, b \in BOOLEAN}

NoRules   == <<>>
NoLimits  == <<>>
UndoRules == [telegram |-> {"home_undo"}]
MCLimits  == [o \in Origins |-> IF o = "telegram" THEN 1 ELSE 2]
MCSafety == [enabled |-> TRUE, minTarget |-> 78, minSensitive |-> 90,
             denyMultiTargetSensitive |-> TRUE, requireAvailableState |-> TRUE]
=============================================================================
