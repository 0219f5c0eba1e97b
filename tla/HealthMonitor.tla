---------------------------- MODULE HealthMonitor ----------------------------
(***************************************************************************)
(* genie-health (checker.rs): every interval each endpoint is probed in    *)
(* turn, the result logged and outages alerted; and the dashboard's        *)
(* service page (genie-api routes.rs), which reads that log from another   *)
(* process, probes what the log does not know, asks systemd about each     *)
(* unit and merges the three.  Endpoints, units and both processes change  *)
(* between any two of these steps.                                         *)
(***************************************************************************)
EXTENDS Naturals, Sequences, FiniteSets, FiniteSetsExt, Functions

CONSTANTS Endpoints,  \* the services the monitor probes, in order
          Units,      \* the services on the page
          Disabled,   \* of these, the ones switched off in the config
          Unprobed,   \* the ones without a latency URL
          AlertEvery, \* consecutive failures between alerts: 10 in the code
          Retention,  \* how far back the log reaches
          MaxMinutes, MaxChanges, MaxRestarts

ASSUME HealthAssumption ==
    /\ Endpoints \in Seq(Units) /\ Disabled \subseteq Units /\ Unprobed \subseteq Units
    /\ AlertEvery \in Nat \ {0} /\ Retention \in Nat /\ MaxMinutes \in Nat /\ MaxChanges \in Nat

VARIABLES up,       \* services whose endpoint answers with 2xx or 3xx
          active,   \* units systemd calls active
          minute, changes,
          log,      \* rows [service, at, healthy] of health_log
          failures, \* failure_counts: consecutive failures, absent as 0
          check,    \* the running check_all: its time and the endpoints still to probe
          page,     \* the request for the page being answered
          shown,    \* service -> healthy, of the last page
          alerts,   \* alerts sent in the present outage, per service
          last,     \* the last result the monitor logged, per service
          restarts
monitorVars == <<failures, check, alerts, last, log>>
pageVars == <<page, shown>>
healthVars == <<up, active, minute, changes, monitorVars, pageVars, restarts>>

NoCheck == [at |-> 0, todo |-> <<>>, on |-> FALSE]
NoPage == [stage |-> "none", health |-> {}, live |-> {}, asked |-> {}, active |-> {}, known |-> {}, good |-> {}]

HealthInit ==
    /\ up = Units /\ active = Units
    /\ minute = 1 /\ changes = 0
    /\ log = {}
    /\ failures = [s \in Units |-> 0]
    /\ alerts = [s \in Units |-> 0]
    /\ last = [s \in Units |-> "none"]
    /\ check = NoCheck
    /\ page = NoPage /\ shown = [s \in {} |-> TRUE]
    /\ restarts = 0

-----------------------------------------------------------------------------
(* The world                                                               *)

Change ==
    /\ changes < MaxChanges /\ changes' = changes + 1
    /\ \/ \E s \in Units : up' = (up \ {s}) \cup ({s} \ up) /\ UNCHANGED active
       \/ \E s \in Units : active' = (active \ {s}) \cup ({s} \ active) /\ UNCHANGED up
    /\ UNCHANGED <<minute, monitorVars, pageVars, restarts>>

MinutePasses ==
    /\ minute < MaxMinutes /\ minute' = minute + 1
    /\ UNCHANGED <<up, active, changes, monitorVars, pageVars, restarts>>

-----------------------------------------------------------------------------
(* check_all                                                               *)

\* The interval fires; all rows of one round carry the time it began.
BeginCheck ==
    /\ ~check.on
    /\ check.at < minute
    /\ check' = [at |-> minute, todo |-> Endpoints, on |-> TRUE]
    /\ UNCHANGED <<up, active, minute, changes, failures, alerts, last, log, pageVars, restarts>>

\* Variant: a recovery leaves the count of failures as it is.
CountKeeping(s, healthy) == IF healthy THEN failures[s] ELSE failures[s] + 1

CountFailures(s, healthy) == IF healthy THEN 0 ELSE failures[s] + 1

Alerts(count) == count = 1 \/ count % AlertEvery = 0

\* One endpoint: probe it, log the result (an INSERT that fails is only
\* reported), count, and alert.  The alert is sent once, whatever comes of it.
CheckOne ==
    LET s == Head(check.todo)
        healthy == s \in up
        count == CountFailures(s, healthy)
    IN  /\ check.on /\ check.todo # <<>>
        /\ \/ /\ log' = log \cup {[service |-> s, at |-> check.at, healthy |-> healthy]}
              /\ last' = [last EXCEPT ![s] = IF healthy THEN "up" ELSE "down"]
           \/ UNCHANGED <<log, last>>
        /\ failures' = [failures EXCEPT ![s] = count]
        /\ alerts' = [alerts EXCEPT ![s] = IF healthy THEN 0 ELSE IF Alerts(count) THEN @ + 1 ELSE @]
        /\ check' = [check EXCEPT !.todo = Tail(@)]
        /\ UNCHANGED <<up, active, minute, changes, pageVars, restarts>>

PruneHealthLog(cutoff) == {r \in log : r.at >= cutoff}

EndCheck ==
    /\ check.on /\ check.todo = <<>>
    /\ log' = PruneHealthLog(IF check.at > Retention THEN check.at - Retention ELSE 0)
    /\ check' = [check EXCEPT !.on = FALSE]
    /\ UNCHANGED <<up, active, minute, changes, failures, alerts, last, pageVars, restarts>>

\* SIGTERM or a crash, and the unit starts again: the log stays, the counts
\* do not.
RestartMonitor ==
    /\ restarts < MaxRestarts /\ restarts' = restarts + 1
    /\ failures' = [s \in Units |-> 0]
    /\ alerts' = [s \in Units |-> 0]
    /\ check' = [NoCheck EXCEPT !.at = check.at]
    /\ UNCHANGED <<up, active, minute, changes, last, log, pageVars>>

-----------------------------------------------------------------------------
(* GET /api/services                                                       *)

\* read_latest_health_rows
Latest(s) == {r \in log : r.service = s /\ \A q \in log : q.service = s => q.at <= r.at}

BeginPage ==
    /\ page.stage = "none"
    /\ page' = [stage |-> "live", health |-> UNION {Latest(s) : s \in Units},
                live |-> {}, asked |-> {}, active |-> {},
                known |-> {s \in Units : \E r \in log : r.service = s},
                good |-> {s \in Units : last[s] = "up"}]
    /\ UNCHANGED <<up, active, minute, changes, monitorVars, shown, restarts>>

\* collect_live_latency_rows: one probe after another.
ToProbe == Units \ (Disabled \cup Unprobed \cup page.known \cup {l.service : l \in page.live})

ProbeLatency ==
    /\ page.stage = "live" /\ ToProbe # {}
    /\ LET s == CHOOSE x \in ToProbe : TRUE
       IN  page' = [page EXCEPT !.live = @ \cup {[service |-> s, healthy |-> s \in up]}]
    /\ UNCHANGED <<up, active, minute, changes, monitorVars, shown, restarts>>

\* query_systemd_unit: the state, or an error that counts as not active.
QuerySystemd ==
    /\ page.stage = "live" /\ ToProbe = {} /\ page.asked # Units
    /\ LET s == CHOOSE x \in Units \ page.asked : TRUE
       IN  \E answers \in BOOLEAN :
              page' = [page EXCEPT !.asked = @ \cup {s}, !.active = IF answers THEN @ \cup ({s} \cap active) ELSE @]
    /\ UNCHANGED <<up, active, minute, changes, monitorVars, shown, restarts>>

EndpointHealthy(p, s) == IF s \in p.known THEN \A r \in p.health : r.service = s => r.healthy
                         ELSE \A l \in p.live : l.service = s => l.healthy

MergeServiceRows ==
    /\ page.stage = "live" /\ ToProbe = {} /\ page.asked = Units
    /\ shown' = [s \in Units |-> s \in Disabled \/ (s \in page.active /\ EndpointHealthy(page, s))]
    /\ page' = [page EXCEPT !.stage = "shown"]
    /\ UNCHANGED <<up, active, minute, changes, monitorVars, restarts>>

ClosePage == page.stage = "shown" /\ page' = NoPage /\ shown' = [s \in {} |-> TRUE]
             /\ UNCHANGED <<up, active, minute, changes, monitorVars, restarts>>

HealthNext == Change \/ MinutePasses \/ BeginCheck \/ CheckOne \/ EndCheck \/ RestartMonitor
              \/ BeginPage \/ ProbeLatency \/ QuerySystemd \/ MergeServiceRows \/ ClosePage

HealthSpec == HealthInit /\ [][HealthNext]_healthVars

-----------------------------------------------------------------------------
(* Properties                                                              *)

\* A service the page calls healthy had an active unit when systemd was
\* asked and its endpoint answered the last time anyone looked: the
\* monitor's last logged probe, or the page's own when the log has none
\* (routes.rs merge_service_rows).
HealthyIsWitnessed ==
    page.stage = "shown" =>
        \A s \in DOMAIN shown \ Disabled : shown[s] =>
            /\ s \in page.active
            /\ IF s \in page.known THEN s \in page.good
               ELSE s \in Unprobed \/ [service |-> s, healthy |-> TRUE] \in page.live

\* Every outage the monitor sees is alerted when it begins and again after
\* each AlertEvery further failures, no more and no less, however services
\* fail and recover (checker.rs check_all).
OutageAlerted ==
    \A s \in Units : alerts[s] = IF failures[s] = 0 THEN 0
                                 ELSE IF AlertEvery = 1 THEN failures[s] ELSE 1 + failures[s] \div AlertEvery

(***************************************************************************)
(* The page tells the truth about a service and an outage is alerted as    *)
(* often as it should be (merge_service_rows, check_all).                  *)
(***************************************************************************)
HealthReported == HealthyIsWitnessed /\ OutageAlerted
=============================================================================
