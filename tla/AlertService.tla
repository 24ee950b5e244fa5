---------------------------- MODULE AlertService ----------------------------
(***************************************************************************)
(* The low-battery rule of backend/app/services/alert.py over the rows of  *)
(* the alerts table (backend/app/repositories/alert.py).                   *)
(*                                                                         *)
(* A reading is [agent, battery, seq]; seq is the ordinal of the reading   *)
(* among everything ever accepted.  An alert row keeps the ordinals of the *)
(* reading that triggered it and of the one that resolved it in place of   *)
(* value, message, triggered_at and resolved_at; resolvedBy = Unresolved   *)
(* stands for resolved_at IS NULL.  There is one alert type, low_battery.  *)
(***************************************************************************)
EXTENDS Integers

CONSTANTS
  Agents,      \* ids of the registered agents
  Batteries,   \* the battery levels a reading may carry
  Threshold    \* settings.low_battery_threshold

ASSUME LevelsAssumption == Batteries \subseteq Int /\ Threshold \in Int

Unresolved == 0

Seqs == Nat \ {0}

Reading == [agent : Agents, battery : Batteries, seq : Seqs]

Alert == [agent : Agents, openedBy : Seqs, resolvedBy : Nat]

\* Rows of the partial unique index: the active alerts of agent a.
ActiveAlerts(alerts, a) ==
  {r \in alerts : r.agent = a /\ r.resolvedBy = Unresolved}

\* get_active_alert: some active row.
ActiveAlert(alerts, a) == CHOOSE r \in ActiveAlerts(alerts, a) : TRUE

\* insert_alert: one more row, active.
InsertAlert(alerts, reading) ==
  alerts \cup {[agent      |-> reading.agent,
                openedBy   |-> reading.seq,
                resolvedBy |-> Unresolved]}

\* resolve_alert: the row gets its resolved_at.
ResolveAlert(alerts, row, reading) ==
  (alerts \ {row}) \cup {[row EXCEPT !.resolvedBy = reading.seq]}

\* Faulty variant of LowBattery: the boundary itself counts as low.
LowOrEqual(battery) == battery <= Threshold

LowBattery(battery) == battery < Threshold

\* Faulty variant of Triggers: an agent that is already alerted is ignored.
TriggersAgain(alerts, reading) == LowBattery(reading.battery)

Triggers(alerts, reading) ==
  /\ LowBattery(reading.battery)
  /\ ActiveAlerts(alerts, reading.agent) = {}

Resolves(alerts, reading) ==
  /\ ~ LowBattery(reading.battery)
  /\ ActiveAlerts(alerts, reading.agent) # {}

\* evaluate_low_battery: the rows after the rule has looked at one reading.
EvaluateLowBattery(alerts, reading) ==
  IF Triggers(alerts, reading) THEN InsertAlert(alerts, reading)
  ELSE IF Resolves(alerts, reading)
       THEN ResolveAlert(alerts, ActiveAlert(alerts, reading.agent), reading)
       ELSE alerts

-----------------------------------------------------------------------------
(* Vocabulary for properties of the table *)

\* Some alert of agent a was active at the reading with ordinal s.
Covered(rows, a, s) ==
  \E r \in rows : /\ r.agent = a
                  /\ r.openedBy <= s
                  /\ r.resolvedBy = Unresolved \/ s < r.resolvedBy

AtMostOneActive(rows) ==
  \A r, q \in rows :
    r.agent = q.agent /\ r.resolvedBy = Unresolved /\ q.resolvedBy = Unresolved
      => r = q
=============================================================================
