------------------------- MODULE BatcherRefinement --------------------------
(***************************************************************************)
(* TelemetryBatcher implements DurableTelemetry: a reading waits while it  *)
(* is in the buffer or in a window that is not committed, its history is   *)
(* the telemetry table, and an alarm is an active row of the alerts table. *)
(***************************************************************************)
EXTENDS TelemetryBatcher

Undecided == (IF pc = "evaluate" THEN batch ELSE <<>>) \o buffer

History ==
  {[agent |-> t.agent, battery |-> t.battery, seq |-> t.seq] : t \in telemetry}

Alarm == [a \in Agents |-> ActiveAlerts(alerts, a) # {}]

Durable == INSTANCE DurableTelemetry
             WITH count <- accepted, pending <- Undecided,
                  history <- History, alarm <- Alarm

\* Every behaviour of the batcher, failures, shutdowns and crashes included,
\* is one the promise allows: windows are stored in order, atomically, with
\* their alarms, and nothing is stored that was not accepted.
ImplementsDurable == Durable!DurableSpec
=============================================================================
