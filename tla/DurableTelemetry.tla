-------------------------- MODULE DurableTelemetry --------------------------
(***************************************************************************)
(* What the ingest path promises, whatever its batching, its transaction   *)
(* and its failures do: accepted readings wait in line; from the head of   *)
(* the line a run of them becomes history, all at once and together with   *)
(* the low-battery alarms they imply, or is lost as a whole.               *)
(***************************************************************************)
EXTENDS Integers, Sequences

CONSTANTS Agents, Batteries, Threshold, MaxReadings

VARIABLES
  count,     \* number of readings accepted so far
  pending,   \* accepted readings not decided yet, oldest first
  history,   \* the stored readings
  alarm      \* per agent: its battery was low at its last stored reading

durableVars == <<count, pending, history, alarm>>

DurableInit ==
  /\ count = 0
  /\ pending = <<>>
  /\ history = {}
  /\ alarm = [a \in Agents |-> FALSE]

Accept(a, b) ==
  /\ count < MaxReadings
  /\ count' = count + 1
  /\ pending' = Append(pending, [agent |-> a, battery |-> b, seq |-> count'])
  /\ UNCHANGED <<history, alarm>>

Drop(k) == pending' = SubSeq(pending, k + 1, Len(pending))

\* Reading i is the last one of agent a among the first k.
IsLastOf(i, a, k) ==
  /\ pending[i].agent = a
  /\ \A j \in i + 1 .. k : pending[j].agent # a

AlarmAfter(k, a) ==
  \/ \E i \in 1 .. k : IsLastOf(i, a, k) /\ pending[i].battery < Threshold
  \/ alarm[a] /\ \A i \in 1 .. k : pending[i].agent # a

Persist(k) ==
  /\ history' = history \cup {pending[i] : i \in 1 .. k}
  /\ alarm' = [a \in Agents |-> AlarmAfter(k, a)]
  /\ Drop(k)
  /\ UNCHANGED count

Lose(k) ==
  /\ Drop(k)
  /\ UNCHANGED <<count, history, alarm>>

DurableNext ==
  \/ \E a \in Agents, b \in Batteries : Accept(a, b)
  \/ \E k \in 1 .. Len(pending) : Persist(k) \/ Lose(k)

DurableSpec == DurableInit /\ [][DurableNext]_durableVars
=============================================================================
