----------------------- MODULE TelemetryBatcherProofs -----------------------
(***************************************************************************)
(* Theorems about TelemetryBatcher, for any agents, battery levels,        *)
(* threshold, number of readings and disruptions.                          *)
(***************************************************************************)
EXTENDS TelemetryBatcher, TLAPS, WellFoundedInduction

-----------------------------------------------------------------------------
(* What one evaluation of the low-battery rule does to the alerts table *)

\* Every ordinal in the rows is below n.
Below(rows, n) == \A r \in rows : r.openedBy < n /\ r.resolvedBy < n

LEMMA ActiveAlertIsActive ==
  ASSUME NEW rows, NEW a, ActiveAlerts(rows, a) # {}
  PROVE  /\ ActiveAlert(rows, a) \in rows
         /\ ActiveAlert(rows, a).agent = a
         /\ ActiveAlert(rows, a).resolvedBy = Unresolved
BY DEF ActiveAlert, ActiveAlerts

\* The rows stay rows.
LEMMA EvaluateType ==
  ASSUME NEW rows \in SUBSET Alert, NEW x \in Reading
  PROVE  EvaluateLowBattery(rows, x) \in SUBSET Alert
<1>1. CASE Triggers(rows, x)
  BY <1>1 DEF EvaluateLowBattery, InsertAlert, Alert, Reading, Unresolved, Seqs
<1>2. CASE ~ Triggers(rows, x) /\ Resolves(rows, x)
  <2> DEFINE r == ActiveAlert(rows, x.agent)
  <2>1. r \in rows
    BY <1>2, ActiveAlertIsActive DEF Resolves
  <2>2. r \in Alert /\ [r EXCEPT !.resolvedBy = x.seq] \in Alert
    BY <2>1 DEF Alert, Reading, Seqs
  <2>3. EvaluateLowBattery(rows, x)
          = (rows \ {r}) \cup {[r EXCEPT !.resolvedBy = x.seq]}
    BY <1>2 DEF EvaluateLowBattery, ResolveAlert
  <2> QED BY <2>2, <2>3
<1>3. CASE ~ Triggers(rows, x) /\ ~ Resolves(rows, x)
  BY <1>3 DEF EvaluateLowBattery
<1> QED BY <1>1, <1>2, <1>3

\* A second active alert is never inserted.
LEMMA EvaluateAtMostOneActive ==
  ASSUME NEW rows \in SUBSET Alert, NEW x \in Reading, AtMostOneActive(rows)
  PROVE  AtMostOneActive(EvaluateLowBattery(rows, x))
<1>1. CASE Triggers(rows, x)
  <2> DEFINE new == [agent |-> x.agent, openedBy |-> x.seq,
                     resolvedBy |-> Unresolved]
  <2>1. EvaluateLowBattery(rows, x) = rows \cup {new}
    BY <1>1 DEF EvaluateLowBattery, InsertAlert
  <2>2. \A r \in rows : r.agent = x.agent => r.resolvedBy # Unresolved
    BY <1>1 DEF Triggers, ActiveAlerts
  <2>3. new.agent = x.agent
    OBVIOUS
  <2> HIDE DEF new
  <2> QED BY <2>1, <2>2, <2>3 DEF AtMostOneActive
<1>2. CASE ~ Triggers(rows, x) /\ Resolves(rows, x)
  <2> DEFINE r == ActiveAlert(rows, x.agent)
             new == [r EXCEPT !.resolvedBy = x.seq]
  <2>1. r \in rows
    BY <1>2, ActiveAlertIsActive DEF Resolves
  <2>2. new.resolvedBy # Unresolved
    BY <2>1 DEF Alert, Reading, Seqs, Unresolved
  <2>3. EvaluateLowBattery(rows, x) = (rows \ {r}) \cup {new}
    BY <1>2 DEF EvaluateLowBattery, ResolveAlert
  <2> HIDE DEF r, new
  <2> QED BY <2>2, <2>3 DEF AtMostOneActive
<1>3. CASE ~ Triggers(rows, x) /\ ~ Resolves(rows, x)
  BY <1>3 DEF EvaluateLowBattery
<1> QED BY <1>1, <1>2, <1>3

\* No ordinal beyond that of the reading enters the table.
LEMMA EvaluateBelow ==
  ASSUME NEW rows \in SUBSET Alert, NEW x \in Reading, NEW n \in Nat,
         x.seq < n, Below(rows, n)
  PROVE  Below(EvaluateLowBattery(rows, x), n)
<1>1. CASE Triggers(rows, x)
  BY <1>1 DEF EvaluateLowBattery, InsertAlert, Below, Reading, Seqs, Unresolved
<1>2. CASE ~ Triggers(rows, x) /\ Resolves(rows, x)
  <2> DEFINE r == ActiveAlert(rows, x.agent)
             new == [r EXCEPT !.resolvedBy = x.seq]
  <2>1. r \in rows
    BY <1>2, ActiveAlertIsActive DEF Resolves
  <2>2. new.resolvedBy = x.seq /\ new.openedBy = r.openedBy
    BY <2>1 DEF Alert
  <2>3. EvaluateLowBattery(rows, x) = (rows \ {r}) \cup {new}
    BY <1>2 DEF EvaluateLowBattery, ResolveAlert
  <2> HIDE DEF r, new
  <2> QED BY <2>1, <2>2, <2>3 DEF Below
<1>3. CASE ~ Triggers(rows, x) /\ ~ Resolves(rows, x)
  BY <1>3 DEF EvaluateLowBattery
<1> QED BY <1>1, <1>2, <1>3

\* The past is not rewritten: an older ordinal is covered afterwards iff it
\* was covered before.
LEMMA EvaluateKeepsPast ==
  ASSUME NEW rows \in SUBSET Alert, NEW x \in Reading, Below(rows, x.seq),
         NEW a, NEW s \in Nat, s < x.seq
  PROVE  Covered(EvaluateLowBattery(rows, x), a, s) <=> Covered(rows, a, s)
<1> x.seq \in Nat /\ x.seq # 0
  BY DEF Reading, Seqs
<1>1. CASE Triggers(rows, x)
  <2> DEFINE new == [agent |-> x.agent, openedBy |-> x.seq,
                     resolvedBy |-> Unresolved]
  <2>1. EvaluateLowBattery(rows, x) = rows \cup {new}
    BY <1>1 DEF EvaluateLowBattery, InsertAlert
  <2>2. new.openedBy = x.seq
    OBVIOUS
  <2>3. ~ (new.openedBy <= s)
    BY <2>2
  <2> HIDE DEF new
  <2> QED BY <2>1, <2>3 DEF Covered
<1>2. CASE ~ Triggers(rows, x) /\ Resolves(rows, x)
  <2> DEFINE r == ActiveAlert(rows, x.agent)
             new == [r EXCEPT !.resolvedBy = x.seq]
  <2>1. r \in rows /\ r.resolvedBy = Unresolved
    BY <1>2, ActiveAlertIsActive DEF Resolves
  <2>2. new.resolvedBy = x.seq /\ new.openedBy = r.openedBy /\ new.agent = r.agent
    BY <2>1 DEF Alert
  <2>3. EvaluateLowBattery(rows, x) = (rows \ {r}) \cup {new}
    BY <1>2 DEF EvaluateLowBattery, ResolveAlert
  <2> HIDE DEF r, new
  <2>4. /\ new.agent = a /\ new.openedBy <= s
        /\ new.resolvedBy = Unresolved \/ s < new.resolvedBy
        <=> /\ r.agent = a /\ r.openedBy <= s
            /\ r.resolvedBy = Unresolved \/ s < r.resolvedBy
    BY <2>1, <2>2
  <2> QED BY <2>1, <2>3, <2>4 DEF Covered
<1>3. CASE ~ Triggers(rows, x) /\ ~ Resolves(rows, x)
  BY <1>3 DEF EvaluateLowBattery
<1> QED BY <1>1, <1>2, <1>3

\* The reading just evaluated is covered iff it is below the threshold.
LEMMA EvaluateDecides ==
  ASSUME NEW rows \in SUBSET Alert, NEW x \in Reading, Below(rows, x.seq),
         AtMostOneActive(rows)
  PROVE  Covered(EvaluateLowBattery(rows, x), x.agent, x.seq)
           <=> x.battery < Threshold
<1> x.seq \in Nat /\ x.seq # 0
  BY DEF Reading, Seqs
<1> \A r \in rows : r.openedBy \in Nat /\ r.resolvedBy \in Nat
  BY DEF Alert, Seqs
<1>1. CASE Triggers(rows, x)
  <2> DEFINE new == [agent |-> x.agent, openedBy |-> x.seq,
                     resolvedBy |-> Unresolved]
  <2>1. EvaluateLowBattery(rows, x) = rows \cup {new}
    BY <1>1 DEF EvaluateLowBattery, InsertAlert
  <2>2. /\ new.agent = x.agent /\ new.openedBy = x.seq
        /\ new.resolvedBy = Unresolved
    OBVIOUS
  <2>3. x.battery < Threshold
    BY <1>1 DEF Triggers, LowBattery
  <2> HIDE DEF new
  <2> QED BY <2>1, <2>2, <2>3 DEF Covered
<1>2. CASE ~ Triggers(rows, x) /\ Resolves(rows, x)
  <2> DEFINE r == ActiveAlert(rows, x.agent)
             new == [r EXCEPT !.resolvedBy = x.seq]
  <2>1. r \in rows /\ r.agent = x.agent /\ r.resolvedBy = Unresolved
    BY <1>2, ActiveAlertIsActive DEF Resolves
  <2>2. new.resolvedBy = x.seq
    BY <2>1 DEF Alert
  <2>3. EvaluateLowBattery(rows, x) = (rows \ {r}) \cup {new}
    BY <1>2 DEF EvaluateLowBattery, ResolveAlert
  <2>4. ~ (x.battery < Threshold)
    BY <1>2 DEF Resolves, LowBattery
  <2> HIDE DEF r, new
  <2>5. \A q \in rows \ {r} : q.agent = x.agent => q.resolvedBy # Unresolved
    BY <2>1 DEF AtMostOneActive
  <2>6. \A q \in rows \ {r} : ~ (x.seq < q.resolvedBy)
    BY DEF Below
  <2>7. new.resolvedBy # Unresolved /\ ~ (x.seq < new.resolvedBy)
    BY <2>2 DEF Unresolved
  <2> QED BY <2>3, <2>4, <2>5, <2>6, <2>7 DEF Covered
<1>3. CASE ~ Triggers(rows, x) /\ ~ Resolves(rows, x)
  <2>1. EvaluateLowBattery(rows, x) = rows
    BY <1>3 DEF EvaluateLowBattery
  <2>2. x.battery < Threshold <=> ActiveAlerts(rows, x.agent) # {}
    BY <1>3 DEF Triggers, Resolves, LowBattery
  <2>3. Covered(rows, x.agent, x.seq) <=> ActiveAlerts(rows, x.agent) # {}
    BY DEF Covered, ActiveAlerts, Below, Unresolved
  <2> QED BY <2>1, <2>2, <2>3
<1> QED BY <1>1, <1>2, <1>3

\* After a reading its agent is alerted iff the reading is below the
\* threshold; nothing changes for the other agents.
LEMMA EvaluateActive ==
  ASSUME NEW rows \in SUBSET Alert, NEW x \in Reading, AtMostOneActive(rows),
         NEW a
  PROVE  ActiveAlerts(EvaluateLowBattery(rows, x), a) # {}
           <=> IF a = x.agent THEN x.battery < Threshold
                              ELSE ActiveAlerts(rows, a) # {}
<1>1. CASE Triggers(rows, x)
  <2> DEFINE new == [agent |-> x.agent, openedBy |-> x.seq,
                     resolvedBy |-> Unresolved]
  <2>1. EvaluateLowBattery(rows, x) = rows \cup {new}
    BY <1>1 DEF EvaluateLowBattery, InsertAlert
  <2>2. new.agent = x.agent /\ new.resolvedBy = Unresolved
    OBVIOUS
  <2>3. x.battery < Threshold
    BY <1>1 DEF Triggers, LowBattery
  <2> HIDE DEF new
  <2> QED BY <2>1, <2>2, <2>3 DEF ActiveAlerts
<1>2. CASE ~ Triggers(rows, x) /\ Resolves(rows, x)
  <2> DEFINE r == ActiveAlert(rows, x.agent)
             new == [r EXCEPT !.resolvedBy = x.seq]
  <2>1. r \in rows /\ r.agent = x.agent /\ r.resolvedBy = Unresolved
    BY <1>2, ActiveAlertIsActive DEF Resolves
  <2>2. new.agent = x.agent /\ new.resolvedBy # Unresolved
    BY <2>1 DEF Alert, Reading, Seqs, Unresolved
  <2>3. EvaluateLowBattery(rows, x) = (rows \ {r}) \cup {new}
    BY <1>2 DEF EvaluateLowBattery, ResolveAlert
  <2>4. ~ (x.battery < Threshold)
    BY <1>2 DEF Resolves, LowBattery
  <2> HIDE DEF r, new
  <2>5. \A q \in rows \ {r} : q.agent = x.agent => q.resolvedBy # Unresolved
    BY <2>1 DEF AtMostOneActive
  <2> QED BY <2>1, <2>2, <2>3, <2>4, <2>5 DEF ActiveAlerts
<1>3. CASE ~ Triggers(rows, x) /\ ~ Resolves(rows, x)
  <2>1. EvaluateLowBattery(rows, x) = rows
    BY <1>3 DEF EvaluateLowBattery
  <2>2. x.battery < Threshold <=> ActiveAlerts(rows, x.agent) # {}
    BY <1>3 DEF Triggers, Resolves, LowBattery
  <2> QED BY <2>1, <2>2
<1> QED BY <1>1, <1>2, <1>3

-----------------------------------------------------------------------------
(* The last reading of an agent in a window *)

LEMMA LargestIndexExists ==
  ASSUME NEW n \in Nat, NEW M \in SUBSET (1 .. n), M # {}
  PROVE  \E m \in M : \A k \in M : k <= m
<1> DEFINE T == {n - m : m \in M}
<1>1. T \subseteq Nat /\ T # {}
  <2>1. \A m \in M : n - m \in Nat
    OBVIOUS
  <2>2. PICK m \in M : TRUE
    OBVIOUS
  <2>3. n - m \in T
    OBVIOUS
  <2> QED BY <2>1, <2>3
<1>2. PICK x \in T : \A y \in T : ~ (<<y, x>> \in OpToRel(<, Nat))
  BY <1>1, NatLessThanWellFounded, WFMin
<1>3. \A y \in T : ~ (y < x)
  BY <1>1, <1>2 DEF OpToRel
<1>4. PICK m \in M : x = n - m
  OBVIOUS
<1>5. \A k \in M : k <= m
  <2> TAKE k \in M
  <2>1. n - k \in T /\ n - k \in Nat /\ n - m \in Nat
    OBVIOUS
  <2>2. ~ (n - k < n - m)
    BY <1>3, <1>4, <2>1
  <2> QED BY <2>2
<1> QED BY <1>5

LEMMA ReadingOfSequence ==
  ASSUME NEW items \in Seq(Reading), NEW i \in DOMAIN items
  PROVE  /\ items[i] \in Reading
         /\ items[i].agent \in Agents /\ items[i].battery \in Batteries
         /\ items[i].seq \in Seqs
<1>1. items[i] \in Reading
  OBVIOUS
<1> QED BY <1>1 DEF Reading

\* LastOf yields the ordinal of a reading of that agent in the window.
LEMMA LastOfIsThere ==
  ASSUME NEW items \in Seq(Reading), NEW a \in AgentsOf(items)
  PROVE  \E i \in DOMAIN items : items[i].agent = a /\ LastOf(items, a) = items[i].seq
<1> DEFINE mine == {i \in DOMAIN items : items[i].agent = a}
           Last(i) == i \in mine /\ \A j \in mine : j <= i
           last == CHOOSE i \in mine : \A j \in mine : j <= i
<1>1. mine # {} /\ mine \in SUBSET (1 .. Len(items)) /\ Len(items) \in Nat
  BY DEF AgentsOf
<1>2. \E i \in mine : \A j \in mine : j <= i
  BY <1>1, LargestIndexExists
<1>3. last \in mine
  BY <1>2
<1> QED BY <1>3 DEF LastOf

\* In a sorted window it yields the newest one.
LEMMA LastOfIsNewest ==
  ASSUME NEW items \in Seq(Reading), NEW a \in AgentsOf(items),
         \A i, j \in DOMAIN items : i < j => items[i].seq < items[j].seq,
         NEW k \in DOMAIN items, items[k].agent = a
  PROVE  items[k].seq <= LastOf(items, a)
<1> DEFINE mine == {i \in DOMAIN items : items[i].agent = a}
           last == CHOOSE i \in mine : \A j \in mine : j <= i
<1>1. mine # {} /\ mine \in SUBSET (1 .. Len(items)) /\ Len(items) \in Nat
  BY DEF AgentsOf
<1>2. \E i \in mine : \A j \in mine : j <= i
  BY <1>1, LargestIndexExists
<1>3. last \in mine /\ k <= last
  BY <1>2
<1>4. \A i \in DOMAIN items : items[i].seq \in Nat /\ i \in Nat
  BY ReadingOfSequence DEF Seqs
<1>5. LastOf(items, a) = items[last].seq
  BY DEF LastOf
<1> HIDE DEF last
<1>6. CASE k = last
  BY <1>3, <1>4, <1>5, <1>6
<1>7. CASE k # last
  <2>1. k < last
    BY <1>3, <1>4, <1>7
  <2> QED BY <1>3, <1>4, <1>5, <2>1
<1> QED BY <1>6, <1>7

LEMMA PublishType ==
  ASSUME NEW view \in [Agents -> Nat], NEW items \in Seq(Reading),
         NEW agents \in SUBSET AgentsOf(items)
  PROVE  Publish(view, items, agents) \in [Agents -> Nat]
<1>1. \A a \in Agents : Publish(view, items, agents)[a] \in Nat
  <2> TAKE a \in Agents
  <2>1. CASE a \in agents
    <3>1. PICK i \in DOMAIN items : LastOf(items, a) = items[i].seq
      BY <2>1, LastOfIsThere
    <3>2. Publish(view, items, agents)[a] = items[i].seq
      BY <2>1, <3>1 DEF Publish
    <3> QED BY <3>2, ReadingOfSequence DEF Seqs
  <2>2. CASE a \notin agents
    BY <2>2 DEF Publish
  <2> QED BY <2>1, <2>2
<1>2. Publish(view, items, agents)
        = [a \in Agents |-> Publish(view, items, agents)[a]]
  BY DEF Publish
<1> QED BY <1>1, <1>2

-----------------------------------------------------------------------------
(* Type correctness *)

LEMMA InitType == Init => TypeOK
BY DEF Init, TypeOK

LEMMA NextType == TypeOK /\ [Next]_vars => TypeOK'
<1> SUFFICES ASSUME TypeOK, [Next]_vars
             PROVE  TypeOK'
  OBVIOUS
<1> USE DEF TypeOK
<1>1. CASE Start
  BY <1>1 DEF Start, durable, outputs
<1>2. ASSUME NEW a \in Agents, NEW b \in Batteries, Ingest(a, b)
      PROVE  TypeOK'
  <2> DEFINE x == [agent |-> a, battery |-> b, seq |-> accepted']
  <2>1. x \in Reading
    BY <1>2 DEF Ingest, Reading, Seqs
  <2>2. buffer' \in Seq(Reading)
    BY <1>2, <2>1 DEF Ingest
  <2> QED BY <1>2, <2>2 DEF Ingest, durable, outputs
<1>3. CASE Drain
  BY <1>3 DEF Drain, SwapBuffer, durable, outputs
<1>4. CASE Evaluate
  <2>1. batch[next] \in Reading
    BY <1>4 DEF Evaluate
  <2>2. txAlerts' \subseteq Alert
    BY <1>4, <2>1, EvaluateType DEF Evaluate
  <2> QED BY <1>4, <2>2 DEF Evaluate, durable, outputs
<1>5. ASSUME CommitEffect
      PROVE  telemetry' \subseteq Row /\ alerts' \subseteq Alert
  <2>1. \A i \in DOMAIN batch : RowOf(batch[i]) \in Row
    BY ReadingOfSequence DEF RowOf, Row
  <2> QED BY <1>5, <2>1 DEF CommitEffect
<1>6. CASE Commit
  BY <1>5, <1>6 DEF Commit, outputs
<1>7. ASSUME ReportFailure
      PROVE  reported' \subseteq Seqs
  BY <1>7, ReadingOfSequence DEF ReportFailure, SeqsOf
<1>8. CASE CommitReplyLost
  BY <1>5, <1>7, <1>8 DEF CommitReplyLost, Return, outputs
<1>9. CASE SqlFails
  BY <1>7, <1>9 DEF SqlFails, Return, durable, outputs
<1>10. CASE ConnectFails
  BY <1>10 DEF ConnectFails, durable, outputs
<1>11. CASE WriteRedis \/ RedisHangs
  <2>1. redis' \in [Agents -> Nat]
    BY <1>11, PublishType DEF WriteRedis, RedisHangs
  <2> QED BY <1>11, <2>1 DEF WriteRedis, RedisHangs, durable
<1>12. CASE Emit
  <2>1. broadcast' \in [Agents -> Nat]
    BY <1>12, PublishType DEF Emit
  <2> QED BY <1>12, <2>1 DEF Emit, Return, durable
<1>13. CASE Stop
  <2>1. CASE pc # "dead" /\ SwapBuffer /\ mode' = "stopping"
    BY <1>13, <2>1 DEF Stop, SwapBuffer, durable, outputs
  <2>2. CASE mode' = "down"
    BY <1>13, <2>2 DEF Stop, durable, outputs
  <2> QED BY <1>13, <2>1, <2>2 DEF Stop
<1>14. CASE Crash
  BY <1>14 DEF Crash, durable, outputs
<1>15. CASE UNCHANGED vars
  BY <1>15 DEF vars, volatile, durable, outputs
<1>16. CASE SqlHangs
  BY <1>5, <1>16 DEF SqlHangs, durable, outputs
<1> QED
  BY <1>1, <1>2, <1>3, <1>4, <1>6, <1>8, <1>9, <1>10, <1>11, <1>12, <1>13,
     <1>14, <1>15, <1>16 DEF Next, Flush

\* The variables keep their types; in particular the flush never looks past
\* the end of its window.
THEOREM TypeCorrect == Spec => []TypeOK
BY InitType, NextType, PTL DEF Spec

-----------------------------------------------------------------------------
(* The order of what is stored, in flight and buffered *)

Sorted(items) ==
  \A i, j \in DOMAIN items : i < j => items[i].seq < items[j].seq

\* Stored readings come before the open window, which comes before the
\* buffer, which was accepted last; each is sorted.
Order ==
  /\ Sorted(buffer) /\ Sorted(batch)
  /\ \A i \in DOMAIN buffer : buffer[i].seq <= accepted
  /\ \A i \in DOMAIN batch : batch[i].seq <= accepted
  /\ \A i \in DOMAIN batch, j \in DOMAIN buffer : batch[i].seq < buffer[j].seq
  /\ \A t \in telemetry : t.seq <= accepted
  /\ \A t \in telemetry, j \in DOMAIN buffer : t.seq < buffer[j].seq
  /\ pc = "evaluate" =>
       \A t \in telemetry, i \in DOMAIN batch : t.seq < batch[i].seq

\* The facts about ordinals that the arithmetic below needs.
Ordinals ==
  /\ \A i \in DOMAIN buffer : buffer[i].seq \in Nat
  /\ \A i \in DOMAIN batch : batch[i].seq \in Nat
  /\ \A t \in telemetry : t.seq \in Nat
  /\ accepted \in Nat

LEMMA OrdinalsFromType == TypeOK => Ordinals
<1> SUFFICES ASSUME TypeOK PROVE Ordinals
  OBVIOUS
<1>1. \A i \in DOMAIN buffer : buffer[i].seq \in Nat
  BY ReadingOfSequence DEF TypeOK, Seqs
<1>2. \A i \in DOMAIN batch : batch[i].seq \in Nat
  BY ReadingOfSequence DEF TypeOK, Seqs
<1>3. \A t \in telemetry : t.seq \in Nat
  BY DEF TypeOK, Row, Seqs
<1> QED BY <1>1, <1>2, <1>3 DEF Ordinals, TypeOK

\* What Ingest does to the buffer.
LEMMA IngestBuffer ==
  ASSUME TypeOK, NEW a \in Agents, NEW b \in Batteries, Ingest(a, b)
  PROVE  /\ DOMAIN buffer' = DOMAIN buffer \cup {Len(buffer) + 1}
         /\ \A i \in DOMAIN buffer : buffer'[i] = buffer[i] /\ i < Len(buffer) + 1
         /\ buffer'[Len(buffer) + 1].seq = accepted + 1
         /\ accepted' = accepted + 1
<1>1. buffer \in Seq(Reading)
  BY DEF TypeOK
<1> QED BY <1>1 DEF Ingest

LEMMA NextOrder == TypeOK /\ Order /\ [Next]_vars => Order'
<1> SUFFICES ASSUME TypeOK, Order, [Next]_vars
             PROVE  Order'
  OBVIOUS
<1> Ordinals
  BY OrdinalsFromType
<1> USE DEF Order, Sorted, Ordinals
<1>1. CASE Start
  BY <1>1 DEF Start, durable
<1>2. ASSUME NEW a \in Agents, NEW b \in Batteries, Ingest(a, b)
      PROVE  Order'
  <2>1. UNCHANGED <<pc, batch, telemetry>>
    BY <1>2 DEF Ingest, durable
  <2>2. Sorted(buffer')
    <3> SUFFICES ASSUME NEW i \in DOMAIN buffer', NEW j \in DOMAIN buffer', i < j
                 PROVE  buffer'[i].seq < buffer'[j].seq
      OBVIOUS
    <3>0. buffer \in Seq(Reading) /\ Len(buffer) \in Nat /\ DOMAIN buffer \subseteq Nat
      BY DEF TypeOK
    <3>1. i \in DOMAIN buffer
      BY <1>2, <3>0, IngestBuffer
    <3>2. CASE j \in DOMAIN buffer
      BY <1>2, <3>1, <3>2, IngestBuffer
    <3>3. CASE j = Len(buffer) + 1
      BY <1>2, <3>1, <3>3, IngestBuffer
    <3> QED BY <1>2, <3>2, <3>3, IngestBuffer
  <2> QED BY <1>2, <2>1, <2>2, IngestBuffer
<1>3. CASE Drain
  BY <1>3 DEF Drain, SwapBuffer, durable
<1>4. CASE Evaluate
  BY <1>4 DEF Evaluate, durable
<1>5. CASE Commit
  BY <1>5 DEF Commit, CommitEffect, RowOf
<1>6. CASE CommitReplyLost
  BY <1>6 DEF CommitReplyLost, CommitEffect, RowOf, Return
<1>7. CASE SqlFails
  BY <1>7 DEF SqlFails, Return, durable
<1>8. CASE ConnectFails
  BY <1>8 DEF ConnectFails, durable
<1>9. CASE WriteRedis \/ RedisHangs
  BY <1>9 DEF WriteRedis, RedisHangs, durable
<1>10. CASE Emit
  BY <1>10 DEF Emit, Return, durable
<1>11. CASE Stop
  <2>1. CASE SwapBuffer
    BY <1>11, <2>1 DEF Stop, SwapBuffer, durable
  <2>2. CASE buffer' = <<>> /\ batch' = <<>>
    BY <1>11, <2>2 DEF Stop, durable
  <2> QED BY <1>11, <2>1, <2>2 DEF Stop
<1>12. CASE Crash
  BY <1>12 DEF Crash, durable
<1>13. CASE UNCHANGED vars
  BY <1>13 DEF vars, volatile, durable
<1>14. CASE SqlHangs
  BY <1>14 DEF SqlHangs, CommitEffect, RowOf, durable
<1> QED
  BY <1>1, <1>2, <1>3, <1>4, <1>5, <1>6, <1>7, <1>8, <1>9, <1>10, <1>11,
     <1>12, <1>13, <1>14 DEF Next, Flush

LEMMA OrderCorrect == Spec => [](TypeOK /\ Order)
<1>1. Init => Order
  BY DEF Init, Order, Sorted
<1> QED BY <1>1, InitType, NextType, NextOrder, PTL DEF Spec

-----------------------------------------------------------------------------
(* Readings are stored once and in order *)

Stamped == \A t \in telemetry : t.recordedAt <= window

LEMMA CommitStores ==
  ASSUME TypeOK, Order, StoredOnceInOrder, Stamped, CommitEffect
  PROVE  /\ \A t, u \in telemetry' :
              /\ t.seq = u.seq => t = u
              /\ t.seq < u.seq => t.recordedAt <= u.recordedAt
         /\ \A t \in telemetry' : t.recordedAt <= window
<1> DEFINE new == {RowOf(batch[i]) : i \in DOMAIN batch}
<1> Ordinals
  BY OrdinalsFromType
<1>1. telemetry' = telemetry \cup new
  BY DEF CommitEffect
<1>2. \A u \in new : u.recordedAt = window
  BY DEF RowOf
<1>3. \A t \in telemetry, u \in new : t.seq < u.seq
  BY DEF CommitEffect, Order, RowOf
<1>4. \A t, u \in new : t.seq = u.seq => t = u
  <2> TAKE t \in new, u \in new
  <2>1. PICK i \in DOMAIN batch : t = RowOf(batch[i])
    OBVIOUS
  <2>2. PICK j \in DOMAIN batch : u = RowOf(batch[j])
    OBVIOUS
  <2>3. i \in Nat /\ j \in Nat
    BY DEF TypeOK
  <2>4. t.seq = batch[i].seq /\ u.seq = batch[j].seq
    BY <2>1, <2>2 DEF RowOf
  <2>5. batch[i].seq = batch[j].seq => i = j
    BY <2>3 DEF Order, Sorted, Ordinals
  <2> QED BY <2>1, <2>2, <2>4, <2>5
<1>5. \A t \in telemetry : t.seq \in Nat /\ t.recordedAt \in Nat
  BY DEF TypeOK, Row, Seqs
<1>6. \A u \in new : u.seq \in Nat
  BY DEF RowOf, Ordinals
<1>7. window \in Nat
  BY DEF TypeOK
<1> HIDE DEF new
<1> QED BY <1>1, <1>2, <1>3, <1>4, <1>5, <1>6, <1>7 DEF StoredOnceInOrder, Stamped

LEMMA NextStored ==
  TypeOK /\ Order /\ StoredOnceInOrder /\ Stamped /\ [Next]_vars
    => StoredOnceInOrder' /\ Stamped'
<1> SUFFICES ASSUME TypeOK, Order, StoredOnceInOrder, Stamped, [Next]_vars
             PROVE  StoredOnceInOrder' /\ Stamped'
  OBVIOUS
<1>1. CASE CommitEffect /\ window' = window
  BY <1>1, CommitStores DEF StoredOnceInOrder, Stamped
<1>2. CASE UNCHANGED telemetry /\ window' \in {window, window + 1}
  <2>1. window \in Nat /\ \A t \in telemetry : t.recordedAt \in Nat
    BY DEF TypeOK, Row
  <2> QED BY <1>2, <2>1 DEF StoredOnceInOrder, Stamped
<1>3. \/ CommitEffect /\ window' = window
      \/ UNCHANGED telemetry /\ window' \in {window, window + 1}
  BY DEF Next, vars, volatile, durable, outputs, Start, Ingest, Flush, Drain,
         SwapBuffer, Evaluate, Commit, CommitReplyLost, SqlFails, ConnectFails,
         SqlHangs, WriteRedis, RedisHangs, Emit, Return, Stop, Crash
<1> QED BY <1>1, <1>2, <1>3

\* No reading is stored twice, and recorded_at follows the order of
\* acceptance: the windows of the loop and of stop() never overlap.
THEOREM StoredOnceInOrderCorrect == Spec => []StoredOnceInOrder
<1>1. Init => StoredOnceInOrder /\ Stamped
  BY DEF Init, StoredOnceInOrder, Stamped
<1> QED BY <1>1, NextStored, OrderCorrect, PTL DEF Spec

-----------------------------------------------------------------------------
(* The alerts table is exact *)

\* The alerts of the open transaction are exact for what is stored and for
\* the readings of the window evaluated so far, and know nothing later.
Transaction ==
  /\ Below(txAlerts, accepted + 1)
  /\ \A j \in DOMAIN buffer : Below(txAlerts, buffer[j].seq)
  /\ \A i \in DOMAIN batch : next <= i => Below(txAlerts, batch[i].seq)
  /\ \A t \in telemetry :
       (t.battery < Threshold) <=> Covered(txAlerts, t.agent, t.seq)
  /\ \A i \in DOMAIN batch : i < next =>
       ((batch[i].battery < Threshold)
          <=> Covered(txAlerts, batch[i].agent, batch[i].seq))

AlertInv ==
  /\ OneActiveAlert
  /\ AlertHistoryExact
  /\ Below(alerts, accepted + 1)
  /\ \A j \in DOMAIN buffer : Below(alerts, buffer[j].seq)
  /\ pc = "evaluate" => Transaction

LEMMA BelowMore ==
  ASSUME NEW rows \in SUBSET Alert, NEW m \in Nat, NEW n \in Nat, m <= n,
         Below(rows, m)
  PROVE  Below(rows, n)
BY DEF Below, Alert, Seqs

\* The transaction starts from the table.
LEMMA SwapAlerts ==
  ASSUME TypeOK, Order, AlertInv, SwapBuffer, UNCHANGED <<durable, accepted>>
  PROVE  AlertInv'
BY DEF TypeOK, AlertInv, OneActiveAlert, AlertHistoryExact, Transaction,
       SwapBuffer, durable

\* A step that ends the flush without a commit leaves the table alone.
LEMMA RollbackAlerts ==
  ASSUME AlertInv, UNCHANGED <<durable, accepted>>,
         pc' # "evaluate", txAlerts' \in {{}, txAlerts},
         buffer' \in {<<>>, buffer}
  PROVE  AlertInv'
BY DEF AlertInv, OneActiveAlert, AtMostOneActive, AlertHistoryExact, durable

LEMMA EvaluateAlerts ==
  ASSUME TypeOK, Order, AlertInv, Evaluate
  PROVE  AlertInv'
<1> DEFINE x == batch[next]
<1> Ordinals
  BY OrdinalsFromType
<1>1. x \in Reading /\ next \in DOMAIN batch /\ next \in Nat
  BY ReadingOfSequence DEF TypeOK, Evaluate
<1>2. txAlerts \in SUBSET Alert /\ Transaction
  BY DEF TypeOK, AlertInv, Evaluate
<1>3. Below(txAlerts, x.seq) /\ x.seq \in Nat
  BY <1>1, <1>2 DEF Transaction, Ordinals
<1>4. txAlerts' = EvaluateLowBattery(txAlerts, x) /\ txAlerts' \in SUBSET Alert
  BY <1>1, <1>2, EvaluateType DEF Evaluate
<1>5. AtMostOneActive(txAlerts)
  BY DEF AlertInv, OneActiveAlert
<1>6. AtMostOneActive(txAlerts')
  BY <1>1, <1>2, <1>4, <1>5, EvaluateAtMostOneActive
<1>7. UNCHANGED <<pc, buffer, batch, telemetry, alerts, accepted>> /\ next' = next + 1
  BY DEF Evaluate, durable
<1>8. ASSUME NEW n \in Nat, x.seq < n, Below(txAlerts, n)
      PROVE  Below(txAlerts', n)
  BY <1>1, <1>2, <1>4, <1>8, EvaluateBelow
<1>9. Below(txAlerts', accepted + 1)
  <2>1. x.seq < accepted + 1 /\ accepted + 1 \in Nat
    BY <1>1, <1>3 DEF Order, Ordinals
  <2> QED BY <1>2, <1>8, <2>1 DEF Transaction
<1>10. \A j \in DOMAIN buffer : Below(txAlerts', buffer[j].seq)
  <2> TAKE j \in DOMAIN buffer
  <2>1. x.seq < buffer[j].seq /\ buffer[j].seq \in Nat
    BY <1>1 DEF Order, Ordinals
  <2> QED BY <1>2, <1>8, <2>1 DEF Transaction
<1>11. \A i \in DOMAIN batch : next + 1 <= i => Below(txAlerts', batch[i].seq)
  <2> TAKE i \in DOMAIN batch
  <2> HAVE next + 1 <= i
  <2>1. i \in Nat /\ next <= i /\ next < i
    BY <1>1 DEF TypeOK
  <2>2. x.seq < batch[i].seq /\ batch[i].seq \in Nat
    BY <1>1, <2>1 DEF Order, Sorted, Ordinals
  <2> QED BY <1>2, <1>8, <2>1, <2>2 DEF Transaction
<1>12. ASSUME NEW a, NEW s \in Nat, s < x.seq
       PROVE  Covered(txAlerts', a, s) <=> Covered(txAlerts, a, s)
  BY <1>1, <1>2, <1>3, <1>4, <1>12, EvaluateKeepsPast
<1>13. \A t \in telemetry :
         (t.battery < Threshold) <=> Covered(txAlerts', t.agent, t.seq)
  <2> TAKE t \in telemetry
  <2>1. t.seq \in Nat /\ t.seq < x.seq
    BY <1>1 DEF Order, Ordinals, Evaluate
  <2>2. Covered(txAlerts', t.agent, t.seq) <=> Covered(txAlerts, t.agent, t.seq)
    BY <1>12, <2>1
  <2> QED BY <1>2, <2>2 DEF Transaction
<1>14. \A i \in DOMAIN batch : i < next + 1 =>
         ((batch[i].battery < Threshold)
            <=> Covered(txAlerts', batch[i].agent, batch[i].seq))
  <2> TAKE i \in DOMAIN batch
  <2> HAVE i < next + 1
  <2>1. i \in Nat
    BY DEF TypeOK
  <2>2. CASE i = next
    BY <1>1, <1>2, <1>3, <1>4, <1>5, <2>2, EvaluateDecides
  <2>3. CASE i < next
    <3>1. batch[i].seq \in Nat /\ batch[i].seq < x.seq
      BY <1>1, <2>1, <2>3 DEF Order, Sorted, Ordinals
    <3>2. Covered(txAlerts', batch[i].agent, batch[i].seq)
            <=> Covered(txAlerts, batch[i].agent, batch[i].seq)
      BY <1>12, <3>1
    <3> QED BY <1>2, <2>3, <3>2 DEF Transaction
  <2> QED BY <1>1, <2>1, <2>2, <2>3
<1> HIDE DEF x
<1>15. Transaction'
  BY <1>7, <1>9, <1>10, <1>11, <1>13, <1>14 DEF Transaction
<1> QED
  BY <1>6, <1>7, <1>15 DEF AlertInv, OneActiveAlert, AlertHistoryExact

LEMMA CommitAlerts ==
  ASSUME TypeOK, Order, AlertInv, CommitEffect,
         UNCHANGED <<buffer, accepted>>, pc' # "evaluate",
         txAlerts' \in {{}, txAlerts}
  PROVE  AlertInv'
<1>1. Transaction
  BY DEF AlertInv, CommitEffect
<1>2. \A i \in DOMAIN batch : i < next
  BY DEF TypeOK, CommitEffect
<1>3. AlertHistoryExact'
  <2> SUFFICES ASSUME NEW t \in telemetry'
               PROVE  (t.battery < Threshold) <=> Covered(txAlerts, t.agent, t.seq)
    BY DEF AlertHistoryExact, CommitEffect
  <2>1. CASE t \in telemetry
    BY <1>1, <2>1 DEF Transaction
  <2>2. CASE t \notin telemetry
    <3>1. PICK i \in DOMAIN batch : t = RowOf(batch[i])
      BY <2>2 DEF CommitEffect
    <3>2. /\ t.battery = batch[i].battery /\ t.agent = batch[i].agent
          /\ t.seq = batch[i].seq
      BY <3>1 DEF RowOf
    <3> QED BY <1>1, <1>2, <3>2 DEF Transaction
  <2> QED BY <2>1, <2>2
<1>4. OneActiveAlert'
  BY DEF AlertInv, OneActiveAlert, AtMostOneActive, CommitEffect
<1> QED BY <1>1, <1>3, <1>4 DEF AlertInv, Transaction, CommitEffect

LEMMA NextAlerts == TypeOK /\ Order /\ AlertInv /\ [Next]_vars => AlertInv'
<1> SUFFICES ASSUME TypeOK, Order, AlertInv, [Next]_vars
             PROVE  AlertInv'
  OBVIOUS
<1>1. CASE Start
  BY <1>1 DEF Start, durable, AlertInv, OneActiveAlert, AlertHistoryExact,
              Transaction
<1>2. ASSUME NEW a \in Agents, NEW b \in Batteries, Ingest(a, b)
      PROVE  AlertInv'
  <2>1. UNCHANGED <<pc, batch, next, txAlerts, telemetry, alerts>>
    BY <1>2 DEF Ingest, durable
  <2>2. /\ accepted + 1 \in Nat /\ accepted' + 1 \in Nat
        /\ accepted + 1 <= accepted' + 1
    BY <1>2, IngestBuffer DEF TypeOK
  <2>3. ASSUME NEW rows \in SUBSET Alert, Below(rows, accepted + 1),
               \A j \in DOMAIN buffer : Below(rows, buffer[j].seq)
        PROVE  /\ Below(rows, accepted' + 1)
               /\ \A j \in DOMAIN buffer' : Below(rows, buffer'[j].seq)
    <3>1. Below(rows, accepted' + 1)
      BY <2>2, <2>3, BelowMore
    <3>2. \A j \in DOMAIN buffer' : Below(rows, buffer'[j].seq)
      <4> TAKE j \in DOMAIN buffer'
      <4>1. CASE j \in DOMAIN buffer
        BY <1>2, <2>3, <4>1, IngestBuffer
      <4>2. CASE j = Len(buffer) + 1
        <5>1. buffer'[j].seq = accepted + 1
          BY <1>2, <4>2, IngestBuffer
        <5> QED BY <2>3, <5>1
      <4>3. j \in DOMAIN buffer \/ j = Len(buffer) + 1
        BY <1>2, IngestBuffer
      <4> QED BY <4>1, <4>2, <4>3
    <3> QED BY <3>1, <3>2
  <2>4. alerts \in SUBSET Alert /\ txAlerts \in SUBSET Alert
    BY DEF TypeOK
  <2>5. Below(alerts, accepted' + 1) /\ \A j \in DOMAIN buffer' : Below(alerts, buffer'[j].seq)
    BY <2>3, <2>4 DEF AlertInv
  <2>6. pc = "evaluate" =>
          /\ Below(txAlerts, accepted' + 1)
          /\ \A j \in DOMAIN buffer' : Below(txAlerts, buffer'[j].seq)
    BY <2>3, <2>4 DEF AlertInv, Transaction
  <2> QED
    BY <2>1, <2>5, <2>6 DEF AlertInv, OneActiveAlert, AlertHistoryExact, Transaction
<1>3. CASE Drain
  BY <1>3, SwapAlerts DEF Drain
<1>4. CASE Evaluate
  BY <1>4, EvaluateAlerts
<1>5. CASE Commit
  BY <1>5, CommitAlerts DEF Commit
<1>6. CASE CommitReplyLost
  BY <1>6, CommitAlerts DEF CommitReplyLost, Return
<1>7. CASE SqlFails
  BY <1>7, RollbackAlerts DEF SqlFails, Return
<1>8. CASE ConnectFails
  BY <1>8, RollbackAlerts DEF ConnectFails
<1>9. CASE WriteRedis \/ RedisHangs
  BY <1>9, RollbackAlerts DEF WriteRedis, RedisHangs
<1>10. CASE Emit
  BY <1>10, RollbackAlerts DEF Emit, Return
<1>11. CASE Stop
  <2>1. CASE SwapBuffer
    BY <1>11, <2>1, SwapAlerts DEF Stop
  <2>2. CASE pc' = "sleep" /\ buffer' = <<>> /\ txAlerts' = {}
    BY <1>11, <2>2, RollbackAlerts DEF Stop
  <2> QED BY <1>11, <2>1, <2>2 DEF Stop
<1>12. CASE Crash
  BY <1>12, RollbackAlerts DEF Crash
<1>13. CASE UNCHANGED vars
  BY <1>13 DEF vars, volatile, durable, AlertInv, OneActiveAlert,
               AlertHistoryExact, Transaction
<1>14. CASE SqlHangs
  BY <1>14, CommitAlerts, RollbackAlerts DEF SqlHangs
<1> QED
  BY <1>1, <1>2, <1>3, <1>4, <1>5, <1>6, <1>7, <1>8, <1>9, <1>10, <1>11,
     <1>12, <1>13, <1>14 DEF Next, Flush

LEMMA AlertInvCorrect == Spec => []AlertInv
<1>1. Init => AlertInv
  BY DEF Init, AlertInv, OneActiveAlert, AtMostOneActive, AlertHistoryExact, Below
<1> QED BY <1>1, NextAlerts, OrderCorrect, PTL DEF Spec

\* The alerts are the exact history of the low-battery condition of the stored
\* telemetry, whatever fails, is shut down or crashes.
THEOREM AlertHistoryExactCorrect == Spec => []AlertHistoryExact
<1>1. AlertInv => AlertHistoryExact
  BY DEF AlertInv
<1> QED BY <1>1, AlertInvCorrect, PTL

\* The partial unique index on active alerts is never violated, neither by
\* the committed table nor by a statement inside the transaction.
THEOREM OneActiveAlertCorrect == Spec => []OneActiveAlert
<1>1. AlertInv => OneActiveAlert
  BY DEF AlertInv
<1> QED BY <1>1, AlertInvCorrect, PTL

-----------------------------------------------------------------------------
(* What Redis and the clients see *)

IsStored(a, s) == \E t \in telemetry : t.agent = a /\ t.seq = s

\* Once a window is past its commit, its readings are stored.
WindowStored ==
  pc \in {"redis", "emit"} =>
    \A i \in DOMAIN batch : IsStored(batch[i].agent, batch[i].seq)

\* Publishing a stored window keeps a view durable.
LEMMA PublishDurable ==
  ASSUME TypeOK, WindowStored, pc \in {"redis", "emit"}, NEW view,
         NEW agents \in SUBSET AgentsOf(batch), NEW a \in Agents,
         view[a] # 0 => IsStored(a, view[a])
  PROVE  LET s == Publish(view, batch, agents)[a] IN s # 0 => IsStored(a, s)
<1>1. CASE a \in agents
  <2>1. PICK i \in DOMAIN batch :
          batch[i].agent = a /\ LastOf(batch, a) = batch[i].seq
    BY <1>1, LastOfIsThere DEF TypeOK
  <2>2. Publish(view, batch, agents)[a] = batch[i].seq
    BY <1>1, <2>1 DEF Publish
  <2> QED BY <2>1, <2>2 DEF WindowStored
<1>2. CASE a \notin agents
  BY <1>2 DEF Publish
<1> QED BY <1>1, <1>2

LEMMA DurableUnfolded ==
  OutputsAreDurable <=>
    \A a \in Agents : /\ redis[a] # 0 => IsStored(a, redis[a])
                      /\ broadcast[a] # 0 => IsStored(a, broadcast[a])
BY DEF OutputsAreDurable, IsStored

LEMMA NextOutputs ==
  TypeOK /\ OutputsAreDurable /\ WindowStored /\ [Next]_vars
    => OutputsAreDurable' /\ WindowStored'
<1> SUFFICES ASSUME TypeOK, OutputsAreDurable, WindowStored, [Next]_vars
             PROVE  OutputsAreDurable' /\ WindowStored'
  OBVIOUS
<1>1. CASE UNCHANGED <<telemetry, outputs>> /\ pc' \notin {"redis", "emit"}
  BY <1>1 DEF OutputsAreDurable, WindowStored, outputs
<1>2. CASE UNCHANGED <<telemetry, outputs, pc, batch>>
  BY <1>2 DEF OutputsAreDurable, WindowStored, IsStored, outputs
<1>3. CASE CommitEffect /\ UNCHANGED <<outputs, batch>>
  <2>1. telemetry \subseteq telemetry'
    BY <1>3 DEF CommitEffect
  <2>2. OutputsAreDurable'
    BY <1>3, <2>1 DEF OutputsAreDurable, outputs
  <2>3. \A i \in DOMAIN batch :
          \E t \in telemetry' : t.agent = batch[i].agent /\ t.seq = batch[i].seq
    <3> TAKE i \in DOMAIN batch
    <3>1. RowOf(batch[i]) \in telemetry'
      BY <1>3 DEF CommitEffect
    <3>2. RowOf(batch[i]).agent = batch[i].agent /\ RowOf(batch[i]).seq = batch[i].seq
      BY DEF RowOf
    <3> QED BY <3>1, <3>2
  <2> QED BY <1>3, <2>2, <2>3 DEF WindowStored, IsStored
<1>4. CASE CommitEffect /\ UNCHANGED outputs /\ pc' \in {"sleep", "stalled"}
  <2>1. telemetry \subseteq telemetry'
    BY <1>4 DEF CommitEffect
  <2> QED BY <1>4, <2>1 DEF OutputsAreDurable, WindowStored, outputs
<1>5. CASE WriteRedis \/ RedisHangs
  <2>1. UNCHANGED <<telemetry, broadcast, batch>> /\ pc = "redis"
    BY <1>5 DEF WriteRedis, RedisHangs, durable
  <2>2. PICK written \in SUBSET AgentsOf(batch) :
          redis' = Publish(redis, batch, written)
    BY <1>5 DEF WriteRedis, RedisHangs
  <2>3. \A a \in Agents : redis'[a] # 0 => IsStored(a, redis'[a])
    BY <2>1, <2>2, PublishDurable, DurableUnfolded
  <2> QED
    BY <2>1, <2>3 DEF OutputsAreDurable, WindowStored, IsStored
<1>6. CASE Emit
  <2>1. UNCHANGED <<telemetry, redis>> /\ pc = "emit" /\ pc' = "sleep"
    BY <1>6 DEF Emit, Return, durable
  <2>2. \/ broadcast' = Publish(broadcast, batch, AgentsOf(batch))
        \/ broadcast' = broadcast
    BY <1>6 DEF Emit
  <2>3. \A a \in Agents : broadcast'[a] # 0 => IsStored(a, broadcast'[a])
    BY <2>1, <2>2, PublishDurable, DurableUnfolded
  <2> QED
    BY <2>1, <2>3 DEF OutputsAreDurable, WindowStored, IsStored
<1>7. CASE Start
  BY <1>2, <1>7 DEF Start, durable
<1>8. ASSUME NEW a \in Agents, NEW b \in Batteries, Ingest(a, b)
      PROVE  OutputsAreDurable' /\ WindowStored'
  BY <1>2, <1>8 DEF Ingest, durable
<1>9. CASE Drain
  BY <1>1, <1>9 DEF Drain, SwapBuffer, durable
<1>10. CASE Evaluate
  BY <1>2, <1>10 DEF Evaluate, durable
<1>11. CASE Commit
  BY <1>3, <1>11 DEF Commit
<1>12. CASE CommitReplyLost
  BY <1>4, <1>12 DEF CommitReplyLost, Return
<1>13. CASE SqlFails
  BY <1>1, <1>13 DEF SqlFails, Return, durable
<1>14. CASE ConnectFails
  BY <1>1, <1>14 DEF ConnectFails, durable
<1>15. CASE Stop
  BY <1>1, <1>15 DEF Stop, SwapBuffer, durable
<1>16. CASE Crash
  BY <1>1, <1>16 DEF Crash, durable
<1>17. CASE UNCHANGED vars
  BY <1>2, <1>17 DEF vars, volatile, durable
<1>18. CASE SqlHangs
  BY <1>1, <1>4, <1>18 DEF SqlHangs, durable
<1> QED
  BY <1>5, <1>6, <1>7, <1>8, <1>9, <1>10, <1>11, <1>12, <1>13, <1>14, <1>15,
     <1>16, <1>17, <1>18 DEF Next, Flush

\* Nothing of a window that was not committed reaches Redis or the clients.
THEOREM OutputsAreDurableCorrect == Spec => []OutputsAreDurable
<1>1. Init => OutputsAreDurable /\ WindowStored
  BY DEF Init, OutputsAreDurable, WindowStored
<1> QED BY <1>1, NextOutputs, TypeCorrect, PTL DEF Spec

-----------------------------------------------------------------------------
(* Nothing accepted vanishes while the process and its loop live *)

\* The disruptions that end the loop or the process with a window in flight,
\* a shutdown apart.
Fatal == {"connect", "crash"}

\* A coroutine that sleeps holds no window, one that publishes holds a window
\* that is stored.
WindowAccounted ==
  /\ pc = "sleep" => batch = <<>>
  /\ pc \in {"redis", "emit"} => SeqsOf(batch) \subseteq Stored

LEMMA SeqsOfIngest ==
  ASSUME TypeOK, NEW a \in Agents, NEW b \in Batteries, Ingest(a, b)
  PROVE  SeqsOf(buffer') = SeqsOf(buffer) \cup {accepted + 1}
<1>1. buffer \in Seq(Reading)
  BY DEF TypeOK
<1> QED BY <1>1 DEF Ingest, SeqsOf

\* The step condition of NoSilentLoss.
LosesNothing ==
  \/ mode = "serving" /\ mode' # "serving"
  \/ Tracked \cup (accepted + 1) .. accepted' \subseteq Tracked'

LEMMA NextNoSilentLoss ==
  ASSUME Disruptions \cap Fatal = {}
  PROVE  TypeOK /\ WindowAccounted /\ [Next]_vars
           => LosesNothing /\ WindowAccounted'
<1> SUFFICES ASSUME TypeOK, WindowAccounted, [Next]_vars
             PROVE  LosesNothing /\ WindowAccounted'
  OBVIOUS
<1>0. "connect" \notin Disruptions /\ "crash" \notin Disruptions
  BY DEF Fatal
<1> USE DEF LosesNothing, WindowAccounted, Tracked, InMemory
<1>a. ASSUME UNCHANGED accepted
      PROVE  (accepted + 1) .. accepted' = {}
  BY <1>a DEF TypeOK
<1>1. CASE Start
  BY <1>1, <1>a DEF Start, durable, Stored
<1>2. ASSUME NEW a \in Agents, NEW b \in Batteries, Ingest(a, b)
      PROVE  LosesNothing /\ WindowAccounted'
  <2>1. (accepted + 1) .. accepted' = {accepted + 1}
    BY <1>2 DEF Ingest, TypeOK
  <2>2. UNCHANGED <<pc, batch, telemetry, reported>>
    BY <1>2 DEF Ingest, durable
  <2> QED BY <1>2, <2>1, <2>2, SeqsOfIngest DEF Stored
<1>3. CASE Drain
  <2>1. SeqsOf(batch) = {}
    BY <1>3 DEF Drain, SeqsOf
  <2>2. /\ batch' = buffer /\ buffer' = <<>> /\ pc' = "evaluate"
        /\ UNCHANGED <<telemetry, reported, accepted>>
    BY <1>3 DEF Drain, SwapBuffer, durable
  <2> QED BY <2>1, <2>2, <1>a DEF Stored
<1>4. CASE Evaluate
  BY <1>4, <1>a DEF Evaluate, durable, Stored
<1>5. ASSUME CommitEffect
      PROVE  Stored' = Stored \cup SeqsOf(batch)
  <2> DEFINE new == {RowOf(batch[i]) : i \in DOMAIN batch}
  <2>1. telemetry' = telemetry \cup new
    BY <1>5 DEF CommitEffect
  <2>2. \A i \in DOMAIN batch : RowOf(batch[i]).seq = batch[i].seq
    BY DEF RowOf
  <2>3. {u.seq : u \in new} = SeqsOf(batch)
    BY <2>2 DEF SeqsOf
  <2>4. {t.seq : t \in telemetry \cup new}
          = {t.seq : t \in telemetry} \cup {u.seq : u \in new}
    OBVIOUS
  <2> HIDE DEF new
  <2> QED BY <2>1, <2>3, <2>4 DEF Stored
<1>6. CASE Commit
  BY <1>5, <1>6, <1>a DEF Commit
<1>7. CASE CommitReplyLost
  BY <1>5, <1>7, <1>a DEF CommitReplyLost, Return, ReportFailure
<1>8. CASE SqlFails
  BY <1>8, <1>a DEF SqlFails, Return, ReportFailure, durable, Stored
<1>9. CASE WriteRedis \/ RedisHangs
  BY <1>9, <1>a DEF WriteRedis, RedisHangs, durable, Stored
<1>10. CASE Emit
  BY <1>10, <1>a DEF Emit, Return, durable, Stored
<1>11. CASE Stop
  BY <1>11 DEF Stop, SwapBuffer
<1>12. CASE ConnectFails \/ Crash
  BY <1>0, <1>12 DEF ConnectFails, Crash
<1>13. CASE UNCHANGED vars
  BY <1>13, <1>a DEF vars, volatile, durable, Stored
<1>14. CASE SqlHangs
  <2>1. UNCHANGED <<buffer, batch, reported, accepted>> /\ pc' = "stalled"
    BY <1>14 DEF SqlHangs
  <2>2. Stored \subseteq Stored'
    BY <1>5, <1>14 DEF SqlHangs, durable, Stored
  <2> QED BY <2>1, <2>2, <1>a
<1> QED
  BY <1>1, <1>2, <1>3, <1>4, <1>6, <1>7, <1>8, <1>9, <1>10, <1>11, <1>12, <1>13,
     <1>14 DEF Next, Flush

\* While Postgres can be reached and nobody kills the process, every reading
\* answered with 201 stays in memory, is stored, or is in a window whose failure
\* was logged, up to the step that begins a shutdown.
THEOREM NoSilentLossCorrect ==
  ASSUME Disruptions \cap Fatal = {}
  PROVE  Spec => NoSilentLoss
<1>1. Init => WindowAccounted
  BY DEF Init, WindowAccounted
<1>2. TypeOK /\ WindowAccounted /\ [Next]_vars => WindowAccounted'
  BY NextNoSilentLoss
<1>3. TypeOK /\ WindowAccounted /\ [Next]_vars => [LosesNothing]_vars
  BY NextNoSilentLoss
<1>4. [LosesNothing]_vars
        => [\/ mode = "serving" /\ mode' # "serving"
            \/ Tracked \cup (accepted + 1) .. accepted' \subseteq Tracked']_vars
  BY DEF LosesNothing
<1> QED BY <1>1, <1>2, <1>3, <1>4, TypeCorrect, PTL DEF Spec, NoSilentLoss

-----------------------------------------------------------------------------
(* Redis and the clients never go back in time *)

\* What a view shows was accepted before everything in the items.
Behind(view, items) ==
  \A a \in Agents : \A i \in DOMAIN items : view[a] < items[i].seq

Known(view) == \A a \in Agents : view[a] <= accepted

\* A view is behind every window that has not been published to it yet.
ViewsBehind ==
  /\ Known(redis) /\ Known(broadcast)
  /\ Behind(redis, buffer) /\ Behind(broadcast, buffer)
  /\ pc \in {"evaluate", "redis"} => Behind(redis, batch)
  /\ pc \in {"evaluate", "redis", "emit"} => Behind(broadcast, batch)

Advances(old, new) == \A a \in Agents : old[a] <= new[a]

LEMMA PublishAdvances ==
  ASSUME TypeOK, Order, NEW view \in [Agents -> Nat], Known(view),
         Behind(view, batch), Behind(view, buffer),
         NEW agents \in SUBSET AgentsOf(batch)
  PROVE  LET new == Publish(view, batch, agents)
         IN  Advances(view, new) /\ Known(new) /\ Behind(new, buffer)
<1> DEFINE new == Publish(view, batch, agents)
<1> Ordinals
  BY OrdinalsFromType
<1> SUFFICES ASSUME NEW a \in Agents
             PROVE  /\ view[a] <= new[a] /\ new[a] <= accepted
                    /\ \A j \in DOMAIN buffer : new[a] < buffer[j].seq
  BY DEF Advances, Known, Behind
<1>1. CASE a \in agents
  <2>1. PICK i \in DOMAIN batch : LastOf(batch, a) = batch[i].seq
    BY <1>1, LastOfIsThere DEF TypeOK
  <2>2. new[a] = batch[i].seq
    BY <1>1, <2>1 DEF Publish
  <2> QED BY <2>2 DEF Order, Ordinals, Behind
<1>2. CASE a \notin agents
  <2>1. new[a] = view[a]
    BY <1>2 DEF Publish
  <2> QED BY <2>1 DEF Known, Behind
<1> QED BY <1>1, <1>2

LEMMA NextViews ==
  TypeOK /\ Order /\ ViewsBehind /\ [Next]_vars
    => /\ ViewsBehind'
       /\ Advances(redis, redis') /\ Advances(broadcast, broadcast')
<1> SUFFICES ASSUME TypeOK, Order, ViewsBehind, [Next]_vars
             PROVE  /\ ViewsBehind'
                    /\ Advances(redis, redis') /\ Advances(broadcast, broadcast')
  OBVIOUS
<1> Ordinals
  BY OrdinalsFromType
<1>0. \A a \in Agents : redis[a] \in Nat /\ broadcast[a] \in Nat
  BY DEF TypeOK
<1>1. CASE /\ UNCHANGED <<outputs, accepted>> /\ buffer' \in {buffer, <<>>}
           /\ \/ pc' \notin {"evaluate", "redis", "emit"}
              \/ UNCHANGED <<pc, batch>>
              \/ pc' = "evaluate" /\ batch' = buffer
              \/ pc = "evaluate" /\ pc' = "redis" /\ UNCHANGED batch
  BY <1>0, <1>1 DEF ViewsBehind, Behind, Known, Advances, outputs
<1>2. ASSUME NEW a \in Agents, NEW b \in Batteries, Ingest(a, b)
      PROVE  /\ ViewsBehind'
             /\ Advances(redis, redis') /\ Advances(broadcast, broadcast')
  <2>1. UNCHANGED <<pc, batch, redis, broadcast>>
    BY <1>2 DEF Ingest, outputs
  <2>2. ASSUME NEW view \in [Agents -> Nat], Known(view), Behind(view, buffer)
        PROVE  /\ \A c \in Agents : view[c] <= accepted'
               /\ Behind(view, buffer')
    <3>1. \A c \in Agents : view[c] <= accepted' /\ view[c] < accepted + 1
      BY <1>2, <2>2, IngestBuffer DEF Known, Ordinals
    <3>2. \A c \in Agents : \A j \in DOMAIN buffer' : view[c] < buffer'[j].seq
      BY <1>2, <2>2, <3>1, IngestBuffer DEF Behind
    <3> QED BY <3>1, <3>2 DEF Behind
  <2>3. redis \in [Agents -> Nat] /\ broadcast \in [Agents -> Nat]
    BY DEF TypeOK
  <2>4. /\ \A c \in Agents : redis[c] <= accepted' /\ broadcast[c] <= accepted'
        /\ Behind(redis, buffer') /\ Behind(broadcast, buffer')
    BY <2>2, <2>3 DEF ViewsBehind
  <2> QED BY <1>0, <2>1, <2>4 DEF ViewsBehind, Known, Advances, Behind
<1>3. CASE Start
  BY <1>1, <1>3 DEF Start
<1>4. CASE Drain
  BY <1>1, <1>4 DEF Drain, SwapBuffer
<1>5. CASE Evaluate
  BY <1>1, <1>5 DEF Evaluate
<1>6. CASE Commit
  BY <1>1, <1>6 DEF Commit, CommitEffect
<1>7. CASE CommitReplyLost
  BY <1>1, <1>7 DEF CommitReplyLost, Return
<1>8. CASE SqlFails
  BY <1>1, <1>8 DEF SqlFails, Return
<1>9. CASE ConnectFails
  BY <1>1, <1>9 DEF ConnectFails
<1>10. CASE WriteRedis \/ RedisHangs
  <2>1. /\ UNCHANGED <<broadcast, batch, buffer, accepted>>
        /\ pc = "redis" /\ pc' \in {"emit", "hung"}
    BY <1>10 DEF WriteRedis, RedisHangs
  <2>2. PICK written \in SUBSET AgentsOf(batch) :
          redis' = Publish(redis, batch, written)
    BY <1>10 DEF WriteRedis, RedisHangs
  <2>3. redis \in [Agents -> Nat] /\ Known(redis) /\ Behind(redis, batch)
        /\ Behind(redis, buffer)
    BY <2>1 DEF TypeOK, ViewsBehind
  <2>4. /\ Advances(redis, redis')
        /\ \A a \in Agents : redis'[a] <= accepted
        /\ Behind(redis', buffer)
    BY <2>2, <2>3, PublishAdvances DEF Known
  <2> QED BY <1>0, <2>1, <2>4 DEF ViewsBehind, Known, Behind, Advances
<1>11. CASE Emit
  <2>1. /\ UNCHANGED <<redis, buffer, accepted>>
        /\ pc = "emit" /\ pc' = "sleep"
    BY <1>11 DEF Emit, Return
  <2>2. /\ broadcast \in [Agents -> Nat] /\ Known(broadcast)
        /\ Behind(broadcast, batch) /\ Behind(broadcast, buffer)
    BY <2>1 DEF TypeOK, ViewsBehind
  <2>3. /\ Advances(broadcast, broadcast')
        /\ \A a \in Agents : broadcast'[a] <= accepted
        /\ Behind(broadcast', buffer)
    <3>1. CASE broadcast' = Publish(broadcast, batch, AgentsOf(batch))
      BY <2>2, <3>1, PublishAdvances DEF Known
    <3>2. CASE broadcast' = broadcast
      BY <1>0, <2>2, <3>2 DEF Advances, Known
    <3> QED BY <1>11, <3>1, <3>2 DEF Emit
  <2> QED BY <1>0, <2>1, <2>3 DEF ViewsBehind, Known, Behind, Advances
<1>12. CASE Stop
  BY <1>1, <1>12 DEF Stop, SwapBuffer
<1>13. CASE Crash
  BY <1>1, <1>13 DEF Crash
<1>14. CASE UNCHANGED vars
  BY <1>1, <1>14 DEF vars, volatile
<1>15. CASE SqlHangs
  BY <1>1, <1>15 DEF SqlHangs
<1> QED
  BY <1>2, <1>3, <1>4, <1>5, <1>6, <1>7, <1>8, <1>9, <1>10, <1>11, <1>12,
     <1>13, <1>14, <1>15 DEF Next, Flush

\* The cached and the broadcast state of an agent never go back to an older
\* reading, across failed windows, shutdowns and restarts.
THEOREM OutputsNeverGoBackCorrect == Spec => OutputsNeverGoBack
<1>1. Init => ViewsBehind
  BY DEF Init, ViewsBehind, Known, Behind
<1>2. TypeOK /\ Order /\ ViewsBehind /\ [Next]_vars
        => [\A a \in Agents :
              redis[a] <= redis'[a] /\ broadcast[a] <= broadcast'[a]]_vars
  BY NextViews DEF Advances
<1>3. TypeOK /\ Order /\ ViewsBehind /\ [Next]_vars => ViewsBehind'
  BY NextViews
<1> QED BY <1>1, <1>2, <1>3, OrderCorrect, PTL DEF Spec, OutputsNeverGoBack

-----------------------------------------------------------------------------
(* Redis follows the database *)

\* The disruptions after which a stored window may be missing in Redis.
Unpublishing == {"redis", "reply", "stop", "crash"}

CacheInv ==
  \A t \in telemetry :
    \/ t.seq <= redis[t.agent]
    \/ /\ pc \in {"stalled", "redis", "hung"}
       /\ \E i \in DOMAIN batch : batch[i].agent = t.agent /\ batch[i].seq = t.seq

LEMMA NextCache ==
  ASSUME Disruptions \cap Unpublishing = {}
  PROVE  TypeOK /\ Order /\ ViewsBehind /\ CacheInv /\ [Next]_vars => CacheInv'
<1> SUFFICES ASSUME TypeOK, Order, ViewsBehind, CacheInv, [Next]_vars
             PROVE  CacheInv'
  OBVIOUS
<1>0. /\ "redis" \notin Disruptions /\ "reply" \notin Disruptions
      /\ "stop" \notin Disruptions /\ "crash" \notin Disruptions
  BY DEF Unpublishing
<1>1. CASE UNCHANGED <<telemetry, redis>> /\ pc \notin {"stalled", "redis", "hung"}
  BY <1>1 DEF CacheInv
<1>2. CASE UNCHANGED <<telemetry, redis, pc, batch>>
  BY <1>2 DEF CacheInv
<1>3. CASE Start
  BY <1>2, <1>3 DEF Start, durable, outputs
<1>4. ASSUME NEW a \in Agents, NEW b \in Batteries, Ingest(a, b)
      PROVE  CacheInv'
  BY <1>2, <1>4 DEF Ingest, durable, outputs
<1>5. CASE Drain \/ Evaluate \/ SqlFails \/ ConnectFails
  BY <1>1, <1>5 DEF Drain, Evaluate, SqlFails, ConnectFails, durable, outputs
<1>6. CASE /\ CommitEffect /\ UNCHANGED <<batch, redis>>
           /\ pc' \in {"stalled", "redis"}
  <2>1. ASSUME NEW t \in telemetry'
        PROVE  \/ t.seq <= redis[t.agent]
               \/ \E i \in DOMAIN batch :
                    batch[i].agent = t.agent /\ batch[i].seq = t.seq
    <3>1. CASE t \in telemetry
      BY <1>6, <3>1 DEF CacheInv, CommitEffect
    <3>2. CASE t \notin telemetry
      <4>1. PICK i \in DOMAIN batch : t = RowOf(batch[i])
        BY <1>6, <2>1, <3>2 DEF CommitEffect
      <4> QED BY <4>1 DEF RowOf
    <3> QED BY <3>1, <3>2
  <2> QED BY <1>6, <2>1 DEF CacheInv
<1>7. CASE RedisHangs
  <2>1. UNCHANGED <<telemetry, batch>> /\ pc' = "hung" /\ pc = "redis"
    BY <1>7 DEF RedisHangs, durable
  <2>2. PICK written \in SUBSET AgentsOf(batch) : redis' = Publish(redis, batch, written)
    BY <1>7 DEF RedisHangs
  <2>3. Advances(redis, redis')
    BY <1>7, NextViews DEF Next, Flush
  <2>4. redis' \in [Agents -> Nat] /\ redis \in [Agents -> Nat]
    BY <2>2, PublishType DEF TypeOK
  <2> SUFFICES ASSUME NEW t \in telemetry
               PROVE  \/ t.seq <= redis'[t.agent]
                      \/ \E i \in DOMAIN batch :
                           batch[i].agent = t.agent /\ batch[i].seq = t.seq
    BY <2>1 DEF CacheInv
  <2>5. t.agent \in Agents /\ t.seq \in Nat
    BY DEF TypeOK, Row, Seqs
  <2>6. CASE t.seq <= redis[t.agent]
    BY <2>3, <2>4, <2>5, <2>6 DEF Advances
  <2> QED BY <2>1, <2>6 DEF CacheInv
<1>8. CASE WriteRedis
  <2> DEFINE agents == AgentsOf(batch)
  <2>1. redis' = Publish(redis, batch, agents) /\ telemetry' = telemetry
    BY <1>0, <1>8 DEF WriteRedis, durable
  <2>2. Advances(redis, redis')
    BY <1>8, NextViews
  <2> SUFFICES ASSUME NEW t \in telemetry
               PROVE  t.seq <= redis'[t.agent]
    BY <2>1 DEF CacheInv
  <2>3. t.agent \in Agents /\ t.seq \in Nat
    BY DEF TypeOK, Row, Seqs
  <2>4. CASE t.seq <= redis[t.agent]
    <3>1. redis' \in [Agents -> Nat] /\ redis \in [Agents -> Nat]
      BY <2>1, PublishType DEF TypeOK
    <3> QED BY <2>2, <2>3, <2>4, <3>1 DEF Advances
  <2>5. ASSUME NEW i \in DOMAIN batch,
               batch[i].agent = t.agent, batch[i].seq = t.seq
        PROVE  t.seq <= redis'[t.agent]
    <3>1. t.agent \in agents
      BY <2>5 DEF AgentsOf
    <3>2. redis'[t.agent] = LastOf(batch, t.agent)
      BY <2>1, <2>3, <3>1 DEF Publish
    <3>3. batch[i].seq <= LastOf(batch, t.agent)
      BY <2>5, <3>1, LastOfIsNewest DEF TypeOK, Order, Sorted
    <3> QED BY <2>5, <3>2, <3>3
  <2> QED BY <2>4, <2>5 DEF CacheInv
<1>9. CASE Emit
  BY <1>1, <1>9 DEF Emit, durable
<1>10. CASE CommitReplyLost \/ Stop \/ Crash
  BY <1>0, <1>10 DEF CommitReplyLost, Stop, Crash
<1>11. CASE UNCHANGED vars
  BY <1>2, <1>11 DEF vars, volatile, durable, outputs
<1>12. CASE Commit
  BY <1>6, <1>12 DEF Commit, outputs
<1>13. CASE SqlHangs
  <2>1. CASE CommitEffect
    BY <1>6, <1>13, <2>1 DEF SqlHangs, outputs
  <2>2. CASE UNCHANGED durable
    BY <1>1, <1>13, <2>2 DEF SqlHangs, durable, outputs
  <2> QED BY <1>13, <2>1, <2>2 DEF SqlHangs
<1> QED
  BY <1>3, <1>4, <1>5, <1>7, <1>8, <1>9, <1>10, <1>11, <1>12, <1>13 DEF Next, Flush

\* Unless the pipeline or the answer to COMMIT fails or the process ends, windows
\* that fail or hang included, Redis holds the newest stored reading of every agent
\* as soon as the pipeline of the window has run.
THEOREM CacheFollowsDatabaseCorrect ==
  ASSUME Disruptions \cap Unpublishing = {}
  PROVE  Spec => []CacheFollowsDatabase
<1>1. Init => CacheInv /\ ViewsBehind
  BY DEF Init, CacheInv, ViewsBehind, Known, Behind
<1>2. TypeOK /\ Order /\ ViewsBehind /\ CacheInv /\ [Next]_vars
        => ViewsBehind' /\ CacheInv'
  BY NextViews, NextCache
<1>3. TypeOK /\ CacheInv => CacheFollowsDatabase
  <2> SUFFICES ASSUME TypeOK, CacheInv, ~ Suspended, pc # "redis", NEW t \in telemetry
               PROVE  redis[t.agent] >= t.seq
    BY DEF CacheFollowsDatabase
  <2>1. t.seq <= redis[t.agent]
    BY DEF CacheInv, Suspended
  <2>2. t.agent \in Agents /\ t.seq \in Nat /\ redis[t.agent] \in Nat
    BY DEF TypeOK, Row, Seqs
  <2> QED BY <2>1, <2>2
<1> QED BY <1>1, <1>2, <1>3, OrderCorrect, PTL DEF Spec

-----------------------------------------------------------------------------
(* The clients follow the database *)

\* The disruptions after which a stored window may not reach the clients.
Undelivering == {"emit", "reply", "stop", "crash"}

SentInv ==
  \A t \in telemetry :
    \/ t.seq <= broadcast[t.agent]
    \/ /\ pc \in {"stalled", "redis", "hung", "emit"}
       /\ \E i \in DOMAIN batch : batch[i].agent = t.agent /\ batch[i].seq = t.seq

\* The newest reading of its window is at least as new as each of them.
LEMMA PublishCovers ==
  ASSUME TypeOK, Order, NEW view \in [Agents -> Nat],
         NEW i \in DOMAIN batch
  PROVE  batch[i].seq <= Publish(view, batch, AgentsOf(batch))[batch[i].agent]
<1>1. batch \in Seq(Reading) /\ batch[i].agent \in Agents /\ batch[i].agent \in AgentsOf(batch)
  BY ReadingOfSequence DEF TypeOK, AgentsOf
<1>2. batch[i].seq <= LastOf(batch, batch[i].agent)
  BY <1>1, LastOfIsNewest DEF Order, Sorted
<1> QED BY <1>1, <1>2 DEF Publish

LEMMA NextSent ==
  ASSUME Disruptions \cap Undelivering = {}
  PROVE  TypeOK /\ Order /\ ViewsBehind /\ SentInv /\ [Next]_vars => SentInv'
<1> SUFFICES ASSUME TypeOK, Order, ViewsBehind, SentInv, [Next]_vars
             PROVE  SentInv'
  OBVIOUS
<1>0. /\ "emit" \notin Disruptions /\ "reply" \notin Disruptions
      /\ "stop" \notin Disruptions /\ "crash" \notin Disruptions
  BY DEF Undelivering
<1>1. CASE /\ UNCHANGED <<telemetry, broadcast>>
           /\ pc \notin {"stalled", "redis", "hung", "emit"}
  BY <1>1 DEF SentInv
<1>2. CASE UNCHANGED <<telemetry, broadcast, batch>> /\ pc' \in {pc, "hung", "emit"}
  BY <1>2 DEF SentInv
<1>3. CASE Start \/ \E a \in Agents, b \in Batteries : Ingest(a, b)
  BY <1>2, <1>3 DEF Start, Ingest, durable, outputs
<1>4. CASE Drain \/ Evaluate \/ SqlFails \/ ConnectFails
  BY <1>1, <1>4 DEF Drain, Evaluate, SqlFails, ConnectFails, durable, outputs
<1>5. CASE /\ CommitEffect /\ UNCHANGED <<batch, broadcast>>
           /\ pc' \in {"stalled", "redis"}
  <2>1. ASSUME NEW t \in telemetry'
        PROVE  \/ t.seq <= broadcast[t.agent]
               \/ \E i \in DOMAIN batch :
                    batch[i].agent = t.agent /\ batch[i].seq = t.seq
    <3>1. CASE t \in telemetry
      BY <1>5, <3>1 DEF SentInv, CommitEffect
    <3>2. CASE t \notin telemetry
      <4>1. PICK i \in DOMAIN batch : t = RowOf(batch[i])
        BY <1>5, <2>1, <3>2 DEF CommitEffect
      <4> QED BY <4>1 DEF RowOf
    <3> QED BY <3>1, <3>2
  <2> QED BY <1>5, <2>1 DEF SentInv
<1>6. CASE WriteRedis \/ RedisHangs
  BY <1>2, <1>6 DEF WriteRedis, RedisHangs, durable
<1>7. CASE Emit
  <2>1. broadcast' = Publish(broadcast, batch, AgentsOf(batch)) /\ telemetry' = telemetry
    BY <1>0, <1>7 DEF Emit, durable
  <2>2. Advances(broadcast, broadcast')
    BY <1>7, NextViews
  <2>3. broadcast \in [Agents -> Nat] /\ broadcast' \in [Agents -> Nat]
    BY <2>1, PublishType DEF TypeOK
  <2> SUFFICES ASSUME NEW t \in telemetry
               PROVE  t.seq <= broadcast'[t.agent]
    BY <2>1 DEF SentInv
  <2>4. t.agent \in Agents /\ t.seq \in Nat
    BY DEF TypeOK, Row, Seqs
  <2>5. CASE t.seq <= broadcast[t.agent]
    BY <2>2, <2>3, <2>4, <2>5 DEF Advances
  <2>6. ASSUME NEW i \in DOMAIN batch, batch[i].agent = t.agent, batch[i].seq = t.seq
        PROVE  t.seq <= broadcast'[t.agent]
    BY <2>1, <2>3, <2>6, PublishCovers
  <2> QED BY <2>5, <2>6 DEF SentInv
<1>8. CASE CommitReplyLost \/ Stop \/ Crash
  BY <1>0, <1>8 DEF CommitReplyLost, Stop, Crash
<1>9. CASE UNCHANGED vars
  BY <1>2, <1>9 DEF vars, volatile, durable, outputs
<1>10. CASE Commit
  BY <1>5, <1>10 DEF Commit, outputs
<1>11. CASE SqlHangs
  <2>1. CASE CommitEffect
    BY <1>5, <1>11, <2>1 DEF SqlHangs, outputs
  <2>2. CASE UNCHANGED durable
    BY <1>1, <1>11, <2>2 DEF SqlHangs, durable, outputs
  <2> QED BY <1>11, <2>1, <2>2 DEF SqlHangs
<1> QED
  BY <1>3, <1>4, <1>6, <1>7, <1>8, <1>9, <1>10, <1>11 DEF Next, Flush

LEMMA SentInvSuffices == TypeOK /\ SentInv => ClientsFollowDatabase
<1> SUFFICES ASSUME TypeOK, SentInv, ~ Suspended, pc \notin {"redis", "emit"},
                    NEW t \in telemetry
             PROVE  broadcast[t.agent] >= t.seq
  BY DEF ClientsFollowDatabase
<1>1. t.seq <= broadcast[t.agent]
  BY DEF SentInv, Suspended
<1>2. t.agent \in Agents /\ t.seq \in Nat /\ broadcast[t.agent] \in Nat
  BY DEF TypeOK, Row, Seqs
<1> QED BY <1>1, <1>2

\* Unless a broadcast or the answer to COMMIT fails or the process ends, the
\* clients have been sent the newest stored reading of every agent as soon as a
\* flush is over, although Redis may fail in every window.
THEOREM ClientsFollowDatabaseCorrect ==
  ASSUME Disruptions \cap Undelivering = {}
  PROVE  Spec => []ClientsFollowDatabase
<1>1. Init => SentInv /\ ViewsBehind
  BY DEF Init, SentInv, ViewsBehind, Known, Behind
<1>2. TypeOK /\ Order /\ ViewsBehind /\ SentInv /\ [Next]_vars
        => ViewsBehind' /\ SentInv'
  BY NextViews, NextSent
<1> QED BY <1>1, <1>2, SentInvSuffices, OrderCorrect, PTL DEF Spec
=============================================================================
