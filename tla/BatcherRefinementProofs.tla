---------------------- MODULE BatcherRefinementProofs -----------------------
(***************************************************************************)
(* TelemetryBatcher implements DurableTelemetry.                           *)
(***************************************************************************)
EXTENDS BatcherRefinement, TelemetryBatcherProofs, SequenceTheorems

\* Agent a is alerted after the first n readings of the open window.
AlarmAfterFirst(n, a) ==
  \/ \E i \in 1 .. n : /\ batch[i].agent = a
                       /\ \A j \in i + 1 .. n : batch[j].agent # a
                       /\ batch[i].battery < Threshold
  \/ /\ ActiveAlerts(alerts, a) # {}
     /\ \A i \in 1 .. n : batch[i].agent # a

\* The open transaction has applied the rule to the readings before next.
WindowAlarms ==
  pc = "evaluate" =>
    /\ batch # <<>>
    /\ \A a \in Agents :
         ActiveAlerts(txAlerts, a) # {} <=> AlarmAfterFirst(next - 1, a)

LEMMA EvaluateAlarms ==
  ASSUME TypeOK, AlertInv, WindowAlarms, Evaluate
  PROVE  WindowAlarms'
<1> DEFINE x == batch[next]
<1>1. /\ x \in Reading /\ next \in 1 .. Len(batch) /\ next \in Nat /\ next >= 1
      /\ Len(batch) \in Nat
  BY DEF TypeOK, Evaluate
<1>2. UNCHANGED <<pc, batch, alerts>> /\ next' - 1 = next
  BY <1>1 DEF Evaluate, durable
<1>3. txAlerts \in SUBSET Alert /\ AtMostOneActive(txAlerts)
  BY DEF TypeOK, AlertInv, OneActiveAlert
<1>4. batch # <<>>
  BY DEF WindowAlarms, Evaluate
<1> SUFFICES ASSUME NEW a \in Agents
             PROVE  ActiveAlerts(txAlerts', a) # {} <=> AlarmAfterFirst(next, a)
  BY <1>2, <1>4 DEF WindowAlarms, AlarmAfterFirst
<1>5. ActiveAlerts(txAlerts', a) # {}
        <=> IF a = x.agent THEN x.battery < Threshold
                           ELSE ActiveAlerts(txAlerts, a) # {}
  BY <1>1, <1>3, EvaluateActive DEF Evaluate
<1>6. ActiveAlerts(txAlerts, a) # {} <=> AlarmAfterFirst(next - 1, a)
  BY DEF WindowAlarms, Evaluate
<1>7. AlarmAfterFirst(next, a)
        <=> IF a = x.agent THEN x.battery < Threshold
                           ELSE AlarmAfterFirst(next - 1, a)
  <2>1. CASE a = x.agent
    <3>1. \A i \in 1 .. next :
            (\A j \in i + 1 .. next : batch[j].agent # a) => i = next
      BY <1>1, <2>1
    <3>2. \A j \in next + 1 .. next : FALSE
      BY <1>1
    <3> QED BY <1>1, <2>1, <3>1, <3>2 DEF AlarmAfterFirst
  <2>2. CASE a # x.agent
    <3>1. 1 .. next = (1 .. next - 1) \cup {next}
      BY <1>1
    <3>2. \A i \in 1 .. next - 1 : i + 1 .. next = (i + 1 .. next - 1) \cup {next}
      BY <1>1
    <3> QED BY <2>2, <3>1, <3>2 DEF AlarmAfterFirst
  <2> QED BY <2>1, <2>2
<1> QED BY <1>5, <1>6, <1>7

LEMMA NextAlarms ==
  TypeOK /\ AlertInv /\ WindowAlarms /\ [Next]_vars => WindowAlarms'
<1> SUFFICES ASSUME TypeOK, AlertInv, WindowAlarms, [Next]_vars
             PROVE  WindowAlarms'
  OBVIOUS
<1>1. CASE SwapBuffer /\ UNCHANGED durable
  <2>1. 1 .. next' - 1 = {}
    BY <1>1 DEF SwapBuffer
  <2> QED BY <1>1, <2>1 DEF SwapBuffer, WindowAlarms, AlarmAfterFirst, durable
<1>2. CASE UNCHANGED <<pc, batch, next, txAlerts, alerts>>
  BY <1>2 DEF WindowAlarms, AlarmAfterFirst
<1>3. CASE pc' # "evaluate"
  BY <1>3 DEF WindowAlarms
<1>4. CASE Evaluate
  BY <1>4, EvaluateAlarms
<1>5. \/ SwapBuffer /\ UNCHANGED durable
      \/ UNCHANGED <<pc, batch, next, txAlerts, alerts>>
      \/ pc' # "evaluate"
      \/ Evaluate
  BY DEF Next, vars, volatile, durable, Start, Ingest, Flush, Drain, Commit,
         CommitReplyLost, SqlFails, ConnectFails, SqlHangs, WriteRedis, RedisHangs,
         Emit, Return, Stop, Crash
<1> QED BY <1>1, <1>2, <1>3, <1>4, <1>5

-----------------------------------------------------------------------------
(* Each step of the batcher is a step of the promise or a stutter *)

LEMMA DropWindow ==
  ASSUME NEW s \in Seq(Reading), NEW t \in Seq(Reading)
  PROVE  SubSeq(s \o t, Len(s) + 1, Len(s \o t)) = t
<1>1. Len(s) \in Nat /\ Len(t) \in Nat /\ Len(s \o t) = Len(s) + Len(t)
  BY ConcatProperties
<1>2. CASE t = <<>>
  <2>1. SubSeq(s \o t, Len(s) + 1, Len(s)) = <<>>
    BY <1>1, SubSeqEmpty
  <2> QED BY <1>1, <1>2, <2>1
<1>3. CASE t # <<>>
  <2>1. /\ Len(s) + 1 \in Len(s) + 1 .. Len(s) + Len(t)
        /\ Len(s) + Len(t) \in Len(s) + 1 .. Len(s) + Len(t)
    BY <1>1, <1>3
  <2>2. SubSeq(s \o t, Len(s) + 1, Len(s) + Len(t))
          = SubSeq(t, (Len(s) + 1) - Len(s), (Len(s) + Len(t)) - Len(s))
    BY <2>1, SubSeqOfConcat2
  <2>3. (Len(s) + 1) - Len(s) = 1 /\ (Len(s) + Len(t)) - Len(s) = Len(t)
    BY <1>1
  <2> QED BY <1>1, <2>2, <2>3, SubSeqFull
<1> QED BY <1>2, <1>3

LEMMA UndecidedType == TypeOK => Undecided \in Seq(Reading)
BY DEF TypeOK, Undecided

\* What waits while no transaction is open is the buffer.
LEMMA UndecidedBuffer ==
  ASSUME TypeOK, pc # "evaluate" PROVE Undecided = buffer
BY ConcatEmptySeq DEF TypeOK, Undecided

LEMMA UndecidedBufferNext ==
  ASSUME TypeOK', pc' # "evaluate" PROVE Undecided' = buffer'
<1>1. buffer' \in Seq(Reading)
  BY DEF TypeOK
<1> QED BY <1>1, ConcatEmptySeq DEF Undecided

\* A freshly swapped out window waits as the buffer did.
LEMMA UndecidedSwapped ==
  ASSUME TypeOK, SwapBuffer PROVE Undecided' = buffer
<1>1. Undecided' = buffer \o <<>>
  BY DEF SwapBuffer, Undecided
<1> QED BY <1>1, ConcatEmptySeq DEF TypeOK

\* The window leaves the line, the buffer stays.
LEMMA DropTheWindow ==
  ASSUME TypeOK, WindowAlarms, pc = "evaluate", Undecided' = buffer
  PROVE  Len(batch) \in 1 .. Len(Undecided) /\ Durable!Drop(Len(batch))
<1>1. Undecided = batch \o buffer /\ batch \in Seq(Reading) /\ buffer \in Seq(Reading)
  BY DEF Undecided, TypeOK
<1>2. Undecided' = SubSeq(Undecided, Len(batch) + 1, Len(Undecided))
  BY <1>1, DropWindow
<1>3. Len(Undecided) = Len(batch) + Len(buffer) /\ Len(batch) # 0
  BY <1>1, ConcatProperties DEF WindowAlarms
<1>4. Len(batch) \in Nat /\ Len(buffer) \in Nat
  BY <1>1
<1> QED BY <1>2, <1>3, <1>4 DEF Durable!Drop

\* Everything in memory is lost.
LEMMA LoseAll ==
  ASSUME TypeOK, Undecided' = <<>>, UNCHANGED <<accepted, History, Alarm>>
  PROVE  [Durable!DurableNext]_Durable!durableVars
<1>1. CASE Undecided = <<>>
  BY <1>1 DEF Durable!durableVars
<1>2. CASE Undecided # <<>>
  <2> DEFINE k == Len(Undecided)
  <2>1. Undecided \in Seq(Reading)
    BY UndecidedType
  <2>2. k \in 1 .. Len(Undecided)
    BY <1>2, <2>1
  <2>3. SubSeq(Undecided, k + 1, Len(Undecided)) = <<>>
    BY <2>2, SubSeqEmpty
  <2>4. Durable!Lose(k)
    BY <2>3 DEF Durable!Lose, Durable!Drop
  <2> QED BY <2>2, <2>4 DEF Durable!DurableNext
<1> QED BY <1>1, <1>2

LEMMA LoseWindow ==
  ASSUME TypeOK, WindowAlarms, pc = "evaluate", Undecided' = buffer,
         UNCHANGED <<accepted, History, Alarm>>
  PROVE  [Durable!DurableNext]_Durable!durableVars
BY DropTheWindow DEF Durable!DurableNext, Durable!Lose

LEMMA PersistWindow ==
  ASSUME TypeOK, WindowAlarms, CommitEffect, Undecided' = buffer,
         UNCHANGED accepted
  PROVE  [Durable!DurableNext]_Durable!durableVars
<1> DEFINE k == Len(batch)
<1>1. k \in 1 .. Len(Undecided) /\ Durable!Drop(k)
  BY DropTheWindow DEF CommitEffect
<1>2. batch \in Seq(Reading) /\ buffer \in Seq(Reading) /\ k \in Nat
      /\ Undecided = batch \o buffer
  BY DEF TypeOK, CommitEffect, Undecided
<1>3. \A i \in 1 .. k : Undecided[i] = batch[i]
  BY <1>2, ConcatProperties
<1>4. History' = History \cup {Undecided[i] : i \in 1 .. k}
  <2> DEFINE Plain(t) == [agent |-> t.agent, battery |-> t.battery, seq |-> t.seq]
             new == {RowOf(batch[i]) : i \in DOMAIN batch}
  <2>1. telemetry' = telemetry \cup new
    BY DEF CommitEffect
  <2>2. \A i \in 1 .. k : Plain(RowOf(batch[i])) = batch[i]
    <3> TAKE i \in 1 .. k
    <3>1. batch[i] \in Reading
      BY <1>2
    <3>2. batch[i] = [agent |-> batch[i].agent, battery |-> batch[i].battery,
                      seq |-> batch[i].seq]
      BY <3>1 DEF Reading
    <3>3. /\ RowOf(batch[i]).agent = batch[i].agent
          /\ RowOf(batch[i]).battery = batch[i].battery
          /\ RowOf(batch[i]).seq = batch[i].seq
      BY DEF RowOf
    <3>4. Plain(RowOf(batch[i]))
            = [agent |-> batch[i].agent, battery |-> batch[i].battery,
               seq |-> batch[i].seq]
      BY <3>3
    <3> QED BY <3>2, <3>4
  <2>3. {Plain(t) : t \in new} = {batch[i] : i \in 1 .. k}
    <3>1. {Plain(t) : t \in new} = {Plain(RowOf(batch[i])) : i \in DOMAIN batch}
      OBVIOUS
    <3>2. DOMAIN batch = 1 .. k
      BY <1>2
    <3> HIDE DEF Plain, k, new
    <3> QED BY <2>2, <3>1, <3>2
  <2>4. {batch[i] : i \in 1 .. k} = {Undecided[i] : i \in 1 .. k}
    BY <1>3
  <2>5. {Plain(t) : t \in telemetry \cup new}
          = {Plain(t) : t \in telemetry} \cup {Plain(t) : t \in new}
    OBVIOUS
  <2>6. History = {Plain(t) : t \in telemetry} /\ History' = {Plain(t) : t \in telemetry'}
    BY DEF History
  <2> HIDE DEF Plain, new
  <2> QED BY <2>1, <2>3, <2>4, <2>5, <2>6
<1>5. Alarm' = [a \in Agents |-> Durable!AlarmAfter(k, a)]
  <2>1. next - 1 = k
    BY <1>2 DEF TypeOK, CommitEffect
  <2>2. ASSUME NEW a \in Agents
        PROVE  ActiveAlerts(alerts', a) # {} <=> Durable!AlarmAfter(k, a)
    <3>1. ActiveAlerts(alerts', a) # {} <=> AlarmAfterFirst(k, a)
      BY <2>1 DEF CommitEffect, WindowAlarms
    <3>2. Alarm[a] <=> ActiveAlerts(alerts, a) # {}
      BY DEF Alarm
    <3>3. \A i \in 1 .. k : \A j \in i + 1 .. k : j \in 1 .. k
      BY <1>2
    <3>4. AlarmAfterFirst(k, a) <=> Durable!AlarmAfter(k, a)
      BY <1>3, <3>2, <3>3 DEF AlarmAfterFirst, Durable!AlarmAfter, Durable!IsLastOf
    <3> QED BY <3>1, <3>4
  <2>3. Alarm' = [a \in Agents |-> ActiveAlerts(alerts', a) # {}]
    BY DEF Alarm
  <2>4. \A a \in Agents :
          (ActiveAlerts(alerts', a) # {}) = Durable!AlarmAfter(k, a)
    BY <2>2 DEF Durable!AlarmAfter
  <2> QED BY <2>3, <2>4
<1>6. Durable!Persist(k)
  BY <1>1, <1>4, <1>5 DEF Durable!Persist
<1> QED BY <1>1, <1>6 DEF Durable!DurableNext

LEMMA AcceptReading ==
  ASSUME TypeOK, NEW a \in Agents, NEW b \in Batteries, Ingest(a, b)
  PROVE  Durable!Accept(a, b)
<1> DEFINE x == [agent |-> a, battery |-> b, seq |-> accepted']
           first == IF pc = "evaluate" THEN batch ELSE <<>>
<1>1. x \in Reading
  BY DEF Ingest, TypeOK, Reading, Seqs
<1>2. first \in Seq(Reading) /\ buffer \in Seq(Reading)
  BY DEF TypeOK
<1>3. first \o Append(buffer, x) = Append(first \o buffer, x)
  <2>1. <<x>> \in Seq(Reading) /\ first \o buffer \in Seq(Reading)
    BY <1>1, <1>2
  <2>2. Append(buffer, x) = buffer \o <<x>>
    BY <1>1, <1>2, AppendIsConcat
  <2>3. Append(first \o buffer, x) = (first \o buffer) \o <<x>>
    BY <1>1, <2>1, AppendIsConcat
  <2> HIDE DEF first, x
  <2> QED BY <1>2, <2>1, <2>2, <2>3, ConcatAssociative
<1>4. Undecided = first \o buffer /\ Undecided' = first \o buffer'
  BY DEF Undecided, Ingest
<1>5. buffer' = Append(buffer, x)
  BY DEF Ingest
<1>6. Undecided' = Append(Undecided, x)
  BY <1>3, <1>4, <1>5
<1>7. UNCHANGED <<History, Alarm>>
  BY DEF Ingest, durable, History, Alarm
<1> QED BY <1>6, <1>7 DEF Ingest, Durable!Accept

LEMMA StepImplements ==
  TypeOK /\ TypeOK' /\ WindowAlarms /\ [Next]_vars
    => [Durable!DurableNext]_Durable!durableVars
<1> SUFFICES ASSUME TypeOK, TypeOK', WindowAlarms, [Next]_vars
             PROVE  [Durable!DurableNext]_Durable!durableVars
  OBVIOUS
<1>0. ASSUME UNCHANGED durable PROVE UNCHANGED <<History, Alarm>>
  BY <1>0 DEF durable, History, Alarm
<1>1. CASE UNCHANGED <<durable, accepted, pc, batch, buffer>>
  BY <1>0, <1>1 DEF Undecided, Durable!durableVars
<1>2. CASE UNCHANGED <<durable, accepted, buffer>>
           /\ pc # "evaluate" /\ pc' # "evaluate"
  BY <1>0, <1>2, UndecidedBuffer, UndecidedBufferNext DEF Durable!durableVars
<1>3. CASE Start
  BY <1>1, <1>3 DEF Start
<1>4. ASSUME NEW a \in Agents, NEW b \in Batteries, Ingest(a, b)
      PROVE  Durable!DurableNext
  BY <1>4, AcceptReading DEF Durable!DurableNext
<1>5. CASE SwapBuffer /\ UNCHANGED <<durable, accepted>>
  <2>1. Undecided' = buffer
    BY <1>5, UndecidedSwapped
  <2>2. CASE pc = "evaluate"
    BY <1>0, <1>5, <2>1, <2>2, LoseWindow
  <2>3. CASE pc # "evaluate"
    BY <1>0, <1>5, <2>1, <2>3, UndecidedBuffer DEF Durable!durableVars
  <2> QED BY <2>2, <2>3
<1>6. CASE Drain
  BY <1>5, <1>6 DEF Drain
<1>7. CASE Evaluate
  BY <1>1, <1>7 DEF Evaluate
<1>8. CASE Commit
  BY <1>8, PersistWindow, UndecidedBufferNext DEF Commit
<1>9. CASE CommitReplyLost
  BY <1>9, PersistWindow, UndecidedBufferNext DEF CommitReplyLost, Return
<1>10. CASE SqlFails
  BY <1>0, <1>10, LoseWindow, UndecidedBufferNext DEF SqlFails, Return
<1>11. CASE ConnectFails
  BY <1>0, <1>11, LoseWindow, UndecidedBufferNext DEF ConnectFails
<1>12. CASE WriteRedis \/ RedisHangs
  BY <1>2, <1>12 DEF WriteRedis, RedisHangs
<1>13. CASE Emit
  BY <1>2, <1>13 DEF Emit, Return
<1>14. CASE UNCHANGED <<durable, accepted>> /\ buffer' = <<>> /\ pc' = "sleep"
  BY <1>0, <1>14, LoseAll, UndecidedBufferNext
<1>15. CASE Stop
  BY <1>5, <1>14, <1>15 DEF Stop
<1>16. CASE Crash
  BY <1>14, <1>16 DEF Crash
<1>17. CASE UNCHANGED vars
  BY <1>1, <1>17 DEF vars, volatile
<1>18. CASE SqlHangs
  <2>1. CASE CommitEffect
    BY <1>18, <2>1, PersistWindow, UndecidedBufferNext DEF SqlHangs
  <2>2. CASE UNCHANGED durable
    BY <1>0, <1>18, <2>2, LoseWindow, UndecidedBufferNext DEF SqlHangs
  <2> QED BY <1>18, <2>1, <2>2 DEF SqlHangs
<1> QED
  BY <1>3, <1>4, <1>6, <1>7, <1>8, <1>9, <1>10, <1>11, <1>12, <1>13, <1>15,
     <1>16, <1>17, <1>18 DEF Next, Flush

LEMMA InitImplements == Init => Durable!DurableInit
<1> SUFFICES ASSUME Init PROVE Durable!DurableInit
  OBVIOUS
<1>1. Undecided = <<>>
  BY ConcatEmptySeq DEF Init, Undecided
<1>2. History = {} /\ Alarm = [a \in Agents |-> FALSE]
  BY DEF Init, History, Alarm, ActiveAlerts
<1> QED BY <1>1, <1>2 DEF Init, Durable!DurableInit

\* The batcher with all its failures implements the promise: windows become
\* history in order, atomically and with their alarms, or are lost as a whole.
THEOREM ImplementsDurableCorrect == Spec => ImplementsDurable
<1>1. Init => WindowAlarms
  BY DEF Init, WindowAlarms
<1> QED
  BY <1>1, InitImplements, NextAlarms, StepImplements, TypeCorrect,
     AlertInvCorrect, PTL
     DEF Spec, ImplementsDurable, Durable!DurableSpec
=============================================================================
