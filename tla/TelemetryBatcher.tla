-------------------------- MODULE TelemetryBatcher --------------------------
(***************************************************************************)
(* The ingest path of the backend: TelemetryService and TelemetryBatcher   *)
(* (backend/app/services/telemetry.py) with the three stores one flush     *)
(* writes - the telemetry and alerts tables, the Redis latest-state cache, *)
(* the Socket.IO channel - and the process that hosts them (main.py).      *)
(*                                                                         *)
(* Only the flush suspends: _buffer is appended to and swapped out between *)
(* two awaits of one event loop, so Ingest and the swap are single steps.  *)
(* The steps of a flush are the awaits of _flush.                          *)
(***************************************************************************)
EXTENDS AlertService, Sequences

CONSTANTS
  MaxReadings,   \* bound on the readings accepted in one behaviour
  Disruptions    \* which of AllDisruptions the environment may cause

AllDisruptions ==
  {"sql",        \* a statement of the transaction fails
   "reply",      \* COMMIT takes effect but its answer is lost
   "connect",    \* no connection to Postgres: a raw OSError
   "stall",      \* Postgres stops answering; its engine sets no timeout
   "redis",      \* the pipeline fails after some of its commands
   "hang",       \* Redis stops answering, and its client waits for ever
   "emit",       \* sio.emit raises
   "stop",       \* the server is shut down gracefully
   "crash"}      \* the process is killed

ASSUME BatcherAssumption ==
  MaxReadings \in Nat /\ Disruptions \subseteq AllDisruptions

VARIABLES
  mode,        \* the process: "down", "serving" or "stopping" (in stop())
  pc,          \* where the flush coroutine is suspended
  buffer,      \* TelemetryBatcher._buffer
  batch,       \* the snapshot _drain swapped out
  next,        \* index in batch of the reading whose alerts come next
  txAlerts,    \* the alerts table as the open transaction sees it
  telemetry,   \* the telemetry table
  alerts,      \* the alerts table
  redis,       \* per agent: seq of the cached reading, 0 for no key
  broadcast,   \* per agent: seq of the reading last sent to the clients
  window,      \* auxiliary: number of windows swapped out; their now()
  accepted,    \* auxiliary: number of readings accepted
  reported     \* auxiliary: seqs of windows counted in an error record

volatile == <<mode, pc, buffer, batch, next, txAlerts>>
durable  == <<telemetry, alerts>>
outputs  == <<redis, broadcast>>
vars     == <<volatile, durable, outputs, window, accepted, reported>>

Row == [agent : Agents, battery : Batteries, seq : Seqs, recordedAt : Nat]

SeqsOf(items) == {items[i].seq : i \in DOMAIN items}
AgentsOf(items) == {items[i].agent : i \in DOMAIN items}

Stored   == {t.seq : t \in telemetry}
InMemory == SeqsOf(buffer) \cup SeqsOf(batch)

-----------------------------------------------------------------------------
Init ==
  /\ mode = "down" /\ pc = "sleep"
  /\ buffer = <<>> /\ batch = <<>> /\ next = 1 /\ txAlerts = {}
  /\ telemetry = {} /\ alerts = {}
  /\ redis = [a \in Agents |-> 0] /\ broadcast = [a \in Agents |-> 0]
  /\ window = 0 /\ accepted = 0 /\ reported = {}

\* A new process: batcher.start() spawns the loop over an empty buffer.
Start ==
  /\ mode = "down"
  /\ mode' = "serving"
  /\ UNCHANGED <<pc, buffer, batch, next, txAlerts>>
  /\ UNCHANGED <<durable, outputs, window, accepted, reported>>

\* ingest_telemetry, and each turn of the loop of ingest_telemetry_batch:
\* the reading of a known agent is stamped and appended.
Ingest(a, b) ==
  /\ mode = "serving"
  /\ accepted < MaxReadings
  /\ accepted' = accepted + 1
  /\ buffer' = Append(buffer, [agent |-> a, battery |-> b, seq |-> accepted'])
  /\ UNCHANGED <<mode, pc, batch, next, txAlerts>>
  /\ UNCHANGED <<durable, outputs, window, reported>>

\* Faulty variant of SwapBuffer: the buffer is copied, not swapped.
CopyBuffer ==
  /\ buffer # <<>>
  /\ batch' = buffer
  /\ UNCHANGED buffer
  /\ pc' = "evaluate"
  /\ next' = 1
  /\ txAlerts' = alerts
  /\ window' = window + 1

\* _drain up to the first await of _flush: the buffer is swapped out and a
\* transaction begins.  An empty buffer leaves everything as it is.
SwapBuffer ==
  /\ buffer # <<>>
  /\ batch' = buffer
  /\ buffer' = <<>>
  /\ pc' = "evaluate"
  /\ next' = 1
  /\ txAlerts' = alerts
  /\ window' = window + 1

\* Faulty variants of Drain: a window is only opened for two readings or more;
\* a flush is started while another one is suspended.
DrainFullBuffer ==
  /\ mode = "serving" /\ pc = "sleep" /\ Len(buffer) >= 2
  /\ SwapBuffer
  /\ UNCHANGED <<mode, durable, outputs, accepted, reported>>

DrainWhileFlushing ==
  /\ mode = "serving" /\ pc # "dead"
  /\ SwapBuffer
  /\ UNCHANGED <<mode, durable, outputs, accepted, reported>>

\* The loop wakes up from asyncio.sleep.
Drain ==
  /\ mode = "serving" /\ pc = "sleep"
  /\ SwapBuffer
  /\ UNCHANGED <<mode, durable, outputs, accepted, reported>>

\* Faulty variants of Return: the index survives the flush; stop() never ends.
ReturnKeepsIndex ==
  /\ pc' = "sleep"
  /\ batch' = <<>> /\ txAlerts' = {}
  /\ mode' = IF mode = "stopping" THEN "down" ELSE mode
  /\ UNCHANGED <<buffer, next, window, accepted>>

ReturnToLoop ==
  /\ pc' = "sleep"
  /\ batch' = <<>> /\ next' = 1 /\ txAlerts' = {}
  /\ UNCHANGED <<mode, buffer, window, accepted>>

\* _flush is over: the loop goes back to sleep, stop() ends the process.
Return ==
  /\ pc' = "sleep"
  /\ batch' = <<>> /\ next' = 1 /\ txAlerts' = {}
  /\ mode' = IF mode = "stopping" THEN "down" ELSE mode
  /\ UNCHANGED <<buffer, window, accepted>>

\* evaluate_telemetry_alerts for one reading; the autoflush before its query
\* lets it see what this transaction already did.
Evaluate ==
  /\ pc = "evaluate" /\ next <= Len(batch)
  /\ txAlerts' = EvaluateLowBattery(txAlerts, batch[next])
  /\ next' = next + 1
  /\ UNCHANGED <<mode, pc, buffer, batch>>
  /\ UNCHANGED <<durable, outputs, window, accepted, reported>>

RowOf(reading) ==
  [agent   |-> reading.agent, battery    |-> reading.battery,
   seq     |-> reading.seq,   recordedAt |-> window]

\* Faulty variant of CommitEffect: the alerts are not part of the transaction.
CommitRowsOnly ==
  /\ pc = "evaluate" /\ next > Len(batch)
  /\ telemetry' = telemetry \cup {RowOf(batch[i]) : i \in DOMAIN batch}
  /\ alerts' = alerts

\* The transaction takes effect: all rows of the window and its alerts.
CommitEffect ==
  /\ pc = "evaluate" /\ next > Len(batch)
  /\ telemetry' = telemetry \cup {RowOf(batch[i]) : i \in DOMAIN batch}
  /\ alerts' = txAlerts

Commit ==
  /\ CommitEffect
  /\ pc' = "redis"
  /\ UNCHANGED <<mode, buffer, batch, next, txAlerts>>
  /\ UNCHANGED <<outputs, window, accepted, reported>>

\* The except branch: rollback, one telemetry_batch_flush_failed record with the
\* size of the window, return.  Which readings those were is not logged.
ReportFailure == reported' = reported \cup SeqsOf(batch)

CommitReplyLost ==
  /\ "reply" \in Disruptions
  /\ CommitEffect
  /\ ReportFailure
  /\ Return
  /\ UNCHANGED outputs

\* Faulty variant of SqlFails: the return after the error record is missing.
SqlFailsGoesOn ==
  /\ "sql" \in Disruptions
  /\ pc = "evaluate"
  /\ ReportFailure
  /\ pc' = "redis"
  /\ UNCHANGED <<mode, buffer, batch, next, txAlerts>>
  /\ UNCHANGED <<durable, outputs, window, accepted>>

SqlFails ==
  /\ "sql" \in Disruptions
  /\ pc = "evaluate"
  /\ ReportFailure
  /\ Return
  /\ UNCHANGED <<durable, outputs>>

\* The first query needs a connection.  asyncpg's OSError is no
\* SQLAlchemyError: it ends the loop's task, or makes stop() raise.
ConnectFails ==
  /\ "connect" \in Disruptions
  /\ pc = "evaluate" /\ next = 1
  /\ IF mode = "stopping" THEN mode' = "down" /\ pc' = "sleep"
                          ELSE mode' = mode   /\ pc' = "dead"
  /\ batch' = <<>> /\ txAlerts' = {}
  /\ UNCHANGED <<buffer, next, durable, outputs, window, accepted, reported>>

\* No await of the transaction has a timeout: if its answer does not come,
\* _flush never resumes.  The statement may have been the COMMIT, with or
\* without effect.  Only a cancellation or a kill ends the wait.
SqlHangs ==
  /\ "stall" \in Disruptions
  /\ pc = "evaluate"
  /\ CommitEffect \/ UNCHANGED durable
  /\ pc' = "stalled"
  /\ UNCHANGED <<mode, buffer, batch, next, txAlerts>>
  /\ UNCHANGED <<outputs, window, accepted, reported>>

\* Faulty variant of LastOf: the first reading of the window wins.
FirstOf(items, a) ==
  LET mine == {i \in DOMAIN items : items[i].agent = a}
  IN  items[CHOOSE i \in mine : \A j \in mine : i <= j].seq

\* last_per_agent: the reading of agent a that comes last in items.
LastOf(items, a) ==
  LET mine == {i \in DOMAIN items : items[i].agent = a}
  IN  items[CHOOSE i \in mine : \A j \in mine : j <= i].seq

\* Faulty variant of Publish: agents without a reading lose their entry.
PublishWindowOnly(view, items, agents) ==
  [a \in Agents |-> IF a \in agents THEN LastOf(items, a) ELSE 0]

Publish(view, items, agents) ==
  [a \in Agents |-> IF a \in agents THEN LastOf(items, a) ELSE view[a]]

\* Faulty variant of WriteRedis: a failed pipeline ends the flush.
WriteRedisOrReturn ==
  /\ pc = "redis"
  /\ \/ /\ redis' = Publish(redis, batch, AgentsOf(batch))
        /\ pc' = "emit"
        /\ UNCHANGED <<mode, buffer, batch, next, txAlerts, window, accepted>>
     \/ /\ "redis" \in Disruptions
        /\ Return
        /\ UNCHANGED redis
  /\ UNCHANGED <<durable, broadcast, reported>>

\* The pipeline is not a transaction: a failure leaves any subset written,
\* is logged, and the flush goes on.
WriteRedis ==
  /\ pc = "redis"
  /\ \E written \in SUBSET AgentsOf(batch) :
       /\ written = AgentsOf(batch) \/ "redis" \in Disruptions
       /\ redis' = Publish(redis, batch, written)
  /\ pc' = "emit"
  /\ UNCHANGED <<mode, buffer, batch, next, txAlerts>>
  /\ UNCHANGED <<durable, broadcast, window, accepted, reported>>

\* The client has no socket timeout: if the answers do not come, _flush never
\* resumes.  Only a cancellation or a kill ends the wait.
RedisHangs ==
  /\ "hang" \in Disruptions
  /\ pc = "redis"
  /\ \E written \in SUBSET AgentsOf(batch) : redis' = Publish(redis, batch, written)
  /\ pc' = "hung"
  /\ UNCHANGED <<mode, buffer, batch, next, txAlerts>>
  /\ UNCHANGED <<durable, broadcast, window, accepted, reported>>

\* Faulty variant of Emit: the first reading of an agent is broadcast.
EmitFirst ==
  /\ pc = "emit"
  /\ broadcast' = [a \in Agents |-> IF a \in AgentsOf(batch) THEN FirstOf(batch, a)
                                                           ELSE broadcast[a]]
  /\ Return
  /\ UNCHANGED <<durable, redis, reported>>

Emit ==
  /\ pc = "emit"
  /\ \/ broadcast' = Publish(broadcast, batch, AgentsOf(batch))
     \/ "emit" \in Disruptions /\ UNCHANGED broadcast
  /\ Return
  /\ UNCHANGED <<durable, redis, reported>>

\* stop(): the loop is cancelled wherever it waits, abandoning its window,
\* then one more _drain runs.  The server serves no request any more.  A task
\* that died re-raises its error at "await self._task", before that _drain.
Stop ==
  /\ "stop" \in Disruptions
  /\ mode = "serving"
  /\ \/ /\ pc # "dead"
        /\ SwapBuffer
        /\ mode' = "stopping"
     \/ /\ pc = "dead" \/ buffer = <<>>
        /\ mode' = "down" /\ pc' = "sleep"
        /\ buffer' = <<>> /\ batch' = <<>> /\ next' = 1 /\ txAlerts' = {}
        /\ UNCHANGED window
  /\ UNCHANGED <<durable, outputs, accepted, reported>>

\* The process dies; what it held in memory is gone.
Crash ==
  /\ "crash" \in Disruptions
  /\ mode # "down"
  /\ mode' = "down" /\ pc' = "sleep"
  /\ buffer' = <<>> /\ batch' = <<>> /\ next' = 1 /\ txAlerts' = {}
  /\ UNCHANGED <<durable, outputs, window, accepted, reported>>

\* The steps of the flush coroutine, whoever awaits it.
Flush ==
  \/ Drain
  \/ Evaluate
  \/ Commit
  \/ CommitReplyLost
  \/ SqlFails
  \/ ConnectFails
  \/ SqlHangs
  \/ WriteRedis
  \/ RedisHangs
  \/ Emit

Next ==
  \/ Start
  \/ \E a \in Agents, b \in Batteries : Ingest(a, b)
  \/ Flush
  \/ Stop
  \/ Crash

Spec == Init /\ [][Next]_vars

\* An await of the flush returns, raises or, where Postgres or Redis has stopped
\* answering (pc is "stalled" or "hung"), never ends.  The event loop runs what
\* is ready: elsewhere the coroutine does not stand still.
FairSpec == Spec /\ WF_vars(Flush)

-----------------------------------------------------------------------------
(* Properties *)

TypeOK ==
  /\ mode \in {"down", "serving", "stopping"}
  /\ pc \in {"sleep", "evaluate", "stalled", "redis", "hung", "emit", "dead"}
  /\ buffer \in Seq(Reading) /\ batch \in Seq(Reading)
  /\ next \in 1 .. Len(batch) + 1
  /\ txAlerts \subseteq Alert /\ alerts \subseteq Alert
  /\ telemetry \subseteq Row
  /\ redis \in [Agents -> Nat] /\ broadcast \in [Agents -> Nat]
  /\ window \in Nat /\ accepted \in Nat
  /\ reported \subseteq Seqs

\* The alerts table is the exact history of the low-battery condition: a
\* stored reading was below the threshold iff an alert of its agent was active
\* at it.  evaluate_low_battery only acts on changes, so one lost, repeated or
\* reordered reading, or an alert written by a window that was rolled back,
\* would leave an interval that starts or ends at the wrong reading.
AlertHistoryExact ==
  \A t \in telemetry :
    (t.battery < Threshold) <=> Covered(alerts, t.agent, t.seq)

\* No two active alerts of one agent, in the table or inside the transaction:
\* the partial unique index uix_alerts_active_agent_type never fires, which
\* would roll the whole window back.
OneActiveAlert == AtMostOneActive(alerts) /\ AtMostOneActive(txAlerts)

\* No reading is stored twice, and the order in which readings were accepted
\* is the order of their recorded_at, across restarts and failed windows.
StoredOnceInOrder ==
  \A t, u \in telemetry :
    /\ t.seq = u.seq => t = u
    /\ t.seq < u.seq => t.recordedAt <= u.recordedAt

\* Redis and the clients only ever see readings of the right agent that
\* Postgres holds: nothing of a window that was rolled back leaks out.
OutputsAreDurable ==
  \A a \in Agents : \A s \in {redis[a], broadcast[a]} \ {0} :
    \E t \in telemetry : t.agent = a /\ t.seq = s

\* The cached and the broadcast state of an agent never go back in time.
OutputsNeverGoBack ==
  [][\A a \in Agents : redis[a] <= redis'[a] /\ broadcast[a] <= broadcast'[a]]_vars

\* The flush waits for an answer that never comes.
Suspended == pc \in {"stalled", "hung"}

\* While the pipeline and COMMIT answer, Redis holds the newest stored reading
\* of every agent except between a commit and the pipeline of its window.
CacheFollowsDatabase ==
  ~ Suspended /\ pc # "redis" =>
    \A t \in telemetry : redis[t.agent] >= t.seq

\* The clients have been sent the newest stored reading of every agent, except
\* between a commit and the emit of its window, whether Redis failed or not.
ClientsFollowDatabase ==
  ~ Suspended /\ pc \notin {"redis", "emit"} =>
    \A t \in telemetry : broadcast[t.agent] >= t.seq

\* Where a reading that was answered with 201 can be found again.
Tracked == InMemory \cup Stored \cup reported

\* While a process serves, and while its stop() runs, no accepted reading just
\* vanishes: it is in memory, stored, or in a window whose failure was logged.
\* Only the step that begins the shutdown may lose readings (see
\* StopLosesNothing).  Kills and refused connections, which lose a window
\* without a record, are left out where this is checked.
NoSilentLoss ==
  [][\/ mode = "serving" /\ mode' # "serving"
     \/ Tracked \cup (accepted + 1) .. accepted' \subseteq Tracked']_vars

\* What ends the work of the loop: the shutdown, or a store that stopped
\* answering.
Interrupted == mode # "serving" \/ Suspended

\* An accepted reading does not stay in memory for ever: the loop stores it or
\* reports its loss, unless the server is shut down or Postgres or Redis stops
\* answering first.  There is no retry and no size-triggered flush, so the next
\* turn of the loop has to do it.  A refused connection, which ends the loop, is
\* left out here (see LoopDrainsBuffer).
EveryReadingDecided ==
  \A s \in 1 .. MaxReadings :
    s \in InMemory ~> s \in Stored \cup reported \/ Interrupted

\* Every accepted reading reaches the clients, by itself or superseded by a newer
\* one of its agent, although Redis may fail in every window; or the failure of
\* its window was logged, because it was rolled back or the answer to its COMMIT
\* was lost; unless the server is shut down or a store stops answering first.  A
\* broadcast that raises and a refused connection are left out here.
ReadingsReachClients ==
  \A s \in 1 .. MaxReadings, a \in Agents :
    (\E items \in {buffer, batch} : \E i \in DOMAIN items :
       items[i].agent = a /\ items[i].seq = s)
      ~> broadcast[a] >= s \/ s \in reported \/ Interrupted

\* A graceful shutdown stores everything that stop() found in the buffer, or
\* reports it as failed: also what was accepted while a store that did not
\* answer held the loop.  After that the process ends; unless a store does not
\* answer in this flush either.  A refused connection, which makes stop() raise,
\* is left out here.
StopFlushesBuffer ==
  \A s \in 1 .. MaxReadings :
    (mode = "stopping" /\ s \in InMemory)
      ~> (s \in Stored \cup reported /\ mode = "down") \/ Suspended

\* The docstring of the class taken at its word: a background loop drains the
\* buffer every flush_interval, so no reading waits in it for ever.
LoopDrainsBuffer ==
  \A s \in 1 .. MaxReadings : s \in SeqsOf(buffer) ~> s \notin SeqsOf(buffer)

\* The docstring of stop() taken at its word: after a shutdown in which
\* nothing failed, every reading that was accepted is stored.
StopLosesNothing ==
  mode = "down" => 1 .. accepted \subseteq Stored
=============================================================================
