---------------------------- MODULE AgentRegistry ----------------------------
(***************************************************************************)
(* Which agents exist and which ids the ingest path accepts: the agents    *)
(* table, AgentService.create_agent (backend/app/services/agent.py) and    *)
(* the in-memory _known_agent_ids (backend/app/services/telemetry.py),     *)
(* composed with the batcher, whose inserts the foreign key on agents.id   *)
(* checks.  Agents is here the set of all ids that may ever be assigned.   *)
(***************************************************************************)
EXTENDS TelemetryBatcher

CONSTANT RegistryDisruptions   \* which of these the environment may cause

AllRegistryDisruptions ==
  {"reply",      \* COMMIT of a registration takes effect, its answer is lost
   "refresh",    \* the SELECT after the COMMIT fails
   "cleanup"}    \* a developer empties the tables and Redis under the backend

ASSUME RegistryAssumption == RegistryDisruptions \subseteq AllRegistryDisruptions

VARIABLES
  agentRows,   \* ids in the agents table
  known,       \* _known_agent_ids
  refreshing,  \* ids of the registrations between commit and refresh
  registered   \* auxiliary: ids that were answered with 201

registryVars == <<agentRows, known, refreshing, registered>>
fleetVars    == <<vars, registryVars>>

InitRegistry ==
  agentRows = {} /\ known = {} /\ refreshing = {} /\ registered = {}

-----------------------------------------------------------------------------
(* create_agent *)

\* Faulty variant of CommitAgent: the id is registered before the COMMIT.
RegisterThenCommit(a) ==
  /\ mode = "serving" /\ a \notin agentRows
  /\ known' = known \cup {a}
  /\ \/ agentRows' = agentRows \cup {a} /\ refreshing' = refreshing \cup {a}
     \/ UNCHANGED <<agentRows, refreshing>>
  /\ UNCHANGED <<vars, registered>>

\* Insert and COMMIT.  A COMMIT that fails leaves nothing behind; one whose
\* answer is lost leaves the row, and the request ends with 500.  After a
\* TRUNCATE an id may be assigned while an older registration with the same id
\* still waits for its refresh: the two count as one, they find the same row.
CommitAgent(a) ==
  /\ mode = "serving" /\ a \notin agentRows
  /\ agentRows' = agentRows \cup {a}
  /\ \/ refreshing' = refreshing \cup {a}
     \/ "reply" \in RegistryDisruptions /\ UNCHANGED refreshing
  /\ UNCHANGED <<vars, known, registered>>

\* The refresh found the row: register_known_agent, then 201.
RegisterAgent(a) ==
  /\ a \in refreshing /\ a \in agentRows
  /\ refreshing' = refreshing \ {a}
  /\ known' = known \cup {a}
  /\ registered' = registered \cup {a}
  /\ UNCHANGED <<vars, agentRows>>

\* The refresh raises: 500, and register_known_agent is never reached.
RefreshFails(a) ==
  /\ a \in refreshing
  /\ "refresh" \in RegistryDisruptions \/ a \notin agentRows
  /\ refreshing' = refreshing \ {a}
  /\ UNCHANGED <<vars, agentRows, known, registered>>

-----------------------------------------------------------------------------
(* The batcher with the checks on agent ids *)

\* Faulty variant of LoadKnown: the set is not loaded at startup.
LoadNothing == known' = {}

\* load_known_agents, before the first request is served.
LoadKnown == known' = agentRows

StartProcess ==
  /\ Start
  /\ LoadKnown
  /\ UNCHANGED <<agentRows, refreshing, registered>>

\* An unknown id is answered with 404, or skipped in a batch, and leaves no
\* trace; there is no step for it.
IngestKnown(a, b) ==
  /\ a \in known
  /\ Ingest(a, b)
  /\ UNCHANGED registryVars

ForeignKeysHold == AgentsOf(batch) \subseteq agentRows

\* The autoflush before the first query inserts all rows of the window.
EvaluateInserted ==
  /\ next = 1 => ForeignKeysHold
  /\ Evaluate

\* One id without a row: the INSERT fails, and with it the whole window.
InsertFails ==
  /\ pc = "evaluate" /\ next = 1
  /\ ~ ForeignKeysHold
  /\ ReportFailure
  /\ Return
  /\ UNCHANGED <<durable, outputs>>

\* Faulty variant of ForgetIfDown: the set outlives the process.
KeepKnown == UNCHANGED <<known, agentRows, registered>>

\* The memory of the process goes with the process.
ForgetIfDown ==
  /\ known' = IF mode' = "down" THEN {} ELSE known
  /\ UNCHANGED <<agentRows, registered>>

FlushChecked ==
  /\ \/ Drain \/ EvaluateInserted \/ InsertFails \/ Commit \/ CommitReplyLost
     \/ SqlFails \/ ConnectFails \/ SqlHangs \/ WriteRedis \/ RedisHangs
     \/ Emit
  /\ ForgetIfDown
  /\ UNCHANGED refreshing

\* Uvicorn lets the requests finish before the lifespan calls stop().
StopProcess ==
  /\ refreshing = {}
  /\ Stop
  /\ ForgetIfDown
  /\ UNCHANGED refreshing

CrashProcess ==
  /\ Crash
  /\ ForgetIfDown
  /\ refreshing' = {}

\* The life of the process: what the table holds and what was answered stay.
LifespanStep ==
  /\ StartProcess \/ StopProcess \/ CrashProcess
  /\ UNCHANGED <<agentRows, registered>>

\* The first half of the documented cleanup, TRUNCATE telemetry, agents RESTART
\* IDENTITY CASCADE.  It waits for the locks of a flush that has inserted its
\* rows; ids are assigned afresh.
Truncate ==
  /\ "cleanup" \in RegistryDisruptions
  /\ ~ (pc = "evaluate" /\ next > 1)
  /\ agentRows' = {} /\ telemetry' = {} /\ alerts' = {}
  /\ registered' = {}
  /\ txAlerts' = {}
  /\ UNCHANGED <<mode, pc, buffer, batch, next, known, refreshing>>
  /\ UNCHANGED <<outputs, window, accepted, reported>>

NoKeys == [a \in Agents |-> 0]

\* Its second half, FLUSHDB; a window may be written before it, and a pipeline
\* may run after it.
FlushCache ==
  /\ "cleanup" \in RegistryDisruptions
  /\ redis' = NoKeys
  /\ UNCHANGED <<volatile, durable, broadcast, window, accepted, reported>>
  /\ UNCHANGED registryVars

CleanUp == Truncate \/ FlushCache

FleetInit == Init /\ InitRegistry

AgentStep(a) ==
  \/ CommitAgent(a)
  \/ RegisterAgent(a)
  \/ RefreshFails(a)
  \/ \E b \in Batteries : IngestKnown(a, b)

FleetNext ==
  \/ LifespanStep
  \/ \E a \in Agents : AgentStep(a)
  \/ FlushChecked
  \/ CleanUp

FleetSpec == FleetInit /\ [][FleetNext]_fleetVars

-----------------------------------------------------------------------------
(* Properties *)

FleetTypeOK ==
  /\ TypeOK
  /\ agentRows \subseteq Agents /\ known \subseteq Agents
  /\ refreshing \subseteq Agents /\ registered \subseteq Agents
  /\ mode = "down" => known = {} /\ refreshing = {}

\* An agent whose registration was answered with 201 has a row, and its
\* telemetry is accepted by every process that serves, after restarts too.
AcknowledgedIsKnown ==
  /\ registered \subseteq agentRows
  /\ mode = "serving" => registered \subseteq known

\* No reading waits in memory for an agent without a row: as long as rows are
\* not deleted, the foreign key can never take a whole window down.
InMemoryAgentsExist ==
  known \cup AgentsOf(buffer) \cup AgentsOf(batch) \subseteq agentRows

\* With the agents, their registration and the foreign key added, the batcher
\* still behaves as TelemetryBatcher says: unless SQL may fail for other reasons,
\* no window is ever rejected.
ImplementsBatcher == Spec

\* After a cleanup too, half of it done or none: while the pipeline and COMMIT
\* answer, a cached state is the newest stored one or newer (of a row that was
\* truncated), except between a commit and the pipeline of its window.
CachedIsNewest ==
  ~ Suspended /\ pc # "redis" =>
    \A t \in telemetry : redis[t.agent] # 0 => redis[t.agent] >= t.seq

\* Cached states are replaced by newer ones or dropped with the whole cache, and
\* the broadcasts never go back, whatever is truncated in between.
FleetNeverGoesBack ==
  [][\A a \in Agents : /\ redis[a] <= redis'[a] \/ redis'[a] = 0
                       /\ broadcast[a] <= broadcast'[a]]_fleetVars

\* While the pipeline works and nothing else writes to Redis, what is broadcast
\* is what has just been written there: the two channels agree on every window.
BroadcastIsCached ==
  [][broadcast' # broadcast =>
       \A a \in Agents : broadcast'[a] \in {broadcast[a], redis[a]}]_fleetVars

\* The decision log taken at its word: a stale id, a dev artifact from a
\* previous run, does not discard the valid readings beside it.
StaleIdDropsOnlyItself ==
  [][\A i \in DOMAIN batch :
       batch[i].seq \in reported' \ reported => batch[i].agent \notin agentRows]_fleetVars
=============================================================================
