---------------------------- MODULE CurrentState ----------------------------
(***************************************************************************)
(* GET /api/agents/current-state: AgentService.get_current_state           *)
(* (backend/app/services/agent.py) running beside the batcher and the      *)
(* registry: the whole backend, with both writers of the Redis cache.      *)
(*                                                                         *)
(* A request walks over the agents.  For each it asks Redis; on a miss it  *)
(* reads the newest telemetry row and writes it back to Redis.  Every one  *)
(* of these is an await, so a flush and other requests run in between, and *)
(* the write-back is not guarded against what they did.                    *)
(***************************************************************************)
EXTENDS AgentRegistry

CONSTANTS
  Readers,       \* requests that may be in progress at once
  MayLoseCache   \* whether Redis may restart empty (it has no volume)

ASSUME ReaderAssumption == MayLoseCache \in BOOLEAN

VARIABLES
  step,       \* per reader: "idle", "cache", "row", "repopulate"
  remaining,  \* per reader: the agents listed and not answered yet
  current,    \* per reader: the agent that missed in Redis
  found,      \* per reader: the row the fallback query returned
  answer,     \* per reader: seqs of the states listed so far, 0 for None
  asked       \* auxiliary: newest recordedAt of each agent at the request

readerVars == <<step, remaining, current, found, answer, asked>>
stateVars  == <<fleetVars, readerVars>>

RowsOf(a) == {t \in telemetry : t.agent = a}

NewestWindow(a) ==
  IF RowsOf(a) = {} THEN 0
  ELSE CHOOSE w \in {t.recordedAt : t \in RowsOf(a)} :
         \A t \in RowsOf(a) : t.recordedAt <= w

\* Faulty variants of NewestRows: the ordering is ascending; the filter on
\* agent_id is missing.
OldestRows(a) ==
  {t \in RowsOf(a) : \A u \in RowsOf(a) : t.recordedAt <= u.recordedAt}

NewestRowsOfFleet(a) ==
  {t \in telemetry : \A u \in telemetry : u.recordedAt <= t.recordedAt}

\* ORDER BY recorded_at DESC LIMIT 1: recorded_at is now(), equal for all rows
\* of one transaction, and nothing breaks the tie.
NewestRows(a) ==
  {t \in RowsOf(a) : \A u \in RowsOf(a) : u.recordedAt <= t.recordedAt}

-----------------------------------------------------------------------------
Idle    == [r \in Readers |-> "idle"]
Nothing == [r \in Readers |-> {}]
Unlisted == -1
NoStates == [a \in Agents |-> Unlisted]
NoWindow == [a \in Agents |-> 0]

InitReaders ==
  /\ step = Idle /\ remaining = Nothing /\ current = Nothing /\ found = Nothing
  /\ answer = [r \in Readers |-> NoStates]
  /\ asked = [r \in Readers |-> NoWindow]

\* list_agents: the agents registered at this moment; the answer starts empty.
Request(r) ==
  /\ mode = "serving" /\ step[r] = "idle"
  /\ step' = [step EXCEPT ![r] = "cache"]
  /\ remaining' = [remaining EXCEPT ![r] = agentRows]
  /\ asked' = [asked EXCEPT ![r] = [a \in Agents |-> NewestWindow(a)]]
  /\ UNCHANGED <<fleetVars, current, found, answer>>

\* The result list grows by agent a, and the loop goes on.
Answer(r, a, state) ==
  /\ answer' = [answer EXCEPT ![r][a] = state]
  /\ step' = [step EXCEPT ![r] = "cache"]
  /\ remaining' = [remaining EXCEPT ![r] = @ \ {a}]
  /\ current' = [current EXCEPT ![r] = {}]
  /\ found' = [found EXCEPT ![r] = {}]
  /\ UNCHANGED asked

\* Faulty variant of ReadCache: a miss is taken for an agent without history.
ReadCacheOnly(r, a) ==
  /\ step[r] = "cache" /\ a \in remaining[r]
  /\ Answer(r, a, redis[a])
  /\ UNCHANGED fleetVars

\* The order of the loop (id descending) is left open.
ReadCache(r, a) ==
  /\ step[r] = "cache" /\ a \in remaining[r]
  /\ \/ redis[a] # 0 /\ Answer(r, a, redis[a])
     \/ /\ redis[a] = 0
        /\ step' = [step EXCEPT ![r] = "row"]
        /\ current' = [current EXCEPT ![r] = {a}]
        /\ UNCHANGED <<remaining, found, answer, asked>>
  /\ UNCHANGED fleetVars

ReadRow(r, a) ==
  /\ step[r] = "row" /\ a \in current[r]
  /\ \/ RowsOf(a) = {} /\ Answer(r, a, 0)
     \/ \E t \in NewestRows(a) :
          /\ found' = [found EXCEPT ![r] = {t}]
          /\ step' = [step EXCEPT ![r] = "repopulate"]
          /\ UNCHANGED <<remaining, current, answer, asked>>
  /\ UNCHANGED fleetVars

\* write_agent_state: an unconditional SET, whose failure is only logged.
Repopulate(r, a) ==
  /\ step[r] = "repopulate" /\ a \in current[r]
  /\ \E t \in found[r] :
       /\ \/ redis' = [redis EXCEPT ![a] = t.seq]
          \/ "redis" \in Disruptions /\ UNCHANGED redis
       /\ Answer(r, a, t.seq)
  /\ UNCHANGED <<volatile, durable, broadcast, window, accepted, reported>>
  /\ UNCHANGED registryVars

\* Faulty variant of Finish: a failed request leaves its row behind.
FinishWithRow(r) ==
  /\ step' = [step EXCEPT ![r] = "idle"]
  /\ remaining' = [remaining EXCEPT ![r] = {}]
  /\ answer' = [answer EXCEPT ![r] = NoStates]
  /\ asked' = [asked EXCEPT ![r] = NoWindow]
  /\ UNCHANGED <<fleetVars, current, found>>

Finish(r) ==
  /\ step' = [step EXCEPT ![r] = "idle"]
  /\ remaining' = [remaining EXCEPT ![r] = {}]
  /\ current' = [current EXCEPT ![r] = {}]
  /\ found' = [found EXCEPT ![r] = {}]
  /\ answer' = [answer EXCEPT ![r] = NoStates]
  /\ asked' = [asked EXCEPT ![r] = NoWindow]
  /\ UNCHANGED fleetVars

Respond(r) == step[r] = "cache" /\ remaining[r] = {} /\ Finish(r)

\* A failing GET to Redis and a failing SELECT are not caught: 500.
RequestFails(r) ==
  /\ \/ step[r] = "cache" /\ "redis" \in Disruptions
     \/ step[r] = "row" /\ {"sql", "connect"} \cap Disruptions # {}
  /\ Finish(r)

\* Redis restarts, and comes back empty.
ColdRedis ==
  /\ MayLoseCache
  /\ redis' = NoKeys
  /\ UNCHANGED <<volatile, durable, broadcast, window, accepted, reported>>
  /\ UNCHANGED <<registryVars, readerVars>>

\* The rest of the backend beside the requests.  Uvicorn lets them finish before
\* the lifespan calls stop(); a TRUNCATE waits for the locks of their sessions.
RegistryStep ==
  \/ /\ StartProcess \/ FlushChecked \/ FlushCache \/ \E a \in Agents : AgentStep(a)
     /\ UNCHANGED readerVars
  \/ /\ StopProcess \/ Truncate
     /\ step = Idle /\ UNCHANGED readerVars
  \/ /\ CrashProcess
     /\ step' = Idle /\ remaining' = Nothing /\ current' = Nothing /\ found' = Nothing
     /\ answer' = [r \in Readers |-> NoStates]
     /\ asked' = [r \in Readers |-> NoWindow]

ReaderStep(r) ==
  \/ Request(r)
  \/ \E a \in Agents : ReadCache(r, a) \/ ReadRow(r, a) \/ Repopulate(r, a)
  \/ Respond(r)
  \/ RequestFails(r)

StateInit == FleetInit /\ InitReaders

StateNext ==
  \/ RegistryStep
  \/ \E r \in Readers : ReaderStep(r)
  \/ ColdRedis

StateSpec == StateInit /\ [][StateNext]_stateVars

-----------------------------------------------------------------------------
(* Properties *)

StateTypeOK ==
  /\ FleetTypeOK
  /\ step \in [Readers -> {"idle", "cache", "row", "repopulate"}]
  /\ remaining \in [Readers -> SUBSET Agents]
  /\ current \in [Readers -> SUBSET Agents]
  /\ found \in [Readers -> SUBSET telemetry]
  /\ answer \in [Readers -> [Agents -> Nat \cup {Unlisted}]]
  /\ asked \in [Readers -> [Agents -> Nat]]
  /\ \A r \in Readers : /\ step[r] \in {"row", "repopulate"} <=> current[r] # {}
                        /\ step[r] = "repopulate" <=> found[r] # {}
                        /\ \A t \in found[r] : t.agent \in current[r]

\* What a request lists for an agent is a reading of that agent which Postgres
\* holds, from Redis or from the fallback, whatever the flush did in between.
AnswersAreDurable ==
  \A r \in Readers, a \in Agents :
    answer[r][a] \in {Unlisted, 0} \cup {t.seq : t \in RowsOf(a)}

\* An agent is listed without a state only if it had no stored telemetry when
\* the request came in: a cold Redis never hides an agent.
NoneOnlyWithoutHistory ==
  \A r \in Readers, a \in Agents : answer[r][a] = 0 => asked[r][a] = 0

\* The fallback never lists a state from an older window than the newest one
\* that was stored when the request came in.
FallbackFromNewestWindow ==
  \A r \in Readers : \A t \in found[r] : t.recordedAt >= asked[r][t.agent]

\* README.md taken at its word: a cold Redis is always safe to rebuild from
\* the telemetry table, so no cached state is replaced by one of an older
\* window.
RebuildIsSafe ==
  [][\A t, u \in telemetry :
       redis[t.agent] = t.seq /\ redis'[t.agent] = u.seq
         => t.recordedAt <= u.recordedAt]_stateVars

-----------------------------------------------------------------------------
(* The backend as its clients see it *)

\* The newest reading of each agent in the table.
NewestSeq(rows) ==
  IF rows = {} THEN 0
  ELSE CHOOSE s \in {t.seq : t \in rows} : \A t \in rows : t.seq <= s

NewestStates == [a \in Agents |-> NewestSeq(RowsOf(a))]

\* The window between its commit and the end of its flush.
Outgoing ==
  [a \in (IF pc \in {"redis", "hung", "emit"} THEN AgentsOf(batch) ELSE {})
     |-> LastOf(batch, a)]

Feed == INSTANCE LiveFeed
          WITH MaxVersion <- MaxReadings, fleet <- agentRows,
               newest <- NewestStates, cached <- redis,
               outgoing <- Outgoing, piped <- pc \in {"hung", "emit"}

\* The clients see of this backend what Dashboard builds on, whatever fails and
\* whoever writes to Redis: only registered agents report, a window is stored
\* before anything of it is cached, and cached before it is broadcast, each is
\* over before the next one, and Redis may hold any reading that was stored.
ImplementsLiveFeed == Feed!FeedSpec
=============================================================================
