----------------------------- MODULE LiveSystem -----------------------------
(***************************************************************************)
(* From the ingest path to the map: the page of Dashboard over the backend *)
(* of CurrentState in place of LiveFeed's abstraction of it.  What a page  *)
(* receives is the payload that _flush builds from its window; what it     *)
(* reads over REST is what get_current_state finds in Redis, or in the     *)
(* telemetry table after a miss; and both it and the other clients, which  *)
(* are the readers of CurrentState, write such a row back to Redis.        *)
(***************************************************************************)
EXTENDS CurrentState

CONSTANTS
  MaxInbox,    \* bound on the batches under way to the browser
  MaxFaults,   \* bound on the faults of a behaviour
  Faults,      \* which faults of Dashboard the environment may cause
  NotLoaded    \* null, the initial agents state

VARIABLES
  \* the page, as Dashboard names its parts
  link, inbox, agents, queued, renderDue, effectDue, agentsRef, pending,
  get, left, missed, row, data, error, faults

Page == INSTANCE Dashboard
          WITH MaxVersion <- MaxReadings, Bystanders <- TRUE, Reporters <- {},
               fleet <- agentRows, newest <- NewestStates,
               cached <- redis, outgoing <- Outgoing, piped <- pc \in {"hung", "emit"}

client     == <<link, agents, queued, renderDue, effectDue, agentsRef, pending,
                get, left, missed, row, data, error>>
page       == <<client, inbox, faults>>
systemVars == <<stateVars, page>>

\* latest_states of the event agent.telemetry.batch: one entry per agent of the
\* window.
Payload == [a \in AgentsOf(batch) |-> LastOf(batch, a)]

\* The broadcast reaches the page if it has joined.
Receive ==
  /\ link = "joined" => Len(inbox) < MaxInbox
  /\ inbox' = IF link = "joined" THEN Append(inbox, Payload) ELSE inbox
  /\ UNCHANGED <<client, faults>>

\* What a page counts as a fault of the backend: a stored window is never
\* broadcast, never published at all, only partly in Redis; Redis is empty.
BackendFaults == {"emit", "reply", "redis", "cold"}

Disturbs(kind) ==
  \/ kind = "emit" /\ Outgoing # Page!Empty /\ Outgoing' = Page!Empty
  \/ kind = "reply" /\ telemetry' # telemetry /\ Outgoing' = Page!Empty
  \/ /\ kind = "redis" /\ pc = "redis" /\ pc' \in {"hung", "emit"}
     /\ redis' # Publish(redis, batch, AgentsOf(batch))
  \/ kind = "cold" /\ redis # NoKeys /\ redis' = NoKeys

\* A GET of the page is being handled.  Uvicorn lets it finish before stop(); if
\* the process is killed, it fails, or is never answered, at that moment.
Handled == \E q \in Page!Requests : get[q] = "reading"

BackendMoves ==
  /\ StateNext
  /\ Handled => mode' = "serving"
  /\ \/ broadcast' # broadcast /\ Receive
     \/ /\ broadcast' = broadcast
        /\ \E kind \in BackendFaults : Disturbs(kind) /\ Page!Fault(kind)
        /\ UNCHANGED <<client, inbox>>
     \/ /\ broadcast' = broadcast
        /\ \A kind \in BackendFaults : ~ Disturbs(kind)
        /\ UNCHANGED page

\* The row that the fallback query of the page's request answers with.
FallbackStates(a) == IF RowsOf(a) = {} THEN {0} ELSE {t.seq : t \in NewestRows(a)}

\* get_current_state for the page, up to the write-back.
Lookup(q) ==
  /\ mode = "serving"
  /\ UNCHANGED stateVars
  /\ \/ Page!List(q)
     \/ \E a \in Agents :
          Page!ReadCache(q, a) \/ \E state \in FallbackStates(a) : Page!ReadRow(q, a, state)

\* Its write-back: the page's request is a writer of Redis too.
Rebuild(q) ==
  /\ mode = "serving"
  /\ UNCHANGED <<volatile, durable, broadcast, window, accepted, reported>>
  /\ UNCHANGED <<registryVars, readerVars>>
  /\ \E a \in Agents : Page!WriteBack(q, a)

PageMoves ==
  /\ UNCHANGED stateVars
  /\ Page!NetworkStep \/ Page!BrowserStep \/ Page!AlignRef

SystemInit == StateInit /\ Page!Init

SystemNext ==
  \/ BackendMoves
  \/ PageMoves
  \/ \E q \in Page!Requests : Lookup(q) \/ Rebuild(q)

SystemSpec == SystemInit /\ [][SystemNext]_systemVars

-----------------------------------------------------------------------------
(* Properties *)

\* A state of the map is "none", or a reading of that agent that Postgres holds.
IsHistory(map) ==
  \A a \in DOMAIN map :
    map[a] = 0 \/ \E t \in telemetry : t.agent = a /\ t.seq = map[a]

\* Nothing the operator sees, is about to see, or is compared with it was ever
\* lost by the backend: persist comes before publish on both channels, the rows
\* of the fallback are stored ones, and no window that was rolled back shows up
\* on the page.
OnlyHistoryIsShown ==
  /\ \A map \in ({agents, queued, agentsRef} \ {NotLoaded}) \cup {pending} : IsHistory(map)
  /\ \A q \in Page!Requests : IsHistory(data[q]) /\ IsHistory(row[q])

\* Over this backend the page is the one of Dashboard.
ImplementsDashboard == Page!Spec
=============================================================================
