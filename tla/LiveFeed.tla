------------------------------ MODULE LiveFeed ------------------------------
(***************************************************************************)
(* What a running backend shows its clients: the agents that exist, the    *)
(* newest state of each that Postgres holds, the states in Redis, and the  *)
(* window that is on its way from the commit to the broadcast.  Dashboard  *)
(* builds on these steps; the backend of CurrentState, with every request  *)
(* that writes to Redis, is shown to take no other ones.  The states of an *)
(* agent are numbered in the order of its readings, 0 is "none".           *)
(***************************************************************************)
EXTENDS Naturals

CONSTANTS
  Agents,      \* agent ids
  MaxVersion   \* bound on the states of an agent that differ

VARIABLES
  fleet,      \* ids in the agents table
  newest,     \* per agent: the newest state in the telemetry table
  cached,     \* per agent: the state in Redis, 0 for no key
  outgoing,   \* the last states of a stored window that is not broadcast yet
  piped       \* the Redis pipeline of that window is over

backend == <<fleet, newest, cached, outgoing, piped>>

Versions == 0 .. MaxVersion
Empty    == [a \in {} |-> 0]

\* Map.set, or SET, for every update.
Put(updates, map) ==
  [a \in DOMAIN updates \cup DOMAIN map |->
     IF a \in DOMAIN updates THEN updates[a] ELSE map[a]]

NoKeys == [a \in Agents |-> 0]

FeedInit ==
  /\ fleet \in SUBSET Agents
  /\ newest = [a \in Agents |-> 0]
  /\ cached = NoKeys
  /\ outgoing = Empty /\ piped = FALSE

FeedRegister(a) ==
  /\ a \notin fleet
  /\ fleet' = fleet \cup {a}
  /\ UNCHANGED <<newest, cached, outgoing, piped>>

\* A window with these last states of its agents is stored; it may hold further
\* readings of them.  At MaxVersion an agent goes on reporting the same state.
Stores(states) ==
  /\ states # Empty /\ DOMAIN states \subseteq fleet
  /\ \A a \in DOMAIN states : states[a] > newest[a] \/ states[a] = MaxVersion
  /\ newest' = Put(states, newest)
  /\ UNCHANGED <<fleet, cached, piped>>

FeedStore(states) ==
  /\ outgoing = Empty
  /\ Stores(states)
  /\ outgoing' = states

\* The answer to COMMIT is lost, or never comes: nothing is published.
FeedStoreOnly(states) ==
  /\ outgoing = Empty
  /\ Stores(states)
  /\ UNCHANGED outgoing

\* The pipeline executes, for some of the agents if it fails or hangs.
FeedCache(written) ==
  /\ outgoing # Empty /\ ~ piped
  /\ written \subseteq DOMAIN outgoing
  /\ cached' = Put([a \in written |-> outgoing[a]], cached)
  /\ piped' = TRUE
  /\ UNCHANGED <<fleet, newest, outgoing>>

\* The window is broadcast, after its pipeline.
FeedTaken ==
  /\ outgoing # Empty /\ piped
  /\ outgoing' = Empty /\ piped' = FALSE
  /\ UNCHANGED <<fleet, newest, cached>>

\* Its broadcast raises, or never comes because the process ends before it.
FeedLost ==
  /\ outgoing # Empty
  /\ outgoing' = Empty /\ piped' = FALSE
  /\ UNCHANGED <<fleet, newest, cached>>

\* What the row query of current-state may answer with: a reading of the newest
\* window, which need not be the last one.  How far it lies behind is left open.
RowStates(a) == IF newest[a] = 0 THEN {0} ELSE 1 .. newest[a]

\* get_current_state writes a row back that it has read after a miss, whatever
\* was stored and written to Redis since then.
FeedWriteBack(a, state) ==
  /\ state \in 1 .. newest[a]
  /\ cached' = [cached EXCEPT ![a] = state]
  /\ UNCHANGED <<fleet, newest, outgoing, piped>>

\* Redis restarts, and comes back empty.
FeedCold ==
  /\ cached' = NoKeys
  /\ UNCHANGED <<fleet, newest, outgoing, piped>>

FeedNext ==
  \/ \E a \in Agents :
       FeedRegister(a) \/ \E state \in Versions : FeedWriteBack(a, state)
  \/ \E reporting \in SUBSET fleet : \E states \in [reporting -> 1 .. MaxVersion] :
       FeedStore(states) \/ FeedStoreOnly(states)
  \/ \E written \in SUBSET DOMAIN outgoing : FeedCache(written)
  \/ FeedTaken
  \/ FeedLost
  \/ FeedCold

FeedSpec == FeedInit /\ [][FeedNext]_backend
=============================================================================
