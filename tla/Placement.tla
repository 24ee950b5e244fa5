----------------------------- MODULE Placement ------------------------------
(***************************************************************************)
(* The placement of the simulator (simulator/app/placement.py): what       *)
(* register_agents is to register, from the configuration.  A position is  *)
(* a pair of numbers; types and statuses are left out.                     *)
(***************************************************************************)
EXTENDS Naturals, Sequences

AgentSpec == [name : Nat, at : Nat \X Nat]

\* An entry of a scenario file; an incomplete one lacks a required field.
Entry == [name : Nat, at : Nat \X Nat, complete : BOOLEAN]

\* SIMULATION_MODE, with AGENT_COUNT or the content of SCENARIO_FILE.
Config ==
  [mode : {"local_cluster"}, count : Nat] \cup [mode : {"fixed_points"}, entries : Seq(Entry)]

\* The sunflower: of n specs the i-th lies i - 1 golden angles round the base
\* location, at the square root of (2i - 1) / 2n of the spread radius.
LocalCluster(count) ==
  [i \in 1 .. count |-> [name |-> i, at |-> <<2 * i - 1, i - 1>>]]

FixedPoints(entries) ==
  [i \in DOMAIN entries |-> [name |-> entries[i].name, at |-> entries[i].at]]

\* Every entry is looked at before the first agent is registered: a file with
\* one bad entry, or an unknown mode, ends the simulator with nothing done.
Accepts(config) ==
  config.mode = "fixed_points" =>
    \A i \in DOMAIN config.entries : config.entries[i].complete

BuildAgentSpecs(config) ==
  IF config.mode = "local_cluster" THEN LocalCluster(config.count)
                                   ELSE FixedPoints(config.entries)
=============================================================================
