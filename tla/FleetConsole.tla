---------------------------- MODULE FleetConsole ----------------------------
(***************************************************************************)
(* The operator at the dashboard: the selection of App.tsx, the rows of    *)
(* AgentsTable.tsx, the markers and the MapController of FleetMap.tsx,     *)
(* composed with the live view of Dashboard.  MapController is to move the *)
(* map once per selection and to leave it alone when telemetry renders the *)
(* page again; its effect runs after every render, with the array of that  *)
(* render.                                                                 *)
(***************************************************************************)
EXTENDS Dashboard

CONSTANT Nobody   \* null, the initial selectedId

ASSUME ConsoleAssumption == Nobody \notin Agents

VARIABLES
  selectedId,      \* App: the selected agent
  prevSelectedId,  \* MapController: prevSelectedIdRef.current
  shown,           \* the agent the map was last moved to
  pans             \* auxiliary: moves of the map since the last selection

consoleVars == <<selectedId, prevSelectedId, shown, pans>>
allVars     == <<vars, consoleVars>>

\* list and located: the agents of an array, those of them with a position.
Listed(array)  == IF array = NotLoaded THEN {} ELSE DOMAIN array
Located(array) == {a \in Listed(array) : array[a] > 0}

\* What can be clicked: a row of the table, which an error hides, or a marker.
\* The filter above the table only hides rows until it is changed.
Clickable == Located(agents) \cup (IF error THEN {} ELSE Listed(agents))

\* Faulty variants of ControlMap: the map moves whatever the ref says; the ref
\* is set before the agent is looked up.
ControlMapAlways(ref, sel) ==
  IF sel \in Located(agents) THEN [ref |-> sel, moves |-> 1] ELSE [ref |-> ref, moves |-> 0]

ControlMapRefFirst(ref, sel) ==
  [ref   |-> IF sel = Nobody THEN ref ELSE sel,
   moves |-> IF sel # ref /\ sel \in Located(agents) THEN 1 ELSE 0]

\* The effect of MapController: what it leaves in the ref, and how often it
\* calls setView.
ControlMap(ref, sel) ==
  IF sel # ref /\ sel \in Located(agents)
  THEN [ref |-> sel, moves |-> 1] ELSE [ref |-> ref, moves |-> 0]

ConsoleInit ==
  /\ selectedId = Nobody /\ prevSelectedId = Nobody
  /\ shown = Nobody /\ pans = 0

\* The effects of a render: MapController's, then that of App.
RunEffects ==
  LET effect == ControlMap(prevSelectedId, selectedId)
  IN  /\ AlignRef
      /\ prevSelectedId' = effect.ref
      /\ shown' = IF effect.moves > 0 THEN selectedId ELSE shown
      /\ pans' = pans + effect.moves
      /\ UNCHANGED selectedId

\* A click.  React renders the new selection with the array on display and
\* runs the effects of that render, before anything else; the effects of the
\* previous render have run by then, and queued updates stay queued.
Select(a) ==
  LET effect == ControlMap(prevSelectedId, a)
  IN  /\ ~effectDue
      /\ a \in Clickable /\ a # selectedId
      /\ selectedId' = a
      /\ prevSelectedId' = effect.ref
      /\ shown' = IF effect.moves > 0 THEN a ELSE shown
      /\ pans' = effect.moves
      /\ UNCHANGED vars

ConsoleNext ==
  \/ /\ BackendStep \/ NetworkStep \/ BrowserStep \/ \E q \in Requests : HandlerStep(q)
     /\ UNCHANGED consoleVars
  \/ RunEffects
  \/ \E a \in Agents : Select(a)

ConsoleSpec == Init /\ ConsoleInit /\ [][ConsoleNext]_allVars

\* A page that has loaded, under the fairness of Dashboard; nobody has to click.
LoadedConsoleInit == LoadedInit /\ ConsoleInit

LoadedConsoleSpec == LoadedConsoleInit /\ [][ConsoleNext]_allVars /\ Fairness

-----------------------------------------------------------------------------
(* Properties *)

ConsoleTypeOK ==
  /\ DashTypeOK
  /\ {selectedId, prevSelectedId, shown} \subseteq Agents \cup {Nobody}
  /\ pans \in Nat

\* Between two selections the map moves at most once, however many ticks,
\* resyncs and renders there are, and whenever the first report of the selected
\* agent comes: the operator who pans away is not pulled back.
OnePanPerSelection == pans <= 1

\* Once the effects have run, the map was last moved to the selected agent, if
\* that agent is on the map, whatever was selected, rendered or resynced since
\* the map moved.
MapShowsSelection ==
  ~effectDue /\ selectedId \in Located(agents) => shown = selectedId

\* An agent that was selected before its first report is moved to when it has
\* one, without another click, unless another agent is selected.
SelectionIsReached ==
  \A a \in Reporters : selectedId = a ~> shown = a \/ selectedId # a
=============================================================================
