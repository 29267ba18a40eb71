------------------------------ MODULE TaskTurns ------------------------------
(***************************************************************************)
(* What the render pool promises the tasks it runs: they take turns.  A    *)
(* task has the turn until nobody is inside it, and only then does the     *)
(* turn pass on.  engine/src/map/rendermanager/RenderManager.ts implements *)
(* this with the head of the queue and busyCount.                          *)
(***************************************************************************)
CONSTANTS Workers, Tasks, NoTask

VARIABLES
  turn,    \* the task whose turn it is, or NoTask
  inside   \* the workers inside a doWork() of that task

vars == <<turn, inside>>

Init ==
  /\ turn = NoTask
  /\ inside = {}

PassTurn(t) ==
  /\ inside = {}
  /\ turn' = t
  /\ UNCHANGED inside

Enter(w) ==
  /\ turn # NoTask
  /\ w \notin inside
  /\ inside' = inside \cup {w}
  /\ UNCHANGED turn

Leave(w) ==
  /\ w \in inside
  /\ inside' = inside \ {w}
  /\ UNCHANGED turn

Next ==
  \/ \E t \in Tasks \cup {NoTask} : PassTurn(t)
  \/ \E w \in Workers : Enter(w) \/ Leave(w)

Spec == Init /\ [][Next]_vars
==============================================================================
