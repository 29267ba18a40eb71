--------------------------- MODULE MCRenderManager ---------------------------
(* The pool on a small instance: one map update, a region task it          *)
(* contains and one task that is comparable with nothing.                  *)
EXTENDS RenderManager

CONSTANTS update, region, lone

MCSame == {<<t, t>> : t \in Tasks}
MCContains == MCSame \cup {<<update, region>>}

OneUnit == [t \in Tasks |-> 1]

(* Everything, the tasks of one map, the tasks of another.                 *)
MCSelections == {Tasks, {update, region}, {lone}}
==============================================================================
