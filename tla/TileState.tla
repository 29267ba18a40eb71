------------------------------ MODULE TileState ------------------------------
(***************************************************************************)
(* The life of one hires tile over many updates, boundary changes and      *)
(* forced updates (engine/src/map/renderstate/TileState.ts,                *)
(* rendermanager/TileUpdateStrategy.ts, WorldRegionUpdateTask.ts,          *)
(* hires/HiresModelManager.ts).  The tile grid is shifted against the      *)
(* region grid, so a tile on a border is in the list of each region it     *)
(* reaches into, and reads chunks of all of them.                          *)
(*                                                                         *)
(* A version stands for the content of the tile's chunks in one region,    *)
(* and for their hash.  A cached chunk is not older than the hash its      *)
(* region was last scanned with: CacheNotOlderThanHash of ChunkGrid.       *)
(***************************************************************************)
EXTENDS Naturals

CONSTANTS
  Regions,     \* the regions the tile reaches into
  Renderable,  \* the versions that are generated, lit and inhabited
  MaxVersion   \* bound: changes of a region

Versions == 0 .. MaxVersion

ASSUME TileAssumption ==
  /\ MaxVersion \in Nat
  /\ Renderable \subseteq Versions

NoHash == MaxVersion + 1

VARIABLES
  world,    \* the version of each region in the world
  scanned,  \* the hash each region had when a #init last read it
  recorded, \* the hash in the chunk state of the map
  bounds,   \* where the tile lies, by the render mask of the settings
  state,    \* the state of the tile in the tile state of the map
  shown,    \* the tile in the storage: its versions and bounds, or Nothing
  task,     \* the update task of each region, as far as this tile goes
  visit,    \* the tile's passes since the bounds changed, for the properties
  spoiled   \* the storage failed on the tile, or tasks met on it, since it
            \* was last stored, for the properties

vars ==
  <<world, scanned, recorded, bounds, state, shown, task, visit, spoiled>>

Drawn == {"rendered", "rendered-edge"}

(* "not-generated" stands for the missing light and low inhabited time     *)
(* states too: they have the same resolver.                                *)
States == Drawn \cup {"unknown", "out-of-bounds", "not-generated",
                      "chunk-error", "render-error"}

Bounds == {"inside", "edge", "otherEdge", "outside"}
Strategies == {"none", "edge", "all"}
Contents == [Regions -> Versions]
Nothing == [of |-> [r \in Regions |-> 0], bounds |-> "outside"]

Idle == [at |-> "idle", alone |-> TRUE, force |-> "none", hash |-> NoHash,
         does |-> "none", result |-> "unknown",
         content |-> [r \in Regions |-> 0]]

TypeOK ==
  /\ world \in Contents
  /\ scanned \in Contents
  /\ recorded \in Contents
  /\ bounds \in Bounds
  /\ state \in States
  /\ shown \in [of : Contents, bounds : Bounds]
  /\ task \in [Regions ->
       [at : {"idle", "inited", "mesh", "write", "delete", "set", "processed"},
        alone : BOOLEAN, force : Strategies, hash : Versions \cup {NoHash},
        does : {"render", "delete", "none"}, result : States,
        content : Contents]]
  /\ visit \in {"no", "plain", "forced"}
  /\ spoiled \in BOOLEAN

Init ==
  /\ world \in Contents
  /\ scanned = [r \in Regions |-> 0]
  /\ recorded = [r \in Regions |-> 0]
  /\ bounds \in Bounds
  /\ state = "unknown"
  /\ shown = Nothing
  /\ task = [r \in Regions |-> Idle]
  /\ visit = "no"
  /\ spoiled = FALSE
------------------------------------------------------------------------------
(* TileState.findActionAndNextState, all resolvers: what to do with a tile *)
(* of state s, and its next state when that succeeds.                      *)
Target(b) ==
  CASE b = "inside"  -> "rendered"
    [] b = "outside" -> "out-of-bounds"
    [] OTHER         -> "rendered-edge"

ToTarget(b) ==
  [does |-> IF b = "outside" THEN "delete" ELSE "render", result |-> Target(b)]

FindActionByContent(s, changed, b) ==
  IF \/ s \in Drawn \cup {"not-generated", "chunk-error"} /\ ~changed
     \/ s = "out-of-bounds" /\ s = Target(b)
  THEN [does |-> "none", result |-> s]
  ELSE ToTarget(b)

FindAction(s, changed, b) ==
  IF \/ s \in Drawn /\ s = Target(b) /\ ~changed
     \/ s = "out-of-bounds" /\ s = Target(b)
     \/ s \in {"not-generated", "chunk-error"} /\ ~changed
  THEN [does |-> "none", result |-> s]
  ELSE ToTarget(b)

(* TileUpdateStrategy.test                                                 *)
Forced(strategy) ==
  \/ strategy = "all"
  \/ strategy = "edge" /\ state = "rendered-edge"

Put(r, t) == task' = [task EXCEPT ![r] = t]

Visited(strategy) ==
  visit' = IF strategy # "none" \/ visit = "forced" THEN "forced" ELSE "plain"

Busy(r) == {q \in Regions \ {r} : task[q].at # "idle"}

(* #init: the hashes, then the action of the tile.  A region with nothing  *)
(* to do in any of its tiles ends here.  The tasks of two regions meet on  *)
(* the tile when the second begins while the first is in its last tiles;   *)
(* they are of the same update and have its strategy.                      *)
InitTask(r, strategy) ==
  LET changed == Forced(strategy) \/ recorded[r] # world[r]
      found == FindAction(state, changed, bounds)
  IN  /\ task[r].at = "idle"
      /\ \A q \in Busy(r) : task[q].force = strategy
      /\ scanned' = [scanned EXCEPT ![r] = world[r]]
      /\ \/ /\ task' = [q \in Regions |->
                 IF q \in Busy(r) THEN [task[q] EXCEPT !.alone = FALSE]
                 ELSE IF q # r THEN task[q]
                 ELSE [Idle EXCEPT !.at = "inited", !.alone = (Busy(r) = {}),
                         !.force = strategy, !.hash = world[r],
                         !.does = found.does, !.result = found.result]]
            /\ UNCHANGED visit
         \/ /\ found.does = "none"
            /\ Visited(strategy)
            /\ UNCHANGED task
      /\ UNCHANGED <<world, recorded, bounds, state, shown, spoiled>>

(* What the chunk cache may answer for the window of the tile.             *)
Readable(content) ==
  \A r \in Regions : scanned[r] <= content[r] /\ content[r] <= world[r]

(* #processTile, up to the end of checkTileRenderPreconditions.            *)
Process(r) ==
  LET t == task[r]
      Then(at, result) == Put(r, [t EXCEPT !.at = at, !.result = result])
      chunksOk(content) == \A q \in Regions : content[q] \in Renderable
  IN  /\ t.at = "inited"
      /\ \/ t.does = "none" /\ Then("set", t.result)
         \/ t.does = "delete" /\ Then("delete", t.result)
         \/ t.does = "render" /\ Then("delete", "chunk-error")
         \/ /\ t.does = "render"
            /\ \E content \in Contents :
                 /\ Readable(content)
                 /\ IF chunksOk(content)
                    THEN Then("mesh", t.result)
                    ELSE Then("delete", "not-generated")
      /\ UNCHANGED <<world, scanned, recorded, bounds, state, shown, visit,
                 spoiled>>

(* HiresModelManager.render preloads and reads the chunks again; what it   *)
(* throws becomes a render error.                                          *)
Mesh(r) ==
  /\ task[r].at = "mesh"
  /\ \/ \E content \in Contents :
          /\ Readable(content)
          /\ Put(r, [task[r] EXCEPT !.at = "write", !.content = content])
     \/ Put(r, [task[r] EXCEPT !.at = "set", !.result = "render-error"])
  /\ UNCHANGED <<world, scanned, recorded, bounds, state, shown, visit,
                 spoiled>>

(* Both save and unrender log a failure of the storage and go on.          *)
Store(r) ==
  /\ task[r].at \in {"write", "delete"}
  /\ \/ /\ shown' = IF task[r].at = "delete" THEN Nothing
                     ELSE [of |-> task[r].content, bounds |-> bounds]
        /\ spoiled' = ~task[r].alone
     \/ UNCHANGED shown /\ spoiled' = TRUE
  /\ Put(r, [task[r] EXCEPT !.at = "set", !.content = Idle.content])
  /\ UNCHANGED <<world, scanned, recorded, bounds, state, visit>>

Processed(t) ==
  [Idle EXCEPT !.at = "processed", !.alone = t.alone, !.hash = t.hash,
               !.force = t.force]

SetStateAsPlanned(r) ==
  /\ task[r].at = "set"
  /\ state' = IF task[r].does = "render" THEN Target(bounds)
              ELSE task[r].result
  /\ Put(r, Processed(task[r]))
  /\ Visited(task[r].force)
  /\ spoiled' = (spoiled \/ ~task[r].alone)
  /\ UNCHANGED <<world, scanned, recorded, bounds, shown>>

SetState(r) ==
  /\ task[r].at = "set"
  /\ state' = task[r].result
  /\ Put(r, Processed(task[r]))
  /\ Visited(task[r].force)
  /\ spoiled' = (spoiled \/ ~task[r].alone)
  /\ UNCHANGED <<world, scanned, recorded, bounds, shown>>

Complete(r) ==
  /\ task[r].at = "processed"
  /\ recorded' = [recorded EXCEPT ![r] = task[r].hash]
  /\ Put(r, Idle)
  /\ UNCHANGED <<world, scanned, bounds, state, shown, visit, spoiled>>

(* A cancelled task claims no more tiles and does not complete.            *)
Cancel(r) ==
  /\ task[r].at \in {"inited", "processed"}
  /\ Put(r, Idle)
  /\ UNCHANGED <<world, scanned, recorded, bounds, state, shown, visit,
                 spoiled>>
------------------------------------------------------------------------------
WorldChanges(r) ==
  /\ world[r] < MaxVersion
  /\ world' = [world EXCEPT ![r] = @ + 1]
  /\ UNCHANGED <<scanned, recorded, bounds, state, shown, task, visit,
                 spoiled>>

(* The settings are read when a map is loaded, before anything runs on it. *)
BoundsChange(b) ==
  /\ b # bounds
  /\ \A r \in Regions : task[r].at = "idle"
  /\ bounds' = b
  /\ visit' = "no"
  /\ UNCHANGED <<world, scanned, recorded, state, shown, task, spoiled>>

Next ==
  \/ \E r \in Regions :
       \/ \E strategy \in Strategies : InitTask(r, strategy)
       \/ Process(r) \/ Mesh(r) \/ Store(r) \/ SetState(r) \/ Complete(r)
       \/ Cancel(r) \/ WorldChanges(r)
  \/ \E b \in Bounds : BoundsChange(b)

Spec == Init /\ [][Next]_vars
------------------------------------------------------------------------------
(* No task is between a change of the stored tile and of its state, and    *)
(* since it was last stored the storage has not failed on the tile (that   *)
(* is logged and the tile is said to be rendered) and no two tasks have    *)
(* met on it (either may then set the state of what the other has stored). *)
Settled == ~spoiled /\ \A r \in Regions : task[r].at # "set"

(* "a tile whose render threw and whose state was left alone is a tile the *)
(* next run will believe is fine" (#processTile): a tile that is said to   *)
(* be rendered is in the storage, and drawn from nothing older than what   *)
(* the chunk state says it was drawn from, in every region it reaches.     *)
TileShowsTheWorld ==
  Settled /\ state \in Drawn =>
    /\ shown # Nothing
    /\ \A r \in Regions : shown.of[r] >= recorded[r]

(* The render boundaries are obeyed after one update, and a forced one     *)
(* redraws the edges that were drawn for other boundaries                  *)
(* (TileUpdateStrategy, FORCE_EDGE).                                       *)
BoundsRespected ==
  Settled /\ visit # "no" =>
    /\ bounds = "outside" => shown = Nothing
    /\ state \in Drawn =>
         /\ state = Target(bounds)
         /\ visit = "forced" \/ bounds = "inside" => shown.bounds = bounds
==============================================================================
