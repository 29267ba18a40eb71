------------------------------ MODULE MapUpdate ------------------------------
(***************************************************************************)
(* One map update running in the pool: a CombinedRenderTask whose          *)
(* sub-tasks are region updates and saves (engine/src/map/rendermanager/   *)
(* CombinedRenderTask.ts, WorldRegionUpdateTask.ts, MapSaveTask.ts), and   *)
(* the map state it writes (engine/src/map/BmMap.ts).  The pool's part is  *)
(* what TaskTurns promises: workers call doWork() while hasMoreWork(), and *)
(* the update is retired when it has none and nobody is inside.            *)
(*                                                                         *)
(* Sub-tasks are 1 .. Subs; those in Saves are MapSaveTasks, the others    *)
(* update the region of the same number.  A version stands for the content *)
(* of a region's chunks and for the hash of that content.                  *)
(***************************************************************************)
EXTENDS Naturals, FiniteSets

CONSTANTS
  Workers,
  Subs,         \* number of sub-tasks
  Saves,        \* the sub-tasks that are saves
  Tiles,        \* tiles of a region, claimed in the order 1 .. Tiles
  MaxVersion,   \* bound: how often a region of the world changes
  MaxCrashes    \* bound: how often the process dies and resumes

ASSUME UpdateAssumption ==
  /\ IsFiniteSet(Workers)
  /\ Subs \in Nat \ {0}
  /\ Saves \subseteq 1 .. Subs
  /\ Tiles \in Nat \ {0}
  /\ MaxVersion \in Nat
  /\ MaxCrashes \in Nat

Regions == (1 .. Subs) \ Saves
Versions == 0 .. MaxVersion
NoHash == MaxVersion + 1

VARIABLES
  cursor,     \* CombinedRenderTask.#currentTaskIndex
  finished,   \* the pool has retired the update
  queueFile,  \* the cursor the render queue was last saved with
  crashes,
  pc,         \* where each worker is
  sub,        \* the sub-task whose doWork() a worker is inside, or 0
  tile,       \* the tile a worker has claimed, or 0
  saved,      \* MapSaveTask.#saved
  region,     \* the fields of each WorldRegionUpdateTask
  world,      \* the version of each region in the world
  started,    \* the world when the update began, for the properties
  overtaken,  \* regions completed during a save, or once the last save of
              \* the update had begun, for the properties
  drawn,      \* the version each tile was last drawn from
  failed,     \* tiles whose state is RENDER_ERROR, in memory
  recorded,   \* the hash in the chunk state of the map, in memory
  failedDisk, \* the tile state and the chunk state as last saved
  recordedDisk

poolVars == <<cursor, finished, pc, sub, tile>>
taskVars == <<saved, region>>
mapVars == <<drawn, failed, recorded>>
diskVars == <<queueFile, failedDisk, recordedDisk, crashes>>
worldVars == <<world, started, overtaken>>
vars == <<poolVars, taskVars, mapVars, diskVars, worldVars>>

FreshRegion ==
  [next |-> 0, atWork |-> 0, completed |-> FALSE, cancelled |-> FALSE,
   hash |-> NoHash, actions |-> {}]

(* "queued" waits in the claim chain, "init" runs #init inside it, "tile"  *)
(* is in #processTile, "complete" in #complete; "saveQueued", "saveTiles"  *)
(* and "saveChunks" are BmMap.save: in the save chain, and before each of  *)
(* the two writes that matter here.                                        *)
WorkerState == {"out", "queued", "init", "tile", "complete", "saveQueued",
                "saveTiles", "saveChunks"}

TypeOK ==
  /\ cursor \in 1 .. Subs + 1
  /\ finished \in BOOLEAN
  /\ queueFile \in 1 .. Subs + 1
  /\ crashes \in 0 .. MaxCrashes
  /\ pc \in [Workers -> WorkerState]
  /\ sub \in [Workers -> 0 .. Subs]
  /\ tile \in [Workers -> 0 .. Tiles]
  /\ saved \in [Saves -> BOOLEAN]
  /\ region \in [Regions -> [next : 0 .. Tiles, atWork : Nat,
                             completed : BOOLEAN, cancelled : BOOLEAN,
                             hash : Versions \cup {NoHash},
                             actions : SUBSET (1 .. Tiles)]]
  /\ world \in [Regions -> Versions]
  /\ started \in [Regions -> Versions]
  /\ overtaken \subseteq Regions
  /\ drawn \in [Regions -> [1 .. Tiles -> Versions]]
  /\ failed \in [Regions -> SUBSET (1 .. Tiles)]
  /\ failedDisk \in [Regions -> SUBSET (1 .. Tiles)]
  /\ recorded \in [Regions -> Versions]
  /\ recordedDisk \in [Regions -> Versions]

(* The map is up to date with version 0 of every region; the world may     *)
(* have moved on.                                                          *)
Init ==
  /\ cursor = 1
  /\ finished = FALSE
  /\ queueFile = 1
  /\ crashes = 0
  /\ pc = [w \in Workers |-> "out"]
  /\ sub = [w \in Workers |-> 0]
  /\ tile = [w \in Workers |-> 0]
  /\ saved = [s \in Saves |-> FALSE]
  /\ region = [r \in Regions |-> FreshRegion]
  /\ world \in [Regions -> Versions]
  /\ started = world
  /\ overtaken = {}
  /\ drawn = [r \in Regions |-> [t \in 1 .. Tiles |-> 0]]
  /\ failed = [r \in Regions |-> {}]
  /\ recorded = [r \in Regions |-> 0]
  /\ failedDisk = failed
  /\ recordedDisk = recorded
------------------------------------------------------------------------------
SubHasMoreWorkThoughCancelled(s) ==
  IF s \in Saves THEN ~saved[s]
  ELSE ~region[s].completed

SubHasMoreWork(s) ==
  IF s \in Saves THEN ~saved[s]
  ELSE ~region[s].completed /\ ~region[s].cancelled

HasMoreWork == cursor <= Subs

Inside == {w \in Workers : pc[w] # "out"}

Leave(w) ==
  /\ pc' = [pc EXCEPT ![w] = "out"]
  /\ sub' = [sub EXCEPT ![w] = 0]
  /\ tile' = [tile EXCEPT ![w] = 0]
  /\ UNCHANGED <<cursor, finished>>

(* CombinedRenderTask.doWork on an exhausted sub-task moves the cursor.    *)
MoveOn(w) ==
  /\ pc[w] = "out" /\ HasMoreWork
  /\ ~SubHasMoreWork(cursor)
  /\ cursor' = cursor + 1
  /\ UNCHANGED <<finished, pc, sub, tile, taskVars, mapVars, diskVars,
                 worldVars>>

EnterSub(w) ==
  /\ pc[w] = "out" /\ HasMoreWork
  /\ SubHasMoreWork(cursor)
  /\ sub' = [sub EXCEPT ![w] = cursor]
  /\ IF cursor \in Saves
     THEN /\ pc' = [pc EXCEPT ![w] = "saveQueued"]
          /\ saved' = [saved EXCEPT ![cursor] = TRUE]
     ELSE /\ pc' = [pc EXCEPT ![w] = "queued"]
          /\ UNCHANGED saved
  /\ UNCHANGED <<cursor, finished, tile, region, mapVars, diskVars, worldVars>>

RetireUnderOthers ==
  /\ ~finished /\ ~HasMoreWork
  /\ finished' = TRUE
  /\ UNCHANGED <<cursor, pc, sub, tile, taskVars, mapVars, diskVars,
                 worldVars>>

Retire ==
  /\ ~finished /\ ~HasMoreWork /\ Inside = {}
  /\ finished' = TRUE
  /\ UNCHANGED <<cursor, pc, sub, tile, taskVars, mapVars, diskVars,
                 worldVars>>
------------------------------------------------------------------------------
(* WorldRegionUpdateTask.doWork: claim a tile, process it, complete.       *)

Stopped(r) == region[r].completed \/ region[r].cancelled

(* The claim chain lets one claim run at a time; only a claim that runs    *)
(* #init holds it across an await.                                         *)
ChainFree(r) == ~\E v \in Workers : pc[v] = "init" /\ sub[v] = r

Advanced(f) ==
  [f EXCEPT !.next = @ + 1, !.atWork = @ + 1,
            !.completed = (f.next + 1 >= Tiles)]

TakeTile(w, f) ==
  /\ region' = [region EXCEPT ![sub[w]] = Advanced(f)]
  /\ tile' = [tile EXCEPT ![w] = f.next + 1]
  /\ pc' = [pc EXCEPT ![w] = "tile"]
  /\ UNCHANGED <<cursor, finished, sub>>

ClaimNothing(w) ==
  /\ pc[w] = "queued" /\ ChainFree(sub[w])
  /\ Stopped(sub[w])
  /\ Leave(w)
  /\ UNCHANGED <<taskVars, mapVars, diskVars, worldVars>>

ClaimNext(w) ==
  /\ pc[w] = "queued" /\ ChainFree(sub[w])
  /\ ~Stopped(sub[w]) /\ region[sub[w]].next > 0
  /\ TakeTile(w, region[sub[w]])
  /\ UNCHANGED <<saved, mapVars, diskVars, worldVars>>

(* The first claim reads the hashes the region has now.                    *)
ClaimFirstUnchained(w) ==
  /\ pc[w] = "queued"
  /\ ~Stopped(sub[w]) /\ region[sub[w]].next = 0
  /\ region' = [region EXCEPT ![sub[w]].hash = world[sub[w]]]
  /\ pc' = [pc EXCEPT ![w] = "init"]
  /\ UNCHANGED <<cursor, finished, sub, tile, saved, mapVars, diskVars,
                 worldVars>>

ClaimFirst(w) ==
  /\ pc[w] = "queued" /\ ChainFree(sub[w])
  /\ ~Stopped(sub[w]) /\ region[sub[w]].next = 0
  /\ region' = [region EXCEPT ![sub[w]].hash = world[sub[w]]]
  /\ pc' = [pc EXCEPT ![w] = "init"]
  /\ UNCHANGED <<cursor, finished, sub, tile, saved, mapVars, diskVars,
                 worldVars>>

InitFails(w) ==
  /\ pc[w] = "init"
  /\ region' = [region EXCEPT ![sub[w]].cancelled = TRUE]
  /\ Leave(w)
  /\ UNCHANGED <<saved, mapVars, diskVars, worldVars>>

(* The tiles to draw: all of them when the hash has changed, and those     *)
(* that failed in any case.                                                *)
TileActions(r) ==
  IF region[r].hash # recorded[r] THEN 1 .. Tiles ELSE failed[r]

(* The claim that ran #init read the tile cursor before it.                *)
FinishInit(w) ==
  LET r == sub[w]
      f == [region[r] EXCEPT !.actions = TileActions(r), !.next = 0]
  IN  /\ pc[w] = "init"
      /\ \/ /\ f.actions = {}
            /\ region' = [region EXCEPT ![r] = [f EXCEPT !.completed = TRUE]]
            /\ Leave(w)
         \/ /\ f.actions # {} /\ Stopped(r)
            /\ region' = [region EXCEPT ![r] = f]
            /\ Leave(w)
         \/ /\ f.actions # {} /\ ~Stopped(r)
            /\ TakeTile(w, f)
      /\ UNCHANGED <<saved, mapVars, diskVars, worldVars>>

(* #processTile writes a tile state on every path.  #init invalidated the  *)
(* cached chunks, so what is drawn is no older than the hash.  Leaving,    *)
(* the last worker of an exhausted region that was not cancelled completes *)
(* it.                                                                     *)
LeaveTile(w, f) ==
  IF f.atWork = 0 /\ f.completed /\ ~f.cancelled
  THEN /\ pc' = [pc EXCEPT ![w] = "complete"]
       /\ tile' = [tile EXCEPT ![w] = 0]
       /\ UNCHANGED <<cursor, finished, sub>>
  ELSE Leave(w)

ProcessTileLeavingState(w) ==
  LET r == sub[w]
      t == tile[w]
      f == [region[r] EXCEPT !.atWork = @ - 1]
  IN  /\ pc[w] = "tile"
      /\ \/ /\ t \notin f.actions
            /\ UNCHANGED <<drawn, failed>>
         \/ /\ t \in f.actions
            /\ \E v \in f.hash .. world[r] :
                 drawn' = [drawn EXCEPT ![r][t] = v]
            /\ failed' = [failed EXCEPT ![r] = @ \ {t}]
         \/ /\ t \in f.actions
            /\ UNCHANGED <<drawn, failed>>
      /\ region' = [region EXCEPT ![r] = f]
      /\ LeaveTile(w, f)
      /\ UNCHANGED <<saved, recorded, diskVars, worldVars>>

ProcessTile(w) ==
  LET r == sub[w]
      t == tile[w]
      f == [region[r] EXCEPT !.atWork = @ - 1]
  IN  /\ pc[w] = "tile"
      /\ \/ /\ t \notin f.actions
            /\ UNCHANGED <<drawn, failed>>
         \/ /\ t \in f.actions
            /\ \E v \in f.hash .. world[r] :
                 drawn' = [drawn EXCEPT ![r][t] = v]
            /\ failed' = [failed EXCEPT ![r] = @ \ {t}]
         \/ /\ t \in f.actions
            /\ failed' = [failed EXCEPT ![r] = @ \cup {t}]
            /\ UNCHANGED drawn
      /\ region' = [region EXCEPT ![r] = f]
      /\ LeaveTile(w, f)
      /\ UNCHANGED <<saved, recorded, diskVars, worldVars>>

Overtake(r) ==
  overtaken' =
    IF \/ \E v \in Workers : pc[v] \in {"saveTiles", "saveChunks"}
       \/ Subs \in Saves /\ saved[Subs]
    THEN overtaken \cup {r} ELSE overtaken

(* #complete: the hashes of #init are recorded, and a save may be due.     *)
CompleteRereading(w) ==
  LET r == sub[w]
  IN  /\ pc[w] = "complete"
      /\ recorded' = [recorded EXCEPT ![r] = world[r]]
      /\ region' = [region EXCEPT ![r].hash = NoHash]
      /\ \/ Leave(w)
         \/ /\ pc' = [pc EXCEPT ![w] = "saveQueued"]
            /\ UNCHANGED <<cursor, finished, sub, tile>>
      /\ Overtake(r)
      /\ UNCHANGED <<saved, drawn, failed, diskVars, world, started>>

Complete(w) ==
  LET r == sub[w]
  IN  /\ pc[w] = "complete"
      /\ recorded' = [recorded EXCEPT ![r] = IF region[r].hash = NoHash
                                             THEN @ ELSE region[r].hash]
      /\ region' = [region EXCEPT ![r].hash = NoHash]
      /\ \/ Leave(w)
         \/ /\ pc' = [pc EXCEPT ![w] = "saveQueued"]
            /\ UNCHANGED <<cursor, finished, sub, tile>>
      /\ Overtake(r)
      /\ UNCHANGED <<saved, drawn, failed, diskVars, world, started>>
------------------------------------------------------------------------------
(* BmMap.save, one at a time: the tile state first, then the chunk state.  *)

StartSaveIfDue(w) ==
  /\ pc[w] = "saveQueued"
  /\ \/ /\ ~\E v \in Workers : pc[v] \in {"saveTiles", "saveChunks"}
        /\ pc' = [pc EXCEPT ![w] = "saveTiles"]
        /\ UNCHANGED <<cursor, finished, sub, tile>>
     \/ Leave(w)
  /\ UNCHANGED <<taskVars, mapVars, diskVars, worldVars>>

StartSave(w) ==
  /\ pc[w] = "saveQueued"
  /\ ~\E v \in Workers : pc[v] \in {"saveTiles", "saveChunks"}
  /\ pc' = [pc EXCEPT ![w] = "saveTiles"]
  /\ UNCHANGED <<cursor, finished, sub, tile, taskVars, mapVars, diskVars,
                 worldVars>>

SaveTiles(w) ==
  /\ pc[w] = "saveTiles"
  /\ failedDisk' = failed
  /\ pc' = [pc EXCEPT ![w] = "saveChunks"]
  /\ UNCHANGED <<cursor, finished, sub, tile, taskVars, mapVars, queueFile,
                 recordedDisk, crashes, worldVars>>

SaveChunks(w) ==
  /\ pc[w] = "saveChunks"
  /\ recordedDisk' = recorded
  /\ Leave(w)
  /\ UNCHANGED <<taskVars, mapVars, queueFile, failedDisk, crashes, worldVars>>
------------------------------------------------------------------------------
(* The surroundings.                                                       *)

Cancel ==
  /\ ~finished
  /\ saved' = [s \in Saves |-> TRUE]
  /\ region' = [r \in Regions |-> [region[r] EXCEPT !.cancelled = TRUE]]
  /\ UNCHANGED <<poolVars, mapVars, diskVars, worldVars>>

WorldChanges(r) ==
  /\ world[r] < MaxVersion
  /\ world' = [world EXCEPT ![r] = @ + 1]
  /\ UNCHANGED <<poolVars, taskVars, mapVars, diskVars, started, overtaken>>

(* Only a crash reads the queue file: without one to come, its content is  *)
(* left alone.                                                             *)
SaveQueue ==
  /\ ~finished
  /\ crashes < MaxCrashes
  /\ queueFile' = cursor
  /\ UNCHANGED <<poolVars, taskVars, mapVars, failedDisk, recordedDisk,
                 crashes, worldVars>>

(* The process dies; the next one restores the update with the saved       *)
(* cursor and the map state from disk.  Drawn tiles are written as they    *)
(* are drawn and survive.                                                  *)
Crash ==
  /\ ~finished
  /\ crashes < MaxCrashes
  /\ crashes' = crashes + 1
  /\ cursor' = queueFile
  /\ pc' = [w \in Workers |-> "out"]
  /\ sub' = [w \in Workers |-> 0]
  /\ tile' = [w \in Workers |-> 0]
  /\ saved' = [s \in Saves |-> FALSE]
  /\ region' = [r \in Regions |-> FreshRegion]
  /\ failed' = failedDisk
  /\ recorded' = recordedDisk
  /\ UNCHANGED <<finished, drawn, queueFile, failedDisk, recordedDisk,
                 worldVars>>
------------------------------------------------------------------------------
Work(w) ==
  \/ MoveOn(w) \/ EnterSub(w)
  \/ ClaimNothing(w) \/ ClaimNext(w) \/ ClaimFirst(w)
  \/ FinishInit(w) \/ ProcessTile(w) \/ Complete(w)
  \/ StartSave(w) \/ SaveTiles(w) \/ SaveChunks(w)

Surroundings ==
  \/ Cancel
  \/ SaveQueue
  \/ Crash
  \/ \E r \in Regions : WorldChanges(r)

Done == finished /\ UNCHANGED vars

Next ==
  \/ Retire
  \/ \E w \in Workers : Work(w) \/ InitFails(w)
  \/ Surroundings
  \/ Done

Spec == Init /\ [][Next]_vars

FairSpec ==
  /\ Spec
  /\ WF_vars(Retire)
  /\ \A w \in Workers : WF_vars(Work(w))
------------------------------------------------------------------------------
(* A worker completes a region when no other one is inside it any more,    *)
(* and alone, with the hashes #init read.                                  *)
CompletedByTheLast ==
  \A w \in Workers : pc[w] = "complete" =>
    /\ region[sub[w]].hash # NoHash
    /\ region[sub[w]].atWork = 0
    /\ \A v \in Workers : sub[v] = sub[w] /\ pc[v] \in {"complete", "tile"}
                          => v = w

(* No two workers process the same tile, and atWork counts the workers in  *)
(* #processTile, though the first claim awaits #init.                      *)
ClaimedByOne ==
  \A r \in Regions :
    LET atTile == {w \in Workers : sub[w] = r /\ pc[w] = "tile"}
    IN  /\ region[r].atWork = Cardinality(atTile)
        /\ \A v, w \in atTile : v # w => tile[v] # tile[w]

(* The claim chain and the worker count share a region out: every tile is  *)
(* processed by one worker, and the last of them completes the region,     *)
(* once (#claimTile, and the `finally` of #doWork).                        *)
WorkIsSharedOut == ClaimedByOne /\ CompletedByTheLast

(* Regions that a crash has made forget what failed in them.               *)
Forgotten == IF crashes = 0 THEN {} ELSE overtaken

(* The recorded hash is never newer than what any tile of the region shows *)
(* unless that tile is marked as failed: a change that arrives while the   *)
(* region renders is seen by the next update.                              *)
RecordedNotNewerThanDrawn ==
  \A r \in Regions \ Forgotten : \A t \in 1 .. Tiles :
    t \in failed[r] \/ recorded[r] <= drawn[r][t]

(* The same of what a crash leaves: a tile that failed and is behind the   *)
(* hash on disk is marked as failed on disk.  The comment on #processTile: *)
(* "a tile whose render threw and whose state was left alone is a tile the *)
(* next run will believe is fine".  A region that completes between the    *)
(* two writes of a save is the exception.                                  *)
DiskRemembersFailures ==
  \A r \in Regions \ overtaken : \A t \in 1 .. Tiles :
    t \in failedDisk[r] \/ recordedDisk[r] <= drawn[r][t]

(* An update that nobody cancelled has, when the pool retires it, drawn    *)
(* every tile from a world no older than the one it found, or marked the   *)
(* tile as failed; after a crash it may instead have left the region for   *)
(* the next update to find changed.  The pool's turns, the claim chain and *)
(* the cursors leave no tile out.                                          *)
UpdateDrawsWhatItFound ==
  finished => \A r \in Regions \ Forgotten : \A t \in 1 .. Tiles :
    \/ region[r].cancelled
    \/ t \in failed[r]
    \/ drawn[r][t] >= started[r]
    \/ crashes > 0 /\ recorded[r] < started[r]

(* "the saves really do bracket the updates" (CombinedRenderTask): when an *)
(* update that nobody cancelled ends with a save, what its regions         *)
(* recorded is on disk; except for what the last workers completed after   *)
(* that save had begun.                                                    *)
TrailingSaveCovers ==
  finished /\ Subs \in Saves /\ (\A r \in Regions : ~region[r].cancelled)
    => \A r \in Regions \ overtaken : recordedDisk[r] = recorded[r]

(* Every update is retired in the end, cancelled or not, whatever fails:   *)
(* no region is left with a worker count that keeps it open.               *)
UpdateFinishes == <>finished
==============================================================================
