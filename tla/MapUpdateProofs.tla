--------------------------- MODULE MapUpdateProofs ---------------------------
(***************************************************************************)
(* Theorems about MapUpdate, for any number of workers, sub-tasks, tiles,  *)
(* changes of the world and crashes.                                       *)
(*                                                                         *)
(* Three invariants carry them, each resting on the one before.  Shared:   *)
(* the claim chain and the worker count hand every tile of a region to one *)
(* worker and the region to the last of them.  DrawnInv: a tile of a       *)
(* region that is being updated has failed, is as new as the hash #init    *)
(* read, or is still to be drawn, so that nothing is to be drawn when that *)
(* hash is recorded.  EndInv: the cursor passes over no region that is not *)
(* done, and the save that ends the update finds everything recorded.      *)
(***************************************************************************)
EXTENDS MapUpdate, FiniteSetTheorems, TLAPS

(* The workers in #processTile.                                            *)
AtTile(r) == {w \in Workers : sub[w] = r /\ pc[w] = "tile"}

(* Workers in a region, and what they rely on.                             *)
Placed(w) ==
  LET f == region[sub[w]]
  IN  /\ pc[w] \in {"queued", "init", "tile", "complete"}
           => sub[w] \in Regions
      /\ pc[w] = "init" => f.next = 0 /\ f.hash # NoHash
      /\ pc[w] = "tile" => tile[w] \in 1 .. f.next /\ f.hash # NoHash
      /\ pc[w] = "complete" =>
           f.next > 0 /\ f.completed /\ f.atWork = 0 /\ f.hash # NoHash

Places == \A w \in Workers : Placed(w)

(* Two workers of one region.                                              *)
Together(v, w) ==
  /\ pc[v] = "init" => pc[w] # "init"
  /\ pc[v] = "complete" => pc[w] \notin {"complete", "tile"}
  /\ pc[v] = "tile" /\ pc[w] = "tile" => tile[v] # tile[w]

Neighbours ==
  \A v, w \in Workers : v # w /\ sub[v] = sub[w] => Together(v, w)

(* The cursor over the tiles of a region.                                  *)
CursorFits(f) ==
  /\ ~f.completed => f.next < Tiles
  /\ f.completed /\ f.next > 0 => f.next = Tiles
  /\ ~f.completed /\ f.next > 0 => f.hash # NoHash

Cursors ==
  \A r \in Regions :
    CursorFits(region[r]) /\ region[r].atWork = Cardinality(AtTile(r))

(* How the versions of a region compare.                                   *)
Aged(r) ==
  /\ recordedDisk[r] <= recorded[r]
  /\ recorded[r] <= world[r]
  /\ started[r] <= world[r]
  /\ region[r].hash # NoHash =>
       /\ recorded[r] <= region[r].hash
       /\ started[r] <= region[r].hash
       /\ region[r].hash <= world[r]

Ages == \A r \in Regions : Aged(r)

(* A tile that some worker still has to draw, or is drawing.               *)
ToDraw(r, t) ==
  /\ t \in region[r].actions
  /\ t > region[r].next \/ \E w \in AtTile(r) : tile[w] = t

Settled(r, t) ==
  t \in failed[r] \/ region[r].hash <= drawn[r][t] \/ ToDraw(r, t)

Progress ==
  \A r \in Regions \ Forgotten :
    region[r].next > 0 /\ region[r].hash # NoHash
      => \A t \in 1 .. Tiles : Settled(r, t)

(* Between the two writes of a save.                                       *)
HalfSaved ==
  \A w \in Workers : pc[w] = "saveChunks" =>
    \A r \in Regions \ overtaken : \A t \in 1 .. Tiles :
      t \in failedDisk[r] \/ recorded[r] <= drawn[r][t]

Within(r, stages) == \E w \in Workers : sub[w] = r /\ pc[w] \in stages

(* An update passes over no region, and what it has completed is recorded. *)
Passed ==
  crashes = 0 => \A r \in Regions :
    /\ r < cursor => Stopped(r)
    /\ region[r].completed =>
         \/ region[r].cancelled
         \/ started[r] <= recorded[r]
         \/ Within(r, {"tile", "complete"})

RetiredLast == finished => cursor > Subs /\ Inside = {}

SaveStages == {"saveQueued", "saveTiles", "saveChunks"}

(* The save that ends the update.  A crash may have come between it and    *)
(* the cursor, and then nobody is left to work.                            *)
LastSave ==
  Subs \in Saves =>
    /\ cursor > Subs => saved[Subs] \/ Inside = {}
    /\ saved[Subs] \/ cursor > Subs =>
         \/ Within(Subs, SaveStages)
         \/ \E r \in Regions : region[r].cancelled
         \/ \A r \in Regions \ overtaken : recordedDisk[r] = recorded[r]

EndInv == Passed /\ RetiredLast /\ LastSave
------------------------------------------------------------------------------
LEMMA Numbers ==
  /\ Subs \in Nat /\ Subs > 0 /\ Tiles \in Nat /\ Tiles > 0
  /\ MaxVersion \in Nat
  /\ MaxCrashes \in Nat
  /\ Regions \subseteq 1 .. Subs /\ 0 \notin Regions /\ Saves \cap Regions = {}
  /\ NoHash \notin Versions /\ NoHash \in Nat /\ Versions \subseteq Nat
  BY UpdateAssumption DEF Regions, NoHash, Versions

LEMMA AtTileFinite ==
  ASSUME NEW r
  PROVE  /\ IsFiniteSet(AtTile(r)) /\ Cardinality(AtTile(r)) \in Nat
         /\ AtTile(r) = {} <=> Cardinality(AtTile(r)) = 0
<1>1. AtTile(r) \in SUBSET Workers
  BY DEF AtTile
<1> QED BY <1>1, UpdateAssumption, FS_Subset, FS_CardinalityType, FS_EmptySet

(* The fields of a WorldRegionUpdateTask.                                  *)
Fields ==
  [next : 0 .. Tiles, atWork : Nat, completed : BOOLEAN, cancelled : BOOLEAN,
   hash : Versions \cup {NoHash}, actions : SUBSET (1 .. Tiles)]

LEMMA Taking ==
  ASSUME NEW f \in Fields, f.next < Tiles
  PROVE  LET g == Advanced(f)
         IN  /\ g \in Fields
             /\ g.next = f.next + 1 /\ g.atWork = f.atWork + 1
             /\ g.completed <=> f.next + 1 >= Tiles
             /\ g.hash = f.hash /\ g.actions = f.actions
             /\ g.cancelled = f.cancelled
<1> DEFINE b == f.next + 1 >= Tiles
<1>1. b \in BOOLEAN /\ f.next + 1 \in 0 .. Tiles /\ f.atWork + 1 \in Nat
  BY Numbers DEF Fields
<1>2. Advanced(f) = [f EXCEPT !.next = f.next + 1, !.atWork = f.atWork + 1,
                             !.completed = b]
  BY DEF Advanced
<1>3. b <=> f.next + 1 >= Tiles
  OBVIOUS
<1> HIDE DEF b
<1> QED BY <1>1, <1>2, <1>3 DEF Fields

Resting == WorkerState \ {"init", "tile", "complete"}

WorkTypes ==
  /\ region \in [Regions -> Fields]
  /\ pc \in [Workers -> WorkerState]
  /\ sub \in [Workers -> 0 .. Subs]
  /\ tile \in [Workers -> 0 .. Tiles]

Shared == WorkTypes /\ Places /\ Neighbours /\ Cursors

------------------------------------------------------------------------------
(* What a step does to the worker who takes it: it goes to p, with tile t, *)
(* and its region has the fields g.                                        *)
Turn(w, p, t, g) ==
  /\ pc' = [pc EXCEPT ![w] = p]
  /\ sub' = IF p = "out" THEN [sub EXCEPT ![w] = 0] ELSE sub
  /\ tile' = [tile EXCEPT ![w] = t]
  /\ region' = [region EXCEPT ![sub[w]] = g]

(* A worker takes the next tile of its region, where none was at #init.    *)
Takes(w, f) ==
  LET r == sub[w]
  IN  /\ r \in Regions /\ pc[w] \in {"queued", "init"}
      /\ f \in Fields /\ f.next < Tiles /\ f.hash # NoHash
      /\ f.atWork = region[r].atWork /\ f.next = region[r].next
      /\ \A v \in Workers : v # w /\ sub[v] = r
             => pc[v] \notin {"init", "complete"}
      /\ Turn(w, "tile", f.next + 1, Advanced(f))

LEMMA TakesShares ==
  ASSUME Shared, NEW w \in Workers, NEW f, Takes(w, f)
  PROVE  Shared'
<1> PICK r, g : r = sub[w] /\ g = Advanced(f)
  OBVIOUS
<1>1. /\ g \in Fields
      /\ g.next = f.next + 1 /\ g.atWork = f.atWork + 1
      /\ g.completed <=> f.next + 1 >= Tiles
      /\ g.hash = f.hash
  BY Taking DEF Takes
<1>2. /\ r \in Regions /\ pc[w] \in {"queued", "init"} /\ f \in Fields
      /\ f.next < Tiles
      /\ f.hash # NoHash /\ f.next \in Nat
      /\ f.atWork = region[r].atWork /\ f.next = region[r].next
      /\ \A v \in Workers : v # w /\ sub[v] = r
             => pc[v] \notin {"init", "complete"}
  BY Numbers DEF Takes, Fields
<1>3. /\ pc' = [pc EXCEPT ![w] = "tile"] /\ sub' = sub
      /\ tile' = [tile EXCEPT ![w] = f.next + 1]
      /\ region' = [region EXCEPT ![r] = g]
  BY DEF Takes, Turn
<1>4. /\ region \in [Regions -> Fields] /\ pc \in [Workers -> WorkerState]
      /\ sub \in [Workers -> 0 .. Subs] /\ tile \in [Workers -> 0 .. Tiles]
  BY DEF Shared, WorkTypes
<1>5. /\ region' \in [Regions -> Fields]
      /\ pc' \in [Workers -> WorkerState] /\ sub' \in [Workers -> 0 .. Subs]
      /\ tile' \in [Workers -> 0 .. Tiles]
  BY <1>1, <1>2, <1>3, <1>4, Numbers DEF WorkerState
<1>6. Places'
  BY <1>1, <1>2, <1>3, <1>4 DEF Shared, Places, Placed
<1>7. Neighbours'
  BY <1>1, <1>2, <1>3, <1>4 DEF Shared, Neighbours, Together, Places, Placed
<1>8. Cursors'
  <2>1. AtTile(r)' = AtTile(r) \cup {w} /\ w \notin AtTile(r)
    BY <1>2, <1>3, <1>4 DEF AtTile
  <2>2. \A q \in Regions : q # r => AtTile(q)' = AtTile(q)
    BY <1>2, <1>3, <1>4 DEF AtTile
  <2>3. Cardinality(AtTile(r)') = Cardinality(AtTile(r)) + 1
    BY <2>1, AtTileFinite, FS_AddElement
  <2>4. region'[r] = g /\ \A q \in Regions : q # r => region'[q] = region[q]
    BY <1>2, <1>3, <1>4
  <2>5. g.atWork = Cardinality(AtTile(r)')
    BY <1>1, <1>2, <2>3 DEF Shared, Cursors
  <2>6. CursorFits(g)
    BY <1>1, <1>2, Numbers DEF CursorFits
  <2> QED BY <2>2, <2>4, <2>5, <2>6 DEF Shared, Cursors
<1> QED BY <1>5, <1>6, <1>7, <1>8 DEF Shared, WorkTypes

(* A worker who holds nothing of a region stays so.                        *)
Rests(w) ==
  /\ pc[w] \in Resting
  /\ \E p \in Resting, s \in 0 .. Subs, t \in 0 .. Tiles :
       /\ pc' = [pc EXCEPT ![w] = p]
       /\ sub' = [sub EXCEPT ![w] = s]
       /\ tile' = [tile EXCEPT ![w] = t]
       /\ p = "queued" => s \in Regions
  /\ region' = region

LEMMA RestsShares ==
  ASSUME Shared, NEW w \in Workers, Rests(w)
  PROVE  Shared'
<1> PICK p \in Resting, s \in 0 .. Subs, t \in 0 .. Tiles :
       /\ pc' = [pc EXCEPT ![w] = p]
       /\ sub' = [sub EXCEPT ![w] = s]
       /\ tile' = [tile EXCEPT ![w] = t]
       /\ p = "queued" => s \in Regions
  BY DEF Rests
<1>1. WorkTypes'
  BY DEF Shared, WorkTypes, Rests, Resting
<1>2. Places'
  BY DEF Shared, WorkTypes, Rests, Resting, Places, Placed
<1>3. Neighbours'
  BY DEF Shared, WorkTypes, Rests, Resting, Neighbours, Together
<1>4. \A r \in Regions : AtTile(r)' = AtTile(r)
  BY DEF Shared, WorkTypes, Rests, Resting, AtTile
<1>5. Cursors'
  BY <1>4 DEF Shared, Rests, Cursors
<1> QED BY <1>1, <1>2, <1>3, <1>5 DEF Shared

(* The first claim of a region goes into #init.                            *)
Begins(w, g) ==
  LET r == sub[w]
      f == region[r]
  IN  /\ pc[w] = "queued" /\ f.next = 0
      /\ \A v \in Workers : sub[v] = r => pc[v] # "init"
      /\ g \in Fields /\ g.hash # NoHash
      /\ g.next = f.next /\ g.atWork = f.atWork /\ g.completed = f.completed
      /\ Turn(w, "init", tile[w], g)

LEMMA BeginsShares ==
  ASSUME Shared, NEW w \in Workers, NEW g, Begins(w, g)
  PROVE  Shared'
<1>1. WorkTypes'
  BY DEF Shared, WorkTypes, Begins, Turn, WorkerState
<1>2. sub[w] \in Regions
  BY DEF Shared, Places, Placed, Begins
<1>3. Places'
  BY <1>2, Numbers DEF Shared, WorkTypes, Begins, Turn, Places, Placed
<1>4. Neighbours'
  BY <1>2 DEF Shared, WorkTypes, Begins, Turn, Neighbours, Together
<1>5. \A r \in Regions : AtTile(r)' = AtTile(r)
  BY <1>2 DEF Shared, WorkTypes, Begins, Turn, AtTile
<1>6. Cursors'
  <2>1. /\ region'[sub[w]] = g /\ g.next = 0
        /\ \A q \in Regions : q # sub[w] => region'[q] = region[q]
    BY <1>2 DEF Shared, WorkTypes, Begins, Turn
  <2>2. CursorFits(g) /\ g.atWork = Cardinality(AtTile(sub[w]))
    BY <1>2, <2>1, Numbers DEF Shared, Cursors, CursorFits, Begins
  <2> QED BY <1>2, <1>5, <2>1, <2>2 DEF Shared, Cursors
<1> QED BY <1>1, <1>3, <1>4, <1>6 DEF Shared

(* Whoever was in #init or in #complete leaves the region.                 *)
Leaves(w, p, g) ==
  LET f == region[sub[w]]
  IN  /\ pc[w] \in {"init", "complete"} /\ p \in {"out", "saveQueued"}
      /\ g \in Fields
      /\ g.next = f.next /\ g.atWork = f.atWork
      /\ pc[w] = "init" => g.hash = f.hash /\ (f.completed => g.completed)
      /\ pc[w] = "complete" => g.completed = f.completed
      /\ \E t \in 0 .. Tiles : Turn(w, p, t, g)

LEMMA LeavesShares ==
  ASSUME Shared, NEW w \in Workers, NEW p, NEW g, Leaves(w, p, g)
  PROVE  Shared'
<1> PICK r, f : r = sub[w] /\ f = region[r]
  OBVIOUS
<1>1. r \in Regions /\ f \in Fields
  BY DEF Shared, WorkTypes, Places, Placed, Leaves
<1>2. WorkTypes'
  <2> PICK t \in 0 .. Tiles : Turn(w, p, t, g)
    BY DEF Leaves
  <2> QED BY <1>1, Numbers DEF Shared, WorkTypes, Leaves, Turn, WorkerState
<1>3. /\ region'[r] = g /\ \A q \in Regions : q # r => region'[q] = region[q]
      /\ pc'[w] \in {"out", "saveQueued"}
      /\ \A v \in Workers : v # w => /\ pc'[v] = pc[v] /\ sub'[v] = sub[v]
                                     /\ tile'[v] = tile[v]
  BY <1>1 DEF Shared, WorkTypes, Leaves, Turn
<1>4. \A v \in Workers : v # w /\ sub[v] = r =>
        /\ pc[w] = "init" => pc[v] \notin {"init", "tile", "complete"}
        /\ pc[w] = "complete" => pc[v] \notin {"init", "tile", "complete"}
  BY <1>1, Numbers DEF Shared, Places, Placed, Neighbours, Together, Fields
<1>5. Places'
  <2> SUFFICES ASSUME NEW v \in Workers PROVE Placed(v)'
    BY DEF Places
  <2>1. CASE v = w
    BY <1>3, <2>1 DEF Placed
  <2>2. CASE v # w /\ sub[v] = r
    BY <1>1, <1>3, <1>4, <2>2 DEF Leaves, Placed
  <2>3. CASE v # w /\ sub[v] # r
    BY <1>3, <2>3 DEF Shared, Places, Placed
  <2> QED BY <2>1, <2>2, <2>3
<1>6. Neighbours'
  BY <1>3 DEF Shared, Neighbours, Together
<1>7. \A q \in Regions : AtTile(q)' = AtTile(q)
  BY <1>3 DEF Shared, WorkTypes, Leaves, Turn, AtTile
<1>8. Cursors'
  <2>1. CursorFits(g) /\ g.atWork = Cardinality(AtTile(r))
    BY <1>1, Numbers DEF Shared, Leaves, Cursors, CursorFits, Places, Placed
  <2> QED BY <1>1, <1>3, <1>7, <2>1 DEF Shared, Cursors
<1> QED BY <1>2, <1>5, <1>6, <1>8 DEF Shared

(* A tile is done: its worker leaves, or completes the region.             *)
Finishes(w, p, g) ==
  LET f == region[sub[w]]
  IN  /\ pc[w] = "tile" /\ p \in {"out", "complete"}
      /\ g = [f EXCEPT !.atWork = @ - 1]
      /\ p = "complete" => g.atWork = 0 /\ g.completed
      /\ \E t \in 0 .. Tiles : Turn(w, p, t, g)

LEMMA FinishesShares ==
  ASSUME Shared, NEW w \in Workers, NEW p, NEW g, Finishes(w, p, g)
  PROVE  Shared'
<1> PICK r, f : r = sub[w] /\ f = region[r]
  OBVIOUS
<1>1. r \in Regions /\ f \in Fields /\ w \in AtTile(r)
  BY DEF Shared, WorkTypes, Places, Placed, Finishes, AtTile
<1>2. f.atWork = Cardinality(AtTile(r)) /\ f.atWork > 0 /\ f.atWork \in Nat
  BY <1>1, AtTileFinite DEF Shared, Cursors, Fields
<1>3. /\ g \in Fields /\ g.atWork = f.atWork - 1
      /\ g.next = f.next /\ g.completed = f.completed /\ g.hash = f.hash
  BY <1>1, <1>2 DEF Finishes, Fields
<1>4. WorkTypes'
  <2> PICK t \in 0 .. Tiles : Turn(w, p, t, g)
    BY DEF Finishes
  <2>1. p \in WorkerState
    BY DEF Finishes, WorkerState
  <2> QED BY <1>1, <1>3, <2>1, Numbers DEF Shared, WorkTypes, Turn
<1>5. /\ region'[r] = g /\ \A q \in Regions : q # r => region'[q] = region[q]
      /\ pc'[w] = p /\ p \in {"out", "complete"}
      /\ p = "complete" => sub'[w] = r
      /\ \A v \in Workers : v # w => /\ pc'[v] = pc[v] /\ sub'[v] = sub[v]
                                     /\ tile'[v] = tile[v]
  BY <1>1 DEF Shared, WorkTypes, Finishes, Turn
<1>6. /\ AtTile(r)' = AtTile(r) \ {w}
      /\ \A q \in Regions : q # r => AtTile(q)' = AtTile(q)
  <2>1. AtTile(r)' = AtTile(r) \ {w}
    BY <1>1, <1>5 DEF AtTile
  <2>2. ASSUME NEW q \in Regions, q # r
        PROVE  AtTile(q)' = AtTile(q)
    BY <1>1, <1>5, <2>2 DEF AtTile
  <2> QED BY <2>1, <2>2
<1>7. Cardinality(AtTile(r)') = g.atWork
  BY <1>1, <1>2, <1>3, <1>6, AtTileFinite, FS_RemoveElement
<1>8. g.atWork = 0 => AtTile(r) = {w}
  <2>1. g.atWork = 0 => AtTile(r) \ {w} = {}
    BY <1>6, <1>7, AtTileFinite, FS_RemoveElement, FS_EmptySet
  <2> QED BY <2>1, <1>1
<1>9. \A v \in Workers : v # w /\ sub[v] = r => pc[v] # "complete"
  BY <1>1 DEF Shared, Neighbours, Together, Finishes
<1>10. Places'
  <2>1. pc[w] = "tile" /\ tile[w] \in 1 .. f.next /\ f.hash # NoHash
    BY DEF Shared, Places, Placed, Finishes
  <2>2. p = "complete" => g.atWork = 0 /\ g.completed
    BY DEF Finishes
  <2> QED BY <1>1, <1>3, <1>5, <1>9, <2>1, <2>2
    DEF Shared, Places, Placed, Fields
<1>11. Neighbours'
  <2>1. p = "complete"
          => \A v \in Workers : v # w /\ sub[v] = r => pc[v] # "tile"
    BY <1>8 DEF Finishes, AtTile
  <2> QED BY <1>5, <1>9, <2>1, Numbers, <1>1 DEF Shared, Neighbours, Together
<1>12. Cursors'
  <2>1. CursorFits(g)
    BY <1>1, <1>3 DEF Shared, Cursors, CursorFits
  <2> QED BY <1>5, <1>6, <1>7, <2>1 DEF Shared, Cursors
<1> QED BY <1>4, <1>10, <1>11, <1>12 DEF Shared
------------------------------------------------------------------------------
LEMMA SharedStays ==
  ASSUME Shared, UNCHANGED <<pc, sub, tile, region>>
  PROVE  Shared'
<1>1. WorkTypes' /\ Places' /\ Neighbours'
  BY DEF Shared, WorkTypes, Places, Placed, Neighbours, Together
<1>2. \A r : AtTile(r)' = AtTile(r)
  BY DEF AtTile
<1>3. Cursors'
  BY <1>2 DEF Shared, Cursors
<1> QED BY <1>1, <1>3 DEF Shared

LEMMA GoesOn ==
  ASSUME NEW w \in Workers, pc[w] \in Resting, NEW p \in Resting,
         NEW s \in 0 .. Subs, NEW t \in 0 .. Tiles,
         pc' = [pc EXCEPT ![w] = p], sub' = [sub EXCEPT ![w] = s],
         tile' = [tile EXCEPT ![w] = t], p = "queued" => s \in Regions,
         UNCHANGED region
  PROVE  Rests(w)
  BY DEF Rests

LEMMA EmptyHanded ==
  ASSUME Shared, NEW w \in Workers,
         \/ EnterSub(w) \/ ClaimNothing(w)
         \/ StartSave(w) \/ SaveTiles(w) \/ SaveChunks(w),
         TypeOK
  PROVE  Rests(w)
<1>1. /\ sub[w] \in 0 .. Subs /\ tile[w] \in 0 .. Tiles
      /\ sub = [sub EXCEPT ![w] = sub[w]]
      /\ tile = [tile EXCEPT ![w] = tile[w]]
      /\ 0 \in 0 .. Subs /\ 0 \in 0 .. Tiles
  BY Numbers DEF Shared, WorkTypes
<1>2. CASE EnterSub(w)
  <2>1. cursor \in 1 .. Subs
    BY <1>2, Numbers DEF EnterSub, HasMoreWork, TypeOK
  <2>2. /\ pc[w] = "out" /\ tile' = tile /\ region' = region
        /\ sub' = [sub EXCEPT ![w] = cursor]
    BY <1>2 DEF EnterSub
  <2>3. \E p \in Resting : /\ pc' = [pc EXCEPT ![w] = p]
                           /\ p = "queued" => cursor \in Regions
    <3>1. CASE cursor \in Saves
      BY <1>2, <3>1 DEF EnterSub, Resting, WorkerState
    <3>2. CASE cursor \notin Saves
      BY <1>2, <2>1, <3>2 DEF EnterSub, Resting, WorkerState, Regions
    <3> QED BY <3>1, <3>2
  <2>4. cursor \in 0 .. Subs /\ "out" \in Resting
    BY <2>1, Numbers DEF Resting, WorkerState
  <2> QED BY <1>1, <2>2, <2>3, <2>4, GoesOn
<1>3. CASE ClaimNothing(w)
  <2>1. /\ pc[w] \in Resting /\ "out" \in Resting /\ UNCHANGED region
        /\ pc' = [pc EXCEPT ![w] = "out"]
        /\ sub' = [sub EXCEPT ![w] = 0] /\ tile' = [tile EXCEPT ![w] = 0]
    BY <1>3 DEF ClaimNothing, Leave, taskVars, Resting, WorkerState
  <2> QED BY <1>1, <2>1, GoesOn
<1>4. CASE StartSave(w)
  <2>1. /\ pc[w] \in Resting /\ "saveTiles" \in Resting /\ UNCHANGED region
        /\ pc' = [pc EXCEPT ![w] = "saveTiles"]
        /\ sub' = sub /\ tile' = tile
    BY <1>4 DEF StartSave, taskVars, Resting, WorkerState
  <2> QED BY <1>1, <2>1, GoesOn
<1>5. CASE SaveTiles(w)
  <2>1. /\ pc[w] \in Resting /\ "saveChunks" \in Resting /\ UNCHANGED region
        /\ pc' = [pc EXCEPT ![w] = "saveChunks"]
        /\ sub' = sub /\ tile' = tile
    BY <1>5 DEF SaveTiles, taskVars, Resting, WorkerState
  <2> QED BY <1>1, <2>1, GoesOn
<1>6. CASE SaveChunks(w)
  <2>1. /\ pc[w] \in Resting /\ "out" \in Resting /\ UNCHANGED region
        /\ pc' = [pc EXCEPT ![w] = "out"]
        /\ sub' = [sub EXCEPT ![w] = 0] /\ tile' = [tile EXCEPT ![w] = 0]
    BY <1>6 DEF SaveChunks, Leave, taskVars, Resting, WorkerState
  <2> QED BY <1>1, <2>1, GoesOn
<1> QED BY <1>2, <1>3, <1>4, <1>5, <1>6

LEMMA ClaimsNext ==
  ASSUME Shared, NEW w \in Workers, ClaimNext(w)
  PROVE  Takes(w, region[sub[w]])
<1> PICK r, f : r = sub[w] /\ f = region[r]
  OBVIOUS
<1>1. /\ r \in Regions /\ pc[w] = "queued" /\ f \in Fields
      /\ ~f.completed /\ f.next > 0
  BY DEF Shared, WorkTypes, Places, Placed, ClaimNext, Stopped
<1>2. f.next < Tiles /\ f.hash # NoHash
  BY <1>1 DEF Shared, Cursors, CursorFits
<1>3. \A v \in Workers : v # w /\ sub[v] = r
          => pc[v] \notin {"init", "complete"}
  BY <1>1, Numbers DEF Shared, Places, Placed, Fields
<1>4. Turn(w, "tile", f.next + 1, Advanced(f))
  BY DEF ClaimNext, TakeTile, Turn
<1> QED BY <1>1, <1>2, <1>3, <1>4 DEF Takes

LEMMA ClaimsFirst ==
  ASSUME Shared, TypeOK, NEW w \in Workers, ClaimFirst(w)
  PROVE  Begins(w, [region[sub[w]] EXCEPT !.hash = world[sub[w]]])
<1> PICK r, f, g :
      /\ r = sub[w] /\ f = region[r] /\ g = [f EXCEPT !.hash = world[r]]
  OBVIOUS
<1>1. r \in Regions /\ pc[w] = "queued" /\ f \in Fields /\ f.next = 0
  BY DEF Shared, WorkTypes, Places, Placed, ClaimFirst
<1>2. world[r] \in Versions
  BY <1>1 DEF TypeOK
<1>3. /\ g \in Fields /\ g.hash # NoHash
      /\ g.next = f.next /\ g.atWork = f.atWork /\ g.completed = f.completed
  BY <1>1, <1>2, Numbers DEF Fields
<1>4. tile = [tile EXCEPT ![w] = tile[w]]
  BY DEF Shared, WorkTypes
<1>5. Turn(w, "init", tile[w], g)
  BY <1>4 DEF ClaimFirst, Turn
<1>6. \A v \in Workers : sub[v] = r => pc[v] # "init"
  BY DEF ClaimFirst, ChainFree
<1> QED BY <1>1, <1>3, <1>5, <1>6 DEF Begins

LEMMA FailsInit ==
  ASSUME Shared, NEW w \in Workers, InitFails(w)
  PROVE  Leaves(w, "out", [region[sub[w]] EXCEPT !.cancelled = TRUE])
<1> PICK r, f, g :
      /\ r = sub[w] /\ f = region[r] /\ g = [f EXCEPT !.cancelled = TRUE]
  OBVIOUS
<1>1. pc[w] = "init" /\ r \in Regions /\ f \in Fields
  BY DEF Shared, WorkTypes, Places, Placed, InitFails
<1>2. /\ g \in Fields
      /\ g.next = f.next /\ g.atWork = f.atWork /\ g.completed = f.completed
      /\ g.hash = f.hash
  BY <1>1 DEF Fields
<1>3. Turn(w, "out", 0, g) /\ 0 \in 0 .. Tiles
  BY Numbers DEF InitFails, Leave, Turn
<1> QED BY <1>1, <1>2, <1>3 DEF Leaves

LEMMA FinishesInit ==
  ASSUME Shared, TypeOK, NEW w \in Workers, FinishInit(w)
  PROVE  LET f == [region[sub[w]] EXCEPT !.actions = TileActions(sub[w]),
                                         !.next = 0]
         IN  \/ /\ f.actions = {}
                /\ Leaves(w, "out", [f EXCEPT !.completed = TRUE])
             \/ f.actions # {} /\ Stopped(sub[w]) /\ Leaves(w, "out", f)
             \/ f.actions # {} /\ ~Stopped(sub[w]) /\ Takes(w, f)
<1> PICK r, e, f :
      /\ r = sub[w] /\ e = region[r]
      /\ f = [e EXCEPT !.actions = TileActions(r), !.next = 0]
  OBVIOUS
<1>1. /\ pc[w] = "init" /\ r \in Regions /\ e \in Fields /\ e.next = 0
      /\ e.hash # NoHash
  BY DEF Shared, WorkTypes, Places, Placed, FinishInit
<1>2. TileActions(r) \subseteq 1 .. Tiles
  BY <1>1 DEF TileActions, TypeOK
<1>3. /\ f \in Fields
      /\ f.next = e.next /\ f.atWork = e.atWork /\ f.completed = e.completed
      /\ f.hash = e.hash /\ f.next = 0
  BY <1>1, <1>2, Numbers DEF Fields
<1>4. CASE /\ f.actions = {}
           /\ region' = [region EXCEPT ![r] = [f EXCEPT !.completed = TRUE]]
           /\ Leave(w)
  <2> PICK g : g = [f EXCEPT !.completed = TRUE]
    OBVIOUS
  <2>1. /\ g \in Fields
        /\ g.next = f.next /\ g.atWork = f.atWork /\ g.completed = TRUE
        /\ g.hash = f.hash
    BY <1>3 DEF Fields
  <2>2. Turn(w, "out", 0, g)
    BY <1>4 DEF Leave, Turn
  <2> QED BY <1>1, <1>3, <1>4, <2>1, <2>2, Numbers DEF Leaves
<1>5. CASE /\ f.actions # {} /\ Stopped(r) /\ Leave(w)
           /\ region' = [region EXCEPT ![r] = f]
  <2>2. Turn(w, "out", 0, f)
    BY <1>5 DEF Leave, Turn
  <2> QED BY <1>1, <1>3, <1>5, <2>2, Numbers DEF Leaves
<1>6. CASE f.actions # {} /\ ~Stopped(r) /\ TakeTile(w, f)
  <2>2. Turn(w, "tile", f.next + 1, Advanced(f))
    BY <1>6 DEF TakeTile, Turn
  <2>3. \A v \in Workers : v # w /\ sub[v] = r
            => pc[v] \notin {"init", "complete"}
    BY <1>1 DEF Shared, Places, Placed, Neighbours, Together
  <2> QED BY <1>1, <1>3, <1>6, <2>2, <2>3, Numbers DEF Takes
<1> QED BY <1>4, <1>5, <1>6 DEF FinishInit

LEMMA ProcessesTile ==
  ASSUME Shared, NEW w \in Workers, ProcessTile(w)
  PROVE  LET g == [region[sub[w]] EXCEPT !.atWork = @ - 1]
         IN  Finishes(w, "out", g) \/ Finishes(w, "complete", g)
<1> PICK f, g : f = region[sub[w]] /\ g = [f EXCEPT !.atWork = @ - 1]
  OBVIOUS
<1>1. pc[w] = "tile" /\ LeaveTile(w, g)
      /\ region' = [region EXCEPT ![sub[w]] = g] /\ 0 \in 0 .. Tiles
  BY Numbers DEF ProcessTile
<1>2. CASE g.atWork = 0 /\ g.completed /\ ~g.cancelled
  <2>1. Turn(w, "complete", 0, g)
    BY <1>1, <1>2 DEF LeaveTile, Turn
  <2> QED BY <1>1, <1>2, <2>1 DEF Finishes
<1>3. CASE ~(g.atWork = 0 /\ g.completed /\ ~g.cancelled)
  <2>1. Turn(w, "out", 0, g)
    BY <1>1, <1>3 DEF LeaveTile, Leave, Turn
  <2> QED BY <1>1, <2>1 DEF Finishes
<1> QED BY <1>2, <1>3

LEMMA Completes ==
  ASSUME Shared, NEW w \in Workers, Complete(w)
  PROVE  LET g == [region[sub[w]] EXCEPT !.hash = NoHash]
         IN  Leaves(w, "out", g) \/ Leaves(w, "saveQueued", g)
<1> PICK f, g : f = region[sub[w]] /\ g = [f EXCEPT !.hash = NoHash]
  OBVIOUS
<1>1. pc[w] = "complete" /\ sub[w] \in Regions /\ f \in Fields
  BY DEF Shared, WorkTypes, Places, Placed, Complete
<1>2. /\ g \in Fields
      /\ g.next = f.next /\ g.atWork = f.atWork /\ g.completed = f.completed
  BY <1>1 DEF Fields
<1>3. tile = [tile EXCEPT ![w] = tile[w]] /\ tile[w] \in 0 .. Tiles
      /\ 0 \in 0 .. Tiles
  BY Numbers DEF Shared, WorkTypes
<1>4. Turn(w, "out", 0, g) \/ Turn(w, "saveQueued", tile[w], g)
  BY <1>3 DEF Complete, Leave, Turn
<1> QED BY <1>1, <1>2, <1>3, <1>4 DEF Leaves

LEMMA CancelShares ==
  ASSUME Shared, Cancel
  PROVE  Shared'
<1>1. /\ region' = [r \in Regions |-> [region[r] EXCEPT !.cancelled = TRUE]]
      /\ UNCHANGED <<pc, sub, tile>>
  BY DEF Cancel, poolVars
<1>2. \A r \in Regions :
        /\ region'[r] \in Fields
        /\ region'[r].next = region[r].next
        /\ region'[r].atWork = region[r].atWork
        /\ region'[r].completed = region[r].completed
        /\ region'[r].hash = region[r].hash
  <2> SUFFICES ASSUME NEW r \in Regions, NEW f \in Fields, f = region[r],
                      NEW g, g = [f EXCEPT !.cancelled = TRUE]
               PROVE  /\ g \in Fields /\ g.next = f.next
                      /\ g.atWork = f.atWork /\ g.completed = f.completed
                      /\ g.hash = f.hash
    BY <1>1 DEF Shared, WorkTypes
  <2> QED BY DEF Fields
<1>3. WorkTypes'
  <2>1. region' \in [Regions -> Fields]
    BY <1>1, <1>2
  <2> QED BY <1>1, <2>1 DEF Shared, WorkTypes
<1>4. Places'
  BY <1>1, <1>2 DEF Shared, Places, Placed
<1>5. Neighbours'
  BY <1>1 DEF Shared, Neighbours, Together
<1>6. Cursors'
  <2>1. \A r : AtTile(r)' = AtTile(r)
    BY <1>1 DEF AtTile
  <2> QED BY <1>2, <2>1 DEF Shared, Cursors, CursorFits
<1> QED BY <1>3, <1>4, <1>5, <1>6 DEF Shared

(* A process that has just been started.                                   *)
Nobody ==
  /\ pc = [w \in Workers |-> "out"]
  /\ sub = [w \in Workers |-> 0]
  /\ tile = [w \in Workers |-> 0]
  /\ region = [r \in Regions |-> FreshRegion]

LEMMA NobodyThere == Nobody => Shared
<1> SUFFICES ASSUME Nobody PROVE Shared
  OBVIOUS
<1> USE DEF Nobody
<1>1. FreshRegion \in Fields
  BY Numbers DEF FreshRegion, Fields
<1>2. WorkTypes
  BY <1>1, Numbers DEF WorkTypes, WorkerState
<1>3. Places /\ Neighbours
  BY DEF Places, Placed, Neighbours, Together
<1>4. \A r \in Regions : Cardinality(AtTile(r)) = 0
  <2> SUFFICES ASSUME NEW r \in Regions PROVE AtTile(r) = {}
    BY AtTileFinite
  <2> QED BY DEF AtTile
<1>5. Cursors
  BY <1>4, Numbers DEF Cursors, CursorFits, FreshRegion
<1> QED BY <1>2, <1>3, <1>5 DEF Shared

LEMMA InitTypes == Init => TypeOK /\ Shared
<1> SUFFICES ASSUME Init PROVE TypeOK /\ Shared
  OBVIOUS
<1>1. Shared
  BY NobodyThere DEF Init, Nobody
<1>2. /\ cursor \in 1 .. Subs + 1 /\ queueFile \in 1 .. Subs + 1
      /\ crashes \in 0 .. MaxCrashes
      /\ world \in [Regions -> Versions] /\ started \in [Regions -> Versions]
      /\ overtaken \subseteq Regions
  BY Numbers DEF Init
<1>3. 0 \in Versions
  BY Numbers DEF Versions
<1>4. /\ drawn \in [Regions -> [1 .. Tiles -> Versions]]
      /\ failed \in [Regions -> SUBSET (1 .. Tiles)]
      /\ recorded \in [Regions -> Versions]
      /\ failedDisk \in [Regions -> SUBSET (1 .. Tiles)]
      /\ recordedDisk \in [Regions -> Versions]
  BY <1>3 DEF Init
<1>5. finished \in BOOLEAN /\ saved \in [Saves -> BOOLEAN]
  BY DEF Init
<1>6. TypeOK
  BY <1>1, <1>2, <1>4, <1>5 DEF TypeOK, Shared, WorkTypes, Fields
<1> QED BY <1>1, <1>6

LEMMA SharingKept ==
  ASSUME TypeOK, Shared, [Next]_vars
  PROVE  Shared'
<1>1. ASSUME NEW w \in Workers, Work(w) \/ InitFails(w)
      PROVE  Shared'
  <2>1. CASE MoveOn(w)
    BY <2>1, SharedStays DEF MoveOn, taskVars
  <2>2. CASE \/ EnterSub(w) \/ ClaimNothing(w)
             \/ StartSave(w) \/ SaveTiles(w) \/ SaveChunks(w)
    BY <2>2, EmptyHanded, RestsShares
  <2>3. CASE ClaimNext(w)
    BY <2>3, ClaimsNext, TakesShares
  <2>4. CASE ClaimFirst(w)
    BY <2>4, ClaimsFirst, BeginsShares
  <2>5. CASE FinishInit(w)
    BY <2>5, FinishesInit, TakesShares, LeavesShares
  <2>6. CASE ProcessTile(w)
    BY <2>6, ProcessesTile, FinishesShares
  <2>7. CASE Complete(w)
    BY <2>7, Completes, LeavesShares
  <2>8. CASE InitFails(w)
    BY <2>8, FailsInit, LeavesShares
  <2> QED
    BY <1>1, <2>1, <2>2, <2>3, <2>4, <2>5, <2>6, <2>7, <2>8 DEF Work
<1>2. CASE Cancel
  BY <1>2, CancelShares
<1>3. CASE Crash
  <2>1. Nobody'
    BY <1>3 DEF Crash, Nobody
  <2> QED
    BY <2>1, NobodyThere, PTL
<1>4. CASE \/ Retire \/ SaveQueue \/ (\E r \in Regions : WorldChanges(r))
           \/ Done \/ UNCHANGED vars
  <2>1. UNCHANGED <<pc, sub, tile, region>>
    BY <1>4 DEF Retire, SaveQueue, WorldChanges, Done, vars, poolVars, taskVars
  <2> QED BY <2>1, SharedStays
<1> QED BY <1>1, <1>2, <1>3, <1>4 DEF Next, Surroundings

(* What becomes of a tile, its fate: not to be drawn, drawn, or failed.      *)
Drawn(r, t) ==
  /\ t \in region[r].actions
  /\ \E v \in region[r].hash .. world[r] : drawn' = [drawn EXCEPT ![r][t] = v]
  /\ failed' = [failed EXCEPT ![r] = @ \ {t}]

Failed(r, t) ==
  /\ t \in region[r].actions
  /\ failed' = [failed EXCEPT ![r] = @ \cup {t}]
  /\ UNCHANGED drawn

Spared(r, t) ==
  /\ t \notin region[r].actions
  /\ UNCHANGED <<drawn, failed>>

LEMMA Fates ==
  ASSUME NEW w \in Workers, ProcessTile(w)
  PROVE  \/ Drawn(sub[w], tile[w])
         \/ Failed(sub[w], tile[w])
         \/ Spared(sub[w], tile[w])
<1> PICK f : f = [region[sub[w]] EXCEPT !.atWork = @ - 1]
  OBVIOUS
<1>1. f.actions = region[sub[w]].actions /\ f.hash = region[sub[w]].hash
  OBVIOUS
<1>2. \/ tile[w] \notin f.actions /\ UNCHANGED <<drawn, failed>>
      \/ /\ tile[w] \in f.actions
         /\ \E v \in f.hash .. world[sub[w]] :
              drawn' = [drawn EXCEPT ![sub[w]][tile[w]] = v]
         /\ failed' = [failed EXCEPT ![sub[w]] = @ \ {tile[w]}]
      \/ /\ tile[w] \in f.actions
         /\ failed' = [failed EXCEPT ![sub[w]] = @ \cup {tile[w]}]
         /\ UNCHANGED drawn
  BY Zenon DEF ProcessTile
<1> QED BY <1>1, <1>2, Zenon DEF Drawn, Failed, Spared

LEMMA TypesKept ==
  ASSUME TypeOK, Shared, Shared', [Next]_vars
  PROVE  TypeOK'
<1>1. /\ region' \in [Regions -> Fields] /\ pc' \in [Workers -> WorkerState]
      /\ sub' \in [Workers -> 0 .. Subs] /\ tile' \in [Workers -> 0 .. Tiles]
  BY DEF Shared, WorkTypes
<1>2. ASSUME NEW w \in Workers, Work(w) \/ InitFails(w)
      PROVE  /\ cursor' \in 1 .. Subs + 1 /\ finished' \in BOOLEAN
             /\ UNCHANGED <<queueFile, crashes, world, started>>
             /\ saved' \in [Saves -> BOOLEAN]
             /\ overtaken' \subseteq Regions
             /\ drawn' \in [Regions -> [1 .. Tiles -> Versions]]
             /\ failed' \in [Regions -> SUBSET (1 .. Tiles)]
             /\ failedDisk' \in [Regions -> SUBSET (1 .. Tiles)]
             /\ recorded' \in [Regions -> Versions]
             /\ recordedDisk' \in [Regions -> Versions]
  <2> USE DEF TypeOK, mapVars, diskVars, worldVars
  <2>1. CASE MoveOn(w)
    BY <2>1, Numbers DEF MoveOn, HasMoreWork, taskVars
  <2>2. CASE EnterSub(w)
    BY <2>2 DEF EnterSub
  <2>3. CASE ClaimNothing(w) \/ StartSave(w) \/ SaveTiles(w) \/ SaveChunks(w)
    BY <2>3 DEF ClaimNothing, StartSave, SaveTiles, SaveChunks, Leave, taskVars
  <2>4. CASE ClaimNext(w) \/ ClaimFirst(w) \/ InitFails(w)
    BY <2>4 DEF ClaimNext, TakeTile, ClaimFirst, InitFails, Leave
  <2>5. CASE FinishInit(w)
    BY <2>5 DEF FinishInit, TakeTile, Leave
  <2>6. CASE ProcessTile(w)
    <3>1. sub[w] \in Regions /\ tile[w] \in 1 .. Tiles
      BY <2>6, Numbers
      DEF ProcessTile, Shared, Places, Placed, WorkTypes, Fields
    <3> PICK r \in Regions, t \in 1 .. Tiles : r = sub[w] /\ t = tile[w]
      BY <3>1
    <3>2. ASSUME Drawn(r, t)
          PROVE  /\ drawn' \in [Regions -> [1 .. Tiles -> Versions]]
                 /\ failed' \in [Regions -> SUBSET (1 .. Tiles)]
      <4>1. PICK v \in region[r].hash .. world[r] :
              drawn' = [drawn EXCEPT ![r][t] = v]
        BY <3>2 DEF Drawn
      <4>2. region[r].hash \in Nat /\ world[r] \in Versions
        BY Numbers DEF Shared, WorkTypes, Fields
      <4>3. v \in Versions
        BY <4>2, Numbers DEF Versions
      <4> QED BY <3>2, <4>1, <4>3 DEF Drawn
    <3>3. ASSUME Failed(r, t)
          PROVE  /\ drawn' \in [Regions -> [1 .. Tiles -> Versions]]
                 /\ failed' \in [Regions -> SUBSET (1 .. Tiles)]
      BY <3>3 DEF Failed
    <3>4. ASSUME Spared(r, t)
          PROVE  /\ drawn' \in [Regions -> [1 .. Tiles -> Versions]]
                 /\ failed' \in [Regions -> SUBSET (1 .. Tiles)]
      BY <3>4 DEF Spared
    <3>5. UNCHANGED <<cursor, finished>>
      BY <2>6 DEF ProcessTile, LeaveTile, Leave
    <3>6. /\ drawn' \in [Regions -> [1 .. Tiles -> Versions]]
          /\ failed' \in [Regions -> SUBSET (1 .. Tiles)]
      BY <2>6, <3>2, <3>3, <3>4, Fates
    <3> QED BY <2>6, <3>5, <3>6 DEF ProcessTile
  <2>7. CASE Complete(w)
    <3>1. sub[w] \in Regions
      BY <2>7 DEF Complete, Shared, Places, Placed
    <3>2. region[sub[w]].hash \in Versions \cup {NoHash}
      BY <3>1 DEF Shared, WorkTypes, Fields
    <3>3. recorded' \in [Regions -> Versions]
      BY <2>7, <3>1, <3>2 DEF Complete
    <3>4. overtaken' \subseteq Regions
      BY <2>7, <3>1 DEF Complete, Overtake
    <3> QED BY <2>7, <3>3, <3>4 DEF Complete, Leave
  <2> QED BY <1>2, <2>1, <2>2, <2>3, <2>4, <2>5, <2>6, <2>7 DEF Work
<1>3. CASE Cancel
  <2>1. saved' \in [Saves -> BOOLEAN]
    BY <1>3 DEF Cancel
  <2>2. UNCHANGED <<cursor, finished, queueFile, failedDisk, recordedDisk,
                    crashes, drawn, failed, recorded, world, started,
                    overtaken>>
    BY <1>3 DEF Cancel, mapVars, diskVars, worldVars, poolVars
  <2> QED BY <1>1, <2>1, <2>2 DEF TypeOK, Fields
<1>4. CASE Crash
  <2>1. saved' \in [Saves -> BOOLEAN] /\ UNCHANGED finished
    BY <1>4 DEF Crash
  <2>2. cursor' \in 1 .. Subs + 1 /\ crashes' \in 0 .. MaxCrashes
    BY <1>4, Numbers DEF Crash, TypeOK
  <2> QED
    BY <1>1, <1>4, <2>1, <2>2 DEF Crash, TypeOK, worldVars, Fields
<1>5. CASE Retire
  BY <1>1, <1>5
  DEF Retire, TypeOK, taskVars, mapVars, diskVars, worldVars, Fields
<1>6. CASE SaveQueue
  BY <1>1, <1>6
  DEF SaveQueue, TypeOK, poolVars, taskVars, mapVars, worldVars, Fields
<1>7. ASSUME NEW r \in Regions, WorldChanges(r)
      PROVE  TypeOK'
  <2>1. world' \in [Regions -> Versions]
    BY <1>7, Numbers DEF WorldChanges, TypeOK, Versions
  <2> QED BY <1>1, <1>7, <2>1
    DEF WorldChanges, TypeOK, poolVars, taskVars, mapVars, diskVars, Fields
<1>8. CASE Done \/ UNCHANGED vars
  BY <1>8
  DEF Done, TypeOK, vars, poolVars, taskVars, mapVars, diskVars, worldVars
<1>9. ASSUME NEW w \in Workers, Work(w) \/ InitFails(w)
      PROVE  TypeOK'
  BY <1>1, <1>2, <1>9 DEF TypeOK, Fields
<1> QED BY <1>3, <1>4, <1>5, <1>6, <1>7, <1>8, <1>9 DEF Next, Surroundings

LEMMA SharingAlways == Spec => [](TypeOK /\ Shared)
<1>1. TypeOK /\ Shared /\ [Next]_vars => (TypeOK /\ Shared)'
  BY SharingKept, TypesKept
<1> QED BY InitTypes, <1>1, PTL DEF Spec

(* Workers, tasks, the map and its disk keep the types TypeOK gives them.   *)
THEOREM TypeCorrect == Spec => []TypeOK
BY SharingAlways, PTL

(* The claim chain of #claimTile and the worker count of #doWork share a   *)
(* region out: no tile is processed by two workers, and one worker alone   *)
(* completes the region, after all the others have left it.                *)
THEOREM SharingCorrect == Spec => []WorkIsSharedOut
<1>1. TypeOK /\ Shared => WorkIsSharedOut
  <2> SUFFICES ASSUME Shared PROVE WorkIsSharedOut
    OBVIOUS
  <2>1. ClaimedByOne
    <3> SUFFICES ASSUME NEW r \in Regions
                 PROVE  /\ region[r].atWork = Cardinality(AtTile(r))
                        /\ \A v, w \in AtTile(r) : v # w => tile[v] # tile[w]
      BY DEF ClaimedByOne, AtTile
    <3>1. region[r].atWork = Cardinality(AtTile(r))
      BY DEF Shared, Cursors
    <3>2. \A v, w \in AtTile(r) : v # w => tile[v] # tile[w]
      BY DEF Shared, Neighbours, Together, AtTile
    <3> QED BY <3>1, <3>2
  <2>2. CompletedByTheLast
    BY DEF Shared, Places, Placed, Neighbours, Together, CompletedByTheLast
  <2> QED BY <2>1, <2>2 DEF WorkIsSharedOut
<1> QED BY SharingAlways, <1>1, PTL
------------------------------------------------------------------------------
(* A step that has nothing to do with region r.                            *)
Unaffected(r) ==
  /\ region'[r] = region[r]
  /\ AtTile(r)' = AtTile(r)
  /\ \A v \in AtTile(r) : tile'[v] = tile[v]
  /\ drawn'[r] = drawn[r] /\ failed'[r] = failed[r]
  /\ recorded'[r] = recorded[r]

LEMMA TurnElsewhere ==
  ASSUME Shared, NEW w \in Workers, sub[w] \in Regions, NEW r \in Regions,
         r # sub[w],
         NEW p, NEW t, NEW g, Turn(w, p, t, g)
  PROVE  /\ region'[r] = region[r] /\ AtTile(r)' = AtTile(r)
         /\ \A v \in AtTile(r) : tile'[v] = tile[v]
<1>1. region'[r] = region[r] /\ \A v \in AtTile(r) : tile'[v] = tile[v]
  BY DEF Shared, WorkTypes, Turn, AtTile
<1>2. AtTile(r)' = AtTile(r)
  BY Numbers DEF Shared, WorkTypes, Turn, AtTile
<1> QED BY <1>1, <1>2

(* A worker that is busy with a region takes one of these turns.           *)
RegionSteps(w) ==
  \/ ClaimNothing(w) \/ ClaimNext(w) \/ ClaimFirst(w) \/ FinishInit(w)
  \/ InitFails(w) \/ ProcessTile(w) \/ Complete(w)

OtherSteps(w) ==
  MoveOn(w) \/ EnterSub(w) \/ StartSave(w) \/ SaveTiles(w) \/ SaveChunks(w)

LEMMA StepKinds ==
  ASSUME NEW w \in Workers, Work(w) \/ InitFails(w)
  PROVE  RegionSteps(w) \/ OtherSteps(w)
  BY DEF Work, RegionSteps, OtherSteps

LEMMA ElsewhereUnaffected ==
  ASSUME TypeOK, Shared, NEW w \in Workers, RegionSteps(w),
         NEW r \in Regions, r # sub[w]
  PROVE  Unaffected(r)
<1>1. sub[w] \in Regions
  BY DEF RegionSteps, ClaimNothing, ClaimNext, ClaimFirst, FinishInit,
         InitFails, ProcessTile, Complete, Shared, Places, Placed
<1>2. \E p, t, g : Turn(w, p, t, g)
  <2>1. CASE ClaimNothing(w)
    <3>1. region = [region EXCEPT ![sub[w]] = region[sub[w]]]
      BY <1>1 DEF Shared, WorkTypes
    <3>2. Turn(w, "out", 0, region[sub[w]])
      BY <2>1, <3>1 DEF ClaimNothing, Leave, taskVars, Turn
    <3> QED BY <3>2
  <2>2. CASE ClaimNext(w)
    BY <2>2, ClaimsNext DEF Takes
  <2>3. CASE ClaimFirst(w)
    BY <2>3, ClaimsFirst DEF Begins
  <2>4. CASE FinishInit(w)
    BY <2>4, FinishesInit DEF Takes, Leaves
  <2>5. CASE InitFails(w)
    BY <2>5, FailsInit DEF Leaves
  <2>6. CASE ProcessTile(w)
    BY <2>6, ProcessesTile DEF Finishes
  <2>7. CASE Complete(w)
    BY <2>7, Completes DEF Leaves
  <2> QED BY <2>1, <2>2, <2>3, <2>4, <2>5, <2>6, <2>7 DEF RegionSteps
<1>3. /\ region'[r] = region[r] /\ AtTile(r)' = AtTile(r)
      /\ \A v \in AtTile(r) : tile'[v] = tile[v]
  BY <1>1, <1>2, TurnElsewhere
<1>4. /\ drawn'[r] = drawn[r] /\ failed'[r] = failed[r]
      /\ recorded'[r] = recorded[r]
  <2>1. CASE ProcessTile(w)
    <3> PICK q, t : q = sub[w] /\ t = tile[w]
      OBVIOUS
    <3>1. Drawn(q, t) \/ Failed(q, t) \/ Spared(q, t)
      BY <2>1, Fates
    <3>2. UNCHANGED recorded
      BY <2>1 DEF ProcessTile
    <3>3. \A v : [drawn EXCEPT ![q][t] = v][r] = drawn[r]
      BY DEF TypeOK
    <3> QED BY <3>1, <3>2, <3>3 DEF Drawn, Failed, Spared, TypeOK
  <2>2. CASE Complete(w)
    BY <2>2 DEF Complete, TypeOK
  <2>3. CASE /\ ~ProcessTile(w) /\ ~Complete(w)
    BY <2>3 DEF RegionSteps, ClaimNothing, ClaimNext, ClaimFirst, FinishInit,
                InitFails, mapVars
  <2> QED BY <2>1, <2>2, <2>3
<1> QED BY <1>3, <1>4 DEF Unaffected

LEMMA OthersUnaffected ==
  ASSUME TypeOK, Shared, NEW w \in Workers, OtherSteps(w), NEW r \in Regions
  PROVE  Unaffected(r)
<1>1. UNCHANGED <<region, drawn, failed, recorded>>
  BY DEF OtherSteps, MoveOn, EnterSub, StartSave, SaveTiles, SaveChunks,
         taskVars, mapVars
<1>2. AtTile(r)' = AtTile(r) /\ \A v \in AtTile(r) : tile'[v] = tile[v]
  <2>1. CASE MoveOn(w)
    BY <2>1 DEF MoveOn, AtTile
  <2>2. CASE ~MoveOn(w)
    BY <2>2 DEF OtherSteps, EnterSub, StartSave, SaveTiles, SaveChunks, Leave,
                AtTile, Shared, WorkTypes
  <2> QED BY <2>1, <2>2
<1> QED BY <1>1, <1>2 DEF Unaffected

LEMMA FieldNumbers ==
  \A f \in Fields : f.hash \in Nat /\ f.next \in Nat /\ f.atWork \in Nat
<1> SUFFICES ASSUME NEW f \in Fields
             PROVE  f.hash \in Nat /\ f.next \in Nat /\ f.atWork \in Nat
  OBVIOUS
<1>1. /\ f.hash \in Versions \cup {NoHash} /\ f.next \in 0 .. Tiles
      /\ f.atWork \in Nat
  BY DEF Fields
<1>2. f.hash \in Nat
  BY <1>1, Numbers, Zenon
<1>3. f.next \in Nat
  BY <1>1
<1> QED BY <1>1, <1>2, <1>3

LEMMA Readying ==
  ASSUME NEW f \in Fields, NEW a \in SUBSET (1 .. Tiles)
  PROVE  LET h == [f EXCEPT !.actions = a, !.next = 0]
         IN  h \in Fields /\ h.hash = f.hash /\ h.next = 0 /\ h.actions = a
<1>1. 0 \in 0 .. Tiles
  BY Numbers
<1> QED BY <1>1 DEF Fields

(* Which of the fields of its own region a worker changes.                 *)
LEMMA OwnFields ==
  ASSUME TypeOK, Shared, NEW w \in Workers, RegionSteps(w)
  PROVE  LET r == sub[w]
         IN  \/ ClaimFirst(w) /\ region'[r].next = 0
                /\ region'[r].hash = world[r] /\ UNCHANGED recorded
             \/ Complete(w) /\ region'[r].hash = NoHash
                /\ recorded'[r] = region[r].hash /\ region[r].hash # NoHash
             \/ /\ ~ClaimFirst(w) /\ ~Complete(w)
                /\ region'[r].hash = region[r].hash /\ UNCHANGED recorded
<1>1. PICK r \in Regions, f \in Fields : r = sub[w] /\ f = region[r]
  BY DEF RegionSteps, ClaimNothing, ClaimNext, ClaimFirst, FinishInit,
         InitFails, ProcessTile, Complete, Shared, WorkTypes, Places, Placed
<1>2. CASE ClaimFirst(w)
  <2>1. /\ region'[r] = [f EXCEPT !.hash = world[r]] /\ f.next = 0
        /\ UNCHANGED recorded
    BY <1>1, <1>2 DEF ClaimFirst, Shared, WorkTypes, mapVars
  <2>2. region'[r].hash = world[r] /\ region'[r].next = 0
    BY <2>1 DEF Fields
  <2> QED BY <1>1, <1>2, <2>1, <2>2
<1>3. CASE Complete(w)
  <2>1. region'[r] = [f EXCEPT !.hash = NoHash]
    BY <1>1, <1>3 DEF Complete, Shared, WorkTypes
  <2>2. region'[r].hash = NoHash
    BY <2>1 DEF Fields
  <2>3. f.hash # NoHash
    BY <1>1, <1>3 DEF Complete, Shared, Places, Placed
  <2>4. recorded'[r] = f.hash
    BY <1>1, <1>3, <2>3 DEF Complete, TypeOK
  <2> QED BY <1>1, <1>3, <2>2, <2>3, <2>4
<1>4. ASSUME ~ClaimFirst(w), ~Complete(w)
      PROVE  region'[r].hash = f.hash /\ UNCHANGED recorded
  <2>1. CASE ClaimNothing(w)
    BY <1>1, <2>1 DEF ClaimNothing, taskVars, mapVars
  <2>2. CASE ClaimNext(w)
    <3>1. region'[r] = Advanced(f) /\ f.next < Tiles /\ UNCHANGED recorded
      BY <1>1, <2>2, ClaimsNext
      DEF Takes, Turn, Shared, WorkTypes, ClaimNext, mapVars
    <3> QED BY <3>1, Taking
  <2>3. CASE InitFails(w)
    <3>1. region'[r] = [f EXCEPT !.cancelled = TRUE] /\ UNCHANGED recorded
      BY <1>1, <2>3 DEF InitFails, Shared, WorkTypes, mapVars
    <3> QED BY <3>1 DEF Fields
  <2>4. CASE ProcessTile(w)
    <3>1. region'[r] = [f EXCEPT !.atWork = @ - 1] /\ UNCHANGED recorded
      BY <1>1, <2>4 DEF ProcessTile, Shared, WorkTypes, mapVars
    <3> QED BY <3>1 DEF Fields
  <2>5. CASE FinishInit(w)
    <3>1. PICK h \in Fields :
            /\ h = [f EXCEPT !.actions = TileActions(r), !.next = 0]
            /\ h.hash = f.hash /\ h.next = 0
      <4>1. PICK a \in SUBSET (1 .. Tiles) : a = TileActions(r)
        BY <1>1 DEF TypeOK, TileActions
      <4>2. LET k == [f EXCEPT !.actions = a, !.next = 0]
            IN  k \in Fields /\ k.hash = f.hash /\ k.next = 0
        <5> f \in Fields /\ a \in SUBSET (1 .. Tiles)
          BY <1>1, <4>1
        <5> QED BY Readying
      <4> QED BY <4>1, <4>2, Zenon
    <3>2. \/ region'[r] = [h EXCEPT !.completed = TRUE]
          \/ region'[r] = h
          \/ region'[r] = Advanced(h)
      BY <1>1, <2>5, <3>1 DEF FinishInit, TakeTile, Shared, WorkTypes
    <3>3. [h EXCEPT !.completed = TRUE].hash = h.hash
      BY DEF Fields
    <3> QED BY <2>5, <3>1, <3>2, <3>3, Taking, Numbers DEF FinishInit, mapVars
  <2> QED BY <1>4, <2>1, <2>2, <2>3, <2>4, <2>5 DEF RegionSteps
<1> QED BY <1>1, <1>2, <1>3, <1>4

LEMMA AgesKept ==
  ASSUME TypeOK, Shared, Ages, [Next]_vars
  PROVE  Ages'
<1> SUFFICES ASSUME NEW r \in Regions PROVE Aged(r)'
  BY DEF Ages
<1>1. /\ recordedDisk[r] \in Nat /\ recorded[r] \in Nat /\ started[r] \in Nat
      /\ world[r] \in Nat /\ region[r].hash \in Nat /\ Aged(r)
  BY Numbers DEF TypeOK, Ages
<1>2. ASSUME NEW w \in Workers, RegionSteps(w)
      PROVE  Aged(r)'
  <2>1. UNCHANGED <<world, started, recordedDisk>>
    BY <1>2 DEF RegionSteps, ClaimNothing, ClaimNext, ClaimFirst, FinishInit,
                InitFails, ProcessTile, Complete, diskVars, worldVars
  <2>2. CASE r = sub[w]
    BY <1>1, <1>2, <2>1, <2>2, OwnFields DEF Aged
  <2>3. CASE r # sub[w]
    BY <1>1, <1>2, <2>1, <2>3, ElsewhereUnaffected DEF Aged, Unaffected
  <2> QED BY <2>2, <2>3
<1>3. ASSUME NEW w \in Workers, OtherSteps(w)
      PROVE  Aged(r)'
  <2>1. /\ UNCHANGED <<world, started>>
        /\ UNCHANGED recordedDisk \/ recordedDisk' = recorded
    BY <1>3 DEF OtherSteps, MoveOn, EnterSub, StartSave, SaveTiles, SaveChunks,
                diskVars, worldVars
  <2> QED BY <1>1, <1>3, <2>1, OthersUnaffected DEF Aged, Unaffected
<1>4. CASE Crash
  <2>1. region'[r].hash = NoHash
    BY <1>4 DEF Crash, FreshRegion
  <2> QED BY <1>1, <1>4, <2>1 DEF Crash, worldVars, Aged
<1>5. CASE Cancel
  <2>1. PICK f \in Fields : f = region[r]
    BY DEF Shared, WorkTypes
  <2>2. region'[r] = [f EXCEPT !.cancelled = TRUE]
    BY <1>5, <2>1 DEF Cancel
  <2>3. region'[r].hash = region[r].hash
    BY <2>1, <2>2 DEF Fields
  <2> QED BY <1>1, <1>5, <2>3 DEF Cancel, mapVars, diskVars, worldVars, Aged
<1>6. ASSUME NEW q \in Regions, WorldChanges(q)
      PROVE  Aged(r)'
  <2>1. world'[r] \in Nat /\ world[r] <= world'[r]
    BY <1>1, <1>6 DEF WorldChanges, TypeOK
  <2> QED BY <1>1, <1>6, <2>1
    DEF WorldChanges, taskVars, mapVars, diskVars, Aged
<1>7. CASE Retire \/ SaveQueue \/ Done \/ UNCHANGED vars
  BY <1>1, <1>7 DEF Retire, SaveQueue, Done, vars, taskVars, mapVars, diskVars,
                    worldVars, Aged
<1> QED
  BY <1>2, <1>3, <1>4, <1>5, <1>6, <1>7, StepKinds DEF Next, Surroundings

LEMMA StaysBehind ==
  ASSUME NEW w \in Workers, Work(w) \/ InitFails(w)
  PROVE  /\ UNCHANGED <<crashes, queueFile, world, started>>
         /\ overtaken \subseteq overtaken'
         /\ Forgotten \subseteq Forgotten'
         /\ UNCHANGED overtaken \/ Complete(w)
<1>1. /\ UNCHANGED <<crashes, queueFile, world, started>>
      /\ overtaken \subseteq overtaken' /\ (UNCHANGED overtaken \/ Complete(w))
  BY DEF Work, InitFails, MoveOn, EnterSub, ClaimNothing, ClaimNext,
         ClaimFirst,
         FinishInit, ProcessTile, Complete, Overtake, StartSave, SaveTiles,
         SaveChunks, diskVars, worldVars
<1> QED BY <1>1 DEF Forgotten

LEMMA TakenTile ==
  ASSUME Shared, NEW w \in Workers, NEW f, Takes(w, f), NEW r, r = sub[w]
  PROVE  /\ AtTile(r)' = AtTile(r) \cup {w} /\ w \notin AtTile(r)
         /\ tile'[w] = f.next + 1
         /\ \A v \in AtTile(r) : tile'[v] = tile[v]
  BY DEF Takes, Turn, Shared, WorkTypes, AtTile

LEMMA FinishedTile ==
  ASSUME Shared, NEW w \in Workers, ProcessTile(w), NEW r, r = sub[w]
  PROVE  /\ r \in Regions /\ w \in AtTile(r) /\ tile[w] \in 1 .. Tiles
         /\ AtTile(r)' = AtTile(r) \ {w}
         /\ \A v \in AtTile(r)' : tile'[v] = tile[v]
         /\ region'[r].next = region[r].next
         /\ region'[r].actions = region[r].actions
         /\ region'[r].hash = region[r].hash
<1>1. PICK p, t, g :
        /\ p \in {"out", "complete"} /\ g = [region[r] EXCEPT !.atWork = @ - 1]
        /\ Turn(w, p, t, g)
  BY ProcessesTile DEF Finishes
<1>2. pc[w] = "tile" /\ r \in Regions /\ w \in AtTile(r)
  BY DEF ProcessTile, Shared, Places, Placed, AtTile
<1>3. tile[w] \in 1 .. Tiles
  BY <1>2, Numbers DEF Shared, WorkTypes, Fields, Places, Placed
<1>4. \A v \in Workers : v # w => /\ pc'[v] = pc[v] /\ sub'[v] = sub[v]
                                 /\ tile'[v] = tile[v]
  BY <1>1 DEF Turn, Shared, WorkTypes
<1>5. pc'[w] # "tile"
  BY <1>1 DEF Turn, Shared, WorkTypes
<1>6. AtTile(r)' = AtTile(r) \ {w}
  BY <1>4, <1>5 DEF AtTile
<1>7. region'[r] = g
  BY <1>1, <1>2 DEF Turn, Shared, WorkTypes
<1>8. /\ g.next = region[r].next /\ g.actions = region[r].actions
      /\ g.hash = region[r].hash
  <2> PICK f \in Fields : f = region[r]
    BY <1>2 DEF Shared, WorkTypes
  <2> QED BY <1>1 DEF Fields
<1> QED BY <1>2, <1>3, <1>4, <1>6, <1>7, <1>8 DEF AtTile

(* What becomes of the tiles of the region.                                *)
LEMMA FateOfTiles ==
  ASSUME TypeOK, Shared, NEW w \in Workers, ProcessTile(w), NEW r, r = sub[w],
         NEW u \in 1 .. Tiles
  PROVE  \/ u \in failed'[r] /\ tile[w] = u /\ drawn'[r][u] = drawn[r][u]
         \/ /\ tile[w] = u /\ drawn'[r][u] \in Nat
            /\ region[r].hash <= drawn'[r][u]
         \/ /\ tile[w] # u \/ u \notin region[r].actions
            /\ drawn'[r][u] = drawn[r][u]
            /\ u \in failed'[r] <=> u \in failed[r]
<1>1. PICK t \in 1 .. Tiles : t = tile[w] /\ r \in Regions
  BY FinishedTile
<1>2. CASE Drawn(r, t)
  <2>1. PICK v \in region[r].hash .. world[r] :
          /\ drawn' = [drawn EXCEPT ![r][t] = v]
    BY <1>2 DEF Drawn
  <2>2. region[r].hash \in Nat /\ world[r] \in Nat
    BY <1>1, Numbers DEF Shared, WorkTypes, Fields, TypeOK
  <2>3. v \in Nat /\ region[r].hash <= v
    BY <2>1, <2>2
  <2>4. drawn'[r][u] = IF u = t THEN v ELSE drawn[r][u]
    BY <1>1, <2>1 DEF TypeOK
  <2>5. u # t => (u \in failed'[r] <=> u \in failed[r])
    BY <1>1, <1>2 DEF Drawn, TypeOK
  <2> QED BY <1>1, <2>3, <2>4, <2>5
<1>3. CASE Failed(r, t)
  BY <1>1, <1>3 DEF Failed, TypeOK
<1>4. CASE Spared(r, t)
  BY <1>1, <1>4 DEF Spared
<1> QED BY <1>1, <1>2, <1>3, <1>4, Fates

LEMMA OwnProgress ==
  ASSUME TypeOK, Shared, RecordedNotNewerThanDrawn, Progress,
         NEW w \in Workers, RegionSteps(w), NEW r \in Regions \ Forgotten,
         r = sub[w],
         region'[r].next > 0, region'[r].hash # NoHash, NEW t \in 1 .. Tiles
  PROVE  Settled(r, t)'
<1>1. region[r] \in Fields /\ drawn[r][t] \in Nat /\ region[r].hash \in Nat
      /\ region[r].next \in Nat
  <2>1. r \in Regions /\ region[r] \in Fields
    BY DEF Shared, WorkTypes
  <2>2. drawn[r] \in [1 .. Tiles -> Versions]
    BY <2>1 DEF TypeOK
  <2>3. region[r].hash \in Nat /\ region[r].next \in Nat
    BY <2>1, FieldNumbers, Zenon
  <2>4. drawn[r][t] \in Versions
    BY <2>2
  <2> QED BY <2>1, <2>3, <2>4, Numbers, Zenon
<1>2. CASE ClaimNothing(w)
  <2>1. /\ UNCHANGED <<region, drawn, failed>> /\ AtTile(r)' = AtTile(r)
        /\ \A v \in AtTile(r) : tile'[v] = tile[v]
    BY <1>2
    DEF ClaimNothing, Leave, taskVars, mapVars, AtTile, Shared, WorkTypes
  <2> QED BY <2>1 DEF Progress, Settled, ToDraw
<1>3. CASE ClaimNext(w)
  <2>1. Takes(w, region[r])
    BY <1>3, ClaimsNext
  <2>2. /\ region[r].next < Tiles /\ region'[r] = Advanced(region[r])
        /\ region[r].hash # NoHash
    BY <2>1 DEF Takes, Turn, Shared, WorkTypes
  <2>3. /\ region'[r].next = region[r].next + 1
        /\ region'[r].hash = region[r].hash
        /\ region'[r].actions = region[r].actions
    BY <1>1, <2>2, Taking
  <2>4. Settled(r, t) /\ UNCHANGED <<drawn, failed>>
    BY <1>3, <2>2 DEF ClaimNext, Progress, Stopped, mapVars
  <2>5. ToDraw(r, t) => ToDraw(r, t)'
    BY <1>1, <2>1, <2>3, TakenTile DEF ToDraw
  <2> QED BY <2>3, <2>4, <2>5 DEF Settled
<1>4. CASE ClaimFirst(w) \/ Complete(w)
  BY <1>4, OwnFields
<1>5. CASE InitFails(w)
  <2>1. Leaves(w, "out", [region[r] EXCEPT !.cancelled = TRUE])
    BY <1>5, FailsInit
  <2>2. region'[r].next = region[r].next
    BY <2>1 DEF Leaves, Turn, Shared, WorkTypes
  <2>3. region[r].next = 0
    BY <1>5 DEF InitFails, Shared, Places, Placed
  <2> QED BY <2>2, <2>3
<1>6. CASE FinishInit(w)
  <2>1. PICK h : h = [region[r] EXCEPT !.actions = TileActions(r), !.next = 0]
    OBVIOUS
  <2>2. h.next = 0 /\ h.hash = region[r].hash /\ h.actions = TileActions(r)
    BY <1>1, <2>1 DEF Fields
  <2>3. Takes(w, h)
    <3>1. ASSUME NEW g, Leaves(w, "out", g), region[r].next = 0
          PROVE  FALSE
      BY <3>1 DEF Leaves, Turn, Shared, WorkTypes
    <3>2. region[r].next = 0
      BY <1>6 DEF FinishInit, Shared, Places, Placed
    <3> QED BY <1>6, <2>1, <3>1, <3>2, FinishesInit
  <2>4. /\ h \in Fields /\ h.next < Tiles /\ region'[r] = Advanced(h)
    BY <2>3 DEF Takes, Turn, Shared, WorkTypes
  <2>5. /\ region'[r].next = 1 /\ region'[r].hash = region[r].hash
        /\ region'[r].actions = TileActions(r)
    BY <2>2, <2>4, Taking
  <2>6. UNCHANGED <<drawn, failed>>
    BY <1>6 DEF FinishInit, mapVars
  <2>7. t \in TileActions(r) => ToDraw(r, t)'
    BY <1>1, <2>2, <2>3, <2>5, TakenTile DEF ToDraw
  <2>8. t \notin TileActions(r)
          => t \in failed[r] \/ region[r].hash <= drawn[r][t]
    BY DEF TileActions, RecordedNotNewerThanDrawn
  <2> QED BY <2>5, <2>6, <2>7, <2>8 DEF Settled
<1>7. CASE ProcessTile(w)
  <2>1. region[r].next > 0 /\ region[r].hash # NoHash
    BY <1>7, FinishedTile
  <2>2. Settled(r, t)
    BY <2>1 DEF Progress
  <2>3. ToDraw(r, t) /\ tile[w] # t => ToDraw(r, t)'
    BY <1>7, FinishedTile DEF ToDraw
  <2> QED BY <1>7, <1>1, <2>2, <2>3, FinishedTile, FateOfTiles
    DEF Settled, ToDraw
<1> QED BY <1>2, <1>3, <1>4, <1>5, <1>6, <1>7 DEF RegionSteps

LEMMA TileNumbers ==
  ASSUME TypeOK, NEW r \in Regions
  PROVE  /\ recorded[r] \in Nat /\ recordedDisk[r] \in Nat
         /\ started[r] \in Nat /\ world[r] \in Nat
         /\ \A t \in 1 .. Tiles : drawn[r][t] \in Nat
<1>1. /\ recorded[r] \in Versions /\ recordedDisk[r] \in Versions
      /\ started[r] \in Versions /\ world[r] \in Versions
      /\ drawn[r] \in [1 .. Tiles -> Versions]
  BY DEF TypeOK
<1> QED BY <1>1, Numbers

(* What is no newer than the record stays no newer than the tile.          *)
LEMMA Redrawn ==
  ASSUME TypeOK, Shared, Ages, NEW w \in Workers, RegionSteps(w),
         NEW r \in Regions, NEW t \in 1 .. Tiles, NEW k \in Nat,
         k <= recorded[r]
  PROVE  /\ k <= drawn[r][t] => k <= drawn'[r][t]
         /\ t \in failed[r] => t \in failed'[r] \/ k <= drawn'[r][t]
<1>1. CASE ProcessTile(w) /\ r = sub[w]
  <2>1. w \in AtTile(r)
    BY <1>1, FinishedTile
  <2>2. region[r].hash # NoHash
    BY <2>1 DEF Shared, Places, Placed, AtTile
  <2>3. recorded[r] <= region[r].hash
    BY <2>2 DEF Ages, Aged
  <2>4. region[r].hash \in Nat /\ recorded[r] \in Nat
    BY FieldNumbers, TileNumbers DEF Shared, WorkTypes
  <2>5. region[r].hash <= drawn'[r][t] /\ drawn'[r][t] \in Nat
          => k <= drawn'[r][t]
    BY <2>3, <2>4
  <2> QED BY <1>1, <2>5, FateOfTiles
<1>2. CASE r # sub[w]
  BY <1>2, ElsewhereUnaffected DEF Unaffected
<1>3. CASE ~ProcessTile(w)
  BY <1>3 DEF RegionSteps, ClaimNothing, ClaimNext, ClaimFirst, FinishInit,
              InitFails, Complete, mapVars
<1> QED BY <1>1, <1>2, <1>3

LEMMA CompletedRegion ==
  ASSUME TypeOK, Shared, Progress, NEW w \in Workers, Complete(w),
         NEW r \in Regions \ Forgotten, r = sub[w], NEW t \in 1 .. Tiles
  PROVE  t \in failed[r] \/ region[r].hash <= drawn[r][t]
<1>1. /\ region[r].next > 0 /\ region[r].completed /\ region[r].atWork = 0
      /\ region[r].hash # NoHash
  BY DEF Complete, Shared, Places, Placed
<1>2. AtTile(r) = {}
  BY <1>1, AtTileFinite DEF Shared, Cursors
<1>3. region[r].next = Tiles
  BY <1>1 DEF Shared, Cursors, CursorFits
<1>4. ~ToDraw(r, t)
  BY <1>2, <1>3, Numbers DEF ToDraw
<1> QED BY <1>1, <1>4 DEF Progress, Settled

DrawnInv == /\ Ages /\ Progress /\ HalfSaved
            /\ RecordedNotNewerThanDrawn /\ DiskRemembersFailures

LEMMA RegionStepsDraw ==
  ASSUME TypeOK, Shared, DrawnInv, NEW w \in Workers, RegionSteps(w)
  PROVE  /\ Progress' /\ HalfSaved'
         /\ RecordedNotNewerThanDrawn' /\ DiskRemembersFailures'
<1>1. /\ UNCHANGED <<failedDisk, recordedDisk>>
      /\ Forgotten \subseteq Forgotten' /\ overtaken \subseteq overtaken'
  <2>1. Work(w) \/ InitFails(w)
    BY DEF RegionSteps, Work
  <2> QED
    BY <2>1, StaysBehind
    DEF RegionSteps, ClaimNothing, ClaimNext, ClaimFirst, FinishInit,
        InitFails, ProcessTile, Complete, diskVars
<1>2. Progress'
  <2> SUFFICES ASSUME NEW r \in Regions \ Forgotten, NEW t \in 1 .. Tiles,
                      region'[r].next > 0, region'[r].hash # NoHash
               PROVE  Settled(r, t)'
    BY <1>1 DEF Progress
  <2>1. CASE r = sub[w]
    BY <2>1, OwnProgress DEF DrawnInv
  <2>2. CASE r # sub[w]
    <3>1. Unaffected(r)
      BY <2>2, ElsewhereUnaffected
    <3>2. Settled(r, t)
      BY <3>1 DEF DrawnInv, Progress, Unaffected
    <3> QED BY <3>1, <3>2 DEF Unaffected, Settled, ToDraw
  <2> QED BY <2>1, <2>2
<1>3. ASSUME NEW r \in Regions, ~(Complete(w) /\ r = sub[w])
      PROVE  recorded'[r] = recorded[r]
  BY <1>3, OwnFields, ElsewhereUnaffected DEF Unaffected
<1>4. RecordedNotNewerThanDrawn'
  <2> SUFFICES ASSUME NEW r \in Regions \ Forgotten, NEW t \in 1 .. Tiles
               PROVE  t \in failed'[r] \/ recorded'[r] <= drawn'[r][t]
    BY <1>1 DEF RecordedNotNewerThanDrawn
  <2>1. CASE Complete(w) /\ r = sub[w]
    <3>1. t \in failed[r] \/ region[r].hash <= drawn[r][t]
      BY <2>1, CompletedRegion DEF DrawnInv
    <3>2. UNCHANGED <<drawn, failed>>
      BY <2>1 DEF Complete
    <3>3. recorded'[r] = region[r].hash
      BY <2>1, OwnFields DEF ClaimFirst, Complete
    <3> QED BY <3>1, <3>2, <3>3
  <2>2. CASE ~(Complete(w) /\ r = sub[w])
    <3>1. t \in failed[r] \/ recorded[r] <= drawn[r][t]
      BY DEF DrawnInv, RecordedNotNewerThanDrawn
    <3>2. recorded[r] \in Nat /\ recorded[r] <= recorded[r]
      BY TileNumbers
    <3> QED BY <1>3, <2>2, <3>1, <3>2, Redrawn DEF DrawnInv
  <2> QED BY <2>1, <2>2
<1>5. DiskRemembersFailures'
  <2> SUFFICES ASSUME NEW r \in Regions \ overtaken, NEW t \in 1 .. Tiles
               PROVE  t \in failedDisk[r] \/ recordedDisk[r] <= drawn'[r][t]
    BY <1>1 DEF DiskRemembersFailures
  <2>1. t \in failedDisk[r] \/ recordedDisk[r] <= drawn[r][t]
    BY DEF DrawnInv, DiskRemembersFailures
  <2>2. recordedDisk[r] \in Nat /\ recordedDisk[r] <= recorded[r]
    BY TileNumbers DEF DrawnInv, Ages, Aged
  <2> QED BY <2>1, <2>2, Redrawn DEF DrawnInv
<1>6. HalfSaved'
  <2> SUFFICES ASSUME NEW v \in Workers, pc'[v] = "saveChunks",
                      NEW r \in Regions, r \notin overtaken',
                      NEW t \in 1 .. Tiles
               PROVE  t \in failedDisk[r] \/ recorded'[r] <= drawn'[r][t]
    BY <1>1 DEF HalfSaved
  <2>1. pc[v] = "saveChunks"
    BY DEF RegionSteps, ClaimNothing, ClaimNext, ClaimFirst, FinishInit,
           TakeTile,
           InitFails, ProcessTile, LeaveTile, Complete, Leave, Shared,
           WorkTypes
  <2>2. ~(Complete(w) /\ r = sub[w])
    BY <2>1 DEF Complete, Overtake
  <2>3. t \in failedDisk[r] \/ recorded[r] <= drawn[r][t]
    BY <1>1, <2>1 DEF DrawnInv, HalfSaved
  <2>4. recorded[r] \in Nat /\ recorded[r] <= recorded[r]
    BY TileNumbers
  <2> QED BY <1>3, <2>2, <2>3, <2>4, Redrawn DEF DrawnInv
<1> QED BY <1>2, <1>4, <1>5, <1>6

LEMMA OtherStepsDraw ==
  ASSUME TypeOK, Shared, DrawnInv, NEW w \in Workers, OtherSteps(w)
  PROVE  /\ Progress' /\ HalfSaved'
         /\ RecordedNotNewerThanDrawn' /\ DiskRemembersFailures'
<1>1. /\ UNCHANGED <<region, drawn, failed, recorded, overtaken, crashes>>
      /\ \/ UNCHANGED <<failedDisk, recordedDisk>>
              /\ \A v \in Workers : pc'[v] = "saveChunks"
                     => pc[v] = "saveChunks"
         \/ failedDisk' = failed /\ UNCHANGED recordedDisk
         \/ recordedDisk' = recorded /\ UNCHANGED failedDisk
              /\ pc[w] = "saveChunks"
              /\ \A v \in Workers : pc'[v] = "saveChunks"
                     => pc[v] = "saveChunks"
  BY DEF OtherSteps, MoveOn, EnterSub, StartSave, SaveTiles, SaveChunks, Leave,
         taskVars, mapVars, diskVars, worldVars, Shared, WorkTypes
<1>2. Forgotten' = Forgotten /\ Forgotten \subseteq overtaken
  BY <1>1 DEF Forgotten
<1>3. Progress'
  <2> SUFFICES ASSUME NEW r \in Regions \ Forgotten, NEW t \in 1 .. Tiles,
                      region[r].next > 0, region[r].hash # NoHash
               PROVE  Settled(r, t)'
    BY <1>1, <1>2 DEF Progress
  <2>1. Unaffected(r)
    BY OthersUnaffected
  <2>2. Settled(r, t)
    BY DEF DrawnInv, Progress
  <2> QED BY <2>1, <2>2 DEF Unaffected, Settled, ToDraw
<1>4. RecordedNotNewerThanDrawn'
  BY <1>1, <1>2 DEF DrawnInv, RecordedNotNewerThanDrawn
<1>5. \A r \in Regions \ overtaken : \A t \in 1 .. Tiles :
        \/ t \in failed[r]
        \/ recorded[r] <= drawn[r][t] /\ recordedDisk[r] <= drawn[r][t]
  BY <1>2, TileNumbers DEF DrawnInv, RecordedNotNewerThanDrawn, Ages, Aged
<1>6. HalfSaved'
  BY <1>1, <1>5 DEF DrawnInv, HalfSaved
<1>7. DiskRemembersFailures'
  BY <1>1, <1>5 DEF DrawnInv, HalfSaved, DiskRemembersFailures
<1> QED BY <1>3, <1>4, <1>6, <1>7

LEMMA SurroundingsDraw ==
  ASSUME TypeOK, Shared, DrawnInv,
         Retire \/ Surroundings \/ Done \/ UNCHANGED vars
  PROVE  /\ Progress' /\ HalfSaved'
         /\ RecordedNotNewerThanDrawn' /\ DiskRemembersFailures'
<1>1. CASE Crash
  <2>1. /\ Forgotten' = overtaken /\ UNCHANGED <<overtaken, drawn>>
        /\ failed' = failedDisk /\ recorded' = recordedDisk
        /\ UNCHANGED <<failedDisk, recordedDisk>>
    BY <1>1 DEF Crash, Forgotten, worldVars, TypeOK
  <2>2. Progress'
    BY <1>1 DEF Crash, Progress, FreshRegion
  <2>3. HalfSaved'
    BY <1>1 DEF Crash, HalfSaved
  <2>4. RecordedNotNewerThanDrawn' /\ DiskRemembersFailures'
    BY <2>1 DEF DrawnInv, DiskRemembersFailures, RecordedNotNewerThanDrawn
  <2> QED BY <2>2, <2>3, <2>4
<1>2. ASSUME ~Crash
      PROVE  /\ UNCHANGED <<pc, sub, tile, drawn, failed, recorded, failedDisk,
                            recordedDisk, crashes, overtaken>>
             /\ UNCHANGED region \/ Cancel
  BY <1>2
  DEF Retire, Surroundings, Cancel, SaveQueue, WorldChanges, Done, vars,
              poolVars, taskVars, mapVars, diskVars, worldVars
<1>3. ASSUME ~Crash, NEW r \in Regions
      PROVE  /\ region'[r].next = region[r].next
             /\ region'[r].hash = region[r].hash
             /\ region'[r].actions = region[r].actions
  <2>1. CASE Cancel
    <3>1. PICK f \in Fields : f = region[r]
      BY DEF Shared, WorkTypes
    <3>2. region'[r] = [f EXCEPT !.cancelled = TRUE]
      BY <2>1, <3>1 DEF Cancel
    <3> QED BY <3>1, <3>2 DEF Fields
  <2> QED BY <1>2, <1>3, <2>1
<1>4. ASSUME ~Crash
      PROVE  /\ Progress' /\ HalfSaved'
             /\ RecordedNotNewerThanDrawn' /\ DiskRemembersFailures'
  <2>1. \A r \in Regions : AtTile(r)' = AtTile(r)
    BY <1>2, <1>4 DEF AtTile
  <2>2. Progress'
    BY <1>2, <1>3, <1>4, <2>1
    DEF DrawnInv, Progress, Settled, ToDraw, Forgotten
  <2>3. HalfSaved' /\ RecordedNotNewerThanDrawn' /\ DiskRemembersFailures'
    BY <1>2, <1>4 DEF DrawnInv, HalfSaved, RecordedNotNewerThanDrawn,
                      DiskRemembersFailures, Forgotten
  <2> QED BY <2>2, <2>3
<1> QED BY <1>1, <1>4

LEMMA DrawnAlways == Spec => [](TypeOK /\ Shared /\ DrawnInv)
<1>1. Init => DrawnInv
  <2> SUFFICES ASSUME Init PROVE DrawnInv
    OBVIOUS
  <2>1. Ages
    BY Numbers DEF Init, FreshRegion, Ages, Aged, Versions
  <2>2. Progress
    BY DEF Init, FreshRegion, Progress
  <2>3. HalfSaved
    BY DEF Init, HalfSaved
  <2>4. RecordedNotNewerThanDrawn /\ DiskRemembersFailures
    BY DEF Init, RecordedNotNewerThanDrawn, DiskRemembersFailures
  <2> QED BY <2>1, <2>2, <2>3, <2>4 DEF DrawnInv
<1>2. TypeOK /\ Shared /\ DrawnInv /\ [Next]_vars => DrawnInv'
  <2> SUFFICES ASSUME TypeOK, Shared, DrawnInv, [Next]_vars PROVE DrawnInv'
    OBVIOUS
  <2>1. Ages'
    BY AgesKept DEF DrawnInv
  <2>2. ASSUME NEW w \in Workers, Work(w) \/ InitFails(w)
        PROVE  DrawnInv'
    BY <2>1, <2>2, StepKinds, RegionStepsDraw, OtherStepsDraw DEF DrawnInv
  <2>3. CASE Retire \/ Surroundings \/ Done \/ UNCHANGED vars
    BY <2>1, <2>3, SurroundingsDraw DEF DrawnInv
  <2> QED BY <2>2, <2>3 DEF Next
<1> QED BY SharingAlways, <1>1, <1>2, PTL DEF Spec

(* The chunk hashes that #complete records are never newer than what the   *)
(* tiles of the region show, unless a tile is marked as failed: the next   *)
(* update sees every change this one has missed.                           *)
THEOREM RecordsCorrect == Spec => []RecordedNotNewerThanDrawn
<1>1. DrawnInv => RecordedNotNewerThanDrawn
  BY DEF DrawnInv
<1> QED BY DrawnAlways, <1>1, PTL

(* The same of what BmMap.save leaves on disk, whenever the process dies:  *)
(* the tile state goes first, so a failure is not forgotten behind a hash. *)
THEOREM DiskCorrect == Spec => []DiskRemembersFailures
<1>1. DrawnInv => DiskRemembersFailures
  BY DEF DrawnInv
<1> QED BY DrawnAlways, <1>1, PTL
------------------------------------------------------------------------------
LEMMA Bystanders ==
  ASSUME Shared, NEW w \in Workers, RegionSteps(w) \/ OtherSteps(w)
  PROVE  /\ \A v \in Workers : v # w => pc'[v] = pc[v] /\ sub'[v] = sub[v]
         /\ UNCHANGED finished
         /\ RegionSteps(w) =>
              /\ UNCHANGED <<cursor, saved, recordedDisk>>
              /\ pc[w] \in {"queued", "init", "tile", "complete"}
  BY DEF RegionSteps, OtherSteps, MoveOn, EnterSub, ClaimNothing, ClaimNext,
         ClaimFirst, FinishInit, TakeTile, InitFails, ProcessTile, LeaveTile,
         Complete, Leave, StartSave, SaveTiles, SaveChunks, Shared, WorkTypes,
         taskVars, diskVars

LEMMA OwnFlags ==
  ASSUME TypeOK, Shared, Shared', Ages, Passed, crashes = 0,
         NEW w \in Workers, RegionSteps(w), NEW r \in Regions, r = sub[w]
  PROVE  /\ Stopped(r) => Stopped(r)'
         /\ region'[r].completed =>
              \/ region'[r].cancelled
              \/ started[r] <= recorded'[r]
              \/ Within(r, {"tile", "complete"})'
         /\ region[r].cancelled => region'[r].cancelled
<1>1. PICK f \in Fields : f = region[r]
  BY DEF Shared, WorkTypes
<1>2. f.completed => \/ f.cancelled
                     \/ started[r] <= recorded[r]
                     \/ Within(r, {"tile", "complete"})
  BY <1>1 DEF Passed
<1>3. ASSUME pc[w] \in {"queued", "init"}, Within(r, {"tile", "complete"})
      PROVE  Within(r, {"tile", "complete"})'
  BY <1>3, Bystanders DEF Within
<1>4. CASE ClaimNothing(w)
  <2>1. UNCHANGED <<region, recorded>> /\ pc[w] = "queued"
    BY <1>4 DEF ClaimNothing, taskVars, mapVars
  <2> QED BY <1>1, <1>2, <1>3, <2>1 DEF Stopped
<1>5. CASE ClaimNext(w)
  <2>1. Within(r, {"tile", "complete"})'
    BY <1>5 DEF ClaimNext, TakeTile, Within, Shared, WorkTypes
  <2>2. ~Stopped(r)
    BY <1>5 DEF ClaimNext
  <2> QED BY <2>1, <2>2 DEF Stopped
<1>6. CASE ClaimFirst(w)
  <2>1. region'[r] = [f EXCEPT !.hash = world[r]] /\ ~Stopped(r)
    BY <1>1, <1>6 DEF ClaimFirst, Shared, WorkTypes
  <2>2. region'[r].completed = f.completed
    BY <2>1 DEF Fields
  <2> QED BY <1>1, <2>1, <2>2 DEF Stopped
<1>7. CASE InitFails(w)
  <2>1. region'[r] = [f EXCEPT !.cancelled = TRUE]
    BY <1>1, <1>7 DEF InitFails, Shared, WorkTypes
  <2>2. region'[r].cancelled
    BY <2>1 DEF Fields
  <2> QED BY <2>2 DEF Stopped
<1>8. CASE FinishInit(w)
  <2>1. PICK h : h = [region[r] EXCEPT !.actions = TileActions(r), !.next = 0]
    OBVIOUS
  <2>2. /\ h.completed = f.completed /\ h.cancelled = f.cancelled
        /\ h.actions = TileActions(r)
        /\ [h EXCEPT !.completed = TRUE].completed
        /\ [h EXCEPT !.completed = TRUE].cancelled = f.cancelled
    BY <1>1, <2>1 DEF Fields
  <2>3. pc[w] = "init" /\ UNCHANGED recorded
    BY <1>8 DEF FinishInit, mapVars
  <2>4. CASE h.actions = {} /\ region'[r] = [h EXCEPT !.completed = TRUE]
    <3>1. region[r].hash = recorded[r]
      <4>1. 1 \in 1 .. Tiles
        BY Numbers
      <4> QED BY <2>2, <2>4, <4>1 DEF TileActions
    <3>2. started[r] <= recorded[r]
      BY <2>3, <3>1 DEF Ages, Aged, Shared, Places, Placed
    <3> QED BY <1>1, <2>2, <2>3, <2>4, <3>2 DEF Stopped
  <2>5. CASE region'[r] = h
    BY <1>1, <1>2, <1>3, <2>2, <2>3, <2>5 DEF Stopped
  <2>6. CASE ~Stopped(r) /\ TakeTile(w, h)
    <3>1. Within(r, {"tile", "complete"})'
      BY <2>6 DEF TakeTile, Within, Shared, WorkTypes
    <3> QED BY <2>6, <3>1 DEF Stopped
  <2> QED
    BY <1>1, <1>8, <2>1, <2>4, <2>5, <2>6 DEF FinishInit, Shared, WorkTypes
<1>9. CASE ProcessTile(w)
  <2>1. PICK g : /\ g = [f EXCEPT !.atWork = @ - 1]
                 /\ region'[r] = g /\ LeaveTile(w, g)
    BY <1>1, <1>9 DEF ProcessTile, Shared, WorkTypes
  <2>2. g.completed = f.completed /\ g.cancelled = f.cancelled
    BY <2>1 DEF Fields
  <2>3. CASE g.atWork = 0 /\ g.completed /\ ~g.cancelled
    <3>1. Within(r, {"tile", "complete"})'
      BY <2>1, <2>3 DEF LeaveTile, Within, Shared, WorkTypes
    <3> QED BY <1>1, <2>1, <2>2, <3>1 DEF Stopped
  <2>4. CASE g.atWork # 0
    <3>1. AtTile(r)' # {}
      <4>1. /\ AtTile(r)' = AtTile(r) \ {w} /\ w \in AtTile(r)
            /\ f.atWork = Cardinality(AtTile(r))
        BY <1>1, <1>9, FinishedTile DEF Shared, Cursors
      <4>2. g.atWork = f.atWork - 1
        BY <2>1 DEF Fields
      <4> QED BY <2>4, <4>1, <4>2, AtTileFinite, FS_RemoveElement, FS_EmptySet
    <3>2. Within(r, {"tile", "complete"})'
      BY <3>1 DEF AtTile, Within
    <3> QED BY <1>1, <2>1, <2>2, <3>2 DEF Stopped
  <2>5. CASE ~g.completed \/ g.cancelled
    BY <1>1, <2>1, <2>2, <2>5 DEF Stopped
  <2> QED BY <2>3, <2>4, <2>5
<1>10. CASE Complete(w)
  <2>1. region'[r] = [f EXCEPT !.hash = NoHash]
    BY <1>1, <1>10 DEF Complete, Shared, WorkTypes
  <2>2. /\ region'[r].completed = f.completed
        /\ region'[r].cancelled = f.cancelled
    BY <2>1 DEF Fields
  <2>3. started[r] <= recorded'[r]
    BY <1>10, OwnFields DEF Ages, Aged, ClaimFirst, Complete
  <2> QED BY <1>1, <2>2, <2>3 DEF Stopped
<1> QED
  BY <1>4, <1>5, <1>6, <1>7, <1>8, <1>9, <1>10 DEF RegionSteps

LEMMA CancelsStay ==
  ASSUME TypeOK, Shared, NEW w \in Workers, RegionSteps(w), NEW r \in Regions,
         r = sub[w],
         region[r].cancelled
  PROVE  region'[r].cancelled
<1>1. PICK f \in Fields : f = region[r] /\ f.cancelled
  BY DEF Shared, WorkTypes
<1>2. \/ region'[r] = f
      \/ \E h \in Versions \cup {NoHash} : region'[r] = [f EXCEPT !.hash = h]
      \/ region'[r] = [f EXCEPT !.cancelled = TRUE]
      \/ \E a :
           \/ region'[r] = [[f EXCEPT !.actions = a, !.next = 0]
                              EXCEPT !.completed = TRUE]
           \/ region'[r] = [f EXCEPT !.actions = a, !.next = 0]
      \/ region'[r] = [f EXCEPT !.atWork = @ - 1]
  <2>1. CASE ClaimNothing(w)
    BY <1>1, <2>1 DEF ClaimNothing, taskVars
  <2>2. CASE ClaimNext(w) \/ ClaimFirst(w)
    BY <1>1, <2>2 DEF ClaimNext, ClaimFirst, Stopped
  <2>3. CASE InitFails(w)
    BY <1>1, <2>3 DEF InitFails, Shared, WorkTypes
  <2>4. CASE FinishInit(w)
    BY <1>1, <2>4 DEF FinishInit, Stopped, Shared, WorkTypes
  <2>5. CASE ProcessTile(w)
    BY <1>1, <2>5 DEF ProcessTile, Shared, WorkTypes
  <2>6. CASE Complete(w)
    BY <1>1, <2>6 DEF Complete, Shared, WorkTypes
  <2> QED BY <2>1, <2>2, <2>3, <2>4, <2>5, <2>6 DEF RegionSteps
<1> QED BY <1>1, <1>2 DEF Fields

LEMMA RegionStepsEnd ==
  ASSUME TypeOK, Shared, Shared', Ages, EndInv, NEW w \in Workers,
         RegionSteps(w)
  PROVE  EndInv'
<1>1. /\ UNCHANGED <<crashes, world, started, cursor, saved, finished,
                     recordedDisk>>
      /\ overtaken \subseteq overtaken'
      /\ pc[w] \in {"queued", "init", "tile", "complete"}
      /\ \A v \in Workers : v # w => pc'[v] = pc[v] /\ sub'[v] = sub[v]
  <2>1. Work(w) \/ InitFails(w)
    BY DEF RegionSteps, Work
  <2> QED BY <2>1, StaysBehind, Bystanders
<1>2. w \in Inside
  BY <1>1 DEF Inside
<1>3. RetiredLast'
  BY <1>1, <1>2 DEF EndInv, RetiredLast
<1>4. Passed'
  <2> SUFFICES ASSUME crashes = 0, NEW r \in Regions
               PROVE  /\ r < cursor => Stopped(r)'
                      /\ region'[r].completed =>
                           \/ region'[r].cancelled
                           \/ started[r] <= recorded'[r]
                           \/ Within(r, {"tile", "complete"})'
    BY <1>1 DEF Passed
  <2>1. CASE r = sub[w]
    BY <2>1, OwnFlags DEF EndInv, Passed
  <2>2. CASE r # sub[w]
    <3>1. region'[r] = region[r] /\ recorded'[r] = recorded[r]
      BY <2>2, ElsewhereUnaffected DEF Unaffected
    <3>2. Within(r, {"tile", "complete"}) => Within(r, {"tile", "complete"})'
      BY <1>1, <2>2 DEF Within
    <3> QED BY <3>1, <3>2 DEF EndInv, Passed, Stopped
  <2> QED BY <2>1, <2>2
<1>5. LastSave'
  <2> SUFFICES ASSUME Subs \in Saves, saved[Subs] \/ cursor > Subs
               PROVE  /\ saved[Subs]
                      /\ \/ Within(Subs, SaveStages)'
                         \/ \E r \in Regions : region'[r].cancelled
                         \/ \A r \in Regions \ overtaken' :
                              recordedDisk[r] = recorded'[r]
    BY <1>1 DEF LastSave
  <2>1. saved[Subs]
    BY <1>2 DEF EndInv, LastSave
  <2>2. CASE Within(Subs, SaveStages)
    BY <1>1, <2>1, <2>2 DEF Within, SaveStages
  <2>3. ASSUME NEW r \in Regions, region[r].cancelled
        PROVE  region'[r].cancelled
    BY <2>3, CancelsStay, ElsewhereUnaffected DEF Unaffected
  <2>4. CASE \A r \in Regions \ overtaken : recordedDisk[r] = recorded[r]
    <3> SUFFICES ASSUME NEW r \in Regions, r \notin overtaken'
                 PROVE  recorded'[r] = recorded[r]
      BY <1>1, <2>1, <2>4
    <3>1. ~(Complete(w) /\ r = sub[w])
      BY <2>1 DEF Complete, Overtake
    <3> QED BY <3>1, OwnFields, ElsewhereUnaffected DEF Unaffected
  <2> QED BY <2>1, <2>2, <2>3, <2>4 DEF EndInv, LastSave
<1> QED BY <1>3, <1>4, <1>5 DEF EndInv

LEMMA OtherStepsEnd ==
  ASSUME TypeOK, Shared, EndInv, NEW w \in Workers, OtherSteps(w)
  PROVE  EndInv'
<1>1. /\ UNCHANGED <<region, recorded, crashes, started, overtaken, finished>>
      /\ pc[w] \notin {"tile", "complete"}
      /\ \A v \in Workers : v # w => pc'[v] = pc[v] /\ sub'[v] = sub[v]
      /\ UNCHANGED recordedDisk \/ recordedDisk' = recorded
  BY Bystanders
  DEF OtherSteps, MoveOn, EnterSub, StartSave, SaveTiles, SaveChunks,
      taskVars, mapVars, diskVars, worldVars
<1>2. cursor \in Nat /\ cursor' \in Nat
  BY Numbers DEF TypeOK, OtherSteps, MoveOn, EnterSub, StartSave, SaveTiles,
                 SaveChunks, Leave
<1>3. RetiredLast'
  <2>1. finished => cursor > Subs /\ pc[w] = "out"
    BY DEF EndInv, RetiredLast, Inside
  <2>2. ~finished
    BY <2>1, <1>2, Numbers
    DEF OtherSteps, MoveOn, EnterSub, StartSave, SaveTiles, SaveChunks,
        HasMoreWork
  <2> QED BY <1>1, <2>2 DEF RetiredLast
<1>4. \A r \in Regions : r < cursor' => r < cursor \/ Stopped(r)
  <2>1. CASE MoveOn(w)
    <3>1. cursor' = cursor + 1 /\ ~SubHasMoreWork(cursor)
      BY <2>1 DEF MoveOn
    <3>2. cursor \in Regions => Stopped(cursor)
      BY <3>1, Numbers DEF SubHasMoreWork, Stopped
    <3> QED BY <1>2, <3>1, <3>2, Numbers
  <2>2. CASE ~MoveOn(w)
    BY <2>2 DEF OtherSteps, EnterSub, StartSave, SaveTiles, SaveChunks, Leave
  <2> QED BY <2>1, <2>2
<1>5. Passed'
  <2>1. \A r \in Regions :
          Within(r, {"tile", "complete"}) => Within(r, {"tile", "complete"})'
    BY <1>1 DEF Within
  <2> QED BY <1>1, <1>4, <2>1 DEF EndInv, Passed, Stopped
<1>6. LastSave'
  <2> SUFFICES ASSUME Subs \in Saves PROVE LastSave'
    BY DEF LastSave
  <2>1. CASE MoveOn(w)
    <3>1. cursor' = cursor + 1 /\ ~SubHasMoreWork(cursor) /\ cursor <= Subs
          /\ UNCHANGED <<pc, sub, saved, recordedDisk>>
      BY <2>1 DEF MoveOn, HasMoreWork, taskVars, diskVars
    <3>2. cursor = Subs => saved[Subs]
      BY <3>1 DEF SubHasMoreWork
    <3>3. cursor' > Subs => saved[Subs]
      BY <1>2, <3>1, <3>2, Numbers
    <3> QED BY <1>1, <3>1, <3>3 DEF EndInv, LastSave, Within
  <2>2. CASE EnterSub(w)
    <3>1. cursor <= Subs /\ cursor' = cursor /\ pc[w] = "out"
          /\ sub' = [sub EXCEPT ![w] = cursor] /\ UNCHANGED recordedDisk
      BY <2>2 DEF EnterSub, HasMoreWork, diskVars
    <3>2. ~(cursor' > Subs)
      BY <1>2, <3>1, Numbers
    <3>3. CASE cursor = Subs
      <4>1. pc'[w] = "saveQueued" /\ sub'[w] = Subs
        BY <2>2, <3>1, <3>3 DEF EnterSub, Shared, WorkTypes
      <4> QED BY <3>2, <4>1 DEF LastSave, Within, SaveStages
    <3>4. CASE cursor # Subs
      <4>1. saved'[Subs] = saved[Subs]
        BY <2>2, <3>4 DEF EnterSub, TypeOK
      <4>2. Within(Subs, SaveStages) => Within(Subs, SaveStages)'
        BY <1>1, <3>1 DEF Within, SaveStages
      <4> QED BY <1>1, <3>1, <3>2, <4>1, <4>2 DEF EndInv, LastSave
    <3> QED BY <3>3, <3>4
  <2>3. CASE StartSave(w) \/ SaveTiles(w) \/ SaveChunks(w)
    <3>1. /\ UNCHANGED <<cursor, saved>> /\ pc[w] \in SaveStages
          /\ \/ SaveChunks(w)
             \/ /\ sub' = sub /\ pc'[w] \in SaveStages
                /\ UNCHANGED recordedDisk
      BY <2>3 DEF StartSave, SaveTiles, SaveChunks, Leave, taskVars, diskVars,
                  SaveStages, Shared, WorkTypes
    <3>2. cursor > Subs => saved[Subs]
      BY <3>1 DEF EndInv, LastSave, Inside, SaveStages
    <3>3. SaveChunks(w) => recordedDisk' = recorded
      BY DEF SaveChunks
    <3>4. CASE SaveChunks(w)
      BY <1>1, <3>1, <3>2, <3>3, <3>4 DEF LastSave
    <3>5. CASE ~SaveChunks(w)
      <4>1. Within(Subs, SaveStages) => Within(Subs, SaveStages)'
        BY <1>1, <3>1, <3>5 DEF Within
      <4> QED BY <1>1, <3>1, <3>2, <3>5, <4>1 DEF EndInv, LastSave
    <3> QED BY <3>4, <3>5
  <2> QED BY <2>1, <2>2, <2>3 DEF OtherSteps
<1> QED BY <1>3, <1>5, <1>6 DEF EndInv

LEMMA SurroundingsEnd ==
  ASSUME TypeOK, Shared, EndInv,
         Retire \/ Surroundings \/ Done \/ UNCHANGED vars
  PROVE  EndInv'
<1>1. CASE Crash
  <2>1. crashes' # 0 /\ ~finished' /\ Inside' = {} /\ recorded' = recordedDisk'
    BY <1>1 DEF Crash, Inside, TypeOK
  <2> QED BY <2>1 DEF EndInv, Passed, RetiredLast, LastSave
<1>2. CASE Cancel
  <2>1. /\ UNCHANGED <<crashes, started, recorded, recordedDisk, overtaken,
                       cursor, finished, pc, sub>>
        /\ Subs \in Saves => saved'[Subs]
        /\ \A r \in Regions :
             region'[r] = [region[r] EXCEPT !.cancelled = TRUE]
    BY <1>2 DEF Cancel, poolVars, mapVars, diskVars, worldVars
  <2>2. \A r \in Regions : region'[r].cancelled
    <3>1. \A f \in Fields : [f EXCEPT !.cancelled = TRUE].cancelled
      BY DEF Fields
    <3> QED BY <2>1, <3>1 DEF Shared, WorkTypes
  <2>3. Passed' /\ LastSave'
    BY <2>1, <2>2 DEF Passed, Stopped, LastSave
  <2> QED BY <2>1, <2>3 DEF EndInv, RetiredLast, Inside
<1>3. CASE Retire
  <2>1. cursor > Subs /\ Inside = {}
    BY <1>3, Numbers DEF Retire, HasMoreWork, TypeOK
  <2> QED
    BY <1>3, <2>1
    DEF Retire, EndInv, RetiredLast, Passed, LastSave, Stopped, Within,
                      Inside, taskVars, mapVars, diskVars, worldVars
<1>4. CASE SaveQueue \/ (\E r \in Regions : WorldChanges(r)) \/ Done
           \/ UNCHANGED vars
  <2>1. UNCHANGED <<cursor, finished, crashes, pc, sub, saved, region, started,
                    overtaken, recorded, recordedDisk>>
    BY <1>4
    DEF SaveQueue, WorldChanges, Done, vars, poolVars, taskVars, mapVars,
                diskVars, worldVars
  <2> QED
    BY <2>1 DEF EndInv, RetiredLast, Passed, LastSave, Stopped, Within, Inside
<1> QED BY <1>1, <1>2, <1>3, <1>4 DEF Surroundings

LEMMA EndAlways == Spec => [](TypeOK /\ Shared /\ DrawnInv /\ EndInv)
<1>1. Init => EndInv
  <2> SUFFICES ASSUME Init PROVE EndInv
    OBVIOUS
  <2>1. Passed
    BY Numbers DEF Init, Passed, FreshRegion
  <2>2. RetiredLast
    BY DEF Init, RetiredLast
  <2>3. LastSave
    BY DEF Init, LastSave, Inside
  <2> QED BY <2>1, <2>2, <2>3 DEF EndInv
<1>2. TypeOK /\ Shared /\ DrawnInv /\ EndInv /\ [Next]_vars => EndInv'
  <2> SUFFICES ASSUME TypeOK, Shared, DrawnInv, EndInv, [Next]_vars
               PROVE  EndInv'
    OBVIOUS
  <2>1. ASSUME NEW w \in Workers, Work(w) \/ InitFails(w)
        PROVE  EndInv'
    BY <2>1, SharingKept, StepKinds, RegionStepsEnd, OtherStepsEnd DEF DrawnInv
  <2>2. CASE Retire \/ Surroundings \/ Done \/ UNCHANGED vars
    BY <2>2, SurroundingsEnd
  <2> QED BY <2>1, <2>2 DEF Next
<1> QED BY DrawnAlways, <1>1, <1>2, PTL DEF Spec

(* An update that ends uncancelled has drawn, or marked as failed, every   *)
(* tile of what it found when it began: the turns of the pool, the cursor  *)
(* of CombinedRenderTask and the tile cursors leave nothing out.           *)
THEOREM UpdateCorrect == Spec => []UpdateDrawsWhatItFound
<1>1. TypeOK /\ Shared /\ DrawnInv /\ EndInv => UpdateDrawsWhatItFound
  <2> SUFFICES ASSUME TypeOK, DrawnInv, EndInv, finished,
                      NEW r \in Regions \ Forgotten, NEW t \in 1 .. Tiles,
                      ~region[r].cancelled, t \notin failed[r]
               PROVE  \/ drawn[r][t] >= started[r]
                      \/ crashes > 0 /\ recorded[r] < started[r]
    BY DEF UpdateDrawsWhatItFound
  <2>1. recorded[r] <= drawn[r][t]
    BY DEF DrawnInv, RecordedNotNewerThanDrawn
  <2>2. recorded[r] \in Nat /\ drawn[r][t] \in Nat /\ started[r] \in Nat
    BY TileNumbers
  <2>3. CASE crashes = 0
    <3>1. cursor > Subs /\ Inside = {}
      BY DEF EndInv, RetiredLast
    <3>2. r < cursor
      BY <3>1, Numbers DEF TypeOK
    <3>3. ~Within(r, {"tile", "complete"})
      BY <3>1 DEF Within, Inside
    <3>4. started[r] <= recorded[r]
      BY <2>3, <3>2, <3>3 DEF EndInv, Passed, Stopped
    <3> QED BY <2>1, <2>2, <3>4
  <2>4. CASE crashes # 0
    <3>1. crashes > 0
      BY <2>4 DEF TypeOK
    <3> QED BY <2>1, <2>2, <3>1
  <2> QED BY <2>3, <2>4
<1> QED BY EndAlways, <1>1, PTL

(* An update that ends with a MapSaveTask, and uncancelled, leaves on disk *)
(* all that its regions recorded before that save began.                   *)
THEOREM SaveCorrect == Spec => []TrailingSaveCovers
<1>1. EndInv => TrailingSaveCovers
  <2> SUFFICES ASSUME EndInv, finished, Subs \in Saves,
                      \A r \in Regions : ~region[r].cancelled
               PROVE  \A r \in Regions \ overtaken :
                        recordedDisk[r] = recorded[r]
    BY DEF TrailingSaveCovers
  <2>1. cursor > Subs /\ ~Within(Subs, SaveStages)
    BY DEF EndInv, RetiredLast, Inside, Within, SaveStages
  <2> QED BY <2>1 DEF EndInv, LastSave
<1> QED BY EndAlways, <1>1, PTL
=============================================================================
