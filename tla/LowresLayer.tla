---------------------------- MODULE LowresLayer ----------------------------
(***************************************************************************)
(* One layer of the low-resolution tiles of a map and the queue of cell    *)
(* writes in front of it (engine/src/map/lowres/LowresLayer.ts,            *)
(* LowresTileManager.ts).  Rendering a tile queues writes; a chain applies *)
(* them one after the other; a save of the map drains the chain and then   *)
(* writes the tiles with pending changes.                                  *)
(*                                                                         *)
(* A tile holds the set of writes it has received.  The next layer, which  *)
(* a saved tile is averaged into, is another instance of this module: its  *)
(* sets are calls this one makes between writing a tile and forgetting it. *)
(***************************************************************************)
EXTENDS Naturals, FiniteSets, Sequences

CONSTANTS
  Tiles,
  MaxPending,       \* MAX_PENDING
  DiscardThreshold, \* DISCARD_THRESHOLD
  MaxWrites         \* bound: calls of set()

ASSUME LowresAssumption ==
  /\ IsFiniteSet(Tiles) /\ Tiles # {}
  /\ MaxPending \in Nat \ {0}
  /\ DiscardThreshold \in 1 .. MaxPending
  /\ MaxWrites \in Nat

VARIABLES
  queue,   \* the writes waiting in the chain, as <<tile, write>>
  actor,   \* the chain and the save of the map, with their local variables
  mem,     \* the content of each tile's instance
  cached,  \* tiles in tileCache
  pending, \* tiles in pendingChanges
  disk,    \* what the storage holds of each tile
  set,     \* the writes each tile has received
  writes,  \* number of writes so far
  excused, \* tiles that a storage failure has made lose writes
  met      \* tiles the chain and a save, or two saves, were busy with,
           \* or had two instances of

layerVars ==
  <<queue, actor, mem, cached, pending, disk, set, writes, excused, met>>

Writes == 1 .. MaxWrites

(* The chain applies sets, and saves when too much is pending.             *)
Actors == {"chain", "save"}
AnyTile == CHOOSE t \in Tiles : TRUE
Resting ==
  [at |-> "idle", tile |-> AnyTile, todo |-> {}, saving |-> AnyTile,
   bytes |-> {}]

(* However many saves fail, MAX_PENDING bounds what is kept in memory.     *)
LayerTypeOK ==
  /\ queue \in Seq(Tiles \X Writes)
  /\ actor \in [Actors ->
       [at : {"idle", "access", "admit", "put", "pick", "write", "forget"},
        tile : Tiles, todo : SUBSET Tiles, saving : Tiles,
        bytes : SUBSET Writes]]
  /\ mem \in [Tiles -> SUBSET Writes]
  /\ cached \subseteq Tiles
  /\ pending \subseteq Tiles
  /\ Cardinality(pending) <= MaxPending
  /\ disk \in [Tiles -> SUBSET Writes]
  /\ set \in [Tiles -> SUBSET Writes]
  /\ writes \in 0 .. MaxWrites
  /\ excused \subseteq Tiles
  /\ met \subseteq Tiles

LayerInit ==
  /\ queue = <<>>
  /\ actor = [a \in Actors |-> Resting]
  /\ mem = [t \in Tiles |-> {}]
  /\ cached = {}
  /\ pending = {}
  /\ disk = mem
  /\ set = mem
  /\ writes = 0
  /\ excused = {}
  /\ met = {}

Go(a, step) == actor' = [actor EXCEPT ![a] = step]
GoOn(a, at) == Go(a, [actor[a] EXCEPT !.at = at])
GoSave(a) == Go(a, [actor[a] EXCEPT !.at = "pick", !.todo = pending])
------------------------------------------------------------------------------
(* LowresTileManager.set, called while a worker renders.                   *)
Render(t) ==
  /\ writes < MaxWrites
  /\ writes' = writes + 1
  /\ queue' = Append(queue, <<t, writes'>>)
  /\ UNCHANGED <<actor, mem, cached, pending, disk, set, excused, met>>

(* Who is at work on a tile: the chain from the access to the write, and   *)
(* whoever is between encoding a tile and forgetting it.                   *)
BusyWith(t) ==
  {a \in Actors :
     \/ a = "chain" /\ actor[a].at # "idle" /\ actor[a].tile = t
     \/ actor[a].at \in {"write", "forget"} /\ actor[a].saving = t}

Meet(a, t) == met' = IF BusyWith(t) \ {a} = {} THEN met ELSE met \cup {t}

Take ==
  LET t == Head(queue)[1]
  IN  /\ actor["chain"].at = "idle" /\ queue # <<>>
      /\ Go("chain", [actor["chain"] EXCEPT !.at = "access", !.tile = t])
      /\ Meet("chain", t)
      /\ UNCHANGED <<queue, mem, cached, pending, disk, set, writes, excused>>

(* A save that has not come to a tile yet keeps the instance it has, which *)
(* is an old one when the tile is read anew; mem does not follow that one. *)
Anew(t) ==
  met' = IF \E a \in Actors : t \in actor[a].todo THEN met \cup {t} ELSE met

(* accessTile: the instance with unsaved changes, the cached one, or the   *)
(* one read from storage; a tile that cannot be read is replaced.          *)
AccessIgnoringPending ==
  LET t == actor["chain"].tile
  IN  /\ actor["chain"].at = "access"
      /\ GoOn("chain", "admit")
      /\ cached' = cached \cup {t}
      /\ mem' = IF t \in cached THEN mem ELSE [mem EXCEPT ![t] = disk[t]]
      /\ UNCHANGED <<queue, pending, disk, set, writes, excused, met>>

Access ==
  LET t == actor["chain"].tile
  IN  /\ actor["chain"].at = "access"
      /\ GoOn("chain", "admit")
      /\ \/ /\ t \in pending \cup cached
            /\ UNCHANGED <<mem, cached, excused, met>>
         \/ /\ t \notin pending \cup cached
            /\ cached' = cached \cup {t}
            /\ Anew(t)
            /\ \/ mem' = [mem EXCEPT ![t] = disk[t]] /\ UNCHANGED excused
               \/ /\ mem' = [mem EXCEPT ![t] = {}]
                  /\ excused' = excused \cup {t}
      /\ UNCHANGED <<queue, pending, disk, set, writes>>

Admit ==
  /\ actor["chain"].at = "admit"
  /\ IF Cardinality(pending) >= MaxPending
     THEN GoSave("chain") /\ UNCHANGED pending
     ELSE /\ pending' = pending \cup {actor["chain"].tile}
          /\ GoOn("chain", "put")
  /\ UNCHANGED <<queue, mem, cached, disk, set, writes, excused, met>>

Apply ==
  LET t == Head(queue)[1]
      w == Head(queue)[2]
  IN  /\ actor["chain"].at = "put"
      /\ mem' = [mem EXCEPT ![t] = @ \cup {w}]
      /\ set' = [set EXCEPT ![t] = @ \cup {w}]
      /\ queue' = Tail(queue)
      /\ Go("chain", Resting)
      /\ UNCHANGED <<cached, pending, disk, writes, excused, met>>

(* The tile cache forgets a tile it has not been asked for.                *)
Expire(t) ==
  /\ t \in cached
  /\ actor["chain"].at = "idle" \/ actor["chain"].tile # t
  /\ cached' = cached \ {t}
  /\ UNCHANGED <<queue, actor, mem, pending, disk, set, writes, excused, met>>
------------------------------------------------------------------------------
(* save(): of the map, once flush() found the chain idle, or of the chain. *)
Save ==
  /\ actor["save"].at = "idle"
  /\ queue = <<>> /\ actor["chain"].at = "idle"
  /\ GoSave("save")
  /\ UNCHANGED <<queue, mem, cached, pending, disk, set, writes, excused, met>>

(* saveTile: the tile is encoded before the write is awaited.              *)
Pick(a) ==
  /\ actor[a].at = "pick"
  /\ \E t \in actor[a].todo :
       /\ Go(a, [actor[a] EXCEPT !.at = "write", !.todo = @ \ {t},
                                !.saving = t, !.bytes = mem[t]])
       /\ Meet(a, t)
  /\ UNCHANGED <<queue, mem, cached, pending, disk, set, writes, excused>>

Write(a) ==
  /\ actor[a].at = "write"
  /\ \/ /\ disk' = [disk EXCEPT ![actor[a].saving] = actor[a].bytes]
        /\ GoOn(a, "forget")
     \/ GoOn(a, "pick") /\ UNCHANGED disk
  /\ UNCHANGED <<queue, mem, cached, pending, set, writes, excused, met>>

Forget(a) ==
  /\ actor[a].at = "forget"
  /\ pending' = pending \ {actor[a].saving}
  /\ GoOn(a, "pick")
  /\ UNCHANGED <<queue, mem, cached, disk, set, writes, excused, met>>

(* The chain goes on to admit its own tile, the save of the map is over.   *)
Resume(a) ==
  IF a = "chain" THEN GoOn(a, "put") ELSE Go(a, Resting)

Admitted(a) == IF a = "chain" THEN {actor[a].tile} ELSE {}

EndSave(a) ==
  /\ actor[a].at = "pick" /\ actor[a].todo = {}
  /\ IF Cardinality(pending) >= DiscardThreshold
     THEN /\ pending' = Admitted(a)
          /\ excused' = excused \cup pending
     ELSE /\ pending' = pending \cup Admitted(a)
          /\ UNCHANGED excused
  /\ Resume(a)
  /\ UNCHANGED <<queue, mem, cached, disk, set, writes, met>>

(* discard(), called by MapPurgeTask: what is pending is given up.         *)
Discard ==
  /\ queue = <<>> /\ actor["chain"].at = "idle"
  /\ pending' = {}
  /\ cached' = {}
  /\ excused' = excused \cup pending
  /\ UNCHANGED <<queue, actor, mem, disk, set, writes, met>>

LayerNext ==
  \/ \E t \in Tiles : Render(t) \/ Expire(t)
  \/ Take \/ Access \/ Admit \/ Apply
  \/ Save \/ Discard
  \/ \E a \in Actors : Pick(a) \/ Write(a) \/ Forget(a) \/ EndSave(a)

LayerSpec == LayerInit /\ [][LayerNext]_layerVars
------------------------------------------------------------------------------
(* Tiles whose writes must not be lost: no storage failure has hit them,   *)
(* and the chain was not busy with them, nor a second save, in the middle  *)
(* of their save, nor has one been read anew before a save came to it,     *)
(* none of which anything prevents.                                        *)
Sound == Tiles \ (excused \cup met)

(* "Calling it and ignoring the promise is therefore safe, and save /      *)
(* discard drain the queue first" (LowresTileManager): a tile that has     *)
(* received a write keeps it pending until the storage has it.             *)
WritesReachStorage ==
  \A t \in Sound : t \in pending \/ set[t] \subseteq disk[t]
==============================================================================
