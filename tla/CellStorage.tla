---------------------------- MODULE CellStorage ----------------------------
(***************************************************************************)
(* The render state of a map on disk, read and written through a cache of  *)
(* cells (engine/src/map/renderstate/CellStorage.ts, with the set() of     *)
(* MapTileState, MapChunkState and MapRegionState on top).  A cell object  *)
(* holds a set of writes, one per entry that was set; the disk holds one   *)
(* such set per position.                                                  *)
(*                                                                         *)
(* Clients are the callers that may be inside the storage at a time; the   *)
(* pool lets two workers be there.                                         *)
(***************************************************************************)
EXTENDS Naturals, Sequences, FiniteSets, SequencesExt

CONSTANTS
  Clients,
  Positions,
  CacheSize,  \* CACHE_SIZE
  MaxWrites,  \* bound: calls of set()
  MaxCells    \* bound: cells created

ASSUME CacheAssumption ==
  /\ IsFiniteSet(Clients)
  /\ Positions # {}
  /\ CacheSize \in Nat \ {0}
  /\ MaxWrites \in Nat
  /\ MaxCells \in Nat

VARIABLES
  cells,   \* the cached cell of each cached position, eldest first
  heap,    \* every cell object that was created
  disk,    \* what the grid storage holds at each position
  client,  \* where each client is, and its local variables
  acked,   \* the writes that set() has returned from
  writes,  \* number of writes so far
  failed,  \* positions whose content an I/O failure has dropped
  raced    \* positions two clients were busy with at a time

cellVars == <<cells, heap, disk, client, acked, writes, failed, raced>>

Writes == 1 .. MaxWrites
Cells == 0 .. MaxCells

AnyPosition == CHOOSE p \in Positions : TRUE

Resting == [at |-> "idle", pos |-> AnyPosition, cell |-> 0, bytes |-> {},
         todo |-> <<>>, target |-> AnyPosition,
         due |-> [p \in Positions |-> {}]]

CellTypeOK ==
  /\ cells \in Seq([pos : Positions, cell : Cells \ {0}])
  /\ Len(cells) <= CacheSize
  /\ \A i, j \in DOMAIN cells : cells[i].pos = cells[j].pos => i = j
  /\ heap \in Seq([content : SUBSET Writes, modified : BOOLEAN])
  /\ \A i \in DOMAIN cells : cells[i].cell <= Len(heap)
  /\ disk \in [Positions -> SUBSET Writes]
  /\ acked \in [Positions -> SUBSET Writes]
  /\ writes \in 0 .. MaxWrites
  /\ failed \subseteq Positions
  /\ raced \subseteq Positions

CellInit ==
  /\ cells = <<>>
  /\ heap = <<>>
  /\ disk = [p \in Positions |-> {}]
  /\ client = [c \in Clients |-> Resting]
  /\ acked = [p \in Positions |-> {}]
  /\ writes = 0
  /\ failed = {}
  /\ raced = {}

Content(h, cell) == h[cell].content
IsModified(h, cell) == h[cell].modified

Cached(p) == {i \in DOMAIN cells : cells[i].pos = p}

(* The position whose cell or file a client is busy with.                  *)
BusyWith(k) ==
  CASE k.at \in {"load", "insert", "got"} -> {k.pos}
    [] k.at = "evict"                    -> {k.pos, k.target}
    [] k.at = "write"                    -> {k.target}
    [] OTHER                             -> {}

(* Client c takes a step that also drops the cells of some positions; a    *)
(* save may still hold these.                                              *)
GoDropping(c, next, dropped) ==
  LET heldBy(d) == {e.pos : e \in Range(client[d].todo)}
  IN  /\ client' = [client EXCEPT ![c] = next]
      /\ raced' = raced \cup
           {p \in Positions : \E d \in Clients \ {c} :
              \/ p \in BusyWith(next) \cup dropped /\ p \in BusyWith(client[d])
              \/ p \in dropped \cap heldBy(d)}

Go(c, next) == GoDropping(c, next, {})
GoOn(c, at) == Go(c, [client[c] EXCEPT !.at = at])
------------------------------------------------------------------------------
(* cell(): a hit moves the entry to the youngest position.                 *)
Hit(c, p) ==
  /\ client[c].at = "idle"
  /\ \E i \in Cached(p) :
       /\ cells' = Append(RemoveAt(cells, i), cells[i])
       /\ Go(c, [client[c] EXCEPT !.at = "got", !.pos = p,
                                  !.cell = cells[i].cell])
  /\ UNCHANGED <<heap, disk, acked, writes, failed>>

Loading == {c \in Clients : client[c].at \in {"load", "insert"}}

Miss(c, p) ==
  /\ client[c].at = "idle"
  /\ Cached(p) = {}
  /\ Len(heap) + Cardinality(Loading) < MaxCells
  /\ Go(c, [client[c] EXCEPT !.at = "load", !.pos = p])
  /\ UNCHANGED <<cells, heap, disk, acked, writes, failed>>

(* loadCell(): the stored cell, a fresh one after a read failure, or a     *)
(* fresh one and the file deleted when it does not decode.                 *)
Load(c) ==
  LET p == client[c].pos
  IN  /\ client[c].at = "load"
      /\ \/ /\ Go(c, [client[c] EXCEPT !.at = "insert", !.bytes = disk[p]])
            /\ UNCHANGED <<disk, failed>>
         \/ /\ Go(c, [client[c] EXCEPT !.at = "insert", !.bytes = {}])
            /\ failed' = failed \cup {p}
            /\ disk' \in {disk, [disk EXCEPT ![p] = {}]}
      /\ UNCHANGED <<cells, heap, acked, writes>>

(* Map.set keeps the place of a key that is present.                       *)
WithCell(p, cell) ==
  LET entry == [pos |-> p, cell |-> cell]
  IN  IF Cached(p) = {} THEN Append(cells, entry)
      ELSE [i \in DOMAIN cells |-> IF i \in Cached(p) THEN entry ELSE cells[i]]

Loaded(c) == Append(heap, [content |-> client[c].bytes, modified |-> FALSE])

(* The fresh entry goes in; when that makes one too many, the eldest goes  *)
(* out and is written if it was modified.                                  *)
InsertDroppingEldest(c) ==
  LET grown == WithCell(client[c].pos, Len(heap) + 1)
  IN  /\ client[c].at = "insert"
      /\ heap' = Loaded(c)
      /\ cells' = IF Len(grown) > CacheSize THEN Tail(grown) ELSE grown
      /\ Go(c, [client[c] EXCEPT !.at = "got", !.cell = Len(heap')])
      /\ UNCHANGED <<disk, acked, writes, failed>>

Insert(c) ==
  LET grown == WithCell(client[c].pos, Len(heap) + 1)
      eldest == Head(grown)
      evicting == Len(grown) > CacheSize
  IN  /\ client[c].at = "insert"
      /\ heap' = Loaded(c)
      /\ cells' = IF evicting THEN Tail(grown) ELSE grown
      /\ IF evicting /\ IsModified(heap', eldest.cell)
         THEN GoDropping(c, [client[c] EXCEPT
                               !.at = "evict", !.cell = Len(heap'),
                               !.target = eldest.pos,
                               !.bytes = Content(heap', eldest.cell)],
                         {eldest.pos})
         ELSE GoDropping(c, [client[c] EXCEPT !.at = "got",
                                              !.cell = Len(heap')],
                         IF evicting THEN {eldest.pos} ELSE {})
      /\ UNCHANGED <<disk, acked, writes, failed>>

(* saveCell() of the evicted cell; a failure is logged and the cell gone.  *)
Evict(c) ==
  LET p == client[c].target
  IN  /\ client[c].at = "evict"
      /\ \/ disk' = [disk EXCEPT ![p] = client[c].bytes] /\ UNCHANGED failed
         \/ failed' = failed \cup {p} /\ UNCHANGED disk
      /\ GoOn(c, "got")
      /\ UNCHANGED <<cells, heap, acked, writes>>

(* The continuation of set() and of get() on the cell that was handed out. *)
Set(c) ==
  /\ client[c].at = "got" /\ writes < MaxWrites
  /\ writes' = writes + 1
  /\ heap' = [heap EXCEPT ![client[c].cell] =
                [content |-> @.content \cup {writes'}, modified |-> TRUE]]
  /\ acked' = [acked EXCEPT ![client[c].pos] = @ \cup {writes'}]
  /\ Go(c, Resting)
  /\ UNCHANGED <<cells, disk, failed>>

Get(c) ==
  /\ client[c].at = "got"
  /\ Go(c, Resting)
  /\ UNCHANGED <<cells, heap, disk, acked, writes, failed>>
------------------------------------------------------------------------------
(* save(): the entries cached when it starts, one write after the other; a *)
(* cell is encoded when its turn comes.  BmMap runs one save at a time.    *)
Save(c) ==
  /\ client[c].at = "idle"
  /\ \A d \in Clients : client[d].at \notin {"save", "write"}
  /\ Go(c, [client[c] EXCEPT !.at = "save", !.todo = cells, !.due = acked])
  /\ UNCHANGED <<cells, heap, disk, acked, writes, failed>>

SaveCell(c) ==
  LET entry == Head(client[c].todo)
  IN  /\ client[c].at = "save" /\ client[c].todo # <<>>
      /\ IF IsModified(heap, entry.cell)
         THEN Go(c, [client[c] EXCEPT !.at = "write", !.todo = Tail(@),
                                      !.target = entry.pos,
                                      !.bytes = Content(heap, entry.cell)])
         ELSE Go(c, [client[c] EXCEPT !.todo = Tail(@)])
      /\ UNCHANGED <<cells, heap, disk, acked, writes, failed>>

Write(c) ==
  /\ client[c].at = "write"
  /\ disk' \in {disk, [disk EXCEPT ![client[c].target] = client[c].bytes]}
  /\ failed' = IF disk' # disk \/ client[c].bytes = disk[client[c].target]
               THEN failed ELSE failed \cup {client[c].target}
  /\ GoOn(c, "save")
  /\ UNCHANGED <<cells, heap, acked, writes>>

Saved(c) ==
  /\ client[c].at = "save" /\ client[c].todo = <<>>
  /\ Go(c, Resting)
  /\ UNCHANGED <<cells, heap, disk, acked, writes, failed>>

(* reset(), called by MapPurgeTask right after the storage was emptied;    *)
(* the pool lets no other task run meanwhile.                              *)
ResetKeepingCells ==
  /\ \A c \in Clients : client[c].at = "idle"
  /\ disk' = [p \in Positions |-> {}]
  /\ acked' = disk'
  /\ UNCHANGED <<cells, heap, client, writes, failed, raced>>

Reset ==
  /\ \A c \in Clients : client[c].at = "idle"
  /\ disk' = [p \in Positions |-> {}]
  /\ cells' = <<>>
  /\ acked' = disk'
  /\ UNCHANGED <<heap, client, writes, failed, raced>>

CellNext ==
  \/ \E c \in Clients :
       \/ \E p \in Positions : Hit(c, p) \/ Miss(c, p)
       \/ Load(c) \/ Insert(c) \/ Evict(c) \/ Set(c) \/ Get(c)
       \/ Save(c) \/ SaveCell(c) \/ Write(c) \/ Saved(c)
  \/ Reset

CellSpec == CellInit /\ [][CellNext]_cellVars
------------------------------------------------------------------------------
Sound == Positions \ (failed \cup raced)

(* "synchronized T cell(Vector2i pos)": whoever is handed a cell is handed *)
(* every write that was made to its position, whether the cell was cached, *)
(* evicted and read back, or never seen.  Not so where an I/O failure lost *)
(* some, or where two clients were busy with a position at a time: this    *)
(* cell() awaits, and is not synchronized.                                 *)
HandsOutEveryWrite ==
  \A c \in Clients : client[c].at = "got" /\ client[c].pos \in Sound
    => Content(heap, client[c].cell) = acked[client[c].pos]

Evicting(p) == {d \in Clients : client[d].at = "evict" /\ client[d].target = p}

(* When a save() returns, everything set before it began is on disk, or in *)
(* the hands of another client that is evicting it.                        *)
SaveIsComplete ==
  [][\A c \in Clients :
       client[c].at = "save" /\ client'[c].at = "idle"
         => \A p \in Sound :
              \/ client[c].due[p] \subseteq disk[p]
              \/ \E d \in Evicting(p) :
                   client[c].due[p] \subseteq client[d].bytes]_cellVars
==============================================================================
