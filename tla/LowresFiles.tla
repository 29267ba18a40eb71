---------------------------- MODULE LowresFiles ----------------------------
(***************************************************************************)
(* A layer of low-resolution tiles over the files it is kept in:           *)
(* LowresLayer, with the file of one tile as FileItem has it               *)
(* (engine/src/map/lowres/LowresLayer.ts on FileGridStorage.ts and         *)
(* FileItemStorage.ts of storage/file).  Where the chain or a save of the  *)
(* layer reads or writes this tile it calls the file storage, and goes on  *)
(* when that returns or throws.  Reading or writing another tile stays one *)
(* step: items share nothing.  Beside them the web server reads the tile,  *)
(* and a purge of the map removes it.                                      *)
(*                                                                         *)
(* The process may die at any moment.  It loses what it has in memory, and *)
(* begins again with the files as they are.                                *)
(***************************************************************************)
EXTENDS LowresLayer, FileItem

CONSTANTS
  Watched,    \* the tile whose file is modelled
  MaxCrashes  \* bound: deaths of the process

ASSUME FilesAssumption ==
  /\ Watched \in Tiles
  /\ Users = Actors \cup {"web", "purge"}
  /\ Values = SUBSET Writes
  /\ MaxCrashes \in Nat

VARIABLE crashes  \* how often the process has died

filesVars == <<layerVars, itemVars, crashes>>

FilesInit == LayerInit /\ ItemInit /\ crashes = 0
------------------------------------------------------------------------------
(* The chain reads the tile when it has no instance of it.                 *)
MustRead ==
  /\ actor["chain"].at = "access" /\ actor["chain"].tile = Watched
  /\ Watched \notin pending \cup cached

MustWrite(a) == actor[a].at = "write" /\ actor[a].saving = Watched

(* The steps of the layer that do not touch the file.  A purge is the only *)
(* task of the pool while it runs.                                         *)
Elsewhere ==
  /\ \/ at["purge"] = "idle" /\ (Save \/ \E t \in Tiles : Render(t))
     \/ \E t \in Tiles : Expire(t)
     \/ Take \/ Admit \/ Apply
     \/ ~MustRead /\ Access
     \/ \E a \in Actors :
          \/ Pick(a) \/ Forget(a) \/ EndSave(a)
          \/ ~MustWrite(a) /\ Write(a)
  /\ UNCHANGED <<itemVars, crashes>>

(* storage.read() of createTile, and of the web server; storage.write() of *)
(* saveTile.                                                               *)
ReadFile(c) ==
  /\ c = "web" \/ (c = "chain" /\ MustRead)
  /\ BeginCall(c, "read", NoFile, "looking")
  /\ UNCHANGED <<layerVars, crashes>>

WriteFile(a) ==
  /\ MustWrite(a)
  /\ BeginCall(a, "write", actor[a].bytes, "queued")
  /\ UNCHANGED <<layerVars, crashes>>

(* MapPurgeTask discards what is pending, then the storage lists its files *)
(* and removes them one by one, until it is through or cancelled.          *)
Purge ==
  /\ actor["save"].at = "idle"
  /\ Discard
  /\ BeginCall("purge", "delete", NoFile, "finding")
  /\ UNCHANGED crashes

(* What the layer takes the disk to hold.                                  *)
Held(file) == IF file \in Values THEN file ELSE {}

OnDisk == disk' = [disk EXCEPT ![Watched] = Held(item')]

Excuse == excused' = excused \cup {Watched}

InMemory == <<queue, actor, mem, cached, pending, writes, met, crashes>>

WorkOnFile(c) ==
  /\ \/ Open(c) \/ Fill(c) \/ CheckPart(c) \/ Move(c) \/ MoveDelayed(c)
     \/ Look(c) \/ OpenItem(c) \/ Fetch(c)
     \/ FindStorage(c)
  /\ OnDisk
  /\ UNCHANGED <<set, excused, InMemory>>

(* The purge takes the writes with it.                                     *)
Taken(t) == set' = [set EXCEPT ![t] = {}]

RemoveFile ==
  /\ RemoveStorage("purge")
  /\ OnDisk
  /\ Taken(Watched)
  /\ UNCHANGED <<excused, InMemory>>

RemoveOther(t) ==
  /\ at["purge"] \in {"removing", "done"} /\ t # Watched
  /\ disk' = [disk EXCEPT ![t] = {}]
  /\ Taken(t)
  /\ UNCHANGED <<excused, InMemory, itemVars>>

(* A write whose part file is not seen returns like one that was made, and *)
(* an item that is not seen is taken for missing.                          *)
FileUnseen(c) ==
  /\ StatFails(c)
  /\ IF c \in Actors THEN Excuse ELSE UNCHANGED excused
  /\ UNCHANGED <<set, disk, InMemory>>

(* createTile: the tile that was read, or a new one.                       *)
TileCreated(content) ==
  /\ cached' = cached \cup {Watched}
  /\ mem' = [mem EXCEPT ![Watched] = content]
  /\ Anew(Watched)
  /\ GoOn("chain", "admit")
  /\ UNCHANGED <<queue, pending, disk, set, writes, crashes>>

TileRead ==
  LET file == call["chain"].value
  IN  /\ MustRead
      /\ ReturnCall("chain")
      /\ \/ /\ file \in Values \cup {NoFile}
            /\ TileCreated(Held(file))
            /\ UNCHANGED excused
         \/ /\ file # NoFile
            /\ TileCreated({})
            /\ Excuse

TileUnreadable ==
  /\ MustRead
  /\ Throw("chain")
  /\ Excuse
  /\ TileCreated({})

(* saveTile goes on to forget the tile, or reports that it was not saved.  *)
WriteEnds(a) ==
  /\ MustWrite(a)
  /\ \/ ReturnCall(a) /\ GoOn(a, "forget")
     \/ Throw(a) /\ GoOn(a, "pick")
  /\ UNCHANGED <<queue, mem, cached, pending, disk, set, writes, excused, met,
                 crashes>>

(* A purge that is cancelled returns like one that fails.                  *)
OthersEnd(c) ==
  /\ c \notin Actors
  /\ ReturnCall(c) \/ Throw(c)
  /\ UNCHANGED <<layerVars, crashes>>

(* No tile has an instance now: what was not written is gone.  The part    *)
(* file of a writer is left behind.                                        *)
FilesCrash ==
  /\ crashes < MaxCrashes
  /\ crashes' = crashes + 1
  /\ ItemCrash
  /\ queue' = <<>>
  /\ actor' = [a \in Actors |-> Resting]
  /\ cached' = {} /\ pending' = {}
  /\ set' = [t \in Tiles |-> set[t] \cap disk[t]]
  /\ UNCHANGED <<mem, disk, writes, excused, met>>

FilesNext ==
  \/ Elsewhere
  \/ \E a \in Actors : WriteFile(a) \/ WriteEnds(a)
  \/ \E c \in Users : ReadFile(c) \/ WorkOnFile(c) \/ FileUnseen(c)
                      \/ OthersEnd(c)
  \/ TileRead \/ TileUnreadable
  \/ Purge \/ RemoveFile \/ \E t \in Tiles : RemoveOther(t)
  \/ FilesCrash

FilesSpec == FilesInit /\ [][FilesNext]_filesVars
==============================================================================
