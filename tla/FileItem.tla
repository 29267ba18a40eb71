------------------------------ MODULE FileItem ------------------------------
(***************************************************************************)
(* One item of the file storage under concurrent calls                     *)
(* (engine/src/storage/file/FileItemStorage.ts, atomic as the maps are     *)
(* configured): write() fills the sibling .filepart, looks whether it is   *)
(* there and renames it over the item, read() looks and then opens,        *)
(* delete() looks and then removes, with an await between any two of       *)
(* these.  The handle of a writer stays on its file, whatever name that    *)
(* has by then.                                                            *)
(***************************************************************************)
EXTENDS Naturals

CONSTANTS
  Users,        \* whoever calls the storage, each one call at a time
  Values,         \* what is written
  NoFile,        \* no file, for which read() answers null
  Empty, Torn,    \* a file just created or truncated; mixed bytes
  RenameAttempts  \* how often atomicMove tries (RENAME_ATTEMPTS, 6)

ASSUME ItemAssumption ==
  /\ NoFile \notin Values \cup {Empty, Torn}
  /\ RenameAttempts \in Nat \ {0}

VARIABLES
  item, part,  \* what is in the item and in its .filepart
  at,          \* the step of each client's call
  call,        \* the call: what it writes, or has read
  place,       \* where the file is that a writer has opened
  tries,       \* the attempts of atomicMove that failed
  overlap,     \* two writes have overlapped, and a call is still under way
  abandoned    \* a writer left the part file behind

itemVars == <<item, part, at, call, place, tries, overlap, abandoned>>

FileContents == Values \cup {Empty, Torn, NoFile}
NoCall == [op |-> "none", value |-> NoFile]
ItemCalls == [op : {"none", "write", "read", "delete"}, value : FileContents]
WriterSteps == {"open", "filled", "moving"}
Steps == WriterSteps \cup {"idle", "queued", "looking", "opening", "reading",
                           "finding", "removing", "done"}

ItemTypeOK ==
  /\ {item, part} \subseteq FileContents
  /\ at \in [Users -> Steps]
  /\ call \in [Users -> ItemCalls]
  /\ place \in [Users -> {"none", "part", "item", "gone"}]
  /\ tries \in [Users -> 0..(RenameAttempts - 1)]
  /\ {overlap, abandoned} \subseteq BOOLEAN

ItemInit ==
  /\ item = NoFile /\ part = NoFile
  /\ at = [c \in Users |-> "idle"]
  /\ call = [c \in Users |-> NoCall]
  /\ place = [c \in Users |-> "none"]
  /\ tries = [c \in Users |-> 0]
  /\ overlap = FALSE /\ abandoned = FALSE
-----------------------------------------------------------------------------
Inside == {c \in Users : at[c] \in WriterSteps}

Proceed(c, step) == at' = [at EXCEPT ![c] = step]
LetGo(c) == place' = [place EXCEPT ![c] = "none"]

BeginCall(c, op, v, step) ==
  /\ at[c] = "idle"
  /\ Proceed(c, step)
  /\ call' = [call EXCEPT ![c] = [op |-> op, value |-> v]]
  /\ UNCHANGED <<item, part, place, tries, overlap, abandoned>>

OpenInPlace(c) ==
  /\ at[c] = "queued"
  /\ item' = Empty
  /\ place' = [place EXCEPT ![c] = "item"]
  /\ Proceed(c, "open")
  /\ overlap' = (overlap \/ Inside # {})
  /\ abandoned' = FALSE
  /\ UNCHANGED <<part, call, tries>>

(* write().  Opening truncates a part file that is there.                  *)
Open(c) ==
  /\ at[c] = "queued"
  /\ part' = Empty
  /\ place' = [place EXCEPT ![c] = "part"]
  /\ Proceed(c, "open")
  /\ overlap' = (overlap \/ Inside # {})
  /\ abandoned' = FALSE
  /\ UNCHANGED <<item, call, tries>>

(* Two handles on one file write over each other.                          *)
Laid(file, v) == IF file = Empty THEN {v} ELSE {v, Torn}

Fill(c) ==
  /\ at[c] = "open"
  /\ IF place[c] = "part" THEN part' \in Laid(part, call[c].value)
                          ELSE UNCHANGED part
  /\ IF place[c] = "item" THEN item' \in Laid(item, call[c].value)
                          ELSE UNCHANGED item
  /\ Proceed(c, "filled")
  /\ UNCHANGED <<call, place, tries, overlap, abandoned>>

CheckPart(c) ==
  /\ at[c] = "filled"
  /\ IF part = NoFile THEN Proceed(c, "done") /\ LetGo(c)
                       ELSE Proceed(c, "moving") /\ UNCHANGED place
  /\ UNCHANGED <<item, part, call, tries, overlap, abandoned>>

(* The handles of the others follow their files.                           *)
Followed(d) ==
  CASE place[d] = "part" -> "item"
    [] place[d] = "item" -> "gone"
    [] OTHER -> place[d]

(* atomicMove() takes a part file that is gone for moved.                  *)
Move(c) ==
  /\ at[c] = "moving"
  /\ IF part = NoFile
     THEN /\ LetGo(c)
          /\ UNCHANGED item
     ELSE /\ item' = part
          /\ place' = [d \in Users |-> IF d = c THEN "none" ELSE Followed(d)]
  /\ part' = NoFile
  /\ abandoned' = FALSE
  /\ Proceed(c, "done")
  /\ tries' = [tries EXCEPT ![c] = 0]
  /\ UNCHANGED <<call, overlap>>

MoveDelayed(c) ==
  /\ at[c] = "moving"
  /\ tries[c] < RenameAttempts - 1
  /\ tries' = [tries EXCEPT ![c] = @ + 1]
  /\ UNCHANGED <<item, part, at, call, place, overlap, abandoned>>

(* read(): what is opened is read, whatever becomes of the name; only      *)
(* writers who overlap write to a file that has been moved.                *)
Look(c) ==
  /\ at[c] = "looking"
  /\ Proceed(c, IF item = NoFile THEN "done" ELSE "opening")
  /\ UNCHANGED <<item, part, call, place, tries, overlap, abandoned>>

OpenItem(c) ==
  /\ at[c] = "opening"
  /\ Proceed(c, IF item = NoFile THEN "done" ELSE "reading")
  /\ call' = [call EXCEPT ![c].value = item]
  /\ UNCHANGED <<item, part, place, tries, overlap, abandoned>>

Fetch(c) ==
  /\ at[c] = "reading"
  /\ \E v \in {call[c].value} \cup (IF overlap THEN {Torn} ELSE {}) :
       call' = [call EXCEPT ![c].value = v]
  /\ Proceed(c, "done")
  /\ UNCHANGED <<item, part, place, tries, overlap, abandoned>>

(* delete()                                                                *)
Find(c) ==
  /\ at[c] = "finding"
  /\ Proceed(c, IF item = NoFile THEN "done" ELSE "removing")
  /\ UNCHANGED <<item, part, call, place, tries, overlap, abandoned>>

RemoveItem(c) ==
  /\ at[c] = "removing"
  /\ item' = NoFile
  /\ place' = [d \in Users |->
                IF place[d] = "item" THEN "gone" ELSE place[d]]
  /\ Proceed(c, "done")
  /\ UNCHANGED <<part, call, tries, overlap, abandoned>>

(* The deletion of a whole storage (FileMapStorage.delete) removes what    *)
(* writers have left behind as well; who asks for it sees to it that       *)
(* nobody writes.                                                          *)
FindStorage(c) ==
  /\ at[c] = "finding"
  /\ Proceed(c, "removing")
  /\ UNCHANGED <<item, part, call, place, tries, overlap, abandoned>>

RemoveStorage(c) ==
  /\ at[c] = "removing"
  /\ Inside = {}
  /\ item' = NoFile /\ part' = NoFile
  /\ abandoned' = FALSE
  /\ Proceed(c, "done")
  /\ UNCHANGED <<call, place, tries, overlap>>

(* fileExists() answers false to any error, whatever is there.             *)
Leaves(c) == abandoned' = (abandoned \/ place[c] = "part")

StatFails(c) ==
  /\ at[c] \in {"filled", "looking", "finding"}
  /\ Proceed(c, "done") /\ LetGo(c)
  /\ Leaves(c)
  /\ UNCHANGED <<item, part, call, tries, overlap>>

(* A call is over, and with the last of them any overlap.                  *)
Over(c) ==
  /\ Proceed(c, "idle") /\ LetGo(c)
  /\ call' = [call EXCEPT ![c] = NoCall]
  /\ tries' = [tries EXCEPT ![c] = 0]
  /\ overlap' = (overlap /\ \E d \in Users \ {c} : at[d] # "idle")
  /\ UNCHANGED <<item, part>>

ReturnCall(c) ==
  /\ at[c] = "done"
  /\ Over(c)
  /\ UNCHANGED abandoned

(* Everything but the look at a file may throw.                            *)
Throw(c) ==
  /\ at[c] \in {"queued", "open", "filled", "moving", "opening", "reading",
                "removing"}
  /\ Over(c)
  /\ Leaves(c)

ItemCrash ==
  /\ at' = [c \in Users |-> "idle"]
  /\ call' = [c \in Users |-> NoCall]
  /\ place' = [c \in Users |-> "none"]
  /\ tries' = [c \in Users |-> 0]
  /\ overlap' = FALSE
  /\ abandoned' = (part # NoFile)
  /\ UNCHANGED <<item, part>>

Call(c) ==
  \/ \E v \in Values : BeginCall(c, "write", v, "queued")
  \/ BeginCall(c, "read", NoFile, "looking")
  \/ BeginCall(c, "delete", NoFile, "finding")

Step(c) ==
  \/ Open(c) \/ Fill(c) \/ CheckPart(c) \/ Move(c) \/ MoveDelayed(c)
  \/ Look(c) \/ OpenItem(c) \/ Fetch(c)
  \/ Find(c) \/ RemoveItem(c) \/ FindStorage(c) \/ RemoveStorage(c)
  \/ StatFails(c) \/ ReturnCall(c) \/ Throw(c)

ItemNext == (\E c \in Users : Call(c) \/ Step(c)) \/ ItemCrash

ItemSpec == ItemInit /\ [][ItemNext]_itemVars
-----------------------------------------------------------------------------
(* What the clients see: a write takes effect with the rename, a read with *)
(* the opening of the file, a removal with the unlink, and without a file  *)
(* at the look for it.                                                     *)
CallStage(c) ==
  IF at[c] = "idle" THEN "idle"
  ELSE IF at[c] \in {"reading", "done"} THEN "served" ELSE "called"

Seen == [c \in Users |-> [op |-> call[c].op, value |-> call[c].value,
                           stage |-> CallStage(c)]]

Promise == INSTANCE AtomicItem WITH
  Nothing <- NoFile, stored <- item, call <- Seen

(* The storage is atomic (FileItemStorage.ts:46): every call takes effect  *)
(* at one moment and shows no half-written item, also next to a delete,    *)
(* over failures and over crashes that leave a part file behind - but      *)
(* where two writes share the part file, until all who are there with them *)
(* are done, and where a look at a file fails.                             *)
CallsAreAtomic ==
  /\ Promise!Init
  /\ [][\/ UNCHANGED <<item, at, call>>
        \/ overlap
        \/ \E c \in Users : StatFails(c)
        \/ Promise!Next]_(Promise!vars)

(* A write leaves no .filepart behind (FileStorage.test.ts:76), whoever it *)
(* overlaps: what is there belongs to a writer who will move it, or was    *)
(* left by a failure or a crash, and the next write takes it over.         *)
PartHasOwner ==
  part # NoFile => abandoned \/ \E c \in Inside : place[c] = "part"
=============================================================================
