------------------------------- MODULE Autosave -------------------------------
(***************************************************************************)
(* The autosave of one project (app/src/main/project/autosave.ts), the     *)
(* save it schedules (project/save.ts), the handlers that call both        *)
(* (project/ipc.ts) and the editor that edits, saves and leaves a project  *)
(* (ui/src/components/project/ProjectsScreen.vue).                         *)
(*                                                                         *)
(* A project is a number: an edit makes a new one, a larger number.  Calls *)
(* from the editor and events to it arrive at once.  Timers fire on time;  *)
(* a save that is under way may take any time.                             *)
(***************************************************************************)
EXTENDS Naturals, Sequences

CONSTANTS
  Quiet,     \* quietMs, in ticks
  MaxWait,   \* maxWaitMs, in ticks
  Leavers,   \* the times the editor leaves the project
  MaxEdit,   \* bound: projects
  MaxUndo,   \* bound: how often the editor returns to an earlier project
  MaxQueue   \* bound: writes that wait in the chain

ASSUME AutosaveAssumption ==
  /\ Quiet \in Nat \ {0}
  /\ MaxWait \in Nat \ {0}
  /\ MaxEdit \in Nat
  /\ MaxUndo \in Nat
  /\ MaxQueue \in Nat
  /\ {"timer", "quit"} \cap Leavers = {}

Projects == 0 .. MaxEdit
None == MaxEdit + 1
Unset == Quiet + MaxWait

(* A write in the chain, and who awaits it.                                *)
Calls == [project : Projects, by : Leavers \cup {"timer", "quit"},
          at : {"write", "trailer"}]

VARIABLES
  latest,    \* the last project there is
  open,      \* openProject: what the editor shows
  saved,     \* savedProject: what the editor believes to be on disk
  leaver,    \* the leavers' calls of autosaveNotify and autosaveFlush
  pending,   \* WorldEntry.pending
  baseline,  \* WorldEntry.baseline
  debounce,  \* WorldEntry.timer: ticks left on it, or Unset
  ceiling,   \* WorldEntry.ceiling: ticks left on it, or Unset
  chain,     \* the writes of WorldEntry.chain; the head is under way
  manual,    \* the save of the Save button
  disk,      \* the project in the project file
  unwritten, \* projects whose write failed
  undone,    \* how often the editor has gone back
  app,       \* "running", "flushing" before a quit, or "exited"
  quitWith   \* what was pending when the quit began, for the properties

editor == <<latest, open, saved, undone>>
engine == <<pending, debounce, ceiling>>
file == <<disk, unwritten>>
quit == <<app, quitWith>>
autosaveVars ==
  <<editor, leaver, engine, baseline, chain, manual, file, quit>>

AutosaveTypeOK ==
  /\ latest \in Projects
  /\ open \in Projects
  /\ saved \in Projects
  /\ leaver \in [Leavers ->
       [at : {"editing", "notified", "waiting", "told", "failed"},
        asked : Projects, wrote : BOOLEAN]]
  /\ pending \in Projects \cup {None}
  /\ pending = None => debounce = Unset /\ ceiling = Unset
  /\ pending # None => debounce \in 0 .. Quiet /\ ceiling \in 0 .. MaxWait
  /\ baseline \in Projects \cup {None}
  /\ chain \in Seq(Calls)
  /\ manual \in [project : Projects, at : {"no", "write", "trailer"}]
  /\ disk \in Projects
  /\ unwritten \subseteq Projects
  /\ undone \in 0 .. MaxUndo
  /\ app \in {"running", "flushing", "exited"}
  /\ quitWith \in Projects \cup {None}

AutosaveInit ==
  /\ latest = 0
  /\ open = 0
  /\ saved = 0
  /\ leaver = [l \in Leavers |->
       [at |-> "editing", asked |-> 0, wrote |-> FALSE]]
  /\ pending = None
  /\ baseline = None
  /\ debounce = Unset
  /\ ceiling = Unset
  /\ chain = <<>>
  /\ manual = [project |-> 0, at |-> "no"]
  /\ disk = 0
  /\ unwritten = {}
  /\ undone = 0
  /\ app = "running"
  /\ quitWith = None

Running == app # "exited"
Dirty == open # saved
------------------------------------------------------------------------------
(* notifyChange                                                            *)
NoPending ==
  /\ pending' = None
  /\ debounce' = Unset
  /\ ceiling' = Unset

NotifyOnce(p) ==
  IF p = baseline
  THEN NoPending
  ELSE /\ pending' = IF pending = None THEN p ELSE pending
       /\ debounce' = Quiet
       /\ ceiling' = IF ceiling = Unset THEN MaxWait ELSE ceiling

Notify(p) ==
  IF p = baseline
  THEN NoPending
  ELSE /\ pending' = p
       /\ debounce' = Quiet
       /\ ceiling' = IF ceiling = Unset THEN MaxWait ELSE ceiling

(* enqueue: the project leaves pending before its write begins.            *)
EnqueueFirst(by) ==
  /\ Len(chain) < MaxQueue
  /\ chain' = <<[project |-> pending, by |-> by, at |-> "write"]>> \o chain
  /\ NoPending

Enqueue(by) ==
  /\ Len(chain) < MaxQueue
  /\ chain' = Append(chain, [project |-> pending, by |-> by, at |-> "write"])
  /\ NoPending

TimerFires ==
  /\ Running
  /\ debounce = 0 \/ ceiling = 0
  /\ Enqueue("timer")
  /\ UNCHANGED <<editor, leaver, baseline, manual, file, quit>>

Less(t) == IF t = Unset THEN Unset ELSE t - 1

TimePasses ==
  /\ Running
  /\ pending # None /\ debounce # 0 /\ ceiling # 0
  /\ debounce' = Less(debounce)
  /\ ceiling' = Less(ceiling)
  /\ UNCHANGED <<editor, leaver, pending, baseline, chain, manual, file, quit>>
------------------------------------------------------------------------------
(* A dirty editor notifies the engine of what it shows; an editor that is  *)
(* back at what it believes to be on disk does not.                        *)
Show(p) ==
  /\ open' = p
  /\ IF p # saved THEN Notify(p) ELSE UNCHANGED engine
  /\ UNCHANGED <<saved, leaver, baseline, chain, manual, file, quit>>

Edit ==
  /\ Running
  /\ latest < MaxEdit
  /\ latest' = latest + 1
  /\ Show(latest')
  /\ UNCHANGED undone

Undo ==
  /\ undone < MaxUndo /\ Running
  /\ \E p \in 0 .. latest : p # open /\ Show(p)
  /\ undone' = undone + 1
  /\ UNCHANGED latest

(* save(): the project is stamped, and shown when the write has worked.    *)
PressSave ==
  /\ Running
  /\ manual.at = "no" /\ latest < MaxEdit
  /\ latest' = latest + 1
  /\ manual' = [project |-> latest', at |-> "write"]
  /\ UNCHANGED <<open, saved, undone, leaver, engine, baseline, chain, file,
                 quit>>

(* blockUnsavedTransition: a notify, whose answer is awaited, then a       *)
(* flush; the editor goes on at once.                                      *)
Leave(l) ==
  /\ Running
  /\ leaver[l].at = "editing" /\ Dirty
  /\ Notify(open)
  /\ saved' = open
  /\ leaver' = [leaver EXCEPT ![l] =
       [at |-> "notified", asked |-> open, wrote |-> FALSE]]
  /\ UNCHANGED <<latest, open, undone, baseline, chain, manual, file, quit>>

(* flush: null at once when nothing is pending.                            *)
Flush(l) ==
  /\ Running
  /\ leaver[l].at = "notified"
  /\ \/ /\ pending = None
        /\ leaver' = [leaver EXCEPT ![l].at = "told"]
        /\ UNCHANGED <<engine, chain>>
     \/ /\ pending # None
        /\ leaver' = [leaver EXCEPT ![l].at = "waiting"]
        /\ Enqueue(l)
  /\ UNCHANGED <<editor, baseline, manual, file, quit>>
------------------------------------------------------------------------------
(* saveProject: the file is written, then recorded, then written again     *)
(* with its history; of these only the first may fail the save.            *)
Written(by, ok) ==
  /\ leaver' = [leaver EXCEPT ![by].at = IF ok THEN "told" ELSE "failed",
                              ![by].wrote = ok]
  /\ UNCHANGED quit

Answer(by, ok) ==
  CASE by \in Leavers -> Written(by, ok)
    [] by = "quit" -> app' = "exited" /\ UNCHANGED <<leaver, quitWith>>
    [] OTHER -> UNCHANGED <<leaver, quit>>

WriteFile ==
  /\ Running /\ chain # <<>> /\ Head(chain).at = "write"
  /\ disk' = Head(chain).project
  /\ chain' = [chain EXCEPT ![1].at = "trailer"]
  /\ UNCHANGED <<editor, leaver, engine, baseline, manual, unwritten, quit>>

WriteFails ==
  /\ Running /\ chain # <<>> /\ Head(chain).at = "write"
  /\ unwritten' = unwritten \cup {Head(chain).project}
  /\ chain' = Tail(chain)
  /\ Answer(Head(chain).by, FALSE)
  /\ UNCHANGED <<editor, engine, baseline, manual, disk>>

WriteTrailer ==
  /\ Running /\ chain # <<>> /\ Head(chain).at = "trailer"
  /\ disk' \in {disk, Head(chain).project}
  /\ chain' = Tail(chain)
  /\ baseline' = Head(chain).project
  /\ saved' = Head(chain).project
  /\ Answer(Head(chain).by, TRUE)
  /\ UNCHANGED <<latest, open, undone, engine, manual, unwritten>>

(* project:save, past the chain                                            *)
SaveFile ==
  /\ Running /\ manual.at = "write"
  /\ \/ /\ disk' = manual.project
        /\ manual' = [manual EXCEPT !.at = "trailer"]
        /\ UNCHANGED unwritten
     \/ /\ unwritten' = unwritten \cup {manual.project}
        /\ manual' = [manual EXCEPT !.at = "no"]
        /\ UNCHANGED disk
  /\ UNCHANGED <<editor, leaver, engine, baseline, chain, quit>>

SaveTrailer ==
  /\ Running /\ manual.at = "trailer"
  /\ disk' \in {disk, manual.project}
  /\ manual' = [manual EXCEPT !.at = "no"]
  /\ open' = manual.project
  /\ saved' = manual.project
  /\ UNCHANGED <<latest, undone, leaver, engine, baseline, chain, unwritten,
                 quit>>
------------------------------------------------------------------------------
(* wireAutosaveQuitFlush                                                   *)
QuitWithoutFlush ==
  /\ app = "running"
  /\ app' = "exited"
  /\ quitWith' = pending
  /\ UNCHANGED <<editor, leaver, engine, baseline, chain, manual, file>>

BeforeQuit ==
  /\ app = "running"
  /\ quitWith' = pending
  /\ \/ pending = None /\ app' = "exited" /\ UNCHANGED <<engine, chain>>
     \/ pending # None /\ app' = "flushing" /\ Enqueue("quit")
  /\ UNCHANGED <<editor, leaver, baseline, manual, file>>

(* A second quit while the first is flushing is not held back.             *)
QuitAgain ==
  /\ app = "flushing"
  /\ app' = "exited"
  /\ UNCHANGED <<editor, leaver, engine, baseline, chain, manual, file>>
  /\ UNCHANGED quitWith

Save == WriteFile \/ WriteFails \/ WriteTrailer

AutosaveNext ==
  \/ Edit \/ Undo \/ PressSave
  \/ \E l \in Leavers : Leave(l) \/ Flush(l)
  \/ TimerFires \/ TimePasses
  \/ Save \/ SaveFile \/ SaveTrailer
  \/ BeforeQuit \/ QuitAgain

AutosaveSpec == AutosaveInit /\ [][AutosaveNext]_autosaveVars
------------------------------------------------------------------------------
Idle == pending = None /\ chain = <<>> /\ manual.at = "no"

(* Only edits so far: nobody has gone back to an earlier project, which is *)
(* not told apart from a new edit, and nobody has pressed Save, which      *)
(* passes the chain.                                                       *)
OnlyEdits == undone = 0 /\ manual.project = 0

(* "a genuinely new edit starts its own fresh debounce instead of being    *)
(* folded into (or lost underneath) the write already under way"           *)
(* (enqueue): when the engine has come to rest, the file holds what the    *)
(* editor shows, unless its write failed.                                  *)
EditsReachDisk ==
  OnlyEdits /\ Running /\ Idle => disk = open \/ open \in unwritten

(* The autosaves of one world land in the order of the edits: the file     *)
(* never goes back to an older project.                                    *)
AutosavesInOrder == [][OnlyEdits => disk' >= disk]_autosaveVars

(* A flush that says it has saved has saved what the editor was left with. *)
LeaversAreCovered ==
  \A l \in Leavers :
    leaver[l].at = "told" /\ leaver[l].wrote => disk >= leaver[l].asked

(* A second quit has closed the application before the first one's write.  *)
CutShort == \E i \in DOMAIN chain : chain[i].by = "quit"

(* "Makes sure nothing pending is lost when the application quits"         *)
(* (wireAutosaveQuitFlush): unless somebody quits again meanwhile.         *)
QuitIsCovered ==
  app = "exited" /\ quitWith # None =>
    disk >= quitWith \/ quitWith \in unwritten \/ CutShort

(* Whoever flushes, leaving the project or quitting, finds what it flushed *)
(* on disk when it is told so, whatever else is in the chain.              *)
FlushedIsWritten == OnlyEdits => LeaversAreCovered /\ QuitIsCovered
==============================================================================
