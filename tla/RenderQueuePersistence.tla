----------------------- MODULE RenderQueuePersistence -----------------------
(***************************************************************************)
(* Saving the render queue to its file and reading it back                 *)
(* (server/src/render/RenderQueuePersistence.ts), as the CLI wires it:     *)
(* start() is awaited before anything else, and shutdown() is called when  *)
(* the pool has ended (cli/src/index.ts), so the queue changes no more     *)
(* once it is closed.                                                      *)
(*                                                                         *)
(* A version stands for the list of tasks in the queue at a moment; it     *)
(* grows with every change of the list.  The queue file holds one version, *)
(* published whole by a rename.  The list is copied when a save begins;    *)
(* what the tasks themselves write is read a little later, and is not part *)
(* of a version.  Tasks that cannot be serialized are left out of it.      *)
(***************************************************************************)
EXTENDS Naturals

CONSTANTS
  Flushers,   \* callers of flush()
  Closers,    \* callers of shutdown(): one per signal the CLI handles
  MaxVersion, \* bound: changes of the queue
  MaxTicks,   \* bound: firings of the interval timer
  MaxCrashes  \* bound: deaths of the process

ASSUME PersistenceAssumption ==
  /\ Flushers \cap Closers = {}
  /\ MaxVersion \in Nat
  /\ MaxTicks \in Nat
  /\ MaxCrashes \in Nat

VARIABLES
  queue,      \* RenderManager's queue, as a version
  latest,     \* the newest version there has been
  file,       \* the version in the queue file
  saves,      \* calls of #saveQueue: what each writes and does next
  inFlight,   \* #saveInFlight # undefined
  requested,  \* #saveRequested
  closed,     \* #closed
  caller,     \* where each caller is
  asked,      \* the version a caller asked to have saved
  reported,   \* versions whose save failed and went to onError
  ticks, crashes

world == <<queue, latest>>
savers == <<saves, inFlight, requested>>
callers == <<caller, asked>>
bounds == <<ticks, crashes>>
vars == <<world, file, savers, closed, callers, reported, bounds>>

Callers == Flushers \cup Closers
Versions == 0 .. MaxVersion

SaverTypes ==
  /\ saves \subseteq [version : Versions, next : {"stage", "publish", "clean"}]
  /\ \A s, t \in saves : s = t
  /\ inFlight \in BOOLEAN
  /\ inFlight <=> saves # {}
  /\ requested \in BOOLEAN

TypeOK ==
  /\ queue \in Versions
  /\ latest \in Versions
  /\ file \in Versions
  /\ SaverTypes
  /\ closed \in BOOLEAN
  /\ caller \in [Callers -> {"idle", "draining", "returned"}]
  /\ asked \in [Callers -> Versions]
  /\ reported \subseteq Versions
  /\ ticks \in 0 .. MaxTicks
  /\ crashes \in 0 .. MaxCrashes

Init ==
  /\ queue = 0
  /\ latest = 0
  /\ file = 0
  /\ saves = {}
  /\ inFlight = FALSE
  /\ requested = FALSE
  /\ closed = FALSE
  /\ caller = [c \in Callers |-> "idle"]
  /\ asked = [c \in Callers |-> 0]
  /\ reported = {}
  /\ ticks = 0
  /\ crashes = 0

(* process.exit() follows the first shutdown() that returns.               *)
Exited == \E c \in Closers : caller[c] = "returned"
------------------------------------------------------------------------------
(* #flushRequestedSave up to the first await of #saveQueue: the snapshot   *)
(* is taken in the same stretch as the flag is cleared.                    *)
BeginSave(others) ==
  /\ saves' = others \cup {[version |-> queue, next |-> "stage"]}
  /\ inFlight' = TRUE
  /\ requested' = FALSE

RequestSaveOverlapping == BeginSave(saves)

RequestSaveUnlessBusy ==
  IF inFlight
  THEN UNCHANGED savers
  ELSE BeginSave(saves)

RequestSave ==
  IF inFlight
  THEN requested' = TRUE /\ UNCHANGED <<saves, inFlight>>
  ELSE BeginSave(saves)

Tick ==
  /\ ~closed /\ ticks < MaxTicks
  /\ ticks' = ticks + 1
  /\ RequestSave
  /\ UNCHANGED <<world, file, closed, callers, reported, crashes>>

Flush(c) ==
  /\ ~Exited
  /\ caller[c] = "idle"
  /\ caller' = [caller EXCEPT ![c] = "draining"]
  /\ asked' = [asked EXCEPT ![c] = IF closed THEN 0 ELSE queue]
  /\ IF closed THEN UNCHANGED savers ELSE RequestSave
  /\ UNCHANGED <<world, file, closed, reported, bounds>>

Shutdown(c) ==
  /\ ~Exited
  /\ caller[c] = "idle"
  /\ asked' = [asked EXCEPT ![c] = queue]
  /\ closed' = TRUE
  /\ \/ /\ closed
        /\ caller' = [caller EXCEPT ![c] = "returned"]
        /\ UNCHANGED savers
     \/ /\ ~closed
        /\ caller' = [caller EXCEPT ![c] = "draining"]
        /\ RequestSave
  /\ UNCHANGED <<world, file, reported, bounds>>

(* #drainSaves returns when it finds neither a request nor a save.         *)
DrainedOfRequests == ~requested

Drained == ~requested /\ ~inFlight

Return(c) ==
  /\ ~Exited
  /\ caller[c] = "draining" /\ Drained
  /\ caller' = [caller EXCEPT ![c] = "returned"]
  /\ UNCHANGED <<world, file, savers, closed, asked, reported, bounds>>
------------------------------------------------------------------------------
(* #saveQueue: write a staging file, rename it onto the queue file, remove *)
(* the staging file; a failure is reported and goes to the last step.      *)
Advance(s, next) == saves' = (saves \ {s}) \cup {[s EXCEPT !.next = next]}

Fail(s) ==
  /\ Advance(s, "clean")
  /\ reported' = reported \cup {s.version}
  /\ UNCHANGED file

Stage(s) ==
  /\ s.next = "stage"
  /\ \/ Advance(s, "publish") /\ UNCHANGED <<file, reported>>
     \/ Fail(s)
  /\ UNCHANGED <<inFlight, requested>>

Publish(s) ==
  /\ s.next = "publish"
  /\ \/ Advance(s, "clean") /\ file' = s.version /\ UNCHANGED reported
     \/ Fail(s)
  /\ UNCHANGED <<inFlight, requested>>

FinishSaveForgetting(s) ==
  /\ s.next = "clean"
  /\ IF requested
     THEN BeginSave(saves \ {s})
     ELSE saves' = saves \ {s} /\ UNCHANGED <<inFlight, requested>>
  /\ UNCHANGED <<file, reported>>

FinishSave(s) ==
  /\ s.next = "clean"
  /\ IF requested
     THEN BeginSave(saves \ {s})
     ELSE /\ saves' = saves \ {s}
          /\ inFlight' = FALSE
          /\ UNCHANGED requested
  /\ UNCHANGED <<file, reported>>

SaveStep ==
  /\ ~Exited
  /\ \E s \in saves : Stage(s) \/ Publish(s) \/ FinishSave(s)
  /\ UNCHANGED <<world, closed, callers, bounds>>
------------------------------------------------------------------------------
(* A task is scheduled, removed, reordered or retired.                     *)
QueueChanges ==
  /\ ~closed /\ latest < MaxVersion
  /\ latest' = latest + 1
  /\ queue' = latest'
  /\ UNCHANGED <<file, savers, closed, callers, reported, bounds>>

(* The process dies or has exited, and the next one starts from the queue  *)
(* file; the callers that were waiting are gone.                           *)
Restart ==
  /\ crashes < MaxCrashes
  /\ crashes' = crashes + 1
  /\ queue' = file
  /\ saves' = {}
  /\ inFlight' = FALSE
  /\ requested' = FALSE
  /\ closed' = FALSE
  /\ caller' = [c \in Callers |->
       IF c \in Flushers /\ caller[c] = "returned" THEN "returned" ELSE "idle"]
  /\ UNCHANGED <<latest, file, asked, reported, ticks>>

Next ==
  \/ SaveStep
  \/ Tick
  \/ QueueChanges
  \/ Restart
  \/ \E c \in Flushers : Flush(c)
  \/ \E c \in Closers : Shutdown(c)
  \/ \E c \in Callers : Return(c)

Spec == Init /\ [][Next]_vars

FairSpec ==
  /\ Spec
  /\ WF_vars(SaveStep)
  /\ \A c \in Callers : WF_vars(Return(c))
------------------------------------------------------------------------------
Covered(v) == file >= v \/ \E w \in reported : w >= v

(* "it never overlaps writes or publishes an older snapshot after a newer  *)
(* one": the file never goes back, not even across a crash.                *)
PublishedInOrder == [][file' >= file]_vars

(* A flush() that returned has its queue on disk, or the failure was       *)
(* reported, whatever the saves it was coalesced with did and whatever     *)
(* crashed since.                                                          *)
FlushCovers ==
  \A c \in Flushers : caller[c] = "returned" => Covered(asked[c])

(* "durably writes the final queue snapshot": when a shutdown() has        *)
(* returned and the CLI exits, the last queue is on disk.                  *)
ShutdownCovers ==
  \A c \in Closers : caller[c] = "returned" => Covered(asked[c])

(* Every call that waits for the saves returns, or the process ends.       *)
CallsReturn ==
  \A c \in Callers :
    caller[c] = "draining" ~> caller[c] # "draining" \/ Exited
==============================================================================
