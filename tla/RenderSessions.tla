--------------------------- MODULE RenderSessions ---------------------------
(***************************************************************************)
(* The renders of one workspace, from the request to the catalogue, over   *)
(* crashes and relaunches (app/src/main/render/): the lifecycle of a       *)
(* render (orchestrator.ts), its session and the listing that finds the    *)
(* renders a dead app left behind (session.ts, resume.ts), the workspace's *)
(* lease (workspaceLease.ts) and the catalogue of finished renders with    *)
(* its durable lock (promotion.ts).  A request is a render or a resume:   *)
(* both end in render() and differ only in the offer they come from.       *)
(*                                                                         *)
(* A save of session.json opens the shared staging file, fills it and      *)
(* renames it, an await after each; a handle follows its file through a    *)
(* rename.  The other files are replaced in one step.                      *)
(***************************************************************************)
EXTENDS Naturals, FiniteSets

CONSTANTS
  MaxRequests, \* bound: calls of render() for the workspace
  MaxCrashes,  \* bound: how often the app dies
  Reclaiming   \* whether somebody reclaims the lease of a dead owner

ASSUME RenderAssumption ==
  /\ {MaxRequests, MaxCrashes} \subseteq Nat
  /\ Reclaiming \in BOOLEAN

Requests == 1..MaxRequests  \* in the order they are made; 0 is none
Launches == 1..(MaxCrashes + 1)

VARIABLES
  session, staging,   \* session.json and session.json.writing
  record,             \* render.json
  lease,              \* the launch that holds the workspace's lock file, or 0
  catalogue, lock,    \* finished-render-promotions.json and its lock file
  launch,             \* the instance id of the app that runs
  live, saves,        \* the store's entry, and the save each caller awaits
  pc, result,         \* where each render() is, and how its engine ended
  pending, aborted,   \* the entry cancel() aborts; the aborted requests
  listing,            \* restoreFinished(): where it is and what it has read
  work,               \* who works on the catalogue, and the record it read
  engine,             \* the requests whose engine process is alive
  delivered,          \* renders whose "finished" event was sent
  spoiled             \* a write failed, or two saves met

sessionFiles == <<session, staging>>
papers == <<record, lease, catalogue, lock>>
store == <<sessionFiles, live, saves, spoiled>>
renders == <<pc, result, pending, aborted>>
vars == <<sessionFiles, papers, launch, live, saves, renders, listing,
          work, engine, delivered, spoiled>>

Progress == MaxRequests + 1  \* the callers that are no request
Listing == MaxRequests + 2
Promoters == Requests \cup {Listing}
Callers == Requests \cup {Progress, Listing}

Sessions == [run : Requests, status : {"running", "interrupted", "completed"},
             owner : Launches]
Unreadable(how) == [run |-> 0, status |-> how, owner |-> 0]
Absent == Unreadable("absent")
Empty == Unreadable("empty")
Torn == Unreadable("torn")
NoRecord == [run |-> 0, outcome |-> "none"]
NoWork == [run |-> 0, outcome |-> "no work"]
Quiet == [content |-> Absent, at |-> "none", filled |-> FALSE]

TypeOK ==
  /\ {session, staging} \subseteq Sessions \cup {Absent, Empty, Torn}
  /\ record \in {NoRecord} \cup
                 [run : Requests, outcome : {"running", "failed", "finished"}]
  /\ DOMAIN work = Promoters
  /\ lease \in Launches \cup {0} /\ launch \in Launches
  /\ lock \in {"free", "held", "dead", "empty"}
  /\ live \in Sessions \cup {Absent}
  /\ saves \in [Callers -> [content : Sessions \cup {Absent},
                            at : {"none", "queued", "staging", "session",
                                  "gone"}, filled : BOOLEAN]]
  /\ result \in [Requests -> {"none", "failed", "finished"}]
  /\ pending \in Requests \cup {0}
  /\ {catalogue, aborted, engine, delivered} \subseteq SUBSET Requests
  /\ spoiled \in BOOLEAN

Init ==
  /\ session = Absent /\ staging = Absent /\ record = NoRecord
  /\ lease = 0 /\ catalogue = {} /\ lock = "free"
  /\ launch = 1
  /\ live = Absent /\ saves = [c \in Callers |-> Quiet]
  /\ pc = [r \in Requests |-> "idle"]
  /\ result = [r \in Requests |-> "none"]
  /\ pending = 0 /\ aborted = {}
  /\ listing = [at |-> "idle", read |-> Absent]
  /\ work = [p \in Promoters |-> NoWork]
  /\ engine = {} /\ delivered = {}
  /\ spoiled = FALSE
------------------------------------------------------------------------------
(* save(), three awaits long.  Whoever asked waits for it, except for      *)
(* progress().  readRenderSession takes what does not parse for absent.    *)
Read(file) == IF file \in {Empty, Torn} THEN Absent ELSE file
Outstanding == {c \in Callers : saves[c] # Quiet}

Save(c, content, spoiling) ==
  /\ saves' = [saves EXCEPT ![c] = [content |-> content, at |-> "queued",
                                    filled |-> FALSE]]
  /\ spoiled' = (spoiled \/ spoiling \/ Outstanding # {})
  /\ UNCHANGED sessionFiles

Open(c) ==
  /\ saves[c].at = "queued"
  /\ staging' = Empty
  /\ saves' = [saves EXCEPT ![c].at = "staging"]
  /\ UNCHANGED session

(* Two handles on one file write over each other.                          *)
Overlaid(file, content) == IF file = Empty THEN {content} ELSE {content, Torn}

Fill(c) ==
  /\ saves[c].at \in {"staging", "session", "gone"} /\ ~saves[c].filled
  /\ saves' = [saves EXCEPT ![c].filled = TRUE]
  /\ IF saves[c].at = "staging"
     THEN staging' \in Overlaid(staging, saves[c].content)
     ELSE UNCHANGED staging
  /\ IF saves[c].at = "session"
     THEN session' \in Overlaid(session, saves[c].content)
     ELSE UNCHANGED session

Following == [staging |-> "session", session |-> "gone", gone |-> "gone",
              queued |-> "queued", none |-> "none"]

(* When another save has renamed the staging file away this one throws,    *)
(* and save() swallows it.                                                 *)
Rename(c) ==
  /\ saves[c].filled
  /\ IF staging = Absent
     THEN /\ saves' = [saves EXCEPT ![c] = Quiet]
          /\ UNCHANGED sessionFiles
     ELSE /\ session' = staging /\ staging' = Absent
          /\ saves' = [d \in Callers |->
                         IF d = c THEN Quiet
                         ELSE [saves[d] EXCEPT !.at = Following[@]]]

SaveStep(c) ==
  /\ Open(c) \/ Fill(c) \/ Rename(c)
  /\ UNCHANGED <<papers, launch, live, renders, listing, work, engine,
                 delivered, spoiled>>

(* Bound: nothing fails once something has gone wrong.                     *)
SaveFails(c) ==
  /\ ~spoiled /\ saves[c] # Quiet
  /\ saves' = [saves EXCEPT ![c] = Quiet]
  /\ spoiled' = TRUE
  /\ UNCHANGED <<sessionFiles, papers, launch, live, renders, listing,
                 work, engine, delivered>>
------------------------------------------------------------------------------
(* renderInternal(), up to the lease.  previewOwners and running.          *)
Busy == {r \in Requests : pc[r] \in {"running", "exited", "closing",
                                     "promoting", "unpromoted", "corrected",
                                     "failing"}}

At(r, here, there) == pc[r] = here /\ pc' = [pc EXCEPT ![r] = there]

(* render()'s finally.                                                     *)
Leave(r) == /\ pc' = [pc EXCEPT ![r] = "done"]
            /\ pending' = IF pending = r THEN 0 ELSE pending

Render(r) ==
  /\ pc[r] = "idle"
  /\ IF Busy # {} \/ pending # 0 THEN Leave(r)
     ELSE At(r, "idle", "checking") /\ UNCHANGED pending
  /\ UNCHANGED <<store, papers, launch, result, aborted, listing, work,
                 engine, delivered>>

(* Between the checks and the entry lie the awaits on worlds and Docker.   *)
Provision(r) ==
  /\ At(r, "checking", "provisioning")
  /\ pending' = r
  /\ UNCHANGED <<store, papers, launch, result, aborted, listing, work,
                 engine, delivered>>

(* No world, no engine, an abort while it was looked for, a launch that is *)
(* refused.  A failed look deletes the entry, whosever it is.              *)
CannotLaunch(r) ==
  /\ pc[r] \in {"checking", "provisioning"}
  /\ \/ Leave(r)
     \/ At(r, "provisioning", "done") /\ pending' = 0
  /\ aborted' = aborted \ {r}
  /\ UNCHANGED <<store, papers, launch, result, listing, work, engine,
                 delivered>>

AcquireLeaseAnyway(r) ==
  /\ At(r, "provisioning", "preparing") /\ r \notin aborted
  /\ lease' = launch
  /\ UNCHANGED <<store, record, catalogue, lock, launch, result, pending,
                 aborted, listing, work, engine, delivered>>

(* open(path, "wx"): a lease that is there refuses, whoever holds it.      *)
AcquireLease(r) ==
  /\ pc[r] = "provisioning" /\ r \notin aborted
  /\ \/ /\ lease = 0 /\ lease' = launch
        /\ At(r, "provisioning", "preparing") /\ UNCHANGED pending
     \/ lease # 0 /\ Leave(r) /\ UNCHANGED lease
  /\ UNCHANGED <<store, record, catalogue, lock, launch, result, aborted,
                 listing, work, engine, delivered>>

Release(r) == Leave(r) /\ lease' = 0

Cancel ==
  /\ \A r \in Requests : pc[r] # "running"
  /\ pending # 0
  /\ aborted' = aborted \cup {pending}
  /\ UNCHANGED <<store, papers, launch, pc, result, pending, listing,
                 work, engine, delivered>>
------------------------------------------------------------------------------
(* renderInternal(), from the lease on.  saveRecord() swallows a failure.  *)
WriteRecord(next, swallowed) ==
  IF swallowed THEN ~spoiled /\ UNCHANGED record ELSE record' = next

Saved(r) == saves[r] = Quiet

Started(r) == [run |-> r, status |-> "running", owner |-> launch]

StartRecord(r, swallowed) ==
  /\ At(r, "preparing", "recorded")
  /\ WriteRecord([run |-> r, outcome |-> "running"], swallowed)
  /\ spoiled' = (spoiled \/ swallowed)
  /\ UNCHANGED <<sessionFiles, saves, live, lease, catalogue, lock, launch,
                 result, pending, aborted, listing, work, engine, delivered>>

StartSession(r) ==
  /\ At(r, "recorded", "starting")
  /\ live' = Started(r)
  /\ Save(r, Started(r), FALSE)
  /\ UNCHANGED <<papers, launch, result, pending, aborted, listing, work,
                 engine, delivered>>

(* The config cannot be written: nothing is recorded.                      *)
CannotPrepare(r) ==
  /\ pc[r] = "preparing"
  /\ Release(r)
  /\ UNCHANGED <<store, record, catalogue, lock, launch, result, aborted,
                 listing, work, engine, delivered>>

(* An abort since the engine was resolved is honoured here; the session    *)
(* stays live and running.                                                 *)
StartEngine(r) ==
  /\ pc[r] = "starting" /\ Saved(r)
  /\ IF r \in aborted
     THEN /\ pc' = [pc EXCEPT ![r] = "done"] /\ lease' = 0
          /\ UNCHANGED engine
     ELSE /\ At(r, "starting", "running") /\ engine' = engine \cup {r}
          /\ UNCHANGED lease
  /\ pending' = 0 /\ aborted' = aborted \ {r}
  /\ UNCHANGED <<store, record, catalogue, lock, launch, result, listing,
                 work, delivered>>

(* The throttle keeps one write of the progress under way at a time.       *)
ReportProgress ==
  /\ \E r \in Requests : pc[r] = "running"
  /\ live # Absent /\ saves[Progress] = Quiet
  /\ Save(Progress, live, FALSE)
  /\ UNCHANGED <<papers, launch, live, renders, listing, work, engine,
                 delivered>>

Ended(s, how) ==
  [s EXCEPT !.status = IF how = "finished" THEN "completed" ELSE "interrupted"]

(* The engine ends, is cancelled or fails: the record is written, then the *)
(* session ended.                                                          *)
EngineExits(r, how, swallowed) ==
  /\ At(r, "running", "exited")
  /\ engine' = engine \ {r} /\ result' = [result EXCEPT ![r] = how]
  /\ WriteRecord([run |-> r, outcome |-> how], swallowed)
  /\ spoiled' = (spoiled \/ swallowed)
  /\ UNCHANGED <<sessionFiles, saves, live, lease, catalogue, lock, launch,
                 pending, aborted, listing, work, delivered>>

EndSession(r) ==
  /\ At(r, "exited", "closing")
  /\ live' = Absent
  /\ Save(r, Ended(live, result[r]), FALSE)
  /\ UNCHANGED <<papers, launch, result, pending, aborted, listing, work,
                 engine, delivered>>

Close(r) ==
  /\ pc[r] \in {"closing", "failing"} /\ Saved(r)
  /\ IF pc[r] = "closing" /\ result[r] = "finished"
     THEN At(r, "closing", "promoting") /\ UNCHANGED <<lease, pending>>
     ELSE Release(r)
  /\ UNCHANGED <<store, record, catalogue, lock, launch, result, aborted,
                 listing, work, engine, delivered>>
------------------------------------------------------------------------------
(* interrupted(): the files are read before the live entries are preferred *)
(* and the corrections are put afterwards, one file at a time.             *)
ListSessions ==
  /\ listing.at = "idle"
  /\ listing' = [at |-> "read", read |-> Read(session)]
  /\ UNCHANGED <<store, papers, launch, renders, work, engine, delivered>>

NeedsReconcilingHere(s) == s.status = "running" /\ s.owner = launch
NeedsReconciling(s) == s.status = "running" /\ s.owner # launch

FindInterrupted ==
  LET found == IF listing.read # Absent /\ live # Absent THEN live
               ELSE listing.read
  IN  /\ listing.at = "read"
      /\ IF NeedsReconciling(found)
         THEN /\ Save(Listing, [found EXCEPT !.status = "interrupted"],
                      found # Read(session))
              /\ listing' = [at |-> "putting", read |-> Absent]
         ELSE /\ listing' = [at |-> "found", read |-> Absent]
              /\ UNCHANGED <<sessionFiles, saves, spoiled>>
      /\ UNCHANGED <<papers, launch, live, renders, work, engine,
                     delivered>>

PutDone ==
  /\ listing.at = "putting" /\ saves[Listing] = Quiet
  /\ listing' = [at |-> "found", read |-> Absent]
  /\ UNCHANGED <<store, papers, launch, renders, work, engine, delivered>>
------------------------------------------------------------------------------
(* The catalogue: serial() in the process, the lock file across processes. *)
Wants(p) == IF p = Listing THEN listing.at = "found" ELSE pc[p] = "promoting"

TakeCatalogueUnserialised(p) ==
  /\ Wants(p) /\ work[p] = NoWork /\ lock # "empty"
  /\ lock' = "held" /\ work' = [work EXCEPT ![p] = record]
  /\ UNCHANGED <<store, record, lease, catalogue, launch, renders, listing,
                 engine, delivered>>

Unclaimed == \A p \in Promoters : work[p] = NoWork

TakeCatalogue(p) ==
  /\ Wants(p) /\ Unclaimed /\ lock \in {"free", "dead"}
  /\ lock' = "held" /\ work' = [work EXCEPT ![p] = record]
  /\ UNCHANGED <<store, record, lease, catalogue, launch, renders, listing,
                 engine, delivered>>

(* verifyFinishedRender(): the record was read first, now the session.     *)
Verified(p) ==
  IF /\ work[p].outcome = "finished"
     /\ Read(session).status = "completed"
     /\ Read(session).run = work[p].run
  THEN {work[p].run} ELSE {}

FreeCatalogue(p) ==
  work[p] # NoWork /\ work' = [work EXCEPT ![p] = NoWork] /\ lock' = "free"

(* The output itself may not verify, and the catalogue may not be written. *)
Promote(r) ==
  /\ FreeCatalogue(r)
  /\ \/ /\ Verified(r) # {}
        /\ catalogue' = catalogue \cup Verified(r)
        /\ delivered' = delivered \cup {r}
        /\ Release(r)
     \/ /\ At(r, "promoting", "unpromoted")
        /\ UNCHANGED <<catalogue, delivered, lease, pending>>
  /\ UNCHANGED <<store, record, launch, result, aborted, listing, engine>>

Unpromote(r, swallowed) ==
  /\ At(r, "unpromoted", "corrected")
  /\ WriteRecord([run |-> r, outcome |-> "failed"], swallowed)
  /\ spoiled' = (spoiled \/ swallowed)
  /\ result' = [result EXCEPT ![r] = "failed"]
  /\ UNCHANGED <<sessionFiles, saves, lease, catalogue, lock, launch, live,
                 pending, aborted, listing, work, engine, delivered>>

(* end() finds no live entry and reads the file.                           *)
InterruptLiveOnly(r) ==
  /\ pc[r] = "corrected"
  /\ Release(r)
  /\ UNCHANGED <<store, record, catalogue, lock, launch, result, aborted,
                 listing, work, engine, delivered>>

Interrupt(r) ==
  /\ pc[r] = "corrected"
  /\ IF Read(session) = Absent
     THEN Release(r) /\ UNCHANGED <<sessionFiles, saves, spoiled>>
     ELSE /\ At(r, "corrected", "failing")
          /\ Save(r, [Read(session) EXCEPT !.status = "interrupted"], FALSE)
          /\ UNCHANGED <<lease, pending>>
  /\ UNCHANGED <<record, catalogue, lock, launch, live, result, aborted,
                 listing, work, engine, delivered>>

Reconcile ==
  /\ FreeCatalogue(Listing)
  /\ catalogue' = Verified(Listing) \/ UNCHANGED catalogue
  /\ listing' = [at |-> "idle", read |-> Absent]
  /\ UNCHANGED <<store, record, lease, launch, renders, engine, delivered>>

(* 120 attempts at the lock of a dead owner that is not stale yet, or that *)
(* left no lease to judge it by: promote() and reconcile() throw.          *)
CatalogueStaysHeld(p) ==
  /\ Wants(p) /\ Unclaimed /\ lock \in {"dead", "empty"}
  /\ IF p = Listing
     THEN /\ listing' = [at |-> "idle", read |-> Absent]
          /\ UNCHANGED <<pc, pending, lease>>
     ELSE Release(p) /\ UNCHANGED listing
  /\ UNCHANGED <<store, record, catalogue, lock, launch, result, aborted,
                 work, engine, delivered>>
------------------------------------------------------------------------------
(* The app dies with its memory; an engine may outlive it.  A catalogue    *)
(* lock dies written, or emptied on its way to being written.              *)
Crash ==
  /\ launch <= MaxCrashes
  /\ launch' = launch + 1
  /\ live' = Absent /\ saves' = [c \in Callers |-> Quiet]
  /\ pc' = [r \in Requests |->
              IF pc[r] \in {"idle", "done"} THEN pc[r] ELSE "crashed"]
  /\ pending' = 0 /\ aborted' = {}
  /\ listing' = [at |-> "idle", read |-> Absent]
  /\ work' = [p \in Promoters |-> NoWork]
  /\ IF Unclaimed THEN UNCHANGED lock ELSE lock' \in {"dead", "empty"}
  /\ UNCHANGED <<sessionFiles, record, lease, catalogue, result, engine,
                 delivered, spoiled>>

OrphanExits(r) ==
  /\ r \in engine /\ pc[r] = "crashed"
  /\ engine' = engine \ {r}
  /\ UNCHANGED <<store, papers, launch, renders, listing, work,
                 delivered>>

(* The owner is dead and the probe proves that its engine is, too.         *)
Reclaim ==
  /\ Reclaiming /\ lease \notin {0, launch} /\ engine = {}
  /\ lease' = 0
  /\ UNCHANGED <<store, record, catalogue, lock, launch, renders, listing,
                 work, engine, delivered>>

Listings == ListSessions \/ FindInterrupted \/ PutDone \/ Reconcile
            \/ TakeCatalogue(Listing) \/ CatalogueStaysHeld(Listing)

RenderStep(r) ==
  \/ Render(r) \/ Provision(r) \/ CannotLaunch(r) \/ AcquireLease(r)
  \/ CannotPrepare(r) \/ StartSession(r) \/ StartEngine(r)
  \/ EndSession(r) \/ Close(r) \/ Interrupt(r)
  \/ \E swallowed \in BOOLEAN :
       \/ StartRecord(r, swallowed) \/ Unpromote(r, swallowed)
       \/ \E how \in {"failed", "finished"} : EngineExits(r, how, swallowed)
  \/ TakeCatalogue(r) \/ Promote(r) \/ CatalogueStaysHeld(r)

Next ==
  \/ \E c \in Callers : SaveStep(c) \/ SaveFails(c)
  \/ \E r \in Requests : RenderStep(r) \/ OrphanExits(r)
  \/ Listings \/ Cancel \/ ReportProgress
  \/ Crash \/ Reclaim

Spec == Init /\ [][Next]_vars

(* The launch lists what it finds, and an await ends.                      *)
FairSpec ==
  /\ Spec
  /\ WF_vars(Listings)
  /\ \A c \in Callers : WF_vars(SaveStep(c))
  /\ \A r \in Requests : WF_vars(Promote(r))
------------------------------------------------------------------------------
(* Two engines never write to one workspace: not when two requests pass    *)
(* the checks together, nor when the app dies and the engine does not      *)
(* ("Cross-process exclusion", workspaceLease.ts).                         *)
OneEngine == Cardinality(engine) <= 1

(* A render that has returned, and nothing has begun since, left two files *)
(* that agree on how it ended, unless a save failed or met another.        *)
EndedIsSettled ==
  \A r \in Requests :
    /\ pc[r] = "done" /\ result[r] # "none" /\ record.run = r
    /\ Outstanding = {} /\ ~spoiled
    => /\ record.outcome = result[r]
       /\ Read(session).run = r
       /\ Read(session).status =
            IF result[r] = "finished" THEN "completed" ELSE "interrupted"

(* A render announced as finished is still in the catalogue, whatever is   *)
(* listed, reconciled or crashes, until the workspace is rendered again,   *)
(* unless a save failed or met another.                                    *)
FinishedIsKept ==
  \A r \in delivered : record.run = r /\ ~spoiled => r \in catalogue

(* A render whose app is gone is found and offered.                        *)
Abandoned == /\ live = Absent
             /\ Read(session).status = "running" /\ session.owner # launch
CrashIsOffered == Abandoned ~> ~Abandoned

(* What is offered can be resumed: once nothing runs in the workspace, the *)
(* lock file of a dead app does not refuse the resume ("so resuming        *)
(* carries on from there", resume.ts).                                     *)
OffersCanResume ==
  /\ Read(session).status = "interrupted"
  /\ engine = {} /\ \A r \in Requests : pc[r] \in {"idle", "done", "crashed"}
  => lease = 0
=============================================================================
