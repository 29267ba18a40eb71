------------------------ MODULE RenderSessionsProofs ------------------------
(***************************************************************************)
(* Theorems about RenderSessions, for any requests, saves and launches:    *)
(* however often the app dies, two engines never write to the workspace;   *)
(* the two files of a render that ended agree; a finished render stays in  *)
(* the catalogue.                                                          *)
(*                                                                         *)
(* The argument is that of a lock that is a file.  From the lease on,      *)
(* whoever renders holds it in the name of the launch that runs, so there  *)
(* is one; an engine that outlived its app keeps the lease of a launch     *)
(* that is gone, which refuses everybody until the engine is proved dead.  *)
(***************************************************************************)
EXTENDS RenderSessions, FiniteSetTheorems, TLAPS

Stages == {"idle", "checking", "provisioning", "preparing", "recorded",
           "starting", "running", "exited", "closing", "promoting",
           "unpromoted", "corrected", "failing", "done", "crashed"}

(* Between the lease and its release.                                      *)
Leased(stage) ==
  stage \in Stages \ {"idle", "checking", "provisioning", "done", "crashed"}

Types ==
  /\ pc \in [Requests -> Stages]
  /\ engine \subseteq Requests
  /\ launch \in Nat /\ lease \in Nat /\ lease <= launch /\ 0 < launch

HolderIsAlone ==
  \A r \in Requests :
    Leased(pc[r]) => /\ lease = launch
                     /\ \A s \in Requests : Leased(pc[s]) => s = r

EngineIsLeased ==
  \A r \in engine :
    /\ pc[r] \in {"running", "crashed"} /\ lease # 0
    /\ pc[r] = "crashed" => lease # launch
    /\ \A s \in engine : s = r

(* Whoever works on the catalogue for a render is that render, promoting.  *)
Claimed ==
  /\ work = [p \in Promoters |-> work[p]]
  /\ \A r \in Requests : work[r] # NoWork => pc[r] = "promoting"

LeaseInv == Types /\ Claimed /\ HolderIsAlone /\ EngineIsLeased

(* What a step may do with the lease.  Of everything else, it moves a      *)
(* request from a stage to another on the same side of the lease.          *)
Moves(r, stages) == \E there \in stages : pc' = [pc EXCEPT ![r] = there]
Free == {s \in Stages : ~Leased(s)} \ {"crashed"}
Held == {s \in Stages : Leased(s)} \ {"running"}
Unmoved == UNCHANGED <<pc, lease, launch, engine>>

Waits(r) == /\ pc[r] \in Free /\ Moves(r, Free)
            /\ UNCHANGED <<lease, launch, engine>>

Acquires(r) == /\ pc[r] \in Free /\ lease = 0 /\ Moves(r, Held)
               /\ lease' = launch /\ UNCHANGED <<launch, engine>>

Works(r) == /\ pc[r] \in Held /\ Moves(r, Held)
            /\ UNCHANGED <<lease, launch, engine>>

Engages(r) == /\ pc[r] \in Held /\ Moves(r, {"running"})
                /\ engine' = engine \cup {r}
                /\ UNCHANGED <<lease, launch>>

Exits(r) == /\ pc[r] = "running" /\ Moves(r, Held)
            /\ engine' = engine \ {r} /\ UNCHANGED <<lease, launch>>

Releases(r) == /\ pc[r] \in Held /\ Moves(r, {"done"})
               /\ lease' = 0 /\ UNCHANGED <<launch, engine>>

Turn(r) == \/ Waits(r) \/ Acquires(r) \/ Works(r) \/ Engages(r)
           \/ Exits(r) \/ Releases(r)
------------------------------------------------------------------------------
LEMMA Numbers ==
  /\ Requests \subseteq Promoters /\ Listing \in Promoters
  /\ \A r \in Requests : r # Listing
  BY RenderAssumption DEF Requests, Listing, Promoters

(* Every step of a render is one of the turns, and the catalogue stays     *)
(* claimed by who promotes.                                                *)
LEMMA RenderTurns ==
  ASSUME Types, Claimed, NEW r \in Requests, RenderStep(r)
  PROVE  (Turn(r) \/ Unmoved) /\ Claimed'
  <1> USE DEF At, Leave, Release, Leased, Stages, Free, Held, Moves, Turn,
              Types
  <1>1. CASE Render(r) \/ Provision(r) \/ CannotLaunch(r)
    <2>1. Waits(r) /\ pc[r] # "promoting" /\ work' = work
      BY <1>1 DEF Render, Provision, CannotLaunch, Waits, papers
    <2> QED
      BY <2>1 DEF Waits, Claimed
  <1>2. CASE AcquireLease(r)
    <2>1. /\ Waits(r) \/ Acquires(r)
          /\ pc[r] # "promoting" /\ work' = work
      BY <1>2 DEF AcquireLease, Acquires, Waits
    <2> QED
      BY <2>1 DEF Waits, Acquires, Claimed
  <1>3. CASE CannotPrepare(r)
    <2>1. Releases(r) /\ pc[r] # "promoting" /\ work' = work
      BY <1>3 DEF CannotPrepare, Releases
    <2> QED
      BY <2>1 DEF Releases, Claimed
  <1>4. CASE StartSession(r) \/ EndSession(r) \/ Interrupt(r)
    <2>1. /\ Works(r) \/ Releases(r)
          /\ pc[r] # "promoting" /\ work' = work
      BY <1>4 DEF StartSession, EndSession, Interrupt, Works, Releases, papers
    <2> QED
      BY <2>1 DEF Works, Releases, Claimed
  <1>5. ASSUME NEW swallowed \in BOOLEAN,
               StartRecord(r, swallowed) \/ Unpromote(r, swallowed)
        PROVE  (Turn(r) \/ Unmoved) /\ Claimed'
    <2>1. Works(r) /\ pc[r] # "promoting" /\ work' = work
      BY <1>5 DEF StartRecord, Unpromote, Works
    <2> QED
      BY <2>1 DEF Works, Claimed
  <1>6. CASE StartEngine(r)
    <2>1. /\ Releases(r) \/ Engages(r)
          /\ pc[r] # "promoting" /\ work' = work
      BY <1>6 DEF StartEngine, Releases, Engages
    <2> QED
      BY <2>1 DEF Releases, Engages, Claimed
  <1>7. ASSUME NEW swallowed \in BOOLEAN,
               NEW how \in {"failed", "finished"},
               EngineExits(r, how, swallowed)
        PROVE  (Turn(r) \/ Unmoved) /\ Claimed'
    <2>1. Exits(r) /\ pc[r] # "promoting" /\ work' = work
      BY <1>7 DEF EngineExits, Exits
    <2> QED
      BY <2>1 DEF Exits, Claimed
  <1>8. CASE Close(r)
    <2>1. /\ Works(r) \/ Releases(r)
          /\ pc[r] # "promoting" /\ work' = work
      BY <1>8 DEF Close, Works, Releases
    <2> QED
      BY <2>1 DEF Works, Releases, Claimed
  <1>9. CASE TakeCatalogue(r)
    <2>1. /\ Unmoved /\ pc[r] = "promoting"
          /\ work' = [work EXCEPT ![r] = record]
      BY <1>9, Numbers DEF TakeCatalogue, Wants, Unmoved, renders
    <2> QED
      BY <2>1, Numbers DEF Unmoved, Claimed
  <1>10. CASE Promote(r)
    <2>1. pc[r] = "promoting"
      BY <1>10 DEF Promote, FreeCatalogue, Claimed
    <2>2. /\ Works(r) \/ Releases(r)
          /\ work' = [work EXCEPT ![r] = NoWork]
      BY <1>10, <2>1 DEF Promote, FreeCatalogue, Works, Releases
    <2> QED
      BY <2>2, Numbers DEF Works, Releases, Claimed
  <1>11. CASE CatalogueStaysHeld(r)
    <2>1. Releases(r) /\ work[r] = NoWork /\ work' = work
      BY <1>11, Numbers DEF CatalogueStaysHeld, Wants, Unclaimed, Releases
    <2> QED
      BY <2>1 DEF Releases, Claimed
  <1> QED
    BY <1>1, <1>2, <1>3, <1>4, <1>5, <1>6, <1>7, <1>8, <1>9, <1>10, <1>11
       DEF RenderStep

(* Turns keep the lease's discipline.                                      *)
LEMMA TurnKeeps ==
  ASSUME LeaseInv, NEW r \in Requests, Turn(r)
  PROVE  Types' /\ HolderIsAlone' /\ EngineIsLeased'
  <1> USE DEF LeaseInv, Types, HolderIsAlone, EngineIsLeased, Moves, Free,
              Held, Leased, Stages
  <1>1. CASE Waits(r)
    BY <1>1 DEF Waits
  <1>2. CASE Acquires(r)
    BY <1>2 DEF Acquires
  <1>3. CASE Works(r)
    BY <1>3 DEF Works
  <1>4. CASE Engages(r)
    BY <1>4 DEF Engages
  <1>5. CASE Exits(r)
    BY <1>5 DEF Exits
  <1>6. CASE Releases(r)
    BY <1>6 DEF Releases
  <1> QED
    BY <1>1, <1>2, <1>3, <1>4, <1>5, <1>6 DEF Turn

LEMMA CrashKeeps ==
  ASSUME LeaseInv, Crash
  PROVE  LeaseInv'
  <1>1. /\ launch' = launch + 1 /\ UNCHANGED <<lease, engine>>
        /\ pc' = [r \in Requests |-> IF pc[r] \in {"idle", "done"} THEN pc[r]
                                     ELSE "crashed"]
        /\ work' = [p \in Promoters |-> NoWork]
    BY DEF Crash
  <1>2. Claimed'
    BY <1>1, Numbers DEF Claimed
  <1>3. \A r \in Requests : ~Leased(pc'[r])
    BY <1>1 DEF Leased, Stages
  <1> QED
    BY <1>1, <1>2, <1>3
       DEF LeaseInv, Types, HolderIsAlone, EngineIsLeased, Stages

LEMMA OtherKeeps ==
  ASSUME LeaseInv, Unmoved, Claimed'
  PROVE  LeaseInv'
  BY DEF LeaseInv, Unmoved, Types, HolderIsAlone, EngineIsLeased

LEMMA StepLease == LeaseInv /\ [Next]_vars => LeaseInv'
  <1> SUFFICES ASSUME LeaseInv, [Next]_vars PROVE LeaseInv'
    OBVIOUS
  <1>1. ASSUME NEW c \in Callers, SaveStep(c) \/ SaveFails(c)
        PROVE  LeaseInv'
    <2>1. Unmoved /\ work' = work
      BY <1>1 DEF SaveStep, SaveFails, Unmoved, papers, renders
    <2> QED
      BY <2>1, OtherKeeps DEF LeaseInv, Claimed, Unmoved
  <1>2. ASSUME NEW r \in Requests, RenderStep(r)
        PROVE  LeaseInv'
    <2>1. (Turn(r) \/ Unmoved) /\ Claimed'
      BY <1>2, RenderTurns DEF LeaseInv
    <2> QED
      BY <2>1, TurnKeeps, OtherKeeps DEF LeaseInv
  <1>3. ASSUME NEW r \in Requests, OrphanExits(r)
        PROVE  LeaseInv'
    <2>1. /\ engine' = engine \ {r} /\ UNCHANGED <<pc, lease, launch, work>>
      BY <1>3 DEF OrphanExits, papers, renders
    <2> QED
      BY <2>1 DEF LeaseInv, Claimed, Types, HolderIsAlone, EngineIsLeased
  <1>4. CASE Listings
    <2>1. Unmoved
      BY <1>4, Numbers
         DEF Listings, ListSessions, FindInterrupted, PutDone, Reconcile,
             TakeCatalogue, CatalogueStaysHeld, Unmoved, papers, renders
    <2>2. \/ work' = work
          \/ \E w : work' = [work EXCEPT ![Listing] = w]
      BY <1>4, Numbers
         DEF Listings, ListSessions, FindInterrupted, PutDone, Reconcile,
             TakeCatalogue, CatalogueStaysHeld, FreeCatalogue
    <2>3. Claimed'
      BY <2>1, <2>2, Numbers DEF LeaseInv, Claimed, Unmoved
    <2> QED
      BY <2>1, <2>3, OtherKeeps
  <1>5. CASE Cancel \/ ReportProgress
    <2>1. Unmoved /\ work' = work
      BY <1>5 DEF Cancel, ReportProgress, Unmoved, papers, renders
    <2> QED
      BY <2>1, OtherKeeps DEF LeaseInv, Claimed, Unmoved
  <1>6. CASE Crash
    BY <1>6, CrashKeeps
  <1>7. CASE Reclaim
    <2>1. /\ lease # launch /\ engine = {} /\ lease' = 0
          /\ UNCHANGED <<pc, launch, engine, work>>
      BY <1>7 DEF Reclaim, renders
    <2> QED
      BY <2>1 DEF LeaseInv, Claimed, Types, HolderIsAlone, EngineIsLeased
  <1>8. CASE UNCHANGED vars
    <2>1. Unmoved /\ work' = work
      BY <1>8 DEF vars, papers, renders, Unmoved
    <2> QED
      BY <2>1, OtherKeeps DEF LeaseInv, Claimed, Unmoved
  <1> QED
    BY <1>1, <1>2, <1>3, <1>4, <1>5, <1>6, <1>7, <1>8 DEF Next

LEMMA InitLease == Init => LeaseInv
  BY RenderAssumption, Numbers
     DEF Init, LeaseInv, Types, Claimed, HolderIsAlone, EngineIsLeased,
         Leased, Stages

(* The lease stays with one launch and one render of it.                   *)
THEOREM Inductive == Spec => []LeaseInv
  BY InitLease, StepLease, PTL DEF Spec

(* Two engines never write to one workspace: not when two requests pass    *)
(* the checks together, nor when an engine outlives its app.               *)
THEOREM OneEngineOnly == Spec => []OneEngine
  <1>1. LeaseInv => OneEngine
    <2> SUFFICES ASSUME LeaseInv PROVE Cardinality(engine) <= 1
      BY DEF OneEngine
    <2>1. CASE engine = {}
      BY <2>1, FS_EmptySet
    <2>2. CASE engine # {}
      <3>1. PICK r \in engine : engine = {r}
        BY <2>2 DEF LeaseInv, EngineIsLeased
      <3>2. Cardinality({r}) = 1
        BY FS_Singleton
      <3> QED
        BY <3>1, <3>2
    <2> QED
      BY <2>1, <2>2
  <1> QED
    BY <1>1, Inductive, PTL
------------------------------------------------------------------------------
SaveStates == [content : Sessions \cup {Absent},
               at : {"none", "queued", "staging", "session", "gone"},
               filled : BOOLEAN]

Records == [run : Requests, outcome : {"running", "failed", "finished"}]

Typed ==
  /\ TypeOK
  /\ listing \in [at : {"idle", "read", "putting", "found"},
                  read : Sessions \cup {Absent}]

(* From the entry to the end of the session it is live and of this launch. *)
Lives ==
  /\ \A r \in Requests :
       pc[r] \in {"starting", "running", "exited"} => live = Started(r)
  /\ live # Absent => live.status = "running" /\ live.owner = launch

LEMMA PapersDiffer ==
  /\ Absent \notin Sessions /\ Empty \notin Sessions /\ Torn \notin Sessions
  /\ Absent # Empty /\ Absent # Torn /\ Empty # Torn
  /\ Absent.run = 0 /\ Absent.status = "absent"
  /\ Empty.run = 0 /\ Torn.run = 0 /\ 0 \notin Requests
  BY RenderAssumption DEF Absent, Empty, Torn, Unreadable, Sessions, Requests

LEMMA ReadIsPaper ==
  /\ Read(Absent) = Absent /\ Read(Empty) = Absent /\ Read(Torn) = Absent
  /\ \A s \in Sessions : Read(s) = s
  BY PapersDiffer DEF Read

LEMMA QuietIsSave ==
  /\ Quiet \in SaveStates /\ Quiet.at = "none" /\ Quiet.filled = FALSE
  /\ \A x \in Sessions \cup {Absent} :
       /\ [content |-> x, at |-> "queued", filled |-> FALSE] \in SaveStates
       /\ [content |-> x, at |-> "queued", filled |-> FALSE] # Quiet
  BY DEF Quiet, SaveStates

LEMMA StatusChanges ==
  ASSUME NEW s \in Sessions,
         NEW status \in {"running", "interrupted", "completed"}
  PROVE  /\ [s EXCEPT !.status = status] \in Sessions
         /\ [s EXCEPT !.status = status].run = s.run
         /\ [s EXCEPT !.status = status].status = status
  BY DEF Sessions

LEMMA StartedIsSession ==
  ASSUME launch \in Launches, NEW r \in Requests
  PROVE  /\ Started(r) \in Sessions /\ Started(r).run = r
         /\ Started(r).status = "running" /\ Started(r).owner = launch
  BY DEF Started, Sessions

LEMMA CallersDiffer ==
  /\ Requests \subseteq Callers /\ Progress \in Callers
  /\ Listing \in Callers /\ Progress # Listing
  /\ \A r \in Requests : r # Progress /\ r # Listing
  BY RenderAssumption DEF Requests, Callers, Progress, Listing

(* What a save, however its handles overlap, leaves in the files.          *)
LEMMA SaveTypes ==
  ASSUME Typed, NEW c \in Callers, Open(c) \/ Fill(c) \/ Rename(c)
  PROVE  /\ {session', staging'} \subseteq Sessions \cup {Absent, Empty, Torn}
         /\ saves' \in [Callers -> SaveStates]
  <1>1. /\ saves \in [Callers -> SaveStates] /\ saves[c] \in SaveStates
        /\ session \in Sessions \cup {Absent, Empty, Torn}
        /\ staging \in Sessions \cup {Absent, Empty, Torn}
    BY DEF Typed, TypeOK, SaveStates
  <1>2. /\ [saves[c] EXCEPT !.at = "staging"] \in SaveStates
        /\ [saves[c] EXCEPT !.filled = TRUE] \in SaveStates
    BY <1>1 DEF SaveStates
  <1>3. CASE Open(c)
    <2>1. saves' = [saves EXCEPT ![c] = [saves[c] EXCEPT !.at = "staging"]]
      BY <1>1, <1>3 DEF Open
    <2> QED
      BY <1>1, <1>2, <1>3, <2>1 DEF Open
  <1>4. CASE Fill(c)
    <2>1. saves' = [saves EXCEPT ![c] = [saves[c] EXCEPT !.filled = TRUE]]
      BY <1>1, <1>4 DEF Fill
    <2>2. saves[c].content \in Sessions \cup {Absent}
      BY <1>1 DEF SaveStates
    <2> QED
      BY <1>1, <1>2, <1>4, <2>1, <2>2 DEF Fill, Overlaid
  <1>5. CASE Rename(c)
    <2>1. {session', staging'} \subseteq Sessions \cup {Absent, Empty, Torn}
      BY <1>1, <1>5 DEF Rename, sessionFiles
    <2>2. ASSUME NEW d \in Callers
          PROVE  [saves[d] EXCEPT !.at = Following[@]] \in SaveStates
      BY <1>1 DEF SaveStates, Following
    <2>3. saves' \in [Callers -> SaveStates]
      <3>1. CASE saves' = [saves EXCEPT ![c] = Quiet]
        BY <1>1, <3>1, QuietIsSave
      <3>2. CASE saves' = [d \in Callers |->
                   IF d = c THEN Quiet
                   ELSE [saves[d] EXCEPT !.at = Following[@]]]
        BY <2>2, <3>2, QuietIsSave
      <3> QED
        BY <1>5, <3>1, <3>2 DEF Rename
    <2> QED
      BY <2>1, <2>3
  <1> QED
    BY <1>3, <1>4, <1>5

(* A save that begins.                                                     *)
LEMMA BeginTypes ==
  ASSUME Typed, NEW c \in Callers, NEW x \in Sessions,
         NEW spoiling \in BOOLEAN, Save(c, x, spoiling)
  PROVE  /\ saves' \in [Callers -> SaveStates]
         /\ UNCHANGED <<session, staging>> /\ spoiled' \in BOOLEAN
  BY QuietIsSave DEF Save, Typed, TypeOK, SaveStates, sessionFiles

LEMMA LiveEnds ==
  ASSUME Typed, Lives, NEW r \in Requests, pc[r] = "exited"
  PROVE  /\ Ended(live, result[r]) \in Sessions
         /\ Ended(live, result[r]).run = r
         /\ Ended(live, result[r]).status =
              IF result[r] = "finished" THEN "completed" ELSE "interrupted"
  <1>1. live = Started(r) /\ live \in Sessions /\ live.run = r
    BY StartedIsSession DEF Lives, Typed, TypeOK
  <1>2. CASE result[r] = "finished"
    <2>1. Ended(live, result[r]) = [live EXCEPT !.status = "completed"]
      BY <1>2 DEF Ended
    <2> QED
      BY <1>1, <1>2, <2>1, StatusChanges
  <1>3. CASE result[r] # "finished"
    <2>1. Ended(live, result[r]) = [live EXCEPT !.status = "interrupted"]
      BY <1>3 DEF Ended
    <2> QED
      BY <1>1, <1>3, <2>1, StatusChanges
  <1> QED
    BY <1>2, <1>3

(* A listing corrects what it has read or what is live.                    *)
Found == IF listing.read # Absent /\ live # Absent THEN live ELSE listing.read

LEMMA ListingFinds ==
  ASSUME Typed
  PROVE  /\ Found \in Sessions \cup {Absent}
         /\ NeedsReconciling(Found) =>
              /\ Found \in Sessions
              /\ [Found EXCEPT !.status = "interrupted"] \in Sessions
  <1>1. Found \in Sessions \cup {Absent}
    BY DEF Typed, TypeOK, Found
  <1>2. NeedsReconciling(Found) => Found \in Sessions
    BY <1>1, PapersDiffer DEF NeedsReconciling
  <1> QED
    BY <1>1, <1>2, StatusChanges

(* Where requests stand that have no result yet.                           *)
Early == {"idle", "checking", "provisioning", "preparing"}

NoneYet ==
  \A r \in Requests :
    pc[r] \in Early \cup {"recorded", "starting", "running"}
      => result[r] = "none"

Based == LeaseInv /\ Typed /\ Lives /\ NoneYet

(* TypeOK in parts.                                                        *)
PapersTyped ==
  /\ {session, staging} \subseteq Sessions \cup {Absent, Empty, Torn}
  /\ saves \in [Callers -> SaveStates]

RestTyped ==
  /\ record \in {NoRecord} \cup Records
  /\ live \in Sessions \cup {Absent}
  /\ result \in [Requests -> {"none", "failed", "finished"}]
  /\ lease \in Launches \cup {0} /\ launch \in Launches
  /\ lock \in {"free", "held", "dead", "empty"}
  /\ pending \in Requests \cup {0}
  /\ {catalogue, aborted, engine, delivered} \subseteq SUBSET Requests
  /\ listing \in [at : {"idle", "read", "putting", "found"},
                  read : Sessions \cup {Absent}]

LEMMA TypeParts ==
  Typed <=> /\ PapersTyped /\ RestTyped /\ DOMAIN work = Promoters
            /\ spoiled \in BOOLEAN
  BY DEF Typed, TypeOK, PapersTyped, RestTyped, SaveStates, Records

LEMMA RestKept ==
  ASSUME Based, [Next]_vars
  PROVE  RestTyped'
  <1>1. RestTyped
    BY TypeParts DEF Based
  <1> USE DEF RestTyped, vars, papers, store, renders
  <1>2. ASSUME NEW c \in Callers, SaveStep(c) \/ SaveFails(c)
        PROVE  RestTyped'
    BY <1>1, <1>2 DEF SaveStep, SaveFails
  <1>3. ASSUME NEW r \in Requests,
               Render(r) \/ Provision(r) \/ CannotLaunch(r) \/ AcquireLease(r)
                 \/ CannotPrepare(r) \/ Close(r) \/ TakeCatalogue(r)
                 \/ CatalogueStaysHeld(r)
        PROVE  RestTyped'
    BY <1>1, <1>3 DEF Render, Provision, CannotLaunch, AcquireLease,
       CannotPrepare, Close, TakeCatalogue, CatalogueStaysHeld, Leave,
       Release, At, Wants
  <1>4. ASSUME NEW r \in Requests, StartSession(r) \/ EndSession(r)
        PROVE  RestTyped'
    BY <1>1, <1>4, StartedIsSession DEF StartSession, EndSession, Save
  <1>5. ASSUME NEW r \in Requests, StartEngine(r) \/ OrphanExits(r)
        PROVE  RestTyped'
    BY <1>1, <1>5 DEF StartEngine, OrphanExits
  <1>6. ASSUME NEW r \in Requests,
               NEW how \in {"running", "failed", "finished"}
        PROVE  [run |-> r, outcome |-> how] \in Records
    BY DEF Records
  <1>7. ASSUME NEW r \in Requests, NEW swallowed \in BOOLEAN,
               StartRecord(r, swallowed)
        PROVE  RestTyped'
    BY <1>1, <1>6, <1>7 DEF StartRecord, WriteRecord
  <1>8. ASSUME NEW r \in Requests, NEW swallowed \in BOOLEAN,
               Unpromote(r, swallowed)
        PROVE  RestTyped'
    BY <1>1, <1>6, <1>8 DEF Unpromote, WriteRecord
  <1>9. ASSUME NEW r \in Requests, NEW swallowed \in BOOLEAN,
               NEW how \in {"failed", "finished"},
               EngineExits(r, how, swallowed)
        PROVE  RestTyped'
    BY <1>1, <1>6, <1>9 DEF EngineExits, WriteRecord
  <1>10. ASSUME NEW r \in Requests, Interrupt(r)
         PROVE  RestTyped'
    BY <1>1, <1>10 DEF Interrupt, Release, Leave
  <1>11. ASSUME NEW p \in Promoters PROVE Verified(p) \subseteq Requests
    <2> SUFFICES ASSUME Read(session).status = "completed",
                        Read(session).run = work[p].run
                 PROVE  work[p].run \in Requests
      BY DEF Verified
    <2>1. session \in Sessions
      BY ReadIsPaper, PapersDiffer DEF Based, Typed, TypeOK
    <2> QED
      BY <2>1, ReadIsPaper DEF Sessions
  <1>12. ASSUME NEW r \in Requests, Promote(r)
         PROVE  RestTyped'
    BY <1>1, <1>11, <1>12, Numbers DEF Promote, FreeCatalogue, Release, Leave
  <1>13. CASE Listings
    <2>1. Read(session) \in Sessions \cup {Absent}
      BY ReadIsPaper DEF Based, Typed, TypeOK
    <2> QED
      BY <1>1, <1>11, <1>13, <2>1, Numbers
         DEF Listings, ListSessions, FindInterrupted, PutDone, Reconcile,
             TakeCatalogue, CatalogueStaysHeld, FreeCatalogue, Wants
  <1>14. CASE Cancel \/ ReportProgress \/ Reclaim
    <2>1. CASE Cancel
      BY <1>1, <2>1 DEF Cancel
    <2>2. CASE ReportProgress
      BY <1>1, <2>2 DEF ReportProgress
    <2>3. CASE Reclaim
      BY <1>1, <2>3 DEF Reclaim
    <2> QED
      BY <1>14, <2>1, <2>2, <2>3
  <1>15. CASE Crash
    <2>1. launch' \in Launches
      BY <1>1, <1>15, RenderAssumption DEF Crash, Launches
    <2> QED
      BY <1>1, <1>15, <2>1 DEF Crash
  <1>16. CASE UNCHANGED vars
    BY <1>1, <1>16
  <1> QED
    BY <1>2, <1>3, <1>4, <1>5, <1>7, <1>8, <1>9, <1>10, <1>12, <1>13,
       <1>14, <1>15, <1>16 DEF Next, RenderStep

LEMMA PapersKept ==
  ASSUME Based, [Next]_vars
  PROVE  PapersTyped' /\ spoiled' \in BOOLEAN
  <1>1. Typed /\ PapersTyped /\ spoiled \in BOOLEAN
    BY TypeParts DEF Based
  <1> USE DEF vars, papers, store, renders, sessionFiles
  <1>2. ASSUME NEW c \in Callers, NEW x \in Sessions, NEW spoiling \in BOOLEAN,
               Save(c, x, spoiling)
        PROVE  PapersTyped' /\ spoiled' \in BOOLEAN
    BY <1>1, <1>2, BeginTypes DEF PapersTyped
  <1>3. ASSUME NEW c \in Callers, SaveStep(c) PROVE PapersTyped'
    BY <1>1, <1>3, SaveTypes DEF SaveStep, PapersTyped
  <1>4. ASSUME NEW c \in Callers, SaveFails(c) PROVE PapersTyped'
    BY <1>1, <1>4, QuietIsSave DEF SaveFails, PapersTyped
  <1>5. ASSUME NEW r \in Requests, StartSession(r)
        PROVE  PapersTyped' /\ spoiled' \in BOOLEAN
    BY <1>1, <1>2, <1>5, CallersDiffer, StartedIsSession
       DEF StartSession, Typed, TypeOK
  <1>6. ASSUME NEW r \in Requests, EndSession(r)
        PROVE  PapersTyped' /\ spoiled' \in BOOLEAN
    <2>1. Ended(live, result[r]) \in Sessions
      BY <1>1, <1>6, LiveEnds DEF Based, EndSession, At
    <2> QED
      BY <1>2, <1>6, <2>1, CallersDiffer DEF EndSession
  <1>7. ASSUME NEW r \in Requests, Interrupt(r)
        PROVE  PapersTyped' /\ spoiled' \in BOOLEAN
    <2>1. CASE Read(session) = Absent
      BY <1>1, <1>7, <2>1 DEF Interrupt, PapersTyped
    <2>2. CASE Read(session) # Absent
      <3>1. Read(session) \in Sessions
        BY <1>1, <2>2, ReadIsPaper DEF Typed, TypeOK
      <3>2. [Read(session) EXCEPT !.status = "interrupted"] \in Sessions
        BY <3>1, StatusChanges
      <3> QED
        BY <1>2, <1>7, <2>2, <3>2, CallersDiffer DEF Interrupt
    <2> QED
      BY <2>1, <2>2
  <1>8. CASE ReportProgress
    <2>1. live \in Sessions
      BY <1>1, <1>8 DEF ReportProgress, Typed, TypeOK
    <2> QED
      BY <1>2, <1>8, <2>1, CallersDiffer DEF ReportProgress
  <1>9. CASE FindInterrupted
    <2>1. CASE NeedsReconciling(Found)
      <3>1. [Found EXCEPT !.status = "interrupted"] \in Sessions
        BY <1>1, <2>1, ListingFinds
      <3>2. Save(Listing, [Found EXCEPT !.status = "interrupted"],
                 Found # Read(session))
        BY <1>9, <2>1 DEF FindInterrupted, Found
      <3> QED
        BY <1>2, <3>1, <3>2, CallersDiffer
    <2>2. CASE ~NeedsReconciling(Found)
      BY <1>1, <1>9, <2>2 DEF FindInterrupted, Found, PapersTyped
    <2> QED
      BY <2>1, <2>2
  <1>10. CASE Crash
    BY <1>1, <1>10, QuietIsSave DEF Crash, PapersTyped
  <1>11. ASSUME UNCHANGED <<session, staging, saves>>
         PROVE  PapersTyped'
    BY <1>1, <1>11 DEF PapersTyped
  <1>12. ASSUME NEW r \in Requests,
                RenderStep(r) /\ ~StartSession(r) /\ ~EndSession(r)
                  /\ ~Interrupt(r)
         PROVE  UNCHANGED <<session, staging, saves>> /\ spoiled' \in BOOLEAN
    BY <1>1, <1>12 DEF RenderStep, Render, Provision, CannotLaunch,
       AcquireLease, CannotPrepare, StartEngine, Close, StartRecord,
       Unpromote, EngineExits, TakeCatalogue, Promote, CatalogueStaysHeld
  <1>13. CASE Listings /\ ~FindInterrupted
    BY <1>1, <1>11, <1>13 DEF Listings, ListSessions, PutDone, Reconcile,
       TakeCatalogue, CatalogueStaysHeld
  <1>14. CASE Cancel \/ Reclaim \/ UNCHANGED vars
              \/ \E r \in Requests : OrphanExits(r)
    BY <1>1, <1>11, <1>14 DEF Cancel, Reclaim, OrphanExits
  <1>15. ASSUME NEW c \in Callers, SaveStep(c) \/ SaveFails(c)
         PROVE  spoiled' \in BOOLEAN
    BY <1>1, <1>15 DEF SaveStep, SaveFails
  <1> QED
    BY <1>3, <1>4, <1>5, <1>6, <1>7, <1>8, <1>9, <1>10, <1>11, <1>12,
       <1>13, <1>14, <1>15 DEF Next, Listings

LEMMA TypesKept ==
  ASSUME Based, [Next]_vars
  PROVE  Typed'
  <1>1. LeaseInv'
    BY StepLease DEF Based
  <1>2. DOMAIN work' = Promoters
    BY <1>1 DEF LeaseInv, Claimed
  <1>3. PapersTyped' /\ RestTyped' /\ spoiled' \in BOOLEAN
    BY RestKept, PapersKept
  <1> QED
    BY <1>2, <1>3, TypeParts DEF Typed, TypeOK, PapersTyped, RestTyped,
       SaveStates, Records

(* The entry is made, written and dropped by who holds the lease.          *)
LEMMA LivesKept ==
  ASSUME Based, [Next]_vars
  PROVE  Lives' /\ NoneYet'
  <1>1. /\ pc \in [Requests -> Stages] /\ Lives /\ NoneYet
        /\ result \in [Requests -> {"none", "failed", "finished"}]
        /\ launch \in Launches
    BY DEF Based, LeaseInv, Types, Typed, TypeOK
  <1> USE DEF vars, papers, store, renders, Lives, NoneYet, Early
  <1>2. ASSUME UNCHANGED <<pc, live, launch, result>>
        PROVE  Lives' /\ NoneYet'
    BY <1>1, <1>2 DEF Started
  <1>3. ASSUME NEW r \in Requests, NEW here,
               pc' = [pc EXCEPT ![r] = here],
               here \notin {"starting", "running", "exited"},
               here \in Early \cup {"recorded"} => result[r] = "none",
               UNCHANGED <<live, launch, result>>
        PROVE  Lives' /\ NoneYet'
    BY <1>1, <1>3 DEF Started
  <1>4. ASSUME NEW r \in Requests,
               \/ Render(r) \/ Provision(r) \/ CannotLaunch(r)
               \/ AcquireLease(r) \/ CannotPrepare(r)
               \/ \E swallowed \in BOOLEAN : StartRecord(r, swallowed)
        PROVE  Lives' /\ NoneYet'
    <2>1. pc[r] \in Early
      BY <1>4 DEF Render, Provision, CannotLaunch, AcquireLease,
         CannotPrepare, StartRecord, At
    <2>2. /\ UNCHANGED <<live, launch, result>>
          /\ \E here \in Early \cup {"recorded", "done"} :
               pc' = [pc EXCEPT ![r] = here]
      BY <1>4 DEF Render, Provision, CannotLaunch, AcquireLease,
         CannotPrepare, StartRecord, At, Leave, Release
    <2> QED
      BY <1>1, <1>3, <2>1, <2>2
  <1>5. ASSUME NEW r \in Requests,
               \/ Close(r) \/ Promote(r) \/ CatalogueStaysHeld(r)
               \/ Interrupt(r)
        PROVE  Lives' /\ NoneYet'
    <2>1. /\ UNCHANGED <<live, launch, result>>
          /\ \E here \in {"done", "promoting", "unpromoted", "failing"} :
               pc' = [pc EXCEPT ![r] = here]
      BY <1>5, Numbers DEF Close, Promote, CatalogueStaysHeld, Interrupt,
         At, Leave, Release
    <2> QED
      BY <1>3, <2>1
  <1>6. ASSUME NEW r \in Requests, NEW swallowed \in BOOLEAN,
               Unpromote(r, swallowed)
        PROVE  Lives' /\ NoneYet'
    BY <1>1, <1>6 DEF Unpromote, At, Started
  (* The holder of the lease is alone in having an entry.                  *)
  <1>7. ASSUME NEW r \in Requests, StartSession(r)
        PROVE  Lives' /\ NoneYet'
    <2>1. /\ pc[r] = "recorded" /\ pc' = [pc EXCEPT ![r] = "starting"]
          /\ live' = Started(r) /\ UNCHANGED <<launch, result>>
      BY <1>7 DEF StartSession, At
    <2>2. \A q \in Requests : Leased(pc[q]) => q = r
      BY <2>1 DEF Based, LeaseInv, HolderIsAlone, Leased, Stages
    <2>3. Started(r)' = Started(r)
      BY <2>1 DEF Started
    <2> QED
      BY <1>1, <2>1, <2>2, <2>3, StartedIsSession DEF Leased, Stages
  <1>8. ASSUME NEW r \in Requests, StartEngine(r)
        PROVE  Lives' /\ NoneYet'
    <2>1. /\ pc[r] = "starting" /\ UNCHANGED <<live, launch, result>>
          /\ \E here \in {"done", "running"} : pc' = [pc EXCEPT ![r] = here]
      BY <1>8 DEF StartEngine, At
    <2> QED
      BY <1>1, <2>1 DEF Started
  <1>9. ASSUME NEW r \in Requests, NEW swallowed \in BOOLEAN,
               NEW how \in {"failed", "finished"},
               EngineExits(r, how, swallowed)
        PROVE  Lives' /\ NoneYet'
    BY <1>1, <1>9 DEF EngineExits, At, Started
  <1>10. ASSUME NEW r \in Requests, EndSession(r)
         PROVE  Lives' /\ NoneYet'
    <2>1. /\ pc[r] = "exited" /\ pc' = [pc EXCEPT ![r] = "closing"]
          /\ live' = Absent /\ UNCHANGED <<launch, result>>
      BY <1>10 DEF EndSession, At
    <2>2. \A q \in Requests : Leased(pc[q]) => q = r
      BY <2>1 DEF Based, LeaseInv, HolderIsAlone, Leased, Stages
    <2> QED
      BY <1>1, <2>1, <2>2 DEF Leased, Stages
  <1>11. CASE Crash
    <2>1. /\ live' = Absent /\ result' = result
          /\ \A r \in Requests :
               pc'[r] \in {"idle", "done", "crashed"}
               /\ (pc'[r] = "idle" => pc[r] = "idle")
      BY <1>1, <1>11 DEF Crash
    <2> QED
      BY <1>1, <2>1
  <1>12. ASSUME NEW r \in Requests, TakeCatalogue(r) \/ OrphanExits(r)
         PROVE  Lives' /\ NoneYet'
    BY <1>2, <1>12 DEF TakeCatalogue, OrphanExits
  <1>13. ASSUME NEW c \in Callers, SaveStep(c) \/ SaveFails(c)
         PROVE  Lives' /\ NoneYet'
    BY <1>2, <1>13 DEF SaveStep, SaveFails
  <1>14. CASE Listings \/ Cancel \/ ReportProgress \/ Reclaim
              \/ UNCHANGED vars
    <2>1. UNCHANGED <<pc, live, launch, result>>
      BY <1>14, Numbers DEF Listings, ListSessions, FindInterrupted, PutDone,
         Reconcile, TakeCatalogue, CatalogueStaysHeld, Cancel,
         ReportProgress, Reclaim
    <2> QED
      BY <1>2, <2>1
  <1> QED
    BY <1>4, <1>5, <1>6, <1>7, <1>8, <1>9, <1>10, <1>11, <1>12, <1>13,
       <1>14 DEF Next, RenderStep

LEMMA InitBased == Init => Based
  <1> SUFFICES ASSUME Init PROVE Based
    OBVIOUS
  <1>1. LeaseInv
    BY InitLease
  <1>2. Typed
    <2>1. 1 \in Launches
      BY RenderAssumption DEF Launches
    <2> QED
      BY <2>1, QuietIsSave DEF Init, Typed, TypeOK, SaveStates
  <1> QED
    BY <1>1, <1>2, PapersDiffer DEF Init, Based, Lives, NoneYet

LEMMA StepBased == Based /\ [Next]_vars => Based'
  BY StepLease, TypesKept, LivesKept DEF Based

(* The files, the entries and the locks keep their types: what is staged   *)
(* and renamed, however saves overlap, is a session, torn or empty.        *)
THEOREM TypeCorrect == Spec => []TypeOK
  <1>1. Based => TypeOK
    BY DEF Based, Typed
  <1> QED
    BY <1>1, InitBased, StepBased, PTL DEF Spec
------------------------------------------------------------------------------
(* While nothing has gone wrong one save is under way at a time, and       *)
(* session.json is whole.                                                  *)
Orderly(save, staged) ==
  /\ save.content \in Sessions /\ save.at \in {"queued", "staging"}
  /\ save.at = "queued" => ~save.filled
  /\ save.at = "staging" =>
       staged = IF save.filled THEN save.content ELSE Empty

OneSave ==
  /\ session \in Sessions \cup {Absent}
  /\ \A c, d \in Outstanding : c = d
  /\ \A c \in Outstanding : Orderly(saves[c], staging)

(* What a step may do with the saves: leave them, begin one, carry the one *)
(* that is under way on, put it in place, or lose it.                      *)
SavesStay ==
  /\ session' = session /\ Outstanding' = Outstanding
  /\ \A c \in Outstanding : saves'[c].content = saves[c].content

Begins(c, x) ==
  /\ session' = session /\ Outstanding = {} /\ Outstanding' = {c}
  /\ saves'[c].content = x

Lands(c) ==
  /\ c \in Outstanding /\ session' = saves[c].content /\ Outstanding' = {}

LEMMA SaveBegins ==
  ASSUME Typed, OneSave, NEW c \in Callers, NEW x \in Sessions,
         NEW spoiling \in BOOLEAN, Save(c, x, spoiling), ~spoiled'
  PROVE  OneSave' /\ Begins(c, x) /\ ~spoiling /\ ~spoiled
  <1> DEFINE save == [content |-> x, at |-> "queued", filled |-> FALSE]
  <1>1. /\ saves \in [Callers -> SaveStates]
        /\ saves' = [saves EXCEPT ![c] = save] /\ session' = session
        /\ Outstanding = {} /\ ~spoiling /\ ~spoiled
    BY DEF Typed, TypeOK, SaveStates, Save, sessionFiles
  <1>2. save # Quiet
    BY QuietIsSave
  <1>3. \A d \in Callers : saves[d] = Quiet
    BY <1>1 DEF Outstanding
  <1>4. saves'[c] = save /\ \A d \in Callers \ {c} : saves'[d] = Quiet
    BY <1>1, <1>3
  <1>5. Outstanding' = {c}
    BY <1>2, <1>4 DEF Outstanding
  <1>6. Orderly(saves'[c], staging')
    BY <1>4 DEF Orderly
  <1> QED
    BY <1>1, <1>4, <1>5, <1>6 DEF OneSave, Begins

LEMMA SaveGoesOn ==
  ASSUME Typed, OneSave, NEW c \in Callers, Open(c) \/ Fill(c) \/ Rename(c)
  PROVE  OneSave' /\ (SavesStay \/ Lands(c))
  <1>1. /\ saves \in [Callers -> SaveStates] /\ saves[c] \in SaveStates
        /\ c \in Outstanding /\ Orderly(saves[c], staging)
        /\ \A d \in Callers \ {c} : saves[d] = Quiet
    <2>1. saves \in [Callers -> SaveStates] /\ saves[c] \in SaveStates
      BY DEF Typed, TypeOK, SaveStates
    <2>2. saves[c] # Quiet
      BY QuietIsSave DEF Open, Fill, Rename
    <2> QED
      BY <2>1, <2>2 DEF OneSave, Outstanding
  <1>2. ASSUME NEW save \in SaveStates, save.at # "none",
               saves' = [saves EXCEPT ![c] = save],
               save.content = saves[c].content, session' = session,
               Orderly(save, staging')
        PROVE  OneSave' /\ SavesStay
    <2>1. /\ saves'[c] = save /\ save # Quiet
          /\ \A d \in Callers \ {c} : saves'[d] = saves[d]
      BY <1>1, <1>2, QuietIsSave
    <2>2. Outstanding' = Outstanding
      BY <1>1, <2>1 DEF Outstanding
    <2>3. \A d \in Outstanding : d = c
      BY <1>1 DEF Outstanding
    <2>4. Orderly(saves'[c], staging')
      BY <1>2, <2>1 DEF Orderly
    <2> QED
      BY <1>2, <2>1, <2>2, <2>3, <2>4 DEF OneSave, SavesStay
  <1>3. CASE Open(c)
    <2> DEFINE save == [saves[c] EXCEPT !.at = "staging"]
    <2>1. /\ save \in SaveStates /\ save.at = "staging"
          /\ save.content = saves[c].content
          /\ save.filled = saves[c].filled
      BY <1>1 DEF SaveStates
    <2>2. /\ saves' = [saves EXCEPT ![c] = save]
          /\ staging' = Empty /\ session' = session
      BY <1>1, <1>3 DEF Open
    <2>3. saves[c].filled = FALSE /\ saves[c].content \in Sessions
      BY <1>1, <1>3 DEF Open, Orderly, SaveStates
    <2> HIDE DEF save
    <2>4. Orderly(save, staging')
      BY <2>1, <2>2, <2>3 DEF Orderly
    <2> QED
      BY <1>2, <2>1, <2>2, <2>4
  <1>4. CASE Fill(c)
    <2> DEFINE save == [saves[c] EXCEPT !.filled = TRUE]
    <2>1. /\ save \in SaveStates /\ save.at = saves[c].at
          /\ save.content = saves[c].content /\ save.filled = TRUE
      BY <1>1 DEF SaveStates
    <2>2. saves[c].at = "staging" /\ staging = Empty
      BY <1>1, <1>4 DEF Fill, Orderly
    <2>3. /\ saves' = [saves EXCEPT ![c] = save] /\ session' = session
          /\ staging' = saves[c].content
      BY <1>1, <1>4, <2>2 DEF Fill, Overlaid
    <2>4. saves[c].content \in Sessions
      BY <1>1 DEF Orderly
    <2> HIDE DEF save
    <2>5. Orderly(save, staging')
      BY <2>1, <2>2, <2>3, <2>4 DEF Orderly
    <2> QED
      BY <1>2, <2>1, <2>2, <2>3, <2>5
  <1>5. CASE Rename(c)
    <2>1. staging = saves[c].content /\ staging \in Sessions
      BY <1>1, <1>5 DEF Rename, Orderly
    <2>2. /\ session' = staging
          /\ saves' = [d \in Callers |->
                         IF d = c THEN Quiet
                         ELSE [saves[d] EXCEPT !.at = Following[@]]]
      BY <1>5, <2>1, PapersDiffer DEF Rename
    <2>3. [Quiet EXCEPT !.at = Following[@]] = Quiet
      <3>1. Following[Quiet.at] = "none"
        BY DEF Quiet, Following
      <3>2. \A q \in SaveStates : [q EXCEPT !.at = q.at] = q
        BY DEF SaveStates
      <3> QED
        BY <3>1, <3>2, QuietIsSave
    <2>4. \A d \in Callers : saves'[d] = Quiet
      BY <1>1, <2>2, <2>3
    <2>5. Outstanding' = {}
      BY <2>4 DEF Outstanding
    <2> QED
      BY <1>1, <2>1, <2>2, <2>5 DEF OneSave, Lands
  <1> QED
    BY <1>3, <1>4, <1>5
------------------------------------------------------------------------------
(* What a file says of a render that ended like this.                      *)
Tells(file, r, how) ==
  /\ file \in Sessions /\ file.run = r
  /\ file.status = IF how = "finished" THEN "completed" ELSE "interrupted"

Over(r) == pc[r] = "done" /\ result[r] # "none"

(* Where the files are when the last render that was recorded is at one of *)
(* its stages.                                                             *)
Course(r) ==
  /\ pc[r] \notin Early
  /\ pc[r] = "starting" =>
       \/ Outstanding = {} /\ session = Started(r)
       \/ r \in Outstanding /\ saves[r].content = Started(r)
  /\ pc[r] \in {"running", "exited"} =>
       /\ session = Started(r)
       /\ \A c \in Outstanding : c = Progress /\ saves[c].content = Started(r)
  /\ \/ Over(r)
     \/ pc[r] \in {"exited", "closing", "promoting", "unpromoted",
                   "corrected", "failing"}
     => record.outcome = result[r] /\ result[r] # "none"
  /\ pc[r] \in {"closing", "failing"} =>
       \/ Outstanding = {} /\ Tells(session, r, result[r])
       \/ r \in Outstanding /\ Tells(saves[r].content, r, result[r])
  /\ pc[r] \in {"promoting", "unpromoted"} => result[r] = "finished"
  /\ Over(r) \/ pc[r] \in {"promoting", "unpromoted"} =>
       Outstanding = {} /\ Tells(session, r, result[r])
  /\ pc[r] = "corrected" =>
       Outstanding = {} /\ Tells(session, r, "finished")
  /\ pc[r] \in {"corrected", "failing"} => result[r] = "failed"

RecordOfHolder ==
  \A r \in Requests :
    Leased(pc[r]) /\ pc[r] # "preparing" => record.run = r

OnCourse ==
  /\ OneSave /\ RecordOfHolder
  /\ \A r \in Requests : record.run = r => Course(r)

FilesInv == Based /\ (~spoiled => OnCourse)

LEMMA CourseStays ==
  ASSUME NEW r \in Requests, Course(r), SavesStay, pc'[r] = pc[r],
         UNCHANGED <<result, launch, record>>
  PROVE  Course(r)'
  <1>1. Started(r)' = Started(r) /\ (Over(r)' <=> Over(r))
    BY DEF Started, Over
  <1>2. \A c \in Outstanding' :
          c \in Outstanding /\ saves'[c].content = saves[c].content
    BY DEF SavesStay
  <1> QED
    BY <1>1, <1>2 DEF Course, SavesStay, Tells

LEMMA CourseLands ==
  ASSUME NEW r \in Requests, Course(r), OneSave, NEW c, Lands(c),
         pc'[r] = pc[r], UNCHANGED <<result, launch, record>>
  PROVE  Course(r)'
  <1>1. Started(r)' = Started(r) /\ (Over(r)' <=> Over(r))
    BY DEF Started, Over
  <1>2. /\ c \in Outstanding /\ session' = saves[c].content
        /\ Outstanding' = {} /\ \A d \in Outstanding : d = c
    BY DEF Lands, OneSave
  <1> QED
    BY <1>1, <1>2 DEF Course, Tells

(* Nothing happens to the files, and no request that has recorded itself   *)
(* moves.                                                                  *)
LEMMA OthersMove ==
  ASSUME Based, OnCourse, OneSave', SavesStay \/ \E c : Lands(c),
         UNCHANGED <<result, launch, record>>,
         \/ UNCHANGED pc
         \/ \E q \in Requests, there \in Early \cup {"done"} :
              pc[q] \in Early /\ pc' = [pc EXCEPT ![q] = there]
  PROVE  OnCourse'
  <1>1. pc \in [Requests -> Stages]
    BY DEF Based, LeaseInv, Types
  <1>2. \A r \in Requests : pc[r] \notin Early => pc'[r] = pc[r]
    BY <1>1
  <1>3. RecordOfHolder'
    <2> SUFFICES ASSUME NEW r \in Requests, Leased(pc'[r]),
                        pc'[r] # "preparing"
                 PROVE  pc'[r] = pc[r]
      BY DEF OnCourse, RecordOfHolder
    <2> QED
      BY <1>1 DEF Early, Leased, Stages
  <1>4. ASSUME NEW r \in Requests, record'.run = r PROVE Course(r)'
    <2>1. Course(r) /\ pc[r] \notin Early
      BY <1>4 DEF OnCourse, Course
    <2>2. pc'[r] = pc[r]
      BY <1>2, <2>1
    <2> QED
      BY <2>1, <2>2, CourseStays, CourseLands DEF OnCourse
  <1> QED
    BY <1>3, <1>4 DEF OnCourse

(* Who holds the lease moves, and its render is the last one recorded.     *)
LEMMA HolderMoves ==
  ASSUME Based, NEW q \in Requests, Leased(pc[q]), NEW there,
         pc' = [pc EXCEPT ![q] = there], OneSave', record'.run = q, Course(q)'
  PROVE  OnCourse'
  <1>1. /\ pc \in [Requests -> Stages]
        /\ \A r \in Requests : Leased(pc[r]) => r = q
    BY DEF Based, LeaseInv, Types, HolderIsAlone
  <1>2. RecordOfHolder'
    BY <1>1 DEF RecordOfHolder
  <1> QED
    BY <1>2 DEF OnCourse

LEMMA SavesStayWhole ==
  ASSUME UNCHANGED <<session, staging, saves>>
  PROVE  SavesStay /\ (OneSave => OneSave')
  <1>1. Outstanding' = Outstanding
    BY DEF Outstanding
  <1> QED
    BY <1>1 DEF SavesStay, OneSave

(* The record is written before the session ended, and both are told of    *)
(* the same end.                                                           *)
LEMMA HolderSteps ==
  ASSUME FilesInv, ~spoiled', NEW r \in Requests,
         \/ StartSession(r) \/ StartEngine(r) \/ EndSession(r) \/ Close(r)
         \/ Promote(r) \/ CatalogueStaysHeld(r) \/ Interrupt(r)
         \/ \E swallowed \in BOOLEAN :
              \/ StartRecord(r, swallowed) \/ Unpromote(r, swallowed)
              \/ \E how \in {"failed", "finished"} :
                   EngineExits(r, how, swallowed)
  PROVE  OnCourse'
  <1>1. /\ Based /\ Typed /\ pc \in [Requests -> Stages]
        /\ result \in [Requests -> {"none", "failed", "finished"}]
        /\ launch \in Launches
    BY DEF FilesInv, Based, LeaseInv, Types, Typed, TypeOK
  <1> USE DEF papers, store, renders, sessionFiles, At
  <1>2. ~spoiled /\ OnCourse /\ OneSave
    <2>1. spoiled => spoiled'
      BY Numbers DEF StartSession, StartEngine, EndSession, Close, Promote,
         CatalogueStaysHeld, Interrupt, StartRecord, Unpromote, EngineExits,
         Save
    <2> QED
      BY <2>1 DEF FilesInv, OnCourse
  <1>3. Leased(pc[r])
    <2>1. pc[r] \in {"preparing", "recorded", "starting", "running", "exited",
                     "closing", "promoting", "unpromoted", "corrected",
                     "failing"}
      BY <1>1, Numbers
         DEF StartSession, StartEngine, EndSession, Close, Promote,
             CatalogueStaysHeld, Interrupt, StartRecord, Unpromote,
             EngineExits, Wants, FreeCatalogue, Based, LeaseInv, Claimed
    <2> QED
      BY <2>1 DEF Leased, Stages
  <1>4. pc[r] # "preparing" => record.run = r /\ Course(r)
    BY <1>2, <1>3 DEF OnCourse, RecordOfHolder
  <1>5. /\ Started(r) \in Sessions /\ Started(r).run = r
        /\ launch' = launch => Started(r)' = Started(r)
    BY <1>1, StartedIsSession DEF Started
  <1>6. ASSUME NEW swallowed \in BOOLEAN, StartRecord(r, swallowed)
        PROVE  OnCourse'
    <2>1. /\ pc[r] = "preparing" /\ pc' = [pc EXCEPT ![r] = "recorded"]
          /\ UNCHANGED <<session, staging, saves>> /\ record'.run = r
      BY <1>2, <1>6 DEF StartRecord, WriteRecord
    <2>2. OneSave'
      BY <1>2, <2>1, SavesStayWhole
    <2>3. pc'[r] = "recorded"
      BY <1>1, <2>1
    <2>4. Course(r)'
      BY <2>3 DEF Course, Over, Early
    <2> QED
      BY <1>1, <1>3, <2>1, <2>2, <2>4, HolderMoves
  <1>7. CASE StartSession(r)
    <2>1. /\ pc[r] = "recorded" /\ pc' = [pc EXCEPT ![r] = "starting"]
          /\ Save(r, Started(r), FALSE) /\ UNCHANGED <<record, launch>>
      BY <1>7 DEF StartSession
    <2>2. OneSave' /\ Begins(r, Started(r))
      BY <1>1, <1>2, <1>5, <2>1, CallersDiffer, SaveBegins
    <2>3. pc'[r] = "starting" /\ record'.run = r
      BY <1>1, <1>4, <2>1
    <2>4. Course(r)'
      BY <1>5, <2>1, <2>2, <2>3 DEF Course, Over, Begins, Early
    <2> QED
      BY <1>1, <1>3, <2>1, <2>2, <2>3, <2>4, HolderMoves
  <1>8. CASE StartEngine(r)
    <2>1. /\ pc[r] = "starting" /\ saves[r] = Quiet
          /\ UNCHANGED <<session, staging, saves, record, launch, result>>
          /\ \E there \in {"done", "running"} : pc' = [pc EXCEPT ![r] = there]
      BY <1>8 DEF StartEngine, Saved
    <2>2. PICK there \in {"done", "running"} : pc' = [pc EXCEPT ![r] = there]
      BY <2>1
    <2>3. OneSave' /\ Outstanding' = Outstanding
      BY <1>2, <2>1, SavesStayWhole DEF SavesStay
    <2>4. /\ pc'[r] \in {"done", "running"} /\ record'.run = r
          /\ result'[r] = "none"
      BY <1>1, <1>4, <2>1, <2>2 DEF Based, NoneYet
    <2>5. session = Started(r) /\ Outstanding = {}
      BY <1>4, <2>1 DEF Course, Outstanding
    <2>6. Course(r)'
      BY <1>5, <2>1, <2>3, <2>4, <2>5 DEF Course, Over, Early
    <2> QED
      BY <1>1, <1>3, <2>2, <2>3, <2>4, <2>6, HolderMoves
  <1>9. ASSUME NEW swallowed \in BOOLEAN, NEW how \in {"failed", "finished"},
               EngineExits(r, how, swallowed)
        PROVE  OnCourse'
    <2>1. /\ pc[r] = "running" /\ pc' = [pc EXCEPT ![r] = "exited"]
          /\ UNCHANGED <<session, staging, saves, launch>>
          /\ record' = [run |-> r, outcome |-> how] /\ record'.run = r
          /\ result' = [result EXCEPT ![r] = how]
      BY <1>2, <1>9 DEF EngineExits, WriteRecord
    <2>2. OneSave' /\ SavesStay
      BY <1>2, <2>1, SavesStayWhole
    <2>3. /\ pc'[r] = "exited" /\ result'[r] = how
          /\ record'.outcome = how
      BY <1>1, <2>1
    <2>4. /\ session = Started(r)
          /\ \A c \in Outstanding :
               c = Progress /\ saves[c].content = Started(r)
      BY <1>4, <2>1 DEF Course
    <2>5. Course(r)'
      BY <1>5, <2>1, <2>2, <2>3, <2>4 DEF Course, Over, SavesStay, Early
    <2> QED
      BY <1>1, <1>3, <2>1, <2>2, <2>5, HolderMoves
  <1>10. CASE EndSession(r)
    <2>1. /\ pc[r] = "exited" /\ pc' = [pc EXCEPT ![r] = "closing"]
          /\ Save(r, Ended(live, result[r]), FALSE)
          /\ UNCHANGED <<record, launch, result>>
      BY <1>10 DEF EndSession
    <2>2. Tells(Ended(live, result[r]), r, result[r])
      BY <1>1, <2>1, LiveEnds DEF Based, Tells
    <2>3. OneSave' /\ Begins(r, Ended(live, result[r]))
      BY <1>1, <1>2, <2>1, <2>2, CallersDiffer, SaveBegins DEF Tells
    <2>4. pc'[r] = "closing" /\ record'.run = r
      BY <1>1, <1>4, <2>1
    <2>5. record.outcome = result[r] /\ result[r] # "none"
      BY <1>4, <2>1 DEF Course
    <2>6. Course(r)'
      BY <2>1, <2>2, <2>3, <2>4, <2>5 DEF Course, Over, Begins, Early
    <2> QED
      BY <1>1, <1>3, <2>1, <2>3, <2>4, <2>6, HolderMoves
  <1>11. CASE Close(r)
    <2>1. /\ pc[r] \in {"closing", "failing"} /\ saves[r] = Quiet
          /\ UNCHANGED <<session, staging, saves, record, launch, result>>
          /\ \/ /\ pc' = [pc EXCEPT ![r] = "promoting"]
                /\ result[r] = "finished"
             \/ pc' = [pc EXCEPT ![r] = "done"]
      BY <1>11 DEF Close, Saved, Release, Leave
    <2>2. OneSave' /\ Outstanding' = Outstanding
      BY <1>2, <2>1, SavesStayWhole DEF SavesStay
    <2>3. /\ Outstanding = {} /\ Tells(session, r, result[r])
          /\ record.outcome = result[r] /\ result[r] # "none"
      BY <1>4, <2>1 DEF Course, Outstanding
    <2>4. PICK there \in {"promoting", "done"} :
            /\ pc' = [pc EXCEPT ![r] = there]
            /\ there = "promoting" => result[r] = "finished"
      BY <2>1
    <2>5. pc'[r] = there /\ record'.run = r
      BY <1>1, <1>4, <2>1, <2>4
    <2>6. Course(r)'
      BY <2>1, <2>2, <2>3, <2>4, <2>5 DEF Course, Over, Early
    <2> QED
      BY <1>1, <1>3, <2>2, <2>4, <2>5, <2>6, HolderMoves
  <1>12. CASE Promote(r) \/ CatalogueStaysHeld(r)
    <2>1. /\ pc[r] = "promoting"
          /\ UNCHANGED <<session, staging, saves, record, launch, result>>
          /\ \E there \in {"unpromoted", "done"} :
               pc' = [pc EXCEPT ![r] = there]
      BY <1>1, <1>12, Numbers
         DEF Promote, CatalogueStaysHeld, Wants, FreeCatalogue, Release,
             Leave, Based, LeaseInv, Claimed
    <2>2. OneSave' /\ Outstanding' = Outstanding
      BY <1>2, <2>1, SavesStayWhole DEF SavesStay
    <2>3. /\ Outstanding = {} /\ Tells(session, r, result[r])
          /\ record.outcome = result[r] /\ result[r] = "finished"
      BY <1>4, <2>1 DEF Course
    <2>4. PICK there \in {"unpromoted", "done"} :
            pc' = [pc EXCEPT ![r] = there]
      BY <2>1
    <2>5. pc'[r] = there /\ record'.run = r
      BY <1>1, <1>4, <2>1, <2>4
    <2>6. Course(r)'
      BY <2>1, <2>2, <2>3, <2>4, <2>5 DEF Course, Over, Early
    <2> QED
      BY <1>1, <1>3, <2>2, <2>4, <2>5, <2>6, HolderMoves
  <1>13. ASSUME NEW swallowed \in BOOLEAN, Unpromote(r, swallowed)
         PROVE  OnCourse'
    <2>1. /\ pc[r] = "unpromoted" /\ pc' = [pc EXCEPT ![r] = "corrected"]
          /\ UNCHANGED <<session, staging, saves, launch>>
          /\ record' = [run |-> r, outcome |-> "failed"] /\ record'.run = r
          /\ result' = [result EXCEPT ![r] = "failed"]
      BY <1>2, <1>13 DEF Unpromote, WriteRecord
    <2>2. OneSave' /\ Outstanding' = Outstanding
      BY <1>2, <2>1, SavesStayWhole DEF SavesStay
    <2>3. /\ pc'[r] = "corrected" /\ result'[r] = "failed"
          /\ record'.outcome = "failed"
      BY <1>1, <2>1
    <2>4. Outstanding = {} /\ Tells(session, r, "finished")
      BY <1>4, <2>1 DEF Course
    <2>5. Course(r)'
      BY <2>1, <2>2, <2>3, <2>4 DEF Course, Over, Tells, Early
    <2> QED
      BY <1>1, <1>3, <2>1, <2>2, <2>5, HolderMoves
  <1>14. CASE Interrupt(r)
    <2> DEFINE x == [session EXCEPT !.status = "interrupted"]
    <2>1. /\ pc[r] = "corrected" /\ UNCHANGED <<record, launch, result>>
      BY <1>14 DEF Interrupt
    <2>2. /\ Outstanding = {} /\ session \in Sessions /\ session.run = r
          /\ record.outcome = "failed" /\ result[r] = "failed"
      BY <1>4, <2>1 DEF Course, Tells
    <2>3. Read(session) = session /\ session # Absent
      BY <2>2, ReadIsPaper, PapersDiffer
    <2>4. Tells(x, r, "failed")
      BY <2>2, StatusChanges DEF Tells
    <2>5. pc' = [pc EXCEPT ![r] = "failing"] /\ Save(r, x, FALSE)
      BY <1>14, <2>3 DEF Interrupt
    <2> HIDE DEF x
    <2>6. OneSave' /\ Begins(r, x)
      BY <1>1, <1>2, <2>4, <2>5, CallersDiffer, SaveBegins DEF Tells
    <2>7. pc'[r] = "failing" /\ record'.run = r
      BY <1>1, <1>4, <2>1, <2>5
    <2>8. Course(r)'
      BY <2>1, <2>2, <2>4, <2>6, <2>7 DEF Course, Over, Begins, Early
    <2> QED
      BY <1>1, <1>3, <2>5, <2>6, <2>7, <2>8, HolderMoves
  <1> QED
    BY <1>6, <1>7, <1>8, <1>9, <1>10, <1>11, <1>12, <1>13, <1>14

(* Only what an earlier launch left running is listed as interrupted, and  *)
(* no render of this launch has its files in that state.                   *)
LEMMA CorrectionKeeps ==
  ASSUME FilesInv, ~spoiled', FindInterrupted, NeedsReconciling(Found)
  PROVE  OnCourse'
  <1> DEFINE x == [Found EXCEPT !.status = "interrupted"]
  <1>1. /\ Based /\ Typed /\ pc \in [Requests -> Stages]
        /\ session \in Sessions \cup {Absent, Empty, Torn}
    BY DEF FilesInv, Based, LeaseInv, Types, Typed, TypeOK
  <1>2. /\ Save(Listing, x, Found # Read(session))
        /\ UNCHANGED <<pc, result, launch, record>>
    BY DEF FindInterrupted, Found, papers, renders
  <1>3. Found \in Sessions /\ x \in Sessions
    BY <1>1, ListingFinds
  <1> HIDE DEF x
  <1>4. OnCourse
    BY <1>2 DEF Save, FilesInv
  <1>5. OneSave' /\ Begins(Listing, x) /\ Found = Read(session)
    <2>1. /\ OneSave' /\ Begins(Listing, x)
          /\ ~(Found # Read(session))
      BY <1>1, <1>2, <1>3, <1>4, CallersDiffer, SaveBegins DEF OnCourse
    <2> QED
      BY <2>1
  <1>6. session = Found
    BY <1>1, <1>3, <1>5, ReadIsPaper, PapersDiffer
  <1>7. /\ session.status = "running" /\ session.owner # launch
        /\ Outstanding = {}
    BY <1>5, <1>6 DEF NeedsReconciling, Begins
  <1>8. RecordOfHolder'
    BY <1>2, <1>4 DEF OnCourse, RecordOfHolder
  <1>9. ASSUME NEW r \in Requests, record'.run = r PROVE Course(r)'
    <2>1. Course(r)
      BY <1>2, <1>4, <1>9 DEF OnCourse
    <2>2. Started(r).owner = launch
      BY <1>1, StartedIsSession DEF Typed, TypeOK
    <2>3. /\ pc[r] \notin {"starting", "running", "exited", "closing",
                          "failing", "promoting", "unpromoted", "corrected"}
          /\ ~Over(r) /\ pc[r] \notin Early
      BY <1>7, <2>1, <2>2 DEF Course, Tells
    <2>4. ~Over(r)' /\ pc'[r] = pc[r]
      BY <1>2, <2>3 DEF Over
    <2> QED
      BY <2>3, <2>4 DEF Course, Early
  <1> QED
    BY <1>5, <1>8, <1>9 DEF OnCourse

LEMMA OthersStep ==
  ASSUME FilesInv, ~spoiled',
         \/ \E r \in Requests :
              \/ Render(r) \/ Provision(r) \/ CannotLaunch(r)
              \/ AcquireLease(r) \/ CannotPrepare(r) \/ TakeCatalogue(r)
              \/ OrphanExits(r)
         \/ Listings /\ (FindInterrupted => ~NeedsReconciling(Found))
         \/ Cancel \/ Reclaim \/ UNCHANGED vars
  PROVE  OnCourse'
  <1> USE DEF vars, papers, store, renders, sessionFiles
  <1>1. /\ UNCHANGED <<session, staging, saves, spoiled>>
        /\ UNCHANGED <<result, launch, record>>
        /\ \/ UNCHANGED pc
           \/ \E q \in Requests, there \in Early \cup {"done"} :
                pc[q] \in Early /\ pc' = [pc EXCEPT ![q] = there]
    <2>1. ASSUME NEW r \in Requests,
                 \/ Render(r) \/ Provision(r) \/ CannotLaunch(r)
                 \/ AcquireLease(r) \/ CannotPrepare(r)
          PROVE  /\ UNCHANGED <<session, staging, saves, spoiled>>
                 /\ UNCHANGED <<result, launch, record>>
                 /\ pc[r] \in Early
                 /\ \E there \in Early \cup {"done"} :
                      pc' = [pc EXCEPT ![r] = there]
      BY <2>1 DEF Render, Provision, CannotLaunch, AcquireLease,
         CannotPrepare, At, Leave, Release, Early
    <2>2. ASSUME NEW r \in Requests, TakeCatalogue(r) \/ OrphanExits(r)
          PROVE  UNCHANGED <<session, staging, saves, spoiled, result, launch,
                             record, pc>>
      BY <2>2 DEF TakeCatalogue, OrphanExits
    <2>3. ASSUME Listings, FindInterrupted => ~NeedsReconciling(Found)
          PROVE  UNCHANGED <<session, staging, saves, spoiled, result, launch,
                             record, pc>>
      <3>1. CASE FindInterrupted
        BY <2>3, <3>1 DEF FindInterrupted, Found
      <3>2. CASE ~FindInterrupted
        BY <2>3, <3>2 DEF Listings, ListSessions, PutDone, Reconcile,
           TakeCatalogue, CatalogueStaysHeld
      <3> QED
        BY <3>1, <3>2
    <2>4. ASSUME Cancel \/ Reclaim \/ UNCHANGED vars
          PROVE  UNCHANGED <<session, staging, saves, spoiled, result, launch,
                             record, pc>>
      BY <2>4 DEF Cancel, Reclaim
    <2> QED
      BY <2>1, <2>2, <2>3, <2>4
  <1>2. OnCourse
    BY <1>1 DEF FilesInv
  <1>3. SavesStay /\ OneSave'
    BY <1>1, <1>2, SavesStayWhole DEF OnCourse
  <1> QED
    BY <1>1, <1>2, <1>3, OthersMove DEF FilesInv

LEMMA ProgressKeeps ==
  ASSUME FilesInv, ~spoiled', ReportProgress
  PROVE  OnCourse'
  <1>1. /\ Based /\ Typed /\ pc \in [Requests -> Stages]
        /\ launch \in Launches
    BY DEF FilesInv, Based, LeaseInv, Types, Typed, TypeOK
  <1>2. PICK r \in Requests : pc[r] = "running"
    BY DEF ReportProgress
  <1>3. /\ Save(Progress, live, FALSE)
        /\ UNCHANGED <<pc, result, launch, record>>
    BY DEF ReportProgress, papers, renders
  <1>4. OnCourse
    BY <1>3 DEF Save, FilesInv
  <1>5. Leased(pc[r]) /\ pc[r] # "preparing"
    BY <1>2 DEF Leased, Stages
  <1>6. record.run = r /\ Course(r)
    BY <1>4, <1>5 DEF OnCourse, RecordOfHolder
  <1>7. live = Started(r) /\ live \in Sessions /\ Started(r)' = Started(r)
    BY <1>1, <1>2, <1>3, StartedIsSession DEF Based, Lives, Started
  <1>8. OneSave' /\ Begins(Progress, live)
    BY <1>1, <1>3, <1>4, <1>7, CallersDiffer, SaveBegins DEF OnCourse
  <1>9. Course(r)'
    BY <1>2, <1>3, <1>6, <1>7, <1>8 DEF Course, Over, Begins, Early
  <1>10. pc' = [pc EXCEPT ![r] = pc[r]] /\ record'.run = r
    BY <1>1, <1>3, <1>6
  <1> QED
    BY <1>1, <1>5, <1>8, <1>9, <1>10, HolderMoves

LEMMA SaveKeeps ==
  ASSUME FilesInv, ~spoiled', NEW c \in Callers, SaveStep(c)
  PROVE  OnCourse'
  <1>1. /\ Open(c) \/ Fill(c) \/ Rename(c)
        /\ UNCHANGED <<pc, result, launch, record, spoiled>>
    BY DEF SaveStep, papers, renders
  <1>2. OnCourse /\ Typed
    BY <1>1 DEF FilesInv, Based
  <1>3. OneSave' /\ (SavesStay \/ Lands(c))
    BY <1>1, <1>2, SaveGoesOn DEF OnCourse
  <1> QED
    BY <1>1, <1>2, <1>3, OthersMove DEF FilesInv

LEMMA CrashStays ==
  ASSUME FilesInv, ~spoiled', Crash
  PROVE  OnCourse'
  <1>1. /\ UNCHANGED <<session, record, result, spoiled>>
        /\ \A c \in Callers : saves'[c] = Quiet
        /\ \A r \in Requests : pc'[r] = IF pc[r] \in {"idle", "done"}
                                        THEN pc[r] ELSE "crashed"
    BY DEF Crash, sessionFiles
  <1>2. OnCourse
    BY <1>1 DEF FilesInv
  <1>3. Outstanding' = {}
    BY <1>1 DEF Outstanding
  <1>4. OneSave'
    BY <1>1, <1>2, <1>3 DEF OnCourse, OneSave
  <1>5. RecordOfHolder'
    BY <1>1 DEF RecordOfHolder, Leased, Stages
  <1>6. ASSUME NEW r \in Requests, record'.run = r PROVE Course(r)'
    <2>1. Course(r) /\ pc[r] # "idle"
      BY <1>1, <1>2, <1>6 DEF OnCourse, Course, Early
    <2>2. pc'[r] \in {"done", "crashed"} /\ (Over(r)' <=> Over(r))
      BY <1>1, <2>1 DEF Over
    <2> QED
      BY <1>1, <1>3, <2>1, <2>2 DEF Course, Early
  <1> QED
    BY <1>4, <1>5, <1>6 DEF OnCourse

LEMMA StepFiles == FilesInv /\ [Next]_vars => FilesInv'
  <1> SUFFICES ASSUME FilesInv, [Next]_vars PROVE FilesInv'
    OBVIOUS
  <1>1. Based'
    BY StepBased DEF FilesInv
  <1>2. ASSUME ~spoiled' PROVE OnCourse'
    <2>1. ASSUME NEW c \in Callers, SaveStep(c) \/ SaveFails(c)
          PROVE  OnCourse'
      BY <1>2, <2>1, SaveKeeps DEF SaveFails
    <2>2. ASSUME NEW r \in Requests, RenderStep(r) \/ OrphanExits(r)
          PROVE  OnCourse'
      BY <1>2, <2>2, HolderSteps, OthersStep DEF RenderStep
    <2>3. CASE Listings
      BY <1>2, <2>3, CorrectionKeeps, OthersStep
    <2>4. CASE Cancel \/ Reclaim \/ UNCHANGED vars
      BY <1>2, <2>4, OthersStep
    <2>5. CASE ReportProgress \/ Crash
      BY <1>2, <2>5, ProgressKeeps, CrashStays
    <2> QED
      BY <2>1, <2>2, <2>3, <2>4, <2>5 DEF Next
  <1> QED
    BY <1>1, <1>2 DEF FilesInv

LEMMA InitFiles == Init => FilesInv
  <1> SUFFICES ASSUME Init PROVE FilesInv
    OBVIOUS
  <1>1. Outstanding = {} /\ session = Absent /\ record.run = 0
    BY DEF Init, Outstanding, NoRecord
  <1>2. OneSave
    BY <1>1 DEF OneSave
  <1>3. RecordOfHolder
    BY DEF Init, RecordOfHolder, Leased, Stages
  <1> QED
    BY <1>1, <1>2, <1>3, InitBased, PapersDiffer DEF FilesInv, OnCourse

(* A render that has returned, and nothing has begun since, left two files *)
(* that agree on how it ended, unless a save failed or met another:        *)
(* whatever is listed, cancelled, reclaimed or crashes meanwhile.          *)
THEOREM EndSettled == Spec => []EndedIsSettled
  <1>1. ASSUME FilesInv PROVE EndedIsSettled
    <2> SUFFICES ASSUME NEW r \in Requests, pc[r] = "done",
                        result[r] # "none", record.run = r, ~spoiled
                 PROVE  /\ record.outcome = result[r]
                        /\ Read(session).run = r
                        /\ Read(session).status =
                             IF result[r] = "finished" THEN "completed"
                             ELSE "interrupted"
      BY DEF EndedIsSettled
    <2>1. Course(r) /\ Over(r)
      BY <1>1 DEF FilesInv, OnCourse, Over
    <2>2. record.outcome = result[r] /\ Tells(session, r, result[r])
      BY <2>1 DEF Course
    <2>3. Read(session) = session
      BY <2>2, ReadIsPaper DEF Tells
    <2> QED
      BY <2>2, <2>3 DEF Tells
  <1> QED
    BY <1>1, InitFiles, StepFiles, PTL DEF Spec
------------------------------------------------------------------------------
(* One at a time works on the catalogue, with the record that it read.     *)
OneKeeper ==
  \A p, q \in Promoters : work[p] # NoWork /\ work[q] # NoWork => p = q

Carried == \A r \in Requests : work[r] # NoWork => work[r] = record

(* A delivered render that is still the last one recorded is in the        *)
(* catalogue, and who reconciles has read that it is finished.             *)
Kept(r) ==
  record.run = r =>
    /\ r \in catalogue /\ result[r] = "finished"
    /\ work[Listing] # NoWork => work[Listing] = record

CatalogueInv ==
  /\ FilesInv /\ OneKeeper
  /\ \A r \in delivered : pc[r] = "done"
  /\ ~spoiled => Carried /\ \A r \in delivered : Kept(r)

(* The catalogue is left alone by who does not promote or list.            *)
LEMMA CatalogueStays ==
  ASSUME CatalogueInv, FilesInv', spoiled => spoiled',
         UNCHANGED <<work, catalogue, delivered, record, result>>,
         \A r \in Requests : pc[r] = "done" => pc'[r] = "done"
  PROVE  CatalogueInv'
  <1>1. delivered \subseteq Requests
    BY DEF CatalogueInv, FilesInv, Based, Typed, TypeOK
  <1> QED
    BY <1>1 DEF CatalogueInv, OneKeeper, Carried, Kept

(* Nobody is at the catalogue while a record is written.                   *)
LEMMA RecordKeepsCatalogue ==
  ASSUME CatalogueInv, FilesInv', spoiled => spoiled',
         UNCHANGED <<work, catalogue, delivered>>,
         NEW r \in Requests, Leased(pc[r]), pc[r] # "promoting",
         record' = record \/ record'.run = r,
         NEW there, pc' = [pc EXCEPT ![r] = there],
         \A q \in Requests \ {r} : result'[q] = result[q]
  PROVE  CatalogueInv'
  <1>1. /\ delivered \subseteq Requests /\ pc \in [Requests -> Stages]
        /\ Claimed /\ \A q \in Requests : Leased(pc[q]) => q = r
    BY DEF CatalogueInv, FilesInv, Based, Typed, TypeOK, LeaseInv, Types,
       HolderIsAlone
  <1>2. Carried'
    BY <1>1 DEF Carried, Claimed, Leased, Stages
  <1>3. ASSUME NEW q \in delivered
        PROVE  q # r /\ pc'[q] = "done" /\ result'[q] = result[q]
    <2>1. pc[q] = "done" /\ q \in Requests
      BY <1>1 DEF CatalogueInv
    <2>2. q # r
      BY <2>1 DEF Leased
    <2> QED
      BY <1>1, <2>1, <2>2
  <1>4. ASSUME NEW q \in delivered, ~spoiled PROVE Kept(q)'
    <2>1. Kept(q)
      BY <1>4 DEF CatalogueInv
    <2> QED
      BY <1>3, <2>1 DEF Kept
  <1> QED
    BY <1>2, <1>3, <1>4 DEF CatalogueInv, OneKeeper

LEMMA TakeKeeps ==
  ASSUME CatalogueInv, FilesInv', NEW p \in Promoters, TakeCatalogue(p)
  PROVE  CatalogueInv'
  <1>1. /\ \A q \in Promoters : work[q] = NoWork
        /\ work' = [work EXCEPT ![p] = record]
        /\ UNCHANGED <<pc, catalogue, delivered, record, result, spoiled>>
    BY DEF TakeCatalogue, Unclaimed, store, renders
  <1>2. \A q \in Promoters : work'[q] = IF q = p THEN record ELSE NoWork
    BY <1>1 DEF CatalogueInv, FilesInv, Based, LeaseInv, Claimed
  <1> QED
    BY <1>1, <1>2, Numbers DEF CatalogueInv, OneKeeper, Carried, Kept

LEMMA WorkEnds ==
  ASSUME CatalogueInv, NEW p \in Promoters, FreeCatalogue(p)
  PROVE  \A q \in Promoters : work'[q] = NoWork
  BY DEF FreeCatalogue, CatalogueInv, OneKeeper, FilesInv, Based, LeaseInv,
         Claimed

LEMMA PromoteKeeps ==
  ASSUME CatalogueInv, FilesInv', NEW r \in Requests, Promote(r)
  PROVE  CatalogueInv'
  <1>1. /\ UNCHANGED <<record, result, session, spoiled>>
        /\ FreeCatalogue(r)
    BY DEF Promote, store, sessionFiles
  <1>2. /\ pc \in [Requests -> Stages] /\ delivered \subseteq Requests
        /\ work[r] # NoWork /\ pc[r] = "promoting"
        /\ \A q \in delivered : pc[q] = "done"
    BY <1>1 DEF FreeCatalogue, CatalogueInv, FilesInv, Based, Typed, TypeOK,
       LeaseInv, Types, Claimed
  <1>3. \A q \in Promoters : work'[q] = NoWork
    BY <1>1, Numbers, WorkEnds
  <1>4. \A q \in delivered : pc'[q] = "done"
    BY <1>2 DEF Promote, Release, Leave, At
  <1>5. OneKeeper' /\ Carried'
    BY <1>3, Numbers DEF OneKeeper, Carried
  <1>6. ASSUME NEW q \in delivered, ~spoiled, catalogue \subseteq catalogue'
        PROVE  Kept(q)'
    <2>1. Kept(q)
      BY <1>6 DEF CatalogueInv
    <2> QED
      BY <1>1, <1>3, <1>6, <2>1, Numbers DEF Kept
  <1>7. CASE UNCHANGED <<catalogue, delivered>>
    BY <1>1, <1>4, <1>5, <1>6, <1>7 DEF CatalogueInv
  <1>8. CASE /\ Verified(r) # {} /\ catalogue' = catalogue \cup Verified(r)
             /\ delivered' = delivered \cup {r} /\ Release(r)
    <2>1. pc'[r] = "done"
      BY <1>2, <1>8 DEF Release, Leave
    <2>2. ASSUME ~spoiled PROVE Kept(r)'
      <3>1. work[r] = record /\ record.run = r /\ Course(r)
        <4>1. Leased(pc[r]) /\ pc[r] # "preparing"
          BY <1>2 DEF Leased, Stages
        <4> QED
          BY <1>2, <2>2, <4>1
             DEF CatalogueInv, Carried, FilesInv, OnCourse, RecordOfHolder
      <3>2. result[r] = "finished" /\ r \in Verified(r)
        BY <1>2, <1>8, <3>1 DEF Course, Verified
      <3> QED
        BY <1>1, <1>3, <1>8, <3>2, Numbers DEF Kept
    <2>3. catalogue \subseteq catalogue'
      BY <1>8
    <2>4. \A q \in delivered' : pc'[q] = "done"
      BY <1>4, <1>8, <2>1
    <2>5. ASSUME ~spoiled' PROVE \A q \in delivered' : Kept(q)'
      BY <1>1, <1>6, <1>8, <2>2, <2>3, <2>5
    <2> QED
      BY <1>5, <2>4, <2>5 DEF CatalogueInv
  <1> QED
    BY <1>7, <1>8 DEF Promote

(* Who reconciles has read the record of the render that was delivered     *)
(* last, and finds its session completed: it finds it again.               *)
LEMMA ReconcileKeeps ==
  ASSUME CatalogueInv, FilesInv', Reconcile
  PROVE  CatalogueInv'
  <1>1. /\ UNCHANGED <<pc, record, result, session, spoiled, delivered>>
        /\ FreeCatalogue(Listing) /\ work[Listing] # NoWork
        /\ catalogue' = Verified(Listing) \/ UNCHANGED catalogue
    BY DEF Reconcile, FreeCatalogue, store, renders, sessionFiles
  <1>2. \A q \in Promoters : work'[q] = NoWork
    BY <1>1, Numbers, WorkEnds
  <1>3. ASSUME NEW r \in delivered, ~spoiled, record.run = r
        PROVE  r \in catalogue' /\ result[r] = "finished"
    <2>1. /\ r \in catalogue /\ result[r] = "finished"
          /\ work[Listing] = record /\ pc[r] = "done" /\ r \in Requests
      BY <1>1, <1>3 DEF CatalogueInv, Kept, FilesInv, Based, Typed, TypeOK
    <2>2. Course(r) /\ Over(r)
      BY <1>3, <2>1 DEF CatalogueInv, FilesInv, OnCourse, Over
    <2>3. record.outcome = "finished" /\ Tells(session, r, "finished")
      BY <2>1, <2>2 DEF Course
    <2>4. r \in Verified(Listing)
      BY <1>3, <2>1, <2>3, ReadIsPaper DEF Verified, Tells
    <2> QED
      BY <1>1, <2>1, <2>4
  <1> QED
    BY <1>1, <1>2, <1>3, Numbers DEF CatalogueInv, OneKeeper, Carried, Kept

LEMMA CrashKeepsCatalogue ==
  ASSUME CatalogueInv, FilesInv', Crash
  PROVE  CatalogueInv'
  <1>1. /\ UNCHANGED <<record, result, spoiled, catalogue, delivered>>
        /\ \A q \in Promoters : work'[q] = NoWork
        /\ \A r \in Requests : pc[r] = "done" => pc'[r] = "done"
        /\ delivered \subseteq Requests
    BY DEF Crash, CatalogueInv, FilesInv, Based, Typed, TypeOK
  <1> QED
    BY <1>1, Numbers DEF CatalogueInv, OneKeeper, Carried, Kept

(* What has gone wrong stays so.                                           *)
LEMMA SpoiledStays ==
  ASSUME [Next]_vars, spoiled
  PROVE  spoiled'
  <1> USE DEF vars, papers, store, renders
  <1>1. ASSUME NEW c \in Callers, SaveStep(c) \/ SaveFails(c)
        PROVE  spoiled'
    BY <1>1 DEF SaveStep, SaveFails
  <1>2. ASSUME NEW r \in Requests, RenderStep(r) PROVE spoiled'
    <2>1. CASE \/ Render(r) \/ Provision(r) \/ CannotLaunch(r)
               \/ AcquireLease(r) \/ CannotPrepare(r) \/ StartEngine(r)
               \/ Close(r) \/ TakeCatalogue(r) \/ Promote(r)
               \/ CatalogueStaysHeld(r)
      BY <2>1 DEF Render, Provision, CannotLaunch, AcquireLease,
         CannotPrepare, StartEngine, Close, TakeCatalogue, Promote,
         CatalogueStaysHeld
    <2>2. CASE StartSession(r) \/ EndSession(r) \/ Interrupt(r)
      BY <2>2 DEF StartSession, EndSession, Interrupt, Save
    <2>3. CASE \E swallowed \in BOOLEAN :
                 \/ StartRecord(r, swallowed) \/ Unpromote(r, swallowed)
                 \/ \E how \in {"failed", "finished"} :
                      EngineExits(r, how, swallowed)
      BY <2>3 DEF StartRecord, Unpromote, EngineExits
    <2> QED
      BY <1>2, <2>1, <2>2, <2>3 DEF RenderStep
  <1>3. CASE Listings
    <2>1. CASE ListSessions \/ PutDone \/ Reconcile
               \/ TakeCatalogue(Listing) \/ CatalogueStaysHeld(Listing)
      BY <2>1 DEF ListSessions, PutDone, Reconcile, TakeCatalogue,
         CatalogueStaysHeld
    <2>2. CASE FindInterrupted
      BY <2>2 DEF FindInterrupted, Save
    <2> QED
      BY <1>3, <2>1, <2>2 DEF Listings
  <1>4. CASE Cancel \/ Reclaim \/ Crash \/ UNCHANGED vars
             \/ \E r \in Requests : OrphanExits(r)
    BY <1>4 DEF Cancel, Reclaim, Crash, OrphanExits
  <1>5. CASE ReportProgress
    BY <1>5 DEF ReportProgress, Save
  <1> QED
    BY <1>1, <1>2, <1>3, <1>4, <1>5 DEF Next

LEMMA StepCatalogue == CatalogueInv /\ [Next]_vars => CatalogueInv'
  <1> SUFFICES ASSUME CatalogueInv, [Next]_vars PROVE CatalogueInv'
    OBVIOUS
  <1>1. FilesInv'
    BY StepFiles DEF CatalogueInv
  <1>0. spoiled => spoiled'
    BY SpoiledStays
  <1>2. /\ pc \in [Requests -> Stages]
        /\ result \in [Requests -> {"none", "failed", "finished"}]
    BY DEF CatalogueInv, FilesInv, Based, LeaseInv, Types, Typed, TypeOK
  <1> USE DEF vars, papers, store, renders, sessionFiles
  <1>3. ASSUME NEW r \in Requests,
               \/ \E swallowed \in BOOLEAN :
                    \/ StartRecord(r, swallowed) \/ Unpromote(r, swallowed)
                    \/ \E how \in {"failed", "finished"} :
                         EngineExits(r, how, swallowed)
        PROVE  CatalogueInv'
    <2> DEFINE Wrote ==
           /\ pc[r] \in {"preparing", "unpromoted", "running"}
           /\ UNCHANGED <<work, catalogue, delivered>>
           /\ record' = record \/ record'.run = r
           /\ \E there \in {"recorded", "corrected", "exited"} :
                pc' = [pc EXCEPT ![r] = there]
           /\ \A q \in Requests \ {r} : result'[q] = result[q]
    <2>1. Wrote
      <3>1. ASSUME NEW swallowed \in BOOLEAN, StartRecord(r, swallowed)
            PROVE  Wrote
        BY <1>2, <3>1 DEF StartRecord, WriteRecord, At
      <3>2. ASSUME NEW swallowed \in BOOLEAN, Unpromote(r, swallowed)
            PROVE  Wrote
        BY <1>2, <3>2 DEF Unpromote, WriteRecord, At
      <3>3. ASSUME NEW swallowed \in BOOLEAN,
                   NEW how \in {"failed", "finished"},
                   EngineExits(r, how, swallowed)
            PROVE  Wrote
        BY <1>2, <3>3 DEF EngineExits, WriteRecord, At
      <3> QED
        BY <1>3, <3>1, <3>2, <3>3
    <2>2. Leased(pc[r]) /\ pc[r] # "promoting"
      BY <2>1 DEF Leased, Stages
    <2> QED
      BY <1>0, <1>1, <2>1, <2>2, RecordKeepsCatalogue
  <1>4. ASSUME NEW r \in Requests,
               \/ Render(r) \/ Provision(r) \/ CannotLaunch(r)
               \/ AcquireLease(r) \/ CannotPrepare(r) \/ StartSession(r)
               \/ StartEngine(r) \/ EndSession(r) \/ Close(r) \/ Interrupt(r)
               \/ CatalogueStaysHeld(r)
        PROVE  CatalogueInv'
    <2>1. /\ pc[r] # "done"
          /\ UNCHANGED <<work, catalogue, delivered, record, result>>
          /\ \E there \in Stages : pc' = [pc EXCEPT ![r] = there]
      <3>1. CASE \/ Render(r) \/ Provision(r) \/ CannotLaunch(r)
                 \/ AcquireLease(r) \/ CannotPrepare(r)
        BY <3>1 DEF Render, Provision, CannotLaunch, AcquireLease,
           CannotPrepare, At, Leave, Release, Stages
      <3>2. CASE StartSession(r) \/ StartEngine(r) \/ EndSession(r)
        BY <3>2 DEF StartSession, StartEngine, EndSession, At, Save, Stages
      <3>3. CASE Close(r) \/ Interrupt(r)
        BY <3>3 DEF Close, Interrupt, At, Leave, Release, Save, Stages
      <3>4. CASE CatalogueStaysHeld(r)
        BY <3>4, Numbers DEF CatalogueStaysHeld, Wants, Leave, Release, Stages
      <3> QED
        BY <1>4, <3>1, <3>2, <3>3, <3>4
    <2>2. \A q \in Requests : pc[q] = "done" => pc'[q] = "done"
      BY <1>2, <2>1
    <2> QED
      BY <1>0, <1>1, <2>1, <2>2, CatalogueStays
  <1>5. ASSUME NEW c \in Callers, SaveStep(c) \/ SaveFails(c)
        PROVE  CatalogueInv'
    BY <1>0, <1>1, <1>5, CatalogueStays DEF SaveStep, SaveFails
  <1>6. CASE \/ ListSessions \/ FindInterrupted \/ PutDone
             \/ CatalogueStaysHeld(Listing) \/ Cancel \/ ReportProgress
             \/ Reclaim \/ UNCHANGED vars
             \/ \E r \in Requests : OrphanExits(r)
    <2>1. UNCHANGED <<pc, work, catalogue, delivered, record, result>>
      <3>1. CASE \/ ListSessions \/ FindInterrupted \/ PutDone
                 \/ CatalogueStaysHeld(Listing)
        BY <3>1 DEF ListSessions, FindInterrupted, PutDone,
           CatalogueStaysHeld, Save
      <3>2. CASE \/ Cancel \/ ReportProgress \/ Reclaim \/ UNCHANGED vars
                 \/ \E r \in Requests : OrphanExits(r)
        BY <3>2 DEF Cancel, ReportProgress, Reclaim, OrphanExits, Save
      <3> QED
        BY <1>6, <3>1, <3>2
    <2> QED
      BY <1>0, <1>1, <2>1, CatalogueStays
  <1>7. ASSUME NEW p \in Promoters, TakeCatalogue(p) PROVE CatalogueInv'
    BY <1>1, <1>7, TakeKeeps
  <1>8. ASSUME NEW r \in Requests, Promote(r) PROVE CatalogueInv'
    BY <1>1, <1>8, PromoteKeeps
  <1>9. CASE Reconcile \/ Crash
    BY <1>1, <1>9, ReconcileKeeps, CrashKeepsCatalogue
  <1> QED
    BY <1>3, <1>4, <1>5, <1>6, <1>7, <1>8, <1>9, Numbers
       DEF Next, RenderStep, Listings

LEMMA InitCatalogue == Init => CatalogueInv
  BY InitFiles, Numbers DEF Init, CatalogueInv, OneKeeper, Carried

(* A render announced as finished is still in the catalogue, whatever is   *)
(* listed, reconciled or crashes, until the workspace is rendered again,   *)
(* unless a save failed or met another.                                    *)
THEOREM FinishedKept == Spec => []FinishedIsKept
  <1>1. ASSUME CatalogueInv PROVE FinishedIsKept
    BY <1>1 DEF CatalogueInv, Kept, FinishedIsKept
  <1> QED
    BY <1>1, InitCatalogue, StepCatalogue, PTL DEF Spec
=============================================================================
