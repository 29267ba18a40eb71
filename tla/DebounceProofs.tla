--------------------------- MODULE DebounceProofs ---------------------------
(***************************************************************************)
(* Theorems about the two services that wait for changes to calm down      *)
(* before they act: MapUpdateService on the regions of a map, Autosave on  *)
(* the edits of a project.                                                 *)
(*                                                                         *)
(* For every set of regions, every delay and every cooldown no change of a *)
(* watched region is forgotten, and when close() has returned nothing is   *)
(* left that could schedule an update.                                     *)
(*                                                                         *)
(* For an autosave the chain of writes is in the order of the edits, ahead *)
(* of the file (InOrder), and the last project is on disk, failed, pending *)
(* or in the chain (LatestIsCovered); so is what a leaver or a quit waits  *)
(* for.                                                                    *)
(***************************************************************************)
EXTENDS MapUpdateService, Autosave, TLAPS

(***************************************************************************)
(* The update service.                                                     *)
(***************************************************************************)
(* From the moment close() is called no timer is set: the loop, which sets *)
(* them, drops what it takes, and a timer that is off does not tick.       *)
ClosingIsQuiet == Closed => \A r \in Regions : timer[r] = Off

(* No region counts as changed before the loop watches.                    *)
NewIsClean == loop = "new" => dirty = {}

IInv ==
  /\ TypeOK /\ NewIsClean /\ ClosingIsQuiet
  /\ CloseMeansStopped /\ ChangesAreCovered
------------------------------------------------------------------------------
LEMMA Times ==
  /\ Cooldown \in Nat /\ MinDelay \in Nat /\ Longest \in Nat
  /\ Off = Longest + 1 /\ Off \in 0 .. Off
  BY ServiceAssumption DEF Longest, Off

(* A timer is set to a time that is not Off.                               *)
LEMMA DelayIsTime ==
  ASSUME TypeOK, NEW r \in Regions
  PROVE  Delay(r) \in 0 .. Off /\ Delay(r) # Off
  <1>1. since[r] \in 0 .. Cooldown
    BY DEF TypeOK
  <1> QED
    BY <1>1, ServiceAssumption DEF Delay, Longest, Off

LEMMA InitIInv == Init => IInv
  <1> SUFFICES ASSUME Init PROVE IInv
    OBVIOUS
  <1>1. 0 \in 0 .. MaxChanges /\ Cooldown \in 0 .. Cooldown
    BY ServiceAssumption
  <1>2. TypeOK
    BY <1>1, Times DEF Init, TypeOK
  <1> QED
    BY <1>2 DEF Init, IInv, NewIsClean, ClosingIsQuiet,
                Closed, CloseMeansStopped, ChangesAreCovered, Watching

LEMMA TakeKeeps ==
  ASSUME IInv, Take
  PROVE  IInv'
  <1>1. /\ loop = "taking" /\ ~Closed
        /\ timer' = [r \in Regions |->
                       IF r \in events THEN Delay(r) ELSE timer[r]]
        /\ events' = {}
        /\ UNCHANGED <<changes, dirty, loop, failed, since, closing, pool>>
    BY DEF Take
  <1>2. timer' \in [Regions -> 0 .. Off]
    BY <1>1, DelayIsTime DEF IInv, TypeOK
  <1>3. TypeOK'
    BY <1>1, <1>2 DEF IInv, TypeOK, pool
  <1>4. \A r \in events : r \in Regions => timer'[r] # Off
    BY <1>1, DelayIsTime DEF IInv
  <1>5. ChangesAreCovered'
    BY <1>1, <1>4
       DEF IInv, TypeOK, ChangesAreCovered, Watching, Closed, pool
  <1> QED
    BY <1>1, <1>3, <1>5
       DEF IInv, NewIsClean, ClosingIsQuiet, CloseMeansStopped, Closed

LEMMA FireKeeps ==
  ASSUME IInv, NEW r \in Regions, Fire(r)
  PROVE  IInv'
  <1>1. /\ timer[r] = 0 /\ timer' = [timer EXCEPT ![r] = Off]
        /\ UNCHANGED <<changes, dirty, events, loop, failed, closing, head>>
    BY DEF Fire
  <1>2. ~Closed
    BY <1>1, Times DEF IInv, NewIsClean, ClosingIsQuiet
  <1>3. /\ queued' = queued \cup {r}
        /\ since' = [since EXCEPT ![r] = 0]
    BY <1>2 DEF Fire, Schedule
  <1>4. TypeOK'
    BY <1>1, <1>3, Times, ServiceAssumption DEF IInv, TypeOK
  <1>5. ChangesAreCovered'
    BY <1>1, <1>3 DEF IInv, TypeOK, ChangesAreCovered, Watching, Closed
  <1> QED
    BY <1>1, <1>2, <1>4, <1>5
       DEF IInv, NewIsClean, ClosingIsQuiet, CloseMeansStopped, Closed

LEMMA TickKeeps ==
  ASSUME IInv, Tick
  PROVE  IInv'
  <1>1. /\ timer' = [r \in Regions |->
                       IF Ticking(timer[r]) THEN timer[r] - 1 ELSE timer[r]]
        /\ since' = [r \in Regions |->
                       IF since[r] < Cooldown THEN since[r] + 1 ELSE since[r]]
        /\ UNCHANGED <<changes, dirty, events, loop, failed, closing, pool>>
    BY DEF Tick
  <1>2. ASSUME NEW r \in Regions
        PROVE  timer'[r] \in 0 .. Off /\ (timer'[r] = Off <=> timer[r] = Off)
    <2>1. timer[r] \in 0 .. Off
      BY DEF IInv, TypeOK
    <2> QED
      BY <1>1, <2>1, Times DEF Ticking
  <1>3. since' \in [Regions -> 0 .. Cooldown]
    <2>1. ASSUME NEW r \in Regions
          PROVE  IF since[r] < Cooldown THEN since[r] + 1 \in 0 .. Cooldown
                 ELSE since[r] \in 0 .. Cooldown
      <3>1. since[r] \in 0 .. Cooldown
        BY DEF IInv, TypeOK
      <3> QED
        BY <3>1, ServiceAssumption
    <2> QED
      BY <1>1, <2>1
  <1>4. timer' \in [Regions -> 0 .. Off]
    BY <1>1, <1>2
  <1>5. TypeOK'
    BY <1>1, <1>3, <1>4 DEF IInv, TypeOK, pool
  <1>6. ChangesAreCovered'
    BY <1>1, <1>2
       DEF IInv, TypeOK, ChangesAreCovered, Watching, Closed, pool
  <1> QED
    BY <1>1, <1>2, <1>5, <1>6
       DEF IInv, NewIsClean, ClosingIsQuiet, CloseMeansStopped, Closed

(* The rest of the service leaves the pool and the regions as they are, or *)
(* ends the watch.                                                         *)
LEMMA ServiceKeeps ==
  ASSUME IInv, Start \/ StopLoop \/ Close \/ CloseReturns \/ WatchFails
  PROVE  IInv'
  <1>1. UNCHANGED <<changes, dirty, events, since, pool>>
    BY DEF Start, StopLoop, Close, CloseReturns, WatchFails
  <1>2. CASE Start
    <2>1. /\ loop = "new" /\ ~Closed /\ loop' = "taking"
          /\ UNCHANGED <<failed, timer, closing>>
      BY <1>2 DEF Start
    <2>2. TypeOK'
      BY <1>1, <2>1 DEF IInv, TypeOK, pool
    <2>3. dirty' = {} /\ ~(closing' = "closed")
      BY <1>1, <2>1 DEF IInv, NewIsClean, Closed
    <2> QED
      BY <1>1, <2>1, <2>2, <2>3
         DEF IInv, NewIsClean, ClosingIsQuiet, Closed,
             CloseMeansStopped, ChangesAreCovered
  <1>3. CASE StopLoop
    BY <1>1, <1>3 DEF StopLoop, IInv, TypeOK, NewIsClean, ClosingIsQuiet,
                      Closed, CloseMeansStopped, ChangesAreCovered, Watching,
                      pool
  <1>4. CASE Close
    <2>1. /\ timer' = [r \in Regions |-> Off] /\ closing' = "closing"
          /\ UNCHANGED <<loop, failed>>
      BY <1>4 DEF Close
    <2>2. TypeOK'
      BY <1>1, <2>1, Times DEF IInv, TypeOK, pool
    <2> QED
      BY <1>1, <2>1, <2>2
         DEF IInv, NewIsClean, ClosingIsQuiet, Closed, CloseMeansStopped,
             ChangesAreCovered, Watching
  <1>5. CASE CloseReturns
    BY <1>1, <1>5 DEF CloseReturns, IInv, TypeOK, NewIsClean, ClosingIsQuiet,
                      Closed, CloseMeansStopped, ChangesAreCovered, Watching,
                      pool
  <1>6. CASE WatchFails
    BY <1>1, <1>6 DEF WatchFails, IInv, TypeOK, NewIsClean, ClosingIsQuiet,
                      Closed, CloseMeansStopped, ChangesAreCovered, Watching,
                      pool
  <1> QED
    BY <1>2, <1>3, <1>4, <1>5, <1>6

LEMMA ChangeKeeps ==
  ASSUME IInv, NEW r \in Regions, RegionChanges(r)
  PROVE  IInv'
  <1>1. /\ loop = "taking"
        /\ changes < MaxChanges /\ changes' = changes + 1
        /\ dirty' = dirty \cup {r} /\ events' = events \cup {r}
        /\ UNCHANGED <<service, pool>>
    BY DEF RegionChanges
  <1>2. changes' \in 0 .. MaxChanges
    BY <1>1, ServiceAssumption DEF IInv, TypeOK
  <1>3. TypeOK'
    BY <1>1, <1>2 DEF IInv, TypeOK, service, pool
  <1>4. ChangesAreCovered'
    BY <1>1 DEF IInv, ChangesAreCovered, Watching, Closed, service, pool
  <1> QED
    BY <1>1, <1>3, <1>4
       DEF IInv, NewIsClean, ClosingIsQuiet, CloseMeansStopped, Closed, service

(* What the pool takes from the queue it has not read yet.                 *)
LEMMA PoolKeeps ==
  ASSUME IInv, PoolStep
  PROVE  IInv'
  <1>1. UNCHANGED <<changes, events, service>>
    BY DEF PoolStep, PoolReadsHashes, PoolRetires, PoolTakes
  <1>2. TypeOK' /\ ChangesAreCovered'
    <2> USE DEF IInv, TypeOK, service
    <2>1. ASSUME NEW r \in Regions, PoolTakes(r)
          PROVE  TypeOK' /\ ChangesAreCovered'
      <3>1. /\ head = NoHead /\ head' = [region |-> r, read |-> FALSE]
            /\ queued' = queued \ {r} /\ dirty' = dirty
        BY <2>1 DEF PoolTakes
      <3>2. \A q \in Regions : head # [region |-> q, read |-> FALSE]
        BY <3>1, ServiceAssumption DEF NoHead
      <3>3. ChangesAreCovered'
        BY <1>1, <3>1, <3>2 DEF ChangesAreCovered, Watching, Closed
      <3> QED
        BY <1>1, <3>1, <3>3
    <2>2. CASE PoolReadsHashes
      <3>1. /\ head \in [region : Regions, read : BOOLEAN]
            /\ head' = [head EXCEPT !.read = TRUE]
            /\ dirty' = dirty \ {head.region} /\ queued' = queued
        BY <2>2 DEF PoolReadsHashes
      <3>2. ChangesAreCovered'
        BY <1>1, <3>1 DEF ChangesAreCovered, Watching, Closed
      <3> QED
        BY <1>1, <3>1, <3>2
    <2>3. CASE PoolRetires
      <3>1. /\ head.read /\ head' = NoHead
            /\ dirty' = dirty /\ queued' = queued
        BY <2>3 DEF PoolRetires
      <3>2. \A q \in Regions : head # [region |-> q, read |-> FALSE]
        BY <3>1
      <3>3. ChangesAreCovered'
        BY <1>1, <3>1, <3>2 DEF ChangesAreCovered, Watching, Closed
      <3> QED
        BY <1>1, <3>1, <3>3
    <2> QED
      BY <2>1, <2>2, <2>3 DEF PoolStep
  <1>3. dirty' \subseteq dirty
    BY DEF PoolStep, PoolReadsHashes, PoolRetires, PoolTakes
  <1> QED
    BY <1>1, <1>2, <1>3
       DEF IInv, NewIsClean, ClosingIsQuiet, CloseMeansStopped, Closed, service

LEMMA StepIInv == IInv /\ [Next]_vars => IInv'
  <1> SUFFICES ASSUME IInv, [Next]_vars PROVE IInv'
    OBVIOUS
  <1>1. CASE UNCHANGED vars
    BY <1>1 DEF vars, service, pool, IInv, TypeOK, NewIsClean, ClosingIsQuiet,
                      Closed, CloseMeansStopped, ChangesAreCovered, Watching
  <1>2. CASE Start \/ StopLoop \/ Close \/ CloseReturns \/ WatchFails
    BY <1>2, ServiceKeeps
  <1>3. CASE Take
    BY <1>3, TakeKeeps
  <1>4. CASE Tick
    BY <1>4, TickKeeps
  <1>5. CASE PoolStep
    BY <1>5, PoolKeeps
  <1>6. ASSUME NEW r \in Regions, Fire(r) \/ RegionChanges(r) PROVE IInv'
    BY <1>6, FireKeeps, ChangeKeeps
  <1> QED
    BY <1>1, <1>2, <1>3, <1>4, <1>5, <1>6 DEF Next

(* Every step of the service keeps the invariant.                          *)
THEOREM Inductive == Spec => []IInv
  BY InitIInv, StepIInv, PTL DEF Spec
------------------------------------------------------------------------------
(* The loop, the timers and the pool keep the types TypeOK gives them.     *)
THEOREM TypeCorrect == Spec => []TypeOK
  <1>1. IInv => TypeOK
    BY DEF IInv
  <1> QED
    BY <1>1, Inductive, PTL

(* A change of a watched region is with the watch service, on a timer,     *)
(* queued, or about to be read by the update under way.                    *)
THEOREM NoChangeIsForgotten == Spec => []ChangesAreCovered
  <1>1. IInv => ChangesAreCovered
    BY DEF IInv
  <1> QED
    BY <1>1, Inductive, PTL

(* "'stopped' is a fact by the time close() resolves".                     *)
THEOREM StoppedIsAFact == Spec => []CloseMeansStopped
  <1>1. IInv => CloseMeansStopped
    BY DEF IInv
  <1> QED
    BY <1>1, Inductive, PTL
------------------------------------------------------------------------------
(***************************************************************************)
(* The autosave.                                                           *)
(***************************************************************************)
(* The button makes a project of its own and stays with it.                *)
SaveIsNew == manual.at # "no" => manual.project # 0

(* The chain is in the order of the edits, none of them older than the     *)
(* file; what is written twice is the head's, and already in the file.     *)
InOrder ==
  /\ disk <= latest
  /\ \A i \in DOMAIN chain :
       /\ disk <= chain[i].project /\ chain[i].project <= latest
       /\ chain[i].at = "trailer" => i = 1 /\ disk = chain[i].project
       /\ \A j \in DOMAIN chain :
            i <= j => chain[i].project <= chain[j].project

(* The editor shows the last project, and nothing older waits for a timer. *)
ShowsLatest ==
  /\ open = latest /\ saved <= latest
  /\ pending \in {None, latest}
  /\ baseline # None => baseline <= disk

LatestIsCovered ==
  \/ disk = latest \/ latest \in unwritten
  \/ pending = latest
  \/ \E i \in DOMAIN chain : chain[i].project = latest

(* What a leaver awaits is not older than what it left.                    *)
LeaversWait ==
  /\ \A l \in Leavers : /\ leaver[l].asked <= latest
                        /\ leaver[l].wrote => leaver[l].asked <= disk
  /\ \A i \in DOMAIN chain : chain[i].by \in Leavers =>
       /\ leaver[chain[i].by].at # "editing"
       /\ leaver[chain[i].by].asked <= chain[i].project

QuitWaits ==
  quitWith # None =>
    \/ quitWith <= disk \/ quitWith \in unwritten
    \/ \E i \in DOMAIN chain :
         chain[i].by = "quit" /\ chain[i].project = quitWith

Good == InOrder /\ ShowsLatest /\ LatestIsCovered /\ LeaversWait /\ QuitWaits

AutosaveInv == AutosaveTypeOK /\ SaveIsNew /\ (OnlyEdits => Good)
------------------------------------------------------------------------------
LEMMA ProjectNumbers ==
  /\ Projects = 0 .. MaxEdit /\ MaxEdit \in Nat /\ 0 \in Projects
  /\ None \in Nat /\ None \notin Projects
  /\ \A p \in Projects : p \in Nat /\ p <= MaxEdit
  /\ Unset \in Nat /\ Unset > Quiet /\ Unset > MaxWait
  /\ Quiet \in Nat /\ MaxWait \in Nat
  BY AutosaveAssumption DEF Projects, None, Unset

LEMMA StateFacts ==
  ASSUME AutosaveTypeOK
  PROVE  /\ latest \in Projects /\ open \in Projects /\ saved \in Projects
         /\ disk \in Projects /\ unwritten \subseteq Projects
         /\ pending \in Projects \cup {None}
         /\ baseline \in Projects \cup {None}
         /\ latest \in Nat /\ disk \in Nat /\ saved \in Nat
         /\ chain \in Seq(Calls) /\ Len(chain) \in Nat
         /\ DOMAIN chain = 1 .. Len(chain)
         /\ \A i \in 1 .. Len(chain) :
              /\ chain[i] \in Calls /\ chain[i].project \in Projects
              /\ chain[i].project \in Nat
  <1>1. chain \in Seq(Calls)
    BY DEF AutosaveTypeOK
  <1>2. \A i \in 1 .. Len(chain) : chain[i] \in Calls
    <2> HIDE DEF Calls
    <2> QED
      BY <1>1
  <1> QED
    BY <1>1, <1>2, ProjectNumbers DEF AutosaveTypeOK, Calls

LEMMA TailCalls ==
  ASSUME NEW s \in Seq(Calls), s # <<>>
  PROVE  /\ Tail(s) \in Seq(Calls) /\ DOMAIN Tail(s) = 1 .. Len(s) - 1
         /\ Head(s) = s[1] /\ 1 \in 1 .. Len(s) /\ Head(s) \in Calls
         /\ \A i \in 1 .. Len(s) - 1 :
              Tail(s)[i] = s[i + 1] /\ i + 1 \in 1 .. Len(s)
  <1> HIDE DEF Calls
  <1> QED
    OBVIOUS

LEMMA ReplaceCall ==
  ASSUME NEW s \in Seq(Calls), NEW i \in 1 .. Len(s), NEW e \in Calls
  PROVE  /\ [s EXCEPT ![i] = e] \in Seq(Calls)
         /\ DOMAIN [s EXCEPT ![i] = e] = 1 .. Len(s)
         /\ [s EXCEPT ![i] = e][i] = e
         /\ \A j \in 1 .. Len(s) : j # i => [s EXCEPT ![i] = e][j] = s[j]
  <1> HIDE DEF Calls
  <1> QED
    OBVIOUS

(* A call joins the chain at its end and takes what was pending.           *)
LEMMA EnqueueFacts ==
  ASSUME AutosaveTypeOK, pending # None,
         NEW by \in Leavers \cup {"timer", "quit"}, Enqueue(by)
  PROVE  /\ pending' = None /\ debounce' = Unset /\ ceiling' = Unset
         /\ chain' \in Seq(Calls) /\ DOMAIN chain' = 1 .. Len(chain) + 1
         /\ \A i \in 1 .. Len(chain) : chain'[i] = chain[i]
         /\ chain'[Len(chain) + 1].project = pending
         /\ chain'[Len(chain) + 1].by = by
         /\ chain'[Len(chain) + 1].at = "write"
  <1> DEFINE e == [project |-> pending, by |-> by, at |-> "write"]
  <1>1. e \in Calls /\ e.project = pending /\ e.by = by /\ e.at = "write"
    BY StateFacts DEF Calls
  <1>2. chain' = Append(chain, e)
    BY DEF Enqueue
  <1> HIDE DEF e, Calls
  <1>3. /\ chain' \in Seq(Calls) /\ DOMAIN chain' = 1 .. Len(chain) + 1
        /\ \A i \in 1 .. Len(chain) : chain'[i] = chain[i]
        /\ chain'[Len(chain) + 1] = e
    BY <1>1, <1>2, StateFacts
  <1> QED
    BY <1>1, <1>3 DEF Enqueue, NoPending

(* A notify leaves the project pending unless it is on disk.               *)
LEMMA NotifyFacts ==
  ASSUME AutosaveTypeOK, NEW p \in Projects, Notify(p)
  PROVE  /\ IF p = baseline THEN pending' = None ELSE pending' = p
         /\ pending' = None => debounce' = Unset /\ ceiling' = Unset
         /\ pending' # None =>
              debounce' \in 0 .. Quiet /\ ceiling' \in 0 .. MaxWait
  <1>1. CASE p = baseline
    BY <1>1 DEF Notify, NoPending
  <1>2. CASE p # baseline
    <2>1. /\ pending' = p /\ debounce' = Quiet
          /\ ceiling' = IF ceiling = Unset THEN MaxWait ELSE ceiling
      BY <1>2 DEF Notify
    <2>2. p # None
      BY ProjectNumbers
    <2>3. ceiling = Unset \/ ceiling \in 0 .. MaxWait
      BY DEF AutosaveTypeOK
    <2> QED
      BY <1>2, <2>1, <2>2, <2>3, ProjectNumbers
  <1> QED
    BY <1>1, <1>2
------------------------------------------------------------------------------
LeaverStates ==
  [at : {"editing", "notified", "waiting", "told", "failed"},
   asked : Projects, wrote : BOOLEAN]

(* The timers run while something is pending.                              *)
Timers ==
  /\ pending \in Projects \cup {None}
  /\ pending = None => debounce = Unset /\ ceiling = Unset
  /\ pending # None => debounce \in 0 .. Quiet /\ ceiling \in 0 .. MaxWait

Others ==
  /\ latest \in Projects /\ open \in Projects /\ saved \in Projects
  /\ baseline \in Projects \cup {None}
  /\ manual \in [project : Projects, at : {"no", "write", "trailer"}]
  /\ disk \in Projects /\ unwritten \subseteq Projects
  /\ undone \in 0 .. MaxUndo
  /\ app \in {"running", "flushing", "exited"}
  /\ quitWith \in Projects \cup {None}

LEMMA TypeParts ==
  AutosaveTypeOK <=>
    /\ Timers /\ Others /\ chain \in Seq(Calls)
    /\ leaver \in [Leavers -> LeaverStates]
  BY DEF AutosaveTypeOK, Timers, Others, LeaverStates

LEMMA AnswerTypes ==
  ASSUME AutosaveTypeOK, NEW by \in Leavers \cup {"timer", "quit"},
         NEW ok \in BOOLEAN, Answer(by, ok)
  PROVE  /\ leaver' \in [Leavers -> LeaverStates]
         /\ app' \in {app, "exited"} /\ quitWith' = quitWith
         /\ \A l \in Leavers :
              /\ leaver'[l].asked = leaver[l].asked
              /\ leaver[l].at # "editing" => leaver'[l].at # "editing"
              /\ leaver'[l].wrote => leaver[l].wrote \/ (l = by /\ ok)
  <1>1. \A l \in Leavers : leaver[l] \in LeaverStates
    BY TypeParts
  <1>2. CASE by \in Leavers
    <2> DEFINE r == [leaver[by] EXCEPT !.at = IF ok THEN "told" ELSE "failed",
                                       !.wrote = ok]
    <2>1. leaver' = [leaver EXCEPT ![by] = r] /\ UNCHANGED <<app, quitWith>>
      <3>1. /\ leaver' = [leaver EXCEPT ![by].at =
                             IF ok THEN "told" ELSE "failed",
                             ![by].wrote = ok]
            /\ UNCHANGED <<app, quitWith>>
        BY <1>2, AutosaveAssumption DEF Answer, Written, quit
      <3>2. /\ DOMAIN leaver' = Leavers /\ leaver'[by] = r
            /\ \A l \in Leavers : l # by => leaver'[l] = leaver[l]
        BY <1>2, <3>1, TypeParts
      <3> QED
        BY <3>1
    <2>2. /\ r \in LeaverStates /\ r.asked = leaver[by].asked
          /\ r.at # "editing" /\ r.wrote = ok
      BY <1>1, <1>2 DEF LeaverStates
    <2> HIDE DEF r
    <2> QED
      BY <1>2, <2>1, <2>2, TypeParts
  <1>3. CASE by \notin Leavers
    BY <1>3, TypeParts DEF Answer, quit
  <1> QED
    BY <1>2, <1>3

LEMMA StepTypes == AutosaveTypeOK /\ [AutosaveNext]_autosaveVars
                     => AutosaveTypeOK'
  <1> SUFFICES ASSUME AutosaveTypeOK, [AutosaveNext]_autosaveVars
               PROVE  Timers' /\ Others' /\ chain' \in Seq(Calls)
                      /\ leaver' \in [Leavers -> LeaverStates]
    BY DEF AutosaveTypeOK, Timers, Others, LeaverStates
  <1> USE TypeParts
  <1>1. CASE UNCHANGED autosaveVars
    BY <1>1 DEF autosaveVars, editor, engine, file, quit, Timers, Others
  <1>2. ASSUME NEW p \in Projects, Show(p),
               latest' \in Projects, undone' \in 0 .. MaxUndo
        PROVE  Timers' /\ Others' /\ chain' \in Seq(Calls)
               /\ leaver' \in [Leavers -> LeaverStates]
    <2>1. Timers'
      BY <1>2, NotifyFacts DEF Show, engine, Timers
    <2> QED
      BY <1>2, <2>1 DEF Show, file, quit, Others
  <1>3. CASE Edit
    <2>1. latest' \in Projects
      BY <1>3, StateFacts, ProjectNumbers DEF Edit
    <2> QED
      BY <1>2, <1>3, <2>1 DEF Edit, Others
  <1>4. CASE Undo
    <2>1. PICK p \in 0 .. latest : Show(p)
      BY <1>4 DEF Undo
    <2>2. p \in Projects /\ latest' \in Projects
      BY <1>4, StateFacts, ProjectNumbers DEF Undo
    <2>3. undone' \in 0 .. MaxUndo
      BY <1>4, AutosaveAssumption DEF Undo, Others
    <2> QED
      BY <1>2, <2>1, <2>2, <2>3
  <1>5. CASE PressSave
    <2>1. latest' \in Projects
      BY <1>5, StateFacts, ProjectNumbers DEF PressSave
    <2> QED
      BY <1>5, <2>1 DEF PressSave, engine, file, quit, Timers, Others
  <1>6. ASSUME NEW l \in Leavers, Leave(l)
        PROVE  Timers' /\ Others' /\ chain' \in Seq(Calls)
               /\ leaver' \in [Leavers -> LeaverStates]
    <2>1. Timers'
      BY <1>6, StateFacts, NotifyFacts DEF Leave, Timers
    <2>2. [at |-> "notified", asked |-> open, wrote |-> FALSE] \in LeaverStates
      BY StateFacts DEF LeaverStates
    <2>3. leaver' \in [Leavers -> LeaverStates]
      BY <1>6, <2>2 DEF Leave
    <2> QED
      BY <1>6, <2>1, <2>3 DEF Leave, file, quit, Others
  <1>7. ASSUME NEW l \in Leavers, Flush(l)
        PROVE  Timers' /\ Others' /\ chain' \in Seq(Calls)
               /\ leaver' \in [Leavers -> LeaverStates]
    <2>1. PICK at \in {"told", "waiting"} :
            leaver' = [leaver EXCEPT ![l].at = at]
      BY <1>7 DEF Flush
    <2>2. [leaver[l] EXCEPT !.at = at] \in LeaverStates
      BY DEF LeaverStates
    <2>3. leaver' \in [Leavers -> LeaverStates]
      BY <2>1, <2>2
    <2>4. Timers' /\ chain' \in Seq(Calls)
      BY <1>7, EnqueueFacts DEF Flush, engine, Timers
    <2> QED
      BY <1>7, <2>3, <2>4 DEF Flush, editor, file, quit, Others
  <1>8. CASE TimerFires
    <2>1. pending # None
      BY <1>8, ProjectNumbers DEF TimerFires, Timers
    <2>2. Timers' /\ chain' \in Seq(Calls)
      BY <1>8, <2>1, EnqueueFacts DEF TimerFires, Timers
    <2> QED
      BY <1>8, <2>2 DEF TimerFires, editor, file, quit, Others
  <1>9. CASE TimePasses
    <2>1. /\ pending # None /\ debounce # 0 /\ ceiling # 0
          /\ debounce' = Less(debounce) /\ ceiling' = Less(ceiling)
          /\ pending' = pending
      BY <1>9 DEF TimePasses
    <2>2. Timers'
      BY <2>1, ProjectNumbers DEF Less, Timers
    <2> QED
      BY <1>9, <2>2 DEF TimePasses, editor, file, quit, Others
  <1>10. CASE WriteFile
    <2>1. chain # <<>> /\ Head(chain) \in Calls /\ Head(chain) = chain[1]
      BY <1>10, TailCalls DEF WriteFile
    <2>2. [chain[1] EXCEPT !.at = "trailer"] \in Calls
      BY <2>1 DEF Calls
    <2>3. chain' = [chain EXCEPT ![1] = [chain[1] EXCEPT !.at = "trailer"]]
      BY <1>10 DEF WriteFile
    <2>4. chain' \in Seq(Calls)
      BY <1>10, <2>2, <2>3, StateFacts, TailCalls, ReplaceCall DEF WriteFile
    <2>5. disk' \in Projects
      BY <1>10, <2>1 DEF WriteFile, Calls
    <2> QED
      BY <1>10, <2>4, <2>5
         DEF WriteFile, editor, engine, quit, Timers, Others
  <1>11. CASE WriteFails
    <2>1. /\ Tail(chain) \in Seq(Calls)
          /\ Head(chain).project \in Projects
          /\ Head(chain).by \in Leavers \cup {"timer", "quit"}
      BY <1>11, TailCalls DEF WriteFails, Calls
    <2>2. /\ leaver' \in [Leavers -> LeaverStates]
          /\ app' \in {app, "exited"} /\ quitWith' = quitWith
      BY <1>11, <2>1, AnswerTypes DEF WriteFails
    <2> QED
      BY <1>11, <2>1, <2>2 DEF WriteFails, editor, engine, Timers, Others
  <1>12. CASE WriteTrailer
    <2>1. /\ Tail(chain) \in Seq(Calls)
          /\ Head(chain).project \in Projects
          /\ Head(chain).by \in Leavers \cup {"timer", "quit"}
      BY <1>12, TailCalls DEF WriteTrailer, Calls
    <2>2. /\ leaver' \in [Leavers -> LeaverStates]
          /\ app' \in {app, "exited"} /\ quitWith' = quitWith
      BY <1>12, <2>1, AnswerTypes DEF WriteTrailer
    <2> QED
      BY <1>12, <2>1, <2>2 DEF WriteTrailer, engine, Timers, Others
  <1>13. CASE SaveFile \/ SaveTrailer
    BY <1>13 DEF SaveFile, SaveTrailer, editor, engine, quit, Timers, Others
  <1>14. CASE BeforeQuit
    <2>1. Timers' /\ chain' \in Seq(Calls)
      BY <1>14, EnqueueFacts DEF BeforeQuit, engine, Timers
    <2> QED
      BY <1>14, <2>1 DEF BeforeQuit, editor, file, Timers, Others
  <1>15. CASE QuitAgain
    BY <1>15 DEF QuitAgain, editor, engine, file, Timers, Others
  <1> QED
    BY <1>1, <1>3, <1>4, <1>5, <1>6, <1>7, <1>8, <1>9, <1>10, <1>11, <1>12,
       <1>13, <1>14, <1>15 DEF AutosaveNext, Save
------------------------------------------------------------------------------
(* What leavers and a quit wait for carries over to a chain that has their *)
(* calls still, or to a file that has what they asked for.                 *)
LEMMA WaitersKept ==
  ASSUME AutosaveTypeOK, Good, latest' = latest, disk <= disk',
         disk' \in Projects, unwritten \subseteq unwritten',
         \A l \in Leavers :
           /\ leaver'[l].asked = leaver[l].asked
           /\ leaver[l].at # "editing" => leaver'[l].at # "editing"
           /\ leaver'[l].wrote => leaver[l].wrote
                                  \/ leaver[l].asked <= disk',
         \A i \in DOMAIN chain' :
           \/ chain'[i].by \notin Leavers
           \/ \E j \in DOMAIN chain : /\ chain'[i].by = chain[j].by
                                      /\ chain'[i].project = chain[j].project
           \/ /\ leaver'[chain'[i].by].at # "editing"
              /\ chain'[i].project = latest,
         \/ /\ quitWith' = quitWith
            /\ \A j \in DOMAIN chain :
                 \/ \E i \in DOMAIN chain' :
                      /\ chain'[i].by = chain[j].by
                      /\ chain'[i].project = chain[j].project
                 \/ chain[j].project <= disk'
                 \/ chain[j].project \in unwritten'
         \/ \E i \in DOMAIN chain' :
              chain'[i].by = "quit" /\ chain'[i].project = quitWith'
  PROVE  LeaversWait' /\ QuitWaits'
  <1>1. disk \in Nat /\ disk' \in Nat /\ disk <= disk'
    BY StateFacts, ProjectNumbers
  <1>2. \A l \in Leavers : leaver[l].asked \in Nat
    BY TypeParts, ProjectNumbers DEF LeaverStates
  <1>3. LeaversWait'
    <2>1. ASSUME NEW l \in Leavers
          PROVE  /\ leaver'[l].asked <= latest'
                 /\ leaver'[l].wrote => leaver'[l].asked <= disk'
      <3>1. /\ leaver[l].asked <= latest
            /\ leaver[l].wrote => leaver[l].asked <= disk
        BY DEF Good, LeaversWait
      <3> QED
        BY <3>1, <1>1, <1>2
    <2>2. ASSUME NEW i \in DOMAIN chain', chain'[i].by \in Leavers
          PROVE  /\ leaver'[chain'[i].by].at # "editing"
                 /\ leaver'[chain'[i].by].asked <= chain'[i].project
      <3>1. CASE \E j \in DOMAIN chain :
                   /\ chain'[i].by = chain[j].by
                   /\ chain'[i].project = chain[j].project
        BY <3>1, <2>2 DEF Good, LeaversWait
      <3>2. CASE /\ leaver'[chain'[i].by].at # "editing"
                 /\ chain'[i].project = latest
        BY <3>2, <2>1, <2>2
      <3> QED
        BY <3>1, <3>2, <2>2
    <2> QED
      BY <2>1, <2>2 DEF LeaversWait
  <1>4. QuitWaits'
    <2>1. CASE \E i \in DOMAIN chain' :
                 chain'[i].by = "quit" /\ chain'[i].project = quitWith'
      BY <2>1 DEF QuitWaits
    <2>2. CASE /\ quitWith' = quitWith
               /\ \A j \in DOMAIN chain :
                    \/ \E i \in DOMAIN chain' :
                         /\ chain'[i].by = chain[j].by
                         /\ chain'[i].project = chain[j].project
                    \/ chain[j].project <= disk'
                    \/ chain[j].project \in unwritten'
      <3>1. SUFFICES ASSUME quitWith # None
                     PROVE  \/ quitWith <= disk' \/ quitWith \in unwritten'
                            \/ \E i \in DOMAIN chain' :
                                 /\ chain'[i].by = "quit"
                                 /\ chain'[i].project = quitWith
        BY <2>2 DEF QuitWaits
      <3>2. quitWith \in Nat
        BY <3>1, TypeParts, ProjectNumbers DEF Others
      <3>3. \/ quitWith <= disk \/ quitWith \in unwritten
            \/ \E j \in DOMAIN chain :
                 chain[j].by = "quit" /\ chain[j].project = quitWith
        BY <3>1 DEF Good, QuitWaits
      <3>4. quitWith <= disk => quitWith <= disk'
        BY <3>2, <1>1
      <3> QED
        BY <2>2, <3>3, <3>4
    <2> QED
      BY <2>1, <2>2
  <1> QED
    BY <1>3, <1>4

(* A call that joins the chain takes the last project with it.             *)
LEMMA EnqueueKeeps ==
  ASSUME AutosaveTypeOK, Good, pending # None,
         NEW by \in Leavers \cup {"timer", "quit"}, Enqueue(by),
         UNCHANGED <<latest, open, saved, baseline, disk, unwritten>>,
         \A l \in Leavers :
           /\ leaver'[l].asked = leaver[l].asked
           /\ leaver'[l].wrote = leaver[l].wrote
           /\ leaver[l].at # "editing" => leaver'[l].at # "editing",
         by \in Leavers => leaver'[by].at # "editing",
         quitWith' = quitWith \/ (by = "quit" /\ quitWith' = pending)
  PROVE  Good'
  <1> DEFINE n == Len(chain)
  <1>1. /\ pending' = None
        /\ DOMAIN chain' = 1 .. n + 1 /\ DOMAIN chain = 1 .. n /\ n \in Nat
        /\ \A i \in 1 .. n : chain'[i] = chain[i]
        /\ chain'[n + 1].project = pending /\ chain'[n + 1].by = by
        /\ chain'[n + 1].at = "write"
    BY EnqueueFacts, StateFacts
  <1>2. pending = latest
    BY DEF Good, ShowsLatest
  <1>3. \A i \in 1 .. n + 1 : i \in 1 .. n \/ i = n + 1
    BY <1>1
  <1>4. \A i \in 1 .. n : chain'[i] = chain[i] /\ i \in 1 .. n + 1
                          /\ n + 1 \in 1 .. n + 1
    BY <1>1
  <1>5. InOrder'
    <2>1. \A i \in 1 .. n :
            /\ disk <= chain[i].project /\ chain[i].project <= latest
            /\ chain[i].at = "trailer" => i = 1 /\ disk = chain[i].project
            /\ \A j \in 1 .. n : i <= j => chain[i].project <= chain[j].project
      BY <1>1 DEF Good, InOrder
    <2>2. disk <= latest /\ latest \in Nat
      BY StateFacts DEF Good, InOrder
    <2> QED
      BY <2>1, <2>2, <1>1, <1>2 DEF InOrder
  <1>6. ShowsLatest'
    BY <1>1 DEF Good, ShowsLatest
  <1>7. LatestIsCovered'
    <2>1. n + 1 \in DOMAIN chain' /\ chain'[n + 1].project = latest
      BY <1>1, <1>2
    <2> QED
      BY <2>1 DEF LatestIsCovered
  <1>8. LeaversWait' /\ QuitWaits'
    <2>1. disk <= disk' /\ disk' \in Projects
      BY StateFacts
    <2>2. \A i \in DOMAIN chain' :
            \/ chain'[i].by \notin Leavers
            \/ \E j \in DOMAIN chain : /\ chain'[i].by = chain[j].by
                                       /\ chain'[i].project = chain[j].project
            \/ /\ leaver'[chain'[i].by].at # "editing"
               /\ chain'[i].project = latest
      BY <1>1, <1>2, <1>3
    <2>3. \A j \in DOMAIN chain : \E i \in DOMAIN chain' :
            /\ chain'[i].by = chain[j].by
            /\ chain'[i].project = chain[j].project
      BY <1>1, <1>4
    <2>4. by = "quit" /\ quitWith' = pending =>
            \E i \in DOMAIN chain' :
              chain'[i].by = "quit" /\ chain'[i].project = quitWith'
      BY <1>1
    <2> QED
      BY <2>1, <2>2, <2>3, <2>4, WaitersKept
  <1> QED
    BY <1>5, <1>6, <1>7, <1>8 DEF Good

(* The head has been written, or has failed, and leaves.                   *)
LEMMA HeadLeaves ==
  ASSUME AutosaveTypeOK, Good, chain # <<>>, chain' = Tail(chain),
         UNCHANGED <<latest, open, pending, disk>>,
         saved' \in {saved, chain[1].project},
         baseline' \in {baseline, disk},
         unwritten \subseteq unwritten',
         chain[1].project = disk \/ chain[1].project \in unwritten',
         quitWith' = quitWith,
         \A l \in Leavers :
           /\ leaver'[l].asked = leaver[l].asked
           /\ leaver[l].at # "editing" => leaver'[l].at # "editing"
           /\ leaver'[l].wrote => \/ leaver[l].wrote
                                  \/ l = chain[1].by
                                     /\ chain[1].project = disk
  PROVE  Good'
  <1> DEFINE n == Len(chain)
  <1>1. /\ DOMAIN chain = 1 .. n /\ DOMAIN chain' = 1 .. n - 1 /\ n \in Nat
        /\ 1 \in 1 .. n
        /\ \A i \in 1 .. n - 1 : chain'[i] = chain[i + 1]
                                 /\ i + 1 \in 1 .. n
    BY StateFacts, TailCalls
  <1>2. \A j \in 1 .. n : j = 1 \/ \E i \in 1 .. n - 1 : chain'[i] = chain[j]
    <2> TAKE j \in 1 .. n
    <2>1. j = 1 \/ (j - 1 \in 1 .. n - 1 /\ (j - 1) + 1 = j)
      BY <1>1
    <2> QED
      BY <2>1, <1>1
  <1>3. /\ disk <= latest /\ disk \in Nat
        /\ \A i \in 1 .. n :
             /\ disk <= chain[i].project /\ chain[i].project <= latest
             /\ chain[i].at = "trailer" => i = 1 /\ disk = chain[i].project
             /\ \A j \in 1 .. n :
                  i <= j => chain[i].project <= chain[j].project
    BY <1>1, StateFacts DEF Good, InOrder
  <1>4. InOrder'
    <2>1. ASSUME NEW i \in 1 .. n - 1
          PROVE  /\ disk <= chain'[i].project /\ chain'[i].project <= latest
                 /\ chain'[i].at # "trailer"
                 /\ \A j \in 1 .. n - 1 :
                      i <= j => chain'[i].project <= chain'[j].project
      <3>1. i + 1 \in 1 .. n /\ i + 1 # 1 /\ chain'[i] = chain[i + 1]
        BY <1>1
      <3>2. \A j \in 1 .. n - 1 : j + 1 \in 1 .. n /\ chain'[j] = chain[j + 1]
                                  /\ (i <= j => i + 1 <= j + 1)
        BY <1>1
      <3> QED
        BY <3>1, <3>2, <1>3
    <2> QED
      BY <2>1, <1>1, <1>3 DEF InOrder
  <1>5. ShowsLatest'
    BY <1>1, <1>3 DEF Good, ShowsLatest
  <1>6. LatestIsCovered'
    <2>1. \/ disk = latest \/ latest \in unwritten \/ pending = latest
          \/ \E j \in 1 .. n : chain[j].project = latest
      BY <1>1 DEF Good, LatestIsCovered
    <2> QED
      BY <2>1, <1>1, <1>2 DEF LatestIsCovered
  <1>7. LeaversWait' /\ QuitWaits'
    <2>1. disk <= disk' /\ disk' \in Projects
      BY StateFacts
    <2>2. \A l \in Leavers :
            leaver'[l].wrote => leaver[l].wrote \/ leaver[l].asked <= disk'
      BY <1>1 DEF Good, LeaversWait
    <2>3. \A i \in DOMAIN chain' : \E j \in DOMAIN chain :
            /\ chain'[i].by = chain[j].by
            /\ chain'[i].project = chain[j].project
      BY <1>1
    <2>4. \A j \in DOMAIN chain :
            \/ \E i \in DOMAIN chain' :
                 /\ chain'[i].by = chain[j].by
                 /\ chain'[i].project = chain[j].project
            \/ chain[j].project <= disk'
            \/ chain[j].project \in unwritten'
      BY <1>1, <1>2, <1>3
    <2> QED
      BY <2>1, <2>2, <2>3, <2>4, WaitersKept
  <1> QED
    BY <1>4, <1>5, <1>6, <1>7 DEF Good

LEMMA WriteFileKeeps ==
  ASSUME AutosaveTypeOK, Good, WriteFile
  PROVE  Good' /\ disk <= disk'
  <1> DEFINE n == Len(chain)
             e == [chain[1] EXCEPT !.at = "trailer"]
  <1>1. /\ chain # <<>> /\ disk' = Head(chain).project
        /\ chain' = [chain EXCEPT ![1] = e]
        /\ UNCHANGED <<latest, open, saved, leaver, pending, baseline,
                       unwritten, quitWith>>
    BY DEF WriteFile, editor, engine, quit
  <1>2. /\ Head(chain) = chain[1] /\ chain[1] \in Calls /\ 1 \in 1 .. n
        /\ DOMAIN chain = 1 .. n /\ n \in Nat
    BY <1>1, StateFacts, TailCalls
  <1>3. /\ e \in Calls /\ e.project = chain[1].project /\ e.by = chain[1].by
        /\ e.at = "trailer"
    BY <1>2 DEF Calls
  <1> HIDE DEF e
  <1>4. /\ DOMAIN chain' = 1 .. n /\ chain'[1] = e
        /\ \A j \in 1 .. n : j # 1 => chain'[j] = chain[j]
    BY <1>1, <1>2, <1>3, StateFacts, ReplaceCall
  <1>5. \A i \in 1 .. n : /\ chain'[i].project = chain[i].project
                          /\ chain'[i].by = chain[i].by
                          /\ chain'[i].at = "trailer" =>
                               i = 1 \/ chain[i].at = "trailer"
    BY <1>3, <1>4
  <1>6. /\ disk <= latest /\ disk \in Nat /\ latest \in Nat
        /\ \A i \in 1 .. n :
             /\ disk <= chain[i].project /\ chain[i].project <= latest
             /\ chain[i].at = "trailer" => i = 1 /\ disk = chain[i].project
             /\ \A j \in 1 .. n :
                  i <= j => chain[i].project <= chain[j].project
             /\ 1 <= i
    BY <1>2, StateFacts DEF Good, InOrder
  <1>7. /\ disk' = chain[1].project /\ disk' \in Nat /\ disk <= disk'
        /\ disk' \in Projects
    BY <1>1, <1>2, <1>6, StateFacts
  <1>8. InOrder'
    BY <1>1, <1>2, <1>4, <1>5, <1>6, <1>7 DEF InOrder
  <1>9. ShowsLatest'
    <2>1. baseline # None => baseline <= disk /\ baseline \in Nat
      BY TypeParts, ProjectNumbers DEF Good, ShowsLatest, Others
    <2> QED
      BY <2>1, <1>1, <1>6, <1>7 DEF Good, ShowsLatest
  <1>10. LatestIsCovered'
    <2>1. \/ disk = latest \/ latest \in unwritten \/ pending = latest
          \/ \E j \in 1 .. n : chain[j].project = latest
      BY <1>2 DEF Good, LatestIsCovered
    <2>2. disk = latest => disk' = latest
      BY <1>2, <1>6, <1>7
    <2> QED
      BY <2>1, <2>2, <1>1, <1>4, <1>5 DEF LatestIsCovered
  <1>11. LeaversWait' /\ QuitWaits'
    <2>1. \A i \in DOMAIN chain' : \E j \in DOMAIN chain :
            /\ chain'[i].by = chain[j].by
            /\ chain'[i].project = chain[j].project
      BY <1>2, <1>4, <1>5
    <2>2. \A j \in DOMAIN chain : \E i \in DOMAIN chain' :
            /\ chain'[i].by = chain[j].by
            /\ chain'[i].project = chain[j].project
      BY <1>2, <1>4, <1>5
    <2> QED
      BY <2>1, <2>2, <1>1, <1>7, WaitersKept
  <1> QED
    BY <1>7, <1>8, <1>9, <1>10, <1>11 DEF Good
------------------------------------------------------------------------------
LEMMA EditKeeps ==
  ASSUME AutosaveTypeOK, Good, Edit
  PROVE  Good'
  <1>1. /\ latest' = latest + 1 /\ latest' \in Projects /\ open' = latest'
        /\ IF latest' # saved THEN Notify(latest') ELSE UNCHANGED engine
        /\ UNCHANGED <<saved, leaver, baseline, chain, disk, unwritten,
                       quitWith>>
    BY StateFacts, ProjectNumbers DEF Edit, Show, file, quit
  <1>2. /\ saved <= latest /\ disk <= latest
        /\ baseline # None => baseline <= disk
        /\ latest \in Nat /\ disk \in Nat /\ saved \in Nat
        /\ baseline # None => baseline \in Nat
    BY TypeParts, StateFacts, ProjectNumbers
       DEF Good, ShowsLatest, InOrder, Others
  <1>3. latest' # saved /\ latest' # baseline
    BY <1>1, <1>2, ProjectNumbers
  <1>4. pending' = latest'
    BY <1>1, <1>3, NotifyFacts
  <1>5. \A i \in DOMAIN chain :
          chain[i].project <= latest /\ chain[i].project <= latest'
    BY <1>1, <1>2, StateFacts DEF Good, InOrder
  <1>6. InOrder'
    BY <1>1, <1>2, <1>5 DEF Good, InOrder
  <1>7. ShowsLatest' /\ LatestIsCovered'
    BY <1>1, <1>2, <1>4 DEF ShowsLatest, LatestIsCovered
  <1>8. LeaversWait'
    <2>1. \A l \in Leavers : leaver[l].asked \in Nat
      BY TypeParts, ProjectNumbers DEF LeaverStates
    <2> QED
      BY <2>1, <1>1, <1>2 DEF Good, LeaversWait
  <1>9. QuitWaits'
    BY <1>1 DEF Good, QuitWaits
  <1> QED
    BY <1>6, <1>7, <1>8, <1>9 DEF Good

LEMMA LeaveKeeps ==
  ASSUME AutosaveTypeOK, Good, NEW l \in Leavers, Leave(l)
  PROVE  Good'
  <1> DEFINE r == [at |-> "notified", asked |-> open, wrote |-> FALSE]
  <1>1. /\ leaver[l].at = "editing" /\ Notify(open) /\ saved' = open
        /\ leaver' = [leaver EXCEPT ![l] = r]
        /\ UNCHANGED <<latest, open, baseline, chain, disk, unwritten,
                       quitWith>>
    BY DEF Leave, file, quit
  <1>2. open = latest /\ disk <= latest /\ latest \in Nat /\ disk \in Nat
        /\ (baseline # None => baseline <= disk)
    BY StateFacts DEF Good, ShowsLatest, InOrder
  <1>3. /\ leaver'[l] = r /\ r.asked = latest /\ r.wrote = FALSE
        /\ r.at # "editing"
        /\ \A k \in Leavers : k # l => leaver'[k] = leaver[k]
    BY <1>1, <1>2, TypeParts
  <1> HIDE DEF r
  <1>4. pending' \in {None, latest} /\ (pending' = None => latest = baseline)
    BY <1>1, <1>2, StateFacts, NotifyFacts, ProjectNumbers
  <1>5. InOrder'
    BY <1>1 DEF Good, InOrder
  <1>6. ShowsLatest'
    BY <1>1, <1>2, <1>4 DEF Good, ShowsLatest
  <1>7. LatestIsCovered'
    <2>1. pending' = None => disk = latest
      BY <1>2, <1>4, StateFacts, ProjectNumbers
    <2> QED
      BY <2>1, <1>1, <1>4 DEF LatestIsCovered
  <1>8. LeaversWait'
    <2>1. \A i \in DOMAIN chain : chain[i].by # l
      BY <1>1 DEF Good, LeaversWait
    <2> QED
      BY <2>1, <1>1, <1>2, <1>3 DEF Good, LeaversWait
  <1>9. QuitWaits'
    BY <1>1 DEF Good, QuitWaits
  <1> QED
    BY <1>5, <1>6, <1>7, <1>8, <1>9 DEF Good

LEMMA FlushKeeps ==
  ASSUME AutosaveTypeOK, Good, NEW l \in Leavers, Flush(l)
  PROVE  Good'
  <1>1. PICK at \in {"told", "waiting"} :
          /\ leaver' = [leaver EXCEPT ![l].at = at]
          /\ \/ UNCHANGED <<engine, chain>>
             \/ pending # None /\ Enqueue(l)
    BY DEF Flush
  <1>2. UNCHANGED <<editor, baseline, file, quit>>
    BY DEF Flush
  <1>3. \A k \in Leavers :
          /\ leaver'[k].asked = leaver[k].asked
          /\ leaver'[k].wrote = leaver[k].wrote
          /\ leaver[k].at # "editing" => leaver'[k].at # "editing"
    <2>1. leaver \in [Leavers -> LeaverStates]
      BY TypeParts
    <2> QED
      BY <2>1, <1>1 DEF LeaverStates
  <1>4. leaver'[l].at # "editing"
    BY <1>1, TypeParts DEF LeaverStates
  <1>5. CASE UNCHANGED <<engine, chain>>
    <2>1. LeaversWait'
      BY <1>2, <1>3, <1>5 DEF Good, LeaversWait, editor, file
    <2> QED
      BY <2>1, <1>2, <1>5
         DEF Good, InOrder, ShowsLatest, LatestIsCovered, QuitWaits, editor,
             engine, file, quit
  <1>6. CASE pending # None /\ Enqueue(l)
    BY <1>2, <1>3, <1>4, <1>6, EnqueueKeeps DEF editor, file, quit
  <1> QED
    BY <1>1, <1>5, <1>6

(* The save of the head: the file never goes back.                         *)
LEMMA HeadAnswered ==
  ASSUME AutosaveTypeOK, Good, WriteFails \/ WriteTrailer
  PROVE  Good' /\ disk' = disk
  <1>1. /\ chain # <<>> /\ chain' = Tail(chain)
        /\ UNCHANGED <<latest, open, pending, manual>>
    BY DEF WriteFails, WriteTrailer, editor, engine
  <1>2. /\ Head(chain) = chain[1] /\ chain[1] \in Calls
        /\ 1 \in DOMAIN chain
        /\ chain[1].by \in Leavers \cup {"timer", "quit"}
    BY <1>1, StateFacts, TailCalls DEF Calls
  <1>3. CASE WriteFails
    <2>1. /\ Answer(chain[1].by, FALSE)
          /\ unwritten' = unwritten \cup {chain[1].project}
          /\ UNCHANGED <<saved, baseline, disk>>
      BY <1>2, <1>3 DEF WriteFails, editor
    <2>2. /\ quitWith' = quitWith
          /\ \A l \in Leavers :
               /\ leaver'[l].asked = leaver[l].asked
               /\ leaver[l].at # "editing" => leaver'[l].at # "editing"
               /\ leaver'[l].wrote => leaver[l].wrote
      BY <1>2, <2>1, AnswerTypes
    <2> QED
      BY <1>1, <2>1, <2>2, HeadLeaves
  <1>4. CASE WriteTrailer
    <2>1. /\ Answer(chain[1].by, TRUE) /\ chain[1].at = "trailer"
          /\ disk' \in {disk, chain[1].project}
          /\ baseline' = chain[1].project /\ saved' = chain[1].project
          /\ unwritten' = unwritten
      BY <1>2, <1>4 DEF WriteTrailer
    <2>2. disk = chain[1].project /\ disk' = disk
      BY <1>2, <2>1 DEF Good, InOrder
    <2>3. /\ quitWith' = quitWith
          /\ \A l \in Leavers :
               /\ leaver'[l].asked = leaver[l].asked
               /\ leaver[l].at # "editing" => leaver'[l].at # "editing"
               /\ leaver'[l].wrote => leaver[l].wrote \/ l = chain[1].by
      BY <1>2, <2>1, AnswerTypes
    <2> QED
      BY <1>1, <2>1, <2>2, <2>3, HeadLeaves
  <1> QED
    BY <1>3, <1>4

LEMMA TimerKeeps ==
  ASSUME AutosaveTypeOK, Good, TimerFires
  PROVE  Good'
  <1>1. pending # None
    BY ProjectNumbers, TypeParts DEF TimerFires, Timers
  <1>2. /\ Enqueue("timer") /\ "timer" \notin Leavers
        /\ UNCHANGED <<latest, open, saved, leaver, baseline, disk, unwritten,
                       quitWith>>
    BY AutosaveAssumption DEF TimerFires, editor, file, quit
  <1> QED
    BY <1>1, <1>2, EnqueueKeeps

LEMMA QuitKeeps ==
  ASSUME AutosaveTypeOK, Good, BeforeQuit
  PROVE  Good'
  <1>1. /\ quitWith' = pending
        /\ \/ pending = None /\ UNCHANGED <<engine, chain>>
           \/ pending # None /\ Enqueue("quit")
        /\ UNCHANGED <<editor, leaver, baseline, file>>
    BY DEF BeforeQuit
  <1>2. CASE pending = None /\ UNCHANGED <<engine, chain>>
    BY <1>1, <1>2
       DEF Good, InOrder, ShowsLatest, LatestIsCovered, LeaversWait,
           QuitWaits, editor, engine, file
  <1>3. CASE pending # None /\ Enqueue("quit")
    BY <1>1, <1>3, EnqueueKeeps, AutosaveAssumption DEF editor, file
  <1> QED
    BY <1>1, <1>2, <1>3

(* A step of the scheduler, the editor or a quit, past edits and undo.     *)
LEMMA StillGood ==
  ASSUME AutosaveTypeOK, Good,
         UNCHANGED <<editor, leaver, pending, baseline, chain, file, quitWith>>
  PROVE  Good'
  BY DEF Good, InOrder, ShowsLatest, LatestIsCovered, LeaversWait, QuitWaits,
         editor, file

(* With only edits so far, no save of the button is under way.             *)
LEMMA StepOnlyEdits ==
  ASSUME AutosaveTypeOK, SaveIsNew, [AutosaveNext]_autosaveVars
  PROVE  /\ SaveIsNew'
         /\ OnlyEdits' => /\ OnlyEdits /\ ~Undo /\ ~PressSave
                          /\ ~SaveFile /\ ~SaveTrailer
         /\ OnlyEdits => ~SaveFile /\ ~SaveTrailer
  <1>1. /\ undone \in Nat /\ latest \in Nat
        /\ manual \in [project : Projects, at : {"no", "write", "trailer"}]
    BY TypeParts, StateFacts DEF Others
  <1>2. OnlyEdits => ~SaveFile /\ ~SaveTrailer
    BY DEF OnlyEdits, SaveIsNew, SaveFile, SaveTrailer
  <1>3. CASE PressSave
    BY <1>1, <1>2, <1>3 DEF PressSave, OnlyEdits, SaveIsNew
  <1>4. CASE Undo
    BY <1>1, <1>2, <1>4 DEF Undo, Show, OnlyEdits, SaveIsNew
  <1>5. CASE SaveFile \/ SaveTrailer
    BY <1>1, <1>2, <1>5
       DEF SaveFile, SaveTrailer, SaveIsNew, OnlyEdits, editor
  <1>6. ASSUME ~PressSave, ~Undo, ~SaveFile, ~SaveTrailer
        PROVE  undone' = undone /\ manual' = manual
    BY <1>6
       DEF AutosaveNext, autosaveVars, editor, Edit, Show, Leave, Flush,
           TimerFires, TimePasses, Save, WriteFile, WriteFails, WriteTrailer,
           BeforeQuit, QuitAgain
  <1>7. CASE ~PressSave /\ ~Undo /\ ~SaveFile /\ ~SaveTrailer
    BY <1>6, <1>7 DEF SaveIsNew, OnlyEdits
  <1> QED
    BY <1>2, <1>3, <1>4, <1>5, <1>7

LEMMA StepGood ==
  ASSUME AutosaveTypeOK, Good, [AutosaveNext]_autosaveVars,
         ~Undo, ~PressSave, ~SaveFile, ~SaveTrailer
  PROVE  Good'
  <1>1. CASE TimePasses \/ QuitAgain \/ UNCHANGED autosaveVars
    BY <1>1, StillGood
       DEF TimePasses, QuitAgain, autosaveVars, engine, quit
  <1>2. ASSUME NEW l \in Leavers, Leave(l) \/ Flush(l)
        PROVE  Good'
    BY <1>2, LeaveKeeps, FlushKeeps
  <1>3. CASE Edit \/ TimerFires \/ Save \/ BeforeQuit
    BY <1>3, EditKeeps, TimerKeeps, WriteFileKeeps, HeadAnswered, QuitKeeps
       DEF Save
  <1> QED
    BY <1>1, <1>2, <1>3 DEF AutosaveNext

LEMMA InitAutosave == AutosaveInit => AutosaveInv
  <1> SUFFICES ASSUME AutosaveInit PROVE AutosaveInv
    OBVIOUS
  <1>1. AutosaveTypeOK
    BY ProjectNumbers, AutosaveAssumption DEF AutosaveInit, AutosaveTypeOK
  <1>2. Good
    BY ProjectNumbers
       DEF AutosaveInit, Good, InOrder, ShowsLatest, LatestIsCovered,
           LeaversWait, QuitWaits
  <1> QED
    BY <1>1, <1>2 DEF AutosaveInv, SaveIsNew, AutosaveInit

LEMMA StepAutosave ==
  AutosaveInv /\ [AutosaveNext]_autosaveVars => AutosaveInv'
  BY StepTypes, StepOnlyEdits, StepGood DEF AutosaveInv

LEMMA AutosaveInductive == AutosaveSpec => []AutosaveInv
  BY InitAutosave, StepAutosave, PTL DEF AutosaveSpec

(* The scheduler, its chain and its callers keep their types: the timers   *)
(* run while a project is pending and only then.                           *)
THEOREM AutosaveTypeCorrect == AutosaveSpec => []AutosaveTypeOK
  <1>1. AutosaveInv => AutosaveTypeOK
    BY DEF AutosaveInv
  <1> QED
    BY <1>1, AutosaveInductive, PTL

(* When the scheduler has come to rest the file holds what the editor      *)
(* shows, or its write failed, whatever was edited while writes were under *)
(* way, for every length of the two timers.                                *)
THEOREM EditsSaved == AutosaveSpec => []EditsReachDisk
  <1>1. AutosaveInv => EditsReachDisk
    <2> SUFFICES ASSUME AutosaveInv, OnlyEdits, Idle
                 PROVE  disk = open \/ open \in unwritten
      BY DEF EditsReachDisk
    <2>1. latest # None
      BY StateFacts, ProjectNumbers DEF AutosaveInv
    <2>2. DOMAIN chain = {} /\ pending = None
      BY DEF Idle
    <2> QED
      BY <2>1, <2>2 DEF AutosaveInv, Good, ShowsLatest, LatestIsCovered
  <1> QED
    BY <1>1, AutosaveInductive, PTL

(* Whoever flushes, leaving the project or quitting, finds what it flushed *)
(* on disk when it is told so, behind any number of other writes.          *)
THEOREM FlushesCorrect == AutosaveSpec => []FlushedIsWritten
  <1>1. AutosaveInv => FlushedIsWritten
    <2> SUFFICES ASSUME AutosaveInv, OnlyEdits
                 PROVE  LeaversAreCovered /\ QuitIsCovered
      BY DEF FlushedIsWritten
    <2>1. LeaversAreCovered
      <3>1. \A l \in Leavers : leaver[l].wrote => leaver[l].asked <= disk
        BY DEF AutosaveInv, Good, LeaversWait
      <3>2. \A l \in Leavers : leaver[l].asked \in Nat /\ disk \in Nat
        BY StateFacts, TypeParts, ProjectNumbers DEF AutosaveInv, LeaverStates
      <3> QED
        BY <3>1, <3>2 DEF LeaversAreCovered
    <2>2. QuitIsCovered
      <3>1. quitWith # None =>
              quitWith <= disk \/ quitWith \in unwritten \/ CutShort
        BY DEF AutosaveInv, Good, QuitWaits, CutShort
      <3>2. quitWith # None => quitWith \in Nat /\ disk \in Nat
        BY StateFacts, TypeParts, ProjectNumbers DEF AutosaveInv, Others
      <3> QED
        BY <3>1, <3>2 DEF QuitIsCovered
    <2> QED
      BY <2>1, <2>2
  <1> QED
    BY <1>1, AutosaveInductive, PTL

(* The autosaves land in the order of the edits: no step puts an older     *)
(* project into the file.                                                  *)
THEOREM AutosavesOrdered == AutosaveSpec => AutosavesInOrder
  <1>1. AutosaveInv /\ [AutosaveNext]_autosaveVars =>
          [OnlyEdits => disk' >= disk]_autosaveVars
    <2> SUFFICES ASSUME AutosaveInv, AutosaveNext, OnlyEdits
                 PROVE  disk' >= disk
      OBVIOUS
    <2>1. Good /\ AutosaveTypeOK /\ disk \in Nat
      BY StateFacts DEF AutosaveInv
    <2>2. AutosaveTypeOK'
      BY <2>1, StepTypes
    <2>3. disk' \in Nat
      BY <2>2, ProjectNumbers DEF AutosaveTypeOK
    <2>4. CASE WriteFile
      BY <2>1, <2>3, <2>4, WriteFileKeeps
    <2>5. CASE WriteFails \/ WriteTrailer
      BY <2>1, <2>5, HeadAnswered
    <2>6. ~SaveFile /\ ~SaveTrailer
      BY StepOnlyEdits DEF AutosaveInv
    <2>7. CASE ~WriteFile /\ ~WriteFails /\ ~WriteTrailer
      <3>1. disk' = disk
        BY <2>6, <2>7
           DEF AutosaveNext, Save, file, Edit, Undo, Show, PressSave, Leave,
               Flush, TimerFires, TimePasses, BeforeQuit, QuitAgain
      <3> QED
        BY <3>1, <2>1
    <2> QED
      BY <2>4, <2>5, <2>7
  <1> QED
    BY <1>1, AutosaveInductive, PTL DEF AutosaveSpec, AutosavesInOrder
==============================================================================
