----------------------------- MODULE TileProofs -----------------------------
(***************************************************************************)
(* Theorems about the tiles of a map: the state and the content of one     *)
(* hires tile (TileState), the lowres layer drawn from them (LowresLayer), *)
(* an item of the file storage (FileItem), and the layer over its files    *)
(* (LowresFiles).                                                          *)
(*                                                                         *)
(* What is stored of a hires tile follows from what each task knows on its *)
(* way to storing it: that it is alone with the tile or has been met       *)
(* (Alone), how old the chunks are that it saw (Ages), what it decided     *)
(* (Plans) and what it has drawn (Results).                                *)
(*                                                                         *)
(* A lowres tile is followed from the instance that takes a write to the   *)
(* storage: what was written is in the instance, on disk once the tile is  *)
(* not pending, and in what a save of it has encoded (Safe).               *)
(*                                                                         *)
(* A writer of an item who met nobody has the part file to himself         *)
(* (WriterAlone).  Over its file, the layer has as many calls under way as *)
(* actors that wait for one (CallsServe), two of them write only where the *)
(* layer knows that they met (OverlapsMeet), and a call that is done has   *)
(* done what it is reported for (CallsDone).                               *)
(***************************************************************************)
EXTENDS TileState, LowresFiles, FiniteSetTheorems, TLAPS

(***************************************************************************)
(* The hires tile.                                                         *)
(***************************************************************************)
(* A task that nobody has met has the tile to itself.                      *)
Alone ==
  \A r \in Regions : task[r].at # "idle" /\ task[r].alone
    => \A q \in Regions \ {r} : task[q].at = "idle"

(* What is recorded of a region was scanned, what was scanned was there.   *)
Aged(r) ==
  /\ recorded[r] <= scanned[r] /\ scanned[r] <= world[r]
  /\ task[r].at # "idle" => task[r].hash = scanned[r]

Ages == \A r \in Regions : Aged(r)

Drops == {"out-of-bounds", "not-generated", "chunk-error"}

(* What a task knows of its tile on the way to storing it.                 *)
Planned(t, r) ==
  /\ t.at = "inited" /\ t.does = "none" /\ t.alone =>
       /\ t.result = state
       /\ t.result \in Drawn \cup Drops
       /\ t.result \in Drawn =>
            /\ t.hash = recorded[r] /\ t.result = Target(bounds)
            /\ t.force # "none" => t.result = "rendered"
       /\ t.result = "out-of-bounds" => bounds = "outside"
  /\ t.at = "inited" /\ t.does = "delete" => t.result = "out-of-bounds"
  /\ \/ t.at = "inited" /\ t.does = "render"
     \/ t.at \in {"mesh", "write"}
     => bounds # "outside" /\ t.result = Target(bounds)
  /\ t.at = "delete" => t.result \in Drops
  /\ t.at = "write" /\ t.alone =>
       /\ t.content[r] >= t.hash
       /\ \A q \in Regions : t.content[q] >= recorded[q]

Plans == \A r \in Regions : Planned(task[r], r)

(* The stored tile is one of a tile in state s.                            *)
Bears(s) ==
  /\ s \in Drawn =>
       /\ shown # Nothing /\ \A r \in Regions : shown.of[r] >= recorded[r]
  /\ s \in Drops => shown = Nothing
  /\ s = "rendered" => shown.bounds = "inside"

(* It lies where the tile lies now; an edge does once it was redrawn.      *)
Fits(s, redrawn) ==
  /\ bounds = "outside" => shown = Nothing
  /\ s \in Drawn =>
       /\ s = Target(bounds)
       /\ redrawn \/ bounds = "inside" => shown.bounds = bounds

AsNewAs(s, t, r) == s \in Drawn => shown.of[r] >= t.hash

(* What a task is about to say of the tile that it has stored.             *)
Stored(t, r) ==
  t.at = "set" /\ t.alone =>
    /\ Bears(t.result) /\ AsNewAs(t.result, t, r)
    /\ Fits(t.result, t.force # "none" \/ visit = "forced")

Results == ~spoiled => \A r \in Regions : Stored(task[r], r)

TileIsTrue ==
  Settled =>
    /\ Bears(state)
    /\ visit # "no" => Fits(state, visit = "forced")
    /\ \A r \in Regions :
         task[r].at = "processed" => AsNewAs(state, task[r], r)

TileInv == TypeOK /\ Alone /\ Ages /\ Plans /\ Results /\ TileIsTrue
------------------------------------------------------------------------------
Tasks ==
  [at : {"idle", "inited", "mesh", "write", "delete", "set", "processed"},
   alone : BOOLEAN, force : Strategies, hash : Versions \cup {NoHash},
   does : {"render", "delete", "none"}, result : States, content : Contents]

LEMMA Numbers ==
  /\ MaxVersion \in Nat /\ Versions \subseteq Nat /\ NoHash \in Nat
  /\ 0 \in Versions
  BY TileAssumption DEF Versions, NoHash

LEMMA IdleIsTask ==
  /\ Idle \in Tasks /\ Idle.at = "idle"
  /\ \A r \in Regions : Planned(Idle, r) /\ Stored(Idle, r)
<1>1. [r \in Regions |-> 0] \in Contents
  BY Numbers DEF Contents
<1>2. Idle \in Tasks /\ Idle.at = "idle"
  BY <1>1, Numbers DEF Idle, Tasks, Strategies, States
<1> QED BY <1>2 DEF Planned, Stored

LEMMA NothingIsTile == Nothing \in [of : Contents, bounds : Bounds]
  BY Numbers DEF Nothing, Contents, Bounds

LEMMA InitInv == Init => TileInv
<1> SUFFICES ASSUME Init PROVE TileInv
  OBVIOUS
<1>1. TypeOK
  BY Numbers, IdleIsTask, NothingIsTile
     DEF Init, TypeOK, Tasks, Contents, States, Versions
<1>2. Alone /\ Plans /\ Results
  BY IdleIsTask DEF Init, Alone, Plans, Results
<1>3. Ages
  <2> SUFFICES ASSUME NEW r \in Regions PROVE Aged(r)
    BY DEF Ages
  <2>1. world[r] \in Nat
    BY Numbers DEF Init, Contents
  <2>2. recorded[r] = 0 /\ scanned[r] = 0 /\ task[r].at = "idle"
    BY IdleIsTask DEF Init
  <2>3. 0 <= world[r] /\ 0 <= 0
    BY <2>1
  <2> QED BY <2>2, <2>3 DEF Aged
<1>4. TileIsTrue
  BY IdleIsTask DEF Init, TileIsTrue, Bears, Drawn, Drops
<1> QED BY <1>1, <1>2, <1>3, <1>4 DEF TileInv
------------------------------------------------------------------------------
(* A task on the way to storing the tile: nothing but the task changes.    *)
LEMMA TaskGoesOn ==
  ASSUME TileInv, NEW r \in Regions, NEW t \in Tasks, Put(r, t),
         UNCHANGED <<world, scanned, recorded, bounds, state, shown, visit,
                     spoiled>>,
         t.at \notin {"processed"},
         \/ t.at = "idle" /\ task[r].at # "set"
         \/ /\ task[r].at \notin {"idle", "set"}
            /\ t.alone = task[r].alone /\ t.hash = task[r].hash,
         Planned(t, r), ~spoiled => Stored(t, r)
  PROVE  TileInv'
<1>1. /\ task \in [Regions -> Tasks] /\ task' = [task EXCEPT ![r] = t]
      /\ task'[r] = t /\ \A q \in Regions \ {r} : task'[q] = task[q]
  BY DEF TileInv, TypeOK, Tasks, Put
<1>2. TypeOK'
  BY <1>1 DEF TileInv, TypeOK, Tasks
<1>3. Alone'
  BY <1>1 DEF TileInv, Alone
<1>4. Ages'
  BY <1>1 DEF TileInv, Ages, Aged
<1>5. Plans'
  BY <1>1 DEF TileInv, Plans, Planned
<1>6. Results'
  BY <1>1 DEF TileInv, Results, Stored, Bears, Fits, AsNewAs
<1>7. TileIsTrue'
  <2>1. Settled' => Settled
    BY <1>1 DEF Settled
  <2> QED BY <1>1, <2>1 DEF TileInv, TileIsTrue, Bears, Fits, AsNewAs
<1> QED BY <1>2, <1>3, <1>4, <1>5, <1>6, <1>7 DEF TileInv

LEMMA CancelKeeps ==
  ASSUME TileInv, NEW r \in Regions, Cancel(r)
  PROVE  TileInv'
  BY IdleIsTask, TaskGoesOn DEF Cancel

(* A task alone that leaves the tile as it is leaves it as it should be.   *)
LEMMA NothingToDo ==
  ASSUME TileInv, NEW r \in Regions,
         task[r].at = "inited", task[r].does = "none"
  PROVE  ~spoiled => Stored([task[r] EXCEPT !.at = "set"], r)
<1> DEFINE t == task[r]
           u == [t EXCEPT !.at = "set"]
<1>1. /\ t \in Tasks
      /\ u.at = "set" /\ u.alone = t.alone /\ u.result = t.result
      /\ u.force = t.force /\ u.hash = t.hash
  BY DEF TileInv, TypeOK, Tasks
<1> SUFFICES ASSUME ~spoiled, t.alone
             PROVE  Stored(u, r)
  BY <1>1 DEF Stored
<1>2. Settled
  BY DEF Settled, TileInv, Alone
<1>3. /\ t.result = state /\ t.result \in Drawn \cup Drops
      /\ t.result \in Drawn =>
           /\ t.hash = recorded[r] /\ t.result = Target(bounds)
           /\ t.force # "none" => t.result = "rendered"
      /\ t.result = "out-of-bounds" => bounds = "outside"
  BY DEF TileInv, Plans, Planned
<1>4. Bears(state) /\ (visit # "no" => Fits(state, visit = "forced"))
  BY <1>2 DEF TileInv, TileIsTrue
<1>5. AsNewAs(t.result, u, r)
  BY <1>1, <1>3, <1>4 DEF AsNewAs, Bears
<1>6. Fits(t.result, t.force # "none" \/ visit = "forced")
  <2>1. bounds = "outside" => shown = Nothing
    BY <1>3, <1>4 DEF Bears, Target, Drawn, Drops
  <2>2. ASSUME t.result \in Drawn, bounds = "inside" \/ t.force # "none"
        PROVE  shown.bounds = bounds
    BY <1>3, <1>4, <2>2 DEF Bears, Target, Drawn, TileInv, TypeOK, Bounds
  <2>3. t.result \in Drawn /\ visit = "forced" => shown.bounds = bounds
    BY <1>3, <1>4 DEF Fits
  <2> QED BY <1>3, <2>1, <2>2, <2>3 DEF Fits
<1> HIDE DEF t, u
<1> QED BY <1>1, <1>3, <1>4, <1>5, <1>6 DEF Stored

LEMMA ProcessKeeps ==
  ASSUME TileInv, NEW r \in Regions, Process(r)
  PROVE  TileInv'
<1> DEFINE t == task[r]
           u(step, result) == [t EXCEPT !.at = step, !.result = result]
<1>1. /\ t \in Tasks /\ t.at = "inited"
      /\ UNCHANGED <<world, scanned, recorded, bounds, state, shown, visit,
                     spoiled>>
  BY DEF Process, TileInv, TypeOK, Tasks
<1>2. ASSUME NEW step \in {"set", "delete", "mesh"}, NEW result \in States
      PROVE  /\ u(step, result) \in Tasks
             /\ u(step, result).at = step /\ u(step, result).result = result
             /\ u(step, result).alone = t.alone
             /\ u(step, result).hash = t.hash
  BY <1>1 DEF Tasks
<1>3. t.result \in States /\ {"chunk-error", "not-generated"} \subseteq States
  BY <1>1 DEF Tasks, States
<1>4. CASE t.does = "none" /\ Put(r, u("set", t.result))
  <2>1. u("set", t.result) = [t EXCEPT !.at = "set"]
    BY <1>1 DEF Tasks
  <2>2. ~spoiled => Stored(u("set", t.result), r)
    BY <1>1, <1>4, <2>1, NothingToDo
  <2>3. Planned(u("set", t.result), r)
    BY <1>2, <1>3 DEF Planned
  <2> HIDE DEF u
  <2> QED BY <1>1, <1>2, <1>3, <1>4, <2>2, <2>3, TaskGoesOn
<1>5. ASSUME NEW step \in {"delete", "mesh"}, NEW result \in States,
             Put(r, u(step, result)),
             step = "delete" => result \in Drops,
             step = "mesh" => t.does = "render" /\ result = t.result
      PROVE  TileInv'
  <2>1. Planned(u(step, result), r) /\ Stored(u(step, result), r)
    <3> HIDE DEF u
    <3>1. u(step, result).at = step /\ u(step, result).result = result
      BY <1>2
    <3>2. step = "mesh" => bounds # "outside" /\ result = Target(bounds)
      BY <1>1, <1>5 DEF TileInv, Plans, Planned
    <3> QED BY <1>5, <3>1, <3>2 DEF Planned, Stored
  <2> HIDE DEF u
  <2> QED BY <1>1, <1>2, <1>5, <2>1, TaskGoesOn
<1>6. t.does = "delete" => t.result \in Drops
  BY <1>1 DEF TileInv, Plans, Planned, Drops
<1>7. \/ t.does = "none" /\ Put(r, u("set", t.result))
      \/ t.does = "delete" /\ Put(r, u("delete", t.result))
      \/ t.does = "render" /\ Put(r, u("delete", "chunk-error"))
      \/ t.does = "render" /\ Put(r, u("mesh", t.result))
      \/ t.does = "render" /\ Put(r, u("delete", "not-generated"))
  BY DEF Process
<1> HIDE DEF u, t
<1> QED BY <1>3, <1>4, <1>5, <1>6, <1>7 DEF Drops

LEMMA MeshKeeps ==
  ASSUME TileInv, NEW r \in Regions, Mesh(r)
  PROVE  TileInv'
<1>1. /\ task[r] \in Tasks /\ task[r].at = "mesh"
      /\ UNCHANGED <<world, scanned, recorded, bounds, state, shown, visit,
                     spoiled>>
  BY DEF Mesh, TileInv, TypeOK, Tasks
<1>2. ASSUME NEW content \in Contents, Readable(content),
             Put(r, [task[r] EXCEPT !.at = "write", !.content = content])
      PROVE  TileInv'
  <2> DEFINE u == [task[r] EXCEPT !.at = "write", !.content = content]
  <2>1. /\ u \in Tasks /\ u.at = "write" /\ u.content = content
        /\ u.alone = task[r].alone /\ u.hash = task[r].hash
        /\ u.result = task[r].result
    BY <1>1 DEF Tasks
  <2>2. \A q \in Regions : content[q] >= scanned[q]
    <3>1. \A q \in Regions : content[q] \in Nat /\ scanned[q] \in Nat
      BY Numbers DEF Contents, TileInv, TypeOK
    <3> QED BY <1>2, <3>1 DEF Readable
  <2>3. \A q \in Regions : content[q] >= recorded[q]
    <3> TAKE q \in Regions
    <3>1. content[q] \in Nat /\ scanned[q] \in Nat /\ recorded[q] \in Nat
      BY Numbers DEF Contents, TileInv, TypeOK
    <3>2. content[q] >= scanned[q] /\ recorded[q] <= scanned[q]
      BY <2>2 DEF TileInv, Ages, Aged
    <3> QED BY <3>1, <3>2
  <2>4. content[r] >= task[r].hash
    BY <1>1, <2>2 DEF TileInv, Ages, Aged
  <2>5. Planned(u, r) /\ Stored(u, r)
    BY <1>1, <2>1, <2>3, <2>4 DEF TileInv, Plans, Planned, Stored
  <2> HIDE DEF u
  <2>6. Put(r, u)
    BY <1>2 DEF u
  <2> QED BY <1>1, <2>1, <2>5, <2>6, TaskGoesOn
<1>3. CASE Put(r, [task[r] EXCEPT !.at = "set", !.result = "render-error"])
  <2> DEFINE u == [task[r] EXCEPT !.at = "set", !.result = "render-error"]
  <2>1. /\ u \in Tasks /\ u.at = "set" /\ u.result = "render-error"
        /\ u.alone = task[r].alone /\ u.hash = task[r].hash
    BY <1>1 DEF Tasks, States
  <2>2. bounds # "outside"
    BY <1>1 DEF TileInv, Plans, Planned
  <2>3. Planned(u, r) /\ Stored(u, r)
    BY <2>1, <2>2
       DEF Planned, Stored, Bears, Fits, AsNewAs, Drawn, Drops
  <2> HIDE DEF u
  <2>4. Put(r, u)
    BY <1>3 DEF u
  <2> QED BY <1>1, <2>1, <2>3, <2>4, TaskGoesOn
<1> QED BY <1>2, <1>3 DEF Mesh
------------------------------------------------------------------------------
LEMMA StoreKeeps ==
  ASSUME TileInv, NEW r \in Regions, Store(r)
  PROVE  TileInv'
<1> DEFINE t == task[r]
           u == [t EXCEPT !.at = "set", !.content = Idle.content]
<1>1. /\ t \in Tasks /\ t.at \in {"write", "delete"}
      /\ UNCHANGED <<world, scanned, recorded, bounds, state, visit>>
  BY DEF Store, TileInv, TypeOK, Tasks
<1>2. /\ u \in Tasks /\ u.at = "set" /\ u.alone = t.alone
      /\ u.hash = t.hash /\ u.result = t.result /\ u.force = t.force
  <2>1. Idle.content \in Contents
    BY IdleIsTask DEF Tasks
  <2> QED BY <1>1, <2>1 DEF Tasks
<1>3. task' = [task EXCEPT ![r] = u]
  BY DEF Store, Put
<1>4. \/ /\ shown' = IF t.at = "delete" THEN Nothing
                      ELSE [of |-> t.content, bounds |-> bounds]
         /\ spoiled' = ~t.alone
      \/ UNCHANGED shown /\ spoiled' = TRUE
  BY DEF Store
<1>5. Planned(t, r)
  BY DEF TileInv, Plans
<1> HIDE DEF u
<1>6. /\ task \in [Regions -> Tasks] /\ task'[r] = u
      /\ \A q \in Regions \ {r} : task'[q] = task[q]
  BY <1>3 DEF TileInv, TypeOK, Tasks
<1>7. TypeOK'
  <2>1. task' \in [Regions -> Tasks]
    BY <1>2, <1>3, <1>6
  <2>2. shown' \in [of : Contents, bounds : Bounds]
    BY <1>1, <1>4, NothingIsTile DEF TileInv, TypeOK, Tasks
  <2>3. spoiled' \in BOOLEAN
    BY <1>1, <1>4 DEF Tasks
  <2> QED BY <1>1, <2>1, <2>2, <2>3 DEF TileInv, TypeOK, Tasks
<1>8. Alone'
  BY <1>1, <1>2, <1>6 DEF TileInv, Alone
<1>9. Ages'
  BY <1>1, <1>2, <1>6 DEF TileInv, Ages, Aged
<1>10. Plans'
  <2>1. Planned(task[r], r)'
    BY <1>2, <1>6 DEF Planned
  <2>2. ASSUME NEW q \in Regions \ {r} PROVE Planned(task[q], q)'
    BY <1>1, <1>6 DEF TileInv, Plans, Planned
  <2> QED BY <2>1, <2>2 DEF Plans
<1>11. Results'
  <2> SUFFICES ASSUME ~spoiled', NEW q \in Regions,
                      task'[q].at = "set", task'[q].alone
               PROVE  Stored(task[q], q)'
    BY DEF Results, Stored
  <2>1. t.alone /\ shown' = IF t.at = "delete" THEN Nothing
                            ELSE [of |-> t.content, bounds |-> bounds]
    BY <1>1, <1>4 DEF Tasks
  <2>2. q = r
    BY <1>1, <1>6, <2>1 DEF TileInv, Alone
  <2>3. CASE t.at = "delete"
    BY <1>2, <1>5, <1>6, <2>1, <2>2, <2>3
       DEF Planned, Stored, Bears, Fits, AsNewAs, Drops, Drawn
  <2>4. CASE t.at = "write"
    <3>1. /\ shown'.of = t.content /\ shown'.bounds = bounds
          /\ shown' # Nothing
      BY <1>5, <2>1, <2>4 DEF Planned, Nothing
    <3>2. /\ t.result = Target(bounds) /\ bounds # "outside"
          /\ t.content[r] >= t.hash
          /\ \A p \in Regions : t.content[p] >= recorded[p]
      BY <1>5, <2>1, <2>4 DEF Planned
    <3>3. t.result \in Drawn /\ (t.result = "rendered" => bounds = "inside")
      BY <3>2 DEF Target, Drawn, TileInv, TypeOK, Bounds
    <3> QED BY <1>1, <1>2, <1>6, <2>2, <3>1, <3>2, <3>3
            DEF Stored, Bears, Fits, AsNewAs, Drops, Drawn
  <2> QED BY <1>1, <2>3, <2>4
<1>12. TileIsTrue'
  BY <1>2, <1>6 DEF TileIsTrue, Settled
<1> QED BY <1>7, <1>8, <1>9, <1>10, <1>11, <1>12 DEF TileInv

LEMMA SetStateKeeps ==
  ASSUME TileInv, NEW r \in Regions, SetState(r)
  PROVE  TileInv'
<1> DEFINE t == task[r]
           u == Processed(t)
<1>1. /\ t \in Tasks /\ t.at = "set" /\ state' = t.result
      /\ spoiled' = (spoiled \/ ~t.alone) /\ Visited(t.force)
      /\ UNCHANGED <<world, scanned, recorded, bounds, shown>>
  BY DEF SetState, TileInv, TypeOK, Tasks
<1>2. /\ u \in Tasks /\ u.at = "processed" /\ u.alone = t.alone
      /\ u.hash = t.hash
  BY <1>1, IdleIsTask DEF Tasks, Processed
<1>3. task' = [task EXCEPT ![r] = u]
  BY DEF SetState, Put
<1> HIDE DEF u
<1>4. /\ task \in [Regions -> Tasks] /\ task'[r] = u
      /\ \A q \in Regions \ {r} : task'[q] = task[q]
  BY <1>3 DEF TileInv, TypeOK, Tasks
<1>5. TypeOK'
  <2>1. task' \in [Regions -> Tasks]
    BY <1>2, <1>3, <1>4
  <2>2. visit' \in {"no", "plain", "forced"} /\ spoiled' \in BOOLEAN
    BY <1>1 DEF Visited, TileInv, TypeOK
  <2> QED BY <1>1, <2>1, <2>2 DEF TileInv, TypeOK, Tasks
<1>6. Alone'
  BY <1>1, <1>2, <1>4 DEF TileInv, Alone
<1>7. Ages'
  BY <1>1, <1>2, <1>4 DEF TileInv, Ages, Aged
<1>8. Plans'
  <2>1. Planned(task[r], r)'
    BY <1>2, <1>4 DEF Planned
  <2>2. ASSUME NEW q \in Regions \ {r} PROVE Planned(task[q], q)'
    <3>1. task[q].at = "inited" => ~task[q].alone
      BY <1>1 DEF TileInv, Alone
    <3> QED BY <1>1, <1>4, <3>1 DEF TileInv, Plans, Planned
  <2> QED BY <2>1, <2>2 DEF Plans
<1>9. CASE spoiled'
  BY <1>5, <1>6, <1>7, <1>8, <1>9 DEF TileInv, Results, TileIsTrue, Settled
<1>10. CASE ~spoiled'
  <2>1. /\ t.alone /\ ~spoiled
        /\ \A q \in Regions \ {r} : task'[q].at = "idle"
    BY <1>1, <1>4, <1>10 DEF TileInv, Alone
  <2>2. Results'
    BY <1>2, <1>4, <2>1 DEF Results, Stored
  <2>3. /\ Bears(t.result) /\ AsNewAs(t.result, t, r)
        /\ Fits(t.result, t.force # "none" \/ visit = "forced")
    BY <1>1, <2>1 DEF TileInv, Results, Stored
  <2>4. visit' = "forced" => t.force # "none" \/ visit = "forced"
    BY <1>1 DEF Visited
  <2>5. TileIsTrue'
    BY <1>1, <1>2, <1>4, <2>1, <2>3, <2>4
       DEF TileIsTrue, Bears, Fits, AsNewAs
  <2> QED BY <1>5, <1>6, <1>7, <1>8, <2>2, <2>5 DEF TileInv
<1> QED BY <1>9, <1>10

LEMMA CompleteKeeps ==
  ASSUME TileInv, NEW r \in Regions, Complete(r)
  PROVE  TileInv'
<1>1. /\ task[r] \in Tasks /\ task[r].at = "processed"
      /\ recorded' = [recorded EXCEPT ![r] = task[r].hash]
      /\ task' = [task EXCEPT ![r] = Idle]
      /\ UNCHANGED <<world, scanned, bounds, state, shown, visit, spoiled>>
  BY DEF Complete, Put, TileInv, TypeOK, Tasks
<1>2. /\ task \in [Regions -> Tasks] /\ task'[r] = Idle
      /\ task' \in [Regions -> Tasks]
      /\ \A q \in Regions \ {r} : task'[q] = task[q]
  BY <1>1, IdleIsTask DEF TileInv, TypeOK, Tasks
<1>3. task[r].hash = scanned[r] /\ scanned[r] \in Versions
  BY <1>1 DEF TileInv, Ages, Aged, TypeOK, Contents
<1>4. /\ recorded' \in Contents /\ recorded'[r] = task[r].hash
      /\ \A q \in Regions \ {r} : recorded'[q] = recorded[q]
  BY <1>1, <1>3 DEF TileInv, TypeOK, Contents
<1>5. TypeOK'
  BY <1>1, <1>2, <1>4 DEF TileInv, TypeOK, Tasks
<1>6. Alone'
  BY <1>2, IdleIsTask DEF TileInv, Alone
<1>7. Ages'
  <2>1. scanned[r] \in Nat
    BY <1>3, Numbers
  <2>2. Aged(r)'
    <3>1. recorded'[r] = scanned[r] /\ scanned[r] <= world[r]
      BY <1>3, <1>4 DEF TileInv, Ages, Aged
    <3>2. task'[r].at = "idle"
      BY <1>2, IdleIsTask
    <3>3. scanned[r] <= scanned[r]
      BY <2>1
    <3> QED BY <1>1, <3>1, <3>2, <3>3 DEF Aged
  <2>3. ASSUME NEW q \in Regions \ {r} PROVE Aged(q)'
    BY <1>1, <1>2, <1>4 DEF TileInv, Ages, Aged
  <2> QED BY <2>2, <2>3 DEF Ages
<1>8. Plans'
  <2> SUFFICES ASSUME NEW q \in Regions \ {r} PROVE Planned(task[q], q)'
    BY <1>2, IdleIsTask DEF Plans, Planned
  <2>1. task[q].at = "write" => ~task[q].alone
    BY <1>1 DEF TileInv, Alone
  <2> QED BY <1>1, <1>2, <1>4, <2>1 DEF TileInv, Plans, Planned
<1>9. Results'
  <2> SUFFICES ASSUME NEW q \in Regions \ {r},
                      task[q].at = "set", task[q].alone
               PROVE  FALSE
    BY <1>2, IdleIsTask DEF Results, Stored
  <2> QED BY <1>1 DEF TileInv, Alone
<1>10. TileIsTrue'
  <2> SUFFICES ASSUME Settled' PROVE TileIsTrue'
    BY DEF TileIsTrue
  <2>1. Settled
    BY <1>1, <1>2 DEF Settled
  <2>2. /\ Bears(state) /\ (visit # "no" => Fits(state, visit = "forced"))
        /\ \A q \in Regions :
             task[q].at = "processed" => AsNewAs(state, task[q], q)
    BY <2>1 DEF TileInv, TileIsTrue
  <2>3. Bears(state)'
    BY <1>1, <1>4, <2>2 DEF Bears, AsNewAs
  <2> QED BY <1>1, <1>2, <2>2, <2>3, IdleIsTask
          DEF TileIsTrue, Fits, AsNewAs
<1> QED BY <1>5, <1>6, <1>7, <1>8, <1>9, <1>10 DEF TileInv
------------------------------------------------------------------------------
LEMMA WorldChangesKeeps ==
  ASSUME TileInv, NEW r \in Regions, WorldChanges(r)
  PROVE  TileInv'
<1>1. /\ world[r] < MaxVersion /\ world' = [world EXCEPT ![r] = @ + 1]
      /\ UNCHANGED <<scanned, recorded, bounds, state, shown, task, visit,
                     spoiled>>
  BY DEF WorldChanges
<1>2. world[r] \in Nat /\ world[r] + 1 \in Versions
  BY <1>1, Numbers DEF TileInv, TypeOK, Contents, Versions
<1>3. TypeOK'
  BY <1>1, <1>2 DEF TileInv, TypeOK, Contents
<1>4. Ages'
  <2> SUFFICES ASSUME NEW q \in Regions PROVE scanned[q] <= world'[q]
    BY <1>1 DEF TileInv, Ages, Aged
  <2>1. /\ scanned[q] <= world[q] /\ scanned[q] \in Nat
        /\ world[q] \in Nat
        /\ world'[q] \in {world[q], world[q] + 1}
    BY <1>1, Numbers DEF TileInv, Ages, Aged, TypeOK, Contents
  <2> QED BY <2>1
<1> QED BY <1>1, <1>3, <1>4
        DEF TileInv, Alone, Plans, Planned, Results, Stored, Bears, Fits,
            AsNewAs, TileIsTrue, Settled

LEMMA BoundsChangeKeeps ==
  ASSUME TileInv, NEW b \in Bounds, BoundsChange(b)
  PROVE  TileInv'
<1>1. /\ \A r \in Regions : task[r].at = "idle"
      /\ bounds' = b /\ visit' = "no"
      /\ UNCHANGED <<world, scanned, recorded, state, shown, task, spoiled>>
  BY DEF BoundsChange
<1>2. TypeOK' /\ Alone' /\ Ages'
  BY <1>1 DEF TileInv, TypeOK, Alone, Ages, Aged
<1>3. Plans' /\ Results'
  BY <1>1 DEF Plans, Planned, Results, Stored
<1>4. TileIsTrue'
  BY <1>1 DEF TileInv, TileIsTrue, Settled, Bears, AsNewAs
<1> QED BY <1>2, <1>3, <1>4 DEF TileInv
------------------------------------------------------------------------------
LEMMA ScanKeeps ==
  ASSUME TileInv, NEW r \in Regions, task[r].at = "idle",
         scanned' = [scanned EXCEPT ![r] = world[r]],
         UNCHANGED <<world, recorded>>
  PROVE  /\ scanned' \in Contents /\ scanned'[r] = world[r]
         /\ \A q \in Regions \ {r} : scanned'[q] = scanned[q]
         /\ \A q \in Regions : recorded'[q] <= scanned'[q]
                             /\ scanned'[q] <= world'[q]
<1>1. /\ scanned' \in Contents /\ scanned'[r] = world[r]
      /\ \A q \in Regions \ {r} : scanned'[q] = scanned[q]
  BY DEF TileInv, TypeOK, Contents
<1>2. ASSUME NEW q \in Regions
      PROVE  recorded[q] <= scanned'[q] /\ scanned'[q] <= world[q]
  <2>1. /\ recorded[q] \in Nat /\ scanned[q] \in Nat /\ world[q] \in Nat
        /\ recorded[q] <= scanned[q] /\ scanned[q] <= world[q]
    BY Numbers DEF TileInv, TypeOK, Contents, Ages, Aged
  <2> QED BY <1>1, <2>1
<1> QED BY <1>1, <1>2

(* What a scan plans for a tile in a settled state that nobody is at.      *)
LEMMA Found ==
  ASSUME TileInv, NEW r \in Regions, NEW strategy \in Strategies
  PROVE  LET changed == Forced(strategy) \/ recorded[r] # world[r]
             found == FindAction(state, changed, bounds)
         IN  /\ found.does \in {"render", "delete", "none"}
             /\ found.result \in States
             /\ found.does = "none" =>
                  /\ found.result = state
                  /\ state \in Drawn \cup Drops
                  /\ state \in Drawn =>
                       /\ world[r] = recorded[r] /\ state = Target(bounds)
                       /\ strategy # "none" => state = "rendered"
                  /\ state = "out-of-bounds" => bounds = "outside"
             /\ found.does = "delete" => found.result = "out-of-bounds"
             /\ found.does = "render" =>
                  bounds # "outside" /\ found.result = Target(bounds)
<1> DEFINE changed == Forced(strategy) \/ recorded[r] # world[r]
           found == FindAction(state, changed, bounds)
<1>1. state \in States /\ bounds \in Bounds
  BY DEF TileInv, TypeOK
<1>2. /\ Target(bounds) \in Drawn \cup {"out-of-bounds"}
      /\ Target(bounds) = "out-of-bounds" <=> bounds = "outside"
  BY <1>1 DEF Target, Drawn, Bounds
<1>3. CASE \/ state \in Drawn /\ state = Target(bounds) /\ ~changed
           \/ state = "out-of-bounds" /\ state = Target(bounds)
           \/ state \in {"not-generated", "chunk-error"} /\ ~changed
  <2>1. found = [does |-> "none", result |-> state]
    BY <1>3 DEF FindAction
  <2>2. ~changed => recorded[r] = world[r] /\ ~Forced(strategy)
    OBVIOUS
  <2>3. state \in Drawn /\ strategy # "none" /\ ~changed
          => state = "rendered"
    BY DEF Forced, Strategies, Drawn
  <2>4. state \in Drawn => ~changed /\ state = Target(bounds)
    BY <1>3 DEF Drawn
  <2> HIDE DEF found, changed
  <2>5. found.does = "none" /\ found.result = state
    BY <2>1
  <2>6. state \in Drawn \cup Drops
    BY <1>3 DEF Drops
  <2>7. state = "out-of-bounds" => bounds = "outside"
    BY <1>2, <1>3 DEF Drawn
  <2> QED BY <1>1, <2>2, <2>3, <2>4, <2>5, <2>6, <2>7 DEF found, changed
<1>4. CASE ~(\/ state \in Drawn /\ state = Target(bounds) /\ ~changed
             \/ state = "out-of-bounds" /\ state = Target(bounds)
             \/ state \in {"not-generated", "chunk-error"} /\ ~changed)
  <2>1. found = ToTarget(bounds)
    BY <1>4 DEF FindAction
  <2>2. /\ found.does = IF bounds = "outside" THEN "delete" ELSE "render"
        /\ found.result = Target(bounds)
    BY <2>1 DEF ToTarget
  <2> HIDE DEF found
  <2> QED BY <1>2, <2>2 DEF found, States
<1> QED BY <1>3, <1>4

(* A region with nothing to do in the tile, or in any other.               *)
LEMMA SkipKeeps ==
  ASSUME TileInv, NEW r \in Regions, NEW strategy \in Strategies,
         InitTask(r, strategy), UNCHANGED task, Visited(strategy),
         FindAction(state, Forced(strategy) \/ recorded[r] # world[r],
                    bounds).does = "none"
  PROVE  TileInv'
<1>1. /\ task[r].at = "idle"
      /\ \A q \in Busy(r) : task[q].force = strategy
      /\ scanned' = [scanned EXCEPT ![r] = world[r]]
      /\ UNCHANGED <<world, recorded, bounds, state, shown, spoiled>>
  BY DEF InitTask
<1>2. /\ scanned' \in Contents
      /\ \A q \in Regions \ {r} : scanned'[q] = scanned[q]
      /\ \A q \in Regions : recorded'[q] <= scanned'[q]
                          /\ scanned'[q] <= world'[q]
  BY <1>1, ScanKeeps
<1>3. TypeOK'
  BY <1>1, <1>2 DEF TileInv, TypeOK, Visited
<1>4. Alone' /\ Plans'
  BY <1>1 DEF TileInv, Alone, Plans, Planned
<1>5. Ages'
  <2> SUFFICES ASSUME NEW q \in Regions, task[q].at # "idle"
               PROVE  task[q].hash = scanned'[q]
    BY <1>2 DEF Ages, Aged
  <2> QED BY <1>1, <1>2 DEF TileInv, Ages, Aged
<1>6. visit' = "forced" <=> strategy # "none" \/ visit = "forced"
  BY DEF Visited
<1>7. Results'
  <2> SUFFICES ASSUME ~spoiled, NEW q \in Regions,
                      task[q].at = "set", task[q].alone
               PROVE  Stored(task[q], q)'
    BY <1>1 DEF Results, Stored
  <2>1. task[q].force = strategy
    BY <1>1 DEF Busy
  <2>2. Stored(task[q], q)
    BY DEF TileInv, Results
  <2> QED BY <1>1, <1>6, <2>1, <2>2 DEF Stored, Bears, Fits, AsNewAs
<1>8. TileIsTrue'
  <2> SUFFICES ASSUME Settled PROVE TileIsTrue'
    BY <1>1 DEF TileIsTrue, Settled
  <2>1. /\ Bears(state) /\ (visit # "no" => Fits(state, visit = "forced"))
        /\ \A q \in Regions :
             task[q].at = "processed" => AsNewAs(state, task[q], q)
    BY DEF TileInv, TileIsTrue
  <2>2. /\ state \in Drawn \cup Drops
        /\ state \in Drawn =>
             /\ state = Target(bounds)
             /\ strategy # "none" => state = "rendered"
        /\ state = "out-of-bounds" => bounds = "outside"
    BY Found
  <2>3. Fits(state, visit' = "forced")
    <3>1. bounds = "outside" => shown = Nothing
      BY <2>1, <2>2 DEF Bears, Target, Drawn, Drops
    <3>2. ASSUME state \in Drawn, bounds = "inside" \/ strategy # "none"
          PROVE  shown.bounds = bounds
      BY <2>1, <2>2, <3>2 DEF Bears, Target, Drawn, TileInv, TypeOK, Bounds
    <3>3. state \in Drawn /\ visit = "forced" => shown.bounds = bounds
      BY <2>1 DEF Fits
    <3> QED BY <1>6, <2>2, <3>1, <3>2, <3>3 DEF Fits
  <2> QED BY <1>1, <2>1, <2>3 DEF TileIsTrue, Bears, Fits, AsNewAs
<1> QED BY <1>3, <1>4, <1>5, <1>7, <1>8 DEF TileInv

Finding(r, strategy) ==
  FindAction(state, Forced(strategy) \/ recorded[r] # world[r], bounds)

(* The task of a region takes the tile on; who is there is not alone now.  *)
Fresh(r, strategy) ==
  [Idle EXCEPT !.at = "inited", !.alone = (Busy(r) = {}),
     !.force = strategy, !.hash = world[r],
     !.does = Finding(r, strategy).does,
     !.result = Finding(r, strategy).result]

TakenOn(r, strategy) ==
  [q \in Regions |->
     IF q \in Busy(r) THEN [task[q] EXCEPT !.alone = FALSE]
     ELSE IF q # r THEN task[q] ELSE Fresh(r, strategy)]

Begun(t, r, strategy) ==
  /\ t \in Tasks /\ t.at = "inited" /\ t.alone = (Busy(r) = {})
  /\ t.force = strategy /\ t.hash = world[r]
  /\ t.does = "none" =>
       /\ t.result = state
       /\ state \in Drawn \cup Drops
       /\ state \in Drawn =>
            /\ world[r] = recorded[r] /\ state = Target(bounds)
            /\ strategy # "none" => state = "rendered"
       /\ state = "out-of-bounds" => bounds = "outside"
  /\ t.does = "delete" => t.result = "out-of-bounds"
  /\ t.does = "render" => bounds # "outside" /\ t.result = Target(bounds)

Met(new, t) ==
  /\ new \in Tasks /\ new.at = t.at /\ new.hash = t.hash
  /\ new.at # "idle" => ~new.alone
  /\ new.does = t.does /\ new.result = t.result /\ new.force = t.force

LEMMA Begins ==
  ASSUME TileInv, NEW r \in Regions, NEW strategy \in Strategies
  PROVE  Begun(Fresh(r, strategy), r, strategy)
<1> DEFINE u == Fresh(r, strategy)
           found == Finding(r, strategy)
<1>1. /\ found.does \in {"render", "delete", "none"}
      /\ found.result \in States
      /\ found.does = "none" =>
           /\ found.result = state
           /\ state \in Drawn \cup Drops
           /\ state \in Drawn =>
                /\ world[r] = recorded[r] /\ state = Target(bounds)
                /\ strategy # "none" => state = "rendered"
           /\ state = "out-of-bounds" => bounds = "outside"
      /\ found.does = "delete" => found.result = "out-of-bounds"
      /\ found.does = "render" =>
           bounds # "outside" /\ found.result = Target(bounds)
  BY Found DEF Finding
<1>2. world[r] \in Versions /\ (Busy(r) = {}) \in BOOLEAN
  BY DEF TileInv, TypeOK, Contents
<1>3. /\ u \in Tasks /\ u.at = "inited" /\ u.alone = (Busy(r) = {})
      /\ u.force = strategy /\ u.hash = world[r]
      /\ u.does = found.does /\ u.result = found.result
  BY <1>1, <1>2, IdleIsTask DEF Tasks, Fresh
<1> HIDE DEF u, found
<1>4. Begun(u, r, strategy)
  BY <1>1, <1>3 DEF Begun
<1> QED BY <1>4 DEF u

LEMMA MeetingKeeps ==
  ASSUME TileInv, NEW r \in Regions, NEW strategy \in Strategies,
         task[r].at = "idle",
         scanned' = [scanned EXCEPT ![r] = world[r]],
         task' \in [Regions -> Tasks], Begun(task'[r], r, strategy),
         \A q \in Regions \ {r} : Met(task'[q], task[q]),
         UNCHANGED <<world, recorded, bounds, state, shown, spoiled, visit>>
  PROVE  TileInv'
<1>1. /\ scanned' \in Contents /\ scanned'[r] = world[r]
      /\ \A q \in Regions \ {r} : scanned'[q] = scanned[q]
      /\ \A q \in Regions : recorded'[q] <= scanned'[q]
                          /\ scanned'[q] <= world'[q]
  BY ScanKeeps
<1>2. TypeOK'
  BY <1>1 DEF TileInv, TypeOK, Tasks
<1>3. Alone'
  <2> SUFFICES ASSUME NEW p \in Regions, task'[p].at # "idle",
                      task'[p].alone, NEW q \in Regions \ {p}
               PROVE  task'[q].at = "idle"
    BY DEF Alone
  <2>1. p = r
    BY DEF Met
  <2>2. Busy(r) = {}
    BY <2>1 DEF Begun
  <2> QED BY <2>1, <2>2 DEF Busy, Met
<1>4. Ages'
  <2>1. Aged(r)'
    BY <1>1 DEF Aged, Begun
  <2>2. ASSUME NEW q \in Regions \ {r} PROVE Aged(q)'
    BY <1>1 DEF TileInv, Ages, Aged, Met
  <2> QED BY <2>1, <2>2 DEF Ages
<1>5. Plans'
  <2>1. Planned(task[r], r)'
    <3>1. /\ task'[r].at = "inited"
          /\ task'[r].does = "none" =>
               /\ task'[r].result = state
               /\ state \in Drawn \cup Drops
               /\ state \in Drawn =>
                    /\ task'[r].hash = recorded[r] /\ state = Target(bounds)
                    /\ task'[r].force # "none" => state = "rendered"
               /\ state = "out-of-bounds" => bounds = "outside"
          /\ task'[r].does = "delete" => task'[r].result = "out-of-bounds"
          /\ task'[r].does = "render" =>
               bounds # "outside" /\ task'[r].result = Target(bounds)
      BY DEF Begun
    <3> QED BY <3>1 DEF Planned
  <2>2. ASSUME NEW q \in Regions \ {r} PROVE Planned(task[q], q)'
    <3>1. Met(task'[q], task[q]) /\ Planned(task[q], q)
      BY DEF TileInv, Plans
    <3> QED BY <3>1 DEF Planned, Met
  <2> QED BY <2>1, <2>2 DEF Plans
<1>6. Results'
  <2> SUFFICES ASSUME NEW q \in Regions, task'[q].at = "set",
                      task'[q].alone
               PROVE  FALSE
    BY DEF Results, Stored
  <2> QED BY DEF Begun, Met
<1>7. TileIsTrue'
  <2> SUFFICES ASSUME Settled' PROVE TileIsTrue'
    BY DEF TileIsTrue
  <2>1. \A q \in Regions : task'[q].at \in {"processed", "set"}
          => task'[q].at = task[q].at /\ task'[q].hash = task[q].hash
    BY DEF Begun, Met
  <2>2. Settled
    <3>1. \A q \in Regions \ {r} : task'[q].at = task[q].at
      BY DEF Met
    <3> QED BY <3>1 DEF Settled
  <2>3. /\ Bears(state) /\ (visit # "no" => Fits(state, visit = "forced"))
        /\ \A q \in Regions :
             task[q].at = "processed" => AsNewAs(state, task[q], q)
    BY <2>2 DEF TileInv, TileIsTrue
  <2>4. Bears(state)' /\ (visit' # "no" => Fits(state, visit = "forced")')
    BY <2>3 DEF Bears, Fits
  <2>5. \A q \in Regions :
          task'[q].at = "processed" => AsNewAs(state, task[q], q)'
    BY <2>1, <2>3 DEF AsNewAs
  <2> QED BY <2>4, <2>5 DEF TileIsTrue
<1> QED BY <1>2, <1>3, <1>4, <1>5, <1>6, <1>7 DEF TileInv

LEMMA TakeOnKeeps ==
  ASSUME TileInv, NEW r \in Regions, NEW strategy \in Strategies,
         task[r].at = "idle",
         scanned' = [scanned EXCEPT ![r] = world[r]],
         task' = TakenOn(r, strategy),
         UNCHANGED <<world, recorded, bounds, state, shown, spoiled, visit>>
  PROVE  TileInv'
<1> DEFINE u == Fresh(r, strategy)
           new(q) == IF q \in Busy(r) THEN [task[q] EXCEPT !.alone = FALSE]
                     ELSE IF q # r THEN task[q] ELSE u
<1>1. task' = [q \in Regions |-> new(q)]
  BY DEF TakenOn
<1>2. Begun(u, r, strategy)
  BY Begins
<1> HIDE DEF u
<1>3. new(r) = u
  BY DEF Busy
<1>4. ASSUME NEW q \in Regions \ {r} PROVE Met(new(q), task[q])
  <2>1. task[q] \in Tasks
    BY DEF TileInv, TypeOK, Tasks
  <2>2. CASE task[q].at = "idle"
    <3>1. new(q) = task[q]
      BY <2>2 DEF Busy
    <3> HIDE DEF new
    <3> QED BY <2>1, <2>2, <3>1 DEF Met
  <2>3. CASE task[q].at # "idle"
    <3>1. new(q) = [task[q] EXCEPT !.alone = FALSE]
      BY <2>3 DEF Busy
    <3> HIDE DEF new
    <3> QED BY <2>1, <3>1 DEF Met, Tasks
  <2> QED BY <2>2, <2>3
<1> HIDE DEF new
<1>5. /\ task' \in [Regions -> Tasks] /\ Begun(task'[r], r, strategy)
      /\ \A q \in Regions \ {r} : Met(task'[q], task[q])
  <2>1. u \in Tasks /\ \A q \in Regions \ {r} : new(q) \in Tasks
    BY <1>2, <1>4 DEF Begun, Met
  <2>2. \A q \in Regions : new(q) \in Tasks
    BY <1>3, <2>1
  <2>3. task'[r] = u /\ \A q \in Regions \ {r} : task'[q] = new(q)
    BY <1>1, <1>3
  <2>4. Begun(task'[r], r, strategy)
    BY <1>2, <2>3
  <2>5. ASSUME NEW q \in Regions \ {r} PROVE Met(task'[q], task[q])
    <3>1. task'[q] = new(q) /\ Met(new(q), task[q])
      BY <1>4, <2>3
    <3> QED BY <3>1
  <2>6. task' \in [Regions -> Tasks]
    BY <1>1, <2>2
  <2> QED BY <2>4, <2>5, <2>6
<1> QED BY <1>5, MeetingKeeps

LEMMA InitTaskKeeps ==
  ASSUME TileInv, NEW r \in Regions, NEW strategy \in Strategies,
         InitTask(r, strategy)
  PROVE  TileInv'
<1>1. CASE /\ Finding(r, strategy).does = "none" /\ Visited(strategy)
           /\ UNCHANGED task
  BY <1>1, SkipKeeps DEF Finding
<1>2. CASE task' = TakenOn(r, strategy) /\ UNCHANGED visit
  <2>1. /\ task[r].at = "idle"
        /\ scanned' = [scanned EXCEPT ![r] = world[r]]
        /\ UNCHANGED <<world, recorded, bounds, state, shown, spoiled>>
    BY DEF InitTask
  <2> QED BY <1>2, <2>1, TakeOnKeeps
<1>3. \/ /\ Finding(r, strategy).does = "none" /\ Visited(strategy)
         /\ UNCHANGED task
      \/ task' = TakenOn(r, strategy) /\ UNCHANGED visit
  BY DEF InitTask, Finding, TakenOn, Fresh
<1> QED BY <1>1, <1>2, <1>3
------------------------------------------------------------------------------
LEMMA StepKeeps == TileInv /\ [Next]_vars => TileInv'
<1> SUFFICES ASSUME TileInv, [Next]_vars PROVE TileInv'
  OBVIOUS
<1>1. CASE UNCHANGED vars
  BY <1>1 DEF vars, TileInv, TypeOK, Alone, Ages, Aged, Plans, Planned,
      Results, Stored, Bears, Fits, AsNewAs, TileIsTrue, Settled
<1>2. ASSUME NEW r \in Regions, NEW strategy \in Strategies,
             InitTask(r, strategy)
      PROVE  TileInv'
  BY <1>2, InitTaskKeeps
<1>3. ASSUME NEW r \in Regions,
             \/ Process(r) \/ Mesh(r) \/ Store(r) \/ SetState(r)
             \/ Complete(r) \/ Cancel(r) \/ WorldChanges(r)
      PROVE  TileInv'
  BY <1>3, ProcessKeeps, MeshKeeps, StoreKeeps, SetStateKeeps,
     CompleteKeeps, CancelKeeps, WorldChangesKeeps
<1>4. ASSUME NEW b \in Bounds, BoundsChange(b) PROVE TileInv'
  BY <1>4, BoundsChangeKeeps
<1> QED BY <1>1, <1>2, <1>3, <1>4 DEF Next

(* What the tasks know of the tile stays true of it, however the tasks of  *)
(* the regions, changes of the world and of the boundaries interleave.     *)
THEOREM Inductive == Spec => []TileInv
BY InitInv, StepKeeps, PTL DEF Spec

(* The tile, its tasks and their results have the types of TypeOK.         *)
THEOREM TypeCorrect == Spec => []TypeOK
<1>1. TileInv => TypeOK
  BY DEF TileInv
<1> QED BY <1>1, Inductive, PTL

(* A tile that is said to be rendered is in the storage, and drawn from    *)
(* nothing older than what the chunk state says it was drawn from.         *)
THEOREM TileCorrect == Spec => []TileShowsTheWorld
<1>1. TileInv => TileShowsTheWorld
  BY DEF TileInv, TileIsTrue, Bears, TileShowsTheWorld
<1> QED BY <1>1, Inductive, PTL

(* The render boundaries are obeyed after one update, and a forced one     *)
(* redraws the edges that were drawn for other boundaries.                 *)
THEOREM BoundsCorrect == Spec => []BoundsRespected
<1>1. TileInv => BoundsRespected
  BY DEF TileInv, TileIsTrue, Fits, BoundsRespected
<1> QED BY <1>1, Inductive, PTL
------------------------------------------------------------------------------
(***************************************************************************)
(* The lowres layer.                                                       *)
(***************************************************************************)
(* While the chain is at work, its write is the first of the queue.        *)
HeadIsAtWork ==
  actor["chain"].at # "idle" =>
    queue # <<>> /\ Head(queue)[1] = actor["chain"].tile

SaveOnlySaves == actor["save"].at \in {"idle", "pick", "write", "forget"}

(* Where the chain and the save are busy with one tile, that is known.     *)
MeetingsSeen == \A t \in Tiles : BusyWith(t) = Actors => t \in met

(* What a tile has received is in its instance, on disk once it is not     *)
(* pending, and in what a save of it has encoded or written.               *)
Safe(t) ==
  /\ set[t] \subseteq mem[t]
  /\ t \in pending \/ set[t] \subseteq disk[t]
  /\ actor["chain"].at = "put" /\ actor["chain"].tile = t => t \in pending
  /\ \A a \in Actors : actor[a].saving = t =>
       /\ actor[a].at = "write" => set[t] \subseteq actor[a].bytes
       /\ actor[a].at = "forget" => set[t] \subseteq disk[t]

Steady == LayerTypeOK /\ HeadIsAtWork /\ SaveOnlySaves

LayerInv == Steady /\ MeetingsSeen /\ \A t \in Sound : Safe(t)
------------------------------------------------------------------------------
Locals ==
  [at : {"idle", "access", "admit", "put", "pick", "write", "forget"},
   tile : Tiles, todo : SUBSET Tiles, saving : Tiles, bytes : SUBSET Writes]

LEMMA RestingIsLocals == Resting \in Locals /\ Resting.at = "idle"
  <1>1. AnyTile \in Tiles
    BY LowresAssumption DEF AnyTile
  <1> QED
    BY <1>1 DEF Resting, Locals

LEMMA PendingFinite ==
  ASSUME LayerTypeOK
  PROVE  IsFiniteSet(pending) /\ Cardinality(pending) \in Nat
  <1>1. IsFiniteSet(pending)
    BY LowresAssumption, FS_Subset DEF LayerTypeOK
  <1> QED
    BY <1>1, FS_CardinalityType

(* What one actor's step leaves of the other.                              *)
LEMMA GoStep ==
  ASSUME LayerTypeOK, NEW a \in Actors, NEW r \in Locals, Go(a, r)
  PROVE  /\ actor' \in [Actors -> Locals]
         /\ actor'[a] = r
         /\ \A b \in Actors : b # a => actor'[b] = actor[b]
  BY DEF LayerTypeOK, Go, Locals

(* An actor that gets busy with no tile meets nobody.                      *)
LEMMA NobodyMeets ==
  ASSUME MeetingsSeen, met \subseteq met',
         \A t \in Tiles : BusyWith(t)' \subseteq BusyWith(t)
  PROVE  MeetingsSeen'
  BY DEF MeetingsSeen, BusyWith

LEMMA MeetIsSeen ==
  ASSUME MeetingsSeen, NEW a \in Actors, NEW u \in Tiles, Meet(a, u),
         \A t \in Tiles : t # u => BusyWith(t)' \subseteq BusyWith(t),
         BusyWith(u)' \subseteq BusyWith(u) \cup {a}
  PROVE  MeetingsSeen' /\ met \subseteq met'
  <1>1. /\ met' \in {met, met \cup {u}}
        /\ met' = met => BusyWith(u) \ {a} = {} \/ u \in met
    BY DEF Meet
  <1>2. met \subseteq met'
    BY <1>1
  <1>3. ASSUME NEW t \in Tiles, BusyWith(t)' = Actors
        PROVE  t \in met'
    <2>1. CASE t # u
      <3>1. BusyWith(t) = Actors
        BY <1>3, <2>1 DEF BusyWith
      <3> QED
        BY <3>1, <1>2 DEF MeetingsSeen
    <2>2. CASE t = u /\ u \notin met'
      <3>1. BusyWith(u) \ {a} = {}
        BY <2>2, <1>1
      <3>2. Actors \subseteq {a}
        BY <3>1, <2>2, <1>3
      <3> QED
        BY <3>2 DEF Actors
    <2> QED
      BY <2>1, <2>2
  <1>4. Actors' = Actors
    BY DEF Actors
  <1> QED
    BY <1>2, <1>3, <1>4 DEF MeetingsSeen

LEMMA InitLayer == LayerInit => LayerInv
  <1> SUFFICES ASSUME LayerInit PROVE LayerInv
    OBVIOUS
  <1>1. actor \in [Actors -> Locals] /\ \A a \in Actors : actor[a].at = "idle"
    BY RestingIsLocals DEF LayerInit
  <1>2. Cardinality(pending) <= MaxPending
    BY LowresAssumption, FS_EmptySet DEF LayerInit
  <1>3. LayerTypeOK
    BY <1>1, <1>2, LowresAssumption DEF LayerInit, LayerTypeOK, Locals
  <1>4. "save" \in Actors /\ "chain" \in Actors
    BY DEF Actors
  <1>5. HeadIsAtWork /\ SaveOnlySaves
    BY <1>1, <1>4 DEF HeadIsAtWork, SaveOnlySaves
  <1>6. MeetingsSeen
    BY <1>1, <1>4 DEF MeetingsSeen, BusyWith
  <1>7. \A t \in Sound : Safe(t)
    BY <1>1, <1>4 DEF Sound, Safe, LayerInit
  <1> QED
    BY <1>3, <1>5, <1>6, <1>7 DEF LayerInv, Steady
------------------------------------------------------------------------------
LEMMA RenderKeeps ==
  ASSUME LayerInv, NEW t \in Tiles, Render(t)
  PROVE  LayerInv'
  <1>1. /\ writes' = writes + 1 /\ writes < MaxWrites
        /\ queue' = Append(queue, <<t, writes'>>)
        /\ UNCHANGED <<actor, mem, cached, pending, disk, set, excused, met>>
    BY DEF Render
  <1>2. writes' \in Writes /\ writes' \in 0 .. MaxWrites
    BY <1>1, LowresAssumption DEF LayerInv, Steady, LayerTypeOK, Writes
  <1>3. queue' \in Seq(Tiles \X Writes)
    BY <1>1, <1>2 DEF LayerInv, Steady, LayerTypeOK
  <1>4. LayerTypeOK'
    BY <1>1, <1>2, <1>3 DEF LayerInv, Steady, LayerTypeOK
  <1>5. queue # <<>> => queue' # <<>> /\ Head(queue') = Head(queue)
    BY <1>1, <1>2 DEF LayerInv, Steady, LayerTypeOK
  <1>6. HeadIsAtWork' /\ SaveOnlySaves'
    BY <1>1, <1>5 DEF LayerInv, Steady, HeadIsAtWork, SaveOnlySaves
  <1>7. MeetingsSeen'
    BY <1>1 DEF LayerInv, MeetingsSeen, BusyWith
  <1>8. \A u \in Sound' : Safe(u)'
    BY <1>1 DEF LayerInv, Sound, Safe
  <1> QED
    BY <1>4, <1>6, <1>7, <1>8 DEF LayerInv, Steady

LEMMA ExpireKeeps ==
  ASSUME LayerInv, NEW t \in Tiles, Expire(t)
  PROVE  LayerInv'
  <1>1. /\ cached' = cached \ {t}
        /\ UNCHANGED <<queue, actor, mem, pending, disk, set, writes,
                       excused, met>>
    BY DEF Expire
  <1>2. LayerTypeOK'
    BY <1>1 DEF LayerInv, Steady, LayerTypeOK
  <1>3. HeadIsAtWork' /\ SaveOnlySaves' /\ MeetingsSeen'
    BY <1>1 DEF LayerInv, Steady, HeadIsAtWork, SaveOnlySaves, MeetingsSeen,
                BusyWith
  <1>4. \A u \in Sound' : Safe(u)'
    BY <1>1 DEF LayerInv, Sound, Safe
  <1> QED
    BY <1>2, <1>3, <1>4 DEF LayerInv, Steady

LEMMA TakeKeeps ==
  ASSUME LayerInv, Take
  PROVE  LayerInv'
  <1>1. PICK t \in Tiles : t = Head(queue)[1]
    BY DEF Take, LayerInv, Steady, LayerTypeOK
  <1> DEFINE r == [actor["chain"] EXCEPT !.at = "access", !.tile = t]
  <1>2. /\ actor["chain"].at = "idle" /\ queue # <<>>
        /\ Go("chain", r) /\ Meet("chain", t)
        /\ UNCHANGED <<queue, mem, cached, pending, disk, set, writes,
                       excused>>
    BY <1>1 DEF Take
  <1>3. "chain" \in Actors /\ "save" \in Actors /\ "chain" # "save"
    BY DEF Actors
  <1>4. r \in Locals /\ r.at = "access" /\ r.tile = t
    BY <1>3 DEF LayerInv, Steady, LayerTypeOK, Locals
  <1> HIDE DEF r
  <1>5. /\ actor' \in [Actors -> Locals] /\ actor'["chain"] = r
        /\ \A b \in Actors : b # "chain" => actor'[b] = actor[b]
    BY <1>2, <1>3, <1>4, GoStep DEF LayerInv, Steady
  <1>6. \A u \in Tiles : u # t => BusyWith(u)' \subseteq BusyWith(u)
    BY <1>2, <1>4, <1>5 DEF BusyWith, Actors
  <1>7. BusyWith(t)' \subseteq BusyWith(t) \cup {"chain"}
    BY <1>5 DEF BusyWith, Actors
  <1>8. MeetingsSeen' /\ met \subseteq met' /\ met' \subseteq Tiles
    <2>1. MeetingsSeen' /\ met \subseteq met'
      BY <1>2, <1>3, <1>6, <1>7, MeetIsSeen DEF LayerInv
    <2> QED
      BY <2>1, <1>2 DEF Meet, LayerInv, Steady, LayerTypeOK
  <1>9. LayerTypeOK'
    BY <1>2, <1>5, <1>8 DEF LayerInv, Steady, LayerTypeOK, Locals
  <1>10. HeadIsAtWork'
    BY <1>1, <1>2, <1>4, <1>5 DEF HeadIsAtWork
  <1>11. SaveOnlySaves'
    BY <1>3, <1>5 DEF LayerInv, Steady, SaveOnlySaves
  <1>12. \A u \in Sound' : Safe(u)'
    <2> SUFFICES ASSUME NEW u \in Sound' PROVE Safe(u)'
      OBVIOUS
    <2>1. u \in Sound
      BY <1>2, <1>8 DEF Sound
    <2>2. Safe(u)
      BY <2>1 DEF LayerInv
    <2> QED
      BY <2>2, <1>2, <1>3, <1>4, <1>5 DEF Safe, Actors
  <1> QED
    BY <1>8, <1>9, <1>10, <1>11, <1>12 DEF LayerInv, Steady

(* A step of one actor that takes no tile up.                              *)
LEMMA GoOnStep ==
  ASSUME LayerInv, NEW a \in Actors,
         NEW step \in {"idle", "access", "admit", "put", "pick", "write",
                      "forget"},
         GoOn(a, step)
  PROVE  /\ actor' \in [Actors -> Locals]
         /\ actor'[a].at = step
         /\ actor'[a].tile = actor[a].tile
         /\ actor'[a].saving = actor[a].saving
         /\ actor'[a].todo = actor[a].todo
         /\ actor'[a].bytes = actor[a].bytes
         /\ \A b \in Actors : b # a => actor'[b] = actor[b]
  <1> DEFINE r == [actor[a] EXCEPT !.at = step]
  <1>1. /\ r \in Locals /\ r.at = step /\ r.tile = actor[a].tile
        /\ r.saving = actor[a].saving /\ r.todo = actor[a].todo
        /\ r.bytes = actor[a].bytes
    BY DEF LayerInv, Steady, LayerTypeOK, Locals
  <1>2. Go(a, r)
    BY DEF GoOn
  <1> HIDE DEF r
  <1> QED
    BY <1>1, <1>2, GoStep DEF LayerInv, Steady

LEMMA GoSaveStep ==
  ASSUME LayerInv, NEW a \in Actors, GoSave(a)
  PROVE  /\ actor' \in [Actors -> Locals]
         /\ actor'[a].at = "pick"
         /\ actor'[a].tile = actor[a].tile
         /\ actor'[a].saving = actor[a].saving
         /\ \A b \in Actors : b # a => actor'[b] = actor[b]
  <1> DEFINE r == [actor[a] EXCEPT !.at = "pick", !.todo = pending]
  <1>1. /\ r \in Locals /\ r.at = "pick" /\ r.tile = actor[a].tile
        /\ r.saving = actor[a].saving
    BY DEF LayerInv, Steady, LayerTypeOK, Locals
  <1>2. Go(a, r)
    BY DEF GoSave
  <1> HIDE DEF r
  <1> QED
    BY <1>1, <1>2, GoStep DEF LayerInv, Steady

LEMMA AccessKeeps ==
  ASSUME LayerInv, Access
  PROVE  LayerInv'
  <1> DEFINE t == actor["chain"].tile
  <1>1. "chain" \in Actors /\ "save" \in Actors /\ "chain" # "save"
    BY DEF Actors
  <1>2. /\ actor["chain"].at = "access" /\ GoOn("chain", "admit")
        /\ UNCHANGED <<queue, pending, disk, set, writes>>
    BY DEF Access
  <1>3. /\ actor' \in [Actors -> Locals]
        /\ actor'["chain"].at = "admit" /\ actor'["chain"].tile = t
        /\ actor'["chain"].saving = actor["chain"].saving
        /\ \A b \in Actors : b # "chain" => actor'[b] = actor[b]
    BY <1>1, <1>2, GoOnStep
  <1>4. t \in Tiles /\ disk[t] \subseteq Writes
    BY <1>1 DEF LayerInv, Steady, LayerTypeOK
  <1>5. /\ mem' \in [Tiles -> SUBSET Writes]
        /\ cached' \subseteq Tiles /\ excused' \subseteq Tiles
        /\ met \subseteq met' /\ met' \subseteq Tiles
    BY <1>4 DEF Access, Anew, LayerInv, Steady, LayerTypeOK
  <1>6. LayerTypeOK'
    BY <1>2, <1>3, <1>5 DEF LayerInv, Steady, LayerTypeOK, Locals
  <1>7. HeadIsAtWork' /\ SaveOnlySaves'
    BY <1>1, <1>2, <1>3 DEF LayerInv, Steady, HeadIsAtWork, SaveOnlySaves
  <1>8. MeetingsSeen'
    <2>1. \A u \in Tiles : BusyWith(u)' \subseteq BusyWith(u)
      BY <1>1, <1>2, <1>3 DEF BusyWith, Actors
    <2> QED
      BY <2>1, <1>5, NobodyMeets DEF LayerInv
  <1>9. ASSUME NEW u \in Sound'
        PROVE  Safe(u)'
    <2>1. excused \subseteq excused'
      BY DEF Access
    <2>2. u \in Sound /\ Safe(u)
      BY <2>1, <1>2, <1>5 DEF Sound, LayerInv
    <2>3. set[u] \subseteq mem'[u]
      <3>1. u \in Tiles /\ u \notin excused'
        BY <1>9 DEF Sound
      <3>2. CASE mem'[u] = mem[u]
        BY <2>2, <3>2 DEF Safe
      <3>3. CASE /\ t \notin pending \cup cached /\ u = t
                 /\ mem' = [mem EXCEPT ![t] = disk[t]]
        BY <2>2, <3>1, <3>3 DEF Safe, LayerInv, Steady, LayerTypeOK
      <3> QED
        BY <3>1, <3>2, <3>3 DEF Access, LayerInv, Steady, LayerTypeOK
    <2> QED
      BY <2>2, <2>3, <1>1, <1>2, <1>3 DEF Safe, Actors
  <1> QED
    BY <1>6, <1>7, <1>8, <1>9 DEF LayerInv, Steady

LEMMA AdmitKeeps ==
  ASSUME LayerInv, Admit
  PROVE  LayerInv'
  <1> DEFINE t == actor["chain"].tile
  <1>1. "chain" \in Actors /\ "save" \in Actors /\ "chain" # "save"
    BY DEF Actors
  <1>2. /\ actor["chain"].at = "admit"
        /\ UNCHANGED <<queue, mem, cached, disk, set, writes, excused, met>>
    BY DEF Admit
  <1>3. /\ actor' \in [Actors -> Locals]
        /\ actor'["chain"].at \in {"pick", "put"}
        /\ actor'["chain"].tile = t
        /\ actor'["chain"].saving = actor["chain"].saving
        /\ \A b \in Actors : b # "chain" => actor'[b] = actor[b]
    <2>1. CASE GoSave("chain")
      BY <2>1, <1>1, GoSaveStep
    <2>2. CASE GoOn("chain", "put")
      BY <2>2, <1>1, GoOnStep
    <2> QED
      BY <2>1, <2>2 DEF Admit
  <1>4. t \in Tiles
    BY <1>1 DEF LayerInv, Steady, LayerTypeOK
  <1>5. /\ pending \subseteq pending' /\ pending' \subseteq Tiles
        /\ actor'["chain"].at = "put" => t \in pending'
    <2>1. CASE GoSave("chain") /\ UNCHANGED pending
      BY <2>1, <1>1, GoSaveStep DEF LayerInv, Steady, LayerTypeOK
    <2>2. CASE pending' = pending \cup {t}
      BY <2>2, <1>4 DEF LayerInv, Steady, LayerTypeOK
    <2> QED
      BY <2>1, <2>2 DEF Admit
  <1>6. Cardinality(pending') <= MaxPending
    <2>1. CASE UNCHANGED pending
      BY <2>1 DEF LayerInv, Steady, LayerTypeOK
    <2>2. CASE /\ pending' = pending \cup {t}
               /\ ~(Cardinality(pending) >= MaxPending)
      <3>1. IsFiniteSet(pending) /\ Cardinality(pending) \in Nat
        BY PendingFinite DEF LayerInv, Steady
      <3>2. \/ Cardinality(pending \cup {t}) = Cardinality(pending)
            \/ Cardinality(pending \cup {t}) = Cardinality(pending) + 1
        BY <3>1, FS_AddElement
      <3> QED
        BY <2>2, <3>1, <3>2, LowresAssumption
    <2> QED
      BY <2>1, <2>2 DEF Admit
  <1>7. LayerTypeOK'
    BY <1>2, <1>3, <1>5, <1>6 DEF LayerInv, Steady, LayerTypeOK, Locals
  <1>8. HeadIsAtWork' /\ SaveOnlySaves'
    BY <1>1, <1>2, <1>3 DEF LayerInv, Steady, HeadIsAtWork, SaveOnlySaves
  <1>9. MeetingsSeen'
    <2>1. \A u \in Tiles : BusyWith(u)' \subseteq BusyWith(u)
      BY <1>1, <1>2, <1>3 DEF BusyWith, Actors
    <2> QED
      BY <2>1, <1>2, NobodyMeets DEF LayerInv
  <1>10. ASSUME NEW u \in Sound'
         PROVE  Safe(u)'
    <2>1. Safe(u)
      BY <1>2 DEF Sound, LayerInv
    <2> QED
      BY <2>1, <1>1, <1>2, <1>3, <1>5 DEF Safe, Actors
  <1> QED
    BY <1>7, <1>8, <1>9, <1>10 DEF LayerInv, Steady

LEMMA ApplyKeeps ==
  ASSUME LayerInv, Apply
  PROVE  LayerInv'
  <1>1. "chain" \in Actors /\ "save" \in Actors /\ "chain" # "save"
    BY DEF Actors
  <1>2. PICK t \in Tiles, w \in Writes :
          t = Head(queue)[1] /\ w = Head(queue)[2]
    BY <1>1 DEF Apply, LayerInv, Steady, LayerTypeOK, HeadIsAtWork
  <1>3. /\ actor["chain"].at = "put" /\ actor["chain"].tile = t
        /\ queue # <<>>
    BY <1>2 DEF Apply, LayerInv, Steady, HeadIsAtWork
  <1>4. /\ mem' = [mem EXCEPT ![t] = @ \cup {w}]
        /\ set' = [set EXCEPT ![t] = @ \cup {w}]
        /\ queue' = Tail(queue) /\ Go("chain", Resting)
        /\ UNCHANGED <<cached, pending, disk, writes, excused, met>>
    BY <1>2 DEF Apply
  <1>5. /\ actor' \in [Actors -> Locals] /\ actor'["chain"].at = "idle"
        /\ actor'["save"] = actor["save"]
    BY <1>1, <1>4, RestingIsLocals, GoStep DEF LayerInv, Steady
  <1>6. queue' \in Seq(Tiles \X Writes)
    BY <1>3, <1>4 DEF LayerInv, Steady, LayerTypeOK
  <1>7. mem' \in [Tiles -> SUBSET Writes] /\ set' \in [Tiles -> SUBSET Writes]
    BY <1>4 DEF LayerInv, Steady, LayerTypeOK
  <1>8. LayerTypeOK'
    BY <1>4, <1>5, <1>6, <1>7 DEF LayerInv, Steady, LayerTypeOK, Locals
  <1>9. HeadIsAtWork' /\ SaveOnlySaves'
    BY <1>5 DEF LayerInv, Steady, HeadIsAtWork, SaveOnlySaves
  <1>10. MeetingsSeen'
    <2>1. \A u \in Tiles : BusyWith(u)' \subseteq BusyWith(u)
      BY <1>5 DEF BusyWith, Actors
    <2> QED
      BY <2>1, <1>4, NobodyMeets DEF LayerInv
  <1>11. ASSUME NEW u \in Sound'
         PROVE  Safe(u)'
    <2>1. u \in Sound /\ u \in Tiles /\ u \notin met /\ Safe(u)
      BY <1>4, <1>11 DEF Sound, LayerInv
    <2>2. CASE u # t
      <3>1. mem'[u] = mem[u] /\ set'[u] = set[u]
        BY <2>1, <2>2, <1>4 DEF LayerInv, Steady, LayerTypeOK
      <3> QED
        BY <2>1, <3>1, <1>4, <1>5 DEF Safe, Actors
    <2>3. CASE u = t
      <3>1. /\ mem'[u] = mem[u] \cup {w} /\ set'[u] = set[u] \cup {w}
            /\ u \in pending'
        BY <2>1, <2>3, <1>2, <1>3, <1>4
           DEF Safe, LayerInv, Steady, LayerTypeOK
      <3>2. "chain" \in BusyWith(u)
        BY <2>3, <1>1, <1>3 DEF BusyWith
      <3>3. "save" \notin BusyWith(u)
        BY <2>1, <3>2 DEF LayerInv, MeetingsSeen, BusyWith, Actors
      <3>4. ~(/\ actor["save"].at \in {"write", "forget"}
              /\ actor["save"].saving = u)
        BY <3>3, <1>1 DEF BusyWith
      <3> QED
        BY <2>1, <3>1, <3>4, <1>5 DEF Safe, Actors
    <2> QED
      BY <2>2, <2>3
  <1> QED
    BY <1>8, <1>9, <1>10, <1>11 DEF LayerInv, Steady
------------------------------------------------------------------------------
LEMMA SaveKeeps ==
  ASSUME LayerInv, Save
  PROVE  LayerInv'
  <1>1. "chain" \in Actors /\ "save" \in Actors /\ "chain" # "save"
    BY DEF Actors
  <1>2. /\ GoSave("save")
        /\ UNCHANGED <<queue, mem, cached, pending, disk, set, writes,
                       excused, met>>
    BY DEF Save
  <1>3. /\ actor' \in [Actors -> Locals] /\ actor'["save"].at = "pick"
        /\ \A b \in Actors : b # "save" => actor'[b] = actor[b]
    BY <1>1, <1>2, GoSaveStep
  <1>4. LayerTypeOK'
    BY <1>2, <1>3 DEF LayerInv, Steady, LayerTypeOK, Locals
  <1>5. HeadIsAtWork' /\ SaveOnlySaves'
    BY <1>1, <1>2, <1>3 DEF LayerInv, Steady, HeadIsAtWork, SaveOnlySaves
  <1>6. MeetingsSeen'
    <2>1. \A u \in Tiles : BusyWith(u)' \subseteq BusyWith(u)
      BY <1>1, <1>3 DEF BusyWith, Actors
    <2> QED
      BY <2>1, <1>2, NobodyMeets DEF LayerInv
  <1>7. ASSUME NEW u \in Sound'
        PROVE  Safe(u)'
    <2>1. Safe(u)
      BY <1>2 DEF Sound, LayerInv
    <2> QED
      BY <2>1, <1>1, <1>2, <1>3 DEF Safe, Actors
  <1> QED
    BY <1>4, <1>5, <1>6, <1>7 DEF LayerInv, Steady

LEMMA PickKeeps ==
  ASSUME LayerInv, NEW a \in Actors, Pick(a)
  PROVE  LayerInv'
  <1>1. PICK t \in actor[a].todo :
          /\ Go(a, [actor[a] EXCEPT !.at = "write", !.todo = @ \ {t},
                                    !.saving = t, !.bytes = mem[t]])
          /\ Meet(a, t)
    BY DEF Pick
  <1>2. /\ actor[a].at = "pick"
        /\ UNCHANGED <<queue, mem, cached, pending, disk, set, writes,
                       excused>>
    BY DEF Pick
  <1> DEFINE r == [actor[a] EXCEPT !.at = "write", !.todo = @ \ {t},
                                   !.saving = t, !.bytes = mem[t]]
  <1>3. t \in Tiles /\ mem[t] \subseteq Writes
    BY <1>1 DEF LayerInv, Steady, LayerTypeOK
  <1>4. /\ r \in Locals /\ r.at = "write" /\ r.saving = t
        /\ r.bytes = mem[t] /\ r.tile = actor[a].tile
    BY <1>3 DEF LayerInv, Steady, LayerTypeOK, Locals
  <1>5. Go(a, r)
    BY <1>1
  <1> HIDE DEF r
  <1>6. /\ actor' \in [Actors -> Locals] /\ actor'[a] = r
        /\ \A b \in Actors : b # a => actor'[b] = actor[b]
    BY <1>4, <1>5, GoStep DEF LayerInv, Steady
  <1>7. \A u \in Tiles : u # t => BusyWith(u)' \subseteq BusyWith(u)
    BY <1>2, <1>4, <1>6 DEF BusyWith
  <1>8. BusyWith(t)' \subseteq BusyWith(t) \cup {a}
    BY <1>6 DEF BusyWith
  <1>9. MeetingsSeen' /\ met \subseteq met' /\ met' \subseteq Tiles
    <2>1. MeetingsSeen' /\ met \subseteq met'
      BY <1>1, <1>3, <1>7, <1>8, MeetIsSeen DEF LayerInv
    <2> QED
      BY <2>1, <1>1, <1>3 DEF Meet, LayerInv, Steady, LayerTypeOK
  <1>10. LayerTypeOK'
    BY <1>2, <1>6, <1>9 DEF LayerInv, Steady, LayerTypeOK, Locals
  <1>11. HeadIsAtWork' /\ SaveOnlySaves'
    <2>1. "chain" \in Actors /\ "save" \in Actors /\ "chain" # "save"
      BY DEF Actors
    <2>2. actor'["chain"].tile = actor["chain"].tile
      BY <2>1, <1>4, <1>6
    <2>3. actor'["chain"].at # "idle" => actor["chain"].at # "idle"
      BY <2>1, <1>2, <1>6
    <2> QED
      BY <2>1, <2>2, <2>3, <1>2, <1>4, <1>6
         DEF LayerInv, Steady, HeadIsAtWork, SaveOnlySaves
  <1>12. ASSUME NEW u \in Sound'
         PROVE  Safe(u)'
    <2>1. u \in Sound /\ Safe(u)
      BY <1>2, <1>9 DEF Sound, LayerInv
    <2>2. \A b \in Actors : actor'[b].saving = u =>
            /\ actor'[b].at = "write" => set[u] \subseteq actor'[b].bytes
            /\ actor'[b].at = "forget" => set[u] \subseteq disk[u]
      BY <2>1, <1>4, <1>6 DEF Safe
    <2>3. actor'["chain"].at = "put" /\ actor'["chain"].tile = u
            => u \in pending
      BY <2>1, <1>4, <1>6 DEF Safe, Actors
    <2> QED
      BY <2>1, <2>2, <2>3, <1>2 DEF Safe, Actors
  <1> QED
    BY <1>9, <1>10, <1>11, <1>12 DEF LayerInv, Steady

LEMMA WriteKeeps ==
  ASSUME LayerInv, NEW a \in Actors, Write(a)
  PROVE  LayerInv'
  <1> DEFINE t == actor[a].saving
  <1>1. "chain" \in Actors /\ "save" \in Actors /\ "chain" # "save"
    BY DEF Actors
  <1>2. /\ actor[a].at = "write" /\ t \in Tiles
        /\ UNCHANGED <<queue, mem, cached, pending, set, writes, excused, met>>
    BY DEF Write, LayerInv, Steady, LayerTypeOK
  <1>3. /\ actor' \in [Actors -> Locals]
        /\ actor'[a].at \in {"pick", "forget"}
        /\ actor'[a].tile = actor[a].tile /\ actor'[a].saving = t
        /\ \A b \in Actors : b # a => actor'[b] = actor[b]
    BY GoOnStep DEF Write
  <1>4. \/ disk' = [disk EXCEPT ![t] = actor[a].bytes]
        \/ disk' = disk /\ actor'[a].at = "pick"
    BY GoOnStep DEF Write
  <1>5. disk' \in [Tiles -> SUBSET Writes]
    BY <1>4 DEF LayerInv, Steady, LayerTypeOK
  <1>6. LayerTypeOK'
    BY <1>2, <1>3, <1>5 DEF LayerInv, Steady, LayerTypeOK, Locals
  <1>7. HeadIsAtWork' /\ SaveOnlySaves'
    <2>1. actor'["chain"].tile = actor["chain"].tile
      BY <1>1, <1>3
    <2>2. actor'["chain"].at # "idle" => actor["chain"].at # "idle"
      BY <1>1, <1>2, <1>3
    <2>3. actor'["save"].at \in {"idle", "pick", "write", "forget"}
      BY <1>1, <1>3 DEF LayerInv, Steady, SaveOnlySaves
    <2> QED
      BY <2>1, <2>2, <2>3, <1>2
         DEF LayerInv, Steady, HeadIsAtWork, SaveOnlySaves
  <1>8. MeetingsSeen'
    <2>1. \A u \in Tiles : BusyWith(u)' \subseteq BusyWith(u)
      BY <1>2, <1>3 DEF BusyWith
    <2> QED
      BY <2>1, <1>2, NobodyMeets DEF LayerInv
  <1>9. ASSUME NEW u \in Sound'
        PROVE  Safe(u)'
    <2>1. u \in Tiles /\ u \in Sound /\ Safe(u)
      BY <1>2, <1>9 DEF Sound, LayerInv
    <2>2. disk'[u] = disk[u] \/ set[u] \subseteq disk'[u]
      BY <2>1, <1>2, <1>4 DEF Safe, LayerInv, Steady, LayerTypeOK
    <2>3. actor'[a].at = "forget" /\ t = u => set[u] \subseteq disk'[u]
      BY <2>1, <1>2, <1>4 DEF Safe, LayerInv, Steady, LayerTypeOK
    <2>4. \A b \in Actors : actor'[b].saving = u =>
            /\ actor'[b].at = "write" => set[u] \subseteq actor'[b].bytes
            /\ actor'[b].at = "forget" => set[u] \subseteq disk'[u]
      BY <2>1, <2>2, <2>3, <1>3 DEF Safe
    <2>5. actor'["chain"].at = "put" /\ actor'["chain"].tile = u
            => u \in pending
      BY <2>1, <1>1, <1>3 DEF Safe
    <2>6. u \in pending \/ set[u] \subseteq disk'[u]
      BY <2>1, <2>2 DEF Safe
    <2> QED
      BY <2>1, <2>4, <2>5, <2>6, <1>2 DEF Safe, Actors
  <1> QED
    BY <1>6, <1>7, <1>8, <1>9 DEF LayerInv, Steady

LEMMA ForgetKeeps ==
  ASSUME LayerInv, NEW a \in Actors, Forget(a)
  PROVE  LayerInv'
  <1> DEFINE t == actor[a].saving
  <1>1. "chain" \in Actors /\ "save" \in Actors /\ "chain" # "save"
    BY DEF Actors
  <1>2. /\ actor[a].at = "forget" /\ t \in Tiles
        /\ pending' = pending \ {t}
        /\ UNCHANGED <<queue, mem, cached, disk, set, writes, excused, met>>
    BY DEF Forget, LayerInv, Steady, LayerTypeOK
  <1>3. /\ actor' \in [Actors -> Locals]
        /\ actor'[a].at = "pick"
        /\ actor'[a].tile = actor[a].tile
        /\ \A b \in Actors : b # a => actor'[b] = actor[b]
    BY GoOnStep DEF Forget
  <1>4. Cardinality(pending') <= MaxPending
    <2>1. IsFiniteSet(pending) /\ Cardinality(pending) \in Nat
      BY PendingFinite DEF LayerInv, Steady
    <2>2. /\ Cardinality(pending') \in Nat
          /\ Cardinality(pending') <= Cardinality(pending)
      BY <1>2, <2>1, FS_Subset, FS_CardinalityType
    <2> QED
      BY <2>1, <2>2, LowresAssumption DEF LayerInv, Steady, LayerTypeOK
  <1>5. LayerTypeOK'
    BY <1>2, <1>3, <1>4 DEF LayerInv, Steady, LayerTypeOK, Locals
  <1>6. HeadIsAtWork' /\ SaveOnlySaves'
    <2>1. actor'["chain"].tile = actor["chain"].tile
      BY <1>1, <1>3
    <2>2. actor'["chain"].at # "idle" => actor["chain"].at # "idle"
      BY <1>1, <1>2, <1>3
    <2>3. actor'["save"].at \in {"idle", "pick", "write", "forget"}
      BY <1>1, <1>3 DEF LayerInv, Steady, SaveOnlySaves
    <2> QED
      BY <2>1, <2>2, <2>3, <1>2
         DEF LayerInv, Steady, HeadIsAtWork, SaveOnlySaves
  <1>7. MeetingsSeen'
    <2>1. \A u \in Tiles : BusyWith(u)' \subseteq BusyWith(u)
      BY <1>2, <1>3 DEF BusyWith
    <2> QED
      BY <2>1, <1>2, NobodyMeets DEF LayerInv
  <1>8. ASSUME NEW u \in Sound'
        PROVE  Safe(u)'
    <2>1. u \in Sound /\ u \in Tiles /\ u \notin met /\ Safe(u)
      BY <1>2, <1>8 DEF Sound, LayerInv
    <2>2. u \in pending' \/ set[u] \subseteq disk[u]
      BY <2>1, <1>2 DEF Safe
    <2>3. ASSUME actor'["chain"].at = "put", actor'["chain"].tile = u
          PROVE  u \in pending'
      <3>1. a = "save" /\ actor["chain"].at = "put" /\ actor["chain"].tile = u
        BY <2>3, <1>1, <1>3 DEF Actors
      <3>2. u \in pending
        BY <2>1, <3>1 DEF Safe
      <3>3. CASE u = t
        <4>1. "chain" \in BusyWith(u) /\ "save" \in BusyWith(u)
          BY <1>1, <1>2, <3>1, <3>3 DEF BusyWith
        <4>2. BusyWith(u) = Actors
          BY <4>1 DEF BusyWith, Actors
        <4> QED
          BY <4>2, <2>1 DEF LayerInv, MeetingsSeen
      <3> QED
        BY <3>2, <3>3, <1>2
    <2>4. \A b \in Actors : actor'[b].saving = u =>
            /\ actor'[b].at = "write" => set[u] \subseteq actor'[b].bytes
            /\ actor'[b].at = "forget" => set[u] \subseteq disk[u]
      BY <2>1, <1>3 DEF Safe
    <2> QED
      BY <2>1, <2>2, <2>3, <2>4, <1>2 DEF Safe, Actors
  <1> QED
    BY <1>5, <1>6, <1>7, <1>8 DEF LayerInv, Steady

LEMMA EndSaveKeeps ==
  ASSUME LayerInv, NEW a \in Actors, EndSave(a)
  PROVE  LayerInv'
  <1>1. "chain" \in Actors /\ "save" \in Actors /\ "chain" # "save"
    BY DEF Actors
  <1>2. /\ actor[a].at = "pick"
        /\ UNCHANGED <<queue, mem, cached, disk, set, writes, met>>
    BY DEF EndSave
  <1>3. /\ actor' \in [Actors -> Locals]
        /\ actor'[a].at = IF a = "chain" THEN "put" ELSE "idle"
        /\ a = "chain" => actor'[a].tile = actor[a].tile
        /\ \A b \in Actors : b # a => actor'[b] = actor[b]
    <2>1. CASE a = "chain"
      BY <2>1, GoOnStep DEF EndSave, Resume
    <2>2. CASE a # "chain"
      BY <2>2, RestingIsLocals, GoStep DEF EndSave, Resume, LayerInv, Steady
    <2> QED
      BY <2>1, <2>2
  <1>4. Admitted(a) \subseteq Tiles /\ Admitted(a) \subseteq {actor[a].tile}
    BY DEF Admitted, LayerInv, Steady, LayerTypeOK
  <1>5. /\ pending' \subseteq Tiles /\ excused' \subseteq Tiles
        /\ Admitted(a) \subseteq pending' /\ excused \subseteq excused'
        /\ \A u \in pending : u \in pending' \/ u \in excused'
    BY <1>4 DEF EndSave, LayerInv, Steady, LayerTypeOK
  <1>6. Cardinality(pending') <= MaxPending
    <2>1. IsFiniteSet(pending) /\ Cardinality(pending) \in Nat
      BY PendingFinite DEF LayerInv, Steady
    <2>2. CASE pending' = Admitted(a)
      <3>1. CASE pending' = {}
        BY <3>1, FS_EmptySet, LowresAssumption
      <3>2. CASE pending' = {actor[a].tile}
        <4>1. Cardinality(pending') = 1
          BY <3>2, FS_Singleton
        <4> QED
          BY <4>1, LowresAssumption
      <3> QED
        BY <2>2, <3>1, <3>2 DEF Admitted
    <2>3. CASE /\ ~(Cardinality(pending) >= DiscardThreshold)
               /\ pending' = pending \cup Admitted(a)
      <3>1. CASE Admitted(a) = {}
        BY <2>3, <3>1 DEF LayerInv, Steady, LayerTypeOK
      <3>2. CASE Admitted(a) = {actor[a].tile}
        <4>1. \/ Cardinality(pending') = Cardinality(pending)
              \/ Cardinality(pending') = Cardinality(pending) + 1
          BY <2>1, <2>3, <3>2, FS_AddElement
        <4> QED
          BY <2>1, <2>3, <4>1, LowresAssumption
      <3> QED
        BY <3>1, <3>2 DEF Admitted
    <2> QED
      BY <2>2, <2>3 DEF EndSave
  <1>7. LayerTypeOK'
    BY <1>2, <1>3, <1>5, <1>6 DEF LayerInv, Steady, LayerTypeOK, Locals
  <1>8. HeadIsAtWork' /\ SaveOnlySaves'
    <2>1. actor'["chain"].tile = actor["chain"].tile
      BY <1>1, <1>3 DEF Actors
    <2>2. actor'["chain"].at # "idle" => actor["chain"].at # "idle"
      BY <1>1, <1>2, <1>3 DEF Actors
    <2>3. actor'["save"].at \in {"idle", "pick", "write", "forget"}
      BY <1>1, <1>3 DEF LayerInv, Steady, SaveOnlySaves, Actors
    <2> QED
      BY <2>1, <2>2, <2>3, <1>2
         DEF LayerInv, Steady, HeadIsAtWork, SaveOnlySaves
  <1>9. MeetingsSeen'
    <2>1. \A u \in Tiles : BusyWith(u)' \subseteq BusyWith(u)
      BY <1>2, <1>3 DEF BusyWith, Actors
    <2> QED
      BY <2>1, <1>2, NobodyMeets DEF LayerInv
  <1>10. ASSUME NEW u \in Sound'
         PROVE  Safe(u)'
    <2>1. /\ u \in Sound /\ u \notin excused' /\ Safe(u)
      BY <1>2, <1>5, <1>10 DEF Sound, LayerInv
    <2>2. u \in pending => u \in pending'
      BY <2>1, <1>5
    <2>3. ASSUME actor'["chain"].at = "put", actor'["chain"].tile = u
          PROVE  u \in pending'
      <3>1. CASE a = "chain"
        BY <3>1, <2>3, <1>3, <1>5 DEF Admitted
      <3>2. CASE a = "save"
        BY <3>2, <2>1, <2>2, <2>3, <1>1, <1>3 DEF Safe
      <3> QED
        BY <3>1, <3>2 DEF Actors
    <2>4. \A b \in Actors : actor'[b].saving = u =>
            /\ actor'[b].at = "write" => set[u] \subseteq actor'[b].bytes
            /\ actor'[b].at = "forget" => set[u] \subseteq disk[u]
      BY <2>1, <1>3 DEF Safe
    <2>5. u \in pending' \/ set[u] \subseteq disk[u]
      BY <2>1, <2>2 DEF Safe
    <2> QED
      BY <2>1, <2>3, <2>4, <2>5, <1>2 DEF Safe, Actors
  <1> QED
    BY <1>7, <1>8, <1>9, <1>10 DEF LayerInv, Steady

LEMMA DiscardKeeps ==
  ASSUME LayerInv, Discard
  PROVE  LayerInv'
  <1>1. /\ actor["chain"].at = "idle"
        /\ pending' = {} /\ cached' = {} /\ excused' = excused \cup pending
        /\ UNCHANGED <<queue, actor, mem, disk, set, writes, met>>
    BY DEF Discard
  <1>2. Cardinality(pending') <= MaxPending
    BY <1>1, FS_EmptySet, LowresAssumption
  <1>3. LayerTypeOK'
    BY <1>1, <1>2 DEF LayerInv, Steady, LayerTypeOK
  <1>4. HeadIsAtWork' /\ SaveOnlySaves' /\ MeetingsSeen'
    BY <1>1 DEF LayerInv, Steady, HeadIsAtWork, SaveOnlySaves, MeetingsSeen,
                BusyWith
  <1>5. ASSUME NEW u \in Sound'
        PROVE  Safe(u)'
    <2>1. u \in Sound /\ u \notin pending /\ Safe(u)
      BY <1>1, <1>5 DEF Sound, LayerInv
    <2> QED
      BY <2>1, <1>1 DEF Safe
  <1> QED
    BY <1>3, <1>4, <1>5 DEF LayerInv, Steady
------------------------------------------------------------------------------
LEMMA LayerNextKeeps ==
  ASSUME LayerInv, [LayerNext]_layerVars
  PROVE  LayerInv'
  <1>1. CASE UNCHANGED layerVars
    BY <1>1 DEF layerVars, LayerInv, Steady, LayerTypeOK, HeadIsAtWork,
                SaveOnlySaves, MeetingsSeen, BusyWith, Sound, Safe
  <1>2. CASE \E t \in Tiles : Render(t) \/ Expire(t)
    BY <1>2, RenderKeeps, ExpireKeeps
  <1>3. CASE Take \/ Access \/ Admit \/ Apply
    BY <1>3, TakeKeeps, AccessKeeps, AdmitKeeps, ApplyKeeps
  <1>4. CASE Save \/ Discard
    BY <1>4, SaveKeeps, DiscardKeeps
  <1>5. CASE \E a \in Actors : Pick(a) \/ Write(a) \/ Forget(a) \/ EndSave(a)
    BY <1>5, PickKeeps, WriteKeeps, ForgetKeeps, EndSaveKeeps
  <1> QED
    BY <1>1, <1>2, <1>3, <1>4, <1>5 DEF LayerNext

(* The layer keeps its types, MAX_PENDING included: however many tiles are *)
(* written to and however many saves fail, no more are pending.            *)
THEOREM LayerTypeCorrect == LayerSpec => []LayerTypeOK
  <1>1. LayerInv => LayerTypeOK
    BY DEF LayerInv, Steady
  <1> QED
    BY <1>1, InitLayer, LayerNextKeeps, PTL DEF LayerSpec

(* A tile that has received a write keeps it pending until the storage has *)
(* it, for every number of tiles, every limit and threshold.               *)
THEOREM WritesCorrect == LayerSpec => []WritesReachStorage
  <1>1. LayerInv => WritesReachStorage
    BY DEF LayerInv, WritesReachStorage, Safe
  <1> QED
    BY <1>1, InitLayer, LayerNextKeeps, PTL DEF LayerSpec
------------------------------------------------------------------------------
(***************************************************************************)
(* An item of the file storage.                                            *)
(***************************************************************************)
(* What each step of a call knows of the call.                             *)
CallsFit ==
  \A c \in Users :
    /\ at[c] = "idle" => call[c] = NoCall
    /\ at[c] \in WriterSteps \cup {"queued"} => call[c].op = "write"
    /\ at[c] \in {"looking", "opening", "reading"} => call[c].op = "read"
    /\ at[c] \in {"finding", "removing"} => call[c].op = "delete"
    /\ at[c] = "looking" => call[c].value = NoFile
    /\ at[c] \in WriterSteps \cup {"queued"} => call[c].value \in Values
    /\ place[c] # "none" => at[c] \in WriterSteps

(* A writer who met nobody has the part file for himself, and in it what   *)
(* he writes once he has filled it.                                        *)
WriterAlone ==
  ~overlap => /\ \A c, d \in Inside : c = d
          /\ \A c \in Inside :
               /\ place[c] = "part" /\ part # NoFile
               /\ IF at[c] = "open" THEN part = Empty
                                    ELSE part = call[c].value

ItemInv == ItemTypeOK /\ CallsFit /\ WriterAlone /\ PartHasOwner
------------------------------------------------------------------------------
LEMMA NoTries == 0 \in 0..(RenameAttempts - 1)
  BY ItemAssumption

LEMMA ItemInitInv == ItemInit => ItemInv
<1> SUFFICES ASSUME ItemInit PROVE ItemInv
  OBVIOUS
<1>1. ItemTypeOK
  BY NoTries
  DEF ItemInit, ItemTypeOK, FileContents, ItemCalls, NoCall, Steps
<1>2. CallsFit
  BY DEF ItemInit, CallsFit, WriterSteps
<1>3. WriterAlone /\ PartHasOwner
  BY DEF ItemInit, WriterAlone, PartHasOwner, Inside, WriterSteps
<1> QED BY <1>1, <1>2, <1>3 DEF ItemInv

LEMMA ItemTypeStep ==
  ItemTypeOK /\ CallsFit /\ [ItemNext]_itemVars => ItemTypeOK'
<1> SUFFICES ASSUME ItemTypeOK, CallsFit, [ItemNext]_itemVars
             PROVE  ItemTypeOK'
  OBVIOUS
<1> USE ItemAssumption, NoTries
    DEF ItemTypeOK, FileContents, Steps, WriterSteps
<1>1. CASE UNCHANGED itemVars
  BY <1>1 DEF itemVars
<1>2. CASE ItemCrash
  BY <1>2 DEF ItemCrash, NoCall, ItemCalls
<1>3. ASSUME NEW c \in Users, Call(c) PROVE ItemTypeOK'
  BY <1>3 DEF Call, BeginCall, Proceed, ItemCalls
<1>4. ASSUME NEW c \in Users, Step(c) PROVE ItemTypeOK'
  <2> USE DEF Proceed, LetGo
  <2>1. CASE Open(c)
    BY <2>1 DEF Open
  <2>2. CASE Fill(c)
    <3>1. call[c].value \in Values
      BY <2>2 DEF CallsFit, Fill
    <3>2. Laid(part, call[c].value) \subseteq FileContents
      BY <3>1 DEF Laid
    <3>3. Laid(item, call[c].value) \subseteq FileContents
      BY <3>1 DEF Laid
    <3> QED BY <2>2, <3>2, <3>3 DEF Fill
  <2>3. CASE CheckPart(c)
    BY <2>3 DEF CheckPart
  <2>4. CASE Move(c)
    BY <2>4 DEF Move, Followed
  <2>5. CASE MoveDelayed(c)
    BY <2>5 DEF MoveDelayed
  <2>6. CASE Look(c) \/ Find(c) \/ RemoveItem(c)
    BY <2>6 DEF Look, Find, RemoveItem
  <2>10. CASE FindStorage(c) \/ RemoveStorage(c)
    BY <2>10 DEF FindStorage, RemoveStorage
  <2>7. CASE OpenItem(c) \/ Fetch(c)
    <3>1. ASSUME NEW v \in FileContents, call' = [call EXCEPT ![c].value = v]
          PROVE  call' \in [Users -> ItemCalls]
      BY <3>1 DEF ItemCalls
    <3>2. call' \in [Users -> ItemCalls]
      <4>1. call[c].value \in FileContents
        BY DEF ItemCalls
      <4> QED BY <2>7, <3>1, <4>1 DEF OpenItem, Fetch
    <3> QED BY <2>7, <3>2 DEF OpenItem, Fetch
  <2>8. CASE StatFails(c)
    BY <2>8 DEF StatFails, Leaves
  <2>9. CASE ReturnCall(c) \/ Throw(c)
    <3>1. Over(c) /\ abandoned' \in BOOLEAN
      BY <2>9 DEF ReturnCall, Throw, Leaves
    <3>2. overlap' \in BOOLEAN
      BY <3>1 DEF Over
    <3>3. NoCall \in ItemCalls
      BY DEF NoCall, ItemCalls
    <3> QED BY <3>1, <3>2, <3>3 DEF Over
  <2> QED BY <1>4, <2>1, <2>2, <2>3, <2>4, <2>5, <2>6, <2>7, <2>8, <2>9,
             <2>10 DEF Step
<1> QED BY <1>1, <1>2, <1>3, <1>4 DEF ItemNext

LEMMA CallsFitStep ==
  ItemTypeOK /\ CallsFit /\ [ItemNext]_itemVars => CallsFit'
<1> SUFFICES ASSUME ItemTypeOK, CallsFit, [ItemNext]_itemVars
             PROVE  CallsFit'
  OBVIOUS
<1> USE DEF CallsFit, WriterSteps
<1>1. CASE UNCHANGED itemVars
  BY <1>1 DEF itemVars
<1>2. CASE ItemCrash
  BY <1>2 DEF ItemCrash
<1>3. ASSUME NEW c \in Users, Call(c) PROVE CallsFit'
  BY <1>3 DEF Call, BeginCall, Proceed, ItemTypeOK
<1>4. ASSUME NEW c \in Users, Step(c) PROVE CallsFit'
  <2> USE DEF Proceed, LetGo, ItemTypeOK, ItemCalls
  <2>1. CASE Open(c) \/ Fill(c) \/ CheckPart(c) \/ MoveDelayed(c)
    BY <2>1 DEF Open, Fill, CheckPart, MoveDelayed
  <2>4. CASE Move(c)
    BY <2>4 DEF Move, Followed
  <2>6. CASE Look(c) \/ Find(c) \/ RemoveItem(c)
    BY <2>6 DEF Look, Find, RemoveItem
  <2>10. CASE FindStorage(c) \/ RemoveStorage(c)
    BY <2>10 DEF FindStorage, RemoveStorage
  <2>7. CASE OpenItem(c) \/ Fetch(c)
    BY <2>7 DEF OpenItem, Fetch
  <2>9. CASE ReturnCall(c) \/ Throw(c) \/ StatFails(c)
    BY <2>9 DEF ReturnCall, Throw, Over, StatFails
  <2> QED BY <1>4, <2>1, <2>4, <2>6, <2>7, <2>9, <2>10 DEF Step
<1> QED BY <1>1, <1>2, <1>3, <1>4 DEF ItemNext

LEMMA AloneStep ==
  ItemTypeOK /\ CallsFit /\ WriterAlone /\ [ItemNext]_itemVars
    => WriterAlone'
<1> SUFFICES ASSUME ItemTypeOK, CallsFit, WriterAlone, [ItemNext]_itemVars,
                    ~overlap'
             PROVE  WriterAlone'
  BY DEF WriterAlone
<1> USE ItemAssumption DEF WriterAlone, Inside, WriterSteps
<1>1. CASE UNCHANGED itemVars
  BY <1>1 DEF itemVars
<1>2. CASE ItemCrash
  BY <1>2 DEF ItemCrash
<1>3. ASSUME NEW c \in Users, Call(c) PROVE WriterAlone'
  BY <1>3 DEF Call, BeginCall, Proceed, ItemTypeOK
<1>4. ASSUME NEW c \in Users, Step(c) PROVE WriterAlone'
  <2> USE DEF Proceed, LetGo, ItemTypeOK, ItemCalls
  <2>1. CASE Open(c)
    BY <2>1 DEF Open
  <2>2. CASE Fill(c)
    BY <2>2 DEF Fill, Laid, CallsFit
  <2>3. CASE CheckPart(c) \/ MoveDelayed(c)
    BY <2>3 DEF CheckPart, MoveDelayed
  <2>4. CASE Move(c)
    BY <2>4 DEF Move
  <2>6. CASE Look(c) \/ Find(c) \/ RemoveItem(c)
    BY <2>6 DEF Look, Find, RemoveItem, CallsFit
  <2>10. CASE FindStorage(c) \/ RemoveStorage(c)
    BY <2>10 DEF FindStorage, RemoveStorage
  <2>7. CASE OpenItem(c) \/ Fetch(c)
    BY <2>7 DEF OpenItem, Fetch
  <2>8. CASE StatFails(c)
    BY <2>8 DEF StatFails
  <2>9. CASE ReturnCall(c) \/ Throw(c)
    BY <2>9 DEF ReturnCall, Throw, Over
  <2> QED BY <1>4, <2>1, <2>2, <2>3, <2>4, <2>6, <2>7, <2>8, <2>9,
             <2>10 DEF Step
<1> QED BY <1>1, <1>2, <1>3, <1>4 DEF ItemNext

LEMMA OwnerStep ==
  ItemTypeOK /\ CallsFit /\ PartHasOwner /\ [ItemNext]_itemVars
    => PartHasOwner'
<1> SUFFICES ASSUME ItemTypeOK, CallsFit, PartHasOwner, [ItemNext]_itemVars,
                    part' # NoFile, ~abandoned'
             PROVE  \E c \in Inside' : place'[c] = "part"
  BY DEF PartHasOwner
<1> USE DEF PartHasOwner, Inside, WriterSteps
<1>1. CASE UNCHANGED itemVars
  BY <1>1 DEF itemVars
<1>2. CASE ItemCrash
  BY <1>2 DEF ItemCrash
<1>3. ASSUME NEW c \in Users, Call(c)
      PROVE  \E d \in Inside' : place'[d] = "part"
  BY <1>3 DEF Call, BeginCall, Proceed, ItemTypeOK
<1>4. ASSUME NEW c \in Users, Step(c)
      PROVE  \E d \in Inside' : place'[d] = "part"
  <2> USE DEF Proceed, LetGo, ItemTypeOK
  <2>1. CASE Open(c)
    BY <2>1 DEF Open
  <2>2. CASE Fill(c)
    BY <2>2 DEF Fill, CallsFit
  <2>3. CASE CheckPart(c) \/ MoveDelayed(c)
    BY <2>3 DEF CheckPart, MoveDelayed
  <2>4. CASE Move(c)
    BY <2>4 DEF Move
  <2>6. CASE Look(c) \/ Find(c) \/ RemoveItem(c)
    BY <2>6 DEF Look, Find, RemoveItem
  <2>10. CASE FindStorage(c) \/ RemoveStorage(c)
    BY <2>10 DEF FindStorage, RemoveStorage
  <2>7. CASE OpenItem(c) \/ Fetch(c)
    BY <2>7 DEF OpenItem, Fetch
  <2>8. CASE StatFails(c)
    BY <2>8 DEF StatFails, Leaves
  <2>9. CASE ReturnCall(c) \/ Throw(c)
    BY <2>9 DEF ReturnCall, Throw, Over, Leaves, CallsFit
  <2> QED BY <1>4, <2>1, <2>2, <2>3, <2>4, <2>6, <2>7, <2>8, <2>9,
             <2>10 DEF Step
<1> QED BY <1>1, <1>2, <1>3, <1>4 DEF ItemNext
------------------------------------------------------------------------------
LEMMA ItemInvStep == ItemInv /\ [ItemNext]_itemVars => ItemInv'
  BY ItemTypeStep, CallsFitStep, AloneStep, OwnerStep DEF ItemInv

THEOREM ItemInvariance == ItemSpec => []ItemInv
<1> QED BY ItemInitInv, ItemInvStep, PTL DEF ItemSpec

(* The item, its part file and the calls on it keep their types.           *)
THEOREM ItemTypeCorrect == ItemSpec => []ItemTypeOK
<1>1. ItemInv => ItemTypeOK
  BY DEF ItemInv
<1> QED BY <1>1, ItemInvariance, PTL

(* A .filepart that lies there belongs to a writer who will move it, or    *)
(* was left by a failure or a crash, however many writers met on it.       *)
THEOREM PartIsOwned == ItemSpec => []PartHasOwner
<1>1. ItemInv => PartHasOwner
  BY DEF ItemInv
<1> QED BY <1>1, ItemInvariance, PTL
------------------------------------------------------------------------------
(* A step of one call changes what is seen of this call only.              *)
LEMMA SeenChanges ==
  ASSUME NEW c \in Users, NEW r,
         Seen'[c] = r,
         \A d \in Users \ {c} : at'[d] = at[d] /\ call'[d] = call[d]
  PROVE  Seen' = [Seen EXCEPT ![c] = r]
  BY DEF Seen, CallStage

(* A step that leaves the item and what is seen of the calls is a stutter. *)
LEMMA SeenUnchanged ==
  ASSUME \A d \in Users : CallStage(d)' = CallStage(d),
         UNCHANGED <<item, call>>
  PROVE  UNCHANGED Promise!vars
  BY DEF Promise!vars, Seen

(* Every step of an alone call is a step of the promise.                   *)
LEMMA CallKept ==
  ASSUME ItemInv, NEW c \in Users, Call(c)
  PROVE  Promise!Next
<1> USE DEF ItemInv, ItemTypeOK, CallsFit
<1>1. ASSUME NEW op, NEW v, NEW step \in {"queued", "looking", "finding"},
             BeginCall(c, op, v, step)
      PROVE  Promise!Begin(c, op, v)
  <2>1. at[c] = "idle" /\ call[c] = NoCall
    BY <1>1 DEF BeginCall
  <2>2. Seen[c] = Promise!Idle
    BY <2>1 DEF Seen, CallStage, NoCall, Promise!Idle
  <2>3. at'[c] = step /\ call'[c] = [op |-> op, value |-> v]
    BY <1>1 DEF BeginCall, Proceed
  <2>4. Seen'[c] = [op |-> op, value |-> v, stage |-> "called"]
    BY <2>3 DEF Seen, CallStage
  <2>5. \A d \in Users \ {c} : at'[d] = at[d] /\ call'[d] = call[d]
    BY <1>1 DEF BeginCall, Proceed
  <2>6. Seen' = [Seen EXCEPT ![c] = [op |-> op, value |-> v,
                                     stage |-> "called"]]
    BY <2>4, <2>5, SeenChanges
  <2> QED BY <1>1, <2>2, <2>6 DEF BeginCall, Promise!Begin
<1> QED BY <1>1 DEF Call, Promise!Next

LEMMA StepKept ==
  ASSUME ItemInv, ~overlap, NEW c \in Users, Step(c), ~StatFails(c)
  PROVE  [Promise!Next]_(Promise!vars)
<1> USE DEF ItemInv, ItemTypeOK, CallsFit, WriterSteps, Proceed, LetGo
<1> DEFINE Others == \A d \in Users \ {c} :
                       at'[d] = at[d] /\ call'[d] = call[d]
<1>1. ASSUME Seen[c].stage = "called", Others,
             Seen'[c] = [Seen[c] EXCEPT !.stage = "served"],
             \/ Seen[c].op = "write" /\ item' = Seen[c].value
             \/ Seen[c].op = "delete" /\ item' = NoFile
      PROVE  Promise!Next
  <2>1. Seen' = [Seen EXCEPT ![c] = [Seen[c] EXCEPT !.stage = "served"]]
    BY <1>1, SeenChanges
  <2>2. Seen' = [Seen EXCEPT ![c].stage = "served"]
    BY <2>1
  <2> QED BY <1>1, <2>2
          DEF Promise!Next, Promise!Serve, Promise!Written, Promise!Deleted
<1>2. ASSUME Seen[c].stage = "called", Seen[c].op = "read", Others,
             Seen'[c] = [op |-> "read", value |-> item, stage |-> "served"],
             item' = item
      PROVE  Promise!Next
  <2>1. Seen' = [Seen EXCEPT ![c] = [op |-> "read", value |-> item,
                                     stage |-> "served"]]
    BY <1>2, SeenChanges
  <2>2. Seen' = [Seen EXCEPT ![c].stage = "served", ![c].value = item]
    BY <1>2, <2>1 DEF Seen
  <2> QED BY <1>2, <2>2 DEF Promise!Next, Promise!Serve, Promise!Answered
<1>3. CASE Open(c) \/ Fill(c) \/ MoveDelayed(c)
  <2>1. UNCHANGED <<item, call>>
    BY <1>3 DEF Open, Fill, MoveDelayed, WriterAlone, Inside
  <2>2. \A d \in Users : CallStage(d)' = CallStage(d)
    BY <1>3 DEF Open, Fill, MoveDelayed, CallStage
  <2> QED BY <2>1, <2>2, SeenUnchanged
<1>4. CASE CheckPart(c)
  <2>1. part # NoFile
    BY <1>4 DEF CheckPart, WriterAlone, Inside
  <2>2. \A d \in Users : CallStage(d)' = CallStage(d)
    BY <1>4, <2>1 DEF CheckPart, CallStage
  <2> QED BY <1>4, <2>2, SeenUnchanged DEF CheckPart
<1>5. CASE Move(c)
  <2>1. part = call[c].value /\ part # NoFile
    BY <1>5 DEF Move, WriterAlone, Inside
  <2>2. Others /\ at'[c] = "done" /\ call' = call /\ item' = part
    BY <1>5, <2>1 DEF Move
  <2>3. Seen[c].stage = "called" /\ Seen[c].op = "write"
        /\ Seen[c].value = part
    BY <1>5, <2>1 DEF Move, Seen, CallStage
  <2>4. Seen'[c] = [Seen[c] EXCEPT !.stage = "served"]
    BY <2>2 DEF Seen, CallStage
  <2> QED BY <1>1, <2>2, <2>3, <2>4
<1>6. CASE Look(c) \/ OpenItem(c)
  <2>1. Others /\ item' = item
    BY <1>6 DEF Look, OpenItem
  <2>2. Seen[c].stage = "called" /\ Seen[c].op = "read"
    BY <1>6 DEF Look, OpenItem, Seen, CallStage
  <2>3. CASE at'[c] = "opening"
    <3>1. \A d \in Users : CallStage(d)' = CallStage(d)
      BY <1>6, <2>3 DEF Look, OpenItem, CallStage
    <3>2. call' = call
      BY <1>6, <2>3 DEF Look, OpenItem
    <3> QED BY <2>1, <3>1, <3>2, SeenUnchanged
  <2>4. CASE at'[c] \in {"done", "reading"}
    <3>1. call'[c].op = call[c].op /\ call'[c].value = item
      <4>1. CASE Look(c)
        BY <2>4, <4>1 DEF Look
      <4>2. CASE OpenItem(c)
        BY <4>2 DEF OpenItem, ItemCalls
      <4> QED BY <1>6, <4>1, <4>2
    <3>2. call'[c].op = "read"
      BY <2>2, <3>1 DEF Seen
    <3>3. CallStage(c)' = "served"
      BY <2>4 DEF CallStage
    <3>4. Seen'[c] = [op |-> "read", value |-> item, stage |-> "served"]
      BY <3>1, <3>2, <3>3 DEF Seen
    <3> QED BY <1>2, <2>1, <2>2, <3>4
  <2> QED BY <1>6, <2>3, <2>4 DEF Look, OpenItem
<1>7. CASE Fetch(c)
  <2>1. call' = [call EXCEPT ![c].value = call[c].value]
    BY <1>7 DEF Fetch
  <2>2. call' = call
    BY <2>1 DEF ItemCalls
  <2>3. \A d \in Users : CallStage(d)' = CallStage(d)
    BY <1>7 DEF Fetch, CallStage
  <2> QED BY <1>7, <2>2, <2>3, SeenUnchanged DEF Fetch
<1>8. CASE Find(c) \/ FindStorage(c) \/ RemoveItem(c) \/ RemoveStorage(c)
  <2>1. Others /\ call' = call
    BY <1>8 DEF Find, FindStorage, RemoveItem, RemoveStorage
  <2>2. Seen[c].stage = "called" /\ Seen[c].op = "delete"
    BY <1>8 DEF Find, FindStorage, RemoveItem, RemoveStorage, Seen, CallStage
  <2>3. CASE at'[c] = "removing"
    <3>1. \A d \in Users : CallStage(d)' = CallStage(d)
      BY <1>8, <2>3 DEF Find, FindStorage, RemoveItem, RemoveStorage, CallStage
    <3> QED
      BY <1>8, <2>1, <2>3, <3>1, SeenUnchanged
         DEF Find, FindStorage, RemoveItem, RemoveStorage
  <2>4. CASE at'[c] = "done"
    <3>1. item' = NoFile
      BY <1>8, <2>4 DEF Find, FindStorage, RemoveItem, RemoveStorage
    <3>2. Seen'[c] = [Seen[c] EXCEPT !.stage = "served"]
      BY <2>1, <2>4 DEF Seen, CallStage
    <3> QED BY <1>1, <2>1, <2>2, <3>1, <3>2
  <2> QED BY <1>8, <2>3, <2>4 DEF Find, FindStorage, RemoveItem, RemoveStorage
<1>9. CASE ReturnCall(c) \/ Throw(c)
  <2>1. Over(c)
    BY <1>9 DEF ReturnCall, Throw
  <2>2. Others /\ at'[c] = "idle" /\ call'[c] = NoCall /\ item' = item
    BY <2>1 DEF Over
  <2>3. Seen'[c] = Promise!Idle
    BY <2>2 DEF Seen, CallStage, NoCall, Promise!Idle
  <2>4. Seen' = [Seen EXCEPT ![c] = Promise!Idle]
    BY <2>2, <2>3, SeenChanges
  <2>5. CASE ReturnCall(c)
    <3>1. Seen[c].stage = "served"
      BY <2>5 DEF ReturnCall, Seen, CallStage
    <3> QED BY <2>2, <2>4, <3>1 DEF Promise!Next, Promise!Return
  <2>6. CASE Throw(c)
    <3>1. Seen[c].stage = "called" \/ Seen[c].op = "read"
      BY <2>6 DEF Throw, Seen, CallStage
    <3> QED BY <2>2, <2>4, <3>1 DEF Promise!Next, Promise!Fail
  <2> QED BY <1>9, <2>5, <2>6
<1> QED BY <1>3, <1>4, <1>5, <1>6, <1>7, <1>8, <1>9 DEF Step

LEMMA CrashKept ==
  ASSUME ItemCrash PROVE Promise!Next
<1>1. Seen' = [c \in Users |-> Promise!Idle]
  BY DEF ItemCrash, Seen, CallStage, NoCall, Promise!Idle
<1> QED BY <1>1 DEF ItemCrash, Promise!Next, Promise!Crash

(* What the storage promises its clients: but where writes overlap, or a   *)
(* look at a file failed, the item behaves as one that serves every call   *)
(* in a single step, for every set of clients and values, over failures at *)
(* any await and over crashes.                                             *)
THEOREM CallsTakeEffectOnce == ItemSpec => CallsAreAtomic
<1>1. ItemInit => Promise!Init
  <2> SUFFICES ASSUME ItemInit PROVE Promise!Init
    OBVIOUS
  <2>1. Seen = [c \in Users |-> Promise!Idle]
    BY DEF ItemInit, Seen, CallStage, NoCall, Promise!Idle
  <2> QED BY <2>1 DEF ItemInit, Promise!Init
<1>2. ItemInv /\ [ItemNext]_itemVars
        => [\/ overlap
            \/ \E c \in Users : StatFails(c)
            \/ Promise!Next]_(Promise!vars)
  <2> SUFFICES ASSUME ItemInv, [ItemNext]_itemVars, ~overlap,
                      ~\E c \in Users : StatFails(c)
               PROVE  [Promise!Next]_(Promise!vars)
    OBVIOUS
  <2>1. CASE UNCHANGED itemVars
    <3>1. Seen' = Seen
      BY <2>1 DEF itemVars, Seen, CallStage
    <3> QED BY <2>1, <3>1 DEF itemVars, Promise!vars
  <2>2. CASE ItemNext
    BY <2>2, CallKept, StepKept, CrashKept DEF ItemNext
  <2> QED BY <2>1, <2>2
<1> QED BY <1>1, <1>2, ItemInvariance, PTL DEF ItemSpec, CallsAreAtomic
------------------------------------------------------------------------------
(***************************************************************************)
(* The lowres layer over its files.                                        *)
(***************************************************************************)
(* A call of the chain or of a save is one its actor waits for, and nobody *)
(* else writes.                                                            *)
CallsServe ==
  /\ \A a \in Actors : at[a] # "idle" =>
       \/ /\ call[a].op = "write" /\ MustWrite(a)
          /\ call[a].value = actor[a].bytes
       \/ call[a].op = "read" /\ a = "chain" /\ MustRead
  /\ \A c \in Users \ Actors : at[c] # "idle" => call[c].op # "write"

Mirrored == disk[Watched] = Held(item)

OverlapsMeet == overlap => Watched \in met

(* What a call has done by the time it is reported to the layer.           *)
CallsDone ==
  Watched \in Sound =>
    /\ \A a \in Actors : at[a] = "done" /\ call[a].op = "write"
         => set[Watched] \subseteq disk[Watched]
    /\ at["chain"] \in {"reading", "done"} /\ call["chain"].op = "read"
         => set[Watched] \subseteq Held(call["chain"].value)

FilesInv ==
  LayerInv /\ ItemInv /\ CallsServe /\ Mirrored /\ OverlapsMeet /\ CallsDone
------------------------------------------------------------------------------
LEMMA ActorsAreUsers ==
  /\ "chain" \in Actors /\ "save" \in Actors /\ "chain" # "save"
  /\ Actors \subseteq Users /\ Watched \in Tiles
  /\ "web" \in Users \ Actors /\ "purge" \in Users \ Actors
  BY FilesAssumption DEF Actors

LEMMA HeldTypes == \A file : Held(file) \in SUBSET Writes
  BY FilesAssumption DEF Held

(* Whoever writes to the file is an actor that saves the tile, and two of  *)
(* them have met.                                                          *)
LEMMA WriterSaves ==
  ASSUME ItemInv, CallsServe, NEW c \in Users,
         at[c] \in WriterSteps \cup {"queued"}
  PROVE  c \in Actors /\ MustWrite(c) /\ call[c].value = actor[c].bytes
  <1>1. call[c].op = "write" /\ at[c] # "idle"
    BY DEF ItemInv, CallsFit, WriterSteps
  <1> QED
    BY <1>1 DEF CallsServe

LEMMA WritersMeet ==
  ASSUME LayerInv, NEW a \in Actors, NEW b \in Actors, a # b,
         MustWrite(a), MustWrite(b)
  PROVE  Watched \in met
  <1>1. a \in BusyWith(Watched) /\ b \in BusyWith(Watched)
    BY DEF BusyWith, MustWrite
  <1>2. BusyWith(Watched) = Actors
    BY <1>1 DEF Actors, BusyWith
  <1> QED
    BY <1>2, ActorsAreUsers DEF LayerInv, MeetingsSeen

LEMMA InitFiles == FilesInit => FilesInv
  <1> SUFFICES ASSUME FilesInit PROVE FilesInv
    OBVIOUS
  <1>1. LayerInv /\ ItemInv
    BY InitLayer, ItemInitInv DEF FilesInit
  <1>2. \A c \in Users : at[c] = "idle"
    BY DEF FilesInit, ItemInit
  <1>3. CallsServe /\ OverlapsMeet /\ CallsDone
    BY <1>2, ActorsAreUsers
       DEF CallsServe, OverlapsMeet, CallsDone, FilesInit, ItemInit
  <1>4. Mirrored
    <2>1. item = NoFile /\ disk[Watched] = {}
      BY ActorsAreUsers DEF FilesInit, LayerInit, ItemInit
    <2> QED
      BY <2>1, ItemAssumption DEF Mirrored, Held
  <1> QED
    BY <1>1, <1>3, <1>4 DEF FilesInv
------------------------------------------------------------------------------
(* The layer uses the file as an item may be used.                         *)
LEMMA UsesItem ==
  ASSUME LayerTypeOK, [FilesNext]_filesVars
  PROVE  [ItemNext]_itemVars
  <1>1. CASE UNCHANGED filesVars \/ Elsewhere
    BY <1>1 DEF filesVars, Elsewhere, itemVars
  <1>2. ASSUME NEW a \in Actors, WriteFile(a)
        PROVE  ItemNext
    <2>1. actor[a].bytes \in Values
      BY FilesAssumption DEF LayerTypeOK
    <2>2. Call(a)
      BY <1>2, <2>1 DEF WriteFile, Call
    <2> QED
      BY <2>2, ActorsAreUsers DEF ItemNext
  <1>3. ASSUME NEW c \in Users, ReadFile(c)
        PROVE  ItemNext
    BY <1>3 DEF ReadFile, Call, ItemNext
  <1>4. ASSUME NEW c \in Users, WorkOnFile(c) \/ FileUnseen(c) \/ OthersEnd(c)
        PROVE  ItemNext
    BY <1>4 DEF WorkOnFile, FileUnseen, OthersEnd, Step, ItemNext
  <1>5. ASSUME NEW a \in Actors, WriteEnds(a)
        PROVE  ItemNext
    BY <1>5, ActorsAreUsers DEF WriteEnds, Step, ItemNext
  <1>6. CASE TileRead \/ TileUnreadable
    BY <1>6, ActorsAreUsers DEF TileRead, TileUnreadable, Step, ItemNext
  <1>7. CASE Purge \/ RemoveFile
    BY <1>7, ActorsAreUsers DEF Purge, RemoveFile, Call, Step, ItemNext
  <1>8. CASE FilesCrash \/ \E t \in Tiles : RemoveOther(t)
    BY <1>8 DEF FilesCrash, RemoveOther, itemVars, ItemNext
  <1> QED
    BY <1>1, <1>2, <1>3, <1>4, <1>5, <1>6, <1>7, <1>8 DEF FilesNext
------------------------------------------------------------------------------
(* The layer's other steps leave alone whoever has a call under way.       *)
LEMMA ElsewhereLeaves ==
  ASSUME FilesInv, Elsewhere, NEW a \in Actors, at[a] # "idle"
  PROVE  /\ actor'[a] = actor[a]
         /\ a = "chain" /\ MustRead => Watched \notin pending' \cup cached'
  <1> USE ActorsAreUsers DEF FilesInv, LayerInv, Steady, LayerTypeOK
  <1>1. MustWrite(a) \/ (a = "chain" /\ MustRead)
    BY DEF CallsServe
  <1>2. actor[a].at \in {"write", "access"}
    BY <1>1 DEF MustWrite, MustRead
  <1>3. CASE \E t \in Tiles : Render(t) \/ Expire(t)
    BY <1>3 DEF Render, Expire, MustRead
  <1>4. CASE Take \/ Apply
    <2>1. a # "chain" /\ Go("chain", actor'["chain"])
      BY <1>2, <1>4 DEF Take, Apply, Go
    <2> QED
      BY <2>1 DEF Go
  <1>5. CASE Admit
    <2>1. a # "chain" /\ Go("chain", actor'["chain"])
      BY <1>2, <1>5 DEF Admit, Go, GoOn, GoSave
    <2> QED
      BY <2>1 DEF Go
  <1>6. CASE Save
    <2>1. a # "save" /\ Go("save", actor'["save"])
      BY <1>2, <1>6 DEF Save, Go, GoSave
    <2> QED
      BY <2>1, <1>6 DEF Go, Save, MustRead
  <1>7. CASE ~MustRead /\ Access
    <2>1. a # "chain" /\ Go("chain", actor'["chain"])
      BY <1>1, <1>7 DEF Access, Go, GoOn, MustWrite
    <2> QED
      BY <2>1 DEF Go
  <1>8. ASSUME NEW b \in Actors,
               \/ Pick(b) \/ Forget(b) \/ EndSave(b)
               \/ ~MustWrite(b) /\ Write(b)
        PROVE  /\ actor'[a] = actor[a]
               /\ a = "chain" /\ MustRead
                    => Watched \notin pending' \cup cached'
    <2>1. a # b
      BY <1>1, <1>8 DEF Pick, Forget, EndSave, Write, MustWrite, MustRead
    <2>2. Go(b, actor'[b])
      BY <1>8 DEF Pick, Forget, EndSave, Write, Go, GoOn, Resume
    <2>3. pending' \subseteq pending \/ b = "chain"
      BY <1>8 DEF Pick, Forget, EndSave, Write, Admitted
    <2>4. cached' = cached
      BY <1>8 DEF Pick, Forget, EndSave, Write
    <2> QED
      BY <2>1, <2>2, <2>3, <2>4 DEF Go, MustRead
  <1> QED
    BY <1>3, <1>4, <1>5, <1>6, <1>7, <1>8 DEF Elsewhere

LEMMA ElsewhereSpares ==
  ASSUME FilesInv, Elsewhere
  PROVE  /\ LayerInv' /\ Sound' \subseteq Sound /\ met \subseteq met'
         /\ disk'[Watched] = disk[Watched]
         /\ \/ set'[Watched] = set[Watched]
            \/ actor["chain"].at = "put" /\ actor["chain"].tile = Watched
  <1> USE ActorsAreUsers DEF FilesInv, LayerInv, Steady, LayerTypeOK
  <1>1. LayerInv'
    BY RenderKeeps, ExpireKeeps, TakeKeeps, AdmitKeeps, ApplyKeeps, SaveKeeps,
       AccessKeeps, PickKeeps, ForgetKeeps, EndSaveKeeps, WriteKeeps
       DEF Elsewhere
  <1>2. CASE \E t \in Tiles : Render(t) \/ Expire(t)
    BY <1>1, <1>2 DEF Render, Expire, Sound
  <1>3. CASE Take \/ Admit \/ Save
    BY <1>1, <1>3 DEF Take, Meet, Admit, Save, Sound
  <1>4. CASE Apply
    <2>1. PICK t \in Tiles, w \in Writes :
            t = Head(queue)[1] /\ w = Head(queue)[2]
      BY <1>4 DEF Apply, HeadIsAtWork
    <2>2. actor["chain"].at = "put" /\ actor["chain"].tile = t
      BY <1>4, <2>1 DEF Apply, HeadIsAtWork
    <2>3. t # Watched => set'[Watched] = set[Watched]
      BY <1>4, <2>1 DEF Apply
    <2> QED
      BY <1>1, <1>4, <2>2, <2>3 DEF Apply, Sound
  <1>5. CASE Access
    BY <1>1, <1>5 DEF Access, Anew, Sound
  <1>6. ASSUME NEW b \in Actors, Pick(b) \/ Forget(b)
        PROVE  /\ Sound' \subseteq Sound /\ met \subseteq met'
               /\ disk' = disk /\ set' = set
    BY <1>6 DEF Pick, Forget, Meet, Sound
  <1>7. ASSUME NEW b \in Actors, EndSave(b)
        PROVE  /\ Sound' \subseteq Sound /\ met \subseteq met'
               /\ disk' = disk /\ set' = set
    BY <1>7 DEF EndSave, Sound
  <1>8. ASSUME NEW b \in Actors, ~MustWrite(b), Write(b)
        PROVE  /\ Sound' \subseteq Sound /\ met \subseteq met'
               /\ disk'[Watched] = disk[Watched] /\ set' = set
    BY <1>8 DEF Write, Sound, MustWrite
  <1> QED
    BY <1>1, <1>2, <1>3, <1>4, <1>5, <1>6, <1>7, <1>8 DEF Elsewhere

LEMMA ElsewhereKeeps ==
  ASSUME FilesInv, Elsewhere
  PROVE  FilesInv'
  <1> USE ActorsAreUsers
  <1>1. UNCHANGED <<item, part, at, call, place, tries, overlap, abandoned>>
    BY DEF Elsewhere, itemVars
  <1>2. ItemInv'
    BY <1>1, ItemInvStep DEF FilesInv, itemVars
  <1>3. /\ LayerInv' /\ Sound' \subseteq Sound /\ met \subseteq met'
        /\ disk'[Watched] = disk[Watched]
        /\ \/ set'[Watched] = set[Watched]
           \/ actor["chain"].at = "put" /\ actor["chain"].tile = Watched
    BY ElsewhereSpares
  <1>4. CallsServe'
    <2>1. ASSUME NEW a \in Actors, at'[a] # "idle"
          PROVE  \/ /\ call'[a].op = "write" /\ MustWrite(a)'
                    /\ call'[a].value = actor'[a].bytes
                 \/ call'[a].op = "read" /\ a = "chain" /\ MustRead'
      <3>1. /\ actor'[a] = actor[a]
            /\ a = "chain" /\ MustRead => Watched \notin pending' \cup cached'
        BY <1>1, <2>1, ElsewhereLeaves
      <3>2. \/ /\ call[a].op = "write" /\ MustWrite(a)
               /\ call[a].value = actor[a].bytes
            \/ call[a].op = "read" /\ a = "chain" /\ MustRead
        BY <1>1, <2>1 DEF FilesInv, CallsServe
      <3> QED
        BY <1>1, <3>1, <3>2 DEF MustWrite, MustRead
    <2>2. \A c \in Users \ Actors : at'[c] # "idle" => call'[c].op # "write"
      BY <1>1 DEF FilesInv, CallsServe
    <2> QED
      BY <2>1, <2>2 DEF CallsServe, Actors
  <1>5. Mirrored' /\ OverlapsMeet'
    BY <1>1, <1>3 DEF FilesInv, Mirrored, OverlapsMeet, Held
  <1>6. CallsDone'
    <2> SUFFICES ASSUME Watched \in Sound'
                 PROVE  CallsDone'
      BY DEF CallsDone
    <2>1. Watched \in Sound /\ Watched \notin met
      BY <1>3 DEF Sound
    <2>2. ASSUME NEW a \in Actors, at[a] # "idle", set'[Watched] # set[Watched]
          PROVE  FALSE
      <3>1. actor["chain"].at = "put" /\ actor["chain"].tile = Watched
        BY <1>3, <2>2
      <3>2. MustWrite(a) /\ a # "chain"
        BY <2>2, <3>1 DEF FilesInv, CallsServe, MustRead, MustWrite
      <3>3. "chain" \in BusyWith(Watched) /\ a \in BusyWith(Watched)
        BY <3>1, <3>2 DEF BusyWith, MustWrite
      <3>4. BusyWith(Watched) = Actors
        BY <3>2, <3>3 DEF BusyWith, Actors
      <3> QED
        BY <2>1, <3>4 DEF FilesInv, LayerInv, MeetingsSeen
    <2>3. \A a \in Actors : at[a] = "done" /\ call[a].op = "write"
            => set'[Watched] \subseteq disk'[Watched]
      BY <1>3, <2>1, <2>2 DEF FilesInv, CallsDone
    <2>4. at["chain"] \in {"reading", "done"} /\ call["chain"].op = "read"
            => set'[Watched] \subseteq Held(call["chain"].value)
      BY <2>1, <2>2 DEF FilesInv, CallsDone
    <2> QED
      BY <1>1, <2>3, <2>4 DEF CallsDone, Actors, Held
  <1> QED
    BY <1>2, <1>3, <1>4, <1>5, <1>6 DEF FilesInv
------------------------------------------------------------------------------
(* The content of a tile on disk changes, and what counts as received.     *)
LEMMA DiskFollows ==
  ASSUME LayerInv, NEW t \in Tiles,
         NEW content \in SUBSET Writes, NEW got \in SUBSET Writes,
         disk' = [disk EXCEPT ![t] = content],
         set' = [set EXCEPT ![t] = got], got \subseteq set[t],
         excused \subseteq excused', excused' \subseteq Tiles,
         t \in Sound' => got \subseteq content \/ content = disk[t],
         UNCHANGED <<queue, actor, mem, cached, pending, writes, met>>
  PROVE  LayerInv'
  <1>1. LayerTypeOK'
    BY DEF LayerInv, Steady, LayerTypeOK
  <1>2. HeadIsAtWork' /\ SaveOnlySaves'
    BY DEF LayerInv, Steady, HeadIsAtWork, SaveOnlySaves
  <1>3. MeetingsSeen'
    BY DEF LayerInv, MeetingsSeen, BusyWith
  <1>4. ASSUME NEW u \in Sound'
        PROVE  Safe(u)'
    <2>1. u \in Tiles /\ Safe(u)
      BY DEF Sound, LayerInv
    <2>2. CASE u # t
      <3>1. disk'[u] = disk[u] /\ set'[u] = set[u]
        BY <2>1, <2>2 DEF LayerInv, Steady, LayerTypeOK
      <3> QED
        BY <2>1, <3>1 DEF Safe
    <2>3. CASE u = t
      <3>1. disk'[u] = content /\ set'[u] = got
        BY <2>1, <2>3 DEF LayerInv, Steady, LayerTypeOK
      <3>2. got \subseteq content \/ content = disk[u]
        BY <1>4, <2>3
      <3> QED
        BY <2>1, <2>3, <3>1, <3>2 DEF Safe
    <2> QED
      BY <2>2, <2>3
  <1> QED
    BY <1>1, <1>2, <1>3, <1>4 DEF LayerInv, Steady

(* Where no two writers met, the item changes by the rename of what the    *)
(* tile has received.                                                      *)
LEMMA WorkOnSound ==
  ASSUME FilesInv, NEW c \in Users, WorkOnFile(c), Watched \in Sound
  PROVE  /\ Held(item') = Held(item) \/ set[Watched] \subseteq Held(item')
         /\ at'[c] = "done" /\ call'[c].op = "write"
              => set[Watched] \subseteq Held(item')
  <1> USE ActorsAreUsers DEF FilesInv
  <1>1. ~overlap
    BY DEF OverlapsMeet, Sound
  <1>2. CASE Fill(c)
    <2>1. place[c] = "part"
      BY <1>1, <1>2 DEF Fill, ItemInv, WriterAlone, Inside, WriterSteps
    <2> QED
      BY <1>2, <2>1 DEF Fill, Proceed, ItemInv, ItemTypeOK
  <1>3. CASE CheckPart(c)
    <2>1. part # NoFile
      BY <1>1, <1>3 DEF CheckPart, ItemInv, WriterAlone, Inside, WriterSteps
    <2> QED
      BY <1>3, <2>1 DEF CheckPart, Proceed, ItemInv, ItemTypeOK
  <1>4. CASE Move(c)
    <2>1. part # NoFile /\ part = call[c].value /\ call[c].value \in Values
      BY <1>1, <1>4
         DEF Move, ItemInv, WriterAlone, CallsFit, Inside, WriterSteps
    <2>2. c \in Actors /\ MustWrite(c) /\ call[c].value = actor[c].bytes
      BY <1>4, WriterSaves DEF Move, WriterSteps
    <2>3. set[Watched] \subseteq actor[c].bytes
      BY <2>2 DEF LayerInv, Safe, MustWrite
    <2>4. item' = call[c].value
      BY <1>4, <2>1 DEF Move
    <2>5. Held(item') = item'
      BY <2>1, <2>4 DEF Held
    <2> QED
      BY <2>2, <2>3, <2>4, <2>5
  <1>5. CASE Open(c) \/ MoveDelayed(c)
    BY <1>5 DEF Open, MoveDelayed, Proceed, ItemInv, ItemTypeOK
  <1>6. CASE Look(c) \/ OpenItem(c) \/ Fetch(c) \/ FindStorage(c)
    <2>1. item' = item
      BY <1>6 DEF Look, OpenItem, Fetch, FindStorage
    <2>2. call[c].op \in {"read", "delete"}
      BY <1>6 DEF Look, OpenItem, Fetch, FindStorage, ItemInv, CallsFit
    <2>3. call'[c].op = call[c].op
      BY <1>6 DEF Look, OpenItem, Fetch, FindStorage, ItemInv, ItemTypeOK,
                  ItemCalls
    <2> QED
      BY <2>1, <2>2, <2>3
  <1> QED
    BY <1>2, <1>3, <1>4, <1>5, <1>6 DEF WorkOnFile

(* A read that has found the item, or has not, holds what the tile has     *)
(* received: a tile that is not pending has all of it on disk.             *)
LEMMA ReadOfSound ==
  ASSUME FilesInv, WorkOnFile("chain"), Watched \in Sound,
         at'["chain"] \in {"reading", "done"}, call'["chain"].op = "read"
  PROVE  set[Watched] \subseteq Held(call'["chain"].value)
  <1> DEFINE c == "chain"
  <1> USE ActorsAreUsers DEF FilesInv
  <1>1. ~overlap
    BY DEF OverlapsMeet, Sound
  <1>2. CASE Look(c) \/ OpenItem(c)
    <2>1. call[c].op = "read" /\ at[c] # "idle"
      BY <1>2 DEF Look, OpenItem, ItemInv, CallsFit
    <2>2. MustRead
      BY <2>1 DEF CallsServe
    <2>3. set[Watched] \subseteq Held(item)
      BY <2>2 DEF LayerInv, Safe, MustRead, Mirrored
    <2>4. call'[c].value = item
      BY <1>2 DEF Look, OpenItem, Proceed, ItemInv, CallsFit, ItemTypeOK,
                  ItemCalls
    <2> QED
      BY <2>3, <2>4
  <1>3. CASE Fetch(c)
    <2>1. call'[c].value = call[c].value /\ call[c].op = "read"
      BY <1>1, <1>3 DEF Fetch, ItemInv, CallsFit, ItemTypeOK, ItemCalls
    <2> QED
      BY <1>3, <2>1 DEF Fetch, CallsDone
  <1>4. CASE Open(c) \/ Fill(c) \/ CheckPart(c) \/ Move(c) \/ MoveDelayed(c)
             \/ FindStorage(c)
    BY <1>4 DEF Open, Fill, CheckPart, Move, MoveDelayed, FindStorage,
                ItemInv, CallsFit, WriterSteps
  <1> QED
    BY <1>2, <1>3, <1>4 DEF WorkOnFile

(* What a step at work on the file leaves of the calls.                    *)
LEMMA WorkOfCall ==
  ASSUME ItemInv, NEW c \in Users, WorkOnFile(c)
  PROVE  /\ at[c] # "idle" /\ at'[c] # "idle"
         /\ call'[c].op = call[c].op
         /\ call[c].op = "write" => call'[c].value = call[c].value
         /\ \A d \in Users \ {c} : at'[d] = at[d] /\ call'[d] = call[d]
  <1> USE DEF ItemInv, ItemTypeOK, Proceed
  <1>1. CASE Open(c) \/ Fill(c) \/ CheckPart(c) \/ Move(c) \/ MoveDelayed(c)
             \/ Look(c) \/ FindStorage(c)
    BY <1>1 DEF Open, Fill, CheckPart, Move, MoveDelayed, Look, FindStorage
  <1>2. CASE OpenItem(c) \/ Fetch(c)
    BY <1>2 DEF OpenItem, Fetch, CallsFit, ItemCalls
  <1> QED
    BY <1>1, <1>2 DEF WorkOnFile

LEMMA WorkKeeps ==
  ASSUME FilesInv, NEW c \in Users, WorkOnFile(c)
  PROVE  FilesInv'
  <1> USE ActorsAreUsers
  <1>1. /\ UNCHANGED <<queue, actor, mem, cached, pending, writes, met, set,
                       excused>>
        /\ disk' = [disk EXCEPT ![Watched] = Held(item')]
    BY DEF WorkOnFile, InMemory, OnDisk
  <1>2. disk'[Watched] = Held(item') /\ Sound' = Sound
    BY <1>1 DEF FilesInv, LayerInv, Steady, LayerTypeOK, Sound
  <1>3. ItemInv'
    <2>1. Step(c)
      BY DEF WorkOnFile, Step
    <2> QED
      BY <2>1, ItemInvStep DEF FilesInv, ItemNext
  <1>4. LayerInv'
    <2>1. set' = [set EXCEPT ![Watched] = set[Watched]]
          /\ set[Watched] \in SUBSET Writes
          /\ excused \subseteq excused' /\ excused' \subseteq Tiles
      BY <1>1 DEF FilesInv, LayerInv, Steady, LayerTypeOK
    <2>2. Watched \in Sound' => \/ set[Watched] \subseteq Held(item')
                                \/ Held(item') = disk[Watched]
      BY <1>2, WorkOnSound DEF FilesInv, Mirrored
    <2>3. Held(item') \in SUBSET Writes
      BY HeldTypes
    <2> QED
      BY <1>1, <2>1, <2>2, <2>3, DiskFollows DEF FilesInv
  <1>5. /\ at[c] # "idle" /\ at'[c] # "idle"
        /\ call'[c].op = call[c].op
        /\ call[c].op = "write" => call'[c].value = call[c].value
        /\ \A d \in Users \ {c} : at'[d] = at[d] /\ call'[d] = call[d]
    BY WorkOfCall DEF FilesInv
  <1>6. CallsServe'
    BY <1>1, <1>5 DEF FilesInv, CallsServe, Actors, MustWrite, MustRead
  <1>7. Mirrored'
    BY <1>2 DEF Mirrored, Held
  <1>8. OverlapsMeet'
    <2> SUFFICES ASSUME overlap', ~overlap
                 PROVE  Watched \in met
      BY <1>1 DEF FilesInv, OverlapsMeet
    <2>1. at[c] = "queued" /\ Inside # {}
      BY DEF WorkOnFile, Open, Fill, CheckPart, Move, MoveDelayed, Look,
             OpenItem, Fetch, FindStorage
    <2>2. PICK d \in Users : at[d] \in WriterSteps
      BY <2>1 DEF Inside
    <2>3. c # d
      BY <2>1, <2>2 DEF WriterSteps
    <2>4. c \in Actors /\ MustWrite(c) /\ d \in Actors /\ MustWrite(d)
      BY <2>1, <2>2, WriterSaves DEF FilesInv
    <2> QED
      BY <2>3, <2>4, WritersMeet DEF FilesInv
  <1>9. CallsDone'
    <2> SUFFICES ASSUME Watched \in Sound
                 PROVE  CallsDone'
      BY <1>2 DEF CallsDone
    <2>1. ASSUME NEW a \in Actors, at'[a] = "done", call'[a].op = "write"
          PROVE  set[Watched] \subseteq Held(item')
      <3>1. CASE a = c
        BY <2>1, <3>1, WorkOnSound
      <3>2. CASE a # c
        <4>1. set[Watched] \subseteq disk[Watched]
          BY <2>1, <3>2, <1>5 DEF FilesInv, CallsDone
        <4>2. \/ set[Watched] \subseteq Held(item')
              \/ Held(item') = disk[Watched]
          BY WorkOnSound DEF FilesInv, Mirrored
        <4> QED
          BY <4>1, <4>2
      <3> QED
        BY <3>1, <3>2
    <2>2. ASSUME at'["chain"] \in {"reading", "done"},
                 call'["chain"].op = "read"
          PROVE  set[Watched] \subseteq Held(call'["chain"].value)
      <3>1. CASE c = "chain"
        BY <2>2, <3>1, ReadOfSound
      <3>2. CASE c # "chain"
        BY <2>2, <3>2, <1>5 DEF FilesInv, CallsDone
      <3> QED
        BY <3>1, <3>2
    <2> QED
      BY <1>1, <1>2, <2>1, <2>2 DEF CallsDone, Actors, Held
  <1> QED
    BY <1>3, <1>4, <1>6, <1>7, <1>8, <1>9 DEF FilesInv
------------------------------------------------------------------------------
(* Steps that leave the file as it is, and whoever writes to it.           *)
LEMMA FileStays ==
  ASSUME FilesInv, UNCHANGED <<item, met>>, disk'[Watched] = disk[Watched],
         overlap' => overlap
  PROVE  Mirrored' /\ OverlapsMeet'
  BY DEF FilesInv, Mirrored, OverlapsMeet, Held

LEMMA BeginKeeps ==
  ASSUME FilesInv, ItemInv', NEW c \in Users,
         ReadFile(c) \/ (c \in Actors /\ WriteFile(c))
  PROVE  FilesInv'
  <1> USE ActorsAreUsers
  <1>1. UNCHANGED layerVars
    BY DEF ReadFile, WriteFile
  <1>2. LayerInv'
    BY <1>1, LayerNextKeeps DEF FilesInv
  <1>3. /\ at'[c] \in {"looking", "queued"}
        /\ UNCHANGED <<item, overlap>>
        /\ \A d \in Users \ {c} : at'[d] = at[d] /\ call'[d] = call[d]
    BY DEF ReadFile, WriteFile, BeginCall, Proceed, FilesInv, ItemInv,
           ItemTypeOK
  <1>4. CallsServe'
    <2>1. CASE ReadFile(c)
      <3>1. /\ call'[c].op = "read"
            /\ c = "web" \/ (c = "chain" /\ MustRead)
        BY <2>1 DEF ReadFile, BeginCall, FilesInv, ItemInv, ItemTypeOK
      <3> QED
        BY <1>1, <1>3, <3>1
           DEF FilesInv, CallsServe, Actors, MustWrite, MustRead, layerVars
    <2>2. ASSUME c \in Actors, WriteFile(c)
          PROVE  CallsServe'
      <3>1. /\ call'[c].op = "write" /\ MustWrite(c)
            /\ call'[c].value = actor[c].bytes
        BY <2>2 DEF WriteFile, BeginCall, FilesInv, ItemInv, ItemTypeOK
      <3> QED
        BY <1>1, <1>3, <2>2, <3>1
           DEF FilesInv, CallsServe, Actors, MustWrite, MustRead, layerVars
    <2> QED
      BY <2>1, <2>2
  <1>5. CallsDone'
    BY <1>1, <1>3 DEF layerVars, FilesInv, CallsDone, Sound, Held, Actors
  <1>6. Mirrored' /\ OverlapsMeet'
    BY <1>1, <1>3, FileStays DEF layerVars
  <1> QED
    BY <1>2, <1>4, <1>5, <1>6 DEF FilesInv

LEMMA UnseenKeeps ==
  ASSUME FilesInv, ItemInv', NEW c \in Users, FileUnseen(c)
  PROVE  FilesInv'
  <1> USE ActorsAreUsers
  <1>1. /\ UNCHANGED <<queue, actor, mem, cached, pending, writes, met, set,
                       disk, item, call, overlap>>
        /\ at[c] # "idle" /\ at'[c] = "done"
        /\ \A d \in Users \ {c} : at'[d] = at[d]
        /\ excused' = IF c \in Actors THEN excused \cup {Watched} ELSE excused
    BY DEF FileUnseen, InMemory, StatFails, Proceed, Excuse, FilesInv, ItemInv,
           ItemTypeOK
  <1>2. LayerInv'
    <2>1. /\ disk' = [disk EXCEPT ![Watched] = disk[Watched]]
          /\ set' = [set EXCEPT ![Watched] = set[Watched]]
          /\ set[Watched] \in SUBSET Writes /\ disk[Watched] \in SUBSET Writes
          /\ excused \subseteq excused' /\ excused' \subseteq Tiles
      BY <1>1 DEF FilesInv, LayerInv, Steady, LayerTypeOK
    <2> QED
      BY <1>1, <2>1, DiskFollows DEF FilesInv
  <1>3. CallsServe'
    BY <1>1 DEF FilesInv, CallsServe, Actors, MustWrite, MustRead
  <1>4. CallsDone'
    <2>1. CASE c \in Actors
      BY <1>1, <2>1 DEF CallsDone, Sound
    <2>2. CASE c \notin Actors
      BY <1>1, <2>2 DEF FilesInv, CallsDone, Sound, Held, Actors
    <2> QED
      BY <2>1, <2>2
  <1>5. Mirrored' /\ OverlapsMeet'
    BY <1>1, FileStays
  <1> QED
    BY <1>2, <1>3, <1>4, <1>5 DEF FilesInv

LEMMA RemoveKeeps ==
  ASSUME FilesInv, ItemInv', RemoveFile
  PROVE  FilesInv'
  <1> USE ActorsAreUsers
  <1>1. /\ UNCHANGED <<queue, actor, mem, cached, pending, writes, met,
                       excused, call, overlap>>
        /\ disk' = [disk EXCEPT ![Watched] = Held(item')]
        /\ set' = [set EXCEPT ![Watched] = {}]
        /\ at["purge"] # "idle"
        /\ \A d \in Users \ {"purge"} : at'[d] = at[d]
    BY DEF RemoveFile, RemoveStorage, Taken, InMemory, OnDisk, Proceed,
           FilesInv, ItemInv, ItemTypeOK
  <1>2. Held(item') \in SUBSET Writes
    BY HeldTypes
  <1>3. LayerInv'
    <2>1. excused' \subseteq Tiles
      BY <1>1 DEF FilesInv, LayerInv, Steady, LayerTypeOK
    <2>2. {} \in SUBSET Writes /\ {} \subseteq set[Watched]
      OBVIOUS
    <2> QED
      BY <1>1, <1>2, <2>1, <2>2, DiskFollows DEF FilesInv
  <1>4. disk'[Watched] = Held(item') /\ set'[Watched] = {}
    BY <1>1 DEF FilesInv, LayerInv, Steady, LayerTypeOK
  <1>5. CallsServe'
    BY <1>1 DEF FilesInv, CallsServe, Actors, MustWrite, MustRead
  <1>6. CallsDone'
    BY <1>4 DEF CallsDone
  <1>7. Mirrored' /\ OverlapsMeet'
    BY <1>1, <1>4 DEF FilesInv, Mirrored, OverlapsMeet, Held
  <1> QED
    BY <1>3, <1>5, <1>6, <1>7 DEF FilesInv

LEMMA RemoveOtherKeeps ==
  ASSUME FilesInv, ItemInv', NEW t \in Tiles, RemoveOther(t)
  PROVE  FilesInv'
  <1> USE ActorsAreUsers
  <1>1. /\ UNCHANGED <<queue, actor, mem, cached, pending, writes, met,
                       excused, item, at, call, overlap>>
        /\ disk' = [disk EXCEPT ![t] = {}] /\ set' = [set EXCEPT ![t] = {}]
        /\ t # Watched
    BY DEF RemoveOther, Taken, InMemory, itemVars
  <1>2. LayerInv'
    <2>1. excused' \subseteq Tiles
      BY <1>1 DEF FilesInv, LayerInv, Steady, LayerTypeOK
    <2>2. {} \in SUBSET Writes /\ {} \subseteq set[t]
      OBVIOUS
    <2> QED
      BY <1>1, <2>1, <2>2, DiskFollows DEF FilesInv
  <1>3. disk'[Watched] = disk[Watched] /\ set'[Watched] = set[Watched]
    BY <1>1 DEF FilesInv, LayerInv, Steady, LayerTypeOK
  <1>4. CallsServe'
    BY <1>1 DEF FilesInv, CallsServe, Actors, MustWrite, MustRead
  <1>5. CallsDone'
    BY <1>1, <1>3 DEF FilesInv, CallsDone, Sound, Held, Actors
  <1>6. Mirrored' /\ OverlapsMeet'
    BY <1>1, <1>3, FileStays
  <1> QED
    BY <1>2, <1>4, <1>5, <1>6 DEF FilesInv

LEMMA OthersKeep ==
  ASSUME FilesInv, ItemInv', NEW c \in Users, OthersEnd(c)
  PROVE  FilesInv'
  <1> USE ActorsAreUsers
  <1>1. UNCHANGED layerVars /\ c \notin Actors /\ Over(c)
    BY DEF OthersEnd, ReturnCall, Throw
  <1>2. /\ at'[c] = "idle" /\ (overlap' => overlap) /\ item' = item
        /\ \A d \in Users \ {c} : at'[d] = at[d] /\ call'[d] = call[d]
    BY <1>1 DEF Over, Proceed, FilesInv, ItemInv, ItemTypeOK
  <1>3. LayerInv'
    BY <1>1, LayerNextKeeps DEF FilesInv
  <1>4. CallsServe'
    BY <1>1, <1>2
       DEF layerVars, FilesInv, CallsServe, Actors, MustWrite, MustRead
  <1>5. CallsDone'
    BY <1>1, <1>2 DEF layerVars, FilesInv, CallsDone, Sound, Held, Actors
  <1>6. Mirrored' /\ OverlapsMeet'
    BY <1>1, <1>2, FileStays DEF layerVars
  <1> QED
    BY <1>3, <1>4, <1>5, <1>6 DEF FilesInv

LEMMA PurgeKeeps ==
  ASSUME FilesInv, ItemInv', Purge
  PROVE  FilesInv'
  <1> USE ActorsAreUsers
  <1>1. /\ actor["chain"].at = "idle"
        /\ excused' = excused \cup pending
        /\ UNCHANGED <<actor, disk, set, met, item, overlap>>
        /\ at'["purge"] = "finding" /\ call'["purge"].op = "delete"
        /\ \A d \in Users \ {"purge"} : at'[d] = at[d] /\ call'[d] = call[d]
    BY DEF Purge, Discard, BeginCall, Proceed, FilesInv, ItemInv, ItemTypeOK
  <1>2. LayerInv'
    BY DiscardKeeps DEF Purge, FilesInv
  <1>3. CallsServe'
    BY <1>1 DEF FilesInv, CallsServe, Actors, MustWrite, MustRead
  <1>4. CallsDone'
    BY <1>1 DEF FilesInv, CallsDone, Sound, Held, Actors
  <1>5. Mirrored' /\ OverlapsMeet'
    BY <1>1, FileStays
  <1> QED
    BY <1>2, <1>3, <1>4, <1>5 DEF FilesInv
------------------------------------------------------------------------------
LEMMA CreatedKeeps ==
  ASSUME LayerInv, MustRead, NEW content \in SUBSET Writes,
         TileCreated(content),
         excused' \in {excused, excused \cup {Watched}},
         Watched \in Sound' => set[Watched] \subseteq content
  PROVE  LayerInv'
  <1> USE ActorsAreUsers
  <1>1. /\ actor["chain"].at = "access" /\ actor["chain"].tile = Watched
        /\ GoOn("chain", "admit")
        /\ mem' = [mem EXCEPT ![Watched] = content]
        /\ cached' = cached \cup {Watched}
        /\ UNCHANGED <<queue, pending, disk, set, writes>>
        /\ met' \in {met, met \cup {Watched}}
    BY DEF MustRead, TileCreated, Anew
  <1>2. /\ actor' \in [Actors -> Locals]
        /\ actor'["chain"].at = "admit" /\ actor'["chain"].tile = Watched
        /\ actor'["chain"].saving = actor["chain"].saving
        /\ \A b \in Actors : b # "chain" => actor'[b] = actor[b]
    BY <1>1, GoOnStep
  <1>3. LayerTypeOK'
    BY <1>1, <1>2 DEF LayerInv, Steady, LayerTypeOK, Locals
  <1>4. HeadIsAtWork' /\ SaveOnlySaves'
    BY <1>1, <1>2 DEF LayerInv, Steady, HeadIsAtWork, SaveOnlySaves
  <1>5. MeetingsSeen'
    <2>1. \A u \in Tiles : BusyWith(u)' \subseteq BusyWith(u)
      BY <1>1, <1>2 DEF BusyWith, Actors
    <2>2. met \subseteq met'
      BY <1>1
    <2> QED
      BY <2>1, <2>2, NobodyMeets DEF LayerInv
  <1>6. ASSUME NEW u \in Sound'
        PROVE  Safe(u)'
    <2>1. u \in Tiles /\ Safe(u)
      BY <1>1, <1>6 DEF Sound, LayerInv
    <2>2. set[u] \subseteq mem'[u]
      <3>1. CASE u = Watched
        BY <1>1, <1>6, <3>1 DEF LayerInv, Steady, LayerTypeOK
      <3>2. CASE u # Watched
        BY <1>1, <2>1, <3>2 DEF Safe, LayerInv, Steady, LayerTypeOK
      <3> QED
        BY <3>1, <3>2
    <2> QED
      BY <2>1, <2>2, <1>1, <1>2 DEF Safe, Actors
  <1> QED
    BY <1>3, <1>4, <1>5, <1>6 DEF LayerInv, Steady

(* The chain goes on with the tile that was read, or with a new one.       *)
LEMMA ReadingKeeps ==
  ASSUME FilesInv, ItemInv', TileRead \/ TileUnreadable
  PROVE  FilesInv'
  <1> USE ActorsAreUsers
  <1> DEFINE file == call["chain"].value
  <1>1. MustRead /\ Over("chain") /\ at["chain"] # "idle"
    BY DEF TileRead, TileUnreadable, ReturnCall, Throw
  <1>2. /\ at'["chain"] = "idle" /\ (overlap' => overlap) /\ item' = item
        /\ \A d \in Users \ {"chain"} : at'[d] = at[d] /\ call'[d] = call[d]
    BY <1>1 DEF Over, Proceed, FilesInv, ItemInv, ItemTypeOK
  <1>3. PICK content \in SUBSET Writes :
          /\ TileCreated(content)
          /\ \/ content = Held(file) /\ TileRead /\ UNCHANGED excused
             \/ Excuse
    <2>1. CASE TileRead
      BY <2>1, HeldTypes DEF TileRead
    <2>2. CASE TileUnreadable
      BY <2>2 DEF TileUnreadable
    <2> QED
      BY <2>1, <2>2
  <1>4. Sound' \subseteq Sound
    BY <1>3 DEF TileCreated, Anew, Excuse, Sound
  <1>5. Watched \in Sound' => set[Watched] \subseteq content
    <2> SUFFICES ASSUME Watched \in Sound'
                 PROVE  set[Watched] \subseteq content
      OBVIOUS
    <2>1. content = Held(file) /\ TileRead
      BY <1>3 DEF Excuse, Sound
    <2>2. at["chain"] = "done"
      BY <2>1 DEF TileRead, ReturnCall
    <2>3. call["chain"].op = "read"
      BY <1>1 DEF FilesInv, CallsServe, MustRead, MustWrite
    <2> QED
      BY <1>4, <2>1, <2>2, <2>3 DEF FilesInv, CallsDone
  <1>6. LayerInv'
    <2>1. excused' \in {excused, excused \cup {Watched}}
      BY <1>3 DEF Excuse
    <2> QED
      BY <1>1, <1>3, <1>5, <2>1, CreatedKeeps DEF FilesInv
  <1>7. /\ UNCHANGED <<disk, set>>
        /\ \A b \in Actors : b # "chain" => actor'[b] = actor[b]
        /\ met \subseteq met'
    <2>1. GoOn("chain", "admit") /\ UNCHANGED <<disk, set>> /\ Anew(Watched)
      BY <1>3 DEF TileCreated
    <2>2. \A b \in Actors : b # "chain" => actor'[b] = actor[b]
      BY <2>1, GoOnStep DEF FilesInv
    <2> QED
      BY <2>1, <2>2 DEF Anew
  <1>8. CallsServe'
    <2>1. ASSUME NEW a \in Actors, at'[a] # "idle"
          PROVE  /\ call'[a].op = "write" /\ MustWrite(a)'
                 /\ call'[a].value = actor'[a].bytes
      BY <1>2, <1>7, <2>1 DEF FilesInv, CallsServe, MustWrite
    <2>2. \A d \in Users \ Actors : at'[d] # "idle" => call'[d].op # "write"
      BY <1>2 DEF FilesInv, CallsServe
    <2> QED
      BY <2>1, <2>2 DEF CallsServe, Actors
  <1>9. CallsDone'
    BY <1>2, <1>4, <1>7 DEF FilesInv, CallsDone, Actors, Held
  <1>10. Mirrored' /\ OverlapsMeet'
    BY <1>2, <1>7 DEF FilesInv, Mirrored, OverlapsMeet, Held
  <1> QED
    BY <1>6, <1>8, <1>9, <1>10 DEF FilesInv

(* A write that is reported as made has been made.                         *)
LEMMA EndingKeeps ==
  ASSUME FilesInv, ItemInv', NEW a \in Actors, WriteEnds(a)
  PROVE  FilesInv'
  <1> USE ActorsAreUsers
  <1>1. /\ MustWrite(a) /\ Over(a) /\ at[a] # "idle"
        /\ UNCHANGED <<queue, mem, cached, pending, disk, set, writes,
                       excused, met>>
    BY DEF WriteEnds, ReturnCall, Throw
  <1>2. PICK next \in {"forget", "pick"} :
          GoOn(a, next) /\ (next = "forget" => at[a] = "done")
    BY DEF WriteEnds, ReturnCall
  <1>3. /\ actor' \in [Actors -> Locals]
        /\ actor'[a].at = next
        /\ actor'[a].tile = actor[a].tile
        /\ actor'[a].saving = actor[a].saving
        /\ \A b \in Actors : b # a => actor'[b] = actor[b]
    BY <1>2, GoOnStep DEF FilesInv
  <1>4. /\ at'[a] = "idle" /\ (overlap' => overlap) /\ item' = item
        /\ \A d \in Users \ {a} : at'[d] = at[d] /\ call'[d] = call[d]
    BY <1>1 DEF Over, Proceed, FilesInv, ItemInv, ItemTypeOK
  <1>5. Watched \in Sound /\ next = "forget"
          => set[Watched] \subseteq disk[Watched]
    BY <1>1, <1>2 DEF FilesInv, CallsServe, CallsDone, MustWrite, MustRead
  <1>6. LayerTypeOK'
    BY <1>1, <1>3 DEF FilesInv, LayerInv, Steady, LayerTypeOK, Locals
  <1>7. HeadIsAtWork' /\ SaveOnlySaves'
    <2>1. actor'["chain"].tile = actor["chain"].tile
      BY <1>3 DEF Actors
    <2>2. actor'["chain"].at # "idle" => actor["chain"].at # "idle"
      BY <1>1, <1>3 DEF Actors, MustWrite
    <2>3. actor'["save"].at \in {"idle", "pick", "write", "forget"}
      BY <1>3 DEF FilesInv, LayerInv, Steady, SaveOnlySaves, Actors
    <2> QED
      BY <1>1, <2>1, <2>2, <2>3
         DEF FilesInv, LayerInv, Steady, HeadIsAtWork, SaveOnlySaves
  <1>8. MeetingsSeen'
    <2>1. \A u \in Tiles : BusyWith(u)' \subseteq BusyWith(u)
      BY <1>1, <1>3 DEF BusyWith, MustWrite
    <2> QED
      BY <2>1, <1>1, NobodyMeets DEF FilesInv, LayerInv
  <1>9. ASSUME NEW u \in Sound'
        PROVE  Safe(u)'
    <2>1. u \in Sound /\ Safe(u)
      BY <1>1, <1>9 DEF Sound, FilesInv, LayerInv
    <2>2. \A b \in Actors : actor'[b].saving = u =>
            /\ actor'[b].at = "write" => set[u] \subseteq actor'[b].bytes
            /\ actor'[b].at = "forget" => set[u] \subseteq disk[u]
      <3> TAKE b \in Actors
      <3>1. CASE b = a
        BY <1>1, <1>3, <1>5, <2>1, <3>1 DEF MustWrite
      <3>2. CASE b # a
        BY <1>3, <2>1, <3>2 DEF Safe
      <3> QED
        BY <3>1, <3>2
    <2>3. actor'["chain"].at = "put" /\ actor'["chain"].tile = u
            => u \in pending
      BY <2>1, <1>2, <1>3 DEF Safe, Actors
    <2> QED
      BY <2>1, <2>2, <2>3, <1>1 DEF Safe, Actors
  <1>10. LayerInv'
    BY <1>6, <1>7, <1>8, <1>9 DEF LayerInv, Steady
  <1>11. CallsServe'
    <2>1. ASSUME NEW b \in Actors, at'[b] # "idle"
          PROVE  /\ b # a /\ at[b] # "idle" /\ actor'[b] = actor[b]
                 /\ call'[b] = call[b]
      BY <1>3, <1>4, <2>1
    <2>2. \A d \in Users \ Actors : at'[d] # "idle" => call'[d].op # "write"
      BY <1>4 DEF FilesInv, CallsServe
    <2> QED
      BY <1>1, <2>1, <2>2
         DEF FilesInv, CallsServe, Actors, MustWrite, MustRead
  <1>12. CallsDone'
    BY <1>1, <1>4 DEF FilesInv, CallsDone, Sound, Held, Actors
  <1>13. Mirrored' /\ OverlapsMeet'
    BY <1>1, <1>4, FileStays
  <1> QED
    BY <1>10, <1>11, <1>12, <1>13 DEF FilesInv

(* After a crash the tiles hold what is on disk.                           *)
LEMMA FilesCrashKeeps ==
  ASSUME FilesInv, ItemInv', FilesCrash
  PROVE  FilesInv'
  <1> USE ActorsAreUsers
  <1>1. /\ queue' = <<>> /\ actor' = [a \in Actors |-> Resting]
        /\ cached' = {} /\ pending' = {}
        /\ set' = [t \in Tiles |-> set[t] \cap disk[t]]
        /\ UNCHANGED <<mem, disk, writes, excused, met, item>>
        /\ \A c \in Users : at'[c] = "idle"
        /\ overlap' = FALSE
    BY DEF FilesCrash, ItemCrash
  <1>2. /\ actor' \in [Actors -> Locals]
        /\ \A a \in Actors : actor'[a].at = "idle"
    BY <1>1, RestingIsLocals
  <1>3. LayerTypeOK'
    <2>1. Cardinality(pending') <= MaxPending
      BY <1>1, FS_EmptySet, LowresAssumption
    <2>2. queue' \in Seq(Tiles \X Writes)
      BY <1>1
    <2>3. set' \in [Tiles -> SUBSET Writes]
      BY <1>1 DEF FilesInv, LayerInv, Steady, LayerTypeOK
    <2> QED
      BY <1>1, <1>2, <2>1, <2>2, <2>3
         DEF FilesInv, LayerInv, Steady, LayerTypeOK, Locals
  <1>4. HeadIsAtWork' /\ SaveOnlySaves'
    BY <1>2 DEF HeadIsAtWork, SaveOnlySaves
  <1>5. MeetingsSeen'
    BY <1>2 DEF MeetingsSeen, BusyWith
  <1>6. ASSUME NEW u \in Sound'
        PROVE  Safe(u)'
    <2>1. Safe(u) /\ u \in Tiles
      BY <1>1, <1>6 DEF Sound, FilesInv, LayerInv
    <2>2. set'[u] \subseteq set[u] /\ set'[u] \subseteq disk[u]
      BY <1>1, <2>1
    <2> QED
      BY <1>1, <1>2, <2>1, <2>2 DEF Safe
  <1>7. CallsServe' /\ CallsDone' /\ Mirrored' /\ OverlapsMeet'
    BY <1>1 DEF FilesInv, CallsServe, CallsDone, Mirrored, OverlapsMeet, Held
  <1> QED
    BY <1>3, <1>4, <1>5, <1>6, <1>7 DEF FilesInv, LayerInv, Steady
------------------------------------------------------------------------------
LEMMA FilesNextKeeps ==
  ASSUME FilesInv, [FilesNext]_filesVars
  PROVE  FilesInv'
  <1>1. ItemInv'
    BY UsesItem, ItemInvStep DEF FilesInv, LayerInv, Steady
  <1>2. CASE UNCHANGED filesVars
    <2>1. LayerInv'
      BY <1>2, LayerNextKeeps DEF FilesInv, filesVars
    <2> QED
      BY <1>1, <1>2, <2>1
         DEF filesVars, layerVars, itemVars, FilesInv, CallsServe, Mirrored,
             OverlapsMeet, CallsDone, MustWrite, MustRead, Sound, Held
  <1>3. CASE Elsewhere
    BY <1>3, ElsewhereKeeps
  <1>4. CASE \E a \in Actors : WriteFile(a) \/ WriteEnds(a)
    BY <1>1, <1>4, BeginKeeps, EndingKeeps, ActorsAreUsers
  <1>5. CASE \E c \in Users : ReadFile(c) \/ WorkOnFile(c) \/ FileUnseen(c)
                              \/ OthersEnd(c)
    BY <1>1, <1>5, BeginKeeps, WorkKeeps, UnseenKeeps, OthersKeep
  <1>6. CASE TileRead \/ TileUnreadable
    BY <1>1, <1>6, ReadingKeeps
  <1>7. CASE Purge \/ RemoveFile \/ \E t \in Tiles : RemoveOther(t)
    BY <1>1, <1>7, PurgeKeeps, RemoveKeeps, RemoveOtherKeeps
  <1>8. CASE FilesCrash
    BY <1>1, <1>8, FilesCrashKeeps
  <1> QED
    BY <1>2, <1>3, <1>4, <1>5, <1>6, <1>7, <1>8 DEF FilesNext

THEOREM FilesInvariance == FilesSpec => []FilesInv
  BY InitFiles, FilesNextKeeps, PTL DEF FilesSpec

(* The layer keeps its types and MAX_PENDING over files that fail, are     *)
(* removed by a purge, and over crashes.                                   *)
THEOREM FilesTypeCorrect == FilesSpec => [](LayerTypeOK /\ ItemTypeOK)
  <1>1. FilesInv => LayerTypeOK /\ ItemTypeOK
    BY DEF FilesInv, LayerInv, Steady, ItemInv
  <1> QED
    BY <1>1, FilesInvariance, PTL

(* What a tile has received is pending until its file holds it: the write  *)
(* that saveTile awaits, and createTile's read, take effect as the layer   *)
(* needs it, whatever a purge or the web server does beside them, after a  *)
(* write or a move that fails, and after a crash.                          *)
THEOREM WritesReachFiles == FilesSpec => []WritesReachStorage
  <1>1. FilesInv => WritesReachStorage
    BY DEF FilesInv, LayerInv, WritesReachStorage, Safe
  <1> QED
    BY <1>1, FilesInvariance, PTL

(* The layer uses the file as one that may be called at any time: every    *)
(* behaviour of the layer is one of the item, so its calls take effect at  *)
(* one moment each.                                                        *)
THEOREM LayerUsesItem == FilesSpec => ItemSpec /\ CallsAreAtomic
  <1>1. FilesInv => LayerTypeOK
    BY DEF FilesInv, LayerInv, Steady
  <1>2. FilesInit => ItemInit
    BY DEF FilesInit
  <1>3. FilesSpec => ItemSpec
    BY <1>1, <1>2, FilesInvariance, UsesItem, PTL DEF FilesSpec, ItemSpec
  <1> QED
    BY <1>3, CallsTakeEffectOnce
------------------------------------------------------------------------------
(* While a purge is under way the layer rests.                             *)
PurgeAlone ==
  at["purge"] # "idle" =>
    queue = <<>> /\ \A a \in Actors : actor[a].at = "idle"

LEMMA PurgeStaysAlone ==
  ASSUME FilesInv, PurgeAlone, [FilesNext]_filesVars
  PROVE  PurgeAlone'
  <1> SUFFICES ASSUME at'["purge"] # "idle"
               PROVE  queue' = <<>> /\ \A a \in Actors : actor'[a].at = "idle"
    BY DEF PurgeAlone, Actors
  <1> USE ActorsAreUsers
  <1>1. CASE Purge
    BY <1>1 DEF Purge, Discard, Actors
  <1>2. CASE at["purge"] # "idle"
    <2>1. queue = <<>> /\ \A a \in Actors : actor[a].at = "idle"
      BY <1>2 DEF PurgeAlone
    <2>2. CASE UNCHANGED filesVars
      BY <2>1, <2>2 DEF filesVars, layerVars
    <2>3. CASE Elsewhere
      BY <1>2, <2>1, <2>3
         DEF Elsewhere, Expire, Take, Admit, Apply, Access, Pick, Forget,
             EndSave, Write
    <2>4. ASSUME NEW a \in Actors, WriteFile(a) \/ WriteEnds(a)
          PROVE  FALSE
      BY <2>1, <2>4 DEF WriteFile, WriteEnds, MustWrite
    <2>5. CASE \E c \in Users : ReadFile(c) \/ WorkOnFile(c) \/ FileUnseen(c)
                                \/ OthersEnd(c)
      BY <2>1, <2>5
         DEF ReadFile, WorkOnFile, FileUnseen, OthersEnd, InMemory, layerVars
    <2>6. CASE TileRead \/ TileUnreadable
      BY <2>1, <2>6 DEF TileRead, TileUnreadable, MustRead
    <2>7. CASE RemoveFile \/ \E t \in Tiles : RemoveOther(t)
      BY <2>1, <2>7 DEF RemoveFile, RemoveOther, InMemory
    <2>8. CASE FilesCrash
      BY <2>8, RestingIsLocals DEF FilesCrash
    <2> QED
      BY <1>1, <2>2, <2>3, <2>4, <2>5, <2>6, <2>7, <2>8 DEF FilesNext
  <1>3. ASSUME at["purge"] = "idle", ~Purge
        PROVE  FALSE
    <2> USE <1>3 DEF FilesInv, ItemInv, ItemTypeOK, Proceed
    <2>1. CASE UNCHANGED filesVars
      BY <2>1 DEF filesVars, itemVars
    <2>2. CASE Elsewhere \/ \E t \in Tiles : RemoveOther(t)
      BY <2>2 DEF Elsewhere, RemoveOther, itemVars
    <2>3. ASSUME NEW a \in Actors, WriteFile(a)
          PROVE  FALSE
      BY <2>3 DEF WriteFile, BeginCall
    <2>4. ASSUME NEW a \in Actors, WriteEnds(a)
          PROVE  FALSE
      BY <2>4 DEF WriteEnds, ReturnCall, Throw, Over
    <2>5. ASSUME NEW c \in Users, ReadFile(c)
          PROVE  FALSE
      BY <2>5 DEF ReadFile, BeginCall
    <2>6. ASSUME NEW c \in Users, WorkOnFile(c)
          PROVE  FALSE
      BY <2>6, WorkOfCall
    <2>7. ASSUME NEW c \in Users, FileUnseen(c) \/ OthersEnd(c)
          PROVE  FALSE
      BY <2>7 DEF FileUnseen, StatFails, OthersEnd, ReturnCall, Throw, Over
    <2>8. CASE TileRead \/ TileUnreadable
      BY <2>8 DEF TileRead, TileUnreadable, ReturnCall, Throw, Over
    <2>9. CASE RemoveFile \/ FilesCrash
      BY <2>9 DEF RemoveFile, RemoveStorage, FilesCrash, ItemCrash
    <2> QED
      BY <2>1, <2>2, <2>3, <2>4, <2>5, <2>6, <2>7, <2>8, <2>9 DEF FilesNext
  <1> QED
    BY <1>1, <1>2, <1>3

(* Nobody writes to the storage while it is deleted: a purge begins with   *)
(* the chain drained and no save under way, and nothing is rendered until  *)
(* it has returned.                                                        *)
THEOREM NobodyWritesInAPurge ==
  FilesSpec => [](at["purge"] # "idle" => Inside = {})
  <1>1. FilesInit => PurgeAlone
    BY ActorsAreUsers DEF FilesInit, ItemInit, PurgeAlone
  <1>2. FilesInv /\ PurgeAlone => (at["purge"] # "idle" => Inside = {})
    <2> SUFFICES ASSUME FilesInv, PurgeAlone, at["purge"] # "idle",
                        NEW c \in Inside
                 PROVE  FALSE
      OBVIOUS
    <2>1. c \in Users /\ at[c] \in WriterSteps
      BY DEF Inside
    <2>2. c \in Actors /\ MustWrite(c)
      BY <2>1, WriterSaves DEF FilesInv
    <2> QED
      BY <2>2 DEF PurgeAlone, MustWrite
  <1> QED
    BY <1>1, <1>2, FilesInvariance, PurgeStaysAlone, PTL DEF FilesSpec
==============================================================================
