---------------------------- MODULE CacheProofs ----------------------------
(***************************************************************************)
(* Theorems about the two caches that lie before a disk: the chunks of a   *)
(* world (ChunkGrid) and the cells of the render state (CellStorage).      *)
(*                                                                         *)
(* The chunk cache alone says too little: a load that was begun before a   *)
(* scan ends after it.  What is on its way into the cache, a load that is  *)
(* still the current one of its chunk and the chunk that a worker warms    *)
(* its region with, must not be older than the hash either (Fresh).  That  *)
(* a preload is complete needs to know what each worker has been served    *)
(* so far (Served).                                                        *)
(*                                                                         *)
(* The cells are followed one position at a time (Fine), the positions     *)
(* that an I/O failure or two clients at a time have hit left out: cell,   *)
(* disk, and whatever a client holds of either between two of its steps.   *)
(***************************************************************************)
EXTENDS ChunkGrid, CellStorage, FiniteSetTheorems, TLAPS

(***************************************************************************)
(* The chunk cache.                                                        *)
(***************************************************************************)
NotOlder(content, c) ==
  content \in Versions /\ hash[c] # None => content >= hash[c]

LoadIsFresh(l) ==
  \A c \in Chunks :
    inFlight[c] = l /\ loads[l].at = "read" => NotOlder(loads[l].content, c)

WarmIsFresh(w) ==
  worker[w].at = "accept" =>
    /\ worker[w].next \in worker[w].region
    /\ NotOlder(worker[w].content, worker[w].next)

Fresh ==
  /\ \A c \in Chunks : NotOlder(world[c], c) /\ NotOlder(cache[c], c)
  /\ \A l \in 1 .. MaxLoads : LoadIsFresh(l)
  /\ \A w \in Workers : WarmIsFresh(w)

(* Who waits has not come to the end of its window.                        *)
WithinWindow ==
  \A w \in Workers : worker[w].at = "wait" => worker[w].next <= worker[w].last

IInv == TypeOK /\ WithinWindow /\ Fresh
------------------------------------------------------------------------------
LEMMA Numbers ==
  /\ 1 \in Chunks /\ LastChunk \in Nat \ {0} /\ Chunks = 1 .. LastChunk
  /\ Versions = 0 .. MaxVersion /\ MaxVersion \in Nat /\ MaxLoads \in Nat
  /\ Errored \notin Versions /\ None \notin Versions /\ None # Errored
  /\ Errored \in Nat /\ None \in Nat
  BY GridAssumption DEF Chunks, Versions, Errored, None

LEMMA Partition ==
  /\ \A g \in Regions : g \subseteq Chunks
  /\ \A g, h \in Regions : g # h => g \cap h = {}
  BY GridAssumption

LEMMA NextChunk ==
  ASSUME NEW c \in Chunks
  PROVE  c \in 1 .. LastChunk + 1 /\ c + 1 \in 1 .. LastChunk + 1
  BY Numbers

(* The current load of a chunk loads that chunk.                           *)
LEMMA CurrentLoad ==
  ASSUME TypeOK, NEW c \in Chunks, NEW l \in 1 .. MaxLoads, inFlight[c] = l
  PROVE  loads[l].chunk = c /\ loads[l].at \in {"reading", "read"}
  <1>1. inFlight[c] # 0
    BY Numbers
  <1> QED
    BY <1>1 DEF TypeOK

LEMMA DroppingChanges ==
  ASSUME worker \in [Workers -> WorkerStates], NEW g
  PROVE  /\ Dropping(g) \in [Workers -> WorkerStates]
         /\ \A v \in Workers :
              /\ Dropping(g)[v].at = worker[v].at
              /\ Dropping(g)[v].next = worker[v].next
              /\ Dropping(g)[v].last = worker[v].last
              /\ Dropping(g)[v].region = worker[v].region
              /\ Dropping(g)[v].content = worker[v].content
  <1> DEFINE d(v) == worker[v].dropped \cup (Asked(v) \cap g)
             s(v) == [worker[v] EXCEPT !.dropped = d(v)]
  <1>1. Dropping(g) = [v \in Workers |-> s(v)]
    BY DEF Dropping
  <1>2. ASSUME NEW v \in Workers
        PROVE  /\ s(v) \in WorkerStates
               /\ s(v).at = worker[v].at /\ s(v).next = worker[v].next
               /\ s(v).last = worker[v].last
               /\ s(v).region = worker[v].region
               /\ s(v).content = worker[v].content
    <2>1. worker[v] \in WorkerStates
      OBVIOUS
    <2>2. /\ worker[v].window \subseteq Chunks
          /\ worker[v].dropped \subseteq Chunks
      BY <2>1 DEF WorkerStates
    <2>3. Asked(v) \subseteq worker[v].window
      BY DEF Asked
    <2>4. d(v) \subseteq Chunks
      BY <2>2, <2>3
    <2> HIDE DEF d
    <2> QED
      BY <2>1, <2>4 DEF WorkerStates
  <1> HIDE DEF s
  <1> QED
    BY <1>1, <1>2

LEMMA FreeIsLoad == Free \in Loads /\ Free.at = "free"
  BY Numbers DEF Free, Loads

LEMMA IdleIsWorker == Idle \in WorkerStates /\ Idle.at = "idle"
  BY Numbers DEF Idle, WorkerStates

LEMMA InitIInv == Init => IInv
  <1> SUFFICES ASSUME Init PROVE IInv
    OBVIOUS
  <1>1. TypeOK
    BY Numbers, FreeIsLoad, IdleIsWorker DEF Init, TypeOK
  <1>2. WithinWindow
    BY IdleIsWorker DEF Init, WithinWindow
  <1>3. Fresh
    BY Numbers, FreeIsLoad, IdleIsWorker
       DEF Init, Fresh, NotOlder, LoadIsFresh, WarmIsFresh
  <1> QED
    BY <1>1, <1>2, <1>3 DEF IInv
------------------------------------------------------------------------------
(* A worker that moves while nothing else does.                            *)
LEMMA WorkerMoves ==
  ASSUME IInv, NEW w \in Workers, NEW s \in WorkerStates,
         worker' = [worker EXCEPT ![w] = s],
         s.at = "wait" => s.next <= s.last,
         s.at = "accept" => s.next \in s.region /\ NotOlder(s.content, s.next),
         UNCHANGED <<world, hash, cache, inFlight, loads>>
  PROVE  IInv'
  <1>1. TypeOK'
    BY DEF IInv, TypeOK
  <1>2. WithinWindow'
    BY DEF IInv, TypeOK, WithinWindow
  <1>3. Fresh'
    BY DEF IInv, TypeOK, Fresh, NotOlder, LoadIsFresh, WarmIsFresh
  <1> QED
    BY <1>1, <1>2, <1>3 DEF IInv

LEMMA InitRegionKeeps ==
  ASSUME IInv, NEW w \in Workers, NEW g \in Regions, InitRegion(w, g)
  PROVE  IInv'
  <1> USE DEF IInv, TypeOK
  <1>1. /\ hash' = [c \in Chunks |-> IF c \in g THEN world[c] ELSE hash[c]]
        /\ cache' = [c \in Chunks |-> IF c \in g THEN None ELSE cache[c]]
        /\ inFlight' = [c \in Chunks |-> IF c \in g THEN 0 ELSE inFlight[c]]
        /\ \A v \in Workers : worker[v].region # g
        /\ UNCHANGED <<world, loads>>
    BY DEF InitRegion, Invalidate
  <1>2. worker \in [Workers -> WorkerStates]
    OBVIOUS
  <1> DEFINE dropping == Dropping(g)
  <1>3. /\ dropping \in [Workers -> WorkerStates]
        /\ \A v \in Workers :
             /\ dropping[v].at = worker[v].at
             /\ dropping[v].next = worker[v].next
             /\ dropping[v].last = worker[v].last
             /\ dropping[v].region = worker[v].region
             /\ dropping[v].content = worker[v].content
    BY <1>2, DroppingChanges
  <1>4. /\ worker' \in [Workers -> WorkerStates]
        /\ \A v \in Workers :
             worker'[v].at \in {"wait", "accept"} =>
               /\ worker'[v].at = worker[v].at
               /\ worker'[v].next = worker[v].next
               /\ worker'[v].last = worker[v].last
               /\ worker'[v].region = worker[v].region
               /\ worker'[v].content = worker[v].content
    <2>1. \/ worker' = dropping
          \/ \E c \in g : worker' = [dropping EXCEPT
               ![w].at = "warm", ![w].region = g, ![w].next = c]
      BY DEF InitRegion
    <2> HIDE DEF dropping
    <2>2. CASE worker' = dropping
      BY <1>3, <2>2
    <2>3. ASSUME NEW c \in g,
                 worker' = [dropping EXCEPT
                   ![w].at = "warm", ![w].region = g, ![w].next = c]
          PROVE  <1>4!1 /\ <1>4!2
      <3> DEFINE s == [dropping[w] EXCEPT !.at = "warm", !.region = g,
                                          !.next = c]
      <3>1. c \in 1 .. LastChunk + 1
        BY Partition, NextChunk
      <3>2. s \in WorkerStates /\ s.at = "warm"
        <4>1. dropping[w] \in WorkerStates
          BY <1>3
        <4>2. g \in Regions \cup {{}}
          OBVIOUS
        <4> QED
          BY <3>1, <4>1, <4>2 DEF WorkerStates
      <3>3. worker' = [dropping EXCEPT ![w] = s]
        BY <1>3, <2>3
      <3> HIDE DEF s
      <3> QED
        BY <1>3, <3>2, <3>3
    <2> QED
      BY <2>1, <2>2, <2>3
  <1> HIDE DEF dropping
  <1>5. TypeOK'
    BY <1>1, <1>4, Numbers
  <1>6. WithinWindow'
    BY <1>4 DEF WithinWindow
  <1>7. \A c \in Chunks : NotOlder(world[c], c)' /\ NotOlder(cache[c], c)'
    <2> TAKE c \in Chunks
    <2>1. world[c] >= world[c] /\ None \notin Versions
      BY Numbers
    <2> QED
      BY <1>1, <2>1 DEF Fresh, NotOlder
  <1>8. \A l \in 1 .. MaxLoads : LoadIsFresh(l)'
    BY <1>1 DEF Fresh, NotOlder, LoadIsFresh
  <1>9. ASSUME NEW v \in Workers, worker'[v].at = "accept"
        PROVE  /\ worker'[v].next \in worker'[v].region
               /\ NotOlder(worker[v].content, worker[v].next)'
    <2>1. /\ worker[v].at = "accept" /\ worker[v].next \in worker[v].region
          /\ NotOlder(worker[v].content, worker[v].next)
          /\ worker'[v].next = worker[v].next
          /\ worker'[v].region = worker[v].region
          /\ worker'[v].content = worker[v].content
      BY <1>4, <1>9 DEF Fresh, WarmIsFresh
    <2>2. worker[v].region \in Regions /\ worker[v].region # g
      BY <1>1, <2>1 DEF WorkerStates
    <2>3. worker[v].next \in Chunks /\ worker[v].next \notin g
      BY <2>1, <2>2, Partition
    <2>4. hash'[worker[v].next] = hash[worker[v].next]
      BY <1>1, <2>3
    <2> QED
      BY <2>1, <2>4 DEF NotOlder
  <1>10. Fresh'
    BY <1>7, <1>8, <1>9 DEF Fresh, WarmIsFresh
  <1> QED
    BY <1>5, <1>6, <1>10

LEMMA WarmReadKeeps ==
  ASSUME IInv, NEW w \in Workers, WarmRead(w)
  PROVE  IInv'
  <1> DEFINE c == worker[w].next
             s == [worker[w] EXCEPT !.at = "accept", !.content = world[c]]
  <1>1. worker[w] \in WorkerStates /\ c \in worker[w].region /\ c \in Chunks
    BY Partition DEF IInv, TypeOK, WarmRead, WorkerStates
  <1>2. /\ s \in WorkerStates /\ s.at = "accept"
        /\ s.next = c /\ s.region = worker[w].region /\ s.content = world[c]
    BY <1>1 DEF WorkerStates, IInv, TypeOK
  <1>3. NotOlder(world[c], c)
    BY <1>1 DEF IInv, Fresh
  <1>4. /\ worker' = [worker EXCEPT ![w] = s]
        /\ UNCHANGED <<world, hash, cache, inFlight, loads>>
    BY DEF WarmRead
  <1> HIDE DEF s
  <1> QED
    BY <1>1, <1>2, <1>3, <1>4, WorkerMoves

LEMMA WarmAcceptKeeps ==
  ASSUME IInv, NEW w \in Workers, WarmAccept(w)
  PROVE  IInv'
  <1> DEFINE c == worker[w].next
             s == [worker[w] EXCEPT !.at = "warm", !.next = c + 1,
                                    !.content = Errored]
  <1>1. /\ worker[w] \in WorkerStates /\ c \in worker[w].region
        /\ NotOlder(worker[w].content, c)
    BY DEF IInv, TypeOK, Fresh, WarmIsFresh, WarmAccept
  <1>2. c \in Chunks /\ worker[w].content \in Versions \cup {Errored}
    BY <1>1, Partition DEF WorkerStates
  <1>3. s \in WorkerStates /\ s.at = "warm"
    <2>1. c + 1 \in 1 .. LastChunk + 1
      BY <1>2, NextChunk
    <2> HIDE DEF c
    <2> QED
      BY <1>1, <2>1 DEF WorkerStates
  <1>4. /\ worker' = [worker EXCEPT ![w] = s]
        /\ cache' \in {cache, [cache EXCEPT ![c] = worker[w].content]}
        /\ UNCHANGED <<world, hash, inFlight, loads>>
    BY DEF WarmAccept
  <1> HIDE DEF c, s
  <1>5. TypeOK'
    BY <1>2, <1>3, <1>4 DEF IInv, TypeOK
  <1>6. WithinWindow'
    BY <1>3, <1>4 DEF IInv, TypeOK, WithinWindow
  <1>7. \A d \in Chunks : NotOlder(world[d], d)' /\ NotOlder(cache[d], d)'
    BY <1>1, <1>2, <1>4 DEF IInv, TypeOK, Fresh, NotOlder
  <1>8. \A l \in 1 .. MaxLoads : LoadIsFresh(l)'
    BY <1>4 DEF IInv, Fresh, LoadIsFresh, NotOlder
  <1>9. \A v \in Workers : WarmIsFresh(v)'
    BY <1>3, <1>4 DEF IInv, TypeOK, Fresh, WarmIsFresh, NotOlder
  <1> QED
    BY <1>5, <1>6, <1>7, <1>8, <1>9 DEF IInv, Fresh

LEMMA BecomesIdle ==
  ASSUME IInv, NEW w \in Workers, WarmEnd(w)
  PROVE  IInv'
  BY WorkerMoves, IdleIsWorker DEF WarmEnd

LEMMA BeginKeeps ==
  ASSUME IInv, NEW w \in Workers, NEW g \in Regions,
         NEW window \in Windows, Begin(w, g, window)
  PROVE  IInv'
  <1> DEFINE s == [Idle EXCEPT !.at = "preload", !.region = g,
                      !.next = window[1], !.last = window[2],
                      !.window = window[1] .. window[2]]
  <1>1. window[1] \in Chunks /\ window[2] \in Chunks
    BY GridAssumption
  <1>2. s \in WorkerStates /\ s.at = "preload"
    <2>1. window[1] \in 1 .. LastChunk + 1
      BY <1>1, NextChunk
    <2>2. window[1] .. window[2] \subseteq Chunks
      BY <1>1, Numbers
    <2> QED
      BY <1>1, <2>1, <2>2, IdleIsWorker DEF WorkerStates
  <1>3. /\ worker' = [worker EXCEPT ![w] = s]
        /\ UNCHANGED <<world, hash, cache, inFlight, loads>>
    BY DEF Begin
  <1> HIDE DEF s
  <1> QED
    BY <1>2, <1>3, WorkerMoves
------------------------------------------------------------------------------
(* A load that starts takes the place of one that is free, so no chunk is  *)
(* loaded by it yet.                                                       *)
LEMMA StartLoadKeeps ==
  ASSUME IInv, NEW c \in Chunks, NEW l \in 1 .. MaxLoads, StartLoad(c, l),
         UNCHANGED <<world, hash, cache>>,
         worker' \in [Workers -> WorkerStates],
         \A v \in Workers : worker'[v].at = "wait"
                              => worker'[v].next <= worker'[v].last,
         \A v \in Workers : worker'[v].at = "accept"
                              => worker'[v] = worker[v]
  PROVE  IInv'
  <1> DEFINE load == [Free EXCEPT !.chunk = c, !.at = "reading"]
  <1>1. load \in Loads /\ load.chunk = c /\ load.at = "reading"
    BY FreeIsLoad DEF Loads
  <1>2. /\ loads[l].at = "free" /\ loads' = [loads EXCEPT ![l] = load]
        /\ inFlight' = [inFlight EXCEPT ![c] = l]
    BY DEF StartLoad
  <1>3. \A d \in Chunks : inFlight[d] # l
    BY <1>2 DEF IInv, TypeOK
  <1> HIDE DEF load
  <1>4. TypeOK'
    <2>1. /\ loads' \in [1 .. MaxLoads -> Loads]
          /\ inFlight' \in [Chunks -> 0 .. MaxLoads]
      <3>1. l \in 0 .. MaxLoads
        BY Numbers
      <3> QED
        BY <1>1, <1>2, <3>1 DEF IInv, TypeOK
    <2>2. ASSUME NEW d \in Chunks, inFlight'[d] # 0
          PROVE  /\ loads'[inFlight'[d]].chunk = d
                 /\ loads'[inFlight'[d]].at \in {"reading", "read"}
      <3>1. CASE d = c
        BY <1>1, <1>2, <3>1 DEF IInv, TypeOK
      <3>2. CASE d # c
        <4>1. inFlight'[d] = inFlight[d] /\ inFlight[d] # l
          BY <1>2, <1>3, <3>2 DEF IInv, TypeOK
        <4>2. loads'[inFlight[d]] = loads[inFlight[d]]
          <5>1. inFlight[d] \in 1 .. MaxLoads
            BY <2>2, <4>1, Numbers DEF IInv, TypeOK
          <5> QED
            BY <1>2, <4>1, <5>1 DEF IInv, TypeOK
        <4> QED
          BY <2>2, <4>1, <4>2 DEF IInv, TypeOK
      <3> QED
        BY <3>1, <3>2
    <2> QED
      BY <2>1, <2>2 DEF IInv, TypeOK
  <1>5. WithinWindow'
    BY DEF WithinWindow
  <1>6. \A k \in 1 .. MaxLoads : LoadIsFresh(k)'
    BY <1>1, <1>2, <1>3 DEF IInv, TypeOK, Fresh, LoadIsFresh, NotOlder
  <1>7. \A v \in Workers : WarmIsFresh(v)'
    BY DEF IInv, Fresh, WarmIsFresh, NotOlder
  <1> QED
    BY <1>4, <1>5, <1>6, <1>7 DEF IInv, Fresh, NotOlder

LEMMA GetChunkKeeps ==
  ASSUME IInv, NEW w \in Workers, GetChunk(w)
  PROVE  IInv'
  <1> DEFINE c == worker[w].next
  <1>1. /\ worker[w] \in WorkerStates /\ worker[w].at = "preload"
        /\ c <= worker[w].last /\ c \in Chunks
    <2>1. /\ worker[w] \in WorkerStates /\ worker[w].at = "preload"
          /\ c <= worker[w].last
      BY DEF IInv, TypeOK, GetChunk
    <2>2. c \in 1 .. LastChunk + 1 /\ worker[w].last \in 1 .. LastChunk
      BY <2>1, Numbers DEF WorkerStates
    <2> QED
      BY <2>1, <2>2, Numbers
  <1>2. CASE /\ worker' = [worker EXCEPT ![w].next = c + 1]
             /\ UNCHANGED <<world, hash, cache, inFlight, loads>>
    <2> DEFINE s == [worker[w] EXCEPT !.next = c + 1]
    <2>1. s \in WorkerStates /\ s.at = "preload"
      <3>1. c + 1 \in 1 .. LastChunk + 1
        BY <1>1, NextChunk
      <3> QED
        BY <1>1, <3>1 DEF WorkerStates
    <2>2. worker' = [worker EXCEPT ![w] = s]
      BY <1>2
    <2> HIDE DEF s
    <2> QED
      BY <1>2, <2>1, <2>2, WorkerMoves
  <1>3. ASSUME NEW l \in 0 .. MaxLoads, Awaits(w, l)
        PROVE  LET s == [worker[w] EXCEPT !.at = "wait", !.load = l]
               IN  /\ worker' = [worker EXCEPT ![w] = s]
                   /\ s \in WorkerStates /\ s.at = "wait"
                   /\ s.next <= s.last
    BY <1>1, <1>3 DEF Awaits, WorkerStates
  <1>4. CASE /\ Awaits(w, inFlight[c])
             /\ UNCHANGED <<world, hash, cache, inFlight, loads>>
    <2>1. inFlight[c] \in 0 .. MaxLoads
      BY <1>1 DEF IInv, TypeOK
    <2> QED
      BY <1>3, <1>4, <2>1, WorkerMoves
  <1>5. ASSUME NEW l \in 1 .. MaxLoads, StartLoad(c, l), Awaits(w, l),
               UNCHANGED <<world, hash, cache>>
        PROVE  IInv'
    <2>1. l \in 0 .. MaxLoads
      BY Numbers
    <2> DEFINE s == [worker[w] EXCEPT !.at = "wait", !.load = l]
    <2>2. /\ worker' = [worker EXCEPT ![w] = s]
          /\ s \in WorkerStates /\ s.at = "wait" /\ s.next <= s.last
      BY <1>3, <1>5, <2>1
    <2> HIDE DEF s
    <2>3. worker' \in [Workers -> WorkerStates]
      BY <2>2 DEF IInv, TypeOK
    <2>4. \A v \in Workers : worker'[v].at = "wait"
                               => worker'[v].next <= worker'[v].last
      BY <2>2 DEF IInv, TypeOK, WithinWindow
    <2>5. \A v \in Workers : worker'[v].at = "accept"
                               => worker'[v] = worker[v]
      BY <2>2 DEF IInv, TypeOK
    <2> HIDE DEF c
    <2> QED
      BY <1>1, <1>5, <2>3, <2>4, <2>5, StartLoadKeeps
  <1>6. DOMAIN loads = 1 .. MaxLoads
    BY DEF IInv, TypeOK
  <1> QED
    BY <1>2, <1>4, <1>5, <1>6 DEF GetChunk

LEMMA DrawKeeps ==
  ASSUME IInv, NEW w \in Workers, Draw(w)
  PROVE  IInv'
  <1>1. /\ worker' = [worker EXCEPT ![w] = Idle]
        /\ UNCHANGED <<world, hash, cache>>
    BY DEF Draw
  <1>2. CASE UNCHANGED <<loads, inFlight>>
    BY <1>1, <1>2, WorkerMoves, IdleIsWorker
  <1>3. ASSUME NEW c \in Chunks, NEW l \in 1 .. MaxLoads, StartLoad(c, l)
        PROVE  IInv'
    <2>1. worker' \in [Workers -> WorkerStates]
      BY <1>1, IdleIsWorker DEF IInv, TypeOK
    <2>2. \A v \in Workers : worker'[v].at = "wait"
                               => worker'[v].next <= worker'[v].last
      BY <1>1, IdleIsWorker DEF IInv, TypeOK, WithinWindow
    <2>3. \A v \in Workers : worker'[v].at = "accept"
                               => worker'[v] = worker[v]
      BY <1>1, IdleIsWorker DEF IInv, TypeOK
    <2> QED
      BY <1>1, <1>3, <2>1, <2>2, <2>3, StartLoadKeeps
  <1>4. worker[w].window \subseteq Chunks /\ DOMAIN loads = 1 .. MaxLoads
    BY DEF IInv, TypeOK, WorkerStates
  <1> QED
    BY <1>2, <1>3, <1>4 DEF Draw
------------------------------------------------------------------------------
(* A load that no chunk has for its current one may change as it likes.    *)
LEMMA LoadChanges ==
  ASSUME IInv, NEW l \in 1 .. MaxLoads, NEW load \in Loads,
         loads' = [loads EXCEPT ![l] = load],
         inFlight' \in [Chunks -> 0 .. MaxLoads],
         \A c \in Chunks : inFlight'[c] \in {inFlight[c], 0},
         \A c \in Chunks : inFlight'[c] = l =>
            /\ load.chunk = c /\ load.at \in {"reading", "read"}
            /\ load.at = "read" => NotOlder(load.content, c),
         cache' \in [Chunks -> Versions \cup {Errored, None}],
         \A c \in Chunks : NotOlder(cache'[c], c),
         UNCHANGED <<world, hash>>,
         worker' \in [Workers -> WorkerStates],
         \A v \in Workers : worker'[v].at = "wait"
                              => worker'[v].next <= worker'[v].last,
         \A v \in Workers : worker'[v].at = "accept"
                              => worker'[v] = worker[v]
  PROVE  IInv'
  <1>1. TypeOK'
    BY DEF IInv, TypeOK
  <1>2. WithinWindow'
    BY DEF WithinWindow
  <1>3. \A k \in 1 .. MaxLoads : LoadIsFresh(k)'
    BY DEF IInv, TypeOK, Fresh, LoadIsFresh, NotOlder
  <1>4. \A v \in Workers : WarmIsFresh(v)'
    BY DEF IInv, Fresh, WarmIsFresh, NotOlder
  <1>5. \A c \in Chunks : NotOlder(world[c], c)' /\ NotOlder(cache[c], c)'
    BY DEF IInv, Fresh, NotOlder
  <1> QED
    BY <1>1, <1>2, <1>3, <1>4, <1>5 DEF IInv, Fresh

LEMMA ResumeKeeps ==
  ASSUME IInv, NEW w \in Workers, Resume(w)
  PROVE  IInv'
  <1> DEFINE l == worker[w].load
             s == [worker[w] EXCEPT !.at = "preload", !.next = @ + 1,
                                    !.load = 0]
             load == IF \E v \in Workers \ {w} : worker[v].load = l
                     THEN loads[l] ELSE Free
  <1>1. /\ worker[w] \in WorkerStates /\ worker[w].at = "wait"
        /\ worker[w].next <= worker[w].last
        /\ loads[l].at = "done"
    BY DEF IInv, TypeOK, WithinWindow, Resume
  <1>2. s \in WorkerStates /\ s.at = "preload"
    <2>1. /\ worker[w].next \in 1 .. LastChunk + 1
          /\ worker[w].last \in 1 .. LastChunk
      BY <1>1, Numbers DEF WorkerStates
    <2>2. worker[w].next \in Chunks
      BY <1>1, <2>1, Numbers
    <2>3. worker[w].next + 1 \in 1 .. LastChunk + 1 /\ 0 \in 0 .. MaxLoads
      BY <2>2, NextChunk, Numbers
    <2> QED
      BY <1>1, <2>3 DEF WorkerStates
  <1>3. /\ worker' = [worker EXCEPT ![w] = s]
        /\ loads' = [loads EXCEPT ![l] = load]
        /\ UNCHANGED <<world, hash, cache, inFlight>>
    BY DEF Resume
  <1>4. /\ worker' \in [Workers -> WorkerStates]
        /\ \A v \in Workers : worker'[v].at = "wait"
                                => worker'[v].next <= worker'[v].last
        /\ \A v \in Workers : worker'[v].at = "accept"
                                => worker'[v] = worker[v]
    <2> HIDE DEF s
    <2> QED
      BY <1>2, <1>3 DEF IInv, TypeOK, WithinWindow
  <1>5. CASE l \in 1 .. MaxLoads
    <2>1. load \in Loads
      BY <1>5, FreeIsLoad DEF IInv, TypeOK
    <2>2. \A c \in Chunks : inFlight[c] # l
      BY <1>1, <1>5, CurrentLoad DEF IInv
    <2>3. \A c \in Chunks : NotOlder(cache[c], c)
      BY DEF IInv, Fresh
    <2>4. /\ inFlight \in [Chunks -> 0 .. MaxLoads]
          /\ cache \in [Chunks -> Versions \cup {Errored, None}]
      BY DEF IInv, TypeOK
    <2> HIDE DEF load, s, l
    <2> QED
      BY <1>3, <1>4, <1>5, <2>1, <2>2, <2>3, <2>4, LoadChanges
  <1>6. CASE l \notin 1 .. MaxLoads
    <2>1. loads' = loads
      BY <1>3, <1>6 DEF IInv, TypeOK
    <2> HIDE DEF s, l
    <2> QED
      BY <1>1, <1>2, <1>3, <2>1, WorkerMoves
  <1> QED
    BY <1>5, <1>6

LEMMA ReadChunkKeeps ==
  ASSUME IInv, NEW l \in 1 .. MaxLoads, ReadChunk(l)
  PROVE  IInv'
  <1>1. /\ loads[l] \in Loads /\ loads[l].at = "reading"
        /\ UNCHANGED <<world, hash, cache, inFlight, worker>>
    BY DEF IInv, TypeOK, ReadChunk
  <1>2. PICK v \in {world[loads[l].chunk], Errored} :
          loads' = [loads EXCEPT ![l].at = "read", ![l].content = v]
    BY DEF ReadChunk
  <1> DEFINE load == [loads[l] EXCEPT !.at = "read", !.content = v]
  <1>3. v \in Versions \cup {Errored} /\ NotOlder(v, loads[l].chunk)
    <2>1. loads[l].chunk \in Chunks
      BY <1>1 DEF Loads
    <2>2. /\ world[loads[l].chunk] \in Versions
          /\ NotOlder(world[loads[l].chunk], loads[l].chunk)
      BY <2>1 DEF IInv, TypeOK, Fresh
    <2>3. NotOlder(Errored, loads[l].chunk)
      BY Numbers DEF NotOlder
    <2> QED
      BY <2>2, <2>3
  <1>4. /\ load \in Loads /\ load.chunk = loads[l].chunk
        /\ load.at = "read" /\ load.content = v
    BY <1>1, <1>3 DEF Loads
  <1>5. loads' = [loads EXCEPT ![l] = load]
    BY <1>2 DEF IInv, TypeOK
  <1>6. \A c \in Chunks : inFlight[c] = l => loads[l].chunk = c
    BY CurrentLoad DEF IInv
  <1>7. \A c \in Chunks : NotOlder(cache[c], c)
    BY DEF IInv, Fresh
  <1>8. /\ inFlight \in [Chunks -> 0 .. MaxLoads]
        /\ cache \in [Chunks -> Versions \cup {Errored, None}]
        /\ worker \in [Workers -> WorkerStates]
        /\ WithinWindow
    BY DEF IInv, TypeOK
  <1> HIDE DEF load
  <1>9. \A c \in Chunks : inFlight'[c] = l =>
          /\ load.chunk = c /\ load.at \in {"reading", "read"}
          /\ NotOlder(load.content, c)
    BY <1>1, <1>3, <1>4, <1>6
  <1>10. \A c \in Chunks :
           inFlight'[c] \in {inFlight[c], 0} /\ NotOlder(cache'[c], c)
    BY <1>1, <1>7
  <1>11. \A w \in Workers :
           /\ worker'[w].at = "wait" => worker'[w].next <= worker'[w].last
           /\ worker'[w].at = "accept" => worker'[w] = worker[w]
    BY <1>1, <1>8 DEF WithinWindow
  <1>12. /\ inFlight' \in [Chunks -> 0 .. MaxLoads]
         /\ cache' \in [Chunks -> Versions \cup {Errored, None}]
         /\ worker' \in [Workers -> WorkerStates]
         /\ UNCHANGED <<world, hash>>
    BY <1>1, <1>8
  <1> QED
    BY <1>4, <1>5, <1>9, <1>10, <1>11, <1>12, LoadChanges

(* Only the current load of its chunk is put into the cache.               *)
LEMMA PublishKeeps ==
  ASSUME IInv, NEW l \in 1 .. MaxLoads, Publish(l)
  PROVE  IInv'
  <1> DEFINE c == loads[l].chunk
             load == IF \E w \in Workers : worker[w].load = l
                     THEN [Free EXCEPT !.at = "done"] ELSE Free
  <1>1. /\ loads[l] \in Loads /\ c \in Chunks /\ loads[l].at = "read"
        /\ loads[l].content \in Versions \cup {Errored}
    BY DEF IInv, TypeOK, Publish, Loads
  <1>2. load \in Loads
    BY FreeIsLoad DEF Loads
  <1>3. /\ loads' = [loads EXCEPT ![l] = load]
        /\ UNCHANGED <<world, hash, worker>>
    BY DEF Publish, Finished
  <1>4. \A d \in Chunks : inFlight[d] = l => d = c
    BY CurrentLoad DEF IInv
  <1>5. \A d \in Chunks : NotOlder(cache[d], d)
    BY DEF IInv, Fresh
  <1>6. /\ inFlight \in [Chunks -> 0 .. MaxLoads]
        /\ cache \in [Chunks -> Versions \cup {Errored, None}]
        /\ worker \in [Workers -> WorkerStates]
        /\ WithinWindow
    BY DEF IInv, TypeOK
  <1>7. CASE inFlight[c] = l
    <2>1. /\ cache' = [cache EXCEPT ![c] = loads[l].content]
          /\ inFlight' = [inFlight EXCEPT ![c] = 0]
      BY <1>7 DEF Publish
    <2>2. NotOlder(loads[l].content, c)
      BY <1>1, <1>7 DEF IInv, Fresh, LoadIsFresh
    <2> HIDE DEF c, load
    <2>3. /\ inFlight' \in [Chunks -> 0 .. MaxLoads]
          /\ \A d \in Chunks : /\ inFlight'[d] \in {inFlight[d], 0}
                               /\ inFlight'[d] # l
      <3>1. l # 0 /\ 0 \in 0 .. MaxLoads
        BY Numbers
      <3> QED
        BY <1>1, <1>4, <1>6, <2>1, <3>1
    <2>4. /\ cache' \in [Chunks -> Versions \cup {Errored, None}]
          /\ \A d \in Chunks : NotOlder(cache'[d], d)
      BY <1>1, <1>5, <1>6, <2>1, <2>2
    <2> QED
      BY <1>2, <1>3, <1>6, <2>3, <2>4, LoadChanges DEF WithinWindow
  <1>8. CASE inFlight[c] # l
    <2>1. UNCHANGED <<cache, inFlight>>
      BY <1>8 DEF Publish
    <2>2. \A d \in Chunks : inFlight[d] # l
      BY <1>4, <1>8
    <2> HIDE DEF c, load
    <2> QED
      BY <1>2, <1>3, <1>5, <1>6, <2>1, <2>2, LoadChanges DEF WithinWindow
  <1> QED
    BY <1>7, <1>8
------------------------------------------------------------------------------
LEMMA ExpireKeeps ==
  ASSUME IInv, NEW c \in Chunks, Expire(c)
  PROVE  IInv'
  <1>1. /\ cache' = [cache EXCEPT ![c] = None] /\ worker' = Dropping({c})
        /\ UNCHANGED <<world, hash, inFlight, loads>>
    BY DEF Expire
  <1>2. /\ worker' \in [Workers -> WorkerStates]
        /\ \A v \in Workers :
             /\ worker'[v].at = worker[v].at
             /\ worker'[v].next = worker[v].next
             /\ worker'[v].last = worker[v].last
             /\ worker'[v].region = worker[v].region
             /\ worker'[v].content = worker[v].content
    <2>1. worker \in [Workers -> WorkerStates]
      BY DEF IInv, TypeOK
    <2> QED
      BY <1>1, <2>1, DroppingChanges
  <1>3. TypeOK'
    BY <1>1, <1>2 DEF IInv, TypeOK
  <1>4. WithinWindow'
    BY <1>2 DEF IInv, WithinWindow
  <1>5. \A d \in Chunks : NotOlder(world[d], d)' /\ NotOlder(cache[d], d)'
    BY <1>1, Numbers DEF IInv, TypeOK, Fresh, NotOlder
  <1>6. \A l \in 1 .. MaxLoads : LoadIsFresh(l)'
    BY <1>1 DEF IInv, Fresh, LoadIsFresh, NotOlder
  <1>7. \A v \in Workers : WarmIsFresh(v)'
    BY <1>1, <1>2 DEF IInv, Fresh, WarmIsFresh, NotOlder
  <1> QED
    BY <1>3, <1>4, <1>5, <1>6, <1>7 DEF IInv, Fresh

LEMMA WorldChangesKeeps ==
  ASSUME IInv, NEW c \in Chunks, WorldChanges(c)
  PROVE  IInv'
  <1>1. /\ world[c] < MaxVersion /\ world' = [world EXCEPT ![c] = @ + 1]
        /\ UNCHANGED <<hash, cache, inFlight, loads, worker>>
    BY DEF WorldChanges
  <1>2. world[c] \in Nat /\ hash[c] \in Nat
    BY Numbers DEF IInv, TypeOK
  <1>3. TypeOK'
    <2>1. world[c] + 1 \in Versions
      BY <1>1, <1>2, Numbers
    <2>2. world' \in [Chunks -> Versions]
      BY <1>1, <2>1 DEF IInv, TypeOK
    <2> QED
      BY <1>1, <2>2 DEF IInv, TypeOK
  <1>4. \A d \in Chunks : NotOlder(world[d], d)' /\ NotOlder(cache[d], d)'
    BY <1>1, <1>2, Numbers DEF IInv, TypeOK, Fresh, NotOlder
  <1> QED
    BY <1>1, <1>3, <1>4
       DEF IInv, WithinWindow, Fresh, LoadIsFresh, WarmIsFresh, NotOlder

LEMMA StepIInv == IInv /\ [Next]_vars => IInv'
  <1> SUFFICES ASSUME IInv, [Next]_vars PROVE IInv'
    OBVIOUS
  <1>1. CASE UNCHANGED vars
    BY <1>1 DEF vars, IInv, TypeOK, WithinWindow, Fresh, NotOlder,
                LoadIsFresh, WarmIsFresh
  <1>2. ASSUME NEW l \in DOMAIN loads, LoadStep(l) PROVE IInv'
    <2>1. l \in 1 .. MaxLoads
      BY DEF IInv, TypeOK
    <2> QED
      BY <1>2, <2>1, ReadChunkKeeps, PublishKeeps DEF LoadStep
  <1>3. ASSUME NEW w \in Workers, Continue(w) PROVE IInv'
    BY <1>3, WarmReadKeeps, WarmAcceptKeeps, BecomesIdle, GetChunkKeeps,
       ResumeKeeps, DrawKeeps DEF Continue
  <1>4. ASSUME NEW w \in Workers, NEW g \in Regions,
               InitRegion(w, g) \/ \E window \in Windows : Begin(w, g, window)
        PROVE  IInv'
    BY <1>4, InitRegionKeeps, BeginKeeps
  <1>5. ASSUME NEW c \in Chunks, Expire(c) \/ WorldChanges(c) PROVE IInv'
    BY <1>5, ExpireKeeps, WorldChangesKeeps
  <1> QED
    BY <1>1, <1>2, <1>3, <1>4, <1>5 DEF Next

(* What is on its way into the cache is as fresh as the cache itself.      *)
THEOREM Inductive == Spec => []IInv
  BY InitIInv, StepIInv, PTL DEF Spec

(* The chunk cache keeps its types: the current load of a chunk is a load  *)
(* of that chunk that has not ended.                                       *)
THEOREM TypeCorrect == Spec => []TypeOK
  <1>1. IInv => TypeOK
    BY DEF IInv
  <1> QED
    BY <1>1, Inductive, PTL

(* The cache never holds a chunk older than the hash recorded for it,      *)
(* however loads, scans, warming and expiry interleave.                    *)
THEOREM CacheIsFresh == Spec => []CacheNotOlderThanHash
  <1>1. IInv => CacheNotOlderThanHash
    BY DEF IInv, Fresh, NotOlder, CacheNotOlderThanHash
  <1> QED
    BY <1>1, Inductive, PTL
------------------------------------------------------------------------------
(* What a worker has asked for stays with it: the chunk is in the cache,   *)
(* or has been dropped since, or is on its way in the load that the worker *)
(* waits for.                                                              *)
Got(v, c) == cache[c] # None \/ c \in worker[v].dropped

Served(v) ==
  /\ worker[v].at \in {"preload", "wait"} =>
       \A c \in worker[v].window :
         c <= worker[v].last /\ (c < worker[v].next => Got(v, c))
  /\ worker[v].at = "wait" =>
       LET c == worker[v].next
           l == worker[v].load
       IN  /\ l \in 1 .. MaxLoads /\ loads[l].at # "free"
           /\ c \in worker[v].window => Got(v, c) \/ inFlight[c] = l

ServedInv == IInv /\ \A v \in Workers : Served(v)

LEMMA WindowOfChunks ==
  ASSUME TypeOK, NEW v \in Workers
  PROVE  /\ worker[v] \in WorkerStates /\ worker[v].window \subseteq Chunks
         /\ worker[v].next \in Nat /\ worker[v].last \in Nat
  <1>1. worker[v] \in WorkerStates
    BY DEF TypeOK
  <1>2. /\ worker[v].window \subseteq Chunks
        /\ worker[v].next \in 1 .. LastChunk + 1 /\ worker[v].last \in Chunks
    BY <1>1 DEF WorkerStates
  <1> QED
    BY <1>1, <1>2, Numbers

(* A worker that does nothing, while loads start and end.                  *)
LEMMA OthersServed ==
  ASSUME TypeOK, NEW v \in Workers, Served(v), worker'[v] = worker[v],
         \A c \in Chunks : cache[c] # None => cache'[c] # None,
         \A c \in Chunks : inFlight[c] # 0 =>
            inFlight'[c] = inFlight[c] \/ cache'[c] # None,
         worker[v].at = "wait" => loads'[worker[v].load].at # "free"
  PROVE  Served(v)'
  <1>1. worker[v].window \subseteq Chunks
    BY WindowOfChunks
  <1>2. \A c \in worker[v].window : Got(v, c) => Got(v, c)'
    BY <1>1 DEF Got
  <1>3. ASSUME worker[v].at = "wait", worker[v].next \in worker[v].window
        PROVE  \/ Got(v, worker[v].next)'
               \/ inFlight'[worker[v].next] = worker[v].load
    <2>1. /\ worker[v].load \in 1 .. MaxLoads
          /\ \/ Got(v, worker[v].next)
             \/ inFlight[worker[v].next] = worker[v].load
      BY <1>3 DEF Served
    <2>2. worker[v].load # 0
      BY <2>1, Numbers
    <2> QED
      BY <1>1, <1>2, <1>3, <2>1, <2>2 DEF Got
  <1> QED
    BY <1>2, <1>3 DEF Served, Got

(* What leaves the cache or loses its load is dropped by who asked for it. *)
LEMMA DroppingServes ==
  ASSUME TypeOK, NEW v \in Workers, Served(v), NEW g \in SUBSET Chunks,
         worker'[v] = Dropping(g)[v],
         \A c \in Chunks \ g :
            cache'[c] = cache[c] /\ inFlight'[c] = inFlight[c],
         UNCHANGED loads
  PROVE  Served(v)'
  <1>1. /\ worker[v] \in WorkerStates /\ worker[v].window \subseteq Chunks
        /\ worker[v].next \in Nat /\ worker[v].last \in Nat
    BY WindowOfChunks
  <1>2. /\ worker'[v].at = worker[v].at /\ worker'[v].next = worker[v].next
        /\ worker'[v].last = worker[v].last
        /\ worker'[v].window = worker[v].window
        /\ worker'[v].load = worker[v].load
        /\ worker'[v].dropped = worker[v].dropped \cup (Asked(v) \cap g)
    BY <1>1 DEF Dropping, WorkerStates
  <1>3. ASSUME NEW c \in Asked(v) PROVE Got(v, c) => Got(v, c)'
    <2>1. c \in Chunks
      BY <1>1 DEF Asked
    <2> QED
      BY <1>2, <1>3, <2>1 DEF Got
  <1>4. ASSUME worker[v].at \in {"preload", "wait"},
               NEW c \in worker[v].window, c < worker[v].next
        PROVE  Got(v, c)'
    BY <1>3, <1>4 DEF Served, Asked
  <1>5. ASSUME worker[v].at = "wait", worker[v].next \in worker[v].window
        PROVE  \/ Got(v, worker[v].next)'
               \/ inFlight'[worker[v].next] = worker[v].load
    <2>1. worker[v].next \in Asked(v)
      BY <1>5 DEF Asked
    <2>2. CASE worker[v].next \in g
      BY <1>2, <2>1, <2>2 DEF Got
    <2>3. CASE worker[v].next \notin g
      <3>1. \/ Got(v, worker[v].next)
            \/ inFlight[worker[v].next] = worker[v].load
        BY <1>5 DEF Served
      <3>2. inFlight'[worker[v].next] = inFlight[worker[v].next]
        BY <1>1, <1>5, <2>3
      <3> QED
        BY <1>2, <1>3, <2>1, <3>1, <3>2 DEF Got
    <2> QED
      BY <2>2, <2>3
  <1> QED
    BY <1>2, <1>4, <1>5 DEF Served

(* Who has nothing to draw has asked for nothing.                          *)
LEMMA NothingAsked ==
  ASSUME NEW v \in Workers, worker'[v].at \notin {"preload", "wait"}
  PROVE  Served(v)'
  BY DEF Served

LEMMA InitServed == Init => \A v \in Workers : Served(v)
  BY IdleIsWorker DEF Init, Served

(* A worker that moves while the loads and the cache stay as they are.     *)
LEMMA MoveServes ==
  ASSUME ServedInv, NEW w \in Workers, NEW s,
         worker' = [worker EXCEPT ![w] = s],
         UNCHANGED <<cache, inFlight, loads>>, Served(w)'
  PROVE  \A v \in Workers : Served(v)'
  <1> SUFFICES ASSUME NEW v \in Workers, v # w PROVE Served(v)'
    OBVIOUS
  <1>1. worker'[v] = worker[v] /\ Served(v) /\ TypeOK
    BY DEF ServedInv, IInv, TypeOK
  <1>2. worker[v].at = "wait" => loads[worker[v].load].at # "free"
    BY <1>1 DEF Served
  <1> QED
    BY <1>1, <1>2, OthersServed

LEMMA MovesOn ==
  ASSUME ServedInv, NEW w \in Workers, NEW s,
         worker' = [worker EXCEPT ![w] = s],
         s.at \notin {"preload", "wait"},
         UNCHANGED <<cache, inFlight, loads>>
  PROVE  \A v \in Workers : Served(v)'
  <1>1. worker'[w] = s
    BY DEF ServedInv, IInv, TypeOK
  <1> QED
    BY <1>1, NothingAsked, MoveServes

(* A worker that is through with the chunk it had come to.                 *)
LEMMA Advances ==
  ASSUME ServedInv, NEW w \in Workers,
         worker[w].at \in {"preload", "wait"},
         worker'[w].at = "preload",
         worker'[w].next = worker[w].next + 1,
         worker'[w].last = worker[w].last,
         worker'[w].window = worker[w].window,
         worker'[w].dropped = worker[w].dropped,
         UNCHANGED cache,
         worker[w].next \in worker[w].window => Got(w, worker[w].next)
  PROVE  Served(w)'
  <1>1. /\ Served(w) /\ worker[w].window \subseteq Chunks
        /\ worker[w].next \in Nat
    BY WindowOfChunks DEF ServedInv, IInv
  <1>2. \A c \in worker[w].window : Got(w, c) => Got(w, c)'
    BY DEF Got
  <1>3. ASSUME NEW c \in worker[w].window, c < worker[w].next + 1
        PROVE  Got(w, c)
    <2>1. c \in Nat
      BY <1>1, Numbers
    <2>2. c < worker[w].next \/ c = worker[w].next
      BY <1>1, <1>3, <2>1
    <2> QED
      BY <1>1, <2>2 DEF Served
  <1> QED
    BY <1>1, <1>2, <1>3 DEF Served

(* A load that starts takes the place of one that nobody waits for.        *)
LEMMA StartServes ==
  ASSUME ServedInv, NEW c \in Chunks, NEW l \in 1 .. MaxLoads,
         StartLoad(c, l), inFlight[c] = 0, UNCHANGED cache,
         NEW v \in Workers, worker'[v] = worker[v]
  PROVE  Served(v)'
  <1>1. Served(v) /\ TypeOK
    BY DEF ServedInv, IInv
  <1>2. /\ loads[l].at = "free" /\ Free.at = "free"
        /\ loads' = [loads EXCEPT ![l] =
                       [Free EXCEPT !.chunk = c, !.at = "reading"]]
        /\ inFlight' = [inFlight EXCEPT ![c] = l]
    BY FreeIsLoad DEF StartLoad
  <1>3. \A d \in Chunks : inFlight[d] # 0 => inFlight'[d] = inFlight[d]
    BY <1>1, <1>2 DEF TypeOK
  <1>4. ASSUME worker[v].at = "wait"
        PROVE  loads'[worker[v].load].at # "free"
    <2>1. /\ worker[v].load \in 1 .. MaxLoads
          /\ loads[worker[v].load].at # "free"
      BY <1>1, <1>4 DEF Served
    <2>2. worker[v].load # l
      BY <1>2, <2>1
    <2>3. loads'[worker[v].load] = loads[worker[v].load]
      BY <1>1, <1>2, <2>1, <2>2 DEF TypeOK
    <2> QED
      BY <2>1, <2>3
  <1> QED
    BY <1>1, <1>3, <1>4, OthersServed

LEMMA GetChunkServes ==
  ASSUME ServedInv, NEW w \in Workers, GetChunk(w)
  PROVE  \A v \in Workers : Served(v)'
  <1> DEFINE c == worker[w].next
  <1>1. /\ TypeOK /\ worker[w] \in WorkerStates /\ Served(w)
        /\ worker[w].at = "preload"
        /\ c <= worker[w].last /\ c \in Nat /\ worker[w].last \in Nat
        /\ worker[w].window \subseteq Chunks
        /\ UNCHANGED <<world, hash, cache>>
    BY WindowOfChunks DEF GetChunk, ServedInv, IInv
  <1>2. c \in Chunks
    <2>1. c \in 1 .. LastChunk + 1 /\ worker[w].last \in 1 .. LastChunk
      BY <1>1, Numbers DEF WorkerStates
    <2> QED
      BY <1>1, <2>1, Numbers
  <1>3. CASE /\ cache[c] # None
             /\ worker' = [worker EXCEPT ![w].next = c + 1]
             /\ UNCHANGED <<loads, inFlight>>
    <2> DEFINE s == [worker[w] EXCEPT !.next = c + 1]
    <2>1. /\ s.at = "preload" /\ s.next = c + 1 /\ s.last = worker[w].last
          /\ s.window = worker[w].window /\ s.dropped = worker[w].dropped
      BY <1>1 DEF WorkerStates
    <2>2. worker' = [worker EXCEPT ![w] = s] /\ worker'[w] = s
      BY <1>1, <1>3 DEF TypeOK
    <2> HIDE DEF s
    <2>3. Served(w)'
      BY <1>1, <1>3, <2>1, <2>2, Advances DEF Got
    <2> QED
      BY <1>1, <1>3, <2>2, <2>3, MoveServes
  (* The worker now waits for the load of its chunk.                       *)
  <1>4. ASSUME NEW l \in 1 .. MaxLoads, Awaits(w, l), inFlight'[c] = l,
               loads'[l].at # "free"
        PROVE  Served(w)' /\ \A v \in Workers \ {w} : worker'[v] = worker[v]
    <2> DEFINE s == [worker[w] EXCEPT !.at = "wait", !.load = l]
    <2>1. /\ s.at = "wait" /\ s.load = l /\ s.next = c
          /\ s.last = worker[w].last
          /\ s.window = worker[w].window /\ s.dropped = worker[w].dropped
      BY <1>1 DEF WorkerStates
    <2>2. /\ worker'[w] = s
          /\ \A v \in Workers \ {w} : worker'[v] = worker[v]
      BY <1>1, <1>4 DEF TypeOK, Awaits
    <2> HIDE DEF s
    <2>3. \A d \in worker[w].window : Got(w, d) => Got(w, d)'
      BY <1>1, <2>1, <2>2 DEF Got
    <2>4. Served(w)'
      BY <1>1, <1>4, <2>1, <2>2, <2>3 DEF Served
    <2> QED
      BY <2>2, <2>4
  <1>5. CASE /\ inFlight[c] # 0 /\ Awaits(w, inFlight[c])
             /\ UNCHANGED <<loads, inFlight>>
    <2>1. inFlight[c] \in 1 .. MaxLoads
      <3>1. inFlight[c] \in 0 .. MaxLoads
        BY <1>1, <1>2 DEF TypeOK
      <3> QED
        BY <1>5, <3>1, Numbers
    <2>2. loads[inFlight[c]].at # "free"
      BY <1>1, <1>2, <2>1, CurrentLoad
    <2>3. Served(w)' /\ \A v \in Workers \ {w} : worker'[v] = worker[v]
      BY <1>4, <1>5, <2>1, <2>2
    <2>4. ASSUME NEW v \in Workers \ {w} PROVE Served(v)'
      <3>1. Served(v) /\ worker'[v] = worker[v]
        BY <2>3 DEF ServedInv
      <3>2. worker[v].at = "wait" => loads[worker[v].load].at # "free"
        BY <3>1 DEF Served
      <3> QED
        BY <1>1, <1>5, <3>1, <3>2, OthersServed
    <2> QED
      BY <2>3, <2>4
  <1>6. ASSUME NEW l \in 1 .. MaxLoads, StartLoad(c, l), Awaits(w, l),
               inFlight[c] = 0
        PROVE  \A v \in Workers : Served(v)'
    <2>1. inFlight'[c] = l /\ loads'[l].at = "reading"
      <3>1. [Free EXCEPT !.chunk = c, !.at = "reading"].at = "reading"
        BY DEF Free
      <3> QED
        BY <1>1, <1>2, <1>6, <3>1 DEF StartLoad, TypeOK
    <2>2. Served(w)' /\ \A v \in Workers \ {w} : worker'[v] = worker[v]
      BY <1>4, <1>6, <2>1
    <2>3. ASSUME NEW v \in Workers \ {w} PROVE Served(v)'
      <3> HIDE DEF c
      <3> QED
        BY <1>1, <1>2, <1>6, <2>2, StartServes
    <2> QED
      BY <2>2, <2>3
  <1>7. DOMAIN loads = 1 .. MaxLoads
    BY <1>1 DEF TypeOK
  <1> QED
    BY <1>3, <1>5, <1>6, <1>7 DEF GetChunk

LEMMA DrawServes ==
  ASSUME ServedInv, NEW w \in Workers, Draw(w)
  PROVE  \A v \in Workers : Served(v)'
  <1>1. /\ worker' = [worker EXCEPT ![w] = Idle]
        /\ UNCHANGED <<world, hash, cache>>
    BY DEF Draw
  <1>2. CASE UNCHANGED <<loads, inFlight>>
    BY <1>1, <1>2, MovesOn, IdleIsWorker
  <1>3. ASSUME NEW c \in Chunks, NEW l \in 1 .. MaxLoads, StartLoad(c, l),
               inFlight[c] = 0, NEW v \in Workers
        PROVE  Served(v)'
    <2>1. CASE v = w
      <3>1. worker'[v].at = "idle"
        BY <1>1, <2>1, IdleIsWorker DEF ServedInv, IInv, TypeOK
      <3> QED
        BY <3>1, NothingAsked
    <2>2. CASE v # w
      <3>1. worker'[v] = worker[v]
        BY <1>1, <2>2 DEF ServedInv, IInv, TypeOK
      <3> QED
        BY <1>1, <1>3, <3>1, StartServes
    <2> QED
      BY <2>1, <2>2
  <1>4. worker[w].window \subseteq Chunks /\ DOMAIN loads = 1 .. MaxLoads
    BY DEF ServedInv, IInv, TypeOK, WorkerStates
  <1> QED
    BY <1>2, <1>3, <1>4 DEF Draw

(* A load that has ended is not the current one of any chunk, so what its  *)
(* waiters asked for is in the cache or was dropped.                       *)
LEMMA ResumeServes ==
  ASSUME ServedInv, NEW w \in Workers, Resume(w)
  PROVE  \A v \in Workers : Served(v)'
  <1> DEFINE l == worker[w].load
             c == worker[w].next
             s == [worker[w] EXCEPT !.at = "preload", !.next = @ + 1,
                                    !.load = 0]
  <1>1. /\ TypeOK /\ worker[w] \in WorkerStates /\ Served(w)
        /\ worker[w].at = "wait" /\ loads[l].at = "done"
        /\ worker[w].window \subseteq Chunks
        /\ UNCHANGED <<world, hash, cache, inFlight>>
    BY WindowOfChunks DEF Resume, ServedInv, IInv
  <1>2. l \in 1 .. MaxLoads /\ (c \in worker[w].window => Got(w, c))
    <2>1. /\ l \in 1 .. MaxLoads
          /\ c \in worker[w].window => Got(w, c) \/ inFlight[c] = l
      BY <1>1 DEF Served
    <2>2. c \in Chunks => inFlight[c] # l
      BY <1>1, <2>1, CurrentLoad
    <2> QED
      BY <1>1, <2>1, <2>2
  <1>3. /\ s.at = "preload" /\ s.next = c + 1 /\ s.last = worker[w].last
        /\ s.window = worker[w].window /\ s.dropped = worker[w].dropped
    BY <1>1 DEF WorkerStates
  <1>4. /\ worker' = [worker EXCEPT ![w] = s] /\ worker'[w] = s
        /\ \A v \in Workers \ {w} : worker'[v] = worker[v]
    BY <1>1 DEF Resume, TypeOK
  <1> HIDE DEF s
  <1>5. Served(w)'
    BY <1>1, <1>2, <1>3, <1>4, Advances
  <1>6. ASSUME NEW v \in Workers \ {w} PROVE Served(v)'
    <2>1. Served(v)
      BY DEF ServedInv
    <2>2. ASSUME worker[v].at = "wait"
          PROVE  loads'[worker[v].load].at # "free"
      <3>1. /\ worker[v].load \in 1 .. MaxLoads
            /\ loads[worker[v].load].at # "free"
        BY <2>1, <2>2 DEF Served
      <3>2. loads'[worker[v].load] = loads[worker[v].load]
        BY <1>1, <1>2, <3>1 DEF Resume, TypeOK
      <3> QED
        BY <3>1, <3>2
    <2> QED
      BY <1>1, <1>4, <2>1, <2>2, OthersServed
  <1> QED
    BY <1>5, <1>6

LEMMA LoadStepServes ==
  ASSUME ServedInv, NEW l \in 1 .. MaxLoads, LoadStep(l), NEW v \in Workers
  PROVE  Served(v)'
  <1>1. Served(v) /\ TypeOK /\ UNCHANGED worker
    BY DEF ServedInv, IInv, LoadStep, ReadChunk, Publish
  <1>2. ASSUME worker[v].at = "wait"
        PROVE  loads'[worker[v].load].at # "free"
    <2>1. /\ worker[v].load \in 1 .. MaxLoads
          /\ loads[worker[v].load].at # "free"
      BY <1>1, <1>2 DEF Served
    <2>2. CASE worker[v].load # l
      BY <1>1, <2>1, <2>2 DEF LoadStep, ReadChunk, Publish, Finished, TypeOK
    <2>3. CASE worker[v].load = l
      <3>1. /\ [Free EXCEPT !.at = "done"].at = "done"
            /\ \A u \in Versions \cup {Errored} :
                 [loads[l] EXCEPT !.at = "read", !.content = u].at = "read"
        BY <1>1 DEF Free, TypeOK, Loads
      <3>2. CASE Publish(l)
        <4>1. loads' = [loads EXCEPT ![l] = [Free EXCEPT !.at = "done"]]
          BY <2>3, <3>2 DEF Publish, Finished
        <4> QED
          BY <1>1, <2>3, <3>1, <4>1 DEF TypeOK
      <3>3. CASE ReadChunk(l)
        <4>1. PICK u \in {world[loads[l].chunk], Errored} :
                loads' = [loads EXCEPT ![l].at = "read", ![l].content = u]
          BY <3>3 DEF ReadChunk
        <4> QED
          BY <1>1, <2>3, <4>1 DEF TypeOK, Loads
      <3> QED
        BY <3>2, <3>3 DEF LoadStep
    <2> QED
      BY <2>2, <2>3
  <1>3. CASE UNCHANGED <<cache, inFlight>>
    BY <1>1, <1>2, <1>3, OthersServed
  <1>4. CASE Publish(l) /\ inFlight[loads[l].chunk] = l
    <2> DEFINE c == loads[l].chunk
    <2>1. /\ cache' = [cache EXCEPT ![c] = loads[l].content]
          /\ inFlight' = [inFlight EXCEPT ![c] = 0]
      BY <1>4 DEF Publish
    <2>2. loads[l].content # None /\ c \in Chunks
      <3>1. loads[l] \in Loads
        BY <1>1 DEF TypeOK
      <3> QED
        BY <3>1, Numbers DEF Loads
    <2> HIDE DEF c
    <2>3. \A d \in Chunks : /\ cache[d] # None => cache'[d] # None
                            /\ inFlight'[d] = inFlight[d] \/ cache'[d] # None
      BY <1>1, <2>1, <2>2 DEF TypeOK
    <2> QED
      BY <1>1, <1>2, <2>3, OthersServed
  <1> QED
    BY <1>3, <1>4 DEF LoadStep, ReadChunk, Publish
------------------------------------------------------------------------------
LEMMA BeginServes ==
  ASSUME ServedInv, NEW w \in Workers, NEW g \in Regions,
         NEW window \in Windows, Begin(w, g, window)
  PROVE  \A v \in Workers : Served(v)'
  <1> DEFINE s == [Idle EXCEPT !.at = "preload", !.region = g,
                      !.next = window[1], !.last = window[2],
                      !.window = window[1] .. window[2]]
  <1>1. /\ s.at = "preload" /\ s.next = window[1] /\ s.last = window[2]
        /\ s.window = window[1] .. window[2]
    BY DEF Idle
  <1>2. /\ worker' = [worker EXCEPT ![w] = s] /\ worker'[w] = s
        /\ UNCHANGED <<cache, inFlight, loads>>
    BY DEF Begin, ServedInv, IInv, TypeOK
  <1>3. window[1] \in Nat /\ window[2] \in Nat
    BY GridAssumption, Numbers
  <1>4. \A c \in s.window : c <= s.last /\ ~(c < s.next)
    BY <1>1, <1>3
  <1> HIDE DEF s
  <1>5. Served(w)'
    BY <1>1, <1>2, <1>4 DEF Served
  <1> QED
    BY <1>2, <1>5, MoveServes

(* A worker that warms its region has asked for nothing.                   *)
LEMMA WarmServes ==
  ASSUME ServedInv, NEW w \in Workers,
         WarmRead(w) \/ WarmAccept(w) \/ WarmEnd(w)
  PROVE  \A v \in Workers : Served(v)'
  <1>1. /\ TypeOK /\ worker[w] \in WorkerStates
        /\ UNCHANGED <<inFlight, loads>>
        /\ \A v \in Workers \ {w} : worker'[v] = worker[v]
    BY DEF ServedInv, IInv, TypeOK, WarmRead, WarmAccept, WarmEnd
  <1>2. worker'[w].at \in {"accept", "warm", "idle"}
    BY <1>1, IdleIsWorker DEF TypeOK, WorkerStates, WarmRead, WarmAccept,
                              WarmEnd
  <1>3. \A c \in Chunks : cache[c] # None => cache'[c] # None
    <2>1. CASE cache' = cache
      BY <2>1
    <2>2. CASE cache' = [cache EXCEPT ![worker[w].next] = worker[w].content]
      <3>1. worker[w].content # None
        BY <1>1, Numbers DEF WorkerStates
      <3> QED
        BY <1>1, <2>2, <3>1 DEF TypeOK
    <2> QED
      BY <2>1, <2>2 DEF WarmRead, WarmAccept, WarmEnd
  <1>4. ASSUME NEW v \in Workers, v # w PROVE Served(v)'
    <2>1. Served(v) /\ worker'[v] = worker[v]
      BY <1>1, <1>4 DEF ServedInv
    <2>2. worker[v].at = "wait" => loads[worker[v].load].at # "free"
      BY <2>1 DEF Served
    <2> QED
      BY <1>1, <1>3, <2>1, <2>2, OthersServed
  <1>5. Served(w)'
    BY <1>2, NothingAsked
  <1> QED
    BY <1>4, <1>5

LEMMA InitRegionServes ==
  ASSUME ServedInv, NEW w \in Workers, NEW g \in Regions, InitRegion(w, g)
  PROVE  \A v \in Workers : Served(v)'
  <1>1. /\ TypeOK /\ g \in SUBSET Chunks /\ UNCHANGED loads
        /\ worker[w].at = "idle"
        /\ \A c \in Chunks \ g :
             cache'[c] = cache[c] /\ inFlight'[c] = inFlight[c]
    BY Partition DEF ServedInv, IInv, InitRegion, Invalidate, TypeOK
  <1> DEFINE dropping == Dropping(g)
  <1>2. /\ dropping \in [Workers -> WorkerStates]
        /\ dropping[w].at = worker[w].at
    BY <1>1, DroppingChanges DEF TypeOK
  <1>3. \/ worker' = dropping
        \/ \E c \in g : worker' = [dropping EXCEPT
             ![w].at = "warm", ![w].region = g, ![w].next = c]
    BY DEF InitRegion
  <1> HIDE DEF dropping
  <1>4. /\ worker'[w].at \in {"idle", "warm"}
        /\ \A v \in Workers \ {w} : worker'[v] = dropping[v]
    BY <1>1, <1>2, <1>3 DEF WorkerStates
  <1>5. ASSUME NEW v \in Workers, v # w PROVE Served(v)'
    BY <1>1, <1>4, <1>5, DroppingServes DEF ServedInv, dropping
  <1>6. Served(w)'
    BY <1>4, NothingAsked
  <1> QED
    BY <1>5, <1>6

LEMMA ExpireServes ==
  ASSUME ServedInv, NEW c \in Chunks, Expire(c), NEW v \in Workers
  PROVE  Served(v)'
  <1>1. /\ TypeOK /\ Served(v) /\ UNCHANGED loads
        /\ \A d \in Chunks \ {c} :
             cache'[d] = cache[d] /\ inFlight'[d] = inFlight[d]
    BY DEF ServedInv, IInv, Expire, TypeOK
  <1>2. worker'[v] = Dropping({c})[v]
    BY DEF Expire
  <1> QED
    BY <1>1, <1>2, DroppingServes

LEMMA StepServes == ServedInv /\ [Next]_vars => ServedInv'
  <1> SUFFICES ASSUME ServedInv, [Next]_vars
               PROVE  \A v \in Workers : Served(v)'
    BY StepIInv DEF ServedInv
  <1>1. CASE UNCHANGED <<cache, inFlight, loads, worker>>
    BY <1>1 DEF ServedInv, Served, Got
  <1>2. ASSUME NEW l \in DOMAIN loads, LoadStep(l)
        PROVE  \A v \in Workers : Served(v)'
    <2>1. l \in 1 .. MaxLoads
      BY DEF ServedInv, IInv, TypeOK
    <2> QED
      BY <1>2, <2>1, LoadStepServes
  <1>3. ASSUME NEW w \in Workers, Continue(w)
        PROVE  \A v \in Workers : Served(v)'
    BY <1>3, WarmServes, GetChunkServes, ResumeServes, DrawServes
       DEF Continue
  <1>4. ASSUME NEW w \in Workers, NEW g \in Regions,
               InitRegion(w, g) \/ \E window \in Windows : Begin(w, g, window)
        PROVE  \A v \in Workers : Served(v)'
    BY <1>4, InitRegionServes, BeginServes
  <1>5. ASSUME NEW c \in Chunks, Expire(c)
        PROVE  \A v \in Workers : Served(v)'
    BY <1>5, ExpireServes
  <1>6. ASSUME NEW c \in Chunks, WorldChanges(c)
        PROVE  UNCHANGED <<cache, inFlight, loads, worker>>
    BY <1>6 DEF WorldChanges
  <1> QED
    BY <1>1, <1>2, <1>3, <1>4, <1>5, <1>6 DEF Next, vars

(* What a worker has asked for stays with it, however loads, scans and     *)
(* expiry interleave.                                                      *)
THEOREM EveryoneServed == Spec => []ServedInv
  <1>1. Init => ServedInv
    BY InitIInv, InitServed DEF ServedInv
  <1> QED
    BY <1>1, StepServes, PTL DEF Spec

(* A tile is drawn when every chunk of its window is in the cache, but for *)
(* those dropped since its preload asked for them, however the loads of    *)
(* other workers, scans, warming and expiry interleave.                    *)
THEOREM PreloadComplete == Spec => []PreloadIsComplete
  <1>1. ASSUME ServedInv PROVE PreloadIsComplete
    <2> SUFFICES ASSUME NEW w \in Workers, Drawing(w),
                        NEW c \in worker[w].window
                 PROVE  cache[c] # None \/ c \in worker[w].dropped
      BY DEF PreloadIsComplete
    <2>1. /\ worker[w].window \subseteq Chunks
          /\ worker[w].next \in Nat /\ worker[w].last \in Nat
      BY <1>1, WindowOfChunks DEF ServedInv, IInv
    <2>2. c \in Nat
      BY <2>1, Numbers
    <2>3. /\ worker[w].at = "preload" /\ worker[w].next > worker[w].last
          /\ c <= worker[w].last /\ (c < worker[w].next => Got(w, c))
      BY <1>1 DEF ServedInv, Served, Drawing
    <2> QED
      BY <2>1, <2>2, <2>3 DEF Got
  <1> QED
    BY <1>1, EveryoneServed, PTL

(* Nobody waits for a load that is gone, also when the load was thrown out *)
(* by an invalidation while it was in flight: it is still under way, or it *)
(* has ended and is kept for its waiters.                                  *)
NobodyWaitsInVain ==
  \A w \in Workers : worker[w].at = "wait" =>
    /\ worker[w].load \in DOMAIN loads
    /\ loads[worker[w].load].at \in {"reading", "read", "done"}

(* Every load that a worker waits for can end, for every number of workers *)
(* and loads: what WaitersAreServed says but for ENABLED.                  *)
THEOREM LoadsAreKept == Spec => []NobodyWaitsInVain
  <1>1. ASSUME ServedInv PROVE NobodyWaitsInVain
    <2> SUFFICES ASSUME NEW w \in Workers, worker[w].at = "wait"
                 PROVE  /\ worker[w].load \in DOMAIN loads
                        /\ loads[worker[w].load].at
                             \in {"reading", "read", "done"}
      BY DEF NobodyWaitsInVain
    <2>1. /\ worker[w].load \in 1 .. MaxLoads
          /\ loads[worker[w].load].at # "free"
      BY <1>1 DEF ServedInv, Served
    <2>2. loads \in [1 .. MaxLoads -> Loads]
      BY <1>1 DEF ServedInv, IInv, TypeOK
    <2>3. loads[worker[w].load] \in Loads
      BY <2>1, <2>2
    <2> QED
      BY <2>1, <2>2, <2>3 DEF Loads
  <1> QED
    BY <1>1, EveryoneServed, PTL
------------------------------------------------------------------------------
(***************************************************************************)
(* The cells of the render state.                                          *)
(***************************************************************************)
Entry == [pos : Positions, cell : Cells \ {0}]
Entries == Range(cells)
IsCached(p) == \E e \in Entries : e.pos = p
------------------------------------------------------------------------------
(* What the operations on the sequence of entries do to the set of them.   *)
Distinct(s) == \A i, j \in DOMAIN s : s[i].pos = s[j].pos => i = j

LEMMA RemoveAtFacts ==
  ASSUME NEW S, NEW s \in Seq(S), NEW i \in 1 .. Len(s)
  PROVE  /\ RemoveAt(s, i) \in Seq(S)
         /\ Len(RemoveAt(s, i)) = Len(s) - 1
         /\ \A j \in 1 .. Len(s) - 1 :
              RemoveAt(s, i)[j] = IF j < i THEN s[j] ELSE s[j + 1]
  <1> DEFINE l == SubSeq(s, 1, i - 1)
             r == SubSeq(s, i + 1, Len(s))
  <1>1. /\ l \in Seq(S) /\ Len(l) = i - 1
        /\ \A j \in 1 .. i - 1 : l[j] = s[j]
    OBVIOUS
  <1>2. /\ r \in Seq(S) /\ Len(r) = Len(s) - i
        /\ \A j \in 1 .. Len(s) - i : r[j] = s[j + i]
    OBVIOUS
  <1> HIDE DEF l, r
  <1>3. /\ l \o r \in Seq(S) /\ Len(l \o r) = Len(s) - 1
        /\ \A j \in 1 .. Len(s) - 1 :
             (l \o r)[j] = IF j <= i - 1 THEN l[j] ELSE r[j - (i - 1)]
    <2>1. /\ l \o r \in Seq(S) /\ Len(l \o r) = Len(l) + Len(r)
          /\ \A j \in 1 .. Len(l) + Len(r) :
               (l \o r)[j] = IF j <= Len(l) THEN l[j] ELSE r[j - Len(l)]
      <3>1. l \in Seq(S) /\ r \in Seq(S)
        BY <1>1, <1>2
      <3>2. l \o r \in Seq(S) /\ Len(l \o r) = Len(l) + Len(r)
        BY <3>1
      <3>3. ASSUME NEW j \in 1 .. Len(l) + Len(r)
            PROVE  (l \o r)[j] = IF j <= Len(l) THEN l[j] ELSE r[j - Len(l)]
        BY <3>1
      <3> QED
        BY <3>2, <3>3
    <2>2. Len(l) + Len(r) = Len(s) - 1
      BY <1>1, <1>2
    <2> QED
      BY <2>1, <2>2, <1>1
  <1>4. ASSUME NEW j \in 1 .. Len(s) - 1
        PROVE  (l \o r)[j] = IF j < i THEN s[j] ELSE s[j + 1]
    <2>1. CASE j < i
      BY <2>1, <1>1, <1>3
    <2>2. CASE ~(j < i)
      <3>1. j - (i - 1) \in 1 .. Len(s) - i /\ (j - (i - 1)) + i = j + 1
        BY <2>2
      <3> QED
        BY <2>2, <3>1, <1>2, <1>3
    <2> QED
      BY <2>1, <2>2
  <1>5. RemoveAt(s, i) = l \o r
    BY DEF RemoveAt, l, r
  <1> QED
    BY <1>3, <1>4, <1>5

(* A hit moves an entry to the end and keeps the others.                   *)
LEMMA MoveToEnd ==
  ASSUME NEW s \in Seq(Entry), NEW i \in 1 .. Len(s), Distinct(s)
  PROVE  LET m == Append(RemoveAt(s, i), s[i])
         IN  m \in Seq(Entry) /\ Len(m) = Len(s) /\ Distinct(m)
             /\ Range(m) = Range(s)
  <1> DEFINE r == RemoveAt(s, i)
             m == Append(r, s[i])
             from(j) == IF j = Len(s) THEN i ELSE IF j < i THEN j ELSE j + 1
  <1>1. /\ r \in Seq(Entry) /\ Len(r) = Len(s) - 1
        /\ \A j \in 1 .. Len(s) - 1 :
             r[j] = IF j < i THEN s[j] ELSE s[j + 1]
    BY RemoveAtFacts
  <1>2. s[i] \in Entry
    OBVIOUS
  <1> HIDE DEF r
  <1>3. /\ m \in Seq(Entry) /\ Len(m) = Len(s)
        /\ \A j \in 1 .. Len(s) :
             m[j] = IF j = Len(s) THEN s[i] ELSE r[j]
    BY <1>1, <1>2
  <1>4. \A j \in 1 .. Len(s) : from(j) \in 1 .. Len(s) /\ m[j] = s[from(j)]
    BY <1>1, <1>3
  <1>5. \A j, k \in 1 .. Len(s) : from(j) = from(k) => j = k
    OBVIOUS
  <1>6. \A k \in 1 .. Len(s) : \E j \in 1 .. Len(s) : from(j) = k
    <2> TAKE k \in 1 .. Len(s)
    <2>1. CASE k = i
      BY <2>1
    <2>2. CASE k < i
      <3>1. k \in 1 .. Len(s) /\ from(k) = k
        BY <2>2
      <3> QED
        BY <3>1
    <2>3. CASE k > i
      <3>1. k - 1 \in 1 .. Len(s) /\ from(k - 1) = k
        BY <2>3
      <3> QED
        BY <3>1
    <2> QED
      BY <2>1, <2>2, <2>3
  <1>7. DOMAIN m = 1 .. Len(s) /\ DOMAIN s = 1 .. Len(s)
    BY <1>3
  <1> HIDE DEF m, from
  <1>8. Distinct(m)
    <2> SUFFICES ASSUME NEW j \in 1 .. Len(s), NEW k \in 1 .. Len(s),
                        m[j].pos = m[k].pos
                 PROVE  j = k
      BY <1>7 DEF Distinct
    <2>1. s[from(j)].pos = s[from(k)].pos
      BY <1>4
    <2> QED
      BY <2>1, <1>4, <1>5, <1>7 DEF Distinct
  <1>9. Range(m) = Range(s)
    <2>1. \A j \in 1 .. Len(s) : m[j] \in Range(s)
      BY <1>4, <1>7 DEF Range
    <2>2. \A k \in 1 .. Len(s) : s[k] \in Range(m)
      BY <1>4, <1>6, <1>7 DEF Range
    <2> QED
      BY <2>1, <2>2, <1>7 DEF Range
  <1> QED
    BY <1>3, <1>8, <1>9 DEF m, r

LEMMA TailFacts ==
  ASSUME NEW S, NEW s \in Seq(S), s # <<>>
  PROVE  /\ Tail(s) \in Seq(S) /\ Head(s) \in S /\ Len(Tail(s)) = Len(s) - 1
         /\ Len(s) >= 1
         /\ Head(s) = s[1]
         /\ \A i \in 1 .. Len(s) - 1 : Tail(s)[i] = s[i + 1]
         /\ Range(s) = Range(Tail(s)) \cup {Head(s)}
  <1>1. /\ Tail(s) \in Seq(S) /\ Head(s) \in S /\ Len(Tail(s)) = Len(s) - 1
        /\ Len(s) >= 1 /\ Head(s) = s[1]
        /\ \A i \in 1 .. Len(s) - 1 : Tail(s)[i] = s[i + 1]
    OBVIOUS
  <1>2. DOMAIN Tail(s) = 1 .. Len(s) - 1 /\ DOMAIN s = 1 .. Len(s)
    BY <1>1
  <1>3. \A i \in 1 .. Len(s) : i = 1 \/ (i - 1 \in 1 .. Len(s) - 1
                                         /\ (i - 1) + 1 = i)
    OBVIOUS
  <1>4. \A i \in 1 .. Len(s) - 1 : i + 1 \in 1 .. Len(s)
    OBVIOUS
  <1>5. 1 \in 1 .. Len(s)
    BY <1>1
  <1>6. \A i \in 1 .. Len(s) : s[i] = Head(s) \/ s[i] \in Range(Tail(s))
    BY <1>1, <1>2, <1>3 DEF Range
  <1>7. \A i \in 1 .. Len(s) - 1 : Tail(s)[i] \in Range(s)
    BY <1>1, <1>2, <1>4 DEF Range
  <1>8. Head(s) \in Range(s)
    BY <1>1, <1>2, <1>5 DEF Range
  <1> QED
    BY <1>1, <1>2, <1>6, <1>7, <1>8 DEF Range

(* The eldest goes out and takes its position with it.                     *)
LEMMA DropEldest ==
  ASSUME NEW s \in Seq(Entry), s # <<>>, Distinct(s)
  PROVE  /\ Distinct(Tail(s))
         /\ Range(Tail(s)) = {e \in Range(s) : e.pos # Head(s).pos}
  <1>1. /\ Tail(s) \in Seq(Entry) /\ Len(Tail(s)) = Len(s) - 1
        /\ Len(s) >= 1 /\ Head(s) = s[1]
        /\ \A i \in 1 .. Len(s) - 1 : Tail(s)[i] = s[i + 1]
        /\ Range(s) = Range(Tail(s)) \cup {Head(s)}
    BY TailFacts
  <1>2. DOMAIN Tail(s) = 1 .. Len(s) - 1 /\ DOMAIN s = 1 .. Len(s)
    BY <1>1
  <1>3. \A i, j \in 1 .. Len(s) : s[i].pos = s[j].pos => i = j
    BY <1>2 DEF Distinct
  <1>4. Distinct(Tail(s))
    <2> SUFFICES ASSUME NEW i \in 1 .. Len(s) - 1, NEW j \in 1 .. Len(s) - 1,
                        Tail(s)[i].pos = Tail(s)[j].pos
                 PROVE  i = j
      BY <1>2 DEF Distinct
    <2>1. i + 1 \in 1 .. Len(s) /\ j + 1 \in 1 .. Len(s)
      OBVIOUS
    <2>2. i + 1 = j + 1
      BY <2>1, <1>1, <1>3
    <2> QED
      BY <2>2
  <1>5. \A e \in Range(Tail(s)) : e.pos # Head(s).pos
    <2> SUFFICES ASSUME NEW i \in 1 .. Len(s) - 1
                 PROVE  Tail(s)[i].pos # Head(s).pos
      BY <1>2 DEF Range
    <2>1. i + 1 \in 1 .. Len(s) /\ 1 \in 1 .. Len(s) /\ i + 1 # 1
      BY <1>1
    <2> QED
      BY <2>1, <1>1, <1>3
  <1> QED
    BY <1>1, <1>4, <1>5

(* The entry of a position is replaced where it is, or joins at the end.   *)
LEMMA WithCellFacts ==
  ASSUME cells \in Seq(Entry), Distinct(cells),
         NEW p \in Positions, NEW k \in Cells \ {0}
  PROVE  LET g   == WithCell(p, k)
             new == [pos |-> p, cell |-> k]
         IN  /\ g \in Seq(Entry) /\ Distinct(g) /\ new \in Entry
             /\ Range(g) = {e \in Entries : e.pos # p} \cup {new}
             /\ IsCached(p) => Len(g) = Len(cells)
             /\ ~IsCached(p) => g = Append(cells, new)
  <1> DEFINE g   == WithCell(p, k)
             new == [pos |-> p, cell |-> k]
  <1>1. new \in Entry /\ new.pos = p
    BY DEF Entry
  <1>2. /\ DOMAIN cells = 1 .. Len(cells)
        /\ Entries = {cells[i] : i \in 1 .. Len(cells)}
    BY DEF Entries, Range
  <1>3. Cached(p) = {} <=> ~IsCached(p)
    BY <1>2 DEF Cached, IsCached
  <1>4. CASE ~IsCached(p)
    <2>1. g = Append(cells, new)
      BY <1>3, <1>4 DEF WithCell
    <2> HIDE DEF new, g
    <2>2. /\ g \in Seq(Entry) /\ Len(g) = Len(cells) + 1
          /\ \A i \in 1 .. Len(cells) + 1 :
               g[i] = IF i = Len(cells) + 1 THEN new ELSE cells[i]
      BY <2>1, <1>1
    <2>3. DOMAIN g = 1 .. Len(cells) + 1
      BY <2>2
    <2>4. \A i \in 1 .. Len(cells) : cells[i] \in Entries /\ cells[i].pos # p
      BY <1>2, <1>4 DEF IsCached
    <2>5. Distinct(g)
      <3> SUFFICES ASSUME NEW i \in 1 .. Len(cells) + 1,
                          NEW j \in 1 .. Len(cells) + 1, g[i].pos = g[j].pos
                   PROVE  i = j
        BY <2>3 DEF Distinct
      <3>1. CASE i = Len(cells) + 1 \/ j = Len(cells) + 1
        BY <3>1, <2>2, <2>4, <1>1
      <3>2. CASE i \in 1 .. Len(cells) /\ j \in 1 .. Len(cells)
        BY <3>2, <2>2, <1>2 DEF Distinct
      <3> QED
        BY <3>1, <3>2
    <2>6. Range(g) = {e \in Entries : e.pos # p} \cup {new}
      <3>1. \A i \in 1 .. Len(cells) + 1 :
              g[i] = new \/ (g[i] \in Entries /\ g[i].pos # p)
        BY <2>2, <2>4
      <3>2. \A i \in 1 .. Len(cells) : cells[i] \in Range(g)
        BY <2>2, <2>3 DEF Range
      <3>3. new \in Range(g)
        <4>1. Len(cells) + 1 \in 1 .. Len(cells) + 1
          OBVIOUS
        <4> QED
          BY <4>1, <2>2, <2>3 DEF Range
      <3> QED
        BY <3>1, <3>2, <3>3, <2>3, <1>2 DEF Range
    <2> QED
      BY <2>1, <2>2, <2>5, <2>6, <1>1, <1>4 DEF g, new
  <1>5. CASE IsCached(p)
    <2>1. g = [i \in 1 .. Len(cells) |->
                 IF cells[i].pos = p THEN new ELSE cells[i]]
      BY <1>2, <1>3, <1>5 DEF WithCell, Cached
    <2> HIDE DEF new, g
    <2>2. \A i \in 1 .. Len(cells) : g[i] \in Entry
      BY <2>1, <1>1
    <2>3. g \in Seq(Entry) /\ Len(g) = Len(cells) /\ DOMAIN g = 1 .. Len(cells)
      BY <2>1, <2>2
    <2>4. \A i \in 1 .. Len(cells) : g[i].pos = cells[i].pos
      BY <2>1, <1>1
    <2>5. Distinct(g)
      BY <2>3, <2>4, <1>2 DEF Distinct
    <2>6. Range(g) = {e \in Entries : e.pos # p} \cup {new}
      <3>1. \A i \in 1 .. Len(cells) :
              g[i] = new \/ (g[i] \in Entries /\ g[i].pos # p)
        BY <2>1, <1>2
      <3>2. \A i \in 1 .. Len(cells) :
              cells[i].pos # p => cells[i] \in Range(g)
        <4> TAKE i \in 1 .. Len(cells)
        <4>1. cells[i].pos # p => g[i] = cells[i]
          BY <2>1
        <4> QED
          BY <4>1, <2>3 DEF Range
      <3>3. new \in Range(g)
        <4>1. PICK i \in 1 .. Len(cells) : cells[i].pos = p
          BY <1>2, <1>5 DEF IsCached
        <4>2. g[i] = new
          BY <4>1, <2>1
        <4> QED
          BY <4>2, <2>3 DEF Range
      <3> QED
        BY <3>1, <3>2, <3>3, <2>3, <1>2 DEF Range
    <2> QED
      BY <2>3, <2>5, <2>6, <1>1, <1>5 DEF g, new
  <1> QED
    BY <1>4, <1>5
------------------------------------------------------------------------------
States == {"idle", "load", "insert", "evict", "got", "save", "write"}

Locals == [at : States, pos : Positions, cell : Cells, bytes : SUBSET Writes,
           todo : Seq(Entry), target : Positions,
           due : [Positions -> SUBSET Writes]]

Holds(k) == k.at \in {"got", "evict"}

(* What a client refers to exists, and it has a list only while it saves.  *)
Known(k, n) ==
  /\ Holds(k) => k.cell \in 1 .. n
  /\ \A e \in Range(k.todo) : e.cell <= n
  /\ k.at \notin {"save", "write"} => k.todo = <<>>

Typed ==
  /\ CellTypeOK
  /\ client \in [Clients -> Locals]
  /\ \A c \in Clients : Known(client[c], Len(heap))

(* Every load under way may create its cell within the bound.              *)
Room == Len(heap) + Cardinality(Loading) <= MaxCells

(* A cell object is that of one position.                                  *)
Owned ==
  /\ \A e, f \in Entries : e.cell = f.cell => e = f
  /\ \A c \in Clients, e \in Entries :
       Holds(client[c]) /\ e.cell = client[c].cell => e.pos = client[c].pos

(* Where two clients are busy with one position, that is known.            *)
RacesSeen ==
  \A c, d \in Clients : c # d =>
    BusyWith(client[c]) \cap BusyWith(client[d]) \subseteq raced

(* The cached cell has every write; what is not cached, or cached and not  *)
(* modified, is on disk, unless it is being evicted.                       *)
Current(p) ==
  /\ \A e \in Entries : e.pos = p =>
       /\ Content(heap, e.cell) = acked[p]
       /\ IsModified(heap, e.cell) \/ disk[p] = acked[p]
  /\ ~IsCached(p) /\ Evicting(p) = {} => disk[p] = acked[p]

(* What a client carries between two steps is not behind the position.     *)
InHand(k, p) ==
  /\ k.at \in {"load", "insert"} /\ k.pos = p => ~IsCached(p)
  /\ k.at = "insert" /\ k.pos = p => k.bytes = acked[p]
  /\ Holds(k) /\ k.pos = p => [pos |-> p, cell |-> k.cell] \in Entries
  /\ k.at = "evict" /\ k.target = p => ~IsCached(p) /\ k.bytes = acked[p]
  /\ k.at = "write" /\ k.target = p => IsCached(p) /\ k.bytes = acked[p]
  /\ \A e \in Range(k.todo) : e.pos = p => e \in Entries

(* What a save owes a position is in its list, under way or on disk.       *)
ToSave(k, p) ==
  k.at \in {"save", "write"} =>
    /\ k.due[p] \subseteq acked[p]
    /\ \/ \E e \in Range(k.todo) : e.pos = p
       \/ k.at = "write" /\ k.target = p
       \/ k.due[p] \subseteq disk[p]
       \/ Evicting(p) # {}

Fine(p) ==
  Current(p) /\ \A c \in Clients : InHand(client[c], p) /\ ToSave(client[c], p)

Steady == Typed /\ Room /\ Owned /\ RacesSeen

CellInv == Steady /\ \A p \in Sound : Fine(p)
------------------------------------------------------------------------------
LEMMA RestingIsLocal ==
  /\ Resting \in Locals /\ Resting.at = "idle" /\ Resting.todo = <<>>
  /\ \A n \in Nat : Known(Resting, n)
  /\ BusyWith(Resting) = {}
  <1>1. AnyPosition \in Positions
    BY CacheAssumption DEF AnyPosition
  <1>2. 0 \in Cells
    BY CacheAssumption DEF Cells
  <1>3. Resting \in Locals /\ Resting.at = "idle" /\ Resting.todo = <<>>
    BY <1>1, <1>2 DEF Resting, Locals, States
  <1> QED
    BY <1>3 DEF Known, Holds, Range, BusyWith

LEMMA BusyPositions ==
  ASSUME NEW k \in Locals
  PROVE  BusyWith(k) \subseteq Positions
  BY DEF BusyWith, Locals, States

(* What a step of one client leaves of the others, and where they may have *)
(* met it.                                                                 *)
LEMMA GoStep ==
  ASSUME Typed, NEW c \in Clients, NEW r \in Locals,
         NEW dropped \in SUBSET Positions, GoDropping(c, r, dropped)
  PROVE  /\ client' \in [Clients -> Locals]
         /\ client'[c] = r
         /\ \A d \in Clients : d # c => client'[d] = client[d]
         /\ raced \subseteq raced' /\ raced' \subseteq Positions
         /\ \A p \in Positions \ raced' : \A d \in Clients \ {c} :
              /\ p \in BusyWith(r) \cup dropped => p \notin BusyWith(client[d])
              /\ p \in dropped => \A e \in Range(client[d].todo) : e.pos # p
         /\ RacesSeen => RacesSeen'
  <1>1. /\ client' = [client EXCEPT ![c] = r]
        /\ raced' = raced \cup
             {p \in Positions : \E d \in Clients \ {c} :
                \/ p \in BusyWith(r) \cup dropped /\ p \in BusyWith(client[d])
                \/ p \in dropped \cap {e.pos : e \in Range(client[d].todo)}}
    BY DEF GoDropping
  <1>2. /\ client' \in [Clients -> Locals] /\ client'[c] = r
        /\ \A d \in Clients : d # c => client'[d] = client[d]
    BY <1>1 DEF Typed
  <1>3. raced \subseteq raced' /\ raced' \subseteq Positions
    BY <1>1 DEF Typed, CellTypeOK
  <1>4. ASSUME NEW p \in Positions \ raced', NEW d \in Clients \ {c}
        PROVE  /\ p \in BusyWith(r) \cup dropped
                    => p \notin BusyWith(client[d])
               /\ p \in dropped => \A e \in Range(client[d].todo) : e.pos # p
    BY <1>1
  <1>5. ASSUME RacesSeen
        PROVE  RacesSeen'
    <2> SUFFICES ASSUME NEW d \in Clients, NEW e \in Clients, d # e,
                        NEW p \in BusyWith(client'[d])
                                    \cap BusyWith(client'[e])
                 PROVE  p \in raced'
      BY DEF RacesSeen
    <2>1. p \in Positions
      BY <1>2, BusyPositions
    <2>2. CASE d = c
      BY <2>1, <2>2, <1>2, <1>4
    <2>3. CASE e = c
      BY <2>1, <2>3, <1>2, <1>4
    <2>4. CASE d # c /\ e # c
      BY <2>4, <1>2, <1>3, <1>5 DEF RacesSeen
    <2> QED
      BY <2>2, <2>3, <2>4
  <1> QED
    BY <1>2, <1>3, <1>4, <1>5

LEMMA LoadingFinite == IsFiniteSet(Loading) /\ Cardinality(Loading) \in Nat
  <1>1. IsFiniteSet(Loading)
    BY CacheAssumption, FS_Subset DEF Loading
  <1> QED
    BY <1>1, FS_CardinalityType

LEMMA RoomKept ==
  ASSUME Typed, Room, Len(heap') = Len(heap), Loading' \subseteq Loading
  PROVE  Room'
  <1>1. Cardinality(Loading') <= Cardinality(Loading)
        /\ Cardinality(Loading') \in Nat
    BY LoadingFinite, FS_Subset, FS_CardinalityType
  <1>2. Len(heap) \in Nat
    BY DEF Typed, CellTypeOK
  <1> QED
    BY <1>1, <1>2, LoadingFinite, CacheAssumption DEF Room

(* A step of one client that adds and drops no cell and evicts nothing.    *)
LEMMA MoveKeeps ==
  ASSUME CellInv, NEW c \in Clients, NEW r \in Locals, Go(c, r),
         cells' \in Seq(Entry), Len(cells') <= CacheSize, Distinct(cells'),
         Entries' = Entries,
         UNCHANGED <<heap, acked, writes>>,
         failed \subseteq failed', failed' \subseteq Positions,
         disk' \in [Positions -> SUBSET Writes],
         Known(r, Len(heap)), Room',
         Holds(r) =>
           \/ /\ Holds(client[c])
              /\ r.cell = client[c].cell /\ r.pos = client[c].pos
           \/ [pos |-> r.pos, cell |-> r.cell] \in Entries,
         \A p \in Sound' :
           /\ disk'[p] \in {disk[p], acked[p]}
           /\ client[c].at = "evict" /\ client[c].target = p
                => disk'[p] = acked[p]
           /\ InHand(r, p)
           /\ r.at \in {"save", "write"} =>
                /\ r.due[p] \subseteq acked[p]
                /\ \/ \E e \in Range(r.todo) : e.pos = p
                   \/ r.at = "write" /\ r.target = p
                   \/ r.due[p] \subseteq disk'[p]
                   \/ Evicting(p) # {}
  PROVE  CellInv'
  <1>1. GoDropping(c, r, {})
    BY DEF Go
  <1>2. /\ client' \in [Clients -> Locals]
        /\ client'[c] = r
        /\ \A d \in Clients : d # c => client'[d] = client[d]
        /\ raced \subseteq raced' /\ raced' \subseteq Positions
        /\ RacesSeen'
    BY <1>1, GoStep DEF CellInv, Steady
  <1>3. Typed'
    <2>1. \A i \in DOMAIN cells' : cells'[i].cell <= Len(heap')
      <3>1. \A e \in Entries : e.cell <= Len(heap)
        BY DEF CellInv, Steady, Typed, CellTypeOK, Entries, Range
      <3>2. \A i \in DOMAIN cells' : cells'[i] \in Entries
        BY DEF Entries, Range
      <3> QED
        BY <3>1, <3>2
    <2>2. CellTypeOK'
      BY <2>1, <1>2
         DEF CellInv, Steady, Typed, CellTypeOK, Distinct, Entry
    <2>3. \A d \in Clients : Known(client'[d], Len(heap'))
      BY <1>2 DEF CellInv, Steady, Typed
    <2> QED
      BY <2>2, <2>3, <1>2 DEF Typed
  <1>4. Owned'
    <2>1. \A e, f \in Entries : e.cell = f.cell => e = f
      BY DEF CellInv, Steady, Owned
    <2>2. ASSUME NEW d \in Clients, NEW e \in Entries, Holds(client'[d]),
                 e.cell = client'[d].cell
          PROVE  e.pos = client'[d].pos
      <3>1. CASE d # c
        BY <3>1, <2>2, <1>2 DEF CellInv, Steady, Owned
      <3>2. CASE d = c /\ [pos |-> r.pos, cell |-> r.cell] \in Entries
        BY <3>2, <2>1, <2>2, <1>2
      <3>3. CASE /\ d = c /\ Holds(client[c])
                 /\ r.cell = client[c].cell /\ r.pos = client[c].pos
        BY <3>3, <2>2, <1>2 DEF CellInv, Steady, Owned
      <3> QED
        BY <3>1, <3>2, <3>3, <2>2, <1>2
    <2> QED
      BY <2>1, <2>2 DEF Owned
  <1>5. ASSUME NEW p \in Sound'
        PROVE  Fine(p)'
    <2>1. p \in Sound /\ Fine(p)
      BY <1>2, <1>5 DEF Sound, CellInv
    <2>2. \A d \in Clients : d # c /\ d \in Evicting(p) => d \in Evicting(p)'
      BY <1>2 DEF Evicting
    <2>3. c \in Evicting(p) => disk'[p] = acked[p]
      BY DEF Evicting
    <2>4. Evicting(p) \subseteq Clients
      BY DEF Evicting
    <2>5. IsCached(p)' <=> IsCached(p)
      BY DEF IsCached
    <2>6. Current(p)'
      BY <2>1, <2>2, <2>3, <2>4, <2>5 DEF Current, Fine
    <2>7. ASSUME NEW d \in Clients
          PROVE  InHand(client[d], p)'
      <3>1. InHand(client'[d], p)
        BY <1>2, <2>1 DEF Fine
      <3> QED
        BY <3>1, <2>5 DEF InHand
    <2>8. ASSUME NEW d \in Clients
          PROVE  ToSave(client[d], p)'
      <3>1. ASSUME client'[d].at \in {"save", "write"}
            PROVE  /\ client'[d].due[p] \subseteq acked[p]
                   /\ \/ \E e \in Range(client'[d].todo) : e.pos = p
                      \/ client'[d].at = "write" /\ client'[d].target = p
                      \/ client'[d].due[p] \subseteq disk'[p]
                      \/ Evicting(p) # {}
        <4>1. CASE d = c
          BY <4>1, <3>1, <1>2
        <4>2. CASE d # c
          <5>1. ToSave(client[d], p) /\ client'[d] = client[d]
            BY <4>2, <1>2, <2>1 DEF Fine
          <5>2. disk'[p] \in {disk[p], acked[p]}
            OBVIOUS
          <5> QED
            BY <5>1, <5>2, <3>1 DEF ToSave
        <4> QED
          BY <4>1, <4>2
      <3>2. Evicting(p) # {} =>
              Evicting(p)' # {} \/ disk'[p] = acked[p]
        BY <2>2, <2>3, <2>4
      <3> QED
        BY <3>1, <3>2 DEF ToSave
    <2> QED
      BY <2>6, <2>7, <2>8 DEF Fine
  <1> QED
    BY <1>2, <1>3, <1>4, <1>5 DEF CellInv, Steady

(* While a client is busy with a sound position, nobody else is.           *)
LEMMA BusyAlone ==
  ASSUME CellInv, NEW p \in Sound,
         NEW c \in Clients, p \in BusyWith(client[c]),
         NEW d \in Clients, d # c
  PROVE  p \notin BusyWith(client[d]) /\ d \notin Evicting(p)
  <1>1. p \notin BusyWith(client[d])
    BY DEF CellInv, Steady, RacesSeen, Sound
  <1>2. d \in Evicting(p) => p \in BusyWith(client[d])
    BY DEF Evicting, BusyWith
  <1> QED
    BY <1>1, <1>2

(* What every step needs to know of the client that takes it.              *)
LEMMA ClientFacts ==
  ASSUME CellInv, NEW c \in Clients
  PROVE  /\ client[c] \in Locals
         /\ Known(client[c], Len(heap))
         /\ client[c].pos \in Positions /\ client[c].target \in Positions
         /\ client[c].todo \in Seq(Entry)
         /\ client[c].due \in [Positions -> SUBSET Writes]
         /\ client[c].bytes \subseteq Writes
         /\ Len(heap) \in Nat
  <1>1. client[c] \in Locals
    BY DEF CellInv, Steady, Typed
  <1>2. Known(client[c], Len(heap)) /\ Len(heap) \in Nat
    BY DEF CellInv, Steady, Typed, CellTypeOK
  <1> QED
    BY <1>1, <1>2 DEF Locals

LEMMA StaticFacts ==
  ASSUME CellInv
  PROVE  /\ cells \in Seq(Entry) /\ Len(cells) <= CacheSize /\ Distinct(cells)
         /\ disk \in [Positions -> SUBSET Writes]
         /\ acked \in [Positions -> SUBSET Writes]
         /\ failed \subseteq Positions /\ Len(heap) \in Nat
         /\ \A p \in Sound : p \in Positions /\ Fine(p)
         /\ \A e \in Entries : e \in Entry /\ e.cell \in 1 .. Len(heap)
  <1>1. /\ cells \in Seq(Entry) /\ Len(cells) <= CacheSize /\ Distinct(cells)
        /\ disk \in [Positions -> SUBSET Writes]
        /\ acked \in [Positions -> SUBSET Writes]
        /\ failed \subseteq Positions /\ Len(heap) \in Nat
    BY DEF CellInv, Steady, Typed, CellTypeOK, Entry, Distinct
  <1>2. \A p \in Sound : p \in Positions /\ Fine(p)
    BY DEF CellInv, Sound
  <1>3. \A i \in DOMAIN cells :
          cells[i] \in Entry /\ cells[i].cell <= Len(heap)
    BY <1>1 DEF CellInv, Steady, Typed, CellTypeOK
  <1>4. \A e \in Entries : e \in Entry /\ e.cell <= Len(heap)
    BY <1>3 DEF Entries, Range
  <1>5. \A e \in Entry : e.cell \in Nat \ {0}
    BY CacheAssumption DEF Entry, Cells
  <1>6. \A e \in Entries : e \in Entry /\ e.cell \in 1 .. Len(heap)
    BY <1>1, <1>4, <1>5
  <1> QED
    BY <1>1, <1>2, <1>6

LEMMA SeqElement ==
  ASSUME NEW S, NEW s \in Seq(S), NEW i \in 1 .. Len(s)
  PROVE  s[i] \in S
  OBVIOUS

LEMMA HeapCell ==
  ASSUME CellInv, NEW n \in 1 .. Len(heap)
  PROVE  /\ heap[n] \in [content : SUBSET Writes, modified : BOOLEAN]
         /\ heap[n].content \subseteq Writes
  <1> DEFINE S == [content : SUBSET Writes, modified : BOOLEAN]
  <1>1. heap \in Seq(S)
    BY DEF CellInv, Steady, Typed, CellTypeOK
  <1> HIDE DEF S
  <1>2. heap[n] \in S
    BY <1>1, SeqElement
  <1> QED
    BY <1>2 DEF S

(* The places of the others in the count of loads stay as they are.        *)
LEMMA LoadingKept ==
  ASSUME CellInv, NEW c \in Clients, NEW r \in Locals, Go(c, r),
         r.at \in {"load", "insert"} => client[c].at \in {"load", "insert"},
         UNCHANGED heap
  PROVE  Room'
  <1>1. client'[c] = r /\ \A d \in Clients : d # c => client'[d] = client[d]
    BY GoStep DEF Go, CellInv, Steady
  <1>2. Loading' \subseteq Loading
    BY <1>1 DEF Loading
  <1> QED
    BY <1>2, RoomKept DEF CellInv, Steady

LEMMA SoundShrinks ==
  ASSUME CellInv, NEW c \in Clients, NEW r \in Locals, Go(c, r),
         failed \subseteq failed', NEW p \in Sound'
  PROVE  p \in Sound /\ p \in Positions /\ Fine(p)
  <1>1. raced \subseteq raced'
    BY GoStep DEF Go, CellInv, Steady
  <1> QED
    BY <1>1, StaticFacts DEF Sound
------------------------------------------------------------------------------
LEMMA HitKeeps ==
  ASSUME CellInv, NEW c \in Clients, NEW p \in Positions, Hit(c, p)
  PROVE  CellInv'
  <1>1. PICK i \in Cached(p) :
          /\ cells' = Append(RemoveAt(cells, i), cells[i])
          /\ Go(c, [client[c] EXCEPT !.at = "got", !.pos = p,
                                     !.cell = cells[i].cell])
    BY DEF Hit
  <1>2. /\ client[c].at = "idle"
        /\ UNCHANGED <<heap, disk, acked, writes, failed>>
    BY DEF Hit
  <1> DEFINE r == [client[c] EXCEPT !.at = "got", !.pos = p,
                                    !.cell = cells[i].cell]
  <1>3. i \in 1 .. Len(cells) /\ cells[i] \in Entries /\ cells[i].pos = p
    BY StaticFacts, <1>1 DEF Cached, Entries, Range
  <1>4. /\ cells' \in Seq(Entry) /\ Len(cells') <= CacheSize
        /\ Distinct(cells') /\ Entries' = Entries
    BY <1>1, <1>3, MoveToEnd, StaticFacts DEF Entries
  <1>5. cells[i] \in Entry /\ cells[i].cell \in 1 .. Len(heap)
    BY <1>3, StaticFacts
  <1>6. cells[i] = [pos |-> p, cell |-> cells[i].cell]
    BY <1>3, <1>5 DEF Entry
  <1>7. /\ r \in Locals /\ r.at = "got" /\ r.pos = p
        /\ r.cell = cells[i].cell /\ r.todo = client[c].todo
    BY <1>5, ClientFacts DEF Locals, Entry, States
  <1>8. Go(c, r)
    BY <1>1
  <1> HIDE DEF r
  <1>9. client[c].todo = <<>>
    BY <1>2, ClientFacts DEF Known
  <1>10. Range(r.todo) = {}
    BY <1>7, <1>9 DEF Range
  <1>11. Known(r, Len(heap))
    BY <1>5, <1>7, <1>9, <1>10 DEF Known
  <1>12. Room'
    BY <1>2, <1>7, <1>8, LoadingKept
  <1>13. [pos |-> r.pos, cell |-> r.cell] \in Entries
    BY <1>3, <1>6, <1>7
  <1>14. ASSUME NEW q \in Sound'
         PROVE  InHand(r, q)
    BY <1>7, <1>10, <1>13 DEF InHand, Holds
  <1>15. r.at = "got" /\ client[c].at = "idle"
    BY <1>2, <1>7
  <1> QED
    BY <1>2, <1>4, <1>7, <1>8, <1>11, <1>12, <1>13, <1>14, <1>15, MoveKeeps,
       StaticFacts

(* The same for a step that leaves the cache as it is.                     *)
LEMMA StayKeeps ==
  ASSUME CellInv, NEW c \in Clients, NEW r \in Locals, Go(c, r),
         UNCHANGED <<cells, heap, acked, writes>>,
         failed \subseteq failed', failed' \subseteq Positions,
         disk' \in [Positions -> SUBSET Writes],
         Known(r, Len(heap)), Room',
         Holds(r) => /\ Holds(client[c])
                     /\ r.cell = client[c].cell /\ r.pos = client[c].pos,
         \A p \in Sound' :
           /\ disk'[p] \in {disk[p], acked[p]}
           /\ client[c].at = "evict" /\ client[c].target = p
                => disk'[p] = acked[p]
           /\ InHand(r, p)
           /\ r.at \in {"save", "write"} =>
                /\ r.due[p] \subseteq acked[p]
                /\ \/ \E e \in Range(r.todo) : e.pos = p
                   \/ r.at = "write" /\ r.target = p
                   \/ r.due[p] \subseteq disk'[p]
                   \/ Evicting(p) # {}
  PROVE  CellInv'
  <1>1. /\ cells' \in Seq(Entry) /\ Len(cells') <= CacheSize
        /\ Distinct(cells') /\ Entries' = Entries
    BY StaticFacts DEF Entries
  <1> QED
    BY <1>1, MoveKeeps

LEMMA MissKeeps ==
  ASSUME CellInv, NEW c \in Clients, NEW p \in Positions, Miss(c, p)
  PROVE  CellInv'
  <1> DEFINE r == [client[c] EXCEPT !.at = "load", !.pos = p]
  <1>1. /\ client[c].at = "idle" /\ Cached(p) = {}
        /\ Len(heap) + Cardinality(Loading) < MaxCells
        /\ Go(c, r)
        /\ UNCHANGED <<cells, heap, disk, acked, writes, failed>>
    BY DEF Miss
  <1>2. ~IsCached(p)
    BY <1>1 DEF IsCached, Cached, Entries, Range
  <1>3. r \in Locals /\ r.at = "load" /\ r.pos = p /\ r.todo = client[c].todo
    BY ClientFacts DEF Locals, States
  <1> HIDE DEF r
  <1>4. r.todo = <<>> /\ Range(r.todo) = {}
    BY <1>1, <1>3, ClientFacts DEF Known, Range
  <1>5. Known(r, Len(heap))
    BY <1>3, <1>4 DEF Known, Holds
  <1>6. Room'
    <2>1. client'[c] = r /\ \A d \in Clients : d # c => client'[d] = client[d]
      BY <1>1, <1>3, GoStep DEF Go, CellInv, Steady
    <2>2. Loading' = Loading \cup {c}
      BY <2>1, <1>3 DEF Loading
    <2>3. \/ Cardinality(Loading') = Cardinality(Loading)
          \/ Cardinality(Loading') = Cardinality(Loading) + 1
      BY <2>2, LoadingFinite, FS_AddElement
    <2> QED
      BY <2>3, <1>1, LoadingFinite, StaticFacts, CacheAssumption DEF Room
  <1>7. ASSUME NEW q \in Sound'
        PROVE  InHand(r, q)
    BY <1>2, <1>3, <1>4 DEF InHand, Holds
  <1>8. ~Holds(r) /\ r.at = "load"
    BY <1>3 DEF Holds
  <1> QED
    BY <1>1, <1>3, <1>5, <1>6, <1>7, <1>8, StayKeeps, StaticFacts

LEMMA LoadKeeps ==
  ASSUME CellInv, NEW c \in Clients, Load(c)
  PROVE  CellInv'
  <1> DEFINE p == client[c].pos
  <1>1. PICK b \in {disk[p], {}} :
          /\ Go(c, [client[c] EXCEPT !.at = "insert", !.bytes = b])
          /\ \/ b = disk[p] /\ UNCHANGED <<disk, failed>>
             \/ /\ failed' = failed \cup {p}
                /\ disk' \in {disk, [disk EXCEPT ![p] = {}]}
    BY DEF Load
  <1>2. client[c].at = "load" /\ UNCHANGED <<cells, heap, acked, writes>>
    BY DEF Load
  <1> DEFINE r == [client[c] EXCEPT !.at = "insert", !.bytes = b]
  <1>3. p \in Positions /\ b \subseteq Writes
    BY <1>1, ClientFacts, StaticFacts
  <1>4. /\ r \in Locals /\ r.at = "insert" /\ r.pos = p /\ r.bytes = b
        /\ r.todo = client[c].todo
    BY <1>3, ClientFacts DEF Locals, States
  <1>5. Go(c, r)
    BY <1>1
  <1> HIDE DEF r
  <1>6. /\ failed \subseteq failed' /\ failed' \subseteq Positions
        /\ disk' \in [Positions -> SUBSET Writes]
    BY <1>1, <1>3, StaticFacts
  <1>7. r.todo = <<>> /\ Range(r.todo) = {}
    BY <1>2, <1>4, ClientFacts DEF Known, Range
  <1>8. Known(r, Len(heap)) /\ ~Holds(r)
    BY <1>4, <1>7 DEF Known, Holds
  <1>9. Room'
    BY <1>2, <1>4, <1>5, LoadingKept
  <1>10. ASSUME NEW q \in Sound'
         PROVE  disk'[q] = disk[q] /\ InHand(r, q)
    <2>1. q \in Sound /\ q \in Positions /\ Fine(q)
      BY <1>4, <1>5, <1>6, <1>10, SoundShrinks
    <2>2. disk'[q] = disk[q] /\ (q = p => b = disk[p])
      BY <2>1, <1>1, <1>10, StaticFacts DEF Sound
    <2>3. CASE q = p
      <3>1. ~IsCached(p)
        BY <2>1, <2>3, <1>2 DEF Fine, InHand
      <3>2. Evicting(p) = {}
        <4>1. p \in BusyWith(client[c])
          BY <1>2 DEF BusyWith
        <4>2. \A d \in Clients : d # c => d \notin Evicting(p)
          BY <4>1, <2>1, <2>3, BusyAlone
        <4> QED
          BY <4>2, <1>2 DEF Evicting
      <3>3. b = acked[p]
        BY <2>1, <2>2, <2>3, <3>1, <3>2 DEF Fine, Current
      <3> QED
        BY <2>2, <2>3, <3>1, <3>3, <1>4, <1>7 DEF InHand, Holds
    <2>4. CASE q # p
      BY <2>2, <2>4, <1>4, <1>7 DEF InHand, Holds
    <2> QED
      BY <2>3, <2>4
  <1> QED
    BY <1>2, <1>4, <1>5, <1>6, <1>8, <1>9, <1>10, StayKeeps

LEMMA EvictKeeps ==
  ASSUME CellInv, NEW c \in Clients, Evict(c)
  PROVE  CellInv'
  <1> DEFINE p == client[c].target
             r == [client[c] EXCEPT !.at = "got"]
  <1>1. /\ client[c].at = "evict" /\ Go(c, r)
        /\ UNCHANGED <<cells, heap, acked, writes>>
        /\ \/ disk' = [disk EXCEPT ![p] = client[c].bytes] /\ UNCHANGED failed
           \/ failed' = failed \cup {p} /\ UNCHANGED disk
    BY DEF Evict, GoOn
  <1>2. p \in Positions /\ client[c].bytes \subseteq Writes
    BY ClientFacts
  <1>3. /\ r \in Locals /\ r.at = "got" /\ r.pos = client[c].pos
        /\ r.cell = client[c].cell /\ r.todo = client[c].todo
    BY ClientFacts DEF Locals, States
  <1> HIDE DEF r
  <1>4. /\ failed \subseteq failed' /\ failed' \subseteq Positions
        /\ disk' \in [Positions -> SUBSET Writes]
    BY <1>1, <1>2, StaticFacts
  <1>5. r.todo = <<>> /\ Range(r.todo) = {}
    BY <1>1, <1>3, ClientFacts DEF Known, Range
  <1>6. Known(r, Len(heap)) /\ Holds(client[c])
    BY <1>1, <1>3, <1>5, ClientFacts DEF Known, Holds
  <1>7. Room'
    BY <1>1, <1>3, LoadingKept
  <1>8. ASSUME NEW q \in Sound'
        PROVE  /\ disk'[q] \in {disk[q], acked[q]}
               /\ q = p => disk'[q] = acked[q]
               /\ InHand(r, q)
    <2>1. q \in Sound /\ q \in Positions /\ Fine(q)
      BY <1>1, <1>3, <1>4, <1>8, SoundShrinks
    <2>2. q = p => client[c].bytes = acked[q] /\ failed' = failed
      BY <2>1, <1>1, <1>8 DEF Fine, InHand, Sound
    <2>3. InHand(r, q)
      BY <2>1, <1>1, <1>3, <1>5 DEF Fine, InHand, Holds
    <2>4. disk'[q] \in {disk[q], acked[q]} /\ (q = p => disk'[q] = acked[q])
      <3>1. CASE q = p
        BY <3>1, <2>1, <2>2, <1>1, <1>8, StaticFacts DEF Sound
      <3>2. CASE q # p
        BY <3>2, <2>1, <1>1, StaticFacts
      <3> QED
        BY <3>1, <3>2
    <2> QED
      BY <2>3, <2>4
  <1>9. r.at = "got"
    BY <1>3
  <1> QED
    BY <1>1, <1>3, <1>4, <1>6, <1>7, <1>8, <1>9, StayKeeps

(* A client that is done forgets what it knew.                             *)
LEMMA RestKeeps ==
  ASSUME CellInv, NEW c \in Clients, client[c].at # "evict", Go(c, Resting),
         UNCHANGED <<cells, heap, disk, acked, writes, failed>>
  PROVE  CellInv'
  <1>1. /\ Resting \in Locals /\ Resting.at = "idle" /\ Resting.todo = <<>>
        /\ Known(Resting, Len(heap)) /\ Range(Resting.todo) = {}
    BY RestingIsLocal, StaticFacts DEF Range
  <1>2. Room'
    BY <1>1, LoadingKept
  <1>3. ASSUME NEW q \in Sound'
        PROVE  InHand(Resting, q)
    BY <1>1 DEF InHand, Holds
  <1>4. ~Holds(Resting)
    BY <1>1 DEF Holds
  <1> QED
    BY <1>1, <1>2, <1>3, <1>4, StayKeeps, StaticFacts

LEMMA SaveKeeps ==
  ASSUME CellInv, NEW c \in Clients, Save(c)
  PROVE  CellInv'
  <1> DEFINE r == [client[c] EXCEPT !.at = "save", !.todo = cells,
                                    !.due = acked]
  <1>1. /\ client[c].at = "idle" /\ Go(c, r)
        /\ UNCHANGED <<cells, heap, disk, acked, writes, failed>>
    BY DEF Save
  <1>2. /\ r \in Locals /\ r.at = "save" /\ r.todo = cells /\ r.due = acked
    BY ClientFacts, StaticFacts DEF Locals, States
  <1> HIDE DEF r
  <1>3. Range(r.todo) = Entries
    BY <1>2 DEF Entries
  <1>4. ~Holds(r)
    BY <1>2 DEF Holds
  <1>5. \A e \in Entries : e.cell <= Len(heap)
    BY StaticFacts
  <1>6. Known(r, Len(heap))
    BY <1>2, <1>3, <1>4, <1>5 DEF Known
  <1>7. Room'
    BY <1>1, <1>2, LoadingKept
  <1>8. ASSUME NEW q \in Sound'
        PROVE  /\ InHand(r, q)
               /\ r.due[q] \subseteq acked[q]
               /\ \/ \E e \in Range(r.todo) : e.pos = q
                  \/ r.due[q] \subseteq disk[q]
                  \/ Evicting(q) # {}
    <2>1. q \in Sound /\ q \in Positions /\ Fine(q)
      BY <1>1, <1>2, <1>8, SoundShrinks
    <2>2. InHand(r, q)
      BY <1>2, <1>3, <1>4 DEF InHand
    <2>3. \/ IsCached(q) \/ disk[q] = acked[q] \/ Evicting(q) # {}
      BY <2>1 DEF Fine, Current
    <2> QED
      BY <2>2, <2>3, <1>2, <1>3 DEF IsCached
  <1> QED
    BY <1>1, <1>2, <1>4, <1>6, <1>7, <1>8, StayKeeps, StaticFacts

LEMMA SaveCellKeeps ==
  ASSUME CellInv, NEW c \in Clients, SaveCell(c)
  PROVE  CellInv'
  <1> DEFINE s == client[c].todo
             f == Head(s)
             skip == [client[c] EXCEPT !.todo = Tail(@)]
             take == [client[c] EXCEPT !.at = "write", !.todo = Tail(@),
                                       !.target = f.pos,
                                       !.bytes = Content(heap, f.cell)]
  <1>1. /\ client[c].at = "save" /\ s # <<>>
        /\ UNCHANGED <<cells, heap, disk, acked, writes, failed>>
        /\ \/ IsModified(heap, f.cell) /\ Go(c, take)
           \/ ~IsModified(heap, f.cell) /\ Go(c, skip)
    BY DEF SaveCell
  <1>2. /\ s \in Seq(Entry) /\ Tail(s) \in Seq(Entry) /\ f \in Entry
        /\ Range(s) = Range(Tail(s)) \cup {f}
    BY <1>1, ClientFacts, TailFacts
  <1>3. \A e \in Range(s) : e.cell <= Len(heap)
    BY ClientFacts DEF Known
  <1>4. f.cell \in 1 .. Len(heap)
    BY <1>2, <1>3, CacheAssumption, StaticFacts DEF Entry, Cells
  <1>5. Content(heap, f.cell) \subseteq Writes /\ f.pos \in Positions
    <2>1. f.pos \in Positions
      BY <1>2 DEF Entry
    <2> QED
      BY <2>1, <1>4, HeapCell DEF Content
  <1>6. /\ skip \in Locals /\ skip.at = "save" /\ skip.todo = Tail(s)
        /\ skip.due = client[c].due
    BY <1>1, <1>2, ClientFacts DEF Locals
  <1>7. /\ take \in Locals /\ take.at = "write" /\ take.todo = Tail(s)
        /\ take.due = client[c].due /\ take.target = f.pos
        /\ take.bytes = Content(heap, f.cell)
    BY <1>2, <1>5, ClientFacts DEF Locals, States
  <1> HIDE DEF skip, take
  (* What the client owes a position, at the head of its list or behind.   *)
  <1>8. ASSUME NEW q \in Sound
        PROVE  /\ client[c].due[q] \subseteq acked[q]
               /\ \A e \in Range(Tail(s)) : e.pos = q => e \in Entries
               /\ f.pos = q => /\ f \in Entries
                               /\ Content(heap, f.cell) = acked[q]
                               /\ \/ IsModified(heap, f.cell)
                                  \/ disk[q] = acked[q]
               /\ \/ \E e \in Range(Tail(s)) : e.pos = q
                  \/ f.pos = q
                  \/ client[c].due[q] \subseteq disk[q]
                  \/ Evicting(q) # {}
    <2>1. InHand(client[c], q) /\ ToSave(client[c], q) /\ Current(q)
      BY StaticFacts DEF Fine
    <2>2. \A e \in Range(s) : e.pos = q => e \in Entries
      BY <2>1 DEF InHand
    <2>3. f.pos = q => /\ f \in Entries
                       /\ Content(heap, f.cell) = acked[q]
                       /\ IsModified(heap, f.cell) \/ disk[q] = acked[q]
      BY <2>1, <2>2, <1>2 DEF Current
    <2>4. /\ client[c].due[q] \subseteq acked[q]
          /\ \/ \E e \in Range(s) : e.pos = q
             \/ client[c].due[q] \subseteq disk[q]
             \/ Evicting(q) # {}
      BY <2>1, <1>1 DEF ToSave
    <2> QED
      BY <2>2, <2>3, <2>4, <1>2
  <1>9. \A e \in Range(Tail(s)) : e.cell <= Len(heap)
    BY <1>2, <1>3
  <1>10. CASE ~IsModified(heap, f.cell) /\ Go(c, skip)
    <2>1. ~Holds(skip)
      BY <1>6 DEF Holds
    <2>2. Known(skip, Len(heap))
      BY <2>1, <1>6, <1>9 DEF Known
    <2>3. Room'
      BY <1>1, <1>6, <1>10, LoadingKept
    <2>4. ASSUME NEW q \in Sound'
          PROVE  /\ InHand(skip, q)
                 /\ skip.due[q] \subseteq acked[q]
                 /\ \/ \E e \in Range(skip.todo) : e.pos = q
                    \/ skip.due[q] \subseteq disk[q]
                    \/ Evicting(q) # {}
      <3>1. q \in Sound
        BY <1>1, <1>6, <1>10, <2>4, SoundShrinks
      <3>2. InHand(skip, q)
        BY <3>1, <1>6, <1>8, <2>1 DEF InHand
      <3> QED
        BY <3>1, <3>2, <1>6, <1>8, <1>10
    <2> QED
      BY <1>1, <1>6, <1>10, <2>1, <2>2, <2>3, <2>4, StayKeeps, StaticFacts
  <1>11. CASE IsModified(heap, f.cell) /\ Go(c, take)
    <2>1. ~Holds(take)
      BY <1>7 DEF Holds
    <2>2. Known(take, Len(heap))
      BY <2>1, <1>7, <1>9 DEF Known
    <2>3. Room'
      BY <1>1, <1>7, <1>11, LoadingKept
    <2>4. ASSUME NEW q \in Sound'
          PROVE  /\ InHand(take, q)
                 /\ take.due[q] \subseteq acked[q]
                 /\ \/ \E e \in Range(take.todo) : e.pos = q
                    \/ take.at = "write" /\ take.target = q
                    \/ take.due[q] \subseteq disk[q]
                    \/ Evicting(q) # {}
      <3>1. q \in Sound
        BY <1>1, <1>7, <1>11, <2>4, SoundShrinks
      <3>2. f.pos = q => IsCached(q)
        BY <3>1, <1>8 DEF IsCached
      <3>3. InHand(take, q)
        BY <3>1, <3>2, <1>7, <1>8, <2>1 DEF InHand
      <3> QED
        BY <3>1, <3>3, <1>7, <1>8
    <2> QED
      BY <1>1, <1>7, <1>11, <2>1, <2>2, <2>3, <2>4, StayKeeps, StaticFacts
  <1> QED
    BY <1>1, <1>10, <1>11

LEMMA WriteKeeps ==
  ASSUME CellInv, NEW c \in Clients, Write(c)
  PROVE  CellInv'
  <1> DEFINE p == client[c].target
             r == [client[c] EXCEPT !.at = "save"]
  <1>1. /\ client[c].at = "write" /\ Go(c, r)
        /\ UNCHANGED <<cells, heap, acked, writes>>
        /\ disk' \in {disk, [disk EXCEPT ![p] = client[c].bytes]}
        /\ failed' = IF disk' # disk \/ client[c].bytes = disk[p]
                     THEN failed ELSE failed \cup {p}
    BY DEF Write, GoOn
  <1>2. p \in Positions /\ client[c].bytes \subseteq Writes
    BY ClientFacts
  <1>3. /\ r \in Locals /\ r.at = "save" /\ r.todo = client[c].todo
        /\ r.due = client[c].due
    BY ClientFacts DEF Locals, States
  <1> HIDE DEF r
  <1>4. /\ failed \subseteq failed' /\ failed' \subseteq Positions
        /\ disk' \in [Positions -> SUBSET Writes]
    BY <1>1, <1>2, StaticFacts
  <1>5. ~Holds(r)
    BY <1>3 DEF Holds
  <1>6. Known(r, Len(heap))
    BY <1>3, <1>5, ClientFacts DEF Known
  <1>7. Room'
    BY <1>1, <1>3, LoadingKept
  <1>8. ASSUME NEW q \in Sound'
        PROVE  /\ disk'[q] \in {disk[q], acked[q]}
               /\ InHand(r, q)
               /\ r.due[q] \subseteq acked[q]
               /\ \/ \E e \in Range(r.todo) : e.pos = q
                  \/ r.due[q] \subseteq disk'[q]
                  \/ Evicting(q) # {}
    <2>1. q \in Sound /\ q \in Positions /\ Fine(q)
      BY <1>1, <1>3, <1>4, <1>8, SoundShrinks
    <2>2. InHand(client[c], q) /\ ToSave(client[c], q)
      BY <2>1 DEF Fine
    <2>3. InHand(r, q)
      BY <2>2, <1>3, <1>5 DEF InHand
    <2>4. q # p => disk'[q] = disk[q]
      BY <2>1, <1>1, <1>2, StaticFacts
    <2>5. q = p => disk'[q] = acked[q]
      <3>1. SUFFICES ASSUME q = p PROVE disk'[q] = acked[q]
        OBVIOUS
      <3>2. client[c].bytes = acked[q]
        BY <3>1, <2>2, <1>1 DEF InHand
      <3>3. disk' # disk \/ client[c].bytes = disk[p]
        BY <3>1, <1>1, <1>8 DEF Sound
      <3> QED
        BY <3>1, <3>2, <3>3, <1>1, <1>2, StaticFacts
    <2>6. /\ r.due[q] \subseteq acked[q]
          /\ \/ \E e \in Range(r.todo) : e.pos = q
             \/ q = p
             \/ r.due[q] \subseteq disk[q]
             \/ Evicting(q) # {}
      BY <2>2, <1>1, <1>3 DEF ToSave
    <2> QED
      BY <2>3, <2>4, <2>5, <2>6
  <1> QED
    BY <1>1, <1>3, <1>4, <1>5, <1>6, <1>7, <1>8, StayKeeps
------------------------------------------------------------------------------
LEMMA SetKeeps ==
  ASSUME CellInv, NEW c \in Clients, Set(c)
  PROVE  CellInv'
  <1> DEFINE p == client[c].pos
             k == client[c].cell
  <1>1. /\ client[c].at = "got" /\ writes < MaxWrites /\ writes' = writes + 1
        /\ heap' = [heap EXCEPT ![k] =
                      [content  |-> @.content \cup {writes'},
                       modified |-> TRUE]]
        /\ acked' = [acked EXCEPT ![p] = @ \cup {writes'}]
        /\ Go(c, Resting)
        /\ UNCHANGED <<cells, disk, failed>>
    BY DEF Set
  <1>2. /\ Resting \in Locals /\ Resting.at = "idle" /\ Resting.todo = <<>>
        /\ Known(Resting, Len(heap)) /\ Range(Resting.todo) = {}
        /\ ~Holds(Resting)
    BY RestingIsLocal, StaticFacts DEF Range, Holds
  <1>3. /\ client' \in [Clients -> Locals]
        /\ client'[c] = Resting
        /\ \A d \in Clients : d # c => client'[d] = client[d]
        /\ raced \subseteq raced' /\ raced' \subseteq Positions
        /\ RacesSeen'
    BY <1>1, <1>2, GoStep DEF Go, CellInv, Steady
  <1>4. /\ p \in Positions /\ k \in 1 .. Len(heap)
        /\ writes' \in Writes /\ writes' \in 0 .. MaxWrites
    <2>1. p \in Positions /\ k \in 1 .. Len(heap)
      BY <1>1, ClientFacts DEF Known, Holds
    <2>2. writes \in 0 .. MaxWrites
      BY DEF CellInv, Steady, Typed, CellTypeOK
    <2> QED
      BY <2>1, <2>2, <1>1, CacheAssumption DEF Writes
  <1>5. /\ heap' \in Seq([content : SUBSET Writes, modified : BOOLEAN])
        /\ Len(heap') = Len(heap)
        /\ heap'[k].content = heap[k].content \cup {writes'}
        /\ heap'[k].modified = TRUE
        /\ \A n \in 1 .. Len(heap) : n # k => heap'[n] = heap[n]
    <2> DEFINE S == [content : SUBSET Writes, modified : BOOLEAN]
               o == [content |-> heap[k].content \cup {writes'},
                     modified |-> TRUE]
    <2>1. o \in S
      BY <1>4, HeapCell
    <2>2. heap \in Seq(S)
      BY DEF CellInv, Steady, Typed, CellTypeOK
    <2>3. heap' = [heap EXCEPT ![k] = o]
      BY <1>1
    <2>4. o.content = heap[k].content \cup {writes'} /\ o.modified = TRUE
      OBVIOUS
    <2> HIDE DEF S, o
    <2>5. /\ heap' \in Seq(S) /\ Len(heap') = Len(heap) /\ heap'[k] = o
          /\ \A n \in 1 .. Len(heap) : n # k => heap'[n] = heap[n]
      BY <2>1, <2>2, <2>3, <1>4
    <2> QED
      BY <2>4, <2>5 DEF S
  <1>6. /\ acked' \in [Positions -> SUBSET Writes]
        /\ acked'[p] = acked[p] \cup {writes'}
        /\ \A q \in Positions : q # p => acked'[q] = acked[q]
    BY <1>1, <1>4, StaticFacts
  <1>7. Entries' = Entries
    BY <1>1 DEF Entries
  <1>8. CellTypeOK'
    BY <1>1, <1>3, <1>4, <1>5, <1>6 DEF CellInv, Steady, Typed, CellTypeOK
  <1>9. Typed'
    <2>1. \A d \in Clients : Known(client'[d], Len(heap'))
      BY <1>2, <1>3, <1>5 DEF CellInv, Steady, Typed
    <2> QED
      BY <2>1, <1>3, <1>8 DEF Typed
  <1>10. Room'
    <2>1. Loading' \subseteq Loading
      BY <1>2, <1>3 DEF Loading
    <2> QED
      BY <2>1, <1>5, RoomKept DEF CellInv, Steady
  <1>11. Owned'
    BY <1>2, <1>3, <1>7 DEF CellInv, Steady, Owned
  <1>12. ASSUME NEW q \in Sound'
         PROVE  Fine(q)'
    <2>1. q \in Sound /\ q \in Positions /\ Fine(q)
      BY <1>1, <1>3, <1>12, StaticFacts DEF Sound
    <2>2. Evicting(q) \subseteq Evicting(q)'
      BY <1>1, <1>3 DEF Evicting
    <2>3. q = p => [pos |-> p, cell |-> k] \in Entries /\ IsCached(q)
      <3>1. q = p => [pos |-> p, cell |-> k] \in Entries
        BY <2>1, <1>1 DEF Fine, InHand, Holds
      <3>2. [pos |-> p, cell |-> k].pos = p
        OBVIOUS
      <3> QED
        BY <3>1, <3>2 DEF IsCached
    <2>4. IsCached(q)' <=> IsCached(q)
      BY <1>7 DEF IsCached
    (* The cell that is written to is that of its own position only.       *)
    <2>5. ASSUME NEW e \in Entries, e.pos = q
          PROVE  /\ q = p => e.cell = k
                 /\ q # p => heap'[e.cell] = heap[e.cell]
      <3>1. e.cell \in 1 .. Len(heap) /\ e \in Entry
        BY StaticFacts
      <3>2. e.cell = k => e.pos = p
        BY <1>1 DEF CellInv, Steady, Owned, Holds
      <3>3. q = p => e.cell = k
        <4>1. \A i, j \in DOMAIN cells :
                cells[i].pos = cells[j].pos => i = j
          BY StaticFacts DEF Distinct
        <4>2. \A x, y \in Entries : x.pos = y.pos => x = y
          BY <4>1 DEF Entries, Range
        <4> QED
          BY <4>2, <2>3, <2>5
      <3> QED
        BY <3>1, <3>2, <3>3, <2>5, <1>5
    <2>6. Current(q)'
      <3>1. ASSUME NEW e \in Entries, e.pos = q
            PROVE  /\ heap'[e.cell].content = acked'[q]
                   /\ heap'[e.cell].modified \/ disk[q] = acked'[q]
        <4>1. /\ heap[e.cell].content = acked[q]
              /\ heap[e.cell].modified \/ disk[q] = acked[q]
          BY <2>1, <3>1 DEF Fine, Current, Content, IsModified
        <4>2. CASE q = p
          BY <4>1, <4>2, <2>5, <3>1, <1>5, <1>6
        <4>3. CASE q # p
          BY <4>1, <4>3, <2>1, <2>5, <3>1, <1>6
        <4> QED
          BY <4>2, <4>3
      <3>2. ~IsCached(q) /\ Evicting(q)' = {} => disk[q] = acked'[q]
        <4>1. q # p => acked'[q] = acked[q]
          BY <2>1, <1>6
        <4> QED
          BY <4>1, <2>1, <2>2, <2>3 DEF Fine, Current
      <3> QED
        BY <3>1, <3>2, <2>4, <1>1, <1>7 DEF Current, Content, IsModified
    <2>7. ASSUME NEW d \in Clients
          PROVE  InHand(client[d], q)' /\ ToSave(client[d], q)'
      <3>1. CASE d = c
        BY <3>1, <1>2, <1>3 DEF InHand, ToSave
      <3>2. CASE d # c
        <4>1. InHand(client[d], q) /\ ToSave(client[d], q)
          BY <2>1 DEF Fine
        <4>2. q = p => /\ ~(client[d].at = "insert" /\ client[d].pos = q)
                       /\ ~(client[d].at = "evict" /\ client[d].target = q)
                       /\ ~(client[d].at = "write" /\ client[d].target = q)
          <5>1. SUFFICES ASSUME q = p
                         PROVE  q \notin BusyWith(client[d])
            BY DEF BusyWith
          <5>2. q \in BusyWith(client[c])
            BY <5>1, <1>1 DEF BusyWith
          <5> QED
            BY <5>2, <3>2, <2>1, BusyAlone
        <4>3. acked[q] \subseteq acked'[q] /\ (q # p => acked'[q] = acked[q])
          BY <2>1, <1>6
        <4>4. client'[d] = client[d]
          BY <3>2, <1>3
        <4>5. InHand(client[d], q)'
          BY <4>1, <4>2, <4>3, <4>4, <2>4, <1>7 DEF InHand
        <4>6. ToSave(client[d], q)'
          BY <4>1, <4>3, <4>4, <2>2, <1>1 DEF ToSave
        <4> QED
          BY <4>5, <4>6
      <3> QED
        BY <3>1, <3>2
    <2> QED
      BY <2>6, <2>7 DEF Fine
  <1> QED
    BY <1>3, <1>9, <1>10, <1>11, <1>12 DEF CellInv, Steady

LEMMA ResetKeeps ==
  ASSUME CellInv, Reset
  PROVE  CellInv'
  <1>1. /\ \A c \in Clients : client[c].at = "idle"
        /\ disk' = [p \in Positions |-> {}] /\ acked' = disk' /\ cells' = <<>>
        /\ UNCHANGED <<heap, client, writes, failed, raced>>
    BY DEF Reset
  <1>2. Entries' = {}
    BY <1>1 DEF Entries, Range
  <1>3. CellTypeOK'
    BY <1>1, CacheAssumption DEF CellInv, Steady, Typed, CellTypeOK
  <1>4. Typed'
    BY <1>1, <1>3 DEF CellInv, Steady, Typed
  <1>5. Room'
    <2>1. Loading' \subseteq Loading /\ Len(heap') = Len(heap)
      BY <1>1 DEF Loading
    <2> QED
      BY <2>1, RoomKept DEF CellInv, Steady
  <1>6. Owned' /\ RacesSeen'
    BY <1>1, <1>2 DEF CellInv, Steady, Owned, RacesSeen
  <1>7. ASSUME NEW q \in Sound'
        PROVE  Fine(q)'
    <2>1. disk'[q] = acked'[q]
      BY <1>1
    <2>2. Current(q)'
      BY <2>1, <1>2 DEF Current
    <2>3. ASSUME NEW d \in Clients
          PROVE  InHand(client[d], q)' /\ ToSave(client[d], q)'
      <3>1. client[d].at = "idle" /\ client'[d] = client[d]
        BY <1>1
      <3>2. client[d].todo = <<>>
        BY <3>1, ClientFacts DEF Known
      <3>3. Range(client[d].todo) = {}
        BY <3>2 DEF Range
      <3> QED
        BY <3>1, <3>3 DEF InHand, ToSave, Holds
    <2> QED
      BY <2>2, <2>3 DEF Fine
  <1> QED
    BY <1>4, <1>5, <1>6, <1>7 DEF CellInv, Steady

(* Client c has become r: its cell went in, and those of some positions,   *)
(* none or one, went out for it.                                           *)
Inserted(c, r, dropped) ==
  LET p   == client[c].pos
      new == [pos |-> p, cell |-> Len(heap) + 1]
  IN  /\ GoDropping(c, r, dropped)
      /\ Holds(r) /\ r.cell = new.cell /\ r.pos = p /\ r.todo = <<>>
      /\ p \notin dropped
      /\ cells' \in Seq(Entry) /\ Len(cells') <= CacheSize /\ Distinct(cells')
      /\ Entries' = {e \in Entries : e.pos # p /\ e.pos \notin dropped}
                       \cup {new}
      /\ r.at = "evict" => r.target \in dropped
      /\ \A q \in dropped : \E e \in Entries :
           /\ e.pos = q
           /\ \/ /\ r.at = "evict" /\ r.target = q
                 /\ r.bytes = Content(heap, e.cell)
              \/ r.at = "got" /\ ~IsModified(heap, e.cell)

LEMMA InsertStep ==
  ASSUME CellInv, NEW c \in Clients, Insert(c)
  PROVE  /\ client[c].at = "insert" /\ Len(heap) + 1 \in Cells
         /\ [pos |-> client[c].pos, cell |-> Len(heap) + 1] \in Entry
         /\ heap' = Append(heap, [content  |-> client[c].bytes,
                                  modified |-> FALSE])
         /\ UNCHANGED <<disk, acked, writes, failed>>
         /\ \E r \in Locals, dropped \in SUBSET Positions :
              Inserted(c, r, dropped)
  <1> DEFINE p      == client[c].pos
             n      == Len(heap) + 1
             new    == [pos |-> p, cell |-> n]
             g      == WithCell(p, n)
             eldest == Head(g)
             full   == Len(g) > CacheSize
             object == [content |-> client[c].bytes, modified |-> FALSE]
  <1>1. /\ client[c].at = "insert" /\ heap' = Append(heap, object)
        /\ cells' = IF full THEN Tail(g) ELSE g
        /\ UNCHANGED <<disk, acked, writes, failed>>
    BY DEF Insert, Loaded
  <1>2. /\ IF full /\ IsModified(heap', eldest.cell)
           THEN GoDropping(c, [client[c] EXCEPT
                                 !.at = "evict", !.cell = Len(heap'),
                                 !.target = eldest.pos,
                                 !.bytes = Content(heap', eldest.cell)],
                           {eldest.pos})
           ELSE GoDropping(c, [client[c] EXCEPT !.at = "got",
                                                !.cell = Len(heap')],
                           IF full THEN {eldest.pos} ELSE {})
    BY DEF Insert, Loaded
  <1>3. /\ p \in Positions /\ client[c] \in Locals
        /\ client[c].todo = <<>> /\ client[c].bytes \subseteq Writes
    BY <1>1, ClientFacts DEF Known
  <1>4. n \in Cells \ {0} /\ n <= MaxCells
    <2>1. c \in Loading
      BY <1>1 DEF Loading
    <2>2. Cardinality(Loading) # 0
      BY <2>1, LoadingFinite, FS_EmptySet
    <2> QED
      BY <2>2, LoadingFinite, StaticFacts, CacheAssumption
         DEF CellInv, Steady, Room, Cells
  <1>5. Len(heap') = n /\ \A i \in 1 .. Len(heap) : heap'[i] = heap[i]
    <2> DEFINE S == [content : SUBSET Writes, modified : BOOLEAN]
    <2>1. heap \in Seq(S) /\ object \in S
      BY <1>3 DEF CellInv, Steady, Typed, CellTypeOK
    <2> HIDE DEF S, object
    <2> QED
      BY <2>1, <1>1
  <1>6. /\ g \in Seq(Entry) /\ Distinct(g) /\ new \in Entry
        /\ Range(g) = {e \in Entries : e.pos # p} \cup {new}
        /\ IsCached(p) => Len(g) = Len(cells)
        /\ ~IsCached(p) => g = Append(cells, new)
    BY <1>3, <1>4, StaticFacts, WithCellFacts
  <1> HIDE DEF g
  <1>7. /\ new.pos = p /\ new.cell = n
        /\ Len(cells) \in Nat /\ Len(cells) <= CacheSize /\ CacheSize >= 1
    BY StaticFacts, CacheAssumption
  <1>8. CASE ~full
    <2> DEFINE r == [client[c] EXCEPT !.at = "got", !.cell = Len(heap')]
    <2>1. /\ r \in Locals /\ r.at = "got" /\ r.cell = n /\ r.pos = p
          /\ r.todo = <<>>
      BY <1>3, <1>4, <1>5 DEF Locals, States
    <2>2. GoDropping(c, r, {})
      BY <1>2, <1>8
    <2>3. Entries' = {e \in Entries : e.pos # p /\ e.pos \notin {}} \cup {new}
      BY <1>1, <1>6, <1>8 DEF Entries
    <2>4. cells' = g /\ Len(g) <= CacheSize
      BY <1>1, <1>6, <1>8, CacheAssumption
    <2> HIDE DEF r
    <2>5. Holds(r) /\ r.at # "evict"
      BY <2>1 DEF Holds
    <2>6. Inserted(c, r, {})
      BY <1>6, <2>1, <2>2, <2>3, <2>4, <2>5 DEF Inserted
    <2> QED
      BY <1>1, <1>4, <1>6, <2>1, <2>6
  <1>9. CASE full
    <2>1. ~IsCached(p) /\ g = Append(cells, new)
      <3>1. Len(g) # Len(cells)
        BY <1>7, <1>9, CacheAssumption
      <3> QED
        BY <3>1, <1>6
    <2>2. Len(g) = Len(cells) + 1 /\ Len(cells) >= 1 /\ g # <<>>
          /\ eldest = cells[1]
      <3>1. cells \in Seq(Entry) /\ new \in Entry
        BY StaticFacts, <1>6
      <3> HIDE DEF new
      <3>2. Len(g) = Len(cells) + 1 /\ g \in Seq(Entry) /\ g # <<>>
        BY <3>1, <2>1
      <3>3. Len(cells) >= 1
        BY <3>2, <1>7, <1>9, CacheAssumption
      <3>4. Head(g) = cells[1]
        BY <3>1, <3>3, <2>1
      <3> QED
        BY <3>2, <3>3, <3>4
    <2>3. eldest \in Entries /\ eldest.pos # p /\ eldest \in Entry
          /\ eldest.cell \in 1 .. Len(heap)
      <3>1. eldest \in Entries
        BY <2>2, <1>7, StaticFacts DEF Entries, Range
      <3> QED
        BY <3>1, <2>1, StaticFacts DEF IsCached
    <2>4. /\ Tail(g) \in Seq(Entry) /\ Len(Tail(g)) = Len(g) - 1
          /\ Distinct(Tail(g))
          /\ Range(Tail(g)) = {e \in Range(g) : e.pos # eldest.pos}
      BY <2>2, <1>6, TailFacts, DropEldest
    <2>5. cells' = Tail(g) /\ Len(cells') <= CacheSize
      BY <1>1, <1>7, <1>9, <2>2, <2>4
    <2>6. Entries' = {e \in Entries : e.pos # p /\ e.pos \notin {eldest.pos}}
                       \cup {new}
      BY <2>3, <2>4, <2>5, <1>6, <1>7 DEF Entries
    <2>7. /\ eldest.pos \in Positions
          /\ heap'[eldest.cell] = heap[eldest.cell]
          /\ heap[eldest.cell].content \subseteq Writes
      BY <2>3, <1>5, HeapCell DEF Entry
    <2> HIDE DEF eldest
    <2>8. CASE IsModified(heap', eldest.cell)
      <3> DEFINE r == [client[c] EXCEPT
                         !.at = "evict", !.cell = Len(heap'),
                         !.target = eldest.pos,
                         !.bytes = Content(heap', eldest.cell)]
      <3>1. GoDropping(c, r, {eldest.pos})
        BY <1>2, <1>9, <2>8 DEF eldest
      <3>2. /\ r \in Locals /\ r.at = "evict" /\ r.cell = n /\ r.pos = p
            /\ r.todo = <<>> /\ r.target = eldest.pos
            /\ r.bytes = Content(heap, eldest.cell)
        BY <1>3, <1>4, <1>5, <2>7 DEF Locals, States, Content
      <3> HIDE DEF r
      <3>3. Holds(r)
        BY <3>2 DEF Holds
      <3>4. ASSUME NEW q \in {eldest.pos}
            PROVE  \E e \in Entries :
                     /\ e.pos = q
                     /\ \/ /\ r.at = "evict" /\ r.target = q
                           /\ r.bytes = Content(heap, e.cell)
                        \/ r.at = "got" /\ ~IsModified(heap, e.cell)
        BY <2>3, <3>2, <3>3
      <3>5. p \notin {eldest.pos} /\ {eldest.pos} \in SUBSET Positions
        BY <2>3, <2>7
      <3>6. Inserted(c, r, {eldest.pos})
        <4>1. /\ cells' \in Seq(Entry) /\ Len(cells') <= CacheSize
              /\ Distinct(cells')
          BY <2>4, <2>5
        <4>2. r.at = "evict" => r.target \in {eldest.pos}
          BY <3>2
        <4> QED
          BY <4>1, <4>2, <2>6, <3>1, <3>2, <3>3, <3>4, <3>5 DEF Inserted
      <3> QED
        BY <1>1, <1>4, <1>6, <3>2, <3>5, <3>6
    <2>9. CASE ~IsModified(heap', eldest.cell)
      <3> DEFINE r == [client[c] EXCEPT !.at = "got", !.cell = Len(heap')]
      <3>1. GoDropping(c, r, {eldest.pos})
        BY <1>2, <1>9, <2>9 DEF eldest
      <3>2. /\ r \in Locals /\ r.at = "got" /\ r.cell = n /\ r.pos = p
            /\ r.todo = <<>>
        BY <1>3, <1>4, <1>5 DEF Locals, States
      <3> HIDE DEF r
      <3>3. Holds(r) /\ ~IsModified(heap, eldest.cell)
        BY <3>2, <2>7, <2>9 DEF Holds, IsModified
      <3>4. ASSUME NEW q \in {eldest.pos}
            PROVE  \E e \in Entries :
                     /\ e.pos = q
                     /\ \/ /\ r.at = "evict" /\ r.target = q
                           /\ r.bytes = Content(heap, e.cell)
                        \/ r.at = "got" /\ ~IsModified(heap, e.cell)
        BY <2>3, <3>2, <3>3
      <3>5. p \notin {eldest.pos} /\ {eldest.pos} \in SUBSET Positions
        BY <2>3, <2>7
      <3>6. Inserted(c, r, {eldest.pos})
        <4>1. /\ cells' \in Seq(Entry) /\ Len(cells') <= CacheSize
              /\ Distinct(cells')
          BY <2>4, <2>5
        <4>2. r.at # "evict"
          BY <3>2
        <4> QED
          BY <4>1, <4>2, <2>6, <3>1, <3>2, <3>3, <3>4, <3>5 DEF Inserted
      <3> QED
        BY <1>1, <1>4, <1>6, <3>2, <3>5, <3>6
    <2> QED
      BY <2>8, <2>9
  <1> QED
    BY <1>8, <1>9

LEMMA InsertKeeps ==
  ASSUME CellInv, NEW c \in Clients, Insert(c)
  PROVE  CellInv'
  <1> DEFINE p      == client[c].pos
             n      == Len(heap) + 1
             new    == [pos |-> p, cell |-> n]
             object == [content |-> client[c].bytes, modified |-> FALSE]
  <1>1. /\ client[c].at = "insert" /\ n \in Cells /\ new \in Entry
        /\ heap' = Append(heap, object)
        /\ UNCHANGED <<disk, acked, writes, failed>>
        /\ p \in Positions
    BY InsertStep, ClientFacts
  <1>2. PICK r \in Locals, dropped \in SUBSET Positions :
          Inserted(c, r, dropped)
    BY InsertStep
  <1>3. /\ GoDropping(c, r, dropped)
        /\ Holds(r) /\ r.cell = n /\ r.pos = p /\ r.todo = <<>>
        /\ p \notin dropped
        /\ cells' \in Seq(Entry) /\ Len(cells') <= CacheSize
        /\ Distinct(cells')
        /\ Entries' = {e \in Entries : e.pos # p /\ e.pos \notin dropped}
                         \cup {new}
        /\ r.at = "evict" => r.target \in dropped
    BY <1>2 DEF Inserted
  <1>4. \A q \in dropped : \E e \in Entries :
          /\ e.pos = q
          /\ \/ /\ r.at = "evict" /\ r.target = q
                /\ r.bytes = Content(heap, e.cell)
             \/ r.at = "got" /\ ~IsModified(heap, e.cell)
    BY <1>2 DEF Inserted
  <1>5. /\ client' \in [Clients -> Locals]
        /\ client'[c] = r
        /\ \A d \in Clients : d # c => client'[d] = client[d]
        /\ raced \subseteq raced' /\ raced' \subseteq Positions
        /\ \A q \in Positions \ raced' : \A d \in Clients \ {c} :
             /\ q \in BusyWith(r) \cup dropped => q \notin BusyWith(client[d])
             /\ q \in dropped => \A e \in Range(client[d].todo) : e.pos # q
        /\ RacesSeen'
    BY <1>3, GoStep DEF CellInv, Steady
  <1>6. /\ heap' \in Seq([content : SUBSET Writes, modified : BOOLEAN])
        /\ Len(heap') = n /\ heap'[n] = object
        /\ \A i \in 1 .. Len(heap) : heap'[i] = heap[i]
    <2> DEFINE S == [content : SUBSET Writes, modified : BOOLEAN]
    <2>1. heap \in Seq(S) /\ object \in S
      BY ClientFacts DEF CellInv, Steady, Typed, CellTypeOK
    <2> HIDE DEF S, object
    <2>2. /\ heap' \in Seq(S) /\ Len(heap') = n /\ heap'[n] = object
          /\ \A i \in 1 .. Len(heap) : heap'[i] = heap[i]
      BY <2>1, <1>1
    <2> QED
      BY <2>2 DEF S
  <1>7. /\ new.pos = p /\ new.cell = n /\ object.content = client[c].bytes
        /\ Len(heap) \in Nat /\ n \notin 1 .. Len(heap)
        /\ 1 .. Len(heap) \subseteq 1 .. n /\ n \in 1 .. n
    BY StaticFacts
  <1>8. \A e \in Entries : e \in Entry /\ e.cell \in 1 .. Len(heap)
    BY StaticFacts
  <1>9. \A e \in Entries' : e.cell \in 1 .. n
    BY <1>3, <1>7, <1>8
  <1> HIDE DEF new, object
  <1>10. Typed'
    <2>1. \A i \in DOMAIN cells' : cells'[i].cell <= Len(heap')
      <3>1. \A i \in DOMAIN cells' : cells'[i] \in Entries'
        BY DEF Entries, Range
      <3> QED
        BY <3>1, <1>6, <1>7, <1>9
    <2>2. CellTypeOK'
      BY <2>1, <1>1, <1>3, <1>5, <1>6
         DEF CellInv, Steady, Typed, CellTypeOK, Distinct, Entry
    <2>3. Known(r, n)
      BY <1>3, <1>7 DEF Known, Holds, Range
    <2>4. ASSUME NEW d \in Clients, d # c
          PROVE  Known(client[d], n)
      <3>1. Known(client[d], Len(heap)) /\ client[d].todo \in Seq(Entry)
        BY ClientFacts
      <3>2. \A e \in Range(client[d].todo) : e.cell \in Nat
        <4>1. \A i \in DOMAIN client[d].todo : client[d].todo[i] \in Entry
          BY <3>1
        <4> QED
          BY <4>1, CacheAssumption DEF Range, Entry, Cells
      <3> QED
        BY <3>1, <3>2, <1>7 DEF Known
    <2> QED
      BY <2>2, <2>3, <2>4, <1>5, <1>6 DEF Typed
  <1>11. Room'
    <2>1. Loading' = Loading \ {c} /\ c \in Loading
      BY <1>1, <1>3, <1>5 DEF Loading, Holds
    <2>2. Cardinality(Loading') = Cardinality(Loading) - 1
      BY <2>1, LoadingFinite, FS_RemoveElement
    <2> QED
      BY <2>2, <1>6, <1>7, LoadingFinite, CacheAssumption
         DEF CellInv, Steady, Room
  <1>12. Owned'
    <2>1. \A e, f \in Entries' : e.cell = f.cell => e = f
      BY <1>3, <1>7, <1>8 DEF CellInv, Steady, Owned
    <2>2. ASSUME NEW d \in Clients, NEW e \in Entries', Holds(client'[d]),
                 e.cell = client'[d].cell
          PROVE  e.pos = client'[d].pos
      <3>1. CASE d = c
        BY <3>1, <2>2, <1>3, <1>5, <1>7, <1>8
      <3>2. CASE d # c
        <4>1. client[d].cell \in 1 .. Len(heap) /\ Holds(client[d])
          BY <3>2, <2>2, <1>5, ClientFacts DEF Known
        <4> QED
          BY <4>1, <3>2, <2>2, <1>3, <1>5, <1>7 DEF CellInv, Steady, Owned
      <3> QED
        BY <3>1, <3>2
    <2> QED
      BY <2>1, <2>2 DEF Owned
  <1>13. ASSUME NEW q \in Sound'
         PROVE  Fine(q)'
    <2>1. q \in Sound /\ q \in Positions /\ Fine(q) /\ q \notin raced'
      BY <1>1, <1>5, <1>13, StaticFacts DEF Sound
    <2>2. /\ Current(q)
          /\ \A d \in Clients : InHand(client[d], q) /\ ToSave(client[d], q)
      BY <2>1 DEF Fine
    <2>3. /\ Evicting(q) \subseteq Evicting(q)'
          /\ q \notin dropped => Evicting(q)' = Evicting(q)
      BY <1>1, <1>3, <1>5 DEF Evicting
    <2>4. ASSUME NEW d \in Clients
          PROVE  ToSave(client[d], q)'
      <3>1. CASE d = c
        BY <3>1, <1>3, <1>5 DEF ToSave, Holds
      <3>2. CASE d # c
        BY <3>2, <2>2, <2>3, <1>1, <1>5 DEF ToSave
      <3> QED
        BY <3>1, <3>2
    <2>5. \A d \in Clients \ {c} :
            /\ q \in dropped \cup {p} =>
                 /\ ~(client[d].at \in {"load", "insert"}
                        /\ client[d].pos = q)
                 /\ ~(Holds(client[d]) /\ client[d].pos = q)
                 /\ ~(client[d].at = "evict" /\ client[d].target = q)
                 /\ ~(client[d].at = "write" /\ client[d].target = q)
            /\ q \in dropped => \A e \in Range(client[d].todo) : e.pos # q
      <3>1. p \in BusyWith(r)
        BY <1>3 DEF BusyWith, Holds
      <3> QED
        BY <3>1, <2>1, <1>5 DEF BusyWith, Holds
    <2>6. \A e \in Entries : /\ Content(heap', e.cell) = Content(heap, e.cell)
                             /\ IsModified(heap', e.cell)
                                  = IsModified(heap, e.cell)
      BY <1>6, <1>8 DEF Content, IsModified
    (* The position of the cell that goes in: on disk, and nowhere else.   *)
    <2>7. CASE q = p
      <3>1. ~IsCached(p) /\ client[c].bytes = acked[p]
        BY <2>2, <2>7, <1>1 DEF InHand
      <3>2. Evicting(p) = {}
        <4>1. p \in BusyWith(client[c])
          BY <1>1 DEF BusyWith
        <4>2. \A d \in Clients : d # c => d \notin Evicting(p)
          BY <4>1, <2>1, <2>7, BusyAlone
        <4> QED
          BY <4>2, <1>1 DEF Evicting
      <3>3. disk[p] = acked[p]
        BY <3>1, <3>2, <2>2, <2>7 DEF Current
      <3>4. Content(heap', n) = acked[p]
        BY <3>1, <1>6, <1>7 DEF Content
      <3>5. \A e \in Entries' : e.pos = p => e = new
        BY <1>3
      <3>6. new \in Entries' /\ IsCached(q)'
        BY <2>7, <1>3, <1>7 DEF IsCached
      <3>7. Current(q)'
        BY <3>3, <3>4, <3>5, <3>6, <2>7, <1>1, <1>7 DEF Current
      <3>8. InHand(client[c], q)'
        BY <3>6, <2>7, <1>3, <1>5 DEF InHand, Holds, Range, new
      <3>9. ASSUME NEW d \in Clients, d # c
            PROVE  InHand(client[d], q)'
        <4>1. \A e \in Range(client[d].todo) : e.pos # q
          BY <3>1, <2>2, <2>7 DEF InHand, IsCached
        <4> QED
          BY <4>1, <3>9, <2>5, <2>7, <1>5 DEF InHand
      <3> QED
        BY <3>7, <3>8, <3>9, <2>4 DEF Fine
    (* A position that goes out: on disk, or about to be written.          *)
    <2>8. CASE q \in dropped
      <3>1. PICK e \in Entries :
              /\ e.pos = q
              /\ \/ /\ r.at = "evict" /\ r.target = q
                    /\ r.bytes = Content(heap, e.cell)
                 \/ r.at = "got" /\ ~IsModified(heap, e.cell)
        BY <2>8, <1>4
      <3>2. /\ Content(heap, e.cell) = acked[q]
            /\ IsModified(heap, e.cell) \/ disk[q] = acked[q]
        BY <3>1, <2>2 DEF Current
      <3>3. q # p /\ ~IsCached(q)'
        BY <2>8, <1>3, <1>7 DEF IsCached
      <3>4. Evicting(q)' = {} => disk[q] = acked[q]
        BY <3>1, <3>2, <1>5 DEF Evicting
      <3>5. Current(q)'
        BY <3>3, <3>4, <1>1 DEF Current, IsCached
      <3>6. InHand(client[c], q)'
        BY <3>1, <3>2, <3>3, <1>1, <1>3, <1>5 DEF InHand, Holds, Range
      <3>7. ASSUME NEW d \in Clients, d # c
            PROVE  InHand(client[d], q)'
        BY <3>7, <2>5, <2>8, <1>5 DEF InHand
      <3> QED
        BY <3>5, <3>6, <3>7, <2>4 DEF Fine
    <2>9. CASE q # p /\ q \notin dropped
      <3>1. \A e : e.pos = q => (e \in Entries' <=> e \in Entries)
        BY <2>9, <1>3, <1>7
      <3>2. IsCached(q)' <=> IsCached(q)
        BY <3>1 DEF IsCached
      <3>3. Current(q)'
        BY <3>1, <3>2, <2>2, <2>3, <2>6, <2>9, <1>1 DEF Current
      <3>4. InHand(client[c], q)'
        BY <2>9, <1>3, <1>5 DEF InHand, Holds, Range
      <3>5. ASSUME NEW d \in Clients, d # c
            PROVE  InHand(client[d], q)'
        <4>1. InHand(client[d], q) /\ client'[d] = client[d]
          BY <3>5, <2>2, <1>5
        <4>2. /\ [pos |-> q, cell |-> client[d].cell] \in Entries
                 => [pos |-> q, cell |-> client[d].cell] \in Entries'
              /\ \A e \in Range(client[d].todo) :
                   e.pos = q /\ e \in Entries => e \in Entries'
          BY <3>1
        <4> QED
          BY <4>1, <4>2, <3>2, <1>1 DEF InHand
      <3> QED
        BY <3>3, <3>4, <3>5, <2>4 DEF Fine
    <2> QED
      BY <2>7, <2>8, <2>9
  <1> QED
    BY <1>5, <1>10, <1>11, <1>12, <1>13 DEF CellInv, Steady
------------------------------------------------------------------------------
LEMMA InitCells == CellInit => CellInv
  <1> SUFFICES ASSUME CellInit PROVE CellInv
    OBVIOUS
  <1>1. /\ cells = <<>> /\ heap = <<>> /\ writes = 0
        /\ failed = {} /\ raced = {}
        /\ disk = [p \in Positions |-> {}] /\ acked = [p \in Positions |-> {}]
        /\ client = [c \in Clients |-> Resting]
    BY DEF CellInit
  <1>2. Entries = {}
    BY <1>1 DEF Entries, Range
  <1>3. /\ Resting \in Locals /\ Resting.at = "idle" /\ Resting.todo = <<>>
        /\ Known(Resting, 0) /\ Range(Resting.todo) = {}
        /\ ~Holds(Resting) /\ BusyWith(Resting) = {}
    BY RestingIsLocal DEF Range, Holds
  <1>4. CellTypeOK
    BY <1>1, CacheAssumption DEF CellTypeOK
  <1>5. Typed
    BY <1>1, <1>3, <1>4 DEF Typed
  <1>6. Room
    <2>1. Loading = {}
      BY <1>1, <1>3 DEF Loading
    <2> QED
      BY <2>1, <1>1, FS_EmptySet, CacheAssumption DEF Room
  <1>7. Owned /\ RacesSeen
    BY <1>1, <1>2, <1>3 DEF Owned, RacesSeen
  <1>8. ASSUME NEW p \in Sound
        PROVE  Fine(p)
    <2>1. Current(p)
      BY <1>1, <1>2 DEF Current, Sound
    <2>2. ASSUME NEW c \in Clients
          PROVE  InHand(client[c], p) /\ ToSave(client[c], p)
      BY <1>1, <1>3 DEF InHand, ToSave
    <2> QED
      BY <2>1, <2>2 DEF Fine
  <1> QED
    BY <1>5, <1>6, <1>7, <1>8 DEF CellInv, Steady

LEMMA CellNextKeeps == CellInv /\ [CellNext]_cellVars => CellInv'
  <1> SUFFICES ASSUME CellInv, [CellNext]_cellVars PROVE CellInv'
    OBVIOUS
  <1>1. ASSUME NEW c \in Clients, Get(c) \/ Saved(c)
        PROVE  CellInv'
    BY <1>1, RestKeeps DEF Get, Saved
  <1>2. ASSUME NEW c \in Clients,
               \/ \E p \in Positions : Hit(c, p) \/ Miss(c, p)
               \/ Load(c) \/ Insert(c) \/ Evict(c) \/ Set(c)
               \/ Save(c) \/ SaveCell(c) \/ Write(c)
        PROVE  CellInv'
    BY <1>2, HitKeeps, MissKeeps, LoadKeeps, InsertKeeps, EvictKeeps, SetKeeps,
       SaveKeeps, SaveCellKeeps, WriteKeeps
  <1>3. CASE Reset
    BY <1>3, ResetKeeps
  <1>4. CASE UNCHANGED cellVars
    BY <1>4
       DEF cellVars, CellInv, Steady, Typed, CellTypeOK, Room, Loading, Owned,
           RacesSeen, Fine, Current, InHand, ToSave, IsCached, Entries, Sound,
           Evicting
  <1> QED
    BY <1>1, <1>2, <1>3, <1>4 DEF CellNext

(* No step of a client, failure or reset takes CellInv away.               *)
LEMMA CellsInductive == CellSpec => []CellInv
  BY InitCells, CellNextKeeps, PTL DEF CellSpec

(* The state of the storage and of its callers has the types that          *)
(* CellTypeOK gives it: no position is cached twice and the cache stays    *)
(* within CACHE_SIZE.                                                      *)
THEOREM CellTypeCorrect == CellSpec => []CellTypeOK
  <1>1. CellInv => CellTypeOK
    BY DEF CellInv, Steady, Typed
  <1> QED
    BY <1>1, CellsInductive, PTL

(* cell() hands out every write that was made to its position, for any     *)
(* callers, positions and size of the cache.                               *)
THEOREM CellsCorrect == CellSpec => []HandsOutEveryWrite
  <1>1. ASSUME CellInv, NEW c \in Clients, client[c].at = "got",
               client[c].pos \in Sound
        PROVE  Content(heap, client[c].cell) = acked[client[c].pos]
    <2> DEFINE e == [pos |-> client[c].pos, cell |-> client[c].cell]
    <2>1. Current(client[c].pos) /\ InHand(client[c], client[c].pos)
      BY <1>1 DEF CellInv, Fine
    <2>2. e \in Entries
      BY <2>1, <1>1 DEF InHand, Holds
    <2>3. e.pos = client[c].pos /\ e.cell = client[c].cell
      OBVIOUS
    <2> QED
      BY <2>1, <2>2, <2>3 DEF Current
  <1>2. CellInv => HandsOutEveryWrite
    BY <1>1 DEF HandsOutEveryWrite
  <1> QED
    BY <1>2, CellsInductive, PTL

(* When save() returns, what was set before it began is on disk, or being  *)
(* written by the client that is evicting it.                              *)
THEOREM SaveCorrect == CellSpec => SaveIsComplete
  <1>1. ASSUME CellInv, [CellNext]_cellVars, NEW c \in Clients,
               client[c].at = "save", client'[c].at = "idle", NEW p \in Sound
        PROVE  \/ client[c].due[p] \subseteq disk[p]
               \/ \E d \in Evicting(p) :
                    client[c].due[p] \subseteq client[d].bytes
    <2>1. client[c].todo = <<>>
      <3>1. PICK d \in Clients :
              \/ \E q \in Positions : Hit(d, q) \/ Miss(d, q)
              \/ Load(d) \/ Insert(d) \/ Evict(d) \/ Set(d) \/ Get(d)
              \/ Save(d) \/ SaveCell(d) \/ Write(d) \/ Saved(d)
        BY <1>1 DEF CellNext, cellVars, Reset
      <3>2. \E r : client' = [client EXCEPT ![d] = r]
        BY <3>1 DEF Hit, Miss, Load, Insert, Evict, Set, Get, Save, SaveCell,
                    Write, Saved, Go, GoOn, GoDropping
      <3>3. d = c
        BY <3>2, <1>1 DEF CellInv, Steady, Typed
      <3>4. CASE Saved(d)
        BY <3>3, <3>4 DEF Saved
      <3>5. CASE SaveCell(d)
        <4>1. \E r : /\ client' = [client EXCEPT ![c] = r]
                     /\ r.at \in {"save", "write"}
          <5> DEFINE k == client[c]
                     f == Head(k.todo)
                     skip == [k EXCEPT !.todo = Tail(@)]
                     take == [k EXCEPT !.at = "write", !.todo = Tail(@),
                                       !.target = f.pos,
                                       !.bytes = Content(heap, f.cell)]
          <5>1. k.at = "save" /\ (Go(c, skip) \/ Go(c, take))
            BY <3>3, <3>5 DEF SaveCell
          <5>2. skip.at = "save" /\ take.at = "write"
            BY <5>1, ClientFacts DEF Locals
          <5> HIDE DEF skip, take
          <5> QED
            BY <5>1, <5>2 DEF Go, GoDropping
        <4> QED
          BY <4>1, <1>1 DEF CellInv, Steady, Typed
      <3> QED
        BY <3>1, <3>3, <3>4, <3>5, <1>1
           DEF Hit, Miss, Load, Insert, Evict, Set, Get, Save, Write
    <2>2. /\ ToSave(client[c], p)
          /\ \A d \in Clients : InHand(client[d], p)
      BY <1>1 DEF CellInv, Fine
    <2>3. Range(client[c].todo) = {}
      BY <2>1 DEF Range
    <2>4. /\ client[c].due[p] \subseteq acked[p]
          /\ client[c].due[p] \subseteq disk[p] \/ Evicting(p) # {}
      BY <2>2, <2>3, <1>1 DEF ToSave
    <2>5. \A d \in Evicting(p) : client[d].bytes = acked[p]
      BY <2>2 DEF InHand, Evicting
    <2> QED
      BY <2>4, <2>5
  <1>2. CellInv /\ [CellNext]_cellVars =>
          [\A c \in Clients :
             client[c].at = "save" /\ client'[c].at = "idle"
               => \A p \in Sound :
                    \/ client[c].due[p] \subseteq disk[p]
                    \/ \E d \in Evicting(p) :
                         client[c].due[p] \subseteq client[d].bytes]_cellVars
    BY <1>1
  <1> QED
    BY <1>2, CellsInductive, PTL DEF CellSpec, SaveIsComplete
==============================================================================
