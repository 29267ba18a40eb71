----------------------------- MODULE ChunkGrid -----------------------------
(***************************************************************************)
(* The chunk cache between a world on disk and the tiles being drawn       *)
(* (engine/src/world/mca/ChunkGrid.ts, and preloadChunks of MCAWorld.ts).  *)
(* Drawing is synchronous and cannot wait for a chunk, so a worker first   *)
(* awaits every chunk of the window it will read, then reads them from the *)
(* cache; a miss would be answered with an empty chunk.  The #init of a    *)
(* region update reads the hashes of its region and throws its chunks out. *)
(*                                                                         *)
(* A chunk is a number, a region one of the sets in Regions; a version     *)
(* stands for the content of a chunk and for its hash.                     *)
(***************************************************************************)
EXTENDS Naturals

CONSTANTS
  Workers,
  LastChunk,   \* chunks are 1 .. LastChunk, in the order preloadChunks walks
  Regions,     \* the regions, a partition of the chunks
  Windows,     \* the windows of the tiles, as <<first, last>>
  MaxVersion,  \* bound: changes of a chunk
  MaxLoads     \* bound: loads under way at a time

Chunks == 1 .. LastChunk
Versions == 0 .. MaxVersion
Errored == MaxVersion + 1   \* the errored chunk
None == MaxVersion + 2      \* no entry in the cache; read: the empty chunk

ASSUME GridAssumption ==
  /\ LastChunk \in Nat \ {0}
  /\ UNION Regions = Chunks
  /\ \A g, h \in Regions : g # h => g \cap h = {}
  /\ Windows \subseteq Chunks \X Chunks
  /\ MaxVersion \in Nat
  /\ MaxLoads \in Nat

VARIABLES
  world,    \* the version of each chunk in its region file
  hash,     \* the version each chunk had when a #init last read it, or None
  cache,    \* chunkCache
  inFlight, \* inFlightChunks: the load of each chunk, or 0
  loads,    \* the loads under way, and those somebody still waits for
  worker    \* where each worker is, and its local variables; "dropped", for
            \* the properties: the chunks that have left the cache, or lost
            \* their load, since the worker asked for them

vars == <<world, hash, cache, inFlight, loads, worker>>

Free == [chunk |-> 1, at |-> "free", content |-> Errored]

Idle == [at |-> "idle", region |-> {}, next |-> 1, last |-> 1, window |-> {},
         load |-> 0, content |-> Errored, dropped |-> {}]

Loads == [chunk : Chunks, at : {"free", "reading", "read", "done"},
          content : Versions \cup {Errored}]

WorkerStates ==
  [at : {"idle", "preload", "wait", "warm", "accept"},
   region : Regions \cup {{}}, window : SUBSET Chunks,
   next : 1 .. LastChunk + 1, last : Chunks, load : 0 .. MaxLoads,
   content : Versions \cup {Errored}, dropped : SUBSET Chunks]

TypeOK ==
  /\ world \in [Chunks -> Versions]
  /\ hash \in [Chunks -> Versions \cup {None}]
  /\ cache \in [Chunks -> Versions \cup {Errored, None}]
  /\ loads \in [1 .. MaxLoads -> Loads]
  /\ inFlight \in [Chunks -> 0 .. MaxLoads]
  /\ \A c \in Chunks : inFlight[c] # 0 =>
       /\ loads[inFlight[c]].chunk = c
       /\ loads[inFlight[c]].at \in {"reading", "read"}
  /\ worker \in [Workers -> WorkerStates]

Init ==
  /\ world = [c \in Chunks |-> 0]
  /\ hash = [c \in Chunks |-> None]
  /\ cache = hash
  /\ inFlight = [c \in Chunks |-> 0]
  /\ loads = [l \in 1 .. MaxLoads |-> Free]
  /\ worker = [w \in Workers |-> Idle]

Awaits(w, l) == worker' = [worker EXCEPT ![w].at = "wait", ![w].load = l]

Asked(w) ==
  {c \in worker[w].window :
     c < worker[w].next \/ (c = worker[w].next /\ worker[w].at = "wait")}

Dropping(chunks) ==
  [w \in Workers |->
    [worker[w] EXCEPT !.dropped = @ \cup (Asked(w) \cap chunks)]]
------------------------------------------------------------------------------
(* WorldRegionUpdateTask.#init: the hashes are listed and the chunks       *)
(* invalidated in one stretch, then the region may be warmed.  The claim   *)
(* chain and the pool let no other worker be in a task of the same region. *)
Invalidate(g) ==
  /\ cache' = [c \in Chunks |-> IF c \in g THEN None ELSE cache[c]]
  /\ inFlight' = [c \in Chunks |-> IF c \in g THEN 0 ELSE inFlight[c]]

InitRegion(w, g) ==
  /\ worker[w].at = "idle"
  /\ \A v \in Workers : worker[v].region # g
  /\ hash' = [c \in Chunks |-> IF c \in g THEN world[c] ELSE hash[c]]
  /\ Invalidate(g)
  /\ \/ worker' = Dropping(g)
     \/ \E c \in g :
          /\ \A d \in g : c <= d
          /\ worker' = [Dropping(g) EXCEPT
               ![w].at = "warm", ![w].region = g, ![w].next = c]
  /\ UNCHANGED <<world, loads>>

(* preloadRegionChunks reads the region chunk by chunk and puts each into  *)
(* the cache, whatever is there; an unreadable one is left out.            *)
WarmRead(w) ==
  LET c == worker[w].next
  IN  /\ worker[w].at = "warm" /\ c \in worker[w].region
      /\ worker' = [worker EXCEPT ![w].at = "accept", ![w].content = world[c]]
      /\ UNCHANGED <<world, hash, cache, inFlight, loads>>

WarmAccept(w) ==
  LET c == worker[w].next
  IN  /\ worker[w].at = "accept"
      /\ cache' \in {cache, [cache EXCEPT ![c] = worker[w].content]}
      /\ worker' = [worker EXCEPT ![w].at = "warm", ![w].next = c + 1,
                                  ![w].content = Errored]
      /\ UNCHANGED <<world, hash, inFlight, loads>>

WarmEnd(w) ==
  /\ worker[w].at = "warm" /\ worker[w].next \notin worker[w].region
  /\ worker' = [worker EXCEPT ![w] = Idle]
  /\ UNCHANGED <<world, hash, cache, inFlight, loads>>
------------------------------------------------------------------------------
(* Drawing a tile of region g: preloadChunks awaits the chunks of the      *)
(* window, which may reach into other regions, one after the other.        *)
Begin(w, g, window) ==
  /\ worker[w].at = "idle"
  /\ \A c \in g : hash[c] # None
  /\ \A v \in Workers :
       worker[v].region = g => worker[v].at \notin {"warm", "accept"}
  /\ g \cap (window[1] .. window[2]) # {}
  /\ worker' = [worker EXCEPT
       ![w] = [Idle EXCEPT !.at = "preload", !.region = g, !.next = window[1],
                 !.last = window[2], !.window = window[1] .. window[2]]]
  /\ UNCHANGED <<world, hash, cache, inFlight, loads>>

StartLoad(c, l) ==
  /\ loads[l].at = "free"
  /\ \A k \in 1 .. l - 1 : loads[k].at # "free"
  /\ loads' = [loads EXCEPT ![l] = [Free EXCEPT !.chunk = c, !.at = "reading"]]
  /\ inFlight' = [inFlight EXCEPT ![c] = l]

(* getChunk: the cached chunk, the load in flight, or a new load.          *)
GetChunkUnawaited(w) ==
  LET c == worker[w].next
  IN  /\ worker[w].at = "preload" /\ c <= worker[w].last
      /\ worker' = [worker EXCEPT ![w].next = c + 1]
      /\ IF cache[c] = None /\ inFlight[c] = 0
         THEN \E l \in DOMAIN loads : StartLoad(c, l)
         ELSE UNCHANGED <<loads, inFlight>>
      /\ UNCHANGED <<world, hash, cache>>

GetChunk(w) ==
  LET c == worker[w].next
  IN  /\ worker[w].at = "preload" /\ c <= worker[w].last
      /\ \/ /\ cache[c] # None
            /\ worker' = [worker EXCEPT ![w].next = c + 1]
            /\ UNCHANGED <<loads, inFlight>>
         \/ /\ cache[c] = None /\ inFlight[c] # 0
            /\ Awaits(w, inFlight[c])
            /\ UNCHANGED <<loads, inFlight>>
         \/ /\ cache[c] = None /\ inFlight[c] = 0
            /\ \E l \in DOMAIN loads :
                 /\ StartLoad(c, l)
                 /\ Awaits(w, l)
      /\ UNCHANGED <<world, hash, cache>>

(* The load is forgotten with the last worker that awaits it.              *)
Resume(w) ==
  LET l == worker[w].load
  IN  /\ worker[w].at = "wait" /\ loads[l].at = "done"
      /\ worker' = [worker EXCEPT ![w].at = "preload", ![w].next = @ + 1,
                                  ![w].load = 0]
      /\ loads' = [loads EXCEPT ![l] =
           IF \E v \in Workers \ {w} : worker[v].load = l THEN @ ELSE Free]
      /\ UNCHANGED <<world, hash, cache, inFlight>>

Drawing(w) == worker[w].at = "preload" /\ worker[w].next > worker[w].last

(* The tile is drawn from getCachedChunk without an await in between; the  *)
(* first chunk that is missed also has its load scheduled.                 *)
Draw(w) ==
  LET missed == {c \in worker[w].window : cache[c] = None /\ inFlight[c] = 0}
  IN  /\ Drawing(w)
      /\ worker' = [worker EXCEPT ![w] = Idle]
      /\ \/ missed = {} /\ UNCHANGED <<loads, inFlight>>
         \/ \E c \in missed, l \in DOMAIN loads :
              /\ \A d \in missed : c <= d
              /\ StartLoad(c, l)
      /\ UNCHANGED <<world, hash, cache>>
------------------------------------------------------------------------------
(* loadChunk: three tries, then the errored chunk.                         *)
ReadChunk(l) ==
  /\ loads[l].at = "reading"
  /\ \E v \in {world[loads[l].chunk], Errored} :
       loads' = [loads EXCEPT ![l].at = "read", ![l].content = v]
  /\ UNCHANGED <<world, hash, cache, inFlight, worker>>

Finished(l) ==
  IF \E w \in Workers : worker[w].load = l
  THEN [loads EXCEPT ![l] = [Free EXCEPT !.at = "done"]]
  ELSE [loads EXCEPT ![l] = Free]

(* A load is published only while it is still the current one.             *)
PublishAnyway(l) ==
  LET c == loads[l].chunk
  IN  /\ loads[l].at = "read"
      /\ loads' = Finished(l)
      /\ cache' = [cache EXCEPT ![c] = loads[l].content]
      /\ inFlight' = [inFlight EXCEPT ![c] = IF @ = l THEN 0 ELSE @]
      /\ UNCHANGED <<world, hash, worker>>

PublishOrStay(l) ==
  LET c == loads[l].chunk
  IN  /\ loads[l].at = "read"
      /\ inFlight[c] = l
      /\ loads' = Finished(l)
      /\ cache' = [cache EXCEPT ![c] = loads[l].content]
      /\ inFlight' = [inFlight EXCEPT ![c] = 0]
      /\ UNCHANGED <<world, hash, worker>>

Publish(l) ==
  LET c == loads[l].chunk
  IN  /\ loads[l].at = "read"
      /\ loads' = Finished(l)
      /\ IF inFlight[c] = l
         THEN /\ cache' = [cache EXCEPT ![c] = loads[l].content]
              /\ inFlight' = [inFlight EXCEPT ![c] = 0]
         ELSE UNCHANGED <<cache, inFlight>>
      /\ UNCHANGED <<world, hash, worker>>
------------------------------------------------------------------------------
Expire(c) ==
  /\ cache[c] # None
  /\ cache' = [cache EXCEPT ![c] = None]
  /\ worker' = Dropping({c})
  /\ UNCHANGED <<world, hash, inFlight, loads>>

WorldChanges(c) ==
  /\ world[c] < MaxVersion
  /\ world' = [world EXCEPT ![c] = @ + 1]
  /\ UNCHANGED <<hash, cache, inFlight, loads, worker>>

LoadStep(l) == ReadChunk(l) \/ Publish(l)

Continue(w) ==
  \/ WarmRead(w) \/ WarmAccept(w) \/ WarmEnd(w)
  \/ GetChunk(w) \/ Resume(w) \/ Draw(w)

Next ==
  \/ \E l \in DOMAIN loads : LoadStep(l)
  \/ \E w \in Workers :
       \/ Continue(w)
       \/ \E g \in Regions :
            \/ InitRegion(w, g)
            \/ \E window \in Windows : Begin(w, g, window)
  \/ \E c \in Chunks : Expire(c) \/ WorldChanges(c)

Spec == Init /\ [][Next]_vars
------------------------------------------------------------------------------
(* "a chunk read before this region was re-scanned is a chunk from the     *)
(* previous state of the world" (WorldRegionUpdateTask.#init): the cache   *)
(* never holds a chunk older than the hash that will be recorded for it,   *)
(* though loads that started before the scan finish after it.              *)
CacheNotOlderThanHash ==
  \A c \in Chunks :
    cache[c] \in Versions /\ hash[c] # None => cache[c] >= hash[c]

(* A tile is drawn when every chunk of its window is in the cache, but for *)
(* those dropped since the preload asked for them: it awaits each of them, *)
(* also those that another worker is loading.                              *)
PreloadIsComplete ==
  \A w \in Workers : Drawing(w) =>
    \A c \in worker[w].window : cache[c] # None \/ c \in worker[w].dropped

(* Whoever waits for a load goes on, even when the load was thrown out by  *)
(* an invalidation while it was in flight: the load can always take its    *)
(* next step, and nobody waits for one that is gone.                       *)
WaitersAreServed ==
  \A w \in Workers : worker[w].at = "wait" =>
    LET l == worker[w].load
    IN  loads[l].at = "done" \/ ENABLED LoadStep(l)
==============================================================================
