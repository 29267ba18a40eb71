# A verification development of WorldLens

WorldLens renders Minecraft worlds into web maps. Its core is a TypeScript port
of a map renderer (`design/packages/engine`), driven by a command line and a
server (`design/packages/cli`, `design/packages/server`), and wrapped in a
desktop application (`design/packages/app`, `design/packages/ui`). Everything runs
on Node's event loop: no step is interrupted between two `await`s, and at every
`await` anything else may run. That is the grain of all models here: **one
action is one stretch of code between two awaits**, and the interleavings are
those of promises, timers, events and the file system.

The modules translate the TypeScript under `src/design/packages/`; `PROJECT.json`
maps every definition to the lines it stands for. Paths below are relative to
`design/packages/`.

| Module | Code | What it is about |
|---|---|---|
| `TaskQueue` | `engine/src/map/rendermanager/RenderManager.ts` | the queue as a value and its operations as functions |
| `RenderManager` | the same | the render pool: workers, callers, waits, stop and restart |
| `TaskTurns` | the same | what the pool promises its tasks (abstract specification) |
| `MapUpdate` | `engine/src/map/rendermanager/{CombinedRenderTask,WorldRegionUpdateTask,MapSaveTask,MapUpdateTask}.ts`, `BmMap.ts` | one update of a map: claims, completion, saves, crash and resume |
| `TileState` | `engine/src/map/renderstate/TileState.ts`, `TileUpdateStrategy.ts`, `HiresModelManager.ts` | the life of one tile over many updates |
| `RenderQueuePersistence` | `server/src/render/RenderQueuePersistence.ts`, `cli/src/index.ts` | the queue file: coalesced saves, flush, shutdown, restart |
| `CellStorage` | `engine/src/map/renderstate/CellStorage.ts` and subclasses | the render state behind a cache with eviction |
| `LowresLayer` | `engine/src/map/lowres/{LowresLayer,LowresTileManager}.ts` | queued writes, pending limit, save, discard |
| `FileItem` | `engine/src/storage/file/{FileItemStorage,FileMapStorage}.ts`, `util/FileHelper.ts` | one item of the file storage: part file, rename, read, removal |
| `AtomicItem` | the same | what an item promises its clients (abstract specification) |
| `LowresFiles` | the two above, `MapPurgeTask.ts` | `LowresLayer` over a `FileItem`: the layer with the web server, a purge and crashes |
| `MapUpdateService` | `server/src/plugin/MapUpdateService.ts` | from file events to scheduled updates, with cooldown and close |
| `ChunkGrid` | `engine/src/world/mca/{ChunkGrid,MCAWorld}.ts` | the chunk cache: shared loads, invalidation, preloading |
| `Autosave` | `app/src/main/project/{autosave,save,ipc}.ts`, `ui/.../ProjectsScreen.vue` | debounced saves, flush, quit |
| `UpdateController` | `app/src/main/update/{controller,state,schedule,installJournal,feedHandoff}.ts` | checks for updates, the legacy feed, installs and their receipt over launches |
| `RenderSessions` | `app/src/main/render/{orchestrator,session,resume,workspaceLease,promotion}.ts` | the renders of a workspace over crashes: lease, record, session, catalogue |
| `RenderManagerProofs` | | theorems about `TaskQueue` and `RenderManager` |
| `MapUpdateProofs`, `UpdateControllerProofs`, `RenderSessionsProofs` | | theorems about the modules they are named after |
| `TileProofs` | | theorems about `TileState`, `LowresLayer`, `FileItem` and `LowresFiles` |
| `CacheProofs` | | theorems about `ChunkGrid` and `CellStorage` |
| `RenderQueueProofs` | | theorems about `RenderQueuePersistence` |
| `DebounceProofs` | | theorems about `MapUpdateService` and `Autosave` |
| `MCRenderManager`, `MCChunkGrid` | | what a `.cfg` cannot write down: relations, windows, symmetry |

## 1. Inventory

### 1.1 Modelled

**Render pool** (`RenderManager.ts`). State: the queue, whose head is the task
being worked on; a fixed set of workers that all call `doWork()` of the head;
`busyCount`, the number of calls under way; the completed history; the progress
sampler. Operations: start, stop, schedule (last, or right behind the head),
reorder, remove, await idle, await shutdown. Hard: the head must not be retired
under a worker that is still inside it (`busyCount` and `hasMoreWork()` are read
together); a throwing task must give its count back; a task may swallow the ones
it contains; waits are a notification with a timeout. Right when: the count is
exact, whoever is inside is inside the head, nothing pending is lost or queued
twice, a stopped pool ends.

**Map update** (`CombinedRenderTask` over `WorldRegionUpdateTask`s and
`MapSaveTask`s). State: the cursor over the sub-tasks; per region the tile cursor,
the number of workers at work, the hashes `#init` read; in the map the state of
every tile and the recorded chunk hashes, in memory and on disk. Hard: the first
claim awaits `#init` in the middle of a claim chain; a region has no more work
when its last tile is *claimed*, so the next sub-task (another region, or the
trailing save) starts while workers are still in the last tiles; the worker that
leaves last completes the region; saves write several files one after the other
while others go on; the queue file keeps the cursor, not the work. Right when:
every tile is claimed by one worker, the last worker completes the region with the
hashes it was started with, no recorded hash is newer than what was drawn, the update
ends.

**Tile state** (`TileState`, `TileUpdateStrategy`, `HiresModelManager`). Seven
states and their resolvers, three strategies, render boundaries. Hard: a tile is
shared by the regions it reaches into, whose updates run at other times; the
decision is made in `#init` and applied later; failures end in states from which
the next update must do the right thing. Right when: a tile that is said to be
rendered is in the storage and not older than the recorded hashes, and boundaries are
obeyed.

**Queue file** (`RenderQueuePersistence`). A flag, a save under way, a closed flag;
staging file and rename. Hard: coalescing of requests, callers that wait for a
save that began before they asked, failure, restart. Right when: the file never
goes back and whoever waited is covered.

**Render state storage** (`CellStorage` with `MapTileState`, `MapChunkState`,
`MapRegionState`). An LRU cache of cells over the grid storage; `cell()` awaits a
load and, when the cache overflows, the write of the eldest. Right when: whoever
is handed a cell sees every write; a save is complete.

**Low-resolution tiles** (`LowresTileManager`, `LowresLayer`). A promise chain of
cell writes in front of a cache, with a set of pending tiles that a save empties.
Right when: a write stays pending until the storage has it.

**File item storage** (`FileItemStorage`, `FileMapStorage.delete`). State: the item's
file and the `.filepart` beside it, which all writers of the item share. Operations:
write (fill the part file, look whether it is there, rename it over the item, in up to
six attempts), read and delete (look, then open or unlink). Hard: every look is followed
by an await before what it saw is used; a look that fails counts as "not there"; a
process that dies leaves a part file behind. Right when: every call takes effect at one
moment, as if the item were a variable, and no part file is left by a write that is over.

**Update service** (`MapUpdateService`). A loop over the watch service, one timer
per region, the cooldown, `close()`. Right when: no change is forgotten, changes are
followed by an update that reads them, and close means closed.

**Chunk cache** (`ChunkGrid`, `MCAWorld.preloadChunks`). Loads shared by whoever
asks, invalidation by the `#init` of a region, expiry; drawing is synchronous and
must find everything in the cache. Right when: no chunk is older than the recorded
hash; what was preloaded is there.

**Project autosave** (`autosave.ts`, `save.ts`, the project handlers, the editor).
A pending project, a debounce with a ceiling, a chain of writes, flush on leaving
and on quitting. Right when: what the editor shows reaches the disk, in order.

**Application updates** (`update/`). State: what the controller shows, the feed it
asks, whether it believes a check under way, its timer and its 30-minute deadline; on
disk the receipt of a requested install and the proof that the current feed delivers;
the engine behind it, which answers when it likes. Operations: start, check, restart,
acknowledge, dispose, and every event of the engine. Hard: an answer may come after the
deadline has given up on it; the one attempt on the legacy feed may be refused or fail,
and so may the way back;
the process may die between the receipt and the install, or start as a version nobody
asked for. Right when: checks go on however one ends, a requested install stays
answerable, the current feed is only believed once it has delivered.

**Render sessions, lease and catalogue** (`render/`). State: per request a stage of
`render()`; on disk the workspace's lock file, `render.json`, `session.json` with its
staging file, and the catalogue of finished renders with a lock of its own; in memory
the live session, the pending entry, the listing. Operations: render or resume, cancel,
progress, the engine's end, promotion, listing, reconciling, and the death of the app at
any await. Hard: every check is followed by awaits before what it allowed is done;
writes of one file overlap; two files say how a render ended; locks outlive whoever took
them. Right when: one engine at a time works in a workspace, record and session agree,
what was announced as finished stays in the catalogue, what a dead app left behind is
found and can be resumed.

How they interact: the server or the command line restores the queue file into the
pool and starts it; the update service schedules region updates; the pool's workers
run a map update, which reads chunks through the chunk cache, decides by tile state,
writes tiles and low-resolution cells, and records state through the cell storage;
completions and trailing sub-tasks save the map, periodic saves and shutdown save the
queue. The application wraps renders of its projects in sessions: each runs the command
line in a child process, the *engine*, of which `RenderSessions` sees that it runs and
how it ends. The project editor with its autosave and the update controller are
independent of the renderer, but that an update is not installed over a render.

### 1.2 Not modelled

`PROJECT.json` lists every part with its files and reason. In short: *planned* are
backups, downloads, world repositories, local history, the live connections, the watch
service's probing, the preparation task, container and cloud renders. *Left out*: sequential computation that tests cover
(decoding, meshing, conversion, configuration, world generation), calls to external
services and programs (publishing, remote hosting, provisioning), credentials, layout
and wording of the interface. Most of the repository's lines are of
this second kind: screens and their texts, generated change logs, converters and their
tables, and under `redesign/` another copy of the interface.

## 2. Modules and code

### 2.1 `TaskQueue`, `RenderManager`, `TaskTurns`

A task is a model value; `Contains` and `Same` are the relations `contains()` and
`equals()`, constant here (cursors inside a task do not change them); `work[t]` is
how many more `doWork()` calls it asks for. `TaskQueue` has the queue operations as
pure functions, with recursion as recursive functions so that theorems can be proved
about them.

A worker is `"ready"` (its next iteration of `#runWorker` is queued), `"idle"`
(parked in `#taskWaiters`), `"calling"` or `"working"` (inside `doWork()`),
`"backoff"` (parked in `#stopWaiters` after an error) or `"gone"`. The iteration
ends in one of `Exit`, `WaitForTask`, `Retire`, `WaitForOthers`, `CallDoWork`, each
of which includes `Follow`, the sampler's update. `Return` and `Throw` share
`LeaveDoWork`, the `finally` that gives the busy count back and notifies. A
notification turns parked workers and callers to `"ready"`/`"woken"`; every wait also
has a timeout. `Start` may only run when no worker is left, as the code checks. A
caller waits in `awaitIdle` (`idler`), another in `awaitShutdown` (`closer`).

`TaskTurns` is the promise to the tasks: the turn belongs to one task, workers enter
and leave it, and it passes on only when nobody is inside. `RenderManager` implements
it with `turn <- head of the queue`, `inside <- workers in doWork()`.

### 2.2 `MapUpdate`

Rests on that promise: workers call `doWork()` while the update `HasMoreWork` and the
pool retires it when it has none and nobody is inside. Sub-tasks are numbers; those in
`Saves` are saves, the others update the region of that number. The steps of a worker
in a region follow `#doWork`: `"queued"` in the claim chain, `"init"`, `"tile"`,
`"complete"`, and through `BmMap.save` `"saveQueued"`, `"saveTiles"`, `"saveChunks"`.
A version stands for a region's content and its hash. `Crash` drops everything in
memory, takes the cursor from the queue file and the map state from disk; stored tiles
survive, for they are written as they are drawn.

`overtaken` is a history variable: the regions completed while a save was between its
writes, or after the update's last save had begun. Section 4 says why some properties
except them.

### 2.3 `TileState`

One tile and the tasks of the regions it reaches into. `FindAction` is the table of
the resolvers of all seven states (`"not-generated"` stands for missing light and low
inhabited time as well, which have the same resolver). A task goes through `InitTask`,
`Process` (claim and preconditions), `Mesh`, `Store`, `SetState`, `Complete`. What a
render reads is any content not older than the last scan: that is
`CacheNotOlderThanHash` of `ChunkGrid`. Tasks of two regions may meet on the tile, for
the second begins while the first is in its last tiles, and the storage may fail, in
which case the code logs and goes on; `spoiled` remembers both.

### 2.4 `RenderQueuePersistence`

The queue is a version number. `RequestSave` is the coalescing; `BeginSave` takes the
snapshot in the stretch that clears the flag; a save stages, publishes (renames) and
cleans up, each of which may fail into the report. Flushers call `flush()`, closers
`shutdown()`, after which the process exits. `Restart` begins anew from the file.

### 2.5 `CellStorage`, `LowresLayer`

Cell objects live in a `heap`, because the cache, a save's list and a caller's local
variable may hold the same or different objects for a position. `Insert` grows the
cache and takes the eldest out before its write is awaited (`Evict`). A save walks the
entries it found, encoding each when its turn comes; `BmMap` chains saves, so there is
one at a time.

In `LowresLayer` two actors run the same save procedure: the chain, when too much is
pending, and the save of the map. A tile is the set of writes it received; `mem` is
the instance that cache and pending share. `raced` and `met` remember positions and
tiles two actors were busy with at a time, and `met` also a tile that was read anew while
a save, which had it on its list, still kept the old instance (`Anew`).

### 2.5.1 `FileItem`, `AtomicItem`, `LowresFiles`

A call on an item is in one of the steps between its awaits: a write is `"queued"`,
`"open"` (the part file is created or truncated), `"filled"`, `"moving"`; a read is
`"looking"`, `"opening"`, `"reading"`; a removal `"finding"`, `"removing"`; then each is
`"done"`. `place` is where the file is that a writer's handle is on, for it stays on the
file when another writer renames it. `StatFails` is a look that fails, `Throw` anything
else that fails. `overlap` remembers that two writes have met, `abandoned` that a writer
left the part file behind. `FindStorage` and `RemoveStorage` are the deletion of the whole
storage as this item sees it, which removes its part file too.

`AtomicItem` is the promise: a call is served in one step, or fails without effect.
`FileItem` implements it with the rename, the opening and the unlink as the moments at
which calls are served (`Seen`), but while writes overlap, and where a look at a file
failed.

`LowresFiles` extends both the layer and the item. The file of one tile (`Watched`) is
the item: where the layer read or wrote that tile in one step (`MustRead`, `MustWrite`)
it now begins a call and goes on when the call is over (`TileRead`, `TileUnreadable`,
`WriteEnds`); everything else is the layer's own step (`Elsewhere`). `disk` follows the
item (`OnDisk`). Beside the chain and the save, the web server reads the file and a purge
removes it. A purge is a task of the pool, so nothing is rendered and no save of the map
runs beside it; it discards what is pending, then removes the files one by one (`Watched`
by the steps of the item, the others by `RemoveOther`). A cancelled purge ends like a call
that fails. `FilesCrash` drops what is in memory, and of what the layer is held to
whatever had not reached the disk.

### 2.6 `MapUpdateService`

Time is relative: a timer holds the time left, `since` the time since the last
schedule up to the cooldown. `Take` is `take()` plus the synchronous `updateRegion`
loop. The pool behind it is a head that reads its hashes once and a set of queued
regions, which is what `containsRenderTask` compares with.

### 2.7 `ChunkGrid`

`InitRegion` lists hashes and invalidates in one stretch; `Warm*` is
`preloadRegionChunks`; `GetChunk`/`Resume` is one turn of `preloadChunks`; `Draw` is
the synchronous drawing from `getCachedChunk`. A load is an object that waiters keep
when it is thrown out of `inFlight`; `Publish` puts its result into the cache only
while it is the current one.

### 2.8 `Autosave`

A project is a number and an edit makes a larger one. `Notify` and `Enqueue` are
`notifyChange` and `enqueue`; the chain's head is being written: the file first, then
the trailer (revision and the second write with the history). `Leave`/`Flush` is the
editor leaving a project, `BeforeQuit`/`QuitAgain` the quit hold, `PressSave` the Save
button, which does not pass the chain.

### 2.9 `UpdateController`

Handlers are synchronous, so each is one action: `Launch` (start), `Exit` (dispose or
death), `CheckManually`, `TimerFires`, `DeadlinePasses`, `Acknowledge`, `Restart`, and
the events of the engine. The private methods they compose (`BeginCheck`,
`FinishCheck`, `Fail`, `Succeed`, `Pin`, `Staged`, `FallBack`) are operators from a
controller to a controller, applied in the code's order, and the reducer of `state.ts`
is in them. The engine is a few slots, each quiet, asked or fetching, with the feed it
was asked with; it may answer anything, at any time or never. The controller record
keeps two feeds: `feed` is `activeFeed`, what the controller believes, and `engine` the
feed the engine was last given. They part when the engine refuses the current feed in
`restoreCurrentFeed()`, which swallows the refusal (`Restored` is a set of controllers
for that reason). `Launch` picks a build with a legacy feed or without one (`bridge`).
Four history variables, which no guard reads: `late` remembers that a deadline has given
up on an engine that was still busy, `stranded` that the engine was left with the legacy
feed, `owed` the request nobody has acknowledged, `proved` that the current feed has
delivered. An engine that has accepted an install is assumed not to throw when the
button is pressed again.

### 2.10 `RenderSessions`

One workspace and the calls of `render()` for it, numbered in the order they are made.
The stages are the stretches between awaits: `"checking"` (worlds, Docker),
`"provisioning"` (the entry is in `pending`), `"preparing"` (the lease is taken),
`"recorded"` (`render.json` says running), `"starting"` (the session is being saved),
`"running"` (the engine), `"exited"` (the record is corrected), `"closing"` (the session
ends), `"promoting"`, and when that fails `"unpromoted"`, `"corrected"`, `"failing"`.
`Save` queues a write of `session.json`, whose three steps (`Open`, `Fill`, `Rename`)
are separate actions because all writers share one staging file. The listing of a
launch reads, finds, puts and reconciles (`ListSessions`, `FindInterrupted`, `PutDone`,
`Reconcile`). `Crash` takes the memory and leaves the files, the locks and the engine,
which ends by itself (`OrphanExits`). A launch is its instance id. The application holds
a single-instance lock, so no two live launches share a workspace.

`spoiled` remembers that a write failed (at most one, to bound the state space) or that
two saves were under way at once.

## 3. Runs

| Run | Instance | What it shows |
|---|---|---|
| `pool` | 2 workers, 3 tasks (an update, a region it contains, one apart), queue of 3, 1 error, history of 1, fair | the busy count is exact; no pending task contains another or is dropped uncovered; the pool implements `TaskTurns`; a stopped pool ends and a non-empty queue keeps being retired, whatever throws |
| `update` | 2 workers, a region of 2 tiles and a save, 3 versions, 1 crash, fair | a tile is processed by one worker and the last one completes the region; records are never newer than what was drawn, in memory and on disk; the update draws what it found; the trailing save covers; the update is retired |
| `tile` | 2 regions, 2 versions, of which one renderable | the tile's state says what is stored, boundaries are obeyed |
| `queue_file` | 2 flushers, 1 shutdown, 3 versions, 1 tick, 1 restart, fair | the file never goes back, flush and shutdown are covered, waiting calls return |
| `cells` | 2 clients, 2 positions, cache of 1, 2 writes, 4 loads | every cell handed out has every write, a save is complete |
| `lowres` | 2 tiles, one over its file, at most 1 pending, discard at 1, 2 writes, 2 attempts to rename, 1 crash | writes stay pending until the file holds them; every call on the file takes effect at one moment |
| `watch` | 2 regions, cooldown 3, delay 2, 3 changes, fair | changes are covered at every moment and updated in the end, close means stopped |
| `chunks` | 2 workers, 2 regions of one chunk, windows across both, 2 versions, 2 loads | no cached chunk is older than its hash, a preload is complete but for what was dropped since, nobody waits for a load that is gone |
| `autosave` | 2 leavers, 3 projects, 1 undo, quiet 2, ceiling 3, chain of 2, manual saves, failing writes, second quit | as long as there were only edits, they reach the disk, in order; flush and quit write what they say |
| `updates` | 3 versions, 2 operations of the engine at a time, any number of launches, crashes and installs, fair | a next check is always scheduled or under way, a requested install is accounted for, the controller knows what the engine does, only the current feed's delivery confirms it, checks keep coming |
| `renders` | 2 requests, 1 crash and relaunch, leases reclaimed, 1 failing write, fair | one engine at a time; record and session agree once a render has ended; what was announced stays in the catalogue; a render that was left behind is offered |
| `resume_after_crash` | the same without a reclaim | **violated**: a render that is offered cannot be resumed |

Why the bounds are enough. Two workers are the least for every interleaving of the
pool, the claim chain and the caches, and each hazard in the list needs two. The queue
of three has a head and two tasks that do not contain each other, and the third task of
the instance swallows one of them; the history of one makes it overflow. One tile
claimed first and one last are the two kinds of claim, and a region of two tiles has
both at work at once. Three versions are: drawn before, found, changed since.
`MapUpdate` was also checked, with the same properties, on two regions of one tile and a
save with one crash (1.5 million states) and on two regions of two tiles and a save
without one: there the workers of one region are still in its last tiles when the next
region, and then the save, begins. A cache of one over two positions evicts at every
miss. With one tile pending, two tiles and two writes reach both limits of the
low-resolution layer, and the save that the limit forces on the chain runs beside the
map's own save of the same tile, so that two writes of one file meet (with room for two
pending tiles it takes a third write to get there). `LowresLayer` alone was also checked
with 3 tiles, 2 pending and 3 writes, and `FileItem` alone with three clients that call
what they like and two values. Delay and cooldown differ, so that both terms of the maximum are taken. Chunks of
two regions in one window, with two loads, have one load invalidated and another of the
same chunk begun. A ceiling above the debounce lets edits push the debounce back until
the ceiling ends it. Timers are counted in ticks, and only the order of their ends
matters to the properties. Three versions are one that runs, one that is offered and one
that was asked for and is neither; two operations of the engine are one the deadline has
given up on and the one asked since. Two requests and one crash have a request meet the
stages, the lease and the orphaned engine of another; that one engine runs at a time is
proved for any number of both.

Nobody calls `reclaimRenderWorkspaceLease` in the program. `renders` runs with a caller
for it (`Reclaiming`), whose behaviours include all of those without one, and so checks
what happens when a workspace is rendered again after a crash; `resume_after_crash`
leaves it out, which is the program as it is.

Deadlock is checked except where the system rests when nothing is left to do within
the bounds (`CellStorage`, `LowresFiles`, `ChunkGrid`, `RenderQueuePersistence`,
`Autosave`, `RenderSessions` without a reclaim).

`LowresFiles` has the actions of `LowresLayer` and of `FileItem`, so its run is theirs as
well. `SamplerFollowsHead`, which is proved, is in no run.

Each module of a component has a `TypeOK` (`CellTypeOK`, `LayerTypeOK`, `ItemTypeOK`,
`AutosaveTypeOK`). It describes the state and is proved for every one of them; the runs
spend their time on the other properties.

**Fairness.** The event loop runs every ready continuation, a file operation ends, a
timer fires: weak fairness of the workers' steps, the saves, the loop and the timers.
Nothing is assumed of what users, the world or the outside do: nobody has to schedule,
edit, stop, start, fail, answer or crash. In `MapUpdate` an init does not have to fail,
in `RenderManager` a task does not have to throw. `WF` of the pool as a whole in
`MapUpdateService` is enough there, because the number of changes is bounded. In
`UpdateController` only the two timers are fair, for the engine may be silent for ever;
every progress event arms the deadline anew (`controller.ts:536`), so that it passes
assumes a download that does not report progress for ever without an end.
In `RenderSessions` a launch lists what it finds (`restoreFinished` runs at start), a
save and a promotion under way end; engines need not.

## 4. Where the code and its comments differ

With a run: `resume_after_crash`. The lock file of an application that died during a
render is never reclaimed (`reclaimRenderWorkspaceLease` has no caller but tests), so
the render that the next launch offers is refused as already running
(`orchestrator.ts:1148`; `resume.ts:131` promises that "resuming carries on from there").

Met while modelling, and stated in the properties as exceptions, so that what does hold
can be checked. Each is a reachable state of the model when the exception is taken out:

- A region that completes between the two writes of a map save, or after the trailing
  save began, is not covered by that save, and a crash may leave a hash on disk without
  the failed tile it hides (`overtaken` in `MapUpdate`; `BmMap.ts:322`,
  `CombinedRenderTask.ts:62`). The saved cursor may have passed a region whose last
  tiles were not drawn; the chunk state on disk then still shows it as changed, which
  is the last disjunct of `UpdateDrawsWhatItFound`.
- A failed write of a tile is logged and the tile recorded as rendered
  (`HiresModelManager.ts:228`), and two tasks that meet on a border tile may leave a
  state and a mesh of different tasks (`spoiled` in `TileState`).
- `cell()` awaits between its look-up and its insertion, so two clients that miss the
  same cell get two objects (`raced` in `CellStorage`; `CellStorage.ts:113`).
- A low-resolution write applied while its tile's save awaits the storage is forgotten
  with the tile's pending entry, and a save keeps the instance it has on its list when the
  tile is read anew after a discard (`met` in `LowresLayer`; `LowresLayer.ts:95`).
- Two writes of one item share one part file, so the item may end up torn, or as the write
  that began first had it (`overlap` in `FileItem`; `FileItemStorage.ts:56`); and a write
  whose part file is not seen returns as if it had been made (`StatFails`;
  `FileItemStorage.ts:57`), where `FileItemStorage.ts:46` says that the part file "is
  atomically moved over the target".
- An edit that is undone before its write is written all the same, for the editor does
  not notify when it is no longer dirty (`OnlyEdits` in `Autosave`;
  `ProjectsScreen.vue:379`); a flush while a write is under way answers at once; the
  application quits over a write under way, and a second quit is not held back.
- The Save button's write does not pass the world's chain: an autosave under way puts an
  older project back (`project/ipc.ts:241`), where `autosave.ts:146` says "Every write for
  one world is serialized after the one before it, so none can overlap" (`OnlyEdits`).
- `invalidateChunkCache()` of one region's init drops chunks which a border tile of the
  neighbour has preloaded and not yet drawn from; the tile is drawn from the empty chunk
  (`ChunkGrid.ts:187`), where `MCAWorld.ts:178-179` says nothing reads a block until every
  chunk is in the cache (`dropped` in `ChunkGrid`).
- A late answer meets the controller after its deadline: one of the legacy feed is
  recorded as a delivery of the current feed, and one that comes during the next check
  ends that check (`late` in `UpdateController`; `controller.ts:808`).
- `restoreCurrentFeed()` believes in the current feed before it gives it to the engine,
  and swallows the engine's refusal (`controller.ts:656-662`; `stranded` in
  `UpdateController`). The comment there says "The next scheduled/manual check will surface
  the current feed refusal", but `check()` never sets the feed: it asks the legacy feed
  again, whose next download is recorded as a delivery of the current feed, with no
  deadline involved, where `feedHandoff.ts:5` says "Once the current feed actually
  delivers an update".
- Two saves of one session share a staging file: `session.json` may be torn, where
  `session.ts:33` says it "is never readable in a half-written state", and a late
  progress write may leave an ended render "running" (`spoiled` in `RenderSessions`;
  `session.ts:560`). A listing that began before a render may put the old "interrupted"
  over its ended session.
- A second signal's `shutdown()` returns at once and exits under the first one's save
  (`RenderQueuePersistence.ts:73`); `queue_file` has one signal.
- A worker whose task throws after `stop()` begins the error backoff all the same
  (`RenderManager.ts:678`); the pool ends when its timeout fires.

Met while modelling, part of the models, and not the subject of a property:

- Updates: an acknowledgement that could not remove the receipt, repeated after another
  install was requested, removes that one's receipt (`controller.ts:352`); after a receipt
  that names a third version, or cannot be read, `check()` declines until the application
  is restarted, acknowledged or not (`controller.ts:384`); after a feed that was refused
  at start, a manual check sets the six-hour timer that start did not.
- Renders: an abort that is honoured just before the engine starts leaves the session
  live and "running" until the next launch (`orchestrator.ts:1364`); a request that
  overlaps another overwrites its pending entry, so that cancel aborts the wrong one; a
  crash between the creation and the writing of the catalogue's lock leaves an empty lock
  that nobody may remove, and a dead owner's lock younger than ten minutes makes
  `promote()` throw, so that `render()` rejects (`promotion.ts:333`).

## 5. Proofs

Every safety property that a run checks is proved, but for `WaitersAreServed`, which
says `ENABLED`. The theorems hold for every set of workers, tasks, callers, clients,
positions, tiles, regions, chunks, versions and requests, every containment relation, every
window and every bound, from the assumptions named in the modules (`PoolAssumption`,
`ContainsAssumption`, `TileAssumption`, `PersistenceAssumption`,
`CacheAssumption`, `LowresAssumption`, `ItemAssumption`, `FilesAssumption`,
`ServiceAssumption`, `GridAssumption`, `AutosaveAssumption`, `UpdateAssumption`, `RenderAssumption`). These say that bounds are
numbers, that some sets are finite, and that a value which stands for "none" is no member of
the set it is added to. `FilesAssumption` says in addition who calls on the watched file
and that the file holds sets of writes.

Several components share a proof module where one way of reasoning serves both. There the
names of a state machine are prefixed (`CellInit`, `LayerNext`, `ItemSpec`,
`AutosaveSpec`), so that one module can extend them all.

`RenderManagerProofs` begins with what the queue operations return: sequences of tasks
whose head, if the queue had one, is the head of the queue before, and whose other tasks
are taken from the queue place by place (`Draws`). The recursion in `Without` is handled by
induction over the positions; a lemma derives that induction from the existence of a least
position, because the library's induction theorems take an operator. Then:

- `TypeCorrect`: `Spec => []TypeOK`.
- `OccupancyCorrect`: `BusyCountExact` and `InsideHeadOnly` are invariants. Alone the
  first is not inductive: that a retirement resets the count to 0 is right only
  because nobody is then inside, and that somebody inside is inside the *head* needs
  that a head with workers is never displaced. The invariant is the conjunction, with
  the types. Restart is safe because `Start` requires every worker to be gone.
- `SamplerCorrect`: `SamplerFollowsHead`. Inductive with the types: callers never
  displace a head (`CallerKeepsHead`), and the worker that retires one marks the next
  as new.
- `PendingCorrect`: `PendingIncomparable`, and `CoverageCorrect`: `PendingStaysCovered`.
  Every step does one of a few things to the queue (`QueueStep`, or a removal), and each
  of these draws its places from places of the queue before, one from one, and drops only
  what the task that joins contains.
- `TurnsImplemented`: `Spec => Turns!Spec`, from the same invariant: a step maps to
  `Enter`, `Leave`, `PassTurn` or to none; a head only changes when the count, and so
  the set inside, is empty.

`RenderQueueProofs`:

- `TypeCorrect`, including that at most one save is under way exactly when `inFlight`
  says so.
- `FileGoesForward`: the file never goes back. Inductive with `Order`: a save under way
  carries a version not older than the file, and the queue is not older than the save.
- `ShutdownCorrect`: with one closer (`OneCloser`; section 4 says why), `ShutdownCovers`.
  A shutdown that waits has set the closed flag, so nothing is requested behind it, and
  the save it waits for carries the last version or a follow-up is requested
  (`ClosersAwaited`).
- `FlushCorrect`: `FlushCovers`. A waiting caller is in one of three situations: a save
  under way carries its version, a follow-up is requested (`WaitersAwaited`), or it is
  covered already; a save before its cleanup has either published or reported
  (`CleanCovered`).

`DebounceProofs`, of `MapUpdateService`:

- `TypeCorrect`; `NoChangeIsForgotten`: `ChangesAreCovered`; `StoppedIsAFact`:
  `CloseMeansStopped`. The last is not inductive: a timer that fires, or a batch that is
  taken, while `close()` is under way would set one. The invariant adds that from the call
  of `close()` no timer is set (`ClosingIsQuiet`), and that nothing counts as changed before
  the loop watches (`NewIsClean`).

`DebounceProofs`, of `Autosave`: one invariant, `Good`, as long as there were only edits.

- `AutosavesOrdered`: `AutosavesInOrder`. The file does not go back because the whole chain
  is in the order of the edits and no call in it is older than the file; the second write of
  a save repeats what the file holds, because only the head of the chain gets that far
  (`InOrder`).
- `EditsSaved`: `EditsReachDisk`. The last project is on disk, has failed, is pending or is
  in the chain (`LatestIsCovered`). That needs to know that nothing but the last project is
  ever pending, and that what `notifyChange` compares it with is not newer than the file
  (`ShowsLatest`): a project that is dropped there is already on disk.
- `FlushesCorrect`: `FlushedIsWritten`. A leaver's call in the chain is not older than what
  it left, for whoever flushes takes the last project along (`LeaversWait`); the project a
  quit waits for is on disk, has failed, or is in a call of the quit (`QuitWaits`).

`CacheProofs`, of `ChunkGrid`:

- `TypeCorrect`, including that the current load of a chunk is one of that chunk and not
  done.
- `CacheIsFresh`: `CacheNotOlderThanHash`. The cache alone says too little, for a load
  begun before a scan ends after it. The invariant says the same of everything on its way
  into the cache: a load that is still the current one of its chunk, and the chunk a
  worker warms its region with (`Fresh`). It is here that an invalidation drops the loads
  in flight, and that no two workers are in tasks of one region.
- `PreloadComplete`: `PreloadIsComplete`. By what each worker has been served so far
  (`Served`): every chunk of its window behind the one it asks for is cached or has been
  dropped since, and the one it waits for is cached, was dropped, or is still the current
  load. So a load that was thrown out is counted as a drop for all who wait for it.
- `LoadsAreKept`: whoever waits for a load waits for one that is under way or done, however
  often the cache was invalidated meanwhile. It is what `WaitersAreServed` says but for
  `ENABLED`.

`CacheProofs`, of `CellStorage`: the cells one position at a time (`Fine`), for the
positions no failed I/O and no meeting of two clients has hit (`Sound`).

- `CellTypeCorrect`: the cache holds no position twice and never more than `CacheSize`,
  from lemmas about the sequence operations (`MoveToEnd`, `DropEldest`, `WithCellFacts`).
- `CellsCorrect`: `HandsOutEveryWrite`. A cached cell has every write that was acknowledged,
  and what is not cached, or cached and not modified, is on disk unless a client is evicting
  it (`Current`). In addition the invariant follows what a client carries over an await: the
  bytes it has loaded, the cell it has been given, what it evicts or saves (`InHand`); that
  one cell object belongs to one position (`Owned`); and that clients who are busy with one
  position are seen (`RacesSeen`), without which none of this survives a step of the other.
- `SaveCorrect`: `SaveIsComplete`. What a save owes a position is in its list, being
  written, on disk, or with the client that is evicting it (`ToSave`).

`TileProofs`, of `TileState`:

- `TypeCorrect`; `TileCorrect`: `TileShowsTheWorld`; `BoundsCorrect`: `BoundsRespected`. A
  tile's state and content only fit because of what its task knows at each step between
  `#init` and `#complete`: that a task nobody has met has the tile to itself (`Alone`); that
  what is recorded of a region was scanned, and what was scanned was there (`Ages`); that the
  decision of `#init` still suits the state and the boundaries when it is applied (`Plans`);
  and that what has been stored suits the state about to be set (`Results`). The proof goes
  through the resolvers of all seven states and the three strategies.

`TileProofs`, of `LowresLayer`: one tile at a time (`Safe`), but for those the chain and a
save have met on.

- `LayerTypeCorrect`, including that no more than `MaxPending` tiles are pending: the chain
  saves before it applies the write that would be one too many.
- `WritesCorrect`: `WritesReachStorage`. What a tile has received is in its instance, on disk
  once the tile is not pending, and in the bytes of a save that has encoded it. The chain
  works on the first write of its queue (`HeadIsAtWork`), and no tile is with the chain and
  with the save without having been noted (`MeetingsSeen`).

`TileProofs`, of `FileItem`, for every set of clients and of values:

- `ItemTypeCorrect`, and `PartIsOwned`: `PartHasOwner`.
- `CallsTakeEffectOnce`: `ItemSpec => CallsAreAtomic`, the refinement of `AtomicItem` step
  by step. What a rename puts in place is what its own call writes, because a writer who
  has met nobody has the part file to himself, opened by him and filled by him
  (`WriterAlone`), also when a crash or a failure left an old one there; `CallsFit` says
  what each step knows of its call, so that a call is never served twice.

`TileProofs`, of `LowresFiles`, where the two invariants meet (`FilesInv`):

- `LayerUsesItem`: every behaviour of the composition is one of the item (`UsesItem`, step
  by step), so `CallsAreAtomic` holds of it by `CallsTakeEffectOnce`. The item's guarantee
  is not assumed a second time.
- `WritesReachFiles`: `WritesReachStorage`, over the steps of the file. It is not the
  layer's own theorem, for a write of the layer is no longer one step. The invariant adds
  to `LayerInv` and `ItemInv` that a call of an actor is the one its actor waits for and
  carries the bytes it encoded (`CallsServe`); that `disk` is the file (`Mirrored`); that
  two writers of the file have met as actors of the layer (`OverlapsMeet`), so that what
  the item does not promise then the layer does not count on; and that a call which is
  done has done what it will be reported for, whatever came after it (`CallsDone`).
- `FilesTypeCorrect`, and `NobodyWritesInAPurge`: a purge finds the chain drained and no
  save under way, and stays alone (`PurgeStaysAlone`), which is why the removal of the
  storage never waits for a writer (the guard of `RemoveStorage`).

`MapUpdateProofs`: the types and all five safety properties of `MapUpdate`, by three
invariants of which each rests on the one before.

- `SharingCorrect`: `WorkIsSharedOut`. The claim chain lets one worker at a time at the
  tile cursor, and the region's count of workers in a tile is the number that is in one
  (`Shared`), so no tile is handed out twice and the worker that counts to zero after the
  last tile is the only one to complete the region.
- `RecordsCorrect`: `RecordedNotNewerThanDrawn`, and `DiskCorrect`:
  `DiskRemembersFailures`. While a region is being updated each of its tiles has failed, is
  as new as the hash `#init` read, or is still to be drawn (`DrawnInv`); by `Shared`
  nothing is to be drawn when `#complete` records that hash. A save writes the tile state
  before the chunk hashes, and the invariant says what a save between the two has written.
- `UpdateCorrect`: `UpdateDrawsWhatItFound`, and `SaveCorrect`: `TrailingSaveCovers`. The
  cursor of the combined task may leave a region while workers are inside it, so neither
  holds of the cursor alone. `EndInv` says that a region it has passed is done or has a
  worker inside, that a task is retired with no worker inside, and what the save begun
  last has covered.

`UpdateControllerProofs` takes the private methods one by one: `Loose` holds before a
failure is pinned, `Almost` between two methods, `Sane` when a handler returns.

- `TypeCorrect`; `ChecksGoOn`: `NeverWedged`, from `Sane`.
- `OutcomesAreKept`: `OutcomeIsKept`, from `Kept`, the life of a request: until it is
  reported the installer is at work, from then on the failure is pinned until the window
  takes it; and the button is only there once the window has.
- `FlightIsTrue`: `InFlightIsTrue`, from `Faithful`: as long as no deadline has given up
  on a busy engine, the engine is alone, asked with the feed it has (`engine`), and known
  to be busy.
- `OnlyCurrentConfirms`: `ConfirmedByCurrent`, from `Faithful` and `Agreed`: the feed the
  engine has is the one the controller believes in, unless the engine has refused to leave
  the legacy feed. What was downloaded then came from the feed that is confirmed.

`RenderSessionsProofs`:

- `OneEngineOnly`: `OneEngine`, by the discipline of a lock that is a file. From the lease
  to its release whoever renders holds it in the name of the launch that runs, so there is
  one; an engine that outlived its app keeps the lease of a launch that is gone, which
  refuses everybody. Every step is mapped to what it does to the lease (`Turn`), and only
  those turns are shown to preserve `LeaseInv`.

- `TypeCorrect`: `TypeOK`, with what is live: from its entry to the end of its session a
  render is the live session of this launch (`Lives`).
- `EndSettled`: `EndedIsSettled`. `record` and `session.json` agree at the end because they
  went through the same stages: for each stage of `render()` the invariant gives what the
  record says and what the session file says, or will say when the one save under way has
  landed (`Course`, `OneSave`). That the record is the one of whoever holds the lease
  (`RecordOfHolder`) is where `OneEngineOnly`'s invariant comes in again; the listing of a
  launch and late progress are shown to leave the course alone.
- `FinishedKept`: `FinishedIsKept`. Who works on the catalogue is alone and works with the
  record as it is (`OneKeeper`, `Carried`), and who reconciles a finished render has read
  that it is finished (`Kept`).

Only model-checked:

- the liveness properties `ShutdownReturns`, `QueueKeepsMoving`, `UpdateFinishes`,
  `CallsReturn`, `ChangesAreUpdated`, `ChecksKeepComing` and `CrashIsOffered`, for liveness
  under fairness is out of the prover's reach;
- `WaitersAreServed`, for it says `ENABLED`; what it says besides is `LoadsAreKept`.

Only proved: `SamplerFollowsHead`, `PartHasOwner` and what `ItemSpec` says of the removal
of a single item (`Find`, `RemoveItem`), which no part of the composition asks for.

## 6. Limits of the models

- `RenderManager`: containment between tasks is constant; estimates and logs are left
  out.
- `MapUpdate`: one version per region; forced strategies and cell eviction are not in
  it; the awaits within an `#init`, within a completion and within each of the two writes
  of a save are one step each; tiles that straddle regions are `TileState`'s; a tile whose preconditions fail
  counts as drawn.
- `TileState`: one tile; the tile filter, `saveHiresLayer = false` and a crash between
  a tile's write and its state's save are left out; a tile in the chunk-error state is
  not retried before a chunk changes, which is what the resolvers intend.
- `RenderQueuePersistence`: the queue is a version; tasks without a serializer, and
  `start()` racing `shutdown()`, which the command line cannot do, are left out.
- `CellStorage`, `LowresLayer`: an I/O failure may lose what it hits; one layer.
- `FileItem`: items written in place (atomic off) and `exists()` are left out; a file that
  is opened is read in one step; a rename is never lost with the machine's power, for which
  the code would have to sync.
- `LowresFiles`: one tile over its file, for items share nothing; that calls on files
  return is not stated.
- `MapUpdateService`: the watch service is a set of events; the `#init` of a region that
  reads its hashes does not fail.
- `ChunkGrid`: the region cache holds no content.
- `UpdateController`: progress numbers, the metadata probe, builds without a feed or an
  engine, and the refusals of `restart()` for unsaved work or a running render are left
  out.
- `RenderSessions`: one workspace; dismissed offers, mounts and previews, WSL and
  container engines, the heartbeat of the catalogue's lock and the hashes of the output
  are left out, and so is a lease whose file is made but cannot be written
  (`workspaceLease.ts:39-42`), which nobody removes, and a release that fails;
  `render.json` and the catalogue are replaced in one step.
- `Autosave`: one project; calls between editor and engine are immediate, timers are
  on time; restoring and reopening are left out.

## 7. Plan

Done, in this order: the pool and its promise; the update, the tile and the chunk cache
that rest on it; the storages and the queue file; the update service; the autosave; the
application's updates; the render sessions; the file item and the low-resolution layer
over it.

Next, in this order:

1. *Watch service*: probing, re-arming, the proof of life, composed with
   `MapUpdateService`.
2. *Preparation task*, composed with `RenderManager`; containment with cursors.
3. *Compositions*: `MapUpdate` with `TaskTurns` as its environment; `TileState` with
   `ChunkGrid`; `CellStorage` over `FileItem`, as `LowresFiles` does it.
4. *Backups, downloads, world repositories, live connections*.

Proofs to come: that the low-resolution layer and the cell storage implement a plain map
from positions to sets of writes, and the queue file a register, stated as abstract
specifications with a refinement mapping; then the modules of this list, as they are
written.
