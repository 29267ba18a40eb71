-------------------------- MODULE MapUpdateService --------------------------
(***************************************************************************)
(* From a changed region file to a scheduled region update                 *)
(* (server/src/plugin/MapUpdateService.ts): the watch loop, one debounce   *)
(* timer per region, the cooldown between two updates of a region, and     *)
(* close().  The pool behind scheduleRenderTask is reduced to what the     *)
(* service relies on: a head and the region updates queued behind it.      *)
(*                                                                         *)
(* Time is relative: a timer holds the time left to it, and since[r] the   *)
(* time since region r was last scheduled, up to Cooldown, when            *)
(* lastUpdateTimes forgets it.  A timer may fire late.                     *)
(***************************************************************************)
EXTENDS Naturals

CONSTANTS
  Regions,
  Cooldown,   \* regionUpdateCooldownMs, in ticks
  MinDelay,   \* minUpdateDelayMs, in ticks
  MaxChanges  \* bound: changes of region files

ASSUME ServiceAssumption ==
  /\ Cooldown \in Nat
  /\ MinDelay \in Nat
  /\ MaxChanges \in Nat
  /\ "none" \notin Regions

VARIABLES
  changes,  \* number of changes so far
  dirty,    \* regions changed, while watched, since an update of them last
            \* read its hashes
  events,   \* changes the watch service holds for the next take()
  loop,     \* the run loop: "new", "taking", "stopped"
  failed,   \* the watch service has failed
  timer,    \* scheduledUpdates: time left of each region's timer, or Off
  since,    \* lastUpdateTimes
  closing,  \* close(): "open", "closing" (closed = true), "closed"
  head,     \* the region the pool is updating, and whether it has read hashes
  queued    \* regions with an update behind the head

service == <<loop, failed, timer, since, closing>>
pool == <<head, queued>>
vars == <<changes, dirty, events, service, pool>>

Longest == IF Cooldown > MinDelay THEN Cooldown ELSE MinDelay
Off == Longest + 1
NoHead == [region |-> "none", read |-> FALSE]

TypeOK ==
  /\ changes \in 0 .. MaxChanges
  /\ dirty \subseteq Regions
  /\ events \subseteq Regions
  /\ loop \in {"new", "taking", "stopped"}
  /\ failed \in BOOLEAN
  /\ timer \in [Regions -> 0 .. Off]
  /\ since \in [Regions -> 0 .. Cooldown]
  /\ closing \in {"open", "closing", "closed"}
  /\ head \in {NoHead} \cup [region : Regions, read : BOOLEAN]
  /\ queued \subseteq Regions

Init ==
  /\ changes = 0
  /\ dirty = {}
  /\ events = {}
  /\ loop = "new"
  /\ failed = FALSE
  /\ timer = [r \in Regions |-> Off]
  /\ since = [r \in Regions |-> Cooldown]
  /\ closing = "open"
  /\ head = NoHead
  /\ queued = {}

Closed == closing # "open"
------------------------------------------------------------------------------
Start ==
  /\ loop = "new" /\ ~Closed
  /\ loop' = "taking"
  /\ UNCHANGED <<changes, dirty, events, failed, timer, since, closing, pool>>

(* The delay a region's last event is given.                               *)
Delay(r) ==
  IF Cooldown - since[r] > MinDelay THEN Cooldown - since[r] ELSE MinDelay

(* take() returns a batch; updateRegion replaces the timer of every region *)
(* in it, without an await in between.                                     *)
Take ==
  /\ loop = "taking" /\ ~Closed
  /\ events # {}
  /\ events' = {}
  /\ timer' = [r \in Regions |-> IF r \in events THEN Delay(r) ELSE timer[r]]
  /\ UNCHANGED <<changes, dirty, loop, failed, since, closing, pool>>

(* take() rejects with ClosedException, or with anything else; a batch     *)
(* that arrives when the service is closed is dropped.                     *)
StopLoop ==
  /\ loop = "taking"
  /\ Closed \/ failed
  /\ loop' = "stopped"
  /\ UNCHANGED <<changes, dirty, events, failed, timer, since, closing, pool>>

(* scheduleRenderTask refuses an update that is queued behind the head.    *)
ScheduleUnlessKnown(r) ==
  queued' = IF head.region = r THEN queued ELSE queued \cup {r}

Schedule(r) == queued' = queued \cup {r}

Fire(r) ==
  /\ timer[r] = 0
  /\ timer' = [timer EXCEPT ![r] = Off]
  /\ IF Closed
     THEN UNCHANGED <<queued, since>>
     ELSE /\ Schedule(r)
          /\ since' = [since EXCEPT ![r] = 0]
  /\ UNCHANGED <<changes, dirty, events, loop, failed, closing, head>>

Close ==
  /\ closing = "open"
  /\ closing' = "closing"
  /\ timer' = [r \in Regions |-> Off]
  /\ UNCHANGED <<changes, dirty, events, loop, failed, since, pool>>

CloseReturnsEarly ==
  /\ closing = "closing"
  /\ closing' = "closed"
  /\ UNCHANGED <<changes, dirty, events, loop, failed, timer, since, pool>>

(* close() awaits the loop when it was started.                            *)
CloseReturns ==
  /\ closing = "closing"
  /\ loop # "taking"
  /\ closing' = "closed"
  /\ UNCHANGED <<changes, dirty, events, loop, failed, timer, since, pool>>
------------------------------------------------------------------------------
(* The surroundings: region files, the watch service, the clock, the pool. *)

RegionChanges(r) ==
  /\ changes < MaxChanges
  /\ loop = "taking" /\ ~failed
  /\ changes' = changes + 1
  /\ dirty' = dirty \cup {r}
  /\ events' = events \cup {r}
  /\ UNCHANGED <<service, pool>>

WatchFails ==
  /\ loop = "taking" /\ ~failed
  /\ failed' = TRUE
  /\ UNCHANGED <<changes, dirty, events, loop, timer, since, closing, pool>>

Ticking(t) == t \in 1 .. Longest

Tick ==
  /\ timer' = [r \in Regions |->
                 IF Ticking(timer[r]) THEN timer[r] - 1 ELSE timer[r]]
  /\ since' = [r \in Regions |->
                 IF since[r] < Cooldown THEN since[r] + 1 ELSE since[r]]
  /\ UNCHANGED <<changes, dirty, events, loop, failed, closing, pool>>

PoolTakes(r) ==
  /\ head = NoHead /\ r \in queued
  /\ head' = [region |-> r, read |-> FALSE]
  /\ queued' = queued \ {r}
  /\ UNCHANGED <<changes, dirty, events, service>>

PoolReadsHashes ==
  /\ head # NoHead /\ ~head.read
  /\ head' = [head EXCEPT !.read = TRUE]
  /\ dirty' = dirty \ {head.region}
  /\ UNCHANGED <<changes, events, service, queued>>

PoolRetires ==
  /\ head # NoHead /\ head.read
  /\ head' = NoHead
  /\ UNCHANGED <<changes, dirty, events, service, queued>>

PoolStep ==
  PoolReadsHashes \/ PoolRetires \/ \E r \in Regions : PoolTakes(r)

Next ==
  \/ Start \/ Take \/ StopLoop \/ Close \/ CloseReturns
  \/ WatchFails \/ Tick \/ PoolStep
  \/ \E r \in Regions : Fire(r) \/ RegionChanges(r)

Spec == Init /\ [][Next]_vars

FairSpec ==
  /\ Spec
  /\ WF_vars(Take) /\ WF_vars(StopLoop) /\ WF_vars(CloseReturns)
  /\ WF_vars(Tick) /\ WF_vars(PoolStep)
  /\ \A r \in Regions : WF_vars(Fire(r))
------------------------------------------------------------------------------
Watching == loop = "taking" /\ ~Closed /\ ~failed

(* No change of a watched region is forgotten on its way from the watch    *)
(* service through a timer into the queue, whatever arrives while an       *)
(* update of that region is queued or running.                             *)
ChangesAreCovered ==
  Watching =>
    \A r \in dirty : \/ r \in events \/ timer[r] # Off \/ r \in queued
                     \/ head = [region |-> r, read |-> FALSE]

(* "'stopped' is a fact by the time close() resolves": the loop has ended, *)
(* no timer is left, and nothing is scheduled any more.                    *)
CloseMeansStopped ==
  closing = "closed" =>
    loop # "taking" /\ \A r \in Regions : timer[r] = Off

(* A change is followed by an update that reads the region after it, when  *)
(* the files settle, unless the service is closed or its watch has failed. *)
ChangesAreUpdated ==
  \A r \in Regions :
    (r \in dirty /\ Watching) ~> (r \notin dirty \/ ~Watching)
==============================================================================
