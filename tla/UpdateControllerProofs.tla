----------------------- MODULE UpdateControllerProofs -----------------------
(***************************************************************************)
(* Theorems about UpdateController: for every set of versions and however  *)
(* many operations the engine runs at a time, checks are never wedged, an  *)
(* install that was requested is accounted for, the controller knows what  *)
(* the engine is doing, and only an answer of the current feed ends the    *)
(* use of the legacy one.                                                  *)
(*                                                                         *)
(* The private methods are composed in the handlers, so the lemmas say of  *)
(* each what it does to a controller: Loose is what holds before apply()   *)
(* pins a failure, Almost what holds between two methods, Sane what holds  *)
(* when a handler returns.                                                 *)
(***************************************************************************)
EXTENDS UpdateController, FiniteSetTheorems, TLAPS

Loose(c) ==
  /\ c \in Controllers
  /\ c.listening => c.up
  /\ c.inFlight => c.deadline
  /\ Ready(c) => c.staged # 0
  /\ c.scheduleReady => Ready(c)

Almost(c) == Loose(c) /\ (c.pinned # "none" => c.failure = c.pinned)

Sane(c) == Almost(c) /\ (Checks(c) => c.timer \/ c.inFlight)

(* What only start(), acknowledgeInstallOutcome() and the end of the       *)
(* process change.                                                         *)
Same(c, d) ==
  /\ d.up = c.up /\ d.listening = c.listening
  /\ d.greeted = c.greeted /\ d.pinned = c.pinned

SameFeed(c, d) == d.feed = c.feed /\ d.engine = c.engine

(* The controller's view of the engine, before a deadline gives up on it.  *)
Alone(o) == \A i, j \in Busy(o) : i = j

Faithful(c, o, l) ==
  /\ ~c.listening => Busy(o) = {}
  /\ ~l => /\ Alone(o)
           /\ \A i \in Busy(o) : o[i].feed = c.engine
           /\ c.listening => (c.inFlight <=> Busy(o) # {})

(* The engine has the feed the controller believes in, unless it has once  *)
(* refused to go back to the current one.                                  *)
Agreed(c, s) == c.engine = c.feed \/ s

(* The life of a requested install: until it is reported the installer is  *)
(* at work, and from then on until the window takes it the failure is      *)
(* pinned.                                                                 *)
Kept ==
  owed.request # None =>
    /\ receipt = owed.request
    /\ ~owed.reported => installer # 0
    /\ owed.reported => ~controller.greeted
    /\ owed.reported /\ controller.up /\ version # owed.request.to
         => controller.pinned # "none"

IInv ==
  /\ TypeOK
  /\ Sane(controller)
  /\ Faithful(controller, ops, late)
  /\ Agreed(controller, stranded)
  /\ Kept
  /\ ConfirmedByCurrent
------------------------------------------------------------------------------
(* The private methods.                                                    *)

LEMMA BeginCheckSane ==
  ASSUME NEW c, Almost(c)
  PROVE  /\ Sane(BeginCheck(c)) /\ Same(c, BeginCheck(c))
         /\ BeginCheck(c).inFlight /\ SameFeed(c, BeginCheck(c))
  BY DEF Almost, Loose, Sane, Same, SameFeed, BeginCheck, Controllers, Checks,
         Ready

LEMMA FinishCheckAlmost ==
  ASSUME NEW c, Almost(c)
  PROVE  /\ Almost(FinishCheck(c)) /\ Same(c, FinishCheck(c))
         /\ ~FinishCheck(c).inFlight /\ SameFeed(c, FinishCheck(c))
  BY DEF Almost, Loose, Same, SameFeed, FinishCheck, Controllers, Ready

LEMMA RestoredAlmost ==
  ASSUME NEW c, Almost(c), NEW r \in Restored(c)
  PROVE  Almost(r) /\ Same(c, r) /\ r.inFlight = c.inFlight
  <1>1. PICK f \in {"current", c.engine} :
          r = [c EXCEPT !.feed = "current", !.hadNone = FALSE, !.engine = f]
    BY DEF Restored
  <1>2. c \in Controllers
    BY DEF Almost, Loose
  <1>3. f \in Feeds
    BY <1>2 DEF Controllers, Feeds
  <1> QED
    BY <1>1, <1>2, <1>3 DEF Almost, Loose, Same, Controllers, Feeds, Ready

LEMMA RestoreAlmost ==
  ASSUME NEW c, Almost(c), NEW r \in RestoreCurrentFeed(c)
  PROVE  Almost(r) /\ Same(c, r) /\ r.inFlight = c.inFlight
  <1>1. CASE r \in Restored(c)
    BY <1>1, RestoredAlmost
  <1>2. CASE r = c
    BY <1>2 DEF Same
  <1> QED
    BY <1>1, <1>2 DEF RestoreCurrentFeed

(* Same, and neither the check nor the feeds.                              *)
Alike(c, d) == Same(c, d) /\ d.inFlight = c.inFlight /\ SameFeed(c, d)

(* apply() pins the failure it may have covered.                           *)
LEMMA PinAlmost ==
  ASSUME NEW c, Loose(c)
  PROVE  /\ Almost(Pin(c)) /\ Alike(c, Pin(c))
         /\ Pin(c).timer = c.timer /\ Ready(Pin(c)) = Ready(c)
  <1>1. CASE c.pinned = "none"
    BY <1>1 DEF Almost, Loose, Alike, SameFeed, Same, Pin
  <1>2. CASE c.pinned # "none"
    <2>1. Pin(c) = [c EXCEPT !.failure = c.pinned]
      BY <1>2 DEF Pin
    <2>2. c \in Controllers /\ c.pinned \in Outcomes
      BY DEF Loose, Controllers
    <2>3. Pin(c) \in Controllers
      BY <2>1, <2>2 DEF Controllers
    <2> QED
      BY <2>1, <2>2, <2>3
         DEF Almost, Loose, Alike, SameFeed, Same, Controllers, Ready
  <1> QED
    BY <1>1, <1>2

LEMMA RearmSane ==
  ASSUME NEW c, Almost(c)
  PROVE  Sane(Rearm(c)) /\ Alike(c, Rearm(c))
  BY DEF Almost, Loose, Sane, Alike, SameFeed, Same, Rearm, Controllers,
         Checks, Ready

(* fail() always schedules the next check, or finds an update staged.      *)
LEMMA FailSane ==
  ASSUME NEW c, Almost(c), NEW f \in Failures
  PROVE  Sane(Fail(c, f)) /\ Alike(c, Fail(c, f))
  <1> DEFINE d == IF Ready(c) THEN [c EXCEPT !.failure = f]
                  ELSE [c EXCEPT !.status = "failed", !.failure = f]
  <1>1. f \in Outcomes
    BY DEF Outcomes
  <1>2. Loose(d) /\ Alike(c, d)
    <2>1. CASE Ready(c)
      BY <1>1, <2>1
         DEF Almost, Loose, Alike, SameFeed, Same, Controllers, Ready
    <2>2. CASE ~Ready(c)
      BY <1>1, <2>2
         DEF Almost, Loose, Alike, SameFeed, Same, Controllers, Ready
    <2> QED
      BY <2>1, <2>2
  <1>3. Fail(c, f) = Rearm(Pin(d))
    BY DEF Fail
  <1> HIDE DEF d
  <1> QED
    BY <1>2, <1>3, PinAlmost, RearmSane DEF Alike, SameFeed, Same

LEMMA SucceedSane ==
  ASSUME NEW c, Almost(c)
  PROVE  Sane(Succeed(c)) /\ Alike(c, Succeed(c))
  <1> DEFINE d == IF Ready(c) THEN [c EXCEPT !.scheduleReady = TRUE]
                  ELSE [c EXCEPT !.scheduleReady = FALSE,
                                 !.status = "up-to-date", !.failure = "none"]
  <1>1. Loose(d) /\ Alike(c, d)
    <2>1. CASE Ready(c)
      BY <2>1 DEF Almost, Loose, Alike, SameFeed, Same, Controllers, Ready
    <2>2. CASE ~Ready(c)
      BY <2>2
         DEF Almost, Loose, Alike, SameFeed, Same, Controllers, Outcomes, Ready
    <2> QED
      BY <2>1, <2>2
  <1>2. Succeed(c) = Rearm(Pin(d))
    BY DEF Succeed
  <1> HIDE DEF d
  <1> QED
    BY <1>1, <1>2, PinAlmost, RearmSane DEF Alike, SameFeed, Same

LEMMA DownloadingSane ==
  ASSUME NEW c, Almost(c), c.inFlight
  PROVE  Sane(Downloading(c)) /\ Alike(c, Downloading(c))
  <1> DEFINE d == IF Ready(c) THEN c
                  ELSE [c EXCEPT !.status = "downloading", !.failure = "none"]
  <1>1. Loose(d) /\ Alike(c, d)
    <2>1. CASE Ready(c)
      BY <2>1 DEF Almost, Alike, SameFeed, Same
    <2>2. CASE ~Ready(c)
      BY <2>2
         DEF Almost, Loose, Alike, SameFeed, Same, Controllers, Outcomes, Ready
    <2> QED
      BY <2>1, <2>2
  <1>2. Downloading(c) = Pin(d)
    BY DEF Downloading
  <1> HIDE DEF d
  <1> QED
    BY <1>1, <1>2, PinAlmost DEF Sane, Alike, SameFeed, Same

LEMMA StagedSane ==
  ASSUME NEW c, Almost(c), NEW v \in Versions
  PROVE  Sane(Staged(c, v)) /\ Alike(c, Staged(c, v))
  <1> DEFINE d == [c EXCEPT !.scheduleReady = TRUE, !.status = "ready",
                            !.failure = "none", !.staged = v]
  <1>1. v # 0
    BY UpdateAssumption
  <1>2. Loose(d) /\ Alike(c, d)
    BY <1>1
       DEF Almost, Loose, Alike, SameFeed, Same, Controllers, Outcomes, Ready
  <1>3. Staged(c, v) = Rearm(Pin(d))
    BY DEF Staged
  <1> HIDE DEF d
  <1> QED
    BY <1>2, <1>3, PinAlmost, RearmSane DEF Alike, SameFeed, Same

(* The engine has one operation when it is asked while it has none.        *)
LEMMA AskBegins ==
  ASSUME NEW o \in Operations, NEW f \in Feeds, Ask(o, f)
  PROVE  /\ ops' \in Operations
         /\ Busy(o) = {} => /\ Alone(ops') /\ Busy(ops') # {}
                            /\ \A i \in Busy(ops') : ops'[i].feed = f
  <1>1. CASE Busy(o) # {} /\ ops' = o
    BY <1>1
  <1>2. ASSUME NEW i \in Slots \ Busy(o),
               ops' = [o EXCEPT ![i] = [phase |-> "asked", feed |-> f]]
        PROVE  /\ ops' \in Operations
               /\ Busy(o) = {} => /\ Busy(ops') = {i}
                                  /\ ops'[i].feed = f
    BY <1>2 DEF Operations, Busy, Quiet
  <1> QED
    BY <1>1, <1>2 DEF Ask, Alone

LEMMA EndedQuiet ==
  ASSUME ops \in Operations, NEW i \in Busy(ops)
  PROVE  /\ Ended(i) \in Operations
         /\ Alone(ops) => Busy(Ended(i)) = {}
  BY DEF Ended, Operations, Busy, Alone, Quiet, Feeds
------------------------------------------------------------------------------
(* check() and tryLegacyFallback().                                        *)

LEMMA CheckByKeeps ==
  ASSUME NEW c, Almost(c), ops \in Operations, Faithful(c, ops, late),
         CheckBy(c)
  PROVE  /\ Sane(controller') /\ Same(c, controller')
         /\ ops' \in Operations /\ Faithful(controller', ops', late)
         /\ SameFeed(c, controller')
  <1>1. CASE Declines(c) /\ controller' = c /\ UNCHANGED ops
    BY <1>1 DEF Declines, Sane, Checks, Same, SameFeed
  <1>2. CASE /\ ~Declines(c)
             /\ controller' = BeginCheck(c)
             /\ IF c.listening THEN Ask(ops, c.engine) ELSE UNCHANGED ops
    <2>1. ~c.inFlight /\ c.engine \in Feeds
      BY <1>2 DEF Declines, Almost, Loose, Controllers
    <2>2. /\ Sane(controller') /\ Same(c, controller')
          /\ controller'.inFlight /\ SameFeed(c, controller')
      BY <1>2, BeginCheckSane
    <2>3. CASE c.listening
      <3>1. Ask(ops, c.engine)
        BY <1>2, <2>3
      <3>2. ~late => Busy(ops) = {}
        BY <2>1, <2>3 DEF Faithful
      <3>3. ops' \in Operations
        BY <3>1, <2>1, AskBegins
      <3>4. ~late => /\ Alone(ops') /\ Busy(ops') # {}
                     /\ \A i \in Busy(ops') : ops'[i].feed = c.engine
        BY <3>1, <3>2, <2>1, AskBegins
      <3> QED
        BY <2>2, <2>3, <3>3, <3>4 DEF Faithful, Same, SameFeed
    <2>4. CASE ~c.listening
      BY <1>2, <2>2, <2>4 DEF Faithful, Same, SameFeed, Alone
    <2> QED
      BY <2>3, <2>4
  <1>3. CASE /\ ~Declines(c)
             /\ \E f \in Failures : controller' = Fail(FinishCheck(c), f)
             /\ UNCHANGED ops
    <2>1. PICK f \in Failures : controller' = Fail(FinishCheck(c), f)
      BY <1>3
    <2>2. ~c.inFlight
      BY <1>3 DEF Declines
    <2>3. /\ Sane(controller') /\ Same(c, controller')
          /\ ~controller'.inFlight /\ SameFeed(c, controller')
      BY <2>1, FinishCheckAlmost, FailSane DEF Alike, Same, SameFeed
    <2> QED
      BY <1>3, <2>2, <2>3 DEF Faithful, Same, SameFeed
  <1> QED
    BY <1>1, <1>2, <1>3 DEF CheckBy

LEMMA FallBackKeeps ==
  ASSUME NEW c, Almost(c), c.listening, ~c.inFlight,
         NEW o \in Operations, ~late => Busy(o) = {},
         NEW none \in BOOLEAN, FallBack(c, o, none)
  PROVE  /\ Sane(controller') /\ Same(c, controller')
         /\ ops' \in Operations /\ Faithful(controller', ops', late)
  <1> DEFINE asked == [c EXCEPT !.feed = "legacy", !.hadNone = none]
             chosen == [asked EXCEPT !.engine = "legacy"]
  <1>0. Almost(asked) /\ Same(c, asked)
    BY DEF Almost, Loose, Same, Controllers, Feeds, Ready
  <1>1. /\ Almost(chosen) /\ Same(c, chosen)
        /\ chosen.feed = "legacy" /\ chosen.engine = "legacy"
    BY DEF Almost, Loose, Same, Controllers, Feeds, Ready
  <1>2. ASSUME NEW e \in {asked, chosen}, NEW r \in Restored(FinishCheck(e))
        PROVE  Almost(r) /\ Same(c, r) /\ ~r.inFlight
    <2>1. Almost(e) /\ Same(c, e)
      BY <1>0, <1>1
    <2> HIDE DEF asked, chosen
    <2> QED
      BY <2>1, <1>2, FinishCheckAlmost, RestoredAlmost DEF Same
  <1>3. CASE controller' = BeginCheck(chosen) /\ Ask(o, "legacy")
    <2>1. /\ Sane(controller') /\ Same(c, controller')
          /\ controller'.inFlight /\ controller'.engine = "legacy"
          /\ controller'.feed = "legacy"
      <3> HIDE DEF asked, chosen
      <3> QED
        BY <1>1, <1>3, BeginCheckSane DEF Same, SameFeed
    <2>2. "legacy" \in Feeds
      BY DEF Feeds
    <2>3. ops' \in Operations
      BY <1>3, <2>2, AskBegins
    <2>4. ~late => /\ Alone(ops') /\ Busy(ops') # {}
                   /\ \A i \in Busy(ops') : ops'[i].feed = "legacy"
      BY <1>3, <2>2, AskBegins
    <2> QED
      BY <2>1, <2>3, <2>4 DEF Faithful, Same
  <1>4. CASE /\ \E e \in {asked, chosen} : \E r \in Restored(FinishCheck(e)) :
                  IF none THEN controller' = Succeed(r)
                  ELSE \E f \in Failures : controller' = Fail(r, f)
             /\ ops' = o
    <2> HIDE DEF asked, chosen
    <2>1. PICK e \in {asked, chosen} : \E r \in Restored(FinishCheck(e)) :
            IF none THEN controller' = Succeed(r)
            ELSE \E f \in Failures : controller' = Fail(r, f)
      BY <1>4
    <2>2. PICK r \in Restored(FinishCheck(e)) :
            IF none THEN controller' = Succeed(r)
            ELSE \E f \in Failures : controller' = Fail(r, f)
      BY <2>1
    <2>3. Almost(r) /\ Same(c, r) /\ ~r.inFlight
      BY <1>2
    <2>4. Sane(controller') /\ Same(c, controller') /\ ~controller'.inFlight
      <3>1. CASE none
        BY <2>2, <2>3, <3>1, SucceedSane DEF Alike, Same
      <3>2. CASE ~none
        <4>1. PICK f \in Failures : controller' = Fail(r, f)
          BY <2>2, <3>2
        <4> QED
          BY <2>3, <4>1, FailSane DEF Alike, Same
      <3> QED
        BY <3>1, <3>2
    <2> QED
      BY <1>4, <2>4 DEF Faithful, Same, Alone
  <1> HIDE DEF asked, chosen
  <1> QED
    BY <1>3, <1>4 DEF FallBack, asked, chosen
------------------------------------------------------------------------------
(* The handlers.                                                           *)

LEMMA KeptStays ==
  ASSUME Kept, Same(controller, controller'),
         UNCHANGED <<version, receipt, installer, owed>>
  PROVE  Kept'
  BY DEF Kept, Same

LEMMA HandlerKeeps ==
  ASSUME IInv, Sane(controller'), Same(controller, controller'),
         ops' \in Operations, Faithful(controller', ops', late),
         UNCHANGED <<disk, owed, proved, late>>,
         \/ SameFeed(controller, controller') /\ UNCHANGED stranded
         \/ Strand
  PROVE  IInv'
  <1>1. Kept'
    BY KeptStays DEF IInv, disk
  <1>2. stranded' \in BOOLEAN /\ (stranded => stranded')
        /\ Agreed(controller', stranded')
    BY DEF IInv, TypeOK, Strand, SameFeed, Agreed
  <1>3. TypeOK'
    BY <1>2 DEF IInv, TypeOK, Sane, Almost, Loose, disk
  <1> QED
    BY <1>1, <1>2, <1>3 DEF IInv, ConfirmedByCurrent, disk

(* An event of the engine finds the controller listening and, once it has  *)
(* finished the check, the engine without another operation.               *)
LEMMA EventFinishes ==
  ASSUME IInv, NEW i \in Busy(ops)
  PROVE  LET c == FinishCheck(controller)
         IN  /\ Almost(c) /\ Same(controller, c)
             /\ c.listening /\ ~c.inFlight /\ SameFeed(controller, c)
             /\ Ended(i) \in Operations
             /\ ~late => Busy(Ended(i)) = {}
  <1>1. Almost(controller) /\ ops \in Operations
    BY DEF IInv, Sane, TypeOK
  <1>2. controller.listening
    BY DEF IInv, Faithful
  <1>3. /\ Almost(FinishCheck(controller))
        /\ Same(controller, FinishCheck(controller))
        /\ ~FinishCheck(controller).inFlight
        /\ SameFeed(controller, FinishCheck(controller))
    BY <1>1, FinishCheckAlmost
  <1>4. ~late => Alone(ops)
    BY DEF IInv, Faithful
  <1>5. Ended(i) \in Operations /\ (~late => Busy(Ended(i)) = {})
    BY <1>1, <1>4, EndedQuiet
  <1> QED
    BY <1>2, <1>3, <1>5 DEF Same

LEMMA NotAvailableKeeps ==
  ASSUME IInv, NEW i \in Slots, NotAvailable(i)
  PROVE  IInv'
  <1> DEFINE c == FinishCheck(controller)
  <1>1. i \in Busy(ops) /\ UNCHANGED <<disk, owed, proved, late>> /\ Strand
    BY DEF NotAvailable, Busy, Quiet
  <1>2. /\ Almost(c) /\ Same(controller, c)
        /\ c.listening /\ ~c.inFlight /\ SameFeed(controller, c)
        /\ Ended(i) \in Operations
        /\ ~late => Busy(Ended(i)) = {}
    BY <1>1, EventFinishes
  <1>3. CASE MayFallBack(controller)
    <2>1. FallBack(c, Ended(i), TRUE)
      BY <1>3 DEF NotAvailable
    <2>2. /\ Sane(controller') /\ Same(c, controller')
          /\ ops' \in Operations /\ Faithful(controller', ops', late)
      <3> HIDE DEF c
      <3> QED
        BY <2>1, <1>2, FallBackKeeps
    <2> QED
      BY <1>1, <1>2, <2>2, HandlerKeeps DEF Same
  <1>4. CASE ~MayFallBack(controller)
    <2>1. /\ \E r \in RestoreCurrentFeed(c) : controller' = Succeed(r)
          /\ ops' = Ended(i)
      BY <1>4 DEF NotAvailable
    <2>2. /\ Sane(controller') /\ Same(c, controller')
          /\ ~controller'.inFlight
      <3> HIDE DEF c
      <3>1. PICK r \in RestoreCurrentFeed(c) : controller' = Succeed(r)
        BY <2>1
      <3>2. Almost(r) /\ Same(c, r) /\ ~r.inFlight
        BY <1>2, RestoreAlmost
      <3> QED
        BY <3>1, <3>2, SucceedSane DEF Alike, Same
    <2>3. Faithful(controller', ops', late)
      BY <1>2, <2>1, <2>2 DEF Faithful, Same, Alone
    <2> QED
      BY <1>1, <1>2, <2>1, <2>2, <2>3, HandlerKeeps DEF Same
  <1> QED
    BY <1>3, <1>4

LEMMA EngineErrorKeeps ==
  ASSUME IInv, NEW i \in Slots, EngineError(i)
  PROVE  IInv'
  <1> DEFINE c == FinishCheck(controller)
  <1>1. i \in Busy(ops) /\ UNCHANGED <<disk, owed, proved, late>> /\ Strand
    BY DEF EngineError, Busy
  <1>2. /\ Almost(c) /\ Same(controller, c)
        /\ c.listening /\ ~c.inFlight /\ SameFeed(controller, c)
        /\ Ended(i) \in Operations
        /\ ~late => Busy(Ended(i)) = {}
    BY <1>1, EventFinishes
  <1>3. CASE MayFallBack(controller)
    <2>1. FallBack(c, Ended(i), FALSE)
      BY <1>3 DEF EngineError
    <2>2. /\ Sane(controller') /\ Same(c, controller')
          /\ ops' \in Operations /\ Faithful(controller', ops', late)
      <3> HIDE DEF c
      <3> QED
        BY <2>1, <1>2, FallBackKeeps
    <2> QED
      BY <1>1, <1>2, <2>2, HandlerKeeps DEF Same
  <1>4. CASE ~MayFallBack(controller)
    <2>1. /\ \E r \in RestoreCurrentFeed(c) :
               IF controller.hadNone THEN controller' = Succeed(r)
               ELSE \E f \in Failures : controller' = Fail(r, f)
          /\ ops' = Ended(i)
      BY <1>4 DEF EngineError
    <2>2. PICK r \in RestoreCurrentFeed(c) :
            \/ controller' = Succeed(r)
            \/ \E f \in Failures : controller' = Fail(r, f)
      BY <2>1
    <2>3. /\ Sane(controller') /\ Same(c, controller')
          /\ ~controller'.inFlight
      <3> HIDE DEF c
      <3>1. Almost(r) /\ Same(c, r) /\ ~r.inFlight
        BY <1>2, RestoreAlmost
      <3> QED
        BY <2>2, <3>1, SucceedSane, FailSane DEF Alike, Same
    <2>4. Faithful(controller', ops', late)
      BY <1>2, <2>1, <2>3 DEF Faithful, Same, Alone
    <2> QED
      BY <1>1, <1>2, <2>1, <2>3, <2>4, HandlerKeeps DEF Same
  <1> QED
    BY <1>3, <1>4

LEMMA DownloadedKeeps ==
  ASSUME IInv, NEW i \in Slots, NEW v \in Versions \cup {0}, Downloaded(i, v)
  PROVE  IInv'
  <1> DEFINE c == FinishCheck(controller)
             d == [c EXCEPT !.confirmed = @ \/ controller.feed = "current"]
  <1>1. /\ i \in Busy(ops) /\ ops' = Ended(i)
        /\ UNCHANGED <<version, receipt, installer, owed, late, stranded>>
    BY DEF Downloaded, Busy, Quiet
  <1>2. /\ Almost(c) /\ Same(controller, c)
        /\ c.listening /\ ~c.inFlight /\ SameFeed(controller, c)
        /\ Ended(i) \in Operations
        /\ ~late => Busy(Ended(i)) = {}
    BY <1>1, EventFinishes
  <1>3. Almost(d) /\ Same(c, d) /\ ~d.inFlight /\ SameFeed(c, d)
    <2> HIDE DEF c
    <2> QED
      BY <1>2 DEF Almost, Loose, Same, SameFeed, Controllers, Ready
  <1>4. /\ Sane(controller') /\ Same(c, controller') /\ ~controller'.inFlight
        /\ SameFeed(c, controller')
    <2>1. CASE v <= version
      <3>1. controller' = Fail(c, "final") /\ "final" \in Failures
        BY <2>1 DEF Downloaded, Failures
      <3> HIDE DEF c
      <3> QED
        BY <3>1, <1>2, FailSane DEF Alike, Same, SameFeed
    <2>2. CASE ~(v <= version)
      <3>1. controller' = Staged(d, v)
        BY <2>2 DEF Downloaded
      <3>2. v \in Versions
        BY <2>2, UpdateAssumption DEF IInv, TypeOK
      <3> HIDE DEF c, d
      <3> QED
        BY <3>1, <3>2, <1>3, StagedSane DEF Alike, Same, SameFeed
    <2> QED
      BY <2>1, <2>2
  <1>5. Faithful(controller', ops', late)
    BY <1>1, <1>2, <1>4 DEF Faithful, Same, Alone
  <1>6. Kept'
    BY <1>1, <1>2, <1>4, KeptStays DEF IInv, Same
  <1>7. ConfirmedByCurrent' /\ {handoff', proved'} \subseteq BOOLEAN
    <2>1. ~late /\ ~stranded => ops[i].feed = controller.feed
      BY <1>1 DEF IInv, Faithful, Agreed
    <2>2. CASE UNCHANGED <<handoff, proved>>
      BY <1>1, <2>2 DEF IInv, ConfirmedByCurrent, TypeOK
    <2>3. CASE ConfirmCurrent(controller)
               /\ proved' = (proved \/ ops[i].feed = "current")
      BY <1>1, <2>1, <2>3
         DEF IInv, ConfirmedByCurrent, TypeOK, ConfirmCurrent
    <2> QED
      BY <2>2, <2>3 DEF Downloaded
  <1>8. TypeOK'
    BY <1>1, <1>2, <1>4, <1>7 DEF IInv, TypeOK, Sane, Almost, Loose
  <1>9. Agreed(controller', stranded')
    BY <1>1, <1>2, <1>4 DEF IInv, Agreed, SameFeed
  <1> QED
    BY <1>1, <1>4, <1>5, <1>6, <1>7, <1>8, <1>9 DEF IInv

LEMMA EngineStepKeeps ==
  ASSUME IInv, EngineStep
  PROVE  IInv'
  <1> USE DEF IInv
  <1>0. Almost(controller) /\ ops \in Operations /\ controller.engine \in Feeds
    BY DEF Sane, TypeOK, Almost, Loose, Controllers
  <1>1. CASE EngineBegins
    <2>1. /\ controller' = BeginCheck(controller)
          /\ Ask(ops, controller.engine)
          /\ Busy(ops) = {} /\ UNCHANGED <<disk, history>>
          /\ controller.listening
      BY <1>1 DEF EngineBegins
    <2>2. /\ Sane(controller') /\ Same(controller, controller')
          /\ controller'.inFlight /\ SameFeed(controller, controller')
      BY <1>0, <2>1, BeginCheckSane
    <2>3. /\ ops' \in Operations /\ Alone(ops') /\ Busy(ops') # {}
          /\ \A i \in Busy(ops') : ops'[i].feed = controller.engine
      BY <1>0, <2>1, AskBegins
    <2>4. Faithful(controller', ops', late)
      BY <2>1, <2>2, <2>3 DEF Faithful, Same, SameFeed
    <2> QED
      BY <2>1, <2>2, <2>3, <2>4, HandlerKeeps DEF history
  <1>2. ASSUME NEW i \in Slots, Available(i)
        PROVE  IInv'
    <2>1. /\ controller' = Downloading(BeginCheck(controller))
          /\ ops' = [ops EXCEPT ![i].phase = "fetching"]
          /\ i \in Busy(ops) /\ UNCHANGED <<disk, history>>
      BY <1>2 DEF Available, Busy, Quiet
    <2>2. /\ Sane(controller') /\ Same(controller, controller')
          /\ controller'.inFlight /\ SameFeed(controller, controller')
      BY <1>0, <2>1, BeginCheckSane, DownloadingSane
         DEF Alike, Sane, Same, SameFeed
    <2>3. ops' \in Operations
      BY <1>0, <2>1 DEF Operations
    <2>4. /\ Busy(ops') = Busy(ops)
          /\ \A j \in Busy(ops) : ops'[j].feed = ops[j].feed
      BY <1>0, <2>1 DEF Operations, Busy, Quiet
    <2>5. controller.listening
      BY <2>1 DEF Faithful
    <2>6. Faithful(controller', ops', late)
      BY <2>1, <2>2, <2>4, <2>5 DEF Faithful, Same, SameFeed, Alone
    <2> QED
      BY <2>1, <2>2, <2>3, <2>6, HandlerKeeps DEF history
  <1>3. ASSUME NEW i \in Slots, DownloadProgress(i)
        PROVE  IInv'
    <2>1. /\ controller' = [controller EXCEPT !.deadline = TRUE]
          /\ ops' = ops /\ UNCHANGED <<disk, history>>
      BY <1>3 DEF DownloadProgress
    <2>2. /\ Sane(controller') /\ Same(controller, controller')
          /\ controller'.inFlight = controller.inFlight
          /\ SameFeed(controller, controller')
      BY <1>0, <2>1
         DEF Sane, Same, SameFeed, Almost, Loose, Controllers, Checks, Ready
    <2>3. Faithful(controller', ops', late)
      BY <2>1, <2>2 DEF Faithful, Same, SameFeed, Alone
    <2> QED
      BY <1>0, <2>1, <2>2, <2>3, HandlerKeeps DEF history
  <1> QED
    BY <1>1, <1>2, <1>3, NotAvailableKeeps, EngineErrorKeeps, DownloadedKeeps
       DEF EngineStep

LEMMA DeadlineKeeps ==
  ASSUME IInv, DeadlinePasses
  PROVE  IInv'
  <1>1. /\ UNCHANGED <<disk, ops, owed, proved, stranded>>
        /\ late' = (late \/ Busy(ops) # {})
    BY DEF DeadlinePasses
  <1>2. Almost(controller) /\ Sane(controller) /\ "retryable" \in Failures
    BY DEF IInv, Sane, Failures
  <1>3. /\ Sane(controller') /\ Same(controller, controller')
        /\ ~controller'.inFlight /\ SameFeed(controller, controller')
    <2>1. CASE controller.inFlight
      <3>1. controller' = Fail(FinishCheck(controller), "retryable")
        BY <2>1 DEF DeadlinePasses
      <3> QED
        BY <1>2, <3>1, FinishCheckAlmost, FailSane DEF Alike, Same, SameFeed
    <2>2. CASE ~controller.inFlight
      <3>1. controller' = FinishCheck(controller)
        BY <2>2 DEF DeadlinePasses
      <3>2. Checks(controller') => controller'.timer
        BY <1>2, <2>2, <3>1
           DEF Sane, Almost, Loose, Controllers, Checks, FinishCheck, Ready
      <3> QED
        BY <1>2, <3>1, <3>2, FinishCheckAlmost DEF Sane
    <2> QED
      BY <2>1, <2>2
  <1>4. Faithful(controller', ops', late')
    BY <1>1, <1>3 DEF IInv, Faithful, Same, SameFeed, Alone
  <1>5. Kept'
    BY <1>1, <1>3, KeptStays DEF IInv, disk
  <1>6. TypeOK'
    BY <1>1, <1>3 DEF IInv, TypeOK, Sane, Almost, Loose, disk
  <1>7. Agreed(controller', stranded')
    BY <1>1, <1>3 DEF IInv, Agreed, SameFeed
  <1> QED
    BY <1>1, <1>3, <1>4, <1>5, <1>6, <1>7
       DEF IInv, ConfirmedByCurrent, disk
------------------------------------------------------------------------------
(* The process.                                                            *)

LEMMA OffSane == Sane(Off) /\ ~Off.up /\ ~Off.listening /\ ~Off.inFlight
  BY DEF Off, Sane, Almost, Loose, Controllers, Outcomes, Failures, Feeds,
         Checks, Ready

LEMMA AllQuietIdle == AllQuiet \in Operations /\ Busy(AllQuiet) = {}
  BY DEF AllQuiet, Operations, Quiet, Feeds, Busy

LEMMA ExitKeeps ==
  ASSUME IInv, Exit
  PROVE  IInv'
  <1>1. /\ controller' = Off /\ ops' = AllQuiet
        /\ UNCHANGED <<disk, history>>
    BY DEF Exit
  <1>2. Faithful(controller', ops', late')
    BY <1>1, OffSane, AllQuietIdle DEF Faithful, Alone
  <1>3. ~Off.greeted
    BY DEF Off
  <1>4. Kept'
    BY <1>1, <1>3, OffSane DEF IInv, Kept, disk, history
  <1>5. TypeOK'
    BY <1>1, OffSane, AllQuietIdle
       DEF IInv, TypeOK, Sane, Almost, Loose, disk, history
  <1>6. Agreed(controller', stranded')
    BY <1>1 DEF Off, Agreed
  <1> QED
    BY <1>1, <1>2, <1>4, <1>5, <1>6, OffSane
       DEF IInv, ConfirmedByCurrent, disk, history

(* A receipt that does not name the version that starts is a failure.      *)
LEMMA LaunchKeeps ==
  ASSUME IInv, NEW v \in Versions, Launch(v)
  PROVE  IInv'
  <1>1. PICK prior \in PriorFailures(v), bridge \in BOOLEAN,
             confirmed \in {handoff, FALSE} :
          LET c == [Off EXCEPT !.up = TRUE, !.awaiting = receipt # None,
                               !.pinned = prior, !.failure = prior,
                               !.status = IF prior = "none" THEN @
                                          ELSE "failed",
                               !.bridge = bridge,
                               !.confirmed = confirmed \/ ~bridge]
          IN  \/ controller' = [c EXCEPT !.listening = TRUE, !.timer = TRUE]
              \/ \E f \in Failures :
                   controller' = Pin([c EXCEPT !.status = "failed",
                                               !.failure = f])
    BY DEF Launch
  <1>2. /\ ~controller.up /\ version' = v /\ installer' = 0
        /\ owed' = [owed EXCEPT !.reported = TRUE]
        /\ UNCHANGED <<receipt, handoff, ops, proved, late, stranded>>
    BY DEF Launch
  <1>3. /\ prior \in Outcomes
        /\ receipt # None /\ v # receipt.to => prior # "none"
    BY DEF PriorFailures, Outcomes, Failures
  <1> DEFINE settled == confirmed \/ ~bridge
  <1>4. settled \in BOOLEAN
    OBVIOUS
  <1> DEFINE c == [Off EXCEPT !.up = TRUE, !.awaiting = receipt # None,
                              !.pinned = prior, !.failure = prior,
                              !.status = IF prior = "none" THEN @
                                         ELSE "failed",
                              !.bridge = bridge,
                              !.confirmed = settled]
  <1> HIDE DEF settled
  <1>5. /\ Almost(c) /\ c.up /\ ~c.greeted /\ c.pinned = prior
        /\ ~c.listening /\ ~c.inFlight /\ ~c.scheduleReady
        /\ c.status # "ready" /\ c.feed = c.engine
    <2> DEFINE b == [Off EXCEPT !.up = TRUE, !.awaiting = receipt # None,
                                !.pinned = prior, !.failure = prior,
                                !.status = IF prior = "none" THEN @
                                           ELSE "failed"]
    <2>0. b \in Controllers
      BY <1>3 DEF Off, Controllers, Outcomes, Failures, Feeds
    <2>1. c \in Controllers
      <3>1. c = [b EXCEPT !.bridge = bridge, !.confirmed = settled]
        BY DEF Off
      <3> HIDE DEF b, c
      <3> QED
        BY <2>0, <3>1, <1>4 DEF Controllers
    <2>2. /\ c.up /\ ~c.greeted /\ c.pinned = prior /\ c.failure = prior
          /\ ~c.listening /\ ~c.inFlight /\ ~c.scheduleReady
          /\ c.status # "ready" /\ c.feed = c.engine
      BY DEF Off
    <2> HIDE DEF c
    <2> QED
      BY <2>1, <2>2 DEF Almost, Loose, Ready
  <1>6. /\ Sane(controller') /\ controller'.up /\ ~controller'.greeted
        /\ controller'.pinned = prior /\ ~controller'.inFlight
        /\ controller'.feed = controller'.engine
    <2>1. CASE controller' = [c EXCEPT !.listening = TRUE, !.timer = TRUE]
      <3> HIDE DEF c
      <3> QED
        BY <1>5, <2>1 DEF Sane, Almost, Loose, Controllers, Checks, Ready
    <2>2. ASSUME NEW f \in Failures,
                 controller' = Pin([c EXCEPT !.status = "failed",
                                             !.failure = f])
          PROVE  /\ Sane(controller') /\ controller'.up
                 /\ ~controller'.greeted
                 /\ controller'.pinned = prior /\ ~controller'.inFlight
                 /\ controller'.feed = controller'.engine
      <3> HIDE DEF c
      <3> QED
        BY <1>5, <2>2
           DEF Sane, Almost, Loose, Controllers, Checks, Ready, Pin, Outcomes
    <2>3. \/ controller' = [c EXCEPT !.listening = TRUE, !.timer = TRUE]
          \/ \E f \in Failures :
               controller' = Pin([c EXCEPT !.status = "failed", !.failure = f])
      BY <1>1 DEF settled
    <2> HIDE DEF c
    <2> QED
      BY <2>1, <2>2, <2>3
  <1>7. Busy(ops) = {}
    BY <1>2 DEF IInv, Sane, Almost, Loose, Faithful
  <1>8. Faithful(controller', ops', late')
    BY <1>2, <1>6, <1>7 DEF Faithful, Alone
  <1>9. Kept'
    BY <1>2, <1>3, <1>6 DEF IInv, Kept, TypeOK
  <1>10. TypeOK'
    BY <1>2, <1>6 DEF IInv, TypeOK, Sane, Almost, Loose
  <1> QED
    BY <1>2, <1>6, <1>8, <1>9, <1>10 DEF IInv, ConfirmedByCurrent, Agreed

LEMMA AcknowledgeKeeps ==
  ASSUME IInv, Acknowledge
  PROVE  IInv'
  <1>1. UNCHANGED <<version, handoff, installer, ops, proved, late, stranded>>
    BY DEF Acknowledge
  <1>2. /\ controller' \in {[controller EXCEPT !.greeted = TRUE],
                            [controller EXCEPT !.greeted = TRUE,
                                !.awaiting = FALSE, !.pinned = "none"]}
        /\ receipt' \in {None, receipt}
    BY DEF Acknowledge
  <1>3. owed' = IF owed.reported \/ receipt' # receipt
                THEN [request |-> None, reported |-> FALSE] ELSE owed
    BY DEF Acknowledge
  <1>4. None \in Requests
    BY DEF None, Requests
  <1>5. /\ Sane(controller') /\ controller'.listening = controller.listening
        /\ controller'.inFlight = controller.inFlight
        /\ SameFeed(controller, controller')
    <2>1. Sane(controller)
      BY DEF IInv
    <2>2. CASE controller' = [controller EXCEPT !.greeted = TRUE]
      BY <2>1, <2>2
         DEF Sane, SameFeed, Almost, Loose, Controllers, Checks, Ready
    <2>3. CASE controller' = [controller EXCEPT !.greeted = TRUE,
                                !.awaiting = FALSE, !.pinned = "none"]
      BY <2>1, <2>3
         DEF Sane, SameFeed, Almost, Loose, Controllers, Outcomes, Checks,
             Ready
    <2> QED
      BY <1>2, <2>2, <2>3
  <1>6. Faithful(controller', ops', late')
    BY <1>1, <1>5 DEF IInv, Faithful, SameFeed, Alone
  <1>7. Kept'
    BY <1>1, <1>2, <1>3 DEF IInv, Kept, TypeOK
  <1>8. TypeOK'
    BY <1>1, <1>2, <1>3, <1>4, <1>5 DEF IInv, TypeOK, Sane, Almost, Loose
  <1> QED
    BY <1>1, <1>5, <1>6, <1>7, <1>8
       DEF IInv, ConfirmedByCurrent, Agreed, SameFeed

(* The button is only there once the window has acknowledged what came     *)
(* before, so a request that is still owed is one of this process.         *)
LEMMA RestartKeeps ==
  ASSUME IInv, Restart
  PROVE  IInv'
  <1> DEFINE request == [from |-> version, to |-> controller.staged]
  <1>1. /\ controller.greeted /\ Ready(controller)
        /\ UNCHANGED <<version, handoff, ops, proved, late, stranded>>
    BY DEF Restart
  <1>2. Almost(controller) /\ "retryable" \in Failures
    BY DEF IInv, Sane, Failures
  <1>3. /\ request \in Requests /\ controller.staged # 0
        /\ controller.staged \in Versions \cup {0}
    BY <1>1, <1>2 DEF IInv, TypeOK, Almost, Loose, Controllers, Requests
  <1>4. \/ \E f \in Failures : controller' = Fail(controller, f)
        \/ UNCHANGED controller
    BY <1>2 DEF Restart
  <1>5. /\ Sane(controller') /\ Same(controller, controller')
        /\ controller'.inFlight = controller.inFlight
        /\ SameFeed(controller, controller')
    BY <1>2, <1>4, FailSane DEF Alike, IInv, Same, SameFeed
  <1>6. Faithful(controller', ops', late')
    BY <1>1, <1>5 DEF IInv, Faithful, SameFeed, Alone, Same
  <1>7. Kept' /\ receipt' \in Requests /\ installer' \in Versions \cup {0}
        /\ owed' \in [request : Requests, reported : BOOLEAN]
    <2>1. CASE UNCHANGED <<receipt, installer, owed>>
      BY <1>1, <1>5, <2>1, KeptStays DEF IInv, TypeOK
    <2>2. CASE /\ receipt' = request
               /\ installer' = controller.staged
               /\ owed' = [request |-> request, reported |-> FALSE]
      BY <1>3, <2>2 DEF Kept
    <2>3. CASE /\ installer = 0
               /\ receipt' \in {None, request}
               /\ UNCHANGED <<installer, owed>>
      <3>1. owed.request = None
        BY <1>1, <2>3 DEF IInv, Kept, TypeOK
      <3>2. None \in Requests
        BY DEF None, Requests
      <3> QED
        BY <1>3, <2>3, <3>1, <3>2 DEF IInv, Kept, TypeOK
    <2> QED
      BY <2>1, <2>2, <2>3 DEF Restart
  <1>8. TypeOK'
    BY <1>1, <1>5, <1>7 DEF IInv, TypeOK, Sane, Almost, Loose
  <1> QED
    BY <1>1, <1>5, <1>6, <1>7, <1>8
       DEF IInv, ConfirmedByCurrent, Agreed, SameFeed

LEMMA CheckKeeps ==
  ASSUME IInv, CheckManually \/ TimerFires
  PROVE  IInv'
  <1> DEFINE stopped == [controller EXCEPT !.timer = FALSE]
  <1>1. /\ CheckBy(controller) \/ CheckBy(stopped)
        /\ UNCHANGED <<disk, history>>
    BY DEF CheckManually, TimerFires
  <1>2. /\ Almost(controller) /\ ops \in Operations
        /\ Faithful(controller, ops, late)
    BY DEF IInv, Sane, TypeOK
  <1>3. /\ Almost(stopped) /\ Same(controller, stopped)
        /\ Faithful(stopped, ops, late) /\ SameFeed(controller, stopped)
    <2>1. /\ Almost(stopped) /\ Same(controller, stopped)
          /\ SameFeed(controller, stopped)
          /\ stopped.inFlight = controller.inFlight
      BY <1>2 DEF Almost, Loose, Same, SameFeed, Controllers, Ready
    <2> HIDE DEF stopped
    <2> QED
      BY <1>2, <2>1 DEF Same, SameFeed, Faithful
  <1>4. /\ Sane(controller') /\ Same(controller, controller')
        /\ ops' \in Operations /\ Faithful(controller', ops', late)
        /\ SameFeed(controller, controller')
    <2> HIDE DEF stopped
    <2> QED
      BY <1>1, <1>2, <1>3, CheckByKeeps DEF Same, SameFeed
  <1> QED
    BY <1>1, <1>4, HandlerKeeps DEF history
------------------------------------------------------------------------------
LEMMA InitIInv == Init => IInv
  <1> SUFFICES ASSUME Init PROVE IInv
    OBVIOUS
  <1>1. Faithful(controller, ops, late)
    BY OffSane, AllQuietIdle DEF Init, Faithful, Alone
  <1>2. TypeOK
    BY OffSane, AllQuietIdle
       DEF Init, TypeOK, Sane, Almost, Loose, None, Requests
  <1>3. Agreed(controller, stranded)
    BY DEF Init, Off, Agreed
  <1> QED
    BY <1>1, <1>2, <1>3, OffSane DEF Init, IInv, Kept, ConfirmedByCurrent

LEMMA StepIInv == IInv /\ [Next]_vars => IInv'
  <1> SUFFICES ASSUME IInv, [Next]_vars PROVE IInv'
    OBVIOUS
  <1>1. CASE UNCHANGED vars
    BY <1>1 DEF vars, disk, history, IInv, TypeOK, Sane, Almost, Loose, Checks,
                Ready, Faithful, Alone, Busy, Agreed, Kept, ConfirmedByCurrent
  <1>2. ASSUME NEW v \in Versions, Launch(v) PROVE IInv'
    BY <1>2, LaunchKeeps
  <1>3. CASE Exit
    BY <1>3, ExitKeeps
  <1>4. CASE CheckManually \/ TimerFires
    BY <1>4, CheckKeeps
  <1>5. CASE DeadlinePasses
    BY <1>5, DeadlineKeeps
  <1>6. CASE Acknowledge
    BY <1>6, AcknowledgeKeeps
  <1>7. CASE Restart
    BY <1>7, RestartKeeps
  <1>8. CASE EngineStep
    BY <1>8, EngineStepKeeps
  <1> QED
    BY <1>1, <1>2, <1>3, <1>4, <1>5, <1>6, <1>7, <1>8 DEF Next

(* Every step of the controller keeps the invariant.                       *)
THEOREM Inductive == Spec => []IInv
  BY InitIInv, StepIInv, PTL DEF Spec
------------------------------------------------------------------------------
(* The controller's state and what is on disk keep their types.            *)
THEOREM TypeCorrect == Spec => []TypeOK
  <1>1. IInv => TypeOK
    BY DEF IInv
  <1> QED
    BY <1>1, Inductive, PTL

(* However a check ends, a next one is scheduled, or one is under way and  *)
(* the deadline is set: fail(), the fallback and every event of the engine *)
(* leave the controller so.                                                *)
THEOREM ChecksGoOn == Spec => []NeverWedged
  <1>1. IInv => NeverWedged
    BY DEF IInv, Sane, Almost, Loose, NeverWedged
  <1> QED
    BY <1>1, Inductive, PTL

(* Until the window has acknowledged the outcome of a requested install,   *)
(* its receipt is on disk, and an install that did not happen shows.       *)
THEOREM OutcomesAreKept == Spec => []OutcomeIsKept
  <1>1. IInv => OutcomeIsKept
    BY DEF IInv, Kept, OutcomeIsKept, Sane, Almost, Loose
  <1> QED
    BY <1>1, Inductive, PTL

(* As long as no deadline has given up on a busy engine, the engine does   *)
(* at most one thing at a time and the controller knows whether it does.   *)
THEOREM FlightIsTrue == Spec => []InFlightIsTrue
  <1>1. IInv => InFlightIsTrue
    <2> SUFFICES ASSUME IInv, controller.listening, ~late
                 PROVE  /\ Cardinality(Busy(ops)) <= 1
                        /\ controller.inFlight <=> Busy(ops) # {}
      BY DEF InFlightIsTrue
    <2>1. Alone(ops) /\ (controller.inFlight <=> Busy(ops) # {})
      BY DEF IInv, Faithful
    <2>2. CASE Busy(ops) = {}
      BY <2>1, <2>2, FS_EmptySet
    <2>3. CASE Busy(ops) # {}
      <3>1. PICK i \in Busy(ops) : Busy(ops) = {i}
        BY <2>1, <2>3 DEF Alone
      <3> QED
        BY <2>1, <3>1, FS_Singleton
    <2> QED
      BY <2>2, <2>3
  <1> QED
    BY <1>1, Inductive, PTL

(* Only a delivery of the current feed ends the use of the legacy feed, as *)
(* long as no answer comes after its deadline and the engine never refuses *)
(* to go back to the current feed.                                         *)
THEOREM OnlyCurrentConfirms == Spec => []ConfirmedByCurrent
  <1>1. IInv => ConfirmedByCurrent
    BY DEF IInv
  <1> QED
    BY <1>1, Inductive, PTL
=============================================================================
