-------------------------- MODULE UpdateController --------------------------
(***************************************************************************)
(* How the application keeps itself current: the controller over the       *)
(* updater engine (app/src/main/update/controller.ts, state.ts,            *)
(* schedule.ts), the receipt of a requested install (installJournal.ts)    *)
(* and the proof that the current feed delivers (feedHandoff.ts), over     *)
(* launches, crashes and installs.                                         *)
(*                                                                         *)
(* Handlers are synchronous, so each is one action.  An operation of the   *)
(* engine is a check that may become a download; it remembers the feed it  *)
(* was asked with and may outlive the controller's deadline.               *)
(***************************************************************************)
EXTENDS Naturals, FiniteSets

CONSTANTS
  Versions,  \* versions that may run or be offered, larger is newer
  Slots      \* bound: operations the engine runs at a time

ASSUME UpdateAssumption == Versions \subseteq Nat \ {0}

VARIABLES
  version,    \* the installed version
  receipt,    \* the install journal on disk, None when there is no file
  handoff,    \* the record on disk that the current feed delivers
  installer,  \* the version the installer was asked to put in place, or 0
  controller, \* the UpdateController of the process, Off when none runs
  ops,        \* what the engine is busy with
  owed,       \* the install that was requested and not acknowledged since
  proved,     \* the current feed has delivered a newer version
  late,       \* a deadline has ended a check the engine was still busy with
  stranded    \* the engine was left with the legacy feed, unknown to feed

disk == <<version, receipt, handoff, installer>>
history == <<owed, proved, late, stranded>>
vars == <<disk, controller, ops, history>>

None == [from |-> 0, to |-> 0]
Failures == {"retryable", "final"}
Feeds == {"current", "legacy"}
Quiet == [phase |-> "quiet", feed |-> "current"]
AllQuiet == [i \in Slots |-> Quiet]

(* status, failure and staged are the part of UpdateState that decides     *)
(* anything; scheduleReady is schedule.ready, timer and deadline say that  *)
(* #timer and #checkTimer are set.  `listening` is false when the engine   *)
(* refused the feed at start; `greeted` is true once the window has taken  *)
(* its first state; `bridge` is false in a build without a legacy feed.    *)
(* feed is activeFeed, what the controller believes; engine is the feed    *)
(* the engine was last given.                                              *)
Off == [up |-> FALSE, listening |-> FALSE, greeted |-> FALSE,
        status |-> "idle", failure |-> "none", staged |-> 0,
        pinned |-> "none", awaiting |-> FALSE,
        inFlight |-> FALSE, timer |-> FALSE, deadline |-> FALSE,
        scheduleReady |-> FALSE,
        feed |-> "current", engine |-> "current", hadNone |-> FALSE,
        bridge |-> FALSE, confirmed |-> FALSE]

Requests == [from : Versions \cup {0}, to : Versions \cup {0}]

Outcomes == Failures \cup {"none"}

Controllers ==
  [up : BOOLEAN, listening : BOOLEAN, greeted : BOOLEAN,
   status : {"idle", "up-to-date", "downloading", "ready", "failed"},
   failure : Outcomes, staged : Versions \cup {0},
   pinned : Outcomes, awaiting : BOOLEAN,
   inFlight : BOOLEAN, timer : BOOLEAN, deadline : BOOLEAN,
   scheduleReady : BOOLEAN,
   feed : Feeds, engine : Feeds, hadNone : BOOLEAN,
   bridge : BOOLEAN, confirmed : BOOLEAN]

Operations == [Slots -> [phase : {"quiet", "asked", "fetching"}, feed : Feeds]]

TypeOK ==
  /\ version \in Versions
  /\ receipt \in Requests
  /\ handoff \in BOOLEAN
  /\ installer \in Versions \cup {0}
  /\ controller \in Controllers
  /\ ops \in Operations
  /\ owed \in [request : Requests, reported : BOOLEAN]
  /\ {proved, late, stranded} \subseteq BOOLEAN

Init ==
  /\ version \in Versions
  /\ receipt = None
  /\ handoff = FALSE
  /\ installer = 0
  /\ controller = Off
  /\ ops = AllQuiet
  /\ owed = [request |-> None, reported |-> FALSE]
  /\ proved = FALSE
  /\ late = FALSE
  /\ stranded = FALSE
------------------------------------------------------------------------------
(* What the private methods do to the controller, composed as they are     *)
(* called.  isReady() is the status alone: nothing is ready unstaged.      *)
Ready(c) == c.status = "ready"

BeginCheckUnbounded(c) == [c EXCEPT !.inFlight = TRUE]
BeginCheck(c) == [c EXCEPT !.inFlight = TRUE, !.deadline = TRUE]
FinishCheck(c) == [c EXCEPT !.inFlight = FALSE, !.deadline = FALSE]
Rearm(c) == [c EXCEPT !.timer = ~c.scheduleReady]

(* restoreCurrentFeed(), of a controller on the legacy feed: an engine     *)
(* that refuses keeps the feed it has, and nobody is told.                 *)
Restored(c) ==
  {[c EXCEPT !.feed = "current", !.hadNone = FALSE, !.engine = f] :
     f \in {"current", c.engine}}
RestoreCurrentFeed(c) == IF c.feed = "legacy" THEN Restored(c) ELSE {c}

(* apply(): while a prior install's failure is pinned, it is what shows.   *)
PinDropped(c) == c
Pin(c) == IF c.pinned = "none" THEN c ELSE [c EXCEPT !.failure = c.pinned]

FailWithoutTimer(c, f) ==
  Pin(IF Ready(c) THEN [c EXCEPT !.failure = f]
      ELSE [c EXCEPT !.status = "failed", !.failure = f])

Fail(c, f) ==
  Rearm(Pin(IF Ready(c) THEN [c EXCEPT !.failure = f]
            ELSE [c EXCEPT !.status = "failed", !.failure = f]))

(* scheduleAfterSuccess, then "up-to-date".                                *)
Succeed(c) ==
  Rearm(Pin(IF Ready(c) THEN [c EXCEPT !.scheduleReady = TRUE]
            ELSE [c EXCEPT !.scheduleReady = FALSE,
                           !.status = "up-to-date", !.failure = "none"]))

Downloading(c) ==
  Pin(IF Ready(c) THEN c
      ELSE [c EXCEPT !.status = "downloading", !.failure = "none"])

Staged(c, v) ==
  Rearm(Pin([c EXCEPT !.scheduleReady = TRUE, !.status = "ready",
                      !.failure = "none", !.staged = v]))

Busy(o) == {i \in Slots : o[i] # Quiet}

(* engine.checkForUpdates(): the engine begins an operation with the feed  *)
(* it has, or answers with the one under way.                              *)
Ask(o, f) ==
  \/ \E i \in Slots \ Busy(o) :
       ops' = [o EXCEPT ![i] = [phase |-> "asked", feed |-> f]]
  \/ Busy(o) # {} /\ ops' = o

(* check(): it does nothing for a failure that trying again cannot mend,   *)
(* during another check, and once an update is staged.                     *)
DeclinesWhenReady(c) == c.failure = "final" \/ Ready(c)
Declines(c) == c.failure = "final" \/ c.inFlight \/ Ready(c)

CheckBy(c) ==
  \/ Declines(c) /\ controller' = c /\ UNCHANGED ops
  \/ /\ ~Declines(c)
     /\ controller' = BeginCheck(c)
     /\ IF c.listening THEN Ask(ops, c.engine) ELSE UNCHANGED ops
  \/ /\ ~Declines(c)
     /\ \E f \in Failures : controller' = Fail(FinishCheck(c), f)
     /\ UNCHANGED ops

(* tryLegacyFallback(): the one attempt on the legacy feed.  The engine    *)
(* may refuse the feed, or the check once it has the feed.                 *)
MayFallBack(c) == c.feed = "current" /\ ~c.confirmed

FallBack(c, o, none) ==
  LET asked == [c EXCEPT !.feed = "legacy", !.hadNone = none]
      chosen == [asked EXCEPT !.engine = "legacy"]
  IN  \/ controller' = BeginCheck(chosen) /\ Ask(o, "legacy")
      \/ /\ \E e \in {asked, chosen} : \E r \in Restored(FinishCheck(e)) :
              IF none THEN controller' = Succeed(r)
              ELSE \E f \in Failures : controller' = Fail(r, f)
         /\ ops' = o

Strand == stranded' = (stranded \/ controller'.engine # controller'.feed)

(* The name of the downloaded release confirms the feed it is believed to  *)
(* come from; a failure to record that is ignored.                         *)
ConfirmAnyFeed(c) == handoff' \in {handoff, TRUE}
ConfirmCurrent(c) ==
  IF c.bridge /\ c.feed = "current"
  THEN handoff' \in {handoff, TRUE} ELSE UNCHANGED handoff
------------------------------------------------------------------------------
(* The process.                                                            *)

(* reconcile(): what became of the install the receipt asks about, in the  *)
(* version v that starts.  A receipt may turn out to be unreadable.        *)
PriorFailures(v) ==
  {CASE receipt = None \/ v = receipt.to -> "none"
     [] v = receipt.from                 -> "retryable"
     [] OTHER                            -> "final"}
  \cup {f \in {"final"} : receipt # None}

(* start(), of the version an installer has put in place or not, with a    *)
(* handoff record that may be unreadable and an engine that may refuse the *)
(* feed.  A build without a legacy feed has nothing to confirm.            *)
Launch(v) ==
  /\ ~controller.up
  /\ installer = 0 => v = version
  /\ version' = v
  /\ installer' = 0
  /\ \E prior \in PriorFailures(v), bridge \in BOOLEAN,
        confirmed \in {handoff, FALSE} :
       LET c == [Off EXCEPT !.up = TRUE, !.awaiting = receipt # None,
                            !.pinned = prior, !.failure = prior,
                            !.status = IF prior = "none" THEN @ ELSE "failed",
                            !.bridge = bridge,
                            !.confirmed = confirmed \/ ~bridge]
       IN  \/ controller' = [c EXCEPT !.listening = TRUE, !.timer = TRUE]
           \/ \E f \in Failures :
                controller' = Pin([c EXCEPT !.status = "failed", !.failure = f])
  /\ owed' = [owed EXCEPT !.reported = TRUE]
  /\ UNCHANGED <<receipt, handoff, ops, proved, late, stranded>>

(* The process ends, by itself or not; what is on disk stays.              *)
Exit ==
  /\ controller.up
  /\ controller' = Off
  /\ ops' = AllQuiet
  /\ UNCHANGED <<disk, history>>

CheckManually ==
  /\ controller.up
  /\ CheckBy(controller)
  /\ UNCHANGED <<disk, history>>

TimerFires ==
  /\ controller.timer
  /\ CheckBy([controller EXCEPT !.timer = FALSE])
  /\ UNCHANGED <<disk, history>>

DeadlinePasses ==
  /\ controller.deadline
  /\ controller' = IF controller.inFlight
                   THEN Fail(FinishCheck(controller), "retryable")
                   ELSE FinishCheck(controller)
  /\ late' = (late \/ Busy(ops) # {})
  /\ UNCHANGED <<disk, ops, owed, proved, stranded>>

(* acknowledgeInstallOutcome(): the window has the first state.  The       *)
(* receipt goes, unless it cannot be removed: then a later acknowledgement *)
(* takes it, or that of an install requested meanwhile.                    *)
Acknowledge ==
  /\ controller.up
  /\ \/ /\ controller.awaiting
        /\ receipt' = None
        /\ controller' = [controller EXCEPT !.greeted = TRUE,
                                !.awaiting = FALSE, !.pinned = "none"]
     \/ /\ controller' = [controller EXCEPT !.greeted = TRUE]
        /\ UNCHANGED receipt
  /\ owed' = IF owed.reported \/ receipt' # receipt
             THEN [request |-> None, reported |-> FALSE] ELSE owed
  /\ UNCHANGED <<version, handoff, installer, ops, proved, late, stranded>>

(* restart(), with nothing unsaved and nothing rendering: the receipt is   *)
(* on disk before the engine is asked to install.  The button is in the    *)
(* window that has acknowledged.  An engine that has accepted a request    *)
(* does not refuse it when the button is pressed again.                    *)
Restart ==
  LET request == [from |-> version, to |-> controller.staged]
  IN  /\ controller.greeted
      /\ Ready(controller)
      /\ \/ /\ controller' = Fail(controller, "retryable")
            /\ UNCHANGED <<receipt, installer, owed>>
         \/ /\ receipt' = request
            /\ installer' = controller.staged
            /\ owed' = [request |-> request, reported |-> FALSE]
            /\ UNCHANGED controller
         \/ /\ installer = 0
            /\ receipt' \in {None, request}
            /\ \E f \in Failures : controller' = Fail(controller, f)
            /\ UNCHANGED <<installer, owed>>
      /\ UNCHANGED <<version, handoff, ops, proved, late, stranded>>
------------------------------------------------------------------------------
(* The engine's events.                                                    *)

Ended(i) == [ops EXCEPT ![i] = Quiet]

(* "checking-for-update" of a check nobody asked for.                      *)
EngineBegins ==
  /\ controller.listening
  /\ Busy(ops) = {}
  /\ controller' = BeginCheck(controller)
  /\ Ask(ops, controller.engine)
  /\ UNCHANGED <<disk, history>>

NotAvailable(i) ==
  /\ ops[i].phase = "asked"
  /\ IF MayFallBack(controller)
     THEN FallBack(FinishCheck(controller), Ended(i), TRUE)
     ELSE /\ \E r \in RestoreCurrentFeed(FinishCheck(controller)) :
               controller' = Succeed(r)
          /\ ops' = Ended(i)
  /\ Strand
  /\ UNCHANGED <<disk, owed, proved, late>>

Available(i) ==
  /\ ops[i].phase = "asked"
  /\ ops' = [ops EXCEPT ![i].phase = "fetching"]
  /\ controller' = Downloading(BeginCheck(controller))
  /\ UNCHANGED <<disk, history>>

DownloadProgress(i) ==
  /\ ops[i].phase = "fetching"
  /\ controller' = [controller EXCEPT !.deadline = TRUE]
  /\ UNCHANGED <<disk, ops, history>>

(* A release that is not named exactly (0) or is not newer is refused.     *)
Downloaded(i, v) ==
  /\ ops[i].phase = "fetching"
  /\ ops' = Ended(i)
  /\ IF v <= version
     THEN /\ controller' = Fail(FinishCheck(controller), "final")
          /\ UNCHANGED <<handoff, proved>>
     ELSE /\ ConfirmCurrent(controller)
          /\ proved' = (proved \/ ops[i].feed = "current")
          /\ LET c == [FinishCheck(controller) EXCEPT
                         !.confirmed = @ \/ controller.feed = "current"]
             IN  controller' = Staged(c, v)
  /\ UNCHANGED <<version, receipt, installer, owed, late, stranded>>

(* "error": after a no-update answer of the current feed, the legacy feed's *)
(* failure counts for nothing.                                              *)
EngineError(i) ==
  /\ ops[i] # Quiet
  /\ IF MayFallBack(controller)
     THEN FallBack(FinishCheck(controller), Ended(i), FALSE)
     ELSE /\ \E r \in RestoreCurrentFeed(FinishCheck(controller)) :
               IF controller.hadNone THEN controller' = Succeed(r)
               ELSE \E f \in Failures : controller' = Fail(r, f)
          /\ ops' = Ended(i)
  /\ Strand
  /\ UNCHANGED <<disk, owed, proved, late>>

EngineStep ==
  \/ EngineBegins
  \/ \E i \in Slots :
       \/ NotAvailable(i) \/ Available(i) \/ DownloadProgress(i)
       \/ EngineError(i)
       \/ \E v \in Versions \cup {0} : Downloaded(i, v)

Next ==
  \/ \E v \in Versions : Launch(v)
  \/ Exit \/ CheckManually \/ TimerFires \/ DeadlinePasses
  \/ Acknowledge \/ Restart
  \/ EngineStep

Spec == Init /\ [][Next]_vars

(* Timers fire.  The engine need not answer, nobody need press anything.   *)
FairSpec == Spec /\ WF_vars(TimerFires) /\ WF_vars(DeadlinePasses)
------------------------------------------------------------------------------
(* Whether the controller will check again by itself.                      *)
Checks(c) == c.listening /\ ~Ready(c) /\ c.failure # "final"

(* However a check ends, fallback, late answers and refusals of the engine *)
(* included, a next one is scheduled or one is under way that the deadline *)
(* will end ("a silent engine cannot wedge checks", controller.ts).        *)
NeverWedged ==
  /\ controller.inFlight => controller.deadline
  /\ Checks(controller) => controller.timer \/ controller.inFlight

(* An install that was requested stays answerable: until the window has    *)
(* acknowledged its outcome in a later process, whatever crashed or failed *)
(* in between, the receipt is on disk and an install that did not happen   *)
(* is what the state shows (installJournal.ts, "consumes the record").     *)
OutcomeIsKept ==
  owed.request # None =>
    /\ receipt = owed.request
    /\ owed.reported /\ controller.up /\ version # owed.request.to
         => controller.failure # "none"

(* The controller's inFlight is the engine's: no check while one is under  *)
(* way, none believed under way that has ended, and never two at once,     *)
(* unless a deadline has given up on an engine that was still busy.        *)
InFlightIsTrue ==
  controller.listening /\ ~late =>
    /\ Cardinality(Busy(ops)) <= 1
    /\ controller.inFlight <=> Busy(ops) # {}

(* The record that ends the use of the legacy feed is only written once    *)
(* the current feed has delivered ("Once the current feed actually         *)
(* delivers an update", feedHandoff.ts), unless an answer came late or the *)
(* engine had refused to leave the legacy feed: no later check surfaces    *)
(* that refusal, and what the engine then delivers confirms the wrong one. *)
ConfirmedByCurrent == handoff => proved \/ late \/ stranded

(* A process that may check keeps asking the engine, which may refuse      *)
(* every time, and every check ends (schedule.ts: never "never").          *)
ChecksKeepComing ==
  <>[]Checks(controller) =>
    /\ []<>~controller.inFlight
    /\ []<>controller.inFlight \/ []<><<TimerFires>>_vars
=============================================================================
