-------------------------- MODULE RenderQueueProofs --------------------------
(***************************************************************************)
(* What holds of saving the render queue for every number of callers,      *)
(* changes, ticks and crashes: the types, that the queue file never goes   *)
(* back, and that a flush() that returned is covered.                      *)
(***************************************************************************)
EXTENDS RenderQueuePersistence, TLAPS

(* The file is never ahead of a save under way, nor a save of the queue.   *)
Order ==
  /\ file <= queue
  /\ queue <= latest
  /\ \A s \in saves : file <= s.version /\ s.version <= queue

(* A save that is past its rename has published or has reported.           *)
CleanCovered == \A s \in saves : s.next = "clean" => Covered(s.version)

(* Who waits for the saves is covered, or will be by a save under way or   *)
(* by the one that is requested.                                           *)
Awaited(v) ==
  \/ Covered(v)
  \/ requested /\ v <= queue
  \/ \E s \in saves : s.next # "clean" /\ v <= s.version

WaitersAwaited ==
  \A c \in Flushers : caller[c] = "draining" => Awaited(asked[c])

(* One signal: shutdown() is called by one caller only.                    *)
OneCloser == \A c, d \in Closers : c = d

ClosersAwaited ==
  OneCloser =>
    /\ closed => \E c \in Closers : caller[c] # "idle"
    /\ \A c \in Closers : caller[c] = "draining" => Awaited(asked[c])

ClosersCovered == OneCloser => ShutdownCovers

IInv == /\ TypeOK /\ Order /\ CleanCovered
        /\ WaitersAwaited /\ FlushCovers
        /\ ClosersAwaited /\ ClosersCovered

------------------------------------------------------------------------------
(* The state of the saver keeps its types: at most one save is under way,  *)
(* exactly when #saveInFlight says so.                                     *)
LEMMA InitInv == Init => IInv
<1> SUFFICES ASSUME Init PROVE IInv
  OBVIOUS
<1>1. SaverTypes
  <2>1. saves = {} /\ inFlight = FALSE /\ requested = FALSE
    BY DEF Init
  <2>2. inFlight <=> saves # {}
    BY <2>1
  <2> QED BY <2>1, <2>2 DEF SaverTypes
<1>2. caller \in [Callers -> {"idle", "draining", "returned"}]
  BY DEF Init
<1>3. TypeOK
  <2>1. 0 \in Versions
    BY PersistenceAssumption DEF Versions
  <2>2. asked \in [Callers -> Versions]
    BY <2>1 DEF Init
  <2>3. closed \in BOOLEAN
    BY DEF Init
  <2>4. ticks \in 0 .. MaxTicks /\ crashes \in 0 .. MaxCrashes
    BY PersistenceAssumption DEF Init
  <2> QED BY <1>1, <1>2, <2>1, <2>2, <2>3, <2>4 DEF Init, TypeOK
<1>4. Order /\ CleanCovered
  BY DEF Init, Order, CleanCovered
<1>5. WaitersAwaited /\ FlushCovers
  BY DEF Init, WaitersAwaited, FlushCovers, Callers
<1>6. ClosersAwaited /\ ClosersCovered
  BY DEF Init, ClosersAwaited, ClosersCovered, ShutdownCovers, Callers
<1> QED BY <1>3, <1>4, <1>5, <1>6 DEF IInv

LEMMA BeginSaveTypes ==
  ASSUME queue \in Versions, BeginSave({}) PROVE SaverTypes'
<1>1. inFlight' <=> saves' # {}
  BY DEF BeginSave
<1>2. saves' = {[version |-> queue, next |-> "stage"]}
  BY DEF BeginSave
<1>3. saves' \subseteq
        [version : Versions, next : {"stage", "publish", "clean"}]
  BY <1>2 DEF Versions
<1>4. \A s, t \in saves' : s = t
  BY <1>2
<1>5. inFlight' \in BOOLEAN /\ requested' \in BOOLEAN
  BY DEF BeginSave
<1> QED BY <1>1, <1>3, <1>4, <1>5 DEF SaverTypes, Versions

LEMMA RequestSaveTypes ==
  ASSUME queue \in Versions, SaverTypes, RequestSave PROVE SaverTypes'
<1>1. CASE inFlight
  <2>1. saves' = saves /\ inFlight' = inFlight /\ requested' = TRUE
    BY <1>1 DEF RequestSave
  <2>2. inFlight' <=> saves' # {}
    BY <2>1 DEF SaverTypes
  <2> QED BY <2>1, <2>2 DEF SaverTypes, Versions
<1>2. CASE ~inFlight
  <2>1. saves = {}
    BY <1>2 DEF SaverTypes
  <2> QED BY <1>2, <2>1, BeginSaveTypes DEF RequestSave
<1> QED BY <1>1, <1>2

LEMMA SaverStays ==
  ASSUME SaverTypes, UNCHANGED savers PROVE SaverTypes'
<1>1. inFlight' <=> saves' # {}
  BY DEF SaverTypes, savers
<1> QED BY <1>1 DEF SaverTypes, savers, Versions

LEMMA TypeStep == TypeOK /\ [Next]_vars => TypeOK'
<1> SUFFICES ASSUME TypeOK, [Next]_vars PROVE TypeOK'
  OBVIOUS
<1> USE DEF TypeOK
<1>1. CASE SaveStep
  <2> PICK s \in saves : Stage(s) \/ Publish(s) \/ FinishSave(s)
    BY <1>1 DEF SaveStep
  <2>1. s \in [version : Versions, next : {"stage", "publish", "clean"}]
    BY DEF SaverTypes
  <2>2. saves = {s}
    BY DEF SaverTypes
  <2>3. ASSUME NEW next \in {"stage", "publish", "clean"}, Advance(s, next),
               UNCHANGED <<inFlight, requested>>
        PROVE  SaverTypes'
    <3>1. saves' = {[s EXCEPT !.next = next]}
      BY <2>2, <2>3 DEF Advance
    <3>2. inFlight' <=> saves' # {}
      BY <2>2, <2>3, <3>1 DEF SaverTypes
    <3> QED BY <2>1, <2>3, <3>1, <3>2 DEF SaverTypes, Versions
  <2>4. CASE Stage(s)
    <3>1. SaverTypes'
      BY <2>3, <2>4 DEF Stage, Fail
    <3> QED BY <1>1, <2>1, <2>4, <3>1
            DEF SaveStep, Stage, Fail, world, callers, bounds, Versions
  <2>5. CASE Publish(s)
    <3>1. SaverTypes'
      BY <2>3, <2>5 DEF Publish, Fail
    <3> QED BY <1>1, <2>1, <2>5, <3>1
            DEF SaveStep, Publish, Fail, world, callers, bounds, Versions
  <2>6. CASE FinishSave(s)
    <3>1. CASE requested
      <4>1. BeginSave({})
        BY <2>2, <2>6, <3>1 DEF FinishSave
      <4>2. SaverTypes'
        BY <4>1, BeginSaveTypes
      <4> QED BY <1>1, <2>6, <4>2
              DEF SaveStep, FinishSave, world, callers, bounds, Versions
    <3>2. CASE ~requested
      <4>1. saves' = {} /\ inFlight' = FALSE /\ requested' = requested
        BY <2>2, <2>6, <3>2 DEF FinishSave
      <4>2. inFlight' <=> saves' # {}
        BY <4>1
      <4>3. SaverTypes'
        BY <4>1, <4>2 DEF SaverTypes
      <4> QED BY <1>1, <2>6, <4>3
              DEF SaveStep, FinishSave, world, callers, bounds, Versions
    <3> QED BY <3>1, <3>2
  <2> QED BY <2>4, <2>5, <2>6
<1>2. CASE Tick
  <2>1. SaverTypes'
    BY <1>2, RequestSaveTypes DEF Tick
  <2> QED BY <1>2, <2>1, PersistenceAssumption
          DEF Tick, world, callers, Versions
<1>3. CASE QueueChanges
  <2>1. SaverTypes'
    BY <1>3, SaverStays DEF QueueChanges
  <2> QED BY <1>3, <2>1, PersistenceAssumption
          DEF QueueChanges, callers, bounds, Versions
<1>4. CASE Restart
  <2>1. saves' = {} /\ inFlight' = FALSE /\ requested' = FALSE
    BY <1>4 DEF Restart
  <2>2. inFlight' <=> saves' # {}
    BY <2>1
  <2>3. SaverTypes'
    BY <2>1, <2>2 DEF SaverTypes
  <2>4. caller' \in [Callers -> {"idle", "draining", "returned"}]
    BY <1>4 DEF Restart
  <2>5. closed' \in BOOLEAN
    BY <1>4 DEF Restart
  <2> QED BY <1>4, <2>3, <2>4, <2>5, PersistenceAssumption
            DEF Restart, Versions
<1>5. ASSUME NEW c \in Flushers, Flush(c) PROVE TypeOK'
  <2>1. SaverTypes'
    BY <1>5, RequestSaveTypes, SaverStays DEF Flush, savers
  <2>2. caller' \in [Callers -> {"idle", "draining", "returned"}]
    BY <1>5 DEF Flush
  <2>3. asked' \in [Callers -> Versions]
    <3>1. 0 \in Versions
      BY PersistenceAssumption DEF Versions
    <3>2. CASE closed
      <4>1. asked' = [asked EXCEPT ![c] = 0]
        BY <1>5, <3>2 DEF Flush
      <4> QED BY <3>1, <4>1
    <3>3. CASE ~closed
      <4>1. asked' = [asked EXCEPT ![c] = queue]
        BY <1>5, <3>3 DEF Flush
      <4> QED BY <4>1
    <3> QED BY <3>2, <3>3
  <2> QED BY <1>5, <2>1, <2>2, <2>3 DEF Flush, world, bounds, Versions
<1>6. ASSUME NEW c \in Closers, Shutdown(c) PROVE TypeOK'
  <2>1. SaverTypes'
    BY <1>6, RequestSaveTypes, SaverStays DEF Shutdown, savers
  <2>2. caller' \in [Callers -> {"idle", "draining", "returned"}]
    BY <1>6 DEF Shutdown
  <2>3. asked' \in [Callers -> Versions]
    BY <1>6 DEF Shutdown
  <2>4. closed' = TRUE
    BY <1>6 DEF Shutdown
  <2> QED BY <1>6, <2>1, <2>2, <2>3, <2>4 DEF Shutdown, world, bounds, Versions
<1>7. ASSUME NEW c \in Callers, Return(c) PROVE TypeOK'
  <2>1. SaverTypes'
    BY <1>7, SaverStays DEF Return
  <2> QED BY <1>7, <2>1 DEF Return, world, bounds, Versions
<1>8. CASE UNCHANGED vars
  <2>1. SaverTypes'
    BY <1>8, SaverStays DEF vars
  <2> QED BY <1>8, <2>1 DEF vars, world, callers, bounds, Versions
<1> QED BY <1>1, <1>2, <1>3, <1>4, <1>5, <1>6, <1>7, <1>8 DEF Next
------------------------------------------------------------------------------
(* The file only goes forward, and stays behind the queue.                 *)
LEMMA OrderStep == TypeOK /\ Order /\ [Next]_vars => Order' /\ file' >= file
<1> SUFFICES ASSUME TypeOK, Order, [Next]_vars
             PROVE Order' /\ file' >= file
  OBVIOUS
<1>0. TypeOK'
  BY TypeStep
<1> USE PersistenceAssumption DEF TypeOK, SaverTypes, Order, Versions
<1>1. CASE SaveStep
  <2> PICK s \in saves : Stage(s) \/ Publish(s) \/ FinishSave(s)
    BY <1>1 DEF SaveStep
  <2>1. CASE Stage(s)
    BY <1>1, <2>1 DEF SaveStep, Stage, Fail, Advance, world
  <2>2. CASE Publish(s)
    BY <1>1, <2>2 DEF SaveStep, Publish, Fail, Advance, world
  <2>3. CASE FinishSave(s)
    BY <1>1, <2>3 DEF SaveStep, FinishSave, BeginSave, world
  <2> QED BY <2>1, <2>2, <2>3
<1>2. CASE Tick
  BY <1>2 DEF Tick, RequestSave, BeginSave, world
<1>3. CASE QueueChanges
  BY <1>3 DEF QueueChanges, savers
<1>4. CASE Restart
  BY <1>4 DEF Restart
<1>5. ASSUME NEW c \in Flushers, Flush(c) PROVE Order' /\ file' >= file
  BY <1>5 DEF Flush, RequestSave, BeginSave, world, savers
<1>6. ASSUME NEW c \in Closers, Shutdown(c) PROVE Order' /\ file' >= file
  BY <1>6 DEF Shutdown, RequestSave, BeginSave, world, savers
<1>7. ASSUME NEW c \in Callers, Return(c) PROVE Order' /\ file' >= file
  BY <1>7 DEF Return, world, savers
<1>8. CASE UNCHANGED vars
  BY <1>8 DEF vars, world, savers
<1> QED BY <1>1, <1>2, <1>3, <1>4, <1>5, <1>6, <1>7, <1>8 DEF Next

(* What is covered stays covered.                                          *)
LEMMA CoveredStays ==
  ASSUME TypeOK, Order, [Next]_vars, NEW v \in Versions, Covered(v)
  PROVE  Covered(v)'
<1>1. file' >= file /\ file \in Nat /\ file' \in Nat /\ v \in Nat
  BY OrderStep, TypeStep, PersistenceAssumption DEF TypeOK, Versions
<1>2. reported \subseteq reported'
  BY DEF Next, vars, SaveStep, Stage, Publish, FinishSave, Fail, Tick,
         QueueChanges, Restart, Flush, Shutdown, Return
<1> QED BY <1>1, <1>2 DEF Covered

(* The saves that are past their rename are covered: who publishes moves   *)
(* the file, who fails reports.                                            *)
LEMMA CleanStep ==
  TypeOK /\ Order /\ CleanCovered /\ [Next]_vars => CleanCovered'
<1> SUFFICES ASSUME TypeOK, Order, CleanCovered, [Next]_vars,
                    NEW s \in saves', s.next = "clean"
             PROVE  Covered(s.version)'
  BY DEF CleanCovered
<1>1. s.version \in Versions
  BY TypeStep DEF TypeOK, SaverTypes
<1>2. CASE s \in saves
  BY <1>1, <1>2, CoveredStays DEF CleanCovered
<1>3. CASE s \notin saves
  <2>1. ASSUME NEW others, others \subseteq saves, BeginSave(others)
        PROVE  FALSE
    <3>1. s = [version |-> queue, next |-> "stage"]
      BY <1>3, <2>1 DEF BeginSave
    <3> QED BY <3>1
  <2>2. ASSUME RequestSave PROVE FALSE
    BY <1>3, <2>1, <2>2 DEF RequestSave
  <2>3. CASE SaveStep
    <3> PICK t \in saves : Stage(t) \/ Publish(t) \/ FinishSave(t)
      BY <2>3 DEF SaveStep
    <3>1. t \in [version : Versions, next : {"stage", "publish", "clean"}]
      BY DEF TypeOK, SaverTypes
    <3>2. ASSUME NEW next \in {"publish", "clean"}, Advance(t, next)
          PROVE  s = [t EXCEPT !.next = next]
      BY <1>3, <3>2 DEF Advance
    <3>3. ASSUME Fail(t) PROVE Covered(s.version)'
      <4>1. s.version = t.version
        BY <3>1, <3>2, <3>3 DEF Fail
      <4>2. t.version \in reported' /\ t.version >= t.version
        BY <3>1, <3>3 DEF Fail, Versions
      <4> QED BY <4>1, <4>2 DEF Covered
    <3>4. CASE Stage(t)
      <4>1. CASE Fail(t)
        BY <3>3, <4>1
      <4>2. CASE Advance(t, "publish")
        <5>1. s.next = "publish"
          BY <3>1, <3>2, <4>2
        <5> QED BY <5>1
      <4> QED BY <3>4, <4>1, <4>2 DEF Stage
    <3>5. CASE Publish(t)
      <4>1. CASE Fail(t)
        BY <3>3, <4>1
      <4>2. CASE Advance(t, "clean") /\ file' = t.version
        <5>1. s.version = t.version
          BY <3>1, <3>2, <4>2
        <5>2. file' >= s.version
          BY <1>1, <4>2, <5>1 DEF Versions
        <5> QED BY <5>2 DEF Covered
      <4> QED BY <3>5, <4>1, <4>2 DEF Publish
    <3>6. CASE FinishSave(t)
      BY <1>3, <2>1, <3>6 DEF FinishSave
    <3> QED BY <3>4, <3>5, <3>6
  <2>4. CASE Tick
    BY <2>2, <2>4 DEF Tick
  <2>5. CASE QueueChanges
    BY <1>3, <2>5 DEF QueueChanges, savers
  <2>6. CASE Restart
    BY <2>6 DEF Restart
  <2>7. ASSUME NEW c \in Flushers, Flush(c) PROVE FALSE
    BY <1>3, <2>2, <2>7 DEF Flush, savers
  <2>8. ASSUME NEW c \in Closers, Shutdown(c) PROVE FALSE
    BY <1>3, <2>2, <2>8 DEF Shutdown, savers
  <2>9. ASSUME NEW c \in Callers, Return(c) PROVE FALSE
    BY <1>3, <2>9 DEF Return, savers
  <2>10. CASE UNCHANGED vars
    BY <1>3, <2>10 DEF vars, savers
  <2> QED BY <2>3, <2>4, <2>5, <2>6, <2>7, <2>8, <2>9, <2>10 DEF Next
<1> QED BY <1>2, <1>3

(* A request covers the queue as it is: by a new save, or by the one that  *)
(* is requested after the save under way.                                  *)
LEMMA RequestAwaits ==
  ASSUME TypeOK, queue' = queue, RequestSave
  PROVE  Awaited(queue)'
<1>1. queue \in Nat /\ queue <= queue
  BY DEF TypeOK, Versions
<1>2. CASE inFlight
  <2>1. requested' = TRUE
    BY <1>2 DEF RequestSave
  <2> QED BY <1>1, <2>1 DEF Awaited
<1>3. CASE ~inFlight
  <2> DEFINE s == [version |-> queue, next |-> "stage"]
  <2>1. s \in saves'
    BY <1>3 DEF RequestSave, BeginSave
  <2>2. s.next # "clean" /\ queue <= s.version
    BY <1>1
  <2> QED BY <2>1, <2>2 DEF Awaited
<1> QED BY <1>2, <1>3

(* What is awaited stays awaited until it is covered, short of a crash.    *)
LEMMA AwaitedStays ==
  ASSUME TypeOK, Order, CleanCovered, [Next]_vars, ~Restart,
         NEW v \in Versions, Awaited(v)
  PROVE  Awaited(v)'
<1> USE DEF Versions
<1>1. queue \in Nat /\ queue' \in Nat /\ v \in Nat /\ queue <= queue'
  <2>1. queue \in Versions /\ queue' \in Versions
    BY TypeStep DEF TypeOK
  <2>2. queue' = queue \/ queue' = latest + 1
    BY DEF Next, vars, world, SaveStep, Tick, QueueChanges, Flush, Shutdown,
           Return
  <2>3. latest \in Nat /\ queue <= latest
    BY DEF TypeOK, Order
  <2> QED BY <2>1, <2>2, <2>3
<1>2. CASE Covered(v)
  BY <1>2, CoveredStays DEF Awaited
<1>3. ASSUME NEW others, BeginSave(others), v <= queue
      PROVE  Awaited(v)'
  <2> DEFINE s == [version |-> queue, next |-> "stage"]
  <2>1. s \in saves' /\ s.next # "clean" /\ v <= s.version
    BY <1>3 DEF BeginSave
  <2> QED BY <2>1 DEF Awaited
<1>4. CASE requested /\ v <= queue
  <2>1. v <= queue'
    BY <1>1, <1>4
  <2>2. CASE requested'
    BY <2>1, <2>2 DEF Awaited
  <2>3. CASE ~requested'
    <3>1. \E others : BeginSave(others)
      BY <1>4, <2>3
      DEF Next, vars, savers, SaveStep, Stage, Publish, FinishSave, Tick,
          QueueChanges, Flush, Shutdown, Return, RequestSave
    <3> QED BY <1>3, <1>4, <3>1
  <2> QED BY <2>2, <2>3
<1>5. CASE \E s \in saves : s.next # "clean" /\ v <= s.version
  <2> PICK s \in saves : s.next # "clean" /\ v <= s.version
    BY <1>5
  <2>1. CASE s \in saves'
    BY <2>1 DEF Awaited
  <2>2. CASE s \notin saves'
    <3>1. saves = {s}
      BY DEF TypeOK, SaverTypes
    <3>2. s \in [version : Versions, next : {"stage", "publish", "clean"}]
      BY DEF TypeOK, SaverTypes
    <3>3. CASE SaveStep
      <4>1. Stage(s) \/ Publish(s)
        BY <3>1, <3>3 DEF SaveStep, FinishSave
      <4>2. PICK next \in {"publish", "clean"} : Advance(s, next)
        BY <4>1 DEF Stage, Publish, Fail
      <4> DEFINE t == [s EXCEPT !.next = next]
      <4>3. t \in saves' /\ t.version = s.version /\ t.next = next
        BY <3>2, <4>2 DEF Advance
      <4>4. CASE next = "publish"
        BY <4>3, <4>4 DEF Awaited
      <4>5. CASE next = "clean"
        <5>1. Covered(t.version)'
          BY CleanStep, <4>3, <4>5 DEF CleanCovered
        <5>2. reported' \subseteq Versions /\ file' \in Nat
          BY TypeStep DEF TypeOK
        <5>3. s.version \in Nat
          BY <3>2
        <5>4. Covered(v)'
          BY <1>1, <4>3, <5>1, <5>2, <5>3 DEF Covered
        <5> QED BY <5>4 DEF Awaited
      <4> QED BY <4>4, <4>5
    <3>4. ASSUME RequestSave PROVE FALSE
      BY <2>2, <3>1, <3>4 DEF RequestSave, TypeOK, SaverTypes
    <3>5. CASE ~SaveStep
      BY <2>2, <3>4, <3>5
      DEF Next, vars, savers, Tick, QueueChanges, Flush, Shutdown, Return
    <3> QED BY <3>3, <3>5
  <2> QED BY <2>1, <2>2
<1> QED BY <1>2, <1>4, <1>5 DEF Awaited
------------------------------------------------------------------------------
LEMMA WaitersStep ==
  TypeOK /\ Order /\ CleanCovered /\ WaitersAwaited /\ [Next]_vars
    => WaitersAwaited'
<1> SUFFICES ASSUME TypeOK, Order, CleanCovered, WaitersAwaited, [Next]_vars,
                    NEW c \in Flushers, caller'[c] = "draining",
                    NEW v, v = asked'[c]
             PROVE  Awaited(v)'
  BY DEF WaitersAwaited, Awaited, Covered
<1>1. ~Restart
  BY DEF Restart, Callers
<1>2. v \in Versions
  BY TypeStep DEF TypeOK, Callers
<1>3. CASE caller[c] = "draining" /\ asked[c] = v
  BY <1>1, <1>2, <1>3, AwaitedStays DEF WaitersAwaited
<1>4. CASE ~(caller[c] = "draining" /\ asked[c] = v)
  <2>1. Flush(c)
    BY <1>1, <1>4, PersistenceAssumption
    DEF Next, vars, callers, SaveStep, Tick, QueueChanges, Flush, Shutdown,
        Return, TypeOK, Callers
  <2>2. CASE closed
    <3>1. v = 0 /\ file' \in Nat
      BY <2>1, <2>2, TypeStep DEF Flush, TypeOK, Versions, Callers
    <3> QED BY <3>1 DEF Awaited, Covered
  <2>3. CASE ~closed
    <3>1. v = queue /\ queue' = queue /\ RequestSave
      BY <2>1, <2>3 DEF Flush, world, TypeOK, Callers
    <3>2. Awaited(queue)'
      BY <3>1, RequestAwaits
    <3> QED BY <3>1, <3>2 DEF Awaited, Covered
  <2> QED BY <2>2, <2>3
<1> QED BY <1>3, <1>4

(* Nothing is requested and nothing is under way when a flush returns.     *)
LEMMA FlushStep ==
  TypeOK /\ Order /\ WaitersAwaited /\ FlushCovers /\ [Next]_vars
    => FlushCovers'
<1> SUFFICES ASSUME TypeOK, Order, WaitersAwaited, FlushCovers, [Next]_vars,
                    NEW c \in Flushers, caller'[c] = "returned",
                    NEW v, v = asked'[c]
             PROVE  Covered(v)'
  BY DEF FlushCovers, Covered
<1>1. v \in Versions
  BY TypeStep DEF TypeOK, Callers
<1>2. CASE caller[c] = "returned" /\ asked[c] = v
  BY <1>1, <1>2, CoveredStays DEF FlushCovers
<1>3. CASE ~(caller[c] = "returned" /\ asked[c] = v)
  <2>1. Return(c)
    BY <1>3, PersistenceAssumption
    DEF Next, vars, callers, SaveStep, Tick, QueueChanges, Restart, Flush,
        Shutdown, Return, TypeOK, Callers
  <2>2. caller[c] = "draining" /\ asked[c] = v /\ ~requested /\ ~inFlight
    BY <2>1 DEF Return, Drained
  <2>3. saves = {}
    BY <2>2 DEF TypeOK, SaverTypes
  <2>4. Covered(v)
    BY <2>2, <2>3 DEF WaitersAwaited, Awaited
  <2> QED BY <1>1, <2>4, CoveredStays
<1> QED BY <1>2, <1>3
------------------------------------------------------------------------------
(* A shutdown that is not the first would return at once; with one caller  *)
(* whoever is closed has begun, so the one that begins drains.             *)
LEMMA ShutdownDrains ==
  ASSUME TypeOK, ClosersAwaited, OneCloser, NEW c \in Closers, Shutdown(c)
  PROVE  /\ caller' = [caller EXCEPT ![c] = "draining"]
         /\ asked' = [asked EXCEPT ![c] = queue]
         /\ queue' = queue /\ RequestSave
<1>1. caller[c] = "idle"
  BY DEF Shutdown
<1>2. ~closed
  BY <1>1 DEF ClosersAwaited, OneCloser
<1> QED BY <1>2 DEF Shutdown, world

LEMMA ClosersStep ==
  TypeOK /\ Order /\ CleanCovered /\ ClosersAwaited /\ [Next]_vars
    => ClosersAwaited'
<1> SUFFICES ASSUME TypeOK, Order, CleanCovered, ClosersAwaited, [Next]_vars,
                    OneCloser
             PROVE  /\ closed' => \E c \in Closers : caller'[c] # "idle"
                    /\ \A c \in Closers :
                         caller'[c] = "draining" => Awaited(asked[c])'
  BY DEF ClosersAwaited, OneCloser, Awaited, Covered
<1>1. ASSUME closed' PROVE \E c \in Closers : caller'[c] # "idle"
  <2>1. CASE \E c \in Closers : Shutdown(c)
    <3>1. PICK c \in Closers : Shutdown(c)
      BY <2>1
    <3> QED BY <3>1, ShutdownDrains DEF TypeOK, Callers
  <2>2. CASE ~\E c \in Closers : Shutdown(c)
    <3>1. closed' = closed
      BY <1>1, <2>2
      DEF Next, vars, SaveStep, Tick, QueueChanges, Restart, Flush, Return
    <3>2. PICK c \in Closers : caller[c] # "idle"
      BY <1>1, <3>1 DEF ClosersAwaited
    <3>3. caller'[c] # "idle"
      BY <1>1, <2>2, <3>2
      DEF Next, vars, callers, SaveStep, Tick, QueueChanges, Restart, Flush,
          Return, TypeOK, Callers
    <3> QED BY <3>3
  <2> QED BY <2>1, <2>2
<1>2. ASSUME NEW c \in Closers, caller'[c] = "draining",
             NEW v, v = asked'[c]
      PROVE  Awaited(v)'
  <2>1. ~Restart
    BY <1>2 DEF Restart, Callers
  <2>2. v \in Versions
    BY <1>2, TypeStep DEF TypeOK, Callers
  <2>3. CASE Shutdown(c)
    <3>1. v = queue /\ queue' = queue /\ RequestSave
      BY <1>2, <2>3, ShutdownDrains DEF TypeOK, Callers
    <3>2. Awaited(queue)'
      BY <3>1, RequestAwaits
    <3> QED BY <3>1, <3>2 DEF Awaited, Covered
  <2>4. CASE ~Shutdown(c)
    <3>1. caller[c] = "draining" /\ asked[c] = v
      BY <1>2, <2>1, <2>4, PersistenceAssumption
      DEF Next, vars, callers, SaveStep, Tick, QueueChanges, Flush, Shutdown,
          Return, TypeOK, Callers
    <3>2. Awaited(v)
      BY <3>1 DEF ClosersAwaited
    <3> QED BY <2>1, <2>2, <3>2, AwaitedStays
  <2> QED BY <2>3, <2>4
<1> QED BY <1>1, <1>2 DEF Awaited, Covered

LEMMA ShutdownStep ==
  /\ TypeOK /\ Order /\ CleanCovered
  /\ ClosersAwaited /\ ClosersCovered /\ [Next]_vars
  => ClosersCovered'
<1> SUFFICES ASSUME TypeOK, Order, ClosersAwaited, ClosersCovered,
                    [Next]_vars, OneCloser,
                    NEW c \in Closers, caller'[c] = "returned",
                    NEW v, v = asked'[c]
             PROVE  Covered(v)'
  BY DEF ClosersCovered, ShutdownCovers, Covered, OneCloser
<1>1. v \in Versions
  BY TypeStep DEF TypeOK, Callers
<1>2. CASE caller[c] = "returned" /\ asked[c] = v
  BY <1>1, <1>2, CoveredStays DEF ClosersCovered, ShutdownCovers
<1>3. CASE ~(caller[c] = "returned" /\ asked[c] = v)
  <2>1. ~Shutdown(c)
    BY ShutdownDrains DEF TypeOK, Callers
  <2>2. Return(c)
    BY <1>3, <2>1, PersistenceAssumption
    DEF Next, vars, callers, SaveStep, Tick, QueueChanges, Restart, Flush,
        Shutdown, Return, TypeOK, Callers
  <2>3. caller[c] = "draining" /\ asked[c] = v /\ ~requested /\ ~inFlight
    BY <2>2 DEF Return, Drained
  <2>4. saves = {}
    BY <2>3 DEF TypeOK, SaverTypes
  <2>5. Covered(v)
    BY <2>3, <2>4 DEF ClosersAwaited, Awaited
  <2> QED BY <1>1, <2>5, CoveredStays
<1> QED BY <1>2, <1>3
------------------------------------------------------------------------------
LEMMA InvStep == IInv /\ [Next]_vars => IInv'
  BY TypeStep, OrderStep, CleanStep, WaitersStep, FlushStep, ClosersStep,
     ShutdownStep DEF IInv

THEOREM Invariance == Spec => []IInv
<1>1. Init => IInv
  BY InitInv
<1>2. IInv /\ [Next]_vars => IInv'
  BY InvStep
<1> QED BY <1>1, <1>2, PTL DEF Spec

(* The saver's state is well formed: at most one #saveQueue is under way,  *)
(* exactly when #saveInFlight says so.                                     *)
THEOREM TypeCorrect == Spec => []TypeOK
<1>1. IInv => TypeOK
  BY DEF IInv
<1> QED BY <1>1, Invariance, PTL

(* "it never overlaps writes or publishes an older snapshot after a newer  *)
(* one": the queue file never goes back, whatever fails and crashes.       *)
THEOREM FileGoesForward == Spec => PublishedInOrder
<1>1. IInv /\ [Next]_vars => [file' >= file]_vars
  BY OrderStep DEF IInv
<1> QED BY <1>1, Invariance, PTL DEF Spec, PublishedInOrder

(* A flush() that returned has its queue in the file, or its failure, or   *)
(* that of a newer one, was reported.                                      *)
THEOREM FlushCorrect == Spec => []FlushCovers
<1>1. IInv => FlushCovers
  BY DEF IInv
<1> QED BY <1>1, Invariance, PTL

(* With one signal, a shutdown() that returned, after which the CLI exits, *)
(* has the last queue in the file, or its failure was reported.            *)
THEOREM ShutdownCorrect == Spec => [](OneCloser => ShutdownCovers)
<1>1. IInv => (OneCloser => ShutdownCovers)
  BY DEF IInv, ClosersCovered
<1> QED BY <1>1, Invariance, PTL
==============================================================================
