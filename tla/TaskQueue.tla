------------------------------ MODULE TaskQueue ------------------------------
(***************************************************************************)
(* The queue of engine/src/map/rendermanager/RenderManager.ts as a value,  *)
(* and its operations as functions from a queue to a queue.  Position 1 is *)
(* the head, the task being worked on; the rest is pending.                *)
(***************************************************************************)
EXTENDS Integers, Sequences

CONSTANTS
  Tasks,        \* task objects
  Contains,     \* <<a, b>> \in Contains: a.contains(b)
  Same          \* <<a, b>> \in Same: RenderTask.equals(a, b)

ASSUME ContainsAssumption ==
  /\ Contains \subseteq Tasks \X Tasks
  /\ Same \subseteq Contains
  /\ \A t \in Tasks : <<t, t>> \in Same

(* q without the members of S.  A recursive function where SelectSeq would *)
(* do, because the prover can expand the one and not the other.            *)
KeptSoFar(q, S, kept, i) ==
  IF i = 0 THEN <<>>
  ELSE IF q[i] \in S THEN kept[i - 1] ELSE Append(kept[i - 1], q[i])

Without(q, S) ==
  LET kept[i \in 0 .. Len(q)] == KeptSoFar(q, S, kept, i)
  IN  kept[Len(q)]

Pending(q) == {q[i] : i \in 2 .. Len(q)}

ContainedIn(t) == {s \in Tasks : <<t, s>> \in Contains}

ContainsRenderTask(q, t) == \E s \in Pending(q) : <<s, t>> \in Contains

WithoutBehindHead(q, S) ==
  IF q = <<>> THEN q ELSE <<Head(q)>> \o Without(Tail(q), S)

(* removeTasksThatAreContainedIn leaves a queue of fewer than two alone.   *)
CancelsHead(q, t) == Len(q) >= 2 /\ <<t, Head(q)>> \in Contains

DropContained(q, t) ==
  IF Len(q) < 2 THEN q ELSE WithoutBehindHead(q, ContainedIn(t))

Scheduled(q, t) == Append(DropContained(q, t), t)

ScheduledNextKeepingContained(q, t) ==
  IF Len(q) <= 1 THEN Scheduled(q, t) ELSE <<Head(q), t>> \o Tail(q)

ScheduledNextReplacing(q, t) ==
  IF Len(q) <= 1
  THEN Scheduled(q, t)
  ELSE LET d == DropContained(q, t)
       IN  <<Head(q), t>> \o SubSeq(d, 3, Len(d))

ScheduledNext(q, t) ==
  IF Len(q) <= 1
  THEN Scheduled(q, t)
  ELSE <<Head(q), t>> \o Tail(DropContained(q, t))

(* A comparator that ranks the tasks of `front` before the others: the     *)
(* sort is stable and the head stays where it is.                          *)
Reordered(q, front) ==
  IF Len(q) <= 2 THEN q
  ELSE <<Head(q)>> \o Without(Tail(q), Tasks \ front) \o Without(Tail(q), front)

(* The first pending task equal to t is spliced out.                       *)
RemoveFirst(q, t) ==
  LET hits == {i \in 2 .. Len(q) : <<q[i], t>> \in Same}
      i == CHOOSE j \in hits : \A k \in hits : j <= k
  IN  IF hits = {} THEN q ELSE SubSeq(q, 1, i - 1) \o SubSeq(q, i + 1, Len(q))
==============================================================================
