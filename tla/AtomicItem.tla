----------------------------- MODULE AtomicItem -----------------------------
(***************************************************************************)
(* What an item of a storage promises its clients: every call takes effect *)
(* at one moment between its beginning and its end, a call that fails has  *)
(* none, and a crash leaves the item as the calls before it made it.       *)
(* engine/src/storage/file/FileItemStorage.ts implements this with files.  *)
(***************************************************************************)
CONSTANTS Users, Values, Nothing

VARIABLES
  stored,  \* the value of the item, or Nothing
  call     \* the call of each client, and what it writes or has read

vars == <<stored, call>>

Idle == [op |-> "none", value |-> Nothing, stage |-> "idle"]

Init ==
  /\ stored = Nothing
  /\ call = [c \in Users |-> Idle]

Begin(c, op, v) ==
  /\ call[c] = Idle
  /\ call' = [call EXCEPT ![c] = [op |-> op, value |-> v,
                                  stage |-> "called"]]
  /\ UNCHANGED stored

Written(c) ==
  /\ call[c].op = "write"
  /\ stored' = call[c].value
  /\ call' = [call EXCEPT ![c].stage = "served"]

Answered(c) ==
  /\ call[c].op = "read"
  /\ call' = [call EXCEPT ![c].stage = "served", ![c].value = stored]
  /\ UNCHANGED stored

Deleted(c) ==
  /\ call[c].op = "delete"
  /\ stored' = Nothing
  /\ call' = [call EXCEPT ![c].stage = "served"]

Serve(c) ==
  /\ call[c].stage = "called"
  /\ Written(c) \/ Answered(c) \/ Deleted(c)

Return(c) ==
  /\ call[c].stage = "served"
  /\ call' = [call EXCEPT ![c] = Idle]
  /\ UNCHANGED stored

(* Only a call that changes nothing may fail after its effect.             *)
Fail(c) ==
  /\ call[c].stage = "called" \/ call[c].op = "read"
  /\ call' = [call EXCEPT ![c] = Idle]
  /\ UNCHANGED stored

Crash ==
  /\ call' = [c \in Users |-> Idle]
  /\ UNCHANGED stored

Next ==
  \/ \E c \in Users :
       \/ \E v \in Values : Begin(c, "write", v)
       \/ Begin(c, "read", Nothing) \/ Begin(c, "delete", Nothing)
       \/ Serve(c) \/ Return(c) \/ Fail(c)
  \/ Crash
=============================================================================
