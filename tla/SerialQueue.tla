---------------------------- MODULE SerialQueue ----------------------------
(***************************************************************************)
(* What SerialTaskRunner promises (src/scheduler.h): callbacks run one at  *)
(* a time, each once, in the order in which they were inserted.            *)
(***************************************************************************)
EXTENDS Naturals, Sequences

VARIABLES
  pending,   \* callbacks that wait, in order
  current,   \* the set of callbacks that run
  inserted   \* how many were inserted; a callback is its number

Init == pending = <<>> /\ current = {} /\ inserted = 0

Insert ==
  /\ inserted' = inserted + 1
  /\ pending' = Append(pending, inserted + 1)
  /\ UNCHANGED current

Start ==
  /\ current = {} /\ pending # <<>>
  /\ current' = {Head(pending)}
  /\ pending' = Tail(pending)
  /\ UNCHANGED inserted

Finish ==
  /\ current # {}
  /\ current' = {}
  /\ UNCHANGED <<pending, inserted>>

Next == Insert \/ Start \/ Finish

Spec == Init /\ [][Next]_<<pending, current, inserted>>
=============================================================================
