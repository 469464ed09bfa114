------------------------------ MODULE Delivery ------------------------------
(***************************************************************************)
(* What the outbox of usage events promises its callers: an event that was *)
(* put in waits until the server has it; some are given up unsent, and all *)
(* if the queue is deleted.  The server may receive an event more than     *)
(* once.  UsageOutbox is shown to implement this, and says when it gives   *)
(* up an event.                                                            *)
(***************************************************************************)
CONSTANT Events

VARIABLES
  stage,    \* of each event: "new", "waiting", "settled", "abandoned", "deleted"
  received  \* events the server has taken in

vars == <<stage, received>>

TypeOK == /\ stage \in [Events -> {"new", "waiting", "settled", "abandoned", "deleted"}]
          /\ received \subseteq Events

Init == stage = [e \in Events |-> "new"] /\ received = {}

Move(b, s) == /\ stage' = [e \in Events |-> IF e \in b THEN s ELSE stage[e]]
              /\ UNCHANGED received

Put(e) == stage[e] = "new" /\ Move({e}, "waiting")

\* Two senders may hold the same event: it need not be waiting any more.
Receive(b) == /\ \A e \in b : stage[e] # "new"
              /\ received' = received \cup b
              /\ UNCHANGED stage

\* A batch is closed: some of it the server has, the rest is given up.
Close(kept, lost) ==
  /\ kept \cap lost = {} /\ kept \subseteq received
  /\ \A e \in kept \cup lost : stage[e] = "waiting"
  /\ stage' = [e \in Events |-> IF e \in lost THEN "abandoned"
                               ELSE IF e \in kept THEN "settled" ELSE stage[e]]
  /\ UNCHANGED received

Delete == Move({e \in Events : stage[e] # "new"}, "deleted")

Next == \/ \E e \in Events : Put(e)
        \/ \E b \in SUBSET Events : Receive(b) \/ \E lost \in SUBSET Events : Close(b, lost)
        \/ Delete

Spec == Init /\ [][Next]_vars

\* Analytics events are "sent" only once the server has them.
SettledIsReceived == \A e \in Events : stage[e] = "settled" => e \in received
=============================================================================
