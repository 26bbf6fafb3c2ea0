---------------------------- MODULE EchoDelivery ----------------------------
(***************************************************************************)
(* What the outbound echomail pipeline promises of every message, without  *)
(* packets, directories or sessions: at-least-once delivery.  A message    *)
(* that has been posted stays pending until it is packed or taken, and one *)
(* that is packed stays packed until it is taken.                          *)
(***************************************************************************)
CONSTANT Msgs
VARIABLE status

TypeOK == status \in [Msgs -> {"none", "pending", "packed", "taken"}]

Init == status = [m \in Msgs |-> "none"]

\* Each message of S makes the step from one status to another.
Move(S, from, to) ==
  /\ S # {} /\ \A m \in S : status[m] \in from
  /\ status' = [m \in Msgs |-> IF m \in S THEN to ELSE status[m]]

Post(m) == Move({m}, {"none"}, "pending")
Pack(m) == Move({m}, {"pending"}, "packed")
Take(S) == Move(S, {"pending", "packed"}, "taken")

Next == \/ \E m \in Msgs : Post(m) \/ Pack(m)
        \/ \E S \in SUBSET Msgs : Take(S)

Spec == Init /\ [][Next]_status
=============================================================================
