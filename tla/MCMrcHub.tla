------------------------------ MODULE MCMrcHub ------------------------------
(* Who comes: two callers; a caller and a change of MRC's settings; two    *)
(* changes of them at once, or one and another page; and pairs of others.  *)
EXTENDS MrcHub

Pair(k1, k2) == [m1 |-> k1, m2 |-> k2]
MCCasts ==
  {[t1 |-> "chat", w1 |-> "chat"], [t1 |-> "chat", a1 |-> "MRC page"],
   [a1 |-> "MRC page", a2 |-> "MRC page"],
   [a1 |-> "MRC page", m1 |-> "networks page"]}
  \cup {Pair("approve", k) : k \in {"approve", "deny", "remove", "add page",
                                    "passwd", "networks page", "config page"}}
  \cup {Pair("map", k) : k \in {"remap", "change", "networks page"}}
  \cup {Pair("remove", k) : k \in {"passwd", "add menu"}}

MCLinks == {[addr |-> Known, pw |-> First]}
=============================================================================
