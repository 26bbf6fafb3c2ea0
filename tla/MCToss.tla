------------------------------- MODULE MCToss -------------------------------
(* Two packets that share a message, as when a second link relays it.      *)
EXTENDS Toss

CONSTANTS echo, ping, stray

MCContent == <<<<echo, ping>>, <<stray, echo>>>>

\* One area is known; "stray" is of another.
MCConf == [m \in Msgs |-> CASE m = echo -> "general"
                            [] m = ping -> Netmail
                            [] OTHER -> Nowhere]
=============================================================================
