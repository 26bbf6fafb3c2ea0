----------------------------- MODULE MCOutbound -----------------------------
(* Casts: a leaf's netmail, crash mail among it, with two polls; a hub with  *)
(* an uplink and two downlinks whose tags look alike, and its netmail; a     *)
(* rescan; a hub without an uplink; a node that is uplink and downlink.      *)
EXTENDS Outbound

Nothing == [uplink |-> "u", downlinks |-> {}, held |-> {},
            routes |-> [p \in Peers |-> NoPeer], mails |-> {}, items |-> {},
            subs |-> {}, asks |-> {}, scanners |-> {}, pollers |-> {},
            callers |-> {}, maxFaults |-> 1]
Hub == [Nothing EXCEPT !.uplink = NoPeer, !.downlinks = {"d3"}, !.callers = {"d3"}]
CastsDef ==
  {[Nothing EXCEPT !.mails = {1}, !.pollers = Pollers],
   [Nothing EXCEPT !.mails = {1, 2}, !.pollers = {"p1"}, !.held = {"d3"}],
   [Nothing EXCEPT !.mails = {3}, !.pollers = {"p1"}, !.callers = {"u", "d3"},
                   !.downlinks = {"d3"}],
   [Nothing EXCEPT !.mails = {4}, !.pollers = {"p1"}, !.callers = {"d3"},
                   !.downlinks = {"d3"}, !.routes = [p \in Peers |-> "d3"]],
   [Nothing EXCEPT !.items = {"f"}, !.pollers = {"p1"}, !.callers = {"u"},
                   !.scanners = {"a1"}],
   [Nothing EXCEPT !.items = {"f"}, !.pollers = {"p1"}, !.scanners = Scanners],
   [Hub EXCEPT !.downlinks = {"d3", "d30"}, !.items = {"f"}, !.subs = {"d30"},
               !.scanners = {"a1"}, !.callers = {"d3", "d30"}, !.maxFaults = 0],
   [Nothing EXCEPT !.mails = {1}, !.items = {"f"}, !.pollers = {"p1"},
                   !.scanners = {"a1"}, !.callers = {"u"}, !.downlinks = {"u"},
                   !.maxFaults = 0],
   [Hub EXCEPT !.items = {"f"}, !.asks = {"d3"}, !.scanners = {"a1"}],
   [Hub EXCEPT !.mails = {2, 3, 4}, !.pollers = {"p1"}]}
ToDef == <<"u", "d3", "d3", "d30">>
LookalikeDef == {<<"d30", "d3">>}
=============================================================================
