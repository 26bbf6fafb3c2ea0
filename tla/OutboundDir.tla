----------------------------- MODULE OutboundDir -----------------------------
(***************************************************************************)
(* A network's outbound directory as its writers and the BinkP sessions    *)
(* see it (internal/fido: OutboundDir, WritePKT, writeTICItemsForDest,     *)
(* binkpOutboundFilesFor).  Whom a file is for is told by the directory it *)
(* is in or by a tag in its name; a session finds tags as substrings.      *)
(***************************************************************************)
EXTENDS Naturals, FiniteSets

CONSTANTS
  Peers,        \* addresses of other nodes
  Lookalike,    \* pairs of them: the first one's tag contains the second's
  Casts         \* uplink or none, downlinks, what is posted and who is at work

NoPeer == "none"

ASSUME OutboundAssumption ==
  /\ NoPeer \notin Peers /\ Lookalike \subseteq Peers \X Peers
  /\ \A c \in Casts : /\ c.uplink \in Peers \cup {NoPeer} /\ c.downlinks \subseteq Peers
                       /\ c.routes \in [Peers -> Peers \cup {NoPeer}]
                       /\ c.subs \subseteq Peers

VARIABLES
  cast,
  present,      \* files in the directory
  whole,        \* those completely written
  made          \* history: files ever created

dir == <<present, whole, made>>

Base == "base"
Sub == "OUT"    \* the peer's .OUT subdirectory

\* Names hold the clock, so each file has its own; copy stands for it.
File(kind, of, to, where) ==
  [kind |-> kind, of |-> of, to |-> to, dir |-> where,
   copy |-> 1 + Cardinality({n \in made : n.kind = kind /\ n.of = of /\ n.to = to})]

DirInit == present = {} /\ whole = {} /\ made = {}

Create(n) ==
  /\ present' = present \cup {n} /\ made' = made \cup {n} /\ UNCHANGED whole

\* Who writes a file goes on if it is deleted meanwhile.
Complete(n) ==
  /\ whole' = whole \cup ({n} \cap present) /\ UNCHANGED <<present, made>>

Delete(ns) ==
  present' = present \ ns /\ whole' = whole \ ns /\ UNCHANGED made

Tagged(n) == n.kind \in {"tic", "payload"}
Contains(n, p) == Tagged(n) /\ (n.to = p \/ <<n.to, p>> \in Lookalike)

\* binkpMatchPeer looks for the uplink before the downlinks.
DownlinkOf(p) == IF p \in cast.downlinks \ {cast.uplink} THEN p ELSE NoPeer

\* Mutant: a downlink gets the tickets without what they describe.
FilesForTickets(dl) ==
  IF dl # NoPeer
  THEN {n \in present : \/ n.dir = Base /\ Contains(n, dl) /\ n.kind # "payload"
                        \/ n.dir = Sub /\ n.to = dl}
  ELSE {n \in present : n.dir = Base => \A d \in cast.downlinks : ~Contains(n, d)}

\* binkpOutboundFilesFor.  A downlink that calls is given the files with its
\* tag and its .OUT directory; who else calls, and the uplink when it is
\* polled, all that is tagged for no downlink and every .OUT directory.
FilesFor(dl) ==
  IF dl # NoPeer
  THEN {n \in present : \/ n.dir = Base /\ Contains(n, dl)
                        \/ n.dir = Sub /\ n.to = dl}
  ELSE {n \in present : n.dir = Base => \A d \in cast.downlinks : ~Contains(n, d)}

DirTypeOK ==
  /\ cast \in Casts /\ whole \subseteq present /\ present \subseteq made
  /\ \A n \in made : n.to \in Peers /\ n.dir \in {Base, Sub} /\ n.copy \in Nat \ {0}
=============================================================================
