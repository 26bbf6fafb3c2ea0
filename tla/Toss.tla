-------------------------------- MODULE Toss --------------------------------
(***************************************************************************)
(* Inbound mail of one FidoNet network of VirtBBS: packets arrive over     *)
(* BinkP sessions straight into the inbound directory                      *)
(* (internal/fido/binkp.go), and a toss reads every packet there, answers  *)
(* robot requests, drops duplicates, files or holds each message and moves *)
(* the packet to .tossed/ (internal/fido/toss.go, orphan.go, and the       *)
(* message store).                                                         *)
(*                                                                         *)
(* An actor is one goroutine that, over and over, either takes a session   *)
(* with the peer and tosses if it succeeds, or tosses on a sysop's order.  *)
(* A step is one file operation, one database statement or one responder.  *)
(* The message base is a table whose rows are never deleted here; in a     *)
(* conference the message numbers run 1, 2, ...                            *)
(***************************************************************************)
EXTENDS Naturals, Sequences, FiniteSets

CONSTANTS
  Msgs,        \* messages the peer sends
  Pkts,        \* packet files at the peer, numbered in the order of names
  Content,     \* the messages of each packet
  Confs,       \* conferences
  Netmail,     \* the conference of netmail, number 0
  Nowhere,     \* stands for no conference: such a message is held
  Echomail,    \* messages with an AREA: line; the others are netmail
  Conf,        \* where each belongs: to the conference of its area, or to
               \* Netmail; Nowhere if the area is unknown or the netmail
               \* neither for this node nor for a responder
  WithId,      \* those that carry an ^AMSGID
  Robots,      \* requests a responder answers (PING, TRACE, AreaFix, ...)
  Actors,
  Local,       \* stands for a message posted by a local caller
  MaxLocal,    \* bound on those
  MaxFaults,   \* bound on crashes, dropped sessions and lost M_GOTs
  MaxDbErrors, \* bound on failing statements and writes of holding files
  MaxEvents    \* bound on local posts, faults and those errors together

ASSUME TossAssumption ==
  /\ Pkts \subseteq Nat \ {0}
  /\ Content \in [Pkts -> Seq(Msgs)]
  /\ Netmail \in Confs /\ Nowhere \notin Confs
  /\ Echomail \subseteq Msgs /\ WithId \subseteq Msgs
  /\ Conf \in [Msgs -> Confs \cup {Nowhere}]
  /\ \A m \in Msgs :
       Conf[m] \in Confs => (Conf[m] = Netmail <=> m \notin Echomail)
  /\ Robots \subseteq {m \in Msgs : Conf[m] = Netmail}
  /\ Local \notin Msgs
  /\ MaxLocal \in Nat /\ MaxFaults \in Nat /\ MaxDbErrors \in Nat
  /\ MaxEvents \in Nat

None == 0

\* A message as it is read from a packet: where it belongs, how much of its
\* ^AMSGID there is, whether a responder knows it for a request, and whether
\* it is the whole message.
Ids == {"none", "part", "read"}
Copy == [msg : Msgs, conf : Confs \cup {Nowhere}, id : Ids, robot : BOOLEAN,
         whole : BOOLEAN]
Whole(m) ==
  [msg |-> m, conf |-> Conf[m], id |-> IF m \in WithId THEN "read" ELSE "none",
   robot |-> m \in Robots, whole |-> TRUE]

\* What is read of a message that the end of the file cuts off: the strings
\* and the body that are not there are empty, the one it ends in is short.
\* The AREA: line comes first in a body, the ^AMSGID line after it.
Cuts(m) ==
  LET Cut(c) == c.msg = m /\ ~c.whole
      \* It ends before the area is read: netmail without an MSGID, filed or
      \* held as the header is addressed, and a request if what there is of
      \* the names and the subject reads like one.
      InHeader(c) == c.conf \in {Netmail, Nowhere} /\ c.id = "none"
                       /\ (c.robot => c.conf = Netmail)
      \* It ends in the AREA: line: part of a tag, which may be another's.
      InArea(c) == m \in Echomail
                     /\ c.conf \in (Confs \ {Netmail}) \cup {Nowhere}
                     /\ c.id = "none" /\ ~c.robot
      InBody(c) == c.conf = Conf[m] /\ c.robot = (m \in Robots)
                     /\ c.id \in IF m \in WithId THEN Ids ELSE {"none"}
  IN  {c \in Copy : Cut(c) /\ (InHeader(c) \/ InArea(c) \/ InBody(c))}

\* A row of the message base: such a copy, or a caller's message.
LocalMsg(conf) ==
  [msg |-> Local, conf |-> conf, id |-> "none", robot |-> FALSE,
   whole |-> TRUE]
Row == Copy \cup {LocalMsg(conf) : conf \in Confs}

VARIABLES
  offered,     \* packets the peer has and wants to send
  fresh,       \* packets the peer has not come up with yet
  acked,       \* history: packets confirmed with M_GOT
  inbox,       \* packets in the inbound directory
  have,        \* number of whole messages in each of those
  base,        \* rows of the message base in the order of their INSERTs
  held,        \* messages in the holding directory
  answered,    \* history: the copies of requests responders have answered
  noted,       \* history: those whose responder's error was noted instead
  pc,          \* where each actor is
  file,        \* the packet an actor is receiving, or None
  wrote,       \* number of messages of it received
  queue,       \* packets an actor's toss still has to look at
  cur,         \* the packet being tossed
  left,        \* messages of it still to process
  num,         \* the message number Post computed
  torn,        \* history: packets a toss opened before they were whole
  locals, faults, dbErrors

peer    == <<offered, fresh, acked>>
dir     == <<inbox, have>>
store   == <<base, held, answered, noted>>
receive == <<file, wrote>>
toss    == <<queue, cur, left, num>>
bounds  == <<locals, faults, dbErrors>>
vars    == <<peer, dir, store, pc, receive, toss, torn, bounds>>

Init ==
  /\ offered = {} /\ fresh = Pkts /\ acked = {}
  /\ inbox = {} /\ have = [p \in Pkts |-> 0]
  /\ base = <<>> /\ held = {} /\ answered = {} /\ noted = {}
  /\ pc = [a \in Actors |-> "idle"]
  /\ file = [a \in Actors |-> None] /\ wrote = [a \in Actors |-> 0]
  /\ queue = [a \in Actors |-> {}] /\ cur = [a \in Actors |-> None]
  /\ left = [a \in Actors |-> <<>>] /\ num = [a \in Actors |-> 0]
  /\ torn = {}
  /\ locals = 0 /\ faults = 0 /\ dbErrors = 0

Goto(a, label) == pc' = [pc EXCEPT ![a] = label]
MoreEvents == locals + faults + dbErrors < MaxEvents
Fault == faults < MaxFaults /\ MoreEvents /\ faults' = faults + 1
           /\ UNCHANGED <<locals, dbErrors>>
DbError == dbErrors < MaxDbErrors /\ MoreEvents /\ dbErrors' = dbErrors + 1
           /\ UNCHANGED <<locals, faults>>

\* HasFidoMsgID: a row of the conference carries the MSGID of this copy.  A
\* part of an MSGID may equal another part; no MSGID begins another.
SameId(c, r) ==
  r.conf = c.conf /\ r.id = c.id /\ (c.id = "read" => r.msg = c.msg)
Filed(c) == \E i \in DOMAIN base : SameId(c, base[i])

\* MAX(msg_number) + 1 of a conference.
NextNumber(conf) == Cardinality({i \in DOMAIN base : base[i].conf = conf}) + 1

-----------------------------------------------------------------------------
(* Outside the toss.                                                       *)

Offer(p) ==
  /\ p \in fresh
  /\ fresh' = fresh \ {p} /\ offered' = offered \cup {p}
  /\ UNCHANGED <<acked, dir, store, pc, receive, toss, torn, bounds>>

\* A caller of the board posts in a conference.
LocalPost ==
  /\ locals < MaxLocal /\ MoreEvents /\ locals' = locals + 1
  /\ \E conf \in Confs : base' = Append(base, LocalMsg(conf))
  /\ UNCHANGED <<peer, dir, held, answered, noted, pc, receive, toss, torn,
                 faults, dbErrors>>

-----------------------------------------------------------------------------
(* A BinkP session's receiving side.                                       *)

BeginSession(a) ==
  /\ pc[a] = "idle"
  /\ Goto(a, "session")
  /\ UNCHANGED <<peer, dir, store, receive, toss, torn, bounds>>

\* beginInboundFILE: os.Create truncates what a former session left.
BeginFile(a, p) ==
  /\ pc[a] = "session" /\ file[a] = None /\ p \in offered
  /\ inbox' = inbox \cup {p} /\ have' = [have EXCEPT ![p] = 0]
  /\ file' = [file EXCEPT ![a] = p] /\ wrote' = [wrote EXCEPT ![a] = 0]
  /\ UNCHANGED <<peer, store, pc, toss, torn, bounds>>

\* writeInboundDATA.  A file that a toss renamed meanwhile is written to all
\* the same, but it is not in the inbound directory any more.
Data(a) ==
  /\ file[a] # None /\ wrote[a] < Len(Content[file[a]])
  /\ wrote' = [wrote EXCEPT ![a] = @ + 1]
  /\ have' = IF file[a] \in inbox
               THEN [have EXCEPT ![file[a]] = wrote[a] + 1] ELSE have
  /\ UNCHANGED <<peer, inbox, store, pc, file, toss, torn, bounds>>

\* The file is complete and M_GOT is sent; the peer forgets the packet.
Got(a) ==
  /\ file[a] # None /\ wrote[a] = Len(Content[file[a]])
  /\ acked' = acked \cup {file[a]} /\ offered' = offered \ {file[a]}
  /\ file' = [file EXCEPT ![a] = None]
  /\ UNCHANGED <<fresh, dir, store, pc, wrote, toss, torn, bounds>>

\* The same, but the peer never sees the M_GOT and will send it again.
GotLost(a) ==
  /\ file[a] # None /\ wrote[a] = Len(Content[file[a]]) /\ Fault
  /\ file' = [file EXCEPT ![a] = None]
  /\ Goto(a, "idle")
  /\ UNCHANGED <<peer, dir, store, wrote, toss, torn>>

\* receiveUntilEOB returns an error: the session ends without a toss and the
\* partial file stays where it is.
Broken(a) ==
  /\ pc[a] = "session" /\ Fault
  /\ file' = [file EXCEPT ![a] = None]
  /\ Goto(a, "idle")
  /\ UNCHANGED <<peer, dir, store, wrote, toss, torn>>

\* The connection closes between two frames: io.EOF is taken for the end of
\* the batch, though a file may be unfinished.
Eof(a) ==
  /\ pc[a] = "session" /\ Fault
  /\ file' = [file EXCEPT ![a] = None]
  /\ Goto(a, "list")
  /\ UNCHANGED <<peer, dir, store, wrote, toss, torn>>

\* Mutant: a session that received nothing does not toss.
EobTossesReceived(a) ==
  /\ pc[a] = "session" /\ file[a] = None /\ offered = {}
  /\ Goto(a, IF wrote[a] > 0 THEN "list" ELSE "idle")
  /\ UNCHANGED <<peer, dir, store, receive, toss, torn, bounds>>

\* M_EOB: the peer has nothing more to send.
Eob(a) ==
  /\ pc[a] = "session" /\ file[a] = None /\ offered = {}
  /\ Goto(a, "list")
  /\ UNCHANGED <<peer, dir, store, receive, toss, torn, bounds>>

-----------------------------------------------------------------------------
(* TossDir and tossFile.                                                   *)

\* The sysop's [T]oss, the fido.toss API, the CLI.
OrderToss(a) ==
  /\ pc[a] = "idle" /\ inbox # {}
  /\ Goto(a, "list")
  /\ UNCHANGED <<peer, dir, store, receive, toss, torn, bounds>>

\* os.ReadDir, once.
List(a) ==
  /\ pc[a] = "list"
  /\ queue' = [queue EXCEPT ![a] = inbox]
  /\ Goto(a, "open")
  /\ UNCHANGED <<peer, dir, store, receive, cur, left, num, torn, bounds>>

\* What ReadPacket makes of the first n messages of p and perhaps a part of
\* the next: a string without its final NUL is taken as it is.
Readings(p, n) ==
  LET firsts == [i \in 1..n |-> Whole(Content[p][i])] IN
  IF n = Len(Content[p]) THEN {firsts}
  ELSE {firsts} \cup {Append(firsts, c) : c \in Cuts(Content[p][n + 1])}

\* os.Open and ReadPacket, in the order of names.  If the file is gone, or is
\* no packet, there is nothing to process.
Open(a) ==
  /\ pc[a] = "open"
  /\ \E p \in queue[a] :
       /\ \A q \in queue[a] : p <= q
       /\ cur' = [cur EXCEPT ![a] = p]
       /\ queue' = [queue EXCEPT ![a] = @ \ {p}]
       /\ \/ /\ p \in inbox
             /\ \E r \in Readings(p, have[p]) : left' = [left EXCEPT ![a] = r]
             /\ torn' = IF have[p] < Len(Content[p])
                          THEN torn \cup {p} ELSE torn
          \/ /\ p \notin inbox
             /\ left' = [left EXCEPT ![a] = <<>>] /\ UNCHANGED torn
  /\ Goto(a, "robot")
  /\ UNCHANGED <<peer, dir, store, receive, num, bounds>>

\* Mutant: every message is handed to the responders' bookkeeping.
RespondAll(a) ==
  /\ pc[a] = "robot" /\ left[a] # <<>>
  /\ answered' = answered \cup {Head(left[a])}
  /\ Goto(a, "route")
  /\ UNCHANGED <<peer, dir, base, held, noted, receive, toss, torn, bounds>>

\* Mutant: the duplicate check comes first, and a duplicate is not answered.
RespondIfNew(a) ==
  /\ pc[a] = "robot" /\ left[a] # <<>>
  /\ answered' = answered \cup {c \in {Head(left[a])} :
                                 c.robot /\ (c.id = "read" => ~Filed(c))}
  /\ Goto(a, "route")
  /\ UNCHANGED <<peer, dir, base, held, noted, receive, toss, torn, bounds>>

\* The responders come first, for each message, whether or not it is new.
Respond(a) ==
  /\ pc[a] = "robot" /\ left[a] # <<>>
  /\ answered' = answered \cup {c \in {Head(left[a])} : c.robot}
  /\ Goto(a, "route")
  /\ UNCHANGED <<peer, dir, base, held, noted, receive, toss, torn, bounds>>

\* A responder returns an error (no uplink, a reply packet that cannot be
\* written): it is added to the list of errors, and the message goes on.
RespondFails(a) ==
  /\ pc[a] = "robot" /\ left[a] # <<>> /\ Head(left[a]).robot
  /\ noted' = noted \cup {Head(left[a])}
  /\ Goto(a, "route")
  /\ UNCHANGED <<peer, dir, base, held, answered, receive, toss, torn, bounds>>

NextMsg(a) ==
  /\ left' = [left EXCEPT ![a] = Tail(@)]
  /\ Goto(a, "robot")

\* HoldOrphanMessage, for an unknown area or netmail that is not for us.
Hold(a) ==
  /\ pc[a] = "route" /\ Head(left[a]).conf = Nowhere
  /\ held' = held \cup {Head(left[a])}
  /\ NextMsg(a)
  /\ UNCHANGED <<peer, dir, base, answered, noted, receive, queue, cur, num,
                 torn, bounds>>

\* The holding file cannot be written, for such a message or for one whose
\* insert has just failed: the message is counted and skipped.
HoldFails(a) ==
  /\ \/ pc[a] = "route" /\ Head(left[a]).conf = Nowhere
     \/ pc[a] = "insert"
  /\ DbError
  /\ NextMsg(a)
  /\ UNCHANGED <<peer, dir, store, receive, queue, cur, num, torn>>

\* HasFidoMsgID finds the message: a duplicate.
Skip(a) ==
  /\ pc[a] = "route" /\ Head(left[a]).conf # Nowhere
  /\ Head(left[a]).id # "none" /\ Filed(Head(left[a]))
  /\ NextMsg(a)
  /\ UNCHANGED <<peer, dir, store, receive, queue, cur, num, torn, bounds>>

\* Mutant: a message that is not found to be a duplicate at once goes on
\* without the check.
NotFiledUnchecked(a) ==
  /\ pc[a] = "route" /\ Head(left[a]).conf # Nowhere
  /\ Goto(a, "post")
  /\ UNCHANGED <<peer, dir, store, receive, toss, torn, bounds>>

\* It finds none, or the message has no MSGID to look for.  Two parts of an
\* MSGID may also differ.
NotFiled(a) ==
  /\ pc[a] = "route" /\ Head(left[a]).conf # Nowhere
  /\ Head(left[a]).id = "read" => ~Filed(Head(left[a]))
  /\ Goto(a, "post")
  /\ UNCHANGED <<peer, dir, store, receive, toss, torn, bounds>>

\* The query fails: noted, and the message goes on to Post.
DedupeFails(a) ==
  /\ pc[a] = "route" /\ Head(left[a]).conf # Nowhere
  /\ Head(left[a]).id # "none" /\ DbError
  /\ Goto(a, "post")
  /\ UNCHANGED <<peer, dir, store, receive, toss, torn>>

\* Post: SELECT MAX(msg_number) + 1 ...
Number(a) ==
  /\ pc[a] = "post"
  /\ num' = [num EXCEPT ![a] = NextNumber(Head(left[a]).conf)]
  /\ Goto(a, "insert")
  /\ UNCHANGED <<peer, dir, store, receive, queue, cur, left, torn, bounds>>

\* ... then INSERT, under UNIQUE(conference_id, msg_number).
Insert(a) ==
  /\ pc[a] = "insert" /\ num[a] = NextNumber(Head(left[a]).conf)
  /\ base' = Append(base, Head(left[a]))
  /\ NextMsg(a)
  /\ UNCHANGED <<peer, dir, held, answered, noted, receive, queue, cur, num,
                 torn, bounds>>

\* Mutant: a failed insert is noted and the message passed over.
InsertFailsDrops(a) ==
  /\ pc[a] = "insert"
  /\ \/ num[a] # NextNumber(Head(left[a]).conf) /\ UNCHANGED bounds
     \/ DbError
  /\ NextMsg(a)
  /\ UNCHANGED <<peer, dir, store, receive, queue, cur, num, torn>>

\* Another row took the number, or the statement fails: the message is held.
InsertFails(a) ==
  /\ pc[a] = "insert"
  /\ \/ num[a] # NextNumber(Head(left[a]).conf) /\ UNCHANGED bounds
     \/ DbError
  /\ held' = held \cup {Head(left[a])}
  /\ NextMsg(a)
  /\ UNCHANGED <<peer, dir, base, answered, noted, receive, queue, cur, num,
                 torn>>

\* os.Rename to .tossed/, whatever became of the messages.
Rename(a) ==
  /\ pc[a] = "robot" /\ left[a] = <<>>
  /\ inbox' = inbox \ {cur[a]}
  /\ cur' = [cur EXCEPT ![a] = None]
  /\ Goto(a, "open")
  /\ UNCHANGED <<peer, have, store, receive, queue, left, num, torn, bounds>>

EndToss(a) ==
  /\ pc[a] = "open" /\ queue[a] = {}
  /\ Goto(a, "idle")
  /\ UNCHANGED <<peer, dir, store, receive, toss, torn, bounds>>

-----------------------------------------------------------------------------
\* The process dies; directories and database remain.
Crash ==
  /\ Fault /\ \E a \in Actors : pc[a] # "idle"
  /\ pc' = [a \in Actors |-> "idle"]
  /\ file' = [a \in Actors |-> None] /\ wrote' = [a \in Actors |-> 0]
  /\ queue' = [a \in Actors |-> {}] /\ cur' = [a \in Actors |-> None]
  /\ left' = [a \in Actors |-> <<>>] /\ num' = [a \in Actors |-> 0]
  /\ UNCHANGED <<peer, dir, store, torn>>

SessionStep(a) ==
  \/ Data(a) \/ Got(a) \/ GotLost(a) \/ Broken(a) \/ Eof(a) \/ Eob(a)
  \/ \E p \in Pkts : BeginFile(a, p)

TossStep(a) ==
  \/ List(a) \/ Open(a) \/ Respond(a) \/ RespondFails(a) \/ Hold(a)
  \/ HoldFails(a) \/ Skip(a) \/ NotFiled(a) \/ DedupeFails(a) \/ Number(a)
  \/ Insert(a) \/ InsertFails(a) \/ Rename(a) \/ EndToss(a)

Next ==
  \/ \E p \in Pkts : Offer(p)
  \/ LocalPost \/ Crash
  \/ \E a \in Actors :
       BeginSession(a) \/ OrderToss(a) \/ SessionStep(a) \/ TossStep(a)

Spec == Init /\ [][Next]_vars

\* A running session or toss goes on, and the poll ticker keeps firing.
FairSpec ==
  /\ Spec
  /\ \A a \in Actors : /\ WF_vars(SessionStep(a) \/ TossStep(a))
                       /\ SF_vars(BeginSession(a))

-----------------------------------------------------------------------------
(* Properties.                                                             *)

TypeOK ==
  /\ offered \subseteq Pkts /\ fresh \subseteq Pkts /\ acked \subseteq Pkts
  /\ inbox \subseteq Pkts /\ torn \subseteq Pkts
  /\ have \in [Pkts -> Nat] /\ \A p \in Pkts : have[p] <= Len(Content[p])
  /\ base \in Seq(Row) /\ held \subseteq Copy
  /\ answered \subseteq {c \in Copy : c.robot}
  /\ noted \subseteq {c \in Copy : c.robot}
  /\ pc \in [Actors -> {"idle", "session", "list", "open", "robot", "route",
                        "post", "insert"}]
  /\ file \in [Actors -> Pkts \cup {None}] /\ wrote \in [Actors -> Nat]
  /\ queue \in [Actors -> SUBSET Pkts] /\ cur \in [Actors -> Pkts \cup {None}]
  /\ left \in [Actors -> Seq(Copy)] /\ num \in [Actors -> Nat]
  /\ locals \in 0..MaxLocal /\ faults \in 0..MaxFaults
  /\ dbErrors \in 0..MaxDbErrors

\* "Duplicate packets ... are detected and skipped automatically"
\* (docs/FidoNet Config.md:151): as long as the database answers, a message
\* whose MSGID could be read is filed once, however often it is sent and
\* wherever a toss is interrupted.  A copy cut off before the end of its
\* MSGID is a message of its own to the check, and does not count.
ImportedOnce ==
  dbErrors = 0 =>
    \A i, j \in DOMAIN base :
      base[i].id = "read" /\ SameId(base[i], base[j]) => i = j

\* The message is where somebody can read it, complete.
Kept(m) == Whole(m) \in held \/ \E i \in DOMAIN base : base[i] = Whole(m)

\* A packet that the peer was told we have is waiting whole in the inbound
\* directory, or each of its messages is filed or held complete.
AckedKept ==
  \A p \in acked :
    \/ p \in inbox /\ have[p] = Len(Content[p])
    \/ \A i \in DOMAIN Content[p] : Kept(Content[p][i])

\* The same while no toss has come across an unfinished packet and no
\* statement has failed.
KeptUnlessTorn == torn = {} /\ dbErrors = 0 => AckedKept

\* A request that is filed has been answered as it was read, or its
\* responder's error was noted.
FiledWasAnswered ==
  \A i \in DOMAIN base : base[i].robot => base[i] \in answered \cup noted

\* A packet that the peer was told we have is waiting whole, or each request
\* in it was answered whole, or an error noted: also if a first part of the
\* packet was tossed and its MSGID now makes the request a duplicate.
AckedAnswered ==
  \A p \in acked :
    \/ p \in inbox /\ have[p] = Len(Content[p])
    \/ \A i \in DOMAIN Content[p] :
         Content[p][i] \in Robots
           => Whole(Content[p][i]) \in answered \cup noted

\* Responders see every request, before it is filed or found a duplicate,
\* and whatever database or holding directory do.
RequestsAnswered == FiledWasAnswered /\ AckedAnswered

\* Every packet the peer offers is in the end taken from it and tossed.
EventuallyTossed ==
  \A p \in Pkts : p \in offered ~> p \notin offered \cup inbox
=============================================================================
