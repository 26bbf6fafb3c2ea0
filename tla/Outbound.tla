------------------------------ MODULE Outbound ------------------------------
(***************************************************************************)
(* Netmail and file echoes on their way out of one network's outbound      *)
(* directory (internal/fido/binkp.go): the polls of the uplink, which      *)
(* first empty the netmail queue, and the sessions of the nodes that call. *)
(* The frames of a session are the subject of BinkpSession; here it sends  *)
(* the files of its list, breaks or not, and deletes what it sent.         *)
(***************************************************************************)
EXTENDS NetmailQueue, FileEchoes

ASSUME SessionAssumption ==
  /\ Pollers \cap Peers = {} /\ \A c \in Casts : c.maxFaults \in Nat

VARIABLES
  at,           \* each session: "idle", "netmail", "send", "remove"
  todo, sent,   \* ... the files of its list not yet sent, and those sent
  torn,         \* history: files deleted though no peer got all of them
  faults

sessions == <<at, todo, sent>>
vars == <<cast, dir, netmail, echoes, sessions, torn, faults>>

Sessions == Pollers \cup Peers
PeerOf(s) == IF s \in Pollers THEN cast.uplink ELSE s
ListFor(s) == FilesFor(DownlinkOf(PeerOf(s)))

Init ==
  /\ cast \in Casts /\ DirInit /\ NetmailInit /\ EchoesInit
  /\ at = [s \in Sessions |-> "idle"]
  /\ todo = [s \in Sessions |-> {}] /\ sent = todo
  /\ torn = {} /\ faults = 0

\* At most cast.maxFaults of them.
Fault == faults < cast.maxFaults /\ faults' = faults + 1

Reset(s) ==
  /\ at' = [at EXCEPT ![s] = "idle"] /\ todo' = [todo EXCEPT ![s] = {}]
  /\ sent' = [sent EXCEPT ![s] = {}]

\* PollAndToss: the netmail queue first.
BeginPoll(p) ==
  /\ p \in cast.pollers /\ at[p] = "idle" /\ at' = [at EXCEPT ![p] = "netmail"]
  /\ ReadRows(p) /\ UNCHANGED <<cast, echoes, todo, sent, torn, faults>>

QueueStep(p) ==
  /\ at[p] = "netmail" /\ NetmailStep(p)
  /\ UNCHANGED <<cast, echoes, sessions, torn, faults>>

QueueFails(p) ==
  /\ at[p] = "netmail" /\ Fault /\ NetmailFails(p)
  /\ UNCHANGED <<cast, echoes, sessions, torn>>

\* The list is made and the uplink dialled; without one the poll ends here.
Dial(p) ==
  /\ at[p] = "netmail" /\ rows[p] = {} /\ cast.uplink # NoPeer
  /\ at' = [at EXCEPT ![p] = "send"]
  /\ todo' = [todo EXCEPT ![p] = ListFor(p)]
  /\ UNCHANGED <<cast, dir, netmail, echoes, sent, torn, faults>>

NoUplink(p) ==
  /\ at[p] = "netmail" /\ rows[p] = {} /\ cast.uplink = NoPeer /\ Reset(p)
  /\ UNCHANGED <<cast, dir, netmail, echoes, torn, faults>>

\* The server lists the files when it has taken the caller's.
Call(c) ==
  /\ c \in cast.callers /\ at[c] = "idle" /\ at' = [at EXCEPT ![c] = "send"]
  /\ todo' = [todo EXCEPT ![c] = ListFor(c)]
  /\ UNCHANGED <<cast, dir, netmail, echoes, sent, torn, faults>>

\* The directory is read in the order of names: the clock, then the ending.
\* Names of packets hold so little of the clock that any may come first.
Before(x, n) ==
  /\ Tagged(x) /\ Tagged(n) /\ x.to = n.to
  /\ x.copy < n.copy \/ (x.copy = n.copy /\ x = Ticket(n) /\ x # n)
Turn(s, n) == n \in todo[s] /\ ~\E x \in todo[s] : Before(x, n)

Deliver(s, n) ==
  inbox' = [inbox EXCEPT ![PeerOf(s)] =
              {r \in @ : r[1] # n} \cup {<<n, n \in whole>>}]

Send(s) ==
  /\ at[s] = "send"
  /\ \E n \in todo[s] \cap present :
       /\ Turn(s, n) /\ Deliver(s, n)
       /\ todo' = [todo EXCEPT ![s] = @ \ {n}]
       /\ sent' = [sent EXCEPT ![s] = @ \cup {n}]
  /\ UNCHANGED <<cast, dir, netmail, catalogue, scans, installed, due, failed,
                 at, torn, faults>>

\* A session that fails: the poll keeps all its files, the server deletes
\* those it has sent so far.
GiveUp(s) ==
  IF s \in Pollers THEN Reset(s)
  ELSE /\ at' = [at EXCEPT ![s] = "remove"] /\ todo' = [todo EXCEPT ![s] = {}]
       /\ UNCHANGED sent

\* Another session deleted the file: os.Stat fails.
SendVanished(s) ==
  /\ at[s] = "send" /\ (\E n \in todo[s] \ present : Turn(s, n)) /\ GiveUp(s)
  /\ UNCHANGED <<cast, dir, netmail, echoes, torn, faults>>

\* The line breaks, perhaps when the peer has a file and before its M_GOT.
Break(s) ==
  /\ at[s] = "send" /\ Fault /\ GiveUp(s)
  /\ \/ UNCHANGED inbox
     \/ \E n \in todo[s] \cap present : Turn(s, n) /\ Deliver(s, n)
  /\ UNCHANGED <<cast, dir, netmail, catalogue, scans, installed, due, failed,
                 torn>>

EndBatch(s) ==
  /\ at[s] = "send" /\ todo[s] = {} /\ at' = [at EXCEPT ![s] = "remove"]
  /\ UNCHANGED <<cast, dir, netmail, echoes, todo, sent, torn, faults>>

\* Mutant: all that was listed is deleted.
RemoveListed(s) ==
  /\ at[s] = "remove" /\ Delete(ListFor(s)) /\ Reset(s)
  /\ torn' = torn \cup {n \in sent[s] : <<n, FALSE>> \in inbox[PeerOf(s)]}
  /\ UNCHANGED <<cast, netmail, echoes, faults>>

Remove(s) ==
  /\ at[s] = "remove" /\ Delete(sent[s]) /\ Reset(s)
  /\ torn' = torn \cup {n \in sent[s] : <<n, FALSE>> \in inbox[PeerOf(s)]}
  /\ UNCHANGED <<cast, netmail, echoes, faults>>

SessionStep(s) ==
  \/ Send(s) \/ SendVanished(s) \/ EndBatch(s) \/ Remove(s)

Post(m) == Enqueue(m) /\ UNCHANGED <<cast, echoes, sessions, torn, faults>>

Request ==
  /\ \/ \E f \in Items : AddFile(f)
     \/ \E d \in Peers : Subscribe(d)
     \/ \E a \in Scanners : FileScan(a) \/ \E d \in Peers : Rescan(a, d)
  /\ UNCHANGED <<cast, netmail, sessions, torn, faults>>

ScannerStep(a) ==
  ScanStep(a) /\ UNCHANGED <<cast, netmail, sessions, torn, faults>>

ScanFault(a) ==
  /\ CopyFails(a) \/ TicketFails(a) \/ MarkFails(a)
  /\ Fault /\ UNCHANGED <<cast, netmail, sessions, torn>>

Receive(p) == Install(p) /\ UNCHANGED <<cast, netmail, sessions, torn, faults>>

\* The program dies and is started again.
Crash ==
  /\ Fault /\ NetmailDies /\ EchoesDie
  /\ at' = [s \in Sessions |-> "idle"]
  /\ todo' = [s \in Sessions |-> {}] /\ sent' = todo'
  /\ UNCHANGED <<cast, torn>>

Next ==
  \/ \E p \in Pollers : BeginPoll(p) \/ QueueStep(p) \/ QueueFails(p) \/ Dial(p)
                        \/ NoUplink(p)
  \/ \E c \in Peers : Call(c) \/ Receive(c)
  \/ \E s \in Sessions : SessionStep(s) \/ Break(s)
  \/ \E m \in Mails : Post(m)
  \/ Request
  \/ \E a \in Scanners : ScannerStep(a) \/ ScanFault(a)
  \/ Crash

Spec == Init /\ [][Next]_vars

\* The scheduler polls networks with an uplink again and again, and so do the
\* nodes that call; who has begun a scan or a session goes on.  Nobody need
\* scan, post or ask, and a hub without uplink is polled when its sysop says so.
Fairness ==
  /\ \A p \in Pollers : WF_vars(cast.uplink # NoPeer /\ BeginPoll(p))
                        /\ WF_vars(QueueStep(p))
                        /\ WF_vars(Dial(p)) /\ WF_vars(NoUplink(p))
  /\ \A c \in Peers : WF_vars(Call(c)) /\ WF_vars(Receive(c))
  /\ \A s \in Sessions : WF_vars(SessionStep(s))
  /\ \A a \in Scanners : WF_vars(ScannerStep(a))

FairSpec == Spec /\ Fairness

-----------------------------------------------------------------------------
\* The type of the state; what is being sent exists or did.
TypeOK ==
  /\ DirTypeOK /\ NetmailTypeOK /\ EchoesTypeOK
  /\ \A s \in Sessions :
       /\ at[s] \in {"idle", "netmail", "send", "remove"}
       /\ todo[s] \cup sent[s] \subseteq made
  /\ torn \subseteq made /\ faults \in 0..cast.maxFaults

Partners == cast.downlinks \cup ({cast.uplink} \ {NoPeer})
Got(n) == \E q \in Peers : <<n, TRUE>> \in inbox[q]
Waits(n) == n \in whole /\ \E q \in Partners : n \in FilesFor(DownlinkOf(q))

\* Where no session will ever look.
Stranded(n) ==
  cast.uplink = NoPeer /\ (n.dir = Base \/ n.to \notin cast.downlinks)

\* An uplink whose tag is, or contains, a downlink's is not sent its files:
\* they are taken for the downlink's.
Mistaken(p) ==
  p = cast.uplink /\ \E d \in cast.downlinks : p = d \/ <<p, d>> \in Lookalike
Misled(n) == \E q \in Peers \ {n.to} : \E b \in BOOLEAN : <<n, b>> \in inbox[q]

\* One copy of what is due: ticket and payload each wait where the session
\* of its peer finds them or have been received; or they were lost in one of
\* the ways the code knows.
Held(n) ==
  \A x \in {n, Ticket(n)} :
    \/ x \in whole /\ x \in FilesFor(DownlinkOf(n.to))
    \/ <<x, TRUE>> \in inbox[n.to] \/ x \in torn \/ Misled(x)

Copies(i) == {n \in made : n.kind = "payload" /\ n.of = i[1] /\ n.to = i[2]}

\* What the program calls sent or exported is with a peer or still waits, all
\* of it, where the session of a peer will find it, however polls, calls,
\* scans, crashes and broken sessions interleave.  Excepted are the ways in
\* which this code does lose it: a file sent while it is being written, a
\* copy that failed, tags that contain one another, a network without uplink.
NothingAstray ==
  /\ \A m \in Mails : row[m] = "sent" =>
       \E n \in made : n.kind = "pkt" /\ n.of = m /\
         (Waits(n) \/ Got(n) \/ n \in torn \/ Stranded(n))
  /\ \A i \in due \ (installed \cup failed) :
       Mistaken(i[2]) \/ \E n \in Copies(i) : Held(n)

Settled(i) ==
  i \in installed \/ i \in failed \/ Mistaken(i[2])
  \/ \E n \in Copies(i) : {n, Ticket(n)} \cap torn # {} \/ Misled(n) \/ Misled(Ticket(n))

Arrived(m) ==
  \/ cast.uplink = NoPeer
  \/ \E n \in made : n.kind = "pkt" /\ n.of = m /\ (Got(n) \/ n \in torn)

\* A file that was exported for a node is installed there in the end, and a
\* netmail that was queued gets to another node, after any number of polls
\* and calls that broke; the exceptions are those of NothingAstray.
EventuallyThere ==
  /\ \A i \in Items \X Peers : i \in due ~> Settled(i)
  /\ \A m \in Mails : row[m] = "queued" ~> Arrived(m)
=============================================================================
