----------------------------- MODULE EchoExport -----------------------------
(***************************************************************************)
(* Outbound echomail of one FidoNet network of VirtBBS: the messages of an *)
(* echo area, the scan that packs them into one .PKT file per destination  *)
(* (internal/fido/scan.go), the outbound directory, and the BinkP sessions *)
(* that hand the packets to their peers and delete them                    *)
(* (internal/fido/binkp.go).                                               *)
(*                                                                         *)
(* Nothing in the code serialises these activities: each runs in the       *)
(* goroutine that started it (the scheduler's tick, a BinkP server         *)
(* connection, a sysop menu, an HTTP handler) and they meet only in the    *)
(* database and in the directory.  An actor stands for one such goroutine; *)
(* each of its steps is one database statement or one file operation.      *)
(***************************************************************************)
EXTENDS Naturals, FiniteSets

CONSTANTS
  Msgs,        \* echo messages of the area
  Uplink,      \* the destination that is the network's uplink
  Downlinks,   \* the configured downlinks
  Actors,      \* goroutines working on this network
  Kind,        \* what each runs: PollAndToss, ScanAll or a server session
  Peer,        \* whom each actor's BinkP session talks to
  MaxPkts,     \* bound on the packet files that can ever be created
  IsHub,       \* the network has no uplink configured
  MaxFaults    \* bound on I/O errors, dropped sessions and crashes

Dests == Downlinks \cup {Uplink}

\* Packet files in the order of the times their names carry.
Pkts == 1..MaxPkts

ASSUME EchoExportAssumption ==
  /\ Uplink \notin Downlinks
  /\ Kind \in [Actors -> {"poll", "scan", "serve"}]
  /\ Peer \in [Actors -> Dests]
  /\ \A a \in Actors : Kind[a] = "poll" => Peer[a] = Uplink
  /\ IsHub \in BOOLEAN
  /\ MaxFaults \in Nat
  /\ MaxPkts \in Nat \ {0}

VARIABLES
  posted,      \* messages in the messages table, echo = 1
  exported,    \* those with fido_exported_at set
  subs,        \* downlinks subscribed to the area and not paused
  disk,        \* packet files present in the outbound directory
  used,        \* packet files ever created
  dest,        \* the address in each packet's name
  body,        \* the messages written to each packet so far
  pc,          \* the point each actor has reached
  todo,        \* messages an actor listed and has not put in buckets yet
  bucket,      \* an actor's messages per destination
  cur,         \* the packet an actor is writing
  rest,        \* bucket entries still to write, then still to mark
  queue,       \* files an actor's session still has to send
  sent,        \* files it sent and will delete
  owed,        \* history: <<message, destination>> put in some bucket
  delivered,   \* history: messages each destination has taken
  faults       \* faults so far

db      == <<posted, exported, subs>>
dir     == <<disk, used, dest, body>>
scan    == <<todo, bucket, cur, rest>>
session == <<queue, sent>>
history == <<owed, delivered>>
vars    == <<db, dir, pc, scan, session, history, faults>>

NoBucket == [d \in Dests |-> {}]

Init ==
  /\ posted = {} /\ exported = {} /\ subs = {}
  /\ disk = {} /\ used = {}
  /\ dest = [p \in Pkts |-> Uplink]
  /\ body = [p \in Pkts |-> {}]
  /\ pc = [a \in Actors |-> "idle"]
  /\ todo = [a \in Actors |-> {}]
  /\ bucket = [a \in Actors |-> NoBucket]
  /\ cur = [a \in Actors |-> 1]
  /\ rest = [a \in Actors |-> {}]
  /\ queue = [a \in Actors |-> {}]
  /\ sent = [a \in Actors |-> {}]
  /\ owed = {}
  /\ delivered = [d \in Dests |-> {}]
  /\ faults = 0

Goto(a, label) == pc' = [pc EXCEPT ![a] = label]

\* An error of the world outside the program, charged to the bound.
Fault == faults < MaxFaults /\ faults' = faults + 1

-----------------------------------------------------------------------------
(* The message base and the subscriptions.                                 *)

\* A caller posts, or the tosser imports, an echo message.
Post(m) ==
  /\ m \notin posted
  /\ posted' = posted \cup {m}
  /\ UNCHANGED <<exported, subs, dir, pc, scan, session, history, faults>>

\* AreaFix links or unlinks a downlink (or pauses it, which scanNetwork sees
\* the same way).
Subscribe(d) ==
  /\ subs' = IF d \in subs THEN subs \ {d} ELSE subs \cup {d}
  /\ UNCHANGED <<posted, exported, dir, pc, scan, session, history, faults>>

-----------------------------------------------------------------------------
(* scanNetwork.                                                            *)

\* Mutant: a poll takes an unknown branch after its scan.
AfterScanAstray(a) == IF Kind[a] = "poll" THEN "toss" ELSE "idle"

\* Where an actor goes once its scan is over: a poll lists the outbound
\* directory next, a plain scan is finished.
AfterScan(a) == IF Kind[a] = "poll" THEN "list" ELSE "idle"

\* ListEcho: the unexported messages, read once.
BeginScan(a) ==
  /\ pc[a] = "idle" /\ Kind[a] \in {"poll", "scan"} /\ ~IsHub
  /\ posted # exported
  /\ todo' = [todo EXCEPT ![a] = posted \ exported]
  /\ Goto(a, "fanout")
  /\ UNCHANGED <<db, dir, bucket, cur, rest, session, history, faults>>

\* The scan finds nothing to export; a poll goes on to its session.  (A hub
\* polls nobody: scanNetwork and Poll both return an error at once.)
EmptyScan(a) ==
  /\ pc[a] = "idle" /\ Kind[a] = "poll" /\ ~IsHub
  /\ posted = exported
  /\ Goto(a, "list")
  /\ UNCHANGED <<db, dir, scan, session, history, faults>>

\* appendEchoMessage: the uplink's bucket, and that of each downlink
\* subscribed at this moment.
FanOut(a, m) ==
  LET to == subs \cup {Uplink} IN
  /\ pc[a] = "fanout" /\ m \in todo[a]
  /\ todo' = [todo EXCEPT ![a] = @ \ {m}]
  /\ bucket' = [bucket EXCEPT ![a] =
                  [d \in Dests |-> IF d \in to THEN @[d] \cup {m} ELSE @[d]]]
  /\ owed' = owed \cup ({m} \X to)
  /\ UNCHANGED <<db, dir, pc, cur, rest, session, delivered, faults>>

Bucketed(a) ==
  /\ pc[a] = "fanout" /\ todo[a] = {}
  /\ Goto(a, "pick")
  /\ UNCHANGED <<db, dir, scan, session, history, faults>>

\* The buckets are a Go map: they come in any order.
CreatePkt(a, d, p) ==
  /\ pc[a] = "pick" /\ bucket[a][d] # {}
  /\ p \in Pkts \ used /\ \A q \in Pkts \ used : p <= q
  /\ used' = used \cup {p} /\ disk' = disk \cup {p}
  /\ dest' = [dest EXCEPT ![p] = d]
  /\ cur' = [cur EXCEPT ![a] = p]
  /\ rest' = [rest EXCEPT ![a] = bucket[a][d]]
  /\ Goto(a, "write")
  /\ UNCHANGED <<db, body, todo, bucket, session, history, faults>>

DropBucket(a, d) == bucket' = [bucket EXCEPT ![a][d] = {}]

\* os.Create fails: the bucket is skipped.
CreateFails(a, d) ==
  /\ pc[a] = "pick" /\ bucket[a][d] # {}
  /\ DropBucket(a, d)
  /\ IF used = Pkts THEN UNCHANGED faults ELSE Fault
  /\ UNCHANGED <<db, dir, pc, todo, cur, rest, session, history>>

\* WritePacket writes straight to the file, message after message.  A file
\* that was deleted meanwhile is written to all the same.
WriteMsg(a, m) ==
  /\ pc[a] = "write" /\ m \in rest[a]
  /\ body' = [body EXCEPT ![cur[a]] = @ \cup {m}]
  /\ rest' = [rest EXCEPT ![a] = @ \ {m}]
  /\ UNCHANGED <<db, disk, used, dest, pc, todo, bucket, cur, session,
                 history, faults>>

\* Mutant: the error of WritePacket is noted but the bucket is marked.
WriteFailsAndMarks(a) ==
  /\ pc[a] = "write" /\ Fault
  /\ rest' = [rest EXCEPT ![a] = bucket[a][dest[cur[a]]]]
  /\ Goto(a, "mark")
  /\ UNCHANGED <<db, dir, todo, bucket, cur, session, history>>

\* WritePacket fails: the bucket is skipped, the partial file stays.
WriteFails(a) ==
  /\ pc[a] = "write" /\ Fault
  /\ DropBucket(a, dest[cur[a]])
  /\ rest' = [rest EXCEPT ![a] = {}]
  /\ Goto(a, "pick")
  /\ UNCHANGED <<db, dir, todo, cur, session, history>>

ClosePkt(a) ==
  /\ pc[a] = "write" /\ rest[a] = {}
  /\ rest' = [rest EXCEPT ![a] = bucket[a][dest[cur[a]]]]
  /\ Goto(a, "mark")
  /\ UNCHANGED <<db, dir, todo, bucket, cur, session, history, faults>>

\* Mutant: the UPDATE matches no row.
MarkNothing(a, m) ==
  /\ pc[a] = "mark" /\ m \in rest[a]
  /\ rest' = [rest EXCEPT ![a] = @ \ {m}]
  /\ UNCHANGED <<db, dir, pc, todo, bucket, cur, session, history, faults>>

\* MarkExported, one UPDATE per entry of the bucket just written.
Mark(a, m) ==
  /\ pc[a] = "mark" /\ m \in rest[a]
  /\ exported' = exported \cup {m}
  /\ rest' = [rest EXCEPT ![a] = @ \ {m}]
  /\ UNCHANGED <<posted, subs, dir, pc, todo, bucket, cur, session, history,
                 faults>>

\* The UPDATE fails: noted in result.Errors and passed over.
MarkFails(a, m) ==
  /\ pc[a] = "mark" /\ m \in rest[a] /\ Fault
  /\ rest' = [rest EXCEPT ![a] = @ \ {m}]
  /\ UNCHANGED <<db, dir, pc, todo, bucket, cur, session, history>>

\* Mutant: the loop over the buckets ends after one of them.
NextBucketNone(a) ==
  /\ pc[a] = "mark" /\ rest[a] = {}
  /\ bucket' = [bucket EXCEPT ![a] = NoBucket]
  /\ Goto(a, "pick")
  /\ UNCHANGED <<db, dir, todo, cur, rest, session, history, faults>>

NextBucket(a) ==
  /\ pc[a] = "mark" /\ rest[a] = {}
  /\ DropBucket(a, dest[cur[a]])
  /\ Goto(a, "pick")
  /\ UNCHANGED <<db, dir, todo, cur, rest, session, history, faults>>

EndScan(a) ==
  /\ pc[a] = "pick" /\ bucket[a] = NoBucket
  /\ Goto(a, AfterScan(a))
  /\ UNCHANGED <<db, dir, scan, session, history, faults>>

-----------------------------------------------------------------------------
(* BinkP sessions.                                                         *)

\* Mutant: the test on the tag is inverted.
FilesForOthers(peer) ==
  {p \in disk : IF peer = Uplink THEN dest[p] \in Downlinks
                                 ELSE dest[p] # peer}

\* binkpOutboundFilesFor: a downlink gets the files tagged with its address,
\* the uplink those tagged with no downlink's.  A directory listing shows
\* files that are still being written.
FilesFor(peer) ==
  {p \in disk : IF peer = Uplink THEN dest[p] \notin Downlinks
                                 ELSE dest[p] = peer}

\* A poll lists after its scan; a server session after the caller's batch.
List(a) ==
  /\ \/ Kind[a] = "poll" /\ pc[a] = "list"
     \/ Kind[a] = "serve" /\ pc[a] = "idle"
  /\ FilesFor(Peer[a]) # {} \/ Kind[a] = "poll"
  /\ queue' = [queue EXCEPT ![a] = FilesFor(Peer[a])]
  /\ sent' = [sent EXCEPT ![a] = {}]
  /\ Goto(a, "send")
  /\ UNCHANGED <<db, dir, scan, history, faults>>

\* sendFile: what the file holds now goes to the peer, whose M_GOT counts it
\* as sent.
Send(a, p) ==
  /\ pc[a] = "send" /\ p \in queue[a] \cap disk
  /\ delivered' = [delivered EXCEPT ![Peer[a]] = @ \cup body[p]]
  /\ queue' = [queue EXCEPT ![a] = @ \ {p}]
  /\ sent' = [sent EXCEPT ![a] = @ \cup {p}]
  /\ UNCHANGED <<db, dir, pc, scan, owed, faults>>

\* Mutant: PollAndToss deletes what it listed whether or not the poll failed.
AbortAndRemove(a) ==
  /\ queue' = [queue EXCEPT ![a] = {}]
  /\ sent' = [sent EXCEPT ![a] = @ \cup queue[a]]
  /\ Goto(a, "remove")

\* A session that fails while sending: Poll returns its error and
\* PollAndToss deletes nothing; the server leaves the loop and deletes what
\* it sent before.
Abort(a) ==
  /\ queue' = [queue EXCEPT ![a] = {}]
  /\ sent' = [sent EXCEPT ![a] = IF Kind[a] = "poll" THEN {} ELSE @]
  /\ Goto(a, IF Kind[a] = "poll" THEN "idle" ELSE "remove")

\* Another session deleted the file between the listing and os.Stat.
SendVanished(a, p) ==
  /\ pc[a] = "send" /\ p \in queue[a] \ disk
  /\ Abort(a)
  /\ UNCHANGED <<db, dir, scan, history, faults>>

\* The connection drops.  The peer may have the whole of file p, its M_GOT
\* lost.
SendFails(a, p) ==
  /\ pc[a] = "send" /\ p \in queue[a] \cap disk /\ Fault
  /\ \/ delivered' = [delivered EXCEPT ![Peer[a]] = @ \cup body[p]]
     \/ UNCHANGED delivered
  /\ Abort(a)
  /\ UNCHANGED <<db, dir, scan, owed>>

\* All files are sent but the poll fails before the peer's M_EOB.
ReceiveFails(a) ==
  /\ pc[a] = "send" /\ queue[a] = {} /\ Kind[a] = "poll" /\ Fault
  /\ Abort(a)
  /\ UNCHANGED <<db, dir, scan, history>>

EndBatch(a) ==
  /\ pc[a] = "send" /\ queue[a] = {}
  /\ Goto(a, "remove")
  /\ UNCHANGED <<db, dir, scan, session, history, faults>>

\* os.Remove of a file that was sent; its error is ignored.
Remove(a, p) ==
  /\ pc[a] = "remove" /\ p \in sent[a]
  /\ disk' = disk \ {p}
  /\ sent' = [sent EXCEPT ![a] = @ \ {p}]
  /\ UNCHANGED <<db, used, dest, body, pc, scan, queue, history, faults>>

EndSession(a) ==
  /\ pc[a] = "remove" /\ sent[a] = {}
  /\ Goto(a, "idle")
  /\ UNCHANGED <<db, dir, scan, session, history, faults>>

-----------------------------------------------------------------------------
\* The process dies: the database and the directory remain.
Crash ==
  /\ Fault
  /\ \E a \in Actors : pc[a] # "idle"
  /\ pc' = [a \in Actors |-> "idle"]
  /\ todo' = [a \in Actors |-> {}]
  /\ bucket' = [a \in Actors |-> NoBucket]
  /\ rest' = [a \in Actors |-> {}]
  /\ queue' = [a \in Actors |-> {}]
  /\ sent' = [a \in Actors |-> {}]
  /\ UNCHANGED <<db, dir, cur, history>>

ScanStep(a) ==
  \/ BeginScan(a) \/ EmptyScan(a) \/ Bucketed(a) \/ WriteFails(a)
  \/ ClosePkt(a) \/ NextBucket(a) \/ EndScan(a)
  \/ \E m \in Msgs :
       FanOut(a, m) \/ WriteMsg(a, m) \/ Mark(a, m) \/ MarkFails(a, m)
  \/ \E d \in Dests :
       CreateFails(a, d) \/ \E p \in Pkts : CreatePkt(a, d, p)

SessionStep(a) ==
  \/ List(a) \/ ReceiveFails(a) \/ EndBatch(a) \/ EndSession(a)
  \/ \E p \in Pkts :
       Send(a, p) \/ SendVanished(a, p) \/ SendFails(a, p) \/ Remove(a, p)

Next ==
  \/ \E m \in Msgs : Post(m)
  \/ \E d \in Downlinks : Subscribe(d)
  \/ \E a \in Actors : ScanStep(a) \/ SessionStep(a)
  \/ Crash

Spec == Init /\ [][Next]_vars

\* The Go scheduler runs every goroutine and the poll ticker keeps firing;
\* nothing forces users to post or downlinks to subscribe.
Fairness == \A a \in Actors : WF_vars(ScanStep(a) \/ SessionStep(a))

FairSpec == Spec /\ Fairness
-----------------------------------------------------------------------------
(* Properties.                                                             *)

Labels == {"idle", "fanout", "pick", "write", "mark", "list", "send", "remove"}

\* Types of the variables, and the counters within their bounds.
TypeOK ==
  /\ posted \subseteq Msgs /\ exported \subseteq Msgs
  /\ subs \subseteq Downlinks
  /\ disk \subseteq Pkts /\ used \subseteq Pkts
  /\ dest \in [Pkts -> Dests]
  /\ body \in [Pkts -> SUBSET Msgs]
  /\ pc \in [Actors -> Labels]
  /\ todo \in [Actors -> SUBSET Msgs]
  /\ bucket \in [Actors -> [Dests -> SUBSET Msgs]]
  /\ cur \in [Actors -> Pkts]
  /\ rest \in [Actors -> SUBSET Msgs]
  /\ queue \in [Actors -> SUBSET Pkts]
  /\ sent \in [Actors -> SUBSET Pkts]
  /\ owed \subseteq Msgs \X Dests
  /\ delivered \in [Dests -> SUBSET Msgs]
  /\ faults \in 0..MaxFaults

\* m is in a packet for d that is still in the outbound directory.
Waiting(m, d) == \E p \in disk : dest[p] = d /\ m \in body[p]

\* m is out of the scan's reach: it has reached d or will with d's next
\* session.
Secured(m, d) == m \in delivered[d] \/ Waiting(m, d)

Taken(m) == \E d \in Dests : m \in delivered[d]

\* What an abstract at-least-once delivery sees of a message.
Status(m) ==
  CASE m \notin posted -> "none"
    [] m \in posted /\ Taken(m) -> "taken"
    [] m \in posted \ exported /\ ~Taken(m) -> "pending"
    [] m \in posted \cap exported /\ ~Taken(m) ->
         IF \E d \in Dests : Waiting(m, d) THEN "packed" ELSE "lost"

\* A message the database shows as exported was written into some packet:
\* scanNetwork marks a bucket only after its WritePacket (scan.go:239).
MarkedWasPacked == exported \subseteq UNION {body[p] : p \in used}

\* At-least-once (bucketEntry's comment, scan.go:122): a message that later
\* scans will pass over is in a packet waiting in the outbound directory or
\* has been taken by a destination.
NoLoss == \A m \in exported : \E d \in Dests : Secured(m, d)

\* A destination only ever receives messages that a scan addressed to it,
\* for the uplink every one and for a downlink those of its subscriptions.
OnlyAddressed == \A d \in Dests : \A m \in delivered[d] : <<m, d>> \in owed

\* While nothing fails, no message is packed twice for one destination ("each
\* message is exported to a given uplink exactly once", docs/FidoNet
\* Config.md:191).
ExactlyOnce ==
  faults = 0 => \A p, q \in used : p # q /\ dest[p] = dest[q] => body[p] \cap body[q] = {}

\* While nothing fails, the per-message export mark is as good as a
\* per-destination one (the NOTE of scan.go:243): once no scan runs, an
\* exported message has been packed for every destination it was fanned out
\* to.
FanoutComplete ==
  (faults = 0 /\ used # Pkts /\ \A a \in Actors : pc[a] \in {"idle", "list", "send", "remove"}) =>
    \A m \in exported, d \in Dests :
      <<m, d>> \in owed => \E p \in used : dest[p] = d /\ m \in body[p]

\* A packet file leaves the outbound directory only when all it holds has
\* been taken by its destination ("Successfully sent files are deleted",
\* docs/FidoNet Config.md:246).
RemovedWasDelivered ==
  [][\A p \in disk \ disk' : body[p] \subseteq delivered[dest[p]]]_vars

\* A posted message is eventually in the uplink's hands, unless a fault fell
\* between two of its buckets and it has gone to a downlink alone.
EventuallyDelivered ==
  \A m \in Msgs :
    m \in posted ~> \/ m \in delivered[Uplink]
                    \/ faults > 0 /\ \E d \in Downlinks : Secured(m, d)

\* Every subscribed downlink gets the area's messages in packets of its own
\* (docs/FidoNet Config.md:176): one that stays subscribed from before any
\* scan has put the message into buckets, while nothing fails.
EventuallyFannedOut ==
  \A m \in Msgs, d \in Downlinks :
    (m \in posted /\ <<m, Uplink>> \notin owed /\ [](d \in subs))
      ~> (Secured(m, d) \/ faults > 0)

\* The pipeline implements at-least-once delivery: a message goes from posted
\* to packed to taken and is never forgotten or taken back.
Delivery == INSTANCE EchoDelivery WITH status <- [m \in Msgs |-> Status(m)]
AtLeastOnce == Delivery!Spec
=============================================================================
