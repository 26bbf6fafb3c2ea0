-------------------------- MODULE EchoExportProofs --------------------------
(***************************************************************************)
(* Proofs about EchoExport, for any messages, downlinks, number of packets *)
(* and number of faults, and but for the theorems that assume SinglePoll,  *)
(* for any actors.                                                         *)
(***************************************************************************)
EXTENDS EchoExport, TLAPS

\* What each scanning actor knows of the packet it is writing.
ScanInv ==
  /\ disk \subseteq used
  /\ \A p \in Pkts \ used : body[p] = {}
  /\ \A a \in Actors : pc[a] \in {"write", "mark"} =>
       /\ cur[a] \in used
       /\ rest[a] \subseteq bucket[a][dest[cur[a]]]
  /\ \A a \in Actors : pc[a] = "write" =>
       bucket[a][dest[cur[a]]] \ rest[a] \subseteq body[cur[a]]
  /\ \A a \in Actors : pc[a] = "mark" =>
       bucket[a][dest[cur[a]]] \subseteq body[cur[a]]

\* Buckets and packets hold what was addressed to their destination, and a
\* session only queues packets for its own peer.
AddressInv ==
  /\ \A a \in Actors, d \in Dests, m \in Msgs :
       m \in bucket[a][d] => <<m, d>> \in owed
  /\ \A p \in Pkts, m \in Msgs : m \in body[p] => <<m, dest[p]>> \in owed
  /\ \A a \in Actors : queue[a] \subseteq {p \in used : dest[p] = Peer[a]}

\* A leaf node's ordinary life: at most one goroutine works on the network,
\* and it polls.
SinglePoll ==
  /\ \A a, b \in Actors : a = b
  /\ \A a \in Actors : Kind[a] = "poll"

\* Then a packet being written is never deleted, and what a session will
\* delete has been taken by its peer.
PollInv ==
  /\ \A a \in Actors : pc[a] \in {"write", "mark"} => cur[a] \in disk
  /\ \A a \in Actors : \A p \in sent[a] :
       dest[p] = Peer[a] /\ body[p] \subseteq delivered[Peer[a]]
  /\ \A a \in Actors : pc[a] \notin {"send", "remove"} => sent[a] = {}

\* Packet p holds message m, on its way to d or already there.
Packed(m, d) == \E p \in used : dest[p] = d /\ m \in body[p]

\* What was fanned out stays in a bucket until it is packed, unless something
\* fails, and there are buckets only during a scan.
Scanning(a) == pc[a] \in {"fanout", "pick", "write", "mark"}
IdleInv == \A a \in Actors : ~Scanning(a) => bucket[a] = NoBucket
FanoutInv ==
  faults = 0 /\ used # Pkts =>
    \A m \in Msgs, d \in Dests : <<m, d>> \in owed =>
      Packed(m, d) \/ \E a \in Actors : m \in bucket[a][d]

\* While nothing fails, a single scan has what it packs for itself: packets
\* but the one in the making hold exported messages only, what is listed is
\* not exported, and no bucket has a message that was packed for it before.
Making(a, p) == pc[a] \in {"write", "mark"} /\ p = cur[a]
OnceInv ==
  faults = 0 => \A a \in Actors :
    /\ \A p \in used : Making(a, p) \/ body[p] \subseteq exported
    /\ pc[a] \in {"write", "mark"} =>
         body[cur[a]] \subseteq bucket[a][dest[cur[a]]]
    /\ pc[a] = "mark" => body[cur[a]] \ rest[a] \subseteq exported
    /\ pc[a] = "fanout" =>
         /\ todo[a] \cap exported = {}
         /\ \A d \in Dests : bucket[a][d] \cap exported = {}
    /\ Scanning(a) =>
         \A p \in used : Making(a, p) \/ body[p] \cap bucket[a][dest[p]] = {}

\* Only what was posted is listed, packed, marked and handed over.
PostedInv ==
  /\ exported \subseteq posted
  /\ \A a \in Actors : /\ todo[a] \subseteq posted
                        /\ rest[a] \subseteq posted
                        /\ \A d \in Dests : bucket[a][d] \subseteq posted
  /\ \A p \in Pkts : body[p] \subseteq posted
  /\ \A d \in Dests : delivered[d] \subseteq posted

-----------------------------------------------------------------------------
\* Every step keeps the types.
LEMMA TypeStep == TypeOK /\ [Next]_vars => TypeOK'
<1> SUFFICES ASSUME TypeOK, [Next]_vars PROVE TypeOK'
  OBVIOUS
<1> USE EchoExportAssumption DEF db, dir, scan, session, history, Dests
<1>1. ASSUME NEW m \in Msgs, Post(m) PROVE TypeOK'
  BY <1>1 DEF Post, TypeOK, Labels
<1>2. ASSUME NEW d \in Downlinks, Subscribe(d) PROVE TypeOK'
  BY <1>2 DEF Subscribe, TypeOK, Labels
<1>3. ASSUME NEW a \in Actors, BeginScan(a) PROVE TypeOK'
  BY <1>3 DEF BeginScan, Goto, TypeOK, Labels
<1>4. ASSUME NEW a \in Actors, EmptyScan(a) PROVE TypeOK'
  BY <1>4 DEF EmptyScan, Goto, TypeOK, Labels
<1>5. ASSUME NEW a \in Actors, NEW m \in Msgs, FanOut(a, m) PROVE TypeOK'
  BY <1>5 DEF FanOut, TypeOK, Labels
<1>6. ASSUME NEW a \in Actors, Bucketed(a) PROVE TypeOK'
  BY <1>6 DEF Bucketed, Goto, TypeOK, Labels
<1>7. ASSUME NEW a \in Actors, NEW d \in Dests, NEW p \in Pkts,
     CreatePkt(a, d, p) PROVE TypeOK'
  BY <1>7 DEF CreatePkt, Goto, TypeOK, Labels
<1>8. ASSUME NEW a \in Actors, NEW d \in Dests, CreateFails(a, d)
     PROVE TypeOK'
  BY <1>8 DEF CreateFails, DropBucket, Fault, TypeOK, Labels
<1>9. ASSUME NEW a \in Actors, NEW m \in Msgs, WriteMsg(a, m) PROVE TypeOK'
  BY <1>9 DEF WriteMsg, TypeOK, Labels
<1>10. ASSUME NEW a \in Actors, WriteFails(a) PROVE TypeOK'
  BY <1>10 DEF WriteFails, Fault, DropBucket, Goto, TypeOK, Labels
<1>11. ASSUME NEW a \in Actors, ClosePkt(a) PROVE TypeOK'
  BY <1>11 DEF ClosePkt, Goto, TypeOK, Labels
<1>12. ASSUME NEW a \in Actors, NEW m \in Msgs, Mark(a, m) PROVE TypeOK'
  BY <1>12 DEF Mark, TypeOK, Labels
<1>13. ASSUME NEW a \in Actors, NEW m \in Msgs, MarkFails(a, m) PROVE TypeOK'
  BY <1>13 DEF MarkFails, Fault, TypeOK, Labels
<1>14. ASSUME NEW a \in Actors, NextBucket(a) PROVE TypeOK'
  BY <1>14 DEF NextBucket, Goto, DropBucket, TypeOK, Labels
<1>15. ASSUME NEW a \in Actors, EndScan(a) PROVE TypeOK'
  BY <1>15 DEF EndScan, Goto, AfterScan, TypeOK, Labels
<1>16. ASSUME NEW a \in Actors, List(a) PROVE TypeOK'
  BY <1>16 DEF List, Goto, FilesFor, TypeOK, Labels
<1>17. ASSUME NEW a \in Actors, NEW p \in Pkts, Send(a, p) PROVE TypeOK'
  BY <1>17 DEF Send, TypeOK, Labels
<1>18. ASSUME NEW a \in Actors, NEW p \in Pkts, SendVanished(a, p)
     PROVE TypeOK'
  BY <1>18 DEF SendVanished, Abort, Goto, TypeOK, Labels
<1>19. ASSUME NEW a \in Actors, NEW p \in Pkts, SendFails(a, p) PROVE TypeOK'
  <2>1. delivered' \in [Dests -> SUBSET Msgs]
    BY <1>19 DEF SendFails, TypeOK
  <2>2. /\ pc' \in [Actors -> Labels]
        /\ queue' \in [Actors -> SUBSET Pkts]
        /\ sent' \in [Actors -> SUBSET Pkts]
        /\ faults' \in 0..MaxFaults
    BY <1>19 DEF SendFails, Abort, Goto, Fault, TypeOK, Labels
  <2>3. QED
    BY <1>19, <2>1, <2>2 DEF SendFails, TypeOK
<1>20. ASSUME NEW a \in Actors, ReceiveFails(a) PROVE TypeOK'
  BY <1>20 DEF ReceiveFails, Abort, Goto, Fault, TypeOK, Labels
<1>21. ASSUME NEW a \in Actors, EndBatch(a) PROVE TypeOK'
  BY <1>21 DEF EndBatch, Goto, TypeOK, Labels
<1>22. ASSUME NEW a \in Actors, NEW p \in Pkts, Remove(a, p) PROVE TypeOK'
  BY <1>22 DEF Remove, TypeOK, Labels
<1>23. ASSUME NEW a \in Actors, EndSession(a) PROVE TypeOK'
  BY <1>23 DEF EndSession, Goto, TypeOK, Labels
<1>24. ASSUME Crash PROVE TypeOK'
  BY <1>24 DEF Crash, Fault, NoBucket, TypeOK, Labels
<1>25. ASSUME UNCHANGED vars PROVE TypeOK'
  BY <1>25 DEF vars, TypeOK, Labels
<1>26. QED
  BY <1>1, <1>2, <1>3, <1>4, <1>5, <1>6, <1>7, <1>8, <1>9, <1>10, <1>11,
     <1>12, <1>13, <1>14, <1>15, <1>16, <1>17, <1>18, <1>19, <1>20, <1>21,
     <1>22, <1>23, <1>24, <1>25 DEF Next, ScanStep, SessionStep

\* The variables keep their types in every behaviour.
THEOREM TypeCorrect == Spec => []TypeOK
<1>1. Init => TypeOK
  BY EchoExportAssumption DEF Init, TypeOK, Labels, Dests, Pkts, NoBucket
<1>2. QED
  BY <1>1, TypeStep, PTL DEF Spec

\* A scanner knows its packet, whatever the other actors do.
LEMMA ScanInvStep == TypeOK /\ ScanInv /\ [Next]_vars => ScanInv'
<1> SUFFICES ASSUME TypeOK, ScanInv, [Next]_vars PROVE ScanInv'
  OBVIOUS
<1> USE EchoExportAssumption DEF db, dir, scan, session, history, Dests
<1>1. ASSUME NEW a \in Actors, BeginScan(a) PROVE ScanInv'
  BY <1>1 DEF BeginScan, Goto, TypeOK, ScanInv
<1>2. ASSUME NEW a \in Actors, EmptyScan(a) PROVE ScanInv'
  BY <1>2 DEF EmptyScan, Goto, TypeOK, ScanInv
<1>3. ASSUME NEW a \in Actors, NEW m \in Msgs, FanOut(a, m) PROVE ScanInv'
  BY <1>3 DEF FanOut, TypeOK, ScanInv
<1>4. ASSUME NEW a \in Actors, Bucketed(a) PROVE ScanInv'
  BY <1>4 DEF Bucketed, Goto, TypeOK, ScanInv
<1>5. ASSUME NEW a \in Actors, NEW d \in Dests, NEW p \in Pkts,
     CreatePkt(a, d, p) PROVE ScanInv'
  BY <1>5 DEF CreatePkt, Goto, TypeOK, ScanInv
<1>6. ASSUME NEW a \in Actors, NEW d \in Dests, CreateFails(a, d)
     PROVE ScanInv'
  BY <1>6 DEF CreateFails, DropBucket, Fault, TypeOK, ScanInv
<1>7. ASSUME NEW a \in Actors, NEW m \in Msgs, WriteMsg(a, m) PROVE ScanInv'
  BY <1>7 DEF WriteMsg, TypeOK, ScanInv
<1>8. ASSUME NEW a \in Actors, WriteFails(a) PROVE ScanInv'
  BY <1>8 DEF WriteFails, Fault, DropBucket, Goto, TypeOK, ScanInv
<1>9. ASSUME NEW a \in Actors, ClosePkt(a) PROVE ScanInv'
  BY <1>9 DEF ClosePkt, Goto, TypeOK, ScanInv
<1>10. ASSUME NEW a \in Actors, NEW m \in Msgs, Mark(a, m) PROVE ScanInv'
  BY <1>10 DEF Mark, TypeOK, ScanInv
<1>11. ASSUME NEW a \in Actors, NEW m \in Msgs, MarkFails(a, m) PROVE ScanInv'
  BY <1>11 DEF MarkFails, Fault, TypeOK, ScanInv
<1>12. ASSUME NEW a \in Actors, NextBucket(a) PROVE ScanInv'
  BY <1>12 DEF NextBucket, Goto, DropBucket, TypeOK, ScanInv
<1>13. ASSUME NEW a \in Actors, EndScan(a) PROVE ScanInv'
  BY <1>13 DEF EndScan, Goto, AfterScan, TypeOK, ScanInv
<1>14. ASSUME NEW a \in Actors, List(a) PROVE ScanInv'
  BY <1>14 DEF List, Goto, FilesFor, TypeOK, ScanInv
<1>15. ASSUME NEW a \in Actors, NEW p \in Pkts, SendVanished(a, p)
     PROVE ScanInv'
  BY <1>15 DEF SendVanished, Abort, Goto, TypeOK, ScanInv
<1>16. ASSUME NEW a \in Actors, NEW p \in Pkts, SendFails(a, p) PROVE ScanInv'
  BY <1>16 DEF SendFails, Abort, Goto, Fault, TypeOK, ScanInv
<1>17. ASSUME NEW a \in Actors, ReceiveFails(a) PROVE ScanInv'
  BY <1>17 DEF ReceiveFails, Abort, Goto, Fault, TypeOK, ScanInv
<1>18. ASSUME NEW a \in Actors, EndBatch(a) PROVE ScanInv'
  BY <1>18 DEF EndBatch, Goto, TypeOK, ScanInv
<1>19. ASSUME NEW a \in Actors, NEW p \in Pkts, Remove(a, p) PROVE ScanInv'
  BY <1>19 DEF Remove, TypeOK, ScanInv
<1>20. ASSUME NEW a \in Actors, EndSession(a) PROVE ScanInv'
  BY <1>20 DEF EndSession, Goto, TypeOK, ScanInv
<1>21. ASSUME Crash PROVE ScanInv'
  BY <1>21 DEF Crash, Fault, NoBucket, TypeOK, ScanInv
<1>22. ASSUME UNCHANGED <<disk, used, dest, body, pc, bucket, cur, rest>> PROVE ScanInv'
  BY <1>22 DEF TypeOK, ScanInv
<1>23. QED
  BY <1>1, <1>2, <1>3, <1>4, <1>5, <1>6, <1>7, <1>8, <1>9, <1>10, <1>11,
     <1>12, <1>13, <1>14, <1>15, <1>16, <1>17, <1>18, <1>19, <1>20, <1>21,
     <1>22 DEF Next, ScanStep, SessionStep, vars, Post, Subscribe, Send

LEMMA ScanInvHolds == Spec => [](TypeOK /\ ScanInv)
<1>1. Init => ScanInv
  BY DEF Init, ScanInv
<1>2. QED
  BY <1>1, TypeCorrect, ScanInvStep, PTL DEF Spec

\* No step marks a message that is in no packet, or takes one out of its
\* packet.
LEMMA MarkedStep == TypeOK /\ ScanInv /\ MarkedWasPacked /\ [Next]_vars =>
  MarkedWasPacked'
<1> SUFFICES ASSUME TypeOK, ScanInv, MarkedWasPacked, [Next]_vars PROVE
      MarkedWasPacked'
  OBVIOUS
<1> USE EchoExportAssumption DEF db, dir, scan, session, history, Dests
<1>1. ASSUME NEW a \in Actors, NEW d \in Dests, NEW p \in Pkts,
     CreatePkt(a, d, p) PROVE MarkedWasPacked'
  BY <1>1 DEF CreatePkt, Goto, TypeOK, ScanInv, MarkedWasPacked
<1>2. ASSUME NEW a \in Actors, NEW m \in Msgs, WriteMsg(a, m)
     PROVE MarkedWasPacked'
  BY <1>2 DEF WriteMsg, TypeOK, ScanInv, MarkedWasPacked
<1>3. ASSUME NEW a \in Actors, NEW m \in Msgs, Mark(a, m)
     PROVE MarkedWasPacked'
  BY <1>3 DEF Mark, TypeOK, ScanInv, MarkedWasPacked
<1>4. ASSUME UNCHANGED <<exported, used, body>> PROVE MarkedWasPacked'
  BY <1>4 DEF TypeOK, ScanInv, MarkedWasPacked
<1>5. QED
  BY <1>1, <1>2, <1>3, <1>4 DEF Next, ScanStep, SessionStep, vars, Post,
     Subscribe, BeginScan, Goto, EmptyScan, FanOut, Bucketed, CreateFails,
     DropBucket, Fault, WriteFails, ClosePkt, MarkFails, NextBucket, EndScan,
     AfterScan, List, Send, SendVanished, Abort, SendFails, ReceiveFails,
     EndBatch, Remove, EndSession, Crash

\* Whatever scans, sessions, faults and crashes interleave, a message marked
\* exported was written into a packet (scan.go:250 comes after scan.go:231).
THEOREM MarkedPacked == Spec => []MarkedWasPacked
<1>1. Init => MarkedWasPacked
  BY DEF Init, MarkedWasPacked
<1>2. QED
  BY <1>1, ScanInvHolds, MarkedStep, PTL DEF Spec

\* Buckets, packets and session queues keep to their address.
LEMMA AddressStep == TypeOK /\ ScanInv /\ AddressInv /\ [Next]_vars =>
  AddressInv'
<1> SUFFICES ASSUME TypeOK, ScanInv, AddressInv, [Next]_vars PROVE AddressInv'
  OBVIOUS
<1> USE EchoExportAssumption DEF db, dir, scan, session, history, Dests
<1>1. ASSUME NEW a \in Actors, NEW m \in Msgs, FanOut(a, m) PROVE AddressInv'
  BY <1>1 DEF FanOut, TypeOK, ScanInv, AddressInv
<1>2. ASSUME NEW a \in Actors, NEW d \in Dests, NEW p \in Pkts,
     CreatePkt(a, d, p) PROVE AddressInv'
  BY <1>2 DEF CreatePkt, Goto, TypeOK, ScanInv, AddressInv
<1>3. ASSUME NEW a \in Actors, NEW d \in Dests, CreateFails(a, d)
     PROVE AddressInv'
  BY <1>3 DEF CreateFails, DropBucket, Fault, TypeOK, ScanInv, AddressInv
<1>4. ASSUME NEW a \in Actors, NEW m \in Msgs, WriteMsg(a, m)
     PROVE AddressInv'
  BY <1>4 DEF WriteMsg, TypeOK, ScanInv, AddressInv
<1>5. ASSUME NEW a \in Actors, WriteFails(a) PROVE AddressInv'
  BY <1>5 DEF WriteFails, Fault, DropBucket, Goto, TypeOK, ScanInv, AddressInv
<1>6. ASSUME NEW a \in Actors, NextBucket(a) PROVE AddressInv'
  BY <1>6 DEF NextBucket, Goto, DropBucket, TypeOK, ScanInv, AddressInv
<1>7. ASSUME NEW a \in Actors, List(a) PROVE AddressInv'
  BY <1>7 DEF List, Goto, FilesFor, TypeOK, ScanInv, AddressInv
<1>8. ASSUME NEW a \in Actors, NEW p \in Pkts, Send(a, p) PROVE AddressInv'
  BY <1>8 DEF Send, TypeOK, ScanInv, AddressInv
<1>9. ASSUME NEW a \in Actors, NEW p \in Pkts, SendVanished(a, p)
     PROVE AddressInv'
  BY <1>9 DEF SendVanished, Abort, Goto, TypeOK, ScanInv, AddressInv
<1>10. ASSUME NEW a \in Actors, NEW p \in Pkts, SendFails(a, p)
     PROVE AddressInv'
  BY <1>10 DEF SendFails, Abort, Goto, Fault, TypeOK, ScanInv, AddressInv
<1>11. ASSUME NEW a \in Actors, ReceiveFails(a) PROVE AddressInv'
  BY <1>11 DEF ReceiveFails, Abort, Goto, Fault, TypeOK, ScanInv, AddressInv
<1>12. ASSUME Crash PROVE AddressInv'
  BY <1>12 DEF Crash, Fault, NoBucket, TypeOK, ScanInv, AddressInv
<1>13. ASSUME UNCHANGED <<used, dest, body, bucket, queue, owed>> PROVE AddressInv'
  BY <1>13 DEF TypeOK, ScanInv, AddressInv
<1>14. QED
  BY <1>1, <1>2, <1>3, <1>4, <1>5, <1>6, <1>7, <1>8, <1>9, <1>10, <1>11,
     <1>12, <1>13 DEF Next, ScanStep, SessionStep, vars, Post, Subscribe,
     BeginScan, Goto, EmptyScan, Bucketed, ClosePkt, Mark, MarkFails, Fault,
     EndScan, AfterScan, EndBatch, Remove, EndSession

LEMMA AddressHolds == Spec => [](TypeOK /\ ScanInv /\ AddressInv)
<1>1. Init => AddressInv
  BY DEF Init, AddressInv, NoBucket, Dests
<1>2. QED
  BY <1>1, ScanInvHolds, AddressStep, PTL DEF Spec

\* A session hands over only what was addressed to its peer.
LEMMA OnlyAddressedStep == TypeOK /\ AddressInv /\ OnlyAddressed /\
  [Next]_vars => OnlyAddressed'
<1> SUFFICES ASSUME TypeOK, AddressInv, OnlyAddressed, [Next]_vars PROVE
      OnlyAddressed'
  OBVIOUS
<1> USE EchoExportAssumption DEF db, dir, scan, session, history, Dests
<1>1. ASSUME NEW a \in Actors, NEW m \in Msgs, FanOut(a, m)
     PROVE OnlyAddressed'
  BY <1>1 DEF FanOut, TypeOK, AddressInv, OnlyAddressed
<1>2. ASSUME NEW a \in Actors, NEW p \in Pkts, Send(a, p) PROVE OnlyAddressed'
  BY <1>2 DEF Send, TypeOK, AddressInv, OnlyAddressed
<1>3. ASSUME NEW a \in Actors, NEW p \in Pkts, SendFails(a, p)
     PROVE OnlyAddressed'
  <2>1. \A m \in body[p] : <<m, Peer[a]>> \in owed
    BY <1>3 DEF SendFails, TypeOK, AddressInv
  <2>2. \A d \in Dests : \/ delivered'[d] = delivered[d]
                         \/ d = Peer[a]
                            /\ delivered'[d] = delivered[d] \cup body[p]
    BY <1>3 DEF SendFails, TypeOK
  <2>3. QED
    BY <1>3, <2>1, <2>2 DEF SendFails, OnlyAddressed
<1>4. ASSUME UNCHANGED <<owed, delivered>> PROVE OnlyAddressed'
  BY <1>4 DEF TypeOK, AddressInv, OnlyAddressed
<1>5. QED
  BY <1>1, <1>2, <1>3, <1>4 DEF Next, ScanStep, SessionStep, vars, Post,
     Subscribe, BeginScan, Goto, EmptyScan, Bucketed, CreatePkt, CreateFails,
     DropBucket, Fault, WriteMsg, WriteFails, ClosePkt, Mark, MarkFails,
     NextBucket, EndScan, AfterScan, List, SendVanished, Abort, ReceiveFails,
     EndBatch, Remove, EndSession, Crash

\* No destination is ever given a message that no scan addressed to it, even
\* from a packet caught half written or left by a crash.
THEOREM AddressedOnly == Spec => []OnlyAddressed
<1>1. Init => OnlyAddressed
  BY DEF Init, OnlyAddressed
<1>2. QED
  BY <1>1, AddressHolds, OnlyAddressedStep, PTL DEF Spec

\* The poll deletes neither its packet in the making nor an untaken one.
LEMMA PollInvStep == SinglePoll /\ TypeOK /\ AddressInv /\ PollInv /\
  [Next]_vars => PollInv'
<1> SUFFICES ASSUME SinglePoll, TypeOK, AddressInv, PollInv, [Next]_vars PROVE
      PollInv'
  OBVIOUS
<1> USE EchoExportAssumption DEF db, dir, scan, session, history, Dests
<1>1. ASSUME NEW a \in Actors, BeginScan(a) PROVE PollInv'
  BY <1>1 DEF BeginScan, Goto, TypeOK, AddressInv, PollInv, SinglePoll
<1>2. ASSUME NEW a \in Actors, EmptyScan(a) PROVE PollInv'
  BY <1>2 DEF EmptyScan, Goto, TypeOK, AddressInv, PollInv, SinglePoll
<1>3. ASSUME NEW a \in Actors, Bucketed(a) PROVE PollInv'
  BY <1>3 DEF Bucketed, Goto, TypeOK, AddressInv, PollInv, SinglePoll
<1>4. ASSUME NEW a \in Actors, NEW d \in Dests, NEW p \in Pkts,
     CreatePkt(a, d, p) PROVE PollInv'
  <2>1. \A b \in Actors : sent[b] = {}
    BY <1>4 DEF CreatePkt, PollInv, SinglePoll
  <2>2. \A b \in Actors : pc'[b] \in {"write", "mark"} => cur'[b] \in disk'
    BY <1>4 DEF CreatePkt, Goto, TypeOK, PollInv
  <2>3. QED
    BY <1>4, <2>1, <2>2 DEF CreatePkt, PollInv
<1>5. ASSUME NEW a \in Actors, NEW m \in Msgs, WriteMsg(a, m) PROVE PollInv'
  <2>1. \A b \in Actors : sent[b] = {}
    BY <1>5 DEF WriteMsg, PollInv, SinglePoll
  <2>2. QED
    BY <1>5, <2>1 DEF WriteMsg, PollInv
<1>6. ASSUME NEW a \in Actors, WriteFails(a) PROVE PollInv'
  BY <1>6 DEF WriteFails, Fault, DropBucket, Goto, TypeOK, AddressInv,
     PollInv, SinglePoll
<1>7. ASSUME NEW a \in Actors, ClosePkt(a) PROVE PollInv'
  BY <1>7 DEF ClosePkt, Goto, TypeOK, AddressInv, PollInv, SinglePoll
<1>8. ASSUME NEW a \in Actors, NextBucket(a) PROVE PollInv'
  BY <1>8 DEF NextBucket, Goto, DropBucket, TypeOK, AddressInv, PollInv,
     SinglePoll
<1>9. ASSUME NEW a \in Actors, EndScan(a) PROVE PollInv'
  BY <1>9 DEF EndScan, Goto, AfterScan, TypeOK, AddressInv, PollInv,
     SinglePoll
<1>10. ASSUME NEW a \in Actors, List(a) PROVE PollInv'
  BY <1>10 DEF List, Goto, FilesFor, TypeOK, AddressInv, PollInv, SinglePoll
<1>11. ASSUME NEW a \in Actors, NEW p \in Pkts, Send(a, p) PROVE PollInv'
  BY <1>11 DEF Send, TypeOK, AddressInv, PollInv, SinglePoll
<1>12. ASSUME NEW a \in Actors, NEW p \in Pkts, SendVanished(a, p)
     PROVE PollInv'
  BY <1>12 DEF SendVanished, Abort, Goto, TypeOK, AddressInv, PollInv,
     SinglePoll
<1>13. ASSUME NEW a \in Actors, NEW p \in Pkts, SendFails(a, p) PROVE PollInv'
  BY <1>13 DEF SendFails, Abort, Goto, Fault, TypeOK, AddressInv, PollInv,
     SinglePoll
<1>14. ASSUME NEW a \in Actors, ReceiveFails(a) PROVE PollInv'
  BY <1>14 DEF ReceiveFails, Abort, Goto, Fault, TypeOK, AddressInv, PollInv,
     SinglePoll
<1>15. ASSUME NEW a \in Actors, EndBatch(a) PROVE PollInv'
  BY <1>15 DEF EndBatch, Goto, TypeOK, AddressInv, PollInv, SinglePoll
<1>16. ASSUME NEW a \in Actors, NEW p \in Pkts, Remove(a, p) PROVE PollInv'
  BY <1>16 DEF Remove, TypeOK, AddressInv, PollInv, SinglePoll
<1>17. ASSUME NEW a \in Actors, EndSession(a) PROVE PollInv'
  BY <1>17 DEF EndSession, Goto, TypeOK, AddressInv, PollInv, SinglePoll
<1>18. ASSUME Crash PROVE PollInv'
  BY <1>18 DEF Crash, Fault, NoBucket, TypeOK, AddressInv, PollInv, SinglePoll
<1>19. ASSUME UNCHANGED <<disk, dest, body, pc, cur, sent, delivered>> PROVE PollInv'
  BY <1>19 DEF TypeOK, AddressInv, PollInv, SinglePoll
<1>20. QED
  BY <1>1, <1>2, <1>3, <1>4, <1>5, <1>6, <1>7, <1>8, <1>9, <1>10, <1>11,
     <1>12, <1>13, <1>14, <1>15, <1>16, <1>17, <1>18, <1>19 DEF Next,
     ScanStep, SessionStep, vars, Post, Subscribe, FanOut, CreateFails,
     DropBucket, Fault, Mark, MarkFails

LEMMA PollInvHolds ==
  ASSUME SinglePoll
  PROVE  Spec => [](TypeOK /\ ScanInv /\ AddressInv /\ PollInv)
<1>1. Init => PollInv
  BY DEF Init, PollInv
<1>2. TypeOK /\ AddressInv /\ PollInv /\ [Next]_vars => PollInv'
  BY SinglePoll, PollInvStep
<1>3. QED
  BY <1>1, <1>2, AddressHolds, PTL DEF Spec

\* A marked message stays in its packet until its destination has it.
LEMMA NoLossStep == SinglePoll /\ TypeOK /\ ScanInv /\ PollInv /\ NoLoss /\
  [Next]_vars => NoLoss'
<1> SUFFICES ASSUME SinglePoll, TypeOK, ScanInv, PollInv, NoLoss, [Next]_vars
      PROVE NoLoss'
  OBVIOUS
<1> USE EchoExportAssumption DEF db, dir, scan, session, history, Dests
<1>1. ASSUME NEW a \in Actors, NEW d \in Dests, NEW p \in Pkts,
     CreatePkt(a, d, p) PROVE NoLoss'
  BY <1>1 DEF CreatePkt, Goto, TypeOK, ScanInv, PollInv, SinglePoll, NoLoss,
     Secured, Waiting
<1>2. ASSUME NEW a \in Actors, NEW m \in Msgs, WriteMsg(a, m) PROVE NoLoss'
  BY <1>2 DEF WriteMsg, TypeOK, ScanInv, PollInv, SinglePoll, NoLoss, Secured,
     Waiting
<1>3. ASSUME NEW a \in Actors, NEW m \in Msgs, Mark(a, m) PROVE NoLoss'
  BY <1>3 DEF Mark, TypeOK, ScanInv, PollInv, SinglePoll, NoLoss, Secured,
     Waiting
<1>4. ASSUME NEW a \in Actors, NEW p \in Pkts, Send(a, p) PROVE NoLoss'
  BY <1>4 DEF Send, TypeOK, ScanInv, PollInv, SinglePoll, NoLoss, Secured,
     Waiting
<1>5. ASSUME NEW a \in Actors, NEW p \in Pkts, SendFails(a, p) PROVE NoLoss'
  BY <1>5 DEF SendFails, Abort, Goto, Fault, TypeOK, ScanInv, PollInv,
     SinglePoll, NoLoss, Secured, Waiting
<1>6. ASSUME NEW a \in Actors, NEW p \in Pkts, Remove(a, p) PROVE NoLoss'
  BY <1>6 DEF Remove, TypeOK, ScanInv, PollInv, SinglePoll, NoLoss, Secured,
     Waiting
<1>7. ASSUME UNCHANGED <<exported, disk, dest, body, delivered>> PROVE NoLoss'
  BY <1>7 DEF TypeOK, ScanInv, PollInv, SinglePoll, NoLoss, Secured, Waiting
<1>8. QED
  BY <1>1, <1>2, <1>3, <1>4, <1>5, <1>6, <1>7 DEF Next, ScanStep, SessionStep,
     vars, Post, Subscribe, BeginScan, Goto, EmptyScan, FanOut, Bucketed,
     CreateFails, DropBucket, Fault, WriteFails, ClosePkt, MarkFails,
     NextBucket, EndScan, AfterScan, List, SendVanished, Abort, ReceiveFails,
     EndBatch, EndSession, Crash

\* At-least-once: with one poll at work, through any number of I/O errors,
\* dropped sessions and crashes, a message that later scans pass over is in a
\* waiting packet or has been taken.
THEOREM ExportNoLoss ==
  ASSUME SinglePoll
  PROVE  Spec => []NoLoss
<1>1. Init => NoLoss
  BY DEF Init, NoLoss
<1>2. TypeOK /\ ScanInv /\ PollInv /\ NoLoss /\ [Next]_vars => NoLoss'
  BY SinglePoll, NoLossStep
<1>3. QED
  BY <1>1, <1>2, PollInvHolds, PTL DEF Spec

\* Under the same conditions no packet file is deleted before its
\* destination has taken all it holds.
THEOREM RemovalSafe ==
  ASSUME SinglePoll
  PROVE  Spec => RemovedWasDelivered
<1> DEFINE Safe == \A p \in disk \ disk' : body[p] \subseteq delivered[dest[p]]
<1>1. TypeOK /\ PollInv /\ [Next]_vars => [Safe]_vars
  <2> SUFFICES ASSUME TypeOK, PollInv, Next, NEW p \in disk \ disk'
               PROVE  body[p] \subseteq delivered[dest[p]]
    OBVIOUS
  <2>1. \E a \in Actors : p \in sent[a]
    BY DEF Next, ScanStep, SessionStep, Post, Subscribe, BeginScan, EmptyScan,
       FanOut, Bucketed, CreatePkt, CreateFails, WriteMsg, WriteFails,
       ClosePkt, Mark, MarkFails, NextBucket, EndScan, List, Send,
       SendVanished, SendFails, ReceiveFails, EndBatch, Remove, EndSession,
       Crash, dir
  <2>2. QED
    BY <2>1 DEF PollInv
<1>2. QED
  BY <1>1, PollInvHolds, PTL DEF Spec, RemovedWasDelivered

-----------------------------------------------------------------------------
\* Buckets are filled and emptied by a scan only.
LEMMA IdleStep == TypeOK /\ IdleInv /\ [Next]_vars => IdleInv'
<1> SUFFICES ASSUME TypeOK, IdleInv, [Next]_vars PROVE IdleInv'
  OBVIOUS
<1> USE EchoExportAssumption DEF db, dir, scan, session, history, Dests
<1>1. ASSUME NEW a \in Actors, BeginScan(a) PROVE IdleInv'
  BY <1>1 DEF BeginScan, Goto, TypeOK, IdleInv, Scanning
<1>2. ASSUME NEW a \in Actors, EmptyScan(a) PROVE IdleInv'
  BY <1>2 DEF EmptyScan, Goto, TypeOK, IdleInv, Scanning
<1>3. ASSUME NEW a \in Actors, NEW m \in Msgs, FanOut(a, m) PROVE IdleInv'
  BY <1>3 DEF FanOut, TypeOK, IdleInv, Scanning
<1>4. ASSUME NEW a \in Actors, Bucketed(a) PROVE IdleInv'
  BY <1>4 DEF Bucketed, Goto, TypeOK, IdleInv, Scanning
<1>5. ASSUME NEW a \in Actors, NEW d \in Dests, NEW p \in Pkts, CreatePkt(a,
     d, p) PROVE IdleInv'
  BY <1>5 DEF CreatePkt, Goto, TypeOK, IdleInv, Scanning
<1>6. ASSUME NEW a \in Actors, NEW d \in Dests, CreateFails(a, d) PROVE
     IdleInv'
  BY <1>6 DEF CreateFails, DropBucket, Fault, TypeOK, IdleInv, Scanning
<1>7. ASSUME NEW a \in Actors, NEW m \in Msgs, WriteMsg(a, m) PROVE IdleInv'
  BY <1>7 DEF WriteMsg, TypeOK, IdleInv, Scanning
<1>8. ASSUME NEW a \in Actors, WriteFails(a) PROVE IdleInv'
  BY <1>8 DEF WriteFails, Fault, DropBucket, Goto, TypeOK, IdleInv, Scanning
<1>9. ASSUME NEW a \in Actors, ClosePkt(a) PROVE IdleInv'
  BY <1>9 DEF ClosePkt, Goto, TypeOK, IdleInv, Scanning
<1>10. ASSUME NEW a \in Actors, NextBucket(a) PROVE IdleInv'
  BY <1>10 DEF NextBucket, DropBucket, Goto, TypeOK, IdleInv, Scanning
<1>11. ASSUME NEW a \in Actors, EndScan(a) PROVE IdleInv'
  BY <1>11 DEF EndScan, Goto, AfterScan, TypeOK, IdleInv, Scanning
<1>12. ASSUME NEW a \in Actors, List(a) PROVE IdleInv'
  BY <1>12 DEF List, Goto, FilesFor, TypeOK, IdleInv, Scanning
<1>13. ASSUME NEW a \in Actors, NEW p \in Pkts, SendVanished(a, p) PROVE
     IdleInv'
  BY <1>13 DEF SendVanished, Abort, Goto, TypeOK, IdleInv, Scanning
<1>14. ASSUME NEW a \in Actors, NEW p \in Pkts, SendFails(a, p) PROVE IdleInv'
  BY <1>14 DEF SendFails, Abort, Goto, Fault, TypeOK, IdleInv, Scanning
<1>15. ASSUME NEW a \in Actors, ReceiveFails(a) PROVE IdleInv'
  BY <1>15 DEF ReceiveFails, Abort, Goto, Fault, TypeOK, IdleInv, Scanning
<1>16. ASSUME NEW a \in Actors, EndBatch(a) PROVE IdleInv'
  BY <1>16 DEF EndBatch, Goto, TypeOK, IdleInv, Scanning
<1>17. ASSUME NEW a \in Actors, EndSession(a) PROVE IdleInv'
  BY <1>17 DEF EndSession, Goto, TypeOK, IdleInv, Scanning
<1>18. ASSUME Crash PROVE IdleInv'
  BY <1>18 DEF Crash, Fault, TypeOK, IdleInv, Scanning
<1>19. ASSUME UNCHANGED <<pc, bucket>> PROVE IdleInv'
  BY <1>19 DEF TypeOK, IdleInv, Scanning
<1>20. QED
  BY <1>1, <1>2, <1>3, <1>4, <1>5, <1>6, <1>7, <1>8, <1>9, <1>10, <1>11,
     <1>12, <1>13, <1>14, <1>15, <1>16, <1>17, <1>18, <1>19 DEF Next,
     ScanStep, SessionStep, vars, Post, Subscribe, Mark, MarkFails, Fault,
     Send, Remove

\* No step takes a message out of a packet, or gives a packet another address.
LEMMA PackedGrows ==
  TypeOK /\ ScanInv /\ [Next]_vars =>
    /\ used \subseteq used'
    /\ \A m, d : Packed(m, d) => Packed(m, d)'
<1> SUFFICES ASSUME TypeOK, ScanInv, [Next]_vars
             PROVE  /\ used \subseteq used'
                    /\ \A p \in used : /\ dest'[p] = dest[p]
                                       /\ body[p] \subseteq body'[p]
  BY DEF Packed
<1> DEFINE Goal == /\ used \subseteq used'
                   /\ \A p \in used : /\ dest'[p] = dest[p]
                                      /\ body[p] \subseteq body'[p]
<1> USE EchoExportAssumption DEF db, dir, scan, session, history, Dests
<1>1. ASSUME NEW a \in Actors, NEW d \in Dests, NEW p \in Pkts, CreatePkt(a,
     d, p) PROVE Goal
  BY <1>1 DEF CreatePkt, Goto, TypeOK, ScanInv
<1>2. ASSUME NEW a \in Actors, NEW m \in Msgs, WriteMsg(a, m) PROVE Goal
  BY <1>2 DEF WriteMsg, TypeOK, ScanInv
<1>3. ASSUME UNCHANGED <<used, dest, body>> PROVE Goal
  BY <1>3 DEF TypeOK, ScanInv
<1>4. QED
  BY <1>1, <1>2, <1>3 DEF Next, ScanStep, SessionStep, vars, Post, Subscribe,
     BeginScan, Goto, EmptyScan, FanOut, Bucketed, CreateFails, DropBucket,
     Fault, WriteFails, ClosePkt, Mark, MarkFails, NextBucket, EndScan,
     AfterScan, List, FilesFor, Send, SendVanished, Abort, SendFails,
     ReceiveFails, EndBatch, Remove, EndSession, Crash

\* What is fanned out is not lost between its bucket and its packet.
LEMMA FanoutStep == TypeOK /\ ScanInv /\ FanoutInv /\ [Next]_vars => FanoutInv'
<1> SUFFICES ASSUME TypeOK, ScanInv, FanoutInv, [Next]_vars,
                    faults' = 0, used' # Pkts,
                    NEW n \in Msgs, NEW e \in Dests, <<n, e>> \in owed'
             PROVE  Packed(n, e)' \/ \E b \in Actors : n \in bucket'[b][e]
  BY DEF FanoutInv, Packed
<1> DEFINE Goal == Packed(n, e)' \/ \E b \in Actors : n \in bucket'[b][e]
<1> USE EchoExportAssumption DEF db, dir, scan, session, history, Dests
<1>1. faults = 0
  BY DEF Next, ScanStep, SessionStep, vars, Post, Subscribe, BeginScan,
     EmptyScan, FanOut, Bucketed, CreatePkt, CreateFails, Fault, WriteMsg,
     WriteFails, ClosePkt, Mark, MarkFails, NextBucket, EndScan, List, Send,
     SendVanished, SendFails, ReceiveFails, EndBatch, Remove, EndSession,
     Crash, TypeOK
<1>2. used # Pkts /\ (Packed(n, e) => Packed(n, e)')
  BY TypeStep, PackedGrows DEF TypeOK
<1>3. <<n, e>> \in owed => Packed(n, e)' \/ \E b \in Actors : n \in bucket[b][e]
  BY <1>1, <1>2 DEF FanoutInv
<1>4. ASSUME NEW a \in Actors, NEW m \in Msgs, FanOut(a, m) PROVE Goal
  BY <1>3, <1>4 DEF FanOut, TypeOK
<1>5. ASSUME NEW a \in Actors, NEW d \in Dests, CreateFails(a, d) PROVE Goal
  BY <1>1, <1>2, <1>5 DEF CreateFails, Fault, TypeOK
<1>6. ASSUME NEW a \in Actors, WriteFails(a) PROVE Goal
  BY <1>1, <1>6 DEF WriteFails, Fault, TypeOK
<1>7. ASSUME NEW a \in Actors, NextBucket(a) PROVE Goal
  <2>1. UNCHANGED <<used, dest, body, owed>>
    BY <1>7 DEF NextBucket
  <2>2. CASE n \in bucket[a][e] /\ e = dest[cur[a]]
    BY <1>7, <2>1, <2>2 DEF NextBucket, ScanInv, TypeOK, Packed
  <2>3. ASSUME NEW b \in Actors, n \in bucket[b][e],
               ~(n \in bucket[a][e] /\ e = dest[cur[a]])
        PROVE  n \in bucket'[b][e]
    BY <1>7, <2>3 DEF NextBucket, DropBucket, TypeOK
  <2>4. QED
    BY <1>3, <2>1, <2>2, <2>3
<1>8. CASE Crash
  BY <1>1, <1>8 DEF Crash, Fault, TypeOK
<1>9. CASE UNCHANGED <<owed, bucket>>
  BY <1>3, <1>9
<1>10. QED
  BY <1>4, <1>5, <1>6, <1>7, <1>8, <1>9
     DEF Next, ScanStep, SessionStep, vars, Post, Subscribe, BeginScan,
     EmptyScan, Bucketed, CreatePkt, WriteMsg, ClosePkt, Mark, MarkFails,
     EndScan, List, Send, SendVanished, SendFails, ReceiveFails, EndBatch,
     Remove, EndSession

\* Both hold throughout.
LEMMA FanoutInvHolds == Spec => [](TypeOK /\ ScanInv /\ IdleInv /\ FanoutInv)
<1>1. Init => IdleInv /\ FanoutInv
  BY DEF Init, IdleInv, FanoutInv
<1>2. QED
  BY <1>1, ScanInvHolds, IdleStep, FanoutStep, PTL DEF Spec

\* While nothing fails and packets can still be created, every message that
\* is marked exported is packed for each destination it was fanned out to, as
\* soon as no scan is at work -- however many goroutines scan and call
\* (scan.go:243).
THEOREM FanoutIsComplete == Spec => []FanoutComplete
<1>1. TypeOK /\ IdleInv /\ FanoutInv => FanoutComplete
  <2> SUFFICES ASSUME TypeOK, IdleInv, FanoutInv, faults = 0, used # Pkts,
                      \A a \in Actors : pc[a] \in {"idle", "list", "send", "remove"},
                      NEW m \in exported, NEW d \in Dests, <<m, d>> \in owed
               PROVE  Packed(m, d)
    BY DEF FanoutComplete, Packed
  <2>1. \A a \in Actors : m \notin bucket[a][d]
    BY DEF IdleInv, Scanning, NoBucket
  <2>2. QED
    BY <2>1 DEF FanoutInv, TypeOK
<1>2. QED
  BY <1>1, FanoutInvHolds, PTL

\* A single scan keeps its buckets apart from what is packed already.
LEMMA OnceStep ==
  SinglePoll /\ TypeOK /\ ScanInv /\ IdleInv /\ OnceInv /\ [Next]_vars
    => OnceInv'
<1> SUFFICES ASSUME SinglePoll, TypeOK, ScanInv, IdleInv, OnceInv,
                    [Next]_vars
             PROVE  OnceInv'
  OBVIOUS
<1> USE EchoExportAssumption DEF db, dir, scan, session, history, Dests
<1>1. ASSUME NEW a \in Actors, BeginScan(a) PROVE OnceInv'
  BY <1>1 DEF BeginScan, Goto, SinglePoll, TypeOK, ScanInv, IdleInv, OnceInv,
     Scanning, Making, NoBucket
<1>2. ASSUME NEW a \in Actors, EmptyScan(a) PROVE OnceInv'
  BY <1>2 DEF EmptyScan, Goto, SinglePoll, TypeOK, ScanInv, IdleInv, OnceInv,
     Scanning, Making, NoBucket
<1>3. ASSUME NEW a \in Actors, NEW m \in Msgs, FanOut(a, m) PROVE OnceInv'
  BY <1>3 DEF FanOut, SinglePoll, TypeOK, ScanInv, IdleInv, OnceInv, Scanning,
     Making, NoBucket
<1>4. ASSUME NEW a \in Actors, Bucketed(a) PROVE OnceInv'
  BY <1>4 DEF Bucketed, Goto, SinglePoll, TypeOK, ScanInv, IdleInv, OnceInv,
     Scanning, Making, NoBucket
<1>5. ASSUME NEW a \in Actors, NEW d \in Dests, NEW p \in Pkts, CreatePkt(a,
     d, p) PROVE OnceInv'
  BY <1>5 DEF CreatePkt, Goto, SinglePoll, TypeOK, ScanInv, IdleInv, OnceInv,
     Scanning, Making, NoBucket
<1>6. ASSUME NEW a \in Actors, NEW d \in Dests, CreateFails(a, d) PROVE
     OnceInv'
  BY <1>6 DEF CreateFails, DropBucket, Fault, SinglePoll, TypeOK, ScanInv,
     IdleInv, OnceInv, Scanning, Making, NoBucket
<1>7. ASSUME NEW a \in Actors, NEW m \in Msgs, WriteMsg(a, m) PROVE OnceInv'
  BY <1>7 DEF WriteMsg, SinglePoll, TypeOK, ScanInv, IdleInv, OnceInv,
     Scanning, Making, NoBucket
<1>8. ASSUME NEW a \in Actors, WriteFails(a) PROVE OnceInv'
  BY <1>8 DEF WriteFails, Fault, DropBucket, Goto, SinglePoll, TypeOK,
     ScanInv, IdleInv, OnceInv, Scanning, Making, NoBucket
<1>9. ASSUME NEW a \in Actors, ClosePkt(a) PROVE OnceInv'
  BY <1>9 DEF ClosePkt, Goto, SinglePoll, TypeOK, ScanInv, IdleInv, OnceInv,
     Scanning, Making, NoBucket
<1>10. ASSUME NEW a \in Actors, NEW m \in Msgs, Mark(a, m) PROVE OnceInv'
  BY <1>10 DEF Mark, SinglePoll, TypeOK, ScanInv, IdleInv, OnceInv, Scanning,
     Making, NoBucket
<1>11. ASSUME NEW a \in Actors, NEW m \in Msgs, MarkFails(a, m) PROVE OnceInv'
  BY <1>11 DEF MarkFails, Fault, SinglePoll, TypeOK, ScanInv, IdleInv,
     OnceInv, Scanning, Making, NoBucket
<1>12. ASSUME NEW a \in Actors, NextBucket(a) PROVE OnceInv'
  BY <1>12 DEF NextBucket, DropBucket, Goto, SinglePoll, TypeOK, ScanInv,
     IdleInv, OnceInv, Scanning, Making, NoBucket
<1>13. ASSUME NEW a \in Actors, EndScan(a) PROVE OnceInv'
  BY <1>13 DEF EndScan, Goto, AfterScan, SinglePoll, TypeOK, ScanInv, IdleInv,
     OnceInv, Scanning, Making, NoBucket
<1>14. ASSUME NEW a \in Actors, List(a) PROVE OnceInv'
  BY <1>14 DEF List, Goto, FilesFor, SinglePoll, TypeOK, ScanInv, IdleInv,
     OnceInv, Scanning, Making, NoBucket
<1>15. ASSUME NEW a \in Actors, NEW p \in Pkts, SendVanished(a, p) PROVE
     OnceInv'
  BY <1>15 DEF SendVanished, Abort, Goto, SinglePoll, TypeOK, ScanInv,
     IdleInv, OnceInv, Scanning, Making, NoBucket
<1>16. ASSUME NEW a \in Actors, NEW p \in Pkts, SendFails(a, p) PROVE OnceInv'
  BY <1>16 DEF SendFails, Abort, Goto, Fault, SinglePoll, TypeOK, ScanInv,
     IdleInv, OnceInv, Scanning, Making, NoBucket
<1>17. ASSUME NEW a \in Actors, ReceiveFails(a) PROVE OnceInv'
  BY <1>17 DEF ReceiveFails, Abort, Goto, Fault, SinglePoll, TypeOK, ScanInv,
     IdleInv, OnceInv, Scanning, Making, NoBucket
<1>18. ASSUME NEW a \in Actors, EndBatch(a) PROVE OnceInv'
  BY <1>18 DEF EndBatch, Goto, SinglePoll, TypeOK, ScanInv, IdleInv, OnceInv,
     Scanning, Making, NoBucket
<1>19. ASSUME NEW a \in Actors, EndSession(a) PROVE OnceInv'
  BY <1>19 DEF EndSession, Goto, SinglePoll, TypeOK, ScanInv, IdleInv,
     OnceInv, Scanning, Making, NoBucket
<1>20. ASSUME Crash PROVE OnceInv'
  BY <1>20 DEF Crash, Fault, SinglePoll, TypeOK, ScanInv, IdleInv, OnceInv,
     Scanning, Making, NoBucket
<1>21. ASSUME UNCHANGED <<exported, used, dest, body, pc, todo, bucket, cur,
     rest, faults>> PROVE OnceInv'
  BY <1>21 DEF SinglePoll, TypeOK, ScanInv, IdleInv, OnceInv, Scanning,
     Making, NoBucket
<1>22. QED
  BY <1>1, <1>2, <1>3, <1>4, <1>5, <1>6, <1>7, <1>8, <1>9, <1>10, <1>11,
     <1>12, <1>13, <1>14, <1>15, <1>16, <1>17, <1>18, <1>19, <1>20, <1>21 DEF
     Next, ScanStep, SessionStep, vars, Post, Subscribe, Send, Remove

\* So what it writes is in no other packet for that destination.
LEMMA ExactlyOnceStep ==
  TypeOK /\ ScanInv /\ OnceInv /\ ExactlyOnce /\ [Next]_vars => ExactlyOnce'
<1> SUFFICES ASSUME TypeOK, ScanInv, OnceInv, ExactlyOnce, [Next]_vars
             PROVE  ExactlyOnce'
  OBVIOUS
<1> USE EchoExportAssumption DEF db, dir, scan, session, history, Dests
<1>1. ASSUME NEW a \in Actors, NEW d \in Dests, NEW p \in Pkts, CreatePkt(a,
     d, p) PROVE ExactlyOnce'
  BY <1>1 DEF CreatePkt, Goto, TypeOK, ScanInv, OnceInv, ExactlyOnce,
     Scanning, Making
<1>2. ASSUME NEW a \in Actors, NEW d \in Dests, CreateFails(a, d) PROVE
     ExactlyOnce'
  BY <1>2 DEF CreateFails, DropBucket, Fault, TypeOK, ScanInv, OnceInv,
     ExactlyOnce, Scanning, Making
<1>3. ASSUME NEW a \in Actors, NEW m \in Msgs, WriteMsg(a, m) PROVE
     ExactlyOnce'
  BY <1>3 DEF WriteMsg, TypeOK, ScanInv, OnceInv, ExactlyOnce, Scanning,
     Making
<1>4. ASSUME NEW a \in Actors, WriteFails(a) PROVE ExactlyOnce'
  BY <1>4 DEF WriteFails, Fault, DropBucket, Goto, TypeOK, ScanInv, OnceInv,
     ExactlyOnce, Scanning, Making
<1>5. ASSUME NEW a \in Actors, NEW m \in Msgs, MarkFails(a, m) PROVE
     ExactlyOnce'
  BY <1>5 DEF MarkFails, Fault, TypeOK, ScanInv, OnceInv, ExactlyOnce,
     Scanning, Making
<1>6. ASSUME NEW a \in Actors, NEW p \in Pkts, SendFails(a, p) PROVE
     ExactlyOnce'
  BY <1>6 DEF SendFails, Abort, Goto, Fault, TypeOK, ScanInv, OnceInv,
     ExactlyOnce, Scanning, Making
<1>7. ASSUME NEW a \in Actors, ReceiveFails(a) PROVE ExactlyOnce'
  BY <1>7 DEF ReceiveFails, Abort, Goto, Fault, TypeOK, ScanInv, OnceInv,
     ExactlyOnce, Scanning, Making
<1>8. ASSUME Crash PROVE ExactlyOnce'
  BY <1>8 DEF Crash, Fault, TypeOK, ScanInv, OnceInv, ExactlyOnce, Scanning,
     Making
<1>9. ASSUME UNCHANGED <<used, dest, body, faults>> PROVE ExactlyOnce'
  BY <1>9 DEF TypeOK, ScanInv, OnceInv, ExactlyOnce, Scanning, Making
<1>10. QED
  BY <1>1, <1>2, <1>3, <1>4, <1>5, <1>6, <1>7, <1>8, <1>9 DEF Next, ScanStep,
     SessionStep, vars, Post, Subscribe, BeginScan, Goto, EmptyScan, FanOut,
     Bucketed, ClosePkt, Mark, NextBucket, DropBucket, EndScan, AfterScan,
     List, FilesFor, Send, SendVanished, Abort, EndBatch, Remove, EndSession

\* With one poll at work and as long as nothing fails, no message is packed
\* twice for one destination (docs/FidoNet Config.md:191), though what a scan
\* lists is marked only message by message, bucket after bucket.
THEOREM PackedOnce ==
  ASSUME SinglePoll
  PROVE  Spec => []ExactlyOnce
<1> DEFINE Inv == OnceInv /\ ExactlyOnce
<1>1. Init => Inv
  BY DEF Init, OnceInv, ExactlyOnce, Scanning
<1>2. TypeOK /\ ScanInv /\ IdleInv /\ Inv /\ [Next]_vars => Inv'
  BY SinglePoll, OnceStep, ExactlyOnceStep
<1>3. Inv => ExactlyOnce
  OBVIOUS
<1>4. QED
  BY <1>1, <1>2, <1>3, FanoutInvHolds, PTL DEF Spec

-----------------------------------------------------------------------------
\* Only what was posted moves through the pipeline.
LEMMA PostedStep == TypeOK /\ PostedInv /\ [Next]_vars => PostedInv'
<1> SUFFICES ASSUME TypeOK, PostedInv, [Next]_vars PROVE PostedInv'
  OBVIOUS
<1> USE EchoExportAssumption DEF db, dir, scan, session, history, Dests
<1>1. ASSUME NEW m \in Msgs, Post(m) PROVE PostedInv'
  BY <1>1 DEF Post, TypeOK, PostedInv, NoBucket
<1>2. ASSUME NEW a \in Actors, BeginScan(a) PROVE PostedInv'
  BY <1>2 DEF BeginScan, Goto, TypeOK, PostedInv, NoBucket
<1>3. ASSUME NEW a \in Actors, NEW m \in Msgs, FanOut(a, m) PROVE PostedInv'
  BY <1>3 DEF FanOut, TypeOK, PostedInv, NoBucket
<1>4. ASSUME NEW a \in Actors, NEW d \in Dests, NEW p \in Pkts, CreatePkt(a,
     d, p) PROVE PostedInv'
  BY <1>4 DEF CreatePkt, Goto, TypeOK, PostedInv, NoBucket
<1>5. ASSUME NEW a \in Actors, NEW d \in Dests, CreateFails(a, d) PROVE
     PostedInv'
  BY <1>5 DEF CreateFails, DropBucket, Fault, TypeOK, PostedInv, NoBucket
<1>6. ASSUME NEW a \in Actors, NEW m \in Msgs, WriteMsg(a, m) PROVE PostedInv'
  BY <1>6 DEF WriteMsg, TypeOK, PostedInv, NoBucket
<1>7. ASSUME NEW a \in Actors, WriteFails(a) PROVE PostedInv'
  BY <1>7 DEF WriteFails, Fault, DropBucket, Goto, TypeOK, PostedInv, NoBucket
<1>8. ASSUME NEW a \in Actors, ClosePkt(a) PROVE PostedInv'
  BY <1>8 DEF ClosePkt, Goto, TypeOK, PostedInv, NoBucket
<1>9. ASSUME NEW a \in Actors, NEW m \in Msgs, Mark(a, m) PROVE PostedInv'
  BY <1>9 DEF Mark, TypeOK, PostedInv, NoBucket
<1>10. ASSUME NEW a \in Actors, NEW m \in Msgs, MarkFails(a, m) PROVE
     PostedInv'
  BY <1>10 DEF MarkFails, Fault, TypeOK, PostedInv, NoBucket
<1>11. ASSUME NEW a \in Actors, NextBucket(a) PROVE PostedInv'
  BY <1>11 DEF NextBucket, DropBucket, Goto, TypeOK, PostedInv, NoBucket
<1>12. ASSUME NEW a \in Actors, NEW p \in Pkts, Send(a, p) PROVE PostedInv'
  BY <1>12 DEF Send, TypeOK, PostedInv, NoBucket
<1>13. ASSUME NEW a \in Actors, NEW p \in Pkts, SendFails(a, p) PROVE
     PostedInv'
  BY <1>13 DEF SendFails, Abort, Goto, Fault, TypeOK, PostedInv, NoBucket
<1>14. ASSUME Crash PROVE PostedInv'
  BY <1>14 DEF Crash, Fault, TypeOK, PostedInv, NoBucket
<1>15. ASSUME UNCHANGED <<posted, exported, todo, bucket, rest, body,
     delivered>> PROVE PostedInv'
  BY <1>15 DEF TypeOK, PostedInv, NoBucket
<1>16. QED
  BY <1>1, <1>2, <1>3, <1>4, <1>5, <1>6, <1>7, <1>8, <1>9, <1>10, <1>11,
     <1>12, <1>13, <1>14, <1>15 DEF Next, ScanStep, SessionStep, vars,
     Subscribe, EmptyScan, Goto, Bucketed, EndScan, AfterScan, List, FilesFor,
     SendVanished, Abort, ReceiveFails, Fault, EndBatch, Remove, EndSession

\* A message the pipeline knows of is never lost, so its status shows in the
\* message base and in what the destinations have.
LEMMA StatusIs ==
  ASSUME PostedInv, NoLoss, NEW m \in Msgs
  PROVE  Status(m) = IF m \notin posted THEN "none"
                     ELSE IF Taken(m) THEN "taken"
                     ELSE IF m \in exported THEN "packed" ELSE "pending"
BY DEF Status, Taken, PostedInv, NoLoss, Secured

\* Every step of the pipeline posts a message, packs one or has some taken, as
\* EchoDelivery sees it, or changes nothing that it sees.
LEMMA DeliveryStep ==
  TypeOK /\ PostedInv /\ NoLoss /\ PostedInv' /\ NoLoss' /\ [Next]_vars
    => [Delivery!Next]_([m \in Msgs |-> Status(m)])
<1> DEFINE status == [m \in Msgs |-> Status(m)]
           Seen(m) == IF m \notin posted THEN "none"
                      ELSE IF Taken(m) THEN "taken"
                      ELSE IF m \in exported THEN "packed" ELSE "pending"
<1> SUFFICES ASSUME TypeOK, PostedInv, NoLoss, PostedInv', NoLoss', [Next]_vars
             PROVE  Delivery!Next \/ status' = status
  OBVIOUS
<1>1. \A m \in Msgs : Status(m) = Seen(m)
  BY StatusIs
<1>2. \A m \in Msgs : Status(m)' = Seen(m)'
  BY DEF Status, Taken, PostedInv, NoLoss, Secured
<1> HIDE DEF Seen
<1>3. status = [m \in Msgs |-> Seen(m)] /\ status' = [m \in Msgs |-> Seen(m)']
  BY <1>1, <1>2
<1> HIDE DEF status
<1> USE EchoExportAssumption DEF db, dir, scan, session, history, Dests
<1>4. ASSUME NEW m \in Msgs, Post(m) PROVE Delivery!Next
  <2>1. Seen(m) = "none" /\ Seen(m)' = "pending"
    BY <1>4 DEF Post, Seen, Taken, PostedInv
  <2>2. \A n \in Msgs \ {m} : Seen(n)' = Seen(n)
    BY <1>4 DEF Post, Seen, Taken
  <2>3. Delivery!Post(m)
    BY <1>3, <2>1, <2>2 DEF Delivery!Post, Delivery!Move, status
  <2>4. QED
    BY <2>3 DEF Delivery!Next
<1>5. ASSUME NEW a \in Actors, NEW m \in Msgs, Mark(a, m)
      PROVE  Delivery!Next \/ status' = status
  <2>1. \A n \in Msgs \ {m} : Seen(n)' = Seen(n)
    BY <1>5 DEF Mark, Seen, Taken
  <2>2. CASE Seen(m)' = Seen(m)
    BY <1>3, <2>1, <2>2
  <2>3. CASE Seen(m)' # Seen(m)
    <3>1. Seen(m) = "pending" /\ Seen(m)' = "packed"
      BY <1>5, <2>3 DEF Mark, Seen, Taken, PostedInv
    <3>2. Delivery!Pack(m)
      BY <1>3, <2>1, <3>1 DEF Delivery!Pack, Delivery!Move, status
    <3>3. QED
      BY <3>2 DEF Delivery!Next
  <2>4. QED
    BY <2>2, <2>3
<1>6. ASSUME NEW d \in Dests, NEW p \in Pkts, UNCHANGED <<posted, exported>>,
             \/ delivered' = [delivered EXCEPT ![d] = @ \cup body[p]]
             \/ UNCHANGED delivered
      PROVE  Delivery!Next \/ status' = status
  <2> DEFINE S == {m \in Msgs : Seen(m)' # Seen(m)}
  <2>1. \A m \in S : Seen(m) \in {"pending", "packed"} /\ Seen(m)' = "taken"
    BY <1>6 DEF Seen, Taken, PostedInv, TypeOK
  <2>2. CASE S = {}
    BY <1>3, <2>2
  <2>3. CASE S # {}
    <3>1. Delivery!Take(S)
      BY <1>3, <2>1, <2>3 DEF Delivery!Take, Delivery!Move, status
    <3>2. QED
      BY <3>1 DEF Delivery!Next
  <2>4. QED
    BY <2>2, <2>3
<1>7. ASSUME NEW a \in Actors, NEW p \in Pkts, Send(a, p) \/ SendFails(a, p)
      PROVE  Delivery!Next \/ status' = status
  BY <1>6, <1>7 DEF Send, SendFails
<1>8. ASSUME UNCHANGED <<posted, exported, delivered>>
      PROVE  status' = status
  BY <1>3, <1>8 DEF Seen, Taken
<1>9. QED
  BY <1>4, <1>5, <1>7, <1>8
     DEF Next, ScanStep, SessionStep, vars, Subscribe, BeginScan, EmptyScan,
     FanOut, Bucketed, CreatePkt, CreateFails, WriteMsg, WriteFails, ClosePkt,
     MarkFails, NextBucket, EndScan, List, SendVanished, ReceiveFails,
     EndBatch, Remove, EndSession, Crash

\* With one poll at work the pipeline of buckets, packets, sessions, faults and
\* crashes implements at-least-once delivery: a message goes from posted to
\* packed to taken and is never forgotten or taken back.
THEOREM ImplementsDelivery ==
  ASSUME SinglePoll
  PROVE  Spec => AtLeastOnce
<1> DEFINE status == [m \in Msgs |-> Status(m)]
<1>1. Init => PostedInv /\ NoLoss
  BY DEF Init, PostedInv, NoLoss, NoBucket, Dests
<1>2. TypeOK /\ ScanInv /\ PollInv /\ PostedInv /\ NoLoss /\ [Next]_vars
        => PostedInv' /\ NoLoss'
  BY SinglePoll, PostedStep, NoLossStep
<1>3. Init => Delivery!Init
  <2> SUFFICES ASSUME Init PROVE \A m \in Msgs : Status(m) = "none"
    BY DEF Delivery!Init
  <2>1. QED
    BY <1>1, StatusIs DEF Init
<1>4. QED
  BY <1>1, <1>2, <1>3, PollInvHolds, DeliveryStep, PTL
     DEF Spec, AtLeastOnce, Delivery!Spec
=============================================================================
