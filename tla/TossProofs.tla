----------------------------- MODULE TossProofs -----------------------------
(***************************************************************************)
(* Proofs about Toss, for any packets, messages, faults and local posts.   *)
(* For any number of goroutines: its type invariant, and that no request   *)
(* is filed that no responder was called for.  For a single one: that a    *)
(* message whose MSGID is read is imported once, that what was             *)
(* acknowledged is kept, and that its requests are answered whole.  (With  *)
(* two, one may look for the MSGID before the other has inserted the row,  *)
(* or toss a packet the other is still receiving.)                         *)
(***************************************************************************)
EXTENDS Toss, SequenceTheorems, FiniteSetTheorems, TLAPS

\* Only one goroutine tosses the network's mail.
SingleToss == \A a, b \in Actors : a = b

\* A toss that is past the responders has a message in its hands.
HasMessage ==
  \A a \in Actors : pc[a] \in {"route", "post", "insert"} => left[a] # <<>>

\* While the database answers, a message on its way to Post is not filed, if
\* its MSGID was read.
NotYetFiled ==
  dbErrors = 0 =>
    \A a \in Actors :
      pc[a] \in {"post", "insert"} /\ Head(left[a]).id = "read"
        => ~Filed(Head(left[a]))

\* A responder was called for a request that is past the responders.
RobotInv ==
  \A a \in Actors :
    pc[a] \in {"route", "post", "insert"} /\ Head(left[a]).robot
      => Head(left[a]) \in answered \cup noted

Tossing(a) == pc[a] \in {"robot", "route", "post", "insert"}

\* The peer forgets a packet for good when it is acknowledged, and the packet
\* being received is still offered and grows in the inbound directory.
PacketInv ==
  /\ acked \cap (offered \cup fresh) = {} /\ offered \cap fresh = {}
  /\ \A a \in Actors : file[a] # None =>
       /\ pc[a] = "session" /\ file[a] \in offered \cap inbox
       /\ have[file[a]] = wrote[a]

\* As long as no toss has opened an unfinished packet, nothing is cut off.
Wholes == {Whole(m) : m \in Msgs}
WholeInv ==
  torn = {} =>
    /\ \A i \in DOMAIN base :
         base[i] \in Wholes \cup {LocalMsg(conf) : conf \in Confs}
    /\ \A a \in Actors : \A i \in DOMAIN left[a] : left[a][i] \in Wholes

\* ... and a message of the packet being tossed is kept or still to be
\* processed.
Ahead(a, m) == \E i \in DOMAIN left[a] : left[a][i] = Whole(m)
TossedInv ==
  torn = {} /\ dbErrors = 0 =>
    \A a \in Actors : Tossing(a) /\ cur[a] \in inbox =>
      \A i \in DOMAIN Content[cur[a]] :
        Kept(Content[cur[a]][i]) \/ Ahead(a, Content[cur[a]][i])

\* An acknowledged packet waits whole, and while it is tossed each request in
\* it is answered whole or still to come.
AckedWhole == \A p \in acked \cap inbox : have[p] = Len(Content[p])
AnsweringInv ==
  \A a \in Actors : Tossing(a) /\ cur[a] \in inbox \cap acked =>
    \A i \in DOMAIN Content[cur[a]] : Content[cur[a]][i] \in Robots =>
      \/ Whole(Content[cur[a]][i]) \in answered \cup noted
      \/ Ahead(a, Content[cur[a]][i])

-----------------------------------------------------------------------------
\* Tail and Head of the messages left to process.
LEMMA LeftTypes ==
  ASSUME NEW s \in Seq(Copy), s # <<>>
  PROVE  Head(s) \in Copy /\ Tail(s) \in Seq(Copy)
OBVIOUS

\* A whole message is a copy of it, and neither is a caller's.
LEMMA WholeType ==
  ASSUME NEW m \in Msgs
  PROVE  Whole(m) \in Copy /\ Whole(m).msg = m /\ Whole(m).whole
           /\ Whole(m).id # "part" /\ Whole(m).robot = (m \in Robots)
BY TossAssumption DEF Whole, Copy, Ids

\* The fields of a row.
LEMMA RowType ==
  /\ \A conf \in Confs : LocalMsg(conf) \in Row /\ LocalMsg(conf).id = "none"
                           /\ ~LocalMsg(conf).robot
  /\ Copy \subseteq Row
BY DEF Row, LocalMsg

\* Message numbers are numbers.
LEMMA NumberType ==
  ASSUME base \in Seq(Row), NEW conf
  PROVE  NextNumber(conf) \in Nat
<1> DEFINE S == {i \in DOMAIN base : base[i].conf = conf}
<1>1. Len(base) \in Nat /\ S \subseteq 1..Len(base)
  OBVIOUS
<1>2. IsFiniteSet(1..Len(base))
  BY <1>1, FS_Interval
<1>3. IsFiniteSet(S)
  BY <1>1, <1>2, FS_Subset
<1>4. Cardinality(S) \in Nat
  BY <1>3, FS_CardinalityType
<1>5. QED
  BY <1>4 DEF NextNumber

\* What is read from a packet are copies of its messages.
LEMMA ReadingsType ==
  ASSUME NEW p \in Pkts, NEW n \in Nat, n <= Len(Content[p])
  PROVE  Readings(p, n) \subseteq Seq(Copy)
<1> DEFINE firsts == [i \in 1..n |-> Whole(Content[p][i])]
<1>1. Content[p] \in Seq(Msgs) /\ Len(Content[p]) \in Nat
  BY TossAssumption
<1>2. \A i \in 1..Len(Content[p]) : Content[p][i] \in Msgs
  BY <1>1
<1>3. firsts \in Seq(Copy)
  <2>1. \A i \in 1..n : Whole(Content[p][i]) \in Copy
    BY <1>1, <1>2, WholeType
  <2>2. firsts \in [1..n -> Copy]
    BY <2>1
  <2>3. QED
    BY <2>2, SeqDef
<1>4. ASSUME NEW c \in Cuts(Content[p][n + 1])
      PROVE  Append(firsts, c) \in Seq(Copy)
  <2>1. c \in Copy
    BY DEF Cuts
  <2> HIDE DEF firsts
  <2>2. QED
    BY <1>3, <2>1
<1>5. QED
  BY <1>3, <1>4 DEF Readings

\* After a row is added, one more MSGID is filed.
LEMMA FiledAppend ==
  ASSUME TypeOK, NEW r \in Row, base' = Append(base, r), NEW c
  PROVE  Filed(c)' <=> Filed(c) \/ SameId(c, r)
<1>1. base \in Seq(Row) /\ Len(base) \in Nat
  BY DEF TypeOK
<1>2. /\ DOMAIN base' = 1..(Len(base) + 1) /\ DOMAIN base = 1..Len(base)
      /\ base'[Len(base) + 1] = r
      /\ \A i \in 1..Len(base) : base'[i] = base[i]
  BY <1>1
<1>3. QED
  BY <1>1, <1>2 DEF Filed

\* Every step keeps the types.
LEMMA TypeStep == TypeOK /\ HasMessage /\ [Next]_vars => TypeOK'
<1> SUFFICES ASSUME TypeOK, HasMessage, [Next]_vars PROVE TypeOK'
  OBVIOUS
<1> USE TossAssumption DEF peer, dir, store, receive, toss, bounds
<1>1. ASSUME NEW p \in Pkts, Offer(p) PROVE TypeOK'
  BY <1>1 DEF Offer, TypeOK
<1>2. ASSUME LocalPost PROVE TypeOK'
  <2>1. base' \in Seq(Row)
    BY <1>2, RowType DEF LocalPost, TypeOK
  <2>2. QED
    BY <1>2, <2>1 DEF LocalPost, TypeOK
<1>3. ASSUME Crash PROVE TypeOK'
  BY <1>3 DEF Crash, Fault, TypeOK
<1>4. ASSUME NEW a \in Actors, BeginSession(a) PROVE TypeOK'
  BY <1>4 DEF BeginSession, Goto, TypeOK
<1>5. ASSUME NEW a \in Actors, OrderToss(a) PROVE TypeOK'
  BY <1>5 DEF OrderToss, Goto, TypeOK
<1>6. ASSUME NEW a \in Actors, Data(a) PROVE TypeOK'
  BY SMTT(40), <1>6 DEF Data, TypeOK
<1>7. ASSUME NEW a \in Actors, Got(a) PROVE TypeOK'
  BY <1>7 DEF Got, TypeOK
<1>8. ASSUME NEW a \in Actors, GotLost(a) PROVE TypeOK'
  BY <1>8 DEF GotLost, Goto, Fault, TypeOK
<1>9. ASSUME NEW a \in Actors, Broken(a) PROVE TypeOK'
  BY <1>9 DEF Broken, Goto, Fault, TypeOK
<1>10. ASSUME NEW a \in Actors, Eof(a) PROVE TypeOK'
  BY <1>10 DEF Eof, Goto, Fault, TypeOK
<1>11. ASSUME NEW a \in Actors, Eob(a) PROVE TypeOK'
  BY <1>11 DEF Eob, Goto, TypeOK
<1>12. ASSUME NEW a \in Actors, NEW p \in Pkts, BeginFile(a, p) PROVE TypeOK'
  BY <1>12 DEF BeginFile, TypeOK
<1>13. ASSUME NEW a \in Actors, List(a) PROVE TypeOK'
  BY <1>13 DEF List, Goto, TypeOK
<1>14. ASSUME NEW a \in Actors, Open(a) PROVE TypeOK'
  <2>1. PICK p \in queue[a] :
          /\ cur' = [cur EXCEPT ![a] = p]
          /\ queue' = [queue EXCEPT ![a] = @ \ {p}]
          /\ \/ \E r \in Readings(p, have[p]) : left' = [left EXCEPT ![a] = r]
             \/ left' = [left EXCEPT ![a] = <<>>]
          /\ torn' \in {torn, torn \cup {p}}
    BY <1>14 DEF Open
  <2>2. p \in Pkts
    BY DEF TypeOK
  <2>3. Readings(p, have[p]) \subseteq Seq(Copy)
    BY <2>2, ReadingsType DEF TypeOK
  <2>4. \E r \in Seq(Copy) : left' = [left EXCEPT ![a] = r]
    <3>1. <<>> \in Seq(Copy)
      OBVIOUS
    <3>2. QED
      BY <2>1, <2>3, <3>1
  <2>5. left' \in [Actors -> Seq(Copy)]
    BY <2>4 DEF TypeOK
  <2>6. QED
    BY <1>14, <2>1, <2>2, <2>5 DEF Open, Goto, TypeOK
<1>15. ASSUME NEW a \in Actors, Respond(a) PROVE TypeOK'
  <2>1. Head(left[a]) \in Copy
    BY <1>15, LeftTypes DEF Respond, TypeOK
  <2>2. QED
    BY <1>15, <2>1 DEF Respond, Goto, TypeOK
<1>16. ASSUME NEW a \in Actors, RespondFails(a) PROVE TypeOK'
  <2>1. Head(left[a]) \in Copy /\ Head(left[a]).robot
    BY <1>16, LeftTypes DEF RespondFails, TypeOK
  <2>2. QED
    BY <1>16, <2>1 DEF RespondFails, Goto, TypeOK
<1>17. ASSUME NEW a \in Actors, Hold(a) PROVE TypeOK'
  <2>1. left[a] \in Seq(Copy) /\ left[a] # <<>>
    BY <1>17 DEF Hold, HasMessage, TypeOK
  <2>2. Head(left[a]) \in Copy /\ Tail(left[a]) \in Seq(Copy)
    BY <2>1, LeftTypes
  <2>3. QED
    BY <1>17, <2>2 DEF Hold, NextMsg, Goto, TypeOK
<1>18. ASSUME NEW a \in Actors, HoldFails(a) PROVE TypeOK'
  <2>1. left[a] \in Seq(Copy) /\ left[a] # <<>>
    BY <1>18 DEF HoldFails, HasMessage, TypeOK
  <2>2. Head(left[a]) \in Copy /\ Tail(left[a]) \in Seq(Copy)
    BY <2>1, LeftTypes
  <2>3. QED
    BY <1>18, <2>2 DEF HoldFails, NextMsg, Goto, DbError, TypeOK
<1>19. ASSUME NEW a \in Actors, Skip(a) PROVE TypeOK'
  <2>1. left[a] \in Seq(Copy) /\ left[a] # <<>>
    BY <1>19 DEF Skip, HasMessage, TypeOK
  <2>2. Head(left[a]) \in Copy /\ Tail(left[a]) \in Seq(Copy)
    BY <2>1, LeftTypes
  <2>3. QED
    BY <1>19, <2>2 DEF Skip, NextMsg, Goto, TypeOK
<1>20. ASSUME NEW a \in Actors, NotFiled(a) PROVE TypeOK'
  BY <1>20 DEF NotFiled, Goto, TypeOK
<1>21. ASSUME NEW a \in Actors, DedupeFails(a) PROVE TypeOK'
  BY <1>21 DEF DedupeFails, Goto, DbError, TypeOK
<1>22. ASSUME NEW a \in Actors, Number(a) PROVE TypeOK'
  <2>1. NextNumber(Head(left[a]).conf) \in Nat
    BY NumberType DEF TypeOK
  <2>2. QED
    BY <1>22, <2>1 DEF Number, Goto, TypeOK
<1>23. ASSUME NEW a \in Actors, Insert(a) PROVE TypeOK'
  <2>1. left[a] \in Seq(Copy) /\ left[a] # <<>>
    BY <1>23 DEF Insert, HasMessage, TypeOK
  <2>2. Head(left[a]) \in Copy /\ Tail(left[a]) \in Seq(Copy)
    BY <2>1, LeftTypes
  <2>3. Head(left[a]) \in Row
    BY <2>2, RowType
  <2>4. base' \in Seq(Row)
    BY <1>23, <2>3 DEF Insert, TypeOK
  <2>5. QED
    BY <1>23, <2>2, <2>4 DEF Insert, NextMsg, Goto, TypeOK
<1>24. ASSUME NEW a \in Actors, InsertFails(a) PROVE TypeOK'
  <2>1. left[a] \in Seq(Copy) /\ left[a] # <<>>
    BY <1>24 DEF InsertFails, HasMessage, TypeOK
  <2>2. Head(left[a]) \in Copy /\ Tail(left[a]) \in Seq(Copy)
    BY <2>1, LeftTypes
  <2>3. held' \subseteq Copy /\ left' \in [Actors -> Seq(Copy)]
    BY <1>24, <2>2 DEF InsertFails, NextMsg, TypeOK
  <2>4. locals' \in 0..MaxLocal /\ faults' \in 0..MaxFaults
        /\ dbErrors' \in 0..MaxDbErrors
    BY <1>24 DEF InsertFails, DbError, TypeOK
  <2>5. QED
    BY <1>24, <2>3, <2>4 DEF InsertFails, NextMsg, Goto, TypeOK
<1>25. ASSUME NEW a \in Actors, Rename(a) PROVE TypeOK'
  BY <1>25 DEF Rename, Goto, TypeOK
<1>26. ASSUME NEW a \in Actors, EndToss(a) PROVE TypeOK'
  BY <1>26 DEF EndToss, Goto, TypeOK
<1>27. ASSUME UNCHANGED vars PROVE TypeOK'
  BY <1>27 DEF vars, TypeOK
<1>28. QED
  BY <1>1, <1>2, <1>3, <1>4, <1>5, <1>6, <1>7, <1>8, <1>9, <1>10, <1>11,
     <1>12, <1>13, <1>14, <1>15, <1>16, <1>17, <1>18, <1>19, <1>20, <1>21,
       <1>22,
     <1>23, <1>24, <1>25, <1>26, <1>27 DEF Next, SessionStep, TossStep

\* Only Respond leads to the routing of a message, and only when there is one;
\* every step that takes the message away goes back to the loop's head.
LEMMA HasMessageStep == TypeOK /\ HasMessage /\ [Next]_vars => HasMessage'
<1> SUFFICES ASSUME TypeOK, HasMessage, [Next]_vars PROVE HasMessage'
  OBVIOUS
<1> USE DEF peer, dir, store, receive, toss, bounds
<1>1. ASSUME NEW p \in Pkts, Offer(p) PROVE HasMessage'
  BY <1>1 DEF Offer, HasMessage, TypeOK
<1>2. ASSUME LocalPost PROVE HasMessage'
  BY <1>2 DEF LocalPost, HasMessage, TypeOK
<1>3. ASSUME Crash PROVE HasMessage'
  BY <1>3 DEF Crash, Fault, HasMessage, TypeOK
<1>4. ASSUME NEW a \in Actors, BeginSession(a) PROVE HasMessage'
  BY <1>4 DEF BeginSession, Goto, HasMessage, TypeOK
<1>5. ASSUME NEW a \in Actors, OrderToss(a) PROVE HasMessage'
  BY <1>5 DEF OrderToss, Goto, HasMessage, TypeOK
<1>6. ASSUME NEW a \in Actors, Data(a) PROVE HasMessage'
  BY <1>6 DEF Data, HasMessage, TypeOK
<1>7. ASSUME NEW a \in Actors, Got(a) PROVE HasMessage'
  BY <1>7 DEF Got, HasMessage, TypeOK
<1>8. ASSUME NEW a \in Actors, GotLost(a) PROVE HasMessage'
  BY <1>8 DEF GotLost, Goto, Fault, HasMessage, TypeOK
<1>9. ASSUME NEW a \in Actors, Broken(a) PROVE HasMessage'
  BY <1>9 DEF Broken, Goto, Fault, HasMessage, TypeOK
<1>10. ASSUME NEW a \in Actors, Eof(a) PROVE HasMessage'
  BY <1>10 DEF Eof, Goto, Fault, HasMessage, TypeOK
<1>11. ASSUME NEW a \in Actors, Eob(a) PROVE HasMessage'
  BY <1>11 DEF Eob, Goto, HasMessage, TypeOK
<1>12. ASSUME NEW a \in Actors, NEW p \in Pkts, BeginFile(a, p)
     PROVE HasMessage'
  BY <1>12 DEF BeginFile, HasMessage, TypeOK
<1>13. ASSUME NEW a \in Actors, List(a) PROVE HasMessage'
  BY <1>13 DEF List, Goto, HasMessage, TypeOK
<1>14. ASSUME NEW a \in Actors, Open(a) PROVE HasMessage'
  BY <1>14 DEF Open, Goto, HasMessage, TypeOK
<1>15. ASSUME NEW a \in Actors, Respond(a) PROVE HasMessage'
  BY <1>15 DEF Respond, Goto, HasMessage, TypeOK
<1>16. ASSUME NEW a \in Actors, RespondFails(a) PROVE HasMessage'
  BY <1>16 DEF RespondFails, Goto, HasMessage, TypeOK
<1>17. ASSUME NEW a \in Actors, Hold(a) PROVE HasMessage'
  BY <1>17 DEF Hold, NextMsg, Goto, HasMessage, TypeOK
<1>18. ASSUME NEW a \in Actors, HoldFails(a) PROVE HasMessage'
  BY <1>18 DEF HoldFails, NextMsg, Goto, DbError, HasMessage, TypeOK
<1>19. ASSUME NEW a \in Actors, Skip(a) PROVE HasMessage'
  BY <1>19 DEF Skip, NextMsg, Goto, HasMessage, TypeOK
<1>20. ASSUME NEW a \in Actors, NotFiled(a) PROVE HasMessage'
  BY <1>20 DEF NotFiled, Goto, HasMessage, TypeOK
<1>21. ASSUME NEW a \in Actors, DedupeFails(a) PROVE HasMessage'
  BY <1>21 DEF DedupeFails, Goto, DbError, HasMessage, TypeOK
<1>22. ASSUME NEW a \in Actors, Number(a) PROVE HasMessage'
  BY <1>22 DEF Number, Goto, HasMessage, TypeOK
<1>23. ASSUME NEW a \in Actors, Insert(a) PROVE HasMessage'
  BY <1>23 DEF Insert, NextMsg, Goto, HasMessage, TypeOK
<1>24. ASSUME NEW a \in Actors, InsertFails(a) PROVE HasMessage'
  BY <1>24 DEF InsertFails, NextMsg, Goto, DbError, HasMessage, TypeOK
<1>25. ASSUME NEW a \in Actors, Rename(a) PROVE HasMessage'
  BY <1>25 DEF Rename, Goto, HasMessage, TypeOK
<1>26. ASSUME NEW a \in Actors, EndToss(a) PROVE HasMessage'
  BY <1>26 DEF EndToss, Goto, HasMessage, TypeOK
<1>27. ASSUME UNCHANGED vars PROVE HasMessage'
  BY <1>27 DEF vars, HasMessage, TypeOK
<1>28. QED
  BY <1>1, <1>2, <1>3, <1>4, <1>5, <1>6, <1>7, <1>8, <1>9, <1>10, <1>11,
     <1>12, <1>13, <1>14, <1>15, <1>16, <1>17, <1>18, <1>19, <1>20, <1>21,
       <1>22,
     <1>23, <1>24, <1>25, <1>26, <1>27 DEF Next, SessionStep, TossStep

\* A step that files nothing, and after which no actor posts that did not post
\* the same message before.
Quiet ==
  /\ base' = base /\ (dbErrors' = 0 => dbErrors = 0)
  /\ \A a \in Actors : pc'[a] \in {"post", "insert"} =>
       pc[a] \in {"post", "insert"} /\ left'[a] = left[a]

\* All steps but the five named are of that kind.
LEMMA QuietStep ==
  TypeOK /\ [Next]_vars =>
    \/ Quiet \/ LocalPost
    \/ \E a \in Actors :
         NotFiled(a) \/ DedupeFails(a) \/ Number(a) \/ Insert(a)
<1> SUFFICES ASSUME TypeOK, [Next]_vars,
                    ~LocalPost,
                    \A a \in Actors :
                      ~(NotFiled(a) \/ DedupeFails(a) \/ Number(a) \/
                        Insert(a))
             PROVE  Quiet
  OBVIOUS
<1> USE DEF peer, dir, store, receive, toss, bounds
<1>1. ASSUME NEW p \in Pkts, Offer(p) PROVE Quiet
  BY <1>1 DEF Offer, Quiet, TypeOK
<1>2. ASSUME Crash PROVE Quiet
  BY <1>2 DEF Crash, Fault, Quiet, TypeOK
<1>3. ASSUME NEW a \in Actors, BeginSession(a) PROVE Quiet
  BY <1>3 DEF BeginSession, Goto, Quiet, TypeOK
<1>4. ASSUME NEW a \in Actors, OrderToss(a) PROVE Quiet
  BY <1>4 DEF OrderToss, Goto, Quiet, TypeOK
<1>5. ASSUME NEW a \in Actors, Data(a) PROVE Quiet
  BY <1>5 DEF Data, Quiet, TypeOK
<1>6. ASSUME NEW a \in Actors, Got(a) PROVE Quiet
  BY <1>6 DEF Got, Quiet, TypeOK
<1>7. ASSUME NEW a \in Actors, GotLost(a) PROVE Quiet
  BY <1>7 DEF GotLost, Goto, Fault, Quiet, TypeOK
<1>8. ASSUME NEW a \in Actors, Broken(a) PROVE Quiet
  BY <1>8 DEF Broken, Goto, Fault, Quiet, TypeOK
<1>9. ASSUME NEW a \in Actors, Eof(a) PROVE Quiet
  BY <1>9 DEF Eof, Goto, Fault, Quiet, TypeOK
<1>10. ASSUME NEW a \in Actors, Eob(a) PROVE Quiet
  BY <1>10 DEF Eob, Goto, Quiet, TypeOK
<1>11. ASSUME NEW a \in Actors, NEW p \in Pkts, BeginFile(a, p) PROVE Quiet
  BY <1>11 DEF BeginFile, Quiet, TypeOK
<1>12. ASSUME NEW a \in Actors, List(a) PROVE Quiet
  BY <1>12 DEF List, Goto, Quiet, TypeOK
<1>13. ASSUME NEW a \in Actors, Open(a) PROVE Quiet
  BY <1>13 DEF Open, Goto, Quiet, TypeOK
<1>14. ASSUME NEW a \in Actors, Respond(a) PROVE Quiet
  BY <1>14 DEF Respond, Goto, Quiet, TypeOK
<1>15. ASSUME NEW a \in Actors, RespondFails(a) PROVE Quiet
  BY <1>15 DEF RespondFails, Goto, Quiet, TypeOK
<1>16. ASSUME NEW a \in Actors, Hold(a) PROVE Quiet
  BY <1>16 DEF Hold, NextMsg, Goto, Quiet, TypeOK
<1>17. ASSUME NEW a \in Actors, HoldFails(a) PROVE Quiet
  BY <1>17 DEF HoldFails, NextMsg, Goto, DbError, Quiet, TypeOK
<1>18. ASSUME NEW a \in Actors, Skip(a) PROVE Quiet
  BY <1>18 DEF Skip, NextMsg, Goto, Quiet, TypeOK
<1>19. ASSUME NEW a \in Actors, InsertFails(a) PROVE Quiet
  BY <1>19 DEF InsertFails, NextMsg, Goto, DbError, Quiet, TypeOK
<1>20. ASSUME NEW a \in Actors, Rename(a) PROVE Quiet
  BY <1>20 DEF Rename, Goto, Quiet, TypeOK
<1>21. ASSUME NEW a \in Actors, EndToss(a) PROVE Quiet
  BY <1>21 DEF EndToss, Goto, Quiet, TypeOK
<1>22. ASSUME UNCHANGED vars PROVE Quiet
  BY <1>22 DEF vars, Quiet
<1>23. QED
  BY <1>1, <1>2, <1>3, <1>4, <1>5, <1>6, <1>7, <1>8, <1>9, <1>10, <1>11,
     <1>12, <1>13, <1>14, <1>15, <1>16, <1>17, <1>18, <1>19, <1>20, <1>21,
       <1>22
     DEF Next, SessionStep, TossStep

\* The MSGID is looked up just before: with a single toss nothing but a local
\* post comes between, and that has another MSGID.
LEMMA NotYetFiledStep ==
  SingleToss /\ TypeOK /\ HasMessage /\ NotYetFiled /\ [Next]_vars
    => NotYetFiled'
<1> SUFFICES ASSUME SingleToss, TypeOK, HasMessage, NotYetFiled, [Next]_vars
             PROVE  NotYetFiled'
  OBVIOUS
<1>1. ASSUME LocalPost PROVE NotYetFiled'
  <2>1. \A c : Filed(c)' /\ c.id = "read" => Filed(c)
    BY <1>1, RowType, FiledAppend DEF LocalPost, SameId
  <2>2. UNCHANGED <<pc, left, dbErrors>>
    BY <1>1 DEF LocalPost, toss
  <2>3. QED
    BY <2>1, <2>2 DEF NotYetFiled
<1>2. ASSUME NEW a \in Actors, NotFiled(a) PROVE NotYetFiled'
  <2>1. UNCHANGED <<base, left, dbErrors>> /\ \A b \in Actors : b = a
    BY <1>2 DEF NotFiled, SingleToss, store, toss, bounds
  <2>2. Head(left[a]).id = "read" => ~Filed(Head(left[a]))
    BY <1>2 DEF NotFiled
  <2>3. QED
    BY <2>1, <2>2 DEF NotYetFiled, Filed
<1>3. ASSUME NEW a \in Actors, DedupeFails(a) PROVE NotYetFiled'
  <2>1. dbErrors' # 0
    BY <1>3 DEF DedupeFails, DbError, TypeOK
  <2>2. QED
    BY <2>1 DEF NotYetFiled
<1>4. ASSUME NEW a \in Actors, Number(a) PROVE NotYetFiled'
  <2>1. UNCHANGED <<base, left, dbErrors>>
    BY <1>4 DEF Number, store, bounds
  <2>2. \A b \in Actors : b = a /\ pc[b] = "post"
    BY <1>4 DEF Number, SingleToss
  <2>3. QED
    BY <2>1, <2>2 DEF NotYetFiled, Filed
<1>5. ASSUME NEW a \in Actors, Insert(a) PROVE NotYetFiled'
  <2>1. \A b \in Actors : b = a /\ pc'[b] = "robot"
    BY <1>5 DEF Insert, NextMsg, Goto, SingleToss, TypeOK
  <2>2. QED
    BY <2>1 DEF NotYetFiled
<1>6. ASSUME Quiet PROVE NotYetFiled'
  BY <1>6 DEF Quiet, NotYetFiled, Filed
<1>7. QED
  BY <1>1, <1>2, <1>3, <1>4, <1>5, <1>6, QuietStep

\* A new row is the only one with its MSGID: a local post has none, and that
\* of an imported message was not filed when its row was inserted.
LEMMA ImportedOnceStep ==
  TypeOK /\ HasMessage /\ NotYetFiled /\ ImportedOnce /\ [Next]_vars
    => ImportedOnce'
<1> SUFFICES ASSUME TypeOK, HasMessage, NotYetFiled, ImportedOnce,
                    [Next]_vars, dbErrors' = 0
             PROVE  ImportedOnce'
  BY DEF ImportedOnce
<1>1. ASSUME NEW r \in Row, base' = Append(base, r), dbErrors = 0,
             r.id = "read" => ~Filed(r)
      PROVE  ImportedOnce'
  <2>1. base \in Seq(Row) /\ Len(base) \in Nat
    BY DEF TypeOK
  <2>2. /\ DOMAIN base' = 1..(Len(base) + 1) /\ DOMAIN base = 1..Len(base)
        /\ base'[Len(base) + 1] = r
        /\ \A i \in 1..Len(base) : base'[i] = base[i]
    BY <1>1, <2>1
  <2>3. SUFFICES ASSUME NEW i \in DOMAIN base', NEW j \in DOMAIN base',
                        base'[i].id = "read", SameId(base'[i], base'[j])
                 PROVE  i = j
    BY DEF ImportedOnce
  <2>4. CASE i \in DOMAIN base /\ j \in DOMAIN base
    BY <1>1, <2>2, <2>3, <2>4 DEF ImportedOnce
  <2>5. CASE i = Len(base) + 1 /\ j \in DOMAIN base
    BY <1>1, <2>2, <2>3, <2>5 DEF Filed, SameId
  <2>6. CASE j = Len(base) + 1 /\ i \in DOMAIN base
    BY <1>1, <2>2, <2>3, <2>6 DEF Filed, SameId
  <2>7. QED
    BY <2>1, <2>2, <2>4, <2>5, <2>6
<1>2. ASSUME LocalPost PROVE ImportedOnce'
  <2>1. PICK conf \in Confs : base' = Append(base, LocalMsg(conf))
    BY <1>2 DEF LocalPost
  <2>2. dbErrors = 0
    BY <1>2 DEF LocalPost
  <2>3. QED
    BY <1>1, <2>1, <2>2, RowType
<1>3. ASSUME NEW a \in Actors, Insert(a) PROVE ImportedOnce'
  <2>1. Head(left[a]) \in Row
    BY <1>3, LeftTypes, RowType DEF Insert, HasMessage, TypeOK
  <2>2. Head(left[a]).id = "read" /\ dbErrors = 0 => ~Filed(Head(left[a]))
    BY <1>3 DEF Insert, NotYetFiled
  <2>3. QED
    BY <1>1, <1>3, <2>1, <2>2 DEF Insert, bounds
<1>4. ASSUME base' = base, dbErrors = 0 PROVE ImportedOnce'
  BY <1>4 DEF ImportedOnce
<1>5. ASSUME NEW a \in Actors, NotFiled(a) \/ DedupeFails(a) \/ Number(a)
      PROVE  ImportedOnce'
  BY <1>4, <1>5 DEF NotFiled, DedupeFails, DbError, Number, store, bounds,
     TypeOK
<1>6. QED
  BY <1>2, <1>3, <1>4, <1>5, QuietStep DEF Quiet

\* The state of a board that has received nothing.
LEMMA InitHolds == Init => TypeOK /\ HasMessage /\ NotYetFiled /\ ImportedOnce
BY TossAssumption DEF Init, TypeOK, HasMessage, NotYetFiled, ImportedOnce,
   None, Copy, Row

\* Every variable keeps its type; the toss never takes the head of an empty
\* list of messages.
THEOREM TypeCorrect == Spec => [](TypeOK /\ HasMessage)
<1>1. Init => TypeOK /\ HasMessage
  BY InitHolds
<1>2. TypeOK /\ HasMessage /\ [Next]_vars => (TypeOK /\ HasMessage)'
  BY TypeStep, HasMessageStep
<1>3. QED
  BY <1>1, <1>2, PTL DEF Spec

\* With one goroutine tossing, no message is filed twice whose MSGID was read
\* each time, as long as the database answers, whatever is sent again, torn or
\* interrupted (tossFile's HasFidoMsgID check).
THEOREM ImportOnce ==
  ASSUME SingleToss
  PROVE  Spec => []ImportedOnce
<1> DEFINE Inv == TypeOK /\ HasMessage /\ NotYetFiled /\ ImportedOnce
<1>1. Init => Inv
  BY InitHolds
<1>2. Inv /\ [Next]_vars => Inv'
  BY SingleToss, TypeStep, HasMessageStep, NotYetFiledStep, ImportedOnceStep
<1>3. Inv => ImportedOnce
  OBVIOUS
<1>4. QED
  BY <1>1, <1>2, <1>3, PTL DEF Spec

\* The responders see a message before anything else does, and nobody takes
\* an answer back.
LEMMA RobotStep == TypeOK /\ RobotInv /\ [Next]_vars => RobotInv'
<1> SUFFICES ASSUME TypeOK, RobotInv, [Next]_vars PROVE RobotInv'
  OBVIOUS
<1> USE DEF peer, dir, store, receive, toss, bounds
<1>1. ASSUME NEW p \in Pkts, Offer(p) PROVE RobotInv'
  BY <1>1 DEF Offer, RobotInv, TypeOK
<1>2. ASSUME LocalPost PROVE RobotInv'
  BY <1>2 DEF LocalPost, RobotInv, TypeOK
<1>3. ASSUME Crash PROVE RobotInv'
  BY <1>3 DEF Crash, Fault, RobotInv, TypeOK
<1>4. ASSUME NEW a \in Actors, BeginSession(a) PROVE RobotInv'
  BY <1>4 DEF BeginSession, Goto, RobotInv, TypeOK
<1>5. ASSUME NEW a \in Actors, OrderToss(a) PROVE RobotInv'
  BY <1>5 DEF OrderToss, Goto, RobotInv, TypeOK
<1>6. ASSUME NEW a \in Actors, Data(a) PROVE RobotInv'
  BY <1>6 DEF Data, RobotInv, TypeOK
<1>7. ASSUME NEW a \in Actors, Got(a) PROVE RobotInv'
  BY <1>7 DEF Got, RobotInv, TypeOK
<1>8. ASSUME NEW a \in Actors, GotLost(a) PROVE RobotInv'
  BY <1>8 DEF GotLost, Goto, Fault, RobotInv, TypeOK
<1>9. ASSUME NEW a \in Actors, Broken(a) PROVE RobotInv'
  BY <1>9 DEF Broken, Goto, Fault, RobotInv, TypeOK
<1>10. ASSUME NEW a \in Actors, Eof(a) PROVE RobotInv'
  BY <1>10 DEF Eof, Goto, Fault, RobotInv, TypeOK
<1>11. ASSUME NEW a \in Actors, Eob(a) PROVE RobotInv'
  BY <1>11 DEF Eob, Goto, RobotInv, TypeOK
<1>12. ASSUME NEW a \in Actors, NEW p \in Pkts, BeginFile(a, p) PROVE
     RobotInv'
  BY <1>12 DEF BeginFile, RobotInv, TypeOK
<1>13. ASSUME NEW a \in Actors, List(a) PROVE RobotInv'
  BY <1>13 DEF List, Goto, RobotInv, TypeOK
<1>14. ASSUME NEW a \in Actors, Open(a) PROVE RobotInv'
  BY <1>14 DEF Open, Goto, RobotInv, TypeOK
<1>15. ASSUME NEW a \in Actors, Respond(a) PROVE RobotInv'
  BY <1>15 DEF Respond, Goto, RobotInv, TypeOK
<1>16. ASSUME NEW a \in Actors, RespondFails(a) PROVE RobotInv'
  BY <1>16 DEF RespondFails, Goto, RobotInv, TypeOK
<1>17. ASSUME NEW a \in Actors, Hold(a) PROVE RobotInv'
  BY <1>17 DEF Hold, NextMsg, Goto, RobotInv, TypeOK
<1>18. ASSUME NEW a \in Actors, HoldFails(a) PROVE RobotInv'
  BY <1>18 DEF HoldFails, NextMsg, Goto, DbError, RobotInv, TypeOK
<1>19. ASSUME NEW a \in Actors, Skip(a) PROVE RobotInv'
  BY <1>19 DEF Skip, NextMsg, Goto, RobotInv, TypeOK
<1>20. ASSUME NEW a \in Actors, NotFiled(a) PROVE RobotInv'
  BY <1>20 DEF NotFiled, Goto, RobotInv, TypeOK
<1>21. ASSUME NEW a \in Actors, DedupeFails(a) PROVE RobotInv'
  BY <1>21 DEF DedupeFails, Goto, DbError, RobotInv, TypeOK
<1>22. ASSUME NEW a \in Actors, Number(a) PROVE RobotInv'
  BY <1>22 DEF Number, Goto, RobotInv, TypeOK
<1>23. ASSUME NEW a \in Actors, Insert(a) PROVE RobotInv'
  BY <1>23 DEF Insert, NextMsg, Goto, RobotInv, TypeOK
<1>24. ASSUME NEW a \in Actors, InsertFails(a) PROVE RobotInv'
  BY <1>24 DEF InsertFails, NextMsg, Goto, DbError, RobotInv, TypeOK
<1>25. ASSUME NEW a \in Actors, Rename(a) PROVE RobotInv'
  BY <1>25 DEF Rename, Goto, RobotInv, TypeOK
<1>26. ASSUME NEW a \in Actors, EndToss(a) PROVE RobotInv'
  BY <1>26 DEF EndToss, Goto, RobotInv, TypeOK
<1>27. ASSUME UNCHANGED vars PROVE RobotInv'
  BY <1>27 DEF vars, RobotInv, TypeOK
<1>28. QED
  BY <1>1, <1>2, <1>3, <1>4, <1>5, <1>6, <1>7, <1>8, <1>9, <1>10, <1>11,
     <1>12, <1>13, <1>14, <1>15, <1>16, <1>17, <1>18, <1>19, <1>20, <1>21,
       <1>22,
     <1>23, <1>24, <1>25, <1>26, <1>27 DEF Next, SessionStep, TossStep

\* Rows, holding files, answers and torn packets only become more.
Grows ==
  /\ held \subseteq held' /\ answered \subseteq answered'
  /\ noted \subseteq noted'
  /\ torn \subseteq torn' /\ (dbErrors' = 0 => dbErrors = 0)
  /\ base' = base \/ \E r \in Row : base' = Append(base, r)

LEMMA GrowsStep == TypeOK /\ HasMessage /\ [Next]_vars => Grows
<1> SUFFICES ASSUME TypeOK, HasMessage, [Next]_vars PROVE Grows
  OBVIOUS
<1> USE DEF peer, dir, store, receive, toss, bounds
<1>1. ASSUME NEW p \in Pkts, Offer(p) PROVE Grows
  BY <1>1 DEF Offer, Grows, TypeOK
<1>2. ASSUME LocalPost PROVE Grows
  BY <1>2, RowType DEF LocalPost, Grows
<1>3. ASSUME Crash PROVE Grows
  BY <1>3 DEF Crash, Fault, Grows, TypeOK
<1>4. ASSUME NEW a \in Actors, BeginSession(a) PROVE Grows
  BY <1>4 DEF BeginSession, Goto, Grows, TypeOK
<1>5. ASSUME NEW a \in Actors, OrderToss(a) PROVE Grows
  BY <1>5 DEF OrderToss, Goto, Grows, TypeOK
<1>6. ASSUME NEW a \in Actors, Data(a) PROVE Grows
  BY <1>6 DEF Data, Grows, TypeOK
<1>7. ASSUME NEW a \in Actors, Got(a) PROVE Grows
  BY <1>7 DEF Got, Grows, TypeOK
<1>8. ASSUME NEW a \in Actors, GotLost(a) PROVE Grows
  BY <1>8 DEF GotLost, Goto, Fault, Grows, TypeOK
<1>9. ASSUME NEW a \in Actors, Broken(a) PROVE Grows
  BY <1>9 DEF Broken, Goto, Fault, Grows, TypeOK
<1>10. ASSUME NEW a \in Actors, Eof(a) PROVE Grows
  BY <1>10 DEF Eof, Goto, Fault, Grows, TypeOK
<1>11. ASSUME NEW a \in Actors, Eob(a) PROVE Grows
  BY <1>11 DEF Eob, Goto, Grows, TypeOK
<1>12. ASSUME NEW a \in Actors, NEW p \in Pkts, BeginFile(a, p) PROVE Grows
  BY <1>12 DEF BeginFile, Grows, TypeOK
<1>13. ASSUME NEW a \in Actors, List(a) PROVE Grows
  BY <1>13 DEF List, Goto, Grows, TypeOK
<1>14. ASSUME NEW a \in Actors, Open(a) PROVE Grows
  BY <1>14 DEF Open, Goto, Grows, TypeOK
<1>15. ASSUME NEW a \in Actors, Respond(a) PROVE Grows
  BY <1>15 DEF Respond, Goto, Grows, TypeOK
<1>16. ASSUME NEW a \in Actors, RespondFails(a) PROVE Grows
  BY <1>16 DEF RespondFails, Goto, Grows, TypeOK
<1>17. ASSUME NEW a \in Actors, Hold(a) PROVE Grows
  BY <1>17 DEF Hold, NextMsg, Goto, Grows, TypeOK
<1>18. ASSUME NEW a \in Actors, HoldFails(a) PROVE Grows
  BY <1>18 DEF HoldFails, NextMsg, Goto, DbError, Grows, TypeOK
<1>19. ASSUME NEW a \in Actors, Skip(a) PROVE Grows
  BY <1>19 DEF Skip, NextMsg, Goto, Grows, TypeOK
<1>20. ASSUME NEW a \in Actors, NotFiled(a) PROVE Grows
  BY <1>20 DEF NotFiled, Goto, Grows, TypeOK
<1>21. ASSUME NEW a \in Actors, DedupeFails(a) PROVE Grows
  BY <1>21 DEF DedupeFails, Goto, DbError, Grows, TypeOK
<1>22. ASSUME NEW a \in Actors, Number(a) PROVE Grows
  BY <1>22 DEF Number, Goto, Grows, TypeOK
<1>23. ASSUME NEW a \in Actors, Insert(a) PROVE Grows
  <2>1. Head(left[a]) \in Row
    BY <1>23, LeftTypes, RowType DEF Insert, HasMessage, TypeOK
  <2>2. QED
    BY <1>23, <2>1 DEF Insert, Grows
<1>24. ASSUME NEW a \in Actors, InsertFails(a) PROVE Grows
  BY <1>24 DEF InsertFails, NextMsg, Goto, DbError, Grows, TypeOK
<1>25. ASSUME NEW a \in Actors, Rename(a) PROVE Grows
  BY <1>25 DEF Rename, Goto, Grows, TypeOK
<1>26. ASSUME NEW a \in Actors, EndToss(a) PROVE Grows
  BY <1>26 DEF EndToss, Goto, Grows, TypeOK
<1>27. ASSUME UNCHANGED vars PROVE Grows
  BY <1>27 DEF vars, Grows, TypeOK
<1>28. QED
  BY <1>1, <1>2, <1>3, <1>4, <1>5, <1>6, <1>7, <1>8, <1>9, <1>10, <1>11,
     <1>12, <1>13, <1>14, <1>15, <1>16, <1>17, <1>18, <1>19, <1>20, <1>21,
       <1>22,
     <1>23, <1>24, <1>25, <1>26, <1>27 DEF Next, SessionStep, TossStep

\* What is kept stays kept.
LEMMA KeptGrows == TypeOK /\ Grows => \A m : Kept(m) => Kept(m)'
<1> SUFFICES ASSUME TypeOK, Grows, NEW m, Kept(m) PROVE Kept(m)'
  OBVIOUS
<1>1. CASE base' = base
  BY <1>1 DEF Grows, Kept
<1>2. ASSUME NEW r \in Row, base' = Append(base, r) PROVE Kept(m)'
  <2>1. base \in Seq(Row)
    BY DEF TypeOK
  <2>2. \A i \in DOMAIN base : i \in DOMAIN base' /\ base'[i] = base[i]
    BY <1>2, <2>1
  <2>3. QED
    BY <2>2 DEF Grows, Kept
<1>3. QED
  BY <1>1, <1>2 DEF Grows

\* A request comes into the message base by a toss that has called a
\* responder for it, not from a local caller.
LEMMA FiledWasAnsweredStep ==
  TypeOK /\ HasMessage /\ RobotInv /\ FiledWasAnswered /\ [Next]_vars
    => FiledWasAnswered'
<1> SUFFICES ASSUME TypeOK, HasMessage, RobotInv, FiledWasAnswered,
                    [Next]_vars
             PROVE  FiledWasAnswered'
  OBVIOUS
<1>1. answered \cup noted \subseteq (answered \cup noted)'
  BY GrowsStep DEF Grows
<1>2. ASSUME NEW r \in Row, base' = Append(base, r),
             r.robot => r \in answered \cup noted
      PROVE  FiledWasAnswered'
  <2>1. base \in Seq(Row) /\ Len(base) \in Nat
    BY DEF TypeOK
  <2>2. /\ DOMAIN base' = 1..(Len(base) + 1) /\ DOMAIN base = 1..Len(base)
        /\ base'[Len(base) + 1] = r
        /\ \A i \in 1..Len(base) : base'[i] = base[i]
    BY <1>2, <2>1
  <2>3. QED
    BY <1>1, <1>2, <2>1, <2>2 DEF FiledWasAnswered
<1>3. CASE LocalPost
  BY <1>2, <1>3, RowType DEF LocalPost
<1>4. ASSUME NEW a \in Actors, Insert(a) PROVE FiledWasAnswered'
  <2>1. Head(left[a]) \in Row
    BY <1>4, LeftTypes, RowType DEF Insert, HasMessage, TypeOK
  <2>2. Head(left[a]).robot => Head(left[a]) \in answered \cup noted
    BY <1>4 DEF Insert, RobotInv
  <2>3. QED
    BY <1>2, <1>4, <2>1, <2>2 DEF Insert
<1>5. CASE base' = base
  BY <1>1, <1>5 DEF FiledWasAnswered
<1>6. QED
  BY <1>3, <1>4, <1>5, QuietStep
     DEF Quiet, NotFiled, DedupeFails, Number, store

\* However many goroutines toss, and whatever fails, is sent again or cut
\* off: no row of the message base reads like a robot request for which no
\* responder was called before (tossFile's order).
THEOREM AnsweredBeforeFiled == Spec => []FiledWasAnswered
<1>1. Init => RobotInv /\ FiledWasAnswered
  BY DEF Init, RobotInv, FiledWasAnswered
<1>2. QED
  BY <1>1, TypeCorrect, RobotStep, FiledWasAnsweredStep, PTL DEF Spec
-----------------------------------------------------------------------------
\* What Tail leaves of a sequence.
LEMMA TailElements ==
  ASSUME NEW S, NEW s \in Seq(S), s # <<>>
  PROVE  /\ \A i \in DOMAIN Tail(s) :
              i + 1 \in DOMAIN s /\ Tail(s)[i] = s[i + 1]
         /\ \A i \in DOMAIN s :
              s[i] = Head(s) \/ \E j \in DOMAIN Tail(s) : Tail(s)[j] = s[i]
<1>1. /\ Len(s) \in Nat \ {0} /\ DOMAIN s = 1..Len(s)
      /\ DOMAIN Tail(s) = 1..(Len(s) - 1) /\ Head(s) = s[1]
      /\ \A i \in 1..(Len(s) - 1) : Tail(s)[i] = s[i + 1]
  OBVIOUS
<1>2. ASSUME NEW i \in DOMAIN s, i # 1
      PROVE  i - 1 \in DOMAIN Tail(s) /\ Tail(s)[i - 1] = s[i]
  BY <1>1, <1>2
<1>3. ASSUME NEW i \in DOMAIN s
      PROVE  s[i] = Head(s) \/ \E j \in DOMAIN Tail(s) : Tail(s)[j] = s[i]
  BY <1>1, <1>2
<1>4. ASSUME NEW i \in DOMAIN Tail(s)
      PROVE  i + 1 \in DOMAIN s /\ Tail(s)[i] = s[i + 1]
  BY <1>1
<1>5. QED
  BY <1>3, <1>4

\* What Append adds to one.
LEMMA AppendElements ==
  ASSUME NEW S, NEW s \in Seq(S), NEW x \in S
  PROVE  /\ DOMAIN Append(s, x) = DOMAIN s \cup {Len(s) + 1}
         /\ Append(s, x)[Len(s) + 1] = x /\ Len(s) + 1 \notin DOMAIN s
         /\ \A i \in DOMAIN s : Append(s, x)[i] = s[i]
OBVIOUS

\* Only a session that is receiving touches a packet before it is
\* acknowledged, and nothing truncates it after that.
LEMMA PacketStep ==
  SingleToss /\ TypeOK /\ PacketInv /\ [Next]_vars => PacketInv'
<1> SUFFICES ASSUME SingleToss, TypeOK, PacketInv, [Next]_vars
             PROVE  PacketInv'
  OBVIOUS
<1> USE TossAssumption DEF peer, dir, store, receive, toss, bounds
<1>1. ASSUME NEW p \in Pkts, Offer(p) PROVE PacketInv'
  BY <1>1 DEF Offer, PacketInv, SingleToss, None, TypeOK
<1>2. ASSUME LocalPost PROVE PacketInv'
  BY <1>2 DEF LocalPost, PacketInv, SingleToss, None, TypeOK
<1>3. ASSUME Crash PROVE PacketInv'
  BY <1>3 DEF Crash, Fault, PacketInv, SingleToss, None, TypeOK
<1>4. ASSUME NEW a \in Actors, BeginSession(a) PROVE PacketInv'
  BY <1>4 DEF BeginSession, Goto, PacketInv, SingleToss, None, TypeOK
<1>5. ASSUME NEW a \in Actors, OrderToss(a) PROVE PacketInv'
  BY <1>5 DEF OrderToss, Goto, PacketInv, SingleToss, None, TypeOK
<1>6. ASSUME NEW a \in Actors, Data(a) PROVE PacketInv'
  BY <1>6 DEF Data, PacketInv, SingleToss, None, TypeOK
<1>7. ASSUME NEW a \in Actors, Got(a) PROVE PacketInv'
  <2>1. \A b \in Actors : file'[b] = None
    BY <1>7 DEF Got, SingleToss, TypeOK
  <2>2. file[a] \in offered /\ file[a] \notin fresh
    BY <1>7 DEF Got, PacketInv
  <2>3. QED
    BY <1>7, <2>1, <2>2 DEF Got, PacketInv
<1>8. ASSUME NEW a \in Actors, GotLost(a) PROVE PacketInv'
  BY <1>8 DEF GotLost, Goto, Fault, PacketInv, SingleToss, None, TypeOK
<1>9. ASSUME NEW a \in Actors, Broken(a) PROVE PacketInv'
  BY <1>9 DEF Broken, Goto, Fault, PacketInv, SingleToss, None, TypeOK
<1>10. ASSUME NEW a \in Actors, Eof(a) PROVE PacketInv'
  BY <1>10 DEF Eof, Goto, Fault, PacketInv, SingleToss, None, TypeOK
<1>11. ASSUME NEW a \in Actors, Eob(a) PROVE PacketInv'
  BY <1>11 DEF Eob, Goto, PacketInv, SingleToss, None, TypeOK
<1>12. ASSUME NEW a \in Actors, NEW p \in Pkts, BeginFile(a, p) PROVE
     PacketInv'
  BY <1>12 DEF BeginFile, PacketInv, SingleToss, None, TypeOK
<1>13. ASSUME NEW a \in Actors, List(a) PROVE PacketInv'
  BY <1>13 DEF List, Goto, PacketInv, SingleToss, None, TypeOK
<1>14. ASSUME NEW a \in Actors, Open(a) PROVE PacketInv'
  BY <1>14 DEF Open, Goto, PacketInv, SingleToss, None, TypeOK
<1>15. ASSUME NEW a \in Actors, Respond(a) PROVE PacketInv'
  BY <1>15 DEF Respond, Goto, PacketInv, SingleToss, None, TypeOK
<1>16. ASSUME NEW a \in Actors, RespondFails(a) PROVE PacketInv'
  BY <1>16 DEF RespondFails, Goto, PacketInv, SingleToss, None, TypeOK
<1>17. ASSUME NEW a \in Actors, Hold(a) PROVE PacketInv'
  BY <1>17 DEF Hold, NextMsg, Goto, PacketInv, SingleToss, None, TypeOK
<1>18. ASSUME NEW a \in Actors, HoldFails(a) PROVE PacketInv'
  BY <1>18 DEF HoldFails, NextMsg, Goto, DbError, PacketInv, SingleToss, None,
     TypeOK
<1>19. ASSUME NEW a \in Actors, Skip(a) PROVE PacketInv'
  BY <1>19 DEF Skip, NextMsg, Goto, PacketInv, SingleToss, None, TypeOK
<1>20. ASSUME NEW a \in Actors, NotFiled(a) PROVE PacketInv'
  BY <1>20 DEF NotFiled, Goto, PacketInv, SingleToss, None, TypeOK
<1>21. ASSUME NEW a \in Actors, DedupeFails(a) PROVE PacketInv'
  BY <1>21 DEF DedupeFails, Goto, DbError, PacketInv, SingleToss, None, TypeOK
<1>22. ASSUME NEW a \in Actors, Number(a) PROVE PacketInv'
  BY <1>22 DEF Number, Goto, PacketInv, SingleToss, None, TypeOK
<1>23. ASSUME NEW a \in Actors, Insert(a) PROVE PacketInv'
  BY <1>23 DEF Insert, NextMsg, Goto, PacketInv, SingleToss, None, TypeOK
<1>24. ASSUME NEW a \in Actors, InsertFails(a) PROVE PacketInv'
  BY <1>24 DEF InsertFails, NextMsg, Goto, DbError, PacketInv, SingleToss,
     None, TypeOK
<1>25. ASSUME NEW a \in Actors, Rename(a) PROVE PacketInv'
  BY <1>25 DEF Rename, Goto, PacketInv, SingleToss, None, TypeOK
<1>26. ASSUME NEW a \in Actors, EndToss(a) PROVE PacketInv'
  BY <1>26 DEF EndToss, Goto, PacketInv, SingleToss, None, TypeOK
<1>27. ASSUME UNCHANGED vars PROVE PacketInv'
  BY <1>27 DEF vars, PacketInv, SingleToss, None, TypeOK
<1>28. QED
  BY <1>1, <1>2, <1>3, <1>4, <1>5, <1>6, <1>7, <1>8, <1>9, <1>10, <1>11,
     <1>12, <1>13, <1>14, <1>15, <1>16, <1>17, <1>18, <1>19, <1>20, <1>21,
       <1>22,
     <1>23, <1>24, <1>25, <1>26, <1>27 DEF Next, SessionStep, TossStep

\* Nothing is cut off where no unfinished packet was opened.
LEMMA WholeStep ==
  TypeOK /\ HasMessage /\ WholeInv /\ [Next]_vars => WholeInv'
<1> SUFFICES ASSUME TypeOK, HasMessage, WholeInv, [Next]_vars PROVE WholeInv'
  OBVIOUS
<1> USE DEF peer, dir, store, receive, toss, bounds
<1>1. ASSUME NEW p \in Pkts, Offer(p) PROVE WholeInv'
  BY <1>1 DEF Offer, WholeInv, TypeOK
<1>2. ASSUME LocalPost PROVE WholeInv'
  <2>1. PICK conf \in Confs : base' = Append(base, LocalMsg(conf))
    BY <1>2 DEF LocalPost
  <2>2. base \in Seq(Row) /\ LocalMsg(conf) \in Row
    BY RowType DEF TypeOK
  <2>3. torn = {} =>
          \A i \in DOMAIN base' :
            base'[i] \in Wholes \cup {LocalMsg(c) : c \in Confs}
    BY <2>1, <2>2, AppendElements DEF WholeInv
  <2>4. QED
    BY <1>2, <2>3 DEF LocalPost, WholeInv
<1>3. ASSUME Crash PROVE WholeInv'
  BY <1>3 DEF Crash, Fault, WholeInv, TypeOK
<1>4. ASSUME NEW a \in Actors, BeginSession(a) PROVE WholeInv'
  BY <1>4 DEF BeginSession, Goto, WholeInv, TypeOK
<1>5. ASSUME NEW a \in Actors, OrderToss(a) PROVE WholeInv'
  BY <1>5 DEF OrderToss, Goto, WholeInv, TypeOK
<1>6. ASSUME NEW a \in Actors, Data(a) PROVE WholeInv'
  BY <1>6 DEF Data, WholeInv, TypeOK
<1>7. ASSUME NEW a \in Actors, Got(a) PROVE WholeInv'
  BY <1>7 DEF Got, WholeInv, TypeOK
<1>8. ASSUME NEW a \in Actors, GotLost(a) PROVE WholeInv'
  BY <1>8 DEF GotLost, Goto, Fault, WholeInv, TypeOK
<1>9. ASSUME NEW a \in Actors, Broken(a) PROVE WholeInv'
  BY <1>9 DEF Broken, Goto, Fault, WholeInv, TypeOK
<1>10. ASSUME NEW a \in Actors, Eof(a) PROVE WholeInv'
  BY <1>10 DEF Eof, Goto, Fault, WholeInv, TypeOK
<1>11. ASSUME NEW a \in Actors, Eob(a) PROVE WholeInv'
  BY <1>11 DEF Eob, Goto, WholeInv, TypeOK
<1>12. ASSUME NEW a \in Actors, NEW p \in Pkts, BeginFile(a, p) PROVE
     WholeInv'
  BY <1>12 DEF BeginFile, WholeInv, TypeOK
<1>13. ASSUME NEW a \in Actors, List(a) PROVE WholeInv'
  BY <1>13 DEF List, Goto, WholeInv, TypeOK
<1>14. ASSUME NEW a \in Actors, Open(a) PROVE WholeInv'
  <2>1. PICK p \in queue[a] :
          \/ /\ p \in inbox
             /\ \E r \in Readings(p, have[p]) : left' = [left EXCEPT ![a] = r]
             /\ torn' = IF have[p] < Len(Content[p])
                           THEN torn \cup {p} ELSE torn
          \/ left' = [left EXCEPT ![a] = <<>>] /\ UNCHANGED torn
    BY <1>14 DEF Open
  <2>2. PICK r :
          /\ left' = [left EXCEPT ![a] = r]
          /\ torn' = {} => torn = {}
          /\ torn' = {} /\ r # <<>>
               => r \in Readings(p, have[p]) /\ ~(have[p] < Len(Content[p]))
    BY <2>1
  <2>3. torn' = {} => \A i \in DOMAIN r : r[i] \in Wholes
    <3>1. CASE r = <<>>
      BY <3>1
    <3>2. CASE r # <<>> /\ torn' = {}
      <4>1. have[p] = Len(Content[p])
        BY <2>2, <3>2, TossAssumption DEF TypeOK
      <4>2. r = [i \in 1..have[p] |-> Whole(Content[p][i])]
        BY <2>2, <3>2, <4>1 DEF Readings
      <4>3. \A i \in 1..Len(Content[p]) : Content[p][i] \in Msgs
        <5>1. p \in Pkts
          BY DEF TypeOK
        <5>2. Content[p] \in Seq(Msgs)
          BY <5>1, TossAssumption
        <5>3. QED
          BY <5>2
      <4>4. QED
        BY <4>1, <4>2, <4>3 DEF Wholes
    <3>3. QED
      BY <3>1, <3>2
  <2>4. QED
    BY <1>14, <2>2, <2>3 DEF Open, WholeInv, TypeOK
<1>15. ASSUME NEW a \in Actors, Respond(a) PROVE WholeInv'
  BY <1>15 DEF Respond, Goto, WholeInv, TypeOK
<1>16. ASSUME NEW a \in Actors, RespondFails(a) PROVE WholeInv'
  BY <1>16 DEF RespondFails, Goto, WholeInv, TypeOK
<1>17. ASSUME NEW a \in Actors, Hold(a) PROVE WholeInv'
  <2>1. left[a] \in Seq(Copy) /\ left[a] # <<>>
    BY <1>17 DEF Hold, HasMessage, TypeOK
  <2>2. \A i \in DOMAIN Tail(left[a]) :
          Tail(left[a])[i] \in Wholes \/ torn # {}
    BY <2>1, TailElements DEF WholeInv
  <2>3. QED
    BY <1>17, <2>2 DEF Hold, NextMsg, DbError, WholeInv, TypeOK
<1>18. ASSUME NEW a \in Actors, HoldFails(a) PROVE WholeInv'
  <2>1. left[a] \in Seq(Copy) /\ left[a] # <<>>
    BY <1>18 DEF HoldFails, HasMessage, TypeOK
  <2>2. \A i \in DOMAIN Tail(left[a]) :
          Tail(left[a])[i] \in Wholes \/ torn # {}
    BY <2>1, TailElements DEF WholeInv
  <2>3. QED
    BY <1>18, <2>2 DEF HoldFails, NextMsg, DbError, WholeInv, TypeOK
<1>19. ASSUME NEW a \in Actors, Skip(a) PROVE WholeInv'
  <2>1. left[a] \in Seq(Copy) /\ left[a] # <<>>
    BY <1>19 DEF Skip, HasMessage, TypeOK
  <2>2. \A i \in DOMAIN Tail(left[a]) :
          Tail(left[a])[i] \in Wholes \/ torn # {}
    BY <2>1, TailElements DEF WholeInv
  <2>3. QED
    BY <1>19, <2>2 DEF Skip, NextMsg, DbError, WholeInv, TypeOK
<1>20. ASSUME NEW a \in Actors, NotFiled(a) PROVE WholeInv'
  BY <1>20 DEF NotFiled, Goto, WholeInv, TypeOK
<1>21. ASSUME NEW a \in Actors, DedupeFails(a) PROVE WholeInv'
  BY <1>21 DEF DedupeFails, Goto, DbError, WholeInv, TypeOK
<1>22. ASSUME NEW a \in Actors, Number(a) PROVE WholeInv'
  BY <1>22 DEF Number, Goto, WholeInv, TypeOK
<1>23. ASSUME NEW a \in Actors, Insert(a) PROVE WholeInv'
  <2>1. left[a] \in Seq(Copy) /\ left[a] # <<>>
    BY <1>23 DEF Insert, HasMessage, TypeOK
  <2>2. \A i \in DOMAIN Tail(left[a]) :
          Tail(left[a])[i] \in Wholes \/ torn # {}
    BY <2>1, TailElements DEF WholeInv
  <2>3. Head(left[a]) \in Row /\ (Head(left[a]) \in Wholes \/ torn # {})
    <3>1. 1 \in DOMAIN left[a] /\ Head(left[a]) = left[a][1]
      BY <2>1
    <3>2. Head(left[a]) \in Row
      BY <2>1, LeftTypes, RowType
    <3>3. QED
      BY <3>1, <3>2 DEF WholeInv
  <2>4. base \in Seq(Row)
    BY DEF TypeOK
  <2>5. torn = {} =>
          \A i \in DOMAIN base' :
            base'[i] \in Wholes \cup {LocalMsg(c) : c \in Confs}
    BY <1>23, <2>3, <2>4, AppendElements DEF Insert, WholeInv
  <2>6. QED
    BY <1>23, <2>2, <2>5 DEF Insert, NextMsg, WholeInv, TypeOK
<1>24. ASSUME NEW a \in Actors, InsertFails(a) PROVE WholeInv'
  <2>1. left[a] \in Seq(Copy) /\ left[a] # <<>>
    BY <1>24 DEF InsertFails, HasMessage, TypeOK
  <2>2. \A i \in DOMAIN Tail(left[a]) :
          Tail(left[a])[i] \in Wholes \/ torn # {}
    BY <2>1, TailElements DEF WholeInv
  <2>3. QED
    BY <1>24, <2>2 DEF InsertFails, NextMsg, DbError, WholeInv, TypeOK
<1>25. ASSUME NEW a \in Actors, Rename(a) PROVE WholeInv'
  BY <1>25 DEF Rename, Goto, WholeInv, TypeOK
<1>26. ASSUME NEW a \in Actors, EndToss(a) PROVE WholeInv'
  BY <1>26 DEF EndToss, Goto, WholeInv, TypeOK
<1>27. ASSUME UNCHANGED vars PROVE WholeInv'
  BY <1>27 DEF vars, WholeInv, TypeOK
<1>28. QED
  BY <1>1, <1>2, <1>3, <1>4, <1>5, <1>6, <1>7, <1>8, <1>9, <1>10, <1>11,
     <1>12, <1>13, <1>14, <1>15, <1>16, <1>17, <1>18, <1>19, <1>20, <1>21,
       <1>22,
     <1>23, <1>24, <1>25, <1>26, <1>27 DEF Next, SessionStep, TossStep

\* Taking the first message leaves the others.
LEMMA AheadNext ==
  ASSUME NEW a \in Actors, left \in [Actors -> Seq(Copy)], left[a] # <<>>,
         left' = [left EXCEPT ![a] = Tail(@)],
         NEW m, Ahead(a, m), Head(left[a]) # Whole(m)
  PROVE  Ahead(a, m)'
<1>1. left[a] \in Seq(Copy) /\ left'[a] = Tail(left[a])
  OBVIOUS
<1>2. QED
  BY <1>1, TailElements DEF Ahead

\* A toss takes its first message away.
Takes(a) ==
  Hold(a) \/ HoldFails(a) \/ Skip(a) \/ Insert(a) \/ InsertFails(a)

\* A goroutine with a packet in its hands has just opened it, has taken its
\* next message away, or has it as before.
LEMMA TossMoves ==
  ASSUME SingleToss, TypeOK, PacketInv, [Next]_vars,
         NEW b \in Actors, Tossing(b)', cur'[b] \in inbox'
  PROVE  \/ Open(b) /\ UNCHANGED <<acked, inbox>>
         \/ /\ Tossing(b) /\ cur[b] \in inbox /\ UNCHANGED <<cur, acked>>
            /\ \/ UNCHANGED left
               \/ /\ Takes(b) /\ pc[b] # "robot"
                  /\ left' = [left EXCEPT ![b] = Tail(@)]
<1> DEFINE Same == Tossing(b) /\ cur[b] \in inbox /\ UNCHANGED <<cur, acked>>
           Taken == /\ Takes(b) /\ pc[b] # "robot"
                    /\ left' = [left EXCEPT ![b] = Tail(@)]
           Goal == \/ Open(b) /\ UNCHANGED <<acked, inbox>>
                   \/ Same /\ (UNCHANGED left \/ Taken)
<1> USE DEF Tossing, SingleToss, TypeOK
<1>1. ASSUME NEW p \in Pkts, Offer(p) PROVE Goal
  BY <1>1 DEF Offer, dir, toss
<1>2. ASSUME LocalPost PROVE Goal
  BY <1>2 DEF LocalPost, dir, toss, peer
<1>3. ASSUME Crash PROVE Goal
  BY <1>3 DEF Crash
<1>4. ASSUME NEW a \in Actors, BeginSession(a) PROVE Goal
  BY <1>4 DEF BeginSession, Goto
<1>5. ASSUME NEW a \in Actors, OrderToss(a) PROVE Goal
  BY <1>5 DEF OrderToss, Goto
<1>6. ASSUME NEW a \in Actors, Data(a) PROVE Goal
  BY <1>6 DEF Data, PacketInv
<1>7. ASSUME NEW a \in Actors, Got(a) PROVE Goal
  BY <1>7 DEF Got, PacketInv
<1>8. ASSUME NEW a \in Actors, GotLost(a) PROVE Goal
  BY <1>8 DEF GotLost, Goto
<1>9. ASSUME NEW a \in Actors, Broken(a) PROVE Goal
  BY <1>9 DEF Broken, Goto
<1>10. ASSUME NEW a \in Actors, Eof(a) PROVE Goal
  BY <1>10 DEF Eof, Goto
<1>11. ASSUME NEW a \in Actors, Eob(a) PROVE Goal
  BY <1>11 DEF Eob, Goto
<1>12. ASSUME NEW a \in Actors, NEW p \in Pkts, BeginFile(a, p) PROVE Goal
  BY <1>12 DEF BeginFile
<1>13. ASSUME NEW a \in Actors, List(a) PROVE Goal
  BY <1>13 DEF List, Goto
<1>14. ASSUME NEW a \in Actors, Open(a) PROVE Goal
  BY <1>14 DEF Open, dir, peer
<1>15. ASSUME NEW a \in Actors, Respond(a) PROVE Goal
  BY <1>15 DEF Respond, dir, peer, toss
<1>16. ASSUME NEW a \in Actors, RespondFails(a) PROVE Goal
  BY <1>16 DEF RespondFails, dir, peer, toss
<1>17. ASSUME NEW a \in Actors, Takes(a) PROVE Goal
  <2>1. a = b
    OBVIOUS
  <2>2. /\ pc[a] \in {"route", "insert"} /\ UNCHANGED <<cur, acked, inbox>>
        /\ left' = [left EXCEPT ![a] = Tail(@)]
    BY <1>17 DEF Takes, Hold, HoldFails, Skip, Insert, InsertFails, NextMsg,
       dir, peer
  <2>3. QED
    BY <1>17, <2>1, <2>2
<1>18. ASSUME NEW a \in Actors, NotFiled(a) \/ DedupeFails(a) \/ Number(a)
       PROVE  Goal
  <2>1. a = b
    OBVIOUS
  <2>2. pc[a] \in {"route", "post"} /\ UNCHANGED <<cur, acked, inbox, left>>
    BY <1>18 DEF NotFiled, DedupeFails, Number, dir, peer, toss
  <2>3. QED
    BY <2>1, <2>2
<1>19. ASSUME NEW a \in Actors, Rename(a) PROVE Goal
  BY <1>19 DEF Rename, Goto
<1>20. ASSUME NEW a \in Actors, EndToss(a) PROVE Goal
  BY <1>20 DEF EndToss, Goto
<1>21. ASSUME UNCHANGED vars PROVE Goal
  BY <1>21 DEF vars, dir, peer, toss
<1>22. QED
  BY <1>1, <1>2, <1>3, <1>4, <1>5, <1>6, <1>7, <1>8, <1>9, <1>10, <1>11,
     <1>12, <1>13, <1>14, <1>15, <1>16, <1>17, <1>18, <1>19, <1>20, <1>21
     DEF Takes, Next, SessionStep, TossStep

\* A packet that is opened whole is still to be processed, every message.
LEMMA OpenWhole ==
  ASSUME TypeOK, NEW b \in Actors, Open(b),
         NEW p \in inbox, cur'[b] = p, have[p] = Len(Content[p]),
         NEW i \in DOMAIN Content[p], NEW m, m = Content[p][i]
  PROVE  Ahead(b, m)'
<1>1. PICK q \in queue[b] :
        /\ cur' = [cur EXCEPT ![b] = q]
        /\ \/ \E r \in Readings(q, have[q]) : left' = [left EXCEPT ![b] = r]
           \/ q \notin inbox
  BY DEF Open
<1>2. q = p /\ p \in Pkts
  BY <1>1 DEF TypeOK
<1>3. left'[b] = [j \in 1..Len(Content[p]) |-> Whole(Content[p][j])]
  <2>1. Readings(p, have[p])
          = {[j \in 1..Len(Content[p]) |-> Whole(Content[p][j])]}
    BY DEF Readings
  <2>2. \E r \in Readings(p, have[p]) : left' = [left EXCEPT ![b] = r]
    BY <1>1, <1>2
  <2>3. QED
    BY <2>1, <2>2 DEF TypeOK
<1>4. i \in 1..Len(Content[p])
  BY <1>2, TossAssumption
<1>5. QED
  BY <1>3, <1>4 DEF Ahead

\* A message leaves the list only for the message base or the holding
\* directory, and only a tossed packet leaves the inbound directory.
LEMMA TossedStep ==
  SingleToss /\ TypeOK /\ HasMessage /\ PacketInv /\ WholeInv /\ TossedInv
    /\ [Next]_vars => TossedInv'
<1> SUFFICES ASSUME SingleToss, TypeOK, HasMessage, PacketInv, WholeInv,
                    TossedInv, [Next]_vars, torn' = {}, dbErrors' = 0,
                    NEW b \in Actors, Tossing(b)', cur'[b] \in inbox',
                    NEW i \in DOMAIN Content[cur'[b]],
                    NEW m, m = Content[cur'[b]][i]
             PROVE  Kept(m)' \/ Ahead(b, m)'
  BY DEF TossedInv, Kept, Ahead
<1>1. Kept(m) => Kept(m)'
  BY GrowsStep, KeptGrows
<1>2. torn = {} /\ dbErrors = 0
  BY GrowsStep DEF Grows
<1>3. ASSUME Tossing(b), cur[b] \in inbox, cur'[b] = cur[b]
      PROVE  Kept(m) \/ Ahead(b, m)
  BY <1>2, <1>3 DEF TossedInv
<1>4. CASE Open(b) /\ UNCHANGED inbox
  <2>1. PICK p \in queue[b] :
          /\ cur' = [cur EXCEPT ![b] = p]
          /\ \/ torn' = IF have[p] < Len(Content[p])
                        THEN torn \cup {p} ELSE torn
             \/ p \notin inbox
    BY <1>4 DEF Open
  <2>2. cur'[b] = p /\ p \in inbox /\ p \in Pkts
    BY <1>4, <2>1 DEF TypeOK
  <2>3. have[p] = Len(Content[p])
    BY <1>2, <2>1, <2>2, TossAssumption DEF TypeOK
  <2>4. QED
    BY <1>4, <2>2, <2>3, OpenWhole
<1>5. CASE /\ Tossing(b) /\ cur[b] \in inbox /\ UNCHANGED <<cur, left>>
  BY <1>1, <1>3, <1>5 DEF Ahead
<1>6. ASSUME Tossing(b), cur[b] \in inbox, UNCHANGED cur, Takes(b),
             pc[b] # "robot", left' = [left EXCEPT ![b] = Tail(@)]
      PROVE  Kept(m)' \/ Ahead(b, m)'
  <2>1. left[b] # <<>> /\ left[b] \in Seq(Copy)
    BY <1>6 DEF HasMessage, Tossing, TypeOK
  <2>2. SUFFICES ASSUME Head(left[b]) = Whole(m) PROVE Kept(m)'
    BY <1>1, <1>3, <1>6, <2>1, AheadNext DEF TypeOK
  <2>3. CASE Hold(b)
    BY <2>2, <2>3 DEF Hold, Kept
  <2>4. CASE HoldFails(b)
    BY <1>2, <2>4 DEF HoldFails, DbError, TypeOK
  <2>5. CASE Skip(b)
    <3>1. PICK j \in DOMAIN base : SameId(Whole(m), base[j])
      BY <2>2, <2>5 DEF Skip, Filed
    <3>2. Whole(m).id = "read" /\ Whole(m).msg = m
      BY <2>2, <2>5 DEF Skip, Whole
    <3>3. base[j].id = "read" /\ base[j].msg = m
      BY <3>1, <3>2 DEF SameId
    <3>4. base[j] \in Wholes
      BY <1>2, <3>3, RowType DEF WholeInv
    <3>5. base[j] = Whole(m)
      BY <3>3, <3>4, WholeType DEF Wholes
    <3>6. QED
      BY <1>1, <3>5 DEF Kept
  <2>6. CASE Insert(b)
    <3>1. Head(left[b]) \in Row /\ base \in Seq(Row)
      BY <2>1, LeftTypes, RowType DEF TypeOK
    <3>2. QED
      BY <2>2, <2>6, <3>1, AppendElements DEF Insert, Kept
  <2>7. CASE InsertFails(b)
    BY <2>2, <2>7 DEF InsertFails, Kept
  <2>8. QED
    BY <1>6, <2>3, <2>4, <2>5, <2>6, <2>7 DEF Takes
<1>7. QED
  BY <1>4, <1>5, <1>6, TossMoves

\* A packet that waits as the peer sent it.
Waits(p) == p \in inbox /\ have[p] = Len(Content[p])

\* An acknowledged packet is neither truncated nor written, and only the toss
\* that has processed it takes it away.
LEMMA LeavesInbox ==
  ASSUME TypeOK, PacketInv, [Next]_vars, NEW p \in acked', ~Waits(p)'
  PROVE  \/ p \in acked /\ ~Waits(p)
         \/ p \in acked /\ \E a \in Actors : Rename(a) /\ cur[a] = p /\
              p \in inbox
<1> DEFINE Goal ==
      \/ p \in acked /\ ~Waits(p)
      \/ p \in acked /\ \E a \in Actors : Rename(a) /\ cur[a] = p /\
           p \in inbox
<1> USE DEF peer, dir, store, receive, toss, bounds
<1>1. ASSUME NEW a \in Actors, Rename(a) PROVE Goal
  <2>1. UNCHANGED <<acked, have>> /\ inbox' = inbox \ {cur[a]}
    BY <1>1 DEF Rename
  <2>2. QED
    BY <1>1, <2>1 DEF Waits
<1>2. ASSUME NEW a \in Actors, Got(a) PROVE Goal
  BY <1>2 DEF Got, PacketInv, Waits
<1>3. ASSUME NEW a \in Actors, NEW q \in Pkts, BeginFile(a, q) PROVE Goal
  <2>1. p # q /\ UNCHANGED acked
    BY <1>3 DEF BeginFile, PacketInv
  <2>2. QED
    BY <1>3, <2>1 DEF BeginFile, TypeOK, Waits
<1>4. ASSUME NEW a \in Actors, Data(a) PROVE Goal
  <2>1. p # file[a] /\ UNCHANGED acked
    BY <1>4 DEF Data, PacketInv
  <2>2. QED
    BY <1>4, <2>1 DEF Data, TypeOK, Waits
<1>5. CASE UNCHANGED <<acked, inbox, have>>
  BY <1>5 DEF Waits
<1>6. QED
  BY <1>1, <1>2, <1>3, <1>4, <1>5
     DEF Next, SessionStep, TossStep, vars, Offer, LocalPost, Crash,
     BeginSession, OrderToss, GotLost, Broken, Eof, Eob, List, Open, Respond,
     RespondFails, Hold, HoldFails, Skip, NotFiled, DedupeFails, Number,
     Insert, InsertFails, EndToss

\* What was acknowledged waits whole, or has been tossed and kept.
LEMMA KeptUnlessTornStep ==
  SingleToss /\ TypeOK /\ HasMessage /\ PacketInv /\ TossedInv
    /\ KeptUnlessTorn /\ [Next]_vars => KeptUnlessTorn'
<1> SUFFICES ASSUME SingleToss, TypeOK, HasMessage, PacketInv, TossedInv,
                    KeptUnlessTorn, [Next]_vars, torn' = {}, dbErrors' = 0,
                    NEW p \in acked', ~Waits(p)',
                    NEW i \in DOMAIN Content[p]
             PROVE  Kept(Content[p][i])'
  BY DEF KeptUnlessTorn, AckedKept, Waits
<1> DEFINE m == Content[p][i]
<1>1. torn = {} /\ dbErrors = 0
  BY GrowsStep DEF Grows
<1>2. ASSUME p \in acked, ~Waits(p) PROVE Kept(m)
  BY <1>1, <1>2 DEF KeptUnlessTorn, AckedKept, Waits
<1>3. ASSUME NEW a \in Actors, Rename(a), cur[a] = p, p \in inbox
      PROVE  Kept(m)
  <2>1. ~Ahead(a, m) /\ Tossing(a)
    BY <1>3 DEF Rename, Ahead, Tossing
  <2>2. QED
    BY <1>1, <1>3, <2>1 DEF TossedInv
<1>4. Kept(m)
  BY <1>2, <1>3, LeavesInbox
<1> HIDE DEF m
<1>5. Kept(m)'
  BY <1>4, GrowsStep, KeptGrows
<1>6. QED
  BY <1>5 DEF m

\* With one goroutine tossing: when the peer has been told that we have a
\* packet, every message of it is in the inbound directory, the message base
\* or the holding directory, whole -- through any number of dropped sessions,
\* lost acknowledgements and crashes, as long as no unfinished file is
\* tossed and the database answers.
THEOREM AcknowledgedKept ==
  ASSUME SingleToss
  PROVE  Spec => []KeptUnlessTorn
<1> DEFINE Inv == PacketInv /\ WholeInv /\ TossedInv /\ KeptUnlessTorn
<1>1. Init => Inv
  BY DEF Init, PacketInv, WholeInv, TossedInv, Tossing, KeptUnlessTorn,
     AckedKept
<1>2. TypeOK /\ HasMessage /\ Inv /\ [Next]_vars => Inv'
  BY SingleToss, PacketStep, WholeStep, TossedStep, KeptUnlessTornStep
<1>3. Inv => KeptUnlessTorn
  OBVIOUS
<1>4. QED
  BY <1>1, <1>2, <1>3, TypeCorrect, PTL DEF Spec
-----------------------------------------------------------------------------
\* A packet is acknowledged when it is whole.
LEMMA AckedWholeStep ==
  TypeOK /\ PacketInv /\ AckedWhole /\ [Next]_vars => AckedWhole'
<1> SUFFICES ASSUME TypeOK, PacketInv, AckedWhole, [Next]_vars,
                    NEW p \in acked' \cap inbox'
             PROVE  have'[p] = Len(Content[p])
  BY DEF AckedWhole
<1> USE DEF peer, dir, store, receive, toss, bounds
<1>1. ASSUME NEW a \in Actors, Got(a) PROVE have'[p] = Len(Content[p])
  BY <1>1 DEF Got, PacketInv, AckedWhole
<1>2. ASSUME NEW a \in Actors, NEW q \in Pkts, BeginFile(a, q)
      PROVE  have'[p] = Len(Content[p])
  <2>1. p # q /\ p \in acked
    BY <1>2 DEF BeginFile, PacketInv
  <2>2. QED
    BY <1>2, <2>1 DEF BeginFile, TypeOK, AckedWhole
<1>3. ASSUME NEW a \in Actors, Data(a) PROVE have'[p] = Len(Content[p])
  <2>1. p # file[a] /\ p \in acked
    BY <1>3 DEF Data, PacketInv
  <2>2. QED
    BY <1>3, <2>1 DEF Data, TypeOK, AckedWhole
<1>4. CASE UNCHANGED <<acked, have>> /\ inbox' \subseteq inbox
  BY <1>4 DEF AckedWhole
<1>5. QED
  BY <1>1, <1>2, <1>3, <1>4
     DEF Next, SessionStep, TossStep, vars, Offer, LocalPost, Crash,
     BeginSession, OrderToss, GotLost, Broken, Eof, Eob, List, Open, Respond,
     RespondFails, Hold, HoldFails, Skip, NotFiled, DedupeFails, Number,
     Insert, InsertFails, Rename, EndToss

\* A request leaves the list of the messages to process only after the
\* responders.
LEMMA AnsweringStep ==
  SingleToss /\ TypeOK /\ HasMessage /\ PacketInv /\ RobotInv /\ AckedWhole
    /\ AnsweringInv /\ [Next]_vars => AnsweringInv'
<1> SUFFICES ASSUME SingleToss, TypeOK, HasMessage, PacketInv, RobotInv,
                    AckedWhole, AnsweringInv, [Next]_vars,
                    NEW b \in Actors, Tossing(b)',
                    cur'[b] \in inbox' \cap acked',
                    NEW i \in DOMAIN Content[cur'[b]],
                    NEW m, m = Content[cur'[b]][i], m \in Robots
             PROVE  Whole(m) \in (answered \cup noted)' \/ Ahead(b, m)'
  BY DEF AnsweringInv, Ahead
<1>1. answered \cup noted \subseteq (answered \cup noted)'
  BY GrowsStep DEF Grows
<1>2. ASSUME Tossing(b), cur[b] \in inbox, UNCHANGED <<cur, acked>>
      PROVE  Whole(m) \in answered \cup noted \/ Ahead(b, m)
  BY <1>2 DEF AnsweringInv
<1>3. CASE Open(b) /\ UNCHANGED <<acked, inbox>>
  <2>1. cur'[b] \in acked \cap inbox
    BY <1>3
  <2>2. QED
    BY <1>3, <2>1, OpenWhole DEF AckedWhole
<1>4. CASE Tossing(b) /\ cur[b] \in inbox /\ UNCHANGED <<cur, acked, left>>
  BY <1>1, <1>2, <1>4 DEF Ahead
<1>5. ASSUME Tossing(b), cur[b] \in inbox, UNCHANGED <<cur, acked>>,
             pc[b] # "robot", left' = [left EXCEPT ![b] = Tail(@)]
      PROVE  Whole(m) \in answered \cup noted \/ Ahead(b, m)'
  <2>1. left[b] # <<>>
    BY <1>5 DEF HasMessage, Tossing
  <2>2. SUFFICES ASSUME Head(left[b]) = Whole(m)
                 PROVE  Whole(m) \in answered \cup noted
    BY <1>2, <1>5, <2>1, AheadNext DEF TypeOK
  <2>3. Whole(m).robot
    BY DEF Whole
  <2>4. QED
    BY <1>5, <2>2, <2>3 DEF RobotInv, Tossing
<1>6. QED
  BY <1>1, <1>3, <1>4, <1>5, TossMoves

\* When an acknowledged packet is moved away, all its requests are answered.
LEMMA AckedAnsweredStep ==
  TypeOK /\ HasMessage /\ PacketInv /\ AnsweringInv /\ AckedAnswered
    /\ [Next]_vars => AckedAnswered'
<1> SUFFICES ASSUME TypeOK, HasMessage, PacketInv, AnsweringInv,
                    AckedAnswered, [Next]_vars,
                    NEW p \in acked', ~Waits(p)',
                    NEW i \in DOMAIN Content[p], Content[p][i] \in Robots
             PROVE  Whole(Content[p][i]) \in (answered \cup noted)'
  BY DEF AckedAnswered, Waits
<1> DEFINE m == Content[p][i]
<1>1. ASSUME p \in acked, ~Waits(p)
      PROVE  Whole(m) \in answered \cup noted
  BY <1>1 DEF AckedAnswered, Waits
<1>2. ASSUME NEW a \in Actors, Rename(a), cur[a] = p, p \in inbox \cap acked
      PROVE  Whole(m) \in answered \cup noted
  <2>1. ~Ahead(a, m) /\ Tossing(a)
    BY <1>2 DEF Rename, Ahead, Tossing
  <2>2. QED
    BY <1>2, <2>1 DEF AnsweringInv
<1>3. Whole(m) \in answered \cup noted
  BY <1>1, <1>2, LeavesInbox
<1>4. QED
  BY <1>3, GrowsStep DEF Grows

\* With one goroutine tossing: when the peer has been told that we have a
\* packet, every request in it waits in the inbound directory or has been
\* answered whole, or its responder's error was noted; and nothing that reads
\* like a request is filed before.  This does not depend on the database, nor
\* on whether a first part of the packet was tossed earlier and the request
\* is a duplicate now.
THEOREM RequestsServed ==
  ASSUME SingleToss
  PROVE  Spec => []RequestsAnswered
<1> DEFINE Inv == PacketInv /\ RobotInv /\ AckedWhole /\ AnsweringInv
                    /\ AckedAnswered
<1>1. Init => Inv
  BY DEF Init, PacketInv, RobotInv, AckedWhole, AnsweringInv, AckedAnswered
<1>2. TypeOK /\ HasMessage /\ Inv /\ [Next]_vars => Inv'
  BY SingleToss, PacketStep, RobotStep, AckedWholeStep, AnsweringStep,
     AckedAnsweredStep
<1>3. Inv /\ FiledWasAnswered => RequestsAnswered
  BY DEF RequestsAnswered
<1>4. QED
  BY <1>1, <1>2, <1>3, TypeCorrect, AnsweredBeforeFiled, PTL DEF Spec
=============================================================================
