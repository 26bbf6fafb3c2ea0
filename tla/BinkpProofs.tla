----------------------------- MODULE BinkpProofs -----------------------------
(***************************************************************************)
(* Theorems about BinkpSession, for any files and sizes, with VirtBBS at   *)
(* both ends or another mailer at one, and any number of faults, further   *)
(* sessions and requests for an offset.                                    *)
(*                                                                         *)
(* RemovedWasTaken alone is not inductive.  What makes it hold is that an  *)
(* end which empties a file of the same name on M_FILE has not answered it *)
(* in this session (OnceInv), so an answer on its way is still true when   *)
(* it is read (AnswersInv), and that the answerer lists its outbound       *)
(* directory before it announces anything (QuietInv).                      *)
(*                                                                         *)
(* NothingResent is about sessions of two nodes in which nothing failed.   *)
(* It needs to know where such a session is (Stage): one end receives what *)
(* is on its way (Stream), and the other has its answers in the result or  *)
(* is about to read them (ResultInv).                                      *)
(***************************************************************************)
EXTENDS BinkpSession, SequenceTheorems, WellFoundedInduction,
        TLAPS

Labels == {"adr", "auth", "wadr", "wpwd", "send", "window", "data", "got",
           "receive", "clean", "mail", "done"}

\* The frames that can be on their way to e: only its peer announces the
\* peer's files, and only another mailer asks for an offset.
Frame == [t : Commands, f : Files \cup {None}, off : Nat]
FramesTo(e) ==
  {x \in Frame :
     /\ x.t = "FILE" => x.f \in QueuedBy(Other(e)) /\ x.off <= size[x.f]
     /\ x.t \in {"GOT", "GET", "SKIP"} => x.f \in QueuedBy(e)
     /\ x.t = "GET" => x.off <= size[x.f] /\ Other(e) = mailer}

\* What the variables of one end can be.
EndTypes(e) ==
  /\ outbox[e] \subseteq QueuedBy(e) /\ queue[e] \subseteq QueuedBy(e)
  /\ sent[e] \subseteq QueuedBy(e)
  /\ inbox[e] \subseteq QueuedBy(Other(e))
  /\ part[e] \subseteq QueuedBy(Other(e))
  /\ taken[e] \subseteq QueuedBy(Other(e))
  /\ torn[e] \subseteq QueuedBy(Other(e))
  /\ received[e] \subseteq QueuedBy(Other(e))
  /\ cur[e] \in QueuedBy(e) \cup {None} /\ off[e] \in Nat
  /\ cur[e] # None => off[e] <= size[cur[e]]
  /\ rcv[e] \in QueuedBy(Other(e)) \cup {None} /\ got[e] \in Nat
  /\ rcv[e] # None => got[e] < size[rcv[e]]
  /\ e = mailer => pc[e] \in {"adr", "auth", "wadr", "wpwd", "mail", "done"}

Types ==
  /\ mailer \in Ends \cup {"none"} /\ standing \in Standings /\ size \in Sizes
  /\ outbox \in [Ends -> SUBSET Files] /\ inbox \in [Ends -> SUBSET Files]
  /\ part \in [Ends -> SUBSET Files] /\ taken \in [Ends -> SUBSET Files]
  /\ torn \in [Ends -> SUBSET Files] /\ received \in [Ends -> SUBSET Files]
  /\ queue \in [Ends -> SUBSET Files] /\ sent \in [Ends -> SUBSET Files]
  /\ skipped \in SUBSET Files
  /\ cur \in [Ends -> Files \cup {None}] /\ off \in [Ends -> Nat]
  /\ rcv \in [Ends -> Files \cup {None}] /\ got \in [Ends -> Nat]
  /\ pc \in [Ends -> Labels]
  /\ open \in [Ends -> BOOLEAN] /\ armed \in [Ends -> BOOLEAN]
  /\ up \in BOOLEAN /\ eobSent \in BOOLEAN /\ eobSeen \in BOOLEAN
  /\ hung \in BOOLEAN /\ faults \in 0..MaxFaults /\ gets \in 0..MaxGets
  /\ \A e \in Ends : EndTypes(e)

ChanTypes ==
  /\ chan \in [Ends -> Seq(Frame)]
  /\ \A e \in Ends : chan[e] \in Seq(FramesTo(e))

Mentions(q, t, f) == \E i \in DOMAIN q : q[i].t = t /\ q[i].f = f

\* A sequence of frames announces no file twice.
Once(q) ==
  \A i, j \in DOMAIN q :
    q[i].t = "FILE" /\ q[j].t = "FILE" /\ q[i].f = q[j].f => i = j

\* The answers of an end that are on their way, and what the other has made
\* of them, are true.
AnswersInv(s) ==
  LET e == Other(s)
  IN /\ \A f \in Files :
          /\ Mentions(chan[s], "GOT", f) => Has(e, f)
          /\ Mentions(chan[s], "SKIP", f) => f \in skipped
     /\ s # mailer => \A f \in sent[s] : Has(e, f) \/ f \in skipped
     /\ \A f \in QueuedBy(s) \ outbox[s] : Has(e, f) \/ f \in skipped

\* s will not announce f again in this session.
Announced(s, f) == IF s = mailer THEN f = cur[s] \/ f \in sent[s]
                                 ELSE f \notin queue[s]

\* A file is announced to VirtBBS, which empties what it has under the name,
\* at most once, and then not after an answer to it.
OnceInv(s) ==
  LET e == Other(s)
  IN e # mailer =>
       /\ Once(chan[e])
       /\ \A f \in Files : Mentions(chan[e], "FILE", f) =>
            /\ f \in outbox[s] /\ Announced(s, f) /\ rcv[e] # f
            /\ s # mailer => f \notin sent[s]
            /\ ~Mentions(chan[s], "GOT", f) /\ ~Mentions(chan[s], "SKIP", f)
       /\ rcv[e] # None => Announced(s, rcv[e])
       /\ \A f \in Files : ~Mentions(chan[s], "SKIP", f)
       /\ \A f \in Files : Mentions(chan[s], "GOT", f) => Announced(s, f)
       /\ s # mailer => queue[s] \subseteq outbox[s] \ sent[s]

\* Before the answerer lists its outbound directory it has announced nothing.
QuietInv ==
  mailer = "none" /\ pc["answerer"] \in {"wadr", "wpwd", "receive"} =>
    /\ \A f \in Files : /\ ~Mentions(chan["caller"], "FILE", f)
                        /\ ~Mentions(chan["answerer"], "GOT", f)
    /\ rcv["caller"] = None /\ sent["answerer"] = {}

RemovalInv == QuietInv /\ \A s \in Ends : AnswersInv(s) /\ OnceInv(s)

-----------------------------------------------------------------------------
\* The two ends and their files.
LEMMA EndFacts ==
  /\ None \notin Files /\ Ends = {"caller", "answerer"}
  /\ MaxFaults \in Nat /\ MaxGets \in Nat
  /\ \A s \in Sizes : s \in [Files -> Nat]
  /\ \A e \in Ends : /\ Other(e) \in Ends /\ Other(e) # e
                     /\ Other(Other(e)) = e
                     /\ QueuedBy(e) \subseteq Files
                     /\ QueuedBy(e) \cap QueuedBy(Other(e)) = {}
                     /\ \A d \in Ends : d = e \/ d = Other(e)
BY BinkpAssumption DEF Ends, Other, QueuedBy, Files, None

\* What an end knows of the frame it reads.
LEMMA HeadFrame ==
  ASSUME ChanTypes, NEW e \in Ends, chan[e] # <<>>
  PROVE  /\ Head(chan[e]) \in FramesTo(e) /\ Head(chan[e]) \in Frame
         /\ Head(chan[e]).t = "FILE" =>
              /\ Head(chan[e]).f \in QueuedBy(Other(e))
              /\ Head(chan[e]).off <= size[Head(chan[e]).f]
         /\ Head(chan[e]).t \in {"GOT", "GET", "SKIP"} =>
              Head(chan[e]).f \in QueuedBy(e)
         /\ Head(chan[e]).t = "GET" =>
              /\ Head(chan[e]).off <= size[Head(chan[e]).f]
              /\ Other(e) = mailer
<1>1. Head(chan[e]) \in FramesTo(e)
  BY DEF ChanTypes
<1>2. QED
  BY <1>1 DEF FramesTo

\* A frame that is read leaves the others.
LEMMA ReadTypes ==
  ASSUME ChanTypes, NEW e \in Ends, chan[e] # <<>>, Read(e),
         UNCHANGED <<size, mailer>>
  PROVE  ChanTypes'
<1>1. \A d \in Ends : FramesTo(d)' = FramesTo(d)
  BY DEF FramesTo
<1>2. Tail(chan[e]) \in Seq(FramesTo(e)) /\ Tail(chan[e]) \in Seq(Frame)
  BY DEF ChanTypes
<1>3. QED
  BY <1>1, <1>2 DEF ChanTypes, Read

\* A frame that can be on its way is sent.
LEMMA WriteTypes ==
  ASSUME ChanTypes, NEW e \in Ends, NEW x \in FramesTo(Other(e)),
         Write(e, <<x>>), UNCHANGED <<size, mailer>>
  PROVE  ChanTypes'
<1>1. \A d \in Ends : FramesTo(d)' = FramesTo(d)
  BY DEF FramesTo
<1>2. /\ chan[Other(e)] \o <<x>> \in Seq(FramesTo(Other(e)))
      /\ chan[Other(e)] \o <<x>> \in Seq(Frame)
  <2>1. x \in Frame
    BY DEF FramesTo
  <2>2. QED
    BY <2>1, EndFacts DEF ChanTypes
<1>3. QED
  BY <1>1, <1>2, EndFacts DEF ChanTypes, Write

\* A frame is read and one that can be on its way is sent.
LEMMA AnswerTypes ==
  ASSUME ChanTypes, NEW e \in Ends, NEW x \in FramesTo(Other(e)),
         chan[e] # <<>>, Answer(e, <<x>>), UNCHANGED <<size, mailer>>
  PROVE  ChanTypes'
<1>1. \A d \in Ends : FramesTo(d)' = FramesTo(d)
  BY DEF FramesTo
<1>2. /\ chan[Other(e)] \o <<x>> \in Seq(FramesTo(Other(e)))
      /\ chan[Other(e)] \o <<x>> \in Seq(Frame)
  <2>1. x \in Frame
    BY DEF FramesTo
  <2>2. QED
    BY <2>1, EndFacts DEF ChanTypes
<1>3. Tail(chan[e]) \in Seq(FramesTo(e)) /\ Tail(chan[e]) \in Seq(Frame)
  BY DEF ChanTypes
<1>4. QED
  BY <1>1, <1>2, <1>3, EndFacts DEF ChanTypes, Answer

\* The next file is one of those that are left.
LEMMA FirstIn ==
  ASSUME NEW S, S \subseteq Files, S # {}
  PROVE  FirstOf(S) \in S
<1> DEFINE Less == OpToRel(<, Nat)
<1>1. PICK x \in S : \A y \in S : <<y, x>> \notin Less
  BY WFMin, NatLessThanWellFounded, BinkpAssumption
<1>2. \A m, n \in Nat : <<m, n>> \in Less <=> m < n
  BY DEF OpToRel
<1> HIDE DEF Less
<1>3. x \in Nat /\ \A y \in S : y \in Nat /\ ~(y < x)
  BY <1>1, <1>2, BinkpAssumption DEF Files
<1>4. \A y \in S : x <= y
  BY <1>3
<1>5. QED
  BY <1>4 DEF FirstOf

\* Closing leaves Booleans.
LEMMA CloseTypes ==
  ASSUME NEW e \in Ends, Close(e), open \in [Ends -> BOOLEAN], up \in BOOLEAN
  PROVE  open' \in [Ends -> BOOLEAN] /\ up' \in BOOLEAN
BY DEF Close

\* A session that fails, or is over, leaves what it had.
LEMMA FailTypes ==
  ASSUME Types, NEW e \in Ends, Fail(e),
         UNCHANGED <<setting, files, armed, sender, inbound, batch>>,
         faults' \in 0..MaxFaults, gets' \in 0..MaxGets
  PROVE  Types'
<1>1. open' \in [Ends -> BOOLEAN] /\ up' \in BOOLEAN
  BY CloseTypes DEF Fail, Types
<1>2. pc' = [pc EXCEPT ![e] = "done"]
  BY DEF Fail, Goto
<1>3. QED
  BY <1>1, <1>2 DEF Types, EndTypes, Labels, setting, files, sender, inbound,
     batch

\* M_GOT or M_SKIP: the file is one of the sender's own.
LEMMA FileDoneTypes ==
  ASSUME Types, ChanTypes, NEW e \in Ends, FileDone(e)
  PROVE  Types'
<1>1. chan[e] # <<>> /\ Head(chan[e]).t \in {"GOT", "SKIP"}
      /\ Head(chan[e]).f = cur[e] /\ pc[e] \in {"window", "got"}
  BY DEF FileDone, Next1, Reading
<1>2. cur[e] \in QueuedBy(e) /\ QueuedBy(e) \subseteq Files
  BY <1>1, HeadFrame, EndFacts
<1>3. e # mailer
  BY <1>1 DEF Types, EndTypes
<1>4. armed' = armed \/ armed' = [armed EXCEPT ![e] = FALSE]
  BY DEF FileDone
<1>5. armed \in [Ends -> BOOLEAN]
  BY DEF Types
<1>6. armed' \in [Ends -> BOOLEAN]
  BY <1>4, <1>5
<1>7. sent' = [sent EXCEPT ![e] = @ \cup {cur[e]}] /\ Goto(e, "send")
  BY DEF FileDone
<1>8. sent' \in [Ends -> SUBSET Files]
      /\ \A d \in Ends : sent'[d] \subseteq QueuedBy(d)
  BY <1>2, <1>7 DEF Types, EndTypes
<1>9. pc' \in [Ends -> Labels] /\ \A d \in Ends : d = mailer =>
            pc'[d] \in {"adr", "auth", "wadr", "wpwd", "mail", "done"}
  BY <1>3, <1>7 DEF Goto, Types, EndTypes, Labels
<1>10. QED
  BY <1>6, <1>8, <1>9 DEF FileDone, Types, EndTypes, files, batch, bounds,
     setting, inbound

\* What is tossed is what the peer had queued.
LEMMA TossTypes ==
  ASSUME Types, NEW e \in Ends, TossAndClose(e)
  PROVE  Types'
<1>1. open' \in [Ends -> BOOLEAN] /\ up' \in BOOLEAN
  BY CloseTypes DEF TossAndClose, Types
<1>2. /\ pc' = [pc EXCEPT ![e] = "done"]
      /\ UNCHANGED <<setting, outbox, skipped, chan, armed, sender, inbound,
                     batch, bounds>>
  BY DEF TossAndClose, Goto
<1>3. /\ inbox \in [Ends -> SUBSET Files] /\ part \in [Ends -> SUBSET Files]
      /\ taken \in [Ends -> SUBSET Files] /\ torn \in [Ends -> SUBSET Files]
      /\ \A d \in Ends : inbox[d] \cup part[d] \cup taken[d] \cup torn[d]
                            \subseteq QueuedBy(Other(d))
  BY DEF Types, EndTypes
<1>4. /\ inbox' \in [Ends -> SUBSET Files] /\ part' \in [Ends -> SUBSET Files]
      /\ taken' \in [Ends -> SUBSET Files] /\ torn' \in [Ends -> SUBSET Files]
      /\ \A d \in Ends : inbox'[d] \cup part'[d] \cup taken'[d] \cup torn'[d]
                            \subseteq QueuedBy(Other(d))
  <2>1. CASE e = "caller" \/ received[e] # {}
    <3>1. /\ taken' = [taken EXCEPT ![e] = @ \cup inbox[e]]
          /\ torn' = [torn EXCEPT ![e] = @ \cup part[e]]
          /\ inbox' = [inbox EXCEPT ![e] = {}]
          /\ part' = [part EXCEPT ![e] = {}]
      BY <2>1 DEF TossAndClose
    <3>2. /\ taken' \in [Ends -> SUBSET Files]
          /\ torn' \in [Ends -> SUBSET Files]
      BY <1>3, <3>1
    <3>3. /\ inbox' \in [Ends -> SUBSET Files]
          /\ part' \in [Ends -> SUBSET Files]
      BY <1>3, <3>1
    <3>4. \A d \in Ends : /\ taken'[d] \subseteq taken[d] \cup inbox[d]
                          /\ torn'[d] \subseteq torn[d] \cup part[d]
                          /\ inbox'[d] \subseteq inbox[d]
                          /\ part'[d] \subseteq part[d]
      BY <1>3, <3>1
    <3>5. QED
      BY <1>3, <3>2, <3>3, <3>4
  <2>2. CASE ~(e = "caller" \/ received[e] # {})
    <3>1. UNCHANGED <<inbox, part, taken, torn>>
      BY <2>2 DEF TossAndClose
    <3>2. QED
      BY <1>3, <3>1
  <2>3. QED
    BY <2>1, <2>2
<1>5. QED
  BY <1>1, <1>2, <1>4 DEF Types, EndTypes, Labels, sender, inbound, batch,
     bounds, setting

\* Every step keeps these types.
LEMMA VarTypesStep == Types /\ ChanTypes /\ [Next]_vars => Types'
<1> SUFFICES ASSUME Types, ChanTypes, [Next]_vars PROVE Types'
  OBVIOUS
<1> USE EndFacts, HeadFrame DEF files, conn, sender, inbound, batch, bounds,
        setting
<1>1. ASSUME Dial PROVE Types'
  <2>1. queue' = [queue EXCEPT !["caller"] = outbox["caller"]]
    BY <1>1 DEF Dial
  <2>2. queue' \in [Ends -> SUBSET Files]
        /\ \A d \in Ends : queue'[d] \subseteq QueuedBy(d)
    BY <2>1 DEF Types, EndTypes
  <2>3. pc' \in [Ends -> Labels] /\ \A d \in Ends : d = mailer =>
          pc'[d] \in {"adr", "auth", "wadr", "wpwd", "mail", "done"}
    BY <1>1 DEF Dial, Labels
  <2>4. /\ cur' \in [Ends -> Files \cup {None}] /\ off' \in [Ends -> Nat]
        /\ rcv' \in [Ends -> Files \cup {None}] /\ got' \in [Ends -> Nat]
        /\ sent' \in [Ends -> SUBSET Files]
        /\ received' \in [Ends -> SUBSET Files]
        /\ open' \in [Ends -> BOOLEAN] /\ armed' \in [Ends -> BOOLEAN]
    BY <1>1 DEF Dial
  <2>5. \A d \in Ends : cur'[d] = None /\ off'[d] = 0 /\ rcv'[d] = None
                        /\ got'[d] = 0 /\ sent'[d] = {} /\ received'[d] = {}
    BY <1>1 DEF Dial
  <2>6. QED
    BY ZenonT(40), <1>1, <2>2, <2>3, <2>4, <2>5 DEF Dial, Types, EndTypes
<1>2. ASSUME CallerAdr PROVE Types'
  BY <1>2 DEF CallerAdr, Goto, Types, EndTypes, Labels
<1>3. ASSUME CallerOk PROVE Types'
  BY <1>3 DEF CallerOk, Begins, Goto, Types, EndTypes, Labels
<1>4. ASSUME CallerRefused PROVE Types'
  BY <1>4 DEF CallerRefused, Goto, Types, EndTypes, Labels
<1>5. ASSUME AnswererAdr PROVE Types'
  <2>1. CASE Refuse
    <3>1. open' \in [Ends -> BOOLEAN]
      BY <2>1 DEF Refuse, Types
    <3>2. pc' \in [Ends -> Labels] /\ \A d \in Ends : EndTypes(d)'
      BY <2>1 DEF Refuse, Goto, Types, EndTypes, Labels
    <3>3. QED
      BY <2>1, <3>1, <3>2 DEF Refuse, Types
  <2>2. CASE Admit
    <3>1. queue' = [queue EXCEPT !["answerer"] = {}]
      BY <2>2 DEF Admit
    <3>2. pc' \in [Ends -> Labels] /\ \A d \in Ends : d = mailer =>
            pc'[d] \in {"adr", "auth", "wadr", "wpwd", "mail", "done"}
      BY <2>2 DEF Admit, Begins, Goto, Types, EndTypes, Labels
    <3>3. queue' \in [Ends -> SUBSET Files]
          /\ \A d \in Ends : queue'[d] \subseteq QueuedBy(d)
      BY <3>1 DEF Types, EndTypes
    <3>4. QED
      BY <2>2, <3>2, <3>3 DEF Admit, Types, EndTypes
  <2>3. CASE Goto("answerer", "wpwd")
    BY <1>5, <2>3 DEF AnswererAdr, Refuse, Admit, Goto, Types, EndTypes,
       Labels
  <2>4. QED
    BY <1>5, <2>1, <2>2, <2>3 DEF AnswererAdr
<1>6. ASSUME AnswererPwd PROVE Types'
  <2>1. CASE Refuse
    <3>1. open' \in [Ends -> BOOLEAN]
      BY <2>1 DEF Refuse, Types
    <3>2. pc' \in [Ends -> Labels] /\ \A d \in Ends : EndTypes(d)'
      BY <2>1 DEF Refuse, Goto, Types, EndTypes, Labels
    <3>3. QED
      BY <2>1, <3>1, <3>2 DEF Refuse, Types
  <2>2. CASE Admit
    <3>1. queue' = [queue EXCEPT !["answerer"] = {}]
      BY <2>2 DEF Admit
    <3>2. pc' \in [Ends -> Labels] /\ \A d \in Ends : d = mailer =>
            pc'[d] \in {"adr", "auth", "wadr", "wpwd", "mail", "done"}
      BY <2>2 DEF Admit, Begins, Goto, Types, EndTypes, Labels
    <3>3. queue' \in [Ends -> SUBSET Files]
          /\ \A d \in Ends : queue'[d] \subseteq QueuedBy(d)
      BY <3>1 DEF Types, EndTypes
    <3>4. QED
      BY <2>2, <3>2, <3>3 DEF Admit, Types, EndTypes
  <2>3. QED
    BY <1>6, <2>1, <2>2 DEF AnswererPwd
<1>7. ASSUME NEW e \in Ends, PassOver(e) PROVE Types'
  BY <1>7 DEF PassOver, Types, EndTypes, Labels
<1>8. ASSUME NEW e \in Ends, HandshakeFails(e) PROVE Types'
  BY <1>8, FailTypes DEF HandshakeFails, Types
<1>9. ASSUME NEW e \in Ends, Announce(e) PROVE Types'
  <2>1. FirstOf(queue[e]) \in queue[e]
    <3>1. queue[e] \subseteq Files /\ queue[e] # {}
      BY <1>9 DEF Announce, Types
    <3>2. QED
      BY <3>1, FirstIn
  <2>2. QED
    BY <1>9, <2>1 DEF Announce, Goto, Types, EndTypes, Labels
<1>10. ASSUME NEW e \in Ends, WindowPasses(e) PROVE Types'
  BY <1>10 DEF WindowPasses, Goto, Types, EndTypes, Labels
<1>11. ASSUME NEW e \in Ends, SendData(e) PROVE Types'
  BY <1>11 DEF SendData, Types, EndTypes, Labels
<1>12. ASSUME NEW e \in Ends, DataSent(e) PROVE Types'
  BY <1>12 DEF DataSent, Goto, Types, EndTypes, Labels
<1>13. ASSUME NEW e \in Ends, TakeInterleaved(e) PROVE Types'
  BY SMTT(40), <1>13
     DEF TakeInterleaved, Interleaved, BeginInbound, WriteInbound,
     AfterFrame, Reading, Next1, Types, EndTypes, Labels
<1>14. ASSUME NEW e \in Ends, IgnoreFrame(e) PROVE Types'
  BY <1>14 DEF IgnoreFrame, AfterFrame, Reading, Types, EndTypes, Labels
<1>15. ASSUME NEW e \in Ends, FileDone(e) PROVE Types'
  BY <1>15, FileDoneTypes
<1>16. ASSUME NEW e \in Ends, Restart(e) PROVE Types'
  <2>1. /\ chan[e] # <<>> /\ pc[e] \in {"window", "got"}
        /\ Head(chan[e]).off \in Nat
        /\ Head(chan[e]).off <= size[cur[e]]
    BY <1>16 DEF Restart, Next1, Reading, Frame
  <2>2. /\ off' = [off EXCEPT ![e] = Head(chan[e]).off]
        /\ pc' = [pc EXCEPT ![e] = "window"]
        /\ armed' \in [Ends -> BOOLEAN]
    BY <1>16 DEF Restart, Goto, Types
  <2>3. QED
    BY <1>16, <2>1, <2>2 DEF Restart, Types, EndTypes, Labels
<1>17. ASSUME NEW e \in Ends, SendFails(e) PROVE Types'
  <2>1. CASE e = "caller"
    BY <1>17, <2>1, FailTypes DEF SendFails, Types
  <2>2. CASE e # "caller"
    BY <1>17, <2>2 DEF SendFails, Reading, Goto, Types, EndTypes, Labels
  <2>3. QED
    BY <2>1, <2>2
<1>18. ASSUME NEW e \in Ends, EndBatch(e) PROVE Types'
  BY <1>18 DEF EndBatch, Goto, Types, EndTypes, Labels
<1>19. ASSUME NEW e \in Ends, ReceiveFile(e) PROVE Types'
  BY SMTT(40), <1>19 DEF ReceiveFile, BeginInbound, WriteInbound, Next1, Types,
     EndTypes, Labels
<1>20. ASSUME NEW e \in Ends, ReceiveOther(e) PROVE Types'
  BY <1>20 DEF ReceiveOther, Types, EndTypes, Labels
<1>21. ASSUME NEW e \in Ends, ReceiveEnds(e) PROVE Types'
  <2>1. CASE e = "caller"
    <3>1. open' \in [Ends -> BOOLEAN] /\ up' \in BOOLEAN
      BY <1>21, <2>1, CloseTypes DEF ReceiveEnds, Types
    <3>2. QED
      BY <1>21, <2>1, <3>1 DEF ReceiveEnds, Goto, Types, EndTypes, Labels
  <2>2. CASE e # "caller"
    BY <1>21, <2>2 DEF ReceiveEnds, Goto, Types, EndTypes, Labels
  <2>3. QED
    BY <2>1, <2>2
<1>22. ASSUME NEW e \in Ends, ReceiveFails(e) PROVE Types'
  BY <1>22, FailTypes DEF ReceiveFails, Types
<1>23. ASSUME NEW e \in Ends, RemoveSent(e) PROVE Types'
  BY <1>23 DEF RemoveSent, FirstOf, Types, EndTypes, Labels
<1>24. ASSUME NEW e \in Ends, TossAndClose(e) PROVE Types'
  BY <1>24, TossTypes
<1>25. ASSUME NEW e \in Ends, MailTakes(e) PROVE Types'
  <2>1. /\ chan[e] # <<>> /\ Head(chan[e]).f \in QueuedBy(Other(e))
        /\ Head(chan[e]).off \in Nat
        /\ Head(chan[e]).off <= size[Head(chan[e]).f]
        /\ size[Head(chan[e]).f] \in Nat
    BY <1>25 DEF MailTakes, Next1, Frame, Types
  <2>2. CASE Head(chan[e]).off = size[Head(chan[e]).f]
    BY <1>25, <2>1, <2>2 DEF MailTakes, Types, EndTypes
  <2>3. CASE Head(chan[e]).off # size[Head(chan[e]).f]
    BY SMTT(40), <1>25, <2>1, <2>3 DEF MailTakes, Types, EndTypes
  <2>4. QED
    BY <2>2, <2>3
<1>26. ASSUME NEW e \in Ends, MailSkips(e) PROVE Types'
  BY <1>26 DEF MailSkips, Mail, Next1, Types, EndTypes, Labels
<1>27. ASSUME NEW e \in Ends, MailGets(e) PROVE Types'
  BY SMTT(40), <1>27 DEF MailGets, Mail, Next1, Types, EndTypes, Labels
<1>28. ASSUME NEW e \in Ends, MailHasIt(e) PROVE Types'
  BY <1>28 DEF MailHasIt, Mail, Next1, Types, EndTypes, Labels
<1>29. ASSUME NEW e \in Ends, MailReceives(e) PROVE Types'
  BY <1>29 DEF MailReceives, Mail, Next1, WriteInbound, Types, EndTypes,
     Labels
<1>30. ASSUME NEW e \in Ends, MailGot(e) PROVE Types'
  BY <1>30 DEF MailGot, Mail, Next1, Types, EndTypes, Labels
<1>31. ASSUME NEW e \in Ends, MailOther(e) PROVE Types'
  BY <1>31 DEF MailOther, Mail, Types, EndTypes, Labels
<1>32. ASSUME NEW e \in Ends, MailAnnounces(e) PROVE Types'
  BY SMTT(40), <1>32 DEF MailAnnounces, Mail, FirstOf, Types, EndTypes, Labels
<1>33. ASSUME NEW e \in Ends, MailData(e) PROVE Types'
  BY <1>33 DEF MailData, Mail, Types, EndTypes, Labels
<1>34. ASSUME NEW e \in Ends, MailEob(e) PROVE Types'
  BY <1>34 DEF MailEob, Mail, Types, EndTypes, Labels
<1>35. ASSUME NEW e \in Ends, MailCloses(e) PROVE Types'
  <2>1. faults' \in 0..MaxFaults /\ gets' \in 0..MaxGets
    BY <1>35 DEF MailCloses, Fault, Types
  <2>2. QED
    BY <1>35, <2>1, FailTypes DEF MailCloses, Types
<1>36. ASSUME NEW e \in Ends, MailLeft(e) PROVE Types'
  BY <1>36, FailTypes DEF MailLeft, Types
<1>37. ASSUME NEW e \in Ends, Die(e) PROVE Types'
  BY <1>37, FailTypes DEF Die, Fault, Types
<1>38. ASSUME Drop PROVE Types'
  <2>1. faults' \in 0..MaxFaults /\ gets' \in 0..MaxGets
    BY <1>38 DEF Drop, Fault, Types
  <2>2. QED
    BY <1>38, <2>1 DEF Drop, Types, EndTypes
<1>39. ASSUME NEW e \in Ends, MailHangs(e) PROVE Types'
  BY <1>39 DEF MailHangs, Mail, Fault, Types, EndTypes, Labels
<1>40. ASSUME UNCHANGED vars PROVE Types'
  BY <1>40 DEF vars, Types, EndTypes, Labels
<1>41. QED
  BY <1>1, <1>2, <1>3, <1>4, <1>5, <1>6, <1>7, <1>8, <1>9, <1>10, <1>11,
     <1>12, <1>13, <1>14, <1>15, <1>16, <1>17, <1>18, <1>19, <1>20, <1>21,
     <1>22, <1>23, <1>24, <1>25, <1>26, <1>27, <1>28, <1>29, <1>30, <1>31,
     <1>32, <1>33, <1>34, <1>35, <1>36, <1>37, <1>38, <1>39, <1>40 DEF Next,
     Step, HandshakeStep, TransferStep, MailStep

\* Frames without a file are proper anywhere.
LEMMA PlainFrame ==
  ASSUME NEW e \in Ends, NEW t \in Commands \ {"FILE", "GOT", "GET", "SKIP"}
  PROVE  Cmd(t) \in FramesTo(e)
BY DEF Cmd, FramesTo, Frame

\* Writing and reading nothing.
LEMMA NoFrames ==
  ASSUME ChanTypes, NEW e \in Ends
  PROVE  (Write(e, <<>>) => chan' = chan) /\ (Answer(e, <<>>) => Read(e))
<1> DEFINE o == Other(e)
<1>1. o \in Ends /\ chan \in [Ends -> Seq(Frame)]
  BY EndFacts DEF ChanTypes
<1>2. chan[o] \o <<>> = chan[o]
  BY <1>1
<1>3. /\ Write(e, <<>>) => chan' = [chan EXCEPT ![o] = chan[o]]
      /\ Answer(e, <<>>) =>
           chan' = [chan EXCEPT ![e] = Tail(chan[e]), ![o] = chan[o]]
  BY <1>2 DEF Write, Answer
<1> HIDE DEF o
<1>4. [chan EXCEPT ![o] = chan[o]] = chan
  BY <1>1
<1>5. o # e => [chan EXCEPT ![e] = Tail(chan[e]), ![o] = chan[o]]
                 = [chan EXCEPT ![e] = Tail(chan[e])]
  BY <1>1
<1>6. o # e
  BY EndFacts DEF o
<1>7. QED
  BY <1>3, <1>4, <1>5, <1>6 DEF Read

\* A data frame is taken; M_GOT names a file of the peer.
LEMMA InboundTypes ==
  ASSUME Types, ChanTypes, NEW e \in Ends, chan[e] # <<>>,
         NEW done, WriteInbound(e, done), UNCHANGED <<size, mailer>>
  PROVE  ChanTypes'
<1>1. CASE Read(e)
  BY <1>1, ReadTypes
<1>2. CASE rcv[e] # None /\ Answer(e, <<About("GOT", rcv[e])>>)
  <2>1. About("GOT", rcv[e]) \in FramesTo(Other(e))
    BY <1>2, EndFacts DEF About, FramesTo, Frame, Types, EndTypes, Commands
  <2>2. QED
    BY <1>2, <2>1, AnswerTypes
<1>3. QED
  BY <1>1, <1>2 DEF WriteInbound

\* Every step keeps the channels' frames proper.
LEMMA ChanTypesStep == Types /\ ChanTypes /\ [Next]_vars => ChanTypes'
<1> SUFFICES ASSUME Types, ChanTypes, [Next]_vars PROVE ChanTypes'
  OBVIOUS
<1>0. UNCHANGED chan /\ UNCHANGED <<size, mailer>> => ChanTypes'
  BY DEF ChanTypes, FramesTo
<1> USE DEF files, conn, setting
<1>1. ASSUME Dial PROVE ChanTypes'
  <2>1. \A d \in Ends : FramesTo(d)' = FramesTo(d)
    BY <1>1 DEF Dial, FramesTo
  <2>2. \A d \in Ends : /\ Cmd("NUL") \in FramesTo(d)
                        /\ Cmd("ADR") \in FramesTo(d)
    BY PlainFrame DEF Commands
  <2>3. \A d \in Ends : FramesTo(d) \subseteq Frame
    BY DEF FramesTo
  <2>4. chan' = [d \in Ends |-> <<Cmd("NUL"), Cmd("ADR")>>]
    BY <1>1 DEF Dial
  <2>5. \A d \in Ends : <<Cmd("NUL"), Cmd("ADR")>> \in Seq(FramesTo(d))
                        /\ <<Cmd("NUL"), Cmd("ADR")>> \in Seq(Frame)
    BY <2>2, <2>3
  <2>6. QED
    BY <2>1, <2>4, <2>5 DEF ChanTypes
<1>2. ASSUME CallerAdr PROVE ChanTypes'
  <2>1. Cmd("PWD") \in FramesTo(Other("caller"))
    BY PlainFrame, EndFacts DEF Commands
  <2>2. QED
    BY <1>2, <2>1, AnswerTypes, EndFacts DEF CallerAdr, Next1
<1>3. ASSUME CallerOk PROVE ChanTypes'
  BY <1>3, ReadTypes, EndFacts DEF CallerOk, Next1
<1>4. ASSUME CallerRefused PROVE ChanTypes'
  BY <1>4, ReadTypes, EndFacts DEF CallerRefused, Next1
<1>5. ASSUME AnswererAdr PROVE ChanTypes'
  <2>1. Cmd("OK") \in FramesTo("caller") /\ Cmd("ERR") \in FramesTo("caller")
    BY PlainFrame, EndFacts DEF Commands
  <2>2. Other("answerer") = "caller"
    BY DEF Other
  <2>3. CASE Answer("answerer", <<Cmd("OK")>>)
    BY <1>5, <2>1, <2>2, <2>3, AnswerTypes, EndFacts DEF AnswererAdr,
       AnswererPwd, Next1, Admit, Refuse
  <2>4. CASE Answer("answerer", <<Cmd("ERR")>>)
    BY <1>5, <2>1, <2>2, <2>4, AnswerTypes, EndFacts DEF AnswererAdr,
       AnswererPwd, Next1, Admit, Refuse
  <2>5. CASE Read("answerer")
    BY <1>5, <2>5, ReadTypes, EndFacts DEF AnswererAdr, Next1, Admit, Refuse
  <2>6. QED
    BY <1>5, <2>3, <2>4, <2>5 DEF AnswererAdr, Admit, Refuse
<1>6. ASSUME AnswererPwd PROVE ChanTypes'
  <2>1. Cmd("OK") \in FramesTo("caller") /\ Cmd("ERR") \in FramesTo("caller")
    BY PlainFrame, EndFacts DEF Commands
  <2>2. Other("answerer") = "caller"
    BY DEF Other
  <2>3. CASE Answer("answerer", <<Cmd("OK")>>)
    BY <1>6, <2>1, <2>2, <2>3, AnswerTypes, EndFacts DEF AnswererAdr,
       AnswererPwd, Next1, Admit, Refuse
  <2>4. CASE Answer("answerer", <<Cmd("ERR")>>)
    BY <1>6, <2>1, <2>2, <2>4, AnswerTypes, EndFacts DEF AnswererAdr,
       AnswererPwd, Next1, Admit, Refuse
  <2>5. QED
    BY <1>6, <2>3, <2>4 DEF AnswererPwd, Admit, Refuse
<1>7. ASSUME NEW e \in Ends, PassOver(e) PROVE ChanTypes'
  BY <1>7, ReadTypes DEF PassOver, Next1
<1>8. ASSUME NEW e \in Ends, HandshakeFails(e) PROVE ChanTypes'
  BY <1>8, <1>0 DEF HandshakeFails
<1>9. ASSUME NEW e \in Ends, Announce(e) PROVE ChanTypes'
  <2>1. queue[e] \subseteq QueuedBy(e) /\ queue[e] \subseteq Files
                                       /\ queue[e] # {}
    BY <1>9 DEF Announce, Types, EndTypes
  <2>2. FirstOf(queue[e]) \in queue[e]
    BY <2>1, FirstIn
  <2>3. FileFrame(FirstOf(queue[e]), 0) \in FramesTo(Other(e))
    BY <2>1, <2>2, EndFacts DEF FileFrame, FramesTo, Frame, Commands, Types
  <2>4. QED
    BY <1>9, <2>3, WriteTypes DEF Announce
<1>10. ASSUME NEW e \in Ends, WindowPasses(e) PROVE ChanTypes'
  BY <1>10, <1>0 DEF WindowPasses
<1>11. ASSUME NEW e \in Ends, SendData(e) PROVE ChanTypes'
  <2>1. Cmd("DATA") \in FramesTo(Other(e))
    BY PlainFrame, EndFacts DEF Commands
  <2>2. QED
    BY <1>11, <2>1, <1>0, WriteTypes DEF SendData
<1>12. ASSUME NEW e \in Ends, DataSent(e) PROVE ChanTypes'
  BY <1>12, <1>0 DEF DataSent
<1>13. ASSUME NEW e \in Ends, TakeInterleaved(e) PROVE ChanTypes'
  <2>1. chan[e] # <<>> /\ UNCHANGED <<size, mailer>>
    BY <1>13 DEF TakeInterleaved, Interleaved, Next1
  <2>2. QED
    BY <1>13, <2>1, ReadTypes, InboundTypes DEF TakeInterleaved, Interleaved,
       BeginInbound
<1>14. ASSUME NEW e \in Ends, IgnoreFrame(e) PROVE ChanTypes'
  BY <1>14, ReadTypes DEF IgnoreFrame, Next1
<1>15. ASSUME NEW e \in Ends, FileDone(e) PROVE ChanTypes'
  BY <1>15, ReadTypes DEF FileDone, Next1
<1>16. ASSUME NEW e \in Ends, Restart(e) PROVE ChanTypes'
  <2>1. /\ chan[e] # <<>> /\ Head(chan[e]).t = "GET"
        /\ Head(chan[e]).f = cur[e]
        /\ Answer(e, <<FileFrame(cur[e], Head(chan[e]).off)>>)
        /\ UNCHANGED <<size, mailer>>
    BY <1>16 DEF Restart, Next1
  <2>2. FileFrame(cur[e], Head(chan[e]).off) \in FramesTo(Other(e))
    BY <2>1, HeadFrame, EndFacts DEF FileFrame, FramesTo, Frame, Commands
  <2>3. QED
    BY <2>1, <2>2, AnswerTypes
<1>17. ASSUME NEW e \in Ends, SendFails(e) PROVE ChanTypes'
  <2>1. Cmd("EOB") \in FramesTo(Other(e))
    BY PlainFrame, EndFacts DEF Commands
  <2>2. QED
    BY <1>17, <2>1, <1>0, WriteTypes DEF SendFails
<1>18. ASSUME NEW e \in Ends, EndBatch(e) PROVE ChanTypes'
  <2>1. Cmd("EOB") \in FramesTo(Other(e))
    BY PlainFrame, EndFacts DEF Commands
  <2>2. QED
    BY <1>18, <2>1, <1>0, WriteTypes DEF EndBatch
<1>19. ASSUME NEW e \in Ends, ReceiveFile(e) PROVE ChanTypes'
  <2>1. chan[e] # <<>> /\ UNCHANGED <<size, mailer>>
    BY <1>19 DEF ReceiveFile, Next1
  <2>2. QED
    BY <1>19, <2>1, ReadTypes, InboundTypes DEF ReceiveFile, BeginInbound
<1>20. ASSUME NEW e \in Ends, ReceiveOther(e) PROVE ChanTypes'
  BY <1>20, ReadTypes DEF ReceiveOther, Next1
<1>21. ASSUME NEW e \in Ends, ReceiveEnds(e) PROVE ChanTypes'
  <2>1. Cmd("EOB") \in FramesTo(Other(e))
    BY PlainFrame, EndFacts DEF Commands
  <2>2. UNCHANGED <<size, mailer>>
    BY <1>21 DEF ReceiveEnds
  <2>3. CASE chan[e] # <<>> /\ Answer(e, <<Cmd("EOB")>>)
    BY <2>1, <2>2, <2>3, AnswerTypes
  <2>4. CASE chan[e] # <<>> /\ Answer(e, <<>>)
    BY <2>2, <2>4, NoFrames, ReadTypes
  <2>5. CASE Write(e, <<Cmd("EOB")>>)
    BY <2>1, <2>2, <2>5, WriteTypes
  <2>6. CASE Write(e, <<>>)
    BY <1>0, <2>2, <2>6, NoFrames
  <2>7. QED
    BY <1>21, <2>3, <2>4, <2>5, <2>6 DEF ReceiveEnds, Next1
<1>22. ASSUME NEW e \in Ends, ReceiveFails(e) PROVE ChanTypes'
  BY <1>22, <1>0 DEF ReceiveFails
<1>23. ASSUME NEW e \in Ends, RemoveSent(e) PROVE ChanTypes'
  BY <1>23, <1>0 DEF RemoveSent
<1>24. ASSUME NEW e \in Ends, TossAndClose(e) PROVE ChanTypes'
  BY <1>24, <1>0 DEF TossAndClose
<1>25. ASSUME NEW e \in Ends, MailTakes(e) PROVE ChanTypes'
  <2>1. chan[e] # <<>> /\ Head(chan[e]).t = "FILE"
                       /\ UNCHANGED <<size, mailer>>
    BY <1>25 DEF MailTakes, Next1
  <2>2. About("GOT", Head(chan[e]).f) \in FramesTo(Other(e))
    BY <2>1, HeadFrame, EndFacts DEF About, FramesTo, Frame, Commands
  <2>3. QED
    BY <1>25, <2>1, <2>2, AnswerTypes, ReadTypes DEF MailTakes
<1>26. ASSUME NEW e \in Ends, MailSkips(e) PROVE ChanTypes'
  <2>1. chan[e] # <<>> /\ Head(chan[e]).t = "FILE"
                       /\ UNCHANGED <<size, mailer>>
    BY <1>26 DEF MailSkips, Next1
  <2>2. About("SKIP", Head(chan[e]).f) \in FramesTo(Other(e))
    BY <2>1, HeadFrame, EndFacts DEF About, FramesTo, Frame, Commands
  <2>3. QED
    BY <1>26, <2>1, <2>2, AnswerTypes DEF MailSkips
<1>27. ASSUME NEW e \in Ends, MailGets(e) PROVE ChanTypes'
  <2>1. /\ chan[e] # <<>> /\ Head(chan[e]).t = "FILE" /\ e = mailer
        /\ UNCHANGED <<size, mailer>>
    BY SMTT(40), <1>27 DEF MailGets, Mail, Next1
  <2>2. PICK o \in 0..size[Head(chan[e]).f] :
          Answer(e, <<[t |-> "GET", f |-> Head(chan[e]).f, off |-> o]>>)
    BY <1>27 DEF MailGets
  <2>3. o \in Nat /\ o <= size[Head(chan[e]).f]
    BY <2>1, HeadFrame, EndFacts DEF Types
  <2>4. [t |-> "GET", f |-> Head(chan[e]).f, off |-> o] \in FramesTo(Other(e))
    BY <2>1, <2>3, HeadFrame, EndFacts DEF FramesTo, Frame, Commands
  <2>5. QED
    BY <2>1, <2>2, <2>4, AnswerTypes
<1>28. ASSUME NEW e \in Ends, MailHasIt(e) PROVE ChanTypes'
  <2>1. chan[e] # <<>> /\ Head(chan[e]).t = "FILE"
                       /\ UNCHANGED <<size, mailer>>
    BY <1>28 DEF MailHasIt, Next1
  <2>2. About("GOT", Head(chan[e]).f) \in FramesTo(Other(e))
    BY <2>1, HeadFrame, EndFacts DEF About, FramesTo, Frame, Commands
  <2>3. QED
    BY <1>28, <2>1, <2>2, AnswerTypes DEF MailHasIt
<1>29. ASSUME NEW e \in Ends, MailReceives(e) PROVE ChanTypes'
  BY <1>29, InboundTypes DEF MailReceives, Next1
<1>30. ASSUME NEW e \in Ends, MailGot(e) PROVE ChanTypes'
  BY <1>30, ReadTypes DEF MailGot, Next1
<1>31. ASSUME NEW e \in Ends, MailOther(e) PROVE ChanTypes'
  BY <1>31, ReadTypes DEF MailOther, Next1
<1>32. ASSUME NEW e \in Ends, MailAnnounces(e) PROVE ChanTypes'
  <2>1. /\ outbox[e] \ sent[e] # {} /\ outbox[e] \ sent[e] \subseteq Files
        /\ outbox[e] \subseteq QueuedBy(e)
    BY <1>32 DEF MailAnnounces, Types, EndTypes
  <2>2. FirstOf(outbox[e] \ sent[e]) \in outbox[e] \ sent[e]
    BY <2>1, FirstIn
  <2>3. PICK f \in QueuedBy(e) : f = FirstOf(outbox[e] \ sent[e])
    BY <2>1, <2>2
  <2>4. f \in Files /\ size[f] \in Nat
    BY EndFacts DEF Types
  <2>5. FileFrame(f, 0) \in FramesTo(Other(e))
    BY <2>4, EndFacts DEF FileFrame, FramesTo, Frame, Commands
  <2>6. QED
    BY <1>32, <2>3, <2>5, WriteTypes DEF MailAnnounces
<1>33. ASSUME NEW e \in Ends, MailData(e) PROVE ChanTypes'
  <2>1. Cmd("DATA") \in FramesTo(Other(e))
    BY PlainFrame, EndFacts DEF Commands
  <2>2. QED
    BY <1>33, <2>1, <1>0, WriteTypes DEF MailData
<1>34. ASSUME NEW e \in Ends, MailEob(e) PROVE ChanTypes'
  <2>1. Cmd("EOB") \in FramesTo(Other(e))
    BY PlainFrame, EndFacts DEF Commands
  <2>2. QED
    BY <1>34, <2>1, <1>0, WriteTypes DEF MailEob
<1>35. ASSUME NEW e \in Ends, MailCloses(e) PROVE ChanTypes'
  BY <1>35, <1>0 DEF MailCloses
<1>36. ASSUME NEW e \in Ends, MailLeft(e) PROVE ChanTypes'
  BY <1>36, <1>0 DEF MailLeft
<1>37. ASSUME NEW e \in Ends, Die(e) PROVE ChanTypes'
  BY <1>37, <1>0 DEF Die
<1>38. ASSUME Drop PROVE ChanTypes'
  BY <1>38, <1>0 DEF Drop
<1>39. ASSUME NEW e \in Ends, MailHangs(e) PROVE ChanTypes'
  BY <1>39, <1>0 DEF MailHangs
<1>40. ASSUME UNCHANGED vars PROVE ChanTypes'
  BY <1>40, <1>0 DEF vars
<1>41. QED
  BY <1>1, <1>2, <1>3, <1>4, <1>5, <1>6, <1>7, <1>8, <1>9, <1>10, <1>11,
     <1>12, <1>13, <1>14, <1>15, <1>16, <1>17, <1>18, <1>19, <1>20, <1>21,
     <1>22, <1>23, <1>24, <1>25, <1>26, <1>27, <1>28, <1>29, <1>30, <1>31,
     <1>32, <1>33, <1>34, <1>35, <1>36, <1>37, <1>38, <1>39, <1>40 DEF Next,
     Step, HandshakeStep, TransferStep, MailStep

\* Both ends are at rest at first.
LEMMA TypesHold == Spec => [](Types /\ ChanTypes)
<1>1. Init => Types
  <2> SUFFICES ASSUME Init PROVE Types
    OBVIOUS
  <2>1. /\ mailer \in Ends \cup {"none"} /\ standing \in Standings
        /\ size \in Sizes
    BY BinkpAssumption DEF Init, Ends
  <2>2. /\ outbox = [e \in Ends |-> QueuedBy(e)]
        /\ inbox = [e \in Ends |-> {}] /\ part = [e \in Ends |-> {}]
        /\ taken = [e \in Ends |-> {}] /\ torn = [e \in Ends |-> {}]
        /\ queue = [e \in Ends |-> {}] /\ sent = [e \in Ends |-> {}]
        /\ received = [e \in Ends |-> {}] /\ pc = [e \in Ends |-> "done"]
        /\ cur = [e \in Ends |-> None] /\ off = [e \in Ends |-> 0]
        /\ rcv = [e \in Ends |-> None] /\ got = [e \in Ends |-> 0]
    BY DEF Init
  <2>3. \A e \in Ends : EndTypes(e)
    BY <2>2 DEF EndTypes
  <2>4. outbox \in [Ends -> SUBSET Files]
    BY <2>2, EndFacts
  <2>5. /\ inbox \in [Ends -> SUBSET Files] /\ part \in [Ends -> SUBSET Files]
        /\ taken \in [Ends -> SUBSET Files] /\ torn \in [Ends -> SUBSET Files]
        /\ queue \in [Ends -> SUBSET Files] /\ sent \in [Ends -> SUBSET Files]
        /\ received \in [Ends -> SUBSET Files]
        /\ pc \in [Ends -> Labels]
    BY <2>2 DEF Labels
  <2>6. /\ cur \in [Ends -> Files \cup {None}] /\ off \in [Ends -> Nat]
        /\ rcv \in [Ends -> Files \cup {None}] /\ got \in [Ends -> Nat]
    BY <2>2
  <2>7. /\ open \in [Ends -> BOOLEAN] /\ armed \in [Ends -> BOOLEAN]
        /\ up \in BOOLEAN /\ eobSent \in BOOLEAN /\ eobSeen \in BOOLEAN
        /\ hung \in BOOLEAN /\ skipped \in SUBSET Files
    BY DEF Init
  <2>8. faults \in 0..MaxFaults /\ gets \in 0..MaxGets
    BY EndFacts DEF Init
  <2>9. QED
    BY <2>1, <2>3, <2>4, <2>5, <2>6, <2>7, <2>8 DEF Types
<1>2. Init => ChanTypes
  BY DEF Init, ChanTypes
<1>3. QED
  BY <1>1, <1>2, VarTypesStep, ChanTypesStep, PTL DEF Spec

\* Types, of whatever sessions are cut short, interleaved or restarted; a file
\* that is being received is not complete.
THEOREM TypeCorrect == Spec => []TypeOK
<1>1. Types /\ ChanTypes => TypeOK
  <2> SUFFICES ASSUME Types, ChanTypes PROVE TypeOK
    OBVIOUS
  <2>1. ASSUME NEW e \in Ends, NEW i \in DOMAIN chan[e]
        PROVE  chan[e][i] \in [t : Commands, f : QueuedBy(e) \cup
                                 QueuedBy(Other(e)) \cup {None}, off : Nat]
    <3>1. chan[e][i] \in Frame
      BY DEF ChanTypes
    <3>2. Files = QueuedBy(e) \cup QueuedBy(Other(e))
      BY DEF Files, QueuedBy, Other, Ends
    <3>3. QED
      BY <3>1, <3>2 DEF Frame
  <2>2. QED
    BY <2>1 DEF Types, EndTypes, TypeOK
<1>2. QED
  BY <1>1, TypesHold, PTL

-----------------------------------------------------------------------------
(* What is removed has been taken.                                         *)

\* What is left of a sequence of frames when the first is read.
LEMMA TailMentions ==
  ASSUME NEW q \in Seq(Frame), q # <<>>
  PROVE  /\ \A t, f : Mentions(Tail(q), t, f) => Mentions(q, t, f)
         /\ Mentions(q, Head(q).t, Head(q).f)
         /\ Once(q) => Once(Tail(q))
         /\ Once(q) /\ Head(q).t = "FILE"
              => ~Mentions(Tail(q), "FILE", Head(q).f)
<1>1. /\ Len(Tail(q)) = Len(q) - 1 /\ Len(q) \in Nat \ {0} /\ Head(q) = q[1]
      /\ DOMAIN q = 1..Len(q) /\ DOMAIN Tail(q) = 1..Len(Tail(q))
      /\ \A i \in 1..Len(Tail(q)) : Tail(q)[i] = q[i + 1]
  BY HeadTailProperties
<1>2. \A i \in DOMAIN Tail(q) : i + 1 \in DOMAIN q /\ Tail(q)[i] = q[i + 1]
                                /\ i \in Nat /\ i + 1 # 1
  BY <1>1
<1>3. 1 \in DOMAIN q
  BY <1>1
<1>4. ASSUME Once(q) PROVE Once(Tail(q))
  BY <1>2, <1>4 DEF Once
<1>5. ASSUME Once(q), Head(q).t = "FILE"
      PROVE  ~Mentions(Tail(q), "FILE", Head(q).f)
  BY <1>1, <1>2, <1>3, <1>5 DEF Once, Mentions
<1>6. QED
  BY <1>1, <1>2, <1>3, <1>4, <1>5 DEF Mentions

\* What a frame adds at the end.
LEMMA AppendMentions ==
  ASSUME NEW q \in Seq(Frame), NEW x \in Frame
  PROVE  /\ \A t, f : Mentions(q \o <<x>>, t, f)
                        => Mentions(q, t, f) \/ (x.t = t /\ x.f = f)
         /\ Once(q) /\ (x.t = "FILE" => ~Mentions(q, "FILE", x.f))
              => Once(q \o <<x>>)
<1> DEFINE r == q \o <<x>>
<1>1. /\ DOMAIN q = 1..Len(q) /\ Len(q) \in Nat /\ DOMAIN r = 1..Len(r)
      /\ Len(r) = Len(q) + 1
      /\ \A i \in 1..Len(r) : r[i] = IF i <= Len(q) THEN q[i] ELSE x
  OBVIOUS
<1>2. \A i \in DOMAIN r : \/ i \in DOMAIN q /\ r[i] = q[i]
                          \/ i = Len(r) /\ r[i] = x
  BY <1>1
<1> HIDE DEF r
<1>3. \A t, f : Mentions(r, t, f) => Mentions(q, t, f) \/ (x.t = t /\ x.f = f)
  BY <1>2 DEF Mentions
<1>4. ASSUME Once(q), x.t = "FILE" => ~Mentions(q, "FILE", x.f)
      PROVE  Once(r)
  BY <1>2, <1>4 DEF Once, Mentions
<1>5. QED
  BY <1>3, <1>4 DEF r

\* The same for the channels.
LEMMA ReadMentions ==
  ASSUME ChanTypes, NEW e \in Ends, chan[e] # <<>>, Read(e)
  PROVE  /\ chan'[Other(e)] = chan[Other(e)]
         /\ \A t, f : Mentions(chan[e], t, f)' => Mentions(chan[e], t, f)
         /\ Mentions(chan[e], Head(chan[e]).t, Head(chan[e]).f)
         /\ Once(chan[e]) => Once(chan[e])'
         /\ Once(chan[e]) /\ Head(chan[e]).t = "FILE"
              => ~Mentions(chan'[e], "FILE", Head(chan[e]).f)
<1>1. chan[e] \in Seq(Frame) /\ chan'[e] = Tail(chan[e])
      /\ chan'[Other(e)] = chan[Other(e)]
  BY EndFacts DEF ChanTypes, Read
<1>2. QED
  BY <1>1, TailMentions

\* A written frame is all that is new on the channel.
LEMMA WriteMentions ==
  ASSUME ChanTypes, NEW e \in Ends, NEW x \in Frame, Write(e, <<x>>)
  PROVE  /\ chan'[e] = chan[e]
         /\ \A t, f : Mentions(chan'[Other(e)], t, f)
                        => Mentions(chan[Other(e)], t, f)
                           \/ (x.t = t /\ x.f = f)
         /\ /\ Once(chan[Other(e)])
            /\ x.t = "FILE" => ~Mentions(chan[Other(e)], "FILE", x.f)
            => Once(chan'[Other(e)])
<1>1. chan[Other(e)] \in Seq(Frame) /\ chan'[e] = chan[e]
      /\ chan'[Other(e)] = chan[Other(e)] \o <<x>>
  BY EndFacts DEF ChanTypes, Write
<1>2. QED
  BY <1>1, AppendMentions

\* The same for a frame that is read and answered.
LEMMA AnswerMentions ==
  ASSUME ChanTypes, NEW e \in Ends, NEW x \in Frame, chan[e] # <<>>,
         Answer(e, <<x>>)
  PROVE  /\ \A t, f : Mentions(chan'[e], t, f) => Mentions(chan[e], t, f)
         /\ Mentions(chan[e], Head(chan[e]).t, Head(chan[e]).f)
         /\ Once(chan[e]) => Once(chan'[e])
         /\ Once(chan[e]) /\ Head(chan[e]).t = "FILE"
              => ~Mentions(chan'[e], "FILE", Head(chan[e]).f)
         /\ \A t, f : Mentions(chan'[Other(e)], t, f)
                        => Mentions(chan[Other(e)], t, f)
                           \/ (x.t = t /\ x.f = f)
         /\ /\ Once(chan[Other(e)])
            /\ x.t = "FILE" => ~Mentions(chan[Other(e)], "FILE", x.f)
            => Once(chan'[Other(e)])
<1>1. /\ chan[e] \in Seq(Frame) /\ chan[Other(e)] \in Seq(Frame)
      /\ chan'[e] = Tail(chan[e])
      /\ chan'[Other(e)] = chan[Other(e)] \o <<x>>
  BY EndFacts DEF ChanTypes, Answer
<1>2. QED
  BY <1>1, TailMentions, AppendMentions

\* A step that announces, answers and removes no file, and forgets nothing.
Early == {"wadr", "wpwd", "receive"}
ChanCalm ==
  \A d \in Ends :
    /\ \A f \in Files : \A t \in {"FILE", "GOT", "SKIP"} :
         Mentions(chan'[d], t, f) => Mentions(chan[d], t, f)
    /\ Once(chan[d]) => Once(chan'[d])
Calm ==
  /\ mailer' = mailer /\ outbox' = outbox /\ ChanCalm
  /\ \A d \in Ends : \A f \in Files : Has(d, f) => Has(d, f)'
  /\ skipped \subseteq skipped'
  /\ \A d \in Ends :
       /\ d = mailer \/ rcv'[d] = rcv[d] \/ rcv'[d] = None
       /\ IF d = mailer
          THEN \A f \in Files : f = cur[d] \/ f \in sent[d]
                                  => f = cur'[d] \/ f \in sent'[d]
          ELSE sent'[d] = sent[d] /\ queue'[d] \subseteq queue[d]
  /\ pc'["answerer"] \in Early => pc["answerer"] \in Early

\* Such a step keeps the invariant.
LEMMA CalmStep ==
  ASSUME Types, RemovalInv, Calm
  PROVE  RemovalInv'
<1> USE EndFacts
<1>1. \A s \in Ends : sent[s] \subseteq Files /\ outbox[s] \subseteq Files
                      /\ QueuedBy(s) \subseteq Files
                      /\ rcv[s] \in Files \cup {None}
  BY DEF Types
<1>2. ASSUME NEW s \in Ends PROVE AnswersInv(s)'
  <2>1. AnswersInv(s)
    BY DEF RemovalInv
  <2>2. QED
    BY <1>1, <2>1 DEF AnswersInv, Calm, ChanCalm
<1>3. ASSUME NEW s \in Ends PROVE OnceInv(s)'
  <2>1. OnceInv(s)
    BY DEF RemovalInv
  <2>2. \A f \in Files : Announced(s, f) => Announced(s, f)'
    BY DEF Announced, Calm
  <2>3. QED
    BY <1>1, <2>1, <2>2 DEF OnceInv, Calm, ChanCalm
<1>4. QuietInv'
  <2>1. QuietInv
    BY DEF RemovalInv
  <2>2. QED
    BY <2>1 DEF QuietInv, Calm, ChanCalm, Early, Ends
<1>5. QED
  BY <1>2, <1>3, <1>4 DEF RemovalInv

\* What such a step does with the channels.
LEMMA PlainChan ==
  ASSUME ChanTypes, NEW e \in Ends, UNCHANGED <<size, mailer>>,
         \/ chan' = chan
         \/ chan[e] # <<>> /\ Read(e)
         \/ \E t \in Commands \ {"FILE", "GOT", "GET", "SKIP"} :
              \/ Write(e, <<Cmd(t)>>)
              \/ chan[e] # <<>> /\ Answer(e, <<Cmd(t)>>)
  PROVE  ChanCalm
<1>1. \A d \in Ends : d = e \/ d = Other(e)
  BY EndFacts
<1>2. CASE chan' = chan
  BY <1>2 DEF ChanCalm
<1>3. CASE chan[e] # <<>> /\ Read(e)
  BY <1>1, <1>3, ReadMentions DEF ChanCalm
<1>4. ASSUME NEW t \in Commands \ {"FILE", "GOT", "GET", "SKIP"}
      PROVE  /\ Cmd(t) \in Frame /\ Cmd(t).t = t
             /\ t \notin {"FILE", "GOT", "SKIP"}
  BY DEF Cmd, Frame
<1>5. ASSUME NEW t \in Commands \ {"FILE", "GOT", "GET", "SKIP"},
             Write(e, <<Cmd(t)>>)
      PROVE  ChanCalm
  <2>1. Cmd(t) \in Frame /\ Cmd(t).t = t /\ t \notin {"FILE", "GOT", "SKIP"}
    BY <1>4
  <2>2. /\ chan'[e] = chan[e]
        /\ \A u, f : Mentions(chan'[Other(e)], u, f)
                       => Mentions(chan[Other(e)], u, f) \/ t = u
        /\ Once(chan[Other(e)]) => Once(chan'[Other(e)])
    BY <1>5, <2>1, WriteMentions
  <2>3. QED
    BY <1>1, <2>1, <2>2 DEF ChanCalm
<1>6. ASSUME NEW t \in Commands \ {"FILE", "GOT", "GET", "SKIP"},
             chan[e] # <<>>, Answer(e, <<Cmd(t)>>)
      PROVE  ChanCalm
  <2>1. Cmd(t) \in Frame /\ Cmd(t).t = t /\ t \notin {"FILE", "GOT", "SKIP"}
    BY <1>4
  <2>2. /\ \A u, f : Mentions(chan'[e], u, f) => Mentions(chan[e], u, f)
        /\ Once(chan[e]) => Once(chan'[e])
        /\ \A u, f : Mentions(chan'[Other(e)], u, f)
                       => Mentions(chan[Other(e)], u, f) \/ t = u
        /\ Once(chan[Other(e)]) => Once(chan'[Other(e)])
    BY <1>6, <2>1, AnswerMentions
  <2>3. QED
    BY <1>1, <2>1, <2>2 DEF ChanCalm
<1>7. QED
  BY <1>2, <1>3, <1>5, <1>6

\* Handshake, windows, ends of batches and of sessions are such steps.
LEMMA CalmSteps ==
  ASSUME Types, ChanTypes, NEW e \in Ends,
         \/ HandshakeStep(e) \/ WindowPasses(e) \/ SendData(e) \/ DataSent(e)
         \/ IgnoreFrame(e) \/ SendFails(e) \/ EndBatch(e) \/ ReceiveOther(e)
         \/ (e = "caller" /\ ReceiveEnds(e)) \/ ReceiveFails(e)
         \/ TossAndClose(e) \/ MailOther(e) \/ MailData(e) \/ MailEob(e)
         \/ MailCloses(e) \/ MailLeft(e) \/ MailHangs(e) \/ Die(e) \/ Drop
  PROVE  Calm
<1> USE EndFacts DEF files, conn, sender, inbound, batch, bounds, setting
<1>1. ASSUME CallerAdr PROVE Calm
  <2>1. ChanCalm
    BY <1>1, PlainChan DEF CallerAdr, Next1, Commands
  <2>2. QED
    BY <1>1, <2>1 DEF CallerAdr, Goto, Calm, Types, EndTypes, Has, Early
<1>2. ASSUME CallerOk PROVE Calm
  <2>1. ChanCalm
    BY <1>2, PlainChan DEF CallerOk, Next1, Commands
  <2>2. QED
    BY <1>2, <2>1 DEF CallerOk, Begins, Goto, Calm, Types, EndTypes, Has,
       Early
<1>3. ASSUME CallerRefused PROVE Calm
  <2>1. ChanCalm
    BY <1>3, PlainChan DEF CallerRefused, Next1, Commands
  <2>2. QED
    BY <1>3, <2>1 DEF CallerRefused, Goto, Calm, Types, EndTypes, Has, Early
<1>4. ASSUME AnswererAdr PROVE Calm
  <2>1. ChanCalm
    BY <1>4, PlainChan DEF AnswererAdr, Admit, Refuse, Next1, Commands
  <2>2. QED
    BY <1>4, <2>1 DEF AnswererAdr, Admit, Refuse, Begins, Goto, Calm, Types,
       EndTypes, Has, Early
<1>5. ASSUME AnswererPwd PROVE Calm
  <2>1. ChanCalm
    BY <1>5, PlainChan DEF AnswererPwd, Admit, Refuse, Next1, Commands
  <2>2. QED
    BY <1>5, <2>1 DEF AnswererPwd, Admit, Refuse, Begins, Goto, Calm, Types,
       EndTypes, Has, Early
<1>6. ASSUME PassOver(e) PROVE Calm
  <2>1. ChanCalm
    BY <1>6, PlainChan DEF PassOver, Next1, Commands
  <2>2. QED
    BY <1>6, <2>1 DEF PassOver, Calm, Types, EndTypes, Has, Early
<1>7. ASSUME HandshakeFails(e) PROVE Calm
  <2>1. ChanCalm
    BY <1>7, PlainChan DEF HandshakeFails, Fail, Close, Awaited, Next1,
       Commands
  <2>2. QED
    BY <1>7, <2>1 DEF HandshakeFails, Fail, Close, Goto, Awaited, Calm,
       Types, EndTypes, Has, Early
<1>8. ASSUME WindowPasses(e) PROVE Calm
  <2>1. ChanCalm
    BY <1>8, PlainChan DEF WindowPasses, Next1, Commands
  <2>2. QED
    BY <1>8, <2>1 DEF WindowPasses, Goto, Calm, Types, EndTypes, Has, Early
<1>9. ASSUME SendData(e) PROVE Calm
  <2>1. ChanCalm
    BY <1>9, PlainChan DEF SendData, Next1, Commands
  <2>2. QED
    BY <1>9, <2>1 DEF SendData, Calm, Types, EndTypes, Has, Early
<1>10. ASSUME DataSent(e) PROVE Calm
  <2>1. ChanCalm
    BY <1>10, PlainChan DEF DataSent, Next1, Commands
  <2>2. QED
    BY <1>10, <2>1 DEF DataSent, Goto, Calm, Types, EndTypes, Has, Early
<1>11. ASSUME IgnoreFrame(e) PROVE Calm
  <2>1. ChanCalm
    BY <1>11, PlainChan DEF IgnoreFrame, AfterFrame, Reading, Next1, Commands
  <2>2. QED
    BY <1>11, <2>1 DEF IgnoreFrame, AfterFrame, Reading, Calm, Types,
       EndTypes, Has, Early
<1>12. ASSUME SendFails(e) PROVE Calm
  <2>1. ChanCalm
    BY <1>12, PlainChan DEF SendFails, Reading, Fail, Close, Next1, Commands
  <2>2. QED
    BY <1>12, <2>1 DEF SendFails, Reading, Fail, Close, Goto, Calm, Types,
       EndTypes, Has, Early
<1>13. ASSUME EndBatch(e) PROVE Calm
  <2>1. ChanCalm
    BY <1>13, PlainChan DEF EndBatch, Next1, Commands
  <2>2. QED
    BY <1>13, <2>1 DEF EndBatch, Goto, Calm, Types, EndTypes, Has, Early
<1>14. ASSUME ReceiveOther(e) PROVE Calm
  <2>1. ChanCalm
    BY <1>14, PlainChan DEF ReceiveOther, Next1, Commands
  <2>2. QED
    BY <1>14, <2>1 DEF ReceiveOther, Calm, Types, EndTypes, Has, Early
<1>15. ASSUME ReceiveEnds(e) /\ e = "caller" PROVE Calm
  <2>1. ChanCalm
    BY <1>15, PlainChan DEF ReceiveEnds, Close, Next1, Commands
  <2>2. QED
    BY <1>15, <2>1 DEF ReceiveEnds, Close, Goto, Calm, Types, EndTypes, Has,
       Early
<1>16. ASSUME ReceiveFails(e) PROVE Calm
  <2>1. ChanCalm
    BY <1>16, PlainChan DEF ReceiveFails, Fail, Close, Next1, Commands
  <2>2. QED
    BY <1>16, <2>1 DEF ReceiveFails, Fail, Close, Goto, Calm, Types,
       EndTypes, Has, Early
<1>17. ASSUME TossAndClose(e) PROVE Calm
  <2>1. ChanCalm
    BY <1>17, PlainChan DEF TossAndClose, Close, Next1, Commands
  <2>2. QED
    BY <1>17, <2>1 DEF TossAndClose, Close, Goto, Calm, Types, EndTypes, Has,
       Early
<1>18. ASSUME MailOther(e) PROVE Calm
  <2>1. ChanCalm
    BY <1>18, PlainChan DEF MailOther, Next1, Commands
  <2>2. QED
    BY <1>18, <2>1 DEF MailOther, Mail, Calm, Types, EndTypes, Has, Early
<1>19. ASSUME MailData(e) PROVE Calm
  <2>1. ChanCalm
    BY <1>19, PlainChan DEF MailData, Next1, Commands
  <2>2. QED
    BY <1>19, <2>1 DEF MailData, Mail, Calm, Types, EndTypes, Has, Early
<1>20. ASSUME MailEob(e) PROVE Calm
  <2>1. ChanCalm
    BY <1>20, PlainChan DEF MailEob, Next1, Commands
  <2>2. QED
    BY <1>20, <2>1 DEF MailEob, Mail, Calm, Types, EndTypes, Has, Early
<1>21. ASSUME MailCloses(e) PROVE Calm
  <2>1. ChanCalm
    BY <1>21, PlainChan DEF MailCloses, Fail, Close, Next1, Commands
  <2>2. QED
    BY <1>21, <2>1 DEF MailCloses, Mail, Fault, Fail, Close, Goto, Calm,
       Types, EndTypes, Has, Early
<1>22. ASSUME MailLeft(e) PROVE Calm
  <2>1. ChanCalm
    BY <1>22, PlainChan DEF MailLeft, Fail, Close, Next1, Commands
  <2>2. QED
    BY <1>22, <2>1 DEF MailLeft, Fail, Close, Goto, Calm, Types, EndTypes,
       Has, Early
<1>23. ASSUME Die(e) PROVE Calm
  <2>1. ChanCalm
    BY <1>23, PlainChan DEF Die, Fail, Close, Next1, Commands
  <2>2. QED
    BY <1>23, <2>1 DEF Die, Fault, Fail, Close, Goto, Calm, Types, EndTypes,
       Has, Early
<1>24. ASSUME Drop PROVE Calm
  <2>1. ChanCalm
    BY <1>24, PlainChan DEF Drop, Next1, Commands
  <2>2. QED
    BY <1>24, <2>1 DEF Drop, Fault, Calm, Types, EndTypes, Has, Early
<1>25. ASSUME MailHangs(e) PROVE Calm
  <2>1. ChanCalm
    BY <1>25, PlainChan DEF MailHangs, Next1, Commands
  <2>2. QED
    BY <1>25, <2>1 DEF MailHangs, Mail, Fault, Calm, Types, EndTypes, Has,
       Early
<1>26. QED
  BY <1>1, <1>2, <1>3, <1>4, <1>5, <1>6, <1>7, <1>8, <1>9, <1>10, <1>11,
     <1>12, <1>13, <1>14, <1>15, <1>16, <1>17, <1>18, <1>19, <1>20, <1>21,
     <1>22, <1>23, <1>24, <1>25 DEF HandshakeStep

\* What the invariant says of e and its peer.
LEMMA TwoEnds ==
  ASSUME NEW e \in Ends
  PROVE  RemovalInv = /\ QuietInv
                      /\ AnswersInv(e) /\ AnswersInv(Other(e))
                      /\ OnceInv(e) /\ OnceInv(Other(e))
BY ZenonT(40), EndFacts DEF RemovalInv

\* os.Create empties only what the peer has no answer for.
LEMMA BeginStep ==
  ASSUME Types, ChanTypes, RemovalInv, NEW e \in Ends, e # mailer,
         chan[e] # <<>>, Head(chan[e]).t = "FILE", BeginInbound(e),
         UNCHANGED <<mailer, sender>>,
         pc'["answerer"] \in Early => pc["answerer"] \in Early
  PROVE  RemovalInv'
<1> DEFINE o == Other(e)
           f == Head(chan[e]).f
<1>1. /\ o \in Ends /\ o # e /\ Other(o) = e /\ Other(e) = o
      /\ f \in QueuedBy(o) /\ QueuedBy(o) \subseteq Files
      /\ QueuedBy(e) \subseteq Files /\ f # None
  BY EndFacts, HeadFrame
<1>2. QuietInv /\ AnswersInv(e) /\ AnswersInv(o) /\ OnceInv(e) /\ OnceInv(o)
  BY TwoEnds
<1>3. /\ \A t, g : Mentions(chan[e], t, g)' => Mentions(chan[e], t, g)
      /\ Mentions(chan[e], "FILE", f) /\ chan'[o] = chan[o]
      /\ Once(chan[e]) => Once(chan[e])' /\ ~Mentions(chan'[e], "FILE", f)
  BY ReadMentions DEF BeginInbound
<1>4. /\ rcv' = [rcv EXCEPT ![e] = f]
      /\ inbox' = [inbox EXCEPT ![e] = @ \ {f}]
      /\ UNCHANGED <<outbox, taken, skipped>>
  BY DEF BeginInbound
<1>5. /\ rcv'[e] = f /\ rcv'[o] = rcv[o] /\ \A g : Has(o, g)' = Has(o, g)
      /\ \A g : g # f => Has(e, g)' = Has(e, g)
  BY <1>1, <1>4 DEF Has, Types
<1> HIDE DEF o, f
<1>6. /\ f \in outbox[o] /\ Announced(o, f)
      /\ o # mailer => f \notin sent[o]
      /\ ~Mentions(chan[o], "GOT", f) /\ ~Mentions(chan[o], "SKIP", f)
  BY <1>1, <1>2, <1>3 DEF OnceInv
<1>7. AnswersInv(e)'
  BY <1>1, <1>2, <1>3, <1>4, <1>5 DEF AnswersInv, sender, Types
<1>8. AnswersInv(o)'
  BY <1>1, <1>2, <1>3, <1>4, <1>5, <1>6 DEF AnswersInv, sender, Types
<1>9. \A d, g : Announced(d, g)' = Announced(d, g)
  BY DEF Announced, sender
<1>10. OnceInv(e)'
  BY <1>1, <1>2, <1>3, <1>4, <1>5, <1>9 DEF OnceInv, sender
<1>11. OnceInv(o)'
  BY <1>1, <1>2, <1>3, <1>4, <1>5, <1>6, <1>9 DEF OnceInv, sender
<1>12. QuietInv'
  <2>1. \/ e = "answerer" /\ o = "caller"
        \/ e = "caller" /\ o = "answerer"
    BY <1>1 DEF Ends
  <2>2. QED
    BY <1>1, <1>2, <1>3, <1>5, <2>1 DEF QuietInv, Early, sender
<1>13. QED
  BY <1>1, <1>7, <1>8, <1>10, <1>11, <1>12 DEF RemovalInv, Ends

\* A file is complete and is answered: what has come under its name is there.
LEMMA CompleteStep ==
  ASSUME Types, ChanTypes, RemovalInv, NEW e \in Ends, chan[e] # <<>>,
         rcv[e] # None, Answer(e, <<About("GOT", rcv[e])>>),
         inbox' = [inbox EXCEPT ![e] = @ \cup {rcv[e]}],
         rcv' = [rcv EXCEPT ![e] = None],
         UNCHANGED <<mailer, outbox, taken, skipped, sender>>,
         pc'["answerer"] \in Early => pc["answerer"] \in Early
  PROVE  RemovalInv'
<1> DEFINE o == Other(e)
<1>1. PICK f : f = rcv[e]
  OBVIOUS
<1> DEFINE x == About("GOT", f)
<1>2. /\ o \in Ends /\ o # e /\ Other(o) = e /\ Other(e) = o
      /\ f \in QueuedBy(o) /\ QueuedBy(o) \subseteq Files
      /\ QueuedBy(e) \subseteq Files
      /\ x \in Frame /\ x.t = "GOT" /\ x.f = f /\ f # None
      /\ Answer(e, <<x>>) /\ f \in Files
  BY <1>1, EndFacts DEF Types, EndTypes, About, Frame, Commands
<1>3. QuietInv /\ AnswersInv(e) /\ AnswersInv(o) /\ OnceInv(e) /\ OnceInv(o)
  BY TwoEnds
<1>4. /\ \A t, g : Mentions(chan'[e], t, g) => Mentions(chan[e], t, g)
      /\ Once(chan[e]) => Once(chan'[e])
      /\ \A t, g : Mentions(chan'[o], t, g)
                     => Mentions(chan[o], t, g) \/ (t = "GOT" /\ g = f)
      /\ Once(chan[o]) => Once(chan'[o])
  BY <1>2, AnswerMentions
<1>5. /\ rcv'[e] = None /\ rcv'[o] = rcv[o] /\ inbox'[o] = inbox[o]
      /\ inbox'[e] = inbox[e] \cup {f}
  BY <1>2, <1>1 DEF Types
<1>6. /\ \A g : Has(o, g)' = Has(o, g)
      /\ \A g : Has(e, g) => Has(e, g)'
      /\ Has(e, f)'
  <2>1. taken' = taken
    OBVIOUS
  <2>2. f \in inbox'[e]
    BY <1>5
  <2>3. QED
    BY <1>5, <2>1, <2>2 DEF Has
<1> HIDE DEF o, x
<1>7. AnswersInv(e)'
  BY <1>2, <1>3, <1>4, <1>5, <1>6 DEF AnswersInv, sender, Types
<1>8. AnswersInv(o)'
  <2>1. \A g \in Files :
          /\ Mentions(chan'[o], "GOT", g) => Has(e, g)'
          /\ Mentions(chan'[o], "SKIP", g) => g \in skipped'
    <3>1. TAKE g \in Files
    <3>2. /\ Mentions(chan[o], "GOT", g) => Has(e, g)
          /\ Mentions(chan[o], "SKIP", g) => g \in skipped
      BY <1>2, <1>3 DEF AnswersInv
    <3>3. /\ Mentions(chan'[o], "GOT", g)
               => Mentions(chan[o], "GOT", g) \/ g = f
          /\ Mentions(chan'[o], "SKIP", g) => Mentions(chan[o], "SKIP", g)
      BY <1>4
    <3>4. QED
      BY <1>6, <3>2, <3>3
  <2>2. \A g \in QueuedBy(o) \ outbox'[o] : Has(e, g)' \/ g \in skipped'
    BY <1>2, <1>3, <1>6 DEF AnswersInv
  <2>3. o # mailer' => \A g \in sent'[o] : Has(e, g)' \/ g \in skipped'
    BY <1>2, <1>3, <1>6 DEF AnswersInv, sender
  <2>4. QED
    BY <1>2, <2>1, <2>2, <2>3 DEF AnswersInv
<1>9. \A d, g : Announced(d, g)' = Announced(d, g)
  BY DEF Announced, sender
<1>10. OnceInv(e)'
  BY <1>2, <1>3, <1>4, <1>5, <1>9 DEF OnceInv, sender
<1>11. OnceInv(o)'
  <2>1. CASE e = mailer
    BY <1>2, <2>1 DEF OnceInv
  <2>2. CASE e # mailer
    <3>1. Once(chan'[e])
      BY <1>2, <1>3, <1>4, <2>2 DEF OnceInv
    <3>2. f # None /\ f = rcv[e]
      BY <1>2, <1>1
    <3>3. ASSUME NEW g \in Files, Mentions(chan'[e], "FILE", g)
          PROVE  /\ g \in outbox'[o] /\ Announced(o, g)' /\ rcv'[e] # g
                 /\ o # mailer' => g \notin sent'[o]
                 /\ ~Mentions(chan'[o], "GOT", g)
                 /\ ~Mentions(chan'[o], "SKIP", g)
      <4>1. /\ g \in outbox[o] /\ Announced(o, g) /\ rcv[e] # g
            /\ o # mailer => g \notin sent[o]
            /\ ~Mentions(chan[o], "GOT", g) /\ ~Mentions(chan[o], "SKIP", g)
        BY <1>2, <1>3, <1>4, <2>2, <3>3 DEF OnceInv
      <4>2. QED
        BY <4>1, <3>2, <1>4, <1>5, <1>9, EndFacts DEF sender
    <3>4. \A g \in Files :
            /\ ~Mentions(chan'[o], "SKIP", g)
            /\ Mentions(chan'[o], "GOT", g) => Announced(o, g)'
      BY <1>2, <1>3, <1>4, <1>9, <2>2, <3>2 DEF OnceInv
    <3>5. o # mailer' => queue'[o] \subseteq outbox'[o] \ sent'[o]
      BY <1>2, <1>3, <2>2 DEF OnceInv, sender
    <3>6. QED
      BY <1>2, <1>5, <3>1, <3>3, <3>4, <3>5 DEF OnceInv
  <2>3. QED
    BY <2>1, <2>2
<1>12. QuietInv'
  <2>1. \/ e = "answerer" /\ o = "caller"
        \/ e = "caller" /\ o = "answerer"
    BY <1>2 DEF Ends
  <2>2. QED
    BY <1>2, <1>3, <1>4, <1>5, <1>1, <2>1 DEF QuietInv, Early, sender
<1>13. QED
  BY <1>2, <1>7, <1>8, <1>10, <1>11, <1>12 DEF RemovalInv, Ends

\* A data frame is dropped, adds to a file or completes it.
LEMMA InboundStep ==
  ASSUME Types, ChanTypes, RemovalInv, NEW e \in Ends, chan[e] # <<>>,
         NEW done, WriteInbound(e, done), UNCHANGED <<size, mailer, sender>>,
         pc'["answerer"] \in Early => pc["answerer"] \in Early
  PROVE  RemovalInv'
<1>1. CASE Read(e) /\ UNCHANGED <<files, rcv>>
  <2>1. ChanCalm
    BY <1>1, PlainChan
  <2>2. Calm
    BY <1>1, <2>1 DEF Calm, files, sender, Has
  <2>3. QED
    BY <2>2, CalmStep
<1>2. CASE /\ rcv[e] # None /\ Answer(e, <<About("GOT", rcv[e])>>)
           /\ inbox' = [inbox EXCEPT ![e] = @ \cup {rcv[e]}]
           /\ rcv' = [rcv EXCEPT ![e] = None]
           /\ UNCHANGED <<outbox, taken, torn, skipped>>
  BY <1>2, CompleteStep
<1>3. QED
  BY <1>1, <1>2 DEF WriteInbound, inbound

\* The other mailer answers an M_FILE; it never empties a file it has.
LEMMA MailAnswerStep ==
  ASSUME Types, ChanTypes, RemovalInv, NEW e \in Ends, e = mailer,
         chan[e] # <<>>, NEW x \in Frame, Answer(e, <<x>>),
         x.t \in {"GOT", "SKIP", "GET"}, x.f \in Files,
         x.t = "GOT" => Has(e, x.f)', x.t = "SKIP" => x.f \in skipped',
         \A d \in Ends : \A f \in Files : Has(d, f) => Has(d, f)',
         skipped \subseteq skipped',
         \A d \in Ends : d = mailer \/ rcv'[d] = rcv[d],
         UNCHANGED <<mailer, outbox, pc, sender>>
  PROVE  RemovalInv'
<1> DEFINE o == Other(e)
<1>1. /\ o \in Ends /\ o # e /\ Other(o) = e /\ Other(e) = o
      /\ QueuedBy(o) \subseteq Files /\ QueuedBy(e) \subseteq Files
  BY EndFacts
<1>2. QuietInv /\ AnswersInv(e) /\ AnswersInv(o) /\ OnceInv(e) /\ OnceInv(o)
  BY TwoEnds
<1>3. /\ \A t, g : Mentions(chan'[e], t, g) => Mentions(chan[e], t, g)
      /\ Once(chan[e]) => Once(chan'[e])
      /\ \A t, g : Mentions(chan'[o], t, g)
                     => Mentions(chan[o], t, g) \/ (x.t = t /\ x.f = g)
      /\ Once(chan[o]) => Once(chan'[o])
  BY <1>1, AnswerMentions
<1> HIDE DEF o
<1>4. AnswersInv(e)'
  BY <1>1, <1>2, <1>3 DEF AnswersInv, sender, Types
<1>5. AnswersInv(o)'
  BY <1>1, <1>2, <1>3 DEF AnswersInv, sender, Types
<1>6. \A d, g : Announced(d, g)' = Announced(d, g)
  BY DEF Announced, sender
<1>7. OnceInv(e)'
  BY <1>1, <1>2, <1>3, <1>6 DEF OnceInv, sender, Types
<1>8. OnceInv(o)'
  BY <1>1 DEF OnceInv
<1>9. QuietInv'
  BY DEF QuietInv, Ends
<1>10. QED
  BY <1>1, <1>4, <1>5, <1>7, <1>8, <1>9 DEF RemovalInv, Ends

\* M_GOT or M_SKIP has been read: the file counts as sent.
LEMMA FileDoneStep ==
  ASSUME Types, ChanTypes, RemovalInv, NEW e \in Ends, FileDone(e)
  PROVE  RemovalInv'
<1> DEFINE o == Other(e)
           f == cur[e]
<1>1. chan[e] # <<>> /\ Head(chan[e]).t \in {"GOT", "SKIP"}
      /\ Head(chan[e]).f = f /\ pc[e] \in {"window", "got"}
  BY DEF FileDone, Next1, Reading
<1>2. /\ o \in Ends /\ o # e /\ Other(o) = e /\ Other(e) = o
      /\ f \in QueuedBy(e) /\ QueuedBy(o) \subseteq Files
      /\ QueuedBy(e) \subseteq Files
  BY <1>1, EndFacts, HeadFrame
<1>3. e # mailer
  BY <1>1 DEF Types, EndTypes
<1>4. QuietInv /\ AnswersInv(e) /\ AnswersInv(o) /\ OnceInv(e) /\ OnceInv(o)
  BY TwoEnds
<1>5. /\ sent' = [sent EXCEPT ![e] = @ \cup {f}] /\ Read(e)
      /\ pc' = [pc EXCEPT ![e] = "send"]
      /\ UNCHANGED <<mailer, outbox, inbox, taken, skipped, queue, cur, rcv>>
  BY DEF FileDone, Goto, setting, files, inbound
<1>6. /\ chan'[o] = chan[o]
      /\ \A t, g : Mentions(chan[e], t, g)' => Mentions(chan[e], t, g)
      /\ Mentions(chan[e], Head(chan[e]).t, f)
      /\ Once(chan[e]) => Once(chan[e])'
  BY <1>1, <1>5, ReadMentions
<1>7. sent'[e] = sent[e] \cup {f} /\ sent'[o] = sent[o] /\ pc'[e] = "send"
      /\ pc'[o] = pc[o]
  BY <1>2, <1>5 DEF Types
<1> HIDE DEF o, f
<1>8. Has(o, f) \/ f \in skipped
  BY <1>1, <1>2, <1>4, <1>6 DEF AnswersInv
<1>9. \A d, g : Has(d, g)' = Has(d, g)
  BY <1>5 DEF Has
<1>10. AnswersInv(e)'
  BY <1>2, <1>4, <1>5, <1>6, <1>7, <1>8, <1>9 DEF AnswersInv
<1>11. AnswersInv(o)'
  BY <1>2, <1>4, <1>5, <1>6, <1>7, <1>9 DEF AnswersInv
<1>12. \A g : /\ Announced(e, g)' = Announced(e, g)
              /\ Announced(o, g)' = Announced(o, g)
  BY <1>2, <1>3, <1>5, <1>7 DEF Announced
<1>13. OnceInv(e)'
  <2>1. CASE o = mailer
    BY <1>2, <1>5, <2>1 DEF OnceInv
  <2>2. CASE o # mailer
    <3>1. Mentions(chan[e], "GOT", f) /\ f \notin queue[e]
      BY <1>1, <1>2, <1>3, <1>4, <1>6, <2>2 DEF OnceInv, Announced
    <3>2. ~Mentions(chan[o], "FILE", f)
      BY <1>2, <1>4, <2>2, <3>1 DEF OnceInv
    <3>3. QED
      BY <1>2, <1>4, <1>5, <1>6, <1>7, <1>12, <2>2, <3>1, <3>2 DEF OnceInv
  <2>3. QED
    BY <2>1, <2>2
<1>14. OnceInv(o)'
  BY <1>2, <1>4, <1>5, <1>6, <1>7, <1>12 DEF OnceInv
<1>15. QuietInv'
  <2>1. \/ e = "answerer" /\ o = "caller"
        \/ e = "caller" /\ o = "answerer"
    BY <1>2 DEF Ends
  <2>2. QED
    BY <1>2, <1>4, <1>5, <1>6, <1>7, <2>1 DEF QuietInv
<1>16. QED
  BY <1>2, <1>10, <1>11, <1>13, <1>14, <1>15 DEF RemovalInv, Ends

\* The file is announced again, to another mailer: VirtBBS asks for no offset.
LEMMA RestartStep ==
  ASSUME Types, ChanTypes, RemovalInv, NEW e \in Ends, Restart(e)
  PROVE  RemovalInv'
<1> DEFINE o == Other(e)
           x == FileFrame(cur[e], Head(chan[e]).off)
<1>1. /\ chan[e] # <<>> /\ Head(chan[e]).t = "GET" /\ Head(chan[e]).f = cur[e]
      /\ Answer(e, <<x>>)
      /\ UNCHANGED <<mailer, outbox, inbox, taken, skipped, queue, cur, sent,
                     rcv>>
  BY DEF Restart, Next1, setting, files, inbound
<1>2. /\ o \in Ends /\ o # e /\ Other(o) = e /\ Other(e) = o
      /\ QueuedBy(o) \subseteq Files /\ QueuedBy(e) \subseteq Files
      /\ x \in Frame /\ x.t = "FILE" /\ o = mailer /\ mailer # "none"
  BY <1>1, EndFacts, HeadFrame DEF FileFrame, Frame, Commands, Ends
<1>3. AnswersInv(e) /\ AnswersInv(o) /\ OnceInv(e) /\ OnceInv(o)
  BY TwoEnds
<1> HIDE DEF o, x
<1>4. /\ \A t, g : Mentions(chan'[e], t, g) => Mentions(chan[e], t, g)
      /\ Once(chan[e]) => Once(chan'[e])
      /\ \A t, g : Mentions(chan'[o], t, g)
                     => Mentions(chan[o], t, g) \/ x.t = t
  BY <1>1, <1>2, AnswerMentions
<1>5. \A d, g : Has(d, g)' = Has(d, g) /\ Announced(d, g)' = Announced(d, g)
  BY <1>1 DEF Has, Announced
<1>6. AnswersInv(e)'
  BY <1>1, <1>2, <1>3, <1>4, <1>5 DEF AnswersInv
<1>7. AnswersInv(o)'
  BY <1>1, <1>2, <1>3, <1>4, <1>5 DEF AnswersInv
<1>8. OnceInv(e)'
  BY <1>1, <1>2 DEF OnceInv
<1>9. OnceInv(o)'
  BY <1>1, <1>2, <1>3, <1>4, <1>5 DEF OnceInv
<1>10. QuietInv'
  BY <1>1, <1>2 DEF QuietInv
<1>11. QED
  BY <1>2, <1>6, <1>7, <1>8, <1>9, <1>10 DEF RemovalInv, Ends

\* The answerer lists its outbound directory; it has announced nothing yet.
LEMMA ListingStep ==
  ASSUME Types, ChanTypes, RemovalInv, ReceiveEnds("answerer")
  PROVE  RemovalInv'
<1> DEFINE a == "answerer"
           c == "caller"
<1>1. /\ a \in Ends /\ c \in Ends /\ Other(a) = c /\ Other(c) = a
      /\ QueuedBy(a) \subseteq Files /\ QueuedBy(c) \subseteq Files
      /\ a # c
  BY EndFacts DEF Other
<1>2. /\ pc[a] = "receive" /\ pc'[a] = "send"
      /\ queue' = [queue EXCEPT ![a] = outbox[a]]
      /\ rcv' = [rcv EXCEPT ![a] = None]
      /\ UNCHANGED <<mailer, outbox, inbox, taken, skipped, cur, sent>>
  BY DEF ReceiveEnds, Goto, setting, files, Types, Ends
<1>3. a # mailer
  BY <1>1, <1>2 DEF Types, EndTypes
<1>4. QuietInv /\ AnswersInv(a) /\ AnswersInv(c) /\ OnceInv(a) /\ OnceInv(c)
  BY <1>1, TwoEnds
<1>5. chan' = chan \/ (chan[a] # <<>> /\ Read(a))
  BY <1>1, NoFrames DEF ReceiveEnds, Next1
<1>6. /\ \A t, g : Mentions(chan'[a], t, g) => Mentions(chan[a], t, g)
      /\ Once(chan[a]) => Once(chan'[a])
      /\ chan'[c] = chan[c]
  BY <1>1, <1>5, ReadMentions
<1>7. /\ queue'[a] = outbox[a] /\ queue'[c] = queue[c] /\ rcv'[a] = None
      /\ rcv'[c] = rcv[c]
  BY <1>1, <1>2 DEF Types
<1> HIDE DEF a, c
<1>8. \A d, g : Has(d, g)' = Has(d, g)
  BY <1>2 DEF Has
<1>9. AnswersInv(a)'
  BY <1>1, <1>2, <1>4, <1>6, <1>8 DEF AnswersInv
<1>10. AnswersInv(c)'
  BY <1>1, <1>2, <1>4, <1>6, <1>8 DEF AnswersInv
<1>11. OnceInv(a)'
  <2>1. CASE c = mailer
    BY <1>1, <1>2, <2>1 DEF OnceInv
  <2>2. CASE c # mailer
    <3>1. mailer = "none"
      BY <1>3, <2>2 DEF Types, Ends, a, c
    <3>2. /\ \A f \in Files : /\ ~Mentions(chan[c], "FILE", f)
                              /\ ~Mentions(chan[a], "GOT", f)
          /\ rcv[c] = None /\ sent[a] = {}
      BY <1>2, <1>4, <3>1 DEF QuietInv, a, c
    <3>3. Once(chan[c]) /\ \A f \in Files : ~Mentions(chan[a], "SKIP", f)
      BY <1>1, <1>4, <2>2 DEF OnceInv
    <3>4. QED
      BY <1>1, <1>2, <1>6, <1>7, <3>2, <3>3 DEF OnceInv
  <2>3. QED
    BY <2>1, <2>2
<1>12. OnceInv(c)'
  <2>1. \A g : Announced(c, g)' = Announced(c, g)
    BY <1>2, <1>7 DEF Announced
  <2>2. QED
    BY <1>1, <1>2, <1>3, <1>4, <1>6, <1>7, <2>1, EndFacts DEF OnceInv
<1>13. QuietInv'
  BY <1>2 DEF QuietInv, a
<1>14. QED
  BY <1>9, <1>10, <1>11, <1>12, <1>13 DEF RemovalInv, Ends, a, c

\* M_FILE for a file of the list, which has not been announced before.
LEMMA AnnounceStep ==
  ASSUME Types, ChanTypes, RemovalInv, NEW e \in Ends, Announce(e)
  PROVE  RemovalInv'
<1> DEFINE o == Other(e)
<1>1. PICK f : f = FirstOf(queue[e])
  OBVIOUS
<1>2. /\ pc[e] = "send" /\ queue[e] # {} /\ Write(e, <<FileFrame(f, 0)>>)
      /\ queue' = [queue EXCEPT ![e] = @ \ {f}]
      /\ pc' = [pc EXCEPT ![e] = "window"]
      /\ cur' = [cur EXCEPT ![e] = f]
      /\ UNCHANGED <<mailer, outbox, inbox, taken, skipped, sent, rcv>>
  BY <1>1 DEF Announce, Goto, setting, files, inbound
<1>3. f \in queue[e] /\ f \in QueuedBy(e) /\ e # mailer
  BY <1>1, <1>2, FirstIn DEF Types, EndTypes
<1> DEFINE x == FileFrame(f, 0)
<1>4. /\ o \in Ends /\ o # e /\ Other(o) = e /\ Other(e) = o
      /\ QueuedBy(o) \subseteq Files /\ QueuedBy(e) \subseteq Files
      /\ f \in Files /\ f # None
      /\ x \in Frame /\ x.t = "FILE" /\ x.f = f
  BY <1>3, EndFacts DEF FileFrame, Frame, Commands
<1>5. QuietInv /\ AnswersInv(e) /\ AnswersInv(o) /\ OnceInv(e) /\ OnceInv(o)
  BY TwoEnds
<1>6. /\ chan'[e] = chan[e]
      /\ \A t, g : Mentions(chan'[o], t, g)
                     => Mentions(chan[o], t, g) \/ (t = "FILE" /\ g = f)
      /\ Once(chan[o]) /\ ~Mentions(chan[o], "FILE", f) => Once(chan'[o])
  BY <1>2, <1>4, WriteMentions
<1>7. /\ queue'[e] = queue[e] \ {f} /\ queue'[o] = queue[o]
      /\ cur'[o] = cur[o] /\ pc'[e] = "window" /\ pc'[o] = pc[o]
  BY <1>2, <1>4 DEF Types
<1> HIDE DEF o, x
<1>8. \A d, g : Has(d, g)' = Has(d, g)
  BY <1>2 DEF Has
<1>9. AnswersInv(e)'
  BY <1>2, <1>4, <1>5, <1>6, <1>8 DEF AnswersInv
<1>10. AnswersInv(o)'
  BY <1>2, <1>4, <1>5, <1>6, <1>8 DEF AnswersInv
<1>11. /\ \A g : Announced(e, g)' <=> Announced(e, g) \/ g = f
       /\ \A g : Announced(o, g)' = Announced(o, g) /\ ~Announced(e, f)
  BY <1>2, <1>3, <1>4, <1>7 DEF Announced
<1>12. OnceInv(e)'
  <2>1. CASE o = mailer
    BY <1>2, <1>4, <2>1 DEF OnceInv
  <2>2. CASE o # mailer
    <3>1. /\ Once(chan[o]) /\ ~Mentions(chan[o], "FILE", f)
          /\ \A g \in Files : ~Mentions(chan[e], "SKIP", g)
          /\ ~Mentions(chan[e], "GOT", f) /\ rcv[o] # f
          /\ queue[e] \subseteq outbox[e] \ sent[e]
      BY <1>3, <1>4, <1>5, <1>11, <2>2 DEF OnceInv
    <3>2. \A g \in Files : Mentions(chan'[o], "FILE", g) =>
            /\ g \in outbox'[e] /\ Announced(e, g)' /\ rcv'[o] # g
            /\ e # mailer' => g \notin sent'[e]
            /\ ~Mentions(chan'[e], "GOT", g) /\ ~Mentions(chan'[e], "SKIP", g)
      <4>1. TAKE g \in Files
      <4>2. CASE g = f
        BY <1>2, <1>3, <1>6, <1>11, <3>1, <4>2
      <4>3. CASE g # f
        BY <1>2, <1>4, <1>5, <1>6, <1>11, <2>2, <4>3 DEF OnceInv
      <4>4. QED
        BY <4>2, <4>3
    <3>3. /\ rcv'[o] # None => Announced(e, rcv[o])'
          /\ \A g \in Files : Mentions(chan'[e], "GOT", g) => Announced(e, g)'
      BY <1>2, <1>4, <1>5, <1>6, <1>11, <2>2 DEF OnceInv
    <3>4. rcv'[o] # None => Announced(e, rcv[o])' /\ rcv[o] = rcv'[o]
      BY <1>2, <3>3
    <3>5. QED
      BY <1>2, <1>4, <1>6, <1>7, <1>11, <3>1, <3>2, <3>3, <3>4 DEF OnceInv
  <2>3. QED
    BY <2>1, <2>2
<1>13. OnceInv(o)'
  BY <1>2, <1>3, <1>4, <1>5, <1>6, <1>7, <1>11 DEF OnceInv
<1>14. QuietInv'
  <2>1. \/ e = "answerer" /\ o = "caller"
        \/ e = "caller" /\ o = "answerer"
    BY <1>4 DEF Ends
  <2>2. QED
    BY <1>2, <1>4, <1>5, <1>6, <1>7, <2>1 DEF QuietInv
<1>15. QED
  BY <1>4, <1>9, <1>10, <1>12, <1>13, <1>14 DEF RemovalInv, Ends

\* os.Remove of a file that counts as sent.
LEMMA RemoveStep ==
  ASSUME Types, ChanTypes, RemovalInv, NEW e \in Ends, RemoveSent(e)
  PROVE  RemovalInv'
<1> DEFINE o == Other(e)
<1>1. PICK f : f = FirstOf(sent[e])
  OBVIOUS
<1>2. /\ pc[e] = "clean" /\ sent[e] # {}
      /\ outbox' = [outbox EXCEPT ![e] = @ \ {f}]
      /\ sent' = [sent EXCEPT ![e] = @ \ {f}]
      /\ UNCHANGED <<mailer, inbox, taken, skipped, chan, pc, queue, cur,
                     rcv>>
  BY <1>1 DEF RemoveSent, setting, conn, inbound
<1>3. f \in sent[e] /\ f \in QueuedBy(e) /\ e # mailer
  BY <1>1, <1>2, FirstIn DEF Types, EndTypes
<1>4. /\ o \in Ends /\ o # e /\ Other(o) = e /\ Other(e) = o
      /\ QueuedBy(o) \subseteq Files /\ QueuedBy(e) \subseteq Files
  BY EndFacts
<1>5. QuietInv /\ AnswersInv(e) /\ AnswersInv(o) /\ OnceInv(e) /\ OnceInv(o)
  BY TwoEnds
<1>6. /\ outbox'[e] = outbox[e] \ {f} /\ outbox'[o] = outbox[o]
      /\ sent'[e] = sent[e] \ {f} /\ sent'[o] = sent[o]
  BY <1>2, <1>4 DEF Types
<1> HIDE DEF o
<1>7. /\ \A d, g : Has(d, g)' = Has(d, g)
      /\ \A g : Announced(e, g)' = Announced(e, g)
      /\ \A g : Announced(o, g)' = Announced(o, g)
  BY <1>2, <1>3, <1>6 DEF Has, Announced
<1>8. AnswersInv(e)'
  BY <1>2, <1>3, <1>4, <1>5, <1>6, <1>7 DEF AnswersInv
<1>9. AnswersInv(o)'
  BY <1>2, <1>4, <1>5, <1>6, <1>7 DEF AnswersInv
<1>10. OnceInv(e)'
  BY <1>2, <1>3, <1>4, <1>5, <1>6, <1>7 DEF OnceInv
<1>11. OnceInv(o)'
  BY <1>2, <1>4, <1>5, <1>6, <1>7 DEF OnceInv
<1>12. QuietInv'
  <2>1. \/ e = "answerer" /\ o = "caller"
        \/ e = "caller" /\ o = "answerer"
    BY <1>4 DEF Ends
  <2>2. QED
    BY <1>2, <1>4, <1>5, <1>6, <2>1 DEF QuietInv
<1>13. QED
  BY <1>4, <1>8, <1>9, <1>10, <1>11, <1>12 DEF RemovalInv, Ends

\* The other mailer deletes a file on M_GOT: VirtBBS has it.
LEMMA MailGotStep ==
  ASSUME Types, ChanTypes, RemovalInv, NEW e \in Ends, MailGot(e)
  PROVE  RemovalInv'
<1> DEFINE o == Other(e)
<1>1. PICK f : f = Head(chan[e]).f
  OBVIOUS
<1>2. /\ e = mailer /\ chan[e] # <<>> /\ Head(chan[e]).t = "GOT" /\ Read(e)
      /\ outbox' = [outbox EXCEPT ![e] = @ \ {f}]
      /\ UNCHANGED <<mailer, inbox, taken, skipped, queue, cur, sent, rcv>>
  BY <1>1 DEF MailGot, Mail, Next1, setting, sender, inbound
<1>3. /\ o \in Ends /\ o # e /\ Other(o) = e /\ Other(e) = o
      /\ QueuedBy(o) \subseteq Files /\ QueuedBy(e) \subseteq Files
      /\ f \in QueuedBy(e) /\ mailer # "none"
  BY <1>1, <1>2, EndFacts, HeadFrame DEF Ends
<1>4. AnswersInv(e) /\ AnswersInv(o) /\ OnceInv(e) /\ OnceInv(o)
  BY TwoEnds
<1>5. /\ \A t, g : Mentions(chan'[e], t, g) => Mentions(chan[e], t, g)
      /\ chan'[o] = chan[o] /\ Mentions(chan[e], "GOT", f)
  BY <1>1, <1>2, ReadMentions
<1>6. outbox'[e] = outbox[e] \ {f} /\ outbox'[o] = outbox[o]
  BY <1>2, <1>3 DEF Types
<1> HIDE DEF o
<1>7. \A d, g : Has(d, g)' = Has(d, g) /\ Announced(d, g)' = Announced(d, g)
  BY <1>2 DEF Has, Announced
<1>8. AnswersInv(e)'
  BY <1>2, <1>3, <1>4, <1>5, <1>6, <1>7 DEF AnswersInv
<1>9. AnswersInv(o)'
  BY <1>2, <1>3, <1>4, <1>5, <1>6, <1>7 DEF AnswersInv
<1>10. OnceInv(e)'
  BY <1>2, <1>3, <1>4, <1>5, <1>6, <1>7 DEF OnceInv
<1>11. OnceInv(o)'
  BY <1>2, <1>3 DEF OnceInv
<1>12. QuietInv'
  BY <1>2, <1>3 DEF QuietInv
<1>13. QED
  BY <1>3, <1>8, <1>9, <1>10, <1>11, <1>12 DEF RemovalInv, Ends

\* The other mailer announces a file it has not announced before.
LEMMA MailAnnounceStep ==
  ASSUME Types, ChanTypes, RemovalInv, NEW e \in Ends, MailAnnounces(e)
  PROVE  RemovalInv'
<1> DEFINE o == Other(e)
<1>1. PICK f : f = FirstOf(outbox[e] \ sent[e])
  OBVIOUS
<1>2. /\ e = mailer /\ cur[e] = None /\ outbox[e] \ sent[e] # {}
      /\ Write(e, <<FileFrame(f, 0)>>) /\ cur' = [cur EXCEPT ![e] = f]
      /\ UNCHANGED <<mailer, outbox, inbox, taken, skipped, sent, queue, rcv>>
  BY <1>1 DEF MailAnnounces, Mail, setting, files, inbound
<1>3. f \in outbox[e] /\ f \notin sent[e] /\ f \in QueuedBy(e)
  <2>1. outbox[e] \ sent[e] \subseteq Files /\ outbox[e] \subseteq QueuedBy(e)
    BY DEF Types, EndTypes
  <2>2. QED
    BY <1>1, <1>2, <2>1, FirstIn
<1> DEFINE x == FileFrame(f, 0)
<1>4. /\ o \in Ends /\ o # e /\ Other(o) = e /\ Other(e) = o
      /\ QueuedBy(o) \subseteq Files /\ QueuedBy(e) \subseteq Files
      /\ f \in Files /\ f # None /\ None \notin Files /\ mailer # "none"
      /\ x \in Frame /\ x.t = "FILE" /\ x.f = f
  BY <1>2, <1>3, EndFacts DEF FileFrame, Frame, Commands, Ends
<1>5. AnswersInv(e) /\ AnswersInv(o) /\ OnceInv(e) /\ OnceInv(o)
  BY TwoEnds
<1>6. /\ chan'[e] = chan[e]
      /\ \A t, g : Mentions(chan'[o], t, g)
                     => Mentions(chan[o], t, g) \/ (t = "FILE" /\ g = f)
      /\ Once(chan[o]) /\ ~Mentions(chan[o], "FILE", f) => Once(chan'[o])
  BY <1>2, <1>4, WriteMentions
<1>7. cur'[e] = f /\ cur'[o] = cur[o]
  BY <1>2, <1>4 DEF Types
<1>8. rcv[o] \in Files \cup {None}
  BY <1>4 DEF Types
<1> HIDE DEF o, x
<1>9. \A d, g : Has(d, g)' = Has(d, g)
  BY <1>2 DEF Has
<1>10. AnswersInv(e)'
  BY <1>2, <1>4, <1>5, <1>6, <1>9 DEF AnswersInv
<1>11. AnswersInv(o)'
  BY <1>2, <1>4, <1>5, <1>6, <1>9 DEF AnswersInv
<1>12. /\ \A g \in Files : Announced(e, g)' <=> Announced(e, g) \/ g = f
       /\ ~Announced(e, f)
  BY <1>2, <1>3, <1>4, <1>7 DEF Announced
<1>13. OnceInv(e)'
  <2>1. /\ Once(chan[o]) /\ ~Mentions(chan[o], "FILE", f)
        /\ \A g \in Files : ~Mentions(chan[e], "SKIP", g)
        /\ ~Mentions(chan[e], "GOT", f) /\ rcv[o] # f
    BY <1>2, <1>4, <1>5, <1>12 DEF OnceInv
  <2>2. \A g \in Files : Mentions(chan'[o], "FILE", g) =>
          /\ g \in outbox'[e] /\ Announced(e, g)' /\ rcv'[o] # g
          /\ ~Mentions(chan'[e], "GOT", g) /\ ~Mentions(chan'[e], "SKIP", g)
    <3>1. TAKE g \in Files
    <3>2. CASE g = f
      BY <1>2, <1>3, <1>6, <1>12, <2>1, <3>2
    <3>3. CASE g # f
      BY <1>2, <1>4, <1>5, <1>6, <1>12, <3>3 DEF OnceInv
    <3>4. QED
      BY <3>2, <3>3
  <2>3. /\ rcv[o] # None => Announced(e, rcv[o])
        /\ \A g \in Files : Mentions(chan[e], "GOT", g) => Announced(e, g)
    BY <1>2, <1>4, <1>5 DEF OnceInv
  <2>4. rcv'[o] # None => Announced(e, rcv[o])'
    <3>1. PICK g \in Files \cup {None} : g = rcv[o]
      BY <1>8
    <3>2. rcv'[o] = g /\ (g # None => Announced(e, g)')
      BY <1>2, <1>12, <2>3, <3>1
    <3>3. QED
      BY <3>2 DEF Announced
  <2>5. QED
    BY <1>2, <1>4, <1>6, <1>12, <2>1, <2>2, <2>3, <2>4 DEF OnceInv
<1>14. OnceInv(o)'
  BY <1>2, <1>4 DEF OnceInv
<1>15. QuietInv'
  BY <1>2, <1>4 DEF QuietInv
<1>16. QED
  BY <1>4, <1>10, <1>11, <1>13, <1>14, <1>15 DEF RemovalInv, Ends

\* The other mailer takes a file, skips it, asks for an offset or has it.
LEMMA MailFileStep ==
  ASSUME Types, ChanTypes, RemovalInv, NEW e \in Ends,
         MailTakes(e) \/ MailSkips(e) \/ MailGets(e) \/ MailHasIt(e)
  PROVE  RemovalInv'
<1>1. PICK f : f = Head(chan[e]).f
  OBVIOUS
<1>2. /\ e = mailer /\ chan[e] # <<>> /\ Head(chan[e]).t = "FILE"
      /\ UNCHANGED <<size, mailer, outbox, taken, pc, sender>>
  BY DEF MailTakes, MailSkips, MailGets, MailHasIt, Mail, Next1, setting,
     files
<1>3. f \in Files
  BY <1>1, <1>2, HeadFrame, EndFacts
<1>4. /\ About("GOT", f) \in Frame /\ About("SKIP", f) \in Frame
      /\ About("GOT", f).t = "GOT" /\ About("SKIP", f).t = "SKIP"
      /\ About("GOT", f).f = f /\ About("SKIP", f).f = f
  BY <1>3 DEF About, Frame, Commands
<1>5. CASE MailTakes(e)
  <2>1. CASE Head(chan[e]).off = size[f]
    <3>1. /\ inbox' = [inbox EXCEPT ![e] = @ \cup {f}]
          /\ Answer(e, <<About("GOT", f)>>) /\ UNCHANGED <<rcv, skipped>>
      BY <1>1, <1>5, <2>1 DEF MailTakes
    <3>2. /\ \A d \in Ends : \A g \in Files : Has(d, g) => Has(d, g)'
          /\ Has(e, f)'
      BY <1>2, <3>1 DEF Has, Types
    <3>3. QED
      BY <1>2, <1>3, <1>4, <3>1, <3>2, MailAnswerStep
  <2>2. CASE Head(chan[e]).off # size[f]
    <3>1. /\ rcv' = [rcv EXCEPT ![e] = f] /\ Read(e)
          /\ UNCHANGED <<inbox, skipped>>
      BY <1>1, <1>5, <2>2 DEF MailTakes
    <3>2. ChanCalm
      BY <1>2, <3>1, PlainChan
    <3>3. Calm
      BY <1>2, <3>1, <3>2 DEF Calm, Has, sender, Types
    <3>4. QED
      BY <3>3, CalmStep
  <2>3. QED
    BY <2>1, <2>2
<1>6. CASE MailSkips(e)
  <2>1. /\ skipped' = skipped \cup {f} /\ Answer(e, <<About("SKIP", f)>>)
        /\ rcv' = [rcv EXCEPT ![e] = None] /\ UNCHANGED inbox
    BY <1>1, <1>6 DEF MailSkips
  <2>2. /\ \A d \in Ends : \A g \in Files : Has(d, g) => Has(d, g)'
        /\ f \in skipped' /\ skipped \subseteq skipped'
        /\ \A d \in Ends : d = mailer \/ rcv'[d] = rcv[d]
    BY <1>2, <2>1 DEF Has, Types
  <2>3. QED
    BY <1>2, <1>3, <1>4, <2>1, <2>2, MailAnswerStep
<1>7. CASE MailGets(e)
  <2>1. PICK i \in 0..size[f] :
          Answer(e, <<[t |-> "GET", f |-> f, off |-> i]>>)
    BY <1>1, <1>7 DEF MailGets
  <2>2. rcv' = [rcv EXCEPT ![e] = None] /\ UNCHANGED <<inbox, skipped>>
    BY <1>7 DEF MailGets, files
  <2>3. PICK x : x = [t |-> "GET", f |-> f, off |-> i]
    OBVIOUS
  <2>4. /\ x \in Frame /\ x.t = "GET" /\ x.f = f /\ Answer(e, <<x>>)
    BY <1>3, <2>1, <2>3, EndFacts DEF Frame, Commands, Types
  <2>5. /\ \A d \in Ends : \A g \in Files : Has(d, g) => Has(d, g)'
        /\ \A d \in Ends : d = mailer \/ rcv'[d] = rcv[d]
    BY <1>2, <2>2 DEF Has, Types
  <2>6. QED
    BY <1>2, <1>3, <2>2, <2>4, <2>5, MailAnswerStep
<1>8. CASE MailHasIt(e)
  <2>1. /\ f \in inbox[e] /\ Answer(e, <<About("GOT", f)>>)
        /\ rcv' = [rcv EXCEPT ![e] = None] /\ UNCHANGED <<inbox, skipped>>
    BY <1>1, <1>8 DEF MailHasIt, files
  <2>2. /\ \A d \in Ends : \A g \in Files : Has(d, g) => Has(d, g)'
        /\ Has(e, f)'
        /\ \A d \in Ends : d = mailer \/ rcv'[d] = rcv[d]
    BY <1>2, <2>1 DEF Has, Types
  <2>3. QED
    BY <1>2, <1>3, <1>4, <2>1, <2>2, MailAnswerStep
<1>9. QED
  BY <1>5, <1>6, <1>7, <1>8

\* A new session: nothing is on its way and nothing counts as sent.
LEMMA DialStep ==
  ASSUME Types, RemovalInv, Dial
  PROVE  RemovalInv'
<1>1. /\ UNCHANGED <<mailer, outbox, inbox, taken, skipped>>
      /\ chan' = [e \in Ends |-> <<Cmd("NUL"), Cmd("ADR")>>]
      /\ queue' = [queue EXCEPT !["caller"] = outbox["caller"]]
      /\ sent' = [e \in Ends |-> {}] /\ rcv' = [e \in Ends |-> None]
  BY DEF Dial, setting, files
<1>2. \A s \in Ends : AnswersInv(s) /\ OnceInv(s)
  BY DEF RemovalInv
<1>3. \A e \in Ends : \A f : /\ ~Mentions(chan'[e], "FILE", f)
                             /\ ~Mentions(chan'[e], "GOT", f)
                             /\ ~Mentions(chan'[e], "SKIP", f)
  <2>1. DOMAIN <<Cmd("NUL"), Cmd("ADR")>> = {1, 2}
    OBVIOUS
  <2>2. QED
    BY <1>1, <2>1 DEF Mentions, Cmd
<1>4. \A e \in Ends : Once(chan'[e])
  BY <1>3 DEF Once, Mentions
<1>5. \A e \in Ends : sent'[e] = {} /\ rcv'[e] = None
  BY <1>1
<1>6. \A d, f : Has(d, f)' = Has(d, f)
  BY <1>1 DEF Has
<1>7. ASSUME NEW s \in Ends PROVE AnswersInv(s)'
  BY <1>1, <1>2, <1>3, <1>5, <1>6 DEF AnswersInv
<1>8. ASSUME NEW s \in Ends PROVE OnceInv(s)'
  <2>1. s # mailer /\ Other(s) # mailer => queue'[s] \subseteq outbox[s]
    <3>1. CASE s = "caller"
      BY <1>1, <3>1 DEF Types
    <3>2. CASE s # "caller"
      <4>1. queue'[s] = queue[s]
        BY <1>1, <3>2 DEF Types
      <4>2. QED
        BY <1>2, <4>1 DEF OnceInv
    <3>3. QED
      BY <3>1, <3>2
  <2>2. Other(s) \in Ends
    BY EndFacts
  <2>3. QED
    BY <1>1, <1>3, <1>4, <1>5, <2>1, <2>2 DEF OnceInv
<1>9. QuietInv'
  BY <1>3, <1>5 DEF QuietInv, Ends
<1>10. QED
  BY <1>7, <1>8, <1>9 DEF RemovalInv

\* Every step keeps the invariant.
LEMMA RemovalStep ==
  Types /\ ChanTypes /\ RemovalInv /\ [Next]_vars => RemovalInv'
<1> SUFFICES ASSUME Types, ChanTypes, RemovalInv, [Next]_vars
             PROVE  RemovalInv'
  OBVIOUS
<1>1. ASSUME Dial PROVE RemovalInv'
  BY <1>1, DialStep
<1>2. ASSUME NEW e \in Ends, TakeInterleaved(e) PROVE RemovalInv'
  <2>1. /\ chan[e] # <<>> /\ pc[e] \in {"window", "got"}
        /\ UNCHANGED <<size, mailer, sender>>
    BY <1>2 DEF TakeInterleaved, Interleaved, Next1, Reading, setting
  <2>2. e # mailer
    BY <2>1 DEF Types, EndTypes
  <2>3. pc'["answerer"] \in Early => pc["answerer"] \in Early
    BY <1>2 DEF TakeInterleaved, AfterFrame, Types, Early
  <2>4. CASE Head(chan[e]).t = "FILE" /\ BeginInbound(e)
    BY <2>1, <2>2, <2>3, <2>4, BeginStep
  <2>5. CASE WriteInbound(e, IF e = "caller" THEN Files ELSE {})
    BY <2>1, <2>3, <2>5, InboundStep
  <2>6. QED
    BY <1>2, <2>4, <2>5 DEF TakeInterleaved, Interleaved, Next1
<1>3. ASSUME NEW e \in Ends, ReceiveFile(e) PROVE RemovalInv'
  <2>1. /\ chan[e] # <<>> /\ pc[e] = "receive"
        /\ UNCHANGED <<size, mailer, sender, pc>>
    BY <1>3 DEF ReceiveFile, Next1, setting
  <2>2. e # mailer
    BY <2>1 DEF Types, EndTypes
  <2>3. CASE Head(chan[e]).t = "FILE" /\ BeginInbound(e)
    BY <2>1, <2>2, <2>3, BeginStep
  <2>4. CASE WriteInbound(e, Files)
    BY <2>1, <2>4, InboundStep
  <2>5. QED
    BY <1>3, <2>3, <2>4 DEF ReceiveFile, Next1
<1>4. ASSUME NEW e \in Ends, MailReceives(e) PROVE RemovalInv'
  <2>1. /\ chan[e] # <<>> /\ WriteInbound(e, Files)
        /\ UNCHANGED <<size, mailer, sender, pc>>
    BY <1>4 DEF MailReceives, Next1, setting
  <2>2. QED
    BY <2>1, InboundStep
<1>5. ASSUME NEW e \in Ends, ReceiveEnds(e) PROVE RemovalInv'
  <2>1. CASE e = "caller"
    BY <1>5, <2>1, CalmSteps, CalmStep
  <2>2. CASE e = "answerer"
    BY <1>5, <2>2, ListingStep
  <2>3. QED
    BY <2>1, <2>2 DEF Ends
<1>6. ASSUME NEW e \in Ends,
             \/ HandshakeStep(e) \/ WindowPasses(e) \/ SendData(e)
             \/ DataSent(e) \/ IgnoreFrame(e) \/ SendFails(e) \/ EndBatch(e)
             \/ ReceiveOther(e) \/ ReceiveFails(e) \/ TossAndClose(e)
             \/ MailOther(e) \/ MailData(e) \/ MailEob(e) \/ MailCloses(e)
             \/ MailLeft(e) \/ MailHangs(e) \/ Die(e) \/ Drop
      PROVE  RemovalInv'
  <2>1. Calm
    BY <1>6, CalmSteps
  <2>2. QED
    BY <2>1, CalmStep
<1>7. ASSUME NEW e \in Ends,
             \/ Announce(e) \/ FileDone(e) \/ Restart(e) \/ RemoveSent(e)
      PROVE  RemovalInv'
  BY <1>7, AnnounceStep, FileDoneStep, RestartStep, RemoveStep
<1>8. ASSUME NEW e \in Ends,
             \/ MailTakes(e) \/ MailSkips(e) \/ MailGets(e) \/ MailHasIt(e)
             \/ MailGot(e) \/ MailAnnounces(e)
      PROVE  RemovalInv'
  BY <1>8, MailFileStep, MailGotStep, MailAnnounceStep
<1>9. ASSUME UNCHANGED vars PROVE RemovalInv'
  <2>1. Calm
    BY <1>9 DEF vars, Calm, ChanCalm, Has, files, conn, sender, inbound,
       setting
  <2>2. QED
    BY <2>1, CalmStep
<1>10. "caller" \in Ends
  BY DEF Ends
<1>11. QED
  BY <1>1, <1>2, <1>3, <1>4, <1>5, <1>6, <1>7, <1>8, <1>9, <1>10 DEF Next,
     Step, TransferStep, MailStep

\* What an end no longer keeps the other end has whole, or has skipped, in
\* whatever order frames, deletions, faults and further sessions come.
THEOREM RemovalSafe == Spec => []RemovedWasTaken
<1>1. Init => RemovalInv
  <2> SUFFICES ASSUME Init PROVE RemovalInv
    OBVIOUS
  <2>1. /\ chan = [e \in Ends |-> <<>>] /\ sent = [e \in Ends |-> {}]
        /\ rcv = [e \in Ends |-> None] /\ queue = [e \in Ends |-> {}]
        /\ outbox = [e \in Ends |-> QueuedBy(e)] /\ pc["answerer"] = "done"
    BY DEF Init, Ends
  <2>2. \A e \in Ends : /\ chan[e] = <<>> /\ sent[e] = {} /\ rcv[e] = None
                        /\ queue[e] = {} /\ outbox[e] = QueuedBy(e)
                        /\ Other(e) \in Ends
    BY <2>1, EndFacts
  <2>3. \A e \in Ends : \A t, f : ~Mentions(chan[e], t, f)
    BY <2>2 DEF Mentions
  <2>4. \A e \in Ends : Once(chan[e])
    BY <2>2 DEF Once
  <2>5. ASSUME NEW s \in Ends PROVE AnswersInv(s) /\ OnceInv(s)
    BY <2>2, <2>3, <2>4 DEF AnswersInv, OnceInv
  <2>6. QuietInv
    BY <2>1 DEF QuietInv
  <2>7. QED
    BY <2>5, <2>6 DEF RemovalInv
<1>2. RemovalInv => RemovedWasTaken
  BY DEF RemovalInv, AnswersInv, RemovedWasTaken
<1>3. QED
  BY <1>1, <1>2, TypesHold, RemovalStep, PTL DEF Spec

-----------------------------------------------------------------------------
(* Two VirtBBS nodes, nothing having failed: where a session is.           *)

\* Two VirtBBS nodes, no empty files, and nothing has failed so far.
Faultless ==
  mailer = "none" /\ faults = 0 /\ \A f \in Files : size[f] > 0

\* What comes to an end that receives: the rest of the handshake, M_FILE of f
\* (unless that is None), n frames of data, and M_EOB if over.
Greetings == {"NUL", "ADR", "PWD"}
Stream(q, f, n, over) ==
  \E p \in Nat :
    LET d == IF f = None THEN p ELSE p + 1 IN
    /\ Len(q) = d + n + (IF over THEN 1 ELSE 0)
    /\ \A i \in 1..p : q[i].t \in Greetings
    /\ f # None => q[p + 1].t = "FILE" /\ q[p + 1].f = f
    /\ \A i \in d + 1 .. d + n : q[i].t = "DATA"
    /\ over => q[d + n + 1].t = "EOB"

\* s sends file after file to the other end, which has not been told of the
\* next, has been told of one, has begun it, or has it and has said so.
Sends(s) == pc[s] \in {"send", "window", "data", "got"}
BetweenFiles(s) ==
  /\ pc[s] = "send" /\ chan[s] = <<>> /\ rcv[Other(s)] = None
  /\ Stream(chan[Other(s)], None, 0, FALSE)
Told(s) ==
  /\ chan[s] = <<>> /\ rcv[Other(s)] = None
  /\ Stream(chan[Other(s)], cur[s], off[s], FALSE)
Begun(s) ==
  /\ chan[s] = <<>> /\ rcv[Other(s)] = cur[s] /\ got[Other(s)] <= off[s]
  /\ Stream(chan[Other(s)], None, off[s] - got[Other(s)], FALSE)
Answered(s) ==
  /\ chan[s] = <<About("GOT", cur[s])>> /\ rcv[Other(s)] = None
  /\ off[s] = size[cur[s]] /\ Stream(chan[Other(s)], None, 0, FALSE)
Sending(s) ==
  /\ Sends(s) /\ pc[Other(s)] = "receive"
  /\ up /\ open[s] /\ open[Other(s)] /\ rcv[s] = None
  /\ pc[s] = "window" => off[s] = 0
  /\ pc[s] = "got" => off[s] = size[cur[s]]
  /\ \/ BetweenFiles(s)
     \/ pc[s] # "send" /\ cur[s] # None /\ (Told(s) \/ Begun(s) \/ Answered(s))

\* Before and after: the handshake, the end of the caller's batch, the end of
\* the answerer's, and both ends cleaning up.
NothingOpen == \A e \in Ends : rcv[e] = None
Verdict(e, i) ==
  LET t == chan[e][i].t IN
  \/ t \in {"NUL", "ADR"}
  \/ i = Len(chan[e]) /\ t = "OK" /\ pc[Other(e)] = "receive"
  \/ i = Len(chan[e]) /\ t = "ERR" /\ pc[Other(e)] = "done"
Greeting ==
  /\ pc["caller"] \in {"adr", "auth"} /\ up /\ open["caller"]
  /\ \/ pc["answerer"] \in {"wadr", "wpwd", "receive"} /\ open["answerer"]
     \/ pc["answerer"] = "done"
  /\ Stream(chan["answerer"], None, 0, FALSE)
  /\ \A i \in DOMAIN chan["caller"] : Verdict("caller", i)
Turning ==
  /\ \A e \in Ends : pc[e] = "receive" /\ open[e]
  /\ up /\ chan["caller"] = <<>> /\ Stream(chan["answerer"], None, 0, TRUE)
Leaving ==
  /\ pc["caller"] = "receive" /\ pc["answerer"] \in {"clean", "done"}
  /\ up /\ open["caller"]
  /\ Stream(chan["caller"], None, 0, TRUE) /\ chan["answerer"] = <<>>
Over == \A e \in Ends : pc[e] \in {"clean", "done"}
Stage ==
  \/ \E s \in Ends : Sending(s)
  \/ NothingOpen /\ (Greeting \/ Turning \/ Leaving \/ Over)

\* What the other end has whole is in the session's result, or M_GOT is on
\* its way, and nothing else is there of a file.
Acked(s, f) == Sends(s) /\ f = cur[s] /\ chan[s] # <<>>
InBatch(s) ==
  Sends(s) \/ pc[s] = "clean" \/ (s = "caller" /\ pc[s] = "receive")
ResultInv(s) ==
  /\ \A f \in outbox[s] : Has(Other(s), f) => f \in sent[s] \/ Acked(s, f)
  /\ sent[s] # {} => InBatch(s)
  /\ part[s] \subseteq {rcv[s]} \ {None} /\ torn[s] = {}
NodesInv ==
  Faultless => ~hung /\ Stage /\ \A s \in Ends : ResultInv(s)

\* Reading from a stream.
LEMMA StreamRead ==
  ASSUME NEW q \in Seq(Frame), q # <<>>, NEW f, NEW n \in Nat,
         NEW over \in BOOLEAN, Stream(q, f, n, over)
  PROVE  \/ Head(q).t \in Greetings /\ Stream(Tail(q), f, n, over)
         \/ /\ f # None /\ Head(q).t = "FILE" /\ Head(q).f = f
            /\ Stream(Tail(q), None, n, over)
         \/ /\ f = None /\ n # 0 /\ Head(q).t = "DATA"
            /\ Stream(Tail(q), None, n - 1, over)
         \/ /\ f = None /\ n = 0 /\ over /\ Head(q).t = "EOB"
            /\ Tail(q) = <<>>
<1>1. PICK p \in Nat :
        LET d == IF f = None THEN p ELSE p + 1 IN
        /\ Len(q) = d + n + (IF over THEN 1 ELSE 0)
        /\ \A i \in 1..p : q[i].t \in Greetings
        /\ f # None => q[p + 1].t = "FILE" /\ q[p + 1].f = f
        /\ \A i \in d + 1 .. d + n : q[i].t = "DATA"
        /\ over => q[d + n + 1].t = "EOB"
  BY DEF Stream
<1> DEFINE r == Tail(q)
<1>2. /\ Len(r) = Len(q) - 1 /\ Len(q) \in Nat \ {0} /\ Head(q) = q[1]
      /\ r \in Seq(Frame) /\ \A i \in 1..Len(r) : r[i] = q[i + 1]
  BY HeadTailProperties
<1> HIDE DEF r
<1>3. r = <<>> <=> Len(r) = 0
  BY <1>2, EmptySeq
<1>4. CASE p > 0
  <2>1. p - 1 \in Nat /\ Head(q).t \in Greetings
    BY <1>1, <1>2, <1>4
  <2>2. CASE f = None
    <3>1. /\ Len(r) = (p - 1) + n + (IF over THEN 1 ELSE 0)
          /\ \A i \in 1 .. p - 1 : r[i].t \in Greetings
          /\ \A i \in (p - 1) + 1 .. (p - 1) + n : r[i].t = "DATA"
          /\ over => r[(p - 1) + n + 1].t = "EOB"
      BY <1>1, <1>2, <2>1, <2>2
    <3>2. QED
      BY <2>1, <2>2, <3>1 DEF Stream, r
  <2>3. CASE f # None
    <3>1. /\ Len(r) = (p - 1) + 1 + n + (IF over THEN 1 ELSE 0)
          /\ \A i \in 1 .. p - 1 : r[i].t \in Greetings
          /\ r[(p - 1) + 1].t = "FILE" /\ r[(p - 1) + 1].f = f
          /\ \A i \in (p - 1) + 1 + 1 .. (p - 1) + 1 + n : r[i].t = "DATA"
          /\ over => r[(p - 1) + 1 + n + 1].t = "EOB"
      BY <1>1, <1>2, <2>1, <2>3
    <3>2. QED
      BY <2>1, <2>3, <3>1 DEF Stream, r
  <2>4. QED
    BY <2>2, <2>3
<1>5. CASE p = 0 /\ f # None
  <2>1. /\ Head(q).t = "FILE" /\ Head(q).f = f
        /\ Len(r) = 0 + n + (IF over THEN 1 ELSE 0)
        /\ \A i \in 0 + 1 .. 0 + n : r[i].t = "DATA"
        /\ over => r[0 + n + 1].t = "EOB"
    BY <1>1, <1>2, <1>5
  <2>2. Stream(r, None, n, over)
    BY <2>1 DEF Stream
  <2>3. QED
    BY <1>5, <2>1, <2>2 DEF r
<1>6. CASE p = 0 /\ f = None /\ n # 0
  <2>1. /\ Head(q).t = "DATA" /\ n - 1 \in Nat
        /\ Len(r) = 0 + (n - 1) + (IF over THEN 1 ELSE 0)
        /\ \A i \in 0 + 1 .. 0 + (n - 1) : r[i].t = "DATA"
        /\ over => r[0 + (n - 1) + 1].t = "EOB"
    BY <1>1, <1>2, <1>6
  <2>2. Stream(r, None, n - 1, over)
    BY <2>1 DEF Stream
  <2>3. QED
    BY <1>6, <2>1, <2>2 DEF r
<1>7. CASE p = 0 /\ f = None /\ n = 0
  <2>1. over /\ Head(q).t = "EOB" /\ Len(r) = 0
    BY <1>1, <1>2, <1>7
  <2>2. QED
    BY <1>3, <1>7, <2>1 DEF r
<1>8. QED
  BY <1>4, <1>5, <1>6, <1>7

\* Writing to one.
LEMMA StreamWrite ==
  ASSUME NEW q \in Seq(Frame), NEW f, NEW n \in Nat, NEW x \in Frame,
         Stream(q, f, n, FALSE)
  PROVE  /\ x.t = "DATA" => Stream(q \o <<x>>, f, n + 1, FALSE)
         /\ f = None /\ n = 0 =>
              /\ x.t \in Greetings => Stream(q \o <<x>>, None, 0, FALSE)
              /\ x.t = "FILE" /\ x.f # None
                   => Stream(q \o <<x>>, x.f, 0, FALSE)
              /\ x.t = "EOB" => Stream(q \o <<x>>, None, 0, TRUE)
<1>1. PICK p \in Nat :
        LET d == IF f = None THEN p ELSE p + 1 IN
        /\ Len(q) = d + n + (IF FALSE THEN 1 ELSE 0)
        /\ \A i \in 1..p : q[i].t \in Greetings
        /\ f # None => q[p + 1].t = "FILE" /\ q[p + 1].f = f
        /\ \A i \in d + 1 .. d + n : q[i].t = "DATA"
  BY DEF Stream
<1> DEFINE r == q \o <<x>>
<1>2. /\ Len(q) \in Nat /\ Len(r) = Len(q) + 1 /\ r[Len(q) + 1] = x
      /\ \A i \in 1..Len(q) : r[i] = q[i]
  OBVIOUS
<1> HIDE DEF r
<1>3. ASSUME x.t = "DATA" PROVE Stream(r, f, n + 1, FALSE)
  <2>1. CASE f = None
    <3>1. /\ Len(r) = p + (n + 1)
          /\ \A i \in 1..p : r[i].t \in Greetings
          /\ \A i \in p + 1 .. p + (n + 1) : r[i].t = "DATA"
      BY <1>1, <1>2, <1>3, <2>1
    <3>2. /\ Len(r) = p + (n + 1) + (IF FALSE THEN 1 ELSE 0)
          /\ f # None => r[p + 1].t = "FILE" /\ r[p + 1].f = f
      BY <2>1, <3>1
    <3>3. QED
      BY <2>1, <3>1, <3>2 DEF Stream
  <2>2. CASE f # None
    <3>1. /\ Len(r) = p + 1 + (n + 1)
          /\ \A i \in 1..p : r[i].t \in Greetings
          /\ r[p + 1].t = "FILE" /\ r[p + 1].f = f
      BY <1>1, <1>2, <2>2
    <3>2. ASSUME NEW i \in p + 1 + 1 .. p + 1 + (n + 1) PROVE r[i].t = "DATA"
      <4>1. CASE i = Len(q) + 1
        BY <1>2, <1>3, <4>1
      <4>2. CASE i # Len(q) + 1
        <5>1. i \in p + 1 + 1 .. p + 1 + n /\ i \in 1..Len(q)
          BY <1>1, <2>2, <4>2
        <5>2. QED
          BY <1>1, <1>2, <2>2, <5>1
      <4>3. QED
        BY <4>1, <4>2
    <3>3. Len(r) = p + 1 + (n + 1) + (IF FALSE THEN 1 ELSE 0)
      BY <3>1
    <3>4. QED
      BY <2>2, <3>1, <3>2, <3>3 DEF Stream
  <2>3. QED
    BY <2>1, <2>2
<1>4. ASSUME f = None, n = 0
      PROVE  /\ x.t \in Greetings => Stream(r, None, 0, FALSE)
             /\ x.t = "FILE" /\ x.f # None => Stream(r, x.f, 0, FALSE)
             /\ x.t = "EOB" => Stream(r, None, 0, TRUE)
  <2>1. /\ Len(q) = p /\ Len(r) = p + 1 /\ r[p + 1] = x
        /\ \A i \in 1..p : r[i].t \in Greetings
    BY <1>1, <1>2, <1>4
  <2>2. ASSUME x.t \in Greetings PROVE Stream(r, None, 0, FALSE)
    <3>1. /\ p + 1 \in Nat /\ Len(r) = (p + 1) + 0
          /\ \A i \in 1 .. p + 1 : r[i].t \in Greetings
          /\ \A i \in p + 1 + 1 .. (p + 1) + 0 : r[i].t = "DATA"
      BY <2>1, <2>2
    <3>2. PICK m \in Nat : m = p + 1
      OBVIOUS
    <3>3. /\ Len(r) = m + 0 + (IF FALSE THEN 1 ELSE 0)
          /\ \A i \in 1..m : r[i].t \in Greetings
          /\ \A i \in m + 1 .. m + 0 : r[i].t = "DATA"
      BY <3>1, <3>2
    <3>4. QED
      BY <3>3 DEF Stream
  <2>3. ASSUME x.t = "FILE", x.f # None PROVE Stream(r, x.f, 0, FALSE)
    <3>1. /\ Len(r) = p + 1 + 0
          /\ r[p + 1].t = "FILE" /\ r[p + 1].f = x.f
          /\ \A i \in p + 1 + 1 .. p + 1 + 0 : r[i].t = "DATA"
      BY <2>1, <2>3
    <3>2. QED
      BY <2>1, <2>3, <3>1 DEF Stream
  <2>4. ASSUME x.t = "EOB" PROVE Stream(r, None, 0, TRUE)
    <3>1. /\ Len(r) = p + 0 + 1 /\ r[p + 0 + 1].t = "EOB"
          /\ \A i \in p + 1 .. p + 0 : r[i].t = "DATA"
      BY <2>1, <2>4
    <3>2. QED
      BY <2>1, <3>1 DEF Stream
  <2>5. QED
    BY <2>2, <2>3, <2>4
<1>5. QED
  BY <1>3, <1>4 DEF r

\* Where a session is, from where one end is.
LEMMA StageAt ==
  ASSUME Stage
  PROVE  /\ (pc["caller"] \in {"adr", "auth"}
             \/ pc["answerer"] \in {"wadr", "wpwd"})
              => NothingOpen /\ Greeting
         /\ \A s \in Ends : Sends(s) => Sending(s)
         /\ \A s \in Ends : pc[s] = "receive" =>
              \/ Sending(Other(s))
              \/ NothingOpen /\ s = "answerer" /\ Greeting
              \/ NothingOpen /\ Turning
              \/ NothingOpen /\ s = "caller" /\ Leaving
         /\ \A s \in Ends : pc[s] = "clean" =>
              NothingOpen /\ (Over \/ (s = "answerer" /\ Leaving))
         /\ pc["caller"] = "done" /\ pc["answerer"] = "done" => NothingOpen
<1>1. /\ Ends = {"caller", "answerer"} /\ Other("caller") = "answerer"
      /\ Other("answerer") = "caller"
  BY DEF Ends, Other
<1>2. CASE \E s \in Ends : Sending(s)
  <2>1. PICK s \in Ends : Sending(s)
    BY <1>2
  <2>2. /\ pc[s] \in {"send", "window", "data", "got"}
        /\ pc[Other(s)] = "receive"
    BY <2>1 DEF Sending, Sends
  <2>3. QED
    BY <1>1, <2>1, <2>2 DEF Sends
<1>3. CASE NothingOpen /\ (Greeting \/ Turning \/ Leaving \/ Over)
  <2>1. CASE Greeting
    <3>1. /\ pc["caller"] \in {"adr", "auth"}
          /\ pc["answerer"] \in {"wadr", "wpwd", "receive", "done"}
      BY <2>1 DEF Greeting
    <3>2. QED
      BY <1>1, <1>3, <2>1, <3>1 DEF Sends
  <2>2. CASE Turning
    <3>1. pc["caller"] = "receive" /\ pc["answerer"] = "receive"
      BY <1>1, <2>2 DEF Turning
    <3>2. QED
      BY <1>1, <1>3, <2>2, <3>1 DEF Sends
  <2>3. CASE Leaving
    <3>1. pc["caller"] = "receive" /\ pc["answerer"] \in {"clean", "done"}
      BY <2>3 DEF Leaving
    <3>2. QED
      BY <1>1, <1>3, <2>3, <3>1 DEF Sends
  <2>4. CASE Over
    <3>1. \A s \in Ends : pc[s] \in {"clean", "done"}
      BY <2>4 DEF Over
    <3>2. \A s \in Ends : ~Sends(s) /\ pc[s] # "receive"
      BY <3>1 DEF Sends
    <3>3. /\ pc["caller"] \notin {"adr", "auth"}
          /\ pc["answerer"] \notin {"wadr", "wpwd"}
      BY <1>1, <3>1
    <3>4. NothingOpen /\ Over
      BY <1>3, <2>4
    <3>5. QED
      BY <3>2, <3>3, <3>4
  <2>5. QED
    BY <1>3, <2>1, <2>2, <2>3, <2>4
<1>4. QED
  BY <1>2, <1>3 DEF Stage

\* What a step leaves of a result.
LEMMA ResultStays ==
  ASSUME NEW s \in Ends, ResultInv(s),
         outbox'[s] = outbox[s], sent'[s] = sent[s], part'[s] = part[s],
         torn'[s] = torn[s], rcv'[s] = rcv[s],
         \A f \in outbox[s] : Has(Other(s), f)' => Has(Other(s), f),
         InBatch(s) /\ sent[s] # {} => InBatch(s)',
         \A f \in outbox[s] : Acked(s, f) => Acked(s, f)'
  PROVE  ResultInv(s)'
BY DEF ResultInv

\* A session of two nodes in which nothing has failed.
Situation == Types /\ ChanTypes /\ NodesInv /\ Faultless

\* What that says of the files, the channels and each end.
LEMMA SituationFacts ==
  ASSUME Situation
  PROVE  /\ mailer = "none" /\ ~hung /\ Stage
         /\ \A s \in Ends : ResultInv(s) /\ s # mailer /\ chan[s] \in Seq(Frame)
         /\ pc \in [Ends -> Labels]
         /\ \A f \in Files : size[f] \in Nat \ {0}
         /\ \A s \in Ends : off[s] \in Nat /\ got[s] \in Nat
                            /\ cur[s] \in Files \cup {None}
                            /\ rcv[s] \in Files \cup {None}
                            /\ outbox[s] \subseteq Files
                            /\ queue[s] \subseteq Files
BY EndFacts DEF Situation, NodesInv, Faultless, Types, ChanTypes, Ends

\* A step that leaves the files and the results, and is neither the answer to
\* a file nor the end of a batch.
LEMMA PlainStep ==
  ASSUME Situation, UNCHANGED files, sent' = sent, rcv' = rcv, hung' = hung,
         Stage',
         \A s \in Ends : InBatch(s) /\ sent[s] # {} => InBatch(s)',
         \A s \in Ends : \A f \in outbox[s] : Acked(s, f) => Acked(s, f)'
  PROVE  NodesInv'
<1>1. \A s \in Ends : ResultInv(s)'
  BY SituationFacts, ResultStays DEF files, Has
<1>2. QED
  BY <1>1, SituationFacts DEF NodesInv

\* A session begins.
LEMMA DialNodes == ASSUME Situation, Dial PROVE NodesInv'
<1>1. NothingOpen /\ \A s \in Ends : ResultInv(s) /\ pc[s] = "done"
  BY SituationFacts, StageAt DEF Dial, Ends
<1>2. /\ pc' = [caller |-> "adr", answerer |-> "wadr"] /\ up'
      /\ open' = [e \in Ends |-> TRUE]
      /\ chan' = [e \in Ends |-> <<Cmd("NUL"), Cmd("ADR")>>]
      /\ sent' = [e \in Ends |-> {}] /\ rcv' = [e \in Ends |-> None]
      /\ ~hung' /\ UNCHANGED files
  BY DEF Dial
<1>3. Cmd("NUL").t = "NUL" /\ Cmd("ADR").t = "ADR"
  BY DEF Cmd
<1>4. NothingOpen'
  BY <1>2 DEF NothingOpen
<1>5. Stream(chan'["answerer"], None, 0, FALSE)
  <2> DEFINE q == chan'["answerer"]
  <2>1. Len(q) = 2 /\ q[1].t = "NUL" /\ q[2].t = "ADR"
    BY <1>2, <1>3 DEF Ends
  <2> HIDE DEF q
  <2>2. /\ Len(q) = 2 + 0 + 0 /\ \A i \in 1..2 : q[i].t \in Greetings
        /\ \A i \in 2 + 1 .. 2 + 0 : q[i].t = "DATA"
    BY <2>1 DEF Greetings
  <2>3. QED
    BY <2>2 DEF Stream, q
<1>6. \A i \in DOMAIN chan'["caller"] : Verdict("caller", i)'
  <2>1. chan'["caller"] = <<Cmd("NUL"), Cmd("ADR")>>
    BY <1>2 DEF Ends
  <2>2. \A i \in DOMAIN chan'["caller"] :
          chan'["caller"][i].t \in {"NUL", "ADR"}
    BY <1>3, <2>1
  <2>3. QED
    BY <2>2 DEF Verdict
<1>7. Stage'
  BY <1>2, <1>4, <1>5, <1>6 DEF Stage, Greeting, Ends
<1>8. ASSUME NEW s \in Ends PROVE ResultInv(s)'
  <2>1. sent[s] = {} /\ ~Sends(s)
    BY <1>1 DEF ResultInv, Sends, InBatch
  <2>2. QED
    BY <1>1, <1>2, <2>1 DEF ResultInv, Acked, NothingOpen, files, Has
<1>9. QED
  BY <1>2, <1>7, <1>8 DEF NodesInv

\* The two ends by name.
LEMMA TwoNames ==
  /\ Ends = {"caller", "answerer"} /\ Other("caller") = "answerer"
  /\ Other("answerer") = "caller" /\ "caller" \in Ends /\ "answerer" \in Ends
BY DEF Ends, Other

\* What was said in the handshake is read by the caller.
LEMMA VerdictRead ==
  ASSUME Situation, chan["caller"] # <<>>,
         \A i \in DOMAIN chan["caller"] : Verdict("caller", i)
  PROVE  LET t == Head(chan["caller"]).t  r == Tail(chan["caller"]) IN
         /\ t = "OK" => pc["answerer"] = "receive" /\ r = <<>>
         /\ t = "ERR" => pc["answerer"] = "done"
         /\ chan'["caller"] = r /\ pc'["answerer"] = pc["answerer"]
              => \A i \in DOMAIN chan'["caller"] : Verdict("caller", i)'
<1> DEFINE q == chan["caller"]
           r == Tail(q)
<1>1. q \in Seq(Frame) /\ q # <<>>
  BY SituationFacts, TwoNames
<1>2. /\ Len(r) = Len(q) - 1 /\ Len(q) \in Nat \ {0} /\ Head(q) = q[1]
      /\ r \in Seq(Frame) /\ \A i \in 1..Len(r) : r[i] = q[i + 1]
      /\ DOMAIN r = 1..Len(r) /\ DOMAIN q = 1..Len(q)
  BY <1>1, HeadTailProperties
<1>3. \A i \in 1..Len(q) :
        \/ q[i].t \in {"NUL", "ADR"}
        \/ i = Len(q) /\ q[i].t = "OK" /\ pc["answerer"] = "receive"
        \/ i = Len(q) /\ q[i].t = "ERR" /\ pc["answerer"] = "done"
  BY <1>2, TwoNames DEF Verdict
<1> HIDE DEF r
<1>4. Len(r) = 0 => r = <<>>
  BY <1>2, EmptySeq
<1> HIDE DEF q
<1>5. /\ Head(q).t = "OK" => pc["answerer"] = "receive" /\ r = <<>>
      /\ Head(q).t = "ERR" => pc["answerer"] = "done"
  <2>1. 1 \in 1..Len(q)
    BY <1>2
  <2>2. QED
    BY <1>2, <1>3, <1>4, <2>1
<1>6. \A i \in DOMAIN r :
        \/ r[i].t \in {"NUL", "ADR"}
        \/ i = Len(r) /\ r[i].t = "OK" /\ pc["answerer"] = "receive"
        \/ i = Len(r) /\ r[i].t = "ERR" /\ pc["answerer"] = "done"
  BY <1>2, <1>3
<1>7. ASSUME chan'["caller"] = r, pc'["answerer"] = pc["answerer"]
      PROVE  \A i \in DOMAIN chan'["caller"] : Verdict("caller", i)'
  BY <1>6, <1>7, TwoNames DEF Verdict
<1>8. QED
  BY <1>5, <1>7 DEF q, r

\* A frame that is read only.
LEMMA ReadChan ==
  ASSUME Situation, NEW e \in Ends, Read(e)
  PROVE  chan'[e] = Tail(chan[e]) /\ chan'[Other(e)] = chan[Other(e)]
BY EndFacts DEF Read, Situation, ChanTypes

\* One that is written only.
LEMMA WriteChan ==
  ASSUME Situation, NEW e \in Ends, NEW x, Write(e, <<x>>)
  PROVE  chan'[e] = chan[e] /\ chan'[Other(e)] = chan[Other(e)] \o <<x>>
BY EndFacts DEF Write, Situation, ChanTypes

\* One that is answered.
LEMMA AnswerChan ==
  ASSUME Situation, NEW e \in Ends, NEW x, Answer(e, <<x>>)
  PROVE  /\ chan'[e] = Tail(chan[e])
         /\ chan'[Other(e)] = chan[Other(e)] \o <<x>>
BY EndFacts DEF Answer, Situation, ChanTypes

\* The caller's part of the handshake.
LEMMA CallerGreets ==
  ASSUME Situation,
         \/ CallerAdr \/ CallerOk \/ CallerRefused
         \/ PassOver("caller") \/ HandshakeFails("caller")
  PROVE  NodesInv'
<1> USE TwoNames DEF files, conn, sender, inbound, batch, bounds, setting
<1>1. pc["caller"] \in {"adr", "auth"}
  <2>1. ASSUME PassOver("caller") \/ HandshakeFails("caller")
        PROVE  pc["caller"] \in {"adr", "auth", "wadr", "wpwd"}
    BY <2>1 DEF PassOver, HandshakeFails, Awaited
  <2>2. pc["caller"] \notin {"wadr", "wpwd"}
    BY SituationFacts
       DEF Stage, Sending, Sends, Greeting, Turning, Leaving, Over
  <2>3. QED
    BY <2>1, <2>2 DEF CallerAdr, CallerOk, CallerRefused
<1>2. NothingOpen /\ Greeting
  BY <1>1, SituationFacts, StageAt
<1>3. sent["answerer"] = {} /\ sent["caller"] = {}
  BY <1>1, <1>2, SituationFacts DEF ResultInv, InBatch, Sends, Greeting
<1>4. UNCHANGED <<files, sent, rcv, hung>>
  BY DEF CallerAdr, CallerOk, CallerRefused, PassOver, HandshakeFails
<1>5. \A s \in Ends : sent[s] = {} /\ ~Sends(s)
  BY <1>1, <1>2, <1>3 DEF Sends, Greeting
<1>6. SUFFICES Stage'
  BY <1>4, <1>5, PlainStep DEF Acked
<1>7. NothingOpen'
  BY <1>2, <1>4 DEF NothingOpen
<1>8. CASE CallerAdr
  <2>1. /\ chan["caller"] # <<>> /\ Answer("caller", <<Cmd("PWD")>>)
        /\ pc' = [pc EXCEPT !["caller"] = "auth"] /\ UNCHANGED <<open, up>>
    BY <1>8 DEF CallerAdr, Next1, Goto
  <2>2. Stream(chan'["answerer"], None, 0, FALSE)
    <3>1. Cmd("PWD") \in Frame /\ Cmd("PWD").t = "PWD"
      BY DEF Cmd, Frame, Commands
    <3>2. /\ Stream(chan["answerer"], None, 0, FALSE)
          /\ chan["answerer"] \in Seq(Frame)
          /\ chan'["answerer"] = chan["answerer"] \o <<Cmd("PWD")>>
      BY <1>2, <2>1, AnswerChan, SituationFacts DEF Greeting
    <3>3. "PWD" \in Greetings
      BY DEF Greetings
    <3>4. QED
      BY <3>1, <3>2, <3>3, StreamWrite
  <2>3. pc'["caller"] = "auth" /\ pc'["answerer"] = pc["answerer"]
    BY <2>1, SituationFacts
  <2>4. \A i \in DOMAIN chan'["caller"] : Verdict("caller", i)'
    BY <1>2, <2>1, <2>3, VerdictRead, AnswerChan DEF Greeting
  <2>5. Greeting'
    BY <1>2, <2>1, <2>2, <2>3, <2>4 DEF Greeting
  <2>6. QED
    BY <1>7, <2>5 DEF Stage
<1>9. CASE CallerOk
  <2>1. /\ chan["caller"] # <<>> /\ Head(chan["caller"]).t = "OK"
        /\ Read("caller") /\ UNCHANGED <<open, up>>
        /\ pc' = [pc EXCEPT !["caller"] = "send"]
    BY <1>9, SituationFacts DEF CallerOk, Next1, Begins, Goto
  <2>2. chan'["caller"] = <<>> /\ pc["answerer"] = "receive"
        /\ chan'["answerer"] = chan["answerer"]
    BY <1>2, <2>1, VerdictRead, ReadChan DEF Greeting
  <2>3. pc'["caller"] = "send" /\ pc'["answerer"] = "receive"
    BY <2>1, <2>2, SituationFacts
  <2>4. Sending("caller")'
    BY <1>2, <1>7, <2>1, <2>2, <2>3
       DEF Sending, BetweenFiles, Sends, Greeting, NothingOpen
  <2>5. QED
    BY <2>4 DEF Stage
<1>10. CASE CallerRefused
  <2>1. pc["answerer"] = "done" /\ pc' = [pc EXCEPT !["caller"] = "done"]
    BY <1>2, <1>10, VerdictRead DEF CallerRefused, Next1, Goto, Greeting
  <2>2. QED
    BY <1>7, <2>1, SituationFacts DEF Stage, Over
<1>11. CASE PassOver("caller")
  <2>1. chan["caller"] # <<>> /\ Read("caller") /\ UNCHANGED <<open, up, pc>>
    BY <1>11 DEF PassOver
  <2>2. \A i \in DOMAIN chan'["caller"] : Verdict("caller", i)'
    BY <1>2, <2>1, VerdictRead, ReadChan DEF Greeting
  <2>3. Greeting'
    BY <1>2, <2>1, <2>2, ReadChan DEF Greeting
  <2>4. QED
    BY <1>7, <2>3 DEF Stage
<1>12. CASE HandshakeFails("caller")
  <2>1. Eof("caller") /\ pc' = [pc EXCEPT !["caller"] = "done"]
    BY <1>2, <1>12, SituationFacts
       DEF HandshakeFails, ReadError, Greeting, Fail, Goto
  <2>2. pc["answerer"] = "done"
    BY <1>2, <2>1 DEF Eof, Greeting
  <2>3. QED
    BY <1>7, <2>1, <2>2, SituationFacts DEF Stage, Over
<1>13. QED
  BY <1>8, <1>9, <1>10, <1>11, <1>12

\* The answerer says what it makes of the caller.
LEMMA VerdictWritten ==
  ASSUME Situation, pc["answerer"] \in {"wadr", "wpwd"}, NEW x \in Frame,
         \A i \in DOMAIN chan["caller"] : Verdict("caller", i),
         chan'["caller"] = chan["caller"] \o <<x>>,
         \/ x.t = "OK" /\ pc'["answerer"] = "receive"
         \/ x.t = "ERR" /\ pc'["answerer"] = "done"
  PROVE  \A i \in DOMAIN chan'["caller"] : Verdict("caller", i)'
<1> DEFINE q == chan["caller"]
           r == q \o <<x>>
<1>1. q \in Seq(Frame)
  BY SituationFacts, TwoNames
<1>2. /\ Len(q) \in Nat /\ Len(r) = Len(q) + 1 /\ r[Len(q) + 1] = x
      /\ \A i \in 1..Len(q) : r[i] = q[i]
      /\ DOMAIN q = 1..Len(q) /\ DOMAIN r = 1..Len(r)
  BY <1>1
<1>3. \A i \in 1..Len(q) : q[i].t \in {"NUL", "ADR"}
  BY <1>2, TwoNames DEF Verdict
<1> HIDE DEF r
<1>4. \A i \in DOMAIN r : \/ r[i].t \in {"NUL", "ADR"}
                          \/ i = Len(r) /\ r[i] = x
  BY <1>2, <1>3
<1>5. chan'["caller"] = r
  BY DEF r
<1>6. QED
  BY <1>4, <1>5, TwoNames DEF Verdict

\* The answerer's part of the handshake.
LEMMA AnswererGreets ==
  ASSUME Situation,
         \/ AnswererAdr \/ AnswererPwd
         \/ PassOver("answerer") \/ HandshakeFails("answerer")
  PROVE  NodesInv'
<1> USE TwoNames DEF files, conn, sender, inbound, batch, bounds, setting
<1>1. pc["answerer"] \in {"wadr", "wpwd"}
  <2>1. ASSUME PassOver("answerer") \/ HandshakeFails("answerer")
        PROVE  pc["answerer"] \in {"adr", "auth", "wadr", "wpwd"}
    BY <2>1 DEF PassOver, HandshakeFails, Awaited
  <2>2. pc["answerer"] \notin {"adr", "auth"}
    BY SituationFacts DEF Stage, Sending, Sends, Greeting, Turning, Leaving,
       Over
  <2>3. QED
    BY <2>1, <2>2 DEF AnswererAdr, AnswererPwd
<1>2. NothingOpen /\ Greeting
  BY <1>1, SituationFacts, StageAt
<1>3. sent["answerer"] = {} /\ sent["caller"] = {}
  BY <1>1, <1>2, SituationFacts DEF ResultInv, InBatch, Sends, Greeting
<1>4. UNCHANGED <<files, sent, rcv, hung>>
  BY DEF AnswererAdr, AnswererPwd, Admit, Refuse, PassOver, HandshakeFails
<1>5. \A s \in Ends : sent[s] = {} /\ ~Sends(s)
  BY <1>1, <1>2, <1>3 DEF Sends, Greeting
<1>6. SUFFICES Stage'
  BY <1>4, <1>5, PlainStep DEF Acked
<1>7. NothingOpen'
  BY <1>2, <1>4 DEF NothingOpen
<1>8. /\ Stream(chan["answerer"], None, 0, FALSE) /\ open["caller"] /\ up
      /\ \A i \in DOMAIN chan["caller"] : Verdict("caller", i)
      /\ pc["caller"] \in {"adr", "auth"} /\ open["answerer"]
      /\ chan["answerer"] \in Seq(Frame)
  BY <1>1, <1>2, SituationFacts DEF Greeting
<1>9. chan["answerer"] # <<>> => Stream(Tail(chan["answerer"]), None, 0, FALSE)
  BY <1>8, StreamRead
<1>10. ASSUME chan["answerer"] # <<>>, Read("answerer"), UNCHANGED <<open, up>>,
              pc' = pc \/ pc' = [pc EXCEPT !["answerer"] = "wpwd"]
       PROVE  Stage'
  <2>1. /\ chan'["answerer"] = Tail(chan["answerer"])
        /\ chan'["caller"] = chan["caller"]
    BY <1>10, ReadChan
  <2>2. pc'["caller"] = pc["caller"] /\ pc'["answerer"] \in {"wadr", "wpwd"}
    BY <1>1, <1>10, SituationFacts
  <2>3. \A i \in DOMAIN chan'["caller"] : Verdict("caller", i)'
    BY <1>1, <1>8, <2>1, <2>2 DEF Verdict
  <2>4. Greeting'
    BY <1>8, <1>9, <1>10, <2>1, <2>2, <2>3 DEF Greeting
  <2>5. QED
    BY <1>7, <2>4 DEF Stage
<1>11. ASSUME chan["answerer"] # <<>>, Admit PROVE Stage'
  <2>1. /\ Answer("answerer", <<Cmd("OK")>>) /\ UNCHANGED <<open, up>>
        /\ pc' = [pc EXCEPT !["answerer"] = "receive"]
    BY <1>11, SituationFacts DEF Admit, Begins, Goto
  <2>2. /\ chan'["answerer"] = Tail(chan["answerer"])
        /\ chan'["caller"] = chan["caller"] \o <<Cmd("OK")>>
    BY <2>1, AnswerChan
  <2>3. pc'["caller"] = pc["caller"] /\ pc'["answerer"] = "receive"
    BY <2>1, SituationFacts
  <2>4. Cmd("OK") \in Frame /\ Cmd("OK").t = "OK"
    BY DEF Cmd, Frame, Commands
  <2>5. \A i \in DOMAIN chan'["caller"] : Verdict("caller", i)'
    BY <1>1, <1>8, <2>2, <2>3, <2>4, VerdictWritten
  <2>6. Greeting'
    BY <1>8, <1>9, <1>11, <2>1, <2>2, <2>3, <2>5 DEF Greeting
  <2>7. QED
    BY <1>7, <2>6 DEF Stage
<1>12. ASSUME chan["answerer"] # <<>>, Refuse PROVE Stage'
  <2>1. /\ Answer("answerer", <<Cmd("ERR")>>) /\ UNCHANGED up
        /\ pc' = [pc EXCEPT !["answerer"] = "done"]
        /\ open' = [open EXCEPT !["answerer"] = FALSE]
    BY <1>12 DEF Refuse, Goto
  <2>2. /\ chan'["answerer"] = Tail(chan["answerer"])
        /\ chan'["caller"] = chan["caller"] \o <<Cmd("ERR")>>
    BY <2>1, AnswerChan
  <2>3. pc'["caller"] = pc["caller"] /\ pc'["answerer"] = "done"
        /\ open'["caller"] = open["caller"]
    BY <2>1, SituationFacts DEF Situation, Types
  <2>4. Cmd("ERR") \in Frame /\ Cmd("ERR").t = "ERR"
    BY DEF Cmd, Frame, Commands
  <2>5. \A i \in DOMAIN chan'["caller"] : Verdict("caller", i)'
    BY <1>1, <1>8, <2>2, <2>3, <2>4, VerdictWritten
  <2>6. Greeting'
    BY <1>8, <1>9, <1>12, <2>1, <2>2, <2>3, <2>5 DEF Greeting
  <2>7. QED
    BY <1>7, <2>6 DEF Stage
<1>13. CASE AnswererAdr
  BY <1>10, <1>11, <1>12, <1>13 DEF AnswererAdr, Next1, Goto
<1>14. CASE AnswererPwd
  BY <1>11, <1>12, <1>14 DEF AnswererPwd, Next1
<1>15. CASE PassOver("answerer")
  BY <1>10, <1>15 DEF PassOver
<1>16. CASE HandshakeFails("answerer")
  BY <1>8, <1>16, SituationFacts DEF HandshakeFails, Eof, ReadError
<1>17. QED
  BY <1>13, <1>14, <1>15, <1>16

\* What s knows while it sends: no frame comes but M_GOT.
LEMMA SendingFacts ==
  ASSUME Situation, NEW s \in Ends, Sends(s)
  PROVE  /\ Sending(s) /\ Other(s) \in Ends /\ Other(s) # s
         /\ Other(Other(s)) = s
         /\ pc[s] = "send" => BetweenFiles(s)
         /\ chan[s] # <<>> =>
              /\ Answered(s) /\ pc[s] \in {"data", "got"} /\ cur[s] \in Files
              /\ Head(chan[s]).t = "GOT" /\ Head(chan[s]).f = cur[s]
         /\ ~Eof(s) /\ ~ReadError(s)
<1>1. Sending(s)
  BY SituationFacts, StageAt
<1>2. pc[s] = "send" => BetweenFiles(s)
  BY <1>1 DEF Sending
<1>3. ASSUME chan[s] # <<>>
      PROVE  /\ Answered(s) /\ pc[s] \in {"data", "got"} /\ cur[s] \in Files
             /\ Head(chan[s]).t = "GOT" /\ Head(chan[s]).f = cur[s]
  <2>1. Answered(s) /\ pc[s] # "send" /\ cur[s] # None
    BY <1>1, <1>3 DEF Sending, BetweenFiles, Told, Begun
  <2>2. cur[s] \in Files
    BY <2>1, SituationFacts
  <2>3. off[s] # 0
    BY <2>1, <2>2, SituationFacts DEF Answered
  <2>4. pc[s] \in {"data", "got"}
    BY <1>1, <2>1, <2>3 DEF Sending, Sends
  <2>5. Head(chan[s]) = About("GOT", cur[s])
    BY <2>1 DEF Answered
  <2>6. QED
    BY <2>1, <2>2, <2>4, <2>5 DEF About
<1>4. ~Eof(s) /\ ~ReadError(s)
  BY <1>1, SituationFacts DEF Sending, Eof, ReadError
<1>5. QED
  BY <1>1, <1>2, <1>3, <1>4, EndFacts

\* The next file is announced.
LEMMA AnnounceNodes ==
  ASSUME Situation, NEW s \in Ends, Announce(s)
  PROVE  NodesInv'
<1> DEFINE e == Other(s)
           f == FirstOf(queue[s])
<1>1. /\ pc[s] = "send" /\ queue[s] # {}
      /\ cur' = [cur EXCEPT ![s] = f] /\ off' = [off EXCEPT ![s] = 0]
      /\ Write(s, <<FileFrame(f, 0)>>)
      /\ pc' = [pc EXCEPT ![s] = "window"]
      /\ UNCHANGED <<files, sent, rcv, hung, up, open, got, size>>
  BY DEF Announce, Goto, setting, inbound, batch
<1>2. f \in Files /\ f # None
  <2>1. queue[s] \subseteq Files
    BY SituationFacts
  <2>2. QED
    BY <1>1, <2>1, FirstIn, EndFacts
<1>3. /\ Sending(s) /\ BetweenFiles(s) /\ e \in Ends /\ e # s
      /\ \A d \in Ends : d = s \/ d = e
  BY <1>1, SendingFacts, EndFacts DEF Sends
<1>4. FileFrame(f, 0) \in Frame /\ FileFrame(f, 0).t = "FILE"
      /\ FileFrame(f, 0).f = f
  BY <1>2 DEF FileFrame, Frame, Commands
<1>5. /\ chan'[s] = chan[s] /\ chan'[e] = chan[e] \o <<FileFrame(f, 0)>>
  BY <1>1, WriteChan
<1> HIDE DEF f
<1>6. Stream(chan'[e], f, 0, FALSE)
  <2>1. Stream(chan[e], None, 0, FALSE)
    BY <1>3 DEF BetweenFiles
  <2>2. chan[e] \in Seq(Frame)
    BY <1>3, SituationFacts
  <2>3. QED
    BY <1>2, <1>4, <1>5, <2>1, <2>2, StreamWrite
<1>7. /\ pc'[s] = "window" /\ pc'[e] = pc[e] /\ cur'[s] = f /\ off'[s] = 0
      /\ cur'[e] = cur[e]
  BY <1>1, <1>3 DEF Situation, Types
<1>8. Told(s)'
  BY <1>1, <1>3, <1>5, <1>6, <1>7 DEF Told, BetweenFiles
<1>9. Sending(s)'
  BY <1>1, <1>2, <1>3, <1>7, <1>8 DEF Sending, Sends
<1>10. Stage'
  BY <1>9 DEF Stage
<1>11. \A d \in Ends : /\ InBatch(d) => InBatch(d)'
                        /\ \A g : ~Acked(d, g)
  <2>1. chan[s] = <<>> /\ pc[e] = "receive"
    BY <1>3 DEF BetweenFiles, Sending
  <2>2. QED
    BY <1>3, <1>7, <2>1 DEF InBatch, Acked, Sends
<1>12. QED
  BY <1>1, <1>10, <1>11, PlainStep DEF InBatch, Acked, Sends

\* The window passes, or the next unit is sent, or all are.
LEMMA DataNodes ==
  ASSUME Situation, NEW s \in Ends,
         WindowPasses(s) \/ SendData(s) \/ DataSent(s)
  PROVE  NodesInv'
<1> DEFINE e == Other(s)
<1>1. /\ pc[s] \in {"window", "data"}
      /\ UNCHANGED <<files, sent, rcv, hung, up, open, got, size, cur>>
  BY DEF WindowPasses, SendData, DataSent, setting, sender, inbound, batch, conn
<1>2. /\ Sending(s) /\ e \in Ends /\ e # s /\ \A d \in Ends : d = s \/ d = e
      /\ chan[e] \in Seq(Frame)
  BY <1>1, SendingFacts, SituationFacts, EndFacts DEF Sends
<1>3. /\ cur[s] # None /\ pc[e] = "receive"
      /\ Told(s) \/ Begun(s) \/ Answered(s)
  BY <1>1, <1>2 DEF Sending, BetweenFiles
<1>4. CASE WindowPasses(s) \/ DataSent(s)
  <2>1. /\ UNCHANGED <<chan, off>> /\ pc'[e] = pc[e]
        /\ \/ pc'[s] = "data"
           \/ pc'[s] = "got" /\ off[s] = size[cur[s]]
    BY <1>2, <1>4, SituationFacts
       DEF WindowPasses, DataSent, Goto, sender, conn
  <2>2. Told(s)' \/ Begun(s)' \/ Answered(s)'
    BY <1>1, <1>3, <2>1 DEF Told, Begun, Answered
  <2>3. Sending(s)'
    BY <1>1, <1>2, <1>3, <2>1, <2>2 DEF Sending, Sends
  <2>4. \A d \in Ends : /\ InBatch(d) => InBatch(d)'
                         /\ \A g : Acked(d, g) => Acked(d, g)'
    BY <1>1, <1>2, <1>3, <2>1 DEF InBatch, Acked, Sends
  <2>5. QED
    BY <1>1, <2>3, <2>4, PlainStep DEF Stage, InBatch, Acked, Sends
<1>5. CASE SendData(s)
  <2>1. /\ UNCHANGED pc /\ pc[s] = "data" /\ off[s] < size[cur[s]]
        /\ off'[s] = off[s] + 1 /\ Write(s, <<Cmd("DATA")>>)
    BY <1>5 DEF SendData, Situation, Types
  <2>2. /\ cur[s] \in Files /\ size[cur[s]] \in Nat /\ off[s] \in Nat
        /\ got[e] \in Nat
    BY <1>2, <1>3, SituationFacts
  <2>3. ~Answered(s)
    <3>1. Answered(s) => off[s] = size[cur[s]]
      BY DEF Answered
    <3>2. off[s] < size[cur[s]]
      BY <2>1
    <3>3. QED
      BY <2>2, <3>1, <3>2
  <2>4. Cmd("DATA") \in Frame /\ Cmd("DATA").t = "DATA"
    BY DEF Cmd, Frame, Commands
  <2>5. chan'[s] = chan[s] /\ chan'[e] = chan[e] \o <<Cmd("DATA")>>
    BY <2>1, WriteChan
  <2>6. ASSUME Told(s) PROVE Told(s)'
    <3>1. Stream(chan[e], cur[s], off[s], FALSE)
      BY <2>6 DEF Told
    <3>2. Stream(chan[e] \o <<Cmd("DATA")>>, cur[s], off[s] + 1, FALSE)
      BY <1>2, <2>2, <2>4, <3>1, StreamWrite
    <3>3. QED
      BY <1>1, <2>1, <2>5, <2>6, <3>2 DEF Told
  <2>7. ASSUME Begun(s) PROVE Begun(s)'
    <3>1. /\ Stream(chan[e], None, off[s] - got[e], FALSE)
          /\ got[e] <= off[s]
      BY <2>7 DEF Begun
    <3>2. /\ off[s] - got[e] \in Nat /\ got[e] <= off[s] + 1
          /\ (off[s] - got[e]) + 1 = (off[s] + 1) - got[e]
      BY <2>2, <3>1
    <3>3. Stream(chan[e] \o <<Cmd("DATA")>>, None, (off[s] - got[e]) + 1, FALSE)
      BY <1>2, <2>4, <3>1, <3>2, StreamWrite
    <3>4. QED
      BY <1>1, <2>1, <2>5, <2>7, <3>2, <3>3 DEF Begun
  <2>8. Told(s)' \/ Begun(s)'
    BY <1>3, <2>3, <2>6, <2>7
  <2>9. Sending(s)'
    BY <1>1, <1>2, <1>3, <2>1, <2>8 DEF Sending, Sends
  <2>10. chan[s] = <<>>
    BY <1>3, <2>3 DEF Told, Begun
  <2>11. \A d \in Ends : /\ InBatch(d) => InBatch(d)'
                          /\ \A g : ~Acked(d, g)
    BY <1>2, <1>3, <2>1, <2>10 DEF InBatch, Acked, Sends
  <2>12. QED
    BY <1>1, <2>9, <2>11, PlainStep DEF Stage, InBatch, Acked, Sends
<1>6. QED
  BY <1>4, <1>5

\* What an end knows while it receives: whatever comes is of the stream.
LEMMA ReceivingFacts ==
  ASSUME Situation, NEW e \in Ends, pc[e] = "receive"
  PROVE  ~Eof(e) /\ ~ReadError(e) /\ ~BadFile(e)
<1> USE TwoNames
<1>1. \/ Sending(Other(e))
      \/ NothingOpen /\ e = "answerer" /\ Greeting
      \/ NothingOpen /\ Turning
      \/ NothingOpen /\ e = "caller" /\ Leaving
  BY SituationFacts, StageAt
<1>2. up /\ (open[Other(e)] \/ chan[e] # <<>>)
  <2>1. CASE Sending(Other(e))
    BY <2>1, EndFacts DEF Sending
  <2>2. CASE e = "answerer" /\ Greeting
    BY <2>2 DEF Greeting
  <2>3. CASE Turning
    BY <2>3 DEF Turning
  <2>4. CASE e = "caller" /\ Leaving
    <3>1. Stream(chan[e], None, 0, TRUE) /\ up
      BY <2>4 DEF Leaving
    <3>2. ~Stream(<<>>, None, 0, TRUE)
      BY DEF Stream
    <3>3. QED
      BY <3>1, <3>2
  <2>5. QED
    BY <1>1, <2>1, <2>2, <2>3, <2>4
<1>3. ~BadFile(e)
  BY SituationFacts, HeadFrame, EndFacts DEF BadFile, Next1, Situation
<1>4. QED
  BY <1>2, <1>3, SituationFacts DEF Eof, ReadError

\* Nothing fails, and no file comes to who is sending.
LEMMA NothingFails ==
  ASSUME Situation, NEW e \in Ends
  PROVE  /\ ~TakeInterleaved(e) /\ ~IgnoreFrame(e) /\ ~Restart(e)
         /\ ~SendFails(e) /\ ~ReceiveFails(e) /\ ~MailStep(e)
<1>1. ~MailStep(e)
  BY SituationFacts
     DEF MailStep, MailTakes, MailSkips, MailGets, MailHasIt, MailReceives,
         MailGot, MailOther, MailAnnounces, MailData, MailEob, MailCloses,
         MailLeft, Mail
<1>2. ~ReceiveFails(e)
  BY ReceivingFacts DEF ReceiveFails
<1>3. ASSUME Reading(e)
      PROVE  ~Eof(e) /\ ~ReadError(e) /\ (chan[e] # <<>> =>
               /\ Head(chan[e]).t = "GOT" /\ Head(chan[e]).f = cur[e]
               /\ pc[e] = "got")
  BY <1>3, SendingFacts DEF Reading, Sends
<1>4. ~TakeInterleaved(e)
  BY <1>3 DEF TakeInterleaved, Interleaved, Next1, BeginInbound
<1>5. ~IgnoreFrame(e)
  BY <1>3 DEF IgnoreFrame
<1>6. ~Restart(e)
  BY <1>3 DEF Restart, Next1
<1>7. ~SendFails(e)
  BY <1>3 DEF SendFails, BadFile, Next1
<1>8. QED
  BY <1>1, <1>2, <1>4, <1>5, <1>6, <1>7

\* M_GOT is read: the file is in the result.
LEMMA FileDoneNodes ==
  ASSUME Situation, NEW s \in Ends, FileDone(s)
  PROVE  NodesInv'
<1> DEFINE e == Other(s)
<1>1. /\ pc[s] \in {"window", "got"} /\ chan[s] # <<>>
      /\ sent' = [sent EXCEPT ![s] = @ \cup {cur[s]}] /\ Read(s)
      /\ pc' = [pc EXCEPT ![s] = "send"]
      /\ UNCHANGED <<outbox, inbox, part, taken, torn, rcv, hung, up, open,
                     cur>>
  BY DEF FileDone, Goto, Next1, Reading, files, inbound, batch, setting
<1>2. /\ Sending(s) /\ Answered(s) /\ e \in Ends /\ e # s
      /\ \A d \in Ends : d = s \/ d = e
  BY <1>1, SendingFacts, EndFacts DEF Sends
<1>3. chan'[s] = <<>> /\ chan'[e] = chan[e]
  <2>1. chan'[s] = Tail(chan[s]) /\ chan'[e] = chan[e]
    BY <1>1, ReadChan
  <2>2. chan[s] = <<About("GOT", cur[s])>>
    BY <1>2 DEF Answered
  <2>3. Tail(<<About("GOT", cur[s])>>) = <<>>
    OBVIOUS
  <2>4. QED
    BY <2>1, <2>2, <2>3
<1>4. /\ pc'[s] = "send" /\ pc'[e] = pc[e] /\ sent'[e] = sent[e]
      /\ sent'[s] = sent[s] \cup {cur[s]}
  BY <1>1, <1>2 DEF Situation, Types
<1>5. rcv[e] = None /\ Stream(chan[e], None, 0, FALSE) /\ pc[e] = "receive"
  BY <1>2 DEF Answered, Sending
<1>6. BetweenFiles(s)'
  BY <1>1, <1>3, <1>4, <1>5 DEF BetweenFiles
<1>7. Sending(s)'
  BY <1>1, <1>2, <1>4, <1>6 DEF Sending, Sends
<1>8. ResultInv(s)'
  <2>1. ResultInv(s)
    BY SituationFacts
  <2>2. \A f \in outbox[s] : Has(e, f) => f \in sent[s] \cup {cur[s]}
    BY <2>1 DEF ResultInv, Acked
  <2>3. QED
    BY <1>1, <1>4, <2>1, <2>2 DEF ResultInv, InBatch, Sends, Has
<1>9. ResultInv(e)'
  <2>1. ResultInv(e) /\ ~Sends(e)
    BY <1>2, <1>5, SituationFacts DEF Sends
  <2>2. QED
    BY <1>1, <1>2, <1>4, <2>1 DEF ResultInv, InBatch, Sends, Has, Acked
<1>10. QED
  BY <1>1, <1>2, <1>7, <1>8, <1>9, SituationFacts DEF NodesInv, Stage

\* The batch ends with M_EOB.
LEMMA EndBatchNodes ==
  ASSUME Situation, NEW s \in Ends, EndBatch(s)
  PROVE  NodesInv'
<1> DEFINE e == Other(s)
<1> USE TwoNames
<1>1. /\ pc[s] = "send" /\ Write(s, <<Cmd("EOB")>>)
      /\ IF s = "caller"
           THEN /\ pc' = [pc EXCEPT ![s] = "receive"]
                /\ rcv' = [rcv EXCEPT ![s] = None]
           ELSE pc' = [pc EXCEPT ![s] = "clean"] /\ rcv' = rcv
      /\ UNCHANGED files /\ sent' = sent /\ hung' = hung
      /\ UNCHANGED <<up, open>>
  BY DEF EndBatch, Goto, batch
<1>2. /\ Sending(s) /\ BetweenFiles(s) /\ e \in Ends /\ e # s
      /\ \A d \in Ends : d = s \/ d = e
      /\ chan[e] \in Seq(Frame)
  BY <1>1, SendingFacts, SituationFacts, EndFacts DEF Sends
<1>3. Stream(chan'[e], None, 0, TRUE) /\ chan'[s] = <<>>
  <2>1. /\ chan'[s] = chan[s] /\ chan'[e] = chan[e] \o <<Cmd("EOB")>>
    BY <1>1, WriteChan
  <2>2. Cmd("EOB") \in Frame /\ Cmd("EOB").t = "EOB"
    BY DEF Cmd, Frame, Commands
  <2>3. Stream(chan[e], None, 0, FALSE) /\ chan[s] = <<>>
    BY <1>2 DEF BetweenFiles
  <2>4. QED
    BY <1>2, <2>1, <2>2, <2>3, StreamWrite
<1>4. rcv[s] = None /\ rcv[e] = None /\ pc[e] = "receive"
  BY <1>2 DEF Sending, BetweenFiles
<1>5. /\ rcv' = rcv /\ pc'[e] = pc[e]
      /\ pc'[s] = (IF s = "caller" THEN "receive" ELSE "clean")
  BY <1>1, <1>2, <1>4 DEF Situation, Types
<1>6. NothingOpen'
  BY <1>2, <1>4, <1>5 DEF NothingOpen
<1>7. CASE s = "caller"
  <2>1. Turning'
    BY <1>1, <1>2, <1>3, <1>4, <1>5, <1>7 DEF Turning, Sending
  <2>2. QED
    BY <1>1, <1>2, <1>4, <1>5, <1>6, <1>7, <2>1, PlainStep
       DEF Stage, InBatch, Acked, Sends, BetweenFiles
<1>8. CASE s = "answerer"
  <2>1. Leaving'
    BY <1>1, <1>2, <1>3, <1>4, <1>5, <1>8 DEF Leaving, Sending
  <2>2. QED
    BY <1>1, <1>2, <1>4, <1>5, <1>6, <1>8, <2>1, PlainStep
       DEF Stage, InBatch, Acked, Sends, BetweenFiles
<1>9. QED
  BY <1>7, <1>8

\* A frame that comes to an end that receives belongs to the file announced to
\* it, and is the end of the batch only if the other has ended it.
LEMMA NextFrame ==
  ASSUME Situation, NEW e \in Ends, pc[e] = "receive", chan[e] # <<>>
  PROVE  LET x == Head(chan[e])  q == Tail(chan[e])  s == Other(e) IN
         \/ /\ x.t \in Greetings
            /\ \A f : \A n \in Nat : \A over \in BOOLEAN :
                 Stream(chan[e], f, n, over) => Stream(q, f, n, over)
         \/ /\ x.t = "FILE" /\ Sending(s) /\ Told(s)
            /\ pc[s] # "send" /\ cur[s] # None
            /\ x.f = cur[s] /\ Stream(q, None, off[s], FALSE)
         \/ /\ x.t = "DATA" /\ Sending(s) /\ Begun(s)
            /\ pc[s] # "send" /\ cur[s] # None
            /\ off[s] - got[e] \in Nat \ {0}
            /\ Stream(q, None, (off[s] - got[e]) - 1, FALSE)
         \/ /\ x.t = "EOB" /\ q = <<>> /\ NothingOpen
            /\ IF e = "caller" THEN Leaving ELSE Turning
<1> DEFINE x == Head(chan[e])
           q == Tail(chan[e])
           s == Other(e)
<1> USE TwoNames
<1>1. \/ Sending(s)
      \/ NothingOpen /\ e = "answerer" /\ Greeting
      \/ NothingOpen /\ Turning
      \/ NothingOpen /\ e = "caller" /\ Leaving
  BY SituationFacts, StageAt
<1>2. /\ chan[e] \in Seq(Frame) /\ s \in Ends /\ Other(s) = e
      /\ off[s] \in Nat /\ got[e] \in Nat
  BY SituationFacts, EndFacts
<1>3. ASSUME NEW f, NEW n \in Nat, NEW over \in BOOLEAN,
             Stream(chan[e], f, n, over)
      PROVE  \/ x.t \in Greetings /\ Stream(q, f, n, over)
             \/ /\ f # None /\ x.t = "FILE" /\ x.f = f
                /\ Stream(q, None, n, over)
             \/ /\ f = None /\ n # 0 /\ x.t = "DATA"
                /\ Stream(q, None, n - 1, over)
             \/ f = None /\ n = 0 /\ over /\ x.t = "EOB" /\ q = <<>>
  BY <1>2, <1>3, StreamRead
<1> HIDE DEF x, q, s
<1>4. CASE x.t \in Greetings
  <2>1. x.t \notin {"FILE", "DATA", "EOB"}
    BY <1>4 DEF Greetings
  <2>2. ASSUME NEW f, NEW n \in Nat, NEW over \in BOOLEAN,
               Stream(chan[e], f, n, over)
        PROVE  Stream(q, f, n, over)
    BY <1>3, <2>1, <2>2
  <2>3. QED
    BY <1>4, <2>2 DEF x, q
<1>5. CASE x.t \notin Greetings
  <2>1. CASE Sending(s)
    <3>1. \/ BetweenFiles(s)
          \/ /\ pc[s] # "send" /\ cur[s] # None
             /\ Told(s) \/ Begun(s) \/ Answered(s)
      BY <2>1 DEF Sending
    <3>2. ASSUME Stream(chan[e], None, 0, FALSE) PROVE FALSE
      BY <1>3, <1>5, <3>2
    <3>3. CASE pc[s] # "send" /\ cur[s] # None /\ Told(s)
      <4>1. Stream(chan[e], cur[s], off[s], FALSE)
        BY <1>2, <3>3 DEF Told
      <4>2. x.t = "FILE" /\ x.f = cur[s] /\ Stream(q, None, off[s], FALSE)
        BY <1>2, <1>3, <1>5, <3>3, <4>1
      <4>3. QED
        BY <2>1, <3>3, <4>2 DEF x, q, s
    <3>4. CASE pc[s] # "send" /\ cur[s] # None /\ Begun(s)
      <4>1. /\ Stream(chan[e], None, off[s] - got[e], FALSE)
            /\ got[e] <= off[s]
        BY <1>2, <3>4 DEF Begun
      <4>2. off[s] - got[e] \in Nat
        BY <1>2, <4>1
      <4>3. /\ x.t = "DATA" /\ off[s] - got[e] # 0
            /\ Stream(q, None, (off[s] - got[e]) - 1, FALSE)
        BY <1>3, <1>5, <4>1, <4>2
      <4>4. QED
        BY <2>1, <3>4, <4>2, <4>3 DEF x, q, s
    <3>5. QED
      BY <1>2, <3>1, <3>2, <3>3, <3>4 DEF BetweenFiles, Answered
  <2>2. CASE NothingOpen /\ e = "answerer" /\ Greeting
    <3>1. Stream(chan[e], None, 0, FALSE)
      BY <2>2 DEF Greeting
    <3>2. QED
      BY <1>3, <1>5, <3>1
  <2>3. CASE NothingOpen /\ Turning
    <3>1. e = "answerer" /\ Stream(chan[e], None, 0, TRUE)
      BY <2>3 DEF Turning
    <3>2. x.t = "EOB" /\ q = <<>>
      BY <1>3, <1>5, <3>1
    <3>3. QED
      BY <2>3, <3>1, <3>2 DEF x, q
  <2>4. CASE NothingOpen /\ e = "caller" /\ Leaving
    <3>1. Stream(chan[e], None, 0, TRUE)
      BY <2>4 DEF Leaving
    <3>2. x.t = "EOB" /\ q = <<>>
      BY <1>3, <1>5, <3>1
    <3>3. QED
      BY <2>4, <3>2 DEF x, q
  <2>5. QED
    BY <1>1, <2>1, <2>2, <2>3, <2>4
<1>6. QED
  BY <1>4, <1>5

\* A file begins, goes on or is complete.
LEMMA ReceiveNodes ==
  ASSUME Situation, NEW e \in Ends, ReceiveFile(e)
  PROVE  NodesInv'
<1> DEFINE s == Other(e)
<1>1. /\ pc[e] = "receive" /\ chan[e] # <<>>
      /\ Head(chan[e]).t \in {"FILE", "DATA"}
      /\ UNCHANGED <<setting, up, open, pc, cur, off, sent, hung>>
  BY DEF ReceiveFile, Next1, sender, batch
<1>2. /\ s \in Ends /\ s # e /\ Other(s) = e
      /\ \A d \in Ends : d = s \/ d = e
      /\ \A d \in Ends : ResultInv(d) /\ off[d] \in Nat /\ got[d] \in Nat
      /\ cur[s] \in Files \cup {None}
  BY EndFacts, SituationFacts
<1>3. Head(chan[e]).t \notin Greetings /\ Head(chan[e]).t # "EOB"
  BY <1>1 DEF Greetings
<1>4. /\ Sending(s) /\ chan[s] = <<>> /\ cur[s] # None /\ pc[s] # "send"
      /\ rcv[s] = None /\ Sends(s)
  <2>1. /\ Sending(s) /\ cur[s] # None /\ pc[s] # "send"
        /\ Told(s) \/ Begun(s)
    BY <1>1, <1>3, NextFrame
  <2>2. QED
    BY <2>1 DEF Sending, Told, Begun
<1>5. /\ rcv \in [Ends -> Files \cup {None}] /\ got \in [Ends -> Nat]
      /\ inbox \in [Ends -> SUBSET Files] /\ part \in [Ends -> SUBSET Files]
      /\ chan \in [Ends -> Seq(Frame)]
  BY DEF Situation, Types, ChanTypes
<1>6. \A d \in Ends : /\ InBatch(d) => InBatch(d)'
                      /\ Sends(d) => Sends(d)'
                      /\ cur'[d] = cur[d] /\ sent'[d] = sent[d]
  BY <1>1 DEF InBatch, Sends
<1>7. CASE Head(chan[e]).t = "FILE"
  <2>1. /\ Told(s) /\ Head(chan[e]).f = cur[s]
        /\ Stream(Tail(chan[e]), None, off[s], FALSE)
    BY <1>1, <1>3, <1>7, NextFrame
  <2>2. BeginInbound(e)
    BY <1>7 DEF ReceiveFile, Next1
  <2>3. /\ rcv' = [rcv EXCEPT ![e] = cur[s]] /\ got' = [got EXCEPT ![e] = 0]
        /\ part' = [part EXCEPT ![e] = @ \cup {cur[s]}]
        /\ inbox' = [inbox EXCEPT ![e] = @ \ {cur[s]}]
        /\ Read(e) /\ UNCHANGED <<outbox, taken, torn>>
    BY <2>1, <2>2 DEF BeginInbound
  <2>4. /\ chan'[e] = Tail(chan[e]) /\ chan'[s] = <<>>
        /\ rcv'[e] = cur[s] /\ got'[e] = 0 /\ rcv'[s] = None
        /\ part'[e] = part[e] \cup {cur[s]} /\ part'[s] = part[s]
        /\ \A d \in Ends : inbox'[d] \subseteq inbox[d]
    BY <1>2, <1>4, <1>5, <2>3, ReadChan
  <2>5. Begun(s)'
    <3>1. off[s] - 0 = off[s] /\ 0 <= off[s]
      BY <1>2
    <3>2. QED
      BY <1>1, <1>2, <2>1, <2>4, <3>1 DEF Begun
  <2>6. Sending(s)'
    BY <1>1, <1>2, <1>4, <2>4, <2>5 DEF Sending, Sends, setting
  <2>7. ResultInv(e)'
    <3>1. rcv[e] = None /\ ~Sends(e)
      BY <1>1, <1>2, <2>1 DEF Told, Sends
    <3>2. QED
      BY <1>1, <1>2, <1>4, <2>3, <2>4, <3>1
         DEF ResultInv, Acked, Has, InBatch, Sends
  <2>8. ResultInv(s)'
    BY <1>1, <1>2, <1>4, <2>3, <2>4 DEF ResultInv, Acked, Has, InBatch, Sends
  <2>9. QED
    BY <1>1, <1>2, <2>6, <2>7, <2>8, SituationFacts DEF NodesInv, Stage
<1>8. CASE Head(chan[e]).t = "DATA"
  <2>1. /\ Begun(s) /\ off[s] - got[e] \in Nat \ {0}
        /\ Stream(Tail(chan[e]), None, (off[s] - got[e]) - 1, FALSE)
    BY <1>1, <1>3, <1>8, NextFrame
  <2>2. rcv[e] = cur[s] /\ cur[s] \in Files /\ size[cur[s]] \in Nat
    BY <1>2, <1>4, <2>1, SituationFacts DEF Begun
  <2>3. WriteInbound(e, Files)
    BY <1>8 DEF ReceiveFile, Next1
  <2>4. CASE got[e] + 1 < size[rcv[e]]
    <3>1. /\ got' = [got EXCEPT ![e] = @ + 1] /\ Read(e)
          /\ UNCHANGED files /\ rcv' = rcv
      BY <1>2, <1>4, <2>2, <2>3, <2>4 DEF WriteInbound
    <3>2. /\ chan'[e] = Tail(chan[e]) /\ chan'[s] = <<>>
          /\ got'[e] = got[e] + 1
      BY <1>2, <1>4, <1>5, <3>1, ReadChan
    <3>3. /\ (off[s] - got[e]) - 1 = off[s] - (got[e] + 1)
          /\ got[e] + 1 <= off[s]
      BY <1>2, <2>1
    <3>4. Begun(s)'
      BY <1>1, <1>2, <2>1, <2>2, <3>1, <3>2, <3>3 DEF Begun
    <3>5. Sending(s)'
      BY <1>1, <1>2, <1>4, <3>1, <3>4 DEF Sending, Sends, setting
    <3>6. \A d \in Ends : \A f : ~Acked(d, f)
      <4>1. chan[s] = <<>> /\ ~Sends(e)
        BY <1>1, <1>4 DEF Sends
      <4>2. QED
        BY <1>2, <4>1 DEF Acked
    <3>7. QED
      BY <1>1, <1>2, <1>6, <3>1, <3>5, <3>6, PlainStep
         DEF Stage, InBatch, Acked, Sends
  <2>5. CASE got[e] + 1 >= size[rcv[e]]
    <3>1. ~(got[e] + 1 < size[rcv[e]])
      BY <1>2, <2>2, <2>5
    <3>2. /\ inbox' = [inbox EXCEPT ![e] = @ \cup {cur[s]}]
          /\ part' = [part EXCEPT ![e] = @ \ {cur[s]}]
          /\ Answer(e, <<About("GOT", cur[s])>>)
          /\ rcv' = [rcv EXCEPT ![e] = None]
          /\ UNCHANGED <<outbox, taken, torn>>
      BY <1>4, <2>2, <2>3, <3>1 DEF WriteInbound
    <3>3. /\ chan'[e] = Tail(chan[e])
          /\ chan'[s] = <<>> \o <<About("GOT", cur[s])>>
      BY <1>2, <1>4, <3>2, AnswerChan
    <3>4. <<>> \o <<About("GOT", cur[s])>> = <<About("GOT", cur[s])>>
      OBVIOUS
    <3>5. /\ rcv'[e] = None /\ rcv'[s] = None
          /\ part'[e] = part[e] \ {cur[s]} /\ part'[s] = part[s]
          /\ inbox'[e] = inbox[e] \cup {cur[s]} /\ inbox'[s] = inbox[s]
      BY <1>2, <1>4, <1>5, <3>2
    <3>6. off[s] = size[cur[s]] /\ (off[s] - got[e]) - 1 = 0
      <4>1. off[s] <= size[cur[s]]
        BY <1>2, <1>4 DEF Situation, Types, EndTypes
      <4>2. QED
        BY <1>2, <2>1, <2>2, <2>5, <4>1
    <3>7. Answered(s)'
      BY <1>1, <1>2, <2>1, <3>3, <3>4, <3>5, <3>6 DEF Answered, setting
    <3>8. Sending(s)'
      BY <1>1, <1>2, <1>4, <3>5, <3>7 DEF Sending, Sends, setting
    <3>9. ResultInv(e)'
      <4>1. ~Sends(e)
        BY <1>1 DEF Sends
      <4>2. \A f : Has(s, f)' <=> Has(s, f)
        BY <3>2, <3>5 DEF Has
      <4>3. QED
        BY <1>1, <1>2, <2>2, <3>2, <3>5, <4>1, <4>2
           DEF ResultInv, Acked, InBatch, Sends
    <3>10. ResultInv(s)'
      <4>1. chan'[s] # <<>> /\ Sends(s)'
        BY <1>1, <1>4, <3>3, <3>4 DEF Sends
      <4>2. \A f : Has(e, f)' <=> Has(e, f) \/ f = cur[s]
        BY <3>2, <3>5 DEF Has
      <4>3. \A f : ~Acked(s, f)
        BY <1>4 DEF Acked
      <4>4. QED
        BY <1>1, <1>2, <1>4, <3>2, <3>5, <4>1, <4>2, <4>3
           DEF ResultInv, Acked, InBatch, Sends
    <3>11. QED
      BY <1>1, <1>2, <3>8, <3>9, <3>10, SituationFacts DEF NodesInv, Stage
  <2>6. QED
    BY <1>2, <2>2, <2>4, <2>5
<1>9. QED
  BY <1>1, <1>7, <1>8

\* What is left of the handshake is passed over.
LEMMA ReceiveOtherNodes ==
  ASSUME Situation, NEW e \in Ends, ReceiveOther(e)
  PROVE  NodesInv'
<1> DEFINE s == Other(e)
<1> USE TwoNames
<1>1. /\ pc[e] = "receive" /\ chan[e] # <<>> /\ Read(e)
      /\ Head(chan[e]).t \notin {"FILE", "DATA", "EOB"}
      /\ UNCHANGED files /\ sent' = sent /\ rcv' = rcv /\ hung' = hung
      /\ UNCHANGED <<size, up, open, pc, cur, off, got>>
  BY DEF ReceiveOther, setting, sender, inbound, batch
<1>2. /\ s \in Ends /\ s # e /\ Other(s) = e
      /\ \A d \in Ends : d = s \/ d = e
      /\ off[s] \in Nat /\ got[e] \in Nat
  BY EndFacts, SituationFacts
<1>3. /\ chan'[e] = Tail(chan[e]) /\ chan'[s] = chan[s]
      /\ \A f : \A n \in Nat : \A over \in BOOLEAN :
           Stream(chan[e], f, n, over) => Stream(chan'[e], f, n, over)
  BY <1>1, NextFrame, ReadChan
<1>4. \/ Sending(s)
      \/ NothingOpen /\ e = "answerer" /\ Greeting
      \/ NothingOpen /\ Turning
      \/ NothingOpen /\ e = "caller" /\ Leaving
  BY <1>1, SituationFacts, StageAt
<1>5. NothingOpen => NothingOpen'
  BY <1>1 DEF NothingOpen
<1>6. ASSUME Sending(s) PROVE Stage'
  <2>1. BetweenFiles(s) => BetweenFiles(s)'
    BY <1>1, <1>2, <1>3 DEF BetweenFiles
  <2>2. Told(s) => Told(s)'
    BY <1>1, <1>2, <1>3 DEF Told
  <2>3. Begun(s) => Begun(s)'
    <3>1. Begun(s) => off[s] - got[e] \in Nat
      BY <1>2 DEF Begun
    <3>2. QED
      BY <1>1, <1>2, <1>3, <3>1 DEF Begun
  <2>4. Answered(s) => Answered(s)'
    BY <1>1, <1>2, <1>3 DEF Answered
  <2>5. Sending(s)'
    BY <1>1, <1>6, <2>1, <2>2, <2>3, <2>4 DEF Sending, Sends
  <2>6. QED
    BY <1>2, <2>5 DEF Stage
<1>7. ASSUME NothingOpen, e = "answerer", Greeting PROVE Stage'
  <2>1. \A i \in DOMAIN chan'["caller"] : Verdict("caller", i)'
    BY <1>1, <1>2, <1>3, <1>7 DEF Greeting, Verdict
  <2>2. Greeting'
    BY <1>1, <1>3, <1>7, <2>1 DEF Greeting
  <2>3. QED
    BY <1>5, <1>7, <2>2 DEF Stage
<1>8. ASSUME NothingOpen, Turning PROVE Stage'
  <2>1. e = "answerer"
    BY <1>1, <1>8 DEF Turning
  <2>2. Turning'
    BY <1>1, <1>3, <1>8, <2>1 DEF Turning
  <2>3. QED
    BY <1>5, <1>8, <2>2 DEF Stage
<1>9. ASSUME NothingOpen, e = "caller", Leaving PROVE Stage'
  <2>1. Leaving'
    BY <1>1, <1>3, <1>9 DEF Leaving
  <2>2. QED
    BY <1>5, <1>9, <2>1 DEF Stage
<1>10. Stage'
  BY <1>4, <1>6, <1>7, <1>8, <1>9
<1>11. \A d \in Ends : \A f : Acked(d, f) => Acked(d, f)'
  BY <1>1, <1>2, <1>3 DEF Acked, Sends
<1>12. QED
  BY <1>1, <1>10, <1>11, PlainStep DEF Acked, InBatch, Sends

\* The answerer's turn to send comes, or the caller's clean-up.
LEMMA ReceiveEndsNodes ==
  ASSUME Situation, NEW e \in Ends, ReceiveEnds(e)
  PROVE  NodesInv'
<1> USE TwoNames
<1>1. /\ pc[e] = "receive" /\ chan[e] # <<>> /\ Head(chan[e]).t = "EOB"
      /\ Answer(e, IF e = "caller" THEN <<Cmd("EOB")>> ELSE <<>>)
      /\ rcv' = [rcv EXCEPT ![e] = None]
      /\ UNCHANGED files /\ sent' = sent /\ hung' = hung
      /\ IF e = "caller" THEN pc' = [pc EXCEPT ![e] = "clean"]
                         ELSE /\ pc' = [pc EXCEPT ![e] = "send"]
                              /\ UNCHANGED <<open, up>>
  BY ReceivingFacts DEF ReceiveEnds, Next1, Goto, batch
<1>2. /\ NothingOpen /\ Tail(chan[e]) = <<>>
      /\ IF e = "caller" THEN Leaving ELSE Turning
  BY <1>1, NextFrame DEF Greetings
<1>3. rcv' = rcv
  BY <1>1, <1>2 DEF NothingOpen, Situation, Types
<1>4. NothingOpen'
  BY <1>2, <1>3 DEF NothingOpen
<1>5. CASE e = "caller"
  <2>1. pc'["caller"] = "clean" /\ pc'["answerer"] \in {"clean", "done"}
    BY <1>1, <1>2, <1>5, SituationFacts DEF Leaving
  <2>2. Over'
    BY <2>1 DEF Over
  <2>3. \A d \in Ends : ~Sends(d)
    BY <1>2, <1>5 DEF Leaving, Sends
  <2>4. pc'["answerer"] = pc["answerer"]
    BY <1>1, <1>5, SituationFacts
  <2>5. QED
    BY <1>1, <1>3, <1>4, <2>1, <2>2, <2>3, <2>4, PlainStep
       DEF Stage, Acked, InBatch, Sends
<1>6. CASE e = "answerer"
  <2>1. pc'["answerer"] = "send" /\ pc'["caller"] = "receive"
    BY <1>1, <1>2, <1>6, SituationFacts DEF Turning
  <2>2. chan'["answerer"] = <<>> /\ chan'["caller"] = <<>>
    <3>1. Read("answerer")
      BY <1>1, <1>6, NoFrames DEF Situation
    <3>2. QED
      BY <1>2, <1>6, <3>1, ReadChan DEF Turning
  <2>3. Stream(<<>>, None, 0, FALSE)
    <3>1. Len(<<>>) = 0 + 0 + 0
      OBVIOUS
    <3>2. QED
      BY <3>1 DEF Stream
  <2>4. BetweenFiles("answerer")'
    BY <1>4, <2>1, <2>2, <2>3 DEF BetweenFiles, NothingOpen
  <2>5. Sending("answerer")'
    BY <1>1, <1>2, <1>4, <1>6, <2>1, <2>4
       DEF Sending, Sends, Turning, NothingOpen
  <2>6. \A d \in Ends : ~Sends(d)
    BY <1>2, <1>6 DEF Turning, Sends
  <2>7. pc["caller"] = "receive"
    BY <1>2, <1>6 DEF Turning
  <2>8. QED
    BY <1>1, <1>3, <2>1, <2>5, <2>6, <2>7, PlainStep
       DEF Stage, Acked, InBatch, Sends
<1>7. QED
  BY <1>5, <1>6

\* A file of the result is removed.
LEMMA RemoveNodes ==
  ASSUME Situation, NEW e \in Ends, RemoveSent(e)
  PROVE  NodesInv'
<1> DEFINE f == FirstOf(sent[e])
<1> USE TwoNames
<1>1. /\ pc[e] = "clean"
      /\ outbox' = [outbox EXCEPT ![e] = @ \ {f}]
      /\ sent' = [sent EXCEPT ![e] = @ \ {f}]
      /\ UNCHANGED <<inbox, part, taken, torn, chan, open, up, pc, cur, rcv,
                     hung>>
  BY DEF RemoveSent, conn, inbound, batch
<1> HIDE DEF f
<1>2. NothingOpen /\ (Over \/ (e = "answerer" /\ Leaving))
  BY <1>1, SituationFacts, StageAt
<1>3. NothingOpen'
  BY <1>1, <1>2 DEF NothingOpen
<1>4. Over => Over'
  BY <1>1 DEF Over
<1>5. Leaving => Leaving'
  BY <1>1 DEF Leaving
<1>6. Stage'
  BY <1>2, <1>3, <1>4, <1>5 DEF Stage
<1>7. ASSUME NEW s \in Ends PROVE ResultInv(s)'
  <2>1. /\ ResultInv(s)
        /\ outbox[s] \ {f} \subseteq outbox'[s]
        /\ outbox'[s] \subseteq outbox[s]
        /\ sent[s] \ {f} \subseteq sent'[s] /\ sent'[s] \subseteq sent[s]
        /\ s # e => outbox'[s] = outbox[s] /\ sent'[s] = sent[s]
        /\ s = e => f \notin outbox'[s]
    BY <1>1, SituationFacts DEF Situation, Types
  <2>2. QED
    BY <1>1, <2>1 DEF ResultInv, Acked, Has, InBatch, Sends
<1>8. QED
  BY <1>1, <1>6, <1>7, SituationFacts DEF NodesInv

\* The inbound directory is tossed, and the session is over for this end.
LEMMA TossNodes ==
  ASSUME Situation, NEW e \in Ends, TossAndClose(e)
  PROVE  NodesInv'
<1> USE TwoNames
<1>1. /\ pc[e] = "clean" /\ sent[e] = {} /\ Close(e)
      /\ pc' = [pc EXCEPT ![e] = "done"]
      /\ \/ /\ taken' = [taken EXCEPT ![e] = @ \cup inbox[e]]
            /\ torn' = [torn EXCEPT ![e] = @ \cup part[e]]
            /\ inbox' = [inbox EXCEPT ![e] = {}]
            /\ part' = [part EXCEPT ![e] = {}]
         \/ UNCHANGED <<inbox, part, taken, torn>>
      /\ UNCHANGED <<outbox, chan, sent, cur, rcv, hung>>
  BY DEF TossAndClose, Goto, sender, inbound, batch
<1>2. NothingOpen /\ (Over \/ (e = "answerer" /\ Leaving))
  BY <1>1, SituationFacts, StageAt
<1>3. NothingOpen'
  BY <1>1, <1>2 DEF NothingOpen
<1>4. pc'[e] = "done" /\ \A d \in Ends : d # e => pc'[d] = pc[d]
  BY <1>1, SituationFacts
<1>5. Over => Over'
  BY <1>4 DEF Over
<1>6. ASSUME e = "answerer", Leaving PROVE Leaving'
  <2>1. open'["caller"] = open["caller"] /\ up'
    BY <1>1, <1>6 DEF Close, Leaving, Situation, Types
  <2>2. QED
    BY <1>1, <1>4, <1>6, <2>1 DEF Leaving
<1>7. Stage'
  BY <1>2, <1>3, <1>5, <1>6 DEF Stage
<1>8. ASSUME NEW s \in Ends PROVE ResultInv(s)'
  <2>1. /\ ResultInv(s) /\ rcv[s] = None /\ ~Sends(s)
    BY <1>2, SituationFacts DEF NothingOpen, Over, Leaving, Sends
  <2>2. Other(s) \in Ends
    BY EndFacts
  <2>3. /\ part[s] = {} /\ torn[s] = {}
        /\ \A f \in outbox[s] : Has(Other(s), f) => f \in sent[s]
    BY <2>1 DEF ResultInv, Acked
  <2>4. sent'[s] # {} => InBatch(s)'
    BY <1>1, <1>4, <2>1 DEF ResultInv, InBatch, Sends
  <2>5. part'[s] = {} /\ torn'[s] = {}
    <3>1. CASE UNCHANGED <<inbox, part, taken, torn>>
      BY <2>3, <3>1
    <3>2. CASE /\ torn' = [torn EXCEPT ![e] = @ \cup part[e]]
               /\ part' = [part EXCEPT ![e] = {}]
      BY <2>3, <3>2 DEF Situation, Types
    <3>3. QED
      BY <1>1, <3>1, <3>2
  <2>6. ASSUME NEW d \in Ends, NEW f PROVE Has(d, f)' => Has(d, f)
    <3>1. CASE UNCHANGED <<inbox, part, taken, torn>>
      BY <3>1 DEF Has
    <3>2. CASE /\ taken' = [taken EXCEPT ![e] = @ \cup inbox[e]]
               /\ inbox' = [inbox EXCEPT ![e] = {}]
      BY <3>2 DEF Has, Situation, Types
    <3>3. QED
      BY <1>1, <3>1, <3>2
  <2>7. ASSUME NEW f \in outbox'[s], Has(Other(s), f)' PROVE f \in sent'[s]
    BY <1>1, <2>2, <2>3, <2>6, <2>7
  <2>8. QED
    BY <2>4, <2>5, <2>7 DEF ResultInv
<1>9. QED
  BY <1>1, <1>7, <1>8, SituationFacts DEF NodesInv

\* Every step keeps where a session of two nodes is.
LEMMA NodesStep == Types /\ ChanTypes /\ NodesInv /\ [Next]_vars => NodesInv'
<1> SUFFICES ASSUME Types, ChanTypes, NodesInv, [Next]_vars PROVE NodesInv'
  OBVIOUS
<1>1. CASE UNCHANGED vars
  BY <1>1
     DEF vars, files, conn, sender, inbound, batch, bounds, setting, NodesInv,
         Faultless, Stage, Sending, Sends, BetweenFiles, Told, Begun, Answered,
         NothingOpen, Greeting, Verdict, Turning, Leaving, Over, ResultInv,
         InBatch, Acked, Has
<1>2. CASE ~Faultless'
  BY <1>2 DEF NodesInv
<1>3. ASSUME Next, Faultless' PROVE NodesInv'
  <2>1. CASE (Drop \/ \E e \in Ends : Die(e) \/ MailHangs(e))
    <3>1. faults' = faults + 1 /\ faults \in Nat
      BY <2>1, EndFacts DEF Drop, Die, MailHangs, Fault, Types
    <3>2. QED
      BY <1>3, <3>1 DEF Faultless
  <2>2. ASSUME Dial \/ \E e \in Ends : HandshakeStep(e) \/ TransferStep(e)
        PROVE  NodesInv'
    <3>1. UNCHANGED <<setting, bounds>>
      BY <2>2
         DEF Dial, HandshakeStep, TransferStep, CallerAdr, CallerOk,
             CallerRefused, AnswererAdr, AnswererPwd, Admit, Refuse, PassOver,
             HandshakeFails, Announce, WindowPasses, SendData, DataSent,
             TakeInterleaved, IgnoreFrame, FileDone, Restart, SendFails,
             EndBatch, ReceiveFile, ReceiveOther, ReceiveEnds, ReceiveFails,
             RemoveSent, TossAndClose
    <3>2. Situation
      BY <1>3, <3>1 DEF Situation, Faultless, setting, bounds
    <3>3. CASE Dial
      BY <3>2, <3>3, DialNodes
    <3>4. ASSUME NEW e \in Ends, HandshakeStep(e) PROVE NodesInv'
      BY <3>2, <3>4, CallerGreets, AnswererGreets, TwoNames DEF HandshakeStep
    <3>5. ASSUME NEW e \in Ends, TransferStep(e) PROVE NodesInv'
      BY <3>2, <3>5, AnnounceNodes, DataNodes, FileDoneNodes, EndBatchNodes,
         ReceiveNodes, ReceiveOtherNodes, ReceiveEndsNodes, RemoveNodes,
         TossNodes, NothingFails DEF TransferStep
    <3>6. QED
      BY <2>2, <3>3, <3>4, <3>5
  <2>3. ASSUME NEW e \in Ends, MailStep(e) PROVE NodesInv'
    <3>1. mailer' = mailer /\ e = mailer
      BY <2>3
         DEF MailStep, MailTakes, MailSkips, MailGets, MailHasIt, MailReceives,
             MailGot, MailOther, MailAnnounces, MailData, MailEob, MailCloses,
             MailLeft, Mail, setting
    <3>2. QED
      BY <1>3, <3>1 DEF Faultless, Ends
  <2>4. QED
    BY <1>3, <2>1, <2>2, <2>3 DEF Next, Step
<1>4. QED
  BY <1>1, <1>2, <1>3

\* So it always is where NodesInv says.
LEMMA NodesHold == Spec => []NodesInv
<1>1. Init => NodesInv
  <2> SUFFICES ASSUME Init PROVE NodesInv
    OBVIOUS
  <2>1. NothingOpen /\ Over /\ ~hung
    BY DEF Init, NothingOpen, Over
  <2>2. \A s \in Ends : ResultInv(s)
    BY EndFacts DEF Init, ResultInv, Has
  <2>3. QED
    BY <2>1, <2>2 DEF NodesInv, Stage
<1>2. QED
  BY <1>1, NodesStep, TypesHold, PTL DEF Spec

\* Between sessions of two VirtBBS nodes in which nothing failed, no file that
\* the other end has whole is still in the outbound directory: what was
\* acknowledged was in the session's result, and removed (binkp.go:164).
THEOREM NothingSentAgain == Spec => []NothingResent
<1>1. NodesInv => NothingResent
  BY DEF NodesInv, NothingResent, AllDone, Faultless, ResultInv, Acked, InBatch,
     Sends
<1>2. QED
  BY <1>1, NodesHold, PTL

\* Two VirtBBS nodes never meet the loss at a window's wait that another mailer
\* can cause: while nothing has failed, no first part of a file is tossed.
THEOREM WholeBetweenNodes == Spec => [](Faultless => InterleavedWhole)
<1>1. NodesInv => (Faultless => InterleavedWhole)
  BY DEF NodesInv, ResultInv, InterleavedWhole
<1>2. QED
  BY <1>1, NodesHold, PTL

=============================================================================
