---------------------------- MODULE OfflineProofs ----------------------------
(***************************************************************************)
(* Theorems about OfflineMail, for any number of runs of synchronize, any  *)
(* areas, messages and replies, and any faults.                            *)
(*                                                                         *)
(* NothingSkipped is strengthened by what an answer that is being built    *)
(* holds (SetInv): of the area whose mark is about to be moved everything  *)
(* up to the last number listed - whatever another run has done to the     *)
(* mark meanwhile.  RepliesOnce needs that a reply is in one batch only,   *)
(* unless its copies are counted as unsure (BatchInv).                     *)
(***************************************************************************)
EXTENDS OfflineMail, FiniteSetTheorems, WellFoundedInduction, TLAPS

LastArea == Cardinality(Conferences) + 1

ServerTypes ==
  /\ cast \in Casts /\ high \in [Areas -> 0..MaxMsg]
  /\ deleted \subseteq Messages
  /\ last \in [Clients -> [Areas -> 0..MaxMsg]]
  /\ posted \in [Replies -> 0..2] /\ reported \subseteq 1..MaxMsg
DeviceTypes ==
  /\ have \in [Clients -> SUBSET Messages]
  /\ queue \subseteq asked /\ asked \subseteq Replies
  /\ pending \in 0..MaxMsg
  /\ taps \in [1..MaxMsg -> {"none", "call", "clear", "done"}]
WorkerTypes ==
  /\ at \in [Workers -> Labels] /\ area \in [Workers -> 1..LastArea + 1]
  /\ got \in [Workers -> SUBSET Messages]
  /\ batch \in [Workers -> SUBSET Replies]
  /\ left \in [Workers -> SUBSET Replies]
  /\ snap \in [Workers -> 0..MaxMsg] /\ waits \subseteq Workers
HistoryTypes ==
  /\ missed \in [Clients -> SUBSET Messages] /\ purged \subseteq Messages
Types == ServerTypes /\ DeviceTypes /\ WorkerTypes /\ HistoryTypes

\* What a worker has at each of its steps.
Steps(w) ==
  /\ w \in waits => at[w] \in ServerSteps
  /\ at[w] \in {"purge", "reads", "report", "clear", "ask", "import", "queue"}
       => w # Caller
  /\ at[w] = "set" => area[w] <= ListLength(w)
  /\ at[w] = "report" => snap[w] # 0
  /\ got[w] # {} => at[w] \in {"purge", "list", "set", "import"}
  /\ batch[w] # {} => at[w] \in {"posting", "remove"}
  /\ at[w] = "remove" => left[w] = {}
  /\ left[w] \subseteq batch[w] \ Skipped /\ batch[w] \subseteq asked
StepsInv == \A w \in Workers : Steps(w)

\* What was given to client c, or will be, or was lost.
Answering(w) == at[w] \in {"list", "set", "import"}
Kept(c, m) ==
  \/ m \in have[c] \cup missed[c] \cup purged \cup deleted
  \/ \E w \in Workers : Client(w) = c /\ Answering(w) /\ m \in Given(w)

MarkInv ==
  \A c \in Clients, m \in Messages : m[2] <= last[c][m[1]] => Kept(c, m)

Position(m) == IF m[1] \in Conferences THEN m[1] ELSE LastArea
SetInv(w) ==
  /\ at[w] = "list" => \A m \in got[w] : Position(m) < area[w]
  /\ at[w] = "set" =>
       /\ Listing(w) # {}
       /\ \A m \in got[w] : Position(m) <= area[w]
       /\ \A m \in Messages : \A n \in Listing(w) :
            m[1] = Area(w) /\ m[2] <= n => m \in got[w] \/ Kept(Client(w), m)

AnswerInv == MarkInv /\ \A w \in Workers : SetInv(w)

\* A reply is in one batch, and stays in the queue for so long.
BatchInv ==
  \A r \in Replies \ unsure : \A w \in Workers : r \in batch[w] =>
    /\ r \in queue \cup withdrawn
    /\ \A v \in Workers : r \in batch[v] => v = w
PostedInv ==
  /\ \A r \in Replies \ asked : posted[r] = 0
  /\ RepliesOnce

-----------------------------------------------------------------------------
(* Numbers: the largest and the smallest of a set.                         *)

\* A set of naturals has its smallest member.
LEMMA MinIn ==
  ASSUME NEW S, S \subseteq Nat, S # {}
  PROVE  Min(S) \in S /\ \A y \in S : Min(S) <= y
<1> DEFINE Less == OpToRel(<, Nat)
<1>1. PICK x \in S : \A y \in S : <<y, x>> \notin Less
  BY WFMin, NatLessThanWellFounded
<1>2. \A m, n \in Nat : <<m, n>> \in Less <=> m < n
  BY DEF OpToRel
<1> HIDE DEF Less
<1>3. x \in Nat /\ \A y \in S : y \in Nat /\ ~(y < x)
  BY <1>1, <1>2
<1>4. \A y \in S : x <= y
  BY <1>3
<1>5. QED
  BY <1>4 DEF Min

\* A set of naturals with a bound has its largest.
LEMMA MaxIn ==
  ASSUME NEW S, S \subseteq Nat, S # {}, NEW N \in Nat, \A x \in S : x <= N
  PROVE  Max(S) \in S /\ \A y \in S : y <= Max(S)
<1> DEFINE B == {n \in Nat : \A x \in S : x <= n}
<1>1. Min(B) \in B /\ \A n \in B : Min(B) <= n
  <2>1. N \in B
    OBVIOUS
  <2>2. QED
    BY <2>1, MinIn
<1>2. PICK b \in B : \A n \in B : b <= n
  BY <1>1
<1>3. b \in S
  <2>1. SUFFICES ASSUME b \notin S PROVE FALSE
    OBVIOUS
  <2>2. \A x \in S : x < b
    BY <1>2, <2>1
  <2>3. b # 0
    <3>1. PICK x \in S : x \in Nat
      OBVIOUS
    <3>2. QED
      BY <2>2, <3>1
  <2>4. b - 1 \in B
    BY <1>2, <2>2, <2>3
  <2>5. QED
    BY <1>2, <2>4
<1>4. \A y \in S : b >= y
  BY <1>2
<1>5. Max(S) \in S /\ \A y \in S : Max(S) >= y
  BY <1>3, <1>4 DEF Max
<1>6. QED
  BY <1>5

\* Copies of a reply are counted up to 2.
LEMMA Capped ==
  ASSUME NEW k \in 0..2
  PROVE  Min({k + 1, 2}) \in 0..2 /\ (k = 0 => Min({k + 1, 2}) = 1)
<1> DEFINE S == {k + 1, 2}
<1>1. Min(S) \in S /\ \A y \in S : Min(S) <= y
  BY MinIn
<1>2. QED
  BY <1>1

\* Areas are numbers, conferences from 1; there are finitely many messages.
LEMMA AreaFacts ==
  /\ Cardinality(Conferences) \in Nat /\ LastArea \in Nat \ {0}
  /\ Conferences = 1..(LastArea - 1) /\ Netmail = 0 /\ Areas \subseteq Nat
  /\ MaxMsg \in Nat
  /\ Cardinality(Areas) = LastArea /\ IsFiniteSet(Messages)
  /\ Clients = {"app", "qwk"}
<1>1. Cardinality(Conferences) \in Nat
  BY OfflineAssumption, FS_CardinalityType
<1>2. Netmail \notin Conferences
  BY <1>1, OfflineAssumption
<1>3. IsFiniteSet(Areas) /\ Cardinality(Areas) = LastArea
  BY <1>2, OfflineAssumption, FS_AddElement DEF Areas, LastArea
<1>4. IsFiniteSet(Messages)
  <2>1. IsFiniteSet(1..MaxMsg)
    BY OfflineAssumption, FS_Interval
  <2>2. QED
    BY <1>3, <2>1, FS_Product DEF Messages
<1>5. Conferences = 1..Cardinality(Conferences) /\ MaxMsg \in Nat
  BY OfflineAssumption
<1>6. Cardinality(Conferences) = LastArea - 1 /\ LastArea \in Nat \ {0}
  BY <1>1 DEF LastArea
<1>7. Areas \subseteq Nat /\ Netmail = 0
  BY <1>1, <1>5, OfflineAssumption DEF Areas
<1>8. QED
  BY <1>1, <1>3, <1>4, <1>5, <1>6, <1>7 DEF Clients

\* The first k by number are an initial piece.
LEMMA FirstClosed ==
  ASSUME NEW ms, ms \subseteq Messages, NEW k \in Nat,
         NEW m \in First(ms, k), NEW l \in ms, l[2] <= m[2]
  PROVE  l \in First(ms, k)
<1> DEFINE Up(j) == {i \in ms : i[2] <= j[2]}
<1>1. \A i \in ms : i[2] \in Nat
  BY AreaFacts DEF Messages
<1>2. m \in ms /\ Cardinality(Up(m)) <= k
  BY DEF First
<1>3. Up(l) \subseteq Up(m)
  BY <1>1, <1>2
<1>4. IsFiniteSet(Up(m))
  BY <1>2, AreaFacts, FS_Subset
<1>5. /\ IsFiniteSet(Up(l)) /\ Cardinality(Up(l)) <= Cardinality(Up(m))
      /\ Cardinality(Up(l)) \in Nat /\ Cardinality(Up(m)) \in Nat
  BY <1>3, <1>4, FS_Subset, FS_CardinalityType
<1>6. Cardinality(Up(l)) <= k
  BY <1>2, <1>5
<1>7. QED
  BY <1>6 DEF First

-----------------------------------------------------------------------------
(* Types.                                                                  *)

\* Numbers go up to MaxMsg, areas to LastArea.
LEMMA MaxFact ==
  /\ MaxMsg \in Nat /\ LastArea \in Nat /\ 1 \in 1..LastArea + 1
  /\ Syncs \subseteq Workers /\ Caller \in Workers
BY AreaFacts DEF Workers

\* A worker that rests has its types.
LEMMA RestTypes ==
  ASSUME WorkerTypes, NEW w \in Workers, Rest(w)
  PROVE  WorkerTypes'
BY MaxFact DEF Rest, Go, WorkerTypes, Labels

\* What is listed are messages.
LEMMA NewMessages == \A w \in Workers : New(w) \subseteq Messages
BY DEF New, Fresh, First

\* A worker on its way through the areas has one more to go.
LEMMA NextArea ==
  ASSUME WorkerTypes, NEW w \in Workers, area[w] <= ListLength(w)
  PROVE  area[w] + 1 \in 1..LastArea + 1
<1>1. ListLength(w) \in Nat /\ ListLength(w) <= LastArea
  BY AreaFacts DEF ListLength, LastArea
<1>2. area[w] \in Nat
  BY AreaFacts DEF WorkerTypes
<1>3. QED
  BY <1>1, <1>2, MaxFact

\* The last number listed is one of those listed.
LEMMA LastListed ==
  ASSUME WorkerTypes, NEW w \in Workers, SetInv(w), at[w] = "set"
  PROVE  /\ Max(Listing(w)) \in Listing(w) /\ Max(Listing(w)) \in 0..MaxMsg
         /\ Area(w) \in Areas /\ Client(w) \in Clients
<1>1. Listing(w) # {} /\ Listing(w) \subseteq 1..MaxMsg
  BY DEF SetInv, Listing, WorkerTypes, Messages
<1>2. Max(Listing(w)) \in Listing(w)
  BY <1>1, MaxFact, MaxIn
<1>3. QED
  BY <1>1, <1>2, MaxFact DEF Area, Client, Clients, Areas

\* What is in an answer are messages for its client.
LEMMA Answers ==
  ASSUME WorkerTypes, NEW w \in Workers
  PROVE  /\ got[w] \subseteq Messages /\ Given(w) \subseteq got[w]
         /\ Client(w) \in Clients /\ (w \in Syncs => Client(w) = "app")
BY OfflineAssumption DEF WorkerTypes, Given, Client, Clients

\* Messages missed.
LEMMA MissTypes ==
  ASSUME NEW c \in Clients, NEW ms, ms \subseteq Messages, Miss(c, ms),
         missed \in [Clients -> SUBSET Messages]
  PROVE  missed' \in [Clients -> SUBSET Messages]
BY DEF Miss

\* Every step keeps the types.
LEMMA StepKeepsTypes ==
  ASSUME Types, StepsInv, \A w \in Workers : SetInv(w), [Next]_vars
  PROVE  Types'
<1> USE MaxFact
<1>1. ASSUME NEW a \in Areas, Post(a) PROVE Types'
  <2>1. ServerTypes'
    BY <1>1 DEF Post, ServerTypes, Types, server, device, worker, history, Labels
  <2>2. DeviceTypes'
    BY <1>1 DEF Post, DeviceTypes, Types, server, device, worker, history, Labels
  <2>3. WorkerTypes'
    BY <1>1 DEF Post, WorkerTypes, Types, server, device, worker, history, Labels
  <2>4. HistoryTypes'
    BY <1>1 DEF Post, HistoryTypes, Types, server, device, worker, history,
       Labels
  <2>5. QED
    BY <2>1, <2>2, <2>3, <2>4 DEF Types
<1>2. ASSUME NEW s \in Syncs, Begin(s) PROVE Types'
  <2>1. ServerTypes'
    BY <1>2 DEF Begin, Go, ServerTypes, Types, server, device, worker, history,
       Labels
  <2>2. DeviceTypes'
    BY <1>2 DEF Begin, Go, DeviceTypes, Types, server, device, worker, history,
       Labels
  <2>3. WorkerTypes'
    <3>1. have["app"] \subseteq Messages
      BY DEF Types, DeviceTypes, Clients
    <3>2. QED
      BY <1>2, <3>1 DEF Begin, Go, WorkerTypes, Types, Labels
  <2>4. HistoryTypes'
    BY <1>2 DEF Begin, Go, HistoryTypes, Types, server, device, worker, history,
       Labels
  <2>5. QED
    BY <2>1, <2>2, <2>3, <2>4 DEF Types
<1>3. ASSUME NEW s \in Syncs, PurgeDelete(s) PROVE Types'
  <2>1. ServerTypes'
    BY <1>3 DEF PurgeDelete, ServerTypes, Types, server, device, worker, history,
       Labels, WorkerTypes
  <2>2. DeviceTypes'
    BY <1>3 DEF PurgeDelete, DeviceTypes, Types, server, device, worker, history,
       Labels
  <2>3. WorkerTypes'
    BY <1>3 DEF PurgeDelete, WorkerTypes, Types, server, device, worker, history,
       Labels
  <2>4. HistoryTypes'
    BY <1>3 DEF PurgeDelete, HistoryTypes, Types, server, device, worker,
       history, Labels
  <2>5. QED
    BY <2>1, <2>2, <2>3, <2>4 DEF Types
<1>4. ASSUME NEW s \in Syncs, PurgeLocal(s) PROVE Types'
  <2>1. ServerTypes'
    BY <1>4 DEF PurgeLocal, Go, Fault, ServerTypes, Types, server, device,
       worker, history, Labels
  <2>2. DeviceTypes'
    BY <1>4 DEF PurgeLocal, Go, Fault, DeviceTypes, Types, server, device,
       worker, history, Labels
  <2>3. WorkerTypes'
    BY <1>4 DEF PurgeLocal, Go, Fault, WorkerTypes, Types, server, device,
       worker, history, Labels
  <2>4. HistoryTypes'
    BY <1>4 DEF PurgeLocal, Go, Fault, HistoryTypes, Types, server, device,
       worker, history, Labels, WorkerTypes
  <2>5. QED
    BY <2>1, <2>2, <2>3, <2>4 DEF Types
<1>5. ASSUME NEW s \in Syncs, ReadPending(s) PROVE Types'
  BY <1>5 DEF ReadPending, Go, Types, ServerTypes, DeviceTypes, WorkerTypes,
     HistoryTypes, Labels, server, device, worker, history
<1>6. ASSUME NEW s \in Syncs, SyncReport(s) PROVE Types'
  <2>1. ServerTypes'
    <3>1. snap[s] # 0 /\ snap[s] \in 0..MaxMsg
      BY <1>6, MaxFact DEF SyncReport, StepsInv, Steps, Types, WorkerTypes
    <3>2. snap[s] \in 1..MaxMsg
      BY <3>1, MaxFact
    <3>3. QED
      BY <1>6, <3>2 DEF SyncReport, Report, ServerTypes, Types
  <2>2. DeviceTypes'
    BY <1>6 DEF SyncReport, Go, Report, DeviceTypes, Types, server, device,
       worker, history, Labels
  <2>3. WorkerTypes'
    BY <1>6 DEF SyncReport, Go, Report, WorkerTypes, Types, server, device,
       worker, history, Labels
  <2>4. HistoryTypes'
    BY <1>6 DEF SyncReport, Go, Report, HistoryTypes, Types, server, device,
       worker, history, Labels
  <2>5. QED
    BY <2>1, <2>2, <2>3, <2>4 DEF Types
<1>7. ASSUME NEW s \in Syncs, SyncClear(s) PROVE Types'
  <2>1. ServerTypes'
    BY <1>7 DEF SyncClear, Go, Clear, ServerTypes, Types, server, device, worker,
       history, Labels
  <2>2. DeviceTypes'
    BY <1>7 DEF SyncClear, Go, Clear, DeviceTypes, Types, server, device, worker,
       history, Labels
  <2>3. WorkerTypes'
    BY <1>7 DEF SyncClear, Go, Clear, WorkerTypes, Types, server, device, worker,
       history, Labels
  <2>4. HistoryTypes'
    BY <1>7 DEF SyncClear, Go, Clear, HistoryTypes, Types, server, device,
       worker, history, Labels
  <2>5. QED
    BY <2>1, <2>2, <2>3, <2>4 DEF Types
<1>8. ASSUME NEW s \in Syncs, Import(s) PROVE Types'
  <2>1. ServerTypes'
    BY <1>8 DEF Import, Go, ServerTypes, Types, server, device, worker, history,
       Labels
  <2>2. DeviceTypes'
    <3>1. got[s] \subseteq Messages
      BY Answers, MaxFact DEF Types
    <3>2. QED
      BY <1>8, <3>1 DEF Import, Go, DeviceTypes, Types, server, worker, history
  <2>3. WorkerTypes'
    BY <1>8 DEF Import, Go, WorkerTypes, Types, server, device, worker, history,
       Labels
  <2>4. HistoryTypes'
    BY <1>8 DEF Import, Go, HistoryTypes, Types, server, device, worker, history,
       Labels
  <2>5. QED
    BY <2>1, <2>2, <2>3, <2>4 DEF Types
<1>9. ASSUME NEW s \in Syncs, NoReplies(s) PROVE Types'
  <2>1. ServerTypes'
    BY <1>9 DEF NoReplies, Rest, Go, ServerTypes, Types, server, device, worker,
       history, Labels
  <2>2. DeviceTypes'
    BY <1>9 DEF NoReplies, Rest, Go, DeviceTypes, Types, server, device, worker,
       history, Labels
  <2>3. WorkerTypes'
    BY <1>9, RestTypes DEF NoReplies, Rest, Go, WorkerTypes, Types, server,
       device, worker, history, Labels
  <2>4. HistoryTypes'
    BY <1>9 DEF NoReplies, Rest, Go, HistoryTypes, Types, server, device, worker,
       history, Labels
  <2>5. QED
    BY <2>1, <2>2, <2>3, <2>4 DEF Types
<1>10. ASSUME NEW s \in Syncs, ReportFails(s) PROVE Types'
  BY <1>10 DEF ReportFails, Go, Fault, Types, ServerTypes, DeviceTypes,
     WorkerTypes, HistoryTypes, Labels, server, device, worker, history
<1>11. ASSUME NEW s \in Syncs, SyncFails(s) PROVE Types'
  <2>1. ServerTypes'
    BY <1>11 DEF SyncFails, Rest, Go, Fault, ServerTypes, Types, server, device,
       worker, history, Labels
  <2>2. DeviceTypes'
    BY <1>11 DEF SyncFails, Rest, Go, Fault, DeviceTypes, Types, server, device,
       worker, history, Labels
  <2>3. WorkerTypes'
    BY <1>11, RestTypes DEF SyncFails, Rest, Go, Fault, WorkerTypes, Types,
       server, device, worker, history, Labels
  <2>4. HistoryTypes'
    BY <1>11 DEF SyncFails, Rest, Go, Fault, HistoryTypes, Types, server, device,
       worker, history, Labels
  <2>5. QED
    BY <2>1, <2>2, <2>3, <2>4 DEF Types
<1>12. ASSUME NEW w \in Workers, Ask(w) PROVE Types'
  BY <1>12 DEF Ask, Go, Types, ServerTypes, DeviceTypes, WorkerTypes,
     HistoryTypes, Labels, server, device, worker, history
<1>13. ASSUME NEW w \in Workers, Upload(w) PROVE Types'
  BY <1>13 DEF Upload, Go, QueuedBy, Types, ServerTypes, DeviceTypes,
     WorkerTypes, HistoryTypes, Labels, server, device, worker, history
<1>14. ASSUME NEW w \in Workers, List(w) PROVE Types'
  <2>1. ServerTypes'
    BY <1>14 DEF List, Go, ServerTypes, Types, server, device, worker, history,
       Labels
  <2>2. DeviceTypes'
    BY <1>14 DEF List, Go, DeviceTypes, Types, server, device, worker, history,
       Labels
  <2>3. WorkerTypes'
    BY <1>14, NewMessages, NextArea DEF List, Go, WorkerTypes, Types, server,
       device, worker, history, Labels
  <2>4. HistoryTypes'
    BY <1>14 DEF List, Go, HistoryTypes, Types, server, device, worker, history,
       Labels
  <2>5. QED
    BY <2>1, <2>2, <2>3, <2>4 DEF Types
<1>15. ASSUME NEW w \in Workers, SetLast(w) PROVE Types'
  <2>1. ServerTypes'
    BY <1>15, LastListed DEF SetLast, Go, ServerTypes, Types, server, device,
       worker, history, Labels
  <2>2. DeviceTypes'
    BY <1>15 DEF SetLast, Go, DeviceTypes, Types, server, device, worker, history,
       Labels
  <2>3. WorkerTypes'
    <3>1. area[w] + 1 \in 1..LastArea + 1
      BY <1>15, NextArea DEF SetLast, StepsInv, Steps, Types
    <3>2. QED
      BY <1>15, <3>1 DEF SetLast, Go, WorkerTypes, Types, Labels
  <2>4. HistoryTypes'
    BY <1>15 DEF SetLast, Go, HistoryTypes, Types, server, device, worker,
       history, Labels
  <2>5. QED
    BY <2>1, <2>2, <2>3, <2>4 DEF Types
<1>16. ASSUME NEW w \in Workers, Listed(w) PROVE Types'
  <2>1. ServerTypes'
    BY <1>16 DEF Listed, Rest, Go, Miss, ServerTypes, Types, server, device,
       worker, history, Labels
  <2>2. DeviceTypes'
    <3>1. got[w] \subseteq Messages
      BY Answers DEF Types
    <3>2. QED
      BY <1>16, <3>1 DEF Listed, DeviceTypes, Types
  <2>3. WorkerTypes'
    BY <1>16, RestTypes DEF Listed, Rest, Go, Miss, WorkerTypes, Types, server,
       device, worker, history, Labels
  <2>4. HistoryTypes'
    <3>1. CASE Miss(Client(w), Given(w)) /\ purged' = purged
      BY <3>1, Answers, MissTypes DEF Types, HistoryTypes
    <3>2. CASE missed' = missed /\ purged' = purged
      BY <3>2 DEF Types, HistoryTypes
    <3>3. QED
      BY <1>16, <3>1, <3>2 DEF Listed, server, device, history
  <2>5. QED
    BY <2>1, <2>2, <2>3, <2>4 DEF Types
<1>17. ASSUME NEW w \in Workers, PostReply(w) PROVE Types'
  <2>1. ServerTypes'
    BY <1>17, Capped DEF PostReply, ServerTypes, Types, server, device, worker,
       history, Labels
  <2>2. DeviceTypes'
    BY <1>17 DEF PostReply, DeviceTypes, Types, server, device, worker, history,
       Labels
  <2>3. WorkerTypes'
    BY <1>17 DEF PostReply, WorkerTypes, Types, server, device, worker, history,
       Labels
  <2>4. HistoryTypes'
    BY <1>17 DEF PostReply, HistoryTypes, Types, server, device, worker, history,
       Labels
  <2>5. QED
    BY <2>1, <2>2, <2>3, <2>4 DEF Types
<1>18. ASSUME NEW w \in Workers, PostEnds(w) PROVE Types'
  <2>1. ServerTypes'
    BY <1>18 DEF PostEnds, Rest, Go, ServerTypes, Types, server, device, worker,
       history, Labels
  <2>2. DeviceTypes'
    BY <1>18 DEF PostEnds, Rest, Go, DeviceTypes, Types, server, device, worker,
       history, Labels
  <2>3. WorkerTypes'
    BY <1>18, RestTypes DEF PostEnds, Rest, Go, WorkerTypes, Types, server,
       device, worker, history, Labels
  <2>4. HistoryTypes'
    BY <1>18 DEF PostEnds, Rest, Go, HistoryTypes, Types, server, device, worker,
       history, Labels
  <2>5. QED
    BY <2>1, <2>2, <2>3, <2>4 DEF Types
<1>19. ASSUME NEW w \in Workers, Dequeue(w) PROVE Types'
  <2>1. ServerTypes'
    BY <1>19 DEF Dequeue, Rest, Go, ServerTypes, Types, server, device, worker,
       history, Labels
  <2>2. DeviceTypes'
    BY <1>19 DEF Dequeue, Rest, Go, DeviceTypes, Types, server, device, worker,
       history, Labels
  <2>3. WorkerTypes'
    BY <1>19, RestTypes DEF Dequeue, Rest, Go, WorkerTypes, Types, server, device,
       worker, history, Labels
  <2>4. HistoryTypes'
    BY <1>19 DEF Dequeue, Rest, Go, HistoryTypes, Types, server, device, worker,
       history, Labels
  <2>5. QED
    BY <2>1, <2>2, <2>3, <2>4 DEF Types
<1>20. ASSUME NEW w \in Workers, ListFails(w) PROVE Types'
  <2>1. ServerTypes'
    BY <1>20 DEF ListFails, Rest, Go, Miss, Fault, ServerTypes, Types, server,
       device, worker, history, Labels
  <2>2. DeviceTypes'
    BY <1>20 DEF ListFails, Rest, Go, Miss, Fault, DeviceTypes, Types, server,
       device, worker, history, Labels
  <2>3. WorkerTypes'
    BY <1>20, RestTypes DEF ListFails, Rest, Go, Miss, Fault, WorkerTypes, Types,
       server, device, worker, history, Labels
  <2>4. HistoryTypes'
    <3>1. CASE Miss(Client(w), Given(w)) /\ purged' = purged
      BY <3>1, Answers, MissTypes DEF Types, HistoryTypes
    <3>2. CASE missed' = missed /\ purged' = purged
      BY <3>2 DEF Types, HistoryTypes
    <3>3. QED
      BY <1>20, <3>1, <3>2 DEF ListFails, server, device, history
  <2>5. QED
    BY <2>1, <2>2, <2>3, <2>4 DEF Types
<1>21. ASSUME NEW w \in Workers, PostFails(w) PROVE Types'
  <2>1. ServerTypes'
    BY <1>21 DEF PostFails, Rest, Go, Fault, ServerTypes, Types, server, device,
       worker, history, Labels
  <2>2. DeviceTypes'
    BY <1>21 DEF PostFails, Rest, Go, Fault, DeviceTypes, Types, server, device,
       worker, history, Labels
  <2>3. WorkerTypes'
    BY <1>21, RestTypes DEF PostFails, Rest, Go, Fault, WorkerTypes, Types,
       server, device, worker, history, Labels
  <2>4. HistoryTypes'
    BY <1>21 DEF PostFails, Rest, Go, Fault, HistoryTypes, Types, server, device,
       worker, history, Labels
  <2>5. QED
    BY <2>1, <2>2, <2>3, <2>4 DEF Types
<1>22. ASSUME NEW w \in Workers, Leave(w) PROVE Types'
  BY <1>22 DEF Leave, Fault, Types, ServerTypes, DeviceTypes, WorkerTypes,
     HistoryTypes, Labels, server, device, worker, history
<1>23. ASSUME NEW n \in 1..MaxMsg, Tap(n) PROVE Types'
  <2>1. ServerTypes'
    BY <1>23 DEF Tap, ServerTypes, Types, server, device, worker, history, Labels
  <2>2. DeviceTypes'
    BY <1>23 DEF Tap, DeviceTypes, Types, server, device, worker, history, Labels
  <2>3. WorkerTypes'
    BY <1>23 DEF Tap, WorkerTypes, Types, server, device, worker, history, Labels
  <2>4. HistoryTypes'
    BY <1>23 DEF Tap, HistoryTypes, Types, server, device, worker, history, Labels
  <2>5. QED
    BY <2>1, <2>2, <2>3, <2>4 DEF Types
<1>24. ASSUME NEW n \in 1..MaxMsg, TapReport(n) PROVE Types'
  <2>1. ServerTypes'
    BY <1>24 DEF TapReport, Report, ServerTypes, Types, server, device, worker,
       history, Labels
  <2>2. DeviceTypes'
    BY <1>24 DEF TapReport, Report, DeviceTypes, Types, server, device, worker,
       history, Labels
  <2>3. WorkerTypes'
    BY <1>24 DEF TapReport, Report, WorkerTypes, Types, server, device, worker,
       history, Labels
  <2>4. HistoryTypes'
    BY <1>24 DEF TapReport, Report, HistoryTypes, Types, server, device, worker,
       history, Labels
  <2>5. QED
    BY <2>1, <2>2, <2>3, <2>4 DEF Types
<1>25. ASSUME NEW n \in 1..MaxMsg, TapFails(n) PROVE Types'
  BY <1>25 DEF TapFails, Fault, Types, ServerTypes, DeviceTypes, WorkerTypes,
     HistoryTypes, Labels, server, device, worker, history
<1>26. ASSUME NEW n \in 1..MaxMsg, TapClear(n) PROVE Types'
  <2>1. ServerTypes'
    BY <1>26 DEF TapClear, Clear, ServerTypes, Types, server, device, worker,
       history, Labels
  <2>2. DeviceTypes'
    BY <1>26 DEF TapClear, Clear, DeviceTypes, Types, server, device, worker,
       history, Labels
  <2>3. WorkerTypes'
    BY <1>26 DEF TapClear, Clear, WorkerTypes, Types, server, device, worker,
       history, Labels
  <2>4. HistoryTypes'
    BY <1>26 DEF TapClear, Clear, HistoryTypes, Types, server, device, worker,
       history, Labels
  <2>5. QED
    BY <2>1, <2>2, <2>3, <2>4 DEF Types
<1>27. ASSUME NEW r \in Replies, QueueReply(r) PROVE Types'
  BY <1>27 DEF QueueReply, Types, ServerTypes, DeviceTypes, WorkerTypes,
     HistoryTypes, Labels, server, device, worker, history
<1>28. ASSUME NEW r \in Replies, Withdraw(r) PROVE Types'
  BY <1>28 DEF Withdraw, Types, ServerTypes, DeviceTypes, WorkerTypes,
     HistoryTypes, Labels, server, device, worker, history
<1>29. ASSUME AppDies PROVE Types'
  <2>1. ServerTypes'
    BY <1>29 DEF AppDies, Miss, Fault, ServerTypes, Types, server, device, worker,
       history, Labels
  <2>2. DeviceTypes'
    BY <1>29 DEF AppDies, Miss, Fault, DeviceTypes, Types, server, device, worker,
       history, Labels
  <2>3. WorkerTypes'
    BY <1>29 DEF AppDies, Miss, Fault, WorkerTypes, Types, server, device, worker,
       history, Labels
  <2>4. HistoryTypes'
    <3>1. PICK ms : Miss("app", ms) /\ ms \subseteq UNION {got[s] : s \in Syncs}
      BY <1>29 DEF AppDies
    <3>2. ms \subseteq Messages
      BY <3>1, Answers, MaxFact DEF Types
    <3>3. QED
      BY <1>29, <3>1, <3>2, MissTypes DEF AppDies, Types, HistoryTypes, Clients
  <2>5. QED
    BY <2>1, <2>2, <2>3, <2>4 DEF Types
<1>30. ASSUME UNCHANGED vars PROVE Types'
  BY <1>30 DEF vars, Types, ServerTypes, DeviceTypes, WorkerTypes,
     HistoryTypes, Labels, server, device, worker, history
<1>31. QED
  BY <1>1, <1>2, <1>3, <1>4, <1>5, <1>6, <1>7, <1>8, <1>9, <1>10, <1>11,
     <1>12, <1>13, <1>14, <1>15, <1>16, <1>17, <1>18, <1>19, <1>20, <1>21,
     <1>22, <1>23, <1>24, <1>25, <1>26, <1>27, <1>28, <1>29, <1>30 DEF Next,
     SyncStep, WorkerStep, UserStep

\* Every step keeps what workers have.
LEMMA StepKeepsSteps ==
  ASSUME Types, StepsInv, [Next]_vars
  PROVE  StepsInv'
<1>1. ASSUME NEW a \in Areas, Post(a) PROVE StepsInv'
  BY <1>1 DEF Post, StepsInv, Steps, Types, ServerTypes, DeviceTypes,
     WorkerTypes, HistoryTypes, ServerSteps, ListSteps, server, device,
     worker, history
<1>2. ASSUME NEW s \in Syncs, Begin(s) PROVE StepsInv'
  <2>1. /\ at[s] = "idle" /\ at' = [at EXCEPT ![s] = "purge"] /\ s # Caller
        /\ got' \in [Workers -> SUBSET Messages]
        /\ \A w \in Workers : w # s => got'[w] = got[w]
    <3>1. have["app"] \subseteq Messages
      BY DEF Types, DeviceTypes, Clients
    <3>2. QED
      BY ZenonT(40), <1>2, <3>1, OfflineAssumption DEF Begin, Go, Types, WorkerTypes
  <2>2. UNCHANGED <<area, batch, left, snap, waits, asked>>
    BY <1>2 DEF Begin, server, device, history
  <2>3. QED
    BY <2>1, <2>2, MaxFact DEF StepsInv, Steps, Types, WorkerTypes,
       ServerSteps, ListSteps, ListLength
<1>3. ASSUME NEW s \in Syncs, PurgeDelete(s) PROVE StepsInv'
  BY <1>3 DEF PurgeDelete, StepsInv, Steps, Types, ServerTypes, DeviceTypes,
     WorkerTypes, HistoryTypes, ServerSteps, ListSteps, server, device,
     worker, history
<1>4. ASSUME NEW s \in Syncs, PurgeLocal(s) PROVE StepsInv'
  BY <1>4 DEF PurgeLocal, Go, Fault, StepsInv, Steps, Types, ServerTypes,
     DeviceTypes, WorkerTypes, HistoryTypes, ServerSteps, ListSteps, server,
     device, worker, history
<1>5. ASSUME NEW s \in Syncs, ReadPending(s) PROVE StepsInv'
  BY <1>5 DEF ReadPending, Go, StepsInv, Steps, Types, ServerTypes,
     DeviceTypes, WorkerTypes, HistoryTypes, ServerSteps, ListSteps, server,
     device, worker, history
<1>6. ASSUME NEW s \in Syncs, SyncReport(s) PROVE StepsInv'
  BY <1>6 DEF SyncReport, Go, Report, StepsInv, Steps, Types, ServerTypes,
     DeviceTypes, WorkerTypes, HistoryTypes, ServerSteps, ListSteps, server,
     device, worker, history
<1>7. ASSUME NEW s \in Syncs, SyncClear(s) PROVE StepsInv'
  BY <1>7 DEF SyncClear, Go, Clear, StepsInv, Steps, Types, ServerTypes,
     DeviceTypes, WorkerTypes, HistoryTypes, ServerSteps, ListSteps, server,
     device, worker, history
<1>8. ASSUME NEW s \in Syncs, Import(s) PROVE StepsInv'
  BY <1>8 DEF Import, Go, StepsInv, Steps, Types, ServerTypes, DeviceTypes,
     WorkerTypes, HistoryTypes, ServerSteps, ListSteps, server, device,
     worker, history
<1>9. ASSUME NEW s \in Syncs, NoReplies(s) PROVE StepsInv'
  BY <1>9 DEF NoReplies, Rest, Go, StepsInv, Steps, Types, ServerTypes,
     DeviceTypes, WorkerTypes, HistoryTypes, ServerSteps, ListSteps, server,
     device, worker, history
<1>10. ASSUME NEW s \in Syncs, ReportFails(s) PROVE StepsInv'
  BY <1>10 DEF ReportFails, Go, Fault, StepsInv, Steps, Types, ServerTypes,
     DeviceTypes, WorkerTypes, HistoryTypes, ServerSteps, ListSteps, server,
     device, worker, history
<1>11. ASSUME NEW s \in Syncs, SyncFails(s) PROVE StepsInv'
  BY <1>11 DEF SyncFails, Rest, Go, Fault, StepsInv, Steps, Types,
     ServerTypes, DeviceTypes, WorkerTypes, HistoryTypes, ServerSteps,
     ListSteps, server, device, worker, history
<1>12. ASSUME NEW w \in Workers, Ask(w) PROVE StepsInv'
  BY <1>12 DEF Ask, Go, StepsInv, Steps, Types, ServerTypes, DeviceTypes,
     WorkerTypes, HistoryTypes, ServerSteps, ListSteps, server, device,
     worker, history
<1>13. ASSUME NEW w \in Workers, Upload(w) PROVE StepsInv'
  BY <1>13 DEF Upload, Go, QueuedBy, StepsInv, Steps, Types, ServerTypes,
     DeviceTypes, WorkerTypes, HistoryTypes, ServerSteps, ListSteps, server,
     device, worker, history
<1>14. ASSUME NEW w \in Workers, List(w) PROVE StepsInv'
  BY <1>14 DEF List, Go, StepsInv, Steps, Types, ServerTypes, DeviceTypes,
     WorkerTypes, HistoryTypes, ServerSteps, ListSteps, server, device,
     worker, history
<1>15. ASSUME NEW w \in Workers, SetLast(w) PROVE StepsInv'
  BY <1>15 DEF SetLast, Go, StepsInv, Steps, Types, ServerTypes, DeviceTypes,
     WorkerTypes, HistoryTypes, ServerSteps, ListSteps, server, device,
     worker, history
<1>16. ASSUME NEW w \in Workers, Listed(w) PROVE StepsInv'
  <2>1. /\ at[w] = "list" /\ UNCHANGED asked
        /\ \A v \in Workers : v # w =>
             /\ at'[v] = at[v] /\ got'[v] = got[v] /\ batch'[v] = batch[v]
             /\ left'[v] = left[v] /\ area'[v] = area[v]
             /\ snap'[v] = snap[v] /\ (v \in waits' <=> v \in waits)
    BY <1>16 DEF Listed, Rest, Go, history, Types, WorkerTypes
  <2>2. batch[w] = {} /\ left[w] = {}
    BY <2>1 DEF StepsInv, Steps
  <2>3. w \notin waits' /\ batch'[w] = {} /\ left'[w] = {}
    BY <1>16, <2>2 DEF Listed, Rest, Types, WorkerTypes
  <2>4. \/ at'[w] = "idle" /\ got'[w] = {}
        \/ at'[w] = "import" /\ w # Caller
    BY <1>16, OfflineAssumption DEF Listed, Rest, Go, Types, WorkerTypes
  <2>5. Steps(w)'
    BY <2>3, <2>4 DEF Steps, ServerSteps, ListSteps
  <2>6. ASSUME NEW v \in Workers, v # w PROVE Steps(v)'
    BY <2>1, <2>6 DEF StepsInv, Steps, ListLength
  <2>7. QED
    BY <2>5, <2>6 DEF StepsInv
<1>17. ASSUME NEW w \in Workers, PostReply(w) PROVE StepsInv'
  BY <1>17 DEF PostReply, StepsInv, Steps, Types, ServerTypes, DeviceTypes,
     WorkerTypes, HistoryTypes, ServerSteps, ListSteps, server, device,
     worker, history
<1>18. ASSUME NEW w \in Workers, PostEnds(w) PROVE StepsInv'
  BY <1>18 DEF PostEnds, Rest, Go, StepsInv, Steps, Types, ServerTypes,
     DeviceTypes, WorkerTypes, HistoryTypes, ServerSteps, ListSteps, server,
     device, worker, history
<1>19. ASSUME NEW w \in Workers, Dequeue(w) PROVE StepsInv'
  BY <1>19 DEF Dequeue, Rest, Go, StepsInv, Steps, Types, ServerTypes,
     DeviceTypes, WorkerTypes, HistoryTypes, ServerSteps, ListSteps, server,
     device, worker, history
<1>20. ASSUME NEW w \in Workers, ListFails(w) PROVE StepsInv'
  BY <1>20 DEF ListFails, Rest, Go, Miss, Fault, StepsInv, Steps, Types,
     ServerTypes, DeviceTypes, WorkerTypes, HistoryTypes, ServerSteps,
     ListSteps, server, device, worker, history
<1>21. ASSUME NEW w \in Workers, PostFails(w) PROVE StepsInv'
  BY <1>21 DEF PostFails, Rest, Go, Fault, StepsInv, Steps, Types,
     ServerTypes, DeviceTypes, WorkerTypes, HistoryTypes, ServerSteps,
     ListSteps, server, device, worker, history
<1>22. ASSUME NEW w \in Workers, Leave(w) PROVE StepsInv'
  BY <1>22 DEF Leave, Fault, StepsInv, Steps, Types, ServerTypes, DeviceTypes,
     WorkerTypes, HistoryTypes, ServerSteps, ListSteps, server, device,
     worker, history
<1>23. ASSUME NEW n \in 1..MaxMsg, Tap(n) PROVE StepsInv'
  BY <1>23 DEF Tap, StepsInv, Steps, Types, ServerTypes, DeviceTypes,
     WorkerTypes, HistoryTypes, ServerSteps, ListSteps, server, device,
     worker, history
<1>24. ASSUME NEW n \in 1..MaxMsg, TapReport(n) PROVE StepsInv'
  BY <1>24 DEF TapReport, Report, StepsInv, Steps, Types, ServerTypes,
     DeviceTypes, WorkerTypes, HistoryTypes, ServerSteps, ListSteps, server,
     device, worker, history
<1>25. ASSUME NEW n \in 1..MaxMsg, TapFails(n) PROVE StepsInv'
  BY <1>25 DEF TapFails, Fault, StepsInv, Steps, Types, ServerTypes,
     DeviceTypes, WorkerTypes, HistoryTypes, ServerSteps, ListSteps, server,
     device, worker, history
<1>26. ASSUME NEW n \in 1..MaxMsg, TapClear(n) PROVE StepsInv'
  BY <1>26 DEF TapClear, Clear, StepsInv, Steps, Types, ServerTypes,
     DeviceTypes, WorkerTypes, HistoryTypes, ServerSteps, ListSteps, server,
     device, worker, history
<1>27. ASSUME NEW r \in Replies, QueueReply(r) PROVE StepsInv'
  BY <1>27 DEF QueueReply, StepsInv, Steps, Types, ServerTypes, DeviceTypes,
     WorkerTypes, HistoryTypes, ServerSteps, ListSteps, server, device,
     worker, history
<1>28. ASSUME NEW r \in Replies, Withdraw(r) PROVE StepsInv'
  BY <1>28 DEF Withdraw, StepsInv, Steps, Types, ServerTypes, DeviceTypes,
     WorkerTypes, HistoryTypes, ServerSteps, ListSteps, server, device,
     worker, history
<1>29. ASSUME AppDies PROVE StepsInv'
  BY <1>29 DEF AppDies, Miss, Fault, StepsInv, Steps, Types, ServerTypes,
     DeviceTypes, WorkerTypes, HistoryTypes, ServerSteps, ListSteps, server,
     device, worker, history
<1>30. ASSUME UNCHANGED vars PROVE StepsInv'
  BY <1>30 DEF vars, StepsInv, Steps, Types, ServerTypes, DeviceTypes,
     WorkerTypes, HistoryTypes, ServerSteps, ListSteps, server, device,
     worker, history
<1>31. QED
  BY <1>1, <1>2, <1>3, <1>4, <1>5, <1>6, <1>7, <1>8, <1>9, <1>10, <1>11,
     <1>12, <1>13, <1>14, <1>15, <1>16, <1>17, <1>18, <1>19, <1>20, <1>21,
     <1>22, <1>23, <1>24, <1>25, <1>26, <1>27, <1>28, <1>29, <1>30 DEF Next,
     SyncStep, WorkerStep, UserStep

-----------------------------------------------------------------------------
(* The marks: what the server counts as given.                             *)

Had(c, m) == m \in have[c] \cup missed[c] \cup purged \cup deleted
Same(w) == at'[w] = at[w] /\ got'[w] = got[w] /\ area'[w] = area[w]
Elsewhere(w) ==
  /\ at[w] \notin {"list", "set", "import"}
  /\ at'[w] \notin {"list", "set", "import"}
NothingLost ==
  \A c \in Clients, m \in Messages : Kept(c, m) => Kept(c, m)'

\* A message stays kept if it stays where it was, or in the answer.
LEMMA KeptStays ==
  ASSUME NEW c \in Clients, NEW m \in Messages, Kept(c, m),
         Had(c, m) => Had(c, m)',
         \A w \in Workers : Client(w) = c /\ Answering(w) /\ m \in Given(w)
           => Had(c, m)' \/ (Answering(w)' /\ m \in Given(w)')
  PROVE  Kept(c, m)'
BY DEF Kept, Had, Client

\* A worker that does nothing has the same answer.
LEMMA SameAnswer ==
  ASSUME NEW w \in Workers, Same(w)
  PROVE  /\ Answering(w)' <=> Answering(w)
         /\ Given(w)' = Given(w) /\ Listing(w)' = Listing(w)
         /\ Area(w)' = Area(w)
BY DEF Same, Answering, Given, Listing, Area

\* So what it is about to set its mark to stays right.
LEMMA SameSetInv ==
  ASSUME NEW w \in Workers, Same(w), SetInv(w), NothingLost
  PROVE  SetInv(w)'
<1>1. Listing(w)' = Listing(w) /\ Area(w)' = Area(w)
  BY SameAnswer
<1>2. Client(w) \in Clients
  BY DEF Client, Clients
<1>3. ASSUME at'[w] = "list" PROVE \A m \in got'[w] : Position(m) < area'[w]
  BY <1>3 DEF Same, SetInv
<1>4. ASSUME at'[w] = "set"
      PROVE  /\ Listing(w)' # {} /\ \A m \in got'[w] : Position(m) <= area'[w]
             /\ \A m \in Messages : \A n \in Listing(w)' :
                  m[1] = Area(w)' /\ m[2] <= n
                    => m \in got'[w] \/ Kept(Client(w), m)'
  <2>1. at[w] = "set" /\ got'[w] = got[w] /\ area'[w] = area[w]
    BY <1>4 DEF Same
  <2>2. Listing(w) # {} /\ \A m \in got[w] : Position(m) <= area[w]
    BY <2>1 DEF SetInv
  <2>3. ASSUME NEW m \in Messages, NEW n \in Listing(w)', m[1] = Area(w)',
               m[2] <= n
        PROVE  m \in got'[w] \/ Kept(Client(w), m)'
    <3>1. m \in got[w] \/ Kept(Client(w), m)
      BY <1>1, <2>1, <2>3 DEF SetInv
    <3>2. QED
      BY <1>2, <2>1, <3>1 DEF NothingLost
  <2>4. QED
    BY <1>1, <2>1, <2>2, <2>3
<1>5. QED
  BY <1>3, <1>4 DEF SetInv, Client

\* Nothing is lost by a step that leaves the answers alone.
LEMMA QuietKeeps ==
  ASSUME \A w \in Workers : Same(w) \/ Elsewhere(w),
         \A c \in Clients, m \in Messages : Had(c, m) => Had(c, m)'
  PROVE  NothingLost
<1> SUFFICES ASSUME NEW c \in Clients, NEW m \in Messages, Kept(c, m)
             PROVE  Kept(c, m)'
  BY DEF NothingLost
<1>1. ASSUME NEW w \in Workers, Answering(w), m \in Given(w)
      PROVE  Answering(w)' /\ m \in Given(w)'
  <2>1. Same(w)
    BY <1>1 DEF Answering, Elsewhere
  <2>2. QED
    BY <1>1, <2>1, SameAnswer
<1>2. QED
  BY <1>1, KeptStays

\* Then the invariant stays if the marks do.
LEMMA QuietStep ==
  ASSUME AnswerInv, last' = last,
         \A w \in Workers : Same(w) \/ Elsewhere(w),
         \A c \in Clients, m \in Messages : Had(c, m) => Had(c, m)'
  PROVE  AnswerInv'
<1>1. NothingLost
  BY QuietKeeps
<1>2. MarkInv'
  BY <1>1 DEF AnswerInv, MarkInv, NothingLost
<1>3. ASSUME NEW w \in Workers PROVE SetInv(w)'
  <2>1. CASE Same(w)
    BY <1>1, <2>1, SameSetInv DEF AnswerInv
  <2>2. CASE Elsewhere(w)
    BY <2>2 DEF Elsewhere, SetInv
  <2>3. QED
    BY <2>1, <2>2
<1>4. QED
  BY <1>2, <1>3 DEF AnswerInv

\* Nothing is lost by a step of one worker that keeps what it has given.
LEMMA OneKeeps ==
  ASSUME NEW w \in Workers, \A v \in Workers : v # w => Same(v),
         \A c \in Clients, m \in Messages : Had(c, m) => Had(c, m)',
         \A m \in Messages : Answering(w) /\ m \in Given(w) =>
           Had(Client(w), m)' \/ (Answering(w)' /\ m \in Given(w)')
  PROVE  NothingLost
<1> SUFFICES ASSUME NEW c \in Clients, NEW m \in Messages, Kept(c, m)
             PROVE  Kept(c, m)'
  BY DEF NothingLost
<1>1. ASSUME NEW v \in Workers, Client(v) = c, Answering(v), m \in Given(v)
      PROVE  Had(c, m)' \/ (Answering(v)' /\ m \in Given(v)')
  <2>1. CASE v = w
    BY <1>1, <2>1
  <2>2. CASE v # w
    BY <1>1, <2>2, SameAnswer
  <2>3. QED
    BY <2>1, <2>2
<1>2. QED
  BY <1>1, KeptStays

\* The invariant after a step of one worker that leaves the marks.
LEMMA OneStep ==
  ASSUME AnswerInv, last' = last, NothingLost, NEW w \in Workers,
         \A v \in Workers : v # w => Same(v), SetInv(w)'
  PROVE  AnswerInv'
<1>1. MarkInv'
  BY DEF AnswerInv, MarkInv, NothingLost
<1>2. ASSUME NEW v \in Workers PROVE SetInv(v)'
  BY SameSetInv DEF AnswerInv
<1>3. QED
  BY <1>1, <1>2 DEF AnswerInv

\* An answer is begun: nothing is in it yet.
LEMMA AskAnswers ==
  ASSUME Types, StepsInv, AnswerInv, NEW w \in Workers, Ask(w)
  PROVE  AnswerInv'
<1>1. at[w] \in {"idle", "ask"} /\ at'[w] = "list" /\ got'[w] = got[w]
  BY DEF Ask, Go, Types, WorkerTypes
<1>2. got[w] = {}
  BY <1>1 DEF StepsInv, Steps
<1>3. \A v \in Workers : v # w => Same(v)
  BY DEF Ask, Go, Same, Types, WorkerTypes
<1>4. \A c \in Clients, m \in Messages : Had(c, m) => Had(c, m)'
  BY DEF Ask, Had, server, device, history
<1>5. NothingLost
  BY <1>1, <1>3, <1>4, OneKeeps DEF Answering
<1>6. SetInv(w)'
  BY <1>1, <1>2 DEF SetInv
<1>7. QED
  BY <1>3, <1>5, <1>6, OneStep DEF Ask, server

\* Where an area is in the order of the list.
LEMMA AreaPosition ==
  ASSUME Types, NEW w \in Workers, area[w] <= ListLength(w)
  PROVE  \A m \in Messages : m[1] = Area(w) <=> Position(m) = area[w]
<1>1. area[w] \in 1..LastArea
  <2>1. ListLength(w) \in Nat /\ ListLength(w) <= LastArea
    BY AreaFacts DEF ListLength, LastArea
  <2>2. QED
    BY <2>1, MaxFact DEF Types, WorkerTypes
<1>2. \A m \in Messages : m[1] \in Conferences \cup {Netmail}
  BY DEF Messages, Areas
<1>3. Conferences = 1..(LastArea - 1) /\ LastArea \in Nat \ {0} /\ Netmail = 0
  BY AreaFacts
<1>4. CASE area[w] \in Conferences
  BY <1>1, <1>2, <1>3, <1>4 DEF Area, Position
<1>5. CASE area[w] = LastArea
  BY <1>1, <1>2, <1>3, <1>5 DEF Area, Position
<1>6. QED
  BY <1>1, <1>3, <1>4, <1>5

\* A listing has all that is new up to its last number.
LEMMA NewClosed ==
  ASSUME NEW w \in Workers, NEW k \in New(w),
         NEW m \in Fresh(Area(w), Mark(w)), m[2] <= k[2]
  PROVE  m \in New(w)
<1>1. Fresh(Area(w), Mark(w)) \subseteq Messages
  BY DEF Fresh
<1>2. CASE w = Caller
  BY <1>2 DEF New
<1>3. CASE w # Caller
  BY <1>1, <1>3, FirstClosed, OfflineAssumption DEF New
<1>4. QED
  BY <1>2, <1>3

\* The listing of an area: what is at or before the last number listed was
\* given already, is deleted, or is in the answer.
LEMMA ListAnswers ==
  ASSUME Types, StepsInv, AnswerInv, NEW w \in Workers, List(w)
  PROVE  AnswerInv'
<1>1. /\ at[w] = "list" /\ area[w] <= ListLength(w)
      /\ got'[w] = got[w] \cup New(w)
  BY DEF List, Types, WorkerTypes
<1>2. /\ UNCHANGED <<last, deleted, have, missed, purged>>
      /\ \A v \in Workers : v # w => Same(v)
  BY DEF List, Go, Same, server, device, history, Types, WorkerTypes
<1>3. \A c \in Clients, m \in Messages : Had(c, m) => Had(c, m)'
  BY <1>2 DEF Had
<1>4. \A m \in got[w] : m \in Messages /\ Position(m) < area[w]
  BY <1>1, Answers DEF AnswerInv, SetInv, Types
<1>5. CASE New(w) = {}
  <2>1. at'[w] = "list" /\ area'[w] = area[w] + 1 /\ got'[w] = got[w]
    BY <1>1, <1>5 DEF List, Types, WorkerTypes
  <2>2. NothingLost
    BY <1>1, <1>2, <1>3, <2>1, OneKeeps DEF Answering, Given
  <2>3. \A m \in got[w] : Position(m) < area[w] + 1
    <3>1. \A m \in Messages : Position(m) \in Nat
      BY AreaFacts DEF Position
    <3>2. area[w] \in Nat
      BY MaxFact DEF Types, WorkerTypes
    <3>3. QED
      BY <1>4, <3>1, <3>2
  <2>4. SetInv(w)'
    BY <2>1, <2>3 DEF SetInv
  <2>5. QED
    BY <1>2, <2>2, <2>4, OneStep
<1>6. CASE New(w) # {}
  <2>1. at'[w] = "set" /\ area'[w] = area[w]
    BY <1>6 DEF List, Go, Types, WorkerTypes
  <2>2. Area(w)' = Area(w)
    BY <2>1 DEF Area
  <2>3. \A m \in Messages : m[1] = Area(w) <=> Position(m) = area[w]
    BY <1>1, AreaPosition
  <2>4. \A m \in got[w] : m[1] # Area(w)
    <3>1. area[w] \in Nat
      BY MaxFact DEF Types, WorkerTypes
    <3>2. QED
      BY <1>4, <2>3, <3>1
  <2>5. NothingLost
    BY <1>1, <1>2, <1>3, <2>1, <2>2, <2>4, OneKeeps DEF Answering, Given
  <2>6. \A m \in New(w) : m \in Messages /\ m[1] = Area(w)
    BY DEF New, Fresh, First
  <2>7. Listing(w)' = {m[2] : m \in New(w)}
    BY <1>1, <2>2, <2>4, <2>6 DEF Listing
  <2>8. \A m \in got'[w] : Position(m) <= area'[w]
    <3>1. \A m \in Messages : Position(m) \in Nat
      BY AreaFacts DEF Position
    <3>2. area[w] \in Nat
      BY MaxFact DEF Types, WorkerTypes
    <3>3. QED
      BY <1>1, <1>4, <2>1, <2>3, <2>6, <3>1, <3>2
  <2>9. ASSUME NEW m \in Messages, NEW k \in New(w), m[1] = Area(w),
               m[2] <= k[2]
        PROVE  m \in got'[w] \/ Kept(Client(w), m)'
    <3>1. Client(w) \in Clients /\ Area(w) \in Areas
      BY DEF Client, Clients, Area, Areas
    <3>2. CASE m[2] <= Mark(w)
      <4>1. Kept(Client(w), m)
        BY <2>9, <3>1, <3>2 DEF AnswerInv, MarkInv, Mark
      <4>2. QED
        BY <2>5, <3>1, <4>1 DEF NothingLost
    <3>3. CASE m \in deleted
      BY <1>2, <3>3 DEF Kept
    <3>4. CASE m \notin deleted /\ ~(m[2] <= Mark(w))
      <4>1. m[2] \in Nat /\ k[2] \in Nat /\ k[2] <= high[Area(w)]
        BY <2>6, MaxFact DEF Messages, New, Fresh, First
      <4>2. high[Area(w)] \in Nat /\ Mark(w) \in Nat
        BY <3>1, MaxFact DEF Types, ServerTypes, Mark
      <4>3. m \in Fresh(Area(w), Mark(w))
        BY <2>9, <3>4, <4>1, <4>2 DEF Fresh
      <4>4. QED
        BY <1>1, <2>9, <4>3, NewClosed
    <3>5. QED
      BY <3>2, <3>3, <3>4
  <2>10. SetInv(w)'
    <3>1. Listing(w)' # {}
      BY <1>6, <2>7
    <3>2. \A m \in Messages : \A n \in Listing(w)' :
            m[1] = Area(w)' /\ m[2] <= n
              => m \in got'[w] \/ Kept(Client(w), m)'
      BY <2>2, <2>7, <2>9
    <3>3. QED
      BY <2>1, <2>8, <3>1, <3>2 DEF SetInv, Client
  <2>11. QED
    BY <1>2, <2>5, <2>10, OneStep
<1>7. QED
  BY <1>5, <1>6

\* The mark moves to the last number listed: what is at or before it is
\* given with this answer.
LEMMA SetLastAnswers ==
  ASSUME Types, StepsInv, AnswerInv, NEW w \in Workers, SetLast(w)
  PROVE  AnswerInv'
<1> DEFINE n == Max(Listing(w))
<1>1. /\ at[w] = "set" /\ at'[w] = "list" /\ got'[w] = got[w]
      /\ area'[w] = area[w] + 1
      /\ UNCHANGED <<deleted, have, missed, purged>>
      /\ \A v \in Workers : v # w => Same(v)
  BY DEF SetLast, Go, Same, device, history, Types, WorkerTypes
<1>2. n \in Listing(w) /\ Area(w) \in Areas /\ Client(w) \in Clients
  BY <1>1, LastListed DEF AnswerInv, Types
<1>3. last' = [last EXCEPT ![Client(w)][Area(w)] = n]
  BY DEF SetLast
<1> HIDE DEF n
<1>4. \A c \in Clients, m \in Messages : Had(c, m) => Had(c, m)'
  BY <1>1 DEF Had
<1>5. NothingLost
  BY <1>1, <1>4, OneKeeps DEF Answering, Given
<1>6. ASSUME NEW c \in Clients, NEW m \in Messages, m[2] <= last'[c][m[1]]
      PROVE  Kept(c, m)'
  <2>1. m[1] \in Areas
    BY DEF Messages
  <2>2. CASE c = Client(w) /\ m[1] = Area(w)
    <3>1. m[2] <= n
      BY <1>2, <1>3, <1>6, <2>2 DEF Types, ServerTypes
    <3>2. m \in got[w] \/ Kept(c, m)
      BY <1>1, <1>2, <2>2, <3>1 DEF AnswerInv, SetInv
    <3>3. CASE m \in got[w]
      BY <1>1, <2>2, <3>3 DEF Kept, Answering, Given, Client
    <3>4. QED
      BY <1>5, <3>2, <3>3 DEF NothingLost
  <2>3. CASE ~(c = Client(w) /\ m[1] = Area(w))
    <3>1. last'[c][m[1]] = last[c][m[1]]
      BY <1>2, <1>3, <2>1, <2>3 DEF Types, ServerTypes
    <3>2. QED
      BY <1>5, <1>6, <3>1 DEF AnswerInv, MarkInv, NothingLost
  <2>4. QED
    BY <2>2, <2>3
<1>7. ASSUME NEW v \in Workers PROVE SetInv(v)'
  <2>1. CASE v = w
    <3>1. \A m \in got[w] : m \in Messages /\ Position(m) <= area[w]
      BY <1>1, Answers DEF AnswerInv, SetInv, Types
    <3>2. \A m \in Messages : Position(m) \in Nat
      BY AreaFacts DEF Position
    <3>3. area[w] \in Nat
      BY MaxFact DEF Types, WorkerTypes
    <3>4. \A m \in got[w] : Position(m) < area[w] + 1
      BY <3>1, <3>2, <3>3
    <3>5. QED
      BY <1>1, <2>1, <3>4 DEF SetInv
  <2>2. CASE v # w
    BY <1>1, <1>5, <2>2, SameSetInv DEF AnswerInv
  <2>3. QED
    BY <2>1, <2>2
<1>8. QED
  BY <1>6, <1>7 DEF AnswerInv, MarkInv

\* There is no answer: what was given with it is missed.
LEMMA ListFailsAnswers ==
  ASSUME Types, StepsInv, AnswerInv, NEW w \in Workers, ListFails(w)
  PROVE  AnswerInv'
<1>1. /\ at'[w] = "idle" /\ Miss(Client(w), Given(w))
      /\ UNCHANGED <<last, deleted, have, purged>>
      /\ \A v \in Workers : v # w => Same(v)
  BY DEF ListFails, Rest, Go, Same, server, device, Types, WorkerTypes
<1>2. Client(w) \in Clients
  BY DEF Client, Clients
<1>3. /\ \A c \in Clients : missed[c] \subseteq missed'[c]
      /\ Given(w) \subseteq missed'[Client(w)]
  BY <1>1, <1>2 DEF Miss, Types, HistoryTypes
<1>4. \A c \in Clients, m \in Messages : Had(c, m) => Had(c, m)'
  BY <1>1, <1>3 DEF Had
<1>5. \A m \in Given(w) : Had(Client(w), m)'
  BY <1>3 DEF Had, Client
<1>6. NothingLost
  BY <1>1, <1>4, <1>5, OneKeeps
<1>7. SetInv(w)'
  BY <1>1 DEF SetInv
<1>8. QED
  BY <1>1, <1>6, <1>7, OneStep

\* An answer that goes to the client, or is missed, leaves nothing behind.
LEMMA ListedMoves ==
  ASSUME Types, AnswerInv, NEW w \in Workers, at[w] = "list",
         at'[w] \in {"idle", "import"}, UNCHANGED <<last, deleted, purged>>,
         \A v \in Workers : v # w => Same(v),
         \A c \in Clients : /\ have[c] \subseteq have'[c]
                             /\ missed[c] \subseteq missed'[c],
         Given(w) \subseteq missed'[Client(w)] \cup have'[Client(w)]
  PROVE  AnswerInv'
<1>1. \A c \in Clients, m \in Messages : Had(c, m) => Had(c, m)'
  BY DEF Had
<1>2. \A m \in Given(w) : Had(Client(w), m)'
  BY DEF Had, Client
<1>3. NothingLost
  BY <1>1, <1>2, OneKeeps
<1>4. SetInv(w)'
  BY DEF SetInv
<1>5. QED
  BY <1>3, <1>4, OneStep

\* The answer is complete: it is lost, in the reader, or about to be
\* imported.
LEMMA ListedAnswers ==
  ASSUME Types, StepsInv, AnswerInv, NEW w \in Workers, Listed(w)
  PROVE  AnswerInv'
<1>1. /\ at[w] = "list" /\ at'[w] \in {"idle", "import"}
      /\ UNCHANGED <<last, deleted, purged>>
      /\ \A v \in Workers : v # w => Same(v)
  BY DEF Listed, Rest, Go, Same, server, history, Types, WorkerTypes
<1>2. Client(w) \in Clients /\ Given(w) = got[w]
  BY <1>1 DEF Client, Clients, Given
<1>3. CASE Miss(Client(w), Given(w)) /\ have' = have
  <2>1. /\ \A c \in Clients : missed[c] \subseteq missed'[c]
        /\ Given(w) \subseteq missed'[Client(w)]
    BY <1>2, <1>3 DEF Miss, Types, HistoryTypes
  <2>2. QED
    BY <1>1, <1>3, <2>1, ListedMoves
<1>4. CASE have' = [have EXCEPT ![Client(w)] = @ \cup got[w]] /\ missed' = missed
  <2>1. /\ \A c \in Clients : have[c] \subseteq have'[c]
        /\ Given(w) \subseteq have'[Client(w)]
    BY <1>2, <1>4 DEF Types, DeviceTypes
  <2>2. QED
    BY <1>1, <1>4, <2>1, ListedMoves
<1>5. CASE at'[w] = "import" /\ UNCHANGED <<have, missed, got>>
  <2>1. \A c \in Clients, m \in Messages : Had(c, m) => Had(c, m)'
    BY <1>1, <1>5 DEF Had
  <2>2. Answering(w)' /\ Given(w)' = got[w]
    BY <1>5 DEF Answering, Given
  <2>3. NothingLost
    BY <1>1, <1>2, <2>1, <2>2, OneKeeps
  <2>4. SetInv(w)'
    BY <1>5 DEF SetInv
  <2>5. QED
    BY <1>1, <2>3, <2>4, OneStep
<1>6. QED
  BY <1>3, <1>4, <1>5, OfflineAssumption DEF Listed, Client, Go, Types, WorkerTypes

\* What is imported is on the device.
LEMMA ImportAnswers ==
  ASSUME Types, StepsInv, AnswerInv, NEW s \in Syncs, Import(s)
  PROVE  AnswerInv'
<1>1. /\ s \in Workers /\ at[s] = "import" /\ Client(s) = "app"
      /\ at'[s] \in {"import", "queue"}
      /\ UNCHANGED <<last, deleted, purged, missed>>
      /\ \A v \in Workers : v # s => Same(v)
  BY MaxFact, OfflineAssumption
     DEF Import, Client, Go, Same, server, worker, history, Types, WorkerTypes
<1>2. /\ \A c \in Clients : have[c] \subseteq have'[c]
      /\ got[s] \subseteq got'[s] \cup have'["app"]
      /\ at'[s] = "queue" => got[s] = {}
  BY <1>1 DEF Import, Go, Types, DeviceTypes, WorkerTypes, Clients
<1>3. \A c \in Clients, m \in Messages : Had(c, m) => Had(c, m)'
  BY <1>1, <1>2 DEF Had
<1>4. ASSUME NEW m \in Given(s)
      PROVE  Had(Client(s), m)' \/ (Answering(s)' /\ m \in Given(s)')
  <2>1. m \in got[s] /\ at'[s] = "import"
    BY <1>1, <1>2 DEF Given
  <2>2. CASE m \in got'[s]
    BY <2>1, <2>2 DEF Answering, Given
  <2>3. CASE m \in have'["app"]
    BY <1>1, <2>3 DEF Had, Client
  <2>4. QED
    BY <1>2, <2>1, <2>2, <2>3
<1>5. NothingLost
  BY <1>1, <1>3, <1>4, OneKeeps
<1>6. SetInv(s)'
  BY <1>1 DEF SetInv
<1>7. QED
  BY <1>1, <1>5, <1>6, OneStep

\* The app dies: what it had not imported is missed; the server's handlers
\* and the caller's session go on.
LEMMA AppDiesAnswers ==
  ASSUME Types, StepsInv, AnswerInv, AppDies
  PROVE  AnswerInv'
<1> DEFINE dead == {s \in Syncs : at[s] \notin ServerSteps}
           ms == UNION {got[s] : s \in {d \in dead : at[d] = "import"}}
<1>1. /\ UNCHANGED <<last, deleted, purged, have>> /\ Miss("app", ms)
      /\ \A w \in Workers : w \notin dead => Same(w)
      /\ \A w \in dead : at'[w] = "idle"
  BY MaxFact DEF AppDies, server, Same
<1>2. /\ \A c \in Clients : missed[c] \subseteq missed'[c]
      /\ ms \subseteq missed'["app"]
  BY <1>1 DEF Miss, Types, HistoryTypes, Clients
<1>3. \A c \in Clients, m \in Messages : Had(c, m) => Had(c, m)'
  BY <1>1, <1>2 DEF Had
<1>4. ASSUME NEW w \in Workers, Answering(w), NEW m \in Messages, m \in Given(w)
      PROVE  Had(Client(w), m)' \/ (Answering(w)' /\ m \in Given(w)')
  <2>1. CASE w \in dead
    <3>1. at[w] = "import" /\ Client(w) = "app" /\ m \in got[w]
      BY <1>4, <2>1, OfflineAssumption
         DEF Answering, ServerSteps, ListSteps, Client, Given
    <3>2. m \in ms
      BY <2>1, <3>1
    <3>3. QED
      BY <1>2, <3>1, <3>2 DEF Had, Client
  <2>2. CASE w \notin dead
    BY <1>1, <1>4, <2>2, SameAnswer
  <2>3. QED
    BY <2>1, <2>2
<1>5. NothingLost
  BY <1>3, <1>4, KeptStays DEF NothingLost
<1>6. ASSUME NEW w \in Workers PROVE SetInv(w)'
  <2>1. CASE w \in dead
    BY <1>1, <2>1 DEF SetInv
  <2>2. CASE w \notin dead
    BY <1>1, <1>5, <2>2, SameSetInv DEF AnswerInv
  <2>3. QED
    BY <2>1, <2>2
<1>7. QED
  BY <1>1, <1>5, <1>6 DEF AnswerInv, MarkInv, NothingLost

\* Every step keeps marks and answers.
LEMMA StepKeepsAnswers ==
  ASSUME Types, StepsInv, AnswerInv, [Next]_vars
  PROVE  AnswerInv'
<1> USE MaxFact
<1>1. ASSUME NEW a \in Areas, Post(a) PROVE AnswerInv'
  <2>1. last' = last /\ \A u \in Workers : Same(u) \/ Elsewhere(u)
    BY <1>1 DEF Post, server, device, worker, history, Same, Elsewhere, StepsInv,
       Steps, Types, WorkerTypes
  <2>2. \A c \in Clients, m \in Messages : Had(c, m) => Had(c, m)'
    BY <1>1 DEF Post, server, device, worker, history, Had, Types, DeviceTypes
  <2>3. QED
    BY <2>1, <2>2, QuietStep
<1>2. ASSUME NEW s \in Syncs, Begin(s) PROVE AnswerInv'
  <2>1. last' = last /\ \A u \in Workers : Same(u) \/ Elsewhere(u)
    BY <1>2 DEF Begin, Go, server, device, worker, history, Same, Elsewhere,
       StepsInv, Steps, Types, WorkerTypes
  <2>2. \A c \in Clients, m \in Messages : Had(c, m) => Had(c, m)'
    BY <1>2 DEF Begin, Go, server, device, worker, history, Had, Types,
       DeviceTypes
  <2>3. QED
    BY <2>1, <2>2, QuietStep
<1>3. ASSUME NEW s \in Syncs, PurgeDelete(s) PROVE AnswerInv'
  <2>1. last' = last /\ \A u \in Workers : Same(u) \/ Elsewhere(u)
    BY <1>3 DEF PurgeDelete, server, device, worker, history, Same, Elsewhere,
       StepsInv, Steps, Types, WorkerTypes
  <2>2. \A c \in Clients, m \in Messages : Had(c, m) => Had(c, m)'
    BY <1>3 DEF PurgeDelete, server, device, worker, history, Had, Types,
       DeviceTypes
  <2>3. QED
    BY <2>1, <2>2, QuietStep
<1>4. ASSUME NEW s \in Syncs, PurgeLocal(s) PROVE AnswerInv'
  <2>1. last' = last /\ \A u \in Workers : Same(u) \/ Elsewhere(u)
    BY <1>4 DEF PurgeLocal, Go, Fault, server, device, worker, history, Same,
       Elsewhere, StepsInv, Steps, Types, WorkerTypes
  <2>2. \A c \in Clients, m \in Messages : Had(c, m) => Had(c, m)'
    BY <1>4 DEF PurgeLocal, Go, Fault, server, device, worker, history, Had,
       Types, DeviceTypes
  <2>3. QED
    BY <2>1, <2>2, QuietStep
<1>5. ASSUME NEW s \in Syncs, ReadPending(s) PROVE AnswerInv'
  <2>1. last' = last /\ \A u \in Workers : Same(u) \/ Elsewhere(u)
    BY <1>5 DEF ReadPending, Go, server, device, worker, history, Same,
       Elsewhere, StepsInv, Steps, Types, WorkerTypes
  <2>2. \A c \in Clients, m \in Messages : Had(c, m) => Had(c, m)'
    BY <1>5 DEF ReadPending, Go, server, device, worker, history, Had, Types,
       DeviceTypes
  <2>3. QED
    BY <2>1, <2>2, QuietStep
<1>6. ASSUME NEW s \in Syncs, SyncReport(s) PROVE AnswerInv'
  <2>1. last' = last /\ \A u \in Workers : Same(u) \/ Elsewhere(u)
    BY <1>6 DEF SyncReport, Go, Report, server, device, worker, history, Same,
       Elsewhere, StepsInv, Steps, Types, WorkerTypes
  <2>2. \A c \in Clients, m \in Messages : Had(c, m) => Had(c, m)'
    BY <1>6 DEF SyncReport, Go, Report, server, device, worker, history, Had,
       Types, DeviceTypes
  <2>3. QED
    BY <2>1, <2>2, QuietStep
<1>7. ASSUME NEW s \in Syncs, SyncClear(s) PROVE AnswerInv'
  <2>1. last' = last /\ \A u \in Workers : Same(u) \/ Elsewhere(u)
    BY <1>7 DEF SyncClear, Go, Clear, server, device, worker, history, Same,
       Elsewhere, StepsInv, Steps, Types, WorkerTypes
  <2>2. \A c \in Clients, m \in Messages : Had(c, m) => Had(c, m)'
    BY <1>7 DEF SyncClear, Go, Clear, server, device, worker, history, Had,
       Types, DeviceTypes
  <2>3. QED
    BY <2>1, <2>2, QuietStep
<1>8. ASSUME NEW s \in Syncs, Import(s) PROVE AnswerInv'
  BY <1>8, ImportAnswers
<1>9. ASSUME NEW s \in Syncs, NoReplies(s) PROVE AnswerInv'
  <2>1. last' = last /\ \A u \in Workers : Same(u) \/ Elsewhere(u)
    BY <1>9 DEF NoReplies, Rest, Go, server, device, worker, history, Same,
       Elsewhere, StepsInv, Steps, Types, WorkerTypes
  <2>2. \A c \in Clients, m \in Messages : Had(c, m) => Had(c, m)'
    BY <1>9 DEF NoReplies, Rest, Go, server, device, worker, history, Had, Types,
       DeviceTypes
  <2>3. QED
    BY <2>1, <2>2, QuietStep
<1>10. ASSUME NEW s \in Syncs, ReportFails(s) PROVE AnswerInv'
  <2>1. last' = last /\ \A u \in Workers : Same(u) \/ Elsewhere(u)
    BY <1>10 DEF ReportFails, Go, Fault, server, device, worker, history, Same,
       Elsewhere, StepsInv, Steps, Types, WorkerTypes
  <2>2. \A c \in Clients, m \in Messages : Had(c, m) => Had(c, m)'
    BY <1>10 DEF ReportFails, Go, Fault, server, device, worker, history, Had,
       Types, DeviceTypes
  <2>3. QED
    BY <2>1, <2>2, QuietStep
<1>11. ASSUME NEW s \in Syncs, SyncFails(s) PROVE AnswerInv'
  <2>1. last' = last /\ \A u \in Workers : Same(u) \/ Elsewhere(u)
    BY <1>11 DEF SyncFails, Rest, Go, Fault, server, device, worker, history,
       Same, Elsewhere, StepsInv, Steps, Types, WorkerTypes
  <2>2. \A c \in Clients, m \in Messages : Had(c, m) => Had(c, m)'
    BY <1>11 DEF SyncFails, Rest, Go, Fault, server, device, worker, history, Had,
       Types, DeviceTypes
  <2>3. QED
    BY <2>1, <2>2, QuietStep
<1>12. ASSUME NEW w \in Workers, Ask(w) PROVE AnswerInv'
  BY <1>12, AskAnswers
<1>13. ASSUME NEW w \in Workers, Upload(w) PROVE AnswerInv'
  <2>1. last' = last /\ \A u \in Workers : Same(u) \/ Elsewhere(u)
    BY <1>13 DEF Upload, Go, QueuedBy, server, device, worker, history, Same,
       Elsewhere, StepsInv, Steps, Types, WorkerTypes
  <2>2. \A c \in Clients, m \in Messages : Had(c, m) => Had(c, m)'
    BY <1>13 DEF Upload, Go, QueuedBy, server, device, worker, history, Had,
       Types, DeviceTypes
  <2>3. QED
    BY <2>1, <2>2, QuietStep
<1>14. ASSUME NEW w \in Workers, List(w) PROVE AnswerInv'
  BY <1>14, ListAnswers
<1>15. ASSUME NEW w \in Workers, SetLast(w) PROVE AnswerInv'
  BY <1>15, SetLastAnswers
<1>16. ASSUME NEW w \in Workers, Listed(w) PROVE AnswerInv'
  BY <1>16, ListedAnswers
<1>17. ASSUME NEW w \in Workers, PostReply(w) PROVE AnswerInv'
  <2>1. last' = last /\ \A u \in Workers : Same(u) \/ Elsewhere(u)
    BY <1>17 DEF PostReply, server, device, worker, history, Same, Elsewhere,
       StepsInv, Steps, Types, WorkerTypes
  <2>2. \A c \in Clients, m \in Messages : Had(c, m) => Had(c, m)'
    BY <1>17 DEF PostReply, server, device, worker, history, Had, Types,
       DeviceTypes
  <2>3. QED
    BY <2>1, <2>2, QuietStep
<1>18. ASSUME NEW w \in Workers, PostEnds(w) PROVE AnswerInv'
  <2>1. last' = last /\ \A u \in Workers : Same(u) \/ Elsewhere(u)
    BY <1>18 DEF PostEnds, Rest, Go, server, device, worker, history, Same,
       Elsewhere, StepsInv, Steps, Types, WorkerTypes
  <2>2. \A c \in Clients, m \in Messages : Had(c, m) => Had(c, m)'
    BY <1>18 DEF PostEnds, Rest, Go, server, device, worker, history, Had, Types,
       DeviceTypes
  <2>3. QED
    BY <2>1, <2>2, QuietStep
<1>19. ASSUME NEW w \in Workers, Dequeue(w) PROVE AnswerInv'
  <2>1. last' = last /\ \A u \in Workers : Same(u) \/ Elsewhere(u)
    BY <1>19 DEF Dequeue, Rest, Go, server, device, worker, history, Same,
       Elsewhere, StepsInv, Steps, Types, WorkerTypes
  <2>2. \A c \in Clients, m \in Messages : Had(c, m) => Had(c, m)'
    BY <1>19 DEF Dequeue, Rest, Go, server, device, worker, history, Had, Types,
       DeviceTypes
  <2>3. QED
    BY <2>1, <2>2, QuietStep
<1>20. ASSUME NEW w \in Workers, ListFails(w) PROVE AnswerInv'
  BY <1>20, ListFailsAnswers
<1>21. ASSUME NEW w \in Workers, PostFails(w) PROVE AnswerInv'
  <2>1. last' = last /\ \A u \in Workers : Same(u) \/ Elsewhere(u)
    BY <1>21 DEF PostFails, Rest, Go, Fault, server, device, worker, history,
       Same, Elsewhere, StepsInv, Steps, Types, WorkerTypes
  <2>2. \A c \in Clients, m \in Messages : Had(c, m) => Had(c, m)'
    BY <1>21 DEF PostFails, Rest, Go, Fault, server, device, worker, history, Had,
       Types, DeviceTypes
  <2>3. QED
    BY <2>1, <2>2, QuietStep
<1>22. ASSUME NEW w \in Workers, Leave(w) PROVE AnswerInv'
  <2>1. last' = last /\ \A u \in Workers : Same(u) \/ Elsewhere(u)
    BY <1>22 DEF Leave, Fault, server, device, worker, history, Same, Elsewhere,
       StepsInv, Steps, Types, WorkerTypes
  <2>2. \A c \in Clients, m \in Messages : Had(c, m) => Had(c, m)'
    BY <1>22 DEF Leave, Fault, server, device, worker, history, Had, Types,
       DeviceTypes
  <2>3. QED
    BY <2>1, <2>2, QuietStep
<1>23. ASSUME NEW n \in 1..MaxMsg, Tap(n) PROVE AnswerInv'
  <2>1. last' = last /\ \A u \in Workers : Same(u) \/ Elsewhere(u)
    BY <1>23 DEF Tap, server, device, worker, history, Same, Elsewhere, StepsInv,
       Steps, Types, WorkerTypes
  <2>2. \A c \in Clients, m \in Messages : Had(c, m) => Had(c, m)'
    BY <1>23 DEF Tap, server, device, worker, history, Had, Types, DeviceTypes
  <2>3. QED
    BY <2>1, <2>2, QuietStep
<1>24. ASSUME NEW n \in 1..MaxMsg, TapReport(n) PROVE AnswerInv'
  <2>1. last' = last /\ \A u \in Workers : Same(u) \/ Elsewhere(u)
    BY <1>24 DEF TapReport, Report, server, device, worker, history, Same,
       Elsewhere, StepsInv, Steps, Types, WorkerTypes
  <2>2. \A c \in Clients, m \in Messages : Had(c, m) => Had(c, m)'
    BY <1>24 DEF TapReport, Report, server, device, worker, history, Had, Types,
       DeviceTypes
  <2>3. QED
    BY <2>1, <2>2, QuietStep
<1>25. ASSUME NEW n \in 1..MaxMsg, TapFails(n) PROVE AnswerInv'
  <2>1. last' = last /\ \A u \in Workers : Same(u) \/ Elsewhere(u)
    BY <1>25 DEF TapFails, Fault, server, device, worker, history, Same,
       Elsewhere, StepsInv, Steps, Types, WorkerTypes
  <2>2. \A c \in Clients, m \in Messages : Had(c, m) => Had(c, m)'
    BY <1>25 DEF TapFails, Fault, server, device, worker, history, Had, Types,
       DeviceTypes
  <2>3. QED
    BY <2>1, <2>2, QuietStep
<1>26. ASSUME NEW n \in 1..MaxMsg, TapClear(n) PROVE AnswerInv'
  <2>1. last' = last /\ \A u \in Workers : Same(u) \/ Elsewhere(u)
    BY <1>26 DEF TapClear, Clear, server, device, worker, history, Same,
       Elsewhere, StepsInv, Steps, Types, WorkerTypes
  <2>2. \A c \in Clients, m \in Messages : Had(c, m) => Had(c, m)'
    BY <1>26 DEF TapClear, Clear, server, device, worker, history, Had, Types,
       DeviceTypes
  <2>3. QED
    BY <2>1, <2>2, QuietStep
<1>27. ASSUME NEW r \in Replies, QueueReply(r) PROVE AnswerInv'
  <2>1. last' = last /\ \A u \in Workers : Same(u) \/ Elsewhere(u)
    BY <1>27 DEF QueueReply, server, device, worker, history, Same, Elsewhere,
       StepsInv, Steps, Types, WorkerTypes
  <2>2. \A c \in Clients, m \in Messages : Had(c, m) => Had(c, m)'
    BY <1>27 DEF QueueReply, server, device, worker, history, Had, Types,
       DeviceTypes
  <2>3. QED
    BY <2>1, <2>2, QuietStep
<1>28. ASSUME NEW r \in Replies, Withdraw(r) PROVE AnswerInv'
  <2>1. last' = last /\ \A u \in Workers : Same(u) \/ Elsewhere(u)
    BY <1>28 DEF Withdraw, server, device, worker, history, Same, Elsewhere,
       StepsInv, Steps, Types, WorkerTypes
  <2>2. \A c \in Clients, m \in Messages : Had(c, m) => Had(c, m)'
    BY <1>28 DEF Withdraw, server, device, worker, history, Had, Types,
       DeviceTypes
  <2>3. QED
    BY <2>1, <2>2, QuietStep
<1>29. ASSUME AppDies PROVE AnswerInv'
  BY <1>29, AppDiesAnswers
<1>30. ASSUME UNCHANGED vars PROVE AnswerInv'
  BY <1>30, QuietStep DEF vars, server, device, worker, history, Same, Had
<1>31. QED
  BY <1>1, <1>2, <1>3, <1>4, <1>5, <1>6, <1>7, <1>8, <1>9, <1>10, <1>11,
     <1>12, <1>13, <1>14, <1>15, <1>16, <1>17, <1>18, <1>19, <1>20, <1>21,
     <1>22, <1>23, <1>24, <1>25, <1>26, <1>27, <1>28, <1>29, <1>30 DEF Next,
     SyncStep, WorkerStep, UserStep

-----------------------------------------------------------------------------
(* Replies: posted once.                                                   *)

SameBatch(w) == batch'[w] = batch[w] /\ left'[w] = left[w]
RepliesInv == BatchInv /\ PostedInv

\* The replies that RepliesOnce is about, and what it says of one.
Sure(r) == r \in asked \ (withdrawn \cup unsure)
Right(r) ==
  posted[r] = (IF r \in Skipped \/ (r \in queue /\ ~InHand(r)) THEN 0 ELSE 1)

\* A step that leaves the batches and what is posted.
LEMMA SameReplies ==
  ASSUME RepliesInv, \A w \in Workers : SameBatch(w),
         UNCHANGED <<posted, queue, withdrawn, asked, unsure>>
  PROVE  RepliesInv'
<1>1. BatchInv'
  BY DEF RepliesInv, BatchInv, SameBatch
<1>2. \A r : InHand(r)' <=> InHand(r)
  BY DEF InHand, SameBatch
<1>3. PostedInv'
  BY <1>2 DEF RepliesInv, PostedInv, RepliesOnce
<1>4. QED
  BY <1>1, <1>3 DEF RepliesInv

\* What is shown of a reply on its own.
LEMMA EachReply ==
  ASSUME \A r \in asked' : Sure(r)' => Right(r)',
         \A r \in Replies \ asked' : posted'[r] = 0, BatchInv'
  PROVE  RepliesInv'
BY DEF RepliesInv, PostedInv, RepliesOnce, Sure, Right

\* A batch is taken from the queue: what another holds already is unsure
\* from then on.
LEMMA UploadReplies ==
  ASSUME Types, StepsInv, RepliesInv, NEW w \in Workers, Upload(w)
  PROVE  RepliesInv'
<1> DEFINE Q == QueuedBy(w)
<1>1. /\ batch'[w] = Q /\ left'[w] = Q \ Skipped
      /\ \A v \in Workers : v # w => SameBatch(v)
      /\ UNCHANGED <<posted, queue, withdrawn, asked>>
      /\ unsure' = unsure \cup (Q \cap UNION {batch[v] : v \in Workers})
  BY DEF Upload, server, device, SameBatch, Types, WorkerTypes
<1>2. at[w] \in {"idle", "queue"} /\ batch[w] = {}
  BY DEF Upload, StepsInv, Steps
<1>3. Q \subseteq queue
  BY DEF QueuedBy
<1> HIDE DEF Q
<1>4. ASSUME NEW r \in Replies \ unsure', NEW u \in Workers, r \in batch'[u]
      PROVE  /\ r \in queue' \cup withdrawn'
             /\ \A v \in Workers : r \in batch'[v] => v = u
  <2>1. CASE r \in Q
    <3>1. \A v \in Workers : v # w => r \notin batch'[v]
      BY <1>1, <1>4, <2>1 DEF SameBatch
    <3>2. QED
      BY <1>1, <1>3, <1>4, <2>1, <3>1
  <2>2. CASE r \notin Q
    <3>1. \A v \in Workers : r \in batch'[v] => v # w /\ r \in batch[v]
      BY <1>1, <2>2 DEF SameBatch
    <3>2. QED
      BY <1>1, <1>4, <3>1 DEF RepliesInv, BatchInv
  <2>3. QED
    BY <2>1, <2>2
<1>5. ASSUME NEW r \in asked', Sure(r)' PROVE Right(r)'
  <2>1. Sure(r) /\ Right(r)
    BY <1>1, <1>5 DEF Sure, Right, RepliesInv, PostedInv, RepliesOnce
  <2>2. CASE r \in Skipped
    BY <1>1, <2>1, <2>2 DEF Right
  <2>3. CASE r \notin Skipped
    <3>1. \A v \in Workers :
            r \in batch'[v] \ left'[v] <=> r \in batch[v] \ left[v]
      BY <1>1, <1>2, <2>3 DEF SameBatch
    <3>2. InHand(r)' <=> InHand(r)
      BY <3>1 DEF InHand
    <3>3. QED
      BY <1>1, <2>1, <3>2 DEF Right
  <2>4. QED
    BY <2>2, <2>3
<1>6. QED
  BY <1>1, <1>4, <1>5, EachReply DEF BatchInv, RepliesInv, PostedInv

\* One reply is posted: it was queued and nobody else has it, or it is
\* unsure.
LEMMA PostReplyReplies ==
  ASSUME Types, StepsInv, RepliesInv, NEW w \in Workers, PostReply(w)
  PROVE  RepliesInv'
<1> DEFINE p == Min(left[w])
<1>1. left[w] # {} /\ left[w] \subseteq batch[w] \ Skipped /\ batch[w] \subseteq asked
  BY DEF PostReply, StepsInv, Steps
<1>2. left[w] \subseteq Replies /\ Replies \subseteq Nat
  BY OfflineAssumption DEF Types, WorkerTypes
<1>3. p \in left[w] /\ p \in Replies /\ p \in asked
  BY <1>1, <1>2, MinIn
<1>4. /\ posted' = [posted EXCEPT ![p] = Min({@ + 1, 2})]
      /\ left'[w] = left[w] \ {p} /\ batch' = batch
      /\ \A v \in Workers : v # w => left'[v] = left[v]
      /\ UNCHANGED <<queue, withdrawn, asked, unsure>>
  BY DEF PostReply, device, history, Types, WorkerTypes
<1> HIDE DEF p
<1>5. BatchInv'
  BY <1>4 DEF RepliesInv, BatchInv
<1>6. \A r \in Replies \ asked' : posted'[r] = 0
  BY <1>3, <1>4 DEF RepliesInv, PostedInv, Types, ServerTypes
<1>7. ASSUME NEW r \in asked', Sure(r)' PROVE Right(r)'
  <2>1. Sure(r) /\ Right(r) /\ r \in Replies
    BY <1>4, <1>7 DEF Sure, Right, RepliesInv, PostedInv, RepliesOnce, Types,
       DeviceTypes
  <2>2. CASE r = p
    <3>1. r \in batch[w] /\ r \notin Skipped /\ r \in Replies \ unsure
      BY <1>1, <1>3, <2>1, <2>2 DEF Sure
    <3>2. r \in queue /\ \A v \in Workers : r \in batch[v] => v = w
      BY <2>1, <3>1 DEF RepliesInv, BatchInv, Sure
    <3>3. ~InHand(r)
      BY <1>3, <2>2, <3>2 DEF InHand
    <3>4. posted[r] = 0
      BY <2>1, <3>2, <3>3 DEF Right
    <3>5. posted'[r] = 1
      BY <1>3, <1>4, <2>2, <3>4, Capped DEF Types, ServerTypes
    <3>6. InHand(r)'
      BY <1>4, <2>2, <3>1 DEF InHand
    <3>7. QED
      BY <3>1, <3>5, <3>6 DEF Right
  <2>3. CASE r # p
    <3>1. posted'[r] = posted[r]
      BY <1>4, <2>1, <2>3 DEF Types, ServerTypes
    <3>2. \A v \in Workers :
            r \in batch'[v] \ left'[v] <=> r \in batch[v] \ left[v]
      BY <1>4, <2>3
    <3>3. InHand(r)' <=> InHand(r)
      BY <3>2 DEF InHand
    <3>4. QED
      BY <1>4, <2>1, <3>1, <3>3 DEF Right
  <2>4. QED
    BY <2>2, <2>3
<1>8. QED
  BY <1>5, <1>6, <1>7, EachReply

\* A worker lets its batch go: what was posted of it is unsure from then on.
LEMMA DropReplies ==
  ASSUME Types, StepsInv, RepliesInv, NEW D, D \subseteq Workers,
         \A w \in Workers \ D : SameBatch(w),
         \A w \in D : /\ batch'[w] = {}
                      /\ batch[w] \ left[w] \subseteq unsure',
         UNCHANGED <<posted, queue, withdrawn, asked>>, unsure \subseteq unsure'
  PROVE  RepliesInv'
<1>1. BatchInv'
  <2> SUFFICES ASSUME NEW r \in Replies \ unsure', NEW w \in Workers,
                      r \in batch'[w]
               PROVE  /\ r \in queue' \cup withdrawn'
                      /\ \A v \in Workers : r \in batch'[v] => v = w
    BY DEF BatchInv
  <2>1. \A v \in Workers : r \in batch'[v] => r \in batch[v]
    BY DEF SameBatch
  <2>2. QED
    BY <2>1 DEF RepliesInv, BatchInv
<1>2. \A r \in Replies \ asked' : posted'[r] = 0
  BY DEF RepliesInv, PostedInv
<1>3. ASSUME NEW r \in asked', Sure(r)' PROVE Right(r)'
  <2>1. Sure(r) /\ Right(r) /\ r \notin unsure'
    BY <1>3 DEF Sure, Right, RepliesInv, PostedInv, RepliesOnce
  <2>2. \A v \in Workers :
          r \in batch'[v] \ left'[v] <=> r \in batch[v] \ left[v]
    BY <2>1 DEF SameBatch
  <2>3. InHand(r)' <=> InHand(r)
    BY <2>2 DEF InHand
  <2>4. QED
    BY <2>1, <2>3 DEF Right
<1>4. QED
  BY <1>1, <1>2, <1>3, EachReply

\* The batch leaves the queue: all of it is posted that is not Skipped.
LEMMA DequeueReplies ==
  ASSUME Types, StepsInv, RepliesInv, NEW w \in Workers, Dequeue(w)
  PROVE  RepliesInv'
<1>1. /\ left[w] = {} /\ batch'[w] = {} /\ left'[w] = {}
      /\ \A v \in Workers : v # w => SameBatch(v)
      /\ queue' = queue \ batch[w]
      /\ UNCHANGED <<posted, withdrawn, asked, unsure>>
  BY DEF Dequeue, Rest, server, history, SameBatch, StepsInv, Steps, Types,
     WorkerTypes
<1>2. BatchInv'
  <2> SUFFICES ASSUME NEW r \in Replies \ unsure', NEW u \in Workers,
                      r \in batch'[u]
               PROVE  /\ r \in queue' \cup withdrawn'
                      /\ \A v \in Workers : r \in batch'[v] => v = u
    BY DEF BatchInv
  <2>1. u # w /\ r \in batch[u]
    BY <1>1 DEF SameBatch
  <2>2. r \notin batch[w] /\ r \in queue \cup withdrawn
    BY <1>1, <2>1 DEF RepliesInv, BatchInv
  <2>3. ASSUME NEW v \in Workers, r \in batch'[v] PROVE v = u
    <3>1. r \in batch[v]
      BY <1>1, <2>3 DEF SameBatch
    <3>2. QED
      BY <1>1, <2>1, <3>1 DEF RepliesInv, BatchInv
  <2>4. QED
    BY <1>1, <2>2, <2>3
<1>3. \A r \in Replies \ asked' : posted'[r] = 0
  BY <1>1 DEF RepliesInv, PostedInv
<1>4. ASSUME NEW r \in asked', Sure(r)' PROVE Right(r)'
  <2>1. Sure(r) /\ Right(r)
    BY <1>1, <1>4 DEF Sure, Right, RepliesInv, PostedInv, RepliesOnce
  <2>2. CASE r \in batch[w]
    <3>1. InHand(r) /\ r \notin queue'
      BY <1>1, <2>2 DEF InHand
    <3>2. QED
      BY <1>1, <2>1, <3>1 DEF Right
  <2>3. CASE r \notin batch[w]
    <3>1. \A v \in Workers :
            r \in batch'[v] \ left'[v] <=> r \in batch[v] \ left[v]
      BY <1>1, <2>3 DEF SameBatch
    <3>2. InHand(r)' <=> InHand(r)
      BY <3>1 DEF InHand
    <3>3. QED
      BY <1>1, <2>1, <2>3, <3>2 DEF Right
  <2>4. QED
    BY <2>2, <2>3
<1>5. QED
  BY <1>2, <1>3, <1>4, EachReply

\* A reply is written: it is in no batch yet.
LEMMA QueueReplyReplies ==
  ASSUME Types, StepsInv, RepliesInv, NEW q \in Replies, QueueReply(q)
  PROVE  RepliesInv'
<1>1. /\ q \notin asked /\ asked' = asked \cup {q} /\ queue' = queue \cup {q}
      /\ UNCHANGED <<posted, withdrawn, unsure, batch, left>>
  BY DEF QueueReply, server, worker
<1>2. BatchInv'
  BY <1>1 DEF RepliesInv, BatchInv
<1>3. \A r \in Replies \ asked' : posted'[r] = 0
  BY <1>1 DEF RepliesInv, PostedInv
<1>4. \A r : InHand(r)' <=> InHand(r)
  BY <1>1 DEF InHand
<1>5. ASSUME NEW r \in asked', Sure(r)' PROVE Right(r)'
  <2>1. CASE r = q
    <3>1. posted[q] = 0
      BY <1>1 DEF RepliesInv, PostedInv
    <3>2. \A w \in Workers : q \notin batch[w]
      BY <1>1 DEF StepsInv, Steps
    <3>3. ~InHand(q)
      BY <3>2 DEF InHand
    <3>4. QED
      BY <1>1, <1>4, <2>1, <3>1, <3>3 DEF Right
  <2>2. CASE r # q
    <3>1. Sure(r) /\ Right(r)
      BY <1>1, <1>5, <2>2 DEF Sure, Right, RepliesInv, PostedInv, RepliesOnce
    <3>2. QED
      BY <1>1, <1>4, <2>2, <3>1 DEF Right
  <2>3. QED
    BY <2>1, <2>2
<1>6. QED
  BY <1>2, <1>3, <1>5, EachReply

\* A reply is withdrawn.
LEMMA WithdrawReplies ==
  ASSUME Types, RepliesInv, NEW q \in Replies, Withdraw(q)
  PROVE  RepliesInv'
<1>1. /\ queue' = queue \ {q} /\ withdrawn' = withdrawn \cup {q}
      /\ UNCHANGED <<posted, asked, unsure, batch, left>>
  BY DEF Withdraw, server, worker
<1>2. BatchInv'
  BY <1>1 DEF RepliesInv, BatchInv
<1>3. \A r \in Replies \ asked' : posted'[r] = 0
  BY <1>1 DEF RepliesInv, PostedInv
<1>4. \A r : InHand(r)' <=> InHand(r)
  BY <1>1 DEF InHand
<1>5. ASSUME NEW r \in asked', Sure(r)' PROVE Right(r)'
  <2>1. r # q /\ Sure(r) /\ Right(r)
    BY <1>1, <1>5 DEF Sure, Right, RepliesInv, PostedInv, RepliesOnce
  <2>2. QED
    BY <1>1, <1>4, <2>1 DEF Right
<1>6. QED
  BY <1>2, <1>3, <1>5, EachReply

\* Every step keeps what is said of replies.
LEMMA StepKeepsReplies ==
  ASSUME Types, StepsInv, RepliesInv, [Next]_vars
  PROVE  RepliesInv'
<1>1. ASSUME NEW a \in Areas, Post(a) PROVE RepliesInv'
  <2>1. \A u \in Workers : SameBatch(u)
    BY <1>1, MaxFact DEF Post, server, device, worker, history, ListSteps,
       SameBatch, StepsInv, Steps, Types, WorkerTypes
  <2>2. UNCHANGED <<posted, queue, withdrawn, asked, unsure>>
    BY <1>1 DEF Post, server, device, worker, history
  <2>3. QED
    BY <2>1, <2>2, SameReplies
<1>2. ASSUME NEW s \in Syncs, Begin(s) PROVE RepliesInv'
  <2>1. \A u \in Workers : SameBatch(u)
    BY <1>2, MaxFact DEF Begin, Go, server, device, worker, history, ListSteps,
       SameBatch, StepsInv, Steps, Types, WorkerTypes
  <2>2. UNCHANGED <<posted, queue, withdrawn, asked, unsure>>
    BY <1>2 DEF Begin, Go, server, device, worker, history
  <2>3. QED
    BY <2>1, <2>2, SameReplies
<1>3. ASSUME NEW s \in Syncs, PurgeDelete(s) PROVE RepliesInv'
  <2>1. \A u \in Workers : SameBatch(u)
    BY <1>3, MaxFact DEF PurgeDelete, server, device, worker, history, ListSteps,
       SameBatch, StepsInv, Steps, Types, WorkerTypes
  <2>2. UNCHANGED <<posted, queue, withdrawn, asked, unsure>>
    BY <1>3 DEF PurgeDelete, server, device, worker, history
  <2>3. QED
    BY <2>1, <2>2, SameReplies
<1>4. ASSUME NEW s \in Syncs, PurgeLocal(s) PROVE RepliesInv'
  <2>1. \A u \in Workers : SameBatch(u)
    BY <1>4, MaxFact DEF PurgeLocal, Go, Fault, server, device, worker, history,
       ListSteps, SameBatch, StepsInv, Steps, Types, WorkerTypes
  <2>2. UNCHANGED <<posted, queue, withdrawn, asked, unsure>>
    BY <1>4 DEF PurgeLocal, Go, Fault, server, device, worker, history
  <2>3. QED
    BY <2>1, <2>2, SameReplies
<1>5. ASSUME NEW s \in Syncs, ReadPending(s) PROVE RepliesInv'
  <2>1. \A u \in Workers : SameBatch(u)
    BY <1>5, MaxFact DEF ReadPending, Go, server, device, worker, history,
       ListSteps, SameBatch, StepsInv, Steps, Types, WorkerTypes
  <2>2. UNCHANGED <<posted, queue, withdrawn, asked, unsure>>
    BY <1>5 DEF ReadPending, Go, server, device, worker, history
  <2>3. QED
    BY <2>1, <2>2, SameReplies
<1>6. ASSUME NEW s \in Syncs, SyncReport(s) PROVE RepliesInv'
  <2>1. \A u \in Workers : SameBatch(u)
    BY <1>6, MaxFact DEF SyncReport, Go, Report, server, device, worker, history,
       ListSteps, SameBatch, StepsInv, Steps, Types, WorkerTypes
  <2>2. UNCHANGED <<posted, queue, withdrawn, asked, unsure>>
    BY <1>6 DEF SyncReport, Go, Report, server, device, worker, history
  <2>3. QED
    BY <2>1, <2>2, SameReplies
<1>7. ASSUME NEW s \in Syncs, SyncClear(s) PROVE RepliesInv'
  <2>1. \A u \in Workers : SameBatch(u)
    BY <1>7, MaxFact DEF SyncClear, Go, Clear, server, device, worker, history,
       ListSteps, SameBatch, StepsInv, Steps, Types, WorkerTypes
  <2>2. UNCHANGED <<posted, queue, withdrawn, asked, unsure>>
    BY <1>7 DEF SyncClear, Go, Clear, server, device, worker, history
  <2>3. QED
    BY <2>1, <2>2, SameReplies
<1>8. ASSUME NEW s \in Syncs, Import(s) PROVE RepliesInv'
  <2>1. \A u \in Workers : SameBatch(u)
    BY <1>8, MaxFact DEF Import, Go, server, device, worker, history, ListSteps,
       SameBatch, StepsInv, Steps, Types, WorkerTypes
  <2>2. UNCHANGED <<posted, queue, withdrawn, asked, unsure>>
    BY <1>8 DEF Import, Go, server, device, worker, history
  <2>3. QED
    BY <2>1, <2>2, SameReplies
<1>9. ASSUME NEW s \in Syncs, NoReplies(s) PROVE RepliesInv'
  <2>1. \A u \in Workers : SameBatch(u)
    BY <1>9, MaxFact DEF NoReplies, Rest, Go, server, device, worker, history,
       ListSteps, SameBatch, StepsInv, Steps, Types, WorkerTypes
  <2>2. UNCHANGED <<posted, queue, withdrawn, asked, unsure>>
    BY <1>9 DEF NoReplies, Rest, Go, server, device, worker, history
  <2>3. QED
    BY <2>1, <2>2, SameReplies
<1>10. ASSUME NEW s \in Syncs, ReportFails(s) PROVE RepliesInv'
  <2>1. \A u \in Workers : SameBatch(u)
    BY <1>10, MaxFact DEF ReportFails, Go, Fault, server, device, worker, history,
       ListSteps, SameBatch, StepsInv, Steps, Types, WorkerTypes
  <2>2. UNCHANGED <<posted, queue, withdrawn, asked, unsure>>
    BY <1>10 DEF ReportFails, Go, Fault, server, device, worker, history
  <2>3. QED
    BY <2>1, <2>2, SameReplies
<1>11. ASSUME NEW s \in Syncs, SyncFails(s) PROVE RepliesInv'
  <2>1. \A u \in Workers : SameBatch(u)
    BY <1>11, MaxFact DEF SyncFails, Rest, Go, Fault, server, device, worker,
       history, ListSteps, SameBatch, StepsInv, Steps, Types, WorkerTypes
  <2>2. UNCHANGED <<posted, queue, withdrawn, asked, unsure>>
    BY <1>11 DEF SyncFails, Rest, Go, Fault, server, device, worker, history
  <2>3. QED
    BY <2>1, <2>2, SameReplies
<1>12. ASSUME NEW w \in Workers, Ask(w) PROVE RepliesInv'
  <2>1. \A u \in Workers : SameBatch(u)
    BY <1>12, MaxFact DEF Ask, Go, server, device, worker, history, ListSteps,
       SameBatch, StepsInv, Steps, Types, WorkerTypes
  <2>2. UNCHANGED <<posted, queue, withdrawn, asked, unsure>>
    BY <1>12 DEF Ask, Go, server, device, worker, history
  <2>3. QED
    BY <2>1, <2>2, SameReplies
<1>13. ASSUME NEW w \in Workers, Upload(w) PROVE RepliesInv'
  BY <1>13, UploadReplies
<1>14. ASSUME NEW w \in Workers, List(w) PROVE RepliesInv'
  <2>1. \A u \in Workers : SameBatch(u)
    BY <1>14, MaxFact DEF List, Go, server, device, worker, history, ListSteps,
       SameBatch, StepsInv, Steps, Types, WorkerTypes
  <2>2. UNCHANGED <<posted, queue, withdrawn, asked, unsure>>
    BY <1>14 DEF List, Go, server, device, worker, history
  <2>3. QED
    BY <2>1, <2>2, SameReplies
<1>15. ASSUME NEW w \in Workers, SetLast(w) PROVE RepliesInv'
  <2>1. \A u \in Workers : SameBatch(u)
    BY <1>15, MaxFact DEF SetLast, Go, server, device, worker, history, ListSteps,
       SameBatch, StepsInv, Steps, Types, WorkerTypes
  <2>2. UNCHANGED <<posted, queue, withdrawn, asked, unsure>>
    BY <1>15 DEF SetLast, Go, server, device, worker, history
  <2>3. QED
    BY <2>1, <2>2, SameReplies
<1>16. ASSUME NEW w \in Workers, Listed(w) PROVE RepliesInv'
  <2>1. \A u \in Workers : SameBatch(u)
    BY ZenonT(40), <1>16, MaxFact DEF Listed, Rest, Go, Miss, server, device, worker, history,
       ListSteps, SameBatch, StepsInv, Steps, Types, WorkerTypes
  <2>2. UNCHANGED <<posted, queue, withdrawn, asked, unsure>>
    BY <1>16 DEF Listed, Rest, Go, Miss, server, device, worker, history
  <2>3. QED
    BY <2>1, <2>2, SameReplies
<1>17. ASSUME NEW w \in Workers, PostReply(w) PROVE RepliesInv'
  BY <1>17, PostReplyReplies
<1>18. ASSUME NEW w \in Workers, PostEnds(w) PROVE RepliesInv'
  <2>1. CASE w \in waits
    BY <1>18, <2>1, SameReplies DEF PostEnds, server, device, SameBatch
  <2>2. CASE w \notin waits
    <3>1. /\ \A v \in Workers \ {w} : SameBatch(v)
          /\ {w} \subseteq Workers /\ unsure \subseteq unsure'
          /\ \A v \in {w} : /\ batch'[v] = {}
                            /\ batch[v] \ left[v] \subseteq unsure'
          /\ UNCHANGED <<posted, queue, withdrawn, asked>>
      BY <1>18, <2>2
         DEF PostEnds, Rest, server, device, SameBatch, Types, WorkerTypes
    <3>2. QED
      BY <3>1, DropReplies
  <2>3. QED
    BY <2>1, <2>2
<1>19. ASSUME NEW w \in Workers, Dequeue(w) PROVE RepliesInv'
  BY <1>19, DequeueReplies
<1>20. ASSUME NEW w \in Workers, ListFails(w) PROVE RepliesInv'
  <2>1. \A u \in Workers : SameBatch(u)
    BY <1>20, MaxFact DEF ListFails, Rest, Go, Miss, Fault, server, device,
       worker, history, ListSteps, SameBatch, StepsInv, Steps, Types,
       WorkerTypes
  <2>2. UNCHANGED <<posted, queue, withdrawn, asked, unsure>>
    BY <1>20 DEF ListFails, Rest, Go, Miss, Fault, server, device, worker, history
  <2>3. QED
    BY <2>1, <2>2, SameReplies
<1>21. ASSUME NEW w \in Workers, PostFails(w) PROVE RepliesInv'
  <2>1. /\ \A v \in Workers \ {w} : SameBatch(v)
        /\ {w} \subseteq Workers /\ unsure \subseteq unsure'
        /\ \A v \in {w} : /\ batch'[v] = {}
                          /\ batch[v] \ left[v] \subseteq unsure'
        /\ UNCHANGED <<posted, queue, withdrawn, asked>>
    BY <1>21 DEF PostFails, Rest, server, device, SameBatch, Types, WorkerTypes
  <2>2. QED
    BY <2>1, DropReplies
<1>22. ASSUME NEW w \in Workers, Leave(w) PROVE RepliesInv'
  <2>1. \A u \in Workers : SameBatch(u)
    BY <1>22, MaxFact DEF Leave, Fault, server, device, worker, history,
       ListSteps, SameBatch, StepsInv, Steps, Types, WorkerTypes
  <2>2. UNCHANGED <<posted, queue, withdrawn, asked, unsure>>
    BY <1>22 DEF Leave, Fault, server, device, worker, history
  <2>3. QED
    BY <2>1, <2>2, SameReplies
<1>23. ASSUME NEW n \in 1..MaxMsg, Tap(n) PROVE RepliesInv'
  <2>1. \A u \in Workers : SameBatch(u)
    BY <1>23, MaxFact DEF Tap, server, device, worker, history, ListSteps,
       SameBatch, StepsInv, Steps, Types, WorkerTypes
  <2>2. UNCHANGED <<posted, queue, withdrawn, asked, unsure>>
    BY <1>23 DEF Tap, server, device, worker, history
  <2>3. QED
    BY <2>1, <2>2, SameReplies
<1>24. ASSUME NEW n \in 1..MaxMsg, TapReport(n) PROVE RepliesInv'
  <2>1. \A u \in Workers : SameBatch(u)
    BY <1>24, MaxFact DEF TapReport, Report, server, device, worker, history,
       ListSteps, SameBatch, StepsInv, Steps, Types, WorkerTypes
  <2>2. UNCHANGED <<posted, queue, withdrawn, asked, unsure>>
    BY <1>24 DEF TapReport, Report, server, device, worker, history
  <2>3. QED
    BY <2>1, <2>2, SameReplies
<1>25. ASSUME NEW n \in 1..MaxMsg, TapFails(n) PROVE RepliesInv'
  <2>1. \A u \in Workers : SameBatch(u)
    BY <1>25, MaxFact DEF TapFails, Fault, server, device, worker, history,
       ListSteps, SameBatch, StepsInv, Steps, Types, WorkerTypes
  <2>2. UNCHANGED <<posted, queue, withdrawn, asked, unsure>>
    BY <1>25 DEF TapFails, Fault, server, device, worker, history
  <2>3. QED
    BY <2>1, <2>2, SameReplies
<1>26. ASSUME NEW n \in 1..MaxMsg, TapClear(n) PROVE RepliesInv'
  <2>1. \A u \in Workers : SameBatch(u)
    BY <1>26, MaxFact DEF TapClear, Clear, server, device, worker, history,
       ListSteps, SameBatch, StepsInv, Steps, Types, WorkerTypes
  <2>2. UNCHANGED <<posted, queue, withdrawn, asked, unsure>>
    BY <1>26 DEF TapClear, Clear, server, device, worker, history
  <2>3. QED
    BY <2>1, <2>2, SameReplies
<1>27. ASSUME NEW r \in Replies, QueueReply(r) PROVE RepliesInv'
  BY <1>27, QueueReplyReplies
<1>28. ASSUME NEW r \in Replies, Withdraw(r) PROVE RepliesInv'
  BY <1>28, WithdrawReplies
<1>29. ASSUME AppDies PROVE RepliesInv'
  <2> DEFINE dead == {s \in Syncs : at[s] \notin ServerSteps}
  <2>1. /\ \A w \in Workers \ dead : SameBatch(w)
        /\ \A w \in dead : batch'[w] = {}
        /\ unsure' = unsure \cup UNION {batch[s] : s \in dead}
        /\ UNCHANGED <<posted, queue, withdrawn, asked>>
    BY <1>29, MaxFact DEF AppDies, server, SameBatch
  <2>2. dead \subseteq Workers
    BY MaxFact
  <2>3. \A w \in dead : batch[w] \subseteq unsure'
    BY <2>1
  <2> HIDE DEF dead
  <2>4. QED
    BY <2>1, <2>2, <2>3, DropReplies
<1>30. ASSUME UNCHANGED vars PROVE RepliesInv'
  BY <1>30, SameReplies DEF vars, server, device, worker, history, SameBatch
<1>31. QED
  BY <1>1, <1>2, <1>3, <1>4, <1>5, <1>6, <1>7, <1>8, <1>9, <1>10, <1>11,
     <1>12, <1>13, <1>14, <1>15, <1>16, <1>17, <1>18, <1>19, <1>20, <1>21,
     <1>22, <1>23, <1>24, <1>25, <1>26, <1>27, <1>28, <1>29, <1>30 DEF Next,
     SyncStep, WorkerStep, UserStep

-----------------------------------------------------------------------------
(* The theorems.                                                           *)

AllInv == Types /\ StepsInv /\ AnswerInv /\ RepliesInv

\* Nothing is asked for, listed or posted at the start.
LEMMA InitInv == Init => AllInv
<1> SUFFICES ASSUME Init PROVE AllInv
  OBVIOUS
<1>1. Types
  BY MaxFact
     DEF Init, Types, ServerTypes, DeviceTypes, WorkerTypes, HistoryTypes, Labels
<1>2. StepsInv
  BY DEF Init, StepsInv, Steps
<1>3. MarkInv
  <2> SUFFICES ASSUME NEW c \in Clients, NEW m \in Messages,
                      m[2] <= last[c][m[1]]
               PROVE  FALSE
    BY DEF MarkInv
  <2>1. m[1] \in Areas /\ m[2] \in 1..MaxMsg
    BY DEF Messages
  <2>2. last[c][m[1]] = 0
    BY <2>1 DEF Init
  <2>3. QED
    BY <2>1, <2>2, MaxFact
<1>4. \A w \in Workers : SetInv(w)
  BY DEF Init, SetInv
<1>5. \A w \in Workers : batch[w] = {}
  BY DEF Init
<1>6. BatchInv
  BY <1>5 DEF BatchInv
<1>7. PostedInv
  BY DEF Init, PostedInv, RepliesOnce
<1>8. QED
  BY <1>1, <1>2, <1>3, <1>4, <1>6, <1>7 DEF AllInv, AnswerInv, RepliesInv

\* All of it is kept by every step.
LEMMA InvHolds == Spec => []AllInv
<1>1. AllInv /\ [Next]_vars => AllInv'
  <2> SUFFICES ASSUME AllInv, [Next]_vars PROVE AllInv'
    OBVIOUS
  <2>1. /\ Types /\ StepsInv /\ AnswerInv /\ RepliesInv
        /\ \A w \in Workers : SetInv(w)
    BY DEF AllInv, AnswerInv
  <2>2. Types'
    BY <2>1, StepKeepsTypes
  <2>3. StepsInv'
    BY <2>1, StepKeepsSteps
  <2>4. AnswerInv'
    BY <2>1, StepKeepsAnswers
  <2>5. RepliesInv'
    BY <2>1, StepKeepsReplies
  <2>6. QED
    BY <2>2, <2>3, <2>4, <2>5 DEF AllInv
<1>2. QED
  BY InitInv, <1>1, PTL DEF Spec

\* The types of the server, the device and the workers; somebody waits only
\* for a handler at work.
THEOREM TypeCorrect == Spec => []TypeOK
<1>1. AllInv => TypeOK
  <2> SUFFICES ASSUME Types, StepsInv PROVE TypeOK
    BY DEF AllInv
  <2>1. \A w \in waits : at[w] \in ServerSteps
    BY DEF StepsInv, Steps, Types, WorkerTypes
  <2>2. \A w \in Workers : left[w] \subseteq batch[w]
    BY DEF StepsInv, Steps
  <2>3. area \in [Workers -> 1..Cardinality(Areas) + 1]
    BY AreaFacts DEF Types, WorkerTypes
  <2>4. QED
    BY <2>1, <2>2, <2>3
       DEF TypeOK, Types, ServerTypes, DeviceTypes, WorkerTypes
<1>2. QED
  BY InvHolds, <1>1, PTL

\* No message falls between the mark that the server moves before anybody
\* knows that the answer arrives and the client: it is there, on its way,
\* purged, deleted, or in an answer that is known to be lost - with any
\* number of runs of synchronize at once (SetAppLast is unconditional, so a
\* slower run sets the mark back).
THEOREM NothingIsSkipped == Spec => []NothingSkipped
<1>1. AllInv => NothingSkipped
  <2> SUFFICES ASSUME MarkInv, NEW c \in Clients, NEW m \in Messages,
                      m[2] <= last[c][m[1]]
               PROVE  m \in have[c] \cup Coming(c) \cup missed[c] \cup purged
                        \cup deleted
    BY DEF AllInv, AnswerInv, NothingSkipped
  <2>1. Kept(c, m)
    BY DEF MarkInv
  <2>2. ASSUME NEW w \in Workers, Client(w) = c, Answering(w), m \in Given(w)
        PROVE  m \in Coming(c)
    BY <2>2 DEF Coming, Answering, Given
  <2>3. QED
    BY <2>1, <2>2 DEF Kept
<1>2. QED
  BY InvHolds, <1>1, PTL

\* A reply that was not withdrawn is queued, or was posted once, never both
\* and never neither, for any number of runs that upload at once; only one
\* whose answer was lost, or that two runs took, may be posted again.
THEOREM PostedOnce == Spec => []RepliesOnce
<1>1. AllInv => RepliesOnce
  BY DEF AllInv, RepliesInv, PostedInv
<1>2. QED
  BY InvHolds, <1>1, PTL
==============================================================================
