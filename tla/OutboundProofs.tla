---------------------------- MODULE OutboundProofs ----------------------------
(***************************************************************************)
(* Theorems about Outbound, for any network, any netmail, file echo,       *)
(* polls, calls and scans, and any faults.                                 *)
(*                                                                         *)
(* NothingAstray is strengthened by what becomes of every file (KeptInv:   *)
(* it is in the directory, with its peer, or lost in a way the code        *)
(* knows), by what a session that will delete a file has done with it      *)
(* (SentInv), and by what those who write have finished before they mark   *)
(* it (QueueInv, ScanInv).                                                 *)
(***************************************************************************)
EXTENDS Outbound, FiniteSetTheorems, WellFoundedInduction, TLAPS

Letters == [kind : {"pkt"}, of : Mails, to : Peers, dir : {Base, Sub},
            copy : Nat \ {0}]
Copied == [kind : {"payload", "tic"}, of : Items, to : Peers, dir : {Base},
           copy : Nat \ {0}]
Files == Letters \cup Copied

FileTypes ==
  /\ cast \in Casts /\ whole \subseteq present /\ present \subseteq made
  /\ made \subseteq Files /\ IsFiniteSet(made) /\ torn \subseteq made
QueueTypes ==
  /\ row \in [Mails -> {"none", "queued", "sent"}] /\ recorded \subseteq Mails
  /\ rows \in [Pollers -> SUBSET Mails]
  /\ letter \in [Pollers -> made \cup {NoLetter}]
  /\ step \in [Pollers -> {"next", "write", "mark", "record"}]
AreaTypes ==
  /\ exported \subseteq catalog /\ catalog \subseteq Items /\ subs \subseteq Peers
  /\ installed \cup due \cup failed \subseteq Items \X Peers
ScanTypes ==
  /\ todoTics \in [Scanners -> SUBSET (Items \X Peers)]
  /\ toMark \in [Scanners -> SUBSET (Items \X Peers)]
  /\ copying \in [Scanners -> made \cup {NoCopy}]
  /\ doing \in [Scanners -> {"idle", "next", "copy", "ticket"}]
SessionTypes ==
  /\ inbox \in [Peers -> SUBSET (made \X BOOLEAN)]
  /\ at \in [Sessions -> {"idle", "netmail", "send", "remove"}]
  /\ todo \in [Sessions -> SUBSET made] /\ sent \in [Sessions -> SUBSET made]
  /\ faults \in 0..cast.maxFaults
Types == FileTypes /\ QueueTypes /\ AreaTypes /\ ScanTypes /\ SessionTypes

\* Copies are numbered without gaps, so that a file that is created is new.
Alike(kind, of, to) == {n \in made : n.kind = kind /\ n.of = of /\ n.to = to}
CopyInv ==
  \A n \in made : n.kind # "tic" => n.copy <= Cardinality(Alike(n.kind, n.of, n.to))

\* What is in the directory is complete.
Done(n) == n \in present => n \in whole

\* What became of a file.
Pair(n) == <<n.of, n.to>>
Kept(n) ==
  \/ n \in present \/ n \in torn
  \/ n.kind = "pkt" /\ Got(n)
  \/ Tagged(n) /\ \/ <<n, TRUE>> \in inbox[n.to] \/ Misled(n)
                  \/ Pair(n) \in installed \cup failed
KeptInv ==
  \A n \in made : Kept(n) /\ (n.kind = "tic" => Done(n))

\* A peer that has all of a file got it when it was complete.
InboxInv ==
  \A q \in Peers, n \in made : <<n, TRUE>> \in inbox[q] => Done(n)

\* What a session has sent its peer has, or has used.
Took(q, n) ==
  \/ \E b \in BOOLEAN : <<n, b>> \in inbox[q]
  \/ Tagged(n) /\ n.to = q /\ Pair(n) \in installed
SentInv ==
  \A s \in Sessions :
    /\ at[s] \in {"send", "remove"} => PeerOf(s) \in Peers
    /\ sent[s] # {} => at[s] \in {"send", "remove"}
    /\ \A n \in sent[s] : Took(PeerOf(s), n)

\* A poller at its packet, and a row that was marked.
Queueing(p) ==
  step[p] # "next" =>
    /\ at[p] = "netmail" /\ rows[p] # {} /\ letter[p] \in made
    /\ letter[p].kind = "pkt" /\ letter[p].of = Cur(p)
    /\ step[p] # "write" => Done(letter[p])
QueueInv == \A p \in Pollers : Queueing(p)
Packed(m) == \E n \in made : n.kind = "pkt" /\ n.of = m /\ Done(n)
RowInv == \A m \in Mails : row[m] = "sent" => Packed(m)

\* A scanner at its copy; what it will mark is copied, and so is what is due.
Exported(i) ==
  i \in failed \/ \E n \in Copies(i) : Ticket(n) \in made /\ Done(n)
Scanning(a) ==
  /\ doing[a] = "idle" => todoTics[a] = {} /\ toMark[a] = {}
  /\ doing[a] \in {"copy", "ticket"} =>
       copying[a] \in made /\ copying[a].kind = "payload" /\ At(a) \in todoTics[a]
  /\ doing[a] = "ticket" => Done(copying[a])
  /\ \A i \in todoTics[a] \cup toMark[a] : i[1] \in catalog /\ i[2] \in Partners
  /\ \A i \in toMark[a] \ todoTics[a] : Exported(i)
ScanInv == \A a \in Scanners : Scanning(a)
DueInv == \A i \in due : i[2] \in Partners /\ Exported(i)

Inv ==
  /\ Types /\ CopyInv /\ KeptInv /\ InboxInv /\ SentInv /\ QueueInv /\ RowInv
  /\ ScanInv /\ DueInv

-----------------------------------------------------------------------------
(* What a step does to the files.                                          *)

Quiet == UNCHANGED <<dir, torn, inbox>>
Creates(n) ==
  /\ n \in Files \ made /\ n.kind # "tic" /\ Create(n) /\ UNCHANGED <<torn, inbox>>
  /\ n.copy = 1 + Cardinality(Alike(n.kind, n.of, n.to))
Completes(n) == n \in made /\ Complete(n) /\ UNCHANGED <<torn, inbox>>
Tickets(t) ==
  /\ t \in Copied /\ t.kind = "tic" /\ present' = present \cup {t}
  /\ whole' = whole \cup {t} /\ made' = made \cup {t} /\ UNCHANGED <<torn, inbox>>
Drops(n) ==
  /\ n \in made /\ Tagged(n) /\ Pair(n) \in failed' /\ Delete({n})
  /\ UNCHANGED <<torn, inbox>>
Removes(s) ==
  /\ at[s] = "remove" /\ Delete(sent[s]) /\ UNCHANGED inbox
  /\ torn' = torn \cup {n \in sent[s] : <<n, FALSE>> \in inbox[PeerOf(s)]}
Sends(s, n) ==
  /\ at[s] = "send" /\ n \in present /\ Deliver(s, n) /\ UNCHANGED <<dir, torn>>
Installs(p) ==
  /\ \E n \in made :
       /\ Tagged(n) /\ n.to = p /\ Pair(n) \in installed'
       /\ inbox' = [inbox EXCEPT ![p] = @ \ {<<n, TRUE>>, <<Ticket(n), TRUE>>}]
  /\ UNCHANGED <<dir, torn>>

Effects ==
  \/ Quiet
  \/ \E n \in Files : Creates(n) \/ Completes(n) \/ Tickets(n) \/ Drops(n)
  \/ \E s \in Sessions : Removes(s) \/ \E n \in made : Sends(s, n)
  \/ \E p \in Peers : Installs(p)

\* Histories only grow.
Grows ==
  /\ cast' = cast /\ catalog \subseteq catalog'
  /\ installed \subseteq installed' /\ failed \subseteq failed'

\* A set of numbers has its smallest.
LEMMA SmallestIn ==
  ASSUME NEW S, S \subseteq Nat, S # {}
  PROVE  (CHOOSE m \in S : \A k \in S : m <= k) \in S
<1> DEFINE Less == OpToRel(<, Nat)
<1>1. PICK x \in S : \A y \in S : <<y, x>> \notin Less
  BY WFMin, NatLessThanWellFounded
<1>2. \A m, n \in Nat : <<m, n>> \in Less <=> m < n
  BY DEF OpToRel
<1> HIDE DEF Less
<1>3. x \in Nat /\ \A y \in S : y \in Nat /\ ~(y < x)
  BY <1>1, <1>2
<1>4. \A y \in S : x <= y
  BY <1>3
<1>5. QED
  BY <1>4

\* The row a poller is at is one of those it has read.
LEMMA CurIn ==
  ASSUME Types, NEW p \in Pollers, rows[p] # {}
  PROVE  Cur(p) \in rows[p] /\ Cur(p) \in Mails
<1>1. rows[p] \subseteq Mails
  BY DEF Types, QueueTypes
<1>2. Mails \subseteq Nat
  <2>1. Mails = 1..Cardinality(Mails) /\ Cardinality(Mails) \in Nat
    BY NetmailAssumption, FS_CardinalityType
  <2>2. QED
    BY <2>1
<1>3. QED
  BY <1>1, <1>2, SmallestIn DEF Cur

\* Where a netmail goes is a peer, or there is no route.
LEMMA RouteType ==
  ASSUME Types, NEW m \in Mails
  PROVE  RouteAddr(m) \in Peers \cup {NoPeer} /\ OutDir(m) \in {Base, Sub}
<1>1. /\ To[m] \in Peers /\ cast.uplink \in Peers \cup {NoPeer}
      /\ cast.routes \in [Peers -> Peers \cup {NoPeer}]
  BY NetmailAssumption, OutboundAssumption DEF Types, FileTypes
<1>2. QED
  BY <1>1 DEF RouteAddr, RouteFor, OutDir

\* Files that are created have the type of files.
LEMMA FileType ==
  ASSUME Types, NEW of, NEW to \in Peers, NEW where
  PROVE  /\ of \in Mails /\ where \in {Base, Sub} => File("pkt", of, to, where) \in Files
         /\ of \in Items => File("payload", of, to, Base) \in Files
<1>1. ASSUME NEW kind
      PROVE  1 + Cardinality(Alike(kind, of, to)) \in Nat \ {0}
  <2>1. Alike(kind, of, to) \subseteq made /\ IsFiniteSet(made)
    BY DEF Alike, Types, FileTypes
  <2>2. Cardinality(Alike(kind, of, to)) \in Nat
    BY <2>1, FS_Subset, FS_CardinalityType
  <2>3. QED
    BY <2>2
<1>2. QED
  BY <1>1 DEF File, Alike, Files, Letters, Copied

LEMMA TicketType ==
  ASSUME Types, NEW n \in made, n.kind = "payload"
  PROVE  /\ Ticket(n) \in Copied /\ Ticket(n).kind = "tic"
         /\ Ticket(n).of = n.of /\ Ticket(n).to = n.to
<1>1. n \in Copied
  BY DEF Types, FileTypes, Files, Letters
<1>2. QED
  BY <1>1 DEF Copied, Ticket

\* A file that is created is new.
LEMMA IsNew ==
  ASSUME Types, CopyInv, NEW kind \in {"pkt", "payload"}, NEW of, NEW to, NEW where,
         File(kind, of, to, where) \in Files
  PROVE  LET n == File(kind, of, to, where)
         IN  /\ n \notin made /\ n.kind = kind /\ n.of = of /\ n.to = to /\ n.dir = where
             /\ n.copy = 1 + Cardinality(Alike(n.kind, n.of, n.to))
<1> DEFINE n == File(kind, of, to, where)
<1>1. n.kind = kind /\ n.of = of /\ n.to = to /\ n.dir = where
  BY DEF File
<1>2. n.copy = 1 + Cardinality(Alike(n.kind, n.of, n.to))
  BY DEF File, Alike
<1> HIDE DEF n
<1>3. Cardinality(Alike(n.kind, n.of, n.to)) \in Nat
  <2>1. Alike(n.kind, n.of, n.to) \subseteq made /\ IsFiniteSet(made)
    BY DEF Alike, Types, FileTypes
  <2>2. QED
    BY <2>1, FS_Subset, FS_CardinalityType
<1>4. n \notin made
  BY <1>1, <1>2, <1>3 DEF CopyInv
<1>5. QED
  BY <1>1, <1>2, <1>4 DEF n

\* The netmail queue creates a packet and completes it.
LEMMA QueueEffects ==
  ASSUME Inv, NEW p \in Pollers, QueueStep(p) \/ QueueFails(p) \/ BeginPoll(p)
  PROVE  Grows /\ Effects
<1>1. Grows /\ inbox' = inbox /\ torn' = torn
  BY DEF Grows, catalogue, QueueStep, QueueFails, BeginPoll, echoes
<1>2. CASE NetmailStep(p)
  <2>1. CASE NoRoute(p) \/ MarkSent(p) \/ RecordSent(p)
    BY <1>1, <2>1 DEF NoRoute, MarkSent, RecordSent, Effects, Quiet
  <2>2. CASE CreatePacket(p)
    <3> DEFINE n == File("pkt", Cur(p), RouteAddr(Cur(p)), OutDir(Cur(p)))
    <3>1. Create(n) /\ rows[p] # {} /\ RouteAddr(Cur(p)) # NoPeer
      BY <2>2 DEF CreatePacket
    <3>2. Cur(p) \in Mails
      BY <3>1, CurIn DEF Inv
    <3>3. RouteAddr(Cur(p)) \in Peers /\ OutDir(Cur(p)) \in {Base, Sub}
      BY <3>1, <3>2, RouteType DEF Inv
    <3>4. n \in Files
      BY <3>2, <3>3, FileType DEF Inv
    <3>5. Creates(n)
      BY <1>1, <3>1, <3>4, IsNew DEF Inv, Creates
    <3> HIDE DEF n
    <3>6. QED
      BY <1>1, <3>4, <3>5 DEF Effects
  <2>3. CASE WritePacket(p)
    <3>1. step[p] = "write" /\ Complete(letter[p])
      BY <2>3 DEF WritePacket
    <3>2. letter[p] \in made /\ letter[p] \in Files
      BY <3>1 DEF Inv, QueueInv, Queueing, Types, FileTypes
    <3>3. Completes(letter[p])
      BY <1>1, <3>1, <3>2 DEF Completes
    <3>4. QED
      BY <1>1, <3>2, <3>3 DEF Effects
  <2>4. QED
    BY <1>2, <2>1, <2>2, <2>3 DEF NetmailStep
<1>3. CASE QueueFails(p) \/ BeginPoll(p)
  BY <1>1, <1>3 DEF QueueFails, NetmailFails, BeginPoll, ReadRows, Effects, Quiet
<1>4. QED
  BY <1>2, <1>3 DEF QueueStep

\* A session deletes what it has sent, and delivers what there is.
LEMMA SessionEffects ==
  ASSUME Inv, NEW s \in Sessions, SessionStep(s) \/ Break(s)
  PROVE  Grows /\ Effects
<1>1. CASE Send(s)
  <2>1. PICK n \in todo[s] \cap present : Deliver(s, n)
    BY <1>1 DEF Send
  <2>2. Grows /\ Sends(s, n) /\ n \in made
    BY <1>1, <2>1 DEF Send, Grows, catalogue, Sends, Inv, Types, FileTypes
  <2>3. QED
    BY <2>2 DEF Effects
<1>2. CASE SendVanished(s) \/ EndBatch(s)
  BY <1>2 DEF SendVanished, EndBatch, echoes, Grows, catalogue, Effects, Quiet
<1>3. CASE Remove(s)
  <2>1. Grows /\ Removes(s)
    BY <1>3 DEF Remove, echoes, Grows, catalogue, Removes
  <2>2. QED
    BY <2>1 DEF Effects
<1>4. CASE Break(s)
  <2>1. Grows /\ at[s] = "send" /\ UNCHANGED <<dir, torn>>
    BY <1>4 DEF Break, Grows, catalogue
  <2>2. CASE UNCHANGED inbox
    BY <2>1, <2>2 DEF Effects, Quiet
  <2>3. CASE \E n \in todo[s] \cap present : Turn(s, n) /\ Deliver(s, n)
    <3>1. PICK n \in todo[s] \cap present : Deliver(s, n)
      BY <2>3
    <3>2. Sends(s, n) /\ n \in made
      BY <2>1, <3>1 DEF Sends, Inv, Types, FileTypes
    <3>3. QED
      BY <2>1, <3>2 DEF Effects
  <2>4. QED
    BY <1>4, <2>2, <2>3 DEF Break
<1>5. QED
  BY <1>1, <1>2, <1>3, <1>4 DEF SessionStep

\* A scanner creates copies and completes them, and writes tickets.
LEMMA ScanEffects ==
  ASSUME Inv, NEW a \in Scanners, ScannerStep(a) \/ ScanFault(a)
  PROVE  Grows /\ Effects
<1>1. cast' = cast /\ torn' = torn
  BY DEF ScannerStep, ScanFault
<1>2. CASE StartCopy(a)
  <2>1. PICK i \in todoTics[a] : Create(File("payload", i[1], i[2], Base))
    BY <1>2 DEF StartCopy
  <2> DEFINE n == File("payload", i[1], i[2], Base)
  <2>2. i[1] \in Items /\ i[2] \in Peers
    BY DEF Inv, Types, ScanTypes
  <2>3. n \in Files
    BY <2>2, FileType DEF Inv
  <2>4. Grows /\ Creates(n)
    BY <1>1, <1>2, <2>1, <2>3, IsNew DEF Inv, Creates, StartCopy, Grows, catalogue
  <2> HIDE DEF n
  <2>5. QED
    BY <2>3, <2>4 DEF Effects
<1>3. CASE EndCopy(a)
  <2>1. copying[a] \in made /\ copying[a] \in Files
    BY <1>3 DEF EndCopy, Inv, ScanInv, Scanning, Types, FileTypes
  <2>2. Grows /\ Completes(copying[a])
    BY <1>1, <1>3, <2>1 DEF EndCopy, Completes, Grows, catalogue
  <2>3. QED
    BY <2>1, <2>2 DEF Effects
<1>4. CASE WriteTicket(a)
  <2> DEFINE t == Ticket(copying[a])
  <2>1. copying[a] \in made /\ copying[a].kind = "payload"
    BY <1>4 DEF WriteTicket, Inv, ScanInv, Scanning
  <2>2. t \in Copied /\ t.kind = "tic"
    BY <2>1, TicketType DEF Inv
  <2>3. /\ present' = present \cup {t} /\ whole' = whole \cup {t} /\ made' = made \cup {t}
        /\ Grows /\ inbox' = inbox
    BY <1>1, <1>4 DEF WriteTicket, Grows, catalogue
  <2> HIDE DEF t
  <2>4. Tickets(t) /\ t \in Files
    BY <1>1, <2>2, <2>3 DEF Tickets, Files
  <2>5. QED
    BY <2>3, <2>4 DEF Effects
<1>5. CASE TicketFails(a)
  <2>1. /\ copying[a] \in made /\ copying[a].kind = "payload" /\ copying[a] \in Files
    BY <1>5 DEF TicketFails, Inv, ScanInv, Scanning, Types, FileTypes
  <2>2. Grows /\ Drops(copying[a])
    BY <1>1, <1>5, <2>1 DEF TicketFails, Grows, catalogue, Drops, Tagged, At, Pair
  <2>3. QED
    BY <2>1, <2>2 DEF Effects
<1>6. CASE MarkExported(a) \/ EndScan(a) \/ CopyFails(a) \/ MarkFails(a)
  <2>1. Grows /\ UNCHANGED <<dir, inbox>>
    BY <1>1, <1>6 DEF MarkExported, EndScan, CopyFails, MarkFails, Grows, catalogue
  <2>2. QED
    BY <1>1, <2>1 DEF Effects, Quiet
<1>7. QED
  BY <1>2, <1>3, <1>4, <1>5, <1>6 DEF ScannerStep, ScanStep, ScanFault

\* What each step does to the files.
LEMMA FileEffects ==
  ASSUME Inv, Next
  PROVE  Grows /\ Effects
<1>1. ASSUME NEW p \in Pollers, Dial(p) \/ NoUplink(p)
      PROVE  Grows /\ Effects
  BY <1>1 DEF Dial, NoUplink, echoes, Grows, catalogue, Effects, Quiet
<1>2. ASSUME NEW c \in Peers, Call(c)
      PROVE  Grows /\ Effects
  BY <1>2 DEF Call, echoes, Grows, catalogue, Effects, Quiet
<1>3. ASSUME NEW p \in Peers, Receive(p)
      PROVE  Grows /\ Effects
  <2>1. PICK r \in inbox[p] :
          /\ r[1].kind = "payload" /\ r[2] /\ r[1].to = p
          /\ installed' = installed \cup {<<r[1].of, p>>}
          /\ inbox' = [inbox EXCEPT ![p] = @ \ {r, <<Ticket(r[1]), TRUE>>}]
    BY <1>3 DEF Receive, Install
  <2>2. r \in made \X BOOLEAN
    BY DEF Inv, Types, SessionTypes
  <2>3. r[1] \in made /\ r = <<r[1], TRUE>>
    <3>1. r[1] \in made /\ r[2] \in BOOLEAN /\ r = <<r[1], r[2]>>
      BY <2>2
    <3>2. r[2] = TRUE
      BY <2>1, <3>1
    <3>3. QED
      BY <3>1, <3>2
  <2>4. Grows /\ Installs(p)
    <3>1. Grows /\ UNCHANGED <<dir, torn>>
      BY <1>3, <2>1 DEF Receive, Install, Grows, catalogue
    <3>2. inbox' = [inbox EXCEPT ![p] = @ \ {<<r[1], TRUE>>, <<Ticket(r[1]), TRUE>>}]
      BY <2>1, <2>3
    <3>3. Tagged(r[1]) /\ Pair(r[1]) \in installed'
      BY <2>1 DEF Tagged, Pair
    <3>4. QED
      BY <2>1, <2>3, <3>1, <3>2, <3>3 DEF Installs
  <2>5. QED
    BY <2>4 DEF Effects
<1>4. ASSUME NEW m \in Mails, Post(m)
      PROVE  Grows /\ Effects
  BY <1>4 DEF Post, Enqueue, echoes, Grows, catalogue, Effects, Quiet
<1>5. CASE Request
  BY <1>5 DEF Request, AddFile, Subscribe, FileScan, Rescan, Grows, catalogue, Effects, Quiet
<1>6. CASE Crash
  BY <1>6 DEF Crash, NetmailDies, EchoesDie, Grows, catalogue, Effects, Quiet
<1>7. QED
  BY <1>1, <1>2, <1>3, <1>4, <1>5, <1>6, QueueEffects, SessionEffects, ScanEffects
     DEF Next

-----------------------------------------------------------------------------
(* What becomes of the files.                                              *)

\* What was there is kept, and stays complete; what is new is there.
Keeps ==
  /\ made \subseteq made'
  /\ \A n \in made : (Done(n) => Done(n)') /\ (Kept(n) => Kept(n)')
  /\ \A n \in made' \ made : n \in present' /\ (n.kind = "tic" => Done(n)')

\* Of a file that stays where it is nothing is lost unless its peer's copy is.
LEMMA StillKept ==
  ASSUME Grows, NEW n, Kept(n), inbox' = inbox, torn \subseteq torn',
         n \in present => n \in present' \/ Kept(n)'
  PROVE  Kept(n)'
BY DEF Grows, Kept, Got, Misled, Pair, Tagged

\* A delivery takes from nobody what he has.
LEMMA DeliveryKeeps ==
  ASSUME Inv, Grows, NEW s \in Sessions, NEW m \in made, Sends(s, m)
  PROVE  /\ \A q \in Peers, n \in made :
              /\ <<n, TRUE>> \in inbox[q] => <<n, TRUE>> \in inbox'[q]
              /\ \A b \in BOOLEAN : <<n, b>> \in inbox[q] =>
                   \E c \in BOOLEAN : <<n, c>> \in inbox'[q]
              /\ <<n, TRUE>> \in inbox'[q] => <<n, TRUE>> \in inbox[q] \/ n \in whole
         /\ \E c \in BOOLEAN : <<m, c>> \in inbox'[PeerOf(s)]
<1> DEFINE b == m \in whole
           p == PeerOf(s)
<1>1. inbox' = [inbox EXCEPT ![p] = {r \in inbox[p] : r[1] # m} \cup {<<m, b>>}]
  BY DEF Sends, Deliver
<1>2. p \in Peers /\ inbox \in [Peers -> SUBSET (made \X BOOLEAN)]
  BY DEF Inv, SentInv, Sends, Types, SessionTypes
<1>3. \A q \in Peers, n \in made : <<n, TRUE>> \in inbox[q] /\ n = m => b
  BY DEF Inv, InboxInv, Done, Sends
<1>4. b \in BOOLEAN /\ (b => b = TRUE) /\ (b = TRUE => m \in whole)
  OBVIOUS
<1> HIDE DEF b, p
<1>5. inbox'[p] = {r \in inbox[p] : r[1] # m} \cup {<<m, b>>}
  BY <1>1, <1>2
<1>6. \A q \in Peers : q # p => inbox'[q] = inbox[q]
  BY <1>1, <1>2
<1>7. \E c \in BOOLEAN : <<m, c>> \in inbox'[p]
  BY <1>4, <1>5
<1>8. ASSUME NEW q \in Peers, NEW n \in made
      PROVE  /\ <<n, TRUE>> \in inbox[q] => <<n, TRUE>> \in inbox'[q]
             /\ \A c \in BOOLEAN : <<n, c>> \in inbox[q] =>
                  \E d \in BOOLEAN : <<n, d>> \in inbox'[q]
             /\ <<n, TRUE>> \in inbox'[q] => <<n, TRUE>> \in inbox[q] \/ n \in whole
  <2>1. CASE q = p /\ n = m
    BY <1>3, <1>4, <1>5, <2>1
  <2>2. CASE q = p /\ n # m
    BY <1>5, <2>2
  <2>3. CASE q # p
    BY <1>6, <2>3
  <2>4. QED
    BY <2>1, <2>2, <2>3
<1>9. QED
  BY <1>7, <1>8 DEF p

\* An installation takes only what is installed then.
LEMMA InstallKeeps ==
  ASSUME Inv, Grows, NEW p \in Peers, Installs(p)
  PROVE  /\ \A q \in Peers : inbox'[q] \subseteq inbox[q]
         /\ \A q \in Peers, n \in made, b \in BOOLEAN : <<n, b>> \in inbox[q] =>
              \/ <<n, b>> \in inbox'[q]
              \/ Tagged(n) /\ n.to = q /\ Pair(n) \in installed'
<1>1. PICK m \in made :
        /\ Tagged(m) /\ m.to = p /\ Pair(m) \in installed'
        /\ inbox' = [inbox EXCEPT ![p] = @ \ {<<m, TRUE>>, <<Ticket(m), TRUE>>}]
  BY DEF Installs
<1>2. inbox \in [Peers -> SUBSET (made \X BOOLEAN)] /\ m \in Copied
  BY <1>1 DEF Inv, Types, SessionTypes, FileTypes, Files, Letters, Tagged
<1>3. Tagged(Ticket(m)) /\ Ticket(m).to = p /\ Pair(Ticket(m)) = Pair(m)
  BY <1>1, <1>2 DEF Copied, Ticket, Tagged, Pair
<1> DEFINE t == Ticket(m)
<1> HIDE DEF t
<1>4. /\ inbox'[p] = inbox[p] \ {<<m, TRUE>>, <<t, TRUE>>}
      /\ \A q \in Peers : q # p => inbox'[q] = inbox[q]
  BY <1>1, <1>2 DEF t
<1>5. ASSUME NEW n \in made, NEW b \in BOOLEAN, <<n, b>> \in inbox[p], <<n, b>> \notin inbox'[p]
      PROVE  Tagged(n) /\ n.to = p /\ Pair(n) \in installed'
  <2>1. n = m \/ n = t
    BY <1>4, <1>5
  <2>2. QED
    BY <1>1, <1>3, <2>1 DEF t
<1>6. QED
  BY <1>4, <1>5

\* What a session deletes its peer has taken, or is counted as torn.
LEMMA RemovalKeeps ==
  ASSUME Inv, Grows, NEW s \in Sessions, Removes(s), NEW n \in made, Kept(n)
  PROVE  Kept(n)'
<1>1. /\ inbox' = inbox /\ torn \subseteq torn' /\ present' = present \ sent[s]
      /\ \A m \in sent[s] : <<m, FALSE>> \in inbox[PeerOf(s)] => m \in torn'
      /\ PeerOf(s) \in Peers
  BY DEF Removes, Delete, Inv, SentInv
<1>2. CASE n \notin sent[s]
  BY <1>1, <1>2, StillKept
<1>3. CASE n \in sent[s]
  <2>1. Took(PeerOf(s), n)
    BY <1>3 DEF Inv, SentInv
  <2>2. CASE Tagged(n) /\ Pair(n) \in installed
    BY <2>2 DEF Grows, Kept, Tagged, Pair
  <2>3. CASE \E b \in BOOLEAN : <<n, b>> \in inbox[PeerOf(s)]
    <3>1. n.kind = "pkt" \/ Tagged(n)
      BY DEF Inv, Types, FileTypes, Files, Letters, Copied, Tagged
    <3>2. CASE <<n, FALSE>> \in inbox[PeerOf(s)]
      BY <1>1, <1>3, <3>2 DEF Kept
    <3>3. CASE <<n, TRUE>> \in inbox[PeerOf(s)] /\ n.kind = "pkt"
      BY <1>1, <3>3 DEF Kept, Got
    <3>4. CASE <<n, TRUE>> \in inbox[PeerOf(s)] /\ Tagged(n) /\ n.to = PeerOf(s)
      BY <1>1, <3>4 DEF Kept, Tagged
    <3>5. CASE <<n, TRUE>> \in inbox[PeerOf(s)] /\ Tagged(n) /\ n.to # PeerOf(s)
      <4>1. Misled(n)'
        BY <1>1, <3>5 DEF Misled
      <4>2. QED
        BY <3>5, <4>1 DEF Kept, Tagged
    <3>6. QED
      BY <2>3, <3>1, <3>2, <3>3, <3>4, <3>5
  <2>4. QED
    BY <2>1, <2>2, <2>3 DEF Took
<1>4. QED
  BY <1>2, <1>3

\* No step loses a file but in the ways the code knows.
LEMMA FilesKept ==
  ASSUME Inv, Grows, Effects
  PROVE  Keeps
<1>1. CASE Quiet
  BY <1>1, StillKept DEF Quiet, dir, Keeps, Done
<1>2. ASSUME NEW n \in Files, Creates(n)
      PROVE  Keeps
  <2>1. /\ present' = present \cup {n} /\ made' = made \cup {n} /\ whole' = whole
        /\ UNCHANGED <<torn, inbox>> /\ n \notin made /\ n.kind # "tic"
    BY <1>2 DEF Creates, Create
  <2>2. QED
    BY <2>1, StillKept DEF Keeps, Done
<1>3. ASSUME NEW n \in Files, Completes(n)
      PROVE  Keeps
  BY <1>3, StillKept DEF Completes, Complete, Keeps, Done
<1>4. ASSUME NEW n \in Files, Tickets(n)
      PROVE  Keeps
  <2>1. /\ present' = present \cup {n} /\ made' = made \cup {n} /\ whole' = whole \cup {n}
        /\ UNCHANGED <<torn, inbox>>
    BY <1>4 DEF Tickets
  <2>2. QED
    BY <2>1, StillKept DEF Keeps, Done
<1>5. ASSUME NEW n \in Files, Drops(n)
      PROVE  Keeps
  <2>1. /\ present' = present \ {n} /\ made' = made /\ whole' = whole \ {n}
        /\ UNCHANGED <<torn, inbox>> /\ Tagged(n) /\ Pair(n) \in failed'
    BY <1>5 DEF Drops, Delete
  <2>2. Kept(n)'
    BY <2>1 DEF Kept, Tagged, Pair
  <2>3. QED
    BY <2>1, <2>2, StillKept DEF Keeps, Done
<1>6. ASSUME NEW s \in Sessions, Removes(s)
      PROVE  Keeps
  BY <1>6, RemovalKeeps DEF Removes, Delete, Keeps, Done
<1>7. ASSUME NEW s \in Sessions, NEW m \in made, Sends(s, m)
      PROVE  Keeps
  <2>1. /\ UNCHANGED <<dir, torn>> /\ PeerOf(s) \in Peers
    BY <1>7 DEF Sends, Inv, SentInv
  <2>2. ASSUME NEW n \in made, Kept(n)
        PROVE  Kept(n)'
    <3>1. CASE n.kind = "pkt" /\ Got(n)
      BY <1>7, <3>1, DeliveryKeeps DEF Kept, Got
    <3>2. CASE Tagged(n) /\ Misled(n)
      <4>1. Misled(n)'
        BY <1>7, <3>2, DeliveryKeeps DEF Misled
      <4>2. QED
        BY <3>2, <4>1 DEF Kept, Tagged
    <3>3. CASE Tagged(n) /\ <<n, TRUE>> \in inbox[n.to]
      <4>1. n.to \in Peers
        BY DEF Inv, Types, FileTypes, Files, Letters, Copied
      <4>2. <<n, TRUE>> \in inbox'[n.to]
        BY <1>7, <3>3, <4>1, DeliveryKeeps
      <4>3. QED
        BY <3>3, <4>2 DEF Kept, Tagged
    <3>4. QED
      BY <2>1, <2>2, <3>1, <3>2, <3>3 DEF Kept, dir, Grows, Tagged, Pair
  <2>3. QED
    BY <2>1, <2>2 DEF Keeps, Done, dir
<1>8. ASSUME NEW p \in Peers, Installs(p)
      PROVE  Keeps
  <2>1. UNCHANGED <<dir, torn>>
    BY <1>8 DEF Installs
  <2>2. ASSUME NEW n \in made, Kept(n)
        PROVE  Kept(n)'
    <3>1. CASE n.kind = "pkt" /\ Got(n)
      BY <1>8, <3>1, InstallKeeps DEF Kept, Got, Tagged
    <3>2. CASE Tagged(n) /\ Misled(n)
      <4>1. Misled(n)'
        BY <1>8, <3>2, InstallKeeps DEF Misled
      <4>2. QED
        BY <3>2, <4>1 DEF Kept, Tagged
    <3>3. CASE Tagged(n) /\ <<n, TRUE>> \in inbox[n.to]
      <4>1. n.to \in Peers
        BY DEF Inv, Types, FileTypes, Files, Letters, Copied
      <4>2. <<n, TRUE>> \in inbox'[n.to] \/ Pair(n) \in installed'
        BY <1>8, <3>3, <4>1, InstallKeeps
      <4>3. QED
        BY <3>3, <4>2 DEF Kept, Tagged, Pair
    <3>4. QED
      BY <2>1, <2>2, <3>1, <3>2, <3>3 DEF Kept, dir, Grows, Tagged, Pair
  <2>3. QED
    BY <2>1, <2>2 DEF Keeps, Done, dir
<1>9. QED
  BY <1>1, <1>2, <1>3, <1>4, <1>5, <1>6, <1>7, <1>8 DEF Effects

\* The types of the files.
LEMMA FileTypesKept ==
  ASSUME Inv, Grows, Effects
  PROVE  FileTypes' /\ (inbox \in [Peers -> SUBSET (made \X BOOLEAN)])' /\ KeptInv'
<1>1. Keeps
  BY FilesKept
<1>2. KeptInv'
  <2>1. ASSUME NEW n \in made' \ made
        PROVE  Kept(n)' /\ (n.kind = "tic" => Done(n)')
    BY <1>1 DEF Keeps, Kept
  <2>2. QED
    BY <1>1, <2>1 DEF Keeps, Inv, KeptInv
<1>3. FileTypes /\ inbox \in [Peers -> SUBSET (made \X BOOLEAN)]
  BY DEF Inv, Types, SessionTypes
<1>4. CASE Quiet
  BY <1>2, <1>3, <1>4 DEF Quiet, dir, FileTypes, Grows
<1>5. ASSUME NEW n \in Files, Creates(n) \/ Completes(n) \/ Tickets(n) \/ Drops(n)
      PROVE  FileTypes' /\ (inbox \in [Peers -> SUBSET (made \X BOOLEAN)])'
  <2>1. /\ made' = made \/ made' = made \cup {n}
        /\ present' \subseteq made' /\ whole' \subseteq present' /\ UNCHANGED <<torn, inbox>>
    BY <1>3, <1>5 DEF Creates, Create, Completes, Complete, Tickets, Drops, Delete, FileTypes
  <2>2. IsFiniteSet(made')
    BY <1>3, <2>1, FS_AddElement DEF FileTypes
  <2>3. QED
    BY <1>3, <2>1, <2>2 DEF FileTypes, Grows
<1>6. ASSUME NEW s \in Sessions, Removes(s)
      PROVE  FileTypes' /\ (inbox \in [Peers -> SUBSET (made \X BOOLEAN)])'
  <2>1. sent[s] \subseteq made
    BY DEF Inv, Types, SessionTypes
  <2>2. QED
    BY <1>3, <1>6, <2>1 DEF Removes, Delete, FileTypes, Grows
<1>7. ASSUME NEW s \in Sessions, NEW m \in made, Sends(s, m)
      PROVE  FileTypes' /\ (inbox \in [Peers -> SUBSET (made \X BOOLEAN)])'
  <2>1. inbox' \in [Peers -> SUBSET (made \X BOOLEAN)]
    <3> DEFINE b == m \in whole
               p == PeerOf(s)
    <3>1. inbox' = [inbox EXCEPT ![p] = {r \in inbox[p] : r[1] # m} \cup {<<m, b>>}]
      BY <1>7 DEF Sends, Deliver
    <3>2. b \in BOOLEAN /\ p \in Peers
      BY <1>7 DEF Inv, SentInv, Sends
    <3>3. made' = made
      BY <1>7 DEF Sends, dir
    <3> HIDE DEF b, p
    <3>4. {r \in inbox[p] : r[1] # m} \cup {<<m, b>>} \subseteq made \X BOOLEAN
      BY <1>3, <3>2
    <3>5. QED
      BY <1>3, <3>1, <3>2, <3>4
  <2>2. QED
    BY <1>3, <1>7, <2>1 DEF Sends, dir, FileTypes, Grows
<1>8. ASSUME NEW p \in Peers, Installs(p)
      PROVE  FileTypes' /\ (inbox \in [Peers -> SUBSET (made \X BOOLEAN)])'
  <2>1. inbox' \in [Peers -> SUBSET (made \X BOOLEAN)]
    BY <1>3, <1>8 DEF Installs
  <2>2. QED
    BY <1>3, <1>8, <2>1 DEF Installs, dir, FileTypes, Grows
<1>9. QED
  BY <1>2, <1>4, <1>5, <1>6, <1>7, <1>8 DEF Effects

\* The numbers of the copies.
LEMMA CopyKept ==
  ASSUME Inv, Grows, Effects
  PROVE  CopyInv'
<1>1. made \subseteq made' /\ IsFiniteSet(made')
  BY FilesKept, FileTypesKept DEF Keeps, FileTypes
<1>2. ASSUME NEW n \in made, n.kind # "tic"
      PROVE  n.copy <= Cardinality(Alike(n.kind, n.of, n.to)')
  <2> DEFINE A == Alike(n.kind, n.of, n.to)
             B == Alike(n.kind, n.of, n.to)'
  <2>1. A \subseteq B /\ B \subseteq made'
    BY <1>1 DEF Alike
  <2>2. IsFiniteSet(A) /\ IsFiniteSet(B)
    BY <1>1, <2>1, FS_Subset
  <2>3. Cardinality(A) <= Cardinality(B) /\ Cardinality(A) \in Nat /\ Cardinality(B) \in Nat
    BY <2>1, <2>2, FS_Subset, FS_CardinalityType
  <2>4. n.copy <= Cardinality(A) /\ n.copy \in Nat
    BY <1>2 DEF Inv, CopyInv, Types, FileTypes, Files, Letters, Copied
  <2> HIDE DEF A
  <2>5. QED
    BY <2>3, <2>4
<1>3. ASSUME NEW n \in made' \ made, n.kind # "tic"
      PROVE  n.copy <= Cardinality(Alike(n.kind, n.of, n.to)')
  <2>1. Creates(n)
    BY <1>3 DEF Effects, Quiet, dir, Completes, Complete, Tickets, Drops, Delete, Removes, Sends,
                Installs, Creates, Create
  <2> DEFINE A == Alike(n.kind, n.of, n.to)
  <2>2. Alike(n.kind, n.of, n.to)' = A \cup {n} /\ n \notin A
    BY <2>1 DEF Creates, Create, Alike
  <2>3. A \subseteq made' /\ n.copy = 1 + Cardinality(A)
    BY <1>1, <2>1 DEF Alike, Creates
  <2> HIDE DEF A
  <2>4. IsFiniteSet(A)
    BY <1>1, <2>3, FS_Subset
  <2>5. Cardinality(A \cup {n}) = Cardinality(A) + 1 /\ Cardinality(A) \in Nat
    BY <2>2, <2>4, FS_AddElement, FS_CardinalityType
  <2>6. QED
    BY <2>2, <2>3, <2>5
<1>4. QED
  BY <1>2, <1>3 DEF CopyInv

\* Who has all of a file got it whole.
LEMMA InboxKept ==
  ASSUME Inv, Grows, Effects
  PROVE  InboxInv'
<1>1. Keeps
  BY FilesKept
<1>2. ASSUME NEW q \in Peers, NEW n, <<n, TRUE>> \in inbox'[q]
      PROVE  n \in made /\ (<<n, TRUE>> \in inbox[q] \/ n \in whole)
  <2>1. CASE inbox' = inbox
    BY <1>2, <2>1 DEF Inv, Types, SessionTypes
  <2>2. ASSUME NEW s \in Sessions, NEW m \in made, Sends(s, m)
        PROVE  n \in made /\ (<<n, TRUE>> \in inbox[q] \/ n \in whole)
    <3>1. n \in made
      BY <1>2, <2>2 DEF Sends, Deliver, Inv, Types, SessionTypes
    <3>2. QED
      BY <1>2, <2>2, <3>1, DeliveryKeeps
  <2>3. ASSUME NEW p \in Peers, Installs(p)
        PROVE  n \in made /\ (<<n, TRUE>> \in inbox[q] \/ n \in whole)
    <3>1. <<n, TRUE>> \in inbox[q]
      BY <1>2, <2>3, InstallKeeps
    <3>2. QED
      BY <3>1 DEF Inv, Types, SessionTypes
  <2>4. QED
    BY <2>1, <2>2, <2>3 DEF Effects, Quiet, Creates, Completes, Tickets, Drops, Removes
<1>3. QED
  BY <1>1, <1>2 DEF Inv, InboxInv, Keeps, Done

-----------------------------------------------------------------------------
(* Those who write, and the sessions.                                      *)

\* What is exported stays so.
LEMMA StillExported ==
  ASSUME Grows, Keeps, NEW i
  PROVE  Exported(i) => Exported(i)'
BY DEF Grows, Keeps, Exported, Copies

LEMMA SamePartners ==
  ASSUME Grows
  PROVE  Partners' = Partners
BY DEF Grows, Partners

\* The pollers' loops over the queue.
LEMMA QueueKept ==
  ASSUME Inv, Next, Grows, Keeps
  PROVE  QueueTypes' /\ QueueInv' /\ RowInv'
<1>1. QueueTypes /\ QueueInv /\ RowInv /\ made \subseteq made'
  BY DEF Inv, Types, Keeps
<1>2. \A p \in Pollers : rows[p] # {} => Cur(p) \in Mails
  BY CurIn DEF Inv
<1>3. CASE UNCHANGED netmail /\ \A p \in Pollers : at[p] = "netmail" /\ rows[p] # {} => at'[p] = "netmail"
  BY <1>1, <1>3 DEF netmail, QueueTypes, QueueInv, Queueing, Cur, RowInv, Keeps, Packed, Done
<1>4. ASSUME NEW p \in Pollers, BeginPoll(p)
      PROVE  QueueTypes' /\ QueueInv' /\ RowInv'
  <2>1. /\ rows' = [rows EXCEPT ![p] = {m \in Mails : row[m] = "queued"}]
        /\ UNCHANGED <<row, recorded, letter, step>>
        /\ at[p] = "idle" /\ at' = [at EXCEPT ![p] = "netmail"]
    BY <1>4 DEF BeginPoll, ReadRows
  <2>2. step[p] = "next"
    BY <1>1, <2>1 DEF QueueInv, Queueing, QueueTypes
  <2>3. QueueTypes' /\ RowInv'
    BY <1>1, <2>1 DEF QueueTypes, RowInv, Keeps, Packed
  <2>4. ASSUME NEW q \in Pollers
        PROVE  Queueing(q)'
    <3>1. CASE q = p
      BY <2>1, <2>2, <3>1 DEF Queueing
    <3>2. CASE q # p
      <4>1. rows'[q] = rows[q] /\ (at[q] = "netmail" => at'[q] = "netmail")
        BY <1>1, <2>1, <3>2 DEF QueueTypes, Inv, Types, SessionTypes, Sessions
      <4>2. QED
        BY <1>1, <2>1, <4>1 DEF QueueInv, Queueing, Cur, Keeps, Done
    <3>3. QED
      BY <3>1, <3>2
  <2>5. QED
    BY <2>3, <2>4 DEF QueueInv
<1>5. ASSUME NEW p \in Pollers, QueueStep(p) \/ QueueFails(p)
      PROVE  QueueTypes' /\ QueueInv' /\ RowInv'
  <2>1. at' = at /\ at[p] = "netmail"
    BY <1>5 DEF QueueStep, QueueFails, sessions
  <2>2. ASSUME NEW q \in Pollers, q # p, rows'[q] = rows[q], letter'[q] = letter[q],
               step'[q] = step[q]
        PROVE  Queueing(q)'
    BY <1>1, <2>1, <2>2 DEF QueueInv, Queueing, Cur, Keeps, Done
  <2>3. CASE Handled(p) /\ UNCHANGED <<row>> /\ recorded' \subseteq Mails
    <3>1. /\ rows' = [rows EXCEPT ![p] = @ \ {Cur(p)}] /\ row' = row
          /\ letter' = [letter EXCEPT ![p] = NoLetter] /\ step' = [step EXCEPT ![p] = "next"]
      BY <2>3 DEF Handled
    <3>2. QueueTypes' /\ RowInv'
      BY <1>1, <2>3, <3>1 DEF QueueTypes, RowInv, Keeps, Packed
    <3>3. Queueing(p)'
      BY <1>1, <3>1 DEF QueueTypes, Queueing
    <3>4. \A q \in Pollers : q # p => Queueing(q)'
      BY <1>1, <2>2, <3>1 DEF QueueTypes
    <3>5. QED
      BY <3>2, <3>3, <3>4 DEF QueueInv
  <2>4. CASE NoRoute(p)
    BY <1>1, <2>3, <2>4 DEF NoRoute, QueueTypes
  <2>5. CASE RecordSent(p)
    <3>1. step[p] = "record"
      BY <2>5 DEF RecordSent
    <3>2. Cur(p) \in Mails
      BY <1>1, <1>2, <3>1 DEF QueueInv, Queueing
    <3>3. QED
      BY <1>1, <2>3, <2>5, <3>2 DEF RecordSent, QueueTypes
  <2>6. CASE QueueFails(p)
    BY <1>1, <2>3, <2>6 DEF QueueFails, NetmailFails, QueueTypes
  <2>7. CASE CreatePacket(p)
    <3> DEFINE n == File("pkt", Cur(p), RouteAddr(Cur(p)), OutDir(Cur(p)))
    <3>1. /\ rows[p] # {} /\ Create(n) /\ letter' = [letter EXCEPT ![p] = n]
          /\ step' = [step EXCEPT ![p] = "write"] /\ UNCHANGED <<row, recorded, rows>>
      BY <2>7 DEF CreatePacket
    <3>2. n.kind = "pkt" /\ n.of = Cur(p)
      BY DEF File
    <3>3. n \in made'
      BY <3>1 DEF Create
    <3> HIDE DEF n
    <3>4. QueueTypes' /\ RowInv'
      BY <1>1, <3>1, <3>3 DEF QueueTypes, RowInv, Keeps, Packed
    <3>5. Queueing(p)'
      BY <1>1, <2>1, <3>1, <3>2, <3>3 DEF QueueTypes, Queueing, Cur
    <3>6. \A q \in Pollers : q # p => Queueing(q)'
      BY <1>1, <2>2, <3>1 DEF QueueTypes
    <3>7. QED
      BY <3>4, <3>5, <3>6 DEF QueueInv
  <2>8. CASE WritePacket(p)
    <3>1. /\ step[p] = "write" /\ Complete(letter[p])
          /\ step' = [step EXCEPT ![p] = "mark"] /\ UNCHANGED <<row, recorded, rows, letter>>
      BY <2>8 DEF WritePacket
    <3>2. QueueTypes' /\ RowInv'
      BY <1>1, <3>1 DEF QueueTypes, RowInv, Keeps, Packed
    <3>3. Done(letter[p])'
      BY <3>1 DEF Complete, Done
    <3>4. Queueing(p)'
      BY <1>1, <2>1, <3>1, <3>3 DEF QueueTypes, QueueInv, Queueing, Cur, Done
    <3>5. \A q \in Pollers : q # p => Queueing(q)'
      BY <1>1, <2>2, <3>1 DEF QueueTypes
    <3>6. QED
      BY <3>2, <3>4, <3>5 DEF QueueInv
  <2>9. CASE MarkSent(p)
    <3>1. /\ step[p] = "mark" /\ row' = [row EXCEPT ![Cur(p)] = "sent"]
          /\ step' = [step EXCEPT ![p] = "record"] /\ UNCHANGED <<recorded, rows, letter, dir>>
      BY <2>9 DEF MarkSent
    <3>2. Packed(Cur(p)) /\ Cur(p) \in Mails
      BY <1>1, <1>2, <3>1 DEF QueueInv, Queueing, Packed
    <3>3. QueueTypes'
      BY <1>1, <3>1 DEF QueueTypes
    <3>4. RowInv'
      BY <1>1, <3>1, <3>2 DEF QueueTypes, RowInv, Keeps, Packed
    <3>5. Queueing(p)'
      BY <1>1, <2>1, <3>1 DEF QueueTypes, QueueInv, Queueing, Cur, Done, dir
    <3>6. \A q \in Pollers : q # p => Queueing(q)'
      BY <1>1, <2>2, <3>1 DEF QueueTypes
    <3>7. QED
      BY <3>3, <3>4, <3>5, <3>6 DEF QueueInv
  <2>10. QED
    BY <1>5, <2>4, <2>5, <2>6, <2>7, <2>8, <2>9 DEF QueueStep, NetmailStep
<1>6. ASSUME NEW m \in Mails, Post(m)
      PROVE  QueueTypes' /\ QueueInv' /\ RowInv'
  <2>1. /\ row' = [row EXCEPT ![m] = "queued"] /\ UNCHANGED <<recorded, rows, letter, step, at>>
    BY <1>6 DEF Post, Enqueue, sessions
  <2>2. QueueTypes' /\ RowInv'
    BY <1>1, <2>1 DEF QueueTypes, RowInv, Keeps, Packed
  <2>3. QueueInv'
    BY <1>1, <2>1 DEF QueueInv, Queueing, Cur, Keeps, Done
  <2>4. QED
    BY <2>2, <2>3
<1>7. CASE Crash
  <2>1. /\ rows' = [p \in Pollers |-> {}] /\ letter' = [p \in Pollers |-> NoLetter]
        /\ step' = [p \in Pollers |-> "next"] /\ UNCHANGED <<row, recorded>>
    BY <1>7 DEF Crash, NetmailDies
  <2>2. QED
    BY <1>1, <2>1 DEF QueueTypes, QueueInv, Queueing, RowInv, Keeps, Packed
<1>8. ASSUME NEW p \in Pollers, Dial(p) \/ NoUplink(p)
      PROVE  QueueTypes' /\ QueueInv' /\ RowInv'
  <2>1. /\ UNCHANGED netmail /\ rows[p] = {} /\ at[p] = "netmail"
        /\ \A q \in Pollers : q # p => at'[q] = at[q]
    BY <1>8 DEF Dial, NoUplink, Reset, Inv, Types, SessionTypes, Sessions
  <2>2. QED
    BY <1>3, <2>1
<1>9. ASSUME NEW s \in Sessions, UNCHANGED netmail, at[s] # "netmail",
             \A q \in Pollers : q # s => at'[q] = at[q]
      PROVE  QueueTypes' /\ QueueInv' /\ RowInv'
  BY <1>3, <1>9
<1>10. ASSUME NEW s \in Sessions, SessionStep(s) \/ Break(s)
       PROVE  QueueTypes' /\ QueueInv' /\ RowInv'
  <2>1. UNCHANGED netmail /\ at[s] \in {"send", "remove"}
    BY <1>10 DEF SessionStep, Break, Send, SendVanished, EndBatch, Remove
  <2>2. \A q \in Pollers : q # s => at'[q] = at[q]
    <3>1. \/ at' = at \/ \E l \in {"idle", "remove"} : at' = [at EXCEPT ![s] = l]
      BY <1>10 DEF SessionStep, Break, Send, SendVanished, EndBatch, Remove, GiveUp, Reset
    <3>2. QED
      BY <3>1 DEF Inv, Types, SessionTypes, Sessions
  <2>3. QED
    BY <1>9, <2>1, <2>2
<1>11. ASSUME NEW c \in Peers, Call(c)
       PROVE  QueueTypes' /\ QueueInv' /\ RowInv'
  BY <1>9, <1>11 DEF Call, Sessions
<1>12. CASE UNCHANGED <<netmail, at>>
  BY <1>3, <1>12
<1>13. QED
  <2>1. CASE Request \/ (\E c \in Peers : Receive(c))
             \/ (\E a \in Scanners : ScannerStep(a) \/ ScanFault(a))
    BY <1>12, <2>1 DEF Request, Receive, ScannerStep, ScanFault, sessions
  <2>2. QED
    BY <1>4, <1>5, <1>6, <1>7, <1>8, <1>10, <1>11, <2>1 DEF Next

\* A scanner that has nothing under way, or does not move.
LEMMA ScanStays ==
  ASSUME Inv, Grows, Keeps, NEW a \in Scanners,
         \/ /\ todoTics'[a] = todoTics[a] /\ toMark'[a] = toMark[a]
            /\ copying'[a] = copying[a] /\ doing'[a] = doing[a]
         \/ todoTics'[a] = {} /\ toMark'[a] = {} /\ doing'[a] = "idle"
  PROVE  Scanning(a)'
<1>1. Scanning(a)
  BY DEF Inv, ScanInv
<1>2. CASE todoTics'[a] = {} /\ toMark'[a] = {} /\ doing'[a] = "idle"
  BY <1>2 DEF Scanning
<1>3. CASE /\ todoTics'[a] = todoTics[a] /\ toMark'[a] = toMark[a]
           /\ copying'[a] = copying[a] /\ doing'[a] = doing[a]
  <2>1. \A i \in toMark[a] \ todoTics[a] : Exported(i)'
    BY <1>1, StillExported DEF Scanning
  <2>2. Partners' = Partners /\ catalog \subseteq catalog'
    BY SamePartners DEF Grows
  <2>3. (doing[a] = "ticket" => Done(copying[a]))'
    BY <1>1, <1>3 DEF Scanning, Keeps, Done
  <2>4. (doing[a] \in {"copy", "ticket"} =>
           copying[a] \in made /\ copying[a].kind = "payload" /\ At(a) \in todoTics[a])'
    BY <1>1, <1>3 DEF Scanning, Keeps, At
  <2>5. QED
    BY <1>1, <1>3, <2>1, <2>2, <2>3, <2>4 DEF Scanning
<1>4. QED
  BY <1>2, <1>3

\* The scans: what is marked was copied or failed.
LEMMA ScanKept ==
  ASSUME Inv, Next, Grows, Keeps, FileTypes'
  PROVE  ScanTypes' /\ ScanInv'
<1>1. ScanTypes /\ AreaTypes /\ ScanInv /\ made \subseteq made'
  BY DEF Inv, Types, Keeps
<1>2. CASE UNCHANGED scans
  <2>1. ScanTypes'
    BY <1>1, <1>2 DEF scans, ScanTypes
  <2>2. QED
    BY <1>2, <2>1, ScanStays DEF scans, ScanInv
<1>3. CASE Crash
  <2>1. /\ todoTics' = [a \in Scanners |-> {}] /\ toMark' = [a \in Scanners |-> {}]
        /\ copying' = [a \in Scanners |-> NoCopy] /\ doing' = [a \in Scanners |-> "idle"]
    BY <1>3 DEF Crash, EchoesDie
  <2>2. ScanTypes'
    BY <2>1 DEF ScanTypes
  <2>3. QED
    BY <2>1, <2>2, ScanStays DEF ScanInv
<1>4. ASSUME NEW a \in Scanners, ScanTypes', Scanning(a)',
             \A b \in Scanners \ {a} :
               /\ todoTics'[b] = todoTics[b] /\ toMark'[b] = toMark[b]
               /\ copying'[b] = copying[b] /\ doing'[b] = doing[b]
      PROVE  ScanTypes' /\ ScanInv'
  <2>1. ASSUME NEW b \in Scanners, b # a
        PROVE  Scanning(b)'
    BY <1>4, <2>1, ScanStays
  <2>2. QED
    BY <1>4, <2>1 DEF ScanInv
<1>5. ASSUME NEW a \in Scanners
      PROVE  Scanning(a) /\ todoTics[a] \cup toMark[a] \subseteq Items \X Peers
  BY <1>1 DEF ScanTypes, ScanInv
<1>6. \A i : Exported(i) => Exported(i)'
  BY StillExported
<1>7. /\ Partners' = Partners /\ catalog \subseteq catalog'
      /\ Dests \subseteq Partners /\ Partners \subseteq Peers
  BY SamePartners, OutboundAssumption DEF Grows, Dests, Partners, Inv, Types, FileTypes
<1>8. ASSUME NEW a \in Scanners, FileScan(a)
      PROVE  ScanTypes' /\ ScanInv'
  <2> DEFINE all == (catalog \ exported) \X Dests
  <2>1. /\ todoTics' = [todoTics EXCEPT ![a] = all] /\ toMark' = [toMark EXCEPT ![a] = all]
        /\ doing' = [doing EXCEPT ![a] = "next"] /\ copying' = copying
    BY <1>8 DEF FileScan
  <2>2. all \in SUBSET (Items \X Peers) /\ \A i \in all : i[1] \in catalog' /\ i[2] \in Partners
    BY <1>1, <1>7 DEF AreaTypes
  <2> HIDE DEF all
  <2>3. Scanning(a)'
    BY <1>1, <1>7, <2>1, <2>2 DEF ScanTypes, Scanning
  <2>4. ScanTypes' /\ \A b \in Scanners \ {a} :
          /\ todoTics'[b] = todoTics[b] /\ toMark'[b] = toMark[b]
          /\ copying'[b] = copying[b] /\ doing'[b] = doing[b]
    BY <1>1, <2>1, <2>2 DEF ScanTypes
  <2>5. QED
    BY <1>4, <2>3, <2>4
<1>9. ASSUME NEW a \in Scanners, NEW d \in Peers, Rescan(a, d)
      PROVE  ScanTypes' /\ ScanInv'
  <2> DEFINE all == catalog \X {d}
  <2>1. /\ todoTics' = [todoTics EXCEPT ![a] = all] /\ toMark' = toMark /\ doing[a] = "idle"
        /\ doing' = [doing EXCEPT ![a] = "next"] /\ copying' = copying /\ d \in cast.downlinks
    BY <1>9 DEF Rescan
  <2>2. all \in SUBSET (Items \X Peers) /\ \A i \in all : i[1] \in catalog' /\ i[2] \in Partners
    BY <1>1, <1>7, <2>1 DEF AreaTypes, Partners
  <2> HIDE DEF all
  <2>3. toMark[a] = {}
    BY <1>5, <2>1 DEF Scanning
  <2>4. Scanning(a)'
    BY <1>1, <1>7, <2>1, <2>2, <2>3 DEF ScanTypes, Scanning
  <2>5. ScanTypes' /\ \A b \in Scanners \ {a} :
          /\ todoTics'[b] = todoTics[b] /\ toMark'[b] = toMark[b]
          /\ copying'[b] = copying[b] /\ doing'[b] = doing[b]
    BY <1>1, <2>1, <2>2 DEF ScanTypes
  <2>6. QED
    BY <1>4, <2>4, <2>5
<1>10. ASSUME NEW a \in Scanners, StartCopy(a)
       PROVE  ScanTypes' /\ ScanInv'
  <2>1. PICK i \in todoTics[a] :
          /\ Create(File("payload", i[1], i[2], Base))
          /\ copying' = [copying EXCEPT ![a] = File("payload", i[1], i[2], Base)]
    BY <1>10 DEF StartCopy
  <2> DEFINE n == File("payload", i[1], i[2], Base)
  <2>2. n \in made' /\ copying' = [copying EXCEPT ![a] = n]
    BY <2>1 DEF Create
  <2>3. n.kind = "payload" /\ <<n.of, n.to>> = i
    BY <1>5 DEF File
  <2> HIDE DEF n
  <2>4. doing' = [doing EXCEPT ![a] = "copy"] /\ todoTics' = todoTics /\ toMark' = toMark
    BY <1>10 DEF StartCopy
  <2>5. copying'[a] = n /\ doing'[a] = "copy"
    BY <1>1, <2>2, <2>4 DEF ScanTypes
  <2>6. Scanning(a)'
    BY <1>5, <1>6, <1>7, <2>2, <2>3, <2>4, <2>5 DEF Scanning, At
  <2>7. ScanTypes' /\ \A b \in Scanners \ {a} :
          /\ todoTics'[b] = todoTics[b] /\ toMark'[b] = toMark[b]
          /\ copying'[b] = copying[b] /\ doing'[b] = doing[b]
    BY <1>1, <2>2, <2>4 DEF ScanTypes
  <2>8. QED
    BY <1>4, <2>6, <2>7
<1>11. ASSUME NEW a \in Scanners, EndCopy(a)
       PROVE  ScanTypes' /\ ScanInv'
  <2>1. /\ doing[a] = "copy" /\ Complete(copying[a]) /\ doing' = [doing EXCEPT ![a] = "ticket"]
        /\ UNCHANGED <<todoTics, toMark, copying>>
    BY <1>11 DEF EndCopy
  <2>2. Done(copying[a])' /\ doing'[a] = "ticket"
    BY <1>1, <2>1 DEF Complete, Done, ScanTypes
  <2>3. Scanning(a)'
    BY <1>1, <1>5, <1>6, <1>7, <2>1, <2>2 DEF Scanning, At
  <2>4. ScanTypes' /\ \A b \in Scanners \ {a} :
          /\ todoTics'[b] = todoTics[b] /\ toMark'[b] = toMark[b]
          /\ copying'[b] = copying[b] /\ doing'[b] = doing[b]
    BY <1>1, <2>1 DEF ScanTypes
  <2>5. QED
    BY <1>4, <2>3, <2>4
<1>12. ASSUME NEW a \in Scanners, NextItem(a), toMark' = toMark,
              NEW i, i = At(a), Exported(i)'
       PROVE  ScanTypes' /\ ScanInv'
  <2>1. /\ todoTics' = [todoTics EXCEPT ![a] = @ \ {i}]
        /\ copying' = [copying EXCEPT ![a] = NoCopy]
        /\ doing' = [doing EXCEPT ![a] = "next"]
    BY <1>12 DEF NextItem
  <2>2. todoTics'[a] = todoTics[a] \ {i} /\ doing'[a] = "next"
    BY <1>1, <2>1 DEF ScanTypes
  <2>3. Scanning(a)'
    BY <1>5, <1>6, <1>7, <1>12, <2>2 DEF Scanning
  <2>4. ScanTypes' /\ \A b \in Scanners \ {a} :
          /\ todoTics'[b] = todoTics[b] /\ toMark'[b] = toMark[b]
          /\ copying'[b] = copying[b] /\ doing'[b] = doing[b]
    BY <1>1, <1>12, <2>1 DEF ScanTypes
  <2>5. QED
    BY <1>4, <2>3, <2>4
<1>13. ASSUME NEW a \in Scanners, CopyFails(a) \/ TicketFails(a)
       PROVE  ScanTypes' /\ ScanInv'
  <2>1. PICK i : i = At(a)
    OBVIOUS
  <2>2. NextItem(a) /\ toMark' = toMark /\ i \in failed'
    BY <1>13, <2>1 DEF CopyFails, TicketFails
  <2>3. Exported(i)'
    BY <2>2 DEF Exported
  <2>4. QED
    BY <1>12, <2>1, <2>2, <2>3
<1>14. ASSUME NEW a \in Scanners, WriteTicket(a)
       PROVE  ScanTypes' /\ ScanInv'
  <2>1. PICK i, n : i = At(a) /\ n = copying[a]
    OBVIOUS
  <2>2. NextItem(a) /\ toMark' = toMark /\ doing[a] = "ticket" /\ Ticket(n) \in made'
    BY <1>14, <2>1 DEF WriteTicket
  <2>3. n \in made /\ n.kind = "payload" /\ Done(n) /\ i = <<n.of, n.to>>
    BY <1>5, <2>1, <2>2 DEF Scanning, At
  <2>4. n \in made' /\ Done(n)'
    BY <2>3 DEF Keeps
  <2>5. i[1] = n.of /\ i[2] = n.to
    BY <2>3
  <2>6. n \in Copies(i)'
    BY <2>3, <2>4, <2>5 DEF Copies
  <2>7. Exported(i)'
    BY <2>2, <2>4, <2>6 DEF Exported
  <2>8. QED
    BY <1>12, <2>1, <2>2, <2>7
<1>15. ASSUME NEW a \in Scanners, MarkExported(a) \/ MarkFails(a)
       PROVE  ScanTypes' /\ ScanInv'
  <2>1. PICK m \in SUBSET toMark[a] : toMark' = [toMark EXCEPT ![a] = m]
    <3>1. CASE MarkExported(a)
      BY <3>1 DEF MarkExported
    <3>2. CASE MarkFails(a)
      BY <3>2 DEF MarkFails
    <3>3. QED
      BY <1>15, <3>1, <3>2
  <2>2. UNCHANGED <<todoTics, copying, doing>> /\ doing[a] = "next"
    BY <1>15 DEF MarkExported, MarkFails
  <2>3. toMark'[a] = m
    BY <1>1, <2>1 DEF ScanTypes
  <2>4. Scanning(a)'
    BY <1>5, <1>6, <1>7, <2>1, <2>2, <2>3 DEF Scanning
  <2>5. ScanTypes' /\ \A b \in Scanners \ {a} :
          /\ todoTics'[b] = todoTics[b] /\ toMark'[b] = toMark[b]
          /\ copying'[b] = copying[b] /\ doing'[b] = doing[b]
    BY <1>1, <2>1, <2>2 DEF ScanTypes
  <2>6. QED
    BY <1>4, <2>4, <2>5
<1>16. ASSUME NEW a \in Scanners, EndScan(a)
       PROVE  ScanTypes' /\ ScanInv'
  <2>1. /\ UNCHANGED <<todoTics, toMark, copying>> /\ doing' = [doing EXCEPT ![a] = "idle"]
        /\ todoTics[a] = {} /\ toMark[a] = {}
    BY <1>16 DEF EndScan
  <2>2. Scanning(a)'
    BY <1>1, <2>1 DEF Scanning, ScanTypes
  <2>3. ScanTypes' /\ \A b \in Scanners \ {a} :
          /\ todoTics'[b] = todoTics[b] /\ toMark'[b] = toMark[b]
          /\ copying'[b] = copying[b] /\ doing'[b] = doing[b]
    BY <1>1, <2>1 DEF ScanTypes
  <2>4. QED
    BY <1>4, <2>2, <2>3
<1>17. ASSUME NEW a \in Scanners, ScannerStep(a) \/ ScanFault(a)
       PROVE  ScanTypes' /\ ScanInv'
  BY <1>10, <1>11, <1>13, <1>14, <1>15, <1>16, <1>17 DEF ScannerStep, ScanStep, ScanFault
<1>18. CASE Request
  <2>1. (\E f \in Items : AddFile(f)) \/ (\E d \in Peers : Subscribe(d)) => UNCHANGED scans
    BY DEF AddFile, Subscribe
  <2>2. QED
    BY <1>2, <1>8, <1>9, <1>18, <2>1 DEF Request
<1>19. \/ \E p \in Pollers : BeginPoll(p) \/ QueueStep(p) \/ QueueFails(p) \/ Dial(p) \/ NoUplink(p)
       \/ \E c \in Peers : Call(c) \/ Receive(c)
       \/ \E s \in Sessions : SessionStep(s) \/ Break(s)
       \/ \E m \in Mails : Post(m)
       => UNCHANGED scans
  BY DEF BeginPoll, QueueStep, QueueFails, Dial, NoUplink, Call, Receive, Install, SessionStep, Send,
         SendVanished, EndBatch, Remove, Break, Post, echoes
<1>20. QED
  BY <1>2, <1>3, <1>17, <1>18, <1>19 DEF Next

\* The catalog, the subscriptions and what is due.
LEMMA AreaKept ==
  ASSUME Inv, Next, Grows, Keeps
  PROVE  AreaTypes' /\ DueInv'
<1>1. AreaTypes /\ DueInv /\ Partners' = Partners /\ \A i : Exported(i) => Exported(i)'
  BY StillExported, SamePartners DEF Inv, Types
<1>2. CASE UNCHANGED <<catalogue, installed, due, failed>>
  BY <1>1, <1>2 DEF catalogue, AreaTypes, DueInv
<1>3. ASSUME due' = due
      PROVE  DueInv'
  BY <1>1, <1>3 DEF DueInv
<1>4. CASE Request
  <2>1. AreaTypes' /\ due' = due
    <3>1. ASSUME NEW f \in Items, AddFile(f)
          PROVE  AreaTypes' /\ due' = due
      BY <1>1, <3>1 DEF AddFile, AreaTypes
    <3>2. ASSUME NEW d \in Peers, Subscribe(d)
          PROVE  AreaTypes' /\ due' = due
      BY <1>1, <3>2 DEF Subscribe, AreaTypes
    <3>3. ASSUME NEW a \in Scanners, FileScan(a) \/ \E d \in Peers : Rescan(a, d)
          PROVE  AreaTypes' /\ due' = due
      BY <1>1, <3>3 DEF FileScan, Rescan, catalogue, AreaTypes
    <3>4. QED
      BY <1>4, <3>1, <3>2, <3>3 DEF Request
  <2>2. QED
    BY <1>3, <2>1
<1>5. ASSUME NEW a \in Scanners, MarkExported(a)
      PROVE  AreaTypes' /\ DueInv'
  <2>1. PICK i \in toMark[a] :
          /\ exported' = exported \cup {i[1]} /\ due' = due \cup {j \in toMark[a] : j[1] = i[1]}
    BY <1>5 DEF MarkExported
  <2>2. todoTics[a] = {} /\ UNCHANGED <<catalog, subs, installed, failed>>
    BY <1>5 DEF MarkExported
  <2>3. toMark[a] \subseteq Items \X Peers /\ \A j \in toMark[a] : j[2] \in Partners /\ Exported(j)
    BY <2>2 DEF Inv, Types, ScanTypes, ScanInv, Scanning
  <2>4. DueInv'
    BY <1>1, <2>1, <2>3 DEF DueInv
  <2>5. i[1] \in catalog
    BY DEF Inv, ScanInv, Scanning
  <2>6. QED
    BY <1>1, <2>1, <2>2, <2>3, <2>4, <2>5 DEF AreaTypes
<1>6. ASSUME NEW a \in Scanners, CopyFails(a) \/ TicketFails(a)
      PROVE  AreaTypes' /\ DueInv'
  <2>1. failed' = failed \cup {At(a)} /\ UNCHANGED <<catalogue, installed, due>>
    BY <1>6 DEF CopyFails, TicketFails
  <2>2. At(a) \in Items \X Peers
    BY <1>6 DEF CopyFails, TicketFails, Inv, Types, ScanTypes, ScanInv, Scanning
  <2>3. QED
    BY <1>1, <1>3, <2>1, <2>2 DEF catalogue, AreaTypes
<1>7. ASSUME NEW a \in Scanners, ScannerStep(a) \/ ScanFault(a)
      PROVE  AreaTypes' /\ DueInv'
  <2>1. StartCopy(a) \/ EndCopy(a) \/ WriteTicket(a) \/ EndScan(a) \/ MarkFails(a) =>
          UNCHANGED <<catalogue, installed, due, failed>>
    BY DEF StartCopy, EndCopy, WriteTicket, EndScan, MarkFails
  <2>2. QED
    BY <1>2, <1>5, <1>6, <1>7, <2>1 DEF ScannerStep, ScanStep, ScanFault
<1>8. ASSUME NEW p \in Peers, Receive(p)
      PROVE  AreaTypes' /\ DueInv'
  <2>1. PICK r \in inbox[p] : r[1].kind = "payload" /\ installed' = installed \cup {<<r[1].of, p>>}
    BY <1>8 DEF Receive, Install
  <2>2. UNCHANGED <<catalogue, due, failed>>
    BY <1>8 DEF Receive, Install
  <2>3. r[1] \in Files /\ r[1].of \in Items
    BY <2>1 DEF Inv, Types, SessionTypes, FileTypes, Files, Letters, Copied
  <2>4. QED
    BY <1>1, <1>3, <2>1, <2>2, <2>3 DEF catalogue, AreaTypes
<1>9. \/ \E p \in Pollers : BeginPoll(p) \/ QueueStep(p) \/ QueueFails(p) \/ Dial(p) \/ NoUplink(p)
      \/ \E c \in Peers : Call(c)
      \/ \E s \in Sessions : SessionStep(s) \/ Break(s)
      \/ \E m \in Mails : Post(m)
      \/ Crash
      => UNCHANGED <<catalogue, installed, due, failed>>
  BY DEF BeginPoll, QueueStep, QueueFails, Dial, NoUplink, Call, SessionStep, Send, SendVanished,
         EndBatch, Remove, Break, Post, Crash, EchoesDie, echoes
<1>10. QED
  BY <1>2, <1>4, <1>7, <1>8, <1>9 DEF Next

\* The sessions: what one has sent its peer has, or has used.
LEMMA SessionKept ==
  ASSUME Inv, Next, Grows, Effects, Keeps, (inbox \in [Peers -> SUBSET (made \X BOOLEAN)])'
  PROVE  SessionTypes' /\ SentInv'
<1>1. SessionTypes /\ SentInv /\ made \subseteq made' /\ cast' = cast
  BY DEF Inv, Types, Keeps, Grows
<1>2. ASSUME NEW q \in Peers, NEW n \in made, Took(q, n)
      PROVE  Took(q, n)'
  <2>1. CASE UNCHANGED inbox
    BY <1>2, <2>1 DEF Took, Grows, Tagged, Pair
  <2>2. ASSUME NEW s \in Sessions, NEW m \in made, Sends(s, m)
        PROVE  Took(q, n)'
    BY <1>2, <2>2, DeliveryKeeps DEF Took, Grows, Tagged, Pair
  <2>3. ASSUME NEW p \in Peers, Installs(p)
        PROVE  Took(q, n)'
    BY <1>2, <2>3, InstallKeeps DEF Took, Grows, Tagged, Pair
  <2>4. QED
    BY <2>1, <2>2, <2>3 DEF Effects, Quiet, Creates, Completes, Tickets, Drops, Removes
<1>3. \A s : PeerOf(s)' = PeerOf(s)
  BY <1>1 DEF PeerOf
<1>4. faults' \in 0..cast'.maxFaults
  <2>1. cast.maxFaults \in Nat
    BY SessionAssumption DEF Inv, Types, FileTypes
  <2>2. faults' = faults \/ Fault
    BY DEF Next, BeginPoll, QueueStep, QueueFails, Dial, NoUplink, Call, Receive, SessionStep, Send,
           SendVanished, EndBatch, Remove, Break, Post, Request, ScannerStep, ScanFault, Crash
  <2>3. QED
    BY <1>1, <2>1, <2>2 DEF Fault, SessionTypes
<1>5. ASSUME NEW s \in Sessions, sent'[s] = sent[s] \/ sent'[s] = {},
             at'[s] \in {"send", "remove"} => at[s] \in {"send", "remove"} \/ PeerOf(s) \in Peers,
             sent'[s] # {} => at'[s] \in {"send", "remove"}
      PROVE  /\ at'[s] \in {"send", "remove"} => PeerOf(s)' \in Peers
             /\ sent'[s] # {} => at'[s] \in {"send", "remove"}
             /\ \A n \in sent'[s] : Took(PeerOf(s), n)'
  <2>1. ASSUME NEW n \in sent[s]
        PROVE  n \in made /\ PeerOf(s) \in Peers /\ Took(PeerOf(s), n)
    BY <1>1 DEF SentInv, SessionTypes
  <2>2. QED
    BY <1>1, <1>2, <1>3, <1>5, <2>1 DEF SentInv, Took
<1>6. ASSUME NEW s \in Sessions,
             at' \in [Sessions -> {"idle", "netmail", "send", "remove"}],
             todo' \in [Sessions -> SUBSET made'], sent' \in [Sessions -> SUBSET made'],
             \A r \in Sessions \ {s} : at'[r] = at[r] /\ sent'[r] = sent[r],
             at'[s] \in {"send", "remove"} => PeerOf(s)' \in Peers,
             sent'[s] # {} => at'[s] \in {"send", "remove"},
             \A n \in sent'[s] : Took(PeerOf(s), n)'
      PROVE  SessionTypes' /\ SentInv'
  <2>1. ASSUME NEW r \in Sessions, r # s
        PROVE  /\ at'[r] \in {"send", "remove"} => PeerOf(r)' \in Peers
               /\ sent'[r] # {} => at'[r] \in {"send", "remove"}
               /\ \A n \in sent'[r] : Took(PeerOf(r), n)'
    <3>1. at'[r] = at[r] /\ sent'[r] = sent[r] /\ (sent[r] # {} => at[r] \in {"send", "remove"})
      BY <1>1, <1>6, <2>1 DEF SentInv
    <3>2. QED
      BY <1>5, <3>1
  <2>2. SessionTypes'
    BY <1>4, <1>6 DEF SessionTypes
  <2>3. SentInv'
    BY <1>6, <2>1 DEF SentInv
  <2>4. QED
    BY <2>2, <2>3
<1>7. CASE UNCHANGED sessions
  <2>1. SessionTypes'
    BY <1>1, <1>4, <1>7 DEF sessions, SessionTypes
  <2>2. ASSUME NEW r \in Sessions
        PROVE  /\ at'[r] \in {"send", "remove"} => PeerOf(r)' \in Peers
               /\ sent'[r] # {} => at'[r] \in {"send", "remove"}
               /\ \A n \in sent'[r] : Took(PeerOf(r), n)'
    <3>1. at'[r] = at[r] /\ sent'[r] = sent[r] /\ (sent[r] # {} => at[r] \in {"send", "remove"})
      BY <1>1, <1>7, <2>2 DEF SentInv, sessions
    <3>2. QED
      BY <1>5, <3>1
  <2>3. QED
    BY <2>1, <2>2 DEF SentInv
<1>8. CASE Crash
  <2>1. /\ at' = [s \in Sessions |-> "idle"] /\ todo' = [s \in Sessions |-> {}]
        /\ sent' = [s \in Sessions |-> {}]
    BY <1>8 DEF Crash
  <2>2. QED
    BY <1>4, <2>1 DEF SessionTypes, SentInv
<1>9. ASSUME NEW s \in Sessions, Reset(s)
      PROVE  SessionTypes' /\ SentInv'
  <2>1. /\ at' = [at EXCEPT ![s] = "idle"] /\ todo' = [todo EXCEPT ![s] = {}]
        /\ sent' = [sent EXCEPT ![s] = {}]
    BY <1>9 DEF Reset
  <2>2. /\ at' \in [Sessions -> {"idle", "netmail", "send", "remove"}]
        /\ todo' \in [Sessions -> SUBSET made'] /\ sent' \in [Sessions -> SUBSET made']
        /\ \A r \in Sessions \ {s} : at'[r] = at[r] /\ sent'[r] = sent[r]
        /\ at'[s] = "idle" /\ sent'[s] = {}
    BY <1>1, <2>1 DEF SessionTypes
  <2>3. QED
    BY <1>6, <2>2
<1>10. ASSUME NEW s \in Sessions, NEW l \in {"netmail", "send", "remove"},
              at' = [at EXCEPT ![s] = l], sent' = sent,
              todo' \in [Sessions -> SUBSET made'],
              l = "netmail" => sent[s] = {},
              l # "netmail" => PeerOf(s) \in Peers
       PROVE  SessionTypes' /\ SentInv'
  <2>1. /\ at' \in [Sessions -> {"idle", "netmail", "send", "remove"}]
        /\ sent' \in [Sessions -> SUBSET made']
        /\ \A r \in Sessions \ {s} : at'[r] = at[r] /\ sent'[r] = sent[r]
        /\ at'[s] = l /\ sent'[s] = sent[s]
    BY <1>1, <1>10 DEF SessionTypes
  <2>2. \A n \in sent'[s] : Took(PeerOf(s), n)'
    BY <1>5, <1>10, <2>1
  <2>3. QED
    BY <1>3, <1>6, <1>10, <2>1, <2>2
<1>11. ASSUME NEW p \in Pollers, BeginPoll(p)
       PROVE  SessionTypes' /\ SentInv'
  <2>1. /\ at' = [at EXCEPT ![p] = "netmail"] /\ sent' = sent /\ todo' = todo /\ p \in Sessions
        /\ at[p] = "idle"
    BY <1>11 DEF BeginPoll, Sessions
  <2>2. sent[p] = {} /\ todo' \in [Sessions -> SUBSET made']
    BY <1>1, <2>1 DEF SentInv, SessionTypes
  <2>3. QED
    BY <1>10, <2>1, <2>2
<1>12. ASSUME NEW s \in Sessions, at' = [at EXCEPT ![s] = "send"], sent' = sent,
              todo' = [todo EXCEPT ![s] = ListFor(s)], PeerOf(s) \in Peers
       PROVE  SessionTypes' /\ SentInv'
  <2>1. ListFor(s) \subseteq made
    BY DEF ListFor, FilesFor, Inv, Types, FileTypes
  <2>2. todo' \in [Sessions -> SUBSET made']
    BY <1>1, <1>12, <2>1 DEF SessionTypes
  <2>3. QED
    BY <1>10, <1>12, <2>2
<1>13. ASSUME NEW p \in Pollers, Dial(p) \/ NoUplink(p)
       PROVE  SessionTypes' /\ SentInv'
  <2>1. p \in Sessions
    BY DEF Sessions
  <2>2. CASE Dial(p)
    <3>1. PeerOf(p) \in Peers
      BY <2>2, OutboundAssumption DEF Dial, PeerOf, Inv, Types, FileTypes
    <3>2. QED
      BY <1>12, <2>1, <2>2, <3>1 DEF Dial
  <2>3. CASE NoUplink(p)
    BY <1>9, <2>1, <2>3 DEF NoUplink
  <2>4. QED
    BY <1>13, <2>2, <2>3
<1>14. ASSUME NEW c \in Peers, Call(c)
       PROVE  SessionTypes' /\ SentInv'
  <2>1. c \in Sessions /\ PeerOf(c) \in Peers
    BY SessionAssumption DEF Sessions, PeerOf
  <2>2. QED
    BY <1>12, <1>14, <2>1 DEF Call
<1>15. ASSUME NEW s \in Sessions, at[s] = "send", GiveUp(s)
       PROVE  SessionTypes' /\ SentInv'
  <2>1. CASE s \in Pollers
    BY <1>9, <1>15, <2>1 DEF GiveUp
  <2>2. CASE s \notin Pollers
    <3>1. /\ at' = [at EXCEPT ![s] = "remove"] /\ todo' = [todo EXCEPT ![s] = {}] /\ sent' = sent
      BY <1>15, <2>2 DEF GiveUp
    <3>2. PeerOf(s) \in Peers /\ todo' \in [Sessions -> SUBSET made']
      BY <1>1, <1>15, <3>1 DEF SentInv, SessionTypes
    <3>3. QED
      BY <1>10, <3>1, <3>2
  <2>3. QED
    BY <2>1, <2>2
<1>16. ASSUME NEW s \in Sessions, EndBatch(s)
       PROVE  SessionTypes' /\ SentInv'
  <2>1. /\ at' = [at EXCEPT ![s] = "remove"] /\ todo' = todo /\ sent' = sent /\ at[s] = "send"
    BY <1>16 DEF EndBatch
  <2>2. PeerOf(s) \in Peers /\ todo' \in [Sessions -> SUBSET made']
    BY <1>1, <2>1 DEF SentInv, SessionTypes
  <2>3. QED
    BY <1>10, <2>1, <2>2
<1>17. ASSUME NEW s \in Sessions, Send(s)
       PROVE  SessionTypes' /\ SentInv'
  <2>1. PICK n \in todo[s] \cap present :
          /\ Deliver(s, n) /\ todo' = [todo EXCEPT ![s] = @ \ {n}]
          /\ sent' = [sent EXCEPT ![s] = @ \cup {n}]
    BY <1>17 DEF Send
  <2>2. at[s] = "send" /\ at' = at /\ UNCHANGED <<dir, torn>>
    BY <1>17 DEF Send
  <2>3. n \in made /\ Sends(s, n) /\ PeerOf(s) \in Peers
    BY <1>1, <2>1, <2>2 DEF SentInv, Sends, Inv, Types, FileTypes
  <2>4. Took(PeerOf(s), n)'
    BY <1>3, <2>3, DeliveryKeeps DEF Took
  <2>5. /\ todo' \in [Sessions -> SUBSET made'] /\ sent' \in [Sessions -> SUBSET made']
        /\ sent'[s] = sent[s] \cup {n} /\ \A r \in Sessions \ {s} : sent'[r] = sent[r]
        /\ at' \in [Sessions -> {"idle", "netmail", "send", "remove"}]
    BY <1>1, <2>1, <2>2, <2>3 DEF SessionTypes
  <2>6. \A m \in sent[s] : m \in made /\ Took(PeerOf(s), m)
    BY <1>1 DEF SentInv, SessionTypes
  <2>7. \A m \in sent'[s] : Took(PeerOf(s), m)'
    BY <1>2, <1>3, <2>3, <2>4, <2>5, <2>6 DEF Took
  <2>8. QED
    BY <1>3, <1>6, <2>2, <2>3, <2>5, <2>7
<1>18. ASSUME NEW s \in Sessions, SessionStep(s) \/ Break(s)
       PROVE  SessionTypes' /\ SentInv'
  <2>1. CASE SendVanished(s) \/ Break(s)
    BY <1>15, <2>1 DEF SendVanished, Break
  <2>2. CASE Remove(s)
    BY <1>9, <2>2 DEF Remove
  <2>3. QED
    BY <1>16, <1>17, <1>18, <2>1, <2>2 DEF SessionStep
<1>19. \/ \E p \in Pollers : QueueStep(p) \/ QueueFails(p)
       \/ \E c \in Peers : Receive(c)
       \/ \E m \in Mails : Post(m)
       \/ Request
       \/ \E a \in Scanners : ScannerStep(a) \/ ScanFault(a)
       => UNCHANGED sessions
  BY DEF QueueStep, QueueFails, Receive, Post, Request, ScannerStep, ScanFault
<1>20. QED
  BY <1>7, <1>8, <1>11, <1>13, <1>14, <1>18, <1>19 DEF Next

-----------------------------------------------------------------------------
\* Nothing is there at the beginning.
LEMMA InitInv == Init => Inv
<1>1. SUFFICES ASSUME Init PROVE Inv
  OBVIOUS
<1>2. /\ cast \in Casts /\ present = {} /\ whole = {} /\ made = {} /\ torn = {} /\ faults = 0
      /\ row = [m \in Mails |-> "none"] /\ recorded = {}
      /\ rows = [p \in Pollers |-> {}] /\ letter = [p \in Pollers |-> NoLetter]
      /\ step = [p \in Pollers |-> "next"]
      /\ catalog = {} /\ exported = {} /\ subs = cast.subs
      /\ todoTics = [a \in Scanners |-> {}] /\ toMark = [a \in Scanners |-> {}]
      /\ copying = [a \in Scanners |-> NoCopy] /\ doing = [a \in Scanners |-> "idle"]
      /\ inbox = [p \in Peers |-> {}] /\ installed = {} /\ due = {} /\ failed = {}
      /\ at = [s \in Sessions |-> "idle"] /\ todo = [s \in Sessions |-> {}]
      /\ sent = [s \in Sessions |-> {}]
  BY <1>1 DEF Init, DirInit, NetmailInit, EchoesInit
<1>3. FileTypes
  BY <1>2, FS_EmptySet DEF FileTypes
<1>4. QueueTypes /\ ScanTypes
  BY <1>2 DEF QueueTypes, ScanTypes
<1>5. AreaTypes
  BY <1>2, OutboundAssumption DEF AreaTypes
<1>6. SessionTypes
  BY <1>2, SessionAssumption DEF SessionTypes
<1>7. CopyInv /\ KeptInv /\ InboxInv /\ RowInv /\ DueInv
  BY <1>2 DEF CopyInv, KeptInv, InboxInv, RowInv, DueInv
<1>8. SentInv /\ QueueInv /\ ScanInv
  BY <1>2 DEF SentInv, QueueInv, Queueing, ScanInv, Scanning
<1>9. QED
  BY <1>3, <1>4, <1>5, <1>6, <1>7, <1>8 DEF Inv, Types

\* A step without change.
LEMMA StutterInv == Inv /\ UNCHANGED vars => Inv'
<1>1. SUFFICES ASSUME Inv, UNCHANGED vars PROVE Inv'
  OBVIOUS
<1>2. /\ cast' = cast /\ present' = present /\ whole' = whole /\ made' = made /\ torn' = torn
      /\ faults' = faults /\ row' = row /\ recorded' = recorded /\ rows' = rows
      /\ letter' = letter /\ step' = step /\ catalog' = catalog /\ exported' = exported
      /\ subs' = subs /\ todoTics' = todoTics /\ toMark' = toMark /\ copying' = copying
      /\ doing' = doing /\ inbox' = inbox /\ installed' = installed /\ due' = due
      /\ failed' = failed /\ at' = at /\ todo' = todo /\ sent' = sent
  BY <1>1 DEF vars, dir, netmail, echoes, catalogue, scans, sessions
<1>3. Types'
  BY <1>1, <1>2 DEF Inv, Types, FileTypes, QueueTypes, AreaTypes, ScanTypes, SessionTypes
<1>4. CopyInv' /\ KeptInv' /\ InboxInv'
  BY <1>1, <1>2 DEF Inv, CopyInv, Alike, KeptInv, Kept, Done, Got, Misled, Pair, Tagged, InboxInv
<1>5. SentInv'
  BY <1>1, <1>2 DEF Inv, SentInv, Took, PeerOf, Tagged, Pair
<1>6. QueueInv' /\ RowInv'
  BY <1>1, <1>2 DEF Inv, QueueInv, Queueing, Cur, Done, RowInv, Packed
<1>7. Grows /\ Keeps
  BY <1>1, <1>2, <1>4 DEF Grows, Keeps, Done, Kept, Got, Misled, Pair, Tagged
<1>8. ScanInv'
  BY <1>1, <1>2, <1>7, ScanStays DEF ScanInv
<1>9. DueInv'
  BY <1>1, <1>2, <1>7, StillExported, SamePartners DEF Inv, DueInv
<1>10. QED
  BY <1>3, <1>4, <1>5, <1>6, <1>8, <1>9 DEF Inv

\* The invariant is inductive.
LEMMA NextInv == Inv /\ [Next]_vars => Inv'
<1>1. SUFFICES ASSUME Inv, Next PROVE Inv'
  BY StutterInv
<1>2. Grows /\ Effects
  BY <1>1, FileEffects
<1>3. Keeps
  BY <1>1, <1>2, FilesKept
<1>4. FileTypes' /\ KeptInv' /\ CopyInv' /\ InboxInv' /\ (inbox \in [Peers -> SUBSET (made \X BOOLEAN)])'
  BY <1>1, <1>2, FileTypesKept, CopyKept, InboxKept
<1>5. QueueTypes' /\ QueueInv' /\ RowInv'
  BY <1>1, <1>2, <1>3, QueueKept
<1>6. ScanTypes' /\ ScanInv'
  BY <1>1, <1>2, <1>3, <1>4, ScanKept
<1>7. AreaTypes' /\ DueInv'
  BY <1>1, <1>2, <1>3, AreaKept
<1>8. SessionTypes' /\ SentInv'
  BY <1>1, <1>2, <1>3, <1>4, SessionKept
<1>9. QED
  BY <1>4, <1>5, <1>6, <1>7, <1>8 DEF Inv, Types

LEMMA Invariance == Spec => []Inv
BY InitInv, NextInv, PTL DEF Spec

-----------------------------------------------------------------------------
\* The state has its type: what is queued, listed, sent or received was
\* created, and no file has another's name.
THEOREM TypeCorrect == Spec => []TypeOK
<1>1. Inv => TypeOK
  <2>1. SUFFICES ASSUME Inv PROVE TypeOK
    OBVIOUS
  <2>2. DirTypeOK
    BY <2>1 DEF Inv, Types, FileTypes, Files, Letters, Copied, DirTypeOK
  <2>3. NetmailTypeOK
    BY <2>1 DEF Inv, Types, QueueTypes, NetmailTypeOK
  <2>4. EchoesTypeOK
    BY <2>1 DEF Inv, Types, AreaTypes, ScanTypes, SessionTypes, EchoesTypeOK
  <2>5. QED
    BY <2>1, <2>2, <2>3, <2>4 DEF Inv, Types, FileTypes, SessionTypes, TypeOK
<1>2. QED
  BY <1>1, Invariance, PTL

\* What the program calls sent or exported is with a peer or waits whole
\* where the session of a peer finds it, or was lost in one of the ways that
\* NothingAstray names.
THEOREM NothingGoesAstray == Spec => []NothingAstray
<1>1. Inv => NothingAstray
  <2>1. SUFFICES ASSUME Inv PROVE NothingAstray
    OBVIOUS
  <2>2. ASSUME NEW m \in Mails, row[m] = "sent"
        PROVE  \E n \in made : n.kind = "pkt" /\ n.of = m /\
                 (Waits(n) \/ Got(n) \/ n \in torn \/ Stranded(n))
    <3>1. PICK n \in made : n.kind = "pkt" /\ n.of = m /\ Done(n)
      BY <2>1, <2>2 DEF Inv, RowInv, Packed
    <3>2. n \in present \/ n \in torn \/ Got(n)
      BY <2>1, <3>1 DEF Inv, KeptInv, Kept, Tagged
    <3>3. ASSUME n \in present, ~Stranded(n)
          PROVE  Waits(n)
      <4>1. n \in whole /\ ~Tagged(n) /\ n.dir \in {Base, Sub}
        BY <2>1, <3>1, <3>3 DEF Done, Tagged, Inv, Types, FileTypes, Files, Letters, Copied
      <4>2. CASE cast.uplink # NoPeer
        <5>1. DownlinkOf(cast.uplink) = NoPeer /\ n \in FilesFor(NoPeer)
          BY <3>3, <4>1 DEF DownlinkOf, FilesFor, Contains
        <5>2. QED
          BY <4>1, <4>2, <5>1 DEF Waits, Partners
      <4>3. CASE cast.uplink = NoPeer
        <5>1. n.dir = Sub /\ n.to \in cast.downlinks
          BY <3>3, <4>1, <4>3 DEF Stranded
        <5>2. n.to # NoPeer
          BY <2>1, <3>1, OutboundAssumption DEF Inv, Types, FileTypes, Files, Letters, Copied
        <5>3. DownlinkOf(n.to) = n.to /\ n \in FilesFor(n.to)
          BY <3>3, <4>3, <5>1, <5>2 DEF DownlinkOf, FilesFor
        <5>4. QED
          BY <4>1, <5>1, <5>3 DEF Waits, Partners
      <4>4. QED
        BY <4>2, <4>3
    <3>4. QED
      BY <3>1, <3>2, <3>3
  <2>3. ASSUME NEW i \in due \ (installed \cup failed), ~Mistaken(i[2])
        PROVE  \E n \in Copies(i) : Held(n)
    <3>1. i[2] \in Partners /\ Exported(i)
      BY <2>1 DEF Inv, DueInv
    <3>2. PICK n \in Copies(i) : Ticket(n) \in made /\ Done(n)
      BY <3>1 DEF Exported
    <3>3. n \in made /\ n.kind = "payload" /\ Pair(n) = i
      <4>1. n \in made /\ n.kind = "payload" /\ n.of = i[1] /\ n.to = i[2]
        BY DEF Copies
      <4>2. i \in Items \X Peers
        BY <2>1 DEF Inv, Types, AreaTypes
      <4>3. QED
        BY <4>1, <4>2 DEF Pair
    <3>4. /\ Ticket(n).kind = "tic" /\ Pair(Ticket(n)) = i /\ Ticket(n).to = n.to
          /\ n.to = i[2] /\ n.to # NoPeer
      BY <2>1, <3>3, TicketType, OutboundAssumption
        DEF Inv, Types, FileTypes, Files, Letters, Copied, Pair
    <3>5. ASSUME NEW x \in made, Tagged(x), Done(x), Pair(x) = i, x.to = n.to
          PROVE  \/ x \in whole /\ x \in FilesFor(DownlinkOf(n.to))
                 \/ <<x, TRUE>> \in inbox[n.to] \/ x \in torn \/ Misled(x)
      <4>1. x \in present \/ x \in torn \/ <<x, TRUE>> \in inbox[x.to] \/ Misled(x)
        BY <2>1, <3>5 DEF Inv, KeptInv, Kept, Tagged
      <4>2. ASSUME x \in present
            PROVE  x \in FilesFor(DownlinkOf(n.to))
        <5>1. x.dir = Base
          BY <2>1, <3>5 DEF Tagged, Inv, Types, FileTypes, Files, Letters, Copied
        <5>2. CASE n.to \in cast.downlinks \ {cast.uplink}
          BY <3>4, <3>5, <4>2, <5>1, <5>2 DEF DownlinkOf, FilesFor, Contains
        <5>3. CASE n.to \notin cast.downlinks \ {cast.uplink}
          <6>1. n.to = cast.uplink
            BY <3>1, <3>4, <5>3 DEF Partners
          <6>2. \A d \in cast.downlinks : ~Contains(x, d)
            BY <2>3, <3>4, <3>5, <6>1 DEF Mistaken, Contains
          <6>3. QED
            BY <4>2, <5>3, <6>2 DEF DownlinkOf, FilesFor
        <5>4. QED
          BY <5>2, <5>3
      <4>3. QED
        BY <3>5, <4>1, <4>2 DEF Done
    <3>6. Done(Ticket(n)) /\ Tagged(Ticket(n)) /\ Tagged(n)
      BY <2>1, <3>2, <3>3, <3>4 DEF Inv, KeptInv, Tagged
    <3>7. Held(n)
      BY <3>2, <3>3, <3>4, <3>5, <3>6 DEF Held
    <3>8. QED
      BY <3>7
  <2>4. QED
    BY <2>2, <2>3 DEF NothingAstray
<1>2. QED
  BY <1>1, Invariance, PTL
=============================================================================
