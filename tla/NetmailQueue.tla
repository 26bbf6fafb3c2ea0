---------------------------- MODULE NetmailQueue ----------------------------
(***************************************************************************)
(* The queue of composed netmail (internal/fido/netmail.go, routes.go,     *)
(* nodelistdelivery.go): rows of fido_netmail, which every poll first      *)
(* writes into packet files of the outbound directory, one for each mail,  *)
(* and then marks as sent.                                                 *)
(***************************************************************************)
EXTENDS OutboundDir, Sequences

CONSTANTS
  Mails,        \* numbered in the order of their rows
  To,           \* where each goes
  CrashMail,    \* those flagged crash
  Pollers       \* goroutines that poll: the scheduler's, a sysop's

ASSUME NetmailAssumption ==
  /\ IsFiniteSet(Mails) /\ Mails = 1..Cardinality(Mails)
  /\ To \in [Mails -> Peers] /\ CrashMail \subseteq Mails

VARIABLES
  row,          \* fido_netmail: "none", "queued", "sent"
  recorded,     \* copies for the board's own threads
  rows,         \* each poller: the rows it has read and not yet handled
  letter,       \* ... the packet it is writing
  step          \* ... "next", "write", "mark", "record"

netmail == <<row, recorded, rows, letter, step>>
NoLetter == [kind |-> "none"]

NetmailInit ==
  /\ row = [m \in Mails |-> "none"] /\ recorded = {}
  /\ rows = [p \in Pollers |-> {}] /\ letter = [p \in Pollers |-> NoLetter]
  /\ step = [p \in Pollers |-> "next"]

Enqueue(m) ==
  /\ m \in cast.mails /\ row[m] = "none" /\ row' = [row EXCEPT ![m] = "queued"]
  /\ UNCHANGED <<recorded, rows, letter, step, dir>>

\* The nodelist says Hold or Down; downlinks fetch their mail anyway.
ShouldDefer(a) == a \in cast.held \ cast.downlinks

\* MatchRoute: the most specific pattern that matches; cast.routes holds
\* its next hop for each address.
RouteFor(a) == cast.routes[a]

\* RouteAddr; NoPeer stands for its error, no uplink.
RouteAddr(m) ==
  LET a == To[m]
      direct == IF m \in CrashMail \/ a \in cast.downlinks THEN a ELSE RouteFor(a)
  IN  IF direct # NoPeer /\ ~ShouldDefer(direct) THEN direct ELSE cast.uplink

\* The subdirectory for crash mail, and for another hop than the uplink if
\* there is an uplink.
OutDir(m) ==
  IF m \in CrashMail \/ (cast.uplink # NoPeer /\ RouteAddr(m) # cast.uplink)
  THEN Sub ELSE Base

Cur(p) == CHOOSE m \in rows[p] : \A k \in rows[p] : m <= k
Handled(p) ==
  /\ rows' = [rows EXCEPT ![p] = @ \ {Cur(p)}]
  /\ letter' = [letter EXCEPT ![p] = NoLetter]
  /\ step' = [step EXCEPT ![p] = "next"]

\* Pending.
ReadRows(p) ==
  /\ rows' = [rows EXCEPT ![p] = {m \in Mails : row[m] = "queued"}]
  /\ UNCHANGED <<row, recorded, letter, step, dir>>

NoRoute(p) ==
  /\ step[p] = "next" /\ rows[p] # {} /\ RouteAddr(Cur(p)) = NoPeer
  /\ Handled(p) /\ UNCHANGED <<row, recorded, dir>>

CreatePacket(p) ==
  /\ step[p] = "next" /\ rows[p] # {} /\ RouteAddr(Cur(p)) # NoPeer
  /\ LET n == File("pkt", Cur(p), RouteAddr(Cur(p)), OutDir(Cur(p)))
     IN  Create(n) /\ letter' = [letter EXCEPT ![p] = n]
  /\ step' = [step EXCEPT ![p] = "write"] /\ UNCHANGED <<row, recorded, rows>>

WritePacket(p) ==
  /\ step[p] = "write" /\ Complete(letter[p])
  /\ step' = [step EXCEPT ![p] = "mark"]
  /\ UNCHANGED <<row, recorded, rows, letter>>

MarkSent(p) ==
  /\ step[p] = "mark" /\ row' = [row EXCEPT ![Cur(p)] = "sent"]
  /\ step' = [step EXCEPT ![p] = "record"]
  /\ UNCHANGED <<recorded, rows, letter, dir>>

RecordSent(p) ==
  /\ step[p] = "record" /\ recorded' = recorded \cup {Cur(p)}
  /\ Handled(p) /\ UNCHANGED <<row, dir>>

\* Create, WritePacket (what is written stays), MarkSent or RecordSentNetmail
\* fails: the loop goes on with the next row.
NetmailFails(p) ==
  /\ rows[p] # {} /\ (step[p] # "next" \/ RouteAddr(Cur(p)) # NoPeer)
  /\ Handled(p) /\ UNCHANGED <<row, recorded, dir>>

NetmailStep(p) ==
  \/ NoRoute(p) \/ CreatePacket(p) \/ WritePacket(p) \/ MarkSent(p)
  \/ RecordSent(p)

\* The process ends.
NetmailDies ==
  /\ rows' = [p \in Pollers |-> {}] /\ letter' = [p \in Pollers |-> NoLetter]
  /\ step' = [p \in Pollers |-> "next"] /\ UNCHANGED <<row, recorded, dir>>

NetmailTypeOK ==
  /\ row \in [Mails -> {"none", "queued", "sent"}] /\ recorded \subseteq Mails
  /\ \A p \in Pollers :
       /\ rows[p] \subseteq Mails
       /\ step[p] \in {"next", "write", "mark", "record"}
       /\ letter[p] \in made \cup {NoLetter}
=============================================================================
