---------------------------- MODULE BinkpSession ----------------------------
(***************************************************************************)
(* BinkP sessions as VirtBBS runs them (internal/fido/binkp.go): Poll on   *)
(* the calling side, binkpHandleIncoming on the answering side, and their  *)
(* common file transfer.  Either end may instead be another mailer, which  *)
(* sends and receives at the same time as FTS-1026 allows; that mailer is  *)
(* external and modelled from what the code says of binkd and others.      *)
(*                                                                         *)
(* A step reads or writes one frame.  A data frame carries one unit of a   *)
(* file; files are sent in the order of their numbers, as in a directory   *)
(* listing.  When a session is over the caller may dial again.             *)
(***************************************************************************)
EXTENDS Naturals, Sequences, FiniteSets

CONSTANTS
  CallerFiles, AnswererFiles,  \* files queued for the other end
  Sizes,                       \* what the files' sizes may be, in data frames
  Settings,                    \* which end is another mailer, or "none", and
                               \* what the answerer makes of the caller
  MaxFaults,                   \* bound on dropped connections and crashes
  MaxGets                      \* bound on M_GETs of the other mailer

Files == CallerFiles \cup AnswererFiles

\* "open": no password is wanted.
Standings == {"unknown", "open", "right", "wrong"}

ASSUME BinkpAssumption ==
  /\ Files \subseteq Nat \ {0} /\ CallerFiles \cap AnswererFiles = {}
  /\ Sizes \subseteq [Files -> Nat]
  /\ Settings \subseteq {"none", "caller", "answerer"} \X Standings
  /\ MaxFaults \in Nat /\ MaxGets \in Nat

Ends == {"caller", "answerer"}
Other(e) == IF e = "caller" THEN "answerer" ELSE "caller"
None == 0

VARIABLES
  mailer,      \* the end that is not VirtBBS, if any
  standing,    \* what the answerer makes of the caller's address, password
  size,        \* data frames of each file; a crash may have left one empty
  outbox,      \* files an end has queued for the other
  inbox, part, \* whole and partial files in an end's inbound directory
  taken, torn, \* history: whole and partial files an end has tossed
  skipped,     \* history: files refused with M_SKIP
  chan,        \* frames on their way to an end
  open,        \* an end has not closed its socket
  up,          \* the connection has not been reset
  armed,       \* the session's read deadline is still set
  pc,
  queue, cur, off,       \* files to send, the one being sent, units of it
  rcv, got,              \* file being received, units of it
  sent, received,        \* the session's result
  eobSent, eobSeen,      \* the other mailer's batch state
  hung,        \* the other mailer has gone silent
  faults, gets

files   == <<outbox, inbox, part, taken, torn, skipped>>
conn    == <<chan, open, up, armed>>
sender  == <<queue, cur, off, sent>>
inbound == <<rcv, got, received>>
batch   == <<eobSent, eobSeen, hung>>
bounds  == <<faults, gets>>
setting == <<mailer, standing, size>>
vars    == <<setting, files, conn, pc, sender, inbound, batch, bounds>>

QueuedBy(e) == IF e = "caller" THEN CallerFiles ELSE AnswererFiles

Init ==
  /\ \E s \in Settings : mailer = s[1] /\ standing = s[2]
  /\ size \in Sizes
  /\ outbox = [e \in Ends |-> QueuedBy(e)]
  /\ inbox = [e \in Ends |-> {}] /\ part = [e \in Ends |-> {}]
  /\ taken = [e \in Ends |-> {}] /\ torn = [e \in Ends |-> {}]
  /\ skipped = {}
  /\ chan = [e \in Ends |-> <<>>] /\ open = [e \in Ends |-> FALSE]
  /\ up = TRUE /\ armed = [e \in Ends |-> TRUE]
  /\ pc = [e \in Ends |-> "done"]
  /\ queue = [e \in Ends |-> {}] /\ cur = [e \in Ends |-> None]
  /\ off = [e \in Ends |-> 0] /\ sent = [e \in Ends |-> {}]
  /\ rcv = [e \in Ends |-> None] /\ got = [e \in Ends |-> 0]
  /\ received = [e \in Ends |-> {}]
  /\ eobSent = FALSE /\ eobSeen = FALSE /\ hung = FALSE
  /\ faults = 0 /\ gets = 0

-----------------------------------------------------------------------------
(* Frames and the connection.                                              *)

Cmd(t) == [t |-> t, f |-> None, off |-> 0]
About(t, f) == [t |-> t, f |-> f, off |-> 0]
FileFrame(f, o) == [t |-> "FILE", f |-> f, off |-> o]

Goto(e, label) == pc' = [pc EXCEPT ![e] = label]
Fault == faults < MaxFaults /\ faults' = faults + 1 /\ UNCHANGED gets

\* Writes to a closed socket are lost; the next read tells.
Write(e, frames) == chan' = [chan EXCEPT ![Other(e)] = @ \o frames]
Answer(e, frames) ==
  chan' = [chan EXCEPT ![e] = Tail(@), ![Other(e)] = @ \o frames]
Read(e) == chan' = [chan EXCEPT ![e] = Tail(@)]

\* recvFrame returns a frame of type t, or io.EOF, or another error: a reset
\* connection, or the deadline if it still stands and the peer is silent.
Next1(e, t) == up /\ chan[e] # <<>> /\ Head(chan[e]).t = t
Eof(e) == up /\ chan[e] = <<>> /\ ~open[Other(e)]
ReadError(e) ==
  \/ ~up
  \/ hung /\ armed[e] /\ chan[e] = <<>> /\ e # mailer

\* Closing a socket that has unread input resets the connection.
Close(e) ==
  /\ open' = [open EXCEPT ![e] = FALSE]
  /\ \/ UNCHANGED up
     \/ open[e] /\ chan[e] # <<>> /\ open[Other(e)] /\ up' = FALSE

\* The session fails: nothing is deleted, nothing is tossed.
Fail(e) == Close(e) /\ Goto(e, "done")

-----------------------------------------------------------------------------
(* Handshake.                                                              *)

\* The scheduler's next poll: the outbound directory is listed, the caller
\* sends M_NUL and M_ADR, and so does the answerer on accepting.
Dial ==
  /\ pc["caller"] = "done" /\ pc["answerer"] = "done"
  /\ chan' = [e \in Ends |-> <<Cmd("NUL"), Cmd("ADR")>>]
  /\ open' = [e \in Ends |-> TRUE] /\ up' = TRUE
  /\ armed' = [e \in Ends |-> TRUE]
  /\ pc' = [caller |-> "adr", answerer |-> "wadr"]
  /\ queue' = [queue EXCEPT !["caller"] = outbox["caller"]]
  /\ cur' = [e \in Ends |-> None] /\ off' = [e \in Ends |-> 0]
  /\ sent' = [e \in Ends |-> {}]
  /\ rcv' = [e \in Ends |-> None] /\ got' = [e \in Ends |-> 0]
  /\ received' = [e \in Ends |-> {}]
  /\ eobSent' = FALSE /\ eobSeen' = FALSE /\ hung' = FALSE
  /\ UNCHANGED <<setting, files, bounds>>

\* waitForADR, then M_PWD.
CallerAdr ==
  /\ pc["caller"] = "adr" /\ Next1("caller", "ADR")
  /\ Answer("caller", <<Cmd("PWD")>>) /\ Goto("caller", "auth")
  /\ UNCHANGED <<setting, files, open, up, armed, sender, inbound, batch,
                 bounds>>

\* After M_OK an end that is not VirtBBS goes on in its own way.
Begins(e, label) == Goto(e, IF e = mailer THEN "mail" ELSE label)

\* waitForAuth.
CallerOk ==
  /\ pc["caller"] = "auth" /\ Next1("caller", "OK")
  /\ Read("caller") /\ Begins("caller", "send")
  /\ UNCHANGED <<setting, files, open, up, armed, sender, inbound, batch,
                 bounds>>

CallerRefused ==
  /\ pc["caller"] = "auth" /\ Next1("caller", "ERR")
  /\ Read("caller") /\ Goto("caller", "done")
  /\ open' = [open EXCEPT !["caller"] = FALSE]
  /\ UNCHANGED <<setting, files, up, armed, sender, inbound, batch, bounds>>

Admit ==
  /\ Answer("answerer", <<Cmd("OK")>>)
  /\ queue' = [queue EXCEPT !["answerer"] = {}]
  /\ Begins("answerer", "receive")
  /\ UNCHANGED <<setting, files, open, up, armed, cur, off, sent, inbound,
                 batch, bounds>>

Refuse ==
  /\ Answer("answerer", <<Cmd("ERR")>>)
  /\ Goto("answerer", "done") /\ open' = [open EXCEPT !["answerer"] = FALSE]
  /\ UNCHANGED <<setting, files, up, armed, sender, inbound, batch, bounds>>

\* binkpWaitForADRAddrs and binkpMatchPeer.
AnswererAdr ==
  /\ pc["answerer"] = "wadr" /\ Next1("answerer", "ADR")
  /\ \/ standing = "unknown" /\ Refuse
     \/ standing = "open" /\ Admit
     \/ /\ standing \in {"right", "wrong"}
        /\ Read("answerer") /\ Goto("answerer", "wpwd")
        /\ UNCHANGED <<setting, files, open, up, armed, sender, inbound,
                       batch, bounds>>

\* binkpWaitForPWD.
AnswererPwd ==
  /\ pc["answerer"] = "wpwd" /\ Next1("answerer", "PWD")
  /\ IF standing = "right" THEN Admit ELSE Refuse

\* The loops that wait for one command pass over all others.
Awaited == [adr |-> {"ADR"}, auth |-> {"OK", "ERR"}, wadr |-> {"ADR"},
            wpwd |-> {"PWD"}]
PassOver(e) ==
  /\ pc[e] \in DOMAIN Awaited /\ up /\ chan[e] # <<>>
  /\ Head(chan[e]).t \notin Awaited[pc[e]]
  /\ Read(e)
  /\ UNCHANGED <<setting, files, open, up, armed, pc, sender, inbound, batch,
                 bounds>>

HandshakeFails(e) ==
  /\ pc[e] \in DOMAIN Awaited /\ (Eof(e) \/ ReadError(e))
  /\ Fail(e)
  /\ UNCHANGED <<setting, files, chan, armed, sender, inbound, batch, bounds>>

-----------------------------------------------------------------------------
(* Receiving: beginInboundFILE and writeInboundDATA.                       *)

\* os.Create: what was there under the name is gone.
BeginInbound(e) ==
  LET f == Head(chan[e]).f IN
  /\ rcv' = [rcv EXCEPT ![e] = f] /\ got' = [got EXCEPT ![e] = 0]
  /\ part' = [part EXCEPT ![e] = @ \cup {f}]
  /\ inbox' = [inbox EXCEPT ![e] = @ \ {f}]
  /\ Read(e)
  /\ UNCHANGED <<outbox, taken, torn, skipped, received>>

\* Mutant: the file counts as complete one frame early.
WriteInboundEarly(e, done) ==
  \/ /\ rcv[e] = None /\ Read(e) /\ UNCHANGED <<files, inbound>>
  \/ /\ rcv[e] # None /\ got[e] + 2 < size[rcv[e]]
     /\ got' = [got EXCEPT ![e] = @ + 1] /\ Read(e)
     /\ UNCHANGED <<files, rcv, received>>
  \/ /\ rcv[e] # None /\ got[e] + 2 >= size[rcv[e]]
     /\ received' = [received EXCEPT ![e] = @ \cup (done \cap {rcv[e]})]
     /\ Answer(e, <<About("GOT", rcv[e])>>)
     /\ rcv' = [rcv EXCEPT ![e] = None] /\ got' = [got EXCEPT ![e] = 0]
     /\ UNCHANGED files

\* Mutant: the finished file is not closed.
WriteInboundKeepsOpen(e, done) ==
  \/ /\ rcv[e] = None /\ Read(e) /\ UNCHANGED <<files, inbound>>
  \/ /\ rcv[e] # None
     /\ got' = [got EXCEPT ![e] = @ + 1]
     /\ IF got[e] + 1 < size[rcv[e]] THEN Read(e) /\ UNCHANGED <<files, received>>
        ELSE /\ inbox' = [inbox EXCEPT ![e] = @ \cup {rcv[e]}]
             /\ part' = [part EXCEPT ![e] = @ \ {rcv[e]}]
             /\ received' = [received EXCEPT ![e] = @ \cup (done \cap {rcv[e]})]
             /\ Answer(e, <<About("GOT", rcv[e])>>)
             /\ UNCHANGED <<outbox, taken, torn, skipped>>
     /\ UNCHANGED rcv

\* A data frame without a file is dropped; the one that completes the file
\* is answered with M_GOT.  Set done tells whether the caller of the function
\* counts the file as received.
WriteInbound(e, done) ==
  \/ /\ rcv[e] = None /\ Read(e) /\ UNCHANGED <<files, inbound>>
  \/ /\ rcv[e] # None /\ got[e] + 1 < size[rcv[e]]
     /\ got' = [got EXCEPT ![e] = @ + 1] /\ Read(e)
     /\ UNCHANGED <<files, rcv, received>>
  \/ /\ rcv[e] # None /\ got[e] + 1 >= size[rcv[e]]
     /\ inbox' = [inbox EXCEPT ![e] = @ \cup {rcv[e]}]
     /\ part' = [part EXCEPT ![e] = @ \ {rcv[e]}]
     /\ received' = [received EXCEPT ![e] = @ \cup (done \cap {rcv[e]})]
     /\ Answer(e, <<About("GOT", rcv[e])>>)
     /\ rcv' = [rcv EXCEPT ![e] = None] /\ got' = [got EXCEPT ![e] = 0]
     /\ UNCHANGED <<outbox, taken, torn, skipped>>

\* Both, for whichever frame comes next, where an interleaved file is taken.
\* Poll adds early files to its result, the answerer forgets them.
Interleaved(e) ==
  \/ Next1(e, "FILE") /\ size[Head(chan[e]).f] > 0 /\ BeginInbound(e)
  \/ Next1(e, "DATA") /\ WriteInbound(e, IF e = "caller" THEN Files ELSE {})

\* M_FILE of an empty file is invalid.
BadFile(e) == Next1(e, "FILE") /\ size[Head(chan[e]).f] = 0

-----------------------------------------------------------------------------
(* Sending: sendFile, sendFileFrom, pollOutboundCtrl, waitForGOT.          *)

FirstOf(S) == CHOOSE f \in S : \A g \in S : f <= g

\* M_FILE for the next file of the list; the answerer's list includes only
\* what is still there.
Announce(e) ==
  /\ pc[e] = "send" /\ queue[e] # {}
  /\ LET f == FirstOf(queue[e]) IN
       /\ cur' = [cur EXCEPT ![e] = f] /\ off' = [off EXCEPT ![e] = 0]
       /\ queue' = [queue EXCEPT ![e] = @ \ {f}]
       /\ Write(e, <<FileFrame(f, 0)>>)
  /\ Goto(e, "window")
  /\ UNCHANGED <<setting, files, open, up, armed, sent, inbound, batch,
                 bounds>>

\* pollOutboundCtrl: 200 ms without a frame.  It leaves the connection
\* without a read deadline.
WindowPasses(e) ==
  /\ pc[e] = "window" /\ up
  /\ armed' = [armed EXCEPT ![e] = FALSE] /\ Goto(e, "data")
  /\ UNCHANGED <<setting, files, chan, open, up, sender, inbound, batch,
                 bounds>>

\* The next unit of the file.
SendData(e) ==
  /\ pc[e] = "data" /\ off[e] < size[cur[e]]
  /\ off' = [off EXCEPT ![e] = @ + 1]
  /\ Write(e, <<Cmd("DATA")>>)
  /\ UNCHANGED <<setting, files, open, up, armed, pc, queue, cur, sent,
                 inbound, batch, bounds>>

\* Mutant: the sender does not wait for M_GOT.
DataSentIsEnough(e) ==
  /\ pc[e] = "data" /\ off[e] = size[cur[e]]
  /\ sent' = [sent EXCEPT ![e] = @ \cup {cur[e]}]
  /\ Goto(e, "send")
  /\ UNCHANGED <<setting, files, conn, queue, cur, off, inbound, batch,
                 bounds>>

DataSent(e) ==
  /\ pc[e] = "data" /\ off[e] = size[cur[e]]
  /\ Goto(e, "got")
  /\ UNCHANGED <<setting, files, conn, sender, inbound, batch, bounds>>

\* The single frame of the window, or any in waitForGOT.
Reading(e) == pc[e] \in {"window", "got"}
AfterFrame(e) ==
  /\ armed' = IF pc[e] = "window" THEN [armed EXCEPT ![e] = FALSE] ELSE armed
  /\ pc' = IF pc[e] = "window" THEN [pc EXCEPT ![e] = "data"] ELSE pc

\* The peer's own files, taken while we wait.
TakeInterleaved(e) ==
  /\ Reading(e) /\ Interleaved(e)
  /\ AfterFrame(e)
  /\ UNCHANGED <<setting, open, up, sender, batch, bounds>>

\* M_GOT for another file, M_EOB, M_GET or M_SKIP of another file, and in
\* the window any M_GOT.
IgnoreFrame(e) ==
  /\ Reading(e) /\ up /\ chan[e] # <<>>
  /\ Head(chan[e]).t \notin {"FILE", "DATA", "ERR"}
  /\ ~(Head(chan[e]).t \in {"GET", "SKIP"} /\ Head(chan[e]).f = cur[e])
  /\ ~(Head(chan[e]).t = "GOT" /\ pc[e] = "got" /\ Head(chan[e]).f = cur[e])
  /\ Read(e) /\ AfterFrame(e)
  /\ UNCHANGED <<setting, files, open, up, sender, inbound, batch, bounds>>

\* M_GOT in waitForGOT; M_SKIP, which sendFile takes for success as well.
FileDone(e) ==
  /\ \/ pc[e] = "got" /\ Next1(e, "GOT") /\ UNCHANGED armed
     \/ Reading(e) /\ Next1(e, "SKIP")
        /\ armed' = IF pc[e] = "window" THEN [armed EXCEPT ![e] = FALSE]
                                        ELSE armed
  /\ Head(chan[e]).f = cur[e]
  /\ sent' = [sent EXCEPT ![e] = @ \cup {cur[e]}]
  /\ Read(e) /\ Goto(e, "send")
  /\ UNCHANGED <<setting, files, open, up, queue, cur, off, inbound, batch,
                 bounds>>

\* errGetRestart: the file is announced again with the offset asked for.
Restart(e) ==
  /\ Reading(e) /\ Next1(e, "GET") /\ Head(chan[e]).f = cur[e]
  /\ off' = [off EXCEPT ![e] = Head(chan[e]).off]
  /\ Answer(e, <<FileFrame(cur[e], Head(chan[e]).off)>>)
  /\ armed' = IF pc[e] = "window" THEN [armed EXCEPT ![e] = FALSE] ELSE armed
  /\ Goto(e, "window")
  /\ UNCHANGED <<setting, files, open, up, queue, cur, sent, inbound, batch,
                 bounds>>

\* sendFile returns an error.  Poll gives up; the answerer ends its batch
\* with M_EOB all the same and deletes what was sent before.
SendFails(e) ==
  /\ Reading(e)
  /\ Eof(e) \/ ReadError(e) \/ BadFile(e)
  /\ IF e = "caller" THEN Fail(e) /\ UNCHANGED chan
     ELSE Goto(e, "clean") /\ Write(e, <<Cmd("EOB")>>) /\ UNCHANGED <<open, up>>
  /\ UNCHANGED <<setting, files, armed, sender, inbound, batch, bounds>>

\* Mutant: the end of the batch is not announced.
EndBatchSilent(e) ==
  /\ pc[e] = "send" /\ queue[e] = {}
  /\ cur' = [cur EXCEPT ![e] = None]
  /\ Goto(e, IF e = "caller" THEN "receive" ELSE "clean")
  /\ UNCHANGED <<setting, files, conn, queue, off, sent, inbound, batch,
                 bounds>>

\* M_EOB.
EndBatch(e) ==
  /\ pc[e] = "send" /\ queue[e] = {}
  /\ Write(e, <<Cmd("EOB")>>)
  /\ cur' = [cur EXCEPT ![e] = None]
  /\ IF e = "caller"
       THEN /\ Goto(e, "receive")
            /\ rcv' = [rcv EXCEPT ![e] = None] /\ got' = [got EXCEPT ![e] = 0]
       ELSE Goto(e, "clean") /\ UNCHANGED <<rcv, got>>
  /\ UNCHANGED <<setting, files, open, up, armed, queue, off, sent, received,
                 batch, bounds>>

-----------------------------------------------------------------------------
(* receiveUntilEOB.  It begins by giving up a file that is being received  *)
(* (for the caller in EndBatch).                                           *)

ReceiveFile(e) ==
  /\ pc[e] = "receive"
  /\ \/ Next1(e, "FILE") /\ size[Head(chan[e]).f] > 0 /\ BeginInbound(e)
     \/ Next1(e, "DATA") /\ WriteInbound(e, Files)
  /\ UNCHANGED <<setting, open, up, armed, pc, sender, batch, bounds>>

ReceiveOther(e) ==
  /\ pc[e] = "receive" /\ up /\ chan[e] # <<>>
  /\ Head(chan[e]).t \notin {"FILE", "DATA", "EOB", "ERR"}
  /\ Read(e)
  /\ UNCHANGED <<setting, files, open, up, armed, pc, sender, inbound, batch,
                 bounds>>

\* M_EOB, or io.EOF in its place.  Poll sends a final M_EOB and closes; the
\* answerer lists its outbound directory and sends.
ReceiveEnds(e) ==
  /\ pc[e] = "receive"
  /\ \/ Next1(e, "EOB") /\ Answer(e, IF e = "caller" THEN <<Cmd("EOB")>> ELSE <<>>)
     \/ Eof(e) /\ Write(e, IF e = "caller" THEN <<Cmd("EOB")>> ELSE <<>>)
  /\ rcv' = [rcv EXCEPT ![e] = None] /\ got' = [got EXCEPT ![e] = 0]
  /\ IF e = "caller"
       THEN Goto(e, "clean") /\ Close(e) /\ UNCHANGED queue
       ELSE Goto(e, "send") /\ UNCHANGED <<open, up>>
            /\ queue' = [queue EXCEPT ![e] = outbox[e]]
  /\ UNCHANGED <<setting, files, armed, cur, off, sent, received, batch,
                 bounds>>

ReceiveFails(e) ==
  /\ pc[e] = "receive" /\ (ReadError(e) \/ BadFile(e))
  /\ Fail(e)
  /\ UNCHANGED <<setting, files, chan, armed, sender, inbound, batch, bounds>>

-----------------------------------------------------------------------------
(* After the session.                                                      *)

\* Mutant: os.Remove is given the base name.
RemoveNothing(e) ==
  /\ pc[e] = "clean" /\ sent[e] # {}
  /\ sent' = [sent EXCEPT ![e] = @ \ {FirstOf(@)}]
  /\ UNCHANGED <<setting, files, conn, pc, queue, cur, off, inbound, batch,
                 bounds>>

\* os.Remove, one file after the other.
RemoveSent(e) ==
  /\ pc[e] = "clean" /\ sent[e] # {}
  /\ LET f == FirstOf(sent[e]) IN
       /\ outbox' = [outbox EXCEPT ![e] = @ \ {f}]
       /\ sent' = [sent EXCEPT ![e] = @ \ {f}]
  /\ UNCHANGED <<setting, inbox, part, taken, torn, skipped, conn, pc, queue,
                 cur, off, inbound, batch, bounds>>

\* TossDir takes all that is in the inbound directory; the answerer calls it
\* only if it has received something.
TossAndClose(e) ==
  /\ pc[e] = "clean" /\ sent[e] = {}
  /\ IF e = "caller" \/ received[e] # {}
       THEN /\ taken' = [taken EXCEPT ![e] = @ \cup inbox[e]]
            /\ torn' = [torn EXCEPT ![e] = @ \cup part[e]]
            /\ inbox' = [inbox EXCEPT ![e] = {}]
            /\ part' = [part EXCEPT ![e] = {}]
       ELSE UNCHANGED <<inbox, part, taken, torn>>
  /\ Close(e) /\ Goto(e, "done")
  /\ UNCHANGED <<setting, outbox, skipped, chan, armed, sender, inbound, batch,
                 bounds>>

\* The process dies; the directories remain.
Die(e) ==
  /\ pc[e] # "done" /\ e # mailer /\ Fault
  /\ Fail(e)
  /\ UNCHANGED <<setting, files, chan, armed, sender, inbound, batch>>

\* The network drops the connection.
Drop ==
  /\ up /\ Fault
  /\ \E e \in Ends : pc[e] # "done" /\ open[e]
  /\ up' = FALSE
  /\ UNCHANGED <<setting, files, chan, open, armed, pc, sender, inbound, batch>>

-----------------------------------------------------------------------------
(* The other mailer.  It sends while it receives, deletes a file on M_GOT, *)
(* and closes after both M_EOBs.                                           *)

Mail(e) == e = mailer /\ pc[e] = "mail" /\ ~hung

\* M_FILE: it takes the file, ...
MailTakes(e) ==
  /\ Mail(e) /\ Next1(e, "FILE")
  /\ LET f == Head(chan[e]).f  o == Head(chan[e]).off IN
       IF o = size[f]
         THEN /\ inbox' = [inbox EXCEPT ![e] = @ \cup {f}]
              /\ Answer(e, <<About("GOT", f)>>)
              /\ UNCHANGED <<rcv, got>>
         ELSE /\ rcv' = [rcv EXCEPT ![e] = f] /\ got' = [got EXCEPT ![e] = o]
              /\ Read(e) /\ UNCHANGED inbox
  /\ UNCHANGED <<setting, outbox, part, taken, torn, skipped, open, up, armed,
                 pc, sender, received, batch, bounds>>

\* ... or wants it another time, ...
MailSkips(e) ==
  /\ Mail(e) /\ Next1(e, "FILE")
  /\ skipped' = skipped \cup {Head(chan[e]).f}
  /\ Answer(e, <<About("SKIP", Head(chan[e]).f)>>)
  /\ rcv' = [rcv EXCEPT ![e] = None]
  /\ UNCHANGED <<setting, outbox, inbox, part, taken, torn, open, up, armed, pc,
                 sender, got, received, batch, bounds>>

\* ... or from another offset, ...
MailGets(e) ==
  /\ Mail(e) /\ Next1(e, "FILE") /\ gets < MaxGets /\ gets' = gets + 1
  /\ \E o \in 0..size[Head(chan[e]).f] :
       Answer(e, <<[t |-> "GET", f |-> Head(chan[e]).f, off |-> o]>>)
  /\ rcv' = [rcv EXCEPT ![e] = None]
  /\ UNCHANGED <<setting, files, open, up, armed, pc, sender, got, received,
                 batch, faults>>

\* ... or has it already.
MailHasIt(e) ==
  /\ Mail(e) /\ Next1(e, "FILE") /\ Head(chan[e]).f \in inbox[e]
  /\ Answer(e, <<About("GOT", Head(chan[e]).f)>>)
  /\ rcv' = [rcv EXCEPT ![e] = None]
  /\ UNCHANGED <<setting, files, open, up, armed, pc, sender, got, received,
                 batch, bounds>>

MailReceives(e) ==
  /\ Mail(e) /\ Next1(e, "DATA") /\ WriteInbound(e, Files)
  /\ UNCHANGED <<setting, open, up, armed, pc, sender, batch, bounds>>

MailGot(e) ==
  /\ Mail(e) /\ Next1(e, "GOT")
  /\ outbox' = [outbox EXCEPT ![e] = @ \ {Head(chan[e]).f}]
  /\ Read(e)
  /\ UNCHANGED <<setting, inbox, part, taken, torn, skipped, open, up, armed,
                 pc, sender, inbound, batch, bounds>>

MailOther(e) ==
  /\ Mail(e) /\ up /\ chan[e] # <<>>
  /\ Head(chan[e]).t \notin {"FILE", "DATA", "GOT"}
  /\ eobSeen' = (eobSeen \/ Head(chan[e]).t = "EOB")
  /\ Read(e)
  /\ UNCHANGED <<setting, files, open, up, armed, pc, sender, inbound, eobSent,
                 hung, bounds>>

MailAnnounces(e) ==
  /\ Mail(e) /\ cur[e] = None /\ outbox[e] \ sent[e] # {} /\ ~eobSent
  /\ LET f == FirstOf(outbox[e] \ sent[e]) IN
       /\ cur' = [cur EXCEPT ![e] = f] /\ off' = [off EXCEPT ![e] = 0]
       /\ Write(e, <<FileFrame(f, 0)>>)
  /\ UNCHANGED <<setting, files, open, up, armed, pc, queue, sent, inbound,
                 batch, bounds>>

MailData(e) ==
  /\ Mail(e) /\ cur[e] # None
  /\ IF off[e] < size[cur[e]]
       THEN /\ off' = [off EXCEPT ![e] = @ + 1] /\ Write(e, <<Cmd("DATA")>>)
            /\ UNCHANGED <<cur, sent>>
       ELSE /\ cur' = [cur EXCEPT ![e] = None]
            /\ sent' = [sent EXCEPT ![e] = @ \cup {cur[e]}]
            /\ UNCHANGED <<off, chan>>
  /\ UNCHANGED <<setting, files, open, up, armed, pc, queue, inbound, batch,
                 bounds>>

MailEob(e) ==
  /\ Mail(e) /\ ~eobSent /\ cur[e] = None /\ outbox[e] \subseteq sent[e]
  /\ eobSent' = TRUE /\ Write(e, <<Cmd("EOB")>>)
  /\ UNCHANGED <<setting, files, open, up, armed, pc, sender, inbound, eobSeen,
                 hung, bounds>>

\* It is done; or nothing has moved for so long that it gives up; or it
\* breaks off.
MailCloses(e) ==
  /\ Mail(e)
  /\ \/ eobSent /\ eobSeen /\ chan[e] = <<>> /\ outbox[e] \cap sent[e] = {}
        /\ UNCHANGED bounds
     \/ eobSent /\ chan[e] = <<>> /\ chan[Other(e)] = <<>>
        /\ pc[Other(e)] \in {"got", "receive"} /\ UNCHANGED bounds
     \/ Fault
  /\ Fail(e)
  /\ UNCHANGED <<setting, files, chan, armed, sender, inbound, batch>>

\* The connection is gone.
MailLeft(e) ==
  /\ e = mailer /\ pc[e] = "mail" /\ (Eof(e) \/ ~up)
  /\ Fail(e)
  /\ UNCHANGED <<setting, files, chan, armed, sender, inbound, batch, bounds>>

MailHangs(e) ==
  /\ Mail(e) /\ Fault /\ hung' = TRUE
  /\ UNCHANGED <<setting, files, conn, pc, sender, inbound, eobSent, eobSeen>>

-----------------------------------------------------------------------------
HandshakeStep(e) ==
  \/ e = "caller" /\ (CallerAdr \/ CallerOk \/ CallerRefused)
  \/ e = "answerer" /\ (AnswererAdr \/ AnswererPwd)
  \/ PassOver(e) \/ HandshakeFails(e)

TransferStep(e) ==
  \/ Announce(e) \/ WindowPasses(e) \/ SendData(e) \/ DataSent(e)
  \/ TakeInterleaved(e) \/ IgnoreFrame(e) \/ FileDone(e) \/ Restart(e)
  \/ SendFails(e) \/ EndBatch(e)
  \/ ReceiveFile(e) \/ ReceiveOther(e) \/ ReceiveEnds(e) \/ ReceiveFails(e)
  \/ RemoveSent(e) \/ TossAndClose(e)

MailStep(e) ==
  \/ MailTakes(e) \/ MailSkips(e) \/ MailGets(e) \/ MailHasIt(e)
  \/ MailReceives(e) \/ MailGot(e) \/ MailOther(e) \/ MailAnnounces(e)
  \/ MailData(e) \/ MailEob(e) \/ MailCloses(e) \/ MailLeft(e)

Step(e) == HandshakeStep(e) \/ TransferStep(e) \/ MailStep(e)

Next == Dial \/ Drop \/ \E e \in Ends : Step(e) \/ Die(e) \/ MailHangs(e)

Spec == Init /\ [][Next]_vars

\* Both programs keep running, and the caller polls again and again.
FairSpec == Spec /\ WF_vars(Dial) /\ \A e \in Ends : WF_vars(Step(e))

-----------------------------------------------------------------------------
(* Properties.                                                             *)

Commands == {"NUL", "ADR", "PWD", "OK", "ERR", "FILE", "DATA", "EOB", "GOT",
             "GET", "SKIP"}

\* Types; a file that is being received is not complete.
TypeOK ==
  /\ mailer \in Ends \cup {"none"} /\ size \in Sizes
  /\ standing \in Standings
  /\ \A e \in Ends :
       /\ outbox[e] \subseteq QueuedBy(e)
       /\ inbox[e] \cup part[e] \cup taken[e] \cup torn[e] \cup received[e]
            \subseteq QueuedBy(Other(e))
       /\ queue[e] \cup sent[e] \subseteq QueuedBy(e)
       /\ cur[e] \in QueuedBy(e) \cup {None}
       /\ cur[e] # None => off[e] <= size[cur[e]]
       /\ rcv[e] \in QueuedBy(Other(e)) \cup {None}
       /\ rcv[e] # None => got[e] < size[rcv[e]]
       /\ \A i \in DOMAIN chan[e] :
            chan[e][i] \in [t : Commands, f : QueuedBy(e) \cup QueuedBy(Other(e))
                              \cup {None}, off : Nat]
       /\ open[e] \in BOOLEAN /\ armed[e] \in BOOLEAN
  /\ skipped \subseteq Files
  /\ \A b \in {up, eobSent, eobSeen, hung} : b \in BOOLEAN
  /\ faults \in 0..MaxFaults /\ gets \in 0..MaxGets

Has(e, f) == f \in inbox[e] \cup taken[e]

\* "Successfully sent files are deleted" (docs/FidoNet Config.md:246): what an
\* end no longer keeps the other end has whole, or has skipped - whichever
\* session was cut short, restarted or interleaved with the other direction.
RemovedWasTaken ==
  \A e \in Ends : \A f \in QueuedBy(e) \ outbox[e] :
    Has(Other(e), f) \/ f \in skipped

\* A session ends on both sides, unless the other mailer falls silent while
\* it keeps the connection open.
AllDone == \A e \in Ends : pc[e] = "done"
SessionEnds == ~AllDone ~> AllDone \/ hung

\* Between sessions of two VirtBBS nodes nothing that was received whole is
\* still queued to be sent again, unless something failed.
NothingResent ==
  (mailer = "none" /\ faults = 0 /\ AllDone /\ \A f \in Files : size[f] > 0)
      => \A e \in Ends : \A f \in outbox[e] : ~Has(Other(e), f)

\* Two VirtBBS nodes, of which the one admits the other, exchange all their
\* files in the end, whatever sessions fail on the way, and the caller tosses
\* its own.  (The answerer tosses after a session that received something, so
\* what it had when it died waits for the next.)
EventuallyExchanged ==
  (mailer = "none" /\ standing \in {"open", "right"}
     /\ \A f \in Files : size[f] > 0)
  ~> /\ \A e \in Ends : outbox[e] = {} /\ \A f \in QueuedBy(e) : Has(Other(e), f)
     /\ taken["caller"] = AnswererFiles

\* The peer's files that arrive while we wait for an M_GOT "must be received
\* and acknowledged" (binkp.go:1142): once a session in which nothing failed
\* is over, the toss has not come across the first part of one.
InterleavedWhole == faults = 0 => \A e \in Ends : torn[e] = {}
=============================================================================
