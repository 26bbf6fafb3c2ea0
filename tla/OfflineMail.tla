----------------------------- MODULE OfflineMail -----------------------------
(***************************************************************************)
(* Mail taken away and brought back: the Android client VirtAnd            *)
(* (SyncEngine.kt over internal/userapi) and a caller's QWK and REP        *)
(* packets (session/qwkmenu.go over internal/qwk).  The server remembers   *)
(* for each kind of client how far it has been given the messages of each  *)
(* area, and moves that mark before anybody knows that the answer arrives. *)
(*                                                                         *)
(* A worker is a run of synchronize - the user's tap, the periodic job -   *)
(* or the caller's session.  While a worker is in one of ServerSteps the   *)
(* server's handler is at work; the client may time out or die meanwhile   *)
(* and the handler goes on.                                                *)
(***************************************************************************)
EXTENDS Naturals, FiniteSetsExt

CONSTANTS
  Syncs, Caller,     \* workers: runs of synchronize; the caller's session
  Conferences,       \* their ids, 1 .. n, in the order of the list
  Netmail,           \* VirtAndNetmailConferenceID
  Limit,             \* messages of an area in one messages.sync
  Long,              \* messages too long for a QWK body
  AppReplies, RepReplies,  \* replies queued on the device and in the reader
  Refused,           \* replies PostReplies ends at
  Skipped,           \* replies to a conference that is not there or too high
  MaxMsg,            \* bound on messages of an area
  MaxFaults,         \* bound on failed calls, lost answers and killed apps
  Casts              \* areas that get mail, replies written, whether messages
                     \* are marked as read, whether old ones are purged

Workers == Syncs \cup {Caller}
Replies == AppReplies \cup RepReplies
Areas == Conferences \cup {Netmail}
Messages == Areas \X (1..MaxMsg)
Clients == {"app", "qwk"}

ASSUME OfflineAssumption ==
  /\ Caller \notin Syncs /\ Netmail = 0 /\ IsFiniteSet(Conferences)
  /\ Conferences = 1..Cardinality(Conferences)
  /\ Limit \in Nat \ {0} /\ Long \subseteq Conferences \X Nat
  /\ AppReplies \cap RepReplies = {} /\ Replies \subseteq Nat \ {0}
  /\ Refused \cup Skipped \subseteq Replies /\ Refused \cap Skipped = {}
  /\ MaxMsg \in Nat /\ MaxFaults \in Nat

VARIABLES
  high, deleted,     \* messages: the highest number of each area, status 'D'
  last,              \* app_last_msg and app_last_netmail; qwk_last_msg
  posted,            \* copies of a reply in the message base (2: or more)
  reported,          \* numbers given to SetLastRead
  have,              \* messages on the device and in the reader
  queue, pending,    \* reply queue; pending_read_updates of conference 1
  taps,              \* markMessageRead: each number's call
  at, area, got, batch, left, snap,   \* each worker
  waits,             \* workers whose client waits for the answer
  faults, cast,
  missed, purged, asked, withdrawn, unsure, shadowed   \* history

server == <<high, deleted, last, posted, reported>>
device == <<have, queue, pending, taps>>
worker == <<at, area, got, batch, left, snap, waits>>
history == <<missed, purged, asked, withdrawn, unsure, shadowed>>
vars == <<server, device, worker, history, faults, cast>>

Init ==
  /\ cast \in Casts
  /\ high = [a \in Areas |-> 0] /\ deleted = {}
  /\ last = [c \in Clients |-> [a \in Areas |-> 0]]
  /\ posted = [r \in Replies |-> 0] /\ reported = {}
  /\ have = [c \in Clients |-> {}] /\ queue = {} /\ pending = 0
  /\ taps = [n \in 1..MaxMsg |-> "none"]
  /\ at = [w \in Workers |-> "idle"] /\ area = [w \in Workers |-> 1]
  /\ got = [w \in Workers |-> {}] /\ batch = [w \in Workers |-> {}]
  /\ left = batch /\ snap = [w \in Workers |-> 0] /\ waits = {}
  /\ faults = 0 /\ missed = [c \in Clients |-> {}] /\ purged = {}
  /\ asked = {} /\ withdrawn = {} /\ unsure = {} /\ shadowed = {}

-----------------------------------------------------------------------------
Client(w) == IF w = Caller THEN "qwk" ELSE "app"
Go(w, to) == at' = [at EXCEPT ![w] = to]
Fault == faults < MaxFaults /\ faults' = faults + 1

\* Areas are listed one after the other, netmail last.
Area(w) == IF area[w] \in Conferences THEN area[w] ELSE Netmail

\* What is in w's answer and counted as given: w has moved the mark of its
\* area.
Given(w) == {m \in got[w] : at[w] = "set" => m[1] # Area(w)}
Miss(c, ms) == missed' = [missed EXCEPT ![c] = @ \cup ms]

\* Mutant: what was left to post stays for the next batch.
RestLeaving(w) ==
  /\ Go(w, "idle") /\ got' = [got EXCEPT ![w] = {}]
  /\ batch' = [batch EXCEPT ![w] = {}] /\ UNCHANGED left
  /\ area' = [area EXCEPT ![w] = 1] /\ snap' = [snap EXCEPT ![w] = 0]
  /\ waits' = waits \ {w}

\* Nothing of the worker's is left.
Rest(w) ==
  /\ Go(w, "idle") /\ got' = [got EXCEPT ![w] = {}]
  /\ batch' = [batch EXCEPT ![w] = {}] /\ left' = [left EXCEPT ![w] = {}]
  /\ area' = [area EXCEPT ![w] = 1] /\ snap' = [snap EXCEPT ![w] = 0]
  /\ waits' = waits \ {w}

\* Others post: messages.Post, with the next number.
Post(a) ==
  /\ a \in cast.areas /\ high[a] < MaxMsg
  /\ high' = [high EXCEPT ![a] = @ + 1]
  /\ UNCHANGED <<deleted, last, posted, reported, device, worker, history,
                 faults, cast>>

-----------------------------------------------------------------------------
(* synchronize: purgeOldMessages.                                          *)

\* The old messages; those of other areas just go from the device.
Begin(s) ==
  /\ s \in cast.syncs /\ at[s] = "idle" /\ Go(s, "purge")
  /\ \E old \in SUBSET have["app"] :
       /\ old = {} \/ cast.purge
       /\ got' = [got EXCEPT ![s] = old]
  /\ UNCHANGED <<server, device, area, batch, left, snap, waits, history,
                 faults, cast>>

\* messages.delete of each netmail; if it fails the copy goes all the same.
PurgeDelete(s) ==
  /\ at[s] = "purge"
  /\ \E m \in got[s] :
       /\ m[1] = Netmail /\ m \notin deleted
       /\ deleted' = deleted \cup {m}
  /\ UNCHANGED <<high, last, posted, reported, device, worker, history, faults,
                 cast>>

PurgeLocal(s) ==
  /\ at[s] = "purge"
  /\ \/ /\ \A m \in got[s] : m[1] = Netmail => m \in deleted
        /\ UNCHANGED faults
     \/ Fault
  /\ have' = [have EXCEPT !["app"] = @ \ got[s]]
  /\ purged' = purged \cup got[s]
  /\ got' = [got EXCEPT ![s] = {}] /\ Go(s, "reads")
  /\ UNCHANGED <<server, queue, pending, taps, area, batch, left, snap, waits,
                 missed, asked, withdrawn, unsure, shadowed, cast>>

-----------------------------------------------------------------------------
(* Messages marked as read: markMessageRead, and syncPendingReadPointers   *)
(* of those that were not reported at once.  Their number is the server's  *)
(* last_msg_read; the row of the conference is cleared, whatever is in it. *)

Report(n) == reported' = reported \cup {n}
Clear(n) ==
  /\ pending' = 0 /\ shadowed' = shadowed \cup ({pending} \ {0, n})

Tap(n) ==
  /\ cast.reads /\ <<1, n>> \in have["app"] /\ taps[n] = "none"
  /\ pending' = n /\ taps' = [taps EXCEPT ![n] = "call"]
  /\ UNCHANGED <<server, have, queue, worker, history, faults, cast>>

TapReport(n) ==
  /\ taps[n] = "call" /\ Report(n) /\ taps' = [taps EXCEPT ![n] = "clear"]
  /\ UNCHANGED <<high, deleted, last, posted, have, queue, pending, worker,
                 history, faults, cast>>

TapFails(n) ==
  /\ taps[n] \in {"call", "clear"} /\ Fault
  /\ taps' = [taps EXCEPT ![n] = "done"]
  /\ UNCHANGED <<server, have, queue, pending, worker, history, cast>>

TapClear(n) ==
  /\ taps[n] = "clear" /\ Clear(n) /\ taps' = [taps EXCEPT ![n] = "done"]
  /\ UNCHANGED <<server, have, queue, worker, missed, purged, asked, withdrawn,
                 unsure, faults, cast>>

\* Mutant: the row is taken away when it is read.
TakePending(s) ==
  /\ at[s] = "reads" /\ snap' = [snap EXCEPT ![s] = pending] /\ pending' = 0
  /\ Go(s, IF pending = 0 THEN "ask" ELSE "report")
  /\ UNCHANGED <<server, have, queue, taps, area, got, batch, left, waits,
                 history, faults, cast>>

ReadPending(s) ==
  /\ at[s] = "reads" /\ snap' = [snap EXCEPT ![s] = pending]
  /\ Go(s, IF pending = 0 THEN "ask" ELSE "report")
  /\ UNCHANGED <<server, device, area, got, batch, left, waits, history, faults,
                 cast>>

SyncReport(s) ==
  /\ at[s] = "report" /\ Report(snap[s]) /\ Go(s, "clear")
  /\ UNCHANGED <<high, deleted, last, posted, device, area, got, batch, left,
                 snap, waits, history, faults, cast>>

\* The call, or its answer, is lost; the next synchronize tries again.
ReportFails(s) ==
  /\ at[s] \in {"report", "clear"} /\ Fault /\ Go(s, "ask")
  /\ UNCHANGED <<server, device, area, got, batch, left, snap, waits, history,
                 cast>>

SyncClear(s) ==
  /\ at[s] = "clear" /\ Clear(snap[s]) /\ Go(s, "ask")
  /\ UNCHANGED <<server, have, queue, taps, area, got, batch, left, snap, waits,
                 missed, purged, asked, withdrawn, unsure, faults, cast>>

-----------------------------------------------------------------------------
(* messages.sync and BuildPacket: area after area the server lists what is *)
(* new since its mark, and moves the mark.                                 *)

ListSteps == {"list", "set"}
ServerSteps == ListSteps \cup {"posting", "posted"}

Ask(w) ==
  /\ at[w] = (IF w = Caller THEN "idle" ELSE "ask")
  /\ w = Caller => cast.qwk
  /\ Go(w, "list") /\ area' = [area EXCEPT ![w] = 1] /\ waits' = waits \cup {w}
  /\ UNCHANGED <<server, device, got, batch, left, snap, history, faults, cast>>

\* ListNetmail is messages.sync's last step, and not in QWK packets.
ListLength(w) == Cardinality(Conferences) + (IF w = Caller THEN 0 ELSE 1)
Mark(w) == last[Client(w)][Area(w)]
Fresh(a, from) ==
  {m \in Messages \ deleted : m[1] = a /\ m[2] > from /\ m[2] <= high[a]}
First(ms, k) == {m \in ms : Cardinality({l \in ms : l[2] <= m[2]}) <= k}

\* ListFrom and ListNetmail; 100000 in BuildPacket is no limit here.
New(w) ==
  LET ms == Fresh(Area(w), Mark(w))
  IN  IF w = Caller THEN ms ELSE First(ms, Limit)

List(w) ==
  /\ at[w] = "list" /\ area[w] <= ListLength(w)
  /\ w = Caller => New(w) \cap Long = {}
  /\ got' = [got EXCEPT ![w] = @ \cup New(w)]
  /\ IF New(w) = {}
     THEN area' = [area EXCEPT ![w] = @ + 1] /\ UNCHANGED at
     ELSE Go(w, "set") /\ UNCHANGED area
  /\ UNCHANGED <<server, device, batch, left, snap, waits, history, faults, cast>>

\* Mutant: the mark goes to the newest message instead of the last listed.
SetLastNewest(w) ==
  /\ at[w] = "set" /\ Go(w, "list") /\ area' = [area EXCEPT ![w] = @ + 1]
  /\ last' = [last EXCEPT ![Client(w)][Area(w)] = high[Area(w)]]
  /\ UNCHANGED <<high, deleted, posted, reported, device, got, batch, left, snap,
                 waits, history, faults, cast>>

\* SetAppLast, SetAppLastNetmail, SetQwkLast: to the last number listed,
\* wherever another run of synchronize has set the mark meanwhile.
Listing(w) == {m[2] : m \in {k \in got[w] : k[1] = Area(w)}}
SetLast(w) ==
  /\ at[w] = "set" /\ Go(w, "list") /\ area' = [area EXCEPT ![w] = @ + 1]
  /\ last' = [last EXCEPT ![Client(w)][Area(w)] = Max(Listing(w))]
  /\ UNCHANGED <<high, deleted, posted, reported, device, got, batch, left, snap,
                 waits, history, faults, cast>>

\* A message too long for QWK, or a failing database: there is no answer,
\* but the marks moved so far stay.
ListFails(w) ==
  /\ at[w] \in ListSteps /\ area[w] <= ListLength(w)
  /\ \/ /\ at[w] = "list" /\ w = Caller
        /\ New(w) \cap Long # {}
        /\ UNCHANGED faults
     \/ Fault
  /\ Miss(Client(w), Given(w)) /\ Rest(w)
  /\ UNCHANGED <<server, device, purged, asked, withdrawn, unsure, shadowed,
                 cast>>

\* The whole answer, or nothing of it.
Listed(w) ==
  /\ at[w] = "list" /\ area[w] > ListLength(w)
  /\ \/ /\ w \notin waits
        /\ Miss(Client(w), Given(w)) /\ Rest(w) /\ UNCHANGED have
     \/ /\ w \in waits \cap {Caller}
        /\ have' = [have EXCEPT !["qwk"] = @ \cup got[w]]
        /\ Rest(w) /\ UNCHANGED missed
     \/ /\ w \in waits \cap Syncs
        /\ Go(w, "import") /\ waits' = waits \ {w}
        /\ area' = [area EXCEPT ![w] = 1] /\ snap' = [snap EXCEPT ![w] = 0]
        /\ UNCHANGED <<have, got, batch, left, missed>>
  /\ UNCHANGED <<server, queue, pending, taps, purged, asked, withdrawn, unsure,
                 shadowed, faults, cast>>

\* In the order of the answer; a message that is there already is passed
\* over.
Before(m, k) ==
  IF m[1] = k[1] THEN m[2] <= k[2]
  ELSE k[1] = Netmail \/ (m[1] # Netmail /\ m[1] < k[1])

Import(s) ==
  /\ at[s] = "import"
  /\ \/ got[s] = {} /\ Go(s, "queue") /\ UNCHANGED <<have, got>>
     \/ \E m \in got[s] :
          /\ \A k \in got[s] : Before(m, k)
          /\ have' = [have EXCEPT !["app"] = @ \cup {m}]
          /\ got' = [got EXCEPT ![s] = @ \ {m}] /\ UNCHANGED at
  /\ UNCHANGED <<server, queue, pending, taps, area, batch, left, snap, waits,
                 history, faults, cast>>

-----------------------------------------------------------------------------
(* Replies: queueReply, removeQueuedReply; uploadQueuedReplies over        *)
(* messages.post, and uploadRepPacket; both end in PostReplies.            *)

\* Rows of the queue are numbered as they come.
QueueReply(r) ==
  /\ r \in cast.replies \ asked
  /\ \A q \in cast.replies : q < r => q \in asked
  /\ queue' = queue \cup {r} /\ asked' = asked \cup {r}
  /\ UNCHANGED <<server, have, pending, taps, worker, missed, purged, withdrawn,
                 unsure, shadowed, faults, cast>>

Withdraw(r) ==
  /\ r \in queue /\ queue' = queue \ {r} /\ withdrawn' = withdrawn \cup {r}
  /\ UNCHANGED <<server, have, pending, taps, worker, missed, purged, asked,
                 unsure, shadowed, faults, cast>>

QueuedBy(w) == queue \cap (IF w = Caller THEN RepReplies ELSE AppReplies)

\* The replies that go into the call; the handler passes over Skipped.
Upload(w) ==
  /\ at[w] = (IF w = Caller THEN "idle" ELSE "queue") /\ QueuedBy(w) # {}
  /\ batch' = [batch EXCEPT ![w] = QueuedBy(w)]
  /\ left' = [left EXCEPT ![w] = QueuedBy(w) \ Skipped]
  /\ Go(w, "posting") /\ waits' = waits \cup {w}
  /\ unsure' = unsure \cup (QueuedBy(w) \cap UNION {batch[v] : v \in Workers})
  /\ UNCHANGED <<server, device, area, got, snap, missed, purged, asked,
                 withdrawn, shadowed, faults, cast>>

NoReplies(s) ==
  /\ at[s] = "queue" /\ QueuedBy(s) = {} /\ Rest(s)
  /\ UNCHANGED <<server, device, history, faults, cast>>

PostReply(w) ==
  /\ at[w] = "posting" /\ left[w] # {} /\ Min(left[w]) \notin Refused
  /\ posted' = [posted EXCEPT ![Min(left[w])] = Min({@ + 1, 2})]
  /\ left' = [left EXCEPT ![w] = @ \ {Min(left[w])}]
  /\ UNCHANGED <<high, deleted, last, reported, device, at, area, got, batch,
                 snap, waits, history, faults, cast>>

\* No real name in an area that wants it, or a failing database.  Those
\* before are posted; the client is told of an error only.
PostFails(w) ==
  /\ at[w] = "posting" /\ left[w] # {}
  /\ \/ Min(left[w]) \in Refused /\ UNCHANGED faults
     \/ Fault
  /\ unsure' = unsure \cup (batch[w] \ left[w]) /\ Rest(w)
  /\ UNCHANGED <<server, device, missed, purged, asked, withdrawn,
                 shadowed, cast>>

PostEnds(w) ==
  /\ at[w] = "posting" /\ left[w] = {}
  /\ IF w \in waits
     THEN /\ Go(w, "remove") /\ waits' = waits \ {w}
          /\ UNCHANGED <<area, got, batch, left, snap, unsure>>
     ELSE Rest(w) /\ unsure' = unsure \cup batch[w]
  /\ UNCHANGED <<server, device, missed, purged, asked, withdrawn,
                 shadowed, faults, cast>>

\* Mutant: the queue is emptied.
DequeueAll(w) ==
  /\ at[w] = "remove" /\ queue' = queue \ QueuedBy(w) /\ Rest(w)
  /\ UNCHANGED <<server, have, pending, taps, history, faults, cast>>

\* removeQueuedReplies by id.  A reader drops its packet's replies once the
\* upload is complete.
Dequeue(w) ==
  /\ at[w] = "remove" /\ queue' = queue \ batch[w] /\ Rest(w)
  /\ UNCHANGED <<server, have, pending, taps, history, faults, cast>>

-----------------------------------------------------------------------------
(* What goes wrong.                                                        *)

\* The call's time is up, the answer is lost, the line goes down, a
\* Zmodem transfer fails: nobody waits for what the handler still does.
Leave(w) ==
  /\ w \in waits /\ Fault /\ waits' = waits \ {w}
  /\ UNCHANGED <<server, device, at, area, got, batch, left, snap, history, cast>>

\* Another call of synchronize throws and ends it: session.whoami,
\* conferences.list, messages.sync; files.dirs.list, messages.post.
SyncFails(s) ==
  /\ at[s] \in {"reads", "ask", "queue"} /\ Fault /\ Rest(s)
  /\ UNCHANGED <<server, device, history, cast>>

\* Android ends the app: every run of synchronize and every tap with it.
AppDies ==
  /\ Fault
  /\ LET dead == {s \in Syncs : at[s] \notin ServerSteps}
     IN  /\ at' = [w \in Workers |-> IF w \in dead THEN "idle" ELSE at[w]]
         /\ Miss("app", UNION {got[s] : s \in {d \in dead : at[d] = "import"}})
         /\ unsure' = unsure \cup UNION {batch[s] : s \in dead}
         /\ got' = [w \in Workers |-> IF w \in dead THEN {} ELSE got[w]]
         /\ batch' = [w \in Workers |-> IF w \in dead THEN {} ELSE batch[w]]
         /\ left' = [w \in Workers |-> IF w \in dead THEN {} ELSE left[w]]
         /\ snap' = [w \in Workers |-> IF w \in dead THEN 0 ELSE snap[w]]
         /\ area' = [w \in Workers |-> IF w \in dead THEN 1 ELSE area[w]]
  /\ waits' = waits \cap {Caller}
  /\ taps' = [n \in 1..MaxMsg |-> IF taps[n] = "none" THEN "none" ELSE "done"]
  /\ UNCHANGED <<server, have, queue, pending, purged, asked, withdrawn,
                 shadowed, cast>>

-----------------------------------------------------------------------------
SyncStep(s) ==
  \/ PurgeDelete(s) \/ PurgeLocal(s) \/ ReadPending(s) \/ SyncReport(s)
  \/ SyncClear(s) \/ Import(s) \/ NoReplies(s)
WorkerStep(w) ==
  \/ List(w) \/ SetLast(w) \/ Listed(w) \/ PostReply(w) \/ PostEnds(w)
  \/ Dequeue(w)
UserStep(n) == Tap(n) \/ TapReport(n) \/ TapFails(n) \/ TapClear(n)

Next ==
  \/ \E a \in Areas : Post(a)
  \/ \E s \in Syncs : Begin(s) \/ SyncStep(s) \/ ReportFails(s) \/ SyncFails(s)
  \/ \E w \in Workers : \/ Ask(w) \/ Upload(w) \/ WorkerStep(w)
                        \/ ListFails(w) \/ PostFails(w) \/ Leave(w)
  \/ \E n \in 1..MaxMsg : UserStep(n)
  \/ \E r \in Replies : QueueReply(r) \/ Withdraw(r)
  \/ AppDies

Spec == Init /\ [][Next]_vars

\* The job is run again and again, the user or the system sees to it; a
\* run goes on until a call fails.
Fairness ==
  \A s \in Syncs :
    WF_vars(\/ Begin(s) \/ SyncStep(s) \/ Ask(s) \/ Upload(s) \/ WorkerStep(s)
            \/ ListFails(s) \/ PostFails(s))
FairSpec == Spec /\ Fairness

-----------------------------------------------------------------------------
Labels == {"idle", "purge", "reads", "report", "clear", "ask", "list", "set",
           "import", "queue", "posting", "remove"}

\* Type invariant; somebody waits only for a handler at work.
TypeOK ==
  /\ cast \in Casts /\ high \in [Areas -> 0..MaxMsg]
  /\ deleted \subseteq Messages
  /\ last \in [Clients -> [Areas -> 0..MaxMsg]]
  /\ posted \in [Replies -> 0..2] /\ reported \subseteq 1..MaxMsg
  /\ have \in [Clients -> SUBSET Messages] /\ queue \subseteq asked
  /\ pending \in 0..MaxMsg
  /\ taps \in [1..MaxMsg -> {"none", "call", "clear", "done"}]
  /\ at \in [Workers -> Labels] /\ got \in [Workers -> SUBSET Messages]
  /\ area \in [Workers -> 1..Cardinality(Areas) + 1]
  /\ \A w \in waits : at[w] \in ServerSteps
  /\ batch \in [Workers -> SUBSET Replies]
  /\ \A w \in Workers : left[w] \subseteq batch[w]

\* No message falls between the mark and the client: one that the server
\* counts as given to a kind of client is there, on its way, was there and
\* was purged, or was in an answer that was lost, cut off or never built -
\* also with two runs of synchronize at once, with messages posted while
\* the server lists, and with more of them than one answer takes.
Coming(c) ==
  UNION {got[w] : w \in {v \in Workers :
    Client(v) = c /\ at[v] \in {"list", "set", "import"}}}
NothingSkipped ==
  \A c \in Clients, m \in Messages :
    (m[2] <= last[c][m[1]]) =>
      m \in have[c] \cup Coming(c) \cup missed[c] \cup purged \cup deleted

\* A reply that was not withdrawn is still queued or was posted once, never
\* both and never neither; Skipped ones go unposted.  It may be posted
\* again only after an answer that was lost or told of another reply's
\* error, or if two runs take it at once.
InHand(r) == \E w \in Workers : r \in batch[w] \ left[w]
RepliesOnce ==
  \A r \in asked \ (withdrawn \cup unsure) :
    posted[r] = (IF r \in Skipped \/ (r \in queue /\ ~InHand(r)) THEN 0 ELSE 1)

\* What the user did on the device reaches the server: the number of a
\* message marked as read, unless another is marked or the row is cleared
\* after the report of an older one; a reply, unless one that is refused
\* stays in the queue with it.
EventuallyHeard ==
  /\ \A n \in 1..MaxMsg :
       pending = n ~> n \in reported \cup shadowed \/ pending \notin {0, n}
  /\ \A r \in AppReplies :
       r \in queue ~> r \notin queue \/ queue \cap Refused # {}
=============================================================================
