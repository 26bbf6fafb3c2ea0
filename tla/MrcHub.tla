------------------------------- MODULE MrcHub -------------------------------
(***************************************************************************)
(* The Multi-Relay Chat hub (internal/mrc/hub.go, attach.go): one outbound *)
(* connection to a relay, kept up by a supervisor goroutine, its reader,   *)
(* the callers' chat sessions (session/mrc.go, web/mrc_handlers.go) and    *)
(* the sysop's settings page (web/admin_mrc.go), all concurrent.           *)
(*                                                                         *)
(* An attachment is used once, and so is a request: a caller who comes     *)
(* back makes a new one.  Who comes at all is chosen at the start; those   *)
(* who save other settings (Membership) come in casts of their own too.    *)
(* What the relay believes of a user is external: it follows IAMHERE,      *)
(* NEWROOM and LOGOFF in the order they are written, and forgets all when  *)
(* the connection goes.  Chat text, topics and nick lists are left out.    *)
(***************************************************************************)
EXTENDS Membership

CONSTANTS
  Telnet, Web,      \* attachments of terminal callers and of web users
  Admins,           \* requests that save the settings, in any order
  Rooms, Lobby,
  InboxCap,         \* events an attachment's inbox holds
  MaxJoins,         \* bound on room changes
  MaxPackets        \* bound on packets of the relay

Users == Telnet \cup Web
NoRoom == "no room"
Nobody == "nobody"

ASSUME MrcAssumption ==
  /\ Telnet \cap Web = {} /\ Users \cap Admins = {} /\ Nobody \notin Users
  /\ IsFiniteSet(Admins)
  /\ \A c \in Casts : \A w \in DOMAIN c :
       (c[w] = "chat") = (w \in Users) /\ (c[w] = "MRC page") = (w \in Admins)
  /\ Lobby \in Rooms /\ NoRoom \notin Rooms
  /\ InboxCap \in Nat \ {0}
  /\ MaxJoins \in Nat /\ MaxPackets \in Nat

VARIABLES
  cfg, link,        \* Hub: settings in force; the connection
  attached,         \* Hub.attached
  applyCh, stopped, \* Hub.applyCh, stopCh closed
  pc, todo, cur, curRoom,  \* supervisor, its snapshot of attachments
  reader,           \* the reader goroutine runs
  fan, fanNow,      \* attachments its packet is still to be delivered to
  phase, room, inbox, closed,  \* each attachment and its caller
  view,             \* the relay: the room each user is in
  admin, request, floor,  \* settings page
  panicked,         \* "no", or the delivery that met a closed inbox
  joins, packets

hub   == <<cfg, link, attached, applyCh, stopped>>
loop  == <<pc, todo, cur, curRoom>>
read  == <<reader, fan, fanNow, packets>>
users == <<phase, room, inbox, closed>>
page  == <<store, joining, admin, request, floor>>
vars  == <<hub, loop, read, users, view, page, panicked, mishaps, joins>>

Off == [ver |-> 0, on |-> FALSE]

Chat == DOMAIN cast \cap (Users \cup Admins) # {}

\* The program starts the hub and applies the settings of its file.  In a cast
\* that has nothing to do with it, MRC is off and the hub already waits.
Init ==
  /\ JoinInit
  /\ \E on \in BOOLEAN :
       /\ on => Chat
       /\ SettingsInit([ver |-> 0, on |-> on], DOMAIN cast \ Users)
  /\ cfg = Off /\ link = "down" /\ attached = {}
  /\ applyCh = (IF Chat THEN <<current.mrc>> ELSE <<>>) /\ stopped = FALSE
  /\ pc = (IF Chat THEN "top" ELSE "idle")
  /\ todo = {} /\ cur = Nobody /\ curRoom = NoRoom
  /\ reader = FALSE /\ fan = {} /\ fanNow = Nobody /\ packets = 0
  /\ phase = [u \in Users |-> "new"] /\ room = [u \in Users |-> Lobby]
  /\ inbox = [u \in Users |-> 0] /\ closed = [u \in Users |-> FALSE]
  /\ view = [u \in Users |-> NoRoom]
  /\ admin = [a \in Admins |-> "new"]
  /\ request = [a \in Admins |-> Off] /\ floor = 0
  /\ panicked = "no" /\ joins = 0

-----------------------------------------------------------------------------
(* Shared by all goroutines.                                               *)

\* Mutant: packets are delivered without h.mu.
FreeAlways == TRUE

\* h.mu is free: the reader holds it while it delivers a packet.
Free == fan = {} /\ fanNow = Nobody

\* writePacket: lost unless the connection is there and alive.
Write(u, r) == view' = IF link = "up" THEN [view EXCEPT ![u] = r] ELSE view

\* dropConn, or the relay gone: it forgets everybody.
Nowhere == [u \in Users |-> NoRoom]
Drop(state) == link' = state /\ view' = Nowhere

Goto(label) == pc' = label

\* Mutant: a full inbox grows.
SendUnbounded(u, who) ==
  IF closed[u] THEN panicked' = who /\ UNCHANGED inbox
  ELSE inbox' = [inbox EXCEPT ![u] = @ + 1] /\ UNCHANGED panicked

\* The last lines of Deliver.  A full inbox drops the event; a closed one,
\* when the test above them was passed before it was closed, panics.
Send(u, who) ==
  IF closed[u] THEN panicked' = who /\ UNCHANGED inbox
  ELSE /\ inbox' = [inbox EXCEPT ![u] = IF @ < InboxCap THEN @ + 1 ELSE @]
       /\ UNCHANGED panicked

-----------------------------------------------------------------------------
(* The supervisor.                                                         *)

\* Mutant: a hub that is off waits for a stop only.
SelectsUnlessOff == {"top", "backoff", "serve"}

\* select waits on stopCh and applyCh in these places.
Selects == {"top", "idle", "backoff", "serve"}

DetachAll(label) ==
  /\ todo' = attached /\ attached' = {} /\ Goto(label)
  /\ UNCHANGED <<cur, curRoom>>

\* In a session, stopCh ends it: SHUTDOWN, dropConn, and the loop's next
\* select meets stopCh again.
TakeStop ==
  /\ pc \in Selects /\ stopped
  /\ IF pc = "serve"
     THEN /\ Drop("down") /\ reader' = FALSE /\ Goto("backoff")
          /\ UNCHANGED <<attached, todo, cur, curRoom>>
     ELSE DetachAll("quitting") /\ UNCHANGED <<link, view, reader>>
  /\ UNCHANGED <<cfg, applyCh, stopped, fan, fanNow, packets, users, page,
                 panicked, mishaps, joins>>

\* applyLocked.  Settings that turn MRC off detach everybody first; all
\* others force a new dial.
TakeSettings ==
  /\ pc \in Selects /\ applyCh # <<>>
  /\ cfg' = Head(applyCh) /\ applyCh' = <<>>
  /\ IF cfg.on /\ ~Head(applyCh).on
     THEN DetachAll("disabling") /\ UNCHANGED <<link, view, reader>>
     ELSE /\ IF Head(applyCh).on THEN Drop("down")
                                 ELSE UNCHANGED <<link, view>>
          /\ Goto(IF pc = "serve" THEN "backoff" ELSE "top")
          /\ reader' = (reader /\ pc # "serve")
          /\ UNCHANGED <<attached, todo, cur, curRoom>>
  /\ UNCHANGED <<stopped, fan, fanNow, packets, users, page, panicked,
                 mishaps, joins>>

\* detachAll, one attachment: LOGOFF, then closeInbox.
CloseOne ==
  /\ pc \in {"disabling", "quitting"}
  /\ \E u \in todo :
       /\ Write(u, NoRoom) /\ closed' = [closed EXCEPT ![u] = TRUE]
       /\ todo' = todo \ {u}
  /\ UNCHANGED <<hub, pc, cur, curRoom, read, phase, room, inbox, page,
                 panicked, mishaps, joins>>

\* dropConn after detachAll; SHUTDOWN finds no connection any more.
AllClosed ==
  /\ pc \in {"disabling", "quitting"} /\ todo = {}
  /\ Drop("down") /\ reader' = FALSE
  /\ Goto(IF pc = "quitting" THEN "off" ELSE "top")
  /\ UNCHANGED <<cfg, attached, applyCh, stopped, todo, cur, curRoom, fan,
                 fanNow, packets, users, page, panicked, mishaps, joins>>

\* The default case, then the enabled test; or the backoff runs out.
Turn ==
  /\ \/ pc = "top" /\ ~stopped /\ applyCh = <<>>
        /\ Goto(IF cfg.on THEN "dial" ELSE "idle")
     \/ pc = "backoff" /\ Goto("top")
  /\ UNCHANGED <<hub, todo, cur, curRoom, read, users, view, page, panicked,
                 mishaps, joins>>

\* The connection is published before anything is written to it.
Dial ==
  /\ pc = "dial"
  /\ \/ link' = "up" /\ Goto("greet") /\ UNCHANGED mishaps
     \/ Mishap /\ Goto("backoff")
        /\ UNCHANGED link
  /\ UNCHANGED <<cfg, attached, applyCh, stopped, todo, cur, curRoom, read,
                 users, view, page, panicked, joins>>

\* Handshake, meta data and the snapshot of who is to be announced.
Greet ==
  /\ pc = "greet"
  /\ IF link = "down" THEN Goto("backoff") /\ UNCHANGED todo
     ELSE Goto("announce") /\ todo' = attached
  /\ UNCHANGED <<hub, cur, curRoom, read, users, view, page, panicked, mishaps,
                 joins>>

\* The next of the snapshot; its room is read before it is written.
NextUser ==
  /\ pc \in {"announce", "beat"} /\ cur = Nobody
  /\ \E u \in todo : cur' = u /\ curRoom' = room[u] /\ todo' = todo \ {u}
  /\ UNCHANGED <<hub, pc, read, users, view, page, panicked, mishaps, joins>>

WriteUser ==
  /\ pc \in {"announce", "beat"} /\ cur # Nobody
  /\ Write(cur, curRoom)
  /\ IF pc = "announce" THEN Goto("notify") /\ UNCHANGED <<cur, curRoom>>
     ELSE cur' = Nobody /\ curRoom' = NoRoom /\ UNCHANGED pc
  /\ UNCHANGED <<hub, todo, read, users, page, panicked, mishaps, joins>>

\* Deliver of the notice, not under h.mu: the test of closed, and the send.
NotifyTest ==
  /\ pc = "notify"
  /\ IF closed[cur]
     THEN Goto("announce") /\ cur' = Nobody /\ curRoom' = NoRoom
     ELSE Goto("notifying") /\ UNCHANGED <<cur, curRoom>>
  /\ UNCHANGED <<hub, todo, read, users, view, page, panicked, mishaps, joins>>

NotifySend ==
  /\ pc = "notifying" /\ Send(cur, "notice")
  /\ Goto("announce") /\ cur' = Nobody /\ curRoom' = NoRoom
  /\ UNCHANGED <<hub, todo, read, phase, room, closed, view, page, mishaps,
                 joins>>

Announced ==
  /\ pc \in {"announce", "beat"} /\ todo = {} /\ cur = Nobody
  /\ Goto("serve") /\ reader' = TRUE
  /\ UNCHANGED <<hub, todo, cur, curRoom, fan, fanNow, packets, users, view,
                 page, panicked, mishaps, joins>>

\* Mutant: the heartbeat speaks for the BBS only.
HeartbeatAlone ==
  /\ pc = "serve" /\ Goto("beat") /\ todo' = {}
  /\ UNCHANGED <<hub, cur, curRoom, read, users, view, page, panicked, mishaps,
                 joins>>

\* The 50 second ticker.
Heartbeat ==
  /\ pc = "serve" /\ Goto("beat") /\ todo' = attached
  /\ UNCHANGED <<hub, cur, curRoom, read, users, view, page, panicked, mishaps,
                 joins>>

\* The reader's error: it met a connection that is closed or dead.
SessionFails ==
  /\ pc = "serve" /\ link # "up"
  /\ Drop("down") /\ reader' = FALSE /\ Goto("backoff")
  /\ UNCHANGED <<cfg, attached, applyCh, stopped, todo, cur, curRoom, fan,
                 fanNow, packets, users, page, panicked, mishaps, joins>>

\* The steps that take h.mu, and those that do not.
LoopLocked ==
  \/ TakeStop \/ TakeSettings \/ CloseOne \/ AllClosed \/ Turn \/ Dial
  \/ Greet \/ WriteUser \/ Announced \/ Heartbeat \/ SessionFails
LoopUnlocked == NextUser \/ NotifyTest \/ NotifySend

-----------------------------------------------------------------------------
(* The reader: handlePacket and fanoutRoom deliver under h.mu.             *)

\* A line for a room, for everybody or for one user.
Audience(r) == {u \in attached : room[u] = r}
Packet ==
  /\ reader /\ link = "up" /\ Free
  /\ packets < MaxPackets /\ packets' = packets + 1
  /\ \/ \E r \in Rooms : fan' = Audience(r)
     \/ fan' = attached
     \/ \E u \in attached : fan' = {u}
  /\ UNCHANGED <<hub, loop, reader, fanNow, users, view, page, panicked,
                 mishaps, joins>>

DeliverTest ==
  /\ fanNow = Nobody
  /\ \E u \in fan : fan' = fan \ {u} /\ fanNow' = IF closed[u] THEN Nobody
                                                               ELSE u
  /\ UNCHANGED <<hub, loop, reader, packets, users, view, page, panicked,
                 mishaps, joins>>

DeliverSend ==
  /\ fanNow # Nobody /\ Send(fanNow, "packet") /\ fanNow' = Nobody
  /\ UNCHANGED <<hub, loop, reader, fan, packets, phase, room, closed, view,
                 page, mishaps, joins>>

-----------------------------------------------------------------------------
(* Callers.                                                                *)

Enter(u, label) == phase' = [phase EXCEPT ![u] = label]

\* Mutant: Attach tests the connection only.
AttachUnlessOffline(u) ==
  /\ u \in DOMAIN cast /\ phase[u] = "new" /\ link # "down"
  /\ attached' = attached \cup {u} /\ Enter(u, "announcing")
  /\ UNCHANGED <<cfg, link, applyCh, stopped, loop, read, room, inbox, closed,
                 view, page, panicked, mishaps, joins>>

\* mrcChat, handleMRCWS: refused unless MRC is on and online.
Attach(u) ==
  /\ u \in DOMAIN cast /\ phase[u] = "new" /\ cfg.on /\ link # "down"
  /\ attached' = attached \cup {u} /\ Enter(u, "announcing")
  /\ \E r \in Rooms : (u \in Telnet => r = Lobby)
                      /\ room' = [room EXCEPT ![u] = r]
  /\ UNCHANGED <<cfg, link, applyCh, stopped, loop, read, inbox, closed, view,
                 page, panicked, mishaps, joins>>

\* IAMHERE and NEWROOM of Attach, NEWROOM of JoinRoom.
Announce(u) ==
  /\ phase[u] = "announcing" /\ Write(u, room[u]) /\ Enter(u, "in")
  /\ UNCHANGED <<hub, loop, read, room, inbox, closed, page, panicked, mishaps,
                 joins>>

\* JoinRoom: the attachment's room first.  A web user can do this after the
\* hub has closed its inbox.
Join(u) ==
  /\ phase[u] = "in" /\ joins < MaxJoins /\ joins' = joins + 1
  /\ \E r \in Rooms \ {room[u]} : room' = [room EXCEPT ![u] = r]
  /\ Enter(u, "announcing")
  /\ UNCHANGED <<hub, loop, read, inbox, closed, view, page, panicked,
                 mishaps>>

\* The caller's side takes an event from its inbox.
Take(u) ==
  /\ phase[u] = "in" /\ inbox[u] > 0 /\ inbox' = [inbox EXCEPT ![u] = @ - 1]
  /\ UNCHANGED <<hub, loop, read, phase, room, closed, view, page, panicked,
                 mishaps, joins>>

\* /quit, ESC, the line is lost; or a terminal caller meets a closed inbox.
\* Detach deletes the attachment ...
CloseSeen(u) == u \in Telnet /\ closed[u] /\ inbox[u] = 0
Leave(u) ==
  /\ phase[u] = "in" /\ attached' = attached \ {u} /\ Enter(u, "leaving")
  /\ UNCHANGED <<cfg, link, applyCh, stopped, loop, read, room, inbox, closed,
                 view, page, panicked, mishaps, joins>>

\* Mutant: Detach does not tell the relay.
LogOffSilently(u) ==
  /\ phase[u] = "leaving" /\ Enter(u, "gone")
  /\ closed' = [closed EXCEPT ![u] = TRUE]
  /\ inbox' = [inbox EXCEPT ![u] = 0]
  /\ UNCHANGED <<hub, loop, read, room, view, page, panicked, mishaps, joins>>

\* ... then writes LOGOFF and closes the inbox; what it holds is not read.
LogOff(u) ==
  /\ phase[u] = "leaving" /\ Write(u, NoRoom) /\ Enter(u, "gone")
  /\ closed' = [closed EXCEPT ![u] = TRUE]
  /\ inbox' = [inbox EXCEPT ![u] = 0]
  /\ UNCHANGED <<hub, loop, read, room, page, panicked, mishaps, joins>>

-----------------------------------------------------------------------------
(* The settings page: save the file, read it back, ApplyConfig.            *)

To(a, label) == admin' = [admin EXCEPT ![a] = label]

Save(a) ==
  /\ a \in DOMAIN cast /\ admin[a] = "new"
  /\ \E on \in BOOLEAN :
       MergeSection(a, [current EXCEPT !.mrc =
                          [ver |-> 1 + Cardinality({b \in Admins :
                                                      admin[b] # "new"}),
                           on |-> on]])
  /\ To(a, "saving")
  /\ UNCHANGED <<hub, loop, read, users, view, joining, request, floor,
                 panicked, joins>>

Alone(a) == /\ \A b \in Admins \ {a} : admin[b] \in {"new", "done"}
            /\ \A w \in Savers \ {a} : ~Busy(w)

\* An error is shown, and the hub is not told.
WriteFile(a) ==
  /\ admin[a] = "saving"
  /\ \/ Open(a) /\ UNCHANGED <<admin, floor>>
     \/ /\ Encode(a) /\ To(a, "saved")
        /\ floor' = IF Alone(a) THEN mine[a].mrc.ver ELSE floor
     \/ SaveFails(a) /\ To(a, "done") /\ UNCHANGED floor
  /\ UNCHANGED <<hub, loop, read, users, view, joining, request,
                 panicked, joins>>

ReadBack(a) ==
  /\ admin[a] = "saved" /\ ~Writing
  /\ request' = [request EXCEPT ![a] = current.mrc]
  /\ To(a, "send")
  /\ UNCHANGED <<hub, loop, read, users, view, store, joining, floor,
                 panicked, mishaps, joins>>

\* Mutant: settings that find the slot taken are dropped.
ApplyOrDrop(a) ==
  /\ admin[a] = "send" /\ To(a, "done")
  /\ request' = [request EXCEPT ![a] = Off]
  /\ applyCh' = IF applyCh = <<>> THEN <<request[a]>> ELSE applyCh
  /\ UNCHANGED <<cfg, link, attached, stopped, loop, read, users, view,
                 store, joining, floor, panicked, mishaps, joins>>

\* The one-slot channel: send, else empty it and send again, now waiting.
Apply(a) ==
  /\ \/ admin[a] \in {"send", "resend"} /\ applyCh = <<>>
        /\ applyCh' = <<request[a]>> /\ To(a, "done")
        /\ request' = [request EXCEPT ![a] = Off]
     \/ admin[a] = "send" /\ applyCh # <<>>
        /\ To(a, "drain") /\ UNCHANGED <<applyCh, request>>
     \/ admin[a] = "drain" /\ applyCh' = <<>> /\ To(a, "resend")
        /\ UNCHANGED request
  /\ UNCHANGED <<cfg, link, attached, stopped, loop, read, users, view,
                 store, joining, floor, panicked, mishaps, joins>>

Stop ==
  /\ ~stopped /\ stopped' = TRUE /\ Drop("down")
  /\ UNCHANGED <<cfg, attached, applyCh, loop, read, users, page, panicked,
                 mishaps, joins>>

\* The relay goes away; the hub has not noticed yet.
Lost ==
  /\ link = "up" /\ Mishap
  /\ Drop("dead")
  /\ UNCHANGED <<cfg, attached, applyCh, stopped, loop, read, users, page,
                 panicked, joins>>

\* The others who save settings.
Apart == UNCHANGED <<hub, loop, read, users, view, admin, request, floor,
                     panicked, joins>>
Works(w) == Begin(w) /\ Apart

\* A restart, where nobody chats: the hub is off, and will be again.
Restart == ~Chat /\ JoinRestart /\ Apart

-----------------------------------------------------------------------------
Alive == panicked = "no" /\ ~down

LoopStep == Alive /\ (LoopUnlocked \/ (Free /\ LoopLocked))
ReaderStep == Alive /\ (DeliverTest \/ DeliverSend)
UserStep(u) ==
  /\ Alive
  /\ Take(u) \/ (Free /\ (Announce(u) \/ LogOff(u)))
Quits(u) == Alive /\ Free /\ CloseSeen(u) /\ Leave(u)
AdminStep(a) == Alive /\ (WriteFile(a) \/ ReadBack(a) \/ Apply(a))
WorkerStep == Alive /\ Apart /\ \E w \in Workers : Proceed(w)
SaverStep == WorkerStep \/ \E a \in Admins : AdminStep(a)

Next ==
  \/ LoopStep \/ ReaderStep \/ (Alive /\ Packet) \/ SaverStep
  \/ \E u \in Users : UserStep(u)
  \/ Alive /\ (Restart \/ \E w \in Workers : Works(w))
  \/ /\ Alive /\ Free
     /\ \/ \E u \in Users : Attach(u) \/ Join(u) \/ Leave(u)
        \/ \E a \in Admins : Save(a)
        \/ (Chat /\ Stop) \/ Lost

Spec == Init /\ [][Next]_vars

\* Goroutines run, and select takes another channel than the ticker's when
\* it is ready some time.  Nobody has to come, leave or save.  Callers take
\* a bounded number of steps, and so do those who save: fairness to all of
\* them is fairness to each.
Interrupt == Alive /\ Free
             /\ (TakeStop \/ TakeSettings \/ SessionFails)
CallerStep == \E u \in Users : UserStep(u) \/ Quits(u)
Fairness ==
  /\ WF_vars(LoopStep) /\ SF_vars(Interrupt) /\ WF_vars(ReaderStep)
  /\ WF_vars(CallerStep) /\ WF_vars(SaverStep)
FairSpec == Spec /\ Fairness

-----------------------------------------------------------------------------
(* Properties.                                                             *)

TypeOK ==
  /\ cfg \in [ver : 0..Cardinality(Admins), on : BOOLEAN]
  /\ current.mrc \in [ver : 0..Cardinality(Admins), on : BOOLEAN]
  /\ link \in {"down", "up", "dead"} /\ attached \subseteq Users
  /\ Len(applyCh) <= 1 /\ stopped \in BOOLEAN
  /\ todo \subseteq Users /\ cur \in Users \cup {Nobody}
  /\ fan \subseteq Users /\ fanNow \in Users \cup {Nobody}
  /\ phase \in [Users -> {"new", "announcing", "in", "leaving", "gone"}]
  /\ inbox \in [Users -> 0..InboxCap] /\ closed \in [Users -> BOOLEAN]
  /\ view \in [Users -> Rooms \cup {NoRoom}]

\* The reader's deliveries never meet a closed inbox: h.mu keeps Detach and
\* detachAll from closing one of an attachment that is being served.  Only
\* the notice after a reconnect, sent without h.mu, can bring the program
\* down.
ReaderNeverPanics == panicked # "packet"

\* Once MRC is off, or the hub has stopped, no attachment is left behind
\* that nobody would ever detach: Attach cannot slip in behind detachAll.
NobodyLeftBehind ==
  (pc = "off" \/ (pc = "idle" /\ ~cfg.on)) => attached = {} /\ link = "down"

\* When all requests have been answered and the hub has taken the last, the
\* settings in force are not older than those of the last request that ran
\* alone: the one-slot channel drops old settings, never the newest.
NewestSettingsWin ==
  (applyCh = <<>> /\ \A a \in Admins : admin[a] \in {"new", "done"})
    => cfg.ver >= floor

\* A user who has left is shown by the relay again only when the supervisor
\* writes from a snapshot taken before: nothing else brings a user back.
GhostsOnlyFromSnapshots ==
  [][\A u \in Users :
       phase'[u] = "gone" /\ view'[u] # NoRoom
         => \/ phase[u] = "gone" /\ view[u] = view'[u]
            \/ cur = u /\ pc \in {"announce", "beat"}]_vars

\* Nobody waits for the hub for ever: after a stop the supervisor ends and
\* every terminal caller gets out of the chat; as long as it runs, requests
\* to the settings page are answered.
NobodyWaits ==
  /\ stopped ~> \/ ~Alive
                \/ /\ pc = "off"
                   /\ \A u \in Telnet : phase[u] \in {"new", "gone"}
  /\ (\E a \in Admins : admin[a] \notin {"new", "done"})
       ~> (\A a \in Admins : admin[a] \in {"new", "done"}) \/ stopped \/ ~Alive

\* A user who stays is in the end where the relay believes it is, whatever
\* was lost or overtaken: the heartbeat repairs it.
RelayCatchesUp ==
  \A u \in Users :
    <>[](u \in attached /\ phase[u] = "in" /\ ~stopped /\ Alive)
      => <>[](view[u] = room[u])
=============================================================================
