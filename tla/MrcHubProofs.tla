----------------------------- MODULE MrcHubProofs ----------------------------
(***************************************************************************)
(* Theorems about MrcHub, for any callers, admins, rooms and casts: who    *)
(* holds h.mu, where the supervisor is when there is a connection, and how *)
(* old the settings are that anybody holds; and about those who save other *)
(* settings (Membership): what was saved is kept by everybody's copy.      *)
(***************************************************************************)
EXTENDS MrcHub, FiniteSetTheorems, TLAPS

\* The sets and functions the hub works on.
HubTypes ==
  /\ attached \subseteq Users /\ todo \subseteq Users /\ fan \subseteq Users
  /\ cur \in Users \cup {Nobody} /\ fanNow \in Users \cup {Nobody}
  /\ phase \in [Users -> {"new", "announcing", "in", "leaving", "gone"}]
  /\ inbox \in [Users -> 0..InboxCap] /\ closed \in [Users -> BOOLEAN]
  /\ room \in [Users -> Rooms] /\ view \in [Users -> Rooms \cup {NoRoom}]
  /\ curRoom \in Rooms \cup {NoRoom}
  /\ admin \in [Admins -> {"new", "saving", "saved", "send", "drain",
                           "resend", "done"}]
  /\ link \in {"down", "up", "dead"} /\ stopped \in BOOLEAN

\* A packet is delivered only to attachments, and those are open: an inbox is
\* closed when its attachment is gone, and no attachment is used again.
ReaderInv ==
  /\ fan \subseteq attached /\ (fanNow # Nobody => fanNow \in attached)
  /\ \A u \in attached : ~closed[u] /\ phase[u] \in {"announcing", "in"}
  /\ \A u \in Users : phase[u] = "new" => ~closed[u]
  /\ pc \in {"disabling", "quitting"} =>
       \A u \in todo : u \notin attached /\ phase[u] # "new"

\* Where the supervisor is tells whether MRC is on and whether there can be a
\* connection; and without a connection the relay shows nobody.
LinkInv ==
  /\ ~cfg.on => attached = {}
  /\ pc \in {"dial", "greet", "announce", "notify", "notifying", "beat",
             "serve"} => cfg.on
  /\ pc \in {"top", "idle", "backoff", "dial", "quitting", "off"} =>
       link = "down"
  /\ pc \in {"quitting", "off"} => attached = {}
  /\ link # "up" => view = Nowhere

\* Settings on their way from a save to the hub, and who has asked for some.
Carrying(a) == admin[a] \in {"saved", "send", "drain", "resend"}
Asked == {a \in Admins : admin[a] # "new"}
Settings == [ver : 0..Cardinality(Asked), on : BOOLEAN]

\* Everybody who saves has a place for a copy.
SaverTypes ==
  /\ cast \in Casts
  /\ DOMAIN saver = DOMAIN cast \ Users /\ DOMAIN mine = DOMAIN saver
  /\ Asked \subseteq DOMAIN cast

\* No copy of the settings, in memory, in anybody's hands or on its way to the
\* hub, is older than the last request that ran alone; and when none is on
\* its way any more, the newest is in the channel or in force.
Sound(c) == "mrc" \in DOMAIN c /\ c.mrc \in Settings /\ c.mrc.ver >= floor
VersionInv ==
  /\ Sound(current) /\ \A w \in Savers : Busy(w) => Sound(mine[w])
  /\ file # Torn => file.mrc \in Settings
  /\ floor \in 0..Cardinality(Asked) /\ (~Chat => floor = 0)
  /\ request \in [Admins -> Settings] /\ cfg \in Settings
  /\ \A a \in Admins : admin[a] \in {"send", "drain", "resend"}
                         => request[a].ver >= floor
  /\ applyCh = <<>> \/ \E s \in Settings : applyCh = <<s>>
  /\ (\A a \in Admins : ~Carrying(a)) =>
       IF applyCh = <<>> THEN cfg.ver >= floor ELSE applyCh[1].ver >= floor

-----------------------------------------------------------------------------
\* What the proofs need of the constants.
LEMMA Constants ==
  /\ InboxCap \in Nat \ {0} /\ Lobby \in Rooms /\ NoRoom \notin Rooms
  /\ Nobody \notin Users /\ Telnet \subseteq Users
BY MrcAssumption DEF Users

\* Every step keeps these types.
LEMMA HubTypeStep == HubTypes /\ [Next]_vars => HubTypes'
<1> SUFFICES ASSUME HubTypes, [Next]_vars PROVE HubTypes'
  OBVIOUS
<1> USE Constants DEF hub, loop, read, users, page
<1>1. ASSUME Free /\ TakeStop PROVE HubTypes'
  BY <1>1 DEF TakeStop, DetachAll, Drop, Goto, HubTypes, Nowhere
<1>2. ASSUME Free /\ TakeSettings PROVE HubTypes'
  BY <1>2 DEF TakeSettings, DetachAll, Drop, Goto, HubTypes, Nowhere
<1>3. ASSUME Free /\ CloseOne PROVE HubTypes'
  BY <1>3 DEF CloseOne, Write, HubTypes, Nowhere
<1>4. ASSUME Free /\ AllClosed PROVE HubTypes'
  BY <1>4 DEF AllClosed, Drop, Goto, HubTypes, Nowhere
<1>5. ASSUME Free /\ Dial PROVE HubTypes'
  BY <1>5 DEF Dial, Goto, Mishap, HubTypes, Nowhere
<1>6. ASSUME Free /\ Greet PROVE HubTypes'
  BY <1>6 DEF Greet, Goto, HubTypes, Nowhere
<1>7. ASSUME NextUser PROVE HubTypes'
  BY <1>7 DEF NextUser, HubTypes, Nowhere
<1>8. ASSUME Free /\ WriteUser PROVE HubTypes'
  BY <1>8 DEF WriteUser, Write, Goto, HubTypes, Nowhere
<1>9. ASSUME NotifyTest PROVE HubTypes'
  BY <1>9 DEF NotifyTest, Goto, HubTypes, Nowhere
<1>10. ASSUME NotifySend PROVE HubTypes'
  BY <1>10 DEF NotifySend, Send, Goto, HubTypes, Nowhere
<1>11. ASSUME Free /\ Announced PROVE HubTypes'
  BY <1>11 DEF Announced, Goto, HubTypes, Nowhere
<1>12. ASSUME Free /\ Heartbeat PROVE HubTypes'
  BY <1>12 DEF Heartbeat, Goto, HubTypes, Nowhere
<1>13. ASSUME Free /\ SessionFails PROVE HubTypes'
  BY <1>13 DEF SessionFails, Drop, Goto, HubTypes, Nowhere
<1>14. ASSUME Packet PROVE HubTypes'
  BY <1>14 DEF Packet, Audience, HubTypes, Nowhere
<1>15. ASSUME DeliverTest PROVE HubTypes'
  BY <1>15 DEF DeliverTest, HubTypes, Nowhere
<1>16. ASSUME DeliverSend PROVE HubTypes'
  BY <1>16 DEF DeliverSend, Send, HubTypes, Nowhere
<1>17. ASSUME NEW u \in Users, Free /\ Attach(u) PROVE HubTypes'
  BY <1>17 DEF Attach, Enter, HubTypes, Nowhere
<1>18. ASSUME NEW u \in Users, Free /\ Announce(u) PROVE HubTypes'
  BY <1>18 DEF Announce, Write, Enter, HubTypes, Nowhere
<1>19. ASSUME NEW u \in Users, Free /\ Join(u) PROVE HubTypes'
  BY <1>19 DEF Join, Enter, HubTypes, Nowhere
<1>20. ASSUME NEW u \in Users, Take(u) PROVE HubTypes'
  BY <1>20 DEF Take, HubTypes, Nowhere
<1>21. ASSUME NEW u \in Users, Free /\ Leave(u) PROVE HubTypes'
  BY <1>21 DEF Leave, Enter, HubTypes, Nowhere
<1>22. ASSUME NEW u \in Users, Free /\ LogOff(u) PROVE HubTypes'
  BY <1>22 DEF LogOff, Write, Enter, HubTypes, Nowhere
<1>23. ASSUME NEW a \in Admins, Free /\ Save(a) PROVE HubTypes'
  BY <1>23 DEF Save, To, HubTypes, Nowhere
<1>24. ASSUME NEW a \in Admins, WriteFile(a) PROVE HubTypes'
  BY <1>24 DEF WriteFile, To, HubTypes, Nowhere
<1>25. ASSUME NEW a \in Admins, ReadBack(a) PROVE HubTypes'
  BY <1>25 DEF ReadBack, To, HubTypes, Nowhere
<1>26. ASSUME NEW a \in Admins, Apply(a) PROVE HubTypes'
  BY <1>26 DEF Apply, To, HubTypes, Nowhere
<1>27. ASSUME Free /\ Stop PROVE HubTypes'
  BY <1>27 DEF Stop, Drop, HubTypes, Nowhere
<1>28. ASSUME Free /\ Lost PROVE HubTypes'
  BY <1>28 DEF Lost, Drop, Mishap, HubTypes, Nowhere
<1>29. ASSUME UNCHANGED <<attached, todo, fan, cur, fanNow, phase, inbox,
     closed, room, view, curRoom, admin, link, stopped>> PROVE HubTypes'
  BY <1>29 DEF HubTypes, Nowhere
<1>30. QED
  BY <1>1, <1>2, <1>3, <1>4, <1>5, <1>6, <1>7, <1>8, <1>9, <1>10, <1>11,
     <1>12, <1>13, <1>14, <1>15, <1>16, <1>17, <1>18, <1>19, <1>20, <1>21,
     <1>22, <1>23, <1>24, <1>25, <1>26, <1>27, <1>28, <1>29 DEF Next,
     LoopStep, LoopLocked, LoopUnlocked, ReaderStep, SaverStep, AdminStep,
     WorkerStep, UserStep, Works, Restart, Apart, vars, Turn, Goto

\* The hub that has just started is of these types.
LEMMA HubTypesHold == Spec => []HubTypes
<1>1. Init => HubTypes
  <2> SUFFICES ASSUME Init PROVE HubTypes
    OBVIOUS
  <2>1. /\ attached = {} /\ todo = {} /\ cur = Nobody /\ curRoom = NoRoom
        /\ fan = {} /\ fanNow = Nobody /\ stopped = FALSE /\ link = "down"
        /\ phase = [u \in Users |-> "new"] /\ room = [u \in Users |-> Lobby]
        /\ inbox = [u \in Users |-> 0] /\ closed = [u \in Users |-> FALSE]
        /\ view = [u \in Users |-> NoRoom] /\ admin = [a \in Admins |-> "new"]
    BY DEF Init
  <2>2. 0 \in 0..InboxCap
    BY Constants
  <2>3. QED
    BY <2>1, <2>2, Constants DEF HubTypes
<1>2. QED
  BY <1>1, HubTypeStep, PTL DEF Spec

\* h.mu, held while a packet is delivered, keeps Detach and detachAll out.
LEMMA ReaderStepKeeps ==
  HubTypes /\ ReaderInv /\ [Next]_vars => ReaderInv'
<1> SUFFICES ASSUME HubTypes, ReaderInv, [Next]_vars PROVE ReaderInv'
  OBVIOUS
<1> USE Constants DEF hub, loop, read, users, page
<1>1. ASSUME Free /\ TakeStop PROVE ReaderInv'
  BY <1>1 DEF TakeStop, DetachAll, Drop, Goto, HubTypes, ReaderInv, Free
<1>2. ASSUME Free /\ TakeSettings PROVE ReaderInv'
  BY <1>2 DEF TakeSettings, DetachAll, Drop, Goto, HubTypes, ReaderInv, Free
<1>3. ASSUME Free /\ CloseOne PROVE ReaderInv'
  BY <1>3 DEF CloseOne, Write, HubTypes, ReaderInv, Free
<1>4. ASSUME Free /\ AllClosed PROVE ReaderInv'
  BY <1>4 DEF AllClosed, Drop, Goto, HubTypes, ReaderInv, Free
<1>5. ASSUME Free /\ Turn PROVE ReaderInv'
  BY <1>5 DEF Turn, Goto, HubTypes, ReaderInv, Free
<1>6. ASSUME Free /\ Dial PROVE ReaderInv'
  BY <1>6 DEF Dial, Goto, Mishap, HubTypes, ReaderInv, Free
<1>7. ASSUME Free /\ Greet PROVE ReaderInv'
  BY <1>7 DEF Greet, Goto, HubTypes, ReaderInv, Free
<1>8. ASSUME NextUser PROVE ReaderInv'
  BY <1>8 DEF NextUser, HubTypes, ReaderInv, Free
<1>9. ASSUME Free /\ WriteUser PROVE ReaderInv'
  BY <1>9 DEF WriteUser, Write, Goto, HubTypes, ReaderInv, Free
<1>10. ASSUME NotifyTest PROVE ReaderInv'
  BY <1>10 DEF NotifyTest, Goto, HubTypes, ReaderInv, Free
<1>11. ASSUME NotifySend PROVE ReaderInv'
  BY <1>11 DEF NotifySend, Send, Goto, HubTypes, ReaderInv, Free
<1>12. ASSUME Free /\ Announced PROVE ReaderInv'
  BY <1>12 DEF Announced, Goto, HubTypes, ReaderInv, Free
<1>13. ASSUME Free /\ Heartbeat PROVE ReaderInv'
  BY <1>13 DEF Heartbeat, Goto, HubTypes, ReaderInv, Free
<1>14. ASSUME Free /\ SessionFails PROVE ReaderInv'
  BY <1>14 DEF SessionFails, Drop, Goto, HubTypes, ReaderInv, Free
<1>15. ASSUME Packet PROVE ReaderInv'
  BY <1>15 DEF Packet, Audience, HubTypes, ReaderInv, Free
<1>16. ASSUME DeliverTest PROVE ReaderInv'
  BY <1>16 DEF DeliverTest, HubTypes, ReaderInv, Free
<1>17. ASSUME DeliverSend PROVE ReaderInv'
  BY <1>17 DEF DeliverSend, Send, HubTypes, ReaderInv, Free
<1>18. ASSUME NEW u \in Users, Free /\ Attach(u) PROVE ReaderInv'
  BY <1>18 DEF Attach, Enter, HubTypes, ReaderInv, Free
<1>19. ASSUME NEW u \in Users, Free /\ Announce(u) PROVE ReaderInv'
  BY <1>19 DEF Announce, Write, Enter, HubTypes, ReaderInv, Free
<1>20. ASSUME NEW u \in Users, Free /\ Join(u) PROVE ReaderInv'
  BY <1>20 DEF Join, Enter, HubTypes, ReaderInv, Free
<1>21. ASSUME NEW u \in Users, Free /\ Leave(u) PROVE ReaderInv'
  BY <1>21 DEF Leave, Enter, HubTypes, ReaderInv, Free
<1>22. ASSUME NEW u \in Users, Free /\ LogOff(u) PROVE ReaderInv'
  BY <1>22 DEF LogOff, Write, Enter, HubTypes, ReaderInv, Free
<1>23. ASSUME UNCHANGED <<fan, fanNow, attached, closed, phase, pc, todo>>
     PROVE ReaderInv'
  BY <1>23 DEF HubTypes, ReaderInv, Free
<1>24. QED
  BY <1>1, <1>2, <1>3, <1>4, <1>5, <1>6, <1>7, <1>8, <1>9, <1>10, <1>11,
     <1>12, <1>13, <1>14, <1>15, <1>16, <1>17, <1>18, <1>19, <1>20, <1>21,
     <1>22, <1>23 DEF Next, LoopStep, LoopLocked, LoopUnlocked, ReaderStep,
     SaverStep, AdminStep, WorkerStep, UserStep, Works, Restart, Apart, vars,
     Take, Save, To, WriteFile, ReadBack, Apply, Stop, Drop, Lost, Mishap

\* No interleaving of the reader with callers, the supervisor and the
\* settings page lets a packet meet a closed inbox.
THEOREM ReaderSafe == Spec => []ReaderNeverPanics
<1>1. Init => ReaderInv /\ ReaderNeverPanics
  BY DEF Init, ReaderInv, ReaderNeverPanics
<1>2. ReaderInv /\ ReaderNeverPanics /\ [Next]_vars => ReaderNeverPanics'
  <2> SUFFICES ASSUME ReaderInv, ReaderNeverPanics, [Next]_vars
               PROVE  ReaderNeverPanics'
    OBVIOUS
  <2>1. CASE DeliverSend
    BY <2>1 DEF DeliverSend, Send, ReaderInv, ReaderNeverPanics
  <2>2. CASE NotifySend
    BY <2>2 DEF NotifySend, Send, ReaderNeverPanics
  <2>3. CASE UNCHANGED panicked
    BY <2>3 DEF ReaderNeverPanics
  <2>4. QED
    BY <2>1, <2>2, <2>3 DEF hub, loop, read, users, page, Next, LoopStep,
       LoopLocked, LoopUnlocked, ReaderStep, SaverStep, AdminStep, WorkerStep,
       UserStep, Works, Restart, Apart, vars, TakeStop, DetachAll, Drop, Goto,
       TakeSettings, CloseOne, Write, AllClosed, Turn, Dial, Mishap, Greet,
       NextUser, WriteUser, NotifyTest, Announced, Heartbeat, SessionFails,
       Packet, Audience, DeliverTest, Attach, Enter, Announce, Join, Take,
       Leave, LogOff, Save, To, WriteFile, ReadBack, Apply, Stop, Lost
<1>3. QED
  BY <1>1, <1>2, HubTypesHold, ReaderStepKeeps, PTL DEF Spec

\* The connection and the list of attachments go with the supervisor's place.
LEMMA LinkStep == HubTypes /\ LinkInv /\ [Next]_vars => LinkInv'
<1> SUFFICES ASSUME HubTypes, LinkInv, [Next]_vars PROVE LinkInv'
  OBVIOUS
<1> USE Constants DEF hub, loop, read, users, page
<1>1. ASSUME Free /\ TakeStop PROVE LinkInv'
  BY <1>1 DEF TakeStop, DetachAll, Drop, Goto, HubTypes, LinkInv, Nowhere,
     Selects
<1>2. ASSUME Free /\ TakeSettings PROVE LinkInv'
  BY <1>2 DEF TakeSettings, DetachAll, Drop, Goto, HubTypes, LinkInv, Nowhere,
     Selects
<1>3. ASSUME Free /\ CloseOne PROVE LinkInv'
  BY <1>3 DEF CloseOne, Write, HubTypes, LinkInv, Nowhere, Selects
<1>4. ASSUME Free /\ AllClosed PROVE LinkInv'
  BY <1>4 DEF AllClosed, Drop, Goto, HubTypes, LinkInv, Nowhere, Selects
<1>5. ASSUME Free /\ Turn PROVE LinkInv'
  BY <1>5 DEF Turn, Goto, HubTypes, LinkInv, Nowhere, Selects
<1>6. ASSUME Free /\ Dial PROVE LinkInv'
  BY <1>6 DEF Dial, Goto, Mishap, HubTypes, LinkInv, Nowhere, Selects
<1>7. ASSUME Free /\ Greet PROVE LinkInv'
  BY <1>7 DEF Greet, Goto, HubTypes, LinkInv, Nowhere, Selects
<1>8. ASSUME Free /\ WriteUser PROVE LinkInv'
  BY <1>8 DEF WriteUser, Write, Goto, HubTypes, LinkInv, Nowhere, Selects
<1>9. ASSUME NotifyTest PROVE LinkInv'
  BY <1>9 DEF NotifyTest, Goto, HubTypes, LinkInv, Nowhere, Selects
<1>10. ASSUME NotifySend PROVE LinkInv'
  BY <1>10 DEF NotifySend, Send, Goto, HubTypes, LinkInv, Nowhere, Selects
<1>11. ASSUME Free /\ Announced PROVE LinkInv'
  BY <1>11 DEF Announced, Goto, HubTypes, LinkInv, Nowhere, Selects
<1>12. ASSUME Free /\ Heartbeat PROVE LinkInv'
  BY <1>12 DEF Heartbeat, Goto, HubTypes, LinkInv, Nowhere, Selects
<1>13. ASSUME Free /\ SessionFails PROVE LinkInv'
  BY <1>13 DEF SessionFails, Drop, Goto, HubTypes, LinkInv, Nowhere, Selects
<1>14. ASSUME NEW u \in Users, Free /\ Attach(u) PROVE LinkInv'
  BY <1>14 DEF Attach, Enter, HubTypes, LinkInv, Nowhere, Selects
<1>15. ASSUME NEW u \in Users, Free /\ Announce(u) PROVE LinkInv'
  BY <1>15 DEF Announce, Write, Enter, HubTypes, LinkInv, Nowhere, Selects
<1>16. ASSUME NEW u \in Users, Free /\ Leave(u) PROVE LinkInv'
  BY <1>16 DEF Leave, Enter, HubTypes, LinkInv, Nowhere, Selects
<1>17. ASSUME NEW u \in Users, Free /\ LogOff(u) PROVE LinkInv'
  BY <1>17 DEF LogOff, Write, Enter, HubTypes, LinkInv, Nowhere, Selects
<1>18. ASSUME Free /\ Stop PROVE LinkInv'
  BY <1>18 DEF Stop, Drop, HubTypes, LinkInv, Nowhere, Selects
<1>19. ASSUME Free /\ Lost PROVE LinkInv'
  BY <1>19 DEF Lost, Drop, Mishap, HubTypes, LinkInv, Nowhere, Selects
<1>20. ASSUME UNCHANGED <<cfg, attached, pc, link, view>> PROVE LinkInv'
  BY <1>20 DEF HubTypes, LinkInv, Nowhere, Selects
<1>21. QED
  BY <1>1, <1>2, <1>3, <1>4, <1>5, <1>6, <1>7, <1>8, <1>9, <1>10, <1>11,
     <1>12, <1>13, <1>14, <1>15, <1>16, <1>17, <1>18, <1>19, <1>20 DEF Next,
     LoopStep, LoopLocked, LoopUnlocked, ReaderStep, SaverStep, AdminStep,
     WorkerStep, UserStep, Works, Restart, Apart, vars, NextUser, Packet,
     Audience, DeliverTest, DeliverSend, Send, Join, Enter, Take, Save, To,
     WriteFile, ReadBack, Apply

\* It starts without a connection, and with MRC off.
LEMMA LinkInvHolds == Spec => [](HubTypes /\ LinkInv)
<1>1. Init => LinkInv
  BY DEF Init, LinkInv, Off, Nowhere
<1>2. QED
  BY <1>1, HubTypesHold, LinkStep, PTL DEF Spec

\* Attach cannot slip in behind detachAll: when MRC is off or the hub has
\* stopped, nobody is attached and there is no connection.
THEOREM NobodyIsLeftBehind == Spec => []NobodyLeftBehind
<1>1. LinkInv => NobodyLeftBehind
  BY DEF LinkInv, NobodyLeftBehind
<1>2. QED
  BY <1>1, LinkInvHolds, PTL

\* A user who has left comes back at the relay only by a line written from a
\* snapshot of the supervisor: what Announce and LogOff write is in order, and
\* a lost connection takes everybody along.
THEOREM OnlyGhostsFromSnapshots == Spec => GhostsOnlyFromSnapshots
<1> DEFINE Ghosts == \A u \in Users :
                       phase'[u] = "gone" /\ view'[u] # NoRoom
                         => \/ phase[u] = "gone" /\ view[u] = view'[u]
                            \/ cur = u /\ pc \in {"announce", "beat"}
<1>1. HubTypes /\ LinkInv /\ [Next]_vars => [Ghosts]_vars
  <2> SUFFICES ASSUME HubTypes, LinkInv, Next PROVE Ghosts
    OBVIOUS
  <2> USE DEF hub, loop, read, users, page
  <2>1. ASSUME Free /\ TakeStop PROVE Ghosts
    BY <2>1 DEF TakeStop, DetachAll, Drop, Goto, HubTypes, LinkInv, Nowhere
  <2>2. ASSUME Free /\ TakeSettings PROVE Ghosts
    BY <2>2 DEF TakeSettings, DetachAll, Drop, Goto, HubTypes, LinkInv,
       Nowhere
  <2>3. ASSUME Free /\ CloseOne PROVE Ghosts
    BY <2>3 DEF CloseOne, Write, HubTypes, LinkInv, Nowhere
  <2>4. ASSUME Free /\ AllClosed PROVE Ghosts
    BY <2>4 DEF AllClosed, Drop, Goto, HubTypes, LinkInv, Nowhere
  <2>5. ASSUME Free /\ WriteUser PROVE Ghosts
    BY <2>5 DEF WriteUser, Write, Goto, HubTypes, LinkInv, Nowhere
  <2>6. ASSUME Free /\ SessionFails PROVE Ghosts
    BY <2>6 DEF SessionFails, Drop, Goto, HubTypes, LinkInv, Nowhere
  <2>7. ASSUME NEW u \in Users, Free /\ Attach(u) PROVE Ghosts
    BY <2>7 DEF Attach, Enter, HubTypes, LinkInv, Nowhere
  <2>8. ASSUME NEW u \in Users, Free /\ Announce(u) PROVE Ghosts
    BY <2>8 DEF Announce, Write, Enter, HubTypes, LinkInv, Nowhere
  <2>9. ASSUME NEW u \in Users, Free /\ Join(u) PROVE Ghosts
    BY <2>9 DEF Join, Enter, HubTypes, LinkInv, Nowhere
  <2>10. ASSUME NEW u \in Users, Free /\ Leave(u) PROVE Ghosts
    BY <2>10 DEF Leave, Enter, HubTypes, LinkInv, Nowhere
  <2>11. ASSUME NEW u \in Users, Free /\ LogOff(u) PROVE Ghosts
    BY <2>11 DEF LogOff, Write, Enter, HubTypes, LinkInv, Nowhere
  <2>12. ASSUME Free /\ Stop PROVE Ghosts
    BY <2>12 DEF Stop, Drop, HubTypes, LinkInv, Nowhere
  <2>13. ASSUME Free /\ Lost PROVE Ghosts
    BY <2>13 DEF Lost, Drop, Mishap, HubTypes, LinkInv, Nowhere
  <2>14. ASSUME UNCHANGED <<phase, view>> PROVE Ghosts
    BY <2>14 DEF HubTypes, LinkInv, Nowhere
  <2>15. QED
    BY <2>1, <2>2, <2>3, <2>4, <2>5, <2>6, <2>7, <2>8, <2>9, <2>10, <2>11,
       <2>12, <2>13, <2>14 DEF Next, LoopStep, LoopLocked, LoopUnlocked,
       ReaderStep, SaverStep, AdminStep, WorkerStep, UserStep, Works, Restart,
       Apart, vars, Turn, Goto, Dial, Mishap, Greet, NextUser, NotifyTest,
       NotifySend, Send, Announced, Heartbeat, Packet, Audience, DeliverTest,
       DeliverSend, Take, Save, To, WriteFile, ReadBack, Apply
<1>2. QED
  BY <1>1, LinkInvHolds, PTL DEF Spec, GhostsOnlyFromSnapshots

-----------------------------------------------------------------------------
\* What a saver's copy of the settings can be: taken from memory, or its own
\* of before; and what comes into memory or the file is somebody's copy.
CopyMove ==
  /\ DOMAIN saver' = DOMAIN saver /\ DOMAIN mine' = DOMAIN mine
  /\ current' = current \/ \E v \in Savers : Busy(v) /\ current' = mine[v]
  /\ \A v \in Savers : Busy(v)' =>
       \/ Busy(v) /\ mine'[v] = mine[v]
       \/ "mrc" \in DOMAIN mine'[v] /\ mine'[v].mrc = current.mrc
  /\ \/ file' = file \/ file' = Torn
     \/ \E v \in Savers : Busy(v) /\ file'.mrc = mine[v].mrc

\* merged := *config.Get(), and something else than MRC's settings changed.
LEMMA MergeMove ==
  ASSUME SaverTypes, NEW w, NEW c, Merge(w, c),
         "mrc" \in DOMAIN c, c.mrc = current.mrc
  PROVE  CopyMove
BY DEF SaverTypes, Merge, CopyMove, Savers, Busy

\* The three ends of a save.
LEMMA SaveMove ==
  ASSUME SaverTypes, NEW w \in Savers, Open(w) \/ Encode(w) \/ SaveFails(w)
  PROVE  CopyMove
<1> USE DEF SaverTypes, CopyMove, Savers, Busy
<1>1. CASE Open(w)
  BY <1>1 DEF Open
<1>2. CASE Encode(w)
  BY <1>2 DEF Encode, Contents
<1>3. CASE SaveFails(w)
  BY <1>3 DEF SaveFails
<1>4. QED
  BY <1>1, <1>2, <1>3

\* Nobody who saves other settings changes MRC's in a copy.
LEMMA WorkerMove ==
  ASSUME SaverTypes, "mrc" \in DOMAIN current,
         NEW w \in Workers, Begin(w) \/ Proceed(w)
  PROVE  CopyMove
<1>1. w \in Savers
  BY MrcAssumption DEF SaverTypes, Savers, Workers, Kinds
<1>3. ASSUME UNCHANGED settings PROVE CopyMove
  BY <1>3 DEF settings, store, CopyMove, Savers, Busy
<1>4. CASE Saves(w)
  BY <1>1, <1>4, SaveMove DEF Saves
<1>5. CASE Look(w)
  BY <1>5, <1>3 DEF Look
<1>6. CASE Deny(w)
  BY <1>6, <1>3 DEF Deny
<1>7. CASE Remove(w)
  BY <1>7, MergeMove, <1>3 DEF Remove, MergeLinks
<1>8. CASE LookForDuplicate(w)
  BY <1>8, <1>3 DEF LookForDuplicate
<1>9. CASE Change(w)
  BY <1>9, MergeMove, <1>3 DEF Change, MergeLinks
<1>10. CASE NewPassword(w)
  BY <1>10, MergeMove, <1>3 DEF NewPassword, MergePassword
<1>11. CASE UnmapArea(w)
  BY <1>11, MergeMove, <1>3 DEF UnmapArea, MergeAreas
<1>12. CASE EditNetwork(w)
  BY <1>12, MergeMove, <1>3 DEF EditNetwork, MergePage
<1>13. CASE EditBBS(w)
  BY <1>13, MergeMove, <1>3 DEF EditBBS, MergeSection
<1>14. CASE Number(w)
  BY <1>14, <1>3 DEF Number
<1>15. CASE InsertMember(w)
  BY <1>15, <1>3 DEF InsertMember
<1>16. CASE Authorize(w)
  BY <1>16, MergeMove, <1>3 DEF Authorize, MergeLinks
<1>17. CASE Subscribe(w)
  BY <1>17, <1>3 DEF Subscribe
<1>18. CASE MarkApproved(w)
  BY <1>18, <1>3 DEF MarkApproved
<1>19. CASE Unsubscribe(w)
  BY <1>19, <1>3 DEF Unsubscribe
<1>20. CASE Add(w)
  BY <1>20, MergeMove, <1>3 DEF Add, MergeLinks
<1>21. CASE MapArea(w)
  BY <1>21, MergeMove, <1>3 DEF MapArea, MergeAreas
<1>22. CASE EditedNetwork(w)
  BY <1>22 DEF EditedNetwork, CopyMove, SaverTypes, Savers, Busy
<1>23. CASE Saved(w)
  BY <1>23, <1>3 DEF Saved
<1>24. CASE StatementFails(w)
  BY <1>24 DEF StatementFails, Mishap, CopyMove, Savers, Busy
<1>25. QED
  BY <1>4, <1>5, <1>6, <1>7, <1>8, <1>9, <1>10, <1>11, <1>12, <1>13, <1>14,
     <1>15, <1>16, <1>17, <1>18, <1>19, <1>20, <1>21, <1>22, <1>23, <1>24 DEF
     Begin, Proceed

\* Nobody changes who has come.
LEMMA WorkerCast ==
  ASSUME NEW w \in Workers, Begin(w) \/ Proceed(w)
  PROVE  cast' = cast
BY DEF Begin, Proceed, Look, Deny, Remove, LookForDuplicate, Change,
   NewPassword, UnmapArea, EditNetwork, EditBBS, Number, InsertMember,
   Authorize, Subscribe, MarkApproved, Unsubscribe, Add, MapArea,
   EditedNetwork, Saves, Saved, StatementFails, joining

\* Who has asked is finitely many, and more with every save.
LEMMA AskedCount ==
  /\ IsFiniteSet(Asked) /\ Cardinality(Asked) \in Nat
  /\ Cardinality(Asked) <= Cardinality(Admins) /\ Cardinality(Admins) \in Nat
<1>1. IsFiniteSet(Admins) /\ Asked \subseteq Admins
  BY MrcAssumption DEF Asked
<1>2. QED
  BY <1>1, FS_Subset, FS_CardinalityType

\* What the others do leaves the copies of MRC's settings as new as they were.
LEMMA VersionKept ==
  ASSUME SaverTypes, VersionInv, CopyMove,
         UNCHANGED <<cfg, applyCh, admin, request, floor, cast>>
  PROVE  SaverTypes' /\ VersionInv'
<1>1. SaverTypes'
  BY DEF SaverTypes, CopyMove, Asked
<1>2. Settings' = Settings /\ Asked' = Asked /\ Savers' = Savers
  BY DEF CopyMove, Settings, Asked, Savers
<1>3. \A c : Sound(c)' = Sound(c)
  BY <1>2 DEF Sound
<1>4. Sound(current') /\ \A w \in Savers : Busy(w)' => Sound(mine'[w])
  BY DEF CopyMove, VersionInv, Sound
<1>5. file' # Torn => file'.mrc \in Settings
  BY DEF CopyMove, VersionInv, Sound
<1>6. QED
  BY <1>1, <1>2, <1>3, <1>4, <1>5 DEF VersionInv, Sound, Chat, Carrying

\* A save of MRC's settings goes on: its copy is in nobody else's hands, and
\* when it was alone the floor is its own version.
LEMMA WriteStep ==
  ASSUME HubTypes, SaverTypes, VersionInv, NEW a \in Admins, WriteFile(a)
  PROVE  SaverTypes' /\ VersionInv'
<1> USE DEF hub, loop, read, users
<1>1. /\ a \in Asked /\ a \in Savers /\ a \in DOMAIN cast
      /\ UNCHANGED <<cfg, applyCh, request, cast>>
  BY MrcAssumption DEF WriteFile, Asked, SaverTypes, Savers, HubTypes, joining
<1>2. Savers' = Savers /\ Asked' = Asked /\ Settings' = Settings
  <2>1. DOMAIN saver' = DOMAIN saver
    BY <1>1, SaveMove DEF WriteFile, CopyMove
  <2>2. \A b \in Admins : (admin'[b] # "new") = (admin[b] # "new")
    BY DEF WriteFile, To, HubTypes
  <2>3. QED
    BY <2>1, <2>2 DEF Savers, Asked, Settings
<1>3. CASE Open(a) /\ UNCHANGED <<admin, floor>>
  BY <1>1, <1>3, SaveMove, VersionKept
<1>4. CASE SaveFails(a) /\ To(a, "done") /\ UNCHANGED floor
  <2>1. CopyMove
    BY <1>1, <1>4, SaveMove
  <2>2. SaverTypes'
    BY <1>1, <1>2, <2>1 DEF SaverTypes, CopyMove
  <2>3. \A c : Sound(c)' = Sound(c)
    BY <1>2, <1>4 DEF Sound
  <2>4. Sound(current') /\ \A w \in Savers : Busy(w)' => Sound(mine'[w])
    BY <2>1 DEF CopyMove, VersionInv, Sound
  <2>5. file' # Torn => file'.mrc \in Settings
    BY <2>1 DEF CopyMove, VersionInv, Sound
  <2>6. \A b \in Admins : admin'[b] \in {"send", "drain", "resend"}
                            => admin'[b] = admin[b]
    BY <1>4 DEF To, HubTypes
  <2>7. \A b \in Admins : Carrying(b)' = Carrying(b)
    BY <1>4 DEF WriteFile, To, HubTypes, Carrying
  <2>8. QED
    BY <1>1, <1>2, <1>4, <2>2, <2>3, <2>4, <2>5, <2>6, <2>7
       DEF VersionInv, Sound, Chat
<1>5. CASE /\ Encode(a) /\ To(a, "saved")
           /\ floor' = IF Alone(a) THEN mine[a].mrc.ver ELSE floor
  <2>1. Busy(a) /\ Sound(mine[a])
    BY <1>1, <1>5 DEF Encode, Busy, VersionInv
  <2>2. /\ current' = mine[a] /\ file'.mrc = mine[a].mrc
        /\ DOMAIN saver' = DOMAIN saver /\ DOMAIN mine' = DOMAIN mine
        /\ \A w \in Savers : Busy(w)' =>
             w # a /\ Busy(w) /\ mine'[w] = mine[w]
    BY <1>5 DEF Encode, Contents, Savers, Busy, SaverTypes
  <2>3. SaverTypes'
    BY <1>1, <1>2, <2>2 DEF SaverTypes
  <2>4. admin' = [admin EXCEPT ![a] = "saved"] /\ admin'[a] = "saved"
    BY <1>5 DEF To, HubTypes
  <2>5. Carrying(a)'
    BY <2>4 DEF Carrying
  <2>6. /\ floor' \in 0..Cardinality(Asked)
        /\ floor' = floor \/ (floor' = mine[a].mrc.ver /\ Alone(a))
    BY <1>5, <2>1 DEF Sound, Settings, VersionInv
  <2>7. \A c : Sound(c)' = (/\ "mrc" \in DOMAIN c /\ c.mrc \in Settings
                            /\ c.mrc.ver >= floor')
    BY <1>2 DEF Sound
  <2>8. Sound(current)'
    <3>1. mine[a].mrc.ver \in Nat
      BY <2>1, AskedCount DEF Sound, Settings
    <3>2. mine[a].mrc.ver >= floor'
      BY <2>1, <2>6, <3>1 DEF Sound
    <3>3. "mrc" \in DOMAIN mine[a] /\ mine[a].mrc \in Settings
      BY <2>1 DEF Sound
    <3>4. Sound(current)' = (/\ "mrc" \in DOMAIN mine[a]
                             /\ mine[a].mrc \in Settings
                             /\ mine[a].mrc.ver >= floor')
      BY <2>2, <1>2 DEF Sound
    <3>5. QED
      BY <3>2, <3>3, <3>4
  <2>9. \A w \in Savers : Busy(w)' => Sound(mine[w])'
    BY <2>2, <2>6, <2>7 DEF VersionInv, Sound, Alone
  <2>10. \A b \in Admins : admin'[b] \in {"send", "drain", "resend"}
                             => request[b].ver >= floor'
    BY <2>4, <2>6 DEF VersionInv, Alone, HubTypes
  <2>11. file' # Torn => file'.mrc \in Settings
    BY <2>1, <2>2 DEF Sound
  <2>12. Chat'
    BY <1>1 DEF Chat
  <2>13. QED
    BY <1>1, <1>2, <2>3, <2>5, <2>6, <2>8, <2>9, <2>10, <2>11, <2>12
       DEF VersionInv
<1>6. QED
  BY <1>3, <1>4, <1>5 DEF WriteFile

\* A new request is one more than all before, and so newer than the floor.
LEMMA SaveStep ==
  ASSUME HubTypes, SaverTypes, VersionInv, NEW a \in Admins, Save(a)
  PROVE  SaverTypes' /\ VersionInv'
<1> USE DEF hub, loop, read, users
<1>1. PICK on \in BOOLEAN :
        MergeSection(a, [current EXCEPT !.mrc =
                           [ver |-> 1 + Cardinality(Asked), on |-> on]])
  BY DEF Save, Asked
<1> DEFINE new == [ver |-> 1 + Cardinality(Asked), on |-> on]
           c == [current EXCEPT !.mrc = new]
<1>2. /\ admin[a] = "new" /\ admin' = [admin EXCEPT ![a] = "saving"]
      /\ UNCHANGED <<cfg, applyCh, request, floor, cast>>
      /\ a \in DOMAIN cast
  BY DEF Save, To, joining
<1>3. Asked' = Asked \cup {a} /\ a \notin Asked /\ a \in Savers
  <2>1. Asked' = Asked \cup {a} /\ a \notin Asked
    BY <1>2 DEF Asked, HubTypes
  <2>2. a \in Savers
    BY <1>2, MrcAssumption DEF SaverTypes, Savers
  <2>3. QED
    BY <2>1, <2>2
<1>4. Cardinality(Asked') = Cardinality(Asked) + 1
  BY <1>3, AskedCount, FS_AddElement
<1>5. Settings \subseteq Settings' /\ new \in Settings'
      /\ 0..Cardinality(Asked) \subseteq 0..Cardinality(Asked')
  BY <1>4, AskedCount DEF Settings
<1>6. /\ saver' = [saver EXCEPT ![a] = "merged"]
      /\ mine' = [mine EXCEPT ![a] = c] /\ UNCHANGED <<current, file>>
  BY <1>1 DEF MergeSection, Merge
<1>7. SaverTypes'
  BY <1>2, <1>3, <1>6 DEF SaverTypes
<1>8. \A d : Sound(d) => /\ "mrc" \in DOMAIN d /\ d.mrc \in Settings'
                         /\ d.mrc.ver >= floor
  BY <1>5 DEF Sound
<1>9. "mrc" \in DOMAIN c /\ c.mrc = new /\ new.ver >= floor
  BY AskedCount DEF Sound, VersionInv
<1>10. /\ Savers' = Savers /\ Sound(current)'
       /\ \A w \in Savers : Busy(w)' => Sound(mine[w])'
  <2>1. Sound(current)'
    BY <1>2, <1>6, <1>8 DEF VersionInv, Sound
  <2>2. Savers' = Savers
    BY <1>6 DEF Savers
  <2>3. ASSUME NEW w \in Savers, Busy(w)' PROVE Sound(mine[w])'
    <3>1. CASE w = a
      <4>1. mine'[w] = c
        BY <1>3, <1>6, <3>1 DEF SaverTypes, Savers
      <4>2. QED
        BY <1>2, <1>5, <1>9, <4>1 DEF Sound
    <3>2. CASE w # a
      BY <1>2, <1>6, <1>8, <2>3, <3>2 DEF VersionInv, Sound, Busy
    <3>3. QED
      BY <3>1, <3>2
  <2>4. QED
    BY <2>1, <2>2, <2>3
<1>11. \A b \in Admins : /\ Carrying(b)' = Carrying(b)
                         /\ admin'[b] \in {"send", "drain", "resend"}
                              => admin[b] = admin'[b]
  BY <1>2 DEF Carrying, HubTypes
<1>12. QED
  <2>1. file' # Torn => file'.mrc \in Settings'
    BY <1>5, <1>6 DEF VersionInv
  <2>2. /\ floor' \in 0..Cardinality(Asked') /\ (~Chat' => floor' = 0)
        /\ request' \in [Admins -> Settings'] /\ cfg' \in Settings'
        /\ applyCh' = <<>> \/ \E s \in Settings' : applyCh' = <<s>>
    BY <1>2, <1>5 DEF VersionInv, Chat
  <2>3. QED
    BY <1>2, <1>7, <1>10, <1>11, <2>1, <2>2 DEF VersionInv

\* Settings on their way to the hub keep their version, and the one slot is
\* emptied for newer ones only.
LEMMA VersionStep ==
  HubTypes /\ SaverTypes /\ VersionInv /\ [Next]_vars
    => SaverTypes' /\ VersionInv'
<1> SUFFICES ASSUME HubTypes, SaverTypes, VersionInv, [Next]_vars
             PROVE  SaverTypes' /\ VersionInv'
  OBVIOUS
<1>1. ASSUME UNCHANGED store,
             UNCHANGED <<cfg, applyCh, admin, request, floor, cast>>
      PROVE  SaverTypes' /\ VersionInv'
  <2>1. CopyMove
    BY <1>1 DEF store, CopyMove, Savers, Busy
  <2>2. QED
    BY <1>1, <2>1, VersionKept
<1>2. ASSUME NEW w \in Workers, Begin(w) \/ Proceed(w), Apart
      PROVE  SaverTypes' /\ VersionInv'
  <2>1. CopyMove
    BY <1>2, WorkerMove DEF VersionInv, Sound
  <2>2. QED
    BY <1>2, <2>1, VersionKept, WorkerCast DEF Apart, hub
<1>3. ASSUME Restart PROVE SaverTypes' /\ VersionInv'
  <2>1. ~Chat /\ Reload /\ UNCHANGED <<cfg, applyCh, admin, request, floor,
                                       cast>>
    BY <1>3 DEF Restart, JoinRestart, Apart, hub
  <2>2. /\ DOMAIN saver' = DOMAIN saver /\ DOMAIN mine' = DOMAIN mine
        /\ file' = file /\ \A w \in Savers : ~Busy(w)'
    BY <2>1 DEF Reload, Savers, Busy, SaverTypes
  <2>3. Asked' = Asked /\ Settings' = Settings /\ Savers' = Savers
    BY <2>1, <2>2 DEF Asked, Settings, Savers
  <2>4. Sound(current)'
    <3>1. CASE file = Torn
      BY <2>1, <2>3, <3>1 DEF Reload, VersionInv, Sound
    <3>2. CASE file # Torn
      <4>1. "mrc" \in DOMAIN current' /\ current'.mrc = file.mrc
        BY <2>1, <3>2 DEF Reload
      <4>2. file.mrc \in Settings /\ floor' = 0
        BY <2>1, <3>2 DEF VersionInv
      <4>3. file.mrc.ver >= 0
        BY <4>2, AskedCount DEF Settings
      <4>4. QED
        BY <2>3, <4>1, <4>2, <4>3 DEF Sound
    <3>3. QED
      BY <3>1, <3>2
  <2>5. SaverTypes'
    BY <2>1, <2>2, <2>3 DEF SaverTypes
  <2>6. QED
    BY <2>1, <2>2, <2>3, <2>4, <2>5 DEF VersionInv, Chat, Carrying
<1>4. ASSUME NEW a \in Admins, ReadBack(a) PROVE SaverTypes' /\ VersionInv'
  <2>1. /\ admin[a] = "saved" /\ admin' = [admin EXCEPT ![a] = "send"]
        /\ request' = [request EXCEPT ![a] = current.mrc]
        /\ UNCHANGED <<cfg, applyCh, current, file, saver, mine, floor, cast>>
    BY <1>4 DEF ReadBack, To, hub, store, joining
  <2>2. Asked' = Asked /\ Settings' = Settings /\ Savers' = Savers
    BY <2>1 DEF Asked, Settings, Savers, HubTypes
  <2>3. current.mrc \in Settings /\ current.mrc.ver >= floor
    BY DEF VersionInv, Sound
  <2>4. request' \in [Admins -> Settings]
    BY <2>1, <2>3 DEF VersionInv
  <2>5. \A b \in Admins : admin'[b] \in {"send", "drain", "resend"}
                            => request'[b].ver >= floor
    BY <2>1, <2>3 DEF VersionInv, HubTypes
  <2>6. Carrying(a)'
    BY <2>1 DEF Carrying, HubTypes
  <2>7. SaverTypes'
    BY <2>1, <2>2 DEF SaverTypes
  <2>8. Sound(current)' /\ \A w \in Savers : Busy(w)' => Sound(mine[w])'
    BY <2>1, <2>2 DEF VersionInv, Sound, Busy
  <2>9. QED
    BY <2>1, <2>2, <2>4, <2>5, <2>6, <2>7, <2>8 DEF VersionInv, Chat
<1>5. ASSUME NEW a \in Admins, Apply(a) PROVE SaverTypes' /\ VersionInv'
  <2>1. UNCHANGED <<cfg, current, file, saver, mine, floor, cast>>
    BY <1>5 DEF Apply, store, joining
  <2>2. Asked' = Asked /\ Settings' = Settings /\ Savers' = Savers
    BY <1>5, <2>1 DEF Apply, To, Asked, Settings, Savers, HubTypes
  <2>3. SaverTypes'
    BY <2>1, <2>2 DEF SaverTypes
  <2>4. Sound(current)' /\ \A w \in Savers : Busy(w)' => Sound(mine[w])'
    BY <2>1, <2>2 DEF VersionInv, Sound, Busy
  <2>5. Off \in Settings
    BY AskedCount DEF Off, Settings
  <2>6. request' \in [Admins -> Settings]
    BY <1>5, <2>5 DEF Apply, VersionInv
  <2>7. \A b \in Admins : admin'[b] \in {"send", "drain", "resend"}
                            => request'[b].ver >= floor
    BY <1>5 DEF Apply, To, VersionInv, HubTypes
  <2>8. applyCh' = <<>> \/ \E s \in Settings : applyCh' = <<s>>
    BY <1>5 DEF Apply, VersionInv
  <2>9. (\A b \in Admins : ~Carrying(b)') =>
          IF applyCh' = <<>> THEN cfg.ver >= floor
                             ELSE applyCh'[1].ver >= floor
    BY <1>5 DEF Apply, To, VersionInv, HubTypes, Carrying
  <2>10. QED
    BY <2>1, <2>2, <2>3, <2>4, <2>6, <2>7, <2>8, <2>9 DEF VersionInv, Chat
<1>6. ASSUME TakeSettings PROVE SaverTypes' /\ VersionInv'
  <2>1. /\ applyCh # <<>> /\ cfg' = Head(applyCh) /\ applyCh' = <<>>
        /\ UNCHANGED <<current, file, saver, mine, floor, cast, admin,
                       request>>
    BY <1>6 DEF TakeSettings, page, store, joining
  <2>2. PICK s \in Settings : applyCh = <<s>> /\ cfg' = s /\ applyCh[1] = s
    BY <2>1 DEF VersionInv
  <2>3. Asked' = Asked /\ Settings' = Settings /\ Savers' = Savers
    BY <2>1 DEF Asked, Settings, Savers
  <2>4. SaverTypes'
    BY <2>1, <2>3 DEF SaverTypes
  <2>5. Sound(current)' /\ \A w \in Savers : Busy(w)' => Sound(mine[w])'
    BY <2>1, <2>3 DEF VersionInv, Sound, Busy
  <2>6. QED
    BY <2>1, <2>2, <2>3, <2>4, <2>5 DEF VersionInv, Chat, Carrying
<1>7. QED
  BY <1>1, <1>2, <1>3, <1>4, <1>5, <1>6, SaveStep, WriteStep DEF hub, loop,
     read, users, page, joining, Next, LoopStep, LoopLocked,
     LoopUnlocked, ReaderStep, SaverStep, AdminStep, WorkerStep, UserStep,
     Works, vars,
     TakeStop, DetachAll, Drop, Goto, CloseOne, Write, AllClosed, Turn,
     Dial, Mishap, Greet, NextUser, WriteUser, NotifyTest, NotifySend,
     Send, Announced, Heartbeat, SessionFails, Packet, Audience,
     DeliverTest, DeliverSend, Attach, Enter, Announce, Join, Take,
     Leave, LogOff, Stop, Lost

\* The program starts with version 0 in memory and in the file.
LEMMA VersionInvHolds == Spec => [](HubTypes /\ SaverTypes /\ VersionInv)
<1>1. Init => SaverTypes /\ VersionInv
  <2> SUFFICES ASSUME Init PROVE SaverTypes /\ VersionInv
    OBVIOUS
  <2>1. PICK on \in BOOLEAN : SettingsInit([ver |-> 0, on |-> on],
                                           DOMAIN cast \ Users)
    BY DEF Init
  <2> DEFINE m == [ver |-> 0, on |-> on]
  <2>2. Asked = {} /\ Cardinality(Asked) = 0
    BY FS_EmptySet DEF Init, Asked
  <2>3. Settings = [ver : {0}, on : BOOLEAN]
    <3>1. 0..0 = {0}
      OBVIOUS
    <3>2. QED
      BY <2>2, <3>1 DEF Settings
  <2>4. /\ "mrc" \in DOMAIN current /\ current.mrc = m /\ file.mrc = m
        /\ DOMAIN saver = DOMAIN cast \ Users /\ DOMAIN mine = DOMAIN saver
        /\ \A w \in Savers : ~Busy(w)
    BY <2>1 DEF SettingsInit, Savers, Busy
  <2>5. SaverTypes
    BY <2>2, <2>4 DEF Init, JoinInit, SaverTypes
  <2>6. /\ cfg = Off /\ floor = 0 /\ request = [a \in Admins |-> Off]
        /\ admin = [a \in Admins |-> "new"]
        /\ applyCh = IF Chat THEN <<m>> ELSE <<>>
    BY <2>4 DEF Init
  <2>7. m \in Settings /\ Off \in Settings
    BY <2>3 DEF Off
  <2>8. Sound(current)
    BY <2>4, <2>6, <2>7 DEF Sound
  <2>9. VersionInv
    BY <2>2, <2>4, <2>6, <2>7, <2>8 DEF VersionInv, Off
  <2>10. QED
    BY <2>5, <2>9
<1>2. QED
  BY <1>1, HubTypesHold, VersionStep, PTL DEF Spec

\* The one-slot channel never lets older settings win over the newest, however
\* many save at once and whoever else saves other settings meanwhile.
THEOREM NewestWin == Spec => []NewestSettingsWin
<1>1. HubTypes /\ VersionInv => NewestSettingsWin
  BY DEF VersionInv, NewestSettingsWin, Carrying
<1>2. QED
  BY <1>1, VersionInvHolds, PTL

\* The hub's types, the settings among them.
THEOREM TypeCorrect == Spec => []TypeOK
<1>1. HubTypes /\ VersionInv => TypeOK
  <2> SUFFICES ASSUME HubTypes, VersionInv PROVE TypeOK
    OBVIOUS
  <2>1. Settings \subseteq [ver : 0..Cardinality(Admins), on : BOOLEAN]
    BY AskedCount DEF Settings
  <2>2. /\ cfg \in [ver : 0..Cardinality(Admins), on : BOOLEAN]
        /\ current.mrc \in [ver : 0..Cardinality(Admins), on : BOOLEAN]
    BY <2>1 DEF VersionInv, Sound
  <2>3. Len(applyCh) <= 1
    <3>1. Len(applyCh) = 0 \/ Len(applyCh) = 1
      <4>1. CASE applyCh = <<>>
        BY <4>1
      <4>2. CASE applyCh # <<>>
        <5>1. PICK s \in Settings : applyCh = <<s>>
          BY <4>2 DEF VersionInv
        <5>2. QED
          BY <5>1
      <4>3. QED
        BY <4>1, <4>2
    <3>2. QED
      BY <3>1
  <2>4. QED
    BY <2>2, <2>3 DEF TypeOK, HubTypes
<1>2. QED
  BY <1>1, VersionInvHolds, PTL

-----------------------------------------------------------------------------
(* Who saves other settings.                                               *)

Names == {First} \cup DOMAIN cast
LinkSets == SUBSET [addr : Nat, pw : Names]
Of(kinds) == {v \in Workers : cast[v] \in kinds}
Changes == {"change", "passwd"}

\* A copy of the settings, and what it refers to.
Copy(c) == DOMAIN c = {"mrc", "bbs", "nets"} /\ c.bbs \in Names
           /\ c.nets \in DOMAIN nets
HeapInv ==
  /\ DOMAIN since = Savers
  /\ nets \in Seq([page : Names, downlinks : Nat]) /\ slices \in Seq(LinkSets)
  /\ \A i \in DOMAIN nets : nets[i].downlinks \in DOMAIN slices
  /\ Copy(current) /\ \A v \in Savers : Busy(v) => Copy(mine[v])
  /\ file # Torn =>
       /\ file = [mrc |-> file.mrc, bbs |-> file.bbs, page |-> file.page,
                  downlinks |-> file.downlinks, areas |-> file.areas]
       /\ file.bbs \in Names /\ file.page \in Names
       /\ file.downlinks \in LinkSets

\* How far everybody is, and what is behind them.
Labels == {"new", "looked", "numbered", "member", "saving", "authorized",
           "subscribed", "done", "refused", "removed", "looked up",
           "unmapping", "unmapped", "edited"}
Inserted(w) ==
  step[w] \in {"member", "saving", "authorized", "subscribed", "done"}
StepInv ==
  /\ step \in [Workers -> Labels] /\ node \in [Workers -> Nat]
  /\ DOMAIN joinRequests = JoinRequests
  /\ members \subseteq Nat \ {0} /\ Known \in members
  /\ \E m \in members : \A k \in members : k <= m
  /\ \A r \in JoinRequests : LET w == joinRequests[r] IN
       w \in Workers => Is(w, "approve") /\ At(w, "done")
  /\ \A w \in Workers :
       /\ step[w] \in {"looked", "numbered", "member", "authorized",
                       "subscribed"} => Is(w, "approve")
       /\ At(w, "looked up") => Is(w, "add page")
       /\ At(w, "removed") => Is(w, "remove")
       /\ At(w, "edited") => Is(w, "networks page") /\ Busy(w)
       /\ step[w] \in {"unmapping", "unmapped"} => Is(w, "remap")
       /\ Is(w, "remove") => node[w] \in {0, Known}
       /\ At(w, "numbered") => node[w] > Known
  /\ \A w \in Of({"approve"}) :
       /\ Inserted(w) => node[w] \in members \ {Known}
       /\ step[w] \in {"subscribed", "done"} => node[w] \in subs
       /\ \A v \in Of({"approve"}) :
            v # w /\ Inserted(v) /\ Inserted(w) => node[v] # node[w]

\* What w has changed is in the contents c of a copy or of the file; n is the
\* address it is about.
Kept(w, n, c) ==
  /\ Is(w, "approve") => Linked(c.downlinks, n, w)
  /\ Is(w, "remove") => ~HasLink(c.downlinks, Known)
  /\ cast[w] \in {"add page", "add menu"} => Linked(c.downlinks, Typed, w)
  /\ cast[w] \in Changes =>
       \A l \in c.downlinks : l.addr = Known => l.pw \in Of(Changes)
  /\ Is(w, "networks page") => c.page \in Of({"networks page"})
  /\ Is(w, "config page") => c.bbs \in Of({"config page"})

\* Its save has ended, and did not fail.
Settled(w) ==
  \/ step[w] \in {"authorized", "subscribed", "removed", "done"}
  \/ At(w, "saving") /\ ~Busy(w) /\ w \notin failed

\* What is being saved is in the saver's copy, and what has been saved is in
\* memory, in the file, and in every copy but those taken before.
KeptInv ==
  \A w \in Workers :
    /\ step[w] \in {"saving", "edited"} /\ Busy(w) =>
         Kept(w, node[w], Contents(mine[w]))
    /\ Settled(w) /\ w \notin lost =>
         /\ Kept(w, node[w], Contents(current))
         /\ file # Torn => Kept(w, node[w], file)
         /\ \A v \in Savers :
              Busy(v) => \/ w \in since[v]
                         \/ Kept(w, node[w], Contents(mine[v]))

\* A mapping of an area stays in the map that all copies share.
AreaInv ==
  \A w \in Of({"map", "remap"}) :
    /\ step[w] \in {"saving", "done"} => w \in areas
    /\ Settled(w) /\ file # Torn => w \in file.areas

\* Memory and file differ only while somebody saves, or after a failure.
FileInv ==
  ~down /\ failed = {} /\ (\A v \in Savers : ~Busy(v))
    => file = Contents(current)
MemberInv == HeapInv /\ StepInv /\ KeptInv /\ AreaInv /\ FileInv

\* Whoever saves other settings has a place for a copy, and a name that is
\* none of the other values where names stand.
LEMMA WorkerFacts ==
  ASSUME SaverTypes
  PROVE  /\ Workers \subseteq Savers /\ Workers \subseteq Names
         /\ \A w \in Workers : w \notin {First, "pending", "denied"}
                               /\ w \notin FirstAreas /\ w \notin Admins
BY MrcAssumption, MembershipAssumption
   DEF SaverTypes, Savers, Workers, Kinds, Others, Names

\* d has what c has, but for the password of the member that there was, and
\* what pages have written over pages.
LinksFollow(a, b) ==
  /\ \A l \in a : l.addr # Known => l \in b
  /\ \A l \in b : l.addr = Known =>
       l \in a \/ (l.pw \in Of(Changes) /\ HasLink(a, Known))
Follows(c, d) ==
  /\ LinksFollow(c.downlinks, d.downlinks)
  /\ d.page = c.page \/ d.page \in Of({"networks page"})
  /\ d.bbs = c.bbs \/ d.bbs \in Of({"config page"})

\* What is kept in c is kept in what follows from it.
LEMMA KeptFollows ==
  ASSUME NEW w \in Workers, NEW n, NEW c, NEW d, Kept(w, n, c), Follows(c, d),
         Is(w, "approve") => n # Known
  PROVE  Kept(w, n, d)
<1>1. LinksFollow(c.downlinks, d.downlinks)
  BY DEF Follows
<1>2. ASSUME NEW m, m # Known, Linked(c.downlinks, m, w)
      PROVE  Linked(d.downlinks, m, w)
  <2>1. [addr |-> m, pw |-> w].addr # Known
    BY <1>2
  <2>2. QED
    BY <1>1, <1>2, <2>1 DEF LinksFollow, Linked
<1>3. Is(w, "approve") => Linked(d.downlinks, n, w)
  BY <1>2 DEF Kept
<1>4. Is(w, "remove") => ~HasLink(d.downlinks, Known)
  BY <1>1 DEF LinksFollow, Kept, HasLink
<1>5. cast[w] \in {"add page", "add menu"} => Linked(d.downlinks, Typed, w)
  <2>1. Typed # Known
    BY DEF Typed, Known
  <2>2. QED
    BY <1>2, <2>1 DEF Kept
<1>6. cast[w] \in Changes =>
        \A l \in d.downlinks : l.addr = Known => l.pw \in Of(Changes)
  BY <1>1 DEF LinksFollow, Kept
<1>7. /\ Is(w, "networks page") => d.page \in Of({"networks page"})
      /\ Is(w, "config page") => d.bbs \in Of({"config page"})
  BY DEF Kept, Follows
<1>8. QED
  BY <1>3, <1>4, <1>5, <1>6, <1>7 DEF Kept

\* What every copy refers to follows from what it referred to before.
HeapMove ==
  \A i \in DOMAIN nets :
    /\ i \in DOMAIN nets'
    /\ LinksFollow(slices[nets[i].downlinks], slices'[nets'[i].downlinks])
    /\ nets'[i].page = nets[i].page
       \/ nets'[i].page \in Of({"networks page"})

\* v takes a copy, changes it, and perhaps what all copies share.
TakeMove(v) ==
  /\ saver' = [saver EXCEPT ![v] = "merged"]
  /\ UNCHANGED <<current, file, since, lost, failed, cast>>
  /\ \A u \in Savers \ {v} : mine'[u] = mine[u]
  /\ HeapMove /\ HeapInv'
  /\ Follows(Contents(current), Contents(mine[v])')

LEMMA FollowsItself == \A c : Follows(c, c) /\ \A a : LinksFollow(a, a)
BY DEF Follows, LinksFollow

\* Who was inserted has an address of his own, which is not the member's.
LEMMA SettledFacts ==
  ASSUME SaverTypes, StepInv, NEW w \in Workers
  PROVE  /\ Settled(w) /\ Is(w, "approve") => node[w] # Known
         /\ step[w] = "saving" /\ Is(w, "approve") => node[w] # Known
<1>1. ASSUME Is(w, "approve"), Inserted(w) PROVE node[w] # Known
  BY <1>1 DEF StepInv, Of, Is
<1>2. ASSUME Settled(w), Is(w, "approve") PROVE Inserted(w)
  BY <1>2 DEF StepInv, Settled, Inserted, Is, At
<1>3. QED
  BY <1>1, <1>2 DEF Inserted

\* What has to be shown after a step.
LEMMA KeptIntro ==
  ASSUME cast' = cast, Savers' = Savers,
         \A w \in Workers : step'[w] \in {"saving", "edited"} /\ Busy(w)' =>
           Kept(w, node'[w], Contents(mine[w])'),
         \A w \in Workers : Settled(w)' /\ w \notin lost' =>
           /\ Kept(w, node'[w], Contents(current)')
           /\ file' # Torn => Kept(w, node'[w], file')
           /\ \A u \in Savers : Busy(u)' =>
                w \in since'[u] \/ Kept(w, node'[w], Contents(mine[u])')
  PROVE  KeptInv'
<1>1. Workers' = Workers
  BY DEF Workers
<1>2. ASSUME NEW w \in Workers', step'[w] \in {"saving", "edited"}, Busy(w)'
      PROVE  Kept(w, node[w], Contents(mine[w]))'
  <2>1. Kept(w, node'[w], Contents(mine[w])')
    BY <1>1, <1>2
  <2>2. QED
    BY <2>1 DEF Kept, Of, Workers, Is, Linked, HasLink
<1>3. ASSUME NEW w \in Workers', Settled(w)', w \notin lost'
      PROVE  /\ Kept(w, node[w], Contents(current))'
             /\ (file # Torn => Kept(w, node[w], file))'
             /\ \A u \in Savers' : Busy(u)' =>
                  w \in since'[u] \/ Kept(w, node[w], Contents(mine[u]))'
  <2>1. /\ Kept(w, node'[w], Contents(current)')
        /\ file' # Torn => Kept(w, node'[w], file')
        /\ \A u \in Savers : Busy(u)' =>
             w \in since'[u] \/ Kept(w, node'[w], Contents(mine[u])')
    BY <1>1, <1>3
  <2>2. Kept(w, node[w], Contents(current))'
    BY <2>1 DEF Kept, Of, Workers, Is, Linked, HasLink
  <2>3. (file # Torn => Kept(w, node[w], file))'
    BY <2>1 DEF Kept, Of, Workers, Is, Linked, HasLink
  <2>4. ASSUME NEW u \in Savers', Busy(u)', w \notin since'[u]
        PROVE  Kept(w, node[w], Contents(mine[u]))'
    <3>1. Kept(w, node'[w], Contents(mine[u])')
      BY <2>1, <2>4
    <3>2. QED
      BY <3>1 DEF Kept, Of, Workers, Is, Linked, HasLink
  <2>5. QED
    BY <2>2, <2>3, <2>4
<1>4. QED
  BY <1>2, <1>3 DEF KeptInv

\* v takes a copy: what was kept is in the copies that follow.
LEMMA TakeKept ==
  ASSUME SaverTypes, HeapInv, StepInv, KeptInv, NEW v \in Savers, TakeMove(v),
         \A u \in Workers \ {v} : step'[u] = step[u] /\ node'[u] = node[u],
         v \in Workers =>
           /\ step'[v] \notin {"authorized", "subscribed", "removed", "done"}
           /\ step'[v] \in {"saving", "edited"} =>
                Kept(v, node'[v], Contents(mine[v])')
  PROVE  KeptInv' /\ FileInv'
<1>1. Follows(Contents(current), Contents(current)')
  BY DEF TakeMove, HeapMove, HeapInv, Copy, Follows, Contents, Net, Links
<1>2. ASSUME NEW u \in Savers \ {v}, Busy(u)
      PROVE  Follows(Contents(mine[u]), Contents(mine[u])')
  BY <1>2 DEF TakeMove, HeapMove, HeapInv, Copy, Follows, Contents, Net, Links
<1>3. /\ Savers' = Savers /\ Workers' = Workers /\ Busy(v)'
      /\ \A u \in Savers \ {v} : Busy(u)' = Busy(u)
  BY DEF TakeMove, Savers, Workers, Busy
<1>4. ASSUME NEW w \in Workers \ {v} PROVE Settled(w)' => Settled(w)
  BY <1>3, <1>4, WorkerFacts DEF Settled, At, TakeMove
<1>5. v \in Workers => ~Settled(v)'
  BY <1>3 DEF Settled, At
<1>6. ASSUME NEW w \in Workers \ {v}, Settled(w), w \notin lost
      PROVE  /\ Kept(w, node'[w], Contents(current)')
             /\ file # Torn => Kept(w, node'[w], file)
             /\ \A u \in Savers : Busy(u)' =>
                  w \in since[u] \/ Kept(w, node'[w], Contents(mine[u])')
  <2>1. /\ Kept(w, node[w], Contents(current)) /\ node'[w] = node[w]
        /\ file # Torn => Kept(w, node[w], file)
        /\ \A u \in Savers : Busy(u) =>
             w \in since[u] \/ Kept(w, node[w], Contents(mine[u]))
    BY <1>6 DEF KeptInv
  <2>2. Is(w, "approve") => node[w] # Known
    BY <1>6, SettledFacts
  <2>3. /\ Kept(w, node[w], Contents(current)')
        /\ Kept(w, node[w], Contents(mine[v])')
    BY <1>1, <2>1, <2>2, KeptFollows DEF TakeMove
  <2>4. ASSUME NEW u \in Savers \ {v}, Busy(u), w \notin since[u]
        PROVE  Kept(w, node[w], Contents(mine[u])')
    BY <1>2, <2>1, <2>2, <2>4, KeptFollows
  <2>5. QED
    BY <1>3, <2>1, <2>3, <2>4
<1>7. ASSUME NEW w \in Workers \ {v}, step[w] \in {"saving", "edited"}, Busy(w)
      PROVE  Kept(w, node'[w], Contents(mine[w])')
  <2>1. /\ Kept(w, node[w], Contents(mine[w])) /\ node'[w] = node[w]
        /\ w \in Savers
    BY <1>7, WorkerFacts DEF KeptInv
  <2>2. Is(w, "approve") => node[w] # Known
    BY <1>7, SettledFacts DEF StepInv, At, Is
  <2>3. QED
    BY <1>2, <1>7, <2>1, <2>2, KeptFollows
<1>8. ASSUME NEW w \in Workers, step'[w] \in {"saving", "edited"}, Busy(w)'
      PROVE  Kept(w, node'[w], Contents(mine[w])')
  BY <1>3, <1>7, <1>8, WorkerFacts
<1>9. ASSUME NEW w \in Workers, Settled(w)', w \notin lost
      PROVE  /\ Kept(w, node'[w], Contents(current)')
             /\ file # Torn => Kept(w, node'[w], file)
             /\ \A u \in Savers : Busy(u)' =>
                  w \in since[u] \/ Kept(w, node'[w], Contents(mine[u])')
  BY <1>4, <1>5, <1>6, <1>9
<1>10. cast' = cast /\ file' = file /\ since' = since /\ lost' = lost
  BY DEF TakeMove
<1>11. KeptInv'
  BY <1>3, <1>8, <1>9, <1>10, KeptIntro
<1>12. FileInv'
  BY <1>3 DEF FileInv
<1>13. QED
  BY <1>11, <1>12

\* Elements of a sequence, and one of them replaced.
LEMMA SeqElement ==
  ASSUME NEW T, NEW s \in Seq(T), NEW i \in DOMAIN s
  PROVE  s[i] \in T
OBVIOUS

LEMMA SeqReplace ==
  ASSUME NEW T, NEW s \in Seq(T), NEW i \in DOMAIN s, NEW x \in T
  PROVE  /\ [s EXCEPT ![i] = x] \in Seq(T)
         /\ DOMAIN [s EXCEPT ![i] = x] = DOMAIN s
         /\ [s EXCEPT ![i] = x][i] = x
         /\ \A j \in DOMAIN s : j # i => [s EXCEPT ![i] = x][j] = s[j]
OBVIOUS

\* merged := *config.Get(), and a value of the copy is changed.
LEMMA SectionMove ==
  ASSUME SaverTypes, HeapInv, NEW v \in Savers, NEW c, MergeSection(v, c),
         DOMAIN c = {"mrc", "bbs", "nets"}, c.nets = current.nets,
         c.bbs = current.bbs
           \/ (c.bbs \in Of({"config page"}) /\ c.bbs \in Names),
         cast' = cast
  PROVE  TakeMove(v)
<1>1. /\ saver' = [saver EXCEPT ![v] = "merged"]
      /\ mine' = [mine EXCEPT ![v] = c]
      /\ UNCHANGED <<current, nets, slices, areas, file, since, lost, failed,
                     down>>
  BY DEF MergeSection, Merge
<1>2. /\ mine'[v] = c /\ \A u \in Savers \ {v} : mine'[u] = mine[u]
      /\ Savers' = Savers /\ \A u \in Savers \ {v} : Busy(u)' = Busy(u)
  BY <1>1 DEF SaverTypes, Savers, Busy
<1>3. HeapMove
  BY <1>1, FollowsItself DEF HeapMove
<1>4. Copy(c)
  BY DEF Copy, HeapInv
<1>5. HeapInv'
  <2>1. \A u \in Savers : Busy(u)' => Copy(mine[u])'
    BY <1>1, <1>2, <1>4 DEF HeapInv, Copy, Names
  <2>2. QED
    BY <1>1, <1>2, <2>1 DEF HeapInv, Copy, Names, LinkSets
<1>6. Follows(Contents(current), Contents(mine[v])')
  <2>1. /\ Contents(mine[v])'.downlinks = Contents(current).downlinks
        /\ Contents(mine[v])'.page = Contents(current).page
        /\ Contents(mine[v])'.bbs = c.bbs
        /\ Contents(current).bbs = current.bbs
    <3>1. /\ mine'[v].nets = current.nets /\ mine'[v].bbs = c.bbs
          /\ nets' = nets /\ slices' = slices
      BY <1>1, <1>2
    <3>2. QED
      BY <3>1 DEF Contents, Net, Links
  <2>2. QED
    BY <2>1, FollowsItself DEF Follows
<1>7. QED
  BY <1>1, <1>2, <1>3, <1>5, <1>6 DEF TakeMove

\* A list of downlinks made anew, in an array made anew.
LEMMA LinksMove ==
  ASSUME SaverTypes, HeapInv, NEW v \in Savers, NEW list \in LinkSets,
         MergeLinks(v, list), LinksFollow(Links(current), list), cast' = cast
  PROVE  TakeMove(v) /\ Contents(mine[v])'.downlinks = list
<1> DEFINE e == [Net(current) EXCEPT !.downlinks = Len(slices) + 1]
           c == [current EXCEPT !.nets = Len(nets) + 1]
<1>1. /\ saver' = [saver EXCEPT ![v] = "merged"]
      /\ mine' = [mine EXCEPT ![v] = c]
      /\ slices' = Append(slices, list) /\ nets' = Append(nets, e)
      /\ UNCHANGED <<current, areas, file, since, lost, failed, down>>
  BY DEF MergeLinks, Merge
<1>2. /\ mine'[v] = c /\ \A u \in Savers \ {v} : mine'[u] = mine[u]
      /\ Savers' = Savers /\ \A u \in Savers \ {v} : Busy(u)' = Busy(u)
  BY <1>1 DEF SaverTypes, Savers, Busy
<1>3. /\ nets \in Seq([page : Names, downlinks : Nat])
      /\ slices \in Seq(LinkSets) /\ current.nets \in DOMAIN nets
      /\ DOMAIN current = {"mrc", "bbs", "nets"}
      /\ \A i \in DOMAIN nets : nets[i].downlinks \in DOMAIN slices
  BY DEF HeapInv, Copy
<1>4. Net(current) \in [page : Names, downlinks : Nat]
  <2>1. nets[current.nets] \in [page : Names, downlinks : Nat]
    BY <1>3, SeqElement
  <2>2. QED
    BY <2>1 DEF Net
<1>5. /\ e \in [page : Names, downlinks : Nat]
      /\ e.page = Net(current).page /\ e.downlinks = Len(slices) + 1
      /\ c.nets = Len(nets) + 1 /\ c.bbs = current.bbs
      /\ DOMAIN c = {"mrc", "bbs", "nets"}
  BY <1>3, <1>4
<1> HIDE DEF e, c
<1>6. /\ slices' \in Seq(LinkSets) /\ DOMAIN slices' = 1 .. Len(slices) + 1
      /\ slices'[Len(slices) + 1] = list
      /\ \A i \in DOMAIN slices :
           i \in DOMAIN slices' /\ slices'[i] = slices[i]
  BY <1>1, <1>3
<1>7. /\ nets' \in Seq([page : Names, downlinks : Nat])
      /\ DOMAIN nets' = 1 .. Len(nets) + 1 /\ nets'[Len(nets) + 1] = e
      /\ \A i \in DOMAIN nets : i \in DOMAIN nets' /\ nets'[i] = nets[i]
      /\ \A i \in DOMAIN nets' : i \in DOMAIN nets \/ i = Len(nets) + 1
      /\ Len(nets) + 1 \in DOMAIN nets'
      /\ Len(slices) + 1 \in 1 .. Len(slices) + 1
  BY <1>1, <1>3, <1>5
<1>8. HeapMove
  BY <1>3, <1>6, <1>7, FollowsItself DEF HeapMove
<1>9. \A i \in DOMAIN nets' : nets'[i].downlinks \in DOMAIN slices'
  BY <1>3, <1>5, <1>6, <1>7
<1>10. HeapInv'
  <2>1. Copy(current)' /\ \A u \in Savers : Busy(u)' => Copy(mine[u])'
    BY <1>1, <1>2, <1>5, <1>7 DEF HeapInv, Copy, Names
  <2>2. QED
    BY <1>1, <1>2, <1>6, <1>7, <1>9, <2>1 DEF HeapInv, Names, LinkSets
<1>11. /\ Contents(mine[v])'.downlinks = list
       /\ Contents(mine[v])'.page = Net(current).page
       /\ Contents(mine[v])'.bbs = current.bbs
  BY <1>2, <1>5, <1>6, <1>7 DEF Contents, Net, Links
<1>12. Follows(Contents(current), Contents(mine[v])')
  BY <1>11 DEF Follows, Contents
<1>13. QED
  BY <1>1, <1>2, <1>8, <1>10, <1>11, <1>12 DEF TakeMove

\* The copy is taken as it is, after what all copies share was changed.
LEMMA SharedMove ==
  ASSUME SaverTypes, HeapInv, NEW v \in Savers, Merge(v, current), HeapMove,
         nets' \in Seq([page : Names, downlinks : Nat]),
         slices' \in Seq(LinkSets), DOMAIN slices' = DOMAIN slices,
         DOMAIN nets' = DOMAIN nets,
         \A i \in DOMAIN nets : nets'[i].downlinks = nets[i].downlinks,
         cast' = cast
  PROVE  TakeMove(v) /\ mine'[v] = current
<1>1. /\ saver' = [saver EXCEPT ![v] = "merged"]
      /\ mine' = [mine EXCEPT ![v] = current]
      /\ UNCHANGED <<current, file, since, lost, failed>>
  BY DEF Merge
<1>2. /\ mine'[v] = current /\ \A u \in Savers \ {v} : mine'[u] = mine[u]
      /\ Savers' = Savers /\ \A u \in Savers \ {v} : Busy(u)' = Busy(u)
  BY <1>1 DEF SaverTypes, Savers, Busy
<1>3. HeapInv'
  <2>1. Copy(current)' /\ \A u \in Savers : Busy(u)' => Copy(mine[u])'
    BY <1>1, <1>2 DEF HeapInv, Copy, Names
  <2>2. QED
    BY <1>1, <1>2, <2>1 DEF HeapInv, Names, LinkSets
<1>4. Follows(Contents(current), Contents(mine[v])')
  BY <1>2 DEF HeapMove, HeapInv, Copy, Follows, Contents, Net, Links
<1>5. QED
  BY <1>1, <1>2, <1>3, <1>4 DEF TakeMove

\* A mapping is written where all copies see it.
LEMMA AreasMove ==
  ASSUME SaverTypes, HeapInv, NEW v \in Savers, NEW map, MergeAreas(v, map),
         cast' = cast
  PROVE  TakeMove(v)
<1>1. HeapMove
  BY FollowsItself DEF HeapMove, MergeAreas
<1>2. QED
  BY <1>1, SharedMove DEF MergeAreas, HeapInv

\* A page of the networks is written into the array in force.
LEMMA PageMove ==
  ASSUME SaverTypes, HeapInv, NEW v \in Savers, MergePage(v, v),
         v \in Of({"networks page"}), cast' = cast
  PROVE  TakeMove(v) /\ Contents(mine[v])'.page = v
<1>1. /\ nets \in Seq([page : Names, downlinks : Nat])
      /\ current.nets \in DOMAIN nets /\ v \in Names
  BY WorkerFacts DEF HeapInv, Copy, Of
<1>2. nets' = [nets EXCEPT ![current.nets].page = v] /\ slices' = slices
  BY DEF MergePage
<1>3. /\ nets' \in Seq([page : Names, downlinks : Nat])
      /\ DOMAIN nets' = DOMAIN nets /\ nets'[current.nets].page = v
      /\ \A i \in DOMAIN nets :
           /\ nets'[i].downlinks = nets[i].downlinks
           /\ nets'[i].page = nets[i].page \/ nets'[i].page = v
  <2> DEFINE T == [page : Names, downlinks : Nat]
             x == [nets[current.nets] EXCEPT !.page = v]
  <2>1. nets[current.nets] \in T
    BY <1>1, SeqElement
  <2>2. /\ x \in T /\ x.page = v /\ x.downlinks = nets[current.nets].downlinks
        /\ nets' = [nets EXCEPT ![current.nets] = x]
    BY <1>1, <1>2, <2>1
  <2> HIDE DEF x
  <2>3. /\ DOMAIN nets' = DOMAIN nets /\ nets'[current.nets] = x
        /\ \A i \in DOMAIN nets : i # current.nets => nets'[i] = nets[i]
        /\ nets' \in Seq(T)
    BY <1>1, <2>2, SeqReplace
  <2>4. QED
    BY <2>2, <2>3
<1>4. HeapMove
  BY <1>2, <1>3, FollowsItself DEF HeapMove
<1>5. TakeMove(v) /\ mine'[v] = current
  BY <1>2, <1>3, <1>4, SharedMove DEF MergePage, HeapInv
<1>6. QED
  BY <1>3, <1>5 DEF Contents, Net

\* A new password keeps the other downlinks.
LEMMA PasswordFollows ==
  ASSUME NEW list \in LinkSets, NEW v \in Names, v \in Of(Changes)
  PROVE  /\ WithPassword(list, Known, v) \in LinkSets
         /\ LinksFollow(list, WithPassword(list, Known, v))
         /\ \A l \in WithPassword(list, Known, v) : l.addr = Known => l.pw = v
<1>1. \A l \in list : l \in [addr : Nat, pw : Names]
  BY DEF LinkSets
<1>2. ASSUME NEW l \in WithPassword(list, Known, v)
      PROVE  /\ l \in [addr : Nat, pw : Names]
             /\ l.addr = Known => l.pw = v /\ HasLink(list, Known)
  <2>1. PICK k \in list :
          l = IF k.addr = Known THEN [k EXCEPT !.pw = v] ELSE k
    BY DEF WithPassword
  <2>2. QED
    BY <1>1, <2>1 DEF HasLink
<1>3. ASSUME NEW l \in list, l.addr # Known
      PROVE  l \in WithPassword(list, Known, v)
  BY <1>3 DEF WithPassword
<1>4. QED
  BY <1>2, <1>3 DEF LinkSets, LinksFollow

\* And is written into the list in force.
LEMMA PasswordMove ==
  ASSUME SaverTypes, HeapInv, NEW v \in Savers, MergePassword(v, Known, v),
         v \in Of(Changes), cast' = cast
  PROVE  /\ TakeMove(v)
         /\ \A l \in Contents(mine[v])'.downlinks : l.addr = Known => l.pw = v
<1> DEFINE k == Net(current).downlinks
<1>1. /\ slices \in Seq(LinkSets) /\ k \in DOMAIN slices /\ v \in Names
      /\ current.nets \in DOMAIN nets
  BY WorkerFacts DEF HeapInv, Copy, Of, Net
<1>2. /\ slices' = [slices EXCEPT ![k] = WithPassword(slices[k], Known, v)]
      /\ nets' = nets
  BY DEF MergePassword
<1>3. slices[k] \in LinkSets
  BY <1>1
<1>4. /\ WithPassword(slices[k], Known, v) \in LinkSets
      /\ LinksFollow(slices[k], WithPassword(slices[k], Known, v))
      /\ \A l \in WithPassword(slices[k], Known, v) :
           l.addr = Known => l.pw = v
  BY <1>1, <1>3, PasswordFollows
<1> HIDE DEF k
<1>5. /\ slices' \in Seq(LinkSets) /\ DOMAIN slices' = DOMAIN slices
      /\ \A i \in DOMAIN slices : LinksFollow(slices[i], slices'[i])
      /\ slices'[k] = WithPassword(slices[k], Known, v)
  BY <1>1, <1>2, <1>4, FollowsItself
<1>6. HeapMove
  BY <1>2, <1>5 DEF HeapMove, HeapInv
<1>7. TakeMove(v) /\ mine'[v] = current
  BY <1>2, <1>5, <1>6, SharedMove DEF MergePassword, HeapInv
<1>8. Contents(mine[v])'.downlinks = slices'[k]
  BY <1>2, <1>7 DEF Contents, Net, Links, k
<1>9. QED
  BY <1>4, <1>5, <1>7, <1>8

\* v's save goes on or ends: nothing else of the others changes.
SaveEffect(v) ==
  /\ Open(v) \/ Encode(v) \/ SaveFails(v)
  /\ UNCHANGED joining /\ (v \in Workers => Saving(v))

\* The names of what changes when a save goes on.
LEMMA SaveFacts ==
  ASSUME SaverTypes, HeapInv, NEW v \in Savers, SaveEffect(v)
  PROVE  /\ Busy(v) /\ Savers' = Savers /\ Workers' = Workers
         /\ \A u \in Savers \ {v} : Busy(u)' = Busy(u) /\ mine'[u] = mine[u]
         /\ UNCHANGED <<nets, slices, areas, down, cast, step, node, members,
                        subs, joinRequests>>
<1>1. Savers' = Savers /\ Busy(v)
  BY DEF SaveEffect, Open, Encode, SaveFails, Savers, Busy, SaverTypes
<1>2. \A u \in Savers \ {v} : Busy(u)' = Busy(u) /\ mine'[u] = mine[u]
  BY DEF SaveEffect, Open, Encode, SaveFails, Savers, Busy, SaverTypes
<1>3. UNCHANGED <<nets, slices, areas, down, cast, step, node, members, subs,
                  joinRequests>>
  BY DEF SaveEffect, Open, Encode, SaveFails, joining, decided
<1>4. QED
  BY <1>1, <1>2, <1>3 DEF Workers

\* The file is emptied: nobody's copy changes.
LEMMA OpenKeeps ==
  ASSUME SaverTypes, MemberInv, NEW v \in Savers, SaveEffect(v), Open(v)
  PROVE  HeapInv' /\ KeptInv' /\ AreaInv' /\ FileInv'
<1>1. /\ file' = Torn /\ mine' = mine /\ current' = current /\ since' = since
      /\ lost' = lost /\ failed' = failed /\ Busy(v)'
  BY DEF Open, SaverTypes, Savers, Busy
<1>2. /\ Savers' = Savers /\ \A u \in Savers : Busy(u)' <=> Busy(u)
      /\ Workers' = Workers
      /\ UNCHANGED <<nets, slices, areas, cast, step, node>>
  <2>1. \A u \in Savers \ {v} : Busy(u)' = Busy(u)
    BY SaveFacts DEF MemberInv
  <2>2. QED
    BY <1>1, <2>1, SaveFacts DEF MemberInv
<1>3. HeapInv'
  BY <1>1, <1>2 DEF MemberInv, HeapInv, Copy, Names, LinkSets
<1>4. \A w \in Workers : Settled(w)' => Settled(w)
  BY <1>1, <1>2, WorkerFacts DEF Settled, At
<1>5. KeptInv'
  <2>1. /\ Contents(current)' = Contents(current)
        /\ \A u \in Savers : Contents(mine[u])' = Contents(mine[u])
    BY <1>1, <1>2 DEF Contents, Net, Links
  <2>2. QED
    BY <1>1, <1>2, <1>4, <2>1, WorkerFacts, KeptIntro DEF MemberInv, KeptInv
<1>6. AreaInv'
  BY <1>1, <1>2, <1>4 DEF MemberInv, AreaInv, Of
<1>7. FileInv'
  BY <1>1, <1>2 DEF FileInv
<1>8. QED
  BY <1>3, <1>5, <1>6, <1>7

\* A save fails: what is in memory and in the file stays.
LEMMA FailKeeps ==
  ASSUME SaverTypes, MemberInv, NEW v \in Savers, SaveEffect(v), SaveFails(v)
  PROVE  HeapInv' /\ KeptInv' /\ AreaInv' /\ FileInv'
<1>1. /\ file' = file /\ current' = current /\ lost' = lost
      /\ failed' = failed \cup {v} /\ ~Busy(v)'
      /\ DOMAIN since' = DOMAIN since
      /\ \A u \in Savers \ {v} : since'[u] = since[u]
  BY DEF SaveFails, SaverTypes, Savers, Busy
<1>2. /\ Savers' = Savers /\ Workers' = Workers
      /\ \A u \in Savers \ {v} : Busy(u)' = Busy(u) /\ mine'[u] = mine[u]
      /\ UNCHANGED <<nets, slices, areas, cast, step, node>>
  BY SaveFacts DEF MemberInv
<1>3. HeapInv'
  <2>1. \A u \in Savers : Busy(u)' => Copy(mine[u])'
    BY <1>1, <1>2 DEF MemberInv, HeapInv, Copy, Names
  <2>2. QED
    BY <1>1, <1>2, <2>1 DEF MemberInv, HeapInv, Copy, Names, LinkSets
<1>4. \A w \in Workers : Settled(w)' => Settled(w)
  <2>1. \A w \in Workers \ {v} : Settled(w)' => Settled(w)
    BY <1>1, <1>2, WorkerFacts DEF Settled, At
  <2>2. v \in Workers => ~Settled(v)'
    BY <1>1, <1>2 DEF Settled, At, SaveEffect, Saving
  <2>3. QED
    BY <2>1, <2>2
<1>5. KeptInv'
  <2>1. /\ Contents(current)' = Contents(current)
        /\ \A u \in Savers \ {v} : Contents(mine[u])' = Contents(mine[u])
    BY <1>1, <1>2 DEF Contents, Net, Links
  <2>2. QED
    BY <1>1, <1>2, <1>4, <2>1, WorkerFacts, KeptIntro DEF MemberInv, KeptInv
<1>6. AreaInv'
  BY <1>1, <1>2, <1>4 DEF MemberInv, AreaInv, Of
<1>7. FileInv'
  BY <1>1 DEF FileInv
<1>8. QED
  BY <1>3, <1>5, <1>6, <1>7

\* The copy is in the file and in force, and those who took theirs before
\* will overwrite it.
LEMMA EncodeKeeps ==
  ASSUME SaverTypes, MemberInv, NEW v \in Savers, SaveEffect(v), Encode(v)
  PROVE  HeapInv' /\ KeptInv' /\ AreaInv' /\ FileInv'
<1>1. /\ file' = Contents(mine[v]) /\ current' = mine[v]
      /\ lost' = lost \cup since[v] /\ failed' = failed /\ ~Busy(v)'
      /\ DOMAIN since' = Savers
      /\ \A u \in Savers \ {v} : Busy(u) => since'[u] = since[u] \cup {v}
  BY DEF Encode, SaverTypes, Savers, Busy
<1>2. /\ Savers' = Savers /\ Workers' = Workers /\ Busy(v)
      /\ \A u \in Savers \ {v} : Busy(u)' = Busy(u) /\ mine'[u] = mine[u]
      /\ UNCHANGED <<nets, slices, areas, cast, step, node>>
  BY SaveFacts DEF MemberInv
<1>3. HeapInv'
  <2>1. Copy(mine[v])
    BY <1>2 DEF MemberInv, HeapInv
  <2>2. Copy(current)' /\ \A u \in Savers : Busy(u)' => Copy(mine[u])'
    BY <1>1, <1>2, <2>1 DEF MemberInv, HeapInv, Copy, Names
  <2>3. /\ file'.bbs \in Names /\ file'.page \in Names
        /\ file'.downlinks \in LinkSets
    <3>1. nets[mine[v].nets] \in [page : Names, downlinks : Nat]
      BY <2>1, SeqElement DEF MemberInv, HeapInv, Copy
    <3>2. slices[nets[mine[v].nets].downlinks] \in LinkSets
      BY <2>1, SeqElement DEF MemberInv, HeapInv, Copy
    <3>3. QED
      BY <1>1, <2>1, <3>1, <3>2 DEF Contents, Net, Links, Copy
  <2>4. file' = [mrc |-> file'.mrc, bbs |-> file'.bbs, page |-> file'.page,
                 downlinks |-> file'.downlinks, areas |-> file'.areas]
    BY <1>1 DEF Contents
  <2>5. QED
    BY <1>1, <1>2, <2>2, <2>3, <2>4 DEF MemberInv, HeapInv, Names, LinkSets
<1>4. \A w \in Workers \ {v} : Settled(w)' => Settled(w)
  BY <1>1, <1>2, WorkerFacts DEF Settled, At
<1>5. ASSUME NEW w \in Workers, Settled(w)', w \notin lost'
      PROVE  /\ Kept(w, node[w], Contents(mine[v]))
             /\ \A u \in Savers \ {v} : Busy(u) =>
                  w \in since'[u] \/ Kept(w, node[w], Contents(mine[u]))
  <2>1. CASE w = v
    <3>1. step[w] = "saving"
      BY <1>2, <1>5, <2>1 DEF Settled, SaveEffect, Saving, At
    <3>2. QED
      BY <1>1, <1>2, <2>1, <3>1 DEF MemberInv, KeptInv
  <2>2. CASE w # v
    BY <1>1, <1>2, <1>4, <1>5, <2>2 DEF MemberInv, KeptInv
  <2>3. QED
    BY <2>1, <2>2
<1>6. KeptInv'
  <2>1. /\ Contents(current)' = Contents(mine[v])
        /\ \A u \in Savers \ {v} : Contents(mine[u])' = Contents(mine[u])
    BY <1>1, <1>2 DEF Contents, Net, Links
  <2>2. QED
    BY <1>1, <1>2, <1>5, <2>1, WorkerFacts, KeptIntro DEF MemberInv, KeptInv
<1>7. AreaInv'
  <2>1. file'.areas = areas
    BY <1>1 DEF Contents
  <2>2. ASSUME NEW w \in Of({"map", "remap"})
        PROVE  Settled(w)' => step[w] \in {"saving", "done"}
    BY <1>2, <2>2 DEF Settled, At, MemberInv, StepInv, Of, Is
  <2>3. QED
    BY <1>2, <2>1, <2>2 DEF MemberInv, AreaInv, Of
<1>8. FileInv'
  <2>1. Contents(current)' = Contents(mine[v])
    BY <1>1, <1>2 DEF Contents, Net, Links
  <2>2. QED
    BY <1>1, <2>1 DEF FileInv
<1>9. QED
  BY <1>3, <1>6, <1>7, <1>8

\* The program starts again from the file, with what was kept there.
LEMMA ReloadKeeps ==
  ASSUME SaverTypes, MemberInv, JoinRestart
  PROVE  HeapInv' /\ KeptInv' /\ AreaInv' /\ FileInv'
<1>1. /\ Savers' = Savers /\ \A u \in Savers : ~Busy(u)'
      /\ DOMAIN since' = Savers /\ UNCHANGED <<file, lost, cast, node>>
      /\ down' = (file = Torn)
  BY DEF JoinRestart, Reload, Savers, Busy
<1>2. /\ Workers' = Workers
      /\ \A w \in Workers : step'[w] = IF step[w] \in {"new", "done"}
                                       THEN step[w] ELSE "refused"
  BY <1>1 DEF JoinRestart, Workers
<1>3. \A w \in Workers : Settled(w)' => Settled(w)
  BY <1>2 DEF Settled, At
<1>4. CASE file = Torn
  <2>1. UNCHANGED <<current, nets, slices, areas>>
    BY <1>4 DEF JoinRestart, Reload
  <2>2. HeapInv'
    BY <1>1, <2>1 DEF MemberInv, HeapInv, Copy, Names, LinkSets
  <2>3. Contents(current)' = Contents(current)
    BY <2>1 DEF Contents, Net, Links
  <2>4. KeptInv'
    BY <1>1, <1>2, <1>3, <1>4, <2>3, WorkerFacts, KeptIntro
       DEF MemberInv, KeptInv
  <2>5. AreaInv'
    BY <1>1, <1>2, <1>4, <2>1 DEF MemberInv, AreaInv, Of
  <2>6. QED
    BY <1>1, <1>4, <2>2, <2>4, <2>5 DEF FileInv
<1>5. CASE file # Torn
  <2>1. /\ current' = [mrc |-> file.mrc, bbs |-> file.bbs, nets |-> 1]
        /\ nets' = <<[page |-> file.page, downlinks |-> 1]>>
        /\ slices' = <<file.downlinks>> /\ areas' = file.areas
    BY <1>5 DEF JoinRestart, Reload
  <2>2. /\ file = [mrc |-> file.mrc, bbs |-> file.bbs, page |-> file.page,
                   downlinks |-> file.downlinks, areas |-> file.areas]
        /\ file.bbs \in Names /\ file.page \in Names
        /\ file.downlinks \in LinkSets
    BY <1>5 DEF MemberInv, HeapInv
  <2>3. Contents(current)' = file
    BY <2>1, <2>2 DEF Contents, Net, Links
  <2>4. HeapInv'
    <3>1. Copy(current)'
      BY <1>1, <2>1, <2>2 DEF Copy, Names
    <3>2. /\ nets' \in Seq([page : Names, downlinks : Nat])
          /\ slices' \in Seq(LinkSets) /\ DOMAIN slices' = {1}
          /\ \A i \in DOMAIN nets' : nets'[i].downlinks = 1
      BY <2>1, <2>2
    <3>3. QED
      BY <1>1, <2>2, <3>1, <3>2 DEF HeapInv, Names, LinkSets
  <2>5. KeptInv'
    BY <1>1, <1>2, <1>3, <1>5, <2>3, WorkerFacts, KeptIntro
       DEF MemberInv, KeptInv
  <2>6. AreaInv'
    <3>1. \A w \in Workers : step'[w] \in {"saving", "done"} => Settled(w)
      BY <1>2 DEF Settled
    <3>2. QED
      BY <1>1, <1>2, <1>3, <1>5, <2>1, <3>1 DEF MemberInv, AreaInv, Of
  <2>7. QED
    BY <1>1, <2>3, <2>4, <2>5, <2>6 DEF FileInv
<1>6. QED
  BY <1>4, <1>5

\* A step that leaves all settings alone: who is done was before, or has
\* nothing to keep.
LEMMA PlainKeeps ==
  ASSUME SaverTypes, MemberInv, UNCHANGED store, cast' = cast,
         \A w \in Workers : Settled(w)' =>
           Is(w, "deny") \/ (Settled(w) /\ node'[w] = node[w]),
         \A w \in Workers : step'[w] \in {"saving", "edited"} =>
           step'[w] = step[w] /\ node'[w] = node[w]
  PROVE  HeapInv' /\ KeptInv' /\ AreaInv' /\ FileInv'
<1>1. UNCHANGED <<current, nets, slices, areas, file, saver, mine, since,
                  lost, failed, down>>
  BY DEF store
<1>2. /\ Savers' = Savers /\ \A u \in Savers : Busy(u)' = Busy(u)
      /\ Workers' = Workers
  BY <1>1 DEF Savers, Busy, Workers
<1>3. /\ Contents(current)' = Contents(current)
      /\ \A u \in Savers : Contents(mine[u])' = Contents(mine[u])
  BY <1>1 DEF Contents, Net, Links
<1>4. HeapInv'
  BY <1>1, <1>2 DEF MemberInv, HeapInv, Copy, Names, LinkSets
<1>5. KeptInv'
  <2>1. ASSUME NEW w \in Workers, Is(w, "deny"), NEW n, NEW c
        PROVE  Kept(w, n, c)
    BY <2>1 DEF Kept, Is, Changes
  <2>2. ASSUME NEW w \in Workers, step'[w] \in {"saving", "edited"}, Busy(w)'
        PROVE  Kept(w, node'[w], Contents(mine[w])')
    BY <1>2, <1>3, <2>2, WorkerFacts DEF MemberInv, KeptInv
  <2>3. ASSUME NEW w \in Workers, Settled(w)', w \notin lost'
        PROVE  /\ Kept(w, node'[w], Contents(current)')
               /\ file' # Torn => Kept(w, node'[w], file')
               /\ \A u \in Savers : Busy(u)' =>
                    w \in since'[u] \/ Kept(w, node'[w], Contents(mine[u])')
    <3>1. CASE Is(w, "deny")
      BY <2>1, <3>1
    <3>2. CASE Settled(w) /\ node'[w] = node[w]
      BY <1>1, <1>2, <1>3, <2>3, <3>2 DEF MemberInv, KeptInv
    <3>3. QED
      BY <2>3, <3>1, <3>2
  <2>4. QED
    BY <1>2, <2>2, <2>3, KeptIntro
<1>6. AreaInv'
  <2>1. ASSUME NEW w \in Of({"map", "remap"})
        PROVE  /\ step'[w] \in {"saving", "done"} =>
                    step[w] \in {"saving", "done"}
               /\ Settled(w)' => Settled(w)
    <3>1. w \in Workers /\ ~Is(w, "deny")
      BY <2>1 DEF Of, Is
    <3>2. Settled(w) => step[w] \in {"saving", "done"}
      BY <2>1 DEF Settled, At, MemberInv, StepInv, Of, Is
    <3>3. step'[w] = "done" => Settled(w)'
      BY DEF Settled
    <3>4. QED
      BY <3>1, <3>2, <3>3
  <2>2. QED
    BY <1>1, <1>2, <2>1 DEF MemberInv, AreaInv, Of
<1>7. FileInv'
  BY <1>1, <1>2, <1>3 DEF MemberInv, FileInv
<1>8. QED
  BY <1>4, <1>5, <1>6, <1>7

\* A copy is taken: no mapping of an area that was saved is taken back.
LEMMA TakeAreas ==
  ASSUME SaverTypes, MemberInv, NEW v \in Savers, TakeMove(v),
         \A u \in Workers \ {v} : step'[u] = step[u] /\ node'[u] = node[u],
         v \in Of({"map", "remap"}) =>
           /\ step'[v] \notin {"authorized", "subscribed", "removed", "done"}
           /\ step'[v] = "saving" => v \in areas',
         \A u \in Of({"map", "remap"}) \ {v} : u \in areas => u \in areas'
  PROVE  AreaInv'
<1>1. /\ Savers' = Savers /\ Workers' = Workers /\ Busy(v)'
      /\ \A u \in Savers \ {v} : Busy(u)' = Busy(u)
      /\ cast' = cast /\ file' = file /\ failed' = failed
  BY DEF TakeMove, Savers, Workers, Busy
<1>2. ASSUME NEW w \in Of({"map", "remap"})
      PROVE  /\ step'[w] \in {"saving", "done"} => w \in areas'
             /\ Settled(w)' /\ file # Torn => w \in file.areas
  <2>1. CASE w = v
    BY <1>1, <1>2, <2>1 DEF Settled, At, Of
  <2>2. CASE w # v
    BY <1>1, <1>2, <2>2, WorkerFacts DEF Settled, At, Of, MemberInv, AreaInv
  <2>3. QED
    BY <2>1, <2>2
<1>3. QED
  BY <1>1, <1>2 DEF AreaInv, Of

\* The networks page saves its networks and what is in force of the rest.
LEMMA EditedKeeps ==
  ASSUME SaverTypes, MemberInv, NEW v \in Workers, EditedNetwork(v)
  PROVE  HeapInv' /\ KeptInv' /\ AreaInv' /\ FileInv'
<1> DEFINE c == [current EXCEPT !.nets = mine[v].nets]
<1>1. /\ UNCHANGED <<current, nets, slices, areas, file, saver, since, lost,
                     failed, down, cast, node>>
      /\ At(v, "edited") /\ step' = [step EXCEPT ![v] = "saving"]
      /\ mine' = [mine EXCEPT ![v] = c]
  BY DEF EditedNetwork, Go
<1>2. /\ v \in Savers /\ Busy(v) /\ Is(v, "networks page")
      /\ Copy(mine[v]) /\ Copy(current)
  BY <1>1, WorkerFacts DEF MemberInv, StepInv, HeapInv
<1>3. /\ Savers' = Savers /\ Workers' = Workers
      /\ \A u \in Savers : Busy(u)' = Busy(u)
      /\ mine'[v] = c /\ \A u \in Savers \ {v} : mine'[u] = mine[u]
      /\ step'[v] = "saving"
      /\ \A u \in Workers \ {v} : step'[u] = step[u]
  BY <1>1, <1>2 DEF Savers, Workers, Busy, SaverTypes, MemberInv, StepInv
<1>4. /\ c.nets = mine[v].nets /\ c.bbs = current.bbs
      /\ DOMAIN c = {"mrc", "bbs", "nets"}
  BY <1>2 DEF Copy
<1> HIDE DEF c
<1>5. /\ Contents(current)' = Contents(current)
      /\ \A u \in Savers \ {v} : Contents(mine[u])' = Contents(mine[u])
      /\ Contents(mine[v])'.downlinks = Contents(mine[v]).downlinks
      /\ Contents(mine[v])'.page = Contents(mine[v]).page
      /\ Contents(mine[v])'.bbs = Contents(current).bbs
  BY <1>1, <1>3, <1>4 DEF Contents, Net, Links
<1>6. HeapInv'
  <2>1. Names' = Names
    BY <1>1 DEF Names
  <2>2. Copy(mine[v])'
    <3>1. /\ c.bbs \in Names /\ c.nets \in DOMAIN nets
          /\ DOMAIN c = {"mrc", "bbs", "nets"} /\ mine'[v] = c
      BY <1>2, <1>3, <1>4 DEF Copy
    <3>2. nets' = nets
      BY <1>1
    <3>3. QED
      BY <2>1, <3>1, <3>2 DEF Copy
  <2>3. Copy(current)' /\ \A u \in Savers : Busy(u)' => Copy(mine[u])'
    <3>1. nets' = nets /\ current' = current
      BY <1>1
    <3>2. \A u \in Savers \ {v} : Busy(u) => Copy(mine[u])
      BY DEF MemberInv, HeapInv
    <3>3. QED
      BY <1>2, <1>3, <2>1, <2>2, <3>1, <3>2 DEF Copy
  <2>4. QED
    BY <1>1, <1>3, <2>3 DEF MemberInv, HeapInv, Names, LinkSets
<1>7. \A w \in Workers : Settled(w)' => Settled(w) /\ w # v
  BY <1>1, <1>2, <1>3, WorkerFacts DEF Settled, At
<1>8. ASSUME NEW w \in Workers, NEW n, Kept(w, n, Contents(mine[v])),
             Is(w, "config page") => Kept(w, n, Contents(current))
      PROVE  Kept(w, n, Contents(mine[v])')
  BY <1>5, <1>8 DEF Kept
<1>9. ASSUME NEW w \in Workers, step'[w] \in {"saving", "edited"}, Busy(w)'
      PROVE  Kept(w, node'[w], Contents(mine[w])')
  <2>1. step[w] \in {"saving", "edited"} /\ Busy(w) /\ w \in Savers
    BY <1>1, <1>3, <1>9, WorkerFacts DEF At
  <2>2. Kept(w, node[w], Contents(mine[w])) /\ node'[w] = node[w]
    BY <1>1, <2>1 DEF MemberInv, KeptInv
  <2>3. CASE w = v
    BY <1>2, <1>8, <2>2, <2>3 DEF Is
  <2>4. CASE w # v
    BY <1>5, <2>1, <2>2, <2>4
  <2>5. QED
    BY <2>3, <2>4
<1>10. ASSUME NEW w \in Workers, Settled(w)', w \notin lost'
       PROVE  /\ Kept(w, node'[w], Contents(current)')
              /\ file' # Torn => Kept(w, node'[w], file')
              /\ \A u \in Savers : Busy(u)' =>
                   w \in since'[u] \/ Kept(w, node'[w], Contents(mine[u])')
  <2>1. /\ Kept(w, node[w], Contents(current)) /\ node'[w] = node[w]
        /\ file # Torn => Kept(w, node[w], file)
        /\ \A u \in Savers : Busy(u) =>
             w \in since[u] \/ Kept(w, node[w], Contents(mine[u]))
    BY <1>1, <1>7, <1>10 DEF MemberInv, KeptInv
  <2>2. Busy(v) => w \in since[v] \/ Kept(w, node[w], Contents(mine[v])')
    BY <1>2, <1>8, <2>1
  <2>3. QED
    BY <1>1, <1>3, <1>5, <2>1, <2>2
<1>11. KeptInv'
  BY <1>1, <1>3, <1>9, <1>10, KeptIntro
<1>12. AreaInv'
  BY <1>1, <1>2, <1>3, <1>7 DEF MemberInv, AreaInv, Of, Is
<1>13. FileInv'
  BY <1>1, <1>3, <1>5 DEF MemberInv, FileInv
<1>14. QED
  BY <1>6, <1>11, <1>12, <1>13

\* v takes a copy, and what was saved stays where it is.
LEMMA TakeKeeps ==
  ASSUME SaverTypes, MemberInv, NEW v \in Savers, TakeMove(v),
         \A u \in Workers \ {v} : step'[u] = step[u] /\ node'[u] = node[u],
         v \in Workers =>
           /\ step'[v] \notin {"authorized", "subscribed", "removed", "done"}
           /\ step'[v] \in {"saving", "edited"} =>
                Kept(v, node'[v], Contents(mine[v])')
           /\ cast[v] \in {"map", "remap"} /\ step'[v] = "saving" =>
                v \in areas',
         \A u \in Of({"map", "remap"}) \ {v} : u \in areas => u \in areas'
  PROVE  HeapInv' /\ KeptInv' /\ AreaInv' /\ FileInv'
<1>1. HeapInv'
  BY DEF TakeMove
<1>2. KeptInv' /\ FileInv'
  BY TakeKept DEF MemberInv
<1>3. AreaInv'
  BY TakeAreas DEF Of
<1>4. QED
  BY <1>1, <1>2, <1>3

\* How far one is changes for this one alone.
LEMMA GoAlone ==
  ASSUME MemberInv, NEW w \in Workers, NEW label, Go(w, label)
  PROVE  /\ step'[w] = label
         /\ \A u \in Workers \ {w} : step'[u] = step[u]
BY DEF MemberInv, StepInv, Go

\* The downlinks in force.
LEMMA ListInForce ==
  ASSUME HeapInv PROVE Links(current) \in LinkSets
<1>1. /\ nets \in Seq([page : Names, downlinks : Nat])
      /\ slices \in Seq(LinkSets) /\ current.nets \in DOMAIN nets
      /\ nets[current.nets].downlinks \in DOMAIN slices
  BY DEF HeapInv, Copy
<1>2. QED
  BY <1>1, SeqElement DEF Links, Net

\* A downlink more, which is not the member there was.
LEMMA LinkAdded ==
  ASSUME NEW list \in LinkSets, NEW n \in Nat, n # Known, NEW v \in Names,
         NEW more, more = list \cup {[addr |-> n, pw |-> v]}
  PROVE  more \in LinkSets /\ LinksFollow(list, more) /\ Linked(more, n, v)
<1>1. [addr |-> n, pw |-> v] \in [addr : Nat, pw : Names]
  OBVIOUS
<1>2. [addr |-> n, pw |-> v].addr # Known
  OBVIOUS
<1>3. QED
  BY <1>1, <1>2 DEF LinkSets, LinksFollow, Linked

\* One less, which is that one.
LEMMA LinkRemoved ==
  ASSUME NEW list \in LinkSets, NEW less, less = Without(list, Known)
  PROVE  /\ less \in LinkSets /\ LinksFollow(list, less)
         /\ ~HasLink(less, Known)
BY DEF LinkSets, LinksFollow, Without, HasLink

LEMMA AuthorizeKeeps ==
  ASSUME SaverTypes, MemberInv, NEW w \in Workers, Authorize(w)
  PROVE  HeapInv' /\ KeptInv' /\ AreaInv' /\ FileInv'
<1> DEFINE list == Links(current) \cup {[addr |-> node[w], pw |-> w]}
<1>1. /\ At(w, "member") /\ Go(w, "saving") /\ MergeLinks(w, list)
      /\ UNCHANGED <<cast, node>> /\ w \in Savers /\ w \in Names
  BY WorkerFacts DEF Authorize
<1>2. Is(w, "approve") /\ node[w] \in Nat /\ node[w] # Known
  BY <1>1 DEF MemberInv, StepInv, At, Is, Of, Inserted
<1>3. /\ list \in LinkSets /\ LinksFollow(Links(current), list)
      /\ Linked(list, node[w], w)
  BY <1>1, <1>2, ListInForce, LinkAdded DEF MemberInv
<1> HIDE DEF list
<1>4. TakeMove(w) /\ Contents(mine[w])'.downlinks = list
  BY <1>1, <1>3, LinksMove DEF MemberInv
<1>5. Kept(w, node[w], Contents(mine[w])')
  BY <1>2, <1>3, <1>4 DEF Kept, Is, Changes
<1>6. areas' = areas
  BY <1>1 DEF MergeLinks
<1>7. QED
  BY <1>1, <1>2, <1>4, <1>5, <1>6, GoAlone, TakeKeeps DEF Is

LEMMA AddKeeps ==
  ASSUME SaverTypes, MemberInv, NEW w \in Workers, Add(w)
  PROVE  HeapInv' /\ KeptInv' /\ AreaInv' /\ FileInv'
<1> DEFINE list == Links(current) \cup {[addr |-> Typed, pw |-> w]}
<1>1. /\ Is(w, "add menu") \/ At(w, "looked up")
      /\ Go(w, "saving") /\ MergeLinks(w, list)
      /\ UNCHANGED <<cast, node>> /\ w \in Savers /\ w \in Names
  BY WorkerFacts DEF Add
<1>2. cast[w] \in {"add page", "add menu"} /\ Typed \in Nat /\ Typed # Known
  <2>1. At(w, "looked up") => Is(w, "add page")
    BY DEF MemberInv, StepInv
  <2>2. Typed \in Nat /\ Typed # Known
    BY DEF Typed, Known
  <2>3. Is(w, "add menu") \/ Is(w, "add page")
    BY <1>1, <2>1
  <2>4. QED
    BY <2>2, <2>3 DEF Is
<1>3. /\ list \in LinkSets /\ LinksFollow(Links(current), list)
      /\ Linked(list, Typed, w)
  BY <1>1, <1>2, ListInForce, LinkAdded DEF MemberInv
<1> HIDE DEF list
<1>4. TakeMove(w) /\ Contents(mine[w])'.downlinks = list
  BY <1>1, <1>3, LinksMove DEF MemberInv
<1>5. Kept(w, node[w], Contents(mine[w])')
  BY <1>2, <1>3, <1>4 DEF Kept, Is, Changes
<1>6. areas' = areas /\ cast[w] \notin {"map", "remap"}
  BY <1>1, <1>2 DEF MergeLinks
<1>7. /\ step'[w] = "saving"
      /\ \A u \in Workers \ {w} : step'[u] = step[u]
  BY <1>1, GoAlone
<1>8. QED
  BY <1>1, <1>4, <1>5, <1>6, <1>7, TakeKeeps

LEMMA RemoveKeeps ==
  ASSUME SaverTypes, MemberInv, NEW w \in Workers, Remove(w)
  PROVE  HeapInv' /\ KeptInv' /\ AreaInv' /\ FileInv'
<1> DEFINE list == Without(Links(current), Known)
<1>1. /\ Is(w, "remove") /\ Go(w, "saving") /\ MergeLinks(w, list)
      /\ cast' = cast /\ w \in Savers
      /\ \A u \in Workers \ {w} : node'[u] = node[u]
  BY WorkerFacts DEF Remove, MemberInv, StepInv
<1>2. /\ list \in LinkSets /\ LinksFollow(Links(current), list)
      /\ ~HasLink(list, Known)
  BY <1>1, ListInForce, LinkRemoved DEF MemberInv
<1> HIDE DEF list
<1>3. TakeMove(w) /\ Contents(mine[w])'.downlinks = list
  BY <1>1, <1>2, LinksMove DEF MemberInv
<1>4. Kept(w, node'[w], Contents(mine[w])')
  BY <1>1, <1>2, <1>3 DEF Kept, Is, Changes
<1>5. areas' = areas
  BY <1>1 DEF MergeLinks
<1>6. QED
  BY <1>1, <1>3, <1>4, <1>5, GoAlone, TakeKeeps DEF Is

LEMMA ChangeKeeps ==
  ASSUME SaverTypes, MemberInv, NEW w \in Workers, Change(w)
  PROVE  HeapInv' /\ KeptInv' /\ AreaInv' /\ FileInv'
<1> DEFINE list == WithPassword(Links(current), Known, w)
<1>1. /\ Is(w, "change") /\ Go(w, "saving") /\ MergeLinks(w, list)
      /\ UNCHANGED <<cast, node>> /\ w \in Savers /\ w \in Names
      /\ w \in Of(Changes)
  BY WorkerFacts DEF Change, Of, Changes, Is
<1>2. /\ list \in LinkSets /\ LinksFollow(Links(current), list)
      /\ \A l \in list : l.addr = Known => l.pw = w
  BY <1>1, ListInForce, PasswordFollows DEF MemberInv
<1> HIDE DEF list
<1>3. TakeMove(w) /\ Contents(mine[w])'.downlinks = list
  BY <1>1, <1>2, LinksMove DEF MemberInv
<1>4. Kept(w, node[w], Contents(mine[w])')
  BY <1>1, <1>2, <1>3 DEF Kept, Is
<1>5. areas' = areas
  BY <1>1 DEF MergeLinks
<1>6. QED
  BY <1>1, <1>3, <1>4, <1>5, GoAlone, TakeKeeps DEF Is

LEMMA NewPasswordKeeps ==
  ASSUME SaverTypes, MemberInv, NEW w \in Workers, NewPassword(w)
  PROVE  HeapInv' /\ KeptInv' /\ AreaInv' /\ FileInv'
<1>1. /\ Is(w, "passwd") /\ UNCHANGED <<cast, node>> /\ w \in Savers
      /\ w \in Of(Changes)
  BY WorkerFacts DEF NewPassword, Of, Changes, Is
<1>2. CASE MergePassword(w, Known, w) /\ Go(w, "saving")
  <2>1. /\ TakeMove(w)
        /\ \A l \in Contents(mine[w])'.downlinks : l.addr = Known => l.pw = w
    BY <1>1, <1>2, PasswordMove DEF MemberInv
  <2>2. Kept(w, node[w], Contents(mine[w])')
    BY <1>1, <2>1 DEF Kept, Is
  <2>3. areas' = areas
    BY <1>2 DEF MergePassword
  <2>4. QED
    BY <1>1, <1>2, <2>1, <2>2, <2>3, GoAlone, TakeKeeps DEF Is
<1>3. CASE Go(w, "refused") /\ UNCHANGED settings
  <2>1. /\ step'[w] = "refused"
        /\ \A u \in Workers \ {w} : step'[u] = step[u]
        /\ UNCHANGED store
    BY <1>3, GoAlone DEF settings
  <2>2. \A u \in Workers : Settled(u)' => Settled(u)
    BY <2>1 DEF Settled, At, store, Busy
  <2>3. QED
    BY <1>1, <2>1, <2>2, PlainKeeps
<1>4. QED
  BY <1>2, <1>3 DEF NewPassword

LEMMA AreasKeep ==
  ASSUME SaverTypes, MemberInv, NEW w \in Workers, MapArea(w) \/ UnmapArea(w)
  PROVE  HeapInv' /\ KeptInv' /\ AreaInv' /\ FileInv'
<1>1. /\ cast[w] \in {"map", "remap"}
      /\ UNCHANGED <<cast, node>> /\ w \in Savers
  BY WorkerFacts DEF MapArea, UnmapArea, MemberInv, StepInv, Is, At
<1>2. /\ TakeMove(w)
      /\ \/ areas' = areas \cup {w} /\ Go(w, "saving")
         \/ areas' = areas \ FirstAreas /\ Go(w, "unmapping")
  BY <1>1, AreasMove DEF MapArea, UnmapArea, MergeAreas, MemberInv
<1>3. \A u \in Of({"map", "remap"}) : u \notin FirstAreas
  BY WorkerFacts DEF Of
<1>4. Kept(w, node[w], Contents(mine[w])')
  BY <1>1 DEF Kept, Is, Changes
<1>5. /\ step'[w] \in {"saving", "unmapping"}
      /\ step'[w] = "saving" => w \in areas'
      /\ \A u \in Workers \ {w} : step'[u] = step[u]
      /\ \A u \in Of({"map", "remap"}) : u \in areas => u \in areas'
  BY <1>2, <1>3, GoAlone
<1>6. QED
  BY <1>1, <1>2, <1>4, <1>5, TakeKeeps

LEMMA EditsKeep ==
  ASSUME SaverTypes, MemberInv, NEW w \in Workers, EditNetwork(w) \/ EditBBS(w)
  PROVE  HeapInv' /\ KeptInv' /\ AreaInv' /\ FileInv'
<1>1. w \in Savers /\ w \in Names /\ UNCHANGED <<cast, node>>
  BY WorkerFacts DEF EditNetwork, EditBBS
<1>2. CASE EditNetwork(w)
  <2>1. /\ Is(w, "networks page") /\ w \in Of({"networks page"})
        /\ MergePage(w, w) /\ Go(w, "edited") /\ areas' = areas
    BY <1>2 DEF EditNetwork, MergePage, Of, Is
  <2>2. TakeMove(w) /\ Contents(mine[w])'.page = w
    BY <1>1, <2>1, PageMove DEF MemberInv
  <2>3. Kept(w, node[w], Contents(mine[w])')
    BY <2>1, <2>2 DEF Kept, Is, Changes
  <2>4. cast[w] \notin {"map", "remap"}
    BY <2>1 DEF Is
  <2>5. /\ step'[w] = "edited"
        /\ \A u \in Workers \ {w} : step'[u] = step[u]
    BY <2>1, GoAlone
  <2>6. QED
    BY <1>1, <2>1, <2>2, <2>3, <2>4, <2>5, TakeKeeps
<1>3. CASE EditBBS(w)
  <2> DEFINE c == [current EXCEPT !.bbs = w]
  <2>1. /\ Is(w, "config page") /\ w \in Of({"config page"})
        /\ MergeSection(w, c) /\ Go(w, "saving") /\ areas' = areas
    BY <1>3 DEF EditBBS, MergeSection, Of, Is
  <2>2. /\ DOMAIN c = {"mrc", "bbs", "nets"} /\ c.nets = current.nets
        /\ c.bbs = w
    BY DEF MemberInv, HeapInv, Copy
  <2> HIDE DEF c
  <2>3. TakeMove(w)
    BY <1>1, <2>1, <2>2, SectionMove DEF MemberInv
  <2>4. mine'[w] = c
    BY <1>1, <2>1 DEF MergeSection, Merge, SaverTypes, Savers
  <2>5. Kept(w, node[w], Contents(mine[w])')
    BY <2>1, <2>2, <2>4 DEF Kept, Is, Changes, Contents
  <2>6. cast[w] \notin {"map", "remap"}
    BY <2>1 DEF Is
  <2>7. /\ step'[w] = "saving"
        /\ \A u \in Workers \ {w} : step'[u] = step[u]
    BY <2>1, GoAlone
  <2>8. QED
    BY <1>1, <2>1, <2>3, <2>5, <2>6, <2>7, TakeKeeps
<1>4. QED
  BY <1>2, <1>3

\* A save of MRC's settings: who saves is none of the others.
LEMMA AdminSaveKeeps ==
  ASSUME SaverTypes, MemberInv, NEW a \in Admins, Save(a)
  PROVE  HeapInv' /\ KeptInv' /\ AreaInv' /\ FileInv'
<1>1. PICK m : MergeSection(a, [current EXCEPT !.mrc = m])
  BY DEF Save
<1> DEFINE c == [current EXCEPT !.mrc = m]
<1>2. /\ UNCHANGED <<cast, step, node, areas>> /\ a \notin Workers
      /\ a \in Savers
  <2>1. a \in DOMAIN cast /\ a \notin Users
    BY MrcAssumption DEF Save
  <2>2. a \in Savers
    BY <2>1 DEF SaverTypes, Savers
  <2>3. QED
    BY <1>1, <2>2, WorkerFacts DEF Save, joining, MergeSection
<1>3. /\ DOMAIN c = {"mrc", "bbs", "nets"} /\ c.nets = current.nets
      /\ c.bbs = current.bbs
  BY DEF MemberInv, HeapInv, Copy
<1> HIDE DEF c
<1>4. TakeMove(a)
  BY <1>1, <1>2, <1>3, SectionMove DEF MemberInv, c
<1>5. QED
  BY <1>2, <1>4, TakeKeeps

\* The steps that leave the settings alone.
Plain(w) ==
  \/ Look(w) \/ Deny(w) \/ LookForDuplicate(w) \/ Number(w) \/ InsertMember(w)
  \/ Subscribe(w) \/ MarkApproved(w) \/ Unsubscribe(w) \/ Saved(w)
  \/ StatementFails(w)

LEMMA PlainActions ==
  ASSUME SaverTypes, MemberInv, NEW w \in Workers, Plain(w)
  PROVE  HeapInv' /\ KeptInv' /\ AreaInv' /\ FileInv'
<1>1. UNCHANGED store /\ cast' = cast
  BY DEF Plain, Look, Deny, LookForDuplicate, Number, InsertMember, Subscribe,
     MarkApproved, Unsubscribe, Saved, StatementFails, settings, store
<1>2. \A u \in Workers \ {w} : step'[u] = step[u] /\ node'[u] = node[u]
  BY DEF Plain, Look, Deny, LookForDuplicate, Number, InsertMember, Subscribe,
     MarkApproved, Unsubscribe, Saved, StatementFails, Go, MemberInv, StepInv
<1>3. \A u \in Savers : Busy(u)' = Busy(u) /\ failed' = failed
  BY <1>1 DEF store, Busy
<1>4. /\ step'[w] \notin {"saving", "edited"}
      /\ Settled(w)' =>
           Is(w, "deny") \/ (Settled(w) /\ node'[w] = node[w])
  <2>1. ASSUME NEW label, Go(w, label) PROVE step'[w] = label
    BY <2>1, GoAlone
  <2>2. CASE Look(w)
    BY <2>1, <2>2 DEF Look, Settled, At
  <2>3. CASE Deny(w)
    BY <2>1, <2>3 DEF Deny
  <2>4. CASE LookForDuplicate(w)
    BY <2>1, <2>4 DEF LookForDuplicate, Settled, At
  <2>5. CASE Number(w)
    BY <2>1, <2>5 DEF Number, Settled, At
  <2>6. CASE InsertMember(w)
    BY <2>1, <2>6 DEF InsertMember, Settled, At
  <2>7. CASE Subscribe(w)
    BY <2>1, <2>7 DEF Subscribe, Settled, At
  <2>8. CASE MarkApproved(w)
    BY <2>1, <2>8 DEF MarkApproved, Settled, At
  <2>9. CASE Unsubscribe(w)
    BY <2>1, <2>9 DEF Unsubscribe, Settled, At
  <2>10. CASE StatementFails(w)
    BY <2>1, <2>10 DEF StatementFails, Settled, At
  <2>11. CASE Saved(w)
    <3>1. Saving(w) /\ ~Busy(w) /\ node'[w] = node[w]
      BY <2>11 DEF Saved
    <3>2. At(w, "unmapping") => Is(w, "remap")
      BY DEF MemberInv, StepInv, At
    <3>3. step'[w] = CASE w \in failed -> "refused"
             [] w \notin failed /\ Is(w, "approve") -> "authorized"
             [] w \notin failed /\ Is(w, "remove") /\ node[w] # 0 -> "removed"
             [] w \notin failed /\ At(w, "unmapping") -> "unmapped"
             [] OTHER -> "done"
      BY <2>1, <2>11 DEF Saved
    <3>4. CASE w \in failed
      <4>1. step'[w] = "refused"
        BY <3>3, <3>4
      <4>2. QED
        BY <4>1 DEF Settled, At
    <3>5. CASE w \notin failed /\ At(w, "unmapping")
      <4>1. step'[w] = "unmapped"
        BY <3>2, <3>3, <3>5 DEF Is
      <4>2. QED
        BY <4>1 DEF Settled, At
    <3>6. CASE w \notin failed /\ ~At(w, "unmapping")
      <4>1. step'[w] \in {"authorized", "removed", "done"}
        BY <3>3, <3>6 DEF Is
      <4>2. Settled(w)
        BY <3>1, <3>6 DEF Settled, Saving, At
      <4>3. QED
        BY <3>1, <4>1, <4>2
    <3>7. QED
      BY <3>4, <3>5, <3>6
  <2>12. QED
    BY <2>2, <2>3, <2>4, <2>5, <2>6, <2>7, <2>8, <2>9, <2>10, <2>11
       DEF Plain
<1>5. \A u \in Workers \ {w} : Settled(u)' => Settled(u) /\ node'[u] = node[u]
  BY <1>2, <1>3, WorkerFacts DEF Settled, At
<1>6. QED
  BY <1>1, <1>2, <1>4, <1>5, PlainKeeps

\* Nobody touches the copy of another.
LEMMA OthersBusy ==
  ASSUME SaverTypes, HeapInv, NEW w \in Workers, Begin(w) \/ Proceed(w)
  PROVE  /\ Savers' = Savers /\ Workers' = Workers /\ cast' = cast
         /\ \A u \in Savers \ {w} : Busy(u)' = Busy(u)
<1>1. w \in Savers
  BY WorkerFacts
<1>2. CASE saver' = saver
  BY <1>2, WorkerCast DEF Savers, Workers, Busy
<1>3. CASE saver' = [saver EXCEPT ![w] = "merged"]
  BY <1>3, WorkerCast DEF Savers, Workers, Busy
<1>4. CASE Saves(w)
  BY <1>1, <1>4, SaveFacts DEF Saves, SaveEffect
<1>5. QED
  BY <1>2, <1>3, <1>4 DEF Begin, Proceed, Look, Deny, Remove,
     LookForDuplicate, Change, NewPassword, UnmapArea, EditNetwork, EditBBS,
     Number, InsertMember, Authorize, Subscribe, MarkApproved, Unsubscribe,
     Add, MapArea, EditedNetwork, Saved, StatementFails, MergeLinks,
     MergePage, MergePassword, MergeAreas, MergeSection, Merge, settings,
     store

\* The number of a new member is none that there is.
LEMMA NextNumber ==
  ASSUME StepInv PROVE Max(members) + 1 \in Nat /\ Max(members) + 1 > Known
<1>1. PICK m \in members : \A k \in members : k <= m
  BY DEF StepInv
<1>2. members \subseteq Nat /\ Known \in members
  BY DEF StepInv
<1>3. \A k \in members : m >= k
  BY <1>1, <1>2
<1>4. Max(members) \in members /\ \A k \in members : Max(members) >= k
  BY <1>3 DEF Max
<1> DEFINE top == Max(members)
<1>5. top \in Nat /\ top >= Known
  BY <1>2, <1>4
<1> HIDE DEF top
<1>6. top + 1 \in Nat /\ top + 1 > Known
  BY <1>5 DEF Known
<1>7. QED
  BY <1>6 DEF top

\* What has to be shown of a step that one of them takes.
LEMMA StepIntro ==
  ASSUME SaverTypes, MemberInv, NEW w \in Workers, Begin(w) \/ Proceed(w),
         NEW label \in Labels, Go(w, label), node' \in [Workers -> Nat],
         DOMAIN joinRequests' = JoinRequests,
         members' \subseteq Nat \ {0}, members \subseteq members',
         \E m \in members' : \A k \in members' : k <= m,
         \A r \in JoinRequests :
           \/ joinRequests'[r] = joinRequests[r]
           \/ joinRequests'[r] = "denied"
           \/ joinRequests'[r] = w /\ Is(w, "approve") /\ label = "done",
         At(w, "done") => label = "done",
         \A u \in Workers \ {w} : node'[u] = node[u],
         label \in {"looked", "numbered", "member", "authorized",
                    "subscribed"} => Is(w, "approve"),
         label = "looked up" => Is(w, "add page"),
         label = "removed" => Is(w, "remove"),
         label = "edited" => Is(w, "networks page") /\ Busy(w)',
         label \in {"unmapping", "unmapped"} => Is(w, "remap"),
         Is(w, "remove") => node'[w] \in {0, Known},
         label = "numbered" => node'[w] > Known,
         Is(w, "approve") =>
           /\ label \in {"member", "saving", "authorized", "subscribed",
                         "done"}
                => /\ node'[w] \in members' \ {Known}
                   /\ Inserted(w) \/ node'[w] \notin members
                   /\ node'[w] = node[w]
           /\ label \in {"subscribed", "done"} => node'[w] \in subs',
         \A u \in Of({"approve"}) \ {w} :
           node[u] \in subs /\ node[u] \in members \ {Known} =>
             node[u] \in subs'
  PROVE  StepInv'
<1>1. /\ Workers' = Workers /\ cast' = cast /\ w \in Savers
      /\ \A u \in Workers \ {w} : Busy(u)' = Busy(u)
  BY OthersBusy, WorkerFacts DEF MemberInv
<1>2. /\ step' = [step EXCEPT ![w] = label] /\ step'[w] = label
      /\ \A u \in Workers \ {w} : step'[u] = step[u]
      /\ step' \in [Workers -> Labels]
  BY DEF Go, MemberInv, StepInv
<1>3. \A r \in JoinRequests :
        joinRequests'[r] \in Workers =>
          Is(joinRequests'[r], "approve") /\ step'[joinRequests'[r]] = "done"
  <2>1. ASSUME NEW r \in JoinRequests, joinRequests'[r] = joinRequests[r],
               joinRequests[r] \in Workers
        PROVE  /\ Is(joinRequests[r], "approve")
               /\ step'[joinRequests[r]] = "done"
    <3>1. Is(joinRequests[r], "approve") /\ step[joinRequests[r]] = "done"
      BY <2>1 DEF MemberInv, StepInv, At
    <3>2. QED
      BY <1>2, <2>1, <3>1 DEF At
  <2>2. QED
    BY <1>2, <2>1, WorkerFacts
<1>4. \A u \in Workers \ {w} :
        /\ step[u] \in {"looked", "numbered", "member", "authorized",
                        "subscribed"} => Is(u, "approve")
        /\ At(u, "looked up") => Is(u, "add page")
        /\ At(u, "removed") => Is(u, "remove")
        /\ At(u, "edited") => Is(u, "networks page") /\ Busy(u)
        /\ step[u] \in {"unmapping", "unmapped"} => Is(u, "remap")
        /\ Is(u, "remove") => node[u] \in {0, Known}
        /\ At(u, "numbered") => node[u] > Known
  BY DEF MemberInv, StepInv
<1>5. \A u \in Workers :
        /\ step'[u] \in {"looked", "numbered", "member", "authorized",
                         "subscribed"} => Is(u, "approve")
        /\ step'[u] = "looked up" => Is(u, "add page")
        /\ step'[u] = "removed" => Is(u, "remove")
        /\ step'[u] = "edited" => Is(u, "networks page") /\ Busy(u)'
        /\ step'[u] \in {"unmapping", "unmapped"} => Is(u, "remap")
        /\ Is(u, "remove") => node'[u] \in {0, Known}
        /\ step'[u] = "numbered" => node'[u] > Known
  <2>1. ASSUME NEW u \in Workers, u # w
        PROVE  /\ step'[u] = step[u] /\ node'[u] = node[u]
               /\ Busy(u)' = Busy(u)
    BY <1>1, <1>2, <2>1
  <2>2. QED
    BY <1>2, <1>4, <2>1 DEF At
<1>6. \A u \in Of({"approve"}) \ {w} :
        /\ Inserted(u)' = Inserted(u)
        /\ Inserted(u) => node[u] \in members \ {Known}
        /\ step[u] \in {"subscribed", "done"} =>
             Inserted(u) /\ node[u] \in subs
        /\ step'[u] = step[u] /\ node'[u] = node[u]
  BY <1>2 DEF Inserted, MemberInv, StepInv, Of
<1>7. \A u \in Of({"approve"}) :
        /\ Inserted(u)' => node'[u] \in members' \ {Known}
        /\ step'[u] \in {"subscribed", "done"} => node'[u] \in subs'
  BY <1>2, <1>6 DEF Inserted, Of, Is
<1>8. \A u, v \in Of({"approve"}) :
        v # u /\ Inserted(v)' /\ Inserted(u)' => node'[v] # node'[u]
  <2>1. \A u, v \in Of({"approve"}) :
          v # u /\ Inserted(v) /\ Inserted(u) => node[v] # node[u]
    BY DEF MemberInv, StepInv
  <2>2. ASSUME NEW u \in Of({"approve"}), u # w, Inserted(u)', Inserted(w)',
               w \in Of({"approve"})
        PROVE  node'[w] # node'[u]
    <3>1. /\ Inserted(u) /\ node[u] \in members /\ node'[u] = node[u]
          /\ node'[w] = node[w] /\ (Inserted(w) \/ node'[w] \notin members)
      BY <1>2, <1>6, <2>2 DEF Inserted, Of, Is
    <3>2. QED
      BY <2>1, <2>2, <3>1
  <2>3. ASSUME NEW u \in Of({"approve"}), NEW v \in Of({"approve"}), u # v,
               u # w, v # w, Inserted(u)', Inserted(v)'
        PROVE  node'[v] # node'[u]
    BY <1>6, <2>1, <2>3
  <2>4. QED
    BY <2>2, <2>3
<1>9. Known \in members'
  BY DEF MemberInv, StepInv
<1>10. Of({"approve"})' = Of({"approve"}) /\ \A u, k : Is(u, k)' = Is(u, k)
  BY <1>1 DEF Of, Is
<1>11. \A r \in JoinRequests :
         joinRequests'[r] \in Workers' =>
           /\ cast'[joinRequests'[r]] = "approve"
           /\ step'[joinRequests'[r]] = "done"
  BY <1>1, <1>3 DEF Is
<1>12. ASSUME NEW u \in Workers'
       PROVE  /\ step'[u] \in {"looked", "numbered", "member", "authorized",
                              "subscribed"} => cast'[u] = "approve"
              /\ step'[u] = "looked up" => cast'[u] = "add page"
              /\ step'[u] = "removed" => cast'[u] = "remove"
              /\ step'[u] = "edited" => cast'[u] = "networks page" /\ Busy(u)'
              /\ step'[u] \in {"unmapping", "unmapped"} => cast'[u] = "remap"
              /\ cast'[u] = "remove" => node'[u] \in {0, Known}
              /\ step'[u] = "numbered" => node'[u] > Known
  <2>1. u \in Workers /\ cast' = cast
    BY <1>1, <1>12
  <2>2. QED
    BY <1>5, <2>1 DEF Is
<1>13. \A u \in Of({"approve"})' :
         /\ Inserted(u)' => node'[u] \in members' \ {Known}
         /\ step'[u] \in {"subscribed", "done"} => node'[u] \in subs'
         /\ \A v \in Of({"approve"})' :
              v # u /\ Inserted(v)' /\ Inserted(u)' => node'[v] # node'[u]
  BY <1>7, <1>8, <1>10
<1>14. step' \in [Workers' -> Labels] /\ node' \in [Workers' -> Nat]
  BY <1>1, <1>2
<1>15. QED
  BY <1>9, <1>11, <1>12, <1>13, <1>14 DEF StepInv, At, Is

\* Nobody goes on, and whoever is between two saves keeps a copy.
LEMMA StepSame ==
  ASSUME StepInv, UNCHANGED joining,
         \A w \in Workers : At(w, "edited") => Busy(w)'
  PROVE  StepInv'
<1>1. /\ UNCHANGED <<cast, step, node, joinRequests, members, subs>>
      /\ Workers' = Workers
  BY DEF joining, Workers
<1>2. \A w \in Workers : Inserted(w)' = Inserted(w)
  BY <1>1 DEF Inserted
<1>3. Of({"approve"})' = Of({"approve"})
  BY <1>1 DEF Of
<1>4. \A w \in Of({"approve"}) :
        /\ Inserted(w)' => node'[w] \in members' \ {Known}
        /\ step'[w] \in {"subscribed", "done"} => node'[w] \in subs'
        /\ \A v \in Of({"approve"}) :
             v # w /\ Inserted(v)' /\ Inserted(w)' => node'[v] # node'[w]
  BY <1>1, <1>2 DEF StepInv, Of
<1>5. QED
  BY <1>1, <1>3, <1>4 DEF StepInv, At, Is

\* Each step of those who save other settings, but for a save that goes on.
LEMMA StepKeeps ==
  ASSUME SaverTypes, MemberInv, NEW w \in Workers, Begin(w) \/ Proceed(w),
         ~Saves(w)
  PROVE  StepInv'
<1>1. /\ node \in [Workers -> Nat] /\ members \subseteq Nat \ {0}
      /\ DOMAIN joinRequests = JoinRequests
      /\ \E m \in members : \A k \in members : k <= m
      /\ Is(w, "remove") => node[w] \in {0, Known}
      /\ Known \in Nat /\ cast[w] \in Kinds
  BY DEF MemberInv, StepInv, Known, Workers
<1>2. /\ At(w, "looked") => Is(w, "approve")
      /\ At(w, "numbered") => Is(w, "approve") /\ node[w] > Known
      /\ At(w, "member") => Is(w, "approve")
      /\ At(w, "authorized") => Is(w, "approve")
      /\ At(w, "subscribed") => Is(w, "approve")
      /\ At(w, "looked up") => Is(w, "add page")
      /\ At(w, "removed") => Is(w, "remove")
      /\ At(w, "edited") => Is(w, "networks page") /\ Busy(w)
      /\ At(w, "unmapping") => Is(w, "remap")
      /\ At(w, "unmapped") => Is(w, "remap")
  BY DEF MemberInv, StepInv, At
<1>3. Is(w, "approve") =>
        /\ Inserted(w) => node[w] \in members \ {Known}
        /\ At(w, "subscribed") => node[w] \in subs
  BY DEF MemberInv, StepInv, Of, Is, At
<1>4. CASE Look(w)
  <2>1. PICK label \in {"looked", "refused"} : Go(w, label)
    BY <1>4 DEF Look
  <2>2. /\ ~At(w, "done") /\ Is(w, "approve") /\ label \in Labels
        /\ UNCHANGED <<node, joinRequests, members, subs>>
    BY <1>4, <2>1 DEF Look, At, Labels
  <2>3. QED
    BY <1>1, <2>1, <2>2, StepIntro DEF Is
<1>5. CASE Deny(w)
  BY <1>1, <1>5, StepIntro DEF Deny, Labels, Is, At
<1>6. CASE Remove(w)
  BY <1>1, <1>6, StepIntro DEF Remove, Labels, Is, At, decided
<1>7. CASE LookForDuplicate(w)
  BY <1>1, <1>7, StepIntro DEF LookForDuplicate, Labels, Is, At, decided
<1>8. CASE Change(w)
  BY <1>1, <1>8, StepIntro DEF Change, Labels, Is, At, decided
<1>9. CASE NewPassword(w)
  BY <1>1, <1>9, StepIntro DEF NewPassword, Labels, Is, At, decided
<1>10. CASE UnmapArea(w)
  BY <1>1, <1>10, StepIntro DEF UnmapArea, Labels, Is, At, decided
<1>11. CASE EditNetwork(w)
  <2>1. Busy(w)'
    BY <1>11, WorkerFacts DEF EditNetwork, MergePage, Merge, SaverTypes,
       Savers, Busy
  <2>2. /\ ~At(w, "done") /\ Is(w, "networks page") /\ Go(w, "edited")
        /\ ~Is(w, "approve") /\ ~Is(w, "remove")
        /\ UNCHANGED <<node, joinRequests, members, subs>>
    BY <1>11 DEF EditNetwork, At, Is, decided
  <2>3. QED
    BY <1>1, <2>1, <2>2, StepIntro DEF Labels
<1>12. CASE EditBBS(w)
  BY <1>1, <1>12, StepIntro DEF EditBBS, Labels, Is, At, decided
<1>13. CASE Number(w)
  <2> DEFINE n == Max(members) + 1
  <2>1. /\ At(w, "looked") /\ Go(w, "numbered")
        /\ node' = [node EXCEPT ![w] = n]
        /\ UNCHANGED <<joinRequests, members, subs>>
    BY <1>13 DEF Number, decided
  <2>2. n \in Nat /\ n > Known
    BY NextNumber DEF MemberInv
  <2> HIDE DEF n
  <2>3. /\ node' \in [Workers -> Nat] /\ node'[w] > Known
        /\ \A u \in Workers \ {w} : node'[u] = node[u]
    BY <1>1, <2>1, <2>2
  <2>4. Is(w, "approve") /\ ~Is(w, "remove") /\ ~At(w, "done")
    BY <1>2, <2>1 DEF At, Is
  <2>5. QED
    BY <1>1, <2>1, <2>3, <2>4, StepIntro DEF Labels
<1>14. CASE InsertMember(w)
  <2>1. /\ At(w, "numbered") /\ UNCHANGED <<node, joinRequests, subs>>
        /\ members' = members \cup {node[w]}
    BY <1>14 DEF InsertMember, decided
  <2>2. /\ Is(w, "approve") /\ ~Is(w, "remove") /\ ~At(w, "done")
        /\ node[w] \in Nat \ {0} /\ node[w] # Known
    BY <1>1, <1>2, <2>1 DEF At, Is, Known
  <2>3. CASE node[w] \in members
    <3>1. Go(w, "refused") /\ members' = members
      BY <1>14, <2>1, <2>3 DEF InsertMember
    <3>2. QED
      BY <1>1, <2>1, <2>2, <3>1, StepIntro DEF Labels
  <2>4. CASE node[w] \notin members
    <3>1. Go(w, "member")
      BY <1>14, <2>4 DEF InsertMember
    <3>2. PICK m \in members : \A k \in members : k <= m
      BY <1>1
    <3>3. \E k \in members' : \A j \in members' : j <= k
      <4>1. CASE node[w] <= m
        BY <2>1, <3>2, <4>1
      <4>2. CASE ~(node[w] <= m)
        BY <1>1, <2>1, <2>2, <3>2, <4>2
      <4>3. QED
        BY <4>1, <4>2
    <3>4. QED
      BY <1>1, <2>1, <2>2, <2>4, <3>1, <3>3, StepIntro DEF Labels
  <2>5. QED
    BY <2>3, <2>4
<1>15. CASE Authorize(w)
  BY <1>1, <1>2, <1>3, <1>15, StepIntro DEF Authorize, Labels, Is, At,
     decided, Inserted
<1>16. CASE Subscribe(w)
  BY <1>1, <1>2, <1>3, <1>16, StepIntro DEF Subscribe, Labels, Is, At,
     decided, Inserted
<1>17. CASE MarkApproved(w)
  BY <1>1, <1>2, <1>3, <1>17, StepIntro DEF MarkApproved, Labels, Is, At,
     decided, Inserted
<1>18. CASE Unsubscribe(w)
  BY <1>1, <1>2, <1>18, StepIntro DEF Unsubscribe, Labels, Is, At, decided
<1>19. CASE Add(w)
  BY <1>1, <1>2, <1>19, StepIntro DEF Add, Labels, Is, At, decided
<1>20. CASE MapArea(w)
  BY <1>1, <1>2, <1>20, StepIntro DEF MapArea, Labels, Is, At, decided
<1>21. CASE EditedNetwork(w)
  <2>1. /\ At(w, "edited") /\ Go(w, "saving")
        /\ UNCHANGED <<node, joinRequests, members, subs>>
    BY <1>21 DEF EditedNetwork, decided
  <2>2. ~Is(w, "approve") /\ ~Is(w, "remove") /\ ~At(w, "done")
    BY <1>2, <2>1 DEF At, Is
  <2>3. QED
    BY <1>1, <2>1, <2>2, StepIntro DEF Labels
<1>22. CASE Saved(w)
  <2>1. PICK label \in {"refused", "authorized", "removed", "unmapped",
                         "done"} :
          /\ Go(w, label)
          /\ label = "authorized" => Is(w, "approve")
          /\ label = "removed" => Is(w, "remove")
          /\ label = "unmapped" => At(w, "unmapping")
          /\ label = "done" => ~Is(w, "approve")
    BY <1>22 DEF Saved
  <2>2. /\ step[w] \in {"saving", "unmapping"} /\ ~At(w, "done")
        /\ UNCHANGED <<node, joinRequests, members, subs>>
        /\ label \in Labels
    BY <1>22 DEF Saved, Saving, decided, Labels, At
  <2>3. Is(w, "approve") => Inserted(w)
    BY <1>2, <2>2 DEF Inserted, At, Is
  <2>4. QED
    BY <1>1, <1>2, <1>3, <2>1, <2>2, <2>3, StepIntro
<1>23. CASE StatementFails(w)
  BY <1>1, <1>2, <1>23, StepIntro DEF StatementFails, Labels, Is, At, decided
<1>24. QED
  BY <1>4, <1>5, <1>6, <1>7, <1>8, <1>9, <1>10, <1>11, <1>12, <1>13, <1>14,
     <1>15, <1>16, <1>17, <1>18, <1>19, <1>20, <1>21, <1>22, <1>23
     DEF Begin, Proceed

\* Each step of those who save other settings.
LEMMA WorkerKeeps ==
  ASSUME SaverTypes, MemberInv, NEW w \in Workers, Begin(w) \/ Proceed(w)
  PROVE  MemberInv'
<1>1. CASE Saves(w)
  <2>1. SaveEffect(w) /\ w \in Savers
    BY <1>1, WorkerFacts DEF Saves, SaveEffect
  <2>2. HeapInv' /\ KeptInv' /\ AreaInv' /\ FileInv'
    BY <2>1, OpenKeeps, EncodeKeeps, FailKeeps DEF SaveEffect
  <2>3. \A u \in Workers : At(u, "edited") => u # w /\ u \in Savers /\ Busy(u)
    BY <1>1, WorkerFacts DEF Saves, Saving, At, MemberInv, StepInv
  <2>4. StepInv'
    BY <2>1, <2>3, SaveFacts, StepSame DEF SaveEffect, MemberInv
  <2>5. QED
    BY <2>2, <2>4 DEF MemberInv
<1>2. CASE ~Saves(w)
  <2>1. StepInv'
    BY <1>2, StepKeeps
  <2>2. HeapInv' /\ KeptInv' /\ AreaInv' /\ FileInv'
    BY <1>2, AuthorizeKeeps, AddKeeps, RemoveKeeps, ChangeKeeps,
       NewPasswordKeeps, AreasKeep, EditsKeep, EditedKeeps, PlainActions
       DEF Begin, Proceed, Plain
  <2>3. QED
    BY <2>1, <2>2 DEF MemberInv
<1>3. QED
  BY <1>1, <1>2

\* Whoever was done before a restart is done, and nobody is at work.
LEMMA RestartSteps ==
  ASSUME SaverTypes, MemberInv, JoinRestart PROVE StepInv'
<1>1. /\ UNCHANGED <<cast, node, joinRequests, members, subs>>
      /\ Workers' = Workers
      /\ step' = [w \in Workers |-> IF step[w] \in {"new", "done"} THEN step[w]
                                    ELSE "refused"]
  BY DEF JoinRestart, decided, Workers
<1>2. /\ step' \in [Workers -> {"new", "done", "refused"}]
      /\ \A w \in Workers : (step'[w] = "done") = (step[w] = "done")
  BY <1>1
<1>3. \A w \in Workers : Inserted(w)' => step'[w] = "done" /\ Inserted(w)
  BY <1>2 DEF Inserted
<1>4. Of({"approve"})' = Of({"approve"}) /\ Of({"approve"}) \subseteq Workers
  BY <1>1 DEF Of
<1>5. \A w \in Of({"approve"}) :
        /\ Inserted(w)' => node'[w] \in members' \ {Known}
        /\ step'[w] \in {"subscribed", "done"} => node'[w] \in subs'
        /\ \A v \in Of({"approve"}) :
             v # w /\ Inserted(v)' /\ Inserted(w)' => node'[v] # node'[w]
  BY <1>1, <1>2, <1>3, <1>4 DEF MemberInv, StepInv
<1>6. \A r \in JoinRequests :
        joinRequests'[r] \in Workers' =>
          cast'[joinRequests'[r]] = "approve"
          /\ step'[joinRequests'[r]] = "done"
  BY <1>1, <1>2 DEF MemberInv, StepInv, At, Is
<1>7. \A w \in Workers : Is(w, "remove") => node[w] \in {0, Known}
  BY DEF MemberInv, StepInv
<1>8. /\ step' \in [Workers' -> Labels] /\ node' \in [Workers' -> Nat]
      /\ DOMAIN joinRequests' = JoinRequests
      /\ members' \subseteq Nat \ {0} /\ Known \in members'
      /\ \E m \in members' : \A k \in members' : k <= m
  BY <1>1, <1>2 DEF MemberInv, StepInv, Labels
<1>9. ASSUME NEW w \in Workers'
      PROVE  /\ step'[w] \in {"new", "done", "refused"}
             /\ cast'[w] = "remove" => node'[w] \in {0, Known}
  BY <1>1, <1>2, <1>7, <1>9 DEF Is
<1>10. \A w \in Of({"approve"})' :
         /\ Inserted(w)' => node'[w] \in members' \ {Known}
         /\ step'[w] \in {"subscribed", "done"} => node'[w] \in subs'
         /\ \A v \in Of({"approve"})' :
              v # w /\ Inserted(v)' /\ Inserted(w)' => node'[v] # node'[w]
  BY <1>4, <1>5
<1>11. QED
  BY <1>6, <1>8, <1>9, <1>10 DEF StepInv, At, Is

\* No step of anybody disturbs what was kept.
LEMMA MemberStep ==
  SaverTypes /\ MemberInv /\ [Next]_vars => MemberInv'
<1> SUFFICES ASSUME SaverTypes, MemberInv, [Next]_vars PROVE MemberInv'
  OBVIOUS
<1> USE DEF hub, loop, read, users
<1>1. ASSUME UNCHANGED store, UNCHANGED joining PROVE MemberInv'
  <2>1. UNCHANGED <<cast, step, node>>
    BY <1>1 DEF joining
  <2>2. \A u \in Savers : Busy(u)' = Busy(u)
    BY <1>1 DEF store, Busy
  <2>3. \A w \in Workers : Settled(w)' => Settled(w)
    BY <1>1, <2>1, <2>2, WorkerFacts DEF Settled, At, store
  <2>4. HeapInv' /\ KeptInv' /\ AreaInv' /\ FileInv'
    BY <1>1, <2>1, <2>3, PlainKeeps
  <2>5. \A w \in Workers : At(w, "edited") => Busy(w)'
    BY <2>2, WorkerFacts DEF MemberInv, StepInv
  <2>6. QED
    BY <1>1, <2>4, <2>5, StepSame DEF MemberInv
<1>2. ASSUME NEW a \in Admins, Save(a) PROVE MemberInv'
  <2>1. HeapInv' /\ KeptInv' /\ AreaInv' /\ FileInv'
    BY <1>2, AdminSaveKeeps
  <2>2. saver' = [saver EXCEPT ![a] = "merged"] /\ UNCHANGED joining
    BY <1>2 DEF Save, MergeSection, Merge
  <2>3. \A w \in Workers : At(w, "edited") => w # a /\ Busy(w)
    BY WorkerFacts DEF MemberInv, StepInv
  <2>4. StepInv'
    BY <2>2, <2>3, StepSame DEF MemberInv, Busy
  <2>5. QED
    BY <2>1, <2>4 DEF MemberInv
<1>3. ASSUME NEW a \in Admins, WriteFile(a) PROVE MemberInv'
  <2>1. a \in Savers /\ a \notin Workers
    BY <1>3, MrcAssumption, WorkerFacts
       DEF WriteFile, Asked, SaverTypes, Savers
  <2>2. SaveEffect(a)
    BY <1>3, <2>1 DEF WriteFile, SaveEffect
  <2>3. HeapInv' /\ KeptInv' /\ AreaInv' /\ FileInv'
    BY <2>1, <2>2, OpenKeeps, EncodeKeeps, FailKeeps DEF SaveEffect
  <2>4. \A w \in Workers : At(w, "edited") => w \in Savers \ {a} /\ Busy(w)
    BY <2>1, WorkerFacts DEF MemberInv, StepInv
  <2>5. StepInv'
    BY <2>1, <2>2, <2>4, SaveFacts, StepSame DEF SaveEffect, MemberInv
  <2>6. QED
    BY <2>3, <2>5 DEF MemberInv
<1>4. ASSUME JoinRestart PROVE MemberInv'
  BY <1>4, ReloadKeeps, RestartSteps DEF MemberInv
<1>5. QED
  BY <1>1, <1>2, <1>3, <1>4, WorkerKeeps DEF page, Next, LoopStep,
     LoopLocked, LoopUnlocked, ReaderStep, SaverStep, AdminStep, WorkerStep,
     UserStep, Works, Restart, vars, TakeStop, DetachAll, Drop, Goto,
     TakeSettings, CloseOne, Write, AllClosed, Turn, Dial, Mishap, Greet,
     NextUser, WriteUser, NotifyTest, NotifySend, Send, Announced, Heartbeat,
     SessionFails, Packet, Audience, DeliverTest, DeliverSend, Attach, Enter,
     Announce, Join, Take, Leave, LogOff, ReadBack, Apply, Stop, Lost

\* Memory is what the file says, and nobody has done anything.
LEMMA MemberInit == Init /\ SaverTypes => MemberInv
<1> SUFFICES ASSUME Init, SaverTypes PROVE MemberInv
  OBVIOUS
<1>1. PICK m : SettingsInit(m, DOMAIN cast \ Users)
  BY DEF Init
<1>2. /\ current = [mrc |-> m, bbs |-> First, nets |-> 1]
      /\ nets = <<[page |-> First, downlinks |-> 1]>>
      /\ slices = <<FirstLinks>> /\ areas = FirstAreas
      /\ file = [mrc |-> m, bbs |-> First, page |-> First,
                 downlinks |-> FirstLinks, areas |-> FirstAreas]
      /\ DOMAIN since = Savers /\ \A w \in Savers : ~Busy(w)
  BY <1>1 DEF SettingsInit, Savers, Busy
<1>3. /\ step = [w \in Workers |-> "new"] /\ node = [w \in Workers |-> 0]
      /\ joinRequests = [r \in JoinRequests |-> "pending"]
      /\ members = {Known}
  BY DEF Init, JoinInit
<1>4. HeapInv
  <2>1. First \in Names /\ FirstLinks \in LinkSets
    BY MembershipAssumption DEF Names, LinkSets
  <2>2. /\ nets \in Seq([page : Names, downlinks : Nat])
        /\ slices \in Seq(LinkSets) /\ DOMAIN slices = {1}
        /\ \A i \in DOMAIN nets : nets[i].downlinks = 1
        /\ 1 \in DOMAIN nets
    BY <1>2, <2>1
  <2>3. Copy(current)
    BY <1>2, <2>1, <2>2 DEF Copy
  <2>4. QED
    BY <1>2, <2>1, <2>2, <2>3 DEF HeapInv
<1>5. StepInv
  <2>1. \A r \in JoinRequests : joinRequests[r] \notin Workers
    BY <1>3, WorkerFacts
  <2>2. \A w \in Workers : step[w] = "new" /\ node[w] = 0 /\ ~Inserted(w)
    BY <1>3 DEF Inserted
  <2>3. /\ step \in [Workers -> Labels] /\ node \in [Workers -> Nat]
        /\ DOMAIN joinRequests = JoinRequests
        /\ members \subseteq Nat \ {0} /\ Known \in members
        /\ \E k \in members : \A j \in members : j <= k
    BY <1>3 DEF Labels, Known
  <2>4. QED
    BY <2>1, <2>2, <2>3 DEF StepInv, At, Of
<1>6. \A w \in Workers : step[w] = "new"
  BY <1>3
<1>7. KeptInv /\ AreaInv
  BY <1>6 DEF KeptInv, AreaInv, Settled, At, Of
<1>8. FileInv
  BY <1>2 DEF FileInv, Contents, Net, Links
<1>9. QED
  BY <1>4, <1>5, <1>7, <1>8 DEF MemberInv

LEMMA MemberInvHolds == Spec => [](SaverTypes /\ MemberInv)
BY MemberInit, MemberStep, VersionInvHolds, PTL DEF Spec

\* Whoever was approved, and was not overwritten, has its row, its password
\* in memory and in the file, the nodelist's area, and an address of its own.
THEOREM ApprovedServed == Spec => []MembersServed
<1>1. SaverTypes /\ MemberInv => MembersServed
  <2> SUFFICES ASSUME SaverTypes, MemberInv, NEW r \in JoinRequests,
                      joinRequests[r] \in Workers \ lost
               PROVE  LET w == joinRequests[r] IN
                        /\ node[w] \in members \cap subs
                        /\ ~down => Linked(Links(current), node[w], w)
                        /\ file # Torn => Linked(file.downlinks, node[w], w)
                        /\ \A v \in Workers \ {w} :
                             Is(v, "approve") /\ At(v, "done")
                               => node[v] # node[w]
    BY DEF MembersServed
  <2> DEFINE w == joinRequests[r]
  <2>1. w \in Workers /\ w \notin lost /\ Is(w, "approve") /\ At(w, "done")
    BY DEF MemberInv, StepInv
  <2> HIDE DEF w
  <2>2. Inserted(w) /\ Settled(w) /\ w \in Of({"approve"})
    BY <2>1 DEF Inserted, Settled, Of, At, Is
  <2>3. node[w] \in members \cap subs
    BY <2>1, <2>2 DEF MemberInv, StepInv, At
  <2>4. /\ Linked(Contents(current).downlinks, node[w], w)
        /\ file # Torn => Linked(file.downlinks, node[w], w)
    BY <2>1, <2>2 DEF MemberInv, KeptInv, Kept
  <2>5. Contents(current).downlinks = Links(current)
    BY DEF Contents
  <2>6. ASSUME NEW v \in Workers \ {w}, Is(v, "approve"), At(v, "done")
        PROVE  node[v] # node[w]
    <3>1. v \in Of({"approve"}) /\ Inserted(v)
      BY <2>6 DEF Of, Inserted, At, Is
    <3>2. QED
      BY <2>2, <2>6, <3>1 DEF MemberInv, StepInv
  <2>7. QED
    BY <2>3, <2>4, <2>5, <2>6 DEF w
<1>2. QED
  BY <1>1, MemberInvHolds, PTL

\* Between saves, when none has failed, memory and file agree, and what was
\* reported as saved is in force unless another's save took it back.
THEOREM SettingsAreKept == Spec => []SettingsKept
<1>1. SaverTypes /\ MemberInv => SettingsKept
  <2> SUFFICES ASSUME SaverTypes, MemberInv, ~down, failed = {},
                      \A w \in Savers : ~Busy(w)
               PROVE  /\ file = Contents(current)
                      /\ \A w \in Workers :
                           /\ At(w, "done")
                           /\ w \notin lost \/ cast[w] \in {"map", "remap"}
                           => InForce(w)
    BY DEF SettingsKept
  <2>1. file = Contents(current)
    BY DEF MemberInv, FileInv
  <2>2. ASSUME NEW w \in Workers, At(w, "done"),
               w \notin lost \/ cast[w] \in {"map", "remap"}
        PROVE  InForce(w)
    <3>1. CASE cast[w] \in {"map", "remap"}
      <4>1. w \in areas
        BY <2>2, <3>1 DEF MemberInv, AreaInv, Of, At
      <4>2. QED
        BY <3>1, <4>1 DEF InForce, Is
    <3>2. CASE w \notin lost /\ cast[w] \notin {"map", "remap"}
      <4>1. Kept(w, node[w], Contents(current))
        BY <2>2, <3>2 DEF MemberInv, KeptInv, Settled, At
      <4>2. /\ Contents(current).downlinks = Links(current)
            /\ Contents(current).page = Net(current).page
            /\ Contents(current).bbs = current.bbs
        BY DEF Contents
      <4>3. CASE cast[w] \in Changes
        <5>1. ASSUME NEW l \in Links(current), l.addr = Known
              PROVE  \E v \in Of(Changes) : Linked(Links(current), Known, v)
          <6>1. l.pw \in Of(Changes)
            BY <4>1, <4>2, <4>3, <5>1 DEF Kept
          <6>2. l = [addr |-> Known, pw |-> l.pw]
            BY <5>1, ListInForce DEF MemberInv, LinkSets
          <6>3. QED
            BY <5>1, <6>1, <6>2 DEF Linked
        <5>2. HasLink(Links(current), Known) =>
                \E v \in Of(Changes) : Linked(Links(current), Known, v)
          BY <5>1 DEF HasLink
        <5>3. QED
          BY <4>3, <5>2 DEF InForce, Of, Changes, Is
      <4>4. CASE cast[w] \notin Changes
        BY <3>2, <4>1, <4>2, <4>4 DEF Kept, InForce, Of, Changes, Is
      <4>5. QED
        BY <4>3, <4>4
    <3>3. QED
      BY <2>2, <3>1, <3>2
  <2>3. QED
    BY <2>1, <2>2
<1>2. QED
  BY <1>1, MemberInvHolds, PTL
==============================================================================
