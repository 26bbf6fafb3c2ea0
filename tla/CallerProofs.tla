----------------------------- MODULE CallerProofs -----------------------------
(***************************************************************************)
(* Theorems about CallerSessions, for any number of callers, web sessions, *)
(* requests, web doors, listings and nodes.                                *)
(*                                                                         *)
(* OwnNode is strengthened (OwnInv) by what those have in hand who are     *)
(* about to write to a number: a number that is not contested has the row  *)
(* of the caller, the session or the request that holds it, from before    *)
(* its number is known to anybody until after its row is removed, and two  *)
(* requests never hold one number to file or to remove it.  NothingLeft    *)
(* follows from LeftInv, and that from SoleInv: a session that is not      *)
(* spoilt binds and releases its number with no other request beside.      *)
(* For AccountSticks, a copy that is not old agrees with the row.  For     *)
(* TransferWhole, what is on its way on a line belongs to one point of a   *)
(* transfer, and who writes to a file alone has a beginning of it.         *)
(***************************************************************************)
EXTENDS CallerSessions, FiniteSetTheorems, SequenceTheorems,
        WellFoundedInduction, TLAPS

Specials == {"new", "registered", "row", "door", "gone"}
Steps ==
  {"new", "bind", "set", "control", "name", "touch", "update", "page", "form",
   "release", "release_row", "unbind", "forget", "done"}
Owning == {"set", "control", "release", "release_row"}

SessionTypes ==
  /\ row \in [Ids -> Holders \cup {Nobody}]
  /\ shown \in [Ids -> Holders \cup {Nobody}]
  /\ ctrl \in [Ids -> Lines \cup Tokens \cup {Nobody}]
  /\ node \in [Players -> Ids \cup {NoNode}]
  /\ place = [p \in Players |-> place[p]]
  /\ drop \in [Ids -> Players \cup {Nobody}]
  /\ alive \in [Tokens -> BOOLEAN] /\ bound \in [Tokens -> Ids \cup {NoNode}]
  /\ req \in [Requests -> Tokens] /\ got \in [Requests -> Ids \cup {NoNode}]
  /\ at \in [Requests -> Steps]
  /\ contested \subseteq Ids /\ spoilt \subseteq Tokens

Mine(i, p) == row[i] = p /\ shown[i] \in {Nobody, p} \cup spoilt

\* Callers and web doors.
PlayerInv(p) ==
  /\ p \in WebDoors => place[p] \in {"new", "registered", "door", "row", "gone"}
  /\ IsOn(p) => node[p] \in Ids
  /\ IsOn(p) /\ node[p] \notin contested =>
       /\ Mine(node[p], p)
       /\ p \in Lines /\ place[p] \notin {"registered", "row"} =>
            ctrl[node[p]] = p
       /\ place[p] = "door" => drop[node[p]] = p

\* Web sessions.
At(w, labels) == \E r \in Requests : req[r] = w /\ at[r] \in labels
TokenInv(w) ==
  bound[w] # NoNode /\ bound[w] \notin contested =>
    \/ At(w, {"unbind"})
    \/ /\ Mine(bound[w], w)
       /\ \/ ctrl[bound[w]] = w \/ At(w, {"release_row"})
          \/ \E r \in Requests :
               req[r] = w /\ at[r] = "control" /\ got[r] = bound[w]

\* Requests.
Free(i) == i \notin contested
RequestInv(r) ==
  /\ at[r] \in Owning \cup {"name", "update", "unbind"} => got[r] \in Ids
  /\ at[r] \in Owning /\ Free(got[r]) => Mine(got[r], req[r])
  /\ at[r] \in {"name", "update"} /\ Free(got[r]) =>
       row[got[r]] = req[r] \/ req[r] \in spoilt
  /\ at[r] = "set" /\ Free(got[r]) => bound[req[r]] # got[r]
PairInv(r, q) ==
  /\ LoggingOut(q) /\ Busy(r) /\ req[r] = req[q] => req[q] \in spoilt
  /\ {at[r], at[q]} \subseteq Owning /\ Free(got[r]) => got[r] # got[q]

OwnInv ==
  /\ \A p \in Players : PlayerInv(p)
  /\ \A w \in Tokens : TokenInv(w)
  /\ \A r \in Requests : RequestInv(r)
  /\ \A r, q \in Requests : r # q => PairInv(r, q)

\* A session that is not spoilt does one thing at a time where it changes its
\* number; and while it is alive it has one, but when it logs in or out.
Sole(r) == \A q \in Requests \ {r} : req[q] = req[r] => ~Busy(q)
TaskInv(r) ==
  /\ r \in LogIns /\ Busy(r) => Sole(r)
  /\ LoggingOut(r) => Sole(r) \/ req[r] \in spoilt
  /\ at[r] \in {"set", "control"} => r \in LogIns \/ req[r] \in spoilt
  /\ Busy(r) /\ ~LoggingOut(r) => alive[req[r]] \/ req[r] \in spoilt
  /\ req[r] \notin spoilt =>
       /\ at[r] \in {"set", "forget"} => bound[req[r]] = NoNode
       /\ at[r] \in {"control", "release", "release_row", "unbind"} =>
            bound[req[r]] = got[r]
       /\ at[r] \in {"release_row", "unbind"} => ctrl[got[r]] # req[r]
       /\ at[r] = "unbind" => row[got[r]] # req[r]
       /\ Busy(r) /\ r \notin LogIns /\ at[r] # "forget" =>
            bound[req[r]] # NoNode
BoundInv(w) ==
  w \notin spoilt /\ alive[w] /\ bound[w] = NoNode =>
    \E r \in Requests :
      /\ req[r] = w
      /\ \/ at[r] = "forget"
         \/ r \in LogIns /\ at[r] \in {"bind", "set"}
SoleInv ==
  /\ \A r \in Requests : TaskInv(r)
  /\ \A w \in Tokens : BoundInv(w)

\* Whose rows and controls there are.
PlayerLeft(p) ==
  \A i \in Ids :
    /\ row[i] = p => IsOn(p) /\ node[p] = i
    /\ ctrl[i] = p =>
         IsOn(p) /\ place[p] \notin {"registered", "row"} /\ node[p] = i
TokenLeft(w) ==
  \A i \in Ids :
    /\ row[i] = w =>
         \/ bound[w] = i
         \/ \E r \in Requests : req[r] = w /\ at[r] = "set" /\ got[r] = i
    /\ ctrl[i] = w => bound[w] = i
LeftInv ==
  /\ \A p \in Players : PlayerLeft(p)
  /\ \A w \in Tokens : w \notin spoilt => TokenLeft(w)

-----------------------------------------------------------------------------
(* What the steps do to the numbers.  Most actions are alike in this; each *)
(* of these stands for the actions that EffectOf lists.                    *)

requests == <<alive, bound, req, at, got>>
others   == <<contested, spoilt>>

Stay == UNCHANGED <<row, shown, ctrl, place, node, drop, requests, others>>

ShowsOr(h) == shown' = shown \/ Update(node[h], h)

Walk(h) ==
  /\ h \in Lines /\ place[h] \notin Specials
  /\ \E to : to \notin Specials /\ Go(h, to)
  /\ ShowsOr(h)
  /\ UNCHANGED <<row, ctrl, node, drop, requests, others>>

Arrives(p) ==
  /\ place[p] = "new" /\ Register(p) /\ Go(p, "registered")
  /\ node' = [node EXCEPT ![p] = FreeNode]
  /\ UNCHANGED <<ctrl, drop, requests, others>>

Controls(h) ==
  /\ h \in Lines /\ place[h] = "registered"
  /\ RegisterControl(node[h], h) /\ Go(h, "login")
  /\ UNCHANGED <<row, shown, node, drop, requests, others>>

Opens(p) ==
  /\ \/ p \in Lines /\ place[p] = "doors"
     \/ p \in WebDoors /\ place[p] = "registered"
  /\ Update(node[p], p) /\ DropFor(p)
  /\ Go(p, "door")
  /\ UNCHANGED <<row, ctrl, node, requests, others>>

Closes(p) ==
  /\ place[p] = "door" /\ Update(node[p], p)
  /\ \/ p \in Lines /\ Go(p, "main")
     \/ p \in WebDoors /\ Go(p, "row")
  /\ drop' = [drop EXCEPT ![node[p]] = Nobody]
  /\ UNCHANGED <<row, ctrl, node, requests, others>>

Uncontrols(h) ==
  /\ h \in Lines /\ place[h] = "control"
  /\ UnregisterControl(node[h]) /\ Go(h, "row")
  /\ UNCHANGED <<row, shown, node, drop, requests, others>>

Leaves(p) ==
  /\ place[p] = "row" /\ Unregister(node[p]) /\ Go(p, "gone")
  /\ UNCHANGED <<ctrl, node, drop, requests, others>>

players == <<place, node, drop>>

Begins(r) ==
  /\ r \in LogIns /\ at[r] = "new" /\ ~alive[req[r]] /\ req[r] \notin spoilt
  /\ \A q \in Requests \ {r} : req[q] = req[r] => at[q] = "new"
  /\ alive' = [alive EXCEPT ![req[r]] = TRUE] /\ To(r, "bind")
  /\ UNCHANGED <<registry, players, bound, req, got, others>>

Asks(r) ==
  /\ HasToken(r) /\ at[r] = "new" /\ alive[req[r]] /\ To(r, "bind")
  /\ Race(r, [q \in Requests |-> LoggingOut(q)])
  /\ UNCHANGED <<registry, players, alive, bound, req, got, contested>>

Finds(r) ==
  /\ at[r] = "bind" /\ bound[req[r]] # NoNode /\ To(r, Bound(r))
  /\ UNCHANGED <<registry, players, alive, bound, req, got, others>>

Inserts(r) ==
  /\ at[r] = "bind" /\ bound[req[r]] = NoNode /\ Register(req[r])
  /\ got' = [got EXCEPT ![r] = FreeNode] /\ To(r, "set")
  /\ UNCHANGED <<ctrl, players, alive, bound, req, others>>

Binds(r) ==
  /\ at[r] = "set" /\ To(r, "control")
  /\ bound' = IF alive[req[r]] THEN [bound EXCEPT ![req[r]] = got[r]] ELSE bound
  /\ UNCHANGED <<registry, players, alive, req, got, others>>

Files(r) ==
  /\ at[r] = "control" /\ RegisterControl(got[r], req[r]) /\ To(r, "name")
  /\ UNCHANGED <<row, shown, players, alive, bound, req, got, others>>

Names(r) ==
  /\ at[r] \in {"name", "update"} /\ Update(got[r], req[r])
  /\ \/ at[r] = "name" /\ To(r, Bound(r))
     \/ at[r] = "update" /\ To(r, "page")
  /\ UNCHANGED <<row, ctrl, players, alive, bound, req, got, others>>

Touches(r) ==
  /\ at[r] = "touch" /\ got' = [got EXCEPT ![r] = bound[req[r]]]
  /\ To(r, IF bound[req[r]] = NoNode THEN "page" ELSE "update")
  /\ UNCHANGED <<registry, players, alive, bound, req, others>>

Serves(r) ==
  /\ at[r] \in {"page", "form"} /\ (To(r, "form") \/ To(r, "done"))
  /\ UNCHANGED <<registry, players, alive, bound, req, got, others>>

LogsOut(r) ==
  /\ HasToken(r) /\ at[r] = "new" /\ alive[req[r]]
  /\ Race(r, [q \in Requests |-> TRUE]) /\ Contest(r)
  /\ got' = [got EXCEPT ![r] = bound[req[r]]]
  /\ To(r, IF bound[req[r]] = NoNode THEN "forget" ELSE "release")
  /\ UNCHANGED <<registry, players, alive, bound, req>>

Unfiles(r) ==
  /\ at[r] = "release" /\ UnregisterControl(got[r]) /\ To(r, "release_row")
  /\ UNCHANGED <<row, shown, players, alive, bound, req, got, others>>

Removes(r) ==
  /\ at[r] = "release_row" /\ Unregister(got[r]) /\ To(r, "unbind")
  /\ UNCHANGED <<ctrl, players, alive, bound, req, got, others>>

Unbinds(r) ==
  /\ at[r] = "unbind" /\ To(r, "forget")
  /\ bound' = [bound EXCEPT ![req[r]] = NoNode]
  /\ UNCHANGED <<registry, players, alive, req, got, others>>

Forgets(r) ==
  /\ at[r] = "forget" /\ Delete(req[r]) /\ To(r, "done")
  /\ UNCHANGED <<registry, players, req, got, others>>

EndsSession(w) ==
  /\ Delete(w) /\ spoilt' = spoilt \cup {w}
  /\ UNCHANGED <<registry, players, req, at, got, contested>>

Purges(l) ==
  Purge(l, On \ {NoNode}) /\ UNCHANGED <<players, requests, spoilt>>

Effect ==
  \/ Stay \/ \E l \in Listings : Purges(l)
  \/ \E h \in Lines : Walk(h) \/ Controls(h) \/ Uncontrols(h)
  \/ \E p \in Players : Arrives(p) \/ Opens(p) \/ Closes(p) \/ Leaves(p)
  \/ \E r \in Requests :
       \/ Begins(r) \/ Asks(r) \/ Finds(r) \/ Inserts(r) \/ Binds(r)
       \/ Files(r) \/ Names(r) \/ Touches(r) \/ Serves(r) \/ LogsOut(r)
       \/ Unfiles(r) \/ Removes(r) \/ Unbinds(r) \/ Forgets(r)
  \/ \E w \in Tokens : EndsSession(w)

-----------------------------------------------------------------------------
(* Numbers, holders and menus.                                             *)

\* A set of naturals has its smallest member.
LEMMA Smallest ==
  ASSUME NEW S, S \subseteq Nat, S # {}
  PROVE  \E x \in S : \A y \in S : x <= y
<1> DEFINE Lower == OpToRel(<, Nat)
<1>1. PICK x \in S : \A y \in S : <<y, x>> \notin Lower
  BY WFMin, NatLessThanWellFounded
<1>2. \A m, n \in Nat : <<m, n>> \in Lower <=> m < n
  BY DEF OpToRel
<1> HIDE DEF Lower
<1>3. x \in Nat /\ \A y \in S : y \in Nat /\ ~(y < x)
  BY <1>1, <1>2
<1>4. QED
  BY <1>3

\* A number with a row is not given again.
LEMMA NewNumber ==
  ASSUME SessionTypes
  PROVE  FreeNode \notin Rows
<1> DEFINE S == Rows \cup {0}
           T == {k \in Nat : \E i \in S : k = MaxNode - i}
<1>1. S \subseteq 0..MaxNode /\ MaxNode \in Nat /\ 0 \in S
  BY RegistryAssumption DEF Rows, Ids
<1>2. T \subseteq Nat /\ T # {}
  BY <1>1
<1>3. PICK k \in T : \A n \in T : k <= n
  BY <1>2, Smallest
<1>4. PICK i \in S : k = MaxNode - i
  BY <1>3
<1>5. ASSUME NEW j \in S PROVE j <= i
  <2>1. MaxNode - j \in T
    BY <1>1
  <2>2. k <= MaxNode - j
    BY <1>3, <2>1
  <2>3. QED
    BY <1>1, <1>4, <2>2
<1>6. \E n \in S : \A j \in S : j <= n
  BY <1>5
<1> DEFINE top == CHOOSE m \in Rows \cup {0} : \A j \in Rows : j <= m
<1>7. top \in S /\ (\A j \in Rows : j <= top) /\ FreeNode = 1 + top
  BY <1>6 DEF FreeNode
<1> HIDE DEF top
<1>8. QED
  BY <1>1, <1>7

\* The three sorts of holders have nothing in common, and nobody is one.
LEMMA Sorts ==
  /\ Lines \cap Tokens = {} /\ Lines \cap WebDoors = {}
  /\ Tokens \cap WebDoors = {} /\ Holders = Lines \cup Tokens \cup WebDoors
  /\ Nobody \notin Holders /\ NoNode \notin Ids /\
       Players = Lines \cup WebDoors
BY SessionsAssumption, RegistryAssumption DEF Players, NoNode, Ids

\* No menu leads to the first or the last steps of a call, or into a door
\* by itself.
LEMMA MenuPlaces ==
  ASSUME NEW m \in Menus
  PROVE  /\ m \notin Specials /\ Menu[m].back \notin Specials
         /\ Menu[m].calls \cap Specials \subseteq {"door"}
<1>1. m \in {"main", "messages", "reading", "qwk", "netmail", "conferences",
      "files", "directory", "transfer", "talk", "profile", "application",
      "stats", "doors", "sysop", "kick", "fido", "nodelist", "address",
      "areafix", "downlink", "filefix", "joins", "approval", "routing",
      "member", "routes", "qwk_transfer", "editor_choice", "script_path",
      "new_conference", "echo_flags"}
  BY DEF Menus, Menu
<1>2. CASE m = "main"
  BY <1>2 DEF Menu, Specials, mainMenu
<1>3. CASE m = "messages"
  BY <1>3 DEF Menu, Specials, messagesMenu
<1>4. CASE m = "reading"
  BY <1>4 DEF Menu, Specials, readMessages
<1>5. CASE m = "qwk"
  BY <1>5 DEF Menu, Specials, qwkMenu
<1>6. CASE m = "netmail"
  BY <1>6 DEF Menu, Specials, netmailMenu
<1>7. CASE m = "conferences"
  BY <1>7 DEF Menu, Specials, conferenceMenu
<1>8. CASE m = "files"
  BY <1>8 DEF Menu, Specials, filesMenu
<1>9. CASE m = "directory"
  BY <1>9 DEF Menu, Specials, browseDir
<1>10. CASE m = "transfer"
  BY <1>10 DEF Menu, Specials, downloadFile
<1>11. CASE m = "talk"
  BY <1>11 DEF Menu, Specials, talkToNode
<1>12. CASE m = "profile"
  BY <1>12 DEF Menu, Specials, profileMenu
<1>13. CASE m = "application"
  BY <1>13 DEF Menu, Specials, applyToJoinNetwork
<1>14. CASE m = "stats"
  BY <1>14 DEF Menu, Specials, showStats
<1>15. CASE m = "doors"
  BY <1>15 DEF Menu, Specials, doorMenu
<1>16. CASE m = "sysop"
  BY <1>16 DEF Menu, Specials, sysopMenu
<1>17. CASE m = "kick"
  BY <1>17 DEF Menu, Specials, sysopKickNode
<1>18. CASE m = "fido"
  BY <1>18 DEF Menu, Specials, sysopFidoMenu
<1>19. CASE m = "nodelist"
  BY <1>19 DEF Menu, Specials, nodelistBrowser
<1>20. CASE m = "address"
  BY <1>20 DEF Menu, Specials, fidoPing
<1>21. CASE m = "areafix"
  BY <1>21 DEF Menu, Specials, fidoAreaFixMenu
<1>22. CASE m = "downlink"
  BY <1>22 DEF Menu, Specials, fidoAddDownlink
<1>23. CASE m = "filefix"
  BY <1>23 DEF Menu, Specials, fidoFileFixMenu
<1>24. CASE m = "joins"
  BY <1>24 DEF Menu, Specials, fidoJoinRequestsMenu
<1>25. CASE m = "approval"
  BY <1>25 DEF Menu, Specials, fidoApproveJoinRequest
<1>26. CASE m = "routing"
  BY <1>26 DEF Menu, Specials, fidoRoutingTableMenu
<1>27. CASE m = "member"
  BY <1>27 DEF Menu, Specials, fidoEditMemberInfo
<1>28. CASE m = "routes"
  BY <1>28 DEF Menu, Specials, fidoRoutesMenu
<1>29. CASE m = "qwk_transfer"
  BY <1>29 DEF Menu, Specials, downloadQwkPacket
<1>30. CASE m = "editor_choice"
  BY <1>30 DEF Menu, Specials, selectEditor
<1>31. CASE m = "script_path"
  BY <1>31 DEF Menu, Specials, ppeMenu
<1>32. CASE m = "new_conference"
  BY <1>32 DEF Menu, Specials, sysopCreateConference
<1>33. CASE m = "echo_flags"
  BY <1>33 DEF Menu, Specials, echoFlagConference
<1>34. QED
  BY <1>1, <1>2, <1>3, <1>4, <1>5, <1>6, <1>7, <1>8, <1>9, <1>10, <1>11,
     <1>12, <1>13, <1>14, <1>15, <1>16, <1>17, <1>18, <1>19, <1>20, <1>21,
     <1>22, <1>23, <1>24, <1>25, <1>26, <1>27, <1>28, <1>29, <1>30, <1>31,
     <1>32, <1>33

-----------------------------------------------------------------------------
(* Every step has one of the effects.                                      *)

LEMMA EffectOf ==
  ASSUME SessionTypes, [Next]_vars
  PROVE  Effect
<1>1. ASSUME NEW h \in Lines, TakeControl(h) PROVE Effect
  <2>1. Controls(h)
    BY <1>1 DEF TakeControl, registry, calls, web, requests, others, players,
       Controls
  <2>2. QED
    BY <2>1 DEF Effect
<1>2. ASSUME NEW h \in Lines, LoginFails(h) PROVE Effect
  <2>1. Walk(h)
    BY <1>2 DEF LoginFails, Go, Show, Up, Specials, Walk, ShowsOr, Editors,
       After, registry, calls, web, requests, others, players
  <2>2. QED
    BY <2>1 DEF Effect
<1>3. ASSUME NEW h \in Lines, Arrive(h) PROVE Effect
  <2>1. Walk(h)
    BY <1>3 DEF Arrive, Go, Show, Up, Specials, Walk, ShowsOr, Editors,
       registry, calls, web, requests, others, players
  <2>2. QED
    BY <2>1 DEF Effect
<1>4. ASSUME NEW h \in Lines, Answer(h) PROVE Effect
  <2>1. place[h] \in Menus /\ Go(h, Menu[place[h]].back) /\ ShowsOr(h)
    BY <1>4 DEF Answer, Enter, Show, ShowsOr, registry
  <2>2. Walk(h)
        BY <1>4, <2>1, MenuPlaces DEF Answer, Enter, Show, registry, calls,
       web, requests, others, Walk
  <2>3. QED
    BY <2>2 DEF Effect
<1>5. ASSUME NEW h \in Lines, EndLineEditor(h) PROVE Effect
  <2>1. Walk(h)
    BY <1>5 DEF EndLineEditor, Go, Show, Up, Specials, Walk, ShowsOr, Editors,
       registry, calls, web, requests, others, players
  <2>2. QED
    BY <2>1 DEF Effect
<1>6. ASSUME NEW h \in Lines, LogOff(h) PROVE Effect
  <2>1. Walk(h)
    BY <1>6 DEF LogOff, Go, Show, Up, Specials, Walk, ShowsOr, Editors, After,
       registry, calls, web, requests, others, players
  <2>2. QED
    BY <2>1 DEF Effect
<1>7. ASSUME NEW h \in Lines, EndControl(h) PROVE Effect
  <2>1. Uncontrols(h)
    BY <1>7 DEF EndControl, After, registry, calls, web, requests, others,
       players, Uncontrols
  <2>2. QED
    BY <2>1 DEF Effect
<1>8. ASSUME NEW h \in Lines, EndRow(h) PROVE Effect
  <2>1. Leaves(h)
    BY <1>8 DEF EndRow, After, registry, calls, web, requests, others,
       players, Leaves
  <2>2. QED
    BY <2>1 DEF Effect, Players
<1>9. ASSUME NEW h \in Lines, BoardReads(h) PROVE Effect
  <2>1. Stay
    BY <1>9 DEF BoardReads, Aboard, registry, calls, web, requests, others,
       players, Stay
  <2>2. QED
    BY <2>1 DEF Effect
<1>10. ASSUME NEW h \in Lines, EndTransfer(h) PROVE Effect
  <2>1. Walk(h)
        BY <1>10 DEF EndTransfer, Enter, Shows, Show, Go, ShowsOr, Specials,
       registry, calls, web, requests, others, Walk
  <2>2. QED
    BY <2>1 DEF Effect
<1>11. ASSUME NEW h \in Lines, LineFails(h) PROVE Effect
  <2>1. Stay
    BY <1>11 DEF LineFails, Aboard, registry, calls, web, requests, others,
       players, Stay
  <2>2. QED
    BY <2>1 DEF Effect
<1>12. ASSUME NEW h \in Lines, Transfer(h) PROVE Effect
  <2>1. Enter(h, "sending") \/ Enter(h, "receiving")
    BY <1>12 DEF Transfer
  <2>2. Walk(h)
        BY <1>12, <2>1 DEF Transfer, Enter, Shows, Show, Go, ShowsOr,
       Specials, registry, calls, web, requests, others, Walk
  <2>3. QED
    BY <2>2 DEF Effect
<1>13. ASSUME NEW h \in Lines, PortRuns(h) PROVE Effect
  <2>1. Stay
    BY <1>13 DEF PortRuns, Aboard, registry, calls, web, requests, others,
       players, Stay
  <2>2. QED
    BY <2>1 DEF Effect
<1>14. ASSUME NEW h \in Lines, OtherRuns(h) PROVE Effect
  <2>1. Stay
    BY <1>14 DEF OtherRuns, Aboard, registry, calls, web, requests, others,
       players, Stay
  <2>2. QED
    BY <2>1 DEF Effect
<1>15. ASSUME NEW h \in Lines, Keys(h) PROVE Effect
  <2>1. Stay
    BY <1>15 DEF Keys, Aboard, registry, calls, web, requests, others,
       players, Stay
  <2>2. QED
    BY <2>1 DEF Effect
<1>16. ASSUME NEW h \in Lines, Connect(h) PROVE Effect
  <2>1. Arrives(h)
    BY <1>16 DEF Connect, registry, calls, web, requests, others, players,
       Arrives
  <2>2. QED
    BY <2>1 DEF Effect, Players
<1>17. ASSUME NEW h \in Lines, LogIn(h) PROVE Effect
  <2>1. Walk(h)
    BY <1>17 DEF LogIn, Go, Show, Up, Specials, Walk, ShowsOr, Editors,
       registry, calls, web, requests, others, players
  <2>2. QED
    BY <2>1 DEF Effect
<1>18. ASSUME NEW h \in Lines, Choose(h) PROVE Effect
  <2>1. PICK to \in (Menu[place[h]].calls \cap cast) \ {"door", "script"} :
        Enter(h, to)
    BY <1>18 DEF Choose
  <2>2. place[h] \notin Specials /\ to \notin Specials
    BY <1>18, MenuPlaces DEF Choose
  <2>3. Walk(h)
        BY <1>18, <2>1, <2>2 DEF Choose, Enter, Show, ShowsOr, registry,
       calls, web, requests, others, Walk
  <2>4. QED
    BY <2>3 DEF Effect
<1>19. ASSUME NEW h \in Lines, EditKey(h) PROVE Effect
  <2>1. Stay
    BY <1>19 DEF EditKey, registry, calls, web, requests, others, players,
       Stay
  <2>2. QED
    BY <2>1 DEF Effect
<1>20. ASSUME NEW h \in Lines, EndScreenEditor(h) PROVE Effect
  <2>1. Walk(h)
    BY <1>20 DEF EndScreenEditor, Go, Show, Up, Specials, Walk, ShowsOr,
       Editors, registry, calls, web, requests, others, players
  <2>2. QED
    BY <2>1 DEF Effect
<1>21. ASSUME NEW h \in Lines, SaveProfile(h) PROVE Effect
  <2>1. Stay
    BY <1>21 DEF SaveProfile, registry, calls, web, requests, others, players,
       Stay
  <2>2. QED
    BY <2>1 DEF Effect
<1>22. ASSUME NEW h \in Lines, ChangePassword(h) PROVE Effect
  <2>1. Stay
    BY <1>22 DEF ChangePassword, registry, calls, web, requests, others,
       players, Stay
  <2>2. QED
    BY <2>1 DEF Effect
<1>23. ASSUME NEW h \in Lines, RunDoor(h) PROVE Effect
  <2>1. Opens(h)
    BY <1>23 DEF RunDoor, Enter, Shows, Show, Up, registry, calls, web,
       requests, others, players, Opens
  <2>2. QED
    BY <2>1 DEF Effect, Players
<1>24. ASSUME NEW h \in Lines, EndDoor(h) PROVE Effect
  <2>1. Closes(h)
    BY <1>24 DEF EndDoor, Show, registry, calls, web, requests, others,
       players, Closes
  <2>2. QED
    BY <2>1 DEF Effect, Players
<1>25. ASSUME NEW h \in Lines, RunPPE(h) PROVE Effect
  <2>1. Walk(h)
    BY <1>25 DEF RunPPE, Go, Show, Up, Specials, Walk, ShowsOr, Editors,
       Enter, Shows, registry, calls, web, requests, others, players
  <2>2. QED
    BY <2>1 DEF Effect
<1>26. ASSUME NEW h \in Lines, EndPPE(h) PROVE Effect
  <2>1. Walk(h)
    BY <1>26 DEF EndPPE, Go, Show, Up, Specials, Walk, ShowsOr, Editors,
       registry, calls, web, requests, others, players
  <2>2. QED
    BY <2>1 DEF Effect
<1>27. ASSUME NEW h \in Lines, HangUp(h) PROVE Effect
  <2>1. Stay
    BY <1>27 DEF HangUp, registry, calls, web, requests, others, players, Stay
  <2>2. QED
    BY <2>1 DEF Effect
<1>28. ASSUME NEW d \in WebDoors, OpenWebDoor(d) PROVE Effect
  <2>1. Arrives(d)
    BY <1>28 DEF OpenWebDoor, registry, calls, web, requests, others, players,
       Arrives
  <2>2. QED
    BY <2>1 DEF Effect, Players
<1>29. ASSUME NEW d \in WebDoors, RunWebDoor(d) PROVE Effect
  <2>1. Opens(d)
    BY <1>29 DEF RunWebDoor, Show, registry, calls, web, requests, others,
       players, Opens
  <2>2. QED
    BY <2>1 DEF Effect, Players
<1>30. ASSUME NEW d \in WebDoors, EndWebDoor(d) PROVE Effect
  <2>1. Closes(d)
    BY <1>30 DEF EndWebDoor, Show, registry, calls, web, requests, others,
       players, Closes
  <2>2. QED
    BY <2>1 DEF Effect, Players
<1>31. ASSUME NEW d \in WebDoors, CloseWebDoor(d) PROVE Effect
  <2>1. Leaves(d)
    BY <1>31 DEF CloseWebDoor, registry, calls, web, requests, others,
       players, Leaves
  <2>2. QED
    BY <2>1 DEF Effect, Players
<1>32. ASSUME NEW r \in Requests, WebLogIn(r) PROVE Effect
  <2>1. Begins(r)
    BY <1>32 DEF WebLogIn, registry, calls, web, requests, others, players,
       Begins
  <2>2. QED
    BY <2>1 DEF Effect
<1>33. ASSUME NEW r \in Requests, Page(r) PROVE Effect
  <2>1. Asks(r)
    BY <1>33 DEF Page, registry, calls, web, requests, others, players, Asks
  <2>2. QED
    BY <2>1 DEF Effect
<1>34. ASSUME NEW r \in Requests, BindRow(r) PROVE Effect
  <2>1. Finds(r) \/ Inserts(r)
    BY <1>34 DEF BindRow, Finds, Inserts, registry, calls, players, others
  <2>2. QED
    BY <2>1 DEF Effect
<1>35. ASSUME NEW r \in Requests, BindSession(r) PROVE Effect
  <2>1. Binds(r)
    BY <1>35 DEF BindSession, registry, calls, web, requests, others, players,
       Binds
  <2>2. QED
    BY <2>1 DEF Effect
<1>36. ASSUME NEW r \in Requests, BindControl(r) PROVE Effect
  <2>1. Files(r)
    BY <1>36 DEF BindControl, registry, calls, web, requests, others, players,
       Files
  <2>2. QED
    BY <2>1 DEF Effect
<1>37. ASSUME NEW r \in Requests, BindUpdate(r) PROVE Effect
  <2>1. Names(r)
    BY <1>37 DEF BindUpdate, registry, calls, web, requests, others, players,
       Names
  <2>2. QED
    BY <2>1 DEF Effect
<1>38. ASSUME NEW r \in Requests, Touch(r) PROVE Effect
  <2>1. Touches(r)
    BY <1>38 DEF Touch, registry, calls, web, requests, others, players,
       Touches
  <2>2. QED
    BY <2>1 DEF Effect
<1>39. ASSUME NEW r \in Requests, TouchUpdate(r) PROVE Effect
  <2>1. Names(r)
    BY <1>39 DEF TouchUpdate, registry, calls, web, requests, others, players,
       Names
  <2>2. QED
    BY <2>1 DEF Effect
<1>40. ASSUME NEW r \in Requests, Serve(r) PROVE Effect
  <2>1. Serves(r)
    BY <1>40 DEF Serve, registry, calls, web, requests, others, players,
       Serves
  <2>2. QED
    BY <2>1 DEF Effect
<1>41. ASSUME NEW r \in Requests, FormPassword(r) PROVE Effect
  <2>1. Stay
    BY <1>41 DEF FormPassword, registry, calls, web, requests, others,
       players, Stay
  <2>2. QED
    BY <2>1 DEF Effect
<1>42. ASSUME NEW r \in Requests, FormSave(r) PROVE Effect
  <2>1. Serves(r)
    BY <1>42 DEF FormSave, registry, calls, web, requests, others, players,
       Serves
  <2>2. QED
    BY <2>1 DEF Effect
<1>43. ASSUME NEW r \in Requests, LogOut(r) PROVE Effect
  <2>1. LogsOut(r)
    BY <1>43 DEF LogOut, registry, calls, web, requests, others, players,
       LogsOut
  <2>2. QED
    BY <2>1 DEF Effect
<1>44. ASSUME NEW r \in Requests, ReleaseControl(r) PROVE Effect
  <2>1. Unfiles(r)
    BY <1>44 DEF ReleaseControl, registry, calls, web, requests, others,
       players, Unfiles
  <2>2. QED
    BY <2>1 DEF Effect
<1>45. ASSUME NEW r \in Requests, ReleaseRow(r) PROVE Effect
  <2>1. Removes(r)
    BY <1>45 DEF ReleaseRow, registry, calls, web, requests, others, players,
       Removes
  <2>2. QED
    BY <2>1 DEF Effect
<1>46. ASSUME NEW r \in Requests, Unbind(r) PROVE Effect
  <2>1. Unbinds(r)
    BY <1>46 DEF Unbind, registry, calls, web, requests, others, players,
       Unbinds
  <2>2. QED
    BY <2>1 DEF Effect
<1>47. ASSUME NEW r \in Requests, Forget(r) PROVE Effect
  <2>1. Forgets(r)
    BY <1>47 DEF Forget, registry, calls, web, requests, others, players,
       Forgets
  <2>2. QED
    BY <2>1 DEF Effect
<1>48. ASSUME NEW e \in Edits, AdminDelete(e) PROVE Effect
  <2>1. Stay
    BY <1>48 DEF AdminDelete, Edit, registry, calls, web, requests, others,
       players, Stay
  <2>2. QED
    BY <2>1 DEF Effect
<1>49. ASSUME NEW e \in Edits, AdminPassword(e) PROVE Effect
  <2>1. Stay
    BY <1>49 DEF AdminPassword, Edit, registry, calls, web, requests, others,
       players, Stay
  <2>2. QED
    BY <2>1 DEF Effect
<1>50. ASSUME NEW e \in Edits, AdminRead(e) PROVE Effect
  <2>1. Stay
    BY <1>50 DEF AdminRead, Edit, registry, calls, web, requests, others,
       players, Stay
  <2>2. QED
    BY <2>1 DEF Effect
<1>51. ASSUME NEW e \in Edits, AdminSave(e) PROVE Effect
  <2>1. Stay
    BY <1>51 DEF AdminSave, Edit, registry, calls, web, requests, others,
       players, Stay
  <2>2. QED
    BY <2>1 DEF Effect
<1>52. ASSUME NEW w \in Tokens, Expire(w) PROVE Effect
  <2>1. EndsSession(w)
    BY <1>52 DEF Expire, registry, calls, web, requests, others, players,
       EndsSession
  <2>2. QED
    BY <2>1 DEF Effect
<1>53. ASSUME NEW i \in Ids, Kick(i) PROVE Effect
  <2>1. CASE ctrl[i] \in Lines
        BY <1>53, <2>1 DEF Kick, Disconnect, registry, requests, others, Stay,
       Effect
  <2>2. CASE ctrl[i] \notin Lines
    <3>1. ctrl[i] \in Tokens
      BY <1>53, <2>2 DEF Kick, SessionTypes
    <3>2. EndsSession(ctrl[i])
      BY <1>53, <2>2 DEF Kick, EndsSession, players
    <3>3. QED
      BY <3>1, <3>2 DEF Effect
  <2>3. QED
    BY <2>1, <2>2
<1>54. ASSUME NEW l \in Listings, List(l) PROVE Effect
  <2>1. CASE Snapshot(l)
        BY <1>54, <2>1 DEF List, Snapshot, registry, calls, web, requests,
       others, Stay, Effect
  <2>2. CASE Purge(l, On \ {NoNode})
    BY <1>54, <2>2 DEF List, calls, web, players, requests, Purges, Effect
  <2>3. QED
    BY <1>54, <2>1, <2>2 DEF List
<1>55. ASSUME UNCHANGED vars PROVE Effect
  BY <1>55 DEF vars, registry, calls, web, requests, others, Stay, Effect
<1>56. QED
  BY <1>1, <1>2, <1>3, <1>4, <1>5, <1>6, <1>7, <1>8, <1>9, <1>10, <1>11,
     <1>12, <1>13, <1>14, <1>15, <1>16, <1>17, <1>18, <1>19, <1>20, <1>21,
     <1>22, <1>23, <1>24, <1>25, <1>26, <1>27, <1>28, <1>29, <1>30, <1>31,
     <1>32, <1>33, <1>34, <1>35, <1>36, <1>37, <1>38, <1>39, <1>40, <1>41,
     <1>42, <1>43, <1>44, <1>45, <1>46, <1>47, <1>48, <1>49, <1>50, <1>51,
     <1>52, <1>53, <1>54, <1>55 DEF Next, LineStep, Command, DoorStep,
     WebStep, AdminStep


\* Every effect keeps the types.
LEMMA EffectTypes ==
  ASSUME SessionTypes, Effect
  PROVE  SessionTypes'
<1>1. ASSUME Stay PROVE SessionTypes'
  BY <1>1, Sorts DEF Stay, registry, requests, others, players, SessionTypes,
     Steps, Players
<1>2. ASSUME NEW l \in Listings, Purges(l) PROVE SessionTypes'
  <2>1. row' \in [Ids -> Holders \cup {Nobody}] /\
        shown' \in [Ids -> Holders \cup {Nobody}]
    BY <1>2 DEF Purges, Purge, SessionTypes
  <2>2. contested' \subseteq Ids
    BY <1>2 DEF Purges, Purge, SessionTypes, Rows
  <2>3. QED
    BY <1>2, <2>1, <2>2 DEF Purges, Purge, SessionTypes, requests, players
<1>3. ASSUME NEW h \in Lines, Walk(h) PROVE SessionTypes'
  <2>1. shown' \in [Ids -> Holders \cup {Nobody}]
    <3>1. CASE shown' = shown
      BY <3>1 DEF SessionTypes
    <3>2. CASE Update(node[h], h)
      BY <1>3, <3>2, Sorts DEF SessionTypes, Update
    <3>3. QED
      BY <1>3, <3>1, <3>2 DEF Walk, ShowsOr
  <2>2. place' = [p \in Players |-> place'[p]]
    BY <1>3 DEF Walk, Go, SessionTypes
  <2>3. QED
    BY <1>3, <2>1, <2>2 DEF Walk, SessionTypes, requests, others
<1>4. ASSUME NEW h \in Lines, Controls(h) PROVE SessionTypes'
  BY <1>4, Sorts DEF Controls, RegisterControl, Go, registry, requests,
     others, players, SessionTypes, Steps, Players
<1>5. ASSUME NEW h \in Lines, Uncontrols(h) PROVE SessionTypes'
  BY <1>5, Sorts DEF Uncontrols, UnregisterControl, Go, registry, requests,
     others, players, SessionTypes, Steps, Players
<1>6. ASSUME NEW p \in Players, Arrives(p) PROVE SessionTypes'
  BY <1>6, Sorts DEF Arrives, Register, Go, registry, requests, others,
     players, SessionTypes, Steps, Players
<1>7. ASSUME NEW p \in Players, Opens(p) PROVE SessionTypes'
  BY <1>7, Sorts DEF Opens, Update, DropFor, Go, registry, requests, others,
     players, SessionTypes, Steps, Players
<1>8. ASSUME NEW p \in Players, Closes(p) PROVE SessionTypes'
  BY <1>8, Sorts DEF Closes, Update, Go, registry, requests, others, players,
     SessionTypes, Steps, Players
<1>9. ASSUME NEW p \in Players, Leaves(p) PROVE SessionTypes'
  BY <1>9, Sorts DEF Leaves, Unregister, Go, registry, requests, others,
     players, SessionTypes, Steps, Players
<1>10. ASSUME NEW r \in Requests, Begins(r) PROVE SessionTypes'
  BY <1>10, Sorts DEF Begins, To, registry, requests, others, players,
     SessionTypes, Steps, Players
<1>11. ASSUME NEW r \in Requests, Asks(r) PROVE SessionTypes'
  BY <1>11, Sorts DEF Asks, To, Race, Beside, registry, requests, others,
     players, SessionTypes, Steps, Players
<1>12. ASSUME NEW r \in Requests, Finds(r) PROVE SessionTypes'
  BY <1>12, Sorts DEF Finds, To, Bound, registry, requests, others, players,
     SessionTypes, Steps, Players
<1>13. ASSUME NEW r \in Requests, Inserts(r) PROVE SessionTypes'
  BY <1>13, Sorts DEF Inserts, Register, To, registry, requests, others,
     players, SessionTypes, Steps, Players
<1>14. ASSUME NEW r \in Requests, Binds(r) PROVE SessionTypes'
  BY <1>14, Sorts DEF Binds, To, registry, requests, others, players,
     SessionTypes, Steps, Players
<1>15. ASSUME NEW r \in Requests, Files(r) PROVE SessionTypes'
  BY <1>15, Sorts DEF Files, RegisterControl, To, registry, requests, others,
     players, SessionTypes, Steps, Players
<1>16. ASSUME NEW r \in Requests, Names(r) PROVE SessionTypes'
  BY <1>16, Sorts DEF Names, Update, To, Bound, registry, requests, others,
     players, SessionTypes, Steps, Players
<1>17. ASSUME NEW r \in Requests, Touches(r) PROVE SessionTypes'
  BY <1>17, Sorts DEF Touches, To, registry, requests, others, players,
     SessionTypes, Steps, Players
<1>18. ASSUME NEW r \in Requests, Serves(r) PROVE SessionTypes'
  BY <1>18, Sorts DEF Serves, To, registry, requests, others, players,
     SessionTypes, Steps, Players
<1>19. ASSUME NEW r \in Requests, LogsOut(r) PROVE SessionTypes'
  <2>1. contested' \subseteq Ids
    BY <1>19, Sorts DEF LogsOut, Contest, SessionTypes
  <2>2. spoilt' \subseteq Tokens
    BY <1>19 DEF LogsOut, Race, SessionTypes
  <2>3. at' \in [Requests -> Steps] /\ got' \in [Requests -> Ids \cup {NoNode}]
    BY <1>19 DEF LogsOut, To, SessionTypes, Steps
  <2>4. QED
    BY <1>19, <2>1, <2>2, <2>3 DEF LogsOut, SessionTypes, registry, players
<1>20. ASSUME NEW r \in Requests, Unfiles(r) PROVE SessionTypes'
  BY <1>20, Sorts DEF Unfiles, UnregisterControl, To, registry, requests,
     others, players, SessionTypes, Steps, Players
<1>21. ASSUME NEW r \in Requests, Removes(r) PROVE SessionTypes'
  BY <1>21, Sorts DEF Removes, Unregister, To, registry, requests, others,
     players, SessionTypes, Steps, Players
<1>22. ASSUME NEW r \in Requests, Unbinds(r) PROVE SessionTypes'
  BY <1>22, Sorts DEF Unbinds, To, registry, requests, others, players,
     SessionTypes, Steps, Players
<1>23. ASSUME NEW r \in Requests, Forgets(r) PROVE SessionTypes'
  BY <1>23, Sorts DEF Forgets, To, Delete, registry, requests, others,
     players, SessionTypes, Steps, Players
<1>24. ASSUME NEW w \in Tokens, EndsSession(w) PROVE SessionTypes'
  BY <1>24, Sorts DEF EndsSession, Delete, registry, requests, others,
     players, SessionTypes, Steps, Players
<1>25. QED
  BY <1>1, <1>2, <1>3, <1>4, <1>5, <1>6, <1>7, <1>8, <1>9, <1>10, <1>11,
     <1>12, <1>13, <1>14, <1>15, <1>16, <1>17, <1>18, <1>19, <1>20, <1>21,
     <1>22, <1>23, <1>24 DEF Effect


-----------------------------------------------------------------------------
(* The numbers of callers and web doors.                                   *)

\* A number that is not contested has the row of its player; so two players
\* never have it, and no request has it in hand.
LEMMA OwnRow ==
  ASSUME OwnInv, NEW x \in Players, IsOn(x), node[x] \notin contested
  PROVE  /\ node[x] \in Ids /\ row[node[x]] = x
         /\ \A y \in Players \ {x} : IsOn(y) => node[y] # node[x]
         /\ \A r \in Requests : at[r] \in Owning /\ req[r] \in Tokens =>
              got[r] # node[x]
<1>1. PlayerInv(x) /\ \A y \in Players : PlayerInv(y)
  BY DEF OwnInv
<1>2. node[x] \in Ids /\ row[node[x]] = x
  BY <1>1 DEF PlayerInv, Mine
<1>3. ASSUME NEW y \in Players \ {x}, IsOn(y) PROVE node[y] # node[x]
  BY <1>1, <1>2, <1>3 DEF PlayerInv, Mine
<1>4. ASSUME NEW r \in Requests, at[r] \in Owning, req[r] \in Tokens
      PROVE  got[r] # node[x]
  <2>1. RequestInv(r)
    BY DEF OwnInv
  <2>2. QED
    BY <1>2, <1>4, <2>1, Sorts DEF RequestInv, Mine, Free
<1>5. QED
  BY <1>2, <1>3, <1>4

\* What is left alone at its number keeps a player's number.
LEMMA PlayerKept ==
  ASSUME OwnInv, NEW x \in Players, place'[x] = place[x], node'[x] = node[x],
         contested \subseteq contested', spoilt \subseteq spoilt',
         IsOn(x) /\ node[x] \notin contested' =>
           /\ row'[node[x]] = row[node[x]] /\ ctrl'[node[x]] = ctrl[node[x]]
           /\ shown'[node[x]] \in {shown[node[x]], Nobody, x} \cup spoilt'
           /\ drop'[node[x]] = drop[node[x]]
  PROVE  PlayerInv(x)'
<1>1. PlayerInv(x)
  BY DEF OwnInv
<1>2. QED
  BY <1>1 DEF PlayerInv, IsOn, Mine

\* Players keep their numbers.
LEMMA PlayersKeep ==
  ASSUME SessionTypes, OwnInv, NEW x \in Players, Effect
  PROVE  PlayerInv(x)'
<1>1. ASSUME Stay PROVE PlayerInv(x)'
  BY <1>1, Sorts, NewNumber DEF Stay, registry, requests, others, players,
     SessionTypes, OwnInv, PlayerInv, RequestInv, Mine, IsOn, Owning, Free,
     Specials, Rows, Players
<1>2. ASSUME NEW l \in Listings, Purges(l) PROVE PlayerInv(x)'
  <2>1. place'[x] = place[x] /\ node'[x] = node[x] /\ spoilt' = spoilt
    BY <1>2 DEF Purges, players
  <2>2. contested \subseteq contested'
    BY <1>2 DEF Purges, Purge
  <2>3. ASSUME IsOn(x), node[x] \notin contested'
        PROVE  node[x] \in Ids /\ node[x] \in snap[l]
    <3>1. node[x] \in Ids /\ row[node[x]] = x
      BY <2>2, <2>3, OwnRow
    <3>2. node[x] \in (On \ {NoNode}) \cap Rows
      BY <2>3, <3>1, Sorts DEF On, Rows
    <3>3. QED
      BY <1>2, <2>3, <3>1, <3>2 DEF Purges, Purge
  <2>4. QED
    BY <1>2, <2>1, <2>2, <2>3, PlayerKept DEF Purges, Purge, players
<1>3. ASSUME NEW h \in Lines, Walk(h) PROVE PlayerInv(x)'
  <2>1. UNCHANGED <<row, ctrl, node, drop, contested, spoilt>> /\ ShowsOr(h)
    BY <1>3 DEF Walk, others
  <2>2. CASE x # h
    <3>1. place'[x] = place[x] /\ IsOn(h)
      BY <1>3, <2>2 DEF Walk, SessionTypes, Go, IsOn, Specials
    <3>2. ASSUME IsOn(x), node[x] \notin contested
          PROVE  shown'[node[x]] = shown[node[x]]
      <4>1. node[h] # node[x] /\ node[x] \in Ids
        BY <2>2, <3>1, <3>2, OwnRow, Sorts
      <4>2. QED
        BY <2>1, <4>1 DEF ShowsOr, Update, SessionTypes
    <3>3. QED
      BY <2>1, <3>1, <3>2, PlayerKept
  <2>3. CASE x = h
    <3>1. IsOn(x) /\ IsOn(x)' /\ place[x] \notin Specials /\
          place'[x] \notin Specials
      BY <1>3, <2>3 DEF Walk, Go, IsOn, Specials, SessionTypes
    <3>2. node[x] \in Ids /\ x \notin WebDoors
      BY <2>3, <3>1, Sorts DEF OwnInv, PlayerInv
    <3>3. shown'[node[x]] \in {shown[node[x]], x}
      BY <2>1, <2>3, <3>2 DEF ShowsOr, Update, SessionTypes
    <3>4. QED
      BY <2>1, <3>1, <3>2, <3>3 DEF OwnInv, PlayerInv, Mine, Specials
  <2>4. QED
    BY <2>2, <2>3
<1>4. ASSUME NEW h \in Lines, Controls(h) PROVE PlayerInv(x)'
  <2>1. CASE x # h
    <3>1. place'[x] = place[x] /\ node'[x] = node[x]
      BY <1>4, <2>1 DEF Controls, SessionTypes, Go, players, others
    <3>2. contested' = contested /\ spoilt' = spoilt
      BY <1>4 DEF Controls, others
    <3>3. QED
      BY <1>4, <2>1, <3>1, <3>2, OwnRow, PlayerKept, Sorts DEF Controls,
         RegisterControl, SessionTypes, registry, players, others, IsOn,
         Players
  <2>2. CASE x = h
    BY <1>4, <2>2, Sorts DEF Controls, RegisterControl, Go, Specials, OwnInv,
       PlayerInv, Mine, registry, players, requests, others, SessionTypes,
       IsOn, Rows
  <2>3. QED
    BY <2>1, <2>2
<1>5. ASSUME NEW h \in Lines, Uncontrols(h) PROVE PlayerInv(x)'
  <2>1. CASE x # h
    <3>1. place'[x] = place[x] /\ node'[x] = node[x]
      BY <1>5, <2>1 DEF Uncontrols, SessionTypes, Go, players, others
    <3>2. contested' = contested /\ spoilt' = spoilt
      BY <1>5 DEF Uncontrols, others
    <3>3. QED
      BY <1>5, <2>1, <3>1, <3>2, OwnRow, PlayerKept, Sorts DEF Uncontrols,
         UnregisterControl, SessionTypes, registry, players, others, IsOn,
         Players
  <2>2. CASE x = h
    BY <1>5, <2>2, Sorts DEF Uncontrols, UnregisterControl, Go, Specials,
       OwnInv, PlayerInv, Mine, registry, players, requests, others,
       SessionTypes, IsOn, Rows
  <2>3. QED
    BY <2>1, <2>2
<1>6. ASSUME NEW p \in Players, Arrives(p) PROVE PlayerInv(x)'
  <2>1. CASE x # p
    <3>1. place'[x] = place[x] /\ node'[x] = node[x]
      BY <1>6, <2>1 DEF Arrives, SessionTypes, Go, players, others
    <3>2. contested' = contested /\ spoilt' = spoilt
      BY <1>6 DEF Arrives, others
    <3>3. ASSUME IsOn(x), node[x] \notin contested
         PROVE  FreeNode # node[x] /\ node[x] \in Ids
      BY <3>3, OwnRow, NewNumber, Sorts DEF Rows
    <3>4. QED
      BY <1>6, <2>1, <3>1, <3>2, <3>3, PlayerKept, Sorts DEF Arrives,
         Register, SessionTypes, registry, players, others, IsOn, Players
  <2>2. CASE x = p
    BY <1>6, <2>2, Sorts DEF Arrives, Register, Go, Specials, OwnInv,
       PlayerInv, Mine, registry, players, requests, others, SessionTypes,
       IsOn, Rows
  <2>3. QED
    BY <2>1, <2>2
<1>7. ASSUME NEW p \in Players, Opens(p) PROVE PlayerInv(x)'
  <2>1. CASE x # p
    <3>1. place'[x] = place[x] /\ node'[x] = node[x]
      BY <1>7, <2>1 DEF Opens, SessionTypes, Go, players, others
    <3>2. contested' = contested /\ spoilt' = spoilt
      BY <1>7 DEF Opens, others
    <3>3. QED
      BY <1>7, <2>1, <3>1, <3>2, OwnRow, PlayerKept, Sorts DEF Opens, Update,
         DropFor, SessionTypes, registry, players, others, IsOn, Players
  <2>2. CASE x = p
    BY <1>7, <2>2, Sorts DEF Opens, Update, DropFor, Go, Specials, OwnInv,
       PlayerInv, Mine, registry, players, requests, others, SessionTypes,
       IsOn, Rows
  <2>3. QED
    BY <2>1, <2>2
<1>8. ASSUME NEW p \in Players, Closes(p) PROVE PlayerInv(x)'
  <2>1. CASE x # p
    <3>1. place'[x] = place[x] /\ node'[x] = node[x]
      BY <1>8, <2>1 DEF Closes, SessionTypes, Go, players, others
    <3>2. contested' = contested /\ spoilt' = spoilt
      BY <1>8 DEF Closes, others
    <3>3. QED
      BY <1>8, <2>1, <3>1, <3>2, OwnRow, PlayerKept, Sorts DEF Closes, Update,
         SessionTypes, registry, players, others, IsOn, Players
  <2>2. CASE x = p
    BY <1>8, <2>2, Sorts DEF Closes, Update, Go, Specials, OwnInv, PlayerInv,
       Mine, registry, players, requests, others, SessionTypes, IsOn, Rows
  <2>3. QED
    BY <2>1, <2>2
<1>9. ASSUME NEW p \in Players, Leaves(p) PROVE PlayerInv(x)'
  <2>1. CASE x # p
    <3>1. place'[x] = place[x] /\ node'[x] = node[x]
      BY <1>9, <2>1 DEF Leaves, SessionTypes, Go, players, others
    <3>2. contested' = contested /\ spoilt' = spoilt
      BY <1>9 DEF Leaves, others
    <3>3. QED
      BY <1>9, <2>1, <3>1, <3>2, OwnRow, PlayerKept, Sorts DEF Leaves,
         Unregister, SessionTypes, registry, players, others, IsOn, Players
  <2>2. CASE x = p
    BY <1>9, <2>2, Sorts DEF Leaves, Unregister, Go, Specials, OwnInv,
       PlayerInv, Mine, registry, players, requests, others, SessionTypes,
       IsOn, Rows
  <2>3. QED
    BY <2>1, <2>2
<1>10. ASSUME NEW r \in Requests, Begins(r) PROVE PlayerInv(x)'
  BY <1>10, Sorts, NewNumber DEF Begins, To, registry, requests, others,
     players, SessionTypes, OwnInv, PlayerInv, RequestInv, Mine, IsOn, Owning,
     Free, Specials, Rows, Players
<1>11. ASSUME NEW r \in Requests, Asks(r) PROVE PlayerInv(x)'
  BY <1>11, Sorts, NewNumber DEF Asks, To, Race, Beside, registry, requests,
     others, players, SessionTypes, OwnInv, PlayerInv, RequestInv, Mine, IsOn,
     Owning, Free, Specials, Rows, Players
<1>12. ASSUME NEW r \in Requests, Finds(r) PROVE PlayerInv(x)'
  BY <1>12, Sorts, NewNumber DEF Finds, To, Bound, registry, requests, others,
     players, SessionTypes, OwnInv, PlayerInv, RequestInv, Mine, IsOn, Owning,
     Free, Specials, Rows, Players
<1>13. ASSUME NEW r \in Requests, Inserts(r) PROVE PlayerInv(x)'
  <2>1. place'[x] = place[x] /\ node'[x] = node[x]
    BY <1>13 DEF Inserts, players
  <2>2. contested \subseteq contested' /\ spoilt' = spoilt
    BY <1>13 DEF Inserts, others
  <2>3. ASSUME IsOn(x), node[x] \notin contested
        PROVE  FreeNode # node[x] /\ node[x] \in Ids
    BY <2>3, OwnRow, NewNumber, Sorts DEF Rows
  <2>4. QED
    BY <1>13, <2>1, <2>2, <2>3, PlayerKept, Sorts DEF Inserts, Register,
       players, SessionTypes, registry, players, others, IsOn, Players
<1>14. ASSUME NEW r \in Requests, Binds(r) PROVE PlayerInv(x)'
  BY <1>14, Sorts, NewNumber DEF Binds, To, registry, requests, others,
     players, SessionTypes, OwnInv, PlayerInv, RequestInv, Mine, IsOn, Owning,
     Free, Specials, Rows, Players
<1>15. ASSUME NEW r \in Requests, Files(r) PROVE PlayerInv(x)'
  <2>1. place'[x] = place[x] /\ node'[x] = node[x]
    BY <1>15 DEF Files, players
  <2>2. contested \subseteq contested' /\ spoilt' = spoilt
    BY <1>15 DEF Files, others
  <2>3. QED
    BY <1>15, <2>1, <2>2, OwnRow, PlayerKept, Sorts DEF Files,
       RegisterControl, Owning, SessionTypes, registry, players, others, IsOn,
       Players
<1>16. ASSUME NEW r \in Requests, Names(r) PROVE PlayerInv(x)'
  <2>1. CASE shown' = [shown EXCEPT ![got[r]] = req[r]] /\
        got[r] = node[x] /\ got[r] \notin contested /\ IsOn(x)
    <3>1. row[got[r]] = x /\ req[r] \in Tokens
      BY <2>1, OwnRow DEF SessionTypes
    <3>2. req[r] \in spoilt
      BY <1>16, <2>1, <3>1, Sorts DEF OwnInv, RequestInv, Free, Names
    <3>3. QED
      BY <1>16, <2>1, <3>2, PlayerKept, OwnRow DEF Names, players, others,
         SessionTypes
  <2>2. CASE ~(got[r] = node[x] /\ got[r] \notin contested /\ IsOn(x)) \/
        shown' = shown
    BY <1>16, <2>2, PlayerKept, OwnRow DEF Names, Update, players, others,
       SessionTypes
  <2>3. QED
    BY <1>16, <2>1, <2>2 DEF Names, Update
<1>17. ASSUME NEW r \in Requests, Touches(r) PROVE PlayerInv(x)'
  BY <1>17, Sorts, NewNumber DEF Touches, To, registry, requests, others,
     players, SessionTypes, OwnInv, PlayerInv, RequestInv, Mine, IsOn, Owning,
     Free, Specials, Rows, Players
<1>18. ASSUME NEW r \in Requests, Serves(r) PROVE PlayerInv(x)'
  BY <1>18, Sorts, NewNumber DEF Serves, To, registry, requests, others,
     players, SessionTypes, OwnInv, PlayerInv, RequestInv, Mine, IsOn, Owning,
     Free, Specials, Rows, Players
<1>19. ASSUME NEW r \in Requests, LogsOut(r) PROVE PlayerInv(x)'
  BY <1>19, Sorts, NewNumber DEF LogsOut, To, Race, Contest, Beside, registry,
     requests, others, players, SessionTypes, OwnInv, PlayerInv, RequestInv,
     Mine, IsOn, Owning, Free, Specials, Rows, Players
<1>20. ASSUME NEW r \in Requests, Unfiles(r) PROVE PlayerInv(x)'
  <2>1. place'[x] = place[x] /\ node'[x] = node[x]
    BY <1>20 DEF Unfiles, players
  <2>2. contested \subseteq contested' /\ spoilt' = spoilt
    BY <1>20 DEF Unfiles, others
  <2>3. QED
    BY <1>20, <2>1, <2>2, OwnRow, PlayerKept, Sorts DEF Unfiles,
       UnregisterControl, Owning, SessionTypes, registry, players, others,
       IsOn, Players
<1>21. ASSUME NEW r \in Requests, Removes(r) PROVE PlayerInv(x)'
  <2>1. place'[x] = place[x] /\ node'[x] = node[x]
    BY <1>21 DEF Removes, players
  <2>2. contested \subseteq contested' /\ spoilt' = spoilt
    BY <1>21 DEF Removes, others
  <2>3. QED
    BY <1>21, <2>1, <2>2, OwnRow, PlayerKept, Sorts DEF Removes, Unregister,
       Owning, SessionTypes, registry, players, others, IsOn, Players
<1>22. ASSUME NEW r \in Requests, Unbinds(r) PROVE PlayerInv(x)'
  BY <1>22, Sorts, NewNumber DEF Unbinds, To, registry, requests, others,
     players, SessionTypes, OwnInv, PlayerInv, RequestInv, Mine, IsOn, Owning,
     Free, Specials, Rows, Players
<1>23. ASSUME NEW r \in Requests, Forgets(r) PROVE PlayerInv(x)'
  BY <1>23, Sorts, NewNumber DEF Forgets, To, Delete, registry, requests,
     others, players, SessionTypes, OwnInv, PlayerInv, RequestInv, Mine, IsOn,
     Owning, Free, Specials, Rows, Players
<1>24. ASSUME NEW w \in Tokens, EndsSession(w) PROVE PlayerInv(x)'
  BY <1>24, Sorts, NewNumber DEF EndsSession, Delete, registry, requests,
     others, players, SessionTypes, OwnInv, PlayerInv, RequestInv, Mine, IsOn,
     Owning, Free, Specials, Rows, Players
<1>25. QED
  BY <1>1, <1>2, <1>3, <1>4, <1>5, <1>6, <1>7, <1>8, <1>9, <1>10, <1>11,
     <1>12, <1>13, <1>14, <1>15, <1>16, <1>17, <1>18, <1>19, <1>20, <1>21,
     <1>22, <1>23, <1>24 DEF Effect


-----------------------------------------------------------------------------
(* The numbers of web sessions.                                            *)

\* Where a session has the row of its number, nobody else is on with it.
LEMMA OwnSession ==
  ASSUME SessionTypes, OwnInv, NEW w \in Tokens, NEW i \in Ids,
         i \notin contested, row[i] = w
  PROVE  /\ \A p \in Players : IsOn(p) => node[p] # i
         /\ \A r \in Requests : at[r] \in Owning /\ got[r] = i => req[r] = w
         /\ \A r \in Requests : at[r] \in {"name", "update"} /\ got[r] = i =>
              req[r] \in {w} \cup spoilt
         /\ i \in Rows
<1>1. ASSUME NEW p \in Players, IsOn(p) PROVE node[p] # i
  BY <1>1, OwnRow, Sorts
<1>2. ASSUME NEW r \in Requests PROVE RequestInv(r)
  BY DEF OwnInv
<1>3. QED
  BY <1>1, <1>2, Sorts DEF RequestInv, Mine, Free, Rows

\* What is left alone at its number keeps a session's number.
LEMMA TokenKept ==
  ASSUME OwnInv, NEW w \in Tokens, bound'[w] = bound[w], req' = req,
         contested \subseteq contested', spoilt \subseteq spoilt',
         \A r \in Requests :
           req[r] = w /\ at[r] \in {"unbind", "release_row", "control"} =>
             at'[r] = at[r] /\ got'[r] = got[r],
         bound[w] \notin contested' /\ bound[w] # NoNode /\
           row[bound[w]] = w =>
           /\ row'[bound[w]] = w /\ ctrl'[bound[w]] = ctrl[bound[w]]
           /\ shown'[bound[w]] \in {shown[bound[w]], Nobody, w} \cup spoilt'
  PROVE  TokenInv(w)'
<1>1. TokenInv(w)
  BY DEF OwnInv
<1>2. At(w, {"unbind"}) => At(w, {"unbind"})'
  BY DEF At
<1>3. At(w, {"release_row"}) => At(w, {"release_row"})'
  BY DEF At
<1>4. (\E r \in Requests : req[r] = w /\ at[r] = "control" /\
      got[r] = bound[w])
      => (\E r \in Requests :
            req[r] = w /\ at[r] = "control" /\ got[r] = bound[w])'
  OBVIOUS
<1>5. QED
  BY <1>1, <1>2, <1>3, <1>4 DEF TokenInv, Mine


\* Web sessions keep their numbers.
LEMMA TokensKeep ==
  ASSUME SessionTypes, OwnInv, NEW x \in Tokens, Effect
  PROVE  TokenInv(x)'
<1>1. ASSUME Stay PROVE TokenInv(x)'
  BY <1>1, TokenKept DEF Stay, requests, others
<1>2. ASSUME NEW l \in Listings, Purges(l) PROVE TokenInv(x)'
  <2>1. UNCHANGED <<bound, req, at, got, spoilt, ctrl>>
    BY <1>2 DEF Purges, Purge, requests
  <2>2. contested \subseteq contested'
    BY <1>2 DEF Purges, Purge
  <2>3. ASSUME bound[x] \in Ids, bound[x] \notin contested', row[bound[x]] = x
        PROVE  bound[x] \in snap[l]
    <3>1. bound[x] \in (On \ {NoNode}) \cap Rows
      BY <2>3, Sorts DEF On, Rows
    <3>2. QED
      BY <1>2, <2>3, <3>1 DEF Purges, Purge
  <2>4. QED
    BY <1>2, <2>1, <2>2, <2>3, TokenKept DEF Purges, Purge, SessionTypes
<1>3. ASSUME NEW h \in Lines, Walk(h) PROVE TokenInv(x)'
  <2>1. UNCHANGED <<bound, req, at, got, contested, spoilt>>
    BY <1>3 DEF Walk, requests, others
  <2>2. ASSUME bound[x] \in Ids, bound[x] \notin contested, row[bound[x]] = x
        PROVE  node[h] # bound[x]
    <3>1. IsOn(h)
      BY <1>3 DEF Walk, IsOn, Specials
    <3>2. QED
      BY <1>3, <2>2, <3>1, OwnSession, Sorts DEF Players
  <2>3. QED
    BY <1>3, <2>1, <2>2, TokenKept, Sorts DEF Walk, Update, ShowsOr,
       SessionTypes, registry
<1>4. ASSUME NEW h \in Lines, Controls(h) PROVE TokenInv(x)'
  <2>1. UNCHANGED <<bound, req, at, got, contested, spoilt>>
    BY <1>4 DEF Controls, requests, others
  <2>2. ASSUME bound[x] \in Ids, bound[x] \notin contested, row[bound[x]] = x
        PROVE  node[h] # bound[x]
    <3>1. IsOn(h)
      BY <1>4 DEF Controls, IsOn, Specials
    <3>2. QED
      BY <1>4, <2>2, <3>1, OwnSession, Sorts DEF Players
  <2>3. QED
    BY <1>4, <2>1, <2>2, TokenKept, Sorts DEF Controls, RegisterControl,
       SessionTypes, registry
<1>5. ASSUME NEW h \in Lines, Uncontrols(h) PROVE TokenInv(x)'
  <2>1. UNCHANGED <<bound, req, at, got, contested, spoilt>>
    BY <1>5 DEF Uncontrols, requests, others
  <2>2. ASSUME bound[x] \in Ids, bound[x] \notin contested, row[bound[x]] = x
        PROVE  node[h] # bound[x]
    <3>1. IsOn(h)
      BY <1>5 DEF Uncontrols, IsOn, Specials
    <3>2. QED
      BY <1>5, <2>2, <3>1, OwnSession, Sorts DEF Players
  <2>3. QED
    BY <1>5, <2>1, <2>2, TokenKept, Sorts DEF Uncontrols, UnregisterControl,
       SessionTypes, registry
<1>6. ASSUME NEW p \in Players, Arrives(p) PROVE TokenInv(x)'
  <2>1. UNCHANGED <<bound, req, at, got, contested, spoilt>>
    BY <1>6 DEF Arrives, requests, others
  <2>2. ASSUME bound[x] \in Ids, row[bound[x]] = x PROVE bound[x] # FreeNode
    BY <2>2, NewNumber, Sorts DEF Rows

  <2>3. QED
    BY <1>6, <2>1, <2>2, TokenKept, Sorts DEF Arrives, Register, SessionTypes,
       registry
<1>7. ASSUME NEW p \in Players, Opens(p) PROVE TokenInv(x)'
  <2>1. UNCHANGED <<bound, req, at, got, contested, spoilt>>
    BY <1>7 DEF Opens, requests, others
  <2>2. ASSUME bound[x] \in Ids, bound[x] \notin contested, row[bound[x]] = x
        PROVE  node[p] # bound[x]
    <3>1. IsOn(p)
      BY <1>7 DEF Opens, IsOn, Specials
    <3>2. QED
      BY <1>7, <2>2, <3>1, OwnSession, Sorts DEF Players
  <2>3. QED
    BY <1>7, <2>1, <2>2, TokenKept, Sorts DEF Opens, Update, SessionTypes,
       registry
<1>8. ASSUME NEW p \in Players, Closes(p) PROVE TokenInv(x)'
  <2>1. UNCHANGED <<bound, req, at, got, contested, spoilt>>
    BY <1>8 DEF Closes, requests, others
  <2>2. ASSUME bound[x] \in Ids, bound[x] \notin contested, row[bound[x]] = x
        PROVE  node[p] # bound[x]
    <3>1. IsOn(p)
      BY <1>8 DEF Closes, IsOn, Specials
    <3>2. QED
      BY <1>8, <2>2, <3>1, OwnSession, Sorts DEF Players
  <2>3. QED
    BY <1>8, <2>1, <2>2, TokenKept, Sorts DEF Closes, Update, SessionTypes,
       registry
<1>9. ASSUME NEW p \in Players, Leaves(p) PROVE TokenInv(x)'
  <2>1. UNCHANGED <<bound, req, at, got, contested, spoilt>>
    BY <1>9 DEF Leaves, requests, others
  <2>2. ASSUME bound[x] \in Ids, bound[x] \notin contested, row[bound[x]] = x
        PROVE  node[p] # bound[x]
    <3>1. IsOn(p)
      BY <1>9 DEF Leaves, IsOn, Specials
    <3>2. QED
      BY <1>9, <2>2, <3>1, OwnSession, Sorts DEF Players
  <2>3. QED
    BY <1>9, <2>1, <2>2, TokenKept, Sorts DEF Leaves, Unregister,
       SessionTypes, registry
<1>10. ASSUME NEW r \in Requests, Begins(r) PROVE TokenInv(x)'
  <2>1. \A q \in Requests : at[q] \in {"unbind", "release_row", "control"} =>
          at'[q] = at[q] /\ got'[q] = got[q]
    BY <1>10 DEF Begins, SessionTypes, To, registry, others
  <2>2. QED
    BY <1>10, <2>1, TokenKept DEF Begins, Race, Contest, SessionTypes,
       registry, others
<1>11. ASSUME NEW r \in Requests, Asks(r) PROVE TokenInv(x)'
  <2>1. \A q \in Requests : at[q] \in {"unbind", "release_row", "control"} =>
          at'[q] = at[q] /\ got'[q] = got[q]
    BY <1>11 DEF Asks, SessionTypes, To, registry, others
  <2>2. QED
    BY <1>11, <2>1, TokenKept DEF Asks, Race, Contest, SessionTypes, registry,
       others
<1>12. ASSUME NEW r \in Requests, Finds(r) PROVE TokenInv(x)'
  <2>1. \A q \in Requests : at[q] \in {"unbind", "release_row", "control"} =>
          at'[q] = at[q] /\ got'[q] = got[q]
    BY <1>12 DEF Finds, SessionTypes, To, registry, others
  <2>2. QED
    BY <1>12, <2>1, TokenKept DEF Finds, Race, Contest, SessionTypes,
       registry, others
<1>13. ASSUME NEW r \in Requests, Inserts(r) PROVE TokenInv(x)'
  <2>1. UNCHANGED <<bound, req, contested, spoilt, ctrl>>
    BY <1>13 DEF Inserts, others
  <2>3. \A q \in Requests : at[q] \in {"unbind", "release_row", "control"} =>
          at'[q] = at[q] /\ got'[q] = got[q]
    BY <1>13 DEF Inserts, SessionTypes, To
  <2>2. ASSUME bound[x] \in Ids, row[bound[x]] = x PROVE bound[x] # FreeNode
    BY <2>2, NewNumber, Sorts DEF Rows

  <2>4. QED
    BY <1>13, <2>1, <2>2, <2>3, TokenKept, Sorts DEF Inserts, Register,
       SessionTypes
<1>14. ASSUME NEW r \in Requests, Binds(r) PROVE TokenInv(x)'
  <2>1. \A q \in Requests \ {r} : at'[q] = at[q] /\ got'[q] = got[q]
    BY <1>14 DEF Binds, SessionTypes, To
  <2>2. CASE req[r] # x
    <3>1. bound'[x] = bound[x] /\ req' = req /\ contested' = contested /\
          spoilt' = spoilt
      BY <1>14, <2>2 DEF Binds, Delete, others, SessionTypes
    <3>2. ASSUME bound[x] \in Ids, bound[x] \notin contested, row[bound[x]] = x
          PROVE  at[r] \in Owning => got[r] # bound[x]
      BY <2>2, <3>2, OwnSession
    <3>3. QED
      BY <1>14, <2>1, <2>2, <3>1, <3>2, TokenKept, Sorts DEF Binds, Delete,
         SessionTypes, Owning, registry, others
  <2>3. CASE req[r] = x
    <3>1. UNCHANGED <<registry, req, got, contested, spoilt>>
      BY <1>14 DEF Binds, others
    <3>2. CASE alive[x]
      <4>1. bound'[x] = got[r] /\ at'[r] = "control"
        BY <1>14, <2>3, <3>2 DEF Binds, To, SessionTypes
      <4>2. got[r] \notin contested => Mine(got[r], x)
        BY <1>14, <2>3 DEF Binds, OwnInv, RequestInv, Owning, Free
      <4>3. QED
        BY <2>3, <3>1, <4>1, <4>2 DEF TokenInv, Mine, registry
    <3>3. CASE ~alive[x]
      <4>1. bound' = bound
        BY <1>14, <2>3, <3>3 DEF Binds
      <4>2. QED
        BY <1>14, <2>1, <3>1, <4>1, TokenKept DEF Binds, registry
    <3>4. QED
      BY <3>2, <3>3
  <2>4. QED
    BY <2>2, <2>3
<1>15. ASSUME NEW r \in Requests, Files(r) PROVE TokenInv(x)'
  <2>1. \A q \in Requests \ {r} : at'[q] = at[q] /\ got'[q] = got[q]
    BY <1>15 DEF Files, SessionTypes, To
  <2>2. CASE req[r] # x
    <3>1. bound'[x] = bound[x] /\ req' = req /\ contested' = contested /\
          spoilt' = spoilt
      BY <1>15, <2>2 DEF Files, Delete, others, SessionTypes
    <3>2. ASSUME bound[x] \in Ids, bound[x] \notin contested, row[bound[x]] = x
          PROVE  at[r] \in Owning => got[r] # bound[x]
      BY <2>2, <3>2, OwnSession
    <3>3. QED
      BY <1>15, <2>1, <2>2, <3>1, <3>2, TokenKept, Sorts DEF Files,
         RegisterControl, SessionTypes, Owning, registry, others
  <2>3. CASE req[r] = x
    <3>1. UNCHANGED <<row, shown, bound, req, got, contested, spoilt>>
      BY <1>15 DEF Files, others
    <3>2. CASE bound[x] = got[r]
      <4>1. got[r] \in Ids /\ (got[r] \notin contested => Mine(got[r], x))
        BY <1>15, <2>3 DEF Files, OwnInv, RequestInv, Owning, Free
      <4>2. ctrl'[got[r]] = x
        BY <1>15, <2>3, <4>1 DEF Files, RegisterControl, SessionTypes
      <4>3. QED
        BY <3>1, <3>2, <4>1, <4>2 DEF TokenInv, Mine
    <3>3. CASE bound[x] # got[r]
      <4>1. ctrl'[bound[x]] = ctrl[bound[x]]
        BY <1>15, <3>3 DEF Files, RegisterControl, SessionTypes
      <4>2. At(x, {"unbind"}) => At(x, {"unbind"})'
        BY <1>15, <2>1, <3>1 DEF At, Files
      <4>3. At(x, {"release_row"}) => At(x, {"release_row"})'
        BY <1>15, <2>1, <3>1 DEF At, Files
      <4>4. (\E q \in Requests : req[q] = x /\ at[q] = "control" /\
            got[q] = bound[x])
            => (\E q \in Requests :
                  req[q] = x /\ at[q] = "control" /\ got[q] = bound[x])'
        BY <2>1, <3>1, <3>3
      <4>5. QED
        BY <3>1, <4>1, <4>2, <4>3, <4>4 DEF OwnInv, TokenInv, Mine
    <3>4. QED
      BY <3>2, <3>3
  <2>4. QED
    BY <2>2, <2>3
<1>16. ASSUME NEW r \in Requests, Names(r) PROVE TokenInv(x)'
  <2>1. \A q \in Requests : at[q] \in {"unbind", "release_row", "control"} =>
          at'[q] = at[q] /\ got'[q] = got[q]
    BY <1>16 DEF Names, SessionTypes, To
  <2>2. UNCHANGED <<row, ctrl, bound, req, contested, spoilt>>
    BY <1>16 DEF Names, others
  <2>3. ASSUME bound[x] \in Ids, bound[x] \notin contested, row[bound[x]] = x
        PROVE  shown'[bound[x]] \in {shown[bound[x]], x} \cup spoilt
    BY <1>16, <2>3, OwnSession DEF Names, Update, SessionTypes
  <2>4. QED
    BY <2>1, <2>2, <2>3, TokenKept DEF SessionTypes
<1>17. ASSUME NEW r \in Requests, Touches(r) PROVE TokenInv(x)'
  <2>1. \A q \in Requests : at[q] \in {"unbind", "release_row", "control"} =>
          at'[q] = at[q] /\ got'[q] = got[q]
    BY <1>17 DEF Touches, SessionTypes, To, registry, others
  <2>2. QED
    BY <1>17, <2>1, TokenKept DEF Touches, Race, Contest, SessionTypes,
       registry, others
<1>18. ASSUME NEW r \in Requests, Serves(r) PROVE TokenInv(x)'
  <2>1. \A q \in Requests : at[q] \in {"unbind", "release_row", "control"} =>
          at'[q] = at[q] /\ got'[q] = got[q]
    BY <1>18 DEF Serves, SessionTypes, To, registry, others
  <2>2. QED
    BY <1>18, <2>1, TokenKept DEF Serves, Race, Contest, SessionTypes,
       registry, others
<1>19. ASSUME NEW r \in Requests, LogsOut(r) PROVE TokenInv(x)'
  <2>1. \A q \in Requests : at[q] \in {"unbind", "release_row", "control"} =>
          at'[q] = at[q] /\ got'[q] = got[q]
    BY <1>19 DEF LogsOut, SessionTypes, To, registry, others
  <2>2. QED
    BY <1>19, <2>1, TokenKept DEF LogsOut, Race, Contest, SessionTypes,
       registry, others
<1>20. ASSUME NEW r \in Requests, Unfiles(r) PROVE TokenInv(x)'
  <2>1. \A q \in Requests \ {r} : at'[q] = at[q] /\ got'[q] = got[q]
    BY <1>20 DEF Unfiles, SessionTypes, To
  <2>2. CASE req[r] # x
    <3>1. bound'[x] = bound[x] /\ req' = req /\ contested' = contested /\
          spoilt' = spoilt
      BY <1>20, <2>2 DEF Unfiles, Delete, others, SessionTypes
    <3>2. ASSUME bound[x] \in Ids, bound[x] \notin contested, row[bound[x]] = x
          PROVE  at[r] \in Owning => got[r] # bound[x]
      BY <2>2, <3>2, OwnSession
    <3>3. QED
      BY <1>20, <2>1, <2>2, <3>1, <3>2, TokenKept, Sorts DEF Unfiles,
         UnregisterControl, SessionTypes, Owning, registry, others
  <2>3. CASE req[r] = x
    <3>1. UNCHANGED <<row, shown, bound, req, contested, spoilt>>
      BY <1>20 DEF Unfiles, others
    <3>2. At(x, {"release_row"})'
      BY <1>20, <2>3, <3>1 DEF At, Unfiles, To, SessionTypes
    <3>3. At(x, {"unbind"}) => At(x, {"unbind"})'
      BY <1>20, <2>1, <3>1 DEF At, Unfiles
    <3>4. QED
      BY <3>1, <3>2, <3>3 DEF OwnInv, TokenInv, Mine
  <2>4. QED
    BY <2>2, <2>3
<1>21. ASSUME NEW r \in Requests, Removes(r) PROVE TokenInv(x)'
  <2>1. \A q \in Requests \ {r} : at'[q] = at[q] /\ got'[q] = got[q]
    BY <1>21 DEF Removes, SessionTypes, To
  <2>2. CASE req[r] # x
    <3>1. bound'[x] = bound[x] /\ req' = req /\ contested' = contested /\
          spoilt' = spoilt
      BY <1>21, <2>2 DEF Removes, Delete, others, SessionTypes
    <3>2. ASSUME bound[x] \in Ids, bound[x] \notin contested, row[bound[x]] = x
          PROVE  at[r] \in Owning => got[r] # bound[x]
      BY <2>2, <3>2, OwnSession
    <3>3. QED
      BY <1>21, <2>1, <2>2, <3>1, <3>2, TokenKept, Sorts DEF Removes,
         Unregister, SessionTypes, Owning, registry, others
  <2>3. CASE req[r] = x
    <3>1. At(x, {"unbind"})'
      BY <1>21, <2>3 DEF At, Removes, To, SessionTypes
    <3>2. QED
      BY <3>1 DEF TokenInv
  <2>4. QED
    BY <2>2, <2>3
<1>22. ASSUME NEW r \in Requests, Unbinds(r) PROVE TokenInv(x)'
  <2>1. \A q \in Requests \ {r} : at'[q] = at[q] /\ got'[q] = got[q]
    BY <1>22 DEF Unbinds, SessionTypes, To
  <2>2. CASE req[r] # x
    <3>1. bound'[x] = bound[x] /\ req' = req /\ contested' = contested /\
          spoilt' = spoilt
      BY <1>22, <2>2 DEF Unbinds, Delete, others, SessionTypes
    <3>2. ASSUME bound[x] \in Ids, bound[x] \notin contested, row[bound[x]] = x
          PROVE  at[r] \in Owning => got[r] # bound[x]
      BY <2>2, <3>2, OwnSession
    <3>3. QED
      BY <1>22, <2>1, <2>2, <3>1, <3>2, TokenKept, Sorts DEF Unbinds, Delete,
         SessionTypes, Owning, registry, others
  <2>3. CASE req[r] = x
    BY <1>22, <2>3 DEF Unbinds, TokenInv, SessionTypes
  <2>4. QED
    BY <2>2, <2>3
<1>23. ASSUME NEW r \in Requests, Forgets(r) PROVE TokenInv(x)'
  <2>1. \A q \in Requests \ {r} : at'[q] = at[q] /\ got'[q] = got[q]
    BY <1>23 DEF Forgets, SessionTypes, To
  <2>2. CASE req[r] # x
    <3>1. bound'[x] = bound[x] /\ req' = req /\ contested' = contested /\
          spoilt' = spoilt
      BY <1>23, <2>2 DEF Forgets, Delete, others, SessionTypes
    <3>2. ASSUME bound[x] \in Ids, bound[x] \notin contested, row[bound[x]] = x
          PROVE  at[r] \in Owning => got[r] # bound[x]
      BY <2>2, <3>2, OwnSession
    <3>3. QED
      BY <1>23, <2>1, <2>2, <3>1, <3>2, TokenKept, Sorts DEF Forgets, Delete,
         SessionTypes, Owning, registry, others
  <2>3. CASE req[r] = x
    BY <1>23, <2>3 DEF Forgets, Delete, TokenInv, SessionTypes
  <2>4. QED
    BY <2>2, <2>3
<1>24. ASSUME NEW w \in Tokens, EndsSession(w) PROVE TokenInv(x)'
  <2>1. CASE x = w
    BY <1>24, <2>1 DEF EndsSession, Delete, TokenInv, SessionTypes
  <2>2. CASE x # w
    BY <1>24, <2>2, TokenKept DEF EndsSession, Delete, SessionTypes, registry
  <2>3. QED
    BY <2>1, <2>2
<1>25. QED
  BY <1>1, <1>2, <1>3, <1>4, <1>5, <1>6, <1>7, <1>8, <1>9, <1>10, <1>11,
     <1>12, <1>13, <1>14, <1>15, <1>16, <1>17, <1>18, <1>19, <1>20, <1>21,
     <1>22, <1>23, <1>24 DEF Effect


-----------------------------------------------------------------------------
(* The numbers that requests have in hand.                                 *)

\* Nobody who is on has the number of another's request.
LEMMA OwnHand ==
  ASSUME SessionTypes, OwnInv, NEW x \in Requests, got[x] \notin contested,
         at[x] \in Owning \cup {"name", "update"}, req[x] \notin spoilt
  PROVE  /\ got[x] \in Ids /\ row[got[x]] = req[x] /\ got[x] \in Rows
         /\ \A p \in Players : IsOn(p) => node[p] # got[x]
         /\ \A r \in Requests : at[r] \in Owning /\ got[r] = got[x] =>
              req[r] = req[x]
<1>1. req[x] \in Tokens
  BY DEF SessionTypes
<1>2. RequestInv(x)
  BY DEF OwnInv
<1>3. got[x] \in Ids /\ row[got[x]] = req[x]
  BY <1>2 DEF RequestInv, Free, Mine, Owning
<1>4. QED
  BY <1>1, <1>3, OwnSession

\* The same of a number that a request is to file or to remove, however the
\* session ended.
LEMMA OwnTask ==
  ASSUME SessionTypes, OwnInv, NEW x \in Requests, got[x] \notin contested,
         at[x] \in Owning
  PROVE  /\ got[x] \in Ids /\ row[got[x]] = req[x] /\ got[x] \in Rows
         /\ \A p \in Players : IsOn(p) => node[p] # got[x]
         /\ \A r \in Requests : at[r] \in Owning /\ got[r] = got[x] => r = x
         /\ \A r \in Requests : at[r] \in {"name", "update"} /\
              got[r] = got[x] =>
              req[r] \in {req[x]} \cup spoilt
<1>1. req[x] \in Tokens
  BY DEF SessionTypes
<1>2. got[x] \in Ids /\ row[got[x]] = req[x]
  BY DEF OwnInv, RequestInv, Free, Mine
<1>3. \A r \in Requests : at[r] \in Owning /\ got[r] = got[x] => r = x
  BY DEF OwnInv, PairInv, Free
<1>4. QED
  BY <1>1, <1>2, <1>3, OwnSession

\* What is left alone at its number keeps a request's number.
LEMMA RequestKept ==
  ASSUME OwnInv, NEW x \in Requests, at'[x] = at[x], got'[x] = got[x],
    req' = req,
         contested \subseteq contested', spoilt \subseteq spoilt',
         at[x] \in Owning /\ got[x] \notin contested' =>
           /\ row'[got[x]] = row[got[x]]
           /\ shown'[got[x]] \in {shown[got[x]], Nobody, req[x]} \cup spoilt',
         at[x] \in {"name", "update"} /\ got[x] \notin contested' =>
           row'[got[x]] = row[got[x]] \/ req[x] \in spoilt',
         at[x] = "set" /\ got[x] \notin contested' => bound'[req[x]] # got[x]
  PROVE  RequestInv(x)'
<1>1. RequestInv(x)
  BY DEF OwnInv
<1>2. QED
  BY <1>1 DEF RequestInv, Free, Mine


\* Requests keep the numbers they have in hand.
LEMMA RequestsKeep ==
  ASSUME SessionTypes, OwnInv, NEW x \in Requests, Effect
  PROVE  RequestInv(x)'
<1>1. ASSUME Stay PROVE RequestInv(x)'
  <2>1. at[x] = "set" /\ got[x] \notin contested => bound[req[x]] # got[x]
    BY DEF OwnInv, RequestInv, Free
  <2>2. QED
    BY <1>1, <2>1, RequestKept DEF Stay, requests, others
<1>2. ASSUME NEW l \in Listings, Purges(l) PROVE RequestInv(x)'
  <2>1. UNCHANGED <<bound, req, at, got, spoilt, ctrl>>
    BY <1>2 DEF Purges, Purge, requests
  <2>2. contested \subseteq contested'
    BY <1>2 DEF Purges, Purge
  <2>3. at[x] = "set" /\ got[x] \notin contested => bound[req[x]] # got[x]
    BY DEF OwnInv, RequestInv, Free
  <2>4. at[x] \in Owning \cup {"name", "update"} /\
        got[x] \notin contested /\ (at[x] \in Owning \/ req[x] \notin spoilt)
          => got[x] \in Rows /\ got[x] \in Ids
    BY OwnTask, OwnHand
  <2>5. ASSUME Busy(x), got[x] \in Ids, got[x] \in Rows,
        got[x] \notin contested'
        PROVE  got[x] \in snap[l]
    <3>1. got[x] \in (On \ {NoNode}) \cap Rows
      BY <2>5, Sorts DEF On
    <3>2. QED
      BY <1>2, <2>5, <3>1 DEF Purges, Purge
  <2>6. at[x] \in Owning \cup {"name", "update"} => Busy(x)
    BY DEF Owning, Busy
  <2>7. QED
    BY <1>2, <2>1, <2>2, <2>3, <2>4, <2>5, <2>6, RequestKept DEF Purges,
       Purge, SessionTypes
<1>3. ASSUME NEW h \in Lines, Walk(h) PROVE RequestInv(x)'
  <2>1. UNCHANGED <<bound, req, at, got, contested, spoilt>> /\ IsOn(h)
    BY <1>3 DEF Walk, requests, others, IsOn, Specials
  <2>2. ASSUME at[x] \in Owning, got[x] \notin contested
        PROVE  /\ node[h] # got[x] /\ got[x] \in Ids
               /\ bound[req[x]] = got[x] => at[x] # "set"
    BY <2>1, <2>2, OwnTask DEF OwnInv, RequestInv, Free, Players
  <2>3. ASSUME at[x] \in {"name", "update"}, got[x] \notin contested,
        req[x] \notin spoilt
        PROVE  node[h] # got[x] /\ got[x] \in Ids
    BY <2>1, <2>3, OwnHand DEF Players
  <2>4. QED
    BY <1>3, <2>1, <2>2, <2>3, RequestKept DEF Walk, Update, ShowsOr,
       SessionTypes, registry, Owning
<1>4. ASSUME NEW h \in Lines, Controls(h) PROVE RequestInv(x)'
  <2>1. UNCHANGED <<bound, req, at, got, contested, spoilt>> /\ IsOn(h)
    BY <1>4 DEF Controls, requests, others, IsOn, Specials
  <2>2. ASSUME at[x] \in Owning, got[x] \notin contested
        PROVE  /\ node[h] # got[x] /\ got[x] \in Ids
               /\ bound[req[x]] = got[x] => at[x] # "set"
    BY <2>1, <2>2, OwnTask DEF OwnInv, RequestInv, Free, Players
  <2>3. ASSUME at[x] \in {"name", "update"}, got[x] \notin contested,
        req[x] \notin spoilt
        PROVE  node[h] # got[x] /\ got[x] \in Ids
    BY <2>1, <2>3, OwnHand DEF Players
  <2>4. QED
    BY <1>4, <2>1, <2>2, <2>3, RequestKept DEF Controls, RegisterControl,
       SessionTypes, registry, Owning
<1>5. ASSUME NEW h \in Lines, Uncontrols(h) PROVE RequestInv(x)'
  <2>1. UNCHANGED <<bound, req, at, got, contested, spoilt>> /\ IsOn(h)
    BY <1>5 DEF Uncontrols, requests, others, IsOn, Specials
  <2>2. ASSUME at[x] \in Owning, got[x] \notin contested
        PROVE  /\ node[h] # got[x] /\ got[x] \in Ids
               /\ bound[req[x]] = got[x] => at[x] # "set"
    BY <2>1, <2>2, OwnTask DEF OwnInv, RequestInv, Free, Players
  <2>3. ASSUME at[x] \in {"name", "update"}, got[x] \notin contested,
        req[x] \notin spoilt
        PROVE  node[h] # got[x] /\ got[x] \in Ids
    BY <2>1, <2>3, OwnHand DEF Players
  <2>4. QED
    BY <1>5, <2>1, <2>2, <2>3, RequestKept DEF Uncontrols, UnregisterControl,
       SessionTypes, registry, Owning
<1>6. ASSUME NEW p \in Players, Arrives(p) PROVE RequestInv(x)'
  <2>1. UNCHANGED <<bound, req, at, got, contested, spoilt>>
    BY <1>6 DEF Arrives, requests, others
  <2>2. at[x] = "set" /\ got[x] \notin contested => bound[req[x]] # got[x]
    BY DEF OwnInv, RequestInv, Free
  <2>3. at[x] \in Owning \cup {"name", "update"} /\
        got[x] \notin contested /\ (at[x] \in Owning \/ req[x] \notin spoilt)
          => got[x] \in Rows /\ got[x] \in Ids
    BY OwnTask, OwnHand
  <2>4. QED
    BY <1>6, <2>1, <2>2, <2>3, NewNumber, RequestKept DEF Arrives, Register,
       SessionTypes, Owning
<1>7. ASSUME NEW p \in Players, Opens(p) PROVE RequestInv(x)'
  <2>1. UNCHANGED <<bound, req, at, got, contested, spoilt>> /\ IsOn(p)
    BY <1>7 DEF Opens, requests, others, IsOn, Specials
  <2>2. ASSUME at[x] \in Owning, got[x] \notin contested
        PROVE  /\ node[p] # got[x] /\ got[x] \in Ids
               /\ bound[req[x]] = got[x] => at[x] # "set"
    BY <2>1, <2>2, OwnTask DEF OwnInv, RequestInv, Free, Players
  <2>3. ASSUME at[x] \in {"name", "update"}, got[x] \notin contested,
        req[x] \notin spoilt
        PROVE  node[p] # got[x] /\ got[x] \in Ids
    BY <2>1, <2>3, OwnHand DEF Players
  <2>4. QED
    BY <1>7, <2>1, <2>2, <2>3, RequestKept DEF Opens, Update, SessionTypes,
       registry, Owning
<1>8. ASSUME NEW p \in Players, Closes(p) PROVE RequestInv(x)'
  <2>1. UNCHANGED <<bound, req, at, got, contested, spoilt>> /\ IsOn(p)
    BY <1>8 DEF Closes, requests, others, IsOn, Specials
  <2>2. ASSUME at[x] \in Owning, got[x] \notin contested
        PROVE  /\ node[p] # got[x] /\ got[x] \in Ids
               /\ bound[req[x]] = got[x] => at[x] # "set"
    BY <2>1, <2>2, OwnTask DEF OwnInv, RequestInv, Free, Players
  <2>3. ASSUME at[x] \in {"name", "update"}, got[x] \notin contested,
        req[x] \notin spoilt
        PROVE  node[p] # got[x] /\ got[x] \in Ids
    BY <2>1, <2>3, OwnHand DEF Players
  <2>4. QED
    BY <1>8, <2>1, <2>2, <2>3, RequestKept DEF Closes, Update, SessionTypes,
       registry, Owning
<1>9. ASSUME NEW p \in Players, Leaves(p) PROVE RequestInv(x)'
  <2>1. UNCHANGED <<bound, req, at, got, contested, spoilt>> /\ IsOn(p)
    BY <1>9 DEF Leaves, requests, others, IsOn, Specials
  <2>2. ASSUME at[x] \in Owning, got[x] \notin contested
        PROVE  /\ node[p] # got[x] /\ got[x] \in Ids
               /\ bound[req[x]] = got[x] => at[x] # "set"
    BY <2>1, <2>2, OwnTask DEF OwnInv, RequestInv, Free, Players
  <2>3. ASSUME at[x] \in {"name", "update"}, got[x] \notin contested,
        req[x] \notin spoilt
        PROVE  node[p] # got[x] /\ got[x] \in Ids
    BY <2>1, <2>3, OwnHand DEF Players
  <2>4. QED
    BY <1>9, <2>1, <2>2, <2>3, RequestKept DEF Leaves, Unregister,
       SessionTypes, registry, Owning
<1>10. ASSUME NEW r \in Requests, Begins(r) PROVE RequestInv(x)'
  <2>1. CASE x = r
    BY <1>10, <2>1 DEF Begins, To, RequestInv, Owning, SessionTypes, Bound
  <2>2. CASE x # r
    <3>1. at'[x] = at[x] /\ got'[x] = got[x] /\ req' = req /\ bound' = bound
      BY <1>10, <2>2 DEF Begins, To, SessionTypes
    <3>2. at[x] = "set" /\ got[x] \notin contested => bound[req[x]] # got[x]
      BY DEF OwnInv, RequestInv, Free
    <3>3. QED
      BY <1>10, <3>1, <3>2, RequestKept DEF Begins, Race, Contest, registry,
         others, Register, SessionTypes
  <2>3. QED
    BY <2>1, <2>2
<1>11. ASSUME NEW r \in Requests, Asks(r) PROVE RequestInv(x)'
  <2>1. CASE x = r
    BY <1>11, <2>1 DEF Asks, To, RequestInv, Owning, SessionTypes, Bound
  <2>2. CASE x # r
    <3>1. at'[x] = at[x] /\ got'[x] = got[x] /\ req' = req /\ bound' = bound
      BY <1>11, <2>2 DEF Asks, To, SessionTypes
    <3>2. at[x] = "set" /\ got[x] \notin contested => bound[req[x]] # got[x]
      BY DEF OwnInv, RequestInv, Free
    <3>3. QED
      BY <1>11, <3>1, <3>2, RequestKept DEF Asks, Race, Contest, registry,
         others, Register, SessionTypes
  <2>3. QED
    BY <2>1, <2>2
<1>12. ASSUME NEW r \in Requests, Finds(r) PROVE RequestInv(x)'
  <2>1. CASE x = r
    BY <1>12, <2>1 DEF Finds, To, RequestInv, Owning, SessionTypes, Bound
  <2>2. CASE x # r
    <3>1. at'[x] = at[x] /\ got'[x] = got[x] /\ req' = req /\ bound' = bound
      BY <1>12, <2>2 DEF Finds, To, SessionTypes
    <3>2. at[x] = "set" /\ got[x] \notin contested => bound[req[x]] # got[x]
      BY DEF OwnInv, RequestInv, Free
    <3>3. QED
      BY <1>12, <3>1, <3>2, RequestKept DEF Finds, Race, Contest, registry,
         others, Register, SessionTypes
  <2>3. QED
    BY <2>1, <2>2
<1>13. ASSUME NEW r \in Requests, Inserts(r) PROVE RequestInv(x)'
  <2>1. CASE x = r
    <3>1. at'[x] = "set" /\ got'[x] = FreeNode /\ FreeNode \in Ids
      BY <1>13, <2>1 DEF Inserts, Register, To, SessionTypes
    <3>2. row'[FreeNode] = req[x] /\ shown'[FreeNode] = Nobody
      BY <1>13, <2>1, <3>1 DEF Inserts, Register, SessionTypes
    <3>3. bound'[req[x]] # FreeNode /\ req' = req
      BY <1>13, <2>1, <3>1, Sorts DEF Inserts
    <3>4. QED
      BY <3>1, <3>2, <3>3 DEF RequestInv, Owning, Free, Mine
  <2>2. CASE x # r
    <3>1. at'[x] = at[x] /\ got'[x] = got[x] /\ req' = req
      BY <1>13, <2>2 DEF Inserts, To, SessionTypes
    <3>2. at[x] = "set" /\ got[x] \notin contested => bound[req[x]] # got[x]
      BY DEF OwnInv, RequestInv, Free
    <3>3. at[x] \in Owning \cup {"name", "update"} /\
          got[x] \notin contested /\ (at[x] \in Owning \/ req[x] \notin spoilt)
          => got[x] \in Rows /\ got[x] \in Ids
      BY OwnTask, OwnHand
    <3>4. QED
      BY <1>13, <3>1, <3>2, <3>3, NewNumber, RequestKept DEF Inserts,
         Register, SessionTypes, others
  <2>3. QED
    BY <2>1, <2>2
<1>14. ASSUME NEW r \in Requests, Binds(r) PROVE RequestInv(x)'
  <2>1. CASE x = r
    <3>1. at'[x] = "control" /\ at[x] = "set" /\
          UNCHANGED <<row, shown, got, req, contested, spoilt>>
      BY <1>14, <2>1 DEF Binds, To, SessionTypes, registry, others
    <3>2. QED
      BY <3>1 DEF OwnInv, RequestInv, Owning, Mine, Free
  <2>2. CASE x # r
    <3>1. at'[x] = at[x] /\ got'[x] = got[x] /\ req' = req
      BY <1>14, <2>2 DEF Binds, To, SessionTypes
    <3>2. at[x] = "set" /\ got[x] \notin contested => bound[req[x]] # got[x]
      BY DEF OwnInv, RequestInv, Free
    <3>3. UNCHANGED <<row, shown, contested, spoilt>>
      BY <1>14 DEF Binds, registry, others
    <3>4. ASSUME at[x] = "set", got[x] \notin contested PROVE got[r] # got[x]
      BY <1>14, <2>2, <3>4, OwnTask DEF Binds, Owning
    <3>5. bound'[req[x]] \in {bound[req[x]], got[r]}
      BY <1>14 DEF Binds, SessionTypes
    <3>6. QED
      BY <3>1, <3>2, <3>3, <3>4, <3>5, RequestKept
  <2>3. QED
    BY <2>1, <2>2
<1>15. ASSUME NEW r \in Requests, Files(r) PROVE RequestInv(x)'
  <2>1. CASE x = r
    <3>1. at'[x] = "name" /\ at[x] = "control" /\
          UNCHANGED <<row, shown, got, req, contested, spoilt>>
      BY <1>15, <2>1 DEF Files, To, SessionTypes, others
    <3>2. QED
      BY <3>1 DEF OwnInv, RequestInv, Owning, Mine, Free
  <2>2. CASE x # r
    <3>1. at'[x] = at[x] /\ got'[x] = got[x] /\ req' = req
      BY <1>15, <2>2 DEF Files, To, SessionTypes
    <3>2. at[x] = "set" /\ got[x] \notin contested => bound[req[x]] # got[x]
      BY DEF OwnInv, RequestInv, Free
    <3>3. QED
      BY <1>15, <3>1, <3>2, RequestKept DEF Files, others
  <2>3. QED
    BY <2>1, <2>2
<1>16. ASSUME NEW r \in Requests, Names(r) PROVE RequestInv(x)'
  <2>1. CASE x = r
    BY <1>16, <2>1 DEF Names, To, RequestInv, Owning, SessionTypes, Bound
  <2>2. CASE x # r
    <3>1. at'[x] = at[x] /\ got'[x] = got[x] /\ req' = req
      BY <1>16, <2>2 DEF Names, To, SessionTypes
    <3>2. at[x] = "set" /\ got[x] \notin contested => bound[req[x]] # got[x]
      BY DEF OwnInv, RequestInv, Free
    <3>3. UNCHANGED <<row, bound, contested, spoilt>>
      BY <1>16 DEF Names, others
    <3>4. ASSUME at[x] \in Owning, got[x] \notin contested
          PROVE  shown'[got[x]] \in {shown[got[x]], req[x]} \cup spoilt
      BY <1>16, <3>4, OwnTask DEF Names, Update, SessionTypes
    <3>5. QED
      BY <3>1, <3>2, <3>3, <3>4, RequestKept
  <2>3. QED
    BY <2>1, <2>2
<1>17. ASSUME NEW r \in Requests, Touches(r) PROVE RequestInv(x)'
  <2>1. CASE x = r
    <3>1. at'[x] \in {"page", "update"} /\ got'[x] = bound[req[x]]
      BY <1>17, <2>1 DEF Touches, To, SessionTypes
    <3>2. at'[x] = "update" => bound[req[x]] \in Ids
      BY <1>17, <2>1 DEF Touches, To, SessionTypes
    <3>3. ASSUME bound[req[x]] \in Ids, Free(bound[req[x]])
          PROVE  row[bound[req[x]]] = req[x] \/ req[x] \in spoilt
      <4>1. CASE At(req[x], {"unbind"})
        <5>1. PICK q \in Requests : req[q] = req[x] /\ at[q] = "unbind"
          BY <4>1 DEF At
        <5>2. q # x /\ LoggingOut(q) /\ Busy(x)
          BY <1>17, <2>1, <5>1 DEF Touches, LoggingOut, Busy
        <5>3. QED
          BY <5>1, <5>2 DEF OwnInv, PairInv
      <4>2. CASE ~At(req[x], {"unbind"})
        BY <3>3, <4>2, Sorts DEF OwnInv, TokenInv, Mine, Free, SessionTypes
      <4>3. QED
        BY <4>1, <4>2
    <3>4. UNCHANGED <<row, req, contested, spoilt>>
      BY <1>17 DEF Touches, registry, others
    <3>5. QED
      BY <3>1, <3>2, <3>3, <3>4 DEF RequestInv, Owning, Free
  <2>2. CASE x # r
    <3>1. at'[x] = at[x] /\ got'[x] = got[x] /\ req' = req
      BY <1>17, <2>2 DEF Touches, To, SessionTypes
    <3>2. at[x] = "set" /\ got[x] \notin contested => bound[req[x]] # got[x]
      BY DEF OwnInv, RequestInv, Free
    <3>3. QED
      BY <1>17, <3>1, <3>2, RequestKept DEF Touches, registry, others
  <2>3. QED
    BY <2>1, <2>2
<1>18. ASSUME NEW r \in Requests, Serves(r) PROVE RequestInv(x)'
  <2>1. CASE x = r
    BY <1>18, <2>1 DEF Serves, To, RequestInv, Owning, SessionTypes, Bound
  <2>2. CASE x # r
    <3>1. at'[x] = at[x] /\ got'[x] = got[x] /\ req' = req /\ bound' = bound
      BY <1>18, <2>2 DEF Serves, To, SessionTypes
    <3>2. at[x] = "set" /\ got[x] \notin contested => bound[req[x]] # got[x]
      BY DEF OwnInv, RequestInv, Free
    <3>3. QED
      BY <1>18, <3>1, <3>2, RequestKept DEF Serves, Race, Contest, registry,
         others, Register, SessionTypes
  <2>3. QED
    BY <2>1, <2>2
<1>19. ASSUME NEW r \in Requests, LogsOut(r) PROVE RequestInv(x)'
  <2>1. CASE x = r
    <3>1. at'[x] \in {"forget", "release"} /\ got'[x] = bound[req[x]]
      BY <1>19, <2>1 DEF LogsOut, To, SessionTypes
    <3>2. at'[x] = "release" => bound[req[x]] \in Ids
      BY <1>19, <2>1 DEF LogsOut, To, SessionTypes
    <3>3. UNCHANGED <<row, shown, req>> /\ spoilt \subseteq spoilt'
      BY <1>19 DEF LogsOut, registry, Race
    <3>4. ASSUME bound[req[x]] \in Ids, bound[req[x]] \notin contested'
          PROVE  Mine(bound[req[x]], req[x])
      <4>1. bound[req[x]] \notin contested /\ \A q \in Beside(x) :
            ~LoggingOut(q)
        BY <1>19, <2>1, <3>4, Sorts DEF LogsOut, Contest
      <4>2. ~At(req[x], {"unbind"})
        BY <1>19, <2>1, <4>1 DEF LogsOut, At, Beside, LoggingOut, Busy
      <4>3. QED
        BY <3>4, <4>1, <4>2, Sorts DEF OwnInv, TokenInv, SessionTypes
    <3>5. QED
      BY <3>1, <3>2, <3>3, <3>4 DEF RequestInv, Owning, Free, Mine
  <2>2. CASE x # r
    <3>1. at'[x] = at[x] /\ got'[x] = got[x] /\ req' = req
      BY <1>19, <2>2 DEF LogsOut, To, SessionTypes
    <3>2. at[x] = "set" /\ got[x] \notin contested => bound[req[x]] # got[x]
      BY DEF OwnInv, RequestInv, Free
    <3>3. contested \subseteq contested' /\ spoilt \subseteq spoilt'
      BY <1>19 DEF LogsOut, Contest, Race
    <3>4. QED
      BY <1>19, <3>1, <3>2, <3>3, RequestKept DEF LogsOut, registry
  <2>3. QED
    BY <2>1, <2>2
<1>20. ASSUME NEW r \in Requests, Unfiles(r) PROVE RequestInv(x)'
  <2>1. CASE x = r
    <3>1. at'[x] = "release_row" /\ at[x] = "release" /\
          UNCHANGED <<row, shown, got, req, contested, spoilt>>
      BY <1>20, <2>1 DEF Unfiles, To, SessionTypes, others
    <3>2. QED
      BY <3>1 DEF OwnInv, RequestInv, Owning, Mine, Free
  <2>2. CASE x # r
    <3>1. at'[x] = at[x] /\ got'[x] = got[x] /\ req' = req
      BY <1>20, <2>2 DEF Unfiles, To, SessionTypes
    <3>2. at[x] = "set" /\ got[x] \notin contested => bound[req[x]] # got[x]
      BY DEF OwnInv, RequestInv, Free
    <3>3. QED
      BY <1>20, <3>1, <3>2, RequestKept DEF Unfiles, others
  <2>3. QED
    BY <2>1, <2>2
<1>21. ASSUME NEW r \in Requests, Removes(r) PROVE RequestInv(x)'
  <2>1. CASE x = r
    <3>1. at'[x] = "unbind" /\ at[x] = "release_row" /\ UNCHANGED <<got, req>>
      BY <1>21, <2>1 DEF Removes, To, SessionTypes
    <3>2. QED
      BY <3>1 DEF OwnInv, RequestInv, Owning
  <2>2. CASE x # r
    <3>1. at'[x] = at[x] /\ got'[x] = got[x] /\ req' = req
      BY <1>21, <2>2 DEF Removes, To, SessionTypes
    <3>2. at[x] = "set" /\ got[x] \notin contested => bound[req[x]] # got[x]
      BY DEF OwnInv, RequestInv, Free
    <3>3. UNCHANGED <<bound, contested, spoilt>>
      BY <1>21 DEF Removes, others
    <3>4. ASSUME at[x] \in Owning, got[x] \notin contested
          PROVE  got[r] # got[x] /\ got[x] \in Ids
      BY <1>21, <2>2, <3>4, OwnTask DEF Removes, Owning
    <3>5. ASSUME at[x] \in {"name", "update"}, got[x] \notin contested,
          req[x] \notin spoilt
          PROVE  got[r] # got[x] /\ got[x] \in Ids
      <4>1. got[x] \in Ids /\ (got[r] = got[x] => req[r] = req[x])
        BY <1>21, <3>5, OwnHand DEF Removes, Owning
      <4>2. LoggingOut(r) /\ Busy(x)
        BY <1>21, <3>5 DEF Removes, LoggingOut, Busy
      <4>3. QED
        BY <2>2, <3>5, <4>1, <4>2 DEF OwnInv, PairInv
    <3>6. QED
      BY <1>21, <3>1, <3>2, <3>3, <3>4, <3>5, RequestKept DEF Removes,
         Unregister, SessionTypes
  <2>3. QED
    BY <2>1, <2>2
<1>22. ASSUME NEW r \in Requests, Unbinds(r) PROVE RequestInv(x)'
  <2>1. CASE x = r
    <3>1. at'[x] \in {"forget", "done"}
      BY <1>22, <2>1 DEF Unbinds, To, SessionTypes
    <3>2. QED
      BY <3>1 DEF RequestInv, Owning
  <2>2. CASE x # r
    <3>1. at'[x] = at[x] /\ got'[x] = got[x] /\ req' = req
      BY <1>22, <2>2 DEF Unbinds, To, SessionTypes
    <3>2. at[x] = "set" /\ got[x] \notin contested => bound[req[x]] # got[x]
      BY DEF OwnInv, RequestInv, Free
    <3>3. bound'[req[x]] \in {bound[req[x]], NoNode}
      BY <1>22 DEF Unbinds, Delete, SessionTypes
    <3>4. at[x] = "set" => got[x] # NoNode
      BY Sorts DEF OwnInv, RequestInv, Owning
    <3>5. QED
      BY <1>22, <3>1, <3>2, <3>3, <3>4, RequestKept DEF Unbinds, registry,
         others
  <2>3. QED
    BY <2>1, <2>2
<1>23. ASSUME NEW r \in Requests, Forgets(r) PROVE RequestInv(x)'
  <2>1. CASE x = r
    <3>1. at'[x] \in {"forget", "done"}
      BY <1>23, <2>1 DEF Forgets, To, SessionTypes
    <3>2. QED
      BY <3>1 DEF RequestInv, Owning
  <2>2. CASE x # r
    <3>1. at'[x] = at[x] /\ got'[x] = got[x] /\ req' = req
      BY <1>23, <2>2 DEF Forgets, To, SessionTypes
    <3>2. at[x] = "set" /\ got[x] \notin contested => bound[req[x]] # got[x]
      BY DEF OwnInv, RequestInv, Free
    <3>3. bound'[req[x]] \in {bound[req[x]], NoNode}
      BY <1>23 DEF Forgets, Delete, SessionTypes
    <3>4. at[x] = "set" => got[x] # NoNode
      BY Sorts DEF OwnInv, RequestInv, Owning
    <3>5. QED
      BY <1>23, <3>1, <3>2, <3>3, <3>4, RequestKept DEF Forgets, registry,
         others
  <2>3. QED
    BY <2>1, <2>2
<1>24. ASSUME NEW w \in Tokens, EndsSession(w) PROVE RequestInv(x)'
  <2>1. at[x] = "set" /\ got[x] \notin contested => bound[req[x]] # got[x]
    BY DEF OwnInv, RequestInv, Free
  <2>2. bound'[req[x]] \in {bound[req[x]], NoNode}
    BY <1>24 DEF EndsSession, Delete, SessionTypes
  <2>3. at[x] = "set" => got[x] # NoNode
    BY Sorts DEF OwnInv, RequestInv, Owning
  <2>4. QED
    BY <1>24, <2>1, <2>2, <2>3, RequestKept DEF EndsSession, registry
<1>25. QED
  BY <1>1, <1>2, <1>3, <1>4, <1>5, <1>6, <1>7, <1>8, <1>9, <1>10, <1>11,
     <1>12, <1>13, <1>14, <1>15, <1>16, <1>17, <1>18, <1>19, <1>20, <1>21,
     <1>22, <1>23, <1>24 DEF Effect


\* Two requests that do no more than before.
LEMMA PairKept ==
  ASSUME OwnInv, NEW x \in Requests, NEW y \in Requests, x # y, req' = req,
         contested \subseteq contested', spoilt \subseteq spoilt',
         \A z \in {x, y} :
           /\ at'[z] = at[z] \/ Busy(z)
           /\ at'[z] \notin {"release", "release_row", "unbind", "forget"}
                \/ LoggingOut(z)
           /\ at'[z] \in Owning => at[z] \in Owning /\ got'[z] = got[z]
  PROVE  PairInv(x, y)'
<1>1. PairInv(x, y)
  BY DEF OwnInv
<1>2. QED
  BY <1>1 DEF PairInv, Free, Busy, LoggingOut

\* Two requests that do nothing.
LEMMA PairStays ==
  ASSUME OwnInv, NEW x \in Requests, NEW y \in Requests, x # y, req' = req,
         contested \subseteq contested', spoilt \subseteq spoilt',
         \A z \in {x, y} : at'[z] = at[z] /\ got'[z] = got[z]
  PROVE  PairInv(x, y)'
<1>1. PairInv(x, y)
  BY DEF OwnInv
<1>2. QED
  BY <1>1 DEF PairInv, Free, Busy, LoggingOut


\* Two requests never come to have one number in hand.
LEMMA PairsKeep ==
  ASSUME SessionTypes, OwnInv, NEW x \in Requests, NEW y \in Requests, x # y,
         Effect
  PROVE  PairInv(x, y)'
<1>1. ASSUME Stay PROVE PairInv(x, y)'
  BY <1>1, PairStays DEF Stay, Purge, requests, others
<1>2. ASSUME NEW l \in Listings, Purges(l) PROVE PairInv(x, y)'
  BY <1>2, PairStays DEF Purges, Purge, requests, others
<1>3. ASSUME NEW h \in Lines, Walk(h) PROVE PairInv(x, y)'
  BY <1>3, PairStays DEF Walk, Purge, requests, others
<1>4. ASSUME NEW h \in Lines, Controls(h) PROVE PairInv(x, y)'
  BY <1>4, PairStays DEF Controls, Purge, requests, others
<1>5. ASSUME NEW h \in Lines, Uncontrols(h) PROVE PairInv(x, y)'
  BY <1>5, PairStays DEF Uncontrols, Purge, requests, others
<1>6. ASSUME NEW p \in Players, Arrives(p) PROVE PairInv(x, y)'
  BY <1>6, PairStays DEF Arrives, Purge, requests, others
<1>7. ASSUME NEW p \in Players, Opens(p) PROVE PairInv(x, y)'
  BY <1>7, PairStays DEF Opens, Purge, requests, others
<1>8. ASSUME NEW p \in Players, Closes(p) PROVE PairInv(x, y)'
  BY <1>8, PairStays DEF Closes, Purge, requests, others
<1>9. ASSUME NEW p \in Players, Leaves(p) PROVE PairInv(x, y)'
  BY <1>9, PairStays DEF Leaves, Purge, requests, others
<1>10. ASSUME NEW r \in Requests, Begins(r) PROVE PairInv(x, y)'
  <2>1. CASE x = r
    <3>1. at'[x] = "bind" /\ at'[y] = at[y]
      BY <1>10, <2>1 DEF Begins, To, SessionTypes
    <3>2. LoggingOut(y) /\ req[x] = req[y] => req[y] \in spoilt'
      BY <1>10, <2>1 DEF Begins, Race, Beside, LoggingOut, Busy
    <3>3. QED
      BY <1>10, <3>1, <3>2 DEF Begins, PairInv, LoggingOut, Owning
  <2>2. CASE y = r
    <3>1. at'[y] = "bind"
      BY <1>10, <2>2 DEF Begins, To, SessionTypes
    <3>2. QED
      BY <3>1 DEF PairInv, LoggingOut, Owning
  <2>9. CASE x # r /\ y # r
    <3>1. \A z \in {x, y} : at'[z] = at[z] /\ got'[z] = got[z]
      BY <1>10, <2>9 DEF Begins, To, SessionTypes
    <3>2. QED
      BY <1>10, <3>1, PairStays DEF Begins, Race, Contest, others
  <2>10. QED
    BY <2>1, <2>2, <2>9
<1>11. ASSUME NEW r \in Requests, Asks(r) PROVE PairInv(x, y)'
  <2>1. CASE x = r
    <3>1. at'[x] = "bind" /\ at'[y] = at[y]
      BY <1>11, <2>1 DEF Asks, To, SessionTypes
    <3>2. LoggingOut(y) /\ req[x] = req[y] => req[y] \in spoilt'
      BY <1>11, <2>1 DEF Asks, Race, Beside, LoggingOut, Busy
    <3>3. QED
      BY <1>11, <3>1, <3>2 DEF Asks, PairInv, LoggingOut, Owning
  <2>2. CASE y = r
    <3>1. at'[y] = "bind"
      BY <1>11, <2>2 DEF Asks, To, SessionTypes
    <3>2. QED
      BY <3>1 DEF PairInv, LoggingOut, Owning
  <2>9. CASE x # r /\ y # r
    <3>1. \A z \in {x, y} : at'[z] = at[z] /\ got'[z] = got[z]
      BY <1>11, <2>9 DEF Asks, To, SessionTypes
    <3>2. QED
      BY <1>11, <3>1, PairStays DEF Asks, Race, Contest, others
  <2>10. QED
    BY <2>1, <2>2, <2>9
<1>12. ASSUME NEW r \in Requests, Finds(r) PROVE PairInv(x, y)'
  <2>1. \A z \in {x, y} :
          /\ at'[z] = at[z] \/ Busy(z)
          /\ at'[z] \notin {"release", "release_row", "unbind", "forget"} \/ LoggingOut(z)
          /\ at'[z] \in Owning => at[z] \in Owning /\ got'[z] = got[z]
    BY <1>12 DEF Finds, To, Bound, Busy, LoggingOut, Owning, SessionTypes
  <2>2. QED
    BY <1>12, <2>1, PairKept DEF Finds, others
<1>13. ASSUME NEW r \in Requests, Inserts(r) PROVE PairInv(x, y)'
  <2>1. \A z \in Requests : at[z] \in Owning /\ got[z] \notin contested =>
        got[z] # FreeNode
    BY OwnTask, NewNumber
  <2>2. UNCHANGED <<req, contested, spoilt>>
    BY <1>13 DEF Inserts, others
  <2>3. at'[r] = "set" /\ got'[r] = FreeNode /\ Busy(r)
    BY <1>13 DEF Inserts, To, SessionTypes, Busy
  <2>4. \A z \in Requests \ {r} : at'[z] = at[z] /\ got'[z] = got[z]
    BY <1>13 DEF Inserts, To, SessionTypes
  <2>5. PairInv(x, y)
    BY DEF OwnInv
  <2>6. CASE x = r
    BY <2>1, <2>2, <2>3, <2>4, <2>5, <2>6 DEF PairInv, LoggingOut, Busy,
       Owning, Free
  <2>7. CASE y = r
    BY <2>1, <2>2, <2>3, <2>4, <2>7 DEF PairInv, LoggingOut, Busy, Owning,
       Free
  <2>9. CASE x # r /\ y # r
    <3>1. \A z \in {x, y} : at'[z] = at[z] /\ got'[z] = got[z]
      BY <1>13, <2>9 DEF Inserts, To, SessionTypes
    <3>2. QED
      BY <1>13, <3>1, PairStays DEF Inserts, Race, Contest, others
  <2>10. QED
    BY <2>6, <2>7, <2>9
<1>14. ASSUME NEW r \in Requests, Binds(r) PROVE PairInv(x, y)'
  <2>1. \A z \in {x, y} :
          /\ at'[z] = at[z] \/ Busy(z)
          /\ at'[z] \notin {"release", "release_row", "unbind", "forget"} \/ LoggingOut(z)
          /\ at'[z] \in Owning => at[z] \in Owning /\ got'[z] = got[z]
    BY <1>14 DEF Binds, To, Bound, Busy, LoggingOut, Owning, SessionTypes
  <2>2. QED
    BY <1>14, <2>1, PairKept DEF Binds, others
<1>15. ASSUME NEW r \in Requests, Files(r) PROVE PairInv(x, y)'
  <2>1. \A z \in {x, y} :
          /\ at'[z] = at[z] \/ Busy(z)
          /\ at'[z] \notin {"release", "release_row", "unbind", "forget"} \/ LoggingOut(z)
          /\ at'[z] \in Owning => at[z] \in Owning /\ got'[z] = got[z]
    BY <1>15 DEF Files, To, Bound, Busy, LoggingOut, Owning, SessionTypes
  <2>2. QED
    BY <1>15, <2>1, PairKept DEF Files, others
<1>16. ASSUME NEW r \in Requests, Names(r) PROVE PairInv(x, y)'
  <2>1. \A z \in {x, y} :
          /\ at'[z] = at[z] \/ Busy(z)
          /\ at'[z] \notin {"release", "release_row", "unbind", "forget"} \/ LoggingOut(z)
          /\ at'[z] \in Owning => at[z] \in Owning /\ got'[z] = got[z]
    BY <1>16 DEF Names, To, Bound, Busy, LoggingOut, Owning, SessionTypes
  <2>2. QED
    BY <1>16, <2>1, PairKept DEF Names, others
<1>17. ASSUME NEW r \in Requests, Touches(r) PROVE PairInv(x, y)'
  <2>1. \A z \in {x, y} :
          /\ at'[z] = at[z] \/ Busy(z)
          /\ at'[z] \notin {"release", "release_row", "unbind", "forget"} \/ LoggingOut(z)
          /\ at'[z] \in Owning => at[z] \in Owning /\ got'[z] = got[z]
    BY <1>17 DEF Touches, To, Bound, Busy, LoggingOut, Owning, SessionTypes
  <2>2. QED
    BY <1>17, <2>1, PairKept DEF Touches, others
<1>18. ASSUME NEW r \in Requests, Serves(r) PROVE PairInv(x, y)'
  <2>1. \A z \in {x, y} :
          /\ at'[z] = at[z] \/ Busy(z)
          /\ at'[z] \notin {"release", "release_row", "unbind", "forget"} \/ LoggingOut(z)
          /\ at'[z] \in Owning => at[z] \in Owning /\ got'[z] = got[z]
    BY <1>18 DEF Serves, To, Bound, Busy, LoggingOut, Owning, SessionTypes
  <2>2. QED
    BY <1>18, <2>1, PairKept DEF Serves, others
<1>19. ASSUME NEW r \in Requests, LogsOut(r) PROVE PairInv(x, y)'
  <2>1. at'[r] \in {"release", "forget"} /\ got'[r] = bound[req[r]]
    BY <1>19 DEF LogsOut, To, SessionTypes
  <2>2. \A z \in Requests \ {r} : at'[z] = at[z] /\ got'[z] = got[z]
    BY <1>19 DEF LogsOut, To, SessionTypes
  <2>3. req' = req /\ contested \subseteq contested' /\
        spoilt \subseteq spoilt'
    BY <1>19 DEF LogsOut, Contest, Race
  <2>4. ASSUME NEW z \in Requests \ {r}, req[z] = req[r], Busy(z)
        PROVE  req[r] \in spoilt'
    BY <1>19, <2>4 DEF LogsOut, Race, Beside
  <2>5. ASSUME NEW z \in Requests \ {r}, at[z] \in Owning,
        got[z] = bound[req[r]]
        PROVE  got[z] \in contested'
    <3>1. SUFFICES ASSUME got[z] \notin contested PROVE got[z] \in contested'
      BY <2>3
    <3>2. req[r] \in Tokens /\ got[z] \in Ids /\ row[got[z]] = req[z]
      BY <2>5, <3>1, OwnTask DEF SessionTypes
    <3>3. CASE z \in Beside(r) /\ (LoggingOut(z) \/ at[z] = "control")
      BY <1>19, <2>5, <3>2, <3>3, Sorts DEF LogsOut, Contest
    <3>4. CASE At(req[r], {"unbind"})
      <4>1. PICK q \in Requests : req[q] = req[r] /\ at[q] = "unbind"
        BY <3>4 DEF At
      <4>2. q \in Beside(r) /\ LoggingOut(q)
        BY <1>19, <4>1 DEF LogsOut, Beside, Busy, LoggingOut
      <4>3. QED
        BY <1>19, <2>5, <3>2, <4>2, Sorts DEF LogsOut, Contest
    <3>5. CASE ~At(req[r], {"unbind"})
      <4>1. req[z] = req[r]
        BY <2>5, <3>1, <3>2, <3>5, Sorts DEF OwnInv, TokenInv, Mine
      <4>2. at[z] # "set"
        BY <2>5, <3>1, <4>1 DEF OwnInv, RequestInv, Free
      <4>3. z \in Beside(r) /\ (LoggingOut(z) \/ at[z] = "control")
        BY <2>5, <4>1, <4>2 DEF Beside, Busy, LoggingOut, Owning
      <4>4. QED
        BY <3>3, <4>3
    <3>6. QED
      BY <3>4, <3>5
  <2>6. PairInv(x, y)
    BY DEF OwnInv
  <2>7. CASE x = r
    <3>1. (req[y] = req[r] /\ Busy(y) => req[r] \in spoilt')
          /\ (at[y] \in Owning /\ got[y] = bound[req[r]] =>
               got[y] \in contested')
      BY <2>4, <2>5, <2>7
    <3>2. at'[y] = at[y] /\ got'[y] = got[y] /\ got'[x] = bound[req[r]]
      BY <2>1, <2>2, <2>7
    <3>3. QED
      BY <2>3, <2>7, <3>1, <3>2 DEF PairInv, LoggingOut, Busy, Free
  <2>8. CASE y = r
    BY <2>1, <2>2, <2>3, <2>4, <2>5, <2>8 DEF PairInv, LoggingOut, Busy, Free
  <2>9. CASE x # r /\ y # r
    <3>1. \A z \in {x, y} : at'[z] = at[z] /\ got'[z] = got[z]
      BY <1>19, <2>9 DEF LogsOut, To, SessionTypes
    <3>2. QED
      BY <1>19, <3>1, PairStays DEF LogsOut, Race, Contest, others
  <2>10. QED
    BY <2>7, <2>8, <2>9
<1>20. ASSUME NEW r \in Requests, Unfiles(r) PROVE PairInv(x, y)'
  <2>1. \A z \in {x, y} :
          /\ at'[z] = at[z] \/ Busy(z)
          /\ at'[z] \notin {"release", "release_row", "unbind", "forget"} \/ LoggingOut(z)
          /\ at'[z] \in Owning => at[z] \in Owning /\ got'[z] = got[z]
    BY <1>20 DEF Unfiles, To, Bound, Busy, LoggingOut, Owning, SessionTypes
  <2>2. QED
    BY <1>20, <2>1, PairKept DEF Unfiles, others
<1>21. ASSUME NEW r \in Requests, Removes(r) PROVE PairInv(x, y)'
  <2>1. \A z \in {x, y} :
          /\ at'[z] = at[z] \/ Busy(z)
          /\ at'[z] \notin {"release", "release_row", "unbind", "forget"} \/ LoggingOut(z)
          /\ at'[z] \in Owning => at[z] \in Owning /\ got'[z] = got[z]
    BY <1>21 DEF Removes, To, Bound, Busy, LoggingOut, Owning, SessionTypes
  <2>2. QED
    BY <1>21, <2>1, PairKept DEF Removes, others
<1>22. ASSUME NEW r \in Requests, Unbinds(r) PROVE PairInv(x, y)'
  <2>1. \A z \in {x, y} :
          /\ at'[z] = at[z] \/ Busy(z)
          /\ at'[z] \notin {"release", "release_row", "unbind", "forget"} \/ LoggingOut(z)
          /\ at'[z] \in Owning => at[z] \in Owning /\ got'[z] = got[z]
    BY <1>22 DEF Unbinds, To, Bound, Busy, LoggingOut, Owning, SessionTypes
  <2>2. QED
    BY <1>22, <2>1, PairKept DEF Unbinds, others
<1>23. ASSUME NEW r \in Requests, Forgets(r) PROVE PairInv(x, y)'
  <2>1. \A z \in {x, y} :
          /\ at'[z] = at[z] \/ Busy(z)
          /\ at'[z] \notin {"release", "release_row", "unbind", "forget"} \/ LoggingOut(z)
          /\ at'[z] \in Owning => at[z] \in Owning /\ got'[z] = got[z]
    BY <1>23 DEF Forgets, To, Bound, Busy, LoggingOut, Owning, SessionTypes
  <2>2. QED
    BY <1>23, <2>1, PairKept DEF Forgets, others
<1>24. ASSUME NEW w \in Tokens, EndsSession(w) PROVE PairInv(x, y)'
  BY <1>24, PairStays DEF EndsSession, Purge, requests, others
<1>25. QED
  BY <1>1, <1>2, <1>3, <1>4, <1>5, <1>6, <1>7, <1>8, <1>9, <1>10, <1>11,
     <1>12, <1>13, <1>14, <1>15, <1>16, <1>17, <1>18, <1>19, <1>20, <1>21,
     <1>22, <1>23, <1>24 DEF Effect


\* Every effect keeps OwnInv.
LEMMA EffectOwns ==
  ASSUME SessionTypes, OwnInv, Effect
  PROVE  OwnInv'
<1>1. \A p \in Players : PlayerInv(p)'
  BY PlayersKeep
<1>2. \A w \in Tokens : TokenInv(w)'
  BY TokensKeep
<1>3. \A r \in Requests : RequestInv(r)'
  BY RequestsKeep
<1>4. \A r, q \in Requests : r # q => PairInv(r, q)'
  BY PairsKeep
<1>5. QED
  BY <1>1, <1>2, <1>3, <1>4 DEF OwnInv


-----------------------------------------------------------------------------
(* One thing at a time in a web session.                                   *)

\* A request that nobody touches, in a session that nobody touches.
LEMMA TaskKept ==
  ASSUME OwnInv, SoleInv, NEW x \in Requests, got'[x] = got[x], req' = req,
         \A q \in Requests : req[q] = req[x] => at'[q] = at[q],
         alive'[req[x]] = alive[req[x]], bound'[req[x]] = bound[req[x]],
         spoilt \subseteq spoilt',
         got[x] \in Ids =>
           /\ ctrl'[got[x]] = req[x] => ctrl[got[x]] = req[x]
           /\ row'[got[x]] = req[x] => row[got[x]] = req[x]
  PROVE  TaskInv(x)'
<1>1. TaskInv(x) /\ at'[x] = at[x]
  BY DEF SoleInv
<1>2. Sole(x) => Sole(x)'
  BY DEF Sole, Busy
<1>3. at[x] \in {"release_row", "unbind"} => got[x] \in Ids
  BY DEF OwnInv, RequestInv, Owning
<1>4. QED
  BY <1>1, <1>2, <1>3 DEF TaskInv, Busy, LoggingOut

\* A request that does nothing, and one whose session is spoilt.
LEMMA TaskIdle ==
  ASSUME NEW x \in Requests, at'[x] \in {"new", "done"}
  PROVE  TaskInv(x)'
BY DEF TaskInv, Busy, LoggingOut

LEMMA TaskSpoilt ==
  ASSUME NEW x \in Requests, req' = req, req[x] \in spoilt', x \notin LogIns
  PROVE  TaskInv(x)'
BY DEF TaskInv

\* Of two requests at once neither logs in; neither logs out or changes the
\* number unless the session is spoilt.
LEMMA TwoAtOnce ==
  ASSUME SoleInv, NEW x \in Requests, NEW r \in Requests, x # r,
         req[x] = req[r], Busy(x), Busy(r)
  PROVE  /\ x \notin LogIns /\ r \notin LogIns
         /\ req[x] \notin spoilt =>
              /\ ~LoggingOut(x) /\ ~LoggingOut(r)
              /\ at[x] \notin {"set", "control"} /\
                   at[r] \notin {"set", "control"}
              /\ bound[req[x]] # NoNode /\ alive[req[x]]
<1>1. TaskInv(x) /\ TaskInv(r)
  BY DEF SoleInv
<1>2. ~Sole(x) /\ ~Sole(r)
  BY DEF Sole
<1>3. QED
  BY <1>1, <1>2 DEF TaskInv, LoggingOut

\* An ordinary request beside another of its session.
LEMMA TaskBeside ==
  ASSUME SoleInv, NEW x \in Requests, NEW r \in Requests, x # r,
         req[x] = req[r], Busy(r), at'[x] = at[x], got'[x] = got[x],
           req' = req,
         spoilt \subseteq spoilt',
         Busy(x) /\ req[x] \notin spoilt =>
           alive'[req[x]] = alive[req[x]] /\ bound'[req[x]] = bound[req[x]]
  PROVE  TaskInv(x)'
<1>1. CASE ~Busy(x)
  BY <1>1, TaskIdle DEF Busy
<1>2. CASE Busy(x) /\ req[x] \in spoilt
  BY <1>2, TwoAtOnce, TaskSpoilt
<1>3. CASE Busy(x) /\ req[x] \notin spoilt
  <2>1. /\ x \notin LogIns /\ ~LoggingOut(x) /\ at[x] \notin {"set", "control"}
        /\ bound[req[x]] # NoNode /\ alive[req[x]]
    BY <1>3, TwoAtOnce
  <2>2. QED
    BY <1>3, <2>1 DEF TaskInv, Busy, LoggingOut
<1>4. QED
  BY <1>1, <1>2, <1>3

\* A session with a token has a number, unless it is being logged out.
LEMMA HasNumber ==
  ASSUME SessionTypes, SoleInv, NEW r \in Requests, HasToken(r), at[r] = "new",
         alive[req[r]], req[r] \notin spoilt, bound[req[r]] = NoNode
  PROVE  \E q \in Beside(r) : LoggingOut(q)
<1>1. BoundInv(req[r])
  BY DEF SoleInv, SessionTypes
<1>2. PICK q \in Requests :
        /\ req[q] = req[r]
        /\ \/ at[q] = "forget"
           \/ q \in LogIns /\ at[q] \in {"bind", "set"}
  BY <1>1 DEF BoundInv
<1>3. q \in Beside(r)
  BY <1>2 DEF Beside, Busy
<1>4. QED
  BY <1>2, <1>3 DEF HasToken, LoggingOut


\* A session does one thing at a time, in whatever order.
LEMMA TasksKeep ==
  ASSUME SessionTypes, OwnInv, SoleInv, NEW x \in Requests, Effect
  PROVE  TaskInv(x)'
<1>1. ASSUME Stay PROVE TaskInv(x)'
  <2>1. got[x] \in Ids =>
          /\ ctrl'[got[x]] = req[x] => ctrl[got[x]] = req[x]
          /\ row'[got[x]] = req[x] => row[got[x]] = req[x]
    BY <1>1, Sorts DEF Stay, SessionTypes, requests, Players
  <2>2. QED
    BY <1>1, <2>1, TaskKept DEF Stay, requests, others
<1>2. ASSUME NEW l \in Listings, Purges(l) PROVE TaskInv(x)'
  <2>1. got[x] \in Ids =>
          /\ ctrl'[got[x]] = req[x] => ctrl[got[x]] = req[x]
          /\ row'[got[x]] = req[x] => row[got[x]] = req[x]
    BY <1>2, Sorts DEF Purges, Purge, SessionTypes, requests, Players
  <2>2. QED
    BY <1>2, <2>1, TaskKept DEF Purges, Purge, requests, others
<1>3. ASSUME NEW h \in Lines, Walk(h) PROVE TaskInv(x)'
  <2>1. got[x] \in Ids =>
          /\ ctrl'[got[x]] = req[x] => ctrl[got[x]] = req[x]
          /\ row'[got[x]] = req[x] => row[got[x]] = req[x]
    BY <1>3, Sorts DEF Walk, SessionTypes, requests, Players
  <2>2. QED
    BY <1>3, <2>1, TaskKept DEF Walk, requests, others
<1>4. ASSUME NEW h \in Lines, Controls(h) PROVE TaskInv(x)'
  <2>1. got[x] \in Ids =>
          /\ ctrl'[got[x]] = req[x] => ctrl[got[x]] = req[x]
          /\ row'[got[x]] = req[x] => row[got[x]] = req[x]
    BY <1>4, Sorts DEF Controls, RegisterControl, SessionTypes, requests,
       Players
  <2>2. QED
    BY <1>4, <2>1, TaskKept DEF Controls, RegisterControl, requests, others
<1>5. ASSUME NEW h \in Lines, Uncontrols(h) PROVE TaskInv(x)'
  <2>1. got[x] \in Ids =>
          /\ ctrl'[got[x]] = req[x] => ctrl[got[x]] = req[x]
          /\ row'[got[x]] = req[x] => row[got[x]] = req[x]
    BY <1>5, Sorts DEF Uncontrols, UnregisterControl, SessionTypes, requests,
       Players
  <2>2. QED
    BY <1>5, <2>1, TaskKept DEF Uncontrols, UnregisterControl, requests,
       others
<1>6. ASSUME NEW p \in Players, Arrives(p) PROVE TaskInv(x)'
  <2>1. got[x] \in Ids =>
          /\ ctrl'[got[x]] = req[x] => ctrl[got[x]] = req[x]
          /\ row'[got[x]] = req[x] => row[got[x]] = req[x]
    BY <1>6, Sorts DEF Arrives, Register, SessionTypes, requests, Players
  <2>2. QED
    BY <1>6, <2>1, TaskKept DEF Arrives, Register, requests, others
<1>7. ASSUME NEW p \in Players, Opens(p) PROVE TaskInv(x)'
  <2>1. got[x] \in Ids =>
          /\ ctrl'[got[x]] = req[x] => ctrl[got[x]] = req[x]
          /\ row'[got[x]] = req[x] => row[got[x]] = req[x]
    BY <1>7, Sorts DEF Opens, SessionTypes, requests, Players
  <2>2. QED
    BY <1>7, <2>1, TaskKept DEF Opens, requests, others
<1>8. ASSUME NEW p \in Players, Closes(p) PROVE TaskInv(x)'
  <2>1. got[x] \in Ids =>
          /\ ctrl'[got[x]] = req[x] => ctrl[got[x]] = req[x]
          /\ row'[got[x]] = req[x] => row[got[x]] = req[x]
    BY <1>8, Sorts DEF Closes, SessionTypes, requests, Players
  <2>2. QED
    BY <1>8, <2>1, TaskKept DEF Closes, requests, others
<1>9. ASSUME NEW p \in Players, Leaves(p) PROVE TaskInv(x)'
  <2>1. got[x] \in Ids =>
          /\ ctrl'[got[x]] = req[x] => ctrl[got[x]] = req[x]
          /\ row'[got[x]] = req[x] => row[got[x]] = req[x]
    BY <1>9, Sorts DEF Leaves, Unregister, SessionTypes, requests, Players
  <2>2. QED
    BY <1>9, <2>1, TaskKept DEF Leaves, Unregister, requests, others
<1>10. ASSUME NEW r \in Requests, Begins(r) PROVE TaskInv(x)'
  <2>1. /\ \A q \in Requests \ {r} : at'[q] = at[q] /\ got'[q] = got[q]
        /\ req' = req /\ spoilt \subseteq spoilt' /\ TaskInv(r)
    BY <1>10 DEF Begins, To, Race, others, SessionTypes, SoleInv
  <2>2. CASE req[x] # req[r]
    <3>1. alive'[req[x]] = alive[req[x]] /\ bound'[req[x]] = bound[req[x]]
      BY <1>10, <2>2 DEF Begins, Delete, SessionTypes
    <3>2. got[x] \in Ids =>
            /\ ctrl'[got[x]] = req[x] => ctrl[got[x]] = req[x]
            /\ row'[got[x]] = req[x] => row[got[x]] = req[x]
      BY <1>10, <2>2, Sorts DEF Begins, registry, SessionTypes
    <3>3. QED
      BY <2>1, <2>2, <3>1, <3>2, TaskKept
  <2>3. CASE x # r /\ req[x] = req[r]
    BY <1>10, <2>1, <2>3, TaskIdle DEF Begins
  <2>4. CASE x = r
    <3>1. Sole(x)'
      BY <1>10, <2>1, <2>4 DEF Begins, Sole, Busy
    <3>2. QED
      BY <1>10, <2>1, <2>4, <3>1 DEF Begins, To, SessionTypes, TaskInv, Busy,
         LoggingOut
  <2>5. QED
    BY <2>2, <2>3, <2>4
<1>11. ASSUME NEW r \in Requests, Asks(r) PROVE TaskInv(x)'
  <2>1. /\ \A q \in Requests \ {r} : at'[q] = at[q] /\ got'[q] = got[q]
        /\ req' = req /\ spoilt \subseteq spoilt' /\ TaskInv(r)
    BY <1>11 DEF Asks, To, Race, others, SessionTypes, SoleInv
  <2>2. CASE req[x] # req[r]
    <3>1. alive'[req[x]] = alive[req[x]] /\ bound'[req[x]] = bound[req[x]]
      BY <1>11, <2>2 DEF Asks, Delete, SessionTypes
    <3>2. got[x] \in Ids =>
            /\ ctrl'[got[x]] = req[x] => ctrl[got[x]] = req[x]
            /\ row'[got[x]] = req[x] => row[got[x]] = req[x]
      BY <1>11, <2>2, Sorts DEF Asks, registry, SessionTypes
    <3>3. QED
      BY <2>1, <2>2, <3>1, <3>2, TaskKept
  <2>3. CASE x # r /\ req[x] = req[r]
    <3>1. CASE ~Busy(x)
      BY <2>1, <2>3, <3>1, TaskIdle DEF Busy
    <3>2. CASE Busy(x)
      <4>1. x \in Beside(r) /\ x \notin LogIns
        BY <1>11, <2>3, <3>2 DEF Asks, HasToken, Beside
      <4>2. CASE LoggingOut(x)
        <5>1. req[x] \in spoilt'
          BY <1>11, <2>3, <4>1, <4>2 DEF Asks, Race
        <5>2. QED
          BY <2>1, <4>1, <5>1, TaskSpoilt
      <4>3. CASE ~LoggingOut(x)
        <5>1. TaskInv(x) /\ UNCHANGED <<alive, bound>>
          BY <1>11 DEF Asks, SoleInv
        <5>2. QED
          BY <2>1, <2>3, <4>1, <4>3, <5>1 DEF TaskInv, Busy, LoggingOut
      <4>4. QED
        BY <4>2, <4>3
    <3>3. QED
      BY <3>1, <3>2
  <2>4. CASE x = r
    <3>1. x \notin LogIns /\ at'[x] = "bind" /\ alive'[req[x]] /\
          bound' = bound
      BY <1>11, <2>4 DEF Asks, HasToken, To, SessionTypes
    <3>2. CASE req[x] \in spoilt'
      BY <2>1, <3>1, <3>2, TaskSpoilt
    <3>3. CASE req[x] \notin spoilt'
      <4>1. ASSUME NEW q \in Beside(x), LoggingOut(q) PROVE FALSE
        BY <1>11, <2>4, <3>3, <4>1 DEF Asks, Race, Beside
      <4>2. bound[req[x]] # NoNode
        BY <1>11, <2>1, <2>4, <3>3, <4>1, HasNumber DEF Asks
      <4>3. QED
        BY <2>1, <3>1, <4>2 DEF TaskInv, LoggingOut
    <3>4. QED
      BY <3>2, <3>3
  <2>5. QED
    BY <2>2, <2>3, <2>4
<1>12. ASSUME NEW r \in Requests, Finds(r) PROVE TaskInv(x)'
  <2>1. /\ \A q \in Requests \ {r} : at'[q] = at[q] /\ got'[q] = got[q]
        /\ req' = req /\ spoilt \subseteq spoilt' /\ TaskInv(r)
    BY <1>12 DEF Finds, To, Race, others, SessionTypes, SoleInv
  <2>2. CASE req[x] # req[r]
    <3>1. alive'[req[x]] = alive[req[x]] /\ bound'[req[x]] = bound[req[x]]
      BY <1>12, <2>2 DEF Finds, Delete, SessionTypes
    <3>2. got[x] \in Ids =>
            /\ ctrl'[got[x]] = req[x] => ctrl[got[x]] = req[x]
            /\ row'[got[x]] = req[x] => row[got[x]] = req[x]
      BY <1>12, <2>2, Sorts DEF Finds, registry, SessionTypes
    <3>3. QED
      BY <2>1, <2>2, <3>1, <3>2, TaskKept
  <2>3. CASE x # r /\ req[x] = req[r]
    <3>1. Busy(r)
      BY <1>12 DEF Finds, Busy
    <3>2. ASSUME Busy(x), req[x] \notin spoilt
          PROVE  alive'[req[x]] = alive[req[x]] /\
            bound'[req[x]] = bound[req[x]]
      BY <1>12, <2>3, <3>1, <3>2, TwoAtOnce DEF Finds, LoggingOut
    <3>3. QED
      BY <2>1, <2>3, <3>1, <3>2, TaskBeside
  <2>4. CASE x = r
    <3>1. Sole(x) => Sole(x)'
      BY <2>1, <2>4 DEF Sole, Busy

    <3>2. QED
      BY <1>12, <2>1, <2>4, <3>1 DEF Finds, Bound, To, SessionTypes, TaskInv,
         Busy, LoggingOut, registry, others
  <2>5. QED
    BY <2>2, <2>3, <2>4
<1>13. ASSUME NEW r \in Requests, Inserts(r) PROVE TaskInv(x)'
  <2>1. /\ \A q \in Requests \ {r} : at'[q] = at[q] /\ got'[q] = got[q]
        /\ req' = req /\ spoilt \subseteq spoilt' /\ TaskInv(r)
    BY <1>13 DEF Inserts, To, Race, others, SessionTypes, SoleInv
  <2>2. CASE req[x] # req[r]
    <3>1. alive'[req[x]] = alive[req[x]] /\ bound'[req[x]] = bound[req[x]]
      BY <1>13, <2>2 DEF Inserts, Delete, SessionTypes
    <3>2. got[x] \in Ids =>
            /\ ctrl'[got[x]] = req[x] => ctrl[got[x]] = req[x]
            /\ row'[got[x]] = req[x] => row[got[x]] = req[x]
      BY <1>13, <2>2, Sorts DEF Inserts, Register, registry, SessionTypes
    <3>3. QED
      BY <2>1, <2>2, <3>1, <3>2, TaskKept
  <2>3. CASE x # r /\ req[x] = req[r]
    <3>1. Busy(r)
      BY <1>13 DEF Inserts, Busy
    <3>2. ASSUME Busy(x), req[x] \notin spoilt
          PROVE  alive'[req[x]] = alive[req[x]] /\
            bound'[req[x]] = bound[req[x]]
      BY <1>13, <2>3, <3>1, <3>2, TwoAtOnce DEF Inserts, LoggingOut
    <3>3. QED
      BY <2>1, <2>3, <3>1, <3>2, TaskBeside
  <2>4. CASE x = r
    <3>1. Sole(x) => Sole(x)'
      BY <2>1, <2>4 DEF Sole, Busy

    <3>2. QED
      BY <1>13, <2>1, <2>4, <3>1 DEF Inserts, To, SessionTypes, TaskInv, Busy,
         LoggingOut, registry, others
  <2>5. QED
    BY <2>2, <2>3, <2>4
<1>14. ASSUME NEW r \in Requests, Binds(r) PROVE TaskInv(x)'
  <2>1. /\ \A q \in Requests \ {r} : at'[q] = at[q] /\ got'[q] = got[q]
        /\ req' = req /\ spoilt \subseteq spoilt' /\ TaskInv(r)
    BY <1>14 DEF Binds, To, Race, others, SessionTypes, SoleInv
  <2>2. CASE req[x] # req[r]
    <3>1. alive'[req[x]] = alive[req[x]] /\ bound'[req[x]] = bound[req[x]]
      BY <1>14, <2>2 DEF Binds, Delete, SessionTypes
    <3>2. got[x] \in Ids =>
            /\ ctrl'[got[x]] = req[x] => ctrl[got[x]] = req[x]
            /\ row'[got[x]] = req[x] => row[got[x]] = req[x]
      BY <1>14, <2>2, Sorts DEF Binds, registry, SessionTypes
    <3>3. QED
      BY <2>1, <2>2, <3>1, <3>2, TaskKept
  <2>3. CASE x # r /\ req[x] = req[r]
    <3>1. Busy(r)
      BY <1>14 DEF Binds, Busy
    <3>2. ASSUME Busy(x), req[x] \notin spoilt
          PROVE  alive'[req[x]] = alive[req[x]] /\
            bound'[req[x]] = bound[req[x]]
      BY <1>14, <2>3, <3>1, <3>2, TwoAtOnce DEF Binds, LoggingOut
    <3>3. QED
      BY <2>1, <2>3, <3>1, <3>2, TaskBeside
  <2>4. CASE x = r
    <3>1. Sole(x) => Sole(x)'
      BY <2>1, <2>4 DEF Sole, Busy

    <3>2. QED
      BY <1>14, <2>1, <2>4, <3>1 DEF Binds, To, SessionTypes, TaskInv, Busy,
         LoggingOut, registry, others
  <2>5. QED
    BY <2>2, <2>3, <2>4
<1>15. ASSUME NEW r \in Requests, Files(r) PROVE TaskInv(x)'
  <2>1. /\ \A q \in Requests \ {r} : at'[q] = at[q] /\ got'[q] = got[q]
        /\ req' = req /\ spoilt \subseteq spoilt' /\ TaskInv(r)
    BY <1>15 DEF Files, To, Race, others, SessionTypes, SoleInv
  <2>2. CASE req[x] # req[r]
    <3>1. alive'[req[x]] = alive[req[x]] /\ bound'[req[x]] = bound[req[x]]
      BY <1>15, <2>2 DEF Files, Delete, SessionTypes
    <3>2. got[x] \in Ids =>
            /\ ctrl'[got[x]] = req[x] => ctrl[got[x]] = req[x]
            /\ row'[got[x]] = req[x] => row[got[x]] = req[x]
      BY <1>15, <2>2, Sorts DEF Files, RegisterControl, registry, SessionTypes
    <3>3. QED
      BY <2>1, <2>2, <3>1, <3>2, TaskKept
  <2>3. CASE x # r /\ req[x] = req[r]
    <3>1. Busy(r)
      BY <1>15 DEF Files, Busy
    <3>2. ASSUME Busy(x), req[x] \notin spoilt
          PROVE  alive'[req[x]] = alive[req[x]] /\
            bound'[req[x]] = bound[req[x]]
      BY <1>15, <2>3, <3>1, <3>2, TwoAtOnce DEF Files, LoggingOut
    <3>3. QED
      BY <2>1, <2>3, <3>1, <3>2, TaskBeside
  <2>4. CASE x = r
    <3>1. Sole(x) => Sole(x)'
      BY <2>1, <2>4 DEF Sole, Busy

    <3>2. QED
      BY <1>15, <2>1, <2>4, <3>1 DEF Files, To, SessionTypes, TaskInv, Busy,
         LoggingOut, registry, others
  <2>5. QED
    BY <2>2, <2>3, <2>4
<1>16. ASSUME NEW r \in Requests, Names(r) PROVE TaskInv(x)'
  <2>1. /\ \A q \in Requests \ {r} : at'[q] = at[q] /\ got'[q] = got[q]
        /\ req' = req /\ spoilt \subseteq spoilt' /\ TaskInv(r)
    BY <1>16 DEF Names, To, Race, others, SessionTypes, SoleInv
  <2>2. CASE req[x] # req[r]
    <3>1. alive'[req[x]] = alive[req[x]] /\ bound'[req[x]] = bound[req[x]]
      BY <1>16, <2>2 DEF Names, Delete, SessionTypes
    <3>2. got[x] \in Ids =>
            /\ ctrl'[got[x]] = req[x] => ctrl[got[x]] = req[x]
            /\ row'[got[x]] = req[x] => row[got[x]] = req[x]
      BY <1>16, <2>2, Sorts DEF Names, registry, SessionTypes
    <3>3. QED
      BY <2>1, <2>2, <3>1, <3>2, TaskKept
  <2>3. CASE x # r /\ req[x] = req[r]
    <3>1. Busy(r)
      BY <1>16 DEF Names, Busy
    <3>2. ASSUME Busy(x), req[x] \notin spoilt
          PROVE  alive'[req[x]] = alive[req[x]] /\
            bound'[req[x]] = bound[req[x]]
      BY <1>16, <2>3, <3>1, <3>2, TwoAtOnce DEF Names, LoggingOut
    <3>3. QED
      BY <2>1, <2>3, <3>1, <3>2, TaskBeside
  <2>4. CASE x = r
    <3>1. Sole(x) => Sole(x)'
      BY <2>1, <2>4 DEF Sole, Busy

    <3>2. QED
      BY <1>16, <2>1, <2>4, <3>1 DEF Names, Bound, To, SessionTypes, TaskInv,
         Busy, LoggingOut, registry, others
  <2>5. QED
    BY <2>2, <2>3, <2>4
<1>17. ASSUME NEW r \in Requests, Touches(r) PROVE TaskInv(x)'
  <2>1. /\ \A q \in Requests \ {r} : at'[q] = at[q] /\ got'[q] = got[q]
        /\ req' = req /\ spoilt \subseteq spoilt' /\ TaskInv(r)
    BY <1>17 DEF Touches, To, Race, others, SessionTypes, SoleInv
  <2>2. CASE req[x] # req[r]
    <3>1. alive'[req[x]] = alive[req[x]] /\ bound'[req[x]] = bound[req[x]]
      BY <1>17, <2>2 DEF Touches, Delete, SessionTypes
    <3>2. got[x] \in Ids =>
            /\ ctrl'[got[x]] = req[x] => ctrl[got[x]] = req[x]
            /\ row'[got[x]] = req[x] => row[got[x]] = req[x]
      BY <1>17, <2>2, Sorts DEF Touches, registry, SessionTypes
    <3>3. QED
      BY <2>1, <2>2, <3>1, <3>2, TaskKept
  <2>3. CASE x # r /\ req[x] = req[r]
    <3>1. Busy(r)
      BY <1>17 DEF Touches, Busy
    <3>2. ASSUME Busy(x), req[x] \notin spoilt
          PROVE  alive'[req[x]] = alive[req[x]] /\
            bound'[req[x]] = bound[req[x]]
      BY <1>17, <2>3, <3>1, <3>2, TwoAtOnce DEF Touches, LoggingOut
    <3>3. QED
      BY <2>1, <2>3, <3>1, <3>2, TaskBeside
  <2>4. CASE x = r
    <3>1. Sole(x) => Sole(x)'
      BY <2>1, <2>4 DEF Sole, Busy

    <3>2. QED
      BY <1>17, <2>1, <2>4, <3>1 DEF Touches, To, SessionTypes, TaskInv, Busy,
         LoggingOut, registry, others
  <2>5. QED
    BY <2>2, <2>3, <2>4
<1>18. ASSUME NEW r \in Requests, Serves(r) PROVE TaskInv(x)'
  <2>1. /\ \A q \in Requests \ {r} : at'[q] = at[q] /\ got'[q] = got[q]
        /\ req' = req /\ spoilt \subseteq spoilt' /\ TaskInv(r)
    BY <1>18 DEF Serves, To, Race, others, SessionTypes, SoleInv
  <2>2. CASE req[x] # req[r]
    <3>1. alive'[req[x]] = alive[req[x]] /\ bound'[req[x]] = bound[req[x]]
      BY <1>18, <2>2 DEF Serves, Delete, SessionTypes
    <3>2. got[x] \in Ids =>
            /\ ctrl'[got[x]] = req[x] => ctrl[got[x]] = req[x]
            /\ row'[got[x]] = req[x] => row[got[x]] = req[x]
      BY <1>18, <2>2, Sorts DEF Serves, registry, SessionTypes
    <3>3. QED
      BY <2>1, <2>2, <3>1, <3>2, TaskKept
  <2>3. CASE x # r /\ req[x] = req[r]
    <3>1. Busy(r)
      BY <1>18 DEF Serves, Busy
    <3>2. ASSUME Busy(x), req[x] \notin spoilt
          PROVE  alive'[req[x]] = alive[req[x]] /\
            bound'[req[x]] = bound[req[x]]
      BY <1>18, <2>3, <3>1, <3>2, TwoAtOnce DEF Serves, LoggingOut
    <3>3. QED
      BY <2>1, <2>3, <3>1, <3>2, TaskBeside
  <2>4. CASE x = r
    <3>1. Sole(x) => Sole(x)'
      BY <2>1, <2>4 DEF Sole, Busy

    <3>2. QED
      BY <1>18, <2>1, <2>4, <3>1 DEF Serves, To, SessionTypes, TaskInv, Busy,
         LoggingOut, registry, others
  <2>5. QED
    BY <2>2, <2>3, <2>4
<1>19. ASSUME NEW r \in Requests, LogsOut(r) PROVE TaskInv(x)'
  <2>1. /\ \A q \in Requests \ {r} : at'[q] = at[q] /\ got'[q] = got[q]
        /\ req' = req /\ spoilt \subseteq spoilt' /\ TaskInv(r)
    BY <1>19 DEF LogsOut, To, Race, others, SessionTypes, SoleInv
  <2>2. CASE req[x] # req[r]
    <3>1. alive'[req[x]] = alive[req[x]] /\ bound'[req[x]] = bound[req[x]]
      BY <1>19, <2>2 DEF LogsOut, Delete, SessionTypes
    <3>2. got[x] \in Ids =>
            /\ ctrl'[got[x]] = req[x] => ctrl[got[x]] = req[x]
            /\ row'[got[x]] = req[x] => row[got[x]] = req[x]
      BY <1>19, <2>2, Sorts DEF LogsOut, registry, SessionTypes
    <3>3. QED
      BY <2>1, <2>2, <3>1, <3>2, TaskKept
  <2>3. CASE x # r /\ req[x] = req[r]
    <3>1. CASE ~Busy(x)
      BY <2>1, <2>3, <3>1, TaskIdle DEF Busy
    <3>2. CASE Busy(x)
      <4>1. x \in Beside(r) /\ x \notin LogIns
        BY <1>19, <2>3, <3>2 DEF LogsOut, HasToken, Beside
      <4>2. req[x] \in spoilt'
        BY <1>19, <2>3, <4>1 DEF LogsOut, Race, Beside
      <4>3. QED
        BY <2>1, <4>1, <4>2, TaskSpoilt
    <3>3. QED
      BY <3>1, <3>2
  <2>4. CASE x = r
    <3>1. /\ x \notin LogIns /\ got'[x] = bound[req[x]] /\ bound' = bound
          /\ at'[x] = IF bound[req[x]] = NoNode THEN "forget" ELSE "release"
      BY <1>19, <2>4 DEF LogsOut, HasToken, To, SessionTypes
    <3>2. CASE req[x] \in spoilt'
      BY <2>1, <3>1, <3>2, TaskSpoilt
    <3>3. CASE req[x] \notin spoilt'
      <4>1. Beside(x) = {}
        BY <1>19, <2>4, <3>3 DEF LogsOut, Race, Beside
      <4>2. Sole(x)'
        BY <2>1, <2>4, <4>1 DEF Sole, Beside, Busy
      <4>3. QED
        BY <2>1, <3>1, <4>2 DEF TaskInv, LoggingOut
    <3>4. QED
      BY <3>2, <3>3
  <2>5. QED
    BY <2>2, <2>3, <2>4
<1>20. ASSUME NEW r \in Requests, Unfiles(r) PROVE TaskInv(x)'
  <2>1. /\ \A q \in Requests \ {r} : at'[q] = at[q] /\ got'[q] = got[q]
        /\ req' = req /\ spoilt \subseteq spoilt' /\ TaskInv(r)
    BY <1>20 DEF Unfiles, To, Race, others, SessionTypes, SoleInv
  <2>2. CASE req[x] # req[r]
    <3>1. alive'[req[x]] = alive[req[x]] /\ bound'[req[x]] = bound[req[x]]
      BY <1>20, <2>2 DEF Unfiles, Delete, SessionTypes
    <3>2. got[x] \in Ids =>
            /\ ctrl'[got[x]] = req[x] => ctrl[got[x]] = req[x]
            /\ row'[got[x]] = req[x] => row[got[x]] = req[x]
      BY <1>20, <2>2, Sorts DEF Unfiles, UnregisterControl, registry,
         SessionTypes
    <3>3. QED
      BY <2>1, <2>2, <3>1, <3>2, TaskKept
  <2>3. CASE x # r /\ req[x] = req[r]
    <3>1. Busy(r)
      BY <1>20 DEF Unfiles, Busy
    <3>2. ASSUME Busy(x), req[x] \notin spoilt
          PROVE  alive'[req[x]] = alive[req[x]] /\
            bound'[req[x]] = bound[req[x]]
      BY <1>20, <2>3, <3>1, <3>2, TwoAtOnce DEF Unfiles, LoggingOut
    <3>3. QED
      BY <2>1, <2>3, <3>1, <3>2, TaskBeside
  <2>4. CASE x = r
    <3>1. Sole(x) => Sole(x)'
      BY <2>1, <2>4 DEF Sole, Busy

    <3>9. got[r] \in Ids
      BY <1>20 DEF Unfiles, OwnInv, RequestInv, Owning

    <3>10. QED
      BY <1>20, <2>1, <2>4, <3>1, <3>9, Sorts DEF Unfiles, UnregisterControl,
         To, SessionTypes, TaskInv, Busy, LoggingOut, registry, others
  <2>5. QED
    BY <2>2, <2>3, <2>4
<1>21. ASSUME NEW r \in Requests, Removes(r) PROVE TaskInv(x)'
  <2>1. /\ \A q \in Requests \ {r} : at'[q] = at[q] /\ got'[q] = got[q]
        /\ req' = req /\ spoilt \subseteq spoilt' /\ TaskInv(r)
    BY <1>21 DEF Removes, To, Race, others, SessionTypes, SoleInv
  <2>2. CASE req[x] # req[r]
    <3>1. alive'[req[x]] = alive[req[x]] /\ bound'[req[x]] = bound[req[x]]
      BY <1>21, <2>2 DEF Removes, Delete, SessionTypes
    <3>2. got[x] \in Ids =>
            /\ ctrl'[got[x]] = req[x] => ctrl[got[x]] = req[x]
            /\ row'[got[x]] = req[x] => row[got[x]] = req[x]
      BY <1>21, <2>2, Sorts DEF Removes, Unregister, registry, SessionTypes
    <3>3. QED
      BY <2>1, <2>2, <3>1, <3>2, TaskKept
  <2>3. CASE x # r /\ req[x] = req[r]
    <3>1. Busy(r)
      BY <1>21 DEF Removes, Busy
    <3>2. ASSUME Busy(x), req[x] \notin spoilt
          PROVE  alive'[req[x]] = alive[req[x]] /\
            bound'[req[x]] = bound[req[x]]
      BY <1>21, <2>3, <3>1, <3>2, TwoAtOnce DEF Removes, LoggingOut
    <3>3. QED
      BY <2>1, <2>3, <3>1, <3>2, TaskBeside
  <2>4. CASE x = r
    <3>1. Sole(x) => Sole(x)'
      BY <2>1, <2>4 DEF Sole, Busy

    <3>9. got[r] \in Ids
      BY <1>21 DEF Removes, OwnInv, RequestInv, Owning

    <3>10. QED
      BY <1>21, <2>1, <2>4, <3>1, <3>9, Sorts DEF Removes, Unregister, To,
         SessionTypes, TaskInv, Busy, LoggingOut, registry, others
  <2>5. QED
    BY <2>2, <2>3, <2>4
<1>22. ASSUME NEW r \in Requests, Unbinds(r) PROVE TaskInv(x)'
  <2>1. /\ \A q \in Requests \ {r} : at'[q] = at[q] /\ got'[q] = got[q]
        /\ req' = req /\ spoilt \subseteq spoilt' /\ TaskInv(r)
    BY <1>22 DEF Unbinds, To, Race, others, SessionTypes, SoleInv
  <2>2. CASE req[x] # req[r]
    <3>1. alive'[req[x]] = alive[req[x]] /\ bound'[req[x]] = bound[req[x]]
      BY <1>22, <2>2 DEF Unbinds, Delete, SessionTypes
    <3>2. got[x] \in Ids =>
            /\ ctrl'[got[x]] = req[x] => ctrl[got[x]] = req[x]
            /\ row'[got[x]] = req[x] => row[got[x]] = req[x]
      BY <1>22, <2>2, Sorts DEF Unbinds, registry, SessionTypes
    <3>3. QED
      BY <2>1, <2>2, <3>1, <3>2, TaskKept
  <2>3. CASE x # r /\ req[x] = req[r]
    <3>1. Busy(r)
      BY <1>22 DEF Unbinds, Busy
    <3>2. ASSUME Busy(x), req[x] \notin spoilt
          PROVE  alive'[req[x]] = alive[req[x]] /\
            bound'[req[x]] = bound[req[x]]
      BY <1>22, <2>3, <3>1, <3>2, TwoAtOnce DEF Unbinds, LoggingOut
    <3>3. QED
      BY <2>1, <2>3, <3>1, <3>2, TaskBeside
  <2>4. CASE x = r
    <3>1. Sole(x) => Sole(x)'
      BY <2>1, <2>4 DEF Sole, Busy

    <3>2. QED
      BY <1>22, <2>1, <2>4, <3>1 DEF Unbinds, To, SessionTypes, TaskInv, Busy,
         LoggingOut, registry, others
  <2>5. QED
    BY <2>2, <2>3, <2>4
<1>23. ASSUME NEW r \in Requests, Forgets(r) PROVE TaskInv(x)'
  <2>1. /\ \A q \in Requests \ {r} : at'[q] = at[q] /\ got'[q] = got[q]
        /\ req' = req /\ spoilt \subseteq spoilt' /\ TaskInv(r)
    BY <1>23 DEF Forgets, To, Race, others, SessionTypes, SoleInv
  <2>2. CASE req[x] # req[r]
    <3>1. alive'[req[x]] = alive[req[x]] /\ bound'[req[x]] = bound[req[x]]
      BY <1>23, <2>2 DEF Forgets, Delete, SessionTypes
    <3>2. got[x] \in Ids =>
            /\ ctrl'[got[x]] = req[x] => ctrl[got[x]] = req[x]
            /\ row'[got[x]] = req[x] => row[got[x]] = req[x]
      BY <1>23, <2>2, Sorts DEF Forgets, registry, SessionTypes
    <3>3. QED
      BY <2>1, <2>2, <3>1, <3>2, TaskKept
  <2>3. CASE x # r /\ req[x] = req[r]
    <3>1. Busy(r)
      BY <1>23 DEF Forgets, Busy
    <3>2. ASSUME Busy(x), req[x] \notin spoilt
          PROVE  alive'[req[x]] = alive[req[x]] /\
            bound'[req[x]] = bound[req[x]]
      BY <1>23, <2>3, <3>1, <3>2, TwoAtOnce DEF Forgets, LoggingOut
    <3>3. QED
      BY <2>1, <2>3, <3>1, <3>2, TaskBeside
  <2>4. CASE x = r
    BY <1>23, <2>4, TaskIdle DEF Forgets, To, SessionTypes
  <2>5. QED
    BY <2>2, <2>3, <2>4
<1>24. ASSUME NEW w \in Tokens, EndsSession(w) PROVE TaskInv(x)'
  <2>1. CASE req[x] # w
    BY <1>24, <2>1, TaskKept DEF EndsSession, Delete, registry, SessionTypes
  <2>2. CASE req[x] = w
    <3>1. req[x] \in spoilt' /\ UNCHANGED <<req, at, got>> /\
          spoilt \subseteq spoilt'
      BY <1>24, <2>2 DEF EndsSession
    <3>2. Sole(x) => Sole(x)'
      BY <3>1 DEF Sole, Busy
    <3>3. QED
      BY <3>1, <3>2 DEF SoleInv, TaskInv, Busy, LoggingOut
  <2>3. QED
    BY <2>1, <2>2
<1>25. QED
  BY <1>1, <1>2, <1>3, <1>4, <1>5, <1>6, <1>7, <1>8, <1>9, <1>10, <1>11,
     <1>12, <1>13, <1>14, <1>15, <1>16, <1>17, <1>18, <1>19, <1>20, <1>21,
     <1>22, <1>23, <1>24 DEF Effect


\* A session that is alive has a number, but at its beginning and its end.
LEMMA BoundsKeep ==
  ASSUME SessionTypes, OwnInv, SoleInv, NEW x \in Tokens, Effect
  PROVE  BoundInv(x)'
<1>1. ASSUME Stay PROVE BoundInv(x)'
  BY <1>1 DEF Stay, Purge, SoleInv, BoundInv, requests, others
<1>2. ASSUME NEW l \in Listings, Purges(l) PROVE BoundInv(x)'
  BY <1>2 DEF Purges, Purge, SoleInv, BoundInv, requests, others
<1>3. ASSUME NEW h \in Lines, Walk(h) PROVE BoundInv(x)'
  BY <1>3 DEF Walk, Purge, SoleInv, BoundInv, requests, others
<1>4. ASSUME NEW h \in Lines, Controls(h) PROVE BoundInv(x)'
  BY <1>4 DEF Controls, Purge, SoleInv, BoundInv, requests, others
<1>5. ASSUME NEW h \in Lines, Uncontrols(h) PROVE BoundInv(x)'
  BY <1>5 DEF Uncontrols, Purge, SoleInv, BoundInv, requests, others
<1>6. ASSUME NEW p \in Players, Arrives(p) PROVE BoundInv(x)'
  BY <1>6 DEF Arrives, Purge, SoleInv, BoundInv, requests, others
<1>7. ASSUME NEW p \in Players, Opens(p) PROVE BoundInv(x)'
  BY <1>7 DEF Opens, Purge, SoleInv, BoundInv, requests, others
<1>8. ASSUME NEW p \in Players, Closes(p) PROVE BoundInv(x)'
  BY <1>8 DEF Closes, Purge, SoleInv, BoundInv, requests, others
<1>9. ASSUME NEW p \in Players, Leaves(p) PROVE BoundInv(x)'
  BY <1>9 DEF Leaves, Purge, SoleInv, BoundInv, requests, others
<1>10. ASSUME NEW r \in Requests, Begins(r) PROVE BoundInv(x)'
  <2>1. /\ \A q \in Requests \ {r} : at'[q] = at[q]
        /\ req' = req /\ spoilt' = spoilt /\ BoundInv(x)
    BY <1>10 DEF Begins, To, others, SessionTypes, SoleInv
  <2>2. CASE req[r] # x
    BY <1>10, <2>1, <2>2 DEF Begins, Delete, BoundInv, SessionTypes
  <2>3. CASE req[r] = x
    BY <1>10, <2>1, <2>3 DEF Begins, To, BoundInv, SessionTypes
  <2>4. QED
    BY <2>2, <2>3
<1>11. ASSUME NEW r \in Requests, Asks(r) PROVE BoundInv(x)'
  <2>1. \A q \in Requests : at[q] \in {"forget", "bind", "set"} =>
        at'[q] = at[q]
    BY <1>11 DEF Asks, To, SessionTypes
  <2>2. UNCHANGED <<req, alive, bound>> /\ spoilt \subseteq spoilt'
    BY <1>11 DEF Asks, Race, others
  <2>3. QED
    BY <2>1, <2>2 DEF SoleInv, BoundInv
<1>12. ASSUME NEW r \in Requests, Finds(r) PROVE BoundInv(x)'
  <2>1. /\ \A q \in Requests \ {r} : at'[q] = at[q]
        /\ req' = req /\ spoilt' = spoilt /\ BoundInv(x)
    BY <1>12 DEF Finds, To, others, SessionTypes, SoleInv
  <2>2. CASE req[r] # x
    BY <1>12, <2>1, <2>2 DEF Finds, Delete, BoundInv, SessionTypes
  <2>3. CASE req[r] = x
    BY <1>12, <2>1, <2>3 DEF Finds, BoundInv
  <2>4. QED
    BY <2>2, <2>3
<1>13. ASSUME NEW r \in Requests, Inserts(r) PROVE BoundInv(x)'
  <2>1. /\ \A q \in Requests \ {r} : at'[q] = at[q]
        /\ req' = req /\ spoilt' = spoilt /\ BoundInv(x)
    BY <1>13 DEF Inserts, To, others, SessionTypes, SoleInv
  <2>2. CASE req[r] # x
    BY <1>13, <2>1, <2>2 DEF Inserts, Delete, BoundInv, SessionTypes
  <2>3. CASE req[r] = x
    <3>1. at'[r] = "set" /\ Busy(r) /\ TaskInv(r) /\ UNCHANGED <<alive, bound>>
      BY <1>13 DEF Inserts, To, Busy, SoleInv, SessionTypes
    <3>2. r \in LogIns \/ x \in spoilt
      BY <1>13, <2>3, <3>1 DEF Inserts, TaskInv
    <3>3. QED
      BY <2>1, <2>3, <3>1, <3>2 DEF BoundInv
  <2>4. QED
    BY <2>2, <2>3
<1>14. ASSUME NEW r \in Requests, Binds(r) PROVE BoundInv(x)'
  <2>1. /\ \A q \in Requests \ {r} : at'[q] = at[q]
        /\ req' = req /\ spoilt' = spoilt /\ BoundInv(x)
    BY <1>14 DEF Binds, To, others, SessionTypes, SoleInv
  <2>2. CASE req[r] # x
    BY <1>14, <2>1, <2>2 DEF Binds, Delete, BoundInv, SessionTypes
  <2>3. CASE req[r] = x
    <3>1. got[r] # NoNode
      BY <1>14, Sorts DEF Binds, OwnInv, RequestInv, Owning
    <3>2. QED
      BY <1>14, <2>1, <2>3, <3>1 DEF Binds, BoundInv, SessionTypes
  <2>4. QED
    BY <2>2, <2>3
<1>15. ASSUME NEW r \in Requests, Files(r) PROVE BoundInv(x)'
  <2>1. \A q \in Requests : at[q] \in {"forget", "bind", "set"} =>
        at'[q] = at[q]
    BY <1>15 DEF Files, To, SessionTypes
  <2>2. UNCHANGED <<req, alive, bound>> /\ spoilt \subseteq spoilt'
    BY <1>15 DEF Files, Race, others
  <2>3. QED
    BY <2>1, <2>2 DEF SoleInv, BoundInv
<1>16. ASSUME NEW r \in Requests, Names(r) PROVE BoundInv(x)'
  <2>1. \A q \in Requests : at[q] \in {"forget", "bind", "set"} =>
        at'[q] = at[q]
    BY <1>16 DEF Names, To, SessionTypes
  <2>2. UNCHANGED <<req, alive, bound>> /\ spoilt \subseteq spoilt'
    BY <1>16 DEF Names, Race, others
  <2>3. QED
    BY <2>1, <2>2 DEF SoleInv, BoundInv
<1>17. ASSUME NEW r \in Requests, Touches(r) PROVE BoundInv(x)'
  <2>1. \A q \in Requests : at[q] \in {"forget", "bind", "set"} =>
        at'[q] = at[q]
    BY <1>17 DEF Touches, To, SessionTypes
  <2>2. UNCHANGED <<req, alive, bound>> /\ spoilt \subseteq spoilt'
    BY <1>17 DEF Touches, Race, others
  <2>3. QED
    BY <2>1, <2>2 DEF SoleInv, BoundInv
<1>18. ASSUME NEW r \in Requests, Serves(r) PROVE BoundInv(x)'
  <2>1. \A q \in Requests : at[q] \in {"forget", "bind", "set"} =>
        at'[q] = at[q]
    BY <1>18 DEF Serves, To, SessionTypes
  <2>2. UNCHANGED <<req, alive, bound>> /\ spoilt \subseteq spoilt'
    BY <1>18 DEF Serves, Race, others
  <2>3. QED
    BY <2>1, <2>2 DEF SoleInv, BoundInv
<1>19. ASSUME NEW r \in Requests, LogsOut(r) PROVE BoundInv(x)'
  <2>1. \A q \in Requests : at[q] \in {"forget", "bind", "set"} =>
        at'[q] = at[q]
    BY <1>19 DEF LogsOut, To, SessionTypes
  <2>2. UNCHANGED <<req, alive, bound>> /\ spoilt \subseteq spoilt'
    BY <1>19 DEF LogsOut, Race, others
  <2>3. QED
    BY <2>1, <2>2 DEF SoleInv, BoundInv
<1>20. ASSUME NEW r \in Requests, Unfiles(r) PROVE BoundInv(x)'
  <2>1. \A q \in Requests : at[q] \in {"forget", "bind", "set"} =>
        at'[q] = at[q]
    BY <1>20 DEF Unfiles, To, SessionTypes
  <2>2. UNCHANGED <<req, alive, bound>> /\ spoilt \subseteq spoilt'
    BY <1>20 DEF Unfiles, Race, others
  <2>3. QED
    BY <2>1, <2>2 DEF SoleInv, BoundInv
<1>21. ASSUME NEW r \in Requests, Removes(r) PROVE BoundInv(x)'
  <2>1. \A q \in Requests : at[q] \in {"forget", "bind", "set"} =>
        at'[q] = at[q]
    BY <1>21 DEF Removes, To, SessionTypes
  <2>2. UNCHANGED <<req, alive, bound>> /\ spoilt \subseteq spoilt'
    BY <1>21 DEF Removes, Race, others
  <2>3. QED
    BY <2>1, <2>2 DEF SoleInv, BoundInv
<1>22. ASSUME NEW r \in Requests, Unbinds(r) PROVE BoundInv(x)'
  <2>1. /\ \A q \in Requests \ {r} : at'[q] = at[q]
        /\ req' = req /\ spoilt' = spoilt /\ BoundInv(x)
    BY <1>22 DEF Unbinds, To, others, SessionTypes, SoleInv
  <2>2. CASE req[r] # x
    BY <1>22, <2>1, <2>2 DEF Unbinds, Delete, BoundInv, SessionTypes
  <2>3. CASE req[r] = x
    BY <1>22, <2>1, <2>3 DEF Unbinds, To, BoundInv, SessionTypes
  <2>4. QED
    BY <2>2, <2>3
<1>23. ASSUME NEW r \in Requests, Forgets(r) PROVE BoundInv(x)'
  <2>1. /\ \A q \in Requests \ {r} : at'[q] = at[q]
        /\ req' = req /\ spoilt' = spoilt /\ BoundInv(x)
    BY <1>23 DEF Forgets, To, others, SessionTypes, SoleInv
  <2>2. CASE req[r] # x
    BY <1>23, <2>1, <2>2 DEF Forgets, Delete, BoundInv, SessionTypes
  <2>3. CASE req[r] = x
    BY <1>23, <2>1, <2>3 DEF Forgets, Delete, BoundInv, SessionTypes
  <2>4. QED
    BY <2>2, <2>3
<1>24. ASSUME NEW w \in Tokens, EndsSession(w) PROVE BoundInv(x)'
  <2>1. CASE x = w
    BY <1>24, <2>1 DEF EndsSession, BoundInv
  <2>2. CASE x # w
    BY <1>24, <2>2 DEF EndsSession, Delete, SoleInv, BoundInv, SessionTypes
  <2>3. QED
    BY <2>1, <2>2
<1>25. QED
  BY <1>1, <1>2, <1>3, <1>4, <1>5, <1>6, <1>7, <1>8, <1>9, <1>10, <1>11,
     <1>12, <1>13, <1>14, <1>15, <1>16, <1>17, <1>18, <1>19, <1>20, <1>21,
     <1>22, <1>23, <1>24 DEF Effect


-----------------------------------------------------------------------------
(* What is left on the board.                                              *)

\* A player who goes on, and whose rows and controls become no more.
LEMMA PlayerLeftKept ==
  ASSUME LeftInv, NEW x \in Players, node'[x] = node[x],
         \/ place'[x] = place[x]
         \/ IsOn(x) /\ place'[x] \notin {"new", "gone", "registered", "row"},
         \A i \in Ids : row'[i] = x => row[i] = x,
         \A i \in Ids : ctrl'[i] = x => ctrl[i] = x
  PROVE  PlayerLeft(x)'
<1>1. PlayerLeft(x)
  BY DEF LeftInv
<1>2. QED
  BY <1>1 DEF PlayerLeft, IsOn

\* A session that keeps its number and has no new row and no new control.
LEMMA TokenLeftKept ==
  ASSUME LeftInv, NEW x \in Tokens, x \notin spoilt, bound'[x] = bound[x],
         req' = req,
         \A r \in Requests : req[r] = x /\ at[r] = "set" =>
           at'[r] = at[r] /\ got'[r] = got[r],
         \A i \in Ids : row'[i] = x => row[i] = x,
         \A i \in Ids : ctrl'[i] = x => ctrl[i] = x
  PROVE  TokenLeft(x)'
<1>1. TokenLeft(x)
  BY DEF LeftInv
<1>2. SUFFICES ASSUME NEW i \in Ids
      PROVE  /\ row'[i] = x =>
                  \/ bound'[x] = i
                  \/ \E r \in Requests :
                       req'[r] = x /\ at'[r] = "set" /\ got'[r] = i
             /\ ctrl'[i] = x => bound'[x] = i
  BY DEF TokenLeft
<1>3. CASE row'[i] = x /\ bound[x] # i
  <2>1. PICK r \in Requests : req[r] = x /\ at[r] = "set" /\ got[r] = i
    BY <1>1, <1>3 DEF TokenLeft
  <2>2. QED
    BY <1>1, <2>1 DEF TokenLeft
<1>4. CASE row'[i] # x \/ bound[x] = i
  BY <1>1, <1>4 DEF TokenLeft
<1>5. QED
  BY <1>3, <1>4


\* Whose row and control a player's are.
LEMMA PlayersLeft ==
  ASSUME SessionTypes, LeftInv, NEW x \in Players, Effect
  PROVE  PlayerLeft(x)'
<1>1. ASSUME Stay PROVE PlayerLeft(x)'
  BY <1>1, PlayerLeftKept DEF Stay
<1>2. ASSUME NEW l \in Listings, Purges(l) PROVE PlayerLeft(x)'
  <2>1. /\ \A i \in Ids : row'[i] = x => row[i] = x
        /\ \A i \in Ids : ctrl'[i] = x => ctrl[i] = x
    BY <1>2, Sorts DEF Purges, Purge, registry, Players, SessionTypes
  <2>2. QED
    BY <1>2, <2>1, PlayerLeftKept DEF Purges, Purge, players
<1>3. ASSUME NEW h \in Lines, Walk(h) PROVE PlayerLeft(x)'
  <2>1. CASE x # h
    <3>1. /\ \A i \in Ids : row'[i] = x => row[i] = x
          /\ \A i \in Ids : ctrl'[i] = x => ctrl[i] = x
      BY <1>3, <2>1, Sorts DEF Walk, SessionTypes
    <3>2. node'[x] = node[x] /\ place'[x] = place[x]
      BY <1>3, <2>1 DEF Walk, Go, SessionTypes
    <3>3. QED
      BY <3>1, <3>2, PlayerLeftKept
  <2>2. CASE x = h
    <3>1. PlayerLeft(x) /\ node[x] \in Ids \cup {NoNode}
      BY DEF LeftInv, SessionTypes
    <3>2. QED
      BY <1>3, <2>2, <3>1, Sorts DEF Walk, Go, PlayerLeft, IsOn, Specials,
         SessionTypes, Players
  <2>3. QED
    BY <2>1, <2>2
<1>4. ASSUME NEW h \in Lines, Controls(h) PROVE PlayerLeft(x)'
  <2>1. CASE x # h
    <3>1. /\ \A i \in Ids : row'[i] = x => row[i] = x
          /\ \A i \in Ids : ctrl'[i] = x => ctrl[i] = x
      BY <1>4, <2>1, Sorts DEF Controls, RegisterControl, SessionTypes
    <3>2. node'[x] = node[x] /\ place'[x] = place[x]
      BY <1>4, <2>1 DEF Controls, Go, SessionTypes
    <3>3. QED
      BY <3>1, <3>2, PlayerLeftKept
  <2>2. CASE x = h
    <3>1. PlayerLeft(x) /\ node[x] \in Ids \cup {NoNode}
      BY DEF LeftInv, SessionTypes
    <3>2. QED
      BY <1>4, <2>2, <3>1, Sorts DEF Controls, RegisterControl, Go,
         PlayerLeft, IsOn, Specials, SessionTypes, Players
  <2>3. QED
    BY <2>1, <2>2
<1>5. ASSUME NEW h \in Lines, Uncontrols(h) PROVE PlayerLeft(x)'
  <2>1. CASE x # h
    <3>1. /\ \A i \in Ids : row'[i] = x => row[i] = x
          /\ \A i \in Ids : ctrl'[i] = x => ctrl[i] = x
      BY <1>5, <2>1, Sorts DEF Uncontrols, UnregisterControl, SessionTypes
    <3>2. node'[x] = node[x] /\ place'[x] = place[x]
      BY <1>5, <2>1 DEF Uncontrols, Go, SessionTypes
    <3>3. QED
      BY <3>1, <3>2, PlayerLeftKept
  <2>2. CASE x = h
    <3>1. PlayerLeft(x) /\ node[x] \in Ids \cup {NoNode}
      BY DEF LeftInv, SessionTypes
    <3>2. QED
      BY <1>5, <2>2, <3>1, Sorts DEF Uncontrols, UnregisterControl, Go,
         PlayerLeft, IsOn, Specials, SessionTypes, Players
  <2>3. QED
    BY <2>1, <2>2
<1>6. ASSUME NEW p \in Players, Arrives(p) PROVE PlayerLeft(x)'
  <2>1. CASE x # p
    <3>1. /\ \A i \in Ids : row'[i] = x => row[i] = x
          /\ \A i \in Ids : ctrl'[i] = x => ctrl[i] = x
      BY <1>6, <2>1, Sorts DEF Arrives, Register, SessionTypes
    <3>2. node'[x] = node[x] /\ place'[x] = place[x]
      BY <1>6, <2>1 DEF Arrives, Go, SessionTypes
    <3>3. QED
      BY <3>1, <3>2, PlayerLeftKept
  <2>2. CASE x = p
    <3>1. PlayerLeft(x) /\ node[x] \in Ids \cup {NoNode}
      BY DEF LeftInv, SessionTypes
    <3>2. QED
      BY <1>6, <2>2, <3>1, Sorts DEF Arrives, Register, Go, PlayerLeft, IsOn,
         Specials, SessionTypes, Players
  <2>3. QED
    BY <2>1, <2>2
<1>7. ASSUME NEW p \in Players, Opens(p) PROVE PlayerLeft(x)'
  <2>1. CASE x # p
    <3>1. /\ \A i \in Ids : row'[i] = x => row[i] = x
          /\ \A i \in Ids : ctrl'[i] = x => ctrl[i] = x
      BY <1>7, <2>1, Sorts DEF Opens, SessionTypes
    <3>2. node'[x] = node[x] /\ place'[x] = place[x]
      BY <1>7, <2>1 DEF Opens, Go, SessionTypes
    <3>3. QED
      BY <3>1, <3>2, PlayerLeftKept
  <2>2. CASE x = p
    <3>1. PlayerLeft(x) /\ node[x] \in Ids \cup {NoNode}
      BY DEF LeftInv, SessionTypes
    <3>2. QED
      BY <1>7, <2>2, <3>1, Sorts DEF Opens, Go, PlayerLeft, IsOn, Specials,
         SessionTypes, Players
  <2>3. QED
    BY <2>1, <2>2
<1>8. ASSUME NEW p \in Players, Closes(p) PROVE PlayerLeft(x)'
  <2>1. CASE x # p
    <3>1. /\ \A i \in Ids : row'[i] = x => row[i] = x
          /\ \A i \in Ids : ctrl'[i] = x => ctrl[i] = x
      BY <1>8, <2>1, Sorts DEF Closes, SessionTypes
    <3>2. node'[x] = node[x] /\ place'[x] = place[x]
      BY <1>8, <2>1 DEF Closes, Go, SessionTypes
    <3>3. QED
      BY <3>1, <3>2, PlayerLeftKept
  <2>2. CASE x = p
    <3>1. PlayerLeft(x) /\ node[x] \in Ids \cup {NoNode}
      BY DEF LeftInv, SessionTypes
    <3>2. QED
      BY <1>8, <2>2, <3>1, Sorts DEF Closes, Go, PlayerLeft, IsOn, Specials,
         SessionTypes, Players
  <2>3. QED
    BY <2>1, <2>2
<1>9. ASSUME NEW p \in Players, Leaves(p) PROVE PlayerLeft(x)'
  <2>1. CASE x # p
    <3>1. /\ \A i \in Ids : row'[i] = x => row[i] = x
          /\ \A i \in Ids : ctrl'[i] = x => ctrl[i] = x
      BY <1>9, <2>1, Sorts DEF Leaves, Unregister, SessionTypes
    <3>2. node'[x] = node[x] /\ place'[x] = place[x]
      BY <1>9, <2>1 DEF Leaves, Go, SessionTypes
    <3>3. QED
      BY <3>1, <3>2, PlayerLeftKept
  <2>2. CASE x = p
    <3>1. PlayerLeft(x) /\ node[x] \in Ids \cup {NoNode}
      BY DEF LeftInv, SessionTypes
    <3>2. QED
      BY <1>9, <2>2, <3>1, Sorts DEF Leaves, Unregister, Go, PlayerLeft, IsOn,
         Specials, SessionTypes, Players
  <2>3. QED
    BY <2>1, <2>2
<1>10. ASSUME NEW r \in Requests, Begins(r) PROVE PlayerLeft(x)'
  <2>1. /\ \A i \in Ids : row'[i] = x => row[i] = x
        /\ \A i \in Ids : ctrl'[i] = x => ctrl[i] = x
    BY <1>10, Sorts DEF Begins, registry, Players, SessionTypes
  <2>2. QED
    BY <1>10, <2>1, PlayerLeftKept DEF Begins, players
<1>11. ASSUME NEW r \in Requests, Asks(r) PROVE PlayerLeft(x)'
  <2>1. /\ \A i \in Ids : row'[i] = x => row[i] = x
        /\ \A i \in Ids : ctrl'[i] = x => ctrl[i] = x
    BY <1>11, Sorts DEF Asks, registry, Players, SessionTypes
  <2>2. QED
    BY <1>11, <2>1, PlayerLeftKept DEF Asks, players
<1>12. ASSUME NEW r \in Requests, Finds(r) PROVE PlayerLeft(x)'
  <2>1. /\ \A i \in Ids : row'[i] = x => row[i] = x
        /\ \A i \in Ids : ctrl'[i] = x => ctrl[i] = x
    BY <1>12, Sorts DEF Finds, registry, Players, SessionTypes
  <2>2. QED
    BY <1>12, <2>1, PlayerLeftKept DEF Finds, players
<1>13. ASSUME NEW r \in Requests, Inserts(r) PROVE PlayerLeft(x)'
  <2>1. /\ \A i \in Ids : row'[i] = x => row[i] = x
        /\ \A i \in Ids : ctrl'[i] = x => ctrl[i] = x
    BY <1>13, Sorts DEF Inserts, Register, registry, Players, SessionTypes
  <2>2. QED
    BY <1>13, <2>1, PlayerLeftKept DEF Inserts, Register, players
<1>14. ASSUME NEW r \in Requests, Binds(r) PROVE PlayerLeft(x)'
  <2>1. /\ \A i \in Ids : row'[i] = x => row[i] = x
        /\ \A i \in Ids : ctrl'[i] = x => ctrl[i] = x
    BY <1>14, Sorts DEF Binds, registry, Players, SessionTypes
  <2>2. QED
    BY <1>14, <2>1, PlayerLeftKept DEF Binds, players
<1>15. ASSUME NEW r \in Requests, Files(r) PROVE PlayerLeft(x)'
  <2>1. /\ \A i \in Ids : row'[i] = x => row[i] = x
        /\ \A i \in Ids : ctrl'[i] = x => ctrl[i] = x
    BY <1>15, Sorts DEF Files, RegisterControl, registry, Players,
       SessionTypes
  <2>2. QED
    BY <1>15, <2>1, PlayerLeftKept DEF Files, RegisterControl, players
<1>16. ASSUME NEW r \in Requests, Names(r) PROVE PlayerLeft(x)'
  <2>1. /\ \A i \in Ids : row'[i] = x => row[i] = x
        /\ \A i \in Ids : ctrl'[i] = x => ctrl[i] = x
    BY <1>16, Sorts DEF Names, registry, Players, SessionTypes
  <2>2. QED
    BY <1>16, <2>1, PlayerLeftKept DEF Names, players
<1>17. ASSUME NEW r \in Requests, Touches(r) PROVE PlayerLeft(x)'
  <2>1. /\ \A i \in Ids : row'[i] = x => row[i] = x
        /\ \A i \in Ids : ctrl'[i] = x => ctrl[i] = x
    BY <1>17, Sorts DEF Touches, registry, Players, SessionTypes
  <2>2. QED
    BY <1>17, <2>1, PlayerLeftKept DEF Touches, players
<1>18. ASSUME NEW r \in Requests, Serves(r) PROVE PlayerLeft(x)'
  <2>1. /\ \A i \in Ids : row'[i] = x => row[i] = x
        /\ \A i \in Ids : ctrl'[i] = x => ctrl[i] = x
    BY <1>18, Sorts DEF Serves, registry, Players, SessionTypes
  <2>2. QED
    BY <1>18, <2>1, PlayerLeftKept DEF Serves, players
<1>19. ASSUME NEW r \in Requests, LogsOut(r) PROVE PlayerLeft(x)'
  <2>1. /\ \A i \in Ids : row'[i] = x => row[i] = x
        /\ \A i \in Ids : ctrl'[i] = x => ctrl[i] = x
    BY <1>19, Sorts DEF LogsOut, registry, Players, SessionTypes
  <2>2. QED
    BY <1>19, <2>1, PlayerLeftKept DEF LogsOut, players
<1>20. ASSUME NEW r \in Requests, Unfiles(r) PROVE PlayerLeft(x)'
  <2>1. /\ \A i \in Ids : row'[i] = x => row[i] = x
        /\ \A i \in Ids : ctrl'[i] = x => ctrl[i] = x
    BY <1>20, Sorts DEF Unfiles, UnregisterControl, registry, Players,
       SessionTypes
  <2>2. QED
    BY <1>20, <2>1, PlayerLeftKept DEF Unfiles, UnregisterControl, players
<1>21. ASSUME NEW r \in Requests, Removes(r) PROVE PlayerLeft(x)'
  <2>1. /\ \A i \in Ids : row'[i] = x => row[i] = x
        /\ \A i \in Ids : ctrl'[i] = x => ctrl[i] = x
    BY <1>21, Sorts DEF Removes, Unregister, registry, Players, SessionTypes
  <2>2. QED
    BY <1>21, <2>1, PlayerLeftKept DEF Removes, Unregister, players
<1>22. ASSUME NEW r \in Requests, Unbinds(r) PROVE PlayerLeft(x)'
  <2>1. /\ \A i \in Ids : row'[i] = x => row[i] = x
        /\ \A i \in Ids : ctrl'[i] = x => ctrl[i] = x
    BY <1>22, Sorts DEF Unbinds, registry, Players, SessionTypes
  <2>2. QED
    BY <1>22, <2>1, PlayerLeftKept DEF Unbinds, players
<1>23. ASSUME NEW r \in Requests, Forgets(r) PROVE PlayerLeft(x)'
  <2>1. /\ \A i \in Ids : row'[i] = x => row[i] = x
        /\ \A i \in Ids : ctrl'[i] = x => ctrl[i] = x
    BY <1>23, Sorts DEF Forgets, registry, Players, SessionTypes
  <2>2. QED
    BY <1>23, <2>1, PlayerLeftKept DEF Forgets, players
<1>24. ASSUME NEW w \in Tokens, EndsSession(w) PROVE PlayerLeft(x)'
  <2>1. /\ \A i \in Ids : row'[i] = x => row[i] = x
        /\ \A i \in Ids : ctrl'[i] = x => ctrl[i] = x
    BY <1>24, Sorts DEF EndsSession, registry, Players, SessionTypes
  <2>2. QED
    BY <1>24, <2>1, PlayerLeftKept DEF EndsSession, players
<1>25. QED
  BY <1>1, <1>2, <1>3, <1>4, <1>5, <1>6, <1>7, <1>8, <1>9, <1>10, <1>11,
     <1>12, <1>13, <1>14, <1>15, <1>16, <1>17, <1>18, <1>19, <1>20, <1>21,
     <1>22, <1>23, <1>24 DEF Effect


\* What a session leaves that is not spoilt.
LEMMA SessionsLeft ==
  ASSUME SessionTypes, SoleInv, LeftInv, NEW x \in Tokens, x \notin spoilt',
         Effect
  PROVE  TokenLeft(x)'
<1> x \notin spoilt
  <2>1. spoilt \subseteq spoilt'
    BY DEF Effect, Stay, Purges, Walk, Controls, Uncontrols, Arrives, Opens,
      Closes, Leaves, Begins, Asks, Finds, Inserts, Binds, Files, Names,
        Touches, Serves, LogsOut, Unfiles, Removes, Unbinds, Forgets,
          EndsSession, Purge, Race, requests, others, players
  <2>2. QED
    BY <2>1
<1>1. ASSUME Stay PROVE TokenLeft(x)'
  <2>1. /\ \A i \in Ids : row'[i] = x => row[i] = x
        /\ \A i \in Ids : ctrl'[i] = x => ctrl[i] = x
    BY <1>1, Sorts DEF Stay, Players, SessionTypes
  <2>2. QED
    BY <1>1, <2>1, TokenLeftKept DEF Stay, requests, others
<1>2. ASSUME NEW l \in Listings, Purges(l) PROVE TokenLeft(x)'
  <2>1. /\ \A i \in Ids : row'[i] = x => row[i] = x
        /\ \A i \in Ids : ctrl'[i] = x => ctrl[i] = x
    BY <1>2, Sorts DEF Purges, Purge, Players, SessionTypes
  <2>2. QED
    BY <1>2, <2>1, TokenLeftKept DEF Purges, Purge, requests, others
<1>3. ASSUME NEW h \in Lines, Walk(h) PROVE TokenLeft(x)'
  <2>1. /\ \A i \in Ids : row'[i] = x => row[i] = x
        /\ \A i \in Ids : ctrl'[i] = x => ctrl[i] = x
    BY <1>3, Sorts DEF Walk, Players, SessionTypes
  <2>2. QED
    BY <1>3, <2>1, TokenLeftKept DEF Walk, requests, others
<1>4. ASSUME NEW h \in Lines, Controls(h) PROVE TokenLeft(x)'
  <2>1. /\ \A i \in Ids : row'[i] = x => row[i] = x
        /\ \A i \in Ids : ctrl'[i] = x => ctrl[i] = x
    BY <1>4, Sorts DEF Controls, RegisterControl, Players, SessionTypes
  <2>2. QED
    BY <1>4, <2>1, TokenLeftKept DEF Controls, RegisterControl, requests,
       others
<1>5. ASSUME NEW h \in Lines, Uncontrols(h) PROVE TokenLeft(x)'
  <2>1. /\ \A i \in Ids : row'[i] = x => row[i] = x
        /\ \A i \in Ids : ctrl'[i] = x => ctrl[i] = x
    BY <1>5, Sorts DEF Uncontrols, UnregisterControl, Players, SessionTypes
  <2>2. QED
    BY <1>5, <2>1, TokenLeftKept DEF Uncontrols, UnregisterControl, requests,
       others
<1>6. ASSUME NEW p \in Players, Arrives(p) PROVE TokenLeft(x)'
  <2>1. /\ \A i \in Ids : row'[i] = x => row[i] = x
        /\ \A i \in Ids : ctrl'[i] = x => ctrl[i] = x
    BY <1>6, Sorts DEF Arrives, Register, Players, SessionTypes
  <2>2. QED
    BY <1>6, <2>1, TokenLeftKept DEF Arrives, Register, requests, others
<1>7. ASSUME NEW p \in Players, Opens(p) PROVE TokenLeft(x)'
  <2>1. /\ \A i \in Ids : row'[i] = x => row[i] = x
        /\ \A i \in Ids : ctrl'[i] = x => ctrl[i] = x
    BY <1>7, Sorts DEF Opens, Players, SessionTypes
  <2>2. QED
    BY <1>7, <2>1, TokenLeftKept DEF Opens, requests, others
<1>8. ASSUME NEW p \in Players, Closes(p) PROVE TokenLeft(x)'
  <2>1. /\ \A i \in Ids : row'[i] = x => row[i] = x
        /\ \A i \in Ids : ctrl'[i] = x => ctrl[i] = x
    BY <1>8, Sorts DEF Closes, Players, SessionTypes
  <2>2. QED
    BY <1>8, <2>1, TokenLeftKept DEF Closes, requests, others
<1>9. ASSUME NEW p \in Players, Leaves(p) PROVE TokenLeft(x)'
  <2>1. /\ \A i \in Ids : row'[i] = x => row[i] = x
        /\ \A i \in Ids : ctrl'[i] = x => ctrl[i] = x
    BY <1>9, Sorts DEF Leaves, Unregister, Players, SessionTypes
  <2>2. QED
    BY <1>9, <2>1, TokenLeftKept DEF Leaves, Unregister, requests, others
<1>10. ASSUME NEW r \in Requests, Begins(r) PROVE TokenLeft(x)'
  <2>1. /\ \A i \in Ids : row'[i] = x => row[i] = x
        /\ \A i \in Ids : ctrl'[i] = x => ctrl[i] = x
    BY <1>10, Sorts DEF Begins, registry, SessionTypes
  <2>2. /\ \A q \in Requests : at[q] = "set" => at'[q] = at[q] /\
             got'[q] = got[q]
        /\ UNCHANGED <<bound, req>>
    BY <1>10 DEF Begins, To, SessionTypes
  <2>3. QED
    BY <2>1, <2>2, TokenLeftKept
<1>11. ASSUME NEW r \in Requests, Asks(r) PROVE TokenLeft(x)'
  <2>1. /\ \A i \in Ids : row'[i] = x => row[i] = x
        /\ \A i \in Ids : ctrl'[i] = x => ctrl[i] = x
    BY <1>11, Sorts DEF Asks, registry, SessionTypes
  <2>2. /\ \A q \in Requests : at[q] = "set" => at'[q] = at[q] /\
             got'[q] = got[q]
        /\ UNCHANGED <<bound, req>>
    BY <1>11 DEF Asks, To, SessionTypes
  <2>3. QED
    BY <2>1, <2>2, TokenLeftKept
<1>12. ASSUME NEW r \in Requests, Finds(r) PROVE TokenLeft(x)'
  <2>1. /\ \A i \in Ids : row'[i] = x => row[i] = x
        /\ \A i \in Ids : ctrl'[i] = x => ctrl[i] = x
    BY <1>12, Sorts DEF Finds, registry, SessionTypes
  <2>2. /\ \A q \in Requests : at[q] = "set" => at'[q] = at[q] /\
             got'[q] = got[q]
        /\ UNCHANGED <<bound, req>>
    BY <1>12 DEF Finds, To, SessionTypes
  <2>3. QED
    BY <2>1, <2>2, TokenLeftKept
<1>13. ASSUME NEW r \in Requests, Inserts(r) PROVE TokenLeft(x)'
  <2>1. /\ \A q \in Requests \ {r} : at'[q] = at[q] /\ got'[q] = got[q]
        /\ req' = req
    BY <1>13 DEF Inserts, To, SessionTypes
  <2>2. CASE req[r] # x
    <3>1. /\ \A i \in Ids : row'[i] = x => row[i] = x
          /\ \A i \in Ids : ctrl'[i] = x => ctrl[i] = x
      BY <1>13, <2>2, Sorts DEF Inserts, Register, registry, SessionTypes
    <3>2. bound'[x] = bound[x]
      BY <1>13, <2>2 DEF Inserts, Delete, SessionTypes
    <3>3. QED
      BY <2>1, <2>2, <3>1, <3>2, TokenLeftKept
  <2>3. CASE req[r] = x
    <3>1. TokenLeft(x) /\ bound[x] = NoNode
      BY <1>13, <2>3 DEF Inserts, LeftInv
    <3>2. at'[r] = "set" /\ got'[r] = FreeNode
      BY <1>13 DEF Inserts, To, SessionTypes
    <3>3. ASSUME NEW i \in Ids, row'[i] = x
          PROVE  \E q \in Requests : req'[q] = x /\ at'[q] = "set" /\
            got'[q] = i
      <4>1. CASE i = FreeNode
        BY <2>1, <2>3, <3>2, <4>1
      <4>2. CASE i # FreeNode
        <5>1. row[i] = x /\ bound[x] # i
          BY <1>13, <3>1, <3>3, <4>2, Sorts DEF Inserts, Register,
             SessionTypes
        <5>2. PICK q \in Requests : req[q] = x /\ at[q] = "set" /\ got[q] = i
          BY <3>1, <5>1 DEF TokenLeft
        <5>3. q # r
          BY <1>13, <5>2 DEF Inserts
        <5>4. QED
          BY <2>1, <5>2, <5>3
      <4>3. QED
        BY <4>1, <4>2
    <3>4. ASSUME NEW i \in Ids PROVE ctrl'[i] # x
      BY <1>13, <3>1, <3>4, Sorts DEF Inserts, TokenLeft
    <3>5. QED
      BY <3>3, <3>4 DEF TokenLeft
  <2>4. QED
    BY <2>2, <2>3
<1>14. ASSUME NEW r \in Requests, Binds(r) PROVE TokenLeft(x)'
  <2>1. /\ \A q \in Requests \ {r} : at'[q] = at[q] /\ got'[q] = got[q]
        /\ req' = req
    BY <1>14 DEF Binds, To, SessionTypes
  <2>2. CASE req[r] # x
    <3>1. /\ \A i \in Ids : row'[i] = x => row[i] = x
          /\ \A i \in Ids : ctrl'[i] = x => ctrl[i] = x
      BY <1>14, <2>2, Sorts DEF Binds, registry, SessionTypes
    <3>2. bound'[x] = bound[x]
      BY <1>14, <2>2 DEF Binds, Delete, SessionTypes
    <3>3. QED
      BY <2>1, <2>2, <3>1, <3>2, TokenLeftKept
  <2>3. CASE req[r] = x
    <3>1. Sole(r) /\ TaskInv(r) /\ TokenLeft(x)
      BY <1>14, <2>3 DEF Binds, LoggingOut, Busy, SoleInv, TaskInv, LeftInv
    <3>2. \A q \in Requests : req[q] = x /\ at[q] = "set" => q = r
      BY <2>3, <3>1 DEF Sole, Busy

    <3>3. bound[x] = NoNode /\ bound'[x] = got[r] /\ UNCHANGED <<row, ctrl>>
      BY <1>14, <2>3, <3>1 DEF Binds, TaskInv, LoggingOut, Busy, registry,
         SessionTypes
    <3>4. QED
      BY <1>14, <2>1, <3>1, <3>2, <3>3, Sorts DEF TokenLeft
  <2>4. QED
    BY <2>2, <2>3
<1>15. ASSUME NEW r \in Requests, Files(r) PROVE TokenLeft(x)'
  <2>1. /\ \A q \in Requests \ {r} : at'[q] = at[q] /\ got'[q] = got[q]
        /\ req' = req
    BY <1>15 DEF Files, To, SessionTypes
  <2>2. CASE req[r] # x
    <3>1. /\ \A i \in Ids : row'[i] = x => row[i] = x
          /\ \A i \in Ids : ctrl'[i] = x => ctrl[i] = x
      BY <1>15, <2>2, Sorts DEF Files, RegisterControl, registry, SessionTypes
    <3>2. bound'[x] = bound[x]
      BY <1>15, <2>2 DEF Files, Delete, SessionTypes
    <3>3. QED
      BY <2>1, <2>2, <3>1, <3>2, TokenLeftKept
  <2>3. CASE req[r] = x
    <3>1. Sole(r) /\ TaskInv(r) /\ TokenLeft(x)
      BY <1>15, <2>3 DEF Files, LoggingOut, Busy, SoleInv, TaskInv, LeftInv
    <3>2. \A q \in Requests : req[q] = x /\ at[q] = "set" => q = r
      BY <2>3, <3>1 DEF Sole, Busy

    <3>3. bound[x] = got[r] /\ UNCHANGED <<bound, row, got>>
      BY <1>15, <2>3, <3>1 DEF Files, TaskInv
    <3>4. \A i \in Ids : ctrl'[i] = x => i = got[r] \/ ctrl[i] = x
      BY <1>15 DEF Files, RegisterControl, SessionTypes
    <3>5. \A q \in Requests : ~(req[q] = x /\ at[q] = "set")
      BY <1>15, <3>2 DEF Files
    <3>6. QED
      BY <3>1, <3>3, <3>4, <3>5 DEF TokenLeft
  <2>4. QED
    BY <2>2, <2>3
<1>16. ASSUME NEW r \in Requests, Names(r) PROVE TokenLeft(x)'
  <2>1. /\ \A i \in Ids : row'[i] = x => row[i] = x
        /\ \A i \in Ids : ctrl'[i] = x => ctrl[i] = x
    BY <1>16, Sorts DEF Names, registry, SessionTypes
  <2>2. /\ \A q \in Requests : at[q] = "set" => at'[q] = at[q] /\
             got'[q] = got[q]
        /\ UNCHANGED <<bound, req>>
    BY <1>16 DEF Names, To, SessionTypes
  <2>3. QED
    BY <2>1, <2>2, TokenLeftKept
<1>17. ASSUME NEW r \in Requests, Touches(r) PROVE TokenLeft(x)'
  <2>1. /\ \A i \in Ids : row'[i] = x => row[i] = x
        /\ \A i \in Ids : ctrl'[i] = x => ctrl[i] = x
    BY <1>17, Sorts DEF Touches, registry, SessionTypes
  <2>2. /\ \A q \in Requests : at[q] = "set" => at'[q] = at[q] /\
             got'[q] = got[q]
        /\ UNCHANGED <<bound, req>>
    BY <1>17 DEF Touches, To, SessionTypes
  <2>3. QED
    BY <2>1, <2>2, TokenLeftKept
<1>18. ASSUME NEW r \in Requests, Serves(r) PROVE TokenLeft(x)'
  <2>1. /\ \A i \in Ids : row'[i] = x => row[i] = x
        /\ \A i \in Ids : ctrl'[i] = x => ctrl[i] = x
    BY <1>18, Sorts DEF Serves, registry, SessionTypes
  <2>2. /\ \A q \in Requests : at[q] = "set" => at'[q] = at[q] /\
             got'[q] = got[q]
        /\ UNCHANGED <<bound, req>>
    BY <1>18 DEF Serves, To, SessionTypes
  <2>3. QED
    BY <2>1, <2>2, TokenLeftKept
<1>19. ASSUME NEW r \in Requests, LogsOut(r) PROVE TokenLeft(x)'
  <2>1. /\ \A i \in Ids : row'[i] = x => row[i] = x
        /\ \A i \in Ids : ctrl'[i] = x => ctrl[i] = x
    BY <1>19, Sorts DEF LogsOut, registry, SessionTypes
  <2>2. /\ \A q \in Requests : at[q] = "set" => at'[q] = at[q] /\
             got'[q] = got[q]
        /\ UNCHANGED <<bound, req>>
    BY <1>19 DEF LogsOut, To, SessionTypes
  <2>3. QED
    BY <2>1, <2>2, TokenLeftKept
<1>20. ASSUME NEW r \in Requests, Unfiles(r) PROVE TokenLeft(x)'
  <2>1. /\ \A i \in Ids : row'[i] = x => row[i] = x
        /\ \A i \in Ids : ctrl'[i] = x => ctrl[i] = x
    BY <1>20, Sorts DEF Unfiles, UnregisterControl, registry, SessionTypes
  <2>2. /\ \A q \in Requests : at[q] = "set" => at'[q] = at[q] /\
             got'[q] = got[q]
        /\ UNCHANGED <<bound, req>>
    BY <1>20 DEF Unfiles, To, SessionTypes
  <2>3. QED
    BY <2>1, <2>2, TokenLeftKept
<1>21. ASSUME NEW r \in Requests, Removes(r) PROVE TokenLeft(x)'
  <2>1. /\ \A i \in Ids : row'[i] = x => row[i] = x
        /\ \A i \in Ids : ctrl'[i] = x => ctrl[i] = x
    BY <1>21, Sorts DEF Removes, Unregister, registry, SessionTypes
  <2>2. /\ \A q \in Requests : at[q] = "set" => at'[q] = at[q] /\
             got'[q] = got[q]
        /\ UNCHANGED <<bound, req>>
    BY <1>21 DEF Removes, To, SessionTypes
  <2>3. QED
    BY <2>1, <2>2, TokenLeftKept
<1>22. ASSUME NEW r \in Requests, Unbinds(r) PROVE TokenLeft(x)'
  <2>1. /\ \A q \in Requests \ {r} : at'[q] = at[q] /\ got'[q] = got[q]
        /\ req' = req
    BY <1>22 DEF Unbinds, To, SessionTypes
  <2>2. CASE req[r] # x
    <3>1. /\ \A i \in Ids : row'[i] = x => row[i] = x
          /\ \A i \in Ids : ctrl'[i] = x => ctrl[i] = x
      BY <1>22, <2>2, Sorts DEF Unbinds, registry, SessionTypes
    <3>2. bound'[x] = bound[x]
      BY <1>22, <2>2 DEF Unbinds, Delete, SessionTypes
    <3>3. QED
      BY <2>1, <2>2, <3>1, <3>2, TokenLeftKept
  <2>3. CASE req[r] = x
    <3>1. Sole(r) /\ TaskInv(r) /\ TokenLeft(x)
      BY <1>22, <2>3 DEF Unbinds, LoggingOut, Busy, SoleInv, TaskInv, LeftInv
    <3>2. \A q \in Requests : req[q] = x /\ at[q] = "set" => q = r
      BY <2>3, <3>1 DEF Sole, Busy

    <3>3. /\ bound[x] = got[r] /\ UNCHANGED <<row, ctrl>>
          /\ row[got[r]] # x /\ ctrl[got[r]] # x
      BY <1>22, <2>3, <3>1 DEF Unbinds, TaskInv, registry
    <3>4. \A q \in Requests : ~(req[q] = x /\ at[q] = "set")
      BY <1>22, <3>2 DEF Unbinds
    <3>5. \A i \in Ids : row[i] # x /\ ctrl[i] # x
      BY <3>1, <3>3, <3>4 DEF TokenLeft
    <3>6. QED
      BY <3>3, <3>5 DEF TokenLeft
  <2>4. QED
    BY <2>2, <2>3
<1>23. ASSUME NEW r \in Requests, Forgets(r) PROVE TokenLeft(x)'
  <2>1. /\ \A q \in Requests \ {r} : at'[q] = at[q] /\ got'[q] = got[q]
        /\ req' = req
    BY <1>23 DEF Forgets, To, SessionTypes
  <2>2. CASE req[r] # x
    <3>1. /\ \A i \in Ids : row'[i] = x => row[i] = x
          /\ \A i \in Ids : ctrl'[i] = x => ctrl[i] = x
      BY <1>23, <2>2, Sorts DEF Forgets, registry, SessionTypes
    <3>2. bound'[x] = bound[x]
      BY <1>23, <2>2 DEF Forgets, Delete, SessionTypes
    <3>3. QED
      BY <2>1, <2>2, <3>1, <3>2, TokenLeftKept
  <2>3. CASE req[r] = x
    <3>1. Sole(r) /\ TaskInv(r) /\ TokenLeft(x)
      BY <1>23, <2>3 DEF Forgets, LoggingOut, Busy, SoleInv, TaskInv, LeftInv
    <3>2. \A q \in Requests : req[q] = x /\ at[q] = "set" => q = r
      BY <2>3, <3>1 DEF Sole, Busy

    <3>3. bound[x] = NoNode /\ UNCHANGED <<row, ctrl>>
      BY <1>23, <2>3, <3>1 DEF Forgets, TaskInv, registry
    <3>4. \A q \in Requests : ~(req[q] = x /\ at[q] = "set")
      BY <1>23, <3>2 DEF Forgets
    <3>5. \A i \in Ids : row[i] # x /\ ctrl[i] # x
      BY <3>1, <3>3, <3>4, Sorts DEF TokenLeft
    <3>6. QED
      BY <3>3, <3>5 DEF TokenLeft
  <2>4. QED
    BY <2>2, <2>3
<1>24. ASSUME NEW w \in Tokens, EndsSession(w) PROVE TokenLeft(x)'
  <2>1. x # w
    BY <1>24 DEF EndsSession
  <2>2. QED
    BY <1>24, <2>1, TokenLeftKept DEF EndsSession, Delete, registry,
       SessionTypes
<1>25. QED
  BY <1>1, <1>2, <1>3, <1>4, <1>5, <1>6, <1>7, <1>8, <1>9, <1>10, <1>11,
     <1>12, <1>13, <1>14, <1>15, <1>16, <1>17, <1>18, <1>19, <1>20, <1>21,
     <1>22, <1>23, <1>24 DEF Effect


\* Every effect keeps what is said of sessions and of what is left.
LEMMA EffectLeaves ==
  ASSUME SessionTypes, OwnInv, SoleInv, LeftInv, Effect
  PROVE  SoleInv' /\ LeftInv'
<1>1. \A r \in Requests : TaskInv(r)'
  BY TasksKeep
<1>2. \A w \in Tokens : BoundInv(w)'
  BY BoundsKeep
<1>3. \A p \in Players : PlayerLeft(p)'
  BY PlayersLeft
<1>4. ASSUME NEW w \in Tokens, w \notin spoilt' PROVE TokenLeft(w)'
  BY <1>4, SessionsLeft
<1>5. QED
  BY <1>1, <1>2, <1>3, <1>4 DEF SoleInv, LeftInv

-----------------------------------------------------------------------------
(* The theorems.                                                           *)

CallInv == SessionTypes /\ OwnInv /\ SoleInv /\ LeftInv

LEMMA CallsBegin == Init => CallInv
<1> SUFFICES ASSUME Init PROVE CallInv
  OBVIOUS
<1> USE DEF Init, RegistryInit
<1>1. SessionTypes
  BY Sorts DEF SessionTypes, Steps, Players
<1>2. OwnInv
  BY DEF OwnInv, PlayerInv, TokenInv, RequestInv, PairInv, IsOn, Owning,
    LoggingOut,
         Players
<1>3. SoleInv
  BY DEF SoleInv, TaskInv, BoundInv, Busy, LoggingOut
<1>4. LeftInv
  BY Sorts DEF LeftInv, PlayerLeft, TokenLeft
<1>5. QED
  BY <1>1, <1>2, <1>3, <1>4 DEF CallInv

LEMMA CallsGoOn == CallInv /\ [Next]_vars => CallInv'
<1> SUFFICES ASSUME CallInv, [Next]_vars PROVE CallInv'
  OBVIOUS
<1>1. Effect
  BY EffectOf DEF CallInv
<1>2. QED
  BY <1>1, EffectTypes, EffectOwns, EffectLeaves DEF CallInv

\* Who is on has its number.
LEMMA OwnMeans ==
  ASSUME SessionTypes, OwnInv
  PROVE  OwnNode
<1> SUFFICES ASSUME NEW p \in Holders, HasRow(p), Number(p) \notin contested
             PROVE  /\ row[Number(p)] = p
                    /\ shown[Number(p)] \in {Nobody, p} \cup spoilt
                    /\ HasControl(p) => ctrl[Number(p)] = p
                    /\ (p \in Players /\ place[p] = "door") =>
                         drop[Number(p)] = p
  BY DEF OwnNode
<1>1. CASE p \in Tokens
  <2>1. /\ bound[p] # NoNode /\ Number(p) = bound[p] /\ p \notin Players
        /\ Rests(p, {"release_row", "unbind"})
    BY <1>1, Sorts DEF HasRow, Number
  <2>2. ~At(p, {"unbind"}) /\ ~At(p, {"release_row"})
    BY <2>1 DEF At, Rests
  <2>3. /\ Mine(bound[p], p)
        /\ \/ ctrl[bound[p]] = p
           \/ \E r \in Requests :
                req[r] = p /\ at[r] = "control" /\ got[r] = bound[p]
    BY <1>1, <2>1, <2>2 DEF OwnInv, TokenInv
  <2>4. HasControl(p) => ctrl[bound[p]] = p
    BY <1>1, <2>3 DEF HasControl, Rests
  <2>5. QED
    BY <2>1, <2>3, <2>4 DEF Mine
<1>2. CASE p \notin Tokens
  <2>1. /\ p \in Players /\ Number(p) = node[p]
        /\ place[p] \notin {"new", "row", "control", "gone"}
    BY <1>2, Sorts DEF HasRow, Number
  <2>2. IsOn(p) /\ PlayerInv(p)
    BY <2>1 DEF IsOn, OwnInv
  <2>3. HasControl(p) => p \in Lines /\ place[p] # "registered"
    BY <1>2, <2>1, Sorts DEF HasControl
  <2>4. QED
    BY <2>1, <2>2, <2>3 DEF PlayerInv, Mine
<1>3. QED
  BY <1>1, <1>2

\* What is left when nobody does anything.
LEMMA LeftMeans ==
  ASSUME SessionTypes, LeftInv
  PROVE  NothingLeft
<1> SUFFICES ASSUME Quiet, NEW i \in Ids
             PROVE  {row[i], ctrl[i]} \subseteq
                      {Nobody} \cup spoilt \cup {w \in Tokens : bound[w] = i}
  BY DEF NothingLeft
<1>1. ASSUME NEW p \in Players PROVE row[i] # p /\ ctrl[i] # p
  BY <1>1 DEF LeftInv, PlayerLeft, Quiet
<1>2. ASSUME NEW w \in Tokens, w \notin spoilt, w \in {row[i], ctrl[i]}
      PROVE  bound[w] = i
  <2>1. TokenLeft(w)
    BY <1>2 DEF LeftInv
  <2>2. \A r \in Requests : at[r] # "set"
    BY DEF Quiet, Busy
  <2>3. QED
    BY <1>2, <2>1, <2>2 DEF TokenLeft
<1>3. {row[i], ctrl[i]} \subseteq Players \cup Tokens \cup {Nobody}
  BY Sorts DEF SessionTypes
<1>4. QED
  BY <1>1, <1>2, <1>3

\* Types: what is in the registry, and how far everybody is.
THEOREM TypeCorrect == Spec => []SessionTypes
<1>1. CallInv => SessionTypes
  BY DEF CallInv
<1>2. QED
  BY <1>1, CallsBegin, CallsGoOn, PTL DEF Spec

\* The row, the control and the drop file at a number are those of the one who
\* is on with it (internal/node, internal/session Run, internal/web nodes.go),
\* unless a listing took its row away or its session gave it up twice.
THEOREM NumbersAreOwn == Spec => []OwnNode
<1>1. CallInv => OwnNode
  BY OwnMeans DEF CallInv
<1>2. QED
  BY <1>1, CallsBegin, CallsGoOn, PTL DEF Spec

\* Once nobody does anything, no row and no control is left of anybody but of
\* web sessions that have the number or were ended from outside.
THEOREM NobodyStays == Spec => []NothingLeft
<1>1. CallInv => NothingLeft
  BY LeftMeans DEF CallInv
<1>2. QED
  BY <1>1, CallsBegin, CallsGoOn, PTL DEF Spec

-----------------------------------------------------------------------------
(* The account.  A copy that is not old agrees with the row about the      *)
(* mark of a deleted account.                                              *)

AccountTypes ==
  /\ acct \in [pw : Nat, deleted : BOOLEAN]
  /\ copy \in [Keepers -> [pw : Nat, deleted : BOOLEAN]]
  /\ form = [e \in Edits |-> form[e]]
CopyInv == \A k \in Keepers : k \notin old => copy[k].deleted = acct.deleted
AccountInv == AccountTypes /\ CopyInv

\* What the steps do to the account.
Reads == \E k \in Keepers : GetUser(k)
Saves == \E k \in Keepers \ Edits : UpdateUser(k, copy[k].deleted)
AdminSaves ==
  \E e \in Edits, del \in BOOLEAN :
    UpdateUser(e, del) /\ form[e] = "open" /\
      form' = [form EXCEPT ![e] = "done"]
Forms ==
  form' = form \/ \E e \in Edits : \E to : form' = [form EXCEPT ![e] = to]
AccountStep ==
  /\ UNCHANGED accounts \/ Reads \/ Saves \/ AdminSaves \/ SetPassword \/
       DeleteUser
  /\ Forms

LEMMA Keeping ==
  /\ Lines \subseteq Keepers \ Edits /\ Requests \subseteq Keepers \ Edits
  /\ Edits \subseteq Keepers
BY SessionsAssumption

LEMMA AccountSteps ==
  ASSUME [Next]_vars
  PROVE  AccountStep
<1>1. ASSUME NEW h \in Lines, TakeControl(h) PROVE AccountStep
  BY <1>1 DEF TakeControl, web, AccountStep, Forms
<1>2. ASSUME NEW h \in Lines, LoginFails(h) PROVE AccountStep
  BY <1>2 DEF LoginFails, web, AccountStep, Forms
<1>3. ASSUME NEW h \in Lines, Arrive(h) PROVE AccountStep
  BY <1>3 DEF Arrive, web, AccountStep, Forms
<1>4. ASSUME NEW h \in Lines, Answer(h) PROVE AccountStep
  BY <1>4 DEF Answer, web, AccountStep, Forms
<1>5. ASSUME NEW h \in Lines, EndLineEditor(h) PROVE AccountStep
  BY <1>5 DEF EndLineEditor, web, AccountStep, Forms
<1>6. ASSUME NEW h \in Lines, LogOff(h) PROVE AccountStep
  BY <1>6 DEF LogOff, web, AccountStep, Forms
<1>7. ASSUME NEW h \in Lines, EndControl(h) PROVE AccountStep
  BY <1>7 DEF EndControl, web, AccountStep, Forms
<1>8. ASSUME NEW h \in Lines, EndRow(h) PROVE AccountStep
  BY <1>8 DEF EndRow, web, AccountStep, Forms
<1>9. ASSUME NEW h \in Lines, BoardReads(h) PROVE AccountStep
  BY <1>9 DEF BoardReads, Aboard, web, AccountStep, Forms
<1>10. ASSUME NEW h \in Lines, EndTransfer(h) PROVE AccountStep
  BY <1>10, Keeping DEF EndTransfer, web, AccountStep, Forms, Reads, Saves
<1>11. ASSUME NEW h \in Lines, LineFails(h) PROVE AccountStep
  BY <1>11 DEF LineFails, Aboard, web, AccountStep, Forms
<1>12. ASSUME NEW h \in Lines, Transfer(h) PROVE AccountStep
  BY <1>12 DEF Transfer, web, AccountStep, Forms
<1>13. ASSUME NEW h \in Lines, PortRuns(h) PROVE AccountStep
  BY <1>13 DEF PortRuns, Aboard, web, AccountStep, Forms
<1>14. ASSUME NEW h \in Lines, OtherRuns(h) PROVE AccountStep
  BY <1>14 DEF OtherRuns, Aboard, web, AccountStep, Forms
<1>15. ASSUME NEW h \in Lines, Keys(h) PROVE AccountStep
  BY <1>15 DEF Keys, Aboard, web, AccountStep, Forms
<1>16. ASSUME NEW h \in Lines, Connect(h) PROVE AccountStep
  BY <1>16 DEF Connect, web, AccountStep, Forms
<1>17. ASSUME NEW h \in Lines, LogIn(h) PROVE AccountStep
  BY <1>17, Keeping DEF LogIn, Authenticate, web, AccountStep, Forms, Reads,
     Saves
<1>18. ASSUME NEW h \in Lines, Choose(h) PROVE AccountStep
  BY <1>18 DEF Choose, web, AccountStep, Forms
<1>19. ASSUME NEW h \in Lines, EditKey(h) PROVE AccountStep
  BY <1>19 DEF EditKey, web, AccountStep, Forms
<1>20. ASSUME NEW h \in Lines, EndScreenEditor(h) PROVE AccountStep
  BY <1>20 DEF EndScreenEditor, web, AccountStep, Forms
<1>21. ASSUME NEW h \in Lines, SaveProfile(h) PROVE AccountStep
  BY <1>21, Keeping DEF SaveProfile, web, AccountStep, Forms, Reads, Saves
<1>22. ASSUME NEW h \in Lines, ChangePassword(h) PROVE AccountStep
  BY <1>22, Keeping DEF ChangePassword, web, AccountStep, Forms, Reads, Saves
<1>23. ASSUME NEW h \in Lines, RunDoor(h) PROVE AccountStep
  BY <1>23 DEF RunDoor, web, AccountStep, Forms
<1>24. ASSUME NEW h \in Lines, EndDoor(h) PROVE AccountStep
  BY <1>24 DEF EndDoor, web, AccountStep, Forms
<1>25. ASSUME NEW h \in Lines, RunPPE(h) PROVE AccountStep
  BY <1>25 DEF RunPPE, web, AccountStep, Forms
<1>26. ASSUME NEW h \in Lines, EndPPE(h) PROVE AccountStep
  BY <1>26 DEF EndPPE, web, AccountStep, Forms
<1>27. ASSUME NEW h \in Lines, HangUp(h) PROVE AccountStep
  BY <1>27 DEF HangUp, web, AccountStep, Forms
<1>28. ASSUME NEW d \in WebDoors, OpenWebDoor(d) PROVE AccountStep
  BY <1>28 DEF OpenWebDoor, web, AccountStep, Forms
<1>29. ASSUME NEW d \in WebDoors, RunWebDoor(d) PROVE AccountStep
  BY <1>29 DEF RunWebDoor, web, AccountStep, Forms
<1>30. ASSUME NEW d \in WebDoors, EndWebDoor(d) PROVE AccountStep
  BY <1>30 DEF EndWebDoor, web, AccountStep, Forms
<1>31. ASSUME NEW d \in WebDoors, CloseWebDoor(d) PROVE AccountStep
  BY <1>31 DEF CloseWebDoor, web, AccountStep, Forms
<1>32. ASSUME NEW r \in Requests, WebLogIn(r) PROVE AccountStep
  BY <1>32, Keeping DEF WebLogIn, Authenticate, web, AccountStep, Forms,
     Reads, Saves
<1>33. ASSUME NEW r \in Requests, Page(r) PROVE AccountStep
  BY <1>33, Keeping DEF Page, Authenticate, web, AccountStep, Forms, Reads,
     Saves
<1>34. ASSUME NEW r \in Requests, BindRow(r) PROVE AccountStep
  BY <1>34 DEF BindRow, web, AccountStep, Forms
<1>35. ASSUME NEW r \in Requests, BindSession(r) PROVE AccountStep
  BY <1>35 DEF BindSession, web, AccountStep, Forms
<1>36. ASSUME NEW r \in Requests, BindControl(r) PROVE AccountStep
  BY <1>36 DEF BindControl, web, AccountStep, Forms
<1>37. ASSUME NEW r \in Requests, BindUpdate(r) PROVE AccountStep
  BY <1>37 DEF BindUpdate, web, AccountStep, Forms
<1>38. ASSUME NEW r \in Requests, Touch(r) PROVE AccountStep
  BY <1>38 DEF Touch, web, AccountStep, Forms
<1>39. ASSUME NEW r \in Requests, TouchUpdate(r) PROVE AccountStep
  BY <1>39 DEF TouchUpdate, web, AccountStep, Forms
<1>40. ASSUME NEW r \in Requests, Serve(r) PROVE AccountStep
  BY <1>40, Keeping DEF Serve, web, AccountStep, Forms, Reads, Saves
<1>41. ASSUME NEW r \in Requests, FormPassword(r) PROVE AccountStep
  BY <1>41, Keeping DEF FormPassword, web, AccountStep, Forms, Reads, Saves
<1>42. ASSUME NEW r \in Requests, FormSave(r) PROVE AccountStep
  BY <1>42, Keeping DEF FormSave, web, AccountStep, Forms, Reads, Saves
<1>43. ASSUME NEW r \in Requests, LogOut(r) PROVE AccountStep
  BY <1>43 DEF LogOut, web, AccountStep, Forms
<1>44. ASSUME NEW r \in Requests, ReleaseControl(r) PROVE AccountStep
  BY <1>44 DEF ReleaseControl, web, AccountStep, Forms
<1>45. ASSUME NEW r \in Requests, ReleaseRow(r) PROVE AccountStep
  BY <1>45 DEF ReleaseRow, web, AccountStep, Forms
<1>46. ASSUME NEW r \in Requests, Unbind(r) PROVE AccountStep
  BY <1>46 DEF Unbind, web, AccountStep, Forms
<1>47. ASSUME NEW r \in Requests, Forget(r) PROVE AccountStep
  BY <1>47 DEF Forget, web, AccountStep, Forms
<1>48. ASSUME NEW e \in Edits, AdminDelete(e) PROVE AccountStep
  BY <1>48, Keeping DEF AdminDelete, Edit, AccountStep, Forms, Reads,
     AdminSaves
<1>49. ASSUME NEW e \in Edits, AdminPassword(e) PROVE AccountStep
  BY <1>49, Keeping DEF AdminPassword, Edit, AccountStep, Forms, Reads,
     AdminSaves
<1>50. ASSUME NEW e \in Edits, AdminRead(e) PROVE AccountStep
  BY <1>50, Keeping DEF AdminRead, Edit, AccountStep, Forms, Reads, AdminSaves
<1>51. ASSUME NEW e \in Edits, AdminSave(e) PROVE AccountStep
  BY <1>51, Keeping DEF AdminSave, Edit, AccountStep, Forms, Reads, AdminSaves
<1>52. ASSUME NEW w \in Tokens, Expire(w) PROVE AccountStep
  BY <1>52 DEF Expire, web, AccountStep, Forms
<1>53. ASSUME NEW i \in Ids, Kick(i) PROVE AccountStep
  BY <1>53 DEF Kick, web, AccountStep, Forms
<1>54. ASSUME NEW l \in Listings, List(l) PROVE AccountStep
  BY <1>54 DEF List, web, AccountStep, Forms
<1>55. ASSUME UNCHANGED vars PROVE AccountStep
  BY <1>55 DEF vars, web, AccountStep, Forms
<1>56. QED
  BY <1>1, <1>2, <1>3, <1>4, <1>5, <1>6, <1>7, <1>8, <1>9, <1>10, <1>11,
     <1>12, <1>13, <1>14, <1>15, <1>16, <1>17, <1>18, <1>19, <1>20, <1>21,
     <1>22, <1>23, <1>24, <1>25, <1>26, <1>27, <1>28, <1>29, <1>30, <1>31,
     <1>32, <1>33, <1>34, <1>35, <1>36, <1>37, <1>38, <1>39, <1>40, <1>41,
     <1>42, <1>43, <1>44, <1>45, <1>46, <1>47, <1>48, <1>49, <1>50, <1>51,
     <1>52, <1>53, <1>54, <1>55 DEF Next, LineStep, Command, DoorStep,
     WebStep, AdminStep

LEMMA AccountKeeps ==
  ASSUME AccountInv, AccountStep
  PROVE  AccountInv'
<1> USE DEF AccountInv
<1>1. form' = [e \in Edits |-> form'[e]]
  BY DEF AccountStep, Forms, AccountTypes
<1>2. CASE UNCHANGED accounts
  BY <1>1, <1>2 DEF AccountTypes, CopyInv, accounts
<1>3. CASE Reads
  BY <1>1, <1>3 DEF Reads, GetUser, AccountTypes, CopyInv
<1>4. ASSUME NEW k \in Keepers, NEW del \in BOOLEAN, UpdateUser(k, del)
      PROVE  AccountInv'
  <2>1. /\ acct' = [pw |-> acct.pw, deleted |-> del] /\ copy' = copy
        /\ old' = IF del = acct.deleted THEN old ELSE Keepers
    BY <1>4 DEF UpdateUser, AccountTypes
  <2>2. QED
    BY <1>1, <2>1 DEF AccountTypes, CopyInv
<1>5. CASE Saves
  BY <1>4, <1>5 DEF Saves, AccountTypes
<1>6. CASE AdminSaves
  BY <1>4, <1>6, Keeping DEF AdminSaves
<1>7. CASE SetPassword
  BY <1>1, <1>7 DEF SetPassword, AccountTypes, CopyInv
<1>8. CASE DeleteUser
  BY <1>1, <1>8 DEF DeleteUser, AccountTypes, CopyInv
<1>9. QED
  BY <1>2, <1>3, <1>5, <1>6, <1>7, <1>8 DEF AccountStep

LEMMA AccountMeans ==
  ASSUME AccountInv, AccountStep
  PROVE  /\ acct'.pw >= acct.pw
         /\ acct.deleted /\ ~acct'.deleted =>
              \/ \E k \in old \ Edits : ~copy[k].deleted
              \/ \E e \in Edits : form[e] = "open" /\ form'[e] = "done"
<1> USE DEF AccountInv
<1>1. CASE UNCHANGED accounts \/ Reads
  BY <1>1 DEF accounts, Reads, GetUser, AccountTypes
<1>2. ASSUME NEW k \in Keepers, NEW del \in BOOLEAN, UpdateUser(k, del)
      PROVE  acct' = [pw |-> acct.pw, deleted |-> del]
  BY <1>2 DEF UpdateUser, AccountTypes
<1>3. CASE Saves
  <2>1. PICK k \in Keepers \ Edits : UpdateUser(k, copy[k].deleted)
    BY <1>3 DEF Saves
  <2>2. acct' = [pw |-> acct.pw, deleted |-> copy[k].deleted]
    BY <1>2, <2>1 DEF AccountTypes
  <2>3. k \notin old => copy[k].deleted = acct.deleted
    BY DEF CopyInv
  <2>4. QED
    BY <2>2, <2>3 DEF AccountTypes
<1>4. CASE AdminSaves
  <2>1. PICK e \in Edits, del \in BOOLEAN :
          /\ UpdateUser(e, del) /\ form[e] = "open"
          /\ form' = [form EXCEPT ![e] = "done"]
    BY <1>4 DEF AdminSaves
  <2>2. acct' = [pw |-> acct.pw, deleted |-> del]
    BY <1>2, <2>1, Keeping
  <2>3. form'[e] = "done"
    BY <2>1 DEF AccountTypes
  <2>4. QED
    BY <2>1, <2>2, <2>3 DEF AccountTypes
<1>5. CASE SetPassword \/ DeleteUser
  BY <1>5 DEF SetPassword, DeleteUser, AccountTypes
<1>6. QED
  BY <1>1, <1>3, <1>4, <1>5 DEF AccountStep

\* A session or a page that writes the whole row of an account (users/store.go
\* Update) takes back no password and, unless it read the account before, no
\* deletion.
THEOREM AccountKept == Spec => AccountSticks
<1>1. Init => AccountInv
  <2> SUFFICES ASSUME Init PROVE AccountInv
    OBVIOUS
  <2>1. acct = Blank /\ copy = [k \in Keepers |-> Blank] /\ old = {}
    BY DEF Init, AccountsInit
  <2>2. form = [e \in Edits |-> form[e]]
    BY DEF Init
  <2>3. QED
    BY <2>1, <2>2 DEF Blank, AccountInv, AccountTypes, CopyInv
<1>2. AccountInv /\ [Next]_vars => AccountInv'
  BY AccountSteps, AccountKeeps
<1>3. AccountInv /\ [Next]_vars =>
        [/\ acct'.pw >= acct.pw
         /\ acct.deleted /\ ~acct'.deleted =>
              \/ \E k \in old \ Edits : ~copy[k].deleted
              \/ \E e \in Edits : form[e] = "open" /\ form'[e] = "done"]_vars
  BY AccountSteps, AccountMeans
<1>4. QED
  BY <1>1, <1>2, <1>3, PTL DEF Spec, AccountSticks

-----------------------------------------------------------------------------
(* Zmodem.  While the other program takes no turn of its own, a line is at *)
(* one of the points of a transfer, with the frames of that point on their *)
(* way, whoever else writes to the file; and what the receiver took is the *)
(* beginning of the file up to its offset, if it fits what it found.       *)

Headers ==
  {"ZRINIT", "ZFILE", "ZDATA", "ZEOF", "ZFIN", "ZACK", "ZSKIP", "CAN"}
Markers == {"ZCRCG", "ZCRCW", "ZCRCE"}
Pieces == Versions \X Nat
AllFrames ==
  {Frame(t) : t \in Headers} \cup {Offset(n) : n \in Nat}
    \cup {Sub(c, m) : c \in Pieces, m \in Markers}
Doings ==
  {"idle", "file", "frame", "sub", "swallow", "received", "init", "answer",
   "answer again", "ack", "ready", "over", "sent", "failed"}
Directories == {"uploads"} \cup Lines

ZmodemTypes ==
  /\ what \in [Lines -> Versions] /\ kind \in [Lines -> {"port", "other", "odd"}]
  /\ file \in [Directories -> Seq(Pieces)]
  /\ end \in [Ends -> Doings]
  /\ frames \in [Ends -> Seq(AllFrames)]
  /\ pos \in [Ends -> Nat] /\ start \in [Ends -> Seq(Pieces)]
  /\ alone \in [Ends -> BOOLEAN]

\* A receiver r and its sender.  What is left of the file from the offset on,
\* with t behind it.
Size(r) == Chunks[what[r[1]]]
Mark(r) == IF Port(Peer(r)) THEN "ZCRCW" ELSE "ZCRCE"
Piece(v, m, i) == Sub(<<v, i>>, IF i = Chunks[v] THEN m ELSE "ZCRCG")
Left(v, m, k) == [i \in 1..(Chunks[v] - k) |-> Piece(v, m, k + i)]
ToCome(r) == Left(what[r[1]], Mark(r), pos[r])

\* An end is at a step, or failed there; the frames on their way to the
\* sender and to the receiver.
AtStep(e, step) == end[e] \in {step, "failed"}
Way(r, s, t) == frames[Peer(r)] = s /\ frames[r] = t
AllTaken(r) == pos[r] >= Size(r)

InitComes(r) ==
  /\ AtStep(Peer(r), "init") /\ AtStep(r, "file")
  /\ Way(r, <<Frame("ZRINIT")>>, <<>>)
FileComes(r) ==
  /\ AtStep(Peer(r), "answer") /\ AtStep(r, "file")
  /\ Way(r, <<>>, <<Frame("ZFILE")>>)
OffsetComes(r) ==
  /\ AtStep(Peer(r), "answer") /\ AtStep(r, "frame")
  /\ Way(r, <<Offset(pos[r])>>, <<>>)
DataComes(r) ==
  /\ AtStep(Peer(r), "ack") /\ Port(Peer(r)) /\ ~AllTaken(r)
  /\ \/ /\ AtStep(r, "frame")
        /\ Way(r, <<>>, <<Frame("ZDATA")>> \o ToCome(r))
     \/ AtStep(r, "sub") /\ Way(r, <<>>, ToCome(r))
AckComes(r) ==
  /\ AtStep(Peer(r), "ack") /\ AtStep(r, "frame") /\ AllTaken(r)
  /\ Way(r, <<Frame("ZACK")>>, <<>>)
EofComes(r) ==
  /\ AtStep(Peer(r), "ready") /\ AtStep(r, "frame") /\ AllTaken(r)
  /\ Way(r, <<>>, <<Frame("ZEOF")>>)
Closed(r) ==
  /\ end[r] = "received" /\ AllTaken(r)
  /\ \/ AtStep(Peer(r), "ready") /\ Way(r, <<Frame("ZRINIT")>>, <<>>)
     \/ end[Peer(r)] \in {"over", "sent", "failed"}
\* ZEOF comes where the receiver looks for a subpacket.
Hangs(r) ==
  /\ AtStep(Peer(r), "ready") /\ (AllTaken(r) \/ ~Port(Peer(r)))
  /\ \/ /\ AtStep(r, "frame")
        /\ Way(r, <<>>, <<Frame("ZDATA")>> \o Append(ToCome(r), Frame("ZEOF")))
     \/ AtStep(r, "sub") /\ Way(r, <<>>, Append(ToCome(r), Frame("ZEOF")))
     \/ AtStep(r, "swallow") /\ Way(r, <<>>, <<>>)

Underway(r) ==
  \/ InitComes(r) \/ FileComes(r) \/ OffsetComes(r) \/ DataComes(r)
  \/ AckComes(r) \/ EofComes(r) \/ Closed(r) \/ Hangs(r)

LineInv(h) ==
  \/ kind[h] = "odd"
  \/ end[Board(h)] = "idle" /\ end[Caller(h)] = "idle"
  \/ Underway(Board(h)) \/ Underway(Caller(h))

Writing(e) == Receiving(e) \/ (end[e] = "received" /\ kind[e[1]] # "odd")
SoleWriter(e) ==
  alone[e] /\ Writing(e) =>
    \A d \in Ends \ {e} : Dir(d) = Dir(e) => ~Receiving(d)
DataInv(e) ==
  Fits(e) /\ Writing(e) =>
    pos[e] <= Size(e) /\ file[Dir(e)] = SubSeq(Wanted(e), 1, pos[e])

TransferInv ==
  /\ ZmodemTypes /\ \A h \in Lines : LineInv(h)
  /\ \A e \in Ends : SoleWriter(e) /\ DataInv(e)

\* What a line does: a transfer begins, or is settled, or one of its ends
\* takes a step.
EndSteps(e) == TransferStep(e) \/ OtherProgram(e) \/ Over(e) \/ Breaks(e)
Starts(h) ==
  \/ \E v \in Versions, k \in {"port", "other"} :
       BeginReceive(h, v, k) \/ BeginSend(h, v, k)
  \/ Settle(h)
LineSteps(h) == Starts(h) \/ EndSteps(Board(h)) \/ EndSteps(Caller(h))

\* Ends and their lines.
LEMMA TwoEnds ==
  ASSUME NEW e \in Ends
  PROVE  /\ e[1] \in Lines /\ Peer(e) \in Ends /\ Peer(e) # e /\ Peer(Peer(e)) = e
         /\ Peer(e)[1] = e[1] /\ Dir(e) \in Directories
         /\ e = Board(e[1]) \/ e = Caller(e[1])
         /\ \A d \in Ends : d[1] = e[1] => d = e \/ d = Peer(e)
<1>1. PICK h \in Lines, x \in {"board", "caller"} : e = <<h, x>>
  BY DEF Ends
<1>2. ASSUME NEW d \in Ends, d[1] = e[1] PROVE d = e \/ d = Peer(e)
  <2>1. PICK g \in Lines, y \in {"board", "caller"} : d = <<g, y>>
    BY DEF Ends
  <2>2. QED
    BY <1>1, <1>2, <2>1 DEF Peer, Board, Caller
<1>3. QED
  BY <1>1, <1>2 DEF Peer, Board, Caller, Dir, Ends, Directories

LEMMA LineEnds ==
  ASSUME NEW h \in Lines
  PROVE  /\ Board(h) \in Ends /\ Caller(h) \in Ends /\ Board(h) # Caller(h)
         /\ Peer(Board(h)) = Caller(h) /\ Peer(Caller(h)) = Board(h)
         /\ Board(h)[1] = h /\ Caller(h)[1] = h
         /\ Dir(Board(h)) = "uploads" /\ Dir(Caller(h)) = h
BY DEF Peer, Board, Caller, Dir, Ends

\* Frames.
LEMMA FrameKinds ==
  /\ \A t \in Headers : Frame(t) \in AllFrames /\ Frame(t)[1] = t
  /\ \A n \in Nat : /\ Offset(n) \in AllFrames /\ Offset(n)[1] = "ZRPOS"
                    /\ Offset(n)[2] = n
  /\ \A c \in Pieces, m \in Markers :
       /\ Sub(c, m) \in AllFrames /\ IsSub(Sub(c, m)) /\ Sub(c, m)[1] = "sub"
       /\ Sub(c, m)[2] = c /\ Sub(c, m)[3] = m
  /\ \A f \in AllFrames :
       /\ f[1] = "ZRPOS" => f[2] \in Nat
       /\ IsSub(f) => f[2] \in Pieces /\ f[3] \in Markers
BY DEF AllFrames, Frame, Offset, Sub, IsSub, Headers

LEMMA OneFrame ==
  ASSUME NEW S, NEW f \in S, NEW s \in Seq(S)
  PROVE  /\ <<f>> \in Seq(S) /\ <<f>> # <<>> /\ Head(<<f>>) = f /\ Tail(<<f>>) = <<>>
         /\ <<f>> \o s \in Seq(S) /\ <<f>> \o s # <<>>
         /\ Head(<<f>> \o s) = f /\ Tail(<<f>> \o s) = s
         /\ s \o <<>> = s /\ <<>> \o s = s
<1>1. <<f>> \in Seq(S) /\ <<f>> # <<>> /\ Head(<<f>>) = f /\ Tail(<<f>>) = <<>>
  OBVIOUS
<1>2. /\ <<f>> \o s \in Seq(S) /\ Len(<<f>> \o s) = 1 + Len(s)
      /\ \A i \in 1..(1 + Len(s)) :
           (<<f>> \o s)[i] = IF i <= 1 THEN f ELSE s[i - 1]
  BY <1>1, ConcatProperties
<1>3. <<f>> \o s # <<>>
  BY <1>2, EmptySeq, LenProperties
<1>4. Head(<<f>> \o s) = f
  BY <1>2, <1>3, LenProperties
<1>5. Tail(<<f>> \o s) = s
  <2>1. /\ Tail(<<f>> \o s) \in Seq(S) /\ Len(Tail(<<f>> \o s)) = Len(s)
        /\ \A i \in 1..Len(s) : Tail(<<f>> \o s)[i] = (<<f>> \o s)[i + 1]
    BY <1>2, <1>3, HeadTailProperties, LenProperties
  <2>2. \A i \in 1..Len(s) : Tail(<<f>> \o s)[i] = s[i]
    BY <1>2, <2>1, LenProperties
  <2>3. QED
    BY <2>1, <2>2, SeqEqual
<1>6. s \o <<>> = s /\ <<>> \o s = s
  BY ConcatEmptySeq
<1>7. QED
  BY <1>1, <1>2, <1>3, <1>4, <1>5, <1>6

\* What is left of a file: nothing, or a piece and what is left then.
LEMMA LeftFrames ==
  ASSUME NEW v \in Versions, NEW m \in Markers, NEW k \in Nat
  PROVE  /\ Left(v, m, k) \in Seq(AllFrames) /\ Chunks[v] \in Nat
         /\ k >= Chunks[v] => Left(v, m, k) = <<>>
         /\ k < Chunks[v] =>
              /\ Left(v, m, k) # <<>> /\ Head(Left(v, m, k)) = Piece(v, m, k + 1)
              /\ Tail(Left(v, m, k)) = Left(v, m, k + 1)
              /\ Piece(v, m, k + 1) \in AllFrames
<1>1. Chunks[v] \in Nat
  BY ZmodemAssumption
<1>2. \A i \in Nat : Piece(v, m, i) \in AllFrames
  BY FrameKinds DEF Piece, Pieces, Markers
<1> DEFINE n(j) == IF j < Chunks[v] THEN Chunks[v] - j ELSE 0
<1>3. ASSUME NEW j \in Nat
      PROVE  /\ Left(v, m, j) \in Seq(AllFrames) /\ Len(Left(v, m, j)) = n(j)
             /\ \A i \in 1..n(j) : Left(v, m, j)[i] = Piece(v, m, j + i)
  <2>1. PICK l \in Nat : l = n(j)
    BY <1>1
  <2>2. 1..(Chunks[v] - j) = 1..l
    BY <1>1, <2>1
  <2>3. Left(v, m, j) = [i \in 1..l |-> Piece(v, m, j + i)]
    BY <2>2 DEF Left
  <2>4. \A i \in 1..l : Piece(v, m, j + i) \in AllFrames
    BY <1>2
  <2>5. Left(v, m, j) \in Seq(AllFrames)
    BY <2>3, <2>4
  <2>6. Len(Left(v, m, j)) = l
    BY <2>3
  <2>7. QED
    BY <2>1, <2>3, <2>5, <2>6
<1>4. ASSUME k >= Chunks[v] PROVE Left(v, m, k) = <<>>
  BY <1>1, <1>3, <1>4, EmptySeq, LenProperties
<1>5. ASSUME k < Chunks[v]
      PROVE  /\ Left(v, m, k) # <<>> /\ Head(Left(v, m, k)) = Piece(v, m, k + 1)
             /\ Tail(Left(v, m, k)) = Left(v, m, k + 1)
  <2>1. n(k) = Chunks[v] - k /\ n(k + 1) = n(k) - 1 /\ n(k) \in Nat \ {0}
    BY <1>1, <1>5
  <2> DEFINE s == Left(v, m, k)
             t == Left(v, m, k + 1)
  <2>2. /\ s \in Seq(AllFrames) /\ Len(s) = n(k)
        /\ \A i \in 1..n(k) : s[i] = Piece(v, m, k + i)
    BY <1>3
  <2>3. /\ t \in Seq(AllFrames) /\ Len(t) = n(k + 1)
        /\ \A i \in 1..n(k + 1) : t[i] = Piece(v, m, (k + 1) + i)
    BY <1>3
  <2> HIDE DEF n, s, t
  <2>4. s # <<>>
    BY <2>1, <2>2, EmptySeq
  <2>5. Head(s) = Piece(v, m, k + 1)
    BY <2>1, <2>2, <2>4
  <2>6. /\ Tail(s) \in Seq(AllFrames) /\ Len(Tail(s)) = Len(s) - 1
        /\ \A i \in 1..Len(Tail(s)) : Tail(s)[i] = s[i + 1]
    BY <2>2, <2>4, HeadTailProperties
  <2>7. Len(Tail(s)) = Len(t)
    BY <2>1, <2>2, <2>3, <2>6
  <2>8. ASSUME NEW i \in 1..Len(Tail(s)) PROVE Tail(s)[i] = t[i]
    <3>1. i + 1 \in 1..n(k) /\ k + (i + 1) = (k + 1) + i
      BY <2>1, <2>2, <2>6, <2>8
    <3>2. s[i + 1] = Piece(v, m, (k + 1) + i) /\ t[i] = Piece(v, m, (k + 1) + i)
      BY <2>2, <2>3, <2>7, <2>8, <3>1
    <3>3. QED
      BY <2>6, <2>8, <3>2
  <2>9. Tail(s) = t
    BY <2>3, <2>6, <2>7, <2>8, SeqEqual
  <2>10. QED
    BY <2>4, <2>5, <2>9 DEF s, t
<1>6. QED
  BY <1>1, <1>2, <1>3, <1>4, <1>5

\* A frame is taken, and others are sent.
LEMMA TakesWhat ==
  ASSUME ZmodemTypes, NEW e \in Ends, frames[e] # <<>>,
         NEW out \in Seq(AllFrames), NEW step \in Doings, Takes(e, out, step)
  PROVE  /\ frames' \in [Ends -> Seq(AllFrames)] /\ end' \in [Ends -> Doings]
         /\ end'[e] = step /\ \A d \in Ends \ {e} : end'[d] = end[d]
         /\ frames'[e] = Tail(frames[e])
         /\ frames'[Peer(e)] = frames[Peer(e)] \o out
         /\ \A d \in Ends \ {e, Peer(e)} : frames'[d] = frames[d]
<1>1. Peer(e) \in Ends /\ Peer(e) # e
  BY TwoEnds
<1>2. Tail(frames[e]) \in Seq(AllFrames)
  BY HeadTailProperties DEF ZmodemTypes
<1>3. frames[Peer(e)] \o out \in Seq(AllFrames)
  BY <1>1, ConcatProperties DEF ZmodemTypes
<1>4. /\ frames' = [frames EXCEPT ![e] = Tail(frames[e]),
                                  ![Peer(e)] = frames[Peer(e)] \o out]
      /\ end' = [end EXCEPT ![e] = step]
  BY <1>1 DEF Takes, ZmodemTypes
<1>5. QED
  BY <1>1, <1>2, <1>3, <1>4 DEF ZmodemTypes

\* What a sender sends from an offset.
MarkOf(e) == IF Port(e) THEN "ZCRCW" ELSE "ZCRCE"
LEMMA StreamWhat ==
  ASSUME ZmodemTypes, NEW e \in Ends, NEW n \in Nat, First(e)[2] = n, Stream(e)
  PROVE  LET v == what[e[1]]
             l == Left(v, MarkOf(e), n) IN
         /\ Port(e) /\ n < Chunks[v] => Takes(e, <<Frame("ZDATA")>> \o l, "ack")
         /\ ~Port(e) /\ n < Chunks[v] =>
              Takes(e, <<Frame("ZDATA")>> \o Append(l, Frame("ZEOF")), "ready")
         /\ Port(e) /\ n >= Chunks[v] =>
              Takes(e, <<Frame("ZDATA")>> \o Append(l, Frame("ZEOF")), "ready")
         /\ ~Port(e) /\ n >= Chunks[v] => Takes(e, <<Frame("ZEOF")>>, "ready")
<1>1. PICK v \in Versions : v = what[e[1]]
  BY TwoEnds DEF ZmodemTypes
<1>2. PICK c \in Nat : c = Chunks[v]
  BY ZmodemAssumption
<1>3. PICK m \in Markers : m = MarkOf(e)
  BY DEF MarkOf, Markers
<1> DEFINE w == Wanted(e)
           left == SubSeq(w, n + 1, Len(w))
           subs == [i \in 1..Len(left) |->
                      Sub(left[i], IF i = Len(left) THEN m ELSE "ZCRCG")]
           l == Left(v, m, n)
<1>4. /\ w \in Seq(Pieces) /\ Len(w) = c /\ \A i \in 1..c : w[i] = <<v, i>>
  <2>1. w = [i \in 1..c |-> <<v, i>>]
    BY <1>1, <1>2 DEF Wanted, Content
  <2>2. \A i \in 1..c : <<v, i>> \in Pieces
    BY <1>2 DEF Pieces
  <2> HIDE DEF w
  <2>3. QED
    BY <1>2, <2>1, <2>2
<1>5. /\ left \in Seq(Pieces) /\ Len(left) = (IF n < c THEN c - n ELSE 0)
      /\ \A i \in 1..Len(left) : left[i] = <<v, n + i>>
  <2> HIDE DEF w
  <2>1. /\ SubSeq(w, n + 1, c) \in Seq(Pieces)
        /\ Len(SubSeq(w, n + 1, c)) = IF n + 1 <= c THEN c - (n + 1) + 1 ELSE 0
        /\ \A i \in 1..(c - (n + 1) + 1) : SubSeq(w, n + 1, c)[i] = w[n + 1 + i - 1]
    <3>1. \A i \in (n + 1)..c : w[i] \in Pieces
      BY <1>2, <1>4, ElementOfSeq
    <3>2. n + 1 \in Int /\ c \in Int
      BY <1>2
    <3>3. QED
      BY <3>1, <3>2, SubSeqProperties
  <2>2. ASSUME NEW i \in 1..Len(SubSeq(w, n + 1, c))
        PROVE  SubSeq(w, n + 1, c)[i] = <<v, n + i>>
    <3>1. i \in 1..(c - (n + 1) + 1) /\ n + 1 + i - 1 = n + i /\ n + i \in 1..c
      BY <1>2, <2>1, <2>2
    <3>2. QED
      BY <1>4, <2>1, <3>1
  <2>3. left = SubSeq(w, n + 1, c)
    BY <1>4
  <2> HIDE DEF left
  <2>4. left \in Seq(Pieces) /\ Len(left) = (IF n < c THEN c - n ELSE 0)
    BY <1>2, <2>1, <2>3
  <2>5. \A i \in 1..Len(left) : left[i] = <<v, n + i>>
    BY <2>2, <2>3
  <2>6. QED
    BY <2>4, <2>5
<1>6. l = subs
  <2>1. PICK k \in Nat : k = Len(left)
    <3> HIDE DEF left
    <3>1. QED
      BY <1>5, LenProperties
  <2>2. 1..(c - n) = 1..k
    BY <1>2, <1>5, <2>1
  <2>3. ASSUME NEW i \in 1..k
        PROVE  Piece(v, m, n + i) = Sub(left[i], IF i = k THEN m ELSE "ZCRCG")
    <3>1. (n + i = c) <=> (i = k)
      BY <1>2, <1>5, <2>1, <2>3
    <3>2. left[i] = <<v, n + i>>
      BY <1>5, <2>1, <2>3
    <3> HIDE DEF left
    <3>3. QED
      BY <1>2, <3>1, <3>2 DEF Piece
  <2>4. l = [i \in 1..k |-> Piece(v, m, n + i)]
    BY <1>2, <2>2 DEF Left
  <2>5. subs = [i \in 1..k |-> Sub(left[i], IF i = k THEN m ELSE "ZCRCG")]
    BY <2>1
  <2> HIDE DEF left, subs, l
  <2>6. QED
    BY <2>3, <2>4, <2>5
<1>7. (left = <<>>) <=> n >= c
  <2> HIDE DEF left
  <2>1. QED
    BY <1>2, <1>5, EmptySeq, LenProperties
<1>8. IF Port(e) /\ left # <<>>
      THEN Takes(e, IF Port(e) \/ left # <<>> THEN <<Frame("ZDATA")>> \o l ELSE <<>>,
                 "ack")
      ELSE Takes(e, Append(IF Port(e) \/ left # <<>> THEN <<Frame("ZDATA")>> \o l
                           ELSE <<>>, Frame("ZEOF")), "ready")
  <2>1. /\ First(e)[2] + 1 = n + 1 /\ m = (IF Port(e) THEN "ZCRCW" ELSE "ZCRCE")
        /\ left = SubSeq(Wanted(e), First(e)[2] + 1, Len(Wanted(e)))
    BY <1>3 DEF MarkOf
  <2> HIDE DEF left, l
  <2>2. l = [i \in 1..Len(left) |->
               Sub(left[i], IF i = Len(left) THEN m ELSE "ZCRCG")]
    BY <1>6
  <2>3. QED
    BY <2>1, <2>2 DEF Stream, From
<1>9. Frame("ZDATA") \in AllFrames /\ Frame("ZEOF") \in AllFrames
  BY FrameKinds DEF Headers
<1>10. l \in Seq(AllFrames)
  BY LeftFrames
<1>11. Append(<<Frame("ZDATA")>> \o l, Frame("ZEOF"))
         = <<Frame("ZDATA")>> \o Append(l, Frame("ZEOF"))
  <2> HIDE DEF l
  <2> DEFINE d == <<Frame("ZDATA")>>
             z == <<Frame("ZEOF")>>
  <2>1. d \in Seq(AllFrames) /\ z \in Seq(AllFrames) /\ d \o l \in Seq(AllFrames)
    BY <1>9, <1>10, OneFrame
  <2>2. /\ Append(d \o l, Frame("ZEOF")) = (d \o l) \o z
        /\ Append(l, Frame("ZEOF")) = l \o z
    BY <1>9, <1>10, <2>1, AppendIsConcat
  <2>3. (d \o l) \o z = d \o (l \o z)
    BY <1>10, <2>1, ConcatAssociative
  <2>4. QED
    BY <2>2, <2>3
<1>12. Append(<<>>, Frame("ZEOF")) = <<Frame("ZEOF")>>
  OBVIOUS
<1> HIDE DEF left, l
<1>13. l = Left(what[e[1]], MarkOf(e), n) /\ Chunks[what[e[1]]] = c
  BY <1>1, <1>2, <1>3 DEF l
<1>14. CASE n >= c
  <2>1. ~(n < c)
    BY <1>2, <1>14
  <2>2. Port(e) => Takes(e, <<Frame("ZDATA")>> \o Append(l, Frame("ZEOF")), "ready")
    BY <1>7, <1>8, <1>11, <1>14
  <2>3. ~Port(e) => Takes(e, <<Frame("ZEOF")>>, "ready")
    BY <1>7, <1>8, <1>12, <1>14
  <2>4. QED
    BY <1>13, <2>1, <2>2, <2>3
<1>15. CASE n < c
  <2>1. ~(n >= c)
    BY <1>2, <1>15
  <2>2. Port(e) => Takes(e, <<Frame("ZDATA")>> \o l, "ack")
    BY <1>7, <1>8, <2>1
  <2>3. ~Port(e) => Takes(e, <<Frame("ZDATA")>> \o Append(l, Frame("ZEOF")), "ready")
    BY <1>7, <1>8, <1>11, <2>1
  <2>4. QED
    BY <1>13, <2>1, <2>2, <2>3
<1>16. QED
  BY <1>2, <1>14, <1>15

\* Every step of a transfer that a frame brings about.
FrameSteps(e) == TransferStep(e) \/ SendNothing(e) \/ Skip(e) \/ AskAgain(e)
LEMMA StepTakes ==
  ASSUME ZmodemTypes, NEW e \in Ends, FrameSteps(e)
  PROVE  /\ frames[e] # <<>>
         /\ \E out \in Seq(AllFrames), step \in Doings : Takes(e, out, step)
<1>1. /\ <<>> \in Seq(AllFrames)
      /\ \A t \in Headers : <<Frame(t)>> \in Seq(AllFrames)
      /\ \A n \in Nat : <<Offset(n)>> \in Seq(AllFrames)
  BY FrameKinds
<1>2. CASE OpenFile(e)
  <2>1. file[Dir(e)] \in Seq(Pieces)
    BY TwoEnds DEF ZmodemTypes
  <2>2. Len(file[Dir(e)]) \in Nat
    BY <2>1
  <2>3. frames[e] # <<>> /\ Takes(e, <<Offset(Len(file[Dir(e)]))>>, "frame")
    BY <1>2 DEF OpenFile, Came
  <2>4. QED
    BY <1>1, <2>2, <2>3 DEF Doings
<1>3. CASE NoFile(e)
  BY <1>1, <1>3 DEF NoFile, Came, Doings, Headers
<1>4. CASE TakeHeader(e)
  <2>1. frames[e] # <<>>
    BY <1>4 DEF TakeHeader, Came
  <2>2. PICK out, step :
          /\ out = (IF Type(e) \in DOMAIN Reply THEN <<Frame(Reply[Type(e)])>> ELSE <<>>)
          /\ step = (IF Type(e) \in DOMAIN Header THEN Header[Type(e)] ELSE "frame")
    OBVIOUS
  <2>3. out \in Seq(AllFrames)
    BY <1>1, <2>2 DEF Reply, Headers
  <2>4. step \in Doings
    <3>1. \A x \in DOMAIN Header : Header[x] \in {"sub", "received", "failed"}
      BY DEF Header
    <3>2. QED
      BY <2>2, <3>1 DEF Doings
  <2>5. Takes(e, out, step)
    BY <1>4, <2>2 DEF TakeHeader
  <2>6. QED
    BY <2>1, <2>3, <2>4, <2>5
<1>5. CASE TakeSub(e)
  <2>1. frames[e] # <<>>
    BY <1>5 DEF TakeSub, Came
  <2>2. PICK out, step :
          /\ out = (IF First(e)[3] \in {"ZCRCW", "ZCRCQ"} THEN <<Frame("ZACK")>>
                    ELSE <<>>)
          /\ step = Follows(e, First(e)[3])
    OBVIOUS
  <2>3. out \in Seq(AllFrames) /\ step \in Doings
    BY <1>1, <2>2 DEF Headers, Follows, Doings
  <2>4. Takes(e, out, step)
    BY <1>5, <2>2 DEF TakeSub
  <2>5. QED
    BY <2>1, <2>3, <2>4
<1>6. CASE Swallow(e)
  BY <1>1, <1>6 DEF Swallow, Came, Doings
<1>7. CASE WaitInit(e)
  BY <1>1, <1>7 DEF WaitInit, Came, Doings, Headers
<1>8. CASE TakeAnswer(e)
  <2>1. frames[e] # <<>>
    BY <1>8 DEF TakeAnswer, Came
  <2>2. CASE Type(e) = "ZRPOS"
    <3>1. First(e) \in AllFrames
      BY <2>1, HeadTailProperties DEF ZmodemTypes, First
    <3>2. PICK n \in Nat : First(e)[2] = n
      BY <2>2, <3>1, FrameKinds DEF Type
    <3>3. Stream(e)
      BY <1>8, <2>2 DEF TakeAnswer
    <3> DEFINE l == Left(what[e[1]], MarkOf(e), n)
    <3>4. l \in Seq(AllFrames) /\ Chunks[what[e[1]]] \in Nat
      BY LeftFrames, TwoEnds DEF MarkOf, Markers, ZmodemTypes
    <3>5. /\ <<Frame("ZDATA")>> \o l \in Seq(AllFrames)
          /\ <<Frame("ZDATA")>> \o Append(l, Frame("ZEOF")) \in Seq(AllFrames)
          /\ <<Frame("ZEOF")>> \in Seq(AllFrames)
      <4> HIDE DEF l
      <4>1. Frame("ZDATA") \in AllFrames /\ Frame("ZEOF") \in AllFrames
        BY FrameKinds DEF Headers
      <4>2. Append(l, Frame("ZEOF")) \in Seq(AllFrames)
        BY <3>4, <4>1, AppendProperties
      <4>3. QED
        BY <3>4, <4>1, <4>2, OneFrame
    <3>6. "ack" \in Doings /\ "ready" \in Doings
      BY DEF Doings
    <3>7. \/ Takes(e, <<Frame("ZDATA")>> \o l, "ack")
          \/ Takes(e, <<Frame("ZDATA")>> \o Append(l, Frame("ZEOF")), "ready")
          \/ Takes(e, <<Frame("ZEOF")>>, "ready")
      BY <3>2, <3>3, <3>4, StreamWhat
    <3> HIDE DEF l
    <3>8. QED
      BY <2>1, <3>5, <3>6, <3>7
  <2>3. CASE Type(e) # "ZRPOS"
    BY <1>1, <1>8, <2>1, <2>3 DEF TakeAnswer, Doings, Headers
  <2>4. QED
    BY <2>2, <2>3
<1>9. CASE WaitAny(e)
  BY <1>1, <1>9 DEF WaitAny, Came, Doings, Headers
<1>10. CASE SendNothing(e) \/ Skip(e)
  BY <1>1, <1>10 DEF SendNothing, Skip, Came, Doings, Headers
<1>11. CASE AskAgain(e)
  <2>1. pos[e] \in Nat
    BY DEF ZmodemTypes
  <2>2. QED
    BY <1>1, <1>11, <2>1 DEF AskAgain, Came, Doings
<1>12. QED
  BY <1>2, <1>3, <1>4, <1>5, <1>6, <1>7, <1>8, <1>9, <1>10, <1>11
     DEF FrameSteps, TransferStep

\* A step is at one end, and only its own line sees it.
LEMMA EndStepAt ==
  ASSUME ZmodemTypes, NEW e \in Ends, EndSteps(e)
  PROVE  /\ frames' \in [Ends -> Seq(AllFrames)] /\ end' \in [Ends -> Doings]
         /\ \A d \in Ends \ {e} : end'[d] = end[d]
         /\ \A d \in Ends \ {e, Peer(e)} : frames'[d] = frames[d]
<1>1. CASE FrameSteps(e)
  BY <1>1, StepTakes, TakesWhat
<1>2. CASE Over(e) \/ Breaks(e)
  <2>1. /\ frames' = frames
        /\ end' = [end EXCEPT ![e] = "sent"] \/ end' = [end EXCEPT ![e] = "failed"]
    BY <1>2 DEF Over, Breaks
  <2>2. QED
    BY <2>1 DEF ZmodemTypes, Doings
<1>3. CASE Cancel(e)
  <2>1. /\ frames' = [frames EXCEPT ![Peer(e)] = Append(@, Frame("CAN"))]
        /\ end' = [end EXCEPT ![e] = "failed"]
    BY <1>3 DEF Cancel
  <2>2. Peer(e) \in Ends /\ Frame("CAN") \in AllFrames
    BY TwoEnds, FrameKinds DEF Headers
  <2>3. Append(frames[Peer(e)], Frame("CAN")) \in Seq(AllFrames)
    BY <2>2, AppendProperties DEF ZmodemTypes
  <2>4. QED
    BY <2>1, <2>2, <2>3 DEF ZmodemTypes, Doings
<1>4. QED
  BY <1>1, <1>2, <1>3 DEF EndSteps, OtherProgram, FrameSteps

\* What a subpacket brings is written.
LEMMA WritesWhat ==
  ASSUME ZmodemTypes, NEW e \in Ends, TakeSub(e)
  PROVE  /\ file' \in [Directories -> Seq(Pieces)] /\ pos' \in [Ends -> Nat]
         /\ \A d \in Ends \ {e} : pos'[d] = pos[d]
         /\ pos'[e] = pos[e] + 1
         /\ \A d \in Directories \ {Dir(e)} : file'[d] = file[d]
         /\ Len(file[Dir(e)]) = pos[e] =>
              file'[Dir(e)] = Append(file[Dir(e)], First(e)[2])
<1>1. First(e)[2] \in Pieces
  <2>1. frames[e] # <<>> /\ IsSub(First(e))
    BY DEF TakeSub, Came
  <2>2. First(e) \in AllFrames
    BY <2>1, HeadTailProperties DEF ZmodemTypes, First
  <2>3. QED
    BY <2>1, <2>2, FrameKinds
<1>2. Dir(e) \in Directories /\ pos[e] \in Nat
  BY TwoEnds DEF ZmodemTypes
<1>3. PICK f \in Seq(Pieces) : f = file[Dir(e)]
  BY <1>2 DEF ZmodemTypes
<1>4. PICK g : g = (IF start[e] # <<>> \/ pos[e] >= Len(f) THEN Append(f, First(e)[2])
                    ELSE [f EXCEPT ![pos[e] + 1] = First(e)[2]])
  OBVIOUS
<1>5. Append(f, First(e)[2]) \in Seq(Pieces)
  BY <1>1, <1>3, AppendProperties
<1>6. ASSUME ~(pos[e] >= Len(f))
      PROVE  [f EXCEPT ![pos[e] + 1] = First(e)[2]] \in Seq(Pieces)
  <2>1. pos[e] + 1 \in 1..Len(f)
    BY <1>2, <1>3, <1>6, LenProperties
  <2>2. QED
    BY <1>1, <1>3, <2>1, ExceptSeq
<1>7. g \in Seq(Pieces)
  BY <1>4, <1>5, <1>6
<1>8. file' = [file EXCEPT ![Dir(e)] = g] /\ pos' = [pos EXCEPT ![e] = @ + 1]
  BY <1>3, <1>4 DEF TakeSub, Write
<1>9. Len(f) = pos[e] => g = Append(f, First(e)[2])
  BY <1>2, <1>4
<1>10. QED
  BY <1>2, <1>3, <1>7, <1>8, <1>9 DEF ZmodemTypes

LEMMA ZmodemTypesKept ==
  ASSUME ZmodemTypes, NEW h \in Lines, LineSteps(h)
  PROVE  ZmodemTypes'
<1>1. AnyVersion \in Versions
  BY ZmodemAssumption DEF AnyVersion
<1>2. ASSUME NEW e \in Ends, EndSteps(e) PROVE ZmodemTypes'
  <2>1. frames' \in [Ends -> Seq(AllFrames)] /\ end' \in [Ends -> Doings]
    BY <1>2, EndStepAt
  <2>2. what' = what
    BY <1>2 DEF EndSteps, TransferStep, OtherProgram, OpenFile, NoFile,
       TakeHeader, TakeSub, Swallow, WaitInit, TakeAnswer, WaitAny, Over, Breaks,
       SameFiles, SendNothing, Skip, AskAgain, Cancel, Odd
  <2>3. kind' = kind \/ kind' = [kind EXCEPT ![e[1]] = "odd"]
    BY <1>2 DEF EndSteps, TransferStep, OtherProgram, OpenFile, NoFile,
       TakeHeader, TakeSub, Swallow, WaitInit, TakeAnswer, WaitAny, Over, Breaks,
       SameFiles, SendNothing, Skip, AskAgain, Cancel, Odd
  <2>4. kind' \in [Lines -> {"port", "other", "odd"}]
    BY <2>3, TwoEnds DEF ZmodemTypes
  <2>5. CASE OpenFile(e)
    <3>1. PICK f \in Seq(Pieces) : f = file[Dir(e)]
      BY TwoEnds DEF ZmodemTypes
    <3>2. Len(f) \in Nat
      BY <3>1
    <3>3. /\ pos' = [pos EXCEPT ![e] = Len(f)] /\ start' = [start EXCEPT ![e] = f]
          /\ file' = file
      BY <2>5, <3>1 DEF OpenFile
    <3>4. alone' \in [Ends -> BOOLEAN]
      <4> DEFINE a(d) == IF d = e
                         THEN \A g \in Ends \ {e} : Dir(g) = Dir(e) => ~Receiving(g)
                         ELSE alone[d] /\ (Dir(d) = Dir(e) => end[d] = "idle")
      <4>1. alone' = [d \in Ends |-> a(d)]
        BY <2>5 DEF OpenFile
      <4>2. \A d \in Ends : a(d) \in BOOLEAN
        OBVIOUS
      <4> HIDE DEF a
      <4>3. QED
        BY <4>1, <4>2
    <3>5. QED
      BY <2>1, <2>2, <2>4, <3>1, <3>2, <3>3, <3>4 DEF ZmodemTypes
  <2>6. CASE TakeSub(e)
    <3>1. start' = start /\ alone' = alone
      BY <2>6 DEF TakeSub
    <3>2. QED
      BY <2>1, <2>2, <2>4, <2>6, <3>1, WritesWhat DEF ZmodemTypes
  <2>7. CASE ~OpenFile(e) /\ ~TakeSub(e)
    <3>1. /\ file' = file /\ pos' = pos /\ start' = start /\ alone' = alone
      BY <1>2, <2>7 DEF EndSteps, TransferStep, OtherProgram, NoFile,
         TakeHeader, Swallow, WaitInit, TakeAnswer, WaitAny, Over, Breaks,
         SameFiles, SendNothing, Skip, AskAgain, Cancel, Odd
    <3>2. QED
      BY <2>1, <2>2, <2>4, <3>1 DEF ZmodemTypes
  <2>8. QED
    BY <2>5, <2>6, <2>7
<1>3. ASSUME NEW v \in Versions, NEW k \in {"port", "other"},
             NEW board \in {"file", "init"}, NEW caller \in {"file", "init"},
             Begin(h, v, k, board, caller)
      PROVE  ZmodemTypes'
  <2>1. /\ what' = [what EXCEPT ![h] = v] /\ kind' = [kind EXCEPT ![h] = k]
        /\ end' = [end EXCEPT ![Board(h)] = board, ![Caller(h)] = caller]
        /\ alone' = [alone EXCEPT ![Board(h)] = TRUE, ![Caller(h)] = TRUE]
        /\ pos' = pos /\ start' = start
    BY <1>3 DEF Begin, Both
  <2>2. frames' \in [Ends -> Seq(AllFrames)]
    <3>1. Frame("ZRINIT") \in AllFrames
      BY FrameKinds DEF Headers
    <3>2. PICK x, y :
            /\ x = IF board = "init" THEN <<Frame("ZRINIT")>> ELSE <<>>
            /\ y = IF caller = "init" THEN <<Frame("ZRINIT")>> ELSE <<>>
      OBVIOUS
    <3>3. x \in Seq(AllFrames) /\ y \in Seq(AllFrames)
      BY <3>1, <3>2
    <3>4. frames' = [frames EXCEPT ![Board(h)] = x, ![Caller(h)] = y]
      BY <1>3, <3>2 DEF Begin, Both
    <3>5. QED
      BY <3>3, <3>4, LineEnds DEF ZmodemTypes
  <2>3. file' \in [Directories -> Seq(Pieces)]
    <3>1. PICK c \in Nat : c = Chunks[v]
      BY ZmodemAssumption
    <3>2. PICK n \in 0..c : file' = [file EXCEPT ![h] = SubSeq(Content(v), 1, n)]
      <4>1. \E n \in 0..(IF board = "init" THEN c ELSE 0) :
              file' = [file EXCEPT ![h] = SubSeq(Content(v), 1, n)]
        BY <1>3, <3>1 DEF Begin
      <4>2. \A n \in 0..(IF board = "init" THEN c ELSE 0) : n \in 0..c
        OBVIOUS
      <4>3. QED
        BY <4>1, <4>2
    <3>3. \A i \in 1..n : Content(v)[i] \in Pieces
      BY <3>1, <3>2 DEF Content, Pieces
    <3>4. SubSeq(Content(v), 1, n) \in Seq(Pieces)
      BY <3>2, <3>3, SubSeqProperties
    <3>5. QED
      BY <3>2, <3>4 DEF ZmodemTypes, Directories
  <2>4. QED
    BY <2>1, <2>2, <2>3, LineEnds DEF ZmodemTypes, Doings
<1>4. ASSUME Settle(h) PROVE ZmodemTypes'
  <2>1. <<>> \in Seq(AllFrames) /\ <<>> \in Seq(Pieces)
    OBVIOUS
  <2>2. /\ what' = [what EXCEPT ![h] = AnyVersion] /\ kind' = [kind EXCEPT ![h] = "port"]
        /\ end' = [end EXCEPT ![Board(h)] = "idle", ![Caller(h)] = "idle"]
        /\ frames' = [frames EXCEPT ![Board(h)] = <<>>, ![Caller(h)] = <<>>]
        /\ pos' = [pos EXCEPT ![Board(h)] = 0, ![Caller(h)] = 0]
        /\ start' = [start EXCEPT ![Board(h)] = <<>>, ![Caller(h)] = <<>>]
        /\ alone' = [alone EXCEPT ![Board(h)] = TRUE, ![Caller(h)] = TRUE]
        /\ file' = [file EXCEPT ![h] = <<>>]
    BY <1>4 DEF Settle, Both
  <2>3. what' \in [Lines -> Versions] /\ kind' \in [Lines -> {"port", "other", "odd"}]
    BY <1>1, <2>2 DEF ZmodemTypes
  <2>4. end' \in [Ends -> Doings] /\ frames' \in [Ends -> Seq(AllFrames)]
    BY <2>1, <2>2, LineEnds DEF ZmodemTypes, Doings
  <2>5. /\ pos' \in [Ends -> Nat] /\ start' \in [Ends -> Seq(Pieces)]
        /\ alone' \in [Ends -> BOOLEAN]
    BY <2>1, <2>2, LineEnds DEF ZmodemTypes
  <2>6. file' \in [Directories -> Seq(Pieces)]
    BY <2>1, <2>2 DEF ZmodemTypes
  <2>7. QED
    BY <2>3, <2>4, <2>5, <2>6 DEF ZmodemTypes
<1>5. QED
  BY <1>2, <1>3, <1>4, LineEnds DEF LineSteps, Starts, BeginReceive, BeginSend

\* Where a line is that goes on, told by what an end does that has a frame.
LEMMA Where ==
  ASSUME NEW e \in Ends, Underway(e) \/ Underway(Peer(e)), frames[e] # <<>>
  PROVE  /\ end[e] = "file" => FileComes(e)
         /\ end[e] = "frame" => DataComes(e) \/ EofComes(e) \/ Hangs(e)
         /\ end[e] = "sub" => DataComes(e) \/ Hangs(e)
         /\ end[e] = "init" => InitComes(Peer(e))
         /\ end[e] = "answer" => OffsetComes(Peer(e))
         /\ end[e] = "ack" => AckComes(Peer(e))
         /\ end[e] = "ready" => Closed(Peer(e)) /\ end[e] # "failed"
         /\ end[e] \notin {"swallow", "answer again"}
<1>1. Peer(e) \in Ends /\ Peer(Peer(e)) = e
  BY TwoEnds
<1> USE DEF AtStep, Way
<1>2. ASSUME Underway(e) PROVE end[e] \in {"file", "frame", "sub", "received", "failed"}
  BY <1>2, <1>1 DEF Underway, InitComes, FileComes, OffsetComes, DataComes, AckComes,
     EofComes, Closed, Hangs
<1>3. ASSUME Underway(Peer(e))
      PROVE  end[e] \in {"init", "answer", "ack", "ready", "over", "sent", "failed"}
  BY <1>3, <1>1 DEF Underway, InitComes, FileComes, OffsetComes, DataComes, AckComes,
     EofComes, Closed, Hangs
<1>4. ASSUME end[e] \in {"file", "frame", "sub", "swallow"} PROVE Underway(e)
  BY <1>3, <1>4
<1>5. ASSUME end[e] \in {"init", "answer", "ack", "ready", "answer again"}
      PROVE  Underway(Peer(e))
  BY <1>2, <1>5
<1>6. end[e] = "file" => FileComes(e)
  BY <1>1, <1>4 DEF Underway, InitComes, FileComes, OffsetComes, DataComes, AckComes,
     EofComes, Closed, Hangs
<1>7. /\ end[e] = "frame" => DataComes(e) \/ EofComes(e) \/ Hangs(e)
      /\ end[e] = "sub" => DataComes(e) \/ Hangs(e)
      /\ end[e] # "swallow"
  BY <1>1, <1>2, <1>3, <1>4
     DEF Underway, InitComes, FileComes, OffsetComes, DataComes, AckComes,
     EofComes, Closed, Hangs
<1>8. /\ end[e] = "init" => InitComes(Peer(e))
      /\ end[e] = "answer" => OffsetComes(Peer(e))
      /\ end[e] = "ack" => AckComes(Peer(e))
      /\ end[e] = "ready" => Closed(Peer(e))
      /\ end[e] # "answer again"
  BY <1>1, <1>5
     DEF Underway, InitComes, FileComes, OffsetComes, DataComes, AckComes,
     EofComes, Closed, Hangs
<1>9. QED
  BY <1>6, <1>7, <1>8

\* The mark of a receiver's sender, and what is left for it.
LEMMA ToComeIs ==
  ASSUME ZmodemTypes, NEW r \in Ends
  PROVE  /\ Mark(r) \in Markers /\ Size(r) \in Nat /\ pos[r] \in Nat
         /\ ToCome(r) = Left(what[r[1]], MarkOf(Peer(r)), pos[r])
         /\ ToCome(r) \in Seq(AllFrames)
         /\ AllTaken(r) => ToCome(r) = <<>>
         /\ ~AllTaken(r) =>
              /\ ToCome(r) # <<>> /\ Head(ToCome(r)) \in AllFrames
              /\ Head(ToCome(r)) =
                   Sub(<<what[r[1]], pos[r] + 1>>,
                       IF pos[r] + 1 = Size(r) THEN Mark(r) ELSE "ZCRCG")
              /\ Tail(ToCome(r)) = Left(what[r[1]], Mark(r), pos[r] + 1)
<1>1. what[r[1]] \in Versions /\ pos[r] \in Nat /\ Mark(r) \in Markers
  BY TwoEnds DEF ZmodemTypes, Mark, Markers
<1>2. Mark(r) = MarkOf(Peer(r)) /\ Size(r) = Chunks[what[r[1]]]
  BY DEF Mark, MarkOf, Size
<1>3. AllTaken(r) <=> pos[r] >= Chunks[what[r[1]]]
  BY <1>2 DEF AllTaken
<1>4. ~AllTaken(r) <=> pos[r] < Chunks[what[r[1]]]
  BY <1>1, <1>3, LeftFrames
<1>5. QED
  BY <1>1, <1>2, <1>3, <1>4, LeftFrames DEF ToCome, Piece

\* One step of a transfer without a turn of the other program leads from one
\* point to the next.
LEMMA OpenFileGoes ==
  ASSUME ZmodemTypes, NEW e \in Ends, Underway(e) \/ Underway(Peer(e)), OpenFile(e)
  PROVE  OffsetComes(e)'
<1>1. frames[e] # <<>> /\ end[e] = "file"
  BY DEF OpenFile, Came
<1>2. FileComes(e)
  BY <1>1, Where
<1>3. Peer(e) \in Ends /\ Peer(e) # e
  BY TwoEnds
<1>4. PICK n \in Nat : n = Len(file[Dir(e)])
  BY TwoEnds, LenProperties DEF ZmodemTypes
<1>5. Takes(e, <<Offset(n)>>, "frame") /\ pos' = [pos EXCEPT ![e] = n]
  BY <1>4 DEF OpenFile
<1>6. <<Offset(n)>> \in Seq(AllFrames) /\ "frame" \in Doings
  BY FrameKinds DEF Doings
<1>7. /\ end'[e] = "frame" /\ end'[Peer(e)] = end[Peer(e)]
      /\ frames'[e] = Tail(frames[e])
      /\ frames'[Peer(e)] = frames[Peer(e)] \o <<Offset(n)>>
  BY <1>1, <1>3, <1>5, <1>6, TakesWhat
<1>8. /\ Tail(<<Frame("ZFILE")>>) = <<>> /\ <<>> \o <<Offset(n)>> = <<Offset(n)>>
  OBVIOUS
<1>9. pos'[e] = n
  BY <1>5 DEF ZmodemTypes
<1>10. QED
  BY <1>2, <1>7, <1>8, <1>9 DEF FileComes, OffsetComes, AtStep, Way

LEMMA WaitInitGoes ==
  ASSUME ZmodemTypes, NEW e \in Ends, Underway(e) \/ Underway(Peer(e)), WaitInit(e)
  PROVE  FileComes(Peer(e))'
<1>1. frames[e] # <<>> /\ end[e] = "init"
  BY DEF WaitInit, Came
<1>2. InitComes(Peer(e)) /\ Peer(e) \in Ends /\ Peer(e) # e /\ Peer(Peer(e)) = e
  BY <1>1, Where, TwoEnds
<1>3. Type(e) = "ZRINIT"
  BY <1>2 DEF InitComes, Way, Type, First, Frame
<1>4. Takes(e, <<Frame("ZFILE")>>, "answer")
  BY <1>3 DEF WaitInit
<1>5. <<Frame("ZFILE")>> \in Seq(AllFrames) /\ "answer" \in Doings
  BY FrameKinds DEF Doings, Headers
<1>6. /\ end'[e] = "answer" /\ end'[Peer(e)] = end[Peer(e)]
      /\ frames'[e] = Tail(frames[e])
      /\ frames'[Peer(e)] = frames[Peer(e)] \o <<Frame("ZFILE")>>
  BY <1>1, <1>2, <1>4, <1>5, TakesWhat
<1>7. Tail(<<Frame("ZRINIT")>>) = <<>> /\ <<>> \o <<Frame("ZFILE")>> = <<Frame("ZFILE")>>
  OBVIOUS
<1>8. QED
  BY <1>2, <1>6, <1>7 DEF FileComes, InitComes, AtStep, Way

LEMMA WaitAnyGoes ==
  ASSUME ZmodemTypes, NEW e \in Ends, Underway(e) \/ Underway(Peer(e)), WaitAny(e)
  PROVE  Underway(Peer(e))'
<1>1. frames[e] # <<>> /\ end[e] \in {"ack", "ready"}
  BY DEF WaitAny, Came
<1>2. /\ Peer(e) \in Ends /\ Peer(e) # e /\ Peer(Peer(e)) = e
      /\ Peer(e)[1] = e[1]
  BY TwoEnds
<1>3. /\ <<Frame("ZEOF")>> \in Seq(AllFrames) /\ <<Frame("ZFIN")>> \in Seq(AllFrames)
      /\ "ready" \in Doings /\ "over" \in Doings
  BY FrameKinds DEF Doings, Headers
<1>4. what' = what /\ pos' = pos
  BY DEF WaitAny, SameFiles
<1>5. AllTaken(Peer(e))' <=> AllTaken(Peer(e))
  BY <1>4 DEF AllTaken, Size
<1>6. CASE end[e] = "ack"
  <2>1. AckComes(Peer(e))
    BY <1>1, <1>6, Where
  <2>2. Takes(e, <<Frame("ZEOF")>>, "ready")
    BY <1>6 DEF WaitAny, Came
  <2>3. /\ end'[e] = "ready" /\ end'[Peer(e)] = end[Peer(e)]
        /\ frames'[e] = Tail(frames[e])
        /\ frames'[Peer(e)] = frames[Peer(e)] \o <<Frame("ZEOF")>>
    BY <1>1, <1>2, <1>3, <2>2, TakesWhat
  <2>4. Tail(<<Frame("ZACK")>>) = <<>> /\ <<>> \o <<Frame("ZEOF")>> = <<Frame("ZEOF")>>
    OBVIOUS
  <2>5. EofComes(Peer(e))'
    BY <1>2, <1>5, <2>1, <2>3, <2>4 DEF AckComes, EofComes, AtStep, Way
  <2>6. QED
    BY <2>5 DEF Underway
<1>7. CASE end[e] = "ready"
  <2>1. Closed(Peer(e))
    BY <1>1, <1>7, Where
  <2>2. Takes(e, <<Frame("ZFIN")>>, "over")
    BY <1>7 DEF WaitAny, Came
  <2>3. end'[e] = "over" /\ end'[Peer(e)] = end[Peer(e)]
    <3>1. end'[e] = "over" /\ \A d \in Ends \ {e} : end'[d] = end[d]
      BY <1>1, <1>3, <2>2, TakesWhat
    <3>2. QED
      BY <1>2, <3>1
  <2>4. Closed(Peer(e))'
    BY <1>2, <1>5, <2>1, <2>3 DEF Closed
  <2>5. QED
    BY <2>4 DEF Underway
<1>8. QED
  BY <1>1, <1>6, <1>7

LEMMA NoFileNever ==
  ASSUME NEW e \in Ends, Underway(e) \/ Underway(Peer(e))
  PROVE  ~NoFile(e)
<1> SUFFICES ASSUME NoFile(e) PROVE FALSE
  OBVIOUS
<1>1. frames[e] # <<>> /\ end[e] = "file" /\ Type(e) # "ZFILE"
  BY DEF NoFile, Came
<1>2. FileComes(e)
  BY <1>1, Where
<1>3. QED
  BY <1>1, <1>2 DEF FileComes, Way, Type, First, Frame

\* What a receiver finds first.
LEMMA FirstIs ==
  ASSUME ZmodemTypes, NEW e \in Ends, frames[e] # <<>>
  PROVE  /\ EofComes(e) => Type(e) = "ZEOF" /\ Tail(frames[e]) = <<>>
         /\ end[e] = "frame" /\ DataComes(e) =>
              Type(e) = "ZDATA" /\ Tail(frames[e]) = ToCome(e)
         /\ end[e] = "frame" /\ Hangs(e) =>
              /\ Type(e) = "ZDATA"
              /\ Tail(frames[e]) = Append(ToCome(e), Frame("ZEOF"))
         /\ end[e] = "sub" /\ AllTaken(e) =>
              ~DataComes(e) /\ (Hangs(e) => ~IsSub(First(e)) /\ Tail(frames[e]) = <<>>)
         /\ end[e] = "sub" /\ ~AllTaken(e) /\ (DataComes(e) \/ Hangs(e)) =>
              /\ First(e) = Head(ToCome(e)) /\ IsSub(First(e))
              /\ DataComes(e) => Tail(frames[e]) = Tail(ToCome(e))
              /\ Hangs(e) => Tail(frames[e]) = Append(Tail(ToCome(e)), Frame("ZEOF"))
<1>1. /\ Frame("ZDATA") \in AllFrames /\ Frame("ZEOF") \in AllFrames
      /\ Frame("ZDATA")[1] = "ZDATA" /\ Frame("ZEOF")[1] = "ZEOF"
  BY FrameKinds DEF Headers
<1>2. /\ ToCome(e) \in Seq(AllFrames)
      /\ Append(ToCome(e), Frame("ZEOF")) \in Seq(AllFrames)
  BY <1>1, ToComeIs, AppendProperties
<1>3. EofComes(e) => Type(e) = "ZEOF" /\ Tail(frames[e]) = <<>>
  <2>1. Head(<<Frame("ZEOF")>>) = Frame("ZEOF") /\ Tail(<<Frame("ZEOF")>>) = <<>>
    OBVIOUS
  <2>2. QED
    BY <1>1, <2>1 DEF EofComes, Way, Type, First
<1>4. ASSUME end[e] = "frame"
      PROVE  /\ DataComes(e) => frames[e] = <<Frame("ZDATA")>> \o ToCome(e)
             /\ Hangs(e) =>
                  frames[e] = <<Frame("ZDATA")>> \o Append(ToCome(e), Frame("ZEOF"))
  BY <1>4 DEF DataComes, Hangs, AtStep, Way
<1>5. /\ end[e] = "frame" /\ DataComes(e) =>
           Type(e) = "ZDATA" /\ Tail(frames[e]) = ToCome(e)
      /\ end[e] = "frame" /\ Hangs(e) =>
           /\ Type(e) = "ZDATA"
           /\ Tail(frames[e]) = Append(ToCome(e), Frame("ZEOF"))
  <2>1. \A s \in Seq(AllFrames) : /\ Head(<<Frame("ZDATA")>> \o s) = Frame("ZDATA")
                                  /\ Tail(<<Frame("ZDATA")>> \o s) = s
    BY <1>1, OneFrame
  <2>2. CASE end[e] = "frame" /\ DataComes(e)
    <3>1. frames[e] = <<Frame("ZDATA")>> \o ToCome(e)
      BY <1>4, <2>2
    <3>2. Head(frames[e]) = Frame("ZDATA") /\ Tail(frames[e]) = ToCome(e)
      BY <1>2, <2>1, <3>1
    <3>3. ~Hangs(e)
      BY <2>2 DEF Hangs, DataComes, AtStep
    <3>4. QED
      BY <1>1, <3>2, <3>3 DEF Type, First
  <2>3. CASE end[e] = "frame" /\ Hangs(e)
    <3>1. frames[e] = <<Frame("ZDATA")>> \o Append(ToCome(e), Frame("ZEOF"))
      BY <1>4, <2>3
    <3>2. /\ Head(frames[e]) = Frame("ZDATA")
          /\ Tail(frames[e]) = Append(ToCome(e), Frame("ZEOF"))
      BY <1>2, <2>1, <3>1
    <3>3. ~DataComes(e)
      BY <2>3 DEF Hangs, DataComes, AtStep
    <3>4. QED
      BY <1>1, <3>2, <3>3 DEF Type, First
  <2>4. QED
    BY <2>2, <2>3
<1>6. ASSUME end[e] = "sub"
      PROVE  /\ DataComes(e) => frames[e] = ToCome(e) /\ ~AllTaken(e)
             /\ Hangs(e) => frames[e] = Append(ToCome(e), Frame("ZEOF"))
  BY <1>6 DEF DataComes, Hangs, AtStep, Way
<1>7. end[e] = "sub" /\ AllTaken(e) =>
        ~DataComes(e) /\ (Hangs(e) => ~IsSub(First(e)) /\ Tail(frames[e]) = <<>>)
  <2> SUFFICES ASSUME end[e] = "sub", AllTaken(e), Hangs(e)
               PROVE  ~IsSub(First(e)) /\ Tail(frames[e]) = <<>>
    BY <1>6
  <2>1. frames[e] = <<Frame("ZEOF")>>
    <3>1. ToCome(e) = <<>> /\ frames[e] = Append(ToCome(e), Frame("ZEOF"))
      BY <1>6, ToComeIs
    <3>2. Append(<<>>, Frame("ZEOF")) = <<Frame("ZEOF")>>
      OBVIOUS
    <3>3. QED
      BY <3>1, <3>2
  <2>2. Head(<<Frame("ZEOF")>>) = Frame("ZEOF") /\ Tail(<<Frame("ZEOF")>>) = <<>>
    OBVIOUS
  <2>3. QED
    BY <1>1, <2>1, <2>2 DEF First, IsSub
<1>8. end[e] = "sub" /\ ~AllTaken(e) /\ (DataComes(e) \/ Hangs(e)) =>
        /\ First(e) = Head(ToCome(e)) /\ IsSub(First(e))
        /\ DataComes(e) => Tail(frames[e]) = Tail(ToCome(e))
        /\ Hangs(e) => Tail(frames[e]) = Append(Tail(ToCome(e)), Frame("ZEOF"))
  <2> SUFFICES ASSUME end[e] = "sub", ~AllTaken(e), DataComes(e) \/ Hangs(e)
               PROVE  /\ First(e) = Head(ToCome(e)) /\ IsSub(First(e))
                      /\ DataComes(e) => Tail(frames[e]) = Tail(ToCome(e))
                      /\ Hangs(e) =>
                           Tail(frames[e]) = Append(Tail(ToCome(e)), Frame("ZEOF"))
    OBVIOUS
  <2>1. /\ ToCome(e) # <<>>
        /\ Head(ToCome(e)) = Sub(<<what[e[1]], pos[e] + 1>>,
                                 IF pos[e] + 1 = Size(e) THEN Mark(e) ELSE "ZCRCG")
    BY ToComeIs
  <2>2. IsSub(Head(ToCome(e)))
    BY <2>1 DEF IsSub, Sub
  <2>3. /\ Head(Append(ToCome(e), Frame("ZEOF"))) = Head(ToCome(e))
        /\ Tail(Append(ToCome(e), Frame("ZEOF"))) = Append(Tail(ToCome(e)), Frame("ZEOF"))
    BY <1>2, <2>1, HeadTailAppend
  <2>4. QED
    BY <1>6, <2>2, <2>3 DEF First
<1>9. QED
  BY <1>3, <1>5, <1>7, <1>8

LEMMA TakeHeaderGoes ==
  ASSUME ZmodemTypes, NEW e \in Ends, Underway(e) \/ Underway(Peer(e)), TakeHeader(e)
  PROVE  /\ Underway(e)' /\ pos' = pos /\ what' = what
         /\ end'[e] = "received" => AllTaken(e)
<1>1. frames[e] # <<>> /\ end[e] = "frame"
  BY DEF TakeHeader, Came
<1>2. /\ Peer(e) \in Ends /\ Peer(e) # e /\ Peer(Peer(e)) = e
      /\ Peer(e)[1] = e[1]
  BY TwoEnds
<1>3. DataComes(e) \/ EofComes(e) \/ Hangs(e)
  BY <1>1, Where
<1>4. /\ what' = what /\ kind' = kind /\ pos' = pos
  BY DEF TakeHeader
<1>5. /\ AllTaken(e)' = AllTaken(e) /\ ToCome(e)' = ToCome(e)
      /\ Port(Peer(e))' = Port(Peer(e))
  BY <1>4 DEF AllTaken, Size, ToCome, Mark, Port
<1>6. /\ <<>> \in Seq(AllFrames) /\ <<Frame("ZRINIT")>> \in Seq(AllFrames)
      /\ "sub" \in Doings /\ "received" \in Doings
  BY FrameKinds DEF Headers, Doings
<1>7. /\ DOMAIN Reply = {"ZEOF", "ZFIN"} /\ Reply["ZEOF"] = "ZRINIT"
      /\ DOMAIN Header = {"ZDATA", "ZEOF", "ZFIN", "CAN"}
      /\ Header["ZDATA"] = "sub" /\ Header["ZEOF"] = "received"
  BY DEF Reply, Header
<1>8. CASE DataComes(e)
  <2>1. Type(e) = "ZDATA" /\ Tail(frames[e]) = ToCome(e)
    BY <1>1, <1>8, FirstIs
  <2>2. Takes(e, <<>>, "sub")
    BY <1>7, <2>1 DEF TakeHeader
  <2>3. /\ end'[e] = "sub" /\ end'[Peer(e)] = end[Peer(e)]
        /\ frames'[e] = ToCome(e) /\ frames'[Peer(e)] = frames[Peer(e)] \o <<>>
    BY <1>1, <1>2, <1>6, <2>1, <2>2, TakesWhat
  <2>4. frames[Peer(e)] = <<>> /\ <<>> \o <<>> = <<>>
    BY <1>8 DEF DataComes, Way
  <2>5. DataComes(e)'
    BY <1>5, <1>8, <2>3, <2>4 DEF DataComes, AtStep, Way
  <2>6. QED
    BY <1>4, <2>3, <2>5 DEF Underway
<1>9. CASE EofComes(e)
  <2>1. Type(e) = "ZEOF" /\ Tail(frames[e]) = <<>>
    BY <1>1, <1>9, FirstIs
  <2>2. Takes(e, <<Frame("ZRINIT")>>, "received")
    BY <1>7, <2>1 DEF TakeHeader
  <2>3. /\ end'[e] = "received" /\ end'[Peer(e)] = end[Peer(e)]
        /\ frames'[e] = <<>> /\ frames'[Peer(e)] = frames[Peer(e)] \o <<Frame("ZRINIT")>>
    BY <1>1, <1>2, <1>6, <2>1, <2>2, TakesWhat
  <2>4. frames[Peer(e)] = <<>> /\ <<>> \o <<Frame("ZRINIT")>> = <<Frame("ZRINIT")>>
    BY <1>9 DEF EofComes, Way
  <2>5. Closed(e)'
    BY <1>5, <1>9, <2>3, <2>4 DEF EofComes, Closed, AtStep, Way
  <2>6. QED
    BY <1>4, <1>9, <2>5 DEF Underway, EofComes
<1>10. CASE Hangs(e)
  <2>1. Type(e) = "ZDATA" /\ Tail(frames[e]) = Append(ToCome(e), Frame("ZEOF"))
    BY <1>1, <1>10, FirstIs
  <2>2. Takes(e, <<>>, "sub")
    BY <1>7, <2>1 DEF TakeHeader
  <2>3. /\ end'[e] = "sub" /\ end'[Peer(e)] = end[Peer(e)]
        /\ frames'[e] = Append(ToCome(e), Frame("ZEOF"))
        /\ frames'[Peer(e)] = frames[Peer(e)] \o <<>>
    BY <1>1, <1>2, <1>6, <2>1, <2>2, TakesWhat
  <2>4. frames[Peer(e)] = <<>> /\ <<>> \o <<>> = <<>>
    BY <1>10 DEF Hangs, Way
  <2>5. Hangs(e)'
    BY <1>5, <1>10, <2>3, <2>4 DEF Hangs, AtStep, Way, Frame
  <2>6. QED
    BY <1>4, <2>3, <2>5 DEF Underway
<1>11. QED
  BY <1>3, <1>8, <1>9, <1>10

LEMMA SwallowGoes ==
  ASSUME ZmodemTypes, NEW e \in Ends, Underway(e) \/ Underway(Peer(e)), Swallow(e)
  PROVE  Hangs(e)' /\ end'[e] = "swallow"
<1>1. frames[e] # <<>> /\ end[e] \in {"sub", "swallow"}
  BY DEF Swallow, Came
<1>2. /\ Peer(e) \in Ends /\ Peer(e) # e
  BY TwoEnds
<1>3. end[e] = "sub" /\ (DataComes(e) \/ Hangs(e))
  BY <1>1, Where
<1>4. ~IsSub(First(e)) /\ Takes(e, <<>>, "swallow")
  BY <1>3 DEF Swallow, Came
<1>5. AllTaken(e) /\ Hangs(e) /\ Tail(frames[e]) = <<>>
  BY <1>1, <1>3, <1>4, FirstIs
<1>6. <<>> \in Seq(AllFrames) /\ "swallow" \in Doings
  BY DEF Doings
<1>7. /\ end'[e] = "swallow" /\ end'[Peer(e)] = end[Peer(e)]
      /\ frames'[e] = <<>> /\ frames'[Peer(e)] = frames[Peer(e)] \o <<>>
  BY <1>1, <1>2, <1>4, <1>5, <1>6, TakesWhat
<1>8. frames[Peer(e)] = <<>> /\ <<>> \o <<>> = <<>>
  BY <1>5 DEF Hangs, Way
<1>9. AllTaken(e)' = AllTaken(e)
  BY DEF Swallow, AllTaken, Size
<1>10. QED
  BY <1>5, <1>7, <1>8, <1>9 DEF Hangs, AtStep, Way

\* After the last piece: with an acknowledged mark both go on, with the
\* other mark a header is not looked for.
LEMMA TakeSubGoes ==
  ASSUME ZmodemTypes, NEW e \in Ends, Underway(e) \/ Underway(Peer(e)), TakeSub(e)
  PROVE  /\ Underway(e)' /\ end'[e] \in {"frame", "sub"}
         /\ pos[e] + 1 <= Size(e) /\ First(e)[2] = <<what[e[1]], pos[e] + 1>>
<1>1. frames[e] # <<>> /\ end[e] = "sub" /\ IsSub(First(e))
  BY DEF TakeSub, Came
<1>2. /\ Peer(e) \in Ends /\ Peer(e) # e /\ Peer(Peer(e)) = e
      /\ Peer(e)[1] = e[1] /\ (e = Board(e[1]) \/ Peer(e) = Board(e[1]))
  BY TwoEnds DEF Peer
<1>3. DataComes(e) \/ Hangs(e)
  BY <1>1, Where
<1>4. ~AllTaken(e)
  BY <1>1, <1>3, FirstIs
<1>5. what' = what /\ kind' = kind /\ pos'[e] = pos[e] + 1
  BY WritesWhat DEF TakeSub
<1>6. PICK n \in Nat : n = Size(e)
  BY ToComeIs
<1>7. PICK k \in Nat : k = pos[e]
  BY ToComeIs
<1>8. k < n
  BY <1>4, <1>6, <1>7 DEF AllTaken
<1>9. /\ Mark(e)' = Mark(e) /\ Size(e)' = n /\ Port(Peer(e))' = Port(Peer(e))
      /\ AllTaken(e)' <=> k + 1 >= n
      /\ ToCome(e)' = Left(what[e[1]], Mark(e), k + 1)
  BY <1>5, <1>6, <1>7 DEF Mark, Port, Size, AllTaken, ToCome
<1> DEFINE m == IF k + 1 = n THEN Mark(e) ELSE "ZCRCG"
<1>10. First(e) = Sub(<<what[e[1]], k + 1>>, m)
  BY <1>1, <1>3, <1>4, <1>6, <1>7, FirstIs, ToComeIs
<1>11. First(e)[2] = <<what[e[1]], k + 1>> /\ First(e)[3] = m
  BY <1>10 DEF Sub
<1>12. Takes(e, IF m \in {"ZCRCW", "ZCRCQ"} THEN <<Frame("ZACK")>> ELSE <<>>,
             Follows(e, m))
  BY <1>11 DEF TakeSub
<1>13. /\ <<>> \in Seq(AllFrames) /\ <<Frame("ZACK")>> \in Seq(AllFrames)
       /\ "sub" \in Doings /\ "frame" \in Doings
  BY FrameKinds DEF Headers, Doings
<1>14. Tail(ToCome(e)) = ToCome(e)'
  BY <1>4, <1>7, <1>9, ToComeIs
<1>15. frames[Peer(e)] = <<>>
  BY <1>1, <1>3 DEF DataComes, Hangs, Way
<1>16. <<>> \o <<Frame("ZACK")>> = <<Frame("ZACK")>> /\ <<>> \o <<>> = <<>>
  OBVIOUS
<1>17. CASE k + 1 = n /\ Port(Peer(e))
  <2>1. m = "ZCRCW" /\ AllTaken(e)'
    BY <1>9, <1>17 DEF Mark
  <2>2. Takes(e, <<Frame("ZACK")>>, "frame")
    BY <1>12, <2>1 DEF Follows
  <2>3. /\ end'[e] = "frame" /\ end'[Peer(e)] = end[Peer(e)]
        /\ frames'[e] = Tail(frames[e])
        /\ frames'[Peer(e)] = frames[Peer(e)] \o <<Frame("ZACK")>>
    BY <1>1, <1>2, <1>13, <2>2, TakesWhat
  <2>4. CASE DataComes(e)
    <3>1. frames'[e] = <<>>
      <4>1. frames'[e] = ToCome(e)'
        BY <1>1, <1>4, <1>14, <2>3, <2>4, FirstIs
      <4>2. Left(what[e[1]], Mark(e), k + 1) = <<>>
        <5>1. what[e[1]] \in Versions /\ Mark(e) \in Markers /\ k + 1 \in Nat
          <6>1. what[e[1]] \in Versions
            BY TwoEnds DEF ZmodemTypes
          <6>2. Mark(e) \in Markers
            BY ToComeIs
          <6>3. QED
            BY <1>7, <6>1, <6>2
        <5>2. k + 1 >= Chunks[what[e[1]]]
          BY <1>6, <1>17 DEF Size
        <5>3. QED
          BY <5>1, <5>2, LeftFrames
      <4>3. QED
        BY <1>9, <4>1, <4>2
    <3>2. AckComes(e)'
      BY <1>15, <1>16, <2>1, <2>3, <2>4, <3>1 DEF DataComes, AckComes, AtStep, Way
    <3>3. QED
      BY <1>6, <1>7, <1>8, <1>11, <2>3, <3>2 DEF Underway
  <2>5. CASE Hangs(e)
    BY <1>4, <1>17, <2>5 DEF Hangs
  <2>6. QED
    BY <1>3, <2>4, <2>5
<1>18. CASE ~(k + 1 = n /\ Port(Peer(e)))
  <2>1. m \in {"ZCRCG", "ZCRCE"} /\ (m = "ZCRCE" => ~Port(Peer(e)) /\ k + 1 = n)
    BY <1>18 DEF Mark
  <2>2. m = "ZCRCE" => Port(e)
    BY <1>2, <2>1 DEF Port
  <2>3. Takes(e, <<>>, "sub")
    BY <1>12, <2>1, <2>2 DEF Follows
  <2>4. /\ end'[e] = "sub" /\ end'[Peer(e)] = end[Peer(e)]
        /\ frames'[e] = Tail(frames[e])
        /\ frames'[Peer(e)] = frames[Peer(e)] \o <<>>
    BY <1>1, <1>2, <1>13, <2>3, TakesWhat
  <2>5. CASE DataComes(e)
    <3>1. frames'[e] = ToCome(e)'
      BY <1>1, <1>4, <1>14, <2>4, <2>5, FirstIs
    <3>2. Port(Peer(e)) /\ ~(k + 1 >= n)
      BY <1>8, <1>18, <2>5 DEF DataComes
    <3>3. DataComes(e)'
      BY <1>9, <1>15, <1>16, <2>4, <2>5, <3>1, <3>2 DEF DataComes, AtStep, Way
    <3>4. QED
      BY <1>6, <1>7, <1>8, <1>11, <2>4, <3>3 DEF Underway
  <2>6. CASE Hangs(e)
    <3>1. frames'[e] = Append(ToCome(e)', Frame("ZEOF"))
      BY <1>1, <1>4, <1>14, <2>4, <2>6, FirstIs
    <3>2. ~Port(Peer(e))
      BY <1>4, <2>6 DEF Hangs
    <3>3. Hangs(e)'
      BY <1>9, <1>15, <1>16, <2>4, <2>6, <3>1, <3>2 DEF Hangs, AtStep, Way, Frame
    <3>4. QED
      BY <1>6, <1>7, <1>8, <1>11, <2>4, <3>3 DEF Underway
  <2>7. QED
    BY <1>3, <2>5, <2>6
<1>19. QED
  BY <1>17, <1>18

\* The sender sends everything from the offset on.
LEMMA TakeAnswerGoes ==
  ASSUME ZmodemTypes, NEW e \in Ends, Underway(e) \/ Underway(Peer(e)), TakeAnswer(e)
  PROVE  Underway(Peer(e))' /\ end'[e] # "sent"
<1>1. frames[e] # <<>> /\ end[e] \in {"answer", "answer again"}
  BY DEF TakeAnswer, Came
<1>2. /\ Peer(e) \in Ends /\ Peer(e) # e /\ Peer(Peer(e)) = e
      /\ Peer(e)[1] = e[1]
  BY TwoEnds
<1>3. OffsetComes(Peer(e))
  BY <1>1, Where
<1>4. PICK k \in Nat : k = pos[Peer(e)]
  BY <1>2 DEF ZmodemTypes
<1>5. /\ AtStep(Peer(e), "frame") /\ frames[e] = <<Offset(k)>> /\ frames[Peer(e)] = <<>>
  BY <1>2, <1>3, <1>4 DEF OffsetComes, Way
<1>6. First(e) = Offset(k) /\ Tail(frames[e]) = <<>>
  BY <1>5 DEF First
<1>7. First(e)[2] = k /\ Type(e) = "ZRPOS"
  BY <1>6, FrameKinds DEF Type
<1>8. Stream(e)
  BY <1>7 DEF TakeAnswer
<1>9. what' = what /\ kind' = kind /\ pos' = pos
  BY DEF TakeAnswer, SameFiles
<1>10. PICK n \in Nat : n = Chunks[what[e[1]]]
  BY <1>2, TwoEnds, LeftFrames, ZmodemAssumption DEF ZmodemTypes
<1> DEFINE r == Peer(e)
           l == Left(what[e[1]], MarkOf(e), k)
<1>11. /\ ToCome(r)' = l /\ ToCome(r) = l /\ (AllTaken(r)' <=> k >= n)
       /\ Port(Peer(r))' = Port(e)
  BY <1>2, <1>4, <1>9, <1>10 DEF ToCome, AllTaken, Size, Mark, MarkOf, Port
<1>12. l \in Seq(AllFrames)
  BY <1>2, <1>11, ToComeIs
<1>13. /\ Frame("ZDATA") \in AllFrames /\ Frame("ZEOF") \in AllFrames
       /\ "ack" \in Doings /\ "ready" \in Doings
  BY FrameKinds DEF Headers, Doings
<1>14. /\ <<Frame("ZDATA")>> \o l \in Seq(AllFrames)
       /\ <<Frame("ZDATA")>> \o Append(l, Frame("ZEOF")) \in Seq(AllFrames)
       /\ <<Frame("ZEOF")>> \in Seq(AllFrames)
  <2> HIDE DEF l
  <2>1. Append(l, Frame("ZEOF")) \in Seq(AllFrames)
    BY <1>12, <1>13, AppendProperties
  <2>2. QED
    BY <1>12, <1>13, <2>1, OneFrame
<1>15. ASSUME NEW out \in Seq(AllFrames), NEW step \in Doings, Takes(e, out, step)
       PROVE  /\ end'[e] = step /\ end'[r] = end[r]
              /\ frames'[e] = <<>> /\ frames'[r] = out
  <2>1. /\ end'[e] = step /\ end'[r] = end[r]
        /\ frames'[e] = Tail(frames[e]) /\ frames'[r] = frames[r] \o out
    <3>1. /\ end'[e] = step /\ \A d \in Ends \ {e} : end'[d] = end[d]
          /\ frames'[e] = Tail(frames[e])
          /\ frames'[Peer(e)] = frames[Peer(e)] \o out
      BY <1>1, <1>15, TakesWhat
    <3>2. QED
      BY <1>2, <3>1
  <2>2. <<>> \o out = out
    BY <1>15, ConcatEmptySeq
  <2>3. QED
    BY <1>5, <1>6, <2>1, <2>2
<1>16. CASE Port(e) /\ k < n
  <2>1. Takes(e, <<Frame("ZDATA")>> \o l, "ack")
    BY <1>7, <1>8, <1>10, <1>16, StreamWhat
  <2> HIDE DEF l
  <2>2. /\ end'[e] = "ack" /\ end'[r] = end[r] /\ frames'[e] = <<>>
        /\ frames'[r] = <<Frame("ZDATA")>> \o l
    BY <1>13, <1>14, <1>15, <2>1
  <2>3. ~(k >= n)
    BY <1>16
  <2>4. DataComes(r)'
    BY <1>2, <1>5, <1>11, <1>16, <2>2, <2>3 DEF DataComes, AtStep, Way, Frame
  <2>5. QED
    BY <2>2, <2>4 DEF Underway
<1>17. CASE (~Port(e) /\ k < n) \/ (Port(e) /\ k >= n)
  <2>1. Takes(e, <<Frame("ZDATA")>> \o Append(l, Frame("ZEOF")), "ready")
    BY <1>7, <1>8, <1>10, <1>17, StreamWhat
  <2> HIDE DEF l
  <2>2. /\ end'[e] = "ready" /\ end'[r] = end[r] /\ frames'[e] = <<>>
        /\ frames'[r] = <<Frame("ZDATA")>> \o Append(l, Frame("ZEOF"))
    BY <1>13, <1>14, <1>15, <2>1
  <2>3. Hangs(r)'
    BY <1>2, <1>5, <1>11, <1>17, <2>2 DEF Hangs, AtStep, Way, Frame
  <2>4. QED
    BY <2>2, <2>3 DEF Underway
<1>18. CASE ~Port(e) /\ k >= n
  <2>1. Takes(e, <<Frame("ZEOF")>>, "ready")
    BY <1>7, <1>8, <1>10, <1>18, StreamWhat
  <2> HIDE DEF l
  <2>2. /\ end'[e] = "ready" /\ end'[r] = end[r] /\ frames'[e] = <<>>
        /\ frames'[r] = <<Frame("ZEOF")>>
    BY <1>13, <1>14, <1>15, <2>1
  <2>3. EofComes(r)'
    BY <1>2, <1>5, <1>11, <1>18, <2>2 DEF EofComes, AtStep, Way, Frame
  <2>4. QED
    BY <2>2, <2>3 DEF Underway
<1>19. k < n \/ k >= n
  BY <1>4, <1>10
<1>20. QED
  BY <1>16, <1>17, <1>18, <1>19

\* An end that fails, or is done with the bytes after ZFIN, changes nothing
\* of what is on its way.
LEMMA StopGoes ==
  ASSUME ZmodemTypes, NEW e \in Ends, Underway(e) \/ Underway(Peer(e)),
         Over(e) \/ Breaks(e)
  PROVE  Underway(e)' \/ Underway(Peer(e))'
<1>1. /\ Peer(e) \in Ends /\ Peer(e) # e /\ Peer(Peer(e)) = e
      /\ Peer(e)[1] = e[1]
  BY TwoEnds
<1>2. what' = what /\ kind' = kind /\ pos' = pos /\ frames' = frames
  BY DEF Over, Breaks, SameFiles
<1>3. end'[Peer(e)] = end[Peer(e)]
  BY <1>1 DEF Over, Breaks, ZmodemTypes
<1>4. \/ end[e] = "over" /\ end'[e] = "sent"
      \/ /\ end[e] \notin {"over", "received", "sent", "idle"}
         /\ end'[e] = "failed"
  BY DEF Over, Breaks, Ended, ZmodemTypes
<1>5. \A r \in {e, Peer(e)} :
        /\ AllTaken(r)' = AllTaken(r) /\ ToCome(r)' = ToCome(r)
        /\ Port(Peer(r))' = Port(Peer(r))
        /\ \A s, t : Way(r, s, t)' = Way(r, s, t)
  BY <1>2 DEF AllTaken, Size, ToCome, Mark, Port, Way
<1>6. ASSUME NEW r \in {e, Peer(e)}
      PROVE  /\ \A step \in Doings \ {"over", "sent", "idle", "received"} :
                  AtStep(r, step) => AtStep(r, step)'
             /\ end[r] = "received" => end'[r] = "received"
             /\ end[r] \in {"over", "sent", "failed"} =>
                  end'[r] \in {"over", "sent", "failed"}
  BY <1>3, <1>4, <1>6 DEF AtStep
<1>7. ASSUME NEW r \in {e, Peer(e)}, Underway(r) PROVE Underway(r)'
  <2>1. /\ AllTaken(r)' = AllTaken(r) /\ ToCome(r)' = ToCome(r)
        /\ Port(Peer(r))' = Port(Peer(r))
        /\ \A s, t : Way(r, s, t)' = Way(r, s, t)
    BY <1>5, <1>7
  <2>2. Peer(r) \in {e, Peer(e)}
    BY <1>1, <1>7
  <2>3. ASSUME NEW d \in {r, Peer(r)},
               NEW step \in {"init", "file", "answer", "frame", "sub", "swallow",
                             "ack", "ready"}, AtStep(d, step)
        PROVE  AtStep(d, step)'
    BY <1>6, <1>7, <2>2, <2>3 DEF Doings
  <2>4. end[r] = "received" => end'[r] = "received"
    BY <1>6, <1>7
  <2>5. end[Peer(r)] \in {"over", "sent", "failed"} =>
          end'[Peer(r)] \in {"over", "sent", "failed"}
    BY <1>6, <2>2
  <2>6. CASE InitComes(r)
    BY <2>1, <2>3, <2>6 DEF InitComes, Underway, Frame
  <2>7. CASE FileComes(r)
    BY <2>1, <2>3, <2>7 DEF FileComes, Underway, Frame
  <2>8. CASE OffsetComes(r)
    BY <1>2, <2>1, <2>3, <2>8 DEF OffsetComes, Underway, Offset
  <2>9. CASE DataComes(r)
    BY <2>1, <2>3, <2>9 DEF DataComes, Underway, Frame
  <2>10. CASE AckComes(r)
    BY <2>1, <2>3, <2>10 DEF AckComes, Underway, Frame
  <2>11. CASE EofComes(r)
    BY <2>1, <2>3, <2>11 DEF EofComes, Underway, Frame
  <2>12. CASE Closed(r)
    BY <2>1, <2>3, <2>4, <2>5, <2>12 DEF Closed, Underway, Frame
  <2>13. CASE Hangs(r)
    BY <2>1, <2>3, <2>13 DEF Hangs, Underway, Frame
  <2>14. QED
    BY <1>7, <2>6, <2>7, <2>8, <2>9, <2>10, <2>11, <2>12, <2>13 DEF Underway
<1>8. QED
  BY <1>1, <1>7

LEMMA EndStepGoes ==
  ASSUME ZmodemTypes, NEW e \in Ends, LineInv(e[1]), EndSteps(e)
  PROVE  LineInv(e[1])'
<1> DEFINE h == e[1]
<1>1. /\ h \in Lines /\ Board(h) \in Ends /\ Caller(h) \in Ends
      /\ {e, Peer(e)} = {Board(h), Caller(h)}
  BY TwoEnds, LineEnds
<1>2. CASE OtherProgram(e)
  <2>1. kind' = [kind EXCEPT ![h] = "odd"]
    BY <1>2 DEF OtherProgram, SendNothing, Skip, AskAgain, Cancel, Odd
  <2>2. QED
    BY <1>1, <2>1 DEF LineInv, ZmodemTypes
<1>3. CASE ~OtherProgram(e)
  <2>1. kind' = kind
    BY <1>3 DEF EndSteps, TransferStep, OpenFile, NoFile, TakeHeader, TakeSub,
       Swallow, WaitInit, TakeAnswer, WaitAny, Over, Breaks, SameFiles
  <2>2. end[e] # "idle"
    BY <1>3 DEF EndSteps, TransferStep, OpenFile, NoFile, TakeHeader, TakeSub,
       Swallow, WaitInit, TakeAnswer, WaitAny, Over, Breaks, Came, Ended
  <2>3. CASE kind[h] = "odd"
    BY <2>1, <2>3 DEF LineInv
  <2>4. CASE kind[h] # "odd"
    <3>1. Underway(e) \/ Underway(Peer(e))
      BY <1>1, <2>2, <2>4 DEF LineInv
    <3>2. Underway(e)' \/ Underway(Peer(e))'
      <4>1. CASE OpenFile(e)
        BY <3>1, <4>1, OpenFileGoes DEF Underway
      <4>2. CASE NoFile(e)
        BY <3>1, <4>2, NoFileNever
      <4>3. CASE TakeHeader(e)
        BY <3>1, <4>3, TakeHeaderGoes
      <4>4. CASE TakeSub(e)
        BY <3>1, <4>4, TakeSubGoes
      <4>5. CASE Swallow(e)
        BY <3>1, <4>5, SwallowGoes DEF Underway
      <4>6. CASE WaitInit(e)
        BY <3>1, <4>6, WaitInitGoes DEF Underway
      <4>7. CASE TakeAnswer(e)
        BY <3>1, <4>7, TakeAnswerGoes
      <4>8. CASE WaitAny(e)
        BY <3>1, <4>8, WaitAnyGoes
      <4>9. CASE Over(e) \/ Breaks(e)
        BY <3>1, <4>9, StopGoes
      <4>10. QED
        BY <1>3, <4>1, <4>2, <4>3, <4>4, <4>5, <4>6, <4>7, <4>8, <4>9
           DEF EndSteps, TransferStep
    <3>3. QED
      <4>1. CASE e = Board(h) /\ Peer(e) = Caller(h)
        BY <3>2, <4>1 DEF LineInv
      <4>2. CASE e = Caller(h) /\ Peer(e) = Board(h)
        BY <3>2, <4>2 DEF LineInv
      <4>3. QED
        BY <1>1, <4>1, <4>2, TwoEnds
  <2>5. QED
    BY <2>3, <2>4
<1>4. QED
  BY <1>2, <1>3

\* What a step on one line leaves alone on another.
LEMMA BesideLine ==
  ASSUME ZmodemTypes, NEW h \in Lines, LineSteps(h), NEW e \in Ends, e[1] # h
  PROVE  /\ kind'[e[1]] = kind[e[1]] /\ what'[e[1]] = what[e[1]]
         /\ end'[e] = end[e] /\ frames'[e] = frames[e] /\ pos'[e] = pos[e]
         /\ start'[e] = start[e] /\ (alone'[e] => alone[e])
<1>1. /\ Board(h) # e /\ Caller(h) # e /\ e[1] \in Lines
      /\ Peer(Board(h)) = Caller(h) /\ Peer(Caller(h)) = Board(h)
      /\ Board(h) \in Ends /\ Caller(h) \in Ends
      /\ Board(h)[1] = h /\ Caller(h)[1] = h
  BY LineEnds, TwoEnds
<1>2. ASSUME NEW d \in {Board(h), Caller(h)}, EndSteps(d)
      PROVE  /\ kind'[e[1]] = kind[e[1]] /\ what'[e[1]] = what[e[1]]
             /\ end'[e] = end[e] /\ frames'[e] = frames[e] /\ pos'[e] = pos[e]
             /\ start'[e] = start[e] /\ (alone'[e] => alone[e])
  <2>1. end'[e] = end[e] /\ frames'[e] = frames[e]
    BY <1>1, <1>2, EndStepAt
  <2>2. d \in Ends /\ d[1] = h /\ d # e
    BY <1>1, <1>2
  <2>3. CASE OpenFile(d)
    <3>1. /\ kind' = kind /\ what' = what
          /\ \E n : pos' = [pos EXCEPT ![d] = n]
          /\ \E f : start' = [start EXCEPT ![d] = f]
      BY <2>3 DEF OpenFile
    <3>2. alone'[e] => alone[e]
      BY <2>2, <2>3 DEF OpenFile
    <3>3. QED
      BY <2>1, <2>2, <3>1, <3>2 DEF ZmodemTypes
  <2>4. CASE TakeSub(d)
    BY <2>1, <2>2, <2>4, WritesWhat DEF TakeSub
  <2>5. CASE ~OpenFile(d) /\ ~TakeSub(d)
    <3>1. /\ pos' = pos /\ start' = start /\ alone' = alone /\ what' = what
          /\ kind' = kind \/ kind' = [kind EXCEPT ![d[1]] = "odd"]
      BY <1>2, <2>5 DEF EndSteps, TransferStep, OtherProgram, NoFile,
         TakeHeader, Swallow, WaitInit, TakeAnswer, WaitAny, Over, Breaks,
         SameFiles, SendNothing, Skip, AskAgain, Cancel, Odd
    <3>2. QED
      BY <1>1, <2>1, <2>2, <3>1 DEF ZmodemTypes
  <2>6. QED
    BY <2>3, <2>4, <2>5
<1>3. CASE \E v, k, board, caller : Begin(h, v, k, board, caller)
  BY <1>1, <1>3 DEF Begin, Both, ZmodemTypes
<1>4. CASE Settle(h)
  BY <1>1, <1>4 DEF Settle, Both, ZmodemTypes
<1>5. CASE EndSteps(Board(h)) \/ EndSteps(Caller(h))
  BY <1>2, <1>5
<1>6. \/ \E v, k, board, caller : Begin(h, v, k, board, caller)
      \/ Settle(h) \/ EndSteps(Board(h)) \/ EndSteps(Caller(h))
  <2>1. ASSUME NEW v, NEW k, BeginReceive(h, v, k) \/ BeginSend(h, v, k)
        PROVE  Begin(h, v, k, "file", "init") \/ Begin(h, v, k, "init", "file")
    BY <2>1 DEF BeginReceive, BeginSend
  <2>2. QED
    BY <2>1 DEF LineSteps, Starts
<1>7. QED
  BY <1>3, <1>4, <1>5, <1>6

LEMMA OtherLineKept ==
  ASSUME ZmodemTypes, NEW h \in Lines, LineSteps(h), NEW g \in Lines, g # h,
         LineInv(g)
  PROVE  LineInv(g)'
<1>1. /\ Board(g) \in Ends /\ Caller(g) \in Ends /\ Board(g)[1] = g /\ Caller(g)[1] = g
      /\ Peer(Board(g)) = Caller(g) /\ Peer(Caller(g)) = Board(g)
  BY LineEnds
<1>2. \A e \in {Board(g), Caller(g)} :
        /\ e[1] = g /\ kind'[g] = kind[g] /\ what'[g] = what[g] /\ end'[e] = end[e]
        /\ frames'[e] = frames[e] /\ pos'[e] = pos[e]
  <2> SUFFICES ASSUME NEW e \in {Board(g), Caller(g)}
               PROVE  /\ e[1] = g /\ kind'[g] = kind[g] /\ what'[g] = what[g]
                      /\ end'[e] = end[e] /\ frames'[e] = frames[e] /\ pos'[e] = pos[e]
    OBVIOUS
  <2>1. e \in Ends /\ e[1] = g
    BY <1>1
  <2>2. /\ kind'[e[1]] = kind[e[1]] /\ what'[e[1]] = what[e[1]]
        /\ end'[e] = end[e] /\ frames'[e] = frames[e] /\ pos'[e] = pos[e]
    BY <2>1, BesideLine
  <2>3. QED
    BY <2>1, <2>2
<1>3. ASSUME NEW r \in {Board(g), Caller(g)}, Underway(r) PROVE Underway(r)'
  <2>1. r[1] = g /\ Peer(r)[1] = g /\ Peer(r) \in {Board(g), Caller(g)}
    BY <1>1, <1>3
  <2>2. /\ AllTaken(r)' = AllTaken(r) /\ ToCome(r)' = ToCome(r)
        /\ Port(Peer(r))' = Port(Peer(r))
    BY <1>2, <1>3, <2>1 DEF AllTaken, Size, ToCome, Mark, Port
  <2>3. /\ end'[r] = end[r] /\ end'[Peer(r)] = end[Peer(r)] /\ pos'[r] = pos[r]
        /\ frames'[r] = frames[r] /\ frames'[Peer(r)] = frames[Peer(r)]
    BY <1>2, <1>3, <2>1
  <2>4. /\ \A step : \A d \in {r, Peer(r)} : AtStep(d, step)' <=> AtStep(d, step)
        /\ \A s, t : Way(r, s, t)' <=> Way(r, s, t)
    BY <2>3 DEF AtStep, Way
  <2>5. QED
    BY <1>3, <2>2, <2>3, <2>4
       DEF Underway, InitComes, FileComes, OffsetComes, DataComes, AckComes, EofComes,
       Closed, Hangs, Frame, Offset
<1>4. QED
  BY <1>2, <1>3 DEF LineInv

LEMMA LinesKept ==
  ASSUME ZmodemTypes, NEW h \in Lines, LineSteps(h), \A g \in Lines : LineInv(g)
  PROVE  \A g \in Lines : LineInv(g)'
<1> SUFFICES ASSUME NEW g \in Lines PROVE LineInv(g)'
  OBVIOUS
<1>1. CASE g # h
  BY <1>1, OtherLineKept
<1>2. CASE g = h
  <2>1. /\ Board(h) \in Ends /\ Caller(h) \in Ends /\ Board(h) # Caller(h)
        /\ Board(h)[1] = h /\ Caller(h)[1] = h
        /\ Peer(Board(h)) = Caller(h) /\ Peer(Caller(h)) = Board(h)
    BY LineEnds
  <2>2. CASE EndSteps(Board(h)) \/ EndSteps(Caller(h))
    BY <1>2, <2>1, <2>2, EndStepGoes
  <2>3. CASE Settle(h)
    <3>1. end'[Board(h)] = "idle" /\ end'[Caller(h)] = "idle"
      BY <2>1, <2>3 DEF Settle, Both, ZmodemTypes
    <3>2. QED
      BY <1>2, <3>1 DEF LineInv
  <2>4. CASE \E v, k : BeginReceive(h, v, k)
    <3>1. /\ end'[Board(h)] = "file" /\ end'[Caller(h)] = "init"
          /\ frames'[Board(h)] = <<>> /\ frames'[Caller(h)] = <<Frame("ZRINIT")>>
      BY <2>1, <2>4 DEF BeginReceive, Begin, Both, ZmodemTypes
    <3>2. InitComes(Board(h))'
      BY <2>1, <3>1 DEF InitComes, AtStep, Way, Frame
    <3>3. QED
      BY <1>2, <3>2 DEF LineInv, Underway
  <2>5. CASE \E v, k : BeginSend(h, v, k)
    <3>1. /\ end'[Caller(h)] = "file" /\ end'[Board(h)] = "init"
          /\ frames'[Caller(h)] = <<>> /\ frames'[Board(h)] = <<Frame("ZRINIT")>>
      BY <2>1, <2>5 DEF BeginSend, Begin, Both, ZmodemTypes
    <3>2. InitComes(Caller(h))'
      BY <2>1, <3>1 DEF InitComes, AtStep, Way, Frame
    <3>3. QED
      BY <1>2, <3>2 DEF LineInv, Underway
  <2>6. QED
    BY <2>2, <2>3, <2>4, <2>5 DEF LineSteps, Starts
<1>3. QED
  BY <1>1, <1>2

\* Who writes to a file.
LEMMA WriterSteps ==
  ASSUME ZmodemTypes, NEW e \in Ends, LineInv(e[1]), EndSteps(e), ~OpenFile(e)
  PROVE  /\ what' = what /\ start' = start /\ alone' = alone
         /\ \A d \in Ends :
              /\ Receiving(d)' => Receiving(d)
              /\ Writing(d)' => Writing(d)
              /\ Fits(d)' => Fits(d)
<1>1. e[1] \in Lines /\ \A d \in Ends : d[1] \in Lines
  BY TwoEnds
<1>2. /\ what' = what /\ start' = start /\ alone' = alone
      /\ kind' = kind \/ kind' = [kind EXCEPT ![e[1]] = "odd"]
      /\ OtherProgram(e) => kind' = [kind EXCEPT ![e[1]] = "odd"]
  BY DEF EndSteps, TransferStep, OtherProgram, NoFile, TakeHeader, TakeSub,
     Swallow, WaitInit, TakeAnswer, WaitAny, Over, Breaks, SameFiles, SendNothing,
     Skip, AskAgain, Cancel, Odd
<1>3. \A d \in Ends : kind'[d[1]] # "odd" => kind[d[1]] # "odd"
  BY <1>1, <1>2 DEF ZmodemTypes
<1>4. \A d \in Ends \ {e} : end'[d] = end[d]
  BY EndStepAt
<1>5. ASSUME NEW d \in Ends PROVE Fits(d)' => Fits(d)
  BY <1>2, <1>3, <1>5 DEF Fits, Wanted
<1>6. ASSUME NEW d \in Ends \ {e}
      PROVE  (Receiving(d)' => Receiving(d)) /\ (Writing(d)' => Writing(d))
  BY <1>3, <1>4, <1>6 DEF Receiving, Writing
<1>7. \A step : end' = [end EXCEPT ![e] = step] => end'[e] = step
  BY DEF ZmodemTypes
<1>8. /\ end'[e] \in {"frame", "sub", "swallow"} =>
           end[e] \in {"frame", "sub", "swallow"}
      /\ end'[e] = "received" /\ kind'[e[1]] # "odd" =>
           end[e] \in {"frame", "sub", "swallow"}
  <2>1. CASE OtherProgram(e)
    <3>1. /\ end'[e] \in {"sent", "failed", "received"}
             \/ (end[e] = "sub" /\ end'[e] = "frame")
          /\ kind'[e[1]] = "odd"
      BY <1>1, <1>2, <1>7, <2>1 DEF OtherProgram, SendNothing, Skip, AskAgain, Cancel,
         Takes, Came, ZmodemTypes
    <3>2. QED
      BY <3>1
  <2>2. CASE NoFile(e) /\ ~OtherProgram(e)
    <3>1. kind' = kind /\ end[e] = "file" /\ end'[e] \in {"received", "file"}
      BY <1>7, <2>2 DEF NoFile, Came, Takes
    <3>2. ASSUME kind[e[1]] # "odd" PROVE FALSE
      <4>1. {e, Peer(e)} = {Board(e[1]), Caller(e[1])}
        BY TwoEnds, LineEnds
      <4>2. Underway(e) \/ Underway(Peer(e))
        BY <3>1, <3>2, <4>1 DEF LineInv
      <4>3. QED
        BY <2>2, <4>2, NoFileNever
    <3>3. QED
      BY <3>1, <3>2
  <2>3. CASE TakeHeader(e) \/ TakeSub(e) \/ Swallow(e)
    BY <2>3 DEF TakeHeader, TakeSub, Swallow, Came
  <2>4. CASE WaitInit(e)
    BY <1>7, <2>4 DEF WaitInit, Came, Takes
  <2>5. CASE TakeAnswer(e)
    <3>1. \E out, step : /\ step \in {"ack", "ready", "sent", "answer again", "failed"}
                         /\ Takes(e, out, step)
      BY <2>5 DEF TakeAnswer, Stream
    <3>2. end'[e] \in {"ack", "ready", "sent", "answer again", "failed"}
      BY <1>7, <3>1 DEF Takes
    <3>3. QED
      BY <3>2
  <2>6. CASE WaitAny(e)
    BY <1>7, <2>6 DEF WaitAny, Came, Takes
  <2>7. CASE Over(e) \/ Breaks(e)
    BY <1>7, <2>7 DEF Over, Breaks
  <2>8. QED
    BY <2>1, <2>2, <2>3, <2>4, <2>5, <2>6, <2>7 DEF EndSteps, TransferStep
<1>9. (Receiving(e)' => Receiving(e)) /\ (Writing(e)' => Writing(e))
  BY <1>8 DEF Receiving, Writing
<1>10. QED
  BY <1>2, <1>5, <1>6, <1>9

\* The beginning of a file, with the next piece behind it.
LEMMA NextPiece ==
  ASSUME NEW v \in Versions, NEW k \in Nat
  PROVE  /\ Content(v) \in Seq(Pieces) /\ Len(Content(v)) = Chunks[v]
         /\ k <= Chunks[v] => Len(SubSeq(Content(v), 1, k)) = k
         /\ k < Chunks[v] => Append(SubSeq(Content(v), 1, k), <<v, k + 1>>)
                              = SubSeq(Content(v), 1, k + 1)
         /\ SubSeq(Content(v), 1, Chunks[v]) = Content(v)
<1>1. PICK c \in Nat : c = Chunks[v]
  BY ZmodemAssumption
<1>2. PICK w : w = Content(v)
  OBVIOUS
<1>3. w = [i \in 1..c |-> <<v, i>>]
  BY <1>1, <1>2 DEF Content
<1>4. \A i \in 1..c : <<v, i>> \in Pieces
  BY <1>1 DEF Pieces
<1>5. /\ w \in Seq(Pieces) /\ Len(w) = c /\ \A i \in 1..c : w[i] = <<v, i>>
  <2>1. w \in Seq(Pieces)
    BY <1>1, <1>3, <1>4
  <2>2. Len(w) = c
    BY <1>1, <1>3
  <2>3. QED
    BY <1>3, <2>1, <2>2
<1>6. \A n \in 0..c : /\ SubSeq(w, 1, n) \in Seq(Pieces) /\ Len(SubSeq(w, 1, n)) = n
                      /\ \A i \in 1..n : SubSeq(w, 1, n)[i] = w[i]
  <2> SUFFICES ASSUME NEW n \in 0..c
               PROVE  /\ SubSeq(w, 1, n) \in Seq(Pieces) /\ Len(SubSeq(w, 1, n)) = n
                      /\ \A i \in 1..n : SubSeq(w, 1, n)[i] = w[i]
    OBVIOUS
  <2>1. /\ 1 \in Int /\ n \in Int /\ \A i \in 1..n : w[i] \in Pieces
    BY <1>1, <1>5, ElementOfSeq
  <2>2. /\ SubSeq(w, 1, n) \in Seq(Pieces)
        /\ Len(SubSeq(w, 1, n)) = IF 1 <= n THEN n - 1 + 1 ELSE 0
        /\ \A i \in 1..(n - 1 + 1) : SubSeq(w, 1, n)[i] = w[1 + i - 1]
    BY <2>1, SubSeqProperties
  <2>3. n - 1 + 1 = n /\ \A i \in 1..n : 1 + i - 1 = i
    BY <2>1
  <2>4. n \in Nat
    BY <1>1
  <2>5. QED
    BY <2>2, <2>3, <2>4
<1>7. ASSUME k < c PROVE Append(SubSeq(w, 1, k), <<v, k + 1>>) = SubSeq(w, 1, k + 1)
  <2>1. k \in 0..c /\ k + 1 \in 0..c /\ k + 1 \in 1..c
    BY <1>1, <1>7
  <2> DEFINE s == SubSeq(w, 1, k)
             t == SubSeq(w, 1, k + 1)
  <2>2. /\ s \in Seq(Pieces) /\ Len(s) = k /\ \A i \in 1..k : s[i] = w[i]
        /\ t \in Seq(Pieces) /\ Len(t) = k + 1 /\ \A i \in 1..(k + 1) : t[i] = w[i]
        /\ <<v, k + 1>> \in Pieces /\ w[k + 1] = <<v, k + 1>>
    BY <1>4, <1>5, <1>6, <2>1
  <2> HIDE DEF s, t
  <2>3. /\ Append(s, <<v, k + 1>>) \in Seq(Pieces)
        /\ Len(Append(s, <<v, k + 1>>)) = k + 1
        /\ \A i \in 1..k : Append(s, <<v, k + 1>>)[i] = s[i]
        /\ Append(s, <<v, k + 1>>)[k + 1] = <<v, k + 1>>
    BY <2>2, AppendProperties
  <2>4. \A i \in 1..(k + 1) : Append(s, <<v, k + 1>>)[i] = t[i]
    BY <2>2, <2>3
  <2>5. Append(s, <<v, k + 1>>) = t
    BY <2>2, <2>3, <2>4, SeqEqual
  <2>6. QED
    BY <2>5 DEF s, t
<1>8. SubSeq(w, 1, c) = w
  BY <1>5, SubSeqFull
<1>9. k <= c => k \in 0..c
  BY <1>1
<1>10. QED
  BY <1>1, <1>2, <1>5, <1>6, <1>7, <1>8, <1>9

\* A transfer that begins, or is settled.
LEMMA StartsWhat ==
  ASSUME ZmodemTypes, NEW h \in Lines, Starts(h), NEW d \in Ends
  PROVE  /\ d[1] = h => ~Receiving(d)' /\ ~Writing(d)'
         /\ d[1] # h =>
              /\ Receiving(d)' = Receiving(d) /\ Writing(d)' = Writing(d)
              /\ Fits(d)' => Fits(d)
              /\ what'[d[1]] = what[d[1]] /\ pos'[d] = pos[d]
              /\ alone'[d] => alone[d]
              /\ file'[Dir(d)] = file[Dir(d)]
<1>1. LineSteps(h)
  BY DEF LineSteps
<1>2. CASE d[1] = h
  <2>1. d = Board(h) \/ d = Caller(h)
    BY <1>2, TwoEnds
  <2>2. end'[d] \in {"file", "init", "idle"}
    BY <2>1, LineEnds
       DEF Starts, BeginReceive, BeginSend, Begin, Settle, Both, ZmodemTypes
  <2>3. QED
    BY <1>2, <2>2 DEF Receiving, Writing
<1>3. CASE d[1] # h
  <2>1. /\ kind'[d[1]] = kind[d[1]] /\ what'[d[1]] = what[d[1]]
        /\ end'[d] = end[d] /\ pos'[d] = pos[d]
        /\ start'[d] = start[d] /\ (alone'[d] => alone[d])
    BY <1>1, <1>3, BesideLine
  <2>2. Dir(d) # h /\ Dir(d) \in Directories
    BY <1>3, TwoEnds, ZmodemAssumption DEF Dir
  <2>3. \E f : file' = [file EXCEPT ![h] = f]
    BY DEF Starts, BeginReceive, BeginSend, Begin, Settle
  <2>4. file'[Dir(d)] = file[Dir(d)]
    BY <2>2, <2>3 DEF ZmodemTypes
  <2>5. Fits(d)' => Fits(d)
    BY <2>1 DEF Fits, Wanted
  <2>6. Receiving(d)' = Receiving(d) /\ Writing(d)' = Writing(d)
    BY <2>1 DEF Receiving, Writing
  <2>7. QED
    BY <1>3, <2>1, <2>4, <2>5, <2>6
<1>4. QED
  BY <1>2, <1>3

\* One who opens a file.
LEMMA OpensWhat ==
  ASSUME ZmodemTypes, NEW e \in Ends, OpenFile(e)
  PROVE  /\ kind' = kind /\ what' = what /\ file' = file
         /\ end[e] = "file" /\ \A d \in Ends \ {e} : end'[d] = end[d]
         /\ pos'[e] = Len(file[Dir(e)]) /\ start'[e] = file[Dir(e)]
         /\ \A d \in Ends \ {e} : pos'[d] = pos[d] /\ start'[d] = start[d]
         /\ alone'[e] =>
              \A g \in Ends \ {e} : Dir(g) = Dir(e) => ~Receiving(g)
         /\ \A d \in Ends \ {e} :
              alone'[d] => alone[d] /\ (Dir(d) = Dir(e) => end[d] = "idle")
<1>1. end' = [end EXCEPT ![e] = "frame"]
  BY DEF OpenFile, Takes
<1>2. QED
  BY <1>1 DEF OpenFile, Came, ZmodemTypes

LEMMA WritersKept ==
  ASSUME ZmodemTypes, \A g \in Lines : LineInv(g), \A d \in Ends : SoleWriter(d),
         NEW h \in Lines, LineSteps(h), NEW d \in Ends
  PROVE  SoleWriter(d)'
<1> SUFFICES ASSUME alone'[d], Writing(d)', NEW x \in Ends \ {d}, Dir(x) = Dir(d),
                    Receiving(x)'
             PROVE  FALSE
  BY DEF SoleWriter, Dir, Board, Receiving
<1>1. \A y \in Ends : y[1] \in Lines
  BY TwoEnds
<1>2. ASSUME alone[d], Writing(d), Receiving(x) PROVE FALSE
  BY <1>2 DEF SoleWriter
<1>3. CASE Starts(h)
  BY <1>2, <1>3, StartsWhat
<1>4. ASSUME NEW e \in Ends, EndSteps(e), ~OpenFile(e) PROVE FALSE
  <2>1. LineInv(e[1])
    BY <1>1
  <2>2. alone[d] /\ Writing(d) /\ Receiving(x)
    BY <1>4, <2>1, WriterSteps
  <2>3. QED
    BY <1>2, <2>2
<1>5. ASSUME NEW e \in Ends, OpenFile(e) PROVE FALSE
  <2>1. CASE d = e
    BY <1>5, <2>1, OpensWhat DEF Receiving
  <2>2. CASE d # e
    <3>1. end'[d] = end[d] /\ alone[d] /\ (Dir(d) = Dir(e) => end[d] = "idle")
      BY <1>5, <2>2, OpensWhat
    <3>2. Writing(d)
      BY <1>5, <3>1, OpensWhat DEF Writing, Receiving
    <3>3. Dir(d) # Dir(e)
      BY <3>1, <3>2 DEF Writing, Receiving
    <3>4. Receiving(x)
      BY <1>5, <3>3, OpensWhat DEF Receiving
    <3>5. QED
      BY <1>2, <3>1, <3>2, <3>4
  <2>3. QED
    BY <2>1, <2>2
<1>6. QED
  BY <1>3, <1>4, <1>5, LineEnds DEF LineSteps

LEMMA DataKept ==
  ASSUME ZmodemTypes, \A g \in Lines : LineInv(g),
         \A d \in Ends : SoleWriter(d) /\ DataInv(d),
         NEW h \in Lines, LineSteps(h), NEW d \in Ends
  PROVE  DataInv(d)'
<1> SUFFICES ASSUME Fits(d)', Writing(d)'
             PROVE  (pos[d] <= Size(d) /\ file[Dir(d)] = SubSeq(Wanted(d), 1, pos[d]))'
  BY DEF DataInv
<1>1. \A y \in Ends : y[1] \in Lines /\ Dir(y) \in Directories
  BY TwoEnds
<1>2. ASSUME Fits(d), Writing(d), pos'[d] = pos[d], what'[d[1]] = what[d[1]],
             file'[Dir(d)] = file[Dir(d)]
      PROVE  (pos[d] <= Size(d) /\ file[Dir(d)] = SubSeq(Wanted(d), 1, pos[d]))'
  <2>1. pos[d] <= Size(d) /\ file[Dir(d)] = SubSeq(Wanted(d), 1, pos[d])
    BY <1>2 DEF DataInv
  <2>2. Size(d)' = Size(d) /\ Wanted(d)' = Wanted(d) /\ Dir(d)' = Dir(d)
    BY <1>2 DEF Size, Wanted, Dir, Board
  <2>3. QED
    BY <1>2, <2>1, <2>2
<1>3. CASE Starts(h)
  BY <1>2, <1>3, StartsWhat
<1>4. ASSUME NEW e \in Ends, EndSteps(e), ~OpenFile(e), ~TakeSub(e)
      PROVE  (pos[d] <= Size(d) /\ file[Dir(d)] = SubSeq(Wanted(d), 1, pos[d]))'
  <2>1. file' = file /\ pos' = pos
    BY <1>4 DEF EndSteps, TransferStep, OtherProgram, NoFile, TakeHeader, Swallow,
       WaitInit, TakeAnswer, WaitAny, Over, Breaks, SameFiles, SendNothing, Skip,
       AskAgain, Cancel, Odd
  <2>2. LineInv(e[1])
    BY <1>1
  <2>3. Fits(d) /\ Writing(d) /\ what' = what
    BY <1>4, <2>2, WriterSteps
  <2>4. QED
    BY <1>2, <2>1, <2>3
<1>5. ASSUME NEW e \in Ends, TakeSub(e)
      PROVE  (pos[d] <= Size(d) /\ file[Dir(d)] = SubSeq(Wanted(d), 1, pos[d]))'
  <2>1. EndSteps(e) /\ ~OpenFile(e) /\ end[e] = "sub"
    BY <1>5 DEF EndSteps, TransferStep, OpenFile, TakeSub, Came
  <2>2. LineInv(e[1])
    BY <1>1
  <2>3. Fits(d) /\ Writing(d) /\ what' = what
    BY <2>1, <2>2, WriterSteps
  <2>4. CASE d # e
    <3>1. Dir(d) # Dir(e)
      BY <2>1, <2>3, <2>4 DEF SoleWriter, Fits, Receiving
    <3>2. pos'[d] = pos[d] /\ file'[Dir(d)] = file[Dir(d)]
      BY <1>1, <1>5, <2>4, <3>1, WritesWhat
    <3>3. QED
      BY <1>2, <2>3, <3>2
  <2>5. CASE d = e
    <3>1. pos[e] <= Size(e) /\ file[Dir(e)] = SubSeq(Wanted(e), 1, pos[e])
      BY <2>3, <2>5 DEF DataInv
    <3>2. PICK v \in Versions : v = what[e[1]]
      BY <1>1 DEF ZmodemTypes
    <3>3. PICK k \in Nat : k = pos[e]
      BY DEF ZmodemTypes
    <3>4. Underway(e) \/ Underway(Peer(e))
      <4>1. kind[e[1]] # "odd"
        BY <2>3, <2>5 DEF Fits
      <4>2. {e, Peer(e)} = {Board(e[1]), Caller(e[1])}
        BY TwoEnds, LineEnds
      <4>3. QED
        BY <2>1, <2>2, <4>1, <4>2 DEF LineInv
    <3>5. k + 1 <= Chunks[v] /\ First(e)[2] = <<v, k + 1>>
      BY <1>5, <3>2, <3>3, <3>4, TakeSubGoes DEF Size
    <3>6. PICK c \in Nat : c = Chunks[v]
      BY <3>2, ZmodemAssumption
    <3>7. k <= c /\ k < c
      BY <3>5, <3>6
    <3>8. /\ Len(file[Dir(e)]) = k
          /\ Append(file[Dir(e)], <<v, k + 1>>) = SubSeq(Content(v), 1, k + 1)
      BY <3>1, <3>2, <3>3, <3>6, <3>7, NextPiece DEF Wanted
    <3>9. /\ pos'[e] = k + 1
          /\ file'[Dir(e)] = SubSeq(Content(v), 1, k + 1)
      BY <1>5, <3>3, <3>5, <3>8, WritesWhat
    <3>10. Wanted(e)' = Content(v) /\ Size(e)' = Chunks[v] /\ Dir(e)' = Dir(e)
      BY <2>3, <3>2 DEF Wanted, Size, Dir, Board, Content
    <3>11. QED
      BY <2>5, <3>5, <3>9, <3>10
  <2>6. QED
    BY <2>4, <2>5
<1>6. ASSUME NEW e \in Ends, OpenFile(e)
      PROVE  (pos[d] <= Size(d) /\ file[Dir(d)] = SubSeq(Wanted(d), 1, pos[d]))'
  <2>1. CASE d # e
    <3>1. /\ pos'[d] = pos[d] /\ what' = what /\ file' = file /\ kind' = kind
          /\ start'[d] = start[d] /\ end'[d] = end[d] /\ (alone'[d] => alone[d])
      BY <1>6, <2>1, OpensWhat
    <3>2. Fits(d) /\ Writing(d)
      BY <3>1 DEF Fits, Writing, Receiving, Wanted
    <3>3. QED
      BY <1>2, <3>1, <3>2
  <2>2. CASE d = e
    <3>1. PICK f \in Seq(Pieces) : f = file[Dir(e)]
      BY <1>1 DEF ZmodemTypes
    <3>2. PICK v \in Versions : v = what[e[1]]
      BY <1>1 DEF ZmodemTypes
    <3>3. /\ pos'[e] = Len(f) /\ start'[e] = f /\ file'[Dir(e)] = f /\ what' = what
      BY <1>6, <3>1, OpensWhat
    <3>4. Wanted(e)' = Content(v) /\ Size(e)' = Chunks[v] /\ Dir(e)' = Dir(e)
      BY <3>2, <3>3 DEF Wanted, Size, Dir, Board, Content
    <3>5. IsPrefix(f, Content(v))
      BY <2>2, <3>3, <3>4 DEF Fits
    <3>6. /\ Len(f) <= Len(Content(v))
          /\ SubSeq(f, 1, Len(f)) = SubSeq(Content(v), 1, Len(f))
      BY <3>5 DEF IsPrefix
    <3>7. SubSeq(f, 1, Len(f)) = f
      BY SubSeqFull
    <3>8. Len(Content(v)) = Chunks[v]
      BY <3>2, NextPiece
    <3>9. QED
      BY <2>2, <3>3, <3>4, <3>6, <3>7, <3>8
  <2>3. QED
    BY <2>1, <2>2
<1>7. QED
  BY <1>3, <1>4, <1>5, <1>6, LineEnds DEF LineSteps

\* What Next does to the transfers.
ZmodemStep == UNCHANGED zmodem \/ \E h \in Lines : LineSteps(h)
LEMMA ZmodemSteps ==
  ASSUME [Next]_vars
  PROVE  ZmodemStep
<1> USE DEF ZmodemStep, LineSteps, Starts, EndSteps
<1>1. ASSUME NEW h \in Lines, BoardReads(h) \/ PortRuns(h) \/ OtherRuns(h)
      PROVE  ZmodemStep
  BY <1>1 DEF BoardReads, PortRuns, OtherRuns
<1>2. ASSUME NEW h \in Lines, Keys(h) \/ LineFails(h) PROVE ZmodemStep
  BY <1>2 DEF Keys, LineFails
<1>3. ASSUME NEW h \in Lines, Transfer(h) PROVE ZmodemStep
  BY <1>3 DEF Transfer
<1>4. ASSUME NEW h \in Lines, EndTransfer(h) PROVE ZmodemStep
  BY <1>4 DEF EndTransfer
<1> HIDE DEF LineSteps, Starts, EndSteps
<1>5. ASSUME NEW h \in Lines,
             \/ TakeControl(h) \/ LoginFails(h) \/ Arrive(h) \/ Answer(h)
             \/ EndLineEditor(h) \/ LogOff(h) \/ EndControl(h) \/ EndRow(h)
      PROVE  ZmodemStep
  BY <1>5 DEF TakeControl, LoginFails, Arrive, Answer, EndLineEditor, LogOff,
     EndControl, EndRow, rest
<1>6. ASSUME NEW h \in Lines,
             \/ Connect(h) \/ LogIn(h) \/ Choose(h) \/ EditKey(h)
             \/ EndScreenEditor(h) \/ SaveProfile(h) \/ ChangePassword(h)
      PROVE  ZmodemStep
  BY <1>6 DEF Connect, LogIn, Choose, EditKey, EndScreenEditor, SaveProfile,
     ChangePassword, rest
<1>7. ASSUME NEW h \in Lines,
             RunDoor(h) \/ EndDoor(h) \/ RunPPE(h) \/ EndPPE(h) \/ HangUp(h)
      PROVE  ZmodemStep
  BY <1>7 DEF RunDoor, EndDoor, RunPPE, EndPPE, HangUp, rest
<1>8. ASSUME NEW d \in WebDoors, DoorStep(d) PROVE ZmodemStep
  BY <1>8 DEF DoorStep, OpenWebDoor, RunWebDoor, EndWebDoor, CloseWebDoor, rest
<1>9. ASSUME NEW r \in Requests,
             \/ WebLogIn(r) \/ Page(r) \/ BindRow(r) \/ BindSession(r)
             \/ BindControl(r) \/ BindUpdate(r) \/ Touch(r) \/ TouchUpdate(r)
      PROVE  ZmodemStep
  BY <1>9 DEF WebLogIn, Page, BindRow, BindSession, BindControl, BindUpdate, Touch,
     TouchUpdate, rest
<1>10. ASSUME NEW r \in Requests,
              \/ Serve(r) \/ FormPassword(r) \/ FormSave(r) \/ LogOut(r)
              \/ ReleaseControl(r) \/ ReleaseRow(r) \/ Unbind(r) \/ Forget(r)
       PROVE  ZmodemStep
  BY <1>10 DEF Serve, FormPassword, FormSave, LogOut, ReleaseControl, ReleaseRow,
     Unbind, Forget, rest
<1>11. ASSUME NEW e \in Edits, AdminStep(e) PROVE ZmodemStep
  BY <1>11 DEF AdminStep, AdminDelete, AdminPassword, AdminRead, AdminSave, Edit, rest
<1>12. ASSUME NEW w \in Tokens, Expire(w) PROVE ZmodemStep
  BY <1>12 DEF Expire, rest
<1>13. ASSUME NEW i \in Ids, Kick(i) PROVE ZmodemStep
  BY <1>13 DEF Kick
<1>14. ASSUME NEW l \in Listings, List(l) PROVE ZmodemStep
  BY <1>14 DEF List, rest
<1>15. ASSUME UNCHANGED vars PROVE ZmodemStep
  BY <1>15 DEF vars, rest
<1>16. QED
  BY <1>1, <1>2, <1>3, <1>4, <1>5, <1>6, <1>7, <1>8, <1>9, <1>10, <1>11,
     <1>12, <1>13, <1>14, <1>15 DEF Next, LineStep, Command, WebStep

LEMMA TransfersBegin == Init => TransferInv
<1> SUFFICES ASSUME Init PROVE TransferInv
  OBVIOUS
<1>1. AnyVersion \in Versions
  BY ZmodemAssumption DEF AnyVersion
<1>2. <<>> \in Seq(Pieces) /\ <<>> \in Seq(AllFrames)
  OBVIOUS
<1>3. ZmodemTypes
  BY <1>1, <1>2 DEF Init, ZmodemInit, ZmodemTypes, Doings, Directories
<1>4. \A e \in Ends : end[e] = "idle"
  BY DEF Init, ZmodemInit
<1>5. ASSUME NEW h \in Lines PROVE LineInv(h)
  BY <1>4, LineEnds DEF LineInv
<1>6. ASSUME NEW e \in Ends PROVE SoleWriter(e) /\ DataInv(e)
  BY <1>4 DEF SoleWriter, DataInv, Writing, Receiving
<1>7. QED
  BY <1>3, <1>5, <1>6 DEF TransferInv

LEMMA TransfersGoOn == TransferInv /\ [Next]_vars => TransferInv'
<1> SUFFICES ASSUME TransferInv, [Next]_vars PROVE TransferInv'
  OBVIOUS
<1>1. CASE UNCHANGED zmodem
  <2>1. ZmodemTypes'
    BY <1>1 DEF zmodem, TransferInv, ZmodemTypes
  <2>2. ASSUME NEW r, Underway(r) PROVE Underway(r)'
    <3>1. /\ AllTaken(r)' = AllTaken(r) /\ ToCome(r)' = ToCome(r)
          /\ Port(Peer(r))' = Port(Peer(r))
      BY <1>1 DEF zmodem, AllTaken, Size, ToCome, Mark, Port
    <3>2. /\ \A d, step : AtStep(d, step)' <=> AtStep(d, step)
          /\ \A s, t : Way(r, s, t)' <=> Way(r, s, t)
      BY <1>1 DEF zmodem, AtStep, Way
    <3>3. QED
      BY <1>1, <2>2, <3>1, <3>2
         DEF zmodem, Underway, InitComes, FileComes, OffsetComes, DataComes, AckComes,
         EofComes, Closed, Hangs, Frame, Offset
  <2>3. \A h \in Lines : LineInv(h)'
    BY <1>1, <2>2 DEF zmodem, TransferInv, LineInv
  <2>4. \A e \in Ends : SoleWriter(e)'
    BY <1>1 DEF zmodem, TransferInv, SoleWriter, Writing, Receiving, Dir, Board
  <2>5. ASSUME NEW e \in Ends PROVE DataInv(e)'
    <3>1. /\ Fits(e)' = Fits(e) /\ Writing(e)' = Writing(e) /\ Size(e)' = Size(e)
          /\ Wanted(e)' = Wanted(e) /\ pos'[e] = pos[e] /\ file' = file
          /\ Dir(e)' = Dir(e)
      BY <1>1 DEF zmodem, Fits, Writing, Receiving, Size, Wanted, Dir, Board
    <3>2. QED
      BY <3>1 DEF TransferInv, DataInv
  <2>6. QED
    BY <2>1, <2>3, <2>4, <2>5 DEF TransferInv
<1>2. ASSUME NEW h \in Lines, LineSteps(h) PROVE TransferInv'
  <2>1. ZmodemTypes'
    BY <1>2, ZmodemTypesKept DEF TransferInv
  <2>2. \A g \in Lines : LineInv(g)'
    BY <1>2, LinesKept DEF TransferInv
  <2>3. \A e \in Ends : SoleWriter(e)'
    BY <1>2, WritersKept DEF TransferInv
  <2>4. \A e \in Ends : DataInv(e)'
    BY <1>2, DataKept DEF TransferInv
  <2>5. QED
    BY <2>1, <2>2, <2>3, <2>4 DEF TransferInv
<1>3. QED
  BY <1>1, <1>2, ZmodemSteps DEF ZmodemStep

LEMMA TransferMeans == TransferInv => TransferWhole
<1> SUFFICES ASSUME TransferInv PROVE TransferWhole
  OBVIOUS
<1> USE DEF TransferInv
<1>1. ASSUME NEW r \in Ends, end[r] = "received", Fits(r), AllTaken(r)
      PROVE  file[Dir(r)] = Wanted(r)
  <2>1. DataInv(r) /\ Writing(r)
    BY <1>1 DEF Writing, Fits
  <2>2. PICK v \in Versions : v = what[r[1]]
    BY TwoEnds DEF ZmodemTypes
  <2>3. PICK c \in Nat : c = Chunks[v]
    BY <2>2, ZmodemAssumption
  <2>4. pos[r] \in Nat /\ pos[r] <= c /\ pos[r] >= c
    BY <1>1, <2>1, <2>2, <2>3 DEF DataInv, AllTaken, Size, ZmodemTypes
  <2>5. pos[r] = c
    BY <2>3, <2>4
  <2>6. file[Dir(r)] = SubSeq(Content(v), 1, c)
    BY <1>1, <2>1, <2>2, <2>5 DEF DataInv, Wanted
  <2>7. QED
    BY <2>2, <2>3, <2>6, NextPiece DEF Wanted
<1>2. ASSUME NEW e \in Ends, kind[e[1]] # "odd", end[e] \in {"received", "sent"}
      PROVE  Underway(e) \/ Underway(Peer(e))
  <2>1. LineInv(e[1]) /\ {e, Peer(e)} = {Board(e[1]), Caller(e[1])}
    BY TwoEnds, LineEnds
  <2>2. QED
    BY <1>2, <2>1 DEF LineInv
<1>3. ASSUME NEW e \in Ends
      PROVE  Peer(e) \in Ends /\ Peer(Peer(e)) = e /\ Peer(e)[1] = e[1]
  BY TwoEnds
<1>4. ASSUME NEW e \in Ends, end[e] = "received", Fits(e)
      PROVE  file[Dir(e)] = Wanted(e)
  <2>1. Underway(e) \/ Underway(Peer(e))
    BY <1>2, <1>4 DEF Fits
  <2>2. Closed(e)
    BY <1>3, <1>4, <2>1 DEF Underway, InitComes, FileComes, OffsetComes,
       DataComes, AckComes, EofComes, Closed, Hangs, AtStep
  <2>3. QED
    BY <1>1, <1>4, <2>2 DEF Closed
<1>5. ASSUME NEW e \in Ends, end[e] = "sent", Fits(Peer(e))
      PROVE  file[Dir(Peer(e))] = Wanted(e)
  <2>1. Underway(e) \/ Underway(Peer(e))
    BY <1>2, <1>3, <1>5 DEF Fits
  <2>2. Closed(Peer(e))
    BY <1>3, <1>5, <2>1 DEF Underway, InitComes, FileComes, OffsetComes,
       DataComes, AckComes, EofComes, Closed, Hangs, AtStep
  <2>3. file[Dir(Peer(e))] = Wanted(Peer(e))
    BY <1>1, <1>3, <1>5, <2>2 DEF Closed
  <2>4. QED
    BY <1>3, <2>3 DEF Wanted
<1>6. QED
  BY <1>4, <1>5 DEF TransferWhole

\* Where the receiver or the sender of a file takes the transfer for complete
\* (internal/transfer/zmodem.go), the receiver has the whole file, also if it
\* was resumed, whatever the other lines do meanwhile.
THEOREM TransfersWhole == Spec => []TransferWhole
<1>1. QED
  BY TransferMeans, TransfersBegin, TransfersGoOn, PTL DEF Spec

=============================================================================
