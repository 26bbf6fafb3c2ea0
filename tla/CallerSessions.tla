--------------------------- MODULE CallerSessions ---------------------------
(***************************************************************************)
(* Who is on the board: terminal callers (internal/session/session.go),    *)
(* web sessions and their requests (internal/web/auth.go, nodes.go,        *)
(* handlers.go), doors played on the web (web/doors_handlers.go), the      *)
(* sysop's kicks and everybody's listings, over the node registry and the  *)
(* account they all work on.                                               *)
(*                                                                         *)
(* A caller is one call.  Its line goes down when it hangs up, a timer     *)
(* fires or it is kicked; from then on every read fails, which the menus   *)
(* take for an empty answer.  Who comes, and which commands callers give,  *)
(* is left open: Init chooses among the casts.  What the commands do to    *)
(* messages, files and networks is not here.                               *)
(***************************************************************************)
EXTENDS NodeRegistry, Accounts, Zmodem, FullScreenEditor

CONSTANTS
  Tokens,       \* web sessions
  WebDoors,     \* doors played on the web
  Requests,     \* requests of the web sessions
  LogIns,       \* those of them that log in
  Edits,        \* the sysop's requests about the account
  Casts         \* who comes (callers, web doors, requests, edits, listings)
                \* and where callers go (menus, editors, "door", "script")

ASSUME SessionsAssumption ==
  /\ Lines \cap Tokens = {} /\ Lines \cap WebDoors = {}
  /\ Tokens \cap WebDoors = {}
  /\ Holders = Lines \cup Tokens \cup WebDoors
  /\ Keepers = Lines \cup Requests \cup Edits /\ LogIns \subseteq Requests
  /\ Edits \cap (Lines \cup Requests) = {}

VARIABLES
  cast,
  place, line, node,    \* each caller and web door: where it is, its line and
                        \* the number it holds
  log,                  \* callers' log: what each caller's last entry says
  drop,                 \* whose drop file is in the directory of a number
  alive, bound,         \* web sessions: the entry exists, its node
  req, at, got,         \* requests: their session, how far, node in hand
  form,                 \* the sysop's requests: how far
  spoilt                \* web sessions deleted from outside, or logged out
                        \* while another of their requests ran

calls == <<place, line, node, log, drop>>
web   == <<alive, bound, req, at, got, form, spoilt>>
rest  == <<zmodem, ed, cast>>
vars  == <<registry, lists, contested, accounts, calls, web, rest>>

Players == Lines \cup WebDoors

Init ==
  /\ RegistryInit /\ AccountsInit /\ ZmodemInit /\ EditorInit /\ cast \in Casts
  /\ place = [p \in Players |-> "new"] /\ line = [p \in Players |-> "up"]
  /\ node = [p \in Players |-> NoNode] /\ log = [h \in Lines |-> "none"]
  /\ drop = [i \in Ids |-> Nobody]
  /\ alive = [w \in Tokens |-> FALSE] /\ bound = [w \in Tokens |-> NoNode]
  /\ req \in [Requests -> Tokens] /\ at = [r \in Requests |-> "new"]
  /\ got = [r \in Requests |-> NoNode] /\ form = [e \in Edits |-> "new"]
  /\ spoilt = {}

-----------------------------------------------------------------------------
(* A terminal caller: Run.                                                 *)

Go(p, to) == place' = [place EXCEPT ![p] = to]
Up(p) == line[p] = "up"

\* Whatever is written to the own row.
Show(h) == Update(node[h], h) /\ UNCHANGED <<row, ctrl>>

\* Mutant: the row goes before the control.
AfterRowFirst == [login |-> "row", logoff |-> "row", row |-> "control",
                  control |-> "gone"]

\* The deferred function: first the control, then the row.
After == [login |-> "control", logoff |-> "control", control |-> "row",
          row |-> "gone"]

Connect(h) ==
  /\ h \in cast /\ place[h] = "new" /\ Register(h)
  /\ node' = [node EXCEPT ![h] = FreeNode] /\ Go(h, "registered")
  /\ UNCHANGED <<ctrl, lists, contested, accounts, line, log, drop, web, rest>>

TakeControl(h) ==
  /\ place[h] = "registered" /\ RegisterControl(node[h], h) /\ Go(h, "login")
  /\ UNCHANGED <<row, shown, lists, contested, accounts, line, node, log, drop,
                 web, rest>>

LogIn(h) ==
  /\ place[h] = "login" /\ Up(h) /\ Authenticate(h) /\ Go(h, "arriving")
  /\ UNCHANGED <<registry, lists, contested, line, node, log, drop, web, rest>>

\* Three wrong passwords, or an empty name, which a dead line gives.
LoginFails(h) ==
  /\ place[h] = "login" /\ Go(h, After.login)
  /\ UNCHANGED <<registry, lists, contested, accounts, line, node, log, drop,
                 web, rest>>

Arrive(h) ==
  /\ place[h] = "arriving" /\ Show(h)
  /\ log' = [log EXCEPT ![h] = "login"] /\ Go(h, "main")
  /\ UNCHANGED <<lists, contested, accounts, line, node, drop, web, rest>>

-----------------------------------------------------------------------------
(* The menus.  Each is the function of its name: where an empty answer     *)
(* leads, and what it calls.  Those who only print are left out.           *)

\* Mutant: an empty command redraws the main menu.
mainMenuRedraws ==
  [back |-> "main",
   calls |-> {"messages", "files", "conferences", "talk", "doors", "script_path",
              "profile", "stats", "sysop"}]

mainMenu ==
  [back |-> "logoff",
   calls |-> {"messages", "files", "conferences", "talk", "doors", "script_path",
              "profile", "stats", "sysop"}]
messagesMenu ==
  [back |-> "main",
   calls |-> {"reading", "line_editor", "screen_editor", "qwk", "netmail"}]
\* The last of the messages it shows ends it like the letter Q.
readMessages ==
  [back |-> "messages", calls |-> {"line_editor", "screen_editor"}]
qwkMenu == [back |-> "messages", calls |-> {"qwk_transfer"}]
netmailMenu ==
  [back |-> "messages",
   calls |-> {"netmail", "netmail_line_editor", "netmail_screen_editor"}]
conferenceMenu == [back |-> "main", calls |-> {}]
filesMenu == [back |-> "main", calls |-> {"directory", "transfer"}]
\* browseDir, searchFiles, sysopEditFileDesc ask for a name.
browseDir == [back |-> "files", calls |-> {}]
\* downloadFile and uploadFile ask for a directory and a name first.
downloadFile == [back |-> "files", calls |-> {}]
downloadQwkPacket == [back |-> "qwk", calls |-> {}]
talkToNode == [back |-> "main", calls |-> {}]
profileMenu == [back |-> "main", calls |-> {"editor_choice", "application"}]
selectEditor == [back |-> "profile", calls |-> {}]
applyToJoinNetwork == [back |-> "profile", calls |-> {}]
showStats == [back |-> "main", calls |-> {}]
doorMenu == [back |-> "main", calls |-> {"door"}]
ppeMenu == [back |-> "main", calls |-> {"script"}]
sysopMenu == [back |-> "main", calls |-> {"kick", "new_conference", "fido"}]
sysopKickNode == [back |-> "sysop", calls |-> {}]
sysopCreateConference == [back |-> "sysop", calls |-> {}]
sysopFidoMenu ==
  [back |-> "sysop",
   calls |-> {"nodelist", "echo_flags", "address", "areafix", "filefix", "joins",
              "routing"}]
nodelistBrowser == [back |-> "fido", calls |-> {}]
echoFlagConference == [back |-> "fido", calls |-> {}]
\* fidoPing, fidoTrace and fidoFreq ask whom.
fidoPing == [back |-> "fido", calls |-> {}]
fidoAreaFixMenu == [back |-> "fido", calls |-> {"downlink"}]
fidoAddDownlink == [back |-> "areafix", calls |-> {}]
fidoFileFixMenu == [back |-> "fido", calls |-> {}]
fidoJoinRequestsMenu == [back |-> "fido", calls |-> {"approval"}]
fidoApproveJoinRequest == [back |-> "joins", calls |-> {}]
fidoRoutingTableMenu == [back |-> "fido", calls |-> {"member", "routes"}]
fidoEditMemberInfo == [back |-> "routing", calls |-> {}]
fidoRoutesMenu == [back |-> "routing", calls |-> {}]

Menu ==
  [main |-> mainMenu, messages |-> messagesMenu, reading |-> readMessages,
   qwk |-> qwkMenu, netmail |-> netmailMenu, conferences |-> conferenceMenu,
   files |-> filesMenu, directory |-> browseDir, transfer |-> downloadFile,
   talk |-> talkToNode, profile |-> profileMenu, application |-> applyToJoinNetwork,
   stats |-> showStats, doors |-> doorMenu, sysop |-> sysopMenu,
   kick |-> sysopKickNode, fido |-> sysopFidoMenu, nodelist |-> nodelistBrowser,
   address |-> fidoPing, areafix |-> fidoAreaFixMenu, downlink |-> fidoAddDownlink,
   filefix |-> fidoFileFixMenu, joins |-> fidoJoinRequestsMenu,
   approval |-> fidoApproveJoinRequest, routing |-> fidoRoutingTableMenu,
   member |-> fidoEditMemberInfo, routes |-> fidoRoutesMenu,
   qwk_transfer |-> downloadQwkPacket, editor_choice |-> selectEditor,
   script_path |-> ppeMenu, new_conference |-> sysopCreateConference,
   echo_flags |-> echoFlagConference]
Menus == DOMAIN Menu

\* Those that write themselves into the node's row.
Shows == {"main", "messages", "files", "sending", "receiving", "door", "script"}

Enter(h, to) ==
  /\ Go(h, to)
  /\ IF to \in Shows THEN Show(h) ELSE UNCHANGED registry

\* An empty answer: Enter, or a line that is down.
Answer(h) ==
  /\ place[h] \in Menus /\ Enter(h, Menu[place[h]].back)
  /\ UNCHANGED <<lists, contested, accounts, line, node, log, drop, web, rest>>

\* A command; doors and scripts have actions of their own.
Choose(h) ==
  /\ place[h] \in Menus /\ Up(h)
  /\ \E to \in (Menu[place[h]].calls \cap cast) \ {"door", "script"} :
       Enter(h, to)
  /\ UNCHANGED <<lists, contested, accounts, line, node, log, drop, web, rest>>

\* The line editor takes a failed read for the blank line that ends the
\* text.
EndLineEditor(h) ==
  /\ \/ place[h] = "line_editor" /\ Go(h, "messages")
     \/ place[h] = "netmail_line_editor" /\ Go(h, "netmail")
  /\ UNCHANGED <<registry, lists, contested, accounts, line, node, log, drop,
                 web, rest>>

Editors == {"screen_editor", "netmail_screen_editor"}

\* The screen editor waits for keys from its own reader, which ends at a
\* failed read and tells nobody.
EndScreenEditor(h) ==
  /\ Up(h)
  /\ \/ place[h] = "screen_editor" /\ Go(h, "messages")
     \/ place[h] = "netmail_screen_editor" /\ Go(h, "netmail")
  /\ ed' = Untouched
  /\ UNCHANGED <<registry, lists, contested, accounts, line, node, log, drop,
                 web, zmodem, cast>>

\* A key of the one caller whose text is followed.
EditKey(h) ==
  /\ "keys" \in cast /\ place[h] \in Editors /\ Up(h) /\ AnyKey
  /\ UNCHANGED <<registry, lists, contested, accounts, calls, web, zmodem, cast>>

\* profileMenu, selectEditor, recordFileUpload (in sysopScanFiles): the
\* whole row, from the copy of the login.
SaveProfile(h) ==
  /\ place[h] \in {"profile", "editor_choice", "sysop"} /\ Up(h)
  /\ UpdateUser(h, copy[h].deleted)
  /\ UNCHANGED <<registry, lists, contested, calls, web, rest>>

ChangePassword(h) ==
  /\ place[h] = "profile" /\ Up(h) /\ ~acct.deleted /\ SetPassword
  /\ UNCHANGED <<registry, lists, contested, calls, web, rest>>

\* downloadFile and uploadFile, with the program that the caller starts.
Transfer(h) ==
  /\ place[h] = "transfer" /\ Up(h)
  /\ \E v \in Versions \cap cast, k \in {"port", "other"} \cap cast :
       \/ "download" \in cast /\ BeginSend(h, v, k) /\ Enter(h, "sending")
       \/ "upload" \in cast /\ BeginReceive(h, v, k) /\ Enter(h, "receiving")
  /\ UNCHANGED <<lists, contested, accounts, line, node, log, drop, web, ed, cast>>

\* A whole upload is registered and recorded in the caller's row, from the
\* copy of the login.
EndTransfer(h) ==
  /\ place[h] \in {"sending", "receiving"} /\ Ended(Board(h))
  /\ IF end[Board(h)] = "received" THEN UpdateUser(h, copy[h].deleted)
     ELSE UNCHANGED accounts
  /\ Settle(h) /\ Enter(h, "files")
  /\ UNCHANGED <<lists, contested, line, node, log, drop, web, ed, cast>>

Aboard == <<registry, lists, contested, accounts, calls, web, ed, cast>>

\* The board's end reads what has come, also from a line that is down; the
\* program runs while the line is up.
BoardReads(h) == TransferStep(Board(h)) /\ UNCHANGED Aboard
PortRuns(h) ==
  Up(h) /\ kind[h] = "port" /\ TransferStep(Caller(h)) /\ UNCHANGED Aboard
OtherRuns(h) ==
  /\ Up(h) /\ kind[h] # "port" /\ (TransferStep(Caller(h)) \/ OtherProgram(Caller(h)))
  /\ UNCHANGED Aboard

\* The caller's next keys end a download.
Keys(h) == (Over(Board(h)) \/ Over(Caller(h))) /\ UNCHANGED Aboard
LineFails(h) ==
  ~Up(h) /\ (Breaks(Board(h)) \/ Over(Board(h))) /\ UNCHANGED Aboard

\* door.Run writes the drop file into the directory of the node's number.
DropFor(p) == drop' = [drop EXCEPT ![node[p]] = p]
RunDoor(h) ==
  /\ "door" \in cast /\ place[h] = "doors" /\ Up(h) /\ DropFor(h) /\ Enter(h, "door")
  /\ UNCHANGED <<lists, contested, accounts, line, node, log, web, rest>>

\* The door ends by itself, or when it writes to a line that is down; a PPE
\* script is like it, without a drop file.
EndDoor(h) ==
  /\ place[h] = "door" /\ drop' = [drop EXCEPT ![node[h]] = Nobody] /\ Show(h)
  /\ Go(h, "main")
  /\ UNCHANGED <<lists, contested, accounts, line, node, log, web, rest>>

RunPPE(h) ==
  /\ "script" \in cast /\ place[h] = "script_path" /\ Up(h)
  /\ Enter(h, "script")
  /\ UNCHANGED <<lists, contested, accounts, line, node, log, drop, web, rest>>

EndPPE(h) ==
  /\ place[h] = "script" /\ Show(h) /\ Go(h, "main")
  /\ UNCHANGED <<lists, contested, accounts, line, node, log, drop, web, rest>>

LogOff(h) ==
  /\ place[h] = "logoff" /\ log' = [log EXCEPT ![h] = "logoff"]
  /\ Go(h, After.logoff)
  /\ UNCHANGED <<registry, lists, contested, accounts, line, node, drop, web,
                 rest>>

EndControl(h) ==
  /\ place[h] = "control" /\ UnregisterControl(node[h])
  /\ Go(h, After.control)
  /\ UNCHANGED <<row, shown, lists, contested, accounts, line, node, log, drop,
                 web, rest>>

EndRow(h) ==
  /\ place[h] = "row" /\ Unregister(node[h]) /\ Go(h, After.row)
  /\ UNCHANGED <<ctrl, lists, contested, accounts, line, node, log, drop, web,
                 rest>>

\* What stands in an editor whose line is down is read by nobody again.
Disconnect(h) ==
  /\ line' = [line EXCEPT ![h] = "down"]
  /\ ed' = IF place[h] \in Editors THEN Untouched ELSE ed

\* The caller hangs up, is idle too long or has used up the call's time.
HangUp(h) ==
  /\ place[h] \notin {"new", "gone"} /\ Up(h) /\ Disconnect(h)
  /\ UNCHANGED <<registry, lists, contested, accounts, place, node, log, drop,
                 web, zmodem, cast>>

-----------------------------------------------------------------------------
(* A door on the web has a row of its own, and no control.                 *)

OpenWebDoor(d) ==
  /\ d \in cast /\ place[d] = "new" /\ Register(d)
  /\ node' = [node EXCEPT ![d] = FreeNode] /\ Go(d, "registered")
  /\ UNCHANGED <<ctrl, lists, contested, accounts, line, log, drop, web, rest>>

RunWebDoor(d) ==
  /\ place[d] = "registered" /\ Show(d) /\ DropFor(d) /\ Go(d, "door")
  /\ UNCHANGED <<lists, contested, accounts, line, node, log, web, rest>>

EndWebDoor(d) ==
  /\ place[d] = "door" /\ drop' = [drop EXCEPT ![node[d]] = Nobody] /\ Show(d)
  /\ Go(d, "row")
  /\ UNCHANGED <<lists, contested, accounts, line, node, log, web, rest>>

CloseWebDoor(d) ==
  /\ place[d] = "row" /\ Unregister(node[d]) /\ Go(d, "gone")
  /\ UNCHANGED <<ctrl, lists, contested, accounts, line, node, log, drop, web,
                 rest>>

-----------------------------------------------------------------------------
(* Web sessions.                                                           *)

Busy(r) == at[r] \notin {"new", "done"}
To(r, label) == at' = [at EXCEPT ![r] = label]
LoggingOut(r) == at[r] \in {"release", "release_row", "unbind", "forget"}

\* Requests of r's session beside r.
Beside(r) == {q \in Requests \ {r} : req[q] = req[r] /\ Busy(q)}

\* The browser has the token from the answer to its login.
HasToken(r) == r \in cast \ LogIns /\ Beside(r) \cap LogIns = {}

\* A page and a logout at once.
Race(r, others) ==
  spoilt' = spoilt \cup {w \in {req[r]} : \E q \in Beside(r) : others[q]}

\* Sessions.Delete.
Delete(w) ==
  /\ alive' = [alive EXCEPT ![w] = FALSE]
  /\ bound' = [bound EXCEPT ![w] = NoNode]

\* handleLogin.  A new session has a new token.
WebLogIn(r) ==
  /\ r \in cast \cap LogIns /\ at[r] = "new"
  /\ ~alive[req[r]] /\ req[r] \notin spoilt
  /\ \A q \in Requests \ {r} : req[q] = req[r] => at[q] = "new"
  /\ Authenticate(r) /\ alive' = [alive EXCEPT ![req[r]] = TRUE]
  /\ To(r, "bind")
  /\ UNCHANGED <<registry, lists, contested, calls, bound, req, got, form, spoilt,
                 rest>>

\* requireUser: a page of a session that exists, of an account not deleted.
Page(r) ==
  /\ HasToken(r) /\ at[r] = "new" /\ alive[req[r]] /\ Authenticate(r)
  /\ To(r, "bind") /\ Race(r, [q \in Requests |-> LoggingOut(q)])
  /\ UNCHANGED <<registry, lists, contested, calls, alive, bound, req, got, form,
                 rest>>

\* Where bindWebNode returns to.
Bound(r) == IF r \in LogIns THEN "done" ELSE "touch"

\* touchWebNode and handleLogin call bindWebNode, for a session without node.
BindRow(r) ==
  /\ at[r] = "bind"
  /\ IF bound[req[r]] # NoNode
     THEN To(r, Bound(r)) /\ UNCHANGED <<row, shown, got>>
     ELSE /\ Register(req[r]) /\ got' = [got EXCEPT ![r] = FreeNode]
          /\ To(r, "set")
  /\ UNCHANGED <<ctrl, lists, contested, accounts, calls, alive, bound, req,
                 spoilt, form, rest>>

BindSession(r) ==
  /\ at[r] = "set" /\ To(r, "control")
  /\ bound' = IF alive[req[r]] THEN [bound EXCEPT ![req[r]] = got[r]] ELSE bound
  /\ UNCHANGED <<registry, lists, contested, accounts, calls, alive, req, got,
                 spoilt, form, rest>>

BindControl(r) ==
  /\ at[r] = "control" /\ RegisterControl(got[r], req[r]) /\ To(r, "name")
  /\ UNCHANGED <<row, shown, lists, contested, accounts, calls, alive, bound, req,
                 got, form, spoilt, rest>>

BindUpdate(r) ==
  /\ at[r] = "name" /\ Update(got[r], req[r]) /\ To(r, Bound(r))
  /\ UNCHANGED <<row, ctrl, lists, contested, accounts, calls, alive, bound, req,
                 got, form, spoilt, rest>>

\* touchWebNode takes the number and then shows the user at it.
Touch(r) ==
  /\ at[r] = "touch" /\ got' = [got EXCEPT ![r] = bound[req[r]]]
  /\ To(r, IF bound[req[r]] = NoNode THEN "page" ELSE "update")
  /\ UNCHANGED <<registry, lists, contested, accounts, calls, alive, bound, req,
                 form, spoilt, rest>>

TouchUpdate(r) ==
  /\ at[r] = "update" /\ Update(got[r], req[r]) /\ To(r, "page")
  /\ UNCHANGED <<row, ctrl, lists, contested, accounts, calls, alive, bound, req,
                 got, form, spoilt, rest>>

\* The page itself.  handleProfile reads the account anew ...
Serve(r) ==
  /\ at[r] = "page"
  /\ \/ To(r, "done") /\ UNCHANGED accounts
     \/ To(r, "form") /\ GetUser(r)
  /\ UNCHANGED <<registry, lists, contested, calls, alive, bound, req, got, form,
                 spoilt, rest>>

\* ... sets a password, which checks the old one ...
FormPassword(r) ==
  /\ at[r] = "form" /\ ~acct.deleted /\ SetPassword
  /\ UNCHANGED <<registry, lists, contested, calls, web, rest>>

\* ... and writes the row.
FormSave(r) ==
  /\ at[r] = "form" /\ To(r, "done") /\ UpdateUser(r, copy[r].deleted)
  /\ UNCHANGED <<registry, lists, contested, calls, alive, bound, req, got, form,
                 spoilt, rest>>

\* The session's number is given up twice at once, or while another request
\* still files its control: the second may come when it is somebody else's.
Contest(r) ==
  contested' = contested \cup
    {i \in {bound[req[r]]} \ {NoNode} :
       \E q \in Beside(r) : LoggingOut(q) \/ at[q] = "control"}

\* Mutant: logging out only deletes the session.
LogOutOnly(r) ==
  /\ HasToken(r) /\ at[r] = "new" /\ alive[req[r]]
  /\ Race(r, [q \in Requests |-> TRUE]) /\ Contest(r)
  /\ got' = [got EXCEPT ![r] = bound[req[r]]]
  /\ To(r, "forget")
  /\ UNCHANGED <<registry, lists, accounts, calls, alive, bound, req, form, rest>>

\* handleLogout needs no login: the token is enough.  releaseWebNode ...
LogOut(r) ==
  /\ HasToken(r) /\ at[r] = "new" /\ alive[req[r]]
  /\ Race(r, [q \in Requests |-> TRUE]) /\ Contest(r)
  /\ got' = [got EXCEPT ![r] = bound[req[r]]]
  /\ To(r, IF bound[req[r]] = NoNode THEN "forget" ELSE "release")
  /\ UNCHANGED <<registry, lists, accounts, calls, alive, bound, req, form, rest>>

ReleaseControl(r) ==
  /\ at[r] = "release" /\ UnregisterControl(got[r]) /\ To(r, "release_row")
  /\ UNCHANGED <<row, shown, lists, contested, accounts, calls, alive, bound, req,
                 got, spoilt, form, rest>>

ReleaseRow(r) ==
  /\ at[r] = "release_row" /\ Unregister(got[r]) /\ To(r, "unbind")
  /\ UNCHANGED <<ctrl, lists, contested, accounts, calls, alive, bound, req, got,
                 spoilt, form, rest>>

Unbind(r) ==
  /\ at[r] = "unbind" /\ To(r, "forget")
  /\ bound' = [bound EXCEPT ![req[r]] = NoNode]
  /\ UNCHANGED <<registry, lists, contested, accounts, calls, alive, req, got,
                 spoilt, form, rest>>

\* ... and Sessions.Delete.
Forget(r) ==
  /\ at[r] = "forget" /\ Delete(req[r]) /\ To(r, "done")
  /\ UNCHANGED <<registry, lists, contested, accounts, calls, req, got, spoilt,
                 form, rest>>

\* UserID deletes a session that has expired.
Expire(w) ==
  /\ alive[w] /\ Delete(w) /\ spoilt' = spoilt \cup {w}
  /\ UNCHANGED <<registry, lists, contested, accounts, calls, req, at, got, form, rest>>

-----------------------------------------------------------------------------
(* The sysop's pages about the account: handleAdminUsers, and              *)
(* handleAdminUserEdit, which reads it and writes what the form says.      *)

Edit(e, from, to) == /\ form[e] = from /\ form' = [form EXCEPT ![e] = to]
                     /\ UNCHANGED <<registry, lists, contested, calls, alive,
                                    bound, req, at, got, spoilt, rest>>

AdminDelete(e) == e \in cast /\ Edit(e, "new", "done") /\ DeleteUser
AdminPassword(e) == e \in cast /\ Edit(e, "new", "done") /\ SetPassword
AdminRead(e) == e \in cast /\ Edit(e, "new", "open") /\ GetUser(e)
AdminSave(e) ==
  Edit(e, "open", "done") /\ \E del \in BOOLEAN : UpdateUser(e, del)

-----------------------------------------------------------------------------
\* KickNode: whoever the control belongs to loses its line or its session.
Kick(i) ==
  /\ ctrl[i] # Nobody
  /\ IF ctrl[i] \in Lines
     THEN Disconnect(ctrl[i]) /\ UNCHANGED <<alive, bound, spoilt>>
     ELSE /\ Delete(ctrl[i]) /\ spoilt' = spoilt \cup {ctrl[i]}
          /\ UNCHANGED <<line, ed>>
  /\ UNCHANGED <<registry, lists, contested, accounts, place, node, log, drop,
                 req, at, got, form, zmodem, cast>>

\* The numbers that somebody is on with: a caller or web door between its
\* first and its last step, a web session, a request that binds it.
IsOn(p) == place[p] \notin {"new", "gone"}
On == {node[p] : p \in {q \in Players : IsOn(q)}}
      \cup {bound[w] : w \in Tokens}
      \cup {got[r] : r \in {q \in Requests : Busy(q)}}

List(l) ==
  /\ l \in cast /\ (Snapshot(l) \/ Purge(l, On \ {NoNode}))
  /\ UNCHANGED <<accounts, calls, web, rest>>

-----------------------------------------------------------------------------
LineStep(h) ==
  \/ TakeControl(h) \/ LoginFails(h) \/ Arrive(h) \/ Answer(h)
  \/ EndLineEditor(h) \/ LogOff(h) \/ EndControl(h) \/ EndRow(h)
  \/ BoardReads(h) \/ EndTransfer(h) \/ LineFails(h)
Command(h) ==
  \/ Transfer(h) \/ PortRuns(h) \/ OtherRuns(h) \/ Keys(h)
  \/ Connect(h) \/ LogIn(h) \/ Choose(h) \/ EditKey(h) \/ EndScreenEditor(h)
  \/ SaveProfile(h) \/ ChangePassword(h) \/ RunDoor(h) \/ EndDoor(h) \/ RunPPE(h) \/ EndPPE(h)
  \/ HangUp(h)
DoorStep(d) ==
  OpenWebDoor(d) \/ RunWebDoor(d) \/ EndWebDoor(d) \/ CloseWebDoor(d)
WebStep(r) ==
  \/ WebLogIn(r) \/ Page(r) \/ BindRow(r) \/ BindSession(r)
  \/ BindControl(r) \/ BindUpdate(r) \/ Touch(r) \/ TouchUpdate(r)
  \/ Serve(r) \/ FormPassword(r) \/ FormSave(r)
  \/ LogOut(r) \/ ReleaseControl(r) \/ ReleaseRow(r) \/ Unbind(r)
  \/ Forget(r)
AdminStep(e) ==
  AdminDelete(e) \/ AdminPassword(e) \/ AdminRead(e) \/ AdminSave(e)

\* A panic ends the whole program.
Runs == ~ed.panicked

Next ==
  \/ \E h \in Lines : Runs /\ (LineStep(h) \/ Command(h))
  \/ \E d \in WebDoors : Runs /\ DoorStep(d)
  \/ \E r \in Requests : Runs /\ WebStep(r)
  \/ \E e \in Edits : Runs /\ AdminStep(e)
  \/ \E w \in Tokens : Runs /\ Expire(w)
  \/ \E i \in Ids : Runs /\ Kick(i)
  \/ \E l \in Listings : Runs /\ List(l)

Spec == Init /\ [][Next]_vars

\* The goroutine of a call runs.  A command, a door or a script may take for
\* ever, but no read waits once the line is down.  A port of Zmodem runs too.
Fairness ==
  \A h \in Lines :
    /\ WF_vars(Runs /\ (TakeControl(h) \/ Arrive(h) \/ LogOff(h)
                          \/ EndControl(h) \/ EndRow(h)))
    /\ WF_vars(Runs /\ ~Up(h)
               /\ (LoginFails(h) \/ Answer(h) \/ EndLineEditor(h)))
    /\ WF_vars(Runs /\ LineFails(h))
    /\ WF_vars(Runs /\ (BoardReads(h) \/ EndTransfer(h)))
    /\ WF_vars(Runs /\ PortRuns(h))
FairSpec == Spec /\ Fairness

-----------------------------------------------------------------------------
(* Type invariant; a drop file is only there while its door runs.          *)

TypeOK ==
  /\ RegistryTypeOK /\ AccountsTypeOK /\ ZmodemTypeOK /\ EditorTypeOK
  /\ cast \in Casts
  /\ line \in [Players -> {"up", "down"}]
  /\ node \in [Players -> Ids \cup {NoNode}]
  /\ log \in [Lines -> {"none", "login", "logoff"}]
  /\ drop \in [Ids -> Players \cup {Nobody}]
  /\ \A i \in Ids : drop[i] = Nobody \/ place[drop[i]] = "door"
  /\ alive \in [Tokens -> BOOLEAN] /\ bound \in [Tokens -> Ids \cup {NoNode}]
  /\ req \in [Requests -> Tokens] /\ got \in [Requests -> Ids \cup {NoNode}]
  /\ form \in [Edits -> {"new", "open", "done"}] /\ spoilt \subseteq Tokens

-----------------------------------------------------------------------------
(* Whose a number is.                                                      *)

\* A web session of which no request is at one of these points.
Rests(w, labels) == \A r \in Requests : req[r] = w => at[r] \notin labels

Number(p) == IF p \in Tokens THEN bound[p] ELSE node[p]
HasRow(p) ==
  IF p \in Tokens
  THEN bound[p] # NoNode /\ Rests(p, {"release_row", "unbind"})
  ELSE place[p] \notin {"new", "row", "control", "gone"}
HasControl(p) ==
  /\ HasRow(p) /\ p \notin WebDoors
  /\ IF p \in Tokens THEN Rests(p, {"control"}) ELSE place[p] # "registered"

\* Numbers are given again as soon as the highest row is gone.  Still, as
\* long as no listing took the row away under somebody, and no session gave
\* up the number twice, the row, the control and the drop file at a number
\* are those of the one who is on with it, and nobody else is shown there but
\* a web session that ended while one of its requests was still to show it.
OwnNode ==
  \A p \in Holders : HasRow(p) /\ Number(p) \notin contested =>
    /\ row[Number(p)] = p
    /\ shown[Number(p)] \in {Nobody, p} \cup spoilt
    /\ HasControl(p) => ctrl[Number(p)] = p
    /\ (p \in Players /\ place[p] = "door") => drop[Number(p)] = p

\* Nothing stays on the board of those who have left it: once nobody does
\* anything, every row and every control is that of a web session, which
\* still has the number, or was ended by the sysop, by its age or beside
\* another of its requests (each leaves the row and the control for ever).
Quiet ==
  (\A p \in Players : ~IsOn(p)) /\ (\A r \in Requests : ~Busy(r))
NothingLeft ==
  Quiet => \A i \in Ids : {row[i], ctrl[i]} \subseteq
             {Nobody} \cup spoilt \cup {w \in Tokens : bound[w] = i}

\* Where a caller whose line is down may stay for ever.
Stuck == Editors \cup {"door", "script"}

\* Between two ends of Zmodem as it is here, with something left to send.
Midway(h) ==
  /\ kind[h] = "port" /\ place[h] \in {"sending", "receiving"}
  /\ \E e \in {Board(h), Caller(h)} :
       end[e] = "frame" /\ pos[e] < Chunks[what[h]]

\* A caller whose line is down gets through all menus and transfers to the
\* end, and its log ends with a LOGOFF if it has a LOGIN, unless it is in the
\* screen editor, a door or a script, or the program panics.  While the line
\* is up, the ends of a transfer do not wait for each other for ever: the
\* board's gets to the two bytes that end a download, or further.
CallsEnd ==
  \A h \in Lines :
    /\ line[h] = "down" /\ place[h] \notin Stuck
         ~> (place[h] = "gone" /\ log[h] # "login") \/ ~Runs
    /\ Midway(h)
         ~> line[h] = "down" \/ end[Board(h)] = "over" \/ Ended(Board(h))

\* Writing the whole row takes back no password, and takes back a deletion
\* only if the writer read the account before it was deleted, or if the
\* sysop's form says so.
AccountSticks ==
  [][/\ acct'.pw >= acct.pw
     /\ acct.deleted /\ ~acct'.deleted =>
          \/ \E k \in old \ Edits : ~copy[k].deleted
          \/ \E e \in Edits : form[e] = "open" /\ form'[e] = "done"]_vars
=============================================================================
