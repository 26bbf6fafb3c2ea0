# A TLA+ model of VirtBBS

VirtBBS is a bulletin board system in Go: Telnet, SSH and web sessions over a
SQLite message base, and a complete FidoNet node (BinkP, packet toss and scan,
AreaFix, TIC, nodelists). This directory holds TLA+ modules translated from its
source, TLC configurations that check them on small instances, and proofs of
theorems about them that TLAPS checks. Paths below are relative to `src/`.

The mail pipeline comes first. It is where the program can lose or duplicate
what its users wrote, it runs in goroutines that nothing serialises (the
scheduler's tickers, one goroutine per BinkP connection, sysop menus, HTTP
handlers, the CLI), and its state - a database and some directories - survives
crashes that its control flow does not. The board itself follows: the chat hub,
the calls and web sessions with the nodes they hold, file transfers and the
editor on their lines, and the mail that callers take away and bring back.

## 1. Inventory

| Component | State it keeps | Operations | Interacts with | What is hard | What makes it correct |
|---|---|---|---|---|---|
| Echomail export (`internal/fido/scan.go`) | `fido_exported_at` of each message; `.pkt` files in the outbound directory | `ScanAll`, `ScanNetworkEcho`, `RescanEchoToDownlink` | message store, AreaFix subscriptions, BinkP sessions through the directory | packets visible while they are written, one mark for many destinations, concurrent scans, crashes | at-least-once, exactly once without faults, complete fan-out |
| BinkP sessions (`internal/fido/binkp.go`) | connection, file being received, files sent | `Poll`, `PollAndToss`, `ServeBinkP`/`binkpHandleIncoming` | peer, outbound and inbound directories, toss | frames in any order, restarts, lost connections, deadlines, other mailers | what is deleted has been taken; sessions end; everything gets across |
| Toss (`internal/fido/toss.go`, `orphan.go`, `packet.go`) | inbound, `.tossed` and `.holding` directories | `TossDir`, `tossFile`, `HoldOrphanMessage` | sessions through the directory, message store, responders | torn files, crash before the rename, duplicate check and insert apart, number races, failing responders | a message is filed once if its MSGID can be read, nothing acknowledged is lost, no request passes the responders by |
| Message store (`internal/messages/store.go`) | messages table | `Post`, `HasFidoMsgID`, `ListEcho`, `MarkExported`, ... | everybody | numbering by `MAX + 1` | numbers unique, no post lost |
| AreaFix (`internal/fido/areafix*.go`) | subscriptions, pause flags | subscribe, unsubscribe, rescan, list | toss, scan | replies to re-tossed requests | subscriptions follow the requests |
| Netmail queue and routing (`netmail.go`, `routes.go`, `nodelistdelivery.go`) | `fido_netmail` rows, packets, `.OUT` directories | `Enqueue`, `ScanNetmailQueue`, `RouteAddr` | polls, calling nodes, nodelist | packets visible while written, mark after the write, a directory or a tag that no session looks for | what is marked sent waits where a session finds it, and arrives |
| FileFix, TIC, file echoes (`filefix.go`, `filescan.go`, `tic*.go`) | catalog, `fido_file_exports`, subscriptions, payloads and tickets | `FileScan`, `RescanFilesToDownlink`, FileFix requests, `ProcessInboundTICs` | outbound directory, sessions | a ticket without its file, tags found as substrings, the mark after failed copies | every destination gets the file |
| File requests (`freq*.go`) | none | request, answer | sessions | | |
| Nodelists (`nodelist*.go`, `nodeannounce.go`) | nodelist tables and files, pending echo posts | import, generate, monitor, distribute | toss, scheduler, file areas | pending rows applied twice; a hub's list in every peer's queue and removed with the first (`binkp.go:597`) | latest list wins |
| Members (`members.go`, `web/admin_fido.go`, `session.go`) | join requests, members, the downlinks in the settings, subscriptions | apply, approve, deny | settings, AreaFix, downlink pages | four statements and a save without a transaction, two sysops at once, a restart between | who is approved has his password in the settings, gets the nodelist, and has an address of his own |
| Settings (`internal/config`, the pages, menus and robots that save) | `VirtBBS.DAT`, the copy in memory with its shared arrays and maps | load, get, save | everybody | whole-file saves from shallow copies, in-place changes, a file emptied before it is written | what was reported as saved stays, in memory and file |
| Scheduler (`internal/scheduler`) | tickers, stop channel | poll, rollover, fetch, traffic | sessions, nodelists, configuration | a blocked poll | each network keeps being polled |
| MRC hub (`internal/mrc`, `session/mrc.go`, `web/mrc_handlers.go`) | relay connection, attached users with their inboxes, settings in force and saved | supervisor, reader, `Attach`, `Detach`, `ApplyConfig`, `Stop`, save | callers, web users, the sysop's page, the relay | `h.mu` against channels, close against send, snapshots after a reconnect, two saves at once | nothing panics in the reader; nobody is left behind; nobody waits for ever; the relay catches up |
| Node registry (`internal/node`) | nodes table, controls in memory | register, update, unregister, list with purge, kick | sessions, web sessions, web doors | row numbers used again, purge against registration | a number is that of the one who is on with it |
| Sessions (`internal/session`, `internal/web/auth.go`, `nodes.go`) | line, menu, node, callers' log; web session, its node | connect to logoff; login, page, logout, expiry | registry, accounts, drop directories | dead lines, three requests creating and deleting one thing | a dead line ends its call; nothing stays on the board |
| Users (`internal/users`) | accounts | login, whole-row update, password, delete | sessions, pages | stale copies written back | no change taken back unnoticed |
| Zmodem (`internal/transfer`) | offset, file | send, receive, resume | terminal program, upload directory | who speaks next; what a resumed file began with | what is registered is whole; neither end waits for ever |
| Editors (`internal/editor`) | text, cursor, window, cut buffer; the terminal's rows | keys | the caller's terminal | partial redraws, clipped cursors | the screen shows the text; keys change it at the cursor only |
| QWK, user API, VirtAnd (`internal/qwk`, `internal/userapi`, `android/VirtAnd`) | marks of what was given, reply queue, pending reads | sync, post, mark, delete; packets out and replies in | message store, device | marks moved before the answer arrives, whole batches retried, two syncs at once | nothing skipped, nothing posted twice, reads reported |
| Rest (Telnet/SSH accept loops, doors' processes, PPL, ANSI, conferences, companion programs) | little that is shared | | | | |

`PROJECT.json` lists these components with their status, and under `hazards`
what can go wrong in each at its line, with the properties that watch it or the
reason why none does yet.

## 2. Modules

| Module | Models | Extends or uses |
|---|---|---|
| `EchoDelivery` | the abstract promise of the export: a message goes from posted to packed to taken | |
| `EchoExport` | scan, outbound directory, and the sessions as far as they send and delete packets | `EchoDelivery` by INSTANCE |
| `MCEchoExport` | values for TLC | `EchoExport` |
| `EchoExportProofs` | theorems | `EchoExport`, TLAPS |
| `Toss` | receiving into the inbound directory, toss, message numbering, holding | |
| `MCToss` | values for TLC | `Toss` |
| `TossProofs` | theorems | `Toss`, TLAPS |
| `BinkpSession` | both ends of a BinkP session frame by frame, dialled again and again | |
| `MCBinkp` | values for TLC | `BinkpSession` |
| `BinkpProofs` | theorems | `BinkpSession`, TLAPS |
| `OutboundDir` | a network's outbound directory: names, tags, `.OUT` directories, what a session is given | |
| `NetmailQueue` | queued netmail, its route, its packet, its mark | `OutboundDir` |
| `FileEchoes` | file scan, rescan, FileFix subscriptions, tickets, the receiver | `OutboundDir` |
| `Outbound` | polls and calling nodes over both | `NetmailQueue`, `FileEchoes` |
| `MCOutbound` | values and casts for TLC | `Outbound` |
| `OutboundProofs` | theorems | `Outbound`, TLAPS |
| `SettingsFile` | `VirtBBS.DAT`, the copy in memory, what copies share, a save in its steps | |
| `Membership` | who saves settings: approvals, downlinks, areas, networks, the BBS | `SettingsFile` |
| `MrcHub` | the chat hub with callers, web users, settings page and relay; whole program for the settings | `Membership` |
| `MCMrcHub` | casts for TLC | `MrcHub` |
| `MrcHubProofs` | theorems, those about saves included | `MrcHub`, TLAPS |
| `NodeRegistry` | nodes table and controls | |
| `Accounts` | one account and the copies of it | |
| `Zmodem` | both ends of a transfer on each line | |
| `FullScreenEditor` | the screen editor and its terminal | |
| `EditorProofs` | theorems about the screen editor | `FullScreenEditor`, TLAPS |
| `CallerSessions` | calls, web sessions, doors, the sysop | `NodeRegistry`, `Accounts`, `Zmodem`, `FullScreenEditor` |
| `MCCallerSessions` | values and casts for TLC | `CallerSessions` |
| `CallerProofs` | theorems about numbers, the account and transfers | `CallerSessions`, TLAPS |
| `OfflineMail` | VirtAnd's sync and QWK/REP packets with the server | |
| `MCOfflineMail` | casts for TLC | `OfflineMail` |
| `OfflineProofs` | theorems | `OfflineMail`, TLAPS |

The mail systems meet in the directories. `EchoExport` abstracts a session to
"send what the file holds now, then delete"; `BinkpSession` is what justifies
that (`RemovedWasTaken`: what is deleted has been taken). `BinkpSession`
abstracts a toss to "everything in the inbound directory is taken, whole or
partial"; `Toss` says what then becomes of it. `Outbound` keeps of a session
what `EchoExport` does, and adds how it is chosen which files are whose.

`CallerSessions` is the composition on the board's side: each of its actions
conjoins the operators of the registry, the account, the transfer and the editor
that the function in the code calls.

### EchoExport

An *actor* is a goroutine. `Kind` says what it runs: `poll` (`PollAndToss`: scan,
list, send, delete), `scan` (`ScanAll` from a menu, the API or the CLI) or `serve`
(`binkpHandleIncoming` after the caller's batch). A step is one database statement
or one file operation.

| State | In the code |
|---|---|
| `posted`, `exported`, `subs` | rows with `echo=1`; `fido_exported_at`; `fido_areafix_subs` without the paused |
| `disk`, `used`, `dest`, `body` | files in `OutboundDir`; every file created; the address in the name; what is written so far |
| `todo`, `bucket`, `cur`, `rest` | `msgs`, `buckets`, `f`/`pktName`, loop positions of `scanNetwork` |
| `queue`, `sent` | `outFiles`; `pollResult.Sent` and the server's `sent` |
| `owed`, `delivered` | history: fan-out so far; what each destination has |

`Crash` forgets everything but the database and the directory. Addresses are
atomic here: the tag matching of `filterTaggedOutbound` is the equality of
addresses. Not modelled: the limit of 500 rows per listing (the rest goes with
the next scan), deletion of a message before its export, a failing subscription
query, rescans, per-conference uplinks.

### Toss

An actor takes sessions with one peer and tosses after each that succeeds, or
tosses on a sysop's order. A packet is a sequence of messages; a session writes
them one by one, so that a toss can find any part of it, and the last message
found may be cut off (`ReadPacket` takes strings and a body without their final NUL
as they are). `Cuts` says what is read of such a message. If it ends in the names, the
subject or before the area line, it is netmail without an MSGID, filed or held as the
header is addressed, and a request only if what there is of the header reads like one.
If it ends in the area line, the rest of a tag may name another area or none. If it
ends in the body behind that, all of its MSGID may be there, a part, or nothing. A copy
that the check does not know by its whole MSGID is a message of its own: the whole
copy, when it comes, is filed beside it. Two things are assumed of the mail: the
`AREA:` line comes before the MSGID, and no MSGID is the beginning of another.

`Respond`, `RespondFails`, `Hold`, `Skip`, `NotFiled`, `Number`, `Insert`,
`InsertFails` and `Rename` are the steps of `tossFile` and `TossDir` in the order of
the code; `Number` and `Insert` are the two statements of `Post`, in the message's
conference. Of the responders there is their position in that order, and that each may
return an error (no uplink, a reply packet that cannot be written), which the toss adds
to its list before it files the request like any other: `answered` and `noted` are the
requests of both kinds. Not modelled: TICs, attachments, the notice to the sysop, what
responders do.

### BinkpSession

The caller runs `Poll`, the answerer `binkpHandleIncoming`; each may instead be
another mailer, which is external and modelled from what the code says of binkd
and Synchronet: it sends while it receives, may skip a file, ask for another
offset, say at once that it has the file, break off or fall silent. `Settings`
gives the pairs of such an end and of the caller's standing (unknown address, no
password wanted, right, wrong). A step reads or writes one frame; a data frame
is one unit of a file; a session ends with `os.Remove` of what was sent and
with the toss. `Dial` starts the next session. `armed` is the read deadline,
which `pollOutboundCtrl` clears. Not modelled: FREQ by `M_GET`, `M_BSY`, a frame
cut by the 200 ms window, disk errors while receiving.

### Outbound

| State | In the code |
|---|---|
| `present`, `whole` | files in the outbound directory; those completely written |
| `row`, `recorded` | `fido_netmail`, the copies for the board's own threads |
| `rows`, `letter`, `step` | the loop of `ScanNetmailQueue` |
| `catalog`, `exported`, `subs` | files of the area, `fido_file_exports`, `fido_filefix_subs` |
| `todoTics`, `toMark`, `copying`, `doing` | `writeTICItemsForDest` and its caller |
| `at`, `todo`, `sent` | a poll or a call: what it was given, what it has sent |
| `inbox`, `installed` | the peers' side (`ProcessInboundTICs`) |

A name's tag is the address it holds; `Lookalike` are the pairs of addresses of
which one contains the other, since `strings.Contains` is how a session looks for
tags. `cast` is a configuration (uplink or none, downlinks, routes, held nodes)
with what is posted in it and who is at work. Removing the sent files is one step.
Not modelled: nodelist files that `binkpOutboundFilesFor` adds for a hub's peers,
packets that robots and the terminal's compose write themselves, attachments, a
file replaced between its CRC and its copy, names that collide because two files
are written in the same instant, `FileFix`'s replies.

### SettingsFile and Membership

| State | In the code |
|---|---|
| `current`, `file` | `config.current`; `VirtBBS.DAT`, with `Torn` for one emptied and not yet written |
| `nets`, `slices`, `areas` | what shallow copies share: arrays of networks, lists of downlinks (their order left out), the map of areas |
| `saver`, `mine` | where a save is (`merged`: before the lock of `Save`; `writing`: between `os.Create` and the assignment of `current`) and its copy |
| `since`, `lost`, `failed` | history: saves that ended since a copy was taken, saves overwritten so, saves that failed |
| `cast`, `step`, `decides`, `node` | one of `Kinds` for each who comes, how far it is, the request and the address it is about |
| `joinRequests`, `members`, `subs` | `fido_join_requests`, `fido_members`, `fido_areafix_subs` for the nodelist's area |

A settings value is a record of an MRC section, a BBS section and a reference into the
heap: copying it is `merged := *config.Get()`, and the difference between the operators
`MergeLinks` (new list in a new array), `MergePage` (in the array in force),
`MergePassword` (in the list in force) and `MergeAreas` (in the one map there is) is the
difference between the functions in the code. `Open` empties the file, `Encode` writes
what the copy refers to *then*, so that a change made in place meanwhile is in it.
An approval is the four statements of the page or menu and of `ApproveJoinRequest` and the save
between them. `Reload` is a restart; a file that is `Torn` then ends everything (`down`), and so may
a map that is written while it is encoded. Simplified: one network, which is not the
primary one; one file for each section; the terminal's menus and the pages are one
kind where they do the same. Not modelled: a net's Host with its alias and
default route, the members' other columns, the welcome announcement and the nodelist
after an approval, file areas (as areas), node flags (as downlinks).

### MrcHub

The supervisor (`run`, `pc`), the reader of the relay's packets, each attachment
with its user's goroutine (`phase`), and each request to the settings page are
processes; a step ends where `h.mu` is taken or let go, at a channel operation or
at a write to the relay. `inbox` counts events (what they say is left out),
`applyCh` is the one-slot channel with its replace-the-old idiom, `view` is what
the relay believes, which is external. An attachment is used once: who comes back
makes a new one. Saves go through `SettingsFile`; `floor` is the version of the last
save that ran alone. In casts where nobody chats the hub waits, off, and the module is the
whole program around `Membership`. Not modelled: chat text, nick lists, topics, the handshake's
contents, preferences.

### CallerSessions, NodeRegistry, Accounts

A caller is one call: `place` is where its goroutine is, `line` whether reads
still succeed. The menus are one table, `Menu`: for each function of
`session.go` that loops over a prompt, the place an empty answer leads to, which is
also what a dead line gives, and the places its commands call. `cast` names who
comes and which of those places are visited. A web session is an entry of
`SessionStore` (`alive`, `bound`); `at` is where a request is in `bindWebNode`,
`touchWebNode`, `releaseWebNode` and the handlers around them; several requests of
one session run at once. `contested` and `spoilt` are history: numbers whose row a
listing took from somebody who was on, or which a session gave up twice because two
of its requests logged it out at once (`releaseWebNode` reads the number, and removes
control and row, with no lock), and web sessions ended from outside or
beside another of their requests. `old` (of `Accounts`) are those whose copy of the
account was read before its mark of deletion last changed. Not modelled: what commands do to messages,
conferences and networks, chat between nodes, web pages other than login,
logout, profile, doors and the sysop's form for a user.

### Zmodem

Each line has the board's end and the caller's. `end` is the point of `SendFile`
or `ReceiveFile` that waits for a frame; a burst of subpackets is one step, since
nothing is read between them. The caller's program is a `port` of this code, or
`other`, written from the protocol: it may skip, ask again, cancel or send
nothing, and is then `odd`. Frames are whole (checksums are assumed to do their
work) and in order. All uploads have one name, which is what makes resuming a
question.

### FullScreenEditor

`ed` is the `fsEditor` record together with `screen`, what the terminal's text
rows show. The operators have the names of the methods and map an editor to the
editor after them, drawing included; a key is one of them. The text is characters
and blanks; how wide a character is, quoting, colours, title and status rows are
left out. `ed.panicked` is the slice cut at -1 of `backspace`: it ends the program,
and no action of `CallerSessions` is enabled afterwards. When the line goes down
the editor waits for ever, and its text is forgotten in the model because nobody
can read it again.

### OfflineMail

A worker is a run of `SyncEngine.synchronize` (`tap`, `job`) or the caller's QWK
menu; `at` is its step, on the device or in the server's handler. A client that
times out or is killed leaves the handler at work. `last` is how far the server
believes each kind of client to be, `have` what the client has. Simplified: after
a client has left, the same worker starts no new run before the handler ends.
Conference 0 shares numbers with netmail in the code and is a separate area here.
Not modelled: `purgeNow`, attachments, formats, tokens and rate limits.

## 3. Runs

| Run | Expect | Question |
|---|---|---|
| `echo_poll` | pass | one actor (`poll`), two messages, one downlink, five packets, one fault: safety, refinement and liveness of the export |
| `echo_sessions` | pass | a scan and two sessions of one downlink at once: what survives any interleaving |
| `echo_lost` | violation | a poll and a scan at once, no fault: `NoLoss` fails |
| `echo_hub` | violation | a network without uplink: `EventuallyFannedOut` fails |
| `toss_poll` | pass | one actor, two packets that share a message, an area, netmail and an unknown area; any two of: faults, failing statements, local posts; responders that fail at will |
| `toss_torn` | violation | the same with one closed connection and no other mishap: `AckedKept` fails |
| `binkp` | pass | every pair of ends and standing, one file one way and two the other, long or empty files, one fault, one `M_GET` |
| `binkp_interleave` | violation | `Poll` with another mailer, no fault: `InterleavedWhole` fails |
| `outbound` | pass | ten configurations of a leaf and of a hub, most with one fault: netmail, crash mail, held nodes, routes, file scans, rescans, lookalike tags, a node that is uplink and downlink |
| `mrc` | pass | two users, or one and a change of the settings, or two changes at once, with one mishap, one change of room and one packet; twelve pairs of others who save settings, an approval among them seven times, with one mishap (failed save or statement, restart) |
| `callers` | pass | calls, web sessions, doors, listings, kicks and edits of an account; transfers with programs of both kinds; a caller in the screen editor |
| `offline` | pass | syncs, QWK and REP packets, taps and queued replies, with two failures |

Properties, by what they say:

* `NoLoss`, `RemovedWasDelivered`, `AtLeastOnce`: an exported message waits in the
  directory or has been taken; a packet is only deleted when its destination has
  its contents; the pipeline implements `EchoDelivery`.
* `ExactlyOnce`, `FanoutComplete`: without faults, nobody is sent a message twice
  and the per-message export mark is as good as one per destination.
* `MarkedWasPacked`, `OnlyAddressed`: for any interleaving, marks follow packets
  and nobody gets what is not for him.
* `EventuallyDelivered`, `EventuallyFannedOut`: what is posted gets out, with the
  one exception the NOTE in `scanNetwork` accepts.
* `ImportedOnce`, `KeptUnlessTorn`, `RequestsAnswered`, `EventuallyTossed`: a
  message whose MSGID is read each time is filed once over crashes, repeated packets,
  cut copies and lost acknowledgements (a copy cut off before the end of its MSGID is
  filed as well, and does not count); what was acknowledged is filed, held or waiting,
  unless a torn packet was tossed or a statement failed; every request of an
  acknowledged packet has come whole before its responder, also when it is a duplicate
  of its own first part, and none is filed before (the responder may have failed: its
  error is noted and nothing is tried again); every offered packet is received and
  tossed.
* `RemovedWasTaken`, `NothingResent`, `SessionEnds`, `EventuallyExchanged`: what an
  end deletes the other has or has skipped; a faultless session leaves nothing to
  send again; sessions end unless a peer falls silent; two nodes exchange all.

* `NothingAstray`, `EventuallyThere`: netmail that is marked sent, and a file that is
  marked exported, waits in the directory where a session of its peer is given it,
  or has been taken; and it arrives. What the definitions exempt is what the code
  gets wrong, by name: `torn` (deleted while still being written), `failed` (marked
  although the copy failed), `Misled` and `Mistaken` (tags found as substrings),
  `Stranded` (netmail of a hub without uplink in a place where nobody looks).
* `ReaderNeverPanics`, `NobodyLeftBehind`, `NewestSettingsWin`,
  `GhostsOnlyFromSnapshots`, `NobodyWaits`, `RelayCatchesUp`: deliveries of packets
  never meet a closed inbox; nobody attaches behind `detachAll`; the one-slot
  channel loses no newest settings; a user who left is shown again only from a
  snapshot; stopping and saving come to an end; the heartbeat repairs the relay's
  belief.
* `SettingsKept`, `MembersServed`: when nobody saves and no save has failed, memory and file
  agree and hold everything that was reported as saved, but for what a save overwrote
  whose copy was taken before (`lost`); an approved request has a member's row, its
  password in memory and in the file, and the nodelist's subscription, at any point of
  any restart or failure, and no two members were told one address.
* `OwnNode`, `NothingLeft`, `CallsEnd`, `AccountSticks`: row, control and drop file at
  a number are those of the one who is on with it, unless the number is `contested`;
  once nobody does anything no row or control is left but of live or `spoilt`
  web sessions; a call whose line is down ends, and a transfer's ends do not wait
  for each other; a stale copy takes back no password, and a deletion only in the
  way stated.
* `TransferWhole`: what either end takes for complete is complete, also if it was
  resumed, if what it began with was a beginning of that file.
* `ScreenShows`, `TextKept`: after every key the terminal shows the window's part of
  the text with only the cursor's line highlighted; letters are put in, replaced
  or taken out around the cursor and nowhere else, whatever wraps and joins do.
* `NothingSkipped`, `RepliesOnce`, `EventuallyHeard`: a message that a sync lists no
  more is on the device, or an answer with it was lost; a reply is posted once
  unless one of the named causes makes it twice; a message read on the device is
  reported, or its pointer was `shadowed` by an older report.

**What the violations show.** (1) Packets are written under their final name, so
a session can send and delete one that is half written, after which its messages
are marked exported. (2) A hub's scan returns before it looks at subscriptions.
(3) A closed connection counts as the end of the batch; a message cut off
behind its MSGID is filed and makes the whole copy a duplicate. (4) A file that another mailer is
sending when `Poll` begins to receive is given up half way and its first part
tossed.

**Bounds.** Two messages and two destinations are the least with which buckets
differ, a mark for one message stands beside another still in its bucket, and a
fault can fall between two buckets. Each fault (I/O error, dropped session,
crash) is one of `MaxFaults`; one is enough to put each at every point, and
`toss_poll` has two so that a retry can fail, or a file be cut twice. `MaxPkts` bounds packets ever made:
five let a poll be cut short, and packed again for both destinations; when they
are used up, `CreateFails` is what remains, and the property that would read this as a
lost packet (`FanoutComplete`) says so. In `binkp` two files one way give an order,
a file of two units gives `M_GET` and early `M_FILE` a middle to fall into, and a
file of none is the case that `beginInboundFILE` refuses. `MaxGets`, `MaxLocal`
and `MaxDbErrors` bound restarts, local posts and failing statements; `MaxEvents` bounds
faults, local posts and failing statements of the toss together, so that `toss_poll` has
every pair of them. A responder may fail without any bound. No symmetry
is used: destinations, packets and files are distinguished.

The four larger systems have more actors than can be interleaved all at once.
`Casts` is a set of small situations; `Init` chooses one, so that the state spaces
add up. Each cast holds the actors of which some step reads what another
writes: two for a race between two, three requests of one web session (login, page,
logout, or two logouts), also beside a web door, a caller beside a web session for the numbers they pass on to each other.
`MaxNode` is 3, one more than are on at once, so that a number can be used again or
not. In `mrc` the pairs of `Membership` are those of which one reads or replaces what
the other writes (the same list, the same array, the same file); one mishap meets
each of their steps, and a restart is one. Also in `mrc` an inbox holds one event, so that it is full at the second; one packet
and one room change meet every step of the others. In `outbound` each cast has one
fault, and none where lookalike tags already lead a file astray; two copies bound
repeated scans. In `offline` two messages of an area with `Limit` 1 give a
listing that is cut off, and two faults a retry that fails. Transfers have files
of two chunks, one and none, the three cases of "is this the last". The editor
has two rows, lines of two characters and at most three letters or blanks: enough
for a wrap at a blank and at the margin, for scrolling both ways, and for a cut
line to be pasted elsewhere.

**Fairness.** `EchoExport!FairSpec`: each actor's goroutine keeps running and the
poll ticker keeps firing (`scheduler.go`, `runNetwork`); nobody must post or
subscribe. `Toss!FairSpec`: a running session or toss goes on (weak), and sessions
begin again and again although sysop tosses interrupt (strong: `BeginSession` is
disabled while one runs). `BinkpSession!FairSpec`: both programs keep running and the caller
dials again. `MrcHub!FairSpec`: goroutines run (weak), and Go's `select` does not
prefer the ticker for ever (strong, for `Interrupt` alone); nobody has to come,
leave or save. A save that has begun goes on, and callers go on with what they
have begun; each takes a bounded number of steps, so that weak fairness to all of a kind is
weak fairness to each. The packets of the relay are bounded, so weak fairness is enough for
those who wait for `h.mu`, which Go's mutex starves nobody of. `Stop` is
an action although only the tests call it: the program itself ends by `log.Fatal`
(`cmd/virtbbs/main.go`). `CallerSessions!FairSpec`: the goroutine of a call makes its
own steps; once the line is down reads fail at once; the board's end of a transfer and
a program written like it run. Nothing is assumed of callers, doors, scripts, the
screen editor (which waits for ever on a dead line), or other programs. `OfflineMail!FairSpec`:
the device's job runs again and again and calls come to an end. `Outbound!FairSpec`:
scheduled polls, which there are only with an uplink (`scheduler.go`, `runNetwork`),
nodes that call, and whatever has begun. The runs without deadlock check are those in which the system may
stop: server sessions with no caller, a silent peer for which `Poll` waits
without a deadline, casts whose members have all come and gone, and a panic.

**What was met on the way.** The properties above are true of the code because they
say where it stops short. What a maintainer would want to know:

* Outgoing mail: a hub without uplink puts netmail to a downlink where no session
  looks and marks it sent, contrary to the comment at `netmail.go:359`; it is also
  polled on the sysop's order only. Tags are found as substrings, so 1:2/3 is given,
  and deletes, what is for 1:2/30 (`binkp.go:634`). A file is marked exported although
  every copy failed (`filescan.go:158`), and a failed copy leaves a broken payload
  that is sent. `MarkSent` failing, or two polls at once, write a netmail twice.
* Chat: the notice to users after a reconnect is sent without `h.mu` and can panic
  (`attach.go:61`); `SHUTDOWN` is never sent when MRC is turned off (`hub.go:235`); two
  saves at once can leave the older settings running.
* Board: any listing purges the row of a web door and of a caller who is not yet
  through login, and the next login shares number and drop directory with it, contrary
  to `door/door.go:106`. Two logouts of one web session at once both release its number,
  the second perhaps after somebody else has got it: his row and control are then gone
  (`web/nodes.go:47`; met while proving `NumbersAreOwn`). A page beside a logout, an expiry or a kick leaves a web row and control
  for ever. A dead line leaves a screen editor, door or script hanging. After a hang-up the
  line editor posts what there is, netmail is written with an empty body, and reading
  marks the next messages as read.
* Settings: two saves at once overwrite each other's changes; the file is emptied before it is
  written (`config.go:147`), so that a crash, or a failing disk, leaves none; a mapping
  written while another save encodes the same map can stop the program. Approvals: a denied
  request can still be approved by who has read it, two approvals of one
  request both succeed with two addresses, and a removal may leave a subscription
  without a downlink. Read, not checked: the BinkP server takes its networks, and with
  them the downlinks, as they are when the program starts (`binkp.go:290`, `main.go:410`), although `members.go:295`
  says that a member may poll at once; an approval at the terminal empties the password of
  the member's row (`session.go:1378`), which `messages/schema.sql:196` says mirrors the
  downlink's; the terminal's menus compare with the constant name of the primary network
  (`session.go:1815`), the pages with the effective one.
* Zmodem: a `ZCRCE` is not taken for the end of a run, so an upload from a program that
  uses it hangs; any frame counts as `ZACK` or `ZRINIT`; Ctrl+X is passed over where the
  prompt says that it aborts; an upload under a name that is there continues what it finds.
* Screen editor: two blanks at the margin and Backspace panic, and nothing recovers
  (`fullscreen.go:691`); `MaxLines` is not enforced by wrap and paste.
* Offline mail: the marks move before the answer arrives (`messages_api.go:113`,
  `qwk.go:333`); one refused reply makes every sync post those before it again
  (`qwk.go:509`); netmail replies of the device are skipped by the server yet taken off its queue, contrary to
  `android/VirtAnd/README.md:40`; the device purges messages whose deletion the server
  refused, contrary to `SyncEngine.kt:106`; an older report clears a newer pending
  read (`Daos.kt:87`).

## 4. Proofs

TLAPS checks these for all values of the constants that the named assumptions allow:
any number of messages, callers, nodes, runs, faults and so on, where the runs have two
or three. Every theorem is of a specification (`Spec => ...`); the invariants behind
them were checked by TLC, on the runs' instances, before they were proved.

| Theorem | States |
|---|---|
| `EchoExportProofs!TypeCorrect` | `[]TypeOK` |
| `EchoExportProofs!MarkedPacked` | `[]MarkedWasPacked`, any actors |
| `EchoExportProofs!AddressedOnly` | `[]OnlyAddressed`, any actors |
| `EchoExportProofs!FanoutIsComplete` | `[]FanoutComplete`, any actors |
| `EchoExportProofs!ExportNoLoss` | `[]NoLoss` if a single actor polls |
| `EchoExportProofs!RemovalSafe` | `RemovedWasDelivered` if a single actor polls |
| `EchoExportProofs!PackedOnce` | `[]ExactlyOnce` if a single actor polls |
| `EchoExportProofs!ImplementsDelivery` | the pipeline implements `EchoDelivery` if a single actor polls |
| `TossProofs!TypeCorrect` | `[](TypeOK /\ HasMessage)` |
| `TossProofs!AnsweredBeforeFiled` | `[]FiledWasAnswered` (half of `RequestsAnswered`), any actors |
| `TossProofs!RequestsServed` | `[]RequestsAnswered` if a single actor receives and tosses |
| `TossProofs!ImportOnce` | `[]ImportedOnce` if a single actor receives and tosses |
| `TossProofs!AcknowledgedKept` | `[]KeptUnlessTorn` if a single actor receives and tosses |
| `MrcHubProofs!TypeCorrect` | `[]` of the types, with the bound of the settings' versions |
| `MrcHubProofs!ReaderSafe` | `[]ReaderNeverPanics` |
| `MrcHubProofs!NobodyIsLeftBehind` | `[]NobodyLeftBehind` |
| `MrcHubProofs!OnlyGhostsFromSnapshots` | `GhostsOnlyFromSnapshots` |
| `MrcHubProofs!NewestWin` | `[]NewestSettingsWin` |
| `MrcHubProofs!ApprovedServed` | `[]MembersServed`, any casts, requests and restarts |
| `MrcHubProofs!SettingsAreKept` | `[]SettingsKept`, any casts, requests and restarts |
| `BinkpProofs!TypeCorrect` | `[]TypeOK`, with the types of the frames on their way |
| `BinkpProofs!RemovalSafe` | `[]RemovedWasTaken`, any mailers, sessions, faults and offsets |
| `BinkpProofs!NothingSentAgain` | `[]NothingResent` |
| `BinkpProofs!WholeBetweenNodes` | two nodes without fault keep `InterleavedWhole` |
| `OfflineProofs!TypeCorrect` | `[]` of the types |
| `OfflineProofs!NothingIsSkipped` | `[]NothingSkipped`, any runs of `synchronize` |
| `OfflineProofs!PostedOnce` | `[]RepliesOnce`, any runs of `synchronize` |
| `CallerProofs!TypeCorrect` | `[]` of the types |
| `CallerProofs!NumbersAreOwn` | `[]OwnNode`, any callers, web sessions, requests, doors |
| `CallerProofs!NobodyStays` | `[]NothingLeft` |
| `CallerProofs!AccountKept` | `AccountSticks` |
| `CallerProofs!TransfersWhole` | `[]TransferWhole`, any lines at once, files and programs |
| `OutboundProofs!TypeCorrect` | `[]TypeOK`, any network |
| `OutboundProofs!NothingGoesAstray` | `[]NothingAstray`, any network, polls, calls, scans, faults |
| `EditorProofs!TypeCorrect` | `[]EditorTypeOK`, any window, margin and text |
| `EditorProofs!ScreenTrue` | `[]ScreenShows`, any window, margin and text |

**The inductive invariants.** None of the properties is inductive as it stands. What
each needs is said at the head of its module; in short:

* *EchoExport.* `MarkedWasPacked`: what an actor is about to mark is in the packet it has
  written. `OnlyAddressed`: buckets and packets hold only what is owed to their
  destination. `NoLoss`: besides, the packet being written is neither listed nor deleted,
  which is what `SinglePoll` gives and `echo_lost` shows to be necessary.
  `FanoutComplete`: whoever still has buckets has all of them, or something failed
  (`FanoutInv`). `ExactlyOnce`: a message of a bucket is in no packet of that destination
  (`OnceInv`). The refinement uses these and that only posted messages are exported
  (`PostedInv`); packing, receiving and recording map to the abstract steps, all else to
  stutters.
* *Toss.* `FiledWasAnswered`: for the message that an actor past the responders holds,
  one was called if it is a request (`RobotInv`). The rest of `RequestsAnswered`: an
  acknowledged packet in the inbound directory is whole (`AckedWhole`), and while it is
  tossed each of its requests is answered or still to come (`AnsweringInv`).
  `ImportedOnce`: a message past the duplicate check is not filed, if its MSGID was read
  (`NotYetFiled`). `KeptUnlessTorn`: a packet in the inbox or with the actor is whole or
  was cut off by a named fault, and what the actor has worked off of it is filed, held
  or excused (`PacketInv`, `WholeInv`, `TossedInv`). `TossMoves` and `LeavesInbox` are the
  case analyses these share: what a step can do to the packet in an actor's hands, and
  how an acknowledged packet leaves the directory.
* *MrcHub.* `ReaderInv` relates what the reader has under `h.mu` to who is attached;
  `LinkInv` says which attachments there can be behind `detachAll`; `VersionInv` that no
  copy of the settings still on its way to the slot is older than the ones in force.
* *Membership* (proved of the whole program, in `MrcHubProofs`). `HeapInv`: every copy refers to an
  array, and every array to a list, that there is. `StepInv`: what each step of an approval has
  behind it. `KeptInv`, which both properties need: what somebody saved is in memory, in the file,
  and in each copy but those in whose `since` the save is, which will overwrite it; whoever
  takes a copy, however deep it shares, leaves in the others all but what their savers
  meant to be replaced (`Follows`). `AreaInv` and `FileInv` for the map and for the file.
* *BinkpSession.* `RemovedWasTaken`: an end that empties a file on `M_FILE` has not
  answered it in this session (`OnceInv`), so that an answer on its way is true when it is read
  (`AnswersInv`). `NothingResent`: where a faultless session of two nodes is (`Stage`:
  greeting, one end sending and the other receiving, the turn, the end), what exactly is on
  its way in each (`Stream`), and that what the other end has is in the session's result or
  its `M_GOT` is to be read (`ResultInv`). The window at which another mailer's file is
  given up (`binkp_interleave`) does not open there: the end that sends is sent nothing
  but answers.
* *Outbound.* A file that was created is in the directory, with its peer, or lost in a way the
  code knows (`KeptInv`); what a session has sent, and will delete, its peer has or has installed
  (`SentInv`), whole if it has it all (`InboxInv`). Who writes has completed the packet or the
  copy before its row is marked, or the copy failed (`QueueInv`, `RowInv`, `ScanInv`, `DueInv`); copies are
  numbered without gaps (`CopyInv`), so that no new file takes the name of one that is
  being sent. A step is one of eight `Effects` on the files, of which each part is shown to be
  kept once.
* *OfflineMail.* `NothingSkipped`: the listing that an answer carries reaches to the mark
  that was moved for it (`MarkInv`, `SetInv`). `RepliesOnce`: each batch on its way is of
  replies that were queued then, and those of it that the server has posted are counted
  once (`BatchInv`, `PostedInv`).
* *CallerSessions.* `OwnNode`: each player, web session's token, and request under way has
  what it is about to write or release (`OwnInv`: `PlayerInv`, `TokenInv`, `RequestInv`), and
  two that have the same number have it contested (`PairInv`). `NothingLeft` needs `SoleInv` (tasks
  and doors bound to what is still there) and `LeftInv`; `AccountSticks` needs that a copy of the account is no older than
  what its holder was told (`CopyInv`). The steps are grouped by their `Effect`, of which each
  invariant is shown to be kept once.
* *Zmodem* (proved of the whole board, in `CallerProofs`). Unless the other program takes a
  turn of its own, a line is at one of eight points of a transfer, each with the frames
  that are then on their way in both directions (`LineInv`: from `InitComes` to `Closed`, with
  `Hangs` for the end of a run that is not recognised); an end that failed stays at
  its point and consumes nothing more. Whoever writes to a file alone is the only one who
  writes to it (`SoleWriter`), and what it has is the beginning of the file up to its
  offset (`DataInv`). Only at `Closed` does an end take the transfer for complete, and the offset
  is then that of the last piece.
* *FullScreenEditor.* The text is well formed and every row but those about to be redrawn
  shows its line (`Good`); two lemmas, of redrawing from a line on (`FromLine`) and of two
  lines (`TwoLines`), carry all keys.

**What the proofs found.** A node that is configured as uplink and as downlink is never
sent its files: a poll and `binkpMatchPeer` take it for the uplink, from whose list the downlinks'
tags are excluded; `FilesFor` had given such a node a downlink's list, and `Mistaken` now names
this case. Two logouts of one web session at once (above); the exemptions
of `NothingSkipped` and `RepliesOnce` had to name the lost answers of each run, not of the
last, and `AccountSticks` the copies of three edits at once: the runs' instances were too
small to show it, and the definitions are as the proofs need them now.

**Only model-checked.** `TextKept`: it speaks of the text as one sequence of letters
(`FlattenSeq`), which is induction over data. Every
liveness property (`EventuallyDelivered`, `EventuallyFannedOut`, `EventuallyTossed`,
`SessionEnds`, `EventuallyExchanged`, `EventuallyThere`, `NobodyWaits`, `RelayCatchesUp`,
`CallsEnd`, `EventuallyHeard`): out of the prover's reach. The type invariant of `Outbound`
is proved and not among its run's properties.

## 5. Not modelled

AreaFix's and FileFix's request texts, replies and forwarded requests (subscriptions
change as their result does); the queue of nodelist posts, nodelist fetch and the
scheduler's day rollover, which are sequential and run once a day; file requests,
statistics, robots and reports, which answer from what they read; nodelist parsing and
generation, ANSI, display files and the PPL language, which are
text processing or presentation; accept loops and option negotiation; the web's
other pages, each a call or two of the stores; and the companion programs (`AnsiEdit`,
`DoorGames`, `Doors/NodeGUI`), which share no state with the board but files.

## 6. Plan

Proving: every safety property that a run checks has its theorem, but for `TextKept`. An
abstract specification of the toss (a packet is pending, then filed or held), which `Toss`
implements, would state its theorems as one refinement.

Modelling, if the code grows there: requests to AreaFix over `Toss`, of which a
packet tossed twice applies an old one again; the queue of nodelist posts.
