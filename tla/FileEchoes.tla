----------------------------- MODULE FileEchoes -----------------------------
(***************************************************************************)
(* A file echo (internal/fido/filescan.go, filefix.go, ticprocess.go): the *)
(* sysop's file scan copies each new file of the area's catalog into the   *)
(* outbound directory, once for the uplink and once for every subscriber,  *)
(* each copy followed by its TIC ticket; a rescan does so for one          *)
(* downlink, as FileFix is asked to.  The receiver, another VirtBBS,       *)
(* installs a file when it has the ticket and what the ticket describes.   *)
(***************************************************************************)
EXTENDS OutboundDir

CONSTANTS
  Items,        \* files of the catalog
  Scanners,     \* goroutines that scan or rescan
  MaxCopies     \* bound on the copies made of an item for one peer

ASSUME FileEchoesAssumption == MaxCopies \in Nat \ {0}

VARIABLES
  catalog,      \* files of the area
  exported,     \* fido_file_exports
  subs,         \* fido_filefix_subs
  todoTics,     \* each scanner: copies to make, pairs of item and peer
  toMark,       \* ... what it will mark as exported
  copying,      \* ... the payload it is at
  doing,        \* ... "idle", "next", "copy", "ticket"
  inbox,        \* what each peer has received: a file, and if whole
  installed,    \* pairs of item and peer
  due, failed   \* history: exported for a peer; its copy could not be made

catalogue == <<catalog, exported, subs>>
scans     == <<todoTics, toMark, copying, doing>>
echoes    == <<catalogue, scans, inbox, installed, due, failed>>
NoCopy    == [kind |-> "none"]

EchoesInit ==
  /\ catalog = {} /\ exported = {} /\ subs = cast.subs
  /\ todoTics = [a \in Scanners |-> {}] /\ toMark = todoTics
  /\ copying = [a \in Scanners |-> NoCopy]
  /\ doing = [a \in Scanners |-> "idle"]
  /\ inbox = [p \in Peers |-> {}] /\ installed = {} /\ due = {} /\ failed = {}

AddFile(f) ==
  /\ f \in cast.items \ catalog /\ catalog' = catalog \cup {f}
  /\ UNCHANGED <<exported, subs, scans, inbox, installed, due, failed, dir>>

\* +TAG and -TAG in a request to FileFix.
Subscribe(d) ==
  /\ d \in cast.asks
  /\ \/ subs' = subs \cup {d} \/ subs' = subs \ {d}
  /\ subs' # subs
  /\ UNCHANGED <<catalog, exported, scans, inbox, installed, due, failed, dir>>

\* fileScanNetwork: the uplink, and subscribers that are downlinks.
Dests == ({cast.uplink} \ {NoPeer}) \cup (subs \cap cast.downlinks)

FileScan(a) ==
  /\ a \in cast.scanners /\ doing[a] = "idle"
  /\ LET all == (catalog \ exported) \X Dests
     IN  /\ all # {}
         /\ todoTics' = [todoTics EXCEPT ![a] = all]
         /\ toMark' = [toMark EXCEPT ![a] = all]
  /\ doing' = [doing EXCEPT ![a] = "next"]
  /\ UNCHANGED <<catalogue, copying, inbox, installed, due, failed, dir>>

\* RescanFilesToDownlink: nothing is marked.
Rescan(a, d) ==
  /\ a \in cast.scanners /\ doing[a] = "idle" /\ d \in cast.asks
  /\ d \in subs \cap cast.downlinks /\ catalog # {}
  /\ todoTics' = [todoTics EXCEPT ![a] = catalog \X {d}]
  /\ doing' = [doing EXCEPT ![a] = "next"]
  /\ UNCHANGED <<catalogue, toMark, copying, inbox, installed, due, failed, dir>>

\* writeTICItemsForDest.
StartCopy(a) ==
  /\ doing[a] = "next"
  /\ \E i \in todoTics[a] :
       LET n == File("payload", i[1], i[2], Base)
       IN  /\ n.copy <= MaxCopies /\ Create(n)
           /\ copying' = [copying EXCEPT ![a] = n]
  /\ doing' = [doing EXCEPT ![a] = "copy"]
  /\ UNCHANGED <<catalogue, todoTics, toMark, inbox, installed, due, failed>>

EndCopy(a) ==
  /\ doing[a] = "copy" /\ Complete(copying[a])
  /\ doing' = [doing EXCEPT ![a] = "ticket"]
  /\ UNCHANGED <<catalogue, todoTics, toMark, copying, inbox, installed, due,
                 failed>>

At(a) == <<copying[a].of, copying[a].to>>
NextItem(a) ==
  /\ todoTics' = [todoTics EXCEPT ![a] = @ \ {At(a)}]
  /\ copying' = [copying EXCEPT ![a] = NoCopy]
  /\ doing' = [doing EXCEPT ![a] = "next"]

Ticket(n) == [n EXCEPT !.kind = "tic"]

\* A ticket is so short that it is written at once.
WriteTicket(a) ==
  /\ doing[a] = "ticket" /\ NextItem(a)
  /\ LET t == Ticket(copying[a])
     IN  /\ present' = present \cup {t} /\ whole' = whole \cup {t}
         /\ made' = made \cup {t}
  /\ UNCHANGED <<catalogue, toMark, inbox, installed, due, failed>>

\* A broken copy stays; a copy whose ticket cannot be written is removed.
CopyFails(a) ==
  /\ doing[a] = "copy" /\ failed' = failed \cup {At(a)} /\ NextItem(a)
  /\ UNCHANGED <<catalogue, toMark, inbox, installed, due, dir>>
TicketFails(a) ==
  /\ doing[a] = "ticket" /\ failed' = failed \cup {At(a)} /\ NextItem(a)
  /\ Delete({copying[a]}) /\ UNCHANGED <<catalogue, toMark, inbox, installed, due>>

\* Also if no copy could be made.
MarkExported(a) ==
  /\ doing[a] = "next" /\ todoTics[a] = {}
  /\ \E i \in toMark[a] :
       LET its == {j \in toMark[a] : j[1] = i[1]}
       IN  /\ exported' = exported \cup {i[1]} /\ due' = due \cup its
           /\ toMark' = [toMark EXCEPT ![a] = @ \ its]
  /\ UNCHANGED <<catalog, subs, todoTics, copying, doing, inbox, installed,
                 failed, dir>>

\* MarkExported fails: the file is found again by the next scan.
MarkFails(a) ==
  /\ doing[a] = "next" /\ todoTics[a] = {}
  /\ \E i \in toMark[a] :
       toMark' = [toMark EXCEPT ![a] = {j \in @ : j[1] # i[1]}]
  /\ UNCHANGED <<catalogue, todoTics, copying, doing, inbox, installed, due,
                 failed, dir>>

EndScan(a) ==
  /\ doing[a] = "next" /\ todoTics[a] = {} /\ toMark[a] = {}
  /\ doing' = [doing EXCEPT ![a] = "idle"]
  /\ UNCHANGED <<catalogue, todoTics, toMark, copying, inbox, installed, due,
                 failed, dir>>

ScanStep(a) ==
  \/ StartCopy(a) \/ EndCopy(a) \/ WriteTicket(a) \/ MarkExported(a)
  \/ EndScan(a)

\* The process ends.
EchoesDie ==
  /\ todoTics' = [a \in Scanners |-> {}] /\ toMark' = todoTics'
  /\ copying' = [a \in Scanners |-> NoCopy]
  /\ doing' = [a \in Scanners |-> "idle"]
  /\ UNCHANGED <<catalogue, inbox, installed, due, failed, dir>>

\* ProcessInboundTICs of the receiver: the payload has arrived and has the
\* ticket's size and CRC, and the ticket the receiver's password.
Install(p) ==
  /\ \E r \in inbox[p] :
       LET n == r[1] IN
       /\ n.kind = "payload" /\ r[2] /\ n.to = p
       /\ <<Ticket(n), TRUE>> \in inbox[p]
       /\ installed' = installed \cup {<<n.of, p>>}
       /\ inbox' = [inbox EXCEPT ![p] = @ \ {r, <<Ticket(n), TRUE>>}]
  /\ UNCHANGED <<catalogue, scans, due, failed, dir>>

EchoesTypeOK ==
  /\ exported \subseteq catalog /\ catalog \subseteq Items /\ subs \subseteq Peers
  /\ installed \cup due \cup failed \subseteq Items \X Peers
  /\ \A p \in Peers : inbox[p] \subseteq made \X BOOLEAN
  /\ \A a \in Scanners :
       /\ doing[a] \in {"idle", "next", "copy", "ticket"}
       /\ todoTics[a] \cup toMark[a] \subseteq Items \X Peers
       /\ copying[a] \in made \cup {NoCopy}
=============================================================================
