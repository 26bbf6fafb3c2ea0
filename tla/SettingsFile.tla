---------------------------- MODULE SettingsFile ----------------------------
(***************************************************************************)
(* VirtBBS.DAT and the copy of it in memory (internal/config).  Everybody  *)
(* who changes a setting takes the copy in force, changes a part of it and *)
(* saves the whole: the sysop's pages and menus, and the robots of a toss. *)
(*                                                                         *)
(* The copy is shallow.  A section such as MRC's is a value of the copy;   *)
(* the networks are an array that all copies share until somebody replaces *)
(* it, and so is the list of downlinks in it; the map of areas is shared   *)
(* for good.  One network that is not the primary one stands for all.      *)
(* The encoder's reads are one step; a string torn by a race is left out.  *)
(***************************************************************************)
EXTENDS Naturals, Sequences, FiniteSets

CONSTANTS
  FirstLinks,    \* downlinks in the file at the start
  FirstAreas,    \* areas in the file at the start
  MaxMishaps     \* bound on everything that goes wrong

VARIABLES
  current,       \* config.current
  nets, slices,  \* heap: arrays of networks, lists of downlinks (as sets)
  areas,         \* heap: the network's map of areas
  file,          \* VirtBBS.DAT
  saver, mine,   \* whoever saves: "idle", "merged", "writing"; its copy
  since, lost,   \* history: saves ended since its copy; saves overwritten
  failed,        \* history: whose save failed or was cut off
  mishaps, down

store == <<current, nets, slices, areas, file, saver, mine, since, lost,
           failed, down>>
settings == <<store, mishaps>>

Torn == [whole |-> FALSE]
First == "first"
NoCopy == [mrc |-> [ver |-> 0, on |-> FALSE], bbs |-> First, nets |-> 0]

Savers == DOMAIN saver
Net(c) == nets[c.nets]
Links(c) == slices[Net(c).downlinks]
Contents(c) == [mrc |-> c.mrc, bbs |-> c.bbs, page |-> Net(c).page,
                downlinks |-> Links(c), areas |-> areas]

\* Load, with the MRC section mrc.
SettingsInit(mrc, savers) ==
  /\ current = [mrc |-> mrc, bbs |-> First, nets |-> 1]
  /\ nets = <<[page |-> First, downlinks |-> 1]>> /\ slices = <<FirstLinks>>
  /\ areas = FirstAreas
  /\ file = [mrc |-> mrc, bbs |-> First, page |-> First,
             downlinks |-> FirstLinks, areas |-> FirstAreas]
  /\ saver = [w \in savers |-> "idle"] /\ mine = [w \in savers |-> NoCopy]
  /\ since = [w \in savers |-> {}] /\ lost = {} /\ failed = {}
  /\ mishaps = 0 /\ down = FALSE

Mishap == mishaps < MaxMishaps /\ mishaps' = mishaps + 1

Busy(w) == saver[w] # "idle"
Writing == \E w \in Savers : saver[w] = "writing"

\* merged := *config.Get(), changed to c.  Get waits while a save writes.
\* Who then changes what all copies share may do so while another writes.
Merge(w, c) ==
  /\ saver' = [saver EXCEPT ![w] = "merged"]
  /\ mine' = [mine EXCEPT ![w] = c]
  /\ UNCHANGED <<current, file, since, lost, failed, mishaps>>

MergeSection(w, c) ==
  ~Writing /\ Merge(w, c) /\ UNCHANGED <<nets, slices, areas, down>>

\* A list of downlinks made anew, in an array of networks made anew.
MergeLinks(w, list) ==
  /\ ~Writing
  /\ slices' = Append(slices, list)
  /\ nets' = Append(nets, [Net(current) EXCEPT !.downlinks = Len(slices) + 1])
  /\ Merge(w, [current EXCEPT !.nets = Len(nets) + 1])
  /\ UNCHANGED <<areas, down>>

\* The networks page writes into the array in force, before it saves.
MergePage(w, value) ==
  /\ nets' = [nets EXCEPT ![current.nets].page = value]
  /\ Merge(w, current) /\ UNCHANGED <<slices, areas, down>>

WithPassword(list, addr, pw) ==
  {IF l.addr = addr THEN [l EXCEPT !.pw = pw] ELSE l : l \in list}

\* updateDownlinkPassword: so does a new password.
MergePassword(w, addr, pw) ==
  /\ slices' = [slices EXCEPT ![Net(current).downlinks] =
                  WithPassword(@, addr, pw)]
  /\ Merge(w, current) /\ UNCHANGED <<nets, areas, down>>

\* updateNetworkAreas: and a mapping.  The runtime may stop the program when
\* it meets a map that is written while another save encodes it.
MergeAreas(w, map) ==
  /\ areas' = map
  /\ Merge(w, current) /\ down' \in {FALSE, Writing}
  /\ UNCHANGED <<nets, slices>>

\* Save: under the lock, the file is emptied, ...
Open(w) ==
  /\ saver[w] = "merged" /\ ~Writing
  /\ saver' = [saver EXCEPT ![w] = "writing"] /\ file' = Torn
  /\ UNCHANGED <<current, nets, slices, areas, mine, since, lost, failed,
                 mishaps, down>>

\* Mutant: the copy in memory is not replaced.
EncodeOnly(w) ==
  /\ saver[w] = "writing" /\ saver' = [saver EXCEPT ![w] = "idle"]
  /\ file' = Contents(mine[w]) /\ mine' = [mine EXCEPT ![w] = NoCopy]
  /\ lost' = lost \cup since[w]
  /\ since' = [v \in Savers |-> IF Busy(v) /\ v # w THEN since[v] \cup {w}
                                                    ELSE {}]
  /\ UNCHANGED <<current, nets, slices, areas, failed, mishaps, down>>

\* ... written, and the copy put in force.
Encode(w) ==
  /\ saver[w] = "writing" /\ saver' = [saver EXCEPT ![w] = "idle"]
  /\ file' = Contents(mine[w]) /\ current' = mine[w]
  /\ mine' = [mine EXCEPT ![w] = NoCopy]
  /\ lost' = lost \cup since[w]
  /\ since' = [v \in Savers |-> IF Busy(v) /\ v # w THEN since[v] \cup {w}
                                                    ELSE {}]
  /\ UNCHANGED <<nets, slices, areas, failed, mishaps, down>>

\* os.Create fails, or the encoder: what is in memory stays.
SaveFails(w) ==
  /\ saver[w] = "writing" \/ (saver[w] = "merged" /\ ~Writing)
  /\ Mishap /\ failed' = failed \cup {w}
  /\ saver' = [saver EXCEPT ![w] = "idle"]
  /\ mine' = [mine EXCEPT ![w] = NoCopy]
  /\ since' = [since EXCEPT ![w] = {}]
  /\ UNCHANGED <<current, nets, slices, areas, file, lost, down>>

\* The program is cut off and starts again from the file.  One that is not
\* whole is refused, or read as far as it goes: the system is gone.
Reload ==
  /\ Mishap /\ down' = (file = Torn)
  /\ IF file = Torn THEN UNCHANGED <<current, nets, slices, areas>>
     ELSE /\ current' = [mrc |-> file.mrc, bbs |-> file.bbs, nets |-> 1]
          /\ nets' = <<[page |-> file.page, downlinks |-> 1]>>
          /\ slices' = <<file.downlinks>> /\ areas' = file.areas
  /\ saver' = [w \in Savers |-> "idle"] /\ mine' = [w \in Savers |-> NoCopy]
  /\ since' = [w \in Savers |-> {}]
  /\ failed' = failed \cup {w \in Savers : Busy(w)}
  /\ UNCHANGED <<file, lost>>
=============================================================================
