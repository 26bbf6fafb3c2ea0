----------------------------- MODULE Membership -----------------------------
(***************************************************************************)
(* Everybody who saves settings besides MRC's page: joining a network that *)
(* this BBS hosts (fido/members.go, the join page and the join menu), the  *)
(* pages and menus of its downlinks, of the networks and of the BBS, and   *)
(* the robots of a toss that map areas and change passwords.  Each works   *)
(* once, by its kind, at any time and in any number of steps.              *)
(*                                                                         *)
(* Addresses are node numbers in one net.  A net's Host, the members' rows *)
(* but for their numbers, and the nodelist made of them are left out.      *)
(***************************************************************************)
EXTENDS SettingsFile, FiniteSetsExt

CONSTANTS
  Casts,        \* who comes, each once, and what for: functions to Kinds
  JoinRequests  \* applications to join

Kinds == {"approve", "deny", "remove", "add page", "add menu", "change",
          "passwd", "map", "remap", "networks page", "config page"}
Others == {"chat", "MRC page"}

ASSUME MembershipAssumption ==
  /\ \A c \in Casts :
       /\ IsFiniteSet(DOMAIN c)
       /\ DOMAIN c \cap ({First, "pending", "denied"} \cup FirstAreas) = {}
       /\ \A w \in DOMAIN c : c[w] \in Kinds \cup Others
  /\ FirstLinks \subseteq [addr : Nat, pw : {First}]
  /\ MaxMishaps \in Nat

Known == 1   \* the address of the one member and downlink there is
Typed == 9   \* an address the sysop types

VARIABLES
  cast,          \* who comes at all, and what for
  step,          \* how far each is
  decides, node, \* the application it decides, the address it is about
  joinRequests,  \* fido_join_requests: pending, denied, or who approved it
  members,       \* fido_members: node numbers, unique
  subs           \* fido_areafix_subs for the nodelist's area

joining == <<cast, step, decides, node, joinRequests, members, subs>>
decided == <<decides, joinRequests>>

Workers == {w \in DOMAIN cast : cast[w] \in Kinds}
JoinInit ==
  /\ cast \in Casts /\ step = [w \in Workers |-> "new"]
  /\ decides = [w \in Workers |-> "none"] /\ node = [w \in Workers |-> 0]
  /\ joinRequests = [r \in JoinRequests |-> "pending"]
  /\ members = {Known} /\ subs = {Known}

Is(w, kind) == cast[w] = kind
At(w, label) == step[w] = label
Go(w, label) == step' = [step EXCEPT ![w] = label]

\* Linked(list, n, pw): n is a downlink with the password pw.
Linked(list, n, pw) == [addr |-> n, pw |-> pw] \in list
HasLink(list, n) == \E l \in list : l.addr = n
Without(list, n) == {l \in list : l.addr # n}

-----------------------------------------------------------------------------
(* Approving: every statement is a transaction of its own.                 *)

\* The request is read, and has to be pending still.
Look(w) ==
  /\ Is(w, "approve") /\ At(w, "new")
  /\ \E r \in JoinRequests :
       /\ decides' = [decides EXCEPT ![w] = r]
       /\ Go(w, IF joinRequests[r] = "pending" THEN "looked" ELSE "refused")
  /\ UNCHANGED <<settings, cast, node, joinRequests, members, subs>>

\* NextNodeNum; the join menu then lets the sysop confirm it.
Number(w) ==
  /\ At(w, "looked") /\ Go(w, "numbered")
  /\ node' = [node EXCEPT ![w] = Max(members) + 1]
  /\ UNCHANGED <<settings, cast, decided, members, subs>>

\* InsertMember: the row of another approval with this number forbids it.
InsertMember(w) ==
  /\ At(w, "numbered") /\ members' = members \cup {node[w]}
  /\ Go(w, IF node[w] \in members THEN "refused" ELSE "member")
  /\ UNCHANGED <<settings, cast, node, decided, subs>>

\* saveDownlink, with a new password.
Authorize(w) ==
  /\ At(w, "member") /\ Go(w, "saving")
  /\ MergeLinks(w, Links(current) \cup {[addr |-> node[w], pw |-> w]})
  /\ UNCHANGED <<cast, node, decided, members, subs>>

Subscribe(w) ==
  /\ At(w, "authorized") /\ Go(w, "subscribed")
  /\ subs' = subs \cup {node[w]}
  /\ UNCHANGED <<settings, cast, node, decided, members>>

MarkApproved(w) ==
  /\ At(w, "subscribed") /\ Go(w, "done")
  /\ joinRequests' = [joinRequests EXCEPT ![decides[w]] = w]
  /\ UNCHANGED <<settings, cast, decides, node, members, subs>>

\* Deny does not look at the state of the request.
Deny(w) ==
  /\ Is(w, "deny") /\ At(w, "new") /\ Go(w, "done")
  /\ \E r \in JoinRequests :
       joinRequests' = [joinRequests EXCEPT ![r] = "denied"]
  /\ UNCHANGED <<settings, cast, decides, node, members, subs>>

-----------------------------------------------------------------------------
(* Downlinks: pages and menus save whether they found one or not.          *)

Remove(w) ==
  /\ Is(w, "remove") /\ At(w, "new") /\ Go(w, "saving")
  /\ MergeLinks(w, Without(Links(current), Known))
  /\ node' = [node EXCEPT ![w] = IF HasLink(Links(current), Known)
                                 THEN Known ELSE 0]
  /\ UNCHANGED <<cast, decided, members, subs>>

Unsubscribe(w) ==
  /\ At(w, "removed") /\ Go(w, "done") /\ subs' = subs \ {node[w]}
  /\ UNCHANGED <<settings, cast, node, decided, members>>

\* The page alone looks for a duplicate, before it takes its copy.
LookForDuplicate(w) ==
  /\ Is(w, "add page") /\ At(w, "new") /\ ~Writing
  /\ Go(w, IF HasLink(Links(current), Typed) THEN "refused" ELSE "looked up")
  /\ UNCHANGED <<settings, cast, node, decided, members, subs>>

Add(w) ==
  /\ (Is(w, "add menu") /\ At(w, "new")) \/ At(w, "looked up")
  /\ Go(w, "saving")
  /\ MergeLinks(w, Links(current) \cup {[addr |-> Typed, pw |-> w]})
  /\ UNCHANGED <<cast, node, decided, members, subs>>

Change(w) ==
  /\ Is(w, "change") /\ At(w, "new") /\ Go(w, "saving")
  /\ MergeLinks(w, WithPassword(Links(current), Known, w))
  /\ UNCHANGED <<cast, node, decided, members, subs>>

\* AreaFix %PASSWD: refused when the downlink is gone.
NewPassword(w) ==
  /\ Is(w, "passwd") /\ At(w, "new")
  /\ IF HasLink(Links(current), Known)
     THEN MergePassword(w, Known, w) /\ Go(w, "saving")
     ELSE Go(w, "refused") /\ UNCHANGED settings
  /\ UNCHANGED <<cast, node, decided, members, subs>>

-----------------------------------------------------------------------------
(* Areas, networks, the BBS.                                               *)

\* An AreaFix reply adds one; the areas page renames one with two saves.
MapArea(w) ==
  /\ (Is(w, "map") /\ At(w, "new")) \/ At(w, "unmapped")
  /\ MergeAreas(w, areas \cup {w}) /\ Go(w, "saving")
  /\ UNCHANGED <<cast, node, decided, members, subs>>

UnmapArea(w) ==
  /\ Is(w, "remap") /\ At(w, "new")
  /\ MergeAreas(w, areas \ FirstAreas) /\ Go(w, "unmapping")
  /\ UNCHANGED <<cast, node, decided, members, subs>>

EditNetwork(w) ==
  /\ Is(w, "networks page") /\ At(w, "new") /\ Go(w, "edited")
  /\ MergePage(w, w)
  /\ UNCHANGED <<cast, node, decided, members, subs>>

\* saveFidoConfig takes the other sections anew, then makes directories,
\* which may fail like the save.
EditedNetwork(w) ==
  /\ At(w, "edited") /\ ~Writing /\ Go(w, "saving")
  /\ mine' = [mine EXCEPT ![w] = [current EXCEPT !.nets = mine[w].nets]]
  /\ UNCHANGED <<current, nets, slices, areas, file, saver, since, lost,
                 failed, mishaps, down, cast, node, decided, members, subs>>

EditBBS(w) ==
  /\ Is(w, "config page") /\ At(w, "new") /\ Go(w, "saving")
  /\ MergeSection(w, [current EXCEPT !.bbs = w])
  /\ UNCHANGED <<cast, node, decided, members, subs>>

-----------------------------------------------------------------------------
Saving(w) == step[w] \in {"saving", "unmapping"}

Saves(w) == /\ Saving(w) /\ (Open(w) \/ Encode(w) \/ SaveFails(w))
            /\ UNCHANGED joining

\* Mutant: an approval goes on whatever the save said.
SavedAnyhow(w) ==
  /\ Saving(w) /\ ~Busy(w)
  /\ Go(w, CASE Is(w, "approve") -> "authorized"
             [] Is(w, "remove") /\ node[w] # 0 -> "removed"
             [] At(w, "unmapping") -> "unmapped"
             [] OTHER -> "done")
  /\ UNCHANGED <<settings, cast, node, decided, members, subs>>

\* An error is shown, and ends it; an approval leaves its request pending.
Saved(w) ==
  /\ Saving(w) /\ ~Busy(w)
  /\ Go(w, CASE w \in failed -> "refused"
             [] w \notin failed /\ Is(w, "approve") -> "authorized"
             [] w \notin failed /\ Is(w, "remove") /\ node[w] # 0 -> "removed"
             [] w \notin failed /\ At(w, "unmapping") -> "unmapped"
             [] OTHER -> "done")
  /\ UNCHANGED <<settings, cast, node, decided, members, subs>>

\* A statement fails.
StatementFails(w) ==
  /\ step[w] \in {"looked", "numbered", "authorized", "subscribed"}
  /\ Mishap /\ Go(w, "refused")
  /\ UNCHANGED <<current, nets, slices, areas, file, saver, mine, since, lost,
                 failed, down, cast, node, decided, members, subs>>

\* Whoever was at work is gone with the program.
JoinRestart ==
  /\ Reload
  /\ step' = [w \in Workers |-> IF step[w] \in {"new", "done"} THEN step[w]
                                ELSE "refused"]
  /\ UNCHANGED <<cast, node, decided, members, subs>>

Begin(w) ==
  \/ Look(w) \/ Deny(w) \/ Remove(w) \/ LookForDuplicate(w) \/ Change(w)
  \/ NewPassword(w) \/ UnmapArea(w) \/ EditNetwork(w) \/ EditBBS(w)
Proceed(w) ==
  \/ Number(w) \/ InsertMember(w) \/ Authorize(w) \/ Subscribe(w)
  \/ MarkApproved(w) \/ Unsubscribe(w) \/ Add(w) \/ MapArea(w)
  \/ EditedNetwork(w) \/ Saves(w) \/ Saved(w) \/ StatementFails(w)

-----------------------------------------------------------------------------
(* Properties.                                                             *)

\* What w has changed is in force.
InForce(w) ==
  LET Same(kinds) == {v \in Workers : cast[v] \in kinds}
      links == Links(current)
  IN CASE Is(w, "approve") -> Linked(links, node[w], w)
       [] Is(w, "remove")  -> ~HasLink(links, Known)
       [] cast[w] \in {"add page", "add menu"} -> Linked(links, Typed, w)
       [] cast[w] \in {"change", "passwd"} ->
            HasLink(links, Known)
              => \E v \in Same({"change", "passwd"}) : Linked(links, Known, v)
       [] cast[w] \in {"map", "remap"} -> w \in areas
       [] Is(w, "networks page") ->
            Net(current).page \in Same({"networks page"})
       [] Is(w, "config page") -> current.bbs \in Same({"config page"})
       [] OTHER -> TRUE

\* Between saves, and when none has failed, memory and file agree, and every
\* change that was reported as saved is in force, in spite of the arrays
\* that copies share -- but for the changes that a save took back which had
\* taken its copy before.  A mapping of an area is not even taken back then.
SettingsKept ==
  (~down /\ failed = {} /\ \A w \in Savers : ~Busy(w))
    => /\ file = Contents(current)
       /\ \A w \in Workers :
            At(w, "done") /\ (w \notin lost \/ cast[w] \in {"map", "remap"})
              => InForce(w)

\* A request is marked as approved only when its member has what it was told:
\* a row, the password in memory and in the file, the nodelist's area.  So
\* after a restart, or an error, at any point the request is still there to
\* be decided.  No two members are told one address.
MembersServed ==
  \A r \in JoinRequests :
    LET w == joinRequests[r]
    IN w \in Workers \ lost =>
         /\ node[w] \in members \cap subs
         /\ ~down => Linked(Links(current), node[w], w)
         /\ file # Torn => Linked(file.downlinks, node[w], w)
         /\ \A v \in Workers \ {w} :
              Is(v, "approve") /\ At(v, "done") => node[v] # node[w]
=============================================================================
