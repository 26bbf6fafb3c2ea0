---------------------------- MODULE NodeRegistry ----------------------------
(***************************************************************************)
(* The nodes of the board (internal/node/store.go, registry.go): a row in  *)
(* the database for everybody who is on, and in memory a control through   *)
(* which a node can be reached and closed.  Rows are numbered by SQLite,   *)
(* which takes the highest number in the table plus one; a listing first   *)
(* deletes the rows that have no control.                                  *)
(*                                                                         *)
(* A holder is whoever registers: a terminal caller, a web session, a web  *)
(* door.  Who inserted a row is not in the database; the model remembers   *)
(* it to say whose row it is.                                              *)
(***************************************************************************)
EXTENDS Naturals, FiniteSets

CONSTANTS
  Holders,      \* those who register
  Listings,     \* calls of Store.List
  MaxNode       \* bound on node numbers

Ids == 1..MaxNode
NoNode == 0
Nobody == "nobody"

ASSUME RegistryAssumption ==
  /\ MaxNode \in Nat \ {0} /\ Nobody \notin Holders

VARIABLES
  row,          \* who inserted the row of a number
  shown,        \* whom the row shows
  ctrl,         \* registry: whose control is filed under a number
  snap, listing,  \* each listing's ActiveIDs, and how far it is
  contested     \* history: numbers whose row or control somebody who is on may
                \* have lost

registry == <<row, shown, ctrl>>
lists    == <<snap, listing>>

\* ClearAll at start.
RegistryInit ==
  /\ row = [i \in Ids |-> Nobody] /\ shown = row /\ ctrl = row
  /\ snap = [l \in Listings |-> {}] /\ listing = [l \in Listings |-> "new"]
  /\ contested = {}

Rows == {i \in Ids : row[i] # Nobody}

\* The number SQLite gives to a new row.
FreeNode == 1 + CHOOSE i \in Rows \cup {0} : \A j \in Rows : j <= i

Register(h) ==
  /\ FreeNode \in Ids
  /\ row' = [row EXCEPT ![FreeNode] = h]
  /\ shown' = [shown EXCEPT ![FreeNode] = Nobody]

\* UPDATE ... WHERE id = ?: no row, no effect.
Update(i, h) == shown' = IF i \in Rows THEN [shown EXCEPT ![i] = h] ELSE shown

Unregister(i) ==
  /\ row' = [row EXCEPT ![i] = Nobody]
  /\ shown' = [shown EXCEPT ![i] = Nobody]

RegisterControl(i, h) == ctrl' = [ctrl EXCEPT ![i] = h]
UnregisterControl(i) == ctrl' = [ctrl EXCEPT ![i] = Nobody]

-----------------------------------------------------------------------------
(* List: PurgeInactive, in two steps.                                      *)

ActiveIDs == {i \in Ids : ctrl[i] # Nobody}

Snapshot(l) ==
  /\ listing[l] = "new"
  /\ snap' = [snap EXCEPT ![l] = ActiveIDs]
  /\ listing' = [listing EXCEPT ![l] = "deleting"]
  /\ UNCHANGED <<registry, contested>>

\* DELETE ... WHERE id NOT IN the snapshot; all of them when it is empty.
\* on: the numbers whose holder is still on.
Purge(l, on) ==
  /\ listing[l] = "deleting"
  /\ row' = [i \in Ids |-> IF i \in snap[l] THEN row[i] ELSE Nobody]
  /\ shown' = [i \in Ids |-> IF i \in snap[l] THEN shown[i] ELSE Nobody]
  /\ contested' = contested \cup ((on \cap Rows) \ snap[l])
  /\ listing' = [listing EXCEPT ![l] = "done"]
  /\ UNCHANGED <<ctrl, snap>>

RegistryTypeOK ==
  /\ row \in [Ids -> Holders \cup {Nobody}]
  /\ shown \in [Ids -> Holders \cup {Nobody}]
  /\ ctrl \in [Ids -> Holders \cup {Nobody}]
  /\ snap \in [Listings -> SUBSET Ids]
  /\ listing \in [Listings -> {"new", "deleting", "done"}]
  /\ contested \subseteq Ids
=============================================================================
