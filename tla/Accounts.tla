------------------------------ MODULE Accounts ------------------------------
(***************************************************************************)
(* One account (internal/users/store.go) and those who work on it.  A      *)
(* session keeps the copy it read at login and writes the whole row from   *)
(* it whenever it changes a field; the web's pages read a copy, change it  *)
(* and write it in one request.  Kept are the columns that two of them     *)
(* work on: the password and the mark of a deleted account.                *)
(***************************************************************************)
EXTENDS Naturals

CONSTANTS
  Keepers,      \* sessions and requests that keep a copy of the account
  MaxPassword   \* bound on changes of the password

ASSUME AccountsAssumption == MaxPassword \in Nat

VARIABLES
  acct,         \* the row
  copy,         \* the copies
  old           \* those whose copy is older than the last change of the mark

accounts == <<acct, copy, old>>

Account == [pw : 0..MaxPassword, deleted : BOOLEAN]
Blank == [pw |-> 0, deleted |-> FALSE]

AccountsInit ==
  /\ acct = Blank /\ copy = [k \in Keepers |-> Blank] /\ old = {}

\* GetByID, GetByName.
GetUser(k) ==
  /\ copy' = [copy EXCEPT ![k] = acct] /\ old' = old \ {k} /\ UNCHANGED acct

\* A deleted account is not found.
Authenticate(k) == ~acct.deleted /\ GetUser(k)

\* Mutant: the password hash is one of the columns written.
UpdateAll(k, del) ==
  /\ acct' = [copy[k] EXCEPT !.deleted = del]
  /\ old' = IF del = acct.deleted THEN old ELSE Keepers
  /\ UNCHANGED copy

\* Update: every column of the copy but the password and the last login.
\* del: what the copy's deleted flag was set to before.
UpdateUser(k, del) ==
  /\ acct' = [copy[k] EXCEPT !.pw = acct.pw, !.deleted = del]
  /\ old' = IF del = acct.deleted THEN old ELSE Keepers
  /\ UNCHANGED copy

SetPassword ==
  /\ acct.pw < MaxPassword /\ acct' = [acct EXCEPT !.pw = @ + 1]
  /\ UNCHANGED <<copy, old>>

DeleteUser ==
  /\ acct' = [acct EXCEPT !.deleted = TRUE] /\ old' = Keepers
  /\ UNCHANGED copy

AccountsTypeOK ==
  acct \in Account /\ copy \in [Keepers -> Account] /\ old \subseteq Keepers
=============================================================================
