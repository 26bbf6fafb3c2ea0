--------------------------- MODULE MCCallerSessions ---------------------------
(* Casts: a caller who goes everywhere; two callers and a listing; a caller, *)
(* web doors and a listing; a web session with three requests, and a listing *)
(* or a caller beside it; a caller or a web session whose account the sysop  *)
(* edits; one caller who downloads and one who uploads, and two who upload;  *)
(* a caller who writes in the screen editor.                                 *)
EXTENDS CallerSessions

ChunksDef == [a |-> 2, b |-> 1, none |-> 0]

Everywhere == UNION {Menu[m].calls : m \in Menus}
Few == {"messages", "screen_editor", "files", "doors", "door"}

CastsDef == {{"h1", "l1"} \cup Everywhere,
             {"h1", "h2", "l1"} \cup Few,
             {"h1", "d1", "d2", "l1", "doors", "door"},
             {"r1", "r2", "r3", "l1"},
             {"h1", "r1", "r2", "l1", "messages"},
             {"d1", "r1", "r2", "r3"},
             {"h1", "e1", "e2", "profile", "editor_choice", "files", "transfer",
              "upload", "port", "b"},
             {"r1", "r2", "e1"},
             {"h1", "files", "transfer", "download", "port", "other", "a", "none"},
             {"h1", "files", "transfer", "upload", "port", "other", "a", "b", "none"},
             {"h1", "h2", "files", "transfer", "upload", "port", "a"},
             {"h1", "messages", "screen_editor", "keys"}}
=============================================================================
