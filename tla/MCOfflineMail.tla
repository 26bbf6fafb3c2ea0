---------------------------- MODULE MCOfflineMail ----------------------------
(* Casts: two runs of synchronize and netmail; a reader's QWK packets; the *)
(* replies of the device and of the reader; messages marked as read.       *)
EXTENDS OfflineMail

Nothing == [areas |-> {}, replies |-> {}, reads |-> FALSE, purge |-> FALSE,
            qwk |-> FALSE, syncs |-> {}]
CastsDef ==
  {[Nothing EXCEPT !.areas = {1}, !.syncs = Syncs],
   [Nothing EXCEPT !.areas = {1, 0}, !.syncs = {"job"}, !.purge = TRUE],
   [Nothing EXCEPT !.areas = {1, 2}, !.qwk = TRUE],
   [Nothing EXCEPT !.replies = {1, 3}, !.syncs = Syncs],
   [Nothing EXCEPT !.replies = {2, 4}, !.syncs = {"job"}],
   [Nothing EXCEPT !.replies = {5, 6, 7}],
   [Nothing EXCEPT !.areas = {1}, !.reads = TRUE, !.syncs = {"job"}]}
LongDef == {<<2, 2>>}
=============================================================================
