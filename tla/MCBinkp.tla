------------------------------ MODULE MCBinkp ------------------------------
(* One file for the answerer, two for the caller.                          *)
EXTENDS BinkpSession

\* A long file, or a crash has left the last file empty.
MCSizes == {[f \in Files |-> IF f = 1 THEN 2 ELSE 1],
            [f \in Files |-> IF f = 4 THEN 0 ELSE 1]}

\* Two VirtBBS nodes in any standing; another mailer at either end, admitted.
MCSettings == {"none"} \X Standings \cup {"caller", "answerer"} \X {"right"}

\* A Poll of another mailer that sends its file at the same time.
LongSizes == {[f \in Files |-> 2]}
BinkdAnswers == {<<"answerer", "right">>}
=============================================================================
