---------------------------- MODULE MCEchoExport ----------------------------
(* Small instances of EchoExport for TLC.                                  *)
EXTENDS EchoExport, TLC

CONSTANTS tick, menu, call, up, down

\* A leaf node whose scheduler's poll is the only goroutine at work.
PollOnly == tick :> "poll"
AllUp == [a \in Actors |-> up]

\* The scheduler's poll and a sysop's [S]can.
PollAndScan == tick :> "poll" @@ menu :> "scan"

\* A sysop's scan while one downlink has called twice.
ScanAndTwoCalls == menu :> "scan" @@ call :> "serve" @@ tick :> "serve"
CallsDown == menu :> up @@ call :> down @@ tick :> down

\* A hub has no uplink to poll: a sysop's scan and a downlink's calls.
ScanAndServe == menu :> "scan" @@ call :> "serve"
ScanAndServePeer == menu :> up @@ call :> down
=============================================================================
