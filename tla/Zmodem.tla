------------------------------- MODULE Zmodem -------------------------------
(***************************************************************************)
(* Zmodem on callers' lines (internal/transfer/zmodem.go): ReceiveFile and *)
(* SendFile at the board's end, and at the caller's end a program which is *)
(* a port of this code or another one, written from the protocol.  A line  *)
(* keeps frames whole and in order; both sides use CRC-32.  A file is      *)
(* chunks, each sent as a data subpacket whose marker says what follows.   *)
(* All uploads here have one file name, in one directory.                  *)
(***************************************************************************)
EXTENDS Naturals, SequencesExt

CONSTANTS
  Lines,        \* callers
  Versions,     \* contents of files
  Chunks        \* how many chunks each has

ASSUME ZmodemAssumption ==
  /\ Chunks \in [Versions -> Nat] /\ Versions # {} /\ "uploads" \notin Lines

VARIABLES
  file,         \* what is under the name: in the upload directory, and on
                \* each caller's disk
  what, kind,   \* each line: the contents sent, and the caller's program
  end,          \* each end: what it does
  frames,       \* ... frames on their way to it
  pos,          \* ... a receiver's offset
  start, alone  \* history: the file it found, and whether nobody else has
                \* opened it since

zmodem == <<file, what, kind, end, frames, pos, start, alone>>

Ends == Lines \X {"board", "caller"}
Board(h) == <<h, "board">>
Caller(h) == <<h, "caller">>
Peer(e) == IF e = Board(e[1]) THEN Caller(e[1]) ELSE Board(e[1])
Dir(e) == IF e = Board(e[1]) THEN "uploads" ELSE e[1]
Port(e) == e = Board(e[1]) \/ kind[e[1]] = "port"

Content(v) == [i \in 1..Chunks[v] |-> <<v, i>>]
Wanted(e) == Content(what[e[1]])
Frame(type) == <<type>>
Offset(n) == <<"ZRPOS", n>>
Sub(chunk, marker) == <<"sub", chunk, marker>>
IsSub(f) == f[1] = "sub"

AnyVersion == CHOOSE v \in Versions : TRUE

ZmodemInit ==
  /\ file = [d \in {"uploads"} \cup Lines |-> <<>>]
  /\ what = [h \in Lines |-> AnyVersion] /\ kind = [h \in Lines |-> "port"]
  /\ end = [e \in Ends |-> "idle"] /\ frames = [e \in Ends |-> <<>>]
  /\ pos = [e \in Ends |-> 0] /\ start = frames
  /\ alone = [e \in Ends |-> TRUE]

\* Values of f at the two ends of a line.
Both(f, h, board, caller) == [f EXCEPT ![Board(h)] = board, ![Caller(h)] = caller]

\* The receiver's first word is ZRINIT.  A download may find a beginning of
\* the file on the caller's disk.
Begin(h, v, k, board, caller) ==
  /\ what' = [what EXCEPT ![h] = v] /\ kind' = [kind EXCEPT ![h] = k]
  /\ end' = Both(end, h, board, caller)
  /\ frames' = Both(frames, h, IF board = "init" THEN <<Frame("ZRINIT")>> ELSE <<>>,
                               IF caller = "init" THEN <<Frame("ZRINIT")>> ELSE <<>>)
  /\ alone' = Both(alone, h, TRUE, TRUE)
  /\ \E n \in 0..(IF board = "init" THEN Chunks[v] ELSE 0) :
       file' = [file EXCEPT ![h] = SubSeq(Content(v), 1, n)]
  /\ UNCHANGED <<pos, start>>
BeginReceive(h, v, k) == Begin(h, v, k, "file", "init")
BeginSend(h, v, k) == Begin(h, v, k, "init", "file")

Ended(e) == end[e] \in {"idle", "sent", "received", "failed"}

\* The session goes on; what the program still does is not here.
Settle(h) ==
  /\ what' = [what EXCEPT ![h] = AnyVersion] /\ kind' = [kind EXCEPT ![h] = "port"]
  /\ end' = Both(end, h, "idle", "idle") /\ frames' = Both(frames, h, <<>>, <<>>)
  /\ pos' = Both(pos, h, 0, 0) /\ start' = Both(start, h, <<>>, <<>>)
  /\ alone' = Both(alone, h, TRUE, TRUE)
  /\ file' = [file EXCEPT ![h] = <<>>]

-----------------------------------------------------------------------------
\* A frame comes; the end sends frames, and goes on to a step.
Takes(e, sent, step) ==
  /\ frames' = [frames EXCEPT ![e] = Tail(@), ![Peer(e)] = @ \o sent]
  /\ end' = [end EXCEPT ![e] = step]
Came(e, step) == end[e] = step /\ frames[e] # <<>>
First(e) == Head(frames[e])
Type(e) == First(e)[1]

(* ReceiveFile.                                                            *)

Receiving(e) == end[e] \in {"frame", "sub", "swallow"}

\* The file of that name is taken for the beginning of this one.
OpenFile(e) ==
  LET f == file[Dir(e)] IN
  /\ Came(e, "file") /\ Type(e) = "ZFILE" /\ Takes(e, <<Offset(Len(f))>>, "frame")
  /\ pos' = [pos EXCEPT ![e] = Len(f)] /\ start' = [start EXCEPT ![e] = f]
  /\ alone' = [d \in Ends |->
       IF d = e THEN \A g \in Ends \ {e} : Dir(g) = Dir(e) => ~Receiving(g)
       ELSE alone[d] /\ (Dir(d) = Dir(e) => end[d] = "idle")]
  /\ UNCHANGED <<file, what, kind>>

\* Nothing was sent; what else comes first is passed over, CAN among it.
NoFile(e) ==
  /\ Came(e, "file") /\ Type(e) # "ZFILE"
  /\ IF Type(e) = "ZFIN" THEN Takes(e, <<Frame("ZFIN")>>, "received")
     ELSE Takes(e, <<>>, "file")
  /\ UNCHANGED <<file, what, kind, pos, start, alone>>

\* What it does at a header, and answers; others, and data, are passed over.
Header == [ZDATA |-> "sub", ZEOF |-> "received", ZFIN |-> "received", CAN |-> "failed"]
Reply == [ZEOF |-> "ZRINIT", ZFIN |-> "ZFIN"]

TakeHeader(e) ==
  /\ Came(e, "frame")
  /\ Takes(e, IF Type(e) \in DOMAIN Reply THEN <<Frame(Reply[Type(e)])>> ELSE <<>>,
              IF Type(e) \in DOMAIN Header THEN Header[Type(e)] ELSE "frame")
  /\ UNCHANGED <<file, what, kind, pos, start, alone>>

\* A file found is appended to; one created is written at the own offset.
Write(e, chunk) ==
  /\ file' = [file EXCEPT ![Dir(e)] =
       IF start[e] # <<>> \/ pos[e] >= Len(@) THEN Append(@, chunk)
       ELSE [@ EXCEPT ![pos[e] + 1] = chunk]]
  /\ pos' = [pos EXCEPT ![e] = @ + 1]

\* Mutant: a header is looked for after each subpacket.
FollowsHeader(e, marker) == "frame"

\* This code takes only ZCRCW for the end of a run of subpackets.
Follows(e, marker) ==
  IF marker = "ZCRCW" \/ (marker = "ZCRCE" /\ ~Port(e)) THEN "frame" ELSE "sub"

TakeSub(e) ==
  /\ Came(e, "sub") /\ IsSub(First(e)) /\ Write(e, First(e)[2])
  /\ LET marker == First(e)[3] IN
     Takes(e, IF marker \in {"ZCRCW", "ZCRCQ"} THEN <<Frame("ZACK")>> ELSE <<>>,
           Follows(e, marker))
  /\ UNCHANGED <<what, kind, start, alone>>

\* Where a subpacket is due, a header, or CAN, is read as its first bytes,
\* and then the next subpacket fails its CRC.
Swallow(e) ==
  /\ Port(e)
  /\ \/ Came(e, "sub") /\ ~IsSub(First(e)) /\ Takes(e, <<>>, "swallow")
     \/ Came(e, "swallow") /\ Takes(e, <<>>, IF IsSub(First(e)) THEN "failed"
                                             ELSE "swallow")
  /\ UNCHANGED <<file, what, kind, pos, start, alone>>

-----------------------------------------------------------------------------
(* SendFile.                                                               *)

SameFiles == UNCHANGED <<file, what, kind, pos, start, alone>>

\* CAN does not end the wait.
WaitInit(e) ==
  /\ Came(e, "init") /\ SameFiles
  /\ IF Type(e) = "ZRINIT" THEN Takes(e, <<Frame("ZFILE")>>, "answer")
     ELSE Takes(e, <<>>, "init")

\* Mutant: the file is read from its beginning.
FromStart(e) == 1
From(e) == First(e)[2] + 1

\* From the offset asked for; nothing is read meanwhile.  This code sends
\* ZDATA even if nothing is left, and wants the last subpacket acknowledged.
Stream(e) ==
  LET left == SubSeq(Wanted(e), From(e), Len(Wanted(e)))
      last == IF Port(e) THEN "ZCRCW" ELSE "ZCRCE"
      subs == [i \in 1..Len(left) |->
                 Sub(left[i], IF i = Len(left) THEN last ELSE "ZCRCG")]
      data == IF Port(e) \/ left # <<>> THEN <<Frame("ZDATA")>> \o subs ELSE <<>>
  IN IF Port(e) /\ left # <<>> THEN Takes(e, data, "ack")
     ELSE Takes(e, Append(data, Frame("ZEOF")), "ready")

\* The answer to ZFILE; to a ZRINIT it is sent once more.
TakeAnswer(e) ==
  /\ SameFiles
  /\ \E step \in {"answer", "answer again"} :
       /\ Came(e, step)
       /\ CASE Type(e) = "ZRPOS" -> Stream(e)
            [] Type(e) = "ZSKIP" /\ step = "answer" -> Takes(e, <<>>, "sent")
            [] Type(e) = "ZRINIT" /\ step = "answer" ->
                 Takes(e, <<Frame("ZFILE")>>, "answer again")
            [] OTHER -> Takes(e, <<>>, "failed")

\* Any frame is taken for ZACK, and any for ZRINIT.
WaitAny(e) ==
  /\ \/ Came(e, "ack") /\ Takes(e, <<Frame("ZEOF")>>, "ready")
     \/ Came(e, "ready") /\ Takes(e, <<Frame("ZFIN")>>, "over")
  /\ SameFiles

\* Two bytes more are read: OO, a part of a frame, or keys.
Over(e) ==
  /\ end[e] = "over" /\ end' = [end EXCEPT ![e] = "sent"]
  /\ UNCHANGED frames /\ SameFiles

TransferStep(e) ==
  \/ OpenFile(e) \/ NoFile(e) \/ TakeHeader(e) \/ TakeSub(e) \/ Swallow(e)
  \/ WaitInit(e) \/ TakeAnswer(e) \/ WaitAny(e)

\* A read or a write fails.
Breaks(e) ==
  /\ ~Ended(e) /\ end[e] # "over" /\ end' = [end EXCEPT ![e] = "failed"]
  /\ UNCHANGED frames /\ SameFiles

-----------------------------------------------------------------------------
(* What the other program may do besides.                                  *)

Odd(e) == /\ ~Port(e) /\ kind' = [kind EXCEPT ![e[1]] = "odd"]
          /\ UNCHANGED <<file, what, pos, start, alone>>

\* It has no file to send, or wants none.
SendNothing(e) == Came(e, "init") /\ Odd(e) /\ Takes(e, <<Frame("ZFIN")>>, "sent")
Skip(e) ==
  /\ Came(e, "file") /\ Type(e) = "ZFILE" /\ Odd(e)
  /\ Takes(e, <<Frame("ZSKIP")>>, "received")

\* It could not read what came, and asks for it again.
AskAgain(e) ==
  Came(e, "sub") /\ Odd(e) /\ Takes(e, <<Offset(pos[e])>>, "frame")

Cancel(e) ==
  /\ ~Ended(e) /\ Odd(e) /\ end' = [end EXCEPT ![e] = "failed"]
  /\ frames' = [frames EXCEPT ![Peer(e)] = Append(@, Frame("CAN"))]

OtherProgram(e) == SendNothing(e) \/ Skip(e) \/ AskAgain(e) \/ Cancel(e)

-----------------------------------------------------------------------------
ZmodemTypeOK ==
  /\ what \in [Lines -> Versions] /\ kind \in [Lines -> {"port", "other", "odd"}]
  /\ \A d \in DOMAIN file : file[d] \in Seq(Versions \X Nat)
  /\ end \in [Ends -> {"idle", "file", "frame", "sub", "swallow", "received", "init",
                       "answer", "answer again", "ack", "ready", "over", "sent",
                       "failed"}]
  /\ pos \in [Ends -> Nat] /\ alone \in [Ends -> BOOLEAN]

\* Fits: the receiver found a beginning of the file that is sent, nobody
\* else wrote to it, and the program took no turn of its own.
Fits(e) == IsPrefix(start[e], Wanted(e)) /\ alone[e] /\ kind[e[1]] # "odd"

\* Where either end takes the transfer for complete - an upload is then
\* registered, a download counted - the receiver has the whole file, also
\* if it was resumed.
TransferWhole ==
  \A e \in Ends :
    /\ end[e] = "received" /\ Fits(e) => file[Dir(e)] = Wanted(e)
    /\ end[e] = "sent" /\ Fits(Peer(e)) => file[Dir(Peer(e))] = Wanted(e)
=============================================================================
