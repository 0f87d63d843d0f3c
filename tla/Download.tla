------------------------------- MODULE Download -------------------------------
(***************************************************************************)
(* Downloading the paks a client misses, over the channel: the window of   *)
(* SV_WriteDownloadToClient on the server, CL_ParseDownload and            *)
(* CL_NextDownload on the client, and the commands "download", "nextdl",   *)
(* "stopdl" and "donedl" between them.                                     *)
(*                                                                         *)
(* The k-th block of file f is the pair <<f, k>>; the block after the last *)
(* one is empty and ends the file.  Messages to the client are in flight   *)
(* as in ServerCommands.  Commands of the client arrive once and in order  *)
(* (ClientCommands), so they are a queue: what the client holds as         *)
(* unacknowledged, of which the server has executed the first ones.  Both  *)
(* numbers are counted from the client's last acknowledged command.        *)
(*                                                                         *)
(* One map, no redirection to a web server, and time only as "more than a  *)
(* second has passed since downloadSendTime", which may be so at any time. *)
(***************************************************************************)
EXTENDS Integers, Sequences, FiniteSets

CONSTANTS Paks,           \* the files the server runs with, in order
          Blocks,         \* Blocks[f]: how many blocks with data f has
          Refused,        \* files the server does not give away
          Unwritable,     \* files the client cannot create
          NoFile,         \* an empty name
          MAX_DOWNLOAD_WINDOW,
          SHORT,          \* 2^16: the block number is sent as a short
          MAX_RELIABLE_COMMANDS,  \* commands the client may have unacknowledged
          MaxInFlight     \* bound: messages in flight to the client

File == {Paks[i] : i \in DOMAIN Paks}

ASSUME DownloadAssumption ==
    /\ Paks \in Seq(File)
    /\ Blocks \in [File -> Nat]
    /\ NoFile \notin File
    /\ {MAX_DOWNLOAD_WINDOW, SHORT, MAX_RELIABLE_COMMANDS, MaxInFlight} \subseteq Nat \ {0}
    /\ MAX_DOWNLOAD_WINDOW <= SHORT                             \* 48 and 65536

VARIABLES
    cl,        \* server: the download fields of the client_t
    clc,       \* client: the download fields of clc, its commands, its files
    toClient,  \* messages in flight
    confused   \* history: the client accepted a block of another file

vars == <<cl, clc, toClient, confused>>

Content(f)  == [k \in 1 .. Blocks[f] |-> <<f, k - 1>>]
Absent      == <<NoFile>>
NoBlock     == <<NoFile, 0>>
Empty(b)    == b[1] # NoFile /\ b[2] = Blocks[b[1]]
Slot(i)     == i % MAX_DOWNLOAD_WINDOW
Largest(S)  == CHOOSE x \in S : \A y \in S : y <= x
Least(S)    == CHOOSE x \in S : \A y \in S : x <= y

\* A number as MSG_ReadShort returns it after MSG_WriteShort.
Short(i) == LET r == i % SHORT IN IF 2 * r >= SHORT THEN r - SHORT ELSE r

Command(op, arg) == [op |-> op, arg |-> arg]
Message(kind, block, data) ==
    [kind |-> kind, block |-> block, data |-> data, lastClientCommand |-> cl.executed]

\* What is in flight after m is sent; the oldest is lost if there is no room.
Sent(m) ==
    IF Len(toClient) < MaxInFlight THEN Append(toClient, m) ELSE Append(Tail(toClient), m)

-----------------------------------------------------------------------------
(* The client.  Operators take the clc record and return it changed.       *)

\* A client that needs more than the ring is lost: overflow is an error.
CL_AddReliableCommand(c, cmd) ==
    IF Len(c.unacknowledged) >= MAX_RELIABLE_COMMANDS THEN [c EXCEPT !.state = "error"]
    ELSE [c EXCEPT !.unacknowledged = Append(@, cmd)]

CL_BeginDownload(c, f) ==
    CL_AddReliableCommand([c EXCEPT !.downloadTempName = f, !.downloadBlock = 0],
                          Command("download", f))

\* Files were downloaded: ask for a new gamestate.  Otherwise load the map.
CL_DownloadsComplete(c) ==
    IF c.downloadRestart
    THEN CL_AddReliableCommand([c EXCEPT !.downloadRestart = FALSE], Command("donedl", 0))
    ELSE [c EXCEPT !.state = "loading"]

CL_NextDownload(c) ==
    IF c.state = "error" THEN c
    ELSE IF c.downloadList = {} THEN CL_DownloadsComplete(c)
    ELSE [CL_BeginDownload(c, Paks[Least(c.downloadList)])
            EXCEPT !.downloadRestart = TRUE, !.downloadList = @ \ {Least(@)}]

\* FS_ComparePaks: the files that are not there as the server has them, by
\* their places in the list.
Missing(c) == {i \in DOMAIN Paks : c.disk[Paks[i]] # Content(Paks[i])}

CL_InitDownloads(c) ==
    IF Missing(c) = {} THEN CL_DownloadsComplete([c EXCEPT !.state = "loading"])
    ELSE CL_NextDownload([c EXCEPT !.state = "connected", !.downloadList = Missing(c)])

\* The block is written and acknowledged; an empty one completes the file.
AcceptBlock(c, b) ==
    LET opened == IF c.download THEN c
                  ELSE [c EXCEPT !.download = TRUE, !.tmp = <<>>]
        taken  == [CL_AddReliableCommand(opened, Command("nextdl", c.downloadBlock))
                     EXCEPT !.downloadBlock = @ + 1,
                            !.tmp = IF Empty(b) THEN @ ELSE Append(@, b)]
    IN  IF ~Empty(b) \/ taken.state = "error" THEN taken
        ELSE CL_NextDownload([taken EXCEPT !.disk[c.downloadTempName] = taken.tmp,
                                           !.download = FALSE, !.tmp = <<>>,
                                           !.downloadTempName = NoFile])

\* Only the block expected is taken.
ParseBlock(c, m) ==
    IF c.downloadBlock # m.block THEN c
    ELSE IF ~c.download /\ c.downloadTempName \in Unwritable
    THEN CL_NextDownload(CL_AddReliableCommand(c, Command("stopdl", 0)))
    ELSE AcceptBlock(c, m.data)

\* Without a download in progress the block is left unread, and the bytes that
\* follow are taken for message types: mostly an error, which depends on them.
CL_ParseDownload(c, m) ==
    IF c.downloadTempName = NoFile
    THEN LET stopped == CL_AddReliableCommand(c, Command("stopdl", 0))
         IN  {stopped, [stopped EXCEPT !.state = "error"]}
    ELSE IF m.kind = "refused" THEN {[c EXCEPT !.state = "error"]}
    ELSE {ParseBlock(c, m)}

\* clc after the first n of its commands were acknowledged.
Acknowledged(c, n) ==
    [c EXCEPT !.unacknowledged = SubSeq(@, n + 1, Len(@))]

\* The n-th message in flight.
CL_ParseServerMessage(n) ==
    LET m == toClient[n]
        c == Acknowledged(clc, m.lastClientCommand)
    IN  /\ clc.state # "error"
        /\ toClient' = [i \in 1 .. Len(toClient) - n |->
              [toClient[n + i] EXCEPT !.lastClientCommand = @ - m.lastClientCommand]]
        /\ cl' = [cl EXCEPT !.executed = @ - m.lastClientCommand]
        /\ \/ /\ m.kind \in {"block", "refused"}
              /\ clc' \in CL_ParseDownload(c, m)
              /\ confused' = (confused \/ ( /\ c.downloadTempName # NoFile
                                            /\ c.downloadBlock = m.block
                                            /\ c.downloadTempName # m.data[1] ))
           \/ /\ m.kind = "gamestate"
              /\ clc' = CL_InitDownloads(c)
              /\ UNCHANGED confused
           \/ /\ m.kind = "nop"
              /\ clc' = c
              /\ UNCHANGED confused

-----------------------------------------------------------------------------
(* The server.                                                             *)

SV_CloseDownload(c) == [c EXCEPT !.downloadName = NoFile, !.download = FALSE]

\* SV_BeginDownload_f: the file is opened when the first message is written.
SV_BeginDownload_f(c, f) == [SV_CloseDownload(c) EXCEPT !.downloadName = f]

\* SV_NextDownload_f, "broken download" included.
SV_NextDownload_f(c, block) ==
    IF block # c.downloadClientBlock
    THEN [SV_CloseDownload(c) EXCEPT !.state = "broken"]
    ELSE IF Empty(c.downloadBlocks[Slot(block)]) THEN SV_CloseDownload(c)
    ELSE [c EXCEPT !.downloadClientBlock = @ + 1]

SV_StopDownload_f(c) == SV_CloseDownload(c)

SV_SendMessage(m) == toClient' = Sent(m)

\* The gamestate acknowledges "donedl" already.
SV_DoneDownload_f ==
    SV_SendMessage([Message("gamestate", 0, NoBlock) EXCEPT !.lastClientCommand = @ + 1])

\* SV_ExecuteClientCommand, of the next command of the client.  A zombie's
\* packets are not read.
SV_ExecuteClientCommand ==
    /\ cl.state = "primed"
    /\ cl.executed < Len(clc.unacknowledged)
    /\ LET cmd == clc.unacknowledged[cl.executed + 1]
           c   == [cl EXCEPT !.executed = @ + 1]
       IN  \/ /\ cmd.op = "download"
              /\ cl' = SV_BeginDownload_f(c, cmd.arg)
              /\ UNCHANGED toClient
           \/ /\ cmd.op = "nextdl"
              /\ cl' = SV_NextDownload_f(c, cmd.arg)
              /\ UNCHANGED toClient
           \/ /\ cmd.op = "stopdl"
              /\ cl' = SV_StopDownload_f(c)
              /\ UNCHANGED toClient
           \/ /\ cmd.op = "donedl"
              /\ cl' = c
              /\ SV_DoneDownload_f
    /\ UNCHANGED <<clc, confused>>

\* The file is opened if it is not yet.
Opened(c) ==
    IF c.download THEN c
    ELSE [c EXCEPT !.download = TRUE, !.downloadCurrentBlock = 0,
                   !.downloadClientBlock = 0, !.downloadXmitBlock = 0]

\* Mutant: one block too many is read.
ReadTo_OneMore(c) == c.downloadClientBlock + MAX_DOWNLOAD_WINDOW + 1

\* The window ends before this block.
ReadTo(c) == c.downloadClientBlock + MAX_DOWNLOAD_WINDOW

\* The blocks the window has room for are read, the empty one after the last.
Read(c) ==
    LET f    == c.downloadName
        end  == IF ReadTo(c) <= Blocks[f] + 1 THEN ReadTo(c) ELSE Blocks[f] + 1
        new  == c.downloadCurrentBlock .. end - 1
    IN  [c EXCEPT !.downloadCurrentBlock = IF new = {} THEN @ ELSE end,
                  !.downloadBlocks = [s \in DOMAIN @ |->
                      LET here == {i \in new : Slot(i) = s}
                      IN  IF here = {} THEN @[s] ELSE <<f, Largest(here)>>]]

\* Mutant: once the window was sent, nothing is sent again.
SendAgain_Never(c) == FALSE

\* The window was sent and the last message is more than a second old.
SendAgain(c) == c.downloadXmitBlock = c.downloadCurrentBlock

\* The next block goes out.
SendBlock(c) ==
    /\ SV_SendMessage(Message("block", Short(c.downloadXmitBlock),
                              c.downloadBlocks[Slot(c.downloadXmitBlock)]))
    /\ cl' = [c EXCEPT !.downloadXmitBlock = @ + 1]

SV_WriteDownloadToClient ==
    LET c == Read(Opened(cl)) IN
    \/ /\ ~cl.download
       /\ cl.downloadName \in Refused
       /\ SV_SendMessage(Message("refused", 0, NoBlock))
       /\ cl' = SV_CloseDownload(cl)
    \/ /\ cl.download \/ cl.downloadName \notin Refused
       /\ c.downloadClientBlock # c.downloadCurrentBlock
       /\ \/ /\ c.downloadXmitBlock # c.downloadCurrentBlock
             /\ SendBlock(c)
          \/ /\ SendAgain(c)
             /\ SendBlock([c EXCEPT !.downloadXmitBlock = c.downloadClientBlock])

SV_SendDownloadMessages ==
    /\ cl.downloadName # NoFile
    /\ SV_WriteDownloadToClient
    /\ UNCHANGED <<clc, confused>>

\* Snapshots, of which only the acknowledgement matters here.
SV_SendClientSnapshot ==
    /\ cl.downloadName = NoFile
    /\ SV_SendMessage(Message("nop", 0, NoBlock))
    /\ UNCHANGED <<cl, clc, confused>>

\* A timeout, a kick.
SV_DropClient ==
    /\ cl.state = "primed"
    /\ cl' = [SV_CloseDownload(cl) EXCEPT !.state = "zombie"]
    /\ UNCHANGED <<clc, toClient, confused>>

-----------------------------------------------------------------------------
\* The client has read its first gamestate, and has some of the files.
Init ==
    /\ cl = [state |-> "primed", executed |-> 0, downloadName |-> NoFile,
             download |-> FALSE, downloadClientBlock |-> 0,
             downloadCurrentBlock |-> 0, downloadXmitBlock |-> 0,
             downloadBlocks |-> [s \in 0 .. MAX_DOWNLOAD_WINDOW - 1 |-> NoBlock]]
    /\ \E have \in SUBSET File :
         clc = CL_InitDownloads(
               [state |-> "connected", unacknowledged |-> <<>>,
                downloadTempName |-> NoFile, download |-> FALSE, downloadBlock |-> 0,
                downloadList |-> {}, downloadRestart |-> FALSE, tmp |-> <<>>,
                disk |-> [f \in File |-> IF f \in have THEN Content(f) ELSE Absent]])
    /\ toClient = <<>>
    /\ confused = FALSE

Next ==
    \/ \E n \in 1 .. Len(toClient) : CL_ParseServerMessage(n)
    \/ SV_ExecuteClientCommand
    \/ SV_SendDownloadMessages
    \/ SV_SendClientSnapshot
    \/ SV_DropClient

Spec == Init /\ [][Next]_vars

ParseBlockOf(f, k) ==
    \E n \in 1 .. Len(toClient) :
        /\ toClient[n].kind \in {"block", "refused"}
        /\ toClient[n].data \in {<<f, k>>, NoBlock}
        /\ CL_ParseServerMessage(n)

ParseGameState ==
    \E n \in 1 .. Len(toClient) :
        toClient[n].kind = "gamestate" /\ CL_ParseServerMessage(n)

\* The server sends in every pass of its loop (SV_SendQueuedPackets), commands
\* arrive (EveryCommandArrives of ClientCommands), and a message that is sent
\* again and again is received.
FairSpec ==
    /\ Spec
    /\ WF_vars(SV_SendDownloadMessages)
    /\ WF_vars(SV_ExecuteClientCommand)
    /\ \A f \in File : \A k \in 0 .. Blocks[f] : SF_vars(ParseBlockOf(f, k))
    /\ SF_vars(ParseGameState)

-----------------------------------------------------------------------------
Block == (File \X Nat) \cup {NoBlock}

TypeOK ==
    /\ cl.state \in {"primed", "broken", "zombie"}
    /\ cl.executed \in 0 .. Len(clc.unacknowledged)
    /\ cl.downloadName \in File \cup {NoFile}
    /\ cl.download => cl.downloadName # NoFile
    /\ {cl.downloadClientBlock, cl.downloadCurrentBlock, cl.downloadXmitBlock} \subseteq Nat
    /\ cl.downloadXmitBlock <= cl.downloadCurrentBlock
    /\ \A s \in DOMAIN cl.downloadBlocks : cl.downloadBlocks[s] \in Block
    /\ clc.state \in {"connected", "loading", "error"}
    /\ Len(clc.unacknowledged) <= MAX_RELIABLE_COMMANDS
    /\ clc.downloadTempName \in File \cup {NoFile}
    /\ clc.downloadBlock \in Nat
    /\ \A i \in 1 .. Len(toClient) :
         toClient[i].lastClientCommand \in 0 .. cl.executed

(***************************************************************************)
(* A file the client renames to its final name has the blocks of the       *)
(* server's file, each once and in order, although blocks are lost and     *)
(* sent again, the buffers of the window are reused, and a block sent      *)
(* again may be in a buffer that was reused: unless a block of another     *)
(* file was taken for the one expected.                                    *)
(***************************************************************************)
FileIntact ==
    ~confused => \A f \in File : clc.disk[f] \in {Absent, Content(f)}

(***************************************************************************)
(* "The argument will be the last acknowledged block from the client, it   *)
(* should be the same as cl->downloadClientBlock" (SV_NextDownload_f): the *)
(* client is not dropped for a broken download.  The code does not ensure  *)
(* this: no run requires it, and the README gives an instance.             *)
(***************************************************************************)
AcknowledgeMatches == cl.state # "broken"

\* The client failed, or was dropped.
Ended == clc.state = "error" \/ cl.state # "primed"

(***************************************************************************)
(* A download the client began comes to an end, although any message may   *)
(* be lost, provided the block numbers of the file fit into a short.  Not  *)
(* so for a file the server refuses: it says so once, and that message may *)
(* be lost.                                                                *)
(***************************************************************************)
FilesArrive ==
    \A f \in File \ (Refused \cup Unwritable) :
        2 * Blocks[f] < SHORT =>
            (clc.downloadTempName = f ~> clc.downloadTempName # f \/ Ended \/ confused)

(***************************************************************************)
(* "inform the server so we get new gamestate info" (CL_DownloadsComplete):*)
(* a client that has downloaded all files gets a gamestate and loads.  The *)
(* code does not ensure this: no run requires it, see the README.          *)
(***************************************************************************)
Downloaded == clc.downloadTempName = NoFile /\ clc.downloadList = {}
GameStateFollows == Downloaded ~> clc.state = "loading" \/ Ended
=============================================================================
