---------------------------- MODULE DownloadProofs ----------------------------
(***************************************************************************)
(* That downloaded files are whole, for any number of files, of any number *)
(* of blocks, for every window and whatever is lost or sent again, unless  *)
(* a block of another file was taken (FilesAreIntact).                     *)
(*                                                                         *)
(* The buffers of the window are used again, so that a message may carry   *)
(* the number of a block and the contents of a later one.  The invariant   *)
(* says that this happens to blocks only which the client has already, and *)
(* for that it follows the client's commands: what the server has executed *)
(* of them and what is still to be executed make up what the client has.   *)
(***************************************************************************)
EXTENDS Download, SequenceTheorems, FiniteSetTheorems, WellFoundedInduction, TLAPS

\* Every file is in the server's list once.
DistinctPaks == \A i, j \in DOMAIN Paks : Paks[i] = Paks[j] => i = j

Writable == File \ Unwritable

-----------------------------------------------------------------------------
(* s, c and q stand for cl, clc and toClient.                              *)

\* What the client says.
ClientCommand ==
    {Command("download", f) : f \in File} \cup {Command("nextdl", k) : k \in Nat}
    \cup {Command(op, 0) : op \in {"stopdl", "donedl"}}

\* The fields of the records, which are all assigned to separately.
ServerShape(s) ==
    /\ s = [state |-> s.state, executed |-> s.executed, downloadName |-> s.downloadName,
            download |-> s.download, downloadClientBlock |-> s.downloadClientBlock,
            downloadCurrentBlock |-> s.downloadCurrentBlock,
            downloadXmitBlock |-> s.downloadXmitBlock,
            downloadBlocks |-> s.downloadBlocks]
    /\ s.downloadName \in File \cup {NoFile}
    /\ s.download \in BOOLEAN
    /\ s.executed \in Nat /\ s.downloadClientBlock \in Nat
    /\ s.downloadCurrentBlock \in Nat /\ s.downloadXmitBlock \in Nat
    /\ DOMAIN s.downloadBlocks = 0 .. MAX_DOWNLOAD_WINDOW - 1

ClientShape(c) ==
    /\ c = [state |-> c.state, unacknowledged |-> c.unacknowledged,
            downloadTempName |-> c.downloadTempName, download |-> c.download,
            downloadBlock |-> c.downloadBlock, downloadList |-> c.downloadList,
            downloadRestart |-> c.downloadRestart, tmp |-> c.tmp, disk |-> c.disk]
    /\ c.unacknowledged \in Seq(ClientCommand)
    /\ c.downloadTempName \in File \cup {NoFile}
    /\ c.download \in BOOLEAN /\ c.downloadRestart \in BOOLEAN
    /\ c.downloadBlock \in Nat
    /\ c.downloadList \subseteq DOMAIN Paks
    /\ DOMAIN c.disk = File

MessageShape(m) ==
    /\ m = [kind |-> m.kind, block |-> m.block, data |-> m.data,
            lastClientCommand |-> m.lastClientCommand]
    /\ m.block \in Int /\ m.lastClientCommand \in Nat

Shapes(s, c, q) ==
    /\ ServerShape(s)
    /\ ClientShape(c)
    /\ \E S : q \in Seq(S)
    /\ \A i \in 1 .. Len(q) : MessageShape(q[i])

\* Acknowledgements are of commands executed, and in order.
Acknowledgements(s, c, q) ==
    /\ s.executed <= Len(c.unacknowledged)
    /\ \A i \in 1 .. Len(q) : q[i].lastClientCommand <= s.executed
    /\ \A i, j \in 1 .. Len(q) : i < j => q[i].lastClientCommand <= q[j].lastClientCommand

-----------------------------------------------------------------------------
\* The client's commands that the server has not executed.
Pending(s, c) == s.executed + 1 .. Len(c.unacknowledged)

\* The server has not been asked for f, and has read and sent nothing of it.
Unread(s, q, f) ==
    /\ s.downloadName # f
    /\ \A n \in DOMAIN s.downloadBlocks : s.downloadBlocks[n][1] # f
    /\ \A i \in 1 .. Len(q) : q[i].data[1] # f

Untouched(s, c, q, f) ==
    /\ Unread(s, q, f)
    /\ \A i \in Pending(s, c) : c.unacknowledged[i] # Command("download", f)

\* The client has asked for f, as its last command.
Asked(s, c, q, f) ==
    LET last == Len(c.unacknowledged)
    IN  /\ last \in Pending(s, c)
        /\ c.unacknowledged[last] = Command("download", f)
        /\ \A i \in Pending(s, c) : i # last => c.unacknowledged[i] # Command("download", f)
        /\ Unread(s, q, f)
        /\ c.downloadBlock = 0

\* The server has the request, and has not opened the file.
Begun(s, c, q, f) ==
    /\ Pending(s, c) = {}
    /\ s.downloadName = f /\ ~s.download
    /\ \A i \in 1 .. Len(q) : q[i].data[1] # f
    /\ c.downloadBlock = 0

\* The blocks of f in the window, from the first acknowledged to the last read.
Window(s, f) ==
    /\ s.download
    /\ s.downloadClientBlock <= s.downloadCurrentBlock
    /\ s.downloadCurrentBlock <= s.downloadClientBlock + MAX_DOWNLOAD_WINDOW
    /\ s.downloadXmitBlock <= s.downloadCurrentBlock
    /\ \A k \in 0 .. s.downloadCurrentBlock - 1 :
         k + MAX_DOWNLOAD_WINDOW >= s.downloadCurrentBlock
         => s.downloadBlocks[Slot(k)] = <<f, k>>

\* A block the client has, or one with the contents its number says.
Right(m, f, b) ==
    \/ m.block < b
    \/ \E k \in Nat : m.data = <<f, k>> /\ m.block = Short(k) /\ k < b + SHORT

\* The client has b blocks of f, and has said so of each; the server, if it is
\* on at all, has executed the first of these commands.
Going(s, c, q, f, b) ==
    LET last == Len(c.unacknowledged)
    IN  /\ last - s.executed <= b
        /\ \A i \in Pending(s, c) :
             c.unacknowledged[i] = Command("nextdl", b - 1 - (last - i))
        /\ s.downloadName \in {f, NoFile}
        /\ s.downloadName = f =>
             /\ Window(s, f)
             /\ s.downloadClientBlock = b - (last - s.executed)
             /\ b <= s.downloadCurrentBlock
             /\ \A i \in 1 .. Len(q) :
                  q[i].data[1] = f => q[i].block < s.downloadCurrentBlock
        /\ \A i \in 1 .. Len(q) : q[i].data[1] = f => Right(q[i], f, b)

InStep(s, c, q) ==
    LET f == c.downloadTempName
    IN  f \in Writable => \/ Asked(s, c, q, f)
                          \/ Begun(s, c, q, f)
                          \/ Going(s, c, q, f, c.downloadBlock)

\* The temporary file has the blocks the client has taken.
Begins(tmp, f, b) ==
    /\ \E S : tmp \in Seq(S)
    /\ Len(tmp) = b
    /\ \A k \in 1 .. b : tmp[k] = <<f, k - 1>>

Temporary(c) ==
    /\ c.download => c.downloadTempName \in Writable
                     /\ Begins(c.tmp, c.downloadTempName, c.downloadBlock)
    /\ c.downloadTempName \in Writable /\ ~c.download => c.downloadBlock = 0

\* What the client still misses has not been asked for yet.
StillMissing(s, c, q) ==
    /\ \A f \in Writable :
         c.disk[f] # Content(f) /\ f # c.downloadTempName => Untouched(s, c, q, f)
    /\ \A i \in c.downloadList :
         /\ c.disk[Paks[i]] # Content(Paks[i])
         /\ Paks[i] \in Writable => Paks[i] # c.downloadTempName

\* A gamestate comes only when it was asked for, once, after all downloads.
Restarts(s, c) == {i \in Pending(s, c) : c.unacknowledged[i].op = "donedl"}
GameStates(q) == {i \in 1 .. Len(q) : q[i].kind = "gamestate"}

AtMostOne(S) == \A i, j \in S : i = j

Restarting(s, c, q) ==
    /\ AtMostOne(Restarts(s, c)) /\ AtMostOne(GameStates(q))
    /\ Restarts(s, c) = {} \/ GameStates(q) = {}
    /\ Restarts(s, c) # {} \/ GameStates(q) # {} =>
         c.downloadList = {} /\ ~c.downloadRestart /\ c.downloadTempName \notin Writable

Whole(c) == \A f \in File : c.disk[f] \in {Absent, Content(f)}

Sync(s, c, q) ==
    /\ InStep(s, c, q)
    /\ Temporary(c)
    /\ StillMissing(s, c, q)
    /\ Restarting(s, c, q)

IInv ==
    ~confused =>
        /\ Shapes(cl, clc, toClient)
        /\ Acknowledgements(cl, clc, toClient)
        /\ Whole(clc)
        /\ clc.state # "error" => Sync(cl, clc, toClient)

-----------------------------------------------------------------------------
(* Numbers.                                                                *)

\* A positive number below n is no multiple of it.
LEMMA NoMultiple ==
    ASSUME NEW n \in Nat \ {0}, NEW q \in Int, NEW d \in Int, d = n * q, 0 < d, d < n
    PROVE  FALSE
<1>1. CASE q <= 0
  <2>1. n * q <= 0
    BY <1>1
  <2> QED
    BY <2>1
<1>2. CASE q >= 1
  <2>1. n * q >= n
    BY <1>2
  <2> QED
    BY <2>1
<1> QED
  BY <1>1, <1>2

\* Two numbers less than n apart are the same if they leave the same rest.
LEMMA SameRest ==
    ASSUME NEW n \in Nat \ {0}, NEW i \in Nat, NEW j \in Nat, i % n = j % n,
           i <= j, j < i + n
    PROVE  i = j
<1> DEFINE a == i \div n
           b == j \div n
<1>1. i = n * a + (i % n) /\ a \in Int
  OBVIOUS
<1>2. j = n * b + (j % n) /\ b \in Int
  OBVIOUS
<1>3. i % n \in Int /\ j % n \in Int
  OBVIOUS
<1> HIDE DEF a, b
<1>4. n * a \in Int /\ n * b \in Int
  BY <1>1, <1>2
<1>5. j - i = n * b - n * a
  BY <1>1, <1>2, <1>3, <1>4
<1>6. n * b - n * a = n * (b - a) /\ b - a \in Int
  BY <1>1, <1>2
<1>7. ~(i < j)
  <2> SUFFICES ASSUME i < j PROVE FALSE
    OBVIOUS
  <2>1. 0 < j - i /\ j - i < n /\ j - i \in Int
    OBVIOUS
  <2> QED
    BY <2>1, <1>5, <1>6, NoMultiple
<1> QED
  BY <1>7

\* A buffer is one of the window, and two blocks in one are a window apart.
LEMMA SlotInWindow ==
    ASSUME NEW i \in Nat
    PROVE  Slot(i) \in 0 .. MAX_DOWNLOAD_WINDOW - 1
BY DownloadAssumption DEF Slot

LEMMA SlotsDiffer ==
    ASSUME NEW i \in Nat, NEW j \in Nat, i < j, j < i + MAX_DOWNLOAD_WINDOW
    PROVE  Slot(i) # Slot(j)
BY DownloadAssumption, SameRest DEF Slot

LEMMA ShortIs ==
    ASSUME NEW k \in Nat
    PROVE  /\ Short(k) \in Int /\ Short(k) <= k
           /\ Short(k) >= 0 => Short(k) = k % SHORT
<1> DEFINE r == k % SHORT
           d == k \div SHORT
<1>1. SHORT \in Nat \ {0}
  BY DownloadAssumption
<1>2. r \in 0 .. SHORT - 1 /\ k = SHORT * d + r /\ d \in Nat
  BY <1>1
<1>3. Short(k) = IF 2 * r >= SHORT THEN r - SHORT ELSE r
  BY DEF Short
<1> HIDE DEF r, d
<1>4. SHORT * d >= 0 /\ SHORT * d \in Int
  BY <1>1, <1>2
<1>5. r <= k
  BY <1>1, <1>2, <1>4
<1> QED
  BY <1>1, <1>2, <1>3, <1>5 DEF r

\* The number of a message says which block it is, within the window.
LEMMA ShortTells ==
    ASSUME NEW k \in Nat, NEW b \in Nat, Short(k) = b, k < b + SHORT
    PROVE  k = b
<1>1. SHORT \in Nat \ {0}
  BY DownloadAssumption
<1>2. b = k % SHORT /\ b <= k
  BY ShortIs
<1>3. b < SHORT
  BY <1>1, <1>2
<1>4. b % SHORT = b
  BY <1>1, <1>3
<1> QED
  BY <1>1, <1>2, <1>4, SameRest

\* Every nonempty set of natural numbers has a least element.
LEMMA LeastExists ==
    ASSUME NEW T \in SUBSET Nat, T # {}
    PROVE  \E x \in T : \A y \in T : x <= y
<1> DEFINE F == {0 .. m : m \in T}
<1>1. F \subseteq FiniteSubsetsOf(Nat) /\ F # {}
  <2>1. \A m \in T : 0 .. m \in SUBSET Nat /\ IsFiniteSet(0 .. m)
    BY FS_Interval
  <2> QED
    BY <2>1 DEF FiniteSubsetsOf
<1> HIDE DEF F
<1>2. PICK U \in F : \A V \in F : <<V, U>> \notin StrictSubsetOrdering(Nat)
  BY <1>1, WFMin, FS_StrictSubsetOrderingWellFounded
<1>3. \A V \in F : V \subseteq U => V = U
  BY <1>1, <1>2 DEF StrictSubsetOrdering, FiniteSubsetsOf
<1>4. PICK x \in T : U = 0 .. x
  BY DEF F
<1>5. ASSUME NEW y \in T PROVE x <= y
  <2>1. 0 .. y \in F
    BY DEF F
  <2>2. SUFFICES ASSUME y < x PROVE FALSE
    BY <1>4
  <2>3. 0 .. y \subseteq U /\ x \in U /\ x \notin 0 .. y
    BY <1>4, <2>2
  <2> QED
    BY <2>1, <2>3, <1>3
<1> QED
  BY <1>5

LEMMA LeastIs ==
    ASSUME NEW T \in SUBSET Nat, T # {}
    PROVE  Least(T) \in T
BY LeastExists DEF Least

LEMMA LargestIs ==
    ASSUME NEW T \in SUBSET Int, NEW x \in T, \A y \in T : y <= x
    PROVE  Largest(T) = x
<1>1. \A z \in T : (\A y \in T : y <= z) => z = x
  OBVIOUS
<1> QED
  BY <1>1 DEF Largest

LEMMA PaksIs == DOMAIN Paks \subseteq Nat /\ \A i \in DOMAIN Paks : Paks[i] \in File
<1>1. Paks \in Seq(File)
  BY DownloadAssumption
<1> QED
  BY <1>1

-----------------------------------------------------------------------------
(* Messages on their way.                                                  *)

\* r is q without its first messages, and with m as its last.
Grown(q, r, m) ==
    /\ \E S : r \in Seq(S)
    /\ \E lost \in 0 .. Len(q) :
         /\ Len(r) = Len(q) + 1 - lost
         /\ \A i \in 1 .. Len(q) - lost : r[i] = q[i + lost]
         /\ r[Len(q) + 1 - lost] = m

\* q without its first n messages, after a commands were acknowledged.
Left(q, n, a) ==
    [i \in 1 .. Len(q) - n |-> [q[n + i] EXCEPT !.lastClientCommand = @ - a]]

LEMMA SentIs ==
    ASSUME NEW S, toClient \in Seq(S), NEW m
    PROVE  Grown(toClient, Sent(m), m)
<1> DEFINE T == S \cup {m}
           q == toClient
<1>1. q \in Seq(T) /\ m \in T /\ MaxInFlight \in Nat \ {0} /\ Len(q) \in Nat
  BY DownloadAssumption
<1>2. CASE ~(Len(q) < MaxInFlight)
  <2>1. q # <<>>
    BY <1>1, <1>2
  <2> DEFINE t == Tail(q)
  <2>2. /\ t \in Seq(T) /\ Len(t) = Len(q) - 1 /\ Len(q) >= 1
        /\ \A i \in 1 .. Len(t) : t[i] = q[i + 1]
    BY <1>1, <2>1, <1>2
  <2>3. Sent(m) = Append(t, m)
    BY <1>2 DEF Sent
  <2> HIDE DEF t, T
  <2>4. /\ Append(t, m) \in Seq(T) /\ Len(Append(t, m)) = Len(q)
        /\ \A i \in 1 .. Len(t) : Append(t, m)[i] = t[i]
        /\ Append(t, m)[Len(t) + 1] = m
    BY <1>1, <2>2, AppendProperties
  <2>5. \A i \in 1 .. Len(q) - 1 : Append(t, m)[i] = q[i + 1]
    BY <1>1, <2>2, <2>4
  <2>6. Append(t, m)[Len(q) + 1 - 1] = m /\ 1 \in 0 .. Len(q) /\ Len(q) = Len(q) + 1 - 1
    BY <1>1, <2>2, <2>4
  <2> QED
    BY <2>3, <2>4, <2>5, <2>6 DEF Grown
<1>3. CASE Len(q) < MaxInFlight
  <2>1. Sent(m) = Append(q, m)
    BY <1>3 DEF Sent
  <2> HIDE DEF T
  <2>2. /\ Append(q, m) \in Seq(T) /\ Len(Append(q, m)) = Len(q) + 1
        /\ \A i \in 1 .. Len(q) : Append(q, m)[i] = q[i]
        /\ Append(q, m)[Len(q) + 1] = m
    BY <1>1, AppendProperties
  <2>3. /\ 0 \in 0 .. Len(q) /\ Len(q) + 1 = Len(q) + 1 - 0
        /\ \A i \in 1 .. Len(q) - 0 : Append(q, m)[i] = q[i + 0]
    BY <1>1, <2>2
  <2> QED
    BY <2>1, <2>2, <2>3 DEF Grown
<1> QED
  BY <1>2, <1>3

\* Each message is m or one of those before, and these in their order.
LEMMA GrownEach ==
    ASSUME NEW q, NEW r, NEW m, \E S : q \in Seq(S), Grown(q, r, m)
    PROVE  /\ \A i \in 1 .. Len(r) : r[i] = m \/ \E j \in 1 .. Len(q) : r[i] = q[j]
           /\ \A i, j \in 1 .. Len(r) : i < j =>
                /\ \E a \in 1 .. Len(q) : r[i] = q[a]
                /\ \/ r[j] = m
                   \/ \E a, b \in 1 .. Len(q) : a < b /\ r[i] = q[a] /\ r[j] = q[b]
<1>1. Len(q) \in Nat /\ Len(r) \in Nat
  BY DEF Grown
<1>2. PICK lost \in 0 .. Len(q) :
         /\ Len(r) = Len(q) + 1 - lost
         /\ \A i \in 1 .. Len(q) - lost : r[i] = q[i + lost]
         /\ r[Len(q) + 1 - lost] = m
  BY DEF Grown
<1>3. \A i \in 1 .. Len(r) :
        \/ i = Len(r) /\ r[i] = m
        \/ i < Len(r) /\ i + lost \in 1 .. Len(q) /\ r[i] = q[i + lost]
  <2> TAKE i \in 1 .. Len(r)
  <2>1. CASE i = Len(r)
    BY <1>2, <2>1
  <2>2. CASE i # Len(r)
    <3>1. i \in 1 .. Len(q) - lost /\ i < Len(r) /\ i + lost \in 1 .. Len(q)
      <4>1. /\ Len(q) \in Int /\ Len(r) \in Int /\ lost \in Int /\ i \in Int
            /\ 0 <= lost /\ 1 <= i /\ i <= Len(r) /\ i # Len(r)
            /\ Len(r) = Len(q) + 1 - lost
        BY <1>1, <1>2, <2>2
      <4> QED
        BY ONLY <4>1
    <3> QED
      BY <1>2, <3>1
  <2> QED
    BY <2>1, <2>2
<1>4. ASSUME NEW i \in 1 .. Len(r), NEW j \in 1 .. Len(r), i < j
      PROVE  /\ \E a \in 1 .. Len(q) : r[i] = q[a]
             /\ \/ r[j] = m
                \/ \E a, b \in 1 .. Len(q) : a < b /\ r[i] = q[a] /\ r[j] = q[b]
  <2>1. i + lost \in 1 .. Len(q) /\ r[i] = q[i + lost]
    BY <1>1, <1>3, <1>4
  <2>2. CASE i + lost < j + lost /\ j + lost \in 1 .. Len(q) /\ r[j] = q[j + lost]
    BY <2>1, <2>2
  <2>3. i + lost < j + lost
    BY <1>1, <1>4
  <2> QED
    BY <1>3, <2>1, <2>2, <2>3
<1> QED
  BY <1>3, <1>4

-----------------------------------------------------------------------------
(* What the client's operators do.                                         *)

SameDownload(c, r) ==
    /\ r.downloadTempName = c.downloadTempName /\ r.downloadBlock = c.downloadBlock
    /\ r.download = c.download /\ r.tmp = c.tmp

SameFiles(c, r) ==
    /\ r.downloadList = c.downloadList /\ r.downloadRestart = c.downloadRestart
    /\ r.disk = c.disk

\* cmd follows the commands of c.
Adds(c, r, cmd) ==
    /\ Len(r.unacknowledged) = Len(c.unacknowledged) + 1
    /\ \A i \in 1 .. Len(c.unacknowledged) : r.unacknowledged[i] = c.unacknowledged[i]
    /\ r.unacknowledged[Len(r.unacknowledged)] = cmd

\* Unless there is no room for it, which is the end.
AddsOrFails(c, r, cmd) ==
    IF r.state = "error" THEN r.unacknowledged = c.unacknowledged
    ELSE Adds(c, r, cmd) /\ r.state = c.state

LEMMA CommandsAre ==
    /\ \A f \in File : Command("download", f) \in ClientCommand
    /\ \A k \in Nat : Command("nextdl", k) \in ClientCommand
    /\ Command("stopdl", 0) \in ClientCommand /\ Command("donedl", 0) \in ClientCommand
BY DEF ClientCommand

LEMMA AddCommandIs ==
    ASSUME NEW c, ClientShape(c), NEW cmd \in ClientCommand, c.state # "error"
    PROVE  LET r == CL_AddReliableCommand(c, cmd)
           IN  /\ ClientShape(r) /\ SameDownload(c, r) /\ SameFiles(c, r)
               /\ AddsOrFails(c, r, cmd)
<1> DEFINE r == CL_AddReliableCommand(c, cmd)
<1>2. c.unacknowledged \in Seq(ClientCommand)
  BY DEF ClientShape
<1>3. CASE Len(c.unacknowledged) >= MAX_RELIABLE_COMMANDS
  <2>1. r = [c EXCEPT !.state = "error"]
    BY <1>3 DEF CL_AddReliableCommand
  <2> HIDE DEF r
  <2>2. r = [state |-> "error", unacknowledged |-> c.unacknowledged,
            downloadTempName |-> c.downloadTempName, download |-> c.download,
            downloadBlock |-> c.downloadBlock, downloadList |-> c.downloadList,
            downloadRestart |-> c.downloadRestart, tmp |-> c.tmp, disk |-> c.disk]
    BY <2>1 DEF ClientShape
  <2>3. ClientShape(r) /\ SameDownload(c, r) /\ SameFiles(c, r)
    BY <2>2 DEF ClientShape, SameDownload, SameFiles
  <2>4. AddsOrFails(c, r, cmd)
    BY <2>2 DEF AddsOrFails
  <2> QED
    BY <2>3, <2>4 DEF r
<1>4. CASE ~(Len(c.unacknowledged) >= MAX_RELIABLE_COMMANDS)
  <2> DEFINE u == Append(c.unacknowledged, cmd)
  <2>1. r = [c EXCEPT !.unacknowledged = u]
    BY <1>4 DEF CL_AddReliableCommand
  <2>2. /\ u \in Seq(ClientCommand) /\ Len(u) = Len(c.unacknowledged) + 1
        /\ \A i \in 1 .. Len(c.unacknowledged) : u[i] = c.unacknowledged[i]
        /\ u[Len(c.unacknowledged) + 1] = cmd
    BY <1>2, AppendProperties
  <2> HIDE DEF r, u
  <2>3. r = [state |-> c.state, unacknowledged |-> u,
            downloadTempName |-> c.downloadTempName, download |-> c.download,
            downloadBlock |-> c.downloadBlock, downloadList |-> c.downloadList,
            downloadRestart |-> c.downloadRestart, tmp |-> c.tmp, disk |-> c.disk]
    BY <2>1 DEF ClientShape
  <2>4. ClientShape(r) /\ SameDownload(c, r) /\ SameFiles(c, r)
    BY <2>2, <2>3 DEF ClientShape, SameDownload, SameFiles
  <2>5. AddsOrFails(c, r, cmd)
    BY <2>2, <2>3 DEF AddsOrFails, Adds
  <2> QED
    BY <2>4, <2>5 DEF r
<1> QED
  BY <1>3, <1>4

\* The next file of the list is asked for; after the last one, a gamestate.
NextIs(c, r) ==
    \/ \E l \in c.downloadList :
         /\ AddsOrFails(c, r, Command("download", Paks[l]))
         /\ r.downloadTempName = Paks[l] /\ r.downloadBlock = 0
         /\ r.downloadList = c.downloadList \ {l}
    \/ /\ c.downloadList = {}
       /\ SameDownload(c, r) /\ r.downloadList = c.downloadList
       /\ \/ c.downloadRestart /\ AddsOrFails(c, r, Command("donedl", 0)) /\ ~r.downloadRestart
          \/ ~c.downloadRestart /\ r.unacknowledged = c.unacknowledged /\ ~r.downloadRestart

LEMMA CompleteIs ==
    ASSUME NEW c, ClientShape(c), c.state # "error", c.downloadList = {}
    PROVE  LET r == CL_DownloadsComplete(c)
           IN  /\ ClientShape(r) /\ NextIs(c, r)
               /\ r.download = c.download /\ r.tmp = c.tmp /\ r.disk = c.disk
<1> DEFINE r == CL_DownloadsComplete(c)
<1>1. CASE c.downloadRestart
  <2> DEFINE d == [c EXCEPT !.downloadRestart = FALSE]
  <2>1. r = CL_AddReliableCommand(d, Command("donedl", 0))
    BY <1>1 DEF CL_DownloadsComplete
  <2> HIDE DEF r
  <2>8. d = [c EXCEPT !.downloadRestart = FALSE]
    OBVIOUS
  <2> HIDE DEF d
  <2>2. d = [state |-> c.state, unacknowledged |-> c.unacknowledged,
            downloadTempName |-> c.downloadTempName, download |-> c.download,
            downloadBlock |-> c.downloadBlock, downloadList |-> c.downloadList,
            downloadRestart |-> FALSE, tmp |-> c.tmp, disk |-> c.disk]
    BY <2>8 DEF ClientShape
  <2>3. ClientShape(d) /\ d.state # "error"
    BY <2>2 DEF ClientShape
  <2>4. /\ ClientShape(r) /\ SameDownload(d, r) /\ SameFiles(d, r)
        /\ AddsOrFails(d, r, Command("donedl", 0))
    BY <2>1, <2>3, AddCommandIs, CommandsAre
  <2>5. SameDownload(c, r) /\ r.downloadList = c.downloadList /\ ~r.downloadRestart
        /\ r.disk = c.disk
    BY <2>2, <2>4 DEF SameDownload, SameFiles
  <2>6. AddsOrFails(c, r, Command("donedl", 0))
    BY <2>2, <2>4 DEF AddsOrFails, Adds
  <2>7. NextIs(c, r)
    BY <1>1, <2>5, <2>6 DEF NextIs
  <2> QED
    BY <2>4, <2>5, <2>7 DEF r, SameDownload
<1>2. CASE ~c.downloadRestart
  <2>1. r = [c EXCEPT !.state = "loading"]
    BY <1>2 DEF CL_DownloadsComplete
  <2> HIDE DEF r
  <2>2. r = [state |-> "loading", unacknowledged |-> c.unacknowledged,
            downloadTempName |-> c.downloadTempName, download |-> c.download,
            downloadBlock |-> c.downloadBlock, downloadList |-> c.downloadList,
            downloadRestart |-> c.downloadRestart, tmp |-> c.tmp, disk |-> c.disk]
    BY <2>1 DEF ClientShape
  <2>3. ClientShape(r) /\ SameDownload(c, r) /\ SameFiles(c, r)
        /\ r.unacknowledged = c.unacknowledged
    BY <2>2 DEF ClientShape, SameDownload, SameFiles
  <2>4. NextIs(c, r)
    BY <1>2, <2>3 DEF NextIs, SameFiles
  <2> QED
    BY <2>3, <2>4 DEF r, SameFiles, SameDownload
<1> QED
  BY <1>1, <1>2

LEMMA NextDownloadIs ==
    ASSUME NEW c, ClientShape(c), c.state # "error"
    PROVE  LET r == CL_NextDownload(c)
           IN  /\ ClientShape(r) /\ NextIs(c, r)
               /\ r.download = c.download /\ r.tmp = c.tmp /\ r.disk = c.disk
<1> DEFINE r == CL_NextDownload(c)
<1>1. CASE c.downloadList = {}
  <2>1. r = CL_DownloadsComplete(c)
    BY <1>1 DEF CL_NextDownload
  <2> HIDE DEF r
  <2> QED
    BY <1>1, <2>1, CompleteIs DEF r
<1>2. CASE c.downloadList # {}
  <2> DEFINE l == Least(c.downloadList)
             d == [c EXCEPT !.downloadTempName = Paks[l], !.downloadBlock = 0]
             e == CL_AddReliableCommand(d, Command("download", Paks[l]))
  <2>1. l \in c.downloadList
    BY <1>2, LeastIs, PaksIs DEF ClientShape
  <2>2. r = [e EXCEPT !.downloadRestart = TRUE, !.downloadList = @ \ {Least(c.downloadList)}]
    <3>1. e.downloadList = c.downloadList
      <4>1. d.downloadList = c.downloadList
        BY DEF ClientShape
      <4>2. e.downloadList = d.downloadList
        BY DEF CL_AddReliableCommand, ClientShape
      <4> QED
        BY <4>1, <4>2
    <3> QED
      BY <1>2, <3>1 DEF CL_NextDownload, CL_BeginDownload
  <2> HIDE DEF r, l
  <2>10. d = [c EXCEPT !.downloadTempName = Paks[l], !.downloadBlock = 0]
    OBVIOUS
  <2> HIDE DEF d
  <2>11. Paks[l] \in File
    BY <2>1, PaksIs DEF ClientShape
  <2>3. d = [state |-> c.state, unacknowledged |-> c.unacknowledged,
            downloadTempName |-> Paks[l], download |-> c.download,
            downloadBlock |-> 0, downloadList |-> c.downloadList,
            downloadRestart |-> c.downloadRestart, tmp |-> c.tmp, disk |-> c.disk]
    BY <2>10 DEF ClientShape
  <2>4. ClientShape(d) /\ d.state # "error"
    BY <2>3, <2>11 DEF ClientShape
  <2>5. /\ ClientShape(e) /\ SameDownload(d, e) /\ SameFiles(d, e)
        /\ AddsOrFails(d, e, Command("download", Paks[l]))
    BY <2>4, <2>11, AddCommandIs, CommandsAre
  <2> HIDE DEF e
  <2>6. r = [state |-> e.state, unacknowledged |-> e.unacknowledged,
            downloadTempName |-> Paks[l], download |-> c.download,
            downloadBlock |-> 0, downloadList |-> c.downloadList \ {l},
            downloadRestart |-> TRUE, tmp |-> c.tmp, disk |-> c.disk]
    BY <2>2, <2>3, <2>5 DEF ClientShape, SameDownload, SameFiles, l
  <2>7. ClientShape(r)
    BY <2>3, <2>4, <2>5, <2>6, <2>11 DEF ClientShape
  <2>8. AddsOrFails(c, r, Command("download", Paks[l]))
    BY <2>3, <2>5, <2>6 DEF AddsOrFails, Adds
  <2>9. NextIs(c, r)
    BY <2>1, <2>6, <2>8 DEF NextIs
  <2> QED
    BY <2>6, <2>7, <2>9 DEF r
<1> QED
  BY <1>1, <1>2

-----------------------------------------------------------------------------
(* The client's steps, with the server and the messages as they are.       *)

LEMMA CommandsDiffer ==
    /\ \A f, g : f # g => Command("download", f) # Command("download", g)
    /\ \A f, g : Command("nextdl", f) # Command("download", g)
    /\ \A f, g : Command("donedl", f) # Command("download", g)
    /\ \A f, g : Command("stopdl", f) # Command("download", g)
    /\ \A f : /\ Command("download", f).op = "download" /\ Command("nextdl", f).op = "nextdl"
              /\ Command("donedl", f).op = "donedl" /\ Command("stopdl", f).op = "stopdl"
              /\ Command("download", f).arg = f /\ Command("nextdl", f).arg = f
BY DEF Command

\* cmd is still to be executed, after those that were.
Queued(s, c, r, cmd) ==
    LET last == Len(r.unacknowledged)
    IN  /\ last = Len(c.unacknowledged) + 1
        /\ s.executed <= last
        /\ Pending(s, r) = Pending(s, c) \cup {last}
        /\ last \notin Pending(s, c)
        /\ r.unacknowledged[last] = cmd
        /\ \A i \in Pending(s, c) : r.unacknowledged[i] = c.unacknowledged[i]

LEMMA AddsPending ==
    ASSUME NEW s, NEW c, NEW r, NEW cmd, ServerShape(s), ClientShape(c),
           s.executed <= Len(c.unacknowledged), Adds(c, r, cmd)
    PROVE  Queued(s, c, r, cmd)
<1>1. Len(c.unacknowledged) \in Nat /\ s.executed \in Nat
  BY DEF ClientShape, ServerShape
<1> DEFINE n == Len(c.unacknowledged)
           last == Len(r.unacknowledged)
<1>2. last = n + 1
  BY DEF Adds
<1>3. /\ s.executed + 1 .. last = (s.executed + 1 .. n) \cup {last}
      /\ last \notin s.executed + 1 .. n
      /\ s.executed <= last
  BY <1>1, <1>2
<1>4. Pending(s, c) \subseteq 1 .. n
  BY <1>1 DEF Pending
<1> QED
  BY <1>2, <1>3, <1>4 DEF Pending, Adds, Queued

\* Starting the next download, or asking for the gamestate after the last.
LEMMA NextSync ==
    ASSUME DistinctPaks, NEW s, NEW c, NEW q, NEW r, ServerShape(s), ClientShape(c),
           s.executed <= Len(c.unacknowledged),
           StillMissing(s, c, q), Restarting(s, c, q),
           c.downloadTempName \notin Writable, ~c.download,
           NextIs(c, r), ~r.download, r.disk = c.disk, r.state # "error"
    PROVE  Sync(s, r, q)
<1>1. CASE \E l \in c.downloadList :
             /\ AddsOrFails(c, r, Command("download", Paks[l]))
             /\ r.downloadTempName = Paks[l] /\ r.downloadBlock = 0
             /\ r.downloadList = c.downloadList \ {l}
  <2>1. PICK l \in c.downloadList :
             /\ AddsOrFails(c, r, Command("download", Paks[l]))
             /\ r.downloadTempName = Paks[l] /\ r.downloadBlock = 0
             /\ r.downloadList = c.downloadList \ {l}
    BY <1>1
  <2> DEFINE f == Paks[l]
             cmd == Command("download", f)
             last == Len(r.unacknowledged)
  <2>2. Adds(c, r, cmd)
    BY <2>1 DEF AddsOrFails
  <2> HIDE DEF cmd
  <2>3. /\ Pending(s, r) = Pending(s, c) \cup {last}
        /\ last \notin Pending(s, c)
        /\ r.unacknowledged[last] = cmd
        /\ \A i \in Pending(s, c) : r.unacknowledged[i] = c.unacknowledged[i]
    <3>1. Queued(s, c, r, cmd)
      BY <2>2, AddsPending
    <3> QED
      BY <3>1 DEF Queued
  <2>4. c.disk[f] # Content(f) /\ (f \in Writable => f # c.downloadTempName)
    BY DEF StillMissing
  <2> HIDE DEF last, f
  <2>5. InStep(s, r, q)
    <3> SUFFICES ASSUME f \in Writable PROVE Asked(s, r, q, f)
      BY <2>1 DEF InStep, f
    <3>1. Untouched(s, c, q, f)
      BY <2>4 DEF StillMissing
    <3> QED
      BY <2>1, <2>3, <3>1 DEF Untouched, Asked, last, cmd
  <2>6. Temporary(r)
    BY <2>1 DEF Temporary
  <2>7. StillMissing(s, r, q)
    <3>1. ASSUME NEW g \in Writable, r.disk[g] # Content(g), g # f
          PROVE  Untouched(s, r, q, g)
      <4>1. Untouched(s, c, q, g)
        BY <3>1 DEF StillMissing
      <4>2. cmd # Command("download", g)
        BY <3>1, CommandsDiffer DEF cmd
      <4> QED
        BY <2>3, <4>1, <4>2 DEF Untouched
    <3>2. ASSUME NEW i \in c.downloadList \ {l}
          PROVE  r.disk[Paks[i]] # Content(Paks[i]) /\ Paks[i] # f
      BY DEF StillMissing, DistinctPaks, ClientShape, f
    <3> QED
      BY <2>1, <3>1, <3>2 DEF StillMissing, f
  <2>8. Restarting(s, r, q)
    <3>1. Restarts(s, c) = {} /\ GameStates(q) = {}
      BY <2>1 DEF Restarting
    <3>2. cmd.op # "donedl"
      BY CommandsDiffer DEF cmd
    <3>3. Restarts(s, r) = {}
      BY <2>3, <3>1, <3>2 DEF Restarts
    <3> QED
      BY <3>1, <3>3 DEF Restarting, AtMostOne
  <2> QED
    BY <2>5, <2>6, <2>7, <2>8 DEF Sync
<1>2. CASE c.downloadList = {} /\ SameDownload(c, r) /\ r.downloadList = c.downloadList
           /\ c.downloadRestart /\ AddsOrFails(c, r, Command("donedl", 0)) /\ ~r.downloadRestart
  <2> DEFINE cmd == Command("donedl", 0)
             last == Len(r.unacknowledged)
  <2>1. r.downloadTempName \notin Writable
    BY <1>2 DEF SameDownload
  <2>2. Adds(c, r, cmd)
    BY <1>2 DEF AddsOrFails
  <2> HIDE DEF cmd
  <2>3. /\ Pending(s, r) = Pending(s, c) \cup {last}
        /\ last \notin Pending(s, c)
        /\ r.unacknowledged[last] = cmd
        /\ \A i \in Pending(s, c) : r.unacknowledged[i] = c.unacknowledged[i]
    <3>1. Queued(s, c, r, cmd)
      BY <2>2, AddsPending
    <3> QED
      BY <3>1 DEF Queued
  <2> HIDE DEF last
  <2>4. cmd.op = "donedl" /\ \A g : cmd # Command("download", g)
    BY CommandsDiffer DEF cmd
  <2>5. StillMissing(s, r, q)
    <3>1. ASSUME NEW g \in Writable, r.disk[g] # Content(g)
          PROVE  Untouched(s, r, q, g)
      <4>1. Untouched(s, c, q, g)
        BY <3>1 DEF StillMissing
      <4> QED
        BY <2>3, <2>4, <4>1 DEF Untouched
    <3> QED
      BY <1>2, <3>1 DEF StillMissing
  <2>6. Restarting(s, r, q)
    <3>1. Restarts(s, c) = {} /\ GameStates(q) = {}
      BY <1>2 DEF Restarting
    <3>2. Restarts(s, r) \subseteq {last}
      BY <2>3, <3>1 DEF Restarts
    <3> QED
      BY <1>2, <2>1, <3>1, <3>2 DEF Restarting, AtMostOne
  <2> QED
    BY <2>1, <2>5, <2>6 DEF Sync, InStep, Temporary
<1>3. CASE c.downloadList = {} /\ SameDownload(c, r) /\ r.downloadList = c.downloadList
           /\ ~c.downloadRestart /\ r.unacknowledged = c.unacknowledged /\ ~r.downloadRestart
  <2>1. r.downloadTempName = c.downloadTempName
    BY <1>3 DEF SameDownload
  <2>2. Pending(s, r) = Pending(s, c)
    BY <1>3 DEF Pending
  <2>3. StillMissing(s, r, q)
    BY <1>3, <2>1, <2>2 DEF StillMissing, Untouched
  <2>4. Restarting(s, r, q)
    BY <1>3, <2>1, <2>2 DEF Restarting, Restarts
  <2> QED
    BY <2>1, <2>3, <2>4 DEF Sync, InStep, Temporary
<1> QED
  BY <1>1, <1>2, <1>3 DEF NextIs

LEMMA NextLonger ==
    ASSUME NEW c, NEW r, ClientShape(c), NextIs(c, r)
    PROVE  Len(r.unacknowledged) >= Len(c.unacknowledged)
<1>1. Len(c.unacknowledged) \in Nat
  BY DEF ClientShape
<1> QED
  BY <1>1 DEF NextIs, AddsOrFails, Adds

\* The block is written and acknowledged.
Opening(c) == IF c.download THEN c ELSE [c EXCEPT !.download = TRUE, !.tmp = <<>>]

Taken(c, b) ==
    [CL_AddReliableCommand(Opening(c), Command("nextdl", c.downloadBlock))
       EXCEPT !.downloadBlock = @ + 1, !.tmp = IF Empty(b) THEN @ ELSE Append(@, b)]

\* The file is complete.
Renamed(t, f) ==
    [t EXCEPT !.disk[f] = t.tmp, !.download = FALSE, !.tmp = <<>>, !.downloadTempName = NoFile]

LEMMA AcceptIs ==
    ASSUME NEW c, NEW b
    PROVE  AcceptBlock(c, b) =
             IF ~Empty(b) \/ Taken(c, b).state = "error" THEN Taken(c, b)
             ELSE CL_NextDownload(Renamed(Taken(c, b), c.downloadTempName))
BY DEF AcceptBlock, Taken, Opening, Renamed

Base(c) == IF c.download THEN c.tmp ELSE <<>>

LEMMA TakenIs ==
    ASSUME NEW c, NEW b, ClientShape(c), c.state # "error"
    PROVE  LET t == Taken(c, b)
           IN  /\ ClientShape(t) /\ SameFiles(c, t)
               /\ AddsOrFails(c, t, Command("nextdl", c.downloadBlock))
               /\ t.downloadTempName = c.downloadTempName /\ t.download
               /\ t.downloadBlock = c.downloadBlock + 1
               /\ t.tmp = IF Empty(b) THEN Base(c) ELSE Append(Base(c), b)
<1> DEFINE o == Opening(c)
           cmd == Command("nextdl", c.downloadBlock)
           a == CL_AddReliableCommand(o, cmd)
           t == Taken(c, b)
<1>1. o = [state |-> c.state, unacknowledged |-> c.unacknowledged,
           downloadTempName |-> c.downloadTempName, download |-> TRUE,
           downloadBlock |-> c.downloadBlock, downloadList |-> c.downloadList,
           downloadRestart |-> c.downloadRestart, tmp |-> Base(c), disk |-> c.disk]
  <2>1. CASE c.download
    <3>1. o = c /\ Base(c) = c.tmp /\ c.download = TRUE
      BY <2>1 DEF Opening, Base
    <3> HIDE DEF o
    <3> QED
      BY <3>1 DEF ClientShape
  <2>2. CASE ~c.download
    <3>1. o = [c EXCEPT !.download = TRUE, !.tmp = <<>>] /\ Base(c) = <<>>
      BY <2>2 DEF Opening, Base
    <3> HIDE DEF o
    <3> QED
      BY <3>1 DEF ClientShape
  <2> QED
    BY <2>1, <2>2
<1> HIDE DEF o, cmd
<1>2. ClientShape(o) /\ o.state # "error"
  BY <1>1 DEF ClientShape
<1>3. ClientShape(a) /\ SameDownload(o, a) /\ SameFiles(o, a) /\ AddsOrFails(o, a, cmd)
  BY <1>2, CommandsAre, AddCommandIs DEF ClientShape, cmd
<1>4. t = [a EXCEPT !.downloadBlock = @ + 1, !.tmp = IF Empty(b) THEN @ ELSE Append(@, b)]
  BY DEF Taken, o, cmd
<1> HIDE DEF a, t
<1>5. t = [state |-> a.state, unacknowledged |-> a.unacknowledged,
           downloadTempName |-> c.downloadTempName, download |-> TRUE,
           downloadBlock |-> c.downloadBlock + 1, downloadList |-> c.downloadList,
           downloadRestart |-> c.downloadRestart,
           tmp |-> IF Empty(b) THEN Base(c) ELSE Append(Base(c), b), disk |-> c.disk]
  BY <1>1, <1>3, <1>4 DEF ClientShape, SameDownload, SameFiles
<1>6. ClientShape(t)
  BY <1>3, <1>5 DEF ClientShape
<1>7. SameFiles(c, t)
  BY <1>5 DEF SameFiles
<1>8. AddsOrFails(c, t, cmd)
  BY <1>1, <1>3, <1>5 DEF AddsOrFails, Adds
<1> QED
  BY <1>5, <1>6, <1>7, <1>8 DEF t, cmd

LEMMA RenamedIs ==
    ASSUME NEW t, NEW f \in File, ClientShape(t)
    PROVE  LET d == Renamed(t, f)
           IN  /\ ClientShape(d)
               /\ d.state = t.state /\ d.unacknowledged = t.unacknowledged
               /\ d.downloadTempName = NoFile /\ ~d.download
               /\ d.downloadList = t.downloadList /\ d.downloadRestart = t.downloadRestart
               /\ d.disk[f] = t.tmp
               /\ \A g \in File \ {f} : d.disk[g] = t.disk[g]
<1> DEFINE d == Renamed(t, f)
           disk == [t.disk EXCEPT ![f] = t.tmp]
<1>1. d = [t EXCEPT !.disk = disk, !.download = FALSE, !.tmp = <<>>, !.downloadTempName = NoFile]
  BY DEF Renamed
<1>2. DOMAIN disk = File /\ disk[f] = t.tmp /\ \A g \in File \ {f} : disk[g] = t.disk[g]
  BY DEF ClientShape
<1> HIDE DEF d, disk
<1>3. d = [state |-> t.state, unacknowledged |-> t.unacknowledged,
           downloadTempName |-> NoFile, download |-> FALSE,
           downloadBlock |-> t.downloadBlock, downloadList |-> t.downloadList,
           downloadRestart |-> t.downloadRestart, tmp |-> <<>>, disk |-> disk]
  BY <1>1 DEF ClientShape
<1>4. ClientShape(d)
  BY <1>2, <1>3 DEF ClientShape
<1> QED
  BY <1>2, <1>3, <1>4 DEF d

LEMMA BeginsMore ==
    ASSUME NEW tmp, NEW f, NEW b \in Nat, Begins(tmp, f, b)
    PROVE  Begins(Append(tmp, <<f, b>>), f, b + 1)
<1> DEFINE e == <<f, b>>
           u == Append(tmp, e)
<1>1. PICK S : tmp \in Seq(S)
  BY DEF Begins
<1> DEFINE T == S \cup {e}
<1>2. tmp \in Seq(T) /\ e \in T
  BY <1>1
<1> HIDE DEF T
<1>3. /\ u \in Seq(T) /\ Len(u) = Len(tmp) + 1
      /\ \A k \in 1 .. Len(tmp) : u[k] = tmp[k]
      /\ u[Len(tmp) + 1] = e
  BY <1>2, AppendProperties
<1> HIDE DEF u
<1>4. ASSUME NEW k \in 1 .. b + 1 PROVE u[k] = <<f, k - 1>>
  <2>1. CASE k \in 1 .. b
    BY <1>3, <2>1 DEF Begins
  <2>2. CASE k = b + 1
    BY <1>3, <2>2 DEF Begins
  <2> QED
    BY <2>1, <2>2
<1> QED
  BY <1>3, <1>4 DEF Begins, u

LEMMA BeginsAll ==
    ASSUME NEW tmp, NEW f \in File, Begins(tmp, f, Blocks[f])
    PROVE  tmp = Content(f)
<1> DEFINE n == Blocks[f]
<1>1. n \in Nat
  BY DownloadAssumption
<1>2. PICK S : tmp \in Seq(S)
  BY DEF Begins
<1> HIDE DEF n
<1>3. tmp = [k \in 1 .. n |-> tmp[k]]
  BY <1>2 DEF Begins, n
<1>4. \A k \in 1 .. n : tmp[k] = <<f, k - 1>>
  BY DEF Begins, n
<1> QED
  BY <1>3, <1>4 DEF Content, n

LEMMA BaseBegins ==
    ASSUME NEW c, Temporary(c), c.downloadTempName \in Writable
    PROVE  Begins(Base(c), c.downloadTempName, c.downloadBlock)
<1>1. CASE c.download
  BY <1>1 DEF Temporary, Base
<1>2. CASE ~c.download
  <2>1. Base(c) = <<>> /\ c.downloadBlock = 0
    BY <1>2 DEF Temporary, Base
  <2>2. <<>> \in Seq({}) /\ Len(<<>>) = 0
    OBVIOUS
  <2> QED
    BY <2>1, <2>2 DEF Begins
<1> QED
  BY <1>1, <1>2

\* The block expected is taken; the last one ends the file.
LEMMA AcceptStep ==
    ASSUME DistinctPaks, NEW s, NEW c, NEW q, NEW f, ServerShape(s), ClientShape(c),
           \A i \in 1 .. Len(q) : MessageShape(q[i]), c.state # "error", s.executed <= Len(c.unacknowledged),
           f = c.downloadTempName, f \in Writable,
           Temporary(c), StillMissing(s, c, q), Restarting(s, c, q), Going(s, c, q, f, c.downloadBlock),
           s.downloadName = f => c.downloadBlock < s.downloadCurrentBlock
    PROVE  LET r == AcceptBlock(c, <<f, c.downloadBlock>>)
           IN  /\ ClientShape(r)
               /\ Len(r.unacknowledged) >= Len(c.unacknowledged)
               /\ Whole(c) => Whole(r)
               /\ r.state # "error" => Sync(s, r, q)
<1> DEFINE b == c.downloadBlock
           data == <<f, b>>
           cmd == Command("nextdl", b)
           t == Taken(c, data)
           r == AcceptBlock(c, data)
<1>1. f \in File /\ b \in Nat /\ Len(c.unacknowledged) \in Nat /\ s.executed \in Nat
  BY DEF Writable, ClientShape, ServerShape
<1> HIDE DEF data, cmd
<1>2. /\ ClientShape(t) /\ SameFiles(c, t) /\ AddsOrFails(c, t, cmd)
      /\ t.downloadTempName = f /\ t.download /\ t.downloadBlock = b + 1
      /\ t.tmp = IF Empty(data) THEN Base(c) ELSE Append(Base(c), data)
  BY TakenIs DEF cmd
<1>3. Len(t.unacknowledged) >= Len(c.unacknowledged)
  BY <1>1, <1>2 DEF AddsOrFails, Adds
<1>4. t.disk = c.disk /\ t.downloadList = c.downloadList /\ t.downloadRestart = c.downloadRestart
  BY <1>2 DEF SameFiles
<1>5. Whole(c) => Whole(t)
  BY <1>4 DEF Whole
<1>6. t.state # "error" => Queued(s, c, t, cmd)
  BY <1>2, AddsPending DEF AddsOrFails
<1>7. cmd.op = "nextdl" /\ \A g : cmd # Command("download", g)
  BY CommandsDiffer DEF cmd
<1>8. Begins(Base(c), f, b)
  BY BaseBegins
<1>9. r = IF ~Empty(data) \/ t.state = "error" THEN t
          ELSE CL_NextDownload(Renamed(t, f))
  BY AcceptIs
<1> HIDE DEF t, r
\* What both the block and the end of the file leave of the server's part.
<1>10. ASSUME Queued(s, c, t, cmd)
       PROVE  /\ \A g : Untouched(s, c, q, g) => Untouched(s, t, q, g)
              /\ Restarts(s, t) = {} /\ GameStates(q) = {}
  <2>1. \A g : Untouched(s, c, q, g) => Untouched(s, t, q, g)
    BY <1>7, <1>10 DEF Untouched, Queued
  <2>2. Restarts(s, c) = {} /\ GameStates(q) = {}
    BY DEF Restarting
  <2>3. Restarts(s, t) = {}
    BY <1>7, <1>10, <2>2 DEF Restarts, Queued
  <2> QED
    BY <2>1, <2>2, <2>3
<1>11. CASE t.state = "error"
  BY <1>2, <1>3, <1>5, <1>9, <1>11 DEF r, data
<1>12. CASE t.state # "error" /\ ~Empty(data)
  <2>1. r = t /\ Queued(s, c, t, cmd)
    BY <1>6, <1>9, <1>12
  <2>2. Going(s, t, q, f, b + 1)
    <3> DEFINE last == Len(t.unacknowledged)
               n == Len(c.unacknowledged)
    <3>1. last = n + 1 /\ last - s.executed = (n - s.executed) + 1
      BY <1>1, <2>1 DEF Queued
    <3>2. last - s.executed <= b + 1
      BY <1>1, <3>1 DEF Going
    <3>3. ASSUME NEW i \in Pending(s, t)
          PROVE  t.unacknowledged[i] = Command("nextdl", (b + 1) - 1 - (last - i))
      <4>1. CASE i = last
        <5>1. (b + 1) - 1 - (last - i) = b
          BY <1>1, <3>1, <4>1
        <5> QED
          BY <2>1, <4>1, <5>1 DEF Queued, cmd
      <4>2. CASE i \in Pending(s, c)
        <5>1. (b + 1) - 1 - (last - i) = b - 1 - (n - i)
          <6>1. i \in Int /\ b \in Int /\ n \in Int /\ last = n + 1
            BY <1>1, <3>1, <4>2 DEF Pending
          <6> QED
            BY ONLY <6>1
        <5>2. t.unacknowledged[i] = Command("nextdl", b - 1 - (n - i))
          BY <2>1, <4>2 DEF Queued, Going
        <5> QED
          BY <5>1, <5>2
      <4> QED
        BY <2>1, <4>1, <4>2 DEF Queued
    <3>4. s.downloadName \in {f, NoFile}
      BY DEF Going
    <3>5. s.downloadName = f =>
             /\ Window(s, f)
             /\ s.downloadClientBlock = (b + 1) - (last - s.executed)
             /\ b + 1 <= s.downloadCurrentBlock
             /\ \A i \in 1 .. Len(q) :
                  q[i].data[1] = f => q[i].block < s.downloadCurrentBlock
      <4> SUFFICES ASSUME s.downloadName = f
                   PROVE  /\ s.downloadClientBlock = (b + 1) - (last - s.executed)
                          /\ b + 1 <= s.downloadCurrentBlock
        BY DEF Going
      <4>1. s.downloadClientBlock = b - (n - s.executed)
        BY DEF Going
      <4>2. b < s.downloadCurrentBlock /\ s.downloadCurrentBlock \in Nat
        BY DEF ServerShape
      <4>3. b + 1 <= s.downloadCurrentBlock
        <5>1. b \in Int /\ s.downloadCurrentBlock \in Int /\ b < s.downloadCurrentBlock
          BY <1>1, <4>2
        <5> QED
          BY ONLY <5>1
      <4>4. b - (n - s.executed) = (b + 1) - (last - s.executed)
        <5>1. /\ b \in Int /\ n \in Int /\ s.executed \in Int
              /\ last - s.executed = (n - s.executed) + 1
          BY <1>1, <3>1
        <5> HIDE DEF b, n, last
        <5> QED
          BY ONLY <5>1
      <4> QED
        BY <4>1, <4>3, <4>4
    <3>6. ASSUME NEW i \in 1 .. Len(q), Right(q[i], f, b)
          PROVE  Right(q[i], f, b + 1)
      <4>1. CASE q[i].block < b
        <5>1. q[i].block \in Int
          BY DEF MessageShape
        <5>2. q[i].block < b + 1
          BY <1>1, <4>1, <5>1
        <5> QED
          BY <5>2 DEF Right
      <4>2. CASE \E k \in Nat : /\ q[i].data = <<f, k>> /\ q[i].block = Short(k)
                                /\ k < b + SHORT
        BY <1>1, <4>2, DownloadAssumption DEF Right
      <4> QED
        BY <3>6, <4>1, <4>2 DEF Right
    <3>7. \A i \in 1 .. Len(q) : q[i].data[1] = f => Right(q[i], f, b + 1)
      BY <3>6 DEF Going
    <3> QED
      BY <3>2, <3>3, <3>4, <3>5, <3>7 DEF Going
  <2>3. Temporary(t)
    <3>1. t.tmp = Append(Base(c), <<f, b>>)
      BY <1>2, <1>12 DEF data
    <3> QED
      BY <1>1, <1>2, <1>8, <3>1, BeginsMore DEF Temporary
  <2>4. StillMissing(s, t, q)
    BY <1>2, <1>4, <1>10, <2>1 DEF StillMissing
  <2>5. Restarting(s, t, q)
    BY <1>10, <2>1 DEF Restarting, AtMostOne
  <2>6. Sync(s, t, q)
    BY <1>2, <2>2, <2>3, <2>4, <2>5 DEF Sync, InStep
  <2> QED
    BY <1>2, <1>3, <1>5, <2>1, <2>6 DEF r, data
<1>13. CASE t.state # "error" /\ Empty(data)
  <2> DEFINE d == Renamed(t, f)
  <2>1. r = CL_NextDownload(d) /\ Queued(s, c, t, cmd)
    BY <1>6, <1>9, <1>13
  <2>2. /\ ClientShape(d)
        /\ d.state = t.state /\ d.unacknowledged = t.unacknowledged
        /\ d.downloadTempName = NoFile /\ ~d.download
        /\ d.downloadList = t.downloadList /\ d.downloadRestart = t.downloadRestart
        /\ d.disk[f] = t.tmp
        /\ \A g \in File \ {f} : d.disk[g] = t.disk[g]
    BY <1>1, <1>2, RenamedIs
  <2> HIDE DEF d
  <2>3. d.disk[f] = Content(f)
    <3>1. b = Blocks[f]
      BY <1>13 DEF Empty, data
    <3>2. t.tmp = Base(c)
      BY <1>2, <1>13
    <3> QED
      BY <1>1, <1>8, <2>2, <3>1, <3>2, BeginsAll
  <2>4. Whole(c) => Whole(d)
    BY <1>4, <2>2, <2>3 DEF Whole
  <2>5. /\ ClientShape(r) /\ NextIs(d, r)
        /\ r.download = d.download /\ r.disk = d.disk
    BY <1>13, <2>1, <2>2, NextDownloadIs
  <2>6. Len(r.unacknowledged) >= Len(c.unacknowledged)
    <3>1. Len(r.unacknowledged) >= Len(t.unacknowledged)
      BY <2>2, <2>5, NextLonger
    <3>2. Len(r.unacknowledged) \in Nat /\ Len(t.unacknowledged) \in Nat
      BY <1>2, <2>5 DEF ClientShape
    <3> QED
      BY <1>1, <1>3, <3>1, <3>2
  <2>7. ASSUME r.state # "error" PROVE Sync(s, r, q)
    <3>1. NoFile \notin Writable
      BY DownloadAssumption DEF Writable
    <3>2. Pending(s, d) = Pending(s, t) /\ Restarts(s, d) = Restarts(s, t)
      BY <2>2 DEF Pending, Restarts
    <3>3. StillMissing(s, d, q)
      <4>1. ASSUME NEW g \in Writable, d.disk[g] # Content(g)
            PROVE  Untouched(s, d, q, g)
        <5>1. g # f /\ g \in File
          BY <2>3, <4>1 DEF Writable
        <5>2. c.disk[g] # Content(g)
          BY <1>4, <2>2, <4>1, <5>1
        <5>3. Untouched(s, t, q, g)
          BY <1>10, <2>1, <5>1, <5>2 DEF StillMissing
        <5> QED
          BY <2>2, <3>2, <5>3 DEF Untouched
      <4>2. ASSUME NEW i \in c.downloadList
            PROVE  d.disk[Paks[i]] # Content(Paks[i]) /\ Paks[i] \in File
        <5>1. Paks[i] \in File /\ Paks[i] # f
          BY PaksIs DEF StillMissing, ClientShape
        <5> QED
          BY <1>4, <2>2, <5>1 DEF StillMissing
      <4> QED
        BY <1>4, <2>2, <3>1, <4>1, <4>2 DEF StillMissing
    <3>4. Restarting(s, d, q)
      BY <1>10, <2>1, <3>2 DEF Restarting, AtMostOne
    <3>5. s.executed <= Len(d.unacknowledged)
      BY <2>1, <2>2 DEF Queued
    <3> QED
      BY <2>2, <2>5, <2>7, <3>1, <3>3, <3>4, <3>5, NextSync
  <2>8. Whole(c) => Whole(r)
    BY <2>4, <2>5 DEF Whole
  <2> QED
    BY <2>5, <2>6, <2>7, <2>8 DEF r, data
<1> QED
  BY <1>11, <1>12, <1>13

\* What a received block is to a client that waits for f.
Expected(s, c, q, m, f) ==
    f \in Writable /\ m.data[1] = f =>
        /\ Going(s, c, q, f, c.downloadBlock)
        /\ Right(m, f, c.downloadBlock)
        /\ s.downloadName = f => m.block < s.downloadCurrentBlock

\* "stopdl" changes nothing of what the server is asked for.
LEMMA StopQueued ==
    ASSUME NEW s, NEW c, NEW q, NEW a, Queued(s, c, a, Command("stopdl", 0)),
           a.disk = c.disk, a.downloadTempName = c.downloadTempName,
           a.downloadList = c.downloadList, a.downloadRestart = c.downloadRestart,
           StillMissing(s, c, q), Restarting(s, c, q)
    PROVE  StillMissing(s, a, q) /\ Restarting(s, a, q)
<1> DEFINE cmd == Command("stopdl", 0)
<1>1. cmd.op # "donedl" /\ \A g : cmd # Command("download", g)
  BY CommandsDiffer
<1> HIDE DEF cmd
<1>2. Queued(s, c, a, cmd)
  BY DEF cmd
<1>3. \A g : Untouched(s, c, q, g) => Untouched(s, a, q, g)
  BY <1>1, <1>2 DEF Untouched, Queued
<1>4. Restarts(s, a) = Restarts(s, c)
  BY <1>1, <1>2 DEF Restarts, Queued
<1> QED
  BY <1>3, <1>4 DEF StillMissing, Restarting

LEMMA ParseBlockStep ==
    ASSUME DistinctPaks, NEW s, NEW c, NEW q, NEW m, ServerShape(s), ClientShape(c),
           \A i \in 1 .. Len(q) : MessageShape(q[i]),
           c.state # "error", s.executed <= Len(c.unacknowledged),
           Sync(s, c, q), Expected(s, c, q, m, c.downloadTempName),
           c.downloadTempName # NoFile,
           c.downloadBlock = m.block => m.data[1] = c.downloadTempName
    PROVE  LET r == ParseBlock(c, m)
           IN  /\ ClientShape(r)
               /\ Len(r.unacknowledged) >= Len(c.unacknowledged)
               /\ Whole(c) => Whole(r)
               /\ r.state # "error" => Sync(s, r, q)
<1> DEFINE f == c.downloadTempName
           r == ParseBlock(c, m)
<1>1. Len(c.unacknowledged) \in Nat /\ c.downloadBlock \in Nat /\ f \in File
  BY DEF ClientShape
<1>2. Temporary(c) /\ StillMissing(s, c, q) /\ Restarting(s, c, q)
  BY DEF Sync
<1>3. CASE c.downloadBlock # m.block
  <2>1. r = c
    BY <1>3 DEF ParseBlock
  <2> HIDE DEF r
  <2> QED
    BY <1>1, <2>1 DEF r
<1>4. CASE c.downloadBlock = m.block /\ ~c.download /\ f \in Unwritable
  <2> DEFINE a == CL_AddReliableCommand(c, Command("stopdl", 0))
  <2>1. r = CL_NextDownload(a)
    BY <1>4 DEF ParseBlock
  <2>2. /\ ClientShape(a) /\ SameDownload(c, a) /\ SameFiles(c, a)
        /\ AddsOrFails(c, a, Command("stopdl", 0))
    BY CommandsAre, AddCommandIs
  <2> HIDE DEF a, r
  <2>3. CASE a.state = "error"
    <3>1. r = a
      BY <2>1, <2>3 DEF CL_NextDownload
    <3> QED
      BY <1>1, <2>2, <2>3, <3>1 DEF AddsOrFails, SameFiles, Whole, r
  <2>4. CASE a.state # "error"
    <3>1. Queued(s, c, a, Command("stopdl", 0))
      BY <2>2, <2>4, AddsPending DEF AddsOrFails
    <3>2. /\ a.disk = c.disk /\ a.downloadTempName = f /\ ~a.download
          /\ a.downloadList = c.downloadList /\ a.downloadRestart = c.downloadRestart
      BY <1>4, <2>2 DEF SameDownload, SameFiles
    <3>3. StillMissing(s, a, q) /\ Restarting(s, a, q)
      BY <1>2, <3>1, <3>2, StopQueued
    <3>4. /\ ClientShape(r) /\ NextIs(a, r)
          /\ r.download = a.download /\ r.disk = a.disk
      BY <2>1, <2>2, <2>4, NextDownloadIs
    <3>5. Len(a.unacknowledged) = Len(c.unacknowledged) + 1 /\ s.executed <= Len(a.unacknowledged)
      BY <3>1 DEF Queued
    <3>6. Len(r.unacknowledged) >= Len(c.unacknowledged)
      <4>1. Len(r.unacknowledged) >= Len(a.unacknowledged)
        BY <2>2, <3>4, NextLonger
      <4>2. Len(r.unacknowledged) \in Nat
        BY <3>4 DEF ClientShape
      <4> QED
        BY <1>1, <3>5, <4>1, <4>2
    <3>7. f \notin Writable
      BY <1>4 DEF Writable
    <3>8. r.state # "error" => Sync(s, r, q)
      BY <2>2, <3>2, <3>3, <3>4, <3>5, <3>7, NextSync
    <3>9. Whole(c) => Whole(r)
      BY <3>2, <3>4 DEF Whole
    <3> QED
      BY <3>4, <3>6, <3>8, <3>9 DEF r
  <2> QED
    BY <2>3, <2>4
<1>5. CASE c.downloadBlock = m.block /\ ~(~c.download /\ f \in Unwritable)
  <2>1. r = AcceptBlock(c, m.data)
    BY <1>5 DEF ParseBlock
  <2>2. f \in Writable
    BY <1>1, <1>2, <1>5 DEF Temporary, Writable
  <2>3. /\ Going(s, c, q, f, c.downloadBlock)
        /\ Right(m, f, c.downloadBlock)
        /\ s.downloadName = f => m.block < s.downloadCurrentBlock
    BY <1>5, <2>2 DEF Expected
  <2>4. m.data = <<f, c.downloadBlock>>
    <3>1. ~(m.block < c.downloadBlock)
      BY <1>1, <1>5
    <3>2. PICK k \in Nat : /\ m.data = <<f, k>> /\ m.block = Short(k)
                           /\ k < c.downloadBlock + SHORT
      BY <2>3, <3>1 DEF Right
    <3>3. k = c.downloadBlock
      BY <1>1, <1>5, <3>2, ShortTells
    <3> QED
      BY <3>2, <3>3
  <2>5. s.downloadName = f => c.downloadBlock < s.downloadCurrentBlock
    BY <1>5, <2>3
  <2> HIDE DEF r
  <2>6. r = AcceptBlock(c, <<f, c.downloadBlock>>)
    BY <2>1, <2>4
  <2> QED
    BY <1>2, <2>2, <2>3, <2>5, <2>6, AcceptStep DEF r
<1> QED
  BY <1>3, <1>4, <1>5

\* Any block, or a refusal.
LEMMA ParseDownloadStep ==
    ASSUME DistinctPaks, NEW s, NEW c, NEW q, NEW m, ServerShape(s), ClientShape(c),
           \A i \in 1 .. Len(q) : MessageShape(q[i]),
           c.state # "error", s.executed <= Len(c.unacknowledged),
           Sync(s, c, q), Expected(s, c, q, m, c.downloadTempName),
           c.downloadTempName # NoFile /\ c.downloadBlock = m.block
             => m.data[1] = c.downloadTempName,
           NEW r \in CL_ParseDownload(c, m)
    PROVE  /\ ClientShape(r)
           /\ Len(r.unacknowledged) >= Len(c.unacknowledged)
           /\ Whole(c) => Whole(r)
           /\ r.state # "error" => Sync(s, r, q)
<1>1. Len(c.unacknowledged) \in Nat
  BY DEF ClientShape
<1>2. CASE c.downloadTempName = NoFile
  <2> DEFINE a == CL_AddReliableCommand(c, Command("stopdl", 0))
             e == [a EXCEPT !.state = "error"]
  <2>1. r \in {a, e}
    BY <1>2 DEF CL_ParseDownload
  <2>2. /\ ClientShape(a) /\ SameDownload(c, a) /\ SameFiles(c, a)
        /\ AddsOrFails(c, a, Command("stopdl", 0))
    BY CommandsAre, AddCommandIs
  <2>3. Len(a.unacknowledged) >= Len(c.unacknowledged)
    BY <1>1, <2>2 DEF AddsOrFails, Adds
  <2>4. Whole(c) => Whole(a)
    BY <2>2 DEF SameFiles, Whole
  <2>5. e = [a EXCEPT !.state = "error"]
    OBVIOUS
  <2> HIDE DEF a, e
  <2>6. CASE r = e
    <3>1. r = [state |-> "error", unacknowledged |-> a.unacknowledged,
               downloadTempName |-> a.downloadTempName, download |-> a.download,
               downloadBlock |-> a.downloadBlock, downloadList |-> a.downloadList,
               downloadRestart |-> a.downloadRestart, tmp |-> a.tmp, disk |-> a.disk]
      BY <2>2, <2>5, <2>6 DEF ClientShape
    <3>2. ClientShape(r)
      BY <2>2, <3>1 DEF ClientShape
    <3>3. Whole(a) => Whole(r)
      BY <3>1 DEF Whole
    <3> QED
      BY <2>3, <2>4, <3>1, <3>2, <3>3
  <2>7. CASE r = a /\ a.state = "error"
    BY <2>2, <2>3, <2>4, <2>7
  <2>8. CASE r = a /\ a.state # "error"
    <3>1. Queued(s, c, a, Command("stopdl", 0))
      BY <2>2, <2>8, AddsPending DEF AddsOrFails
    <3>2. /\ a.disk = c.disk /\ a.downloadTempName = NoFile /\ a.download = c.download
          /\ a.downloadList = c.downloadList /\ a.downloadRestart = c.downloadRestart
      BY <1>2, <2>2 DEF SameDownload, SameFiles
    <3>3. StillMissing(s, a, q) /\ Restarting(s, a, q)
      BY <1>2, <3>1, <3>2, StopQueued DEF Sync
    <3>4. NoFile \notin Writable
      BY DownloadAssumption DEF Writable
    <3>5. ~a.download
      BY <1>2, <3>2, <3>4 DEF Sync, Temporary
    <3>6. Sync(s, a, q)
      BY <3>2, <3>3, <3>4, <3>5 DEF Sync, InStep, Temporary
    <3> QED
      BY <2>2, <2>3, <2>4, <2>8, <3>6
  <2> QED
    BY <2>1, <2>6, <2>7, <2>8
<1>3. CASE c.downloadTempName # NoFile /\ m.kind = "refused"
  <2> DEFINE e == [c EXCEPT !.state = "error"]
  <2>1. r = e
    BY <1>3 DEF CL_ParseDownload
  <2> HIDE DEF e
  <2>2. r = [state |-> "error", unacknowledged |-> c.unacknowledged,
             downloadTempName |-> c.downloadTempName, download |-> c.download,
             downloadBlock |-> c.downloadBlock, downloadList |-> c.downloadList,
             downloadRestart |-> c.downloadRestart, tmp |-> c.tmp, disk |-> c.disk]
    BY <2>1 DEF ClientShape, e
  <2>3. ClientShape(r)
    BY <2>2 DEF ClientShape
  <2> QED
    BY <1>1, <2>2, <2>3 DEF Whole
<1>4. CASE c.downloadTempName # NoFile /\ m.kind # "refused"
  <2>1. r = ParseBlock(c, m)
    BY <1>4 DEF CL_ParseDownload
  <2> QED
    BY <1>4, <2>1, ParseBlockStep
<1> QED
  BY <1>2, <1>3, <1>4

\* A gamestate: the files are compared again.
LEMMA InitDownloadsStep ==
    ASSUME DistinctPaks, NEW s, NEW c, NEW q, ServerShape(s), ClientShape(c),
           c.state # "error", s.executed <= Len(c.unacknowledged),
           StillMissing(s, c, q), c.downloadTempName \notin Writable, ~c.download,
           Restarts(s, c) = {}, GameStates(q) = {}, c.downloadList = {}
    PROVE  LET r == CL_InitDownloads(c)
           IN  /\ ClientShape(r)
               /\ Len(r.unacknowledged) >= Len(c.unacknowledged)
               /\ Whole(c) => Whole(r)
               /\ r.state # "error" => Sync(s, r, q)
<1> DEFINE r == CL_InitDownloads(c)
           D(state, list) ==
             [state |-> state, unacknowledged |-> c.unacknowledged,
              downloadTempName |-> c.downloadTempName, download |-> c.download,
              downloadBlock |-> c.downloadBlock, downloadList |-> list,
              downloadRestart |-> c.downloadRestart, tmp |-> c.tmp, disk |-> c.disk]
<1>1. ASSUME NEW d, NEW state, NEW list, d = D(state, list), state # "error",
             list \subseteq Missing(c), ClientShape(r), NextIs(d, r),
             r.download = d.download, r.disk = d.disk
      PROVE  /\ Len(r.unacknowledged) >= Len(c.unacknowledged)
             /\ Whole(c) => Whole(r)
             /\ r.state # "error" => Sync(s, r, q)
  <2> HIDE DEF r
  <2>1. ClientShape(d)
    BY <1>1 DEF ClientShape, Missing
  <2>2. Pending(s, d) = Pending(s, c) /\ Restarts(s, d) = Restarts(s, c)
    BY <1>1 DEF Pending, Restarts
  <2>3. StillMissing(s, d, q)
    <3>1. \A i \in list : c.disk[Paks[i]] # Content(Paks[i])
      BY <1>1 DEF Missing
    <3> QED
      BY <1>1, <2>2, <3>1 DEF StillMissing, Untouched
  <2>4. Restarting(s, d, q)
    BY <2>2 DEF Restarting, AtMostOne
  <2>5. r.state # "error" => Sync(s, r, q)
    BY <1>1, <2>1, <2>3, <2>4, NextSync
  <2> QED
    BY <1>1, <2>1, <2>5, NextLonger DEF Whole
<1>2. CASE Missing(c) = {}
  <2> DEFINE d == [c EXCEPT !.state = "loading"]
  <2>1. r = CL_DownloadsComplete(d)
    BY <1>2 DEF CL_InitDownloads
  <2>2. d = [c EXCEPT !.state = "loading"]
    OBVIOUS
  <2> HIDE DEF d, r
  <2>3. d = D("loading", {})
    BY <2>2 DEF ClientShape
  <2>4. ClientShape(d) /\ d.state # "error" /\ d.downloadList = {}
    BY <2>3 DEF ClientShape
  <2>5. /\ ClientShape(r) /\ NextIs(d, r)
        /\ r.download = d.download /\ r.disk = d.disk
    BY <2>1, <2>4, CompleteIs
  <2> QED
    BY <1>1, <2>3, <2>5 DEF r
<1>3. CASE Missing(c) # {}
  <2> DEFINE d == [c EXCEPT !.state = "connected", !.downloadList = Missing(c)]
  <2>1. r = CL_NextDownload(d)
    BY <1>3 DEF CL_InitDownloads
  <2>2. d = [c EXCEPT !.state = "connected", !.downloadList = Missing(c)]
    OBVIOUS
  <2> HIDE DEF d, r
  <2>3. d = D("connected", Missing(c))
    BY <2>2 DEF ClientShape
  <2>4. ClientShape(d) /\ d.state # "error"
    BY <2>3 DEF ClientShape, Missing
  <2>5. /\ ClientShape(r) /\ NextIs(d, r)
        /\ r.download = d.download /\ r.disk = d.disk
    BY <2>1, <2>4, NextDownloadIs
  <2> QED
    BY <1>1, <2>3, <2>5 DEF r
<1> QED
  BY <1>2, <1>3

-----------------------------------------------------------------------------
(* A message is received: those before it are lost, and the commands it    *)
(* acknowledges are forgotten on both sides.                               *)

Forgets(s, t, a) ==
    /\ t.executed = s.executed - a
    /\ t.state = s.state /\ t.downloadName = s.downloadName /\ t.download = s.download
    /\ t.downloadClientBlock = s.downloadClientBlock
    /\ t.downloadCurrentBlock = s.downloadCurrentBlock
    /\ t.downloadXmitBlock = s.downloadXmitBlock /\ t.downloadBlocks = s.downloadBlocks

Forgotten(c, d, a) ==
    /\ Len(d.unacknowledged) = Len(c.unacknowledged) - a
    /\ \A i \in 1 .. Len(d.unacknowledged) : d.unacknowledged[i] = c.unacknowledged[i + a]
    /\ d.state = c.state
    /\ SameDownload(c, d) /\ SameFiles(c, d)

\* The messages left are as they were.
Behind(q, r, n) ==
    /\ Len(r) = Len(q) - n
    /\ \A i \in 1 .. Len(r) :
         /\ r[i].kind = q[i + n].kind /\ r[i].block = q[i + n].block
         /\ r[i].data = q[i + n].data

LEMMA ForgetsIs ==
    ASSUME NEW s, NEW a \in 0 .. s.executed, ServerShape(s)
    PROVE  LET t == [s EXCEPT !.executed = @ - a]
           IN  ServerShape(t) /\ Forgets(s, t, a)
<1> DEFINE t == [s EXCEPT !.executed = @ - a]
<1>1. t = [s EXCEPT !.executed = s.executed - a]
  OBVIOUS
<1> HIDE DEF t
<1>2. t = [state |-> s.state, executed |-> s.executed - a, downloadName |-> s.downloadName,
           download |-> s.download, downloadClientBlock |-> s.downloadClientBlock,
           downloadCurrentBlock |-> s.downloadCurrentBlock,
           downloadXmitBlock |-> s.downloadXmitBlock,
           downloadBlocks |-> s.downloadBlocks]
  BY <1>1 DEF ServerShape
<1>3. s.executed - a \in Nat
  BY DEF ServerShape
<1>4. ServerShape(t)
  BY <1>2, <1>3 DEF ServerShape
<1>5. Forgets(s, t, a)
  BY <1>2 DEF Forgets
<1> QED
  BY <1>4, <1>5 DEF t

LEMMA AcknowledgedIs ==
    ASSUME NEW c, NEW a \in 0 .. Len(c.unacknowledged), ClientShape(c)
    PROVE  LET d == Acknowledged(c, a)
           IN  ClientShape(d) /\ Forgotten(c, d, a)
<1> DEFINE d == Acknowledged(c, a)
           u == SubSeq(c.unacknowledged, a + 1, Len(c.unacknowledged))
<1> DEFINE S == ClientCommand
<1>1. c.unacknowledged \in Seq(S)
  BY DEF ClientShape
<1> HIDE DEF S
<1>2. Len(c.unacknowledged) \in Nat /\ a + 1 \in 1 .. Len(c.unacknowledged) + 1
  BY <1>1
<1>3. \A i \in a + 1 .. Len(c.unacknowledged) : c.unacknowledged[i] \in S
  BY <1>1, <1>2
<1>4. /\ u \in Seq(S) /\ Len(u) = Len(c.unacknowledged) - a
      /\ \A i \in 1 .. Len(u) : u[i] = c.unacknowledged[i + a]
  BY <1>2, <1>3
<1>5. d = [c EXCEPT !.unacknowledged = u]
  BY DEF Acknowledged
<1> HIDE DEF d, u
<1>6. d = [state |-> c.state, unacknowledged |-> u,
           downloadTempName |-> c.downloadTempName, download |-> c.download,
           downloadBlock |-> c.downloadBlock, downloadList |-> c.downloadList,
           downloadRestart |-> c.downloadRestart, tmp |-> c.tmp, disk |-> c.disk]
  BY <1>5 DEF ClientShape
<1>7. ClientShape(d)
  BY <1>4, <1>6 DEF ClientShape, S
<1>8. Forgotten(c, d, a)
  BY <1>4, <1>6 DEF Forgotten, SameDownload, SameFiles
<1> QED
  BY <1>7, <1>8 DEF d

LEMMA PendingMoves ==
    ASSUME NEW s, NEW c, NEW t, NEW d, NEW a \in 0 .. s.executed,
           ServerShape(s), ClientShape(c), Forgets(s, t, a), Forgotten(c, d, a),
           s.executed <= Len(c.unacknowledged)
    PROVE  /\ Len(d.unacknowledged) - t.executed = Len(c.unacknowledged) - s.executed
           /\ t.executed <= Len(d.unacknowledged)
           /\ \A i \in Pending(t, d) :
                /\ i + a \in Pending(s, c)
                /\ d.unacknowledged[i] = c.unacknowledged[i + a]
           /\ \A i \in Pending(s, c) : i - a \in Pending(t, d)
<1>1. Len(c.unacknowledged) \in Nat /\ s.executed \in Nat
  BY DEF ClientShape, ServerShape
<1>2. Len(d.unacknowledged) = Len(c.unacknowledged) - a /\ t.executed = s.executed - a
  BY DEF Forgets, Forgotten
<1>3. /\ Len(d.unacknowledged) - t.executed = Len(c.unacknowledged) - s.executed
      /\ t.executed <= Len(d.unacknowledged)
      /\ \A i \in t.executed + 1 .. Len(d.unacknowledged) :
           i + a \in s.executed + 1 .. Len(c.unacknowledged) /\ i \in 1 .. Len(d.unacknowledged)
      /\ \A i \in s.executed + 1 .. Len(c.unacknowledged) :
           i - a \in t.executed + 1 .. Len(d.unacknowledged)
  BY <1>1, <1>2
<1> QED
  BY <1>3 DEF Pending, Forgotten

LEMMA ForgetSync ==
    ASSUME NEW s, NEW c, NEW q, NEW t, NEW d, NEW r, NEW n \in 1 .. Len(q),
           NEW a \in 0 .. s.executed,
           ServerShape(s), ClientShape(c), \E S : q \in Seq(S),
           s.executed <= Len(c.unacknowledged),
           Forgets(s, t, a), Forgotten(c, d, a), Behind(q, r, n), Sync(s, c, q)
    PROVE  /\ Sync(t, d, r)
           /\ Expected(t, d, r, q[n], d.downloadTempName)
           /\ q[n].kind = "gamestate" =>
                /\ Restarts(t, d) = {} /\ GameStates(r) = {}
                /\ d.downloadList = {} /\ d.downloadTempName \notin Writable
<1> DEFINE f == c.downloadTempName
           b == c.downloadBlock
<1>1. /\ Len(d.unacknowledged) - t.executed = Len(c.unacknowledged) - s.executed
      /\ \A i \in Pending(t, d) :
           /\ i + a \in Pending(s, c)
           /\ d.unacknowledged[i] = c.unacknowledged[i + a]
      /\ \A i \in Pending(s, c) : i - a \in Pending(t, d)
  BY PendingMoves
<1>2. /\ Len(q) \in Nat /\ Len(c.unacknowledged) \in Nat /\ s.executed \in Nat /\ b \in Nat
      /\ Len(d.unacknowledged) = Len(c.unacknowledged) - a
      /\ Len(r) = Len(q) - n
  BY DEF ClientShape, ServerShape, Forgotten, Behind
<1>3. /\ \A i \in 1 .. Len(r) : i + n \in 1 .. Len(q)
      /\ \A i \in Pending(s, c) : i \in Int
      /\ \A i \in Pending(t, d) : i \in Int
  <2>1. t.executed \in Int
    BY <1>2 DEF Forgets
  <2> QED
    BY <1>2, <2>1 DEF Pending
<1>4. /\ d.downloadTempName = f /\ d.downloadBlock = b
      /\ d.download = c.download /\ d.tmp = c.tmp
      /\ d.downloadList = c.downloadList /\ d.downloadRestart = c.downloadRestart
      /\ d.disk = c.disk
  BY DEF Forgotten, SameDownload, SameFiles
<1>5. /\ t.downloadName = s.downloadName /\ t.download = s.download
      /\ t.downloadClientBlock = s.downloadClientBlock
      /\ t.downloadCurrentBlock = s.downloadCurrentBlock
      /\ t.downloadXmitBlock = s.downloadXmitBlock /\ t.downloadBlocks = s.downloadBlocks
  BY DEF Forgets
<1>6. \A i \in 1 .. Len(r) :
         /\ r[i].kind = q[i + n].kind /\ r[i].block = q[i + n].block
         /\ r[i].data = q[i + n].data
  BY DEF Behind
<1>7. \A g : Unread(s, q, g) => Unread(t, r, g)
  BY <1>3, <1>5, <1>6 DEF Unread
<1>8. \A g : Untouched(s, c, q, g) => Untouched(t, d, r, g)
  BY <1>1, <1>7 DEF Untouched
<1> HIDE DEF f, b
<1>9. Asked(s, c, q, f) => Asked(t, d, r, f)
  <2> SUFFICES ASSUME Asked(s, c, q, f) PROVE Asked(t, d, r, f)
    OBVIOUS
  <2> DEFINE last == Len(c.unacknowledged)
             new == Len(d.unacknowledged)
  <2>1. last - a \in Pending(t, d) /\ new = last - a /\ new + a = last
    BY <1>1, <1>2 DEF Asked
  <2>2. d.unacknowledged[new] = Command("download", f)
    BY <1>1, <2>1 DEF Asked
  <2>3. ASSUME NEW i \in Pending(t, d), i # new
        PROVE  d.unacknowledged[i] # Command("download", f)
    <3>1. i + a # last
      BY <1>2, <1>3, <2>1, <2>3
    <3> QED
      BY <1>1, <3>1 DEF Asked
  <2> QED
    BY <1>4, <1>7, <2>1, <2>2, <2>3 DEF Asked, b
<1>10. Begun(s, c, q, f) => Begun(t, d, r, f)
  <2> SUFFICES ASSUME Begun(s, c, q, f) PROVE Begun(t, d, r, f)
    OBVIOUS
  <2>1. Pending(t, d) = {}
    BY <1>1 DEF Begun
  <2> QED
    BY <1>3, <1>4, <1>5, <1>6, <2>1 DEF Begun, b
<1>11. Going(s, c, q, f, b) => Going(t, d, r, f, b)
  <2> SUFFICES ASSUME Going(s, c, q, f, b) PROVE Going(t, d, r, f, b)
    OBVIOUS
  <2> DEFINE last == Len(c.unacknowledged)
             new == Len(d.unacknowledged)
  <2>1. ASSUME NEW i \in Pending(t, d)
        PROVE  d.unacknowledged[i] = Command("nextdl", b - 1 - (new - i))
    <3>1. new - i = last - (i + a)
      BY <1>2, <1>3
    <3>2. c.unacknowledged[i + a] = Command("nextdl", b - 1 - (last - (i + a)))
      BY <1>1 DEF Going
    <3> QED
      BY <1>1, <3>1, <3>2
  <2>2. Window(s, f) => Window(t, f)
    BY <1>5 DEF Window
  <2>3. \A i \in 1 .. Len(r) : r[i].data[1] = f =>
          /\ Right(r[i], f, b)
          /\ s.downloadName = f => r[i].block < s.downloadCurrentBlock
    BY <1>3, <1>6 DEF Going, Right
  <2>4. new - t.executed = last - s.executed
    BY <1>1
  <2> HIDE DEF last, new
  <2>5. /\ last - s.executed <= b /\ s.downloadName \in {f, NoFile}
        /\ s.downloadName = f =>
             /\ Window(s, f) /\ s.downloadClientBlock = b - (last - s.executed)
             /\ b <= s.downloadCurrentBlock
    BY DEF Going, last
  <2> QED
    BY <1>5, <2>1, <2>2, <2>3, <2>4, <2>5 DEF Going, new
<1>12. InStep(t, d, r)
  BY <1>4, <1>9, <1>10, <1>11 DEF Sync, InStep, f, b
<1>13. Temporary(d)
  BY <1>4 DEF Sync, Temporary, f, b
<1>14. StillMissing(t, d, r)
  BY <1>4, <1>8 DEF Sync, StillMissing, f
<1>15. /\ \A i \in Restarts(t, d) : i + a \in Restarts(s, c)
       /\ \A i \in GameStates(r) : i + n \in GameStates(q)
  BY <1>1, <1>3, <1>6 DEF Restarts, GameStates
<1>16. Restarting(t, d, r)
  <2>1. AtMostOne(Restarts(t, d))
    <3> SUFFICES ASSUME NEW i \in Restarts(t, d), NEW j \in Restarts(t, d) PROVE i = j
      BY DEF AtMostOne
    <3>1. i + a = j + a /\ i \in Int /\ j \in Int
      BY <1>3, <1>15 DEF Sync, Restarting, AtMostOne, Restarts
    <3> QED
      BY <3>1
  <2>2. AtMostOne(GameStates(r))
    <3> SUFFICES ASSUME NEW i \in GameStates(r), NEW j \in GameStates(r) PROVE i = j
      BY DEF AtMostOne
    <3>1. i + n = j + n
      BY <1>15 DEF Sync, Restarting, AtMostOne
    <3>2. i \in Int /\ j \in Int
      BY <1>2 DEF GameStates
    <3> QED
      BY <3>1, <3>2
  <2> QED
    BY <1>4, <1>15, <2>1, <2>2 DEF Sync, Restarting, f
<1>17. Expected(t, d, r, q[n], f)
  <2> SUFFICES ASSUME f \in Writable, q[n].data[1] = f
               PROVE  /\ Going(t, d, r, f, b) /\ Right(q[n], f, b)
                      /\ s.downloadName = f => q[n].block < s.downloadCurrentBlock
    BY <1>4, <1>5 DEF Expected
  <2>1. Going(s, c, q, f, b)
    BY DEF Sync, InStep, Asked, Begun, Unread, f, b
  <2> QED
    BY <1>11, <2>1 DEF Going
<1>18. ASSUME q[n].kind = "gamestate"
       PROVE  /\ Restarts(t, d) = {} /\ GameStates(r) = {}
              /\ d.downloadList = {} /\ d.downloadTempName \notin Writable
  <2>1. n \in GameStates(q)
    BY <1>18 DEF GameStates
  <2>2. Restarts(s, c) = {} /\ c.downloadList = {} /\ f \notin Writable
    BY <2>1 DEF Sync, Restarting, f
  <2>3. GameStates(r) = {}
    <3> SUFFICES ASSUME NEW i \in GameStates(r) PROVE FALSE
      OBVIOUS
    <3>1. i + n = n /\ i \in 1 .. Len(r)
      BY <1>15, <2>1 DEF Sync, Restarting, AtMostOne, GameStates
    <3> QED
      BY <1>2, <3>1
  <2> QED
    BY <1>4, <1>15, <2>2, <2>3
<1> QED
  BY <1>4, <1>12, <1>13, <1>14, <1>16, <1>17, <1>18 DEF Sync

LEMMA OneLess ==
    ASSUME NEW m, NEW r, NEW a, MessageShape(m),
           r = [m EXCEPT !.lastClientCommand = @ - a]
    PROVE  r = [kind |-> m.kind, block |-> m.block, data |-> m.data,
                lastClientCommand |-> m.lastClientCommand - a]
BY DEF MessageShape

\* The messages left, by what they were.
AllLeft(q, r, n, a) ==
    /\ \E S : r \in Seq(S)
    /\ Behind(q, r, n)
    /\ \A i \in 1 .. Len(r) :
         /\ MessageShape(r[i])
         /\ i + n \in 1 .. Len(q)
         /\ r[i].lastClientCommand = q[i + n].lastClientCommand - a

LEMMA LeftIs ==
    ASSUME NEW q, NEW n \in 1 .. Len(q), NEW a \in Nat, NEW r,
           \E S : q \in Seq(S), \A i \in 1 .. Len(q) : MessageShape(q[i]),
           \A i \in 1 .. Len(q) : n < i => a <= q[i].lastClientCommand,
           r = Left(q, n, a)
    PROVE  AllLeft(q, r, n, a)
<1> DEFINE e(i) == [q[n + i] EXCEPT !.lastClientCommand = @ - a]
           k == Len(q) - n
           T == {e(i) : i \in 1 .. k}
<1>1. Len(q) \in Nat /\ k \in Nat
  OBVIOUS
<1>2. r = [i \in 1 .. k |-> e(i)]
  BY DEF Left
<1> HIDE DEF e
<1>3. r \in [1 .. k -> T]
  BY <1>2
<1>4. \A i \in 1 .. k : r[i] = e(i)
  BY <1>2
<1> HIDE DEF T, k
<1>5. r \in Seq(T) /\ Len(r) = k
  <2>1. r \in Seq(T)
    BY ONLY <1>1, <1>3, SeqDef
  <2>2. DOMAIN r = 1 .. k /\ DOMAIN r = 1 .. Len(r) /\ Len(r) \in Nat
    BY <1>3, <2>1
  <2> QED
    BY <1>1, <2>1, <2>2
<1>6. Len(r) = Len(q) - n
  BY <1>5 DEF k
<1>7. ASSUME NEW i \in 1 .. Len(r)
      PROVE  /\ MessageShape(r[i])
             /\ i + n \in 1 .. Len(q)
             /\ r[i].kind = q[i + n].kind /\ r[i].block = q[i + n].block
             /\ r[i].data = q[i + n].data
             /\ r[i].lastClientCommand = q[i + n].lastClientCommand - a
  <2> DEFINE m == q[i + n]
             x == r[i]
  <2>1. i + n \in 1 .. Len(q) /\ n < i + n /\ n + i = i + n
    BY <1>1, <1>6
  <2>2. x = [m EXCEPT !.lastClientCommand = @ - a]
    BY <1>4, <1>5, <2>1 DEF e
  <2>3. MessageShape(m) /\ a <= m.lastClientCommand
    BY <2>1
  <2> HIDE DEF m, x
  <2>4. x = [kind |-> m.kind, block |-> m.block, data |-> m.data,
             lastClientCommand |-> m.lastClientCommand - a]
    BY ONLY <2>2, <2>3, OneLess
  <2>5. MessageShape(x)
    BY <2>3, <2>4 DEF MessageShape
  <2> QED
    BY <2>1, <2>4, <2>5 DEF m, x
<1> QED
  BY <1>5, <1>6, <1>7 DEF Behind, AllLeft

LEMMA ParseStep ==
    ASSUME DistinctPaks, IInv, NEW n \in 1 .. Len(toClient), CL_ParseServerMessage(n)
    PROVE  IInv'
<1> SUFFICES ASSUME ~confused'
             PROVE  /\ Shapes(cl', clc', toClient')
                    /\ Acknowledgements(cl', clc', toClient')
                    /\ Whole(clc')
                    /\ clc'.state # "error" => Sync(cl', clc', toClient')
  BY DEF IInv
<1> DEFINE m == toClient[n]
           a == m.lastClientCommand
           d == Acknowledged(clc, a)
<1>1. ~confused
  BY DEF CL_ParseServerMessage
<1>2. /\ Shapes(cl, clc, toClient)
      /\ Acknowledgements(cl, clc, toClient)
      /\ Whole(clc)
      /\ Sync(cl, clc, toClient) /\ clc.state # "error"
  BY <1>1 DEF IInv, CL_ParseServerMessage
<1>3. a \in 0 .. cl.executed /\ cl.executed <= Len(clc.unacknowledged)
      /\ a \in 0 .. Len(clc.unacknowledged) /\ a \in Nat /\ cl.executed \in Nat
      /\ Len(clc.unacknowledged) \in Nat
  <2>1. a \in Nat /\ a <= cl.executed
    BY <1>2 DEF Shapes, MessageShape, Acknowledgements
  <2>2. cl.executed \in Nat /\ Len(clc.unacknowledged) \in Nat
        /\ cl.executed <= Len(clc.unacknowledged)
    BY <1>2 DEF Shapes, ServerShape, ClientShape, Acknowledgements
  <2> HIDE DEF a
  <2> QED
    BY <2>1, <2>2
<1>4. /\ cl' = [cl EXCEPT !.executed = @ - a]
      /\ toClient' = Left(toClient, n, a)
  BY DEF CL_ParseServerMessage, Left
<1>5. /\ m.kind \in {"block", "refused"} =>
           /\ clc' \in CL_ParseDownload(d, m)
           /\ d.downloadTempName # NoFile /\ d.downloadBlock = m.block
                => m.data[1] = d.downloadTempName
      /\ m.kind = "gamestate" => clc' = CL_InitDownloads(d)
      /\ m.kind = "nop" => clc' = d
      /\ m.kind \in {"block", "refused", "gamestate", "nop"}
  BY DEF CL_ParseServerMessage
<1> HIDE DEF m, a, d
<1>6. ServerShape(cl') /\ Forgets(cl, cl', a)
  BY <1>2, <1>3, <1>4, ForgetsIs DEF Shapes
<1>7. ClientShape(d) /\ Forgotten(clc, d, a)
  BY <1>2, <1>3, AcknowledgedIs DEF Shapes, d
<1>8. \A i \in 1 .. Len(toClient) : n < i => a <= toClient[i].lastClientCommand
  BY <1>2 DEF Acknowledgements, a, m
<1>15. AllLeft(toClient, toClient', n, a)
  <2> DEFINE r == toClient'
  <2>1. r = Left(toClient, n, a)
    BY <1>4
  <2> HIDE DEF r
  <2>2. AllLeft(toClient, r, n, a)
    BY <1>2, <1>3, <1>8, <2>1, LeftIs DEF Shapes
  <2> QED
    BY <2>2 DEF r
<1>9. /\ \E S : toClient' \in Seq(S)
      /\ Behind(toClient, toClient', n)
      /\ \A i \in 1 .. Len(toClient') :
                /\ MessageShape(toClient'[i])
                /\ i + n \in 1 .. Len(toClient)
                /\ toClient'[i].lastClientCommand = toClient[i + n].lastClientCommand - a
  BY <1>15 DEF AllLeft
<1>10. /\ Sync(cl', d, toClient')
       /\ Expected(cl', d, toClient', m, d.downloadTempName)
       /\ m.kind = "gamestate" =>
            /\ Restarts(cl', d) = {} /\ GameStates(toClient') = {}
            /\ d.downloadList = {} /\ d.downloadTempName \notin Writable
  BY <1>2, <1>3, <1>6, <1>7, <1>9, ForgetSync DEF Shapes, m
<1>11. /\ d.state # "error" /\ Whole(d)
       /\ cl'.executed <= Len(d.unacknowledged) /\ Len(d.unacknowledged) \in Nat
       /\ cl'.executed \in Nat
  <2>1. d.state = clc.state /\ d.disk = clc.disk
    BY <1>7 DEF Forgotten, SameFiles
  <2>2. cl'.executed <= Len(d.unacknowledged)
    BY <1>2, <1>3, <1>6, <1>7, PendingMoves DEF Shapes
  <2>3. Len(d.unacknowledged) \in Nat /\ cl'.executed \in Nat
    BY <1>6, <1>7 DEF ClientShape, ServerShape
  <2> QED
    BY <1>2, <2>1, <2>2, <2>3 DEF Whole
<1>12. /\ ClientShape(clc')
       /\ Len(clc'.unacknowledged) >= Len(d.unacknowledged)
       /\ Whole(clc')
       /\ clc'.state # "error" => Sync(cl', clc', toClient')
  <2>1. CASE m.kind \in {"block", "refused"}
    BY <1>5, <1>6, <1>7, <1>9, <1>10, <1>11, <2>1, ParseDownloadStep
  <2>2. CASE m.kind = "gamestate"
    <3>1. StillMissing(cl', d, toClient') /\ ~d.download
      BY <1>10, <2>2 DEF Sync, Temporary
    <3> QED
      BY <1>5, <1>6, <1>7, <1>10, <1>11, <2>2, <3>1, InitDownloadsStep
  <2>3. CASE m.kind = "nop"
    BY <1>5, <1>7, <1>10, <1>11, <2>3
  <2> QED
    BY <1>5, <2>1, <2>2, <2>3
<1>13. Shapes(cl', clc', toClient')
  BY <1>6, <1>9, <1>12 DEF Shapes
<1>14. Acknowledgements(cl', clc', toClient')
  <2>1. cl'.executed <= Len(clc'.unacknowledged)
    <3>1. Len(clc'.unacknowledged) \in Nat
      BY <1>12 DEF ClientShape
    <3> QED
      BY <1>11, <1>12, <3>1
  <2>2. ASSUME NEW i \in 1 .. Len(toClient')
        PROVE  toClient'[i].lastClientCommand <= cl'.executed
    <3>1. /\ toClient[i + n].lastClientCommand <= cl.executed
          /\ toClient[i + n].lastClientCommand \in Nat
      BY <1>2, <1>9 DEF Acknowledgements, Shapes, MessageShape
    <3>2. cl'.executed = cl.executed - a
      BY <1>6 DEF Forgets
    <3> QED
      BY <1>3, <1>9, <3>1, <3>2
  <2>3. ASSUME NEW i \in 1 .. Len(toClient'), NEW j \in 1 .. Len(toClient'), i < j
        PROVE  toClient'[i].lastClientCommand <= toClient'[j].lastClientCommand
    <3>1. i + n \in 1 .. Len(toClient) /\ j + n \in 1 .. Len(toClient) /\ i + n < j + n
      <4>1. Len(toClient') \in Nat /\ Len(toClient) \in Nat
        BY <1>2, <1>9 DEF Shapes
      <4> QED
        BY <1>9, <2>3, <4>1
    <3>2. toClient[i + n].lastClientCommand <= toClient[j + n].lastClientCommand
      BY <1>2, <3>1 DEF Acknowledgements
    <3>3. toClient[i + n].lastClientCommand \in Nat /\ toClient[j + n].lastClientCommand \in Nat
      BY <1>2, <3>1 DEF Shapes, MessageShape
    <3> DEFINE x == toClient[i + n].lastClientCommand
               y == toClient[j + n].lastClientCommand
    <3>4. toClient'[i].lastClientCommand = x - a /\ toClient'[j].lastClientCommand = y - a
      BY <1>9
    <3>5. x \in Int /\ y \in Int /\ a \in Int /\ x <= y
      BY <1>3, <3>2, <3>3
    <3> HIDE DEF x, y
    <3>6. x - a <= y - a
      BY ONLY <3>5
    <3> QED
      BY <3>4, <3>6
  <2> QED
    BY <2>1, <2>2, <2>3 DEF Acknowledgements
<1> QED
  BY <1>12, <1>13, <1>14

-----------------------------------------------------------------------------
(* The server's steps, with the client as it is.                           *)

\* What is sent of a download is in the window, or not new to the client.
Fits(s, c, q, m) ==
    \/ m.data[1] = NoFile
    \/ /\ s.download /\ s.downloadName # NoFile
       /\ \E n \in DOMAIN s.downloadBlocks : m.data = s.downloadBlocks[n]
       /\ LET f == c.downloadTempName
          IN  s.downloadName = f /\ Going(s, c, q, f, c.downloadBlock) /\ m.data[1] = f
              => /\ Right(m, f, c.downloadBlock)
                 /\ m.block < s.downloadCurrentBlock

LEMMA SendSync ==
    ASSUME NEW s, NEW c, NEW q, NEW r, NEW m, \E S : q \in Seq(S), Grown(q, r, m),
           InStep(s, c, q), StillMissing(s, c, q), Fits(s, c, q, m)
    PROVE  InStep(s, c, r) /\ StillMissing(s, c, r)
<1>1. \A i \in 1 .. Len(r) : r[i] = m \/ \E j \in 1 .. Len(q) : r[i] = q[j]
  BY GrownEach
<1>2. NoFile \notin Writable
  BY DownloadAssumption DEF Writable
<1>3. ASSUME NEW f \in Writable, Unread(s, q, f) PROVE Unread(s, r, f)
  <2>1. m.data[1] # f
    BY <1>2, <1>3 DEF Unread, Fits
  <2> QED
    BY <1>1, <1>3, <2>1 DEF Unread
<1>4. StillMissing(s, c, r)
  BY <1>3 DEF StillMissing, Untouched
<1>5. InStep(s, c, r)
  <2> DEFINE f == c.downloadTempName
             b == c.downloadBlock
  <2> SUFFICES ASSUME f \in Writable
               PROVE  Asked(s, c, r, f) \/ Begun(s, c, r, f) \/ Going(s, c, r, f, b)
    BY DEF InStep
  <2> HIDE DEF f, b
  <2>1. Asked(s, c, q, f) => Asked(s, c, r, f)
    BY <1>3 DEF Asked
  <2>2. ASSUME Begun(s, c, q, f) PROVE Begun(s, c, r, f)
    <3>1. m.data[1] # f
      BY <1>2, <2>2 DEF Begun, Fits
    <3> QED
      BY <1>1, <2>2, <3>1 DEF Begun
  <2>3. ASSUME Going(s, c, q, f, b) PROVE Going(s, c, r, f, b)
    <3>1. ASSUME m.data[1] = f
          PROVE  /\ Right(m, f, b)
                 /\ s.downloadName = f => m.block < s.downloadCurrentBlock
      <4>1. s.downloadName # NoFile => s.downloadName = f
        BY <2>3 DEF Going
      <4> QED
        BY <1>2, <2>3, <3>1, <4>1 DEF Fits, f, b
    <3>2. ASSUME NEW i \in 1 .. Len(r), r[i].data[1] = f
          PROVE  /\ Right(r[i], f, b)
                 /\ s.downloadName = f => r[i].block < s.downloadCurrentBlock
      BY <1>1, <2>3, <3>1, <3>2 DEF Going
    <3> QED
      BY <2>3, <3>2 DEF Going
  <2> QED
    BY <2>1, <2>2, <2>3 DEF InStep, f, b
<1> QED
  BY <1>4, <1>5

LEMMA SendNoGameState ==
    ASSUME NEW s, NEW c, NEW q, NEW r, NEW m, \E S : q \in Seq(S), Grown(q, r, m),
           m.kind # "gamestate", Restarting(s, c, q)
    PROVE  Restarting(s, c, r)
<1>1. \A i \in GameStates(r) : \E j \in GameStates(q) : r[i] = q[j]
  BY GrownEach DEF GameStates
<1>2. AtMostOne(GameStates(r))
  <2>1. ASSUME NEW i \in GameStates(r), NEW j \in GameStates(r), i < j PROVE FALSE
    <3>0. i \in 1 .. Len(r) /\ j \in 1 .. Len(r) /\ r[j] # m
      BY DEF GameStates
    <3>1. PICK x, y \in 1 .. Len(q) : x < y /\ r[i] = q[x] /\ r[j] = q[y]
      <4>1. r[j] = m \/ \E x, y \in 1 .. Len(q) : x < y /\ r[i] = q[x] /\ r[j] = q[y]
        BY <2>1, <3>0, GrownEach
      <4> QED
        BY <3>0, <4>1
    <3>2. x \in GameStates(q) /\ y \in GameStates(q)
      BY <3>1 DEF GameStates
    <3>3. x = y
      BY <3>2 DEF Restarting, AtMostOne
    <3>4. Len(q) \in Nat
      OBVIOUS
    <3> QED
      BY <3>1, <3>3, <3>4
  <2>2. \A i \in GameStates(r) : i \in Int
    BY DEF GameStates, Grown
  <2>3. ASSUME NEW i \in GameStates(r), NEW j \in GameStates(r) PROVE i = j
    <3>1. ~(i < j) /\ ~(j < i)
      BY <2>1
    <3> QED
      BY <2>2, <3>1
  <2> QED
    BY <2>3 DEF AtMostOne
<1> QED
  BY <1>1, <1>2 DEF Restarting

LEMMA SendGameState ==
    ASSUME NEW s, NEW c, NEW q, NEW r, NEW m, \E S : q \in Seq(S), Grown(q, r, m),
           GameStates(q) = {}, Restarts(s, c) = {},
           c.downloadList = {}, ~c.downloadRestart, c.downloadTempName \notin Writable
    PROVE  Restarting(s, c, r)
<1>1. AtMostOne(GameStates(r))
  <2>1. ASSUME NEW i \in GameStates(r), NEW j \in GameStates(r), i < j PROVE FALSE
    <3>1. PICK x \in 1 .. Len(q) : r[i] = q[x]
      BY <2>1, GrownEach DEF GameStates
    <3>2. x \in GameStates(q)
      BY <3>1 DEF GameStates
    <3> QED
      BY <3>2
  <2>2. \A i \in GameStates(r) : i \in Int
    BY DEF GameStates, Grown
  <2>3. ASSUME NEW i \in GameStates(r), NEW j \in GameStates(r) PROVE i = j
    <3>1. ~(i < j) /\ ~(j < i)
      BY <2>1
    <3> QED
      BY <2>2, <3>1
  <2> QED
    BY <2>3 DEF AtMostOne
<1> QED
  BY <1>1 DEF Restarting, AtMostOne

\* The messages and their acknowledgements, with a new one.
Messages(s, q) ==
    /\ \E S : q \in Seq(S)
    /\ \A i \in 1 .. Len(q) : MessageShape(q[i]) /\ q[i].lastClientCommand <= s.executed
    /\ \A i, j \in 1 .. Len(q) : i < j => q[i].lastClientCommand <= q[j].lastClientCommand

LEMMA SendMessages ==
    ASSUME NEW s, NEW t, NEW q, NEW r, NEW m, Messages(s, q), Grown(q, r, m),
           MessageShape(m), s.executed \in Nat, t.executed \in Nat,
           s.executed <= m.lastClientCommand, m.lastClientCommand <= t.executed
    PROVE  Messages(t, r)
<1>1. \E S : q \in Seq(S)
  BY DEF Messages
<1>2. m.lastClientCommand \in Nat /\ MessageShape(m) /\ s.executed <= t.executed
  BY DEF MessageShape
<1>3. ASSUME NEW i \in 1 .. Len(q)
      PROVE  /\ q[i].lastClientCommand <= m.lastClientCommand
             /\ q[i].lastClientCommand <= t.executed
             /\ MessageShape(q[i])
  <2>1. q[i].lastClientCommand <= s.executed /\ MessageShape(q[i])
    BY DEF Messages
  <2>2. q[i].lastClientCommand \in Nat
    BY <2>1 DEF MessageShape
  <2> QED
    BY <1>2, <2>1, <2>2
<1>4. \A i \in 1 .. Len(r) : MessageShape(r[i]) /\ r[i].lastClientCommand <= t.executed
  BY <1>1, <1>2, <1>3, GrownEach
<1>5. ASSUME NEW i \in 1 .. Len(r), NEW j \in 1 .. Len(r), i < j
      PROVE  r[i].lastClientCommand <= r[j].lastClientCommand
  <2>1. /\ \E x \in 1 .. Len(q) : r[i] = q[x]
        /\ \/ r[j] = m
           \/ \E x, y \in 1 .. Len(q) : x < y /\ r[i] = q[x] /\ r[j] = q[y]
    BY <1>1, <1>5, GrownEach
  <2> QED
    BY <1>3, <2>1 DEF Messages
<1> QED
  BY <1>4, <1>5 DEF Messages, Grown

\* A command is executed.
LEMMA PendingShrinks ==
    ASSUME NEW s, NEW c, NEW t, ServerShape(s), ClientShape(c),
           s.executed < Len(c.unacknowledged), t.executed = s.executed + 1
    PROVE  /\ s.executed + 1 \in Pending(s, c)
           /\ Pending(t, c) = Pending(s, c) \ {s.executed + 1}
           /\ c.unacknowledged[s.executed + 1] \in ClientCommand
<1>1. Len(c.unacknowledged) \in Nat /\ s.executed \in Nat /\ c.unacknowledged \in Seq(ClientCommand)
  BY DEF ClientShape, ServerShape
<1>2. s.executed + 1 \in 1 .. Len(c.unacknowledged)
  BY <1>1
<1>3. c.unacknowledged[s.executed + 1] \in ClientCommand
  BY <1>1, <1>2
<1> QED
  BY <1>1, <1>3 DEF Pending

\* Any command but "download" goes on with the file, or closes it.
Passes(s, t, cmd) ==
    /\ t.executed = s.executed + 1
    /\ t.downloadBlocks = s.downloadBlocks
    /\ t.downloadName \in {s.downloadName, NoFile}
    /\ t.downloadName # NoFile =>
         /\ t.download = s.download
         /\ t.downloadCurrentBlock = s.downloadCurrentBlock
         /\ t.downloadXmitBlock = s.downloadXmitBlock
         /\ \A k : /\ cmd = Command("nextdl", k) /\ k = s.downloadClientBlock
                   => t.downloadClientBlock = k + 1

LEMMA UntouchedStays ==
    ASSUME NEW s, NEW c, NEW q, NEW t, NEW f, Untouched(s, c, q, f),
           Pending(t, c) \subseteq Pending(s, c),
           t.downloadBlocks = s.downloadBlocks, t.downloadName # f
    PROVE  Untouched(t, c, q, f)
BY DEF Untouched, Unread

LEMMA PassSync ==
    ASSUME NEW s, NEW c, NEW q, NEW t, ServerShape(s), ClientShape(c),
           s.executed < Len(c.unacknowledged), Sync(s, c, q),
           c.unacknowledged[s.executed + 1].op # "download",
           Passes(s, t, c.unacknowledged[s.executed + 1])
    PROVE  /\ Sync(t, c, q)
           /\ c.unacknowledged[s.executed + 1].op = "donedl" =>
                /\ GameStates(q) = {} /\ Restarts(t, c) = {}
                /\ c.downloadList = {} /\ ~c.downloadRestart
                /\ c.downloadTempName \notin Writable
<1> DEFINE i == s.executed + 1
           cmd == c.unacknowledged[i]
           f == c.downloadTempName
           b == c.downloadBlock
           last == Len(c.unacknowledged)
<1>1. i \in Pending(s, c) /\ Pending(t, c) = Pending(s, c) \ {i} /\ t.executed = i
  BY PendingShrinks DEF Passes
<1>2. last \in Nat /\ s.executed \in Nat /\ b \in Nat /\ i \in Nat /\ i <= last
  BY DEF ClientShape, ServerShape
<1>3. NoFile \notin Writable
  BY DownloadAssumption DEF Writable
<1>4. t.downloadBlocks = s.downloadBlocks /\ t.downloadName \in {s.downloadName, NoFile}
  BY DEF Passes
<1>5. cmd.op # "download" /\ \A g : cmd # Command("download", g)
  BY CommandsDiffer
<1> HIDE DEF i, cmd
<1>6. \A g \in Writable : Untouched(s, c, q, g) => Untouched(t, c, q, g)
  <2> TAKE g \in Writable
  <2> SUFFICES ASSUME Untouched(s, c, q, g) PROVE Untouched(t, c, q, g)
    OBVIOUS
  <2>1. t.downloadName # g
    BY <1>3, <1>4 DEF Untouched, Unread
  <2> QED
    BY <1>1, <1>4, <2>1, UntouchedStays
<1>7. StillMissing(t, c, q)
  BY <1>6 DEF Sync, StillMissing
<1>8. Restarting(t, c, q)
  <2>1. Restarts(t, c) \subseteq Restarts(s, c)
    BY <1>1 DEF Restarts
  <2> QED
    BY <2>1 DEF Sync, Restarting, AtMostOne
<1>9. InStep(t, c, q)
  <2> SUFFICES ASSUME f \in Writable
               PROVE  Asked(t, c, q, f) \/ Begun(t, c, q, f) \/ Going(t, c, q, f, b)
    BY DEF InStep
  <2> HIDE DEF f, b
  <2>1. ASSUME Asked(s, c, q, f) PROVE Asked(t, c, q, f)
    <3>1. i # last
      BY <1>5, <2>1 DEF Asked, cmd
    <3>2. Unread(t, q, f)
      BY <1>3, <1>4, <2>1 DEF Asked, Unread
    <3> QED
      BY <1>1, <2>1, <3>1, <3>2 DEF Asked
  <2>2. ~Begun(s, c, q, f)
    BY <1>1 DEF Begun
  <2>3. ASSUME Going(s, c, q, f, b) PROVE Going(t, c, q, f, b)
    <3>1. cmd = Command("nextdl", b - 1 - (last - i))
      BY <1>1, <2>3 DEF Going, cmd
    <3>2. last - t.executed <= b /\ last - s.executed <= b
      BY <1>1, <1>2, <2>3 DEF Going, i
    <3>3. ASSUME t.downloadName = f
          PROVE  /\ Window(t, f)
                 /\ t.downloadClientBlock = b - (last - t.executed)
                 /\ b <= t.downloadCurrentBlock
                 /\ \A j \in 1 .. Len(q) :
                      q[j].data[1] = f => q[j].block < t.downloadCurrentBlock
      <4>1. s.downloadName = f /\ f # NoFile
        BY <1>3, <1>4, <3>3
      <4>2. /\ Window(s, f)
            /\ s.downloadClientBlock = b - (last - s.executed)
            /\ b <= s.downloadCurrentBlock
            /\ \A j \in 1 .. Len(q) :
                 q[j].data[1] = f => q[j].block < s.downloadCurrentBlock
        BY <2>3, <4>1 DEF Going
      <4>3. /\ t.download = s.download
            /\ t.downloadCurrentBlock = s.downloadCurrentBlock
            /\ t.downloadXmitBlock = s.downloadXmitBlock
            /\ b - 1 - (last - i) = s.downloadClientBlock
                 => t.downloadClientBlock = b - 1 - (last - i) + 1
        BY <3>1, <3>3, <4>1 DEF Passes, cmd, i
      <4>4. b - 1 - (last - i) = s.downloadClientBlock
            /\ b - 1 - (last - i) + 1 = b - (last - t.executed)
        <5>1. /\ last \in Int /\ s.executed \in Int /\ b \in Int /\ i \in Int
              /\ i = s.executed + 1 /\ t.executed = i
              /\ s.downloadClientBlock = b - (last - s.executed)
          BY <1>1, <1>2, <4>2 DEF i
        <5> HIDE DEF last
        <5>2. b - 1 - (last - i) = s.downloadClientBlock
          BY ONLY <5>1
        <5>3. b - 1 - (last - i) + 1 = b - (last - t.executed)
          BY ONLY <5>1
        <5> QED
          BY <5>2, <5>3
      <4>5. t.downloadClientBlock = b - (last - t.executed)
        BY <4>3, <4>4
      <4>6. t.downloadClientBlock = s.downloadClientBlock + 1
        BY <4>3, <4>4
      <4>7. t.downloadClientBlock <= b
        BY <1>1, <1>2, <4>5
      <4>8. /\ t.downloadClientBlock <= t.downloadCurrentBlock
            /\ t.downloadCurrentBlock <= t.downloadClientBlock + MAX_DOWNLOAD_WINDOW
        <5>1. /\ s.downloadClientBlock \in Nat /\ s.downloadCurrentBlock \in Nat
              /\ MAX_DOWNLOAD_WINDOW \in Nat
          BY DownloadAssumption DEF ServerShape
        <5>2. s.downloadCurrentBlock <= s.downloadClientBlock + MAX_DOWNLOAD_WINDOW
          BY <4>2 DEF Window
        <5> QED
          <6>1. t.downloadClientBlock <= t.downloadCurrentBlock
            <7>1. /\ t.downloadClientBlock \in Int /\ b \in Int /\ t.downloadCurrentBlock \in Int
                  /\ t.downloadClientBlock <= b /\ b <= t.downloadCurrentBlock
              BY <1>2, <4>2, <4>3, <4>6, <4>7, <5>1
            <7> QED
              BY ONLY <7>1
          <6>2. t.downloadCurrentBlock <= t.downloadClientBlock + MAX_DOWNLOAD_WINDOW
            BY <4>3, <4>6, <5>1, <5>2
          <6> QED
            BY <6>1, <6>2
      <4>9. Window(t, f)
        BY <1>4, <4>2, <4>3, <4>8 DEF Window
      <4> QED
        BY <4>2, <4>3, <4>5, <4>9
    <3>4. t.downloadName \in {f, NoFile}
      BY <1>4, <2>3 DEF Going
    <3> QED
      BY <1>1, <2>3, <3>2, <3>3, <3>4 DEF Going
  <2> QED
    BY <2>1, <2>2, <2>3 DEF Sync, InStep, f, b
<1>10. ASSUME cmd.op = "donedl"
       PROVE  /\ GameStates(q) = {} /\ Restarts(t, c) = {}
              /\ c.downloadList = {} /\ ~c.downloadRestart
              /\ c.downloadTempName \notin Writable
  <2>1. i \in Restarts(s, c)
    BY <1>1, <1>10 DEF Restarts, cmd
  <2>2. Restarts(t, c) = {}
    <3> SUFFICES ASSUME NEW j \in Restarts(t, c) PROVE FALSE
      OBVIOUS
    <3>1. j \in Restarts(s, c) /\ j # i
      BY <1>1 DEF Restarts
    <3> QED
      BY <2>1, <3>1 DEF Sync, Restarting, AtMostOne
  <2> QED
    BY <2>1, <2>2 DEF Sync, Restarting
<1> QED
  BY <1>7, <1>8, <1>9, <1>10 DEF Sync, cmd, i

\* The file asked for is the server's.
LEMMA BeginSync ==
    ASSUME NEW s, NEW c, NEW q, NEW t, NEW g, ServerShape(s), ClientShape(c),
           s.executed < Len(c.unacknowledged), Sync(s, c, q),
           c.unacknowledged[s.executed + 1] = Command("download", g),
           t.executed = s.executed + 1, t.downloadBlocks = s.downloadBlocks,
           t.downloadName = g, ~t.download
    PROVE  Sync(t, c, q)
<1> DEFINE i == s.executed + 1
           cmd == c.unacknowledged[i]
           f == c.downloadTempName
           b == c.downloadBlock
           last == Len(c.unacknowledged)
<1>1. i \in Pending(s, c) /\ Pending(t, c) = Pending(s, c) \ {i} /\ t.executed = i
  BY PendingShrinks
<1>2. last \in Nat /\ s.executed \in Nat /\ \A j \in Pending(t, c) : j \in Int /\ j > i /\ j <= last
  <2>1. last \in Nat /\ s.executed \in Nat
    BY DEF ClientShape, ServerShape
  <2> QED
    BY <1>1, <2>1 DEF Pending
<1>3. cmd = Command("download", g)
  OBVIOUS
<1> HIDE DEF i, cmd
<1>4. \A h : Untouched(s, c, q, h) => Untouched(t, c, q, h)
  <2> TAKE h
  <2> SUFFICES ASSUME Untouched(s, c, q, h) PROVE Untouched(t, c, q, h)
    OBVIOUS
  <2>1. t.downloadName # h
    BY <1>1, <1>3 DEF Untouched, cmd
  <2> QED
    BY <1>1, <2>1, UntouchedStays
<1>5. StillMissing(t, c, q)
  BY <1>4 DEF Sync, StillMissing
<1>6. Restarting(t, c, q)
  <2>1. Restarts(t, c) \subseteq Restarts(s, c)
    BY <1>1 DEF Restarts
  <2> QED
    BY <2>1 DEF Sync, Restarting, AtMostOne
<1>7. InStep(t, c, q)
  <2> SUFFICES ASSUME f \in Writable
               PROVE  Asked(t, c, q, f) \/ Begun(t, c, q, f)
    BY DEF InStep
  <2> HIDE DEF f, b
  <2>1. CASE Asked(s, c, q, f) /\ i = last
    <3>1. g = f
      BY <1>3, <2>1, CommandsDiffer DEF Asked, cmd
    <3>2. Pending(t, c) = {}
      BY <1>2, <2>1
    <3> QED
      BY <2>1, <3>1, <3>2 DEF Asked, Begun, Unread
  <2>2. CASE Asked(s, c, q, f) /\ i # last
    <3>1. g # f
      BY <1>1, <1>3, <2>2 DEF Asked, cmd
    <3> QED
      BY <1>1, <2>2, <3>1 DEF Asked, Unread
  <2>3. ~Begun(s, c, q, f)
    BY <1>1 DEF Begun
  <2>4. ~Going(s, c, q, f, b)
    BY <1>1, <1>3, CommandsDiffer DEF Going, cmd
  <2> QED
    BY <2>1, <2>2, <2>3, <2>4 DEF Sync, InStep, f, b
<1> QED
  BY <1>5, <1>6, <1>7 DEF Sync

\* The invariant in parts, for the steps of the server.
Good(s, c, q) ==
    /\ ServerShape(s) /\ ClientShape(c)
    /\ s.executed <= Len(c.unacknowledged)
    /\ Messages(s, q)
    /\ c.state # "error" => Sync(s, c, q)

LEMMA GoodFrom ==
    ASSUME IInv, ~confused
    PROVE  Good(cl, clc, toClient) /\ Whole(clc)
BY DEF IInv, Good, Messages, Shapes, Acknowledgements

LEMMA GoodKeeps ==
    ASSUME IInv, UNCHANGED <<clc, confused>>,
           Good(cl, clc, toClient) => Good(cl', clc, toClient')
    PROVE  IInv'
<1> SUFFICES ASSUME ~confused'
             PROVE  /\ Shapes(cl', clc', toClient')
                    /\ Acknowledgements(cl', clc', toClient')
                    /\ Whole(clc')
                    /\ clc'.state # "error" => Sync(cl', clc', toClient')
  BY DEF IInv
<1>1. clc' = clc /\ ~confused
  OBVIOUS
<1>2. Good(cl', clc', toClient') /\ Whole(clc')
  BY <1>1, GoodFrom
<1> QED
  BY <1>2 DEF Good, Messages, Shapes, Acknowledgements

\* A message is sent while the server goes from s to t.
LEMMA SendGood ==
    ASSUME NEW s, NEW c, NEW q, NEW t, NEW r, NEW m, Good(s, c, q),
           ServerShape(t), t.executed <= Len(c.unacknowledged),
           MessageShape(m), Grown(q, r, m),
           s.executed <= m.lastClientCommand, m.lastClientCommand <= t.executed,
           c.state # "error" =>
             /\ Sync(t, c, q) /\ Fits(t, c, q, m)
             /\ m.kind = "gamestate" =>
                  /\ GameStates(q) = {} /\ Restarts(t, c) = {}
                  /\ c.downloadList = {} /\ ~c.downloadRestart
                  /\ c.downloadTempName \notin Writable
    PROVE  Good(t, c, r)
<1>1. \E S : q \in Seq(S)
  BY DEF Good, Messages
<1>2. Messages(t, r)
  BY SendMessages DEF Good, ServerShape
<1>3. ASSUME c.state # "error" PROVE Sync(t, c, r)
  <2>1. InStep(t, c, r) /\ StillMissing(t, c, r)
    BY <1>1, <1>3, SendSync DEF Sync
  <2>2. Restarting(t, c, r)
    BY <1>1, <1>3, SendNoGameState, SendGameState DEF Sync
  <2> QED
    BY <1>3, <2>1, <2>2 DEF Sync
<1> QED
  BY <1>2, <1>3 DEF Good

\* The download is closed, at any time.
LEMMA CloseIs ==
    ASSUME NEW s, ServerShape(s)
    PROVE  LET d == SV_CloseDownload(s)
           IN  /\ ServerShape(d)
               /\ d.downloadName = NoFile /\ ~d.download
               /\ d.executed = s.executed /\ d.downloadBlocks = s.downloadBlocks
<1> DEFINE d == SV_CloseDownload(s)
<1>1. d = [s EXCEPT !.downloadName = NoFile, !.download = FALSE]
  BY DEF SV_CloseDownload
<1> HIDE DEF d
<1>2. d = [state |-> s.state, executed |-> s.executed, downloadName |-> NoFile,
           download |-> FALSE, downloadClientBlock |-> s.downloadClientBlock,
           downloadCurrentBlock |-> s.downloadCurrentBlock,
           downloadXmitBlock |-> s.downloadXmitBlock,
           downloadBlocks |-> s.downloadBlocks]
  BY <1>1 DEF ServerShape
<1> QED
  BY <1>2 DEF ServerShape, d

LEMMA CloseSync ==
    ASSUME NEW s, NEW c, NEW q, NEW t, ServerShape(s), ClientShape(c),
           s.executed <= Len(c.unacknowledged), Sync(s, c, q),
           t.executed = s.executed, t.downloadBlocks = s.downloadBlocks,
           t.downloadName = NoFile
    PROVE  Sync(t, c, q)
<1>1. Pending(t, c) = Pending(s, c)
  BY DEF Pending
<1>2. NoFile \notin Writable
  BY DownloadAssumption DEF Writable
<1>3. \A f \in Writable : Unread(s, q, f) => Unread(t, q, f)
  BY <1>2 DEF Unread
<1>4. StillMissing(t, c, q)
  BY <1>1, <1>3 DEF Sync, StillMissing, Untouched
<1>5. Restarting(t, c, q)
  BY <1>1 DEF Sync, Restarting, Restarts
<1>6. InStep(t, c, q)
  <2> DEFINE f == c.downloadTempName
             b == c.downloadBlock
  <2> SUFFICES ASSUME f \in Writable
               PROVE  Asked(t, c, q, f) \/ Going(t, c, q, f, b)
    BY DEF InStep
  <2> HIDE DEF f, b
  <2>1. Asked(s, c, q, f) => Asked(t, c, q, f)
    BY <1>1, <1>3 DEF Asked
  <2>2. ASSUME Begun(s, c, q, f) PROVE Going(t, c, q, f, b)
    <3>1. b = 0 /\ Pending(s, c) = {}
      BY <2>2 DEF Begun, b
    <3>2. Len(c.unacknowledged) \in Nat /\ s.executed \in Nat
      BY DEF ClientShape, ServerShape
    <3>3. Len(c.unacknowledged) - s.executed <= 0
      <4>1. s.executed + 1 \notin Pending(s, c)
        BY <3>1
      <4> QED
        BY <3>2, <4>1 DEF Pending
    <3> QED
      BY <1>1, <1>2, <2>2, <3>1, <3>3 DEF Going, Begun
  <2>3. Going(s, c, q, f, b) => Going(t, c, q, f, b)
    BY <1>1, <1>2 DEF Going
  <2> QED
    BY <2>1, <2>2, <2>3 DEF Sync, InStep, f, b
<1> QED
  BY <1>4, <1>5, <1>6 DEF Sync

LEMMA DropStep ==
    ASSUME IInv, SV_DropClient
    PROVE  IInv'
<1> DEFINE d == SV_CloseDownload(cl)
           t == cl'
<1>1. t = [d EXCEPT !.state = "zombie"] /\ UNCHANGED <<clc, toClient, confused>>
  BY DEF SV_DropClient
<1> HIDE DEF d, t
<1>2. ASSUME Good(cl, clc, toClient) PROVE Good(t, clc, toClient)
  <2>1. /\ ServerShape(d) /\ d.downloadName = NoFile /\ ~d.download
        /\ d.executed = cl.executed /\ d.downloadBlocks = cl.downloadBlocks
    BY <1>2, CloseIs DEF Good, d
  <2>2. t = [state |-> "zombie", executed |-> d.executed, downloadName |-> d.downloadName,
             download |-> d.download, downloadClientBlock |-> d.downloadClientBlock,
             downloadCurrentBlock |-> d.downloadCurrentBlock,
             downloadXmitBlock |-> d.downloadXmitBlock,
             downloadBlocks |-> d.downloadBlocks]
    BY <1>1, <2>1 DEF ServerShape
  <2>3. /\ ServerShape(t) /\ t.downloadName = NoFile
        /\ t.executed = cl.executed /\ t.downloadBlocks = cl.downloadBlocks
    BY <2>1, <2>2 DEF ServerShape
  <2>4. clc.state # "error" => Sync(t, clc, toClient)
    BY <1>2, <2>3, CloseSync DEF Good
  <2> QED
    BY <1>2, <2>3, <2>4 DEF Good, Messages
<1>3. toClient' = toClient
  BY <1>1
<1>4. Good(cl, clc, toClient) => Good(t, clc, toClient')
  BY <1>2, <1>3
<1> QED
  BY <1>1, <1>4, GoodKeeps DEF t

\* A snapshot has nothing of a file.
LEMMA SnapshotStep ==
    ASSUME IInv, SV_SendClientSnapshot
    PROVE  IInv'
<1> DEFINE m == Message("nop", 0, NoBlock)
<1>1. toClient' = Sent(m) /\ UNCHANGED <<cl, clc, confused>>
  BY DEF SV_SendClientSnapshot, SV_SendMessage
<1>2. m = [kind |-> "nop", block |-> 0, data |-> NoBlock, lastClientCommand |-> cl.executed]
  BY DEF Message
<1> HIDE DEF m
<1>3. ASSUME Good(cl, clc, toClient) PROVE Good(cl, clc, toClient')
  <2>1. cl.executed \in Nat /\ \E S : toClient \in Seq(S)
    BY <1>3 DEF Good, ServerShape, Messages
  <2>2. Grown(toClient, toClient', m)
    BY <1>1, <2>1, SentIs
  <2>3. MessageShape(m) /\ m.kind # "gamestate" /\ m.lastClientCommand = cl.executed
        /\ m.data[1] = NoFile
    BY <1>2, <2>1 DEF MessageShape, NoBlock
  <2>4. Fits(cl, clc, toClient, m)
    BY <2>3 DEF Fits
  <2>5. ServerShape(cl) /\ cl.executed <= Len(clc.unacknowledged)
        /\ (clc.state # "error" => Sync(cl, clc, toClient))
    BY <1>3 DEF Good
  <2>6. cl.executed <= m.lastClientCommand /\ m.lastClientCommand <= cl.executed
    BY <2>1, <2>3
  <2> QED
    BY <1>3, <2>2, <2>3, <2>4, <2>5, <2>6, SendGood
<1> QED
  BY <1>1, <1>3, GoodKeeps

\* The commands, as the server executes them.
LEMMA CommandIs ==
    ASSUME NEW cmd \in ClientCommand
    PROVE  /\ cmd = Command(cmd.op, cmd.arg)
           /\ cmd.op = "download" => cmd.arg \in File
BY DEF ClientCommand, Command

Executed(s) == [s EXCEPT !.executed = @ + 1]

LEMMA ExecutedIs ==
    ASSUME NEW s, ServerShape(s)
    PROVE  LET e == Executed(s)
           IN  /\ ServerShape(e) /\ e.executed = s.executed + 1
               /\ e.downloadName = s.downloadName /\ e.download = s.download
               /\ e.downloadClientBlock = s.downloadClientBlock
               /\ e.downloadCurrentBlock = s.downloadCurrentBlock
               /\ e.downloadXmitBlock = s.downloadXmitBlock
               /\ e.downloadBlocks = s.downloadBlocks
<1> DEFINE e == Executed(s)
<1>1. e = [s EXCEPT !.executed = @ + 1]
  BY DEF Executed
<1> HIDE DEF e
<1>2. e = [state |-> s.state, executed |-> s.executed + 1, downloadName |-> s.downloadName,
           download |-> s.download, downloadClientBlock |-> s.downloadClientBlock,
           downloadCurrentBlock |-> s.downloadCurrentBlock,
           downloadXmitBlock |-> s.downloadXmitBlock,
           downloadBlocks |-> s.downloadBlocks]
  BY <1>1 DEF ServerShape
<1>3. s.executed + 1 \in Nat
  BY DEF ServerShape
<1> QED
  BY <1>2, <1>3 DEF ServerShape, e

LEMMA BeginIs ==
    ASSUME NEW e, ServerShape(e), NEW f \in File
    PROVE  LET t == SV_BeginDownload_f(e, f)
           IN  /\ ServerShape(t) /\ t.executed = e.executed
               /\ t.downloadName = f /\ ~t.download
               /\ t.downloadBlocks = e.downloadBlocks
<1> DEFINE d == SV_CloseDownload(e)
           t == SV_BeginDownload_f(e, f)
<1>1. t = [d EXCEPT !.downloadName = f]
  BY DEF SV_BeginDownload_f
<1>2. /\ ServerShape(d) /\ ~d.download
      /\ d.executed = e.executed /\ d.downloadBlocks = e.downloadBlocks
  BY CloseIs
<1> HIDE DEF d, t
<1>3. t = [state |-> d.state, executed |-> d.executed, downloadName |-> f,
           download |-> d.download, downloadClientBlock |-> d.downloadClientBlock,
           downloadCurrentBlock |-> d.downloadCurrentBlock,
           downloadXmitBlock |-> d.downloadXmitBlock,
           downloadBlocks |-> d.downloadBlocks]
  BY <1>1, <1>2 DEF ServerShape
<1> QED
  BY <1>2, <1>3 DEF ServerShape, t

\* What "nextdl" and "stopdl" do, with e after the command was counted.
LEMMA ClosePasses ==
    ASSUME NEW s, NEW cmd, ServerShape(s)
    PROVE  LET t == SV_CloseDownload(Executed(s))
           IN  ServerShape(t) /\ Passes(s, t, cmd)
<1> DEFINE e == Executed(s)
           t == SV_CloseDownload(e)
<1>1. ServerShape(e) /\ e.executed = s.executed + 1 /\ e.downloadBlocks = s.downloadBlocks
  BY ExecutedIs
<1> HIDE DEF e
<1>2. /\ ServerShape(t) /\ t.downloadName = NoFile
      /\ t.executed = e.executed /\ t.downloadBlocks = e.downloadBlocks
  BY <1>1, CloseIs
<1> QED
  BY <1>1, <1>2 DEF Passes, e

LEMMA NextPasses ==
    ASSUME NEW s, NEW cmd \in ClientCommand, ServerShape(s)
    PROVE  LET t == SV_NextDownload_f(Executed(s), cmd.arg)
           IN  ServerShape(t) /\ Passes(s, t, cmd)
<1> DEFINE e == Executed(s)
           d == SV_CloseDownload(e)
           t == SV_NextDownload_f(e, cmd.arg)
<1>1. /\ ServerShape(e) /\ e.executed = s.executed + 1
      /\ e.downloadName = s.downloadName /\ e.download = s.download
      /\ e.downloadClientBlock = s.downloadClientBlock
      /\ e.downloadCurrentBlock = s.downloadCurrentBlock
      /\ e.downloadXmitBlock = s.downloadXmitBlock
      /\ e.downloadBlocks = s.downloadBlocks
  BY ExecutedIs
<1>2. ServerShape(d) /\ Passes(s, d, cmd)
  BY ClosePasses
<1>3. /\ d.downloadName = NoFile /\ d.executed = e.executed
      /\ d.downloadBlocks = e.downloadBlocks
  BY <1>1, CloseIs
<1>4. \/ t = [d EXCEPT !.state = "broken"]
      \/ t = d
      \/ t = [e EXCEPT !.downloadClientBlock = @ + 1] /\ cmd.arg = e.downloadClientBlock
  BY DEF SV_NextDownload_f
<1> HIDE DEF e, d, t
<1>5. CASE t = [d EXCEPT !.state = "broken"]
  <2>1. t = [state |-> "broken", executed |-> d.executed, downloadName |-> d.downloadName,
             download |-> d.download, downloadClientBlock |-> d.downloadClientBlock,
             downloadCurrentBlock |-> d.downloadCurrentBlock,
             downloadXmitBlock |-> d.downloadXmitBlock,
             downloadBlocks |-> d.downloadBlocks]
    BY <1>2, <1>5 DEF ServerShape
  <2>2. ServerShape(t)
    BY <1>2, <2>1 DEF ServerShape
  <2>3. Passes(s, t, cmd)
    BY <1>1, <1>3, <2>1 DEF Passes
  <2> QED
    BY <2>2, <2>3 DEF t, e
<1>6. CASE t = d
  BY <1>2, <1>6 DEF t, e
<1>7. CASE t = [e EXCEPT !.downloadClientBlock = @ + 1] /\ cmd.arg = e.downloadClientBlock
  <2>1. t = [state |-> e.state, executed |-> e.executed, downloadName |-> e.downloadName,
             download |-> e.download, downloadClientBlock |-> e.downloadClientBlock + 1,
             downloadCurrentBlock |-> e.downloadCurrentBlock,
             downloadXmitBlock |-> e.downloadXmitBlock,
             downloadBlocks |-> e.downloadBlocks]
    BY <1>1, <1>7 DEF ServerShape
  <2>2. e.downloadClientBlock + 1 \in Nat
    BY <1>1 DEF ServerShape
  <2>3. ServerShape(t)
    BY <1>1, <2>1, <2>2 DEF ServerShape
  <2>4. \A k : cmd = Command("nextdl", k) => k = e.downloadClientBlock
    BY <1>7, CommandsDiffer
  <2>5. Passes(s, t, cmd)
    BY <1>1, <2>1, <2>4 DEF Passes
  <2> QED
    BY <2>3, <2>5 DEF t, e
<1> QED
  BY <1>4, <1>5, <1>6, <1>7

\* "donedl" changes nothing but the count.
LEMMA DonePasses ==
    ASSUME NEW s, NEW cmd, cmd.op = "donedl", ServerShape(s)
    PROVE  ServerShape(Executed(s)) /\ Passes(s, Executed(s), cmd)
<1>1. \A k : cmd # Command("nextdl", k)
  BY CommandsDiffer
<1> QED
  BY <1>1, ExecutedIs DEF Passes

LEMMA MessagesMore ==
    ASSUME NEW s, NEW t, NEW q, Messages(s, q), s.executed \in Nat,
           t.executed = s.executed + 1
    PROVE  Messages(t, q)
<1>1. ASSUME NEW i \in 1 .. Len(q) PROVE q[i].lastClientCommand <= t.executed
  <2>1. q[i].lastClientCommand <= s.executed /\ MessageShape(q[i])
    BY DEF Messages
  <2>2. q[i].lastClientCommand \in Nat
    BY <2>1 DEF MessageShape
  <2> QED
    BY <2>1, <2>2
<1> QED
  BY <1>1 DEF Messages

LEMMA ExecuteStep ==
    ASSUME IInv, SV_ExecuteClientCommand
    PROVE  IInv'
<1> DEFINE cmd == clc.unacknowledged[cl.executed + 1]
           e == Executed(cl)
           t == cl'
           m == [Message("gamestate", 0, NoBlock) EXCEPT !.lastClientCommand = @ + 1]
<1>1. cl.executed < Len(clc.unacknowledged) /\ UNCHANGED <<clc, confused>>
  BY DEF SV_ExecuteClientCommand
<1>2. \/ cmd.op = "download" /\ t = SV_BeginDownload_f(e, cmd.arg) /\ toClient' = toClient
      \/ cmd.op = "nextdl" /\ t = SV_NextDownload_f(e, cmd.arg) /\ toClient' = toClient
      \/ cmd.op = "stopdl" /\ t = SV_CloseDownload(e) /\ toClient' = toClient
      \/ cmd.op = "donedl" /\ t = e /\ toClient' = Sent(m)
  BY DEF SV_ExecuteClientCommand, SV_StopDownload_f, SV_DoneDownload_f, SV_SendMessage, Executed
<1>3. m = [kind |-> "gamestate", block |-> 0, data |-> NoBlock,
           lastClientCommand |-> cl.executed + 1]
  BY DEF Message
<1> HIDE DEF cmd, e, t, m
<1>4. ASSUME Good(cl, clc, toClient) PROVE Good(t, clc, toClient')
  <2>1. /\ ServerShape(cl) /\ ClientShape(clc) /\ Messages(cl, toClient)
        /\ clc.state # "error" => Sync(cl, clc, toClient)
    BY <1>4 DEF Good
  <2>2. cl.executed \in Nat /\ Len(clc.unacknowledged) \in Nat
    BY <2>1 DEF ServerShape, ClientShape
  <2>3. ServerShape(e) /\ e.executed = cl.executed + 1 /\ e.downloadBlocks = cl.downloadBlocks
    BY <2>1, ExecutedIs DEF e
  <2>4. cmd \in ClientCommand
    BY <1>1, <2>1, <2>3, PendingShrinks DEF cmd
  <2>5. ASSUME ServerShape(t), t.executed = cl.executed + 1, toClient' = toClient,
               clc.state # "error" => Sync(t, clc, toClient)
        PROVE  Good(t, clc, toClient')
    <3>1. t.executed <= Len(clc.unacknowledged)
      BY <1>1, <2>2, <2>5
    <3>2. Messages(t, toClient')
      BY <2>1, <2>2, <2>5, MessagesMore
    <3> QED
      BY <2>1, <2>5, <3>1, <3>2 DEF Good
  <2>6. CASE cmd.op = "download" /\ t = SV_BeginDownload_f(e, cmd.arg) /\ toClient' = toClient
    <3>1. cmd = Command("download", cmd.arg) /\ cmd.arg \in File
      BY <2>4, <2>6, CommandIs
    <3>2. /\ ServerShape(t) /\ t.executed = cl.executed + 1
          /\ t.downloadName = cmd.arg /\ ~t.download
          /\ t.downloadBlocks = cl.downloadBlocks
      BY <2>3, <2>6, <3>1, BeginIs
    <3>3. clc.state # "error" => Sync(t, clc, toClient)
      BY <1>1, <2>1, <3>1, <3>2, BeginSync DEF cmd
    <3> QED
      BY <2>5, <2>6, <3>2, <3>3
  <2>7. ASSUME cmd.op # "download", ServerShape(t), Passes(cl, t, cmd)
        PROVE  /\ t.executed = cl.executed + 1
               /\ clc.state # "error" =>
                    /\ Sync(t, clc, toClient)
                    /\ cmd.op = "donedl" =>
                         /\ GameStates(toClient) = {} /\ Restarts(t, clc) = {}
                         /\ clc.downloadList = {} /\ ~clc.downloadRestart
                         /\ clc.downloadTempName \notin Writable
    BY <1>1, <2>1, <2>7, PassSync DEF cmd, Passes
  <2>8. CASE cmd.op = "nextdl" /\ t = SV_NextDownload_f(e, cmd.arg) /\ toClient' = toClient
    <3>1. ServerShape(t) /\ Passes(cl, t, cmd)
      BY <2>1, <2>4, <2>8, NextPasses DEF e
    <3> QED
      BY <2>5, <2>7, <2>8, <3>1
  <2>9. CASE cmd.op = "stopdl" /\ t = SV_CloseDownload(e) /\ toClient' = toClient
    <3>1. ServerShape(t) /\ Passes(cl, t, cmd)
      BY <2>1, <2>9, ClosePasses DEF e
    <3> QED
      BY <2>5, <2>7, <2>9, <3>1
  <2>10. CASE cmd.op = "donedl" /\ t = e /\ toClient' = Sent(m)
    <3>1. ServerShape(t) /\ Passes(cl, t, cmd)
      BY <2>1, <2>10, DonePasses DEF e
    <3>2. /\ t.executed = cl.executed + 1
          /\ clc.state # "error" =>
               /\ Sync(t, clc, toClient)
               /\ GameStates(toClient) = {} /\ Restarts(t, clc) = {}
               /\ clc.downloadList = {} /\ ~clc.downloadRestart
               /\ clc.downloadTempName \notin Writable
      BY <2>7, <2>10, <3>1
    <3>3. MessageShape(m) /\ m.lastClientCommand = cl.executed + 1 /\ m.data[1] = NoFile
      BY <1>3, <2>2 DEF MessageShape, NoBlock
    <3>4. Fits(t, clc, toClient, m)
      BY <3>3 DEF Fits
    <3>5. Grown(toClient, toClient', m)
      BY <2>1, <2>10, SentIs DEF Messages
    <3>6. /\ cl.executed <= m.lastClientCommand /\ m.lastClientCommand <= t.executed
          /\ t.executed <= Len(clc.unacknowledged)
      BY <1>1, <2>2, <3>2, <3>3
    <3> QED
      BY <1>4, <3>1, <3>2, <3>3, <3>4, <3>5, <3>6, SendGood
  <2> QED
    BY <1>2, <2>6, <2>8, <2>9, <2>10
<1> QED
  BY <1>1, <1>4, GoodKeeps DEF t

\* The file is opened, and read as far as the window has room.
LEMMA OpenedIs ==
    ASSUME NEW s, ServerShape(s)
    PROVE  LET o == Opened(s)
           IN  /\ ServerShape(o) /\ o.download
               /\ o.executed = s.executed /\ o.downloadName = s.downloadName
               /\ o.downloadBlocks = s.downloadBlocks
               /\ s.download => o = s
               /\ ~s.download => /\ o.downloadClientBlock = 0
                                 /\ o.downloadCurrentBlock = 0
                                 /\ o.downloadXmitBlock = 0
<1> DEFINE o == Opened(s)
<1>1. CASE s.download
  <2>1. o = s
    BY <1>1 DEF Opened
  <2> QED
    BY <1>1, <2>1
<1>2. CASE ~s.download
  <2>1. o = [s EXCEPT !.download = TRUE, !.downloadCurrentBlock = 0,
                      !.downloadClientBlock = 0, !.downloadXmitBlock = 0]
    BY <1>2 DEF Opened
  <2> HIDE DEF o
  <2>2. o = [state |-> s.state, executed |-> s.executed, downloadName |-> s.downloadName,
             download |-> TRUE, downloadClientBlock |-> 0,
             downloadCurrentBlock |-> 0, downloadXmitBlock |-> 0,
             downloadBlocks |-> s.downloadBlocks]
    BY <2>1 DEF ServerShape
  <2> QED
    BY <1>2, <2>2 DEF ServerShape, o
<1> QED
  BY <1>1, <1>2

\* The blocks that are read, and the buffer of each.
End(o) ==
    IF ReadTo(o) <= Blocks[o.downloadName] + 1 THEN ReadTo(o)
    ELSE Blocks[o.downloadName] + 1

New(o) == o.downloadCurrentBlock .. End(o) - 1

Buffer(o, n) ==
    LET here == {i \in New(o) : Slot(i) = n}
    IN  IF here = {} THEN o.downloadBlocks[n] ELSE <<o.downloadName, Largest(here)>>

LEMMA ReadIs ==
    ASSUME NEW o, ServerShape(o), o.downloadName \in File
    PROVE  LET r == Read(o)
           IN  /\ ServerShape(r)
               /\ r.executed = o.executed /\ r.downloadName = o.downloadName
               /\ r.download = o.download
               /\ r.downloadClientBlock = o.downloadClientBlock
               /\ r.downloadXmitBlock = o.downloadXmitBlock
               /\ r.downloadCurrentBlock = IF New(o) = {} THEN o.downloadCurrentBlock ELSE End(o)
               /\ \A n \in DOMAIN r.downloadBlocks : r.downloadBlocks[n] = Buffer(o, n)
               /\ End(o) \in Nat
               /\ End(o) <= o.downloadClientBlock + MAX_DOWNLOAD_WINDOW
<1> DEFINE r == Read(o)
           current == IF New(o) = {} THEN o.downloadCurrentBlock ELSE End(o)
           buffers == [n \in DOMAIN o.downloadBlocks |-> Buffer(o, n)]
<1>1. r = [o EXCEPT !.downloadCurrentBlock = current, !.downloadBlocks = buffers]
  BY DEF Read, New, End, Buffer
<1>2. End(o) \in Nat /\ End(o) <= o.downloadClientBlock + MAX_DOWNLOAD_WINDOW
  <2>1. Blocks[o.downloadName] \in Nat /\ MAX_DOWNLOAD_WINDOW \in Nat
        /\ o.downloadClientBlock \in Nat
    BY DownloadAssumption DEF ServerShape
  <2> QED
    BY <2>1 DEF End, ReadTo
<1>3. current \in Nat
  BY <1>2 DEF ServerShape
<1>4. DOMAIN buffers = 0 .. MAX_DOWNLOAD_WINDOW - 1
  BY DEF ServerShape
<1>5. \A n \in DOMAIN buffers : buffers[n] = Buffer(o, n)
  OBVIOUS
<1> HIDE DEF r, current, buffers
<1>6. r = [state |-> o.state, executed |-> o.executed, downloadName |-> o.downloadName,
           download |-> o.download, downloadClientBlock |-> o.downloadClientBlock,
           downloadCurrentBlock |-> current,
           downloadXmitBlock |-> o.downloadXmitBlock, downloadBlocks |-> buffers]
  BY <1>1 DEF ServerShape
<1>7. ServerShape(r)
  BY <1>3, <1>4, <1>6 DEF ServerShape
<1> QED
  BY <1>2, <1>5, <1>6, <1>7 DEF r, current

\* A buffer that is not kept has a block of the file.
LEMMA BufferIs ==
    ASSUME NEW o, NEW n
    PROVE  Buffer(o, n) = o.downloadBlocks[n] \/ Buffer(o, n)[1] = o.downloadName
BY DEF Buffer

\* Reading keeps the window.
LEMMA ReadWindow ==
    ASSUME NEW o, NEW f \in File, ServerShape(o), o.downloadName = f, Window(o, f)
    PROVE  LET r == Read(o)
           IN  /\ Window(r, f)
               /\ o.downloadCurrentBlock <= r.downloadCurrentBlock
<1> DEFINE r == Read(o)
           W == MAX_DOWNLOAD_WINDOW
           current == o.downloadCurrentBlock
           end == r.downloadCurrentBlock
<1>1. /\ ServerShape(r) /\ r.download = o.download
      /\ r.downloadClientBlock = o.downloadClientBlock
      /\ r.downloadXmitBlock = o.downloadXmitBlock
      /\ end = IF New(o) = {} THEN current ELSE End(o)
      /\ \A n \in DOMAIN r.downloadBlocks : r.downloadBlocks[n] = Buffer(o, n)
      /\ End(o) \in Nat /\ End(o) <= o.downloadClientBlock + W
  BY ReadIs
<1>2. /\ current \in Nat /\ o.downloadClientBlock \in Nat /\ o.downloadXmitBlock \in Nat
      /\ W \in Nat \ {0}
  BY DownloadAssumption DEF ServerShape
<1>3. /\ o.download /\ o.downloadClientBlock <= current
      /\ current <= o.downloadClientBlock + W /\ o.downloadXmitBlock <= current
      /\ \A k \in 0 .. current - 1 :
           k + W >= current => o.downloadBlocks[Slot(k)] = <<f, k>>
  BY DEF Window
<1> HIDE DEF r, W, current
<1>4. /\ end \in Nat /\ current <= end /\ end <= o.downloadClientBlock + W
      /\ New(o) = current .. end - 1
  <2>1. New(o) = current .. End(o) - 1
    BY DEF New, current
  <2>2. CASE New(o) = {}
    <3>1. end = current
      BY <1>1, <2>2
    <3>2. current .. end - 1 = {}
      BY <1>2, <3>1
    <3> QED
      BY <1>2, <1>3, <2>2, <3>1, <3>2
  <2>3. CASE New(o) # {}
    <3>1. end = End(o) /\ end \in Nat
      BY <1>1, <2>3
    <3>2. current <= end
      <4>1. PICK i : i \in current .. end - 1
        BY <2>1, <2>3, <3>1
      <4> QED
        BY <1>2, <3>1, <4>1
    <3> QED
      BY <1>1, <2>1, <3>1, <3>2
  <2> QED
    BY <2>2, <2>3
<1> HIDE DEF end
<1>5. ASSUME NEW k \in 0 .. end - 1, k + W >= end
      PROVE  r.downloadBlocks[Slot(k)] = <<f, k>>
  <2> DEFINE here == {i \in New(o) : Slot(i) = Slot(k)}
  <2>1. k \in Nat /\ Slot(k) \in DOMAIN r.downloadBlocks
    BY <1>1, <1>4, SlotInWindow DEF ServerShape
  <2>2. r.downloadBlocks[Slot(k)]
          = IF here = {} THEN o.downloadBlocks[Slot(k)] ELSE <<f, Largest(here)>>
    BY <1>1, <2>1 DEF Buffer
  <2>3. \A i \in New(o) : i \in Nat /\ i < end
    BY <1>2, <1>4
  <2>4. \A i \in here : ~(k < i)
    <3> SUFFICES ASSUME NEW i \in here, k < i PROVE FALSE
      OBVIOUS
    <3>1. i \in Nat /\ i < k + W /\ Slot(i) = Slot(k)
      BY <1>2, <1>4, <1>5, <2>1, <2>3
    <3> QED
      BY <2>1, <3>1, SlotsDiffer DEF W
  <2>5. here \subseteq Int
    BY <2>3
  <2>6. k \in New(o) => k \in here
    OBVIOUS
  <2> HIDE DEF here
  <2>7. CASE k < current
    <3>1. here = {}
      <4>1. \A i \in here : i >= current /\ i \in Int
        BY <1>2, <1>4 DEF here
      <4> QED
        BY <1>2, <2>1, <2>4, <2>7, <4>1
    <3>2. k \in 0 .. current - 1 /\ k + W >= current
      <4>1. /\ k \in Int /\ W \in Int /\ current \in Int /\ end \in Int
            /\ current <= end /\ k + W >= end /\ 0 <= k /\ k < current
        BY <1>2, <1>4, <1>5, <2>1, <2>7
      <4> QED
        BY ONLY <4>1
    <3> QED
      BY <1>3, <2>2, <3>1, <3>2
  <2>8. CASE ~(k < current)
    <3>1. k \in here
      BY <1>2, <1>4, <2>1, <2>6, <2>8
    <3>2. \A i \in here : i <= k
      BY <2>1, <2>4, <2>5
    <3>3. Largest(here) = k
      BY <2>5, <3>1, <3>2, LargestIs
    <3> QED
      BY <2>2, <3>1, <3>3
  <2> QED
    BY <2>7, <2>8
<1>6. /\ r.download
      /\ r.downloadClientBlock <= end
      /\ end <= r.downloadClientBlock + W
      /\ r.downloadXmitBlock <= end
  <2>1. r.download /\ end <= r.downloadClientBlock + W
    BY <1>1, <1>3, <1>4
  <2>2. o.downloadClientBlock <= end /\ o.downloadXmitBlock <= end
    BY <1>2, <1>3, <1>4
  <2> QED
    BY <1>1, <2>1, <2>2
<1> QED
  BY <1>4, <1>5, <1>6 DEF Window, end, r, W, current

LEMMA ReadSync ==
    ASSUME NEW s, NEW c, NEW q, ServerShape(s), ClientShape(c),
           s.executed <= Len(c.unacknowledged), Sync(s, c, q),
           \A i \in 1 .. Len(q) : MessageShape(q[i]), s.downloadName \in File
    PROVE  Sync(Read(Opened(s)), c, q)
<1> DEFINE o == Opened(s)
           r == Read(o)
           f == c.downloadTempName
           b == c.downloadBlock
<1>1. /\ ServerShape(o) /\ o.download
      /\ o.executed = s.executed /\ o.downloadName = s.downloadName
      /\ o.downloadBlocks = s.downloadBlocks
      /\ s.download => o = s
      /\ ~s.download => /\ o.downloadClientBlock = 0
                        /\ o.downloadCurrentBlock = 0
                        /\ o.downloadXmitBlock = 0
  BY OpenedIs
<1> HIDE DEF o
<1>2. /\ r.executed = s.executed /\ r.downloadName = s.downloadName
      /\ r.downloadClientBlock = o.downloadClientBlock
      /\ \A n \in DOMAIN r.downloadBlocks : r.downloadBlocks[n] = Buffer(o, n)
      /\ DOMAIN r.downloadBlocks = DOMAIN s.downloadBlocks
  <2>1. DOMAIN r.downloadBlocks = DOMAIN s.downloadBlocks
    BY <1>1, ReadIs DEF ServerShape
  <2> QED
    BY <1>1, <2>1, ReadIs
<1>3. ASSUME NEW g \in File, o.downloadName = g, Window(o, g)
      PROVE  Window(r, g) /\ o.downloadCurrentBlock <= r.downloadCurrentBlock
             /\ r.downloadCurrentBlock \in Nat
  <2>1. r.downloadCurrentBlock \in Nat
    BY <1>1, ReadIs DEF ServerShape
  <2> QED
    BY <1>1, <1>3, <2>1, ReadWindow
<1> HIDE DEF r
<1>4. \A g : Unread(s, q, g) => Unread(r, q, g)
  BY <1>1, <1>2, BufferIs DEF Unread
<1>5. Pending(r, c) = Pending(s, c)
  BY <1>2 DEF Pending
<1>6. StillMissing(r, c, q)
  BY <1>4, <1>5 DEF Sync, StillMissing, Untouched
<1>7. Restarting(r, c, q)
  BY <1>5 DEF Sync, Restarting, Restarts
<1>8. InStep(r, c, q)
  <2> SUFFICES ASSUME f \in Writable
               PROVE  Asked(r, c, q, f) \/ Going(r, c, q, f, b)
    BY DEF InStep
  <2>1. /\ f \in File /\ b \in Nat /\ Len(c.unacknowledged) \in Nat /\ s.executed \in Nat
        /\ MAX_DOWNLOAD_WINDOW \in Nat /\ o.downloadCurrentBlock \in Nat
    BY <1>1, DownloadAssumption DEF Writable, ClientShape, ServerShape
  <2> HIDE DEF f, b
  <2>2. Asked(s, c, q, f) => Asked(r, c, q, f)
    BY <1>4, <1>5 DEF Asked
  <2>3. ASSUME Begun(s, c, q, f) PROVE Going(r, c, q, f, b)
    <3>1. /\ b = 0 /\ Pending(s, c) = {} /\ s.downloadName = f /\ ~s.download
          /\ \A i \in 1 .. Len(q) : q[i].data[1] # f
      BY <2>3 DEF Begun, b
    <3>2. Len(c.unacknowledged) = s.executed
      <4>1. s.executed + 1 \notin Pending(s, c)
        BY <3>1
      <4> QED
        BY <2>1, <4>1 DEF Pending
    <3>3. Window(o, f)
      BY <1>1, <2>1, <3>1 DEF Window
    <3>4. Window(r, f) /\ 0 <= r.downloadCurrentBlock
      BY <1>1, <1>3, <2>1, <3>1, <3>3
    <3>5. Len(c.unacknowledged) - r.executed = 0 /\ 0 - 0 = 0
      BY <1>2, <2>1, <3>2
    <3> QED
      BY <1>1, <1>2, <1>5, <3>1, <3>4, <3>5 DEF Going
  <2>4. ASSUME Going(s, c, q, f, b) PROVE Going(r, c, q, f, b)
    <3>1. ASSUME r.downloadName = f
          PROVE  /\ Window(r, f)
                 /\ r.downloadClientBlock = b - (Len(c.unacknowledged) - r.executed)
                 /\ b <= r.downloadCurrentBlock
                 /\ \A i \in 1 .. Len(q) :
                      q[i].data[1] = f => q[i].block < r.downloadCurrentBlock
      <4>1. /\ Window(s, f)
            /\ s.downloadClientBlock = b - (Len(c.unacknowledged) - s.executed)
            /\ b <= s.downloadCurrentBlock
            /\ \A i \in 1 .. Len(q) :
                 q[i].data[1] = f => q[i].block < s.downloadCurrentBlock
        BY <1>2, <2>4, <3>1 DEF Going
      <4>2. o = s
        BY <1>1, <4>1 DEF Window
      <4>3. Window(r, f) /\ s.downloadCurrentBlock <= r.downloadCurrentBlock
            /\ r.downloadCurrentBlock \in Nat /\ s.downloadCurrentBlock \in Nat
        BY <1>2, <1>3, <2>1, <3>1, <4>1, <4>2
      <4>4. b <= r.downloadCurrentBlock
        BY <2>1, <4>1, <4>3
      <4>5. \A i \in 1 .. Len(q) :
              q[i].data[1] = f => q[i].block < r.downloadCurrentBlock
        <5>1. ASSUME NEW i \in 1 .. Len(q), q[i].data[1] = f, q[i].block \in Int
              PROVE  q[i].block < r.downloadCurrentBlock
          BY <4>1, <4>3, <5>1
        <5> QED
          BY <5>1 DEF MessageShape
      <4> QED
        BY <1>2, <4>1, <4>2, <4>3, <4>4, <4>5
    <3> QED
      BY <1>2, <1>5, <2>4, <3>1 DEF Going
  <2> QED
    BY <2>2, <2>3, <2>4 DEF Sync, InStep, f, b
<1> QED
  BY <1>6, <1>7, <1>8 DEF Sync, r, o

\* Which block goes out next makes no difference to the client.
Sends(r, t, x) ==
    /\ t.executed = r.executed /\ t.downloadName = r.downloadName
    /\ t.download = r.download /\ t.downloadBlocks = r.downloadBlocks
    /\ t.downloadClientBlock = r.downloadClientBlock
    /\ t.downloadCurrentBlock = r.downloadCurrentBlock
    /\ t.downloadXmitBlock = x + 1
    /\ \A f : Window(r, f) => x < r.downloadCurrentBlock

LEMMA SendsIs ==
    ASSUME NEW r, ServerShape(r), NEW x, NEW y \in Nat, x = y + 1
    PROVE  LET t == [r EXCEPT !.downloadXmitBlock = x]
           IN  /\ ServerShape(t)
               /\ t.executed = r.executed /\ t.downloadName = r.downloadName
               /\ t.download = r.download /\ t.downloadBlocks = r.downloadBlocks
               /\ t.downloadClientBlock = r.downloadClientBlock
               /\ t.downloadCurrentBlock = r.downloadCurrentBlock
               /\ t.downloadXmitBlock = x
<1> DEFINE t == [r EXCEPT !.downloadXmitBlock = x]
<1>1. t = [r EXCEPT !.downloadXmitBlock = x]
  OBVIOUS
<1> HIDE DEF t
<1>2. t = [state |-> r.state, executed |-> r.executed, downloadName |-> r.downloadName,
           download |-> r.download, downloadClientBlock |-> r.downloadClientBlock,
           downloadCurrentBlock |-> r.downloadCurrentBlock,
           downloadXmitBlock |-> x, downloadBlocks |-> r.downloadBlocks]
  BY <1>1 DEF ServerShape
<1>3. x \in Nat
  OBVIOUS
<1> QED
  BY <1>2, <1>3 DEF ServerShape, t

LEMMA SendsSync ==
    ASSUME NEW r, NEW c, NEW q, NEW t, NEW x \in Nat, ServerShape(r), ServerShape(t),
           Sync(r, c, q), Sends(r, t, x)
    PROVE  Sync(t, c, q)
<1>1. \A f : Window(r, f) => Window(t, f)
  <2> TAKE f
  <2> SUFFICES ASSUME Window(r, f) PROVE Window(t, f)
    OBVIOUS
  <2>1. x + 1 <= r.downloadCurrentBlock
    BY DEF Sends, ServerShape
  <2> QED
    BY <2>1 DEF Window, Sends
<1>2. Pending(t, c) = Pending(r, c)
  BY DEF Pending, Sends
<1>3. \A f : Unread(r, q, f) => Unread(t, q, f)
  BY DEF Unread, Sends
<1>4. StillMissing(t, c, q)
  BY <1>2, <1>3 DEF Sync, StillMissing, Untouched
<1>5. Restarting(t, c, q)
  BY <1>2 DEF Sync, Restarting, Restarts
<1>6. InStep(t, c, q)
  <2> DEFINE f == c.downloadTempName
             b == c.downloadBlock
  <2>1. InStep(r, c, q)
    BY DEF Sync
  <2>2. Asked(r, c, q, f) => Asked(t, c, q, f)
    BY <1>2, <1>3 DEF Asked
  <2>3. Begun(r, c, q, f) => Begun(t, c, q, f)
    BY <1>2 DEF Begun, Sends
  <2>4. Going(r, c, q, f, b) => Going(t, c, q, f, b)
    BY <1>1, <1>2 DEF Going, Sends
  <2> QED
    BY <2>1, <2>2, <2>3, <2>4 DEF InStep
<1> QED
  BY <1>4, <1>5, <1>6 DEF Sync

\* A block of the window, or one that is acknowledged already.
LEMMA BlockFits ==
    ASSUME NEW t, NEW c, NEW q, NEW x \in Nat, NEW m, ServerShape(t), ClientShape(c),
           t.executed <= Len(c.unacknowledged), t.download, t.downloadName # NoFile,
           m.block = Short(x), m.data = t.downloadBlocks[Slot(x)],
           \A f : Window(t, f) => x < t.downloadCurrentBlock
    PROVE  Fits(t, c, q, m)
<1> DEFINE f == c.downloadTempName
           b == c.downloadBlock
           client == t.downloadClientBlock
           current == t.downloadCurrentBlock
           last == Len(c.unacknowledged)
<1>1. Slot(x) \in DOMAIN t.downloadBlocks
  BY SlotInWindow DEF ServerShape
<1>2. ASSUME t.downloadName = f, Going(t, c, q, f, b)
      PROVE  Right(m, f, b) /\ m.block < current
  <2>1. Window(t, f) /\ x < current /\ client = b - (last - t.executed)
    BY <1>2 DEF Going
  <2>2. /\ client \in Nat /\ current \in Nat /\ b \in Nat /\ last \in Nat /\ t.executed \in Nat
        /\ MAX_DOWNLOAD_WINDOW \in Nat /\ SHORT \in Nat /\ MAX_DOWNLOAD_WINDOW <= SHORT
    BY DownloadAssumption DEF ServerShape, ClientShape
  <2>3. Short(x) \in Int /\ Short(x) <= x
    BY ShortIs
  <2>4. client <= b
    BY <2>1, <2>2
  <2>5. /\ current <= client + MAX_DOWNLOAD_WINDOW
        /\ \A k \in 0 .. current - 1 :
             k + MAX_DOWNLOAD_WINDOW >= current => t.downloadBlocks[Slot(k)] = <<f, k>>
    BY <2>1 DEF Window
  <2> HIDE DEF f, b, client, current, last
  <2>6. CASE x < client
    <3>1. m.block < b
      BY <2>2, <2>3, <2>4, <2>6
    <3>2. m.block < current
      BY <2>1, <2>2, <2>3
    <3> QED
      BY <3>1, <3>2 DEF Right
  <2>7. CASE ~(x < client)
    <3>1. x \in 0 .. current - 1 /\ x + MAX_DOWNLOAD_WINDOW >= current /\ x < b + SHORT
      <4>1. x < b + SHORT
        BY <2>1, <2>2, <2>4, <2>5
      <4>2. x + MAX_DOWNLOAD_WINDOW >= current
        BY <2>2, <2>5, <2>7
      <4> QED
        BY <2>1, <2>2, <4>1, <4>2
    <3>2. m.data = <<f, x>>
      BY <2>5, <3>1
    <3>3. m.block < current
      BY <2>1, <2>2, <2>3
    <3> QED
      BY <3>1, <3>2, <3>3 DEF Right
  <2> QED
    BY <2>6, <2>7
<1> QED
  BY <1>1, <1>2 DEF Fits

\* The server reads, and sends block x.
LEMMA WriteGood ==
    ASSUME Good(cl, clc, toClient), cl.downloadName # NoFile,
           NEW r, r = Read(Opened(cl)), NEW x \in Nat, NEW t, NEW m,
           ServerShape(t), Sends(r, t, x), Grown(toClient, toClient', m),
           m = Message("block", Short(x), r.downloadBlocks[Slot(x)])
    PROVE  Good(t, clc, toClient')
<1>1. /\ ServerShape(cl) /\ ClientShape(clc) /\ Messages(cl, toClient)
      /\ cl.executed <= Len(clc.unacknowledged)
      /\ clc.state # "error" => Sync(cl, clc, toClient)
  BY DEF Good
<1>2. cl.downloadName \in File
  BY <1>1 DEF ServerShape
<1>3. ServerShape(r) /\ r.executed = cl.executed /\ r.download /\ r.downloadName # NoFile
  <2>1. ServerShape(Opened(cl)) /\ Opened(cl).download /\ Opened(cl).executed = cl.executed
        /\ Opened(cl).downloadName = cl.downloadName
    BY <1>1, OpenedIs
  <2> QED
    BY <1>2, <2>1, ReadIs
<1>4. clc.state # "error" => Sync(r, clc, toClient)
  BY <1>1, <1>2, ReadSync DEF Messages
<1>5. clc.state # "error" => Sync(t, clc, toClient)
  BY <1>3, <1>4, SendsSync
<1>6. /\ t.executed = cl.executed /\ t.download /\ t.downloadName # NoFile
      /\ t.downloadBlocks = r.downloadBlocks
      /\ \A f : Window(r, f) => x < r.downloadCurrentBlock
  BY <1>3 DEF Sends
<1>7. \A f : Window(t, f) => x < t.downloadCurrentBlock
  BY DEF Sends, Window, ServerShape
<1>8. m = [kind |-> "block", block |-> Short(x), data |-> r.downloadBlocks[Slot(x)],
           lastClientCommand |-> cl.executed]
  BY DEF Message
<1>9. cl.executed \in Nat /\ Short(x) \in Int
  BY <1>1, ShortIs DEF ServerShape
<1>10. MessageShape(m) /\ m.kind # "gamestate" /\ m.lastClientCommand = cl.executed
       /\ m.block = Short(x) /\ m.data = t.downloadBlocks[Slot(x)]
  BY <1>6, <1>8, <1>9 DEF MessageShape
<1>11. Fits(t, clc, toClient, m)
  BY <1>1, <1>6, <1>7, <1>10, BlockFits
<1>12. /\ cl.executed <= m.lastClientCommand /\ m.lastClientCommand <= t.executed
       /\ t.executed <= Len(clc.unacknowledged)
  BY <1>1, <1>6, <1>9, <1>10
<1> QED
  BY <1>5, <1>10, <1>11, <1>12, SendGood

LEMMA DownloadStep ==
    ASSUME IInv, SV_SendDownloadMessages
    PROVE  IInv'
<1> DEFINE r == Read(Opened(cl))
           again == [r EXCEPT !.downloadXmitBlock = r.downloadClientBlock]
           refusal == Message("refused", 0, NoBlock)
           t == cl'
<1>1. cl.downloadName # NoFile /\ UNCHANGED <<clc, confused>>
  BY DEF SV_SendDownloadMessages
<1>2. \/ t = SV_CloseDownload(cl) /\ toClient' = Sent(refusal)
      \/ r.downloadXmitBlock # r.downloadCurrentBlock /\ SendBlock(r)
      \/ r.downloadClientBlock # r.downloadCurrentBlock /\ SendBlock(again)
  BY DEF SV_SendDownloadMessages, SV_WriteDownloadToClient, SV_SendMessage
<1>3. refusal = [kind |-> "refused", block |-> 0, data |-> NoBlock,
                 lastClientCommand |-> cl.executed]
  BY DEF Message
<1> HIDE DEF refusal, t
<1>4. ASSUME Good(cl, clc, toClient) PROVE Good(t, clc, toClient')
  <2>1. /\ ServerShape(cl) /\ ClientShape(clc) /\ Messages(cl, toClient)
        /\ cl.executed <= Len(clc.unacknowledged)
        /\ clc.state # "error" => Sync(cl, clc, toClient)
    BY <1>4 DEF Good
  <2>2. cl.executed \in Nat /\ cl.downloadName \in File /\ \E S : toClient \in Seq(S)
    BY <1>1, <2>1 DEF ServerShape, Messages
  <2>3. ServerShape(r)
    BY <2>1, <2>2, OpenedIs, ReadIs
  <2> HIDE DEF r
  <2>4. CASE t = SV_CloseDownload(cl) /\ toClient' = Sent(refusal)
    <3>1. /\ ServerShape(t) /\ t.downloadName = NoFile
          /\ t.executed = cl.executed /\ t.downloadBlocks = cl.downloadBlocks
      BY <2>1, <2>4, CloseIs
    <3>2. clc.state # "error" => Sync(t, clc, toClient)
      BY <2>1, <3>1, CloseSync
    <3>3. MessageShape(refusal) /\ refusal.kind # "gamestate"
          /\ refusal.lastClientCommand = cl.executed /\ refusal.data[1] = NoFile
      BY <1>3, <2>2 DEF MessageShape, NoBlock
    <3>4. Fits(t, clc, toClient, refusal)
      BY <3>3 DEF Fits
    <3>5. Grown(toClient, toClient', refusal)
      BY <2>2, <2>4, SentIs
    <3>6. /\ cl.executed <= refusal.lastClientCommand
          /\ refusal.lastClientCommand <= t.executed
          /\ t.executed <= Len(clc.unacknowledged)
      BY <2>1, <2>2, <3>1, <3>3
    <3> QED
      BY <1>4, <3>1, <3>2, <3>3, <3>4, <3>5, <3>6, SendGood
  <2>5. ASSUME NEW x \in Nat, \A f : Window(r, f) => x < r.downloadCurrentBlock,
               NEW m, m = Message("block", Short(x), r.downloadBlocks[Slot(x)]),
               toClient' = Sent(m), t = [r EXCEPT !.downloadXmitBlock = x + 1]
        PROVE  Good(t, clc, toClient')
    <3>1. ServerShape(t) /\ Sends(r, t, x)
      BY <2>3, <2>5, SendsIs DEF Sends
    <3>2. Grown(toClient, toClient', m)
      BY <2>2, <2>5, SentIs
    <3> QED
      BY <1>1, <1>4, <2>5, <3>1, <3>2, WriteGood DEF r
  <2>6. CASE r.downloadXmitBlock # r.downloadCurrentBlock /\ SendBlock(r)
    <3> DEFINE x == r.downloadXmitBlock
               m == Message("block", Short(x), r.downloadBlocks[Slot(x)])
    <3>1. toClient' = Sent(m) /\ t = [r EXCEPT !.downloadXmitBlock = x + 1]
      BY <2>6 DEF SendBlock, SV_SendMessage, t
    <3>2. x \in Nat
      BY <2>3 DEF ServerShape
    <3>3. \A f : Window(r, f) => x < r.downloadCurrentBlock
      BY <2>3, <2>6 DEF Window, ServerShape
    <3> HIDE DEF x
    <3> QED
      BY <2>5, <3>1, <3>2, <3>3
  <2>7. CASE r.downloadClientBlock # r.downloadCurrentBlock /\ SendBlock(again)
    <3> DEFINE x == r.downloadClientBlock
               m == Message("block", Short(x), r.downloadBlocks[Slot(x)])
    <3>1. again = [state |-> r.state, executed |-> r.executed, downloadName |-> r.downloadName,
             download |-> r.download, downloadClientBlock |-> r.downloadClientBlock,
             downloadCurrentBlock |-> r.downloadCurrentBlock,
             downloadXmitBlock |-> x, downloadBlocks |-> r.downloadBlocks]
      BY <2>3 DEF ServerShape
    <3>2. again.downloadXmitBlock = x /\ again.downloadBlocks = r.downloadBlocks
      BY <3>1
    <3>3. toClient' = Sent(m) /\ t = [again EXCEPT !.downloadXmitBlock = again.downloadXmitBlock + 1]
      BY <2>7, <3>2 DEF SendBlock, SV_SendMessage, t
    <3>4. t = [r EXCEPT !.downloadXmitBlock = x + 1]
      BY <2>3, <3>1, <3>3 DEF ServerShape
    <3>5. x \in Nat
      BY <2>3 DEF ServerShape
    <3>6. \A f : Window(r, f) => x < r.downloadCurrentBlock
      BY <2>3, <2>7 DEF Window, ServerShape
    <3> HIDE DEF x
    <3> QED
      BY <2>5, <3>3, <3>4, <3>5, <3>6
  <2> QED
    BY <1>2, <2>4, <2>6, <2>7
<1> QED
  BY <1>1, <1>4, GoodKeeps DEF t

-----------------------------------------------------------------------------
LEMMA InitInv ==
    ASSUME DistinctPaks, Init
    PROVE  IInv
<1> DEFINE fresh(have) ==
             [state |-> "connected", unacknowledged |-> <<>>,
              downloadTempName |-> NoFile, download |-> FALSE, downloadBlock |-> 0,
              downloadList |-> {}, downloadRestart |-> FALSE, tmp |-> <<>>,
              disk |-> [f \in File |-> IF f \in have THEN Content(f) ELSE Absent]]
<1>1. PICK have \in SUBSET File : clc = CL_InitDownloads(fresh(have))
  BY DEF Init
<1> DEFINE c == fresh(have)
<1>2. /\ c.state = "connected" /\ c.unacknowledged = <<>> /\ c.downloadTempName = NoFile
      /\ c.download = FALSE /\ c.downloadBlock = 0 /\ c.downloadList = {}
      /\ c.downloadRestart = FALSE /\ DOMAIN c.disk = File
      /\ \A f \in File : c.disk[f] \in {Absent, Content(f)}
  OBVIOUS
<1>3. ClientShape(c)
  BY <1>2 DEF ClientShape
<1>4. clc = CL_InitDownloads(c) /\ toClient = <<>>
  BY <1>1 DEF Init
<1>5. MAX_DOWNLOAD_WINDOW \in Nat /\ NoFile \notin File
  BY DownloadAssumption
<1>6. /\ cl.executed = 0 /\ cl.downloadName = NoFile /\ cl.download = FALSE
      /\ \A n \in DOMAIN cl.downloadBlocks : cl.downloadBlocks[n] = NoBlock
  BY DEF Init
<1>7. ServerShape(cl)
  BY <1>5 DEF Init, ServerShape
<1> HIDE DEF c, fresh
<1>8. Pending(cl, c) = {} /\ Len(c.unacknowledged) = 0
  BY <1>2, <1>6 DEF Pending
<1>9. StillMissing(cl, c, toClient)
  <2>1. ASSUME NEW f \in Writable PROVE Untouched(cl, c, toClient, f)
    <3>1. f # NoFile
      BY <1>5 DEF Writable
    <3>2. NoBlock[1] # f
      BY <3>1 DEF NoBlock
    <3>3. 1 .. Len(toClient) = {}
      BY <1>4
    <3> QED
      BY <1>6, <1>8, <3>1, <3>2, <3>3 DEF Untouched, Unread
  <2> QED
    BY <1>2, <2>1 DEF StillMissing
<1>10. Restarts(cl, c) = {} /\ GameStates(toClient) = {}
  BY <1>4, <1>8 DEF Restarts, GameStates
<1>11. NoFile \notin Writable
  BY <1>5 DEF Writable
<1>12. /\ ClientShape(clc)
       /\ Len(clc.unacknowledged) >= Len(c.unacknowledged)
       /\ Whole(c) => Whole(clc)
       /\ clc.state # "error" => Sync(cl, clc, toClient)
  BY <1>2, <1>3, <1>4, <1>6, <1>7, <1>8, <1>9, <1>10, <1>11, InitDownloadsStep
<1>13. Whole(c)
  BY <1>2 DEF Whole
<1>14. cl.executed <= Len(clc.unacknowledged)
  BY <1>6, <1>8, <1>12 DEF ClientShape
<1>15. toClient \in Seq({}) /\ 1 .. Len(toClient) = {}
  BY <1>4
<1> QED
  BY <1>7, <1>12, <1>13, <1>14, <1>15 DEF IInv, Shapes, Acknowledgements

LEMMA NextInv ==
    ASSUME DistinctPaks, IInv, [Next]_vars
    PROVE  IInv'
<1>1. CASE \E n \in 1 .. Len(toClient) : CL_ParseServerMessage(n)
  BY <1>1, ParseStep
<1>2. CASE SV_ExecuteClientCommand
  BY <1>2, ExecuteStep
<1>3. CASE SV_SendDownloadMessages
  BY <1>3, DownloadStep
<1>4. CASE SV_SendClientSnapshot
  BY <1>4, SnapshotStep
<1>5. CASE SV_DropClient
  BY <1>5, DropStep
<1>6. CASE UNCHANGED vars
  <2>1. cl' = cl /\ clc' = clc /\ toClient' = toClient /\ confused' = confused
    BY <1>6 DEF vars
  <2> QED
    BY <2>1 DEF IInv
<1> QED
  BY <1>1, <1>2, <1>3, <1>4, <1>5, <1>6 DEF Next

(***************************************************************************)
(* A file the client has renamed is the server's (FileIntact): every block *)
(* written to the temporary file was the one expected, although a block    *)
(* sent again may come from a buffer that was used for a later one, and    *)
(* although the number of a block wraps around.  For any files and blocks, *)
(* any window that is not longer than the numbers, any number of messages  *)
(* in flight; unless a block of another file was accepted, and for paks    *)
(* that the server lists once.                                             *)
(***************************************************************************)
THEOREM FilesAreIntact ==
    ASSUME DistinctPaks
    PROVE  Spec => []FileIntact
<1>1. Init => IInv
  BY InitInv
<1>2. IInv /\ [Next]_vars => IInv'
  BY NextInv
<1>3. IInv => FileIntact
  BY DEF IInv, Whole, FileIntact
<1> QED
  BY <1>1, <1>2, <1>3, PTL DEF Spec
=============================================================================
