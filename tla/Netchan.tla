------------------------------- MODULE Netchan -------------------------------
(***************************************************************************)
(* One direction of the sequenced channel of code/qcommon/net_chan.c: the  *)
(* sending half of one netchan_t, the datagrams in flight, and the         *)
(* receiving half of the netchan_t at the other end.  The variables are    *)
(* the fields of netchan_t with their names in the source.                 *)
(*                                                                         *)
(* A message is a model value with a length; its k-th byte is the pair     *)
(* <<m, k>>, so that a byte says which message it belongs to and where.    *)
(* Lengths are in arbitrary units; FRAGMENT_SIZE stands for                *)
(* MAX_PACKETLEN-100 or MAX_REMOTE_PACKETLEN-100.                          *)
(*                                                                         *)
(* The network is the set of the datagrams ever sent.  Receiving one does  *)
(* not remove it and nothing obliges the receiver to take one: loss,       *)
(* duplication and reordering need no action of their own.                 *)
(***************************************************************************)
EXTENDS Integers, Sequences

CONSTANTS Message,        \* the messages the upper layer may hand over
          Length,         \* Length[m]: how many bytes m has
          FRAGMENT_SIZE,  \* a message this long or longer is fragmented
          MAX_MSGLEN,     \* size of unsentBuffer and fragmentBuffer
          NoMessage       \* content of a buffer nothing was written to

ASSUME NetchanAssumption ==
    /\ FRAGMENT_SIZE \in Nat \ {0}
    /\ MAX_MSGLEN \in Nat
    /\ Length \in [Message -> 0 .. MAX_MSGLEN]
    /\ NoMessage \notin Message

VARIABLES
    outgoingSequence,     \* sender: sequence of the message being sent
    unsentFragments,      \* sender: a message is partly sent
    unsentFragmentStart,  \* sender: first byte of the next fragment
    unsentBuffer,         \* sender: the message being fragmented, or NoMessage
    network,              \* the datagrams sent so far
    incomingSequence,     \* receiver: sequence of the last message accepted
    fragmentSequence,     \* receiver: sequence of the message being rebuilt
    fragmentBuffer,       \* receiver: its first fragmentLength bytes, as a sequence
    transmitted,          \* history: <<sequence, message>> given to Netchan_Transmit
    received              \* history: what Netchan_Process returned qtrue for

sender   == <<outgoingSequence, unsentFragments, unsentFragmentStart, unsentBuffer>>
receiver == <<incomingSequence, fragmentSequence, fragmentBuffer>>
chanvars == <<sender, network, receiver, transmitted, received>>

Byte == Message \X Nat

\* The n bytes of m that follow its first start bytes.
Bytes(m, start, n) == [k \in 1 .. n |-> <<m, start + k>>]

Content(m) == Bytes(m, 0, Length[m])

\* A datagram, header and payload.  FRAGMENT_BIT is the field "fragmented".
Datagram(seq, frag, m, start, n) ==
    [sequence |-> seq, fragmented |-> frag, fragmentStart |-> start,
     data |-> Bytes(m, start, n)]

-----------------------------------------------------------------------------
\* Netchan_Setup, for both ends: everything zero but outgoingSequence.
Netchan_Setup ==
    /\ outgoingSequence = 1
    /\ unsentFragments = FALSE
    /\ unsentFragmentStart = 0
    /\ unsentBuffer = NoMessage
    /\ network = {}
    /\ incomingSequence = 0
    /\ fragmentSequence = 0
    /\ fragmentBuffer = <<>>
    /\ transmitted = {}
    /\ received = <<>>

NextFragmentLength(m, start) ==
    IF start + FRAGMENT_SIZE > Length[m] THEN Length[m] - start ELSE FRAGMENT_SIZE

\* A short fragment ends the message; when the length is a multiple of
\* FRAGMENT_SIZE that fragment has length zero.
IsLastFragment(m, start) ==
    LET n == NextFragmentLength(m, start) IN
    start + n = Length[m] /\ n # FRAGMENT_SIZE

\* The fragment of m that starts at byte start goes out.
SendFragment(m, start) ==
    LET n == NextFragmentLength(m, start) IN
    /\ network' = network \cup {Datagram(outgoingSequence, TRUE, m, start, n)}
    /\ unsentFragmentStart' = start + n
    /\ unsentFragments' = ~IsLastFragment(m, start)
    /\ outgoingSequence' = IF IsLastFragment(m, start) THEN outgoingSequence + 1
                                                       ELSE outgoingSequence

Netchan_TransmitNextFragment ==
    /\ SendFragment(unsentBuffer, unsentFragmentStart)
    /\ UNCHANGED <<unsentBuffer, receiver, transmitted, received>>

\* A message that is still being fragmented is overwritten: callers must look
\* at unsentFragments first.
Netchan_Transmit(m) ==
    /\ transmitted' = transmitted \cup {<<outgoingSequence, m>>}
    /\ \/ /\ Length[m] >= FRAGMENT_SIZE
          /\ unsentBuffer' = m
          /\ SendFragment(m, 0)
       \/ /\ Length[m] < FRAGMENT_SIZE
          /\ network' = network \cup
                          {Datagram(outgoingSequence, FALSE, m, 0, Length[m])}
          /\ outgoingSequence' = outgoingSequence + 1
          /\ unsentFragmentStart' = 0
          /\ UNCHANGED <<unsentFragments, unsentBuffer>>
    /\ UNCHANGED <<receiver, received>>

-----------------------------------------------------------------------------
\* What the receiver hands to the layer above.
Deliver(seq, data) ==
    /\ received' = Append(received, [sequence |-> seq, data |-> data])
    /\ incomingSequence' = seq

\* Out of order and duplicated datagrams change nothing.
IsNew(p) == p.sequence > incomingSequence

Netchan_ProcessWhole(p) ==
    /\ IsNew(p)
    /\ ~p.fragmented
    /\ Deliver(p.sequence, p.data)
    /\ UNCHANGED <<fragmentSequence, fragmentBuffer>>

\* The part of p's message rebuilt when p arrives: nothing, if the buffer
\* holds fragments of another message.
Rebuilt(p) == IF p.sequence # fragmentSequence THEN <<>> ELSE fragmentBuffer

\* Mutant: the offset of the fragment is not compared with what is rebuilt.
Continues_Anywhere(p) == Len(Rebuilt(p)) + Len(p.data) <= MAX_MSGLEN

\* p continues the part rebuilt and does not overflow the buffer.
Continues(p) ==
    /\ p.fragmentStart = Len(Rebuilt(p))
    /\ Len(Rebuilt(p)) + Len(p.data) <= MAX_MSGLEN

\* A fragment that is out of place is dropped; the part rebuilt is kept.
Netchan_RejectFragment(p) ==
    /\ IsNew(p)
    /\ p.fragmented
    /\ ~Continues(p)
    /\ fragmentSequence' = p.sequence
    /\ fragmentBuffer' = Rebuilt(p)
    /\ UNCHANGED <<incomingSequence, received>>

\* A fragment of FRAGMENT_SIZE bytes is not the last one.
Netchan_AcceptFragment(p) ==
    /\ IsNew(p)
    /\ p.fragmented
    /\ Continues(p)
    /\ fragmentSequence' = p.sequence
    /\ \/ /\ Len(p.data) = FRAGMENT_SIZE
          /\ fragmentBuffer' = Rebuilt(p) \o p.data
          /\ UNCHANGED <<incomingSequence, received>>
       \/ /\ Len(p.data) # FRAGMENT_SIZE
          /\ fragmentBuffer' = <<>>
          /\ Deliver(p.sequence, Rebuilt(p) \o p.data)

Netchan_Process(p) ==
    /\ \/ Netchan_ProcessWhole(p)
       \/ Netchan_RejectFragment(p)
       \/ Netchan_AcceptFragment(p)
    /\ UNCHANGED <<sender, network, transmitted>>

-----------------------------------------------------------------------------
\* Type invariant of the channel.
ChanTypeOK ==
    /\ outgoingSequence \in Nat \ {0}
    /\ unsentFragments \in BOOLEAN
    /\ unsentFragmentStart \in 0 .. MAX_MSGLEN
    /\ unsentBuffer \in Message \cup {NoMessage}
    /\ \A p \in network :
         /\ p.sequence \in Nat
         /\ p.fragmented \in BOOLEAN
         /\ \E m \in Message : \E start \in 0 .. Length[m] :
              \E n \in 0 .. Length[m] - start :
                 p = Datagram(p.sequence, p.fragmented, m, start, n)
    /\ incomingSequence \in Nat
    /\ fragmentSequence \in Nat
    /\ fragmentBuffer \in Seq(Byte)
    /\ Len(fragmentBuffer) <= MAX_MSGLEN
    /\ transmitted \subseteq (Nat \X Message)
    /\ received \in Seq([sequence : Nat, data : Seq(Byte)])

(***************************************************************************)
(* Every message Netchan_Process hands up is, byte for byte, a message     *)
(* that was given to Netchan_Transmit under that sequence number: fragments*)
(* of different messages, or fragments out of place, are never combined,   *)
(* and a message is never handed up truncated.                             *)
(***************************************************************************)
Integrity ==
    \A i \in 1 .. Len(received) :
        \E m \in Message : /\ <<received[i].sequence, m>> \in transmitted
                           /\ received[i].data = Content(m)

(***************************************************************************)
(* Sequence numbers of the messages handed up grow strictly: no message    *)
(* twice, none after a later one, whatever the network does.               *)
(***************************************************************************)
InOrder ==
    \A i, j \in 1 .. Len(received) :
        i < j => received[i].sequence < received[j].sequence
=============================================================================
