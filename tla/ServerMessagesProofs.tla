------------------------- MODULE ServerMessagesProofs -------------------------
(***************************************************************************)
(* Proofs about the channel and about what is sent over it.                *)
(*                                                                         *)
(* First SvNetchan, for every set of messages, every length function,      *)
(* every fragment size and any number of messages.  The inductive          *)
(* invariant IInv names the message every datagram in flight and every     *)
(* partly rebuilt buffer belongs to: handed[s], where s is its sequence    *)
(* number.                                                                 *)
(*                                                                         *)
(* Then ServerMessages, for every ring size and any number of maps: a      *)
(* gamestate is sent again only when it was lost, although the number      *)
(* recorded for it may be one too low, and a delta is taken from the       *)
(* message it was made from.  Below is the channel with IInv: every step   *)
(* of ServerMessages is a step of SvNetchan or leaves it alone.            *)
(***************************************************************************)
EXTENDS ServerMessages, SequenceTheorems, TLAPS

-----------------------------------------------------------------------------
\* The messages sent, being sent and queued are the ones handed over, in order.
SendInv ==
    /\ Len(handed) = Started + Len(netchan_queue)
    /\ \A i \in 1 .. Len(netchan_queue) : netchan_queue[i] = handed[Started + i]
    /\ \A t \in transmitted : t[1] \in 1 .. Started /\ t[2] = handed[t[1]]
    /\ \A s \in 1 .. Started : <<s, handed[s]>> \in transmitted
    /\ unsentFragments => /\ unsentBuffer = handed[outgoingSequence]
                          /\ unsentFragmentStart <= Length[unsentBuffer]

\* A datagram carries bytes of the message handed over under its sequence.
IsPieceOf(p, m) ==
    IF p.fragmented
    THEN /\ p.fragmentStart \in 0 .. Length[m]
         /\ p.data = Bytes(m, p.fragmentStart, NextFragmentLength(m, p.fragmentStart))
    ELSE p.data = Content(m)

NetInv ==
    \A p \in network : /\ p.sequence \in 1 .. Started
                       /\ IsPieceOf(p, handed[p.sequence])

\* What is rebuilt is a prefix of one message.
RebuiltInv ==
    fragmentBuffer # <<>> =>
        /\ fragmentSequence \in 1 .. Started
        /\ Len(fragmentBuffer) <= Length[handed[fragmentSequence]]
        /\ fragmentBuffer = Bytes(handed[fragmentSequence], 0, Len(fragmentBuffer))

ReceivedInv ==
    /\ \A i \in 1 .. Len(received) : received[i].sequence <= incomingSequence
    /\ InOrder

ReceivedStarted ==
    \A i \in 1 .. Len(received) :
        /\ received[i].sequence \in 1 .. Started
        /\ received[i].data = Content(handed[received[i].sequence])

IInv == /\ TypeOK /\ SendInv /\ NetInv
        /\ RebuiltInv /\ ReceivedInv /\ ReceivedStarted

-----------------------------------------------------------------------------
\* Bytes(m, start, n) is a sequence of n bytes.
LEMMA BytesType ==
    ASSUME NEW m \in Message, NEW start \in Nat, NEW n \in Nat
    PROVE  /\ Bytes(m, start, n) \in Seq(Byte)
           /\ Len(Bytes(m, start, n)) = n
           /\ \A k \in 1 .. n : Bytes(m, start, n)[k] = <<m, start + k>>
<1>1. \A k \in 1 .. n : <<m, start + k>> \in Byte
  BY DEF Byte
<1>2. Bytes(m, start, n) \in [1 .. n -> Byte]
  BY <1>1 DEF Bytes
<1> QED
  BY <1>2 DEF Bytes

\* Appending the next bytes of a message to its first bytes.
LEMMA BytesConcat ==
    ASSUME NEW m \in Message, NEW a \in Nat, NEW b \in Nat
    PROVE  Bytes(m, 0, a) \o Bytes(m, a, b) = Bytes(m, 0, a + b)
<1> DEFINE A == Bytes(m, 0, a)
           B == Bytes(m, a, b)
           R == Bytes(m, 0, a + b)
<1>1. /\ A \in Seq(Byte) /\ Len(A) = a
      /\ \A k \in 1 .. a : A[k] = <<m, 0 + k>>
  BY 0 \in Nat, BytesType
<1>2. /\ B \in Seq(Byte) /\ Len(B) = b
      /\ \A k \in 1 .. b : B[k] = <<m, a + k>>
  BY BytesType
<1>3. /\ R \in Seq(Byte) /\ Len(R) = a + b
      /\ \A k \in 1 .. a + b : R[k] = <<m, 0 + k>>
  BY 0 \in Nat, a + b \in Nat, BytesType
<1> HIDE DEF A, B, R
<1>4. /\ A \o B \in Seq(Byte) /\ Len(A \o B) = a + b
      /\ \A k \in 1 .. a + b : (A \o B)[k] = IF k <= a THEN A[k] ELSE B[k - a]
  BY <1>1, <1>2, ConcatProperties
<1>5. ASSUME NEW k \in 1 .. a + b PROVE (A \o B)[k] = R[k]
  <2>1. CASE k <= a
    <3>1. (A \o B)[k] = <<m, 0 + k>>
      BY <2>1, <1>1, <1>4
    <3> QED
      BY <3>1, <1>3
  <2>2. CASE ~(k <= a)
    <3>1. k - a \in 1 .. b /\ a + (k - a) = 0 + k
      BY <2>2
    <3>2. (A \o B)[k] = B[k - a]
      BY <2>2, <1>4
    <3>3. B[k - a] = <<m, a + (k - a)>>
      BY <3>1, <1>2
    <3> QED
      BY <3>1, <3>2, <3>3, <1>3
  <2> QED
    BY <2>1, <2>2
<1>6. A \o B = R
  BY <1>3, <1>4, <1>5, SeqEqual
<1> QED
  BY <1>6 DEF A, B, R

\* Where the next fragment ends, and when it is the last one.
LEMMA FragmentBounds ==
    ASSUME NEW m \in Message, NEW start \in 0 .. Length[m]
    PROVE  /\ Length[m] \in Nat
           /\ Length[m] <= MAX_MSGLEN
           /\ NextFragmentLength(m, start) \in 0 .. Length[m] - start
           /\ NextFragmentLength(m, start) # FRAGMENT_SIZE =>
                 start + NextFragmentLength(m, start) = Length[m]
BY NetchanAssumption DEF NextFragmentLength

\* A fresh channel satisfies the invariant.
LEMMA InitIInv == Init => IInv
<1> SUFFICES ASSUME Init PROVE IInv
  OBVIOUS
<1> USE NetchanAssumption DEF Init, Netchan_Setup
<1>1. TypeOK
  <2>1. outgoingSequence \in Nat \ {0} /\ unsentFragmentStart \in 0 .. MAX_MSGLEN
    OBVIOUS
  <2>2. unsentFragments \in BOOLEAN /\ unsentBuffer \in Message \cup {NoMessage}
    OBVIOUS
  <2>3. incomingSequence \in Nat /\ fragmentSequence \in Nat
    OBVIOUS
  <2>4. /\ fragmentBuffer \in Seq(Byte)
        /\ Len(fragmentBuffer) <= MAX_MSGLEN
        /\ received \in Seq([sequence : Nat, data : Seq(Byte)])
        /\ netchan_queue \in Seq(Message)
        /\ handed \in Seq(Message)
    OBVIOUS
  <2>5. network = {} /\ transmitted = {}
    OBVIOUS
  <2> QED
    BY <2>1, <2>2, <2>3, <2>4, <2>5, Zenon DEF TypeOK, ChanTypeOK
<1>2. Started = 0
  <2>1. Started = outgoingSequence - 1
    BY DEF Started
  <2> QED
    BY <2>1
<1>3. ~unsentFragments
  OBVIOUS
<1>4. SendInv
  BY <1>2, <1>3 DEF SendInv
<1>5. NetInv /\ RebuiltInv /\ ReceivedInv /\ ReceivedStarted
  BY DEF NetInv, RebuiltInv, ReceivedInv, InOrder, ReceivedStarted
<1> QED
  BY <1>1, <1>4, <1>5 DEF IInv

\* A fragment of m joins the datagrams in flight.
LEMMA SendFragmentType ==
    ASSUME TypeOK, NEW m \in Message, NEW start \in 0 .. Length[m], SendFragment(m, start)
    PROVE  /\ outgoingSequence' \in Nat \ {0}
           /\ unsentFragments' \in BOOLEAN
           /\ unsentFragmentStart' \in 0 .. Length[m]
           /\ Started' = outgoingSequence
           /\ unsentFragments' => outgoingSequence' = outgoingSequence
           /\ \E p : /\ network' = network \cup {p}
                    /\ p = Datagram(outgoingSequence, TRUE, m, start,
                                    NextFragmentLength(m, start))
                    /\ p.sequence = outgoingSequence
                    /\ IsPieceOf(p, m)
<1>1. outgoingSequence \in Nat \ {0}
  BY DEF TypeOK, ChanTypeOK
<1>2. /\ Length[m] \in Nat
      /\ NextFragmentLength(m, start) \in 0 .. Length[m] - start
  BY FragmentBounds
<1>3. \E p : /\ network' = network \cup {p}
            /\ p = Datagram(outgoingSequence, TRUE, m, start,
                            NextFragmentLength(m, start))
            /\ p.sequence = outgoingSequence
            /\ IsPieceOf(p, m)
  <2> DEFINE p == Datagram(outgoingSequence, TRUE, m, start,
                           NextFragmentLength(m, start))
  <2>1. network' = network \cup {p}
    BY DEF SendFragment
  <2>2. p.sequence = outgoingSequence /\ IsPieceOf(p, m)
    BY DEF Datagram, IsPieceOf
  <2> HIDE DEF p
  <2>3. p = Datagram(outgoingSequence, TRUE, m, start, NextFragmentLength(m, start))
    BY DEF p
  <2> QED
    BY <2>1, <2>2, <2>3
<1>4. unsentFragments' \in BOOLEAN
  BY DEF SendFragment, IsLastFragment
<1> DEFINE n == NextFragmentLength(m, start)
           last == start + n = Length[m] /\ n # FRAGMENT_SIZE
<1>5. /\ unsentFragmentStart' = start + n
      /\ unsentFragments' = ~last
      /\ outgoingSequence' = IF last THEN outgoingSequence + 1 ELSE outgoingSequence
  BY DEF SendFragment, IsLastFragment
<1>6. n \in 0 .. Length[m] - start
  BY <1>2
<1> HIDE DEF n
<1>7. unsentFragmentStart' \in 0 .. Length[m]
  BY <1>2, <1>5, <1>6
<1>8. /\ outgoingSequence' \in Nat \ {0}
      /\ Started' = outgoingSequence
      /\ unsentFragments' => outgoingSequence' = outgoingSequence
  <2>1. CASE last
    <3>1. ~unsentFragments' /\ outgoingSequence' = outgoingSequence + 1
      BY <2>1, <1>5
    <3>2. Started' = outgoingSequence' - 1
      BY <3>1 DEF Started
    <3> QED
      BY <3>1, <3>2, <1>1
  <2>2. CASE ~last
    <3>1. unsentFragments' /\ outgoingSequence' = outgoingSequence
      BY <2>2, <1>5
    <3>2. Started' = outgoingSequence'
      BY <3>1 DEF Started
    <3> QED
      BY <3>1, <3>2, <1>1
  <2> QED
    BY <2>1, <2>2
<1> QED
  BY <1>3, <1>4, <1>7, <1>8

\* The receiving half depends on the sender only through the datagrams, and
\* on the history only through the messages already started.
LEMMA ReceiverStable ==
    ASSUME TypeOK, RebuiltInv, ReceivedInv, ReceivedStarted, UNCHANGED <<receiver, received>>,
           Started \in Nat, Started' \in Nat, Started <= Started',
           \A s \in 1 .. Started : handed'[s] = handed[s]
    PROVE  RebuiltInv' /\ ReceivedInv' /\ ReceivedStarted'
<1>1. RebuiltInv'
  BY DEF RebuiltInv, receiver
<1>2. ReceivedInv'
  BY DEF ReceivedInv, InOrder, receiver
<1>3. ReceivedStarted'
  BY DEF ReceivedStarted, receiver
<1> QED
  BY <1>1, <1>2, <1>3

\* The type of a datagram that carries a piece of m.
LEMMA DatagramType ==
    ASSUME NEW seq \in Nat, NEW frag \in BOOLEAN, NEW m \in Message,
           NEW start \in 0 .. Length[m], NEW n \in 0 .. Length[m] - start, NEW p,
           p = Datagram(seq, frag, m, start, n)
    PROVE  /\ p.sequence = seq /\ p.fragmented = frag /\ p.fragmentStart = start
           /\ p.data = Bytes(m, start, n)
           /\ p.data \in Seq(Byte)
           /\ Len(p.data) = n
<1>1. Length[m] \in Nat /\ start \in Nat /\ n \in Nat
  BY NetchanAssumption
<1>2. /\ p.sequence = seq /\ p.fragmented = frag /\ p.fragmentStart = start
      /\ p.data = Bytes(m, start, n)
  BY DEF Datagram
<1> QED
  BY <1>1, <1>2, BytesType

\* What Netchan_Transmit does to the sending half and to the history, when
\* nothing is being fragmented.
LEMMA TransmitType ==
    ASSUME TypeOK, ~unsentFragments, NEW m \in Message, Netchan_Transmit(m)
    PROVE  /\ outgoingSequence' \in Nat \ {0}
           /\ unsentFragments' \in BOOLEAN
           /\ unsentFragmentStart' \in 0 .. MAX_MSGLEN
           /\ unsentBuffer' \in Message \cup {NoMessage}
           /\ Started = outgoingSequence - 1
           /\ Started' = outgoingSequence
           /\ unsentFragments' => /\ outgoingSequence' = outgoingSequence
                                  /\ unsentBuffer' = m
                                  /\ unsentFragmentStart' <= Length[m]
           /\ transmitted' = transmitted \cup {<<outgoingSequence, m>>}
           /\ \E p : /\ network' = network \cup {p}
                    /\ p.sequence = outgoingSequence
                    /\ p.fragmented \in BOOLEAN
                    /\ IsPieceOf(p, m)
                    /\ \E start \in 0 .. Length[m] : \E n \in 0 .. Length[m] - start :
                          p = Datagram(p.sequence, p.fragmented, m, start, n)
           /\ UNCHANGED <<receiver, received>>
<1>1. Started = outgoingSequence - 1
  BY DEF Started
<1>2. outgoingSequence \in Nat \ {0} /\ unsentBuffer \in Message \cup {NoMessage}
  BY DEF TypeOK, ChanTypeOK
<1>3. /\ transmitted' = transmitted \cup {<<outgoingSequence, m>>}
      /\ UNCHANGED <<receiver, received>>
  BY DEF Netchan_Transmit
<1>4. Length[m] \in Nat /\ Length[m] <= MAX_MSGLEN /\ MAX_MSGLEN \in Nat /\ 0 \in 0 .. Length[m]
  BY NetchanAssumption
<1>5. CASE Length[m] >= FRAGMENT_SIZE /\ unsentBuffer' = m /\ SendFragment(m, 0)
  <2>1. /\ outgoingSequence' \in Nat \ {0}
        /\ unsentFragments' \in BOOLEAN
        /\ unsentFragmentStart' \in 0 .. Length[m]
        /\ Started' = outgoingSequence
        /\ unsentFragments' => outgoingSequence' = outgoingSequence
        /\ \E p : /\ network' = network \cup {p}
                 /\ p = Datagram(outgoingSequence, TRUE, m, 0, NextFragmentLength(m, 0))
                 /\ p.sequence = outgoingSequence
                 /\ IsPieceOf(p, m)
    BY <1>4, <1>5, SendFragmentType
  <2>2. PICK p : /\ network' = network \cup {p}
                 /\ p = Datagram(outgoingSequence, TRUE, m, 0, NextFragmentLength(m, 0))
                 /\ p.sequence = outgoingSequence
                 /\ IsPieceOf(p, m)
    BY <2>1
  <2>3. NextFragmentLength(m, 0) \in 0 .. Length[m] - 0
    BY <1>4, FragmentBounds
  <2>4. p.fragmented = TRUE
    BY <2>2 DEF Datagram
  <2>5. p = Datagram(p.sequence, p.fragmented, m, 0, NextFragmentLength(m, 0))
    BY <2>2, <2>4
  <2>6. unsentFragmentStart' \in 0 .. MAX_MSGLEN /\ unsentFragmentStart' <= Length[m]
    BY <2>1, <1>4
  <2>7. p.fragmented \in BOOLEAN
    BY <2>4
  <2> QED
    BY <1>1, <1>3, <1>4, <1>5, <2>1, <2>2, <2>3, <2>5, <2>6, <2>7, Zenon
<1>6. CASE /\ Length[m] < FRAGMENT_SIZE
           /\ network' = network \cup {Datagram(outgoingSequence, FALSE, m, 0, Length[m])}
           /\ outgoingSequence' = outgoingSequence + 1
           /\ unsentFragmentStart' = 0
           /\ UNCHANGED <<unsentFragments, unsentBuffer>>
  <2> DEFINE p == Datagram(outgoingSequence, FALSE, m, 0, Length[m])
  <2>1. p.sequence = outgoingSequence /\ p.fragmented = FALSE /\ p.data = Content(m)
    BY DEF Datagram, Content
  <2>2. IsPieceOf(p, m)
    BY <2>1 DEF IsPieceOf
  <2>3. p = Datagram(p.sequence, p.fragmented, m, 0, Length[m])
    BY <2>1
  <2> HIDE DEF p
  <2>4. Length[m] \in 0 .. Length[m] - 0
    BY <1>4
  <2>5. ~unsentFragments' /\ unsentFragments' \in BOOLEAN
    BY <1>6 DEF TypeOK, ChanTypeOK
  <2>6. Started' = outgoingSequence' - 1
    BY <2>5 DEF Started
  <2>7. Started' = outgoingSequence /\ outgoingSequence' \in Nat \ {0}
    BY <2>6, <1>2, <1>6
  <2>8. unsentFragmentStart' \in 0 .. MAX_MSGLEN /\ unsentBuffer' = unsentBuffer
    BY <1>4, <1>6
  <2>9. network' = network \cup {p}
    BY <1>6 DEF p
  <2>10. p.fragmented \in BOOLEAN
    BY <2>1
  <2> QED
    BY <1>1, <1>2, <1>3, <1>4, <2>1, <2>2, <2>3, <2>4, <2>5, <2>7, <2>8, <2>9, <2>10, Zenon
<1> QED
  BY <1>5, <1>6 DEF Netchan_Transmit

\* A datagram that carries a piece of a message stays one while the message
\* handed over under its sequence does not change.
LEMMA NetInvStep ==
    ASSUME NetInv, Started \in Nat, Started' \in Nat, Started <= Started',
           \A s \in 1 .. Started : handed'[s] = handed[s],
           NEW p, network' = network \cup {p}, p.sequence \in 1 .. Started',
           IsPieceOf(p, handed'[p.sequence])
    PROVE  NetInv'
<1> SUFFICES ASSUME NEW q \in network'
             PROVE  q.sequence \in 1 .. Started' /\ IsPieceOf(q, handed'[q.sequence])
  BY DEF NetInv, IsPieceOf
<1>1. CASE q = p
  BY <1>1
<1>2. CASE q \in network
  <2>1. q.sequence \in 1 .. Started /\ IsPieceOf(q, handed[q.sequence])
    BY <1>2 DEF NetInv
  <2>2. q.sequence \in 1 .. Started'
    BY <2>1
  <2>3. handed'[q.sequence] = handed[q.sequence]
    BY <2>1
  <2> QED
    BY <2>1, <2>2, <2>3
<1> QED
  BY <1>1, <1>2

\* Starting to send a message that is next in the order handed over.
LEMMA TransmitIInv ==
    ASSUME IInv, ~unsentFragments, NEW m \in Message, Netchan_Transmit(m),
           handed' \in Seq(Message), netchan_queue' \in Seq(Message),
           Len(handed') = Started + 1 + Len(netchan_queue'),
           \A i \in 1 .. Len(netchan_queue') : netchan_queue'[i] = handed'[Started + 1 + i],
           handed'[Started + 1] = m,
           \A s \in 1 .. Started : handed'[s] = handed[s]
    PROVE  IInv'
<1>1. TypeOK /\ SendInv /\ NetInv /\ RebuiltInv /\ ReceivedInv /\ ReceivedStarted
  BY DEF IInv
<1>2. /\ outgoingSequence' \in Nat \ {0}
      /\ unsentFragments' \in BOOLEAN
      /\ unsentFragmentStart' \in 0 .. MAX_MSGLEN
      /\ unsentBuffer' \in Message \cup {NoMessage}
      /\ Started = outgoingSequence - 1
      /\ Started' = outgoingSequence
      /\ unsentFragments' => /\ outgoingSequence' = outgoingSequence
                             /\ unsentBuffer' = m
                             /\ unsentFragmentStart' <= Length[m]
      /\ transmitted' = transmitted \cup {<<outgoingSequence, m>>}
      /\ UNCHANGED <<receiver, received>>
  BY <1>1, TransmitType
<1>3. PICK p : /\ network' = network \cup {p}
               /\ p.sequence = outgoingSequence
               /\ p.fragmented \in BOOLEAN
               /\ IsPieceOf(p, m)
               /\ \E start \in 0 .. Length[m] : \E n \in 0 .. Length[m] - start :
                     p = Datagram(p.sequence, p.fragmented, m, start, n)
  BY <1>1, TransmitType
<1>4. outgoingSequence \in Nat \ {0}
  BY <1>1 DEF TypeOK, ChanTypeOK
<1>5. /\ Started \in Nat /\ Started' \in Nat /\ Started' = Started + 1
      /\ outgoingSequence = Started + 1
  BY <1>2, <1>4
<1>6. handed'[outgoingSequence] = m
  BY <1>5
<1>7. TypeOK'
  <2>1. \A q \in network' :
           /\ q.sequence \in Nat
           /\ q.fragmented \in BOOLEAN
           /\ \E mm \in Message : \E start \in 0 .. Length[mm] :
                \E n \in 0 .. Length[mm] - start :
                   q = Datagram(q.sequence, q.fragmented, mm, start, n)
    BY <1>1, <1>3, <1>4 DEF TypeOK, ChanTypeOK
  <2>2. transmitted' \subseteq (Nat \X Message)
    BY <1>1, <1>2, <1>4 DEF TypeOK, ChanTypeOK
  <2>3. /\ incomingSequence' \in Nat /\ fragmentSequence' \in Nat
        /\ fragmentBuffer' \in Seq(Byte) /\ Len(fragmentBuffer') <= MAX_MSGLEN
        /\ received' \in Seq([sequence : Nat, data : Seq(Byte)])
    BY <1>1, <1>2 DEF TypeOK, ChanTypeOK, receiver
  <2> QED
    BY <1>2, <2>1, <2>2, <2>3, Zenon DEF TypeOK, ChanTypeOK
<1>8. SendInv'
  <2>1. Len(handed') = Started' + Len(netchan_queue')
    BY <1>5
  <2>2. \A i \in 1 .. Len(netchan_queue') : netchan_queue'[i] = handed'[Started' + i]
    BY <1>5
  <2>3. ASSUME NEW t \in transmitted'
        PROVE  t[1] \in 1 .. Started' /\ t[2] = handed'[t[1]]
    <3>1. CASE t \in transmitted
      <4>1. t[1] \in 1 .. Started /\ t[2] = handed[t[1]]
        BY <3>1, <1>1 DEF SendInv
      <4> QED
        BY <4>1, <1>5
    <3>2. CASE t = <<outgoingSequence, m>>
      BY <3>2, <1>4, <1>5, <1>6
    <3> QED
      BY <3>1, <3>2, <1>2
  <2>4. ASSUME NEW s \in 1 .. Started'
        PROVE  <<s, handed'[s]>> \in transmitted'
    <3>1. CASE s = outgoingSequence
      BY <3>1, <1>2, <1>6
    <3>2. CASE s # outgoingSequence
      <4>1. s \in 1 .. Started
        BY <3>2, <1>5
      <4>2. <<s, handed[s]>> \in transmitted /\ handed'[s] = handed[s]
        BY <4>1, <1>1 DEF SendInv
      <4> QED
        BY <4>2, <1>2
    <3> QED
      BY <3>1, <3>2
  <2>5. unsentFragments' => /\ unsentBuffer' = handed'[outgoingSequence']
                            /\ unsentFragmentStart' <= Length[unsentBuffer']
    BY <1>2, <1>6, Zenon
  <2> QED
    BY <2>1, <2>2, <2>3, <2>4, <2>5 DEF SendInv
<1>9. NetInv'
  BY <1>1, <1>3, <1>5, <1>6, NetInvStep
<1>10. RebuiltInv' /\ ReceivedInv' /\ ReceivedStarted'
  BY <1>1, <1>2, <1>5, ReceiverStable
<1> QED
  BY <1>7, <1>8, <1>9, <1>10 DEF IInv

\* The next fragment of the message being sent.
LEMMA FragmentIInv ==
    ASSUME IInv, unsentFragments, Netchan_TransmitNextFragment,
           UNCHANGED <<netchan_queue, handed>>
    PROVE  IInv'
<1> DEFINE m == unsentBuffer
<1>1. TypeOK /\ SendInv /\ NetInv /\ RebuiltInv /\ ReceivedInv /\ ReceivedStarted
  BY DEF IInv
<1>2. Started = outgoingSequence
  BY DEF Started
<1>3. /\ outgoingSequence \in Nat \ {0} /\ unsentFragmentStart \in Nat
      /\ handed \in Seq(Message) /\ netchan_queue \in Seq(Message)
  BY <1>1 DEF TypeOK, ChanTypeOK
<1>4. m = handed[outgoingSequence] /\ unsentFragmentStart <= Length[m]
  BY <1>1 DEF SendInv
<1>5. m \in Message
  <2>1. outgoingSequence \in 1 .. Len(handed)
    BY <1>1, <1>2, <1>3 DEF SendInv
  <2> QED
    BY <2>1, <1>3, <1>4
<1>6. Length[m] \in Nat /\ Length[m] <= MAX_MSGLEN /\ MAX_MSGLEN \in Nat
  BY <1>5, NetchanAssumption
<1>7. unsentFragmentStart \in 0 .. Length[m]
  BY <1>3, <1>4, <1>6
<1>8. SendFragment(m, unsentFragmentStart)
  BY DEF Netchan_TransmitNextFragment
<1>9. /\ outgoingSequence' \in Nat \ {0}
      /\ unsentFragments' \in BOOLEAN
      /\ unsentFragmentStart' \in 0 .. Length[m]
      /\ Started' = outgoingSequence
      /\ unsentFragments' => outgoingSequence' = outgoingSequence
  BY <1>1, <1>5, <1>7, <1>8, SendFragmentType
<1>10. PICK p : /\ network' = network \cup {p}
                /\ p = Datagram(outgoingSequence, TRUE, m, unsentFragmentStart,
                                NextFragmentLength(m, unsentFragmentStart))
                /\ p.sequence = outgoingSequence
                /\ IsPieceOf(p, m)
  BY <1>1, <1>5, <1>7, <1>8, SendFragmentType
<1>11. UNCHANGED <<unsentBuffer, receiver, transmitted, received>>
  BY DEF Netchan_TransmitNextFragment
<1>12. TypeOK'
  <2>1. NextFragmentLength(m, unsentFragmentStart) \in 0 .. Length[m] - unsentFragmentStart
    BY <1>5, <1>7, FragmentBounds
  <2>2. p.fragmented = TRUE
    BY <1>10 DEF Datagram
  <2>3. p = Datagram(p.sequence, p.fragmented, m, unsentFragmentStart,
                     NextFragmentLength(m, unsentFragmentStart))
    BY <2>2, <1>10
  <2>4. \A q \in network' :
           /\ q.sequence \in Nat
           /\ q.fragmented \in BOOLEAN
           /\ \E mm \in Message : \E start \in 0 .. Length[mm] :
                \E n \in 0 .. Length[mm] - start :
                   q = Datagram(q.sequence, q.fragmented, mm, start, n)
    <3> SUFFICES ASSUME NEW q \in network'
                 PROVE  /\ q.sequence \in Nat
                        /\ q.fragmented \in BOOLEAN
                        /\ \E mm \in Message : \E start \in 0 .. Length[mm] :
                             \E n \in 0 .. Length[mm] - start :
                                q = Datagram(q.sequence, q.fragmented, mm, start, n)
      OBVIOUS
    <3>1. CASE q = p
      <4>1. p.sequence \in Nat /\ p.fragmented \in BOOLEAN
        BY <2>2, <1>3, <1>10
      <4> QED
        BY <4>1, <3>1, <2>1, <2>3, <1>5, <1>7, Zenon
    <3>2. CASE q \in network
      BY <3>2, <1>1, Zenon DEF TypeOK, ChanTypeOK
    <3> QED
      BY <3>1, <3>2, <1>10
  <2>5. unsentFragmentStart' \in 0 .. MAX_MSGLEN
    BY <1>6, <1>9
  <2>6. /\ incomingSequence' \in Nat /\ fragmentSequence' \in Nat
        /\ fragmentBuffer' \in Seq(Byte) /\ Len(fragmentBuffer') <= MAX_MSGLEN
        /\ received' \in Seq([sequence : Nat, data : Seq(Byte)])
        /\ transmitted' \subseteq (Nat \X Message)
        /\ unsentBuffer' \in Message \cup {NoMessage}
    BY <1>1, <1>11 DEF TypeOK, ChanTypeOK, receiver
  <2> QED
    BY <1>3, <1>9, <2>4, <2>5, <2>6, Zenon DEF TypeOK, ChanTypeOK
<1>13. SendInv'
  <2>1. Started' = Started
    BY <1>2, <1>9
  <2>2. unsentFragments' => /\ unsentBuffer' = handed'[outgoingSequence']
                            /\ unsentFragmentStart' <= Length[unsentBuffer']
    <3>1. unsentFragmentStart' <= Length[m]
      BY <1>6, <1>9
    <3> QED
      BY <3>1, <1>4, <1>9, <1>11, Zenon
  <2> QED
    BY <1>1, <1>11, <2>1, <2>2, Zenon DEF SendInv
<1>14. NetInv'
  <2>1. p.sequence \in 1 .. Started' /\ handed'[p.sequence] = m
    <3>1. p.sequence \in 1 .. Started'
      <4>1. Started' = outgoingSequence /\ p.sequence = outgoingSequence
        BY <1>9, <1>10, Zenon
      <4>2. outgoingSequence \in 1 .. outgoingSequence
        BY <1>3
      <4> QED
        BY <4>1, <4>2
    <3>2. handed' = handed
      OBVIOUS
    <3> QED
      BY <3>1, <3>2, <1>4, <1>10
  <2>2. /\ Started \in Nat /\ Started' \in Nat /\ Started <= Started'
        /\ \A s \in 1 .. Started : handed'[s] = handed[s]
    BY <1>2, <1>3, <1>9
  <2> QED
    BY <1>1, <1>10, <2>1, <2>2, NetInvStep
<1>15. RebuiltInv' /\ ReceivedInv' /\ ReceivedStarted'
  <2>1. /\ Started \in Nat /\ Started' \in Nat /\ Started <= Started'
        /\ \A s \in 1 .. Started : handed'[s] = handed[s]
    BY <1>2, <1>3, <1>9
  <2> QED
    BY <1>1, <1>11, <2>1, ReceiverStable
<1> QED
  BY <1>12, <1>13, <1>14, <1>15 DEF IInv

\* What the receiver knows when a datagram reaches Netchan_Process: it is a
\* piece of one message, and what is rebuilt of that message is a prefix of it.
LEMMA PieceFacts ==
    ASSUME IInv, NEW p \in network
    PROVE  LET m == handed[p.sequence] IN
           /\ Started \in Nat /\ handed \in Seq(Message) /\ Started <= Len(handed)
           /\ p.sequence \in 1 .. Started /\ IsPieceOf(p, m)
           /\ m \in Message /\ p.sequence \in Nat
           /\ Length[m] \in Nat /\ Length[m] <= MAX_MSGLEN /\ MAX_MSGLEN \in Nat
           /\ Rebuilt(p) \in Seq(Byte) /\ Len(Rebuilt(p)) \in Nat
           /\ Len(Rebuilt(p)) <= Length[m]
           /\ Rebuilt(p) = Bytes(m, 0, Len(Rebuilt(p)))
<1> DEFINE m == handed[p.sequence]
<1>1. TypeOK /\ SendInv /\ NetInv /\ RebuiltInv /\ ReceivedInv /\ ReceivedStarted
  BY DEF IInv
<1>5. /\ Started \in Nat
      /\ handed \in Seq(Message) /\ Started <= Len(handed)
  <2>1. outgoingSequence \in Nat \ {0} /\ handed \in Seq(Message) /\ netchan_queue \in Seq(Message)
    BY <1>1 DEF TypeOK, ChanTypeOK
  <2>2. Started = outgoingSequence \/ Started = outgoingSequence - 1
    BY DEF Started
  <2>3. Len(handed) = Started + Len(netchan_queue)
    BY <1>1 DEF SendInv
  <2> QED
    BY <2>1, <2>2, <2>3
<1>6. p.sequence \in 1 .. Started /\ IsPieceOf(p, m)
  BY <1>1 DEF NetInv
<1>7. m \in Message /\ p.sequence \in Nat
  BY <1>5, <1>6
<1>8. Length[m] \in Nat /\ Length[m] <= MAX_MSGLEN /\ MAX_MSGLEN \in Nat
  BY <1>7, NetchanAssumption
<1>9. incomingSequence \in Nat /\ fragmentSequence \in Nat
      /\ fragmentBuffer \in Seq(Byte) /\ Len(fragmentBuffer) <= MAX_MSGLEN
      /\ received \in Seq([sequence : Nat, data : Seq(Byte)])
  BY <1>1 DEF TypeOK, ChanTypeOK
\* What was rebuilt for p's message is a prefix of it.
<1>10. /\ Rebuilt(p) \in Seq(Byte) /\ Len(Rebuilt(p)) \in Nat
       /\ Len(Rebuilt(p)) <= Length[m]
       /\ Rebuilt(p) = Bytes(m, 0, Len(Rebuilt(p)))
  <2>1. CASE Rebuilt(p) = <<>>
    <3>1. Len(<<>>) = 0 /\ <<>> \in Seq(Byte)
      OBVIOUS
    <3>2. Bytes(m, 0, 0) \in Seq(Byte) /\ Len(Bytes(m, 0, 0)) = 0
      BY <1>7, 0 \in Nat, BytesType
    <3>3. Bytes(m, 0, 0) = <<>>
      BY <3>2, EmptySeq
    <3> QED
      BY <2>1, <3>1, <3>3, <1>8
  <2>2. CASE Rebuilt(p) # <<>>
    <3>1. p.sequence = fragmentSequence /\ Rebuilt(p) = fragmentBuffer
      BY <2>2 DEF Rebuilt
    <3>2. /\ Len(fragmentBuffer) <= Length[m]
          /\ fragmentBuffer = Bytes(m, 0, Len(fragmentBuffer))
      BY <2>2, <3>1, <1>1 DEF RebuiltInv
    <3> QED
      BY <3>1, <3>2, <1>9
  <2> QED
    BY <2>1, <2>2
<1> QED
  BY <1>5, <1>6, <1>7, <1>8, <1>10

\* A fragment that is accepted extends the rebuilt prefix, and one shorter
\* than FRAGMENT_SIZE completes the message.
LEMMA AcceptedPiece ==
    ASSUME IInv, NEW p \in network, IsNew(p), p.fragmented, Continues(p)
    PROVE  LET m == handed[p.sequence]
               whole == Rebuilt(p) \o p.data
           IN
           /\ whole \in Seq(Byte) /\ Len(whole) \in Nat /\ Len(whole) <= Length[m]
           /\ whole = Bytes(m, 0, Len(whole))
           /\ Len(p.data) # FRAGMENT_SIZE => whole = Content(m)
<1> DEFINE m == handed[p.sequence]
           a == Len(Rebuilt(p))
           b == NextFragmentLength(m, a)
           whole == Rebuilt(p) \o p.data
<1>1. /\ m \in Message /\ IsPieceOf(p, m)
      /\ Length[m] \in Nat /\ a \in Nat /\ a <= Length[m]
      /\ Rebuilt(p) = Bytes(m, 0, a)
  BY PieceFacts
<1>2. a \in 0 .. Length[m] /\ p.data = Bytes(m, a, b)
  BY <1>1 DEF IsPieceOf, Continues
<1>3. b \in 0 .. Length[m] - a /\ (b # FRAGMENT_SIZE => a + b = Length[m])
  BY <1>1, <1>2, FragmentBounds
<1>4. b \in Nat /\ a + b \in Nat /\ a + b <= Length[m]
  BY <1>1, <1>3
<1>5. Len(p.data) = b
  BY <1>1, <1>2, <1>4, BytesType
<1>6. whole = Bytes(m, 0, a + b)
  <2>1. Bytes(m, 0, a) \o Bytes(m, a, b) = Bytes(m, 0, a + b)
    BY <1>1, <1>4, BytesConcat
  <2> QED
    BY <2>1, <1>1, <1>2
<1>7. Bytes(m, 0, a + b) \in Seq(Byte) /\ Len(Bytes(m, 0, a + b)) = a + b
  BY <1>1, <1>4, 0 \in Nat, BytesType
<1>8. Len(p.data) # FRAGMENT_SIZE => whole = Content(m)
  BY <1>3, <1>5, <1>6 DEF Content
<1> HIDE DEF whole, b
<1>9. Len(whole) = a + b
  BY <1>6, <1>7
<1>10. /\ whole \in Seq(Byte) /\ Len(whole) \in Nat /\ Len(whole) <= Length[m]
       /\ whole = Bytes(m, 0, Len(whole))
  BY <1>4, <1>6, <1>7, <1>9
<1> QED
  BY <1>8, <1>10 DEF whole

\* Netchan_Process either hands nothing up, or hands up the message that was
\* handed over under the sequence of the datagram.
LEMMA HandedUp ==
    ASSUME IInv, NEW p \in network, Netchan_Process(p)
    PROVE  \/ UNCHANGED <<incomingSequence, received>>
           \/ IsNew(p) /\ Deliver(p.sequence, Content(handed[p.sequence]))
<1> DEFINE m == handed[p.sequence]
<1>1. CASE Netchan_ProcessWhole(p)
  BY <1>1, PieceFacts DEF Netchan_ProcessWhole, IsPieceOf
<1>2. CASE Netchan_RejectFragment(p)
  BY <1>2 DEF Netchan_RejectFragment
<1>3. CASE Netchan_AcceptFragment(p)
  <2>1. IsNew(p) /\ p.fragmented /\ Continues(p)
    BY <1>3 DEF Netchan_AcceptFragment
  <2>2. Len(p.data) # FRAGMENT_SIZE => Rebuilt(p) \o p.data = Content(m)
    BY <2>1, AcceptedPiece
  <2> QED
    BY <1>3, <2>1, <2>2 DEF Netchan_AcceptFragment
<1> QED
  BY <1>1, <1>2, <1>3 DEF Netchan_Process

\* A datagram reaches Netchan_Process.
LEMMA ReceiveIInv ==
    ASSUME IInv, NEW p \in network, Netchan_Process(p), UNCHANGED <<netchan_queue, handed>>
    PROVE  IInv'
<1> DEFINE m == handed[p.sequence]
<1>1. TypeOK /\ SendInv /\ NetInv /\ RebuiltInv /\ ReceivedInv /\ ReceivedStarted
  BY DEF IInv
<1>2. /\ UNCHANGED <<sender, network, transmitted>>
      /\ UNCHANGED <<netchan_queue, handed>>
  BY DEF Netchan_Process
<1>3. /\ outgoingSequence' = outgoingSequence /\ unsentFragments' = unsentFragments
      /\ unsentFragmentStart' = unsentFragmentStart /\ unsentBuffer' = unsentBuffer
      /\ network' = network /\ transmitted' = transmitted
      /\ netchan_queue' = netchan_queue /\ handed' = handed
      /\ Started' = Started
  BY <1>2 DEF sender, Started
<1>4. SendInv' /\ NetInv'
  BY <1>1, <1>3, Zenon DEF SendInv, NetInv
<1>5. /\ Started \in Nat /\ handed \in Seq(Message) /\ Started <= Len(handed)
      /\ p.sequence \in 1 .. Started /\ IsPieceOf(p, m)
      /\ m \in Message /\ p.sequence \in Nat
      /\ Length[m] \in Nat /\ Length[m] <= MAX_MSGLEN /\ MAX_MSGLEN \in Nat
      /\ Rebuilt(p) \in Seq(Byte) /\ Len(Rebuilt(p)) \in Nat
      /\ Len(Rebuilt(p)) <= Length[m]
      /\ Rebuilt(p) = Bytes(m, 0, Len(Rebuilt(p)))
  BY PieceFacts
<1>6. p.sequence \in 1 .. Started /\ IsPieceOf(p, m)
  BY <1>5
<1>7. m \in Message /\ p.sequence \in Nat
  BY <1>5
<1>8. Length[m] \in Nat /\ Length[m] <= MAX_MSGLEN /\ MAX_MSGLEN \in Nat
  BY <1>5
<1>9. incomingSequence \in Nat /\ fragmentSequence \in Nat
      /\ fragmentBuffer \in Seq(Byte) /\ Len(fragmentBuffer) <= MAX_MSGLEN
      /\ received \in Seq([sequence : Nat, data : Seq(Byte)])
  BY <1>1 DEF TypeOK, ChanTypeOK
<1>10. /\ Rebuilt(p) \in Seq(Byte) /\ Len(Rebuilt(p)) \in Nat
       /\ Len(Rebuilt(p)) <= Length[m]
       /\ Rebuilt(p) = Bytes(m, 0, Len(Rebuilt(p)))
  BY <1>5
\* Handing up the content of m under its sequence.
<1>11. ASSUME IsNew(p), Deliver(p.sequence, Content(m))
       PROVE  /\ ReceivedInv' /\ ReceivedStarted'
              /\ incomingSequence' \in Nat
              /\ received' \in Seq([sequence : Nat, data : Seq(Byte)])
  <2> DEFINE e == [sequence |-> p.sequence, data |-> Content(m)]
  <2>1. Content(m) \in Seq(Byte)
    BY <1>7, <1>8, 0 \in Nat, BytesType DEF Content
  <2>2. e \in [sequence : Nat, data : Seq(Byte)] /\ e.sequence = p.sequence /\ e.data = Content(m)
    BY <2>1, <1>7
  <2>3. received' = Append(received, e) /\ incomingSequence' = p.sequence
    BY <1>11 DEF Deliver
  <2> HIDE DEF e
  <2>4. /\ received' \in Seq([sequence : Nat, data : Seq(Byte)])
        /\ Len(received') = Len(received) + 1
        /\ received'[Len(received) + 1] = e
        /\ \A i \in 1 .. Len(received) : received'[i] = received[i]
    BY <2>2, <2>3, <1>9
  <2>5. p.sequence > incomingSequence
    BY <1>11 DEF IsNew
  <2>6. Len(received) \in Nat /\ \A i \in 1 .. Len(received) : received[i].sequence \in Nat
    <3>1. \A i \in 1 .. Len(received) : received[i] \in [sequence : Nat, data : Seq(Byte)]
      BY <1>9, ElementOfSeq
    <3>2. Len(received) \in Nat
      BY <1>9, LenProperties
    <3> QED
      BY <3>1, <3>2
  <2>7. ASSUME NEW i \in 1 .. Len(received')
        PROVE  \/ i \in 1 .. Len(received) /\ received'[i] = received[i]
               \/ i = Len(received) + 1 /\ received'[i] = e
    <3>1. i \in 1 .. Len(received) \/ i = Len(received) + 1
      BY <2>4, <2>6
    <3> QED
      BY <2>4, <3>1
  <2>8. \A i \in 1 .. Len(received') : received'[i].sequence <= incomingSequence'
    <3> SUFFICES ASSUME NEW i \in 1 .. Len(received')
                 PROVE  received'[i].sequence <= incomingSequence'
      OBVIOUS
    <3>1. CASE i \in 1 .. Len(received) /\ received'[i] = received[i]
      <4>1. received[i].sequence <= incomingSequence /\ received[i].sequence \in Nat
        BY <3>1, <2>6, <1>1 DEF ReceivedInv
      <4> QED
        BY <3>1, <4>1, <2>3, <2>5, <1>7, <1>9
    <3>2. CASE received'[i] = e
      BY <3>2, <2>2, <2>3, <1>7
    <3> QED
      BY <3>1, <3>2, <2>7
  <2>9. InOrder'
    <3> SUFFICES ASSUME NEW i \in 1 .. Len(received'), NEW j \in 1 .. Len(received'), i < j
                 PROVE  received'[i].sequence < received'[j].sequence
      BY DEF InOrder
    <3>1. i \in 1 .. Len(received) /\ received'[i] = received[i]
      <4>1. i \in 1 .. Len(received)
        BY <2>4, <2>6
      <4> QED
        BY <4>1, <2>4
    <3>2. CASE j \in 1 .. Len(received)
      <4>1. received'[j] = received[j]
        BY <3>2, <2>4
      <4> QED
        BY <4>1, <3>1, <3>2, <1>1 DEF ReceivedInv, InOrder
    <3>3. CASE j = Len(received) + 1
      <4>1. received'[j].sequence = p.sequence
        BY <3>3, <2>2, <2>4
      <4>2. received[i].sequence <= incomingSequence /\ received[i].sequence \in Nat
        BY <3>1, <2>6, <1>1 DEF ReceivedInv
      <4> QED
        BY <3>1, <4>1, <4>2, <2>5, <1>7, <1>9
    <3> QED
      BY <3>2, <3>3, <2>7
  <2>10. ReceivedStarted'
    <3> SUFFICES ASSUME NEW i \in 1 .. Len(received')
                 PROVE  /\ received'[i].sequence \in 1 .. Started'
                        /\ received'[i].data = Content(handed'[received'[i].sequence])
      BY DEF ReceivedStarted, Content, Bytes
    <3>1. CASE i \in 1 .. Len(received) /\ received'[i] = received[i]
      BY <3>1, <1>1, <1>3 DEF ReceivedStarted
    <3>2. CASE received'[i] = e
      BY <3>2, <2>2, <1>3, <1>6
    <3> QED
      BY <3>1, <3>2, <2>7
  <2> QED
    BY <2>3, <2>4, <2>8, <2>9, <2>10, <1>7 DEF ReceivedInv
\* Enough for each way Netchan_Process can end.
<1>12. ASSUME /\ incomingSequence' \in Nat /\ fragmentSequence' \in Nat
              /\ fragmentBuffer' \in Seq(Byte) /\ Len(fragmentBuffer') <= MAX_MSGLEN
              /\ received' \in Seq([sequence : Nat, data : Seq(Byte)]),
              RebuiltInv', ReceivedInv', ReceivedStarted'
       PROVE  IInv'
  <2>1. TypeOK'
    BY <1>1, <1>3, <1>12, Zenon DEF TypeOK, ChanTypeOK
  <2> QED
    BY <2>1, <1>4, <1>12 DEF IInv
<1>13. CASE Netchan_ProcessWhole(p)
  <2>1. IsNew(p) /\ Deliver(p.sequence, Content(m))
    BY <1>6, <1>13 DEF Netchan_ProcessWhole, IsPieceOf
  <2>2. UNCHANGED <<fragmentSequence, fragmentBuffer>>
    BY <1>13 DEF Netchan_ProcessWhole
  <2>3. RebuiltInv'
    BY <2>2, <1>1, <1>3 DEF RebuiltInv, Bytes
  <2> QED
    BY <2>1, <2>2, <2>3, <1>9, <1>11, <1>12
<1>14. CASE Netchan_RejectFragment(p)
  <2>1. /\ fragmentSequence' = p.sequence /\ fragmentBuffer' = Rebuilt(p)
        /\ UNCHANGED <<incomingSequence, received>>
    BY <1>14 DEF Netchan_RejectFragment
  <2>2. RebuiltInv'
    BY <2>1, <1>3, <1>6, <1>10 DEF RebuiltInv
  <2>3. ReceivedInv' /\ ReceivedStarted'
    BY <2>1, <1>1, <1>3 DEF ReceivedInv, InOrder, ReceivedStarted, Content, Bytes
  <2>4. Len(fragmentBuffer') <= MAX_MSGLEN
    BY <2>1, <1>8, <1>10
  <2> QED
    BY <2>1, <2>2, <2>3, <2>4, <1>7, <1>9, <1>10, <1>12
<1>15. CASE Netchan_AcceptFragment(p)
  <2> DEFINE whole == Rebuilt(p) \o p.data
  <2>1. IsNew(p) /\ p.fragmented /\ Continues(p) /\ fragmentSequence' = p.sequence
    BY <1>15 DEF Netchan_AcceptFragment
  <2>2. /\ whole \in Seq(Byte) /\ Len(whole) \in Nat /\ Len(whole) <= Length[m]
        /\ whole = Bytes(m, 0, Len(whole))
        /\ Len(p.data) # FRAGMENT_SIZE => whole = Content(m)
    BY <2>1, AcceptedPiece
  <2>3. CASE /\ fragmentBuffer' = whole
             /\ UNCHANGED <<incomingSequence, received>>
    <3>1. RebuiltInv'
      BY <2>1, <2>2, <2>3, <1>3, <1>6 DEF RebuiltInv
    <3>2. ReceivedInv' /\ ReceivedStarted'
      BY <2>3, <1>1, <1>3 DEF ReceivedInv, InOrder, ReceivedStarted, Content, Bytes
    <3>3. fragmentBuffer' \in Seq(Byte) /\ Len(fragmentBuffer') <= MAX_MSGLEN
      BY <2>2, <2>3, <1>8
    <3> QED
      BY <2>1, <2>3, <3>1, <3>2, <3>3, <1>7, <1>9, <1>12
  <2>4. CASE /\ Len(p.data) # FRAGMENT_SIZE
             /\ fragmentBuffer' = <<>>
             /\ Deliver(p.sequence, whole)
    <3>1. Deliver(p.sequence, Content(m))
      BY <2>2, <2>4
    <3>2. RebuiltInv'
      BY <2>4 DEF RebuiltInv
    <3>3. fragmentBuffer' \in Seq(Byte) /\ Len(fragmentBuffer') <= MAX_MSGLEN
      BY <2>4, <1>8
    <3> QED
      BY <2>1, <3>1, <3>2, <3>3, <1>7, <1>11, <1>12
  <2> QED
    BY <2>3, <2>4, <1>15 DEF Netchan_AcceptFragment
<1> QED
  BY <1>13, <1>14, <1>15 DEF Netchan_Process

-----------------------------------------------------------------------------
\* IInv is preserved by every step.
LEMMA StepIInv == IInv /\ [Next]_vars => IInv'
<1> SUFFICES ASSUME IInv, [Next]_vars PROVE IInv'
  OBVIOUS
<1>1. /\ TypeOK /\ SendInv
      /\ handed \in Seq(Message) /\ netchan_queue \in Seq(Message)
      /\ outgoingSequence \in Nat \ {0}
  BY DEF IInv, TypeOK, ChanTypeOK
<1>2. Started \in Nat
  <2>1. Started = outgoingSequence \/ Started = outgoingSequence - 1
    BY DEF Started
  <2> QED
    BY <2>1, <1>1
<1>3. ASSUME NEW m \in Message, SV_Netchan_Transmit(m) PROVE IInv'
  <2>1. /\ handed' = Append(handed, m)
        /\ handed' \in Seq(Message) /\ Len(handed') = Len(handed) + 1
        /\ handed'[Len(handed) + 1] = m
        /\ \A s \in 1 .. Len(handed) : handed'[s] = handed[s]
    BY <1>1, <1>3 DEF SV_Netchan_Transmit
  <2>2. Len(handed) = Started + Len(netchan_queue)
    BY <1>1 DEF SendInv
  <2>3. CASE netchan_queue' = Append(netchan_queue, m) /\ UNCHANGED chanvars
    <3>1. /\ netchan_queue' \in Seq(Message)
          /\ Len(netchan_queue') = Len(netchan_queue) + 1
          /\ netchan_queue'[Len(netchan_queue) + 1] = m
          /\ \A i \in 1 .. Len(netchan_queue) : netchan_queue'[i] = netchan_queue[i]
      BY <2>3, <1>1
    <3>2. /\ UNCHANGED <<outgoingSequence, unsentFragments, unsentFragmentStart, unsentBuffer>>
          /\ UNCHANGED <<network, transmitted, received, receiver>>
      BY <2>3 DEF chanvars, sender, receiver
    <3>3. Started' = Started
      BY <3>2 DEF Started
    <3>4. UNCHANGED <<incomingSequence, fragmentSequence, fragmentBuffer>>
      BY <3>2 DEF receiver
    <3>5. TypeOK'
      BY <2>1, <3>1, <3>2, <3>4, <1>1, Zenon DEF TypeOK, ChanTypeOK
    <3>6. \A s \in 1 .. Started : handed'[s] = handed[s]
      BY <2>1, <2>2, <1>1, <1>2
    <3>7. SendInv'
      <4>1. Len(handed') = Started' + Len(netchan_queue')
        BY <2>1, <2>2, <3>1, <3>3, <1>1, <1>2
      <4>2. ASSUME NEW i \in 1 .. Len(netchan_queue')
            PROVE  netchan_queue'[i] = handed'[Started' + i]
        <5>1. CASE i = Len(netchan_queue) + 1
          BY <5>1, <2>1, <2>2, <3>1, <3>3, <1>1, <1>2
        <5>2. CASE i # Len(netchan_queue) + 1
          <6>1. i \in 1 .. Len(netchan_queue) /\ Started + i \in 1 .. Len(handed)
            BY <5>2, <2>2, <3>1, <1>1, <1>2
          <6>2. netchan_queue[i] = handed[Started + i]
            BY <6>1, <1>1 DEF SendInv
          <6> QED
            BY <6>1, <6>2, <2>1, <3>1, <3>3
        <5> QED
          BY <5>1, <5>2
      <4>3. \A t \in transmitted' : t[1] \in 1 .. Started' /\ t[2] = handed'[t[1]]
        BY <3>2, <3>3, <3>6, <1>1 DEF SendInv
      <4>4. \A s \in 1 .. Started' : <<s, handed'[s]>> \in transmitted'
        BY <3>2, <3>3, <3>6, <1>1 DEF SendInv
      <4>5. unsentFragments' => /\ unsentBuffer' = handed'[outgoingSequence']
                                /\ unsentFragmentStart' <= Length[unsentBuffer']
        <5>1. unsentFragments => Started = outgoingSequence
          BY DEF Started
        <5>2. unsentFragments => handed'[outgoingSequence] = handed[outgoingSequence]
          <6> SUFFICES ASSUME unsentFragments
                       PROVE  handed'[outgoingSequence] = handed[outgoingSequence]
            OBVIOUS
          <6>1. outgoingSequence \in 1 .. Started
            BY <5>1, <1>1
          <6> QED
            BY <6>1, <3>6
        <5> QED
          BY <5>2, <3>2, <1>1, Zenon DEF SendInv
      <4> QED
        BY <4>1, <4>2, <4>3, <4>4, <4>5 DEF SendInv
    <3>8. NetInv'
      BY <3>2, <3>3, <3>6, Zenon DEF IInv, NetInv
    <3>9. RebuiltInv' /\ ReceivedInv' /\ ReceivedStarted'
      BY <3>2, <3>3, <3>6, <1>1, <1>2, ReceiverStable DEF IInv
    <3> QED
      BY <3>5, <3>7, <3>8, <3>9 DEF IInv
  <2>4. CASE ~Busy /\ Netchan_Transmit(m) /\ UNCHANGED netchan_queue
    <3>1. ~unsentFragments /\ netchan_queue = <<>> /\ netchan_queue' = <<>>
      BY <2>4 DEF Busy
    <3>2. Len(netchan_queue) = 0 /\ Len(netchan_queue') = 0 /\ netchan_queue' \in Seq(Message)
      BY <3>1
    <3>3. /\ Len(handed') = Started + 1 + Len(netchan_queue')
          /\ \A i \in 1 .. Len(netchan_queue') : netchan_queue'[i] = handed'[Started + 1 + i]
          /\ handed'[Started + 1] = m
          /\ \A s \in 1 .. Started : handed'[s] = handed[s]
      BY <2>1, <2>2, <3>2, <1>2
    <3> QED
      BY <2>1, <2>4, <3>1, <3>2, <3>3, TransmitIInv
  <2> QED
    BY <2>3, <2>4, <1>3 DEF SV_Netchan_Transmit
<1>4. ASSUME SV_Netchan_TransmitNextFragment PROVE IInv'
  <2>1. handed' = handed
    BY <1>4 DEF SV_Netchan_TransmitNextFragment
  <2>2. CASE unsentFragments /\ Netchan_TransmitNextFragment /\ UNCHANGED netchan_queue
    BY <2>1, <2>2, FragmentIInv
  <2>3. CASE ~unsentFragments /\ netchan_queue # <<>> /\ SV_Netchan_TransmitNextInQueue
    <3> DEFINE m == Head(netchan_queue)
    <3>1. Netchan_Transmit(m) /\ netchan_queue' = Tail(netchan_queue)
      BY <2>3 DEF SV_Netchan_TransmitNextInQueue
    <3>2. /\ m \in Message
          /\ netchan_queue' \in Seq(Message)
          /\ Len(netchan_queue') = Len(netchan_queue) - 1
          /\ \A i \in 1 .. Len(netchan_queue') : netchan_queue'[i] = netchan_queue[i + 1]
      BY <2>3, <3>1, <1>1, HeadTailProperties
    <3>3. Len(netchan_queue) \in Nat \ {0} /\ m = netchan_queue[1]
      BY <2>3, <1>1
    <3>4. /\ Len(handed) = Started + Len(netchan_queue)
          /\ \A i \in 1 .. Len(netchan_queue) : netchan_queue[i] = handed[Started + i]
      BY <1>1 DEF SendInv
    <3>5. handed[Started + 1] = m
      BY <3>3, <3>4
    <3> HIDE DEF m
    <3>6. Len(handed) = Started + 1 + Len(netchan_queue')
      BY <3>2, <3>3, <3>4, <1>2
    <3>7. ASSUME NEW i \in 1 .. Len(netchan_queue')
          PROVE  netchan_queue'[i] = handed[Started + 1 + i]
      <4>1. i + 1 \in 1 .. Len(netchan_queue) /\ Started + (i + 1) = Started + 1 + i
        BY <3>2, <3>3, <1>2
      <4> QED
        BY <4>1, <3>2, <3>4
    <3> QED
      BY <2>1, <2>3, <3>1, <3>2, <3>5, <3>6, <3>7, <1>1, TransmitIInv
  <2> QED
    BY <2>2, <2>3, <1>4 DEF SV_Netchan_TransmitNextFragment
<1>5. ASSUME ReceiveDatagram PROVE IInv'
  BY <1>5, ReceiveIInv DEF ReceiveDatagram
<1>6. CASE UNCHANGED vars
  <2>1. /\ UNCHANGED <<outgoingSequence, unsentFragments, unsentFragmentStart, unsentBuffer>>
        /\ UNCHANGED <<incomingSequence, fragmentSequence, fragmentBuffer>>
        /\ UNCHANGED <<network, transmitted, received, netchan_queue, handed>>
    BY <1>6 DEF vars, chanvars, sender, receiver
  <2> QED
    BY <2>1, Zenon DEF IInv, TypeOK, ChanTypeOK, SendInv, NetInv, RebuiltInv, ReceivedInv,
                InOrder, ReceivedStarted, Started
<1> QED
  BY <1>3, <1>4, <1>5, <1>6 DEF Next

\* IInv holds in every reachable state, for any constants.
THEOREM Inductive == Spec => []IInv
<1>1. Init => IInv
  BY InitIInv
<1>2. IInv /\ [Next]_vars => IInv'
  BY StepIInv
<1> QED
  BY <1>1, <1>2, PTL DEF Spec

\* Every variable keeps its type.
THEOREM TypeCorrect == Spec => []TypeOK
BY Inductive, PTL DEF IInv

\* Integrity: a message handed up is byte for byte one that was transmitted
\* under that sequence number.
THEOREM ChannelIntegrity == Spec => []Integrity
<1>1. IInv => Integrity
  <2> SUFFICES ASSUME IInv, NEW i \in 1 .. Len(received)
               PROVE  \E m \in Message : /\ <<received[i].sequence, m>> \in transmitted
                                         /\ received[i].data = Content(m)
    BY DEF Integrity
  <2> DEFINE s == received[i].sequence
  <2>1. s \in 1 .. Started /\ received[i].data = Content(handed[s])
    BY DEF IInv, ReceivedStarted
  <2>2. <<s, handed[s]>> \in transmitted
    BY <2>1 DEF IInv, SendInv
  <2>3. handed[s] \in Message
    BY <2>2 DEF IInv, TypeOK, ChanTypeOK
  <2> QED
    BY <2>1, <2>2, <2>3
<1> QED
  BY <1>1, Inductive, PTL

\* No message is handed up twice or after a later one.
THEOREM ChannelOrder == Spec => []InOrder
<1>1. IInv => InOrder
  BY DEF IInv, ReceivedInv
<1> QED
  BY <1>1, Inductive, PTL

\* The messages that are started are among those handed over.
LEMMA StartedHanded == IInv => Started <= Len(handed)
<1> SUFFICES ASSUME IInv PROVE Started <= Len(handed)
  OBVIOUS
<1>1. outgoingSequence \in Nat \ {0} /\ netchan_queue \in Seq(Message)
  BY DEF IInv, TypeOK, ChanTypeOK
<1>2. Started = outgoingSequence \/ Started = outgoingSequence - 1
  BY DEF Started
<1>3. Len(handed) = Started + Len(netchan_queue)
  BY DEF IInv, SendInv
<1> QED
  BY <1>1, <1>2, <1>3

\* The message received under sequence n is the n-th one handed to
\* SV_Netchan_Transmit.
THEOREM ChannelSequence == Spec => []SequenceIsOrderHanded
<1>1. IInv => SequenceIsOrderHanded
  <2> SUFFICES ASSUME IInv, NEW i \in 1 .. Len(received)
               PROVE  /\ received[i].sequence \in 1 .. Len(handed)
                      /\ received[i].data = Content(handed[received[i].sequence])
    BY DEF SequenceIsOrderHanded
  <2>1. /\ received[i].sequence \in 1 .. Started
        /\ received[i].data = Content(handed[received[i].sequence])
    BY DEF IInv, ReceivedStarted
  <2>2. Started <= Len(handed) /\ Len(handed) \in Nat /\ Started \in Int
    <3>1. outgoingSequence \in Nat /\ handed \in Seq(Message)
      BY DEF IInv, TypeOK, ChanTypeOK
    <3>2. Started = outgoingSequence \/ Started = outgoingSequence - 1
      BY DEF Started
    <3> QED
      BY <3>1, <3>2, StartedHanded
  <2> QED
    BY <2>1, <2>2
<1> QED
  BY <1>1, Inductive, PTL

\* The detailed channel implements the abstract one.
THEOREM Refinement == Spec => ChannelSpec
<1> DEFINE S == [i \in 1 .. Len(handed) |-> Content(handed[i])]
<1>1. Init => Channel!Init
  BY DEF Init, Netchan_Setup, Channel!Init
<1>2. ASSUME IInv, [Next]_vars
      PROVE  [Channel!Next]_(Channel!vars)
  <2>1. handed \in Seq(Message) /\ Len(handed) \in Nat
    BY <1>2 DEF IInv, TypeOK
  <2>2. ASSUME NEW m \in Message, SV_Netchan_Transmit(m)
        PROVE  Channel!Send(Content(m))
    <3>1. /\ handed' = Append(handed, m) /\ Len(handed') = Len(handed) + 1
          /\ handed'[Len(handed) + 1] = m
          /\ \A s \in 1 .. Len(handed) : handed'[s] = handed[s]
      BY <2>1, <2>2 DEF SV_Netchan_Transmit
    <3>2. UNCHANGED <<received, incomingSequence>>
      BY <2>2 DEF SV_Netchan_Transmit, Netchan_Transmit, chanvars, receiver
    <3>3. S' = Append(S, Content(m))
      <4> DEFINE T == {Content(mm) : mm \in Message}
                 A == Append(S, Content(m))
      <4>1. S \in Seq(T) /\ Len(S) = Len(handed)
            /\ \A i \in 1 .. Len(handed) : S[i] = Content(handed[i])
        <5>1. \A i \in 1 .. Len(handed) : handed[i] \in Message
          BY <2>1
        <5>2. S \in [1 .. Len(handed) -> T]
          BY <5>1
        <5> QED
          BY <5>2, <2>1
      <4>2. S' \in Seq(T) /\ Len(S') = Len(handed) + 1
            /\ \A i \in 1 .. Len(handed) + 1 : S'[i] = Content(handed'[i])
        <5>1. \A i \in 1 .. Len(handed) + 1 : handed'[i] \in Message
          BY <3>1, <2>1
        <5>2. S' = [i \in 1 .. Len(handed) + 1 |-> Content(handed'[i])]
          BY <3>1 DEF Content, Bytes
        <5>3. S' \in [1 .. Len(handed) + 1 -> T]
          BY <5>1, <5>2
        <5> QED
          BY <5>2, <5>3, <2>1
      <4> HIDE DEF S
      <4>3. Content(m) \in T
        OBVIOUS
      <4>4. A \in Seq(T) /\ Len(A) = Len(handed) + 1
            /\ A[Len(handed) + 1] = Content(m)
            /\ \A i \in 1 .. Len(handed) : A[i] = S[i]
        BY <2>1, <4>1, <4>3
      <4>5. ASSUME NEW i \in 1 .. Len(handed) + 1 PROVE S'[i] = A[i]
        <5>1. CASE i = Len(handed) + 1
          BY <5>1, <3>1, <4>2, <4>4
        <5>2. CASE i # Len(handed) + 1
          <6>1. i \in 1 .. Len(handed)
            BY <5>2, <2>1
          <6> QED
            BY <6>1, <3>1, <4>1, <4>2, <4>4
        <5> QED
          BY <5>1, <5>2
      <4> QED
        BY <4>2, <4>4, <4>5, SeqEqual
    <3> QED
      BY <3>2, <3>3 DEF Channel!Send
  <2>3. ASSUME UNCHANGED handed, UNCHANGED <<incomingSequence, received>>
        PROVE  UNCHANGED Channel!vars
    BY <2>3 DEF Channel!vars, Content, Bytes
  <2>4. ASSUME SV_Netchan_TransmitNextFragment PROVE UNCHANGED Channel!vars
    <3>1. UNCHANGED handed /\ UNCHANGED <<incomingSequence, received>>
      BY <2>4 DEF SV_Netchan_TransmitNextFragment, SV_Netchan_TransmitNextInQueue,
                  Netchan_TransmitNextFragment, Netchan_Transmit, receiver
    <3> QED
      BY <3>1, <2>3
  <2>5. ASSUME ReceiveDatagram
        PROVE  \/ UNCHANGED Channel!vars
               \/ \E s \in 1 .. Len(handed) : Channel!Receive(s)
    <3>1. PICK p \in network : Netchan_Process(p)
      BY <2>5 DEF ReceiveDatagram
    <3>2. UNCHANGED handed
      BY <2>5 DEF ReceiveDatagram
    <3>3. CASE UNCHANGED <<incomingSequence, received>>
      BY <2>3, <3>2, <3>3
    <3>4. CASE IsNew(p) /\ Deliver(p.sequence, Content(handed[p.sequence]))
      <4>1. p.sequence \in 1 .. Len(handed)
        <5>1. p.sequence \in 1 .. Started /\ Started \in Nat /\ Started <= Len(handed)
          BY <1>2, PieceFacts
        <5> QED
          BY <5>1, <2>1
      <4>2. S[p.sequence] = Content(handed[p.sequence])
        BY <4>1
      <4>3. S' = S
        BY <3>2 DEF Content, Bytes
      <4>4. Channel!Receive(p.sequence)
        BY <3>4, <4>2, <4>3 DEF Channel!Receive, Deliver, IsNew
      <4> QED
        BY <4>1, <4>4
    <3> QED
      BY <1>2, <3>1, <3>3, <3>4, HandedUp
  <2>6. ASSUME UNCHANGED vars PROVE UNCHANGED Channel!vars
    <3>1. UNCHANGED handed /\ UNCHANGED <<incomingSequence, received>>
      BY <2>6 DEF vars, chanvars, receiver
    <3> QED
      BY <3>1, <2>3
  <2>7. Len(S) = Len(handed)
    BY <2>1
  <2> QED
    BY <1>2, <2>2, <2>4, <2>5, <2>6, <2>7 DEF Next, Channel!Next
<1> QED
  BY <1>1, <1>2, Inductive, PTL DEF Spec, ChannelSpec, Channel!Spec

-----------------------------------------------------------------------------
(* Gamestates and snapshots over the channel.                              *)

Said == [type : {"gamestate", "snapshot", "nop"}, id : Nat, lastframe : Int, base : Int]

UpperTypeOK ==
    /\ sv \in [serverId : Nat, restartedServerId : Nat, final : Nat]
    /\ client \in [state : {"CONNECTED", "PRIMED", "ACTIVE"}, gamestateMessageNum : Int,
                   serverIdAcknowledge : Nat, deltaMessage : Int]
    /\ frames \in [0 .. PACKET_BACKUP - 1 -> Int]
    /\ messages \in Seq(Said)
    /\ cl \in [serverId : Nat, snap : Nat, snaps : SUBSET Nat]
    /\ packet \in [id : Nat, ack : Nat, move : {"lost", "none", "move", "moveNoDelta"}]

\* The number of the message, and what it says, are those of the channel.
Numbered ==
    /\ Len(messages) = Len(handed)
    /\ incomingSequence <= Started

\* One message waits at most, and it is the last gamestate: the queue is empty
\* when a snapshot is sent, and a gamestate follows one that was received.
OneWaits ==
    Running => /\ Len(netchan_queue) <= 1
               /\ netchan_queue # <<>> => messages[Len(messages)].type = "gamestate"

\* So the number recorded is one too low at most.
RecordedAtMostOneLow ==
    \A k \in DOMAIN messages :
        messages[k].type = "gamestate" => k <= client.gamestateMessageNum + 1

IdsGrow ==
    /\ \A j, k \in DOMAIN messages : j <= k => messages[j].id <= messages[k].id
    /\ \A k \in DOMAIN messages : messages[k].id <= sv.serverId
    /\ cl.serverId <= sv.serverId
    /\ packet.id <= sv.serverId

\* A client that has received a gamestate knows its id, and says so in the
\* packets that acknowledge it.
KnowsGamestates ==
    \A i \in DOMAIN received :
        messages[received[i].sequence].type = "gamestate" =>
            /\ messages[received[i].sequence].id <= cl.serverId
            /\ received[i].sequence <= packet.ack =>
                  messages[received[i].sequence].id <= packet.id

UpperInv ==
    /\ IInv
    /\ UpperTypeOK
    /\ Numbered
    /\ OneWaits
    /\ RecordedAtMostOneLow
    /\ IdsGrow
    /\ KnowsGamestates
    /\ packet.ack <= incomingSequence

-----------------------------------------------------------------------------
IsSnapshot(n) == n \in DOMAIN messages /\ messages[n].type = "snapshot"

\* What the client has, and what it asks the server to take for a base.
BasesAreSnapshots ==
    /\ cl.snap # 0 => IsSnapshot(cl.snap)
    /\ packet.move = "move" => IsSnapshot(packet.ack)
    /\ client.deltaMessage > 0 => IsSnapshot(client.deltaMessage)
    /\ \A n \in cl.snaps : n \in 1 .. Started

\* A snapshot is in the frame of its number until the ring comes round.  The two
\* last rounds spoil this, but what they spoil it with is never sent.
FramesHold ==
    Running \/ ~Busy =>
        \A n \in DOMAIN messages :
            IsSnapshot(n) /\ outgoingSequence - n < PACKET_BACKUP
                => frames[Frame(n)] = n

BasesAgree ==
    \A n \in DOMAIN messages :
        (Running \/ n <= Started) /\ messages[n].lastframe # 0
        => messages[n].base = n - messages[n].lastframe

DeltaInv == BasesAreSnapshots /\ FramesHold /\ BasesAgree

-----------------------------------------------------------------------------
\* What the channel's invariant says of the numbers used here.
LEMMA ChannelFacts ==
    ASSUME IInv
    PROVE  /\ outgoingSequence \in Nat \ {0} /\ incomingSequence \in Nat /\ Started \in Nat
           /\ Started = IF unsentFragments THEN outgoingSequence ELSE outgoingSequence - 1
           /\ unsentFragments \in BOOLEAN
           /\ handed \in Seq(Message) /\ Len(handed) \in Nat
           /\ netchan_queue \in Seq(Message) /\ Len(netchan_queue) \in Nat
           /\ Len(handed) = Started + Len(netchan_queue)
           /\ received \in Seq([sequence : Nat, data : Seq(Byte)])
           /\ \A i \in DOMAIN received : /\ received[i].sequence \in 1 .. Started
                                         /\ received[i].sequence <= incomingSequence
<1>1. TypeOK /\ SendInv /\ ReceivedInv /\ ReceivedStarted
  BY DEF IInv
<1>2. /\ outgoingSequence \in Nat \ {0} /\ incomingSequence \in Nat
      /\ unsentFragments \in BOOLEAN
      /\ handed \in Seq(Message) /\ netchan_queue \in Seq(Message)
      /\ received \in Seq([sequence : Nat, data : Seq(Byte)])
  BY <1>1 DEF TypeOK, ChanTypeOK
<1>3. Started = IF unsentFragments THEN outgoingSequence ELSE outgoingSequence - 1
  BY DEF Started
<1>4. Started \in Nat
  BY <1>2, <1>3
<1>5. Len(handed) \in Nat /\ Len(netchan_queue) \in Nat /\ DOMAIN received = 1 .. Len(received)
  BY <1>2
<1> QED
  BY <1>1, <1>2, <1>3, <1>4, <1>5 DEF SendInv, ReceivedInv, ReceivedStarted

\* What handing a message over does to the channel.
HandedOver ==
    /\ IInv'
    /\ Len(handed') = Len(handed) + 1
    /\ UNCHANGED <<incomingSequence, received>>
    /\ Started' \in Nat /\ Started <= Started'
    /\ Busy => /\ Started' = Started /\ UNCHANGED outgoingSequence
               /\ Len(netchan_queue') = Len(netchan_queue) + 1
    /\ ~Busy => netchan_queue = <<>> /\ netchan_queue' = <<>>

\* What handing a message over does, while others wait and while none does.
LEMMA HandOver ==
    ASSUME IInv, NEW m \in Message, SV_Netchan_Transmit(m)
    PROVE  HandedOver
<1>1. IInv'
  <2>1. Next
    BY DEF Next
  <2> QED
    BY <2>1, StepIInv
<1>2. Len(handed') = Len(handed) + 1
  BY ChannelFacts DEF SV_Netchan_Transmit
<1>3. UNCHANGED <<incomingSequence, received>>
  BY DEF SV_Netchan_Transmit, Netchan_Transmit, chanvars, receiver
<1>4. CASE Busy
  <2>1. /\ netchan_queue' = Append(netchan_queue, m)
        /\ UNCHANGED <<outgoingSequence, unsentFragments>>
    BY <1>4 DEF SV_Netchan_Transmit, chanvars, sender
  <2>2. Started' = Started
    BY <2>1 DEF Started
  <2>3. Len(netchan_queue') = Len(netchan_queue) + 1
    BY <2>1, ChannelFacts
  <2> QED
    BY <1>1, <1>2, <1>3, <1>4, <2>1, <2>2, <2>3, ChannelFacts DEF HandedOver
<1>5. CASE ~Busy
  <2>1. netchan_queue = <<>> /\ netchan_queue' = <<>>
    BY <1>5 DEF SV_Netchan_Transmit, Busy
  <2>2. Started \in Nat /\ Started' \in Nat /\ Len(handed) = Started /\ Len(handed') = Started'
    <3>1. /\ Started \in Nat /\ Len(handed) = Started + Len(netchan_queue)
      BY ChannelFacts
    <3>2. Started' \in Nat /\ Len(handed') = Started' + Len(netchan_queue')
      <4>1. TypeOK' /\ SendInv'
        BY <1>1 DEF IInv
      <4>2. outgoingSequence' \in Nat \ {0}
        BY <4>1 DEF TypeOK, ChanTypeOK
      <4>3. Started' = outgoingSequence' \/ Started' = outgoingSequence' - 1
        BY DEF Started
      <4>4. Started' \in Nat
        BY <4>2, <4>3
      <4> QED
        BY <4>1, <4>4 DEF SendInv
    <3>3. Len(netchan_queue) = 0 /\ Len(netchan_queue') = 0
      BY <2>1
    <3>4. Started \in Nat /\ Len(handed) = Started
      BY <3>1, <3>3
    <3>5. Started' \in Nat /\ Len(handed') = Started'
      <4>1. \A x \in Nat : \A y, z : y = x + z /\ z = 0 => y = x
        OBVIOUS
      <4> QED
        BY <4>1, <3>2, <3>3
    <3> QED
      BY <3>4, <3>5
  <2> QED
    BY <1>1, <1>2, <1>3, <1>5, <2>1, <2>2 DEF HandedOver
<1> QED
  BY <1>4, <1>5

\* A message handed up is new, and one that was sent.
LEMMA HandUp ==
    ASSUME IInv, ReceiveDatagram
    PROVE  /\ IInv'
           /\ UNCHANGED <<sender, netchan_queue, handed>>
           /\ Started' = Started
           /\ \/ UNCHANGED <<incomingSequence, received>>
              \/ \E n \in 1 .. Started :
                    /\ n > incomingSequence
                    /\ incomingSequence' = n
                    /\ \E d \in Seq(Byte) :
                          received' = Append(received, [sequence |-> n, data |-> d])
<1>1. IInv'
  <2>1. Next
    BY DEF Next
  <2> QED
    BY <2>1, StepIInv
<1>2. PICK p \in network : Netchan_Process(p)
  BY DEF ReceiveDatagram
<1>3. UNCHANGED <<sender, netchan_queue, handed>>
  BY <1>2 DEF ReceiveDatagram, Netchan_Process
<1>4. Started' = Started
  BY <1>3 DEF Started, sender
<1>5. p.sequence \in 1 .. Started
  BY DEF IInv, NetInv
<1>6. \/ UNCHANGED <<incomingSequence, received>>
      \/ IsNew(p) /\ Deliver(p.sequence, Content(handed[p.sequence]))
  BY <1>2, HandedUp
<1>7. Content(handed[p.sequence]) \in Seq(Byte)
  <2>1. handed[p.sequence] \in Message /\ Length[handed[p.sequence]] \in Nat
    BY PieceFacts
  <2> QED
    BY <2>1, BytesType DEF Content
<1> QED
  BY <1>1, <1>3, <1>4, <1>5, <1>6, <1>7 DEF IsNew, Deliver


-----------------------------------------------------------------------------
(* Messages.                                                               *)

\* A message that says says, of the map the server runs, is handed over.
Hands(says) ==
    /\ HandedOver
    /\ messages' = Append(messages, says)
    /\ says \in Said
    /\ says.id = sv.serverId

\* The types and bounds that the proofs below use.
LEMMA UpperTypes ==
    ASSUME UpperInv
    PROVE  /\ sv.serverId \in Nat /\ sv.final \in Nat
           /\ client.gamestateMessageNum \in Int
           /\ messages \in Seq(Said) /\ Len(messages) \in Nat
           /\ Len(messages) = Len(handed)
           /\ \A k \in 1 .. Len(messages) : messages[k] \in Said /\ messages[k].id \in Nat
           /\ cl.serverId \in Nat /\ packet.id \in Nat /\ packet.ack \in Nat
           /\ packet.ack <= incomingSequence /\ incomingSequence <= Started
<1>1. messages \in Seq(Said)
  BY DEF UpperInv, UpperTypeOK
<1>2. \A k \in 1 .. Len(messages) : messages[k] \in Said /\ messages[k].id \in Nat
  <2> SUFFICES ASSUME NEW k \in 1 .. Len(messages)
               PROVE  messages[k] \in Said /\ messages[k].id \in Nat
    OBVIOUS
  <2>1. messages[k] \in Said
    BY <1>1
  <2> QED
    BY <2>1 DEF Said
<1>3. Len(messages) \in Nat
  BY <1>1
<1>4. /\ sv \in [serverId : Nat, restartedServerId : Nat, final : Nat]
      /\ client \in [state : {"CONNECTED", "PRIMED", "ACTIVE"}, gamestateMessageNum : Int,
                     serverIdAcknowledge : Nat, deltaMessage : Int]
      /\ cl \in [serverId : Nat, snap : Nat, snaps : SUBSET Nat]
      /\ packet \in [id : Nat, ack : Nat, move : {"lost", "none", "move", "moveNoDelta"}]
  BY DEF UpperInv, UpperTypeOK
<1>5. /\ Len(messages) = Len(handed) /\ incomingSequence <= Started
      /\ packet.ack <= incomingSequence
  BY DEF UpperInv, Numbered
<1>6. /\ sv.serverId \in Nat /\ sv.final \in Nat
      /\ client.gamestateMessageNum \in Int
      /\ cl.serverId \in Nat /\ packet.id \in Nat /\ packet.ack \in Nat
  BY <1>4
<1> QED
  BY <1>1, <1>2, <1>3, <1>5, <1>6

\* The message is the last of those handed over, and the others stay.
LEMMA HandsMessages ==
    ASSUME UpperInv, NEW says, Hands(says)
    PROVE  /\ messages' \in Seq(Said) /\ Len(messages') = Len(messages) + 1
           /\ \A k \in 1 .. Len(messages) : messages'[k] = messages[k]
           /\ messages'[Len(messages) + 1] = says
           /\ Last(messages') = says
           /\ Numbered'
<1>1. messages \in Seq(Said) /\ says \in Said /\ messages' = Append(messages, says)
  BY UpperTypes DEF Hands
<1>2. /\ messages' \in Seq(Said) /\ Len(messages') = Len(messages) + 1
      /\ \A k \in 1 .. Len(messages) : messages'[k] = messages[k]
      /\ messages'[Len(messages) + 1] = says
  BY <1>1
<1>3. Last(messages') = says
  BY <1>2 DEF Last
<1>4. Numbered'
  <2>1. Len(messages') = Len(handed')
    BY <1>2, UpperTypes DEF Hands, HandedOver
  <2>2. \A a, b, c \in Nat : a <= b /\ b <= c => a <= c
    OBVIOUS
  <2>3. incomingSequence <= Started'
    BY <2>2, ChannelFacts DEF UpperInv, Numbered, Hands, HandedOver
  <2> QED
    BY <2>1, <2>3 DEF Numbered, Hands, HandedOver
<1> QED
  BY <1>2, <1>3, <1>4

\* Ids grow with the messages, and what the client knows stays known.
LEMMA HandsIds ==
    ASSUME UpperInv, NEW says, Hands(says),
           sv'.serverId = sv.serverId, UNCHANGED cl, packet' \in {packet, NoPacket}
    PROVE  IdsGrow' /\ KnowsGamestates' /\ packet'.ack <= incomingSequence'
<1> DEFINE N == Len(messages)
<1>1. /\ N \in Nat /\ Len(messages') = N + 1 /\ messages' \in Seq(Said)
      /\ \A k \in 1 .. N : messages'[k] = messages[k] /\ messages[k].id \in Nat
      /\ messages'[N + 1] = says /\ says.id = sv.serverId /\ sv.serverId \in Nat
  BY HandsMessages, UpperTypes DEF Hands
<1>2. /\ \A j, k \in 1 .. N : j <= k => messages[j].id <= messages[k].id
      /\ \A k \in 1 .. N : messages[k].id <= sv.serverId
      /\ cl.serverId <= sv.serverId /\ packet.id <= sv.serverId
  BY <1>1, UpperTypes DEF UpperInv, IdsGrow
<1>3. /\ packet'.ack <= incomingSequence' /\ packet'.id <= sv'.serverId
      /\ packet' # packet => packet'.ack = 0
  BY <1>1, <1>2, ChannelFacts, UpperTypes DEF UpperInv, NoPacket, Hands, HandedOver
<1>4. IdsGrow'
  <2>1. \A j, k \in 1 .. N + 1 : j <= k => messages'[j].id <= messages'[k].id
    BY <1>1, <1>2
  <2>2. \A k \in 1 .. N + 1 : messages'[k].id <= sv'.serverId
    BY <1>1, <1>2
  <2>3. DOMAIN messages' = 1 .. N + 1
    BY <1>1
  <2> QED
    BY <2>1, <2>2, <2>3, <1>2, <1>3 DEF IdsGrow
<1>5. KnowsGamestates'
  <2> SUFFICES ASSUME NEW i \in DOMAIN received,
                      messages'[received[i].sequence].type = "gamestate"
               PROVE  /\ messages'[received[i].sequence].id <= cl.serverId
                      /\ received[i].sequence <= packet'.ack =>
                            messages'[received[i].sequence].id <= packet'.id
    BY DEF KnowsGamestates, Hands, HandedOver
  <2> DEFINE n == received[i].sequence
  <2>1. n \in 1 .. N
    <3>1. n \in 1 .. Started /\ Started \in Nat
      BY ChannelFacts DEF UpperInv
    <3>2. N = Started + Len(netchan_queue) /\ Len(netchan_queue) \in Nat
      <4>1. IInv
        BY DEF UpperInv
      <4> QED
        BY <4>1, ChannelFacts, UpperTypes
    <3> HIDE DEF n, N
    <3> QED
      BY <3>1, <3>2
  <2>2. messages'[n] = messages[n]
    BY <2>1, <1>1
  <2>3. /\ messages[n].id <= cl.serverId
        /\ n <= packet.ack => messages[n].id <= packet.id
    BY <2>2 DEF UpperInv, KnowsGamestates
  <2>4. n \in Nat \ {0}
    BY <2>1, <1>1
  <2>5. CASE packet' = packet
    BY <2>2, <2>3, <2>5
  <2>6. CASE packet' # packet
    BY <2>2, <2>3, <2>4, <2>6, <1>3
  <2> QED
    BY <2>5, <2>6
<1> QED
  BY <1>3, <1>4, <1>5


-----------------------------------------------------------------------------
(* Snapshots.                                                              *)

\* Every number has a frame.
LEMMA FrameInRing ==
    ASSUME NEW n \in Int
    PROVE  Frame(n) \in 0 .. PACKET_BACKUP - 1
<1>1. PACKET_BACKUP \in Nat /\ PACKET_BACKUP > 0
  BY ServerMessagesAssumption
<1> QED
  BY <1>1 DEF Frame

\* What a snapshot says of its base.
DeltaIn(says) ==
    says.lastframe # 0 =>
        /\ DeltaSource # 0
        /\ says.lastframe = outgoingSequence - DeltaSource
        /\ says.base = frames[Frame(DeltaSource)]

\* A snapshot or a nop is handed over, and the frame that is filled is in the ring.
LEMMA SnapshotSays ==
    ASSUME UpperInv, SV_SendClientSnapshot
    PROVE  /\ frames' \in [0 .. PACKET_BACKUP - 1 -> Int]
           /\ \E says : Hands(says) /\ says.type \in {"snapshot", "nop"} /\ DeltaIn(says)
<1>1. /\ frames \in [0 .. PACKET_BACKUP - 1 -> Int] /\ client.deltaMessage \in Int
      /\ outgoingSequence \in Int /\ sv.serverId \in Nat /\ Len(messages) \in Nat /\ IInv
  <2>1. IInv
    BY DEF UpperInv
  <2>2. frames \in [0 .. PACKET_BACKUP - 1 -> Int] /\ client.deltaMessage \in Int
    BY DEF UpperInv, UpperTypeOK
  <2>3. outgoingSequence \in Int
    BY <2>1, ChannelFacts
  <2> QED
    BY <2>1, <2>2, <2>3, UpperTypes
<1>2. frames' \in [0 .. PACKET_BACKUP - 1 -> Int]
  <2>1. frames' = [frames EXCEPT ![Frame(outgoingSequence)] = Len(messages) + 1]
    BY DEF SV_SendClientSnapshot
  <2>2. Len(messages) + 1 \in Int
    BY <1>1
  <2> QED
    BY <1>1, <2>1, <2>2
<1>3. DeltaSource \in Int
  BY <1>1 DEF DeltaSource
<1>4. frames[Frame(DeltaSource)] \in Int
  BY <1>1, <1>3, FrameInRing
<1>5. Snapshots \subseteq Message /\ Nops \subseteq Message
  BY ServerMessagesAssumption
<1>6. CASE client.serverIdAcknowledge \in {sv.serverId, sv.restartedServerId}
  <2> DEFINE says == [type |-> "snapshot", id |-> sv.serverId,
                      lastframe |-> IF DeltaSource = 0 THEN 0 ELSE outgoingSequence - DeltaSource,
                      base |-> IF DeltaSource = 0 THEN 0 ELSE frames[Frame(DeltaSource)]]
  <2>1. Hand(Snapshots, says)
    BY <1>6 DEF SV_SendClientSnapshot
  <2>2. says \in Said
    <3>1. (IF DeltaSource = 0 THEN 0 ELSE outgoingSequence - DeltaSource) \in Int
      BY <1>1, <1>3
    <3>2. (IF DeltaSource = 0 THEN 0 ELSE frames[Frame(DeltaSource)]) \in Int
      BY <1>4
    <3> HIDE DEF DeltaSource
    <3> QED
      BY <1>1, <3>1, <3>2 DEF Said
  <2>3. HandedOver /\ messages' = Append(messages, says)
    BY <1>1, <1>5, <2>1, HandOver DEF Hand
  <2>4. Hands(says) /\ says.type \in {"snapshot", "nop"}
    BY <2>2, <2>3 DEF Hands
  <2>5. DeltaIn(says)
    BY DEF DeltaIn
  <2> HIDE DEF says
  <2> QED
    BY <2>4, <2>5, <1>2
<1>7. CASE client.serverIdAcknowledge \notin {sv.serverId, sv.restartedServerId}
  <2> DEFINE says == [type |-> "nop", id |-> sv.serverId, lastframe |-> 0, base |-> 0]
  <2>1. Hand(Nops, says)
    BY <1>7 DEF SV_SendClientSnapshot
  <2>2. says \in Said
    BY <1>1 DEF Said
  <2>3. HandedOver /\ messages' = Append(messages, says)
    BY <1>1, <1>5, <2>1, HandOver DEF Hand
  <2>4. Hands(says) /\ says.type \in {"snapshot", "nop"} /\ DeltaIn(says)
    BY <2>2, <2>3 DEF Hands, DeltaIn
  <2> HIDE DEF says
  <2> QED
    BY <2>4, <1>2
<1> QED
  BY <1>6, <1>7

\* A snapshot leaves the number of the last gamestate as it is.
LEMMA SnapshotUpperInv ==
    ASSUME UpperInv, SV_SendClientSnapshot, UNCHANGED <<client, cl, packet>>,
           sv' \in [serverId : Nat, restartedServerId : Nat, final : Nat],
           sv'.serverId = sv.serverId,
           Running' => Running /\ ~Busy
    PROVE  UpperInv'
<1> DEFINE N == Len(messages)
<1>1. PICK says : Hands(says) /\ says.type \in {"snapshot", "nop"}
  BY SnapshotSays
<1>2. /\ messages' \in Seq(Said) /\ Len(messages') = N + 1 /\ N \in Nat
      /\ \A k \in 1 .. N : messages'[k] = messages[k]
      /\ messages'[N + 1] = says
      /\ DOMAIN messages = 1 .. N /\ DOMAIN messages' = 1 .. N + 1
      /\ Numbered'
  BY <1>1, HandsMessages, UpperTypes
<1>3. UpperTypeOK'
  BY <1>2, SnapshotSays DEF UpperInv, UpperTypeOK
<1>4. OneWaits'
  BY <1>1 DEF OneWaits, Hands, HandedOver
<1>5. RecordedAtMostOneLow'
  <2> SUFFICES ASSUME NEW k \in DOMAIN messages', messages'[k].type = "gamestate"
               PROVE  k <= client.gamestateMessageNum + 1
    BY DEF RecordedAtMostOneLow
  <2>1. k \in 1 .. N
    BY <1>1, <1>2
  <2> QED
    BY <2>1, <1>2 DEF UpperInv, RecordedAtMostOneLow
<1>6. IdsGrow' /\ KnowsGamestates' /\ packet'.ack <= incomingSequence'
  BY <1>1, HandsIds
<1> QED
  BY <1>1, <1>2, <1>3, <1>4, <1>5, <1>6 DEF UpperInv, Hands, HandedOver

-----------------------------------------------------------------------------
(* Gamestates.                                                             *)

\* A gamestate follows one that was received: nothing waits, and every earlier
\* gamestate is older than the last message the packet acknowledges.
LEMMA GamestateFollows ==
    ASSUME UpperInv, Running, packet # NoPacket, Dropped(packet)
    PROVE  /\ netchan_queue = <<>>
           /\ \A k \in DOMAIN messages :
                 messages[k].type = "gamestate" => k <= packet.ack
<1> DEFINE N == Len(messages)
<1>1. /\ N \in Nat /\ client.gamestateMessageNum \in Int /\ packet.ack \in Nat
      /\ packet.ack > client.gamestateMessageNum
      /\ packet.ack <= incomingSequence /\ incomingSequence <= Started
      /\ Started \in Nat /\ incomingSequence \in Nat
      /\ Len(netchan_queue) \in Nat /\ N = Started + Len(netchan_queue)
      /\ netchan_queue \in Seq(Message) /\ DOMAIN messages = 1 .. N
  BY UpperTypes, ChannelFacts DEF UpperInv, Dropped
<1>2. \A k \in DOMAIN messages : messages[k].type = "gamestate" => k <= packet.ack
  <2> SUFFICES ASSUME NEW k \in DOMAIN messages, messages[k].type = "gamestate"
               PROVE  k <= packet.ack
    OBVIOUS
  <2>1. k <= client.gamestateMessageNum + 1 /\ k \in Nat
    BY <1>1 DEF UpperInv, RecordedAtMostOneLow
  <2> QED
    BY <2>1, <1>1
<1>3. netchan_queue = <<>>
  <2> SUFFICES ASSUME netchan_queue # <<>> PROVE FALSE
    OBVIOUS
  <2>1. Len(netchan_queue) > 0
    BY <1>1, EmptySeq
  <2>2. N \in DOMAIN messages /\ N > Started
    BY <1>1, <2>1
  <2>3. N <= packet.ack
    BY <1>2, <2>2 DEF UpperInv, OneWaits
  <2> QED
    BY <1>1, <2>2, <2>3
<1> QED
  BY <1>2, <1>3

\* A move leaves the number of the last gamestate alone.
LEMMA MovedType ==
    ASSUME UpperTypeOK, NEW c \in [state : {"CONNECTED", "PRIMED", "ACTIVE"},
                                   gamestateMessageNum : Int,
                                   serverIdAcknowledge : Nat, deltaMessage : Int]
    PROVE  /\ Moved(c, packet) \in [state : {"CONNECTED", "PRIMED", "ACTIVE"},
                                   gamestateMessageNum : Int,
                                   serverIdAcknowledge : Nat, deltaMessage : Int]
           /\ Moved(c, packet).gamestateMessageNum = c.gamestateMessageNum
<1>1. packet.ack \in Int
  BY DEF UpperTypeOK
<1>2. CASE packet.move = "none"
  BY <1>2 DEF Moved
<1>3. CASE packet.move # "none"
  <2> DEFINE s == IF c.state = "PRIMED" THEN "ACTIVE" ELSE c.state
             d == IF packet.move = "move" /\ c.state = "ACTIVE" THEN packet.ack ELSE -1
  <2>1. s \in {"CONNECTED", "PRIMED", "ACTIVE"} /\ d \in Int
    BY <1>1
  <2>2. Moved(c, packet) = [c EXCEPT !.state = s, !.deltaMessage = d]
    BY <1>3 DEF Moved
  <2> HIDE DEF s, d
  <2> QED
    BY <2>1, <2>2
<1> QED
  BY <1>2, <1>3

\* A gamestate that waits is the only message that does, and the number recorded
\* for it is that of the message before it.
LEMMA SendGameStateUpperInv ==
    ASSUME UpperInv, Running, packet # NoPacket, Dropped(packet),
           SV_SendClientGameState([client EXCEPT !.serverIdAcknowledge = packet.id]),
           packet' = NoPacket, UNCHANGED <<sv, frames, cl>>
    PROVE  UpperInv'
<1> DEFINE N == Len(messages)
           says == [type |-> "gamestate", id |-> sv.serverId, lastframe |-> 0, base |-> 0]
<1>1. Hands(says)
  <2>1. Gamestates \subseteq Message /\ IInv
    BY ServerMessagesAssumption DEF UpperInv
  <2>2. HandedOver /\ messages' = Append(messages, says)
    BY <2>1, HandOver DEF SV_SendClientGameState, Hand
  <2> QED
    BY <2>2, UpperTypes DEF Hands, Said
<1>2. /\ messages' \in Seq(Said) /\ Len(messages') = N + 1 /\ N \in Nat
      /\ \A k \in 1 .. N : messages'[k] = messages[k]
      /\ messages'[N + 1] = says
      /\ DOMAIN messages = 1 .. N /\ DOMAIN messages' = 1 .. N + 1
      /\ Numbered'
  BY <1>1, HandsMessages, UpperTypes
<1>3. /\ client' = [client EXCEPT !.serverIdAcknowledge = packet.id, !.state = "PRIMED",
                                  !.gamestateMessageNum = outgoingSequence]
      /\ outgoingSequence \in Nat /\ packet.id \in Nat
      /\ outgoingSequence = Started \/ outgoingSequence = Started + 1
      /\ N = Started + Len(netchan_queue) /\ Started \in Nat
  BY UpperTypes, ChannelFacts DEF SV_SendClientGameState, GamestateNum, UpperInv
<1>4. UpperTypeOK'
  <2>1. client' \in [state : {"CONNECTED", "PRIMED", "ACTIVE"}, gamestateMessageNum : Int,
                     serverIdAcknowledge : Nat, deltaMessage : Int]
    <3>1. client \in [state : {"CONNECTED", "PRIMED", "ACTIVE"}, gamestateMessageNum : Int,
                      serverIdAcknowledge : Nat, deltaMessage : Int]
      BY DEF UpperInv, UpperTypeOK
    <3>2. outgoingSequence \in Int
      BY <1>3
    <3> QED
      BY <1>3, <3>1, <3>2
  <2> QED
    BY <1>2, <2>1 DEF UpperInv, UpperTypeOK, NoPacket
<1>5. netchan_queue = <<>>
  BY GamestateFollows
<1>6. OneWaits'
  <2>1. messages'[Len(messages')].type = "gamestate"
    BY <1>2
  <2>2. Len(netchan_queue') <= 1
    <3>1. Len(netchan_queue) = 0
      BY <1>5
    <3>2. CASE Busy
      <4>1. HandedOver
        BY <1>1 DEF Hands
      <4>2. Len(netchan_queue') = Len(netchan_queue) + 1
        BY <4>1, <3>2 DEF HandedOver
      <4> QED
        BY <4>2, <3>1
    <3>3. CASE ~Busy
      <4>1. netchan_queue' = <<>>
        BY <1>1, <3>3 DEF Hands, HandedOver
      <4> QED
        BY <4>1
    <3> QED
      BY <3>2, <3>3
  <2> QED
    BY <2>1, <2>2 DEF OneWaits
<1>7. RecordedAtMostOneLow'
  <2>1. N = Started
    BY <1>3, <1>5
  <2>2. client'.gamestateMessageNum = outgoingSequence
    BY <1>3 DEF UpperInv, UpperTypeOK
  <2>3. \A k \in 1 .. N + 1 : k <= outgoingSequence + 1
    BY <1>2, <1>3, <2>1
  <2> QED
    BY <1>2, <2>2, <2>3 DEF RecordedAtMostOneLow
<1>8. IdsGrow' /\ KnowsGamestates' /\ packet'.ack <= incomingSequence'
  BY <1>1, HandsIds
<1> QED
  BY <1>1, <1>2, <1>4, <1>6, <1>7, <1>8 DEF UpperInv, Hands, HandedOver

-----------------------------------------------------------------------------
(* The steps.                                                              *)

\* A fragment or the message that waits goes out.
LEMMA SendsQueued ==
    ASSUME IInv, SV_Netchan_TransmitNextFragment
    PROVE  /\ IInv'
           /\ UNCHANGED <<handed, incomingSequence, received>>
           /\ Started' \in Nat /\ Started <= Started'
           /\ Len(netchan_queue') <= Len(netchan_queue)
           /\ netchan_queue' # <<>> => netchan_queue # <<>>
<1>1. IInv'
  <2>1. Next
    BY DEF Next
  <2> QED
    BY <2>1, StepIInv
<1>2. UNCHANGED <<handed, incomingSequence, received>>
  BY DEF SV_Netchan_TransmitNextFragment, SV_Netchan_TransmitNextInQueue,
         Netchan_TransmitNextFragment, Netchan_Transmit, receiver
<1>3. /\ netchan_queue \in Seq(Message) /\ Len(netchan_queue) \in Nat
      /\ Started \in Nat /\ Len(handed) = Started + Len(netchan_queue)
  BY ChannelFacts
<1>4. \/ netchan_queue' = netchan_queue
      \/ netchan_queue # <<>> /\ netchan_queue' = Tail(netchan_queue)
  BY DEF SV_Netchan_TransmitNextFragment, SV_Netchan_TransmitNextInQueue
<1>5. /\ Len(netchan_queue') \in Nat /\ Len(netchan_queue') <= Len(netchan_queue)
      /\ netchan_queue' # <<>> => netchan_queue # <<>>
  BY <1>3, <1>4
<1>6. Started' \in Nat /\ Len(handed) = Started' + Len(netchan_queue')
  <2>1. TypeOK' /\ SendInv'
    BY <1>1 DEF IInv
  <2>2. outgoingSequence' \in Nat \ {0}
    BY <2>1 DEF TypeOK, ChanTypeOK
  <2>3. Started' = outgoingSequence' \/ Started' = outgoingSequence' - 1
    BY DEF Started
  <2>4. Started' \in Nat
    BY <2>2, <2>3
  <2> QED
    BY <1>2, <2>1, <2>4 DEF SendInv
<1>7. Started <= Started'
  <2>1. \A a, b, c, d, e \in Nat : e = a + b /\ e = c + d /\ d <= b => a <= c
    OBVIOUS
  <2>2. Len(handed) \in Nat
    BY ChannelFacts
  <2> QED
    BY <1>3, <1>5, <1>6, <2>1, <2>2
<1> QED
  BY <1>1, <1>2, <1>5, <1>6, <1>7

\* Sending what waits gives no message another number.
LEMMA SendQueuedUpperInv == UpperInv /\ SV_SendQueuedMessages => UpperInv'
<1> SUFFICES ASSUME UpperInv, SV_SendQueuedMessages PROVE UpperInv'
  OBVIOUS
<1>1. /\ IInv'
      /\ UNCHANGED <<handed, incomingSequence, received, sv, client, frames, messages, cl, packet>>
      /\ Started' \in Nat /\ Started <= Started'
      /\ Len(netchan_queue') <= Len(netchan_queue)
      /\ netchan_queue' # <<>> => netchan_queue # <<>>
  BY SendsQueued DEF SV_SendQueuedMessages, UpperInv, upper
<1>2. Numbered'
  <2>1. \A a, b, c \in Nat : a <= b /\ b <= c => a <= c
    OBVIOUS
  <2>2. incomingSequence <= Started'
    BY <1>1, <2>1, ChannelFacts DEF UpperInv, Numbered
  <2> QED
    BY <1>1, <2>2 DEF UpperInv, Numbered
<1>3. OneWaits'
  <2>1. Running
    BY DEF SV_SendQueuedMessages
  <2>2. /\ Len(netchan_queue) \in Nat /\ Len(netchan_queue) <= 1
        /\ Len(netchan_queue') \in Nat
    <3>1. TypeOK'
      BY <1>1 DEF IInv
    <3>2. netchan_queue' \in Seq(Message)
      BY <3>1 DEF TypeOK
    <3> QED
      BY <2>1, <3>2, ChannelFacts DEF UpperInv, OneWaits
  <2>3. Len(netchan_queue') <= 1
    BY <1>1, <2>2
  <2> QED
    BY <1>1, <2>1, <2>3 DEF UpperInv, OneWaits
<1> QED
  BY <1>1, <1>2, <1>3
     DEF UpperInv, UpperTypeOK, RecordedAtMostOneLow, IdsGrow, KnowsGamestates

\* Steps that leave the channel alone.
LEMMA ChannelStays ==
    ASSUME UpperInv, UNCHANGED <<vars, messages>>
    PROVE  /\ IInv' /\ Numbered'
           /\ UNCHANGED <<handed, received, incomingSequence, netchan_queue>>
<1>1. UNCHANGED <<outgoingSequence, unsentFragments, handed, received, incomingSequence,
                  netchan_queue>>
  BY DEF vars, chanvars, sender, receiver
<1>2. IInv'
  BY StepIInv DEF UpperInv
<1> QED
  BY <1>1, <1>2 DEF UpperInv, Numbered, Started

\* A new map has a greater id than all messages so far.
LEMMA SpawnUpperInv == UpperInv /\ SV_SpawnServer => UpperInv'
<1> SUFFICES ASSUME UpperInv, SV_SpawnServer PROVE UpperInv'
  OBVIOUS
<1>1. IInv' /\ Numbered' /\ UNCHANGED <<handed, received, incomingSequence, netchan_queue>>
  BY ChannelStays DEF SV_SpawnServer
<1>2. /\ UNCHANGED <<messages, cl, packet, frames>>
      /\ sv' \in [serverId : Nat, restartedServerId : Nat, final : Nat]
      /\ sv'.serverId = sv.serverId + 1
      /\ client' \in [state : {"CONNECTED", "PRIMED", "ACTIVE"}, gamestateMessageNum : Int,
                      serverIdAcknowledge : Nat, deltaMessage : Int]
      /\ client'.gamestateMessageNum = client.gamestateMessageNum
      /\ Running
  <2>1. /\ sv \in [serverId : Nat, restartedServerId : Nat, final : Nat]
        /\ client \in [state : {"CONNECTED", "PRIMED", "ACTIVE"}, gamestateMessageNum : Int,
                       serverIdAcknowledge : Nat, deltaMessage : Int]
        /\ sv.serverId + 1 \in Nat /\ -1 \in Int
    BY DEF UpperInv, UpperTypeOK
  <2>2. CASE /\ sv' = [sv EXCEPT !.serverId = @ + 1, !.restartedServerId = sv.serverId + 1]
             /\ client' = [client EXCEPT !.state = "CONNECTED"]
    BY <2>1, <2>2 DEF SV_SpawnServer
  <2>3. CASE /\ sv' = [sv EXCEPT !.serverId = @ + 1, !.restartedServerId = sv.serverId]
             /\ client' = [client EXCEPT !.state = "ACTIVE", !.deltaMessage = -1]
    BY <2>1, <2>3 DEF SV_SpawnServer
  <2> QED
    BY <2>2, <2>3 DEF SV_SpawnServer
<1>3. UpperTypeOK'
  BY <1>2 DEF UpperInv, UpperTypeOK
<1>4. OneWaits' /\ RecordedAtMostOneLow' /\ KnowsGamestates' /\ packet'.ack <= incomingSequence'
  BY <1>1, <1>2 DEF UpperInv, OneWaits, RecordedAtMostOneLow, KnowsGamestates
<1>5. IdsGrow'
  <2>1. /\ sv.serverId \in Nat /\ cl.serverId \in Nat /\ packet.id \in Nat
        /\ \A k \in DOMAIN messages : messages[k].id \in Nat
        /\ sv'.serverId = sv.serverId + 1
    BY <1>2, UpperTypes
  <2>2. \A x \in Nat : x <= sv.serverId => x <= sv'.serverId
    BY <2>1
  <2> QED
    BY <1>2, <2>1, <2>2 DEF UpperInv, IdsGrow
<1> QED
  BY <1>1, <1>3, <1>4, <1>5 DEF UpperInv

\* A packet of the client moves it, or has a gamestate sent.
LEMMA ExecuteUpperInv == UpperInv /\ SV_ExecuteClientMessage => UpperInv'
<1> SUFFICES ASSUME UpperInv, SV_ExecuteClientMessage PROVE UpperInv'
  OBVIOUS
<1> DEFINE c == [client EXCEPT !.serverIdAcknowledge = packet.id]
<1>1. /\ Running /\ packet # NoPacket /\ packet' = NoPacket
      /\ UNCHANGED <<sv, frames, cl>>
  BY DEF SV_ExecuteClientMessage
<1>2. CASE Dropped(packet) /\ SV_SendClientGameState(c)
  BY <1>1, <1>2, SendGameStateUpperInv
<1>3. CASE client' \in {c, Moved(c, packet)} /\ UNCHANGED <<vars, messages>>
  <2>1. /\ IInv' /\ Numbered'
        /\ UNCHANGED <<handed, received, incomingSequence, netchan_queue>>
    BY <1>3, ChannelStays
  <2>2. /\ c \in [state : {"CONNECTED", "PRIMED", "ACTIVE"}, gamestateMessageNum : Int,
                  serverIdAcknowledge : Nat, deltaMessage : Int]
        /\ c.gamestateMessageNum = client.gamestateMessageNum
    BY DEF UpperInv, UpperTypeOK
  <2>3. /\ client' \in [state : {"CONNECTED", "PRIMED", "ACTIVE"}, gamestateMessageNum : Int,
                        serverIdAcknowledge : Nat, deltaMessage : Int]
        /\ client'.gamestateMessageNum = client.gamestateMessageNum
    <3> HIDE DEF c
    <3> QED
      BY <1>3, <2>2, MovedType DEF UpperInv
  <2>4. UpperTypeOK'
    BY <1>1, <1>3, <2>3 DEF UpperInv, UpperTypeOK, NoPacket
  <2>5. OneWaits' /\ RecordedAtMostOneLow'
    BY <1>1, <1>3, <2>1, <2>3 DEF UpperInv, OneWaits, RecordedAtMostOneLow, Running
  <2>6. packet'.ack = 0 /\ packet'.id = 0
    BY <1>1 DEF NoPacket
  <2>7. IdsGrow'
    BY <1>1, <1>3, <2>6, UpperTypes DEF UpperInv, IdsGrow
  <2>8. KnowsGamestates'
    <3>1. \A i \in DOMAIN received : ~(received[i].sequence <= packet'.ack)
      BY <2>6, ChannelFacts DEF UpperInv
    <3> QED
      BY <1>1, <1>3, <2>1, <3>1 DEF UpperInv, KnowsGamestates
  <2>9. packet'.ack <= incomingSequence'
    BY <2>1, <2>6, ChannelFacts DEF UpperInv
  <2> QED
    BY <2>1, <2>4, <2>5, <2>7, <2>8, <2>9 DEF UpperInv
<1> QED
  BY <1>2, <1>3 DEF SV_ExecuteClientMessage

\* A packet carries the id of the last message received.
LEMMA WriteUpperInv == UpperInv /\ CL_WritePacket => UpperInv'
<1> SUFFICES ASSUME UpperInv, CL_WritePacket PROVE UpperInv'
  OBVIOUS
<1>1. /\ IInv' /\ Numbered'
      /\ UNCHANGED <<handed, received, incomingSequence, netchan_queue>>
  BY ChannelStays DEF CL_WritePacket
<1>2. PICK move \in {"none", Move} :
          packet' = [id |-> cl.serverId, ack |-> incomingSequence, move |-> move]
  BY DEF CL_WritePacket
<1>3. UNCHANGED <<sv, client, frames, messages, cl>>
  BY DEF CL_WritePacket
<1>4. /\ move \in {"lost", "none", "move", "moveNoDelta"}
      /\ cl.serverId \in Nat /\ incomingSequence \in Nat
      /\ packet'.id = cl.serverId /\ packet'.ack = incomingSequence
  BY <1>2, UpperTypes, ChannelFacts DEF Move, UpperInv
<1>5. UpperTypeOK'
  BY <1>2, <1>3, <1>4 DEF UpperInv, UpperTypeOK
<1>6. OneWaits' /\ RecordedAtMostOneLow'
  BY <1>1, <1>3 DEF UpperInv, OneWaits, RecordedAtMostOneLow, Running
<1>7. IdsGrow' /\ KnowsGamestates'
  BY <1>1, <1>3, <1>4 DEF UpperInv, IdsGrow, KnowsGamestates
<1>8. packet'.ack <= incomingSequence'
  BY <1>1, <1>4
<1> QED
  BY <1>1, <1>5, <1>6, <1>7, <1>8 DEF UpperInv

\* The client learns the id of a message that is newer than all it has received.
LEMMA ReceiveUpperInv == UpperInv /\ CL_PacketEvent => UpperInv'
<1> SUFFICES ASSUME UpperInv, CL_PacketEvent PROVE UpperInv'
  OBVIOUS
<1> DEFINE N == Len(messages)
<1>1. /\ IInv' /\ UNCHANGED <<sv, client, frames, messages, packet, handed, netchan_queue>>
      /\ Started' = Started
      /\ \/ UNCHANGED <<incomingSequence, received>>
         \/ \E n \in 1 .. Started :
               /\ n > incomingSequence
               /\ incomingSequence' = n
               /\ \E d \in Seq(Byte) :
                     received' = Append(received, [sequence |-> n, data |-> d])
  BY HandUp DEF CL_PacketEvent, UpperInv
<1>2. OneWaits' /\ RecordedAtMostOneLow'
  BY <1>1 DEF UpperInv, OneWaits, RecordedAtMostOneLow, Running
<1>3. CASE UNCHANGED <<incomingSequence, received>>
  <2>1. UNCHANGED cl
    BY <1>3 DEF CL_PacketEvent
  <2> QED
    BY <1>1, <1>2, <1>3, <2>1
       DEF UpperInv, UpperTypeOK, Numbered, IdsGrow, KnowsGamestates
<1>4. ASSUME NEW n \in 1 .. Started, n > incomingSequence, incomingSequence' = n,
             NEW d \in Seq(Byte), received' = Append(received, [sequence |-> n, data |-> d])
      PROVE  UpperInv'
  <2>1. /\ received \in Seq([sequence : Nat, data : Seq(Byte)])
        /\ Len(received) \in Nat
        /\ Started \in Nat /\ N \in Nat /\ Started <= N /\ incomingSequence \in Nat
        /\ DOMAIN messages = 1 .. N /\ n \in Nat /\ n \in 1 .. N
        /\ DOMAIN received = 1 .. Len(received)
        /\ \A i \in DOMAIN received : /\ received[i].sequence \in 1 .. N
                                      /\ received[i].sequence < n
    <3>1. /\ received \in Seq([sequence : Nat, data : Seq(Byte)])
          /\ Started \in Nat /\ Len(netchan_queue) \in Nat
          /\ Len(handed) = Started + Len(netchan_queue) /\ Len(handed) = N
          /\ incomingSequence \in Nat /\ N \in Nat /\ messages \in Seq(Said)
          /\ \A i \in DOMAIN received : /\ received[i].sequence \in 1 .. Started
                                        /\ received[i].sequence <= incomingSequence
      BY ChannelFacts, UpperTypes DEF UpperInv
    <3>2. Started <= N /\ n \in Nat /\ n \in 1 .. N
      BY <1>4, <3>1
    <3>3. \A i \in DOMAIN received : /\ received[i].sequence \in 1 .. N
                                     /\ received[i].sequence < n
      <4> SUFFICES ASSUME NEW i \in DOMAIN received
                   PROVE  received[i].sequence \in 1 .. N /\ received[i].sequence < n
        OBVIOUS
      <4>1. received[i].sequence \in 1 .. Started /\ received[i].sequence <= incomingSequence
        BY <3>1
      <4>2. \A x \in 1 .. Started : x <= incomingSequence => x \in 1 .. N /\ x < n
        <5> HIDE DEF N
        <5> QED
          BY <1>4, <3>1, <3>2
      <4> QED
        BY <4>1, <4>2
    <3>4. DOMAIN received = 1 .. Len(received) /\ Len(received) \in Nat
      BY <3>1
    <3>5. DOMAIN messages = 1 .. N
      BY <3>1
    <3> QED
      BY <3>1, <3>2, <3>3, <3>4, <3>5
  <2>2. /\ Len(received') = Len(received) + 1
        /\ DOMAIN received' = 1 .. Len(received) + 1
        /\ received' # received
        /\ Last(received') = [sequence |-> n, data |-> d]
        /\ received'[Len(received) + 1] = [sequence |-> n, data |-> d]
        /\ \A i \in 1 .. Len(received) : received'[i] = received[i]
    <3>1. [sequence |-> n, data |-> d] \in [sequence : Nat, data : Seq(Byte)]
      BY <2>1
    <3>2. /\ Len(received') = Len(received) + 1
          /\ received' \in Seq([sequence : Nat, data : Seq(Byte)])
          /\ received'[Len(received) + 1] = [sequence |-> n, data |-> d]
          /\ \A i \in 1 .. Len(received) : received'[i] = received[i]
      BY <1>4, <2>1, <3>1
    <3>3. Last(received') = [sequence |-> n, data |-> d]
      BY <3>2 DEF Last
    <3>4. DOMAIN received' = 1 .. Len(received) + 1
      BY <3>2
    <3>5. received' # received
      BY <2>1, <3>2
    <3> QED
      BY <3>2, <3>3, <3>4, <3>5
  <2>3. CL_ParseServerMessage(n)
    BY <2>2 DEF CL_PacketEvent
  <2>4. /\ cl'.serverId \in {cl.serverId, messages[n].id}
        /\ cl' \in [serverId : Nat, snap : Nat, snaps : SUBSET Nat]
        /\ messages[n].type \in {"gamestate", "snapshot"} => cl'.serverId = messages[n].id
        /\ messages[n].type \in {"gamestate", "snapshot", "nop"}
    <3>1. /\ cl \in [serverId : Nat, snap : Nat, snaps : SUBSET Nat]
          /\ messages[n] \in Said
      BY <2>1, UpperTypes DEF UpperInv, UpperTypeOK
    <3>2. messages[n].id \in Nat /\ messages[n].type \in {"gamestate", "snapshot", "nop"}
      BY <3>1 DEF Said
    <3>3. CASE messages[n].type = "gamestate"
      BY <2>3, <3>1, <3>2, <3>3 DEF CL_ParseServerMessage
    <3>4. CASE messages[n].type = "snapshot"
      <4>1. cl' = CL_ParseSnapshot(n)
        BY <2>3, <3>4 DEF CL_ParseServerMessage
      <4> QED
        BY <4>1, <3>1, <3>2, <2>1 DEF CL_ParseSnapshot
    <3>5. CASE messages[n].type = "nop"
      <4>1. cl' = cl
        BY <2>3, <3>5 DEF CL_ParseServerMessage
      <4> QED
        BY <3>1, <3>2, <3>5, <4>1
    <3> QED
      BY <3>2, <3>3, <3>4, <3>5
  <2>5. UpperTypeOK'
    BY <1>1, <2>4 DEF UpperInv, UpperTypeOK
  <2>6. Numbered'
    <3>1. incomingSequence' <= Started'
      <4>1. n <= Started
        BY <1>4, <2>1
      <4> QED
        BY <1>1, <1>4, <4>1
    <3> QED
      BY <1>1, <3>1 DEF UpperInv, Numbered
  <2>7. IdsGrow'
    BY <1>1, <2>1, <2>4 DEF UpperInv, IdsGrow
  <2>8. /\ packet.ack \in Nat /\ packet.ack < n
    BY <1>4, <2>1, UpperTypes
  <2>9. KnowsGamestates'
    <3> SUFFICES ASSUME NEW i \in DOMAIN received',
                        messages[received'[i].sequence].type = "gamestate"
                 PROVE  /\ messages[received'[i].sequence].id <= cl'.serverId
                        /\ received'[i].sequence <= packet.ack =>
                              messages[received'[i].sequence].id <= packet.id
      BY <1>1 DEF KnowsGamestates
    <3>1. CASE i = Len(received) + 1
      <4>1. received'[i].sequence = n
        BY <2>2, <3>1
      <4>2. messages[n].id \in Nat
        BY <2>1, UpperTypes
      <4>3. cl'.serverId = messages[n].id
        BY <4>1, <2>4
      <4>4. ~(n <= packet.ack)
        BY <2>1, <2>8
      <4> QED
        BY <4>1, <4>2, <4>3, <4>4
    <3>2. CASE i \in 1 .. Len(received)
      <4>1. received'[i] = received[i] /\ i \in DOMAIN received
        BY <2>1, <2>2, <3>2
      <4> DEFINE k == received[i].sequence
      <4>2. k \in 1 .. N /\ k < n /\ messages[k].type = "gamestate"
        BY <4>1, <2>1
      <4>3. messages[k].id <= messages[n].id
        BY <4>2, <2>1 DEF UpperInv, IdsGrow
      <4>4. /\ messages[k].id <= cl.serverId
            /\ k <= packet.ack => messages[k].id <= packet.id
        BY <4>1, <4>2 DEF UpperInv, KnowsGamestates
      <4>5. messages[k].id <= cl'.serverId
        BY <4>3, <4>4, <2>4
      <4> QED
        BY <4>1, <4>4, <4>5
    <3> QED
      BY <3>1, <3>2, <2>1, <2>2
  <2>10. packet'.ack <= incomingSequence'
    <3>1. packet.ack <= n
      BY <2>1, <2>8
    <3> QED
      BY <1>1, <1>4, <3>1
  <2> QED
    BY <1>1, <1>2, <2>5, <2>6, <2>7, <2>9, <2>10 DEF UpperInv
<1> QED
  BY <1>1, <1>3, <1>4

\* Every step keeps the invariant.
LEMMA StepUpperInv == UpperInv /\ [NextMessages]_allvars => UpperInv'
<1> SUFFICES ASSUME UpperInv, [NextMessages]_allvars PROVE UpperInv'
  OBVIOUS
<1>1. sv \in [serverId : Nat, restartedServerId : Nat, final : Nat]
  BY DEF UpperInv, UpperTypeOK
<1>2. CASE SV_SendClientMessages
  <2>1. UNCHANGED <<sv, client, cl, packet>> /\ Running /\ ~Busy /\ SV_SendClientSnapshot
    BY <1>2 DEF SV_SendClientMessages
  <2> QED
    BY <1>1, <2>1, SnapshotUpperInv
<1>3. CASE SV_FinalMessage
  <2>1. /\ UNCHANGED <<client, cl, packet>> /\ SV_SendClientSnapshot
        /\ sv' = [sv EXCEPT !.final = @ + 1]
    BY <1>3 DEF SV_FinalMessage
  <2>2. /\ sv' \in [serverId : Nat, restartedServerId : Nat, final : Nat]
        /\ sv'.serverId = sv.serverId /\ sv'.final = sv.final + 1 /\ sv.final \in Nat
    BY <1>1, <2>1
  <2>3. ~Running'
    BY <2>2 DEF Running
  <2> QED
    BY <2>1, <2>2, <2>3, SnapshotUpperInv
<1>4. CASE UNCHANGED allvars
  <2>1. UNCHANGED <<vars, sv, client, frames, messages, cl, packet>>
    BY <1>4 DEF allvars, upper
  <2>2. /\ IInv' /\ Numbered'
        /\ UNCHANGED <<handed, received, incomingSequence, netchan_queue>>
    BY <2>1, ChannelStays
  <2> QED
    BY <2>1, <2>2 DEF UpperInv, UpperTypeOK, OneWaits, RecordedAtMostOneLow, IdsGrow,
                      KnowsGamestates, Running
<1> QED
  BY <1>2, <1>3, <1>4, SendQueuedUpperInv, SpawnUpperInv, ExecuteUpperInv, WriteUpperInv,
     ReceiveUpperInv DEF NextMessages

\* The invariant holds when the client connects.
LEMMA InitUpperInv == InitMessages => UpperInv
<1> SUFFICES ASSUME InitMessages PROVE UpperInv
  OBVIOUS
<1>1. IInv
  BY InitIInv DEF InitMessages
<1>2. /\ messages = <<>> /\ handed = <<>> /\ received = <<>> /\ netchan_queue = <<>>
      /\ outgoingSequence = 1 /\ incomingSequence = 0 /\ unsentFragments = FALSE
  BY DEF InitMessages, Init, Netchan_Setup
<1>3. UpperTypeOK
  <2>1. frames \in [0 .. PACKET_BACKUP - 1 -> Int]
    BY DEF InitMessages
  <2>2. messages \in Seq(Said)
    BY <1>2
  <2> QED
    BY <2>1, <2>2 DEF UpperTypeOK, InitMessages, NoPacket
<1>4. Numbered
  BY <1>2 DEF Numbered, Started
<1>5. OneWaits /\ RecordedAtMostOneLow
  BY <1>2 DEF OneWaits, RecordedAtMostOneLow
<1>6. IdsGrow
  BY <1>2 DEF IdsGrow, InitMessages, NoPacket
<1>7. KnowsGamestates /\ packet.ack <= incomingSequence
  BY <1>2 DEF KnowsGamestates, InitMessages, NoPacket
<1> QED
  BY <1>1, <1>3, <1>4, <1>5, <1>6, <1>7 DEF UpperInv

\* The invariant holds in every reachable state: the channel keeps its own below
\* gamestates and snapshots, and the number of a gamestate is recorded at most
\* one too low.
THEOREM MessagesInductive == SpecMessages => []UpperInv
<1>1. InitMessages => UpperInv
  BY InitUpperInv
<1>2. UpperInv /\ [NextMessages]_allvars => UpperInv'
  BY StepUpperInv
<1> QED
  BY <1>1, <1>2, PTL DEF SpecMessages

\* Gamestates and snapshots use the channel as sv_net_chan.c means it to be used:
\* every behaviour is one of SvNetchan, with all that is proved of it.
THEOREM MessagesUseChannel == SpecMessages => Spec
<1>1. InitMessages => Init
  BY DEF InitMessages
<1>2. [NextMessages]_allvars => [Next]_vars
  <2> SUFFICES ASSUME [NextMessages]_allvars PROVE [Next]_vars
    OBVIOUS
  <2>1. ASSUME NEW kinds \in SUBSET Message, NEW says, Hand(kinds, says)
        PROVE  Next
    BY <2>1 DEF Hand, Next
  <2>2. Gamestates \in SUBSET Message /\ Snapshots \in SUBSET Message /\ Nops \in SUBSET Message
    BY ServerMessagesAssumption
  <2>3. CASE SV_SendClientMessages \/ SV_FinalMessage
    BY <2>1, <2>2, <2>3 DEF SV_SendClientMessages, SV_FinalMessage, SV_SendClientSnapshot
  <2>4. CASE SV_SendQueuedMessages
    BY <2>4 DEF SV_SendQueuedMessages, Next
  <2>5. CASE SV_ExecuteClientMessage
    BY <2>1, <2>2, <2>5 DEF SV_ExecuteClientMessage, SV_SendClientGameState
  <2>6. CASE SV_SpawnServer \/ CL_WritePacket
    BY <2>6 DEF SV_SpawnServer, CL_WritePacket
  <2>7. CASE CL_PacketEvent
    BY <2>7 DEF CL_PacketEvent, Next
  <2>8. CASE UNCHANGED allvars
    BY <2>8 DEF allvars
  <2> QED
    BY <2>3, <2>4, <2>5, <2>6, <2>7, <2>8 DEF NextMessages
<1> QED
  BY <1>1, <1>2, PTL DEF SpecMessages, Spec

\* A gamestate is sent again only when it was lost, whatever is queued, sent
\* piece by piece or on its way when a packet of the client asks for it.
THEOREM GamestateResentOnlyIfLost == SpecMessages => ResentOnlyIfLost
<1> DEFINE Resent == messages' # messages /\ Last(messages').type = "gamestate"
           AllLost ==
             \A k \in DOMAIN messages :
                messages[k].type = "gamestate" /\ messages[k].id = sv.serverId
                => /\ k <= incomingSequence
                   /\ \A i \in DOMAIN received : received[i].sequence # k
<1>1. ASSUME UpperInv, NextMessages, Resent
      PROVE  AllLost
  <2>1. ~SV_SendClientSnapshot
    <3> SUFFICES ASSUME SV_SendClientSnapshot PROVE FALSE
      OBVIOUS
    <3>1. PICK says : Hands(says) /\ says.type \in {"snapshot", "nop"}
      BY <1>1, SnapshotSays
    <3>2. Last(messages') = says
      BY <1>1, <3>1, HandsMessages
    <3> QED
      BY <1>1, <3>1, <3>2
  <2>2. SV_ExecuteClientMessage
    BY <1>1, <2>1 DEF NextMessages, SV_SendClientMessages, SV_FinalMessage,
       SV_SendQueuedMessages, SV_SpawnServer, CL_WritePacket, CL_PacketEvent, upper
  <2>3. Running /\ packet # NoPacket /\ packet.id # sv.serverId /\ Dropped(packet)
    BY <1>1, <2>2 DEF SV_ExecuteClientMessage
  <2>4. \A k \in DOMAIN messages : messages[k].type = "gamestate" => k <= packet.ack
    BY <1>1, <2>3, GamestateFollows
  <2> SUFFICES ASSUME NEW k \in DOMAIN messages,
                      messages[k].type = "gamestate", messages[k].id = sv.serverId
               PROVE  /\ k <= incomingSequence
                      /\ \A i \in DOMAIN received : received[i].sequence # k
    OBVIOUS
  <2>5. /\ k \in Nat /\ k <= packet.ack
        /\ packet.ack \in Nat /\ packet.ack <= incomingSequence /\ incomingSequence \in Nat
        /\ packet.id \in Nat /\ sv.serverId \in Nat /\ packet.id <= sv.serverId
    <3>1. DOMAIN messages = 1 .. Len(messages) /\ Len(messages) \in Nat
      BY <1>1, UpperTypes
    <3>2. k \in Nat
      BY <3>1
    <3>3. k <= packet.ack
      BY <2>4
    <3> QED
      BY <1>1, <3>2, <3>3, UpperTypes, ChannelFacts DEF UpperInv, IdsGrow
  <2>6. ASSUME NEW i \in DOMAIN received, received[i].sequence = k
        PROVE  FALSE
    <3>1. sv.serverId <= packet.id
      BY <1>1, <2>5, <2>6 DEF UpperInv, KnowsGamestates
    <3> QED
      BY <2>3, <2>5, <3>1
  <2> QED
    BY <2>5, <2>6
<1>2. UpperInv /\ [NextMessages]_allvars => [Resent => AllLost]_allvars
  BY <1>1
<1> QED
  BY <1>2, MessagesInductive, PTL DEF SpecMessages, ResentOnlyIfLost

-----------------------------------------------------------------------------
(* Deltas.                                                                 *)

\* A positive number below the size of the ring is no multiple of it.
LEMMA NoMultiple ==
    ASSUME NEW q \in Int, NEW d \in Int, d = PACKET_BACKUP * q, 0 < d, d < PACKET_BACKUP
    PROVE  FALSE
<1>0. PACKET_BACKUP \in Nat /\ PACKET_BACKUP > 0
  BY ServerMessagesAssumption
<1>1. CASE q <= 0
  <2>1. PACKET_BACKUP * q <= 0
    BY <1>0, <1>1
  <2> QED
    BY <1>0, <2>1
<1>2. CASE q >= 1
  <2>1. PACKET_BACKUP * q >= PACKET_BACKUP
    BY <1>0, <1>2
  <2> QED
    BY <1>0, <2>1
<1> QED
  BY <1>1, <1>2

\* Two messages in one frame are a ring apart.
LEMMA FramesDiffer ==
    ASSUME NEW i \in Nat, NEW j \in Nat, i < j, j - i < PACKET_BACKUP
    PROVE  Frame(i) # Frame(j)
<1> SUFFICES ASSUME i % PACKET_BACKUP = j % PACKET_BACKUP PROVE FALSE
  BY DEF Frame
<1> DEFINE a == i \div PACKET_BACKUP
           b == j \div PACKET_BACKUP
<1>0. PACKET_BACKUP \in Nat /\ PACKET_BACKUP > 0
  BY ServerMessagesAssumption
<1>1. i = PACKET_BACKUP * a + (i % PACKET_BACKUP) /\ a \in Int
  BY <1>0
<1>2. j = PACKET_BACKUP * b + (j % PACKET_BACKUP) /\ b \in Int
  BY <1>0
<1>3. i % PACKET_BACKUP \in Int /\ j % PACKET_BACKUP \in Int
  BY <1>0
<1> HIDE DEF a, b
<1>4. j - i = PACKET_BACKUP * b - PACKET_BACKUP * a
  <2>1. PACKET_BACKUP * a \in Int /\ PACKET_BACKUP * b \in Int
    BY <1>0, <1>1, <1>2
  <2> QED
    BY <1>1, <1>2, <1>3, <2>1
<1>5. PACKET_BACKUP * b - PACKET_BACKUP * a = PACKET_BACKUP * (b - a)
  BY <1>0, <1>1, <1>2
<1>6. /\ j - i = PACKET_BACKUP * (b - a) /\ b - a \in Int
      /\ j - i \in Int /\ 0 < j - i
  BY <1>1, <1>2, <1>4, <1>5
<1> QED
  BY <1>6, NoMultiple

\* The number of the message being sent never shrinks.
LEMMA OutgoingGrows ==
    ASSUME outgoingSequence \in Nat,
           (\E m \in Message : SV_Netchan_Transmit(m)) \/ SV_Netchan_TransmitNextFragment
    PROVE  outgoingSequence' \in Nat /\ outgoingSequence <= outgoingSequence'
<1>1. outgoingSequence' \in {outgoingSequence, outgoingSequence + 1}
  BY DEF SV_Netchan_Transmit, SV_Netchan_TransmitNextFragment, SV_Netchan_TransmitNextInQueue,
         Netchan_Transmit, Netchan_TransmitNextFragment, SendFragment, chanvars, sender
<1> QED
  BY <1>1

\* When nothing waits, the next message gets the number the server takes for it.
LEMMA NextNumber ==
    ASSUME UpperInv, ~Busy
    PROVE  outgoingSequence = Len(messages) + 1
<1>1. /\ Len(messages) = Started + Len(netchan_queue)
      /\ Started \in Nat /\ outgoingSequence \in Nat
  BY UpperTypes, ChannelFacts DEF UpperInv
<1>2. Started = outgoingSequence - 1 /\ Len(netchan_queue) = 0
  BY DEF Busy, Started
<1> QED
  BY <1>1, <1>2

\* The base of a new snapshot is in its frame.
LEMMA BaseFound ==
    ASSUME UpperInv, DeltaInv, ~Busy, NEW says, DeltaIn(says), says.lastframe # 0
    PROVE  says.base = Len(messages) + 1 - says.lastframe
<1> DEFINE d == client.deltaMessage
<1>1. /\ DeltaSource = d /\ d > 0 /\ d \in Int
      /\ outgoingSequence - d < PACKET_BACKUP
  <2>1. /\ DeltaSource # 0
        /\ client.deltaMessage \in Int /\ outgoingSequence \in Int
        /\ PACKET_BACKUP \in Nat /\ Slack \in Nat
    BY ServerMessagesAssumption, ChannelFacts DEF DeltaIn, UpperInv, UpperTypeOK
  <2> QED
    BY <2>1 DEF DeltaSource
<1>2. IsSnapshot(d)
  BY <1>1 DEF DeltaInv, BasesAreSnapshots
<1>3. frames[Frame(d)] = d
  BY <1>1, <1>2 DEF DeltaInv, FramesHold, IsSnapshot
<1>4. says.base = d /\ says.lastframe = outgoingSequence - d
  BY <1>1, <1>3 DEF DeltaIn
<1>5. outgoingSequence = Len(messages) + 1 /\ Len(messages) \in Nat
  BY NextNumber, UpperTypes
<1> QED
  BY <1>1, <1>4, <1>5

\* A snapshot fills the frame of its number, unless it is never sent.
LEMMA SnapshotDeltaInv ==
    ASSUME UpperInv, DeltaInv, SV_SendClientSnapshot, UNCHANGED <<client, cl, packet>>,
           Running' => Running /\ ~Busy
    PROVE  DeltaInv'
<1> DEFINE N == Len(messages)
<1>1. PICK says : Hands(says) /\ says.type \in {"snapshot", "nop"} /\ DeltaIn(says)
  BY SnapshotSays
<1>2. /\ N \in Nat /\ Len(messages') = N + 1
      /\ DOMAIN messages = 1 .. N /\ DOMAIN messages' = 1 .. N + 1
      /\ \A k \in 1 .. N : messages'[k] = messages[k]
      /\ messages'[N + 1] = says
  BY <1>1, HandsMessages, UpperTypes
<1>3. \A n : IsSnapshot(n) => IsSnapshot(n)'
  BY <1>2 DEF IsSnapshot
<1>4. /\ Started \in Nat /\ Started' \in Nat /\ Started <= Started'
      /\ outgoingSequence \in Nat /\ N = Started + Len(netchan_queue)
      /\ Len(netchan_queue) \in Nat
  BY <1>1, ChannelFacts, UpperTypes DEF UpperInv, Hands, HandedOver
<1>5. BasesAreSnapshots'
  <2>1. \A n \in 1 .. Started : n \in 1 .. Started'
    BY <1>4
  <2> QED
    BY <1>3, <2>1 DEF DeltaInv, BasesAreSnapshots
<1>6. CASE ~Busy
  <2>1. outgoingSequence = N + 1
    BY <1>6, NextNumber
  <2>2. outgoingSequence' \in Nat /\ outgoingSequence <= outgoingSequence'
    <3>1. \E m \in Message : SV_Netchan_Transmit(m)
      BY ServerMessagesAssumption DEF SV_SendClientSnapshot, Hand
    <3> QED
      BY <1>4, <3>1, OutgoingGrows
  <2>3. frames' = [frames EXCEPT ![Frame(N + 1)] = N + 1]
    BY <2>1 DEF SV_SendClientSnapshot
  <2>4. frames \in [0 .. PACKET_BACKUP - 1 -> Int] /\ PACKET_BACKUP \in Nat
    BY ServerMessagesAssumption DEF UpperInv, UpperTypeOK
  <2>5. FramesHold'
    <3> SUFFICES ASSUME NEW n \in DOMAIN messages', IsSnapshot(n)',
                        outgoingSequence' - n < PACKET_BACKUP
                 PROVE  frames'[Frame(n)] = n
      BY DEF FramesHold
    <3>1. CASE n = N + 1
      <4>1. Frame(N + 1) \in 0 .. PACKET_BACKUP - 1
        BY <1>2, FrameInRing
      <4> QED
        BY <2>3, <2>4, <3>1, <4>1
    <3>2. CASE n \in 1 .. N
      <4>1. n \in Nat /\ n < N + 1 /\ outgoingSequence - n < PACKET_BACKUP
        BY <1>2, <1>4, <2>2, <2>4, <3>2
      <4>2. Frame(n) # Frame(N + 1)
        BY <1>2, <2>1, <4>1, FramesDiffer
      <4>3. IsSnapshot(n)
        BY <1>2, <3>2 DEF IsSnapshot
      <4>4. frames[Frame(n)] = n
        BY <1>6, <4>1, <4>3 DEF DeltaInv, FramesHold, IsSnapshot
      <4>5. Frame(n) \in 0 .. PACKET_BACKUP - 1
        BY <4>1, FrameInRing
      <4> QED
        BY <2>3, <2>4, <4>2, <4>4, <4>5
    <3> QED
      BY <3>1, <3>2, <1>2
  <2>6. BasesAgree'
    <3> SUFFICES ASSUME NEW n \in DOMAIN messages', messages'[n].lastframe # 0
                 PROVE  messages'[n].base = n - messages'[n].lastframe
      BY DEF BasesAgree
    <3>1. CASE n = N + 1
      <4>1. messages'[n] = says /\ n = N + 1 /\ says.lastframe # 0
        BY <1>2, <3>1
      <4>2. says.base = Len(messages) + 1 - says.lastframe
        BY <1>1, <1>6, <4>1, BaseFound
      <4>3. says.base = n - says.lastframe
        <5>1. Len(messages) \in Nat /\ says.lastframe \in Int
          BY <1>1, <1>2 DEF Hands, Said
        <5> QED
          BY <4>1, <4>2, <5>1
      <4> QED
        BY <4>1, <4>3
    <3>2. CASE n \in 1 .. N
      <4>1. n <= Started
        <5>1. Len(netchan_queue) = 0
          BY <1>6 DEF Busy
        <5> QED
          BY <1>4, <3>2, <5>1
      <4> QED
        BY <1>2, <3>2, <4>1 DEF DeltaInv, BasesAgree
    <3> QED
      BY <3>1, <3>2, <1>2
  <2> QED
    BY <1>5, <2>5, <2>6 DEF DeltaInv
<1>7. CASE Busy
  <2>1. /\ ~Running' /\ Started' = Started
        /\ UNCHANGED outgoingSequence
        /\ Len(netchan_queue') = Len(netchan_queue) + 1
    BY <1>1, <1>7 DEF Hands, HandedOver
  <2>2. Busy'
    <3>1. Len(netchan_queue') # 0
      BY <1>4, <2>1
    <3>2. netchan_queue' # <<>>
      BY <3>1
    <3> QED
      BY <3>2 DEF Busy
  <2>3. FramesHold'
    BY <2>1, <2>2 DEF FramesHold
  <2>4. BasesAgree'
    <3> SUFFICES ASSUME NEW n \in DOMAIN messages', n <= Started,
                        messages'[n].lastframe # 0
                 PROVE  messages'[n].base = n - messages'[n].lastframe
      BY <2>1 DEF BasesAgree
    <3>1. n \in 1 .. N
      BY <1>2, <1>4
    <3> QED
      BY <1>2, <3>1 DEF DeltaInv, BasesAgree
  <2> QED
    BY <1>5, <2>3, <2>4 DEF DeltaInv
<1> QED
  BY <1>6, <1>7

\* A gamestate is no delta, and leaves the frames alone.
LEMMA SendGameStateDeltaInv ==
    ASSUME UpperInv, DeltaInv, Running,
           SV_SendClientGameState([client EXCEPT !.serverIdAcknowledge = packet.id]),
           packet' = NoPacket, UNCHANGED <<sv, frames, cl>>
    PROVE  DeltaInv'
<1> DEFINE N == Len(messages)
           says == [type |-> "gamestate", id |-> sv.serverId, lastframe |-> 0, base |-> 0]
<1>1. Hands(says) /\ \E m \in Message : SV_Netchan_Transmit(m)
  <2>1. Gamestates \subseteq Message /\ IInv
    BY ServerMessagesAssumption DEF UpperInv
  <2>2. HandedOver /\ messages' = Append(messages, says)
    BY <2>1, HandOver DEF SV_SendClientGameState, Hand
  <2>3. \E m \in Message : SV_Netchan_Transmit(m)
    BY <2>1 DEF SV_SendClientGameState, Hand
  <2> QED
    BY <2>2, <2>3, UpperTypes DEF Hands, Said
<1>2. /\ N \in Nat /\ Len(messages') = N + 1
      /\ DOMAIN messages = 1 .. N /\ DOMAIN messages' = 1 .. N + 1
      /\ \A k \in 1 .. N : messages'[k] = messages[k]
      /\ messages'[N + 1].type = "gamestate" /\ messages'[N + 1].lastframe = 0
  BY <1>1, HandsMessages, UpperTypes
<1>3. \A n : IsSnapshot(n) => IsSnapshot(n)'
  BY <1>2 DEF IsSnapshot
<1>4. /\ Started \in Nat /\ Started' \in Nat /\ Started <= Started'
      /\ outgoingSequence \in Nat
      /\ outgoingSequence' \in Nat /\ outgoingSequence <= outgoingSequence'
      /\ PACKET_BACKUP \in Nat
  BY <1>1, ChannelFacts, OutgoingGrows, ServerMessagesAssumption DEF UpperInv, Hands, HandedOver
<1>5. BasesAreSnapshots'
  <2>1. \A n \in 1 .. Started : n \in 1 .. Started'
    BY <1>4
  <2>2. client'.deltaMessage = client.deltaMessage
    BY DEF SV_SendClientGameState, UpperInv, UpperTypeOK
  <2> QED
    BY <1>3, <2>1, <2>2 DEF DeltaInv, BasesAreSnapshots, NoPacket
<1>6. FramesHold'
  <2> SUFFICES ASSUME NEW n \in DOMAIN messages', IsSnapshot(n)',
                      outgoingSequence' - n < PACKET_BACKUP
               PROVE  frames[Frame(n)] = n
    BY DEF FramesHold
  <2>1. n \in 1 .. N /\ IsSnapshot(n)
    BY <1>2 DEF IsSnapshot
  <2>2. outgoingSequence - n < PACKET_BACKUP
    BY <1>2, <1>4, <2>1
  <2> QED
    BY <2>1, <2>2 DEF DeltaInv, FramesHold, IsSnapshot
<1>7. BasesAgree'
  BY <1>2 DEF DeltaInv, BasesAgree
<1> QED
  BY <1>5, <1>6, <1>7 DEF DeltaInv

\* Steps that neither hand a message over nor build a frame.
LEMMA OtherDeltaInv ==
    ASSUME UpperInv, DeltaInv, UNCHANGED <<sv, frames, messages>>,
           Started' \in Nat, Started <= Started',
           outgoingSequence' \in Nat, outgoingSequence <= outgoingSequence',
           Running \/ UNCHANGED <<unsentFragments, netchan_queue, outgoingSequence>>,
           BasesAreSnapshots'
    PROVE  DeltaInv'
<1>1. /\ outgoingSequence \in Nat /\ PACKET_BACKUP \in Nat
      /\ DOMAIN messages = 1 .. Len(messages) /\ Len(messages) \in Nat
  BY ChannelFacts, UpperTypes, ServerMessagesAssumption DEF UpperInv
<1>2. Running' = Running
  BY DEF Running
<1>3. FramesHold'
  <2> SUFFICES ASSUME Running' \/ ~Busy', NEW n \in DOMAIN messages, IsSnapshot(n),
                      outgoingSequence' - n < PACKET_BACKUP
               PROVE  frames[Frame(n)] = n
    BY DEF FramesHold, IsSnapshot
  <2>1. Running \/ ~Busy
    BY <1>2 DEF Busy
  <2>2. outgoingSequence - n < PACKET_BACKUP
    BY <1>1
  <2> QED
    BY <2>1, <2>2 DEF DeltaInv, FramesHold, IsSnapshot
<1>4. BasesAgree'
  <2>1. Running \/ Started' = Started
    BY DEF Started
  <2> QED
    BY <1>2, <2>1 DEF DeltaInv, BasesAgree
<1> QED
  BY <1>3, <1>4 DEF DeltaInv

\* The base a client asks for is a snapshot it has.
LEMMA ExecuteDeltaInv ==
    ASSUME UpperInv, DeltaInv, SV_ExecuteClientMessage
    PROVE  DeltaInv'
<1> DEFINE c == [client EXCEPT !.serverIdAcknowledge = packet.id]
<1>1. /\ Running /\ packet # NoPacket /\ packet' = NoPacket
      /\ UNCHANGED <<sv, frames, cl>>
  BY DEF SV_ExecuteClientMessage
<1>2. CASE SV_SendClientGameState(c)
  BY <1>1, <1>2, SendGameStateDeltaInv
<1>3. CASE client' \in {c, Moved(c, packet)} /\ UNCHANGED <<vars, messages>>
  <2>1. /\ UNCHANGED <<unsentFragments, netchan_queue, outgoingSequence>>
        /\ Started' = Started
    BY <1>3 DEF vars, chanvars, sender, Started
  <2>2. Started \in Nat /\ outgoingSequence \in Nat
    BY ChannelFacts DEF UpperInv
  <2>3. client'.deltaMessage > 0 =>
            \/ client'.deltaMessage = client.deltaMessage
            \/ packet.move = "move" /\ client'.deltaMessage = packet.ack
    <3>1. client \in [state : {"CONNECTED", "PRIMED", "ACTIVE"}, gamestateMessageNum : Int,
                      serverIdAcknowledge : Nat, deltaMessage : Int]
      BY DEF UpperInv, UpperTypeOK
    <3>2. c.deltaMessage = client.deltaMessage
      BY <3>1
    <3>3. \/ Moved(c, packet).deltaMessage \in {c.deltaMessage, -1}
          \/ packet.move = "move" /\ Moved(c, packet).deltaMessage = packet.ack
      <4>1. c \in [state : {"CONNECTED", "PRIMED", "ACTIVE"}, gamestateMessageNum : Int,
                   serverIdAcknowledge : Nat, deltaMessage : Int]
        BY <3>1 DEF UpperInv, UpperTypeOK
      <4> HIDE DEF c
      <4>2. CASE packet.move = "none"
        BY <4>2 DEF Moved
      <4>3. CASE packet.move # "none"
        <5> DEFINE s == IF c.state = "PRIMED" THEN "ACTIVE" ELSE c.state
                   d == IF packet.move = "move" /\ c.state = "ACTIVE" THEN packet.ack ELSE -1
        <5>1. Moved(c, packet) = [c EXCEPT !.state = s, !.deltaMessage = d]
          BY <4>3 DEF Moved
        <5>2. d = -1 \/ (packet.move = "move" /\ d = packet.ack)
          OBVIOUS
        <5> HIDE DEF s, d
        <5>3. Moved(c, packet).deltaMessage = d
          BY <4>1, <5>1
        <5> QED
          BY <5>2, <5>3
      <4> QED
        BY <4>2, <4>3
    <3>4. client'.deltaMessage \in {c.deltaMessage, Moved(c, packet).deltaMessage}
      BY <1>3
    <3>5. ~(-1 > 0)
      OBVIOUS
    <3> HIDE DEF c
    <3> QED
      BY <3>2, <3>3, <3>4, <3>5
  <2>4. BasesAreSnapshots'
    <3>1. packet'.move # "move"
      BY <1>1 DEF NoPacket
    <3>2. \A n : IsSnapshot(n)' = IsSnapshot(n)
      BY <1>3 DEF IsSnapshot
    <3>3. client'.deltaMessage > 0 => IsSnapshot(client'.deltaMessage)
      BY <2>3 DEF DeltaInv, BasesAreSnapshots
    <3> QED
      BY <1>1, <2>1, <3>1, <3>2, <3>3 DEF DeltaInv, BasesAreSnapshots
  <2> QED
    BY <1>1, <1>3, <2>1, <2>2, <2>4, OtherDeltaInv
<1> QED
  BY <1>2, <1>3 DEF SV_ExecuteClientMessage

\* The client keeps a snapshot only of a message it received.
LEMMA ReceiveDeltaInv ==
    ASSUME UpperInv, DeltaInv, CL_PacketEvent
    PROVE  DeltaInv'
<1> DEFINE N == Len(messages)
<1>1. /\ UNCHANGED <<sv, client, frames, messages, packet>>
      /\ UNCHANGED <<unsentFragments, netchan_queue, outgoingSequence>>
      /\ Started' = Started /\ Started \in Nat /\ outgoingSequence \in Nat
      /\ \/ UNCHANGED received
         \/ \E n \in 1 .. Started : \E d \in Seq(Byte) :
               received' = Append(received, [sequence |-> n, data |-> d])
  BY HandUp, ChannelFacts DEF CL_PacketEvent, UpperInv, sender
<1>2. \A n : IsSnapshot(n)' = IsSnapshot(n)
  BY <1>1 DEF IsSnapshot
<1>3. BasesAreSnapshots'
  <2>1. CASE UNCHANGED received
    <3>1. UNCHANGED cl
      BY <2>1 DEF CL_PacketEvent
    <3> QED
      BY <1>1, <1>2, <3>1 DEF DeltaInv, BasesAreSnapshots
  <2>2. ASSUME NEW n \in 1 .. Started, NEW d \in Seq(Byte),
               received' = Append(received, [sequence |-> n, data |-> d])
        PROVE  BasesAreSnapshots'
    <3>1. Last(received').sequence = n /\ received' # received
      <4>1. /\ received \in Seq([sequence : Nat, data : Seq(Byte)])
            /\ [sequence |-> n, data |-> d] \in [sequence : Nat, data : Seq(Byte)]
        BY <1>1, ChannelFacts DEF UpperInv
      <4>2. /\ Len(received') = Len(received) + 1 /\ Len(received) \in Nat
            /\ received'[Len(received) + 1] = [sequence |-> n, data |-> d]
        BY <2>2, <4>1
      <4> QED
        BY <4>2 DEF Last
    <3>2. CL_ParseServerMessage(n)
      BY <3>1 DEF CL_PacketEvent
    <3>3. n \in DOMAIN messages
      <4>1. /\ N = Started + Len(netchan_queue) /\ Len(netchan_queue) \in Nat
            /\ DOMAIN messages = 1 .. N
        BY ChannelFacts, UpperTypes DEF UpperInv
      <4> QED
        BY <1>1, <4>1
    <3>4. /\ \/ cl'.snap \in {cl.snap, 0}
             \/ cl'.snap = n /\ messages[n].type = "snapshot"
          /\ cl'.snaps \subseteq cl.snaps \cup {n}
      <4>1. CASE messages[n].type = "gamestate"
        BY <3>2, <4>1 DEF CL_ParseServerMessage
      <4>2. CASE messages[n].type = "snapshot"
        <5>1. cl' = CL_ParseSnapshot(n)
          BY <3>2, <4>2 DEF CL_ParseServerMessage
        <5> QED
          BY <4>2, <5>1 DEF CL_ParseSnapshot
      <4>3. CASE messages[n].type \notin {"gamestate", "snapshot"}
        BY <3>2, <4>3 DEF CL_ParseServerMessage
      <4> QED
        BY <4>1, <4>2, <4>3
    <3>5. cl'.snap # 0 => IsSnapshot(cl'.snap)
      BY <3>3, <3>4 DEF DeltaInv, BasesAreSnapshots, IsSnapshot
    <3>6. \A k \in cl'.snaps : k \in 1 .. Started
      BY <2>2, <3>4 DEF DeltaInv, BasesAreSnapshots
    <3> QED
      BY <1>1, <1>2, <3>5, <3>6 DEF DeltaInv, BasesAreSnapshots
  <2> QED
    BY <1>1, <2>1, <2>2
<1> QED
  BY <1>1, <1>3, OtherDeltaInv

\* Every step keeps frames and bases as they are described.
LEMMA StepDeltaInv ==
    ASSUME UpperInv, DeltaInv, [NextMessages]_allvars
    PROVE  DeltaInv'
<1>0. /\ Started \in Nat /\ outgoingSequence \in Nat
      /\ sv \in [serverId : Nat, restartedServerId : Nat, final : Nat]
  BY ChannelFacts DEF UpperInv, UpperTypeOK
<1>1. CASE SV_SendClientMessages
  BY <1>1, SnapshotDeltaInv DEF SV_SendClientMessages
<1>2. CASE SV_FinalMessage
  <2>1. /\ UNCHANGED <<client, cl, packet>> /\ SV_SendClientSnapshot
        /\ sv' = [sv EXCEPT !.final = @ + 1]
    BY <1>2 DEF SV_FinalMessage
  <2>2. sv'.final = sv.final + 1 /\ sv.final \in Nat
    BY <1>0, <2>1
  <2>3. ~Running'
    BY <2>2 DEF Running
  <2> QED
    BY <2>1, <2>3, SnapshotDeltaInv
<1>3. CASE SV_SendQueuedMessages
  <2>1. /\ UNCHANGED <<sv, client, frames, messages, cl, packet>>
        /\ Running /\ SV_Netchan_TransmitNextFragment
    BY <1>3 DEF SV_SendQueuedMessages, upper
  <2>2. /\ Started' \in Nat /\ Started <= Started'
        /\ outgoingSequence' \in Nat /\ outgoingSequence <= outgoingSequence'
    BY <1>0, <2>1, SendsQueued, OutgoingGrows DEF UpperInv
  <2>3. BasesAreSnapshots'
    <3>1. \A n \in 1 .. Started : n \in 1 .. Started'
      BY <1>0, <2>2
    <3> QED
      BY <2>1, <3>1 DEF DeltaInv, BasesAreSnapshots, IsSnapshot
  <2> QED
    BY <2>1, <2>2, <2>3, OtherDeltaInv
<1>4. CASE SV_SpawnServer
  <2>1. /\ UNCHANGED <<vars, frames, messages, cl, packet>> /\ Running
        /\ sv'.final = sv.final
        /\ client'.deltaMessage \in {client.deltaMessage, -1}
    BY <1>0, <1>4 DEF SV_SpawnServer, UpperInv, UpperTypeOK
  <2>2. UNCHANGED <<unsentFragments, netchan_queue, outgoingSequence>> /\ Started' = Started
    BY <2>1 DEF vars, chanvars, sender, Started
  <2>3. BasesAreSnapshots'
    BY <2>1, <2>2 DEF DeltaInv, BasesAreSnapshots, IsSnapshot
  <2>4. FramesHold' /\ BasesAgree'
    BY <2>1, <2>2 DEF DeltaInv, FramesHold, BasesAgree, IsSnapshot, Running, Busy
  <2> QED
    BY <2>3, <2>4 DEF DeltaInv
<1>5. CASE CL_WritePacket
  <2>1. /\ UNCHANGED <<vars, sv, client, frames, messages, cl>>
        /\ \E move \in {"none", Move} :
              packet' = [id |-> cl.serverId, ack |-> incomingSequence, move |-> move]
    BY <1>5 DEF CL_WritePacket
  <2>2. UNCHANGED <<unsentFragments, netchan_queue, outgoingSequence>> /\ Started' = Started
    BY <2>1 DEF vars, chanvars, sender, Started
  <2>3. packet'.move = "move" => packet'.ack = cl.snap /\ cl.snap # 0
    BY <2>1 DEF Move
  <2>4. BasesAreSnapshots'
    BY <2>1, <2>2, <2>3 DEF DeltaInv, BasesAreSnapshots, IsSnapshot
  <2> QED
    BY <1>0, <2>1, <2>2, <2>4, OtherDeltaInv
<1>6. CASE UNCHANGED allvars
  <2>1. UNCHANGED <<vars, sv, client, frames, messages, cl, packet>>
    BY <1>6 DEF allvars, upper
  <2>2. UNCHANGED <<unsentFragments, netchan_queue, outgoingSequence>> /\ Started' = Started
    BY <2>1 DEF vars, chanvars, sender, Started
  <2> QED
    BY <2>1, <2>2 DEF DeltaInv, BasesAreSnapshots, FramesHold, BasesAgree, IsSnapshot,
                      Running, Busy
<1> QED
  BY <1>1, <1>2, <1>3, <1>4, <1>5, <1>6, ExecuteDeltaInv, ReceiveDeltaInv DEF NextMessages

\* The client takes a delta from the message the server made it from: the frame
\* the server finds under the number acknowledged is the one of that message,
\* although frames are filled before the channel gives the message a number.
THEOREM DeltasHaveTheirBases == SpecMessages => []DeltaBasesAgree
<1>1. InitMessages => DeltaInv
  BY DEF InitMessages, NoPacket, DeltaInv, BasesAreSnapshots, FramesHold, BasesAgree, IsSnapshot
<1>2. UpperInv /\ DeltaInv /\ [NextMessages]_allvars => DeltaInv'
  BY StepDeltaInv
<1>3. UpperInv /\ DeltaInv => DeltaBasesAgree
  <2> SUFFICES ASSUME UpperInv, DeltaInv, NEW n \in cl.snaps, messages[n].lastframe # 0
               PROVE  messages[n].base = n - messages[n].lastframe
    BY DEF DeltaBasesAgree
  <2>1. n \in 1 .. Started
    BY DEF DeltaInv, BasesAreSnapshots
  <2>2. n \in DOMAIN messages /\ n <= Started
    <3>1. /\ Len(messages) = Started + Len(netchan_queue) /\ Len(netchan_queue) \in Nat
          /\ DOMAIN messages = 1 .. Len(messages) /\ Started \in Nat
      BY ChannelFacts, UpperTypes DEF UpperInv
    <3> QED
      BY <2>1, <3>1
  <2> QED
    BY <2>2 DEF DeltaInv, BasesAgree
<1> QED
  BY <1>1, <1>2, <1>3, MessagesInductive, PTL DEF SpecMessages
=============================================================================
