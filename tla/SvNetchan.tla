------------------------------ MODULE SvNetchan ------------------------------
(***************************************************************************)
(* The server's use of the channel (code/server/sv_net_chan.c): a message  *)
(* that cannot go out because an earlier one is still being fragmented is  *)
(* queued, and SV_SendQueuedMessages sends a fragment or a queued message  *)
(* per call.                                                               *)
(***************************************************************************)
EXTENDS Netchan

CONSTANT MaxMessages   \* bound: messages the server hands over in a behaviour

ASSUME SvNetchanAssumption == MaxMessages \in Nat

VARIABLES
    netchan_queue,     \* netchan_start_queue .. netchan_end_queue
    handed             \* history: the messages given to SV_Netchan_Transmit

vars == <<chanvars, netchan_queue, handed>>

Init ==
    /\ Netchan_Setup
    /\ netchan_queue = <<>>
    /\ handed = <<>>

\* Mutant: only the message being fragmented counts, not the queue.
Busy_QueueForgotten == unsentFragments

Busy == unsentFragments \/ netchan_queue # <<>>

SV_Netchan_Transmit(m) ==
    /\ Len(handed) < MaxMessages
    /\ handed' = Append(handed, m)
    /\ \/ /\ Busy
          /\ netchan_queue' = Append(netchan_queue, m)
          /\ UNCHANGED chanvars
       \/ /\ ~Busy
          /\ Netchan_Transmit(m)
          /\ UNCHANGED netchan_queue

SV_Netchan_TransmitNextInQueue ==
    /\ Netchan_Transmit(Head(netchan_queue))
    /\ netchan_queue' = Tail(netchan_queue)

\* Mutant: the queue is not looked at once the fragments are out.
SV_Netchan_TransmitNextFragment_NoQueue ==
    /\ unsentFragments
    /\ Netchan_TransmitNextFragment
    /\ UNCHANGED <<netchan_queue, handed>>

SV_Netchan_TransmitNextFragment ==
    /\ \/ /\ unsentFragments
          /\ Netchan_TransmitNextFragment
          /\ UNCHANGED netchan_queue
       \/ /\ ~unsentFragments
          /\ netchan_queue # <<>>
          /\ SV_Netchan_TransmitNextInQueue
    /\ UNCHANGED handed

ReceiveDatagram ==
    /\ \E p \in network : Netchan_Process(p)
    /\ UNCHANGED <<netchan_queue, handed>>

Next ==
    \/ \E m \in Message : SV_Netchan_Transmit(m)
    \/ SV_Netchan_TransmitNextFragment
    \/ ReceiveDatagram

Spec == Init /\ [][Next]_vars

\* SV_SendQueuedMessages runs in every pass of SV_SendQueuedPackets, and
\* SV_RateMsec only ever delays it.
FairSpec == Spec /\ WF_vars(SV_Netchan_TransmitNextFragment)

-----------------------------------------------------------------------------
TypeOK ==
    /\ ChanTypeOK
    /\ netchan_queue \in Seq(Message)
    /\ handed \in Seq(Message)

\* How many of the messages handed over have left the queue.
Started == IF unsentFragments THEN outgoingSequence ELSE outgoingSequence - 1

(***************************************************************************)
(* The n-th message handed to SV_Netchan_Transmit is the one received with *)
(* sequence number n ("make sure they get sent in correct order"): the     *)
(* queue never lets a snapshot overtake or overwrite a gamestate that is   *)
(* still being fragmented.                                                 *)
(***************************************************************************)
SequenceIsOrderHanded ==
    \A i \in 1 .. Len(received) :
        /\ received[i].sequence \in 1 .. Len(handed)
        /\ received[i].data = Content(handed[received[i].sequence])

(***************************************************************************)
(* Every message handed over is eventually sent to its last fragment,      *)
(* including one whose length is a multiple of FRAGMENT_SIZE.              *)
(***************************************************************************)
EverythingIsSent ==
    \A n \in 1 .. MaxMessages : (Len(handed) >= n) ~> (outgoingSequence > n)

(***************************************************************************)
(* The channel with its fragments, queue and reassembly implements the     *)
(* abstract one: reassembly and fragmentation are invisible.               *)
(***************************************************************************)
Channel == INSTANCE MessageChannel
             WITH Payload  <- {Content(m) : m \in Message},
                  sent     <- [i \in 1 .. Len(handed) |-> Content(handed[i])],
                  received <- received,
                  last     <- incomingSequence

ChannelSpec == Channel!Spec
=============================================================================
