---------------------------- MODULE MessageChannel ----------------------------
(***************************************************************************)
(* What net_chan.c promises the layers above it: messages may be lost, but *)
(* those that arrive are whole, each at most once, in the order they were  *)
(* handed over, and under the number of their place in that order          *)
(* (clc.serverMessageSequence and messageAcknowledge name messages by it). *)
(***************************************************************************)
EXTENDS Integers, Sequences

CONSTANT Payload

VARIABLES sent,       \* payloads handed over, in order
          received,   \* [sequence, data] of the payloads handed up, in order
          last        \* sequence of the last one handed up

vars == <<sent, received, last>>

Init == sent = <<>> /\ received = <<>> /\ last = 0

Send(d) ==
    /\ sent' = Append(sent, d)
    /\ UNCHANGED <<received, last>>

\* Any message later than the last one; those in between are lost.
Receive(s) ==
    /\ s > last
    /\ received' = Append(received, [sequence |-> s, data |-> sent[s]])
    /\ last' = s
    /\ UNCHANGED sent

Next ==
    \/ \E d \in Payload : Send(d)
    \/ \E s \in 1 .. Len(sent) : Receive(s)

Spec == Init /\ [][Next]_vars
===============================================================================
