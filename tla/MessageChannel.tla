---------------------------- MODULE MessageChannel ----------------------------
(****************************************************************************)
(* What one direction of a Util::Connection promises: the packets one side  *)
(* passes to Send() reach the incoming queue of the other side in that      *)
(* order, each at most once, until delivery stops for good.  Connection.tla *)
(* is shown to implement this in both directions.                           *)
(****************************************************************************)
EXTENDS Naturals, Sequences

CONSTANT Packets

VARIABLES sent,         \* the packets passed to Send(), in order
          delivered     \* the packets in the incoming queue of the other side

channelVars == <<sent, delivered>>

Init == sent = << >> /\ delivered = << >>

Send == \E m \in Packets : sent' = Append(sent, m) /\ UNCHANGED delivered

Deliver ==
    /\ Len(delivered) < Len(sent)
    /\ delivered' = Append(delivered, sent[Len(delivered) + 1])
    /\ UNCHANGED sent

Next == Send \/ Deliver

Spec == Init /\ [][Next]_channelVars
==============================================================================
