---------------------------- MODULE PacketChannel ----------------------------
(***************************************************************************)
(* What the packet layer promises a client program of the servers (echo,   *)
(* remote store, logger): the packets of the other side arrive whole, once *)
(* and in the order they were sent, and every one arrives, unless the      *)
(* client stops listening first or the connection breaks.  When the client *)
(* is told that the other side has closed the connection it has got all.   *)
(***************************************************************************)
EXTENDS Integers, Sequences

CONSTANTS
  Payloads,   (* what may be sent                    *)
  MaxSends    (* bound: packets sent in a behaviour  *)

VARIABLES
  sent,       (* the payloads sent, in order                              *)
  delivered,  (* the payloads handed to OnRecvPacket so far               *)
  ended       (* "no"; "left": stopped or broken; "closed": told it is    *)

vars == <<sent, delivered, ended>>

Init == sent = <<>> /\ delivered = <<>> /\ ended = "no"

Send(p) ==
  /\ Len(sent) < MaxSends /\ ended # "closed"
  /\ sent' = Append(sent, p)
  /\ UNCHANGED <<delivered, ended>>

Deliver ==
  /\ ended = "no"
  /\ Len(delivered) < Len(sent)
  /\ delivered' = Append(delivered, sent[Len(delivered) + 1])
  /\ UNCHANGED <<sent, ended>>

Leave ==
  /\ ended = "no"
  /\ ended' = "left"
  /\ UNCHANGED <<sent, delivered>>

Closed ==
  /\ ended = "no" /\ delivered = sent
  /\ ended' = "closed"
  /\ UNCHANGED <<sent, delivered>>

Next == (\E p \in Payloads : Send(p)) \/ Deliver \/ Leave \/ Closed

Spec == Init /\ [][Next]_vars /\ WF_vars(Deliver)
=============================================================================
