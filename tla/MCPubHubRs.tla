----------------------------- MODULE MCPubHubRs -----------------------------
(***************************************************************************)
(* Instances of PubHubRs for TLC: one connection of the library and one    *)
(* other peer, two channels.                                               *)
(***************************************************************************)
EXTENDS PubHubRs

CONSTANTS news, chat, p1

Named(kind, name) == [kind |-> kind, channel |-> name]

MyRequests == {Named("CreateChannel", news), Named("DeleteChannel", news), Ask}

OthersRequests ==
  {Named("CreateChannel", chat),
   [kind |-> "Publish", channel |-> news, content |-> p1]}
=============================================================================
