------------------------------- MODULE MCHub -------------------------------
(***************************************************************************)
(* Instances of Hub for TLC: the requests of each run and the symmetry of  *)
(* the descriptors.                                                        *)
(***************************************************************************)
EXTENDS HubRefinement

CONSTANTS news, blank, p1

On(kinds, name) == {r \in ChannelRequest : r.kind \in kinds /\ r.channel = name}

Publish(name) == [kind |-> "Publish", channel |-> name, content |-> p1]

(* Everything that creates, deletes or relates channels and clients.  (A   *)
(* peer that closes inside a request has the effect of a Malformed one.)   *)
RegistryTraffic ==
  On({"Subscribe", "Unsubscribe", "CreateChannel", "DeleteChannel"}, news)

(* The least that fills the queues of several clients, and of one. *)
PublishTraffic == On({"Subscribe", "CreateChannel"}, news) \cup {Publish(news)}

SingleTraffic == PublishTraffic \cup {Ask, Malformed}

(* Scheduling does not depend on what a request asks for, only on whether  *)
(* it is answered or its client removed, as that of a peer that closes     *)
(* inside a request is.                                                    *)
SchedulingTraffic == {Ask}

Symmetry == Permutations(Fd)
=============================================================================
