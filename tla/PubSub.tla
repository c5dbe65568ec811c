------------------------------- MODULE PubSub -------------------------------
(***************************************************************************)
(* What the server promises its peers: requests of a connection are        *)
(* carried out one at a time and in order, each in a single step; what a   *)
(* peer is sent comes in the order of those steps; nothing is lost while   *)
(* the connection lasts.  There is no event loop here, no pollfd, id,      *)
(* backlog or socket buffer.  The refinement Hub => PubSub is in           *)
(* HubRefinement.                                                          *)
(***************************************************************************)
EXTENDS Protocol, FiniteSets, SequencesExt

CONSTANT Peer      \* the connections there can be at one time

VARIABLES
  up,           \* the process runs
  members,      \* the connections that the server has accepted
  broken,       \* those of them that a reset has cut
  subscribers,  \* for the name of each channel, the members subscribed to it
  requests,     \* requests[p]: sent by p and not yet carried out
  mailbox       \* mailbox[p]: what p has been sent or is to be sent

pubSubVars == <<up, members, broken, subscribers, requests, mailbox>>

noChannels == [name \in {} |-> {}]
nothing    == [p \in Peer |-> <<>>]

Init ==
  /\ up = TRUE
  /\ members = {}
  /\ broken = {}
  /\ subscribers = noChannels
  /\ requests = nothing
  /\ mailbox = nothing

-----------------------------------------------------------------------------
(* Connections.                                                            *)

Join(p) ==
  /\ up /\ p \notin members
  /\ members' = members \cup {p}
  /\ UNCHANGED <<up, broken, subscribers, requests, mailbox>>

without(p) == [name \in DOMAIN subscribers |-> subscribers[name] \ {p}]

(* Whether the peer closed or the server gave it up, what it was subscribed *)
(* to, had asked for and was to be sent goes; the channels stay.           *)
Leave(p) ==
  /\ up /\ p \in members
  /\ members' = members \ {p}
  /\ broken' = broken \ {p}
  /\ subscribers' = without(p)
  /\ requests' = [requests EXCEPT ![p] = <<>>]
  /\ mailbox' = [mailbox EXCEPT ![p] = <<>>]
  /\ UNCHANGED up

Send(p, request) ==
  /\ up /\ p \in members \ broken
  /\ requests' = [requests EXCEPT ![p] = Append(@, request)]
  /\ UNCHANGED <<up, members, broken, subscribers, mailbox>>

Read(p) ==
  /\ up /\ p \in members \ broken /\ mailbox[p] # <<>>
  /\ mailbox' = [mailbox EXCEPT ![p] = Tail(@)]
  /\ UNCHANGED <<up, members, broken, subscribers, requests>>

(* What is on its way when the connection breaks does not arrive. *)
Break(p) ==
  /\ up /\ p \in members \ broken
  /\ broken' = broken \cup {p}
  /\ \E rest \in Suffixes(mailbox[p]) : mailbox' = [mailbox EXCEPT ![p] = rest]
  /\ UNCHANGED <<up, members, subscribers, requests>>

(* Nothing is stored: with the process all channels are gone, and what had *)
(* not been given to the kernel.                                           *)
Crash ==
  /\ up /\ up' = FALSE
  /\ members' = {} /\ broken' = {} /\ subscribers' = noChannels
  /\ requests' = nothing
  /\ mailbox' \in [Peer -> UNION {Prefixes(mailbox[p]) : p \in Peer}]
  /\ \A p \in Peer : mailbox'[p] \in Prefixes(mailbox[p])

-----------------------------------------------------------------------------
(* Requests.                                                               *)

exists(name) == name \in DOMAIN subscribers

(* The oldest request of p is taken; `mailbox' and `subscribers' are left  *)
(* to its effect.                                                          *)
Take(p, kind) ==
  /\ up /\ p \in members
  /\ requests[p] # <<>> /\ Head(requests[p]).kind = kind
  /\ requests' = [requests EXCEPT ![p] = Tail(@)]
  /\ UNCHANGED <<up, members, broken>>

post(boxes, P, frame) ==
  [p \in Peer |-> IF p \in P THEN Append(boxes[p], frame) ELSE boxes[p]]

Answer(p, response) == mailbox' = post(mailbox, {p}, response)

(* A request that can be granted changes the channels and is answered Ok;  *)
(* any other is answered with an error and changes nothing.                *)
GrantIf_Silent(p, condition, granted) ==
  IF condition THEN Answer(p, Ok) /\ subscribers' = granted
               ELSE UNCHANGED <<mailbox, subscribers>>
GrantIf(p, condition, granted) ==
  IF condition THEN Answer(p, Ok) /\ subscribers' = granted
               ELSE Answer(p, InvalidRequest) /\ UNCHANGED subscribers

Subscribe(p) ==
  LET name == Head(requests[p]).channel
  IN  /\ Take(p, "Subscribe")
      /\ GrantIf(p, exists(name), [subscribers EXCEPT ![name] = @ \cup {p}])

Unsubscribe(p) ==
  LET name == Head(requests[p]).channel
  IN  /\ Take(p, "Unsubscribe")
      /\ GrantIf(p, exists(name), [subscribers EXCEPT ![name] = @ \ {p}])

CreateChannel(p) ==
  LET name == Head(requests[p]).channel
  IN  /\ Take(p, "CreateChannel")
      /\ GrantIf(p, ~exists(name) /\ name \notin WhitespaceName,
                 [n \in DOMAIN subscribers \cup {name} |->
                    IF exists(n) THEN subscribers[n] ELSE {}])

DeleteChannel(p) ==
  LET name == Head(requests[p]).channel
  IN  /\ Take(p, "DeleteChannel")
      /\ GrantIf(p, exists(name),
                 [n \in DOMAIN subscribers \ {name} |-> subscribers[n]])

Publish(p) ==
  LET name    == Head(requests[p]).channel
      message == Message(name, Head(requests[p]).content)
  IN  /\ Take(p, "Publish")
      /\ IF exists(name)
         THEN mailbox' = post(post(mailbox, subscribers[name], message), {p}, Ok)
         ELSE Answer(p, InvalidRequest)
      /\ UNCHANGED subscribers

ListChannels(p) ==
  /\ Take(p, "Ask")
  /\ Answer(p, OkWithContent(DOMAIN subscribers))
  /\ UNCHANGED subscribers

(* A request that is none is not answered; its sender will be removed. *)
Reject(p) == Take(p, "Malformed") /\ UNCHANGED <<subscribers, mailbox>>

Serve(p) ==
  \/ Subscribe(p)     \/ Unsubscribe(p) \/ CreateChannel(p) \/ DeleteChannel(p)
  \/ Publish(p)       \/ ListChannels(p) \/ Reject(p)

-----------------------------------------------------------------------------
Next ==
  \/ \E p \in Peer : \/ Join(p) \/ Leave(p) \/ Read(p) \/ Break(p) \/ Serve(p)
                     \/ \E request \in Request : Send(p, request)
  \/ Crash

Spec == Init /\ [][Next]_pubSubVars
=============================================================================
