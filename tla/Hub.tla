-------------------------------- MODULE Hub --------------------------------
(***************************************************************************)
(* The event loop of server/Hub.cpp: nextEvent, handleEvent, sweep, over   *)
(* and over, in one thread.  Waiting for an event, handling it and each    *)
(* removal of the sweep are steps, and the peers may act between any two   *)
(* of them: what poll() reported can be out of date when the handler runs. *)
(* A sweep that finds nobody to remove is no step of its own: the next     *)
(* event is waited for once there is nobody left to sweep.                 *)
(*                                                                         *)
(* Some of what the code does is undefined or ends the process.  `pc' then *)
(* stops at a value of Halt that names the reason.                         *)
(***************************************************************************)
EXTENDS StateController, Network

CONSTANTS
  DeadBacklog,    \* the literal 100 of sweep()
  MaxChannels     \* bound: no CreateChannel arrives after so many channels

ASSUME HubAssumption == DeadBacklog \in Nat /\ MaxChannels \in Nat

VARIABLES
  pc,      \* what run() does next, or why it stopped
  event    \* the Event being handled, Nil when its handler has returned

vars == <<controllerVars, netVars, pc, event>>

(* "unreachable_branch": exit(1) in handleEvent.  "empty_pop": flushOne on *)
(* an empty queue.  "send_failed": SIGPIPE, or a NetworkException nobody   *)
(* catches.  "erased_client": handleInput uses the Client it has removed.  *)
(* "swept_iterator": sweep() goes on from the map entry it has erased.     *)
Halt == {"unreachable_branch", "empty_pop", "send_failed", "erased_client",
         "swept_iterator"}

Halted == pc \in Halt

(* "loop": between a handler and the next event.  "catch": in the handler  *)
(* of std::exception of handleInput.                                       *)
ProgramCounter == {"loop", "handle", "catch"} \cup Halt

Event(kind, fd) == [kind |-> kind, fd |-> fd]
Nil             == [kind |-> "Nil"]

EventType ==
  [kind : {"ConnectionRequest", "Input", "Disconnect", "OutputPossible"},
   fd : Fd \cup {ServerFd}] \cup {Nil}

TypeOK ==
  /\ ControllerTypeOK
  /\ NetworkTypeOK
  /\ pc \in ProgramCounter
  /\ event \in EventType

Init ==
  /\ ControllerInit
  /\ NetworkInit
  /\ pc = "loop"
  /\ event = Nil

-----------------------------------------------------------------------------
(* The sweep, and waiting for the next event.                              *)

hasRevents_NoHup(pfd) ==
  IF pfd.fd = ServerFd
  THEN pending > 0
  ELSE readable(pfd.fd) \/ (pfd.pollout /\ writable(pfd.fd))
hasRevents(pfd) ==
  IF pfd.fd = ServerFd
  THEN pending > 0
  ELSE disrupted(pfd.fd) \/ readable(pfd.fd) \/ (pfd.pollout /\ writable(pfd.fd))

eventOf(fd) ==
  IF disrupted(fd) THEN Event("Disconnect", fd)
  ELSE IF readable(fd) THEN Event("Input", fd)
  ELSE Event("OutputPossible", fd)

(* The indices 1..clients.size() of the code, from 0 there and from 1 here.*)
indices_Short == 2..Cardinality(clients)
indices == 2..(Cardinality(clients) + 1) \cap DOMAIN poll_fds

readyFds == {poll_fds[i].fd : i \in {j \in indices : hasRevents(poll_fds[j])}}

(* What nextEvent may return of the clients: the shuffle may put any of    *)
(* them first.                                                             *)
clientEvents_Unshuffled ==
  {eventOf(poll_fds[i].fd) :
     i \in {j \in indices : /\ hasRevents(poll_fds[j])
                           /\ \A k \in indices : k < j => ~hasRevents(poll_fds[k])}}
clientEvents == IF readyFds = {} THEN {Nil} ELSE {eventOf(fd) : fd \in readyFds}

nextEvents_ClientsFirst ==
  IF readyFds = {} THEN {Event("ConnectionRequest", poll_fds[1].fd)} ELSE clientEvents
nextEvents ==
  IF hasRevents(poll_fds[1])
  THEN {Event("ConnectionRequest", poll_fds[1].fd)}
  ELSE clientEvents

(* The clients that sweep() finds dead. *)
overLimit_Late == {c \in clients : backlogSize(c) > DeadBacklog + 1}
overLimit == {c \in clients : backlogSize(c) > DeadBacklog}

(* The range-for then reads the next pointer of a freed node, which the    *)
(* allocator may have overwritten.                                         *)
SweepRemoves(c) ==
  /\ pc = "loop"
  /\ c \in overLimit
  /\ kill(c)
  /\ removeClientByFd(c)
  /\ pc' \in {"loop", "swept_iterator"}
  /\ UNCHANGED event

(* poll() has no timeout: it returns once some descriptor has an event.    *)
NextEvent(e) ==
  /\ pc = "loop"
  /\ overLimit = {}
  /\ \E i \in DOMAIN poll_fds : hasRevents(poll_fds[i])
  /\ e \in nextEvents
  /\ event' = e
  /\ pc' = IF e = Nil THEN "unreachable_branch" ELSE "handle"
  /\ UNCHANGED <<controllerVars, netVars>>

Handling(kind, fd) == pc = "handle" /\ event = Event(kind, fd)

-----------------------------------------------------------------------------
(* ConnectionRequest and Disconnect.                                       *)

(* accept() fails when no descriptor is left; the connection stays in the  *)
(* listen queue.                                                           *)
HandleNewConnection ==
  /\ Handling("ConnectionRequest", ServerFd)
  /\ IF freeFds = {}
     THEN UNCHANGED <<controllerVars, netVars>>
     ELSE \E fd \in freeFds : accept(fd) /\ addClient(fd)
  /\ pc' = "loop"
  /\ event' = Nil

HandleDisconnect(c) ==
  /\ Handling("Disconnect", c)
  /\ kill(c)
  /\ removeClientByFd(c)
  /\ pc' = "loop"
  /\ event' = Nil

-----------------------------------------------------------------------------
(* Input: one request is received, carried out and answered.               *)

Received(c, kind) ==
  /\ Handling("Input", c)
  /\ inbox[c] # <<>>
  /\ Head(inbox[c]).kind = kind
  /\ receive(c)

(* The response is queued behind whatever the request itself has put into  *)
(* `queues', and POLLOUT switched on for the client and for `others'.      *)
Respond(c, response, queues, others) ==
  /\ poll_fds' = setPollOutByFd(others \cup {c}, TRUE)
  /\ backlog_queue' = enqueueMessage(queues, {c}, response)
  /\ pc' = "loop"
  /\ event' = Nil

(* How handleInput ends after an operation of the controller: exceptions   *)
(* derived from InvalidInputException are answered, others go to "catch".  *)
RespondTo(c, result) ==
  IF result = "out_of_range"
  THEN pc' = "catch" /\ UNCHANGED <<poll_fds, backlog_queue, event>>
  ELSE Respond(c, IF result = "none" THEN Ok ELSE InvalidRequest,
               backlog_queue, {})

HandleSubscribe(c) ==
  /\ Received(c, "Subscribe")
  /\ \E result \in Exception :
       /\ addSubscription(c, Head(inbox[c]).channel, result)
       /\ RespondTo(c, result)

HandleUnsubscribe(c) ==
  /\ Received(c, "Unsubscribe")
  /\ \E result \in Exception :
       /\ removeSubscription(c, Head(inbox[c]).channel, result)
       /\ RespondTo(c, result)

HandleCreateChannel(c) ==
  /\ Received(c, "CreateChannel")
  /\ \E result \in Exception :
       /\ addChannel(Head(inbox[c]).channel, result)
       /\ RespondTo(c, result)

HandleDeleteChannel(c) ==
  /\ Received(c, "DeleteChannel")
  /\ \E result \in Exception :
       /\ deleteChannel(Head(inbox[c]).channel, result)
       /\ RespondTo(c, result)

recipients_All(id) == clients
recipients(id) == channels[id].subscribers

(* Every subscriber's message is queued before the publisher's response.   *)
HandlePublish(c) ==
  LET request == Head(inbox[c])
      message == Message(request.channel, request.content)
  IN  /\ Received(c, "Publish")
      /\ IF channelExists(request.channel)
         THEN \E id \in channelIdByName(request.channel) :
                Respond(c, Ok, enqueueMessage(backlog_queue, recipients(id), message),
                        recipients(id))
         ELSE RespondTo(c, "ChannelNotFoundException")
      /\ UNCHANGED registryVars

HandleAsk(c) ==
  /\ Received(c, "Ask")
  /\ Respond(c, OkWithContent({channels[id].name : id \in DOMAIN channels}),
             backlog_queue, {})
  /\ UNCHANGED registryVars

(* A request that cannot be parsed, or of an unknown kind. *)
HandleMalformed(c) ==
  /\ Received(c, "Malformed")
  /\ pc' = "catch"
  /\ UNCHANGED <<controllerVars, event>>

HandleReceiveFailure(c) ==
  /\ Handling("Input", c)
  /\ receiveFails(c)
  /\ pc' = "catch"
  /\ UNCHANGED <<controllerVars, netVars, event>>

(* The client is removed, which destroys it, and then used all the same:   *)
(* its POLLOUT is switched on, which does nothing, and a response is       *)
(* pushed to its queue, in freed memory.                                   *)
CatchException ==
  /\ pc = "catch"
  /\ kill(event.fd)
  /\ removeClientByFd(event.fd)
  /\ pc' \in {"loop", "erased_client"}
  /\ event' = Nil

HandleInput(c) ==
  \/ HandleSubscribe(c)     \/ HandleUnsubscribe(c)
  \/ HandleCreateChannel(c) \/ HandleDeleteChannel(c)
  \/ HandlePublish(c)       \/ HandleAsk(c)
  \/ HandleMalformed(c)     \/ HandleReceiveFailure(c)

-----------------------------------------------------------------------------
(* OutputPossible: one queued message is sent.                             *)

(* front() and pop_front() of an empty deque: at best the process copies   *)
(* no bytes and goes on with a size() that has wrapped around, whereupon   *)
(* the sweep of the same iteration removes the client, and the destructor  *)
(* of its deque runs past the end of its storage.                          *)
FlushEmpty(c) ==
  /\ Handling("OutputPossible", c)
  /\ backlog_queue[c] = <<>>
  /\ pc' = "empty_pop"
  /\ event' = Nil
  /\ UNCHANGED <<controllerVars, netVars>>

(* POLLOUT is switched off with the last message.                          *)
disarm_Always(c) == setPollOutByFd({c}, FALSE)
disarm_Never(c)  == poll_fds
disarm(c) == IF backlogSize(c) = 1 THEN setPollOutByFd({c}, FALSE) ELSE poll_fds

FlushOne(c) ==
  /\ Handling("OutputPossible", c)
  /\ backlog_queue[c] # <<>>
  /\ send(c, Head(backlog_queue[c]))
  /\ backlog_queue' = popFront(c)
  /\ poll_fds' = disarm(c)
  /\ pc' = "loop"
  /\ event' = Nil
  /\ UNCHANGED registryVars

FlushFails(c) ==
  /\ Handling("OutputPossible", c)
  /\ backlog_queue[c] # <<>>
  /\ sendFails(c)
  /\ backlog_queue' = popFront(c)
  /\ pc' = "send_failed"
  /\ event' = Nil
  /\ UNCHANGED <<registryVars, poll_fds, netVars>>

HandleOutput(c) == FlushEmpty(c) \/ FlushOne(c) \/ FlushFails(c)

-----------------------------------------------------------------------------
HubStep ==
  \/ \E c \in Fd : SweepRemoves(c)
  \/ \E e \in nextEvents : NextEvent(e)
  \/ HandleNewConnection
  \/ \E c \in Fd : HandleDisconnect(c) \/ HandleInput(c) \/ HandleOutput(c)
  \/ CatchException

(* Nothing a peer does changes the hub, and a hub that has stopped is of   *)
(* no interest to it.                                                      *)
ByPeer(A) == ~Halted /\ A /\ UNCHANGED <<controllerVars, pc, event>>

PeerSends(c) ==
  \E request \in Traffic :
    /\ request.kind = "CreateChannel" => idGen < MaxChannels
    /\ PeerFinish(c, request)

PeerStep ==
  \/ Connect
  \/ \E c \in Fd : \/ PeerBegin(c) \/ PeerSends(c) \/ PeerRead(c)
                   \/ PeerShut(c)  \/ PeerReset(c)

Next == HubStep \/ ByPeer(PeerStep)

Spec == Init /\ [][Next]_vars

(* The hub's thread runs; the shuffle keeps none of the clients that have  *)
(* an event from coming first again and again; a peer finishes a request   *)
(* it has begun (or closes) and reads what it is sent.                     *)
Fairness ==
  /\ WF_vars(HubStep)
  /\ \A c \in Fd :
       /\ SF_vars(\E e \in nextEvents : e # Nil /\ e.fd = c /\ NextEvent(e))
       /\ WF_vars(ByPeer(PeerSends(c)))
       /\ WF_vars(ByPeer(PeerRead(c)))

FairSpec == Spec /\ Fairness

-----------------------------------------------------------------------------
(* Invariants.                                                             *)

(* A connection is open at the hub's end exactly as long as it belongs to  *)
(* a client in the map: no descriptor is leaked by a removal, and none is  *)
(* closed under a client (killConnection in removeClientByFd).             *)
DescriptorsBelongToClients == clients = Fd \ freeFds

(* clientByFd "assumes the client exists": whenever a handler runs, the    *)
(* descriptor of its event still belongs to a client, whatever removed     *)
(* clients and reused descriptors before.                                  *)
EventsAreForClients ==
  pc \in {"handle", "catch"} => event.fd \in clients \cup {ServerFd}

(* "Unreachable branch reached": poll() never returns for a descriptor     *)
(* nextEvent does not look at.                                             *)
BranchIsUnreachable == pc # "unreachable_branch"

armed(c) == \E i \in DOMAIN poll_fds : poll_fds[i].fd = c /\ poll_fds[i].pollout

(* No lost wakeup: a client with messages queued is polled for POLLOUT, so *)
(* they leave as soon as the socket takes them.                            *)
BacklogIsPolled == \A c \in clients : backlog_queue[c] # <<>> => armed(c)

(* A backlog is within the limit whenever an event is handled, and exceeds *)
(* it by no more than the two frames that a publisher which is its own     *)
(* subscriber gets in one iteration.                                       *)
BacklogIsBounded ==
  \A c \in Fd : /\ pc = "handle" => backlogSize(c) <= DeadBacklog
               /\ backlogSize(c) <= DeadBacklog + 2

-----------------------------------------------------------------------------
(* Action properties.                                                      *)

requestOf(c, kind) ==
  Handling("Input", c) /\ inbox[c] # <<>> /\ Head(inbox[c]).kind = kind

(* A client that stays gains a subscription only by its own Subscribe, and *)
(* loses one only by its own Unsubscribe or with the channel; a channel    *)
(* goes only by a DeleteChannel, not with the clients that used it.        *)
SubscriptionsAreTheClients ==
  [][/\ \A c \in clients \cap clients' :
          /\ ~(subscriptions'[c] \subseteq subscriptions[c])
               => requestOf(c, "Subscribe")
          /\ ~(subscriptions[c] \cap DOMAIN channels' \subseteq subscriptions'[c])
               => requestOf(c, "Unsubscribe")
     /\ ~(DOMAIN channels \subseteq DOMAIN channels')
          => \E c \in clients : requestOf(c, "DeleteChannel")]_vars

queued(c, frame) == backlog_queue'[c] = Append(backlog_queue[c], frame)

(* A request that is answered with an Error has changed nothing: no        *)
(* client, channel, subscription or id, and nobody else's queue.           *)
RejectedRequestsChangeNothing ==
  [][\A c \in Fd : queued(c, InvalidRequest) =>
       /\ UNCHANGED registryVars
       /\ \A other \in Fd \ {c} : backlog_queue'[other] = backlog_queue[other]]_vars

idle(c) == armed(c) /\ backlog_queue[c] = <<>>

(* Only a connection that has never been sent anything can be flushed with *)
(* nothing queued: once a client has left that state it does not return.   *)
OnlyFreshClientsAreIdle ==
  [][\A c \in clients \cap clients' :
       idle(c)' /\ pc' \notin Halt => idle(c)]_vars

exhausted == pending > 0 /\ freeFds = {}

(* When a connection waits and descriptors have run out, nextEvent returns *)
(* nothing but its ConnectionRequest: no client is served, and none that   *)
(* hangs up is removed, so that the hub never recovers.                    *)
ExhaustionIsForever ==
  [][pc = "loop" /\ overLimit = {} /\ exhausted =>
       exhausted' /\ event' \in {Nil, Event("ConnectionRequest", ServerFd)}]_vars

-----------------------------------------------------------------------------
(* Liveness, as long as descriptors do not run out.                        *)

(* Every client with a request waiting is served.                          *)
RequestsAreServed ==
  \A c \in Fd : (c \in clients /\ inbox[c] # <<>>)
                ~> (Halted \/ c \notin clients \/ Handling("Input", c))

(* Every client with messages queued is sent one, also one whose requests  *)
(* keep coming first: then its backlog grows until it is swept.            *)
BacklogsAreFlushed ==
  \A c \in Fd : (c \in clients /\ backlog_queue[c] # <<>>)
                ~> (Halted \/ c \notin clients \/ Handling("OutputPossible", c))

(* A client whose peer has gone is removed, and its descriptor freed.      *)
DisconnectsAreNoticed ==
  \A c \in Fd : (c \in clients /\ disrupted(c)) ~> (Halted \/ c \in freeFds)

-----------------------------------------------------------------------------
(* What comments in the source say, and the code does not do.              *)

(* handleOutput: "send a message to the client that can receive it".       *)
OutputHasMessage ==
  \A c \in Fd : Handling("OutputPossible", c) => backlog_queue[c] # <<>>

(* killConnection: a client "may have already disconnected on their own    *)
(* and we just need to clean up".                                          *)
DisconnectsAreCleanedUp == pc # "send_failed"

(* setPollOutByFd, of handleInput's second half: "don't do anything if the *)
(* client has been erased already".                                        *)
ErasedClientsAreLeftAlone == pc # "erased_client"
=============================================================================
