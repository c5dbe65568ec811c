----------------------------- MODULE HubProofs -----------------------------
(***************************************************************************)
(* The safety theorems of the hub, for every set of descriptors, channel   *)
(* names and requests and every limit: the inductive invariant Inv and     *)
(* what follows from it.                                                   *)
(***************************************************************************)
EXTENDS Hub, StateControllerProofs

QueuesOK == backlog_queue \in [Fd -> Seq(Frame)]

(* A ConnectionRequest is handled while a connection is still waiting:     *)
(* nobody but accept() takes one from the listen queue.                    *)
ConnectionWaits == pc = "handle" /\ event.kind = "ConnectionRequest" => pending > 0

(* The client whose removal is due has not been removed already. *)
CaughtIsClient == pc = "catch" => event.fd \in clients

LoopInv ==
  /\ pc \in ProgramCounter
  /\ event \in EventType
  /\ EventsAreForClients
  /\ CaughtIsClient
  /\ ConnectionWaits
  /\ BranchIsUnreachable

Inv ==
  /\ RegistryInv
  /\ PollInv
  /\ QueuesOK
  /\ NetworkTypeOK
  /\ DescriptorsBelongToClients
  /\ LoopInv

-----------------------------------------------------------------------------
(* The hub starts without clients, waiting for its first event.            *)
LEMMA InitEstablishes ==
  ASSUME Init
  PROVE  Inv
<1>1. RegistryInv /\ PollInv
  BY RegistryInit, PollInit DEF Init
<1>2. QueuesOK
  BY DEF Init, ControllerInit, ClientInit, QueuesOK
<1>3. NetworkTypeOK
  BY DEF Init, NetworkInit, NetworkTypeOK, PeerState
<1>4. DescriptorsBelongToClients
  BY DEF Init, ControllerInit, NetworkInit, DescriptorsBelongToClients, freeFds
<1>5. LoopInv
  BY DEF Init, LoopInv, ProgramCounter, Halt, EventType, EventsAreForClients,
     CaughtIsClient, ConnectionWaits, BranchIsUnreachable
<1>. QED
  BY <1>1, <1>2, <1>3, <1>4, <1>5 DEF Inv

(* Inv speaks of vars alone. *)
LEMMA StutterPreserves ==
  ASSUME Inv, UNCHANGED vars
  PROVE  Inv'
<1>1. /\ UNCHANGED <<clients, subscriptions, channels, idGen, backlog_queue, poll_fds>>
      /\ UNCHANGED <<pending, peer, inbox, partial, wire, pc, event>>
      /\ UNCHANGED registryVars
  BY DEF vars, controllerVars, registryVars, netVars
<1>2. RegistryInv'
  BY <1>1, RegistryUnchanged DEF Inv
<1>3. PollInv'
  BY <1>1 DEF Inv, PollInv, PollFdsMatchClients
<1>4. QueuesOK' /\ NetworkTypeOK' /\ DescriptorsBelongToClients'
  BY <1>1 DEF Inv, QueuesOK, NetworkTypeOK, DescriptorsBelongToClients, freeFds
<1>5. LoopInv'
  BY <1>1 DEF Inv, LoopInv, EventsAreForClients, CaughtIsClient, ConnectionWaits,
     BranchIsUnreachable
<1>. QED
  BY <1>2, <1>3, <1>4, <1>5 DEF Inv

-----------------------------------------------------------------------------
(* Peers neither open nor close a descriptor of the hub, and take nobody   *)
(* out of the listen queue.                                                *)
LEMMA PeersKeepDescriptors ==
  ASSUME Inv, ByPeer(PeerStep)
  PROVE  NetworkTypeOK' /\ freeFds' = freeFds /\ pending' \in {pending, pending + 1}
<1>. USE DEF Inv, NetworkTypeOK
<1>1. CASE Connect
  BY <1>1 DEF Connect, freeFds
<1>2. ASSUME NEW c \in Fd, PeerBegin(c)
      PROVE  NetworkTypeOK' /\ freeFds' = freeFds /\ pending' = pending
  BY <1>2 DEF PeerBegin, freeFds
<1>3. ASSUME NEW c \in Fd, PeerSends(c)
      PROVE  NetworkTypeOK' /\ freeFds' = freeFds /\ pending' = pending
  BY <1>3 DEF PeerSends, PeerFinish, freeFds
<1>4. ASSUME NEW c \in Fd, PeerRead(c)
      PROVE  NetworkTypeOK' /\ freeFds' = freeFds /\ pending' = pending
  BY <1>4 DEF PeerRead, freeFds
<1>5. ASSUME NEW c \in Fd, PeerShut(c)
      PROVE  NetworkTypeOK' /\ freeFds' = freeFds /\ pending' = pending
  BY <1>5 DEF PeerShut, freeFds, PeerState
<1>6. ASSUME NEW c \in Fd, PeerReset(c)
      PROVE  NetworkTypeOK' /\ freeFds' = freeFds /\ pending' = pending
  BY <1>6 DEF PeerReset, freeFds, PeerState
<1>. QED
  BY <1>1, <1>2, <1>3, <1>4, <1>5, <1>6 DEF ByPeer, PeerStep

(* Whatever the peers do, the controller's data, the loop and which        *)
(* descriptors are in use stay as they are.                                *)
LEMMA PeerPreserves ==
  ASSUME Inv, ByPeer(PeerStep)
  PROVE  Inv'
<1>1. /\ UNCHANGED <<clients, subscriptions, channels, idGen, backlog_queue, poll_fds>>
      /\ UNCHANGED <<pc, event>>
      /\ UNCHANGED registryVars
  BY DEF ByPeer, controllerVars, registryVars
<1>2. NetworkTypeOK' /\ freeFds' = freeFds /\ pending' \in {pending, pending + 1}
  BY PeersKeepDescriptors
<1>3. RegistryInv'
  BY <1>1, RegistryUnchanged DEF Inv
<1>4. PollInv'
  BY <1>1 DEF Inv, PollInv, PollFdsMatchClients
<1>5. QueuesOK' /\ DescriptorsBelongToClients'
  BY <1>1, <1>2 DEF Inv, QueuesOK, DescriptorsBelongToClients
<1>6. LoopInv'
  BY <1>1, <1>2 DEF Inv, LoopInv, EventsAreForClients, CaughtIsClient, ConnectionWaits,
     BranchIsUnreachable, NetworkTypeOK
<1>. QED
  BY <1>2, <1>3, <1>4, <1>5, <1>6 DEF Inv

-----------------------------------------------------------------------------
(* What a step of the hub leaves behind for the loop: no event is handled  *)
(* and no removal is due.                                                  *)
LEMMA LoopRests ==
  ASSUME pc' \in {"loop"} \cup (Halt \ {"unreachable_branch"}), event' \in EventType
  PROVE  LoopInv'
BY DEF LoopInv, ProgramCounter, Halt, EventsAreForClients, CaughtIsClient,
   ConnectionWaits, BranchIsUnreachable

(* The loop looks at every pollfd: the server's is first and the indices   *)
(* of nextEvent are those of all the others.  So poll() never returns for  *)
(* a descriptor that yields Nil, and what it yields belongs to a client.   *)
LEMMA EventsHaveOwners ==
  ASSUME Inv, NEW e, NextEvent(e)
  PROVE  \/ e = Event("ConnectionRequest", ServerFd) /\ pending > 0
         \/ \E fd \in clients : e = eventOf(fd)
<1>1. /\ DOMAIN poll_fds = 1..Len(poll_fds)
      /\ Len(poll_fds) = Cardinality(clients) + 1
      /\ Cardinality(clients) \in Nat
      /\ poll_fds[1].fd = ServerFd
      /\ {poll_fds[i].fd : i \in 2..Len(poll_fds)} = clients
  BY LenProperties, FS_CardinalityType DEF Inv, PollInv, PollFdsMatchClients
<1>2. indices = 2..Len(poll_fds)
  BY <1>1 DEF indices
<1>3. readyFds \subseteq clients
  BY <1>1, <1>2 DEF readyFds
<1>4. CASE hasRevents(poll_fds[1])
  BY <1>1, <1>4 DEF NextEvent, nextEvents, hasRevents
<1>5. CASE ~hasRevents(poll_fds[1])
  <2>1. PICK i \in DOMAIN poll_fds : hasRevents(poll_fds[i])
    BY DEF NextEvent
  <2>2. i \in 2..Len(poll_fds)
    BY <1>1, <1>5, <2>1
  <2>3. poll_fds[i].fd \in readyFds
    BY <1>2, <2>1, <2>2 DEF readyFds
  <2>. QED
    BY <1>3, <1>5, <2>3 DEF NextEvent, nextEvents, clientEvents
<1>. QED
  BY <1>4, <1>5

(* Waiting for an event changes nothing but the event to be handled.       *)
LEMMA NextEventPreserves ==
  ASSUME Inv, NEW e, NextEvent(e)
  PROVE  Inv'
<1>1. /\ UNCHANGED <<clients, subscriptions, channels, idGen, backlog_queue, poll_fds>>
      /\ UNCHANGED <<pending, peer, inbox, partial, wire>>
      /\ UNCHANGED registryVars
  BY DEF NextEvent, controllerVars, registryVars, netVars
<1>2. RegistryInv'
  BY <1>1, RegistryUnchanged DEF Inv
<1>3. PollInv'
  BY <1>1 DEF Inv, PollInv, PollFdsMatchClients
<1>4. QueuesOK' /\ NetworkTypeOK' /\ DescriptorsBelongToClients'
  BY <1>1 DEF Inv, QueuesOK, NetworkTypeOK, DescriptorsBelongToClients, freeFds
<1>5. LoopInv'
  <2>1. clients \subseteq Fd
    BY DEF Inv, PollInv
  <2>2. /\ e # Nil /\ e \in EventType
        /\ e.fd \in clients \cup {ServerFd}
        /\ e.kind = "ConnectionRequest" => pending > 0
    <3>1. CASE e = Event("ConnectionRequest", ServerFd) /\ pending > 0
      BY <3>1 DEF Event, Nil, EventType
    <3>2. CASE \E fd \in clients : e = eventOf(fd)
      BY <2>1, <3>2 DEF Event, Nil, EventType, eventOf
    <3>. QED
      BY <3>1, <3>2, EventsHaveOwners
  <2>3. pc' = "handle" /\ event' = e
    BY <2>2 DEF NextEvent
  <2>. QED
    BY <1>1, <2>2, <2>3 DEF LoopInv, ProgramCounter, EventsAreForClients,
       CaughtIsClient, ConnectionWaits, BranchIsUnreachable
<1>. QED
  BY <1>2, <1>3, <1>4, <1>5 DEF Inv

-----------------------------------------------------------------------------
(* Connections.                                                            *)

(* A client that is killed and removed leaves no trace: the descriptor,    *)
(* the subscriptions, the queue and the pollfd go in the same step.        *)
LEMMA RemovalPreserves ==
  ASSUME Inv, NEW c \in clients, kill(c), removeClientByFd(c)
  PROVE  RegistryInv' /\ PollInv' /\ QueuesOK' /\ NetworkTypeOK'
           /\ DescriptorsBelongToClients'
<1>1. c \in Fd
  BY DEF Inv, PollInv
<1>2. RegistryInv'
  BY <1>1, RemoveClientPreserves DEF Inv
<1>3. PollInv'
  BY ErasePollFdPreserves DEF Inv
<1>4. QueuesOK'
  <2>1. <<>> \in Seq(Frame)
    OBVIOUS
  <2>. QED
    BY <1>1, <2>1 DEF Inv, QueuesOK, removeClientByFd, destroyClient
<1>5. NetworkTypeOK'
  <2>1. <<>> \in Seq(Frame) /\ <<>> \in Seq(Traffic)
    OBVIOUS
  <2>. QED
    BY <1>1, <2>1 DEF Inv, NetworkTypeOK, kill, PeerState
<1>6. DescriptorsBelongToClients'
  <2>1. freeFds' = freeFds \cup {c}
    BY <1>1 DEF Inv, NetworkTypeOK, kill, freeFds
  <2>. QED
    BY <2>1 DEF Inv, DescriptorsBelongToClients, removeClientByFd
<1>. QED
  BY <1>2, <1>3, <1>4, <1>5, <1>6

(* accept() returns a descriptor that no client has, so the new client's   *)
(* pollfd is the only one with it.                                         *)
LEMMA ConnectionPreserves ==
  ASSUME Inv, HandleNewConnection
  PROVE  Inv'
<1>1. LoopInv'
  BY LoopRests DEF HandleNewConnection, EventType
<1>2. CASE freeFds = {}
  <2>1. /\ UNCHANGED <<clients, subscriptions, channels, idGen, backlog_queue, poll_fds>>
        /\ UNCHANGED <<pending, peer, inbox, partial, wire>>
        /\ UNCHANGED registryVars
    BY <1>2 DEF HandleNewConnection, controllerVars, registryVars, netVars
  <2>2. RegistryInv'
    BY <2>1, RegistryUnchanged DEF Inv
  <2>3. PollInv'
    BY <2>1 DEF Inv, PollInv, PollFdsMatchClients
  <2>4. QueuesOK' /\ NetworkTypeOK' /\ DescriptorsBelongToClients'
    BY <2>1 DEF Inv, QueuesOK, NetworkTypeOK, DescriptorsBelongToClients, freeFds
  <2>. QED
    BY <1>1, <2>2, <2>3, <2>4 DEF Inv
<1>3. CASE freeFds # {}
  <2>1. PICK fd \in freeFds : accept(fd) /\ addClient(fd)
    BY <1>3 DEF HandleNewConnection
  <2>2. fd \in Fd /\ fd \notin clients
    BY DEF Inv, DescriptorsBelongToClients, freeFds
  <2>3. RegistryInv'
    BY <2>1, <2>2, AddClientPreserves DEF Inv
  <2>4. PollInv'
    BY <2>1, <2>2, AddPollFdPreserves DEF Inv
  <2>5. QueuesOK'
    BY <2>1 DEF Inv, QueuesOK, addClient
  <2>6. pending > 0
    BY DEF Inv, LoopInv, ConnectionWaits, HandleNewConnection, Handling, Event
  <2>7. NetworkTypeOK' /\ freeFds' = freeFds \ {fd}
    BY <2>1, <2>2, <2>6 DEF Inv, NetworkTypeOK, accept, freeFds, PeerState
  <2>8. DescriptorsBelongToClients'
    BY <2>1, <2>2, <2>7 DEF Inv, DescriptorsBelongToClients, addClient
  <2>. QED
    BY <1>1, <2>3, <2>4, <2>5, <2>7, <2>8 DEF Inv
<1>. QED
  BY <1>2, <1>3

(* sweep removes only keys of the map. *)
LEMMA SweepPreserves ==
  ASSUME Inv, NEW c \in Fd, SweepRemoves(c)
  PROVE  Inv'
<1>1. c \in clients
  BY DEF SweepRemoves, overLimit
<1>2. LoopInv'
  BY LoopRests DEF SweepRemoves, Halt, Inv, LoopInv
<1>. QED
  BY <1>1, <1>2, RemovalPreserves DEF SweepRemoves, Inv

(* The descriptor of the event being handled is a client's. *)
LEMMA HandledIsClient ==
  ASSUME Inv, NEW c \in Fd, NEW kind, Handling(kind, c)
  PROVE  c \in clients
BY FdAssumption DEF Inv, LoopInv, EventsAreForClients, Handling, Event

(* A Disconnect is handled for a client of the map. *)
LEMMA DisconnectPreserves ==
  ASSUME Inv, NEW c \in Fd, HandleDisconnect(c)
  PROVE  Inv'
<1>1. c \in clients
  BY HandledIsClient DEF HandleDisconnect
<1>2. LoopInv'
  BY LoopRests DEF HandleDisconnect, EventType
<1>. QED
  BY <1>1, <1>2, RemovalPreserves DEF HandleDisconnect, Inv

(* The client whose request was refused is still in the map. *)
LEMMA CatchPreserves ==
  ASSUME Inv, CatchException
  PROVE  Inv'
<1>1. event.fd \in clients
  BY DEF CatchException, Inv, LoopInv, CaughtIsClient
<1>2. LoopInv'
  BY LoopRests DEF CatchException, EventType, Halt
<1>. QED
  BY <1>1, <1>2, RemovalPreserves DEF CatchException, Inv

-----------------------------------------------------------------------------
(* Input.                                                                  *)

(* Receiving a request takes it from the inbox of the client and leaves    *)
(* the connections alone.                                                  *)
LEMMA ReceivedRequest ==
  ASSUME Inv, NEW c \in Fd, NEW kind, Received(c, kind)
  PROVE  /\ c \in clients
         /\ NetworkTypeOK' /\ freeFds' = freeFds
         /\ Head(inbox[c]) \in Request /\ Head(inbox[c]).kind = kind
<1>1. c \in clients
  BY HandledIsClient DEF Received
<1>2. inbox[c] \in Seq(Traffic) /\ inbox[c] # <<>>
  BY DEF Received, Inv, NetworkTypeOK
<1>3. Head(inbox[c]) \in Traffic /\ Tail(inbox[c]) \in Seq(Traffic)
  BY <1>2
<1>4. Head(inbox[c]) \in Request
  BY <1>3, NetworkAssumption
<1>5. NetworkTypeOK' /\ freeFds' = freeFds
  BY <1>3 DEF Received, receive, Inv, NetworkTypeOK, freeFds
<1>. QED
  BY <1>1, <1>4, <1>5 DEF Received

(* What requests carry, by their kinds. *)
LEMMA RequestMembers ==
  ASSUME NEW request \in Request
  PROVE  /\ request.kind \in {"Subscribe", "Unsubscribe", "CreateChannel",
                              "DeleteChannel", "Publish"}
              => request.channel \in ChannelName
         /\ request.kind = "Publish" => request.content \in Content
BY DEF Request, ChannelRequest, PublishRequest, Ask, Malformed

(* Every response is a frame, and so is every message of a publication.    *)
LEMMA FrameTypes ==
  /\ Ok \in Frame /\ InvalidRequest \in Frame
  /\ \A names \in SUBSET (ChannelName \cup {EmptyName}) : OkWithContent(names) \in Frame
  /\ \A name \in ChannelName, content \in Content : Message(name, content) \in Frame
BY DEF Ok, InvalidRequest, OkWithContent, Response, Message, Frame

(* Queues stay queues of frames when one is pushed to some of them. *)
LEMMA EnqueueTypes ==
  ASSUME NEW queues \in [Fd -> Seq(Frame)], NEW C, NEW msg \in Frame
  PROVE  enqueueMessage(queues, C, msg) \in [Fd -> Seq(Frame)]
<1>1. \A c \in Fd : Append(queues[c], msg) \in Seq(Frame)
  BY AppendProperties
<1>. QED
  BY <1>1 DEF enqueueMessage

(* Answering a request leaves the loop at rest and the pollfds and queues  *)
(* well formed.                                                            *)
LEMMA RespondPreserves ==
  ASSUME Inv, UNCHANGED clients, NEW c, NEW response \in Frame, NEW others,
         NEW queues \in [Fd -> Seq(Frame)], Respond(c, response, queues, others)
  PROVE  PollInv' /\ QueuesOK' /\ LoopInv'
<1>1. PollInv'
  BY SetPollOutPreserves DEF Respond, Inv
<1>2. QueuesOK'
  BY EnqueueTypes DEF Respond, QueuesOK
<1>3. LoopInv'
  BY LoopRests DEF Respond, EventType
<1>. QED
  BY <1>1, <1>2, <1>3

(* handleInput's try block ends with a response or with the removal of a   *)
(* client that is still there.                                             *)
LEMMA RespondToPreserves ==
  ASSUME Inv, UNCHANGED clients, NEW c \in clients, Handling("Input", c),
         NEW result, RespondTo(c, result)
  PROVE  PollInv' /\ QueuesOK' /\ LoopInv'
<1>1. CASE result = "out_of_range"
  <2>1. pc' = "catch" /\ UNCHANGED <<poll_fds, backlog_queue, event>>
    BY <1>1 DEF RespondTo
  <2>2. PollInv' /\ QueuesOK'
    BY <2>1 DEF Inv, PollInv, PollFdsMatchClients, QueuesOK
  <2>3. LoopInv'
    BY <2>1 DEF Inv, LoopInv, Handling, Event, ProgramCounter, EventsAreForClients,
       CaughtIsClient, ConnectionWaits, BranchIsUnreachable
  <2>. QED
    BY <2>2, <2>3
<1>2. CASE result # "out_of_range"
  <2>. DEFINE response == IF result = "none" THEN Ok ELSE InvalidRequest
  <2>1. response \in Frame
    BY FrameTypes
  <2>2. Respond(c, response, backlog_queue, {})
    BY <1>2 DEF RespondTo
  <2>. HIDE DEF response
  <2>. QED
    BY <2>1, <2>2, RespondPreserves DEF Inv, QueuesOK
<1>. QED
  BY <1>1, <1>2

(* The clients a deleted channel lists are all in the map, so the          *)
(* operator[] of deleteChannel adds none.                                  *)
LEMMA DeleteChannelKeepsClients ==
  ASSUME RegistryInv, NEW name, NEW result, deleteChannel(name, result)
  PROVE  UNCHANGED clients
<1>1. \A id \in channelIdByName(name) : channels[id].subscribers \subseteq clients
  BY DEF channelIdByName, RegistryInv, SubscriptionsMatchSubscribers
<1>. QED
  BY <1>1 DEF deleteChannel

(* A handler that has changed the registry soundly, and no client of it,   *)
(* and ended with RespondTo, preserves the invariant.                      *)
LEMMA HandledPreserves ==
  ASSUME Inv, NEW c \in Fd, NEW kind, Received(c, kind),
         RegistryInv', UNCHANGED clients, NEW result, RespondTo(c, result)
  PROVE  Inv'
<1>1. c \in clients /\ NetworkTypeOK' /\ freeFds' = freeFds
  BY ReceivedRequest
<1>2. PollInv' /\ QueuesOK' /\ LoopInv'
  BY <1>1, RespondToPreserves DEF Received
<1>3. DescriptorsBelongToClients'
  BY <1>1 DEF Inv, DescriptorsBelongToClients
<1>. QED
  BY <1>1, <1>2, <1>3 DEF Inv

(* Subscribe: the client whose request it is is in the map, so             *)
(* clients.at() does not throw after the channel has been changed.         *)
LEMMA SubscribePreserves ==
  ASSUME Inv, NEW c \in Fd, HandleSubscribe(c)
  PROVE  Inv'
<1>1. PICK result \in Exception :
        addSubscription(c, Head(inbox[c]).channel, result) /\ RespondTo(c, result)
  BY DEF HandleSubscribe
<1>2. Received(c, "Subscribe") /\ c \in clients
  BY ReceivedRequest DEF HandleSubscribe
<1>3. RegistryInv'
  BY <1>1, <1>2, AddSubscriptionPreserves DEF Inv
<1>4. UNCHANGED clients
  BY <1>1 DEF addSubscription
<1>. QED
  BY <1>1, <1>2, <1>3, <1>4, HandledPreserves

(* Unsubscribe: clients[client_id] finds the client. *)
LEMMA UnsubscribePreserves ==
  ASSUME Inv, NEW c \in Fd, HandleUnsubscribe(c)
  PROVE  Inv'
<1>1. PICK result \in Exception :
        removeSubscription(c, Head(inbox[c]).channel, result) /\ RespondTo(c, result)
  BY DEF HandleUnsubscribe
<1>2. Received(c, "Unsubscribe") /\ c \in clients
  BY ReceivedRequest DEF HandleUnsubscribe
<1>3. RegistryInv'
  BY <1>1, <1>2, RemoveSubscriptionPreserves DEF Inv
<1>4. UNCHANGED clients
  BY <1>1, <1>2 DEF removeSubscription
<1>. QED
  BY <1>1, <1>2, <1>3, <1>4, HandledPreserves

(* CreateChannel. *)
LEMMA CreateChannelPreserves ==
  ASSUME Inv, NEW c \in Fd, HandleCreateChannel(c)
  PROVE  Inv'
<1>1. PICK result \in Exception :
        addChannel(Head(inbox[c]).channel, result) /\ RespondTo(c, result)
  BY DEF HandleCreateChannel
<1>2. /\ Received(c, "CreateChannel")
      /\ Head(inbox[c]).channel \in ChannelName
  BY ReceivedRequest, RequestMembers DEF HandleCreateChannel
<1>3. RegistryInv'
  BY <1>1, <1>2, AddChannelPreserves DEF Inv
<1>4. UNCHANGED clients
  BY <1>1 DEF addChannel
<1>. QED
  BY <1>1, <1>2, <1>3, <1>4, HandledPreserves

(* DeleteChannel. *)
LEMMA DeleteRequestPreserves ==
  ASSUME Inv, NEW c \in Fd, HandleDeleteChannel(c)
  PROVE  Inv'
<1>1. PICK result \in Exception :
        deleteChannel(Head(inbox[c]).channel, result) /\ RespondTo(c, result)
  BY DEF HandleDeleteChannel
<1>2. Received(c, "DeleteChannel")
  BY DEF HandleDeleteChannel
<1>3. RegistryInv' /\ UNCHANGED clients
  BY <1>1, DeleteChannelPreserves, DeleteChannelKeepsClients DEF Inv
<1>. QED
  BY <1>1, <1>2, <1>3, HandledPreserves

(* Publish queues a message for some clients and a response for one.       *)
LEMMA PublishPreserves ==
  ASSUME Inv, NEW c \in Fd, HandlePublish(c)
  PROVE  Inv'
<1>. DEFINE message == Message(Head(inbox[c]).channel, Head(inbox[c]).content)
<1>1. /\ Received(c, "Publish")
      /\ UNCHANGED registryVars /\ UNCHANGED clients
  BY DEF HandlePublish, registryVars
<1>2. RegistryInv'
  BY <1>1, RegistryUnchanged DEF Inv
<1>3. CASE channelExists(Head(inbox[c]).channel)
  <2>1. PICK id \in channelIdByName(Head(inbox[c]).channel) :
          Respond(c, Ok, enqueueMessage(backlog_queue, recipients(id), message),
                  recipients(id))
    BY <1>3 DEF HandlePublish
  <2>2. /\ NetworkTypeOK' /\ freeFds' = freeFds
        /\ Head(inbox[c]) \in Request /\ Head(inbox[c]).kind = "Publish"
    BY <1>1, ReceivedRequest
  <2>3. message \in Frame
    BY <2>2, RequestMembers, FrameTypes
  <2>. HIDE DEF message
  <2>4. enqueueMessage(backlog_queue, recipients(id), message) \in [Fd -> Seq(Frame)]
    BY <2>3, EnqueueTypes DEF Inv, QueuesOK
  <2>5. PollInv' /\ QueuesOK' /\ LoopInv'
    BY <1>1, <2>1, <2>4, FrameTypes, RespondPreserves
  <2>6. DescriptorsBelongToClients'
    BY <1>1, <2>2 DEF Inv, DescriptorsBelongToClients
  <2>. QED
    BY <1>2, <2>2, <2>5, <2>6 DEF Inv
<1>4. CASE ~channelExists(Head(inbox[c]).channel)
  BY <1>1, <1>2, <1>4, HandledPreserves DEF HandlePublish
<1>. QED
  BY <1>3, <1>4

(* Ask lists the names of channels there are. *)
LEMMA AskPreserves ==
  ASSUME Inv, NEW c \in Fd, HandleAsk(c)
  PROVE  Inv'
<1>. DEFINE response == OkWithContent({channels[id].name : id \in DOMAIN channels})
<1>1. /\ Received(c, "Ask")
      /\ UNCHANGED registryVars /\ UNCHANGED clients
      /\ Respond(c, response, backlog_queue, {})
  BY DEF HandleAsk, registryVars
<1>2. response \in Frame
  <2>1. {channels[id].name : id \in DOMAIN channels} \in SUBSET (ChannelName \cup {EmptyName})
    BY DEF Inv, RegistryInv, RegistryTypeOK, Channel
  <2>. QED
    BY <2>1, FrameTypes
<1>. HIDE DEF response
<1>3. RegistryInv'
  BY <1>1, RegistryUnchanged DEF Inv
<1>4. PollInv' /\ QueuesOK' /\ LoopInv'
  BY <1>1, <1>2, RespondPreserves DEF Inv, QueuesOK
<1>5. NetworkTypeOK' /\ DescriptorsBelongToClients'
  BY <1>1, ReceivedRequest DEF Inv, DescriptorsBelongToClients
<1>. QED
  BY <1>3, <1>4, <1>5 DEF Inv

(* Nothing but the program counter changes between the exception and its   *)
(* handler; the client is still in the map there.                          *)
LEMMA ThrowPreserves ==
  ASSUME Inv, NEW c \in Fd, Handling("Input", c), pc' = "catch",
         UNCHANGED <<controllerVars, event>>, NetworkTypeOK', freeFds' = freeFds
  PROVE  Inv'
<1>1. /\ UNCHANGED <<clients, subscriptions, channels, idGen, backlog_queue, poll_fds>>
      /\ UNCHANGED <<registryVars, event>>
  BY DEF controllerVars, registryVars
<1>2. c \in clients
  BY HandledIsClient
<1>3. RegistryInv'
  BY <1>1, RegistryUnchanged DEF Inv
<1>4. PollInv'
  BY <1>1 DEF Inv, PollInv, PollFdsMatchClients
<1>5. QueuesOK' /\ DescriptorsBelongToClients'
  BY <1>1 DEF Inv, QueuesOK, DescriptorsBelongToClients
<1>6. LoopInv'
  BY <1>1, <1>2 DEF Inv, LoopInv, Handling, Event, ProgramCounter, EventsAreForClients,
     CaughtIsClient, ConnectionWaits, BranchIsUnreachable
<1>. QED
  BY <1>3, <1>4, <1>5, <1>6 DEF Inv

(* Every way handleInput ends preserves the invariant. *)
LEMMA InputPreserves ==
  ASSUME Inv, NEW c \in Fd, HandleInput(c)
  PROVE  Inv'
<1>1. CASE HandleMalformed(c)
  BY <1>1, ReceivedRequest, ThrowPreserves DEF HandleMalformed, Received
<1>2. CASE HandleReceiveFailure(c)
  <2>1. NetworkTypeOK' /\ freeFds' = freeFds
    BY <1>2 DEF HandleReceiveFailure, netVars, Inv, NetworkTypeOK, freeFds
  <2>. QED
    BY <1>2, <2>1, ThrowPreserves DEF HandleReceiveFailure
<1>. QED
  BY <1>1, <1>2, SubscribePreserves, UnsubscribePreserves, CreateChannelPreserves,
     DeleteRequestPreserves, PublishPreserves, AskPreserves DEF HandleInput

-----------------------------------------------------------------------------
(* Output.                                                                 *)

(* What flushOne leaves of a queue of frames is one. *)
LEMMA PopFrontTypes ==
  ASSUME Inv, NEW c \in Fd, backlog_queue[c] # <<>>
  PROVE  popFront(c) \in [Fd -> Seq(Frame)] /\ Head(backlog_queue[c]) \in Frame
<1>1. backlog_queue[c] \in Seq(Frame)
  BY DEF Inv, QueuesOK
<1>2. Tail(backlog_queue[c]) \in Seq(Frame) /\ Head(backlog_queue[c]) \in Frame
  BY <1>1
<1>. QED
  BY <1>2 DEF popFront, Inv, QueuesOK

(* Sending moves a frame from the queue to the connection; failing to send *)
(* and flushing an empty queue end the process.                            *)
LEMMA OutputPreserves ==
  ASSUME Inv, NEW c \in Fd, HandleOutput(c)
  PROVE  Inv'
<1>1. UNCHANGED registryVars /\ UNCHANGED clients
  BY DEF HandleOutput, FlushEmpty, FlushOne, FlushFails, controllerVars, registryVars
<1>2. RegistryInv'
  BY <1>1, RegistryUnchanged DEF Inv
<1>3. LoopInv'
  BY LoopRests DEF HandleOutput, FlushEmpty, FlushOne, FlushFails, Halt, EventType
<1>4. QueuesOK'
  BY PopFrontTypes DEF HandleOutput, FlushEmpty, FlushOne, FlushFails, QueuesOK, Inv,
     controllerVars
<1>5. PollInv'
  <2>1. CASE UNCHANGED poll_fds
    BY <1>1, <2>1 DEF Inv, PollInv, PollFdsMatchClients
  <2>2. CASE poll_fds' = setPollOutByFd({c}, FALSE)
    BY <1>1, <2>2, SetPollOutPreserves DEF Inv
  <2>. QED
    BY <2>1, <2>2 DEF HandleOutput, FlushEmpty, FlushOne, FlushFails, disarm, controllerVars
<1>6. NetworkTypeOK' /\ freeFds' = freeFds
  <2>1. CASE UNCHANGED netVars
    BY <2>1 DEF netVars, Inv, NetworkTypeOK, freeFds
  <2>2. CASE FlushOne(c)
    <3>1. Append(wire[c], Head(backlog_queue[c])) \in Seq(Frame)
      BY <2>2, PopFrontTypes, AppendProperties DEF FlushOne, Inv, NetworkTypeOK
    <3>. QED
      BY <2>2, <3>1 DEF FlushOne, send, Inv, NetworkTypeOK, freeFds
  <2>. QED
    BY <2>1, <2>2 DEF HandleOutput, FlushEmpty, FlushFails
<1>7. DescriptorsBelongToClients'
  BY <1>1, <1>6 DEF Inv, DescriptorsBelongToClients
<1>. QED
  BY <1>2, <1>3, <1>4, <1>5, <1>6, <1>7 DEF Inv

-----------------------------------------------------------------------------
(* Every step of the hub or of a peer preserves the invariant.             *)
LEMMA StepPreserves ==
  ASSUME Inv, [Next]_vars
  PROVE  Inv'
<1>1. CASE HubStep
  BY <1>1, SweepPreserves, NextEventPreserves, ConnectionPreserves, DisconnectPreserves,
     InputPreserves, OutputPreserves, CatchPreserves DEF HubStep
<1>2. CASE ByPeer(PeerStep)
  BY <1>2, PeerPreserves
<1>3. CASE UNCHANGED vars
  BY <1>3, StutterPreserves
<1>. QED
  BY <1>1, <1>2, <1>3 DEF Next

(* The inductive invariant of the whole server. *)
THEOREM Invariance == Spec => []Inv
<1>1. Init => Inv
  BY InitEstablishes
<1>2. Inv /\ [Next]_vars => Inv'
  BY StepPreserves
<1>. QED
  BY <1>1, <1>2, PTL DEF Spec

(* Every variable of the server and the network has its type in every      *)
(* reachable state, however many clients, channels and messages there are. *)
THEOREM TypeCorrect == Spec => []TypeOK
<1>1. Inv => TypeOK
  BY DEF Inv, RegistryInv, RegistryTypeOK, PollInv, QueuesOK, LoopInv, TypeOK,
     ControllerTypeOK, ClientTypeOK
<1>. QED
  BY <1>1, Invariance, PTL

(* A client lists exactly the channels that list it, and both exist: no    *)
(* order of requests, removals and reused descriptors makes the two maps   *)
(* of StateController disagree.                                            *)
THEOREM SubscriptionsAgree == Spec => []SubscriptionsMatchSubscribers
<1>1. Inv => SubscriptionsMatchSubscribers
  BY DEF Inv, RegistryInv
<1>. QED
  BY <1>1, Invariance, PTL

(* At most one channel has a name, no name contains whitespace, and        *)
(* channel ids are not reused.                                             *)
THEOREM NamesAreUnique == Spec => []ChannelNamesUnique
<1>1. Inv => ChannelNamesUnique
  BY DEF Inv, RegistryInv
<1>. QED
  BY <1>1, Invariance, PTL

(* The vector of pollfds and the map of clients agree, with the server's   *)
(* pollfd in front: what the index arithmetic of nextEvent relies on.      *)
THEOREM PollFdsAgree == Spec => []PollFdsMatchClients
<1>1. Inv => PollFdsMatchClients
  BY DEF Inv, PollInv
<1>. QED
  BY <1>1, Invariance, PTL

(* Removing a client closes its descriptor, and nothing else does: the     *)
(* open descriptors are those of the clients in the map.                   *)
THEOREM NoDescriptorLeaks == Spec => []DescriptorsBelongToClients
<1>1. Inv => DescriptorsBelongToClients
  BY DEF Inv
<1>. QED
  BY <1>1, Invariance, PTL

(* Whatever was removed or connected before, a handler runs for a client   *)
(* that exists: clientByFd does not throw out of the loop.                 *)
THEOREM HandlersHaveClients == Spec => []EventsAreForClients
<1>1. Inv => EventsAreForClients
  BY DEF Inv, LoopInv
<1>. QED
  BY <1>1, Invariance, PTL

(* The branch of handleEvent that calls exit(1) is unreachable. *)
THEOREM NoUnreachableBranch == Spec => []BranchIsUnreachable
<1>1. Inv => BranchIsUnreachable
  BY DEF Inv, LoopInv
<1>. QED
  BY <1>1, Invariance, PTL
=============================================================================
