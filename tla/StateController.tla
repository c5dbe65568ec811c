--------------------------- MODULE StateController ---------------------------
(***************************************************************************)
(* server/StateController.cpp and the Channel objects it owns: the vector  *)
(* of pollfds, the map of clients, the map of channels, and the operations *)
(* the hub performs on them.  A map's operator[] default-constructs a      *)
(* missing entry; the operations below keep that.                          *)
(*                                                                         *)
(* An operation that can throw takes `result', the exception it ends with  *)
(* or "none".  Operations on subscriptions and channels leave the queues   *)
(* of the clients and the pollfds to their caller, which changes them too. *)
(***************************************************************************)
EXTENDS Client, FiniteSets, SequencesExt

CONSTANT ServerFd    \* the descriptor of the listening socket

ASSUME FdAssumption == ServerFd \notin Fd

VARIABLES
  poll_fds,   \* sequence of [fd, pollout]; poll_fds[1] is the code's poll_fds[0]
  clients,    \* the keys of the map of clients
  channels,   \* the map of channels: id -> [name, subscribers]
  idGen       \* the next id Channel's constructors hand out

registryVars   == <<clients, subscriptions, channels, idGen>>
controllerVars == <<registryVars, backlog_queue, poll_fds>>

PollFd  == [fd : Fd \cup {ServerFd}, pollout : BOOLEAN]
Channel == [name : ChannelName \cup {EmptyName}, subscribers : SUBSET Fd]

Exception ==
  {"none", "ChannelNotFoundException", "ChannelAlreadyExistsException",
   "InvalidInputException", "out_of_range"}

ControllerTypeOK ==
  /\ ClientTypeOK
  /\ poll_fds \in Seq(PollFd)
  /\ clients \subseteq Fd
  /\ DOMAIN channels \subseteq Nat
  /\ channels \in [DOMAIN channels -> Channel]
  /\ idGen \in Nat

ControllerInit ==
  /\ ClientInit
  /\ poll_fds = <<[fd |-> ServerFd, pollout |-> TRUE]>>
  /\ clients = {}
  /\ channels = [id \in {} |-> [name |-> EmptyName, subscribers |-> {}]]
  /\ idGen = 0

-----------------------------------------------------------------------------
(* Pollfds.                                                                *)

registerPollFdFor(fd) == Append(poll_fds, [fd |-> fd, pollout |-> TRUE])

(* POLLOUT switched on or off for every descriptor of C that has a pollfd. *)
setPollOutByFd(C, enable) ==
  [i \in DOMAIN poll_fds |->
     IF poll_fds[i].fd \in C THEN [poll_fds[i] EXCEPT !.pollout = enable]
                             ELSE poll_fds[i]]

(* erase_if over the pollfds; a descriptor has at most one (a conjunct of  *)
(* PollFdsMatchClients), so erasing one match erases them all.             *)
erasePollFd_Kept(fd) == poll_fds
erasePollFd(fd) ==
  IF \E i \in DOMAIN poll_fds : poll_fds[i].fd = fd
  THEN RemoveAt(poll_fds, CHOOSE i \in DOMAIN poll_fds : poll_fds[i].fd = fd)
  ELSE poll_fds

-----------------------------------------------------------------------------
(* Channels.                                                               *)

(* The channels channelIdByName may return: the first match of a hash map. *)
channelIdByName_Any(name) == DOMAIN channels
channelIdByName(name) == {id \in DOMAIN channels : channels[id].name = name}

channelExists(name) == channelIdByName(name) # {}

addSubscriber_ChannelId(id, c) == [channels EXCEPT ![id].subscribers = @ \cup {id}]
addSubscriber(id, c) == [channels EXCEPT ![id].subscribers = @ \cup {c}]

removeSubscriber_Forgotten(id, c) == channels
removeSubscriber(id, c) == [channels EXCEPT ![id].subscribers = @ \ {c}]

(* Why addChannel refuses a name, or "none". *)
refusal_Duplicates(name) ==
  IF name \in WhitespaceName THEN "InvalidInputException" ELSE "none"
refusal(name) ==
  IF channelExists(name) THEN "ChannelAlreadyExistsException"
  ELSE IF name \in WhitespaceName THEN "InvalidInputException"
  ELSE "none"

insertChannel(name) ==
  /\ channels' = [id \in DOMAIN channels \cup {idGen} |->
                    IF id \in DOMAIN channels THEN channels[id]
                    ELSE [name |-> name, subscribers |-> {}]]
  /\ idGen' = idGen + 1

addChannel_InsertFirst(name, result) ==
  result = refusal(name) /\ insertChannel(name) /\ UNCHANGED <<clients, subscriptions>>
addChannel(name, result) ==
  /\ result = refusal(name)
  /\ IF result = "none" THEN insertChannel(name) ELSE UNCHANGED <<channels, idGen>>
  /\ UNCHANGED <<clients, subscriptions>>

(* clients[sub_id] creates the clients it does not find. *)
deleteChannel(name, result) ==
  /\ \/ /\ ~channelExists(name)
        /\ result = "ChannelNotFoundException"
        /\ UNCHANGED <<clients, subscriptions, channels>>
     \/ \E id \in channelIdByName(name) :
          /\ result = "none"
          /\ clients' = clients \cup channels[id].subscribers
          /\ subscriptions' = unsubscribeFrom(channels[id].subscribers, id)
          /\ channels' = [i \in DOMAIN channels \ {id} |-> channels[i]]
  /\ UNCHANGED idGen

-----------------------------------------------------------------------------
(* Subscriptions.                                                          *)

(* channels.at() changes the channel before clients.at() may throw. *)
addSubscription(client_id, name, result) ==
  /\ \/ /\ ~channelExists(name)
        /\ result = "ChannelNotFoundException"
        /\ UNCHANGED <<subscriptions, channels>>
     \/ \E id \in channelIdByName(name) :
          /\ channels' = addSubscriber(id, client_id)
          /\ IF client_id \in clients
             THEN result = "none" /\ subscriptions' = subscribeTo(client_id, id)
             ELSE result = "out_of_range" /\ UNCHANGED subscriptions
  /\ UNCHANGED <<clients, idGen>>

(* clients[client_id] creates the client if it does not find it. *)
removeSubscription(client_id, name, result) ==
  /\ \/ /\ ~channelExists(name)
        /\ result = "ChannelNotFoundException"
        /\ UNCHANGED <<clients, subscriptions, channels>>
     \/ \E id \in channelIdByName(name) :
          /\ result = "none"
          /\ channels' = removeSubscriber(id, client_id)
          /\ clients' = clients \cup {client_id}
          /\ subscriptions' = unsubscribeFrom({client_id}, id)
  /\ UNCHANGED idGen

-----------------------------------------------------------------------------
(* Clients.                                                                *)

(* insert() leaves an entry that is there as it is. *)
addClient(fd) ==
  /\ poll_fds' = registerPollFdFor(fd)
  /\ clients' = clients \cup {fd}
  /\ UNCHANGED <<subscriptions, backlog_queue, channels, idGen>>

(* channels[sub_id] creates the channels it does not find. *)
missingChannels(fd) == subscriptions[fd] \ DOMAIN channels

channelsWithout_Erased(fd) == [id \in DOMAIN channels \ subscriptions[fd] |-> channels[id]]
channelsWithout(fd) ==
  [id \in DOMAIN channels \cup subscriptions[fd] |->
     IF id \in missingChannels(fd) THEN [name |-> EmptyName, subscribers |-> {}]
     ELSE IF id \in subscriptions[fd]
     THEN [channels[id] EXCEPT !.subscribers = @ \ {fd}]
     ELSE channels[id]]

(* erase_if reads the descriptor of the Client that erase() has just       *)
(* destroyed; nothing is allocated in between, and the allocator's own     *)
(* words in the freed block lie before that member, so it reads the old    *)
(* descriptor.                                                             *)
removeClientByFd(fd) ==
  /\ channels' = channelsWithout(fd)
  /\ idGen' = idGen + Cardinality(missingChannels(fd))
  /\ clients' = clients \ {fd}
  /\ destroyClient(fd)
  /\ poll_fds' = erasePollFd(fd)

-----------------------------------------------------------------------------
(* Properties of the controller's data, wherever no operation is running.  *)

(* Both halves of every subscription agree and belong to things that       *)
(* exist: a client lists a channel exactly if the channel lists the client *)
(* and is in the map, and a channel lists only clients that are in the map *)
(* (what clientByFd and every operator[] assume).                          *)
SubscriptionsMatchSubscribers ==
  /\ \A c \in Fd : \A id \in subscriptions[c] :
       id \in DOMAIN channels /\ c \in channels[id].subscribers
  /\ \A id \in DOMAIN channels : \A c \in channels[id].subscribers :
       c \in clients /\ id \in subscriptions[c]

(* Lookup by name is unambiguous, names never contain whitespace, and an   *)
(* id that was handed out is not handed out again.                         *)
ChannelNamesUnique ==
  \A id \in DOMAIN channels :
    /\ id < idGen
    /\ channels[id].name \in ChannelName \ WhitespaceName
    /\ \A other \in DOMAIN channels :
         channels[other].name = channels[id].name => other = id

(* The server's pollfd comes first, then exactly one for every client: the *)
(* indices 1..clients.size() of nextEvent reach each client and nothing    *)
(* beyond the vector.                                                      *)
PollFdsMatchClients ==
  /\ Len(poll_fds) = Cardinality(clients) + 1
  /\ poll_fds[1].fd = ServerFd
  /\ \A i, j \in DOMAIN poll_fds : poll_fds[i].fd = poll_fds[j].fd => i = j
  /\ {poll_fds[i].fd : i \in 2..Len(poll_fds)} = clients
=============================================================================
