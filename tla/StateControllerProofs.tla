----------------------- MODULE StateControllerProofs -----------------------
(***************************************************************************)
(* What every operation of the controller preserves: the types of its      *)
(* data, the agreement of clients and channels, the names and ids of       *)
(* channels, and the agreement of pollfds and clients.  One lemma per      *)
(* operation; HubProofs puts them together.                                *)
(***************************************************************************)
EXTENDS StateController, FiniteSetTheorems, SequenceTheorems, TLAPS

RegistryTypeOK ==
  /\ subscriptions \in [Fd -> SUBSET Nat]
  /\ clients \subseteq Fd
  /\ DOMAIN channels \subseteq Nat
  /\ channels \in [DOMAIN channels -> Channel]
  /\ idGen \in Nat

(* The inductive invariant of the maps of clients and channels. *)
RegistryInv ==
  /\ RegistryTypeOK
  /\ SubscriptionsMatchSubscribers
  /\ ChannelNamesUnique

-----------------------------------------------------------------------------
(* The empty maps of a new controller satisfy the invariant. *)
LEMMA RegistryInit ==
  ASSUME ControllerInit
  PROVE  RegistryInv
<1>1. DOMAIN channels = {}
  BY DEF ControllerInit
<1>. QED
  BY <1>1 DEF ControllerInit, ClientInit, RegistryInv, RegistryTypeOK,
     SubscriptionsMatchSubscribers, ChannelNamesUnique

(* The invariant depends on the registry alone. *)
LEMMA RegistryUnchanged ==
  ASSUME RegistryInv, UNCHANGED registryVars
  PROVE  RegistryInv'
BY DEF RegistryInv, RegistryTypeOK, SubscriptionsMatchSubscribers,
   ChannelNamesUnique, registryVars

-----------------------------------------------------------------------------
(* addChannel adds an id no channel has had, with a name no channel has:   *)
(* the check for duplicates and the check for whitespace come before the   *)
(* constructor (StateController.cpp, addChannel).                          *)
LEMMA AddChannelPreserves ==
  ASSUME RegistryInv,
         NEW name \in ChannelName, NEW result, addChannel(name, result)
  PROVE  RegistryInv'
<1>. USE DEF RegistryInv
<1>1. CASE result # "none"
  <2>1. UNCHANGED registryVars
    BY <1>1 DEF addChannel, registryVars
  <2>. QED
    BY <2>1, RegistryUnchanged
<1>2. CASE result = "none"
  <2>1. /\ \A id \in DOMAIN channels : channels[id].name # name
        /\ name \notin WhitespaceName
    BY <1>2 DEF addChannel, refusal, channelExists, channelIdByName
  <2>2. /\ DOMAIN channels' = DOMAIN channels \cup {idGen}
        /\ \A id \in DOMAIN channels : channels'[id] = channels[id]
        /\ idGen \notin DOMAIN channels
        /\ channels'[idGen] = [name |-> name, subscribers |-> {}]
        /\ idGen' = idGen + 1
        /\ UNCHANGED <<clients, subscriptions>>
    <3>1. \A id \in DOMAIN channels : id < idGen
      BY DEF ChannelNamesUnique
    <3>2. idGen \notin DOMAIN channels
      BY <3>1 DEF RegistryTypeOK
    <3>. QED
      BY <1>2, <3>2 DEF addChannel, insertChannel
  <2>3. RegistryTypeOK'
    <3>1. \A id \in DOMAIN channels' : channels'[id] \in Channel
      BY <2>2 DEF RegistryTypeOK, Channel
    <3>2. channels' = [id \in DOMAIN channels' |-> channels'[id]]
      BY <1>2 DEF addChannel, insertChannel
    <3>3. channels' \in [DOMAIN channels' -> Channel]
      BY <3>1, <3>2
    <3>. QED
      BY <2>2, <3>3 DEF RegistryTypeOK
  <2>4. SubscriptionsMatchSubscribers'
    BY <2>2 DEF SubscriptionsMatchSubscribers, RegistryTypeOK
  <2>5. ChannelNamesUnique'
    BY <2>1, <2>2 DEF ChannelNamesUnique, RegistryTypeOK
  <2>. QED
    BY <2>3, <2>4, <2>5
<1>. QED
  BY <1>1, <1>2

(* deleteChannel takes the id out of the subscriptions of exactly the      *)
(* clients the channel lists, which are all that have it; clients[sub_id]  *)
(* never creates a client (StateController.cpp, deleteChannel).            *)
LEMMA DeleteChannelPreserves ==
  ASSUME RegistryInv, NEW name, NEW result, deleteChannel(name, result)
  PROVE  RegistryInv'
<1>. USE DEF RegistryInv
<1>1. CASE UNCHANGED <<clients, subscriptions, channels>>
  <2>1. UNCHANGED registryVars
    BY <1>1 DEF deleteChannel, registryVars
  <2>. QED
    BY <2>1, RegistryUnchanged
<1>2. CASE \E id \in channelIdByName(name) :
             /\ clients' = clients \cup channels[id].subscribers
             /\ subscriptions' = unsubscribeFrom(channels[id].subscribers, id)
             /\ channels' = [i \in DOMAIN channels \ {id} |-> channels[i]]
  <2>1. PICK id \in channelIdByName(name) :
             /\ clients' = clients \cup channels[id].subscribers
             /\ subscriptions' = unsubscribeFrom(channels[id].subscribers, id)
             /\ channels' = [i \in DOMAIN channels \ {id} |-> channels[i]]
    BY <1>2
  <2>2. id \in DOMAIN channels
    BY DEF channelIdByName
  <2>3. /\ clients' = clients
        /\ idGen' = idGen
    <3>1. channels[id].subscribers \subseteq clients
      BY <2>2 DEF SubscriptionsMatchSubscribers
    <3>. QED
      BY <2>1, <3>1 DEF deleteChannel
  <2>4. \A c \in Fd : subscriptions'[c] = subscriptions[c] \ {id}
    BY <2>1 DEF unsubscribeFrom, SubscriptionsMatchSubscribers, RegistryTypeOK
  <2>5. RegistryTypeOK'
    <3>1. subscriptions' \in [Fd -> SUBSET Nat]
      BY <2>1 DEF unsubscribeFrom, RegistryTypeOK
    <3>2. /\ DOMAIN channels' \subseteq Nat
          /\ channels' \in [DOMAIN channels' -> Channel]
      BY <2>1 DEF RegistryTypeOK
    <3>. QED
      BY <2>3, <3>1, <3>2 DEF RegistryTypeOK
  <2>6. SubscriptionsMatchSubscribers'
    BY <2>1, <2>3, <2>4 DEF SubscriptionsMatchSubscribers, RegistryTypeOK, Channel
  <2>7. ChannelNamesUnique'
    BY <2>1, <2>3 DEF ChannelNamesUnique
  <2>. QED
    BY <2>5, <2>6, <2>7
<1>. QED
  BY <1>1, <1>2 DEF deleteChannel

-----------------------------------------------------------------------------
(* Changing the subscribers of one channel changes no name and no type.    *)
LEMMA SubscribersOnly ==
  ASSUME RegistryTypeOK, ChannelNamesUnique,
         NEW id \in DOMAIN channels, NEW S \in SUBSET Fd,
         channels' = [channels EXCEPT ![id].subscribers = S],
         UNCHANGED idGen, clients' \subseteq Fd,
         subscriptions' \in [Fd -> SUBSET Nat]
  PROVE  RegistryTypeOK' /\ ChannelNamesUnique'
<1>1. /\ DOMAIN channels' = DOMAIN channels
      /\ \A i \in DOMAIN channels : channels'[i].name = channels[i].name
  BY DEF RegistryTypeOK, Channel
<1>2. channels' \in [DOMAIN channels' -> Channel]
  BY DEF RegistryTypeOK, Channel
<1>3. ChannelNamesUnique'
  BY <1>1 DEF ChannelNamesUnique
<1>. QED
  BY <1>1, <1>2, <1>3 DEF RegistryTypeOK

(* Called for a client in the map, addSubscription enters both sides of    *)
(* the subscription or neither; for any other it would enter one           *)
(* (StateController.cpp, addSubscription).                                 *)
LEMMA AddSubscriptionPreserves ==
  ASSUME RegistryInv, NEW c \in clients, NEW name, NEW result,
         addSubscription(c, name, result)
  PROVE  RegistryInv'
<1>. USE DEF RegistryInv
<1>1. CASE UNCHANGED <<subscriptions, channels>>
  <2>1. UNCHANGED registryVars
    BY <1>1 DEF addSubscription, registryVars
  <2>. QED
    BY <2>1, RegistryUnchanged
<1>2. CASE \E id \in channelIdByName(name) :
             /\ channels' = addSubscriber(id, c)
             /\ subscriptions' = subscribeTo(c, id)
  <2>1. PICK id \in channelIdByName(name) :
             /\ channels' = addSubscriber(id, c)
             /\ subscriptions' = subscribeTo(c, id)
    BY <1>2
  <2>2. /\ id \in DOMAIN channels
        /\ id \in Nat
        /\ c \in Fd
        /\ UNCHANGED <<clients, idGen>> /\ clients' \subseteq Fd
    BY DEF channelIdByName, RegistryTypeOK, addSubscription
  <2>3. /\ subscriptions' \in [Fd -> SUBSET Nat]
        /\ \A d \in Fd : subscriptions'[d] =
             IF d = c THEN subscriptions[d] \cup {id} ELSE subscriptions[d]
    BY <2>1, <2>2 DEF subscribeTo, RegistryTypeOK
  <2>4. channels' = [channels EXCEPT ![id].subscribers = channels[id].subscribers \cup {c}]
    BY <2>1 DEF addSubscriber
  <2>5. channels[id].subscribers \cup {c} \in SUBSET Fd
    BY <2>2 DEF RegistryTypeOK, Channel
  <2>6. RegistryTypeOK' /\ ChannelNamesUnique'
    BY <2>2, <2>3, <2>4, <2>5, SubscribersOnly
  <2>7. SubscriptionsMatchSubscribers'
    <3>1. /\ DOMAIN channels' = DOMAIN channels
          /\ \A i \in DOMAIN channels : channels'[i].subscribers =
               IF i = id THEN channels[i].subscribers \cup {c} ELSE channels[i].subscribers
      BY <2>2, <2>4 DEF RegistryTypeOK, Channel
    <3>2. ASSUME NEW d \in Fd, NEW i \in subscriptions'[d]
          PROVE  i \in DOMAIN channels' /\ d \in channels'[i].subscribers
      <4>1. CASE d = c /\ i = id
        BY <2>2, <3>1, <4>1
      <4>2. CASE ~(d = c /\ i = id)
        <5>1. i \in subscriptions[d]
          BY <2>3, <3>2, <4>2
        <5>2. i \in DOMAIN channels /\ d \in channels[i].subscribers
          BY <5>1 DEF SubscriptionsMatchSubscribers
        <5>. QED
          BY <3>1, <5>2
      <4>. QED
        BY <4>1, <4>2
    <3>3. ASSUME NEW i \in DOMAIN channels', NEW d \in channels'[i].subscribers
          PROVE  d \in clients' /\ i \in subscriptions'[d]
      <4>1. i \in DOMAIN channels
        BY <3>1
      <4>2. CASE d = c /\ i = id
        BY <2>2, <2>3, <4>2
      <4>3. CASE ~(d = c /\ i = id)
        <5>1. d \in channels[i].subscribers
          BY <3>1, <3>3, <4>1, <4>3
        <5>2. d \in clients /\ i \in subscriptions[d]
          BY <4>1, <5>1 DEF SubscriptionsMatchSubscribers
        <5>3. d \in Fd
          BY <5>2 DEF RegistryTypeOK
        <5>. QED
          BY <2>2, <2>3, <5>2, <5>3
      <4>. QED
        BY <4>2, <4>3
    <3>. QED
      BY <3>2, <3>3 DEF SubscriptionsMatchSubscribers
  <2>. QED
    BY <2>6, <2>7
<1>. QED
  BY <1>1, <1>2 DEF addSubscription

(* Called for a client in the map, removeSubscription removes both sides   *)
(* of the subscription; clients[client_id] creates no client               *)
(* (StateController.cpp, removeSubscription).                              *)
LEMMA RemoveSubscriptionPreserves ==
  ASSUME RegistryInv, NEW c \in clients, NEW name, NEW result,
         removeSubscription(c, name, result)
  PROVE  RegistryInv'
<1>. USE DEF RegistryInv
<1>1. CASE UNCHANGED <<clients, subscriptions, channels>>
  <2>1. UNCHANGED registryVars
    BY <1>1 DEF removeSubscription, registryVars
  <2>. QED
    BY <2>1, RegistryUnchanged
<1>2. CASE \E id \in channelIdByName(name) :
             /\ channels' = removeSubscriber(id, c)
             /\ clients' = clients \cup {c}
             /\ subscriptions' = unsubscribeFrom({c}, id)
  <2>1. PICK id \in channelIdByName(name) :
             /\ channels' = removeSubscriber(id, c)
             /\ clients' = clients \cup {c}
             /\ subscriptions' = unsubscribeFrom({c}, id)
    BY <1>2
  <2>2. /\ id \in DOMAIN channels
        /\ c \in Fd
        /\ UNCHANGED <<clients, idGen>> /\ clients' \subseteq Fd
    BY <2>1 DEF channelIdByName, RegistryTypeOK, removeSubscription
  <2>3. /\ subscriptions' \in [Fd -> SUBSET Nat]
        /\ \A d \in Fd : subscriptions'[d] =
             IF d = c THEN subscriptions[d] \ {id} ELSE subscriptions[d]
    BY <2>1 DEF unsubscribeFrom, RegistryTypeOK
  <2>4. channels' = [channels EXCEPT ![id].subscribers = channels[id].subscribers \ {c}]
    BY <2>1 DEF removeSubscriber
  <2>5. channels[id].subscribers \ {c} \in SUBSET Fd
    BY <2>2 DEF RegistryTypeOK, Channel
  <2>6. RegistryTypeOK' /\ ChannelNamesUnique'
    BY <2>2, <2>3, <2>4, <2>5, SubscribersOnly
  <2>7. SubscriptionsMatchSubscribers'
    <3>1. /\ DOMAIN channels' = DOMAIN channels
          /\ \A i \in DOMAIN channels : channels'[i].subscribers =
               IF i = id THEN channels[i].subscribers \ {c} ELSE channels[i].subscribers
      BY <2>2, <2>4 DEF RegistryTypeOK, Channel
    <3>. QED
      BY <2>2, <2>3, <3>1 DEF SubscriptionsMatchSubscribers, RegistryTypeOK, Channel
  <2>. QED
    BY <2>6, <2>7
<1>. QED
  BY <1>1, <1>2 DEF removeSubscription

-----------------------------------------------------------------------------
(* addClient: a descriptor that is not in the map has no subscriptions     *)
(* left from an earlier connection, so a new client begins with none.      *)
LEMMA AddClientPreserves ==
  ASSUME RegistryInv, NEW fd \in Fd, addClient(fd)
  PROVE  RegistryInv'
<1>1. /\ clients' = clients \cup {fd}
      /\ UNCHANGED <<subscriptions, channels, idGen>>
  BY DEF addClient
<1>2. RegistryTypeOK'
  BY <1>1 DEF RegistryInv, RegistryTypeOK
<1>3. SubscriptionsMatchSubscribers'
  BY <1>1 DEF RegistryInv, SubscriptionsMatchSubscribers
<1>4. ChannelNamesUnique'
  BY <1>1 DEF RegistryInv, ChannelNamesUnique
<1>. QED
  BY <1>2, <1>3, <1>4 DEF RegistryInv

(* removeClientByFd takes the client out of every channel that lists it,   *)
(* and channels[sub_id] creates no channel.                                *)
LEMMA RemoveClientPreserves ==
  ASSUME RegistryInv, NEW fd \in Fd, removeClientByFd(fd)
  PROVE  RegistryInv' /\ subscriptions'[fd] = {}
<1>. USE DEF RegistryInv
<1>1. /\ subscriptions[fd] \subseteq DOMAIN channels
      /\ missingChannels(fd) = {}
  BY DEF SubscriptionsMatchSubscribers, missingChannels
<1>2. idGen' = idGen
  <2>1. Cardinality(missingChannels(fd)) = 0
    BY <1>1, FS_EmptySet
  <2>. QED
    BY <2>1 DEF removeClientByFd, RegistryTypeOK
<1>3. /\ DOMAIN channels' = DOMAIN channels
      /\ channels' \in [DOMAIN channels' -> Channel]
      /\ \A id \in DOMAIN channels :
           /\ channels'[id].name = channels[id].name
           /\ channels'[id].subscribers =
                IF id \in subscriptions[fd] THEN channels[id].subscribers \ {fd}
                ELSE channels[id].subscribers
  BY <1>1 DEF removeClientByFd, channelsWithout, RegistryTypeOK, Channel
<1>4. /\ clients' = clients \ {fd}
      /\ subscriptions' \in [Fd -> SUBSET Nat]
      /\ \A c \in Fd : subscriptions'[c] = IF c = fd THEN {} ELSE subscriptions[c]
  BY DEF removeClientByFd, destroyClient, RegistryTypeOK
<1>5. RegistryTypeOK'
  BY <1>2, <1>3, <1>4 DEF RegistryTypeOK
<1>6. SubscriptionsMatchSubscribers'
  <2>1. \A c \in Fd : \A id \in subscriptions'[c] :
          id \in DOMAIN channels' /\ c \in channels'[id].subscribers
    BY <1>3, <1>4 DEF SubscriptionsMatchSubscribers
  <2>2. ASSUME NEW id \in DOMAIN channels', NEW c \in channels'[id].subscribers
        PROVE  c \in clients' /\ id \in subscriptions'[c]
    <3>1. id \in DOMAIN channels /\ c \in channels[id].subscribers
      BY <1>3, <2>2
    <3>2. c \in clients /\ c \in Fd /\ id \in subscriptions[c]
      BY <3>1 DEF SubscriptionsMatchSubscribers, RegistryTypeOK
    <3>3. c # fd
      BY <1>3, <2>2, <3>1, <3>2
    <3>. QED
      BY <1>4, <3>2, <3>3
  <2>. QED
    BY <2>1, <2>2 DEF SubscriptionsMatchSubscribers
<1>7. ChannelNamesUnique'
  BY <1>2, <1>3 DEF ChannelNamesUnique
<1>. QED
  BY <1>4, <1>5, <1>6, <1>7
-----------------------------------------------------------------------------
(* The inductive invariant of the pollfds. *)
PollInv ==
  /\ poll_fds \in Seq(PollFd)
  /\ clients \subseteq Fd
  /\ IsFiniteSet(clients)
  /\ PollFdsMatchClients

(* The constructor of Hub registers the server's pollfd and nothing else.  *)
LEMMA PollInit ==
  ASSUME ControllerInit
  PROVE  PollInv
<1>1. poll_fds \in Seq(PollFd) /\ Len(poll_fds) = 1 /\ poll_fds[1].fd = ServerFd
  BY DEF ControllerInit, PollFd
<1>2. IsFiniteSet(clients) /\ Cardinality(clients) = 0 /\ clients = {}
  BY FS_EmptySet DEF ControllerInit
<1>3. DOMAIN poll_fds = {1} /\ 2..Len(poll_fds) = {}
  BY <1>1, LenProperties
<1>4. {poll_fds[i].fd : i \in 2..Len(poll_fds)} = clients
  BY <1>2, <1>3
<1>5. \A i, j \in DOMAIN poll_fds : poll_fds[i].fd = poll_fds[j].fd => i = j
  BY <1>3
<1>. QED
  BY <1>1, <1>2, <1>4, <1>5 DEF PollInv, PollFdsMatchClients

(* Pollfds with the same descriptors in the same places. *)
LEMMA SameFdsPreserve ==
  ASSUME PollInv, UNCHANGED clients,
         poll_fds' \in Seq(PollFd), Len(poll_fds') = Len(poll_fds),
         \A i \in DOMAIN poll_fds : poll_fds'[i].fd = poll_fds[i].fd
  PROVE  PollInv'
<1>1. /\ DOMAIN poll_fds = 1..Len(poll_fds)
      /\ DOMAIN poll_fds' = 1..Len(poll_fds)
      /\ Len(poll_fds) \in Nat
  BY LenProperties DEF PollInv
<1>2. Len(poll_fds) >= 1
  BY <1>1, FS_CardinalityType DEF PollInv, PollFdsMatchClients
<1>3. {poll_fds'[i].fd : i \in 2..Len(poll_fds')} = {poll_fds[i].fd : i \in 2..Len(poll_fds)}
  BY <1>1
<1>4. PollFdsMatchClients'
  BY <1>1, <1>2, <1>3 DEF PollInv, PollFdsMatchClients
<1>. QED
  BY <1>4 DEF PollInv

(* setPollOutByFd changes no descriptor. *)
LEMMA SetPollOutPreserves ==
  ASSUME PollInv, UNCHANGED clients, NEW C, NEW enable \in BOOLEAN,
         poll_fds' = setPollOutByFd(C, enable)
  PROVE  PollInv'
<1>. DEFINE new(i) == IF poll_fds[i].fd \in C
                      THEN [poll_fds[i] EXCEPT !.pollout = enable]
                      ELSE poll_fds[i]
<1>1. /\ DOMAIN poll_fds = 1..Len(poll_fds)
      /\ Len(poll_fds) \in Nat
      /\ \A i \in 1..Len(poll_fds) : poll_fds[i] \in PollFd
  BY LenProperties DEF PollInv
<1>2. \A i \in 1..Len(poll_fds) : new(i) \in PollFd /\ new(i).fd = poll_fds[i].fd
  BY <1>1 DEF PollFd
<1>3. poll_fds' = [i \in 1..Len(poll_fds) |-> new(i)]
  BY <1>1 DEF setPollOutByFd
<1>. HIDE DEF new
<1>4. /\ poll_fds' \in [1..Len(poll_fds) -> PollFd]
      /\ \A i \in DOMAIN poll_fds : poll_fds'[i].fd = poll_fds[i].fd
  BY <1>1, <1>2, <1>3
<1>5. poll_fds' \in Seq(PollFd) /\ Len(poll_fds') = Len(poll_fds)
  BY <1>1, <1>4
<1>. QED
  BY <1>4, <1>5, SameFdsPreserve

(* addClient gives a descriptor that has no client the last pollfd.        *)
LEMMA AddPollFdPreserves ==
  ASSUME PollInv, NEW fd \in Fd, fd \notin clients, addClient(fd)
  PROVE  PollInv'
<1>. DEFINE pfd == [fd |-> fd, pollout |-> TRUE]
            n   == Len(poll_fds)
<1>1. /\ DOMAIN poll_fds = 1..n
      /\ n \in Nat
      /\ pfd \in PollFd
  BY LenProperties DEF PollInv, PollFd
<1>2. /\ poll_fds' \in Seq(PollFd)
      /\ Len(poll_fds') = n + 1
      /\ \A i \in 1..n : poll_fds'[i] = poll_fds[i]
      /\ poll_fds'[n + 1] = pfd
  BY <1>1, AppendProperties DEF PollInv, addClient, registerPollFdFor
<1>3. DOMAIN poll_fds' = 1..(n + 1)
  BY <1>2, LenProperties
<1>4. /\ clients' = clients \cup {fd}
      /\ clients' \subseteq Fd
      /\ IsFiniteSet(clients')
      /\ Cardinality(clients') = Cardinality(clients) + 1
  BY FS_AddElement DEF addClient, PollInv
<1>5. /\ n = Cardinality(clients) + 1
      /\ n >= 1
      /\ poll_fds[1].fd = ServerFd
      /\ \A i, j \in 1..n : poll_fds[i].fd = poll_fds[j].fd => i = j
      /\ {poll_fds[i].fd : i \in 2..n} = clients
  BY <1>1, FS_CardinalityType DEF PollInv, PollFdsMatchClients
<1>6. \A i \in 1..n : poll_fds[i].fd # fd
  <2>1. fd # ServerFd
    BY FdAssumption
  <2>. QED
    BY <1>1, <1>5, <2>1
<1>7. \A i, j \in 1..(n + 1) : poll_fds'[i].fd = poll_fds'[j].fd => i = j
  <2>1. SUFFICES ASSUME NEW i \in 1..(n + 1), NEW j \in 1..(n + 1),
                        poll_fds'[i].fd = poll_fds'[j].fd
                 PROVE  i = j
    OBVIOUS
  <2>2. \A k \in 1..(n + 1) : k \in 1..n \/ k = n + 1
    BY <1>1
  <2>. QED
    BY <1>2, <1>5, <1>6, <2>1, <2>2
<1>8. {poll_fds'[i].fd : i \in 2..(n + 1)} = clients'
  <2>1. 2..(n + 1) = (2..n) \cup {n + 1}
    BY <1>1, <1>5
  <2>2. \A i \in 2..n : poll_fds'[i].fd = poll_fds[i].fd
    BY <1>1, <1>2
  <2>3. poll_fds'[n + 1].fd = fd
    BY <1>2
  <2>. HIDE DEF n, pfd
  <2>. QED
    BY <1>4, <1>5, <2>1, <2>2, <2>3
<1>9. poll_fds'[1].fd = ServerFd
  BY <1>1, <1>2, <1>5
<1>. QED
  BY <1>1, <1>2, <1>3, <1>4, <1>5, <1>7, <1>8, <1>9 DEF PollInv, PollFdsMatchClients

(* erasePollFd takes out the one pollfd of the client, which is not the    *)
(* server's, and moves those behind it forward.                            *)
LEMMA ErasePollFdShape ==
  ASSUME PollInv, NEW fd \in clients
  PROVE  \E k \in 2..Len(poll_fds) :
           /\ poll_fds[k].fd = fd
           /\ erasePollFd(fd) \in Seq(PollFd)
           /\ Len(erasePollFd(fd)) = Len(poll_fds) - 1
           /\ \A i \in 1..(Len(poll_fds) - 1) :
                erasePollFd(fd)[i] = IF i < k THEN poll_fds[i] ELSE poll_fds[i + 1]
<1>. DEFINE n == Len(poll_fds)
            k == CHOOSE i \in DOMAIN poll_fds : poll_fds[i].fd = fd
<1>1. /\ DOMAIN poll_fds = 1..n
      /\ n \in Nat
      /\ \A i \in 1..n : poll_fds[i] \in PollFd
  BY LenProperties DEF PollInv
<1>2. /\ n = Cardinality(clients) + 1
      /\ n >= 1
      /\ poll_fds[1].fd = ServerFd
      /\ \A i, j \in 1..n : poll_fds[i].fd = poll_fds[j].fd => i = j
      /\ {poll_fds[i].fd : i \in 2..n} = clients
  BY <1>1, FS_CardinalityType DEF PollInv, PollFdsMatchClients
<1>3. k \in 2..n /\ poll_fds[k].fd = fd
  <2>1. \E i \in 2..n : poll_fds[i].fd = fd
    BY <1>2
  <2>2. \E i \in DOMAIN poll_fds : poll_fds[i].fd = fd
    BY <1>1, <2>1
  <2>3. k \in 1..n /\ poll_fds[k].fd = fd
    BY <1>1, <2>2
  <2>4. fd # ServerFd
    BY FdAssumption DEF PollInv
  <2>5. k # 1
    BY <1>2, <2>3, <2>4
  <2>. HIDE DEF k
  <2>. QED
    BY <1>1, <2>3, <2>5
<1>4. erasePollFd(fd) = SubSeq(poll_fds, 1, k - 1) \o SubSeq(poll_fds, k + 1, n)
  <2>1. \E i \in DOMAIN poll_fds : poll_fds[i].fd = fd
    BY <1>1, <1>3
  <2>2. erasePollFd(fd) = RemoveAt(poll_fds, k)
    BY <2>1 DEF erasePollFd
  <2>. QED
    BY <2>2 DEF RemoveAt
<1>. HIDE DEF k
<1>5. /\ SubSeq(poll_fds, 1, k - 1) \in Seq(PollFd)
      /\ Len(SubSeq(poll_fds, 1, k - 1)) = k - 1
      /\ \A i \in 1..(k - 1) : SubSeq(poll_fds, 1, k - 1)[i] = poll_fds[i]
  BY <1>1, <1>3, SubSeqProperties
<1>6. /\ SubSeq(poll_fds, k + 1, n) \in Seq(PollFd)
      /\ Len(SubSeq(poll_fds, k + 1, n)) = n - k
      /\ \A i \in 1..(n - k) : SubSeq(poll_fds, k + 1, n)[i] = poll_fds[k + i]
  <2>1. /\ k + 1 \in Int /\ n \in Int
        /\ \A i \in (k + 1)..n : poll_fds[i] \in PollFd
    BY <1>1, <1>3
  <2>. DEFINE m == k + 1
  <2>2. /\ SubSeq(poll_fds, m, n) \in Seq(PollFd)
        /\ Len(SubSeq(poll_fds, m, n)) = IF m <= n THEN n - m + 1 ELSE 0
        /\ \A i \in 1..(n - m + 1) : SubSeq(poll_fds, m, n)[i] = poll_fds[m + i - 1]
    <3>. HIDE DEF n
    <3>. QED
      BY <2>1, SubSeqProperties
  <2>. HIDE DEF n
  <2>3. /\ n - m + 1 = n - k
        /\ (IF m <= n THEN n - m + 1 ELSE 0) = n - k
        /\ \A i \in 1..(n - k) : m + i - 1 = k + i
    BY <1>1, <1>3
  <2>. QED
    BY <2>2, <2>3
<1>7. /\ erasePollFd(fd) \in Seq(PollFd)
      /\ Len(erasePollFd(fd)) = n - 1
      /\ \A i \in 1..(n - 1) :
           erasePollFd(fd)[i] = IF i < k THEN poll_fds[i] ELSE poll_fds[i + 1]
  <2>. DEFINE s1 == SubSeq(poll_fds, 1, k - 1)
              s2 == SubSeq(poll_fds, k + 1, n)
  <2>1. /\ s1 \o s2 \in Seq(PollFd)
        /\ Len(s1 \o s2) = Len(s1) + Len(s2)
        /\ \A i \in 1..Len(s1) + Len(s2) :
             (s1 \o s2)[i] = IF i <= Len(s1) THEN s1[i] ELSE s2[i - Len(s1)]
    <3>1. s1 \in Seq(PollFd) /\ s2 \in Seq(PollFd)
      BY <1>5, <1>6
    <3>. HIDE DEF s1, s2
    <3>. QED
      BY <3>1, ConcatProperties
  <2>2. Len(s1) = k - 1 /\ Len(s2) = n - k /\ Len(s1) + Len(s2) = n - 1
    <3>1. Len(s1) = k - 1
      BY <1>5
    <3>2. Len(s2) = n - k
      BY <1>6
    <3>. HIDE DEF s1, s2, n
    <3>. QED
      BY <1>1, <1>3, <3>1, <3>2
  <2>3. ASSUME NEW i \in 1..(n - 1)
        PROVE  (s1 \o s2)[i] = IF i < k THEN poll_fds[i] ELSE poll_fds[i + 1]
    <3>1. CASE i < k
      <4>1. i <= k - 1 /\ i \in 1..(k - 1)
        BY <1>1, <1>3, <3>1
      <4>. QED
        BY <1>5, <2>1, <2>2, <3>1, <4>1
    <3>2. CASE ~(i < k)
      <4>1. /\ ~(i <= k - 1)
            /\ i - (k - 1) \in 1..(n - k)
            /\ k + (i - (k - 1)) = i + 1
        BY <1>1, <1>3, <3>2
      <4>2. s2[i - (k - 1)] = poll_fds[i + 1]
        BY <1>6, <4>1
      <4>3. (s1 \o s2)[i] = s2[i - (k - 1)]
        BY <2>1, <2>2, <4>1
      <4>. QED
        BY <3>2, <4>2, <4>3
    <3>. QED
      BY <3>1, <3>2
  <2>. QED
    BY <1>4, <2>1, <2>2, <2>3
<1>. QED
  BY <1>3, <1>7

(* removeClientByFd removes the client and its pollfd together. *)
LEMMA ErasePollFdPreserves ==
  ASSUME PollInv, NEW fd \in clients, removeClientByFd(fd)
  PROVE  PollInv'
<1>. DEFINE n == Len(poll_fds)
<1>1. /\ DOMAIN poll_fds = 1..n
      /\ n \in Nat
      /\ \A i \in 1..n : poll_fds[i] \in PollFd
  BY LenProperties DEF PollInv
<1>2. /\ n = Cardinality(clients) + 1
      /\ n >= 1
      /\ poll_fds[1].fd = ServerFd
      /\ \A i, j \in 1..n : poll_fds[i].fd = poll_fds[j].fd => i = j
      /\ {poll_fds[i].fd : i \in 2..n} = clients
  BY <1>1, FS_CardinalityType DEF PollInv, PollFdsMatchClients
<1>. HIDE DEF n
<1>3. PICK k \in 2..n :
        /\ poll_fds[k].fd = fd
        /\ poll_fds' \in Seq(PollFd)
        /\ Len(poll_fds') = n - 1
        /\ \A i \in 1..(n - 1) : poll_fds'[i] = IF i < k THEN poll_fds[i] ELSE poll_fds[i + 1]
  BY ErasePollFdShape DEF removeClientByFd, n
<1>7. /\ poll_fds' \in Seq(PollFd)
      /\ Len(poll_fds') = n - 1
      /\ \A i \in 1..(n - 1) : poll_fds'[i] = IF i < k THEN poll_fds[i] ELSE poll_fds[i + 1]
  BY <1>3
<1>8. DOMAIN poll_fds' = 1..(n - 1)
  BY <1>7, LenProperties
<1>9. /\ clients' = clients \ {fd}
      /\ clients' \subseteq Fd
      /\ IsFiniteSet(clients')
      /\ Cardinality(clients') = Cardinality(clients) - 1
  BY FS_RemoveElement DEF removeClientByFd, PollInv
<1>10. Cardinality(clients) \in Nat
  BY FS_CardinalityType DEF PollInv
<1>11. \A i, j \in 1..(n - 1) : poll_fds'[i].fd = poll_fds'[j].fd => i = j
  <2>1. SUFFICES ASSUME NEW i \in 1..(n - 1), NEW j \in 1..(n - 1),
                        poll_fds'[i].fd = poll_fds'[j].fd
                 PROVE  i = j
    OBVIOUS
  <2>. DEFINE old(x) == IF x < k THEN x ELSE x + 1
  <2>2. /\ old(i) \in 1..n /\ old(j) \in 1..n
        /\ poll_fds'[i] = poll_fds[old(i)] /\ poll_fds'[j] = poll_fds[old(j)]
    BY <1>1, <1>3, <1>7
  <2>3. old(i) = old(j)
    BY <1>2, <2>1, <2>2
  <2>. QED
    BY <1>1, <1>3, <2>3
<1>12. {poll_fds'[i].fd : i \in 2..(n - 1)} = clients'
  <2>1. ASSUME NEW i \in 2..(n - 1)
        PROVE  poll_fds'[i].fd \in clients'
    <3>. DEFINE old == IF i < k THEN i ELSE i + 1
    <3>1. old \in 2..n /\ old # k /\ poll_fds'[i] = poll_fds[old] /\ old \in 1..n /\ k \in 1..n
      BY <1>1, <1>3, <1>7
    <3>. HIDE DEF old
    <3>2. poll_fds[old].fd # fd
      BY <1>2, <1>3, <3>1
    <3>3. poll_fds[old].fd \in clients
      BY <1>2, <3>1
    <3>. QED
      BY <1>9, <3>1, <3>2, <3>3
  <2>2. ASSUME NEW c \in clients'
        PROVE  \E i \in 2..(n - 1) : poll_fds'[i].fd = c
    <3>1. PICK m \in 2..n : poll_fds[m].fd = c
      BY <1>2, <1>9
    <3>2. m # k
      BY <1>3, <1>9, <3>1
    <3>3. CASE m < k
      <4>1. m \in 2..(n - 1) /\ poll_fds'[m] = poll_fds[m]
        BY <1>1, <1>3, <1>7, <3>3
      <4>. QED
        BY <3>1, <4>1
    <3>4. CASE m > k
      <4>1. m - 1 \in 2..(n - 1) /\ poll_fds'[m - 1] = poll_fds[m]
        BY <1>1, <1>3, <1>7, <3>4
      <4>. QED
        BY <3>1, <4>1
    <3>. QED
      BY <1>1, <1>3, <3>2, <3>3, <3>4
  <2>. QED
    BY <2>1, <2>2
<1>13. poll_fds'[1].fd = ServerFd
  BY <1>1, <1>2, <1>3, <1>7
<1>. QED
  BY <1>1, <1>2, <1>7, <1>8, <1>9, <1>10, <1>11, <1>12, <1>13 DEF PollInv, PollFdsMatchClients

(* Whatever the pollfds are, erasing one leaves pollfds. *)
LEMMA ErasedIsTyped ==
  ASSUME poll_fds \in Seq(PollFd), NEW fd
  PROVE  erasePollFd(fd) \in Seq(PollFd)
<1>. DEFINE n == Len(poll_fds)
            k == CHOOSE i \in DOMAIN poll_fds : poll_fds[i].fd = fd
<1>1. CASE \E i \in DOMAIN poll_fds : poll_fds[i].fd = fd
  <2>1. k \in 1..n /\ n \in Nat /\ \A i \in 1..n : poll_fds[i] \in PollFd
    BY <1>1, LenProperties
  <2>2. erasePollFd(fd) = SubSeq(poll_fds, 1, k - 1) \o SubSeq(poll_fds, k + 1, n)
    BY <1>1 DEF erasePollFd, RemoveAt
  <2>. HIDE DEF k, n
  <2>3. /\ SubSeq(poll_fds, 1, k - 1) \in Seq(PollFd)
        /\ SubSeq(poll_fds, k + 1, n) \in Seq(PollFd)
    <3>1. /\ k - 1 \in Int /\ k + 1 \in Int
          /\ \A i \in 1..(k - 1) : poll_fds[i] \in PollFd
          /\ \A i \in (k + 1)..n : poll_fds[i] \in PollFd
      BY <2>1
    <3>. DEFINE a == k - 1
                b == k + 1
    <3>. HIDE DEF a, b
    <3>2. SubSeq(poll_fds, 1, a) \in Seq(PollFd)
      BY <3>1, SubSeqProperties DEF a
    <3>3. SubSeq(poll_fds, b, n) \in Seq(PollFd)
      BY <2>1, <3>1, SubSeqProperties DEF b
    <3>. QED
      BY <3>2, <3>3 DEF a, b
  <2>. QED
    BY <2>2, <2>3, ConcatProperties
<1>2. CASE ~\E i \in DOMAIN poll_fds : poll_fds[i].fd = fd
  BY <1>2 DEF erasePollFd
<1>. QED
  BY <1>1, <1>2
=============================================================================
