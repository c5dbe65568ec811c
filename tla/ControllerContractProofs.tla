----------------------- MODULE ControllerContractProofs -----------------------
(***************************************************************************)
(* The theorems about StateController under any sequence of calls, not     *)
(* only those the hub's loop makes: what ControllerContract promises its   *)
(* caller, also one that passes clients which are not in the map.          *)
(***************************************************************************)
EXTENDS ControllerContract, StateControllerProofs

(* What a client lists lists the client, which is in the map.  Of the two  *)
(* halves of SubscriptionsMatchSubscribers it is the one that holds under  *)
(* any calls.                                                              *)
ListedBack ==
  \A c \in Fd : \A id \in subscriptions[c] : c \in clients /\ id \in listedIn(c)

(* The inductive invariant: with it no operation but addSubscription       *)
(* leaves a half behind, and channels[id] never creates a channel.         *)
ContractInv ==
  /\ ContractTypeOK
  /\ ListedBack
  /\ ChannelNamesUnique

(* No subscription becomes known to one side only.                         *)
NoNewHalves == \A c \in Fd : halves(c)' \subseteq halves(c)

LEMMA RegistryTypes ==
  ASSUME ContractInv
  PROVE  RegistryTypeOK
BY DEF ContractInv, ContractTypeOK, ControllerTypeOK, ClientTypeOK, RegistryTypeOK

-----------------------------------------------------------------------------
(* One lemma per operation: types, names and ListedBack are preserved, and *)
(* where subscriptions and subscribers change, they change together.       *)

LEMMA RegistryStays ==
  ASSUME ContractInv, UNCHANGED <<subscriptions, channels, idGen>>,
         clients \subseteq clients', clients' \subseteq Fd
  PROVE  RegistryTypeOK' /\ ListedBack' /\ ChannelNamesUnique' /\ NoNewHalves
BY RegistryTypes DEF ContractInv, RegistryTypeOK, ListedBack, ChannelNamesUnique,
   NoNewHalves, halves, listedIn

(* Changes of one channel's subscribers, and of who lists it, for one      *)
(* client: what happens to one of the two sets happens to both.            *)
LEMMA BothSidesTogether ==
  ASSUME ContractInv, NEW id \in DOMAIN channels, NEW c \in Fd,
         clients \subseteq clients', clients' \subseteq Fd, UNCHANGED idGen,
         \/ /\ channels' = addSubscriber(id, c)
            /\ subscriptions' = subscribeTo(c, id)
            /\ c \in clients
         \/ /\ channels' = removeSubscriber(id, c)
            /\ subscriptions' = unsubscribeFrom({c}, id)
  PROVE  RegistryTypeOK' /\ ListedBack' /\ ChannelNamesUnique' /\ NoNewHalves
<1>. DEFINE adds == channels' = addSubscriber(id, c) /\ c \in clients
                    /\ subscriptions' = subscribeTo(c, id)
            S    == IF adds THEN channels[id].subscribers \cup {c}
                            ELSE channels[id].subscribers \ {c}
<1>1. RegistryTypeOK /\ ChannelNamesUnique /\ ListedBack
  BY RegistryTypes DEF ContractInv
<1>2. S \in SUBSET Fd /\ id \in Nat
  BY <1>1 DEF RegistryTypeOK, Channel
<1>3. channels' = [channels EXCEPT ![id].subscribers = S]
  BY DEF addSubscriber, removeSubscriber
<1>4. /\ subscriptions' \in [Fd -> SUBSET Nat]
      /\ \A d \in Fd : subscriptions'[d] =
           IF d # c THEN subscriptions[d]
           ELSE IF adds THEN subscriptions[d] \cup {id} ELSE subscriptions[d] \ {id}
  <2>1. CASE adds
    BY <1>1, <1>2, <2>1 DEF subscribeTo, RegistryTypeOK
  <2>2. CASE ~adds
    <3>1. subscriptions' = unsubscribeFrom({c}, id)
      BY <2>2
    <3>. QED
      BY <1>1, <2>2, <3>1 DEF unsubscribeFrom, RegistryTypeOK
  <2>. QED
    BY <2>1, <2>2
<1>5. /\ DOMAIN channels' = DOMAIN channels
      /\ \A i \in DOMAIN channels : channels'[i].subscribers =
           IF i = id THEN S ELSE channels[i].subscribers
  BY <1>1, <1>3 DEF RegistryTypeOK, Channel
<1>6. RegistryTypeOK' /\ ChannelNamesUnique'
  BY <1>1, <1>2, <1>3, <1>4, SubscribersOnly
<1>7. adds => c \in clients
  OBVIOUS
<1>8. S = IF adds THEN channels[id].subscribers \cup {c} ELSE channels[id].subscribers \ {c}
  OBVIOUS
<1>. HIDE DEF adds, S
<1>9. \A d \in Fd : listedIn(d)' =
        IF d # c THEN listedIn(d)
        ELSE IF adds THEN listedIn(d) \cup {id} ELSE listedIn(d) \ {id}
  BY <1>5, <1>8 DEF listedIn
<1>10. ListedBack'
  BY <1>1, <1>4, <1>7, <1>9 DEF ListedBack
<1>11. NoNewHalves
  BY <1>4, <1>9 DEF NoNewHalves, halves
<1>. QED
  BY <1>6, <1>10, <1>11

(* addSubscription enters both sides or, for a missing client, one.        *)
LEMMA AddSubscriptionEffect ==
  ASSUME ContractInv, NEW c \in Fd, NEW name, NEW result, addSubscription(c, name, result)
  PROVE  /\ RegistryTypeOK' /\ ListedBack' /\ ChannelNamesUnique'
         /\ clients' = clients
         /\ \/ NoNewHalves
            \/ /\ result = "out_of_range" /\ c \notin clients
               /\ \A d \in Fd \ {c} : halves(d)' \subseteq halves(d)
<1>1. RegistryTypeOK /\ ChannelNamesUnique /\ ListedBack
  BY RegistryTypes DEF ContractInv
<1>2. clients' = clients /\ UNCHANGED idGen /\ clients \subseteq Fd
  BY <1>1 DEF addSubscription, RegistryTypeOK
<1>3. CASE UNCHANGED <<subscriptions, channels>>
  BY <1>2, <1>3, RegistryStays
<1>4. CASE \E id \in channelIdByName(name) :
             channels' = addSubscriber(id, c) /\ c \in clients /\ subscriptions' = subscribeTo(c, id)
  <2>1. PICK id \in DOMAIN channels :
             channels' = addSubscriber(id, c) /\ c \in clients /\ subscriptions' = subscribeTo(c, id)
    BY <1>4 DEF channelIdByName
  <2>. QED
    BY <1>2, <2>1, BothSidesTogether
<1>5. CASE /\ c \notin clients /\ result = "out_of_range" /\ UNCHANGED subscriptions
           /\ \E id \in channelIdByName(name) : channels' = addSubscriber(id, c)
  <2>1. PICK id \in DOMAIN channels : channels' = addSubscriber(id, c)
    BY <1>5 DEF channelIdByName
  <2>2. channels' = [channels EXCEPT ![id].subscribers = channels[id].subscribers \cup {c}]
    BY <2>1 DEF addSubscriber
  <2>3. channels[id].subscribers \cup {c} \in SUBSET Fd
    BY <1>1 DEF RegistryTypeOK, Channel
  <2>4. subscriptions' \in [Fd -> SUBSET Nat]
    BY <1>1, <1>5 DEF RegistryTypeOK
  <2>5. RegistryTypeOK' /\ ChannelNamesUnique'
    BY <1>1, <1>2, <2>2, <2>3, <2>4, SubscribersOnly
  <2>6. /\ DOMAIN channels' = DOMAIN channels
        /\ \A i \in DOMAIN channels : channels'[i].subscribers =
             IF i = id THEN channels[i].subscribers \cup {c} ELSE channels[i].subscribers
    BY <1>1, <2>2 DEF RegistryTypeOK, Channel
  <2>7. \A d \in Fd : listedIn(d)' = IF d = c THEN listedIn(d) \cup {id} ELSE listedIn(d)
    <3>1. ASSUME NEW d \in Fd, NEW i \in DOMAIN channels
          PROVE  d \in channels'[i].subscribers
                   <=> d \in channels[i].subscribers \/ (d = c /\ i = id)
      BY <2>6
    <3>. QED
      BY <2>6, <3>1, Zenon DEF listedIn
  <2>8. ListedBack'
    BY <1>1, <1>2, <1>5, <2>7 DEF ListedBack
  <2>9. \A d \in Fd \ {c} : halves(d)' \subseteq halves(d)
    BY <1>5, <2>7 DEF halves
  <2>. QED
    BY <1>2, <1>5, <2>5, <2>8, <2>9
<1>. QED
  BY <1>3, <1>4, <1>5 DEF addSubscription

(* removeSubscription leaves neither side, and a client where there was    *)
(* none (the operator[] of the map).                                       *)
LEMMA RemoveSubscriptionEffect ==
  ASSUME ContractInv, NEW c \in Fd, NEW name, NEW result, removeSubscription(c, name, result)
  PROVE  /\ RegistryTypeOK' /\ ListedBack' /\ ChannelNamesUnique' /\ NoNewHalves
         /\ clients \subseteq clients'
<1>1. clients \subseteq clients' /\ UNCHANGED idGen /\ clients' \subseteq Fd
  BY RegistryTypes DEF removeSubscription, RegistryTypeOK
<1>2. CASE UNCHANGED <<subscriptions, channels>>
  BY <1>1, <1>2, RegistryStays
<1>3. CASE \E id \in channelIdByName(name) :
             channels' = removeSubscriber(id, c) /\ subscriptions' = unsubscribeFrom({c}, id)
  <2>1. PICK id \in DOMAIN channels :
             channels' = removeSubscriber(id, c) /\ subscriptions' = unsubscribeFrom({c}, id)
    BY <1>3 DEF channelIdByName
  <2>. QED
    BY <1>1, <2>1, BothSidesTogether
<1>. QED
  BY <1>1, <1>2, <1>3 DEF removeSubscription

(* addChannel: nobody lists the id it hands out. *)
LEMMA AddChannelEffect ==
  ASSUME ContractInv, NEW name \in ChannelName, NEW result, addChannel(name, result)
  PROVE  /\ RegistryTypeOK' /\ ListedBack' /\ ChannelNamesUnique' /\ NoNewHalves
         /\ clients' = clients
<1>1. RegistryTypeOK /\ ChannelNamesUnique /\ ListedBack
  BY RegistryTypes DEF ContractInv
<1>2. UNCHANGED <<clients, subscriptions>> /\ clients \subseteq Fd
  BY <1>1 DEF addChannel, RegistryTypeOK
<1>3. CASE result # "none"
  BY <1>2, <1>3, RegistryStays DEF addChannel
<1>4. CASE result = "none"
  <2>1. /\ \A id \in DOMAIN channels : channels[id].name # name
        /\ name \notin WhitespaceName
    BY <1>4 DEF addChannel, refusal, channelExists, channelIdByName
  <2>2. idGen \notin DOMAIN channels
    BY <1>1 DEF ChannelNamesUnique, RegistryTypeOK
  <2>3. /\ DOMAIN channels' = DOMAIN channels \cup {idGen}
        /\ \A id \in DOMAIN channels : channels'[id] = channels[id]
        /\ channels'[idGen] = [name |-> name, subscribers |-> {}]
        /\ channels' = [id \in DOMAIN channels' |-> channels'[id]]
        /\ idGen' = idGen + 1
    BY <1>4, <2>2 DEF addChannel, insertChannel
  <2>4. RegistryTypeOK'
    <3>1. \A id \in DOMAIN channels' : channels'[id] \in Channel
      BY <1>1, <2>3 DEF RegistryTypeOK, Channel
    <3>2. channels' \in [DOMAIN channels' -> Channel]
      BY <2>3, <3>1
    <3>. QED
      BY <1>1, <1>2, <2>3, <3>2 DEF RegistryTypeOK
  <2>5. ChannelNamesUnique'
    BY <1>1, <2>1, <2>3 DEF ChannelNamesUnique, RegistryTypeOK
  <2>6. \A d \in Fd : listedIn(d)' = listedIn(d)
    BY <2>2, <2>3 DEF listedIn
  <2>7. ListedBack' /\ NoNewHalves
    BY <1>1, <1>2, <2>6 DEF ListedBack, NoNewHalves, halves
  <2>. QED
    BY <1>2, <2>4, <2>5, <2>7
<1>. QED
  BY <1>3, <1>4

(* deleteChannel takes the id from the clients the channel lists, which    *)
(* are all that list it, and makes those it does not find.                 *)
LEMMA DeleteChannelEffect ==
  ASSUME ContractInv, NEW name, NEW result, deleteChannel(name, result)
  PROVE  /\ RegistryTypeOK' /\ ListedBack' /\ ChannelNamesUnique' /\ NoNewHalves
         /\ clients \subseteq clients'
<1>1. RegistryTypeOK /\ ChannelNamesUnique /\ ListedBack
  BY RegistryTypes DEF ContractInv
<1>2. CASE UNCHANGED <<clients, subscriptions, channels>>
  BY <1>1, <1>2, RegistryStays DEF deleteChannel, RegistryTypeOK
<1>3. CASE \E id \in channelIdByName(name) :
             /\ clients' = clients \cup channels[id].subscribers
             /\ subscriptions' = unsubscribeFrom(channels[id].subscribers, id)
             /\ channels' = [i \in DOMAIN channels \ {id} |-> channels[i]]
  <2>1. PICK id \in DOMAIN channels :
             /\ clients' = clients \cup channels[id].subscribers
             /\ subscriptions' = unsubscribeFrom(channels[id].subscribers, id)
             /\ channels' = [i \in DOMAIN channels \ {id} |-> channels[i]]
    BY <1>3 DEF channelIdByName
  <2>2. channels[id].subscribers \subseteq Fd /\ UNCHANGED idGen
    BY <1>1 DEF RegistryTypeOK, Channel, deleteChannel
  <2>3. \A d \in Fd : subscriptions'[d] = subscriptions[d] \ {id}
    <3>1. ASSUME NEW d \in Fd PROVE id \in subscriptions[d] => d \in channels[id].subscribers
      BY <1>1 DEF ListedBack, listedIn
    <3>. QED
      BY <2>1, <3>1 DEF unsubscribeFrom
  <2>4. RegistryTypeOK'
    <3>1. subscriptions' \in [Fd -> SUBSET Nat]
      BY <1>1, <2>1 DEF unsubscribeFrom, RegistryTypeOK
    <3>. QED
      BY <1>1, <2>1, <2>2, <3>1 DEF RegistryTypeOK
  <2>5. ChannelNamesUnique'
    BY <1>1, <2>1, <2>2 DEF ChannelNamesUnique
  <2>6. \A d \in Fd : listedIn(d)' = listedIn(d) \ {id}
    BY <2>1 DEF listedIn
  <2>7. ListedBack' /\ NoNewHalves
    BY <1>1, <2>1, <2>3, <2>6 DEF ListedBack, NoNewHalves, halves
  <2>. QED
    BY <2>1, <2>4, <2>5, <2>7
<1>. QED
  BY <1>2, <1>3 DEF deleteChannel

(* removeClientByFd ends what the client lists on both sides; it finds     *)
(* each of those channels, and leaves the halves it does not know of.      *)
LEMMA RemoveClientEffect ==
  ASSUME ContractInv, NEW fd \in Fd, removeClientByFd(fd)
  PROVE  /\ RegistryTypeOK' /\ ListedBack' /\ ChannelNamesUnique' /\ NoNewHalves
         /\ clients' = clients \ {fd}
         /\ DOMAIN channels' = DOMAIN channels
         /\ \A id \in DOMAIN channels : channels'[id].subscribers =
              IF id \in subscriptions[fd] THEN channels[id].subscribers \ {fd}
              ELSE channels[id].subscribers
<1>1. RegistryTypeOK /\ ChannelNamesUnique /\ ListedBack
  BY RegistryTypes DEF ContractInv
<1>2. subscriptions[fd] \subseteq DOMAIN channels /\ missingChannels(fd) = {}
  BY <1>1 DEF ListedBack, listedIn, missingChannels
<1>3. idGen' = idGen
  <2>1. Cardinality(missingChannels(fd)) = 0
    BY <1>2, FS_EmptySet
  <2>. QED
    BY <1>1, <2>1 DEF removeClientByFd, RegistryTypeOK
<1>4. /\ DOMAIN channels' = DOMAIN channels
      /\ channels' \in [DOMAIN channels' -> Channel]
      /\ \A id \in DOMAIN channels :
           /\ channels'[id].name = channels[id].name
           /\ channels'[id].subscribers =
                IF id \in subscriptions[fd] THEN channels[id].subscribers \ {fd}
                ELSE channels[id].subscribers
  BY <1>1, <1>2 DEF removeClientByFd, channelsWithout, RegistryTypeOK, Channel
<1>5. /\ clients' = clients \ {fd}
      /\ subscriptions' \in [Fd -> SUBSET Nat]
      /\ \A c \in Fd : subscriptions'[c] = IF c = fd THEN {} ELSE subscriptions[c]
  BY <1>1 DEF removeClientByFd, destroyClient, RegistryTypeOK
<1>6. RegistryTypeOK' /\ ChannelNamesUnique'
  BY <1>1, <1>3, <1>4, <1>5 DEF RegistryTypeOK, ChannelNamesUnique
<1>7. \A c \in Fd : listedIn(c)' = IF c = fd THEN listedIn(c) \ subscriptions[fd] ELSE listedIn(c)
  <2>1. ASSUME NEW c \in Fd, NEW id \in DOMAIN channels
        PROVE  c \in channels'[id].subscribers
                 <=> c \in channels[id].subscribers /\ ~(c = fd /\ id \in subscriptions[fd])
    BY <1>4
  <2>. QED
    BY <1>4, <2>1, Zenon DEF listedIn
<1>8. ListedBack' /\ NoNewHalves
  BY <1>1, <1>5, <1>7 DEF ListedBack, NoNewHalves, halves
<1>. QED
  BY <1>4, <1>5, <1>6, <1>8

-----------------------------------------------------------------------------
(* What the invariant says of all but the registry. *)
OthersTyped ==
  /\ backlog_queue \in [Fd -> Seq(Frame)]
  /\ poll_fds \in Seq(PollFd)
  /\ created \subseteq clients
  /\ call \in
       [op : {"none", "addSubscription", "removeSubscription", "addChannel",
              "deleteChannel", "addClient", "removeClientByFd"},
        client : Fd \cup {NoClient}, name : ChannelName \cup {EmptyName},
        result : Exception]

LEMMA ContractParts ==
  ASSUME RegistryTypeOK, ListedBack, ChannelNamesUnique, OthersTyped
  PROVE  ContractInv
BY DEF ContractInv, ContractTypeOK, ControllerTypeOK, ClientTypeOK, OthersTyped, RegistryTypeOK

LEMMA ContractInit ==
  ASSUME Init
  PROVE  ContractInv
<1>1. RegistryInv /\ PollInv
  BY RegistryInit, PollInit DEF Init
<1>2. backlog_queue \in [Fd -> Seq(Frame)]
  BY DEF Init, ControllerInit, ClientInit
<1>3. OthersTyped
  BY <1>1, <1>2 DEF Init, Call, NoClient, Exception, OthersTyped, PollInv
<1>4. ListedBack
  BY DEF Init, ControllerInit, ClientInit, ListedBack
<1>. QED
  BY <1>1, <1>3, <1>4, ContractParts DEF RegistryInv

LEMMA OnRegistryTyped ==
  ASSUME ContractInv, clients \subseteq clients',
         NEW op \in {"addSubscription", "removeSubscription", "addChannel", "deleteChannel"},
         NEW c \in Fd \cup {NoClient}, NEW name \in ChannelName, NEW result \in Exception,
         OnRegistry(op, c, name, result)
  PROVE  OthersTyped'
<1>1. UNCHANGED <<backlog_queue, poll_fds>> /\ created' \subseteq clients'
  BY DEF ContractInv, ContractTypeOK, OnRegistry
<1>. QED
  BY <1>1 DEF ContractInv, ContractTypeOK, ControllerTypeOK, ClientTypeOK, OnRegistry, Call,
     OthersTyped

(* What a step does to the registry: new halves are those of a missing     *)
(* client.                                                                 *)
HalvesAllowed ==
  \A c \in Fd :
    \/ halves(c)' \subseteq halves(c)
    \/ /\ c \notin clients
       /\ call' = Call("addSubscription", c, call'.name, "out_of_range")

LEMMA NoneIsAllowed ==
  ASSUME NoNewHalves
  PROVE  HalvesAllowed
BY DEF NoNewHalves, HalvesAllowed

LEMMA OperationEffect ==
  ASSUME ContractInv, Operation
  PROVE  RegistryTypeOK' /\ ListedBack' /\ ChannelNamesUnique' /\ OthersTyped' /\ HalvesAllowed
<1>1. RegistryTypeOK /\ ChannelNamesUnique /\ ListedBack
  BY RegistryTypes DEF ContractInv
<1>2. ASSUME NEW c \in Fd, NEW name \in ChannelName, AddSubscription(c, name)
      PROVE  RegistryTypeOK' /\ ListedBack' /\ ChannelNamesUnique' /\ OthersTyped' /\ HalvesAllowed
  <2>1. PICK result \in Exception :
          addSubscription(c, name, result) /\ OnRegistry("addSubscription", c, name, result)
    BY <1>2 DEF AddSubscription
  <2>2. /\ RegistryTypeOK' /\ ListedBack' /\ ChannelNamesUnique' /\ clients' = clients
        /\ \/ NoNewHalves
           \/ /\ result = "out_of_range" /\ c \notin clients
              /\ \A d \in Fd \ {c} : halves(d)' \subseteq halves(d)
    BY <2>1, AddSubscriptionEffect
  <2>3. OthersTyped'
    BY <2>1, <2>2, OnRegistryTyped
  <2>4. call' = Call("addSubscription", c, call'.name, result)
    BY <2>1 DEF OnRegistry, Call
  <2>5. HalvesAllowed
    BY <2>2, <2>4, NoneIsAllowed DEF HalvesAllowed
  <2>. QED
    BY <2>2, <2>3, <2>5
<1>3. ASSUME NEW c \in Fd, NEW name \in ChannelName, RemoveSubscription(c, name)
      PROVE  RegistryTypeOK' /\ ListedBack' /\ ChannelNamesUnique' /\ OthersTyped' /\ HalvesAllowed
  <2>1. PICK result \in Exception :
          removeSubscription(c, name, result) /\ OnRegistry("removeSubscription", c, name, result)
    BY <1>3 DEF RemoveSubscription
  <2>. QED
    BY <2>1, RemoveSubscriptionEffect, OnRegistryTyped, NoneIsAllowed
<1>4. ASSUME NEW name \in ChannelName, AddChannel(name)
      PROVE  RegistryTypeOK' /\ ListedBack' /\ ChannelNamesUnique' /\ OthersTyped' /\ HalvesAllowed
  <2>1. PICK result \in Exception :
          addChannel(name, result) /\ OnRegistry("addChannel", NoClient, name, result)
    BY <1>4 DEF AddChannel
  <2>. QED
    BY <2>1, AddChannelEffect, OnRegistryTyped, NoneIsAllowed
<1>5. ASSUME NEW name \in ChannelName, DeleteChannel(name)
      PROVE  RegistryTypeOK' /\ ListedBack' /\ ChannelNamesUnique' /\ OthersTyped' /\ HalvesAllowed
  <2>1. PICK result \in Exception :
          deleteChannel(name, result) /\ OnRegistry("deleteChannel", NoClient, name, result)
    BY <1>5 DEF DeleteChannel
  <2>. QED
    BY <2>1, DeleteChannelEffect, OnRegistryTyped, NoneIsAllowed
<1>6. ASSUME NEW fd \in Fd, AddClient(fd)
      PROVE  RegistryTypeOK' /\ ListedBack' /\ ChannelNamesUnique' /\ OthersTyped' /\ HalvesAllowed
  <2>1. /\ clients' = clients \cup {fd} /\ UNCHANGED <<subscriptions, channels, idGen>>
        /\ UNCHANGED <<backlog_queue, created>>
        /\ poll_fds' = Append(poll_fds, [fd |-> fd, pollout |-> TRUE])
        /\ call' = Call("addClient", fd, EmptyName, "none")
    BY <1>6 DEF AddClient, addClient, registerPollFdFor
  <2>2. RegistryTypeOK' /\ ListedBack' /\ ChannelNamesUnique' /\ NoNewHalves
    BY <1>1, <2>1, RegistryStays DEF RegistryTypeOK
  <2>3. poll_fds' \in Seq(PollFd)
    <3>1. [fd |-> fd, pollout |-> TRUE] \in PollFd
      BY DEF PollFd
    <3>2. poll_fds \in Seq(PollFd)
      BY DEF ContractInv, ContractTypeOK, ControllerTypeOK
    <3>. QED
      BY <2>1, <3>1, <3>2, AppendProperties
  <2>4. OthersTyped'
    BY <2>1, <2>3 DEF OthersTyped, Call, Exception, ContractInv, ContractTypeOK,
       ControllerTypeOK, ClientTypeOK
  <2>. QED
    BY <2>2, <2>4, NoneIsAllowed
<1>7. ASSUME NEW fd \in Fd, RemoveClient(fd)
      PROVE  RegistryTypeOK' /\ ListedBack' /\ ChannelNamesUnique' /\ OthersTyped' /\ HalvesAllowed
  <2>1. /\ UNCHANGED created
        /\ call' = Call("removeClientByFd", fd, EmptyName, "none")
    BY <1>7 DEF RemoveClient
  <2>2. call' \in
       [op : {"none", "addSubscription", "removeSubscription", "addChannel",
              "deleteChannel", "addClient", "removeClientByFd"},
        client : Fd \cup {NoClient}, name : ChannelName \cup {EmptyName},
        result : Exception]
    BY <2>1 DEF Call, Exception
  <2>3. CASE fd \in created
    <3>1. UNCHANGED <<subscriptions, channels, idGen, clients, backlog_queue, poll_fds>>
      BY <1>7, <2>3 DEF RemoveClient, controllerVars, registryVars
    <3>2. RegistryTypeOK' /\ ListedBack' /\ ChannelNamesUnique' /\ NoNewHalves
      BY <1>1, <3>1, RegistryStays DEF RegistryTypeOK
    <3>3. OthersTyped'
      BY <2>1, <2>2, <3>1 DEF OthersTyped, ContractInv, ContractTypeOK, ControllerTypeOK,
         ClientTypeOK
    <3>. QED
      BY <3>2, <3>3, NoneIsAllowed
  <2>4. CASE fd \notin created
    <3>1. removeClientByFd(fd)
      BY <1>7, <2>4 DEF RemoveClient
    <3>2. /\ RegistryTypeOK' /\ ListedBack' /\ ChannelNamesUnique' /\ NoNewHalves
          /\ clients' = clients \ {fd}
      BY <3>1, RemoveClientEffect
    <3>3. poll_fds' \in Seq(PollFd)
      BY <3>1, ErasedIsTyped DEF removeClientByFd, ContractInv, ContractTypeOK, ControllerTypeOK
    <3>4. backlog_queue' \in [Fd -> Seq(Frame)]
      BY <3>1 DEF removeClientByFd, destroyClient, ContractInv, ContractTypeOK,
         ControllerTypeOK, ClientTypeOK
    <3>5. created' \subseteq clients'
      BY <2>1, <2>4, <3>2 DEF ContractInv, ContractTypeOK
    <3>6. OthersTyped'
      BY <2>2, <3>3, <3>4, <3>5 DEF OthersTyped
    <3>. QED
      BY <3>2, <3>6, NoneIsAllowed
  <2>. QED
    BY <2>3, <2>4
<1>. QED
  BY <1>2, <1>3, <1>4, <1>5, <1>6, <1>7 DEF Operation

LEMMA ContractStep ==
  ASSUME ContractInv, [Operation]_vars
  PROVE  ContractInv'
<1>1. CASE UNCHANGED vars
  <2>1. UNCHANGED <<subscriptions, channels, idGen, clients, backlog_queue, poll_fds, created, call>>
    BY <1>1 DEF vars, controllerVars, registryVars
  <2>2. RegistryTypeOK' /\ ListedBack' /\ ChannelNamesUnique'
    BY <2>1, RegistryStays, RegistryTypes DEF RegistryTypeOK
  <2>3. OthersTyped'
    BY <2>1 DEF OthersTyped, ContractInv, ContractTypeOK, ControllerTypeOK, ClientTypeOK
  <2>4. (RegistryTypeOK /\ ListedBack /\ ChannelNamesUnique /\ OthersTyped => ContractInv)'
    BY ContractParts, PTL
  <2>. QED
    BY <2>2, <2>3, <2>4
<1>2. CASE Operation
  <2>1. RegistryTypeOK' /\ ListedBack' /\ ChannelNamesUnique' /\ OthersTyped'
    BY <1>2, OperationEffect
  <2>2. (RegistryTypeOK /\ ListedBack /\ ChannelNamesUnique /\ OthersTyped => ContractInv)'
    BY ContractParts, PTL
  <2>. QED
    BY <2>1, <2>2
<1>. QED
  BY <1>1, <1>2

(* Under any sequence of calls, among them those Hub never makes, for      *)
(* clients that exist or not: every channel a client lists exists and      *)
(* lists it, so that no operation brings back a deleted channel, and types *)
(* and names are kept (StateController.cpp).                               *)
THEOREM ContractInvariance == Spec => []ContractInv
BY ContractInit, ContractStep, PTL DEF Spec

(* Whatever is called, in any order: a lookup by name finds at most one    *)
(* channel, no name contains whitespace, and every id is below the next.   *)
THEOREM NamesStayUnique == Spec => []ChannelNamesUnique
<1>1. ContractInv => ChannelNamesUnique
  BY DEF ContractInv
<1>. QED
  BY <1>1, ContractInvariance, PTL

(* The two sides of a subscription change together in every call but one:  *)
(* an addSubscription that throws out_of_range for a missing client        *)
(* (StateController.cpp:154-155), which enters it on the channel's side.   *)
THEOREM HalvesAreMissingClients == Spec => HalvesAreOfMissingClients
<1>1. ContractInv /\ [Operation]_vars => [HalvesAllowed]_vars
  BY OperationEffect
<1>2. Spec => [][HalvesAllowed]_vars
  BY <1>1, ContractInvariance, PTL DEF Spec
<1>. QED
  BY <1>2 DEF HalvesAreOfMissingClients, HalvesAllowed

-----------------------------------------------------------------------------
(* The subscribers of the channel `id' after a step; none once it is gone. *)
subscribersAfter(id) ==
  IF id \in DOMAIN channels' THEN channels'[id].subscribers ELSE {}

(* An operation on a channel changes the subscribers of no other.          *)
LEMMA OneChannelChanges ==
  ASSUME ContractInv, NEW id \in DOMAIN channels, NEW name, NEW result, NEW c,
         \/ addSubscription(c, name, result) \/ removeSubscription(c, name, result)
         \/ addChannel(name, result) \/ deleteChannel(name, result),
         channels[id].name # name
  PROVE  subscribersAfter(id) = channels[id].subscribers
<1>1. channels \in [DOMAIN channels -> Channel]
  BY RegistryTypes DEF RegistryTypeOK
<1>2. CASE UNCHANGED channels
  BY <1>2 DEF subscribersAfter
<1>3. ASSUME NEW other \in channelIdByName(name),
             \/ channels' = addSubscriber(other, c)
             \/ channels' = removeSubscriber(other, c)
             \/ channels' = [i \in DOMAIN channels \ {other} |-> channels[i]]
      PROVE  subscribersAfter(id) = channels[id].subscribers
  <2>1. other # id
    BY DEF channelIdByName
  <2>2. id \in DOMAIN channels' /\ channels'[id] = channels[id]
    BY <1>1, <1>3, <2>1 DEF addSubscriber, removeSubscriber
  <2>. QED
    BY <2>2 DEF subscribersAfter
<1>4. CASE insertChannel(name)
  BY <1>4 DEF insertChannel, subscribersAfter
<1>. QED
  BY <1>2, <1>3, <1>4 DEF addSubscription, removeSubscription, addChannel, deleteChannel

(* A client that goes is taken out of every channel that is no half of     *)
(* its subscriptions, and nobody else is out of any; one that operator[]   *)
(* made does not go.                                                       *)
LEMMA OneClientGoes ==
  ASSUME ContractInv, NEW id \in DOMAIN channels, NEW fd \in Fd, RemoveClient(fd)
  PROVE  subscribersAfter(id) = IF fd \in created \/ id \in halves(fd)
                                THEN channels[id].subscribers
                                ELSE channels[id].subscribers \ {fd}
<1>1. CASE fd \in created
  BY <1>1 DEF RemoveClient, controllerVars, registryVars, subscribersAfter
<1>2. CASE fd \notin created
  <2>1. removeClientByFd(fd)
    BY <1>2 DEF RemoveClient
  <2>2. subscribersAfter(id) = IF id \in subscriptions[fd] THEN channels[id].subscribers \ {fd}
                               ELSE channels[id].subscribers
    BY <2>1, RemoveClientEffect DEF subscribersAfter
  <2>3. id \in subscriptions[fd] => id \in listedIn(fd)
    BY DEF ContractInv, ListedBack
  <2>4. CASE id \in subscriptions[fd]
    BY <1>2, <2>2, <2>3, <2>4 DEF halves
  <2>5. CASE id \notin subscriptions[fd] /\ id \in listedIn(fd)
    BY <2>2, <2>5 DEF halves
  <2>6. CASE id \notin subscriptions[fd] /\ id \notin listedIn(fd)
    <3>1. fd \notin channels[id].subscribers
      BY <2>6 DEF listedIn
    <3>2. channels[id].subscribers \ {fd} = channels[id].subscribers
      BY <3>1
    <3>. QED
      BY <2>2, <2>6, <3>2
  <2>. QED
    BY <2>4, <2>5, <2>6
<1>. QED
  BY <1>1, <1>2

(* An operation on a channel leaves the subscribers of every other channel *)
(* alone, addClient those of all, and removeClientByFd takes its client    *)
(* out of all of them but halves, although it only visits the channels the *)
(* client lists itself; also for clients that are not in the map.          *)
THEOREM OperationsAreLocal == Spec => OperationsStayLocal
<1>. DEFINE Local(id) ==
       IF call'.op = "removeClientByFd"
       THEN subscribersAfter(id) = IF call'.client \in created \/ id \in halves(call'.client)
                                   THEN channels[id].subscribers
                                   ELSE channels[id].subscribers \ {call'.client}
       ELSE channels[id].name # call'.name
              => subscribersAfter(id) = channels[id].subscribers
<1>1. ContractInv /\ Operation => \A id \in DOMAIN channels : Local(id)
  <2>1. SUFFICES ASSUME ContractInv, Operation, NEW id \in DOMAIN channels
                 PROVE  Local(id)
    OBVIOUS
  <2>. DEFINE OnChannel(c, name, result) ==
         \/ addSubscription(c, name, result) \/ removeSubscription(c, name, result)
         \/ addChannel(name, result) \/ deleteChannel(name, result)
  <2>2. ASSUME NEW c, NEW name, NEW result, OnChannel(c, name, result),
               call'.name = name, call'.op # "removeClientByFd"
        PROVE  Local(id)
    BY <2>1, <2>2, OneChannelChanges
  <2>3. ASSUME NEW c \in Fd, NEW name \in ChannelName,
               AddSubscription(c, name) \/ RemoveSubscription(c, name)
        PROVE  Local(id)
    <3>1. \E result : /\ OnChannel(c, name, result)
                      /\ call'.name = name /\ call'.op # "removeClientByFd"
      BY <2>3 DEF AddSubscription, RemoveSubscription, OnRegistry, Call
    <3>. QED
      BY <2>2, <3>1
  <2>4. ASSUME NEW name \in ChannelName, AddChannel(name) \/ DeleteChannel(name)
        PROVE  Local(id)
    <3>1. PICK result : /\ addChannel(name, result) \/ deleteChannel(name, result)
                        /\ call'.name = name /\ call'.op # "removeClientByFd"
      BY <2>4 DEF AddChannel, DeleteChannel, OnRegistry, Call
    <3>. QED
      BY <2>2, <3>1
  <2>5. ASSUME NEW fd \in Fd, AddClient(fd)
        PROVE  Local(id)
    BY <2>5 DEF AddClient, addClient, Call, subscribersAfter
  <2>6. ASSUME NEW fd \in Fd, RemoveClient(fd)
        PROVE  Local(id)
    <3>1. call'.op = "removeClientByFd" /\ call'.client = fd
      BY <2>6 DEF RemoveClient, Call
    <3>. QED
      BY <2>1, <2>6, <3>1, OneClientGoes
  <2>. QED
    BY <2>1, <2>3, <2>4, <2>5, <2>6 DEF Operation
<1>2. ContractInv /\ [Operation]_vars => [\A id \in DOMAIN channels : Local(id)]_vars
  BY <1>1
<1>3. Spec => [][\A id \in DOMAIN channels : Local(id)]_vars
  BY <1>2, ContractInvariance, PTL DEF Spec
<1>. QED
  BY <1>3 DEF OperationsStayLocal, subscribersAfter
=============================================================================
