--------------------------- MODULE HubQueueProofs ---------------------------
(***************************************************************************)
(* The theorems about the queues of the hub (no lost wakeup, how long a    *)
(* backlog gets) and about what one of its steps may do, for every set of  *)
(* descriptors, channels and requests and every limit.                     *)
(***************************************************************************)
EXTENDS HubProofs

(* Only clients have queues. *)
QueuesEndWithClients == \A c \in Fd \ clients : backlog_queue[c] = <<>>

(* What holds while an event is handled holds until the client whose       *)
(* request was refused is removed.                                         *)
HandledInLimit ==
  \A c \in Fd : pc \in {"handle", "catch"} => backlogSize(c) <= DeadBacklog

LoopHasNoEvent == pc = "loop" => event = Nil

(* A descriptor that is free has nothing left of its last connection, and  *)
(* a reset leaves nothing for the peer to read.                            *)
ConnectionsEnd ==
  \A c \in Fd :
    /\ peer[c] = "none" => inbox[c] = <<>> /\ c \notin partial
    /\ peer[c] \in {"none", "reset"} => wire[c] = <<>>

BacklogInv ==
  /\ BacklogIsPolled
  /\ BacklogIsBounded
  /\ HandledInLimit
  /\ QueuesEndWithClients

QueueInv == BacklogInv /\ LoopHasNoEvent /\ ConnectionsEnd

-----------------------------------------------------------------------------
(* Which descriptors are polled for POLLOUT.                               *)

(* Every client has a pollfd. *)
LEMMA ClientsHavePollFds ==
  ASSUME PollInv, NEW c \in clients
  PROVE  \E i \in DOMAIN poll_fds : poll_fds[i].fd = c
<1>1. DOMAIN poll_fds = 1..Len(poll_fds) /\ Len(poll_fds) \in Nat
  BY LenProperties DEF PollInv
<1>2. PICK i \in 2..Len(poll_fds) : poll_fds[i].fd = c
  BY DEF PollInv, PollFdsMatchClients
<1>. QED
  BY <1>1, <1>2

(* setPollOutByFd reaches exactly the clients it is called for. *)
LEMMA SetPollOutArms ==
  ASSUME PollInv, NEW C, NEW enable \in BOOLEAN, poll_fds' = setPollOutByFd(C, enable)
  PROVE  /\ \A c : c \notin C => (armed(c)' <=> armed(c))
         /\ \A c \in clients \cap C : armed(c)' <=> enable
<1>1. /\ DOMAIN poll_fds' = DOMAIN poll_fds
      /\ \A i \in DOMAIN poll_fds :
           /\ poll_fds'[i].fd = poll_fds[i].fd
           /\ poll_fds'[i].pollout = IF poll_fds[i].fd \in C THEN enable ELSE poll_fds[i].pollout
  <2>1. \A i \in DOMAIN poll_fds : poll_fds[i] \in PollFd
    BY LenProperties DEF PollInv
  <2>. QED
    BY <2>1 DEF setPollOutByFd, PollFd
<1>2. ASSUME NEW c, c \notin C
      PROVE  armed(c)' <=> armed(c)
  BY <1>1, <1>2 DEF armed
<1>3. ASSUME NEW c \in clients, c \in C
      PROVE  armed(c)' <=> enable
  <2>1. PICK i \in DOMAIN poll_fds : poll_fds[i].fd = c
    BY ClientsHavePollFds
  <2>. QED
    BY <1>1, <1>3, <2>1 DEF armed
<1>. QED
  BY <1>2, <1>3

(* A new connection is polled for POLLOUT (registerPollFdFor). *)
LEMMA RegisterArms ==
  ASSUME PollInv, NEW fd \in Fd, poll_fds' = registerPollFdFor(fd)
  PROVE  /\ \A c : c # fd => (armed(c)' <=> armed(c))
         /\ armed(fd)'
<1>. DEFINE pfd == [fd |-> fd, pollout |-> TRUE]
<1>1. poll_fds \in Seq(PollFd) /\ pfd \in PollFd
  BY DEF PollInv, PollFd
<1>2. poll_fds' = Append(poll_fds, pfd)
  BY DEF registerPollFdFor
<1>. DEFINE n == Len(poll_fds)
<1>3. /\ n \in Nat
      /\ DOMAIN poll_fds = 1..n
      /\ DOMAIN poll_fds' = 1..(n + 1)
      /\ \A i \in 1..n : poll_fds'[i] = poll_fds[i]
      /\ poll_fds'[n + 1] = pfd
  <2>. HIDE DEF pfd
  <2>. QED
    BY <1>1, <1>2, AppendProperties, LenProperties
<1>. HIDE DEF n
<1>4. ASSUME NEW c, c # fd
      PROVE  armed(c)' <=> armed(c)
  <2>1. \A i \in 1..(n + 1) : i \in 1..n \/ i = n + 1
    BY <1>3
  <2>2. poll_fds'[n + 1].fd = fd
    BY <1>3
  <2>3. 1..n \subseteq 1..(n + 1)
    BY <1>3
  <2>. QED
    BY <1>3, <1>4, <2>1, <2>2, <2>3 DEF armed
<1>5. armed(fd)'
  <2>1. n + 1 \in DOMAIN poll_fds'
    BY <1>3
  <2>. QED
    BY <1>3, <2>1 DEF armed
<1>. QED
  BY <1>4, <1>5

(* Removing a client leaves the pollfds of the others as they are. *)
LEMMA EraseArms ==
  ASSUME PollInv, NEW fd \in clients, poll_fds' = erasePollFd(fd)
  PROVE  \A c : c # fd => (armed(c)' <=> armed(c))
<1>. DEFINE n == Len(poll_fds)
<1>1. /\ n \in Nat
      /\ DOMAIN poll_fds = 1..n
  BY LenProperties DEF PollInv
<1>. HIDE DEF n
<1>2. PICK k \in 2..n :
        /\ poll_fds[k].fd = fd
        /\ poll_fds' \in Seq(PollFd)
        /\ Len(poll_fds') = n - 1
        /\ \A i \in 1..(n - 1) : poll_fds'[i] = IF i < k THEN poll_fds[i] ELSE poll_fds[i + 1]
  BY ErasePollFdShape DEF n
<1>3. DOMAIN poll_fds' = 1..(n - 1)
  BY <1>2, LenProperties
<1>4. SUFFICES ASSUME NEW c, c # fd
               PROVE  armed(c)' <=> armed(c)
  OBVIOUS
<1>5. ASSUME armed(c)'
      PROVE  armed(c)
  <2>1. PICK i \in 1..(n - 1) : poll_fds'[i].fd = c /\ poll_fds'[i].pollout
    BY <1>3, <1>5 DEF armed
  <2>2. i \in 1..n /\ i + 1 \in 1..n
    BY <1>1
  <2>. QED
    BY <1>1, <1>2, <2>1, <2>2 DEF armed
<1>6. ASSUME armed(c)
      PROVE  armed(c)'
  <2>1. PICK i \in 1..n : poll_fds[i].fd = c /\ poll_fds[i].pollout
    BY <1>1, <1>6 DEF armed
  <2>2. i # k
    BY <1>2, <1>4, <2>1
  <2>3. CASE i < k
    <3>1. i \in 1..(n - 1) /\ poll_fds'[i] = poll_fds[i]
      BY <1>1, <1>2, <2>3
    <3>. QED
      BY <1>3, <2>1, <3>1 DEF armed
  <2>4. CASE i > k
    <3>1. i - 1 \in 1..(n - 1) /\ poll_fds'[i - 1] = poll_fds[i]
      BY <1>1, <1>2, <2>4
    <3>. QED
      BY <1>3, <2>1, <3>1 DEF armed
  <2>. QED
    BY <1>1, <1>2, <2>2, <2>3, <2>4
<1>. QED
  BY <1>5, <1>6

-----------------------------------------------------------------------------
(* What steps do to the queues.                                            *)

(* A step that leaves queues, clients and pollfds alone may begin to       *)
(* handle an event only when the sweep has nobody left to remove.          *)
LEMMA QuietSteps ==
  ASSUME Inv, BacklogInv, UNCHANGED <<clients, backlog_queue, poll_fds>>,
         pc' \in {"handle", "catch"} => pc \in {"handle", "catch"} \/ overLimit = {}
  PROVE  BacklogInv'
<1>1. \A c \in Fd : backlogSize(c)' = backlogSize(c) /\ backlogSize(c) \in Nat
  BY LenProperties DEF backlogSize, Inv, QueuesOK
<1>2. overLimit = {} => \A c \in Fd : backlogSize(c) <= DeadBacklog
  <2>1. \A c \in Fd \ clients : backlogSize(c) = 0
    BY DEF BacklogInv, QueuesEndWithClients, backlogSize
  <2>2. overLimit = {} => \A c \in clients : ~(backlogSize(c) > DeadBacklog)
    BY DEF overLimit
  <2>. QED
    BY <1>1, <2>1, <2>2, HubAssumption
<1>3. BacklogIsPolled' /\ QueuesEndWithClients'
  BY DEF BacklogInv, BacklogIsPolled, QueuesEndWithClients, armed
<1>4. BacklogIsBounded' /\ HandledInLimit'
  BY <1>1, <1>2 DEF BacklogInv, BacklogIsBounded, HandledInLimit
<1>. QED
  BY <1>3, <1>4 DEF BacklogInv

(* A removed client leaves no queue, and the others stay polled. *)
LEMMA RemovalKeepsQueues ==
  ASSUME Inv, BacklogInv, NEW c \in clients, removeClientByFd(c),
         pc' \notin {"handle", "catch"}
  PROVE  BacklogInv'
<1>1. /\ c \in Fd
      /\ clients' = clients \ {c}
      /\ poll_fds' = erasePollFd(c)
      /\ \A d \in Fd : backlog_queue'[d] = IF d = c THEN <<>> ELSE backlog_queue[d]
  BY DEF removeClientByFd, destroyClient, Inv, PollInv, QueuesOK
<1>2. BacklogIsPolled'
  BY <1>1, EraseArms DEF Inv, PollInv, BacklogInv, BacklogIsPolled
<1>3. QueuesEndWithClients'
  BY <1>1 DEF BacklogInv, QueuesEndWithClients
<1>4. BacklogIsBounded' /\ HandledInLimit'
  <2>1. \A d \in Fd : backlogSize(d)' = IF d = c THEN 0 ELSE backlogSize(d)
    BY <1>1 DEF backlogSize
  <2>. QED
    BY <2>1, HubAssumption DEF BacklogInv, BacklogIsBounded, HandledInLimit
<1>. QED
  BY <1>2, <1>3, <1>4 DEF BacklogInv

(* The queues after at most one frame is pushed to those of `others'.      *)
GrowByOne(queues, others) ==
  \A d \in Fd : /\ Len(queues[d]) <= Len(backlog_queue[d]) + 1
                /\ d \notin others => queues[d] = backlog_queue[d]

(* Whoever is given a frame is polled for POLLOUT in the same step, and    *)
(* nobody is given more than two in one.                                   *)
LEMMA RespondKeepsQueues ==
  ASSUME Inv, BacklogInv, UNCHANGED clients, pc = "handle",
         NEW c \in clients, NEW response \in Frame, NEW others \in SUBSET clients,
         NEW queues \in [Fd -> Seq(Frame)], GrowByOne(queues, others),
         Respond(c, response, queues, others)
  PROVE  BacklogInv'
<1>1. /\ c \in Fd /\ others \subseteq Fd
      /\ poll_fds' = setPollOutByFd(others \cup {c}, TRUE)
      /\ \A d \in Fd : backlog_queue'[d] =
                         IF d = c THEN Append(queues[d], response) ELSE queues[d]
      /\ pc' = "loop"
  BY DEF Respond, enqueueMessage, Inv, PollInv
<1>2. /\ \A d : d \notin others \cup {c} => (armed(d)' <=> armed(d))
      /\ \A d \in others \cup {c} : armed(d)'
  BY <1>1, SetPollOutArms DEF Inv
<1>3. BacklogIsPolled'
  BY <1>1, <1>2 DEF Inv, PollInv, BacklogInv, BacklogIsPolled, GrowByOne
<1>4. QueuesEndWithClients'
  BY <1>1 DEF BacklogInv, QueuesEndWithClients, GrowByOne
<1>5. BacklogIsBounded' /\ HandledInLimit'
  <2>1. ASSUME NEW d \in Fd
        PROVE  /\ Len(backlog_queue[d]) \in Nat
               /\ Len(queues[d]) \in Nat
               /\ Len(Append(queues[d], response)) = Len(queues[d]) + 1
    BY LenProperties, AppendProperties DEF Inv, QueuesOK
  <2>2. \A d \in Fd : Len(backlog_queue[d]) <= DeadBacklog
    BY DEF BacklogInv, BacklogIsBounded, backlogSize
  <2>3. \A d \in Fd : Len(backlog_queue'[d]) <= DeadBacklog + 2
    <3>1. SUFFICES ASSUME NEW d \in Fd
                   PROVE  Len(backlog_queue'[d]) <= Len(backlog_queue[d]) + 2
      BY <2>1, <2>2, HubAssumption
    <3>2. Len(queues[d]) <= Len(backlog_queue[d]) + 1
      BY DEF GrowByOne
    <3>3. backlog_queue'[d] = Append(queues[d], response) \/ backlog_queue'[d] = queues[d]
      BY <1>1
    <3>4. Len(backlog_queue'[d]) = Len(queues[d]) + 1 \/ Len(backlog_queue'[d]) = Len(queues[d])
      BY <2>1, <3>3
    <3>. QED
      BY <2>1, <3>2, <3>4
  <2>. QED
    BY <1>1, <2>3 DEF BacklogIsBounded, HandledInLimit, backlogSize
<1>. QED
  BY <1>3, <1>4, <1>5 DEF BacklogInv

(* handleInput's answer to an operation of the controller. *)
LEMMA RespondToKeepsQueues ==
  ASSUME Inv, BacklogInv, UNCHANGED clients, pc = "handle", NEW c \in clients,
         NEW result, RespondTo(c, result)
  PROVE  BacklogInv'
<1>1. CASE result = "out_of_range"
  BY <1>1, QuietSteps DEF RespondTo
<1>2. CASE result # "out_of_range"
  <2>. DEFINE response == IF result = "none" THEN Ok ELSE InvalidRequest
  <2>1. response \in Frame
    BY FrameTypes
  <2>2. Respond(c, response, backlog_queue, {})
    BY <1>2 DEF RespondTo
  <2>3. GrowByOne(backlog_queue, {})
    BY LenProperties DEF Inv, QueuesOK, GrowByOne
  <2>. HIDE DEF response
  <2>. QED
    BY <2>1, <2>2, <2>3, RespondKeepsQueues DEF Inv, QueuesOK
<1>. QED
  BY <1>1, <1>2

(* The requests. *)
LEMMA InputKeepsQueues ==
  ASSUME Inv, BacklogInv, NEW c \in Fd, HandleInput(c)
  PROVE  BacklogInv'
<1>1. c \in clients /\ pc = "handle"
  BY HandledIsClient DEF HandleInput, HandleSubscribe, HandleUnsubscribe,
     HandleCreateChannel, HandleDeleteChannel, HandlePublish, HandleAsk,
     HandleMalformed, HandleReceiveFailure, Received, Handling
<1>2. CASE \/ HandleSubscribe(c)     \/ HandleUnsubscribe(c)
           \/ HandleCreateChannel(c) \/ HandleDeleteChannel(c)
  <2>1. PICK result \in Exception : RespondTo(c, result)
    BY <1>2 DEF HandleSubscribe, HandleUnsubscribe, HandleCreateChannel, HandleDeleteChannel
  <2>2. UNCHANGED clients
    BY <1>1, <1>2, DeleteChannelKeepsClients DEF HandleSubscribe, HandleUnsubscribe,
       HandleCreateChannel, HandleDeleteChannel, addSubscription, removeSubscription,
       addChannel, Inv
  <2>. QED
    BY <1>1, <2>1, <2>2, RespondToKeepsQueues
<1>3. CASE HandlePublish(c)
  <2>. DEFINE message == Message(Head(inbox[c]).channel, Head(inbox[c]).content)
  <2>1. /\ Received(c, "Publish")
        /\ UNCHANGED clients
    BY <1>3 DEF HandlePublish, registryVars
  <2>2. CASE channelExists(Head(inbox[c]).channel)
    <3>1. PICK id \in channelIdByName(Head(inbox[c]).channel) :
            Respond(c, Ok, enqueueMessage(backlog_queue, recipients(id), message),
                    recipients(id))
      BY <1>3, <2>2 DEF HandlePublish
    <3>2. recipients(id) \in SUBSET clients
      BY DEF recipients, channelIdByName, Inv, RegistryInv, SubscriptionsMatchSubscribers
    <3>3. message \in Frame
      BY <2>1, ReceivedRequest, RequestMembers, FrameTypes
    <3>. HIDE DEF message
    <3>. DEFINE others == recipients(id)
                queues == enqueueMessage(backlog_queue, others, message)
    <3>4. queues \in [Fd -> Seq(Frame)]
      BY <3>3, EnqueueTypes DEF Inv, QueuesOK
    <3>5. GrowByOne(queues, others)
      <4>1. \A d \in Fd : /\ Len(backlog_queue[d]) \in Nat
                           /\ Len(Append(backlog_queue[d], message)) = Len(backlog_queue[d]) + 1
        BY <3>3, LenProperties, AppendProperties DEF Inv, QueuesOK
      <4>. QED
        BY <4>1 DEF enqueueMessage, GrowByOne
    <3>. HIDE DEF queues
    <3>6. Respond(c, Ok, queues, others)
      BY <3>1 DEF queues
    <3>. HIDE DEF others
    <3>7. others \in SUBSET clients /\ Ok \in Frame /\ UNCHANGED clients /\ c \in clients /\ pc = "handle"
      BY <1>1, <2>1, <3>2, FrameTypes DEF others
    <3>. QED
      BY <3>4, <3>5, <3>6, <3>7, RespondKeepsQueues
  <2>3. CASE ~channelExists(Head(inbox[c]).channel)
    BY <1>1, <1>3, <2>1, <2>3, RespondToKeepsQueues DEF HandlePublish
  <2>. QED
    BY <2>2, <2>3
<1>4. CASE HandleAsk(c)
  <2>. DEFINE names == {channels[id].name : id \in DOMAIN channels}
  <2>1. /\ UNCHANGED clients
        /\ Respond(c, OkWithContent(names), backlog_queue, {})
    BY <1>4 DEF HandleAsk, registryVars
  <2>2. OkWithContent(names) \in Frame
    <3>1. names \in SUBSET (ChannelName \cup {EmptyName})
      BY DEF Inv, RegistryInv, RegistryTypeOK, Channel
    <3>. QED
      BY <3>1, FrameTypes
  <2>3. GrowByOne(backlog_queue, {})
    BY LenProperties DEF Inv, QueuesOK, GrowByOne
  <2>. HIDE DEF names
  <2>. QED
    BY <1>1, <2>1, <2>2, <2>3, RespondKeepsQueues DEF Inv, QueuesOK
<1>5. CASE HandleMalformed(c) \/ HandleReceiveFailure(c)
  <2>1. UNCHANGED <<clients, backlog_queue, poll_fds>>
    BY <1>5 DEF HandleMalformed, HandleReceiveFailure, controllerVars, registryVars
  <2>. QED
    BY <1>1, <2>1, QuietSteps
<1>. QED
  BY <1>2, <1>3, <1>4, <1>5 DEF HandleInput

(* POLLOUT is switched off for a client only with its last message. *)
LEMMA OutputKeepsQueues ==
  ASSUME Inv, BacklogInv, NEW c \in Fd, HandleOutput(c)
  PROVE  BacklogInv'
<1>1. CASE FlushEmpty(c)
  <2>1. UNCHANGED <<clients, backlog_queue, poll_fds>> /\ pc' = "empty_pop"
    BY <1>1 DEF FlushEmpty, controllerVars, registryVars
  <2>. QED
    BY <2>1, QuietSteps
<1>2. CASE FlushOne(c) \/ FlushFails(c)
  <2>1. /\ backlog_queue[c] # <<>>
        /\ backlog_queue' = popFront(c)
        /\ UNCHANGED clients
        /\ pc' \in {"loop", "send_failed"}
        /\ poll_fds' = disarm(c) \/ poll_fds' = poll_fds
    BY <1>2 DEF FlushOne, FlushFails, registryVars
  <2>2. /\ backlog_queue[c] \in Seq(Frame)
        /\ Len(Tail(backlog_queue[c])) = Len(backlog_queue[c]) - 1
        /\ Len(backlog_queue[c]) \in Nat \ {0}
        /\ Len(backlog_queue[c]) = 1 => Tail(backlog_queue[c]) = <<>>
    <3>. DEFINE s == backlog_queue[c]
    <3>1. s \in Seq(Frame) /\ s # <<>>
      BY <2>1 DEF Inv, QueuesOK
    <3>. HIDE DEF s
    <3>2. Len(s) \in Nat \ {0} /\ Tail(s) \in Seq(Frame) /\ Len(Tail(s)) = Len(s) - 1
      BY <3>1, HeadTailProperties, LenProperties, EmptySeq
    <3>3. Len(s) = 1 => Tail(s) = <<>>
      <4>. DEFINE t == Tail(s)
      <4>1. t \in Seq(Frame) /\ (Len(s) = 1 => Len(t) = 0)
        BY <3>2
      <4>. HIDE DEF t
      <4>2. Len(s) = 1 => t = <<>>
        BY <4>1, EmptySeq
      <4>. QED
        BY <4>2 DEF t
    <3>. QED
      BY <3>1, <3>2, <3>3 DEF s
  <2>3. \A d \in Fd : backlog_queue'[d] = IF d = c THEN Tail(backlog_queue[c])
                                                   ELSE backlog_queue[d]
    BY <2>1 DEF popFront, Inv, QueuesOK
  <2>4. BacklogIsPolled'
    <3>1. CASE poll_fds' = poll_fds
      BY <2>1, <2>3, <3>1 DEF BacklogInv, BacklogIsPolled, Inv, PollInv, armed
    <3>2. CASE poll_fds' = setPollOutByFd({c}, FALSE) /\ backlogSize(c) = 1
      <4>1. \A d : d # c => (armed(d)' <=> armed(d))
        BY <3>2, SetPollOutArms DEF Inv
      <4>2. backlog_queue'[c] = <<>>
        BY <2>2, <2>3, <3>2 DEF backlogSize
      <4>. QED
        BY <2>1, <2>3, <4>1, <4>2 DEF BacklogInv, BacklogIsPolled, Inv, PollInv
    <3>. QED
      BY <2>1, <3>1, <3>2 DEF disarm
  <2>5. QueuesEndWithClients'
    <3>1. c \in clients
      BY <2>1 DEF BacklogInv, QueuesEndWithClients
    <3>. QED
      BY <2>1, <2>3, <3>1 DEF BacklogInv, QueuesEndWithClients
  <2>6. BacklogIsBounded' /\ HandledInLimit'
    <3>1. \A d \in Fd : Len(backlog_queue'[d]) <= DeadBacklog + 2
      <4>1. \A d \in Fd : Len(backlog_queue[d]) <= DeadBacklog + 2
        BY DEF BacklogInv, BacklogIsBounded, backlogSize
      <4>2. Len(Tail(backlog_queue[c])) <= DeadBacklog + 2
        BY <2>2, <4>1, HubAssumption
      <4>. QED
        BY <2>3, <4>1, <4>2
    <3>. QED
      BY <2>1, <3>1 DEF BacklogIsBounded, HandledInLimit, backlogSize
  <2>. QED
    BY <2>4, <2>5, <2>6 DEF BacklogInv
<1>. QED
  BY <1>1, <1>2 DEF HandleOutput

(* Every step keeps the queues polled and within their limit: a handler    *)
(* begins when nobody is over it, and the sweep precedes the next.         *)
LEMMA StepKeepsQueues ==
  ASSUME Inv, BacklogInv, [Next]_vars
  PROVE  BacklogInv'
<1>1. ASSUME NEW c \in Fd, SweepRemoves(c)
      PROVE  BacklogInv'
  BY <1>1, RemovalKeepsQueues DEF SweepRemoves, overLimit
<1>2. ASSUME NEW e, NextEvent(e)
      PROVE  BacklogInv'
  <2>1. UNCHANGED <<clients, backlog_queue, poll_fds>> /\ overLimit = {}
    BY <1>2 DEF NextEvent, controllerVars, registryVars
  <2>. QED
    BY <2>1, QuietSteps
<1>3. CASE HandleNewConnection
  <2>1. CASE freeFds = {}
    BY <1>3, <2>1, QuietSteps DEF HandleNewConnection, controllerVars, registryVars
  <2>2. CASE freeFds # {}
    <3>1. PICK fd \in freeFds : addClient(fd)
      BY <1>3, <2>2 DEF HandleNewConnection
    <3>2. /\ fd \in Fd
          /\ clients' = clients \cup {fd} /\ UNCHANGED backlog_queue
          /\ poll_fds' = registerPollFdFor(fd)
          /\ pc' = "loop"
      BY <1>3, <3>1 DEF addClient, freeFds, HandleNewConnection
    <3>3. BacklogIsPolled'
      BY <3>2, RegisterArms DEF BacklogInv, BacklogIsPolled, Inv
    <3>4. QueuesEndWithClients' /\ BacklogIsBounded' /\ HandledInLimit'
      BY <3>2 DEF BacklogInv, QueuesEndWithClients, BacklogIsBounded, HandledInLimit,
         backlogSize
    <3>. QED
      BY <3>3, <3>4 DEF BacklogInv
  <2>. QED
    BY <2>1, <2>2
<1>4. ASSUME NEW c \in Fd, HandleDisconnect(c)
      PROVE  BacklogInv'
  BY <1>4, HandledIsClient, RemovalKeepsQueues DEF HandleDisconnect
<1>5. CASE CatchException
  <2>1. event.fd \in clients
    BY <1>5 DEF CatchException, Inv, LoopInv, CaughtIsClient
  <2>. QED
    BY <1>5, <2>1, RemovalKeepsQueues DEF CatchException
<1>6. CASE ByPeer(PeerStep) \/ UNCHANGED vars
  <2>1. UNCHANGED <<clients, backlog_queue, poll_fds, pc>>
    BY <1>6 DEF ByPeer, vars, controllerVars, registryVars
  <2>. QED
    BY <2>1, QuietSteps
<1>. QED
  BY <1>1, <1>2, <1>3, <1>4, <1>5, <1>6, InputKeepsQueues, OutputKeepsQueues DEF Next, HubStep

-----------------------------------------------------------------------------
(* The other conjuncts of QueueInv.                                        *)

(* Whatever ends a handler forgets its event. *)
LEMMA StepForgetsEvent ==
  ASSUME LoopHasNoEvent, [Next]_vars
  PROVE  LoopHasNoEvent'
<1>. USE DEF LoopHasNoEvent
<1>1. CASE HubStep
  <2>1. ASSUME NEW c \in Fd, HandleInput(c)
        PROVE  LoopHasNoEvent'
    BY <2>1 DEF HandleInput, HandleSubscribe, HandleUnsubscribe, HandleCreateChannel,
       HandleDeleteChannel, HandlePublish, HandleAsk, HandleMalformed,
       HandleReceiveFailure, RespondTo, Respond
  <2>2. ASSUME NEW c \in Fd, HandleOutput(c)
        PROVE  LoopHasNoEvent'
    BY <2>2 DEF HandleOutput, FlushEmpty, FlushOne, FlushFails
  <2>3. ASSUME NEW c \in Fd, SweepRemoves(c) \/ HandleDisconnect(c)
        PROVE  LoopHasNoEvent'
    BY <2>3 DEF SweepRemoves, HandleDisconnect
  <2>4. ASSUME NEW e, NextEvent(e)
        PROVE  LoopHasNoEvent'
    BY <2>4 DEF NextEvent
  <2>5. CASE HandleNewConnection \/ CatchException
    BY <2>5 DEF HandleNewConnection, CatchException
  <2>. QED
    BY <1>1, <2>1, <2>2, <2>3, <2>4, <2>5 DEF HubStep
<1>2. CASE ByPeer(PeerStep) \/ UNCHANGED vars
  BY <1>2 DEF ByPeer, vars
<1>. QED
  BY <1>1, <1>2 DEF Next

(* Handling an event of a client needs its connection, and leaves of it at *)
(* most what there was and a frame more to read, unless it has been reset. *)
LEMMA HandlersKeepConnections ==
  ASSUME Inv, ConnectionsEnd, NEW c \in Fd, HandleInput(c) \/ HandleOutput(c)
  PROVE  ConnectionsEnd'
<1>1. peer[c] # "none"
  <2>1. c \in clients
    BY HandledIsClient DEF HandleInput, HandleSubscribe, HandleUnsubscribe,
       HandleCreateChannel, HandleDeleteChannel, HandlePublish, HandleAsk,
       HandleMalformed, HandleReceiveFailure, Received, HandleOutput, FlushEmpty,
       FlushOne, FlushFails
  <2>. QED
    BY <2>1 DEF Inv, DescriptorsBelongToClients, freeFds
<1>2. \/ UNCHANGED netVars
      \/ receive(c)
      \/ peer[c] # "reset" /\ \E frame : send(c, frame)
  BY DEF HandleInput, HandleSubscribe, HandleUnsubscribe, HandleCreateChannel,
     HandleDeleteChannel, HandlePublish, HandleAsk, HandleMalformed,
     HandleReceiveFailure, Received, HandleOutput, FlushEmpty, FlushOne, FlushFails, send
<1>3. /\ UNCHANGED <<peer, partial>>
      /\ \A d \in Fd \ {c} : inbox'[d] = inbox[d] /\ wire'[d] = wire[d]
      /\ peer[c] = "reset" => wire'[c] = wire[c]
  BY <1>2 DEF netVars, receive, send, Inv, NetworkTypeOK
<1>. QED
  BY <1>1, <1>3 DEF ConnectionsEnd

(* A connection that ends takes what it held with it. *)
LEMMA StepEndsConnections ==
  ASSUME Inv, ConnectionsEnd, [Next]_vars
  PROVE  ConnectionsEnd'
<1>. USE DEF Inv, NetworkTypeOK
<1>1. CASE HubStep
  <2>1. ASSUME NEW c \in Fd, kill(c)
        PROVE  ConnectionsEnd'
    BY <2>1 DEF kill, ConnectionsEnd
  <2>2. CASE CatchException
    <3>1. event.fd \in Fd
      BY <2>2 DEF CatchException, LoopInv, CaughtIsClient, PollInv
    <3>. QED
      BY <2>1, <2>2, <3>1 DEF CatchException
  <2>3. CASE HandleNewConnection
    <3>1. CASE UNCHANGED netVars
      BY <3>1 DEF netVars, ConnectionsEnd
    <3>2. ASSUME NEW fd \in freeFds, accept(fd)
          PROVE  ConnectionsEnd'
      BY <3>2 DEF accept, freeFds, ConnectionsEnd
    <3>. QED
      BY <2>3, <3>1, <3>2 DEF HandleNewConnection
  <2>4. ASSUME NEW e, NextEvent(e)
        PROVE  ConnectionsEnd'
    BY <2>4 DEF NextEvent, netVars, ConnectionsEnd
  <2>. QED
    BY <1>1, <2>1, <2>2, <2>3, <2>4, HandlersKeepConnections
       DEF HubStep, SweepRemoves, HandleDisconnect
<1>2. CASE ByPeer(PeerStep)
  <2>1. CASE Connect
    BY <2>1 DEF Connect, ConnectionsEnd
  <2>2. ASSUME NEW c \in Fd, PeerBegin(c) \/ PeerSends(c) \/ PeerShut(c)
        PROVE  ConnectionsEnd'
    BY <2>2 DEF PeerBegin, PeerSends, PeerFinish, PeerShut, ConnectionsEnd
  <2>3. ASSUME NEW c \in Fd, PeerRead(c)
        PROVE  ConnectionsEnd'
    BY <2>3 DEF PeerRead, ConnectionsEnd
  <2>4. ASSUME NEW c \in Fd, PeerReset(c)
        PROVE  ConnectionsEnd'
    BY <2>4 DEF PeerReset, ConnectionsEnd
  <2>. QED
    BY <1>2, <2>1, <2>2, <2>3, <2>4 DEF ByPeer, PeerStep
<1>3. CASE UNCHANGED vars
  BY <1>3 DEF vars, netVars, ConnectionsEnd
<1>. QED
  BY <1>1, <1>2, <1>3 DEF Next

-----------------------------------------------------------------------------
(* The inductive invariant of the queues, on top of that of the registry.  *)
THEOREM QueueInvariance == Spec => []QueueInv
<1>1. Init => QueueInv
  <2>1. ASSUME Init
        PROVE  /\ clients = {}
               /\ \A c \in Fd : /\ backlog_queue[c] = <<>> /\ wire[c] = <<>>
                               /\ inbox[c] = <<>> /\ partial = {}
               /\ pc = "loop" /\ event = Nil
    BY <2>1 DEF Init, ControllerInit, ClientInit, NetworkInit
  <2>2. Len(<<>>) = 0
    OBVIOUS
  <2>. QED
    BY <2>1, <2>2, HubAssumption DEF QueueInv, BacklogInv, BacklogIsPolled,
       BacklogIsBounded, HandledInLimit, QueuesEndWithClients, backlogSize,
       LoopHasNoEvent, ConnectionsEnd
<1>2. Inv /\ QueueInv /\ [Next]_vars => QueueInv'
  BY StepKeepsQueues, StepForgetsEvent, StepEndsConnections DEF QueueInv
<1>. QED
  BY <1>1, <1>2, Invariance, PTL DEF Spec

(* No lost wakeup: whenever a client has messages queued, its pollfd asks  *)
(* for POLLOUT, whichever handlers, removals and flushes came before.      *)
THEOREM NoLostWakeup == Spec => []BacklogIsPolled
<1>1. QueueInv => BacklogIsPolled
  BY DEF QueueInv, BacklogInv
<1>. QED
  BY <1>1, QueueInvariance, PTL

(* A backlog never exceeds the limit by more than two frames, and not at   *)
(* all while an event is handled: the sweep of every iteration is enough.  *)
THEOREM BacklogsAreBounded == Spec => []BacklogIsBounded
<1>1. QueueInv => BacklogIsBounded
  BY DEF QueueInv, BacklogInv
<1>. QED
  BY <1>1, QueueInvariance, PTL

-----------------------------------------------------------------------------
(***************************************************************************)
(* What a step of the hub may do: the action properties of Hub, for every  *)
(* set of descriptors, channels and requests and every limit.              *)
(***************************************************************************)

-----------------------------------------------------------------------------
(* Running out of descriptors.                                             *)

(* With a connection waiting, the server's pollfd always has an event, and *)
(* nextEvent looks at no other.                                            *)
LEMMA WaitingConnectionsComeFirst ==
  ASSUME Inv, pending > 0, NEW e, NextEvent(e)
  PROVE  e = Event("ConnectionRequest", ServerFd)
<1>1. poll_fds[1].fd = ServerFd
  BY DEF Inv, PollInv, PollFdsMatchClients
<1>. QED
  BY <1>1 DEF NextEvent, nextEvents, hasRevents

(* Once descriptors have run out with a connection waiting, that is so for *)
(* ever, and the loop handles nothing but ConnectionRequests.              *)
THEOREM ExhaustionLasts == Spec => ExhaustionIsForever
<1>. DEFINE Stays == exhausted' /\ event' \in {Nil, Event("ConnectionRequest", ServerFd)}
<1>1. ASSUME Inv, LoopHasNoEvent, [Next]_vars, pc = "loop", overLimit = {}, exhausted
      PROVE  Stays
  <2>1. CASE HubStep
    <3>1. PICK e : NextEvent(e)
      BY <1>1, <2>1 DEF HubStep, SweepRemoves, HandleNewConnection, HandleDisconnect,
         HandleInput, HandleSubscribe, HandleUnsubscribe, HandleCreateChannel,
         HandleDeleteChannel, HandlePublish, HandleAsk, HandleMalformed,
         HandleReceiveFailure, Received, HandleOutput, FlushEmpty, FlushOne,
         FlushFails, Handling, CatchException
    <3>2. event' = Event("ConnectionRequest", ServerFd)
      BY <1>1, <3>1, WaitingConnectionsComeFirst DEF exhausted, NextEvent
    <3>. QED
      BY <1>1, <3>1, <3>2 DEF NextEvent, netVars, exhausted, freeFds
  <2>2. CASE ByPeer(PeerStep)
    <3>1. freeFds' = freeFds /\ pending' \in {pending, pending + 1} /\ pending \in Nat
      BY <1>1, <2>2, PeersKeepDescriptors DEF Inv, NetworkTypeOK
    <3>2. event' = Nil
      BY <1>1, <2>2 DEF ByPeer, LoopHasNoEvent
    <3>. QED
      BY <1>1, <3>1, <3>2 DEF exhausted
  <2>3. CASE UNCHANGED vars
    BY <1>1, <2>3 DEF vars, netVars, exhausted, freeFds, LoopHasNoEvent
  <2>. QED
    BY <1>1, <2>1, <2>2, <2>3 DEF Next
<1>2. QueueInv => LoopHasNoEvent
  BY DEF QueueInv
<1>3. Inv /\ LoopHasNoEvent /\ [Next]_vars
        => [pc = "loop" /\ overLimit = {} /\ exhausted => Stays]_vars
  BY <1>1
<1>. QED
  BY <1>2, <1>3, Invariance, QueueInvariance, PTL DEF Spec, ExhaustionIsForever

-----------------------------------------------------------------------------
(* What an iteration does to the queues.                                   *)

IsMessage(frame) == frame \in Frame /\ frame.type = "message"

(* A message for every client of `others', then a response for c; a        *)
(* rejection comes with neither messages nor changes of the registry.      *)
Answered(c, response, others, message) ==
  /\ UNCHANGED clients
  /\ response \in Frame /\ response.type = "response"
  /\ others # {} => IsMessage(message)
  /\ poll_fds' = setPollOutByFd(others \cup {c}, TRUE)
  /\ \A d \in Fd : backlog_queue'[d] =
       LET pushed == IF d \in others THEN Append(backlog_queue[d], message)
                                     ELSE backlog_queue[d]
       IN  IF d = c THEN Append(pushed, response) ELSE pushed
  /\ response.status = "Error" => others = {} /\ UNCHANGED registryVars

(* The response to an operation of the controller. *)
LEMMA RespondToShape ==
  ASSUME Inv, UNCHANGED clients, NEW c \in clients, NEW result, RespondTo(c, result),
         result \notin {"none", "out_of_range"} => UNCHANGED registryVars
  PROVE  \/ UNCHANGED <<backlog_queue, poll_fds>>
         \/ \E response, others, message : Answered(c, response, others, message)
<1>1. CASE result = "out_of_range"
  BY <1>1 DEF RespondTo
<1>2. CASE result # "out_of_range"
  <2>. DEFINE response == IF result = "none" THEN Ok ELSE InvalidRequest
  <2>1. Respond(c, response, backlog_queue, {})
    BY <1>2 DEF RespondTo
  <2>2. /\ response \in Frame /\ response.type = "response"
        /\ response.status = "Error" => result # "none"
    BY FrameTypes DEF Ok, InvalidRequest, Response
  <2>3. {} \cup {c} = {c}
    OBVIOUS
  <2>. HIDE DEF response
  <2>4. \A message : Answered(c, response, {}, message)
    BY <1>2, <2>1, <2>2, <2>3 DEF Respond, enqueueMessage, Answered
  <2>. QED
    BY <2>4
<1>. QED
  BY <1>1, <1>2

(* Handling a request answers it, or leaves queues and pollfds alone.      *)
LEMMA InputShape ==
  ASSUME Inv, NEW c \in Fd, HandleInput(c)
  PROVE  \/ UNCHANGED <<clients, backlog_queue, poll_fds>>
         \/ \E response, others, message : Answered(c, response, others, message)
<1>1. c \in clients
  BY HandledIsClient DEF HandleInput, HandleSubscribe, HandleUnsubscribe,
     HandleCreateChannel, HandleDeleteChannel, HandlePublish, HandleAsk,
     HandleMalformed, HandleReceiveFailure, Received
<1>2. CASE \/ HandleSubscribe(c)     \/ HandleUnsubscribe(c)
           \/ HandleCreateChannel(c) \/ HandleDeleteChannel(c)
  <2>1. UNCHANGED clients
    BY <1>1, <1>2, DeleteChannelKeepsClients DEF HandleSubscribe, HandleUnsubscribe,
       HandleCreateChannel, HandleDeleteChannel, addSubscription, removeSubscription,
       addChannel, Inv
  <2>2. PICK result \in Exception :
          /\ RespondTo(c, result)
          /\ result \notin {"none", "out_of_range"} => UNCHANGED registryVars
    BY <1>2 DEF HandleSubscribe, HandleUnsubscribe, HandleCreateChannel,
       HandleDeleteChannel, addSubscription, removeSubscription, addChannel,
       deleteChannel, registryVars
  <2>. QED
    BY <1>1, <2>1, <2>2, RespondToShape
<1>3. CASE HandlePublish(c)
  <2>. DEFINE message == Message(Head(inbox[c]).channel, Head(inbox[c]).content)
  <2>1. /\ Received(c, "Publish")
        /\ UNCHANGED registryVars /\ UNCHANGED clients
    BY <1>3 DEF HandlePublish, registryVars
  <2>2. CASE channelExists(Head(inbox[c]).channel)
    <3>1. PICK id \in channelIdByName(Head(inbox[c]).channel) :
            Respond(c, Ok, enqueueMessage(backlog_queue, recipients(id), message),
                    recipients(id))
      BY <1>3, <2>2 DEF HandlePublish
    <3>2. IsMessage(message)
      <4>1. message \in Frame
        BY <2>1, ReceivedRequest, RequestMembers, FrameTypes
      <4>. QED
        BY <4>1 DEF IsMessage, Message
    <3>3. Ok \in Frame /\ Ok.type = "response" /\ Ok.status # "Error"
      BY FrameTypes DEF Ok, Response
    <3>. HIDE DEF message
    <3>4. Answered(c, Ok, recipients(id), message)
      BY <2>1, <3>1, <3>2, <3>3 DEF Respond, enqueueMessage, Answered
    <3>. QED
      BY <3>4
  <2>3. CASE ~channelExists(Head(inbox[c]).channel)
    BY <1>1, <1>3, <2>1, <2>3, RespondToShape DEF HandlePublish
  <2>. QED
    BY <2>2, <2>3
<1>4. CASE HandleAsk(c)
  <2>. DEFINE names == {channels[id].name : id \in DOMAIN channels}
  <2>1. /\ UNCHANGED clients
        /\ Respond(c, OkWithContent(names), backlog_queue, {})
    BY <1>4 DEF HandleAsk, registryVars
  <2>2. names \in SUBSET (ChannelName \cup {EmptyName})
    BY DEF Inv, RegistryInv, RegistryTypeOK, Channel
  <2>. HIDE DEF names
  <2>3. /\ OkWithContent(names) \in Frame
        /\ OkWithContent(names).type = "response"
        /\ OkWithContent(names).status # "Error"
    BY <2>2, FrameTypes DEF OkWithContent, Response
  <2>4. {} \cup {c} = {c}
    OBVIOUS
  <2>5. \A message : Answered(c, OkWithContent(names), {}, message)
    BY <2>1, <2>3, <2>4 DEF Respond, enqueueMessage, Answered
  <2>. QED
    BY <2>5
<1>5. CASE HandleMalformed(c) \/ HandleReceiveFailure(c)
  BY <1>5 DEF HandleMalformed, HandleReceiveFailure, controllerVars, registryVars
<1>. QED
  BY <1>2, <1>3, <1>4, <1>5 DEF HandleInput

(* Every step of the system, as far as queues and pollfds are concerned.   *)
LEMMA StepShapes ==
  ASSUME Inv, [Next]_vars
  PROVE  \/ UNCHANGED <<clients, backlog_queue, poll_fds>>
         \/ \E c \in clients : removeClientByFd(c)
         \/ \E fd \in Fd \ clients : addClient(fd)
         \/ \E c \in Fd : \E response, others, message : Answered(c, response, others, message)
         \/ \E c \in Fd : FlushOne(c) \/ FlushFails(c)
<1>1. ASSUME NEW c \in Fd, SweepRemoves(c)
      PROVE  c \in clients /\ removeClientByFd(c)
  BY <1>1 DEF SweepRemoves, overLimit
<1>2. ASSUME NEW e, NextEvent(e)
      PROVE  UNCHANGED <<clients, backlog_queue, poll_fds>>
  BY <1>2 DEF NextEvent, controllerVars, registryVars
<1>3. CASE HandleNewConnection
  <2>1. CASE freeFds = {}
    BY <1>3, <2>1 DEF HandleNewConnection, controllerVars, registryVars
  <2>2. CASE freeFds # {}
    <3>1. \A fd \in freeFds : fd \in Fd \ clients
      BY DEF Inv, DescriptorsBelongToClients, freeFds
    <3>. QED
      BY <1>3, <2>2, <3>1 DEF HandleNewConnection
  <2>. QED
    BY <2>1, <2>2
<1>4. ASSUME NEW c \in Fd, HandleDisconnect(c)
      PROVE  c \in clients /\ removeClientByFd(c)
  BY <1>4, HandledIsClient DEF HandleDisconnect
<1>5. CASE CatchException
  BY <1>5 DEF CatchException, Inv, LoopInv, CaughtIsClient
<1>6. CASE ByPeer(PeerStep) \/ UNCHANGED vars
  BY <1>6 DEF ByPeer, vars, controllerVars, registryVars
<1>7. ASSUME NEW c \in Fd, FlushEmpty(c)
      PROVE  UNCHANGED <<clients, backlog_queue, poll_fds>>
  BY <1>7 DEF FlushEmpty, controllerVars, registryVars
<1>. QED
  BY <1>1, <1>2, <1>3, <1>4, <1>5, <1>6, <1>7, InputShape DEF Next, HubStep, HandleOutput

(* A queue that is pushed to is not empty, and what was pushed last is     *)
(* known from the result.                                                  *)
LEMMA PushFacts ==
  ASSUME NEW s \in Seq(Frame), NEW frame \in Frame
  PROVE  /\ Append(s, frame) # <<>>
         /\ Append(s, frame) # s
         /\ \A t \in Seq(Frame), other \in Frame :
              Append(t, other) = Append(s, frame) => other = frame
         /\ s # <<>> => Tail(s) # Append(s, frame)
<1>1. Len(Append(s, frame)) = Len(s) + 1 /\ Len(s) \in Nat /\ Len(<<>>) = 0
  BY AppendProperties, LenProperties, EmptySeq
<1>2. \A t \in Seq(Frame), other \in Frame :
        Append(t, other) = Append(s, frame) => other = frame
  BY AppendInjective
<1>3. s # <<>> => Len(Tail(s)) = Len(s) - 1
  BY HeadTailProperties
<1>4. s # <<>> => Tail(s) # Append(s, frame)
  <2>. DEFINE t == Tail(s)
              a == Append(s, frame)
  <2>1. s # <<>> => Len(t) # Len(a)
    BY <1>1, <1>3
  <2>. QED
    BY <2>1
<1>. QED
  BY <1>1, <1>2, <1>4

(* Once a client has left the state of a new connection, in which POLLOUT  *)
(* is on with nothing queued, it does not come back to it.                 *)
THEOREM IdleOnlyWhenFresh == Spec => OnlyFreshClientsAreIdle
<1>. DEFINE Fresh == \A c \in clients \cap clients' :
                       idle(c)' /\ pc' \notin Halt => idle(c)
<1>1. ASSUME Inv, [Next]_vars
      PROVE  Fresh
  <2>1. SUFFICES ASSUME NEW c \in clients, c \in clients',
                        armed(c)', backlog_queue'[c] = <<>>, pc' \notin Halt
                 PROVE  armed(c) /\ backlog_queue[c] = <<>>
    BY DEF idle
  <2>2. c \in Fd /\ PollInv /\ backlog_queue[c] \in Seq(Frame)
    BY <1>1 DEF Inv, PollInv, QueuesOK
  <2>3. CASE UNCHANGED <<clients, backlog_queue, poll_fds>>
    BY <2>1, <2>3 DEF armed
  <2>4. ASSUME NEW d \in clients, removeClientByFd(d)
        PROVE  armed(c) /\ backlog_queue[c] = <<>>
    <3>1. d # c /\ poll_fds' = erasePollFd(d) /\ backlog_queue'[c] = backlog_queue[c]
      BY <1>1, <2>1, <2>2, <2>4 DEF removeClientByFd, destroyClient, Inv, QueuesOK
    <3>. QED
      BY <2>1, <2>2, <3>1, EraseArms
  <2>5. ASSUME NEW d \in Fd \ clients, addClient(d)
        PROVE  armed(c) /\ backlog_queue[c] = <<>>
    BY <2>1, <2>2, <2>5, RegisterArms DEF addClient
  <2>6. ASSUME NEW d \in Fd, NEW response, NEW others, NEW message,
               Answered(d, response, others, message)
        PROVE  armed(c) /\ backlog_queue[c] = <<>>
    <3>1. CASE c = d
      <4>. DEFINE pushed == IF d \in others THEN Append(backlog_queue[d], message)
                                            ELSE backlog_queue[d]
      <4>1. backlog_queue'[d] = Append(pushed, response)
        BY <2>6 DEF Answered
      <4>2. response \in Frame /\ (d \in others => message \in Frame)
        BY <2>6 DEF Answered, IsMessage
      <4>3. pushed \in Seq(Frame)
        BY <2>2, <3>1, <4>2, AppendProperties
      <4>. HIDE DEF pushed
      <4>. QED
        BY <2>1, <3>1, <4>1, <4>2, <4>3, PushFacts
    <3>2. CASE c # d /\ c \in others
      <4>1. backlog_queue'[c] = Append(backlog_queue[c], message) /\ message \in Frame
        BY <2>2, <2>6, <3>2 DEF Answered, IsMessage
      <4>. QED
        BY <2>1, <2>2, <4>1, PushFacts
    <3>3. CASE c # d /\ c \notin others
      <4>1. /\ backlog_queue'[c] = backlog_queue[c]
            /\ poll_fds' = setPollOutByFd(others \cup {d}, TRUE)
            /\ c \notin others \cup {d}
        BY <2>2, <2>6, <3>3 DEF Answered
      <4>. QED
        BY <2>1, <2>2, <4>1, SetPollOutArms
    <3>. QED
      BY <3>1, <3>2, <3>3
  <2>7. ASSUME NEW d \in Fd, FlushOne(d)
        PROVE  armed(c) /\ backlog_queue[c] = <<>>
    <3>1. /\ backlog_queue[d] # <<>>
          /\ backlog_queue' = popFront(d)
          /\ poll_fds' = disarm(d)
      BY <2>7 DEF FlushOne
    <3>2. CASE c = d
      <4>. DEFINE s == backlog_queue[c]
      <4>1. s \in Seq(Frame) /\ s # <<>> /\ Tail(s) = <<>>
        BY <1>1, <2>1, <2>2, <3>1, <3>2 DEF popFront, Inv, QueuesOK
      <4>. HIDE DEF s
      <4>2. Len(s) = 1
        <5>1. Len(Tail(s)) = Len(s) - 1 /\ Len(s) \in Nat /\ Len(Tail(s)) = 0
          BY <4>1, HeadTailProperties, LenProperties, EmptySeq
        <5>. QED
          BY <5>1
      <4>3. poll_fds' = setPollOutByFd({c}, FALSE)
        BY <3>1, <3>2, <4>2 DEF disarm, backlogSize, s
      <4>4. ~armed(c)'
        BY <2>2, <4>3, SetPollOutArms
      <4>. QED
        BY <2>1, <4>4
    <3>3. CASE c # d
      <4>1. backlog_queue'[c] = backlog_queue[c]
        BY <1>1, <2>2, <3>1, <3>3 DEF popFront, Inv, QueuesOK
      <4>2. armed(c)' <=> armed(c)
        <5>1. CASE poll_fds' = poll_fds
          BY <5>1 DEF armed
        <5>2. CASE poll_fds' = setPollOutByFd({d}, FALSE)
          BY <2>2, <3>3, <5>2, SetPollOutArms
        <5>. QED
          BY <3>1, <5>1, <5>2 DEF disarm
      <4>. QED
        BY <2>1, <4>1, <4>2
    <3>. QED
      BY <3>2, <3>3
  <2>8. ASSUME NEW d \in Fd, FlushFails(d)
        PROVE  FALSE
    BY <2>1, <2>8 DEF FlushFails, Halt
  <2>. QED
    BY <1>1, <2>3, <2>4, <2>5, <2>6, <2>7, <2>8, StepShapes
<1>2. Inv /\ [Next]_vars => [Fresh]_vars
  BY <1>1
<1>. QED
  BY <1>2, Invariance, PTL DEF Spec, OnlyFreshClientsAreIdle

(* An Error is the only thing queued in its iteration, and the registry is *)
(* as it was: what a refused request did before it was refused is undone   *)
(* or was never done.                                                      *)
THEOREM RejectionsChangeNothing == Spec => RejectedRequestsChangeNothing
<1>. DEFINE Rejected ==
       \A c \in Fd : queued(c, InvalidRequest) =>
         /\ UNCHANGED registryVars
         /\ \A other \in Fd \ {c} : backlog_queue'[other] = backlog_queue[other]
<1>1. ASSUME Inv, [Next]_vars
      PROVE  Rejected
  <2>1. SUFFICES ASSUME NEW c \in Fd, backlog_queue'[c] = Append(backlog_queue[c], InvalidRequest)
                 PROVE  /\ UNCHANGED registryVars
                        /\ \A other \in Fd \ {c} : backlog_queue'[other] = backlog_queue[other]
    BY DEF queued
  <2>2. /\ backlog_queue \in [Fd -> Seq(Frame)]
        /\ backlog_queue[c] \in Seq(Frame)
        /\ InvalidRequest \in Frame
        /\ InvalidRequest.type = "response" /\ InvalidRequest.status = "Error"
    BY <1>1, FrameTypes DEF Inv, QueuesOK, InvalidRequest, Response
  <2>3. /\ backlog_queue'[c] # backlog_queue[c]
        /\ backlog_queue'[c] # <<>>
        /\ backlog_queue[c] # <<>> => backlog_queue'[c] # Tail(backlog_queue[c])
    BY <2>1, <2>2, PushFacts
  <2>4. ~UNCHANGED <<clients, backlog_queue, poll_fds>>
    BY <2>3
  <2>5. ASSUME NEW d \in clients, removeClientByFd(d)
        PROVE  FALSE
    BY <2>2, <2>3, <2>5 DEF removeClientByFd, destroyClient
  <2>6. ASSUME NEW d \in Fd \ clients, addClient(d)
        PROVE  FALSE
    BY <2>3, <2>6 DEF addClient
  <2>7. ASSUME NEW d \in Fd, FlushOne(d) \/ FlushFails(d)
        PROVE  FALSE
    BY <2>2, <2>3, <2>7 DEF FlushOne, FlushFails, popFront
  <2>8. PICK d \in Fd : \E response, others, message : Answered(d, response, others, message)
    BY <1>1, <2>4, <2>5, <2>6, <2>7, StepShapes
  <2>9. PICK response, others, message : Answered(d, response, others, message)
    BY <2>8
  <2>. DEFINE pushed == IF d \in others THEN Append(backlog_queue[d], message)
                                        ELSE backlog_queue[d]
  <2>10. /\ response \in Frame
         /\ others # {} => IsMessage(message)
         /\ backlog_queue'[d] = Append(pushed, response)
         /\ pushed \in Seq(Frame)
    <3>1. backlog_queue[d] \in Seq(Frame)
      BY <2>2
    <3>. QED
      BY <2>9, <3>1, AppendProperties DEF Answered, IsMessage
  <2>. HIDE DEF pushed
  <2>11. c = d
    <3>1. SUFFICES ASSUME c # d PROVE FALSE
      OBVIOUS
    <3>2. c \in others /\ backlog_queue'[c] = Append(backlog_queue[c], message)
      BY <2>3, <2>9, <3>1 DEF Answered
    <3>3. message \in Frame /\ message.type = "message"
      BY <2>10, <3>2 DEF IsMessage
    <3>4. message = InvalidRequest
      BY <2>1, <2>2, <3>2, <3>3, PushFacts
    <3>. QED
      BY <2>2, <3>3, <3>4
  <2>12. response = InvalidRequest
    BY <2>1, <2>2, <2>10, <2>11, PushFacts
  <2>. QED
    BY <2>2, <2>9, <2>11, <2>12 DEF Answered
<1>2. Inv /\ [Next]_vars => [Rejected]_vars
  BY <1>1
<1>. QED
  BY <1>2, Invariance, PTL DEF Spec, RejectedRequestsChangeNothing

-----------------------------------------------------------------------------
(* Who changes subscriptions and channels.                                 *)

(* The property of a step that SubscriptionsAreTheClients asks for. *)
OwnRequestsOnly ==
  /\ \A c \in clients \cap clients' :
       /\ ~(subscriptions'[c] \subseteq subscriptions[c])
            => requestOf(c, "Subscribe")
       /\ ~(subscriptions[c] \cap DOMAIN channels' \subseteq subscriptions'[c])
            => requestOf(c, "Unsubscribe")
  /\ ~(DOMAIN channels \subseteq DOMAIN channels')
       => \E c \in clients : requestOf(c, "DeleteChannel")

(* Removing a client leaves every channel, and the others' subscriptions.  *)
LEMMA RemovalIsTheClients ==
  ASSUME Inv, NEW c \in clients, removeClientByFd(c)
  PROVE  OwnRequestsOnly
<1>1. DOMAIN channels \subseteq DOMAIN channels'
  BY DEF removeClientByFd, channelsWithout
<1>2. \A d \in clients \cap clients' : subscriptions'[d] = subscriptions[d]
  BY DEF removeClientByFd, destroyClient, Inv, RegistryInv, RegistryTypeOK
<1>. QED
  BY <1>1, <1>2 DEF OwnRequestsOnly

(* A request is the client's own. *)
LEMMA RequestsAreTheClients ==
  ASSUME Inv, NEW c \in Fd, HandleInput(c)
  PROVE  OwnRequestsOnly
<1>. USE DEF Inv, RegistryInv, RegistryTypeOK
<1>1. \A kind : Received(c, kind) => requestOf(c, kind) /\ c \in clients
  BY ReceivedRequest DEF Received, requestOf
<1>2. CASE HandleSubscribe(c)
  <2>1. /\ DOMAIN channels' = DOMAIN channels
        /\ \A d \in Fd : subscriptions[d] \subseteq subscriptions'[d]
        /\ \A d \in Fd \ {c} : subscriptions'[d] = subscriptions[d]
    BY <1>2 DEF HandleSubscribe, addSubscription, addSubscriber, subscribeTo
  <2>2. requestOf(c, "Subscribe")
    BY <1>1, <1>2 DEF HandleSubscribe
  <2>. QED
    BY <2>1, <2>2 DEF OwnRequestsOnly
<1>3. CASE HandleUnsubscribe(c)
  <2>1. /\ DOMAIN channels' = DOMAIN channels
        /\ \A d \in Fd : subscriptions'[d] \subseteq subscriptions[d]
        /\ \A d \in Fd \ {c} : subscriptions'[d] = subscriptions[d]
    BY <1>3 DEF HandleUnsubscribe, removeSubscription, removeSubscriber, unsubscribeFrom
  <2>2. requestOf(c, "Unsubscribe")
    BY <1>1, <1>3 DEF HandleUnsubscribe
  <2>. QED
    BY <2>1, <2>2 DEF OwnRequestsOnly
<1>4. CASE HandleCreateChannel(c)
  BY <1>4 DEF HandleCreateChannel, addChannel, insertChannel, OwnRequestsOnly
<1>5. CASE HandleDeleteChannel(c)
  <2>1. PICK result : deleteChannel(Head(inbox[c]).channel, result)
    BY <1>5 DEF HandleDeleteChannel
  <2>2. \A d \in Fd : /\ subscriptions'[d] \subseteq subscriptions[d]
                      /\ subscriptions[d] \cap DOMAIN channels' \subseteq subscriptions'[d]
    <3>1. CASE UNCHANGED <<subscriptions, channels>>
      BY <3>1
    <3>2. ASSUME NEW id \in DOMAIN channels,
                 subscriptions' = unsubscribeFrom(channels[id].subscribers, id),
                 channels' = [i \in DOMAIN channels \ {id} |-> channels[i]]
          PROVE  \A d \in Fd :
                   /\ subscriptions'[d] \subseteq subscriptions[d]
                   /\ subscriptions[d] \cap DOMAIN channels' \subseteq subscriptions'[d]
      BY <3>2 DEF unsubscribeFrom
    <3>. QED
      BY <2>1, <3>1, <3>2 DEF deleteChannel, channelIdByName
  <2>3. requestOf(c, "DeleteChannel") /\ c \in clients
    BY <1>1, <1>5 DEF HandleDeleteChannel
  <2>. QED
    BY <2>2, <2>3 DEF OwnRequestsOnly
<1>6. CASE \/ HandlePublish(c) \/ HandleAsk(c)
           \/ HandleMalformed(c) \/ HandleReceiveFailure(c)
  BY <1>6 DEF HandlePublish, HandleAsk, HandleMalformed, HandleReceiveFailure,
     controllerVars, registryVars, OwnRequestsOnly
<1>. QED
  BY <1>2, <1>3, <1>4, <1>5, <1>6 DEF HandleInput

(* Only a client's own Subscribe and Unsubscribe change what it listens    *)
(* to, besides the end of a channel, and only a DeleteChannel ends one:    *)
(* nothing that happens to another client, or to its descriptor, does.     *)
THEOREM SubscriptionsAreOwn == Spec => SubscriptionsAreTheClients
<1>1. ASSUME Inv, [Next]_vars
      PROVE  OwnRequestsOnly
  <2>1. CASE HubStep
    <3>1. ASSUME NEW c \in Fd, SweepRemoves(c) \/ HandleDisconnect(c)
          PROVE  OwnRequestsOnly
      BY <1>1, <3>1, HandledIsClient, RemovalIsTheClients
         DEF SweepRemoves, overLimit, HandleDisconnect
    <3>2. CASE CatchException
      BY <1>1, <3>2, RemovalIsTheClients DEF CatchException, Inv, LoopInv, CaughtIsClient
    <3>3. CASE HandleNewConnection
      <4>1. UNCHANGED <<subscriptions, channels>>
        BY <3>3 DEF HandleNewConnection, addClient, controllerVars, registryVars
      <4>. QED
        BY <4>1 DEF OwnRequestsOnly
    <3>4. ASSUME NEW e, NextEvent(e)
          PROVE  OwnRequestsOnly
      BY <3>4 DEF NextEvent, controllerVars, registryVars, OwnRequestsOnly
    <3>5. ASSUME NEW c \in Fd, HandleOutput(c)
          PROVE  OwnRequestsOnly
      BY <3>5 DEF HandleOutput, FlushEmpty, FlushOne, FlushFails, controllerVars,
         registryVars, OwnRequestsOnly
    <3>. QED
      BY <1>1, <2>1, <3>1, <3>2, <3>3, <3>4, <3>5, RequestsAreTheClients DEF HubStep
  <2>2. CASE ByPeer(PeerStep) \/ UNCHANGED vars
    BY <2>2 DEF ByPeer, vars, controllerVars, registryVars, OwnRequestsOnly
  <2>. QED
    BY <1>1, <2>1, <2>2 DEF Next
<1>2. Inv /\ [Next]_vars => [OwnRequestsOnly]_vars
  BY <1>1
<1>. QED
  BY <1>2, Invariance, PTL DEF Spec, SubscriptionsAreTheClients, OwnRequestsOnly

=============================================================================
