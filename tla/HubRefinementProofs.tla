------------------------ MODULE HubRefinementProofs ------------------------
(***************************************************************************)
(* The proof that Hub implements PubSub, for every set of descriptors,     *)
(* channels and requests and every limit: its initial states are PubSub's, *)
(* and each step is one of PubSub or changes nothing that PubSub sees.     *)
(***************************************************************************)
EXTENDS HubRefinement, HubQueueProofs

-----------------------------------------------------------------------------
(* Mailboxes.                                                              *)

(* What is in the sockets and, after it, what is queued. *)
boxes(sent, queues) == [c \in Fd |-> sent[c] \o queues[c]]

(* A frame pushed to a queue arrives at the end of the mailbox. *)
LEMMA PushReachesMailbox ==
  ASSUME NEW sent \in [Fd -> Seq(Frame)], NEW queues \in [Fd -> Seq(Frame)],
         NEW C, NEW msg \in Frame
  PROVE  boxes(sent, enqueueMessage(queues, C, msg)) = Abstract!post(boxes(sent, queues), C, msg)
<1>1. ASSUME NEW s \in Seq(Frame), NEW q \in Seq(Frame)
      PROVE  s \o Append(q, msg) = Append(s \o q, msg)
  <2>1. Append(q, msg) = q \o <<msg>> /\ <<msg>> \in Seq(Frame)
    BY AppendIsConcat
  <2>2. s \o q \in Seq(Frame)
    BY ConcatProperties
  <2>3. Append(s \o q, msg) = (s \o q) \o <<msg>>
    BY <2>2, AppendIsConcat
  <2>. QED
    BY <2>1, <2>3, ConcatAssociative
<1>2. \A c \in Fd : /\ sent[c] \in Seq(Frame) /\ queues[c] \in Seq(Frame)
                   /\ boxes(sent, queues)[c] = sent[c] \o queues[c]
  BY DEF boxes
<1>3. \A c \in Fd : sent[c] \o Append(queues[c], msg) = Append(sent[c] \o queues[c], msg)
  BY <1>1, <1>2
<1>. QED
  BY <1>2, <1>3 DEF boxes, enqueueMessage, Abstract!post

(* The frame that flushOne sends stays where it was in the mailbox. *)
LEMMA FlushKeepsMailbox ==
  ASSUME NEW s \in Seq(Frame), NEW q \in Seq(Frame), q # <<>>
  PROVE  Append(s, Head(q)) \o Tail(q) = s \o q
<1>1. Head(q) \in Frame /\ Tail(q) \in Seq(Frame)
  BY HeadTailProperties
<1>2. Append(s, Head(q)) = s \o <<Head(q)>> /\ <<Head(q)>> \in Seq(Frame)
  BY <1>1, AppendIsConcat
<1>3. <<Head(q)>> \o Tail(q) = q
  <2>1. /\ <<Head(q)>> \o Tail(q) \in Seq(Frame)
        /\ Len(<<Head(q)>> \o Tail(q)) = Len(q)
        /\ \A i \in 1..Len(q) : (<<Head(q)>> \o Tail(q))[i] = q[i]
    BY <1>1
  <2>. QED
    BY <2>1, SeqEqual
<1>. QED
  BY <1>1, <1>2, <1>3, ConcatAssociative

(* What a peer reads first is the head of its mailbox. *)
LEMMA ReadTakesHead ==
  ASSUME NEW s \in Seq(Frame), NEW q \in Seq(Frame), s # <<>>
  PROVE  Tail(s) \o q = Tail(s \o q) /\ s \o q # <<>>
<1>1. Tail(s) \in Seq(Frame) /\ Len(Tail(s)) = Len(s) - 1 /\ Len(s) \in Nat \ {0}
  BY HeadTailProperties, LenProperties, EmptySeq
<1>2. s \o q \in Seq(Frame) /\ s \o q # <<>> /\ Len(s \o q) = Len(s) + Len(q)
  BY ConcatProperties, ConcatEqualIffEmpty
<1>3. /\ Tail(s) \o q \in Seq(Frame) /\ Tail(s \o q) \in Seq(Frame)
      /\ Len(Tail(s) \o q) = Len(Tail(s \o q))
      /\ \A i \in 1..Len(Tail(s) \o q) : (Tail(s) \o q)[i] = Tail(s \o q)[i]
  BY <1>1, <1>2
<1>. QED
  BY <1>2, <1>3, SeqEqual

(* What the sockets hold is a prefix of the mailbox, and what is queued a  *)
(* suffix.                                                                 *)
LEMMA PrefixesAndSuffixes ==
  ASSUME NEW s \in Seq(Frame), NEW q \in Seq(Frame)
  PROVE  /\ <<>> \in Abstract!Prefixes(s \o q)
         /\ s \in Abstract!Prefixes(s \o q)
         /\ q \in Abstract!Suffixes(s \o q)
<1>. DEFINE n == Len(s)
            m == Len(q)
<1>1. n \in Nat /\ m \in Nat /\ s \o q \in Seq(Frame) /\ Len(s \o q) = n + m
  BY ConcatProperties, LenProperties
<1>2. SubSeq(s \o q, 1, 0) = <<>>
  BY SubSeqEmpty
<1>3. SubSeq(s \o q, 1, n) = s
  BY <1>1
<1>4. m > 0 => SubSeq(s \o q, n + 1, n + m) = q
  BY <1>1
<1>5. m = 0 => q = <<>>
  BY EmptySeq
<1>. DEFINE b == s \o q
<1>6. Len(b) = n + m
  BY <1>1
<1>. HIDE DEF n, m, b
<1>7. 0 \in 0..Len(b) /\ n \in 0..Len(b) /\ (m > 0 => n + 1 \in 1..Len(b))
  BY <1>1, <1>6
<1>8. <<>> \in Abstract!Prefixes(b) /\ s \in Abstract!Prefixes(b)
  <2>1. SubSeq(b, 1, 0) = <<>> /\ SubSeq(b, 1, n) = s
    BY <1>2, <1>3 DEF b
  <2>. QED
    BY <1>7, <2>1 DEF Abstract!Prefixes
<1>9. q \in Abstract!Suffixes(b)
  <2>1. CASE m = 0
    BY <1>5, <2>1 DEF Abstract!Suffixes
  <2>2. CASE m > 0
    <3>1. SubSeq(b, n + 1, Len(b)) = q
      BY <1>4, <1>6, <2>2 DEF b
    <3>. QED
      BY <1>7, <2>2, <3>1 DEF Abstract!Suffixes
  <2>. QED
    BY <1>1, <2>1, <2>2
<1>. QED
  BY <1>8, <1>9 DEF b

-----------------------------------------------------------------------------
(* Channels by name.                                                       *)

ByName(chans) ==
  [name \in {chans[id].name : id \in DOMAIN chans} |->
     chans[CHOOSE id \in DOMAIN chans : chans[id].name = name].subscribers]

UniqueNames(chans) ==
  \A id, other \in DOMAIN chans : chans[other].name = chans[id].name => other = id

(* As long as names are unique, a channel's subscribers are found under    *)
(* its name, whatever its id.                                              *)
LEMMA NamesFindSubscribers ==
  ASSUME NEW chans, UniqueNames(chans)
  PROVE  /\ DOMAIN ByName(chans) = {chans[id].name : id \in DOMAIN chans}
         /\ \A id \in DOMAIN chans : ByName(chans)[chans[id].name] = chans[id].subscribers
<1>1. ASSUME NEW id \in DOMAIN chans
      PROVE  (CHOOSE i \in DOMAIN chans : chans[i].name = chans[id].name) = id
  BY DEF UniqueNames
<1>. QED
  BY <1>1 DEF ByName

(* Which determines the whole function. *)
LEMMA NamesDetermine ==
  ASSUME NEW chans, UniqueNames(chans), NEW f, f = [name \in DOMAIN f |-> f[name]],
         DOMAIN f = {chans[id].name : id \in DOMAIN chans},
         \A id \in DOMAIN chans : f[chans[id].name] = chans[id].subscribers
  PROVE  ByName(chans) = f
<1>1. DOMAIN ByName(chans) = DOMAIN f
  BY NamesFindSubscribers
<1>2. ASSUME NEW name \in DOMAIN f
      PROVE  ByName(chans)[name] = f[name]
  <2>1. PICK id \in DOMAIN chans : chans[id].name = name
    OBVIOUS
  <2>. QED
    BY <2>1, NamesFindSubscribers
<1>3. ByName(chans) = [name \in DOMAIN ByName(chans) |-> ByName(chans)[name]]
  BY DEF ByName
<1>. QED
  BY <1>1, <1>2, <1>3

-----------------------------------------------------------------------------
(* What PubSub sees of a server that runs.                                 *)

(* The mapping, without its conditions. *)
LEMMA RunningBar ==
  ~Halted =>
     /\ membersBar = clients
     /\ brokenBar = {c \in clients : peer[c] = "reset"}
     /\ subscribersBar = ByName(channels)
     /\ requestsBar = inbox
     /\ mailboxBar = boxes(wire, backlog_queue)
BY DEF membersBar, brokenBar, subscribersBar, requestsBar, mailboxBar, boxes,
   subscribersByName, idOf, ByName

(* The same after a step. *)
LEMMA RunningBarNext ==
  ~Halted' =>
     /\ membersBar' = clients'
     /\ brokenBar' = {c \in clients' : peer'[c] = "reset"}
     /\ subscribersBar' = ByName(channels')
     /\ requestsBar' = inbox'
     /\ mailboxBar' = boxes(wire', backlog_queue')
BY DEF membersBar, brokenBar, subscribersBar, requestsBar, mailboxBar, boxes,
   subscribersByName, idOf, ByName

(* What the proofs below need of the invariants. *)
LEMMA MappedTypes ==
  ASSUME Inv
  PROVE  /\ wire \in [Fd -> Seq(Frame)] /\ backlog_queue \in [Fd -> Seq(Frame)]
         /\ inbox \in [Fd -> Seq(Traffic)]
         /\ \A c \in Fd : c \in clients <=> peer[c] # "none"
         /\ UniqueNames(channels)
BY DEF Inv, NetworkTypeOK, QueuesOK, DescriptorsBelongToClients, freeFds, PollInv,
   RegistryInv, ChannelNamesUnique, UniqueNames

(* A mailbox, as sequence. *)
LEMMA BoxesTypes ==
  ASSUME Inv
  PROVE  /\ boxes(wire, backlog_queue) \in [Fd -> Seq(Frame)]
         /\ \A c \in Fd : boxes(wire, backlog_queue)[c] = wire[c] \o backlog_queue[c]
<1>1. \A c \in Fd : wire[c] \o backlog_queue[c] \in Seq(Frame)
  BY MappedTypes, ConcatProperties
<1>. QED
  BY <1>1 DEF boxes

-----------------------------------------------------------------------------
(* Steps that PubSub does not see.                                         *)

(* Nothing but the event loop, the pollfds, ids and bytes that are no      *)
(* request yet has changed, or where a frame waits for its peer.           *)
LEMMA Invisible ==
  ASSUME ~Halted, ~Halted', UNCHANGED <<clients, channels, inbox>>,
         \A c \in clients : peer'[c] = "reset" <=> peer[c] = "reset",
         boxes(wire', backlog_queue') = boxes(wire, backlog_queue)
  PROVE  UNCHANGED Abstract!pubSubVars
<1>1. brokenBar' = brokenBar
  BY RunningBar, RunningBarNext
<1>2. UNCHANGED <<membersBar, subscribersBar, requestsBar, mailboxBar>>
  BY RunningBar, RunningBarNext
<1>. QED
  BY <1>1, <1>2 DEF Abstract!pubSubVars

-----------------------------------------------------------------------------
(* Connections.                                                            *)

(* accept() and addClient are a Join. *)
LEMMA ConnectionIsJoin ==
  ASSUME Inv, ~Halted, HandleNewConnection
  PROVE  UNCHANGED Abstract!pubSubVars \/ \E p \in Fd : Abstract!Join(p)
<1>1. ~Halted'
  BY DEF HandleNewConnection, Halted, Halt
<1>2. CASE freeFds = {}
  BY <1>1, <1>2, Invisible DEF HandleNewConnection, controllerVars, registryVars, netVars
<1>3. CASE freeFds # {}
  <2>1. PICK fd \in freeFds : accept(fd) /\ addClient(fd)
    BY <1>3 DEF HandleNewConnection
  <2>2. fd \in Fd /\ fd \notin clients
    BY DEF Inv, DescriptorsBelongToClients, freeFds
  <2>3. /\ clients' = clients \cup {fd}
        /\ UNCHANGED <<channels, inbox, wire, backlog_queue>>
        /\ peer'[fd] = "open"
        /\ \A c \in clients : peer'[c] = peer[c]
    BY <2>1, <2>2, MappedTypes DEF accept, addClient, Inv, NetworkTypeOK
  <2>4. {c \in clients' : peer'[c] = "reset"} = {c \in clients : peer[c] = "reset"}
    BY <2>3
  <2>5. /\ fd \notin membersBar /\ membersBar' = membersBar \cup {fd}
        /\ UNCHANGED <<brokenBar, subscribersBar, requestsBar, mailboxBar>>
    BY <1>1, <2>2, <2>3, <2>4, RunningBar, RunningBarNext
  <2>6. Abstract!Join(fd)
    BY <1>1, <2>5 DEF Abstract!Join
  <2>. QED
    BY <2>2, <2>6
<1>. QED
  BY <1>2, <1>3

(* A client that is removed leaves; the channels it listened to stay.      *)
LEMMA RemovalIsLeave ==
  ASSUME Inv, Inv', ~Halted, ~Halted', NEW c \in clients, kill(c), removeClientByFd(c)
  PROVE  Abstract!Leave(c)
<1>1. c \in Fd
  BY DEF Inv, PollInv
<1>2. /\ clients' = clients \ {c}
      /\ \A d \in Fd : peer'[d] = IF d = c THEN "none" ELSE peer[d]
      /\ inbox' = [inbox EXCEPT ![c] = <<>>]
      /\ \A d \in Fd : /\ wire'[d] = IF d = c THEN <<>> ELSE wire[d]
                       /\ backlog_queue'[d] = IF d = c THEN <<>> ELSE backlog_queue[d]
  BY MappedTypes DEF kill, removeClientByFd, destroyClient, Inv, NetworkTypeOK
<1>3. brokenBar' = brokenBar \ {c}
  <2>1. {d \in clients' : peer'[d] = "reset"} = {d \in clients : peer[d] = "reset"} \ {c}
    BY <1>2 DEF Inv, PollInv
  <2>. QED
    BY <2>1, RunningBar, RunningBarNext
<1>4. subscribersBar' = Abstract!without(c)
  <2>. DEFINE f == Abstract!without(c)
  <2>1. /\ DOMAIN channels' = DOMAIN channels
        /\ \A id \in DOMAIN channels :
             /\ channels'[id].name = channels[id].name
             /\ channels'[id].subscribers = channels[id].subscribers \ {c}
    <3>1. subscriptions[c] \subseteq DOMAIN channels /\ missingChannels(c) = {}
      BY <1>1 DEF Inv, RegistryInv, SubscriptionsMatchSubscribers, missingChannels
    <3>2. \A id \in DOMAIN channels : c \in channels[id].subscribers => id \in subscriptions[c]
      BY DEF Inv, RegistryInv, SubscriptionsMatchSubscribers
    <3>. QED
      BY <3>1, <3>2 DEF removeClientByFd, channelsWithout, Inv, RegistryInv,
         RegistryTypeOK, Channel
  <2>2. subscribersBar = ByName(channels) /\ subscribersBar' = ByName(channels')
    BY RunningBar, RunningBarNext
  <2>3. UniqueNames(channels) /\ UniqueNames(channels')
    BY MappedTypes, <2>1 DEF UniqueNames
  <2>4. /\ f = [name \in DOMAIN f |-> f[name]]
        /\ DOMAIN f = {channels'[id].name : id \in DOMAIN channels'}
        /\ \A id \in DOMAIN channels' : f[channels'[id].name] = channels'[id].subscribers
    <3>1. /\ DOMAIN subscribersBar = {channels[id].name : id \in DOMAIN channels}
          /\ \A id \in DOMAIN channels :
               subscribersBar[channels[id].name] = channels[id].subscribers
      BY <2>2, <2>3, NamesFindSubscribers
    <3>2. /\ DOMAIN f = DOMAIN subscribersBar
          /\ \A name \in DOMAIN f : f[name] = subscribersBar[name] \ {c}
          /\ f = [name \in DOMAIN f |-> f[name]]
      BY DEF Abstract!without
    <3>. HIDE DEF f
    <3>3. DOMAIN f = {channels'[id].name : id \in DOMAIN channels'}
      BY <2>1, <3>1, <3>2
    <3>4. ASSUME NEW id \in DOMAIN channels'
          PROVE  f[channels'[id].name] = channels'[id].subscribers
      <4>1. /\ id \in DOMAIN channels
            /\ channels'[id].name = channels[id].name
            /\ channels'[id].subscribers = channels[id].subscribers \ {c}
        BY <2>1, <3>4
      <4>2. channels[id].name \in DOMAIN f
        BY <3>1, <3>2, <4>1
      <4>3. /\ subscribersBar[channels[id].name] = channels[id].subscribers
            /\ f[channels[id].name] = subscribersBar[channels[id].name] \ {c}
        BY <3>1, <3>2, <4>1, <4>2
      <4>. QED
        BY <4>1, <4>3
    <3>. QED
      BY <3>2, <3>3, <3>4
  <2>. HIDE DEF f
  <2>5. ByName(channels') = f
    BY <2>3, <2>4, NamesDetermine
  <2>. QED
    BY <2>2, <2>5 DEF f
<1>5. mailboxBar' = [mailboxBar EXCEPT ![c] = <<>>]
  <2>1. \A d \in Fd : wire'[d] \o backlog_queue'[d] =
                      IF d = c THEN <<>> ELSE wire[d] \o backlog_queue[d]
    <3>1. <<>> \o <<>> = <<>>
      OBVIOUS
    <3>. QED
      BY <1>2, <3>1
  <2>. QED
    BY <2>1, RunningBar, RunningBarNext DEF boxes
<1>6. /\ c \in membersBar /\ membersBar' = membersBar \ {c}
      /\ requestsBar' = [requestsBar EXCEPT ![c] = <<>>]
  BY <1>2, RunningBar, RunningBarNext
<1>. QED
  BY <1>3, <1>4, <1>5, <1>6 DEF Abstract!Leave

(* The process that stops loses what was not in its sockets. *)
LEMMA HaltIsCrash ==
  ASSUME Inv, ~Halted, Halted', \A c \in Fd : wire'[c] \in {<<>>, wire[c]}
  PROVE  Abstract!Crash
<1>1. /\ membersBar' = {} /\ brokenBar' = {}
      /\ subscribersBar' = [name \in {} |-> {}]
      /\ requestsBar' = [c \in Fd |-> <<>>]
      /\ mailboxBar' = [c \in Fd |-> wire'[c]]
  BY DEF membersBar, brokenBar, subscribersBar, requestsBar, mailboxBar
<1>2. \A c \in Fd : mailboxBar[c] = wire[c] \o backlog_queue[c]
  BY RunningBar, BoxesTypes
<1>3. \A c \in Fd : wire'[c] \in Abstract!Prefixes(mailboxBar[c])
  <2>1. \A c \in Fd : /\ <<>> \in Abstract!Prefixes(wire[c] \o backlog_queue[c])
                      /\ wire[c] \in Abstract!Prefixes(wire[c] \o backlog_queue[c])
    BY MappedTypes, PrefixesAndSuffixes
  <2>. QED
    BY <1>2, <2>1
<1>4. mailboxBar' \in [Fd -> UNION {Abstract!Prefixes(mailboxBar[c]) : c \in Fd}]
  BY <1>1, <1>3
<1>. QED
  BY <1>1, <1>3, <1>4 DEF Abstract!Crash, Abstract!noChannels, Abstract!nothing

-----------------------------------------------------------------------------
(* Requests.                                                               *)

(* Both specifications speak of the same frames. *)
LEMMA SameFrames ==
  /\ Abstract!Ok = Ok /\ Abstract!InvalidRequest = InvalidRequest
  /\ \A names : Abstract!OkWithContent(names) = OkWithContent(names)
  /\ \A name, content : Abstract!Message(name, content) = Message(name, content)
BY DEF Abstract!Ok, Ok, Abstract!InvalidRequest, InvalidRequest, Abstract!OkWithContent,
   OkWithContent, Abstract!Message, Message, Abstract!Response, Response

(* Receiving a request is taking the oldest. *)
LEMMA ReceivedIsTake ==
  ASSUME Inv, ~Halted, ~Halted', UNCHANGED clients,
         NEW c \in Fd, NEW kind, Received(c, kind)
  PROVE  /\ Abstract!Take(c, kind)
         /\ requestsBar[c] = inbox[c]
         /\ c \in clients /\ UNCHANGED wire
<1>1. c \in clients
  BY ReceivedRequest
<1>2. /\ inbox[c] # <<>> /\ Head(inbox[c]).kind = kind
      /\ inbox' = [inbox EXCEPT ![c] = Tail(@)]
      /\ UNCHANGED <<peer, wire>>
  BY DEF Received, receive
<1>3. /\ membersBar = clients /\ requestsBar = inbox
      /\ requestsBar' = inbox'
      /\ UNCHANGED <<membersBar, brokenBar>>
  BY <1>2, RunningBar, RunningBarNext
<1>. QED
  BY <1>1, <1>2, <1>3 DEF Abstract!Take

(* A response arrives behind whatever the request has put into `queues'.   *)
LEMMA RespondIsAnswer ==
  ASSUME Inv, ~Halted', UNCHANGED wire, NEW c, NEW response \in Frame, NEW others,
         NEW queues \in [Fd -> Seq(Frame)], Respond(c, response, queues, others)
  PROVE  mailboxBar' = Abstract!post(boxes(wire, queues), {c}, response)
<1>1. mailboxBar' = boxes(wire, enqueueMessage(queues, {c}, response))
  BY RunningBarNext DEF Respond
<1>. QED
  BY <1>1, MappedTypes, PushReachesMailbox

(* The response to an operation of the controller. *)
LEMMA RespondToIsAnswer ==
  ASSUME Inv, ~Halted, ~Halted', UNCHANGED wire, NEW c,
         NEW result, result # "out_of_range", RespondTo(c, result)
  PROVE  Abstract!Answer(c, IF result = "none" THEN Abstract!Ok ELSE Abstract!InvalidRequest)
<1>. DEFINE response == IF result = "none" THEN Ok ELSE InvalidRequest
<1>1. response \in Frame
  BY FrameTypes
<1>2. Respond(c, response, backlog_queue, {})
  BY DEF RespondTo
<1>. HIDE DEF response
<1>3. mailboxBar' = Abstract!post(boxes(wire, backlog_queue), {c}, response)
  BY <1>1, <1>2, MappedTypes, RespondIsAnswer
<1>4. Abstract!Answer(c, response)
  BY <1>3, RunningBar DEF Abstract!Answer
<1>. QED
  BY <1>4, SameFrames DEF response

(* PubSub's channels, by the names of the map's. *)
LEMMA SubscribersBar ==
  ASSUME Inv, ~Halted
  PROVE  /\ DOMAIN subscribersBar = {channels[id].name : id \in DOMAIN channels}
         /\ \A id \in DOMAIN channels :
              subscribersBar[channels[id].name] = channels[id].subscribers
         /\ \A id, other \in DOMAIN channels :
              channels[id].name = channels[other].name => id = other
<1>1. UniqueNames(channels)
  BY MappedTypes
<1>2. subscribersBar = ByName(channels)
  BY RunningBar
<1>. QED
  BY <1>1, <1>2, NamesFindSubscribers DEF UniqueNames

(* Looking a channel up by its name. *)
LEMMA LookupIsExists ==
  ASSUME Inv, ~Halted, NEW name
  PROVE  /\ Abstract!exists(name) <=> channelExists(name)
         /\ \A id \in channelIdByName(name) :
              /\ id \in DOMAIN channels /\ channels[id].name = name
              /\ subscribersBar[name] = channels[id].subscribers
<1>1. /\ DOMAIN subscribersBar = {channels[id].name : id \in DOMAIN channels}
      /\ \A id \in DOMAIN channels :
           subscribersBar[channels[id].name] = channels[id].subscribers
  BY SubscribersBar
<1>. QED
  BY <1>1 DEF Abstract!exists, channelExists, channelIdByName

(* How the subscribers by name follow the map of channels. *)
LEMMA SubscribersFollow ==
  ASSUME Inv', ~Halted', NEW f, f = [name \in DOMAIN f |-> f[name]],
         DOMAIN f = {channels'[id].name : id \in DOMAIN channels'},
         \A id \in DOMAIN channels' : f[channels'[id].name] = channels'[id].subscribers
  PROVE  subscribersBar' = f
<1>1. UniqueNames(channels')
  BY DEF Inv, RegistryInv, ChannelNamesUnique, UniqueNames
<1>2. ByName(channels') = f
  BY <1>1, NamesDetermine
<1>. QED
  BY <1>2, RunningBarNext

(* An operation that changes the subscribers of one channel. *)
LEMMA OneChannelFollows ==
  ASSUME Inv, Inv', ~Halted, ~Halted', NEW name, NEW id \in channelIdByName(name), NEW S,
         channels' = [channels EXCEPT ![id].subscribers = S]
  PROVE  subscribersBar' = [subscribersBar EXCEPT ![name] = S]
<1>. DEFINE f == [subscribersBar EXCEPT ![name] = S]
<1>1. /\ DOMAIN subscribersBar = {channels[i].name : i \in DOMAIN channels}
      /\ \A i \in DOMAIN channels : subscribersBar[channels[i].name] = channels[i].subscribers
      /\ \A i \in DOMAIN channels : channels[i].name = name => i = id
  BY SubscribersBar DEF channelIdByName
<1>2. /\ DOMAIN channels' = DOMAIN channels
      /\ \A i \in DOMAIN channels :
           /\ channels'[i].name = channels[i].name
           /\ channels'[i].subscribers = IF i = id THEN S ELSE channels[i].subscribers
  BY DEF Inv, RegistryInv, RegistryTypeOK, Channel, channelIdByName
<1>3. id \in DOMAIN channels /\ channels[id].name = name /\ name \in DOMAIN subscribersBar
  BY <1>1 DEF channelIdByName
<1>4. /\ f = [n \in DOMAIN f |-> f[n]]
      /\ DOMAIN f = DOMAIN subscribersBar
      /\ \A n \in DOMAIN f : f[n] = IF n = name THEN S ELSE subscribersBar[n]
  BY <1>3
<1>. HIDE DEF f
<1>5. DOMAIN f = {channels'[i].name : i \in DOMAIN channels'}
  BY <1>1, <1>2, <1>4
<1>6. ASSUME NEW i \in DOMAIN channels'
      PROVE  f[channels'[i].name] = channels'[i].subscribers
  <2>1. channels[i].name \in DOMAIN f
    BY <1>1, <1>2, <1>4
  <2>. QED
    BY <1>1, <1>2, <1>3, <1>4, <2>1
<1>7. subscribersBar' = f
  BY <1>4, <1>5, <1>6, SubscribersFollow
<1>. QED
  BY <1>7 DEF f

(* A request that is refused. *)
LEMMA RefusalIsGrantIf ==
  ASSUME Inv, ~Halted, ~Halted', UNCHANGED <<wire, channels>>, NEW c,
         NEW result, result \notin {"none", "out_of_range"}, RespondTo(c, result)
  PROVE  Abstract!Answer(c, Abstract!InvalidRequest) /\ UNCHANGED subscribersBar
<1>1. Abstract!Answer(c, Abstract!InvalidRequest)
  BY RespondToIsAnswer
<1>2. UNCHANGED subscribersBar
  BY RunningBar, RunningBarNext
<1>. QED
  BY <1>1, <1>2

(* The handlers of requests leave the loop running. *)
LEMMA InputRuns ==
  ASSUME NEW c \in Fd, HandleInput(c)
  PROVE  ~Halted'
BY DEF HandleInput, HandleSubscribe, HandleUnsubscribe, HandleCreateChannel,
   HandleDeleteChannel, HandlePublish, HandleAsk, HandleMalformed,
   HandleReceiveFailure, RespondTo, Respond, Halted, Halt

(* Subscribe; the client is in the map, so that clients.at() finds it. *)
LEMMA SubscribeImplements ==
  ASSUME Inv, Inv', ~Halted, ~Halted', NEW c \in Fd, HandleSubscribe(c)
  PROVE  Abstract!Subscribe(c)
<1>. DEFINE name == Head(inbox[c]).channel
<1>1. PICK result \in Exception : addSubscription(c, name, result) /\ RespondTo(c, result)
  BY DEF HandleSubscribe
<1>2. Received(c, "Subscribe") /\ UNCHANGED clients
  BY <1>1 DEF HandleSubscribe, addSubscription
<1>3. /\ Abstract!Take(c, "Subscribe") /\ requestsBar[c] = inbox[c]
      /\ c \in clients /\ UNCHANGED wire
  BY <1>2, ReceivedIsTake
<1>. HIDE DEF name
<1>4. Abstract!GrantIf(c, Abstract!exists(name),
                       [subscribersBar EXCEPT ![name] = @ \cup {c}])
  <2>1. CASE ~channelExists(name)
    BY <1>1, <1>3, <2>1, LookupIsExists, RefusalIsGrantIf
       DEF addSubscription, channelExists, Abstract!GrantIf
  <2>2. CASE channelExists(name)
    <3>1. PICK id \in channelIdByName(name) :
            channels' = addSubscriber(id, c) /\ result = "none"
      BY <1>1, <1>3, <2>2 DEF addSubscription
    <3>2. subscribersBar' = [subscribersBar EXCEPT ![name] = channels[id].subscribers \cup {c}]
      BY <3>1, OneChannelFollows DEF addSubscriber
    <3>3. Abstract!Answer(c, Abstract!Ok)
      BY <1>1, <1>3, <3>1, RespondToIsAnswer
    <3>4. Abstract!exists(name) /\ subscribersBar[name] = channels[id].subscribers
      BY <2>2, LookupIsExists
    <3>. QED
      BY <3>2, <3>3, <3>4 DEF Abstract!GrantIf
  <2>. QED
    BY <2>1, <2>2
<1>. QED
  BY <1>3, <1>4 DEF Abstract!Subscribe, name

(* Unsubscribe; also of a channel the client does not listen to. *)
LEMMA UnsubscribeImplements ==
  ASSUME Inv, Inv', ~Halted, ~Halted', NEW c \in Fd, HandleUnsubscribe(c)
  PROVE  Abstract!Unsubscribe(c)
<1>. DEFINE name == Head(inbox[c]).channel
<1>1. PICK result \in Exception : removeSubscription(c, name, result) /\ RespondTo(c, result)
  BY DEF HandleUnsubscribe
<1>2. Received(c, "Unsubscribe") /\ c \in clients /\ UNCHANGED clients
  BY <1>1, ReceivedRequest DEF HandleUnsubscribe, removeSubscription
<1>3. /\ Abstract!Take(c, "Unsubscribe") /\ requestsBar[c] = inbox[c] /\ UNCHANGED wire
  BY <1>2, ReceivedIsTake
<1>. HIDE DEF name
<1>4. Abstract!GrantIf(c, Abstract!exists(name),
                       [subscribersBar EXCEPT ![name] = @ \ {c}])
  <2>1. CASE ~channelExists(name)
    BY <1>1, <1>3, <2>1, LookupIsExists, RefusalIsGrantIf
       DEF removeSubscription, channelExists, Abstract!GrantIf
  <2>2. CASE channelExists(name)
    <3>1. PICK id \in channelIdByName(name) :
            channels' = removeSubscriber(id, c) /\ result = "none"
      BY <1>1, <2>2 DEF removeSubscription
    <3>2. subscribersBar' = [subscribersBar EXCEPT ![name] = channels[id].subscribers \ {c}]
      BY <3>1, OneChannelFollows DEF removeSubscriber
    <3>3. Abstract!Answer(c, Abstract!Ok)
      BY <1>1, <1>3, <3>1, RespondToIsAnswer
    <3>4. Abstract!exists(name) /\ subscribersBar[name] = channels[id].subscribers
      BY <2>2, LookupIsExists
    <3>. QED
      BY <3>2, <3>3, <3>4 DEF Abstract!GrantIf
  <2>. QED
    BY <2>1, <2>2
<1>. QED
  BY <1>3, <1>4 DEF Abstract!Unsubscribe, name

(* CreateChannel; the new id is forgotten, the name counts. *)
LEMMA CreateImplements ==
  ASSUME Inv, Inv', ~Halted, ~Halted', NEW c \in Fd, HandleCreateChannel(c)
  PROVE  Abstract!CreateChannel(c)
<1>. DEFINE name == Head(inbox[c]).channel
            granted == [n \in DOMAIN subscribersBar \cup {name} |->
                          IF Abstract!exists(n) THEN subscribersBar[n] ELSE {}]
<1>1. PICK result \in Exception : addChannel(name, result) /\ RespondTo(c, result)
  BY DEF HandleCreateChannel
<1>2. Received(c, "CreateChannel") /\ UNCHANGED clients
  BY <1>1 DEF HandleCreateChannel, addChannel
<1>3. /\ Abstract!Take(c, "CreateChannel") /\ requestsBar[c] = inbox[c] /\ UNCHANGED wire
  BY <1>2, ReceivedIsTake
<1>. HIDE DEF name
<1>4. Abstract!GrantIf(c, ~Abstract!exists(name) /\ name \notin WhitespaceName, granted)
  <2>1. CASE channelExists(name) \/ name \in WhitespaceName
    <3>1. result \notin {"none", "out_of_range"} /\ UNCHANGED channels
      BY <1>1, <2>1 DEF addChannel, refusal
    <3>2. Abstract!Answer(c, Abstract!InvalidRequest) /\ UNCHANGED subscribersBar
      BY <1>1, <1>3, <3>1, RefusalIsGrantIf
    <3>. QED
      BY <2>1, <3>2, LookupIsExists DEF Abstract!GrantIf
  <2>2. CASE ~channelExists(name) /\ name \notin WhitespaceName
    <3>1. result = "none" /\ insertChannel(name)
      BY <1>1, <2>2 DEF addChannel, refusal
    <3>2. Abstract!Answer(c, Abstract!Ok)
      BY <1>1, <1>3, <3>1, RespondToIsAnswer
    <3>3. /\ DOMAIN subscribersBar = {channels[i].name : i \in DOMAIN channels}
          /\ \A i \in DOMAIN channels : subscribersBar[channels[i].name] = channels[i].subscribers
          /\ name \notin DOMAIN subscribersBar
      BY <2>2, SubscribersBar DEF channelExists, channelIdByName
    <3>4. /\ DOMAIN channels' = DOMAIN channels \cup {idGen}
          /\ idGen \notin DOMAIN channels
          /\ \A i \in DOMAIN channels : channels'[i] = channels[i]
          /\ channels'[idGen] = [name |-> name, subscribers |-> {}]
      <4>1. idGen \notin DOMAIN channels
        BY DEF Inv, RegistryInv, RegistryTypeOK, ChannelNamesUnique
      <4>. QED
        BY <3>1, <4>1 DEF insertChannel
    <3>5. /\ granted = [n \in DOMAIN granted |-> granted[n]]
          /\ DOMAIN granted = DOMAIN subscribersBar \cup {name}
          /\ \A n \in DOMAIN subscribersBar : granted[n] = subscribersBar[n]
          /\ granted[name] = {}
      BY <3>3 DEF Abstract!exists
    <3>. HIDE DEF granted
    <3>6. DOMAIN granted = {channels'[i].name : i \in DOMAIN channels'}
      BY <3>3, <3>4, <3>5
    <3>7. ASSUME NEW i \in DOMAIN channels'
          PROVE  granted[channels'[i].name] = channels'[i].subscribers
      <4>1. CASE i = idGen
        BY <3>4, <3>5, <4>1
      <4>2. CASE i \in DOMAIN channels
        <5>1. channels[i].name \in DOMAIN subscribersBar
          BY <3>3, <4>2
        <5>. QED
          BY <3>3, <3>4, <3>5, <4>2, <5>1
      <4>. QED
        BY <3>4, <4>1, <4>2
    <3>8. subscribersBar' = granted
      BY <3>5, <3>6, <3>7, SubscribersFollow
    <3>. QED
      BY <2>2, <3>2, <3>8, LookupIsExists DEF Abstract!GrantIf
  <2>. QED
    BY <2>1, <2>2
<1>. QED
  BY <1>3, <1>4 DEF Abstract!CreateChannel, name

(* DeleteChannel takes the one channel of the name away. *)
LEMMA DeleteImplements ==
  ASSUME Inv, Inv', ~Halted, ~Halted', NEW c \in Fd, HandleDeleteChannel(c)
  PROVE  Abstract!DeleteChannel(c)
<1>. DEFINE name == Head(inbox[c]).channel
            granted == [n \in DOMAIN subscribersBar \ {name} |-> subscribersBar[n]]
<1>1. PICK result \in Exception : deleteChannel(name, result) /\ RespondTo(c, result)
  BY DEF HandleDeleteChannel
<1>2. Received(c, "DeleteChannel") /\ UNCHANGED clients
  BY <1>1, DeleteChannelKeepsClients DEF HandleDeleteChannel, Inv
<1>3. /\ Abstract!Take(c, "DeleteChannel") /\ requestsBar[c] = inbox[c] /\ UNCHANGED wire
  BY <1>2, ReceivedIsTake
<1>. HIDE DEF name
<1>4. Abstract!GrantIf(c, Abstract!exists(name), granted)
  <2>1. CASE ~channelExists(name)
    BY <1>1, <1>3, <2>1, LookupIsExists, RefusalIsGrantIf
       DEF deleteChannel, channelExists, Abstract!GrantIf
  <2>2. CASE channelExists(name)
    <3>1. PICK id \in channelIdByName(name) :
            channels' = [i \in DOMAIN channels \ {id} |-> channels[i]] /\ result = "none"
      BY <1>1, <2>2 DEF deleteChannel
    <3>2. Abstract!Answer(c, Abstract!Ok)
      BY <1>1, <1>3, <3>1, RespondToIsAnswer
    <3>3. /\ DOMAIN subscribersBar = {channels[i].name : i \in DOMAIN channels}
          /\ \A i \in DOMAIN channels : subscribersBar[channels[i].name] = channels[i].subscribers
          /\ \A i \in DOMAIN channels : channels[i].name = name <=> i = id
      BY SubscribersBar DEF channelIdByName
    <3>4. /\ granted = [n \in DOMAIN granted |-> granted[n]]
          /\ DOMAIN granted = DOMAIN subscribersBar \ {name}
          /\ \A n \in DOMAIN granted : granted[n] = subscribersBar[n]
      OBVIOUS
    <3>. HIDE DEF granted
    <3>5. DOMAIN granted = {channels'[i].name : i \in DOMAIN channels'}
      BY <3>1, <3>3, <3>4
    <3>6. ASSUME NEW i \in DOMAIN channels'
          PROVE  granted[channels'[i].name] = channels'[i].subscribers
      BY <3>1, <3>3, <3>4
    <3>7. subscribersBar' = granted
      BY <3>4, <3>5, <3>6, SubscribersFollow
    <3>. QED
      BY <2>2, <3>2, <3>7, LookupIsExists DEF Abstract!GrantIf
  <2>. QED
    BY <2>1, <2>2
<1>. QED
  BY <1>3, <1>4 DEF Abstract!DeleteChannel, name

(* Publish puts the message into every subscriber's mailbox and then the   *)
(* response into the publisher's.                                          *)
LEMMA PublishImplements ==
  ASSUME Inv, ~Halted, ~Halted', NEW c \in Fd, HandlePublish(c)
  PROVE  Abstract!Publish(c)
<1>. DEFINE name == Head(inbox[c]).channel
            message == Message(name, Head(inbox[c]).content)
<1>1. Received(c, "Publish") /\ UNCHANGED clients /\ UNCHANGED channels
  BY DEF HandlePublish, registryVars
<1>2. /\ Abstract!Take(c, "Publish") /\ requestsBar[c] = inbox[c] /\ UNCHANGED wire
  BY <1>1, ReceivedIsTake
<1>3. UNCHANGED subscribersBar
  BY <1>1, RunningBar, RunningBarNext
<1>4. message \in Frame
  BY <1>1, ReceivedRequest, RequestMembers, FrameTypes
<1>5. IF channelExists(name)
      THEN \E id \in channelIdByName(name) :
             Respond(c, Ok, enqueueMessage(backlog_queue, recipients(id), message),
                     recipients(id))
      ELSE RespondTo(c, "ChannelNotFoundException")
  BY DEF HandlePublish
<1>6. Abstract!Message(name, Head(requestsBar[c]).content) = message
  BY <1>2, SameFrames
<1>7. Head(requestsBar[c]).channel = name
  BY <1>2
<1>. HIDE DEF name, message
<1>8. CASE ~channelExists(name)
  <2>1. Abstract!Answer(c, Abstract!InvalidRequest)
    BY <1>1, <1>2, <1>5, <1>8, RefusalIsGrantIf
  <2>2. ~Abstract!exists(name)
    BY <1>8, LookupIsExists
  <2>. QED
    BY <1>2, <1>3, <1>7, <2>1, <2>2 DEF Abstract!Publish
<1>9. CASE channelExists(name)
  <2>1. PICK id \in channelIdByName(name) :
          Respond(c, Ok, enqueueMessage(backlog_queue, recipients(id), message),
                  recipients(id))
    BY <1>5, <1>9
  <2>2. recipients(id) = subscribersBar[name] /\ Abstract!exists(name)
    BY <1>9, LookupIsExists DEF recipients
  <2>. DEFINE queues == enqueueMessage(backlog_queue, recipients(id), message)
  <2>3. queues \in [Fd -> Seq(Frame)]
    BY <1>4, MappedTypes, EnqueueTypes
  <2>4. boxes(wire, queues) = Abstract!post(mailboxBar, subscribersBar[name], message)
    <3>1. wire \in [Fd -> Seq(Frame)] /\ backlog_queue \in [Fd -> Seq(Frame)]
      BY MappedTypes
    <3>2. boxes(wire, queues) = Abstract!post(boxes(wire, backlog_queue), recipients(id), message)
      BY <1>4, <3>1, PushReachesMailbox
    <3>. HIDE DEF queues
    <3>. QED
      BY <2>2, <3>2, RunningBar
  <2>5. Respond(c, Ok, queues, recipients(id))
    BY <2>1
  <2>. HIDE DEF queues
  <2>6. mailboxBar' = Abstract!post(boxes(wire, queues), {c}, Ok)
    BY <1>2, <2>3, <2>5, FrameTypes, RespondIsAnswer
  <2>7. mailboxBar' = Abstract!post(Abstract!post(mailboxBar, subscribersBar[name], message),
                                    {c}, Abstract!Ok)
    BY <2>4, <2>6, SameFrames
  <2>. QED
    BY <1>2, <1>3, <1>6, <1>7, <2>2, <2>7 DEF Abstract!Publish
<1>. QED
  BY <1>8, <1>9

(* Ask is answered with the names of the channels there are. *)
LEMMA AskImplements ==
  ASSUME Inv, ~Halted, ~Halted', NEW c \in Fd, HandleAsk(c)
  PROVE  Abstract!ListChannels(c)
<1>. DEFINE names == {channels[id].name : id \in DOMAIN channels}
<1>1. /\ Received(c, "Ask") /\ UNCHANGED clients /\ UNCHANGED channels
      /\ Respond(c, OkWithContent(names), backlog_queue, {})
  BY DEF HandleAsk, registryVars
<1>2. /\ Abstract!Take(c, "Ask") /\ UNCHANGED wire
  BY <1>1, ReceivedIsTake
<1>3. UNCHANGED subscribersBar
  BY <1>1, RunningBar, RunningBarNext
<1>4. names \in SUBSET (ChannelName \cup {EmptyName}) /\ names = DOMAIN subscribersBar
  BY SubscribersBar DEF Inv, RegistryInv, RegistryTypeOK, Channel
<1>. HIDE DEF names
<1>5. mailboxBar' = Abstract!post(boxes(wire, backlog_queue), {c}, OkWithContent(names))
  BY <1>1, <1>2, <1>4, FrameTypes, MappedTypes, RespondIsAnswer
<1>6. Abstract!Answer(c, Abstract!OkWithContent(DOMAIN subscribersBar))
  BY <1>4, <1>5, RunningBar, SameFrames DEF Abstract!Answer
<1>. QED
  BY <1>2, <1>3, <1>6 DEF Abstract!ListChannels

(* Every way a request is handled is one of PubSub's, or PubSub sees none. *)
LEMMA InputImplements ==
  ASSUME Inv, Inv', ~Halted, NEW c \in Fd, HandleInput(c)
  PROVE  UNCHANGED Abstract!pubSubVars \/ Abstract!Serve(c)
<1>1. ~Halted'
  BY InputRuns
<1>2. CASE HandleMalformed(c)
  <2>1. /\ Received(c, "Malformed")
        /\ UNCHANGED <<clients, channels, backlog_queue>>
    BY <1>2 DEF HandleMalformed, controllerVars, registryVars
  <2>2. Abstract!Take(c, "Malformed") /\ UNCHANGED wire
    BY <1>1, <2>1, ReceivedIsTake
  <2>3. UNCHANGED <<subscribersBar, mailboxBar>>
    BY <1>1, <2>1, <2>2, RunningBar, RunningBarNext
  <2>. QED
    BY <2>2, <2>3 DEF Abstract!Serve, Abstract!Reject
<1>3. CASE HandleReceiveFailure(c)
  BY <1>1, <1>3, Invisible DEF HandleReceiveFailure, controllerVars, registryVars, netVars
<1>. QED
  BY <1>1, <1>2, <1>3, SubscribeImplements, UnsubscribeImplements, CreateImplements,
     DeleteImplements, PublishImplements, AskImplements DEF HandleInput, Abstract!Serve

-----------------------------------------------------------------------------
(* Output, and what the peers do.                                          *)

(* Sending a queued frame is not seen by PubSub; what ends the process is. *)
LEMMA OutputImplements ==
  ASSUME Inv, ~Halted, NEW c \in Fd, HandleOutput(c)
  PROVE  UNCHANGED Abstract!pubSubVars \/ Abstract!Crash
<1>1. CASE FlushEmpty(c) \/ FlushFails(c)
  <2>1. Halted' /\ UNCHANGED wire
    BY <1>1 DEF FlushEmpty, FlushFails, Halted, Halt, netVars
  <2>. QED
    BY <2>1, HaltIsCrash
<1>2. CASE FlushOne(c)
  <2>1. /\ ~Halted' /\ UNCHANGED <<clients, channels, inbox, peer>>
        /\ backlog_queue[c] # <<>>
        /\ wire' = [wire EXCEPT ![c] = Append(@, Head(backlog_queue[c]))]
        /\ backlog_queue' = [backlog_queue EXCEPT ![c] = Tail(@)]
    BY <1>2 DEF FlushOne, send, popFront, registryVars, Halted, Halt
  <2>2. \A d \in Fd : wire'[d] \o backlog_queue'[d] = wire[d] \o backlog_queue[d]
    <3>1. Append(wire[c], Head(backlog_queue[c])) \o Tail(backlog_queue[c])
            = wire[c] \o backlog_queue[c]
      BY <2>1, MappedTypes, FlushKeepsMailbox
    <3>. QED
      BY <2>1, <3>1, MappedTypes
  <2>. QED
    BY <2>1, <2>2, Invisible DEF boxes
<1>. QED
  BY <1>1, <1>2 DEF HandleOutput

(* What a peer does is what PubSub's peer does, or is not seen: a          *)
(* connection that waits, a request that is not complete, a FIN.           *)
LEMMA PeerImplements ==
  ASSUME Inv, ConnectionsEnd, ~Halted, ByPeer(PeerStep)
  PROVE  UNCHANGED Abstract!pubSubVars \/ Abstract!Next
<1>1. ~Halted' /\ UNCHANGED <<clients, channels, backlog_queue>>
  BY DEF ByPeer, controllerVars, registryVars, Halted
<1>2. /\ wire \in [Fd -> Seq(Frame)] /\ backlog_queue \in [Fd -> Seq(Frame)]
      /\ inbox \in [Fd -> Seq(Traffic)] /\ peer \in [Fd -> PeerState]
      /\ clients \subseteq Fd
      /\ \A c \in Fd : c \in clients <=> peer[c] # "none"
  BY MappedTypes DEF Inv, NetworkTypeOK, PollInv
<1>3. /\ membersBar = clients
      /\ brokenBar = {d \in clients : peer[d] = "reset"}
      /\ requestsBar = inbox
      /\ mailboxBar = boxes(wire, backlog_queue)
      /\ UNCHANGED <<membersBar, subscribersBar>>
      /\ brokenBar' = {d \in clients : peer'[d] = "reset"}
      /\ requestsBar' = inbox'
      /\ mailboxBar' = boxes(wire', backlog_queue)
  BY <1>1, RunningBar, RunningBarNext
<1>4. CASE Connect
  BY <1>1, <1>4, Invisible DEF Connect
<1>5. ASSUME NEW c \in Fd, PeerBegin(c)
      PROVE  UNCHANGED Abstract!pubSubVars
  BY <1>1, <1>5, Invisible DEF PeerBegin
<1>6. ASSUME NEW c \in Fd, PeerSends(c)
      PROVE  Abstract!Next
  <2>1. PICK request \in Traffic : PeerFinish(c, request)
    BY <1>6 DEF PeerSends
  <2>2. request \in Abstract!Request
    <3>1. Abstract!Request = Request
      BY DEF Abstract!Request, Request, Abstract!ChannelRequest, ChannelRequest,
         Abstract!PublishRequest, PublishRequest, Abstract!Ask, Ask,
         Abstract!Malformed, Malformed
    <3>. QED
      BY <3>1, NetworkAssumption
  <2>3. /\ c \in membersBar \ brokenBar
        /\ requestsBar' = [requestsBar EXCEPT ![c] = Append(@, request)]
        /\ UNCHANGED <<brokenBar, mailboxBar>>
    BY <1>2, <1>3, <2>1 DEF PeerFinish
  <2>4. Abstract!Send(c, request)
    BY <1>1, <1>3, <2>3 DEF Abstract!Send
  <2>. QED
    BY <2>2, <2>4 DEF Abstract!Next
<1>7. ASSUME NEW c \in Fd, PeerRead(c)
      PROVE  Abstract!Next
  <2>1. /\ wire[c] # <<>> /\ wire' = [wire EXCEPT ![c] = Tail(@)]
        /\ UNCHANGED <<peer, inbox>>
    BY <1>7 DEF PeerRead
  <2>2. c \in membersBar \ brokenBar
    BY <1>2, <1>3, <2>1 DEF ConnectionsEnd
  <2>3. /\ Tail(wire[c]) \o backlog_queue[c] = Tail(wire[c] \o backlog_queue[c])
        /\ wire[c] \o backlog_queue[c] # <<>>
    BY <1>2, <2>1, ReadTakesHead
  <2>4. mailboxBar[c] # <<>> /\ mailboxBar' = [mailboxBar EXCEPT ![c] = Tail(@)]
    BY <1>2, <1>3, <2>1, <2>3 DEF boxes
  <2>5. UNCHANGED <<brokenBar, requestsBar>>
    BY <1>3, <2>1
  <2>6. Abstract!Read(c)
    BY <1>1, <1>3, <2>2, <2>4, <2>5 DEF Abstract!Read
  <2>. QED
    BY <2>6 DEF Abstract!Next
<1>8. ASSUME NEW c \in Fd, PeerShut(c)
      PROVE  UNCHANGED Abstract!pubSubVars
  <2>1. \A d \in clients : peer'[d] = "reset" <=> peer[d] = "reset"
    BY <1>2, <1>8 DEF PeerShut
  <2>. QED
    BY <1>1, <1>8, <2>1, Invisible DEF PeerShut
<1>9. ASSUME NEW c \in Fd, PeerReset(c)
      PROVE  Abstract!Next
  <2>1. /\ peer[c] \in {"open", "shut"} /\ UNCHANGED inbox
        /\ peer' = [peer EXCEPT ![c] = "reset"]
        /\ wire' = [wire EXCEPT ![c] = <<>>]
    BY <1>9 DEF PeerReset
  <2>2. c \in membersBar \ brokenBar /\ brokenBar' = brokenBar \cup {c}
    BY <1>2, <1>3, <2>1
  <2>3. backlog_queue[c] \in Abstract!Suffixes(mailboxBar[c])
    BY <1>2, <1>3, PrefixesAndSuffixes DEF boxes
  <2>4. mailboxBar' = [mailboxBar EXCEPT ![c] = backlog_queue[c]]
    <3>1. <<>> \o backlog_queue[c] = backlog_queue[c]
      BY <1>2, ConcatEmptySeq
    <3>. QED
      BY <1>2, <1>3, <2>1, <3>1 DEF boxes
  <2>5. UNCHANGED requestsBar
    BY <1>3, <2>1
  <2>6. Abstract!Break(c)
    BY <1>1, <1>3, <2>2, <2>3, <2>4, <2>5 DEF Abstract!Break
  <2>. QED
    BY <2>6 DEF Abstract!Next
<1>. QED
  BY <1>4, <1>5, <1>6, <1>7, <1>8, <1>9 DEF ByPeer, PeerStep

-----------------------------------------------------------------------------
(* The hub begins as PubSub does. *)
LEMMA InitImplements ==
  ASSUME Init
  PROVE  Abstract!Init
<1>1. /\ ~Halted /\ clients = {} /\ DOMAIN channels = {}
      /\ inbox = [c \in Fd |-> <<>>] /\ wire = [c \in Fd |-> <<>>]
      /\ backlog_queue = [c \in Fd |-> <<>>]
  BY DEF Init, ControllerInit, ClientInit, NetworkInit, Halted, Halt
<1>2. membersBar = {} /\ brokenBar = {} /\ requestsBar = [c \in Fd |-> <<>>]
  BY <1>1, RunningBar
<1>3. subscribersBar = [name \in {} |-> {}]
  BY <1>1, RunningBar DEF ByName
<1>4. mailboxBar = [c \in Fd |-> <<>>]
  <2>1. <<>> \o <<>> = <<>>
    OBVIOUS
  <2>. QED
    BY <1>1, <2>1, RunningBar DEF boxes
<1>. QED
  BY <1>1, <1>2, <1>3, <1>4 DEF Abstract!Init, Abstract!noChannels, Abstract!nothing

(* Each step of the hub or of a peer is one of PubSub or invisible to it.  *)
LEMMA StepImplements ==
  ASSUME Inv, Inv', ConnectionsEnd, [Next]_vars
  PROVE  [Abstract!Next]_(Abstract!pubSubVars)
<1>1. CASE UNCHANGED vars
  <2>1. /\ UNCHANGED <<pc, clients, channels, peer, inbox, wire, backlog_queue>>
    BY <1>1 DEF vars, controllerVars, registryVars, netVars
  <2>. QED
    BY <2>1 DEF Abstract!pubSubVars, membersBar, brokenBar, subscribersBar, requestsBar,
       mailboxBar, subscribersByName, idOf, Halted
<1>2. CASE ByPeer(PeerStep)
  BY <1>2, PeerImplements DEF ByPeer
<1>3. CASE HubStep
  <2>1. ~Halted
    BY <1>3 DEF HubStep, SweepRemoves, NextEvent, HandleNewConnection, HandleDisconnect,
       HandleInput, HandleSubscribe, HandleUnsubscribe, HandleCreateChannel,
       HandleDeleteChannel, HandlePublish, HandleAsk, HandleMalformed,
       HandleReceiveFailure, Received, HandleOutput, FlushEmpty, FlushOne, FlushFails,
       Handling, CatchException, Halted, Halt
  <2>2. ASSUME NEW c \in clients, kill(c), removeClientByFd(c)
        PROVE  Abstract!Next
    <3>1. c \in Fd
      BY DEF Inv, PollInv
    <3>2. CASE Halted'
      <4>1. \A d \in Fd : wire'[d] \in {<<>>, wire[d]}
        BY <2>2, MappedTypes DEF kill
      <4>. QED
        BY <2>1, <3>2, <4>1, HaltIsCrash DEF Abstract!Next
    <3>3. CASE ~Halted'
      BY <2>1, <2>2, <3>1, <3>3, RemovalIsLeave DEF Abstract!Next
    <3>. QED
      BY <3>2, <3>3
  <2>3. ASSUME NEW e, NextEvent(e)
        PROVE  UNCHANGED Abstract!pubSubVars
    <3>1. ~Halted'
      BY <2>3 DEF Inv, LoopInv, BranchIsUnreachable, NextEvent, Halted, Halt
    <3>. QED
      BY <2>1, <2>3, <3>1, Invisible DEF NextEvent, controllerVars, registryVars, netVars
  <2>4. ASSUME NEW c \in Fd, SweepRemoves(c) \/ HandleDisconnect(c)
        PROVE  c \in clients /\ kill(c) /\ removeClientByFd(c)
    BY <2>4, HandledIsClient DEF SweepRemoves, overLimit, HandleDisconnect
  <2>5. CASE CatchException
    BY <2>2, <2>5 DEF CatchException, Inv, LoopInv, CaughtIsClient
  <2>6. CASE HandleNewConnection
    BY <2>1, <2>6, ConnectionIsJoin DEF Abstract!Next
  <2>7. ASSUME NEW c \in Fd, HandleInput(c) \/ HandleOutput(c)
        PROVE  UNCHANGED Abstract!pubSubVars \/ Abstract!Next
    BY <2>1, <2>7, InputImplements, OutputImplements DEF Abstract!Next
  <2>. QED
    BY <1>3, <2>2, <2>3, <2>4, <2>5, <2>6, <2>7 DEF HubStep
<1>. QED
  BY <1>1, <1>2, <1>3 DEF Next

(* Whatever poll() reports and in whichever order the loop handles it,     *)
(* what the peers see is PubSub: requests take effect one at a time and in *)
(* the order of their connection, and what a peer is sent comes in the     *)
(* order of these effects and complete, as long as its connection and the  *)
(* process last.                                                           *)
THEOREM Refinement == Spec => ImplementsPubSub
<1>1. Init => Abstract!Init
  BY InitImplements
<1>2. Inv /\ Inv' /\ ConnectionsEnd /\ [Next]_vars => [Abstract!Next]_(Abstract!pubSubVars)
  BY StepImplements
<1>3. QueueInv => ConnectionsEnd
  BY DEF QueueInv
<1>. QED
  BY <1>1, <1>2, <1>3, Invariance, QueueInvariance, PTL
     DEF Spec, ImplementsPubSub, Abstract!Spec
=============================================================================
