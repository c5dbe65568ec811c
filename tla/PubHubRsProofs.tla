--------------------------- MODULE PubHubRsProofs ---------------------------
(***************************************************************************)
(* The theorems about the client library: the invariant of the service it  *)
(* talks to, that the server owes it exactly one response per request and  *)
(* how far its stream can be out of step, and that an "Ok" collected by    *)
(* into_listener is a subscription.                                        *)
(***************************************************************************)
EXTENDS PubHubRs, FiniteSetTheorems, SequenceTheorems, TLAPS

(* The inductive invariant of the service. *)
ServiceInv ==
  /\ up \in BOOLEAN
  /\ members \subseteq Peer
  /\ broken \subseteq members
  /\ requests \in [Peer -> Seq(Request)]
  /\ mailbox \in [Peer -> Seq(Frame)]
  /\ DOMAIN subscribers \subseteq ChannelName
  /\ subscribers \in [DOMAIN subscribers -> SUBSET members]
  /\ up \/ members = {}
  /\ \A p \in Peer \ members : requests[p] = <<>> /\ (up => mailbox[p] = <<>>)

-----------------------------------------------------------------------------
(* What the library's connection has of the service. *)

Subscribed(name) == name \in DOMAIN subscribers /\ me \in subscribers[name]

NoMessage(frames) == \A i \in DOMAIN frames : frames[i].type # "message"

owed == IF call = idle THEN 0 ELSE 1

asking(kind) == \E i \in DOMAIN requests[me] : requests[me][i].kind = kind

(* Before it is a listener, nothing has been sent to it but responses. *)
UnheardInv ==
  /\ phase = "new" =>
       /\ me \notin members
       /\ stream = <<>> /\ responses = <<>> /\ misread = 0
  /\ phase = "connection" =>
       /\ \A name \in ChannelName : ~Subscribed(name)
       /\ NoMessage(mailbox[me]) /\ NoMessage(stream)
       /\ ~asking("Subscribe")
       /\ responses = <<>> /\ misread = 0
  /\ phase \in {"new", "closed"} => call = idle
  /\ ~asking("Malformed")

(* Responses that are on their way or yet to be produced are those of the  *)
(* call and those that misread messages have left behind; of a connection  *)
(* that is gone there may be fewer.                                        *)
CountInv ==
  phase \in {"connection", "listener"} =>
    /\ count(stream, "response") <= misread + owed
    /\ connected =>
         Len(requests[me]) + count(mailbox[me], "response") + count(stream, "response")
           = misread + owed

ConnectionInv == TypeOK /\ UnheardInv /\ CountInv

LibraryInv == ServiceInv /\ ConnectionInv

-----------------------------------------------------------------------------
OthersDeleteNothing == \A request \in OthersTraffic : request.kind # "DeleteChannel"

onlySubscribing ==
  \A i \in DOMAIN requests[me] : requests[me][i].kind = "Subscribe"

(* An Ok that has not been read is about the name that is awaited. *)
OkUnread ==
  me \in members =>
    \A frames \in {mailbox[me], stream} : \A i \in DOMAIN frames :
      frames[i].type = "response" /\ frames[i].status = "Ok"
        => Subscribed(call.channel)

OthersInv == \A p \in Peer \ {me} : requests[p] \in Seq(OthersTraffic)

(* While into_listener awaits the response to a name, requests and Ok      *)
(* responses under way are about that name.                                *)
SetupInv ==
  /\ phase = "listener" =>
       onlySubscribing \/ (responses = <<>> /\ call = idle /\ ~connected)
  /\ settingUp => misread = 0
  /\ settingUp /\ call # idle =>
       /\ call = Subscription(subscriptions[Len(responses) + 1])
       /\ \A i \in DOMAIN requests[me] : requests[me][i] = call
       /\ OkUnread
  /\ OkMeansSubscribed

-----------------------------------------------------------------------------
(* How many frames of a type a sequence holds.                             *)

LEMMA CountType ==
  ASSUME NEW S, NEW s \in Seq(S), NEW type
  PROVE  /\ IsFiniteSet({i \in DOMAIN s : s[i].type = type})
         /\ count(s, type) \in Nat
         /\ count(s, type) <= Len(s)
         /\ count(s, type) = 0 <=> \A i \in DOMAIN s : s[i].type # type
<1>. DEFINE C == {i \in DOMAIN s : s[i].type = type}
<1>1. Len(s) \in Nat /\ DOMAIN s = 1..Len(s)
  BY LenProperties
<1>2. IsFiniteSet(1..Len(s)) /\ Cardinality(1..Len(s)) = Len(s)
  BY <1>1, FS_Interval
<1>3. C \in SUBSET (1..Len(s))
  BY <1>1
<1>. HIDE DEF C
<1>4. IsFiniteSet(C) /\ Cardinality(C) <= Len(s) /\ Cardinality(C) \in Nat
  BY <1>2, <1>3, FS_Subset, FS_CardinalityType
<1>5. Cardinality(C) = 0 <=> C = {}
  BY <1>4, FS_EmptySet
<1>. QED
  BY <1>4, <1>5 DEF C, count

LEMMA CountEmpty ==
  ASSUME NEW type
  PROVE  count(<<>>, type) = 0
<1>1. {i \in DOMAIN <<>> : <<>>[i].type = type} = {}
  OBVIOUS
<1>. QED
  BY <1>1, FS_EmptySet DEF count

LEMMA CountAppend ==
  ASSUME NEW S, NEW s \in Seq(S), NEW f \in S, NEW type
  PROVE  count(Append(s, f), type) = count(s, type) + (IF f.type = type THEN 1 ELSE 0)
<1>. DEFINE C == {i \in DOMAIN s : s[i].type = type}
            D == {i \in DOMAIN Append(s, f) : Append(s, f)[i].type = type}
            n == Len(s)
<1>1. /\ n \in Nat /\ DOMAIN s = 1..n
      /\ DOMAIN Append(s, f) = 1..(n + 1)
      /\ \A i \in 1..n : Append(s, f)[i] = s[i]
      /\ Append(s, f)[n + 1] = f
  BY LenProperties, AppendProperties
<1>2. 1..(n + 1) = (1..n) \cup {n + 1} /\ n + 1 \notin 1..n
  BY <1>1
<1>. HIDE DEF n
<1>3. D = IF f.type = type THEN C \cup {n + 1} ELSE C
  BY <1>1, <1>2
<1>4. n + 1 \notin C
  BY <1>1, <1>2
<1>5. IsFiniteSet(C) /\ Cardinality(C) \in Nat
  BY CountType DEF count
<1>. HIDE DEF C, D
<1>6. Cardinality(D) = Cardinality(C) + (IF f.type = type THEN 1 ELSE 0)
  <2>1. Cardinality(C \cup {n + 1}) = Cardinality(C) + 1
    BY <1>4, <1>5, FS_AddElement
  <2>. QED
    BY <1>3, <1>5, <2>1
<1>. QED
  BY <1>6 DEF C, D, count

LEMMA CountConcat ==
  ASSUME NEW S, NEW s \in Seq(S), NEW t \in Seq(S), NEW type
  PROVE  count(s \o t, type) = count(s, type) + count(t, type)
<1>. DEFINE n == Len(s)
            C == {i \in DOMAIN s : s[i].type = type}
            D == {i \in DOMAIN t : t[i].type = type}
            E == {i \in DOMAIN (s \o t) : (s \o t)[i].type = type}
            F == {i \in (n + 1)..(n + Len(t)) : (s \o t)[i].type = type}
            shift == [i \in D |-> n + i]
<1>1. /\ n \in Nat /\ DOMAIN s = 1..n
      /\ Len(t) \in Nat /\ DOMAIN t = 1..Len(t)
      /\ DOMAIN (s \o t) = 1..(n + Len(t))
      /\ \A i \in 1..(n + Len(t)) : (s \o t)[i] = IF i <= n THEN s[i] ELSE t[i - n]
  BY LenProperties, ConcatProperties
<1>2. /\ IsFiniteSet(C) /\ Cardinality(C) \in Nat
      /\ IsFiniteSet(D) /\ Cardinality(D) \in Nat
  BY CountType DEF count
<1>. HIDE DEF n
<1>3. E = C \cup F /\ C \cap F = {}
  BY <1>1
<1>4. ExistsBijection(D, F)
  <2>1. \A i \in D : n + i \in F
    BY <1>1
  <2>2. \A j \in F : j - n \in D /\ n + (j - n) = j
    BY <1>1
  <2>3. D \subseteq Nat
    BY <1>1
  <2>. HIDE DEF D, F
  <2>4. shift \in [D -> F]
    BY <2>1
  <2>5. \A i, j \in D : shift[i] = shift[j] => i = j
    BY <1>1, <2>3
  <2>6. \A j \in F : \E i \in D : shift[i] = j
    BY <2>2
  <2>. HIDE DEF shift
  <2>. QED
    BY <2>4, <2>5, <2>6 DEF ExistsBijection, Bijection, Injection, Surjection, IsInjective
<1>. HIDE DEF C, D, E, F
<1>5. IsFiniteSet(F) /\ Cardinality(F) = Cardinality(D)
  BY <1>2, <1>4, FS_Bijection
<1>6. Cardinality(E) = Cardinality(C) + Cardinality(F) - Cardinality(C \cap F)
  BY <1>2, <1>3, <1>5, FS_Union
<1>7. Cardinality(C \cap F) = 0
  BY <1>3, FS_EmptySet
<1>8. Cardinality(E) = Cardinality(C) + Cardinality(D)
  BY <1>2, <1>5, <1>6, <1>7
<1>. QED
  BY <1>8 DEF C, D, E, count

LEMMA CountTail ==
  ASSUME NEW S, NEW s \in Seq(S), s # <<>>, NEW type
  PROVE  count(s, type) = count(Tail(s), type) + (IF Head(s).type = type THEN 1 ELSE 0)
<1>1. /\ Head(s) \in S /\ Tail(s) \in Seq(S) /\ <<Head(s)>> \in Seq(S)
  BY HeadTailProperties
<1>2. s = <<Head(s)>> \o Tail(s)
  OBVIOUS
<1>3. count(s, type) = count(<<Head(s)>>, type) + count(Tail(s), type)
  <2>. DEFINE h == <<Head(s)>>
              t == Tail(s)
  <2>1. h \in Seq(S) /\ t \in Seq(S) /\ s = h \o t
    BY <1>1, <1>2
  <2>. HIDE DEF h, t
  <2>2. count(h \o t, type) = count(h, type) + count(t, type)
    BY <2>1, CountConcat
  <2>. QED
    BY <2>1, <2>2 DEF h, t
<1>4. count(<<Head(s)>>, type) = IF Head(s).type = type THEN 1 ELSE 0
  <2>. DEFINE C == {i \in DOMAIN <<Head(s)>> : <<Head(s)>>[i].type = type}
  <2>1. C = IF Head(s).type = type THEN {1} ELSE {}
    OBVIOUS
  <2>. HIDE DEF C
  <2>2. Cardinality(C) = IF Head(s).type = type THEN 1 ELSE 0
    BY <2>1, FS_EmptySet, FS_Singleton
  <2>. QED
    BY <2>2 DEF C, count
<1>5. count(Tail(s), type) \in Nat
  BY <1>1, CountType
<1>. QED
  BY <1>3, <1>4, <1>5

-----------------------------------------------------------------------------
(* The service.                                                            *)

(* What the library and the peers do is what PubSub lets its peers do.     *)
LEMMA LibraryUsesService ==
  ASSUME [RsNext]_vars
  PROVE  [Next]_pubSubVars
<1>. USE LibraryAssumption
<1>1. CASE UNCHANGED pubSubVars
  BY <1>1
<1>2. ASSUME NEW request \in Request, Send(me, request)
      PROVE  Next
  BY <1>2 DEF Next
<1>3. \A name \in ChannelName : Subscription(name) \in Request
  BY DEF Subscription, Request, ChannelRequest
<1>4. CASE Library
  <2>1. Join(me) \/ Read(me) => Next
    BY DEF Next
  <2>. QED
    BY <1>2, <1>3, <1>4, <2>1 DEF Library, New, IntoListener, SendFails, Drop, Record,
       executeSubscribe, ListenerSubscribe, Execute, Arrive, AwaitResponse, AwaitFails,
       NextMessage
<1>5. CASE Server
  BY <1>5 DEF Server, Others, Next
<1>. QED
  BY <1>1, <1>4, <1>5 DEF RsNext, vars

LEMMA ServiceInit ==
  ASSUME Init
  PROVE  ServiceInv
<1>1. DOMAIN subscribers = {}
  BY DEF Init, noChannels
<1>. QED
  BY <1>1 DEF Init, ServiceInv, noChannels, nothing

(* The answers the server gives are frames. *)
LEMMA ResponsesAreFrames ==
  /\ Ok \in Frame /\ InvalidRequest \in Frame
  /\ \A listing \in SUBSET ChannelName : OkWithContent(listing) \in Frame
BY DEF Ok, InvalidRequest, OkWithContent, Response, Frame

LEMMA PostTyped ==
  ASSUME NEW boxes \in [Peer -> Seq(Frame)], NEW P, NEW frame \in Frame
  PROVE  /\ post(boxes, P, frame) \in [Peer -> Seq(Frame)]
         /\ \A p \in Peer \ P : post(boxes, P, frame)[p] = boxes[p]
         /\ \A p \in Peer \cap P : post(boxes, P, frame)[p] = Append(boxes[p], frame)
<1>1. \A p \in Peer : Append(boxes[p], frame) \in Seq(Frame)
  OBVIOUS
<1>. QED
  BY <1>1 DEF post

(* Mailboxes that differ from `boxes' for members alone. *)
ForMembers(boxes, new) ==
  /\ new \in [Peer -> Seq(Frame)]
  /\ \A p \in Peer \ members : new[p] = boxes[p]

LEMMA PostToMembers ==
  ASSUME NEW boxes \in [Peer -> Seq(Frame)], NEW P, P \subseteq members, NEW frame \in Frame
  PROVE  ForMembers(boxes, post(boxes, P, frame))
<1>1. \A p \in Peer \ members : p \in Peer \ P
  OBVIOUS
<1>. QED
  BY <1>1, PostTyped DEF ForMembers

(* A request that is taken is one of a member, whose queue loses its head. *)
LEMMA TakeTyped ==
  ASSUME ServiceInv, NEW p \in Peer, NEW kind, Take(p, kind)
  PROVE  /\ p \in members /\ up
         /\ Head(requests[p]) \in Request
         /\ requests' \in [Peer -> Seq(Request)]
         /\ requests'[p] = Tail(requests[p])
         /\ \A q \in Peer \ {p} : requests'[q] = requests[q]
         /\ UNCHANGED <<up, members, broken>>
<1>1. Head(requests[p]) \in Request /\ Tail(requests[p]) \in Seq(Request)
  BY HeadTailProperties DEF ServiceInv, Take
<1>. QED
  BY <1>1 DEF ServiceInv, Take

LEMMA ServePreservesService ==
  ASSUME ServiceInv, NEW p \in Peer, Serve(p)
  PROVE  ServiceInv'
<1>. DEFINE name == Head(requests[p]).channel
<1>1. ASSUME NEW kind, Take(p, kind),
             ForMembers(mailbox, mailbox'),
             DOMAIN subscribers' \subseteq ChannelName,
             subscribers' \in [DOMAIN subscribers' -> SUBSET members]
      PROVE  ServiceInv'
  <2>1. /\ p \in members /\ up
        /\ requests' \in [Peer -> Seq(Request)]
        /\ \A q \in Peer \ {p} : requests'[q] = requests[q]
        /\ UNCHANGED <<up, members, broken>>
    BY <1>1, TakeTyped
  <2>. QED
    BY <1>1, <2>1 DEF ServiceInv, ForMembers
<1>2. ASSUME NEW frame \in Frame, p \in members
      PROVE  ForMembers(mailbox, post(mailbox, {p}, frame))
  <2>1. {p} \subseteq members /\ mailbox \in [Peer -> Seq(Frame)]
    BY <1>2 DEF ServiceInv
  <2>. QED
    BY <2>1, PostToMembers
<1>3. ASSUME NEW kind, NEW condition, NEW granted, Take(p, kind),
             GrantIf(p, condition, granted),
             condition => /\ DOMAIN granted \subseteq ChannelName
                          /\ granted \in [DOMAIN granted -> SUBSET members]
      PROVE  ServiceInv'
  <2>1. p \in members
    BY <1>3, TakeTyped
  <2>2. ForMembers(mailbox, mailbox')
    BY <1>2, <1>3, <2>1, ResponsesAreFrames DEF GrantIf, Answer
  <2>3. /\ DOMAIN subscribers' \subseteq ChannelName
        /\ subscribers' \in [DOMAIN subscribers' -> SUBSET members]
    BY <1>3 DEF GrantIf, ServiceInv
  <2>. QED
    BY <1>1, <1>3, <2>2, <2>3
<1>4. CASE Subscribe(p)
  <2>1. Take(p, "Subscribe") /\ p \in members
    BY <1>4, TakeTyped DEF Subscribe
  <2>. QED
    BY <1>3, <1>4, <2>1 DEF Subscribe, exists, ServiceInv
<1>5. CASE Unsubscribe(p)
  <2>1. Take(p, "Unsubscribe")
    BY <1>5 DEF Unsubscribe
  <2>. QED
    BY <1>3, <1>5, <2>1 DEF Unsubscribe, exists, ServiceInv
<1>6. CASE CreateChannel(p)
  <2>1. Take(p, "CreateChannel") /\ Head(requests[p]) \in Request
    BY <1>6, TakeTyped DEF CreateChannel
  <2>2. name \in ChannelName
    BY <2>1 DEF Take, Request, ChannelRequest, PublishRequest, Ask, Malformed
  <2>. QED
    BY <1>3, <1>6, <2>1, <2>2 DEF CreateChannel, exists, ServiceInv
<1>7. CASE DeleteChannel(p)
  <2>1. Take(p, "DeleteChannel")
    BY <1>7 DEF DeleteChannel
  <2>. QED
    BY <1>3, <1>7, <2>1 DEF DeleteChannel, exists, ServiceInv
<1>8. CASE Publish(p)
  <2>. DEFINE message == Message(name, Head(requests[p]).content)
              first == post(mailbox, subscribers[name], message)
  <2>1. Take(p, "Publish") /\ p \in members /\ Head(requests[p]) \in Request
    BY <1>8, TakeTyped DEF Publish
  <2>2. message \in Frame
    BY <2>1 DEF Take, Request, ChannelRequest, PublishRequest, Ask, Malformed, Message, Frame
  <2>3. CASE exists(name)
    <3>1. subscribers[name] \subseteq members /\ mailbox \in [Peer -> Seq(Frame)]
      BY <2>3 DEF exists, ServiceInv
    <3>. HIDE DEF name, message
    <3>2. ForMembers(mailbox, first)
      BY <2>2, <3>1, PostToMembers
    <3>3. mailbox' = post(first, {p}, Ok)
      BY <1>8, <2>3 DEF Publish, message, name
    <3>. HIDE DEF first
    <3>4. ForMembers(mailbox, mailbox')
      <4>1. {p} \subseteq members /\ Ok \in Frame /\ first \in [Peer -> Seq(Frame)]
        BY <2>1, <3>2, ResponsesAreFrames DEF ForMembers
      <4>2. ForMembers(first, post(first, {p}, Ok))
        BY <4>1, PostToMembers
      <4>. QED
        BY <3>2, <3>3, <4>2 DEF ForMembers
    <3>5. UNCHANGED subscribers
      BY <1>8 DEF Publish
    <3>. QED
      BY <1>1, <2>1, <3>4, <3>5 DEF ServiceInv
  <2>4. CASE ~exists(name)
    <3>1. /\ ForMembers(mailbox, mailbox')
          /\ UNCHANGED subscribers
      BY <1>2, <1>8, <2>1, <2>4, ResponsesAreFrames DEF Publish, Answer
    <3>. QED
      BY <1>1, <2>1, <3>1 DEF ServiceInv
  <2>. QED
    BY <2>3, <2>4
<1>9. CASE ListChannels(p)
  <2>1. Take(p, "Ask") /\ p \in members /\ UNCHANGED subscribers
    BY <1>9, TakeTyped DEF ListChannels
  <2>2. OkWithContent(DOMAIN subscribers) \in Frame
    BY ResponsesAreFrames DEF ServiceInv
  <2>3. ForMembers(mailbox, mailbox')
    BY <1>2, <1>9, <2>1, <2>2 DEF ListChannels, Answer
  <2>. QED
    BY <1>1, <2>1, <2>3 DEF ServiceInv
<1>10. CASE Reject(p)
  BY <1>1, <1>10 DEF Reject, ServiceInv, ForMembers
<1>. QED
  BY <1>4, <1>5, <1>6, <1>7, <1>8, <1>9, <1>10 DEF Serve

(* Parts of a mailbox are made of its frames. *)
PartOf(part, frames) ==
  /\ part \in Seq(Frame)
  /\ \A i \in DOMAIN part : \E j \in DOMAIN frames : part[i] = frames[j]

LEMMA SubSeqIsPart ==
  ASSUME NEW frames \in Seq(Frame), NEW m \in 1..(Len(frames) + 1), NEW n \in 0..Len(frames)
  PROVE  PartOf(SubSeq(frames, m, n), frames)
<1>1. \A i \in m..n : frames[i] \in Frame
  BY LenProperties
<1>. DEFINE part == SubSeq(frames, m, n)
<1>2. /\ part \in Seq(Frame)
      /\ Len(part) = IF m <= n THEN n - m + 1 ELSE 0
      /\ \A i \in 1..(n - m + 1) : part[i] = frames[m + i - 1]
  BY <1>1, SubSeqProperties
<1>3. DOMAIN part = 1..Len(part) /\ DOMAIN frames = 1..Len(frames) /\ Len(frames) \in Nat
  BY <1>2, LenProperties
<1>. HIDE DEF part
<1>4. ASSUME NEW i \in DOMAIN part
      PROVE  m + i - 1 \in DOMAIN frames /\ part[i] = frames[m + i - 1]
  BY <1>2, <1>3
<1>. QED
  BY <1>2, <1>4 DEF PartOf, part

LEMMA PrefixesAndSuffixesAreParts ==
  ASSUME NEW frames \in Seq(Frame), NEW part \in Prefixes(frames) \cup Suffixes(frames)
  PROVE  PartOf(part, frames)
<1>1. Len(frames) \in Nat
  BY LenProperties
<1>2. CASE part = <<>>
  BY <1>2 DEF PartOf
<1>3. ASSUME NEW m \in 1..(Len(frames) + 1), NEW n \in 0..Len(frames),
             part = SubSeq(frames, m, n)
      PROVE  PartOf(part, frames)
  BY <1>3, SubSeqIsPart
<1>4. CASE \E n \in 0..Len(frames) : part = SubSeq(frames, 1, n)
  <2>1. 1 \in 1..(Len(frames) + 1)
    BY <1>1
  <2>. QED
    BY <1>3, <1>4, <2>1
<1>5. CASE \E m \in 1..Len(frames) : part = SubSeq(frames, m, Len(frames))
  <2>1. /\ Len(frames) \in 0..Len(frames)
        /\ \A m \in 1..Len(frames) : m \in 1..(Len(frames) + 1)
    BY <1>1
  <2>. QED
    BY <1>3, <1>5, <2>1
<1>. QED
  BY <1>2, <1>4, <1>5 DEF Prefixes, Suffixes

LEMMA ServiceStep ==
  ASSUME ServiceInv, [Next]_pubSubVars
  PROVE  ServiceInv'
<1>1. CASE UNCHANGED pubSubVars
  BY <1>1 DEF ServiceInv, pubSubVars
<1>2. ASSUME NEW p \in Peer, Join(p)
      PROVE  ServiceInv'
  BY <1>2 DEF Join, ServiceInv
<1>3. ASSUME NEW p \in Peer, Leave(p)
      PROVE  ServiceInv'
  <2>1. /\ requests' \in [Peer -> Seq(Request)]
        /\ mailbox' \in [Peer -> Seq(Frame)]
        /\ requests'[p] = <<>> /\ mailbox'[p] = <<>>
        /\ \A q \in Peer \ {p} : requests'[q] = requests[q] /\ mailbox'[q] = mailbox[q]
    BY <1>3 DEF Leave, ServiceInv
  <2>2. /\ DOMAIN subscribers' = DOMAIN subscribers
        /\ subscribers' \in [DOMAIN subscribers' -> SUBSET members']
    BY <1>3 DEF Leave, without, ServiceInv
  <2>. QED
    BY <1>3, <2>1, <2>2 DEF Leave, ServiceInv
<1>4. ASSUME NEW p \in Peer, NEW request \in Request, Send(p, request)
      PROVE  ServiceInv'
  <2>1. Append(requests[p], request) \in Seq(Request)
    BY AppendProperties DEF ServiceInv
  <2>. QED
    BY <1>4, <2>1 DEF Send, ServiceInv
<1>5. ASSUME NEW p \in Peer, Read(p)
      PROVE  ServiceInv'
  <2>1. Tail(mailbox[p]) \in Seq(Frame)
    BY <1>5, HeadTailProperties DEF Read, ServiceInv
  <2>. QED
    BY <1>5, <2>1 DEF Read, ServiceInv
<1>6. ASSUME NEW p \in Peer, Break(p)
      PROVE  ServiceInv'
  <2>1. PICK rest \in Suffixes(mailbox[p]) : mailbox' = [mailbox EXCEPT ![p] = rest]
    BY <1>6 DEF Break
  <2>2. rest \in Seq(Frame)
    BY PrefixesAndSuffixesAreParts DEF PartOf, ServiceInv
  <2>. QED
    BY <1>6, <2>1, <2>2 DEF Break, ServiceInv
<1>7. CASE Crash
  <2>1. mailbox' \in [Peer -> Seq(Frame)]
    <3>1. \A p \in Peer : mailbox'[p] \in Seq(Frame)
      BY <1>7, PrefixesAndSuffixesAreParts DEF Crash, PartOf, ServiceInv
    <3>. QED
      BY <1>7, <3>1 DEF Crash
  <2>2. DOMAIN subscribers' = {} /\ subscribers' \in [DOMAIN subscribers' -> SUBSET members']
    BY <1>7 DEF Crash, noChannels
  <2>3. /\ up' = FALSE /\ members' = {} /\ broken' = {}
        /\ requests' \in [Peer -> Seq(Request)]
        /\ \A p \in Peer : requests'[p] = <<>>
    BY <1>7 DEF Crash, nothing
  <2>4. DOMAIN subscribers' \subseteq ChannelName
    BY <2>2
  <2>. QED
    BY <2>1, <2>2, <2>3, <2>4 DEF ServiceInv
<1>. QED
  BY <1>1, <1>2, <1>3, <1>4, <1>5, <1>6, <1>7, ServePreservesService DEF Next

(* The server keeps the types of PubSub when the library is one peer of it *)
(* and the other peers do what they like; the subscribers of a channel are *)
(* members, and a peer that is none has nothing left to be served or read. *)
THEOREM ServiceInvariance == RsSpec => []ServiceInv
<1>1. RsInit => ServiceInv
  BY ServiceInit DEF RsInit
<1>2. ServiceInv /\ [RsNext]_vars => ServiceInv'
  BY LibraryUsesService, ServiceStep
<1>. QED
  BY <1>1, <1>2, PTL DEF RsSpec

-----------------------------------------------------------------------------
(* What a step of the server or of the other peers means to the library's  *)
(* connection.                                                             *)

(* It stays what it was, and is subscribed to nothing more. *)
Stays ==
  /\ up' = up
  /\ (me \in members') <=> (me \in members)
  /\ (me \in broken') <=> (me \in broken)

SubscribedAfter(name) == name \in DOMAIN subscribers' /\ me \in subscribers'[name]

GainsNothing == \A name : SubscribedAfter(name) => Subscribed(name)
LosesNothing == \A name : Subscribed(name) => SubscribedAfter(name)

MayBeSent(old, new) ==
  \/ new = old
  \/ /\ \E name \in ChannelName : Subscribed(name)
     /\ \E f \in Frame : f.type = "message" /\ new = Append(old, f)

(* At most a message of a channel it is subscribed to. *)
Overheard ==
  /\ Stays /\ GainsNothing
  /\ requests'[me] = requests[me]
  /\ MayBeSent(mailbox[me], mailbox'[me])

(* Its oldest request is carried out, and answered by one response. *)
Answered ==
  /\ Stays /\ me \in members
  /\ requests[me] # <<>>
  /\ requests'[me] = Tail(requests[me])
  /\ \E f \in Frame : \E old \in Seq(Frame) :
       /\ f.type = "response"
       /\ MayBeSent(mailbox[me], old) /\ mailbox'[me] = Append(old, f)
       /\ Head(requests[me]).kind = "Subscribe" =>
            /\ LosesNothing
            /\ f.status = "Ok" => SubscribedAfter(Head(requests[me]).channel)
  /\ Head(requests[me]).kind # "Subscribe" => GainsNothing

(* It is gone, with what has not arrived, and does not come back. *)
CutOff ==
  /\ ~(me \in members' \ broken')
  /\ me \in members' => me \in members
  /\ GainsNothing
  /\ me \in members' => LosesNothing
  /\ requests'[me] \in {requests[me], <<>>}
  /\ PartOf(mailbox'[me], mailbox[me])

LEMMA PostForMe ==
  ASSUME ServiceInv, NEW P, NEW frame \in Frame
  PROVE  post(mailbox, P, frame)[me] =
           IF me \in P THEN Append(mailbox[me], frame) ELSE mailbox[me]
BY LibraryAssumption DEF post

(* An effect that concerns the requester alone. *)
LEMMA GrantForMe ==
  ASSUME ServiceInv, NEW p \in Peer, NEW condition \in BOOLEAN, NEW granted,
         GrantIf(p, condition, granted)
  PROVE  /\ mailbox'[me] = IF p = me
                           THEN Append(mailbox[me], IF condition THEN Ok ELSE InvalidRequest)
                           ELSE mailbox[me]
         /\ subscribers' = IF condition THEN granted ELSE subscribers
BY PostForMe, ResponsesAreFrames DEF GrantIf, Answer

(* What subscribing and unsubscribing p mean to me. *)
LEMMA SubscribingForMe ==
  ASSUME ServiceInv, NEW p \in Peer, NEW name \in DOMAIN subscribers,
         subscribers' = [subscribers EXCEPT ![name] = @ \cup {p}]
  PROVE  /\ LosesNothing
         /\ p # me => GainsNothing
         /\ p = me => SubscribedAfter(name)
<1>1. subscribers \in [DOMAIN subscribers -> SUBSET members]
  BY DEF ServiceInv
<1>2. /\ DOMAIN subscribers' = DOMAIN subscribers
      /\ \A n \in DOMAIN subscribers : subscribers'[n] =
           IF n = name THEN subscribers[n] \cup {p} ELSE subscribers[n]
  BY <1>1
<1>. QED
  BY <1>2 DEF LosesNothing, GainsNothing, Subscribed, SubscribedAfter

LEMMA UnsubscribingForMe ==
  ASSUME ServiceInv, NEW p \in Peer, NEW name \in DOMAIN subscribers,
         subscribers' = [subscribers EXCEPT ![name] = @ \ {p}]
  PROVE  /\ GainsNothing
         /\ p # me => LosesNothing
<1>1. subscribers \in [DOMAIN subscribers -> SUBSET members]
  BY DEF ServiceInv
<1>2. /\ DOMAIN subscribers' = DOMAIN subscribers
      /\ \A n \in DOMAIN subscribers : subscribers'[n] =
           IF n = name THEN subscribers[n] \ {p} ELSE subscribers[n]
  BY <1>1
<1>. QED
  BY <1>2 DEF LosesNothing, GainsNothing, Subscribed, SubscribedAfter

LEMMA SameSubscribersForMe ==
  ASSUME UNCHANGED subscribers
  PROVE  GainsNothing /\ LosesNothing
BY DEF LosesNothing, GainsNothing, Subscribed, SubscribedAfter

(* A request of another peer. *)
LEMMA OthersServed ==
  ASSUME ServiceInv, NEW p \in Peer \ {me}, Serve(p)
  PROVE  /\ Overheard
         /\ \/ LosesNothing
            \/ requests[p] # <<>> /\ Head(requests[p]).kind = "DeleteChannel"
<1>. DEFINE name == Head(requests[p]).channel
<1>. USE LibraryAssumption
<1>1. ASSUME NEW kind, Take(p, kind)
      PROVE  Stays /\ requests'[me] = requests[me] /\ Head(requests[p]) \in Request
  <2>1. /\ me \in Peer \ {p} /\ UNCHANGED <<up, members, broken>>
        /\ \A q \in Peer \ {p} : requests'[q] = requests[q]
        /\ Head(requests[p]) \in Request
    BY <1>1, TakeTyped
  <2>. QED
    BY <2>1 DEF Stays
<1>2. ASSUME NEW response \in Frame, Answer(p, response)
      PROVE  mailbox'[me] = mailbox[me]
  BY <1>2, PostForMe DEF Answer
<1>3. MayBeSent(mailbox[me], mailbox[me])
  BY DEF MayBeSent
<1>4. CASE Subscribe(p)
  <2>. DEFINE granted == [subscribers EXCEPT ![name] = @ \cup {p}]
  <2>1. /\ mailbox'[me] = mailbox[me]
        /\ subscribers' = IF exists(name) THEN granted ELSE subscribers
    <3>1. exists(name) \in BOOLEAN /\ GrantIf(p, exists(name), granted)
      BY <1>4 DEF Subscribe, exists
    <3>. HIDE DEF granted
    <3>. QED
      BY <3>1, GrantForMe
  <2>2. GainsNothing /\ LosesNothing
    BY <2>1, SubscribingForMe, SameSubscribersForMe DEF exists
  <2>. QED
    BY <1>1, <1>3, <1>4, <2>1, <2>2 DEF Subscribe, Overheard
<1>5. CASE Unsubscribe(p)
  <2>. DEFINE granted == [subscribers EXCEPT ![name] = @ \ {p}]
  <2>1. /\ mailbox'[me] = mailbox[me]
        /\ subscribers' = IF exists(name) THEN granted ELSE subscribers
    <3>1. exists(name) \in BOOLEAN /\ GrantIf(p, exists(name), granted)
      BY <1>5 DEF Unsubscribe, exists
    <3>. HIDE DEF granted
    <3>. QED
      BY <3>1, GrantForMe
  <2>2. GainsNothing /\ LosesNothing
    BY <2>1, UnsubscribingForMe, SameSubscribersForMe DEF exists
  <2>. QED
    BY <1>1, <1>3, <1>5, <2>1, <2>2 DEF Unsubscribe, Overheard
<1>6. CASE CreateChannel(p)
  <2>. DEFINE created == [n \in DOMAIN subscribers \cup {name} |->
                            IF exists(n) THEN subscribers[n] ELSE {}]
              new == ~exists(name) /\ name \notin WhitespaceName
  <2>1. /\ mailbox'[me] = mailbox[me]
        /\ subscribers' = IF new THEN created ELSE subscribers
    <3>1. new \in BOOLEAN /\ GrantIf(p, new, created)
      BY <1>6 DEF CreateChannel
    <3>. HIDE DEF new, created
    <3>. QED
      BY <3>1, GrantForMe
  <2>2. GainsNothing /\ LosesNothing
    BY <2>1 DEF exists, LosesNothing, GainsNothing, Subscribed, SubscribedAfter
  <2>. QED
    BY <1>1, <1>3, <1>6, <2>1, <2>2 DEF CreateChannel, Overheard
<1>7. CASE DeleteChannel(p)
  <2>. DEFINE rest == [n \in DOMAIN subscribers \ {name} |-> subscribers[n]]
  <2>1. /\ mailbox'[me] = mailbox[me]
        /\ subscribers' = IF exists(name) THEN rest ELSE subscribers
    <3>1. exists(name) \in BOOLEAN /\ GrantIf(p, exists(name), rest)
      BY <1>7 DEF DeleteChannel, exists
    <3>. HIDE DEF rest
    <3>. QED
      BY <3>1, GrantForMe
  <2>2. GainsNothing
    BY <2>1 DEF GainsNothing, Subscribed, SubscribedAfter
  <2>3. requests[p] # <<>> /\ Head(requests[p]).kind = "DeleteChannel"
    BY <1>7 DEF DeleteChannel, Take
  <2>. QED
    BY <1>1, <1>3, <1>7, <2>1, <2>2, <2>3 DEF DeleteChannel, Overheard
<1>8. CASE Publish(p)
  <2>. DEFINE message == Message(name, Head(requests[p]).content)
  <2>1. /\ Take(p, "Publish") /\ Stays /\ requests'[me] = requests[me]
        /\ Head(requests[p]) \in Request
    BY <1>1, <1>8 DEF Publish
  <2>2. message \in Frame /\ message.type = "message" /\ name \in ChannelName
    BY <2>1 DEF Take, Request, ChannelRequest, PublishRequest, Ask, Malformed, Message, Frame
  <2>3. GainsNothing /\ LosesNothing
    BY <1>8, SameSubscribersForMe DEF Publish
  <2>4. MayBeSent(mailbox[me], mailbox'[me])
    <3>1. CASE exists(name)
      <4>. DEFINE first == post(mailbox, subscribers[name], message)
      <4>1. mailbox' = post(first, {p}, Ok)
        BY <1>8, <3>1 DEF Publish
      <4>2. mailbox'[me] = first[me]
        BY <4>1 DEF post
      <4>. HIDE DEF name, message
      <4>3. first[me] = IF me \in subscribers[name] THEN Append(mailbox[me], message)
                        ELSE mailbox[me]
        BY <2>2, PostForMe
      <4>. QED
        BY <2>2, <3>1, <4>2, <4>3 DEF MayBeSent, Subscribed, exists
    <3>2. CASE ~exists(name)
      BY <1>2, <1>3, <1>8, <3>2, ResponsesAreFrames DEF Publish
    <3>. QED
      BY <3>1, <3>2
  <2>. QED
    BY <2>1, <2>3, <2>4 DEF Overheard
<1>9. CASE ListChannels(p)
  <2>1. OkWithContent(DOMAIN subscribers) \in Frame
    BY ResponsesAreFrames DEF ServiceInv
  <2>2. mailbox'[me] = mailbox[me]
    BY <1>2, <1>9, <2>1 DEF ListChannels
  <2>. QED
    BY <1>1, <1>3, <1>9, <2>2, SameSubscribersForMe DEF ListChannels, Overheard
<1>10. CASE Reject(p)
  BY <1>1, <1>3, <1>10, SameSubscribersForMe DEF Reject, Overheard
<1>. QED
  BY <1>4, <1>5, <1>6, <1>7, <1>8, <1>9, <1>10 DEF Serve

(* A request of me that is one. *)
LEMMA MineServed ==
  ASSUME ServiceInv, ~asking("Malformed"), Serve(me)
  PROVE  Answered
<1>. DEFINE name == Head(requests[me]).channel
            kind == Head(requests[me]).kind
<1>. USE LibraryAssumption
<1>1. ASSUME NEW k, Take(me, k)
      PROVE  /\ Stays /\ me \in members /\ kind = k
             /\ requests[me] # <<>> /\ requests'[me] = Tail(requests[me])
             /\ Head(requests[me]) \in Request
  <2>1. /\ me \in members /\ UNCHANGED <<up, members, broken>>
        /\ requests'[me] = Tail(requests[me])
        /\ Head(requests[me]) \in Request
    BY <1>1, TakeTyped
  <2>. QED
    BY <1>1, <2>1 DEF Stays, Take
<1>2. ASSUME NEW k, Take(me, k), NEW f \in Frame, NEW old \in Seq(Frame),
             f.type = "response",
             MayBeSent(mailbox[me], old), mailbox'[me] = Append(old, f),
             k = "Subscribe" => LosesNothing /\ (f.status = "Ok" => SubscribedAfter(name)),
             k # "Subscribe" => GainsNothing
      PROVE  Answered
  <2>1. /\ Stays /\ me \in members /\ kind = k
        /\ requests[me] # <<>> /\ requests'[me] = Tail(requests[me])
    BY <1>1, <1>2
  <2>2. \E g \in Frame : \E o \in Seq(Frame) :
          /\ g.type = "response"
          /\ MayBeSent(mailbox[me], o) /\ mailbox'[me] = Append(o, g)
          /\ kind = "Subscribe" => LosesNothing /\ (g.status = "Ok" => SubscribedAfter(name))
    BY <1>2, <2>1
  <2>3. kind # "Subscribe" => GainsNothing
    BY <1>2, <2>1
  <2>. QED
    BY <2>1, <2>2, <2>3 DEF Answered
<1>3. MayBeSent(mailbox[me], mailbox[me]) /\ mailbox[me] \in Seq(Frame)
  BY DEF MayBeSent, ServiceInv
<1>4. /\ Ok \in Frame /\ Ok.type = "response"
      /\ InvalidRequest \in Frame /\ InvalidRequest.type = "response"
      /\ InvalidRequest.status # "Ok"
  BY ResponsesAreFrames DEF Ok, InvalidRequest, Response
<1>5. CASE Subscribe(me)
  <2>. DEFINE granted == [subscribers EXCEPT ![name] = @ \cup {me}]
              f == IF exists(name) THEN Ok ELSE InvalidRequest
  <2>1. /\ mailbox'[me] = Append(mailbox[me], f)
        /\ subscribers' = IF exists(name) THEN granted ELSE subscribers
    <3>1. exists(name) \in BOOLEAN /\ GrantIf(me, exists(name), granted)
      BY <1>5 DEF Subscribe, exists
    <3>. HIDE DEF granted
    <3>. QED
      BY <3>1, GrantForMe
  <2>2. LosesNothing /\ (exists(name) => SubscribedAfter(name))
    BY <2>1, SubscribingForMe, SameSubscribersForMe DEF exists
  <2>3. f \in Frame /\ f.type = "response" /\ (f.status = "Ok" => SubscribedAfter(name))
    BY <1>4, <2>2
  <2>4. Take(me, "Subscribe")
    BY <1>5 DEF Subscribe
  <2>. HIDE DEF f, name
  <2>. QED
    BY <1>2, <1>3, <2>1, <2>2, <2>3, <2>4
<1>6. CASE Unsubscribe(me)
  <2>. DEFINE granted == [subscribers EXCEPT ![name] = @ \ {me}]
              f == IF exists(name) THEN Ok ELSE InvalidRequest
  <2>1. /\ mailbox'[me] = Append(mailbox[me], f)
        /\ subscribers' = IF exists(name) THEN granted ELSE subscribers
    <3>1. exists(name) \in BOOLEAN /\ GrantIf(me, exists(name), granted)
      BY <1>6 DEF Unsubscribe, exists
    <3>. HIDE DEF granted
    <3>. QED
      BY <3>1, GrantForMe
  <2>2. GainsNothing
    BY <2>1, UnsubscribingForMe, SameSubscribersForMe DEF exists
  <2>3. f \in Frame /\ f.type = "response" /\ Take(me, "Unsubscribe")
    BY <1>4, <1>6 DEF Unsubscribe
  <2>. HIDE DEF f, name
  <2>. QED
    BY <1>2, <1>3, <2>1, <2>2, <2>3
<1>7. CASE CreateChannel(me)
  <2>. DEFINE created == [n \in DOMAIN subscribers \cup {name} |->
                            IF exists(n) THEN subscribers[n] ELSE {}]
              new == ~exists(name) /\ name \notin WhitespaceName
              f == IF new THEN Ok ELSE InvalidRequest
  <2>1. /\ mailbox'[me] = Append(mailbox[me], f)
        /\ subscribers' = IF new THEN created ELSE subscribers
    <3>1. new \in BOOLEAN /\ GrantIf(me, new, created)
      BY <1>7 DEF CreateChannel
    <3>. HIDE DEF new, created
    <3>. QED
      BY <3>1, GrantForMe
  <2>2. GainsNothing
    BY <2>1 DEF exists, GainsNothing, Subscribed, SubscribedAfter
  <2>3. f \in Frame /\ f.type = "response" /\ Take(me, "CreateChannel")
    BY <1>4, <1>7 DEF CreateChannel
  <2>. HIDE DEF f, name
  <2>. QED
    BY <1>2, <1>3, <2>1, <2>2, <2>3
<1>8. CASE DeleteChannel(me)
  <2>. DEFINE rest == [n \in DOMAIN subscribers \ {name} |-> subscribers[n]]
              f == IF exists(name) THEN Ok ELSE InvalidRequest
  <2>1. /\ mailbox'[me] = Append(mailbox[me], f)
        /\ subscribers' = IF exists(name) THEN rest ELSE subscribers
    <3>1. exists(name) \in BOOLEAN /\ GrantIf(me, exists(name), rest)
      BY <1>8 DEF DeleteChannel, exists
    <3>. HIDE DEF rest
    <3>. QED
      BY <3>1, GrantForMe
  <2>2. GainsNothing
    BY <2>1 DEF GainsNothing, Subscribed, SubscribedAfter
  <2>3. f \in Frame /\ f.type = "response" /\ Take(me, "DeleteChannel")
    BY <1>4, <1>8 DEF DeleteChannel
  <2>. HIDE DEF f, name
  <2>. QED
    BY <1>2, <1>3, <2>1, <2>2, <2>3
<1>9. CASE Publish(me)
  <2>. DEFINE message == Message(name, Head(requests[me]).content)
  <2>1. Take(me, "Publish") /\ Head(requests[me]) \in Request
    BY <1>1, <1>9 DEF Publish
  <2>2. message \in Frame /\ message.type = "message" /\ name \in ChannelName
    BY <2>1 DEF Take, Request, ChannelRequest, PublishRequest, Ask, Malformed, Message, Frame
  <2>3. GainsNothing
    BY <1>9, SameSubscribersForMe DEF Publish
  <2>4. CASE exists(name)
    <3>. DEFINE first == post(mailbox, subscribers[name], message)
    <3>1. mailbox' = post(first, {me}, Ok)
      BY <1>9, <2>4 DEF Publish
    <3>2. mailbox'[me] = Append(first[me], Ok)
      BY <3>1 DEF post
    <3>. HIDE DEF name, message
    <3>3. first[me] = IF me \in subscribers[name] THEN Append(mailbox[me], message)
                      ELSE mailbox[me]
      BY <2>2, PostForMe
    <3>. HIDE DEF first
    <3>4. MayBeSent(mailbox[me], first[me]) /\ first[me] \in Seq(Frame)
      BY <1>3, <2>2, <2>4, <3>3, AppendProperties DEF MayBeSent, Subscribed, exists
    <3>. QED
      BY <1>2, <1>4, <2>1, <2>3, <3>2, <3>4
  <2>5. CASE ~exists(name)
    <3>1. mailbox'[me] = Append(mailbox[me], InvalidRequest)
      BY <1>4, <1>9, <2>5, PostForMe DEF Publish, Answer
    <3>. HIDE DEF name
    <3>. QED
      BY <1>2, <1>3, <1>4, <2>1, <2>3, <3>1
  <2>. QED
    BY <2>4, <2>5
<1>10. CASE ListChannels(me)
  <2>. DEFINE f == OkWithContent(DOMAIN subscribers)
  <2>1. f \in Frame /\ f.type = "response"
    BY ResponsesAreFrames DEF ServiceInv, OkWithContent, Response
  <2>2. Take(me, "Ask") /\ GainsNothing /\ Answer(me, f)
    BY <1>10, SameSubscribersForMe DEF ListChannels
  <2>. HIDE DEF f
  <2>3. mailbox'[me] = Append(mailbox[me], f)
    BY <2>1, <2>2, PostForMe DEF Answer
  <2>. QED
    BY <1>2, <1>3, <2>1, <2>2, <2>3
<1>11. CASE Reject(me)
  <2>1. Take(me, "Malformed") /\ requests[me] \in Seq(Request) /\ requests[me] # <<>>
    BY <1>11 DEF Reject, Take, ServiceInv
  <2>2. 1 \in DOMAIN requests[me] /\ requests[me][1].kind = "Malformed"
    BY <2>1 DEF Take
  <2>. QED
    BY <2>2 DEF asking
<1>. QED
  BY <1>5, <1>6, <1>7, <1>8, <1>9, <1>10, <1>11 DEF Serve

(* Connections that go: me's or another. *)
LEMMA LeavingForMe ==
  ASSUME ServiceInv, NEW p \in Peer, Leave(p)
  PROVE  IF p = me THEN CutOff ELSE Overheard /\ LosesNothing
<1>. USE LibraryAssumption
<1>1. GainsNothing /\ (p # me => LosesNothing)
  BY DEF Leave, without, GainsNothing, LosesNothing, Subscribed, SubscribedAfter
<1>2. CASE p = me
  <2>1. /\ me \notin members'
        /\ requests'[me] = <<>> /\ mailbox'[me] = <<>>
    BY <1>2 DEF Leave, ServiceInv
  <2>2. PartOf(mailbox'[me], mailbox[me])
    BY <2>1 DEF PartOf
  <2>. QED
    BY <1>1, <1>2, <2>1, <2>2 DEF CutOff
<1>3. CASE p # me
  <2>1. /\ Stays
        /\ requests'[me] = requests[me] /\ mailbox'[me] = mailbox[me]
    BY <1>3 DEF Leave, ServiceInv, Stays
  <2>. QED
    BY <1>1, <1>3, <2>1 DEF Overheard, MayBeSent
<1>. QED
  BY <1>2, <1>3

LEMMA BreakingForMe ==
  ASSUME ServiceInv, NEW p \in Peer, Break(p)
  PROVE  IF p = me THEN CutOff ELSE Overheard /\ LosesNothing
<1>. USE LibraryAssumption
<1>1. GainsNothing /\ LosesNothing
  BY SameSubscribersForMe DEF Break
<1>2. PICK rest \in Suffixes(mailbox[p]) : mailbox' = [mailbox EXCEPT ![p] = rest]
  BY DEF Break
<1>3. CASE p = me
  <2>1. /\ mailbox[me] \in Seq(Frame)
        /\ mailbox'[me] = rest /\ rest \in Suffixes(mailbox[me])
    BY <1>2, <1>3 DEF ServiceInv
  <2>2. PartOf(mailbox'[me], mailbox[me])
    BY <2>1, PrefixesAndSuffixesAreParts
  <2>3. me \in broken' /\ (me \in members' => me \in members) /\ requests'[me] = requests[me]
    BY <1>3 DEF Break
  <2>. QED
    BY <1>1, <1>3, <2>2, <2>3 DEF CutOff
<1>4. CASE p # me
  <2>1. /\ Stays
        /\ requests'[me] = requests[me] /\ mailbox'[me] = mailbox[me]
    BY <1>2, <1>4 DEF Break, ServiceInv, Stays
  <2>. QED
    BY <1>1, <1>4, <2>1 DEF Overheard, MayBeSent
<1>. QED
  BY <1>3, <1>4

LEMMA CrashingForMe ==
  ASSUME ServiceInv, Crash
  PROVE  CutOff
<1>. USE LibraryAssumption
<1>1. members' = {} /\ requests'[me] = <<>>
  BY DEF Crash, nothing
<1>2. PartOf(mailbox'[me], mailbox[me])
  <2>1. mailbox'[me] \in Prefixes(mailbox[me]) /\ mailbox[me] \in Seq(Frame)
    BY DEF Crash, ServiceInv
  <2>. QED
    BY <2>1, PrefixesAndSuffixesAreParts
<1>3. GainsNothing
  BY DEF Crash, noChannels, GainsNothing, SubscribedAfter
<1>. QED
  BY <1>1, <1>2, <1>3 DEF CutOff

LEMMA OthersAndMe ==
  ASSUME ServiceInv, NEW p \in Peer \ {me}, Others(p)
  PROVE  Overheard /\ LosesNothing
<1>. USE LibraryAssumption
<1>1. UNCHANGED subscribers
  BY DEF Others, Join, Read, Send
<1>2. Stays /\ requests'[me] = requests[me] /\ mailbox'[me] = mailbox[me]
  BY DEF Others, Join, Read, Send, Stays, ServiceInv
<1>. QED
  BY <1>1, <1>2, SameSubscribersForMe DEF Overheard, MayBeSent

(* All there is. *)
LEMMA ServerShapes ==
  ASSUME ServiceInv, ~asking("Malformed"), Server
  PROVE  \/ /\ Overheard
            /\ \/ LosesNothing
               \/ \E p \in Peer \ {me} :
                    requests[p] # <<>> /\ Head(requests[p]).kind = "DeleteChannel"
         \/ Answered
         \/ CutOff
<1>1. ASSUME NEW p \in Peer, Serve(p)
      PROVE  (p = me /\ Answered) \/ p # me
  BY <1>1, MineServed
<1>. QED
  BY <1>1, OthersServed, LeavingForMe, BreakingForMe, CrashingForMe, OthersAndMe DEF Server

-----------------------------------------------------------------------------
(* The library's side: types, what a connection has not heard, and the     *)
(* count of responses, one lemma per kind of step.                         *)

LEMMA Basics ==
  ASSUME ServiceInv, TypeOK
  PROVE  /\ me \in Peer
         /\ requests[me] \in Seq(Request) /\ Len(requests[me]) \in Nat
         /\ mailbox[me] \in Seq(Frame) /\ count(mailbox[me], "response") \in Nat
         /\ stream \in Seq(Frame) /\ count(stream, "response") \in Nat
         /\ misread \in Nat /\ owed \in {0, 1} /\ (owed = 0 <=> call = idle)
<1>1. /\ me \in Peer
      /\ requests[me] \in Seq(Request)
      /\ mailbox[me] \in Seq(Frame) /\ stream \in Seq(Frame)
      /\ misread \in Nat /\ owed \in {0, 1} /\ (owed = 0 <=> call = idle)
  BY LibraryAssumption DEF ServiceInv, TypeOK, owed
<1>. QED
  BY <1>1, CountType, LenProperties

LEMMA FrameTypes ==
  ASSUME NEW f \in Frame
  PROVE  /\ f.type \in {"response", "message"}
         /\ isResponse(f) <=> f.type = "response"
         /\ isResponse(f) => f.status \in {"Ok", "Error"}
BY DEF Frame, isResponse

LEMMA RequestKinds ==
  ASSUME NEW request \in Request
  PROVE  /\ request # idle
         /\ request.kind = "Malformed" => request = Malformed
BY DEF Request, ChannelRequest, PublishRequest, Ask, Malformed, idle

LEMMA ConnectionInit ==
  ASSUME RsInit
  PROVE  ConnectionInv
<1>1. requests[me] = <<>> /\ mailbox[me] = <<>> /\ me \notin members
  BY LibraryAssumption DEF RsInit, Init, nothing
<1>. QED
  BY <1>1 DEF RsInit, ConnectionInv, TypeOK, UnheardInv, CountInv, asking

(* A step of the server or of another peer. *)
LEMMA ServerPreserves ==
  ASSUME ServiceInv, ServiceInv', ConnectionInv, Server, UNCHANGED libVars
  PROVE  ConnectionInv'
<1>. USE DEF ConnectionInv
<1>1. UNCHANGED <<phase, subscriptions, responses, call, stream, misread, owed>>
  BY DEF libVars, owed
<1>2. TypeOK'
  BY <1>1 DEF TypeOK
<1>3. Overheard \/ Answered \/ CutOff
  BY ServerShapes DEF UnheardInv
<1>4. ASSUME NEW old, MayBeSent(mailbox[me], old)
      PROVE  /\ old \in Seq(Frame)
             /\ count(old, "response") = count(mailbox[me], "response")
             /\ (\A name \in ChannelName : ~Subscribed(name)) => old = mailbox[me]
  <2>1. mailbox[me] \in Seq(Frame) /\ count(mailbox[me], "response") \in Nat
    BY Basics
  <2>2. ASSUME NEW f \in Frame, f.type = "message"
        PROVE  /\ Append(mailbox[me], f) \in Seq(Frame)
               /\ count(Append(mailbox[me], f), "response") = count(mailbox[me], "response")
    BY <2>1, <2>2, CountAppend, AppendProperties
  <2>3. CASE old = mailbox[me]
    BY <2>1, <2>3
  <2>4. CASE old # mailbox[me]
    <3>1. PICK f \in Frame : f.type = "message" /\ old = Append(mailbox[me], f)
      BY <1>4, <2>4 DEF MayBeSent
    <3>2. \E name \in ChannelName : Subscribed(name)
      BY <1>4, <2>4 DEF MayBeSent
    <3>. QED
      BY <2>2, <3>1, <3>2
  <2>. QED
    BY <2>3, <2>4
<1>5. ASSUME NEW name \in ChannelName, Subscribed(name)', GainsNothing
      PROVE  Subscribed(name)
  BY <1>5 DEF GainsNothing, Subscribed, SubscribedAfter
<1>6. CASE Overheard
  <2>1. /\ requests'[me] = requests[me] /\ connected' = connected
        /\ me \in members' <=> me \in members
        /\ MayBeSent(mailbox[me], mailbox'[me]) /\ GainsNothing
    BY <1>6 DEF Overheard, Stays, connected
  <2>2. UnheardInv'
    BY <1>1, <1>4, <1>5, <2>1 DEF UnheardInv, asking, NoMessage
  <2>3. CountInv'
    BY <1>1, <1>4, <2>1 DEF CountInv
  <2>. QED
    BY <1>2, <2>2, <2>3
<1>7. CASE Answered
  <2>1. /\ requests[me] # <<>> /\ requests'[me] = Tail(requests[me])
        /\ connected' = connected /\ me \in members /\ me \in members'
    BY <1>7 DEF Answered, Stays, connected
  <2>2. PICK f \in Frame, old \in Seq(Frame) :
          f.type = "response" /\ MayBeSent(mailbox[me], old) /\ mailbox'[me] = Append(old, f)
    BY <1>7 DEF Answered
  <2>3. count(mailbox'[me], "response") = count(mailbox[me], "response") + 1
    BY <1>4, <2>2, CountAppend
  <2>4. /\ requests[me] \in Seq(Request)
        /\ Len(Tail(requests[me])) = Len(requests[me]) - 1
        /\ \A i \in DOMAIN Tail(requests[me]) :
             i + 1 \in DOMAIN requests[me] /\ Tail(requests[me])[i] = requests[me][i + 1]
    BY <2>1, Basics, HeadTailProperties, LenProperties
  <2>5. \A k : asking(k)' => asking(k)
    BY <2>1, <2>4 DEF asking
  <2>6. UnheardInv'
    <3>1. phase = "connection" =>
            /\ \A name \in ChannelName : ~Subscribed(name)'
            /\ NoMessage(mailbox'[me])
      <4>1. SUFFICES ASSUME phase = "connection"
                     PROVE  /\ \A name \in ChannelName : ~Subscribed(name)'
                            /\ NoMessage(mailbox'[me])
        OBVIOUS
      <4>2. old = mailbox[me] /\ NoMessage(mailbox[me]) /\ mailbox[me] \in Seq(Frame)
        BY <1>4, <2>2, <4>1, Basics DEF UnheardInv
      <4>3. NoMessage(Append(mailbox[me], f))
        BY <2>2, <4>2, AppendProperties, LenProperties DEF NoMessage
      <4>4. Head(requests[me]).kind # "Subscribe"
        <5>1. 1 \in DOMAIN requests[me] /\ Head(requests[me]) = requests[me][1]
          BY <2>1, <2>4
        <5>. QED
          BY <4>1, <5>1 DEF UnheardInv, asking
      <4>5. GainsNothing
        BY <1>7, <4>4 DEF Answered
      <4>. QED
        BY <1>5, <2>2, <4>1, <4>2, <4>3, <4>5 DEF UnheardInv
    <3>. QED
      BY <1>1, <2>1, <2>5, <3>1 DEF UnheardInv, NoMessage
  <2>7. CountInv'
    BY <1>1, <2>1, <2>3, <2>4, Basics DEF CountInv
  <2>. QED
    BY <1>2, <2>6, <2>7
<1>8. CASE CutOff
  <2>1. /\ ~connected' /\ (me \in members' => me \in members)
        /\ GainsNothing /\ PartOf(mailbox'[me], mailbox[me])
        /\ requests'[me] \in {requests[me], <<>>}
    BY <1>8 DEF CutOff, connected
  <2>2. \A k : asking(k)' => asking(k)
    BY <2>1 DEF asking
  <2>3. NoMessage(mailbox[me]) => NoMessage(mailbox'[me])
    BY <2>1 DEF PartOf, NoMessage
  <2>4. UnheardInv'
    BY <1>1, <1>5, <2>1, <2>2, <2>3 DEF UnheardInv, NoMessage
  <2>5. CountInv'
    BY <1>1, <2>1 DEF CountInv
  <2>. QED
    BY <1>2, <2>4, <2>5
<1>. QED
  BY <1>3, <1>6, <1>7, <1>8

(* Sending a request: one more response is owed. *)
LEMMA SendingPreserves ==
  ASSUME ServiceInv, ServiceInv', ConnectionInv,
         phase \in {"connection", "listener"}, call = idle,
         NEW request \in Request \ {Malformed},
         phase = "connection" => request.kind # "Subscribe",
         Send(me, request), call' = request,
         UNCHANGED <<phase, subscriptions, responses, stream, misread>>
  PROVE  ConnectionInv'
<1>. USE DEF ConnectionInv
<1>1. /\ UNCHANGED <<members, broken, subscribers, mailbox>>
      /\ requests'[me] = Append(requests[me], request)
      /\ connected' = connected
  BY LibraryAssumption DEF Send, ServiceInv, connected
<1>2. /\ call' # idle /\ owed = 0 /\ owed' = 1
      /\ request.kind # "Malformed"
  BY RequestKinds DEF owed
<1>3. /\ requests[me] \in Seq(Request)
      /\ Len(requests'[me]) = Len(requests[me]) + 1
      /\ \A i \in DOMAIN requests'[me] :
           requests'[me][i] = request \/ (i \in DOMAIN requests[me] /\ requests'[me][i] = requests[me][i])
  BY <1>1, Basics, AppendProperties, LenProperties
<1>4. TypeOK'
  BY DEF TypeOK
<1>5. UnheardInv'
  <2>1. \A k : asking(k)' => asking(k) \/ request.kind = k
    BY <1>3 DEF asking
  <2>2. \A name : Subscribed(name)' <=> Subscribed(name)
    BY <1>1 DEF Subscribed
  <2>. QED
    BY <1>1, <1>2, <2>1, <2>2 DEF UnheardInv
<1>6. CountInv'
  BY <1>1, <1>2, <1>3, Basics DEF CountInv
<1>. QED
  BY <1>4, <1>5, <1>6

(* Steps that read nothing and send nothing. *)
LEMMA QuietPreserves ==
  ASSUME ServiceInv, ServiceInv', ConnectionInv,
         \/ New \/ IntoListener \/ SendFails \/ Drop
         \/ \E name \in ChannelName : Record(name)
  PROVE  ConnectionInv'
<1>. USE DEF ConnectionInv
<1>1. CASE New
  <2>1. /\ up /\ me \notin members /\ me \in Peer
        /\ requests'[me] = <<>> /\ mailbox'[me] = <<>>
        /\ subscribers' = subscribers
    BY <1>1, LibraryAssumption DEF New, Join, ServiceInv
  <2>2. /\ stream' = <<>> /\ misread' = 0 /\ call' = idle /\ owed' = 0
        /\ responses' = <<>> /\ phase' = "connection"
    BY <1>1 DEF New, UnheardInv, owed
  <2>3. TypeOK'
    BY <1>1 DEF New, TypeOK
  <2>4. UnheardInv'
    <3>1. \A name \in ChannelName : ~Subscribed(name)'
      BY <2>1 DEF Subscribed, ServiceInv
    <3>. QED
      BY <2>1, <2>2, <3>1 DEF UnheardInv, NoMessage, asking
  <2>5. CountInv'
    <3>1. count(stream', "response") = 0 /\ count(mailbox'[me], "response") = 0
      BY <2>1, <2>2, CountEmpty
    <3>. QED
      BY <2>1, <2>2, <3>1 DEF CountInv
  <2>. QED
    BY <2>3, <2>4, <2>5
<1>2. CASE IntoListener \/ SendFails \/ Drop
  <2>1. /\ UNCHANGED <<pubSubVars, subscriptions, responses, call, stream, misread>>
        /\ phase \in {"connection", "listener"} /\ phase' \in {"listener", "closed"}
        /\ call = idle
    BY <1>2 DEF IntoListener, SendFails, Drop, settingUp
  <2>. QED
    BY <2>1 DEF TypeOK, UnheardInv, CountInv, pubSubVars, owed, connected, asking
<1>3. ASSUME NEW name \in ChannelName, Record(name)
      PROVE  ConnectionInv'
  <2>1. /\ UNCHANGED <<pubSubVars, phase, responses, call, stream, misread>>
        /\ subscriptions' = Append(subscriptions, name)
    BY <1>3 DEF Record, executeSubscribe
  <2>2. subscriptions' \in Seq(ChannelName) /\ Len(subscriptions') = Len(subscriptions) + 1
    BY <2>1, AppendProperties DEF TypeOK
  <2>3. TypeOK'
    BY <2>1, <2>2, LenProperties DEF TypeOK
  <2>. QED
    BY <2>1, <2>3 DEF UnheardInv, CountInv, pubSubVars, owed, connected, asking, Subscribed
<1>. QED
  BY <1>1, <1>2, <1>3

(* A frame arrives: the count moves from the mailbox to the stream. *)
LEMMA ArrivingPreserves ==
  ASSUME ServiceInv, ServiceInv', ConnectionInv, Arrive
  PROVE  ConnectionInv'
<1>. USE DEF ConnectionInv
<1>. DEFINE f == Head(mailbox[me])
<1>1. /\ mailbox[me] # <<>> /\ mailbox[me] \in Seq(Frame) /\ stream \in Seq(Frame)
      /\ mailbox'[me] = Tail(mailbox[me]) /\ stream' = Append(stream, f)
      /\ UNCHANGED <<up, members, broken, subscribers, requests, owed, connected>>
      /\ UNCHANGED <<phase, subscriptions, responses, call, misread>>
      /\ connected
  BY LibraryAssumption DEF Arrive, Read, ServiceInv, TypeOK, owed, connected
<1>2. /\ f \in Frame /\ f = mailbox[me][1] /\ 1 \in DOMAIN mailbox[me]
      /\ Tail(mailbox[me]) \in Seq(Frame)
      /\ \A i \in DOMAIN Tail(mailbox[me]) :
           i + 1 \in DOMAIN mailbox[me] /\ Tail(mailbox[me])[i] = mailbox[me][i + 1]
  BY <1>1, HeadTailProperties, LenProperties
<1>3. /\ stream' \in Seq(Frame)
      /\ \A i \in DOMAIN stream' :
           stream'[i] = f \/ (i \in DOMAIN stream /\ stream'[i] = stream[i])
  BY <1>1, <1>2, AppendProperties, LenProperties
<1>4. count(mailbox[me], "response") + count(stream, "response")
        = count(mailbox'[me], "response") + count(stream', "response")
  <2>. DEFINE one == IF f.type = "response" THEN 1 ELSE 0
  <2>1. count(mailbox[me], "response") = count(Tail(mailbox[me]), "response") + one
    BY <1>1, CountTail
  <2>. HIDE DEF f
  <2>2. count(stream', "response") = count(stream, "response") + one
    BY <1>1, <1>2, CountAppend
  <2>3. count(stream, "response") \in Nat /\ count(Tail(mailbox[me]), "response") \in Nat
    BY <1>1, <1>2, CountType
  <2>. QED
    BY <1>1, <2>1, <2>2, <2>3
<1>5. TypeOK'
  BY <1>1, <1>3 DEF TypeOK
<1>6. UnheardInv'
  <2>1. NoMessage(mailbox[me]) /\ NoMessage(stream) => NoMessage(mailbox'[me]) /\ NoMessage(stream')
    BY <1>1, <1>2, <1>3 DEF NoMessage
  <2>2. phase # "new"
    BY <1>1 DEF UnheardInv, connected
  <2>. QED
    BY <1>1, <2>1, <2>2 DEF UnheardInv, asking, Subscribed
<1>7. CountInv'
  <2>1. count(stream', "response") \in Nat /\ count(mailbox'[me], "response") \in Nat
    BY <1>1, <1>2, <1>3, CountType
  <2>2. /\ Len(requests[me]) \in Nat /\ misread \in Nat /\ owed \in {0, 1}
        /\ count(stream, "response") \in Nat /\ count(mailbox[me], "response") \in Nat
    BY Basics
  <2>. HIDE DEF f
  <2>3. SUFFICES ASSUME phase \in {"connection", "listener"}
                 PROVE  Len(requests[me]) + count(mailbox'[me], "response")
                          + count(stream', "response") = misread + owed
    BY <1>1, <2>1, <2>2 DEF CountInv
  <2>4. Len(requests[me]) + count(mailbox[me], "response") + count(stream, "response")
          = misread + owed
    BY <1>1, <2>3 DEF CountInv
  <2>5. \A q, b, s, b1, s1, m \in Nat : b + s = b1 + s1 /\ q + b + s = m => q + b1 + s1 = m
    OBVIOUS
  <2>6. misread + owed \in Nat
    BY <2>2
  <2>. QED
    BY <1>4, <2>1, <2>2, <2>4, <2>5, <2>6
<1>. QED
  BY <1>5, <1>6, <1>7

(* The frame that is taken from the stream. *)
LEMMA HeadOfStream ==
  ASSUME ServiceInv, ConnectionInv, stream # <<>>, stream' = Tail(stream)
  PROVE  /\ Head(stream) \in Frame /\ stream' \in Seq(Frame)
         /\ 1 \in DOMAIN stream /\ Head(stream) = stream[1]
         /\ NoMessage(stream) => NoMessage(stream') /\ Head(stream).type # "message"
         /\ \A i \in DOMAIN stream' : \E j \in DOMAIN stream : stream'[i] = stream[j]
         /\ count(stream', "response") \in Nat
         /\ count(stream, "response")
              = count(stream', "response") + (IF isResponse(Head(stream)) THEN 1 ELSE 0)
<1>1. stream \in Seq(Frame)
  BY Basics DEF ConnectionInv
<1>2. /\ Head(stream) \in Frame /\ stream' \in Seq(Frame)
      /\ 1 \in DOMAIN stream /\ Head(stream) = stream[1]
      /\ \A i \in DOMAIN stream' : i + 1 \in DOMAIN stream /\ stream'[i] = stream[i + 1]
  BY <1>1, HeadTailProperties, LenProperties
<1>3. isResponse(Head(stream)) <=> Head(stream).type = "response"
  BY <1>2, FrameTypes
<1>4. count(stream, "response")
        = count(Tail(stream), "response") + (IF Head(stream).type = "response" THEN 1 ELSE 0)
  BY <1>1, CountTail
<1>5. count(stream', "response") \in Nat
  BY <1>2, CountType
<1>. QED
  BY <1>2, <1>3, <1>4, <1>5 DEF NoMessage

(* await_response takes a frame: the response it is owed, or a message     *)
(* that leaves the response behind.                                        *)
LEMMA AwaitingPreserves ==
  ASSUME ServiceInv, ServiceInv', ConnectionInv, AwaitResponse
  PROVE  ConnectionInv'
<1>. USE DEF ConnectionInv
<1>. DEFINE f == Head(stream)
<1>1. /\ stream # <<>> /\ stream' = Tail(stream)
      /\ call # idle /\ call' = idle /\ owed = 1 /\ owed' = 0
      /\ misread' = IF isResponse(f) THEN misread ELSE misread + 1
      /\ UNCHANGED <<up, members, broken, subscribers, requests, mailbox, subscriptions, connected>>
      /\ finish(f)
  BY DEF AwaitResponse, pubSubVars, owed, connected
<1>2. /\ f \in Frame /\ stream' \in Seq(Frame)
      /\ NoMessage(stream) => NoMessage(stream') /\ f.type # "message"
      /\ count(stream', "response") \in Nat
      /\ count(stream, "response") = count(stream', "response") + (IF isResponse(f) THEN 1 ELSE 0)
  BY <1>1, HeadOfStream
<1>3. /\ f.type = "response" \/ f.type = "message"
      /\ isResponse(f) <=> f.type = "response"
      /\ isResponse(f) => f.status \in {"Ok", "Error"}
  BY <1>2, FrameTypes
<1>. HIDE DEF f
<1>4. phase \in {"connection", "listener"}
  BY <1>1 DEF UnheardInv, TypeOK
<1>5. /\ phase' = phase \/ (phase = "listener" /\ phase' = "closed")
      /\ responses' \in Seq({"Ok", "Error"}) /\ Len(responses') <= Len(subscriptions)
      /\ phase # "listener" => responses' = responses
  <2>1. /\ responses \in Seq({"Ok", "Error"}) /\ Len(responses) <= Len(subscriptions)
        /\ Len(responses) \in Nat /\ Len(subscriptions) \in Nat
    BY LenProperties DEF TypeOK
  <2>2. CASE settingUp /\ isResponse(f)
    <3>1. responses' = Append(responses, f.status) /\ phase' = phase
      BY <1>1, <2>2 DEF finish, collect
    <3>2. responses' \in Seq({"Ok", "Error"}) /\ Len(responses') = Len(responses) + 1
      BY <1>3, <2>1, <2>2, <3>1, AppendProperties
    <3>. QED
      BY <2>1, <2>2, <3>1, <3>2 DEF settingUp
  <2>3. CASE ~(settingUp /\ isResponse(f))
    BY <1>1, <2>1, <2>3 DEF finish, collect, settingUp
  <2>. QED
    BY <2>2, <2>3
<1>6. TypeOK'
  BY <1>1, <1>2, <1>4, <1>5 DEF TypeOK
<1>7. UnheardInv'
  BY <1>1, <1>2, <1>3, <1>4, <1>5 DEF UnheardInv, asking, Subscribed
<1>8. CountInv'
  <2>1. count(stream', "response") + misread + 1 = count(stream, "response") + misread'
    BY <1>1, <1>2, Basics
  <2>2. /\ Len(requests[me]) \in Nat /\ misread \in Nat /\ misread' \in Nat
        /\ count(stream, "response") \in Nat /\ count(mailbox[me], "response") \in Nat
    BY <1>1, Basics
  <2>3. count(stream', "response") <= misread'
    BY <1>1, <1>2, <1>4, <2>1, <2>2 DEF CountInv
  <2>4. ASSUME connected
        PROVE  Len(requests[me]) + count(mailbox[me], "response") + count(stream', "response")
                 = misread'
    <3>1. Len(requests[me]) + count(mailbox[me], "response") + count(stream, "response")
            = misread + 1
      BY <1>1, <1>4, <2>4 DEF CountInv
    <3>2. count(stream', "response") \in Nat
      BY <1>2
    <3>. DEFINE q == Len(requests[me])
                b == count(mailbox[me], "response")
                s == count(stream, "response")
                r == count(stream', "response")
                m == misread'
    <3>3. /\ q \in Nat /\ b \in Nat /\ s \in Nat /\ r \in Nat /\ m \in Nat
          /\ q + b + s = misread + 1 /\ r + misread + 1 = s + m
      BY <2>1, <2>2, <3>1, <3>2
    <3>. HIDE DEF q, b, s, r, m
    <3>4. q + b + r = m
      BY <2>2, <3>3
    <3>. QED
      BY <3>4 DEF q, b, r, m
  <2>5. misread' + owed' = misread'
    BY <1>1, <2>2
  <2>. QED
    BY <1>1, <2>3, <2>4, <2>5 DEF CountInv
<1>. QED
  BY <1>6, <1>7, <1>8

(* The connection ends while a response is awaited: the stream is empty.   *)
LEMMA FailingPreserves ==
  ASSUME ServiceInv, ServiceInv', ConnectionInv, AwaitFails
  PROVE  ConnectionInv'
<1>. USE DEF ConnectionInv
<1>1. /\ UNCHANGED <<pubSubVars, subscriptions, responses, stream, misread>>
      /\ call' = idle /\ owed' = 0 /\ stream = <<>>
      /\ ~connected /\ connected' = connected
      /\ phase' = phase \/ (phase = "listener" /\ phase' = "closed")
  BY DEF AwaitFails, pubSubVars, owed, connected, settingUp
<1>2. TypeOK'
  BY <1>1 DEF TypeOK
<1>3. UnheardInv'
  BY <1>1 DEF UnheardInv, asking, Subscribed, pubSubVars
<1>4. CountInv'
  BY <1>1, CountEmpty, Basics DEF CountInv, pubSubVars
<1>. QED
  BY <1>2, <1>3, <1>4

(* The iterator takes a frame: a message, or a response left behind, of    *)
(* which there are no more than messages were misread.                     *)
LEMMA IteratingPreserves ==
  ASSUME ServiceInv, ServiceInv', ConnectionInv, NextMessage
  PROVE  ConnectionInv'
<1>. USE DEF ConnectionInv
<1>. DEFINE f == Head(stream)
<1>1. /\ phase = "listener" /\ stream # <<>> /\ stream' = Tail(stream)
      /\ call = idle /\ owed = 0 /\ owed' = 0
      /\ misread' = IF isResponse(f) THEN misread - 1 ELSE misread
      /\ UNCHANGED <<pubSubVars, phase, subscriptions, responses, call, connected>>
  BY DEF NextMessage, pubSubVars, owed, connected
<1>2. /\ stream' \in Seq(Frame)
      /\ count(stream', "response") \in Nat
      /\ count(stream, "response") = count(stream', "response") + (IF isResponse(f) THEN 1 ELSE 0)
  BY <1>1, HeadOfStream
<1>. HIDE DEF f
<1>3. /\ Len(requests[me]) \in Nat /\ misread \in Nat
      /\ count(stream, "response") \in Nat /\ count(mailbox[me], "response") \in Nat
  BY Basics
<1>4. count(stream, "response") <= misread
  BY <1>1, <1>3 DEF CountInv
<1>5. misread' \in Nat /\ count(stream', "response") <= misread'
  BY <1>1, <1>2, <1>3, <1>4
<1>6. TypeOK'
  BY <1>1, <1>2, <1>5 DEF TypeOK
<1>7. UnheardInv'
  BY <1>1 DEF UnheardInv, asking, pubSubVars
<1>8. CountInv'
  <2>1. count(stream', "response") + misread = count(stream, "response") + misread'
    BY <1>1, <1>2, <1>3
  <2>2. ASSUME connected
        PROVE  Len(requests[me]) + count(mailbox[me], "response") + count(stream', "response")
                 = misread'
    <3>1. Len(requests[me]) + count(mailbox[me], "response") + count(stream, "response")
            = misread
      BY <1>1, <1>3, <2>2 DEF CountInv
    <3>2. \A q, b, s, s1, m, m1 \in Nat : q + b + s = m /\ s1 + m = s + m1 => q + b + s1 = m1
      OBVIOUS
    <3>3. count(stream', "response") \in Nat
      BY <1>2
    <3>. QED
      BY <1>3, <1>5, <2>1, <3>1, <3>2, <3>3
  <2>3. misread' + owed' = misread'
    BY <1>1, <1>5
  <2>. QED
    BY <1>1, <1>5, <2>2, <2>3 DEF CountInv, pubSubVars
<1>. QED
  BY <1>6, <1>7, <1>8

LEMMA LibrarySends ==
  ASSUME ServiceInv, ServiceInv', ConnectionInv,
         \/ \E request \in MyTraffic : Execute(request)
         \/ \E name \in ChannelName : ListenerSubscribe(name)
  PROVE  ConnectionInv'
<1>1. ASSUME NEW request \in MyTraffic, Execute(request)
      PROVE  ConnectionInv'
  <2>1. request \in Request \ {Malformed}
    BY LibraryAssumption
  <2>. QED
    BY <1>1, <2>1, SendingPreserves DEF Execute
<1>2. ASSUME NEW name \in ChannelName, ListenerSubscribe(name)
      PROVE  ConnectionInv'
  <2>1. Subscription(name) \in Request \ {Malformed}
    BY DEF Subscription, Request, ChannelRequest, Malformed
  <2>. QED
    BY <1>2, <2>1, SendingPreserves DEF ListenerSubscribe
<1>. QED
  BY <1>1, <1>2

LEMMA LibraryStep ==
  ASSUME LibraryInv, [RsNext]_vars
  PROVE  LibraryInv'
<1>1. ServiceInv /\ ServiceInv' /\ ConnectionInv
  BY LibraryUsesService, ServiceStep DEF LibraryInv
<1>2. CASE UNCHANGED vars
  BY <1>1, <1>2 DEF LibraryInv, ConnectionInv, TypeOK, UnheardInv, CountInv, vars, libVars,
     pubSubVars, owed, connected, asking, Subscribed
<1>3. CASE Library
  BY <1>1, <1>3, QuietPreserves, LibrarySends, ArrivingPreserves, AwaitingPreserves,
     FailingPreserves, IteratingPreserves DEF Library, LibraryInv
<1>4. CASE Server /\ UNCHANGED libVars
  BY <1>1, <1>4, ServerPreserves DEF LibraryInv
<1>. QED
  BY <1>2, <1>3, <1>4 DEF RsNext

(* The inductive invariant of the library (lib.rs): before it listens only *)
(* the one response it waits for is on its way, and later the responses on *)
(* their way are those it waits for and those it took a message for.       *)
THEOREM LibraryInvariance == RsSpec => []LibraryInv
<1>1. RsInit => LibraryInv
  BY ServiceInit, ConnectionInit DEF RsInit, LibraryInv
<1>. QED
  BY <1>1, LibraryStep, PTL DEF RsSpec

(* Every variable of the library keeps its type; in particular `misread'   *)
(* never becomes negative, and into_listener collects no more responses    *)
(* than there are subscriptions.                                           *)
THEOREM LibraryTypes == RsSpec => []TypeOK
<1>1. LibraryInv => TypeOK
  BY DEF LibraryInv, ConnectionInv
<1>. QED
  BY <1>1, LibraryInvariance, PTL

LEMMA UnderWay ==
  ASSUME LibraryInv, NEW type
  PROVE  /\ count(underWay, type) = count(stream, type) + count(mailbox[me], type)
         /\ Len(underWay) = Len(stream) + Len(mailbox[me])
         /\ count(stream, type) \in Nat /\ count(mailbox[me], type) \in Nat
<1>1. stream \in Seq(Frame) /\ mailbox[me] \in Seq(Frame)
  BY Basics DEF LibraryInv, ConnectionInv
<1>2. count(underWay, type) = count(stream, type) + count(mailbox[me], type)
  BY <1>1, CountConcat DEF underWay
<1>3. Len(underWay) = Len(stream) + Len(mailbox[me])
  BY <1>1 DEF underWay
<1>4. count(stream, type) \in Nat /\ count(mailbox[me], type) \in Nat
  BY <1>1, CountType
<1>. QED
  BY <1>2, <1>3, <1>4

LEMMA NoMessageNoCount ==
  ASSUME NEW s \in Seq(Frame), NoMessage(s)
  PROVE  count(s, "message") = 0 /\ count(s, "response") = Len(s)
<1>1. \A i \in DOMAIN s : s[i].type = "response" /\ s[i].type # "message"
  <2>1. \A i \in DOMAIN s : s[i] \in Frame
    BY LenProperties
  <2>. QED
    BY <2>1, FrameTypes DEF NoMessage
<1>2. count(s, "message") = 0
  BY <1>1, CountType
<1>3. {i \in DOMAIN s : s[i].type = "response"} = 1..Len(s)
  BY <1>1, LenProperties
<1>4. Cardinality(1..Len(s)) = Len(s)
  <2>. DEFINE n == Len(s)
  <2>1. n \in Nat
    BY LenProperties
  <2>. HIDE DEF n
  <2>2. Cardinality(1..n) = IF 1 > n THEN 0 ELSE n - 1 + 1
    BY <2>1, FS_Interval
  <2>3. Cardinality(1..n) = n
    BY <2>1, <2>2
  <2>. QED
    BY <2>3 DEF n
<1>. QED
  BY <1>2, <1>3, <1>4 DEF count

(* Until a connection becomes a listener, nothing is on its way to it but  *)
(* one response for each request: the next frame is the response, because  *)
(* execute() keeps subscriptions from the server (lib.rs, execute).        *)
THEOREM OnlyResponsesBeforeListening == RsSpec => []NothingUnsolicited
<1>1. LibraryInv => NothingUnsolicited
  <2>1. SUFFICES ASSUME LibraryInv, phase = "connection"
                 PROVE  /\ count(underWay, "message") = 0
                        /\ misread = 0
                        /\ connected =>
                             Len(requests[me]) + Len(underWay) = (IF call = idle THEN 0 ELSE 1)
    BY DEF NothingUnsolicited
  <2>2. /\ stream \in Seq(Frame) /\ mailbox[me] \in Seq(Frame)
        /\ NoMessage(stream) /\ NoMessage(mailbox[me]) /\ misread = 0
        /\ Len(requests[me]) \in Nat /\ Len(stream) \in Nat /\ Len(mailbox[me]) \in Nat
        /\ owed \in {0, 1}
    BY <2>1, Basics, LenProperties DEF LibraryInv, ConnectionInv, UnheardInv
  <2>3. /\ count(stream, "message") = 0 /\ count(stream, "response") = Len(stream)
        /\ count(mailbox[me], "message") = 0
        /\ count(mailbox[me], "response") = Len(mailbox[me])
    BY <2>2, NoMessageNoCount
  <2>4. connected => Len(requests[me]) + Len(mailbox[me]) + Len(stream) = misread + owed
    BY <2>1, <2>3 DEF LibraryInv, ConnectionInv, CountInv
  <2>5. /\ count(underWay, "message") = 0
        /\ Len(underWay) = Len(stream) + Len(mailbox[me])
    BY <2>1, <2>3, UnderWay
  <2>6. connected => Len(requests[me]) + Len(underWay) = owed
    <3>. DEFINE q == Len(requests[me])
                b == Len(mailbox[me])
                s == Len(stream)
                o == owed
    <3>1. q \in Nat /\ b \in Nat /\ s \in Nat /\ o \in Nat
      BY <2>2
    <3>2. connected => q + b + s = misread + o
      BY <2>4
    <3>3. Len(underWay) = s + b
      BY <2>5
    <3>. HIDE DEF q, b, s, o
    <3>4. connected => q + (s + b) = o
      BY <2>2, <3>1, <3>2
    <3>. QED
      BY <3>3, <3>4 DEF q, o
  <2>. QED
    BY <2>2, <2>5, <2>6 DEF owed
<1>. QED
  BY <1>1, LibraryInvariance, PTL

(* Afterwards every message that was taken for a response leaves exactly   *)
(* one response behind (lib.rs, await_response and next).                  *)
THEOREM OutOfStepExactly == RsSpec => []OutOfStepByMisread
<1>1. LibraryInv => OutOfStepByMisread
  <2>1. SUFFICES ASSUME LibraryInv, phase = "listener", connected
                 PROVE  Len(requests[me]) + count(underWay, "response") = misread + owed
    BY DEF OutOfStepByMisread, owed
  <2>2. count(underWay, "response") = count(mailbox[me], "response") + count(stream, "response")
    BY <2>1, UnderWay
  <2>3. /\ Len(requests[me]) \in Nat
        /\ count(stream, "response") \in Nat /\ count(mailbox[me], "response") \in Nat
    BY <2>1, Basics DEF LibraryInv, ConnectionInv
  <2>4. Len(requests[me]) + count(mailbox[me], "response") + count(stream, "response")
          = misread + owed
    BY <2>1 DEF LibraryInv, ConnectionInv, CountInv
  <2>. QED
    BY <2>2, <2>3, <2>4
<1>. QED
  BY <1>1, LibraryInvariance, PTL

-----------------------------------------------------------------------------
(* What into_listener reports.                                             *)

(* The requests of the others are those they may send. *)
LEMMA OthersInit == ASSUME RsInit PROVE OthersInv
BY DEF RsInit, Init, nothing, OthersInv

LEMMA OthersStep ==
  ASSUME ServiceInv, OthersInv, [RsNext]_vars
  PROVE  OthersInv'
<1>1. ASSUME NEW p \in Peer \ {me}, requests'[p] \in {requests[p], <<>>}
      PROVE  requests'[p] \in Seq(OthersTraffic)
  <2>1. requests[p] \in Seq(OthersTraffic)
    BY DEF OthersInv
  <2>2. CASE requests'[p] = <<>>
    BY <2>2
  <2>. QED
    BY <1>1, <2>1, <2>2
<1>2. CASE UNCHANGED requests
  BY <1>2 DEF OthersInv
<1>3. ASSUME NEW request, Send(me, request)
      PROVE  OthersInv'
  BY <1>3 DEF Send, OthersInv, ServiceInv
<1>4. ASSUME NEW p \in Peer, NEW kind, Take(p, kind)
      PROVE  OthersInv'
  <2>1. /\ requests[p] # <<>> /\ requests'[p] = Tail(requests[p])
        /\ \A q \in Peer \ {p} : requests'[q] = requests[q]
    BY <1>4, TakeTyped DEF Take
  <2>2. p # me => Tail(requests[p]) \in Seq(OthersTraffic)
    BY <2>1, HeadTailProperties DEF OthersInv
  <2>. QED
    BY <2>1, <2>2 DEF OthersInv
<1>5. ASSUME NEW p \in Peer, Serve(p)
      PROVE  OthersInv'
  BY <1>4, <1>5 DEF Serve, Subscribe, Unsubscribe, CreateChannel, DeleteChannel, Publish,
     ListChannels, Reject
<1>6. ASSUME NEW p \in Peer, Leave(p) \/ Break(p)
      PROVE  OthersInv'
  <2>1. \A q \in Peer : requests'[q] \in {requests[q], <<>>}
    BY <1>6 DEF Leave, Break, ServiceInv
  <2>. QED
    BY <1>1, <2>1 DEF OthersInv
<1>7. CASE Crash
  BY <1>7 DEF Crash, nothing, OthersInv
<1>8. ASSUME NEW p \in Peer \ {me}, Others(p)
      PROVE  OthersInv'
  <2>1. ASSUME NEW request \in OthersTraffic, Send(p, request)
        PROVE  OthersInv'
    <3>1. Append(requests[p], request) \in Seq(OthersTraffic)
      BY AppendProperties DEF OthersInv
    <3>. QED
      BY <2>1, <3>1 DEF Send, OthersInv, ServiceInv
  <2>. QED
    BY <1>2, <1>8, <2>1 DEF Others, Join, Read
<1>9. CASE Library
  BY <1>2, <1>3, <1>9 DEF Library, New, Join, IntoListener, SendFails, Drop, Record,
     executeSubscribe, ListenerSubscribe, Execute, Arrive, Read, AwaitResponse, AwaitFails,
     NextMessage, pubSubVars
<1>10. CASE Server
  BY <1>5, <1>6, <1>7, <1>8, <1>10 DEF Server
<1>11. CASE UNCHANGED vars
  BY <1>2, <1>11 DEF vars, pubSubVars
<1>. QED
  BY <1>9, <1>10, <1>11 DEF RsNext

(* Then no step of the server takes a subscription away while me stays.    *)
LEMMA SubscriptionsLast ==
  ASSUME ServiceInv, ~asking("Malformed"), OthersInv, OthersDeleteNothing, Server
  PROVE  (Overheard /\ LosesNothing) \/ Answered \/ CutOff
<1>1. ASSUME NEW p \in Peer \ {me}, requests[p] # <<>>
      PROVE  Head(requests[p]).kind # "DeleteChannel"
  <2>1. Head(requests[p]) \in OthersTraffic
    BY <1>1, HeadTailProperties DEF OthersInv
  <2>. QED
    BY <2>1 DEF OthersDeleteNothing
<1>. QED
  BY <1>1, ServerShapes

(* The invariant of into_listener, after a step that leaves the library    *)
(* alone.                                                                  *)
LEMMA ServerKeepsSetup ==
  ASSUME ServiceInv, ConnectionInv, OthersInv, OthersDeleteNothing, SetupInv,
         Server, UNCHANGED libVars
  PROVE  SetupInv'
<1>1. UNCHANGED <<phase, subscriptions, responses, call, stream, misread, settingUp>>
  BY DEF libVars, settingUp
<1>2. /\ mailbox[me] \in Seq(Frame) /\ requests[me] \in Seq(Request)
  BY Basics DEF ConnectionInv
<1>3. \A name : Subscribed(name)' <=> SubscribedAfter(name)
  BY DEF Subscribed, SubscribedAfter
<1>4. ASSUME LosesNothing, me \in members' => me \in members
      PROVE  OkMeansSubscribed'
  BY <1>1, <1>3, <1>4 DEF OkMeansSubscribed, SetupInv, LosesNothing, Subscribed, exists
<1>5. ASSUME LosesNothing, me \in members' => me \in members, OkUnread,
             \A i \in DOMAIN mailbox'[me] :
               mailbox'[me][i].type = "response" /\ mailbox'[me][i].status = "Ok"
                 => \/ \E j \in DOMAIN mailbox[me] : mailbox'[me][i] = mailbox[me][j]
                    \/ SubscribedAfter(call.channel)
      PROVE  OkUnread'
  <2>1. SUFFICES ASSUME me \in members'
                 PROVE  /\ \A i \in DOMAIN mailbox'[me] :
                             mailbox'[me][i].type = "response" /\ mailbox'[me][i].status = "Ok"
                               => Subscribed(call.channel)'
                        /\ \A i \in DOMAIN stream :
                             stream[i].type = "response" /\ stream[i].status = "Ok"
                               => Subscribed(call.channel)'
    BY <1>1 DEF OkUnread
  <2>2. Subscribed(call.channel) => Subscribed(call.channel)'
    BY <1>1, <1>3, <1>5 DEF LosesNothing
  <2>3. SubscribedAfter(call.channel) => Subscribed(call.channel)'
    BY <1>1, <1>3
  <2>. QED
    BY <1>5, <2>1, <2>2, <2>3 DEF OkUnread
<1>6. CASE Overheard /\ LosesNothing
  <2>1. /\ requests'[me] = requests[me] /\ connected' = connected
        /\ (me \in members' => me \in members) /\ MayBeSent(mailbox[me], mailbox'[me])
    BY <1>6 DEF Overheard, Stays, connected
  <2>2. \A i \in DOMAIN mailbox'[me] :
          mailbox'[me][i].type = "response"
            => \E j \in DOMAIN mailbox[me] : mailbox'[me][i] = mailbox[me][j]
    <3>1. ASSUME NEW f \in Frame, f.type = "message", mailbox'[me] = Append(mailbox[me], f),
                 NEW i \in DOMAIN mailbox'[me], mailbox'[me][i].type = "response"
          PROVE  \E j \in DOMAIN mailbox[me] : mailbox'[me][i] = mailbox[me][j]
      BY <1>2, <3>1, AppendProperties, LenProperties
    <3>. QED
      BY <2>1, <3>1 DEF MayBeSent
  <2>3. OkUnread => OkUnread'
    BY <1>5, <1>6, <2>1, <2>2
  <2>4. OkMeansSubscribed'
    BY <1>4, <1>6, <2>1
  <2>. QED
    BY <1>1, <2>1, <2>3, <2>4 DEF SetupInv, onlySubscribing, Subscription
<1>7. CASE Answered
  <2>1. /\ requests[me] # <<>> /\ requests'[me] = Tail(requests[me])
        /\ connected' = connected /\ (me \in members' => me \in members)
        /\ me \in members
    BY <1>7 DEF Answered, Stays, connected
  <2>2. /\ 1 \in DOMAIN requests[me] /\ Head(requests[me]) = requests[me][1]
        /\ \A i \in DOMAIN requests'[me] :
             i + 1 \in DOMAIN requests[me] /\ requests'[me][i] = requests[me][i + 1]
    BY <1>2, <2>1, HeadTailProperties, LenProperties
  <2>3. onlySubscribing => onlySubscribing'
    BY <2>2 DEF onlySubscribing
  <2>4. CASE phase = "listener" /\ onlySubscribing
    <3>1. Head(requests[me]).kind = "Subscribe"
      BY <2>2, <2>4 DEF onlySubscribing
    <3>2. PICK f \in Frame, old \in Seq(Frame) :
            /\ MayBeSent(mailbox[me], old) /\ mailbox'[me] = Append(old, f)
            /\ LosesNothing
            /\ f.status = "Ok" => SubscribedAfter(Head(requests[me]).channel)
      BY <1>7, <3>1 DEF Answered
    <3>3. OkMeansSubscribed'
      BY <1>4, <2>1, <3>2
    <3>4. ASSUME settingUp, call # idle
          PROVE  OkUnread'
      <4>1. Head(requests[me]) = call /\ OkUnread
        BY <2>2, <3>4 DEF SetupInv
      <4>2. ASSUME NEW i \in DOMAIN mailbox'[me],
                   mailbox'[me][i].type = "response", mailbox'[me][i].status = "Ok"
            PROVE  \/ \E j \in DOMAIN mailbox[me] : mailbox'[me][i] = mailbox[me][j]
                   \/ SubscribedAfter(call.channel)
        <5>1. mailbox'[me][i] = f \/ \E j \in DOMAIN old : mailbox'[me][i] = old[j]
          BY <3>2, <4>2, AppendProperties, LenProperties
        <5>2. CASE mailbox'[me][i] = f
          BY <3>2, <4>1, <4>2, <5>2
        <5>3. ASSUME NEW j \in DOMAIN old, mailbox'[me][i] = old[j]
              PROVE  \E k \in DOMAIN mailbox[me] : mailbox'[me][i] = mailbox[me][k]
          <6>1. CASE old = mailbox[me]
            BY <5>3, <6>1
          <6>2. CASE old # mailbox[me]
            <7>1. PICK g \in Frame : g.type = "message" /\ old = Append(mailbox[me], g)
              BY <3>2, <6>2 DEF MayBeSent
            <7>. QED
              BY <1>2, <4>2, <5>3, <7>1, AppendProperties, LenProperties
          <6>. QED
            BY <6>1, <6>2
        <5>. QED
          BY <5>1, <5>2, <5>3
      <4>. QED
        BY <1>5, <2>1, <3>2, <4>1, <4>2
    <3>. QED
      BY <1>1, <2>2, <2>3, <2>4, <3>3, <3>4 DEF SetupInv
  <2>5. CASE phase = "listener" /\ ~onlySubscribing
    <3>1. responses = <<>> /\ call = idle /\ ~connected
      BY <2>5 DEF SetupInv
    <3>2. OkMeansSubscribed'
      BY <1>1, <3>1 DEF OkMeansSubscribed
    <3>. QED
      BY <1>1, <2>1, <3>1, <3>2 DEF SetupInv
  <2>6. CASE phase # "listener"
    BY <1>1, <2>6 DEF SetupInv, OkMeansSubscribed, settingUp
  <2>. QED
    BY <2>4, <2>5, <2>6
<1>8. CASE CutOff
  <2>1. /\ ~connected' /\ (me \in members' => me \in members /\ LosesNothing)
        /\ requests'[me] \in {requests[me], <<>>}
        /\ PartOf(mailbox'[me], mailbox[me])
    BY <1>8 DEF CutOff, connected
  <2>2. CASE me \in members'
    <3>1. OkUnread => OkUnread'
      BY <1>5, <2>1, <2>2 DEF PartOf
    <3>2. OkMeansSubscribed'
      BY <1>4, <2>1, <2>2
    <3>. QED
      BY <1>1, <2>1, <3>1, <3>2 DEF SetupInv, onlySubscribing
  <2>3. CASE me \notin members'
    <3>1. OkUnread' /\ OkMeansSubscribed'
      BY <2>3 DEF OkUnread, OkMeansSubscribed
    <3>. QED
      BY <1>1, <2>1, <3>1 DEF SetupInv, onlySubscribing
  <2>. QED
    BY <2>2, <2>3
<1>. QED
  BY <1>6, <1>7, <1>8, SubscriptionsLast DEF ConnectionInv, UnheardInv

(* Outside of a listener there is nothing to show. *)
LEMMA NoListener ==
  ASSUME phase' # "listener"
  PROVE  SetupInv'
BY DEF SetupInv, settingUp, OkMeansSubscribed

(* A connection that becomes a listener awaits nothing and is owed nothing. *)
LEMMA BecomingListener ==
  ASSUME ServiceInv, ConnectionInv, IntoListener
  PROVE  SetupInv'
<1>1. /\ UNCHANGED <<pubSubVars, subscriptions, responses, call, stream, misread>>
      /\ phase = "connection" /\ call = idle /\ responses = <<>> /\ misread = 0
      /\ owed = 0
  BY DEF IntoListener, ConnectionInv, UnheardInv, owed
<1>2. connected => onlySubscribing
  <2>1. /\ Len(requests[me]) \in Nat /\ requests[me] \in Seq(Request)
        /\ count(stream, "response") \in Nat /\ count(mailbox[me], "response") \in Nat
    BY Basics DEF ConnectionInv
  <2>2. connected =>
          Len(requests[me]) + count(mailbox[me], "response") + count(stream, "response") = 0
    BY <1>1 DEF ConnectionInv, CountInv
  <2>3. connected => Len(requests[me]) = 0
    BY <2>1, <2>2
  <2>4. connected => DOMAIN requests[me] = {}
    BY <2>1, <2>3
  <2>. QED
    BY <2>4 DEF onlySubscribing
<1>3. onlySubscribing' <=> onlySubscribing
  BY <1>1 DEF onlySubscribing, pubSubVars
<1>. QED
  BY <1>1, <1>2, <1>3 DEF SetupInv, OkMeansSubscribed, pubSubVars, connected

(* Nothing is owed when the next name is asked for, so that what comes     *)
(* will be about that name.                                                *)
LEMMA SubscribingKeepsSetup ==
  ASSUME ServiceInv, ConnectionInv, SetupInv,
         NEW name \in ChannelName, ListenerSubscribe(name)
  PROVE  SetupInv'
<1>1. /\ UNCHANGED <<up, members, broken, subscribers, mailbox>>
      /\ UNCHANGED <<phase, subscriptions, responses, stream, misread, settingUp, connected>>
      /\ phase = "listener" /\ call = idle /\ call' = Subscription(name) /\ connected
      /\ requests'[me] = Append(requests[me], Subscription(name))
      /\ settingUp => name = subscriptions[Len(responses) + 1]
  BY LibraryAssumption DEF ListenerSubscribe, Send, ServiceInv, settingUp, connected
<1>2. /\ requests[me] \in Seq(Request) /\ Len(requests[me]) \in Nat
      /\ mailbox[me] \in Seq(Frame) /\ stream \in Seq(Frame)
      /\ count(stream, "response") \in Nat /\ count(mailbox[me], "response") \in Nat
  BY Basics DEF ConnectionInv
<1>3. Subscription(name) \in Request
  BY DEF Subscription, Request, ChannelRequest
<1>4. \A i \in DOMAIN requests'[me] :
        \/ requests'[me][i] = Subscription(name)
        \/ i \in DOMAIN requests[me] /\ requests'[me][i] = requests[me][i]
  BY <1>1, <1>2, <1>3, AppendProperties, LenProperties
<1>5. onlySubscribing'
  <2>1. onlySubscribing
    BY <1>1 DEF SetupInv
  <2>. QED
    BY <1>4, <2>1 DEF onlySubscribing, Subscription
<1>6. ASSUME settingUp
      PROVE  /\ \A i \in DOMAIN requests'[me] : requests'[me][i] = call'
             /\ OkUnread'
  <2>1. owed = 0 /\ misread = 0
    BY <1>1, <1>6 DEF owed, SetupInv
  <2>2. Len(requests[me]) + count(mailbox[me], "response") + count(stream, "response") = 0
    BY <1>1, <2>1 DEF ConnectionInv, CountInv
  <2>3. /\ Len(requests[me]) = 0
        /\ count(mailbox[me], "response") = 0 /\ count(stream, "response") = 0
    BY <1>2, <2>2
  <2>4. DOMAIN requests[me] = {}
    BY <1>2, <2>3
  <2>5. /\ \A i \in DOMAIN mailbox[me] : mailbox[me][i].type # "response"
        /\ \A i \in DOMAIN stream : stream[i].type # "response"
    BY <1>2, <2>3, CountType
  <2>. QED
    BY <1>1, <1>4, <2>4, <2>5 DEF OkUnread
<1>. QED
  BY <1>1, <1>5, <1>6 DEF SetupInv, OkMeansSubscribed, exists

LEMMA ArrivingKeepsSetup ==
  ASSUME ServiceInv, ConnectionInv, SetupInv, Arrive
  PROVE  SetupInv'
<1>. DEFINE f == Head(mailbox[me])
<1>1. /\ mailbox[me] # <<>> /\ mailbox[me] \in Seq(Frame) /\ stream \in Seq(Frame)
      /\ mailbox'[me] = Tail(mailbox[me]) /\ stream' = Append(stream, f)
      /\ UNCHANGED <<up, members, broken, subscribers, requests, connected>>
      /\ UNCHANGED <<phase, subscriptions, responses, call, misread, settingUp>>
  BY LibraryAssumption DEF Arrive, Read, ServiceInv, ConnectionInv, TypeOK, connected, settingUp
<1>2. /\ f \in Frame /\ f = mailbox[me][1] /\ 1 \in DOMAIN mailbox[me]
      /\ \A i \in DOMAIN mailbox'[me] :
           i + 1 \in DOMAIN mailbox[me] /\ mailbox'[me][i] = mailbox[me][i + 1]
  BY <1>1, HeadTailProperties, LenProperties
<1>3. \A i \in DOMAIN stream' :
        stream'[i] = f \/ (i \in DOMAIN stream /\ stream'[i] = stream[i])
  BY <1>1, <1>2, AppendProperties, LenProperties
<1>4. OkUnread => OkUnread'
  <2>1. Subscribed(call.channel)' <=> Subscribed(call.channel)
    BY <1>1 DEF Subscribed
  <2>2. SUFFICES ASSUME OkUnread, me \in members
                 PROVE  /\ \A i \in DOMAIN mailbox'[me] :
                             mailbox'[me][i].type = "response" /\ mailbox'[me][i].status = "Ok"
                               => Subscribed(call.channel)
                        /\ \A i \in DOMAIN stream' :
                             stream'[i].type = "response" /\ stream'[i].status = "Ok"
                               => Subscribed(call.channel)
    BY <1>1, <2>1 DEF OkUnread
  <2>3. \A i \in DOMAIN mailbox[me] :
          mailbox[me][i].type = "response" /\ mailbox[me][i].status = "Ok"
            => Subscribed(call.channel)
    BY <2>2 DEF OkUnread
  <2>4. \A i \in DOMAIN stream :
          stream[i].type = "response" /\ stream[i].status = "Ok"
            => Subscribed(call.channel)
    BY <2>2 DEF OkUnread
  <2>. HIDE DEF f
  <2>. QED
    BY <1>2, <1>3, <2>3, <2>4
<1>. QED
  BY <1>1, <1>4 DEF SetupInv, onlySubscribing, OkMeansSubscribed, exists

(* What is collected as Ok answered the name that it is collected for.     *)
LEMMA AwaitingKeepsSetup ==
  ASSUME ServiceInv, ConnectionInv, SetupInv, AwaitResponse
  PROVE  SetupInv'
<1>. DEFINE f == Head(stream)
            n == Len(responses)
<1>1. /\ stream # <<>> /\ call # idle /\ call' = idle
      /\ misread' = IF isResponse(f) THEN misread ELSE misread + 1
      /\ UNCHANGED <<up, members, broken, subscribers, requests, mailbox, subscriptions, connected>>
      /\ finish(f)
  BY DEF AwaitResponse, pubSubVars, connected
<1>2. /\ stream \in Seq(Frame) /\ f \in Frame /\ 1 \in DOMAIN stream /\ f = stream[1]
      /\ responses \in Seq({"Ok", "Error"}) /\ n \in Nat
  BY <1>1, HeadTailProperties, LenProperties DEF ConnectionInv, TypeOK
<1>3. CASE phase' # "listener"
  BY <1>3, NoListener
<1>4. CASE phase' = "listener" /\ ~settingUp
  <2>1. phase = "listener" /\ UNCHANGED <<phase, responses>> /\ ~settingUp'
    BY <1>1, <1>4 DEF finish, settingUp
  <2>2. onlySubscribing
    BY <1>1, <2>1 DEF SetupInv
  <2>. QED
    BY <1>1, <2>1, <2>2 DEF SetupInv, onlySubscribing, OkMeansSubscribed, exists
<1>5. CASE phase' = "listener" /\ settingUp
  <2>1. /\ phase = "listener" /\ isResponse(f)
        /\ responses' = Append(responses, f.status)
    BY <1>1, <1>5 DEF finish, collect, settingUp
  <2>2. f.type = "response" /\ f.status \in {"Ok", "Error"}
    BY <1>2, <2>1, FrameTypes
  <2>3. misread' = 0 /\ onlySubscribing'
    BY <1>1, <1>5, <2>1 DEF SetupInv, onlySubscribing
  <2>4. /\ Len(responses') = n + 1 /\ responses'[n + 1] = f.status
        /\ \A i \in 1..n : responses'[i] = responses[i]
    BY <1>2, <2>1, <2>2, AppendProperties
  <2>5. f.status = "Ok" /\ me \in members => Subscribed(subscriptions[n + 1])
    <3>1. OkUnread /\ call = Subscription(subscriptions[n + 1])
      BY <1>1, <1>5 DEF SetupInv
    <3>2. f.status = "Ok" /\ me \in members => Subscribed(call.channel)
      BY <1>2, <2>2, <3>1 DEF OkUnread
    <3>. QED
      BY <3>1, <3>2 DEF Subscription
  <2>6. OkMeansSubscribed'
    <3>1. SUFFICES ASSUME me \in members, NEW i \in 1..(n + 1), responses'[i] = "Ok"
                   PROVE  Subscribed(subscriptions[i])
      BY <1>1, <2>4 DEF OkMeansSubscribed, Subscribed, exists
    <3>2. CASE i = n + 1
      BY <2>4, <2>5, <3>1, <3>2
    <3>3. CASE i # n + 1
      <4>1. i \in 1..n /\ responses[i] = "Ok"
        BY <1>2, <2>4, <3>1, <3>3
      <4>. QED
        BY <2>1, <3>1, <4>1 DEF SetupInv, OkMeansSubscribed, Subscribed, exists
    <3>. QED
      BY <3>2, <3>3
  <2>. QED
    BY <1>1, <2>3, <2>6 DEF SetupInv
<1>. QED
  BY <1>3, <1>4, <1>5

LEMMA OtherStepsKeepSetup ==
  ASSUME ServiceInv, ConnectionInv, SetupInv, AwaitFails \/ NextMessage
  PROVE  SetupInv'
<1>1. CASE AwaitFails
  <2>1. /\ UNCHANGED <<pubSubVars, subscriptions, responses, misread>>
        /\ call' = idle
        /\ (phase' = phase /\ ~settingUp) \/ phase' # "listener"
    BY <1>1 DEF AwaitFails
  <2>2. CASE phase' = phase /\ ~settingUp
    BY <1>1, <2>1, <2>2 DEF SetupInv, settingUp, onlySubscribing, OkMeansSubscribed, exists,
       pubSubVars, AwaitFails
  <2>. QED
    BY <2>1, <2>2, NoListener
<1>2. CASE NextMessage
  <2>1. /\ UNCHANGED <<pubSubVars, phase, subscriptions, responses, call>>
        /\ ~settingUp /\ ~settingUp' /\ connected' = connected
    BY <1>2 DEF NextMessage, settingUp, pubSubVars, connected
  <2>. QED
    BY <2>1 DEF SetupInv, onlySubscribing, OkMeansSubscribed, exists, pubSubVars
<1>. QED
  BY <1>1, <1>2

LEMMA SetupStep ==
  ASSUME OthersDeleteNothing, LibraryInv, OthersInv, SetupInv, [RsNext]_vars
  PROVE  SetupInv'
<1>1. ServiceInv /\ ConnectionInv
  BY DEF LibraryInv
<1>2. CASE UNCHANGED vars
  BY <1>2 DEF vars, libVars, pubSubVars, SetupInv, settingUp, onlySubscribing, connected,
     OkUnread, OkMeansSubscribed, Subscribed, exists
<1>3. CASE New \/ SendFails \/ Drop
  <2>1. phase' # "listener"
    BY <1>3 DEF New, SendFails, Drop
  <2>. QED
    BY <2>1, NoListener
<1>4. ASSUME NEW name, Record(name)
      PROVE  SetupInv'
  <2>1. phase' # "listener"
    BY <1>4 DEF Record
  <2>. QED
    BY <2>1, NoListener
<1>5. ASSUME NEW request, Execute(request)
      PROVE  SetupInv'
  <2>1. phase' # "listener"
    BY <1>5 DEF Execute
  <2>. QED
    BY <2>1, NoListener
<1>6. CASE Server /\ UNCHANGED libVars
  BY <1>1, <1>6, ServerKeepsSetup
<1>. QED
  BY <1>1, <1>2, <1>3, <1>4, <1>5, <1>6, BecomingListener, SubscribingKeepsSetup,
     ArrivingKeepsSetup, AwaitingKeepsSetup, OtherStepsKeepSetup DEF RsNext, Library

(* When nobody else deletes channels, every name into_listener reports as  *)
(* Ok is one the server has this connection subscribed to, for as long as  *)
(* it is a listener and a member: the response collected for a name is the *)
(* response to that name (lib.rs, into_listener).                          *)
THEOREM OkIsSubscribed ==
  ASSUME OthersDeleteNothing
  PROVE  RsSpec => []OkMeansSubscribed
<1>1. RsInit => SetupInv
  BY DEF RsInit, SetupInv, settingUp, OkMeansSubscribed
<1>2. LibraryInv /\ OthersInv /\ [RsNext]_vars => OthersInv'
  BY OthersStep DEF LibraryInv
<1>3. LibraryInv /\ OthersInv /\ SetupInv /\ [RsNext]_vars => SetupInv'
  BY SetupStep
<1>4. SetupInv => OkMeansSubscribed
  BY DEF SetupInv
<1>. QED
  BY <1>1, <1>2, <1>3, <1>4, OthersInit, LibraryInvariance, PTL DEF RsSpec
=============================================================================
