------------------------------ MODULE PubHubRs ------------------------------
(***************************************************************************)
(* The client library pubhub-rs on one connection to the server of PubSub, *)
(* among other peers.  A PubHubConnection sends a request and waits for    *)
(* the next frame; what it is asked to subscribe to it only records.       *)
(* into_listener turns it into a PubHubListener, which sends the recorded  *)
(* subscriptions one after the other and then yields frame after frame.    *)
(***************************************************************************)
EXTENDS PubSub, Integers

CONSTANTS
  me,                \* the library's connection
  MyTraffic,         \* what the program over the library executes
  OthersTraffic,     \* what the other peers send
  MaxSubscriptions,  \* bound: subscriptions recorded by the program
  MaxMail,           \* bound: the others wait while so many frames are unread
  MaxMisread         \* bound: the program stops subscribing when so far out of step

ASSUME LibraryAssumption ==
  /\ me \in Peer
  /\ MyTraffic \subseteq Request \ {Malformed}    \* what to_json writes
  /\ OthersTraffic \subseteq Request
  /\ MaxSubscriptions \in Nat /\ MaxMail \in Nat /\ MaxMisread \in Nat

VARIABLES
  phase,          \* the object that owns the socket, if any
  subscriptions,  \* PubHubConnection::subscriptions
  responses,      \* what into_listener has collected
  call,           \* the request whose response is awaited, or idle
  stream,         \* frames that have arrived at the library's socket
  misread         \* messages taken for a response less responses taken late

libVars == <<phase, subscriptions, responses, call, stream, misread>>
vars    == <<pubSubVars, libVars>>

idle == [kind |-> "none"]

connected == me \in members \ broken
(* into_listener has not returned yet. *)
settingUp == phase = "listener" /\ Len(responses) < Len(subscriptions)

RsInit ==
  /\ Init
  /\ phase = "new"
  /\ subscriptions = <<>> /\ responses = <<>> /\ stream = <<>>
  /\ call = idle
  /\ misread = 0

TypeOK ==
  /\ phase \in {"new", "connection", "listener", "closed"}
  /\ subscriptions \in Seq(ChannelName)
  /\ responses \in Seq({"Ok", "Error"}) /\ Len(responses) <= Len(subscriptions)
  /\ call \in Request \cup {idle}
  /\ stream \in Seq(Frame)
  /\ misread \in Nat

-----------------------------------------------------------------------------
(* The program calls the library.                                          *)

New ==
  /\ phase = "new" /\ phase' = "connection"
  /\ Join(me)
  /\ UNCHANGED <<subscriptions, responses, call, stream, misread>>

Subscription(name) == [kind |-> "Subscribe", channel |-> name]

(* execute() of a Subscribe: answered Ok, and nothing is sent. *)
executeSubscribe_Sent(name) ==
  /\ Send(me, Subscription(name))
  /\ call' = Subscription(name)
  /\ UNCHANGED subscriptions
executeSubscribe(name) ==
  /\ subscriptions' = Append(subscriptions, name)
  /\ UNCHANGED <<pubSubVars, call>>

Record(name) ==
  /\ phase = "connection" /\ call = idle /\ up
  /\ Len(subscriptions) < MaxSubscriptions
  /\ executeSubscribe(name)
  /\ UNCHANGED <<phase, responses, stream, misread>>

Execute(request) ==
  /\ phase = "connection" /\ call = idle
  /\ request.kind # "Subscribe"
  /\ Send(me, request)
  /\ call' = request
  /\ UNCHANGED <<phase, subscriptions, responses, stream, misread>>

IntoListener ==
  /\ phase = "connection" /\ call = idle /\ up
  /\ phase' = "listener"
  /\ UNCHANGED <<pubSubVars, subscriptions, responses, call, stream, misread>>

(* PubHubListener::subscribe, by into_listener for the next recorded name  *)
(* and later by the program for any name.                                  *)
ListenerSubscribe(name) ==
  /\ phase = "listener" /\ call = idle
  /\ settingUp => name = subscriptions[Len(responses) + 1]
  /\ Send(me, Subscription(name))
  /\ call' = Subscription(name)
  /\ UNCHANGED <<phase, subscriptions, responses, stream, misread>>

(* Sending on a connection that is gone fails and ends into_listener.      *)
SendFails ==
  /\ settingUp /\ call = idle /\ ~connected
  /\ phase' = "closed"
  /\ UNCHANGED <<pubSubVars, subscriptions, responses, call, stream, misread>>

(* The socket is closed; the server notices and lets `me' leave. *)
Drop ==
  /\ phase \in {"connection", "listener"} /\ call = idle /\ ~settingUp /\ up
  /\ phase' = "closed"
  /\ UNCHANGED <<pubSubVars, subscriptions, responses, call, stream, misread>>

-----------------------------------------------------------------------------
(* Frames.                                                                 *)

Arrive ==
  /\ Read(me)
  /\ stream' = Append(stream, Head(mailbox[me]))
  /\ UNCHANGED <<phase, subscriptions, responses, call, misread>>

(* Response::try_from: a frame without a "status" is an error. *)
isResponse(frame) == frame.type = "response"

(* await_response() takes the next frame, whatever it is.  An error ends   *)
(* into_listener, which drops the socket.                                  *)
collect_Errors(frame) ==
  /\ responses' = Append(responses, IF isResponse(frame) THEN frame.status ELSE "Ok")
  /\ UNCHANGED phase
collect(frame) ==
  IF isResponse(frame)
  THEN responses' = Append(responses, frame.status) /\ UNCHANGED phase
  ELSE phase' = "closed" /\ UNCHANGED responses

(* Only into_listener keeps what it is answered. *)
finish_Always(frame) == collect(frame)
finish(frame) ==
  IF settingUp THEN collect(frame) ELSE UNCHANGED <<phase, responses>>

AwaitResponse ==
  /\ call # idle /\ stream # <<>>
  /\ call' = idle
  /\ stream' = Tail(stream)
  /\ misread' = IF isResponse(Head(stream)) THEN misread ELSE misread + 1
  /\ finish(Head(stream))
  /\ UNCHANGED <<pubSubVars, subscriptions>>

(* read_exact fails once the connection is gone and the stream is empty. *)
AwaitFails ==
  /\ call # idle /\ stream = <<>> /\ ~connected
  /\ call' = idle
  /\ phase' = IF settingUp THEN "closed" ELSE phase
  /\ UNCHANGED <<pubSubVars, subscriptions, responses, stream, misread>>

(* The iterator yields the next frame, whatever it is. *)
NextMessage ==
  /\ phase = "listener" /\ ~settingUp /\ call = idle
  /\ stream # <<>>
  /\ stream' = Tail(stream)
  /\ misread' = IF isResponse(Head(stream)) THEN misread - 1 ELSE misread
  /\ UNCHANGED <<pubSubVars, phase, subscriptions, responses, call>>

-----------------------------------------------------------------------------
(* The server and everybody else.                                          *)

roomForMore == \A p \in Peer : Len(mailbox[p]) + Len(stream) < MaxMail

Others(p) ==
  \/ Join(p) \/ Read(p)
  \/ requests[p] = <<>> /\ roomForMore /\ \E request \in OthersTraffic : Send(p, request)

Server ==
  \/ \E p \in Peer : Serve(p) \/ Leave(p) \/ Break(p)
  \/ Crash
  \/ \E p \in Peer \ {me} : Others(p)

Library ==
  \/ New \/ IntoListener \/ SendFails \/ Drop
  \/ \E name \in ChannelName : Record(name) \/ (misread < MaxMisread /\ ListenerSubscribe(name))
  \/ \E request \in MyTraffic : Execute(request)
  \/ Arrive \/ AwaitResponse \/ AwaitFails \/ NextMessage

RsNext == Library \/ (Server /\ UNCHANGED libVars)

RsSpec == RsInit /\ [][RsNext]_vars

(* The server serves (Hub!RequestsAreServed) and the network delivers.     *)
RsFairness ==
  /\ WF_vars(Serve(me) /\ UNCHANGED libVars)
  /\ WF_vars(Arrive)
  /\ WF_vars(AwaitResponse \/ AwaitFails)
  /\ WF_vars(settingUp /\ \E name \in ChannelName : ListenerSubscribe(name))

RsFairSpec == RsSpec /\ RsFairness

-----------------------------------------------------------------------------
underWay == stream \o mailbox[me]
count(frames, type) == Cardinality({i \in DOMAIN frames : frames[i].type = type})

(* Why subscriptions are deferred: until the connection becomes a listener *)
(* the server sends it nothing but one response for each request, so that  *)
(* the next frame is the response.                                         *)
NothingUnsolicited ==
  phase = "connection" =>
    /\ count(underWay, "message") = 0
    /\ misread = 0
    /\ up /\ connected =>
         Len(requests[me]) + Len(underWay) = (IF call = idle THEN 0 ELSE 1)

(* Afterwards every message taken for a response leaves one response       *)
(* behind, which is later taken for a message or for the response to       *)
(* another request: the stream is out of step by exactly `misread'.        *)
OutOfStepByMisread ==
  phase = "listener" /\ up /\ connected =>
    Len(requests[me]) + count(underWay, "response")
      = misread + (IF call = idle THEN 0 ELSE 1)

(* What into_listener reports as Ok is a subscription the server has (when *)
(* nobody else deletes channels), also for a name that is recorded twice   *)
(* or created meanwhile.                                                   *)
OkMeansSubscribed ==
  phase = "listener" /\ me \in members =>
    \A i \in 1..Len(responses) : responses[i] = "Ok" =>
      exists(subscriptions[i]) /\ me \in subscribers[subscriptions[i]]

(* A call into the library returns, unless the program is in a hurry: the  *)
(* server answers or the connection ends.                                  *)
CallsReturn == call # idle ~> call = idle

(* await_response: "Block while waiting for the next incoming response".   *)
AwaitsOnlyResponses ==
  [][call # idle /\ call' = idle /\ stream' # stream
       => isResponse(Head(stream))]_vars
=============================================================================
