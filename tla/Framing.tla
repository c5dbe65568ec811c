------------------------------- MODULE Framing -------------------------------
(***************************************************************************)
(* Socket::receive and Socket::send of net/Socket.cpp, byte by byte, on    *)
(* one connection between the hub's only thread and a peer that uses the   *)
(* stream of pubhub-rs (stream.rs).  Network treats a frame as one thing;  *)
(* here it is a length and a body, which TCP delivers in pieces, through   *)
(* socket buffers that fill up, with calls that block meanwhile.           *)
(***************************************************************************)
EXTENDS Integers, Sequences

CONSTANTS
  Base,            \* a byte is a number below Base; a length has two of them
  Requests,        \* bodies the peer sends; the code forbids none, not even <<>>
  Response,        \* the body of the hub's answer to each
  Messages,        \* bodies other clients publish to this one
  Capacity,        \* bytes the socket buffers of one direction take
  MaxOutstanding,  \* requests the peer sends before it waits for an answer
  MaxBacklog       \* bound: publications wait while so many frames are queued

Body  == Requests \cup Messages \cup {Response}
Frames_OneByte(b) == <<0, Len(b)>> \o b
Frames(b) == <<Len(b) \div Base, Len(b) % Base>> \o b

ASSUME FramingAssumption ==
  /\ Base \in Nat \ {0, 1}
  /\ \A b \in Body : b \in Seq(0..Base - 1) /\ Len(b) < Base * Base
  /\ Response \notin Messages  \* it has a "status" (Response.cpp, toJson)
  /\ Capacity \in Nat \ {0} /\ MaxOutstanding \in Nat \ {0} /\ MaxBacklog \in Nat

(* The requests of a peer fit into the socket buffers.  (Frames of the hub *)
(* need not.)                                                              *)
RequestsFit == \A b \in Requests : MaxOutstanding * Len(Frames(b)) <= Capacity

VARIABLES
  toHub, toPeer,  \* the bytes on their way in each direction
  end,            \* the peer's end as the hub's kernel knows it
  hub, peer,      \* the call each side is in: [at, got]
  hubOut,         \* the bytes the hub's call has still to send
  peerOut,        \* the bytes the peer's write_all has still to write
  backlog,        \* Client::backlog_queue
  outstanding,    \* requests the peer has no answer to
  asked,          \* bodies the peer has begun to send and the hub not received
  owed            \* bodies queued for the peer that it has not read

vars == <<toHub, toPeer, end, hub, peer, hubOut, peerOut, backlog, outstanding,
          asked, owed>>

At(call) == [at |-> call, got |-> <<>>]

Init ==
  /\ toHub = <<>> /\ toPeer = <<>> /\ end = "open"
  /\ hub = At("poll") /\ peer = At("idle")
  /\ hubOut = <<>> /\ peerOut = <<>>
  /\ backlog = <<>> /\ outstanding = 0
  /\ asked = <<>> /\ owed = <<>>

room(buffer) == Capacity - Len(buffer)
least(a, b) == IF a < b THEN a ELSE b
first(n, s) == SubSeq(s, 1, n)
rest(n, s)  == SubSeq(s, n + 1, Len(s))

(* What is still missing of the length (2 bytes) or of the body it says.   *)
size(got) == got[1] * Base + got[2]
missing_Terminator(call) ==
  IF Len(call.got) < 2 THEN 2 - Len(call.got) ELSE size(call.got) + 3 - Len(call.got)
missing(call) ==
  IF Len(call.got) < 2 THEN 2 - Len(call.got) ELSE size(call.got) + 2 - Len(call.got)
complete(call) == Len(call.got) >= 2 /\ missing(call) = 0

-----------------------------------------------------------------------------
(* Socket::receive.                                                        *)

StartReceive ==
  /\ hub.at = "poll" /\ end = "open" /\ toHub # <<>>
  /\ hub' = At("receive")
  /\ UNCHANGED <<toHub, toPeer, end, peer, hubOut, peerOut, backlog,
                 outstanding, asked, owed>>

(* MSG_WAITALL: recv() goes on until it has all it was asked for. *)
Recv ==
  /\ hub.at = "receive" /\ toHub # <<>>
  /\ \E n \in 1..least(missing(hub), Len(toHub)) :
       /\ hub' = [hub EXCEPT !.got = @ \o first(n, toHub)]
       /\ toHub' = rest(n, toHub)
  /\ UNCHANGED <<toPeer, end, peer, hubOut, peerOut, backlog, outstanding,
                 asked, owed>>

received_Early(call) == Len(call.got) > 2
received(call) == complete(call) /\ size(call.got) > 0

(* The request is carried out and answered. *)
Received ==
  /\ hub.at = "receive" /\ received(hub)
  /\ hub' = At("poll")
  /\ backlog' = Append(backlog, Response)
  /\ owed' = Append(owed, Response)
  /\ asked' = Tail(asked)
  /\ UNCHANGED <<toHub, toPeer, end, peer, hubOut, peerOut, outstanding>>

(* receive() throws when the stream ends first; it does so as well, once   *)
(* more arrives or the stream ends, after a length of 0, since recv() of 0 *)
(* bytes waits and then returns 0.  The connection is closed.              *)
ReceiveThrows ==
  /\ hub.at = "receive"
  /\ \/ toHub = <<>> /\ end # "open" /\ ~received(hub)
     \/ toHub # <<>> /\ complete(hub) /\ ~received(hub)
  /\ hub' = At("closed")
  /\ UNCHANGED <<toHub, toPeer, end, peer, hubOut, peerOut, backlog,
                 outstanding, asked, owed>>

Disconnect ==
  /\ hub.at = "poll" /\ end # "open"
  /\ hub' = At("closed")
  /\ UNCHANGED <<toHub, toPeer, end, peer, hubOut, peerOut, backlog,
                 outstanding, asked, owed>>

-----------------------------------------------------------------------------
(* Socket::send: a call for the length and one for the body, each of which *)
(* blocks until the buffers have taken everything.  `got' is what the call *)
(* has put there so far.                                                   *)

(* poll() reports room, not room for the frame. *)
StartSend ==
  /\ hub.at = "poll" /\ end = "open"
  /\ backlog # <<>> /\ room(toPeer) > 0
  /\ hub' = At("sendSize")
  /\ hubOut' = Frames(Head(backlog))
  /\ backlog' = Tail(backlog)
  /\ UNCHANGED <<toHub, toPeer, end, peer, peerOut, outstanding, asked, owed>>

sending == hub.at \in {"sendSize", "sendBody"}
ofCall == IF hub.at = "sendSize" THEN 2 - Len(hub.got) ELSE Len(hubOut)

SendSome ==
  /\ sending /\ end # "reset" /\ ofCall > 0
  /\ \E n \in 1..least(ofCall, room(toPeer)) :
       /\ toPeer' = toPeer \o first(n, hubOut)
       /\ hub' = [hub EXCEPT !.got = @ \o first(n, hubOut)]
       /\ hubOut' = rest(n, hubOut)
  /\ UNCHANGED <<toHub, end, peer, peerOut, backlog, outstanding, asked, owed>>

(* A call that an RST interrupts fails, with SIGPIPE, if it has sent       *)
(* nothing; otherwise it returns how much it has sent, and Socket::send    *)
(* only looks for -1.                                                      *)
interrupted == end = "reset" /\ hub.got # <<>>
callDone_Short == hub.got # <<>>
callDone == ofCall = 0 \/ interrupted

SizeSent ==
  /\ hub.at = "sendSize" /\ callDone
  /\ hub' = At("sendBody")
  /\ UNCHANGED <<toHub, toPeer, end, peer, hubOut, peerOut, backlog,
                 outstanding, asked, owed>>

BodySent ==
  /\ hub.at = "sendBody" /\ callDone
  /\ hub' = At("poll")
  /\ hubOut' = <<>>
  /\ UNCHANGED <<toHub, toPeer, end, peer, peerOut, backlog, outstanding,
                 asked, owed>>

SendFails ==
  /\ sending /\ end = "reset" /\ hub.got = <<>> /\ hubOut # <<>>
  /\ hub' = At("failed")
  /\ UNCHANGED <<toHub, toPeer, end, peer, hubOut, peerOut, backlog,
                 outstanding, asked, owed>>

(* Another client publishes; the one thread is then not in a call here. *)
Publish ==
  /\ hub.at = "poll" /\ Len(backlog) < MaxBacklog
  /\ \E m \in Messages : /\ backlog' = Append(backlog, m)
                        /\ owed' = Append(owed, m)
  /\ UNCHANGED <<toHub, toPeer, end, hub, peer, hubOut, peerOut, outstanding,
                 asked>>

-----------------------------------------------------------------------------
(* The peer: send_pubhub_request and next_pubhub_message.                  *)

(* It sends no further request before it has read what it waits for. *)
mayRequest_Always == TRUE
mayRequest == outstanding < MaxOutstanding

StartWrite ==
  /\ peer.at = "idle" /\ mayRequest
  /\ \E b \in Requests : peerOut' = Frames(b) /\ asked' = Append(asked, b)
  /\ peer' = At("write")
  /\ outstanding' = outstanding + 1
  /\ UNCHANGED <<toHub, toPeer, end, hub, hubOut, backlog, owed>>

WriteSome ==
  /\ peer.at = "write" /\ end = "open"
  /\ \E n \in 1..least(Len(peerOut), room(toHub)) :
       /\ toHub' = toHub \o first(n, peerOut)
       /\ peerOut' = rest(n, peerOut)
  /\ peer' = IF peerOut' = <<>> THEN At("idle") ELSE peer
  /\ UNCHANGED <<toPeer, end, hub, hubOut, backlog, outstanding, asked, owed>>

ReadSome ==
  /\ peer.at \in {"idle", "read"} /\ toPeer # <<>>
  /\ \E n \in 1..least(missing(peer), Len(toPeer)) :
       /\ peer' = [at |-> "read", got |-> peer.got \o first(n, toPeer)]
       /\ toPeer' = rest(n, toPeer)
  /\ UNCHANGED <<toHub, end, hub, hubOut, peerOut, backlog, outstanding, asked,
                 owed>>

Read ==
  /\ peer.at = "read" /\ complete(peer)
  /\ peer' = At("idle")
  /\ owed' = Tail(owed)
  /\ outstanding' = IF rest(2, peer.got) = Response /\ outstanding > 0
                    THEN outstanding - 1 ELSE outstanding
  /\ UNCHANGED <<toHub, toPeer, end, hub, hubOut, peerOut, backlog, asked>>

(* The peer ends, in the middle of a frame perhaps.  What it has not read  *)
(* makes its kernel send an RST, as does a frame sent to it afterwards.    *)
Close ==
  /\ end = "open" /\ end' \in {"shut", "reset"}
  /\ peer' = At("closed")
  /\ peerOut' = <<>> /\ toPeer' = <<>>
  /\ UNCHANGED <<toHub, hub, hubOut, backlog, outstanding, asked, owed>>

Reset ==
  /\ end = "shut" /\ toPeer # <<>>
  /\ end' = "reset" /\ toPeer' = <<>>
  /\ UNCHANGED <<toHub, hub, peer, hubOut, peerOut, backlog, outstanding,
                 asked, owed>>

-----------------------------------------------------------------------------
HubThread ==
  \/ StartReceive \/ Recv \/ Received \/ ReceiveThrows \/ Disconnect
  \/ StartSend \/ SendSome \/ SizeSent \/ BodySent \/ SendFails

PeerThread == WriteSome \/ ReadSome \/ Read

Next == HubThread \/ PeerThread \/ Publish \/ StartWrite \/ Close \/ Reset

Spec == Init /\ [][Next]_vars

(* Both threads run, and the peer reads whenever it is not writing. *)
FairSpec ==
  /\ Spec
  /\ WF_vars(HubThread)
  /\ WF_vars(PeerThread)
  /\ WF_vars(Reset)

-----------------------------------------------------------------------------
TypeOK ==
  /\ toHub \in Seq(0..Base - 1) /\ Len(toHub) <= Capacity
  /\ toPeer \in Seq(0..Base - 1) /\ Len(toPeer) <= Capacity
  /\ end \in {"open", "shut", "reset"}
  /\ hub.at \in {"poll", "receive", "sendSize", "sendBody", "closed", "failed"}
  /\ peer.at \in {"idle", "write", "read", "closed"}
  /\ hub.got \in Seq(0..Base - 1) /\ peer.got \in Seq(0..Base - 1)
  /\ hubOut \in Seq(0..Base - 1) /\ peerOut \in Seq(0..Base - 1)
  /\ backlog \in Seq(Body)
  /\ outstanding \in Nat

(* However TCP cuts the stream up, and wherever the peer ends, receive()   *)
(* returns the bodies the peer has sent, whole, in order, and no other.    *)
ReceiveReturnsFrames ==
  [][Received => rest(2, hub.got) = Head(asked)]_vars

(* What a peer reads is what was queued for it, whole and in order.        *)
PeerReadsFrames ==
  [][Read => rest(2, peer.got) = Head(owed)]_vars

waitsToSend  == sending /\ ofCall > 0 /\ room(toPeer) = 0 /\ end # "reset"
waitsToWrite == peer.at = "write" /\ room(toHub) = 0

(* The hub and a peer never wait for each other to read: a send() that     *)
(* blocks the only thread finds a peer that will read, provided the peer   *)
(* does not send more than the buffers take before it reads its answers.   *)
NoMutualWait == RequestsFit => ~(waitsToSend /\ waitsToWrite)

(* The hub's blocking calls return when the peer finishes what it began    *)
(* and reads, or ends: send() of a frame larger than the buffers as well   *)
(* as receive(), but not of a frame that says its length is 0.             *)
HubCallsReturn ==
  (sending \/ (hub.at = "receive" /\ ~(complete(hub) /\ size(hub.got) = 0)))
    ~> (hub.at \in {"poll", "closed", "failed"}
        \/ (hub.at = "receive" /\ complete(hub) /\ size(hub.got) = 0))
=============================================================================
