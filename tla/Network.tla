------------------------------ MODULE Network ------------------------------
(***************************************************************************)
(* The TCP connections between the hub and its peers, as net/Socket.cpp    *)
(* uses them, and what the peers may do with their ends at any moment.     *)
(* This is the environment of the hub: the kernel and arbitrary clients.   *)
(*                                                                         *)
(* A request travels as a length followed by a body, and a peer may pause  *)
(* anywhere inside it: it begins a request (some bytes have arrived) and   *)
(* finishes it later.  A frame that announces zero bytes counts as begun   *)
(* until more arrives, because recv() of zero bytes waits for data too.    *)
(***************************************************************************)
EXTENDS Client, FiniteSets

CONSTANTS
  Traffic,       \* the requests the peers of this instance send
  ConnLimit,     \* bound: connections waiting or accepted at one time
  MaxInbox,      \* bound: complete requests of a peer that wait to be read
  SocketBuffer   \* frames the socket buffers of a connection take

ASSUME NetworkAssumption ==
  /\ Traffic \subseteq Request
  /\ ConnLimit \in Nat /\ MaxInbox \in Nat /\ SocketBuffer \in Nat

VARIABLES
  pending,   \* connections in the listen queue, waiting for accept()
  peer,      \* peer[fd]: "none" while the descriptor is free, otherwise what
             \* the hub's kernel knows of the other end
  inbox,     \* inbox[fd]: complete requests that have arrived
  partial,   \* descriptors on which, after those, part of one has arrived
  wire       \* wire[fd]: frames the hub sent that the peer has not read

netVars == <<pending, peer, inbox, partial, wire>>

(* "shut": a FIN has arrived.  "reset": an RST has.  After either, what    *)
(* arrived before it can still be read (Linux keeps the receive queue).    *)
PeerState == {"none", "open", "shut", "reset"}

NetworkTypeOK ==
  /\ pending \in Nat
  /\ peer \in [Fd -> PeerState]
  /\ inbox \in [Fd -> Seq(Traffic)]
  /\ partial \subseteq Fd
  /\ wire \in [Fd -> Seq(Frame)]

NetworkInit ==
  /\ pending = 0
  /\ peer = [fd \in Fd |-> "none"]
  /\ inbox = [fd \in Fd |-> <<>>]
  /\ partial = {}
  /\ wire = [fd \in Fd |-> <<>>]

-----------------------------------------------------------------------------
(* What poll() reports of a connection.                                    *)

freeFds      == {fd \in Fd : peer[fd] = "none"}
disrupted(c) == peer[c] # "open"
readable(c)  == inbox[c] # <<>> \/ c \in partial
writable(c)  == Len(wire[c]) < SocketBuffer

-----------------------------------------------------------------------------
(* System calls of the hub.                                                *)

accept(fd) ==
  /\ pending' = pending - 1
  /\ peer' = [peer EXCEPT ![fd] = "open"]
  /\ UNCHANGED <<inbox, partial, wire>>

(* Socket::receive() of a complete request. *)
receive(c) ==
  /\ inbox' = [inbox EXCEPT ![c] = Tail(@)]
  /\ UNCHANGED <<pending, peer, partial, wire>>

(* Socket::receive() of anything else blocks until the request is complete *)
(* or the connection is closed, and in the latter case throws.             *)
receiveFails(c) == inbox[c] = <<>> /\ disrupted(c)

(* Socket::send() succeeds as long as no RST has arrived; the peer may     *)
(* answer a frame sent after its FIN with one, before the body is sent.    *)
send(c, frame) ==
  /\ peer[c] # "reset"
  /\ wire' = [wire EXCEPT ![c] = Append(@, frame)]
  /\ UNCHANGED <<pending, peer, inbox, partial>>

sendFails(c) == disrupted(c)

(* Socket::kill(): the descriptor is free again. *)
kill_Leak(fd) == UNCHANGED netVars
kill(fd) ==
  /\ peer' = [peer EXCEPT ![fd] = "none"]
  /\ inbox' = [inbox EXCEPT ![fd] = <<>>]
  /\ partial' = partial \ {fd}
  /\ wire' = [wire EXCEPT ![fd] = <<>>]
  /\ UNCHANGED pending

-----------------------------------------------------------------------------
(* What peers do.                                                          *)

Connect ==
  /\ pending + Cardinality(Fd \ freeFds) < ConnLimit
  /\ pending' = pending + 1
  /\ UNCHANGED <<peer, inbox, partial, wire>>

PeerBegin(c) ==
  /\ peer[c] = "open"
  /\ c \notin partial
  /\ Len(inbox[c]) < MaxInbox
  /\ partial' = partial \cup {c}
  /\ UNCHANGED <<pending, peer, inbox, wire>>

PeerFinish(c, request) ==
  /\ peer[c] = "open"
  /\ c \in partial
  /\ partial' = partial \ {c}
  /\ inbox' = [inbox EXCEPT ![c] = Append(@, request)]
  /\ UNCHANGED <<pending, peer, wire>>

PeerRead(c) ==
  /\ wire[c] # <<>>
  /\ wire' = [wire EXCEPT ![c] = Tail(@)]
  /\ UNCHANGED <<pending, peer, inbox, partial>>

PeerShut(c) ==
  /\ peer[c] = "open"
  /\ peer' = [peer EXCEPT ![c] = "shut"]
  /\ UNCHANGED <<pending, inbox, partial, wire>>

PeerReset(c) ==
  /\ peer[c] \in {"open", "shut"}
  /\ peer' = [peer EXCEPT ![c] = "reset"]
  /\ wire' = [wire EXCEPT ![c] = <<>>]
  /\ UNCHANGED <<pending, inbox, partial>>
=============================================================================
