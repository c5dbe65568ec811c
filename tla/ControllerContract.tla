------------------------- MODULE ControllerContract -------------------------
(***************************************************************************)
(* What StateController promises to whoever calls it, apart from the hub's *)
(* loop: any sequence of calls to its operations, with what each throws,   *)
(* also for clients that are not in the map, which the comments of the     *)
(* operations provide for and the hub never passes.                        *)
(***************************************************************************)
EXTENDS StateController

CONSTANT MaxChannels    \* bound: addChannel is not called after so many ids

ASSUME ContractAssumption == MaxChannels \in Nat

VARIABLES
  created,   \* the clients of the map that operator[] made
  call       \* the last call and its result

vars == <<controllerVars, created, call>>

Call(op, client, name, result) ==
  [op |-> op, client |-> client, name |-> name, result |-> result]

NoClient == ServerFd

ContractTypeOK ==
  /\ ControllerTypeOK
  /\ created \subseteq clients
  /\ call \in
       [op : {"none", "addSubscription", "removeSubscription", "addChannel",
              "deleteChannel", "addClient", "removeClientByFd"},
        client : Fd \cup {NoClient}, name : ChannelName \cup {EmptyName},
        result : Exception]

Init ==
  /\ ControllerInit
  /\ created = {}
  /\ call = Call("none", NoClient, EmptyName, "none")

OnRegistry(op, client, name, result) ==
  /\ call' = Call(op, client, name, result)
  /\ created' = created \cup (clients' \ clients)
  /\ UNCHANGED <<backlog_queue, poll_fds>>

AddSubscription(c, name) ==
  \E result \in Exception :
    addSubscription(c, name, result) /\ OnRegistry("addSubscription", c, name, result)

RemoveSubscription(c, name) ==
  \E result \in Exception :
    removeSubscription(c, name, result) /\ OnRegistry("removeSubscription", c, name, result)

AddChannel(name) ==
  /\ idGen < MaxChannels
  /\ \E result \in Exception :
       addChannel(name, result) /\ OnRegistry("addChannel", NoClient, name, result)

DeleteChannel(name) ==
  \E result \in Exception :
    deleteChannel(name, result) /\ OnRegistry("deleteChannel", NoClient, name, result)

(* accept() returns no descriptor that is open, but it may return one that *)
(* operator[] has made a client for.                                       *)
AddClient(fd) ==
  /\ \A i \in DOMAIN poll_fds : poll_fds[i].fd # fd
  /\ addClient(fd)
  /\ call' = Call("addClient", fd, EmptyName, "none")
  /\ UNCHANGED created

(* A client that operator[] made has a socket with descriptor 0 (it is     *)
(* value-initialized), whatever its key: standard input is closed, and 0   *)
(* taken out of channels, map and pollfds, where it is not.                *)
RemoveClient(fd) ==
  /\ fd \in clients
  /\ IF fd \in created THEN UNCHANGED controllerVars ELSE removeClientByFd(fd)
  /\ call' = Call("removeClientByFd", fd, EmptyName, "none")
  /\ UNCHANGED created

Operation ==
  \/ \E c \in Fd, name \in ChannelName :
       AddSubscription(c, name) \/ RemoveSubscription(c, name)
  \/ \E name \in ChannelName : AddChannel(name) \/ DeleteChannel(name)
  \/ \E fd \in Fd : AddClient(fd) \/ RemoveClient(fd)

Spec == Init /\ [][Operation]_vars

-----------------------------------------------------------------------------
(* The channels that list c or that c lists, but not both.                 *)
listedIn(c) == {id \in DOMAIN channels : c \in channels[id].subscribers}
halves(c)   == (subscriptions[c] \ listedIn(c)) \cup (listedIn(c) \ subscriptions[c])

(* A subscription known to one side only comes from one kind of call: the  *)
(* addSubscription for a missing client, which has changed the channel     *)
(* when clients.at() throws.  No other call, not even for missing clients  *)
(* or between halves that such calls left behind, makes another.           *)
HalvesAreOfMissingClients ==
  [][\A c \in Fd :
       \/ halves(c)' \subseteq halves(c)
       \/ /\ c \notin clients
          /\ call' = Call("addSubscription", c, call'.name, "out_of_range")]_vars

(* An operation on a channel leaves the subscribers of every other channel *)
(* alone, and addClient those of all; removing a client takes it out of    *)
(* every channel, except where a half is left behind and the client does   *)
(* not know, or where operator[] made the client, and takes nobody else    *)
(* out of any.                                                             *)
OperationsStayLocal ==
  [][\A id \in DOMAIN channels :
       LET new == IF id \in DOMAIN channels' THEN channels'[id].subscribers ELSE {}
       IN  IF call'.op = "removeClientByFd"
           THEN new = IF call'.client \in created \/ id \in halves(call'.client)
                      THEN channels[id].subscribers
                      ELSE channels[id].subscribers \ {call'.client}
           ELSE channels[id].name # call'.name
                  => new = channels[id].subscribers]_vars
=============================================================================
