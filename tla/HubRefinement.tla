---------------------------- MODULE HubRefinement ----------------------------
(***************************************************************************)
(* The server of Hub implements PubSub.  A channel of PubSub is known by   *)
(* its name, a peer's mailbox is what its socket and its backlog hold, and *)
(* what a process that has stopped had in memory is gone.                  *)
(***************************************************************************)
EXTENDS Hub

idOf(name) == CHOOSE id \in DOMAIN channels : channels[id].name = name

subscribersByName ==
  [name \in {channels[id].name : id \in DOMAIN channels} |->
     channels[idOf(name)].subscribers]

membersBar     == IF Halted THEN {} ELSE clients
brokenBar      == IF Halted THEN {} ELSE {c \in clients : peer[c] = "reset"}
subscribersBar == IF Halted THEN [name \in {} |-> {}] ELSE subscribersByName
requestsBar    == IF Halted THEN [c \in Fd |-> <<>>] ELSE inbox
mailboxBar     == [c \in Fd |-> IF Halted THEN wire[c] ELSE wire[c] \o backlog_queue[c]]

Abstract == INSTANCE PubSub WITH
  Peer        <- Fd,
  up          <- ~Halted,
  members     <- membersBar,
  broken      <- brokenBar,
  subscribers <- subscribersBar,
  requests    <- requestsBar,
  mailbox     <- mailboxBar

(* Every step of the server is one step of PubSub or invisible to it: a    *)
(* request is carried out at once and in the order of its connection,      *)
(* whatever poll() reported before; answers and messages leave in the      *)
(* order of the steps that queued them; only a connection that is cut or   *)
(* removed, or the end of the process, loses any.                          *)
ImplementsPubSub == Abstract!Spec
=============================================================================
