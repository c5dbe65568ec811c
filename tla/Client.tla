------------------------------- MODULE Client -------------------------------
(***************************************************************************)
(* The Client objects of server/Client.cpp, one per file descriptor.  Each *)
(* field is a function from descriptors; a descriptor without a Client has *)
(* the values of a freshly constructed one.                                *)
(*                                                                         *)
(* Throughout the modules a definition op_Word, right before op, is op     *)
(* with a plausible bug; it is used nowhere, and substituting it for op    *)
(* shows that a property would notice.                                     *)
(***************************************************************************)
EXTENDS Integers, Sequences, Protocol

CONSTANT Fd          \* the descriptors accept() may return

VARIABLES
  subscriptions,     \* subscriptions[c]: ids of the channels c listens to
  backlog_queue      \* backlog_queue[c]: frames waiting to be sent to c

ClientTypeOK ==
  /\ subscriptions \in [Fd -> SUBSET Nat]
  /\ backlog_queue \in [Fd -> Seq(Frame)]

ClientInit ==
  /\ subscriptions = [c \in Fd |-> {}]
  /\ backlog_queue = [c \in Fd |-> <<>>]

-----------------------------------------------------------------------------
subscribeTo(c, id) == [subscriptions EXCEPT ![c] = @ \cup {id}]

(* Applied to every client of C. *)
unsubscribeFrom_Forgotten(C, id) == subscriptions
unsubscribeFrom(C, id) ==
  [c \in Fd |-> IF c \in C THEN subscriptions[c] \ {id} ELSE subscriptions[c]]

(* The queues after msg is pushed to the back of the queue of each c in C. *)
enqueueMessage(queues, C, msg) ==
  [c \in Fd |-> IF c \in C THEN Append(queues[c], msg) ELSE queues[c]]

backlogSize(c) == Len(backlog_queue[c])

(* What flushOne leaves of the queue; undefined when there is no front.    *)
popFront(c) == [backlog_queue EXCEPT ![c] = Tail(@)]

(* The Client of c is erased from the map and destroyed. *)
destroyClient(c) ==
  /\ subscriptions' = [subscriptions EXCEPT ![c] = {}]
  /\ backlog_queue' = [backlog_queue EXCEPT ![c] = <<>>]
=============================================================================
