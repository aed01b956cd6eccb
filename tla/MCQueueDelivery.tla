--------------------------- MODULE MCQueueDelivery ---------------------------
(***************************************************************************)
(* Instances of QueueDelivery for TLC.  Clients run the same code, and no  *)
(* identity is special.                                                    *)
(***************************************************************************)
EXTENDS QueueDelivery, TLC

ClientSymmetry == Permutations(Clients)

QueueSymmetry == Permutations(Clients) \cup Permutations(Ids)

(***************************************************************************)
(* A behaviour is about one identity that all clients use, or, where the   *)
(* only calls are those of the queue, about all identities in the hands of *)
(* one client.  The first lets the records, the requests and the entry of  *)
(* a message interact; the second lets several entries and intents share   *)
(* the queue.                                                              *)
(***************************************************************************)
VARIABLES
  used,  \* the identities a behaviour is about
  using  \* the clients that act in it

MCInit ==
  /\ QueueInit
  /\ \/ used \in {{i} : i \in Ids} /\ using = Clients
     \/ /\ offered \cap {"send", "message"} = {}
        /\ used = Ids /\ using \in {{c} : c \in Clients}

MCNext ==
  /\ QueueNext
  /\ \A i \in Ids \ used :
       /\ send'[i] = send[i]
       /\ \A c \in Clients : op'[c].id # i
  /\ \A c \in Clients \ using : pc'[c] = pc[c]
  /\ UNCHANGED <<used, using>>

MCQueueSpec == MCInit /\ [][MCNext]_<<allVars, used, using>>

MCQueueFairSpec == MCQueueSpec /\ QueueFairness

(* No step reads what an operation returned, nor the history of an unused  *)
(* identity; the properties see both in the step that sets them.           *)
Unread ==
  <<send, queued, deletions, claims, [i \in used |-> retired[i]],
    serverVars, pc, op, queueVars, offered, used, using>>
=============================================================================
