--------------------------- MODULE BoundedBuffer ---------------------------
(***************************************************************************)
(* What pro_com/ promises: a FIFO buffer of at most bufsize items.  A      *)
(* producer's put is one atomic append, a consumer's eat is one atomic     *)
(* removal of the oldest item, which is also the item it prints.           *)
(***************************************************************************)
EXTENDS Naturals, Sequences

CONSTANTS Producers, Consumers, bufsize, NoItem

VARIABLES
  queue,  \* the items put and not yet eaten, oldest first
  eaten   \* the item each consumer printed last

Init ==
  /\ queue = <<>>
  /\ eaten = [c \in Consumers |-> NoItem]

\* A producer's item is its own letter (run.sh starts one producer per letter).
Put(p) ==
  /\ Len(queue) < bufsize
  /\ queue' = Append(queue, p)
  /\ UNCHANGED eaten

Eat(c) ==
  /\ queue # <<>>
  /\ eaten' = [eaten EXCEPT ![c] = Head(queue)]
  /\ queue' = Tail(queue)

Next ==
  \/ \E p \in Producers : Put(p)
  \/ \E c \in Consumers : Eat(c)

Spec == Init /\ [][Next]_<<queue, eaten>>
=============================================================================
