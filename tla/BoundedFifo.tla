---------------------------- MODULE BoundedFifo ----------------------------
(* What hw/hw9/sbuf.c promises its callers ("bounded, shared FIFO buffer   *)
(* with n slots", sbuf.c:5): an insert puts its item at the rear at one     *)
(* instant and only when there is room; a remove takes the front item at    *)
(* one instant and only when there is one.  SBuf implements this module.    *)
EXTENDS Integers, Sequences

CONSTANTS Producers, Consumers, Items, NoItem, N

VARIABLES queue,    \* the items inserted and not yet removed, oldest first
          pending,  \* the item of a producer's unfinished insert
          asking,   \* whether a consumer's remove waits for an item
          taken     \* what a consumer's last remove took and still holds

vars == <<queue, pending, asking, taken>>

Init == /\ queue = <<>>
        /\ pending = [p \in Producers |-> NoItem]
        /\ asking = [c \in Consumers |-> FALSE]
        /\ taken = [c \in Consumers |-> NoItem]

Offer(p, x) == /\ pending[p] = NoItem
               /\ pending' = [pending EXCEPT ![p] = x]
               /\ UNCHANGED <<queue, asking, taken>>

Put(p) == /\ pending[p] # NoItem
          /\ Len(queue) < N
          /\ queue' = Append(queue, pending[p])
          /\ pending' = [pending EXCEPT ![p] = NoItem]
          /\ UNCHANGED <<asking, taken>>

Ask(c) == /\ ~asking[c]
          /\ taken[c] = NoItem
          /\ asking' = [asking EXCEPT ![c] = TRUE]
          /\ UNCHANGED <<queue, pending, taken>>

Take(c) == /\ asking[c]
           /\ queue # <<>>
           /\ taken' = [taken EXCEPT ![c] = Head(queue)]
           /\ queue' = Tail(queue)
           /\ asking' = [asking EXCEPT ![c] = FALSE]
           /\ UNCHANGED pending

Release(c) == /\ taken[c] # NoItem
              /\ taken' = [taken EXCEPT ![c] = NoItem]
              /\ UNCHANGED <<queue, pending, asking>>

Next == \/ \E p \in Producers : Put(p) \/ \E x \in Items : Offer(p, x)
        \/ \E c \in Consumers : Ask(c) \/ Take(c) \/ Release(c)

Spec == Init /\ [][Next]_vars

\* Progress the buffer owes its callers as a group: while there is room some
\* pending insert happens, while there is an item some waiting remove happens.
Progress == /\ WF_vars(\E p \in Producers : Put(p))
            /\ WF_vars(\E c \in Consumers : Take(c))

FairSpec == Spec /\ Progress
=============================================================================
