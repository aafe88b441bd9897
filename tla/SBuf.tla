-------------------------------- MODULE SBuf --------------------------------
(* The shared buffer of hw/hw9/sbuf.c.  Every P, V and buffer access of     *)
(* sbuf_insert and sbuf_remove is one atomic step of the calling thread, in *)
(* the order of the code; pc[t] is the thread's place and item[t] its local *)
(* `item`.  The int counters front and rear keep a width (INT_MAX).         *)
EXTENDS Integers, FiniteSets, ThreadCounts

CONSTANTS Producers,  \* threads that call sbuf_insert
          Consumers,  \* threads that call sbuf_remove
          Items,      \* the descriptors passed through the buffer
          NoItem,     \* a thread holds no item; the content of a calloc'ed cell
          N,          \* sp->n, SBUFSIZE in the server
          INT_MAX,    \* the largest int
          MaxCalls    \* bound: how many calls of sbuf_insert are explored

ASSUME SBufAssumption ==
  /\ N \in Nat \ {0}
  /\ INT_MAX \in Nat \ {0}
  /\ MaxCalls \in Nat
  /\ NoItem \notin Items
  /\ IsFiniteSet(Producers) /\ IsFiniteSet(Consumers)
  /\ Producers \cap Consumers = {}

VARIABLES buf, front, rear,      \* sp->buf, sp->front, sp->rear
          mutex, slots, items,   \* the three semaphores
          pc, item,              \* each thread's place and its local item
          calls                  \* number of calls of sbuf_insert so far

sem  == <<mutex, slots, items>>
vars == <<buf, front, rear, mutex, slots, items, pc, item, calls>>

Threads == Producers \cup Consumers

InsertPlaces == {"ins_P_slots", "ins_P_mutex", "ins_write", "ins_V_mutex", "ins_V_items"}
RemovePlaces == {"rem_P_items", "rem_P_mutex", "rem_read", "rem_V_mutex", "rem_V_slots"}

\* C's ++ on an int as the build compiles it: past INT_MAX it wraps.
Inc(x) == IF x = INT_MAX THEN -INT_MAX - 1 ELSE x + 1

\* C's x % n: the quotient is truncated towards 0, so a negative x gives a
\* remainder that is negative or 0.
CMod(x) == IF x >= 0 THEN x % N ELSE -((-x) % N)

Cells == 0 .. N - 1

PcOK == /\ pc \in [Threads -> {"idle"} \cup InsertPlaces \cup RemovePlaces]
        /\ \A p \in Producers : pc[p] \in {"idle"} \cup InsertPlaces
        /\ \A c \in Consumers : pc[c] \in {"idle"} \cup RemovePlaces

DataOK == /\ buf \in [Cells -> Items \cup {NoItem}]
          /\ item \in [Threads -> Items \cup {NoItem}]

CountersOK == /\ front \in -INT_MAX - 1 .. INT_MAX
              /\ rear \in -INT_MAX - 1 .. INT_MAX
              /\ mutex \in 0 .. 1
              /\ slots \in 0 .. N
              /\ items \in 0 .. N
              /\ calls \in 0 .. MaxCalls

\* The places of the calls, the cells and the int and semaphore ranges.
TypeOK == PcOK /\ DataOK /\ CountersOK

-----------------------------------------------------------------------------
Init ==  \* sbuf_init, and no thread inside the buffer
  /\ buf = [i \in Cells |-> NoItem]
  /\ front = 0
  /\ rear = 0
  /\ mutex = 1
  /\ slots = N
  /\ items = 0
  /\ pc = [t \in Threads |-> "idle"]
  /\ item = [t \in Threads |-> NoItem]
  /\ calls = 0

Goto(t, from, to) == pc[t] = from /\ pc' = [pc EXCEPT ![t] = to]

(* sbuf_insert(sp, x) *)
CallInsert(p, x) ==
  /\ calls < MaxCalls
  /\ calls' = calls + 1
  /\ Goto(p, "idle", "ins_P_slots")
  /\ item' = [item EXCEPT ![p] = x]
  /\ UNCHANGED <<buf, front, rear, sem>>

MutantInsertPSlots(p) ==  \* the wait for a free slot is forgotten
  /\ Goto(p, "ins_P_slots", "ins_P_mutex")
  /\ slots' = IF slots > 0 THEN slots - 1 ELSE 0
  /\ UNCHANGED <<buf, front, rear, mutex, items, item, calls>>

InsertPSlots(p) ==
  /\ Goto(p, "ins_P_slots", "ins_P_mutex")
  /\ slots > 0
  /\ slots' = slots - 1
  /\ UNCHANGED <<buf, front, rear, mutex, items, item, calls>>

MutantInsertPMutex(p) ==  \* the buffer is not locked for the insert
  /\ Goto(p, "ins_P_mutex", "ins_write")
  /\ mutex' = 0
  /\ UNCHANGED <<buf, front, rear, slots, items, item, calls>>

InsertPMutex(p) ==
  /\ Goto(p, "ins_P_mutex", "ins_write")
  /\ mutex > 0
  /\ mutex' = mutex - 1
  /\ UNCHANGED <<buf, front, rear, slots, items, item, calls>>

MutantInsertWrite(p) ==  \* rear++ for ++rear
  /\ Goto(p, "ins_write", "ins_V_mutex")
  /\ rear' = Inc(rear)
  /\ buf' = [buf EXCEPT ![CMod(rear)] = item[p]]
  /\ UNCHANGED <<front, sem, item, calls>>

\* A write outside the cells leaves buf alone (it lands in other memory).
InsertWrite(p) ==
  /\ Goto(p, "ins_write", "ins_V_mutex")
  /\ rear' = Inc(rear)
  /\ buf' = [buf EXCEPT ![CMod(Inc(rear))] = item[p]]
  /\ UNCHANGED <<front, sem, item, calls>>

InsertVMutex(p) ==
  /\ Goto(p, "ins_V_mutex", "ins_V_items")
  /\ mutex' = mutex + 1
  /\ UNCHANGED <<buf, front, rear, slots, items, item, calls>>

MutantInsertVItems(p) ==  \* the wrong semaphore is posted
  /\ Goto(p, "ins_V_items", "idle")
  /\ slots' = slots + 1
  /\ item' = [item EXCEPT ![p] = NoItem]
  /\ UNCHANGED <<buf, front, rear, mutex, items, calls>>

InsertVItems(p) ==
  /\ Goto(p, "ins_V_items", "idle")
  /\ items' = items + 1
  /\ item' = [item EXCEPT ![p] = NoItem]
  /\ UNCHANGED <<buf, front, rear, mutex, slots, calls>>

(* sbuf_remove(sp) *)
CallRemove(c) ==
  /\ item[c] = NoItem
  /\ Goto(c, "idle", "rem_P_items")
  /\ UNCHANGED <<buf, front, rear, sem, item, calls>>

RemovePItems(c) ==
  /\ Goto(c, "rem_P_items", "rem_P_mutex")
  /\ items > 0
  /\ items' = items - 1
  /\ UNCHANGED <<buf, front, rear, mutex, slots, item, calls>>

RemovePMutex(c) ==
  /\ Goto(c, "rem_P_mutex", "rem_read")
  /\ mutex > 0
  /\ mutex' = mutex - 1
  /\ UNCHANGED <<buf, front, rear, slots, items, item, calls>>

\* A read outside the cells returns whatever is there.
RemoveRead(c) ==
  /\ Goto(c, "rem_read", "rem_V_mutex")
  /\ front' = Inc(front)
  /\ \E x \in IF CMod(Inc(front)) \in Cells THEN {buf[CMod(Inc(front))]} ELSE Items :
       item' = [item EXCEPT ![c] = x]
  /\ UNCHANGED <<buf, rear, sem, calls>>

RemoveVMutex(c) ==
  /\ Goto(c, "rem_V_mutex", "rem_V_slots")
  /\ mutex' = mutex + 1
  /\ UNCHANGED <<buf, front, rear, slots, items, item, calls>>

RemoveVSlots(c) ==  \* and the return of the item to the caller
  /\ Goto(c, "rem_V_slots", "idle")
  /\ slots' = slots + 1
  /\ UNCHANGED <<buf, front, rear, mutex, items, item, calls>>

\* The caller is done with the item sbuf_remove returned.
Done(c) ==
  /\ pc[c] = "idle"
  /\ item[c] # NoItem
  /\ item' = [item EXCEPT ![c] = NoItem]
  /\ UNCHANGED <<buf, front, rear, sem, pc, calls>>

InsertStep(p) == \/ InsertPSlots(p) \/ InsertPMutex(p) \/ InsertWrite(p)
                 \/ InsertVMutex(p) \/ InsertVItems(p)
RemoveStep(c) == \/ RemovePItems(c) \/ RemovePMutex(c) \/ RemoveRead(c)
                 \/ RemoveVMutex(c) \/ RemoveVSlots(c)

Next == \/ \E p \in Producers : InsertStep(p) \/ \E x \in Items : CallInsert(p, x)
        \/ \E c \in Consumers : CallRemove(c) \/ RemoveStep(c) \/ Done(c)

Spec == Init /\ [][Next]_vars

\* The scheduler runs every thread that can take its next step of a call.
\* Nothing is assumed about which waiter a V wakes, nor that calls are made.
FairSpec == /\ Spec
            /\ \A p \in Producers : WF_vars(InsertStep(p))
            /\ \A c \in Consumers : WF_vars(RemoveStep(c))

-----------------------------------------------------------------------------
(* Properties *)

\* Between P(&sp->mutex) and V(&sp->mutex) there is at most one thread, and
\* the semaphore says whether there is one (sbuf.c:31-33, 44-46).
Critical == {"ins_write", "ins_V_mutex", "rem_read", "rem_V_mutex"}
MutualExclusion == mutex + Count(pc, Threads, Critical) = 1

\* Permits are conserved: every slot is counted by `slots`, held by a producer
\* that has waited for it, occupied by an item, or held by a consumer that has
\* emptied it and not yet posted it; every queued item is counted by `items`,
\* not yet announced by its producer, or claimed by a consumer on its way to it.
HoldingSlot    == {"ins_P_mutex", "ins_write"}
FreeingSlot    == {"rem_V_mutex", "rem_V_slots"}
AnnouncingItem == {"ins_V_mutex", "ins_V_items"}
ClaimingItem   == {"rem_P_mutex", "rem_read"}
SlotsConserved ==
  slots + Count(pc, Producers, HoldingSlot) + (rear - front)
        + Count(pc, Consumers, FreeingSlot) = N
ItemsConserved ==
  items + Count(pc, Producers, AnnouncingItem)
        + Count(pc, Consumers, ClaimingItem) = rear - front
PermitsConserved == SlotsConserved /\ ItemsConserved

\* No insert overwrites an item that waits in the buffer, no remove reads a
\* cell from which the item has gone (sbuf.c:32, 45).
NoOverrun ==
  /\ At(pc, Producers, {"ins_write"}) # {} => rear - front < N
  /\ At(pc, Consumers, {"rem_read"}) # {} => rear - front > 0

\* The strengthening that is inductive as long as no counter reaches INT_MAX:
\* rear counts the calls that have stored their item, front never passes rear.
Inserting == {"ins_P_slots", "ins_P_mutex", "ins_write"}
CallsCounted ==
  rear + Count(pc, Producers, Inserting) = calls
IInv == /\ TypeOK /\ front >= 0 /\ rear >= 0
        /\ MutualExclusion /\ PermitsConserved /\ CallsCounted

(* The buffer implements the abstract bounded FIFO. *)
Contents == [i \in 1 .. rear - front |-> buf[(front + i) % N]]
Pending == [p \in Producers |->
              IF pc[p] \in Inserting THEN item[p] ELSE NoItem]
Removing == {"rem_P_items", "rem_P_mutex", "rem_read"}
Asking == [c \in Consumers |-> pc[c] \in Removing]
Taken == [c \in Consumers |-> item[c]]

Fifo == INSTANCE BoundedFifo WITH queue <- Contents, pending <- Pending,
                                  asking <- Asking, taken <- Taken

\* The hands an item is in: an insert's, the buffer's, a remove's or its caller's.
Holders(x) == Hands(x, Contents, Pending, item, Producers, Consumers)

\* What an insert still has to store is an item, never an empty cell.
InsertsHoldItems == \A p \in Producers : pc[p] \in Inserting => item[p] \in Items

\* Inserts and removes of any threads, interleaved in any way, look like a
\* FIFO queue of at most n items operated one call at a time.
ImplementsFifo == Fifo!Spec

\* ... and no insert or remove stays undone while the buffer has room or items.
FifoProgress == Fifo!Progress
=============================================================================
