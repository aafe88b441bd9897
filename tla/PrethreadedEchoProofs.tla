----------------------- MODULE PrethreadedEchoProofs -----------------------
(* For every number of producers, consumers, cells and items: the           *)
(* semaphores of sbuf.c keep its buffer consistent, and the buffer           *)
(* implements the abstract bounded FIFO, while the counters fit in an int.   *)
(* The prethreaded echo server uses the buffer as it is meant to be used,    *)
(* counts every line once, and has each connection in one hand at a time.    *)
EXTENDS PrethreadedEcho, ThreadCountsProofs, SequenceTheorems

-----------------------------------------------------------------------------
(* The shared buffer *)

LEMMA ThreadsFinite ==
  /\ IsFiniteSet(Producers) /\ IsFiniteSet(Consumers) /\ IsFiniteSet(Threads)
  /\ Producers \subseteq Threads /\ Consumers \subseteq Threads
BY SBufAssumption, FS_Union DEF Threads

\* What a step of thread t from one place to another does to a count.
Delta(S, places, t, from, to) ==
  /\ Count(pc, S, places) \in Nat
  /\ Count(pc', S, places) \in Nat
  /\ Count(pc', S, places) = Count(pc, S, places)
                             + (IF t \in S /\ to \in places THEN 1 ELSE 0)
                             - (IF t \in S /\ from \in places THEN 1 ELSE 0)

LEMMA Moves ==
  ASSUME pc \in [Threads -> {"idle"} \cup InsertPlaces \cup RemovePlaces],
         NEW t \in Threads, NEW from, NEW to, Goto(t, from, to),
         NEW S \in {Producers, Consumers, Threads}, NEW places
  PROVE  Delta(S, places, t, from, to)
<1>1. IsFiniteSet(S) /\ S \subseteq Threads
  BY ThreadsFinite
<1>2. pc[t] = from /\ Moved(pc, pc', S, t, to)
  BY <1>1 DEF Goto, Moved
<1>3. Count(pc, S, places) \in Nat /\ Count(pc', S, places) \in Nat
  BY <1>1, AtFinite
<1>4. /\ t \in S /\ to \in places /\ pc[t] \notin places
           => Count(pc', S, places) = Count(pc, S, places) + 1
      /\ t \in S /\ to \notin places /\ pc[t] \in places
           => Count(pc', S, places) = Count(pc, S, places) - 1
      /\ t \notin S \/ (to \in places <=> pc[t] \in places)
           => Count(pc', S, places) = Count(pc, S, places)
  BY <1>1, <1>2, CountMove
<1> QED BY <1>2, <1>3, <1>4 DEF Delta

\* What it does to the six counts of the invariant.
Deltas(t, from, to) ==
  /\ Delta(Threads, Critical, t, from, to)
  /\ Delta(Producers, HoldingSlot, t, from, to)
  /\ Delta(Producers, AnnouncingItem, t, from, to)
  /\ Delta(Producers, Inserting, t, from, to)
  /\ Delta(Consumers, ClaimingItem, t, from, to)
  /\ Delta(Consumers, FreeingSlot, t, from, to)

LEMMA StepDeltas ==
  ASSUME TypeOK, NEW t \in Threads, NEW from, NEW to, Goto(t, from, to)
  PROVE  Deltas(t, from, to)
BY Moves DEF Deltas, TypeOK, PcOK

-----------------------------------------------------------------------------
LEMMA InitIInv == Init => IInv
<1> SUFFICES ASSUME Init PROVE IInv
  OBVIOUS
<1>1. TypeOK /\ front >= 0 /\ rear >= 0
  BY SBufAssumption, ThreadsFinite DEF Init, TypeOK, PcOK, DataOK, CountersOK, Cells
<1>2. ASSUME NEW S \in {Producers, Consumers, Threads}, NEW places, "idle" \notin places
      PROVE  Count(pc, S, places) = 0
  <2>1. At(pc, S, places) = {}
    BY <1>2, ThreadsFinite DEF At, Init
  <2> QED BY <2>1, FS_EmptySet DEF Count
<1>3. MutualExclusion
  BY <1>2 DEF MutualExclusion, Critical, Init
<1>4. PermitsConserved
  BY <1>2, SBufAssumption DEF HoldingSlot, FreeingSlot, AnnouncingItem,
    ClaimingItem, PermitsConserved, SlotsConserved, ItemsConserved, Init
<1>5. CallsCounted
  BY <1>2 DEF CallsCounted, Inserting, Init
<1> QED BY <1>1, <1>3, <1>4, <1>5 DEF IInv

-----------------------------------------------------------------------------
\* A thread that moves within its own procedure keeps every place well-typed.
LEMMA PlacesStayTyped ==
  ASSUME PcOK, NEW t \in Threads, NEW from, NEW to, Goto(t, from, to),
         \/ t \notin Consumers /\ to \in {"idle"} \cup InsertPlaces
         \/ t \notin Producers /\ to \in {"idle"} \cup RemovePlaces
  PROVE  PcOK'
BY DEF PcOK, Goto

\* One step per action; each moves one thread, which changes the counts.
LEMMA NextIInv ==
  ASSUME MaxCalls <= INT_MAX, IInv, [Next]_vars
  PROVE  IInv'
<1> USE DEF IInv, TypeOK, MutualExclusion, PermitsConserved, SlotsConserved,
            ItemsConserved, CallsCounted, Critical, HoldingSlot, FreeingSlot,
            AnnouncingItem, ClaimingItem, Inserting, sem
<1>0. SUFFICES ASSUME Next PROVE IInv'
  <2>1. CASE UNCHANGED vars
    BY <2>1 DEF vars, PcOK, DataOK, CountersOK, Count, At
  <2> QED BY <2>1
<1>1. ASSUME NEW p \in Producers, NEW x \in Items, CallInsert(p, x) PROVE IInv'
  <2>1. p \in Threads /\ p \notin Consumers /\ Goto(p, "idle", "ins_P_slots")
    BY <1>1, ThreadsFinite, SBufAssumption DEF CallInsert
  <2>2. Deltas(p, "idle", "ins_P_slots")
    BY <2>1, StepDeltas
  <2>3. MutualExclusion' /\ PermitsConserved' /\ CallsCounted'
    BY <1>1, <2>1, <2>2, SBufAssumption DEF Deltas, Delta, CountersOK, CallInsert
  <2>4. CountersOK' /\ front' >= 0 /\ rear' >= 0
    BY <1>1, <2>1, <2>2, <2>3, SBufAssumption DEF Deltas, Delta, CountersOK, CallInsert
  <2>5. PcOK'
    BY <2>1, PlacesStayTyped DEF InsertPlaces
  <2>6. DataOK'
    BY <1>1, <2>1 DEF DataOK, CallInsert
  <2> QED BY <2>3, <2>4, <2>5, <2>6
<1>2. ASSUME NEW p \in Producers, InsertPSlots(p) PROVE IInv'
  <2>1. p \in Threads /\ p \notin Consumers /\ Goto(p, "ins_P_slots", "ins_P_mutex")
    BY <1>2, ThreadsFinite, SBufAssumption DEF InsertPSlots
  <2>2. Deltas(p, "ins_P_slots", "ins_P_mutex")
    BY <2>1, StepDeltas
  <2>3. MutualExclusion' /\ PermitsConserved' /\ CallsCounted'
    BY <1>2, <2>1, <2>2, SBufAssumption DEF Deltas, Delta, CountersOK, InsertPSlots
  <2>4. CountersOK' /\ front' >= 0 /\ rear' >= 0
    BY <1>2, <2>1, <2>2, <2>3, SBufAssumption DEF Deltas, Delta, CountersOK, InsertPSlots
  <2>5. PcOK'
    BY <2>1, PlacesStayTyped DEF InsertPlaces
  <2>6. DataOK'
    BY <1>2, <2>1 DEF DataOK, InsertPSlots
  <2> QED BY <2>3, <2>4, <2>5, <2>6
<1>3. ASSUME NEW p \in Producers, InsertPMutex(p) PROVE IInv'
  <2>1. p \in Threads /\ p \notin Consumers /\ Goto(p, "ins_P_mutex", "ins_write")
    BY <1>3, ThreadsFinite, SBufAssumption DEF InsertPMutex
  <2>2. Deltas(p, "ins_P_mutex", "ins_write")
    BY <2>1, StepDeltas
  <2>3. MutualExclusion' /\ PermitsConserved' /\ CallsCounted'
    BY <1>3, <2>1, <2>2, SBufAssumption DEF Deltas, Delta, CountersOK, InsertPMutex
  <2>4. CountersOK' /\ front' >= 0 /\ rear' >= 0
    BY <1>3, <2>1, <2>2, <2>3, SBufAssumption DEF Deltas, Delta, CountersOK, InsertPMutex
  <2>5. PcOK'
    BY <2>1, PlacesStayTyped DEF InsertPlaces
  <2>6. DataOK'
    BY <1>3, <2>1 DEF DataOK, InsertPMutex
  <2> QED BY <2>3, <2>4, <2>5, <2>6
<1>4. ASSUME NEW p \in Producers, InsertWrite(p) PROVE IInv'
  <2>1. p \in Threads /\ p \notin Consumers /\ Goto(p, "ins_write", "ins_V_mutex")
    BY <1>4, ThreadsFinite, SBufAssumption DEF InsertWrite
  <2>2. Deltas(p, "ins_write", "ins_V_mutex")
    BY <2>1, StepDeltas
  <2>3. MutualExclusion' /\ PermitsConserved' /\ CallsCounted'
    BY <1>4, <2>1, <2>2, SBufAssumption DEF Deltas, Delta, CountersOK, InsertWrite, Inc
  <2>4. CountersOK' /\ front' >= 0 /\ rear' >= 0
    BY <1>4, <2>1, <2>2, <2>3, SBufAssumption DEF Deltas, Delta, CountersOK, InsertWrite, Inc
  <2>5. PcOK'
    BY <2>1, PlacesStayTyped DEF InsertPlaces
  <2>6. DataOK'
    BY <1>4, <2>1 DEF DataOK, InsertWrite
  <2> QED BY <2>3, <2>4, <2>5, <2>6
<1>5. ASSUME NEW p \in Producers, InsertVMutex(p) PROVE IInv'
  <2>1. p \in Threads /\ p \notin Consumers /\ Goto(p, "ins_V_mutex", "ins_V_items")
    BY <1>5, ThreadsFinite, SBufAssumption DEF InsertVMutex
  <2>2. Deltas(p, "ins_V_mutex", "ins_V_items")
    BY <2>1, StepDeltas
  <2>3. MutualExclusion' /\ PermitsConserved' /\ CallsCounted'
    BY <1>5, <2>1, <2>2, SBufAssumption DEF Deltas, Delta, CountersOK, InsertVMutex
  <2>4. CountersOK' /\ front' >= 0 /\ rear' >= 0
    BY <1>5, <2>1, <2>2, <2>3, SBufAssumption DEF Deltas, Delta, CountersOK, InsertVMutex
  <2>5. PcOK'
    BY <2>1, PlacesStayTyped DEF InsertPlaces
  <2>6. DataOK'
    BY <1>5, <2>1 DEF DataOK, InsertVMutex
  <2> QED BY <2>3, <2>4, <2>5, <2>6
<1>6. ASSUME NEW p \in Producers, InsertVItems(p) PROVE IInv'
  <2>1. p \in Threads /\ p \notin Consumers /\ Goto(p, "ins_V_items", "idle")
    BY <1>6, ThreadsFinite, SBufAssumption DEF InsertVItems
  <2>2. Deltas(p, "ins_V_items", "idle")
    BY <2>1, StepDeltas
  <2>3. MutualExclusion' /\ PermitsConserved' /\ CallsCounted'
    BY <1>6, <2>1, <2>2, SBufAssumption DEF Deltas, Delta, CountersOK, InsertVItems
  <2>4. CountersOK' /\ front' >= 0 /\ rear' >= 0
    BY <1>6, <2>1, <2>2, <2>3, SBufAssumption DEF Deltas, Delta, CountersOK, InsertVItems
  <2>5. PcOK'
    BY <2>1, PlacesStayTyped DEF InsertPlaces
  <2>6. DataOK'
    BY <1>6, <2>1 DEF DataOK, InsertVItems
  <2> QED BY <2>3, <2>4, <2>5, <2>6
<1>7. ASSUME NEW c \in Consumers, CallRemove(c) PROVE IInv'
  <2>1. c \in Threads /\ c \notin Producers /\ Goto(c, "idle", "rem_P_items")
    BY <1>7, ThreadsFinite, SBufAssumption DEF CallRemove
  <2>2. Deltas(c, "idle", "rem_P_items")
    BY <2>1, StepDeltas
  <2>3. MutualExclusion' /\ PermitsConserved' /\ CallsCounted'
    BY <1>7, <2>1, <2>2, SBufAssumption DEF Deltas, Delta, CountersOK, CallRemove
  <2>4. CountersOK' /\ front' >= 0 /\ rear' >= 0
    BY <1>7, <2>1, <2>2, <2>3, SBufAssumption DEF Deltas, Delta, CountersOK, CallRemove
  <2>5. PcOK'
    BY <2>1, PlacesStayTyped DEF RemovePlaces
  <2>6. DataOK'
    BY <1>7, <2>1 DEF DataOK, CallRemove
  <2> QED BY <2>3, <2>4, <2>5, <2>6
<1>8. ASSUME NEW c \in Consumers, RemovePItems(c) PROVE IInv'
  <2>1. c \in Threads /\ c \notin Producers /\ Goto(c, "rem_P_items", "rem_P_mutex")
    BY <1>8, ThreadsFinite, SBufAssumption DEF RemovePItems
  <2>2. Deltas(c, "rem_P_items", "rem_P_mutex")
    BY <2>1, StepDeltas
  <2>3. MutualExclusion' /\ PermitsConserved' /\ CallsCounted'
    BY <1>8, <2>1, <2>2, SBufAssumption DEF Deltas, Delta, CountersOK, RemovePItems
  <2>4. CountersOK' /\ front' >= 0 /\ rear' >= 0
    BY <1>8, <2>1, <2>2, <2>3, SBufAssumption DEF Deltas, Delta, CountersOK, RemovePItems
  <2>5. PcOK'
    BY <2>1, PlacesStayTyped DEF RemovePlaces
  <2>6. DataOK'
    BY <1>8, <2>1 DEF DataOK, RemovePItems
  <2> QED BY <2>3, <2>4, <2>5, <2>6
<1>9. ASSUME NEW c \in Consumers, RemovePMutex(c) PROVE IInv'
  <2>1. c \in Threads /\ c \notin Producers /\ Goto(c, "rem_P_mutex", "rem_read")
    BY <1>9, ThreadsFinite, SBufAssumption DEF RemovePMutex
  <2>2. Deltas(c, "rem_P_mutex", "rem_read")
    BY <2>1, StepDeltas
  <2>3. MutualExclusion' /\ PermitsConserved' /\ CallsCounted'
    BY <1>9, <2>1, <2>2, SBufAssumption DEF Deltas, Delta, CountersOK, RemovePMutex
  <2>4. CountersOK' /\ front' >= 0 /\ rear' >= 0
    BY <1>9, <2>1, <2>2, <2>3, SBufAssumption DEF Deltas, Delta, CountersOK, RemovePMutex
  <2>5. PcOK'
    BY <2>1, PlacesStayTyped DEF RemovePlaces
  <2>6. DataOK'
    BY <1>9, <2>1 DEF DataOK, RemovePMutex
  <2> QED BY <2>3, <2>4, <2>5, <2>6
<1>10. ASSUME NEW c \in Consumers, RemoveRead(c) PROVE IInv'
  <2>1. c \in Threads /\ c \notin Producers /\ Goto(c, "rem_read", "rem_V_mutex")
    BY <1>10, ThreadsFinite, SBufAssumption DEF RemoveRead
  <2>2. Deltas(c, "rem_read", "rem_V_mutex")
    BY <2>1, StepDeltas
  <2>3. MutualExclusion' /\ PermitsConserved' /\ CallsCounted'
    BY <1>10, <2>1, <2>2, SBufAssumption DEF Deltas, Delta, CountersOK, RemoveRead, Inc
  <2>4. CountersOK' /\ front' >= 0 /\ rear' >= 0
    BY <1>10, <2>1, <2>2, <2>3, SBufAssumption DEF Deltas, Delta, CountersOK, RemoveRead, Inc
  <2>5. PcOK'
    BY <2>1, PlacesStayTyped DEF RemovePlaces
  <2>6. DataOK'
    BY <1>10, <2>1 DEF DataOK, RemoveRead
  <2> QED BY <2>3, <2>4, <2>5, <2>6
<1>11. ASSUME NEW c \in Consumers, RemoveVMutex(c) PROVE IInv'
  <2>1. c \in Threads /\ c \notin Producers /\ Goto(c, "rem_V_mutex", "rem_V_slots")
    BY <1>11, ThreadsFinite, SBufAssumption DEF RemoveVMutex
  <2>2. Deltas(c, "rem_V_mutex", "rem_V_slots")
    BY <2>1, StepDeltas
  <2>3. MutualExclusion' /\ PermitsConserved' /\ CallsCounted'
    BY <1>11, <2>1, <2>2, SBufAssumption DEF Deltas, Delta, CountersOK, RemoveVMutex
  <2>4. CountersOK' /\ front' >= 0 /\ rear' >= 0
    BY <1>11, <2>1, <2>2, <2>3, SBufAssumption DEF Deltas, Delta, CountersOK, RemoveVMutex
  <2>5. PcOK'
    BY <2>1, PlacesStayTyped DEF RemovePlaces
  <2>6. DataOK'
    BY <1>11, <2>1 DEF DataOK, RemoveVMutex
  <2> QED BY <2>3, <2>4, <2>5, <2>6
<1>12. ASSUME NEW c \in Consumers, RemoveVSlots(c) PROVE IInv'
  <2>1. c \in Threads /\ c \notin Producers /\ Goto(c, "rem_V_slots", "idle")
    BY <1>12, ThreadsFinite, SBufAssumption DEF RemoveVSlots
  <2>2. Deltas(c, "rem_V_slots", "idle")
    BY <2>1, StepDeltas
  <2>3. MutualExclusion' /\ PermitsConserved' /\ CallsCounted'
    BY <1>12, <2>1, <2>2, SBufAssumption DEF Deltas, Delta, CountersOK, RemoveVSlots
  <2>4. CountersOK' /\ front' >= 0 /\ rear' >= 0
    BY <1>12, <2>1, <2>2, <2>3, SBufAssumption DEF Deltas, Delta, CountersOK, RemoveVSlots
  <2>5. PcOK'
    BY <2>1, PlacesStayTyped DEF RemovePlaces
  <2>6. DataOK'
    BY <1>12, <2>1 DEF DataOK, RemoveVSlots
  <2> QED BY <2>3, <2>4, <2>5, <2>6
<1>13. ASSUME NEW c \in Consumers, Done(c) PROVE IInv'
  BY <1>13, ThreadsFinite DEF Done, PcOK, DataOK, CountersOK
<1> QED
  BY <1>0, <1>1, <1>2, <1>3, <1>4, <1>5, <1>6, <1>7, <1>8, <1>9, <1>10, <1>11, <1>12, <1>13 DEF Next, InsertStep, RemoveStep

-----------------------------------------------------------------------------
\* The inductive invariant excludes overruns: a producer about to write holds
\* one of the N slots, a consumer about to read has claimed a queued item.
LEMMA IInvNoOverrun == IInv => NoOverrun
<1> SUFFICES ASSUME IInv PROVE NoOverrun
  OBVIOUS
<1>1. ASSUME NEW p \in Producers, pc[p] = "ins_write" PROVE rear - front < N
  <2>1. Count(pc, Producers, HoldingSlot) > 0
    BY <1>1, ThreadsFinite, CountPositive DEF HoldingSlot
  <2>2. Count(pc, Producers, HoldingSlot) \in Nat /\ Count(pc, Consumers, FreeingSlot) \in Nat
    BY ThreadsFinite, AtFinite
  <2> QED BY <2>1, <2>2, SBufAssumption
          DEF IInv, TypeOK, CountersOK, PermitsConserved, SlotsConserved
<1>2. ASSUME NEW c \in Consumers, pc[c] = "rem_read" PROVE rear - front > 0
  <2>1. Count(pc, Consumers, ClaimingItem) > 0
    BY <1>2, ThreadsFinite, CountPositive DEF ClaimingItem
  <2>2. Count(pc, Consumers, ClaimingItem) \in Nat /\ Count(pc, Producers, AnnouncingItem) \in Nat
    BY ThreadsFinite, AtFinite
  <2> QED BY <2>1, <2>2, SBufAssumption
          DEF IInv, TypeOK, CountersOK, PermitsConserved, ItemsConserved
<1> QED BY <1>1, <1>2 DEF NoOverrun, At

\* The invariant holds in every state, whatever the number of threads, cells
\* and items, if no more calls are made than an int can count.
THEOREM Invariance == MaxCalls <= INT_MAX => (Spec => []IInv)
<1> SUFFICES ASSUME MaxCalls <= INT_MAX PROVE Spec => []IInv
  OBVIOUS
<1>1. Init => IInv
  BY InitIInv
<1>2. IInv /\ [Next]_vars => IInv'
  BY NextIInv
<1> QED BY <1>1, <1>2, PTL DEF Spec

\* Every step keeps the types of the places, the cells and the counters
\* (sbuf.h:6-15), and the semaphores stay between 0 and n.
THEOREM TypeCorrect == MaxCalls <= INT_MAX => (Spec => []TypeOK)
<1>1. IInv => TypeOK
  BY DEF IInv
<1> QED BY <1>1, Invariance, PTL

\* sbuf.c:28-49 lets one thread at a time between P(&mutex) and V(&mutex).
THEOREM Exclusion == MaxCalls <= INT_MAX => (Spec => []MutualExclusion)
<1>1. IInv => MutualExclusion
  BY DEF IInv
<1> QED BY <1>1, Invariance, PTL

\* Slots and items are conserved by every interleaving of inserts and removes.
THEOREM Conservation == MaxCalls <= INT_MAX => (Spec => []PermitsConserved)
<1>1. IInv => PermitsConserved
  BY DEF IInv
<1> QED BY <1>1, Invariance, PTL

\* No insert overwrites a waiting item and no remove reads an emptied cell.
THEOREM OverrunFree == MaxCalls <= INT_MAX => (Spec => []NoOverrun)
<1>1. IInv => NoOverrun
  BY IInvNoOverrun
<1> QED BY <1>1, Invariance, PTL

-----------------------------------------------------------------------------
(* The buffer implements the abstract FIFO. *)

\* Counters less than N apart name different cells.
LEMMA CellsDiffer ==
  ASSUME NEW a \in Nat, NEW b \in Nat, a < b, b - a < N
  PROVE  a % N # b % N
<1> SUFFICES ASSUME a % N = b % N PROVE FALSE
  OBVIOUS
<1>1. /\ a = N * (a \div N) + (a % N) /\ a \div N \in Int
      /\ b = N * (b \div N) + (b % N) /\ b \div N \in Int
  BY SBufAssumption
<1>2. PICK d \in Int : d = (b \div N) - (a \div N)
  BY <1>1
<1>3. b - a = N * d
  BY <1>1, <1>2, SBufAssumption
<1>4. CASE d <= 0
  BY <1>3, <1>4, SBufAssumption
<1>5. CASE d >= 1
  BY <1>3, <1>5, SBufAssumption
<1> QED BY <1>4, <1>5

\* Items on their way into the buffer are items, in every step.
LEMMA HoldItems == IInv /\ InsertsHoldItems /\ [Next]_vars => InsertsHoldItems'
<1> SUFFICES ASSUME IInv, InsertsHoldItems, [Next]_vars PROVE InsertsHoldItems'
  OBVIOUS
<1> USE DEF IInv, TypeOK, PcOK, DataOK, InsertsHoldItems, Inserting, Goto
<1>1. CASE UNCHANGED vars
  BY <1>1 DEF vars
<1>2. ASSUME NEW p \in Producers, NEW x \in Items, CallInsert(p, x)
      PROVE  InsertsHoldItems'
  BY <1>2, ThreadsFinite DEF CallInsert
<1>3. ASSUME NEW p \in Producers, InsertStep(p) PROVE InsertsHoldItems'
  BY <1>3, ThreadsFinite DEF InsertStep, InsertPSlots, InsertPMutex, InsertWrite,
    InsertVMutex, InsertVItems
<1>4. ASSUME NEW c \in Consumers, CallRemove(c) \/ RemoveStep(c) \/ Done(c)
      PROVE  InsertsHoldItems'
  BY <1>4, ThreadsFinite, SBufAssumption DEF CallRemove, RemoveStep, RemovePItems,
    RemovePMutex, RemoveRead, RemoveVMutex, RemoveVSlots, Done
<1> QED BY <1>1, <1>2, <1>3, <1>4 DEF Next

\* A thread that waits for an item has none yet.
RemovesHoldNothing == \A c \in Consumers : pc[c] \in Removing => item[c] = NoItem

LEMMA HoldNothing == IInv /\ RemovesHoldNothing /\ [Next]_vars => RemovesHoldNothing'
<1> SUFFICES ASSUME IInv, RemovesHoldNothing, [Next]_vars PROVE RemovesHoldNothing'
  OBVIOUS
<1> USE DEF IInv, TypeOK, PcOK, DataOK, RemovesHoldNothing, Removing, Goto
<1>1. CASE UNCHANGED vars
  BY <1>1 DEF vars
<1>2. ASSUME NEW p \in Producers, InsertStep(p) \/ \E x \in Items : CallInsert(p, x)
      PROVE  RemovesHoldNothing'
  BY <1>2, ThreadsFinite, SBufAssumption DEF CallInsert, InsertStep, InsertPSlots,
    InsertPMutex, InsertWrite, InsertVMutex, InsertVItems
<1>3. ASSUME NEW c \in Consumers, CallRemove(c) \/ RemoveStep(c) \/ Done(c)
      PROVE  RemovesHoldNothing'
  BY <1>3, ThreadsFinite DEF CallRemove, RemoveStep, RemovePItems,
    RemovePMutex, RemoveRead, RemoveVMutex, RemoveVSlots, Done
<1> QED BY <1>1, <1>2, <1>3 DEF Next

\* The abstract queue has the length of the occupied part of the buffer.
LEMMA ContentsIsSeq ==
  ASSUME IInv
  PROVE  /\ Contents \in Seq(Items \cup {NoItem})
         /\ Len(Contents) = rear - front
         /\ rear - front \in 0 .. N
         /\ front \in Nat /\ rear \in Nat
<1>1. rear - front \in 0 .. N /\ front \in Nat /\ rear \in Nat
  <2>1. /\ Count(pc, Consumers, ClaimingItem) \in Nat
        /\ Count(pc, Consumers, FreeingSlot) \in Nat
        /\ Count(pc, Producers, AnnouncingItem) \in Nat
        /\ Count(pc, Producers, HoldingSlot) \in Nat
    BY ThreadsFinite, AtFinite
  <2> QED BY <2>1, SBufAssumption DEF IInv, TypeOK, CountersOK, PermitsConserved,
             SlotsConserved, ItemsConserved
<1>2. \A i \in 1 .. rear - front : buf[(front + i) % N] \in Items \cup {NoItem}
  <2>1. \A i \in 1 .. rear - front : (front + i) % N \in Cells
    BY <1>1, SBufAssumption DEF Cells
  <2> QED BY <2>1 DEF IInv, TypeOK, DataOK
<1>3. \A i \in 1 .. rear - front : Contents[i] \in Items \cup {NoItem}
  BY <1>2 DEF Contents
<1>4. Contents \in [1 .. rear - front -> Items \cup {NoItem}]
  BY <1>3 DEF Contents
<1> QED BY <1>1, <1>4

\* The write of an insert appends its item to the abstract queue.
LEMMA WriteAppends ==
  ASSUME MaxCalls <= INT_MAX, IInv, IInv', NEW p \in Producers, InsertWrite(p)
  PROVE  Contents' = Append(Contents, item[p]) /\ Len(Contents) < N
<1>1. /\ Contents \in Seq(Items \cup {NoItem}) /\ Len(Contents) = rear - front
      /\ front \in Nat /\ rear \in Nat /\ rear - front \in 0 .. N
  BY ContentsIsSeq
<1>2. rear - front < N
  BY IInvNoOverrun DEF NoOverrun, At, InsertWrite, Goto
<1>3. rear' = rear + 1 /\ front' = front
      /\ buf' = [buf EXCEPT ![(rear + 1) % N] = item[p]]
  <2>1. rear' >= 0 /\ rear \in -INT_MAX - 1 .. INT_MAX
    BY DEF IInv, TypeOK, CountersOK
  <2>2. rear' = Inc(rear)
    BY DEF InsertWrite
  <2>3. Inc(rear) = rear + 1
    BY <2>1, <2>2, SBufAssumption DEF Inc
  <2>4. CMod(rear + 1) = (rear + 1) % N
    BY <1>1 DEF CMod
  <2> QED BY <2>3, <2>4 DEF InsertWrite
<1>4. buf \in [Cells -> Items \cup {NoItem}] /\ (rear + 1) % N \in Cells
  BY <1>1, SBufAssumption DEF IInv, TypeOK, DataOK, Cells
<1>5. \A i \in 1 .. rear - front : buf'[(front + i) % N] = buf[(front + i) % N]
  <2> SUFFICES ASSUME NEW i \in 1 .. rear - front
               PROVE  buf'[(front + i) % N] = buf[(front + i) % N]
    OBVIOUS
  <2>1. /\ front + i \in Nat /\ rear + 1 \in Nat
        /\ front + i < rear + 1 /\ (rear + 1) - (front + i) < N
    BY <1>1, <1>2, SBufAssumption
  <2>2. (front + i) % N # (rear + 1) % N
    BY <2>1, CellsDiffer
  <2>3. (front + i) % N \in Cells
    BY <2>1, SBufAssumption DEF Cells
  <2> QED BY <1>3, <1>4, <2>2, <2>3
<1>6. buf'[(rear + 1) % N] = item[p]
  BY <1>3, <1>4
<1>7. Contents' = [i \in 1 .. rear - front + 1 |-> buf'[(front + i) % N]]
  BY <1>1, <1>3 DEF Contents
<1>8. /\ \A i \in 1 .. rear - front : Contents'[i] = Contents[i]
      /\ Contents'[rear - front + 1] = item[p]
  <2>1. \A i \in 1 .. rear - front : Contents'[i] = Contents[i]
    <3>1. \A i \in 1 .. rear - front : Contents[i] = buf[(front + i) % N]
      BY DEF Contents
    <3>2. \A i \in 1 .. rear - front : i \in 1 .. rear - front + 1
      BY <1>1
    <3>3. \A i \in 1 .. rear - front : Contents'[i] = buf'[(front + i) % N]
      BY <1>7, <3>2
    <3> QED BY <1>5, <3>1, <3>3
  <2>2. front + (rear - front + 1) = rear + 1 /\ rear - front + 1 \in 1 .. rear - front + 1
    BY <1>1
  <2>3. Contents'[rear - front + 1] = item[p]
    BY <1>6, <1>7, <2>2
  <2> QED BY <2>1, <2>3
<1>9. item[p] \in Items \cup {NoItem}
  BY ThreadsFinite DEF IInv, TypeOK, DataOK
<1>10. \A i \in 1 .. rear - front + 1 : Contents'[i] \in Items \cup {NoItem}
  <2>1. \A i \in 1 .. rear - front : Contents[i] \in Items \cup {NoItem}
    BY <1>1, ElementOfSeq
  <2> QED BY <1>1, <1>8, <1>9, <2>1
<1>11. Contents' \in [1 .. rear - front + 1 -> Items \cup {NoItem}]
  BY <1>7, <1>10
<1>12. Contents' = Append(Contents, item[p])
  <2> DEFINE m == rear - front
             S == Items \cup {NoItem}
             t == Contents'
  <2>1. m \in Nat /\ Contents \in Seq(S) /\ Len(Contents) = m
    BY <1>1
  <2>2. t \in [1 .. m + 1 -> S] /\ item[p] \in S
    BY <1>9, <1>11
  <2>3. (\A i \in 1 .. m : t[i] = Contents[i]) /\ t[m + 1] = item[p]
    BY <1>8
  <2> HIDE DEF m, S, t
  <2>4. t = Append(Contents, item[p])
    BY <2>1, <2>2, <2>3, IsAppend
  <2> QED BY <2>4 DEF t
<1> QED BY <1>1, <1>2, <1>12

\* The read of a remove takes the head of the abstract queue.
LEMMA ReadTakesHead ==
  ASSUME MaxCalls <= INT_MAX, IInv, IInv', NEW c \in Consumers, RemoveRead(c)
  PROVE  /\ Contents # <<>>
         /\ Contents' = Tail(Contents)
         /\ item' = [item EXCEPT ![c] = Head(Contents)]
<1>1. /\ Contents \in Seq(Items \cup {NoItem}) /\ Len(Contents) = rear - front
      /\ front \in Nat /\ rear \in Nat /\ rear - front \in 0 .. N
  BY ContentsIsSeq
<1>2. rear - front > 0
  BY IInvNoOverrun DEF NoOverrun, At, RemoveRead, Goto
<1>3. front' = front + 1 /\ Inc(front) = front + 1 /\ rear' = rear /\ buf' = buf
  <2>1. front' >= 0 /\ front \in -INT_MAX - 1 .. INT_MAX
    BY DEF IInv, TypeOK, CountersOK
  <2> QED BY <2>1, SBufAssumption DEF Inc, RemoveRead
<1>4. CMod(front + 1) = (front + 1) % N /\ (front + 1) % N \in Cells
  BY <1>1, SBufAssumption DEF CMod, Cells
<1>5. item' = [item EXCEPT ![c] = buf[(front + 1) % N]]
  BY <1>3, <1>4 DEF RemoveRead
<1>6. Contents # <<>> /\ Head(Contents) = buf[(front + 1) % N]
  BY <1>1, <1>2 DEF Contents
<1>7. Contents' = Tail(Contents)
  <2>1. Contents' = [i \in 1 .. rear - front - 1 |-> buf[(front + 1 + i) % N]]
    BY <1>1, <1>3 DEF Contents
  <2>3. \A i \in 1 .. rear - front - 1 : Contents[i + 1] = buf[(front + 1 + i) % N]
    BY <1>1 DEF Contents
  <2>4. \A i \in 1 .. rear - front - 1 : Contents'[i] = Contents[i + 1]
    BY <2>1, <2>3
  <2>5. \A i \in 1 .. rear - front - 1 : Contents'[i] \in Items \cup {NoItem}
    BY <1>1, <2>4, ElementOfSeq
  <2>6. Contents' \in [1 .. rear - front - 1 -> Items \cup {NoItem}]
    BY <2>1, <2>5
  <2> QED BY <1>1, <1>2, <2>4, <2>6, IsTail
<1> QED BY <1>5, <1>6, <1>7

\* The initial buffer is the empty queue.
LEMMA InitImplements == Init => Fifo!Init
<1> SUFFICES ASSUME Init PROVE Fifo!Init
  OBVIOUS
<1>1. Contents = <<>>
  BY DEF Init, Contents
<1>2. /\ \A p \in Producers : pc[p] \notin Inserting
      /\ \A c \in Consumers : pc[c] \notin Removing /\ item[c] = NoItem
  BY ThreadsFinite DEF Init, Inserting, Removing
<1>3. Pending = [p \in Producers |-> NoItem] /\ Taken = [c \in Consumers |-> NoItem]
  BY <1>2 DEF Pending, Taken
<1>4. Asking = [c \in Consumers |-> FALSE]
  <2>1. \A c \in Consumers : (pc[c] \in Removing) = FALSE
    BY <1>2
  <2> QED BY <2>1, Zenon DEF Asking
<1> QED BY <1>1, <1>3, <1>4 DEF Fifo!Init

LEMMA ContentsUnmoved ==
  ASSUME UNCHANGED <<buf, front, rear>>
  PROVE  Contents' = Contents
BY DEF Contents

\* A producer's step says nothing of the consumers' side, and conversely.
LEMMA ConsumersUnmoved ==
  ASSUME NEW p \in Producers, IInv, NEW from, NEW to, Goto(p, from, to),
         \A c \in Consumers : item'[c] = item[c]
  PROVE  Asking' = Asking /\ Taken' = Taken
<1>1. \A c \in Consumers : pc'[c] = pc[c]
  BY ThreadsFinite, SBufAssumption DEF Goto, IInv, TypeOK, PcOK
<1> QED BY <1>1 DEF Asking, Taken

LEMMA ProducersUnmoved ==
  ASSUME NEW c \in Consumers, IInv, NEW from, NEW to, Goto(c, from, to),
         \A p \in Producers : item'[p] = item[p]
  PROVE  Pending' = Pending
<1>1. \A p \in Producers : pc'[p] = pc[p]
  BY ThreadsFinite, SBufAssumption DEF Goto, IInv, TypeOK, PcOK
<1> QED BY <1>1 DEF Pending

\* How the mapped variables follow the thread that moves.
LEMMA PendingFollows ==
  ASSUME NEW p \in Producers, NEW x,
         \A q \in Producers : q # p => pc'[q] = pc[q] /\ item'[q] = item[q],
         pc'[p] \in Inserting => item'[p] = x,
         pc'[p] \notin Inserting => x = NoItem
  PROVE  Pending' = [Pending EXCEPT ![p] = x]
<1>1. Pending'[p] = x
  BY DEF Pending
<1>2. \A q \in Producers : q # p => Pending'[q] = Pending[q]
  BY DEF Pending
<1>3. Pending' = [q \in Producers |-> Pending'[q]] /\ DOMAIN Pending = Producers
  BY DEF Pending
<1> QED BY <1>1, <1>2, <1>3

LEMMA AskingFollows ==
  ASSUME NEW c \in Consumers, NEW b \in BOOLEAN,
         \A d \in Consumers : d # c => pc'[d] = pc[d],
         pc'[c] \in Removing <=> b
  PROVE  Asking' = [Asking EXCEPT ![c] = b]
<1>1. Asking'[c] = b
  BY DEF Asking
<1>2. \A d \in Consumers : d # c => Asking'[d] = Asking[d]
  BY DEF Asking
<1>3. Asking' = [d \in Consumers |-> Asking'[d]] /\ DOMAIN Asking = Consumers
  BY DEF Asking
<1> QED BY <1>1, <1>2, <1>3

\* What each action of a producer is for the abstract queue.
LEMMA CallOffers ==
  ASSUME IInv, NEW p \in Producers, NEW x \in Items, CallInsert(p, x)
  PROVE  Fifo!Offer(p, x)
<1> USE DEF Goto
<1>0. /\ p \in Threads /\ p \notin Consumers
      /\ pc \in [Threads -> {"idle"} \cup InsertPlaces \cup RemovePlaces]
      /\ item \in [Threads -> Items \cup {NoItem}]
  BY ThreadsFinite, SBufAssumption DEF IInv, TypeOK, PcOK, DataOK
<1>1. Pending[p] = NoItem
  BY DEF Pending, CallInsert, Inserting
<1>2. Pending' = [Pending EXCEPT ![p] = x]
  <2>1. /\ pc'[p] = "ins_P_slots" /\ item'[p] = x
        /\ \A q \in Producers : q # p => pc'[q] = pc[q] /\ item'[q] = item[q]
    BY <1>0, ThreadsFinite DEF CallInsert
  <2> QED BY <2>1, PendingFollows DEF Inserting
<1>3. Asking' = Asking /\ Taken' = Taken
  BY <1>0, ThreadsFinite, SBufAssumption, ConsumersUnmoved DEF CallInsert
<1>4. Contents' = Contents
  BY ContentsUnmoved DEF CallInsert
<1> QED BY <1>1, <1>2, <1>3, <1>4 DEF Fifo!Offer

LEMMA WritePuts ==
  ASSUME MaxCalls <= INT_MAX, IInv, IInv', InsertsHoldItems, NEW p \in Producers,
         InsertWrite(p)
  PROVE  Fifo!Put(p) /\ Pending[p] \in Items
<1> USE DEF Goto
<1>0. /\ p \in Threads /\ p \notin Consumers
      /\ pc \in [Threads -> {"idle"} \cup InsertPlaces \cup RemovePlaces]
  BY ThreadsFinite, SBufAssumption DEF IInv, TypeOK, PcOK
<1>1. Pending[p] = item[p] /\ item[p] # NoItem /\ item[p] \in Items
  BY SBufAssumption DEF Pending, InsertWrite, Inserting, InsertsHoldItems
<1>2. Pending' = [Pending EXCEPT ![p] = NoItem]
  <2>1. /\ pc'[p] = "ins_V_mutex"
        /\ \A q \in Producers : q # p => pc'[q] = pc[q] /\ item'[q] = item[q]
    BY <1>0, ThreadsFinite DEF InsertWrite
  <2> QED BY <2>1, PendingFollows DEF Inserting
<1>3. Asking' = Asking /\ Taken' = Taken
  BY <1>0, ConsumersUnmoved DEF InsertWrite
<1>4. Contents' = Append(Contents, item[p]) /\ Len(Contents) < N
  BY WriteAppends
<1> QED BY <1>1, <1>2, <1>3, <1>4 DEF Fifo!Put

LEMMA InsertStutters ==
  ASSUME IInv, NEW p \in Producers,
         InsertPSlots(p) \/ InsertPMutex(p) \/ InsertVMutex(p) \/ InsertVItems(p)
  PROVE  UNCHANGED Fifo!vars
<1> USE DEF Goto
<1>0. /\ p \in Threads /\ p \notin Consumers /\ Consumers \subseteq Threads
      /\ pc \in [Threads -> {"idle"} \cup InsertPlaces \cup RemovePlaces]
      /\ item \in [Threads -> Items \cup {NoItem}]
  BY ThreadsFinite, SBufAssumption DEF IInv, TypeOK, PcOK, DataOK
<1>1. Contents' = Contents
  BY ContentsUnmoved DEF InsertPSlots, InsertPMutex, InsertVMutex, InsertVItems
<1>2. Asking' = Asking /\ Taken' = Taken
  BY <1>0, ConsumersUnmoved DEF InsertPSlots, InsertPMutex, InsertVMutex, InsertVItems
<1>3. Pending' = Pending
  <2>1. \A q \in Producers : q # p => pc'[q] = pc[q] /\ item'[q] = item[q]
    BY <1>0, ThreadsFinite DEF InsertPSlots, InsertPMutex, InsertVMutex, InsertVItems
  <2>2. /\ pc'[p] \in Inserting <=> pc[p] \in Inserting
        /\ pc[p] \in Inserting => item'[p] = item[p]
    BY <1>0 DEF Inserting, InsertPSlots, InsertPMutex, InsertVMutex, InsertVItems
  <2>3. Pending[p] = (IF pc[p] \in Inserting THEN item[p] ELSE NoItem)
    BY DEF Pending
  <2>4. Pending' = [Pending EXCEPT ![p] = Pending[p]]
    BY <2>1, <2>2, <2>3, PendingFollows
  <2> QED BY <2>4 DEF Pending
<1> QED BY <1>1, <1>2, <1>3 DEF Fifo!vars

\* And what each action of a consumer is.
LEMMA CallAsks ==
  ASSUME IInv, NEW c \in Consumers, CallRemove(c)
  PROVE  Fifo!Ask(c)
<1> USE DEF Goto
<1>0. /\ c \in Threads /\ c \notin Producers
      /\ pc \in [Threads -> {"idle"} \cup InsertPlaces \cup RemovePlaces]
  BY ThreadsFinite, SBufAssumption DEF IInv, TypeOK, PcOK
<1>1. ~Asking[c]
  BY DEF Asking, CallRemove, Removing
<1>2. Asking' = [Asking EXCEPT ![c] = TRUE]
  <2>1. pc'[c] = "rem_P_items" /\ \A d \in Consumers : d # c => pc'[d] = pc[d]
    BY <1>0, ThreadsFinite DEF CallRemove
  <2> QED BY <2>1, AskingFollows DEF Removing
<1>3. Taken[c] = NoItem /\ Taken' = Taken /\ Contents' = Contents
  BY ContentsUnmoved DEF CallRemove, Taken
<1>4. Pending' = Pending
  BY <1>0, ProducersUnmoved DEF CallRemove
<1> QED BY <1>1, <1>2, <1>3, <1>4 DEF Fifo!Ask

LEMMA ReadTakes ==
  ASSUME MaxCalls <= INT_MAX, IInv, IInv', NEW c \in Consumers, RemoveRead(c)
  PROVE  Fifo!Take(c)
<1> USE DEF Goto
<1>0. /\ c \in Threads /\ c \notin Producers /\ Producers \subseteq Threads
      /\ pc \in [Threads -> {"idle"} \cup InsertPlaces \cup RemovePlaces]
      /\ item \in [Threads -> Items \cup {NoItem}]
  BY ThreadsFinite, SBufAssumption DEF IInv, TypeOK, PcOK, DataOK
<1>1. Asking[c]
  BY DEF Asking, RemoveRead, Removing
<1>2. Asking' = [Asking EXCEPT ![c] = FALSE]
  <2>1. pc'[c] = "rem_V_mutex" /\ \A d \in Consumers : d # c => pc'[d] = pc[d]
    BY <1>0, ThreadsFinite DEF RemoveRead
  <2> QED BY <2>1, AskingFollows DEF Removing
<1>3. /\ Contents # <<>> /\ Contents' = Tail(Contents)
      /\ item' = [item EXCEPT ![c] = Head(Contents)]
  BY ReadTakesHead
<1>4. Taken' = [Taken EXCEPT ![c] = Head(Contents)]
  BY <1>0, <1>3, ThreadsFinite DEF Taken
<1>5. Pending' = Pending
  BY <1>0, <1>3, ProducersUnmoved DEF RemoveRead
<1> QED BY <1>1, <1>2, <1>3, <1>4, <1>5 DEF Fifo!Take

LEMMA DoneReleases ==
  ASSUME IInv, NEW c \in Consumers, Done(c)
  PROVE  Fifo!Release(c)
<1>0. /\ c \notin Producers /\ Producers \subseteq Threads
      /\ item \in [Threads -> Items \cup {NoItem}]
  BY ThreadsFinite, SBufAssumption DEF IInv, TypeOK, DataOK
<1>1. Taken[c] # NoItem /\ Taken' = [Taken EXCEPT ![c] = NoItem]
  BY <1>0, ThreadsFinite DEF Taken, Done
<1>2. Contents' = Contents /\ Asking' = Asking
  BY ContentsUnmoved DEF Asking, Done
<1>3. Pending' = Pending
  BY <1>0 DEF Pending, Done
<1> QED BY <1>1, <1>2, <1>3 DEF Fifo!Release

LEMMA RemoveStutters ==
  ASSUME IInv, NEW c \in Consumers,
         RemovePItems(c) \/ RemovePMutex(c) \/ RemoveVMutex(c) \/ RemoveVSlots(c)
  PROVE  UNCHANGED Fifo!vars
<1> USE DEF Goto
<1>0. /\ c \in Threads /\ c \notin Producers
      /\ pc \in [Threads -> {"idle"} \cup InsertPlaces \cup RemovePlaces]
  BY ThreadsFinite, SBufAssumption DEF IInv, TypeOK, PcOK
<1>1. Contents' = Contents /\ Taken' = Taken
  BY ContentsUnmoved DEF Taken, RemovePItems, RemovePMutex, RemoveVMutex, RemoveVSlots
<1>2. Asking' = Asking
  <2>1. \A d \in Consumers : d # c => pc'[d] = pc[d]
    BY <1>0, ThreadsFinite DEF RemovePItems, RemovePMutex, RemoveVMutex, RemoveVSlots
  <2>2. pc'[c] \in Removing <=> pc[c] \in Removing
    BY <1>0 DEF Removing, RemovePItems, RemovePMutex, RemoveVMutex, RemoveVSlots
  <2>3. \A d \in Consumers : (pc'[d] \in Removing) = (pc[d] \in Removing)
    BY <2>1, <2>2
  <2> QED BY <2>3, Zenon DEF Asking
<1>3. Pending' = Pending
  BY <1>0, ProducersUnmoved DEF RemovePItems, RemovePMutex, RemoveVMutex, RemoveVSlots
<1> QED BY <1>1, <1>2, <1>3 DEF Fifo!vars

\* Together: every step of the buffer is a step of the queue or leaves it alone.
LEMMA NextImplements ==
  ASSUME MaxCalls <= INT_MAX, IInv, IInv', InsertsHoldItems, [Next]_vars
  PROVE  [Fifo!Next]_(Fifo!vars)
<1>1. CASE UNCHANGED vars
  BY <1>1, ContentsUnmoved DEF vars, Fifo!vars, Pending, Asking, Taken
<1>2. ASSUME NEW p \in Producers, InsertStep(p) \/ \E x \in Items : CallInsert(p, x)
      PROVE  [Fifo!Next]_(Fifo!vars)
  <2>1. (\E x \in Items : Fifo!Offer(p, x)) \/ Fifo!Put(p) \/ UNCHANGED Fifo!vars
    BY <1>2, CallOffers, WritePuts, InsertStutters DEF InsertStep
  <2> QED BY <2>1 DEF Fifo!Next
<1>3. ASSUME NEW c \in Consumers, CallRemove(c) \/ RemoveStep(c) \/ Done(c)
      PROVE  [Fifo!Next]_(Fifo!vars)
  <2>1. Fifo!Ask(c) \/ Fifo!Take(c) \/ Fifo!Release(c) \/ UNCHANGED Fifo!vars
    BY <1>3, CallAsks, ReadTakes, DoneReleases, RemoveStutters DEF RemoveStep
  <2> QED BY <2>1 DEF Fifo!Next
<1> QED BY <1>1, <1>2, <1>3 DEF Next

\* Every step of sbuf.c's inserts and removes is a step of the abstract FIFO
\* or leaves it alone: callers cannot tell the buffer from a bounded queue.
THEOREM FifoRefinement == MaxCalls <= INT_MAX => (Spec => ImplementsFifo)
<1> SUFFICES ASSUME MaxCalls <= INT_MAX PROVE Spec => ImplementsFifo
  OBVIOUS
<1>1. Init => Fifo!Init
  BY InitImplements
<1>2. Init => InsertsHoldItems
  BY ThreadsFinite DEF Init, InsertsHoldItems, Inserting
<1>3. IInv /\ InsertsHoldItems /\ [Next]_vars => InsertsHoldItems'
  BY HoldItems
<1>4. IInv /\ IInv' /\ InsertsHoldItems /\ [Next]_vars => [Fifo!Next]_(Fifo!vars)
  BY NextImplements
<1>5. Spec => []IInv
  BY Invariance
<1> QED BY <1>1, <1>2, <1>3, <1>4, <1>5, PTL DEF Spec, ImplementsFifo, Fifo!Spec

-----------------------------------------------------------------------------
(* The hands an item is in change with the calls and the releases only. *)

LEMMA FiniteAndSeq ==
  ASSUME IInv
  PROVE  /\ IsFiniteSet(Producers) /\ IsFiniteSet(Consumers)
         /\ \E T : Contents \in Seq(T) /\ \A t \in Threads : item[t] \in T
<1>1. /\ Contents \in Seq(Items \cup {NoItem})
      /\ \A t \in Threads : item[t] \in Items \cup {NoItem}
  BY ContentsIsSeq DEF IInv, TypeOK, DataOK
<1> QED BY <1>1, ThreadsFinite

LEMMA HoldersNat ==
  ASSUME IInv, NEW y
  PROVE  Holders(y) \in Nat
BY FiniteAndSeq, HandsNat DEF Holders

LEMMA CallAddsHolder ==
  ASSUME IInv, NEW p \in Producers, NEW x \in Items, CallInsert(p, x), NEW y \in Items
  PROVE  Holders(y)' = Holders(y) + Same(x, y)
<1>1. Fifo!Offer(p, x)
  BY CallOffers
<1>2. Contents' = Contents /\ Pending' = [Pending EXCEPT ![p] = x] /\ Pending[p] # y
  BY <1>1, SBufAssumption DEF Fifo!Offer
<1>3. Pending'[p] = x /\ \A q \in Producers : q # p => Pending'[q] = Pending[q]
  BY <1>2 DEF Pending
<1>4. Hands(y, Contents, Pending', item, Producers, Consumers)
        = Hands(y, Contents, Pending, item, Producers, Consumers) + Same(Pending'[p], y)
  <2>1. PICK T : Contents \in Seq(T)
    BY FiniteAndSeq
  <2>2. Pending[p] # y
    BY <1>2
  <2> QED BY <1>3, <2>1, <2>2, ThreadsFinite, OfferHands
<1>5. \A c \in Consumers : item'[c] = item[c]
  BY ThreadsFinite, SBufAssumption DEF CallInsert, IInv, TypeOK, DataOK
<1>6. Where(item', Consumers, y) = Where(item, Consumers, y)
  BY <1>5 DEF Where
<1> QED BY <1>2, <1>3, <1>4, <1>6 DEF Holders, Hands

LEMMA WriteKeepsHolders ==
  ASSUME MaxCalls <= INT_MAX, IInv, IInv', InsertsHoldItems, NEW y \in Items,
         NEW p \in Producers, InsertWrite(p)
  PROVE  Holders(y)' = Holders(y)
<1>1. Fifo!Put(p)
  BY WritePuts
<1>2. /\ Contents' = Append(Contents, Pending[p]) /\ item' = item
      /\ Pending' = [Pending EXCEPT ![p] = NoItem] /\ Pending[p] = item[p]
  BY <1>1 DEF Fifo!Put, InsertWrite, Goto, Pending, Inserting
<1>3. Pending'[p] # y /\ \A q \in Producers : q # p => Pending'[q] = Pending[q]
  BY <1>2, SBufAssumption DEF Pending
<1>4. PICK T : Contents \in Seq(T) /\ Pending[p] \in T
  BY <1>2, FiniteAndSeq, ThreadsFinite
<1>5. Hands(y, Append(Contents, Pending[p]), Pending', item, Producers, Consumers)
        = Hands(y, Contents, Pending, item, Producers, Consumers)
  BY <1>3, <1>4, ThreadsFinite, PutHands
<1> QED BY <1>2, <1>5 DEF Holders

LEMMA ReadKeepsHolders ==
  ASSUME MaxCalls <= INT_MAX, IInv, IInv', RemovesHoldNothing, NEW y \in Items,
         NEW c \in Consumers, RemoveRead(c)
  PROVE  Holders(y)' = Holders(y)
<1>1. Fifo!Take(c)
  BY ReadTakes
<1>2. /\ Contents # <<>> /\ Contents' = Tail(Contents) /\ Pending' = Pending
      /\ item' = [item EXCEPT ![c] = Head(Contents)]
  BY <1>1, ReadTakesHead DEF Fifo!Take
<1>3. item[c] # y
  BY SBufAssumption DEF RemovesHoldNothing, Removing, RemoveRead, Goto
<1>4. item'[c] = Head(Contents) /\ \A d \in Consumers : d # c => item'[d] = item[d]
  BY <1>2, ThreadsFinite DEF IInv, TypeOK, DataOK
<1>5. PICK T : Contents \in Seq(T)
  BY FiniteAndSeq
<1>6. Hands(y, Tail(Contents), Pending, item', Producers, Consumers)
        = Hands(y, Contents, Pending, item, Producers, Consumers)
  <2>1. Contents # <<>>
    BY <1>2
  <2> QED BY <1>3, <1>4, <1>5, <2>1, ThreadsFinite, TakeHands
<1> QED BY <1>2, <1>6 DEF Holders

LEMMA BufferKeepsHolders ==
  ASSUME MaxCalls <= INT_MAX, IInv, IInv', InsertsHoldItems, RemovesHoldNothing,
         NEW y \in Items,
         \/ \E p \in Producers : InsertStep(p)
         \/ \E c \in Consumers : CallRemove(c) \/ RemoveStep(c)
  PROVE  Holders(y)' = Holders(y)
<1>1. CASE Contents' = Contents /\ Pending' = Pending /\ Taken' = Taken
  <2>1. \A c \in Consumers : item'[c] = item[c]
    BY <1>1 DEF Taken
  <2>2. Where(item', Consumers, y) = Where(item, Consumers, y)
    BY <2>1 DEF Where
  <2> QED BY <1>1, <2>2 DEF Holders, Hands
<1>2. ASSUME NEW p \in Producers, InsertStep(p)
      PROVE  InsertWrite(p) \/ (Contents' = Contents /\ Pending' = Pending /\ Taken' = Taken)
  BY <1>2, InsertStutters DEF InsertStep, Fifo!vars
<1>3. ASSUME NEW c \in Consumers, CallRemove(c) \/ RemoveStep(c)
      PROVE  RemoveRead(c) \/ (Contents' = Contents /\ Pending' = Pending /\ Taken' = Taken)
  BY <1>3, RemoveStutters, CallAsks DEF RemoveStep, Fifo!vars, Fifo!Ask
<1> QED BY <1>1, <1>2, <1>3, WriteKeepsHolders, ReadKeepsHolders

LEMMA DoneDropsHolder ==
  ASSUME IInv, NEW c \in Consumers, Done(c)
  PROVE  /\ item[c] \in Items /\ Holders(item[c]) >= 1
         /\ \A y \in Items : Holders(y)' = Holders(y) - Same(item[c], y)
<1>1. Contents' = Contents /\ Pending' = Pending
  BY DoneReleases DEF Fifo!Release
<1>2. item[c] \in Items
  BY ThreadsFinite DEF Done, IInv, TypeOK, DataOK
<1>3. item'[c] = NoItem /\ \A d \in Consumers : d # c => item'[d] = item[d]
  BY ThreadsFinite DEF Done, IInv, TypeOK, DataOK
<1>4. PICK T : Contents \in Seq(T)
  BY FiniteAndSeq
<1>5. ASSUME NEW y \in Items
      PROVE  Hands(y, Contents, Pending, item', Producers, Consumers)
               = Hands(y, Contents, Pending, item, Producers, Consumers) - Same(item[c], y)
  <2>1. item'[c] # y /\ \A d \in Consumers : d # c => item'[d] = item[d]
    BY <1>3, SBufAssumption
  <2> QED BY <1>4, <2>1, ThreadsFinite, ReleaseHands
<1>6. Hands(item[c], Contents, Pending, item, Producers, Consumers) >= 1
  BY <1>4, ThreadsFinite, TakenInHand
<1> QED BY <1>1, <1>2, <1>5, <1>6 DEF Holders

-----------------------------------------------------------------------------
(* The server's use of the buffer *)

LEMMA StepIsBufferStep == [EchoNext]_evars => [Next]_vars
<1> SUFFICES ASSUME [EchoNext]_evars PROVE [Next]_vars
  OBVIOUS
<1>1. CASE UNCHANGED evars
  BY <1>1 DEF evars, sbuf
<1>2. ASSUME NEW m \in Producers, MainStep(m) PROVE Next
  BY <1>2 DEF MainStep, MainInBuffer, AcceptInsert, Next
<1>3. ASSUME NEW w \in Consumers, WorkerStep(w) PROVE Next \/ UNCHANGED vars
  <2>1. CASE WorkerInBuffer(w) \/ CloseConn(w)
    BY <2>1 DEF WorkerInBuffer, CloseConn, Next
  <2>2. CASE ~(WorkerInBuffer(w) \/ CloseConn(w))
    BY <1>3, <2>2 DEF WorkerStep, sbuf, EnterEcho, OnceFirst, InitEchoCnt, OnceDone,
      ReadLine, ReadEof, LockCounter, LoadCounter, StoreCounter, UnlockCounter,
      WriteLine, PeerKillsServer
  <2> QED BY <2>1, <2>2
<1>4. ASSUME NEW c \in Items, ClientStep(c) PROVE UNCHANGED vars
  BY <1>4 DEF ClientStep, Connect, SendLine, Leave, sbuf
<1> QED BY <1>1, <1>2, <1>3, <1>4 DEF EchoNext

\* The server drives the buffer by its two calls only (echoservert_pre.c:35,
\* 43): each of its behaviours is one of the buffer, so that whatever holds of
\* sbuf.c holds inside the server.
THEOREM ServerUsesBuffer == EchoSpec => Spec
<1>1. EchoInit => Init
  BY DEF EchoInit
<1> QED BY <1>1, StepIsBufferStep, PTL DEF EchoSpec, Spec

\* What is known of the buffer in every state of the server.
BufferInv == IInv /\ InsertsHoldItems /\ RemovesHoldNothing

LEMMA InitBufferInv == Init => BufferInv
<1> SUFFICES ASSUME Init PROVE BufferInv
  OBVIOUS
<1>1. InsertsHoldItems /\ RemovesHoldNothing
  BY ThreadsFinite DEF Init, InsertsHoldItems, Inserting, RemovesHoldNothing, Removing
<1> QED BY <1>1, InitIInv DEF BufferInv

LEMMA BufferInvariance == MaxCalls <= INT_MAX => (EchoSpec => []BufferInv)
<1> SUFFICES ASSUME MaxCalls <= INT_MAX PROVE EchoSpec => []BufferInv
  OBVIOUS
<1>1. EchoInit => BufferInv
  BY InitBufferInv DEF EchoInit
<1>2. BufferInv /\ [EchoNext]_evars => BufferInv'
  BY StepIsBufferStep, NextIInv, HoldItems, HoldNothing DEF BufferInv
<1> QED BY <1>1, <1>2, PTL DEF EchoSpec

-----------------------------------------------------------------------------
(* echo_cnt's counter *)

EchoPlaces == {"remove", "once", "init", "read", "lock", "load", "store", "unlock",
               "write", "close"}
Section == {"load", "store", "unlock"}

\* pthread_once: nobody passes it before the one call of init_echo_cnt ends.
OnceInv ==
  /\ once \in {"never", "running", "done"}
  /\ once # "done" =>
       /\ cntMutex = 0 /\ byte_cnt = 0
       /\ \A w \in Consumers : place[w] \in {"remove", "once", "init"}
  /\ \A w \in Consumers : place[w] = "init" => once = "running"
  /\ \A v, w \in Consumers : place[v] = "init" /\ place[w] = "init" => v = w

\* echo_cnt's mutex: one worker between P and V, and byte_cnt is still what it
\* has read it to be.
SectionInv ==
  /\ cntMutex \in 0 .. 1
  /\ \A w \in Consumers : place[w] \in Section => cntMutex = 0
  /\ \A v, w \in Consumers : place[v] \in Section /\ place[w] \in Section => v = w
  /\ \A w \in Consumers : place[w] = "store" => loaded[w] = byte_cnt

CounterTypes ==
  /\ place \in [Consumers -> EchoPlaces]
  /\ loaded \in [Consumers -> Nat]
  /\ byte_cnt \in Nat /\ linesRead \in Nat

CounterInv == CounterTypes /\ OnceInv /\ SectionInv /\ CountExact

Received == {"lock", "load", "store"}

\* What a worker's move does to the number of lines read and not yet counted.
LEMMA ReceivedMove ==
  ASSUME place \in [Consumers -> EchoPlaces], NEW w \in Consumers, NEW from, NEW to,
         Move(w, from, to)
  PROVE  /\ Count(place, Consumers, Received) \in Nat
         /\ Count(place', Consumers, Received) = Count(place, Consumers, Received)
              + (IF to \in Received THEN 1 ELSE 0) - (IF from \in Received THEN 1 ELSE 0)
<1>1. place[w] = from /\ Moved(place, place', Consumers, w, to)
  BY DEF Move, Moved
<1>2. Count(place, Consumers, Received) \in Nat
  BY AtFinite, ThreadsFinite
<1> QED BY <1>1, <1>2, CountMove, ThreadsFinite

LEMMA InitCounter == EchoInit => CounterInv
<1> SUFFICES ASSUME EchoInit PROVE CounterInv
  OBVIOUS
<1>1. At(place, Consumers, Received) = {}
  BY DEF At, EchoInit, Received
<1>2. CountExact
  BY <1>1, FS_EmptySet DEF CountExact, Count, Received, EchoInit
<1> QED BY <1>2 DEF EchoInit, CounterInv, CounterTypes, OnceInv, SectionInv, EchoPlaces,
                    Section

\* One step per action of the counter; the others move the worker at most.
LEMMA NextCounter == CounterInv /\ [EchoNext]_evars => CounterInv'
<1> SUFFICES ASSUME CounterInv, [EchoNext]_evars PROVE CounterInv'
  OBVIOUS
<1> USE DEF CounterInv, CounterTypes, EchoPlaces
<1>1. CASE UNCHANGED <<place, counter>>
  BY <1>1 DEF counter, OnceInv, SectionInv, CountExact, Count, At
<1>2. ASSUME NEW w \in Consumers, NEW from, NEW to, Move(w, from, to), UNCHANGED counter,
             \/ from \in {"remove", "close"} /\ to \in {"once", "remove"}
             \/ from = "once" /\ to = "read" /\ once = "done"
             \/ from \in {"read", "write"} /\ to \in {"read", "close"}
      PROVE  CounterInv'
  <2>1. CounterTypes' /\ OnceInv' /\ SectionInv'
    BY <1>2 DEF Move, counter, OnceInv, SectionInv, Section
  <2>2. CountExact'
    BY <1>2, ReceivedMove DEF Received, CountExact, counter
  <2> QED BY <2>1, <2>2
<1>3. ASSUME NEW w \in Consumers, OnceFirst(w) PROVE CounterInv'
  <2>1. CounterTypes' /\ OnceInv' /\ SectionInv'
    BY <1>3 DEF OnceFirst, Move, OnceInv, SectionInv, Section
  <2>2. CountExact'
    BY <1>3, ReceivedMove DEF Received, CountExact, OnceFirst
  <2> QED BY <2>1, <2>2
<1>4. ASSUME NEW w \in Consumers, InitEchoCnt(w) PROVE CounterInv'
  <2>1. CounterTypes' /\ OnceInv' /\ SectionInv'
    <3>1. CounterTypes'
      BY <1>4 DEF InitEchoCnt, Move
    <3>2. OnceInv'
      BY <1>4 DEF InitEchoCnt, Move, OnceInv
    <3>3. SectionInv'
      BY <1>4 DEF InitEchoCnt, Move, OnceInv, SectionInv, Section
    <3> QED BY <3>1, <3>2, <3>3
  <2>2. CountExact'
    <3>1. /\ Move(w, "init", "read") /\ byte_cnt' = byte_cnt /\ linesRead' = linesRead
      BY <1>4 DEF InitEchoCnt, OnceInv, Move
    <3>2. Count(place', Consumers, Received) = Count(place, Consumers, Received)
      BY <3>1, ReceivedMove DEF Received
    <3> QED BY <3>1, <3>2 DEF CountExact, Received
  <2> QED BY <2>1, <2>2
<1>5. ASSUME NEW w \in Consumers, ReadLine(w) PROVE CounterInv'
  <2>1. CounterTypes' /\ OnceInv' /\ SectionInv'
    BY <1>5 DEF ReadLine, Move, OnceInv, SectionInv, Section
  <2>2. CountExact'
    BY <1>5, ReceivedMove DEF Received, CountExact, ReadLine
  <2> QED BY <2>1, <2>2
<1>6. ASSUME NEW w \in Consumers, LockCounter(w) PROVE CounterInv'
  <2>1. CounterTypes' /\ OnceInv' /\ SectionInv'
    BY <1>6 DEF LockCounter, Move, OnceInv, SectionInv, Section
  <2>2. CountExact'
    BY <1>6, ReceivedMove DEF Received, CountExact, LockCounter
  <2> QED BY <2>1, <2>2
<1>7. ASSUME NEW w \in Consumers, LoadCounter(w) PROVE CounterInv'
  <2>1. CounterTypes' /\ OnceInv' /\ SectionInv'
    <3>1. CounterTypes'
      BY <1>7 DEF LoadCounter, Move
    <3>2. OnceInv'
      BY <1>7 DEF LoadCounter, Move, OnceInv
    <3>3. SectionInv'
      BY <1>7 DEF LoadCounter, Move, OnceInv, SectionInv, Section
    <3> QED BY <3>1, <3>2, <3>3
  <2>2. CountExact'
    <3>1. /\ Move(w, "load", "store") /\ byte_cnt' = byte_cnt /\ linesRead' = linesRead
      BY <1>7 DEF LoadCounter
    <3>2. Count(place', Consumers, Received) = Count(place, Consumers, Received)
      BY <3>1, ReceivedMove DEF Received
    <3> QED BY <3>1, <3>2 DEF CountExact, Received
  <2> QED BY <2>1, <2>2
<1>8. ASSUME NEW w \in Consumers, StoreCounter(w) PROVE CounterInv'
  <2>1. CounterTypes' /\ OnceInv' /\ SectionInv'
    <3>1. CounterTypes'
      BY <1>8 DEF StoreCounter, Move
    <3>2. OnceInv'
      BY <1>8 DEF StoreCounter, Move, OnceInv
    <3>3. SectionInv'
      BY <1>8 DEF StoreCounter, Move, OnceInv, SectionInv, Section
    <3> QED BY <3>1, <3>2, <3>3
  <2>2. CountExact'
    <3>1. /\ Move(w, "store", "unlock") /\ byte_cnt' = byte_cnt + 1
          /\ linesRead' = linesRead
      BY <1>8 DEF StoreCounter, SectionInv, Move
    <3>2. /\ Count(place, Consumers, Received) \in Nat
          /\ Count(place', Consumers, Received) = Count(place, Consumers, Received) - 1
      BY <3>1, ReceivedMove DEF Received
    <3> QED BY <3>1, <3>2 DEF CountExact, Received
  <2> QED BY <2>1, <2>2
<1>9. ASSUME NEW w \in Consumers, UnlockCounter(w) PROVE CounterInv'
  <2>1. CounterTypes' /\ OnceInv' /\ SectionInv'
    BY <1>9 DEF UnlockCounter, Move, OnceInv, SectionInv, Section
  <2>2. CountExact'
    BY <1>9, ReceivedMove DEF Received, CountExact, UnlockCounter
  <2> QED BY <2>1, <2>2
<1>10. ASSUME NEW w \in Consumers, WorkerStep(w) PROVE CounterInv'
  <2>1. CASE EnterEcho(w) \/ OnceDone(w) \/ ReadEof(w) \/ WriteLine(w) \/ CloseConn(w)
    BY <1>2, <2>1 DEF EnterEcho, OnceDone, ReadEof, WriteLine, CloseConn
  <2>2. CASE WorkerInBuffer(w) \/ PeerKillsServer(w)
    BY <1>1, <2>2 DEF WorkerInBuffer, PeerKillsServer
  <2> QED BY <1>3, <1>4, <1>5, <1>6, <1>7, <1>8, <1>9, <1>10, <2>1, <2>2 DEF WorkerStep
<1>11. ASSUME NEW m \in Producers, MainStep(m) PROVE CounterInv'
  BY <1>1, <1>11 DEF MainStep, MainInBuffer, AcceptInsert
<1>12. ASSUME NEW c \in Items, ClientStep(c) PROVE CounterInv'
  BY <1>1, <1>12 DEF ClientStep, Connect, SendLine, Leave
<1>13. CASE UNCHANGED evars
  BY <1>1, <1>13 DEF evars
<1> QED BY <1>10, <1>11, <1>12, <1>13 DEF EchoNext

\* byte_cnt counts each line the workers have read exactly once, for any number
\* of workers in any interleaving (echo_cnt.c:14-31).
THEOREM EveryLineCounted == EchoSpec => []CountExact
<1>1. CounterInv => CountExact
  BY DEF CounterInv
<1> QED BY <1>1, InitCounter, NextCounter, PTL DEF EchoSpec

-----------------------------------------------------------------------------
(* Who holds a connection *)

\* Outside sbuf_remove a worker holds the descriptor it has got from it.
ServingInv ==
  /\ place \in [Consumers -> EchoPlaces]
  /\ conn \in [Items -> {"new", "backlog", "accepted", "done"}]
  /\ \A w \in Consumers : place[w] # "remove" => pc[w] = "idle" /\ item[w] \in Items

OwnerInv == ServingInv /\ OneOwner

LEMMA InitOwner == EchoInit => OwnerInv
<1> SUFFICES ASSUME EchoInit PROVE OwnerInv
  OBVIOUS
<1>1. ServingInv
  BY DEF EchoInit, ServingInv, EchoPlaces
<1>2. ASSUME NEW y \in Items PROVE Holders(y) = 0
  <2>1. /\ Where(Pending, Producers, y) = {} /\ Where(item, Consumers, y) = {}
        /\ Contents = <<>>
    BY <1>2, ThreadsFinite, SBufAssumption
       DEF EchoInit, Init, Where, Pending, Inserting, Contents
  <2>2. Where(Contents, DOMAIN Contents, y) = {}
    BY <2>1 DEF Where
  <2>3. Cardinality({}) = 0
    BY FS_EmptySet
  <2>4. /\ Cardinality(Where(Pending, Producers, y)) = 0
        /\ Cardinality(Where(Contents, DOMAIN Contents, y)) = 0
        /\ Cardinality(Where(item, Consumers, y)) = 0
    BY <2>1, <2>2, <2>3, Zenon
  <2> QED BY <2>4 DEF Holders, Hands
<1>3. OneOwner
  BY <1>2 DEF OneOwner, EchoInit
<1> QED BY <1>1, <1>3 DEF OwnerInv

LEMMA NextServing ==
  ASSUME BufferInv, ServingInv, [EchoNext]_evars
  PROVE  ServingInv'
<1> USE DEF ServingInv, EchoPlaces
<1>0. /\ pc \in [Threads -> {"idle"} \cup InsertPlaces \cup RemovePlaces]
      /\ item \in [Threads -> Items \cup {NoItem}]
      /\ Consumers \subseteq Threads /\ Producers \cap Consumers = {}
  BY ThreadsFinite, SBufAssumption DEF BufferInv, IInv, TypeOK, PcOK, DataOK
<1>1. CASE UNCHANGED evars
  BY <1>1 DEF evars, sbuf, vars, clients
<1>2. ASSUME NEW m \in Producers, MainStep(m) PROVE ServingInv'
  <2>1. \A w \in Consumers : pc'[w] = pc[w] /\ item'[w] = item[w]
    BY <1>0, <1>2 DEF MainStep, MainInBuffer, AcceptInsert, CallInsert, InsertStep,
      InsertPSlots, InsertPMutex, InsertWrite, InsertVMutex, InsertVItems, Goto
  <2>2. place' = place /\ conn' \in [Items -> {"new", "backlog", "accepted", "done"}]
    BY <1>2 DEF MainStep, MainInBuffer, AcceptInsert, clients
  <2> QED BY <2>1, <2>2
<1>3. ASSUME NEW w \in Consumers, WorkerInBuffer(w) PROVE ServingInv'
  <2>1. \A v \in Consumers : v # w => pc'[v] = pc[v] /\ item'[v] = item[v]
    BY <1>0, <1>3 DEF WorkerInBuffer, CallRemove, RemoveStep, RemovePItems,
      RemovePMutex, RemoveRead, RemoveVMutex, RemoveVSlots, Goto
  <2> QED BY <1>3, <2>1 DEF WorkerInBuffer, clients
<1>4. ASSUME NEW w \in Consumers, CloseConn(w) PROVE ServingInv'
  <2>1. \A v \in Consumers : v # w => pc'[v] = pc[v] /\ item'[v] = item[v]
    BY <1>0, <1>4 DEF CloseConn, Done
  <2> QED BY <1>4, <2>1 DEF CloseConn, Move
<1>5. ASSUME NEW w \in Consumers, EnterEcho(w) PROVE ServingInv'
  BY <1>0, <1>5 DEF EnterEcho, Move, sbuf, vars, clients
<1>6. ASSUME NEW w \in Consumers,
             \/ OnceFirst(w) \/ InitEchoCnt(w) \/ OnceDone(w) \/ ReadLine(w) \/ ReadEof(w)
             \/ LockCounter(w) \/ LoadCounter(w) \/ StoreCounter(w) \/ UnlockCounter(w)
             \/ WriteLine(w) \/ PeerKillsServer(w)
      PROVE  ServingInv'
  <2>1. UNCHANGED <<pc, item, conn>>
    BY <1>6 DEF OnceFirst, InitEchoCnt, OnceDone, ReadLine, ReadEof, LockCounter,
      LoadCounter, StoreCounter, UnlockCounter, WriteLine, PeerKillsServer, sbuf, vars,
      clients
  <2>2. /\ place' \in [Consumers -> EchoPlaces]
        /\ \A v \in Consumers : place'[v] # "remove" => place[v] # "remove"
    BY <1>6 DEF OnceFirst, InitEchoCnt, OnceDone, ReadLine, ReadEof, LockCounter,
      LoadCounter, StoreCounter, UnlockCounter, WriteLine, PeerKillsServer, Move
  <2> QED BY <2>1, <2>2
<1>7. ASSUME NEW c \in Items, ClientStep(c) PROVE ServingInv'
  BY <1>7 DEF ClientStep, Connect, SendLine, Leave, sbuf, vars
<1> QED BY <1>1, <1>2, <1>3, <1>4, <1>5, <1>6, <1>7 DEF EchoNext, WorkerStep

LEMMA NextOwner ==
  ASSUME MaxCalls <= INT_MAX, BufferInv, BufferInv', OwnerInv, [EchoNext]_evars
  PROVE  OneOwner'
<1> USE DEF OneOwner, OwnerInv, BufferInv
<1>1. ASSUME UNCHANGED vars, \A y \in Items : conn'[y] = "accepted" <=> conn[y] = "accepted"
      PROVE  OneOwner'
  <2>1. Contents' = Contents /\ Pending' = Pending /\ item' = item
    BY <1>1 DEF vars, Contents, Pending
  <2> QED BY <1>1, <2>1 DEF Holders
<1>2. CASE UNCHANGED evars
  BY <1>1, <1>2 DEF evars, sbuf, clients
<1>3. ASSUME NEW m \in Producers, MainInBuffer(m) PROVE OneOwner'
  <2>1. conn' = conn /\ \A y \in Items : Holders(y)' = Holders(y)
    BY <1>3, BufferKeepsHolders DEF MainInBuffer, clients
  <2> QED BY <2>1
<1>4. ASSUME NEW m \in Producers, NEW c \in Items, AcceptInsert(m, c) PROVE OneOwner'
  <2>1. /\ conn[c] = "backlog" /\ conn'[c] = "accepted"
        /\ \A y \in Items : y # c => conn'[y] = conn[y]
    BY <1>4 DEF AcceptInsert, ServingInv
  <2>2. \A y \in Items : Holders(y)' = Holders(y) + Same(c, y)
    BY <1>4, CallAddsHolder DEF AcceptInsert
  <2>3. Holders(c)' = 1
    BY <2>1, <2>2 DEF Same
  <2>4. \A y \in Items : Holders(y) \in Nat
    BY HoldersNat
  <2>5. \A y \in Items : y # c => Holders(y)' = Holders(y)
    BY <2>2, <2>4 DEF Same
  <2> QED BY <2>1, <2>3, <2>5
<1>5. ASSUME NEW w \in Consumers, WorkerInBuffer(w) PROVE OneOwner'
  <2>1. conn' = conn /\ \A y \in Items : Holders(y)' = Holders(y)
    BY <1>5, BufferKeepsHolders DEF WorkerInBuffer, clients
  <2> QED BY <2>1
<1>6. ASSUME NEW w \in Consumers, CloseConn(w) PROVE OneOwner'
  <2>1. /\ item[w] \in Items /\ Holders(item[w]) >= 1
        /\ \A y \in Items : Holders(y)' = Holders(y) - Same(item[w], y)
    BY <1>6, DoneDropsHolder DEF CloseConn
  <2>2. PICK x \in Items : x = item[w]
    BY <2>1
  <2>3. conn'[x] = "done" /\ \A y \in Items : y # x => conn'[y] = conn[y]
    BY <1>6, <2>2 DEF CloseConn, ServingInv
  <2>4. Holders(x) = 1 /\ \A y \in Items : Holders(y) \in Nat
    BY <2>1, <2>2, HoldersNat
  <2>5. Holders(x)' = 0
    BY <2>1, <2>2, <2>4 DEF Same
  <2>6. \A y \in Items : y # x => Holders(y)' = Holders(y)
    BY <2>1, <2>2, <2>4 DEF Same
  <2> QED BY <2>3, <2>5, <2>6
<1>7. ASSUME NEW w \in Consumers,
             WorkerStep(w), ~WorkerInBuffer(w), ~CloseConn(w)
      PROVE  OneOwner'
  <2>1. UNCHANGED vars /\ conn' = conn
    BY <1>7 DEF WorkerStep, EnterEcho, OnceFirst, InitEchoCnt, OnceDone, ReadLine,
      ReadEof, LockCounter, LoadCounter, StoreCounter, UnlockCounter, WriteLine,
      PeerKillsServer, sbuf, clients
  <2> QED BY <1>1, <2>1
<1>8. ASSUME NEW c \in Items, ClientStep(c) PROVE OneOwner'
  <2>1. UNCHANGED vars
    BY <1>8 DEF ClientStep, Connect, SendLine, Leave, sbuf
  <2>2. \A y \in Items : conn'[y] = "accepted" <=> conn[y] = "accepted"
    BY <1>8 DEF ClientStep, Connect, SendLine, Leave, ServingInv
  <2> QED BY <1>1, <2>1, <2>2
<1> QED BY <1>2, <1>3, <1>4, <1>5, <1>6, <1>7, <1>8 DEF EchoNext, MainStep

\* From accept to close each connection is in exactly one hand, and after its
\* close in none (echoservert_pre.c:33-36, 41-46).
THEOREM OneOwnerAtATime == MaxCalls <= INT_MAX => (EchoSpec => []OneOwner)
<1> SUFFICES ASSUME MaxCalls <= INT_MAX PROVE EchoSpec => []OneOwner
  OBVIOUS
<1>1. BufferInv /\ BufferInv' /\ OwnerInv /\ [EchoNext]_evars => OwnerInv'
  BY NextServing, NextOwner DEF OwnerInv
<1>2. OwnerInv => OneOwner
  BY DEF OwnerInv
<1> QED BY <1>1, <1>2, InitOwner, BufferInvariance, PTL DEF EchoSpec
=============================================================================
