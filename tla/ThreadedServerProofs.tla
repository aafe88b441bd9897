------------------------ MODULE ThreadedServerProofs ------------------------
(* For every number of workers and clients and every queue size: the         *)
(* semaphores and the mutex of the thread pool keep its queue consistent,    *)
(* whatever accepts fail and whenever SIGINT comes.                          *)
EXTENDS ThreadCountsProofs, ThreadedServer

IInv == TypeOK /\ LockHeld /\ PermitsConserved

\* What worker w's move to place `to` does to the two counts.
MoveDelta(w, to, places) ==
  /\ Count(wpc, Workers, places) \in Nat
  /\ Count(wpc', Workers, places) \in Nat
  /\ Count(wpc', Workers, places) = Count(wpc, Workers, places)
                                    + (IF to \in places THEN 1 ELSE 0)
                                    - (IF wpc[w] \in places THEN 1 ELSE 0)

LEMMA WorkerMoves ==
  ASSUME DataOK, NEW w \in Workers, NEW to, wpc' = [wpc EXCEPT ![w] = to], NEW places
  PROVE  MoveDelta(w, to, places)
<1>1. IsFiniteSet(Workers)
  BY ThreadedAssumption
<1>2. Moved(wpc, wpc', Workers, w, to)
  BY DEF DataOK, Moved
<1>3. Count(wpc, Workers, places) \in Nat /\ Count(wpc', Workers, places) \in Nat
  BY <1>1, AtFinite
<1>4. /\ w \in Workers /\ to \in places /\ wpc[w] \notin places
           => Count(wpc', Workers, places) = Count(wpc, Workers, places) + 1
      /\ w \in Workers /\ to \notin places /\ wpc[w] \in places
           => Count(wpc', Workers, places) = Count(wpc, Workers, places) - 1
      /\ w \notin Workers \/ (to \in places <=> wpc[w] \in places)
           => Count(wpc', Workers, places) = Count(wpc, Workers, places)
  BY <1>1, <1>2, CountMove
<1> QED BY <1>3, <1>4 DEF MoveDelta

LEMMA CountsNat ==
  /\ Count(wpc, Workers, {"post"}) \in Nat /\ Count(wpc, Workers, {"lock", "pop"}) \in Nat
  /\ Count(wpc', Workers, {"post"}) \in Nat /\ Count(wpc', Workers, {"lock", "pop"}) \in Nat
BY ThreadedAssumption, AtFinite

-----------------------------------------------------------------------------
LEMMA InitIInv == Init => IInv
<1> SUFFICES ASSUME Init PROVE IInv
  OBVIOUS
<1>1. TypeOK
  BY ThreadedAssumption DEF Init, TypeOK, DataOK, CountersOK, MainPlaces, WorkerPlaces, Slots
<1>2. LockHeld
  BY ThreadedAssumption DEF Init, LockHeld
<1>3. ASSUME NEW places, "loop" \notin places PROVE Count(wpc, Workers, places) = 0
  <2>1. At(wpc, Workers, places) = {}
    BY <1>3 DEF At, Init
  <2> QED BY <2>1, FS_EmptySet DEF Count
<1>4. PermitsConserved
  BY <1>3, ThreadedAssumption DEF PermitsConserved, MainBusy, Init
<1> QED BY <1>1, <1>2, <1>4 DEF IInv

\* Data and places stay well-typed.
LEMMA NextData ==
  ASSUME DataOK, CountersOK, [Next]_vars
  PROVE  DataOK'
<1> USE ThreadedAssumption DEF DataOK, CountersOK, MainPlaces, WorkerPlaces, Slots, shared, main, workers, clients
<1>1. CASE UNCHANGED vars
  BY <1>1 DEF vars
<1>2. CASE MainLoop
  BY <1>2 DEF MainLoop, Main_
<1>3. CASE MainSem
  BY <1>3 DEF MainSem, Main_
<1>4. CASE MainSemBlocks
  BY <1>4 DEF MainSemBlocks, Main_
<1>5. CASE MainAcceptBlocks
  BY <1>5 DEF MainAcceptBlocks, Main_
<1>6. CASE MainLock
  BY <1>6 DEF MainLock, Main_
<1>7. CASE MainPush
  BY <1>7 DEF MainPush, Main_
<1>8. CASE MainPost
  BY <1>8 DEF MainPost, Main_
<1>9. CASE MainUnlock
  BY <1>9 DEF MainUnlock, Main_
<1>10. CASE MainJoin
  BY <1>10 DEF MainJoin, Main_
<1>11. CASE Sigint
  <2>1. mpc' \in MainPlaces /\ sigints' \in 0 .. MaxSigints
    BY <1>11 DEF Sigint
  <2> QED BY <1>11, <2>1 DEF Sigint
<1>12. ASSUME NEW c \in Clients, MainAccept(c) PROVE DataOK'
  BY <1>12 DEF MainAccept, Backlog
<1>13. ASSUME NEW c \in Clients, MainAcceptFails(c) PROVE DataOK'
  BY <1>13 DEF MainAcceptFails, Backlog
<1>14. ASSUME NEW w \in Workers, MainKill(w) PROVE DataOK'
  BY <1>14 DEF MainKill
<1>15. ASSUME NEW c \in Clients, Connect(c) PROVE DataOK'
  BY <1>15 DEF Connect
<1>16. ASSUME NEW c \in Clients, Request(c) PROVE DataOK'
  BY <1>16 DEF Request
<1>17. ASSUME NEW c \in Clients, NEW how \in {"fin", "gone"}, Leave(c, how) PROVE DataOK'
  BY <1>17 DEF Leave
<1>18. ASSUME NEW w \in Workers, WorkerSem(w) PROVE DataOK'
  BY <1>18 DEF WorkerSem, Go
<1>19. ASSUME NEW w \in Workers, WorkerLock(w) PROVE DataOK'
  BY <1>19 DEF WorkerLock, Go
<1>20. ASSUME NEW w \in Workers, WorkerPop(w) PROVE DataOK'
  BY <1>20 DEF WorkerPop, Go
<1>21. ASSUME NEW w \in Workers, WorkerPost(w) PROVE DataOK'
  BY <1>21 DEF WorkerPost, Go
<1>22. ASSUME NEW w \in Workers, WorkerUnlock(w) PROVE DataOK'
  BY <1>22 DEF WorkerUnlock, Go
<1>23. ASSUME NEW w \in Workers, WorkerLoop(w) PROVE DataOK'
  BY <1>23 DEF WorkerLoop, Go
<1>24. ASSUME NEW w \in Workers, WorkerSemBlocks(w) PROVE DataOK'
  BY <1>24 DEF WorkerSemBlocks, Go
<1>25. ASSUME NEW w \in Workers, ServeClient(w) PROVE DataOK'
  BY <1>25 DEF ServeClient, Go
<1>26. ASSUME NEW w \in Workers, NameFails(w) PROVE DataOK'
  BY <1>26 DEF NameFails, Go, Drop
<1>27. ASSUME NEW w \in Workers, RecvRequest(w) PROVE DataOK'
  <2>1. CASE cur[w] \in Clients
    BY <1>27, <2>1 DEF RecvRequest
  <2>2. CASE cur[w] \notin Clients
    <3>1. unread' = unread
      BY <1>27, <2>2 DEF RecvRequest
    <3> QED BY <1>27, <3>1 DEF RecvRequest
  <2> QED BY <2>1, <2>2
<1>28. ASSUME NEW w \in Workers, RecvBlocks(w) PROVE DataOK'
  BY <1>28 DEF RecvBlocks, Go
<1>29. ASSUME NEW w \in Workers, RecvEnds(w) PROVE DataOK'
  BY <1>29 DEF RecvEnds, Go, Drop
<1>30. ASSUME NEW w \in Workers, Reply(w) PROVE DataOK'
  BY <1>30 DEF Reply, Go
<1>31. ASSUME NEW w \in Workers, CloseClient(w) PROVE DataOK'
  BY <1>31 DEF CloseClient, Go
<1>32. ASSUME NEW w \in Workers, ReplyKills(w) PROVE DataOK'
  BY <1>32 DEF ReplyKills, Go
<1> QED
  BY <1>1, <1>2, <1>3, <1>4, <1>5, <1>6, <1>7, <1>8, <1>9, <1>10, <1>11, <1>12, <1>13, <1>14, <1>15, <1>16, <1>17, <1>18, <1>19, <1>20, <1>21, <1>22, <1>23, <1>24, <1>25, <1>26, <1>27, <1>28, <1>29, <1>30, <1>31, <1>32
  DEF Next, MainStep, WorkerStep, ClientStep

\* The mutex is owned by the thread in the critical section.
LEMMA NextLock ==
  ASSUME DataOK, LockHeld, [Next]_vars
  PROVE  LockHeld'
<1> USE ThreadedAssumption DEF DataOK, LockHeld, shared, main, workers, clients
<1>1. CASE UNCHANGED vars
  BY <1>1 DEF vars
<1>2. CASE MainLoop
  BY <1>2 DEF MainLoop, Main_
<1>3. CASE MainSem
  BY <1>3 DEF MainSem, Main_
<1>4. CASE MainSemBlocks
  BY <1>4 DEF MainSemBlocks, Main_
<1>5. CASE MainAcceptBlocks
  BY <1>5 DEF MainAcceptBlocks, Main_
<1>6. CASE MainLock
  BY <1>6 DEF MainLock, Main_
<1>7. CASE MainPush
  BY <1>7 DEF MainPush, Main_
<1>8. CASE MainPost
  BY <1>8 DEF MainPost, Main_
<1>9. CASE MainUnlock
  BY <1>9 DEF MainUnlock, Main_
<1>10. CASE MainJoin
  BY <1>10 DEF MainJoin, Main_
<1>11. CASE Sigint
  BY <1>11 DEF Sigint, Main_
<1>12. ASSUME NEW c \in Clients, MainAccept(c) PROVE LockHeld'
  BY <1>12 DEF MainAccept, Backlog
<1>13. ASSUME NEW c \in Clients, MainAcceptFails(c) PROVE LockHeld'
  BY <1>13 DEF MainAcceptFails, Backlog
<1>14. ASSUME NEW w \in Workers, MainKill(w) PROVE LockHeld'
  BY <1>14 DEF MainKill
<1>15. ASSUME NEW c \in Clients, Connect(c) PROVE LockHeld'
  BY <1>15 DEF Connect
<1>16. ASSUME NEW c \in Clients, Request(c) PROVE LockHeld'
  BY <1>16 DEF Request
<1>17. ASSUME NEW c \in Clients, NEW how \in {"fin", "gone"}, Leave(c, how) PROVE LockHeld'
  BY <1>17 DEF Leave
<1>18. ASSUME NEW w \in Workers, WorkerSem(w) PROVE LockHeld'
  BY <1>18 DEF WorkerSem, Go
<1>19. ASSUME NEW w \in Workers, WorkerLock(w) PROVE LockHeld'
  BY <1>19 DEF WorkerLock, Go
<1>20. ASSUME NEW w \in Workers, WorkerPop(w) PROVE LockHeld'
  BY <1>20 DEF WorkerPop, Go
<1>21. ASSUME NEW w \in Workers, WorkerPost(w) PROVE LockHeld'
  BY <1>21 DEF WorkerPost, Go
<1>22. ASSUME NEW w \in Workers, WorkerUnlock(w) PROVE LockHeld'
  BY <1>22 DEF WorkerUnlock, Go
<1>23. ASSUME NEW w \in Workers, WorkerLoop(w) PROVE LockHeld'
  BY <1>23 DEF WorkerLoop, Go
<1>24. ASSUME NEW w \in Workers, WorkerSemBlocks(w) PROVE LockHeld'
  BY <1>24 DEF WorkerSemBlocks, Go
<1>25. ASSUME NEW w \in Workers, ServeClient(w) PROVE LockHeld'
  BY <1>25 DEF ServeClient, Go
<1>26. ASSUME NEW w \in Workers, NameFails(w) PROVE LockHeld'
  BY <1>26 DEF NameFails, Go, Drop
<1>27. ASSUME NEW w \in Workers, RecvRequest(w) PROVE LockHeld'
  BY <1>27 DEF RecvRequest, Go
<1>28. ASSUME NEW w \in Workers, RecvBlocks(w) PROVE LockHeld'
  BY <1>28 DEF RecvBlocks, Go
<1>29. ASSUME NEW w \in Workers, RecvEnds(w) PROVE LockHeld'
  BY <1>29 DEF RecvEnds, Go, Drop
<1>30. ASSUME NEW w \in Workers, Reply(w) PROVE LockHeld'
  BY <1>30 DEF Reply, Go
<1>31. ASSUME NEW w \in Workers, CloseClient(w) PROVE LockHeld'
  BY <1>31 DEF CloseClient, Go
<1>32. ASSUME NEW w \in Workers, ReplyKills(w) PROVE LockHeld'
  BY <1>32 DEF ReplyKills, Go
<1> QED
  BY <1>1, <1>2, <1>3, <1>4, <1>5, <1>6, <1>7, <1>8, <1>9, <1>10, <1>11, <1>12, <1>13, <1>14, <1>15, <1>16, <1>17, <1>18, <1>19, <1>20, <1>21, <1>22, <1>23, <1>24, <1>25, <1>26, <1>27, <1>28, <1>29, <1>30, <1>31, <1>32
  DEF Next, MainStep, WorkerStep, ClientStep

-----------------------------------------------------------------------------
\* The permits as an account of natural numbers; its ranges follow.
Ledger == /\ permits \in Nat /\ tokens \in Nat /\ lost \in Nat /\ q_size \in Int
          /\ PermitsConserved

LEMMA LedgerRanges == Ledger => CountersOK
BY ThreadedAssumption, CountsNat DEF Ledger, PermitsConserved, CountersOK, MainBusy

LEMMA CountersLedger == CountersOK /\ PermitsConserved => Ledger
BY DEF Ledger, CountersOK

\* Every step keeps the permits: it moves one from hand to hand.
LEMMA NextLedger ==
  ASSUME DataOK, Ledger, [Next]_vars
  PROVE  Ledger'
<1> USE ThreadedAssumption, CountsNat
    DEF Ledger, PermitsConserved, MainBusy, shared, main, workers, clients
<1>1. CASE UNCHANGED vars
  BY <1>1 DEF vars
<1>2. CASE MainLoop
  BY <1>2 DEF MainLoop, Main_
<1>3. CASE MainSem
  BY <1>3 DEF MainSem, Main_
<1>4. CASE MainSemBlocks
  BY <1>4 DEF MainSemBlocks, Main_
<1>5. CASE MainAcceptBlocks
  BY <1>5 DEF MainAcceptBlocks, Main_
<1>6. CASE MainLock
  BY <1>6 DEF MainLock, Main_
<1>7. CASE MainPush
  BY <1>7 DEF MainPush, Main_
<1>8. CASE MainPost
  BY <1>8 DEF MainPost, Main_
<1>9. CASE MainUnlock
  BY <1>9 DEF MainUnlock, Main_
<1>10. CASE MainJoin
  BY <1>10 DEF MainJoin, Main_
<1>11. CASE Sigint
  BY <1>11 DEF Sigint, Main_
<1>12. ASSUME NEW c \in Clients, MainAccept(c) PROVE Ledger'
  BY <1>12 DEF MainAccept
<1>13. ASSUME NEW c \in Clients, MainAcceptFails(c) PROVE Ledger'
  BY <1>13 DEF MainAcceptFails
<1>14. ASSUME NEW w \in Workers, MainKill(w) PROVE Ledger'
  <2>1. PICK to : /\ wpc' = [wpc EXCEPT ![w] = to]
                  /\ to \notin {"post", "lock", "pop"} \/ to = wpc[w]
                  /\ wpc[w] \notin {"post", "lock", "pop"} \/ to = wpc[w]
    BY <1>14 DEF MainKill
  <2>2. MoveDelta(w, to, {"post"}) /\ MoveDelta(w, to, {"lock", "pop"})
    BY <2>1, WorkerMoves
  <2> QED BY <1>14, <2>1, <2>2 DEF MainKill, MoveDelta
<1>15. ASSUME NEW c \in Clients, Connect(c) PROVE Ledger'
  BY <1>15 DEF Connect
<1>16. ASSUME NEW c \in Clients, Request(c) PROVE Ledger'
  BY <1>16 DEF Request
<1>17. ASSUME NEW c \in Clients, NEW how, Leave(c, how) PROVE Ledger'
  BY <1>17 DEF Leave
<1>18. ASSUME NEW w \in Workers, WorkerSem(w) PROVE Ledger'
  <2>1. wpc' = [wpc EXCEPT ![w] = "lock"]
    BY <1>18 DEF WorkerSem, Go
  <2>2. /\ MoveDelta(w, "lock", {"post"})
        /\ MoveDelta(w, "lock", {"lock", "pop"})
    BY <2>1, WorkerMoves
  <2> QED BY <1>18, <2>2 DEF WorkerSem, Go, MoveDelta
<1>19. ASSUME NEW w \in Workers, WorkerLock(w) PROVE Ledger'
  <2>1. wpc' = [wpc EXCEPT ![w] = "pop"]
    BY <1>19 DEF WorkerLock, Go
  <2>2. /\ MoveDelta(w, "pop", {"post"})
        /\ MoveDelta(w, "pop", {"lock", "pop"})
    BY <2>1, WorkerMoves
  <2> QED BY <1>19, <2>2 DEF WorkerLock, Go, MoveDelta
<1>20. ASSUME NEW w \in Workers, WorkerPop(w) PROVE Ledger'
  <2>1. wpc' = [wpc EXCEPT ![w] = "post"]
    BY <1>20 DEF WorkerPop, Go
  <2>2. /\ MoveDelta(w, "post", {"post"})
        /\ MoveDelta(w, "post", {"lock", "pop"})
    BY <2>1, WorkerMoves
  <2> QED BY <1>20, <2>2 DEF WorkerPop, Go, MoveDelta
<1>21. ASSUME NEW w \in Workers, WorkerPost(w) PROVE Ledger'
  <2>1. wpc' = [wpc EXCEPT ![w] = "unlock"]
    BY <1>21 DEF WorkerPost, Go
  <2>2. /\ MoveDelta(w, "unlock", {"post"})
        /\ MoveDelta(w, "unlock", {"lock", "pop"})
    BY <2>1, WorkerMoves
  <2> QED BY <1>21, <2>2 DEF WorkerPost, Go, MoveDelta
<1>22. ASSUME NEW w \in Workers, WorkerUnlock(w) PROVE Ledger'
  <2>1. wpc' = [wpc EXCEPT ![w] = "serve"]
    BY <1>22 DEF WorkerUnlock, Go
  <2>2. /\ MoveDelta(w, "serve", {"post"})
        /\ MoveDelta(w, "serve", {"lock", "pop"})
    BY <2>1, WorkerMoves
  <2> QED BY <1>22, <2>2 DEF WorkerUnlock, Go, MoveDelta
<1>23. ASSUME NEW w \in Workers, WorkerLoop(w) PROVE Ledger'
  <2>1. wpc' = [wpc EXCEPT ![w] = IF running THEN "sem" ELSE "exit"]
    BY <1>23 DEF WorkerLoop, Go
  <2>2. /\ MoveDelta(w, IF running THEN "sem" ELSE "exit", {"post"})
        /\ MoveDelta(w, IF running THEN "sem" ELSE "exit", {"lock", "pop"})
    BY <2>1, WorkerMoves
  <2> QED BY <1>23, <2>2 DEF WorkerLoop, Go, MoveDelta
<1>24. ASSUME NEW w \in Workers, WorkerSemBlocks(w) PROVE Ledger'
  <2>1. wpc' = [wpc EXCEPT ![w] = "sem_blocked"]
    BY <1>24 DEF WorkerSemBlocks, Go
  <2>2. /\ MoveDelta(w, "sem_blocked", {"post"})
        /\ MoveDelta(w, "sem_blocked", {"lock", "pop"})
    BY <2>1, WorkerMoves
  <2> QED BY <1>24, <2>2 DEF WorkerSemBlocks, Go, MoveDelta
<1>25. ASSUME NEW w \in Workers, ServeClient(w) PROVE Ledger'
  <2>1. wpc' = [wpc EXCEPT ![w] = "recv"]
    BY <1>25 DEF ServeClient, Go
  <2>2. /\ MoveDelta(w, "recv", {"post"})
        /\ MoveDelta(w, "recv", {"lock", "pop"})
    BY <2>1, WorkerMoves
  <2> QED BY <1>25, <2>2 DEF ServeClient, Go, MoveDelta
<1>26. ASSUME NEW w \in Workers, NameFails(w) PROVE Ledger'
  <2>1. wpc' = [wpc EXCEPT ![w] = "loop"]
    BY <1>26 DEF NameFails, Go, Drop
  <2>2. /\ MoveDelta(w, "loop", {"post"})
        /\ MoveDelta(w, "loop", {"lock", "pop"})
    BY <2>1, WorkerMoves
  <2> QED BY <1>26, <2>2 DEF NameFails, Go, Drop, MoveDelta
<1>27. ASSUME NEW w \in Workers, RecvRequest(w) PROVE Ledger'
  <2>1. wpc' = [wpc EXCEPT ![w] = "reply"]
    BY <1>27 DEF RecvRequest, Go
  <2>2. /\ MoveDelta(w, "reply", {"post"})
        /\ MoveDelta(w, "reply", {"lock", "pop"})
    BY <2>1, WorkerMoves
  <2> QED BY <1>27, <2>2 DEF RecvRequest, Go, MoveDelta
<1>28. ASSUME NEW w \in Workers, RecvBlocks(w) PROVE Ledger'
  <2>1. wpc' = [wpc EXCEPT ![w] = "recv_blocked"]
    BY <1>28 DEF RecvBlocks, Go
  <2>2. /\ MoveDelta(w, "recv_blocked", {"post"})
        /\ MoveDelta(w, "recv_blocked", {"lock", "pop"})
    BY <2>1, WorkerMoves
  <2> QED BY <1>28, <2>2 DEF RecvBlocks, Go, MoveDelta
<1>29. ASSUME NEW w \in Workers, RecvEnds(w) PROVE Ledger'
  <2>1. wpc' = [wpc EXCEPT ![w] = "loop"]
    BY <1>29 DEF RecvEnds, Go, Drop
  <2>2. /\ MoveDelta(w, "loop", {"post"})
        /\ MoveDelta(w, "loop", {"lock", "pop"})
    BY <2>1, WorkerMoves
  <2> QED BY <1>29, <2>2 DEF RecvEnds, Go, Drop, MoveDelta
<1>30. ASSUME NEW w \in Workers, Reply(w) PROVE Ledger'
  <2>1. wpc' = [wpc EXCEPT ![w] = "recv"]
    BY <1>30 DEF Reply, Go
  <2>2. /\ MoveDelta(w, "recv", {"post"})
        /\ MoveDelta(w, "recv", {"lock", "pop"})
    BY <2>1, WorkerMoves
  <2> QED BY <1>30, <2>2 DEF Reply, Go, MoveDelta
<1>31. ASSUME NEW w \in Workers, CloseClient(w) PROVE Ledger'
  <2>1. wpc' = [wpc EXCEPT ![w] = "loop"]
    BY <1>31 DEF CloseClient, Go
  <2>2. /\ MoveDelta(w, "loop", {"post"})
        /\ MoveDelta(w, "loop", {"lock", "pop"})
    BY <2>1, WorkerMoves
  <2> QED BY <1>31, <2>2 DEF CloseClient, Go, MoveDelta
<1>32. ASSUME NEW w \in Workers, ReplyKills(w) PROVE Ledger'
  BY <1>32 DEF ReplyKills
<1> QED
  BY <1>1, <1>2, <1>3, <1>4, <1>5, <1>6, <1>7, <1>8, <1>9, <1>10, <1>11, <1>12, <1>13, <1>14, <1>15, <1>16, <1>17, <1>18, <1>19, <1>20, <1>21, <1>22, <1>23, <1>24, <1>25, <1>26, <1>27, <1>28, <1>29, <1>30, <1>31, <1>32
  DEF Next, MainStep, WorkerStep, ClientStep

LEMMA NextIInv == IInv /\ [Next]_vars => IInv'
<1> SUFFICES ASSUME IInv, [Next]_vars PROVE IInv'
  OBVIOUS
<1>1. Ledger'
  BY CountersLedger, NextLedger DEF IInv, TypeOK
<1>2. CountersOK'
  <2>1. (Ledger => CountersOK)'
    BY LedgerRanges, PTL
  <2> QED BY <1>1, <2>1
<1>3. DataOK'
  BY NextData DEF IInv, TypeOK
<1>4. LockHeld'
  BY NextLock DEF IInv, TypeOK
<1> QED BY <1>1, <1>2, <1>3, <1>4 DEF IInv, TypeOK, Ledger

\* The invariant holds in every state, whatever the number of workers, clients
\* and places, the failing accepts and the SIGINTs.
THEOREM Invariance == Spec => []IInv
<1>1. Init => IInv
  BY InitIInv
<1>2. IInv /\ [Next]_vars => IInv'
  BY NextIInv
<1> QED BY <1>1, <1>2, PTL DEF Spec

\* Places and data stay typed, the semaphores and q_size within max_q_size.
THEOREM TypeCorrect == Spec => []TypeOK
<1>1. IInv => TypeOK
  BY DEF IInv
<1> QED BY <1>1, Invariance, PTL

\* push and pop never overlap (http_server.c:172-177, 258-263).
THEOREM QueueLocked == Spec => []LockHeld
<1>1. IInv => LockHeld
  BY DEF IInv
<1> QED BY <1>1, Invariance, PTL

\* Whatever fails and whenever SIGINT comes, every place of the queue is
\* accounted for: free, taken, occupied, being freed, or lost by an accept.
THEOREM Conservation == Spec => []PermitsConserved
<1>1. IInv => PermitsConserved
  BY DEF IInv
<1> QED BY <1>1, Invariance, PTL

LEMMA IInvInBounds == IInv => QueueInBounds
<1> SUFFICES ASSUME IInv PROVE QueueInBounds
  OBVIOUS
<1> USE ThreadedAssumption, CountsNat
    DEF IInv, TypeOK, CountersOK, PermitsConserved, MainBusy
<1>1. mpc = "push" => q_size < QSize
  OBVIOUS
<1>2. ASSUME NEW w \in Workers, wpc[w] = "pop" PROVE q_size > 0
  <2>1. Count(wpc, Workers, {"lock", "pop"}) > 0
    BY <1>2, CountPositive
  <2> QED BY <2>1
<1> QED BY <1>1, <1>2 DEF QueueInBounds

\* push never writes past the array, pop never reads an empty queue, though
\* neither checks (http_server.c:191-217).
THEOREM InBounds == Spec => []QueueInBounds
<1>1. IInv => QueueInBounds
  BY IInvInBounds
<1> QED BY <1>1, Invariance, PTL

-----------------------------------------------------------------------------
(* The queue is a FIFO for the threads. *)

Busy == {"post", "unlock", "serve", "recv", "recv_blocked", "reply", "close"}

\* Who has a client: main from accept to push, the filled part of the array,
\* and a worker from pop until it drops or closes it.
HeldInv ==
  /\ held \in Clients <=> mpc \in {"lock", "push"}
  /\ \A w \in Workers : cur[w] \in Clients <=> wpc[w] \in Busy
  /\ \A i \in Slots : i < q_size => queue[i] \in Clients

\* A step that passes no client on and takes no token of q_not_empty.
Quiet ==
  /\ UNCHANGED <<held, cur, queue, q_size, fds, dropped>>
  /\ mpc' \in {"lock", "push"} <=> mpc \in {"lock", "push"}
  /\ \A w \in Workers : /\ wpc'[w] \in Busy <=> wpc[w] \in Busy
                        /\ wpc'[w] \in {"lock", "pop"} <=> wpc[w] \in {"lock", "pop"}
  /\ \A c \in Clients : conn'[c] = "accepted" <=> conn[c] = "accepted"

LEMMA StepKinds ==
  ASSUME DataOK, [Next]_vars
  PROVE  \/ Quiet
         \/ (\E c \in Clients : MainAccept(c)) \/ MainPush
         \/ \E w \in Workers : \/ WorkerSem(w) \/ WorkerPop(w)
                               \/ Drop(w, "serve") \/ Drop(w, "recv")
                               \/ Drop(w, "recv_blocked") \/ CloseClient(w)
<1> USE DEF DataOK, shared, main, workers, clients
<1>1. ASSUME UNCHANGED <<held, cur, queue, q_size, fds, dropped>>,
             wpc' = wpc \/ \A w \in Workers :
                             /\ wpc'[w] \in Busy <=> wpc[w] \in Busy
                             /\ wpc'[w] \in {"lock", "pop"} <=> wpc[w] \in {"lock", "pop"},
             mpc' \in {"lock", "push"} <=> mpc \in {"lock", "push"},
             \A c \in Clients : conn'[c] = "accepted" <=> conn[c] = "accepted"
      PROVE  Quiet
  BY <1>1 DEF Quiet
<1>2. CASE UNCHANGED vars
  <2>1. UNCHANGED <<held, cur, queue, q_size, fds, dropped, wpc, mpc, conn>>
    BY <1>2 DEF vars
  <2> QED BY <1>1, <2>1
<1>3. CASE MainLoop \/ MainSem \/ MainSemBlocks \/ MainAcceptBlocks \/ MainLock \/ MainPost
           \/ MainUnlock \/ MainJoin \/ Sigint
  <2>1. UNCHANGED <<held, cur, queue, q_size, fds, dropped, wpc, conn>>
    BY <1>3 DEF MainLoop, MainSem, MainSemBlocks, MainAcceptBlocks, MainLock, MainPost,
      MainUnlock, MainJoin, Sigint
  <2>2. mpc' \in {"lock", "push"} <=> mpc \in {"lock", "push"}
    BY <1>3 DEF MainLoop, MainSem, MainSemBlocks, MainAcceptBlocks, MainLock, MainPost,
      MainUnlock, MainJoin, Sigint, Main_
  <2> QED BY <1>1, <2>1, <2>2
<1>4. ASSUME NEW c \in Clients, MainAcceptFails(c) PROVE Quiet
  <2>1. /\ UNCHANGED <<held, cur, queue, q_size, fds, dropped, wpc>>
        /\ mpc' \in {"lock", "push"} <=> mpc \in {"lock", "push"}
    BY <1>4 DEF MainAcceptFails
  <2>2. \A d \in Clients : conn'[d] = "accepted" <=> conn[d] = "accepted"
    BY <1>4 DEF MainAcceptFails, Backlog
  <2> QED BY <1>1, <2>1, <2>2
<1>5. ASSUME NEW w \in Workers, MainKill(w) PROVE Quiet
  <2>1. UNCHANGED <<held, cur, queue, q_size, fds, dropped, mpc, conn>>
    BY <1>5 DEF MainKill
  <2>2. \A v \in Workers :
          \/ wpc'[v] = wpc[v]
          \/ wpc[v] = "sem_blocked" /\ wpc'[v] = "exit"
          \/ wpc[v] = "recv_blocked" /\ wpc'[v] = "close"
    BY <1>5 DEF MainKill
  <2>3. \A v \in Workers :
          /\ wpc'[v] \in Busy <=> wpc[v] \in Busy
          /\ wpc'[v] \in {"lock", "pop"} <=> wpc[v] \in {"lock", "pop"}
    BY <2>2 DEF Busy
  <2> QED BY <1>1, <2>1, <2>3
<1>6. ASSUME NEW c \in Clients, ClientStep(c) PROVE Quiet
  <2>1. UNCHANGED <<held, cur, queue, q_size, fds, dropped, wpc, mpc>>
    BY <1>6 DEF ClientStep, Connect, Request, Leave
  <2>2. \A d \in Clients : conn'[d] = "accepted" <=> conn[d] = "accepted"
    BY <1>6 DEF ClientStep, Connect, Request, Leave
  <2> QED BY <1>1, <2>1, <2>2
<1>7. ASSUME NEW w \in Workers,
             \/ WorkerLoop(w) \/ WorkerSemBlocks(w) \/ WorkerLock(w) \/ WorkerPost(w)
             \/ WorkerUnlock(w) \/ ServeClient(w) \/ RecvRequest(w) \/ RecvBlocks(w)
             \/ Reply(w) \/ ReplyKills(w)
      PROVE  Quiet
  <2>1. UNCHANGED <<held, cur, queue, q_size, fds, dropped, mpc, conn>>
    BY <1>7 DEF WorkerLoop, WorkerSemBlocks, WorkerLock, WorkerPost, WorkerUnlock,
      ServeClient, RecvRequest, RecvBlocks, Reply, ReplyKills
  <2>2. \/ wpc' = wpc
        \/ \E to \in WorkerPlaces :
              /\ wpc' = [wpc EXCEPT ![w] = to]
              /\ to \in Busy <=> wpc[w] \in Busy
              /\ to \in {"lock", "pop"} <=> wpc[w] \in {"lock", "pop"}
    BY <1>7 DEF WorkerLoop, WorkerSemBlocks, WorkerLock, WorkerPost, WorkerUnlock,
      ServeClient, RecvRequest, RecvBlocks, Reply, ReplyKills, Go, Busy, WorkerPlaces
  <2> QED BY <1>1, <2>1, <2>2
<1>8. ASSUME NEW w \in Workers, RecvEnds(w)
      PROVE  Drop(w, "recv") \/ Drop(w, "recv_blocked")
  BY <1>8 DEF RecvEnds
<1> QED BY <1>2, <1>3, <1>4, <1>5, <1>6, <1>7, <1>8
        DEF Next, MainStep, WorkerStep, NameFails

LEMMA InitHeld == Init => HeldInv
BY ThreadedAssumption DEF Init, HeldInv, Busy, Slots

LEMMA NextHeld ==
  ASSUME IInv, HeldInv, [Next]_vars
  PROVE  HeldInv'
<1>1. CASE Quiet
  <2>1. held' \in Clients <=> mpc' \in {"lock", "push"}
    BY <1>1 DEF Quiet, HeldInv
  <2>2. \A w \in Workers : cur'[w] \in Clients <=> wpc'[w] \in Busy
    BY <1>1 DEF Quiet, HeldInv
  <2> QED BY <1>1, <2>1, <2>2 DEF Quiet, HeldInv
<1> USE ThreadedAssumption DEF IInv, TypeOK, DataOK, CountersOK, HeldInv, Busy
<1>2. ASSUME NEW c \in Clients, MainAccept(c) PROVE HeldInv'
  BY <1>2 DEF MainAccept, shared, workers
<1>3. CASE MainPush
  <2>1. held \in Clients /\ q_size' = q_size + 1 /\ q_size \in Nat
        /\ queue' = [queue EXCEPT ![q_size] = held]
    BY <1>3 DEF MainPush, Main_
  <2>2. \A i \in Slots : i < q_size' => queue'[i] \in Clients
    BY <2>1 DEF Slots
  <2>3. UNCHANGED workers /\ held' = NoClient /\ mpc' = "post"
    BY <1>3 DEF MainPush, Main_
  <2> QED BY <2>2, <2>3 DEF workers
<1>4. ASSUME NEW w \in Workers, WorkerSem(w) PROVE HeldInv'
  BY <1>4 DEF WorkerSem, main
<1>5. ASSUME NEW w \in Workers, WorkerPop(w) PROVE HeldInv'
  <2>1. q_size > 0
    BY <1>5, IInvInBounds DEF WorkerPop, Go, QueueInBounds
  <2>2. /\ queue[0] \in Clients /\ q_size' = q_size - 1
        /\ queue' = [i \in Slots |-> IF i + 1 < q_size THEN queue[i + 1] ELSE queue[i]]
    BY <1>5, <2>1 DEF WorkerPop, Slots
  <2>3. \A i \in Slots : i < q_size' => queue'[i] \in Clients
    BY <2>1, <2>2 DEF Slots
  <2>4. held' = held /\ mpc' = mpc /\ \A v \in Workers : cur'[v] \in Clients <=> wpc'[v] \in Busy
    BY <1>5, <2>2 DEF WorkerPop, Go, main
  <2> QED BY <2>3, <2>4
<1>6. ASSUME NEW w \in Workers, NEW from \in {"serve", "recv", "recv_blocked"}, Drop(w, from)
      PROVE  HeldInv'
  BY <1>6 DEF Drop, Go, main, shared
<1>7. ASSUME NEW w \in Workers, CloseClient(w) PROVE HeldInv'
  BY <1>7 DEF CloseClient, Go, main, shared
<1> QED BY <1>1, <1>2, <1>3, <1>4, <1>5, <1>6, <1>7, StepKinds

\* The filled part of the array is a sequence of clients.
LEMMA WaitingIsSeq ==
  ASSUME IInv, HeldInv
  PROVE  Waiting \in Seq(Clients) /\ Len(Waiting) = q_size /\ q_size \in 0 .. QSize
<1>1. q_size \in 0 .. QSize
  BY DEF IInv, TypeOK, CountersOK
<1>2. \A i \in 1 .. q_size : queue[i - 1] \in Clients
  BY <1>1, ThreadedAssumption DEF HeldInv, Slots
<1>3. Waiting \in [1 .. q_size -> Clients]
  BY <1>2 DEF Waiting
<1> QED BY <1>1, <1>3

\* push appends main's client to it ...
LEMMA PushAppends ==
  ASSUME IInv, HeldInv, MainPush
  PROVE  Waiting' = Append(Waiting, held) /\ Len(Waiting) < QSize /\ held \in Clients
<1>1. Waiting \in Seq(Clients) /\ Len(Waiting) = q_size /\ q_size \in 0 .. QSize
  BY WaitingIsSeq
<1>2. q_size < QSize
  BY IInvInBounds DEF MainPush, Main_, QueueInBounds
<1>3. /\ held \in Clients /\ q_size' = q_size + 1
      /\ queue' = [queue EXCEPT ![q_size] = held] /\ DOMAIN queue = Slots
  BY DEF MainPush, Main_, HeldInv, IInv, TypeOK, DataOK
<1>4. \A i \in 1 .. q_size : queue'[i - 1] = queue[i - 1]
  <2>1. \A i \in 1 .. q_size : i - 1 \in Slots /\ i - 1 # q_size
    BY <1>1, <1>2, ThreadedAssumption DEF Slots
  <2> QED BY <1>3, <2>1
<1>5. queue'[q_size] = held
  <2>1. q_size \in Slots
    BY <1>1, <1>2, ThreadedAssumption DEF Slots
  <2> QED BY <1>3, <2>1
<1>6. Waiting' = [i \in 1 .. q_size + 1 |-> queue'[i - 1]]
  BY <1>3 DEF Waiting
<1>7. \A i \in 1 .. q_size : Waiting'[i] = Waiting[i]
  <2>1. \A i \in 1 .. q_size : Waiting[i] = queue[i - 1]
    BY DEF Waiting
  <2>2. \A i \in 1 .. q_size : Waiting'[i] = queue'[i - 1]
    BY <1>1, <1>6
  <2> QED BY <1>4, <2>1, <2>2
<1>8. Waiting'[q_size + 1] = held
  BY <1>1, <1>5, <1>6
<1>9. Waiting' \in [1 .. q_size + 1 -> Clients]
  <2>1. \A i \in 1 .. q_size : Waiting[i] \in Clients
    BY <1>1, ElementOfSeq
  <2>2. \A i \in 1 .. q_size + 1 : Waiting'[i] \in Clients
    BY <1>1, <1>3, <1>7, <1>8, <2>1
  <2> QED BY <1>6, <2>2
<1> QED BY <1>1, <1>2, <1>3, <1>7, <1>8, <1>9, IsAppend

\* ... and pop takes its head.
LEMMA PopTakesHead ==
  ASSUME IInv, HeldInv, NEW w \in Workers, WorkerPop(w)
  PROVE  /\ Waiting # <<>> /\ Waiting' = Tail(Waiting)
         /\ cur' = [cur EXCEPT ![w] = Head(Waiting)] /\ Head(Waiting) \in Clients
<1>1. Waiting \in Seq(Clients) /\ Len(Waiting) = q_size /\ q_size \in 0 .. QSize
  BY WaitingIsSeq
<1>2. q_size > 0
  BY IInvInBounds DEF WorkerPop, Go, QueueInBounds
<1>3. /\ cur' = [cur EXCEPT ![w] = queue[0]] /\ q_size' = q_size - 1
      /\ queue' = [i \in Slots |-> IF i + 1 < q_size THEN queue[i + 1] ELSE queue[i]]
  BY DEF WorkerPop
<1>4. Waiting # <<>> /\ Head(Waiting) = queue[0] /\ Head(Waiting) \in Clients
  BY <1>1, <1>2 DEF Waiting
<1>5. Waiting' = [i \in 1 .. q_size - 1 |-> queue'[i - 1]]
  BY <1>3 DEF Waiting
<1>6. \A i \in 1 .. q_size - 1 : queue'[i - 1] = queue[i]
  BY <1>1, <1>3, ThreadedAssumption DEF Slots
<1>7. \A i \in 1 .. q_size - 1 : Waiting'[i] = Waiting[i + 1]
  <2>1. \A i \in 1 .. q_size - 1 : Waiting[i + 1] = queue[i]
    BY <1>1 DEF Waiting
  <2> QED BY <1>5, <1>6, <2>1
<1>8. Waiting' \in [1 .. q_size - 1 -> Clients]
  <2>1. \A i \in 1 .. q_size - 1 : Waiting'[i] \in Clients
    BY <1>1, <1>7, ElementOfSeq
  <2> QED BY <1>5, <2>1
<1>9. Waiting' = Tail(Waiting)
  <2>1. q_size - 1 \in Nat /\ Len(Waiting) = (q_size - 1) + 1
    BY <1>1, <1>2
  <2> QED BY <1>1, <1>7, <1>8, <2>1, IsTail
<1> QED BY <1>3, <1>4, <1>9

LEMMA QuietStutters ==
  ASSUME Quiet
  PROVE  UNCHANGED Fifo!vars
<1>1. Waiting' = Waiting /\ Accepted' = Accepted /\ cur' = cur
  BY DEF Quiet, Waiting, Accepted
<1>2. Asking' = Asking
  <2>1. \A w \in Workers : (wpc'[w] \in {"lock", "pop"}) = (wpc[w] \in {"lock", "pop"})
    BY DEF Quiet
  <2> QED BY <2>1, Zenon DEF Asking
<1> QED BY <1>1, <1>2 DEF Fifo!vars

\* One worker's move in or out of the places after sem_wait.
LEMMA AskingFollows ==
  ASSUME NEW w \in Workers, NEW b \in BOOLEAN,
         \A v \in Workers : v # w => wpc'[v] = wpc[v],
         wpc'[w] \in {"lock", "pop"} <=> b
  PROVE  Asking' = [Asking EXCEPT ![w] = b]
<1>1. Asking'[w] = b
  BY DEF Asking
<1>2. \A v \in Workers : v # w => Asking'[v] = Asking[v]
  BY DEF Asking
<1>3. Asking' = [v \in Workers |-> Asking'[v]] /\ DOMAIN Asking = Workers
  BY DEF Asking
<1> QED BY <1>1, <1>2, <1>3

LEMMA AskingStays ==
  ASSUME NEW w \in Workers, \A v \in Workers : v # w => wpc'[v] = wpc[v],
         wpc[w] \notin {"lock", "pop"}, wpc'[w] \notin {"lock", "pop"}
  PROVE  Asking' = Asking
<1>1. \A v \in Workers : (wpc'[v] \in {"lock", "pop"}) = (wpc[v] \in {"lock", "pop"})
  OBVIOUS
<1> QED BY <1>1, Zenon DEF Asking

\* What the other steps are for the abstract queue.
LEMMA AcceptOffers ==
  ASSUME IInv, HeldInv, NEW c \in Clients, MainAccept(c)
  PROVE  Fifo!Offer(Main, c)
<1>1. held = NoClient /\ held' = c
  BY DEF MainAccept, HeldInv, IInv, TypeOK, DataOK
<1>2. Accepted[Main] = NoClient /\ Accepted' = [Accepted EXCEPT ![Main] = c]
  BY <1>1 DEF Accepted
<1>3. Waiting' = Waiting /\ Asking' = Asking /\ cur' = cur
  BY DEF MainAccept, shared, workers, Waiting, Asking
<1> QED BY <1>2, <1>3 DEF Fifo!Offer

LEMMA PushPuts ==
  ASSUME IInv, HeldInv, MainPush
  PROVE  Fifo!Put(Main)
<1>1. held \in Clients /\ held # NoClient /\ held' = NoClient
  BY PushAppends, ThreadedAssumption DEF MainPush
<1>2. Accepted[Main] = held /\ Accepted' = [Accepted EXCEPT ![Main] = NoClient]
  BY <1>1 DEF Accepted
<1>3. Waiting' = Append(Waiting, held) /\ Len(Waiting) < QSize
  BY PushAppends
<1>4. Asking' = Asking /\ cur' = cur
  BY DEF MainPush, workers, Asking
<1> QED BY <1>1, <1>2, <1>3, <1>4 DEF Fifo!Put

LEMMA SemAsks ==
  ASSUME IInv, HeldInv, NEW w \in Workers, WorkerSem(w)
  PROVE  Fifo!Ask(w)
<1>1. /\ wpc[w] \in {"sem", "sem_blocked"} /\ wpc'[w] = "lock"
      /\ \A v \in Workers : v # w => wpc'[v] = wpc[v]
  BY DEF WorkerSem, IInv, TypeOK, DataOK
<1>2. ~Asking[w] /\ cur[w] = NoClient
  BY <1>1 DEF Asking, HeldInv, Busy, IInv, TypeOK, DataOK
<1>3. Asking' = [Asking EXCEPT ![w] = TRUE]
  BY <1>1, AskingFollows
<1>4. Waiting' = Waiting /\ Accepted' = Accepted /\ cur' = cur
  BY DEF WorkerSem, main, Waiting, Accepted
<1> QED BY <1>2, <1>3, <1>4 DEF Fifo!Ask

LEMMA PopTakes ==
  ASSUME IInv, HeldInv, NEW w \in Workers, WorkerPop(w)
  PROVE  Fifo!Take(w)
<1>1. /\ wpc[w] = "pop" /\ wpc'[w] = "post"
      /\ \A v \in Workers : v # w => wpc'[v] = wpc[v]
  BY DEF WorkerPop, Go, IInv, TypeOK, DataOK
<1>2. Asking[w]
  BY <1>1 DEF Asking
<1>3. Asking' = [Asking EXCEPT ![w] = FALSE]
  BY <1>1, AskingFollows
<1>4. Accepted' = Accepted
  BY DEF WorkerPop, main, Accepted
<1> QED BY <1>2, <1>3, <1>4, PopTakesHead DEF Fifo!Take

\* A worker that is done with its client, with or without closing its socket.
LeavesClient(w) ==
  \/ \E from \in {"serve", "recv", "recv_blocked"} : Drop(w, from)
  \/ CloseClient(w)

LEMMA LeaveReleases ==
  ASSUME IInv, HeldInv, NEW w \in Workers, LeavesClient(w)
  PROVE  /\ Fifo!Release(w) /\ cur[w] \in Clients
         /\ conn' = conn
         /\ \/ fds' = fds \ {cur[w]} /\ dropped' = dropped
            \/ fds' = fds /\ dropped' = dropped \cup {cur[w]}
<1>1. /\ wpc[w] \in {"serve", "recv", "recv_blocked", "close"} /\ wpc'[w] = "loop"
      /\ \A v \in Workers : v # w => wpc'[v] = wpc[v]
  BY DEF LeavesClient, Drop, CloseClient, Go, IInv, TypeOK, DataOK
<1>2. cur[w] \in Clients /\ cur[w] # NoClient
  BY <1>1, ThreadedAssumption DEF HeldInv, Busy
<1>3. cur' = [cur EXCEPT ![w] = NoClient] /\ UNCHANGED <<shared, main, conn>>
  BY DEF LeavesClient, Drop, CloseClient, clients
<1>4. Waiting' = Waiting /\ Accepted' = Accepted
  BY <1>3 DEF shared, main, Waiting, Accepted
<1>5. Asking' = Asking
  BY <1>1, AskingStays
<1>6. \/ fds' = fds \ {cur[w]} /\ dropped' = dropped
      \/ fds' = fds /\ dropped' = dropped \cup {cur[w]}
  BY DEF clients, LeavesClient, Drop, CloseClient
<1>7. Fifo!Release(w)
  BY <1>2, <1>3, <1>4, <1>5 DEF Fifo!Release
<1> QED BY <1>2, <1>3, <1>6, <1>7

LEMMA InitFifo == Init => Fifo!Init
<1> SUFFICES ASSUME Init PROVE Fifo!Init
  OBVIOUS
<1>1. Waiting = <<>> /\ Accepted = [m \in {Main} |-> NoClient]
  BY DEF Init, Waiting, Accepted
<1>2. Asking = [w \in Workers |-> FALSE]
  <2>1. \A w \in Workers : (wpc[w] \in {"lock", "pop"}) = FALSE
    BY DEF Init
  <2> QED BY <2>1, Zenon DEF Asking
<1> QED BY <1>1, <1>2 DEF Init, Fifo!Init

LEMMA NextFifo ==
  ASSUME IInv, HeldInv, [Next]_vars
  PROVE  [Fifo!Next]_(Fifo!vars)
<1>1. CASE Quiet
  BY <1>1, QuietStutters
<1>2. ASSUME NEW c \in Clients, MainAccept(c) PROVE Fifo!Next
  BY <1>2, AcceptOffers DEF Fifo!Next
<1>3. CASE MainPush
  BY <1>3, PushPuts DEF Fifo!Next
<1>4. ASSUME NEW w \in Workers, WorkerSem(w) \/ WorkerPop(w) \/ LeavesClient(w)
      PROVE  Fifo!Next
  <2>1. Fifo!Ask(w) \/ Fifo!Take(w) \/ Fifo!Release(w)
    BY <1>4, SemAsks, PopTakes, LeaveReleases
  <2> QED BY <2>1 DEF Fifo!Next
<1> QED BY <1>1, <1>2, <1>3, <1>4, StepKinds DEF IInv, TypeOK, LeavesClient

LEMMA HeldInvariance == Spec => [](IInv /\ HeldInv)
<1>1. IInv /\ HeldInv /\ [Next]_vars => HeldInv'
  BY NextHeld
<1> QED BY <1>1, InitHeld, Invariance, PTL DEF Spec

\* Main and the workers, however they interleave, whatever accepts fail and
\* whenever SIGINT comes, pass the clients through the array as through a FIFO
\* queue of max_q_size places (http_server.c:165-177, 191-217, 255-263).
THEOREM FifoRefinement == Spec => ServesInOrder
<1>1. Init => Fifo!Init
  BY InitFifo
<1>2. IInv /\ HeldInv /\ [Next]_vars => [Fifo!Next]_(Fifo!vars)
  BY NextFifo
<1> QED BY <1>1, <1>2, HeldInvariance, PTL DEF Spec, ServesInOrder, Fifo!Spec

-----------------------------------------------------------------------------
(* A client is in one hand at a time. *)

LEMMA HoldersNat ==
  ASSUME IInv, HeldInv, NEW c
  PROVE  Holders(c) \in Nat
<1>1. IsFiniteSet({Main}) /\ IsFiniteSet(Workers) /\ Waiting \in Seq(Clients)
  BY FS_Singleton, ThreadedAssumption, WaitingIsSeq
<1> QED BY <1>1, HandsNat DEF Holders

LEMMA InitHolder == Init => OneHolder
<1> SUFFICES ASSUME Init, NEW c \in Clients PROVE Holders(c) = 0
  BY DEF OneHolder, Init
<1>1. /\ Where(Accepted, {Main}, c) = {} /\ Where(cur, Workers, c) = {}
      /\ Where(Waiting, DOMAIN Waiting, c) = {}
  BY ThreadedAssumption DEF Init, Where, Accepted, Waiting
<1>2. Cardinality({}) = 0
  BY FS_EmptySet
<1>3. /\ Cardinality(Where(Accepted, {Main}, c)) = 0
      /\ Cardinality(Where(Waiting, DOMAIN Waiting, c)) = 0
      /\ Cardinality(Where(cur, Workers, c)) = 0
  BY <1>1, <1>2, Zenon
<1> QED BY <1>3 DEF Holders, Hands

LEMMA NextHolder ==
  ASSUME IInv, HeldInv, OneHolder, [Next]_vars
  PROVE  OneHolder'
<1>0. /\ IsFiniteSet({Main}) /\ IsFiniteSet(Workers) /\ Waiting \in Seq(Clients)
      /\ Main \in {Main} /\ \A y \in Clients : Holders(y) \in Nat
  BY FS_Singleton, ThreadedAssumption, WaitingIsSeq, HoldersNat
<1>1. ASSUME \A y \in Clients : Holders(y)' = Holders(y),
             \A y \in Clients : conn'[y] = "accepted" <=> conn[y] = "accepted",
             fds' = fds, dropped' = dropped
      PROVE  OneHolder'
  BY <1>1 DEF OneHolder
<1>2. CASE Quiet
  <2>1. \A y \in Clients : Holders(y)' = Holders(y)
    BY <1>2, QuietStutters DEF Holders, Fifo!vars
  <2> QED BY <1>1, <1>2, <2>1 DEF Quiet
<1>3. ASSUME NEW c \in Clients, MainAccept(c) PROVE OneHolder'
  <2>1. /\ Accepted[Main] = NoClient /\ Accepted' = [Accepted EXCEPT ![Main] = c]
        /\ Waiting' = Waiting /\ cur' = cur
    BY <1>3, AcceptOffers DEF Fifo!Offer
  <2>2. \A y \in Clients : Holders(y)' = Holders(y) + Same(c, y)
    <3> SUFFICES ASSUME NEW y \in Clients PROVE Holders(y)' = Holders(y) + Same(c, y)
      OBVIOUS
    <3>1. Accepted[Main] # y /\ Accepted'[Main] = c
      BY <2>1, ThreadedAssumption DEF Accepted
    <3>2. \A m \in {Main} : m # Main => Accepted'[m] = Accepted[m]
      OBVIOUS
    <3>3. Hands(y, Waiting, Accepted', cur, {Main}, Workers)
            = Hands(y, Waiting, Accepted, cur, {Main}, Workers) + Same(Accepted'[Main], y)
      <4>1. /\ IsFiniteSet({Main}) /\ IsFiniteSet(Workers) /\ Main \in {Main}
            /\ Waiting \in Seq(Clients)
        BY <1>0
      <4> QED BY ONLY <3>1, <3>2, <4>1, OfferHands
    <3> QED BY <2>1, <3>1, <3>3 DEF Holders
  <2>3. /\ conn[c] = "backlog" /\ conn'[c] = "accepted" /\ fds' = fds \cup {c}
        /\ dropped' = dropped /\ \A y \in Clients : y # c => conn'[y] = conn[y]
    BY <1>3 DEF MainAccept, Backlog, IInv, TypeOK, DataOK
  <2>4. c \notin fds /\ c \notin dropped /\ Holders(c) = 0
    BY <2>3 DEF OneHolder
  <2>5. Holders(c)' = 1 /\ \A y \in Clients : y # c => Holders(y)' = Holders(y)
    BY <1>0, <2>2, <2>4 DEF Same
  <2> QED BY <2>3, <2>4, <2>5 DEF OneHolder
<1>4. CASE MainPush
  <2>1. /\ Accepted' = [Accepted EXCEPT ![Main] = NoClient] /\ cur' = cur
        /\ Waiting' = Append(Waiting, Accepted[Main]) /\ Accepted[Main] \in Clients
    BY <1>4, PushPuts, PushAppends DEF Fifo!Put, Accepted
  <2>2. \A y \in Clients : Holders(y)' = Holders(y)
    <3> SUFFICES ASSUME NEW y \in Clients PROVE Holders(y)' = Holders(y)
      OBVIOUS
    <3>1. Accepted'[Main] # y
      BY <2>1, ThreadedAssumption DEF Accepted
    <3>2. \A m \in {Main} : m # Main => Accepted'[m] = Accepted[m]
      OBVIOUS
    <3>3. Hands(y, Append(Waiting, Accepted[Main]), Accepted', cur, {Main}, Workers)
            = Hands(y, Waiting, Accepted, cur, {Main}, Workers)
      <4>1. /\ IsFiniteSet({Main}) /\ IsFiniteSet(Workers) /\ Waiting \in Seq(Clients)
            /\ Accepted[Main] \in Clients
        BY <1>0, <2>1
      <4> QED BY <3>1, <3>2, <4>1, PutHands
    <3> QED BY <2>1, <3>3 DEF Holders
  <2> QED BY <1>1, <1>4, <2>2 DEF MainPush, clients
<1>5. ASSUME NEW w \in Workers, WorkerSem(w) PROVE OneHolder'
  <2>1. Waiting' = Waiting /\ Accepted' = Accepted /\ cur' = cur
    BY <1>5, SemAsks DEF Fifo!Ask
  <2>2. \A y \in Clients : Holders(y)' = Holders(y)
    BY <2>1 DEF Holders
  <2> QED BY <1>1, <1>5, <2>2 DEF WorkerSem, clients
<1>6. ASSUME NEW w \in Workers, WorkerPop(w) PROVE OneHolder'
  <2>1. /\ Waiting' = Tail(Waiting) /\ Waiting # <<>> /\ Accepted' = Accepted
        /\ cur' = [cur EXCEPT ![w] = Head(Waiting)]
    BY <1>6, PopTakes DEF Fifo!Take
  <2>2. cur[w] = NoClient /\ cur \in [Workers -> Clients \cup {NoClient}]
    BY <1>6 DEF HeldInv, Busy, WorkerPop, Go, IInv, TypeOK, DataOK
  <2>3. cur'[w] = Head(Waiting) /\ \A v \in Workers : v # w => cur'[v] = cur[v]
    BY <2>1, <2>2
  <2>4. \A y \in Clients : Holders(y)' = Holders(y)
    <3> SUFFICES ASSUME NEW y \in Clients PROVE Holders(y)' = Holders(y)
      OBVIOUS
    <3>1. cur[w] # y
      BY <2>2, ThreadedAssumption
    <3>2. Waiting # <<>>
      BY <2>1
    <3>3. Hands(y, Tail(Waiting), Accepted, cur', {Main}, Workers)
            = Hands(y, Waiting, Accepted, cur, {Main}, Workers)
      <4>1. cur'[w] = Head(Waiting) /\ \A v \in Workers : v # w => cur'[v] = cur[v]
        BY <2>3
      <4>2. IsFiniteSet({Main}) /\ IsFiniteSet(Workers) /\ Waiting \in Seq(Clients)
        BY <1>0
      <4> QED BY ONLY <3>1, <3>2, <4>1, <4>2, TakeHands
    <3> QED BY <2>1, <3>3 DEF Holders
  <2> QED BY <1>1, <1>6, <2>4 DEF WorkerPop, clients
<1>7. ASSUME NEW w \in Workers, LeavesClient(w) PROVE OneHolder'
  <2>1. /\ cur[w] \in Clients /\ Waiting' = Waiting /\ Accepted' = Accepted
        /\ cur' = [cur EXCEPT ![w] = NoClient] /\ conn' = conn
        /\ \/ fds' = fds \ {cur[w]} /\ dropped' = dropped
           \/ fds' = fds /\ dropped' = dropped \cup {cur[w]}
    BY <1>7, LeaveReleases DEF Fifo!Release
  <2>2. PICK x \in Clients : x = cur[w]
    BY <2>1
  <2>3. cur'[w] = NoClient /\ \A v \in Workers : v # w => cur'[v] = cur[v]
    BY <2>1 DEF IInv, TypeOK, DataOK
  <2>4. \A y \in Clients : Holders(y)' = Holders(y) - Same(x, y)
    <3> SUFFICES ASSUME NEW y \in Clients PROVE Holders(y)' = Holders(y) - Same(x, y)
      OBVIOUS
    <3>1. cur'[w] # y /\ \A v \in Workers : v # w => cur'[v] = cur[v]
      BY <2>3, ThreadedAssumption
    <3>2. Hands(y, Waiting, Accepted, cur', {Main}, Workers)
            = Hands(y, Waiting, Accepted, cur, {Main}, Workers) - Same(cur[w], y)
      BY <1>0, <3>1, ReleaseHands
    <3> QED BY <2>1, <2>2, <3>2 DEF Holders
  <2>5. Holders(x) >= 1
    <3>1. Hands(cur[w], Waiting, Accepted, cur, {Main}, Workers) >= 1
      BY <1>0, TakenInHand
    <3> QED BY <2>2, <3>1 DEF Holders
  <2>6. x \in fds /\ x \notin dropped /\ Holders(x) = 1
    BY <1>0, <2>5 DEF OneHolder
  <2>7. Holders(x)' = 0 /\ \A y \in Clients : y # x => Holders(y)' = Holders(y)
    BY <1>0, <2>4, <2>6 DEF Same
  <2>8. \/ fds' = fds \ {x} /\ dropped' = dropped
        \/ fds' = fds /\ dropped' = dropped \cup {x}
    BY <2>1, <2>2
  <2> QED BY <2>1, <2>6, <2>7, <2>8 DEF OneHolder
<1> QED BY <1>2, <1>3, <1>4, <1>5, <1>6, <1>7, StepKinds DEF IInv, TypeOK, LeavesClient

\* Every client whose socket is open and which no worker has dropped at 285 or
\* 294 is with main, in the queue or with one worker, exactly once, however main
\* and the workers interleave; a closed or dropped client is with nobody
\* (http_server.c:168-177, 255-270).
THEOREM OneHolderAtATime == Spec => []OneHolder
<1>1. IInv /\ HeldInv /\ OneHolder /\ [Next]_vars => OneHolder'
  BY NextHolder
<1> QED BY <1>1, InitHolder, HeldInvariance, PTL DEF Spec
=============================================================================
