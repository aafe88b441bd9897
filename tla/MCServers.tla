----------------------------- MODULE MCServers -----------------------------
(* The small servers side by side: a behaviour is one of a server that gives *)
(* its connections to a reader each, of the epoll example, or of one         *)
(* connection of a web server.  They share nothing; what does not run stays  *)
(* at one initial state.                                                     *)
EXTENDS PerConnection, EpollEcho, HttpHandler, TLC

CONSTANTS p1, p2

VARIABLE running        \* which of the three models runs

Models == {"connections", "epoll", "http"}

MCInit ==
  /\ running \in Models /\ PcInit /\ EpInit /\ HhInit
  /\ running # "connections" => server = "echoserveri"
  /\ running # "http" => program = "threaded" /\ request = Cleared

ConnectionsRun(A) == running = "connections" /\ A /\ UNCHANGED <<running, epollEchoVars, handlerVars>>
EpollRuns(A) == running = "epoll" /\ A /\ UNCHANGED <<running, connVars, handlerVars>>
HttpRuns(A) == running = "http" /\ A /\ UNCHANGED <<running, connVars, epollEchoVars>>

MCNext == ConnectionsRun(PcNext) \/ EpollRuns(EpNext) \/ HttpRuns(HhNext)

MCUnits == (p1 :> 2) @@ (p2 :> 1)

\* Every process and thread of a server runs on, and so does the kernel's
\* delivery of signals.  A client that is not stubborn sends its next line or
\* ends its side some day, and one of the epoll server reads what has come.  All
\* these steps are finitely many, but for the loop of ReadFails: fairness to all
\* together is fairness to each.
FairStep ==
  \/ ConnectionsRun(MainStep \/ SignalStep)
  \/ \E c \in Clients : ConnectionsRun(ReaderStep(c))
  \/ \E c \in Clients \ Stubborn : ConnectionsRun(SendLine(c) \/ Leave(c, "done"))
  \/ EpollRuns(EpollServerStep) \/ \E c \in Peers : EpollRuns(Hear(c))
  \/ HttpRuns(HandlerStep)

allVars == <<running, connVars, epollEchoVars, handlerVars>>
MCSpec == MCInit /\ [][MCNext]_allVars /\ WF_allVars(FairStep)
=============================================================================
