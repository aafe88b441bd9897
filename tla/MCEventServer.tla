--------------------------- MODULE MCEventServer ---------------------------
(* Instances of EventServer for TLC.  In the safety run client c1 keeps its *)
(* connection for two requests and client c2 may vanish at any moment.     *)
EXTENDS EventServer, TLC

CONSTANTS c1, c2

TwoThenOne == c1 :> 2 @@ c2 :> 1
AllThenFound == c1 :> AllKinds @@ c2 :> {"found"}
OneEach == [c \in Clients |-> 1]
TwoEach == [c \in Clients |-> 2]
FoundOnly == [c \in Clients |-> {"found"}]
=============================================================================
