---------------------------- MODULE HttpHandler ----------------------------
(* handle_client of the threaded web server (labs/threaded-webserver), which *)
(* serves request after request, and of the forking one                      *)
(* (labs/webserver-handout), which serves one: how the pieces of a request   *)
(* are put together, what is made of the text, and the answer.               *)
(*                                                                           *)
(* The text of a request is three units: two halves of the request line and  *)
(* the rest, up to the blank line.  The pieces in which they arrive are the  *)
(* network's choice; a request fits in the buffer and has at most HEADER_MAX *)
(* headers.  Some of the answer may be sent to a client that has left.       *)
EXTENDS Integers, Sequences, SequencesExt

CONSTANTS MaxRequests,      \* bound: requests of the client
          Blocks            \* read calls it takes to read the file

ASSUME HandlerAssumption == MaxRequests \in Nat /\ Blocks \in Nat

VARIABLES program,          \* "threaded" or "forking"
          asked,            \* the kinds of the requests sent so far
          coming,           \* their units that the kernel has not delivered
          left,             \* the client has closed its end
          handler,          \* place in handle_client
          request, bytesRead,   \* the buffer and the size of the last piece
          httpr, status,    \* the parsed request, or "freed"; the status
          position,         \* blocks read from the file
          answers,          \* what the client got for each request
          pieces            \* the sizes of the pieces of each request

handlerVars == <<program, asked, coming, left, handler, request, bytesRead, httpr, status,
                 position, answers, pieces>>

\* What a request asks for: a file that is there, missing, not allowed, that
\* cannot be opened for another reason, or a directory; with an unknown method;
\* in another version of HTTP.
Kinds == {"found", "missing", "forbidden", "broken", "directory", "put", "old"}
Text == <<"first", "second", "rest">>
Size == Len(Text)
Nul == "nul"

OK == 200
Cleared == [i \in 0 .. 2 * Size |-> Nul]

Put(buf, offset, piece) ==
  [i \in DOMAIN buf |->
     IF i \in offset .. offset + Len(piece) - 1 THEN piece[i - offset + 1] ELSE buf[i]]

\* The array is not initialised: an earlier client of the thread, gone in the
\* middle of a request, may have left its beginning.
Leftovers == {Put(Cleared, 0, SubSeq(Text, 1, n)) : n \in 0 .. Size - 1}

HhInit ==
  /\ program \in {"threaded", "forking"}
  /\ asked = <<>> /\ coming = <<>> /\ left = FALSE
  /\ handler = "start" /\ request \in Leftovers /\ bytesRead = 0
  /\ httpr = "none" /\ status = 0 /\ position = 0
  /\ answers = <<>> /\ pieces = <<>>

-----------------------------------------------------------------------------
(* The client waits for an answer before it asks again. *)

Answered == Len(answers) = Len(asked) /\ handler \in {"start", "unnamed", "recv", "ended"}

Ask(kind) ==
  /\ ~left /\ Len(asked) < MaxRequests /\ Answered
  /\ asked' = Append(asked, kind) /\ coming' = coming \o Text /\ pieces' = Append(pieces, <<>>)
  /\ UNCHANGED <<program, left, handler, request, bytesRead, httpr, status,
                 position, answers>>

Quit ==
  /\ ~left /\ left' = TRUE
  /\ UNCHANGED <<program, asked, coming, handler, request, bytesRead, httpr, status,
                 position, answers, pieces>>

-----------------------------------------------------------------------------
(* getnameinfo and recv. *)

\* If the client's name is not found handle_client returns at once.
GetName ==
  /\ handler = "start" /\ handler' \in {"recv", "unnamed"}
  /\ UNCHANGED <<program, asked, coming, left, request, bytesRead, httpr, status,
                 position, answers, pieces>>

\* The text of the buffer, up to its first NUL.
String(buf) == LET end == CHOOSE n \in DOMAIN buf : buf[n] = Nul /\ \A i \in 0 .. n - 1 : buf[i] # Nul
               IN [i \in 1 .. end |-> buf[i - 1]]

\* A piece is put behind as many units as the last piece had.  It need not be
\* followed by a NUL when the end of the request is looked for (strstr).
Receive(n) ==
  LET piece == SubSeq(coming, 1, n)
      buf == Put(request, bytesRead, piece)
  IN /\ program = "threaded" /\ handler = "recv" /\ n \in DOMAIN coming
     /\ coming' = SubSeq(coming, n + 1, Len(coming))
     /\ pieces' = [pieces EXCEPT ![Len(pieces)] = Append(@, n)]
     /\ IF Text[3] \in ToSet(String(buf))
          THEN request' = [buf EXCEPT ![n] = Nul] /\ bytesRead' = 0 /\ handler' = "parse"
          ELSE request' = buf /\ bytesRead' = n /\ UNCHANGED handler
     /\ UNCHANGED <<program, asked, left, httpr, status, position, answers>>

\* One piece is all there is, for the forking server.
ReceiveOnce(n) ==
  LET piece == SubSeq(coming, 1, n)
  IN /\ program = "forking" /\ handler = "recv" /\ n \in DOMAIN coming
     /\ coming' = SubSeq(coming, n + 1, Len(coming))
     /\ pieces' = [pieces EXCEPT ![Len(pieces)] = Append(@, n)]
     /\ request' = [Put(request, 0, piece) EXCEPT ![n] = Nul]
     /\ bytesRead' = n /\ handler' = "parse"
     /\ UNCHANGED <<program, asked, left, httpr, status, position, answers>>

\* recv returns 0 or an error; the threaded server does not close the socket.
PeerDisconnected ==
  /\ handler = "recv" /\ left /\ handler' = "ended"
  /\ UNCHANGED <<program, asked, coming, left, request, bytesRead, httpr, status,
                 position, answers, pieces>>

-----------------------------------------------------------------------------
(* request_to_struct. *)

\* A line that is torn has no version.
Whole(line) == Len(line) >= 2 /\ SubSeq(line, 1, 2) = SubSeq(Text, 1, 2)
MutantThreadedStatus(line, kind) ==  \* no method is refused
  IF ~Whole(line) \/ kind = "old" THEN 500 ELSE OK
ThreadedStatus(line, kind) ==
  CASE kind = "put" -> 501 [] ~Whole(line) \/ kind = "old" -> 500 [] OTHER -> OK
\* Every method will do: strcmp is not compared with 0 (194).
ForkingStatus(line, kind) == IF ~Whole(line) \/ kind = "old" THEN 500 ELSE OK

Parse ==
  LET line == String(request)
      kind == Last(asked)
      bad == IF program = "threaded" THEN ThreadedStatus(line, kind) ELSE ForkingStatus(line, kind)
  IN /\ handler = "parse" /\ status' = bad
     /\ httpr' = IF bad = OK THEN kind ELSE "freed"
     /\ handler' = IF bad = OK \/ program = "forking" THEN "open" ELSE "error"
     /\ UNCHANGED <<program, asked, coming, left, request, bytesRead, position, answers, pieces>>

-----------------------------------------------------------------------------
(* send_response and send_error_response. *)

\* send: to a client that has left it fails, or SIGPIPE ends the process.
Transmit(answer, next) ==
  \/ ~left /\ answers' = answer /\ handler' = next
  \/ left /\ UNCHANGED answers /\ handler' \in {next, "killed"}

OpenStatus(kind) ==
  CASE kind = "missing" -> 404 [] kind = "forbidden" -> 403 [] kind = "broken" -> 500
    [] OTHER -> OK

\* open.  The forking server goes on with a uri it has freed when the version
\* was wrong: the name can be any, the status too.  It also asks for the time of
\* a file it could not open, and dies if that is no date (359, 396).
OpenFile ==
  /\ handler = "open"
  /\ status' \in IF httpr = "freed" THEN {403, 404, 500} ELSE {OpenStatus(httpr)}
  /\ position' = 0
  /\ \/ handler' = IF status' = OK THEN "head" ELSE "error"
     \/ program = "forking" /\ status' # OK /\ handler' = "killed"
  /\ UNCHANGED <<program, asked, coming, left, request, bytesRead, httpr, answers, pieces>>

Head200 == [status |-> OK, length |-> Blocks, body |-> 0]
ErrorHead(s) == [status |-> s, length |-> 1, body |-> 1]

SendHead ==
  /\ handler = "head" /\ Transmit(Append(answers, Head200), "read")
  /\ UNCHANGED <<program, asked, coming, left, request, bytesRead, httpr, status,
                 position, pieces>>

SendErrorResponse ==
  /\ handler = "error" /\ Transmit(Append(answers, ErrorHead(status)), "sent")
  /\ UNCHANGED <<program, asked, coming, left, request, bytesRead, httpr, status,
                 position, pieces>>

\* read returns a block, which is sent.
SendBlock ==
  /\ handler = "read" /\ httpr # "directory" /\ position < Blocks /\ position' = position + 1
  /\ Transmit([answers EXCEPT ![Len(answers)].body = @ + 1], "read")
  /\ UNCHANGED <<program, asked, coming, left, request, bytesRead, httpr, status, pieces>>

EndOfFile ==
  /\ handler = "read" /\ httpr # "directory" /\ position = Blocks /\ handler' = "sent"
  /\ UNCHANGED <<program, asked, coming, left, request, bytesRead, httpr, status, position,
                 answers, pieces>>

\* read fails for a directory; -1 is a large size_t, so the loop goes on, and
\* what it sends is not the file.
ReadFails ==
  /\ handler = "read" /\ httpr = "directory"
  /\ Transmit([answers EXCEPT ![Len(answers)].body = Blocks + 1], "read")
  /\ UNCHANGED <<program, asked, coming, left, request, bytesRead, httpr, status,
                 position, pieces>>

MutantBuffer == request      \* the buffer keeps the last request
Buffer == Cleared

\* The threaded server clears the buffer and goes back to recv; the forking one
\* closes the socket and frees the request, a second time if it was freed.
RequestDone ==
  /\ handler = "sent" /\ httpr' = "none"
  /\ IF program = "threaded"
       THEN request' = Buffer /\ handler' = "recv"
       ELSE /\ handler' \in {"ended"} \cup (IF httpr = "freed" THEN {"killed"} ELSE {})
            /\ UNCHANGED request
  /\ UNCHANGED <<program, asked, coming, left, bytesRead, status, position, answers, pieces>>

HandlerStep ==
  \/ \E n \in DOMAIN coming : Receive(n) \/ ReceiveOnce(n)
  \/ GetName \/ PeerDisconnected \/ Parse \/ OpenFile \/ SendHead \/ SendErrorResponse
  \/ SendBlock \/ EndOfFile \/ ReadFails \/ RequestDone

HhNext == HandlerStep \/ Quit \/ \E kind \in Kinds : Ask(kind)

-----------------------------------------------------------------------------
(* Properties *)

\* What a request calls for: 501 for an unknown method (STATUS_NOT_IMPLEMENTED,
\* 200 of the forking server; testNotImplemented, protocol.py:78-83), 500 for
\* another version, the status of the failed open, or 200 and all of the file.
Expected(kind) ==
  CASE kind = "put" -> ErrorHead(501)
    [] kind = "old" -> ErrorHead(500)
    [] OpenStatus(kind) # OK -> ErrorHead(OpenStatus(kind))
    [] OTHER -> [Head200 EXCEPT !.body = Blocks]

RightAnswer(k) == k \in DOMAIN answers /\ answers[k] = Expected(asked[k])

\* The pieces the code does not put together again: the threaded server does
\* for a request that comes whole, or as the first half of its line and then the
\* rest; the forking one needs the whole line in the first piece.
Torn(k) ==
  /\ k \in DOMAIN pieces /\ pieces[k] # <<>>
  /\ IF program = "threaded" THEN \A good \in {<<3>>, <<1, 2>>} : ~IsPrefix(pieces[k], good)
                             ELSE pieces[k][1] = 1

\* Where the code goes wrong or gives no answer: the client has left or its name
\* was not found, a directory is read for ever, the request was torn; and of the
\* forking server every request but the first, and all that call for an error.
\* An unknown method is among these: 194 lets it through, and it gets 200.
ForkingErrors == {"put", "old", "missing", "forbidden", "broken"}
NotCovered(k) ==
  \/ left \/ handler = "unnamed" \/ "directory" \in ToSet(asked) \/ Torn(k)
  \/ program = "forking" /\ (k > 1 \/ ToSet(asked) \cap ForkingErrors # {})

\* A request that has been answered has the status it calls for and all of the
\* file, once, however many requests the connection has seen, however torn the
\* earlier ones were and whatever an earlier client left in the buffer; what is
\* behind the last one belongs to none (http_server.c:275-333 of the threaded
\* server, 127-167 of the forking one).  Excepted, by NotCovered: clients that
\* have left, have no name or ask for a directory; the request itself torn in
\* the wrong places; and of the forking server unknown methods, other versions,
\* files it cannot open and what follows the first request.
AnswersRight ==
  \A k \in DOMAIN answers :
    \/ NotCovered(k)
    \/ k \in DOMAIN asked /\ (RightAnswer(k) \/ (k = Len(answers) /\ handler = "read"))

\* Every request is answered, with the status it calls for and all of the file,
\* whatever the last request on the connection was and whatever an earlier
\* client left in the buffer, with the exceptions of AnswersRight: the unknown
\* method of the forking server (194), which should get 501, is one of them
\* (http_server.c:281-327 and 518-523 of the threaded server, 131-165 and
\* 294-310 of the forking one).
RequestsAnswered ==
  \A k \in 1 .. MaxRequests : Len(asked) = k ~> RightAnswer(k) \/ NotCovered(k)
=============================================================================
