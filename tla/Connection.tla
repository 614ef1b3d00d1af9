------------------------------ MODULE Connection ------------------------------
(***************************************************************************)
(* One keep-alive connection of the hub (web/server.py, class Handler):    *)
(* which bytes of the stream each request consumes, whatever becomes of    *)
(* the request.                                                            *)
(*                                                                         *)
(* The client writes requests, each a head and then a body, with or        *)
(* without waiting for the answers. The stream is a sequence of units: a   *)
(* head, or one unit of a body. Handlers come in three kinds by what they  *)
(* do about a body: `upload` reads one of up to MAX_BODY, the `account`    *)
(* handlers read one of up to MAX_AUTH_BODY after checks of their own, and *)
(* every other endpoint is `plain`: it answers without looking.            *)
(***************************************************************************)
EXTENDS Integers, Sequences

CONSTANTS MaxBody,      \* MAX_BODY
          MaxAuthBody,  \* MAX_AUTH_BODY
          MaxDrain,     \* MAX_DRAIN
          MaxLength,    \* the longest body a client sends (a bound)
          MaxRequests   \* requests on the connection (a bound)

ASSUME ConnectionAssumption ==
  /\ MaxBody \in Nat /\ MaxAuthBody \in Nat
  /\ MaxDrain \in Nat /\ MaxLength \in Nat /\ MaxRequests \in Nat
  /\ MaxAuthBody <= MaxDrain /\ MaxBody <= MaxDrain

\* A Content-Length that is not a number.
Garbled == -1

Kinds == {"upload", "account", "plain"}
Requests == [to : Kinds, length : 0..MaxLength \cup {Garbled}]

Numbers == 1..MaxRequests

Heads == [kind : {"head"}, of : Numbers, request : Requests]
Bodies == [kind : {"body"}, of : Numbers]

VARIABLES
  written,   \* requests the client has begun to write
  unsent,    \* units of the last one it has yet to write
  gone,      \* the client has hung up
  wire,      \* what has arrived and the server has not read
  pc,        \* where the handler thread is
  serving,   \* the request it serves: its number and what its head says
  request,
  want,      \* units it still reads before it goes on
  body_read, close_connection,
  answers,   \* what the client got: the request each is for (0: none)
  ignored    \* history: the requests answered with their body still unread

client == <<written, unsent, gone>>
vars == <<written, unsent, gone, wire, pc, serving, request, want, body_read,
          close_connection, answers, ignored>>

Reading == {"reading", "draining", "swallowing"}

TypeOK ==
  /\ written \in 0..MaxRequests
  /\ unsent \in Nat
  /\ gone \in BOOLEAN
  /\ wire \in Seq(Heads \cup Bodies)
  /\ pc \in Reading \cup {"line", "routed", "parsed", "raised", "answering", "closed"}
  /\ serving \in 0..MaxRequests
  /\ request \in Requests
  /\ want \in Nat
  /\ body_read \in BOOLEAN
  /\ close_connection \in BOOLEAN
  /\ answers \in Seq(0..MaxRequests)
  /\ ignored \subseteq Numbers

Init ==
  /\ written = 0 /\ unsent = 0 /\ gone = FALSE
  /\ wire = <<>>
  /\ pc = "line"
  /\ serving = 0 /\ request = [to |-> "plain", length |-> 0]
  /\ want = 0
  /\ body_read = FALSE
  /\ close_connection = FALSE
  /\ answers = <<>>
  /\ ignored = {}

-----------------------------------------------------------------------------
(* The client. *)

\* A body whose length is garbled is one unit long.
BodyUnits(r) == IF r.length = Garbled THEN 1 ELSE r.length

WriteHead(r) ==
  /\ ~gone /\ pc # "closed"
  /\ unsent = 0 /\ written < MaxRequests
  /\ written' = written + 1
  /\ unsent' = BodyUnits(r)
  /\ wire' = Append(wire, [kind |-> "head", of |-> written', request |-> r])
  /\ UNCHANGED <<gone, pc, serving, request, want, body_read, close_connection, answers, ignored>>

WriteBody ==
  /\ ~gone /\ pc # "closed" /\ unsent > 0
  /\ unsent' = unsent - 1
  /\ wire' = Append(wire, [kind |-> "body", of |-> written])
  /\ UNCHANGED <<written, gone, pc, serving, request, want, body_read,
                 close_connection, answers, ignored>>

HangUp ==
  /\ ~gone /\ gone' = TRUE
  /\ UNCHANGED <<written, unsent, wire, pc, serving, request, want, body_read,
                 close_connection, answers, ignored>>

-----------------------------------------------------------------------------
(* The handler thread. *)

\* Mutant: body_read is set up once per connection, not once per request.
ReadLineKeepingFlag ==
  /\ pc = "line" /\ wire # <<>> /\ Head(wire).kind = "head"
  /\ serving' = Head(wire).of /\ request' = Head(wire).request
  /\ wire' = Tail(wire)
  /\ pc' = "routed"
  /\ close_connection' = FALSE
  /\ UNCHANGED <<client, want, body_read, answers, ignored>>

\* parse_request, and the first lines of route.
ReadLine ==
  /\ pc = "line" /\ wire # <<>> /\ Head(wire).kind = "head"
  /\ serving' = Head(wire).of /\ request' = Head(wire).request
  /\ wire' = Tail(wire)
  /\ pc' = "routed"
  /\ body_read' = FALSE
  /\ close_connection' = FALSE
  /\ UNCHANGED <<client, want, answers, ignored>>

\* What is no request line is answered with an error, and the connection is
\* closed or not, depending on what the line looks like.
Misread ==
  /\ pc = "line" /\ wire # <<>> /\ Head(wire).kind = "body"
  /\ wire' = Tail(wire)
  /\ answers' = IF gone THEN answers ELSE Append(answers, 0)
  /\ pc' \in {"line", "closed"}
  /\ UNCHANGED <<client, serving, request, want, body_read, close_connection, ignored>>

EndOfStream ==
  /\ pc = "line" /\ wire = <<>> /\ gone
  /\ pc' = "closed"
  /\ UNCHANGED <<client, wire, serving, request, want, body_read, close_connection, answers, ignored>>

\* A plain endpoint answers: 404, 405 and 403 that are sent and not raised
\* are among its answers.
AnswerAtOnce ==
  /\ pc = "routed" /\ request.to = "plain"
  /\ pc' = "answering"
  /\ UNCHANGED <<client, wire, serving, request, want, body_read, close_connection, answers, ignored>>

\* An HttpError before the body is read: rate limits, CSRF, no account.
RefuseEarly ==
  /\ pc = "routed" /\ request.to # "upload"
  /\ pc' = "raised"
  /\ UNCHANGED <<client, wire, serving, request, want, body_read, close_connection, answers, ignored>>

\* Any other exception before the body is read: a plain 500.
FailEarly ==
  /\ pc = "routed" /\ request.to # "upload"
  /\ pc' = "answering"
  /\ UNCHANGED <<client, wire, serving, request, want, body_read, close_connection, answers, ignored>>

\* Mutant: >= MAX_DRAIN.
DrainShort(length, then) ==
  /\ want' = IF length >= MaxDrain THEN MaxDrain ELSE length
  /\ close_connection' = (close_connection \/ length >= MaxDrain)
  /\ pc' = then

\* drain: up to MAX_DRAIN, and past that the connection will be closed.
Drain(length, then) ==
  /\ want' = IF length > MaxDrain THEN MaxDrain ELSE length
  /\ close_connection' = (close_connection \/ length > MaxDrain)
  /\ pc' = then

Cap == IF request.to = "upload" THEN MaxBody ELSE MaxAuthBody

\* read_json and upload: look at Content-Length.
CheckLength ==
  /\ pc = "routed" /\ request.to # "plain"
  /\ \/ /\ request.length <= 0
        /\ pc' = "raised"
        /\ UNCHANGED <<want, body_read, close_connection>>
     \/ /\ request.length > Cap
        /\ Drain(request.length, "draining")
        /\ UNCHANGED body_read
     \/ /\ request.length \in 1..Cap
        /\ body_read' = TRUE
        /\ want' = request.length
        /\ pc' = "reading"
        /\ UNCHANGED close_connection
  /\ UNCHANGED <<client, wire, serving, request, answers, ignored>>

\* rfile.read, unit by unit.
ReadUnit ==
  /\ pc \in Reading /\ want > 0 /\ wire # <<>>
  /\ wire' = Tail(wire)
  /\ want' = want - 1
  /\ UNCHANGED <<client, pc, serving, request, body_read, close_connection, answers, ignored>>

\* All of it has come, or no more will.
Complete == want = 0 \/ (wire = <<>> /\ gone)

BodyHere ==
  /\ pc = "reading" /\ Complete
  /\ pc' = "parsed"
  /\ want' = 0
  /\ UNCHANGED <<client, wire, serving, request, body_read, close_connection, answers, ignored>>

\* Mutant: read_json drains the body and forgets to say so.
DrainedUnmarked ==
  /\ pc = "draining" /\ Complete
  /\ pc' = IF request.to = "upload" THEN "answering" ELSE "raised"
  /\ want' = 0
  /\ UNCHANGED <<client, wire, serving, request, body_read, close_connection, answers, ignored>>

\* The 413 follows: upload answers, read_json raises.
Drained ==
  /\ pc = "draining" /\ Complete
  /\ body_read' = TRUE
  /\ pc' = IF request.to = "upload" THEN "answering" ELSE "raised"
  /\ want' = 0
  /\ UNCHANGED <<client, wire, serving, request, close_connection, answers, ignored>>

\* The rest of the handler, with the body in hand: it answers, raises an
\* HttpError, or fails with something else and answers 500.
Handle ==
  /\ pc = "parsed"
  /\ pc' \in {"answering", "raised"}
  /\ UNCHANGED <<client, wire, serving, request, want, body_read, close_connection, answers, ignored>>

\* Mutant: a garbled length is taken for no body.
SwallowTrusting ==
  /\ pc = "raised"
  /\ body_read' = TRUE
  /\ IF body_read \/ request.length <= 0
     THEN pc' = "answering" /\ UNCHANGED <<want, close_connection>>
     ELSE Drain(request.length, "swallowing")
  /\ UNCHANGED <<client, wire, serving, request, answers, ignored>>

\* route catches the HttpError: drain_unread.
DrainUnread ==
  /\ pc = "raised"
  /\ body_read' = TRUE
  /\ \/ /\ ~body_read /\ request.length > 0
        /\ Drain(request.length, "swallowing")
     \/ /\ body_read \/ request.length <= 0
        /\ close_connection' = (close_connection \/ (~body_read /\ request.length = Garbled))
        /\ pc' = "answering"
        /\ UNCHANGED want
  /\ UNCHANGED <<client, wire, serving, request, answers, ignored>>

Swallowed ==
  /\ pc = "swallowing" /\ Complete
  /\ pc' = "answering"
  /\ want' = 0
  /\ UNCHANGED <<client, wire, serving, request, body_read, close_connection, answers, ignored>>

\* The response goes out (a broken pipe is ignored), and the loop of
\* BaseHTTPRequestHandler.handle goes round or ends.
Answer ==
  /\ pc = "answering"
  /\ answers' = IF gone THEN answers ELSE Append(answers, serving)
  /\ ignored' = IF body_read \/ BodyUnits(request) = 0 THEN ignored
                ELSE ignored \cup {serving}
  /\ pc' = IF close_connection THEN "closed" ELSE "line"
  /\ UNCHANGED <<client, wire, serving, request, want, body_read, close_connection>>

Server ==
  \/ ReadLine \/ Misread \/ EndOfStream
  \/ AnswerAtOnce \/ RefuseEarly \/ FailEarly \/ CheckLength
  \/ ReadUnit \/ BodyHere \/ Drained \/ Swallowed
  \/ Handle \/ DrainUnread \/ Answer

Next ==
  \/ \E r \in Requests : WriteHead(r)
  \/ WriteBody
  \/ HangUp
  \/ Server

Spec == Init /\ [][Next]_vars

\* The hub keeps running, and a client writes what it announced or hangs up.
FairSpec == Spec /\ WF_vars(Server) /\ WF_vars(WriteBody)

-----------------------------------------------------------------------------

Answered(n) == \E i \in 1..Len(answers) : answers[i] = n

\* server.py, route: a refused request must not leave its body "in front of
\* the next request on a keep-alive connection". Where the server expects a
\* request line it finds one; the one exception is a body sent where nobody
\* reads one (or to a handler that died first), and it is that request's own.
\* Nor does a handler read or swallow more than its own request's body,
\* refused twice over or not.
Framed ==
  /\ pc = "line" /\ wire # <<>> /\ Head(wire).kind = "body" =>
       Head(wire).of \in ignored
  /\ pc \in Reading /\ want > 0 /\ wire # <<>> =>
       Head(wire).kind = "body" /\ Head(wire).of = serving

\* The client takes its n-th answer for the answer to its n-th request.
AnswersMatch ==
  ignored = {} => \A n \in 1..Len(answers) : answers[n] = n

\* server.py, drain: without it "the client is still writing when the response
\* goes out and sees a broken pipe instead of the 413". The hub hangs up on a
\* client only after a length that was garbled or past MAX_DRAIN.
NoHangUpOnWriter ==
  pc = "closed" /\ ~gone /\ ignored = {} =>
    request.length = Garbled \/ request.length > MaxDrain

\* Nobody waits for ever for bytes or for an answer: a request is answered
\* unless its client hangs up or an earlier one got the connection closed.
EveryRequestAnswered ==
  \A n \in Numbers : written = n ~> (Answered(n) \/ gone \/ pc = "closed")

=============================================================================
