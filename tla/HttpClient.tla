------------------------------ MODULE HttpClient ------------------------------
(***************************************************************************)
(* One upload of the benchmark: http_post_json (bench/src/http.c), through *)
(* a socket of its own or through curl.                                    *)
(*                                                                         *)
(* The reply arrives in pieces of any size from a peer that may hang up    *)
(* early, stall, or keep the connection open after the last byte: each of  *)
(* these is an outcome of recv. The head of a reply is two units, the      *)
(* status line and the rest; then come the bytes of the body, as framed.   *)
(* Of those only what framing is made of matters: CR, LF, and a number,    *)
(* which is one unit however many digits it has.                           *)
(***************************************************************************)
EXTENDS Integers, SequencesExt

CONSTANTS Replies,   \* what a hub may answer
          MaxReply   \* MAX_REPLY, in units

CR == -1
LF == -2
Other == -3
Bytes == Nat \cup {CR, LF, Other}

Statuses == {"2xx", "3xx", "4xx"}

\* `pieces` is the body as the hub, or a proxy, cut it into chunks.
ASSUME HttpAssumption ==
  /\ \A r \in Replies :
       /\ r.status \in Statuses
       /\ r.framing \in {"length", "chunked", "close"}
       /\ r.pieces \in Seq(Seq(Bytes))
       /\ \A i \in 1..Len(r.pieces) : r.pieces[i] # <<>>
  /\ MaxReply \in Nat

VARIABLES net,       \* where http_post_json is
          tls,       \* the hub's URL is https
          sigpipe,   \* the disposition of SIGPIPE
          timed,     \* the socket has its SO_RCVTIMEO and SO_SNDTIMEO
          reply,     \* what the hub answered
          got,       \* units of it read_reply has
          hungup,    \* recv found the peer's side closed
          landed,    \* the hub has stored this upload
          rc,        \* the return value: 0 or -1
          status, heard  \* out->status and out->body

httpVars == <<net, tls, sigpipe, timed, reply, got, hungup, landed, rc, status, heard>>

-----------------------------------------------------------------------------
(* The bytes of a body. *)

Payload(r) == FlattenSeq(r.pieces)

Chunk(piece) == <<Len(piece), CR, LF>> \o piece \o <<CR, LF>>

Body(r) ==
  IF r.framing = "chunked"
  THEN FlattenSeq([i \in 1..Len(r.pieces) |-> Chunk(r.pieces[i])])
         \o <<0, CR, LF, CR, LF>>
  ELSE Payload(r)

Units(r) == 2 + Len(Body(r))

\* The body as far as it is in the buffer.
Arrived(r, units) == SubSeq(Body(r), 1, units - 2)

\* The places of the line ends in b at or after place `at`.
LineEnds(b, at) == {e \in at..Len(b) - 1 : b[e] = CR /\ b[e + 1] = LF}

First(S) == CHOOSE e \in S : \A f \in S : e <= f

\* Mutant: look for the last chunk instead of walking to it.
ChunksSearched(b) ==
  \E e \in 1..Len(b) - 2 :
    /\ b[e] = 0 /\ b[e + 1] = CR /\ b[e + 2] = LF
    /\ e = 1 \/ b[e - 1] = LF

\* Walk the chunks from the front: is the terminating one here, or one that is
\* bigger than would be kept, or what is no number?
ChunksComplete(b) ==
  LET walk[at \in 1..Len(b) + 1] ==
        LET ends == LineEnds(b, at)
            next == First(ends) + 2 + b[at] + 2 IN
        /\ ends # {}
        /\ \/ b[at] \notin 1..MaxReply
           \/ next <= Len(b) + 1 /\ walk[next]
  IN walk[1]

\* dechunk: stop at the last chunk, or at the first one that is not whole.
Dechunk(b) ==
  LET decode[at \in 1..Len(b) + 1] ==
        LET ends == LineEnds(b, at)
            data == First(ends) + 2
            next == data + b[at] + 2 IN
        IF at > Len(b) \/ ends = {} \/ b[at] \notin Nat \ {0} \/ data + b[at] - 1 > Len(b)
        THEN <<>>
        ELSE SubSeq(b, data, data + b[at] - 1)
               \o (IF next <= Len(b) + 1 THEN decode[next] ELSE <<>>)
  IN decode[1]

\* read_reply stops after a recv that left it with this much.
Enough(r, units) ==
  \/ units >= MaxReply
  \/ /\ units >= 2
     /\ \/ r.framing = "chunked" /\ ChunksComplete(Arrived(r, units))
        \/ r.framing = "length" /\ units - 2 >= Len(Payload(r))

-----------------------------------------------------------------------------

HttpInit ==
  /\ net = "idle"
  /\ tls \in BOOLEAN
  /\ sigpipe = "default" /\ timed = FALSE
  /\ reply \in Replies
  /\ got = 0 /\ hungup = FALSE
  /\ landed = FALSE
  /\ rc = 0 /\ status = "none" /\ heard = <<>>

\* An unsafe token or a URL that does not parse.
RefuseCall ==
  /\ net = "called"
  /\ net' = "returned" /\ rc' = -1
  /\ UNCHANGED <<tls, sigpipe, timed, reply, got, hungup, landed, status, heard>>

\* Mutant: the transports run with SIGPIPE as they find it.
PostUnguarded ==
  /\ net = "called"
  /\ net' = IF tls THEN "curl" ELSE "dialing"
  /\ UNCHANGED <<tls, sigpipe, timed, reply, got, hungup, landed, rc, status, heard>>

Post ==
  /\ net = "called"
  /\ sigpipe' = "ignored"
  /\ net' = IF tls THEN "curl" ELSE "dialing"
  /\ UNCHANGED <<tls, timed, reply, got, hungup, landed, rc, status, heard>>

\* The transport is done.
Leave(code) == net' = "leaving" /\ rc' = code

\* dial: no address, no answer within CONNECT_SECONDS, refused.
DialFails ==
  /\ net = "dialing"
  /\ Leave(-1)
  /\ UNCHANGED <<tls, sigpipe, timed, reply, got, hungup, landed, status, heard>>

\* Mutant: nobody calls set_timeouts.
DialUntimed ==
  /\ net = "dialing"
  /\ net' = "sending"
  /\ UNCHANGED <<tls, sigpipe, timed, reply, got, hungup, landed, rc, status, heard>>

\* Connected, and set_timeouts.
Dial ==
  /\ net = "dialing"
  /\ timed' = TRUE
  /\ net' = "sending"
  /\ UNCHANGED <<tls, sigpipe, reply, got, hungup, landed, rc, status, heard>>

\* The peer hangs up while send_all, or fwrite into the pipe to a curl that is
\* not there, still writes.
WriteBreaks ==
  /\ net \in {"sending", "curl"}
  /\ IF sigpipe = "ignored" THEN Leave(-1) ELSE net' = "killed" /\ UNCHANGED rc
  /\ UNCHANGED <<tls, sigpipe, timed, reply, got, hungup, landed, status, heard>>

\* send_all: nothing was taken for IO_SECONDS.
SendTimesOut ==
  /\ net = "sending" /\ timed
  /\ Leave(-1)
  /\ UNCHANGED <<tls, sigpipe, timed, reply, got, hungup, landed, status, heard>>

\* All of it is sent; the hub decides, and has stored the run if its answer
\* is a success.
Send ==
  /\ net = "sending"
  /\ \E r \in Replies : reply' = r /\ landed' = (r.status = "2xx")
  /\ got' = 0 /\ hungup' = FALSE
  /\ net' = "reading"
  /\ UNCHANGED <<tls, sigpipe, timed, rc, status, heard>>

\* recv: some more of it, and no more than there is room for.
Recv ==
  /\ net = "reading" /\ ~hungup
  /\ got' \in got + 1..(IF Units(reply) > MaxReply THEN MaxReply ELSE Units(reply))
  /\ net' = IF Enough(reply, got') THEN "parsing" ELSE "reading"
  /\ UNCHANGED <<tls, sigpipe, timed, reply, hungup, landed, rc, status, heard>>

\* recv returns 0: the peer hung up, after its answer or in the middle of it.
RecvEnd ==
  /\ net = "reading"
  /\ hungup' = TRUE
  /\ net' = "parsing"
  /\ UNCHANGED <<tls, sigpipe, timed, reply, got, landed, rc, status, heard>>

\* recv: nothing came for IO_SECONDS.
RecvTimesOut ==
  /\ net = "reading" /\ ~hungup /\ timed
  /\ Leave(-1)
  /\ UNCHANGED <<tls, sigpipe, timed, reply, got, hungup, landed, status, heard>>

\* recv fails, for a reset; or realloc does.
RecvFails ==
  /\ net = "reading" /\ ~hungup
  /\ Leave(-1)
  /\ UNCHANGED <<tls, sigpipe, timed, reply, got, hungup, landed, status, heard>>

Decoded(r, units) ==
  IF units <= 2 THEN <<>>
  ELSE IF r.framing = "chunked" THEN Dechunk(Arrived(r, units)) ELSE Arrived(r, units)

\* parse_reply, which needs a status line.
Parse ==
  /\ net = "parsing"
  /\ IF got = 0
     THEN Leave(-1) /\ UNCHANGED <<status, heard>>
     ELSE Leave(0) /\ status' = reply.status /\ heard' = Decoded(reply, got)
  /\ UNCHANGED <<tls, sigpipe, timed, reply, got, hungup, landed>>

\* curl -f exits with 0 for any status below 400, and follows no redirect.
\* post_via_curl makes a 201 of every exit with 0.
CurlSucceeds ==
  /\ net = "curl"
  /\ \E r \in Replies :
       r.status # "4xx" /\ reply' = r /\ landed' = (r.status = "2xx")
  /\ Leave(0) /\ status' = "2xx" /\ heard' = <<>>
  /\ UNCHANGED <<tls, sigpipe, timed, got, hungup>>

\* No temporary file, no curl, a non-zero exit: the upload may have landed.
CurlFails ==
  /\ net = "curl"
  /\ landed' \in BOOLEAN
  /\ Leave(-1)
  /\ UNCHANGED <<tls, sigpipe, timed, reply, got, hungup, status, heard>>

\* sigpipe_restore.
Restore ==
  /\ net = "leaving"
  /\ sigpipe' = "default"
  /\ net' = "returned"
  /\ UNCHANGED <<tls, timed, reply, got, hungup, landed, rc, status, heard>>

\* What comes to pass without the peer: that a wait has lasted too long, too.
Own ==
  \/ RefuseCall \/ Post \/ DialFails \/ SendTimesOut \/ RecvTimesOut \/ Parse
  \/ CurlFails \/ Restore

Client ==
  \/ Own
  \/ Dial \/ WriteBreaks \/ Send \/ Recv \/ RecvEnd \/ RecvFails \/ CurlSucceeds

-----------------------------------------------------------------------------

HttpTypeOK ==
  /\ net \in {"idle", "called", "dialing", "sending", "reading", "parsing",
              "curl", "leaving", "returned", "killed"}
  /\ tls \in BOOLEAN
  /\ sigpipe \in {"default", "ignored"} /\ timed \in BOOLEAN
  /\ reply \in Replies
  /\ got \in 0..Units(reply)
  /\ hungup \in BOOLEAN
  /\ landed \in BOOLEAN
  /\ rc \in {0, -1}
  /\ status \in Statuses \cup {"none"}
  /\ heard \in Seq(Bytes)

\* The chunks too big to be kept, and what comes before the first of them.
Oversize(r) == {i \in 1..Len(r.pieces) : Len(r.pieces[i]) > MaxReply}

Kept(r) ==
  IF r.framing # "chunked" \/ Oversize(r) = {} THEN Payload(r)
  ELSE FlattenSeq(SubSeq(r.pieces, 1, First(Oversize(r)) - 1))

\* http.c, read_reply: "the framing the reply declares is what ends the read",
\* no later, or a peer that ignores `Connection: close` is waited out and the
\* run it stored is reported as failed; and (chunks_complete) no earlier, for
\* what is inside a chunk must not end the reply. What is handed on is the body
\* as the hub sent it, up to a chunk larger than MAX_REPLY, and only the front
\* of that if the peer hung up before the end or MAX_REPLY was reached.
ReplyRead ==
  /\ net = "reading" /\ reply.framing # "close" => got < Units(reply)
  /\ net = "leaving" /\ rc = 0 /\ ~tls =>
       /\ IsPrefix(heard, Kept(reply))
       /\ \/ heard = Kept(reply)
          \/ hungup /\ got < Units(reply)
          \/ got = MaxReply

=============================================================================
