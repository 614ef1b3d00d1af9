--------------------------- MODULE RunDriver_proofs ---------------------------
(***************************************************************************)
(* What an upload can do to a run, what the exit status says of it and     *)
(* what its reader is given, for any number of variants and CPUs and       *)
(* whatever a hub may answer.                                              *)
(***************************************************************************)
EXTENDS RunDriver, Induction, SequenceTheorems, TLAPS

Transporting == {"dialing", "sending", "reading", "parsing", "curl", "leaving"}
Working == {"threads", "cores", "emit", "document", "uploading"}
Ended == {"exited", "failed", "killed"}

\* SIGPIPE is ignored exactly as long as a transport runs.
Shape ==
  /\ options \in Options
  /\ at \in Working \cup {"next", "finish"} \cup Ended
  /\ idx \in 1..options.n_sel
  /\ errors \in Nat
  /\ net \in Transporting \cup {"idle", "called", "returned"}
  /\ at = "uploading" <=> net # "idle"
  /\ sigpipe = IF net \in Transporting THEN "ignored" ELSE "default"
  /\ at = "killed" => ~reader

\* Over a socket, the status that is handed on is that of the hub that stored
\* the run or did not.
StatusTrue ==
  ~tls =>
    /\ net # "curl"
    /\ net \in {"reading", "parsing"} => landed = (reply.status = "2xx")
    /\ net \in {"leaving", "returned"} /\ UploadOK => landed

\* The variants that are done with, uploads included.
Done == IF at \in Working THEN 1..(idx - 1) ELSE 1..idx

ErrorsTrue ==
  options.submit /\ ~tls /\ errors = 0 /\ at \notin {"failed", "killed"} => stored = Done

ExitTrue ==
  /\ at \in {"finish", "exited"} => idx = options.n_sel
  /\ at = "exited" /\ exit = 0 => errors = 0

DInv == Shape /\ StatusTrue /\ ErrorsTrue /\ ExitTrue

-----------------------------------------------------------------------------
(* The upload. *)

\* No step of an upload ends the process.
LEMMA ClientStep ==
  ASSUME Shape, StatusTrue, Client
  PROVE  /\ net' \in Transporting \cup {"called", "returned"}
         /\ sigpipe' = IF net' \in Transporting THEN "ignored" ELSE "default"
         /\ StatusTrue'
<1> USE DEF Shape, StatusTrue, Transporting, UploadOK
<1>1. CASE RefuseCall
  BY <1>1 DEF RefuseCall
<1>2. CASE Post
  BY <1>2 DEF Post
<1>3. CASE DialFails
  BY <1>3 DEF DialFails, Leave
<1>4. CASE Dial
  BY <1>4 DEF Dial
<1>5. CASE WriteBreaks
  BY <1>5 DEF WriteBreaks, Leave
<1>6. CASE Send
  BY <1>6 DEF Send
<1>7. CASE Recv
  BY <1>7 DEF Recv
<1>8. CASE RecvEnd
  BY <1>8 DEF RecvEnd
<1>9. CASE RecvFails
  BY <1>9 DEF RecvFails, Leave
<1>10. CASE Parse
  <2>1. /\ net = "parsing" /\ net' = "leaving"
        /\ UNCHANGED <<tls, sigpipe, reply, landed>>
        /\ rc' = -1 \/ (rc' = 0 /\ status' = reply.status)
    BY <1>10 DEF Parse, Leave
  <2>2. ASSUME ~tls, rc' = 0, status' = "2xx" PROVE landed'
    <3>1. landed = (reply.status = "2xx") /\ reply.status = "2xx"
      BY <2>1, <2>2
    <3> QED BY <2>1, <3>1
  <2> QED BY <2>1, <2>2
<1>11. CASE CurlSucceeds
  BY <1>11 DEF CurlSucceeds, Leave
<1>12. CASE CurlFails
  BY <1>12 DEF CurlFails, Leave
<1>13. CASE Restore
  BY <1>13 DEF Restore
<1>14. CASE SendTimesOut
  BY <1>14 DEF SendTimesOut, Leave
<1>15. CASE RecvTimesOut
  BY <1>15 DEF RecvTimesOut, Leave
<1> QED BY <1>1, <1>2, <1>3, <1>4, <1>5, <1>6, <1>7, <1>8, <1>9, <1>10, <1>11,
           <1>12, <1>13, <1>14, <1>15 DEF Client, Own

LEMMA UploadingStep ==
  ASSUME DInv, Uploading
  PROVE  DInv'
<1>1. /\ at = "uploading" /\ Client
      /\ at' = IF net' = "killed" THEN "killed" ELSE at
      /\ UNCHANGED <<options, idx, reader, errors, stored, exit>>
  BY DEF Uploading
<1>2. /\ net' \in Transporting \cup {"called", "returned"}
      /\ sigpipe' = IF net' \in Transporting THEN "ignored" ELSE "default"
      /\ StatusTrue'
  BY <1>1, ClientStep DEF DInv
<1>3. at' = "uploading" /\ net' # "idle"
  BY <1>1, <1>2 DEF Transporting
<1>4. tls' = tls
  BY <1>1 DEF Client, Own, RefuseCall, Post, DialFails, Dial, WriteBreaks, SendTimesOut, Send,
              Recv, RecvEnd, RecvTimesOut, RecvFails, Parse, CurlSucceeds, CurlFails, Restore
<1>5. Shape'
  BY <1>1, <1>2, <1>3 DEF DInv, Shape
<1>6. ErrorsTrue' /\ ExitTrue'
  BY <1>1, <1>3, <1>4 DEF DInv, ErrorsTrue, ExitTrue, Done
<1> QED BY <1>2, <1>5, <1>6 DEF DInv

\* An upload that counts as one has been stored, and then so have all up to it.
LEMMA SubmittedStep ==
  ASSUME DInv, Submitted
  PROVE  DInv'
<1>1. /\ at = "uploading" /\ net = "returned"
      /\ errors' = IF UploadOK THEN errors ELSE errors + 1
      /\ stored' = IF landed THEN stored \cup {idx} ELSE stored
      /\ at' = "next" /\ net' = "idle" /\ sigpipe' = sigpipe /\ tls' = tls
      /\ UNCHANGED <<options, idx, reader>>
  BY DEF Submitted, HttpFree
<1>2. Shape'
  BY <1>1 DEF DInv, Shape, Working, Ended, Transporting
<1>3. StatusTrue' /\ ExitTrue'
  BY <1>1 DEF DInv, StatusTrue, ExitTrue
<1>4. ErrorsTrue'
  <2> SUFFICES ASSUME options.submit, ~tls, errors' = 0 PROVE stored' = 1..idx
    BY <1>1 DEF ErrorsTrue, Done, Working
  <2>1. UploadOK /\ errors = 0
    BY <1>1 DEF DInv, Shape
  <2>2. landed /\ stored = 1..(idx - 1)
    BY <1>1, <2>1 DEF DInv, StatusTrue, ErrorsTrue, Done, Working
  <2>3. idx \in Nat \ {0}
    BY DEF DInv, Shape, Options
  <2> QED BY <1>1, <2>2, <2>3
<1> QED BY <1>2, <1>3, <1>4 DEF DInv

-----------------------------------------------------------------------------
(* The driver. *)

LEMMA OutputGoes ==
  ASSUME NEW tokens, NEW flush, NEW next, Output(tokens, flush, next)
  PROVE  at' = next \/ (at' = "killed" /\ ~reader)
BY DEF Output

\* Steps of the driver away from the network: between two places of one
\* variant, or to the end.
LEMMA QuietStep ==
  ASSUME DInv, UNCHANGED <<httpVars, options, idx, reader, errors, stored>>,
         at # "uploading", at' # "uploading",
         \/ at \in Working /\ at' \in Working
         \/ at \notin Working \cup Ended /\ at' \in {"next", "finish", "exited"}
         \/ at \in Working /\ at' = "next" /\ ~options.submit
         \/ at' = "failed"
         \/ at' = "killed" /\ ~reader,
         ExitTrue'
  PROVE  DInv'
<1>1. Shape'
  BY DEF DInv, Shape, Working, Ended, Transporting, httpVars
<1>2. StatusTrue'
  BY DEF DInv, StatusTrue, UploadOK, httpVars
<1>3. ErrorsTrue'
  BY DEF DInv, ErrorsTrue, Done, Working, Ended, httpVars
<1> QED BY <1>1, <1>2, <1>3 DEF DInv

LEMMA MeasureStep ==
  ASSUME DInv, MeasureThreads \/ MeasureCore
  PROVE  DInv'
<1>1. at \in {"threads", "cores"} /\ UNCHANGED <<httpVars, options, idx, reader, errors, stored, exit>>
  BY DEF MeasureThreads, MeasureCore
<1>2. at' \in {"cores", "emit"} \/ (at' = "killed" /\ ~reader)
  BY OutputGoes DEF MeasureThreads, MeasureCore, AfterThreads
<1>3. ExitTrue'
  BY <1>1, <1>2 DEF DInv, ExitTrue
<1> QED BY <1>1, <1>2, <1>3, QuietStep DEF Working

LEMMA GiveUpStep ==
  ASSUME DInv, GiveUp
  PROVE  DInv'
<1>1. at \in {"threads", "cores", "document"}
      /\ UNCHANGED <<httpVars, options, idx, reader, errors, stored>>
  BY DEF GiveUp
<1>2. at' = "failed" \/ (at' = "killed" /\ ~reader)
  BY OutputGoes DEF GiveUp, Exit
<1>3. ExitTrue'
  BY <1>2 DEF ExitTrue
<1> QED BY <1>1, <1>2, <1>3, QuietStep

LEMMA EmitStep ==
  ASSUME DInv, Emit
  PROVE  DInv'
<1>1. at = "emit" /\ UNCHANGED <<httpVars, options, idx, reader, errors, stored, exit>>
  BY DEF Emit
<1>2. \/ at' = "document"
      \/ at' = "next" /\ ~options.submit
      \/ at' = "killed" /\ ~reader
  <2>1. options.submit \in BOOLEAN
    BY DEF DInv, Shape, Options
  <2> QED BY <2>1, OutputGoes DEF Emit
<1>3. ExitTrue'
  BY <1>2 DEF ExitTrue
<1> QED BY <1>1, <1>2, <1>3, QuietStep DEF Working

LEMMA DocumentStep ==
  ASSUME DInv, Document
  PROVE  DInv'
<1>1. /\ at = "document"
      /\ net' = IF at' = "uploading" THEN "called" ELSE net
      /\ UNCHANGED <<tls, sigpipe, timed, reply, got, hungup, landed, rc, status, heard,
                     options, idx, reader, errors, stored, exit>>
  BY DEF Document
<1>2. \/ at' = "uploading"
      \/ at' = "next" /\ ~options.submit
      \/ at' = "killed" /\ ~reader
  <2>1. options.submit \in BOOLEAN
    BY DEF DInv, Shape, Options
  <2> QED BY <2>1, OutputGoes DEF Document
<1>3. ExitTrue'
  BY <1>2 DEF ExitTrue
<1>4. CASE at' = "uploading"
  <2>1. Shape'
    BY <1>1, <1>4 DEF DInv, Shape, Working, Ended, Transporting
  <2>2. StatusTrue' /\ ErrorsTrue'
    BY <1>1, <1>4 DEF DInv, Shape, StatusTrue, ErrorsTrue, Done, Working
  <2> QED BY <1>3, <2>1, <2>2 DEF DInv
<1>5. CASE at' # "uploading"
  BY <1>1, <1>2, <1>3, <1>5, QuietStep DEF httpVars, Working
<1> QED BY <1>4, <1>5

LEMMA NextVariantStep ==
  ASSUME DInv, NextVariant
  PROVE  DInv'
<1>1. /\ at = "next" /\ idx < options.n_sel /\ idx' = idx + 1 /\ at' = Begin
      /\ UNCHANGED <<httpVars, options, reader, errors, stored, exit>>
  BY DEF NextVariant
<1>2. at' \in {"threads", "cores"}
  BY <1>1 DEF Begin
<1>3. idx \in Nat /\ options.n_sel \in Nat /\ idx' \in 1..options.n_sel /\ idx' - 1 = idx
  BY <1>1, DriverAssumption DEF DInv, Shape, Options
<1>4. Shape'
  BY <1>1, <1>2, <1>3 DEF DInv, Shape, Working, Ended, Transporting, httpVars
<1>5. StatusTrue' /\ ExitTrue'
  BY <1>1, <1>2 DEF DInv, StatusTrue, ExitTrue, UploadOK, httpVars
<1>6. ErrorsTrue'
  BY <1>1, <1>2, <1>3 DEF DInv, ErrorsTrue, Done, Working, httpVars
<1> QED BY <1>4, <1>5, <1>6 DEF DInv

LEMMA CompareStep ==
  ASSUME DInv, Compare
  PROVE  DInv'
<1>1. /\ at = "next" /\ idx = options.n_sel
      /\ UNCHANGED <<httpVars, options, idx, reader, errors, stored, exit>>
  BY DEF Compare
<1>2. at' = "finish" \/ (at' = "killed" /\ ~reader)
  BY OutputGoes DEF Compare
<1>3. ExitTrue'
  BY <1>1, <1>2 DEF ExitTrue
<1> QED BY <1>1, <1>2, <1>3, QuietStep DEF Working, Ended

LEMMA FinishStep ==
  ASSUME DInv, Finish
  PROVE  DInv'
<1>1. /\ at = "finish" /\ exit' = (IF errors > 0 THEN 1 ELSE 0)
      /\ UNCHANGED <<httpVars, options, idx, reader, errors, stored>>
  BY DEF Finish, Exit
<1>2. at' = "exited" \/ (at' = "killed" /\ ~reader)
  BY OutputGoes DEF Finish, Exit
<1>3. ExitTrue'
  BY <1>1, <1>2 DEF DInv, Shape, ExitTrue
<1> QED BY <1>1, <1>2, <1>3, QuietStep DEF Working, Ended

LEMMA InitDInv == Init => DInv
<1> SUFFICES ASSUME Init PROVE DInv
  OBVIOUS
<1>1. options \in Options /\ options.n_sel \in Nat \ {0}
  BY DriverAssumption DEF Init, Options
<1>2. at \in {"threads", "cores"} /\ idx = 1 /\ errors = 0 /\ stored = {}
      /\ net = "idle" /\ sigpipe = "default"
  BY DEF Init, HttpInit, Begin
<1>3. Shape
  BY <1>1, <1>2 DEF Shape, Working, Ended, Transporting
<1>4. StatusTrue /\ ErrorsTrue /\ ExitTrue
  BY <1>2 DEF StatusTrue, ErrorsTrue, ExitTrue, Done, Working
<1> QED BY <1>3, <1>4 DEF DInv

LEMMA StepDInv == DInv /\ [Next]_vars => DInv'
<1> SUFFICES ASSUME DInv, [Next]_vars PROVE DInv'
  OBVIOUS
<1>1. CASE Driver
  BY <1>1, MeasureStep, GiveUpStep, EmitStep, DocumentStep, UploadingStep, SubmittedStep,
     NextVariantStep, CompareStep, FinishStep DEF Driver
<1>2. CASE ReaderLeaves
  <2>1. /\ reader' = FALSE
        /\ UNCHANGED <<httpVars, options, at, idx, errors, stored, exit>>
    BY <1>2 DEF ReaderLeaves
  <2> QED BY <2>1 DEF DInv, Shape, StatusTrue, UploadOK, ErrorsTrue, ExitTrue, Done, httpVars
<1>3. CASE UNCHANGED vars
  BY <1>3 DEF vars, driverVars, httpVars, DInv, Shape, StatusTrue, UploadOK, ErrorsTrue,
              ExitTrue, Done
<1> QED BY <1>1, <1>2, <1>3 DEF Next

THEOREM DriverInductive == Spec => []DInv
BY InitDInv, StepDInv, PTL DEF Spec

-----------------------------------------------------------------------------

\* No upload takes the process with it, and a reader who leaves still ends it
\* between two uploads, whatever the hub, the network or curl do.
THEOREM UploadsNeverKill == Spec => []SigpipeScoped
<1>1. DInv => SigpipeScoped
  BY DEF DInv, Shape, Transporting, SigpipeScoped
<1> QED BY <1>1, DriverInductive, PTL

\* Over a socket, a run that submits and exits with 0 has had every variant
\* stored, for any number of them.
THEOREM ZeroMeansStored == Spec => []SocketExitMeansStored
<1>1. DInv => SocketExitMeansStored
  BY DEF DInv, Shape, ErrorsTrue, ExitTrue, Done, Working, SocketExitMeansStored
<1> QED BY <1>1, DriverInductive, PTL

-----------------------------------------------------------------------------
(* What the reader is to get, by its parts: for the options o, what variant *)
(* v prints, and all that the first m of them print.                        *)

Kinds == {"total", "core", "rows", "doc", "[", ",", "]", "table"}
Printable == Kinds \X Nat

TotalPart(o, v) == IF o.format = "text" /\ o.want_threads THEN Token("total", v) ELSE <<>>
Sweep(v, m) == FlattenSeq([c \in 1..m |-> Token("core", v)])
SweepPart(o, v, m) == IF o.format = "text" /\ o.want_cores THEN Sweep(v, m) ELSE <<>>
RowsPart(o, v) ==
  IF o.format = "tsv" \/ (o.format = "text" /\ o.want_threads) THEN Token("rows", v) ELSE <<>>
OpeningPart(o, v) == IF o.n_sel = 1 THEN <<>> ELSE Token(IF v = 1 THEN "[" ELSE ",", 0)
DocPart(o, v) == OpeningPart(o, v) \o Token("doc", v)
TextPart(o, v, m) == TotalPart(o, v) \o SweepPart(o, v, m)
Part(o, v) == IF o.format = "json" THEN DocPart(o, v) ELSE TextPart(o, v, Cores) \o RowsPart(o, v)
Parts(o, m) == FlattenSeq([v \in 1..m |-> Part(o, v)])
ClosingPart(o, v) ==
  IF o.format = "json" /\ o.n_sel > 1 /\ v = o.n_sel THEN Token("]", 0) ELSE <<>>
TablePart(o) == IF o.n_sel > 1 /\ o.format = "text" THEN Token("table", 0) ELSE <<>>
Whole(o) == (Parts(o, o.n_sel) \o ClosingPart(o, o.n_sel)) \o TablePart(o)

\* Concatenation, for what is printed.
LEMMA Regroup ==
  ASSUME NEW s \in Seq(Printable), NEW t \in Seq(Printable), NEW u \in Seq(Printable)
  PROVE  (s \o t) \o u = s \o (t \o u)
BY ConcatAssociative

LEMMA JoinType ==
  ASSUME NEW s \in Seq(Printable), NEW t \in Seq(Printable)
  PROVE  s \o t \in Seq(Printable)
BY ConcatProperties

LEMMA JoinNothing ==
  ASSUME NEW s \in Seq(Printable)
  PROVE  s \o <<>> = s /\ <<>> \o s = s
BY ConcatEmptySeq

LEMMA TokenType ==
  ASSUME NEW k \in Kinds, NEW v \in Nat
  PROVE  Token(k, v) \in Seq(Printable) /\ Len(Token(k, v)) = 1 /\ Token(k, v)[1] = <<k, v>>
<1>1. <<k, v>> \in Printable
  BY DEF Printable
<1>2. PICK p, S : p = <<k, v>> /\ S = Printable
  OBVIOUS
<1>3. <<p>> \in Seq(S) /\ Len(<<p>>) = 1 /\ <<p>>[1] = p
  BY <1>1, <1>2
<1> QED BY <1>2, <1>3 DEF Token

LEMMA SweepMore ==
  ASSUME NEW v \in Nat, NEW m \in Nat
  PROVE  /\ Sweep(v, m) \in Seq(Printable) /\ Sweep(v, 0) = <<>>
         /\ Sweep(v, m + 1) = Sweep(v, m) \o Token("core", v)
<1>1. Token("core", v) \in Seq(Printable)
  BY TokenType DEF Kinds
<1>2. PICK t, T : t = Token("core", v) /\ T = Printable
  OBVIOUS
<1>3. ASSUME NEW n \in Nat, NEW s, s = [c \in 1..(n + 1) |-> t], NEW r, r = [c \in 1..n |-> t]
      PROVE  /\ FlattenSeq(r) \in Seq(T) /\ FlattenSeq(s) = FlattenSeq(r) \o t
             /\ n = 0 => FlattenSeq(r) = <<>>
  <2>1. s \in [1..(n + 1) -> Seq(T)] /\ s[n + 1] = t
    BY <1>1, <1>2, <1>3
  <2>2. WithoutLast(r, s, T, n)
    BY <1>1, <1>2, <1>3 DEF WithoutLast
  <2>3. LastAdded(r, s, T, n)
    BY <2>2, FlattenMore
  <2> QED BY <2>1, <2>3 DEF LastAdded
<1>4. PICK s, r, z : /\ s = [c \in 1..(m + 1) |-> t] /\ r = [c \in 1..m |-> t]
                     /\ z = [c \in 1..0 |-> t]
  OBVIOUS
<1>5. /\ FlattenSeq(r) \in Seq(T) /\ FlattenSeq(s) = FlattenSeq(r) \o t /\ FlattenSeq(z) = <<>>
  <2>1. FlattenSeq(z) = <<>>
    <3>1. PICK n : n = 0
      OBVIOUS
    <3>2. PICK y : y = [c \in 1..(n + 1) |-> t]
      OBVIOUS
    <3> QED BY <1>3, <1>4, <3>1, <3>2
  <2> QED BY <1>3, <1>4, <2>1
<1> QED BY <1>2, <1>4, <1>5 DEF Sweep

OfOptions(o) ==
  /\ o.format \in {"text", "json", "tsv"} /\ o.n_sel \in Nat \ {0}
  /\ o.want_threads \in BOOLEAN /\ o.want_cores \in BOOLEAN

LEMMA CoresCount == Cores \in Nat \ {0}
BY DriverAssumption

LEMMA PartTypes ==
  ASSUME NEW o, NEW v \in Nat, NEW m \in Nat
  PROVE  /\ TotalPart(o, v) \in Seq(Printable) /\ SweepPart(o, v, m) \in Seq(Printable)
         /\ RowsPart(o, v) \in Seq(Printable) /\ OpeningPart(o, v) \in Seq(Printable)
         /\ ClosingPart(o, v) \in Seq(Printable) /\ TablePart(o) \in Seq(Printable)
<1> USE EmptySeq
<1>1. TotalPart(o, v) \in Seq(Printable)
  BY TokenType DEF TotalPart, Kinds
<1>2. SweepPart(o, v, m) \in Seq(Printable)
  BY SweepMore DEF SweepPart
<1>3. RowsPart(o, v) \in Seq(Printable)
  BY TokenType DEF RowsPart, Kinds
<1>4. OpeningPart(o, v) \in Seq(Printable)
  BY TokenType DEF OpeningPart, Kinds
<1>5. ClosingPart(o, v) \in Seq(Printable)
  BY TokenType DEF ClosingPart, Kinds
<1>6. TablePart(o) \in Seq(Printable)
  BY TokenType DEF TablePart, Kinds
<1> QED BY <1>1, <1>2, <1>3, <1>4, <1>5, <1>6

LEMMA PartType ==
  ASSUME NEW o, NEW v \in Nat, NEW m \in Nat
  PROVE  Part(o, v) \in Seq(Printable) /\ TextPart(o, v, m) \in Seq(Printable)
<1>1. \A k \in Nat : TextPart(o, v, k) \in Seq(Printable)
  BY PartTypes, JoinType DEF TextPart
<1>2. TextPart(o, v, Cores) \o RowsPart(o, v) \in Seq(Printable)
  BY <1>1, PartTypes, CoresCount, JoinType
<1>3. Token("doc", v) \in Seq(Printable)
  BY TokenType DEF Kinds
<1>4. DocPart(o, v) \in Seq(Printable)
  BY <1>3, PartTypes, JoinType DEF DocPart
<1> QED BY <1>1, <1>2, <1>4 DEF Part

LEMMA PartsMore ==
  ASSUME NEW o, NEW m \in Nat
  PROVE  /\ Parts(o, m) \in Seq(Printable) /\ Parts(o, 0) = <<>>
         /\ Parts(o, m + 1) = Parts(o, m) \o Part(o, m + 1)
<1>1. \A v \in Nat : Part(o, v) \in Seq(Printable)
  BY PartType
<1>2. PICK T : T = Printable
  OBVIOUS
<1>3. ASSUME NEW n \in Nat, NEW s, s = [v \in 1..(n + 1) |-> Part(o, v)],
             NEW r, r = [v \in 1..n |-> Part(o, v)]
      PROVE  /\ FlattenSeq(r) \in Seq(T) /\ FlattenSeq(s) = FlattenSeq(r) \o Part(o, n + 1)
             /\ n = 0 => FlattenSeq(r) = <<>>
  <2>1. s \in [1..(n + 1) -> Seq(T)] /\ s[n + 1] = Part(o, n + 1)
    BY <1>1, <1>2, <1>3
  <2>2. WithoutLast(r, s, T, n)
    BY <1>1, <1>2, <1>3 DEF WithoutLast
  <2>3. LastAdded(r, s, T, n)
    BY <2>2, FlattenMore
  <2> QED BY <2>1, <2>3 DEF LastAdded
<1>4. PICK s, r, z : /\ s = [v \in 1..(m + 1) |-> Part(o, v)] /\ r = [v \in 1..m |-> Part(o, v)]
                     /\ z = [v \in 1..0 |-> Part(o, v)]
  OBVIOUS
<1>5. FlattenSeq(z) = <<>>
  <2>1. PICK n : n = 0
    OBVIOUS
  <2>2. PICK y : y = [v \in 1..(n + 1) |-> Part(o, v)]
    OBVIOUS
  <2> QED BY <1>3, <1>4, <2>1, <2>2
<1>6. FlattenSeq(r) \in Seq(T) /\ FlattenSeq(s) = FlattenSeq(r) \o Part(o, m + 1)
  BY <1>3, <1>4
<1> QED BY <1>2, <1>4, <1>5, <1>6 DEF Parts

-----------------------------------------------------------------------------
(* What a sequence starts with. *)

Starts(s, t) == s \in Seq(Printable) /\ \E u \in Seq(Printable) : t = s \o u

LEMMA StartsIsPrefix ==
  ASSUME NEW s, NEW t, Starts(s, t)
  PROVE  IsPrefix(s, t)
<1>1. s \in Seq(Printable) /\ BeginsWith(t, s, Printable)
  BY DEF Starts, BeginsWith
<1> QED BY <1>1, BeginsWithPrefix

LEMMA StartsOfMore ==
  ASSUME NEW s, NEW t \in Seq(Printable), Starts(s, t), NEW w \in Seq(Printable)
  PROVE  Starts(s, t \o w)
<1>1. PICK u \in Seq(Printable) : t = s \o u
  BY DEF Starts
<1>2. s \in Seq(Printable)
  BY DEF Starts
<1>3. t \o w = s \o (u \o w) /\ u \o w \in Seq(Printable)
  BY <1>1, <1>2, Regroup, JoinType
<1> QED BY <1>2, <1>3 DEF Starts

LEMMA StartsAfter ==
  ASSUME NEW s \in Seq(Printable), NEW a, NEW b \in Seq(Printable), Starts(a, b)
  PROVE  Starts(s \o a, s \o b)
<1>1. PICK u \in Seq(Printable) : b = a \o u
  BY DEF Starts
<1>2. a \in Seq(Printable)
  BY DEF Starts
<1>3. s \o b = (s \o a) \o u /\ s \o a \in Seq(Printable)
  BY SMTT(30), <1>1, <1>2, Regroup, JoinType
<1> QED BY <1>3 DEF Starts

LEMMA StartsOfItself ==
  ASSUME NEW s \in Seq(Printable)
  PROVE  Starts(s, s) /\ Starts(<<>>, s)
<1>1. <<>> \in Seq(Printable) /\ s = s \o <<>> /\ s = <<>> \o s
  BY EmptySeq, JoinNothing
<1> QED BY <1>1 DEF Starts

LEMMA StartsTransitive ==
  ASSUME NEW r, NEW s, NEW t, Starts(r, s), Starts(s, t)
  PROVE  Starts(r, t)
<1>1. PICK w \in Seq(Printable) : t = s \o w
  BY DEF Starts
<1>2. s \in Seq(Printable)
  BY DEF Starts
<1>3. Starts(r, s \o w)
  BY <1>1, <1>2, StartsOfMore
<1> QED BY <1>1, <1>3

LEMMA SweepStarts ==
  ASSUME NEW v \in Nat, NEW n \in Nat, NEW m \in 0..n
  PROVE  Starts(Sweep(v, m), Sweep(v, n))
<1> DEFINE S == {k \in Nat : Starts(Sweep(v, m), Sweep(v, k))}
<1>1. m \in Nat /\ m \in Int /\ n \in Int
  OBVIOUS
<1>2. m \in S
  BY <1>1, SweepMore, StartsOfItself
<1>3. ASSUME NEW i \in m..(n - 1), i \in S PROVE i + 1 \in S
  <2>1. i \in Nat /\ i + 1 \in Nat
    BY <1>1
  <2>2. Sweep(v, i) \in Seq(Printable) /\ Token("core", v) \in Seq(Printable)
    BY <2>1, SweepMore, TokenType DEF Kinds
  <2>3. Starts(Sweep(v, m), Sweep(v, i) \o Token("core", v))
    BY <1>3, <2>2, StartsOfMore
  <2> QED BY <2>1, <2>3, SweepMore
<1> HIDE DEF S
<1>4. \A i \in m..(n - 1) : i \in S => i + 1 \in S
  BY <1>3
<1>5. m..n \subseteq S
  BY <1>1, <1>2, <1>4, IntervalInduction
<1>6. n \in m..n
  OBVIOUS
<1> QED BY <1>5, <1>6 DEF S

LEMMA PartsStart ==
  ASSUME NEW o, NEW n \in Nat, NEW m \in 0..n
  PROVE  Starts(Parts(o, m), Parts(o, n))
<1> DEFINE S == {k \in Nat : Starts(Parts(o, m), Parts(o, k))}
<1>1. m \in Nat /\ m \in Int /\ n \in Int
  OBVIOUS
<1>2. m \in S
  BY <1>1, PartsMore, StartsOfItself
<1>3. ASSUME NEW i \in m..(n - 1), i \in S PROVE i + 1 \in S
  <2>1. i \in Nat /\ i + 1 \in Nat
    BY <1>1
  <2>2. Parts(o, i) \in Seq(Printable) /\ Part(o, i + 1) \in Seq(Printable)
    BY <2>1, PartsMore, PartType
  <2>3. Starts(Parts(o, m), Parts(o, i) \o Part(o, i + 1))
    BY <1>3, <2>2, StartsOfMore
  <2> QED BY <2>1, <2>3, PartsMore
<1> HIDE DEF S
<1>4. \A i \in m..(n - 1) : i \in S => i + 1 \in S
  BY <1>3
<1>5. m..n \subseteq S
  BY <1>1, <1>2, <1>4, IntervalInduction
<1>6. n \in m..n
  OBVIOUS
<1> QED BY <1>5, <1>6 DEF S

\* What came before variant v, and its own part at any point of its sweep, are
\* the front of all.
LEMMA SoFarStarts ==
  ASSUME NEW o, OfOptions(o), NEW v \in 1..o.n_sel, NEW m \in 0..Cores
  PROVE  /\ Starts(Parts(o, v - 1), Whole(o))
         /\ o.format # "json" => Starts(Parts(o, v - 1) \o TextPart(o, v, m), Whole(o))
         /\ Starts(Parts(o, v), Whole(o))
         /\ Starts(Parts(o, v) \o ClosingPart(o, v), Whole(o))
         /\ Starts(Whole(o), Whole(o))
<1> DEFINE N == o.n_sel
<1>0. N \in Nat \ {0} /\ v \in Nat \ {0} /\ v - 1 \in Nat /\ v - 1 \in 0..N /\ v \in 0..N
      /\ (v - 1) + 1 = v
  BY DEF OfOptions
<1>1. /\ Parts(o, N) \in Seq(Printable) /\ Parts(o, v) \in Seq(Printable)
      /\ Parts(o, v - 1) \in Seq(Printable)
      /\ ClosingPart(o, N) \in Seq(Printable) /\ TablePart(o) \in Seq(Printable)
  BY <1>0, PartsMore, PartTypes
<1>2. Parts(o, N) \o ClosingPart(o, N) \in Seq(Printable)
  BY <1>1, JoinType
<1>3. Whole(o) \in Seq(Printable) /\ Starts(Whole(o), Whole(o))
  BY <1>1, <1>2, JoinType, StartsOfItself DEF Whole
<1>4. ASSUME NEW s, Starts(s, Parts(o, N) \o ClosingPart(o, N)) PROVE Starts(s, Whole(o))
  BY <1>1, <1>2, <1>4, StartsOfMore DEF Whole
<1>5. ASSUME NEW s, Starts(s, Parts(o, N)) PROVE Starts(s, Whole(o))
  <2>1. Starts(s, Parts(o, N) \o ClosingPart(o, N))
    BY <1>1, <1>5, StartsOfMore
  <2> QED BY <1>4, <2>1
<1>6. Starts(Parts(o, v - 1), Parts(o, N)) /\ Starts(Parts(o, v), Parts(o, N))
  BY <1>0, PartsStart
<1>7. Starts(Parts(o, v) \o ClosingPart(o, v), Whole(o))
  <2>1. CASE v = N
    BY <1>2, <1>4, <2>1, StartsOfItself
  <2>2. CASE v # N
    <3>1. ClosingPart(o, v) = <<>>
      BY <2>2 DEF ClosingPart
    <3>2. Parts(o, v) \o <<>> = Parts(o, v)
      BY <1>1, JoinNothing
    <3> QED BY <1>5, <1>6, <3>1, <3>2
  <2> QED BY <2>1, <2>2
<1>8. ASSUME o.format # "json" PROVE Starts(Parts(o, v - 1) \o TextPart(o, v, m), Whole(o))
  <2>1. /\ TotalPart(o, v) \in Seq(Printable) /\ SweepPart(o, v, m) \in Seq(Printable)
        /\ SweepPart(o, v, Cores) \in Seq(Printable) /\ RowsPart(o, v) \in Seq(Printable)
        /\ TextPart(o, v, Cores) \in Seq(Printable)
    <3>1. m \in Nat /\ Cores \in Nat
      BY CoresCount
    <3> QED BY <1>0, <3>1, PartTypes, PartType
  <2>2. Starts(SweepPart(o, v, m), SweepPart(o, v, Cores))
    <3>1. Starts(Sweep(v, m), Sweep(v, Cores))
      BY <1>0, CoresCount, SweepStarts
    <3>2. Starts(<<>>, <<>>)
      BY EmptySeq, StartsOfItself
    <3> QED BY <3>1, <3>2 DEF SweepPart
  <2>3. Starts(TextPart(o, v, m), TextPart(o, v, Cores))
    BY <2>1, <2>2, StartsAfter DEF TextPart
  <2>4. Starts(TextPart(o, v, m), TextPart(o, v, Cores) \o RowsPart(o, v))
    BY <2>1, <2>3, StartsOfMore
  <2>5. Part(o, v) = TextPart(o, v, Cores) \o RowsPart(o, v) /\ Part(o, v) \in Seq(Printable)
    BY <1>0, <1>8, PartType, CoresCount DEF Part
  <2>6. Starts(Parts(o, v - 1) \o TextPart(o, v, m), Parts(o, v - 1) \o Part(o, v))
    BY <1>1, <2>4, <2>5, StartsAfter
  <2>7. Parts(o, v) = Parts(o, v - 1) \o Part(o, v)
    <3>1. PICK k \in Nat : k = v - 1
      BY <1>0
    <3>2. Parts(o, k + 1) = Parts(o, k) \o Part(o, k + 1) /\ k + 1 = v
      BY <1>0, <3>1, PartsMore
    <3> QED BY <3>1, <3>2
  <2>8. Starts(Parts(o, v - 1) \o TextPart(o, v, m), Parts(o, v))
    BY <2>6, <2>7
  <2> QED BY <1>5, <1>6, <2>8, StartsTransitive
<1> QED BY <1>3, <1>5, <1>6, <1>7, <1>8

-----------------------------------------------------------------------------
(* What has been printed: s, under the options o, at the place a, in variant *)
(* i of which c CPUs have been swept.                                        *)

SoFar(s, o, a, i, c) ==
  /\ a = "threads" => s = Parts(o, i - 1) /\ o.want_threads
  /\ a = "cores" => s = Parts(o, i - 1) \o TextPart(o, i, c) /\ o.want_cores
  /\ a = "emit" => s = Parts(o, i - 1) \o TextPart(o, i, Cores)
  /\ a = "document" => s = IF o.format = "json" THEN Parts(o, i - 1) ELSE Parts(o, i)
  /\ a \in {"uploading", "next"} => s = Parts(o, i) \o ClosingPart(o, i)
  /\ a \in {"finish", "exited"} => s = Whole(o)
  /\ a = "failed" => Starts(s, Whole(o))

Within(a, c) == c \in 0..Cores /\ (a = "cores" => c < Cores) /\ (a = "threads" => c = 0)

Typed == out \in Seq(Printable) /\ buffer \in Seq(Printable) /\ Within(at, core) /\ Valid(options)

\* Nothing of it is in stdio's buffer only.
Emptied ==
  at = "exited" \/ (at = "uploading" /\ options.format = "json") => buffer = <<>>

PrintInv == Typed /\ (reader => SoFar(out \o buffer, options, at, idx, core) /\ Emptied)

LEMMA OutputPrints ==
  ASSUME out \in Seq(Printable), buffer \in Seq(Printable), NEW tokens \in Seq(Printable),
         NEW flush \in BOOLEAN, NEW next, Output(tokens, flush, next)
  PROVE  /\ out' \in Seq(Printable) /\ buffer' \in Seq(Printable)
         /\ reader => /\ at' = next
                      /\ out' \o buffer' = (out \o buffer) \o tokens
                      /\ flush => buffer' = <<>>
<1> DEFINE all == buffer \o tokens
<1>1. PICK k \in (IF flush THEN {Len(all)} ELSE 0..Len(all)) :
        /\ buffer' = SubSeq(all, k + 1, Len(all))
        /\ out' = IF reader THEN out \o SubSeq(all, 1, k) ELSE out
        /\ at' = IF k > 0 /\ ~reader /\ sigpipe = "default" THEN "killed" ELSE next
  BY DEF Output
<1>2. all \in Seq(Printable) /\ Len(all) \in Nat
  BY JoinType, LenProperties
<1> HIDE DEF all
<1>3. k \in 0..Len(all) /\ (flush => k = Len(all))
  BY <1>1, <1>2
<1>4. PICK a, b : a = SubSeq(all, 1, k) /\ b = SubSeq(all, k + 1, Len(all))
  OBVIOUS
<1>5. a \in Seq(Printable) /\ b \in Seq(Printable)
  <2>1. \A i \in 1..Len(all) : all[i] \in Printable
    BY <1>2, ElementOfSeq
  <2>2. \A i \in 1..k : all[i] \in Printable
    BY <1>2, <1>3, <2>1
  <2>3. \A i \in (k + 1)..Len(all) : all[i] \in Printable
    BY <1>2, <1>3, <2>1
  <2>4. k \in Int /\ k + 1 \in Int /\ Len(all) \in Int
    BY <1>2, <1>3
  <2>5. SubSeq(all, 1, k) \in Seq(Printable)
    BY <2>2, <2>4, SubSeqProperties
  <2>6. SubSeq(all, k + 1, Len(all)) \in Seq(Printable)
    BY <2>3, <2>4, SubSeqProperties
  <2> QED BY <1>4, <2>5, <2>6
<1>6. a \o b = all
  <2>1. 1 \in 1..(Len(all) + 1) /\ k \in (1 - 1)..Len(all) /\ Len(all) \in k..Len(all)
    BY <1>2, <1>3
  <2>2. SubSeq(all, 1, k) \o SubSeq(all, k + 1, Len(all)) = SubSeq(all, 1, Len(all))
    BY <1>2, <2>1, ConcatAdjacentSubSeq
  <2> QED BY <1>2, <1>4, <2>2, SubSeqFull
<1>7. out' \in Seq(Printable) /\ buffer' \in Seq(Printable)
  BY <1>1, <1>4, <1>5, JoinType
<1>8. ASSUME reader
      PROVE  at' = next /\ out' \o buffer' = (out \o buffer) \o tokens /\ (flush => buffer' = <<>>)
  <2>1. at' = next
    BY <1>1, <1>8
  <2>2. out' = out \o a /\ buffer' = b
    BY <1>1, <1>4, <1>8
  <2>3. (out \o a) \o b = out \o (a \o b)
    BY SMTT(30), <1>5, Regroup
  <2>4. (out \o buffer) \o tokens = out \o (buffer \o tokens)
    BY Regroup
  <2>5. flush => b = <<>>
    <3>1. ASSUME flush PROVE b = <<>>
      <4>1. k = Len(all) /\ Len(all) \in Int /\ k + 1 \in Int /\ Len(all) < k + 1
        BY <1>2, <1>3, <3>1
      <4> QED BY <1>4, <4>1, SubSeqEmpty
    <3> QED BY <3>1
  <2>6. out' \o buffer' = (out \o buffer) \o tokens
    BY <1>6, <2>2, <2>3, <2>4 DEF all
  <2> QED BY <2>1, <2>2, <2>5, <2>6
<1> QED BY <1>7, <1>8

\* What the invariant knows of its variables.
LEMMA Bounds ==
  ASSUME Shape
  PROVE  /\ OfOptions(options) /\ idx \in 1..options.n_sel
         /\ idx \in Nat \ {0} /\ idx - 1 \in Nat /\ (idx - 1) + 1 = idx
         /\ options.submit \in BOOLEAN
<1>1. options \in Options /\ idx \in 1..options.n_sel
  BY DEF Shape
<1>2. OfOptions(options) /\ options.submit \in BOOLEAN
  BY <1>1, DriverAssumption DEF OfOptions, Options
<1> QED BY <1>1, <1>2 DEF OfOptions

LEMMA OnePartMore ==
  ASSUME Shape
  PROVE  /\ Parts(options, idx) = Parts(options, idx - 1) \o Part(options, idx)
         /\ Parts(options, idx) \in Seq(Printable) /\ Parts(options, idx - 1) \in Seq(Printable)
<1>1. PICK o, v, k : o = options /\ v = idx /\ k = idx - 1
  OBVIOUS
<1>2. k \in Nat /\ v = k + 1 /\ v \in Nat
  BY <1>1, Bounds
<1>3. Parts(o, k + 1) = Parts(o, k) \o Part(o, k + 1)
      /\ Parts(o, k) \in Seq(Printable) /\ Parts(o, v) \in Seq(Printable)
  BY <1>2, PartsMore
<1> QED BY <1>1, <1>2, <1>3

\* Where the steps of the driver lead to what they should have printed.
LEMMA PrintStep ==
  ASSUME PrintInv, NEW tokens \in Seq(Printable), NEW flush \in BOOLEAN, NEW next,
         Output(tokens, flush, next), reader' = reader, options' = options,
         Within(next, core'),
         reader => SoFar((out \o buffer) \o tokens, options, next, idx', core'),
         next \in {"exited", "uploading"} => flush
  PROVE  PrintInv'
<1>1. out \in Seq(Printable) /\ buffer \in Seq(Printable) /\ Valid(options)
  BY DEF PrintInv, Typed
<1>2. /\ out' \in Seq(Printable) /\ buffer' \in Seq(Printable)
      /\ reader => /\ at' = next
                   /\ out' \o buffer' = (out \o buffer) \o tokens
                   /\ flush => buffer' = <<>>
  BY <1>1, OutputPrints
<1>3. Typed'
  <2>1. at' = next \/ at' = "killed"
    BY OutputGoes
  <2>2. Within(at', core')
    BY <2>1 DEF Within
  <2> QED BY <1>1, <1>2, <2>2 DEF Typed, Valid
<1>4. ASSUME reader PROVE SoFar(out' \o buffer', options', at', idx', core') /\ Emptied'
  <2>1. SoFar(out' \o buffer', options', at', idx', core')
    BY <1>2, <1>4
  <2>2. Emptied'
    BY <1>2, <1>4 DEF Emptied
  <2> QED BY <2>1, <2>2
<1> QED BY <1>3, <1>4 DEF PrintInv

\* A step that prints nothing.
LEMMA SilentStep ==
  ASSUME PrintInv, UNCHANGED <<out, buffer, options, reader>>, Within(at', core'),
         reader => SoFar(out \o buffer, options, at', idx', core'),
         at' # "exited", at' = "uploading" => at = "uploading" \/ options.format # "json"
  PROVE  PrintInv'
<1>1. Typed'
  BY DEF PrintInv, Typed, Valid
<1>2. ASSUME reader PROVE Emptied'
  BY <1>2 DEF PrintInv, Emptied
<1> QED BY <1>1, <1>2 DEF PrintInv

LEMMA ThreadsPrint ==
  ASSUME DInv, PrintInv, MeasureThreads
  PROVE  PrintInv'
<1>0. Shape
  BY DEF DInv
<1>1. /\ at = "threads" /\ UNCHANGED <<options, idx, core, reader>>
      /\ Output(IF options.format = "text" THEN Token("total", idx) ELSE <<>>, FALSE, AfterThreads)
  BY DEF MeasureThreads
<1>2. PICK t : t = (IF options.format = "text" THEN Token("total", idx) ELSE <<>>)
  OBVIOUS
<1>3. t \in Seq(Printable)
  BY <1>0, <1>2, Bounds, TokenType, EmptySeq DEF Kinds
<1>4. ASSUME reader PROVE SoFar((out \o buffer) \o t, options, AfterThreads, idx, core)
  <2>1. out \o buffer = Parts(options, idx - 1) /\ core = 0 /\ options.want_threads
    BY <1>1, <1>4 DEF PrintInv, SoFar, Typed, Within
  <2>2. TotalPart(options, idx) = t
    BY <1>2, <2>1 DEF TotalPart
  <2>3. \A m : (options.want_cores => m = 0) => SweepPart(options, idx, m) = <<>>
    BY <1>0, Bounds, SweepMore DEF SweepPart
  <2>4. t \o <<>> = t
    BY <1>3, JoinNothing
  <2>5. options.want_cores => TextPart(options, idx, core) = t
    BY <2>1, <2>2, <2>3, <2>4 DEF TextPart
  <2>6. ~options.want_cores => TextPart(options, idx, Cores) = t
    BY <2>2, <2>3, <2>4 DEF TextPart
  <2>7. 0 < Cores /\ options.want_cores \in BOOLEAN
    BY <1>0, Bounds, CoresCount DEF OfOptions
  <2> QED BY <2>1, <2>5, <2>6, <2>7 DEF SoFar, AfterThreads
<1>5. Within(AfterThreads, core') /\ AfterThreads \notin {"exited", "uploading"}
  BY <1>1, CoresCount DEF PrintInv, Typed, AfterThreads, Within
<1> QED BY <1>1, <1>2, <1>3, <1>4, <1>5, PrintStep

LEMMA CorePrints ==
  ASSUME DInv, PrintInv, MeasureCore
  PROVE  PrintInv'
<1>0. Shape
  BY DEF DInv
<1> DEFINE next == IF core' = Cores THEN "emit" ELSE "cores"
<1>1. /\ at = "cores" /\ core' = core + 1 /\ UNCHANGED <<options, idx, reader>>
      /\ options.format = "text" => Output(Token("core", idx), TRUE, next)
      /\ options.format # "text" => at' = next /\ UNCHANGED <<buffer, out>>
  BY DEF MeasureCore
<1> HIDE DEF next
<1>2. core \in Nat /\ core < Cores /\ Within(next, core')
  BY <1>1, CoresCount DEF PrintInv, Typed, Within, next
<1>3. ASSUME reader
      PROVE  /\ options.format = "text" =>
                  SoFar((out \o buffer) \o Token("core", idx), options, next, idx, core')
             /\ options.format # "text" => SoFar(out \o buffer, options, next, idx, core')
  <2>1. /\ out \o buffer = Parts(options, idx - 1) \o TextPart(options, idx, core)
        /\ options.want_cores
    BY <1>1, <1>3 DEF PrintInv, SoFar
  <2>3. ASSUME NEW s, s = Parts(options, idx - 1) \o TextPart(options, idx, core')
        PROVE  SoFar(s, options, next, idx, core')
    BY <2>1, <2>3 DEF SoFar, next
  <2>4. ASSUME options.format # "text" PROVE TextPart(options, idx, core') = TextPart(options, idx, core)
    BY <2>4 DEF TextPart, SweepPart
  <2>5. ASSUME options.format = "text"
        PROVE  (out \o buffer) \o Token("core", idx)
                 = Parts(options, idx - 1) \o TextPart(options, idx, core')
    <3>1. PICK o, v, c, d, k : /\ o = options /\ v = idx /\ c = core /\ d = core' /\ k = idx - 1
      OBVIOUS
    <3>2. v \in Nat /\ k \in Nat /\ c \in Nat /\ d = c + 1 /\ d \in Nat
      BY <1>0, <1>1, <1>2, <3>1, Bounds
    <3>3. SweepPart(o, v, c) = Sweep(v, c) /\ SweepPart(o, v, d) = Sweep(v, d)
      BY <2>1, <2>5, <3>1 DEF SweepPart
    <3>4. Sweep(v, d) = Sweep(v, c) \o Token("core", v)
      BY <3>2, SweepMore
    <3>5. PICK P, T, S, K : /\ P = Parts(o, k) /\ T = TotalPart(o, v) /\ S = Sweep(v, c)
                            /\ K = Token("core", v)
      OBVIOUS
    <3>6. /\ P \in Seq(Printable) /\ T \in Seq(Printable) /\ S \in Seq(Printable)
          /\ K \in Seq(Printable)
      BY <3>2, <3>5, PartsMore, PartTypes, SweepMore, TokenType DEF Kinds
    <3>7. T \o S \in Seq(Printable)
      BY <3>6, JoinType
    <3>8. (P \o (T \o S)) \o K = P \o ((T \o S) \o K)
      BY SMTT(30), <3>6, <3>7, Regroup
    <3>9. (T \o S) \o K = T \o (S \o K)
      BY SMTT(30), <3>6, Regroup
    <3>10. TextPart(o, v, c) = T \o S /\ TextPart(o, v, d) = T \o (S \o K)
      BY <3>3, <3>4, <3>5 DEF TextPart
    <3> QED BY SMTT(30), <2>1, <3>1, <3>5, <3>8, <3>9, <3>10
  <2> QED BY <2>1, <2>3, <2>4, <2>5
<1>4. next \notin {"exited", "uploading"}
  BY DEF next
<1>5. Token("core", idx) \in Seq(Printable)
  BY <1>0, Bounds, TokenType DEF Kinds
<1>6. CASE options.format = "text"
  <2>1. PICK n, t : n = next /\ t = Token("core", idx)
    OBVIOUS
  <2>2. Output(t, TRUE, n) /\ t \in Seq(Printable) /\ TRUE \in BOOLEAN
    BY <1>1, <1>5, <1>6, <2>1
  <2>3. reader => SoFar((out \o buffer) \o t, options, n, idx', core')
    BY <1>1, <1>3, <1>6, <2>1
  <2> QED BY <1>1, <1>2, <2>1, <2>2, <2>3, PrintStep
<1>7. CASE options.format # "text"
  <2>1. UNCHANGED <<out, buffer, options, reader>> /\ idx' = idx /\ at' = next
    BY <1>1, <1>7
  <2> QED BY <1>2, <1>3, <1>4, <1>7, <2>1, SilentStep
<1> QED BY <1>6, <1>7

LEMMA GiveUpPrints ==
  ASSUME DInv, PrintInv, GiveUp
  PROVE  PrintInv'
<1>0. Shape
  BY DEF DInv
<1>1. /\ at \in {"threads", "cores", "document"} /\ UNCHANGED <<options, idx, core, reader>>
      /\ Output(<<>>, TRUE, "failed")
  BY DEF GiveUp, Exit
<1>2. PICK t, n : t = <<>> /\ n = "failed"
  OBVIOUS
<1>3. t \in Seq(Printable) /\ Output(t, TRUE, n) /\ TRUE \in BOOLEAN /\ Within(n, core')
  BY <1>1, <1>2, EmptySeq DEF PrintInv, Typed, Within
<1>4. ASSUME reader PROVE SoFar((out \o buffer) \o t, options, n, idx', core')
  <2>1. (out \o buffer) \o t = out \o buffer
    BY <1>2, JoinType, JoinNothing DEF PrintInv, Typed
  <2>2. /\ Starts(Parts(options, idx - 1), Whole(options))
        /\ Starts(Parts(options, idx), Whole(options))
        /\ options.format # "json" =>
             Starts(Parts(options, idx - 1) \o TextPart(options, idx, core), Whole(options))
    <3>1. PICK o, v, m : o = options /\ v = idx /\ m = core
      OBVIOUS
    <3>2. OfOptions(o) /\ v \in 1..o.n_sel /\ m \in 0..Cores
      BY <1>0, <3>1, Bounds DEF PrintInv, Typed, Within
    <3>3. /\ Starts(Parts(o, v - 1), Whole(o)) /\ Starts(Parts(o, v), Whole(o))
          /\ o.format # "json" => Starts(Parts(o, v - 1) \o TextPart(o, v, m), Whole(o))
      BY <3>2, SoFarStarts
    <3> QED BY <3>1, <3>3
  <2>3. options.format = "json" => TextPart(options, idx, core) = <<>>
    <3>1. <<>> \o <<>> = <<>>
      BY EmptySeq, JoinNothing
    <3> QED BY <3>1 DEF TextPart, TotalPart, SweepPart
  <2>4. Parts(options, idx - 1) \o <<>> = Parts(options, idx - 1)
    BY <1>0, OnePartMore, JoinNothing
  <2>5. Starts(out \o buffer, Whole(options))
    BY <1>1, <1>4, <2>2, <2>3, <2>4 DEF PrintInv, SoFar
  <2> QED BY <1>1, <1>2, <2>1, <2>5 DEF SoFar
<1>5. n \notin {"exited", "uploading"}
  BY <1>2
<1> QED BY <1>1, <1>3, <1>4, <1>5, PrintStep

LEMMA RowsPrint ==
  ASSUME DInv, PrintInv, Emit
  PROVE  PrintInv'
<1>0. Shape
  BY DEF DInv
<1> DEFINE goes == IF options.format = "json" \/ options.submit THEN "document" ELSE "next"
<1>1. /\ at = "emit" /\ UNCHANGED <<options, idx, core, reader>>
      /\ Output(IF Rows THEN Token("rows", idx) ELSE <<>>, FALSE, goes)
  BY DEF Emit
<1>2. PICK t, n : t = (IF Rows THEN Token("rows", idx) ELSE <<>>) /\ n = goes
  OBVIOUS
<1>3. t = RowsPart(options, idx)
  BY <1>2 DEF RowsPart, Rows
<1>4. t \in Seq(Printable)
  BY <1>0, <1>3, Bounds, PartTypes
<1>5. ASSUME reader PROVE SoFar((out \o buffer) \o t, options, n, idx', core')
  <2>1. out \o buffer = Parts(options, idx - 1) \o TextPart(options, idx, Cores)
    BY <1>1, <1>5 DEF PrintInv, SoFar
  <2>2. /\ Parts(options, idx - 1) \in Seq(Printable)
        /\ TextPart(options, idx, Cores) \in Seq(Printable)
    BY <1>0, Bounds, CoresCount, PartType, OnePartMore
  <2>3. (out \o buffer) \o t
           = Parts(options, idx - 1) \o (TextPart(options, idx, Cores) \o RowsPart(options, idx))
    BY SMTT(30), <1>3, <1>4, <2>1, <2>2, Regroup
  <2>4. CASE options.format # "json"
    <3>1. (out \o buffer) \o t = Parts(options, idx)
      BY <1>0, <2>3, <2>4, OnePartMore DEF Part
    <3>2. ClosingPart(options, idx) = <<>>
      BY <2>4 DEF ClosingPart
    <3>3. Parts(options, idx) \o <<>> = Parts(options, idx)
      BY <1>0, OnePartMore, JoinNothing
    <3> QED BY <1>1, <1>2, <2>4, <3>1, <3>2, <3>3 DEF SoFar
  <2>5. CASE options.format = "json"
    <3>1. TextPart(options, idx, Cores) = <<>> /\ RowsPart(options, idx) = <<>>
      <4>1. <<>> \o <<>> = <<>>
        BY EmptySeq, JoinNothing
      <4> QED BY <2>5, <4>1 DEF TextPart, TotalPart, SweepPart, RowsPart
    <3>2. Parts(options, idx - 1) \o <<>> = Parts(options, idx - 1)
      BY <2>2, JoinNothing
    <3>3. <<>> \o <<>> = <<>>
      BY EmptySeq, JoinNothing
    <3>4. (out \o buffer) \o t = Parts(options, idx - 1)
      BY <2>3, <3>1, <3>2, <3>3
    <3> QED BY <1>1, <1>2, <2>5, <3>4 DEF SoFar
  <2> QED BY <2>4, <2>5
<1>6. n \notin {"exited", "uploading"} /\ Within(n, core') /\ FALSE \in BOOLEAN
  BY <1>1, <1>2 DEF PrintInv, Typed, Within
<1>7. Output(t, FALSE, n)
  BY <1>1, <1>2
<1> QED BY <1>1, <1>4, <1>5, <1>6, <1>7, PrintStep

LEMMA DocumentPrints ==
  ASSUME DInv, PrintInv, Document
  PROVE  PrintInv'
<1>0. Shape
  BY DEF DInv
<1> DEFINE goes == IF options.submit THEN "uploading" ELSE "next"
<1>1. /\ at = "document" /\ UNCHANGED <<options, idx, core, reader>>
      /\ options.format = "json" => Output(Opening \o Token("doc", idx) \o Closing, TRUE, goes)
      /\ options.format # "json" => at' = goes /\ UNCHANGED <<buffer, out>>
  BY DEF Document
<1>2. PICK n : n = goes
  OBVIOUS
<1>3. Within(n, core') /\ n \in {"uploading", "next"}
  BY <1>1, <1>2 DEF PrintInv, Typed, Within
<1>4. CASE options.format # "json"
  <2>1. reader => SoFar(out \o buffer, options, n, idx', core')
    <3>1. ClosingPart(options, idx) = <<>>
      BY <1>4 DEF ClosingPart
    <3>2. Parts(options, idx) \o <<>> = Parts(options, idx)
      BY <1>0, OnePartMore, JoinNothing
    <3> QED BY <1>1, <1>3, <1>4, <3>1, <3>2 DEF PrintInv, SoFar
  <2> QED BY <1>1, <1>2, <1>3, <1>4, <2>1, SilentStep
<1>5. CASE options.format = "json"
  <2>1. PICK t : t = Opening \o Token("doc", idx) \o Closing
    OBVIOUS
  <2>2. t = DocPart(options, idx) \o ClosingPart(options, idx)
    BY <1>5, <2>1 DEF DocPart, ClosingPart, OpeningPart, Opening, Closing
  <2>3. /\ DocPart(options, idx) \in Seq(Printable) /\ Part(options, idx) = DocPart(options, idx)
        /\ ClosingPart(options, idx) \in Seq(Printable)
    BY <1>0, <1>5, Bounds, PartTypes, PartType DEF Part
  <2>4. t \in Seq(Printable)
    BY <2>2, <2>3, JoinType
  <2>5. ASSUME reader PROVE SoFar((out \o buffer) \o t, options, n, idx', core')
    <3>1. out \o buffer = Parts(options, idx - 1)
      BY <1>1, <1>5, <2>5 DEF PrintInv, SoFar
    <3>2. PICK P, D, C : /\ P = Parts(options, idx - 1) /\ D = DocPart(options, idx)
                         /\ C = ClosingPart(options, idx)
      OBVIOUS
    <3>3. P \in Seq(Printable) /\ D \in Seq(Printable) /\ C \in Seq(Printable)
          /\ Parts(options, idx) = P \o D
      BY <1>0, <2>3, <3>2, OnePartMore
    <3>4. P \o (D \o C) = (P \o D) \o C
      BY <3>3, Regroup
    <3>5. (out \o buffer) \o t = Parts(options, idx) \o ClosingPart(options, idx)
      BY <2>2, <3>1, <3>2, <3>3, <3>4
    <3> QED BY <1>1, <1>3, <3>5 DEF SoFar
  <2>6. Output(t, TRUE, n) /\ TRUE \in BOOLEAN
    BY <1>1, <1>2, <1>5, <2>1
  <2> QED BY <1>1, <1>3, <2>4, <2>5, <2>6, PrintStep
<1> QED BY <1>4, <1>5

LEMMA UploadPrintsNothing ==
  ASSUME DInv, PrintInv, Uploading \/ Submitted
  PROVE  PrintInv'
<1>1. /\ at = "uploading" /\ at' \in {"uploading", "next"}
      /\ UNCHANGED <<options, idx, core, buffer, out, reader>>
  <2>1. CASE Uploading
    <3>1. net' # "killed"
      BY <2>1, ClientStep DEF DInv, Uploading, Transporting
    <3> QED BY <2>1, <3>1 DEF Uploading
  <2>2. CASE Submitted
    BY <2>2 DEF Submitted
  <2> QED BY <2>1, <2>2
<1>2. Within(at', core')
  BY <1>1 DEF PrintInv, Typed, Within
<1>3. reader => SoFar(out \o buffer, options, at', idx', core')
  BY <1>1 DEF PrintInv, SoFar
<1> QED BY <1>1, <1>2, <1>3, SilentStep

LEMMA NextVariantPrints ==
  ASSUME DInv, PrintInv, NextVariant
  PROVE  PrintInv'
<1>0. Shape
  BY DEF DInv
<1>1. /\ at = "next" /\ idx < options.n_sel /\ idx' = idx + 1 /\ core' = 0 /\ at' = Begin
      /\ UNCHANGED <<options, buffer, out, reader>>
  BY DEF NextVariant
<1>2. Begin \in {"threads", "cores"} /\ Valid(options)
  BY DEF Begin, PrintInv, Typed
<1>3. Within(at', core')
  BY <1>1, <1>2, CoresCount DEF Within
<1>4. ASSUME reader PROVE SoFar(out \o buffer, options, at', idx', core')
  <2>1. out \o buffer = Parts(options, idx) \o ClosingPart(options, idx)
    BY <1>1, <1>4 DEF PrintInv, SoFar
  <2>2. ClosingPart(options, idx) = <<>>
    BY <1>0, <1>1, Bounds DEF ClosingPart, OfOptions
  <2>3. out \o buffer = Parts(options, idx) /\ idx' - 1 = idx
    BY <1>0, <1>1, <2>1, <2>2, Bounds, OnePartMore, JoinNothing
  <2>4. ASSUME ~options.want_threads
        PROVE  Parts(options, idx) \o TextPart(options, idx', 0) = Parts(options, idx)
    <3>1. TotalPart(options, idx') = <<>>
      BY <2>4 DEF TotalPart
    <3>2. SweepPart(options, idx', 0) = <<>>
      BY <1>0, <1>1, Bounds, SweepMore DEF SweepPart
    <3>3. <<>> \o <<>> = <<>>
      BY EmptySeq, JoinNothing
    <3> QED BY <1>0, <3>1, <3>2, <3>3, OnePartMore, JoinNothing DEF TextPart
  <2> QED BY <1>1, <1>2, <2>3, <2>4 DEF SoFar, Begin, Valid
<1> QED BY <1>1, <1>2, <1>3, <1>4, SilentStep

LEMMA TablePrints ==
  ASSUME DInv, PrintInv, Compare
  PROVE  PrintInv'
<1>0. Shape
  BY DEF DInv
<1>1. /\ at = "next" /\ idx = options.n_sel /\ UNCHANGED <<options, idx, core, reader>>
      /\ Output(IF options.n_sel > 1 /\ options.format = "text" THEN Token("table", 0) ELSE <<>>,
                FALSE, "finish")
  BY DEF Compare
<1>2. PICK t, n : t = TablePart(options) /\ n = "finish"
  OBVIOUS
<1>3. Output(t, FALSE, n) /\ FALSE \in BOOLEAN /\ n \notin {"exited", "uploading"}
  BY <1>1, <1>2 DEF TablePart
<1>4. t \in Seq(Printable)
  BY <1>0, <1>2, Bounds, PartTypes
<1>5. Within(n, core')
  BY <1>1, <1>2 DEF PrintInv, Typed, Within
<1>6. ASSUME reader PROVE SoFar((out \o buffer) \o t, options, n, idx', core')
  <2>1. out \o buffer = Parts(options, idx) \o ClosingPart(options, idx)
    BY <1>1, <1>6 DEF PrintInv, SoFar
  <2>2. (out \o buffer) \o t = Whole(options)
    BY <1>1, <1>2, <2>1 DEF Whole
  <2> QED BY <1>2, <2>2 DEF SoFar
<1> QED BY <1>1, <1>3, <1>4, <1>5, <1>6, PrintStep

LEMMA FinishPrints ==
  ASSUME DInv, PrintInv, Finish
  PROVE  PrintInv'
<1>1. /\ at = "finish" /\ UNCHANGED <<options, idx, core, reader>>
      /\ Output(<<>>, TRUE, "exited")
  BY DEF Finish, Exit
<1>2. PICK t, n : t = <<>> /\ n = "exited"
  OBVIOUS
<1>3. Output(t, TRUE, n) /\ TRUE \in BOOLEAN /\ t \in Seq(Printable) /\ Within(n, core')
  BY <1>1, <1>2, EmptySeq DEF PrintInv, Typed, Within
<1>4. ASSUME reader PROVE SoFar((out \o buffer) \o t, options, n, idx', core')
  <2>1. out \o buffer = Whole(options)
    BY <1>1, <1>4 DEF PrintInv, SoFar
  <2>2. (out \o buffer) \o t = out \o buffer
    BY <1>2, JoinType, JoinNothing DEF PrintInv, Typed
  <2> QED BY <1>2, <2>1, <2>2 DEF SoFar
<1> QED BY <1>1, <1>3, <1>4, PrintStep

LEMMA InitPrintInv ==
  ASSUME Init
  PROVE  PrintInv
<1>0. Shape
  BY InitDInv DEF DInv
<1>1. /\ Valid(options) /\ at = Begin /\ idx = 1 /\ core = 0 /\ buffer = <<>> /\ out = <<>>
  BY DEF Init
<1>2. Begin \in {"threads", "cores"}
  BY DEF Begin
<1>3. Typed
  BY <1>1, <1>2, EmptySeq, CoresCount DEF Typed, Within
<1>4. SoFar(out \o buffer, options, at, idx, core)
  <2>1. <<>> \o <<>> = <<>>
    BY EmptySeq, JoinNothing
  <2>2. Parts(options, idx - 1) = <<>>
    <3>1. PICK k \in Nat : k = 0
      OBVIOUS
    <3> QED BY <1>1, <3>1, PartsMore
  <2>3. ASSUME ~options.want_threads PROVE TextPart(options, idx, core) = <<>>
    <3>1. TotalPart(options, idx) = <<>>
      BY <2>3 DEF TotalPart
    <3>2. SweepPart(options, idx, core) = <<>>
      BY <1>0, <1>1, Bounds, SweepMore DEF SweepPart
    <3> QED BY <2>1, <3>1, <3>2 DEF TextPart
  <2> QED BY <1>1, <1>2, <2>1, <2>2, <2>3 DEF SoFar, Begin, Valid
<1>5. Emptied
  BY <1>1 DEF Emptied
<1> QED BY <1>3, <1>4, <1>5 DEF PrintInv

LEMMA StepPrintInv ==
  ASSUME DInv, PrintInv, [Next]_vars
  PROVE  PrintInv'
<1>1. CASE Driver
  BY <1>1, ThreadsPrint, CorePrints, GiveUpPrints, RowsPrint, DocumentPrints,
     UploadPrintsNothing, NextVariantPrints, TablePrints, FinishPrints DEF Driver
<1>2. CASE ReaderLeaves
  <2>1. reader' = FALSE /\ UNCHANGED <<options, at, core, buffer, out>>
    BY <1>2 DEF ReaderLeaves
  <2> QED BY <2>1 DEF PrintInv, Typed, Within, Valid
<1>3. CASE UNCHANGED vars
  BY <1>3 DEF vars, driverVars, PrintInv, Typed, Within, Valid, Emptied
<1> QED BY <1>1, <1>2, <1>3 DEF Next

\* What has been printed is known at every place of the driver.
THEOREM PrintsInOrder == Spec => []PrintInv
<1>1. Init => PrintInv
  BY InitPrintInv
<1>2. DInv /\ PrintInv /\ [Next]_vars => PrintInv'
  BY StepPrintInv
<1> QED BY <1>1, <1>2, DriverInductive, PTL DEF Spec

\* The report of the run is made of those parts.
LEMMA ReportIsWhole ==
  ASSUME Shape
  PROVE  Report = Whole(options)
<1> DEFINE N == options.n_sel
<1>1. OfOptions(options) /\ N \in Nat \ {0}
  BY Bounds DEF OfOptions
<1>2. ASSUME NEW v PROVE VariantReport(v) = Part(options, v)
  <2>1. PICK W : W = FlattenSeq([c \in 1..Cores |-> Token("core", v)])
    OBVIOUS
  <2>2. SweepPart(options, v, Cores) = IF options.format = "text" /\ options.want_cores THEN W ELSE <<>>
    BY <2>1 DEF SweepPart, Sweep
  <2>3. CASE options.format = "json"
    BY <2>3 DEF VariantReport, Part, DocPart, OpeningPart
  <2>4. CASE options.format # "json"
    <3>1. Part(options, v) = (TotalPart(options, v) \o SweepPart(options, v, Cores)) \o RowsPart(options, v)
      BY <2>4 DEF Part, TextPart
    <3>2. VariantReport(v) =
            ((IF options.format = "text" /\ options.want_threads THEN Token("total", v) ELSE <<>>)
               \o (IF options.format = "text" /\ options.want_cores THEN W ELSE <<>>))
               \o (IF Rows THEN Token("rows", v) ELSE <<>>)
      BY <2>1, <2>4 DEF VariantReport
    <3> QED BY <2>2, <3>1, <3>2 DEF TotalPart, RowsPart, Rows
  <2> QED BY <2>3, <2>4
<1>3. FlattenSeq([v \in 1..N |-> VariantReport(v)]) = Parts(options, N)
  <2>1. [v \in 1..N |-> VariantReport(v)] = [v \in 1..N |-> Part(options, v)]
    BY <1>2
  <2> QED BY <2>1 DEF Parts
<1>4. PICK E : E = (IF N = 1 \/ options.format = "tsv" THEN <<>>
                    ELSE IF options.format = "json" THEN Token("]", 0) ELSE Token("table", 0))
  OBVIOUS
<1>5. Report = Parts(options, N) \o E
  BY <1>3, <1>4 DEF Report
<1>6. Parts(options, N) \in Seq(Printable)
  BY <1>1, PartsMore
<1>7. Whole(options) = Parts(options, N) \o E
  <2>1. PICK P, C, T : P = Parts(options, N) /\ C = ClosingPart(options, N) /\ T = TablePart(options)
    OBVIOUS
  <2>2. P \in Seq(Printable) /\ C \in Seq(Printable) /\ T \in Seq(Printable)
    BY <1>1, <1>6, <2>1, PartTypes
  <2>3. P \o <<>> = P /\ (P \o C) \o <<>> = P \o C
    BY <2>2, JoinType, JoinNothing
  <2>4. N = 1 => C = <<>> /\ T = <<>> /\ E = <<>>
    BY <1>4, <2>1 DEF ClosingPart, TablePart
  <2>5. N # 1 => N > 1
    BY <1>1
  <2>6. N > 1 /\ options.format = "json" => C = E /\ T = <<>>
    BY <1>4, <2>1 DEF ClosingPart, TablePart
  <2>7. N > 1 /\ options.format = "text" => C = <<>> /\ T = E
    BY <1>4, <2>1 DEF ClosingPart, TablePart
  <2>8. options.format = "tsv" => C = <<>> /\ T = <<>> /\ E = <<>>
    BY <1>4, <2>1 DEF ClosingPart, TablePart
  <2>9. Whole(options) = (P \o C) \o T
    BY <2>1 DEF Whole
  <2>10. options.format \in {"text", "json", "tsv"}
    BY <1>1 DEF OfOptions
  <2> QED BY <2>1, <2>3, <2>4, <2>5, <2>6, <2>7, <2>8, <2>9, <2>10
<1> QED BY <1>5, <1>7

Has(s, e) == \E i \in 1..Len(s) : s[i] = e

LEMMA HasInConcat ==
  ASSUME NEW T, NEW s \in Seq(T), NEW t \in Seq(T), NEW e, Has(s, e) \/ Has(t, e)
  PROVE  Has(s \o t, e)
<1>1. PICK a, b, r : a = Len(s) /\ b = Len(t) /\ r = s \o t
  OBVIOUS
<1>2. a \in Nat /\ b \in Nat
  BY <1>1, LenProperties
<1>3. Len(r) = a + b /\ \A k \in 1..(a + b) : r[k] = IF k <= a THEN s[k] ELSE t[k - a]
  BY <1>1, ConcatProperties
<1>4. CASE Has(s, e)
  <2>1. PICK i \in 1..a : s[i] = e
    BY <1>1, <1>4 DEF Has
  <2>2. i \in 1..(a + b) /\ i <= a
    BY <1>2
  <2> QED BY <1>1, <1>3, <2>1, <2>2 DEF Has
<1>5. CASE Has(t, e)
  <2>1. PICK j \in 1..b : t[j] = e
    BY <1>1, <1>5 DEF Has
  <2>2. PICK i : i = a + j
    OBVIOUS
  <2>3. i \in 1..(a + b) /\ ~(i <= a) /\ i - a = j
    BY <1>2, <2>2
  <2> QED BY <1>1, <1>3, <2>1, <2>3 DEF Has
<1> QED BY <1>4, <1>5

LEMMA AlwaysTheFront ==
  ASSUME DInv, PrintInv, reader
  PROVE  Starts(out \o buffer, Whole(options))
<1>1. Shape /\ SoFar(out \o buffer, options, at, idx, core)
  BY DEF DInv, PrintInv
<1>2. PICK o, v : o = options /\ v = idx
  OBVIOUS
<1>3. OfOptions(o) /\ v \in 1..o.n_sel
  BY <1>1, <1>2, Bounds
<1>4. ASSUME NEW m \in 0..Cores
      PROVE  /\ Starts(Parts(o, v - 1), Whole(o)) /\ Starts(Parts(o, v), Whole(o))
             /\ Starts(Parts(o, v) \o ClosingPart(o, v), Whole(o)) /\ Starts(Whole(o), Whole(o))
             /\ Starts(Parts(o, v - 1) \o TextPart(o, v, m), Whole(o))
  <2>1. CASE o.format # "json"
    BY <1>3, <2>1, SoFarStarts
  <2>2. CASE o.format = "json"
    <3>1. <<>> \o <<>> = <<>>
      BY EmptySeq, JoinNothing
    <3>2. TextPart(o, v, m) = <<>>
      BY <2>2, <3>1 DEF TextPart, TotalPart, SweepPart
    <3>3. Parts(o, v - 1) \o <<>> = Parts(o, v - 1)
      BY <1>1, <1>2, OnePartMore, JoinNothing
    <3> QED BY <1>3, <3>2, <3>3, SoFarStarts
  <2> QED BY <2>1, <2>2
<1>5. core \in 0..Cores /\ Cores \in 0..Cores
  BY CoresCount DEF PrintInv, Typed, Within
<1>6. at \in Working \cup {"next", "finish", "exited", "failed"}
  BY <1>1 DEF Shape, Ended
<1> QED BY <1>1, <1>2, <1>4, <1>5, <1>6 DEF SoFar, Working

\* A reader who stays is given the front of the whole report at all times, an
\* array of all the documents, and all of it when the run could measure,
\* whatever became of its uploads.
THEOREM NothingMeasuredIsLost == Spec => []ReportWhole
<1>1. ASSUME DInv, PrintInv PROVE ReportWhole
  <2>1. SUFFICES ASSUME reader
                 PROVE  IsPrefix(out \o buffer, Report) /\ (at = "exited" => out = Report)
    BY DEF ReportWhole
  <2>2. Report = Whole(options)
    BY <1>1, ReportIsWhole DEF DInv
  <2>3. IsPrefix(out \o buffer, Whole(options))
    BY <1>1, <2>1, AlwaysTheFront, StartsIsPrefix
  <2>4. ASSUME at = "exited" PROVE out = Whole(options)
    <3>1. buffer = <<>> /\ out \o buffer = Whole(options) /\ out \in Seq(Printable)
      BY <1>1, <2>1, <2>4 DEF PrintInv, Emptied, SoFar, Typed
    <3> QED BY <3>1, JoinNothing
  <2> QED BY <2>2, <2>3, <2>4
<1> QED BY <1>1, DriverInductive, PrintsInOrder, PTL

\* What goes out to a hub is already with the reader.
THEOREM PrintedBeforeSent == Spec => []PrintedFirst
<1>1. ASSUME DInv, PrintInv PROVE PrintedFirst
  <2>0. Shape
    BY <1>1 DEF DInv
  <2>1. SUFFICES ASSUME at = "uploading", options.format = "json", reader
                 PROVE  \E i \in 1..Len(out) : out[i] = <<"doc", idx>>
    BY DEF PrintedFirst
  <2>2. buffer = <<>> /\ out \in Seq(Printable)
        /\ out \o buffer = Parts(options, idx) \o ClosingPart(options, idx)
    BY <1>1, <2>1 DEF PrintInv, Typed, Emptied, SoFar
  <2>3. PICK P, Q, D, C : /\ P = Parts(options, idx - 1) /\ Q = OpeningPart(options, idx)
                          /\ D = Token("doc", idx) /\ C = ClosingPart(options, idx)
    OBVIOUS
  <2>4. out = (P \o (Q \o D)) \o C
    <3>1. Part(options, idx) = Q \o D
      BY <2>1, <2>3 DEF Part, DocPart
    <3>2. Parts(options, idx) = P \o (Q \o D)
      BY <2>0, <2>3, <3>1, OnePartMore
    <3>3. out \o buffer = out
      BY <2>2, JoinNothing
    <3> QED BY <2>2, <2>3, <3>2, <3>3
  <2>5. /\ P \in Seq(Printable) /\ Q \in Seq(Printable) /\ C \in Seq(Printable)
        /\ D \in Seq(Printable) /\ Len(D) = 1 /\ D[1] = <<"doc", idx>>
    BY <2>0, <2>3, Bounds, OnePartMore, PartTypes, TokenType DEF Kinds
  <2>6. PICK e : e = <<"doc", idx>>
    OBVIOUS
  <2>7. Has(D, e)
    BY <2>5, <2>6 DEF Has
  <2>8. Has(Q \o D, e) /\ Q \o D \in Seq(Printable)
    BY <2>5, <2>7, HasInConcat, JoinType
  <2>9. Has(P \o (Q \o D), e) /\ P \o (Q \o D) \in Seq(Printable)
    BY <2>5, <2>8, HasInConcat, JoinType
  <2>10. Has((P \o (Q \o D)) \o C, e)
    BY <2>5, <2>9, HasInConcat
  <2>11. Has(out, e)
    BY <2>4, <2>10
  <2> QED BY <2>6, <2>11 DEF Has
<1> QED BY <1>1, DriverInductive, PrintsInOrder, PTL

-----------------------------------------------------------------------------
(* The two walks over chunked bytes, as what they do at each place. *)

NextAt(b, p) == First(LineEnds(b, p)) + 2 + b[p] + 2

LEMMA FirstIsFirst ==
  ASSUME NEW S \in SUBSET Nat, S # {}
  PROVE  First(S) \in S /\ \A f \in S : First(S) <= f
BY LeastOf DEF First

\* A chunk's line ends after it began.
LEMMA FurtherOn ==
  ASSUME NEW b \in Seq(Bytes), NEW p \in 1..(Len(b) + 1), LineEnds(b, p) # {}, b[p] \in Nat \ {0}
  PROVE  NextAt(b, p) \in Nat /\ p < NextAt(b, p)
<1>1. Len(b) \in Nat
  BY LenProperties
<1>2. LineEnds(b, p) \in SUBSET Nat /\ \A e \in LineEnds(b, p) : p <= e
  BY <1>1 DEF LineEnds
<1>3. PICK e : e = First(LineEnds(b, p))
  OBVIOUS
<1>4. e \in Nat /\ p <= e
  BY <1>2, <1>3, FirstIsFirst
<1>5. PICK d : d = b[p]
  OBVIOUS
<1>6. d \in Nat \ {0} /\ p \in Nat
  BY <1>1, <1>5
<1>7. e + 2 + d + 2 \in Nat /\ p < e + 2 + d + 2
  BY <1>4, <1>6
<1> QED BY <1>3, <1>5, <1>7 DEF NextAt

Goes(b, p) == LineEnds(b, p) # {} /\ b[p] \in 1..MaxReply

Walks(w, b) ==
  \A p \in 1..(Len(b) + 1) :
    w[p] = (/\ LineEnds(b, p) # {}
             /\ \/ b[p] \notin 1..MaxReply
                \/ NextAt(b, p) <= Len(b) + 1 /\ w[NextAt(b, p)])

LEMMA ChunksCompleteWalks ==
  ASSUME NEW b \in Seq(Bytes)
  PROVE  \E w : ChunksComplete(b) = w[1] /\ Walks(w, b)
<1> DEFINE n == Len(b) + 1
           Step(f, p) == /\ LineEnds(b, p) # {}
                          /\ \/ b[p] \notin 1..MaxReply
                             \/ NextAt(b, p) <= n /\ f[NextAt(b, p)]
           w == CHOOSE f : f = [p \in 1..n |-> Step(f, p)]
           next == [p \in 1..n |-> IF Goes(b, p) THEN NextAt(b, p) ELSE n + 1]
           G == [p \in 1..n |-> [x \in BOOLEAN |->
                  /\ LineEnds(b, p) # {}
                  /\ \/ b[p] \notin 1..MaxReply
                     \/ NextAt(b, p) <= n /\ x]]
<1>1. n \in Nat
  BY LenProperties
<1>2. ChunksComplete(b) = w[1]
  BY DEF ChunksComplete, NextAt
<1>3. next \in [1..n -> Nat] /\ \A p \in 1..n : p < next[p]
  <2>1. ASSUME NEW p \in 1..n PROVE next[p] \in Nat /\ p < next[p]
    BY <1>1, FurtherOn DEF Goes
  <2> QED BY <2>1
<1>4. G \in [1..n -> [BOOLEAN -> BOOLEAN]]
  OBVIOUS
<1>5. \A p \in 1..n : \A x \in BOOLEAN :
        G[p][x] = (LineEnds(b, p) # {} /\ (b[p] \notin 1..MaxReply \/ (NextAt(b, p) <= n /\ x)))
  OBVIOUS
<1>6. \A p \in 1..n : next[p] = IF Goes(b, p) THEN NextAt(b, p) ELSE n + 1
  OBVIOUS
<1>7. \A f : \A p \in 1..n :
        Step(f, p) = (LineEnds(b, p) # {} /\ (b[p] \notin 1..MaxReply \/ (NextAt(b, p) <= n /\ f[NextAt(b, p)])))
  OBVIOUS
<1> HIDE DEF n, next, G, Step
<1>8. PICK f : f \in [1..n -> BOOLEAN] /\ Backward(f, G, next, FALSE, 1, n)
  <2>1. PICK V, v0, k, H, g : /\ V = BOOLEAN /\ v0 = FALSE /\ k = n /\ H = next /\ g = G
    OBVIOUS
  <2>2. v0 \in V /\ k \in Nat /\ g \in [1..k -> [V -> V]] /\ H \in [1..k -> Nat]
    BY <1>1, <1>3, <1>4, <2>1
  <2>3. \A i \in 1..k : i < H[i]
    BY <1>3, <2>1
  <2>4. \E f : f \in [1..k -> V] /\ Backward(f, g, H, v0, 1, k)
    BY <2>2, <2>3, BackwardRecursion
  <2> QED BY <2>1, <2>4
<1>9. ASSUME NEW p \in 1..n PROVE f[p] = Step(f, p)
  <2>1. f[p] = G[p][IF next[p] <= n THEN f[next[p]] ELSE FALSE]
    BY <1>8 DEF Backward
  <2>2. next[p] \in Nat /\ p < next[p]
    BY <1>3
  <2>3. (IF next[p] <= n THEN f[next[p]] ELSE FALSE) \in BOOLEAN
    <3>1. next[p] <= n => next[p] \in 1..n
      BY <1>1, <2>2
    <3> QED BY <1>8, <3>1
  <2>4. PICK x \in BOOLEAN : x = IF next[p] <= n THEN f[next[p]] ELSE FALSE
    BY <2>3
  <2>5. f[p] = (LineEnds(b, p) # {} /\ (b[p] \notin 1..MaxReply \/ (NextAt(b, p) <= n /\ x)))
    BY <1>5, <2>1, <2>4
  <2>6. CASE Goes(b, p)
    <3>1. next[p] = NextAt(b, p)
      BY <1>6, <2>6
    <3>2. NextAt(b, p) <= n => x = f[NextAt(b, p)]
      BY <2>4, <3>1
    <3> QED BY <1>7, <2>5, <3>2
  <2>7. CASE ~Goes(b, p)
    BY <1>7, <2>5, <2>7 DEF Goes
  <2> QED BY <2>6, <2>7
<1>10. f = [p \in 1..n |-> Step(f, p)]
  BY <1>8, <1>9
<1>11. w = [p \in 1..n |-> Step(w, p)]
  BY <1>10
<1> HIDE DEF w
<1>12. Walks(w, b)
  <2>1. ASSUME NEW p \in 1..n PROVE w[p] = Step(w, p)
    BY <1>11
  <2> QED BY <1>7, <2>1 DEF Walks, n
<1> QED BY <1>2, <1>12

DataAt(b, p) == First(LineEnds(b, p)) + 2
DataOf(b, p) == SubSeq(b, DataAt(b, p), DataAt(b, p) + b[p] - 1)
Stops(b, p) ==
  p > Len(b) \/ LineEnds(b, p) = {} \/ b[p] \notin Nat \ {0} \/ DataAt(b, p) + b[p] - 1 > Len(b)

Decodes(d, b) ==
  \A p \in 1..(Len(b) + 1) :
    d[p] = IF Stops(b, p) THEN <<>>
           ELSE DataOf(b, p) \o (IF NextAt(b, p) <= Len(b) + 1 THEN d[NextAt(b, p)] ELSE <<>>)

LEMMA DataOfType ==
  ASSUME NEW b \in Seq(Bytes), NEW p \in 1..(Len(b) + 1), ~Stops(b, p)
  PROVE  DataOf(b, p) \in Seq(Bytes)
<1>1. Len(b) \in Nat /\ LineEnds(b, p) # {} /\ b[p] \in Nat \ {0}
  BY LenProperties DEF Stops
<1>2. LineEnds(b, p) \in SUBSET Nat /\ \A e \in LineEnds(b, p) : p <= e
  BY <1>1 DEF LineEnds
<1>3. PICK e, k, z : e = First(LineEnds(b, p)) /\ k = e + 2 /\ z = k + b[p] - 1
  OBVIOUS
<1>4. e \in Nat /\ k \in Int /\ k >= 1
  BY <1>1, <1>2, <1>3, FirstIsFirst
<1>5. z \in Int /\ z <= Len(b)
  <2>1. PICK m : m = b[p]
    OBVIOUS
  <2>2. m \in Nat \ {0} /\ z = k + m - 1
    BY <1>1, <1>3, <2>1
  <2>3. ~(k + m - 1 > Len(b))
    BY <1>3, <2>1 DEF Stops, DataAt
  <2> QED BY <1>1, <1>4, <2>2, <2>3
<1>6. \A i \in k..z : b[i] \in Bytes
  <2>1. \A i \in k..z : i \in 1..Len(b)
    BY <1>1, <1>4, <1>5
  <2> QED BY <2>1, ElementOfSeq
<1>7. SubSeq(b, k, z) \in Seq(Bytes)
  BY <1>4, <1>5, <1>6, SubSeqProperties
<1> QED BY <1>3, <1>7 DEF DataOf, DataAt

LEMMA DechunkDecodes ==
  ASSUME NEW b \in Seq(Bytes)
  PROVE  \E d : Dechunk(b) = d[1] /\ Decodes(d, b)
<1> DEFINE n == Len(b) + 1
           Step(f, p) ==
             IF Stops(b, p) THEN <<>>
             ELSE DataOf(b, p) \o (IF NextAt(b, p) <= n THEN f[NextAt(b, p)] ELSE <<>>)
           d == CHOOSE f : f = [p \in 1..n |-> Step(f, p)]
           next == [p \in 1..n |-> IF ~Stops(b, p) THEN NextAt(b, p) ELSE n + 1]
           G == [p \in 1..n |-> [x \in Seq(Bytes) |->
                  IF Stops(b, p) THEN <<>> ELSE DataOf(b, p) \o x]]
<1>1. n \in Nat
  BY LenProperties
<1>2. Dechunk(b) = d[1]
  BY DEF Dechunk, NextAt, DataOf, DataAt, Stops
<1>3. next \in [1..n -> Nat] /\ \A p \in 1..n : p < next[p]
  <2>1. ASSUME NEW p \in 1..n PROVE next[p] \in Nat /\ p < next[p]
    BY <1>1, FurtherOn DEF Stops
  <2> QED BY <2>1
<1>4. G \in [1..n -> [Seq(Bytes) -> Seq(Bytes)]]
  <2>1. ASSUME NEW p \in 1..n, NEW x \in Seq(Bytes)
        PROVE  (IF Stops(b, p) THEN <<>> ELSE DataOf(b, p) \o x) \in Seq(Bytes)
    BY DataOfType, ConcatProperties, EmptySeq
  <2> QED BY <2>1
<1>5. \A p \in 1..n : \A x \in Seq(Bytes) :
        G[p][x] = IF Stops(b, p) THEN <<>> ELSE DataOf(b, p) \o x
  OBVIOUS
<1>6. \A p \in 1..n : next[p] = IF ~Stops(b, p) THEN NextAt(b, p) ELSE n + 1
  OBVIOUS
<1>7. \A f : \A p \in 1..n :
        Step(f, p) = IF Stops(b, p) THEN <<>>
                     ELSE DataOf(b, p) \o (IF NextAt(b, p) <= n THEN f[NextAt(b, p)] ELSE <<>>)
  OBVIOUS
<1> HIDE DEF n, next, G, Step
<1>8. PICK f : f \in [1..n -> Seq(Bytes)] /\ Backward(f, G, next, <<>>, 1, n)
  <2>1. PICK V, v0, k, H, g : /\ V = Seq(Bytes) /\ v0 = <<>> /\ k = n /\ H = next /\ g = G
    OBVIOUS
  <2>2. v0 \in V /\ k \in Nat /\ g \in [1..k -> [V -> V]] /\ H \in [1..k -> Nat]
    BY <1>1, <1>3, <1>4, <2>1, EmptySeq
  <2>3. \A i \in 1..k : i < H[i]
    BY <1>3, <2>1
  <2>4. \E f : f \in [1..k -> V] /\ Backward(f, g, H, v0, 1, k)
    BY <2>2, <2>3, BackwardRecursion
  <2> QED BY <2>1, <2>4
<1>9. ASSUME NEW p \in 1..n PROVE f[p] = Step(f, p)
  <2>1. f[p] = G[p][IF next[p] <= n THEN f[next[p]] ELSE <<>>]
    BY <1>8 DEF Backward
  <2>2. next[p] \in Nat /\ p < next[p]
    BY <1>3
  <2>3. (IF next[p] <= n THEN f[next[p]] ELSE <<>>) \in Seq(Bytes)
    <3>1. next[p] <= n => next[p] \in 1..n
      BY <1>1, <2>2
    <3> QED BY <1>8, <3>1, EmptySeq
  <2>4. PICK x \in Seq(Bytes) : x = IF next[p] <= n THEN f[next[p]] ELSE <<>>
    BY <2>3
  <2>5. f[p] = IF Stops(b, p) THEN <<>> ELSE DataOf(b, p) \o x
    BY <1>5, <2>1, <2>4
  <2>6. CASE ~Stops(b, p)
    <3>1. next[p] = NextAt(b, p)
      BY <1>6, <2>6
    <3>2. x = IF NextAt(b, p) <= n THEN f[NextAt(b, p)] ELSE <<>>
      BY <2>4, <3>1
    <3> QED BY <1>7, <2>5, <3>2
  <2>7. CASE Stops(b, p)
    BY <1>7, <2>5, <2>7
  <2> QED BY <2>6, <2>7
<1>10. f = [p \in 1..n |-> Step(f, p)]
  BY <1>8, <1>9
<1>11. d = [p \in 1..n |-> Step(d, p)]
  BY <1>10
<1> HIDE DEF d
<1>12. Decodes(d, b)
  <2>1. ASSUME NEW p \in 1..n PROVE d[p] = Step(d, p)
    BY <1>11
  <2> QED BY <1>7, <2>1 DEF Decodes, n
<1> QED BY <1>2, <1>12

-----------------------------------------------------------------------------
(* A chunked body: the chunks of the first n pieces one after the other, and  *)
(* the line of the next one, which says t. Chunk i begins after st[i - 1].    *)

HeadAt(B, s, k) == B[s + 1] = k /\ B[s + 2] = CR /\ B[s + 3] = LF

ChunkAt(B, s, piece) ==
  /\ HeadAt(B, s, Len(piece))
  /\ \A j \in 1..Len(piece) : B[s + 3 + j] = piece[j]

Layout(B, st, pieces, n, t) ==
  /\ (\A i \in 0..n : st[i] \in Nat) /\ st[0] = 0
  /\ \A i \in 1..n : st[i] = st[i - 1] + Len(pieces[i]) + 5
  /\ \A i \in 1..n : ChunkAt(B, st[i - 1], pieces[i])
  /\ HeadAt(B, st[n], t) /\ t \in Nat /\ st[n] + 5 <= Len(B) /\ B \in Seq(Bytes)

LEMMA ChunkIs ==
  ASSUME NEW piece \in Seq(Bytes), piece # <<>>
  PROVE  /\ Chunk(piece) \in Seq(Bytes) /\ Len(Chunk(piece)) = Len(piece) + 5
         /\ ChunkAt(Chunk(piece), 0, piece)
<1>1. PICK k, h, t, S : k = Len(piece) /\ h = <<k, CR, LF>> /\ t = <<CR, LF>> /\ S = Bytes
  OBVIOUS
<1>2. k \in Nat /\ k \in S /\ CR \in S /\ LF \in S
  <2>1. k \in Nat
    BY <1>1, LenProperties
  <2> QED BY <1>1, <2>1 DEF Bytes
<1>3. h \in Seq(S) /\ Len(h) = 3 /\ h[1] = k /\ h[2] = CR /\ h[3] = LF
  BY <1>1, <1>2
<1>4. t \in Seq(S) /\ Len(t) = 2
  BY <1>1, <1>2
<1>5. PICK u, v : u = h \o piece /\ v = u \o t
  OBVIOUS
<1>6. piece \in Seq(S)
  BY <1>1
<1>7. /\ u \in Seq(S) /\ Len(u) = 3 + k
      /\ \A i \in 1..(3 + k) : u[i] = IF i <= 3 THEN h[i] ELSE piece[i - 3]
  <2>1. u = h \o piece /\ Len(piece) = k
    BY <1>1, <1>5
  <2>2. u \in Seq(S) /\ IsJoin(h, piece, u)
    BY <1>3, <1>6, <2>1, JoinIs
  <2> QED BY <1>3, <2>1, <2>2 DEF IsJoin
<1>8. /\ v \in Seq(S) /\ Len(v) = 3 + k + 2
      /\ \A i \in 1..(3 + k + 2) : v[i] = IF i <= 3 + k THEN u[i] ELSE t[i - (3 + k)]
  <2>1. v = u \o t
    BY <1>5
  <2>2. u \in Seq(S)
    BY <1>7
  <2>3. v \in Seq(S) /\ IsJoin(u, t, v)
    BY <1>4, <2>1, <2>2, JoinIs
  <2> QED BY <1>4, <1>7, <2>3 DEF IsJoin
<1>9. \A i \in 1..(3 + k) : v[i] = IF i <= 3 THEN h[i] ELSE piece[i - 3]
  BY <1>2, <1>7, <1>8
<1>10. v[0 + 1] = k /\ v[0 + 2] = CR /\ v[0 + 3] = LF
  BY <1>2, <1>3, <1>9
<1>11. ASSUME NEW j \in 1..k PROVE v[0 + 3 + j] = piece[j]
  <2>1. PICK z : z = 0 + 3 + j
    OBVIOUS
  <2>2. z \in 1..(3 + k) /\ ~(z <= 3) /\ z - 3 = j
    BY <1>2, <2>1
  <2> QED BY <1>9, <2>1, <2>2
<1>12. Len(v) = k + 5
  BY <1>2, <1>8
<1>13. v = Chunk(piece)
  BY <1>1, <1>5 DEF Chunk
<1> QED BY <1>1, <1>8, <1>10, <1>11, <1>12, <1>13 DEF ChunkAt, HeadAt

LEMMA ReplyFacts ==
  ASSUME NEW r \in Replies
  PROVE  /\ r.pieces \in Seq(Seq(Bytes)) /\ Len(r.pieces) \in Nat
         /\ r.pieces \in [1..Len(r.pieces) -> Seq(Bytes)]
         /\ \A i \in 1..Len(r.pieces) : r.pieces[i] \in Seq(Bytes) /\ Len(r.pieces[i]) \in Nat \ {0}
<1>1. r.pieces \in Seq(Seq(Bytes)) /\ \A i \in 1..Len(r.pieces) : r.pieces[i] # <<>>
  BY HttpAssumption
<1>2. PICK p, T : p = r.pieces /\ T = Seq(Bytes)
  OBVIOUS
<1>3. p \in Seq(T)
  BY <1>1, <1>2
<1>4. Len(p) \in Nat /\ p \in [1..Len(p) -> T]
  BY <1>3, LenProperties
<1>5. ASSUME NEW i \in 1..Len(p) PROVE p[i] \in Seq(Bytes) /\ Len(p[i]) \in Nat \ {0}
  <2>1. p[i] \in Seq(Bytes) /\ p[i] # <<>>
    BY <1>1, <1>2, <1>4
  <2> QED BY <2>1, LenProperties, EmptySeq
<1> QED BY <1>1, <1>2, <1>4, <1>5

\* What a sequence takes over from the first of two it is made of.
LEMMA TakesOver ==
  ASSUME NEW B, NEW G, NEW z, IsJoin(G, z, B), NEW s \in Nat, NEW c, NEW piece \in Seq(Bytes),
         Len(c) = Len(piece) + 5, ChunkAt(c, 0, piece), s + Len(c) <= Len(G),
         \A j \in 1..Len(c) : G[s + j] = c[j]
  PROVE  ChunkAt(B, s, piece)
<1>1. PICK k : k = Len(piece)
  OBVIOUS
<1>2. k \in Nat /\ Len(c) = k + 5
  BY <1>1, LenProperties
<1>3. ASSUME NEW j \in 1..Len(c) PROVE B[s + j] = c[j]
  <2>1. PICK i : i = s + j
    OBVIOUS
  <2>2. i \in 1..(Len(G) + Len(z)) /\ i <= Len(G)
    BY <1>2, <2>1 DEF IsJoin
  <2>3. B[i] = G[i]
    BY <2>2 DEF IsJoin
  <2> QED BY <2>1, <2>3
<1>4. c[1] = k /\ c[2] = CR /\ c[3] = LF /\ \A j \in 1..k : c[3 + j] = piece[j]
  BY <1>1 DEF ChunkAt, HeadAt
<1>5. B[s + 1] = k /\ B[s + 2] = CR /\ B[s + 3] = LF
  BY <1>2, <1>3, <1>4
<1>6. ASSUME NEW j \in 1..k PROVE B[s + 3 + j] = piece[j]
  <2>1. PICK i : i = 3 + j
    OBVIOUS
  <2>2. i \in 1..Len(c) /\ s + i = s + 3 + j
    BY <1>2, <2>1
  <2>3. B[s + i] = c[i]
    BY <1>3, <2>2
  <2>4. c[i] = piece[j]
    BY <1>4, <2>1
  <2> QED BY <2>2, <2>3, <2>4
<1> QED BY <1>1, <1>5, <1>6 DEF ChunkAt, HeadAt

LEMMA ChunkedLayout ==
  ASSUME NEW r \in Replies, r.framing = "chunked"
  PROVE  \E st : Layout(Body(r), st, r.pieces, Len(r.pieces), 0)
<1>1. PICK p, n : p = r.pieces /\ n = Len(r.pieces)
  OBVIOUS
<1>2. n \in Nat /\ \A i \in 1..n : p[i] \in Seq(Bytes) /\ p[i] # <<>>
  BY <1>1, ReplyFacts, EmptySeq
<1>3. PICK c : c = [i \in 1..n |-> Chunk(p[i])]
  OBVIOUS
<1>4. ASSUME NEW i \in 1..n
      PROVE  c[i] \in Seq(Bytes) /\ Len(c[i]) = Len(p[i]) + 5 /\ ChunkAt(c[i], 0, p[i])
  <2>1. c[i] = Chunk(p[i])
    BY <1>3
  <2> QED BY <1>2, <2>1, ChunkIs
<1>5. c \in [1..n -> Seq(Bytes)]
  BY <1>3, <1>4
<1>6. PICK g : Pieces(g, c, Bytes, n)
  BY <1>2, <1>5, PiecesExist
<1>7. FlattenSeq(c) = g[n] /\ Lie(g, c, n)
  BY <1>2, <1>5, <1>6, FlattenIsThis, PiecesLie
<1>8. PICK G, z, B : G = g[n] /\ z = <<0, CR, LF, CR, LF>> /\ B = Body(r)
  OBVIOUS
<1>9. B = G \o z
  BY <1>1, <1>3, <1>7, <1>8 DEF Body
<1>10. /\ z \in Seq(Bytes) /\ Len(z) = 5 /\ z[1] = 0 /\ z[2] = CR /\ z[3] = LF
  <2>1. 0 \in Bytes /\ CR \in Bytes /\ LF \in Bytes
    BY DEF Bytes, CR, LF
  <2>2. PICK T : T = Bytes
    OBVIOUS
  <2>3. z \in Seq(T)
    BY <1>8, <2>1, <2>2
  <2> QED BY <1>8, <2>2, <2>3
<1>11. \A i \in 0..n : g[i] \in Seq(Bytes)
  <2>1. \A i \in 0..n : i = 0 \/ i \in 1..n
    BY <1>2
  <2>2. g[0] \in Seq(Bytes)
    BY <1>6, EmptySeq DEF Pieces
  <2> QED BY <1>6, <2>1, <2>2 DEF Pieces
<1>12. n \in 0..n /\ 0 \in 0..n
  BY <1>2
<1>13. B \in Seq(Bytes) /\ IsJoin(G, z, B)
  BY <1>8, <1>9, <1>10, <1>11, <1>12, JoinIs
<1>14. PICK st : st = [i \in 0..n |-> Len(g[i])]
  OBVIOUS
<1>15. st \in [0..n -> Nat] /\ st[0] = 0
  <2>1. \A i \in 0..n : Len(g[i]) \in Nat
    BY <1>11, LenProperties
  <2>2. Len(g[0]) = 0
    BY <1>6, EmptySeq DEF Pieces
  <2> QED BY <1>12, <1>14, <2>1, <2>2
<1>16. ASSUME NEW i \in 1..n
       PROVE  st[i] = st[i - 1] + Len(p[i]) + 5 /\ ChunkAt(B, st[i - 1], p[i])
  <2>1. i \in 0..n /\ i - 1 \in 0..n
    BY <1>2
  <2>2. st[i] = Len(g[i]) /\ st[i - 1] = Len(g[i - 1]) /\ st[i] \in Nat /\ st[i - 1] \in Nat
    BY <1>14, <1>15, <2>1
  <2>3. LiesAt(g, c, n, i)
    BY <1>7 DEF Lie
  <2>4. PICK s, d, q : s = st[i - 1] /\ d = c[i] /\ q = p[i]
    OBVIOUS
  <2>5. /\ st[i] = s + Len(d) /\ s + Len(d) <= Len(G)
        /\ \A j \in 1..Len(d) : G[s + j] = d[j]
    BY <1>8, <2>2, <2>3, <2>4 DEF LiesAt
  <2>6. s \in Nat /\ q \in Seq(Bytes) /\ Len(d) = Len(q) + 5 /\ ChunkAt(d, 0, q)
    BY <1>2, <1>4, <2>2, <2>4
  <2>7. ChunkAt(B, s, q)
    BY <1>13, <2>5, <2>6, TakesOver
  <2>8. st[i] = s + Len(q) + 5
    <3>1. PICK k, l : k = Len(q) /\ l = Len(d)
      OBVIOUS
    <3>2. k \in Nat /\ l = k + 5 /\ st[i] = s + l
      BY <2>5, <2>6, <3>1, LenProperties
    <3> QED BY <2>6, <3>1, <3>2
  <2> QED BY <2>4, <2>7, <2>8
<1>17. HeadAt(B, st[n], 0) /\ Len(B) = st[n] + 5
  <2>1. PICK s : s = st[n]
    OBVIOUS
  <2>2. s = Len(G) /\ s \in Nat
    BY <1>8, <1>12, <1>14, <1>15, <2>1
  <2>3. \A i \in 1..(s + 5) : B[i] = IF i <= s THEN G[i] ELSE z[i - s]
    BY <1>10, <1>13, <2>2 DEF IsJoin
  <2>4. ASSUME NEW k \in 1..3 PROVE B[s + k] = z[k]
    <3>1. PICK i : i = s + k
      OBVIOUS
    <3>2. i \in 1..(s + 5) /\ ~(i <= s) /\ i - s = k
      BY <2>2, <3>1
    <3> QED BY <2>3, <3>1, <3>2
  <2>5. B[s + 1] = 0 /\ B[s + 2] = CR /\ B[s + 3] = LF
    BY <1>10, <2>4
  <2>6. Len(B) = s + 5
    BY <1>10, <1>13, <2>2 DEF IsJoin
  <2> QED BY <2>1, <2>5, <2>6 DEF HeadAt
<1>18. Layout(B, st, p, n, 0)
  BY <1>13, <1>15, <1>16, <1>17 DEF Layout
<1> QED BY <1>1, <1>8, <1>18

-----------------------------------------------------------------------------
(* What has arrived of it: b is the first k bytes of B. *)

CutAt(b, B, k) == b \in Seq(Bytes) /\ Len(b) = k /\ \A i \in 1..k : b[i] = B[i]

LEMMA CutIs ==
  ASSUME NEW B \in Seq(Bytes), NEW k \in 0..Len(B), NEW b, b = SubSeq(B, 1, k)
  PROVE  CutAt(b, B, k)
<1>1. Len(B) \in Nat /\ k \in Int /\ 1 \in Int /\ 1 - 1 = 0
  BY LenProperties
<1>2. \A i \in 1..k : B[i] \in Bytes
  <2>1. \A i \in 1..k : i \in 1..Len(B)
    BY <1>1
  <2> QED BY <2>1, ElementOfSeq
<1>3. /\ b \in Seq(Bytes) /\ Len(b) = IF 1 <= k THEN k - 1 + 1 ELSE 0
      /\ \A i \in 1..(k - 1 + 1) : b[i] = B[1 + i - 1]
  BY <1>1, <1>2, SubSeqProperties
<1>4. Len(b) = k
  BY <1>1, <1>3
<1>5. ASSUME NEW i \in 1..k PROVE b[i] = B[i]
  <2>1. i \in 1..(k - 1 + 1) /\ 1 + i - 1 = i
    BY <1>1
  <2> QED BY <1>3, <2>1
<1> QED BY <1>3, <1>4, <1>5 DEF CutAt

\* A chunk of d bytes at place q is seen.
Sees(b, q, d) == LineEnds(b, q) # {} /\ First(LineEnds(b, q)) = q + 1 /\ b[q] = d

\* At the beginning of a chunk: its line end is the second byte, or is not here.
LEMMA AtAChunk ==
  ASSUME NEW B, NEW k \in Nat, NEW b, CutAt(b, B, k), NEW s \in Nat, NEW d \in Nat,
         HeadAt(B, s, d), NEW q, q = s + 1
  PROVE  /\ q + 2 <= k => Sees(b, q, d)
         /\ k < q + 2 => LineEnds(b, q) = {}
<1>1. PICK p : p = s + 1
  OBVIOUS
<1>2. p \in Nat /\ p >= 1 /\ B[p] = d /\ B[p + 1] = CR /\ B[p + 2] = LF
  <2>1. s + 1 = p /\ s + 2 = p + 1 /\ s + 3 = p + 2
    BY <1>1
  <2> QED BY <1>1, <2>1 DEF HeadAt
<1>3. Len(b) = k /\ \A i \in 1..k : b[i] = B[i]
  BY DEF CutAt
<1>4. LineEnds(b, p) = {e \in p..(k - 1) : b[e] = CR /\ b[e + 1] = LF}
  BY <1>3 DEF LineEnds
<1>5. d # CR
  <2>1. CR = -1
    BY DEF CR
  <2> QED BY <2>1
<1>6. ASSUME k < p + 2 PROVE LineEnds(b, p) = {}
  <2>1. SUFFICES ASSUME NEW e \in LineEnds(b, p) PROVE FALSE
    OBVIOUS
  <2>2. e \in p..(k - 1) /\ b[e] = CR
    BY <1>4, <2>1
  <2>3. e = p /\ p \in 1..k
    BY <1>2, <1>6, <2>2
  <2> QED BY <1>2, <1>3, <1>5, <2>2, <2>3
<1>7. ASSUME p + 2 <= k
      PROVE  LineEnds(b, p) # {} /\ First(LineEnds(b, p)) = p + 1 /\ b[p] = d
  <2>1. p \in 1..k /\ p + 1 \in 1..k /\ p + 2 \in 1..k /\ p + 1 \in p..(k - 1)
    BY <1>2, <1>7
  <2>2. b[p] = d /\ b[p + 1] = CR /\ b[p + 2] = LF
    BY <1>2, <1>3, <2>1
  <2>3. PICK g : g = p + 1
    OBVIOUS
  <2>4. g + 1 = p + 2
    BY <1>2, <2>3
  <2>5. g \in LineEnds(b, p)
    BY <1>4, <2>1, <2>2, <2>3, <2>4
  <2>6. LineEnds(b, p) \in SUBSET Nat
    BY <1>2, <1>4
  <2>7. PICK f : f = First(LineEnds(b, p))
    OBVIOUS
  <2>8. f \in LineEnds(b, p) /\ f <= g
    BY <2>5, <2>6, <2>7, FirstIsFirst
  <2>9. f \in p..(k - 1) /\ b[f] = CR
    BY <1>4, <2>8
  <2>10. f # p
    BY <1>5, <2>2, <2>9
  <2>11. f = g
    BY <1>2, <2>3, <2>8, <2>9, <2>10
  <2> QED BY <2>2, <2>3, <2>5, <2>7, <2>11
<1> QED BY <1>1, <1>6, <1>7 DEF Sees

PiecesOK(p, n) == \A i \in 1..n : p[i] \in Seq(Bytes) /\ Len(p[i]) \in Nat \ {0}

\* One chunk and what follows it.
LEMMA NextChunk ==
  ASSUME NEW n \in Nat, NEW B, NEW st, NEW p, NEW t, Layout(B, st, p, n, t), PiecesOK(p, n), NEW i \in 1..n
  PROVE  /\ st[i - 1] \in Nat /\ st[i] \in Nat /\ Len(p[i]) \in Nat \ {0} /\ p[i] \in Seq(Bytes)
         /\ st[i] = st[i - 1] + Len(p[i]) + 5 /\ ChunkAt(B, st[i - 1], p[i])
<1>1. i - 1 \in 0..n /\ i \in 0..n
  OBVIOUS
<1> QED BY <1>1 DEF Layout, PiecesOK

LEMMA ChunksInOrder ==
  ASSUME NEW n \in Nat, NEW B, NEW st, NEW p, NEW t, Layout(B, st, p, n, t), PiecesOK(p, n), NEW i \in 0..n
  PROVE  st[i] <= st[n] /\ st[i] \in Nat /\ st[n] \in Nat
<1> DEFINE S == {m \in 0..n : st[n - m] <= st[n]}
<1>0. st[n] \in Nat /\ st[i] \in Nat
  <2>1. n \in 0..n
    OBVIOUS
  <2> QED BY <2>1 DEF Layout
<1>1. 0 \in S
  <2>1. n - 0 = n
    OBVIOUS
  <2> QED BY <1>0, <2>1
<1>2. ASSUME NEW m \in 0..(n - 1), m \in S PROVE m + 1 \in S
  <2>1. PICK k, l : k = n - m /\ l = n - (m + 1)
    OBVIOUS
  <2>2. k \in 1..n /\ l = k - 1
    BY <2>1
  <2>3. st[l] \in Nat /\ st[k] \in Nat /\ Len(p[k]) \in Nat \ {0} /\ st[k] = st[l] + Len(p[k]) + 5
    BY <2>2, NextChunk
  <2>4. st[k] <= st[n]
    BY <1>2, <2>1
  <2>5. st[l] <= st[n]
    BY <1>0, <2>3, <2>4
  <2>6. m + 1 \in 0..n
    OBVIOUS
  <2> QED BY <2>1, <2>5, <2>6
<1> HIDE DEF S
<1>3. 0..n \subseteq S
  <2>1. 0 \in Int /\ n \in Int
    OBVIOUS
  <2>2. \A j \in 0..(n - 1) : j \in S => j + 1 \in S
    BY <1>2
  <2> QED BY <1>1, <2>1, <2>2, IntervalInduction
<1>4. PICK m : m = n - i
  OBVIOUS
<1>5. m \in 0..n /\ n - m = i
  BY <1>4
<1>6. st[n - m] <= st[n]
  BY <1>3, <1>5 DEF S
<1> QED BY <1>0, <1>5, <1>6

\* A chunk whose line has arrived, seen by either walk.
LEMMA ChunkHere ==
  ASSUME NEW n \in Nat, NEW B, NEW st, NEW p, NEW t, Layout(B, st, p, n, t), PiecesOK(p, n), NEW i \in 1..n,
         NEW k \in Nat, NEW b, CutAt(b, B, k), NEW q, q = st[i - 1] + 1, q + 2 <= k
  PROVE  /\ LineEnds(b, q) # {} /\ b[q] = Len(p[i]) /\ b[q] \in Nat \ {0}
         /\ DataAt(b, q) = q + 3 /\ NextAt(b, q) = st[i] + 1
<1>1. PICK s, d, e : s = st[i - 1] /\ d = Len(p[i]) /\ e = st[i]
  OBVIOUS
<1>2. /\ s \in Nat /\ d \in Nat \ {0} /\ e = s + d + 5 /\ HeadAt(B, s, d)
      /\ q = s + 1 /\ s + 3 <= k
  <2>1. s \in Nat /\ d \in Nat \ {0} /\ e = s + d + 5 /\ HeadAt(B, s, d)
    BY <1>1, NextChunk DEF ChunkAt
  <2>2. q = s + 1
    BY <1>1
  <2> QED BY <2>1, <2>2
<1>3. LineEnds(b, q) # {} /\ First(LineEnds(b, q)) = s + 2 /\ b[q] = d
  <2>1. d \in Nat
    BY <1>2
  <2>2. Sees(b, q, d)
    BY <1>2, <2>1, AtAChunk
  <2> QED BY <1>2, <2>2 DEF Sees
<1>4. DataAt(b, q) = q + 3
  BY <1>2, <1>3 DEF DataAt
<1>5. NextAt(b, q) = e + 1
  <2>1. PICK f, c : f = First(LineEnds(b, q)) /\ c = b[q]
    OBVIOUS
  <2>2. f = s + 2 /\ c = d
    BY <1>3, <2>1
  <2>3. f + 2 + c + 2 = e + 1
    BY <1>2, <2>2
  <2> QED BY <2>1, <2>3 DEF NextAt
<1> QED BY <1>1, <1>2, <1>3, <1>4, <1>5

\* One whose line has not.
LEMMA ChunkNotHere ==
  ASSUME NEW n \in Nat, NEW B, NEW st, NEW p, NEW t, Layout(B, st, p, n, t), PiecesOK(p, n), NEW i \in 0..n,
         NEW k \in Nat, NEW b, CutAt(b, B, k), NEW q, q = st[i] + 1, k < q + 2
  PROVE  LineEnds(b, q) = {}
<1>1. PICK s : s = st[i]
  OBVIOUS
<1>2. s \in Nat /\ q = s + 1
  BY <1>1, ChunksInOrder
<1>3. \E d \in Nat : HeadAt(B, s, d)
  <2>1. CASE i = n
    <3>1. HeadAt(B, s, t) /\ t \in Nat
      BY <1>1, <2>1 DEF Layout
    <3> QED BY <3>1
  <2>2. CASE i # n
    <3>1. PICK l : l = i + 1
      OBVIOUS
    <3>2. l \in 1..n /\ l - 1 = i
      BY <2>2, <3>1
    <3>3. Len(p[l]) \in Nat \ {0} /\ HeadAt(B, s, Len(p[l]))
      BY <1>1, <3>2, NextChunk DEF ChunkAt
    <3>4. PICK d : d = Len(p[l])
      OBVIOUS
    <3>5. d \in Nat /\ HeadAt(B, s, d)
      BY <3>3, <3>4
    <3> QED BY <3>5
  <2> QED BY <2>1, <2>2
<1> QED BY <1>1, <1>2, <1>3, AtAChunk

-----------------------------------------------------------------------------
(* Where the walk gets. *)

LEMMA WalkAt ==
  ASSUME NEW b \in Seq(Bytes), NEW w, Walks(w, b), NEW q \in 1..(Len(b) + 1)
  PROVE  /\ w[q] \in BOOLEAN
         /\ LineEnds(b, q) = {} => w[q] = FALSE
         /\ LineEnds(b, q) # {} /\ b[q] \notin 1..MaxReply => w[q] = TRUE
         /\ Goes(b, q) /\ ~(NextAt(b, q) <= Len(b) + 1) => w[q] = FALSE
         /\ Goes(b, q) /\ NextAt(b, q) <= Len(b) + 1 => w[q] = w[NextAt(b, q)]
<1>1. ASSUME NEW r \in 1..(Len(b) + 1)
      PROVE  w[r] = (/\ LineEnds(b, r) # {}
                     /\ \/ b[r] \notin 1..MaxReply
                        \/ NextAt(b, r) <= Len(b) + 1 /\ w[NextAt(b, r)])
  BY DEF Walks
<1>2. ASSUME NEW r \in 1..(Len(b) + 1) PROVE w[r] \in BOOLEAN
  BY <1>1
<1>3. LineEnds(b, q) = {} => w[q] = FALSE
  BY <1>1
<1>4. LineEnds(b, q) # {} /\ b[q] \notin 1..MaxReply => w[q] = TRUE
  BY <1>1
<1>5. Goes(b, q) /\ ~(NextAt(b, q) <= Len(b) + 1) => w[q] = FALSE
  BY <1>1 DEF Goes
<1>6. ASSUME Goes(b, q), NextAt(b, q) <= Len(b) + 1 PROVE w[q] = w[NextAt(b, q)]
  <2>1. PICK r : r = NextAt(b, q)
    OBVIOUS
  <2>2. r \in 1..(Len(b) + 1)
    BY <1>6, <2>1, FurtherOn, LenProperties DEF Goes
  <2>3. w[r] \in BOOLEAN
    BY <1>2, <2>2
  <2>4. w[q] = (NextAt(b, q) <= Len(b) + 1 /\ w[NextAt(b, q)])
    BY <1>1, <1>6 DEF Goes
  <2>5. w[q] = w[r]
    BY <1>6, <2>1, <2>3, <2>4
  <2> QED BY <2>1, <2>5
<1> QED BY <1>2, <1>3, <1>4, <1>5, <1>6

\* The walk goes past the first n chunks, and no further than the next.
Passes(p, n, t) == (\A i \in 1..n : Len(p[i]) <= MaxReply) /\ t \notin 1..MaxReply

WalkedFrom(w, st, n, k, i) == st[i] <= k => w[st[i] + 1] = IF st[n] + 3 <= k THEN TRUE ELSE FALSE

LEMMA WalksToTheLast ==
  ASSUME NEW n \in Nat, NEW B, NEW st, NEW p, NEW t, Layout(B, st, p, n, t), PiecesOK(p, n),
         Passes(p, n, t), NEW k \in Nat, NEW b, CutAt(b, B, k), NEW w, Walks(w, b)
  PROVE  w[1] = IF st[n] + 3 <= k THEN TRUE ELSE FALSE
<1> DEFINE S == {m \in 0..n : WalkedFrom(w, st, n, k, n - m)}
<1>0. Len(b) = k /\ b \in Seq(Bytes)
  BY DEF CutAt
<1>1. 0 \in S
  <2>1. PICK q : q = st[n] + 1
    OBVIOUS
  <2>2. st[n] \in Nat /\ HeadAt(B, st[n], t) /\ n - 0 = n /\ t \in Nat
    <3>1. n \in 0..n
      OBVIOUS
    <3> QED BY <3>1 DEF Layout
  <2>3. ASSUME st[n] <= k PROVE w[q] = IF st[n] + 3 <= k THEN TRUE ELSE FALSE
    <3>1. q \in 1..(Len(b) + 1)
      BY <1>0, <2>1, <2>2, <2>3
    <3>2. CASE st[n] + 3 <= k
      <4>1. Sees(b, q, t)
        <5>1. q + 2 <= k
          BY <2>1, <2>2, <3>2
        <5> QED BY <2>1, <2>2, <5>1, AtAChunk
      <4>2. w[q] = TRUE
        <5>1. LineEnds(b, q) # {} /\ b[q] \notin 1..MaxReply
          BY <4>1 DEF Sees, Passes
        <5> QED BY <1>0, <3>1, <5>1, WalkAt
      <4> QED BY <3>2, <4>2
    <3>3. CASE ~(st[n] + 3 <= k)
      <4>1. LineEnds(b, q) = {}
        <5>1. n \in 0..n /\ k < q + 2
          BY <2>1, <2>2, <3>3
        <5> QED BY <2>1, <5>1, ChunkNotHere
      <4>2. w[q] = FALSE
        BY <1>0, <3>1, <4>1, WalkAt
      <4> QED BY <3>3, <4>2
    <3> QED BY <3>2, <3>3
  <2>4. WalkedFrom(w, st, n, k, n)
    BY <2>1, <2>3 DEF WalkedFrom
  <2> QED BY <2>2, <2>4
<1>2. ASSUME NEW m \in 0..(n - 1), m \in S PROVE m + 1 \in S
  <2>1. PICK i, l : i = n - m /\ l = n - (m + 1)
    OBVIOUS
  <2>2. i \in 1..n /\ l = i - 1 /\ l \in 0..n /\ i \in 0..n
    BY <2>1
  <2>3. PICK s, e, z, q : s = st[l] /\ e = st[i] /\ z = st[n] /\ q = s + 1
    OBVIOUS
  <2>4. s \in Nat /\ e \in Nat /\ z \in Nat /\ s <= z /\ e <= z
    BY <2>2, <2>3, ChunksInOrder
  <2>5. e <= k => w[e + 1] = IF z + 3 <= k THEN TRUE ELSE FALSE
    BY <1>2, <2>1, <2>3 DEF WalkedFrom
  <2>6. ASSUME s <= k PROVE w[q] = IF z + 3 <= k THEN TRUE ELSE FALSE
    <3>1. q \in 1..(Len(b) + 1)
      BY <1>0, <2>3, <2>4, <2>6
    <3>2. CASE s + 3 <= k
      <4>1. q = st[i - 1] + 1 /\ q + 2 <= k
        BY <2>2, <2>3, <2>4, <3>2
      <4>2. Goes(b, q) /\ NextAt(b, q) = e + 1
        <5>1. /\ LineEnds(b, q) # {} /\ b[q] = Len(p[i]) /\ b[q] \in Nat \ {0}
              /\ NextAt(b, q) = e + 1
          BY <2>2, <2>3, <4>1, ChunkHere
        <5>2. Len(p[i]) <= MaxReply /\ MaxReply \in Nat
          BY <2>2, HttpAssumption DEF Passes
        <5>3. b[q] \in 1..MaxReply
          BY <5>1, <5>2
        <5> QED BY <5>1, <5>3 DEF Goes
      <4>3. CASE e <= k
        <5>1. NextAt(b, q) <= Len(b) + 1
          BY <1>0, <2>4, <4>2, <4>3
        <5>2. w[q] = w[e + 1]
          BY <1>0, <3>1, <4>2, <5>1, WalkAt
        <5> QED BY <2>5, <4>3, <5>2
      <4>4. CASE ~(e <= k)
        <5>1. ~(NextAt(b, q) <= Len(b) + 1)
          BY <1>0, <2>4, <4>2, <4>4
        <5>2. w[q] = FALSE
          BY <1>0, <3>1, <4>2, <5>1, WalkAt
        <5>3. ~(z + 3 <= k)
          BY <2>4, <4>4
        <5> QED BY <5>2, <5>3
      <4> QED BY <4>3, <4>4
    <3>3. CASE ~(s + 3 <= k)
      <4>1. LineEnds(b, q) = {}
        <5>1. q = st[l] + 1 /\ k < q + 2
          BY <2>3, <2>4, <3>3
        <5> QED BY <2>2, <5>1, ChunkNotHere
      <4>2. w[q] = FALSE
        BY <1>0, <3>1, <4>1, WalkAt
      <4>3. ~(z + 3 <= k)
        BY <2>4, <3>3
      <4> QED BY <4>2, <4>3
    <3> QED BY <3>2, <3>3
  <2>7. WalkedFrom(w, st, n, k, l)
    BY <2>3, <2>6 DEF WalkedFrom
  <2>8. m + 1 \in 0..n
    OBVIOUS
  <2> QED BY <2>1, <2>7, <2>8
<1> HIDE DEF S
<1>3. n \in S
  <2>1. Climbs(S, n)
    BY <1>2 DEF Climbs
  <2> QED BY <1>1, <2>1, ClimbsToTop
<1>4. WalkedFrom(w, st, n, k, 0)
  <2>1. n - n = 0
    OBVIOUS
  <2> QED BY <1>3, <2>1 DEF S
<1>5. st[0] = 0 /\ 0 <= k /\ 0 + 1 = 1
  BY DEF Layout
<1> QED BY <1>4, <1>5 DEF WalkedFrom

-----------------------------------------------------------------------------
(* What the other walk decodes: after x comes d, and then the rest, if any. *)

Leaves(full, x, d, done) ==
  d \in Seq(Bytes) /\ \E u \in Seq(Bytes) : full = (x \o d) \o u /\ (done => u = <<>>)

LEMMA LeavesTheRest ==
  ASSUME NEW x \in Seq(Bytes), NEW u \in Seq(Bytes), NEW full, full = x \o u, NEW done, done => u = <<>>
  PROVE  Leaves(full, x, <<>>, done)
<1>1. PICK e \in Seq(Bytes) : e = <<>>
  BY EmptySeq
<1>2. x \o e = x
  BY <1>1, ConcatEmptySeq
<1> QED BY <1>1, <1>2 DEF Leaves

LEMMA LeavesMore ==
  ASSUME NEW x \in Seq(Bytes), NEW c \in Seq(Bytes), NEW d, NEW full, NEW done,
         Leaves(full, x \o c, d, done)
  PROVE  Leaves(full, x, c \o d, done)
<1>1. PICK u \in Seq(Bytes) : full = ((x \o c) \o d) \o u /\ (done => u = <<>>)
  BY DEF Leaves
<1>2. d \in Seq(Bytes)
  BY DEF Leaves
<1>3. (x \o c) \o d = x \o (c \o d) /\ c \o d \in Seq(Bytes)
  BY <1>2, ConcatAssociative, ConcatProperties
<1> QED BY <1>1, <1>3 DEF Leaves

\* What a whole chunk holds is the piece that was put into it.
LEMMA DataIsThePiece ==
  ASSUME NEW n \in Nat, NEW B, NEW st, NEW p, NEW t, Layout(B, st, p, n, t), PiecesOK(p, n), NEW i \in 1..n,
         NEW k \in Nat, NEW b, CutAt(b, B, k), NEW q, q = st[i - 1] + 1,
         q + 2 + Len(p[i]) <= k
  PROVE  DataOf(b, q) = p[i]
<1>1. PICK s, c, d : s = st[i - 1] /\ c = p[i] /\ d = Len(p[i])
  OBVIOUS
<1>2. /\ s \in Nat /\ d \in Nat \ {0} /\ c \in Seq(Bytes) /\ Len(c) = d /\ q = s + 1
      /\ \A j \in 1..d : B[s + 3 + j] = c[j]
  <2>1. s \in Nat /\ d \in Nat \ {0} /\ c \in Seq(Bytes) /\ ChunkAt(B, s, c)
    BY <1>1, NextChunk
  <2> QED BY <1>1, <2>1 DEF ChunkAt
<1>3. DataAt(b, q) = q + 3 /\ b[q] = d
  <2>1. q + 2 + d <= k
    BY <1>1
  <2>2. d \in Nat \ {0} /\ q \in Nat
    BY <1>2
  <2>3. q + 2 <= k
    BY <2>1, <2>2
  <2> QED BY <1>1, <2>3, ChunkHere
<1>4. b \in Seq(Bytes) /\ Len(b) = k /\ \A j \in 1..k : b[j] = B[j]
  BY DEF CutAt
<1>5. PICK y, z : y = s + 4 /\ z = s + 3 + d
  OBVIOUS
<1>6. y \in Nat /\ y >= 1 /\ z \in Nat /\ z <= k /\ z - y + 1 = d /\ y <= z
  <2>1. s \in Nat /\ d \in Nat \ {0} /\ q = s + 1
    BY <1>2
  <2>2. q + 2 + d <= k
    BY <1>1
  <2>3. s + 3 + d <= k
    BY <2>1, <2>2
  <2> QED BY <1>5, <2>1, <2>3
<1>7. DataOf(b, q) = SubSeq(b, y, z)
  <2>1. s \in Nat /\ d \in Nat \ {0} /\ q = s + 1
    BY <1>2
  <2>2. q + 3 = y /\ y + d - 1 = z
    BY <1>5, <2>1
  <2> QED BY <1>3, <2>2 DEF DataOf
<1>8. PICK r : r = SubSeq(b, y, z)
  OBVIOUS
<1>9. /\ r \in Seq(Bytes) /\ Len(r) = d
      /\ \A j \in 1..d : r[j] = b[y + j - 1]
  <2>1. y \in Int /\ z \in Int
    BY <1>6
  <2>2. \A j \in y..z : b[j] \in Bytes
    <3>1. \A j \in y..z : j \in 1..Len(b)
      BY <1>4, <1>6
    <3> QED BY <1>4, <3>1, ElementOfSeq
  <2>3. /\ SubSeq(b, y, z) \in Seq(Bytes)
        /\ Len(SubSeq(b, y, z)) = IF y <= z THEN z - y + 1 ELSE 0
        /\ \A j \in 1..(z - y + 1) : SubSeq(b, y, z)[j] = b[y + j - 1]
    BY <2>1, <2>2, SubSeqProperties
  <2> QED BY <1>6, <1>8, <2>3
<1>10. ASSUME NEW j \in 1..d PROVE r[j] = c[j]
  <2>1. PICK f : f = y + j - 1
    OBVIOUS
  <2>2. f \in 1..k /\ f = s + 3 + j
    BY <1>2, <1>5, <1>6, <2>1
  <2>3. r[j] = b[f] /\ b[f] = B[f] /\ B[f] = c[j]
    BY <1>2, <1>4, <1>9, <2>1, <2>2
  <2> QED BY <2>3
<1>11. r = c
  BY <1>2, <1>9, <1>10, SeqEqual
<1> QED BY <1>1, <1>7, <1>8, <1>11

\* The chunk at which decoding goes on, and the one at which it stops.
LEMMA StopsHere ==
  ASSUME NEW n \in Nat, NEW B, NEW st, NEW p, NEW t, Layout(B, st, p, n, t), PiecesOK(p, n), NEW i \in 1..n,
         NEW k \in Nat, NEW b, CutAt(b, B, k), NEW q, q = st[i - 1] + 1
  PROVE  Stops(b, q) <=> k < q + 2 + Len(p[i])
<1>1. PICK s, d : s = st[i - 1] /\ d = Len(p[i])
  OBVIOUS
<1>2. s \in Nat /\ d \in Nat \ {0} /\ q = s + 1 /\ Len(b) = k
  <2>1. s \in Nat /\ d \in Nat \ {0}
    BY <1>1, NextChunk
  <2> QED BY <1>1, <2>1 DEF CutAt
<1>3. CASE q + 2 <= k
  <2>1. LineEnds(b, q) # {} /\ b[q] = d /\ DataAt(b, q) = q + 3
    BY <1>1, <1>3, ChunkHere
  <2>2. Stops(b, q) <=> q > k \/ q + 3 + d - 1 > k
    BY <1>2, <2>1 DEF Stops
  <2>3. q > k \/ q + 3 + d - 1 > k <=> k < q + 2 + d
    BY <1>2, <1>3
  <2> QED BY <1>1, <2>2, <2>3
<1>4. CASE ~(q + 2 <= k)
  <2>1. PICK l : l = i - 1
    OBVIOUS
  <2>2. l \in 0..n /\ q = st[l] + 1 /\ k < q + 2
    BY <1>1, <1>2, <1>4, <2>1
  <2>3. LineEnds(b, q) = {}
    BY <2>2, ChunkNotHere
  <2>4. Stops(b, q)
    BY <2>3 DEF Stops
  <2>5. k < q + 2 + d
    BY <1>2, <1>4
  <2> QED BY <1>1, <2>4, <2>5
<1> QED BY <1>3, <1>4

DecodedFrom(d, h, st, n, k, i) ==
  st[i] <= k => Leaves(h[n], h[i], d[st[i] + 1], st[n] + 3 <= k)

LEMMA DecodesTheFront ==
  ASSUME NEW n \in Nat, NEW B, NEW st, NEW p, NEW t, Layout(B, st, p, n, t), PiecesOK(p, n),
         NEW k \in Nat, t = 0 \/ t > k, NEW b, CutAt(b, B, k), NEW d, Decodes(d, b),
         NEW h, Pieces(h, p, Bytes, n)
  PROVE  Leaves(h[n], <<>>, d[1], st[n] + 3 <= k)
<1> DEFINE S == {m \in 0..n : DecodedFrom(d, h, st, n, k, n - m)}
<1>0. Len(b) = k /\ b \in Seq(Bytes)
  BY DEF CutAt
<1>1. 0 \in S
  <2>1. PICK q : q = st[n] + 1
    OBVIOUS
  <2>2. st[n] \in Nat /\ HeadAt(B, st[n], t) /\ n - 0 = n /\ n \in 0..n /\ t \in Nat
    <3>1. n \in 0..n
      OBVIOUS
    <3> QED BY <3>1 DEF Layout
  <2>3. ASSUME st[n] <= k PROVE Leaves(h[n], h[n], d[q], st[n] + 3 <= k)
    <3>1. q \in 1..(Len(b) + 1)
      BY <1>0, <2>1, <2>2, <2>3
    <3>2. Stops(b, q)
      <4>1. CASE q + 2 <= k
        <5>1. LineEnds(b, q) # {} /\ First(LineEnds(b, q)) = q + 1 /\ b[q] = t
          <6>1. PICK s : s = st[n]
            OBVIOUS
          <6>2. s \in Nat /\ t \in Nat /\ HeadAt(B, s, t) /\ q = s + 1
            BY <2>1, <2>2, <6>1
          <6>3. Sees(b, q, t)
            BY <4>1, <6>2, AtAChunk
          <6> QED BY <6>3 DEF Sees
        <5>2. CASE t = 0
          BY <5>1, <5>2 DEF Stops
        <5>3. CASE t > k
          <6>1. DataAt(b, q) = q + 3
            BY <2>1, <2>2, <5>1 DEF DataAt
          <6>2. q + 3 + t - 1 > Len(b)
            BY <1>0, <2>1, <2>2, <5>3
          <6> QED BY <5>1, <6>1, <6>2 DEF Stops
        <5> QED BY <5>2, <5>3
      <4>2. CASE ~(q + 2 <= k)
        <5>1. k < q + 2
          BY <2>1, <2>2, <4>2
        <5>2. LineEnds(b, q) = {}
          BY <2>1, <2>2, <5>1, ChunkNotHere
        <5> QED BY <5>2 DEF Stops
      <4> QED BY <4>1, <4>2
    <3>3. d[q] = <<>>
      BY <3>1, <3>2 DEF Decodes
    <3>4. h[n] \in Seq(Bytes)
      BY <2>2, PiecesType
    <3>5. h[n] = h[n] \o <<>> /\ <<>> \in Seq(Bytes)
      BY <3>4, ConcatEmptySeq, EmptySeq
    <3>6. PICK x, u : x = h[n] /\ u = <<>>
      OBVIOUS
    <3>7. x \in Seq(Bytes) /\ u \in Seq(Bytes) /\ h[n] = x \o u
      BY <3>4, <3>5, <3>6
    <3>8. Leaves(h[n], x, <<>>, st[n] + 3 <= k)
      BY <3>6, <3>7, LeavesTheRest
    <3> QED BY <3>3, <3>6, <3>8
  <2>4. DecodedFrom(d, h, st, n, k, n)
    BY <2>1, <2>3 DEF DecodedFrom
  <2> QED BY <2>2, <2>4
<1>2. ASSUME NEW m \in 0..(n - 1), m \in S PROVE m + 1 \in S
  <2>1. PICK i, l : i = n - m /\ l = n - (m + 1)
    OBVIOUS
  <2>2. i \in 1..n /\ l = i - 1 /\ l \in 0..n /\ i \in 0..n
    BY <2>1
  <2>3. PICK s, e, z, q, c : s = st[l] /\ e = st[i] /\ z = st[n] /\ q = s + 1 /\ c = Len(p[i])
    OBVIOUS
  <2>4. s \in Nat /\ e \in Nat /\ z \in Nat /\ c \in Nat \ {0} /\ e = s + c + 5 /\ e <= z
    BY <2>2, <2>3, ChunksInOrder, NextChunk
  <2>5. PICK x, y, a, done : x = h[l] /\ y = h[i] /\ a = p[i] /\ done = (z + 3 <= k)
    OBVIOUS
  <2>6. x \in Seq(Bytes) /\ a \in Seq(Bytes) /\ y = x \o a
    <3>1. h[l] \in Seq(Bytes)
      BY <2>2, PiecesType
    <3>2. p[i] \in Seq(Bytes) /\ h[i] = h[i - 1] \o p[i]
      BY <2>2 DEF Pieces
    <3> QED BY <2>2, <2>5, <3>1, <3>2
  <2>7. e <= k => Leaves(h[n], y, d[e + 1], done)
    BY <1>2, <2>1, <2>3, <2>5 DEF DecodedFrom
  <2>8. q = st[i - 1] + 1
    BY <2>2, <2>3
  <2>9. Stops(b, q) <=> k < q + 2 + c
    BY <2>2, <2>3, <2>8, StopsHere
  <2>10. ASSUME s <= k PROVE Leaves(h[n], x, d[q], done)
    <3>1. q \in 1..(Len(b) + 1)
      <4>1. s \in Nat /\ q = s + 1
        BY <2>3, <2>4
      <4>2. q \in 1..(k + 1)
        BY <2>10, <4>1
      <4> QED BY <1>0, <4>2
    <3>2. CASE Stops(b, q)
      <4>1. d[q] = <<>>
        BY <3>1, <3>2 DEF Decodes
      <4>2. PICK u \in Seq(Bytes) : h[n] = x \o u
        <5>1. BeginsWith(h[n], h[l], Bytes)
          BY <2>2, PiecesStart
        <5> QED BY <2>5, <5>1 DEF BeginsWith
      <4>3. ~(z + 3 <= k)
        <5>1. k < q + 2 + c
          BY <2>9, <3>2
        <5>2. q = s + 1
          BY <2>3
        <5> QED BY <2>4, <5>1, <5>2
      <4>4. Leaves(h[n], x, <<>>, done)
        BY <2>5, <2>6, <4>2, <4>3, LeavesTheRest
      <4> QED BY <4>1, <4>4
    <3>3. CASE ~Stops(b, q)
      <4>1. q + 2 + c <= k
        <5>1. ~(k < q + 2 + c)
          BY <2>9, <3>3
        <5>2. q = s + 1
          BY <2>3
        <5> QED BY <2>4, <5>1, <5>2
      <4>2. DataOf(b, q) = a
        BY <2>2, <2>3, <2>5, <2>8, <4>1, DataIsThePiece
      <4>3. NextAt(b, q) = e + 1
        <5>1. q + 2 <= k
          <6>1. s \in Nat /\ c \in Nat /\ q = s + 1
            BY <2>3, <2>4
          <6> QED BY <4>1, <6>1
        <5> QED BY <2>2, <2>3, <2>8, <5>1, ChunkHere
      <4>4. d[q] = a \o (IF e + 1 <= k + 1 THEN d[e + 1] ELSE <<>>)
        BY <1>0, <3>1, <3>3, <4>2, <4>3 DEF Decodes
      <4>5. CASE e <= k
        <5>1. d[q] = a \o d[e + 1]
          BY <2>4, <4>4, <4>5
        <5>2. Leaves(h[n], x, a \o d[e + 1], done)
          BY <2>6, <2>7, <4>5, LeavesMore
        <5> QED BY <5>1, <5>2
      <4>6. CASE ~(e <= k)
        <5>1. d[q] = a \o <<>>
          <6>1. ~(e + 1 <= k + 1)
            BY <2>4, <4>6
          <6> QED BY <4>4, <6>1
        <5>2. PICK u \in Seq(Bytes) : h[n] = y \o u
          <6>1. BeginsWith(h[n], h[i], Bytes)
            BY <2>2, PiecesStart
          <6> QED BY <2>5, <6>1 DEF BeginsWith
        <5>3. ~(z + 3 <= k)
          BY <2>4, <4>6
        <5>4. y \in Seq(Bytes)
          BY <2>2, <2>5, PiecesType
        <5>5. Leaves(h[n], y, <<>>, done)
          BY <2>5, <5>2, <5>3, <5>4, LeavesTheRest
        <5>6. Leaves(h[n], x, a \o <<>>, done)
          BY <2>6, <5>5, LeavesMore
        <5> QED BY <5>1, <5>6
      <4> QED BY <4>5, <4>6
    <3> QED BY <3>2, <3>3
  <2>11. DecodedFrom(d, h, st, n, k, l)
    BY <2>3, <2>5, <2>10 DEF DecodedFrom
  <2>12. m + 1 \in 0..n
    OBVIOUS
  <2> QED BY <2>1, <2>11, <2>12
<1> HIDE DEF S
<1>3. n \in S
  <2>1. Climbs(S, n)
    BY <1>2 DEF Climbs
  <2> QED BY <1>1, <2>1, ClimbsToTop
<1>4. DecodedFrom(d, h, st, n, k, 0)
  <2>1. n - n = 0
    OBVIOUS
  <2> QED BY <1>3, <2>1 DEF S
<1>5. st[0] = 0 /\ 0 <= k /\ 0 + 1 = 1 /\ h[0] = <<>>
  BY DEF Layout, Pieces
<1> QED BY <1>4, <1>5 DEF DecodedFrom

\* A layout may be read up to any of its chunks.
LEMMA LayoutUpTo ==
  ASSUME NEW n \in Nat, NEW B, NEW st, NEW p, Layout(B, st, p, n, 0), PiecesOK(p, n), NEW m \in 0..n,
         NEW t, t = IF m = n THEN 0 ELSE Len(p[m + 1])
  PROVE  Layout(B, st, p, m, t) /\ PiecesOK(p, m)
<1>1. CASE m = n
  BY <1>1
<1>2. CASE m # n
  <2>1. PICK l : l = m + 1
    OBVIOUS
  <2>2. l \in 1..n /\ l - 1 = m /\ t = Len(p[l]) /\ l \in 0..n
    BY <1>2, <2>1
  <2>3. /\ st[m] \in Nat /\ st[l] \in Nat /\ t \in Nat \ {0} /\ st[l] = st[m] + t + 5
        /\ HeadAt(B, st[m], t)
    BY <2>2, NextChunk DEF ChunkAt
  <2>4. st[l] <= st[n] /\ st[n] \in Nat
    BY <2>2, ChunksInOrder
  <2>5. st[n] + 5 <= Len(B) /\ B \in Seq(Bytes)
    BY DEF Layout
  <2>6. st[m] + 5 <= Len(B)
    <3>1. Len(B) \in Nat
      BY <2>5, LenProperties
    <3> QED BY <2>3, <2>4, <2>5, <3>1
  <2>7. 1..m \subseteq 1..n /\ 0..m \subseteq 0..n
    OBVIOUS
  <2> QED BY <2>3, <2>5, <2>6, <2>7 DEF Layout, PiecesOK
<1> QED BY <1>1, <1>2

\* The walk passes m of the chunks, their pieces are what is kept, and the next
\* line says t: 0, or a size that is too big.
KeptWith(r, m, t, h) ==
  /\ m \in 0..Len(r.pieces)
  /\ t = IF m = Len(r.pieces) THEN 0 ELSE Len(r.pieces[m + 1])
  /\ t = 0 \/ t > MaxReply
  /\ Passes(r.pieces, m, t)
  /\ Pieces(h, r.pieces, Bytes, m) /\ Kept(r) = h[m]

LEMMA KeptIs ==
  ASSUME NEW r \in Replies, r.framing = "chunked"
  PROVE  \E m, t, h : KeptWith(r, m, t, h)
<1>1. PICK p, n : p = r.pieces /\ n = Len(r.pieces)
  OBVIOUS
<1>2. /\ n \in Nat /\ p \in [1..n -> Seq(Bytes)] /\ p \in Seq(Seq(Bytes))
      /\ \A i \in 1..n : Len(p[i]) \in Nat \ {0}
  BY <1>1, ReplyFacts
<1>3. MaxReply \in Nat
  BY HttpAssumption
<1>4. Oversize(r) = {i \in 1..n : Len(p[i]) > MaxReply}
  BY <1>1 DEF Oversize
<1>5. CASE Oversize(r) = {}
  <2>1. PICK h : Pieces(h, p, Bytes, n)
    BY <1>2, PiecesExist
  <2>2. Kept(r) = h[n]
    <3>1. FlattenSeq(p) = h[n]
      BY <1>2, <2>1, FlattenIsThis
    <3> QED BY <1>1, <1>5, <3>1 DEF Kept, Payload
  <2>3. Passes(p, n, 0)
    <3>1. \A i \in 1..n : Len(p[i]) <= MaxReply
      BY <1>2, <1>3, <1>4, <1>5
    <3> QED BY <3>1 DEF Passes
  <2>4. n \in 0..n
    BY <1>2
  <2>5. KeptWith(r, n, 0, h)
    BY <1>1, <2>1, <2>2, <2>3, <2>4 DEF KeptWith
  <2> QED BY <2>5
<1>6. CASE Oversize(r) # {}
  <2>1. PICK o : o = First(Oversize(r))
    OBVIOUS
  <2>2. o \in Oversize(r) /\ \A i \in Oversize(r) : o <= i
    <3>1. Oversize(r) \in SUBSET Nat
      BY <1>2, <1>4
    <3> QED BY <1>6, <2>1, <3>1, FirstIsFirst
  <2>3. PICK m, t : m = o - 1 /\ t = Len(p[o])
    OBVIOUS
  <2>4. m \in Nat /\ m \in 0..n /\ m + 1 = o /\ m # n /\ o \in 1..n /\ t > MaxReply /\ t \in Nat
    BY <1>2, <1>4, <2>2, <2>3
  <2>5. Passes(p, m, t)
    <3>1. ASSUME NEW i \in 1..m PROVE Len(p[i]) <= MaxReply
      <4>1. i \in 1..n /\ ~(o <= i)
        <5>1. i \in Nat /\ i <= o - 1 /\ o \in Nat /\ o <= n /\ 1 <= i
          BY <2>3, <2>4
        <5> QED BY <1>2, <5>1
      <4>2. PICK y : y = Len(p[i])
        OBVIOUS
      <4>3. y \in Nat /\ ~(y > MaxReply)
        BY <1>2, <1>4, <2>2, <4>1, <4>2
      <4> QED BY <1>3, <4>2, <4>3
    <3> QED BY <1>3, <2>4, <3>1 DEF Passes
  <2>6. PICK q : q = SubSeq(p, 1, m)
    OBVIOUS
  <2>7. q \in [1..m -> Seq(Bytes)] /\ \A i \in 1..m : q[i] = p[i]
    <3>1. PICK T : T = Seq(Bytes)
      OBVIOUS
    <3>2. p \in Seq(T) /\ Len(p) = n
      BY <1>1, <1>2, <3>1
    <3>3. \A i \in 1..m : p[i] \in T /\ i \in 1..n
      BY <1>2, <2>4, <3>1
    <3>4. 1 \in Int /\ m \in Int
      BY <2>4
    <3>5. /\ q \in Seq(T) /\ Len(q) = IF 1 <= m THEN m - 1 + 1 ELSE 0
          /\ \A i \in 1..(m - 1 + 1) : q[i] = p[1 + i - 1]
      BY <2>6, <3>3, <3>4, SubSeqProperties
    <3>6. Len(q) = m
      BY <2>4, <3>5
    <3>7. q \in [1..m -> T]
      BY <3>5, <3>6, LenProperties
    <3>8. ASSUME NEW i \in 1..m PROVE q[i] = p[i]
      <4>1. i \in 1..(m - 1 + 1) /\ 1 + i - 1 = i
        BY <2>4
      <4> QED BY <3>5, <4>1
    <3> QED BY <3>1, <3>7, <3>8
  <2>8. PICK h : Pieces(h, q, Bytes, m)
    BY <2>4, <2>7, PiecesExist
  <2>9. Pieces(h, p, Bytes, m)
    BY <2>7, <2>8 DEF Pieces
  <2>10. Kept(r) = h[m]
    <3>1. FlattenSeq(q) = h[m]
      BY <2>4, <2>7, <2>8, FlattenIsThis
    <3> QED BY <1>1, <1>6, <2>1, <2>3, <2>6, <3>1 DEF Kept
  <2>11. KeptWith(r, m, t, h)
    BY <1>1, <2>3, <2>4, <2>5, <2>9, <2>10 DEF KeptWith
  <2> QED BY <2>11
<1> QED BY <1>5, <1>6

\* Once c of the bytes are there, they are complete and hold what is kept.
EndsAt(r, c, N, k, b) ==
  /\ c \in Nat /\ c >= 3 /\ N \in Nat /\ c <= N - 2
  /\ ChunksComplete(b) = IF c <= k THEN TRUE ELSE FALSE
  /\ k <= MaxReply => Leaves(Kept(r), <<>>, Dechunk(b), c <= k)

\* Of the first k bytes of a chunked body: they are complete once the line has
\* arrived that ends the walk, and hold the front of what is kept, or all of it.
LEMMA ChunkedReply ==
  ASSUME NEW r \in Replies, r.framing = "chunked", NEW N, N = Len(Body(r)), NEW k \in 0..N,
         NEW b, b = SubSeq(Body(r), 1, k)
  PROVE  \E c : EndsAt(r, c, N, k, b)
<1>1. PICK p, l, B : p = r.pieces /\ l = Len(r.pieces) /\ B = Body(r)
  OBVIOUS
<1>2. l \in Nat /\ PiecesOK(p, l) /\ p \in [1..l -> Seq(Bytes)]
  BY <1>1, ReplyFacts DEF PiecesOK
<1>3. PICK st : Layout(B, st, p, l, 0)
  BY <1>1, ChunkedLayout
<1>4. PICK n, t, h : KeptWith(r, n, t, h)
  BY KeptIs
<1>5. /\ n \in 0..l /\ t = (IF n = l THEN 0 ELSE Len(p[n + 1])) /\ (t = 0 \/ t > MaxReply)
      /\ Passes(p, n, t) /\ Pieces(h, p, Bytes, n) /\ Kept(r) = h[n]
  BY <1>1, <1>4 DEF KeptWith
<1>6. Layout(B, st, p, n, t) /\ PiecesOK(p, n) /\ n \in Nat
  BY <1>2, <1>3, <1>5, LayoutUpTo
<1>7. st[n] \in Nat /\ st[n] + 5 <= N /\ B \in Seq(Bytes) /\ N \in Nat /\ t \in Nat
  <2>1. n \in 0..n
    BY <1>6
  <2> QED BY <1>1, <1>6, <2>1, LenProperties DEF Layout
<1>8. k \in Nat /\ CutAt(b, B, k)
  <2>1. N = Len(B) /\ b = SubSeq(B, 1, k)
    BY <1>1
  <2>2. k \in Nat /\ k \in 0..Len(B)
    BY <1>7, <2>1
  <2> QED BY <1>7, <2>1, <2>2, CutIs
<1>9. b \in Seq(Bytes)
  BY <1>8 DEF CutAt
<1>10. PICK c : c = st[n] + 3
  OBVIOUS
<1>11. c \in Nat /\ c >= 3 /\ c <= N - 2
  BY <1>7, <1>10
<1>12. ChunksComplete(b) = IF c <= k THEN TRUE ELSE FALSE
  <2>1. PICK w : ChunksComplete(b) = w[1] /\ Walks(w, b)
    BY <1>9, ChunksCompleteWalks
  <2>2. w[1] = IF st[n] + 3 <= k THEN TRUE ELSE FALSE
    BY <1>5, <1>6, <1>8, <2>1, WalksToTheLast
  <2> QED BY <1>10, <2>1, <2>2
<1>13. ASSUME k <= MaxReply PROVE Leaves(Kept(r), <<>>, Dechunk(b), c <= k)
  <2>1. PICK d : Dechunk(b) = d[1] /\ Decodes(d, b)
    BY <1>9, DechunkDecodes
  <2>2. t = 0 \/ t > k
    BY <1>5, <1>7, <1>8, <1>13, HttpAssumption
  <2>3. Leaves(h[n], <<>>, d[1], st[n] + 3 <= k)
    BY <1>5, <1>6, <1>8, <2>1, <2>2, DecodesTheFront
  <2> QED BY <1>5, <1>10, <2>1, <2>3
<1>14. EndsAt(r, c, N, k, b)
  BY <1>7, <1>11, <1>12, <1>13 DEF EndsAt
<1> QED BY <1>14

LEMMA PayloadType ==
  ASSUME NEW r \in Replies
  PROVE  /\ Payload(r) \in Seq(Bytes) /\ Len(Payload(r)) \in Nat /\ Kept(r) \in Seq(Bytes)
         /\ r.framing # "chunked" => Body(r) = Payload(r) /\ Kept(r) = Payload(r)
<1>1. PICK p, n : p = r.pieces /\ n = Len(r.pieces)
  OBVIOUS
<1>2. n \in Nat /\ p \in [1..n -> Seq(Bytes)] /\ n \in 0..n
  <2>1. n \in Nat /\ p \in [1..n -> Seq(Bytes)]
    BY <1>1, ReplyFacts
  <2> QED BY <2>1
<1>3. PICK h : Pieces(h, p, Bytes, n)
  BY <1>2, PiecesExist
<1>4. Payload(r) = h[n]
  <2>1. FlattenSeq(p) = h[n]
    BY <1>2, <1>3, FlattenIsThis
  <2> QED BY <1>1, <2>1 DEF Payload
<1>5. h[n] \in Seq(Bytes)
  BY <1>2, <1>3, PiecesType
<1>6. r.framing # "chunked" => Kept(r) = Payload(r)
  BY DEF Kept
<1>7. ASSUME r.framing = "chunked" PROVE Kept(r) \in Seq(Bytes)
  <2>1. PICK m, t, g : KeptWith(r, m, t, g)
    BY <1>7, KeptIs
  <2>2. m \in 0..n /\ Pieces(g, p, Bytes, m) /\ Kept(r) = g[m]
    BY <1>1, <2>1 DEF KeptWith
  <2>3. m \in Nat /\ m \in 0..m
    BY <1>2, <2>2
  <2> QED BY <2>2, <2>3, PiecesType
<1> QED BY <1>4, <1>5, <1>6, <1>7, LenProperties DEF Body

LEMMA BodyLength ==
  ASSUME NEW r \in Replies
  PROVE  Len(Body(r)) \in Nat /\ Units(r) = 2 + Len(Body(r)) /\ Units(r) \in Nat
<1>1. Len(Body(r)) \in Nat
  <2>1. CASE r.framing = "chunked"
    <3>1. PICK st : Layout(Body(r), st, r.pieces, Len(r.pieces), 0)
      BY <2>1, ChunkedLayout
    <3> QED BY <3>1, LenProperties DEF Layout
  <2>2. CASE r.framing # "chunked"
    BY <2>2, PayloadType
  <2> QED BY <2>1, <2>2
<1> QED BY <1>1 DEF Units

\* The front of a body that is not chunked.
LEMMA FrontOfBody ==
  ASSUME NEW B \in Seq(Bytes), NEW k \in 0..Len(B), NEW b, b = SubSeq(B, 1, k)
  PROVE  b \in Seq(Bytes) /\ IsPrefix(b, B) /\ (k = Len(B) => b = B)
<1>1. b \in Seq(Bytes) /\ Len(b) = k
  BY CutIs DEF CutAt
<1>2. SubSeq(b, 1, k) = b /\ k <= Len(B)
  <2>1. SubSeq(b, 1, Len(b)) = b
    BY <1>1, SubSeqFull
  <2>2. Len(B) \in Nat
    BY LenProperties
  <2> QED BY <1>1, <2>1, <2>2
<1>3. k = Len(B) => b = B
  BY SubSeqFull
<1> QED BY <1>1, <1>2, <1>3 DEF IsPrefix

LEMMA LeavesAPrefix ==
  ASSUME NEW full, NEW d, NEW done, Leaves(full, <<>>, d, done)
  PROVE  d \in Seq(Bytes) /\ IsPrefix(d, full) /\ (done => d = full)
<1>1. PICK u \in Seq(Bytes) : full = (<<>> \o d) \o u /\ (done => u = <<>>)
  BY DEF Leaves
<1>2. d \in Seq(Bytes)
  BY DEF Leaves
<1>3. <<>> \o d = d /\ d \o <<>> = d
  BY <1>2, ConcatEmptySeq
<1>4. BeginsWith(full, d, Bytes)
  BY <1>1, <1>3 DEF BeginsWith
<1> QED BY <1>1, <1>2, <1>3, <1>4, BeginsWithPrefix

\* The whole of a reply with a declared end is enough to end the read.
LEMMA AllIsEnough ==
  ASSUME NEW r \in Replies, r.framing # "close"
  PROVE  Enough(r, Units(r))
<1>1. PICK N, U : N = Len(Body(r)) /\ U = Units(r)
  OBVIOUS
<1>2. N \in Nat /\ U = 2 + N /\ U >= 2 /\ U - 2 = N
  BY <1>1, BodyLength
<1>3. CASE r.framing = "chunked"
  <2>1. PICK b : b = SubSeq(Body(r), 1, N)
    OBVIOUS
  <2>2. N \in 0..N
    BY <1>2
  <2>3. PICK c : EndsAt(r, c, N, N, b)
    BY <1>1, <1>3, <2>1, <2>2, ChunkedReply
  <2>4. ChunksComplete(b)
    <3>1. ChunksComplete(b) = (IF c <= N THEN TRUE ELSE FALSE) /\ c <= N - 2 /\ c \in Nat
      BY <2>3 DEF EndsAt
    <3> QED BY <1>2, <3>1
  <2>5. b = Arrived(r, U)
    BY <1>2, <2>1 DEF Arrived
  <2> QED BY <1>1, <1>2, <1>3, <2>4, <2>5 DEF Enough
<1>4. CASE r.framing = "length"
  <2>1. N = Len(Payload(r))
    BY <1>1, <1>4, PayloadType
  <2> QED BY <1>1, <1>2, <1>4, <2>1 DEF Enough
<1>5. r.framing \in {"length", "chunked", "close"}
  BY HttpAssumption
<1> QED BY <1>3, <1>4, <1>5

\* What is made of a reply: the front of what is kept of it, and all of that if
\* the reply is all here or was read to its declared end.
LEMMA DecodedFront ==
  ASSUME NEW r \in Replies, NEW units \in 0..Units(r), units <= MaxReply
  PROVE  /\ Decoded(r, units) \in Seq(Bytes) /\ IsPrefix(Decoded(r, units), Kept(r))
         /\ units = Units(r) \/ (Enough(r, units) /\ ~(units >= MaxReply))
              => Decoded(r, units) = Kept(r)
<1>1. PICK N, k, P, B : N = Len(Body(r)) /\ k = units - 2 /\ P = Kept(r) /\ B = Body(r)
  OBVIOUS
<1>2. N \in Nat /\ Units(r) = 2 + N /\ units \in Nat /\ (units = Units(r) <=> k = N) /\ k <= N
  <2>1. N \in Nat /\ Units(r) = 2 + N
    BY <1>1, BodyLength
  <2> QED BY <1>1, <2>1
<1>3. /\ P \in Seq(Bytes) /\ Len(P) \in Nat
      /\ r.framing # "chunked" => B = P /\ P = Payload(r)
  BY <1>1, PayloadType, LenProperties
<1>4. PICK b : b = SubSeq(B, 1, k)
  OBVIOUS
<1>5. b = Arrived(r, units)
  BY <1>1, <1>4 DEF Arrived
<1>6. CASE units <= 2
  <2>1. Decoded(r, units) = <<>>
    BY <1>6 DEF Decoded
  <2>2. BeginsWith(P, <<>>, Bytes) /\ <<>> \in Seq(Bytes)
    BY <1>3, ConcatEmptySeq, EmptySeq DEF BeginsWith
  <2>3. IsPrefix(<<>>, P)
    BY <2>2, BeginsWithPrefix
  <2>4. ASSUME units = Units(r) PROVE P = <<>>
    <3>1. k = 0 /\ N = 0
      BY <1>1, <1>2, <1>6, <2>4
    <3>2. r.framing # "chunked"
      <4>1. SUFFICES ASSUME r.framing = "chunked" PROVE N >= 5
        BY <3>1
      <4>2. k \in 0..N
        BY <3>1
      <4>3. PICK c : EndsAt(r, c, N, k, b)
        BY <1>1, <1>4, <4>1, <4>2, ChunkedReply
      <4>4. c \in Nat /\ c >= 3 /\ c <= N - 2
        BY <4>3 DEF EndsAt
      <4> QED BY <1>2, <4>4
    <3>3. Len(P) = 0
      BY <1>1, <1>3, <3>1, <3>2
    <3> QED BY <1>3, <3>3, EmptySeq
  <2>5. ASSUME Enough(r, units), ~(units >= MaxReply) PROVE P = <<>>
    <3>1. k = 0 /\ units = 2
      BY <1>1, <1>2, <1>6, <2>5 DEF Enough
    <3>2. CASE r.framing = "chunked"
      <4>1. k \in 0..N
        BY <1>2, <3>1
      <4>2. PICK c : EndsAt(r, c, N, k, b)
        BY <1>1, <1>4, <3>2, <4>1, ChunkedReply
      <4>3. ChunksComplete(b) = (IF c <= k THEN TRUE ELSE FALSE) /\ ~(c <= k)
        <5>1. ChunksComplete(b) = (IF c <= k THEN TRUE ELSE FALSE) /\ c \in Nat /\ c >= 3
          BY <4>2 DEF EndsAt
        <5> QED BY <3>1, <5>1
      <4>4. ChunksComplete(b)
        BY <1>5, <2>5, <3>2 DEF Enough
      <4> QED BY <4>3, <4>4
    <3>3. CASE r.framing # "chunked"
      <4>1. units - 2 >= Len(Payload(r))
        BY <2>5, <3>3 DEF Enough
      <4>2. Len(P) = 0
        BY <1>1, <1>3, <3>1, <3>3, <4>1
      <4> QED BY <1>3, <4>2, EmptySeq
    <3> QED BY <3>2, <3>3
  <2> QED BY <1>1, <2>1, <2>2, <2>3, <2>4, <2>5
<1>7. CASE ~(units <= 2) /\ r.framing = "chunked"
  <2>1. k \in 0..N /\ k <= MaxReply
    BY <1>1, <1>2, <1>7, HttpAssumption
  <2>2. PICK c : EndsAt(r, c, N, k, b)
    BY <1>1, <1>4, <1>7, <2>1, ChunkedReply
  <2>3. /\ c \in Nat /\ c <= N - 2 /\ ChunksComplete(b) = (IF c <= k THEN TRUE ELSE FALSE)
        /\ Leaves(P, <<>>, Dechunk(b), c <= k)
    BY <1>1, <2>1, <2>2 DEF EndsAt
  <2>4. Decoded(r, units) = Dechunk(b)
    BY <1>5, <1>7 DEF Decoded
  <2>5. Dechunk(b) \in Seq(Bytes) /\ IsPrefix(Dechunk(b), P) /\ (c <= k => Dechunk(b) = P)
    BY <2>3, LeavesAPrefix
  <2>6. units = Units(r) => c <= k
    BY <1>2, <2>3
  <2>7. Enough(r, units) /\ ~(units >= MaxReply) => c <= k
    <3>1. SUFFICES ASSUME Enough(r, units), ~(units >= MaxReply) PROVE c <= k
      OBVIOUS
    <3>2. ChunksComplete(b)
      BY <1>5, <1>7, <3>1 DEF Enough
    <3> QED BY <2>3, <3>2
  <2> QED BY <1>1, <2>4, <2>5, <2>6, <2>7
<1>8. CASE ~(units <= 2) /\ r.framing # "chunked"
  <2>1. k \in 0..Len(B)
    BY <1>1, <1>2, <1>8
  <2>2. b \in Seq(Bytes) /\ IsPrefix(b, B) /\ (k = Len(B) => b = B)
    BY <1>3, <1>4, <1>8, <2>1, FrontOfBody
  <2>3. Decoded(r, units) = b
    BY <1>5, <1>8 DEF Decoded
  <2>4. Enough(r, units) /\ ~(units >= MaxReply) => k = Len(B)
    <3>1. SUFFICES ASSUME Enough(r, units), ~(units >= MaxReply) PROVE k = Len(B)
      OBVIOUS
    <3>2. units - 2 >= Len(Payload(r))
      BY <1>8, <3>1 DEF Enough
    <3> QED BY <1>1, <1>2, <1>3, <1>8, <3>2
  <2> QED BY <1>1, <1>2, <1>3, <1>8, <2>2, <2>3, <2>4
<1> QED BY <1>6, <1>7, <1>8

-----------------------------------------------------------------------------
(* Reading the reply. *)

BeforeTheReply == {"idle", "called", "dialing", "sending", "curl"}

HttpTypes ==
  /\ tls \in BOOLEAN /\ timed \in BOOLEAN /\ hungup \in BOOLEAN /\ landed \in BOOLEAN
  /\ rc \in {0, -1} /\ status \in Statuses \cup {"none"} /\ heard \in Seq(Bytes)
  /\ reply \in Replies /\ got \in 0..Units(reply)

\* The read goes on while the reply has not met its end, and what is handed on
\* is what that read left.
ReadTrue ==
  /\ got <= MaxReply
  /\ net \in BeforeTheReply => got = 0
  /\ net = "reading" /\ reply.framing # "close" => got < Units(reply)
  /\ net = "parsing" => hungup \/ Enough(reply, got)
  /\ net = "leaving" /\ rc = 0 /\ ~tls =>
       heard = Decoded(reply, got) /\ (hungup \/ Enough(reply, got))

ReadInv == HttpTypes /\ ReadTrue

LEMMA NothingRead ==
  ASSUME NEW r \in Replies
  PROVE  0 \in 0..Units(r) /\ 0 < Units(r) /\ 0 <= MaxReply
BY BodyLength, HttpAssumption

LEMMA ClientReads ==
  ASSUME ReadInv, StatusTrue, Client
  PROVE  ReadInv'
<1> USE DEF ReadInv, HttpTypes
<1>1. CASE RefuseCall
  BY <1>1 DEF RefuseCall, ReadTrue, BeforeTheReply
<1>2. CASE Post
  BY <1>2 DEF Post, ReadTrue, BeforeTheReply
<1>3. CASE DialFails
  BY <1>3 DEF DialFails, Leave, ReadTrue, BeforeTheReply
<1>4. CASE Dial
  BY <1>4 DEF Dial, ReadTrue, BeforeTheReply
<1>5. CASE WriteBreaks
  BY <1>5 DEF WriteBreaks, Leave, ReadTrue, BeforeTheReply
<1>6. CASE Send
  <2>1. /\ reply' \in Replies /\ landed' \in BOOLEAN /\ got' = 0 /\ hungup' = FALSE
        /\ net' = "reading" /\ UNCHANGED <<tls, timed, rc, status, heard>>
    BY <1>6 DEF Send
  <2>2. 0 \in 0..Units(reply') /\ 0 < Units(reply') /\ 0 <= MaxReply
    BY <2>1, NothingRead
  <2> QED BY <2>1, <2>2 DEF ReadTrue, BeforeTheReply
<1>7. CASE Recv
  <2>1. /\ got' \in got + 1..(IF Units(reply) > MaxReply THEN MaxReply ELSE Units(reply))
        /\ net' = (IF Enough(reply, got') THEN "parsing" ELSE "reading")
        /\ UNCHANGED <<tls, timed, reply, hungup, landed, rc, status, heard>>
    BY <1>7 DEF Recv
  <2>2. Units(reply) \in Nat /\ MaxReply \in Nat
    BY BodyLength, HttpAssumption
  <2>3. got' \in 0..Units(reply) /\ got' <= MaxReply
    BY <2>1, <2>2
  <2>4. reply.framing # "close" /\ ~Enough(reply, got') => got' < Units(reply)
    <3>1. reply.framing # "close" => Enough(reply, Units(reply))
      BY AllIsEnough
    <3> QED BY <2>2, <2>3, <3>1
  <2> QED BY <2>1, <2>3, <2>4 DEF ReadTrue, BeforeTheReply
<1>8. CASE RecvEnd
  BY <1>8 DEF RecvEnd, ReadTrue, BeforeTheReply
<1>9. CASE RecvFails
  BY <1>9 DEF RecvFails, Leave, ReadTrue, BeforeTheReply
<1>10. CASE Parse
  <2>1. CASE got = 0
    BY <1>10, <2>1 DEF Parse, Leave, ReadTrue, BeforeTheReply
  <2>2. CASE got # 0
    <3>1. /\ net' = "leaving" /\ rc' = 0 /\ status' = reply.status /\ heard' = Decoded(reply, got)
          /\ UNCHANGED <<tls, timed, reply, got, hungup, landed>> /\ net = "parsing"
      BY <1>10, <2>2 DEF Parse, Leave
    <3>2. Decoded(reply, got) \in Seq(Bytes) /\ reply.status \in Statuses
      BY DecodedFront, HttpAssumption DEF ReadTrue
    <3> QED BY <3>1, <3>2 DEF ReadTrue, BeforeTheReply
  <2> QED BY <2>1, <2>2
<1>11. CASE CurlSucceeds
  <2>1. /\ net = "curl" /\ reply' \in Replies /\ landed' \in BOOLEAN
        /\ net' = "leaving" /\ rc' = 0 /\ status' = "2xx" /\ heard' = <<>>
        /\ UNCHANGED <<tls, timed, got, hungup>>
    BY <1>11 DEF CurlSucceeds, Leave
  <2>2. tls /\ got = 0
    BY <2>1 DEF StatusTrue, ReadTrue, BeforeTheReply
  <2>3. got' \in 0..Units(reply') /\ got' <= MaxReply
    BY <2>1, <2>2, NothingRead
  <2>4. heard' \in Seq(Bytes) /\ status' \in Statuses
    BY <2>1, EmptySeq DEF Statuses
  <2> QED BY <2>1, <2>2, <2>3, <2>4 DEF ReadTrue, BeforeTheReply
<1>12. CASE CurlFails
  BY <1>12 DEF CurlFails, Leave, ReadTrue, BeforeTheReply
<1>13. CASE Restore
  BY <1>13 DEF Restore, ReadTrue, BeforeTheReply
<1>14. CASE SendTimesOut
  BY <1>14 DEF SendTimesOut, Leave, ReadTrue, BeforeTheReply
<1>15. CASE RecvTimesOut
  BY <1>15 DEF RecvTimesOut, Leave, ReadTrue, BeforeTheReply
<1> QED BY <1>1, <1>2, <1>3, <1>4, <1>5, <1>6, <1>7, <1>8, <1>9, <1>10, <1>11, <1>12, <1>13,
           <1>14, <1>15 DEF Client, Own

LEMMA InitReadInv == Init => ReadInv
<1> SUFFICES ASSUME Init PROVE ReadInv
  OBVIOUS
<1>1. /\ tls \in BOOLEAN /\ timed = FALSE /\ reply \in Replies /\ got = 0 /\ hungup = FALSE /\ landed = FALSE
      /\ net = "idle" /\ rc = 0 /\ status = "none" /\ heard = <<>>
  BY DEF Init, HttpInit
<1>2. got \in 0..Units(reply) /\ got <= MaxReply
  BY <1>1, NothingRead
<1>3. heard \in Seq(Bytes)
  BY <1>1, EmptySeq
<1> QED BY <1>1, <1>2, <1>3 DEF ReadInv, HttpTypes, ReadTrue, BeforeTheReply

LEMMA StepReadInv == ReadInv /\ DInv /\ [Next]_vars => ReadInv'
<1> SUFFICES ASSUME ReadInv, DInv, [Next]_vars PROVE ReadInv'
  OBVIOUS
<1>1. CASE Client
  BY <1>1, ClientReads DEF DInv
<1>2. CASE Submitted
  <2>1. /\ net' = "idle" /\ timed' = FALSE /\ landed' = FALSE /\ got' = 0 /\ hungup' = FALSE
        /\ rc' = 0 /\ status' = "none" /\ heard' = <<>> /\ UNCHANGED <<tls, reply>>
    BY <1>2 DEF Submitted, HttpFree
  <2>2. got' \in 0..Units(reply') /\ got' <= MaxReply
    BY <2>1, NothingRead DEF ReadInv, HttpTypes
  <2>3. heard' \in Seq(Bytes)
    BY <2>1, EmptySeq
  <2> QED BY <2>1, <2>2, <2>3 DEF ReadInv, HttpTypes, ReadTrue, BeforeTheReply
<1>3. CASE Document
  <2>1. /\ at = "document" /\ net' \in {"called", net}
        /\ UNCHANGED <<tls, timed, reply, got, hungup, landed, rc, status, heard>>
    BY <1>3 DEF Document
  <2>2. net = "idle"
    BY <2>1 DEF DInv, Shape
  <2> QED BY <2>1, <2>2 DEF ReadInv, HttpTypes, ReadTrue, BeforeTheReply
<1>4. CASE UNCHANGED httpVars
  BY <1>4 DEF httpVars, ReadInv, HttpTypes, ReadTrue
<1>5. \/ Client \/ Submitted \/ Document \/ UNCHANGED httpVars
  BY DEF Next, Driver, MeasureThreads, MeasureCore, GiveUp, Emit, Uploading, NextVariant,
         Compare, Finish, ReaderLeaves, vars
<1> QED BY <1>1, <1>2, <1>3, <1>4, <1>5

\* http_post_json waits for no more than the framing of the reply declares, stops
\* no earlier unless the peer hung up or MAX_REPLY is reached, and hands on the
\* body as the hub sent it, up to a chunk larger than MAX_REPLY, whatever bytes it
\* is made of and however it is cut into chunks, of any sizes, and pieces on the
\* way: read_reply and parse_reply agree on where a chunked body ends, though
\* each walks the chunks for itself and only one of them knows of MAX_REPLY.
THEOREM ReplyIsRead == Spec => []ReplyRead
<1>1. Spec => []ReadInv
  BY InitReadInv, StepReadInv, DriverInductive, PTL DEF Spec
<1>2. ReadInv => ReplyRead
  <2>1. SUFFICES ASSUME ReadInv, net = "leaving", rc = 0, ~tls
                 PROVE  /\ IsPrefix(heard, Kept(reply))
                        /\ \/ heard = Kept(reply)
                           \/ hungup /\ got < Units(reply)
                           \/ got = MaxReply
    BY DEF ReadInv, ReadTrue, ReplyRead
  <2>2. /\ heard = Decoded(reply, got) /\ (hungup \/ Enough(reply, got))
        /\ reply \in Replies /\ got \in 0..Units(reply) /\ got <= MaxReply
    BY <2>1 DEF ReadInv, HttpTypes, ReadTrue
  <2>3. /\ IsPrefix(heard, Kept(reply))
        /\ got = Units(reply) \/ (Enough(reply, got) /\ ~(got >= MaxReply)) => heard = Kept(reply)
    BY <2>2, DecodedFront
  <2>4. Units(reply) \in Nat /\ MaxReply \in Nat
    BY <2>2, BodyLength, HttpAssumption
  <2> QED BY <2>2, <2>3, <2>4
<1> QED BY <1>1, <1>2, PTL

-----------------------------------------------------------------------------

\* No more errors than uploads there have been.
Counted ==
  /\ errors \in 0..(IF at \in Working THEN idx - 1 ELSE idx)
  /\ stored \subseteq 1..idx /\ exit \in {-1, 0, 1}

LEMMA StepCounted == Counted /\ DInv /\ [Next]_vars => Counted'
<1> SUFFICES ASSUME Counted, DInv, [Next]_vars PROVE Counted'
  OBVIOUS
<1>0. /\ idx \in Nat \ {0} /\ errors \in Nat /\ errors <= idx
      /\ at \in Working => errors <= idx - 1
  BY Bounds DEF DInv, Counted
<1>1. CASE Submitted
  <2>1. /\ at = "uploading" /\ errors' \in {errors, errors + 1} /\ at' = "next"
        /\ stored' \subseteq stored \cup {idx} /\ UNCHANGED <<idx, exit>>
    BY <1>1 DEF Submitted
  <2>2. errors' \in 0..idx
    BY <1>0, <2>1 DEF Working
  <2> QED BY <1>0, <2>1, <2>2 DEF Counted, Working
<1>2. CASE NextVariant
  <2>1. /\ at = "next" /\ idx' = idx + 1 /\ UNCHANGED <<errors, stored, exit>>
    BY <1>2 DEF NextVariant
  <2>2. idx' - 1 = idx /\ 1..idx \subseteq 1..idx'
    BY <1>0, <2>1
  <2> QED BY <1>0, <2>1, <2>2 DEF Counted
<1>3. ASSUME UNCHANGED <<idx, errors, stored>>, exit' \in {-1, 0, 1},
             at' \in Working => at \in Working
      PROVE  Counted'
  BY <1>0, <1>3 DEF Counted
<1>4. CASE \/ MeasureThreads \/ MeasureCore \/ GiveUp \/ Emit \/ Document
           \/ Uploading \/ Compare \/ Finish \/ ReaderLeaves \/ UNCHANGED vars
  <2>1. UNCHANGED <<idx, errors, stored>> /\ exit' \in {exit, 0, 1}
    BY <1>4 DEF MeasureThreads, MeasureCore, GiveUp, Emit, Document, Uploading, Compare,
                Finish, Exit, ReaderLeaves, vars, driverVars
  <2>2. at' \in Working => at \in Working
    <3>1. \/ at \in Working
          \/ at \in {"next", "finish"} /\ at' \in {"finish", "exited", "killed"}
          \/ at' = at
      BY <1>4, OutputGoes DEF MeasureThreads, MeasureCore, GiveUp, Emit, Document, Uploading,
           Compare, Finish, Exit, ReaderLeaves, vars, driverVars, Working
    <3> QED BY <3>1 DEF Working
  <2>3. exit' \in {-1, 0, 1}
    BY <2>1 DEF Counted
  <2> QED BY <1>3, <2>1, <2>2, <2>3
<1> QED BY <1>1, <1>2, <1>4 DEF Next, Driver

\* Every value a run keeps is one it can be: no more errors and stored runs than
\* variants, no more of a reply than the hub sent.
THEOREM TypeCorrect == Spec => []TypeOK
<1>1. Init => Counted
  <2>1. SUFFICES ASSUME Init PROVE Counted
    OBVIOUS
  <2>2. at \in Working /\ idx = 1 /\ errors = 0 /\ stored = {} /\ exit = -1
    BY <2>1 DEF Init, Begin, Working
  <2> QED BY <2>2 DEF Counted
<1>2. Spec => []Counted
  BY <1>1, StepCounted, DriverInductive, PTL DEF Spec
<1>3. Spec => []ReadInv
  BY InitReadInv, StepReadInv, DriverInductive, PTL DEF Spec
<1>4. ReadInv /\ DInv /\ PrintInv /\ Counted => TypeOK
  <2>1. SUFFICES ASSUME ReadInv, DInv, PrintInv, Counted PROVE TypeOK
    OBVIOUS
  <2>2. HttpTypeOK
    BY <2>1 DEF ReadInv, HttpTypes, HttpTypeOK, DInv, Shape, Transporting
  <2>3. options \in Options /\ idx \in 1..options.n_sel /\ options.n_sel \in 1..MaxVariants
    BY <2>1 DEF DInv, Shape, Options
  <2>4. MaxVariants \in Nat
    BY DriverAssumption
  <2>5. idx \in Nat /\ idx <= MaxVariants /\ 1..idx \subseteq 1..MaxVariants
    BY <2>3, <2>4
  <2>6. errors \in 0..MaxVariants
    BY <2>1, <2>4, <2>5 DEF Counted
  <2>7. stored \subseteq 1..MaxVariants /\ exit \in {-1, 0, 1}
    BY <2>1, <2>5 DEF Counted
  <2>8. core \in 0..Cores
    BY <2>1 DEF PrintInv, Typed, Within
  <2>9. at \in {"threads", "cores", "emit", "document", "uploading", "next", "finish",
                "exited", "failed", "killed"}
    BY <2>1 DEF DInv, Shape, Working, Ended
  <2> QED BY <2>2, <2>3, <2>6, <2>7, <2>8, <2>9 DEF TypeOK
<1> QED BY <1>2, <1>3, <1>4, DriverInductive, PrintsInOrder, PTL

=============================================================================
