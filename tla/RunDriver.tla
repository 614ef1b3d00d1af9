------------------------------ MODULE RunDriver ------------------------------
(***************************************************************************)
(* A run of the benchmark as bench.c drives it: main measures the selected *)
(* variants in turn, and run_variant prints what each one measured and     *)
(* submits it.                                                             *)
(*                                                                         *)
(* What is printed goes through stdio's buffer to a reader that may leave  *)
(* (cpcpub --json | head). Uploads are those of module HttpClient. What is *)
(* measured is the business of module WorkerSuite: here a measurement      *)
(* succeeds or fails.                                                      *)
(***************************************************************************)
EXTENDS HttpClient

CONSTANTS MaxVariants,  \* N_VARIANTS
          Cores         \* n_cpus

ASSUME DriverAssumption == MaxVariants \in Nat \ {0} /\ Cores \in Nat \ {0}

VARIABLES options,   \* what main made of its arguments
          at,        \* where main and run_variant are
          idx,       \* the variant being measured
          core,      \* CPUs of the sweep that are done
          buffer, out,  \* printed and not yet written; written
          reader,    \* somebody reads standard output
          errors,    \* g_submit_errors
          stored,    \* history: the variants whose run a hub has
          exit       \* the exit status

driverVars == <<options, at, idx, core, buffer, out, reader, errors, stored, exit>>
vars == <<httpVars, driverVars>>

Options == [format : {"text", "json", "tsv"}, submit : BOOLEAN, n_sel : 1..MaxVariants,
            want_threads : BOOLEAN, want_cores : BOOLEAN]

\* --full wants both, --per-core the sweep only.
Valid(o) == o.want_threads \/ o.want_cores

\* What run_variant begins with.
Begin == IF options.want_threads THEN "threads" ELSE "cores"

Init ==
  /\ HttpInit
  /\ options \in {o \in Options : Valid(o)}
  /\ at = Begin /\ idx = 1 /\ core = 0
  /\ buffer = <<>> /\ out = <<>> /\ reader = TRUE
  /\ errors = 0 /\ stored = {} /\ exit = -1

-----------------------------------------------------------------------------
(* Printing. *)

Token(kind, v) == <<<<kind, v>>>>

\* stdio writes out what it likes of its buffer, and all of it when flushed;
\* writing to nobody raises SIGPIPE. Then the driver is at `next`.
Output(tokens, flush, next) ==
  LET all == buffer \o tokens IN
  \E k \in IF flush THEN {Len(all)} ELSE 0..Len(all) :
    /\ buffer' = SubSeq(all, k + 1, Len(all))
    /\ out' = IF reader THEN out \o SubSeq(all, 1, k) ELSE out
    /\ at' = IF k > 0 /\ ~reader /\ sigpipe = "default" THEN "killed" ELSE next

\* return from main, or exit(): stdio is flushed.
Exit(code, how) == Output(<<>>, TRUE, how) /\ exit' = code

ReaderLeaves ==
  /\ reader /\ reader' = FALSE
  /\ UNCHANGED <<httpVars, options, at, idx, core, buffer, out, errors, stored, exit>>

-----------------------------------------------------------------------------
(* run_variant. *)

AfterThreads == IF options.want_cores THEN "cores" ELSE "emit"
\* collect_threads; the totals are printed, and not flushed.
MeasureThreads ==
  /\ at = "threads"
  /\ Output(IF options.format = "text" THEN Token("total", idx) ELSE <<>>, FALSE, AfterThreads)
  /\ UNCHANGED <<httpVars, options, idx, core, reader, errors, stored, exit>>

\* collect_per_core, one CPU; its row is printed and flushed.
MeasureCore ==
  /\ at = "cores"
  /\ core' = core + 1
  /\ LET next == IF core' = Cores THEN "emit" ELSE "cores" IN
     IF options.format = "text"
     THEN Output(Token("core", idx), TRUE, next)
     ELSE at' = next /\ UNCHANGED <<buffer, out>>
  /\ UNCHANGED <<httpVars, options, idx, reader, errors, stored, exit>>

\* No memory, no thread, no room for the document: the run ends with 1.
GiveUp ==
  /\ at \in {"threads", "cores", "document"}
  /\ Exit(1, "failed")
  /\ UNCHANGED <<httpVars, options, idx, core, reader, errors, stored>>

\* The rows of emit_tsv, or the checksum of text; not flushed.
Rows == options.format = "tsv" \/ (options.format = "text" /\ options.want_threads)

Emit ==
  /\ at = "emit"
  /\ Output(IF Rows THEN Token("rows", idx) ELSE <<>>, FALSE,
           IF options.format = "json" \/ options.submit THEN "document" ELSE "next")
  /\ UNCHANGED <<httpVars, options, idx, core, reader, errors, stored, exit>>

Opening == IF options.n_sel = 1 THEN <<>>
           ELSE Token(IF idx = 1 THEN "[" ELSE ",", 0)

\* Mutant: the array is closed after the loop's last pass has begun.
ClosingEarly == IF options.n_sel > 1 /\ idx + 1 >= options.n_sel THEN Token("]", 0) ELSE <<>>

Closing == IF options.n_sel > 1 /\ idx = options.n_sel THEN Token("]", 0) ELSE <<>>

\* Mutant: the document is left in stdio's buffer.
DocumentUnflushed ==
  /\ at = "document"
  /\ LET next == IF options.submit THEN "uploading" ELSE "next" IN
     IF options.format = "json"
     THEN Output(Opening \o Token("doc", idx) \o Closing, FALSE, next)
     ELSE at' = next /\ UNCHANGED <<buffer, out>>
  /\ net' = IF at' = "uploading" THEN "called" ELSE net
  /\ UNCHANGED <<tls, sigpipe, timed, reply, got, hungup, landed, rc, status, heard,
                 options, idx, core, reader, errors, stored, exit>>

\* The document is built, printed and flushed if it is what was asked for,
\* and handed to submit_document.
Document ==
  /\ at = "document"
  /\ LET next == IF options.submit THEN "uploading" ELSE "next" IN
     IF options.format = "json"
     THEN Output(Opening \o Token("doc", idx) \o Closing, TRUE, next)
     ELSE at' = next /\ UNCHANGED <<buffer, out>>
  /\ net' = IF at' = "uploading" THEN "called" ELSE net
  /\ UNCHANGED <<tls, sigpipe, timed, reply, got, hungup, landed, rc, status, heard,
                 options, idx, core, reader, errors, stored, exit>>

\* A step of http_post_json; SIGPIPE would end more than that.
Uploading ==
  /\ at = "uploading"
  /\ Client
  /\ at' = IF net' = "killed" THEN "killed" ELSE at
  /\ UNCHANGED <<options, idx, core, buffer, out, reader, errors, stored, exit>>

\* Mutant: any answer at all is an upload.
UploadedAnyAnswer == rc = 0

\* submit_document: only a 2xx is.
UploadOK == rc = 0 /\ status = "2xx"

\* What http_post_json used is freed.
HttpFree ==
  /\ net' = "idle" /\ timed' = FALSE /\ landed' = FALSE
  /\ got' = 0 /\ hungup' = FALSE
  /\ rc' = 0 /\ status' = "none" /\ heard' = <<>>
  /\ UNCHANGED <<tls, sigpipe, reply>>

Submitted ==
  /\ at = "uploading" /\ net = "returned"
  /\ errors' = IF UploadOK THEN errors ELSE errors + 1
  /\ stored' = IF landed THEN stored \cup {idx} ELSE stored
  /\ at' = "next"
  /\ HttpFree
  /\ UNCHANGED <<options, idx, core, buffer, out, reader, exit>>

-----------------------------------------------------------------------------
(* main. *)

NextVariant ==
  /\ at = "next" /\ idx < options.n_sel
  /\ idx' = idx + 1 /\ core' = 0 /\ at' = Begin
  /\ UNCHANGED <<httpVars, options, buffer, out, reader, errors, stored, exit>>

\* The comparison of the variants.
Compare ==
  /\ at = "next" /\ idx = options.n_sel
  /\ Output(IF options.n_sel > 1 /\ options.format = "text" THEN Token("table", 0) ELSE <<>>,
           FALSE, "finish")
  /\ UNCHANGED <<httpVars, options, idx, core, reader, errors, stored, exit>>

Finish ==
  /\ at = "finish"
  /\ Exit(IF errors > 0 THEN 1 ELSE 0, "exited")
  /\ UNCHANGED <<httpVars, options, idx, core, reader, errors, stored>>

Driver ==
  \/ MeasureThreads \/ MeasureCore \/ GiveUp \/ Emit \/ Document
  \/ Uploading \/ Submitted
  \/ NextVariant \/ Compare \/ Finish

Next == Driver \/ ReaderLeaves

Spec == Init /\ [][Next]_vars

\* The program runs, and time passes; nothing is asked of the hub.
Program ==
  \/ MeasureThreads \/ MeasureCore \/ GiveUp \/ Emit \/ Document
  \/ Uploading /\ Own
  \/ Submitted \/ NextVariant \/ Compare \/ Finish

FairSpec == Spec /\ WF_vars(Program)

-----------------------------------------------------------------------------

TypeOK ==
  /\ HttpTypeOK
  /\ options \in Options
  /\ at \in {"threads", "cores", "emit", "document", "uploading", "next", "finish",
             "exited", "failed", "killed"}
  /\ idx \in 1..options.n_sel
  /\ core \in 0..Cores
  /\ errors \in 0..MaxVariants
  /\ stored \subseteq 1..MaxVariants
  /\ exit \in {-1, 0, 1}

\* What a reader who stays is to get for variant v, and for all of them.
VariantReport(v) ==
  IF options.format = "json"
  THEN (IF options.n_sel = 1 THEN <<>> ELSE Token(IF v = 1 THEN "[" ELSE ",", 0))
         \o Token("doc", v)
  ELSE (IF options.format = "text" /\ options.want_threads THEN Token("total", v) ELSE <<>>)
         \o (IF options.format = "text" /\ options.want_cores
             THEN FlattenSeq([c \in 1..Cores |-> Token("core", v)]) ELSE <<>>)
         \o (IF Rows THEN Token("rows", v) ELSE <<>>)

Report ==
  FlattenSeq([v \in 1..options.n_sel |-> VariantReport(v)])
    \o (IF options.n_sel = 1 \/ options.format = "tsv" THEN <<>>
        ELSE IF options.format = "json" THEN Token("]", 0) ELSE Token("table", 0))

\* http.c: a refused connection is "never a reason to lose a result". What is
\* printed is at all times the front of the report, an array of all the
\* documents, and all of it at the end of a run that could measure, whatever
\* became of its uploads.
ReportWhole ==
  reader =>
    /\ IsPrefix(out \o buffer, Report)
    /\ at = "exited" => out = Report

\* "The numbers are already on stdout by then": when a document goes out, it is
\* no longer in this process only.
PrintedFirst ==
  at = "uploading" /\ options.format = "json" /\ reader =>
    \E i \in 1..Len(out) : out[i] = <<"doc", idx>>

\* http.c, SIGPIPE: no upload takes the process with it, or "the variants
\* still to come would never be measured at all"; only a reader who left does,
\* and he still does between two uploads: "cpcpub --json | head should still
\* end when head does".
SigpipeScoped ==
  /\ at = "killed" => ~reader
  /\ at # "uploading" => sigpipe = "default"

\* main: "a script that submits wants to know". A run that exits with 0 has
\* every variant stored by the hub.
ExitMeansStored ==
  at = "exited" /\ exit = 0 /\ options.submit => stored = 1..options.n_sel

\* The same, over a socket.
SocketExitMeansStored ==
  at = "exited" /\ exit = 0 /\ options.submit /\ ~tls => stored = 1..options.n_sel

\* Whatever the hub does or leaves undone at any step of an upload, the run
\* comes to an end: each wait of http_post_json has its timeout.
DriverEnds == <>(at \in {"exited", "failed", "killed"})

=============================================================================
