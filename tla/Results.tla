-------------------------------- MODULE Results --------------------------------
(***************************************************************************)
(* From what the workers measured to the document a hub stores: the        *)
(* dispatch ladder reduced to a span, the rows and their clocks, the total *)
(* over the threads, the sweep over the cores, the JSON cells              *)
(* (bench/src/bench.c), and the hub's check of the document against itself *)
(* (web/server.py, check_consistency).                                     *)
(*                                                                         *)
(* A number is a fraction <<a, b>>. A geometric mean is the sequence of    *)
(* the positive terms it is taken over. INT stands for INT, FP and MUL     *)
(* (and the bandwidth), which every line here treats alike; the six digits *)
(* a number is printed with, and the hub's tolerance of them, are left     *)
(* out.                                                                    *)
(***************************************************************************)
EXTENDS Integers, SequencesExt

CONSTANTS Ladder,         \* g_disp_ladder: the reference, the span, the floor
          PlateauPts,     \* DISP_PLATEAU_PTS
          Setups,         \* records [given, rated, threads, cpus]: --mhz, and
                          \* the clock the machine declares (0: none); the
                          \* threads and the CPUs to measure (0: not that half)
          ThreadWorkers,  \* what a thread may measure, and a core on its own:
          CoreWorkers,    \* records [lat, thr, near, far, ladder, seen, dram]
          MaxRecords      \* the hub's MAX_CORES

\* What a part of a worker measures may be missing; the compute kernels always
\* run.
WorkerOK(w) ==
  /\ w.lat \in Nat \ {0} /\ w.thr \in Nat \ {0}
  /\ w.near \in Nat /\ w.far \in Nat /\ w.seen \in Nat /\ w.dram \in Nat
  /\ w.ladder \in [1..Len(Ladder) -> Nat]

ASSUME ResultsAssumption ==
  /\ Ladder \in Seq(Nat) /\ PlateauPts \in 1..(Len(Ladder) - 2)
  /\ \A s \in Setups : /\ s.threads \in Nat /\ s.cpus \in Nat /\ s.threads + s.cpus > 0
                       /\ s.given \in Nat /\ s.rated \in Nat
  /\ \A w \in ThreadWorkers \cup CoreWorkers : WorkerOK(w)
  /\ MaxRecords \in Nat

VARIABLES setup,
          threads, cores,   \* suite_t: the rows of either half
          made,             \* history: what each of the cores' rows is made of
          total,
          dram,             \* <<dram_lo, dram_hi>>, or <<>>
          document          \* what was sent, or <<>>

results == <<setup, threads, cores, made, total, dram, document>>

Zero == <<0, 1>>
Whole(n) == <<n, 1>>
Plus(x, y) == <<x[1] * y[2] + y[1] * x[2], x[2] * y[2]>>
Over(x, y) == <<x[1] * y[2], x[2] * y[1]>>
AtMost(x, y) == x[1] * y[2] <= y[1] * x[2]
Same(x, y) == AtMost(x, y) /\ AtMost(y, x)
Positive(x) == x[1] > 0
SumOf(xs) == FoldLeft(Plus, Zero, xs)
Column(rows, field) == [i \in DOMAIN rows |-> rows[i][field]]

\* What was measured of these.
Keep(kept, x) == IF Positive(x) THEN Append(kept, x) ELSE kept
PositiveOnes(xs) == FoldLeft(Keep, <<>>, xs)

\* A ratio of two measurements, or zero where the lower one is missing.
Ratio(x, y) == IF Positive(y) THEN Over(x, y) ELSE Zero

-----------------------------------------------------------------------------
(* The dispatch ladder: a rate per entry of Ladder, zero if unmeasured. *)

Span == 2..(Len(Ladder) - 1)

\* Mutant: the first point of the span is the plateau, not the best of three.
FirstPoint(rates) == rates[2]

\* What everyone predicts: the best of the first points of the span.
Plateau(rates) == Max({rates[i] : i \in 2..(PlateauPts + 1)})

\* disp_summary. A rate lifts off when it is DISP_MIN_GAIN, 1.15, times the
\* floor. A capacity first * 2^(e - 1) is carried as its exponent e, and an
\* average of several as the sequence of theirs.
Dispatch(rates) ==
  LET top   == Plateau(rates)
      floor == rates[Len(Ladder)]
      Lifts(rate) == 100 * rate >= 115 * floor
      won   == [i \in Span |-> Min({Max({rates[i] - floor, 0}), top - floor})]
      span  == IF Lifts(top) THEN <<SumFunctionOnSet(won, Span), top - floor>> ELSE Zero
  IN IF floor = 0 \/ rates[1] = 0 \/ \E i \in 2..(PlateauPts + 1) : rates[i] = 0
     THEN [status |-> "unknown", thr |-> Zero, gain |-> Zero, span |-> Zero, caps |-> <<>>]
     ELSE IF ~Lifts(top) /\ ~Lifts(rates[1])
     THEN [status |-> "none", thr |-> Whole(top), gain |-> <<top, floor>>,
           span |-> Zero, caps |-> <<>>]
     ELSE [status |-> "measured", thr |-> Whole(top), gain |-> <<top, floor>>,
           span |-> span, caps |-> <<span>>]

\* disp_cap_str of one row: the ladder's ends have the exponents 1 and the
\* length of the span.
ShownCap(d) ==
  CASE d.status = "none"    -> "none"
    [] d.status = "unknown" -> "-"
    [] OTHER -> IF ~AtMost(Whole(1), d.caps[1]) THEN "below"
                ELSE IF AtMost(Whole(Cardinality(Span)), d.caps[1]) THEN "beyond"
                ELSE "within"

-----------------------------------------------------------------------------
(* A row. *)

\* The clock of a row and where it came from, by trust: 0 sampled under load,
\* 1 given, 2 rated, 3 estimated.
Clock(w) ==
  IF setup.given > 0 THEN [mhz |-> setup.given, src |-> 1]
  ELSE IF w.seen > 0 THEN [mhz |-> w.seen, src |-> 0]
  ELSE IF setup.rated > 0 THEN [mhz |-> setup.rated, src |-> 2]
  ELSE [mhz |-> w.lat, src |-> 3]

\* The components of core_score, and of machine_score over n threads.
Terms(r, n) ==
  <<r.thr,
    Over(r.disp.thr, <<1, 20>>),
    IF r.disp.status = "unknown" THEN Zero ELSE Over(Plus(r.disp.span, Whole(1)), <<1, 2000>>),
    IF Positive(r.far) THEN Over(Whole(100000 * n), r.far) ELSE Zero>>

\* geomean: terms that are not positive drop out.
Geomean(terms) == PositiveOnes(terms)

\* What is worked out from the rest of a row, last.
Derived(r, n) == [r EXCEPT !.ilp = Ratio(r.thr, r.lat), !.mlp = Ratio(r.near, r.far),
                           !.score = Geomean(Terms(r, n))]

Summarize(w, cpu) ==
  Derived([cpu |-> cpu, mhz |-> Whole(Clock(w).mhz), src |-> Clock(w).src,
           lat |-> Whole(w.lat), thr |-> Whole(w.thr),
           near |-> Whole(w.near), far |-> Whole(w.far),
           disp |-> Dispatch(w.ladder), ilp |-> Zero, mlp |-> Zero, score |-> <<>>], 1)

-----------------------------------------------------------------------------
(* The total of the threads. *)

\* Mutant: the average is over every thread, those too that measured nothing.
AverageOverAll(xs) == Over(SumOf(xs), Whole(Len(xs)))

\* The average of what was measured.
Average(xs) ==
  LET measured == PositiveOnes(xs)
  IN IF measured = <<>> THEN Zero ELSE Over(SumOf(measured), Whole(Len(measured)))

AggregateDispatch(ds) ==
  LET caps == FlattenSeq(Column(ds, "caps"))
      Mean(xs) == Over(SumOf(xs), Whole(Len(ds)))
  IN [status |-> IF \E i \in DOMAIN ds : ds[i].status = "measured" THEN "measured"
                 ELSE IF \E i \in DOMAIN ds : ds[i].status = "none" THEN "none"
                 ELSE "unknown",
      thr |-> SumOf(Column(ds, "thr")), gain |-> Mean(Column(ds, "gain")),
      span |-> Mean(Column(ds, "span")), caps |-> caps]

Aggregate(rows) ==
  Derived([cpu |-> -1, mhz |-> Average(Column(rows, "mhz")),
           src |-> Max({rows[i].src : i \in DOMAIN rows}),
           lat |-> SumOf(Column(rows, "lat")), thr |-> SumOf(Column(rows, "thr")),
           near |-> Average(Column(rows, "near")), far |-> Average(Column(rows, "far")),
           disp |-> AggregateDispatch(Column(rows, "disp")),
           ilp |-> Zero, mlp |-> Zero, score |-> <<>>], Len(rows))

\* note_dram of one more reading of the memory clock.
NoteDram(range, mhz) ==
  IF mhz = 0 THEN range
  ELSE IF range = <<>> THEN <<mhz, mhz>>
  ELSE <<Min({range[1], mhz}), Max({range[2], mhz})>>

-----------------------------------------------------------------------------
(* The document. *)

\* j_num: null for whatever is not there or not positive.
Cell(x) == IF Positive(x) THEN x ELSE <<>>

\* json_result
Sent(scope, r) ==
  [scope |-> scope, cpu |-> r.cpu, mhz |-> Cell(r.mhz),
   src |-> IF Positive(r.mhz) THEN r.src ELSE 4,
   lat |-> Cell(r.lat), thr |-> Cell(r.thr), ilp |-> Cell(r.ilp),
   near |-> Cell(r.near), far |-> Cell(r.far), mlp |-> Cell(r.mlp),
   dispThr |-> Cell(r.disp.thr), prediction |-> r.disp.status,
   span |-> IF r.disp.status = "unknown" THEN <<>> ELSE Cell(r.disp.span),
   score |-> r.score]

\* emit_json, emit_tsv: the threads and their total, then the cores.
Document ==
  [threads |-> setup.threads,
   records |-> [i \in DOMAIN threads |-> Sent("thread", threads[i])]
               \o (IF threads = <<>> THEN <<>> ELSE <<Sent("total", total)>>)
               \o [i \in DOMAIN cores |-> Sent("cpu", cores[i])]]

-----------------------------------------------------------------------------
(* The hub. *)

Number(cell) == IF cell = <<>> THEN Zero ELSE cell

\* Mutant: a span that is not there always means there was no measurement.
TermsOfPresent(r, n) ==
  <<Number(r.thr),
    Over(Number(r.dispThr), <<1, 20>>),
    IF r.span = <<>> THEN Zero ELSE Over(Plus(Number(r.span), Whole(1)), <<1, 2000>>),
    IF r.far # <<>> THEN Over(Whole(100000 * n), Number(r.far)) ELSE Zero>>

\* score_terms: what the score of a record should be the mean of.
ScoreTerms(r, n) ==
  <<Number(r.thr),
    Over(Number(r.dispThr), <<1, 20>>),
    IF r.prediction = "unknown" THEN Zero
    ELSE Over(Plus(Number(r.span), Whole(1)), <<1, 2000>>),
    IF r.far # <<>> THEN Over(Whole(100000 * n), Number(r.far)) ELSE Zero>>

\* check_consistency of one record.
Consistent(r, n) ==
  /\ Same(Number(r.ilp), Ratio(Number(r.thr), Number(r.lat)))
  /\ Same(Number(r.mlp), Ratio(Number(r.near), Number(r.far)))
  /\ LET want == Geomean(ScoreTerms(r, IF r.scope = "total" THEN n ELSE 1)) IN
     \/ r.scope = "total" /\ n = 0
     \/ Len(r.score) = Len(want) /\ \A i \in DOMAIN want : Same(r.score[i], want[i])

\* validate, once the document is the benchmark's.
Verdict(d) ==
  IF d.records = <<>> THEN "no results"
  ELSE IF Len(d.records) > MaxRecords THEN "too many records"
  ELSE IF \A i \in DOMAIN d.records : d.records[i].score = <<>> /\ d.records[i].thr = <<>>
  THEN "no usable measurements"
  ELSE IF \E i \in DOMAIN d.records : ~Consistent(d.records[i], d.threads)
  THEN "does not agree with itself"
  ELSE "stored"

-----------------------------------------------------------------------------

ResultsInit ==
  /\ setup \in Setups
  /\ threads = <<>> /\ cores = <<>> /\ made = <<>>
  /\ total = <<>> /\ dram = <<>> /\ document = <<>>

\* collect_threads, when every worker is back.
CollectThreads ==
  /\ threads = <<>> /\ setup.threads > 0
  /\ \E ws \in [1..setup.threads -> ThreadWorkers] :
       /\ threads' = [i \in DOMAIN ws |-> Summarize(ws[i], i)]
       /\ dram' = FoldLeft(NoteDram, <<>>, Column(ws, "dram"))
  /\ total' = Aggregate(threads')
  /\ UNCHANGED <<setup, cores, made, document>>

\* One turn of collect_per_core's loop: a CPU measured on its own.
CollectCore ==
  /\ Len(threads) = setup.threads /\ Len(cores) < setup.cpus
  /\ \E w \in CoreWorkers :
       /\ cores' = Append(cores, Summarize(w, Len(cores)))
       /\ made' = Append(made, w)
       /\ dram' = NoteDram(dram, w.dram)
  /\ UNCHANGED <<setup, threads, total, document>>

Emit ==
  /\ Len(threads) = setup.threads /\ Len(cores) = setup.cpus
  /\ document = <<>>
  /\ document' = Document
  /\ UNCHANGED <<setup, threads, cores, made, total, dram>>

ResultsNext == CollectThreads \/ CollectCore \/ Emit

ResultsSpec == ResultsInit /\ [][ResultsNext]_results

-----------------------------------------------------------------------------

\* "a change to the benchmark's formulas cannot quietly start refusing every
\* honest upload": whatever failed or came out at zero during a run, and in
\* whichever of its threads, the hub stores what the benchmark wrote; the one
\* thing it may not like is the number of records.
HonestUploadAccepted ==
  document # <<>> =>
    Verdict(document) \in
      {"stored"} \cup (IF Len(document.records) > MaxRecords THEN {"too many records"} ELSE {})

\* The rates of a core that predicts everything up to the k-th entry of the
\* ladder, and nothing beyond it.
Ideal(rates, k) ==
  /\ \A i \in 1..k : rates[i] = rates[1]
  /\ \A i \in (k + 1)..Len(Ladder) : rates[i] = rates[Len(Ladder)]
  /\ 100 * rates[1] >= 115 * rates[Len(Ladder)] /\ rates[Len(Ladder)] > 0

\* Two cores alike but for interference at points of the span that left the
\* plateau standing.
Disturbed(rates, quiet) ==
  /\ \A i \in Span : rates[i] <= quiet[i]
  /\ rates[1] = quiet[1] /\ rates[Len(Ladder)] = quiet[Len(Ladder)]
  /\ LET Best(r) == Max({r[i] : i \in 2..(PlateauPts + 1)}) IN Best(rates) = Best(quiet)

\* The capacity is what the curve says: an ideal core that predicts everything
\* up to a period of the span reads exactly that period; one that interference
\* slowed down at points of the span never reads a larger one, even where the
\* point was on the plateau; a curve that lifts off reads at least the first
\* period and at most the last; and the table says "none" or "-" just where
\* the document says none or unknown.
SpanReadsThePredictor ==
  \A i \in DOMAIN made :
    LET d == cores[i].disp IN
    /\ \A k \in Span : Ideal(made[i].ladder, k) => Same(d.caps[1], Whole(k - 1))
    /\ \A j \in DOMAIN made :
         Disturbed(made[i].ladder, made[j].ladder) =>
           \/ d.status = "unknown"
           \/ AtMost(d.span, cores[j].disp.span)
    /\ Positive(d.span) => AtMost(Whole(1), d.span) /\ AtMost(d.span, Whole(Cardinality(Span)))
    /\ ShownCap(d) = "none" <=> Sent("cpu", cores[i]).prediction = "none"
    /\ ShownCap(d) = "-" <=> Sent("cpu", cores[i]).prediction = "unknown"

Between(x, xs) ==
  \E i, j \in DOMAIN xs : AtMost(xs[i], x) /\ AtMost(x, xs[j])

\* The total stays within its rows whichever of them measured a thing: an
\* average or a ratio lies between the least and the greatest of those that
\* did, and is there when one is; the clock of the total is no better known
\* than the worst of the rows; the memory clock's range holds every core's.
TotalWithinRows ==
  /\ threads # <<>> =>
       /\ \A field \in {"mhz", "near", "far"} :
            LET measured == PositiveOnes(Column(threads, field))
            IN IF measured = <<>> THEN ~Positive(total[field])
               ELSE Between(total[field], measured)
       /\ Between(total.ilp, Column(threads, "ilp"))
       /\ (\A i \in DOMAIN threads : Positive(threads[i].near) /\ Positive(threads[i].far))
            => Between(total.mlp, Column(threads, "mlp"))
       /\ \A i \in DOMAIN threads : threads[i].src <= total.src
  /\ \A i \in DOMAIN made :
       made[i].dram > 0 => dram[1] <= made[i].dram /\ made[i].dram <= dram[2]

=============================================================================
