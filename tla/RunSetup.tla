------------------------------- MODULE RunSetup -------------------------------
(***************************************************************************)
(* What main() does before it measures (bench/src/bench.c): the command    *)
(* line, one option at a time; the hub's address; the list of CPUs; the    *)
(* working set, from the cache the site has.                               *)
(*                                                                         *)
(* An option with the argument it takes is one word of argv, a record; a   *)
(* word of no option has opt = "word", and --submit takes it as its URL    *)
(* when it comes next. An argument is a number, num, or a text, tokens: a  *)
(* URL or a variant is one token. Sizes are bytes.                         *)
(***************************************************************************)
EXTENDS Integers, SequencesExt

CONSTANTS Commands,   \* pairs <<argv, host>>; a host is [cpus, caches, hub,
                      \* affinity]: CPUs online; sysfs' cache sizes [n, unit];
                      \* $CPCPUB_HUB or ""; PLAT_HAS_AFFINITY
          BuiltinHub, \* CPCPUB_HUB_URL
          WebUrls,    \* the URLs that begin with http:// or https://
          Variants,   \* g_variants, in order, the default first
          Distinct,   \* those the toggles change here
          ListSize,   \* ARRAY_LEN(cpu_list)
          NumberOf,   \* token of a list of CPUs -> the number strtol reads in it,
                      \* with its sign; the rest of a list is "-" and ","
          IntMax, LongMax, \* INT_MAX and LONG_MAX
          NeverEnds   \* what the build makes of a range up to LONG_MAX, where
                      \* the loop's variable overflows: TRUE if it goes on
                      \* until the table is full, FALSE if it counts

Page       == 4096
Megabyte   == 1048576
DefaultSet == 16 * Megabyte
ChaseMin   == 8 * 65536

Comma == ","
Dash  == "-"

Options ==
  {"--variant", "--variants", "--threads", "--reps", "--cpus", "--per-core", "--full", "--disp-sweep",
   "--no-pin", "--mem-per-thread", "--mem", "--no-mem", "--submit=", "--submit"}

\* What strtoull reads is no negative number; --variant names one.
WordOK(w) ==
  /\ w.opt \in Options \cup {"word", "show", "unknown"} /\ w.num \in Int
  /\ w.text \in Seq(ToSet(w.text))
  /\ w.opt \in {"--mem-per-thread", "--mem"} => w.num \in Nat
  /\ w.opt = "--variant" => Len(w.text) = 1

\* get_cpu_count says 1 where the system says less.
SiteOK(s) == s.cpus \in Nat \ {0} /\ IsFiniteSet(s.caches) /\ \A c \in s.caches : c.n \in Nat

\* What strtol reads has a sign or none, and ends before a comma or a dash.
NumbersOK ==
  /\ NumberOf \in [DOMAIN NumberOf -> Int] /\ DOMAIN NumberOf \cap {Comma, Dash} = {}
  /\ IntMax \in Nat /\ LongMax \in Nat /\ IntMax <= LongMax /\ NeverEnds \in BOOLEAN
  /\ \A d \in DOMAIN NumberOf : NumberOf[d] <= LongMax

ASSUME SetupAssumption ==
  /\ \A c \in Commands : c[1] \in Seq(ToSet(c[1])) /\ (\A w \in ToSet(c[1]) : WordOK(w)) /\ SiteOK(c[2])
  /\ Variants \in Seq(STRING) /\ Variants # <<>>
  /\ Distinct \subseteq ToSet(Variants) /\ Head(Variants) \in Distinct
  /\ ListSize \in Nat \ {0} /\ NumbersOK

VARIABLES argv, site,
          argi,       \* options read
          main,     \* its locals and the globals options set
          phase,    \* "options", "settle", "list", "size", "ready", "exit"
          mem,      \* [mt, pc]: the two working sets, or <<>> before
          warned    \* the working set was called too small

runsetup == <<argv, site, argi, main, phase, mem, warned>>

-----------------------------------------------------------------------------

Digits == DOMAIN NumberOf

\* No list: no int is greater than INT_MAX.
Bad == <<IntMax + 1>>

\* A long as an int keeps its lower bits.
AsInt(v) == ((v + IntMax + 1) % (2 * (IntMax + 1))) - (IntMax + 1)

\* Mutant: the end of a range is not in it.
ThroughExclusive(a, b) == [k \in 1..(IF a = b THEN 1 ELSE b - a) |-> AsInt(a + k - 1)]

Through(a, b) == [k \in 1..(b - a + 1) |-> AsInt(a + k - 1)]

\* The number at i of a list begins a range; the number that ends the item.
IsRange(spec, i) == i < Len(spec) /\ spec[i + 1] = Dash
LastNumber(spec, i) == IF IsRange(spec, i) THEN i + 2 ELSE i

\* What stands at i is a number or two, and then a comma or nothing.
Reads(spec, i) ==
  LET z == LastNumber(spec, i)
  IN /\ spec[i] \in Digits /\ z <= Len(spec) /\ spec[z] \in Digits
     /\ z = Len(spec) \/ spec[z + 1] = Comma

\* parse_cpu_list: From[i] is what the list says from i on; Bad where the code
\* returns -1, whichever of its reasons it meets first.
ParseCpuList(spec) ==
  LET From[i \in 1..(Len(spec) + 2)] ==
        IF i > Len(spec) THEN <<>>
        ELSE IF ~Reads(spec, i) THEN Bad
        ELSE LET a == NumberOf[spec[i]]
                 b == NumberOf[spec[LastNumber(spec, i)]]
                 rest == From[LastNumber(spec, i) + 2]
             IN IF \/ a < 0 \/ b < a \/ rest = Bad \/ (b - a + 1) + Len(rest) > ListSize
                   \/ b = LongMax /\ NeverEnds
                THEN Bad
                ELSE Through(a, b) \o rest
  IN From[1]

KeepDistinct(out, v) == IF v \in Distinct THEN Append(out, v) ELSE out

\* select_variants: <<>> where there are none or the list is refused.
SelectVariants(names) ==
  CASE names = <<"distinct">> -> FoldLeft(KeepDistinct, <<>>, Variants)
    [] names = <<"all">>      -> Variants
    [] OTHER -> IF Len(names) <= Len(Variants) /\ ToSet(names) \subseteq ToSet(Variants)
                THEN names ELSE <<>>

BytesOf(cache) == cache.n * (CASE cache.unit = "K" -> 1024 [] cache.unit = "M" -> Megabyte [] OTHER -> 1)

\* detect_llc_bytes: the largest cache named anywhere.
DetectLlc == Max({0} \cup {BytesOf(c) : c \in site.caches})

-----------------------------------------------------------------------------

SetupInit ==
  /\ \E c \in Commands : argv = c[1] /\ site = c[2]
  /\ argi = 0
  /\ main = [threads |-> site.cpus, cpus |-> <<>>, percore |-> FALSE, full |-> FALSE,
          sweep |-> FALSE, pin |-> TRUE, reps |-> 3, perthread |-> DefaultSet, total |-> 0,
          explicit |-> FALSE, sel |-> <<Head(Variants)>>, submit |-> FALSE, hub |-> "",
          status |-> -1]
  /\ phase = "options" /\ mem = <<>> /\ warned = FALSE

\* A message and a return: 0 for what was asked to be shown, 2 for the rest.
Exit(status) ==
  /\ phase' = "exit"
  /\ main' = [main EXCEPT !.status = status]
  /\ UNCHANGED <<argv, site, argi, mem, warned>>

Word == argv[argi + 1]
HasUrl == argi + 1 < Len(argv) /\ argv[argi + 2].opt = "word"

\* What an option that is taken does to the locals.
Taken ==
  CASE Word.opt = "--variant"        -> [main EXCEPT !.sel = Word.text]
    [] Word.opt = "--variants"       -> [main EXCEPT !.sel = SelectVariants(Word.text)]
    [] Word.opt = "--threads"        -> [main EXCEPT !.threads = Word.num]
    [] Word.opt = "--reps"           -> [main EXCEPT !.reps = Word.num]
    [] Word.opt = "--cpus"           -> [main EXCEPT !.cpus = ParseCpuList(Word.text)]
    [] Word.opt = "--per-core"       -> [main EXCEPT !.percore = TRUE]
    [] Word.opt = "--full"           -> [main EXCEPT !.full = TRUE]
    [] Word.opt = "--disp-sweep"     -> [main EXCEPT !.sweep = TRUE]
    [] Word.opt = "--no-pin"         -> [main EXCEPT !.pin = FALSE]
    [] Word.opt = "--mem-per-thread" -> [main EXCEPT !.perthread = Word.num, !.explicit = TRUE]
    [] Word.opt = "--mem"            -> [main EXCEPT !.total = Word.num, !.explicit = TRUE]
    [] Word.opt = "--no-mem"         -> [main EXCEPT !.perthread = 0, !.total = 0, !.explicit = TRUE]
    [] Word.opt = "--submit="        -> [main EXCEPT !.submit = TRUE, !.hub = Word.text[1]]
    [] Word.opt = "--submit"         -> [main EXCEPT !.submit = TRUE,
                                                  !.hub = IF HasUrl THEN argv[argi + 2].text[1] ELSE main.hub]

Refused ==
  \/ Word.opt \in {"word", "unknown"}
  \/ Word.opt = "--variant" /\ Word.text[1] \notin ToSet(Variants)
  \/ Word.opt = "--variants" /\ SelectVariants(Word.text) = <<>>
  \/ Word.opt = "--cpus" /\ ParseCpuList(Word.text) \in {<<>>, Bad}

\* One turn of the loop over argv.
TakeOption ==
  /\ phase = "options" /\ argi < Len(argv) /\ Word.opt # "show" /\ ~Refused
  /\ main' = Taken
  /\ argi' = IF Word.opt = "--submit" /\ HasUrl THEN argi + 2 ELSE argi + 1
  /\ UNCHANGED <<argv, site, phase, mem, warned>>

RefuseOption == phase = "options" /\ argi < Len(argv) /\ Refused /\ Exit(2)

\* --list-variants, --version, --help
ShowAndStop == phase = "options" /\ argi < Len(argv) /\ Word.opt = "show" /\ Exit(0)

\* The flag, then the environment, then the build's default.
Hub == CASE main.hub # "" -> main.hub [] main.hub = "" /\ site.hub # "" -> site.hub [] OTHER -> BuiltinHub

Unusable ==
  \/ main.submit /\ (Hub \notin WebUrls \/ main.sweep)
  \/ main.sweep /\ Len(main.sel) > 1

\* After the loop: the clamps, the address, pinning where it can be had.
Settle ==
  /\ phase = "options" /\ argi = Len(argv) /\ ~Unusable
  /\ main' = [main EXCEPT !.threads = Max({1, @}), !.reps = Max({1, @}),
                    !.hub = IF main.submit THEN Hub ELSE @,
                    !.pin = @ /\ site.affinity]
  /\ phase' = "list"
  /\ UNCHANGED <<argv, site, argi, mem, warned>>

Unsettled == phase = "options" /\ argi = Len(argv) /\ Unusable /\ Exit(2)

\* The CPU list, where --cpus gave none.
DefaultList ==
  LET want == IF main.percore \/ main.full \/ main.sweep THEN site.cpus ELSE main.threads
  IN [i \in 1..Min({want, ListSize}) |-> i - 1]

ListCpus ==
  /\ phase = "list"
  /\ main' = [main EXCEPT !.cpus = IF @ = <<>> THEN DefaultList ELSE @]
  /\ phase' = "size"
  /\ UNCHANGED <<argv, site, argi, mem, warned>>

WholePages(n) == n - (n % Page)
AtLeastAMegabyte(n) == IF n > 0 THEN Max({n, Megabyte}) ELSE n

\* Mutant: one core is given one thread's share of the cache.
SizesShared(llc) ==
  LET share == (llc * 4) \div main.threads
      asked == IF main.explicit THEN main.perthread ELSE Max({main.perthread, share})
  IN IF main.total > 0 THEN [mt |-> main.total \div main.threads, pc |-> main.total]
     ELSE [mt |-> asked, pc |-> asked]

\* The working set of a thread and that of a core on its own, before the
\* floor and the rounding: four times the cache, shared or not.
Sizes(llc) ==
  LET share == (llc * 4) \div main.threads IN
  IF main.total > 0 THEN [mt |-> main.total \div main.threads, pc |-> main.total]
  ELSE IF main.explicit THEN [mt |-> main.perthread, pc |-> main.perthread]
  ELSE [mt |-> Max({main.perthread, share}), pc |-> Max({main.perthread, llc * 4})]

\* warn_if_working_set_small, of a size and what it is shared by
Small(size, threads) == size > 0 /\ DetectLlc > 0 /\ size * threads < DetectLlc * 2

SizeMemory ==
  /\ phase = "size"
  /\ LET s == Sizes(DetectLlc)
         m == [mt |-> WholePages(AtLeastAMegabyte(s.mt)), pc |-> WholePages(AtLeastAMegabyte(s.pc))]
     IN /\ mem' = m
        /\ warned' = IF main.percore THEN Small(m.pc, 1) ELSE Small(m.mt, main.threads)
  /\ phase' = "ready"
  /\ UNCHANGED <<argv, site, argi, main>>

SetupNext ==
  \/ TakeOption \/ RefuseOption \/ ShowAndStop
  \/ Settle \/ Unsettled
  \/ ListCpus
  \/ SizeMemory

SetupSpec == SetupInit /\ [][SetupNext]_runsetup

-----------------------------------------------------------------------------

\* The last word of argv with one of these options.
LastOf(opts) ==
  LET where == {i \in DOMAIN argv : argv[i].opt \in opts}
  IN IF where = {} THEN <<>> ELSE <<argv[Max(where)]>>

\* Where the items of a --cpus list begin: a comma that ends it begins none.
Starts(spec) == {s \in 1..Len(spec) : s = 1 \/ spec[s - 1] = Comma}

\* The item that begins at s: what stands there up to the next comma.
NextComma(spec, s) == Min({c \in s..Len(spec) : spec[c] = Comma} \cup {Len(spec) + 1})
ItemAt(spec, s) == SubSeq(spec, s, NextComma(spec, s) - 1)

IsItem(item) ==
  LET z == Len(item)
  IN /\ z = 1 \/ (z = 3 /\ item[2] = Dash)
     /\ item[1] \in Digits /\ item[z] \in Digits
     /\ 0 <= NumberOf[item[1]] /\ NumberOf[item[1]] <= NumberOf[item[z]]

\* Every number of the list is an int, and below LONG_MAX.
NamesInts(spec) ==
  \A i \in DOMAIN spec : spec[i] \in Digits => NumberOf[spec[i]] <= IntMax /\ NumberOf[spec[i]] < LongMax

\* How many CPUs it names.
CountOf(item) == NumberOf[item[Len(item)]] - NumberOf[item[1]] + 1

\* list is what spec says: the CPUs of each item, one after the other, behind
\* those of the items before it, and no more than that.
Means(spec, list) ==
  LET counts == [s \in Starts(spec) |-> CountOf(ItemAt(spec, s))]
      Before(s) == SumFunctionOnSet(counts, {r \in Starts(spec) : r < s})
  IN /\ \A s \in Starts(spec) : IsItem(ItemAt(spec, s))
     /\ Len(list) = Before(Len(spec) + 1)
     /\ \A s \in Starts(spec) : \A k \in 1..counts[s] :
          list[Before(s) + k] = NumberOf[spec[s]] + k - 1

\* A run that begins is the one the command line describes: the CPUs a list of
\* ints names, in its order, or one per thread or core, and never none, since
\* the workers are dealt out modulo their number; the variants that were last
\* asked for, each one this binary carries, no more than their table holds;
\* and with --submit an address known to be a URL before a minute is spent
\* measuring. A list that means nothing starts no run.
RunAsAsked ==
  phase = "ready" =>
    LET lists == LastOf({"--cpus"})  kinds == LastOf({"--variant", "--variants"}) IN
    /\ IF lists # <<>> THEN NamesInts(lists[1].text) => Means(lists[1].text, main.cpus)
       ELSE main.cpus = [i \in 1..Min({ListSize, IF main.percore \/ main.full \/ main.sweep
                                                  THEN site.cpus ELSE main.threads}) |-> i - 1]
    /\ Len(main.cpus) \in 1..ListSize /\ main.threads >= 1
    /\ ToSet(main.sel) \subseteq ToSet(Variants) /\ Len(main.sel) \in 1..Len(Variants)
    /\ kinds # <<>> /\ kinds[1].opt = "--variant" => main.sel = kinds[1].text
    /\ main.sweep => Len(main.sel) = 1 /\ ~main.submit
    /\ main.submit => main.hub \in WebUrls

\* Left to itself the program never measures a cache for DRAM: whatever the
\* cache and the threads, the default working sets are twice the cache or
\* more, all threads together and one core on its own, without a warning; and
\* every size that leaves main is whole pages and holds the eight chases.
SizedForDram ==
  phase = "ready" =>
    /\ \A n \in {mem.mt, mem.pc} : (n % Page) = 0 /\ (n = 0 \/ n >= ChaseMin)
    /\ ~main.explicit => /\ mem.mt >= ChaseMin /\ mem.pc >= ChaseMin
                         /\ mem.mt * main.threads >= 2 * DetectLlc
                         /\ mem.pc >= 2 * DetectLlc
                         /\ ~warned

=============================================================================
