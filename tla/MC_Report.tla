------------------------------- MODULE MC_Report -------------------------------
(***************************************************************************)
(* What stands behind a report, part by part: the timer, the kernels, the  *)
(* rows and the document, the binary's digest, the machine's description,  *)
(* the command line, the CPU of a row. A behaviour is of one part, and the *)
(* others stay where they begin: the program runs them one after another,  *)
(* and what one hands to the next is a constant here.                      *)
(***************************************************************************)
EXTENDS Timing, Workload, Results, BinaryDigest, Inventory, RunSetup, Placement, TLC

VARIABLE part

-----------------------------------------------------------------------------
(* Timer: fast and slow kernels, clocks finer and coarser than a batch. *)

TimedMachines == [cost : {1, 3, 30}, first : {0, 64}, tick : {1, 16}]

-----------------------------------------------------------------------------
(* Rows: every curve of three levels and some that measured nothing. *)

Rungs == <<1, 8, 16, 32, 64, 65536>>

Curves == {<<30, a, b, c, d, 10>> : a, b, c, d \in {10, 20, 30}}
OddCurves == {<<0, 0, 0, 0, 0, 0>>, <<10, 10, 10, 10, 10, 10>>, <<30, 10, 11, 10, 10, 10>>,
              <<30, 30, 0, 30, 10, 10>>, <<30, 30, 30, 30, 10, 0>>, <<30, 30, 30, 9, 8, 10>>}

Measured(lat, near, far, ladder, seen_, memory) ==
  [lat |-> lat, thr |-> 5, near |-> near, far |-> far, ladder |-> ladder,
   seen |-> seen_, dram |-> memory]

Threads == {Measured(2, 0, 0, <<3, 3, 3, 2, 1, 1>>, 0, 0),
            Measured(2, 60, 20, <<1, 1, 1, 1, 1, 1>>, 4, 7),
            Measured(2, 80, 40, <<0, 0, 0, 0, 0, 0>>, 0, 8),
            Measured(2, 80, 0, <<3, 3, 1, 1, 1, 1>>, 6, 0),
            Measured(3, 50, 40, <<2, 3, 3, 3, 3, 1>>, 3, 6)}
OnOneCore == {Measured(2, 60, 20, curve, 4, 7) : curve \in Curves \cup OddCurves} \cup Threads

\* A run of threads only, of cores only, of both, and of more than the hub
\* takes.
Halves == {<<3, 0>>, <<0, 2>>, <<2, 1>>, <<3, 1>>}
MeasuredSetups ==
  {s \in {[given |-> g, rated |-> r, threads |-> h[1], cpus |-> h[2]] :
            g \in {0, 9}, r \in {0, 8}, h \in Halves} :
     s.cpus > 0 => s.given = 0 /\ s.rated = 8}

-----------------------------------------------------------------------------
(* Digest: files around the sizes of a block and of a chunk. *)

Executables == {[i \in 1..n |-> i] : n \in {0, 5, 6, 7, 14, 33}} \cup {<<9, 9, 9>>}

-----------------------------------------------------------------------------
(* Description: names that begin others, two makers of Arm cores. *)

A5 == <<"Cortex-A", "5">>
A55 == <<"Cortex-A", "5", "5">>

Makers ==
  [maker \in {"0x41", "0x61"} |->
     IF maker = "0x41"
     THEN [vendor |-> "Arm", parts |-> [p \in {"5", "55"} |-> IF p = "5" THEN A5 ELSE A55]]
     ELSE [vendor |-> "Apple", parts |-> [p \in {"1"} |-> <<"M1">>]]]

Line(key, val) == [key |-> key, val |-> val, ends |-> TRUE]
Brand(name) == Line("model name", name)
Part(p) == Line("CPU part", <<p>>)
Maker(i) == Line("CPU implementer", <<i>>)
LongLine == [key |-> "flags", val |-> <<>>, ends |-> FALSE]
Soc == Line("Hardware", <<"SoC">>)
NoNames == {<<"aarch64">>}

ArmLines == {Brand(<<"aarch64">>), Maker("0x41"), Maker("0x61"),
             Part("5"), Part("55"), Part("1"), LongLine, Soc}
PcLines == {Brand(A5), Brand(A55), [Brand(A55) EXCEPT !.ends = FALSE], LongLine, Soc}

NoRegisters == [i \in {} |-> 0]
TwoClusters == [i \in {0, 3} |-> [impl |-> "0x41", part |-> IF i = 0 THEN "55" ELSE "5"]]

DescribedHosts ==
  [arm : {TRUE}, cpuinfo : SeqOf(ArmLines, 3) \cup {<<Maker("0x41")>> \o s : s \in [1..3 -> ArmLines]},
   present : {<<0, 1, 3>>, <<>>}, online : {2, 5}, midr : {NoRegisters, TwoClusters},
   board : {<<>>}]
  \cup [arm : {FALSE}, cpuinfo : SeqOf(PcLines, 3), present : {<<0>>}, online : {1}, midr : {NoRegisters},
        board : {<<>>, <<"Board">>}]

-----------------------------------------------------------------------------
(* Command lines: two options of every pair, and every short --cpus list. *)

\* Some are no ints where INT_MAX is 7, and 17 is LONG_MAX.
Numbers == [d \in {"0", "1", "3", "-1", "16", "17"} |->
              CASE d = "0" -> 0 [] d = "1" -> 1 [] d = "3" -> 3 [] d = "-1" -> -1 [] d = "16" -> 16 [] d = "17" -> 17]
Builds == <<"scalar-nofma", "vector-nofma", "scalar-fma">>

Opt(name, text) == [opt |-> name, num |-> 0, text |-> text]
Num(name, n) == [opt |-> name, num |-> n, text |-> <<>>]
Flag(name) == Opt(name, <<>>)

OptionWords ==
  {Opt("--variant", <<"vector-nofma">>), Opt("--variant", <<"bogus">>),
   Opt("--variants", <<"distinct">>), Opt("--variants", <<"all">>), Opt("--variants", <<>>),
   Opt("--variants", <<"scalar-fma", "vector-nofma">>),
   Num("--threads", 0), Num("--threads", 100), Num("--reps", 0),
   Flag("--per-core"), Flag("--full"), Flag("--disp-sweep"), Flag("--no-pin"),
   Num("--mem-per-thread", 5000), Num("--mem", 3000000), Num("--mem", 50), Flag("--no-mem"),
   Opt("--submit=", <<"my.server">>), Flag("--submit"), Opt("word", <<"https://b">>),
   Opt("--cpus", <<"1", "-", "3">>), Flag("show"), Flag("unknown")}

Site(n, caches, hub) == [cpus |-> n, caches |-> caches, hub |-> hub, affinity |-> n # 3]
Cache(n, unit) == [n |-> n, unit |-> unit]
SmallSite == Site(4, {}, "")
Sites == {SmallSite, Site(3, {Cache(32, "K"), Cache(8192, "K")}, "http://a"),
          Site(7, {Cache(64, "M"), Cache(512, "K"), Cache(4096, "")}, "my.server")}

\* A number stands behind a comma, behind the dash of a range, or first: another
\* dash in front of it is its sign.
Texts == {s \in SeqOf(DOMAIN Numbers \cup {"-", ","}, 5) :
            \A i \in 2..Len(s) : s[i] \in DOMAIN Numbers =>
              \/ s[i - 1] = ","
              \/ s[i - 1] = "-" /\ i > 2 /\ s[i - 2] \in DOMAIN Numbers}

CommandLines ==
  (SeqOf(OptionWords, 2) \X Sites) \cup {<<<<Opt("--cpus", text)>>, SmallSite>> : text \in Texts}

-----------------------------------------------------------------------------
(* Pinning: all of the machine allowed or part of it, one group or two. *)

Group(g, n) == {g} \X (0..(n - 1))
Pinning(system, groups, allowed, list, threads_, pin) ==
  [system |-> system, groups |-> groups, allowed |-> allowed, list |-> list,
   threads |-> threads_, pin |-> pin]

Pinnings ==
  {Pinning("linux", <<3>>, allowed, list, n, pin) :
     allowed \in {Group(1, 3), {<<1, 1>>, <<1, 2>>}}, list \in {<<0, 1>>, <<2>>},
     n \in {0, 3}, pin \in BOOLEAN}
  \cup {Pinning("windows", <<2, 3>>, allowed, list, 0, TRUE) :
          allowed \in {Group(1, 2) \cup Group(2, 3), {<<1, 1>>} \cup Group(2, 3)},
          list \in {<<0, 2>>, <<4, 1, 7>>}}
  \cup {Pinning("other", <<2>>, Group(1, 2), <<0, 1>>, n, FALSE) : n \in {0, 2}}

-----------------------------------------------------------------------------

\* Where a part stays while another is checked.
FirstMachine == CHOOSE m \in Machines : TRUE
FirstSetup   == CHOOSE s \in Setups : TRUE
FirstBinary  == CHOOSE b \in Binaries : TRUE
FirstHost    == CHOOSE h \in Hosts : TRUE
FirstCommand == CHOOSE c \in Commands : TRUE
FirstSweep   == CHOOSE s \in Sweeps : TRUE

TimingRest == TimingInit /\ machine = FirstMachine
ResultsRest == ResultsInit /\ setup = FirstSetup
DigestRest == DigestInit /\ running = FirstBinary /\ exe
InventoryRest == InventoryInit /\ host = FirstHost
SetupRest == SetupInit /\ <<argv, site>> = FirstCommand
PlacementRest == PlacementInit /\ sweep = FirstSweep

ReportInit ==
  \/ part = "timing" /\ WorkloadInit /\ ResultsRest /\ DigestRest /\ InventoryRest /\ SetupRest /\ PlacementRest
     /\ TimingInit
  \/ part = "workload" /\ TimingRest /\ ResultsRest /\ DigestRest /\ InventoryRest /\ SetupRest /\ PlacementRest
     /\ WorkloadInit
  \/ part = "results" /\ TimingRest /\ WorkloadInit /\ DigestRest /\ InventoryRest /\ SetupRest /\ PlacementRest
     /\ ResultsInit
  \/ part = "digest" /\ TimingRest /\ WorkloadInit /\ ResultsRest /\ InventoryRest /\ SetupRest /\ PlacementRest
     /\ DigestInit
  \/ part = "inventory" /\ TimingRest /\ WorkloadInit /\ ResultsRest /\ DigestRest /\ SetupRest /\ PlacementRest
     /\ InventoryInit
  \/ part = "setup" /\ TimingRest /\ WorkloadInit /\ ResultsRest /\ DigestRest /\ InventoryRest /\ PlacementRest
     /\ SetupInit
  \/ part = "placement" /\ TimingRest /\ WorkloadInit /\ ResultsRest /\ DigestRest /\ InventoryRest /\ SetupRest
     /\ PlacementInit

ReportNext ==
  \/ part = "timing"    /\ TimingNext    /\ UNCHANGED <<part, workload, results, digest, inventory, runsetup, placement>>
  \/ part = "workload"  /\ WorkloadNext  /\ UNCHANGED <<part, timing, results, digest, inventory, runsetup, placement>>
  \/ part = "results"   /\ ResultsNext   /\ UNCHANGED <<part, timing, workload, digest, inventory, runsetup, placement>>
  \/ part = "digest"    /\ DigestNext    /\ UNCHANGED <<part, timing, workload, results, inventory, runsetup, placement>>
  \/ part = "inventory" /\ InventoryNext /\ UNCHANGED <<part, timing, workload, results, digest, runsetup, placement>>
  \/ part = "setup"     /\ SetupNext     /\ UNCHANGED <<part, timing, workload, results, digest, inventory, placement>>
  \/ part = "placement" /\ PlacementNext /\ UNCHANGED <<part, timing, workload, results, digest, inventory, runsetup>>

\* The fairness of TimingSpec: a thread that measures is run.
ReportSpec ==
  /\ ReportInit
  /\ [][ReportNext]_<<part, timing, workload, results, digest, inventory, runsetup, placement>>
  /\ WF_timing(part = "timing" /\ TimingNext)

=============================================================================
