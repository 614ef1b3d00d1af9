------------------------------- MODULE Inventory -------------------------------
(***************************************************************************)
(* What a Linux machine says it is (bench/src/bench.c, detect_cpu_models   *)
(* and below): /proc/cpuinfo read chunk by chunk, the Arm implementer and  *)
(* part numbers, the register files of sysfs, the device tree's board.     *)
(*                                                                         *)
(* A name is a sequence of tokens, so that one can be the beginning of     *)
(* another; the list of names is what the code keeps, one sequence with    *)
(* separators in it. A file is the sequence of chunks fgets makes of it:   *)
(* the keys are what is told apart, and `ends` says that a chunk ends in   *)
(* its line's newline.                                                     *)
(***************************************************************************)
EXTENDS Integers, SequencesExt

CONSTANTS Hosts,     \* records [arm, cpuinfo, present, online, midr, board]:
                     \* the chunks; the CPU numbers of sysfs, or <<>> where
                     \* there is no list parse_cpu_list takes; how many CPUs
                     \* are online; the registers that can be read; the device
                     \* tree's model, or <<>>
          MaxCpus,   \* ARRAY_LEN(cpus)
          Separator,
          Implementers,  \* midr_impls: implementer -> [vendor, parts]
          ArmLtd,        \* 0x41, whose part numbers name the vendor
          Generic,       \* names that only restate the architecture
          NameSpace      \* sizeof(models) - 1, in tokens

IsSeq(s) == s \in Seq(ToSet(s))
IsName(n) == IsSeq(n) /\ n # <<>> /\ Separator \notin ToSet(n)

\* A line with a key and no value is none of the keys: the code skips it. There
\* are register files for CPUs that are present only, so that a list of those
\* names them all.
HostOK(h) ==
  /\ h.arm \in BOOLEAN /\ IsSeq(h.cpuinfo) /\ IsSeq(h.present)
  /\ \A c \in ToSet(h.cpuinfo) :
       /\ c.ends \in BOOLEAN
       /\ c.key \in {"model name", "Hardware"} => IsName(c.val)
       /\ c.key \in {"CPU implementer", "CPU part"} => c.val[1] \notin {"", Separator}
  /\ h.online \in Nat \ {0}
  /\ h.present # <<>> => DOMAIN h.midr \subseteq ToSet(h.present)
  /\ \A id \in DOMAIN h.midr : Separator \notin {h.midr[id].impl, h.midr[id].part}

ASSUME InventoryAssumption ==
  /\ NameSpace \in Nat \ {0} /\ MaxCpus \in Nat \ {0}
  /\ ArmLtd \in DOMAIN Implementers /\ Separator \notin {"impl", "part"}
  /\ \A v \in Range(Implementers) : v.vendor # Separator /\ \A p \in DOMAIN v.parts : IsName(v.parts[p])
  /\ \A h \in Hosts : HostOK(h)

VARIABLES host,
          chunk,         \* chunks read so far
          continuation,  \* the last one did not end its line
          impl,          \* the implementer above, or "": have_impl
          models, midrs, platform,
          cpu,           \* registers read so far
          described,     \* the string that goes into the document
          stage          \* "cpuinfo", "sysfs", "describe" or "named"

inventory == <<host, chunk, continuation, impl, models, midrs, platform, cpu,
               described, stage>>

InventoryInit ==
  /\ host \in Hosts
  /\ chunk = 0 /\ continuation = FALSE /\ impl = ""
  /\ models = <<>> /\ midrs = <<>> /\ platform = <<>>
  /\ cpu = 0 /\ described = <<>> /\ stage = "cpuinfo"

-----------------------------------------------------------------------------

\* The names of a list: what is between two separators.
Elements(list) ==
  LET cuts == {0, Len(list) + 1} \cup {i \in DOMAIN list : list[i] = Separator}
      gaps == {p \in cuts \X cuts : p[1] < p[2] /\ \A c \in cuts : ~(p[1] < c /\ c < p[2])}
  IN IF list = <<>> THEN {} ELSE {SubSeq(list, p[1] + 1, p[2] - 1) : p \in gaps}

Joined(list, name) == IF list = <<>> THEN name ELSE list \o <<Separator>> \o name

\* Mutant: a name is taken as there when it is part of one that is.
AddedUnlessPart(list, name) ==
  IF name = <<>> \/ \E i \in 1..Len(list), j \in 0..Len(list) : SubSeq(list, i, j) = name THEN list
  ELSE Joined(list, name)

\* models_add: not twice, whole elements compared; what there is no room for
\* is cut off.
Added(list, name) ==
  IF name = <<>> \/ name \in Elements(list) \/ Len(list) + 1 > NameSpace THEN list
  ELSE SubSeq(Joined(list, name), 1, Min({NameSpace, Len(Joined(list, name))}))

\* midr_name
MidrName(pair) ==
  IF pair.impl \notin DOMAIN Implementers THEN <<"impl", pair.impl, "part", pair.part>>
  ELSE LET v == Implementers[pair.impl] IN
       IF pair.part \notin DOMAIN v.parts THEN <<v.vendor, "part", pair.part>>
       ELSE IF pair.impl = ArmLtd \/ v.parts[pair.part][1] = v.vendor THEN v.parts[pair.part]
       ELSE <<v.vendor>> \o v.parts[pair.part]

-----------------------------------------------------------------------------

\* One fgets: the tail of a line that outran the buffer is skipped.
ReadCpuinfo ==
  /\ stage = "cpuinfo" /\ chunk < Len(host.cpuinfo)
  /\ LET c == host.cpuinfo[chunk + 1]  Says(key) == ~continuation /\ c.key = key IN
     /\ models' = IF Says("model name") /\ c.val \notin Generic
                  THEN Added(models, c.val) ELSE models
     /\ platform' = IF Says("Hardware") /\ platform = <<>> THEN c.val ELSE platform
     /\ impl' = IF host.arm /\ Says("CPU implementer") THEN c.val[1] ELSE impl
     /\ midrs' = IF host.arm /\ Says("CPU part") /\ impl # ""
                 THEN Added(midrs, MidrName([impl |-> impl, part |-> c.val[1]])) ELSE midrs
     /\ continuation' = ~c.ends
  /\ chunk' = chunk + 1
  /\ UNCHANGED <<host, cpu, described, stage>>

CpuinfoOver ==
  /\ stage = "cpuinfo" /\ chunk = Len(host.cpuinfo)
  /\ stage' = IF host.arm /\ midrs = <<>> THEN "sysfs" ELSE "describe"
  /\ UNCHANGED <<host, chunk, continuation, impl, models, midrs, platform, cpu, described>>

\* The CPUs midr_from_sysfs asks for: those that are present, online or not; or
\* else, where nothing says which are, as many as are online, from 0 on.
CpusRead ==
  LET n == Min({host.online, MaxCpus})
  IN IF host.present # <<>> THEN host.present ELSE [k \in 1..n |-> k - 1]

\* One turn of its loop.
ReadRegister ==
  /\ stage = "sysfs" /\ cpu < Len(CpusRead)
  /\ LET id == CpusRead[cpu + 1] IN
     midrs' = IF id \in DOMAIN host.midr THEN Added(midrs, MidrName(host.midr[id])) ELSE midrs
  /\ cpu' = cpu + 1
  /\ UNCHANGED <<host, chunk, continuation, impl, models, platform, described, stage>>

RegistersOver ==
  /\ stage = "sysfs" /\ cpu = Len(CpusRead)
  /\ stage' = "describe"
  /\ UNCHANGED <<host, chunk, continuation, impl, models, midrs, platform, cpu, described>>

\* The brand names, or else the Arm ones; the board in parentheses.
Describe ==
  /\ stage = "describe"
  /\ LET cores == IF models = <<>> THEN midrs ELSE models
         board == IF host.board = <<>> THEN platform ELSE host.board
     IN described' = [cores |-> cores, board |-> board]
  /\ stage' = "named"
  /\ UNCHANGED <<host, chunk, continuation, impl, models, midrs, platform, cpu>>

InventoryNext ==
  ReadCpuinfo \/ CpuinfoOver \/ ReadRegister \/ RegistersOver \/ Describe

InventorySpec == InventoryInit /\ [][InventoryNext]_inventory

-----------------------------------------------------------------------------

\* The lines of the file a key can stand on: chunks that begin one.
Lines == {i \in DOMAIN host.cpuinfo : i = 1 \/ host.cpuinfo[i - 1].ends}

Values(key) == {i \in Lines : host.cpuinfo[i].key = key}

\* The part on line i is of the last implementer above it.
PairAt(i) ==
  [impl |-> host.cpuinfo[Max({j \in Values("CPU implementer") : j < i})].val[1],
   part |-> host.cpuinfo[i].val[1]]

BrandNames == {host.cpuinfo[i].val : i \in Values("model name")} \ Generic

PartNames ==
  {MidrName(PairAt(i)) : i \in {i \in Values("CPU part") : \E j \in Values("CPU implementer") : j < i}}

\* Without a list of the CPUs that are present, a register counts if its CPU's
\* number is one of the first, as many as are online.
RegisterNames ==
  LET Counts(id) == host.present # <<>> \/ id \in 0..(Min({host.online, MaxCpus}) - 1)
  IN {MidrName(host.midr[id]) : id \in {id \in DOMAIN host.midr : Counts(id)}}

\* Every kind of core of the machine is named once, none that it has not: by
\* its brand, or else by the implementer and part of its own processor entry,
\* or else by its register, whether it is online or not (where the list of the
\* CPUs present cannot be read, a core numbered beyond the count of those online
\* goes unnamed); a name that is the beginning of another is not lost to it, and
\* the tail of a long line names nothing. The board is there if the device tree
\* or a Hardware line has it.
NamesEveryCore ==
  stage = "named" =>
    LET expected == IF BrandNames # {} THEN BrandNames
                    ELSE IF ~host.arm THEN {}
                    ELSE IF PartNames # {} THEN PartNames
                    ELSE RegisterNames
        list  == described.cores
        whole == Len(list) < NameSpace
    IN /\ whole => Elements(list) = expected
       /\ whole /\ list # <<>> =>
            Cardinality({i \in DOMAIN list : list[i] = Separator}) + 1 = Cardinality(expected)
       /\ described.board = <<>> <=> host.board = <<>> /\ Values("Hardware") = {}

=============================================================================
