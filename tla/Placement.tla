------------------------------ MODULE Placement ------------------------------
(***************************************************************************)
(* elgate-core/src/arch: CpuInfo::detect with parse_cpu_list,               *)
(* RuntimeMode::select_for_system, get_core_for_worker, ThreadBuilder::build *)
(* and pin_thread_to_core.  The builder numbers its workers; every worker   *)
(* pins itself when its thread first runs, in any order and after build has *)
(* returned.                                                                *)
(*                                                                          *)
(* A machine is what the code can ask the operating system: the cores of    *)
(* each NUMA node in the order in which read_dir gives the nodes, the nodes *)
(* that have a cpulist file, whether sysfs can be read, the cores the       *)
(* process may use, and the limit a cgroup puts on their number.            *)
(***************************************************************************)
EXTENDS Integers, FiniteSets, SequencesExt

CONSTANTS
  Machines,
  WorkerCounts, \* worker_count of modes that callers choose themselves
  MaxIdx        \* bound: workers a builder has numbered

ASSUME PlacementAssumption ==
  /\ \A m \in Machines :
       /\ m.nodes \in Seq(SUBSET Nat) /\ \A i \in DOMAIN m.nodes : IsFiniteSet(m.nodes[i])
       /\ m.allowed # {} /\ m.allowed \subseteq UNION Range(m.nodes)
       /\ m.listed \subseteq DOMAIN m.nodes /\ m.sysfs \in BOOLEAN /\ m.quota \in Nat \ {0}
       /\ \A i, j \in DOMAIN m.nodes : i # j => m.nodes[i] \cap m.nodes[j] = {}
  /\ WorkerCounts \subseteq Nat \ {0} /\ MaxIdx \in Nat

VARIABLES
  machine,
  cpuInfo,    \* what detect found: logical_cores, numa_nodes, numa_available
  mode,       \* RuntimeMode with its worker_count
  workerIdx,  \* ThreadBuilder.worker_idx
  workers     \* threads built: number, core asked for, what build reported, result and cores

builder == <<cpuInfo, mode, workerIdx>>
vars    == <<machine, builder, workers>>

NotYet  == [kind |-> "NotYet"]
NoCore  == -1
Kinds   == {"SingleThread", "PinnedSharded", "ForcedSingle", "TestStub"}
Results == {"Starting", "Success", "SuccessDifferentCore", "Unsupported", "Failed"}

Init ==
  /\ machine \in Machines
  /\ cpuInfo = NotYet /\ mode = NotYet
  /\ workerIdx = 0 /\ workers = <<>>

\* A set of numbers in ascending order: element i is the one with i elements up to it.
Sorted(S) ==
  [i \in 1..Cardinality(S) |-> CHOOSE x \in S : Cardinality({y \in S : y <= x}) = i]

-----------------------------------------------------------------------------
(* Detection.                                                               *)

\* The first core of each maximal range of a set of cores, and the last core of the
\* range that begins with a.
Starts(S)    == {a \in S : a - 1 \notin S}
LastOf(S, a) == CHOOSE b \in S : a <= b /\ a..b \subseteq S /\ b + 1 \notin S

\* A cpulist as the kernel prints it: the maximal ranges of the set in ascending
\* order, a range of one core as its number alone.  A node without cores has one
\* empty part.
CpuList(S) ==
  LET starts == Sorted(Starts(S))
  IN IF S = {} THEN << <<>> >>
     ELSE [i \in DOMAIN starts |->
             IF LastOf(S, starts[i]) = starts[i] THEN <<starts[i]>>
             ELSE <<starts[i], LastOf(S, starts[i])>>]

\* A range that leaves out its end.
ParsePartHalfOpen(part) ==
  IF Len(part) = 2 THEN [i \in 1..(part[2] - part[1]) |-> part[1] + i - 1]
  ELSE IF Len(part) = 1 THEN part ELSE <<>>

\* start..=end, one core, or nothing when the part is no number.
ParsePart(part) ==
  IF Len(part) = 2 THEN [i \in 1..(part[2] - part[1] + 1) |-> part[1] + i - 1]
  ELSE IF Len(part) = 1 THEN part ELSE <<>>

ParseCpuList(list) == FlattenSeq([i \in DOMAIN list |-> ParsePart(list[i])])

\* num_cpus::get: the cores the process may use, at most the cgroup's limit.
LogicalCores == LET n == Cardinality(machine.allowed)
                IN IF machine.quota < n THEN machine.quota ELSE n

\* The listed nodes in the order of the directory.
DetectNumaLinux ==
  LET order == Sorted(machine.listed)
  IN [i \in DOMAIN order |-> ParseCpuList(CpuList(machine.nodes[order[i]]))]

\* sysfs cannot be read, or holds no node: one node with all cores.
Fallback == << [i \in 1..LogicalCores |-> i - 1] >>

Detect ==
  /\ cpuInfo = NotYet
  /\ LET numa == machine.sysfs /\ machine.listed # {}
     IN cpuInfo' = [kind |-> "CpuInfo", logical |-> LogicalCores, numa |-> numa,
                    nodes |-> IF numa THEN DetectNumaLinux ELSE Fallback]
  /\ UNCHANGED <<machine, mode, workerIdx, workers>>

-----------------------------------------------------------------------------
(* Modes.                                                                   *)

SelectForSystem ==
  LET n == cpuInfo.logical
  IN IF n <= 1 THEN [kind |-> "SingleThread", count |-> 1]
     ELSE [kind |-> "PinnedSharded", count |-> IF n <= 4 THEN n ELSE n - 1]

\* The modes a caller of ThreadBuilder::new may ask for.
ChosenModes ==
  [kind : Kinds \ {"PinnedSharded"}, count : {1}] \cup
  [kind : {"PinnedSharded"}, count : WorkerCounts]

NewBuilder ==
  /\ cpuInfo # NotYet /\ mode = NotYet
  /\ mode' \in {SelectForSystem} \cup ChosenModes
  /\ UNCHANGED <<machine, cpuInfo, workerIdx, workers>>

-----------------------------------------------------------------------------
(* Building workers.                                                        *)

\* total_cores after the first k nodes.
TotalCores(k) == Len(FlattenSeq(SubSeq(cpuInfo.nodes, 1, k)))

\* A distribution that does not wrap.
CoreNoWrap(w) ==
  LET all == FlattenSeq(cpuInfo.nodes)
  IN IF cpuInfo.numa /\ w < Len(all) THEN all[w + 1] ELSE w

\* A search with total_cores = core_count() in the place of +=.
CoreNotSummed(w) ==
  LET fits == {k \in DOMAIN cpuInfo.nodes : w < Len(cpuInfo.nodes[k])}
  IN IF ~cpuInfo.numa \/ fits = {} THEN w % cpuInfo.logical
     ELSE cpuInfo.nodes[Min(fits)][w + 1]

\* The worker belongs to the first node with w < total_cores.
GetCoreForWorker(w) ==
  IF ~cpuInfo.numa \/ w >= TotalCores(Len(cpuInfo.nodes)) THEN w % cpuInfo.logical
  ELSE LET k == CHOOSE k \in DOMAIN cpuInfo.nodes :
                  w < TotalCores(k) /\ \A j \in 1..(k - 1) : w >= TotalCores(j)
           cores == cpuInfo.nodes[k]
       IN cores[((w - TotalCores(k - 1)) % Len(cores)) + 1]

SupportsPinning == mode.kind = "PinnedSharded"

CoreOf(w) == IF SupportsPinning THEN GetCoreForWorker(w) ELSE NoCore

\* The WorkerThread that build returns reports Success whenever there is a core to
\* pin to ("this is optimistic"): its thread has not run yet.
Thread(w, core) ==
  [idx |-> w, core |-> core, reported |-> IF core = NoCore THEN "Unsupported" ELSE "Success",
   result |-> "Starting", other |-> NoCore, on |-> machine.allowed]

\* build in a mode with real workers.
Build ==
  /\ mode # NotYet /\ mode.kind # "TestStub"
  /\ workerIdx < MaxIdx /\ workerIdx' = workerIdx + 1
  /\ workers' = Append(workers, Thread(workerIdx, CoreOf(workerIdx)))
  /\ UNCHANGED <<machine, cpuInfo, mode>>

\* The expect on spawn panics after worker_idx was incremented; a caller that
\* catches the panic may build again.
SpawnFails ==
  /\ mode # NotYet /\ mode.kind # "TestStub"
  /\ workerIdx < MaxIdx /\ workerIdx' = workerIdx + 1
  /\ UNCHANGED <<machine, cpuInfo, mode, workers>>

\* build_test_stub: a thread that is not numbered.
BuildTestStub ==
  /\ mode # NotYet /\ mode.kind = "TestStub"
  /\ Len(workers) < MaxIdx
  /\ workers' = Append(workers, Thread(workerIdx, NoCore))
  /\ UNCHANGED <<machine, builder>>

-----------------------------------------------------------------------------
(* A worker's thread starts.                                                *)

Outcome(result, other, on) == [result |-> result, other |-> other, on |-> on]

\* A fallback that reports the core it was asked for.
PinReportsAsked(core) ==
  LET ids == Sorted(machine.allowed)
      f   == core % Len(ids)
  IN {Outcome("Unsupported", NoCore, machine.allowed), Outcome("Failed", NoCore, machine.allowed),
      IF core < Len(ids) THEN Outcome("Success", NoCore, {ids[core + 1]})
      ELSE Outcome("SuccessDifferentCore", core, {ids[f + 1]})}

\* pin_thread_to_core: core_ids.get(core_id) takes the number of a core as an
\* index; without such an entry, the entry core_id % core_ids.len().  The
\* list may be unavailable and set_for_current may fail.
PinThreadToCore(core) ==
  LET ids == Sorted(machine.allowed)
      f   == core % Len(ids)
  IN {Outcome("Unsupported", NoCore, machine.allowed), Outcome("Failed", NoCore, machine.allowed),
      IF core < Len(ids) THEN Outcome("Success", NoCore, {ids[core + 1]})
      ELSE Outcome("SuccessDifferentCore", f, {ids[f + 1]})}

ThreadStarts(i) ==
  /\ workers[i].result = "Starting"
  /\ \E o \in (IF workers[i].core = NoCore
               THEN {Outcome("Unsupported", NoCore, machine.allowed)}
               ELSE PinThreadToCore(workers[i].core)) :
       workers' = [workers EXCEPT ![i].result = o.result, ![i].other = o.other, ![i].on = o.on]
  /\ UNCHANGED <<machine, builder>>

Next ==
  \/ Detect \/ NewBuilder
  \/ Build \/ SpawnFails \/ BuildTestStub
  \/ \E i \in DOMAIN workers : ThreadStarts(i)

Spec == Init /\ [][Next]_vars

-----------------------------------------------------------------------------
(* Properties.                                                              *)

Cores == UNION Range(machine.nodes)

\* Numbers of cores are positions in the list core_affinity gives.
Contiguous == machine.allowed = 0..(Cardinality(machine.allowed) - 1)

\* The process may use every core, and detection can see every node.
Whole == machine.allowed = Cores /\ Contiguous
         /\ (machine.sysfs => machine.listed \in {{}, DOMAIN machine.nodes})

\* Types; "we shouldn't attempt pinning to cores we don't have" when the process
\* has the whole machine; and threads run where they may.
TypeOK ==
  /\ machine \in Machines
  /\ cpuInfo # NotYet => /\ cpuInfo.logical \in 1..Cardinality(Cores)
                         /\ \A k \in DOMAIN cpuInfo.nodes : Range(cpuInfo.nodes[k]) \subseteq Nat
  /\ mode # NotYet => mode.kind \in Kinds /\ mode.count \in Nat \ {0}
  /\ workerIdx \in 0..MaxIdx
  /\ \A i \in DOMAIN workers :
       /\ workers[i].core \in (IF Whole THEN Cores ELSE Nat) \cup {NoCore}
       /\ {workers[i].result, workers[i].reported} \subseteq Results
       /\ workers[i].on # {} /\ workers[i].on \subseteq machine.allowed
       /\ workers[i].idx <= workerIdx

\* parse_cpu_list reads back what the kernel wrote: detect knows every core of
\* every listed node, once, and in ascending order.
DetectionExact ==
  cpuInfo # NotYet /\ cpuInfo.numa =>
    LET order == Sorted(machine.listed)
    IN cpuInfo.nodes = [i \in DOMAIN order |-> Sorted(machine.nodes[order[i]])]

\* The first logical_cores workers, which are at least as many as
\* select_for_system asks for, never share a core, whatever the nodes are, under
\* a cgroup's limit and after spawns that failed, when the process may use the
\* whole machine and pinning works.
WorkersApart ==
  Whole => \A i, j \in DOMAIN workers :
    /\ i # j /\ workers[i].idx < cpuInfo.logical /\ workers[j].idx < cpuInfo.logical
    /\ workers[i].result = "Success" /\ workers[j].result = "Success"
    => workers[i].on # workers[j].on

\* "Successfully pinned to the requested core" and "to a different core" say
\* where the thread runs, when the cores the process may use are the first ones.
PinnedAsReported ==
  Contiguous => \A i \in DOMAIN workers :
    /\ workers[i].result = "Success" => workers[i].on = {workers[i].core}
    /\ workers[i].result = "SuccessDifferentCore" =>
         workers[i].on = {workers[i].other} /\ workers[i].other # workers[i].core

\* How wrong the report of build can turn out when the thread has tried: Unsupported
\* always stays true, and on a machine that is all there Success is only ever
\* followed by Success or by an affinity call that fails, never by another core.
OptimisticReport ==
  \A i \in DOMAIN workers : workers[i].result # "Starting" =>
    /\ workers[i].reported = "Unsupported" => workers[i].on = machine.allowed
    /\ Whole /\ workers[i].reported = "Success" =>
         workers[i].result \in {"Success", "Failed", "Unsupported"}

\* What a thread finds out about itself is where it runs, and what build said
\* of it before it ran is contradicted by nothing but a failing affinity call.
ReportTruthful == PinnedAsReported /\ OptimisticReport

=============================================================================
