# Limiar, in TLA+

Limiar runs virtual machines from declarative profiles and keeps a registry of
them; PVGPU, the older half of the repository, is a paravirtual GPU made of a
Windows display driver, a QEMU device and a host rendering service that share
memory. This directory holds TLA+ modules of the parts that have state and
more than one actor, the TLC configurations that check them, and proofs for
TLAPS. `PROJECT.json` maps every definition to the source lines it models and
lists the hazards, runs, mutants, findings and theorems this text refers to.

## The system

```
 CLI processes ──┐  .registry.lock (guard)          guest                     host
 register/update │  <vm>/run.lock (lease)     ┌──────────────┐        ┌──────────────────┐
 status/stop     ├─ <vm>/profile.json         │ UMD devices  │ ring   │ backend service  │
 start ──────────┘      state.json            │ KMD          ├───────►│ shmem, commands, │
   │ supervises         stop.json             └──┬────────┬──┘ heap   │ D3D11, present   │
   ▼                                             │ BAR0   │ fences    └────────┬─────────┘
 runtime (OpenVMM), its job, its transcript      ▼        ▼                    │ pipe
                                              QEMU device (registers, IRQ) ────┘
```

| Component | State | Operations | Interaction |
|---|---|---|---|
| VM registry (`crates/limiar/src/registry.rs`) | a directory per VM: `profile.json`, `state.json`, `stop.json`; the locks `.registry.lock` and `run.lock` | `register`, `update`, `show`, `preview`, `status`, `list`, `unregister`, `stop`, `start` | processes meet only in the files and locks; `start` runs the supervisor with two callbacks (`notify`, `stop_requested`) |
| Process supervisor (`runner.rs`) | the child, its job (Windows), the transcript, the report | `execute_controlled`, `ManagedChild::drop` | calls the registry's callbacks; the runtime writes the transcript |
| HCS probe (`hcs.rs`) | an HCS system, the serial pipe, the stage of the probe | `probe`, `Drop` | Windows Host Compute Service |
| Configuration, identity (`config.rs`, `identity.rs`) | none: functions of a profile, its directory and the previous registration | `validate`, `resolved`, `plan`, `materialize_identity`, `verify` | called by CLI and registry; they look at the file system |
| GPU-PV selection, reports, GPU self-test (`gpu_pv.rs`, `report.rs`, `presentation.rs`) | none | `select`, `render_verified`, `select_adapter`, `run` | called by CLI and probe |
| CLI and host inventory (`main.rs`, `windows.rs`, `unsupported.rs`) | none | one command per process; `vm verify-identity` takes several steps | call the above |
| PVGPU protocol (`protocol/pvgpu_protocol.h`, `backend/src/protocol.rs`) | control region: ring pointers, fences, status; ring; heap | layouts and macros | shared by all four PVGPU parts |
| User-mode driver (`driver/umd`) | per device: staging buffer, `LocalProducerPtr`, `NextFenceValue`, resources, heap grants | D3D11 DDI calls, write, flush, wait fence | ring; KMD escapes for heap and fences |
| Kernel-mode driver (`driver/kmd`) | heap bitmap, `CommandLock`, fence and interrupt bookkeeping | `PvgpuSubmitToRing`, `PvgpuHeapAlloc/Free`, `Escape`, interrupt and DPC | BAR0 and BAR2 of the device |
| QEMU device (`qemu-device`) | BAR0 registers, irq status and mask, shared memory, the backend connection | register reads and writes, reset, IRQ bottom half, IPC thread | pipe to the backend |
| Backend service (`main.rs`, `shmem.rs`, `ipc.rs` of `backend/src`) | ring position, last fence, status and error fields, the pipe, the shutdown flag | start and handshake, `run_loop`, complete fence, pipe reader thread, end | shared memory; pipe |
| Backend rendering (`command_processor.rs`, `d3d11.rs`) | the slab of resources, bindings, active maps, `pending_present`, `pending_resize` | one handler a command | called by the loop; D3D11 |
| Backend presentation (`presentation.rs`) | configured size, swapchain, shared texture, window | `new`, `present`, `resize`, `process_messages` | called by the loop; DXGI |
| Lab scripts, guest probes | none of their own | prepare and drive virtual machines | external tools |

What is hard here: two commands on one VM interleave at every file operation;
a supervisor may die with its runtime alive, or between two of its files; a
stop request races the end of a run and the start of the next; guest and host
share a ring without a lock and each keeps its own idea of the pointers; a
command can fail in the middle of a batch; the backend can vanish while the
guest waits for a fence. `PROJECT.json` lists these hazards at their lines.

What makes each component correct:

* Registry: at most one supervised run per VM; the entry of a supervised run
  does not change; a stop ends the run it names and says so truthfully;
  `interrupted` means interrupted; a new registration starts fresh.
* Supervisor: no runtime outlives its run; the report matches the transcript.
* Ring: published commands are processed once, in order; nothing is written
  over what is unread or in progress; what is published gets processed.
* Heap: grants are disjoint, aligned and accounted for; a block is not reused
  while the backend may still read it.
* Service: a fence completes after the work it stands for and is announced;
  what the status fields say is what the service does; waits end.
* Rendering: an object lives as long as something names it; a binding holds
  what it takes; a write reaches the object it was meant for.
* HCS probe: whatever stage fails, the system is gone in the end and the report
  says why, and whether cleanup was verified.
* Profiles: what is registered is what every start uses, completely and without
  drift; runs open the files the user named, each only once.

## Modules

| Module | Models | State |
|---|---|---|
| `VmLifecycle` | abstract: one VM as a user sees it | phase, revision, number of runs |
| `VmRegistry` | `registry.rs` with what it observes of `runner.rs` | files, locks, process locations, runtimes |
| `VmRegistryProofs` | theorems about `VmRegistry` | |
| `CommandQueue` | abstract: an unbounded queue of commands | queue, done |
| `CommandRing` | staging, flush, kernel submit, backend loop | ring words, pointers, staging buffers |
| `CommandRingProofs` | theorems about `CommandRing` | |
| `HeapAllocator` | bitmap allocator, maps, unmaps and uploads | bitmap, free count, grants of resources, pointers |
| `HeapAllocatorProofs` | theorems about `HeapAllocator` | |
| `SupervisedRun` | abstract: one run as its caller sees it | runtime, events told, result |
| `Runner` | `execute_controlled` of `runner.rs` | place, child, logs, what was read, timers, end |
| `RunnerProofs` | theorems about `Runner` | |
| `HcsProbe` | `probe` of `hcs.rs`, the service and the guest | stage, system, pipe, transcript, report |
| `HcsProbeProofs` | theorems about `HcsProbe` | |
| `Identity` | `identity.rs` as operators | none |
| `Profiles` | `config.rs`, registration, `vm start` and `vm verify-identity` | files, entry, launched run, report, verdict |
| `Renderer` | the handlers of `command_processor.rs` and `d3d11.rs` | slab, objects with counts and contents, bindings, maps |
| `Backend` | `main.rs` of the backend with its pipe and presentation | two threads, pipe, ring, fences, status, surfaces |
| `BackendProofs` | theorems about `Backend` | |
| `RendererProofs` | theorems about `Renderer` | |
| `ProfilesProofs` | theorems about `Profiles` and `Identity` | |
| `MCVmRegistry`, `MCCommandRing`, `MCHcsProbe`, `MCProfiles`, `MCRenderer` | instances for TLC | |

The modules meet where the parts of the program do. `VmRegistry` sees a run as
the events and outcomes its callbacks get; `Runner` is what produces them, and
`SupervisedRun` is the contract between the two. `Profiles` is the content of
the record whose locking `VmRegistry` models. `CommandRing` is the backend's
ring word by word with handlers that succeed or fail; `Backend` is the loop
around it with the ring as a sequence of commands, which `CommandRing`
implements (`CommandQueue`); `Renderer` is what happens inside one handler.

### VmRegistry

A process of `Proc` runs one command. `at[p]` says where in the function it
is, `op[p]` which command, or which `update_run` call of a supervisor, it
executes. Taking `.registry.lock` is `AcquireGuard`, giving up after five
seconds `GuardTimeout` (for an `update_run`: `UpdateTimeout`, since the
supervisor goes on). Under the guard a command first checks (`Refused` is
every early return) and then writes, each `write_json`, `remove_file` and
`remove_dir` a step of its own, so that a `Crash` or an `IoError` can come
between any two. `write_json` replaces its file atomically; a crash inside it
may leave its temporary file (`temp`). `run.lock` is only tried, under the
guard; `lease` is its holder. A failed `guard()` in `start` before the lease
ends the command; in `update_run` it fails the run or loses its last save
(`FailUpdate`).

The supervisor's path is `Start`, `StartWrite` (guard released, lease kept),
`Plan`, `Spawn`, `AttachJob` (only with `KillOnClose`, the Windows job), the
`started` update, the loop (`MarkerSeen`, `StopSeen`, `LoopEnds`), `KillRuntime`
(the drop of `ManagedChild`), `FinalSave` and `DropLease`. `LoopEnds` chooses
any outcome the loop can produce; `Runner` models the transcript itself. A
runtime may exit at any time (`RuntimeExits`).

Run ids are numbers in the order they were handed out: the code's ids join a
time stamp, the process id and a counter, and never repeat. `status`, `list`,
`show` and `preview` change nothing and are one action.

### CommandRing

Positions count words, as the code's pointers count bytes; one word stands for
the four bytes of a header field, so a header is `Header` words. Every word of
a command is tagged with the command and its index, which makes a lost,
overwritten or misread byte visible. `WriteCommand` is `PvgpuWriteCommand`
with its zero padding to `Align`; `Flush`, `FlushCopy` and `FlushPublish` cut
`PvgpuFlushCommandBuffer` where the backend can see a difference: before the
space check, between copy and publication. `SubmitCopy` and `SubmitPublish` do
the same for `PvgpuSubmitToRing`, which holds `CommandLock` in between.
`Read`, then `Advance` or `HandlerFails`, are one pass of the backend's inner
loop, with `ReadFails` for its own errors. Doorbells are left out because the
backend polls every 5 ms.

`Init` has every device start from position 0, as each takes the producer
position when it is created. Which commands are ever written is chosen in the
initial state of `MCCommandRing`, so one run has the user-mode device or the
kernel driver as its only producer. With two producers the ring is broken, and
`CommandRingDevices` shows how.

### HeapAllocator

Sizes and positions count blocks of 4 KiB. `HeapAlloc` and `HeapFree` each run
under the allocator's spin lock from search to update and are one step;
`Placed` is the search, with the second search from the aligned position. The
callers are split where others can come between: `Map` takes the grant,
`MapReturns` records it after the command (and, for a read map, its fence),
`MapFails` gives it back; `Unmap` writes and flushes, `UnmapFree` frees. A
resource records one grant for all of its subresources, so an unmap can take
away what another subresource's pointer stands on. `PointersStayValid` allows
that case by name (it is the code's, `pvgpu_umd.c:1918`) and no other.
`Upload` stands for shaders, updates and names of input layouts, whose blocks
nobody frees, and for other callers of the escape, which choose an alignment.
`pointer` and `kept` are history: which grant is behind a pointer the
application holds, and which grants no record names any more. A grant's
`offset` counts as the escape's does, from the start of the shared memory.
What the backend does with the blocks is not modelled, nor is the order of
`UnmapFree` and the backend's reading of them.

### Runner

One run. `at` is the place in `execute_controlled`; the two reads of a
transcript are steps of their own (`ReadStdout`, `ReadStderr`), the second one
used twice, before and after an exit is seen, so the runtime can write or exit
between any two. A log is the set of what the loop searches for in it (the
marker, a panic) and its size in writes, which is what `MAX_LOG_BYTES` limits. The clock is
two facts that become true: the timeout has passed (`late`), and the marker is
two seconds old (`timer`). Every `?` of the function is `IoFails` or
`MarkerNotifyFails`; the child is dropped on the way out of all of them
(`DropChild`) once `spawn` has returned a `ManagedChild`. Before that there is
nothing whose drop would end it: a failed start has no child, and a child that
could not be put into its job is killed by `spawn` itself (`AttachFails`). `told` counts the callbacks.

### HcsProbe

One probe. The closure of `probe` runs through the stages of its report; a step
that fails goes to `dropSystem`, which is the `Drop` of `System`. An operation
that fails may have had its effect (`Cancelled`): it is cancelled after its
timeout, and the service decides. The handle and the system are separate,
because `create` hands out the handle before it is known whether it succeeded.
The guest is external: it prints one of `Scripts`, in order, as
`probe-init.sh` does, may panic or stop at any time, and powers off gracefully
only after the acknowledgement. The pipe keeps what was printed until it is
broken, and then drops what was not read. The acknowledgement is written with
`write_all`, which has no deadline: `Writes` is where the probe may wait for a
guest that never reads. `DeadlinePasses` stands for the
deadline of the loop and again for that of `wait_absent`.

### Identity and Profiles

`Identity` translates `identity.rs` operator by operator. A text is opaque,
`Bad` stands for all that `text` refuses; UUIDs are numbers; a derived serial
is the pair of its prefix and its UUID, so one can tell which UUID it was
derived from; a release keeps whether it was written with leading zeros, which
the guest cannot report. `Profiles` adds paths (a name in a directory, relative
without one), the file system (what is at a location, and where a link leads)
and one entry of the registry. `Store` is what `register` and `update` do to a
profile. A start or a verification is several steps, between which the entry
and the files may change: `Preview`, `Launch`, `Report` (the guest prints and
the run ends), `Judge`. The guest's block may be cut, doubled, missing, out of
place, or wrong in one field. `Shown` is `record_at`: every command that reads
the entry back runs `validate_record` on it (`RecordIsValid`) before it uses it.
A path is `Bad` when plan refuses its text: control characters, delimiters, or
a socket of more than 107 bytes.

### Renderer

A step is one command, as the loop processes them one by one. `slab` is the
vector of resources, `bound` the binding points of the immediate context,
`maps` the active maps with the staging copy each holds, by id and subresource.
Reference counts are explicit, the memory of an object without references is
used again (`Fresh`), and `data` tells only whether contents have bytes nobody
wrote, as those of a staging resource that was not filled. An error is
the step `Refused`: nothing changed and the command will be processed again.
The guest's devices share the slab, so an id may be created while it is in use.
Views, samplers, state objects and input layouts are never created by any
command the backend knows, so their slots stay empty. Commands are well formed,
as the user-mode driver writes them; what the handlers do with a size, pitch or
count that is too large is not modelled (see below).

### Backend

`main` is where the main thread is, `reader` where the pipe reader is. Start,
handshake and the creation of the surfaces come first; each iteration of
`run_loop` is `Top`, then commands (`Process`, `Complete`, `Announce`, or
`ProcessFails`, `ShaderFails`), then `Present`, `Resize`, `More` and the wait.
A fence is named by its place in the ring. `MayWrite` is the pipe's own lock:
the handle is synchronous, so an interrupt waits for the reader's `ReadFile`
(`ipc.rs:308`). The device, the guest and the user are external; `Over` is
where the process waits for one of them or has ended. `run_loop` batches end
when the ring is empty, after an error, or after more than a megabyte, which
`BatchEnds` allows after any command.

## Runs

| Run | Question | Bounds |
|---|---|---|
| `VmRegistry` | do the locks keep their promises under crashes and errors, and implement `VmLifecycle` | 2 processes, 2 runs, 2 revisions, symmetric processes |
| `VmRegistryLive` | does a stop request end the run | 2 processes, 1 run |
| `CommandRing` | is the ring intact, a queue, and live, with either driver as its producer | 8 words; 4 commands of 2, 4, 4 and 6 words of one device, or 3 of 3, 4 and 5 words of the kernel driver |
| `CommandRingFaults` | does the ring survive misaligned commands and failing handlers | one failing command |
| `CommandRingPadding` (violation) | does a command begin wherever the backend stands | sizes 3 and 4, alignment 2 |
| `CommandRingDevices` (violation) | does the producer pointer never move back | two devices, one command of 2 and one of 6 words |
| `HeapAllocator` | are grants disjoint and accounted for, do pointers keep their blocks | 5 blocks, 2 resources with 2 subresources, sizes 1 to 3, alignments 1 and 2 |
| `Runner` | is the verdict about the whole transcript, is the runtime gone, does the run end, does it implement `SupervisedRun` | 2 writes to each log, a limit of 2, with a job |
| `HcsProbe` | is a system ever lost, a success unproven, an error misnamed; does the probe end | 4 guest reports of 3 or 4 lines |
| `Renderer` | do reference counts, bindings and maps survive every order of commands | 2 ids and 2 subresources, symmetric, 2 objects, 2 maps at once (`MaxMaps`), textures, buffers and vertex shaders |
| `Backend` | do fences, flags and surfaces tell the truth, do waits and the process end | 2 commands, 3 messages, 1 fault, 2 sizes, mode `dual` |
| `Profiles` | are registered profiles final, are runs made of what was registered | 18 profiles, 4 file systems, 2 UUIDs |

Why the bounds are enough. Two processes show every pair of commands: a
command interacts with others through two locks and four files, and a third
process only repeats what one of the two may do before or after. Two runs are
needed for a stop request or a `stop.json` to be stale, two revisions for
`revision overflow`. The commands of the ring runs overfill the ring, so
each behaviour wraps, fills the ring exactly, and has flushes of one and of
several commands. In five blocks, sizes up to three and an alignment of two
give fragmented heaps, second searches that move on, find a lower run or fail,
and an exhausted heap; the heap itself is larger than its bitmap, as it always
is (at least 48 MB against 16 MB). Two writes to each log put the marker and a
panic into either, in either order, before and after any read, and reach the
limit in the sum of both but in neither alone. The guest reports of the probe
differ in what the verdicts tell apart, and a line may come before or after
every step. Two ids of two objects give aliases, ids created anew, and objects
freed while mapped or bound; a third object would only postpone the reuse of
memory. Two maps at once are two subresources of one id, two ids of one object,
or a map and one that replaces it. Two subresources share one record of the
heap's grants. Two commands are a batch with its fence, a present or resize next to
a failure, and a second batch; three messages are a handshake, a doorbell and a
goodbye; more than one fault only makes the service end earlier. Mode `dual`
has both surfaces; the theorems cover the others. The profiles take every preset and boot
with generated, given and refused fields, and each file system breaks one of
the checks of `plan`. The proofs do not depend on these bounds.

Fairness. `VmRegistry!FairSpec` gives each process weak fairness for its own
steps: a process that is not killed keeps running. It does not ask that a user
types a command, a guest boots, or a lock wait wins; `StopTakesEffect` holds
because a supervisor that cannot get the guard gives up and ends too.
`CommandRing!FairSpec` says that a flush that may copy copies, that a copy is
published, and that the backend's loop keeps polling. No fairness is given to
the driver to write or flush. `Runner!FairSpec` and `HcsProbe!FairSpec` are
weak fairness of the thread and of the clock, none of the runtime, the guest,
the service or the user: the loops sleep 100 ms and look at a deadline. The
probe's thread gets none while it writes the acknowledgement, so `ProbeEnds`
names that wait as the only way not to end.
`Backend!FairSpec` is weak fairness of the two threads: the wait of the main
loop ends after 5 ms, and the reader's read returns when there is something to
return. Nothing is asked of device and guest, so `FenceWaitsEnd` names
the three ways in which the service may still hang: the device never speaks, a
command fails for ever, an interrupt waits behind the reader's read.
`HeapAllocator`, `Renderer` and `Profiles` state safety only and have no fairness.

Deadlock is not checked in the ring runs, where the system rests when all
commands are processed, in the heap run, where uploads may exhaust the
heap for good, and in the probe's run, which ends.

The runs check what takes several steps to go wrong and has a mutant of the
code that breaks it. Types, and the further invariants that the proofs
establish on their way (`LeaseNamesItsRun`, `RunKeepsItsRevision`,
`FreshRegistration`, `FreeBlocksBalance`, `AccessesStayInTheHeap`,
`NoRuntimeIsLeft`, `ReportPrecedesPoweroff`, `TargetsAreTracked`,
`FencesAreAnnounced`, `ProcessedAsPublished`, `SomeoneProceeds`), are theorems
and in no run.

## Proofs

`VmRegistryProofs` proves, for every set of processes, number of runs and
revisions, with or without jobs: type correctness, the safety properties of the
run `VmRegistry`, that a lease names its run, a run keeps its revision and a
registration starts fresh, and the refinement of `VmLifecycle`. None of
the invariants is inductive. The strengthening `IInv` adds where each process
may be for what it holds: a process is inside the guard exactly when it holds
it; the lease is held by a supervisor, or by an update or a start inside the
guard; supervisors have distinct runs that they alone own; what a half-done
command has already written or removed; which runtimes can be alive. Each
action preserves each part; the theorems named after the properties are its
consequences.

`CommandRingProofs` proves type correctness with any producers, and, assuming
`OneProducer` (one user-mode device, or the kernel driver), `RingIntact` and
`InFlightIntact` for every ring, staging buffer and set of commands, aligned or
not. The assumption is needed: with two producers the code violates them, and
`ProducerNeverRetreats` first of all. `RingInv` adds that a device's cached position
is the published one, that its copied and unpublished words lie in free space,
and what an in-flight size can be; `FlightInv` adds that staged and published
words are whole commands.

With `AlignedCommands` as well (no command needs padding; with padding
`CommandBoundary` is false, as the finding shows) it proves that the backend
always stands where a command begins, and that the ring implements
`CommandQueue`. `BoundaryInv` adds that commands follow one another without a gap
(`Packed`: after the last word of one comes the first word of the next) and that
the command in flight is the one at the head. `Packed` speaks of each word and
its neighbour, so publishing keeps it and no induction over the stream is
needed. The queue of the refinement, `Pended`, is defined by counting: its i-th
element is the command at the i-th beginning not yet consumed. The lemmas about
`Rank` and `Nth` say that every beginning has its own number, that later
beginnings leave the numbers of earlier ones alone (`NthGrows`, a publication is
`Submit`), and that without the first one the others move up by one (`NthDrops`,
an advance is `Take`). `LeastNatural`, the well-foundedness of the naturals for
a set, takes the place of induction.

More theorems follow from `BoundaryInv`: the commands processed are those
published up to the consumer, in order (`ProcessedIsPublished`); an error in
the control region is always a handler's answer, never the backend misreading
the ring (`OnlyHandlersReportErrors`); a command whose handler fails stays at
the head and nothing behind it is processed (`RejectedCommandBlocks`, so
`EverythingIsProcessed` is checked where no handler fails); and a flush that
waits for space and the backend never wait for each other, if what fits the
staging buffer fits the ring (`FlushAndBackendNeverWaitForEachOther`: the
safety half of `EverythingIsProcessed`).

`HeapAllocatorProofs` proves, for every heap, resource, size and alignment,
that grants are disjoint, that the bitmap is exact and the free count balanced.
`IInv` adds that every owned grant lies in the part of the heap the bitmap
describes, so that `HeapFree` accepts it, and that a resource has a fresh grant
exactly while it is being mapped. `PointersOfMapsStayValid` holds for any number
of subresources: its one lemma, `NextRecorded`, is that a recorded grant stays recorded or is
kept by nobody's record, except in the second half of an unmap. One theorem has
an assumption of its own: `AccessesInHeap` that the heap has room for its own
offset and the bitmap together (`pvgpu_realize` asks for 64 MB, the offset is
16 MB and a page, the bitmap 16 MB).

`RunnerProofs` proves the safety properties of the run `Runner` and the
refinement of `SupervisedRun` for every log limit and number of writes, with
and without a job. `IInv` relates the place in the function to the state of the
child (it exists from `Spawn` to the drop) and the text in hand to the logs: what was read is written, and what is read
after the exit is all there is, because a runtime that has exited writes no
more. That last part is what `ExitIsJudgedOnTheWholeLog` needs.

`HcsProbeProofs` proves the safety properties of the run `HcsProbe` for every
set of guest reports. `IInv` adds what the guest may have printed for what is
left of its script (`GuestInv`: the last line of a report is its last), who may
hold the system at each stage (`LifeInv`), that a drained pipe was drained
(`TextInv`), and what the report may claim where (`ReportInv`).

`BackendProofs` proves the safety properties of the run `Backend` for every
mode, set of sizes and bound. `IInv` adds how the four fence counters follow
each other through a batch, which present is pending where, and which of the
surfaces a mode has at all.

`RendererProofs` proves the safety properties of the run `Renderer` for every
set of ids, objects and kinds, whatever the guest sends. The heart of `IInv` is
that the count of an object is the number of its holders: the slab, the binding
points, the current target and the active maps. `BindingsAreTyped` needs it, because
the memory of an object that is bound must not become one of another kind.
`NothingUninitialised` follows from the same invariant for maps of every type:
each command is shown to leave contents as they are, to replace them by contents that
were clean, or to be the unmap of a map that did not read. The module assumes that `None` is no kind, no
entry of the slab and no map.

`ProfilesProofs` proves the properties of the run `Profiles` for every set of
profiles and file systems. Its lemmas follow an identity through registration
field by field: filling the defaults twice adds nothing, a kept or derived
serial is a value, so an identity that registration has completed is left alone
by every later start (`IsFinal`), and keeps what it had as far as it has the
table for it (`KeepsIdentity`). A
path that was resolved is absolute, so planning in the registry's directory
finds the user's files (`InputsStay`). The invariant ties the entry to the
profile it was written as, and a run to the entry it was launched from. The
theorems assume that `None` is no number and no function (`NoneIsNoTable`),
as it is for TLC.

Only model-checked: liveness (`StopTakesEffect`, `EverythingIsProcessed`,
`RunEnds`, `ProbeEnds`, `FenceWaitsEnd`, `ShutdownEndsTheProcess`), which is
beyond the prover. Every invariant, action property and refinement that a passing run
checks is also proved.

## Disagreements found

Two are findings of `PROJECT.json`, each with a violation run. `CommandRingPadding`:
the driver pads commands in the ring but not in their header.
`CommandRingDevices`: every device publishes its own copy of the producer
position (`pvgpu_umd.c:3366`, taken once at `:3496`), and so does the kernel
driver from the shared one (`pvgpu.c:1030`), so a second producer moves it back
over what the first one published. The others show in the modules or were met
while they were written; the passing runs are set so that they do not arise, or
their properties allow them by name.

Registry and supervisor. Without a Windows job a runtime outlives a supervisor
that is killed, and its entry may be updated, while `docs/MANAGED-VMS.md:78`
says "Running VMs cannot be updated or unregistered." (`AttachJob`, `Crash` of
`VmRegistry`). `stop` polls the entry, not the run it named, so its timeout may
speak of a newer run (`registry.rs:510`, `StopWaitExpires`). A crash inside
`write_json` leaves a temporary file (`temp`), which `unregister` then refuses
for good.

Profiles. An update that gives a UUID keeps the serial derived from the old one
(`Materialized`). An update to a profile without a board or chassis table, because it leaves
`qemu_uefi` or its preset and gives none, loses that table's serial, while
`docs/QEMU-WINDOWS.md:102` says "UUID, system serial, board serial and chassis
serial survive updates when omitted from a template." and `docs/IDENTITY.md:109`
"Updates preserve those serials unless replacements are supplied.";
`UpdatesKeepTheIdentity` states what the code does. An empty path is joined to
the profile's directory before `input_path` looks at it, so its "path cannot be
empty" (`config.rs:576`) never refuses a registration. `canonicalize` does not
see hard links, and the checks of `plan` are not repeated when the runtime opens
its files.

Ring and drivers. A command whose handler
fails is never consumed (`main.rs:249`), although `main.rs:263` says of shaders
"Shader errors are non-fatal - continue processing". A resource keeps one
mapped address for all of its subresources (`pvgpu_umd.c:1918`). Devices number
fences and resources from 1 but share one fence counter and one slab. The user-mode
driver writes commands for views and state objects (0x0010 to 0x0027) that the
backend skips, so a render target bound by a view's id is an error for ever; it
puts the id of maps, unmaps and updates only into the header, where the backend
does not look (`pvgpu_umd.c:1883`, `command_processor.rs:359`); it never sets
the `data_size` of an unmap, and presents always name backbuffer 0
(`pvgpu_umd.c:2042`). The backend never copies a read map into the heap
(`command_processor.rs:367`). A map that does not read has a staging resource
nobody filled, and its unmap puts all of it back (`NothingUninitialised`).

Heap. `FreeBlocks` is set before `NumBlocks` is clamped, so it counts blocks
the bitmap does not have (`Init` of `HeapAllocator`). A grant's offset, "Allocated
offset in heap" (`pvgpu_protocol.h:844`), counts from the start of the shared
memory while its users add it to the start of the heap (`Granted`); the clamp
keeps them in the heap (`AccessesStayInTheHeap`). An alignment above one block
is counted from the start of the heap and may be lost in the second search
(`Placed`); the user-mode driver asks for none.

Service. An interrupt waits behind the reader's pending read (`MayWrite`), and
after Ctrl+C or a closed window the join waits for the device (`Over`). A
failed resize keeps the new size, so the next one to that size does nothing
(`Resized`). `set_status` at the end overwrites the error flags. The shared
handle of a texture that is replaced is not closed. The service always uses the
default configuration, which is headless.

## Not modelled

The QEMU device's registers, interrupts and reset, and the fence waits of the
drivers, appear only as the environment of `Backend`. The GPU self-test, adapter selection, host
inventory and the scripts have no state that another actor changes. Contents of
JSON records are abstracted to the fields that some command compares. Viewports,
scissors, topology and dispatches change nothing a property tells apart.
Directory permissions are not modelled. The handlers of the backend copy
`data_size` bytes into a staging map, take rows by pitch from a slice of
`data_size` bytes in texture creation and updates, and index eight render
targets by `num_rtvs` without comparing them (`command_processor.rs:399`,
`command_processor.rs:483`); `Renderer` has well-formed commands only. Hard
links, and the fences several devices number from 1, have no model: a fence of
`Backend` is a place in the ring. Runtime, operating system locks, HCS,
D3D11, DXGI and dxgkrnl are external.

## Plan

1. `GpuHeap`: `HeapAllocator` with the ring and the backend that reads and
   writes the granted blocks; whether a block is reused too early.
2. `PvgpuDevice`: registers, interrupts and reset, in the place of the
   environment of `Backend`.
