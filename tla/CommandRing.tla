---------------------------- MODULE CommandRing ----------------------------
(***************************************************************************)
(* The shared-memory command ring between the guest's drivers and the host *)
(* backend: the user-mode driver stages commands and flushes them          *)
(* (driver/umd/pvgpu_umd.c), the kernel-mode driver submits its own        *)
(* (driver/kmd/pvgpu.c), the backend reads, processes and advances         *)
(* (backend/src/shmem.rs, main.rs, command_processor.rs).                  *)
(*                                                                         *)
(* Positions count ring words from the start of the ring's life, as        *)
(* producer_ptr and consumer_ptr do; a word of the model stands for the    *)
(* four bytes of a header field.  A command is its own unique value; the   *)
(* word <<c, 1>> is its type, <<c, 2>> its command_size, the rest its      *)
(* payload.  Doorbells are left out: the backend polls every 5 ms.         *)
(***************************************************************************)
EXTENDS Integers, Sequences, FiniteSets

CONSTANTS
  Device,         \* user-mode devices that share the ring
  Command,        \* the commands the user-mode devices may write
  KernelCommand,  \* the commands the kernel-mode driver may submit
  Size,           \* command_size of each command, in words
  RingSize,       \* ring_size
  StagingSize,    \* StagingBufferSize of each device
  Header,         \* PVGPU_CMD_HEADER_SIZE
  Align,          \* the 16 bytes of PVGPU_ALIGN16
  Failing,        \* commands the backend's handlers reject
  None            \* no command

Commands == Command \cup KernelCommand

ASSUME ConstantsAssumption ==
  /\ Header \in Nat /\ Header >= 2
  /\ Align \in Nat \ {0} /\ RingSize \in Nat \ {0} /\ StagingSize \in Nat
  /\ Size \in [Commands -> Nat] /\ \A c \in Commands : Size[c] >= Header
  /\ Failing \subseteq Commands /\ None \notin Commands

VARIABLES
  ring,       \* the words of the command ring
  producer,   \* producer_ptr of the control region
  consumer,   \* consumer_ptr
  staging,    \* the staging buffer of each device
  local,      \* LocalProducerPtr of each device
  flushing,   \* where PvgpuFlushCommandBuffer of each device is
  submitting, \* the kernel command between PvgpuSubmitToRing's copy and publish
  reserved,   \* the producer position PvgpuSubmitToRing read
  unwritten,  \* commands nobody wrote yet
  inflight,   \* the backend's command between read_pending_commands and the advance
  error,      \* error_code of the control region
  stream,     \* history: the words published, in order
  done        \* history: the commands processed, in order

guest  == <<staging, local, flushing>>
kernel == <<submitting, reserved>>
host   == <<consumer, inflight, error, done>>
vars   == <<ring, producer, guest, kernel, unwritten, host, stream>>

Zero    == <<None, 0>>
Word    == {Zero} \cup (Commands \X (Nat \ {0}))
Slot(i) == i % RingSize
Slots   == 0 .. RingSize - 1
Idle    == [cmd |-> None, size |-> 0]

Aligned(n) == ((n + Align - 1) \div Align) * Align

\* the words WriteCommand stages for c: the command, zeros up to the alignment
Staged(c) == [i \in 1 .. Aligned(Size[c]) |-> IF i <= Size[c] THEN <<c, i>> ELSE Zero]

\* the words PvgpuSubmitToRing copies for c
Image(c) == [i \in 1 .. Size[c] |-> <<c, i>>]

\* mutant: what wraps is not copied
CopiedFirstPart(pos, words) ==
  [s \in Slots |->
     IF s - Slot(pos) + 1 \in 1 .. Len(words) THEN words[s - Slot(pos) + 1] ELSE ring[s]]

\* the ring after words are copied to position pos, in two parts if they wrap
Copied(pos, words) ==
  [s \in Slots |->
     IF \E i \in 1 .. Len(words) : s = Slot(pos + i - 1)
     THEN words[CHOOSE i \in 1 .. Len(words) : s = Slot(pos + i - 1)]
     ELSE ring[s]]

Pending == IF producer > consumer THEN producer - consumer ELSE 0

TypeOK ==
  /\ ring \in [Slots -> Word]
  /\ producer \in Nat /\ consumer \in Nat /\ reserved \in Nat
  /\ staging \in [Device -> Seq(Word)] /\ local \in [Device -> Nat]
  /\ flushing \in [Device -> {"no", "wait", "copied"}]
  /\ submitting \in KernelCommand \cup {None}
  /\ unwritten \subseteq Commands
  /\ inflight \in [cmd : Commands \cup {None}, size : Nat]
  /\ error \in {"none", "shader", "internal"}
  /\ stream \in Seq(Word) /\ done \in Seq(Commands)

\* InitSharedMemory: every device takes the current producer position; commands
\* are those the drivers will ever write
InitWith(commands) ==
  /\ ring = [s \in Slots |-> Zero] /\ producer = 0 /\ consumer = 0
  /\ staging = [d \in Device |-> <<>>] /\ local = [d \in Device |-> 0]
  /\ flushing = [d \in Device |-> "no"]
  /\ submitting = None /\ reserved = 0
  /\ unwritten = commands
  /\ inflight = Idle /\ error = "none"
  /\ stream = <<>> /\ done = <<>>

Init == InitWith(Commands)

-----------------------------------------------------------------------------
(* The user-mode driver *)

\* PvgpuWriteCommand.  A command that does not fit makes the code flush first,
\* which the model reaches by Flush and then WriteCommand.
WriteCommand(d, c) ==
  /\ flushing[d] = "no" /\ c \in unwritten
  /\ Len(staging[d]) + Aligned(Size[c]) <= StagingSize
  /\ staging' = [staging EXCEPT ![d] = @ \o Staged(c)]
  /\ unwritten' = unwritten \ {c}
  /\ UNCHANGED <<ring, producer, local, flushing, kernel, host, stream>>

\* PvgpuFlushCommandBuffer starts; it waits as long as FlushCopy is not enabled
Flush(d) ==
  /\ flushing[d] = "no" /\ staging[d] # <<>>
  /\ flushing' = [flushing EXCEPT ![d] = "wait"]
  /\ UNCHANGED <<ring, producer, staging, local, kernel, unwritten, host, stream>>

\* mutant: no wait for the consumer
FlushCopyAtOnce(d) ==
  /\ flushing[d] = "wait"
  /\ ring' = Copied(local[d], staging[d])
  /\ flushing' = [flushing EXCEPT ![d] = "copied"]
  /\ UNCHANGED <<producer, staging, local, kernel, unwritten, host, stream>>

\* used is computed from the cached LocalProducerPtr and wraps with it
FlushCopy(d) ==
  /\ flushing[d] = "wait"
  /\ RingSize - (local[d] - consumer) >= Len(staging[d])
  /\ ring' = Copied(local[d], staging[d])
  /\ flushing' = [flushing EXCEPT ![d] = "copied"]
  /\ UNCHANGED <<producer, staging, local, kernel, unwritten, host, stream>>

FlushPublish(d) ==
  /\ flushing[d] = "copied"
  /\ local' = [local EXCEPT ![d] = @ + Len(staging[d])]
  /\ producer' = local'[d]
  /\ stream' = stream \o staging[d]
  /\ staging' = [staging EXCEPT ![d] = <<>>]
  /\ flushing' = [flushing EXCEPT ![d] = "no"]
  /\ UNCHANGED <<ring, kernel, unwritten, host>>

-----------------------------------------------------------------------------
(* The kernel-mode driver: PvgpuSubmitToRing, under CommandLock *)

\* mutant: no space check
SubmitCopyAtOnce(c) ==
  /\ submitting = None /\ c \in unwritten
  /\ ring' = Copied(producer, Image(c))
  /\ submitting' = c /\ reserved' = producer
  /\ unwritten' = unwritten \ {c}
  /\ UNCHANGED <<producer, guest, host, stream>>

SubmitCopy(c) ==
  /\ submitting = None /\ c \in unwritten
  /\ RingSize - (producer - consumer) >= Size[c]
  /\ ring' = Copied(producer, Image(c))
  /\ submitting' = c /\ reserved' = producer
  /\ unwritten' = unwritten \ {c}
  /\ UNCHANGED <<producer, guest, host, stream>>

SubmitPublish ==
  /\ submitting # None
  /\ producer' = reserved + Size[submitting]
  /\ stream' = stream \o Image(submitting)
  /\ submitting' = None
  /\ UNCHANGED <<ring, reserved, guest, unwritten, host>>

-----------------------------------------------------------------------------
(* The backend *)

TypeWord == ring[Slot(consumer)]

\* the values command_size can have at the consumer: a command's size, the zero
\* of padding, or whatever payload is read as a size
SizeWord ==
  LET w == ring[Slot(consumer + 1)] IN
  IF w = Zero THEN {0} ELSE IF w[2] = 2 THEN {Size[w[1]]} ELSE 0 .. RingSize

Wraps == Slot(consumer) + Pending > RingSize

\* mutant: a command that wraps is left for later
ReadContiguous ==
  /\ inflight = Idle /\ Pending >= Header
  /\ \E n \in SizeWord :
       /\ n <= Pending /\ Slot(consumer) + n <= RingSize
       /\ inflight' = [cmd |-> IF TypeWord[2] = 1 THEN TypeWord[1] ELSE None,
                       size |-> n]
  /\ UNCHANGED <<ring, producer, guest, kernel, unwritten, consumer, error, stream, done>>

\* read_pending_commands and process_command up to the handler's result
Read ==
  /\ inflight = Idle /\ Pending >= Header
  /\ \E n \in SizeWord :
       /\ n <= Pending /\ (Wraps => n >= Header)
       /\ inflight' = [cmd |-> IF TypeWord[2] = 1 THEN TypeWord[1] ELSE None,
                       size |-> n]
  /\ UNCHANGED <<ring, producer, guest, kernel, unwritten, consumer, error, stream, done>>

\* "Command too small", "Command size exceeds available data", or payload taken
\* for a command that its handler rejects: the batch ends.  A wrapped command of
\* a wrong size is not even reported.
ReadFails ==
  /\ inflight = Idle /\ Pending > 0
  /\ \/ ~Wraps /\ (Pending < Header \/ \E n \in SizeWord : n > Pending)
     \/ Pending >= Header /\ TypeWord # Zero /\ TypeWord[2] # 1
  /\ error' = "internal"
  /\ UNCHANGED <<ring, producer, guest, kernel, unwritten, consumer, inflight, stream, done>>

\* mutant: only the header is consumed
AdvanceByHeader ==
  /\ inflight # Idle /\ inflight.cmd \notin Failing
  /\ consumer' = consumer + Header
  /\ done' = IF inflight.cmd = None THEN done ELSE Append(done, inflight.cmd)
  /\ inflight' = Idle
  /\ UNCHANGED <<ring, producer, guest, kernel, unwritten, error, stream>>

\* the handler succeeds, or the type is unknown: advance_consumer
Advance ==
  /\ inflight # Idle /\ inflight.cmd \notin Failing
  /\ consumer' = consumer + inflight.size
  /\ done' = IF inflight.cmd = None THEN done ELSE Append(done, inflight.cmd)
  /\ inflight' = Idle
  /\ UNCHANGED <<ring, producer, guest, kernel, unwritten, error, stream>>

\* the handler returns an error: it is recorded, and the loop goes on without
\* advance_consumer
HandlerFails ==
  /\ inflight.cmd \in Failing
  /\ error' \in {"shader", "internal"} /\ inflight' = Idle
  /\ UNCHANGED <<ring, producer, guest, kernel, unwritten, consumer, stream, done>>

-----------------------------------------------------------------------------
Host == Read \/ ReadFails \/ Advance \/ HandlerFails

Next ==
  \/ \E d \in Device :
       \/ \E c \in Command : WriteCommand(d, c)
       \/ Flush(d) \/ FlushCopy(d) \/ FlushPublish(d)
  \/ \E c \in KernelCommand : SubmitCopy(c)
  \/ SubmitPublish
  \/ Host

Spec == Init /\ [][Next]_vars

\* the threads keep running: a flush finishes when it can, the backend polls
Fairness ==
  /\ \A d \in Device : WF_vars(FlushCopy(d)) /\ WF_vars(FlushPublish(d))
  /\ WF_vars(SubmitPublish) /\ WF_vars(Host)

FairSpec == Spec /\ Fairness

-----------------------------------------------------------------------------
(* Properties *)

\* the places in the stream where a command begins that is not consumed
Begins == {k \in consumer + 1 .. producer : stream[k][2] = 1}

\* the i-th number of a set
Nth(S, i) == CHOOSE k \in S : Cardinality({j \in S : j <= k}) = i

\* the commands at those places, in order
Pended == [i \in 1 .. Cardinality(Begins) |-> stream[Nth(Begins, i)][1]]

Queue == INSTANCE CommandQueue WITH Command <- Commands, queue <- Pended

\* The bytes in the ring are a first-in first-out queue of commands: each command
\* published is processed once, in order, across wrap-around and full rings.
ImplementsQueue == Queue!Spec

\* "Waits if ring buffer is full (producer would catch up to consumer)": what is
\* published and not yet consumed is still in the ring, word for word.
RingIntact ==
  /\ consumer <= producer /\ producer <= consumer + RingSize
  /\ Len(stream) = producer
  /\ \A i \in consumer .. producer - 1 : ring[Slot(i)] = stream[i + 1]

\* "command_size: Total size including header": wherever the backend stands,
\* a command begins, so command_size is one.
CommandBoundary ==
  consumer < producer => TypeWord[2] = 1

\* read_pending_commands hands out a slice of the ring: no guest write touches the
\* command that is being processed.
InFlightIntact ==
  inflight.cmd # None =>
    \A i \in 1 .. inflight.size : ring[Slot(consumer + i - 1)] = <<inflight.cmd, i>>

\* "Updates producer pointer atomically": what one device published, another
\* device's flush does not take back.
ProducerNeverRetreats == [][producer' >= producer]_vars

\* Every command that is published is eventually processed; "Shader errors are
\* non-fatal - continue processing".
EverythingIsProcessed ==
  \A c \in Commands \ Failing :
    (\E i \in 1 .. Len(stream) : stream[i] = <<c, 1>>) ~> (\E i \in 1 .. Len(done) : done[i] = c)
=============================================================================
