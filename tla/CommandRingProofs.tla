------------------------- MODULE CommandRingProofs -------------------------
(***************************************************************************)
(* Proofs about CommandRing: the ring keeps what is published and not yet  *)
(* consumed, and implements a first-in first-out queue of commands, for    *)
(* every ring size and every set of commands, as long as one producer      *)
(* writes it: one user-mode device, or the kernel-mode driver.             *)
(***************************************************************************)
EXTENDS CommandRing, SequenceTheorems, FiniteSetTheorems, WellFoundedInduction, TLAPS

\* what driver/umd/pvgpu_umd.c takes for granted when it caches producer_ptr
OneProducer ==
  \/ Device = {}
  \/ KernelCommand = {} /\ \E d \in Device : Device = {d}

-----------------------------------------------------------------------------
(* Arithmetic of the ring *)

\* the quotient and the remainder a position has
LEMMA DivMod ==
  ASSUME NEW R \in Nat \ {0}, NEW i \in Nat
  PROVE  i = R * (i \div R) + (i % R) /\ i % R \in 0 .. R - 1 /\ i \div R \in Nat
OBVIOUS

\* two numbers less than R apart have different remainders
LEMMA RemaindersDiffer ==
  ASSUME NEW R \in Nat \ {0}, NEW i \in Nat, NEW j \in Nat, i < j, j < i + R
  PROVE  i % R # j % R
<1>1. i = R * (i \div R) + (i % R) /\ i \div R \in Nat /\ i % R \in 0 .. R - 1
  BY DivMod
<1>2. j = R * (j \div R) + (j % R) /\ j \div R \in Nat /\ j % R \in 0 .. R - 1
  BY DivMod
<1> SUFFICES ASSUME i % R = j % R PROVE FALSE
  OBVIOUS
<1> DEFINE a == i \div R  b == j \div R
<1>3. j - i = R * (b - a)
  <2>1. ASSUME NEW p \in Int, NEW q \in Int PROVE R * p - R * q = R * (p - q)
    OBVIOUS
  <2> QED BY <1>1, <1>2, <2>1
<1>4. b - a \in Int
  BY <1>1, <1>2
<1>5. ASSUME NEW d \in Int, d > 0, R * d < R PROVE FALSE
  <2>1. R * d >= R * 1
    BY <1>5
  <2> QED BY <2>1, <1>5
<1>6. ASSUME NEW d \in Int, R * d > 0 PROVE d > 0
  BY <1>6
<1>7. R * (b - a) > 0 /\ R * (b - a) < R
  BY <1>3
<1> HIDE DEF a, b
<1> QED BY <1>4, <1>5, <1>6, <1>7

\* two positions less than a ring apart have different slots
LEMMA SlotsDiffer ==
  ASSUME NEW i \in Nat, NEW j \in Nat, i < j, j < i + RingSize
  PROVE  Slot(i) # Slot(j)
BY RemaindersDiffer, ConstantsAssumption DEF Slot

\* a position has a slot of the ring
LEMMA SlotInRing == ASSUME NEW i \in Nat PROVE Slot(i) \in Slots
BY ConstantsAssumption, DivMod DEF Slot, Slots

\* what is aligned is still a number of words
LEMMA AlignedType == ASSUME NEW n \in Nat PROVE Aligned(n) \in Nat
<1>1. n + Align - 1 \in Nat
  BY ConstantsAssumption
<1>2. (n + Align - 1) \div Align \in Nat
  BY <1>1, ConstantsAssumption, DivMod
<1> QED BY <1>2, ConstantsAssumption DEF Aligned

\* a function on an initial segment of the numbers is a sequence
LEMMA FunctionIsSeq ==
  ASSUME NEW S, NEW n \in Nat, NEW f \in [1 .. n -> S]
  PROVE  f \in Seq(S) /\ Len(f) = n
<1>1. f \in Seq(S)
  BY SeqDef
<1>2. DOMAIN f = 1 .. Len(f) /\ Len(f) \in Nat
  BY <1>1, LenProperties
<1>3. 1 .. n = 1 .. Len(f)
  BY <1>2
<1>4. n = Len(f)
  BY <1>2, <1>3
<1> QED BY <1>1, <1>4

\* a command is staged and submitted as words
LEMMA WordsOfCommand ==
  ASSUME NEW c \in Commands
  PROVE  Staged(c) \in Seq(Word) /\ Image(c) \in Seq(Word) /\ Len(Image(c)) = Size[c]
<1>1. Size[c] \in Nat /\ Aligned(Size[c]) \in Nat
  BY ConstantsAssumption, AlignedType
<1>2. Staged(c) \in [1 .. Aligned(Size[c]) -> Word]
  BY <1>1 DEF Staged, Word
<1>3. Image(c) \in [1 .. Size[c] -> Word]
  BY <1>1 DEF Image, Word
<1> QED BY <1>1, <1>2, <1>3, FunctionIsSeq

\* CopyMemory leaves the words alone that are not overwritten
LEMMA CopiedKeeps ==
  ASSUME ring \in [Slots -> Word], NEW pos \in Nat, NEW words \in Seq(Word),
         NEW i \in Nat, i < pos, pos + Len(words) <= i + RingSize
  PROVE  Copied(pos, words)[Slot(i)] = ring[Slot(i)]
<1>1. ASSUME NEW k \in 1 .. Len(words) PROVE Slot(i) # Slot(pos + k - 1)
  <2>1. Len(words) \in Nat /\ pos + k - 1 \in Nat
    BY LenProperties
  <2>2. i < pos + k - 1 /\ pos + k - 1 < i + RingSize
    BY <2>1, ConstantsAssumption
  <2> QED BY <2>1, <2>2, SlotsDiffer
<1> QED BY <1>1, SlotInRing DEF Copied

\* and puts the others where they belong
LEMMA CopiedWrites ==
  ASSUME NEW pos \in Nat, NEW words \in Seq(Word), Len(words) <= RingSize,
         NEW k \in 1 .. Len(words)
  PROVE  Copied(pos, words)[Slot(pos + k - 1)] = words[k]
<1>0. Len(words) \in Nat /\ RingSize \in Nat
  BY LenProperties, ConstantsAssumption
<1>1. ASSUME NEW m \in 1 .. Len(words), Slot(pos + k - 1) = Slot(pos + m - 1)
      PROVE  m = k
  <2>1. CASE m < k
    BY <1>0, <1>1, <2>1, SlotsDiffer
  <2>2. CASE k < m
    BY <1>0, <1>1, <2>2, SlotsDiffer
  <2> QED BY <2>1, <2>2
<1>2. (CHOOSE m \in 1 .. Len(words) : Slot(pos + k - 1) = Slot(pos + m - 1)) = k
  BY <1>1
<1>3. Slot(pos + k - 1) \in Slots
  BY SlotInRing
<1> QED BY <1>2, <1>3 DEF Copied

\* the ring stays a ring of words
LEMMA CopiedType ==
  ASSUME ring \in [Slots -> Word], NEW pos, NEW words \in Seq(Word)
  PROVE  Copied(pos, words) \in [Slots -> Word]
<1>1. ASSUME NEW k \in 1 .. Len(words) PROVE words[k] \in Word
  BY ElementOfSeq
<1> QED BY <1>1 DEF Copied

-----------------------------------------------------------------------------
(* Types *)

\* the backend's view of the words at the consumer
LEMMA SizeWordType == TypeOK => SizeWord \subseteq Nat
<1> SUFFICES ASSUME TypeOK PROVE SizeWord \subseteq Nat
  OBVIOUS
<1> DEFINE w == ring[Slot(consumer + 1)]
<1>1. w \in Word
  BY SlotInRing DEF TypeOK
<1>2. w # Zero => w[1] \in Commands
  BY <1>1 DEF Word
<1>3. \A c \in Commands : Size[c] \in Nat
  BY ConstantsAssumption
<1>4. 0 .. RingSize \subseteq Nat /\ {0} \subseteq Nat
  BY ConstantsAssumption
<1>5. CASE w = Zero
  BY <1>4, <1>5 DEF SizeWord
<1>6. CASE w # Zero /\ w[2] = 2
  BY <1>2, <1>3, <1>6 DEF SizeWord
<1>7. CASE w # Zero /\ w[2] # 2
  BY <1>4, <1>7 DEF SizeWord
<1> QED BY <1>5, <1>6, <1>7

LEMMA TypeWordType ==
  TypeOK => TypeWord \in Word /\ (TypeWord[2] = 1 => TypeWord[1] \in Commands)
<1> SUFFICES ASSUME TypeOK PROVE TypeWord \in Word /\ (TypeWord[2] = 1 => TypeWord[1] \in Commands)
  OBVIOUS
<1>1. TypeWord \in Word
  BY SlotInRing DEF TypeOK, TypeWord
<1> QED BY <1>1 DEF Word, Zero

LEMMA TypeStep == TypeOK /\ [Next]_vars => TypeOK'
<1> SUFFICES ASSUME TypeOK, [Next]_vars PROVE TypeOK'
  OBVIOUS
<1> USE DEF TypeOK, guest, kernel, host
<1>1. ASSUME NEW d \in Device, NEW c \in Command, WriteCommand(d, c) PROVE TypeOK'
  <2>1. Staged(c) \in Seq(Word)
    BY WordsOfCommand DEF Commands
  <2>2. staging[d] \o Staged(c) \in Seq(Word)
    BY <2>1, ConcatProperties
  <2>3. staging' \in [Device -> Seq(Word)]
    BY <1>1, <2>2 DEF WriteCommand
  <2> QED BY <1>1, <2>3 DEF WriteCommand
<1>2. ASSUME NEW d \in Device, Flush(d) PROVE TypeOK'
  BY <1>2 DEF Flush
<1>3. ASSUME NEW d \in Device, FlushCopy(d) PROVE TypeOK'
  <2>1. ring' \in [Slots -> Word]
    BY <1>3, CopiedType DEF FlushCopy
  <2> QED BY <1>3, <2>1 DEF FlushCopy
<1>4. ASSUME NEW d \in Device, FlushPublish(d) PROVE TypeOK'
  <2>1. local' \in [Device -> Nat] /\ producer' \in Nat
    BY <1>4, LenProperties DEF FlushPublish
  <2>2. stream' \in Seq(Word)
    BY <1>4, ConcatProperties DEF FlushPublish
  <2>3. <<>> \in Seq(Word)
    BY EmptySeq
  <2>4. staging' \in [Device -> Seq(Word)]
    BY <1>4, <2>3 DEF FlushPublish
  <2> QED BY <1>4, <2>1, <2>2, <2>4 DEF FlushPublish
<1>5. ASSUME NEW c \in KernelCommand, SubmitCopy(c) PROVE TypeOK'
  <2>1. ring' \in [Slots -> Word]
    BY <1>5, CopiedType, WordsOfCommand DEF SubmitCopy, Commands
  <2> QED BY <1>5, <2>1 DEF SubmitCopy
<1>6. ASSUME SubmitPublish PROVE TypeOK'
  <2>1. submitting \in Commands
    BY <1>6 DEF SubmitPublish, Commands
  <2>2. stream' \in Seq(Word)
    BY <1>6, <2>1, WordsOfCommand, ConcatProperties DEF SubmitPublish
  <2>3. producer' \in Nat
    BY <1>6, <2>1, ConstantsAssumption DEF SubmitPublish
  <2> QED BY <1>6, <2>2, <2>3 DEF SubmitPublish
<1>7. ASSUME Read PROVE TypeOK'
  <2>1. inflight' \in [cmd : Commands \cup {None}, size : Nat]
    BY <1>7, SizeWordType, TypeWordType DEF Read
  <2> QED BY <1>7, <2>1 DEF Read
<1>8. ASSUME ReadFails PROVE TypeOK'
  BY <1>8 DEF ReadFails
<1>9. ASSUME Advance PROVE TypeOK'
  <2>1. inflight.cmd \in Commands \cup {None} /\ inflight.size \in Nat
    OBVIOUS
  <2>2. done' \in Seq(Commands)
    BY <1>9, <2>1, AppendProperties DEF Advance
  <2>3. consumer' \in Nat
    BY <1>9, <2>1 DEF Advance
  <2> QED BY <1>9, <2>2, <2>3 DEF Advance, Idle
<1>10. ASSUME HandlerFails PROVE TypeOK'
  BY <1>10 DEF HandlerFails, Idle
<1>11. CASE UNCHANGED vars
  BY <1>11 DEF vars
<1> QED
  BY <1>1, <1>2, <1>3, <1>4, <1>5, <1>6, <1>7, <1>8, <1>9, <1>10, <1>11 DEF Next, Host

\* The drivers and the backend keep the types of their state, however many of
\* them share the ring.
THEOREM TypeCorrect == Spec => []TypeOK
<1>1. Init => TypeOK
  <2> SUFFICES ASSUME Init PROVE TypeOK
    OBVIOUS
  <2>1. <<>> \in Seq(Word) /\ <<>> \in Seq(Commands)
    BY EmptySeq
  <2>2. Zero \in Word
    BY DEF Word
  <2> QED BY <2>1, <2>2 DEF Init, InitWith, TypeOK, Idle
<1> QED BY <1>1, TypeStep, PTL DEF Spec

-----------------------------------------------------------------------------
(* What is published stays in the ring until it is consumed *)

\* words are in the ring from position pos on, behind the consumer by a ring at most
InPlace(pos, words) ==
  /\ pos + Len(words) <= consumer + RingSize
  /\ \A i \in 1 .. Len(words) : ring[Slot(pos + i - 1)] = words[i]

\* a single producer works at the published position
ProducerInv ==
  /\ \A d \in Device :
       local[d] = producer /\ (flushing[d] = "copied" => InPlace(producer, staging[d]))
  /\ submitting # None => reserved = producer /\ InPlace(producer, Image(submitting))

\* the backend never consumes more than is published
ConsumerInv == inflight.size <= producer - consumer

RingInv == TypeOK /\ RingIntact /\ ProducerInv /\ ConsumerInv

\* copying at the producer what fits leaves the published words alone
LEMMA CopyStep ==
  ASSUME TypeOK, RingIntact, NEW words \in Seq(Word),
         producer + Len(words) <= consumer + RingSize,
         ring' = Copied(producer, words), UNCHANGED <<producer, consumer, stream>>
  PROVE  RingIntact' /\ InPlace(producer, words)'
<1> USE DEF TypeOK
<1>1. Len(words) \in Nat /\ RingSize \in Nat
  BY LenProperties, ConstantsAssumption
<1>2. ASSUME NEW i \in consumer .. producer - 1 PROVE ring'[Slot(i)] = ring[Slot(i)]
  <2>1. i \in Nat /\ i < producer /\ producer + Len(words) <= i + RingSize
    BY <1>1
  <2> QED BY <2>1, CopiedKeeps
<1>3. RingIntact'
  BY <1>2 DEF RingIntact
<1>4. Len(words) <= RingSize
  BY <1>1 DEF RingIntact
<1>5. ASSUME NEW i \in 1 .. Len(words) PROVE ring'[Slot(producer + i - 1)] = words[i]
  <2>1. producer \in Nat
    OBVIOUS
  <2>2. \A k \in 1 .. Len(words) : Copied(producer, words)[Slot(producer + k - 1)] = words[k]
    BY <1>4, <2>1, CopiedWrites, Zenon
  <2> QED BY <2>2
<1> QED BY <1>3, <1>5 DEF InPlace

\* publishing words that are in place
LEMMA PublishStep ==
  ASSUME TypeOK, RingIntact, NEW words \in Seq(Word), InPlace(producer, words),
         producer' = producer + Len(words), stream' = stream \o words,
         UNCHANGED <<ring, consumer>>
  PROVE  RingIntact'
<1> USE DEF TypeOK, RingIntact
<1>1. Len(words) \in Nat /\ Len(stream') = Len(stream) + Len(words)
  BY LenProperties, ConcatProperties
<1>2. ASSUME NEW i \in consumer .. producer + Len(words) - 1
      PROVE  ring[Slot(i)] = (stream \o words)[i + 1]
  <2>1. CASE i < producer
    <3>1. i \in consumer .. producer - 1 /\ i + 1 \in 1 .. Len(stream)
      BY <1>1, <2>1
    <3>2. (stream \o words)[i + 1] = stream[i + 1]
      BY <3>1, ConcatProperties
    <3> QED BY <3>1, <3>2
  <2>2. CASE i >= producer
    <3> DEFINE k == i - producer + 1
    <3>1. k \in 1 .. Len(words) /\ producer + k - 1 = i /\ i + 1 = Len(stream) + k
      BY <1>1, <2>2
    <3>2. ring[Slot(producer + k - 1)] = words[k]
      BY <3>1 DEF InPlace
    <3>3. (stream \o words)[Len(stream) + k] = words[k]
      BY <1>1, <3>1, ConcatProperties
    <3> HIDE DEF k
    <3> QED BY <3>1, <3>2, <3>3
  <2> QED BY <1>1, <2>1, <2>2
<1> QED BY <1>1, <1>2 DEF InPlace

\* a step that leaves the ring, the pointers and the producers alone
LEMMA QuietStep ==
  ASSUME RingInv, TypeOK', ConsumerInv',
         UNCHANGED <<ring, producer, consumer, stream, local, kernel>>,
         \A d \in Device : flushing'[d] = "copied" =>
                             flushing[d] = "copied" /\ staging'[d] = staging[d]
  PROVE  RingInv'
<1>1. RingIntact'
  BY DEF RingInv, RingIntact
<1>2. ProducerInv'
  BY DEF RingInv, ProducerInv, InPlace, kernel
<1> QED BY <1>1, <1>2 DEF RingInv

LEMMA RingStep ==
  ASSUME OneProducer, RingInv, [Next]_vars
  PROVE  RingInv'
<1>0. TypeOK'
  BY TypeStep DEF RingInv
<1>a. RingSize \in Nat /\ \A c \in Commands : Size[c] \in Nat
  BY ConstantsAssumption
<1>b. \A d, e \in Device : d = e
  BY DEF OneProducer
<1>c. \A d \in Device : submitting = None /\ submitting' = None
  <2> SUFFICES ASSUME NEW d \in Device PROVE submitting = None /\ submitting' = None
    OBVIOUS
  <2>1. KernelCommand = {}
    BY DEF OneProducer
  <2> QED BY <1>0, <2>1 DEF RingInv, TypeOK
<1>1. ASSUME NEW d \in Device, NEW c \in Command, WriteCommand(d, c) PROVE RingInv'
  <2>1. \A e \in Device : flushing'[e] # "copied"
    BY <1>1, <1>b DEF WriteCommand
  <2> QED
    BY <1>1, <1>0, <2>1, QuietStep DEF WriteCommand, kernel, host, RingInv, ConsumerInv
<1>2. ASSUME NEW d \in Device, Flush(d) PROVE RingInv'
  <2>1. \A e \in Device : flushing'[e] # "copied"
    BY <1>2, <1>b DEF Flush, RingInv, TypeOK
  <2> QED
    BY <1>2, <1>0, <2>1, QuietStep DEF Flush, kernel, host, RingInv, ConsumerInv
<1>3. ASSUME NEW d \in Device, FlushCopy(d) PROVE RingInv'
  <2>1. local[d] = producer /\ staging[d] \in Seq(Word)
    BY DEF RingInv, ProducerInv, TypeOK
  <2>2. producer + Len(staging[d]) <= consumer + RingSize
    BY <1>3, <1>a, <2>1, LenProperties DEF FlushCopy, RingInv, TypeOK
  <2>3. RingIntact' /\ InPlace(producer, staging[d])'
    BY <1>3, <2>1, <2>2, CopyStep DEF FlushCopy, host, RingInv
  <2>4. ProducerInv'
    BY <1>3, <1>b, <1>c, <2>3 DEF FlushCopy, RingInv, ProducerInv
  <2> QED BY <1>3, <1>0, <2>3, <2>4 DEF FlushCopy, host, RingInv, ConsumerInv
<1>4. ASSUME NEW d \in Device, FlushPublish(d) PROVE RingInv'
  <2>1. local[d] = producer /\ InPlace(producer, staging[d]) /\ staging[d] \in Seq(Word)
    BY <1>4 DEF FlushPublish, RingInv, ProducerInv, TypeOK
  <2>2. producer' = producer + Len(staging[d]) /\ local'[d] = producer'
    BY <1>4, <2>1 DEF FlushPublish, RingInv, TypeOK
  <2>3. RingIntact'
    BY <1>4, <2>1, <2>2, PublishStep DEF FlushPublish, host, RingInv
  <2>4. \A e \in Device : flushing'[e] = "no"
    BY <1>4, <1>b DEF FlushPublish, RingInv, TypeOK
  <2>5. ProducerInv'
    BY <1>b, <1>c, <2>2, <2>4 DEF ProducerInv
  <2>6. ConsumerInv'
    BY <1>4, <2>1, <2>2, LenProperties DEF FlushPublish, host, RingInv, ConsumerInv, TypeOK
  <2> QED BY <1>0, <2>3, <2>5, <2>6 DEF RingInv
<1>5. ASSUME NEW c \in KernelCommand, SubmitCopy(c) PROVE RingInv'
  <2>1. Device = {}
    BY DEF OneProducer
  <2>2. Image(c) \in Seq(Word) /\ Len(Image(c)) = Size[c] /\ Size[c] \in Nat
    BY <1>a, WordsOfCommand DEF Commands
  <2>3. producer + Len(Image(c)) <= consumer + RingSize
    BY <1>5, <1>a, <2>2 DEF SubmitCopy, RingInv, TypeOK
  <2>4. RingIntact' /\ InPlace(producer, Image(c))'
    BY <1>5, <2>2, <2>3, CopyStep DEF SubmitCopy, host, RingInv
  <2>5. ProducerInv'
    BY <1>5, <2>1, <2>4 DEF SubmitCopy, ProducerInv, Image
  <2> QED BY <1>5, <1>0, <2>4, <2>5 DEF SubmitCopy, host, RingInv, ConsumerInv
<1>6. ASSUME SubmitPublish PROVE RingInv'
  <2>1. submitting \in Commands /\ reserved = producer /\ InPlace(producer, Image(submitting))
    BY <1>6 DEF SubmitPublish, RingInv, ProducerInv, TypeOK, Commands
  <2>2. Image(submitting) \in Seq(Word) /\ Len(Image(submitting)) = Size[submitting]
    BY <2>1, WordsOfCommand
  <2>3. RingIntact'
    BY <1>6, <2>1, <2>2, PublishStep DEF SubmitPublish, host, RingInv
  <2>4. ProducerInv'
    BY <1>6, <1>c DEF SubmitPublish, ProducerInv
  <2>5. ConsumerInv'
    BY <1>6, <1>a, <2>1 DEF SubmitPublish, host, RingInv, ConsumerInv, TypeOK
  <2> QED BY <1>0, <2>3, <2>4, <2>5 DEF RingInv
<1>7. ASSUME Read PROVE RingInv'
  <2>1. PICK n \in SizeWord : n <= Pending /\ inflight'.size = n
    BY <1>7 DEF Read
  <2>2. Pending = producer - consumer
    BY DEF RingInv, RingIntact, Pending, TypeOK
  <2>3. ConsumerInv'
    BY <1>7, <2>1, <2>2 DEF Read, ConsumerInv
  <2> QED BY <1>7, <1>0, <2>3, QuietStep DEF Read, guest, kernel
<1>8. ASSUME ReadFails PROVE RingInv'
  BY <1>8, <1>0, QuietStep DEF ReadFails, guest, kernel, RingInv, ConsumerInv
<1>9. ASSUME Advance PROVE RingInv'
  <2>1. consumer' = consumer + inflight.size /\ inflight.size \in Nat /\ consumer' <= producer
    BY <1>9 DEF Advance, RingInv, ConsumerInv, TypeOK
  <2>2. RingIntact'
    BY <1>9, <1>a, <2>1 DEF Advance, RingInv, RingIntact, TypeOK
  <2>3. \A pos \in Nat, words \in Seq(Word) : InPlace(pos, words) => InPlace(pos, words)'
    BY <1>9, <1>a, <2>1, LenProperties DEF Advance, InPlace, RingInv, TypeOK
  <2>4. \A c \in Commands : Image(c) \in Seq(Word)
    BY WordsOfCommand
  <2>5. ProducerInv'
    BY <1>9, <2>3, <2>4 DEF Advance, guest, kernel, RingInv, ProducerInv, TypeOK, Commands
  <2>6. ConsumerInv'
    BY <1>9, <1>0, <2>1 DEF Advance, Idle, ConsumerInv, RingInv, TypeOK
  <2> QED BY <1>0, <2>2, <2>5, <2>6 DEF RingInv
<1>10. ASSUME HandlerFails PROVE RingInv'
  <2>1. ConsumerInv'
    BY <1>10, <1>0 DEF HandlerFails, Idle, ConsumerInv, RingInv, RingIntact, TypeOK
  <2> QED BY <1>10, <1>0, <2>1, QuietStep DEF HandlerFails, guest, kernel
<1>11. CASE UNCHANGED vars
  BY <1>11, <1>0, QuietStep DEF vars, guest, kernel, host, RingInv, ConsumerInv
<1> QED
  BY <1>1, <1>2, <1>3, <1>4, <1>5, <1>6, <1>7, <1>8, <1>9, <1>10, <1>11 DEF Next, Host

LEMMA RingInit == Init => RingInv
<1> SUFFICES ASSUME Init PROVE RingInv
  OBVIOUS
<1>1. TypeOK
  <2>1. <<>> \in Seq(Word) /\ <<>> \in Seq(Commands)
    BY EmptySeq
  <2>2. Zero \in Word
    BY DEF Word
  <2> QED BY <2>1, <2>2 DEF Init, InitWith, TypeOK, Idle
<1>2. RingIntact
  BY ConstantsAssumption, EmptySeq DEF Init, InitWith, RingIntact
<1>3. ProducerInv /\ ConsumerInv
  BY DEF Init, InitWith, ProducerInv, ConsumerInv, Idle
<1> QED BY <1>1, <1>2, <1>3 DEF RingInv

\* A ring with one producer keeps every word that is published and not yet
\* consumed, across wrap-around, full rings and handlers that fail: the space check
\* of PvgpuFlushCommandBuffer and of PvgpuSubmitToRing is enough.
THEOREM RingStaysIntact == ASSUME OneProducer PROVE Spec => []RingIntact
<1>1. RingInv /\ [Next]_vars => RingInv'
  BY RingStep
<1>2. RingInv => RingIntact
  BY DEF RingInv
<1> QED BY <1>1, <1>2, RingInit, PTL DEF Spec

-----------------------------------------------------------------------------
(* The command the backend processes does not change under its feet *)

\* where a command begins, all of it follows
WellFormed(words) ==
  \A k \in 1 .. Len(words) :
    words[k][2] = 1 =>
      /\ k + Size[words[k][1]] - 1 <= Len(words)
      /\ \A j \in 1 .. Size[words[k][1]] : words[k + j - 1] = <<words[k][1], j>>

FlightInv ==
  /\ RingInv /\ InFlightIntact
  /\ WellFormed(stream) /\ \A d \in Device : WellFormed(staging[d])

LEMMA WellFormedCommand ==
  ASSUME NEW c \in Commands
  PROVE  WellFormed(Staged(c)) /\ WellFormed(Image(c))
<1>1. Size[c] \in Nat /\ Size[c] >= 2 /\ Aligned(Size[c]) \in Nat
  BY ConstantsAssumption, AlignedType
<1>2. Size[c] <= Aligned(Size[c])
  <2>1. Align \in Nat \ {0} /\ Size[c] + Align - 1 \in Nat
    BY <1>1, ConstantsAssumption
  <2> DEFINE q == (Size[c] + Align - 1) \div Align  r == (Size[c] + Align - 1) % Align
  <2>2. Size[c] + Align - 1 = Align * q + r /\ r \in 0 .. Align - 1 /\ q \in Nat
    BY <2>1, DivMod
  <2>3. Align * q = q * Align
    BY <2>1, <2>2
  <2>4. Align * q \in Int
    BY <2>1, <2>2
  <2>5. Aligned(Size[c]) = q * Align
    BY DEF Aligned
  <2> HIDE DEF q, r
  <2> QED BY <1>1, <2>1, <2>2, <2>3, <2>4, <2>5
<1>3. WellFormed(Staged(c))
  <2> DEFINE w == Staged(c)
  <2>1. w \in [1 .. Aligned(Size[c]) -> Word]
    BY <1>1 DEF Staged, Word
  <2>2. Len(w) = Aligned(Size[c])
    BY <1>1, <2>1, FunctionIsSeq
  <2>3. \A i \in 1 .. Aligned(Size[c]) : w[i] = IF i <= Size[c] THEN <<c, i>> ELSE Zero
    BY DEF Staged
  <2> HIDE DEF w
  <2>4. ASSUME NEW k \in 1 .. Len(w), w[k][2] = 1 PROVE k = 1 /\ w[k] = <<c, 1>>
    BY <1>1, <2>2, <2>3, <2>4 DEF Zero
  <2>5. \A j \in 1 .. Size[c] : w[j] = <<c, j>>
    <3> SUFFICES ASSUME NEW j \in 1 .. Size[c] PROVE w[j] = <<c, j>>
      OBVIOUS
    <3>1. j \in 1 .. Aligned(Size[c]) /\ j <= Size[c]
      BY <1>1, <1>2
    <3> QED BY <2>3, <3>1
  <2>6. WellFormed(w)
    <3> SUFFICES ASSUME NEW k \in 1 .. Len(w), w[k][2] = 1
                 PROVE  /\ k + Size[w[k][1]] - 1 <= Len(w)
                        /\ \A j \in 1 .. Size[w[k][1]] : w[k + j - 1] = <<w[k][1], j>>
      BY DEF WellFormed
    <3>1. k = 1 /\ w[k][1] = c
      BY <2>4
    <3> QED BY <1>1, <1>2, <2>2, <2>5, <3>1
  <2> QED BY <2>6 DEF w
<1>4. WellFormed(Image(c))
  <2> DEFINE w == Image(c)
  <2>1. Len(w) = Size[c]
    BY WordsOfCommand
  <2>2. \A i \in 1 .. Size[c] : w[i] = <<c, i>>
    BY DEF Image
  <2> HIDE DEF w
  <2>3. WellFormed(w)
    <3> SUFFICES ASSUME NEW k \in 1 .. Len(w), w[k][2] = 1
                 PROVE  /\ k + Size[w[k][1]] - 1 <= Len(w)
                        /\ \A j \in 1 .. Size[w[k][1]] : w[k + j - 1] = <<w[k][1], j>>
      BY DEF WellFormed
    <3>1. k = 1 /\ w[k][1] = c
      BY <2>1, <2>2
    <3> QED BY <1>1, <2>1, <2>2, <3>1
  <2> QED BY <2>3 DEF w
<1> QED BY <1>3, <1>4

LEMMA WellFormedConcat ==
  ASSUME NEW u \in Seq(Word), NEW v \in Seq(Word), WellFormed(u), WellFormed(v)
  PROVE  WellFormed(u \o v)
<1> DEFINE w == u \o v
<1>1. Len(u) \in Nat /\ Len(v) \in Nat /\ Len(w) = Len(u) + Len(v)
  BY LenProperties, ConcatProperties
<1>2. \A k \in 1 .. Len(u) : w[k] = u[k]
  BY <1>1, ConcatProperties
<1>3. \A k \in 1 .. Len(v) : w[Len(u) + k] = v[k]
  BY <1>1, ConcatProperties
<1> HIDE DEF w
<1> SUFFICES ASSUME NEW k \in 1 .. Len(w), w[k][2] = 1
             PROVE  /\ k + Size[w[k][1]] - 1 <= Len(w)
                    /\ \A j \in 1 .. Size[w[k][1]] : w[k + j - 1] = <<w[k][1], j>>
  BY DEF WellFormed, w
<1>4. ASSUME NEW x \in Seq(Word), NEW i \in 1 .. Len(x), x[i][2] = 1 PROVE Size[x[i][1]] \in Nat
  <2>1. x[i] \in Word /\ x[i] # Zero
    BY <1>4, ElementOfSeq DEF Zero
  <2>2. x[i][1] \in Commands
    BY <2>1 DEF Word
  <2> QED BY <2>2, ConstantsAssumption
<1>5. CASE k <= Len(u)
  <2>1. k \in 1 .. Len(u) /\ w[k] = u[k]
    BY <1>1, <1>2, <1>5
  <2>2. k + Size[u[k][1]] - 1 <= Len(u) /\ \A j \in 1 .. Size[u[k][1]] : u[k + j - 1] = <<u[k][1], j>>
    BY <2>1 DEF WellFormed
  <2> DEFINE c == u[k][1]  z == Size[c]
  <2>3. z \in Nat
    BY <1>4, <2>1
  <2>4. k + z - 1 <= Len(u) /\ \A j \in 1 .. z : u[k + j - 1] = <<c, j>>
    BY <2>2
  <2>5. w[k][1] = c /\ Size[w[k][1]] = z
    BY <2>1
  <2> HIDE DEF c, z
  <2>6. \A j \in 1 .. z : w[k + j - 1] = u[k + j - 1]
    <3> SUFFICES ASSUME NEW j \in 1 .. z PROVE w[k + j - 1] = u[k + j - 1]
      OBVIOUS
    <3>1. k + j - 1 \in 1 .. Len(u)
      BY <1>1, <2>1, <2>3, <2>4
    <3> QED BY <1>2, <3>1
  <2>7. k + z - 1 <= Len(w)
    BY <1>1, <2>1, <2>3, <2>4
  <2> QED BY <2>4, <2>5, <2>6, <2>7
<1>6. CASE k > Len(u)
  <2> DEFINE m == k - Len(u)
  <2>0. m \in 1 .. Len(v) /\ k = Len(u) + m
    BY <1>1, <1>6
  <2> HIDE DEF m
  <2>1. m \in 1 .. Len(v) /\ k = Len(u) + m /\ w[k] = v[m]
    BY <1>3, <2>0
  <2>2. m + Size[v[m][1]] - 1 <= Len(v) /\ \A j \in 1 .. Size[v[m][1]] : v[m + j - 1] = <<v[m][1], j>>
    BY <2>1 DEF WellFormed
  <2> DEFINE c == v[m][1]  z == Size[c]
  <2>3. z \in Nat
    BY <1>4, <2>1
  <2>4. m + z - 1 <= Len(v) /\ \A j \in 1 .. z : v[m + j - 1] = <<c, j>>
    BY <2>2
  <2>5. w[k][1] = c /\ Size[w[k][1]] = z
    BY <2>1
  <2> HIDE DEF c, z
  <2>6. \A j \in 1 .. z : w[k + j - 1] = v[m + j - 1]
    <3> SUFFICES ASSUME NEW j \in 1 .. z PROVE w[k + j - 1] = v[m + j - 1]
      OBVIOUS
    <3>1. m + j - 1 \in 1 .. Len(v) /\ k + j - 1 = Len(u) + (m + j - 1)
      BY <1>1, <2>1, <2>3, <2>4
    <3> QED BY <1>3, <3>1
  <2>7. k + z - 1 <= Len(w)
    BY <1>1, <2>1, <2>3, <2>4
  <2> QED BY <2>4, <2>5, <2>6, <2>7
<1> QED BY <1>1, <1>5, <1>6

\* what read_pending_commands hands out is one whole command
LEMMA ReadWhole == ASSUME FlightInv, Read PROVE InFlightIntact'
<1> USE DEF FlightInv, RingInv, TypeOK
<1> SUFFICES ASSUME inflight'.cmd # None
             PROVE  \A i \in 1 .. inflight'.size :
                      ring[Slot(consumer + i - 1)] = <<inflight'.cmd, i>>
  BY DEF Read, InFlightIntact
<1> DEFINE c == TypeWord[1]
<1>1. PICK n \in SizeWord :
        /\ n <= Pending
        /\ inflight' = [cmd |-> IF TypeWord[2] = 1 THEN TypeWord[1] ELSE None, size |-> n]
  BY DEF Read
<1>2. TypeWord[2] = 1 /\ inflight'.cmd = c /\ inflight'.size = n
  BY <1>1
<1>3. c \in Commands /\ Size[c] \in Nat /\ Size[c] >= 2
  BY <1>2, TypeWordType, ConstantsAssumption
<1>4. consumer < producer
  BY ConstantsAssumption DEF Read, Pending
<1>5. TypeWord = stream[consumer + 1] /\ consumer + 1 \in 1 .. Len(stream)
  BY <1>4 DEF RingIntact, TypeWord
<1> HIDE DEF c
<1>6. /\ consumer + 1 + Size[c] - 1 <= Len(stream)
      /\ \A j \in 1 .. Size[c] : stream[consumer + 1 + j - 1] = <<c, j>>
  BY <1>2, <1>5 DEF WellFormed, c
<1>7. \A i \in 1 .. Size[c] : ring[Slot(consumer + i - 1)] = <<c, i>>
  <2> SUFFICES ASSUME NEW i \in 1 .. Size[c] PROVE ring[Slot(consumer + i - 1)] = <<c, i>>
    OBVIOUS
  <2>1. consumer + i - 1 \in consumer .. producer - 1
    BY <1>3, <1>6 DEF RingIntact
  <2>2. ring[Slot(consumer + i - 1)] = stream[(consumer + i - 1) + 1]
    BY <2>1 DEF RingIntact
  <2>3. (consumer + i - 1) + 1 = consumer + 1 + i - 1
    BY <1>3
  <2> QED BY <1>6, <2>2, <2>3
<1>8. ring[Slot(consumer + 1)] = <<c, 2>>
  <2>1. 2 \in 1 .. Size[c] /\ consumer + 2 - 1 = consumer + 1
    BY <1>3
  <2> QED BY <1>7, <2>1
<1>9. n = Size[c]
  BY <1>8 DEF SizeWord, Zero
<1> QED BY <1>2, <1>7, <1>9

\* no step of a producer touches it
LEMMA FlightKept ==
  ASSUME RingInv, RingInv', InFlightIntact, UNCHANGED <<inflight, consumer>>,
         UNCHANGED ring \/ UNCHANGED <<stream, producer>>
  PROVE  InFlightIntact'
<1>1. CASE UNCHANGED ring
  BY <1>1 DEF InFlightIntact
<1>2. CASE UNCHANGED <<stream, producer>>
  <2> USE DEF RingInv, TypeOK
  <2> SUFFICES ASSUME inflight.cmd # None, NEW i \in 1 .. inflight.size
               PROVE  ring'[Slot(consumer + i - 1)] = ring[Slot(consumer + i - 1)]
    BY DEF InFlightIntact
  <2>1. consumer + i - 1 \in consumer .. producer - 1
    BY DEF ConsumerInv
  <2>2. ring'[Slot(consumer + i - 1)] = stream[(consumer + i - 1) + 1]
    BY <1>2, <2>1 DEF RingIntact
  <2> QED BY <2>1, <2>2 DEF RingIntact
<1> QED BY <1>1, <1>2

LEMMA FlightStep ==
  ASSUME OneProducer, FlightInv, [Next]_vars
  PROVE  FlightInv'
<1> USE DEF FlightInv
<1>0. RingInv' /\ TypeOK
  BY RingStep DEF RingInv
<1>1. ASSUME NEW d \in Device, NEW c \in Command, WriteCommand(d, c) PROVE FlightInv'
  <2>1. Staged(c) \in Seq(Word) /\ WellFormed(Staged(c)) /\ staging[d] \in Seq(Word)
    BY <1>0, WordsOfCommand, WellFormedCommand DEF Commands, TypeOK
  <2>2. WellFormed(staging[d] \o Staged(c))
    BY <2>1, WellFormedConcat
  <2>3. \A e \in Device : staging'[e] = IF e = d THEN staging[d] \o Staged(c) ELSE staging[e]
    BY <1>0, <1>1 DEF WriteCommand, TypeOK
  <2>4. \A e \in Device : WellFormed(staging'[e])
    BY <2>2, <2>3
  <2> QED BY <1>0, <1>1, <2>4, FlightKept DEF WriteCommand, host, WellFormed
<1>2. ASSUME NEW d \in Device, Flush(d) PROVE FlightInv'
  BY <1>0, <1>2, FlightKept DEF Flush, host, WellFormed
<1>3. ASSUME NEW d \in Device, FlushCopy(d) PROVE FlightInv'
  BY <1>0, <1>3, FlightKept DEF FlushCopy, host, WellFormed
<1>4. ASSUME NEW d \in Device, FlushPublish(d) PROVE FlightInv'
  <2>1. WellFormed(stream')
    BY <1>0, <1>4, WellFormedConcat DEF FlushPublish, TypeOK
  <2>2. \A e \in Device : staging'[e] = IF e = d THEN <<>> ELSE staging[e]
    BY <1>0, <1>4 DEF FlushPublish, TypeOK
  <2>3. WellFormed(<<>>)
    BY EmptySeq DEF WellFormed
  <2>4. \A e \in Device : WellFormed(staging'[e])
    BY <2>2, <2>3
  <2> QED BY <1>0, <1>4, <2>1, <2>4, FlightKept DEF FlushPublish, host
<1>5. ASSUME NEW c \in KernelCommand, SubmitCopy(c) PROVE FlightInv'
  BY <1>0, <1>5, FlightKept DEF SubmitCopy, guest, host, WellFormed
<1>6. ASSUME SubmitPublish PROVE FlightInv'
  <2>1. submitting \in Commands
    BY <1>0, <1>6 DEF SubmitPublish, TypeOK, Commands
  <2>2. WellFormed(stream')
    BY <1>0, <1>6, <2>1, WellFormedConcat, WellFormedCommand, WordsOfCommand
    DEF SubmitPublish, TypeOK
  <2> QED BY <1>0, <1>6, <2>2, FlightKept DEF SubmitPublish, guest, host, WellFormed
<1>7. ASSUME Read PROVE FlightInv'
  BY <1>0, <1>7, ReadWhole DEF Read, guest, WellFormed
<1>8. ASSUME ReadFails PROVE FlightInv'
  BY <1>0, <1>8, FlightKept DEF ReadFails, guest, WellFormed
<1>9. ASSUME Advance PROVE FlightInv'
  <2>1. InFlightIntact'
    BY <1>9 DEF Advance, Idle, InFlightIntact
  <2> QED BY <1>0, <1>9, <2>1 DEF Advance, guest, WellFormed
<1>10. ASSUME HandlerFails PROVE FlightInv'
  <2>1. InFlightIntact'
    BY <1>10 DEF HandlerFails, Idle, InFlightIntact
  <2> QED BY <1>0, <1>10, <2>1 DEF HandlerFails, guest, WellFormed
<1>11. CASE UNCHANGED vars
  BY <1>0, <1>11, FlightKept DEF vars, guest, host, WellFormed
<1> QED
  BY <1>1, <1>2, <1>3, <1>4, <1>5, <1>6, <1>7, <1>8, <1>9, <1>10, <1>11 DEF Next, Host

\* With one producer, no write of the guest reaches the command the backend is
\* processing in place, whatever the sizes of the commands and of the ring.
THEOREM CommandInFlightIsStable == ASSUME OneProducer PROVE Spec => []InFlightIntact
<1>1. Init => FlightInv
  <2> SUFFICES ASSUME Init PROVE FlightInv
    OBVIOUS
  <2>1. WellFormed(<<>>)
    BY EmptySeq DEF WellFormed
  <2>2. InFlightIntact
    BY DEF Init, InitWith, Idle, InFlightIntact
  <2> QED BY <2>1, <2>2, RingInit DEF Init, InitWith, FlightInv
<1>2. FlightInv /\ [Next]_vars => FlightInv'
  BY FlightStep
<1>3. FlightInv => InFlightIntact
  BY DEF FlightInv
<1> QED BY <1>1, <1>2, <1>3, PTL DEF Spec

-----------------------------------------------------------------------------
(* The backend always stands where a command begins *)

\* the user-mode commands in use fill whole 16-byte blocks, so PvgpuWriteCommand adds
\* no padding (the run CommandRingPadding shows what the others do);
\* PvgpuSubmitToRing never adds any
AlignedCommands == \A c \in Command : Aligned(Size[c]) = Size[c]

\* commands follow one another without a gap
Packed(words) ==
  /\ words # <<>> => words[1][2] = 1
  /\ \A k \in 1 .. Len(words) :
       /\ words[k][1] \in Commands /\ words[k][2] \in 1 .. Size[words[k][1]]
       /\ words[k][2] < Size[words[k][1]] => k < Len(words)
       /\ words[k][2] = Size[words[k][1]] /\ k < Len(words) => words[k + 1][2] = 1

\* the backend stands at the first word of a command, and hands out all of it
HeadInv ==
  /\ consumer < producer => stream[consumer + 1][2] = 1
  /\ inflight # Idle =>
       /\ consumer < producer /\ inflight.cmd = stream[consumer + 1][1]
       /\ inflight.size = Size[inflight.cmd]

BoundaryInv ==
  /\ FlightInv /\ HeadInv
  /\ Packed(stream) /\ \A d \in Device : Packed(staging[d])

LEMMA PackedCommand ==
  ASSUME NEW c \in Commands
  PROVE  Packed(Image(c)) /\ (Aligned(Size[c]) = Size[c] => Packed(Staged(c)))
<1>1. Size[c] \in Nat /\ Size[c] >= 2
  BY ConstantsAssumption
<1>2. Len(Image(c)) = Size[c] /\ \A i \in 1 .. Size[c] : Image(c)[i] = <<c, i>>
  BY WordsOfCommand DEF Image
<1>3. Packed(Image(c))
  <2> DEFINE w == Image(c)
  <2>1. w # <<>> => w[1][2] = 1
    BY <1>1, <1>2
  <2>2. \A k \in 1 .. Len(w) : w[k][1] = c /\ w[k][2] = k
    BY <1>2
  <2>3. Len(w) = Size[c]
    BY <1>2
  <2> HIDE DEF w
  <2>4. Packed(w)
    BY <1>1, <2>1, <2>2, <2>3 DEF Packed
  <2> QED BY <2>4 DEF w
<1>4. ASSUME Aligned(Size[c]) = Size[c] PROVE Staged(c) = Image(c)
  BY <1>1, <1>4 DEF Staged, Image
<1> QED BY <1>3, <1>4

LEMMA PackedConcat ==
  ASSUME NEW u \in Seq(Word), NEW v \in Seq(Word), Packed(u), Packed(v)
  PROVE  Packed(u \o v)
<1> DEFINE w == u \o v
<1>1. Len(u) \in Nat /\ Len(v) \in Nat /\ Len(w) = Len(u) + Len(v) /\ w \in Seq(Word)
  BY LenProperties, ConcatProperties
<1>2. \A k \in 1 .. Len(u) : w[k] = u[k]
  BY <1>1, ConcatProperties
<1>3. \A k \in 1 .. Len(v) : w[Len(u) + k] = v[k]
  BY <1>1, ConcatProperties
<1>4. (u = <<>> <=> Len(u) = 0) /\ (v = <<>> <=> Len(v) = 0) /\ (w = <<>> <=> Len(w) = 0)
  BY <1>1, EmptySeq
<1> HIDE DEF w
<1>5. Len(v) > 0 => w[Len(u) + 1][2] = 1
  BY <1>1, <1>3, <1>4 DEF Packed
<1>6. w # <<>> => w[1][2] = 1
  <2>1. CASE Len(u) = 0
    BY <1>1, <1>4, <1>5, <2>1
  <2>2. CASE Len(u) > 0
    BY <1>1, <1>2, <1>4, <2>2 DEF Packed
  <2> QED BY <1>1, <2>1, <2>2
<1>7. ASSUME NEW k \in 1 .. Len(w)
      PROVE  /\ w[k][1] \in Commands /\ w[k][2] \in 1 .. Size[w[k][1]]
             /\ w[k][2] < Size[w[k][1]] => k < Len(w)
             /\ w[k][2] = Size[w[k][1]] /\ k < Len(w) => w[k + 1][2] = 1
  <2>1. CASE k < Len(u)
    <3>1. k \in 1 .. Len(u) /\ k + 1 \in 1 .. Len(u) /\ k < Len(w)
      BY <1>1, <2>1
    <3>2. w[k] = u[k] /\ w[k + 1] = u[k + 1]
      BY <1>2, <3>1
    <3> QED BY <2>1, <3>1, <3>2 DEF Packed
  <2>2. CASE k = Len(u)
    <3>1. k \in 1 .. Len(u) /\ w[k] = u[k]
      BY <1>1, <1>2, <2>2
    <3>2. u[k][1] \in Commands /\ u[k][2] \in 1 .. Size[u[k][1]] /\ ~(u[k][2] < Size[u[k][1]])
      BY <1>1, <2>2, <3>1 DEF Packed
    <3>3. k < Len(w) => w[k + 1][2] = 1
      BY <1>1, <1>5, <2>2
    <3> QED BY <3>1, <3>2, <3>3
  <2>3. CASE k > Len(u)
    <3> DEFINE m == k - Len(u)
    <3>1. m \in 1 .. Len(v) /\ k = Len(u) + m
      BY <1>1, <2>3
    <3>2. w[k] = v[m] /\ (k < Len(w) <=> m < Len(v))
      <4> HIDE DEF m
      <4>1. w[k] = v[m]
        BY <1>3, <3>1
      <4> QED BY <1>1, <3>1, <4>1
    <3>3. m < Len(v) => w[k + 1] = v[m + 1]
      <4> SUFFICES ASSUME m < Len(v) PROVE w[k + 1] = v[m + 1]
        OBVIOUS
      <4>1. m + 1 \in 1 .. Len(v) /\ k + 1 = Len(u) + (m + 1)
        BY <1>1, <3>1
      <4> QED BY <1>3, <4>1
    <3> HIDE DEF m
    <3> QED BY <3>1, <3>2, <3>3 DEF Packed
  <2> QED BY <1>1, <2>1, <2>2, <2>3
<1>8. Packed(w)
  BY <1>6, <1>7 DEF Packed
<1> QED BY <1>8 DEF w

\* what the backend sees at the head: the type and the size of a whole command
LEMMA HeadWords ==
  ASSUME FlightInv, HeadInv, consumer < producer, NEW c, c = stream[consumer + 1][1]
  PROVE  /\ c \in Commands /\ TypeWord[1] = c /\ TypeWord[2] = 1
         /\ SizeWord = {Size[c]} /\ Header <= Size[c] /\ Size[c] <= producer - consumer
<1> USE DEF FlightInv, RingInv, TypeOK
<1>1. TypeWord = stream[consumer + 1] /\ consumer + 1 \in 1 .. Len(stream)
  BY DEF RingIntact, TypeWord
<1>2. TypeWord[1] = c /\ TypeWord[2] = 1
  BY <1>1 DEF HeadInv
<1>3. c \in Commands /\ Size[c] \in Nat /\ Size[c] >= Header /\ Size[c] >= 2
  BY <1>2, TypeWordType, ConstantsAssumption
<1>4. /\ consumer + 1 + Size[c] - 1 <= Len(stream)
      /\ \A j \in 1 .. Size[c] : stream[consumer + 1 + j - 1] = <<c, j>>
  BY <1>1, <1>2 DEF WellFormed
<1>5. ring[Slot(consumer + 1)] = <<c, 2>>
  <2>1. consumer + 1 \in consumer .. producer - 1
    BY <1>3, <1>4 DEF RingIntact
  <2>2. ring[Slot(consumer + 1)] = stream[(consumer + 1) + 1]
    BY <2>1 DEF RingIntact
  <2>3. 2 \in 1 .. Size[c] /\ (consumer + 1) + 1 = consumer + 1 + 2 - 1
    BY <1>3
  <2> QED BY <1>4, <2>2, <2>3
<1>6. SizeWord = {Size[c]}
  BY <1>5 DEF SizeWord, Zero
<1>7. Size[c] <= producer - consumer
  BY <1>3, <1>4 DEF RingIntact
<1> QED BY <1>2, <1>3, <1>6, <1>7, ConstantsAssumption

\* the words of the command at the head, and what follows them
LEMMA HeadCommand ==
  ASSUME BoundaryInv, inflight # Idle
  PROVE  /\ inflight.cmd \in Commands /\ inflight.size \in Nat /\ inflight.size >= 2
         /\ consumer + inflight.size <= producer
         /\ \A j \in 1 .. inflight.size : stream[consumer + j] = <<inflight.cmd, j>>
         /\ consumer + inflight.size < producer => stream[consumer + inflight.size + 1][2] = 1
<1> USE DEF BoundaryInv, FlightInv, RingInv, TypeOK
<1> DEFINE c == inflight.cmd
           z == inflight.size
<1>1. /\ consumer < producer /\ stream[consumer + 1][2] = 1 /\ c = stream[consumer + 1][1]
      /\ z = Size[c] /\ z \in Nat
  BY DEF HeadInv
<1>2. consumer + 1 \in 1 .. Len(stream) /\ Len(stream) = producer
  BY <1>1 DEF RingIntact
<1>3. c \in Commands
  BY <1>1, <1>2 DEF Packed
<1>4. z >= 2
  BY <1>1, <1>3, ConstantsAssumption
<1>5. /\ consumer + 1 + z - 1 <= Len(stream)
      /\ \A j \in 1 .. z : stream[consumer + 1 + j - 1] = <<c, j>>
  BY <1>1, <1>2 DEF WellFormed
<1> HIDE DEF c, z
<1>6. \A j \in 1 .. z : stream[consumer + j] = <<c, j>>
  <2> SUFFICES ASSUME NEW j \in 1 .. z PROVE stream[consumer + j] = <<c, j>>
    OBVIOUS
  <2>1. consumer + 1 + j - 1 = consumer + j
    BY <1>1
  <2> QED BY <1>5, <2>1
<1>7. consumer + z <= producer
  BY <1>1, <1>2, <1>5
<1>8. consumer + z < producer => stream[consumer + z + 1][2] = 1
  <2> SUFFICES ASSUME consumer + z < producer PROVE stream[consumer + z + 1][2] = 1
    OBVIOUS
  <2> DEFINE k == consumer + z
  <2>1. k \in 1 .. Len(stream) /\ k < Len(stream)
    BY <1>1, <1>2, <1>4
  <2>2. stream[k] = <<c, z>>
    <3>1. z \in 1 .. z
      BY <1>1, <1>4
    <3> QED BY <1>6, <3>1
  <2> HIDE DEF k
  <2>3. stream[k + 1][2] = 1
    BY <1>1, <2>1, <2>2 DEF Packed
  <2> QED BY <2>3 DEF k
<1> QED BY <1>3, <1>4, <1>6, <1>7, <1>8, <1>1 DEF c, z

LEMMA BoundaryStep ==
  ASSUME OneProducer, AlignedCommands, BoundaryInv, [Next]_vars
  PROVE  BoundaryInv'
<1>0. FlightInv' /\ FlightInv /\ TypeOK /\ RingIntact /\ RingIntact' /\ TypeOK'
  BY FlightStep DEF BoundaryInv, FlightInv, RingInv
<1>a. /\ HeadInv /\ Packed(stream) /\ \A d \in Device : Packed(staging[d])
      /\ consumer \in Nat /\ producer \in Nat /\ Len(stream) = producer
      /\ stream \in Seq(Word) /\ \A d \in Device : staging[d] \in Seq(Word)
  BY <1>0 DEF BoundaryInv, TypeOK, RingIntact
<1>b. ASSUME NEW words \in Seq(Word), Packed(words), stream' = stream \o words,
             UNCHANGED <<consumer, inflight>>
      PROVE  Packed(stream') /\ HeadInv'
  <2>1. Packed(stream')
    BY <1>a, <1>b, PackedConcat
  <2>2. Len(words) \in Nat /\ Len(stream') = producer + Len(words) /\ producer' = Len(stream')
    BY <1>0, <1>a, <1>b, LenProperties, ConcatProperties DEF RingIntact
  <2>3. \A k \in 1 .. producer : stream'[k] = stream[k]
    BY <1>a, <1>b, <2>2, ConcatProperties
  <2>4. CASE consumer < producer
    <3>1. stream'[consumer + 1] = stream[consumer + 1] /\ consumer < producer'
      BY <1>a, <2>2, <2>3, <2>4
    <3> QED BY <1>a, <1>b, <2>1, <2>4, <3>1 DEF HeadInv
  <2>5. CASE ~(consumer < producer)
    <3>1. consumer = producer
      BY <1>0, <1>a, <2>5 DEF RingIntact
    <3>2. consumer < producer' => stream'[consumer + 1][2] = 1
      <4> SUFFICES ASSUME consumer < producer' PROVE stream'[consumer + 1][2] = 1
        OBVIOUS
      <4>1. 1 \in 1 .. Len(words) /\ words # <<>>
        BY <1>a, <2>2, <3>1, EmptySeq
      <4>2. stream'[Len(stream) + 1] = words[1]
        BY <1>a, <1>b, <4>1, <2>2, ConcatProperties
      <4> QED BY <1>a, <1>b, <3>1, <4>1, <4>2 DEF Packed
    <3>3. inflight = Idle
      BY <1>a, <2>5 DEF HeadInv
    <3> QED BY <1>a, <1>b, <2>1, <3>2, <3>3 DEF HeadInv, Idle
  <2> QED BY <2>4, <2>5
<1>c. ASSUME UNCHANGED <<consumer, producer, stream, inflight>> PROVE HeadInv'
  BY <1>a, <1>c DEF HeadInv, Idle
<1>1. ASSUME NEW d \in Device, NEW c \in Command, WriteCommand(d, c) PROVE BoundaryInv'
  <2>1. Packed(staging[d] \o Staged(c))
    BY <1>a, PackedCommand, PackedConcat, WordsOfCommand DEF Commands, AlignedCommands
  <2>2. \A e \in Device : staging'[e] = IF e = d THEN staging[d] \o Staged(c) ELSE staging[e]
    BY <1>0, <1>1 DEF WriteCommand, TypeOK
  <2>3. \A e \in Device : Packed(staging'[e])
    BY <1>a, <2>1, <2>2
  <2> QED BY <1>0, <1>a, <1>c, <1>1, <2>3 DEF WriteCommand, host, BoundaryInv
<1>2. ASSUME NEW d \in Device, Flush(d) PROVE BoundaryInv'
  BY <1>0, <1>a, <1>c, <1>2 DEF Flush, host, BoundaryInv
<1>3. ASSUME NEW d \in Device, FlushCopy(d) PROVE BoundaryInv'
  BY <1>0, <1>a, <1>c, <1>3 DEF FlushCopy, host, BoundaryInv
<1>4. ASSUME NEW d \in Device, FlushPublish(d) PROVE BoundaryInv'
  <2>1. \A e \in Device : staging'[e] = IF e = d THEN <<>> ELSE staging[e]
    BY <1>0, <1>4 DEF FlushPublish, TypeOK
  <2>2. Packed(<<>>)
    BY EmptySeq DEF Packed
  <2>3. \A e \in Device : Packed(staging'[e])
    BY <1>a, <2>1, <2>2
  <2>4. Packed(stream') /\ HeadInv'
    BY <1>a, <1>b, <1>4 DEF FlushPublish, host
  <2> QED BY <1>0, <2>3, <2>4 DEF BoundaryInv
<1>5. ASSUME NEW c \in KernelCommand, SubmitCopy(c) PROVE BoundaryInv'
  BY <1>0, <1>a, <1>c, <1>5 DEF SubmitCopy, guest, host, BoundaryInv
<1>6. ASSUME SubmitPublish PROVE BoundaryInv'
  <2>1. submitting \in Commands
    BY <1>0, <1>6 DEF SubmitPublish, TypeOK, Commands
  <2>2. Image(submitting) \in Seq(Word) /\ Packed(Image(submitting))
    BY <2>1, WordsOfCommand, PackedCommand
  <2>3. Packed(stream') /\ HeadInv'
    BY <1>b, <1>6, <2>2 DEF SubmitPublish, host
  <2> QED BY <1>0, <1>a, <1>6, <2>3 DEF SubmitPublish, guest, BoundaryInv
<1>7. ASSUME Read PROVE BoundaryInv'
  <2>1. consumer < producer
    BY <1>a, <1>7, ConstantsAssumption DEF Read, Pending
  <2>2. /\ inflight'.cmd = stream[consumer + 1][1]
        /\ inflight'.size = Size[inflight'.cmd]
    BY <1>0, <1>a, <1>7, <2>1, HeadWords DEF Read
  <2>3. HeadInv'
    BY <1>a, <1>7, <2>1, <2>2 DEF Read, HeadInv
  <2> QED BY <1>0, <1>a, <1>7, <2>3 DEF Read, guest, BoundaryInv
<1>8. ASSUME ReadFails PROVE BoundaryInv'
  BY <1>0, <1>a, <1>c, <1>8 DEF ReadFails, guest, BoundaryInv
<1>9. ASSUME Advance PROVE BoundaryInv'
  <2>1. /\ consumer' = consumer + inflight.size /\ inflight' = Idle
        /\ consumer + inflight.size < producer => stream[consumer + inflight.size + 1][2] = 1
    BY <1>9, HeadCommand DEF Advance
  <2>2. HeadInv'
    BY <1>9, <2>1 DEF Advance, HeadInv, Idle
  <2> QED BY <1>0, <1>a, <1>9, <2>2 DEF Advance, guest, BoundaryInv
<1>10. ASSUME HandlerFails PROVE BoundaryInv'
  <2>1. HeadInv'
    BY <1>a, <1>10 DEF HandlerFails, HeadInv, Idle
  <2> QED BY <1>0, <1>a, <1>10, <2>1 DEF HandlerFails, guest, BoundaryInv
<1>11. CASE UNCHANGED vars
  BY <1>0, <1>a, <1>c, <1>11 DEF vars, guest, host, BoundaryInv
<1> QED
  BY <1>1, <1>2, <1>3, <1>4, <1>5, <1>6, <1>7, <1>8, <1>9, <1>10, <1>11 DEF Next, Host

LEMMA BoundaryInit == Init => BoundaryInv
<1> SUFFICES ASSUME Init PROVE BoundaryInv
  OBVIOUS
<1>1. WellFormed(<<>>) /\ Packed(<<>>)
  BY EmptySeq DEF WellFormed, Packed
<1>2. InFlightIntact /\ HeadInv
  BY DEF Init, InitWith, Idle, InFlightIntact, HeadInv
<1> QED BY <1>1, <1>2, RingInit DEF Init, InitWith, FlightInv, BoundaryInv

\* Wherever the backend stands, a command begins: with commands of whole 16-byte
\* blocks and one producer, command_size is never read out of a payload or of
\* padding.
THEOREM BackendReadsAtBoundaries ==
  ASSUME OneProducer, AlignedCommands PROVE Spec => []CommandBoundary
<1>1. BoundaryInv /\ [Next]_vars => BoundaryInv'
  BY BoundaryStep
<1>2. BoundaryInv => CommandBoundary
  <2> SUFFICES ASSUME BoundaryInv, consumer < producer PROVE TypeWord[2] = 1
    BY DEF CommandBoundary
  <2>1. ring[Slot(consumer)] = stream[consumer + 1]
    BY DEF BoundaryInv, FlightInv, RingInv, RingIntact, TypeOK
  <2> QED BY <2>1 DEF BoundaryInv, HeadInv, TypeWord
<1> QED BY <1>1, <1>2, BoundaryInit, PTL DEF Spec

\* The backend never takes a command for one that is too small, or that exceeds the
\* available data, nor payload for a command: an error it reports is the answer of
\* the handler of a command that was submitted.
THEOREM OnlyHandlersReportErrors ==
  ASSUME OneProducer, AlignedCommands
  PROVE  Spec => [][error' # error => inflight.cmd \in Failing]_vars
<1>1. BoundaryInv /\ [Next]_vars => BoundaryInv'
  BY BoundaryStep
<1>2. BoundaryInv => ~ReadFails
  <2> SUFFICES ASSUME BoundaryInv, ReadFails PROVE FALSE
    OBVIOUS
  <2>1. Pending > 0 /\ consumer < producer /\ Pending = producer - consumer
    BY DEF ReadFails, Pending, BoundaryInv, FlightInv, RingInv, TypeOK
  <2> DEFINE c == stream[consumer + 1][1]
  <2>2. /\ c \in Commands /\ TypeWord[2] = 1 /\ SizeWord = {Size[c]}
        /\ Header <= Size[c] /\ Size[c] <= Pending
    BY <2>1, HeadWords DEF BoundaryInv
  <2> HIDE DEF c
  <2>3. Size[c] \in Nat /\ Header \in Nat /\ Pending \in Int
    BY <2>1, <2>2, ConstantsAssumption DEF BoundaryInv, FlightInv, RingInv, TypeOK
  <2> QED BY <2>2, <2>3 DEF ReadFails
<1>3. BoundaryInv /\ [Next]_vars => [error' # error => inflight.cmd \in Failing]_vars
  <2> SUFFICES ASSUME BoundaryInv, Next, error' # error PROVE inflight.cmd \in Failing
    OBVIOUS
  <2> QED
    BY <1>2 DEF Next, Host, WriteCommand, Flush, FlushCopy, FlushPublish, SubmitCopy, SubmitPublish,
                Read, Advance, HandlerFails, host
<1> QED BY <1>1, <1>3, BoundaryInit, PTL DEF Spec

\* A command that its handler rejects stays at the head for ever: the backend's loop
\* goes on, but no later command is processed.
THEOREM RejectedCommandBlocks ==
  ASSUME OneProducer, AlignedCommands
  PROVE  Spec => [][consumer < producer /\ stream[consumer + 1][1] \in Failing
                      => UNCHANGED <<consumer, done>>]_vars
<1>1. BoundaryInv /\ [Next]_vars => BoundaryInv'
  BY BoundaryStep
<1>2. BoundaryInv /\ [Next]_vars
        => [consumer < producer /\ stream[consumer + 1][1] \in Failing
              => UNCHANGED <<consumer, done>>]_vars
  <2> SUFFICES ASSUME BoundaryInv, Next, stream[consumer + 1][1] \in Failing
               PROVE  UNCHANGED <<consumer, done>>
    OBVIOUS
  <2>1. ~Advance
    BY DEF Advance, BoundaryInv, HeadInv
  <2> QED
    BY <2>1 DEF Next, Host, WriteCommand, Flush, FlushCopy, FlushPublish, SubmitCopy, SubmitPublish,
                Read, ReadFails, HandlerFails, host
<1> QED BY <1>1, <1>2, BoundaryInit, PTL DEF Spec

-----------------------------------------------------------------------------
(* The elements of a set of numbers, in order *)

\* A set of natural numbers has a least element.
LEMMA LeastNatural ==
  ASSUME NEW T, T \subseteq Nat, T # {}
  PROVE  \E n \in T : \A m \in T : n <= m
<1>1. PICK n \in T : \A m \in T : ~(<<m, n>> \in OpToRel(<, Nat))
  BY NatLessThanWellFounded, WFMin
<1>2. ASSUME NEW m \in T PROVE n <= m
  <2>1. ~(<<m, n>> \in OpToRel(<, Nat)) /\ m \in Nat /\ n \in Nat
    BY <1>1
  <2> QED BY <2>1 DEF OpToRel
<1> QED BY <1>2

\* How many elements of S are at most k.
Rank(S, k) == Cardinality({j \in S : j <= k})

LEMMA RankType ==
  ASSUME NEW S, IsFiniteSet(S), NEW k
  PROVE  Rank(S, k) \in Nat /\ Rank(S, k) <= Cardinality(S)
<1> DEFINE T == {j \in S : j <= k}
<1>1. T \in SUBSET S
  OBVIOUS
<1>2. IsFiniteSet(T) /\ Cardinality(T) <= Cardinality(S)
  BY <1>1, FS_Subset
<1>3. Cardinality(T) \in Nat
  BY <1>2, FS_CardinalityType
<1> QED BY <1>2, <1>3 DEF Rank

\* The rank grows by one at an element and nowhere else.
LEMMA RankStep ==
  ASSUME NEW S, IsFiniteSet(S), NEW k \in Nat, \A j \in S : j \in Nat
  PROVE  Rank(S, k + 1) = IF k + 1 \in S THEN Rank(S, k) + 1 ELSE Rank(S, k)
<1> DEFINE T == {j \in S : j <= k}
           U == {j \in S : j <= k + 1}
<1>1. T \in SUBSET S /\ k + 1 \notin T
  OBVIOUS
<1>2. IsFiniteSet(T)
  BY <1>1, FS_Subset
<1>3. CASE k + 1 \in S
  <2>1. U = T \cup {k + 1}
    BY <1>3
  <2>2. Cardinality(T \cup {k + 1}) = Cardinality(T) + 1
    BY <1>1, <1>2, FS_AddElement
  <2> QED BY <1>3, <2>1, <2>2 DEF Rank
<1>4. CASE k + 1 \notin S
  <2>1. U = T
    BY <1>4
  <2> QED BY <1>4, <2>1 DEF Rank
<1> QED BY <1>3, <1>4

\* An element is told by its rank.
LEMMA RanksDiffer ==
  ASSUME NEW S, IsFiniteSet(S), \A j \in S : j \in Nat, NEW k \in S, NEW l \in S, k < l
  PROVE  Rank(S, k) < Rank(S, l)
<1> DEFINE T == {j \in S : j <= k}
           U == {j \in S : j <= l}
<1>1. T \in SUBSET U /\ U \in SUBSET S /\ l \in U /\ l \notin T
  OBVIOUS
<1>2. IsFiniteSet(U)
  BY <1>1, FS_Subset
<1>3. IsFiniteSet(T) /\ Cardinality(T) <= Cardinality(U)
  BY <1>1, <1>2, FS_Subset
<1>4. T # U
  BY <1>1
<1>5. Cardinality(T) # Cardinality(U)
  BY <1>1, <1>2, <1>4, FS_Subset
<1>6. Cardinality(T) \in Nat /\ Cardinality(U) \in Nat
  BY <1>2, <1>3, FS_CardinalityType
<1>7. Cardinality(T) < Cardinality(U)
  BY <1>3, <1>5, <1>6
<1> QED BY <1>7 DEF Rank

LEMMA NthIs ==
  ASSUME NEW S, IsFiniteSet(S), \A j \in S : j \in Nat, NEW k \in S
  PROVE  Nth(S, Rank(S, k)) = k
<1>1. ASSUME NEW l \in S, Rank(S, l) = Rank(S, k) PROVE l = k
  <2>1. Rank(S, k) \in Nat
    BY RankType
  <2>2. CASE k < l
    BY <1>1, <2>1, <2>2, RanksDiffer
  <2>3. CASE l < k
    BY <1>1, <2>1, <2>3, RanksDiffer
  <2> QED BY <2>2, <2>3
<1>2. Nth(S, Rank(S, k)) = CHOOSE l \in S : Rank(S, l) = Rank(S, k)
  BY DEF Nth, Rank
<1> QED BY <1>1, <1>2

\* Every rank up to the number of elements is one's.
LEMMA NthExists ==
  ASSUME NEW n \in Nat, NEW S \in SUBSET (1 .. n), NEW i \in 1 .. Cardinality(S)
  PROVE  Nth(S, i) \in S /\ Rank(S, Nth(S, i)) = i
<1>1. IsFiniteSet(S) /\ Cardinality(S) \in Nat
  <2>1. IsFiniteSet(1 .. n)
    BY FS_Interval
  <2> QED BY <2>1, FS_Subset, FS_CardinalityType
<1> DEFINE T == {m \in Nat : Rank(S, m) >= i}
<1>2. Rank(S, n) = Cardinality(S)
  <2>1. \A j \in S : j <= n
    OBVIOUS
  <2>2. {j \in S : j <= n} = S
    BY <2>1, Zenon
  <2> QED BY <2>2 DEF Rank
<1>3. n \in T
  BY <1>1, <1>2
<1>4. PICK m \in T : \A l \in T : m <= l
  BY <1>3, LeastNatural
<1>5. Rank(S, 0) = 0
  <2>1. \A j \in S : ~(j <= 0)
    OBVIOUS
  <2>2. {j \in S : j <= 0} = {}
    BY <2>1, Zenon
  <2> QED BY <2>2, FS_EmptySet DEF Rank
<1>6. m \in Nat /\ Rank(S, m) >= i /\ m # 0
  BY <1>1, <1>4, <1>5
<1> DEFINE p == m - 1
<1>7. p \in Nat /\ p + 1 = m
  BY <1>6
<1>8. p \notin T
  BY <1>4, <1>7
<1> HIDE DEF p
<1>9. Rank(S, p) \in Nat /\ Rank(S, m) \in Nat
  BY <1>1, RankType
<1>10. Rank(S, p) < i
  BY <1>1, <1>7, <1>8, <1>9
<1>11. \A j \in S : j \in Nat
  OBVIOUS
<1>12. Rank(S, m) = IF m \in S THEN Rank(S, p) + 1 ELSE Rank(S, p)
  BY <1>1, <1>7, <1>11, RankStep
<1>13. m \in S /\ Rank(S, m) = i
  BY <1>1, <1>6, <1>9, <1>10, <1>12
<1> QED BY <1>1, <1>11, <1>13, NthIs

\* Larger elements leave the order of the others alone.
LEMMA NthGrows ==
  ASSUME NEW n \in Nat, NEW S \in SUBSET (1 .. n),
         NEW T, IsFiniteSet(T), \A j \in T : j \in Nat /\ n < j, NEW i \in 1 .. Cardinality(S)
  PROVE  Nth(S \cup T, i) = Nth(S, i)
<1> DEFINE k == Nth(S, i)
           U == S \cup T
<1>1. k \in S /\ Rank(S, k) = i
  BY NthExists
<1>2. IsFiniteSet(U)
  <2>1. IsFiniteSet(1 .. n)
    BY FS_Interval
  <2> QED BY <2>1, FS_Subset, FS_Union
<1>3. k \in U /\ \A j \in U : j \in Nat
  BY <1>1
<1> HIDE DEF k
<1>4. {j \in U : j <= k} = {j \in S : j <= k}
  <2>1. \A j \in T : ~(j <= k)
    <3> SUFFICES ASSUME NEW j \in T PROVE ~(j <= k)
      OBVIOUS
    <3>1. j \in Nat /\ n < j /\ k \in 1 .. n
      BY <1>1
    <3> QED BY <3>1
  <2> QED BY <2>1, Zenon DEF U
<1>5. Rank(U, k) = i
  BY <1>1, <1>4 DEF Rank
<1> HIDE DEF U
<1>6. Nth(U, i) = k
  BY <1>2, <1>3, <1>5, NthIs
<1> QED BY <1>6 DEF k, U

\* Without the least element, the others move up by one.
LEMMA NthDrops ==
  ASSUME NEW n \in Nat, NEW S \in SUBSET (1 .. n), NEW m \in S, \A k \in S : m <= k
  PROVE  /\ Nth(S, 1) = m /\ Cardinality(S \ {m}) = Cardinality(S) - 1 /\ Cardinality(S) \in Nat \ {0}
         /\ \A i \in 1 .. Cardinality(S \ {m}) : Nth(S \ {m}, i) = Nth(S, i + 1)
<1>1. IsFiniteSet(S) /\ \A j \in S : j \in Nat
  <2>1. IsFiniteSet(1 .. n)
    BY FS_Interval
  <2>2. IsFiniteSet(S)
    BY <2>1, FS_Subset
  <2>3. \A j \in S : j \in Nat
    OBVIOUS
  <2> QED BY <2>2, <2>3
<1> DEFINE R == S \ {m}
<1>2. /\ IsFiniteSet(R) /\ Cardinality(R) = Cardinality(S) - 1
      /\ Cardinality(S) \in Nat /\ Cardinality(R) \in Nat
  BY <1>1, FS_RemoveElement, FS_CardinalityType
<1>3. Nth(S, 1) = m
  <2>1. {j \in S : j <= m} = {m}
    <3>1. m <= m /\ \A j \in S : j <= m => j = m
      BY <1>1
    <3> QED BY <3>1, Zenon
  <2>2. Rank(S, m) = 1
    BY <2>1, FS_Singleton DEF Rank
  <2> QED BY <1>1, <2>2, NthIs
<1>4. ASSUME NEW i \in 1 .. Cardinality(R)
      PROVE  Nth(R, i) = Nth(S, i + 1)
  <2> DEFINE k == Nth(R, i)
             T == {j \in R : j <= k}
  <2>1. R \in SUBSET (1 .. n)
    OBVIOUS
  <2>2. k \in R /\ Rank(R, k) = i
    BY <2>1, NthExists
  <2> HIDE DEF k
  <2>3. {j \in S : j <= k} = T \cup {m} /\ m \notin T
    <3>1. k \in S /\ m <= k
      BY <2>2
    <3> QED BY <3>1, Zenon
  <2>4. IsFiniteSet(T)
    BY <1>2, FS_Subset
  <2>5. Cardinality(T \cup {m}) = i + 1
    BY <2>2, <2>3, <2>4, FS_AddElement DEF Rank
  <2>6. Rank(S, k) = i + 1
    BY <2>3, <2>5 DEF Rank
  <2>7. Nth(S, i + 1) = k
    BY <1>1, <2>2, <2>6, NthIs
  <2> QED BY <2>7 DEF k
<1> QED BY <1>2, <1>3, <1>4

-----------------------------------------------------------------------------
(* The ring is a queue of commands *)

\* the beginnings are numbered, and Pended has the commands that begin there
PendedInv ==
  /\ Begins \in SUBSET (1 .. producer) /\ IsFiniteSet(Begins) /\ Cardinality(Begins) \in Nat
  /\ Pended \in Seq(Commands) /\ Len(Pended) = Cardinality(Begins)
  /\ \A i \in 1 .. Cardinality(Begins) :
       Nth(Begins, i) \in Begins /\ Pended[i] = stream[Nth(Begins, i)][1]

LEMMA PendedType == BoundaryInv => PendedInv
<1> SUFFICES ASSUME BoundaryInv PROVE PendedInv
  OBVIOUS
<1> USE DEF BoundaryInv, FlightInv, RingInv, TypeOK
<1>1. Begins \in SUBSET (1 .. producer)
  BY DEF Begins
<1>2. IsFiniteSet(Begins) /\ Cardinality(Begins) \in Nat
  <2>1. IsFiniteSet(1 .. producer)
    BY FS_Interval
  <2> QED BY <1>1, <2>1, FS_Subset, FS_CardinalityType
<1>3. \A i \in 1 .. Cardinality(Begins) : Nth(Begins, i) \in Begins
  BY <1>1, NthExists
<1>4. \A k \in Begins : stream[k][1] \in Commands
  BY <1>1 DEF Packed, RingIntact
<1>5. Pended \in [1 .. Cardinality(Begins) -> Commands]
  BY <1>3, <1>4 DEF Pended
<1>6. Pended \in Seq(Commands) /\ Len(Pended) = Cardinality(Begins)
  BY <1>2, <1>5, FunctionIsSeq
<1> QED BY <1>1, <1>2, <1>3, <1>6 DEF Pended, PendedInv

LEMMA PendedTypeNext == BoundaryInv' => PendedInv'
BY PendedType, PTL

\* publishing whole commands puts them at the end of the queue
LEMMA PublishQueues ==
  ASSUME BoundaryInv, BoundaryInv', NEW words \in Seq(Word), stream' = stream \o words,
         UNCHANGED <<consumer, done>>
  PROVE  Queue!Submit \/ UNCHANGED <<Pended, done>>
<1>0. /\ stream \in Seq(Word) /\ Len(stream) = producer /\ producer \in Nat /\ consumer \in Nat
      /\ consumer <= producer /\ producer' \in Nat /\ Len(stream') = producer'
  BY DEF BoundaryInv, FlightInv, RingInv, RingIntact, TypeOK
<1> DEFINE B == Begins
           T == {k \in producer + 1 .. producer' : stream'[k][2] = 1}
           b == Cardinality(B)
<1>1. Len(words) \in Nat /\ Len(stream') = producer + Len(words) /\ producer' = Len(stream')
  BY <1>0, LenProperties, ConcatProperties
<1>2. \A k \in 1 .. producer : stream'[k] = stream[k]
  BY <1>0, <1>1, ConcatProperties
<1>3. Begins' = B \cup T
  <2>1. \A k : k \in consumer + 1 .. producer'
                 <=> k \in consumer + 1 .. producer \/ k \in producer + 1 .. producer'
    BY <1>0, <1>1
  <2>2. \A k \in consumer + 1 .. producer : stream'[k] = stream[k]
    <3> SUFFICES ASSUME NEW k \in consumer + 1 .. producer PROVE stream'[k] = stream[k]
      OBVIOUS
    <3>1. k \in 1 .. producer
      BY <1>0, <1>1
    <3> QED BY <1>2, <3>1
  <2> QED BY <2>1, <2>2, Zenon DEF Begins
<1>4. /\ B \in SUBSET (1 .. producer) /\ IsFiniteSet(B) /\ b \in Nat
      /\ Pended \in Seq(Commands) /\ Len(Pended) = b
      /\ \A i \in 1 .. b : Nth(B, i) \in B /\ Pended[i] = stream[Nth(B, i)][1]
  BY PendedType DEF PendedInv
<1>5. /\ IsFiniteSet(Begins') /\ Cardinality(Begins') \in Nat
      /\ Pended' \in Seq(Commands) /\ Len(Pended') = Cardinality(Begins')
      /\ \A i \in 1 .. Cardinality(Begins') : Pended'[i] = stream'[Nth(Begins', i)][1]
  BY PendedTypeNext DEF PendedInv
<1>a. producer \in Nat /\ IsFiniteSet(T) /\ \A j \in T : j \in Nat /\ producer < j
  <2>1. IsFiniteSet(producer + 1 .. producer')
    BY <1>0, FS_Interval
  <2> QED BY <1>0, <2>1, FS_Subset
<1> HIDE DEF B, b, T
<1>6. ASSUME NEW i \in 1 .. b PROVE Pended'[i] = Pended[i]
  <2>1. Nth(Begins', i) = Nth(B, i)
    <3>1. i \in 1 .. Cardinality(B)
      BY DEF b
    <3>2. Nth(B \cup T, i) = Nth(B, i)
      <4>1. B \in SUBSET (1 .. producer)
        BY <1>4
      <4> QED BY <1>a, <3>1, <4>1, NthGrows
    <3> QED BY <1>3, <3>2
  <2>2. Nth(B, i) \in 1 .. producer
    BY <1>4
  <2>3. b <= Cardinality(Begins')
    BY <1>3, <1>5, FS_Subset DEF b
  <2>4. i \in 1 .. Cardinality(Begins')
    BY <1>4, <1>5, <2>3
  <2>5. Pended'[i] = stream'[Nth(Begins', i)][1] /\ Pended[i] = stream[Nth(B, i)][1]
    BY <1>4, <1>5, <2>4
  <2>6. stream'[Nth(B, i)] = stream[Nth(B, i)]
    BY <1>2, <2>2
  <2> QED BY <2>1, <2>5, <2>6
<1>7. b <= Cardinality(Begins')
  BY <1>3, <1>5, FS_Subset DEF b
<1>8. Queue!IsPrefix(Pended, Pended')
  <2> DEFINE s == SubSeq(Pended, 1, b)
             t == SubSeq(Pended', 1, b)
  <2>1. s \in Seq(Commands) /\ Len(s) = b /\ \A i \in 1 .. b : s[i] = Pended[i]
    BY <1>4, SubSeqProperties
  <2>2. t \in Seq(Commands) /\ Len(t) = b /\ \A i \in 1 .. b : t[i] = Pended'[i]
    BY <1>4, <1>5, <1>7, SubSeqProperties
  <2> HIDE DEF s, t
  <2>3. s = t
    BY <1>6, <2>1, <2>2, SeqEqual
  <2> QED BY <1>4, <1>5, <1>7, <2>3 DEF s, t, Queue!IsPrefix
<1> QED BY <1>5, <1>8 DEF Queue!Submit, Queue!IsStrictPrefix

\* advance_consumer takes the command at the head of the queue
LEMMA AdvanceTakes ==
  ASSUME BoundaryInv, BoundaryInv', Advance
  PROVE  Queue!Take
<1> USE DEF BoundaryInv, FlightInv, RingInv, TypeOK
<1> DEFINE B == Begins
           b == Cardinality(B)
           z == inflight.size
           m == consumer + 1
<1>1. /\ inflight.cmd \in Commands /\ z \in Nat /\ z >= 2 /\ consumer + z <= producer
      /\ \A j \in 1 .. z : stream[consumer + j] = <<inflight.cmd, j>>
      /\ consumer' = consumer + z /\ UNCHANGED <<producer, stream>>
      /\ inflight # Idle /\ consumer \in Nat /\ producer \in Nat
  BY HeadCommand DEF Advance
<1>2. /\ B \in SUBSET (1 .. producer) /\ IsFiniteSet(B) /\ b \in Nat
      /\ Pended \in Seq(Commands) /\ Len(Pended) = b
      /\ \A i \in 1 .. b : Pended[i] = stream[Nth(B, i)][1]
  BY PendedType DEF PendedInv
<1>3. /\ Pended' \in Seq(Commands) /\ Len(Pended') = Cardinality(Begins')
      /\ \A i \in 1 .. Cardinality(Begins') : Pended'[i] = stream'[Nth(Begins', i)][1]
  BY PendedTypeNext DEF PendedInv
<1> HIDE DEF z
<1>4. m \in B /\ stream[m] = <<inflight.cmd, 1>>
  <2>1. m \in consumer + 1 .. producer /\ 1 \in 1 .. z
    BY <1>1
  <2>2. stream[m] = <<inflight.cmd, 1>>
    BY <1>1, <2>1
  <2> QED BY <2>1, <2>2 DEF Begins
<1>5. \A k \in B : m <= k
  BY <1>1 DEF Begins
<1>6. Begins' = B \ {m}
  <2>1. ASSUME NEW k \in consumer + 1 .. consumer + z, k # m PROVE stream[k][2] # 1
    <3> DEFINE j == k - consumer
    <3>1. j \in 1 .. z /\ k = consumer + j /\ j # 1
      BY <1>1, <2>1
    <3> HIDE DEF j
    <3>2. stream[consumer + j] = <<inflight.cmd, j>>
      BY <1>1, <3>1
    <3> QED BY <3>1, <3>2
  <2>2. \A k : k \in consumer + 1 .. producer
                 <=> k \in consumer + 1 .. consumer + z \/ k \in consumer + z + 1 .. producer
    BY <1>1
  <2>3. m \notin consumer + z + 1 .. producer
    BY <1>1
  <2>4. Begins' = {k \in consumer + z + 1 .. producer : stream[k][2] = 1}
    BY <1>1 DEF Begins
  <2> HIDE DEF m
  <2> QED BY <2>1, <2>2, <2>3, <2>4, Zenon DEF Begins
<1> HIDE DEF B, b, m
<1>7. /\ Nth(B, 1) = m /\ Cardinality(Begins') = b - 1 /\ b \in Nat \ {0}
      /\ \A i \in 1 .. Cardinality(Begins') : Nth(Begins', i) = Nth(B, i + 1)
  BY <1>1, <1>2, <1>4, <1>5, <1>6, NthDrops DEF b
<1>8. Pended # <<>> /\ Head(Pended) = inflight.cmd
  <2>1. 1 \in 1 .. b
    BY <1>7
  <2>2. Pended[1] = inflight.cmd
    BY <1>2, <1>4, <1>7, <2>1
  <2>3. Pended # <<>>
    BY <1>2, <1>7, EmptySeq
  <2>4. Head(Pended) = Pended[1]
    BY <1>2, <2>3
  <2> QED BY <2>2, <2>3, <2>4
<1>9. Tail(Pended) = Pended'
  <2> DEFINE t == Tail(Pended)
  <2>1. t \in Seq(Commands) /\ Len(t) = b - 1 /\ \A i \in 1 .. b - 1 : t[i] = Pended[i + 1]
    BY <1>2, <1>8, HeadTailProperties
  <2>2. Len(Pended') = b - 1
    BY <1>3, <1>7
  <2>3. ASSUME NEW i \in 1 .. b - 1 PROVE Pended'[i] = Pended[i + 1]
    <3>1. i + 1 \in 1 .. b /\ i \in 1 .. Cardinality(Begins')
      BY <1>7
    <3>2. Pended'[i] = stream[Nth(B, i + 1)][1]
      BY <1>1, <1>3, <1>7, <3>1
    <3> QED BY <1>2, <3>1, <3>2
  <2> HIDE DEF t
  <2>4. t = Pended'
    BY <1>3, <2>1, <2>2, <2>3, SeqEqual
  <2> QED BY <2>4 DEF t
<1>10. done' = Append(done, inflight.cmd)
  <2>1. inflight.cmd # None
    BY <1>1, ConstantsAssumption
  <2> QED BY <2>1 DEF Advance
<1> QED BY <1>8, <1>9, <1>10 DEF Queue!Take

\* The command ring is a first-in first-out queue: with one producer and commands of
\* whole 16-byte blocks, every command that is published is processed once, in the
\* order of publication, whatever the sizes of the ring, of the commands and of the
\* staging buffer, and wherever they wrap.
THEOREM RingImplementsQueue ==
  ASSUME OneProducer, AlignedCommands PROVE Spec => ImplementsQueue
<1>1. Init => Queue!Init
  <2> SUFFICES ASSUME Init PROVE Pended = <<>> /\ done = <<>>
    BY DEF Queue!Init
  <2>1. BoundaryInv
    BY BoundaryInit
  <2>2. Begins = {}
    BY DEF Init, InitWith, Begins
  <2>3. Cardinality(Begins) = 0
    BY <2>2, FS_EmptySet
  <2>4. Pended \in Seq(Commands) /\ Len(Pended) = 0
    BY <2>1, <2>3, PendedType DEF PendedInv
  <2> QED BY <2>4, EmptySeq DEF Init, InitWith
<1>2. BoundaryInv /\ [Next]_vars => BoundaryInv'
  BY BoundaryStep
<1>3. BoundaryInv /\ BoundaryInv' /\ [Next]_vars => [Queue!Next]_<<Pended, done>>
  <2> SUFFICES ASSUME BoundaryInv, BoundaryInv', [Next]_vars
               PROVE  Queue!Submit \/ Queue!Take \/ UNCHANGED <<Pended, done>>
    BY DEF Queue!Next
  <2>1. ASSUME UNCHANGED <<stream, producer, consumer, done>> PROVE UNCHANGED <<Pended, done>>
    <3>1. Begins' = Begins
      BY <2>1 DEF Begins
    <3> QED BY <2>1, <3>1 DEF Pended
  <2>2. ASSUME NEW d \in Device, FlushPublish(d) PROVE Queue!Submit \/ UNCHANGED <<Pended, done>>
    <3>1. staging[d] \in Seq(Word)
      BY DEF BoundaryInv, FlightInv, RingInv, TypeOK
    <3> QED BY <2>2, <3>1, PublishQueues DEF FlushPublish, host
  <2>3. ASSUME SubmitPublish PROVE Queue!Submit \/ UNCHANGED <<Pended, done>>
    <3>1. submitting \in Commands
      BY <2>3 DEF SubmitPublish, Commands, BoundaryInv, FlightInv, RingInv, TypeOK
    <3> QED BY <2>3, <3>1, WordsOfCommand, PublishQueues DEF SubmitPublish, host
  <2>4. CASE Advance
    BY <2>4, AdvanceTakes
  <2> QED
    BY <2>1, <2>2, <2>3, <2>4 DEF Next, Host, WriteCommand, Flush, FlushCopy, SubmitCopy, Read,
       ReadFails, HandlerFails, host, vars
<1> QED BY <1>1, <1>2, <1>3, BoundaryInit, PTL DEF Spec, ImplementsQueue, Queue!Spec

-----------------------------------------------------------------------------
(* The flush and the backend do not wait for each other *)

StagingInv == \A d \in Device : Len(staging[d]) <= StagingSize

\* what the backend needs to read on, and what a flush waits for when there is
\* nothing left to read
SomeoneProceeds ==
  /\ consumer < producer =>
       Pending >= Header /\ \E n \in SizeWord : n <= Pending /\ (Wraps => n >= Header)
  /\ consumer = producer =>
       \A d \in Device : flushing[d] = "wait" => RingSize - (local[d] - consumer) >= Len(staging[d])

LEMMA StagingStep == TypeOK /\ StagingInv /\ [Next]_vars => StagingInv'
<1> SUFFICES ASSUME TypeOK, StagingInv, [Next]_vars PROVE StagingInv'
  OBVIOUS
<1>1. ASSUME NEW d \in Device, NEW c \in Command, WriteCommand(d, c) PROVE StagingInv'
  <2>1. Staged(c) \in Seq(Word) /\ Len(Staged(c)) = Aligned(Size[c])
    <3>1. Size[c] \in Nat /\ Aligned(Size[c]) \in Nat /\ c \in Commands
      BY ConstantsAssumption, AlignedType DEF Commands
    <3>2. Staged(c) \in [1 .. Aligned(Size[c]) -> Word]
      BY <3>1 DEF Staged, Word
    <3> QED BY <3>1, <3>2, FunctionIsSeq
  <2>2. Len(staging[d] \o Staged(c)) <= StagingSize
    <3>1. staging[d] \in Seq(Word)
      BY DEF TypeOK
    <3>2. Len(staging[d] \o Staged(c)) = Len(staging[d]) + Len(Staged(c))
      BY <2>1, <3>1, ConcatProperties
    <3> QED BY <1>1, <2>1, <3>2 DEF WriteCommand
  <2>3. \A e \in Device : staging'[e] = IF e = d THEN staging[d] \o Staged(c) ELSE staging[e]
    BY <1>1 DEF WriteCommand, TypeOK
  <2> QED BY <2>2, <2>3 DEF StagingInv
<1>2. ASSUME NEW d \in Device, FlushPublish(d) PROVE StagingInv'
  <2>1. \A e \in Device : staging'[e] = IF e = d THEN <<>> ELSE staging[e]
    BY <1>2 DEF FlushPublish, TypeOK
  <2> QED BY <2>1, ConstantsAssumption, EmptySeq DEF StagingInv
<1>3. ASSUME UNCHANGED staging PROVE StagingInv'
  BY <1>3 DEF StagingInv
<1> QED
  BY <1>1, <1>2, <1>3 DEF Next, Host, Flush, FlushCopy, SubmitCopy, SubmitPublish, Read, ReadFails,
     Advance, HandlerFails, guest, vars

\* Nobody waits for everybody: when something is published, the backend can read a
\* whole command; when nothing is, a flush that waits for space has it.  What fits
\* the staging buffer has to fit the ring (256 KB and 16 MB in the code).
THEOREM FlushAndBackendNeverWaitForEachOther ==
  ASSUME OneProducer, AlignedCommands, StagingSize <= RingSize
  PROVE  Spec => []SomeoneProceeds
<1>1. Init => BoundaryInv /\ StagingInv
  BY BoundaryInit, ConstantsAssumption, EmptySeq DEF Init, InitWith, StagingInv
<1>2. BoundaryInv /\ StagingInv /\ [Next]_vars => (BoundaryInv /\ StagingInv)'
  BY BoundaryStep, StagingStep DEF BoundaryInv, FlightInv, RingInv
<1>3. BoundaryInv /\ StagingInv => SomeoneProceeds
  <2> SUFFICES ASSUME BoundaryInv, StagingInv PROVE SomeoneProceeds
    OBVIOUS
  <2> USE DEF BoundaryInv, FlightInv, RingInv, TypeOK
  <2>1. ASSUME consumer < producer
        PROVE  Pending >= Header /\ \E n \in SizeWord : n <= Pending /\ (Wraps => n >= Header)
    <3> DEFINE c == stream[consumer + 1][1]
    <3>1. /\ c \in Commands /\ SizeWord = {Size[c]}
          /\ Header <= Size[c] /\ Size[c] <= producer - consumer
      BY <2>1, HeadWords
    <3>2. Size[c] \in Nat /\ Header \in Nat /\ Pending = producer - consumer
      BY <2>1, <3>1, ConstantsAssumption DEF Pending
    <3> HIDE DEF c
    <3> QED BY <3>1, <3>2
  <2>2. ASSUME consumer = producer, NEW d \in Device
        PROVE  RingSize - (local[d] - consumer) >= Len(staging[d])
    <3>1. local[d] = producer /\ Len(staging[d]) \in Nat /\ Len(staging[d]) <= StagingSize
      BY LenProperties DEF ProducerInv, StagingInv
    <3> QED BY <2>2, <3>1, ConstantsAssumption
  <2> QED BY <2>1, <2>2 DEF SomeoneProceeds
<1> QED BY <1>1, <1>2, <1>3, PTL DEF Spec

-----------------------------------------------------------------------------
(* What is processed is what was published *)

\* the places in the stream where a command begins that is consumed
Consumed == {k \in 1 .. consumer : stream[k][2] = 1}

ProcessedAsPublished ==
  done = [i \in 1 .. Cardinality(Consumed) |-> stream[Nth(Consumed, i)][1]]

LEMMA ConsumedType ==
  BoundaryInv => /\ Consumed \in SUBSET (1 .. consumer) /\ consumer \in Nat /\ IsFiniteSet(Consumed)
                 /\ Cardinality(Consumed) \in Nat
<1> SUFFICES ASSUME BoundaryInv
             PROVE  /\ Consumed \in SUBSET (1 .. consumer) /\ consumer \in Nat /\ IsFiniteSet(Consumed)
                    /\ Cardinality(Consumed) \in Nat
  OBVIOUS
<1>1. Consumed \in SUBSET (1 .. consumer) /\ consumer \in Nat
  BY DEF Consumed, BoundaryInv, FlightInv, RingInv, TypeOK
<1>2. IsFiniteSet(1 .. consumer)
  BY <1>1, FS_Interval
<1> QED BY <1>1, <1>2, FS_Subset, FS_CardinalityType

\* the words that are consumed do not change
LEMMA ConsumedKept ==
  ASSUME BoundaryInv, ProcessedAsPublished, UNCHANGED <<consumer, done>>,
         \A k \in 1 .. consumer : stream'[k] = stream[k]
  PROVE  ProcessedAsPublished'
<1>1. Consumed' = Consumed
  BY DEF Consumed
<1>2. \A i \in 1 .. Cardinality(Consumed) : Nth(Consumed, i) \in 1 .. consumer
  BY ConsumedType, NthExists
<1>3. [i \in 1 .. Cardinality(Consumed') |-> stream'[Nth(Consumed', i)][1]]
        = [i \in 1 .. Cardinality(Consumed) |-> stream[Nth(Consumed, i)][1]]
  BY <1>1, <1>2
<1> QED BY <1>3 DEF ProcessedAsPublished

\* the command at the head is the next
LEMMA ConsumedGrows ==
  ASSUME BoundaryInv, ProcessedAsPublished, Advance
  PROVE  ProcessedAsPublished'
<1> DEFINE m == consumer + 1
           z == inflight.size
           C == Consumed
           n == Cardinality(C)
<1>1. /\ inflight.cmd \in Commands /\ z \in Nat /\ z >= 2 /\ consumer + z <= producer
      /\ \A j \in 1 .. z : stream[consumer + j] = <<inflight.cmd, j>>
      /\ consumer' = consumer + z /\ UNCHANGED stream
  BY HeadCommand DEF Advance
<1>2. /\ C \in SUBSET (1 .. consumer) /\ consumer \in Nat /\ IsFiniteSet(C) /\ n \in Nat
  BY ConsumedType
<1>3. done' = Append(done, inflight.cmd)
  BY <1>1, ConstantsAssumption DEF Advance
<1> HIDE DEF z
<1>4. stream[m] = <<inflight.cmd, 1>>
  <2>1. 1 \in 1 .. z
    BY <1>1
  <2> QED BY <1>1, <2>1
<1>5. Consumed' = C \cup {m}
  <2>1. ASSUME NEW k \in m .. consumer + z, stream[k][2] = 1 PROVE k = m
    <3> DEFINE j == k - consumer
    <3>1. j \in 1 .. z /\ k = consumer + j
      BY <1>1, <1>2, <2>1
    <3> HIDE DEF j
    <3>2. stream[consumer + j] = <<inflight.cmd, j>>
      BY <1>1, <3>1
    <3>3. j = 1
      BY <2>1, <3>1, <3>2
    <3> QED BY <3>1, <3>3
  <2>2. \A k : k \in 1 .. consumer + z <=> k \in 1 .. consumer \/ k \in m .. consumer + z
    BY <1>1, <1>2
  <2>3. m \in m .. consumer + z /\ stream[m][2] = 1
    BY <1>1, <1>2, <1>4
  <2>4. Consumed' = {k \in 1 .. consumer + z : stream[k][2] = 1}
    BY <1>1 DEF Consumed
  <2> HIDE DEF m
  <2> QED BY <2>1, <2>2, <2>3, <2>4, Zenon DEF Consumed
<1>6. IsFiniteSet({m}) /\ \A j \in {m} : j \in Nat /\ consumer < j
  <2>1. m \in Nat /\ consumer < m
    BY <1>2
  <2> HIDE DEF m
  <2> QED BY <2>1, FS_Singleton
<1>7. m \notin C /\ m \in Nat
  BY <1>2
<1> HIDE DEF m, C, n
<1>8. IsFiniteSet(C \cup {m}) /\ Cardinality(C \cup {m}) = n + 1
  BY <1>2, <1>7, FS_AddElement DEF n
<1>9. ASSUME NEW i \in 1 .. n PROVE Nth(C \cup {m}, i) = Nth(C, i)
  <2>1. i \in 1 .. Cardinality(C)
    BY DEF n
  <2> QED BY <1>2, <1>6, <2>1, NthGrows
<1>10. Nth(C \cup {m}, n + 1) = m
  <2> DEFINE U == C \cup {m}
  <2>1. \A j \in U : j \in Nat /\ j <= m
    BY <1>2 DEF m
  <2>2. {j \in U : j <= m} = U
    BY <2>1, Zenon
  <2>3. Rank(U, m) = n + 1
    BY <1>8, <2>2 DEF Rank
  <2>4. IsFiniteSet(U) /\ m \in U
    BY <1>8
  <2> HIDE DEF U
  <2>5. Nth(U, n + 1) = m
    BY <2>1, <2>3, <2>4, NthIs
  <2> QED BY <2>5 DEF U
<1> DEFINE Was == [i \in 1 .. n |-> stream[Nth(C, i)][1]]
           Is  == [i \in 1 .. n + 1 |-> stream[Nth(C \cup {m}, i)][1]]
<1>11. Is = Append(Was, inflight.cmd)
  <2>1. Was \in Seq(Commands) /\ Len(Was) = n
    <3>1. Was = done /\ done \in Seq(Commands)
      BY DEF C, n, ProcessedAsPublished, BoundaryInv, FlightInv, RingInv, TypeOK
    <3>2. DOMAIN Was = 1 .. n
      OBVIOUS
    <3> HIDE DEF Was
    <3> QED BY <1>2, <3>1, <3>2, LenProperties
  <2>2. ASSUME NEW i \in 1 .. n PROVE Is[i] = Was[i]
    <3>1. i \in 1 .. n + 1
      BY <1>2
    <3>2. Is[i] = stream[Nth(C \cup {m}, i)][1] /\ Was[i] = stream[Nth(C, i)][1]
      BY <3>1
    <3> QED BY <1>9, <3>2
  <2>3. Is[n + 1] = inflight.cmd
    BY <1>2, <1>4, <1>10
  <2>4. Is \in [1 .. n + 1 -> Commands]
    <3>1. \A i \in 1 .. n : Was[i] \in Commands
      BY <2>1, ElementOfSeq
    <3>2. ASSUME NEW i \in 1 .. n + 1 PROVE Is[i] \in Commands
      <4>1. i \in 1 .. n \/ i = n + 1
        BY <1>2
      <4> HIDE DEF Is, Was
      <4>2. CASE i \in 1 .. n
        BY <2>2, <3>1, <4>2
      <4>3. CASE i = n + 1
        BY <1>1, <2>3, <4>3
      <4> QED BY <4>1, <4>2, <4>3
    <3> QED BY <3>2
  <2> HIDE DEF Was, Is
  <2>5. Is \in Seq(Commands) /\ Len(Is) = n + 1
    BY <1>2, <2>4, FunctionIsSeq
  <2> DEFINE App == Append(Was, inflight.cmd)
  <2>6. /\ App \in Seq(Commands) /\ Len(App) = n + 1
        /\ App[n + 1] = inflight.cmd /\ \A i \in 1 .. n : App[i] = Was[i]
    BY <1>1, <2>1, AppendProperties
  <2> HIDE DEF App
  <2>7. \A i \in 1 .. n + 1 : Is[i] = App[i]
    BY <1>2, <2>2, <2>3, <2>6
  <2>8. Is = App
    BY <2>5, <2>6, <2>7, SeqEqual
  <2> QED BY <2>8 DEF App
<1>12. done' = Is
  BY <1>3, <1>11 DEF ProcessedAsPublished, C, n
<1>13. Cardinality(Consumed') = n + 1
  BY <1>5, <1>8
<1> QED BY <1>1, <1>5, <1>12, <1>13 DEF ProcessedAsPublished

\* What the backend has processed is what was published, up to where it stands: no
\* command is lost, made up, repeated or out of order.
THEOREM ProcessedIsPublished ==
  ASSUME OneProducer, AlignedCommands PROVE Spec => []ProcessedAsPublished
<1>1. Init => BoundaryInv /\ ProcessedAsPublished
  <2> SUFFICES ASSUME Init PROVE ProcessedAsPublished
    BY BoundaryInit
  <2>1. Consumed = {}
    BY DEF Init, InitWith, Consumed
  <2>2. Cardinality(Consumed) = 0
    BY <2>1, FS_EmptySet
  <2> QED BY <2>2 DEF Init, InitWith, ProcessedAsPublished
<1>2. BoundaryInv /\ ProcessedAsPublished /\ [Next]_vars => (BoundaryInv /\ ProcessedAsPublished)'
  <2> SUFFICES ASSUME BoundaryInv, ProcessedAsPublished, [Next]_vars PROVE ProcessedAsPublished'
    BY BoundaryStep
  <2>1. /\ stream \in Seq(Word) /\ Len(stream) = producer /\ producer \in Nat /\ consumer \in Nat
        /\ consumer <= producer
    BY DEF BoundaryInv, FlightInv, RingInv, RingIntact, TypeOK
  <2>2. ASSUME NEW words \in Seq(Word), stream' = stream \o words, UNCHANGED <<consumer, done>>
        PROVE  ProcessedAsPublished'
    <3>1. \A k \in 1 .. producer : stream'[k] = stream[k]
      BY <2>1, <2>2, ConcatProperties
    <3>2. \A k \in 1 .. consumer : stream'[k] = stream[k]
      BY <2>1, <3>1
    <3> QED BY <2>2, <3>2, ConsumedKept
  <2>3. ASSUME UNCHANGED <<stream, consumer, done>> PROVE ProcessedAsPublished'
    BY <2>3, ConsumedKept
  <2>4. ASSUME NEW d \in Device, FlushPublish(d) PROVE ProcessedAsPublished'
    <3>1. staging[d] \in Seq(Word)
      BY DEF BoundaryInv, FlightInv, RingInv, TypeOK
    <3> QED BY <2>2, <2>4, <3>1 DEF FlushPublish, host
  <2>5. ASSUME SubmitPublish PROVE ProcessedAsPublished'
    <3>1. submitting \in Commands
      BY <2>5 DEF SubmitPublish, Commands, BoundaryInv, FlightInv, RingInv, TypeOK
    <3> QED BY <2>2, <2>5, <3>1, WordsOfCommand DEF SubmitPublish, host
  <2>6. CASE Advance
    BY <2>6, ConsumedGrows
  <2> QED
    BY <2>3, <2>4, <2>5, <2>6 DEF Next, Host, WriteCommand, Flush, FlushCopy, SubmitCopy, Read,
       ReadFails, HandlerFails, host, vars
<1> QED BY <1>1, <1>2, PTL DEF Spec
=============================================================================
