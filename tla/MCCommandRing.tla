--------------------------- MODULE MCCommandRing ---------------------------
(* Instances of CommandRing for TLC: the sizes of the commands, and which of  *)
(* them are written.                                                          *)
EXTENDS CommandRing

CONSTANTS small, medium, large, other, fence, update, odd

\* the user-mode driver's are whole multiples of the alignment, the kernel-mode
\* driver's, which it does not pad, are not
MCSize == [c \in Commands |->
             CASE c = small -> 2 [] c = large -> 6 [] c = fence -> 3 [] c = odd -> 5
               [] OTHER -> 4]

\* CMD_FENCE and four other commands of the user-mode driver are not, either
MCOddSize == [c \in Commands |-> IF c = small THEN 3 ELSE 4]

\* the ring has one producer: the user-mode device or the kernel-mode driver
MCInit == \E commands \in {Command, KernelCommand} : InitWith(commands)

MCSpec == MCInit /\ [][Next]_vars /\ Fairness
=============================================================================
