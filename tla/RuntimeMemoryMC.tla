--------------------------- MODULE RuntimeMemoryMC ---------------------------
(* Instances of RuntimeMemory for TLC. *)
EXTENDS MemoryTokens, TLC

Swap == Permutations(Threads) \cup Permutations(Mapped)

\* Every page has its frame; the driver knows a device address for some, the host's
\* for others, and nothing of the rest.
SomeFrames == [p \in 0..7 |-> (3 * p) % 8]
LostFrame == [p \in 0..7 |-> CASE p = 1 -> 0 [] p = 2 -> 1 [] OTHER -> p]
SomeAnswers ==
  [a \in Addresses |-> [device |-> IF a % 3 = 0 THEN 64 + a ELSE 0,
                        host |-> IF a % 3 = 1 THEN 80 + a ELSE 0]]
TwoMasks == <<5, 10>>
==============================================================================
