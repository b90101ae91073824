---------------------------- MODULE MemoryTokens ----------------------------
(***************************************************************************)
(* RuntimeMemory with the tokens its addresses have: registrations come    *)
(* and go while compiled code translates.                                  *)
(***************************************************************************)
EXTENDS RuntimeMemory, AddressTokens

Addresses ==
  {Addr(c, i) : c \in Cells, i \in 0..1} \cup Arena.base..(Arena.base + Arena.size - 1)

\* What callers may ask about: what is allocated, and the application's own region.
Asked ==
  {a \in Addresses : IF a \div 2 \in Cells THEN heap[a \div 2] # "free"
                     ELSE Arena \in Range(regions)}

\* Whatever is registered by then and whichever source answers, two addresses have
\* two tokens: the device is never sent to other memory than the host meant
\* (translate_runtime_paddr), as long as the kernel answers for all pages or none
\* and the windows registered, the driver's and the cache's do not meet.
TokensTell ==
  \A mode \in Modes :
    Cardinality({Token(mode, a, Translated(a)) : a \in Asked}) = Cardinality(Asked)
=============================================================================
