----------------------------- MODULE MmioWindow -----------------------------
(***************************************************************************)
(* The lifetime of the control window's mapping, runtime/cira_mmio.cpp:    *)
(* windows are opened from a configuration or from the environment, one of *)
(* them is the process's default, and replacing the default closes it.     *)
(* g_default_mutex makes each of the calls on the default one step.        *)
(*                                                                         *)
(* A window is [base, owned]: where it is mapped and whether closing it    *)
(* unmaps it.  The operating system may map a window where an earlier one  *)
(* was.                                                                    *)
(***************************************************************************)
EXTENDS Naturals, Sequences

CONSTANTS
  Bases,     \* addresses a mapping may get
  FixedBase, \* CIRA_CXL_MMIO_ADDR, where something is mapped all along
  Environs,  \* what the environment may hold
  MaxOpens   \* bound: windows the application opens

\* The texts of the variables, a primary name and a legacy one where there are
\* two; "" is unset, "junk" not a number, "short" a size below the control block.
Environment ==
  [size : {<<t, "">> : t \in {"", "junk", "short", "enough"}},
   addr : {"", "junk", "0", "address"} \X {"", "junk", "0", "address"},
   path : {"", "file"} \X {"", "file"}, emulate : {"", "0", "1"}]

ASSUME WindowsOK ==
  FixedBase \notin Bases /\ Environs \subseteq Environment /\ MaxOpens \in Nat

VARIABLES
  environ,  \* the environment
  mapped,   \* addresses in Bases with a mapping
  default,  \* g_default_window: no window, or one
  probed,   \* g_default_probed
  opens     \* windows the application has opened

windowVars == <<environ, mapped, default, probed, opens>>

WindowInit ==
  /\ environ \in Environs /\ mapped = {}
  /\ default = <<>> /\ probed = FALSE /\ opens = 0

\* The first name whose text is a number, or that is set.
ParseEnv(texts) == SelectSeq(texts, LAMBDA t : t \notin {"", "junk"})
EnvStr(texts) == SelectSeq(texts, LAMBDA t : t # "")
EnvFlag(text) == text \notin {"", "0"}

\* cira_mmio_open gives out a window that is not there where it would be too small
\* or its device cannot be opened or mapped; anonymous memory can always be mapped.
Opened(kind, size) ==
  CASE size = "short" \/ kind = "nothing" -> {<<>>}
    [] size # "short" /\ kind = "fixed" -> {<<[base |-> FixedBase, owned |-> FALSE]>>}
    [] OTHER -> {<<[base |-> b, owned |-> TRUE]>> : b \in Bases \ mapped}
                  \cup IF kind = "path" THEN {<<>>} ELSE {}

Owned(w) == {w[i].base : i \in {j \in DOMAIN w : w[j].owned}}

\* The variables rule each other out in this order; address 0 is none, and hides a
\* legacy address.
OpenEnv ==
  LET size == ParseEnv(environ.size)
      addr == ParseEnv(environ.addr)
      kind == CASE addr # <<>> /\ addr[1] # "0" -> "fixed"
                [] EnvFlag(environ.emulate) -> "emulate"
                [] EnvStr(environ.path) # <<>> -> "path"
                [] OTHER -> "nothing"
  IN  Opened(kind, IF size = <<>> THEN "enough" ELSE size[1])

\* cira_mmio_default: the environment is asked once, whether it has a window or not.
Known == default # <<>> \/ probed
Windows == IF Known THEN {default} ELSE OpenEnv

Default(w) ==
  IF Known THEN w = default /\ UNCHANGED windowVars
  ELSE /\ w \in OpenEnv
       /\ probed' = TRUE /\ default' = w /\ mapped' = mapped \cup Owned(w)
       /\ UNCHANGED <<environ, opens>>

\* cira_mmio_set_default, with a window the application has just opened, or with
\* none, after which the environment is asked again.
SetDefault(w) ==
  /\ mapped' = (mapped \ Owned(default)) \cup Owned(w)
  /\ default' = w /\ probed' = (w # <<>>)
  /\ UNCHANGED environ

Replace ==
  \/ /\ opens < MaxOpens /\ opens' = opens + 1
     /\ \E w \in Opened("emulate", "enough") : SetDefault(w)
  \/ default # <<>> /\ SetDefault(<<>>) /\ UNCHANGED opens

=============================================================================
