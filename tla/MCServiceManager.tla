-------------------------- MODULE MCServiceManager --------------------------
(***************************************************************************)
(* Small loads for model checking ServiceManager.                          *)
(***************************************************************************)
EXTENDS ServiceManager

CONSTANTS a, b, c

Item(n, deps, auto) == [name |-> n, dependsOn |-> deps, autostart |-> auto]

\* The service that needs another comes first in the file, so that the pass over the services
\* meets it before the one it needs.
Pair == <<Item(b, {a}, TRUE), Item(a, {}, FALSE)>>
\* The dependency turned round, and one service dropped.
Turned == <<Item(a, {b}, TRUE), Item(b, {}, TRUE)>>
Single == <<Item(b, {}, TRUE)>>

PairLoads == {Pair, Turned, Single}

\* A chain of three, its middle dropped, and what is left turned round.
Chain == <<Item(c, {b}, TRUE), Item(b, {a}, FALSE), Item(a, {}, FALSE)>>
Cut == <<Item(c, {a}, TRUE), Item(a, {}, FALSE)>>
CutTurned == <<Item(a, {c}, TRUE), Item(c, {}, FALSE)>>
ChainLoads == {Chain, Cut, CutTurned}

============================================================================
