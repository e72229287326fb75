-------------------------- MODULE MCShutdownTiming --------------------------
(***************************************************************************)
(* Configurations for model checking ShutdownTiming.                       *)
(***************************************************************************)
EXTENDS ShutdownTiming

\* c needs b, b needs a: each waits for the one before it.
Chain ==
  [listed |-> {"a", "b", "c"},
   dependsOn |-> [n \in Names |-> CASE n = "c" -> {"b"} [] n = "b" -> {"a"} [] OTHER -> {}],
   stopTimeout |-> [n \in Names |-> CASE n = "c" -> 3 [] n = "b" -> 2 [] OTHER -> 1]]

\* The chain turned round.
Reversed ==
  [Chain EXCEPT
     !.dependsOn = [n \in Names |-> CASE n = "a" -> {"b"} [] n = "b" -> {"c"} [] OTHER -> {}]]

\* The chain without c, which takes longest.
Short == [Chain EXCEPT !.listed = {"a", "b"}]

SameServices == {Chain, Reversed}
OneDropped == {Chain, Short}

=============================================================================
