------------------------------ MODULE MCDaemon ------------------------------
(***************************************************************************)
(* Small loads for model checking Daemon: a service the daemon starts, one *)
(* it does not, and a file without it.                                     *)
(***************************************************************************)
EXTENDS Daemon

CONSTANT a

Item(n, deps, auto) == [name |-> n, dependsOn |-> deps, autostart |-> auto]

SmallLoads == {<<Item(a, {}, TRUE)>>, <<Item(a, {}, FALSE)>>, <<>>}

============================================================================
