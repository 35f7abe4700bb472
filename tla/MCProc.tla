------------------------------- MODULE MCProc -------------------------------
(***************************************************************************)
(* Instances of Proc for TLC.  With two processors the calls are shared    *)
(* out: a child of init forks, its child makes threads or execs.           *)
(***************************************************************************)
EXTENDS Proc, TLC

MCCalls == <<{"fork", "wait"},
             {"fork", "exit", "wait"},
             {"clone", "exec", "exit", "join", "kill"},
             {"exit"}>>

MCNoKill == [k \in 1 .. MaxPid |-> {"fork", "clone", "exit", "wait", "join"}]

CPUSymmetry == Permutations(CPUs)
=============================================================================
