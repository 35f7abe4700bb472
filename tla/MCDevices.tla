------------------------------ MODULE MCDevices ------------------------------
(***************************************************************************)
(* Two CPUs: the one that takes the keyboard's interrupts and counts ticks *)
(* reads lines and kills, the other one reads, writes, sleeps and asks the *)
(* time.  ticks and the indices of the input ring are about to wrap.       *)
(***************************************************************************)
EXTENDS Devices

MCCalls == [c \in Cpus |->
    IF c = Boot
    THEN {[f |-> "consoleread", n |-> 2], [f |-> "kill", n |-> 1]}
    ELSE {[f |-> "consoleread", n |-> 1], [f |-> "sys_sleep", n |-> 2],
          [f |-> "consolewrite", n |-> 1], [f |-> "sys_uptime", n |-> 0]}]
=============================================================================
