------------------------------ MODULE Schedule ------------------------------
(***************************************************************************)
(* The process scheduler: clock_handler() of kernel/clock.c and schedule() *)
(* of kernel/proc.c, each clock interrupt taken as one step.               *)
(*                                                                         *)
(* A clock interrupt that arrives while the kernel is already in an        *)
(* interrupt or a system call (k_reenter # 0) charges the running process  *)
(* a tick but never switches; one that arrives in a process may switch.    *)
(* Interrupt.tla opens the step up and is shown to implement this module.  *)
(***************************************************************************)
EXTENDS Integers

CONSTANTS
  NR_TASKS,   \* tasks (ring 1): the first entries of proc_table
  NR_PROCS,   \* user processes (ring 3): the entries behind them
  priority,   \* PROCESS.priority, "read only" (include/proc.h)
  MaxDebt     \* bound: how far below 0 ticks charged in the kernel may bring
              \* a process, i.e. how long it may stay in system calls

Proc == 0 .. NR_TASKS + NR_PROCS - 1

(* kernel_main() gives the task priority 10 and every user process 1, so   *)
(* no process outranks entry 0, and no priority is 0.                      *)
ASSUME TableAssumption ==
  /\ NR_TASKS \in Nat \ {0}
  /\ NR_PROCS \in Nat
  /\ priority \in [Proc -> Nat \ {0}]
  /\ \A p \in Proc : priority[p] <= priority[0]
  /\ MaxDebt \in Nat

VARIABLES
  proc_ticks,   \* proc_table[i].ticks, what is left of each quantum
  p_proc_ready  \* the process that runs when the kernel is left

vars == <<proc_ticks, p_proc_ready>>

-----------------------------------------------------------------------------
(* Deviation: `>=' in the scan, which stops with the last one of them.     *)
GreatestLast(t, p) ==
  /\ t[p] > 0
  /\ \A q \in Proc : t[q] < t[p] \/ (t[q] = t[p] /\ q <= p)

(* The scan of schedule(): `p->ticks > greatest_ticks' from the front of   *)
(* the table, starting from 0, stops with the first entry that has the     *)
(* most ticks, provided that is more than 0.                               *)
Greatest(t, p) ==
  /\ t[p] > 0
  /\ \A q \in Proc : t[q] < t[p] \/ (t[q] = t[p] /\ p <= q)

NothingLeft(t) == \A p \in Proc : t[p] <= 0

(* schedule(): when the scan finds nobody, all quanta are refilled from    *)
(* the priorities and the scan is repeated.                                *)
Refilled(t) == IF NothingLeft(t) THEN priority ELSE t

Charged == [proc_ticks EXCEPT ![p_proc_ready] = @ - 1]

-----------------------------------------------------------------------------
Init ==
  /\ proc_ticks = priority
  /\ p_proc_ready = 0

(* Deviation: the quantum is over when it is 0, not when it is below.      *)
ClockHandlerAtZero ==
  IF Charged[p_proc_ready] # 0
  THEN proc_ticks' = Charged /\ UNCHANGED p_proc_ready
  ELSE /\ proc_ticks' = Refilled(Charged)
       /\ \E p \in Proc : Greatest(proc_ticks', p) /\ p_proc_ready' = p

(* clock_handler() in a process: k_reenter = 0.                            *)
ClockHandler ==
  IF Charged[p_proc_ready] > 0
  THEN proc_ticks' = Charged /\ UNCHANGED p_proc_ready
  ELSE /\ proc_ticks' = Refilled(Charged)
       /\ \E p \in Proc : Greatest(proc_ticks', p) /\ p_proc_ready' = p

(* clock_handler() in the kernel: k_reenter # 0, return after the charge.  *)
ClockHandlerNested ==
  /\ proc_ticks[p_proc_ready] > -MaxDebt
  /\ proc_ticks' = Charged
  /\ UNCHANGED p_proc_ready

Next == ClockHandler \/ ClockHandlerNested

Spec == Init /\ [][Next]_vars

-----------------------------------------------------------------------------
(* Types; no quantum is overdrawn by more than the ticks that a process    *)
(* may get in the kernel and the one that ends its turn.                   *)
TypeOK ==
  /\ proc_ticks \in [Proc -> -MaxDebt - 1 .. priority[0]]
  /\ p_proc_ready \in Proc
  /\ proc_ticks[p_proc_ready] >= -MaxDebt

RR == INSTANCE RoundRobin WITH N <- NR_TASKS + NR_PROCS, cur <- p_proc_ready

(* The state of a round in terms of tick counts: whoever comes before the  *)
(* running process has nothing left, whoever comes behind it still has a   *)
(* full quantum.  So nobody is charged for time another process used and   *)
(* nobody is chosen again before the refill of schedule().                 *)
RoundInv ==
  /\ \A q \in Proc : RR!Before(q, p_proc_ready) => proc_ticks[q] <= 0
  /\ \A q \in Proc : RR!Before(p_proc_ready, q) => proc_ticks[q] = priority[q]
  /\ proc_ticks[p_proc_ready] <= priority[p_proc_ready]

(* schedule() serves the processes strictly in turn, whatever mixture of   *)
(* ticks in processes and ticks in the kernel the clock delivers.          *)
RoundRobinOrder == RR!SafeSpec

(* kernel/proc.c:27 "if the ticks of all processes are 0, copy them again  *)
(* from the start": a refill happens when all ticks are 0.                 *)
RefillAtZero ==
  [][(\E p \in Proc : proc_ticks'[p] > proc_ticks[p])
       => \A q \in Proc : Charged[q] = 0]_vars
=============================================================================
