--------------------------- MODULE ScheduleProofs ---------------------------
(***************************************************************************)
(* Proofs about Schedule.tla, for any table of processes and any           *)
(* priorities: the types, the state of a round, and the order of service.  *)
(***************************************************************************)
EXTENDS Schedule, TLAPS

(* Proc and the process set of RoundRobin are the same interval.           *)
LEMMA ProcIsRRProc == RR!Proc = Proc
  BY TableAssumption DEF RR!Proc, Proc

(* Precedence in a round is a strict total order of the processes.         *)
LEMMA BeforeTrichotomy ==
  ASSUME NEW p \in Proc, NEW q \in Proc
  PROVE  /\ p = q \/ RR!Before(p, q) \/ RR!Before(q, p)
         /\ ~ (RR!Before(p, q) /\ RR!Before(q, p))
         /\ ~ RR!Before(p, p)
  BY TableAssumption DEF RR!Before, Proc

(* When the running process has used up its quantum and somebody is left   *)
(* with ticks, the scan of schedule() stops at the next one in the round.  *)
LEMMA ScanFindsSuccessor ==
  ASSUME NEW t \in [Proc -> Int], NEW c \in Proc, NEW p \in Proc,
         \A q \in Proc : RR!Before(q, c) => t[q] <= 0,
         \A q \in Proc : RR!Before(c, q) => t[q] = priority[q],
         t[c] <= 0,
         Greatest(t, p)
  PROVE  /\ RR!Before(c, p)
         /\ \A r \in Proc : RR!Before(c, r) => r = p \/ RR!Before(p, r)
<1>1. RR!Before(c, p)
  BY BeforeTrichotomy DEF Greatest
<1>2. ASSUME NEW r \in Proc, RR!Before(c, r)
      PROVE  r = p \/ RR!Before(p, r)
  <2>1. t[r] = priority[r] /\ t[p] = priority[p]
    BY <1>1, <1>2
  <2> QED
    BY <2>1, TableAssumption DEF Greatest, RR!Before, Proc
<1> QED
  BY <1>1, <1>2

(* After a refill the scan stops at the first process of the round.        *)
LEMMA ScanAfterRefillFindsFirst ==
  ASSUME NEW p \in Proc, Greatest(priority, p)
  PROVE  RR!IsFirst(p)
  BY TableAssumption DEF Greatest, RR!IsFirst, RR!Before, RR!Proc, Proc

(* The types are invariant, and the overdraft is bounded: a process that   *)
(* is charged below its bound loses the CPU with that very tick.           *)
THEOREM TypeCorrect == Spec => []TypeOK
<1> USE DEF TypeOK
<1>0. /\ 0 \in Proc
      /\ \A p \in Proc : priority[p] \in 1 .. priority[0]
      /\ MaxDebt \in Nat
  BY TableAssumption DEF Proc
<1>1. Init => TypeOK
  BY <1>0, TableAssumption DEF Init
<1>2. TypeOK /\ [Next]_vars => TypeOK'
  <2> SUFFICES ASSUME TypeOK, [Next]_vars
               PROVE  TypeOK'
    OBVIOUS
  <2>1. /\ Charged \in [Proc -> -MaxDebt - 1 .. priority[0]]
        /\ proc_ticks[p_proc_ready] > -MaxDebt
             => Charged[p_proc_ready] >= -MaxDebt
    BY <1>0 DEF Charged
  <2>2. CASE ClockHandler
    <3>1. CASE Charged[p_proc_ready] > 0
      BY <1>0, <2>1, <2>2, <3>1 DEF ClockHandler
    <3>2. CASE ~ (Charged[p_proc_ready] > 0)
      <4>1. PICK p \in Proc : Greatest(proc_ticks', p) /\ p_proc_ready' = p
        BY <2>2, <3>2 DEF ClockHandler
      <4>2. proc_ticks' \in [Proc -> -MaxDebt - 1 .. priority[0]]
        BY <1>0, <2>1, <2>2, <3>2, TableAssumption DEF ClockHandler, Refilled
      <4> QED
        BY <1>0, <4>1, <4>2 DEF Greatest
    <3> QED
      BY <3>1, <3>2
  <2>3. CASE ClockHandlerNested
    BY <2>1, <2>3 DEF ClockHandlerNested
  <2>4. CASE UNCHANGED vars
    BY <2>4 DEF vars
  <2> QED
    BY <2>2, <2>3, <2>4 DEF Next
<1> QED
  BY <1>1, <1>2, PTL DEF Spec

-----------------------------------------------------------------------------
(* What one step of the scheduler does to a round: it keeps RoundInv, and  *)
(* if it moves the CPU, it moves it to the next process of the round.      *)
LEMMA StepKeepsRound ==
  ASSUME TypeOK, RoundInv, [Next]_vars
  PROVE  /\ RoundInv'
         /\ p_proc_ready' # p_proc_ready
              => RR!IsNext(p_proc_ready, p_proc_ready') /\ p_proc_ready' \in Proc
<1> DEFINE c == p_proc_ready
           t == Charged
<1> USE DEF TypeOK
<1>0. /\ t \in [Proc -> Int]
      /\ \A q \in Proc : RR!Before(q, c) => t[q] <= 0
      /\ \A q \in Proc : RR!Before(c, q) => t[q] = priority[q]
      /\ t[c] <= priority[c]
  <2>1. /\ t \in [Proc -> Int]
        /\ \A q \in Proc \ {c} : t[q] = proc_ticks[q]
        /\ t[c] = proc_ticks[c] - 1
    BY DEF Charged
  <2>2. priority[c] \in Int /\ proc_ticks[c] \in Int
    BY TableAssumption
  <2> QED
    BY <2>1, <2>2, BeforeTrichotomy DEF RoundInv
<1>1. CASE proc_ticks' = t /\ UNCHANGED p_proc_ready
  BY <1>0, <1>1 DEF RoundInv
<1>2. CASE ClockHandler /\ ~ (t[c] > 0)
  <2>1. t[c] <= 0
    BY <1>0, <1>2
  <2>2. proc_ticks' = Refilled(t)
    BY <1>2 DEF ClockHandler
  <2>3. PICK p \in Proc : Greatest(proc_ticks', p) /\ p_proc_ready' = p
    BY <1>2 DEF ClockHandler
  <2>4. CASE ~ NothingLeft(t)
    <3>1. proc_ticks' = t
      BY <2>2, <2>4 DEF Refilled
    <3>2. /\ RR!Before(c, p)
          /\ \A r \in Proc : RR!Before(c, r) => r = p \/ RR!Before(p, r)
      BY <1>0, <2>1, <2>3, <3>1, ScanFindsSuccessor
    <3>3. RR!IsNext(c, p)
      BY <3>2, ProcIsRRProc DEF RR!IsNext
    <3>4. ASSUME NEW q \in Proc, RR!Before(q, p)
          PROVE  t[q] <= 0
      <4>1. ~ RR!Before(c, q)
        BY <3>2, <3>4, BeforeTrichotomy
      <4> QED
        BY <4>1, <1>0, <2>1, BeforeTrichotomy
    <3>5. ASSUME NEW q \in Proc, RR!Before(p, q)
          PROVE  t[q] = priority[q]
      <4>1. RR!Before(c, q)
        BY <3>2, <3>5, TableAssumption DEF RR!Before, Proc
      <4> QED
        BY <4>1, <1>0
    <3>6. t[p] <= priority[p]
      BY <1>0, <3>2, TableAssumption
    <3> QED
      BY <2>3, <3>1, <3>3, <3>4, <3>5, <3>6 DEF RoundInv
  <2>5. CASE NothingLeft(t)
    <3>1. proc_ticks' = priority
      BY <2>2, <2>5 DEF Refilled
    <3>2. RR!IsFirst(p)
      BY <2>3, <3>1, ScanAfterRefillFindsFirst
    <3>3. RR!IsLast(c)
      <4>1. ASSUME NEW q \in Proc, RR!Before(c, q)
            PROVE  FALSE
        BY <4>1, <1>0, <2>5, TableAssumption DEF NothingLeft
      <4> QED
        BY <4>1, BeforeTrichotomy, ProcIsRRProc DEF RR!IsLast
    <3>4. ASSUME NEW q \in Proc
          PROVE  ~ RR!Before(q, p)
      BY <3>2, BeforeTrichotomy, ProcIsRRProc DEF RR!IsFirst
    <3> QED
      BY <2>3, <3>1, <3>2, <3>3, <3>4, TableAssumption
      DEF RoundInv, RR!IsNext
  <2> QED
    BY <2>4, <2>5
<1>3. CASE UNCHANGED vars
  BY <1>3 DEF vars, RoundInv
<1> QED
  BY <1>1, <1>2, <1>3 DEF Next, ClockHandler, ClockHandlerNested

(* kernel_main() hands the CPU to entry 0, which nobody outranks.          *)
LEMMA InitStartsRound == Init => RoundInv /\ RR!Init
<1> SUFFICES ASSUME Init
             PROVE  RoundInv /\ RR!Init
  OBVIOUS
<1>1. 0 \in Proc
  BY TableAssumption DEF Proc
<1>2. \A q \in Proc \ {0} : RR!Before(0, q)
  BY TableAssumption DEF RR!Before, Proc
<1>3. RR!Init
  BY <1>1, <1>2, ProcIsRRProc DEF RR!Init, RR!IsFirst, Init
<1>4. RoundInv
  BY <1>1, <1>2, BeforeTrichotomy, TableAssumption DEF RoundInv, Init
<1> QED
  BY <1>3, <1>4

(* At any time, before the running process nobody has ticks left, behind   *)
(* it everybody has a full quantum.                                        *)
THEOREM RoundCorrect == Spec => []RoundInv
<1>1. TypeOK /\ RoundInv /\ [Next]_vars => RoundInv'
  BY StepKeepsRound
<1> QED
  BY <1>1, InitStartsRound, TypeCorrect, PTL DEF Spec

(* The scheduler implements RoundRobin.                                    *)
THEOREM ImplementsRoundRobin == Spec => RoundRobinOrder
<1>1. TypeOK /\ RoundInv /\ [Next]_vars => [RR!Rotate]_p_proc_ready
  BY StepKeepsRound, ProcIsRRProc DEF RR!Rotate
<1> QED
  BY <1>1, InitStartsRound, TypeCorrect, RoundCorrect, PTL
  DEF Spec, RoundRobinOrder, RR!SafeSpec
=============================================================================
