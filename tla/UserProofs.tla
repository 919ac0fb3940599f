----------------------------- MODULE UserProofs -----------------------------
(***************************************************************************)
(* Proofs about the processes that print and wait for the clock, for any   *)
(* width of an int, any HZ, any process table, any messages, and any delays *)
(* short enough for an int: milli_delay() returns neither early nor late,  *)
(* and printf() writes what its format says.  That a delay is not late     *)
(* rests on what ScheduleProofs.tla proves of the scheduler, and on an     *)
(* induction over the process table for the sum of the quanta; what is     *)
(* printed rests on inductions over the loops of itoa() and vsprintf().    *)
(***************************************************************************)
EXTENDS User, ScheduleProofs, Induction, FiniteSetTheorems, SequenceTheorems

(* The quotient and the remainder by a positive number.                    *)
LEMMA Division ==
  ASSUME NEW x \in Int, NEW d \in Nat, d > 0
  PROVE  /\ x \div d \in Int
         /\ x % d \in 0 .. d - 1
         /\ x = d * (x \div d) + (x % d)
<1>1. x \div d \in Int
  BY SMTT(30)
<1>2. x % d \in 0 .. d - 1
  BY SMTT(30)
<1>3. x = d * (x \div d) + (x % d)
  BY SMTT(30)
<1> QED
  BY <1>1, <1>2, <1>3

(* The quotient and the remainder are the only ones.                       *)
LEMMA DivisionUnique ==
  ASSUME NEW x \in Int, NEW d \in Nat, d > 0,
         NEW q \in Int, NEW r \in 0 .. d - 1, x = d * q + r
  PROVE  x \div d = q /\ x % d = r
<1> DEFINE a == x \div d
           b == x % d
<1>1. a \in Int /\ b \in 0 .. d - 1 /\ x = d * a + b
  BY Division
<1> HIDE DEF a, b
<1>2. d * (a - q) = r - b
  <2>1. d * (a - q) = d * a - d * q /\ d * a \in Int /\ d * q \in Int
    BY <1>1
  <2> QED
    BY <1>1, <2>1
<1>3. ~ (a - q >= 1)
  <2> SUFFICES ASSUME a - q >= 1 PROVE FALSE
    OBVIOUS
  <2>1. d * (a - q) >= d
    BY <1>1
  <2> QED
    BY <2>1, <1>1, <1>2
<1>4. ~ (a - q <= -1)
  <2> SUFFICES ASSUME a - q <= -1 PROVE FALSE
    OBVIOUS
  <2>1. d * (a - q) <= -d
    BY <1>1
  <2> QED
    BY <2>1, <1>1, <1>2
<1>5. a = q
  BY <1>1, <1>3, <1>4
<1>6. b = r
  <2>1. d * a \in Int /\ d * a = d * q
    BY <1>1, <1>5
  <2> QED
    BY <1>1, <2>1
<1> QED
  BY <1>5, <1>6 DEF a, b

(* The powers of 16 are what their recursion says.                         *)
LEMMA Powers ==
  /\ Digits \in Nat \ {0}
  /\ Power16 \in [0 .. Digits -> Nat \ {0}]
  /\ Power16[0] = 1
  /\ \A n \in 1 .. Digits : Power16[n] = 16 * Power16[n - 1]
<1> DEFINE N == Digits
           S == Nat \ {0}
           P(f) == f = [n \in 0 .. N |-> IF n = 0 THEN 1 ELSE 16 * f[n - 1]]
           step == [x \in (1 .. N) \X S |-> 16 * x[2]]
<1>1. N \in Nat \ {0}
  BY BitsAssumption DEF Digits
<1>2. Power16 = CHOOSE f : P(f)
  BY DEF Power16
<1> HIDE DEF N
<1>3. IsStep(step, N, S)
  BY DEF IsStep
<1>4. \A i \in 1 .. N, m \in S : step[<<i, m>>] = 16 * m
  OBVIOUS
<1> HIDE DEF step
<1>5. PICK f : Follows(f, N, S, 1, step)
  BY <1>1, <1>3, Recursion
<1>6. P(f)
  <2>1. f \in [0 .. N -> S] /\ f[0] = 1 /\ \A i \in 1 .. N : f[i] = step[<<i, f[i - 1]>>]
    BY <1>5 DEF Follows
  <2>2. \A i \in 1 .. N : f[i - 1] \in S
    BY <1>1, <2>1
  <2>3. \A i \in 1 .. N : f[i] = 16 * f[i - 1]
    BY <1>4, <2>1, <2>2
  <2> QED
    BY <1>1, <2>1, <2>3
<1>7. P(Power16)
  BY <1>2, <1>6
<1>8. /\ Power16 = [i \in 0 .. N |-> Power16[i]] /\ Power16[0] = 1
      /\ \A i \in 1 .. N : Power16[i] = 16 * Power16[i - 1]
  BY <1>1, <1>7
<1>9. \A i \in 1 .. N : Power16[i - 1] \in S => Power16[i] = step[<<i, Power16[i - 1]>>]
  BY <1>4, <1>8
<1>10. Follows(Power16, N, S, 1, step)
  <2>1. 1 \in S
    OBVIOUS
  <2> HIDE DEF S
  <2> QED
    BY <1>1, <1>3, <1>8, <1>9, <2>1, FollowsAlong
<1> QED
  BY <1>1, <1>8, <1>10 DEF Follows, N

(* An int has 2 * Half values.                                             *)
LEMMA HalfIsPositive ==
  Half \in Nat \ {0} /\ 2 * Half = Power16[Digits]
<1> DEFINE a == Power16[Digits - 1]
<1>1. Power16[Digits] = 16 * a /\ a \in Nat \ {0}
  BY Powers
<1> HIDE DEF a
<1>2. (16 * a) \div 2 = 8 * a
  BY <1>1
<1> QED
  BY <1>1, <1>2 DEF Half

(* A number that differs from one in the range of an int by a multiple of  *)
(* 2 * Half is stored as that one.                                         *)
LEMMA AsIntUnique ==
  ASSUME NEW n \in Int, NEW m \in IntRange, NEW k \in Int, n = m + k * (2 * Half)
  PROVE  AsInt(n) = m
<1> DEFINE M == 2 * Half
           q == (n + Half) \div M
           r == (n + Half) % M
<1>1. Half \in Nat /\ Half > 0 /\ M \in Nat /\ M > 0
  BY HalfIsPositive
<1>2. q \in Int /\ r \in 0 .. M - 1 /\ n + Half = M * q + r
  <2> HIDE DEF M
  <2>1. n + Half \in Int
    BY <1>1
  <2> QED
    BY <1>1, <2>1, Division
<1>3. m \in Int /\ m + Half \in 0 .. M - 1
  BY <1>1 DEF IntRange
<1> HIDE DEF M, q, r
<1>4. n = m + M * k
  BY <1>1 DEF M
<1>5. M * (q - k) = (m + Half) - r
  <2>1. M * (q - k) = M * q - M * k
    BY <1>1, <1>2
  <2>2. M * q \in Int /\ M * k \in Int
    BY <1>1, <1>2
  <2>3. M * q = (n + Half) - r
    BY <2>2, <1>1, <1>2
  <2> QED
    BY <2>1, <2>2, <2>3, <1>1, <1>2, <1>3, <1>4
<1>6. q - k = 0
  <2>1. q - k \in Int
    BY <1>2
  <2>2. ~ (q - k >= 1)
    <3> SUFFICES ASSUME q - k >= 1 PROVE FALSE
      OBVIOUS
    <3>1. M * (q - k) >= M
      BY <1>1, <2>1
    <3> QED
      BY <3>1, <1>1, <1>2, <1>3, <1>5
  <2>3. ~ (q - k <= -1)
    <3> SUFFICES ASSUME q - k <= -1 PROVE FALSE
      OBVIOUS
    <3>1. M * (q - k) <= -M
      BY <1>1, <2>1
    <3> QED
      BY <3>1, <1>1, <1>2, <1>3, <1>5
  <2> QED
    BY <2>1, <2>2, <2>3
<1>7. r = m + Half
  BY <1>1, <1>2, <1>3, <1>5, <1>6
<1> QED
  BY <1>1, <1>2, <1>7 DEF AsInt, M, r, IntRange

(* A number is stored as one that differs by a multiple of 2 * Half.       *)
LEMMA AsIntCongruent ==
  ASSUME NEW n \in Int
  PROVE  /\ AsInt(n) \in IntRange
         /\ \E k \in Int : AsInt(n) = n + k * (2 * Half)
<1> DEFINE M == 2 * Half
           q == (n + Half) \div M
           r == (n + Half) % M
<1>1. Half \in Nat /\ Half > 0 /\ M \in Nat /\ M > 0
  BY HalfIsPositive
<1>2. q \in Int /\ r \in 0 .. M - 1 /\ n + Half = M * q + r
  <2> HIDE DEF M
  <2>1. n + Half \in Int
    BY <1>1
  <2> QED
    BY <1>1, <2>1, Division
<1>3. AsInt(n) = r - Half
  BY DEF AsInt
<1> HIDE DEF q, r
<1>4. AsInt(n) \in IntRange
  BY <1>1, <1>2, <1>3 DEF IntRange
<1>5. -q \in Int /\ AsInt(n) = n + (-q) * M
  <2>1. (-q) * M = -(M * q)
    BY <1>1, <1>2
  <2> QED
    BY <1>1, <1>2, <1>3, <2>1
<1> QED
  BY <1>4, <1>5

(* The ticks a delay takes are at least what was asked for.                *)
LEMMA NeededIsEnough ==
  ASSUME NEW p \in Delayers
  PROVE  Needed[p] \in Int /\ Needed[p] * Second >= milli_sec[p] * HZ
<1> DEFINE x == milli_sec[p] * HZ
           y == x + Second - 1
           q == y \div Second
           r == y % Second
<1>1. Second \in Nat /\ Second > 0 /\ x \in Nat
  BY DelayAssumption
<1> HIDE DEF x
<1>2. q \in Int /\ r \in 0 .. Second - 1 /\ y = Second * q + r
  BY <1>1, Division
<1>3. Needed[p] = q
  BY DEF Needed, x
<1> HIDE DEF q, r
<1>4. Second * q >= x
  BY <1>1, <1>2
<1>5. q * Second = Second * q
  BY <1>1, <1>2
<1> QED
  BY <1>2, <1>3, <1>4, <1>5 DEF x

-----------------------------------------------------------------------------
DelayTypes ==
  /\ ticks \in IntRange
  /\ pc \in [Delayers -> {"printf", "milli_delay", "while"}]
  /\ t \in [Delayers -> IntRange]
  /\ elapsed \in [Delayers -> 0 .. MaxElapsed]

(* While a delay is counted, the time and its beginning differ by as much  *)
(* as has passed, up to a wrap of the time.                                *)
Counted ==
  \A p \in Delayers : pc[p] = "while" /\ elapsed[p] < MaxElapsed =>
    \E k \in Int : ticks - t[p] = elapsed[p] + k * (2 * Half)

DelayInv == DelayTypes /\ Counted

(* What the running process does keeps the count.                          *)
LEMMA StepKeepsCount ==
  ASSUME DelayInv, Step
  PROVE  DelayInv'
<1> DEFINE p == p_proc_ready
<1>0. /\ p \in Delayers /\ ticks' = ticks
      /\ HZ \in Nat /\ MaxElapsed \in Nat /\ 0 \in IntRange
  BY DelayAssumption, HalfIsPositive DEF Step, IntRange
<1>1. CASE Printf(p)
  <2>1. /\ pc' = [pc EXCEPT ![p] = "milli_delay"]
        /\ t' = t /\ elapsed' = elapsed
    BY <1>1 DEF Printf
  <2> QED
    BY <1>0, <2>1 DEF DelayInv, DelayTypes, Counted
<1>2. CASE MilliDelay(p)
  <2>1. /\ pc' = [pc EXCEPT ![p] = "while"]
        /\ t' = [t EXCEPT ![p] = ticks]
        /\ elapsed' = [elapsed EXCEPT ![p] = 0]
    BY <1>2 DEF MilliDelay
  <2>2. DelayTypes'
    BY <1>0, <2>1 DEF DelayInv, DelayTypes
  <2>3. ASSUME NEW s \in Delayers, pc'[s] = "while", elapsed'[s] < MaxElapsed
        PROVE  \E k \in Int : ticks' - t'[s] = elapsed'[s] + k * (2 * Half)
    <3>1. CASE s = p
      <4>1. ticks' - t'[s] = 0 /\ elapsed'[s] = 0
        BY <1>0, <2>1, <3>1 DEF DelayInv, DelayTypes, IntRange
      <4>2. 0 * (2 * Half) = 0
        BY HalfIsPositive
      <4> QED
        BY <4>1, <4>2
    <3>2. CASE s # p
      BY <1>0, <2>1, <2>3, <3>2 DEF DelayInv, DelayTypes, Counted
    <3> QED
      BY <3>1, <3>2
  <2> QED
    BY <2>2, <2>3 DEF DelayInv, Counted
<1>3. CASE While(p)
  <2>1. CASE UNCHANGED <<pc, t, elapsed>>
    BY <1>0, <2>1 DEF DelayInv, DelayTypes, Counted
  <2>2. CASE /\ pc' = [pc EXCEPT ![p] = "printf"]
             /\ t' = [t EXCEPT ![p] = 0]
             /\ elapsed' = [elapsed EXCEPT ![p] = 0]
    BY <1>0, <2>2 DEF DelayInv, DelayTypes, Counted
  <2> QED
    BY <1>3, <2>1, <2>2 DEF While
<1> QED
  BY <1>1, <1>2, <1>3 DEF Step

(* A tick counts for everybody who waits, and moves the time by as much.   *)
LEMMA TickKeepsCount ==
  ASSUME DelayInv, Tick
  PROVE  DelayInv'
<1>0. /\ ticks \in Int /\ MaxElapsed \in Nat
      /\ Half \in Nat /\ 2 * Half \in Nat /\ \A x \in IntRange : x \in Int
  BY DelayAssumption, HalfIsPositive DEF DelayInv, DelayTypes, IntRange
<1>1. /\ pc' = pc /\ t' = t /\ ticks' = AsInt(ticks + 1)
      /\ elapsed' = [p \in Delayers |->
           IF pc[p] = "while" /\ elapsed[p] < MaxElapsed THEN elapsed[p] + 1 ELSE elapsed[p]]
  BY DEF Tick, process
<1>2. AsInt(ticks + 1) \in IntRange
  BY <1>0, AsIntCongruent
<1>3. DelayTypes'
  BY <1>0, <1>1, <1>2 DEF DelayInv, DelayTypes
<1>4. ASSUME NEW p \in Delayers, pc'[p] = "while", elapsed'[p] < MaxElapsed
      PROVE  \E k \in Int : ticks' - t'[p] = elapsed'[p] + k * (2 * Half)
  <2>0. t[p] \in Int /\ elapsed[p] \in Int
    BY HalfIsPositive, DelayAssumption DEF DelayInv, DelayTypes, IntRange
  <2>1. pc[p] = "while" /\ elapsed[p] < MaxElapsed /\ elapsed'[p] = elapsed[p] + 1
    BY <1>0, <1>1, <1>4, <2>0
  <2>2. PICK k \in Int : ticks - t[p] = elapsed[p] + k * (2 * Half)
    BY <2>1 DEF DelayInv, Counted
  <2>3. PICK l \in Int : AsInt(ticks + 1) = ticks + 1 + l * (2 * Half)
    <3>1. ticks + 1 \in Int
      BY <1>0
    <3> QED
      BY <3>1, AsIntCongruent
  <2> DEFINE A == k * (2 * Half)
             B == l * (2 * Half)
             C == (k + l) * (2 * Half)
  <2>4. A \in Int /\ B \in Int /\ C \in Int /\ A + B = C
    BY <1>0
  <2>5. ticks' - t'[p] = elapsed'[p] + C
    <3>1. t'[p] = t[p] /\ ticks' = ticks + 1 + B
      BY <1>1, <2>3
    <3>2. ticks - t[p] = elapsed[p] + A
      BY <2>2
    <3> HIDE DEF A, B, C
    <3> QED
      BY <3>1, <3>2, <1>0, <2>0, <2>1, <2>4
  <2> QED
    BY <2>5
<1> QED
  BY <1>3, <1>4 DEF DelayInv, Counted

(* When the loop of milli_delay() ends, the time asked for has passed.     *)
LEMMA LoopEndsInTime ==
  ASSUME DelayInv, NEW p \in Delayers, pc[p] = "while", ~ Waiting(p)
  PROVE  elapsed[p] * Second >= milli_sec[p] * HZ
<1> DEFINE e == elapsed[p]
<1>0. /\ HZ \in Nat /\ HZ > 0 /\ Second \in Nat /\ Second > 0
      /\ milli_sec[p] \in Nat /\ MaxElapsed \in Nat
      /\ Half \in Nat /\ MaxElapsed * Second < Half
      /\ e \in 0 .. MaxElapsed
      /\ ticks - t[p] \in Int
  BY DelayAssumption, HalfIsPositive DEF DelayInv, DelayTypes, IntRange
<1>1. CASE e < MaxElapsed
  <2>1. e * Second \in Nat /\ e <= e * Second /\ e * Second <= MaxElapsed * Second
    BY <1>0
  <2>2. e \in IntRange /\ e * Second \in IntRange
    BY <1>0, <2>1 DEF IntRange
  <2>3. AsInt(ticks - t[p]) = e
    <3>1. PICK k \in Int : ticks - t[p] = e + k * (2 * Half)
      BY <1>1 DEF DelayInv, Counted
    <3> QED
      BY <1>0, <2>2, <3>1, AsIntUnique
  <2>4. AsInt(e * Second) = e * Second
    <3>1. e * Second = e * Second + 0 * (2 * Half)
      BY <1>0, <2>1
    <3> QED
      BY <2>1, <2>2, <3>1, AsIntUnique
  <2> DEFINE a == e * Second
             q == a \div HZ
             r == a % HZ
  <2>5. q >= milli_sec[p]
    BY <2>1, <2>3, <2>4, <1>0 DEF Waiting, Div
  <2>9. a \in Nat
    BY <2>1
  <2> HIDE DEF a
  <2>6. q \in Int /\ r \in 0 .. HZ - 1 /\ a = HZ * q + r
    BY <1>0, <2>9, Division
  <2> HIDE DEF q, r
  <2>7. HZ * q >= HZ * milli_sec[p] /\ HZ * milli_sec[p] = milli_sec[p] * HZ
    BY <1>0, <2>5, <2>6
  <2>8. HZ * milli_sec[p] \in Int /\ HZ * q \in Int
    BY <1>0, <2>6
  <2> QED
    BY <2>6, <2>7, <2>8, <1>0 DEF a
<1>2. CASE e = MaxElapsed
  <2>1. Needed[p] <= e
    BY <1>2, DelayAssumption
  <2>2. Needed[p] * Second <= e * Second
    BY <1>0, <2>1, NeededIsEnough
  <2>3. /\ Needed[p] * Second \in Int /\ e * Second \in Int
        /\ milli_sec[p] * HZ \in Int
    BY <1>0, NeededIsEnough
  <2> QED
    BY <2>2, <2>3, NeededIsEnough
<1> QED
  BY <1>0, <1>1, <1>2

(* The delays of the processes are counted as long as the system runs.     *)
LEMMA CountCorrect == USpec => []DelayInv
<1>1. UInit => DelayInv
  BY DelayAssumption, HalfIsPositive
     DEF UInit, DelayInv, DelayTypes, Counted, IntRange
<1>2. DelayInv /\ [UNext]_uvars => DelayInv'
  <2> SUFFICES ASSUME DelayInv, [UNext]_uvars PROVE DelayInv'
    OBVIOUS
  <2>1. CASE Step
    BY <2>1, StepKeepsCount
  <2>2. CASE TickInProcess
    BY <2>2, TickKeepsCount DEF TickInProcess
  <2>3. CASE TickInKernel
    BY <2>3, TickKeepsCount DEF TickInKernel
  <2>4. CASE UNCHANGED uvars
    BY <2>4 DEF uvars, process, DelayInv, DelayTypes, Counted
  <2> QED
    BY <2>1, <2>2, <2>3, <2>4 DEF UNext
<1> QED
  BY <1>1, <1>2, PTL DEF USpec

(* milli_delay() does not return before its time, wherever in the range of *)
(* ticks it began and if ticks has wrapped since.                          *)
THEOREM DelayCorrect == USpec => DelayLongEnough
<1>1. DelayInv /\ [UNext]_uvars =>
        [\A p \in Delayers : pc[p] = "while" /\ pc'[p] = "printf"
           => elapsed[p] * Second >= milli_sec[p] * HZ]_uvars
  <2> SUFFICES ASSUME DelayInv, UNext, NEW p \in Delayers,
                      pc[p] = "while", pc'[p] = "printf"
               PROVE  elapsed[p] * Second >= milli_sec[p] * HZ
    OBVIOUS
  <2>1. CASE Step
    <3>0. pc \in [Delayers -> {"printf", "milli_delay", "while"}]
      BY DEF DelayInv, DelayTypes
    <3>1. p = p_proc_ready /\ While(p)
      BY <2>1, <3>0 DEF Step, Printf, MilliDelay, While
    <3>2. ~ Waiting(p)
      BY <3>1 DEF While
    <3> QED
      BY <3>2, LoopEndsInTime
  <2>2. CASE TickInProcess \/ TickInKernel
    BY <2>2 DEF TickInProcess, TickInKernel, Tick, process
  <2> QED
    BY <2>1, <2>2 DEF UNext
<1> QED
  BY <1>1, CountCorrect, PTL DEF USpec, DelayLongEnough

-----------------------------------------------------------------------------
(* How many there are.                                                     *)
Processes == NR_TASKS + NR_PROCS

(* What a process adds to Turns(S).                                        *)
Turn(S, i) == IF i \in S THEN priority[i] + MaxDebt + 1 ELSE 0

(* Sum of the turns, as its recursion says.                                *)
SumOf(S, f) ==
  /\ f \in [0 .. Processes -> Nat]
  /\ f[0] = 0
  /\ \A i \in 1 .. Processes : f[i] = f[i - 1] + Turn(S, i - 1)

(* Turns(S) is such a sum: there is one, so the function that Turns(S)     *)
(* chooses is one.                                                         *)
LEMMA TurnsSum ==
  ASSUME NEW S
  PROVE  \E f : SumOf(S, f) /\ Turns(S) = f[Processes]
<1> DEFINE N == Processes
           D(i) == IF i \in S THEN priority[i] + MaxDebt + 1 ELSE 0
           sum[n \in 0 .. N] == IF n = 0 THEN 0 ELSE sum[n - 1] + D(n - 1)
           P(f) == f = [n \in 0 .. N |-> IF n = 0 THEN 0 ELSE f[n - 1] + D(n - 1)]
           step == [x \in (1 .. N) \X Nat |-> x[2] + D(x[1] - 1)]
<1>1. Turns(S) = sum[N]
  BY DEF Turns, Processes
<1>2. sum = CHOOSE f : P(f)
  OBVIOUS
<1>3. N \in Nat /\ \A i \in 1 .. N : D(i - 1) \in Nat
  BY TableAssumption DEF Proc, Processes
<1> HIDE DEF sum, D, N
<1>4. step \in [(1 .. N) \X Nat -> Nat]
  BY <1>3
<1>5. \A i \in 1 .. N, m \in Nat : step[<<i, m>>] = m + D(i - 1)
  OBVIOUS
<1> HIDE DEF step
<1>6. PICK f \in [0 .. N -> Nat] :
        f[0] = 0 /\ \A i \in 1 .. N : f[i] = step[<<i, f[i - 1]>>]
  <2>1. \E f : Follows(f, N, Nat, 0, step)
    BY <1>3, <1>4, Recursion DEF IsStep
  <2> QED
    BY <2>1 DEF Follows
<1>7. \A i \in 1 .. N : f[i] = f[i - 1] + D(i - 1)
  <2>1. \A i \in 1 .. N : f[i - 1] \in Nat
    BY <1>3, <1>6
  <2> QED
    BY <1>5, <1>6, <2>1
<1>8. P(f)
  BY <1>3, <1>6, <1>7
<1>9. P(sum)
  BY <1>2, <1>8
<1>10. sum[0] = 0 /\ \A i \in 1 .. N : sum[i] = sum[i - 1] + D(i - 1)
  BY <1>3, <1>9
<1>11. \A n \in 0 .. N : f[n] = sum[n]
  <2>1. \A i \in 1 .. N : f[i - 1] = sum[i - 1] => f[i] = sum[i]
    BY <1>7, <1>10
  <2>2. f[0] = sum[0]
    BY <1>6, <1>10
  <2> QED
    BY <1>3, <2>1, <2>2, Unique, ZenonT(60)
<1>12. sum \in [0 .. N -> Nat]
  BY <1>6, <1>9, <1>11
<1>13. SumOf(S, sum)
  BY <1>10, <1>12 DEF SumOf, Turn, D, N
<1> QED
  BY <1>1, <1>13 DEF N

(* Turns(S) is a number.                                                   *)
LEMMA TurnsType ==
  ASSUME NEW S
  PROVE  Turns(S) \in Nat
<1>1. PICK f : SumOf(S, f) /\ Turns(S) = f[Processes]
  BY TurnsSum
<1>2. Processes \in 0 .. Processes
  BY TableAssumption DEF Processes
<1> QED
  BY <1>1, <1>2 DEF SumOf

(* More processes take no less time.                                       *)
LEMMA TurnsMonotonic ==
  ASSUME NEW S, NEW T, S \subseteq T
  PROVE  Turns(S) <= Turns(T)
<1> DEFINE N == Processes
<1>1. PICK f : SumOf(S, f) /\ Turns(S) = f[N]
  BY TurnsSum
<1>2. PICK g : SumOf(T, g) /\ Turns(T) = g[N]
  BY TurnsSum
<1> DEFINE K == {n \in 0 .. N : f[n] <= g[n]}
<1>3. N \in Nat /\ 0 \in 0 .. N
  BY TableAssumption DEF Processes
<1>4. 0 \in K
  BY <1>1, <1>2, <1>3 DEF SumOf
<1>5. ASSUME NEW n \in 0 .. N - 1, n \in K
      PROVE  n + 1 \in K
  <2>1. n \in 0 .. N /\ n + 1 \in 1 .. N /\ (n + 1) - 1 = n
    BY <1>3
  <2>2. f[n + 1] = f[n] + Turn(S, n) /\ g[n + 1] = g[n] + Turn(T, n)
    BY <1>1, <1>2, <2>1 DEF SumOf
  <2>3. Turn(S, n) \in Nat /\ Turn(T, n) \in Nat /\ Turn(S, n) <= Turn(T, n)
    BY TableAssumption DEF Turn, Proc, Processes
  <2>4. f[n] \in Nat /\ g[n] \in Nat /\ f[n] <= g[n]
    BY <1>1, <1>2, <1>5, <2>1 DEF SumOf
  <2>5. f[n + 1] <= g[n + 1]
    BY <2>2, <2>3, <2>4
  <2> QED
    BY <2>1, <2>5
<1> HIDE DEF K
<1>6. \A n \in 0 .. N : n \in K
  BY <1>3, <1>4, <1>5, UpTo
<1>7. N \in K
  BY <1>3, <1>6
<1> QED
  BY <1>1, <1>2, <1>7 DEF K

(* One more process takes the time of its turn more.                       *)
LEMMA TurnsAdd ==
  ASSUME NEW S, NEW x \in Proc, x \notin S
  PROVE  Turns(S \union {x}) = Turns(S) + priority[x] + MaxDebt + 1
<1> DEFINE N == Processes
           T == S \union {x}
           Q == priority[x] + MaxDebt + 1
<1>1. PICK f : SumOf(S, f) /\ Turns(S) = f[N]
  BY TurnsSum
<1>2. PICK g : SumOf(T, g) /\ Turns(T) = g[N]
  BY TurnsSum
<1> DEFINE K == {n \in 0 .. N : g[n] = f[n] + (IF x < n THEN Q ELSE 0)}
<1>3. N \in Nat /\ 0 \in 0 .. N /\ x \in Nat /\ x < N /\ Q \in Nat
  BY TableAssumption DEF Processes, Proc
<1> HIDE DEF Q
<1>4. 0 \in K
  BY <1>1, <1>2, <1>3 DEF SumOf
<1>5. ASSUME NEW n \in 0 .. N - 1, n \in K
      PROVE  n + 1 \in K
  <2>1. n \in 0 .. N /\ n + 1 \in 1 .. N /\ (n + 1) - 1 = n
    BY <1>3
  <2>2. f[n + 1] = f[n] + Turn(S, n) /\ g[n + 1] = g[n] + Turn(T, n)
    BY <1>1, <1>2, <2>1 DEF SumOf
  <2>3. Turn(S, n) \in Nat
    BY TableAssumption DEF Turn, Proc, Processes
  <2>4. Turn(T, n) = Turn(S, n) + (IF x = n THEN Q ELSE 0)
    BY <1>3, <2>3 DEF Turn, Q
  <2>5. f[n] \in Nat /\ g[n] = f[n] + (IF x < n THEN Q ELSE 0)
    BY <1>1, <1>5, <2>1 DEF SumOf
  <2>6. g[n + 1] = f[n + 1] + (IF x < n + 1 THEN Q ELSE 0)
    BY <1>3, <2>2, <2>3, <2>4, <2>5
  <2> QED
    BY <2>1, <2>6
<1> HIDE DEF K
<1>6. \A n \in 0 .. N : n \in K
  BY <1>3, <1>4, <1>5, UpTo
<1>7. N \in K
  BY <1>3, <1>6
<1>8. g[N] = f[N] + Q /\ f[N] \in Nat
  BY <1>1, <1>3, <1>7 DEF K, SumOf
<1> QED
  BY <1>1, <1>2, <1>8, TableAssumption DEF Q

-----------------------------------------------------------------------------
(* The processes that get a turn after that of c, up to and with p.        *)
Ahead(c, p) ==
  {q \in Proc : /\ p # c
                /\ \/ RR!Before(c, p) /\ RR!Before(c, q) /\ ~ RR!Before(p, q)
                   \/ RR!Before(p, c) /\ (RR!Before(c, q) \/ ~ RR!Before(p, q))}

(* The ticks left before p has had its turn: what is left to the running   *)
(* process, and the turns ahead.                                           *)
Left(p) == proc_ticks[p_proc_ready] + MaxDebt + 1 + Turns(Ahead(p_proc_ready, p))

(* At least the tick that ends the turn is left, and at most a round.      *)
LEMMA LeftBounds ==
  ASSUME TypeOK, RoundInv, NEW p \in Proc
  PROVE  Left(p) \in 1 .. Round
<1> DEFINE c == p_proc_ready
           A == Ahead(c, p)
<1>1. c \in Proc /\ proc_ticks[c] \in -MaxDebt .. priority[c] /\ MaxDebt \in Nat
  BY TableAssumption DEF TypeOK, RoundInv, Proc
<1>2. c \notin A
  BY <1>1, BeforeTrichotomy DEF Ahead
<1>3. Turns(A) \in Nat /\ Turns(Proc) \in Nat
  BY TurnsType
<1>4. Turns(A \union {c}) = Turns(A) + priority[c] + MaxDebt + 1
  BY <1>1, <1>2, TurnsAdd
<1>5. Turns(A \union {c}) <= Turns(Proc)
  <2>1. A \union {c} \subseteq Proc
    BY <1>1 DEF Ahead
  <2> QED
    BY <2>1, TurnsMonotonic
<1>6. priority[c] \in Nat
  BY <1>1, TableAssumption
<1> HIDE DEF A
<1> QED
  BY <1>1, <1>3, <1>4, <1>5, <1>6 DEF Left, Round, A

(* The same after a step.                                                  *)
LEMMA LeftBoundsNext ==
  TypeOK' /\ RoundInv' => \A p \in Proc : Left(p)' \in 1 .. Round
<1>1. TypeOK /\ RoundInv => \A p \in Proc : Left(p) \in 1 .. Round
  BY LeftBounds
<1>2. TypeOK' /\ RoundInv' => (\A p \in Proc : Left(p) \in 1 .. Round)'
  BY <1>1, PTL
<1> QED
  BY <1>2

(* Behind the next process the same processes are ahead but that one.      *)
LEMMA NextIsAhead ==
  ASSUME NEW c \in Proc, NEW d \in Proc, NEW p \in Proc,
         p # c, d # c, RR!IsNext(c, d)
  PROVE  Ahead(c, p) = Ahead(d, p) \union {d} /\ d \notin Ahead(d, p)
<1> USE ProcIsRRProc
<1>1. d \notin Ahead(d, p)
  BY BeforeTrichotomy DEF Ahead
<1>2. \A x, y, z \in Proc : RR!Before(x, y) /\ RR!Before(y, z) => RR!Before(x, z)
  BY TableAssumption DEF RR!Before, Proc
<1>3. \A x, y \in Proc : /\ x = y \/ RR!Before(x, y) \/ RR!Before(y, x)
                         /\ ~ (RR!Before(x, y) /\ RR!Before(y, x))
                         /\ ~ RR!Before(x, x)
  BY BeforeTrichotomy
<1>4. ASSUME NEW q \in Proc
      PROVE  q \in Ahead(c, p) <=> q \in Ahead(d, p) \/ q = d
  <2>1. CASE /\ RR!Before(c, d)
             /\ \A r \in Proc : RR!Before(c, r) => r = d \/ RR!Before(d, r)
    BY <1>2, <1>3, <2>1 DEF Ahead
  <2>2. CASE RR!IsLast(c) /\ RR!IsFirst(d)
    <3>1. /\ \A r \in Proc : r # c => RR!Before(r, c)
          /\ \A r \in Proc : r # d => RR!Before(d, r)
      BY <2>2 DEF RR!IsLast, RR!IsFirst
    <3> QED
      BY <1>2, <1>3, <3>1 DEF Ahead
  <2> QED
    BY <2>1, <2>2 DEF RR!IsNext
<1>5. Ahead(c, p) \subseteq Proc /\ Ahead(d, p) \subseteq Proc
  BY DEF Ahead
<1> QED
  BY <1>1, <1>4, <1>5

(* Each tick brings the end of the turn of p nearer, unless it is the one  *)
(* that ends it.                                                           *)
LEMMA TickShortensLeft ==
  ASSUME TypeOK, RoundInv, TypeOK', RoundInv', NEW p \in Proc,
         ClockHandlerNested \/ (ClockHandler /\ p # p_proc_ready)
  PROVE  Left(p)' <= Left(p) - 1
<1> DEFINE c == p_proc_ready
           d == p_proc_ready'
<1>1. /\ c \in Proc /\ proc_ticks \in [Proc -> Int]
      /\ proc_ticks[c] \in Int /\ proc_ticks[c] >= -MaxDebt
      /\ MaxDebt \in Nat /\ \A S : Turns(S) \in Nat
  BY TableAssumption, TurnsType DEF TypeOK
<1>2. Left(p)' = proc_ticks'[d] + MaxDebt + 1 + Turns(Ahead(d, p))
  BY DEF Left
<1>3. CASE proc_ticks' = Charged /\ d = c
  <2>1. proc_ticks'[c] = proc_ticks[c] - 1
    BY <1>1, <1>3 DEF Charged
  <2> QED
    BY <1>1, <1>2, <1>3, <2>1 DEF Left
<1>4. CASE ~ (proc_ticks' = Charged /\ d = c)
  <2>1. /\ p # c /\ Charged[c] <= 0 /\ ClockHandler
        /\ proc_ticks' = Refilled(Charged) /\ Greatest(proc_ticks', d)
    <3>1. Charged[c] \in Int
      BY <1>1 DEF Charged
    <3> QED
      BY <1>4, <3>1 DEF ClockHandler, ClockHandlerNested
  <2>2. d # c
    <3> SUFFICES ASSUME d = c PROVE FALSE
      OBVIOUS
    <3>1. NothingLeft(Charged) /\ proc_ticks' = priority
      <4>1. Charged[c] \in Int /\ proc_ticks'[c] > 0
        BY <1>1, <2>1 DEF Charged, Greatest
      <4>2. proc_ticks' # Charged
        BY <2>1, <4>1
      <4> QED
        BY <2>1, <4>2 DEF Refilled
    <3>2. RR!IsFirst(c)
      BY <1>1, <2>1, <3>1, ScanAfterRefillFindsFirst
    <3>3. RR!Before(c, p)
      BY <2>1, <3>2, ProcIsRRProc DEF RR!IsFirst
    <3>4. Charged[p] = priority[p]
      BY <1>1, <2>1, <3>3 DEF Charged, RoundInv
    <3> QED
      BY <3>1, <3>4, TableAssumption DEF NothingLeft
  <2>3. RR!IsNext(c, d) /\ d \in Proc
    BY <2>1, <2>2, StepKeepsRound DEF Next
  <2>4. Ahead(c, p) = Ahead(d, p) \union {d} /\ d \notin Ahead(d, p)
    BY <1>1, <2>1, <2>2, <2>3, NextIsAhead
  <2>5. Turns(Ahead(c, p)) = Turns(Ahead(d, p)) + priority[d] + MaxDebt + 1
    BY <2>3, <2>4, TurnsAdd
  <2>6. proc_ticks'[d] \in Int /\ proc_ticks'[d] <= priority[d] /\ priority[d] \in Nat
    BY <2>3, TableAssumption DEF TypeOK, RoundInv
  <2>7. Turns(Ahead(c, p)) \in Nat /\ Turns(Ahead(d, p)) \in Nat
    BY <1>1
  <2> QED
    BY <1>1, <1>2, <2>5, <2>6, <2>7 DEF Left
<1> QED
  BY <1>3, <1>4

-----------------------------------------------------------------------------
(* Every delay takes a tick at least.                                      *)
LEMMA NeededIsPositive ==
  ASSUME NEW p \in Delayers
  PROVE  Needed[p] \in Nat \ {0}
<1>1. milli_sec[p] * HZ >= 1 /\ Second \in Nat /\ Second > 0
  BY DelayAssumption
<1>2. Needed[p] * Second >= 1 /\ Needed[p] \in Int
  BY <1>1, NeededIsEnough, DelayAssumption
<1>3. ~ (Needed[p] <= 0)
  BY <1>1, <1>2
<1> QED
  BY <1>2, <1>3

(* When the ticks of a delay have passed the loop ends, the next time the  *)
(* process asks, wherever ticks has wrapped.                               *)
LEMMA LoopEndsOnceOver ==
  ASSUME DelayInv, NEW p \in Delayers, pc[p] = "while",
         Needed[p] <= elapsed[p], elapsed[p] < MaxElapsed
  PROVE  ~ Waiting(p)
<1> DEFINE e == elapsed[p]
           m == milli_sec[p]
           n == Needed[p]
<1>0. /\ HZ \in Nat /\ HZ > 0 /\ Second \in Nat /\ Second > 0
      /\ m \in Nat /\ MaxElapsed \in Nat
      /\ Half \in Nat /\ MaxElapsed * Second < Half
      /\ e \in 0 .. MaxElapsed /\ n \in Nat
      /\ n * Second >= m * HZ
  BY DelayAssumption, HalfIsPositive, NeededIsEnough, NeededIsPositive
     DEF DelayInv, DelayTypes
<1>1. e * Second \in Nat /\ e <= e * Second /\ e * Second <= MaxElapsed * Second
  BY <1>0
<1>2. e \in IntRange /\ e * Second \in IntRange
  BY <1>0, <1>1 DEF IntRange
<1>3. AsInt(ticks - t[p]) = e
  <2>1. PICK k \in Int : ticks - t[p] = e + k * (2 * Half)
    BY DEF DelayInv, Counted
  <2>2. ticks - t[p] \in Int
    BY HalfIsPositive DEF DelayInv, DelayTypes, IntRange
  <2> QED
    BY <1>2, <2>1, <2>2, AsIntUnique
<1>4. AsInt(e * Second) = e * Second
  <2>1. e * Second = e * Second + 0 * (2 * Half)
    BY <1>0, <1>1
  <2> QED
    BY <1>1, <1>2, <2>1, AsIntUnique
<1> DEFINE a == e * Second
           q == a \div HZ
           r == a % HZ
           b == m * HZ
<1>5. Waiting(p) <=> q < m
  BY <1>1, <1>3, <1>4 DEF Waiting, Div
<1>6. a >= b /\ a \in Nat
  <2>1. e * Second >= n * Second /\ n * Second \in Int /\ m * HZ \in Int
    BY <1>0
  <2> QED
    BY <1>0, <1>1, <2>1
<1> HIDE DEF a
<1>7. q \in Int /\ r \in 0 .. HZ - 1 /\ a = HZ * q + r
  BY <1>0, <1>6, Division
<1> HIDE DEF q, r, b
<1>8. ~ (q < m)
  <2> SUFFICES ASSUME q <= m - 1 PROVE FALSE
    BY <1>0, <1>7
  <2>1. HZ * q <= HZ * (m - 1) /\ HZ * (m - 1) = b - HZ /\ b \in Int /\ HZ * q \in Int
    BY <1>0, <1>7 DEF b
  <2> QED
    BY <1>0, <1>6, <1>7, <2>1
<1> QED
  BY <1>5, <1>8

-----------------------------------------------------------------------------
(* p waits although its time is over.                                      *)
Late(p) == pc[p] = "while" /\ elapsed[p] >= Needed[p]

(* A process that is late gets to ask before a round is over, and has not  *)
(* got on since the tick before.                                           *)
InTime ==
  \A p \in Delayers :
    Late(p) => /\ elapsed[p] + Left(p) <= Needed[p] + Round
               /\ p = p_proc_ready => ~ ran

InTimeInv == DelayInv /\ TypeOK /\ RoundInv /\ InTime

(* The numbers of InTime, and what it means for the count.                 *)
LEMMA InTimeBounds ==
  ASSUME InTimeInv, NEW p \in Delayers
  PROVE  /\ p \in Proc /\ Left(p) \in Nat \ {0} /\ Left(p) <= Round
         /\ elapsed[p] \in Nat /\ Needed[p] \in Nat \ {0} /\ Round \in Nat
         /\ MaxElapsed \in Nat
         /\ Late(p) => elapsed[p] < Needed[p] + Round /\ elapsed[p] < MaxElapsed
<1>1. p \in Proc /\ Round \in Nat /\ MaxElapsed \in Nat
  BY DelayAssumption, TurnsType DEF Round
<1>2. Left(p) \in 1 .. Round
  BY <1>1, LeftBounds DEF InTimeInv
<1>3. elapsed[p] \in Nat /\ Needed[p] \in Nat \ {0}
  BY <1>1, NeededIsPositive DEF InTimeInv, DelayInv, DelayTypes
<1>4. Late(p) => elapsed[p] < Needed[p] + Round
  BY <1>1, <1>2, <1>3 DEF InTimeInv, InTime
<1> QED
  BY <1>1, <1>2, <1>3, <1>4, CountAssumption

(* A late process that gets on is no longer late.                          *)
LEMMA StepKeepsInTime ==
  ASSUME InTimeInv, Step
  PROVE  InTime'
<1> DEFINE c == p_proc_ready
<1>1. c \in Delayers /\ UNCHANGED vars
  BY DEF Step
<1>2. ASSUME NEW p \in Delayers, Late(p)'
      PROVE  /\ (elapsed[p] + Left(p) <= Needed[p] + Round)'
             /\ (p = p_proc_ready => ~ ran)'
  <2>0. Left(p)' = Left(p) /\ p_proc_ready' = c
    BY <1>1 DEF vars, Left
  <2>1. p # c
    <3> SUFFICES ASSUME p = c PROVE FALSE
      OBVIOUS
    <3>0. /\ pc \in [Delayers -> {"printf", "milli_delay", "while"}]
          /\ elapsed \in [Delayers -> 0 .. MaxElapsed]
          /\ Needed[p] \in Nat \ {0}
      BY InTimeBounds DEF InTimeInv, DelayInv, DelayTypes
    <3>1. ~ Printf(c)
      BY <1>2, <3>0 DEF Printf, Late
    <3>2. ~ MilliDelay(c)
      BY <1>2, <3>0 DEF MilliDelay, Late
    <3>3. While(c)
      BY <3>1, <3>2 DEF Step
    <3>4. UNCHANGED <<pc, t, elapsed>> /\ Waiting(c) /\ pc[c] = "while"
      BY <1>2, <3>0, <3>3 DEF While, Late
    <3>5. Late(p)
      BY <1>2, <3>4 DEF Late
    <3> QED
      BY <3>0, <3>4, <3>5, InTimeBounds, LoopEndsOnceOver DEF InTimeInv, Late
  <2>2. pc'[p] = pc[p] /\ elapsed'[p] = elapsed[p]
    BY <2>1 DEF Step, Printf, MilliDelay, While, InTimeInv, DelayInv, DelayTypes
  <2>3. elapsed[p] + Left(p) <= Needed[p] + Round
    BY <1>2, <2>2 DEF InTimeInv, InTime, Late
  <2> QED
    BY <2>0, <2>1, <2>2, <2>3
<1> QED
  BY <1>2 DEF InTime

(* A tick adds one to a delay and takes one from what is left of the       *)
(* round; before the tick in which its turn ends a late process gets on.   *)
LEMMA TickKeepsInTime ==
  ASSUME InTimeInv, TypeOK', RoundInv', TickInProcess \/ TickInKernel
  PROVE  InTime'
<1> DEFINE c == p_proc_ready
<1>1. Tick /\ (ClockHandlerNested \/ ((c \in Delayers => ran) /\ ClockHandler))
  BY DEF TickInProcess, TickInKernel
<1>2. ASSUME NEW p \in Delayers, Late(p)'
      PROVE  /\ (elapsed[p] + Left(p) <= Needed[p] + Round)'
             /\ (p = p_proc_ready => ~ ran)'
  <2>1. ~ ran'
    BY <1>1 DEF Tick
  <2>2. /\ p \in Proc /\ Left(p) \in Nat \ {0} /\ Left(p) <= Round
        /\ elapsed[p] \in Nat /\ Needed[p] \in Nat \ {0} /\ Round \in Nat
        /\ MaxElapsed \in Nat
        /\ Late(p) => elapsed[p] < Needed[p] + Round /\ elapsed[p] < MaxElapsed
    BY InTimeBounds
  <2>3. pc[p] = "while" /\ elapsed'[p] \in elapsed[p] .. elapsed[p] + 1
    BY <1>1, <1>2, <2>2 DEF Tick, process, Late
  <2>4. CASE Late(p)
    <3>1. elapsed[p] + Left(p) <= Needed[p] + Round
      BY <2>4 DEF InTimeInv, InTime
    <3>2. ClockHandlerNested \/ (ClockHandler /\ p # c)
      BY <1>1, <2>4 DEF InTimeInv, InTime
    <3>3. Left(p)' <= Left(p) - 1
      BY <2>2, <3>2, TickShortensLeft DEF InTimeInv
    <3>4. Left(p)' \in Int
      BY <2>2, LeftBoundsNext
    <3> QED
      BY <2>1, <2>2, <2>3, <3>1, <3>3, <3>4
  <2>5. CASE ~ Late(p)
    <3>1. elapsed'[p] = Needed[p]
      BY <1>2, <2>2, <2>3, <2>5 DEF Late
    <3>2. Left(p)' \in 1 .. Round
      BY <2>2, LeftBoundsNext
    <3> QED
      BY <2>1, <2>2, <3>1, <3>2
  <2> QED
    BY <2>4, <2>5
<1> QED
  BY <1>2 DEF InTime

(* milli_delay() does not wait longer than its time and one round of the   *)
(* scheduler, for any processes, priorities and delays.                    *)
THEOREM DelayInTimeCorrect == USpec => []DelayInTime
<1>1. UInit => Init /\ InTime
  <2> SUFFICES ASSUME UInit PROVE Init /\ InTime
    OBVIOUS
  <2> QED
    BY DEF UInit, InTime, Late
<1>2. [UNext]_uvars => [Next]_vars
  BY DEF UNext, uvars, Step, TickInProcess, TickInKernel, Next
<1>3. USpec => Spec
  BY <1>1, <1>2, PTL DEF USpec, Spec
<1>4. DelayInv /\ TypeOK /\ RoundInv /\ InTime /\ TypeOK' /\ RoundInv' /\ [UNext]_uvars => InTime'
  <2> SUFFICES ASSUME InTimeInv, TypeOK', RoundInv', [UNext]_uvars PROVE InTime'
    BY DEF InTimeInv
  <2>1. CASE Step
    BY <2>1, StepKeepsInTime
  <2>2. CASE TickInProcess \/ TickInKernel
    BY <2>2, TickKeepsInTime
  <2>3. CASE UNCHANGED uvars
    <3>1. UNCHANGED <<proc_ticks, p_proc_ready, pc, ran, elapsed>>
      BY <2>3 DEF uvars, vars, process
    <3> QED
      BY <3>1 DEF InTimeInv, InTime, Late, Left
  <2> QED
    BY <2>1, <2>2, <2>3 DEF UNext
<1>5. DelayInv /\ TypeOK /\ RoundInv /\ InTime => DelayInTime
  <2> SUFFICES ASSUME InTimeInv, NEW p \in Delayers, pc[p] = "while"
               PROVE  elapsed[p] < Needed[p] + Round
    BY DEF DelayInTime, InTimeInv
  <2> QED
    BY InTimeBounds DEF Late
<1> QED
  BY <1>1, <1>3, <1>4, <1>5, CountCorrect, TypeCorrect, RoundCorrect, PTL DEF USpec

-----------------------------------------------------------------------------
(* Exponents add up.                                                       *)
LEMMA PowersMultiply ==
  ASSUME NEW i \in 0 .. Digits, NEW j \in 0 .. Digits - i
  PROVE  i + j \in 0 .. Digits /\ Power16[i + j] = Power16[i] * Power16[j]
<1> DEFINE M == Digits - i
           K == {n \in 0 .. M : Power16[i + n] = Power16[i] * Power16[n]}
<1>1. /\ Digits \in Nat /\ M \in Nat /\ i \in Nat
      /\ \A n \in 0 .. Digits : Power16[n] \in Nat
  BY Powers
<1>2. 0 \in K
  BY <1>1, Powers
<1>3. ASSUME NEW n \in 0 .. M - 1, n \in K PROVE n + 1 \in K
  <2>1. n + 1 \in 1 .. Digits /\ (n + 1) - 1 = n /\ n \in 0 .. Digits
    BY <1>1
  <2>2. i + (n + 1) \in 1 .. Digits /\ (i + (n + 1)) - 1 = i + n
    BY <1>1
  <2>3. Power16[n + 1] = 16 * Power16[n] /\ Power16[i + (n + 1)] = 16 * Power16[i + n]
    BY <2>1, <2>2, Powers
  <2>4. Power16[i] \in Nat /\ Power16[n] \in Nat
    BY <1>1, <2>1
  <2>5. 16 * (Power16[i] * Power16[n]) = Power16[i] * (16 * Power16[n])
    BY <2>4
  <2> QED
    BY <1>1, <1>3, <2>3, <2>5
<1> HIDE DEF K
<1>4. \A n \in 0 .. M : n \in K
  BY <1>1, <1>2, <1>3, UpTo
<1> QED
  BY <1>1, <1>4 DEF K

(* A larger exponent gives no smaller power.                               *)
LEMMA PowersGrow ==
  ASSUME NEW j \in 0 .. Digits, NEW i \in 0 .. j
  PROVE  Power16[i] <= Power16[j]
<1>1. i \in 0 .. Digits /\ j - i \in 0 .. Digits - i /\ i + (j - i) = j /\ Digits \in Nat
  BY Powers
<1>2. Power16[j] = Power16[i] * Power16[j - i]
  BY <1>1, PowersMultiply
<1>3. Power16[i] \in Nat \ {0} /\ Power16[j - i] \in Nat \ {0}
  <2>1. j - i \in 0 .. Digits
    BY <1>1
  <2> QED
    BY <1>1, <2>1, Powers
<1> QED
  BY <1>2, <1>3

-----------------------------------------------------------------------------
(* The bits of an int, read as a number without a sign.                    *)
Unsigned(num) == num % (2 * Half)

(* A negative number counts from the number of values down.                *)
LEMMA UnsignedValue ==
  ASSUME NEW num \in IntRange
  PROVE  /\ Unsigned(num) \in 0 .. Power16[Digits] - 1
         /\ Unsigned(num) = num \/ Unsigned(num) = num + Power16[Digits]
         /\ Unsigned(num) = 0 => num = 0
<1> DEFINE M == Power16[Digits]
<1>1. 2 * Half = M /\ Half \in Nat \ {0} /\ M \in Nat \ {0}
  BY HalfIsPositive
<1>2. num \in Int /\ -Half <= num /\ num < Half
  BY <1>1 DEF IntRange
<1> HIDE DEF M
<1>3. CASE num >= 0
  <2>1. num \in 0 .. M - 1 /\ num = M * 0 + num
    BY <1>1, <1>2, <1>3
  <2>2. num % M = num
    BY <1>1, <1>2, <2>1, DivisionUnique
  <2> QED
    BY <1>1, <2>1, <2>2 DEF Unsigned, M
<1>4. CASE num < 0
  <2>1. num + M \in 1 .. M - 1 /\ num = M * (-1) + (num + M)
    BY <1>1, <1>2, <1>4
  <2>2. num % M = num + M
    BY <1>1, <1>2, <2>1, DivisionUnique
  <2> QED
    BY <1>1, <2>1, <2>2 DEF Unsigned, M
<1> QED
  BY <1>2, <1>3, <1>4

(* The shift keeps the sign, and the mask drops it: the digits are those   *)
(* of the number without a sign.                                           *)
LEMMA NibbleValue ==
  ASSUME NEW num \in IntRange, NEW i \in 1 .. Digits
  PROVE  /\ Nibbles(num)[i] = (Unsigned(num) \div Power16[Digits - i]) % 16
         /\ Nibbles(num)[i] \in 0 .. 15
<1> DEFINE n == Unsigned(num)
           d == Power16[Digits - i]
           e == Power16[i]
           f == Power16[i - 1]
<1>1. d \in Nat \ {0} /\ f \in Nat \ {0} /\ e = 16 * f
  <2>1. Digits - i \in 0 .. Digits /\ i - 1 \in 0 .. Digits
    BY Powers
  <2> QED
    BY <2>1, Powers
<1>2. Power16[Digits] = d * e
  <2>1. Digits - i \in 0 .. Digits /\ i \in 0 .. Digits - (Digits - i) /\ (Digits - i) + i = Digits
    BY Powers
  <2> QED
    BY <2>1, PowersMultiply
<1>3. num \in Int
  BY HalfIsPositive DEF IntRange
<1>4. Nibbles(num)[i] = (num \div d) % 16
  BY DEF Nibbles
<1>5. n = num \/ n = num + d * e
  BY <1>2, UnsignedValue
<1> HIDE DEF d, e, f, n
<1> DEFINE a == num \div d
           r == num % d
           b == a \div 16
           c == a % 16
<1>6. a \in Int /\ r \in 0 .. d - 1 /\ num = d * a + r
  BY <1>1, <1>3, Division
<1> HIDE DEF a, r
<1>7. b \in Int /\ c \in 0 .. 15 /\ a = 16 * b + c
  <2>1. 16 \in Nat /\ 16 > 0
    OBVIOUS
  <2>2. c \in 0 .. 16 - 1
    BY <1>6, <2>1, Division
  <2> QED
    BY <1>6, <2>1, <2>2, Division
<1> HIDE DEF b, c
<1>8. CASE n = num
  BY <1>4, <1>7, <1>8 DEF a, c, d, n
<1>9. CASE n = num + d * e
  <2>1. n = d * (a + e) + r /\ n \in Int /\ a + e \in Int
    BY <1>1, <1>6, <1>9
  <2>2. n \div d = a + e
    BY <1>1, <1>6, <2>1, DivisionUnique
  <2>3. a + e = 16 * (b + f) + c /\ b + f \in Int
    BY <1>1, <1>7
  <2>4. (a + e) % 16 = c
    <3>1. c \in 0 .. 16 - 1 /\ 16 \in Nat /\ 16 > 0
      BY <1>7
    <3> QED
      BY <2>1, <2>3, <3>1, DivisionUnique
  <2> QED
    BY <1>4, <1>7, <2>2, <2>4 DEF a, c, d, n
<1> QED
  BY <1>5, <1>8, <1>9

(* n takes k digits.                                                       *)
HasDigits(n, k) == n < Power16[k] /\ (k = 1 \/ n >= Power16[k - 1])

(* Every number of an int takes so many digits.                            *)
LEMMA NumberHasDigits ==
  ASSUME NEW n \in 0 .. Power16[Digits] - 1
  PROVE  \E k \in 1 .. Digits : HasDigits(n, k)
<1> DEFINE S == {k \in 1 .. Digits : n < Power16[k]}
<1>1. Digits \in S /\ S \in SUBSET Nat
  BY Powers
<1>2. PICK k \in S : \A j \in S : k <= j
  <2> HIDE DEF S
  <2> QED
    BY <1>1, Minimum
<1>3. CASE k = 1
  BY <1>2, <1>3 DEF HasDigits
<1>4. CASE k # 1
  <2>1. k - 1 \in 1 .. Digits /\ ~ (k <= k - 1)
    BY <1>1, <1>2, <1>4, Powers
  <2>2. ~ (n < Power16[k - 1])
    <3>1. k - 1 \notin S
      <4> HIDE DEF S
      <4> QED
        BY <1>2, <2>1
    <3> QED
      BY <2>1, <3>1
  <2>3. Power16[k - 1] \in Nat /\ n \in Nat
    BY <2>1, Powers
  <2>4. n >= Power16[k - 1]
    BY <2>2, <2>3
  <2> QED
    BY <1>2, <2>4 DEF HasDigits
<1> QED
  BY <1>3, <1>4

(* The digits before the first that counts are 0, and that one is not,     *)
(* unless the number is 0.                                                 *)
LEMMA LeadingZeros ==
  ASSUME NEW num \in IntRange, num # 0,
         NEW k \in 1 .. Digits, HasDigits(Unsigned(num), k)
  PROVE  /\ \A i \in 1 .. Digits - k : Nibbles(num)[i] = 0
         /\ Nibbles(num)[Digits - k + 1] > 0
<1> DEFINE n == Unsigned(num)
<1>1. n \in Nat \ {0} /\ Digits \in Nat
  <2>1. n \in 0 .. Power16[Digits] - 1 /\ n # 0
    BY UnsignedValue
  <2> QED
    BY <2>1, Powers
<1>2. ASSUME NEW i \in 1 .. Digits - k
      PROVE  Nibbles(num)[i] = 0
  <2> DEFINE d == Power16[Digits - i]
  <2>1. i \in 1 .. Digits /\ Digits - i \in 0 .. Digits /\ k \in 0 .. Digits - i
    BY <1>1
  <2>2. Power16[k] <= d /\ d \in Nat \ {0} /\ Power16[k] \in Nat
    <3>1. k \in 0 .. Digits
      BY <1>1
    <3> QED
      BY <2>1, <3>1, PowersGrow, Powers
  <2>3. n < Power16[k]
    BY DEF HasDigits
  <2>4. Nibbles(num)[i] = (n \div d) % 16
    BY <2>1, NibbleValue
  <2> HIDE DEF d, n
  <2>5. n \in 0 .. d - 1 /\ n = d * 0 + n
    BY <1>1, <2>2, <2>3
  <2>6. n \div d = 0
    BY <1>1, <2>2, <2>5, DivisionUnique
  <2> QED
    BY <2>4, <2>6
<1>3. Nibbles(num)[Digits - k + 1] > 0
  <2> DEFINE d == Power16[k - 1]
             q == n \div d
             r == n % d
  <2>1. Digits - k + 1 \in 1 .. Digits /\ Digits - (Digits - k + 1) = k - 1 /\ k - 1 \in 0 .. Digits
    BY <1>1
  <2>2. d \in Nat \ {0} /\ Power16[k] = 16 * d
    BY <2>1, Powers
  <2>3. n < 16 * d /\ n >= d
    <3>1. n < 16 * d
      BY <2>2 DEF HasDigits
    <3>2. CASE k = 1
      <4>1. d = 1
        BY <3>2, Powers
      <4> QED
        BY <1>1, <3>1, <4>1
    <3>3. CASE n >= Power16[k - 1]
      BY <3>1, <3>3
    <3> QED
      BY <3>2, <3>3 DEF HasDigits
  <2>4. Nibbles(num)[Digits - k + 1] = q % 16
    BY <2>1, NibbleValue
  <2> HIDE DEF d, n
  <2>5. q \in Int /\ r \in 0 .. d - 1 /\ n = d * q + r
    BY <1>1, <2>2, Division
  <2> HIDE DEF q, r
  <2>6. ~ (q <= 0)
    <3> SUFFICES ASSUME q <= 0 PROVE FALSE
      OBVIOUS
    <3>1. d * q <= 0
      BY <2>2, <2>5
    <3> QED
      BY <1>1, <2>2, <2>3, <2>5, <3>1
  <2>7. ~ (q >= 16)
    <3> SUFFICES ASSUME q >= 16 PROVE FALSE
      OBVIOUS
    <3>1. d * q >= d * 16 /\ d * 16 = 16 * d
      BY <2>2, <2>5
    <3> QED
      BY <1>1, <2>2, <2>3, <2>5, <3>1
  <2>8. q \in 1 .. 15
    BY <2>5, <2>6, <2>7
  <2>9. q % 16 = q
    <3>1. q \in 0 .. 16 - 1 /\ q = 16 * 0 + q /\ 16 \in Nat /\ 16 > 0
      BY <2>8
    <3> QED
      BY <2>5, <3>1, DivisionUnique
  <2> QED
    BY <2>4, <2>8, <2>9
<1> QED
  BY <1>2, <1>3

-----------------------------------------------------------------------------
(* The string of itoa() is what its loop makes of the digits.              *)
LEMMA ItoaLoop ==
  ASSUME NEW num \in IntRange
  PROVE  \E str \in [0 .. Digits -> Seq(Nat)] :
           /\ str[0] = <<>>
           /\ \A i \in 1 .. Digits : str[i] = PutDigit(str[i - 1], Nibbles(num)[i])
           /\ itoa(num) = <<48, 120>> \o (IF num = 0 THEN <<48>> ELSE str[Digits])
<1> DEFINE N == Digits
           S == Seq(Nat)
           D(i) == Nibbles(num)[i]
           P(f) == f = [i \in 0 .. N |-> IF i = 0 THEN <<>> ELSE PutDigit(f[i - 1], D(i))]
           str[i \in 0 .. N] == IF i = 0 THEN <<>> ELSE PutDigit(str[i - 1], D(i))
           step == [x \in (1 .. N) \X S |-> PutDigit(x[2], D(x[1]))]
<1>1. itoa(num) = <<48, 120>> \o (IF num = 0 THEN <<48>> ELSE str[N])
  BY DEF itoa
<1>2. str = CHOOSE f : P(f)
  OBVIOUS
<1>3. N \in Nat /\ <<>> \in S
  BY Powers
<1>4. \A i \in 1 .. N : D(i) \in 0 .. 15
  BY NibbleValue
<1>5. \A i \in 1 .. N, s \in S : PutDigit(s, D(i)) \in S
  <2>1. \A i \in 1 .. N : Digit(D(i)) \in Nat
    BY <1>4 DEF Digit
  <2> HIDE DEF D, N
  <2> QED
    BY <2>1 DEF PutDigit
<1> HIDE DEF str, D, N, S
<1>6. IsStep(step, N, S)
  BY <1>5 DEF IsStep
<1>7. \A i \in 1 .. N, s \in S : step[<<i, s>>] = PutDigit(s, D(i))
  OBVIOUS
<1> HIDE DEF step
<1>8. PICK f : Follows(f, N, S, <<>>, step)
  BY <1>3, <1>6, Recursion
<1>9. P(f)
  <2>1. /\ f \in [0 .. N -> S] /\ f[0] = <<>>
        /\ \A i \in 1 .. N : f[i] = step[<<i, f[i - 1]>>]
    BY <1>8 DEF Follows
  <2>2. \A i \in 1 .. N : f[i - 1] \in S
    BY <1>3, <2>1
  <2>3. \A i \in 1 .. N : f[i] = PutDigit(f[i - 1], D(i))
    BY <1>7, <2>1, <2>2
  <2>4. \A i \in 0 .. N : i = 0 \/ i \in 1 .. N
    BY <1>3
  <2> QED
    BY <1>3, <2>1, <2>3, <2>4
<1>10. P(str)
  <2> HIDE DEF P
  <2> QED
    BY <1>2, <1>9
<1>11. /\ str = [i \in 0 .. N |-> str[i]] /\ str[0] = <<>>
       /\ \A i \in 1 .. N : str[i] = PutDigit(str[i - 1], D(i))
  BY <1>3, <1>10
<1>12. \A i \in 1 .. N : str[i - 1] \in S => str[i] = step[<<i, str[i - 1]>>]
  BY <1>7, <1>11
<1>13. Follows(str, N, S, <<>>, step)
  BY <1>3, <1>6, <1>11, <1>12, FollowsAlong
<1> QED
  BY <1>1, <1>11, <1>13 DEF Follows, N, D, S

(* itoa() writes the number without a sign, in as many digits as it takes. *)
LEMMA ItoaIsHex ==
  ASSUME NEW num \in IntRange
  PROVE  itoa(num) = Hex(num) /\ itoa(num) \in Seq(Nat)
<1> DEFINE n == Unsigned(num)
           k == CHOOSE j \in 1 .. Digits : HasDigits(n, j)
           D(i) == Nibbles(num)[i]
           F == [j \in 1 .. k |-> HexDigits[((n \div Power16[k - j]) % 16) + 1]]
<1>1. Hex(num) = <<48, 120>> \o F
  BY DEF Hex, HasDigits, Unsigned
<1>2. k \in 1 .. Digits /\ HasDigits(n, k)
  <2>1. \E j \in 1 .. Digits : HasDigits(n, j)
    BY UnsignedValue, NumberHasDigits
  <2> HIDE DEF n
  <2> QED
    BY <2>1
<1> HIDE DEF k
<1>3. Digits \in Nat /\ k \in Nat
  BY <1>2, Powers
<1>4. \A d \in 0 .. 15 : HexDigits[d + 1] = Digit(d)
  BY SMTT(30) DEF HexDigits, Digit
<1>5. \A j \in 1 .. k : /\ Digits - k + j \in 1 .. Digits
                        /\ Digits - (Digits - k + j) = k - j
  BY <1>2, <1>3
<1>6. \A j \in 1 .. k : D(Digits - k + j) \in 0 .. 15
  BY <1>5, NibbleValue
<1>7. F = [j \in 1 .. k |-> Digit(D(Digits - k + j))]
  <2>1. \A j \in 1 .. k : D(Digits - k + j) = (n \div Power16[k - j]) % 16
    BY <1>5, NibbleValue
  <2> HIDE DEF D, n
  <2>2. \A j \in 1 .. k :
          HexDigits[((n \div Power16[k - j]) % 16) + 1] = Digit(D(Digits - k + j))
    BY <1>4, <1>6, <2>1
  <2> QED
    BY <2>2
<1>8. F \in Seq(Nat)
  <2> HIDE DEF D
  <2>1. \A j \in 1 .. k : Digit(D(Digits - k + j)) \in Nat
    BY <1>6 DEF Digit
  <2> DEFINE H(j) == Digit(D(Digits - k + j))
  <2> HIDE DEF H, F
  <2>2. F = [j \in 1 .. k |-> H(j)] /\ \A j \in 1 .. k : H(j) \in Nat
    BY <1>7, <2>1 DEF H
  <2> QED
    BY <1>3, <2>2
<1>9. PICK str \in [0 .. Digits -> Seq(Nat)] :
           /\ str[0] = <<>>
           /\ \A i \in 1 .. Digits : str[i] = PutDigit(str[i - 1], D(i))
           /\ itoa(num) = <<48, 120>> \o (IF num = 0 THEN <<48>> ELSE str[Digits])
  BY ItoaLoop
<1>10. ASSUME num = 0 PROVE itoa(num) = Hex(num)
  <2>1. n = 0
    <3>1. /\ n \in 0 .. Power16[Digits] - 1 /\ Power16[Digits] \in Nat
          /\ n = num \/ n = num + Power16[Digits]
      BY <1>3, UnsignedValue, Powers
    <3> QED
      BY <1>10, <3>1
  <2>2. k = 1
    <3> SUFFICES ASSUME n >= Power16[k - 1] PROVE FALSE
      BY <1>2 DEF HasDigits
    <3>1. k - 1 \in 0 .. Digits
      BY <1>2, <1>3
    <3>2. Power16[k - 1] \in Nat \ {0}
      BY <3>1, Powers
    <3> QED
      BY <2>1, <3>2
  <2>3. F = <<48>>
    <3>1. Power16[1 - 1] = 1
      BY Powers
    <3>2. HexDigits[((0 \div Power16[1 - 1]) % 16) + 1] = 48
      BY <3>1 DEF HexDigits
    <3> HIDE DEF n
    <3>3. F = [j \in 1 .. 1 |-> 48]
      BY <2>1, <2>2, <3>2
    <3> QED
      BY <3>3
  <2> QED
    BY <1>1, <1>9, <1>10, <2>3
<1>11. ASSUME num # 0 PROVE itoa(num) = Hex(num)
  <2>0. /\ \A i \in 1 .. Digits - k : D(i) = 0
        /\ D(Digits - k + 1) > 0
    BY <1>2, <1>11, LeadingZeros
  <2> HIDE DEF D, n
  <2> DEFINE A == {i \in 0 .. Digits - k : str[i] = <<>>}
  <2>1. \A i \in 0 .. Digits - k : str[i] = <<>>
    <3>0. Digits - k \in Nat
      BY <1>2, <1>3
    <3>1. 0 \in A
      BY <1>9, <3>0
    <3>2. ASSUME NEW i \in 0 .. Digits - k - 1, i \in A PROVE i + 1 \in A
      <4>1. i + 1 \in 1 .. Digits - k /\ i + 1 \in 1 .. Digits /\ (i + 1) - 1 = i
        BY <1>2, <1>3
      <4>2. str[i + 1] = PutDigit(str[i], D(i + 1)) /\ D(i + 1) = 0 /\ str[i] = <<>>
        BY <1>9, <2>0, <3>2, <4>1
      <4>3. str[i + 1] = <<>>
        BY <4>2 DEF PutDigit
      <4> QED
        BY <4>1, <4>3
    <3> HIDE DEF A
    <3>3. \A i \in 0 .. Digits - k : i \in A
      BY <3>0, <3>1, <3>2, UpTo
    <3> QED
      BY <3>3 DEF A
  <2> DEFINE G(m) == [j \in 1 .. m |-> Digit(D(Digits - k + j))]
             B == {m \in 0 .. k : str[Digits - k + m] = G(m)}
  <2>2. 0 \in B
    <3>1. Digits - k + 0 \in 0 .. Digits - k
      BY <1>2, <1>3
    <3>2. str[Digits - k + 0] = <<>>
      BY <2>1, <3>1
    <3>3. G(0) = <<>>
      OBVIOUS
    <3> QED
      BY <1>3, <3>2, <3>3
  <2>3. ASSUME NEW m \in 0 .. k - 1, m \in B PROVE m + 1 \in B
    <3>1. /\ Digits - k + (m + 1) \in 1 .. Digits /\ m + 1 \in 1 .. k
          /\ (Digits - k + (m + 1)) - 1 = Digits - k + m
      BY <1>2, <1>3
    <3>2. str[Digits - k + (m + 1)] = PutDigit(G(m), D(Digits - k + (m + 1)))
      BY <1>9, <2>3, <3>1
    <3>3. G(m) # <<>> \/ D(Digits - k + (m + 1)) > 0
      <4>1. CASE m = 0
        BY <2>0, <4>1
      <4>2. CASE m # 0
        <5>1. DOMAIN G(m) = 1 .. m /\ 1 \in 1 .. m
          BY <4>2
        <5>2. 1 \notin DOMAIN <<>>
          OBVIOUS
        <5> HIDE DEF G
        <5> QED
          BY <5>1, <5>2
      <4> QED
        BY <4>1, <4>2
    <3>4. str[Digits - k + (m + 1)] = Append(G(m), Digit(D(Digits - k + (m + 1))))
      <4> HIDE DEF G
      <4> QED
        BY <3>2, <3>3 DEF PutDigit
    <3>5. Append(G(m), Digit(D(Digits - k + (m + 1)))) = G(m + 1)
      <4> DEFINE H(j) == Digit(D(Digits - k + j))
      <4>1. m \in Nat
        OBVIOUS
      <4> HIDE DEF H
      <4>2. Append([j \in 1 .. m |-> H(j)], H(m + 1)) = [j \in 1 .. m + 1 |-> H(j)]
        <5>1. Len([j \in 1 .. m |-> H(j)]) = m
          BY <4>1
        <5> QED
          BY <4>1, <5>1
      <4> QED
        BY <4>2 DEF H
    <3> QED
      BY <3>1, <3>4, <3>5
  <2> HIDE DEF B
  <2>4. \A m \in 0 .. k : m \in B
    BY <1>3, <2>2, <2>3, UpTo
  <2>5. str[Digits] = F
    <3>1. k \in B /\ Digits - k + k = Digits
      BY <1>3, <2>4
    <3> HIDE DEF F
    <3> QED
      BY <1>7, <3>1 DEF B
  <2> HIDE DEF F
  <2> QED
    BY <1>1, <1>9, <1>11, <2>5
<1>12. <<48, 120>> \in Seq(Nat)
  OBVIOUS
<1> HIDE DEF F
<1>13. itoa(num) = Hex(num)
  BY <1>10, <1>11
<1>14. <<48, 120>> \o F \in Seq(Nat)
  BY <1>8, <1>12
<1> QED
  BY <1>1, <1>13, <1>14

-----------------------------------------------------------------------------
(* A sequence of sequences is put together one by one.                     *)
Joined(f, ss, S) ==
  /\ f \in [0 .. Len(ss) -> Seq(S)]
  /\ f[0] = <<>>
  /\ \A i \in 1 .. Len(ss) : f[i] = f[i - 1] \o ss[i]

(* FlattenSeq() makes such a function and returns its last value.          *)
LEMMA FlattenJoins ==
  ASSUME NEW S, NEW ss \in Seq(Seq(S))
  PROVE  \E f : Joined(f, ss, S) /\ FlattenSeq(ss) = f[Len(ss)]
<1> DEFINE N == Len(ss)
           X == Seq(S)
           P(f) == f = [i \in 1 .. N |-> IF i = 1 THEN ss[i] ELSE f[i - 1] \o ss[i]]
           flatten[i \in 1 .. N] == IF i = 1 THEN ss[i] ELSE flatten[i - 1] \o ss[i]
           step == [x \in (1 .. N) \X X |-> x[2] \o ss[x[1]]]
<1>1. FlattenSeq(ss) = IF N = 0 THEN ss ELSE flatten[N]
  BY DEF FlattenSeq
<1>2. flatten = CHOOSE f : P(f)
  OBVIOUS
<1>3. <<>> \in X
  OBVIOUS
<1>4. N \in Nat /\ \A i \in 1 .. N : ss[i] \in X
  OBVIOUS
<1>5. \A i \in 1 .. N, s \in X : s \o ss[i] \in X
  <2>1. \A s, r \in X : s \o r \in X
    OBVIOUS
  <2> HIDE DEF X, N
  <2> QED
    BY <1>4, <2>1
<1>6. \A s \in X : <<>> \o s = s
  BY ConcatEmptySeq
<1>7. N = 0 => ss = <<>>
  OBVIOUS
<1> HIDE DEF flatten, N, X
<1>8. IsStep(step, N, X)
  BY <1>5 DEF IsStep
<1>9. \A i \in 1 .. N, s \in X : step[<<i, s>>] = s \o ss[i]
  OBVIOUS
<1> HIDE DEF step
<1>10. PICK g : Follows(g, N, X, <<>>, step)
  BY <1>3, <1>4, <1>8, Recursion
<1>11. g \in [0 .. N -> X] /\ g[0] = <<>> /\ \A i \in 1 .. N : g[i] = g[i - 1] \o ss[i]
  <2>1. /\ g \in [0 .. N -> X] /\ g[0] = <<>>
        /\ \A i \in 1 .. N : g[i] = step[<<i, g[i - 1]>>]
    BY <1>10 DEF Follows
  <2>2. \A i \in 1 .. N : g[i - 1] \in X
    <3>1. \A i \in 1 .. N : i - 1 \in 0 .. N
      BY <1>4
    <3> QED
      BY <2>1, <3>1
  <2> QED
    BY <1>9, <2>1, <2>2
<1>12. CASE N = 0
  <2>1. Joined(g, ss, S)
    BY <1>11 DEF Joined, N, X
  <2> QED
    BY <1>1, <1>7, <1>11, <1>12, <2>1 DEF N
<1>13. CASE N # 0
  <2>1. \E f : P(f)
    <3> DEFINE h == [i \in 1 .. N |-> g[i]]
    <3>1. N \in 1 .. N /\ 1 \in 1 .. N /\ 1 - 1 = 0
      BY <1>4, <1>13
    <3>2. g[1] = ss[1]
      <4>1. g[1] = <<>> \o ss[1]
        BY <1>11, <3>1
      <4>2. ss[1] \in X
        BY <1>4, <3>1
      <4> QED
        BY <1>6, <4>1, <4>2
    <3>3. \A i \in 1 .. N : i # 1 => i - 1 \in 1 .. N
      BY <1>4
    <3>4. \A i \in 1 .. N : h[i] = IF i = 1 THEN ss[i] ELSE h[i - 1] \o ss[i]
      BY <1>11, <3>2, <3>3
    <3>5. P(h)
      BY <3>4
    <3> HIDE DEF P, h
    <3> QED
      BY <3>5
  <2>2. P(flatten)
    <3> HIDE DEF P
    <3> QED
      BY <1>2, <2>1
  <2> DEFINE h == [i \in 0 .. N |-> IF i = 0 THEN <<>> ELSE flatten[i]]
  <2>3. \A i \in 1 .. N : flatten[i] = IF i = 1 THEN ss[i] ELSE flatten[i - 1] \o ss[i]
    BY <2>2
  <2>4. ASSUME NEW i \in 1 .. N, h[i - 1] = g[i - 1] PROVE h[i] = g[i]
    <3>1. g[i] = g[i - 1] \o ss[i] /\ h[i] = flatten[i]
      <4>1. i \in 0 .. N /\ i # 0
        BY <1>4
      <4> QED
        BY <1>11, <4>1
    <3>2. CASE i = 1
      <4>1. g[i - 1] = <<>>
        BY <1>11, <3>2
      <4> QED
        BY <1>4, <1>6, <2>3, <3>1, <3>2, <4>1
    <3>3. CASE i # 1
      <4>1. h[i - 1] = flatten[i - 1]
        BY <1>4, <3>3
      <4> QED
        BY <2>3, <2>4, <3>1, <3>3, <4>1
    <3> QED
      BY <3>2, <3>3
  <2>5. h[0] = g[0]
    BY <1>4, <1>11
  <2>6. N \in 0 .. N /\ h[N] = flatten[N]
    BY <1>4, <1>13
  <2> HIDE DEF h
  <2>7. \A n \in 0 .. N : h[n] = g[n]
    <3>1. \A i \in 1 .. N : h[i - 1] = g[i - 1] => h[i] = g[i]
      BY <2>4
    <3> QED
      BY <1>4, <2>5, <3>1, Unique, ZenonT(60)
  <2>8. FlattenSeq(ss) = g[N]
    BY <1>1, <1>13, <2>6, <2>7
  <2>9. Joined(g, ss, S)
    BY <1>11 DEF Joined, N, X
  <2> QED
    BY <2>8, <2>9 DEF N
<1> QED
  BY <1>12, <1>13

(* What has been put together stays as it is.                              *)
LEMMA JoinedPrefix ==
  ASSUME NEW S, NEW ss \in Seq(Seq(S)), NEW f, Joined(f, ss, S), NEW i \in 0 .. Len(ss)
  PROVE  /\ Len(f[i]) <= Len(f[Len(ss)])
         /\ \A j \in 1 .. Len(f[i]) : f[Len(ss)][j] = f[i][j]
<1> DEFINE N == Len(ss)
           M == N - i
           Prefix(s, r) == Len(s) <= Len(r) /\ \A j \in 1 .. Len(s) : r[j] = s[j]
           K == {n \in 0 .. M : Prefix(f[i], f[i + n])}
<1>1. N \in Nat /\ i \in Nat /\ M \in Nat
  OBVIOUS
<1>2. \A n \in 1 .. N : f[n] = f[n - 1] \o ss[n] /\ ss[n] \in Seq(S)
  <2>1. \A n \in 1 .. N : ss[n] \in Seq(S)
    <3> DEFINE X == Seq(S)
    <3> HIDE DEF X
    <3>1. \A n \in 1 .. N : ss[n] \in X
      BY DEF X
    <3> QED
      BY <3>1 DEF X
  <2> QED
    BY <2>1 DEF Joined
<1>3. \A n \in 0 .. N : f[n] \in Seq(S)
  BY DEF Joined
<1> HIDE DEF N
<1>4. \A s \in Seq(S) : Len(s) \in Nat
  OBVIOUS
<1>5. f[i] \in Seq(S) /\ Len(f[i]) \in Nat /\ i + 0 = i
  <2>1. i \in 0 .. N
    BY <1>1 DEF N
  <2> QED
    BY <1>1, <1>3, <1>4, <2>1
<1>6. 0 \in K
  BY <1>1, <1>5
<1>7. ASSUME NEW n \in 0 .. M - 1, n \in K PROVE n + 1 \in K
  <2>1. i + n \in 0 .. N /\ i + (n + 1) \in 1 .. N /\ (i + (n + 1)) - 1 = i + n
    BY <1>1
  <2>2. f[i + (n + 1)] = f[i + n] \o ss[i + (n + 1)] /\ ss[i + (n + 1)] \in Seq(S)
    BY <1>2, <2>1
  <2>3. f[i + n] \in Seq(S) /\ Len(f[i + n]) \in Nat /\ Len(ss[i + (n + 1)]) \in Nat
    BY <1>3, <1>4, <2>1, <2>2
  <2> DEFINE a == f[i + n]
             b == ss[i + (n + 1)]
             c == f[i + (n + 1)]
  <2>4. Prefix(f[i], a)
    BY <1>7
  <2>5. c = a \o b /\ a \in Seq(S) /\ b \in Seq(S) /\ Len(a) \in Nat /\ Len(b) \in Nat
    BY <2>2, <2>3
  <2> HIDE DEF a, b, c
  <2>6. Len(c) = Len(a) + Len(b) /\ \A j \in 1 .. Len(a) : c[j] = a[j]
    <3>1. /\ Len(a \o b) = Len(a) + Len(b)
          /\ \A j \in 1 .. Len(a) + Len(b) : (a \o b)[j] = IF j <= Len(a) THEN a[j] ELSE b[j - Len(a)]
      BY <2>5, ConcatProperties
    <3>2. \A j \in 1 .. Len(a) : j \in 1 .. Len(a) + Len(b) /\ j <= Len(a)
      BY <2>5
    <3> QED
      BY <2>5, <3>1, <3>2
  <2>7. Prefix(f[i], c)
    BY <1>5, <2>4, <2>5, <2>6
  <2> HIDE DEF Prefix
  <2> QED
    BY <1>1, <2>7 DEF c
<1> HIDE DEF K
<1>8. \A n \in 0 .. M : n \in K
  BY <1>1, <1>6, <1>7, UpTo
<1>9. M \in K /\ i + M = N
  BY <1>1, <1>8
<1> QED
  BY <1>9 DEF K, N

-----------------------------------------------------------------------------
(* How many arguments the first i characters of a message show.            *)
Numbers(m, i) == Cardinality({j \in 1 .. i : m[j] = Number})

(* They are counted one by one.                                            *)
LEMMA NumbersCounted ==
  ASSUME NEW m, NEW i \in Nat
  PROVE  /\ Numbers(m, 0) = 0
         /\ Numbers(m, i) \in 0 .. i
         /\ Numbers(m, i + 1) = Numbers(m, i) + (IF m[i + 1] = Number THEN 1 ELSE 0)
<1> DEFINE A(n) == {j \in 1 .. n : m[j] = Number}
<1>1. Numbers(m, 0) = 0
  <2>1. A(0) = {}
    OBVIOUS
  <2> QED
    BY <2>1, FS_EmptySet DEF Numbers
<1>2. IsFiniteSet(1 .. i) /\ Cardinality(1 .. i) = i
  <2>1. 1 \in Int /\ i \in Int /\ (IF 1 > i THEN 0 ELSE i - 1 + 1) = i
    OBVIOUS
  <2> QED
    BY <2>1, FS_Interval
<1>3. A(i) \in SUBSET (1 .. i)
  OBVIOUS
<1>4. IsFiniteSet(A(i)) /\ Cardinality(A(i)) <= i /\ Cardinality(A(i)) \in Nat
  <2> HIDE DEF A
  <2>1. IsFiniteSet(A(i)) /\ Cardinality(A(i)) <= i
    BY <1>2, <1>3, FS_Subset
  <2> QED
    BY <2>1, FS_CardinalityType
<1>5. i + 1 \notin A(i)
  OBVIOUS
<1>6. CASE m[i + 1] = Number
  <2>1. A(i + 1) = A(i) \union {i + 1}
    BY <1>6
  <2> HIDE DEF A
  <2>2. Cardinality(A(i + 1)) = Cardinality(A(i)) + 1
    BY <1>4, <1>5, <2>1, FS_AddElement
  <2> QED
    BY <1>1, <1>4, <1>6, <2>2 DEF Numbers, A
<1>7. CASE m[i + 1] # Number
  <2>1. A(i + 1) = A(i)
    BY <1>7
  <2>2. Numbers(m, i + 1) = Numbers(m, i)
    BY <2>1 DEF Numbers
  <2>3. Numbers(m, i) \in 0 .. i
    BY <1>4 DEF Numbers
  <2> HIDE DEF A
  <2> QED
    BY <1>1, <1>7, <2>2, <2>3
<1> QED
  BY <1>6, <1>7

-----------------------------------------------------------------------------
(* The characters of messages.                                             *)
Chars == (0 .. 127) \ {PERCENT}

(* The pieces that Format(m) and Meant(m, args) put together.              *)
FormatOf(c) == IF c = Number THEN <<PERCENT, LOWER_X>> ELSE <<c>>
MeantBy(m, args, i) == IF m[i] = Number THEN Hex(args[Numbers(m, i)]) ELSE <<m[i]>>

(* The format is made of them, and each prefix of it is what the same      *)
(* prefix of the message makes.                                            *)
LEMMA FormatJoins ==
  ASSUME NEW m \in Seq(Chars)
  PROVE  \E f \in [0 .. Len(m) -> Seq(Nat)] :
           /\ f[0] = <<>> /\ Format(m) = f[Len(m)]
           /\ \A i \in 1 .. Len(m) : f[i] = f[i - 1] \o FormatOf(m[i])
           /\ \A i \in 0 .. Len(m) :
                /\ Len(f[i]) <= Len(Format(m))
                /\ \A j \in 1 .. Len(f[i]) : Format(m)[j] = f[i][j]
<1> DEFINE ss == [i \in DOMAIN m |-> FormatOf(m[i])]
<1>1. Format(m) = FlattenSeq(ss)
  BY DEF Format, FormatOf
<1>2. DOMAIN m = 1 .. Len(m) /\ Len(m) \in Nat /\ \A i \in 1 .. Len(m) : m[i] \in Chars
  OBVIOUS
<1>3. \A i \in 1 .. Len(m) : FormatOf(m[i]) \in Seq(Nat)
  <2>1. \A c \in Chars : FormatOf(c) \in Seq(Nat)
    BY DEF Chars, FormatOf, PERCENT, LOWER_X, Number
  <2> QED
    BY <1>2, <2>1
<1>4. /\ ss \in Seq(Seq(Nat)) /\ Len(ss) = Len(m)
      /\ \A i \in 1 .. Len(m) : ss[i] = FormatOf(m[i])
  <2> DEFINE X == Seq(Nat)
             F(i) == FormatOf(m[i])
  <2> HIDE DEF X, F
  <2>1. ss = [i \in 1 .. Len(m) |-> F(i)] /\ \A i \in 1 .. Len(m) : F(i) \in X
    BY <1>2, <1>3 DEF F, X
  <2> HIDE DEF ss
  <2>2. ss \in Seq(X) /\ Len(ss) = Len(m) /\ \A i \in 1 .. Len(m) : ss[i] = F(i)
    BY <1>2, <2>1
  <2> QED
    BY <2>2 DEF F, X
<1> HIDE DEF ss
<1>5. PICK f : Joined(f, ss, Nat) /\ FlattenSeq(ss) = f[Len(ss)]
  BY <1>4, FlattenJoins
<1>6. \A i \in 0 .. Len(ss) :
                /\ Len(f[i]) <= Len(f[Len(ss)])
                /\ \A j \in 1 .. Len(f[i]) : f[Len(ss)][j] = f[i][j]
  BY <1>4, <1>5, JoinedPrefix
<1>7. f \in [0 .. Len(m) -> Seq(Nat)] /\ f[0] = <<>>
  BY <1>4, <1>5 DEF Joined
<1>8. \A i \in 1 .. Len(m) : f[i] = f[i - 1] \o FormatOf(m[i])
  BY <1>4, <1>5 DEF Joined
<1>9. Format(m) = f[Len(ss)] /\ Len(ss) = Len(m)
  BY <1>1, <1>4, <1>5
<1>10. \A i \in 0 .. Len(m) :
         /\ Len(f[i]) <= Len(Format(m))
         /\ \A j \in 1 .. Len(f[i]) : Format(m)[j] = f[i][j]
  BY <1>6, <1>9, Zenon
<1> QED
  BY <1>7, <1>8, <1>9, <1>10, Zenon

(* So is what it means.                                                    *)
LEMMA MeantJoins ==
  ASSUME NEW m \in Seq(Chars), NEW args \in [DOMAIN m -> IntRange]
  PROVE  \E f \in [0 .. Len(m) -> Seq(Nat)] :
           /\ f[0] = <<>> /\ Meant(m, args) = f[Len(m)]
           /\ \A i \in 1 .. Len(m) : f[i] = f[i - 1] \o MeantBy(m, args, i)
<1> DEFINE ss == [i \in DOMAIN m |-> MeantBy(m, args, i)]
<1>1. Meant(m, args) = FlattenSeq(ss)
  BY DEF Meant, MeantBy, Numbers
<1>2. DOMAIN m = 1 .. Len(m) /\ Len(m) \in Nat /\ \A i \in 1 .. Len(m) : m[i] \in Chars
  OBVIOUS
<1>3. ASSUME NEW i \in 1 .. Len(m) PROVE MeantBy(m, args, i) \in Seq(Nat)
  <2>1. CASE m[i] = Number
    <3>1. i - 1 \in Nat /\ (i - 1) + 1 = i
      BY <1>2
    <3>2. Numbers(m, i) = Numbers(m, i - 1) + 1 /\ Numbers(m, i - 1) \in 0 .. i - 1
      <4>1. /\ Numbers(m, i - 1) \in 0 .. i - 1
            /\ Numbers(m, (i - 1) + 1) = Numbers(m, i - 1) + (IF m[(i - 1) + 1] = Number THEN 1 ELSE 0)
        BY <3>1, NumbersCounted
      <4> QED
        BY <2>1, <3>1, <4>1
    <3>3. Numbers(m, i) \in DOMAIN m
      BY <1>2, <3>2
    <3>4. args[Numbers(m, i)] \in IntRange
      BY <3>3
    <3> QED
      BY <2>1, <3>4, ItoaIsHex DEF MeantBy
  <2>2. CASE m[i] # Number
    <3>1. m[i] \in Nat
      <4>1. \A c \in Chars : c \in Nat
        BY DEF Chars
      <4> QED
        BY <1>2, <4>1
    <3>2. <<m[i]>> \in Seq(Nat)
      BY <3>1
    <3> QED
      BY <2>2, <3>2 DEF MeantBy
  <2> QED
    BY <2>1, <2>2
<1>4. /\ ss \in Seq(Seq(Nat)) /\ Len(ss) = Len(m)
      /\ \A i \in 1 .. Len(m) : ss[i] = MeantBy(m, args, i)
  <2> DEFINE X == Seq(Nat)
             F(i) == MeantBy(m, args, i)
  <2> HIDE DEF X, F
  <2>1. ss = [i \in 1 .. Len(m) |-> F(i)] /\ \A i \in 1 .. Len(m) : F(i) \in X
    BY <1>2, <1>3 DEF F, X
  <2> HIDE DEF ss
  <2>2. ss \in Seq(X) /\ Len(ss) = Len(m) /\ \A i \in 1 .. Len(m) : ss[i] = F(i)
    BY <1>2, <2>1
  <2> QED
    BY <2>2 DEF F, X
<1> HIDE DEF ss
<1>5. PICK f : Joined(f, ss, Nat) /\ FlattenSeq(ss) = f[Len(ss)]
  BY <1>4, FlattenJoins
<1>6. f \in [0 .. Len(m) -> Seq(Nat)] /\ f[0] = <<>>
  BY <1>4, <1>5 DEF Joined
<1>7. \A i \in 1 .. Len(m) : f[i] = f[i - 1] \o MeantBy(m, args, i)
  BY <1>4, <1>5 DEF Joined
<1> QED
  BY <1>1, <1>4, <1>5, <1>6, <1>7, Zenon

-----------------------------------------------------------------------------
(* vsprintf between two characters of the format.                          *)
State == [buf : Seq(Nat), conversion : BOOLEAN, p_next_arg : Nat]
StateOf(b, c, n) == [buf |-> b, conversion |-> c, p_next_arg |-> n]

(* Its loop goes through states, as long as each character leads to one.   *)
LEMMA VsprintfStates ==
  ASSUME NEW fmt \in Seq(Nat), NEW args
  PROVE  \E g \in [0 .. Len(fmt) -> State] :
           /\ g[0] = StateOf(<<>>, FALSE, 1)
           /\ \A i \in 1 .. Len(fmt) :
                PutChar(g[i - 1], fmt[i], args) \in State
                  => g[i] = PutChar(g[i - 1], fmt[i], args)
<1> DEFINE N == Len(fmt)
           C(s, i) == PutChar(s, fmt[i], args)
           step == [x \in (1 .. N) \X State |-> IF C(x[2], x[1]) \in State THEN C(x[2], x[1]) ELSE x[2]]
<1>1. N \in Nat
  OBVIOUS
<1>2. StateOf(<<>>, FALSE, 1) \in State
  BY DEF StateOf, State
<1> HIDE DEF C, N
<1>3. IsStep(step, N, State)
  BY DEF IsStep
<1>4. \A i \in 1 .. N, s \in State : C(s, i) \in State => step[<<i, s>>] = C(s, i)
  OBVIOUS
<1> HIDE DEF step
<1>5. PICK g : Follows(g, N, State, StateOf(<<>>, FALSE, 1), step)
  BY <1>1, <1>2, <1>3, Recursion
<1>6. /\ g \in [0 .. N -> State] /\ g[0] = StateOf(<<>>, FALSE, 1)
      /\ \A i \in 1 .. N : g[i] = step[<<i, g[i - 1]>>]
  BY <1>5 DEF Follows
<1>7. \A i \in 1 .. N : g[i - 1] \in State
  BY <1>1, <1>6
<1>8. \A i \in 1 .. N : C(g[i - 1], i) \in State => g[i] = C(g[i - 1], i)
  BY <1>4, <1>6, <1>7
<1> QED
  BY <1>6, <1>8 DEF C, N

(* If each does, they end with its result.                                 *)
LEMMA VsprintfResult ==
  ASSUME NEW fmt \in Seq(Nat), NEW args, NEW g \in [0 .. Len(fmt) -> State],
         g[0] = StateOf(<<>>, FALSE, 1),
         \A i \in 1 .. Len(fmt) : g[i] = PutChar(g[i - 1], fmt[i], args)
  PROVE  vsprintf(fmt, args) = g[Len(fmt)].buf
<1> DEFINE N == Len(fmt)
           s0 == [buf |-> <<>>, conversion |-> FALSE, p_next_arg |-> 1]
           C(s, i) == PutChar(s, fmt[i], args)
           P(f) == f = [i \in 0 .. N |-> IF i = 0 THEN s0 ELSE C(f[i - 1], i)]
           after[i \in 0 .. N] == IF i = 0 THEN s0 ELSE C(after[i - 1], i)
<1>1. vsprintf(fmt, args) = after[N].buf
  BY DEF vsprintf
<1>2. after = CHOOSE f : P(f)
  OBVIOUS
<1>3. N \in Nat
  OBVIOUS
<1>4. s0 = StateOf(<<>>, FALSE, 1)
  BY DEF StateOf
<1> HIDE DEF after, s0, C, N
<1>5. /\ g \in [0 .. N -> State] /\ g[0] = s0
      /\ \A i \in 1 .. N : g[i] = C(g[i - 1], i)
  BY <1>4 DEF N, C
<1>6. \A i \in 0 .. N : i = 0 \/ i \in 1 .. N
  BY <1>3
<1>7. P(g)
  BY <1>5, <1>6
<1>8. P(after)
  <2> HIDE DEF P
  <2> QED
    BY <1>2, <1>7
<1>9. after[0] = s0 /\ \A i \in 1 .. N : after[i] = C(after[i - 1], i)
  BY <1>3, <1>8
<1>10. \A n \in 0 .. N : after[n] = g[n]
  <2>1. \A i \in 1 .. N : after[i - 1] = g[i - 1] => after[i] = g[i]
    BY <1>5, <1>9
  <2>2. after[0] = g[0]
    BY <1>5, <1>9
  <2> QED
    BY <1>3, <2>1, <2>2, Unique, ZenonT(60)
<1>11. N \in 0 .. N
  BY <1>3
<1> QED
  BY <1>1, <1>10, <1>11 DEF N

(* What each kind of character does.                                       *)
LEMMA PutCharCases ==
  ASSUME NEW b \in Seq(Nat), NEW n \in Nat, NEW args
  PROVE  /\ \A c \in Nat : c # PERCENT =>
              PutChar(StateOf(b, FALSE, n), c, args) = StateOf(Append(b, c), FALSE, n)
         /\ PutChar(StateOf(b, FALSE, n), PERCENT, args) = StateOf(b, TRUE, n)
         /\ PutChar(StateOf(b, TRUE, n), LOWER_X, args)
              = StateOf(b \o itoa(args[n]), FALSE, n + 1)
<1> DEFINE X == Seq(Nat)
           s == StateOf(b, FALSE, n)
           r == StateOf(b, TRUE, n)
<1>1. /\ s.buf = b /\ s.conversion = FALSE /\ s.p_next_arg = n
      /\ r.buf = b /\ r.conversion = TRUE /\ r.p_next_arg = n
  BY DEF StateOf
<1>2. \A c \in Nat : Append(b, c) \in X
  OBVIOUS
<1>3. b \in X
  OBVIOUS
<1> HIDE DEF X
<1>4. s \in [buf : X, conversion : BOOLEAN, p_next_arg : Nat]
  BY <1>3 DEF StateOf
<1>5. r = StateOf(s.buf, TRUE, s.p_next_arg)
  BY <1>1
<1>6. \A x : StateOf(x, FALSE, n) = StateOf(x, s.conversion, s.p_next_arg)
  BY <1>1
<1> HIDE DEF s
<1>7. [s EXCEPT !.conversion = TRUE] = r
  <2> HIDE DEF r
  <2>1. \A x \in BOOLEAN : [s EXCEPT !.conversion = x] = StateOf(s.buf, x, s.p_next_arg)
    BY <1>4 DEF StateOf
  <2>2. [s EXCEPT !.conversion = TRUE] = StateOf(s.buf, TRUE, s.p_next_arg)
    BY <2>1
  <2> QED
    BY <1>5, <2>2
<1>8. \A x \in X : [s EXCEPT !.buf = x] = StateOf(x, FALSE, n)
  <2>1. \A x \in X : [s EXCEPT !.buf = x] = StateOf(x, s.conversion, s.p_next_arg)
    BY <1>4 DEF StateOf
  <2> QED
    BY <1>6, <2>1
<1>9. ASSUME NEW c \in Nat, c # PERCENT
      PROVE  PutChar(s, c, args) = StateOf(Append(b, c), FALSE, n)
  <2>1. PutChar(s, c, args) = [s EXCEPT !.buf = Append(s.buf, c)]
    BY <1>1, <1>9 DEF PutChar
  <2> QED
    BY <1>1, <1>2, <1>8, <2>1
<1>10. PutChar(s, PERCENT, args) = r
  <2> HIDE DEF r
  <2>1. PutChar(s, PERCENT, args) = [s EXCEPT !.conversion = TRUE]
    BY <1>1 DEF PutChar
  <2> QED
    BY <1>7, <2>1
<1>11. PutChar(r, LOWER_X, args) = StateOf(b \o itoa(args[n]), FALSE, n + 1)
  <2> HIDE DEF r
  <2>1. PutChar(r, LOWER_X, args)
          = StateOf(r.buf \o itoa(args[r.p_next_arg]), FALSE, r.p_next_arg + 1)
    BY <1>1 DEF PutChar, StateOf
  <2> QED
    BY <1>1, <2>1
<1> QED
  BY <1>9, <1>10, <1>11 DEF s

(* vsprintf() does with the format of a message what the message means:    *)
(* when it has read the format of the first i characters, it has written   *)
(* what they mean, and is at the argument behind those they show.          *)
LEMMA VsprintfIsMeant ==
  ASSUME NEW m \in Seq(Chars), NEW args \in [DOMAIN m -> IntRange]
  PROVE  vsprintf(Format(m), args) = Meant(m, args) /\ Meant(m, args) \in Seq(Nat)
<1> DEFINE N == Len(m)
           fmt == Format(m)
           C(s, l) == PutChar(s, fmt[l], args)
<1>1. PICK f \in [0 .. N -> Seq(Nat)] :
           /\ f[0] = <<>> /\ fmt = f[N]
           /\ \A i \in 1 .. N : f[i] = f[i - 1] \o FormatOf(m[i])
           /\ \A i \in 0 .. N :
                /\ Len(f[i]) <= Len(fmt)
                /\ \A j \in 1 .. Len(f[i]) : fmt[j] = f[i][j]
  BY FormatJoins
<1>2. PICK h \in [0 .. N -> Seq(Nat)] :
           /\ h[0] = <<>> /\ Meant(m, args) = h[N]
           /\ \A i \in 1 .. N : h[i] = h[i - 1] \o MeantBy(m, args, i)
  BY MeantJoins
<1>3. N \in Nat /\ DOMAIN m = 1 .. N /\ \A i \in 1 .. N : m[i] \in Chars
  OBVIOUS
<1>4. \A c \in Chars : c \in Nat /\ c # PERCENT
  BY DEF Chars
<1> HIDE DEF N, fmt
<1>5. N \in 0 .. N /\ fmt \in Seq(Nat)
  <2>1. N \in 0 .. N
    BY <1>3
  <2> QED
    BY <1>1, <2>1
<1>6. PICK g \in [0 .. Len(fmt) -> State] :
           /\ g[0] = StateOf(<<>>, FALSE, 1)
           /\ \A l \in 1 .. Len(fmt) : C(g[l - 1], l) \in State => g[l] = C(g[l - 1], l)
  BY <1>5, VsprintfStates
<1> DEFINE Done(i) == StateOf(h[i], FALSE, Numbers(m, i) + 1)
           L(i) == Len(f[i])
           K == {i \in 0 .. N : /\ g[L(i)] = Done(i)
                                /\ \A l \in 1 .. L(i) : g[l] = C(g[l - 1], l)}
<1>7. \A i \in 0 .. N : L(i) \in 0 .. Len(fmt)
  <2>1. \A i \in 0 .. N : f[i] \in Seq(Nat) /\ Len(f[i]) <= Len(fmt)
    BY <1>1
  <2>2. \A s \in Seq(Nat) : Len(s) \in Nat
    OBVIOUS
  <2>3. Len(fmt) \in Nat
    BY <1>5, <2>2
  <2> HIDE DEF fmt
  <2>4. \A i \in 0 .. N : Len(f[i]) \in Nat /\ Len(f[i]) <= Len(fmt)
    BY <2>1, <2>2
  <2> QED
    BY <2>3, <2>4
<1>8. 0 \in K
  <2>1. L(0) = 0 /\ 0 \in 0 .. N
    BY <1>1, <1>3
  <2>2. Numbers(m, 0) + 1 = 1 /\ h[0] = <<>>
    BY <1>2, NumbersCounted
  <2> HIDE DEF L
  <2>3. \A l \in 1 .. L(0) : FALSE
    BY <2>1
  <2>4. g[L(0)] = Done(0)
    BY <1>6, <2>1, <2>2
  <2> QED
    BY <2>1, <2>3, <2>4
<1>9. ASSUME NEW i \in 0 .. N - 1, i \in K PROVE i + 1 \in K
  <2> DEFINE c == m[i + 1]
             b == h[i]
             n == Numbers(m, i) + 1
             a == L(i)
  <2>1. /\ i \in Nat /\ i \in 0 .. N /\ i + 1 \in 1 .. N /\ i + 1 \in 0 .. N
        /\ (i + 1) - 1 = i
    BY <1>3
  <2>2. c \in Chars /\ c \in Nat /\ c # PERCENT
    BY <1>3, <1>4, <2>1
  <2>3. b \in Seq(Nat)
    BY <1>2, <2>1
  <2>4. /\ Numbers(m, i) \in 0 .. i
        /\ Numbers(m, i + 1) = Numbers(m, i) + (IF c = Number THEN 1 ELSE 0)
    BY <2>1, NumbersCounted
  <2>5. n \in Nat
    BY <2>1, <2>4
  <2>6. g[a] = StateOf(b, FALSE, n) /\ \A l \in 1 .. a : g[l] = C(g[l - 1], l)
    BY <1>9
  <2>7. f[i + 1] = f[i] \o FormatOf(c) /\ f[i] \in Seq(Nat) /\ Len(f[i]) = a
    BY <1>1, <2>1
  <2>8. h[i + 1] = b \o MeantBy(m, args, i + 1) /\ h[i + 1] \in Seq(Nat)
    BY <1>2, <2>1
  <2>9. a \in Nat /\ L(i + 1) \in 0 .. Len(fmt) /\ Len(fmt) \in Nat
    <3>1. Len(fmt) \in Nat
      BY <1>5
    <3> QED
      BY <1>7, <2>1, <3>1
  <2>10. \A l \in 1 .. L(i + 1) : fmt[l] = f[i + 1][l]
    BY <1>1, <2>1
  <2>11. \A l \in 1 .. L(i + 1) : C(g[l - 1], l) \in State => g[l] = C(g[l - 1], l)
    BY <1>6, <2>9
  <2>12. CASE c # Number
    <3>1. f[i + 1] = f[i] \o <<c>> /\ h[i + 1] = b \o <<c>> /\ Numbers(m, i + 1) + 1 = n
      <4>1. FormatOf(c) = <<c>> /\ MeantBy(m, args, i + 1) = <<c>>
        BY <2>12 DEF FormatOf, MeantBy
      <4>2. Numbers(m, i + 1) = Numbers(m, i)
        BY <2>4, <2>12
      <4> QED
        BY <2>7, <2>8, <4>1, <4>2
    <3>2. L(i + 1) = a + 1 /\ f[i + 1][a + 1] = c
      BY <2>2, <2>7, <3>1
    <3>3. a + 1 \in 1 .. L(i + 1) /\ (a + 1) - 1 = a
      BY <2>9, <3>2
    <3>4. fmt[a + 1] = c
      BY <2>10, <3>2, <3>3
    <3>5. h[i + 1] = Append(b, c)
      BY <2>2, <2>3, <3>1
    <3>6. C(g[a], a + 1) = Done(i + 1)
      <4>1. PutChar(StateOf(b, FALSE, n), c, args) = StateOf(Append(b, c), FALSE, n)
        BY <2>2, <2>3, <2>5, PutCharCases
      <4> QED
        BY <2>6, <3>1, <3>4, <3>5, <4>1
    <3>7. Done(i + 1) \in State
      BY <2>5, <2>8, <3>1 DEF State, StateOf
    <3> HIDE DEF C, L, Done, a
    <3>8. g[a + 1] = C(g[a], a + 1)
      BY <2>11, <3>3, <3>6, <3>7
    <3>9. g[L(i + 1)] = Done(i + 1)
      BY <3>2, <3>6, <3>8
    <3>10. \A l \in 1 .. L(i + 1) : g[l] = C(g[l - 1], l)
      <4>1. \A l \in 1 .. L(i + 1) : l \in 1 .. a \/ l = a + 1
        BY <2>9, <3>2
      <4> QED
        BY <2>6, <3>3, <3>8, <4>1
    <3> QED
      BY <2>1, <3>9, <3>10
  <2>13. CASE c = Number
    <3>1. /\ f[i + 1] = f[i] \o <<PERCENT, LOWER_X>> /\ h[i + 1] = b \o Hex(args[n])
          /\ Numbers(m, i + 1) = n
      BY <2>4, <2>7, <2>8, <2>13 DEF FormatOf, MeantBy
    <3>2. /\ L(i + 1) = a + 2
          /\ f[i + 1][a + 1] = PERCENT /\ f[i + 1][a + 2] = LOWER_X
      BY <2>7, <3>1 DEF PERCENT, LOWER_X
    <3>3. /\ a + 1 \in 1 .. L(i + 1) /\ (a + 1) - 1 = a
          /\ a + 2 \in 1 .. L(i + 1) /\ (a + 2) - 1 = a + 1
      BY <2>9, <3>2
    <3>4. fmt[a + 1] = PERCENT /\ fmt[a + 2] = LOWER_X
      BY <2>10, <3>2, <3>3
    <3>5. itoa(args[n]) = Hex(args[n])
      <4>1. n \in 1 .. N
        <5>1. n = Numbers(m, i) + 1 /\ Numbers(m, i) \in 0 .. i
          BY <2>4
        <5> HIDE DEF n
        <5> QED
          BY <1>3, <2>1, <5>1
      <4>2. args[n] \in IntRange
        BY <1>3, <4>1
      <4> QED
        BY <4>2, ItoaIsHex
    <3>6. C(g[a], a + 1) = StateOf(b, TRUE, n)
      <4>1. PutChar(StateOf(b, FALSE, n), PERCENT, args) = StateOf(b, TRUE, n)
        BY <2>3, <2>5, PutCharCases
      <4> QED
        BY <2>6, <3>4, <4>1
    <3>7. C(StateOf(b, TRUE, n), a + 2) = Done(i + 1)
      <4>1. PutChar(StateOf(b, TRUE, n), LOWER_X, args)
              = StateOf(b \o itoa(args[n]), FALSE, n + 1)
        BY <2>3, <2>5, PutCharCases
      <4> QED
        BY <3>1, <3>4, <3>5, <4>1
    <3>8. StateOf(b, TRUE, n) \in State
      BY <2>3, <2>5 DEF State, StateOf
    <3>9. Done(i + 1) \in State
      BY <2>5, <2>8, <3>1 DEF State, StateOf
    <3> HIDE DEF C, L, Done, a
    <3>10. g[a + 1] = StateOf(b, TRUE, n) /\ g[a + 1] = C(g[a], a + 1)
      BY <2>11, <3>3, <3>6, <3>8
    <3>11. g[a + 2] = Done(i + 1) /\ g[a + 2] = C(g[a + 1], a + 2)
      BY <2>11, <3>3, <3>7, <3>9, <3>10
    <3>12. g[L(i + 1)] = Done(i + 1)
      BY <3>2, <3>11
    <3>13. \A l \in 1 .. L(i + 1) : g[l] = C(g[l - 1], l)
      <4>1. \A l \in 1 .. L(i + 1) : l \in 1 .. a \/ l = a + 1 \/ l = a + 2
        BY <2>9, <3>2
      <4> QED
        BY <2>6, <3>3, <3>10, <3>11, <4>1
    <3> QED
      BY <2>1, <3>12, <3>13
  <2> QED
    BY <2>12, <2>13
<1> HIDE DEF K
<1>10. \A i \in 0 .. N : i \in K
  BY <1>3, <1>8, <1>9, UpTo
<1>11. L(N) = Len(fmt) /\ N \in K
  BY <1>1, <1>5, <1>10
<1>12. g[Len(fmt)] = Done(N) /\ \A l \in 1 .. Len(fmt) : g[l] = C(g[l - 1], l)
  <2> HIDE DEF C, Done, L
  <2> QED
    BY <1>11 DEF K
<1>13. vsprintf(fmt, args) = g[Len(fmt)].buf
  BY <1>5, <1>6, <1>12, VsprintfResult
<1>14. Done(N).buf = h[N] /\ h[N] \in Seq(Nat)
  BY <1>2, <1>5 DEF StateOf
<1> QED
  BY <1>2, <1>12, <1>13, <1>14 DEF fmt

-----------------------------------------------------------------------------
(* Between printf() and milli_delay() the text of a process is what its    *)
(* message means with the time it asked for.                               *)
PrintedInv ==
  /\ text \in [Delayers -> Seq(Nat)]
  /\ arg \in [Delayers -> IntRange]
  /\ PrintedAsFormatted

(* printf() of a process makes it so, and nobody else touches its text.    *)
LEMMA StepKeepsPrinted ==
  ASSUME PrintedInv, DelayInv, Step
  PROVE  PrintedInv'
<1> DEFINE p == p_proc_ready
           Text(q, n) == Meant(msg[q], [i \in DOMAIN msg[q] |-> n])
<1>1. /\ p \in Delayers /\ ticks \in IntRange /\ 0 \in IntRange
      /\ pc \in [Delayers -> {"printf", "milli_delay", "while"}]
  BY HalfIsPositive DEF Step, DelayInv, DelayTypes, IntRange
<1>2. /\ text \in [Delayers -> Seq(Nat)] /\ arg \in [Delayers -> IntRange]
      /\ \A q \in Delayers : pc[q] = "milli_delay" => text[q] = Text(q, arg[q])
  BY DEF PrintedInv, PrintedAsFormatted
<1> SUFFICES /\ text' \in [Delayers -> Seq(Nat)] /\ arg' \in [Delayers -> IntRange]
             /\ \A q \in Delayers : pc'[q] = "milli_delay" => text'[q] = Text(q, arg'[q])
  BY DEF PrintedInv, PrintedAsFormatted
<1>3. CASE Printf(p)
  <2> DEFINE written == vsprintf(Format(msg[p]), [i \in DOMAIN msg[p] |-> ticks])
  <2>1. /\ pc' = [pc EXCEPT ![p] = "milli_delay"]
        /\ arg' = [arg EXCEPT ![p] = ticks]
        /\ text' = [text EXCEPT ![p] = written]
    BY <1>3 DEF Printf
  <2>2. written = Text(p, ticks) /\ written \in Seq(Nat)
    <3>1. msg[p] \in Seq(Chars)
      BY <1>1, MessageAssumption DEF Chars
    <3>2. [i \in DOMAIN msg[p] |-> ticks] \in [DOMAIN msg[p] -> IntRange]
      BY <1>1
    <3> HIDE DEF p
    <3> QED
      BY <3>1, <3>2, VsprintfIsMeant
  <2> HIDE DEF written, p, Text
  <2> QED
    BY <1>1, <1>2, <2>1, <2>2
<1>4. CASE MilliDelay(p)
  <2>1. /\ pc' = [pc EXCEPT ![p] = "while"]
        /\ arg' = [arg EXCEPT ![p] = 0]
        /\ text' = [text EXCEPT ![p] = <<>>]
    BY <1>4 DEF MilliDelay
  <2>2. <<>> \in Seq(Nat)
    OBVIOUS
  <2> HIDE DEF p, Text
  <2> QED
    BY <1>1, <1>2, <2>1, <2>2
<1>5. CASE While(p)
  <2>1. text' = text /\ arg' = arg /\ (pc' = pc \/ pc' = [pc EXCEPT ![p] = "printf"])
    BY <1>5 DEF While
  <2> HIDE DEF p, Text
  <2> QED
    BY <1>1, <1>2, <2>1
<1> QED
  BY <1>3, <1>4, <1>5 DEF Step

(* printf() writes the characters of the format and, for each %x, its      *)
(* argument as an unsigned number without zeros in front, for any message, *)
(* any time and any width of an int: what itoa() and vsprintf() compute.   *)
THEOREM PrintedCorrect == USpec => []PrintedAsFormatted
<1>1. UInit => PrintedInv
  <2> SUFFICES ASSUME UInit PROVE PrintedInv
    OBVIOUS
  <2>1. <<>> \in Seq(Nat) /\ 0 \in IntRange
    BY HalfIsPositive DEF IntRange
  <2> QED
    BY <2>1 DEF UInit, PrintedInv, PrintedAsFormatted
<1>2. PrintedInv /\ DelayInv /\ [UNext]_uvars => PrintedInv'
  <2> SUFFICES ASSUME PrintedInv, DelayInv, [UNext]_uvars PROVE PrintedInv'
    OBVIOUS
  <2>1. CASE Step
    BY <2>1, StepKeepsPrinted
  <2>2. CASE UNCHANGED process
    BY <2>2 DEF process, PrintedInv, PrintedAsFormatted
  <2> QED
    BY <2>1, <2>2 DEF UNext, TickInProcess, TickInKernel, Tick, uvars
<1>3. PrintedInv => PrintedAsFormatted
  BY DEF PrintedInv
<1> QED
  BY <1>1, <1>2, <1>3, CountCorrect, PTL DEF USpec
=============================================================================
