-------------------------------- MODULE User --------------------------------
(***************************************************************************)
(* User processes on top of the scheduler: TestA, TestB and TestC of       *)
(* kernel/main.c print something and wait, for ever.                       *)
(*                                                                         *)
(* milli_delay() of kernel/clock.c waits by asking for the time again and  *)
(* again.  It only gets to ask while it has the CPU, and the time it is    *)
(* told, ticks, is an int that wraps.                                      *)
(***************************************************************************)
EXTENDS Schedule, Library

CONSTANTS
  Delayers,    \* the processes that print and wait; the others do anything
  msg,         \* what each prints; its arguments are the time
  milli_sec,   \* how long each waits
  HZ,          \* ticks in a second: 100
  Second,      \* milliseconds in a second: 1000
  MaxElapsed   \* bound: where the count of the ticks of a delay stops

VARIABLES
  ticks,
  pc,          \* where each process is
  t,           \* milli_delay: the time it began
  text, arg,   \* printf: what was written, and the argument
  ran,         \* the running process has got on since the last tick
  elapsed      \* ticks since each delay began

process == <<pc, t, text, arg>>
uvars == <<vars, ticks, process, ran, elapsed>>

-----------------------------------------------------------------------------
(* Ticks until a delay is over.                                            *)
Needed == [p \in Delayers |-> (milli_sec[p] * HZ + Second - 1) \div Second]

(* The longest that the processes of S may have the CPU for one turn each: *)
(* every quantum, overdrawn as far as it may be, and the tick that ends it.*)
Turns(S) ==
  LET sum[n \in 0 .. NR_TASKS + NR_PROCS] ==
        IF n = 0 THEN 0
        ELSE sum[n - 1] + IF n - 1 \in S THEN priority[n - 1] + MaxDebt + 1 ELSE 0
  IN sum[NR_TASKS + NR_PROCS]

(* The longest that a process may be kept from asking.                     *)
Round == Turns(Proc)

(* The time asked for is short enough for the arithmetic of milli_delay(). *)
ASSUME DelayAssumption ==
  /\ Delayers \subseteq Proc
  /\ HZ \in Nat \ {0} /\ Second \in Nat \ {0}
  /\ milli_sec \in [Delayers -> Nat \ {0}]
  /\ MaxElapsed \in Nat
  /\ \A p \in Delayers : Needed[p] <= MaxElapsed
  /\ MaxElapsed * Second < Half

(* The count of the ticks that pass does not stop too early.               *)
ASSUME CountAssumption == \A p \in Delayers : Needed[p] + Round <= MaxElapsed

(* A message consists of characters, and of Number for the time.  printf() *)
(* cannot show a `%'.                                                      *)
ASSUME MessageAssumption == msg \in [Delayers -> Seq((0 .. 127) \ {PERCENT})]

-----------------------------------------------------------------------------
UInit ==
  /\ Init
  /\ ticks = 0
  /\ pc = [p \in Delayers |-> "printf"]
  /\ t = [p \in Delayers |-> 0]
  /\ text = [p \in Delayers |-> <<>>]
  /\ arg = [p \in Delayers |-> 0]
  /\ ran = FALSE
  /\ elapsed = [p \in Delayers |-> 0]

(* printf("...%x", get_ticks()): vsprintf() into a buffer on the stack and *)
(* one write() of it.                                                      *)
Printf(p) ==
  /\ pc[p] = "printf"
  /\ pc' = [pc EXCEPT ![p] = "milli_delay"]
  /\ arg' = [arg EXCEPT ![p] = ticks]
  /\ text' = [text EXCEPT ![p] =
                vsprintf(Format(msg[p]), [i \in DOMAIN msg[p] |-> ticks])]
  /\ UNCHANGED <<t, elapsed>>

(* int t = get_ticks();                                                    *)
MilliDelay(p) ==
  /\ pc[p] = "milli_delay"
  /\ pc' = [pc EXCEPT ![p] = "while"]
  /\ t' = [t EXCEPT ![p] = ticks]
  /\ elapsed' = [elapsed EXCEPT ![p] = 0]
  /\ text' = [text EXCEPT ![p] = <<>>]
  /\ arg' = [arg EXCEPT ![p] = 0]

(* Deviation: the time it is over, computed in advance.                    *)
WaitingUntil(p) == ticks < AsInt(t[p] + Div(AsInt(milli_sec[p] * HZ), Second))

(* Deviation: until the time is exactly over.                              *)
WaitingFor(p) == Div(AsInt(AsInt(ticks - t[p]) * Second), HZ) # milli_sec[p]

(* ((get_ticks() - t) * 1000 / HZ) < milli_sec                             *)
Waiting(p) == Div(AsInt(AsInt(ticks - t[p]) * Second), HZ) < milli_sec[p]

While(p) ==
  /\ pc[p] = "while"
  /\ IF Waiting(p)
     THEN UNCHANGED <<pc, t, elapsed>>
     ELSE /\ pc' = [pc EXCEPT ![p] = "printf"]
          /\ t' = [t EXCEPT ![p] = 0]
          /\ elapsed' = [elapsed EXCEPT ![p] = 0]
  /\ UNCHANGED <<text, arg>>

(* The running process gets on.                                            *)
Step ==
  /\ p_proc_ready \in Delayers
  /\ Printf(p_proc_ready) \/ MilliDelay(p_proc_ready) \/ While(p_proc_ready)
  /\ ran' = TRUE
  /\ UNCHANGED <<vars, ticks>>

(* clock_handler: ticks++                                                  *)
Tick ==
  /\ ticks' = AsInt(ticks + 1)
  /\ elapsed' = [p \in Delayers |->
       IF pc[p] = "while" /\ elapsed[p] < MaxElapsed THEN elapsed[p] + 1 ELSE elapsed[p]]
  /\ ran' = FALSE
  /\ UNCHANGED process

(* Between two ticks in a process it gets on: a tick is 10 ms, a turn of   *)
(* the loop a few microseconds.                                            *)
TickInProcess == (p_proc_ready \in Delayers => ran) /\ ClockHandler /\ Tick

TickInKernel == ClockHandlerNested /\ Tick

UNext == Step \/ TickInProcess \/ TickInKernel

(* A Step that sets ran.                                                   *)
GetsOn == p_proc_ready \in Delayers /\ ~ran /\ ran' = TRUE

(* The CPU does not stop, nor does the PIT.                                *)
USpec == UInit /\ [][UNext]_uvars /\ WF_ran(GetsOn) /\ WF_uvars(TickInProcess)

-----------------------------------------------------------------------------
(* milli_delay() does not return before its time, whatever the time was    *)
(* when it began, and if ticks has wrapped since.                          *)
DelayLongEnough ==
  [][\A p \in Delayers : pc[p] = "while" /\ pc'[p] = "printf"
       => elapsed[p] * Second >= milli_sec[p] * HZ]_uvars

(* Nor does it wait longer than the scheduler makes it: its time, and one  *)
(* round in which others have the CPU.                                     *)
DelayInTime == \A p \in Delayers : pc[p] = "while" => elapsed[p] < Needed[p] + Round

(* It does return.                                                         *)
DelayReturns == \A p \in Delayers : pc[p] = "while" ~> pc[p] # "while"

(* printf() writes the characters of the format and, for each %x, its      *)
(* argument as an unsigned number without zeros in front.                  *)
PrintedAsFormatted ==
  \A p \in Delayers : pc[p] = "milli_delay" =>
    text[p] = Meant(msg[p], [i \in DOMAIN msg[p] |-> arg[p]])
=============================================================================
