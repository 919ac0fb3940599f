-------------------------------- MODULE Tty ---------------------------------
(***************************************************************************)
(* task_tty of kernel/tty.c: for each console in turn it reads a key, if   *)
(* the console is the current one, and shows a character of the console's  *)
(* input queue.  What the user types in the meantime, console switches     *)
(* included, waits in the keyboard's buffer.                               *)
(*                                                                         *)
(* A key is what keyboard_read() passes on (Keyboard.tla), whole; scroll   *)
(* keys and the characters on the screen are in Console.tla.               *)
(***************************************************************************)
EXTENDS Naturals, Sequences

CONSTANTS
  NR_CONSOLES,
  TTY_IN_BYTES,   \* size of an input queue
  Char,           \* printable characters, FLAG_EXT not set
  MaxKeys         \* bound: keys in the keyboard's buffer

ASSUME TtyAssumption ==
  /\ NR_CONSOLES \in Nat \ {0}
  /\ TTY_IN_BYTES \in Nat \ {0}
  /\ MaxKeys \in Nat
  /\ Char \intersect {"ENTER", "BACKSPACE", "other", "UP", "DOWN", "F"} = {}

Con == 0 .. NR_CONSOLES - 1
Slot == 0 .. TTY_IN_BYTES - 1
Output == Char \union {"newline", "backspace"}

(* Function keys carry their number from 0, and one of them has no         *)
(* console.  "other" is a key in_process() ignores, or a break code, which *)
(* keyboard_read() does not pass on.                                       *)
Keys == [raw : Char, flags : {{}}]
          \union [raw : {"ENTER", "BACKSPACE", "other"}, flags : {{}}]
          \union [raw : {"UP", "DOWN"}, flags : {{"SHIFT_L"}}]
          \union [raw : {"F"}, nr : 0 .. NR_CONSOLES,
                  flags : {{}, {"ALT_L"}}]

VARIABLES
  keys,      \* typed and not read
  pc, p_tty, \* where task_tty is
  in_buf, p_inbuf_head, p_inbuf_tail, inbuf_count,   \* tty_table
  nr_current_console,
  echo       \* what tty_do_write() has shown last: console and character

queues == <<in_buf, p_inbuf_head, p_inbuf_tail, inbuf_count>>
vars == <<keys, pc, p_tty, queues, nr_current_console, echo>>

-----------------------------------------------------------------------------
(* Interrupts are on before init_tty(): keys may be waiting.  The table is *)
(* in bss.                                                                 *)
Init ==
  /\ keys = <<>>
  /\ pc = "init_tty"
  /\ p_tty = 0
  /\ \E ch \in Char : /\ in_buf = [c \in Con |-> [i \in Slot |-> ch]]
                      /\ echo = <<0, ch>>
  /\ p_inbuf_head = [c \in Con |-> TTY_IN_BYTES]
  /\ p_inbuf_tail = [c \in Con |-> TTY_IN_BYTES]
  /\ inbuf_count = [c \in Con |-> 0]
  /\ nr_current_console = 0

Type(k) ==
  /\ Len(keys) < MaxKeys
  /\ keys' = Append(keys, k)
  /\ UNCHANGED <<pc, p_tty, queues, nr_current_console, echo>>

(* init_tty() for each console, then select_console(0).                    *)
InitTty ==
  /\ pc = "init_tty"
  /\ inbuf_count' = [inbuf_count EXCEPT ![p_tty] = 0]
  /\ p_inbuf_head' = [p_inbuf_head EXCEPT ![p_tty] = 0]
  /\ p_inbuf_tail' = [p_inbuf_tail EXCEPT ![p_tty] = 0]
  /\ IF p_tty + 1 \in Con
     THEN p_tty' = p_tty + 1 /\ UNCHANGED <<pc, nr_current_console>>
     ELSE p_tty' = 0 /\ pc' = "tty_do_read" /\ nr_current_console' = 0
  /\ UNCHANGED <<keys, in_buf, echo>>

-----------------------------------------------------------------------------
(* Deviation: the pointer is never set back to the front of the queue.     *)
AdvanceOut(i) == i + 1

Advance(i) == IF i + 1 = TTY_IN_BYTES THEN 0 ELSE i + 1

PutKey(c, ch) ==
  /\ IF inbuf_count[c] < TTY_IN_BYTES
     THEN /\ in_buf' = [in_buf EXCEPT ![c][p_inbuf_head[c]] = ch]
          /\ p_inbuf_head' = [p_inbuf_head EXCEPT ![c] = Advance(@)]
          /\ inbuf_count' = [inbuf_count EXCEPT ![c] = @ + 1]
          /\ UNCHANGED p_inbuf_tail
     ELSE UNCHANGED queues
  /\ UNCHANGED nr_current_console

(* in_process(): characters, Enter and Backspace go to the queue, Alt with *)
(* a function key selects that console if there is one, Shift with an      *)
(* arrow scrolls, anything else does nothing.                              *)
InProcess(c, k) ==
  \/ k.raw \in Char /\ PutKey(c, k.raw)
  \/ k.raw = "ENTER" /\ PutKey(c, "newline")
  \/ k.raw = "BACKSPACE" /\ PutKey(c, "backspace")
  \/ /\ k.raw = "F"
     /\ nr_current_console' = IF k.flags # {} /\ k.nr \in Con THEN k.nr
                              ELSE nr_current_console
     /\ UNCHANGED queues
  \/ /\ k.raw \in {"UP", "DOWN", "other"}
     /\ UNCHANGED <<queues, nr_current_console>>

(* Deviation: every console reads.                                         *)
TtyDoReadAny ==
  /\ pc = "tty_do_read"
  /\ pc' = "tty_do_write"
  /\ IF keys # <<>>
     THEN InProcess(p_tty, Head(keys)) /\ keys' = Tail(keys)
     ELSE UNCHANGED <<keys, queues, nr_current_console>>
  /\ UNCHANGED <<p_tty, echo>>

(* tty_do_read(): one key, if p_tty is current and there is one.           *)
TtyDoRead ==
  /\ pc = "tty_do_read"
  /\ pc' = "tty_do_write"
  /\ IF p_tty = nr_current_console /\ keys # <<>>
     THEN InProcess(p_tty, Head(keys)) /\ keys' = Tail(keys)
     ELSE UNCHANGED <<keys, queues, nr_current_console>>
  /\ UNCHANGED <<p_tty, echo>>

(* Deviations: the last console is never left; a single character waits.   *)
NextTtyStays(p) == IF p + 1 \in Con THEN p + 1 ELSE p

HasOutputLate(c) == inbuf_count[c] > 1

NextTty(p) == IF p + 1 \in Con THEN p + 1 ELSE 0

HasOutput(c) == inbuf_count[c] # 0

(* tty_do_write(): one character of its queue, whether or not p_tty is     *)
(* still the current console.                                              *)
TtyDoWrite ==
  /\ pc = "tty_do_write"
  /\ pc' = "tty_do_read"
  /\ p_tty' = NextTty(p_tty)
  /\ IF HasOutput(p_tty)
     THEN /\ echo' = <<p_tty, in_buf[p_tty][p_inbuf_tail[p_tty]]>>
          /\ p_inbuf_tail' = [p_inbuf_tail EXCEPT ![p_tty] = Advance(@)]
          /\ inbuf_count' = [inbuf_count EXCEPT ![p_tty] = @ - 1]
          /\ UNCHANGED <<in_buf, p_inbuf_head>>
     ELSE UNCHANGED <<queues, echo>>
  /\ UNCHANGED <<keys, nr_current_console>>

TaskTty == InitTty \/ TtyDoRead \/ TtyDoWrite

Next == (\E k \in Keys : Type(k)) \/ TaskTty

Spec == Init /\ [][Next]_vars

(* task_tty gets the CPU again and again (NobodyStarves of Interrupt.tla). *)
FairSpec == Spec /\ WF_vars(TaskTty)

-----------------------------------------------------------------------------
(* Types; the pointers are in the queue once it is initialised.            *)
TypeOK ==
  /\ keys \in Seq(Keys)
  /\ pc \in {"init_tty", "tty_do_read", "tty_do_write"}
  /\ p_tty \in Con
  /\ in_buf \in [Con -> [Slot -> Output]]
  /\ {p_inbuf_head, p_inbuf_tail} \subseteq [Con -> 0 .. TTY_IN_BYTES]
  /\ pc # "init_tty" =>
       {p_inbuf_head, p_inbuf_tail} \subseteq [Con -> Slot]
  /\ inbuf_count \in [Con -> 0 .. TTY_IN_BYTES]
  /\ nr_current_console \in Con
  /\ echo \in Con \X Output

(* An input queue holds one character at most, and only between the read   *)
(* and the write of its console: put_key() never finds it full, however    *)
(* fast the user types, and nothing waits in a console that was left.      *)
QueueShort ==
  \A c \in Con :
    inbuf_count[c] > 0 =>
      inbuf_count[c] = 1 /\ c = p_tty /\ pc = "tty_do_write"

-----------------------------------------------------------------------------
Queued(c) ==
  [n \in 1 .. inbuf_count[c] |->
     <<c, in_buf[c][(p_inbuf_tail[c] + n - 1) % TTY_IN_BYTES]>>]

(* What a key shows when it is typed while console c is selected, and the  *)
(* console that is selected after it.                                      *)
Shows(c, k) ==
  IF k.raw \in Char THEN << <<c, k.raw>> >>
  ELSE IF k.raw = "ENTER" THEN << <<c, "newline">> >>
  ELSE IF k.raw = "BACKSPACE" THEN << <<c, "backspace">> >>
  ELSE <<>>

Selects(c, k) ==
  IF k.raw = "F" /\ k.flags # {} /\ k.nr \in Con THEN k.nr ELSE c

(* What keys show, and where, that are read while console c is selected:   *)
(* each key counts for the console that the keys before it select.         *)
Typed(c, ks) ==
  LET con[n \in 0 .. Len(ks)] ==
        IF n = 0 THEN c ELSE Selects(con[n - 1], ks[n])
      out[n \in 0 .. Len(ks)] ==
        IF n = 0 THEN <<>> ELSE out[n - 1] \o Shows(con[n - 1], ks[n])
  IN out[Len(ks)]

(* The characters in the queues, console by console.                       *)
AllQueued ==
  LET queued[c \in 0 .. NR_CONSOLES] ==
        IF c = 0 THEN <<>> ELSE queued[c - 1] \o Queued(c - 1)
  IN queued[NR_CONSOLES]

(* What is still to be shown.                                              *)
Pending == AllQueued \o Typed(nr_current_console, keys)

Q == INSTANCE ByteQueue WITH
       Byte <- Con \X Output, Capacity <- MaxKeys + 1, q <- Pending,
       out <- echo

(* Every character typed is shown once, in the order of typing, on the     *)
(* console that was selected when it was typed, though keys, queues and    *)
(* switches are handled at different times for different consoles.         *)
EchoedAsTyped == Q!Spec

(* Every key is read.                                                      *)
KeysRead == Len(keys) = MaxKeys ~> Len(keys) < MaxKeys
=============================================================================
