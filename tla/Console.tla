------------------------------ MODULE Console -------------------------------
(***************************************************************************)
(* The consoles: init_screen(), out_char(), scroll_screen(),               *)
(* select_console() and the writes to the CRTC, of kernel/console.c, with  *)
(* the two kinds of callers they have.                                     *)
(*                                                                         *)
(*   "tty"   task_tty, which echoes keys, scrolls and selects; a process   *)
(*           that may lose the CPU between any two memory accesses, unless *)
(*           it has interrupts off.                                        *)
(*   "user"  a process in sys_write(): the kernel is not preemptive, so    *)
(*           task_tty does not run before the call has returned.           *)
(*                                                                         *)
(* Nothing else keeps the two apart.                                       *)
(***************************************************************************)
EXTENDS Integers

CONSTANTS
  NR_CONSOLES,
  SCR_WIDTH, SCR_SIZE,   \* characters in a line, and on the screen
  v_mem_limit,           \* characters of video memory of each console
  boot_cursor,           \* disp_pos / 2: where the messages of the boot end
  UserChars,             \* what user processes write
  UsedCons               \* bound: consoles in use once all are initialised

ASSUME ConsoleAssumption ==
  /\ {NR_CONSOLES, SCR_WIDTH} \subseteq Nat \ {0}
  /\ SCR_SIZE \in Nat /\ SCR_SIZE >= 3 * SCR_WIDTH
  /\ v_mem_limit \in Nat /\ v_mem_limit > SCR_SIZE
  /\ boot_cursor \in 0 .. SCR_SIZE - 1
  /\ UserChars \subseteq {"newline", "other"}
  /\ UsedCons \subseteq 0 .. NR_CONSOLES - 1

Con == 0 .. NR_CONSOLES - 1
Actor == {"tty", "user"}
Chars == {"newline", "backspace", "other"}
Reg == {"cursor", "start"}

original_addr(c) == c * v_mem_limit
EndAddr(c) == original_addr(c) + v_mem_limit

VARIABLES
  cursor, current_start_addr,   \* console_table
  ready,        \* consoles that init_screen() has set up, the first ones
  tty_pc,       \* how far task_tty is with that
  nr_current_console,
  crtc,   \* the registers of the CRTC: whose the high and the low byte are
  eflags_if,
  loc     \* where each actor is, with its locals

console == <<cursor, current_start_addr>>
task == <<ready, tty_pc, nr_current_console>>
vars == <<console, task, crtc, eflags_if, loc>>

Idle == [pc |-> "idle", con |-> 0, ch |-> "other", p_vmem |-> 0, tmp |-> 0,
         reg |-> "cursor", next |-> "idle"]

-----------------------------------------------------------------------------
(* task_tty comes to the loop that initialises its consoles.               *)
Init ==
  /\ cursor = [c \in Con |-> 0]
  /\ current_start_addr = [c \in Con |-> 0]
  /\ ready = 0
  /\ tty_pc = "init_screen"
  /\ nr_current_console = 0
  /\ crtc = [r \in Reg |-> [high |-> "tty", low |-> "tty"]]
  /\ eflags_if = TRUE
  /\ loc = [a \in Actor |-> Idle]

(* a executes its next instruction, at pc.                                 *)
At(a, pc) ==
  /\ loc[a].pc = pc
  /\ a = "tty" => loc["user"].pc = "idle"

Goto(a, pc) == loc' = [loc EXCEPT ![a].pc = pc]

(* Calls set_cursor() or set_video_start_addr(), and goes on at next.      *)
SetReg(a, reg, next) ==
  loc' = [loc EXCEPT ![a].pc = "disable_int", ![a].reg = reg, ![a].next = next]

Return(a, to) ==
  loc' = [loc EXCEPT ![a] = IF to = "idle" THEN Idle ELSE [@ EXCEPT !.pc = to]]

-----------------------------------------------------------------------------
(* out_char() is called.                                                   *)
OutChar(a, c, ch) ==
  /\ At(a, "idle")
  /\ loc' = [loc EXCEPT ![a].pc = "p_vmem", ![a].con = c, ![a].ch = ch]

(* select_console(): the cursor and the start of console c are shown.      *)
Select(c) ==
  /\ At("tty", "idle")
  /\ nr_current_console' = c
  /\ loc' = [loc EXCEPT !["tty"].pc = "flush", !["tty"].con = c]

(* init_screen(): the first console takes over the cursor of the boot, the *)
(* others have their number and a '#' written to them.                     *)
InitScreen ==
  /\ tty_pc = "init_screen" /\ At("tty", "idle")
  /\ cursor' = [cursor EXCEPT ![ready] =
                  IF ready = 0 THEN boot_cursor ELSE original_addr(ready)]
  /\ current_start_addr' =
       [current_start_addr EXCEPT ![ready] = original_addr(ready)]
  /\ ready' = ready + 1
  /\ tty_pc' = IF ready = 0 THEN "set_cursor" ELSE "digit"
  /\ UNCHANGED <<nr_current_console, crtc, eflags_if, loc>>

InitChar ==
  /\ tty_pc \in {"digit", "hash"}
  /\ OutChar("tty", ready - 1, "other")
  /\ tty_pc' = IF tty_pc = "digit" THEN "hash" ELSE "set_cursor"
  /\ UNCHANGED <<console, ready, nr_current_console, crtc, eflags_if>>

InitCursor ==
  /\ tty_pc = "set_cursor" /\ At("tty", "idle")
  /\ SetReg("tty", "cursor", "idle")
  /\ tty_pc' = IF ready < NR_CONSOLES THEN "init_screen" ELSE "select"
  /\ UNCHANGED <<console, ready, nr_current_console, crtc, eflags_if>>

InitSelect ==
  /\ tty_pc = "select"
  /\ Select(0)
  /\ tty_pc' = "loop"
  /\ UNCHANGED <<console, ready, crtc, eflags_if>>

(* What task_tty calls in its loop: out_char() from tty_do_write(), behind *)
(* the tty_do_read() of the same console, which was the current one, and   *)
(* scroll_screen() and select_console() from in_process().                 *)
Echo(ch) ==
  /\ tty_pc = "loop" /\ nr_current_console \in UsedCons
  /\ OutChar("tty", nr_current_console, ch)
  /\ UNCHANGED <<console, task, crtc, eflags_if>>

ScrollScreen(dir) ==
  /\ tty_pc = "loop" /\ nr_current_console \in UsedCons
  /\ At("tty", "idle")
  /\ loc' = [loc EXCEPT !["tty"].pc = dir, !["tty"].con = nr_current_console,
                        !["tty"].next = "idle"]
  /\ UNCHANGED <<console, task, crtc, eflags_if>>

SelectConsole(c) ==
  /\ tty_pc = "loop"
  /\ Select(c)
  /\ UNCHANGED <<console, ready, tty_pc, crtc, eflags_if>>

(* sys_write() can only begin where task_tty can be preempted; and not     *)
(* before p_console is set, as the first quantum of task_tty sees to.      *)
SysWrite(c, ch) ==
  /\ eflags_if /\ c < ready
  /\ OutChar("user", c, ch)
  /\ UNCHANGED <<console, task, crtc, eflags_if>>

-----------------------------------------------------------------------------
(* out_char(), one access to the console at a time.                        *)
PVmem(a) ==
  /\ At(a, "p_vmem")
  /\ loc' = [loc EXCEPT ![a].p_vmem = cursor[loc[a].con], ![a].pc = "switch"]
  /\ UNCHANGED console

(* Deviation: the test of a character is off by one.                       *)
HasRoomOffByOne(c, ch) ==
  CASE ch = "newline" -> cursor[c] < EndAddr(c) - SCR_WIDTH
    [] ch = "backspace" -> cursor[c] > original_addr(c)
    [] OTHER -> cursor[c] <= EndAddr(c)

(* The room that each character needs.                                     *)
HasRoom(c, ch) ==
  CASE ch = "newline" -> cursor[c] < EndAddr(c) - SCR_WIDTH
    [] ch = "backspace" -> cursor[c] > original_addr(c)
    [] OTHER -> cursor[c] < EndAddr(c) - 1

Switch(a) ==
  /\ At(a, "switch")
  /\ Goto(a, IF ~HasRoom(loc[a].con, loc[a].ch) THEN "while"
             ELSE IF loc[a].ch = "other" THEN "store_char" ELSE "load")
  /\ UNCHANGED console

StoreChar(a) ==
  /\ At(a, "store_char")
  /\ Goto(a, "load")
  /\ UNCHANGED console

(* The new cursor is computed from a load of the old one and then stored.  *)
LoadCursor(a) ==
  /\ At(a, "load")
  /\ loc' = [loc EXCEPT ![a].tmp = cursor[loc[a].con], ![a].pc = "store"]
  /\ UNCHANGED console

NewCursor(c, ch, old) ==
  CASE ch = "newline" -> original_addr(c)
                    + SCR_WIDTH * ((old - original_addr(c)) \div SCR_WIDTH + 1)
    [] ch = "backspace" -> old - 1
    [] OTHER -> old + 1

StoreCursor(a) ==
  LET c == loc[a].con IN
  /\ At(a, "store")
  /\ cursor' = [cursor EXCEPT ![c] = NewCursor(c, loc[a].ch, loc[a].tmp)]
  /\ Goto(a, IF loc[a].ch = "backspace" THEN "store_blank" ELSE "while")
  /\ UNCHANGED current_start_addr

StoreBlank(a) ==
  /\ At(a, "store_blank")
  /\ Goto(a, "while")
  /\ UNCHANGED console

(* The window follows the cursor: the loop reads the one, then the other.  *)
While(a) ==
  /\ At(a, "while")
  /\ loc' = [loc EXCEPT ![a].tmp = cursor[loc[a].con], ![a].pc = "while_start"]
  /\ UNCHANGED console

WhileStart(a) ==
  /\ At(a, "while_start")
  /\ IF loc[a].tmp >= current_start_addr[loc[a].con] + SCR_SIZE
     THEN loc' = [loc EXCEPT ![a].pc = "scroll_dn", ![a].next = "while"]
     ELSE Goto(a, "flush")
  /\ UNCHANGED console

-----------------------------------------------------------------------------
(* Deviation: scrolling down has no end.                                   *)
ScrollTestForever(a) ==
  LET c == loc[a].con
      start == current_start_addr[c] IN
  /\ \/ /\ At(a, "scroll_up")
        /\ Goto(a, IF start > original_addr(c) THEN "load_up" ELSE "scrolled")
     \/ At(a, "scroll_dn") /\ Goto(a, "load_dn")
  /\ UNCHANGED console

(* Deviation: the window is to stay inside the console as a whole.         *)
ScrollTestWhole(a) ==
  LET c == loc[a].con
      start == current_start_addr[c] IN
  /\ \/ /\ At(a, "scroll_up")
        /\ Goto(a, IF start > original_addr(c) THEN "load_up" ELSE "scrolled")
     \/ /\ At(a, "scroll_dn")
        /\ Goto(a, IF start + SCR_WIDTH + SCR_SIZE <= EndAddr(c) THEN "load_dn"
                   ELSE "scrolled")
  /\ UNCHANGED console

(* scroll_screen(): test, then a load and a store; and show the result.    *)
ScrollTest(a) ==
  LET c == loc[a].con
      start == current_start_addr[c] IN
  /\ \/ /\ At(a, "scroll_up")
        /\ Goto(a, IF start > original_addr(c) THEN "load_up" ELSE "scrolled")
     \/ /\ At(a, "scroll_dn")
        /\ Goto(a, IF start + SCR_WIDTH < EndAddr(c) THEN "load_dn"
                   ELSE "scrolled")
  /\ UNCHANGED console

ScrollLoad(a) ==
  LET Load(pc) == loc' = [loc EXCEPT ![a].tmp = current_start_addr[loc[a].con],
                                     ![a].pc = pc]
  IN /\ \/ At(a, "load_up") /\ Load("store_up")
        \/ At(a, "load_dn") /\ Load("store_dn")
     /\ UNCHANGED console

ScrollStore(a) ==
  LET Store(start) ==
        current_start_addr' = [current_start_addr EXCEPT ![loc[a].con] = start]
  IN /\ \/ At(a, "store_up") /\ Store(loc[a].tmp - SCR_WIDTH)
        \/ At(a, "store_dn") /\ Store(loc[a].tmp + SCR_WIDTH)
     /\ Goto(a, "scrolled")
     /\ UNCHANGED cursor

(* The order of the two calls differs: scroll_screen() writes the start    *)
(* first, flush() and select_console() write the cursor first.             *)
Show(a) ==
  /\ \/ /\ At(a, "scrolled")
        /\ SetReg(a, "start", IF loc[a].next = "while" THEN "cursor_while"
                              ELSE "cursor_idle")
     \/ At(a, "cursor_while") /\ SetReg(a, "cursor", "while")
     \/ At(a, "cursor_idle") /\ SetReg(a, "cursor", "idle")
     \/ At(a, "flush") /\ SetReg(a, "cursor", "start_idle")
     \/ At(a, "start_idle") /\ SetReg(a, "start", "idle")
  /\ UNCHANGED console

Memory(a) ==
  /\ \/ PVmem(a) \/ Switch(a) \/ StoreChar(a) \/ LoadCursor(a)
     \/ StoreCursor(a) \/ StoreBlank(a) \/ While(a) \/ WhileStart(a)
     \/ ScrollTest(a) \/ ScrollLoad(a) \/ ScrollStore(a) \/ Show(a)
  /\ UNCHANGED <<task, crtc, eflags_if>>

-----------------------------------------------------------------------------
(* set_cursor() and set_video_start_addr().  The deviation leaves          *)
(* interrupts on.                                                          *)
NoDisableInt(a) ==
  /\ At(a, "disable_int")
  /\ Goto(a, "high")
  /\ UNCHANGED <<crtc, eflags_if>>

DisableInt(a) ==
  /\ At(a, "disable_int")
  /\ eflags_if' = FALSE
  /\ Goto(a, "high")
  /\ UNCHANGED crtc

OutHigh(a) ==
  /\ At(a, "high")
  /\ crtc' = [crtc EXCEPT ![loc[a].reg].high = a]
  /\ Goto(a, "low")
  /\ UNCHANGED eflags_if

OutLow(a) ==
  /\ At(a, "low")
  /\ crtc' = [crtc EXCEPT ![loc[a].reg].low = a]
  /\ Goto(a, "enable_int")
  /\ UNCHANGED eflags_if

EnableInt(a) ==
  /\ At(a, "enable_int")
  /\ eflags_if' = TRUE
  /\ Return(a, loc[a].next)
  /\ UNCHANGED crtc

Port(a) ==
  /\ DisableInt(a) \/ OutHigh(a) \/ OutLow(a) \/ EnableInt(a)
  /\ UNCHANGED <<console, task>>

-----------------------------------------------------------------------------
Step(a) == Memory(a) \/ Port(a)

InitTty == InitScreen \/ InitChar \/ InitCursor \/ InitSelect

Next ==
  \/ \E a \in Actor : Step(a)
  \/ InitTty
  \/ \E c \in UsedCons, ch \in UserChars : SysWrite(c, ch)
  \/ \E ch \in Chars : Echo(ch)
  \/ \E dir \in {"scroll_up", "scroll_dn"} : ScrollScreen(dir)
  \/ \E c \in UsedCons : SelectConsole(c)

Spec == Init /\ [][Next]_vars

(* A system call runs to its end; task_tty gets the CPU again and again.   *)
FairSpec == Spec /\ WF_vars(Step("user")) /\ SF_vars(Step("tty"))

-----------------------------------------------------------------------------
(* However the two callers interleave, the cursor does not leave its       *)
(* console by more than the rest of a line, and the window shown starts    *)
(* at a line of its own console.                                           *)
WindowInv ==
  \A c \in 0 .. ready - 1 :
    /\ cursor[c] >= original_addr(c)
    /\ cursor[c] < EndAddr(c) + SCR_WIDTH
    /\ current_start_addr[c] \in original_addr(c) .. EndAddr(c) - 1
    /\ (current_start_addr[c] - original_addr(c)) % SCR_WIDTH = 0

(* A character other than a backspace is never stored into another         *)
(* console's video memory.                                                 *)
CharsStayInside ==
  \A a \in Actor :
    loc[a].pc = "store_char" =>
      loc[a].p_vmem \in original_addr(loc[a].con) .. EndAddr(loc[a].con) - 1

(* Between two calls the CRTC holds a position that somebody has written   *)
(* as a whole, never the high byte of one and the low byte of another.     *)
CrtcInv ==
  (\A a \in Actor : loc[a].pc \notin {"high", "low", "enable_int"})
    => \A r \in Reg : crtc[r].high = crtc[r].low

(* The loop that scrolls until the cursor is visible ends, and so does     *)
(* every call: no cursor a race can produce makes it run forever.          *)
CallsReturn == \A a \in Actor : loc[a].pc # "idle" ~> loc[a].pc = "idle"

(* include/console.h: original_addr is where the current console's video   *)
(* memory is and v_mem_limit how much the current console has.             *)
StoresInside ==
  \A a \in Actor :
    loc[a].pc = "store_blank" =>
      loc[a].p_vmem - 1 \in original_addr(loc[a].con) .. EndAddr(loc[a].con) - 1
=============================================================================
