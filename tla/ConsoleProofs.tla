---------------------------- MODULE ConsoleProofs ----------------------------
(***************************************************************************)
(* Proofs about Console.tla, for any number of consoles, any screen of at  *)
(* least three lines and any console larger than it: wherever a write()    *)
(* preempts task_tty, cursor, window and characters stay in place, and the *)
(* CRTC holds whole positions.                                             *)
(***************************************************************************)
EXTENDS Console, TLAPS

(* The part of set_cursor() and set_video_start_addr() with IF off.        *)
Section == {"high", "low", "enable_int"}

(* Where out_char() has found room, and what it has to do before it looks  *)
(* at the cursor again.                                                    *)
Advancing == {"store_char", "load", "store"}

(* Where set_cursor() and set_video_start_addr() are called.               *)
After == {"while", "idle", "cursor_while", "cursor_idle", "start_idle"}

Pcs == {"idle", "p_vmem", "switch", "while", "while_start", "scroll_up", "scroll_dn",
        "load_up", "load_dn", "store_up", "store_dn", "scrolled", "cursor_while",
        "cursor_idle", "flush", "start_idle", "store_blank", "disable_int"}
         \union Section \union Advancing

Local == [pc : Pcs, con : Con, ch : Chars, p_vmem : Int, tmp : Int, reg : Reg,
          next : Pcs]

TypeInv ==
  /\ cursor \in [Con -> Int]
  /\ current_start_addr \in [Con -> Int]
  /\ ready \in 0 .. NR_CONSOLES
  /\ tty_pc \in {"init_screen", "digit", "hash", "set_cursor", "select", "loop"}
  /\ nr_current_console \in Con
  /\ crtc \in [Reg -> [high : Actor, low : Actor]]
  /\ eflags_if \in BOOLEAN
  /\ loc \in [Actor -> Local]

(* How far task_tty is with the consoles.                                  *)
ReadyInv ==
  /\ tty_pc = "init_screen" => ready < NR_CONSOLES
  /\ tty_pc \in {"digit", "hash", "set_cursor"} => ready > 0
  /\ tty_pc \in {"select", "loop"} => ready = NR_CONSOLES
  /\ \A a \in Actor : IF loc[a].pc = "idle" THEN loc[a].con = 0
                       ELSE loc[a].con < ready

(* x is where a line of console c begins.                                  *)
OnLine(c, x) == \E k \in Nat : x = original_addr(c) + k * SCR_WIDTH

ConInv(c) ==
  /\ original_addr(c) <= cursor[c] /\ cursor[c] < EndAddr(c) + SCR_WIDTH
  /\ original_addr(c) <= current_start_addr[c]
  /\ current_start_addr[c] < EndAddr(c)
  /\ OnLine(c, current_start_addr[c])

(* What task_tty can rely on: the test it has made may be stale, but a     *)
(* write() does not move the cursor of its console back, nor, once it is   *)
(* past the last cell, forth; and it scrolls no further than the cursor    *)
(* needs, which leaves room for another line.                              *)
TtyOk(l) ==
  LET c == l.con
  IN /\ l.pc = "switch" =>
          original_addr(c) <= l.p_vmem /\ l.p_vmem <= cursor[c]
     /\ l.pc = "store_char" =>
          original_addr(c) <= l.p_vmem /\ l.p_vmem < EndAddr(c)
     /\ l.pc \in Advancing /\ l.ch # "backspace" => cursor[c] < EndAddr(c)
     /\ l.pc \in Advancing /\ l.ch = "backspace" => cursor[c] > original_addr(c)
     /\ l.pc = "store" =>
          /\ original_addr(c) <= l.tmp /\ l.tmp < EndAddr(c) + SCR_WIDTH
          /\ l.ch # "backspace" => l.tmp < EndAddr(c)
          /\ l.ch = "backspace" => l.tmp > original_addr(c)
     /\ l.pc = "load_up" => current_start_addr[c] > original_addr(c)
     /\ l.pc = "load_dn" => current_start_addr[c] + SCR_WIDTH < EndAddr(c)
     /\ l.pc \in {"store_up", "store_dn"} => OnLine(c, l.tmp)
     /\ l.pc = "store_up" => l.tmp > original_addr(c) /\ l.tmp < EndAddr(c)
     /\ l.pc = "store_dn" =>
          original_addr(c) <= l.tmp /\ l.tmp + SCR_WIDTH < EndAddr(c)
     /\ l.pc \in {"disable_int", "high", "low", "enable_int"} => l.next \in After

(* A write() is not preempted by task_tty: what it has read is so.         *)
UserOk(l) ==
  LET c == l.con
  IN /\ l.ch \in {"newline", "other"}
     /\ l.pc \notin {"scroll_up", "load_up", "store_up", "store_blank"}
     /\ l.pc \in {"switch", "store_char"} => l.p_vmem = cursor[c]
     /\ l.pc \in Advancing => cursor[c] < EndAddr(c) - 1
     /\ l.pc \in Advancing /\ l.ch = "newline" => cursor[c] < EndAddr(c) - SCR_WIDTH
     /\ l.pc = "store_char" => l.ch = "other"
     /\ l.pc \in {"store", "while_start"} => l.tmp = cursor[c]
     /\ l.pc \in {"scroll_dn", "load_dn", "store_dn"} =>
          cursor[c] >= current_start_addr[c] + SCR_SIZE
     /\ l.pc \in {"load_dn", "store_dn"} =>
          current_start_addr[c] + SCR_WIDTH < EndAddr(c)
     /\ l.pc = "store_dn" => l.tmp = current_start_addr[c]
     /\ l.pc \in {"disable_int", "high", "low", "enable_int"} => l.next \in After

(* Who has interrupts off, and what the CRTC holds meanwhile.              *)
CrtcOk ==
  /\ loc["tty"].pc \in Section => loc["user"].pc = "idle" /\ ~eflags_if
  /\ \A a \in Actor : loc[a].pc = "low" => crtc[loc[a].reg].high = a
  /\ \A r \in Reg :
       \/ crtc[r].high = crtc[r].low
       \/ \E a \in Actor : loc[a].pc = "low" /\ loc[a].reg = r

IInv ==
  /\ TypeInv
  /\ ReadyInv
  /\ \A c \in Con : c < ready => ConInv(c)
  /\ TtyOk(loc["tty"])
  /\ UserOk(loc["user"])
  /\ CrtcOk

-----------------------------------------------------------------------------
LEMMA Geometry ==
  /\ NR_CONSOLES \in Nat /\ NR_CONSOLES > 0 /\ 0 \in Con
  /\ SCR_WIDTH \in Nat /\ SCR_WIDTH > 0
  /\ SCR_SIZE \in Nat /\ SCR_SIZE >= SCR_WIDTH + SCR_WIDTH + SCR_WIDTH
  /\ v_mem_limit \in Nat /\ v_mem_limit > SCR_SIZE
  /\ boot_cursor \in 0 .. SCR_SIZE - 1
  /\ \A c \in Con : /\ c \in Nat /\ original_addr(c) \in Nat
                    /\ EndAddr(c) = original_addr(c) + v_mem_limit
                    /\ EndAddr(c) \in Nat
  /\ original_addr(0) = 0
<1>1. /\ NR_CONSOLES \in Nat /\ NR_CONSOLES > 0 /\ 0 \in Con
      /\ SCR_WIDTH \in Nat /\ SCR_WIDTH > 0
      /\ SCR_SIZE \in Nat
      /\ v_mem_limit \in Nat /\ v_mem_limit > SCR_SIZE
      /\ boot_cursor \in 0 .. SCR_SIZE - 1
  BY ConsoleAssumption DEF Con
<1>2. SCR_SIZE >= SCR_WIDTH + SCR_WIDTH + SCR_WIDTH
  BY <1>1, ConsoleAssumption
<1>3. ASSUME NEW c \in Con
      PROVE  /\ c \in Nat /\ original_addr(c) \in Nat
             /\ EndAddr(c) = original_addr(c) + v_mem_limit
             /\ EndAddr(c) \in Nat
  <2>1. c \in Nat
    BY <1>1 DEF Con
  <2>2. c * v_mem_limit \in Nat
    BY <2>1, <1>1
  <2> QED
    BY <2>1, <2>2, <1>1 DEF original_addr, EndAddr
<1>4. original_addr(0) = 0
  BY <1>1 DEF original_addr
<1> QED
  BY <1>1, <1>2, <1>3, <1>4

(* Lines begin at the console's first cell and every SCR_WIDTH cells.      *)
LEMMA Lines ==
  ASSUME NEW c \in Con, NEW x \in Int
  PROVE  /\ OnLine(c, original_addr(c))
         /\ OnLine(c, x) => /\ original_addr(c) <= x
                            /\ OnLine(c, x + SCR_WIDTH)
                            /\ (x - original_addr(c)) % SCR_WIDTH = 0
         /\ OnLine(c, x) /\ x > original_addr(c) =>
              OnLine(c, x - SCR_WIDTH) /\ x - SCR_WIDTH >= original_addr(c)
<1> DEFINE O == original_addr(c)
           W == SCR_WIDTH
<1>1. O \in Nat /\ W \in Nat /\ W > 0
  BY Geometry
<1>2. OnLine(c, O)
  <2>1. O = O + 0 * W
    BY <1>1
  <2> QED
    BY <2>1 DEF OnLine
<1>3. ASSUME OnLine(c, x)
      PROVE  O <= x /\ OnLine(c, x + W) /\ (x - O) % W = 0
  <2>1. PICK k \in Nat : x = O + k * W
    BY <1>3 DEF OnLine
  <2>2. k * W \in Nat /\ (k + 1) * W = k * W + W
    BY <1>1
  <2>3. x + W = O + (k + 1) * W /\ k + 1 \in Nat
    BY <1>1, <2>1, <2>2
  <2>4. (k * W) % W = 0
    BY <1>1, SMTT(30)
  <2> HIDE DEF O, W
  <2>5. x - O = k * W
    BY <1>1, <2>1, <2>2
  <2>6. (x - O) % W = 0
    BY <2>4, <2>5, Zenon
  <2>7. O <= x
    BY <1>1, <2>1, <2>2
  <2>8. OnLine(c, x + W)
    BY <2>3 DEF OnLine, O, W
  <2> QED
    BY <2>6, <2>7, <2>8
<1>4. ASSUME OnLine(c, x), x > O
      PROVE  OnLine(c, x - W) /\ x - W >= O
  <2>1. PICK k \in Nat : x = O + k * W
    BY <1>4 DEF OnLine
  <2>2. k # 0
    BY <1>1, <1>4, <2>1
  <2>3. k - 1 \in Nat /\ k * W = (k - 1) * W + W /\ (k - 1) * W \in Nat
    BY <1>1, <2>2
  <2> HIDE DEF O, W
  <2>4. x - W = O + (k - 1) * W /\ x - W >= O
    BY <1>1, <2>1, <2>3
  <2> QED
    BY <2>3, <2>4 DEF OnLine, O, W
<1> QED
  BY <1>2, <1>3, <1>4

-----------------------------------------------------------------------------
(* One actor moves to l.                                                   *)
LEMMA LocStep ==
  ASSUME TypeInv, NEW a \in Actor, NEW l \in Local, loc' = [loc EXCEPT ![a] = l]
  PROVE  /\ loc' \in [Actor -> Local] /\ loc'[a] = l
         /\ \A b \in Actor : b # a => loc'[b] = loc[b]
BY DEF TypeInv

(* The fields of a local state one by one.                                 *)
LEMMA LocalFields ==
  ASSUME TypeInv, NEW a \in Actor
  PROVE  /\ loc[a] \in Local /\ loc[a].pc \in Pcs /\ loc[a].con \in Con
         /\ loc[a].ch \in Chars /\ loc[a].p_vmem \in Int /\ loc[a].tmp \in Int
         /\ loc[a].reg \in Reg /\ loc[a].next \in Pcs
BY DEF TypeInv, Local

(* A step that leaves console_table alone, outside the CRTC's section.     *)
LEMMA QuietStep ==
  ASSUME IInv, NEW a \in Actor, NEW l \in Local, loc' = [loc EXCEPT ![a] = l],
         a = "tty" => loc["user"].pc = "idle",
         IF l.pc = "idle" THEN l.con = 0 ELSE l.con < ready,
         IF a = "tty" THEN TtyOk(l) ELSE UserOk(l),
         loc[a].pc \notin Section, l.pc \notin Section,
         a = "user" /\ loc["user"].pc = "idle" => eflags_if,
         UNCHANGED <<console, ready, crtc, eflags_if>>,
         nr_current_console' \in Con,
         \/ tty_pc' = tty_pc
         \/ tty_pc = "digit" /\ tty_pc' = "hash"
         \/ tty_pc = "hash" /\ tty_pc' = "set_cursor"
         \/ tty_pc = "set_cursor" /\ tty_pc' = "init_screen" /\ ready < NR_CONSOLES
         \/ tty_pc = "set_cursor" /\ tty_pc' = "select" /\ ready >= NR_CONSOLES
         \/ tty_pc = "select" /\ tty_pc' = "loop"
  PROVE  IInv'
<1>1. /\ loc' \in [Actor -> Local] /\ loc'[a] = l
      /\ \A b \in Actor : b # a => loc'[b] = loc[b]
  BY LocStep DEF IInv
<1>2. UNCHANGED <<cursor, current_start_addr>>
  BY DEF console
<1>3. ready \in 0 .. NR_CONSOLES /\ NR_CONSOLES \in Nat
  BY Geometry DEF IInv, TypeInv
<1>4. TypeInv'
  BY <1>1, <1>2 DEF IInv, TypeInv
<1>5. ReadyInv'
  BY <1>1, <1>3 DEF IInv, ReadyInv
<1>6. (\A c \in Con : c < ready => ConInv(c))'
  BY <1>2 DEF IInv, ConInv
<1>7. TtyOk(loc["tty"])'
  BY <1>1, <1>2 DEF IInv, TtyOk, Actor
<1>8. UserOk(loc["user"])'
  BY <1>1, <1>2 DEF IInv, UserOk, Actor
<1>9. CrtcOk'
  <2>1. /\ loc["tty"].pc \in Section => loc["user"].pc = "idle" /\ ~eflags_if
        /\ \A b \in Actor : loc[b].pc = "low" => crtc[loc[b].reg].high = b
        /\ \A r \in Reg :
             \/ crtc[r].high = crtc[r].low
             \/ \E b \in Actor : loc[b].pc = "low" /\ loc[b].reg = r
    BY DEF IInv, CrtcOk
  <2>2. loc[a].pc # "low" /\ l.pc # "low"
    BY DEF Section
  <2>3. (loc["tty"].pc \in Section => loc["user"].pc = "idle" /\ ~eflags_if)'
    BY <2>1, <1>1 DEF Actor
  <2>4. (\A b \in Actor : loc[b].pc = "low" => crtc[loc[b].reg].high = b)'
    BY <2>1, <2>2, <1>1
  <2>5. \A r \in Reg : \/ crtc[r].high = crtc[r].low
                       \/ \E b \in Actor : loc'[b].pc = "low" /\ loc'[b].reg = r
    BY <2>1, <2>2, <1>1
  <2> QED
    BY <2>3, <2>4, <2>5 DEF CrtcOk
<1> QED
  BY <1>4, <1>5, <1>6, <1>7, <1>8, <1>9 DEF IInv

(* Where an actor is in a call, its console is one of those set up.        *)
LEMMA InCall ==
  ASSUME IInv, NEW a \in Actor, NEW pc, At(a, pc), pc # "idle"
  PROVE  /\ loc[a].pc = pc /\ (a = "tty" => loc["user"].pc = "idle")
         /\ loc[a] \in Local /\ loc[a].con \in Con /\ loc[a].ch \in Chars
         /\ loc[a].p_vmem \in Int /\ loc[a].tmp \in Int
         /\ loc[a].reg \in Reg /\ loc[a].next \in Pcs
         /\ loc[a].con < ready /\ ConInv(loc[a].con)
         /\ cursor[loc[a].con] \in Int
         /\ current_start_addr[loc[a].con] \in Int
         /\ (a = "tty" => TtyOk(loc[a]))
         /\ (a = "user" => UserOk(loc[a]))
<1>1. loc[a].pc = pc /\ (a = "tty" => loc["user"].pc = "idle")
  BY DEF At
<1>2. /\ loc[a] \in Local /\ loc[a].con \in Con /\ loc[a].ch \in Chars
      /\ loc[a].p_vmem \in Int /\ loc[a].tmp \in Int
      /\ loc[a].reg \in Reg /\ loc[a].next \in Pcs
  BY LocalFields DEF IInv
<1>3. loc[a].con < ready
  BY <1>1 DEF IInv, ReadyInv
<1>4. cursor[loc[a].con] \in Int /\ current_start_addr[loc[a].con] \in Int
  BY <1>2 DEF IInv, TypeInv
<1> QED
  BY <1>1, <1>2, <1>3, <1>4 DEF IInv

(* A step inside a call that leaves console_table and the CRTC alone.      *)
LEMMA QuietCall ==
  ASSUME IInv, NEW a \in Actor, NEW pc, At(a, pc), NEW l \in Local,
         loc' = [loc EXCEPT ![a] = l],
         pc # "idle", pc \notin Section, l.pc # "idle", l.pc \notin Section,
         l.con = loc[a].con,
         a = "tty" => TtyOk(l),
         a = "user" => UserOk(l),
         UNCHANGED <<console, task, crtc, eflags_if>>
  PROVE  IInv'
<1>1. /\ loc[a].pc = pc /\ (a = "tty" => loc["user"].pc = "idle")
      /\ loc[a].con < ready
  BY InCall
<1>2. UNCHANGED <<ready, tty_pc, nr_current_console>> /\ nr_current_console' \in Con
  BY DEF task, IInv, TypeInv
<1>3. IF a = "tty" THEN TtyOk(l) ELSE UserOk(l)
  BY DEF Actor
<1>4. a = "user" /\ loc["user"].pc = "idle" => eflags_if
  BY <1>1
<1>5. IF l.pc = "idle" THEN l.con = 0 ELSE l.con < ready
  BY <1>1
<1> QED
  BY <1>1, <1>2, <1>3, <1>4, <1>5, QuietStep

(* out_char() up to where it stores the cursor, and behind that.           *)
LEMMA OutCharKeeps ==
  ASSUME IInv, NEW a \in Actor,
         PVmem(a) \/ Switch(a) \/ StoreChar(a) \/ LoadCursor(a)
           \/ StoreBlank(a) \/ While(a) \/ WhileStart(a),
         UNCHANGED <<task, crtc, eflags_if>>
  PROVE  IInv'
<1> DEFINE c == loc[a].con
<1>0. UNCHANGED <<console, task, crtc, eflags_if>>
  BY DEF PVmem, Switch, StoreChar, LoadCursor, StoreBlank, While, WhileStart
<1>1. CASE PVmem(a)
  <2> DEFINE l == [loc[a] EXCEPT !.p_vmem = cursor[c], !.pc = "switch"]
  <2>1. At(a, "p_vmem") /\ loc' = [loc EXCEPT ![a] = l]
    BY <1>1 DEF PVmem, Goto, IInv, TypeInv
  <2>2. /\ loc[a].pc = "p_vmem" /\ loc[a] \in Local /\ c \in Con
        /\ loc[a].p_vmem \in Int /\ loc[a].tmp \in Int /\ loc[a].ch \in Chars
        /\ ConInv(c) /\ cursor[c] \in Int /\ current_start_addr[c] \in Int
        /\ (a = "tty" => TtyOk(loc[a])) /\ (a = "user" => UserOk(loc[a]))
    BY <2>1, InCall
  <2>3. /\ l \in Local /\ l.pc = "switch" /\ l.con = c /\ l.ch = loc[a].ch /\ l.p_vmem = cursor[c]
    BY <2>2 DEF Local, Pcs, Advancing
  <2> HIDE DEF l, c
  <2>4. a = "tty" => TtyOk(l)
    BY <2>2, <2>3, Geometry DEF TtyOk, ConInv, Advancing, c
  <2>5. a = "user" => UserOk(l)
    BY <2>2, <2>3, Geometry DEF UserOk, Advancing, c
  <2> QED
    BY <1>0, <2>1, <2>2, <2>3, <2>4, <2>5, QuietCall DEF Section, c
<1>2. CASE Switch(a)
  <2>1. PICK pc \in {"while", "store_char", "load"} :
          /\ At(a, "switch") /\ Goto(a, pc)
          /\ pc # "while" => HasRoom(c, loc[a].ch)
          /\ pc = "store_char" <=> pc # "while" /\ loc[a].ch = "other"
    BY <1>2 DEF Switch
  <2> DEFINE l == [loc[a] EXCEPT !.pc = pc]
  <2>2. loc' = [loc EXCEPT ![a] = l]
    BY <2>1 DEF Goto, IInv, TypeInv
  <2>3. /\ loc[a].pc = "switch" /\ loc[a] \in Local /\ c \in Con
        /\ loc[a].p_vmem \in Int /\ loc[a].tmp \in Int /\ loc[a].ch \in Chars
        /\ ConInv(c) /\ cursor[c] \in Int /\ current_start_addr[c] \in Int
        /\ (a = "tty" => TtyOk(loc[a])) /\ (a = "user" => UserOk(loc[a]))
    BY <2>1, InCall
  <2>4. /\ l \in Local /\ l.pc = pc /\ l.con = c /\ l.ch = loc[a].ch /\ l.p_vmem = loc[a].p_vmem
    BY <2>3 DEF Local, Pcs, Advancing
  <2> HIDE DEF l, c
  <2>5. a = "tty" => TtyOk(l)
    BY <2>1, <2>3, <2>4, Geometry DEF TtyOk, ConInv, Advancing, c, HasRoom, Chars
  <2>6. a = "user" => UserOk(l)
    BY <2>1, <2>3, <2>4, Geometry DEF UserOk, Advancing, c, HasRoom, Chars
  <2> QED
    BY <1>0, <2>1, <2>3, <2>4, <2>5, <2>6, <2>2, QuietCall DEF Section, c
<1>3. CASE StoreChar(a)
  <2> DEFINE l == [loc[a] EXCEPT !.pc = "load"]
  <2>1. At(a, "store_char") /\ loc' = [loc EXCEPT ![a] = l]
    BY <1>3 DEF StoreChar, Goto, IInv, TypeInv
  <2>2. /\ loc[a].pc = "store_char" /\ loc[a] \in Local /\ c \in Con
        /\ loc[a].p_vmem \in Int /\ loc[a].tmp \in Int /\ loc[a].ch \in Chars
        /\ ConInv(c) /\ cursor[c] \in Int /\ current_start_addr[c] \in Int
        /\ (a = "tty" => TtyOk(loc[a])) /\ (a = "user" => UserOk(loc[a]))
    BY <2>1, InCall
  <2>3. /\ l \in Local /\ l.pc = "load" /\ l.con = c /\ l.ch = loc[a].ch
    BY <2>2 DEF Local, Pcs, Advancing
  <2> HIDE DEF l, c
  <2>4. a = "tty" => TtyOk(l)
    BY <2>2, <2>3, Geometry DEF TtyOk, ConInv, Advancing, c
  <2>5. a = "user" => UserOk(l)
    BY <2>2, <2>3, Geometry DEF UserOk, Advancing, c
  <2> QED
    BY <1>0, <2>1, <2>2, <2>3, <2>4, <2>5, QuietCall DEF Section, c
<1>4. CASE LoadCursor(a)
  <2> DEFINE l == [loc[a] EXCEPT !.tmp = cursor[c], !.pc = "store"]
  <2>1. At(a, "load") /\ loc' = [loc EXCEPT ![a] = l]
    BY <1>4 DEF LoadCursor, Goto, IInv, TypeInv
  <2>2. /\ loc[a].pc = "load" /\ loc[a] \in Local /\ c \in Con
        /\ loc[a].p_vmem \in Int /\ loc[a].tmp \in Int /\ loc[a].ch \in Chars
        /\ ConInv(c) /\ cursor[c] \in Int /\ current_start_addr[c] \in Int
        /\ (a = "tty" => TtyOk(loc[a])) /\ (a = "user" => UserOk(loc[a]))
    BY <2>1, InCall
  <2>3. /\ l \in Local /\ l.pc = "store" /\ l.con = c /\ l.ch = loc[a].ch /\ l.tmp = cursor[c]
    BY <2>2 DEF Local, Pcs, Advancing
  <2> HIDE DEF l, c
  <2>4. a = "tty" => TtyOk(l)
    BY <2>2, <2>3, Geometry DEF TtyOk, ConInv, Advancing, c
  <2>5. a = "user" => UserOk(l)
    BY <2>2, <2>3, Geometry DEF UserOk, Advancing, c
  <2> QED
    BY <1>0, <2>1, <2>2, <2>3, <2>4, <2>5, QuietCall DEF Section, c
<1>5. CASE StoreBlank(a)
  <2> DEFINE l == [loc[a] EXCEPT !.pc = "while"]
  <2>1. At(a, "store_blank") /\ loc' = [loc EXCEPT ![a] = l]
    BY <1>5 DEF StoreBlank, Goto, IInv, TypeInv
  <2>2. /\ loc[a].pc = "store_blank" /\ loc[a] \in Local /\ c \in Con
        /\ loc[a].p_vmem \in Int /\ loc[a].tmp \in Int /\ loc[a].ch \in Chars
        /\ ConInv(c) /\ cursor[c] \in Int /\ current_start_addr[c] \in Int
        /\ (a = "tty" => TtyOk(loc[a])) /\ (a = "user" => UserOk(loc[a]))
    BY <2>1, InCall
  <2>3. /\ l \in Local /\ l.pc = "while" /\ l.con = c /\ l.ch = loc[a].ch
    BY <2>2 DEF Local, Pcs, Advancing
  <2> HIDE DEF l, c
  <2>4. a = "tty" => TtyOk(l)
    BY <2>2, <2>3, Geometry DEF TtyOk, ConInv, Advancing, c
  <2>5. a = "user" => UserOk(l)
    BY <2>2, <2>3, Geometry DEF UserOk, Advancing, c
  <2> QED
    BY <1>0, <2>1, <2>2, <2>3, <2>4, <2>5, QuietCall DEF Section, c
<1>6. CASE While(a)
  <2> DEFINE l == [loc[a] EXCEPT !.tmp = cursor[c], !.pc = "while_start"]
  <2>1. At(a, "while") /\ loc' = [loc EXCEPT ![a] = l]
    BY <1>6 DEF While, IInv, TypeInv
  <2>2. /\ loc[a].pc = "while" /\ loc[a] \in Local /\ c \in Con
        /\ loc[a].p_vmem \in Int /\ loc[a].tmp \in Int /\ loc[a].ch \in Chars
        /\ ConInv(c) /\ cursor[c] \in Int /\ current_start_addr[c] \in Int
        /\ (a = "tty" => TtyOk(loc[a])) /\ (a = "user" => UserOk(loc[a]))
    BY <2>1, InCall
  <2>3. /\ l \in Local /\ l.pc = "while_start" /\ l.con = c /\ l.ch = loc[a].ch
        /\ l.tmp = cursor[c]
    BY <2>2 DEF Local, Pcs, Advancing
  <2> HIDE DEF l, c
  <2>4. a = "tty" => TtyOk(l)
    BY <2>2, <2>3, Geometry DEF TtyOk, ConInv, Advancing, c
  <2>5. a = "user" => UserOk(l)
    BY <2>2, <2>3, Geometry DEF UserOk, Advancing, c
  <2> QED
    BY <1>0, <2>1, <2>2, <2>3, <2>4, <2>5, QuietCall DEF Section, c
<1>7. CASE WhileStart(a)
  <2>0. At(a, "while_start")
    BY <1>7 DEF WhileStart
  <2>1. CASE loc[a].tmp >= current_start_addr[c] + SCR_SIZE
    <3> DEFINE l == [loc[a] EXCEPT !.pc = "scroll_dn", !.next = "while"]
    <3>1. loc' = [loc EXCEPT ![a] = l]
      BY <1>7, <2>1 DEF WhileStart, IInv, TypeInv
    <3>2. /\ loc[a].pc = "while_start" /\ loc[a] \in Local /\ c \in Con
          /\ loc[a].p_vmem \in Int /\ loc[a].tmp \in Int /\ loc[a].ch \in Chars
          /\ ConInv(c) /\ cursor[c] \in Int /\ current_start_addr[c] \in Int
          /\ (a = "tty" => TtyOk(loc[a])) /\ (a = "user" => UserOk(loc[a]))
      BY <2>0, InCall
    <3>3. /\ l \in Local /\ l.pc = "scroll_dn" /\ l.con = c /\ l.ch = loc[a].ch
      BY <3>2 DEF Local, Pcs, Advancing
    <3> HIDE DEF l, c
    <3>4. a = "tty" => TtyOk(l)
      BY <2>1, <3>2, <3>3, Geometry DEF TtyOk, ConInv, Advancing, c
    <3>5. a = "user" => UserOk(l)
      BY <2>1, <3>2, <3>3, Geometry DEF UserOk, Advancing, c
    <3> QED
      BY <1>0, <2>0, <3>1, <3>2, <3>3, <3>4, <3>5, QuietCall DEF Section, c
  <2>2. CASE ~(loc[a].tmp >= current_start_addr[c] + SCR_SIZE)
    <3> DEFINE l == [loc[a] EXCEPT !.pc = "flush"]
    <3>1. loc' = [loc EXCEPT ![a] = l]
      BY <1>7, <2>2 DEF WhileStart, Goto, IInv, TypeInv
    <3>2. /\ loc[a].pc = "while_start" /\ loc[a] \in Local /\ c \in Con
          /\ loc[a].p_vmem \in Int /\ loc[a].tmp \in Int /\ loc[a].ch \in Chars
          /\ ConInv(c) /\ cursor[c] \in Int /\ current_start_addr[c] \in Int
          /\ (a = "tty" => TtyOk(loc[a])) /\ (a = "user" => UserOk(loc[a]))
      BY <2>0, InCall
    <3>3. /\ l \in Local /\ l.pc = "flush" /\ l.con = c /\ l.ch = loc[a].ch
      BY <3>2 DEF Local, Pcs, Advancing
    <3> HIDE DEF l, c
    <3>4. a = "tty" => TtyOk(l)
      BY <3>2, <3>3, Geometry DEF TtyOk, ConInv, Advancing, c
    <3>5. a = "user" => UserOk(l)
      BY <3>2, <3>3, Geometry DEF UserOk, Advancing, c
    <3> QED
      BY <1>0, <2>0, <3>1, <3>2, <3>3, <3>4, <3>5, QuietCall DEF Section, c
  <2> QED
    BY <2>1, <2>2
<1> QED
  BY <1>1, <1>2, <1>3, <1>4, <1>5, <1>6, <1>7

(* scroll_screen() up to where it stores the start, and the calls that     *)
(* show the result.                                                        *)
LEMMA ScrollKeeps ==
  ASSUME IInv, NEW a \in Actor,
         ScrollTest(a) \/ ScrollLoad(a) \/ Show(a),
         UNCHANGED <<task, crtc, eflags_if>>
  PROVE  IInv'
<1> DEFINE c == loc[a].con
<1>0. UNCHANGED <<console, task, crtc, eflags_if>>
  BY DEF ScrollTest, ScrollLoad, Show
<1>1. CASE ScrollTest(a)
  <2>1. \E from \in {"scroll_up", "scroll_dn"},
           to \in {"load_up", "load_dn", "scrolled"} :
          /\ At(a, from) /\ Goto(a, to)
          /\ to = "load_up" =>
               from = "scroll_up" /\ current_start_addr[c] > original_addr(c)
          /\ to = "load_dn" =>
               /\ from = "scroll_dn"
               /\ current_start_addr[c] + SCR_WIDTH < EndAddr(c)
    BY <1>1 DEF ScrollTest
  <2>2. PICK from \in {"scroll_up", "scroll_dn"},
             to \in {"load_up", "load_dn", "scrolled"} :
          /\ At(a, from) /\ Goto(a, to)
          /\ to = "load_up" =>
               from = "scroll_up" /\ current_start_addr[c] > original_addr(c)
          /\ to = "load_dn" =>
               /\ from = "scroll_dn"
               /\ current_start_addr[c] + SCR_WIDTH < EndAddr(c)
    BY <2>1
  <2> DEFINE l == [loc[a] EXCEPT !.pc = to]
  <2>3. loc' = [loc EXCEPT ![a] = l]
    BY <2>2 DEF Goto, IInv, TypeInv
  <2>4. /\ loc[a].pc = from /\ loc[a] \in Local /\ c \in Con
        /\ loc[a].p_vmem \in Int /\ loc[a].tmp \in Int /\ loc[a].ch \in Chars
        /\ ConInv(c) /\ cursor[c] \in Int /\ current_start_addr[c] \in Int
        /\ (a = "tty" => TtyOk(loc[a])) /\ (a = "user" => UserOk(loc[a]))
    BY <2>2, InCall
  <2>5. /\ l \in Local /\ l.pc = to /\ l.con = c /\ l.ch = loc[a].ch
    BY <2>4 DEF Local, Pcs, Advancing
  <2> HIDE DEF l, c
  <2>6. a = "tty" => TtyOk(l)
    BY <2>2, <2>4, <2>5, Geometry DEF TtyOk, ConInv, Advancing, c
  <2>7. a = "user" => UserOk(l)
    BY <2>2, <2>4, <2>5, Geometry DEF UserOk, Advancing, c
  <2> QED
    BY <1>0, <2>2, <2>4, <2>5, <2>6, <2>7, <2>3, QuietCall DEF Section, c
<1>2. CASE ScrollLoad(a)
  <2>1. PICK from \in {"load_up", "load_dn"}, to \in {"store_up", "store_dn"} :
          /\ At(a, from)
          /\ loc' = [loc EXCEPT ![a].tmp = current_start_addr[c], ![a].pc = to]
          /\ from = "load_up" <=> to = "store_up"
    BY <1>2 DEF ScrollLoad
  <2> DEFINE l == [loc[a] EXCEPT !.tmp = current_start_addr[c], !.pc = to]
  <2>2. loc' = [loc EXCEPT ![a] = l]
    BY <2>1 DEF IInv, TypeInv
  <2>3. /\ loc[a].pc = from /\ loc[a] \in Local /\ c \in Con
        /\ loc[a].p_vmem \in Int /\ loc[a].tmp \in Int /\ loc[a].ch \in Chars
        /\ ConInv(c) /\ cursor[c] \in Int /\ current_start_addr[c] \in Int
        /\ (a = "tty" => TtyOk(loc[a])) /\ (a = "user" => UserOk(loc[a]))
    BY <2>1, InCall
  <2>4. /\ l \in Local /\ l.pc = to /\ l.con = c /\ l.ch = loc[a].ch
        /\ l.tmp = current_start_addr[c]
    BY <2>3 DEF Local, Pcs, Advancing
  <2> HIDE DEF l, c
  <2>5. a = "tty" => TtyOk(l)
    BY <2>1, <2>3, <2>4, Geometry DEF TtyOk, ConInv, Advancing, c
  <2>6. a = "user" => UserOk(l)
    BY <2>1, <2>3, <2>4, Geometry DEF UserOk, Advancing, c
  <2> QED
    BY <1>0, <2>1, <2>3, <2>4, <2>5, <2>6, <2>2, QuietCall DEF Section, c
<1>3. CASE Show(a)
  <2>1. PICK from \in {"scrolled", "cursor_while", "cursor_idle", "flush", "start_idle"},
             reg \in Reg,
             next \in {"cursor_while", "cursor_idle", "while", "idle", "start_idle"} :
          At(a, from) /\ SetReg(a, reg, next)
    BY <1>3 DEF Show, Reg
  <2> DEFINE l == [loc[a] EXCEPT !.pc = "disable_int", !.reg = reg, !.next = next]
  <2>2. loc' = [loc EXCEPT ![a] = l]
    BY <2>1 DEF SetReg, IInv, TypeInv
  <2>3. /\ loc[a].pc = from /\ loc[a] \in Local /\ c \in Con
        /\ loc[a].p_vmem \in Int /\ loc[a].tmp \in Int /\ loc[a].ch \in Chars
        /\ ConInv(c) /\ cursor[c] \in Int /\ current_start_addr[c] \in Int
        /\ (a = "tty" => TtyOk(loc[a])) /\ (a = "user" => UserOk(loc[a]))
    BY <2>1, InCall
  <2>4. /\ l \in Local /\ l.pc = "disable_int" /\ l.con = c /\ l.ch = loc[a].ch /\ l.next = next
    BY <2>1, <2>3 DEF Local, Pcs, Advancing
  <2> HIDE DEF l, c
  <2>5. a = "tty" => TtyOk(l)
    BY <2>1, <2>3, <2>4, Geometry DEF TtyOk, ConInv, Advancing, After, c
  <2>6. a = "user" => UserOk(l)
    BY <2>1, <2>3, <2>4, Geometry DEF UserOk, Advancing, After, c
  <2> QED
    BY <1>0, <2>1, <2>3, <2>4, <2>5, <2>6, <2>2, QuietCall DEF Section, c
<1> QED
  BY <1>1, <1>2, <1>3

-----------------------------------------------------------------------------
(* The line behind a cell begins behind it, within a line's width.         *)
LEMMA NextLine ==
  ASSUME NEW c \in Con, NEW t \in Int, t >= original_addr(c)
  PROVE  LET x == original_addr(c)
                    + SCR_WIDTH * ((t - original_addr(c)) \div SCR_WIDTH + 1)
         IN x \in Int /\ t < x /\ x <= t + SCR_WIDTH
<1> DEFINE O == original_addr(c)
           W == SCR_WIDTH
           d == t - O
           q == d \div W
           r == d % W
<1>1. O \in Nat /\ W \in Nat /\ W > 0 /\ d \in Int /\ t = O + d
  BY Geometry
<1> HIDE DEF O, W, d
<1>2. q \in Int
  BY <1>1, SMTT(30)
<1>3. r \in 0 .. W - 1
  BY <1>1, SMTT(30)
<1>4. d = W * q + r
  BY <1>1, SMTT(30)
<1> HIDE DEF q, r
<1>5. W * (q + 1) = W * q + W /\ W * q \in Int
  BY <1>1, <1>2
<1>6. W * (q + 1) = (d - r) + W /\ d - r \in Int
  BY <1>1, <1>3, <1>4, <1>5
<1>7. O + W * (q + 1) = (t - r) + W
  BY <1>1, <1>3, <1>6
<1>8. /\ O + W * (q + 1) \in Int /\ t < O + W * (q + 1)
      /\ O + W * (q + 1) <= t + W
  BY <1>1, <1>3, <1>7
<1> QED
  BY <1>8 DEF O, W, d, q

(* A step that stores a cursor x and a start y.  What a write() does to    *)
(* them, task_tty can rely on.                                             *)
LEMMA StoreStep ==
  ASSUME IInv, NEW a \in Actor, NEW pc, At(a, pc), NEW l \in Local,
         loc' = [loc EXCEPT ![a] = l],
         pc # "idle", pc \notin Section,
         l.pc \in {"while", "scrolled", "store_blank"},
         a = "user" => l.pc # "store_blank",
         l.con = loc[a].con, l.ch = loc[a].ch,
         NEW c \in Con, c = loc[a].con, NEW x \in Int, NEW y \in Int,
         cursor' = [cursor EXCEPT ![c] = x],
         current_start_addr' = [current_start_addr EXCEPT ![c] = y],
         UNCHANGED <<task, crtc, eflags_if>>,
         original_addr(c) <= x, x < EndAddr(c) + SCR_WIDTH,
         original_addr(c) <= y, y < EndAddr(c), OnLine(c, y),
         a = "user" =>
           /\ x >= cursor[c] /\ (x # cursor[c] => x < EndAddr(c))
           /\ y >= current_start_addr[c]
           /\ y # current_start_addr[c] => y + SCR_WIDTH < EndAddr(c)
  PROVE  IInv'
<1>1. /\ loc' \in [Actor -> Local] /\ loc'[a] = l
      /\ \A b \in Actor : b # a => loc'[b] = loc[b]
  BY LocStep DEF IInv
<1>2. /\ loc[a].pc = pc /\ (a = "tty" => loc["user"].pc = "idle")
      /\ loc[a].con < ready
      /\ (a = "user" => UserOk(loc[a]))
  BY InCall
<1>3. UNCHANGED <<ready, tty_pc, nr_current_console>>
  BY DEF task
<1>4. l.pc \notin Section /\ l.pc # "idle" /\ l.pc \notin Advancing
  BY DEF Section, Advancing
<1>5. /\ cursor \in [Con -> Int] /\ current_start_addr \in [Con -> Int]
      /\ cursor' \in [Con -> Int] /\ current_start_addr' \in [Con -> Int]
      /\ cursor'[c] = x /\ current_start_addr'[c] = y
      /\ \A k \in Con : k # c => /\ cursor'[k] = cursor[k]
                                 /\ current_start_addr'[k] = current_start_addr[k]
  BY DEF IInv, TypeInv
<1>6. TypeInv'
  BY <1>1, <1>3, <1>5 DEF IInv, TypeInv
<1>7. ReadyInv'
  BY <1>1, <1>2, <1>3, <1>4 DEF IInv, ReadyInv
<1>8. (\A k \in Con : k < ready => ConInv(k))'
  <2> SUFFICES ASSUME NEW k \in Con, k < ready PROVE ConInv(k)'
    BY <1>3
  <2>1. ConInv(k)
    BY DEF IInv
  <2>2. CASE k = c
    BY <2>2, <1>5 DEF ConInv
  <2>3. CASE k # c
    BY <2>1, <2>3, <1>5 DEF ConInv
  <2> QED
    BY <2>2, <2>3
<1>9. TtyOk(loc["tty"])'
  <2>1. CASE a = "tty"
    BY <2>1, <1>1, <1>4 DEF TtyOk
  <2>2. CASE a = "user"
    <3>1. loc'["tty"] = loc["tty"] /\ loc["tty"].con \in Con
      BY <2>2, <1>1, LocalFields DEF IInv, Actor
    <3>2. TtyOk(loc["tty"])
      BY DEF IInv
    <3>3. /\ loc["tty"].p_vmem \in Int /\ cursor[c] \in Int
          /\ current_start_addr[c] \in Int
      BY <1>5, LocalFields DEF IInv, Actor
    <3>4. CASE loc["tty"].con # c
      BY <3>1, <3>2, <3>4, <1>5 DEF TtyOk
    <3>5. CASE loc["tty"].con = c
      BY <3>1, <3>2, <3>3, <3>5, <2>2, <1>5, Geometry DEF TtyOk
    <3> QED
      BY <3>4, <3>5
  <2> QED
    BY <2>1, <2>2 DEF Actor
<1>10. UserOk(loc["user"])'
  <2>1. CASE a = "tty"
    BY <2>1, <1>1, <1>2 DEF UserOk, Actor, Advancing, IInv
  <2>2. CASE a = "user"
    BY <2>2, <1>1, <1>2, <1>4 DEF UserOk
  <2> QED
    BY <2>1, <2>2 DEF Actor
<1>11. CrtcOk'
  <2>1. /\ loc["tty"].pc \in Section => loc["user"].pc = "idle" /\ ~eflags_if
        /\ \A b \in Actor : loc[b].pc = "low" => crtc[loc[b].reg].high = b
        /\ \A r \in Reg :
             \/ crtc[r].high = crtc[r].low
             \/ \E b \in Actor : loc[b].pc = "low" /\ loc[b].reg = r
    BY DEF IInv, CrtcOk
  <2>2. loc[a].pc # "low" /\ l.pc # "low"
    BY <1>2, <1>4 DEF Section
  <2>3. (loc["tty"].pc \in Section => loc["user"].pc = "idle" /\ ~eflags_if)'
    BY <2>1, <1>1, <1>2, <1>4 DEF Actor
  <2>4. (\A b \in Actor : loc[b].pc = "low" => crtc[loc[b].reg].high = b)'
    BY <2>1, <2>2, <1>1
  <2>5. \A r \in Reg : \/ crtc[r].high = crtc[r].low
                       \/ \E b \in Actor : loc'[b].pc = "low" /\ loc'[b].reg = r
    BY <2>1, <2>2, <1>1
  <2> QED
    BY <2>3, <2>4, <2>5 DEF CrtcOk
<1> QED
  BY <1>6, <1>7, <1>8, <1>9, <1>10, <1>11 DEF IInv

LEMMA StoreCursorKeeps ==
  ASSUME IInv, NEW a \in Actor, StoreCursor(a),
         UNCHANGED <<task, crtc, eflags_if>>
  PROVE  IInv'
<1> DEFINE c == loc[a].con
           ch == loc[a].ch
           t == loc[a].tmp
           x == NewCursor(c, ch, t)
           to == IF ch = "backspace" THEN "store_blank" ELSE "while"
           l == [loc[a] EXCEPT !.pc = to]
<1>1. At(a, "store")
  BY DEF StoreCursor
<1>2. /\ loc[a].pc = "store" /\ loc[a] \in Local /\ c \in Con
      /\ t \in Int /\ ch \in Chars
      /\ ConInv(c) /\ cursor[c] \in Int /\ current_start_addr[c] \in Int
      /\ (a = "tty" => TtyOk(loc[a])) /\ (a = "user" => UserOk(loc[a]))
  BY <1>1, InCall
<1>3. /\ loc' = [loc EXCEPT ![a] = l]
      /\ cursor' = [cursor EXCEPT ![c] = x]
      /\ current_start_addr' = current_start_addr
  BY DEF StoreCursor, Goto, IInv, TypeInv
<1>4. current_start_addr' =
        [current_start_addr EXCEPT ![c] = current_start_addr[c]]
  BY <1>2, <1>3 DEF IInv, TypeInv
<1>5. /\ l \in Local /\ l.pc = to /\ l.con = c /\ l.ch = ch
  BY <1>2 DEF Local, Pcs
<1> HIDE DEF l
<1>6. /\ original_addr(c) <= t
      /\ ch # "backspace" => t < EndAddr(c)
      /\ ch = "backspace" => original_addr(c) < t /\ t < EndAddr(c) + SCR_WIDTH
      /\ a = "user" => /\ ch # "backspace" /\ t = cursor[c] /\ t < EndAddr(c) - 1
                       /\ ch = "newline" => t < EndAddr(c) - SCR_WIDTH
  <2>1. a = "tty" => /\ original_addr(c) <= t /\ t < EndAddr(c) + SCR_WIDTH
                     /\ ch # "backspace" => t < EndAddr(c)
                     /\ ch = "backspace" => t > original_addr(c)
    BY <1>2 DEF TtyOk
  <2>2. a = "user" => /\ ch # "backspace" /\ t = cursor[c] /\ t < EndAddr(c) - 1
                      /\ ch = "newline" => t < EndAddr(c) - SCR_WIDTH
    BY <1>2 DEF UserOk, Advancing
  <2>3. original_addr(c) <= cursor[c] /\ EndAddr(c) \in Nat
    BY <1>2, Geometry DEF ConInv
  <2> HIDE DEF c, ch, t
  <2>4. CASE a = "tty"
    BY <2>1, <2>3, <2>4, <1>2, Geometry
  <2>5. CASE a = "user"
    BY <2>2, <2>3, <2>5, <1>2, Geometry
  <2> QED
    BY <2>4, <2>5 DEF Actor
<1>7. /\ x \in Int
      /\ original_addr(c) <= x /\ x < EndAddr(c) + SCR_WIDTH
      /\ a = "user" => x >= cursor[c] /\ x < EndAddr(c)
  <2> HIDE DEF c, ch, t
  <2>0. /\ original_addr(c) \in Nat /\ EndAddr(c) \in Nat
        /\ SCR_WIDTH \in Nat /\ SCR_WIDTH > 0
    BY <1>2, Geometry
  <2>1. CASE ch = "newline"
    <3>1. x = original_addr(c)
                + SCR_WIDTH * ((t - original_addr(c)) \div SCR_WIDTH + 1)
      BY <2>1 DEF NewCursor
    <3>2. x \in Int /\ t < x /\ x <= t + SCR_WIDTH
      BY <1>2, <1>6, <3>1, NextLine
    <3> HIDE DEF x
    <3> QED
      BY <2>0, <2>1, <3>2, <1>2, <1>6
  <2>2. CASE ch = "backspace"
    <3>1. x = t - 1
      BY <2>2 DEF NewCursor
    <3> HIDE DEF x
    <3> QED
      BY <2>0, <2>2, <3>1, <1>2, <1>6
  <2>3. CASE ch = "other"
    <3>1. x = t + 1
      BY <2>3 DEF NewCursor
    <3> HIDE DEF x
    <3> QED
      BY <2>0, <2>3, <3>1, <1>2, <1>6
  <2> QED
    BY <2>1, <2>2, <2>3, <1>2 DEF Chars
<1>8. to \in {"while", "store_blank"} /\ (a = "user" => to # "store_blank")
  BY <1>6
<1>9. /\ original_addr(c) <= current_start_addr[c]
      /\ current_start_addr[c] < EndAddr(c)
      /\ OnLine(c, current_start_addr[c])
  BY <1>2 DEF ConInv
<1> HIDE DEF x, to, ch, t
<1>10. a = "user" => /\ x >= cursor[c] /\ (x # cursor[c] => x < EndAddr(c))
                     /\ current_start_addr[c] >= current_start_addr[c]
  BY <1>2, <1>7
<1> HIDE DEF c
<1> QED
  BY <1>1, <1>2, <1>3, <1>4, <1>5, <1>7, <1>8, <1>9, <1>10, StoreStep
     DEF Section, c, ch

LEMMA ScrollStoreKeeps ==
  ASSUME IInv, NEW a \in Actor, ScrollStore(a),
         UNCHANGED <<task, crtc, eflags_if>>
  PROVE  IInv'
<1> DEFINE c == loc[a].con
           t == loc[a].tmp
           l == [loc[a] EXCEPT !.pc = "scrolled"]
<1>1. PICK pc \in {"store_up", "store_dn"}, y \in {t - SCR_WIDTH, t + SCR_WIDTH} :
        /\ At(a, pc)
        /\ current_start_addr' = [current_start_addr EXCEPT ![c] = y]
        /\ pc = "store_up" => y = t - SCR_WIDTH
        /\ pc = "store_dn" => y = t + SCR_WIDTH
  BY DEF ScrollStore
<1>2. /\ loc[a].pc = pc /\ loc[a] \in Local /\ c \in Con
      /\ t \in Int /\ c < ready
      /\ ConInv(c) /\ cursor[c] \in Int /\ current_start_addr[c] \in Int
      /\ (a = "tty" => TtyOk(loc[a])) /\ (a = "user" => UserOk(loc[a]))
  BY <1>1, InCall
<1>3. /\ loc' = [loc EXCEPT ![a] = l]
      /\ cursor' = [cursor EXCEPT ![c] = cursor[c]]
  BY <1>2 DEF ScrollStore, Goto, IInv, TypeInv
<1>4. l \in Local /\ l.pc = "scrolled" /\ l.con = c /\ l.ch = loc[a].ch
  BY <1>2 DEF Local, Pcs
<1> HIDE DEF l
<1>5. /\ original_addr(c) \in Nat /\ EndAddr(c) \in Nat /\ SCR_WIDTH \in Nat
      /\ SCR_WIDTH > 0 /\ SCR_SIZE \in Nat
      /\ SCR_SIZE >= SCR_WIDTH + SCR_WIDTH + SCR_WIDTH
  BY <1>2, Geometry
<1>6. /\ original_addr(c) <= cursor[c] /\ cursor[c] < EndAddr(c) + SCR_WIDTH
      /\ original_addr(c) <= current_start_addr[c]
      /\ OnLine(c, current_start_addr[c])
  BY <1>2 DEF ConInv
<1>7. /\ OnLine(c, t)
      /\ pc = "store_up" => t > original_addr(c) /\ t < EndAddr(c)
      /\ pc = "store_dn" => original_addr(c) <= t /\ t + SCR_WIDTH < EndAddr(c)
      /\ a = "user" => /\ pc = "store_dn" /\ t = current_start_addr[c]
                       /\ cursor[c] >= t + SCR_SIZE
  <2>1. CASE a = "tty"
    BY <2>1, <1>1, <1>2 DEF TtyOk
  <2>2. CASE a = "user"
    <3>1. pc = "store_dn" /\ t = current_start_addr[c]
          /\ cursor[c] >= current_start_addr[c] + SCR_SIZE
          /\ current_start_addr[c] + SCR_WIDTH < EndAddr(c)
      BY <2>2, <1>1, <1>2 DEF UserOk
    <3> QED
      BY <2>2, <3>1, <1>6
  <2> QED
    BY <2>1, <2>2 DEF Actor
<1> HIDE DEF c, t
<1>8. y \in Int /\ OnLine(c, y) /\ original_addr(c) <= y /\ y < EndAddr(c)
  <2>1. CASE pc = "store_up"
    <3>1. y = t - SCR_WIDTH /\ t > original_addr(c) /\ t < EndAddr(c)
      BY <2>1, <1>1, <1>7
    <3>2. OnLine(c, t - SCR_WIDTH) /\ t - SCR_WIDTH >= original_addr(c)
      BY <3>1, <1>2, <1>7, Lines
    <3> QED
      BY <3>1, <3>2, <1>2, <1>5
  <2>2. CASE pc = "store_dn"
    <3>1. /\ y = t + SCR_WIDTH
          /\ original_addr(c) <= t /\ t + SCR_WIDTH < EndAddr(c)
      BY <2>2, <1>1, <1>7
    <3>2. OnLine(c, t + SCR_WIDTH)
      BY <1>2, <1>7, Lines
    <3> QED
      BY <3>1, <3>2, <1>2, <1>5
  <2> QED
    BY <2>1, <2>2
<1>9. a = "user" => /\ cursor[c] >= cursor[c]
                    /\ y >= current_start_addr[c]
                    /\ y + SCR_WIDTH < EndAddr(c)
  BY <1>1, <1>2, <1>5, <1>6, <1>7
<1> QED
  BY <1>1, <1>2, <1>3, <1>4, <1>6, <1>8, <1>9, StoreStep DEF Section, c

LEMMA MemoryKeeps ==
  ASSUME IInv, NEW a \in Actor, Memory(a)
  PROVE  IInv'
BY OutCharKeeps, ScrollKeeps, StoreCursorKeeps, ScrollStoreKeeps DEF Memory

-----------------------------------------------------------------------------
(* A step that leaves the consoles alone and has the CRTC in order.        *)
LEMMA PortStep ==
  ASSUME IInv, NEW a \in Actor, NEW l \in Local, loc' = [loc EXCEPT ![a] = l],
         a = "tty" => loc["user"].pc = "idle",
         IF l.pc = "idle" THEN l.con = 0 ELSE l.con < ready,
         a = "tty" => TtyOk(l),
         a = "user" => UserOk(l),
         UNCHANGED <<console, task>>,
         crtc' \in [Reg -> [high : Actor, low : Actor]],
         eflags_if' \in BOOLEAN,
         CrtcOk'
  PROVE  IInv'
<1>1. /\ loc' \in [Actor -> Local] /\ loc'[a] = l
      /\ \A b \in Actor : b # a => loc'[b] = loc[b]
  BY LocStep DEF IInv
<1>2. UNCHANGED <<cursor, current_start_addr, ready, tty_pc, nr_current_console>>
  BY DEF console, task
<1>3. TypeInv'
  BY <1>1, <1>2 DEF IInv, TypeInv
<1>4. ReadyInv'
  BY <1>1, <1>2 DEF IInv, ReadyInv
<1>5. (\A c \in Con : c < ready => ConInv(c))'
  BY <1>2 DEF IInv, ConInv
<1>6. TtyOk(loc["tty"])'
  BY <1>1, <1>2 DEF IInv, TtyOk, Actor
<1>7. UserOk(loc["user"])'
  BY <1>1, <1>2 DEF IInv, UserOk, Actor
<1> QED
  BY <1>3, <1>4, <1>5, <1>6, <1>7 DEF IInv

(* While one of them is in the section the other is not.                   *)
LEMMA Alone ==
  ASSUME IInv, NEW a \in Actor, NEW pc, At(a, pc), pc # "idle"
  PROVE  /\ \A b \in Actor : b # a => loc[b].pc \notin Section
         /\ \A b \in Actor : b # a => loc[b].pc # "low"
         /\ loc[a].pc = "low" => crtc[loc[a].reg].high = a
         /\ \A r \in Reg : \/ crtc[r].high = crtc[r].low
                           \/ loc[a].pc = "low" /\ loc[a].reg = r
<1>1. loc[a].pc = pc /\ (a = "tty" => loc["user"].pc = "idle")
  BY InCall
<1>2. \A b \in Actor : b # a => loc[b].pc \notin Section
  BY <1>1 DEF IInv, CrtcOk, Actor, Section
<1>3. \A b \in Actor : b # a => loc[b].pc # "low"
  BY <1>2 DEF Section
<1> QED
  BY <1>2, <1>3 DEF IInv, CrtcOk

LEMMA PortKeeps ==
  ASSUME IInv, NEW a \in Actor, Port(a)
  PROVE  IInv'
<1> DEFINE c == loc[a].con
           reg == loc[a].reg
<1>0. /\ UNCHANGED <<console, task>>
      /\ crtc \in [Reg -> [high : Actor, low : Actor]]
  BY DEF Port, IInv, TypeInv
<1>1. ASSUME NEW pc \in {"disable_int", "high", "low", "enable_int"}, At(a, pc)
      PROVE  /\ loc[a].pc = pc /\ (a = "tty" => loc["user"].pc = "idle")
             /\ loc[a] \in Local /\ c \in Con /\ c < ready
             /\ reg \in Reg /\ loc[a].next \in After
             /\ (a = "user" => loc[a].ch \in {"newline", "other"})
             /\ \A b \in Actor : b # a => loc[b].pc \notin Section
             /\ \A b \in Actor : b # a => loc[b].pc # "low"
             /\ pc = "low" => crtc[reg].high = a
             /\ \A r \in Reg : \/ crtc[r].high = crtc[r].low
                               \/ pc = "low" /\ reg = r
             /\ loc[a].con < ready
  <2>1. pc # "idle"
    OBVIOUS
  <2>2. /\ loc[a].pc = pc /\ (a = "tty" => loc["user"].pc = "idle")
        /\ loc[a] \in Local /\ c \in Con /\ c < ready /\ reg \in Reg
        /\ (a = "tty" => TtyOk(loc[a])) /\ (a = "user" => UserOk(loc[a]))
    BY <1>1, <2>1, InCall
  <2>3. loc[a].next \in After /\ (a = "user" => loc[a].ch \in {"newline", "other"})
    BY <2>2 DEF TtyOk, UserOk, Actor
  <2> QED
    BY <1>1, <2>1, <2>2, <2>3, Alone
<1>2. ASSUME NEW to \in {"high", "low", "enable_int"},
             NEW pc \in {"disable_int", "high", "low", "enable_int"}, At(a, pc),
             NEW l, l = [loc[a] EXCEPT !.pc = to]
      PROVE  /\ l \in Local /\ l.pc = to /\ l.con < ready /\ l.reg = reg
             /\ (a = "tty" => TtyOk(l)) /\ (a = "user" => UserOk(l))
  <2>1. /\ loc[a] \in Local /\ loc[a].con < ready
        /\ loc[a].next \in After /\ (a = "user" => loc[a].ch \in {"newline", "other"})
    BY <1>1, <1>2
  <2>2. /\ l \in Local /\ l.pc = to /\ l.con = loc[a].con /\ l.ch = loc[a].ch
        /\ l.next = loc[a].next /\ l.reg = reg
    BY <1>2, <2>1 DEF Local, Pcs, Section
  <2>3. TtyOk(l)
    BY <2>1, <2>2 DEF TtyOk, Advancing
  <2>4. a = "user" => UserOk(l)
    BY <2>1, <2>2 DEF UserOk, Advancing
  <2> QED
    BY <2>1, <2>2, <2>3, <2>4
<1>3. CASE DisableInt(a)
  <2> DEFINE l == [loc[a] EXCEPT !.pc = "high"]
  <2>1. /\ At(a, "disable_int") /\ eflags_if' = FALSE /\ crtc' = crtc
        /\ loc' = [loc EXCEPT ![a] = l]
    BY <1>3 DEF DisableInt, Goto, IInv, TypeInv
  <2>2. /\ l \in Local /\ l.pc = "high" /\ l.con < ready
        /\ (a = "tty" => TtyOk(l)) /\ (a = "user" => UserOk(l))
    BY <1>2, <2>1
  <2> HIDE DEF l
  <2>3. /\ loc'[a] = l /\ \A b \in Actor : b # a => loc'[b] = loc[b]
    BY <2>1, <2>2, LocStep DEF IInv
  <2>4. CrtcOk'
    BY <1>1, <2>1, <2>2, <2>3 DEF CrtcOk, Actor
  <2> QED
    BY <1>0, <1>1, <2>1, <2>2, <2>4, PortStep
<1>4. CASE OutHigh(a)
  <2> DEFINE l == [loc[a] EXCEPT !.pc = "low"]
  <2>1. /\ At(a, "high") /\ eflags_if' = eflags_if
        /\ crtc' = [crtc EXCEPT ![reg].high = a]
        /\ loc' = [loc EXCEPT ![a] = l]
    BY <1>4 DEF OutHigh, Goto, IInv, TypeInv
  <2>2. /\ l \in Local /\ l.pc = "low" /\ l.con < ready /\ l.reg = reg
        /\ (a = "tty" => TtyOk(l)) /\ (a = "user" => UserOk(l))
    BY <1>2, <2>1
  <2> HIDE DEF l
  <2>3. /\ loc'[a] = l /\ \A b \in Actor : b # a => loc'[b] = loc[b]
    BY <2>1, <2>2, LocStep DEF IInv
  <2>4. /\ crtc' \in [Reg -> [high : Actor, low : Actor]]
        /\ crtc'[reg].high = a
        /\ \A r \in Reg : r # reg => crtc'[r] = crtc[r]
    BY <1>0, <1>1, <2>1
  <2>5. \A r \in Reg : r # reg => crtc[r].high = crtc[r].low
    BY <1>1, <2>1
  <2>6. (loc["tty"].pc \in Section => loc["user"].pc = "idle" /\ ~eflags_if)'
    <3>1. CASE a = "tty"
      BY <3>1, <1>1, <2>1, <2>3 DEF IInv, CrtcOk, Section, Actor
    <3>2. CASE a = "user"
      BY <3>2, <1>1, <2>1, <2>3 DEF Actor
    <3> QED
      BY <3>1, <3>2 DEF Actor
  <2>7. (\A b \in Actor : loc[b].pc = "low" => crtc[loc[b].reg].high = b)'
    BY <1>1, <2>1, <2>2, <2>3, <2>4
  <2>8. (\A r \in Reg :
           \/ crtc[r].high = crtc[r].low
           \/ \E b \in Actor : loc[b].pc = "low" /\ loc[b].reg = r)'
    BY <2>2, <2>3, <2>4, <2>5
  <2>9. CrtcOk'
    BY <2>6, <2>7, <2>8 DEF CrtcOk
  <2> QED
    BY <1>0, <1>1, <2>1, <2>2, <2>4, <2>9, PortStep DEF IInv, TypeInv
<1>5. CASE OutLow(a)
  <2> DEFINE l == [loc[a] EXCEPT !.pc = "enable_int"]
  <2>1. /\ At(a, "low") /\ eflags_if' = eflags_if
        /\ crtc' = [crtc EXCEPT ![reg].low = a]
        /\ loc' = [loc EXCEPT ![a] = l]
    BY <1>5 DEF OutLow, Goto, IInv, TypeInv
  <2>2. /\ l \in Local /\ l.pc = "enable_int" /\ l.con < ready
        /\ (a = "tty" => TtyOk(l)) /\ (a = "user" => UserOk(l))
    BY <1>2, <2>1
  <2> HIDE DEF l
  <2>3. /\ loc'[a] = l /\ \A b \in Actor : b # a => loc'[b] = loc[b]
    BY <2>1, <2>2, LocStep DEF IInv
  <2>4. /\ crtc' \in [Reg -> [high : Actor, low : Actor]]
        /\ crtc'[reg].low = a /\ crtc'[reg].high = crtc[reg].high
        /\ \A r \in Reg : r # reg => crtc'[r] = crtc[r]
    BY <1>0, <1>1, <2>1
  <2>5. /\ crtc[reg].high = a
        /\ \A r \in Reg : r # reg => crtc[r].high = crtc[r].low
    BY <1>1, <2>1
  <2>6. (loc["tty"].pc \in Section => loc["user"].pc = "idle" /\ ~eflags_if)'
    <3>1. CASE a = "tty"
      BY <3>1, <1>1, <2>1, <2>3 DEF IInv, CrtcOk, Section, Actor
    <3>2. CASE a = "user"
      BY <3>2, <1>1, <2>1, <2>3 DEF Actor
    <3> QED
      BY <3>1, <3>2 DEF Actor
  <2>7. \A b \in Actor : loc'[b].pc # "low"
    BY <1>1, <2>1, <2>2, <2>3
  <2>8. \A r \in Reg : crtc'[r].high = crtc'[r].low
    BY <2>4, <2>5
  <2>9. CrtcOk'
    BY <2>6, <2>7, <2>8 DEF CrtcOk
  <2> QED
    BY <1>0, <1>1, <2>1, <2>2, <2>4, <2>9, PortStep DEF IInv, TypeInv
<1>6. CASE EnableInt(a)
  <2> DEFINE next == loc[a].next
             l == IF next = "idle" THEN Idle ELSE [loc[a] EXCEPT !.pc = next]
  <2>1. /\ At(a, "enable_int") /\ eflags_if' = TRUE /\ crtc' = crtc
        /\ loc' = [loc EXCEPT ![a] = l]
    BY <1>6 DEF EnableInt, Return, IInv, TypeInv
  <2>2. /\ next \in After /\ loc[a] \in Local /\ loc[a].con < ready
        /\ (a = "user" => loc[a].ch \in {"newline", "other"})
    BY <1>1, <2>1
  <2>3. /\ l \in Local /\ l.pc = next /\ next \notin {"low"} \union Section
        /\ IF next = "idle" THEN l.con = 0 ELSE l.con < ready
        /\ (a = "user" => l.ch \in {"newline", "other"})
    <3>1. CASE next = "idle"
      <4>1. Idle \in Local
        BY Geometry DEF Idle, Local, Pcs, Chars, Reg
      <4> QED
        BY <3>1, <4>1 DEF Idle, Section
    <3>2. CASE next # "idle"
      BY <3>2, <2>2 DEF Local, Pcs, After, Section
    <3> QED
      BY <3>1, <3>2
  <2> HIDE DEF l
  <2>4. TtyOk(l)
    BY <2>2, <2>3 DEF TtyOk, Advancing, After
  <2>5. a = "user" => UserOk(l)
    BY <2>2, <2>3 DEF UserOk, Advancing, After
  <2>6. /\ loc'[a] = l /\ \A b \in Actor : b # a => loc'[b] = loc[b]
    BY <2>1, <2>3, LocStep DEF IInv
  <2>7. \A b \in Actor : loc'[b].pc \notin Section /\ loc'[b].pc # "low"
    BY <1>1, <2>1, <2>3, <2>6
  <2>8. \A r \in Reg : crtc[r].high = crtc[r].low
    BY <1>1, <2>1
  <2>9. CrtcOk'
    BY <2>1, <2>7, <2>8 DEF CrtcOk, Actor
  <2> QED
    BY <1>0, <1>1, <2>1, <2>2, <2>3, <2>4, <2>5, <2>9, PortStep
<1> QED
  BY <1>3, <1>4, <1>5, <1>6 DEF Port

-----------------------------------------------------------------------------
(* Calls begin: by a process, or by task_tty in its loop or before.        *)
LEMMA CallKeeps ==
  ASSUME IInv, NEW a \in Actor, At(a, "idle"), NEW l \in Local,
         loc' = [loc EXCEPT ![a] = l],
         l.pc \in {"p_vmem", "flush", "scroll_up", "scroll_dn", "disable_int"},
         l.pc = "disable_int" => l.next = "idle",
         a = "user" => l.pc = "p_vmem" /\ l.ch \in {"newline", "other"} /\ eflags_if,
         l.con < ready,
         UNCHANGED <<console, ready, crtc, eflags_if>>,
         nr_current_console' \in Con,
         \/ tty_pc' = tty_pc
         \/ tty_pc = "digit" /\ tty_pc' = "hash"
         \/ tty_pc = "hash" /\ tty_pc' = "set_cursor"
         \/ tty_pc = "set_cursor" /\ tty_pc' = "init_screen" /\ ready < NR_CONSOLES
         \/ tty_pc = "set_cursor" /\ tty_pc' = "select" /\ ready >= NR_CONSOLES
         \/ tty_pc = "select" /\ tty_pc' = "loop"
  PROVE  IInv'
<1>1. loc[a].pc = "idle" /\ (a = "tty" => loc["user"].pc = "idle")
  BY DEF At
<1>2. l.pc \notin Section /\ l.pc # "idle"
  BY DEF Section
<1>3. TtyOk(l)
  BY DEF TtyOk, Advancing, After
<1>4. a = "user" => UserOk(l)
  BY DEF UserOk, Advancing
<1>5. IF a = "tty" THEN TtyOk(l) ELSE UserOk(l)
  BY <1>3, <1>4 DEF Actor
<1> QED
  BY <1>1, <1>2, <1>5, QuietStep DEF Section

LEMMA InitTtyKeeps ==
  ASSUME IInv, InitTty
  PROVE  IInv'
<1>0. /\ loc \in [Actor -> Local] /\ "tty" \in Actor /\ loc["tty"] \in Local
      /\ ready \in 0 .. NR_CONSOLES /\ nr_current_console \in Con
      /\ (tty_pc = "init_screen" => ready < NR_CONSOLES)
      /\ (tty_pc \in {"digit", "hash", "set_cursor"} => ready > 0)
      /\ (tty_pc \in {"select", "loop"} => ready = NR_CONSOLES)
      /\ NR_CONSOLES \in Nat /\ NR_CONSOLES > 0 /\ 0 \in Con
  BY Geometry DEF IInv, TypeInv, ReadyInv, Actor
<1>1. CASE InitScreen
  <2>1. /\ tty_pc = "init_screen" /\ At("tty", "idle")
        /\ cursor' = [cursor EXCEPT ![ready] =
                       IF ready = 0 THEN boot_cursor ELSE original_addr(ready)]
        /\ current_start_addr' =
             [current_start_addr EXCEPT ![ready] = original_addr(ready)]
        /\ ready' = ready + 1
        /\ tty_pc' = IF ready = 0 THEN "set_cursor" ELSE "digit"
        /\ UNCHANGED <<nr_current_console, crtc, eflags_if, loc>>
    BY <1>1 DEF InitScreen
  <2>2. ready \in Con /\ ready < NR_CONSOLES
    BY <1>0, <2>1 DEF Con
  <2> DEFINE O == original_addr(ready)
             x == IF ready = 0 THEN boot_cursor ELSE O
  <2>3. /\ O \in Nat /\ O <= x /\ x < EndAddr(ready) + SCR_WIDTH /\ x \in Int
        /\ O < EndAddr(ready) /\ OnLine(ready, O)
    <3>1. /\ O \in Nat /\ EndAddr(ready) = O + v_mem_limit
          /\ v_mem_limit \in Nat /\ v_mem_limit > SCR_SIZE /\ SCR_SIZE \in Nat
          /\ SCR_WIDTH \in Nat
      BY <2>2, Geometry
    <3>2. OnLine(ready, O)
      BY <2>2, <3>1, Lines
    <3>3. CASE ready = 0
      BY <3>1, <3>2, <3>3, Geometry
    <3>4. CASE ready # 0
      BY <3>1, <3>2, <3>4
    <3> QED
      BY <3>3, <3>4
  <2> HIDE DEF O, x
  <2>4. /\ cursor \in [Con -> Int] /\ current_start_addr \in [Con -> Int]
        /\ cursor' = [cursor EXCEPT ![ready] = x]
        /\ current_start_addr' = [current_start_addr EXCEPT ![ready] = O]
    BY <2>1 DEF IInv, TypeInv, O, x
  <2>5. /\ cursor' \in [Con -> Int] /\ current_start_addr' \in [Con -> Int]
        /\ cursor'[ready] = x /\ current_start_addr'[ready] = O
        /\ \A k \in Con : k # ready =>
             cursor'[k] = cursor[k] /\ current_start_addr'[k] = current_start_addr[k]
    BY <2>2, <2>3, <2>4
  <2>6. TypeInv'
    BY <1>0, <2>1, <2>2, <2>5 DEF IInv, TypeInv
  <2>7. ReadyInv'
    BY <1>0, <2>1, <2>2, LocalFields DEF IInv, ReadyInv, Con
  <2>8. (\A k \in Con : k < ready => ConInv(k))'
    <3> SUFFICES ASSUME NEW k \in Con, k < ready + 1 PROVE ConInv(k)'
      BY <2>1
    <3>1. CASE k = ready
      BY <3>1, <2>3, <2>5 DEF ConInv, O
    <3>2. CASE k # ready
      <4>1. k < ready
        BY <3>2, <1>0 DEF Con
      <4>2. ConInv(k)
        BY <4>1 DEF IInv
      <4> QED
        BY <3>2, <4>2, <2>5 DEF ConInv
    <3> QED
      BY <3>1, <3>2
  <2>9. loc["tty"].pc = "idle" /\ loc["user"].pc = "idle"
    BY <2>1 DEF At
  <2>10. TtyOk(loc["tty"])' /\ UserOk(loc["user"])'
    BY <2>1, <2>9 DEF IInv, TtyOk, UserOk, Advancing
  <2>11. CrtcOk'
    BY <2>1 DEF IInv, CrtcOk
  <2> QED
    BY <2>6, <2>7, <2>8, <2>10, <2>11 DEF IInv
<1>2. CASE InitChar
  <2> DEFINE l == [loc["tty"] EXCEPT !.pc = "p_vmem", !.con = ready - 1,
                                     !.ch = "other"]
  <2>1. /\ tty_pc \in {"digit", "hash"} /\ At("tty", "idle")
        /\ loc' = [loc EXCEPT !["tty"] = l]
        /\ tty_pc' = IF tty_pc = "digit" THEN "hash" ELSE "set_cursor"
        /\ UNCHANGED <<console, ready, nr_current_console, crtc, eflags_if>>
    BY <1>0, <1>2 DEF InitChar, OutChar
  <2>2. ready - 1 \in Con /\ ready - 1 < ready
    BY <1>0, <2>1 DEF Con
  <2>3. l \in Local /\ l.pc = "p_vmem" /\ l.con = ready - 1
    BY <1>0, <2>2 DEF Local, Pcs, Chars
  <2> HIDE DEF l
  <2> QED
    BY <1>0, <2>1, <2>2, <2>3, CallKeeps
<1>3. CASE InitCursor
  <2> DEFINE l == [loc["tty"] EXCEPT !.pc = "disable_int", !.reg = "cursor",
                                     !.next = "idle"]
  <2>1. /\ tty_pc = "set_cursor" /\ At("tty", "idle")
        /\ loc' = [loc EXCEPT !["tty"] = l]
        /\ tty_pc' = IF ready < NR_CONSOLES THEN "init_screen" ELSE "select"
        /\ UNCHANGED <<console, ready, nr_current_console, crtc, eflags_if>>
    BY <1>0, <1>3 DEF InitCursor, SetReg
  <2>2. loc["tty"].con = 0
    BY <1>0, <2>1 DEF At, IInv, ReadyInv
  <2>3. l \in Local /\ l.pc = "disable_int" /\ l.con = 0 /\ l.next = "idle"
    BY <1>0, <2>2 DEF Local, Pcs, Reg
  <2> HIDE DEF l
  <2>4. 0 < ready /\ (ready < NR_CONSOLES \/ ready >= NR_CONSOLES)
    BY <1>0, <2>1
  <2> QED
    BY <1>0, <2>1, <2>3, <2>4, CallKeeps
<1>4. CASE InitSelect
  <2> DEFINE l == [loc["tty"] EXCEPT !.pc = "flush", !.con = 0]
  <2>1. /\ tty_pc = "select" /\ At("tty", "idle")
        /\ loc' = [loc EXCEPT !["tty"] = l]
        /\ nr_current_console' = 0 /\ tty_pc' = "loop"
        /\ UNCHANGED <<console, ready, crtc, eflags_if>>
    BY <1>0, <1>4 DEF InitSelect, Select
  <2>2. l \in Local /\ l.pc = "flush" /\ l.con = 0
    BY <1>0 DEF Local, Pcs
  <2> HIDE DEF l
  <2>3. 0 < ready
    BY <1>0, <2>1
  <2> QED
    BY <1>0, <2>1, <2>2, <2>3, CallKeeps
<1> QED
  BY <1>1, <1>2, <1>3, <1>4 DEF InitTty

LEMMA LoopKeeps ==
  ASSUME IInv,
         \/ \E ch \in Chars : Echo(ch)
         \/ \E dir \in {"scroll_up", "scroll_dn"} : ScrollScreen(dir)
         \/ \E c \in UsedCons : SelectConsole(c)
         \/ \E c \in UsedCons, ch \in UserChars : SysWrite(c, ch)
  PROVE  IInv'
<1>0. /\ loc \in [Actor -> Local] /\ loc["tty"] \in Local /\ loc["user"] \in Local
      /\ "tty" \in Actor /\ "user" \in Actor /\ nr_current_console \in Con
      /\ (tty_pc = "loop" => ready = NR_CONSOLES)
      /\ UsedCons \subseteq Con /\ UserChars \subseteq {"newline", "other"}
      /\ NR_CONSOLES \in Nat /\ \A c \in Con : c < NR_CONSOLES
  BY ConsoleAssumption DEF IInv, TypeInv, ReadyInv, Actor, Con
<1>1. ASSUME NEW ch \in Chars, Echo(ch) PROVE IInv'
  <2> DEFINE l == [loc["tty"] EXCEPT !.pc = "p_vmem", !.con = nr_current_console,
                                     !.ch = ch]
  <2>1. /\ tty_pc = "loop" /\ At("tty", "idle")
        /\ loc' = [loc EXCEPT !["tty"] = l]
        /\ UNCHANGED <<console, ready, tty_pc, nr_current_console, crtc, eflags_if>>
    BY <1>0, <1>1 DEF Echo, OutChar, task
  <2>2. l \in Local /\ l.pc = "p_vmem" /\ l.con = nr_current_console
    BY <1>0 DEF Local, Pcs
  <2> HIDE DEF l
  <2>3. l.con < ready
    BY <1>0, <2>1, <2>2
  <2> QED
    BY <1>0, <2>1, <2>2, <2>3, CallKeeps
<1>2. ASSUME NEW dir \in {"scroll_up", "scroll_dn"}, ScrollScreen(dir) PROVE IInv'
  <2> DEFINE l == [loc["tty"] EXCEPT !.pc = dir, !.con = nr_current_console,
                                     !.next = "idle"]
  <2>1. /\ tty_pc = "loop" /\ At("tty", "idle")
        /\ loc' = [loc EXCEPT !["tty"] = l]
        /\ UNCHANGED <<console, ready, tty_pc, nr_current_console, crtc, eflags_if>>
    BY <1>0, <1>2 DEF ScrollScreen, task
  <2>2. l \in Local /\ l.pc = dir /\ l.con = nr_current_console
    BY <1>0 DEF Local, Pcs
  <2> HIDE DEF l
  <2>3. l.con < ready
    BY <1>0, <2>1, <2>2
  <2> QED
    BY <1>0, <2>1, <2>2, <2>3, CallKeeps
<1>3. ASSUME NEW c \in UsedCons, SelectConsole(c) PROVE IInv'
  <2> DEFINE l == [loc["tty"] EXCEPT !.pc = "flush", !.con = c]
  <2>1. /\ tty_pc = "loop" /\ At("tty", "idle")
        /\ loc' = [loc EXCEPT !["tty"] = l] /\ nr_current_console' = c
        /\ UNCHANGED <<console, ready, tty_pc, crtc, eflags_if>>
    BY <1>0, <1>3 DEF SelectConsole, Select
  <2>2. c \in Con
    BY <1>0
  <2>3. l \in Local /\ l.pc = "flush" /\ l.con = c
    BY <1>0, <2>2 DEF Local, Pcs
  <2> HIDE DEF l
  <2>4. l.con < ready
    BY <1>0, <2>1, <2>2, <2>3
  <2> QED
    BY <1>0, <2>1, <2>2, <2>3, <2>4, CallKeeps
<1>4. ASSUME NEW c \in UsedCons, NEW ch \in UserChars, SysWrite(c, ch) PROVE IInv'
  <2> DEFINE l == [loc["user"] EXCEPT !.pc = "p_vmem", !.con = c, !.ch = ch]
  <2>1. /\ eflags_if /\ c < ready /\ At("user", "idle")
        /\ loc' = [loc EXCEPT !["user"] = l]
        /\ UNCHANGED <<console, ready, tty_pc, nr_current_console, crtc, eflags_if>>
    BY <1>0, <1>4 DEF SysWrite, OutChar, task
  <2>2. c \in Con /\ ch \in {"newline", "other"}
    BY <1>0
  <2>3. l \in Local /\ l.pc = "p_vmem" /\ l.con = c /\ l.ch = ch
    BY <1>0, <2>2 DEF Local, Pcs, Chars
  <2> HIDE DEF l
  <2> QED
    BY <1>0, <2>1, <2>2, <2>3, CallKeeps
<1> QED
  BY <1>1, <1>2, <1>3, <1>4

-----------------------------------------------------------------------------
LEMMA InitIInv == Init => IInv
<1> SUFFICES ASSUME Init PROVE IInv
  OBVIOUS
<1>1. Idle \in Local
  BY Geometry DEF Idle, Local, Pcs, Chars, Reg
<1>2. loc = [a \in Actor |-> Idle] /\ Idle.pc = "idle" /\ Idle.con = 0
      /\ Idle.ch = "other"
  BY DEF Init, Idle
<1>3. TypeInv
  BY <1>1, <1>2, Geometry DEF Init, TypeInv, Actor
<1>4. ReadyInv
  BY <1>2, Geometry DEF Init, ReadyInv
<1>5. \A c \in Con : c < ready => ConInv(c)
  BY DEF Init, Con
<1>6. loc["tty"] = Idle /\ loc["user"] = Idle
  BY <1>2 DEF Actor
<1>7. TtyOk(loc["tty"]) /\ UserOk(loc["user"])
  BY <1>2, <1>6 DEF TtyOk, UserOk, Advancing
<1>8. CrtcOk
  BY <1>2, <1>6 DEF Init, CrtcOk, Section, Actor
<1> QED
  BY <1>3, <1>4, <1>5, <1>7, <1>8 DEF IInv

LEMMA StutterKeeps ==
  ASSUME IInv, UNCHANGED vars
  PROVE  IInv'
BY DEF IInv, TypeInv, ReadyInv, ConInv, TtyOk, UserOk, CrtcOk, vars, console, task

(* IInv is an invariant of the consoles.                                   *)
THEOREM IInvInvariant == Spec => []IInv
<1>1. Init => IInv
  BY InitIInv
<1>2. IInv /\ [Next]_vars => IInv'
  BY MemoryKeeps, PortKeeps, InitTtyKeeps, LoopKeeps, StutterKeeps DEF Next, Step
<1> QED
  BY <1>1, <1>2, PTL DEF Spec

(* Cursor and window keep to their console, whatever the interleaving.     *)
THEOREM WindowCorrect == Spec => []WindowInv
<1>1. IInv => WindowInv
  <2> SUFFICES ASSUME IInv, NEW c \in 0 .. ready - 1
               PROVE  /\ cursor[c] >= original_addr(c)
                      /\ cursor[c] < EndAddr(c) + SCR_WIDTH
                      /\ current_start_addr[c] \in original_addr(c) .. EndAddr(c) - 1
                      /\ (current_start_addr[c] - original_addr(c)) % SCR_WIDTH = 0
    BY DEF WindowInv
  <2>1. ready \in 0 .. NR_CONSOLES /\ NR_CONSOLES \in Nat
    BY Geometry DEF IInv, TypeInv
  <2>2. c \in Con /\ c < ready
    BY <2>1 DEF Con
  <2>3. ConInv(c) /\ cursor[c] \in Int /\ current_start_addr[c] \in Int
    BY <2>2 DEF IInv, TypeInv
  <2>4. (current_start_addr[c] - original_addr(c)) % SCR_WIDTH = 0
    BY <2>2, <2>3, Lines DEF ConInv
  <2>5. original_addr(c) \in Nat /\ EndAddr(c) \in Nat
    BY <2>2, Geometry
  <2> QED
    BY <2>3, <2>4, <2>5 DEF ConInv
<1> QED
  BY <1>1, IInvInvariant, PTL

(* No character is stored outside its console.                             *)
THEOREM CharsCorrect == Spec => []CharsStayInside
<1>1. IInv => CharsStayInside
  <2> SUFFICES ASSUME IInv, NEW a \in Actor, loc[a].pc = "store_char"
               PROVE  loc[a].p_vmem \in
                        original_addr(loc[a].con) .. EndAddr(loc[a].con) - 1
    BY DEF CharsStayInside
  <2> DEFINE c == loc[a].con
  <2>1. c \in Con /\ c < ready /\ loc[a].p_vmem \in Int
    BY LocalFields DEF IInv, ReadyInv
  <2>2. ConInv(c) /\ cursor[c] \in Int
    BY <2>1 DEF IInv, TypeInv
  <2>3. original_addr(c) <= loc[a].p_vmem /\ loc[a].p_vmem < EndAddr(c)
    <3>1. CASE a = "tty"
      BY <3>1 DEF IInv, TtyOk
    <3>2. CASE a = "user"
      <4>1. loc[a].p_vmem = cursor[c] /\ cursor[c] < EndAddr(c) - 1
        BY <3>2 DEF IInv, UserOk, Advancing
      <4> QED
        BY <4>1, <2>1, <2>2, Geometry DEF ConInv
    <3> QED
      BY <3>1, <3>2 DEF Actor
  <2> QED
    BY <2>1, <2>3, Geometry
<1> QED
  BY <1>1, IInvInvariant, PTL

(* The CRTC is never left with half a position.                            *)
THEOREM CrtcCorrect == Spec => []CrtcInv
<1>1. IInv => CrtcInv
  BY DEF IInv, CrtcOk, CrtcInv
<1> QED
  BY <1>1, IInvInvariant, PTL
=============================================================================
