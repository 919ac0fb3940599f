------------------------------- MODULE KbRing -------------------------------
(***************************************************************************)
(* The ring kb_in of kernel/keyboard.c between keyboard_handler(), the     *)
(* handler of IRQ 1, and get_byte_from_kbuf() in task_tty.                 *)
(*                                                                         *)
(* The task can be interrupted between any two of its memory accesses,     *)
(* unless it has interrupts off; the handler is one step, since the task   *)
(* does not run before the kernel is left (FrameInv of Interrupt.tla).     *)
(***************************************************************************)
EXTENDS Integers, Sequences

CONSTANTS
  KB_IN_BYTES,  \* size of the ring
  Byte,         \* scan codes
  NoByte        \* what an empty output buffer of the 8042 holds

ASSUME RingAssumption == KB_IN_BYTES \in Nat \ {0} /\ NoByte \notin Byte

RingSlot == 0 .. KB_IN_BYTES - 1

VARIABLES
  buf, head, tail, count,   \* kb_in; the pointers as indexes of buf
  kb_data,     \* output buffer of the 8042; IRQ 1 is raised while it is full
  installed,   \* keyboard_handler is in irq_table and IRQ 1 is not masked
  eflags_if,   \* interrupts are on
  ring_pc,     \* where task_tty is
  load,        \* the register in which it decrements count
  scan_code    \* the byte get_byte_from_kbuf() has read

ring == <<buf, head, tail, count>>
ringvars == <<ring, kb_data, installed, eflags_if, ring_pc, load, scan_code>>

-----------------------------------------------------------------------------
(* The ring is in bss: its pointers are null, here an index out of range.  *)
RingInit ==
  /\ \E b \in Byte : buf = [i \in RingSlot |-> b] /\ scan_code = b
  /\ head = -1
  /\ tail = -1
  /\ count = 0
  /\ kb_data = NoByte
  /\ installed = FALSE
  /\ eflags_if = TRUE
  /\ ring_pc = "init_ring"
  /\ load = 0

(* init_keyboard(): first the ring, then the handler.                      *)
InitRing ==
  /\ ring_pc = "init_ring"
  /\ count' = 0
  /\ head' = 0
  /\ tail' = 0
  /\ ring_pc' = "enable_irq"
  /\ UNCHANGED <<buf, kb_data, installed, eflags_if, load, scan_code>>

InstallHandler ==
  /\ ring_pc = "enable_irq"
  /\ installed' = TRUE
  /\ ring_pc' = "ready"
  /\ UNCHANGED <<ring, kb_data, eflags_if, load, scan_code>>

-----------------------------------------------------------------------------
(* The 8042 hands over a scan code when the last one has been read.        *)
KeyStroke(b) ==
  /\ kb_data = NoByte
  /\ kb_data' = b
  /\ UNCHANGED <<ring, installed, eflags_if, ring_pc, load, scan_code>>

(* Deviation: the handler stores without looking for room.                 *)
KeyboardHandlerNoCheck ==
  /\ installed /\ eflags_if
  /\ kb_data # NoByte
  /\ kb_data' = NoByte
  /\ buf' = [buf EXCEPT ![head] = kb_data]
  /\ head' = IF head + 1 = KB_IN_BYTES THEN 0 ELSE head + 1
  /\ count' = IF count < KB_IN_BYTES THEN count + 1 ELSE count
  /\ UNCHANGED <<tail, installed, eflags_if, ring_pc, load, scan_code>>

(* keyboard_handler(): the byte is read in any case, and stored if there   *)
(* is room.                                                                *)
KeyboardHandler ==
  /\ installed /\ eflags_if
  /\ kb_data # NoByte
  /\ kb_data' = NoByte
  /\ IF count < KB_IN_BYTES
     THEN /\ buf' = [buf EXCEPT ![head] = kb_data]
          /\ head' = IF head + 1 = KB_IN_BYTES THEN 0 ELSE head + 1
          /\ count' = count + 1
          /\ UNCHANGED tail
     ELSE UNCHANGED ring
  /\ UNCHANGED <<installed, eflags_if, ring_pc, load, scan_code>>

-----------------------------------------------------------------------------
(* One memory access of get_byte_from_kbuf().                              *)
Step(from, to) == ring_pc = from /\ ring_pc' = to

(* while (kb_in.count <= 0): the test that ends the wait.                  *)
Wait ==
  /\ Step("ready", "disable_int")
  /\ count > 0
  /\ UNCHANGED <<ring, eflags_if, load, scan_code>>

(* Deviation: interrupts stay on.                                          *)
NoDisableInt ==
  /\ Step("disable_int", "read")
  /\ UNCHANGED <<ring, eflags_if, load, scan_code>>

DisableInt ==
  /\ Step("disable_int", "read")
  /\ eflags_if' = FALSE
  /\ UNCHANGED <<ring, load, scan_code>>

Read ==
  /\ Step("read", "tail")
  /\ scan_code' = buf[tail]
  /\ UNCHANGED <<ring, eflags_if, load>>

AdvanceTail ==
  /\ Step("tail", "wrap")
  /\ tail' = tail + 1
  /\ UNCHANGED <<buf, head, count, eflags_if, load, scan_code>>

(* Deviation: tail is compared with the last slot's index, then never hit. *)
WrapTailLate ==
  /\ Step("wrap", "load")
  /\ tail' = IF tail = KB_IN_BYTES + 1 THEN 0 ELSE tail
  /\ UNCHANGED <<buf, head, count, eflags_if, load, scan_code>>

WrapTail ==
  /\ Step("wrap", "load")
  /\ tail' = IF tail = KB_IN_BYTES THEN 0 ELSE tail
  /\ UNCHANGED <<buf, head, count, eflags_if, load, scan_code>>

(* kb_in.count--, compiled to a load and a store.                          *)
LoadCount ==
  /\ Step("load", "store")
  /\ load' = count
  /\ UNCHANGED <<ring, eflags_if, scan_code>>

StoreCount ==
  /\ Step("store", "enable_int")
  /\ count' = load - 1
  /\ UNCHANGED <<buf, head, tail, eflags_if, load, scan_code>>

(* Deviation: interrupts stay off.                                         *)
NoEnableInt ==
  /\ Step("enable_int", "ready")
  /\ UNCHANGED <<ring, eflags_if, load, scan_code>>

EnableInt ==
  /\ Step("enable_int", "ready")
  /\ eflags_if' = TRUE
  /\ UNCHANGED <<ring, load, scan_code>>

GetByte ==
  /\ \/ Wait \/ DisableInt \/ Read \/ AdvanceTail \/ WrapTail
     \/ LoadCount \/ StoreCount \/ EnableInt
  /\ UNCHANGED <<kb_data, installed>>

-----------------------------------------------------------------------------
RingNext ==
  \/ InitRing \/ InstallHandler
  \/ \E b \in Byte : KeyStroke(b)
  \/ KeyboardHandler
  \/ GetByte

RingSpec == RingInit /\ [][RingNext]_ringvars

(* The task is scheduled again and again and calls keyboard_read() in an   *)
(* endless loop; a pending interrupt is taken where IF is on.              *)
RingFairSpec ==
  /\ RingSpec
  /\ WF_ringvars(InitRing \/ InstallHandler)
  /\ WF_ringvars(GetByte)
  /\ SF_ringvars(KeyboardHandler)

-----------------------------------------------------------------------------
Wrap(i) == IF i >= KB_IN_BYTES THEN i - KB_IN_BYTES ELSE i

(* Between the read of a byte and the end of kb_in.count-- the byte is out *)
(* of the buffer while count still includes it.                            *)
Taking == ring_pc \in {"tail", "wrap", "load", "store"}

First == IF ring_pc = "tail" THEN tail + 1 ELSE tail

Size == IF Taking THEN count - 1 ELSE count

Contents == [k \in 1 .. Size |-> buf[Wrap(First + k - 1)]]

(* Types and ranges, the range of the pointers included: past init_ring()  *)
(* nobody dereferences a pointer that is out of the ring, and tail is one  *)
(* past it only until it is wrapped.                                       *)
RingTypeOK ==
  /\ buf \in [RingSlot -> Byte]
  /\ head \in RingSlot \/ ring_pc = "init_ring"
  /\ \/ tail \in RingSlot \/ ring_pc = "init_ring"
     \/ ring_pc = "wrap" /\ tail = KB_IN_BYTES
  /\ count \in 0 .. KB_IN_BYTES
  /\ kb_data \in Byte \union {NoByte}
  /\ installed \in BOOLEAN
  /\ eflags_if \in BOOLEAN
  /\ ring_pc \in {"init_ring", "enable_irq", "ready", "disable_int", "read",
                  "tail", "wrap", "load", "store", "enable_int"}
  /\ load \in 0 .. KB_IN_BYTES
  /\ scan_code \in Byte

(* Head, tail and count tell the same story, though handler and task each  *)
(* move one of the pointers and both move count; and the task only takes   *)
(* from a ring that is not empty.                                          *)
RingInv ==
  /\ ring_pc # "init_ring" => head = Wrap(Wrap(First) + Size)
  /\ ring_pc \in {"disable_int", "read", "tail", "wrap", "load", "store"}
       => count > 0

Fifo == INSTANCE ByteQueue WITH
       Capacity <- KB_IN_BYTES, q <- Contents, out <- scan_code

(* The ring is a first-in first-out buffer that loses a byte only when it  *)
(* is full.                                                                *)
ImplementsByteQueue == Fifo!Spec

(* Neither a byte in the 8042 nor a full ring stays forever.               *)
KeysServed ==
  /\ kb_data # NoByte ~> kb_data = NoByte
  /\ count = KB_IN_BYTES ~> count < KB_IN_BYTES
=============================================================================
