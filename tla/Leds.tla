-------------------------------- MODULE Leds --------------------------------
(***************************************************************************)
(* set_leds() of kernel/keyboard.c: task_tty sends the keyboard a command  *)
(* and its argument through the 8042, while the keyboard goes on sending   *)
(* scan codes and the handler of IRQ 1 goes on reading them.               *)
(***************************************************************************)
EXTENDS Naturals, Sequences

CONSTANTS
  LED_CODE, KB_ACK,   \* the command, and what the keyboard answers
  Scan,               \* scan codes
  MaxSent,            \* what the keyboard's own buffer holds
  Nothing             \* what is in a buffer of the 8042 that is empty

Lock == {0, 1}        \* the argument, a mask of the lock keys

(* 0xED is no mask of the lock keys, and the bytes are bytes.              *)
ASSUME BytesAssumption ==
  /\ LED_CODE \notin Lock
  /\ Nothing \notin Lock \union {LED_CODE}

VARIABLES
  lock,       \* caps_lock, num_lock and scroll_lock
  leds_pc, leds,   \* where set_leds() is, and its local
  kb_read,    \* the byte kb_ack() has read last
  enabled,    \* keyboard_handler is installed and IRQ 1 unmasked
  input,      \* input buffer of the 8042, for the keyboard
  output,     \* output buffer of the 8042; IRQ 1 is raised while it is full
  stale,      \* what a read of KB_DATA returns while output is empty
  kbd         \* the keyboard: sent but not yet taken over, mode, LEDs

cpu == <<lock, leds_pc, leds, kb_read, enabled>>
i8042 == <<input, output, stale>>
ledsvars == <<cpu, i8042, kbd>>

-----------------------------------------------------------------------------
LedsInit ==
  /\ lock = 0
  /\ leds_pc = "init_keyboard"
  /\ leds = 0
  /\ kb_read = Nothing
  /\ enabled = FALSE
  /\ input = Nothing
  /\ output \in Scan \union {Nothing}
  /\ stale \in Scan
  /\ kbd = [sent |-> <<>>, mode |-> "command", lights |-> 0]

(* init_keyboard() up to and including the call of set_leds(): num_lock on *)
InitKeyboard ==
  /\ leds_pc = "init_keyboard"
  /\ lock' = 1
  /\ leds' = 1
  /\ leds_pc' = "wait_command"
  /\ UNCHANGED <<kb_read, enabled, i8042, kbd>>

(* init_keyboard() behind it: put_irq_handler(), enable_irq().             *)
EnableIrq ==
  /\ leds_pc = "idle"
  /\ ~enabled
  /\ enabled' = TRUE
  /\ UNCHANGED <<lock, leds_pc, leds, kb_read, i8042, kbd>>

(* keyboard_read() has decoded the make code of a lock key.                *)
LockKey ==
  /\ leds_pc = "idle"
  /\ enabled
  /\ lock' = 1 - lock
  /\ leds' = lock'
  /\ leds_pc' = "wait_command"
  /\ UNCHANGED <<kb_read, enabled, i8042, kbd>>

-----------------------------------------------------------------------------
(* Deviation: does not look at the status.                                 *)
KbNoWait ==
  /\ \/ leds_pc = "wait_command" /\ leds_pc' = "out_command"
     \/ leds_pc = "wait_argument" /\ leds_pc' = "out_argument"
  /\ UNCHANGED <<lock, leds, kb_read, enabled, i8042, kbd>>

(* kb_wait(): the read of the status that ends the loop.                   *)
KbWait ==
  /\ input = Nothing
  /\ \/ leds_pc = "wait_command" /\ leds_pc' = "out_command"
     \/ leds_pc = "wait_argument" /\ leds_pc' = "out_argument"
  /\ UNCHANGED <<lock, leds, kb_read, enabled, i8042, kbd>>

OutByte ==
  /\ \/ leds_pc = "out_command" /\ input' = LED_CODE /\ leds_pc' = "ack_command"
     \/ leds_pc = "out_argument" /\ input' = leds /\ leds_pc' = "ack_argument"
  /\ UNCHANGED <<lock, leds, kb_read, enabled, output, stale, kbd>>

(* A read of KB_DATA.                                                      *)
KbData == IF output = Nothing THEN stale ELSE output

InByte == stale' = KbData /\ output' = Nothing

(* Deviation: kb_ack() as it must have been meant, repeated until the read *)
(* is an ACK.  Then the handler may be faster, and the loop never ends.    *)
KbAckMeant ==
  /\ InByte
  /\ kb_read' = KbData
  /\ IF KbData = KB_ACK
     THEN \/ leds_pc = "ack_command" /\ leds_pc' = "wait_argument"
          \/ leds_pc = "ack_argument" /\ leds_pc' = "idle"
     ELSE leds_pc \in {"ack_command", "ack_argument"} /\ UNCHANGED leds_pc
  /\ UNCHANGED <<lock, leds, enabled, input, kbd>>

(* kb_ack(): the condition of its loop assigns !KB_ACK, which is 0, so it  *)
(* ends after one read whatever that read is.                              *)
KbAck ==
  /\ InByte
  /\ kb_read' = KbData
  /\ \/ leds_pc = "ack_command" /\ leds_pc' = "wait_argument"
     \/ leds_pc = "ack_argument" /\ leds_pc' = "idle"
  /\ UNCHANGED <<lock, leds, enabled, input, kbd>>

SetLeds == KbWait \/ OutByte \/ KbAck

(* keyboard_handler(): takes whatever is in the output buffer.             *)
HandlerReads ==
  /\ enabled
  /\ output # Nothing
  /\ InByte
  /\ UNCHANGED <<cpu, input, kbd>>

-----------------------------------------------------------------------------
(* The keyboard's buffer loses what it has no room for.                    *)
Sent(b) == IF Len(kbd.sent) < MaxSent THEN Append(kbd.sent, b) ELSE kbd.sent

(* The keyboard takes over a byte and acknowledges it; a command makes it  *)
(* wait for the argument.                                                  *)
KbdReceive ==
  /\ input # Nothing
  /\ input' = Nothing
  /\ kbd' = [sent |-> Sent(KB_ACK),
             mode |-> IF kbd.mode = "command" /\ input = LED_CODE
                      THEN "argument" ELSE "command",
             lights |-> IF kbd.mode = "argument" /\ input \in Lock
                        THEN input ELSE kbd.lights]
  /\ UNCHANGED <<cpu, output, stale>>

KbdKey(s) ==
  /\ kbd.mode = "command"
  /\ kbd' = [kbd EXCEPT !.sent = Sent(s)]
  /\ UNCHANGED <<cpu, i8042>>

KbdSend ==
  /\ output = Nothing
  /\ kbd.sent # <<>>
  /\ output' = Head(kbd.sent)
  /\ kbd' = [kbd EXCEPT !.sent = Tail(@)]
  /\ UNCHANGED <<cpu, input, stale>>

-----------------------------------------------------------------------------
LedsNext ==
  \/ InitKeyboard \/ EnableIrq \/ LockKey
  \/ SetLeds
  \/ HandlerReads
  \/ KbdReceive \/ KbdSend
  \/ \E s \in Scan : KbdKey(s)

LedsSpec == LedsInit /\ [][LedsNext]_ledsvars

(* task_tty gets the CPU again and again; the keyboard takes what it is    *)
(* sent.                                                                   *)
LedsFairSpec == LedsSpec /\ WF_ledsvars(InitKeyboard) /\ WF_ledsvars(SetLeds) /\ WF_ledsvars(KbdReceive)

-----------------------------------------------------------------------------
(* Commands and arguments reach the keyboard in pairs, though kb_ack()     *)
(* does not wait for it: once a call is over and its bytes are taken over, *)
(* the LEDs show the lock keys, and the keyboard expects a command.        *)
LedsShowLocks ==
  leds_pc = "idle" /\ input = Nothing => kbd.lights = lock /\ kbd.mode = "command"

(* set_leds() returns, and keyboard_read() goes on.                        *)
SetLedsReturns == leds_pc # "idle" ~> leds_pc = "idle"

(* kernel/keyboard.c:339 "when the keyboard has received this command it   *)
(* answers with an ACK (0xFA), then waits for the LED argument byte": the  *)
(* argument is sent after the ACK of the command was read.                 *)
AckRead == leds_pc \in {"wait_argument", "out_argument"} => kb_read = KB_ACK
=============================================================================
