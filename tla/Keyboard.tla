------------------------------ MODULE Keyboard ------------------------------
(***************************************************************************)
(* keyboard_read() of kernel/keyboard.c: from scan codes in the ring to    *)
(* the key that in_process() is given.                                     *)
(*                                                                         *)
(* A key is one to six bytes, which the handler puts into the ring one by  *)
(* one while keyboard_read() takes them out: it waits in the middle of a   *)
(* sequence for the rest.  A ring that is full loses bytes.  The ring is   *)
(* the queue KbRing.tla is shown to implement; set_leds() is in Leds.tla,  *)
(* of which what matters here is that the keyboard's answers get into the  *)
(* ring and kb_ack() may get scan codes.  The keymap is reduced to one row *)
(* for each way a row can be treated.                                      *)
(***************************************************************************)
EXTENDS Naturals, FiniteSets, Sequences, SequencesExt

CONSTANTS
  KB_IN_BYTES,
  Key,       \* the keys of the keyboard that are used
  MaxHeld,   \* bound: keys that are down at the same time
  MaxSent    \* bound: bytes the keyboard has not delivered yet when a key
             \* follows others closely

(* A key for each way a key can be treated.                                *)
Keys == {"a", "1", "ENTER", "F1", "SHIFT_L", "SHIFT_R", "CTRL_L", "CTRL_R",
         "ALT_L", "ALT_R", "CAPS_LOCK", "NUM_LOCK", "SCROLL_LOCK", "HOME",
         "KP_7", "KP_.", "KP_/", "KP_EN", "PRTSCRN", "PAUSE"}

ASSUME KeyAssumption == Key \subseteq Keys

NoKey == [raw |-> "none", flags |-> {}]

Shift == {"SHIFT_L", "SHIFT_R"}
Modifier == Shift \union {"CTRL_L", "CTRL_R", "ALT_L", "ALT_R"}
KB_ACK == \hFA
Lock == {"CAPS_LOCK", "NUM_LOCK", "SCROLL_LOCK"}

VARIABLES
  held,     \* keys that are down
  wanted,   \* locks the user has switched on, until a byte is lost
  typed,    \* what in_process() has not been given yet, until a byte is lost
  sending,  \* bytes on the way to the handler
  ring,     \* kb_in
  lost,     \* a byte has met a full ring or has gone to kb_ack()
  got,      \* the bytes this call of keyboard_read() has taken
  down,     \* shift_l, shift_r, ctrl_l, ctrl_r, alt_l, alt_r
  locks,    \* caps_lock, num_lock, scroll_lock
  key       \* the key for in_process(), or NoKey

user == <<held, wanted, typed>>
line == <<sending, ring, lost>>
decoder == <<got, down, locks, key>>
vars == <<user, line, decoder>>

-----------------------------------------------------------------------------
(* The appendix of include/keymap.h: what the keyboard sends.              *)
Make(k) ==
  CASE k = "a"           -> <<\h1E>>
    [] k = "1"           -> <<\h02>>
    [] k = "ENTER"       -> <<\h1C>>
    [] k = "F1"          -> <<\h3B>>
    [] k = "SHIFT_L"     -> <<\h2A>>
    [] k = "SHIFT_R"     -> <<\h36>>
    [] k = "CTRL_L"      -> <<\h1D>>
    [] k = "CTRL_R"      -> <<\hE0, \h1D>>
    [] k = "ALT_L"       -> <<\h38>>
    [] k = "ALT_R"       -> <<\hE0, \h38>>
    [] k = "CAPS_LOCK"   -> <<\h3A>>
    [] k = "NUM_LOCK"    -> <<\h45>>
    [] k = "SCROLL_LOCK" -> <<\h46>>
    [] k = "HOME"        -> <<\hE0, \h47>>
    [] k = "KP_7"        -> <<\h47>>
    [] k = "KP_."        -> <<\h53>>
    [] k = "KP_/"        -> <<\hE0, \h35>>
    [] k = "KP_EN"       -> <<\hE0, \h1C>>
    [] k = "PRTSCRN"     -> <<\hE0, \h2A, \hE0, \h37>>
    [] k = "PAUSE"       -> <<\hE1, \h1D, \h45, \hE1, \h9D, \hC5>>

Break(k) ==
  CASE k = "PAUSE"   -> <<>>
    [] k = "PRTSCRN" -> <<\hE0, \hB7, \hE0, \hAA>>
    [] OTHER -> [i \in DOMAIN Make(k) |->
                   IF Make(k)[i] = \hE0 THEN \hE0 ELSE Make(k)[i] + \h80]

(* keymap[]: the columns !Shift, Shift and E0 XX.                          *)
keymap(code) ==
  CASE code = \h1E -> <<"a", "A", "NUL">>
    [] code = \h02 -> <<"1", "!", "NUL">>
    [] code = \h1C -> <<"ENTER", "ENTER", "PAD_ENTER">>
    [] code = \h3B -> <<"F1", "F1", "NUL">>
    [] code = \h2A -> <<"SHIFT_L", "SHIFT_L", "NUL">>
    [] code = \h36 -> <<"SHIFT_R", "SHIFT_R", "NUL">>
    [] code = \h1D -> <<"CTRL_L", "CTRL_L", "CTRL_R">>
    [] code = \h38 -> <<"ALT_L", "ALT_L", "ALT_R">>
    [] code = \h3A -> <<"CAPS_LOCK", "CAPS_LOCK", "NUL">>
    [] code = \h45 -> <<"NUM_LOCK", "NUM_LOCK", "NUL">>
    [] code = \h46 -> <<"SCROLL_LOCK", "SCROLL_LOCK", "NUL">>
    [] code = \h47 -> <<"PAD_HOME", "7", "HOME">>
    [] code = \h53 -> <<"PAD_DOT", ".", "DELETE">>
    [] code = \h35 -> <<"/", "?", "PAD_SLASH">>
    [] code = \h37 -> <<"*", "*", "NUL">>
    [] OTHER       -> <<"NUL", "NUL", "NUL">>

Letters == {"a"}
PadKeys == {"PAD_SLASH", "PAD_ENTER", "PAD_DOT", "PAD_HOME"}

-----------------------------------------------------------------------------
Init ==
  /\ held = {}
  /\ wanted = {"NUM_LOCK"}
  /\ typed = <<>>
  /\ sending \in {<<>>, <<KB_ACK>>, <<KB_ACK, KB_ACK>>}
  /\ ring = <<>>
  /\ lost = FALSE
  /\ got = <<>>
  /\ down = {}
  /\ locks = {"NUM_LOCK"}
  /\ key = NoKey

(* Bounds: MaxSent, and one key at a time once a byte is lost.             *)
Send(bytes) ==
  /\ \/ sending = <<>> /\ ring = <<>> /\ (got = <<>> \/ lost)
     \/ ~lost /\ Len(sending) + Len(bytes) <= MaxSent
  /\ sending' = sending \o bytes

Toggled(set, k) == IF k \in set THEN set \ {k} ELSE set \union {k}

(* What pressing k means while the keys hs are down and the locks ls on.   *)
Meaning(k, hs, ls) ==
  LET shifted == hs \intersect Shift # {}
      raw == CASE k = "a" -> IF shifted # ("CAPS_LOCK" \in ls) THEN "A"
                                                               ELSE "a"
               [] k = "1" -> IF shifted THEN "!" ELSE "1"
               [] k = "KP_7" -> IF shifted \/ "NUM_LOCK" \in ls THEN "7"
                                                                ELSE "HOME"
               [] k = "KP_." -> IF shifted \/ "NUM_LOCK" \in ls THEN "."
                                                                ELSE "DELETE"
               [] k = "KP_/" -> "/"
               [] k = "KP_EN" -> "ENTER"
               [] OTHER -> k
      pad == k \in {"KP_/", "KP_EN"} \/ (k \in {"KP_7", "KP_."} /\ ~shifted)
  IN [raw |-> raw,
      flags |-> (hs \intersect Modifier) \union (IF pad THEN {"PAD"} ELSE {})]

(* A key is pressed, or repeats while it is held.                          *)
Press(k) ==
  /\ Send(Make(k))
  /\ held' = held \union {k}
  /\ Cardinality(held') <= MaxHeld
  /\ wanted' = IF ~lost /\ k \in Lock THEN Toggled(wanted, k) ELSE wanted
  /\ typed' = IF lost \/ k \in {"PAUSE", "PRTSCRN"} THEN typed
              ELSE Append(typed, Meaning(k, held', wanted'))
  /\ UNCHANGED <<ring, lost, decoder>>

Release(k) ==
  /\ k \in held
  /\ Send(Break(k))
  /\ held' = held \ {k}
  /\ UNCHANGED <<wanted, typed, ring, lost, decoder>>

Lose(b) ==
  /\ lost' = (lost \/ b)
  /\ IF lost' THEN typed' = <<>> /\ wanted' = {}
              ELSE UNCHANGED <<typed, wanted>>

(* keyboard_handler().                                                     *)
KeyboardHandler ==
  /\ sending # <<>>
  /\ sending' = Tail(sending)
  /\ IF Len(ring) < KB_IN_BYTES
     THEN ring' = Append(ring, Head(sending)) /\ Lose(FALSE)
     ELSE /\ Lose(Head(sending) # KB_ACK)
          /\ UNCHANGED ring
  /\ UNCHANGED <<held, decoder>>

-----------------------------------------------------------------------------
(* set_leds(): the keyboard answers twice, and kb_ack() reads twice, which *)
(* may take an answer, a scan code, or nothing new.                        *)
KbAck(s) ==
  {[rest |-> s, code |-> FALSE]}
    \union {[rest |-> RemoveAt(s, i), code |-> s[i] # KB_ACK] : i \in DOMAIN s}

SetLeds ==
  \E command \in KbAck(Append(sending, KB_ACK)) :
    \E argument \in KbAck(Append(command.rest, KB_ACK)) :
      /\ sending' = argument.rest
      /\ Lose(command.code \/ argument.code)

pausebrk_scode == <<\hE1, \h1D, \h45, \hE1, \h9D, \hC5>>

(* Deviations: PrintScreen is not known; the loop for Pause runs to 6.     *)
WantsNoPrintScreen(g) ==
  \/ g = <<>>
  \/ g # <<>> /\ IsStrictPrefix(g, pausebrk_scode)
  \/ g = <<\hE0>>

WantsSeven(g) ==
  \/ g = <<>>
  \/ g # <<>> /\ IsPrefix(g, pausebrk_scode)
  \/ g \in {<<\hE0>>, <<\hE0, \h2A>>, <<\hE0, \h2A, \hE0>>,
            <<\hE0, \hB7>>, <<\hE0, \hB7, \hE0>>}

(* keyboard_read() has taken g and calls get_byte_from_kbuf(): at the      *)
(* start, as long as it may become a Pause, behind an E0, and as long as   *)
(* it may become a make or a break of PrintScreen.                         *)
Wants(g) ==
  \/ g = <<>>
  \/ g # <<>> /\ IsStrictPrefix(g, pausebrk_scode)
  \/ g \in {<<\hE0>>, <<\hE0, \h2A>>, <<\hE0, \h2A, \hE0>>,
            <<\hE0, \hB7>>, <<\hE0, \hB7, \hE0>>}

GetByte ==
  /\ key = NoKey
  /\ Wants(got)
  /\ ring # <<>>
  /\ got' = Append(got, Head(ring))
  /\ ring' = Tail(ring)
  /\ UNCHANGED <<user, sending, lost, down, locks, key>>

(* The key is PAUSEBREAK or PRINTSCREEN.                                   *)
Special(g) == g \in {pausebrk_scode, <<\hE0, \h2A, \hE0, \h37>>,
                    <<\hE0, \hB7, \hE0, \hAA>>}

code_with_E0(g) == g[1] = \hE0
scan_code(g) == IF code_with_E0(g) THEN g[2] ELSE g[1]
make(g) == scan_code(g) < \h80
keyrow(g) == keymap(scan_code(g) % \h80)

(* keyrow[column], with the modifiers d down and the locks l on.           *)
column(g, d, l) ==
  LET caps == (d \intersect Shift # {})
                # ("CAPS_LOCK" \in l /\ keyrow(g)[1] \in Letters)
  IN IF code_with_E0(g) THEN 3 ELSE IF caps THEN 2 ELSE 1

KeyOf(g, d, l) == keyrow(g)[column(g, d, l)]

(* The switch over the key: the locks are toggled by make, the modifiers   *)
(* follow make and break.                                                  *)
IsLock(g, d, l) == ~Special(g) /\ make(g) /\ KeyOf(g, d, l) \in Lock

(* Deviation: break codes are ignored, those of the modifiers, too.        *)
DownAfterNoBreak(g, d, l) ==
  IF ~Special(g) /\ KeyOf(g, d, l) \in Modifier /\ make(g)
  THEN d \union {KeyOf(g, d, l)} ELSE d

DownAfter(g, d, l) ==
  IF Special(g) \/ KeyOf(g, d, l) \notin Modifier THEN d
  ELSE IF make(g) THEN d \union {KeyOf(g, d, l)} ELSE d \ {KeyOf(g, d, l)}

LocksAfter(g, d, l) ==
  IF IsLock(g, d, l) THEN Toggled(l, KeyOf(g, d, l)) ELSE l

(* The keys of the number pad, with ls on.                                 *)
PadKey(k, ls) ==
  CASE k = "PAD_SLASH" -> "/"
    [] k = "PAD_ENTER" -> "ENTER"
    [] k = "PAD_HOME"  -> IF "NUM_LOCK" \in ls THEN "7" ELSE "HOME"
    [] k = "PAD_DOT"   -> IF "NUM_LOCK" \in ls THEN "." ELSE "DELETE"
    [] OTHER -> k

(* The argument of in_process(): break codes and Pause do not get there.   *)
HasKey(g) == ~Special(g) /\ make(g)

Passed(g, d, l) ==
  [raw |-> PadKey(KeyOf(g, d, l), LocksAfter(g, d, l)),
   flags |-> DownAfter(g, d, l)
               \union (IF KeyOf(g, d, l) \in PadKeys THEN {"PAD"} ELSE {})]

(* keyboard_read() once it has all its bytes: the modifiers, the locks     *)
(* and the LEDs, and a key for in_process() if it is a make.               *)
Decode ==
  /\ key = NoKey
  /\ ~Wants(got)
  /\ got' = <<>>
  /\ down' = DownAfter(got, down, locks)
  /\ locks' = LocksAfter(got, down, locks)
  /\ IF IsLock(got, down, locks) THEN SetLeds
     ELSE UNCHANGED <<sending, lost, typed, wanted>>
  /\ key' = IF HasKey(got) THEN Passed(got, down, locks) ELSE NoKey
  /\ UNCHANGED <<held, ring>>

(* The call of in_process().                                               *)
InProcess ==
  /\ key # NoKey
  /\ key' = NoKey
  /\ typed' = IF typed = <<>> THEN typed ELSE Tail(typed)
  /\ UNCHANGED <<held, wanted, line, got, down, locks>>

KeyboardRead == GetByte \/ Decode \/ InProcess

-----------------------------------------------------------------------------
Next ==
  \/ \E k \in Key : Press(k) \/ Release(k)
  \/ KeyboardHandler
  \/ KeyboardRead

Spec == Init /\ [][Next]_vars

-----------------------------------------------------------------------------
(* As long as no byte is lost, in_process() is given what was typed: the   *)
(* same keys in the same order, with the modifiers and locks of the moment *)
(* each was pressed, however late it is decoded.                           *)
KeysAsTyped == ~lost /\ key # NoKey => typed # <<>> /\ key = Head(typed)

(* When everything has been read, nothing typed is missing, and the        *)
(* decoder knows which modifiers are down and which locks are on.          *)
NothingPending ==
  ~lost /\ sending = <<>> /\ ring = <<>> /\ got = <<>> /\ key = NoKey =>
    typed = <<>> /\ down = held \intersect Modifier /\ locks = wanted

(* When keyboard_read() waits in the middle of a sequence, and all         *)
(* consoles with it, the rest of the sequence is on its way.               *)
WaitEnds == ~lost /\ got # <<>> /\ Wants(got) => ring \o sending # <<>>
=============================================================================
