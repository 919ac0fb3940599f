------------------------------ MODULE TtyProofs -----------------------------
(***************************************************************************)
(* Proofs about task_tty and the keys on their way to it.                  *)
(*                                                                         *)
(* Its loop, Tty.tla, for any number of consoles, any size of their input  *)
(* queues and anything the user types: the types, that an input queue      *)
(* holds one character at most, and that what is typed is shown, once, in  *)
(* order and on the right console.                                         *)
(*                                                                         *)
(* Its calls of set_leds(), Leds.tla, for any scan codes and any size of   *)
(* the keyboard's buffer: commands and arguments reach the keyboard in     *)
(* pairs, although set_leds() never waits for an answer.                   *)
(*                                                                         *)
(* The ring it reads scan codes from, KbRing.tla, for any size and any set *)
(* of codes: the types, the agreement of head, tail and count, and that    *)
(* the ring implements the queue of ByteQueue.tla.                         *)
(***************************************************************************)
EXTENDS Tty, Leds, KbRing, Induction, SequenceTheorems, TLAPS

(* init_tty() has set the pointers of the consoles in front of p_tty.      *)
Initialized ==
  \A c \in Con : pc = "init_tty" /\ c < p_tty =>
                   p_inbuf_head[c] \in Slot /\ p_inbuf_tail[c] \in Slot

IInv == TypeOK /\ QueueShort /\ Initialized

LEMMA AdvanceStays ==
  ASSUME NEW i \in Slot
  PROVE  Advance(i) \in Slot
  BY TtyAssumption DEF Advance, Slot

LEMMA InitEstablishesIInv == Init => IInv
<1> SUFFICES ASSUME Init
             PROVE  IInv
  OBVIOUS
<1>1. PICK ch \in Char : /\ in_buf = [c \in Con |-> [i \in Slot |-> ch]]
                         /\ echo = <<0, ch>>
  BY DEF Init
<1>2. keys \in Seq(Keys)
  BY DEF Init
<1>3. 0 \in Con /\ {0, TTY_IN_BYTES} \subseteq 0 .. TTY_IN_BYTES
  BY TtyAssumption DEF Con
<1>4. TypeOK
  BY <1>1, <1>2, <1>3 DEF Init, TypeOK, Output
<1>5. QueueShort
  BY DEF Init, QueueShort
<1>6. Initialized
  BY <1>3 DEF Init, Initialized, Con
<1> QED
  BY <1>4, <1>5, <1>6 DEF IInv

LEMMA TypeKeepsIInv ==
  ASSUME IInv, NEW k \in Keys, Type(k)
  PROVE  IInv'
<1>1. keys' \in Seq(Keys)
  BY DEF Type, IInv, TypeOK
<1>2. UNCHANGED <<pc, p_tty, queues, nr_current_console, echo>>
  BY DEF Type
<1>3. TypeOK'
  BY <1>1, <1>2 DEF IInv, TypeOK, queues
<1>4. QueueShort' /\ Initialized'
  BY <1>2 DEF IInv, QueueShort, Initialized, queues
<1> QED
  BY <1>3, <1>4 DEF IInv

LEMMA InitTtyKeepsIInv ==
  ASSUME IInv, InitTty
  PROVE  IInv'
<1> USE DEF InitTty
<1>1. 0 \in Con /\ 0 \in Slot /\ 0 \in 0 .. TTY_IN_BYTES
  BY TtyAssumption DEF Con, Slot
<1>2. /\ p_tty' \in Con /\ nr_current_console' \in Con
      /\ pc' \in {"init_tty", "tty_do_read", "tty_do_write"}
  BY <1>1 DEF IInv, TypeOK
<1>3. /\ {p_inbuf_head', p_inbuf_tail'} \subseteq [Con -> 0 .. TTY_IN_BYTES]
      /\ inbuf_count' \in [Con -> 0 .. TTY_IN_BYTES]
  BY <1>1 DEF IInv, TypeOK
<1>4. \A c \in Con : c <= p_tty =>
        p_inbuf_head'[c] \in Slot /\ p_inbuf_tail'[c] \in Slot
  BY <1>1 DEF IInv, TypeOK, Initialized, Con
<1>5. Initialized'
  BY <1>4 DEF IInv, TypeOK, Initialized, Con
<1>6. ASSUME pc' # "init_tty"
      PROVE  {p_inbuf_head', p_inbuf_tail'} \subseteq [Con -> Slot]
  <2>1. \A c \in Con : c <= p_tty
    BY <1>6, TtyAssumption DEF IInv, TypeOK, Con
  <2>2. /\ p_inbuf_head' = [c \in Con |-> p_inbuf_head'[c]]
        /\ p_inbuf_tail' = [c \in Con |-> p_inbuf_tail'[c]]
    BY <1>3
  <2> QED
    BY <2>1, <2>2, <1>4
<1>7. TypeOK'
  BY <1>2, <1>3, <1>6 DEF IInv, TypeOK
<1>8. QueueShort'
  BY DEF IInv, TypeOK, QueueShort
<1> QED
  BY <1>5, <1>7, <1>8 DEF IInv

(* A key goes to an empty queue, or nowhere.                               *)
LEMMA PutKeyFits ==
  ASSUME IInv, pc = "tty_do_read", NEW ch \in Output, PutKey(p_tty, ch)
  PROVE  /\ in_buf' \in [Con -> [Slot -> Output]]
         /\ {p_inbuf_head', p_inbuf_tail'} \subseteq [Con -> Slot]
         /\ inbuf_count' = [inbuf_count EXCEPT ![p_tty] = 1]
         /\ nr_current_console' = nr_current_console
<1>1. \A c \in Con : inbuf_count[c] = 0
  BY DEF IInv, TypeOK, QueueShort
<1>2. p_tty \in Con /\ p_inbuf_head \in [Con -> Slot]
  BY DEF IInv, TypeOK
<1>3. inbuf_count[p_tty] < TTY_IN_BYTES
  BY <1>1, <1>2, TtyAssumption
<1>4. p_inbuf_head[p_tty] \in Slot /\ Advance(p_inbuf_head[p_tty]) \in Slot
  BY <1>2, AdvanceStays
<1>5. in_buf' = [in_buf EXCEPT ![p_tty] =
                   [in_buf[p_tty] EXCEPT ![p_inbuf_head[p_tty]] = ch]]
  BY <1>2, <1>3 DEF PutKey, IInv, TypeOK
<1>6. in_buf' \in [Con -> [Slot -> Output]]
  BY <1>2, <1>4, <1>5 DEF IInv, TypeOK
<1>7. {p_inbuf_head', p_inbuf_tail'} \subseteq [Con -> Slot]
  <2>1. p_inbuf_head' = [p_inbuf_head EXCEPT
                           ![p_tty] = Advance(p_inbuf_head[p_tty])]
    BY <1>3 DEF PutKey
  <2>2. p_inbuf_head' \in [Con -> Slot]
    BY <1>2, <1>4, <2>1
  <2>3. p_inbuf_tail' \in [Con -> Slot]
    BY <1>3 DEF PutKey, IInv, TypeOK
  <2> QED
    BY <2>2, <2>3
<1>8. inbuf_count' = [inbuf_count EXCEPT ![p_tty] = 1]
  BY <1>1, <1>2, <1>3 DEF PutKey, IInv, TypeOK
<1> QED
  BY <1>3, <1>6, <1>7, <1>8 DEF PutKey

LEMMA TtyDoReadKeepsIInv ==
  ASSUME IInv, TtyDoRead
  PROVE  IInv'
<1> USE DEF TtyDoRead
<1>1. /\ p_tty \in Con /\ p_tty' = p_tty /\ echo' = echo
      /\ pc = "tty_do_read" /\ pc' = "tty_do_write"
  BY DEF IInv, TypeOK
<1>2. keys' \in Seq(Keys)
  <2>1. keys \in Seq(Keys)
    BY DEF IInv, TypeOK
  <2>2. CASE keys # <<>> /\ keys' = Tail(keys)
    BY <2>1, <2>2
  <2>3. CASE keys' = keys
    BY <2>1, <2>3
  <2> QED
    BY <2>2, <2>3
<1>3. /\ in_buf' \in [Con -> [Slot -> Output]]
      /\ {p_inbuf_head', p_inbuf_tail'} \subseteq [Con -> Slot]
      /\ \/ inbuf_count' = [inbuf_count EXCEPT ![p_tty] = 1]
         \/ inbuf_count' = inbuf_count
      /\ nr_current_console' \in Con
  <2>1. CASE UNCHANGED <<queues, nr_current_console>>
    BY <2>1, <1>1 DEF IInv, TypeOK, queues
  <2>2. ASSUME NEW ch \in Output, PutKey(p_tty, ch)
        PROVE  <1>3
    BY <2>2, <1>1, PutKeyFits DEF IInv, TypeOK
  <2>3. CASE UNCHANGED queues /\ nr_current_console' \in Con
    BY <2>3, <1>1 DEF IInv, TypeOK, queues
  <2>4. ASSUME NEW k, InProcess(p_tty, k)
        PROVE  <1>3
    <3>1. CASE k.raw \in Char /\ PutKey(p_tty, k.raw)
      BY <3>1, <2>2 DEF Output
    <3>2. CASE PutKey(p_tty, "newline") \/ PutKey(p_tty, "backspace")
      BY <3>2, <2>2 DEF Output
    <3>3. CASE /\ nr_current_console' = IF k.flags # {} /\ k.nr \in Con
                                        THEN k.nr ELSE nr_current_console
               /\ UNCHANGED queues
      BY <3>3, <2>3 DEF IInv, TypeOK
    <3>4. CASE UNCHANGED <<queues, nr_current_console>>
      BY <3>4, <2>1
    <3> QED
      BY <2>4, <3>1, <3>2, <3>3, <3>4 DEF InProcess
  <2> QED
    BY <2>1, <2>4
<1>4. TypeOK'
  <2>1. inbuf_count' \in [Con -> 0 .. TTY_IN_BYTES]
    <3>1. 1 \in 0 .. TTY_IN_BYTES
      BY TtyAssumption
    <3>2. inbuf_count \in [Con -> 0 .. TTY_IN_BYTES]
      BY DEF IInv, TypeOK
    <3>3. [inbuf_count EXCEPT ![p_tty] = 1] \in [Con -> 0 .. TTY_IN_BYTES]
      BY <1>1, <3>1, <3>2
    <3> QED
      BY <1>3, <3>2, <3>3
  <2>2. {p_inbuf_head', p_inbuf_tail'} \subseteq [Con -> 0 .. TTY_IN_BYTES]
    <3>1. Slot \subseteq 0 .. TTY_IN_BYTES
      BY TtyAssumption DEF Slot
    <3> QED
      BY <3>1, <1>3
  <2> QED
    BY <1>1, <1>2, <1>3, <2>1, <2>2 DEF IInv, TypeOK
<1>5. QueueShort'
  BY <1>1, <1>3 DEF IInv, TypeOK, QueueShort
<1>6. Initialized'
  BY <1>1 DEF Initialized
<1> QED
  BY <1>4, <1>5, <1>6 DEF IInv

LEMMA TtyDoWriteKeepsIInv ==
  ASSUME IInv, TtyDoWrite
  PROVE  IInv'
<1> USE DEF TtyDoWrite, HasOutput
<1>1. /\ p_tty \in Con /\ pc = "tty_do_write" /\ pc' = "tty_do_read"
      /\ keys' = keys /\ nr_current_console' = nr_current_console
  BY DEF IInv, TypeOK
<1>2. p_tty' \in Con
  BY <1>1, TtyAssumption DEF NextTty, Con
<1>3. \A c \in Con : inbuf_count'[c] = 0
  <2>1. inbuf_count \in [Con -> 0 .. TTY_IN_BYTES]
    BY DEF IInv, TypeOK
  <2>2. \A c \in Con : inbuf_count[c] > 0 => inbuf_count[c] = 1 /\ c = p_tty
    BY DEF IInv, QueueShort
  <2>3. CASE inbuf_count[p_tty] # 0
    <3>1. inbuf_count' = [inbuf_count EXCEPT ![p_tty] = @ - 1]
      BY <2>3
    <3> QED
      BY <1>1, <2>1, <2>2, <2>3, <3>1
  <2>4. CASE inbuf_count[p_tty] = 0
    <3>1. inbuf_count' = inbuf_count
      BY <2>4 DEF queues
    <3> QED
      BY <1>1, <2>1, <2>2, <2>4, <3>1
  <2> QED
    BY <2>3, <2>4
<1>4. /\ in_buf' = in_buf /\ p_inbuf_head' = p_inbuf_head
      /\ p_inbuf_tail' \in [Con -> Slot]
      /\ inbuf_count' \in [Con -> 0 .. TTY_IN_BYTES]
      /\ echo' \in Con \X Output
  <2>1. /\ p_inbuf_tail[p_tty] \in Slot
        /\ Advance(p_inbuf_tail[p_tty]) \in Slot
        /\ in_buf[p_tty][p_inbuf_tail[p_tty]] \in Output
    BY <1>1, AdvanceStays DEF IInv, TypeOK
  <2>2. CASE inbuf_count[p_tty] # 0
    <3>1. /\ in_buf' = in_buf /\ p_inbuf_head' = p_inbuf_head
          /\ p_inbuf_tail' = [p_inbuf_tail EXCEPT
                                ![p_tty] = Advance(p_inbuf_tail[p_tty])]
          /\ inbuf_count' = [inbuf_count EXCEPT ![p_tty] = @ - 1]
          /\ echo' = <<p_tty, in_buf[p_tty][p_inbuf_tail[p_tty]]>>
      BY <2>2
    <3>2. p_inbuf_tail' \in [Con -> Slot]
      BY <1>1, <2>1, <3>1 DEF IInv, TypeOK
    <3>3. inbuf_count[p_tty] - 1 \in 0 .. TTY_IN_BYTES
      BY <1>1, <2>2, TtyAssumption DEF IInv, TypeOK
    <3>4. inbuf_count' \in [Con -> 0 .. TTY_IN_BYTES]
      BY <1>1, <3>1, <3>3 DEF IInv, TypeOK
    <3> QED
      BY <1>1, <2>1, <3>1, <3>2, <3>4
  <2>3. CASE inbuf_count[p_tty] = 0
    BY <1>1, <2>3 DEF IInv, TypeOK, queues
  <2> QED
    BY <2>2, <2>3
<1>5. TypeOK'
  <2>1. Slot \subseteq 0 .. TTY_IN_BYTES
    BY TtyAssumption DEF Slot
  <2> QED
    BY <1>1, <1>2, <1>4, <2>1 DEF IInv, TypeOK
<1>6. QueueShort' /\ Initialized'
  BY <1>1, <1>3 DEF QueueShort, Initialized
<1> QED
  BY <1>5, <1>6 DEF IInv

LEMMA NextKeepsIInv == IInv /\ [Next]_vars => IInv'
<1> SUFFICES ASSUME IInv, [Next]_vars
             PROVE  IInv'
  OBVIOUS
<1>1. CASE \E k \in Keys : Type(k)
  BY <1>1, TypeKeepsIInv
<1>2. CASE TaskTty
  BY <1>2, InitTtyKeepsIInv, TtyDoReadKeepsIInv, TtyDoWriteKeepsIInv
     DEF TaskTty
<1>3. CASE UNCHANGED vars
  BY <1>3 DEF vars, queues, IInv, TypeOK, QueueShort, Initialized
<1> QED
  BY <1>1, <1>2, <1>3 DEF Next

(* The types, and that the pointers stay in their queue.                   *)
THEOREM TypeCorrect == Spec => []TypeOK
<1>1. IInv => TypeOK
  BY DEF IInv
<1> QED
  BY <1>1, InitEstablishesIInv, NextKeepsIInv, PTL DEF Spec

(* However fast the user types, an input queue holds one character at      *)
(* most: put_key() never drops one, and nothing is left behind in a        *)
(* console that is not shown.                                              *)
THEOREM QueueCorrect == Spec => []QueueShort
<1>1. IInv => QueueShort
  BY DEF IInv
<1> QED
  BY <1>1, InitEstablishesIInv, NextKeepsIInv, PTL DEF Spec

-----------------------------------------------------------------------------
(* What tty_do_write() can show, with its console.                         *)
Shown == Con \X Output

(* A key selects a console there is.                                       *)
LEMMA SelectsType ==
  ASSUME NEW c \in Con, NEW k
  PROVE  Selects(c, k) \in Con
  BY DEF Selects

(* A key shows one character or nothing.                                   *)
LEMMA ShowsType ==
  ASSUME NEW c \in Con, NEW k
  PROVE  /\ Shows(c, k) \in Seq(Shown)
         /\ Shows(c, k) = <<>> \/ \E b \in Shown : Shows(c, k) = <<b>>
<1>1. CASE k.raw \in Char
  <2>1. <<c, k.raw>> \in Shown
    BY <1>1 DEF Shown, Output
  <2>2. Shows(c, k) = << <<c, k.raw>> >>
    BY <1>1 DEF Shows
  <2> QED
    BY <2>1, <2>2
<1>2. CASE k.raw \notin Char
  <2>1. <<c, "newline">> \in Shown /\ <<c, "backspace">> \in Shown
    BY DEF Shown, Output
  <2>2. \/ Shows(c, k) = <<>>
        \/ Shows(c, k) = << <<c, "newline">> >>
        \/ Shows(c, k) = << <<c, "backspace">> >>
    BY <1>2 DEF Shows
  <2>3. CASE Shows(c, k) = <<>>
    BY <2>3
  <2>4. CASE Shows(c, k) = << <<c, "newline">> >>
    BY <2>1, <2>4
  <2>5. CASE Shows(c, k) = << <<c, "backspace">> >>
    BY <2>1, <2>5
  <2> QED
    BY <2>2, <2>3, <2>4, <2>5
<1> QED
  BY <1>1, <1>2

(* The console selected after n keys, and what has been shown by then: the *)
(* functions that Typed is made of.                                        *)
Along(c, ks, con, out) ==
  /\ con \in [0 .. Len(ks) -> Con]
  /\ con[0] = c
  /\ \A i \in 1 .. Len(ks) : con[i] = Selects(con[i - 1], ks[i])
  /\ out \in [0 .. Len(ks) -> Seq(Shown)]
  /\ out[0] = <<>>
  /\ \A i \in 1 .. Len(ks) : out[i] = out[i - 1] \o Shows(con[i - 1], ks[i])

(* They exist: the recursion in Typed defines them.                        *)
LEMMA TypedAlong ==
  ASSUME NEW c \in Con, NEW ks, Len(ks) \in Nat
  PROVE  \E con, out : Along(c, ks, con, out) /\ Typed(c, ks) = out[Len(ks)]
<1> DEFINE N == Len(ks)
           con[n \in 0 .. N] == IF n = 0 THEN c ELSE Selects(con[n - 1], ks[n])
           out[n \in 0 .. N] ==
             IF n = 0 THEN <<>> ELSE out[n - 1] \o Shows(con[n - 1], ks[n])
           P(f) == f = [n \in 0 .. N |->
                          IF n = 0 THEN c ELSE Selects(f[n - 1], ks[n])]
           R(f) == f = [n \in 0 .. N |->
                          IF n = 0 THEN <<>>
                          ELSE f[n - 1] \o Shows(con[n - 1], ks[n])]
           sel == [x \in (1 .. N) \X Con |-> Selects(x[2], ks[x[1]])]
           app == [x \in (1 .. N) \X Seq(Shown) |->
                     x[2] \o Shows(con[x[1] - 1], ks[x[1]])]
<1>1. Typed(c, ks) = out[N]
  BY DEF Typed
<1>2. con = CHOOSE f : P(f)
  OBVIOUS
<1>3. out = CHOOSE f : R(f)
  OBVIOUS
<1> HIDE DEF con, out
<1>4. /\ con \in [0 .. N -> Con] /\ con[0] = c
      /\ \A i \in 1 .. N : con[i] = Selects(con[i - 1], ks[i])
  <2>1. IsStep(sel, N, Con)
    BY SelectsType DEF IsStep
  <2>2. PICK f : Follows(f, N, Con, c, sel)
    <3> HIDE DEF sel
    <3> QED
      BY <2>1, Recursion
  <2>3. /\ f \in [0 .. N -> Con] /\ f[0] = c
        /\ \A i \in 1 .. N : f[i] = sel[<<i, f[i - 1]>>]
    BY <2>2 DEF Follows
  <2>4. \A i \in 1 .. N : f[i] = Selects(f[i - 1], ks[i])
    <3>1. \A i \in 1 .. N : f[i - 1] \in Con
      BY <2>3
    <3> QED
      BY <2>3, <3>1
  <2>5. P(f)
    BY <2>3, <2>4
  <2>6. P(con)
    BY <1>2, <2>5
  <2>7. con[0] = c /\ \A i \in 1 .. N : con[i] = Selects(con[i - 1], ks[i])
    BY <2>6
  <2>8. \A n \in 0 .. N : f[n] = con[n]
    <3>1. \A i \in 1 .. N : f[i - 1] = con[i - 1] => f[i] = con[i]
      BY <2>4, <2>7
    <3>2. f[0] = con[0]
      BY <2>3, <2>7
    <3> QED
      BY <3>1, <3>2, Unique
  <2> QED
    BY <2>3, <2>6, <2>7, <2>8
<1>5. /\ out \in [0 .. N -> Seq(Shown)] /\ out[0] = <<>>
      /\ \A i \in 1 .. N : out[i] = out[i - 1] \o Shows(con[i - 1], ks[i])
  <2>1. IsStep(app, N, Seq(Shown))
    <3>1. \A i \in 1 .. N : Shows(con[i - 1], ks[i]) \in Seq(Shown)
      BY <1>4, ShowsType
    <3>2. \A x \in (1 .. N) \X Seq(Shown) : app[x] \in Seq(Shown)
      BY <3>1
    <3> QED
      BY <3>2 DEF IsStep
  <2>2. PICK f : Follows(f, N, Seq(Shown), <<>>, app)
    <3>1. <<>> \in Seq(Shown)
      OBVIOUS
    <3> HIDE DEF app
    <3> QED
      BY <2>1, <3>1, Recursion
  <2>3. /\ f \in [0 .. N -> Seq(Shown)] /\ f[0] = <<>>
        /\ \A i \in 1 .. N : f[i] = app[<<i, f[i - 1]>>]
    BY <2>2 DEF Follows
  <2>4. \A i \in 1 .. N : f[i] = f[i - 1] \o Shows(con[i - 1], ks[i])
    <3>1. \A i \in 1 .. N : f[i - 1] \in Seq(Shown)
      BY <2>3
    <3> QED
      BY <2>3, <3>1
  <2>5. R(f)
    BY <2>3, <2>4
  <2>6. R(out)
    BY <1>3, <2>5
  <2>7. /\ out[0] = <<>>
        /\ \A i \in 1 .. N : out[i] = out[i - 1] \o Shows(con[i - 1], ks[i])
    BY <2>6
  <2>8. \A n \in 0 .. N : f[n] = out[n]
    <3>1. \A i \in 1 .. N : f[i - 1] = out[i - 1] => f[i] = out[i]
      BY <2>4, <2>7
    <3>2. f[0] = out[0]
      BY <2>3, <2>7
    <3> QED
      BY <3>1, <3>2, Unique
  <2> QED
    BY <2>3, <2>6, <2>7, <2>8
<1>6. Along(c, ks, con, out)
  BY <1>4, <1>5 DEF Along
<1> QED
  BY <1>1, <1>6

(* No more is shown than was typed.                                        *)
LEMMA TypedLength ==
  ASSUME NEW c \in Con, NEW ks, Len(ks) \in Nat
  PROVE  Typed(c, ks) \in Seq(Shown) /\ Len(Typed(c, ks)) <= Len(ks)
<1> DEFINE N == Len(ks)
<1>1. PICK con, out : Along(c, ks, con, out) /\ Typed(c, ks) = out[N]
  BY TypedAlong
<1> DEFINE K == {n \in 0 .. N : Len(out[n]) <= n}
<1>2. 0 \in K
  BY <1>1 DEF Along
<1>3. ASSUME NEW n \in 0 .. N - 1, n \in K
      PROVE  n + 1 \in K
  <2>1. n + 1 \in 1 .. N /\ n \in 0 .. N /\ (n + 1) - 1 = n
    OBVIOUS
  <2>2. con[n] \in Con /\ out[n] \in Seq(Shown)
        /\ out[n + 1] = out[n] \o Shows(con[n], ks[n + 1])
    BY <1>1, <2>1 DEF Along
  <2>3. Shows(con[n], ks[n + 1]) \in Seq(Shown)
    BY <2>2, ShowsType
  <2>7. Len(Shows(con[n], ks[n + 1])) <= 1
    BY <2>2, ShowsType
  <2>4. Len(out[n + 1]) = Len(out[n]) + Len(Shows(con[n], ks[n + 1]))
    BY <2>2, <2>3, ConcatProperties
  <2>5. /\ Len(out[n]) \in Nat /\ Len(out[n]) <= n
        /\ Len(Shows(con[n], ks[n + 1])) \in Nat
    BY <1>3, <2>2, <2>3, LenProperties
  <2>6. Len(out[n + 1]) <= n + 1
    <3> DEFINE a == Len(out[n])
               b == Len(Shows(con[n], ks[n + 1]))
               r == Len(out[n + 1])
    <3>1. a \in Nat /\ b \in Nat /\ a <= n /\ b <= 1 /\ r = a + b
      BY <2>4, <2>5, <2>7
    <3> HIDE DEF a, b, r
    <3>2. r <= n + 1
      BY <3>1
    <3> QED
      BY <3>2 DEF r
  <2> QED
    BY <2>1, <2>6
<1> HIDE DEF K
<1>4. \A n \in 0 .. N : n \in K
  BY <1>2, <1>3, UpTo
<1>5. N \in K
  BY <1>4
<1> QED
  BY <1>1, <1>5 DEF K, Along

(* No keys show nothing.                                                   *)
LEMMA TypedNothing ==
  ASSUME NEW c \in Con
  PROVE  Typed(c, <<>>) = <<>>
<1>1. PICK con, out : /\ Along(c, <<>>, con, out)
                      /\ Typed(c, <<>>) = out[Len(<<>>)]
  <2>1. Len(<<>>) \in Nat
    OBVIOUS
  <2> QED
    BY <2>1, TypedAlong
<1> QED
  BY <1>1 DEF Along

(* A key typed last shows last, on the console that those before it        *)
(* select.                                                                 *)
LEMMA TypedAppend ==
  ASSUME NEW c \in Con, NEW ks \in Seq(Keys), NEW k \in Keys
  PROVE  \E d \in Con : Typed(c, Append(ks, k)) = Typed(c, ks) \o Shows(d, k)
<1> DEFINE N == Len(ks)
           ls == Append(ks, k)
<1>1. /\ N \in Nat /\ Len(ls) = N + 1 /\ Len(ls) \in Nat
      /\ ls[N + 1] = k /\ \A i \in 1 .. N : ls[i] = ks[i]
  BY AppendProperties, LenProperties
<1>0. N \in Nat
  BY <1>1
<1>2. PICK con, out : Along(c, ks, con, out) /\ Typed(c, ks) = out[N]
  BY <1>1, TypedAlong
<1>3. PICK con2, out2 : /\ Along(c, ls, con2, out2)
                        /\ Typed(c, ls) = out2[Len(ls)]
  BY <1>1, TypedAlong
<1> HIDE DEF ls
<1>4. \A n \in 0 .. N : con[n] = con2[n]
  <2>1. con[0] = con2[0]
    BY <1>2, <1>3 DEF Along
  <2>2. \A i \in 1 .. N : con[i - 1] = con2[i - 1] => con[i] = con2[i]
    <3>1. \A i \in 1 .. N : i \in 1 .. Len(ls)
      BY <1>1
    <3> QED
      BY <1>1, <1>2, <1>3, <3>1 DEF Along
  <2> QED
    BY <1>0, <2>1, <2>2, Unique
<1>5. \A n \in 0 .. N : out[n] = out2[n]
  <2>1. out[0] = out2[0]
    BY <1>2, <1>3 DEF Along
  <2>2. \A i \in 1 .. N : out[i - 1] = out2[i - 1] => out[i] = out2[i]
    <3>1. \A i \in 1 .. N : i \in 1 .. Len(ls) /\ con[i - 1] = con2[i - 1]
      BY <1>1, <1>4
    <3> QED
      BY <1>1, <1>2, <1>3, <3>1 DEF Along
  <2> QED
    BY <1>0, <2>1, <2>2, Unique
<1>6. out2[N + 1] = out2[N] \o Shows(con2[N], k) /\ con2[N] \in Con
  <2>1. N + 1 \in 1 .. Len(ls) /\ (N + 1) - 1 = N /\ N \in 0 .. Len(ls)
    BY <1>1
  <2> QED
    BY <1>1, <1>3, <2>1 DEF Along
<1>7. out[N] = out2[N]
  BY <1>1, <1>5
<1> QED
  BY <1>1, <1>2, <1>3, <1>6, <1>7 DEF ls

(* What the first key shows comes first, and the rest is as if typed on    *)
(* the console it selects.                                                 *)
LEMMA TypedHead ==
  ASSUME NEW c \in Con, NEW ks \in Seq(Keys), ks # <<>>
  PROVE  Typed(c, ks)
           = Shows(c, Head(ks)) \o Typed(Selects(c, Head(ks)), Tail(ks))
<1> DEFINE N == Len(ks) - 1
           ls == Tail(ks)
           k == Head(ks)
           d == Selects(c, k)
           S == Shows(c, k)
<1>1. /\ N \in Nat /\ Len(ks) = N + 1 /\ Len(ls) = N /\ ks[1] = k
      /\ \A i \in 1 .. N : ls[i] = ks[i + 1]
  BY HeadTailProperties, LenProperties
<1>2. PICK con, out : Along(c, ks, con, out) /\ Typed(c, ks) = out[N + 1]
  BY <1>1, TypedAlong
<1>3. d \in Con /\ S \in Seq(Shown)
  BY SelectsType, ShowsType
<1>4. PICK con2, out2 : Along(d, ls, con2, out2) /\ Typed(d, ls) = out2[N]
  BY <1>1, <1>3, TypedAlong
<1> HIDE DEF N, ls, k, d, S
<1>5. \A i \in 1 .. N : /\ i + 1 \in 1 .. Len(ks) /\ i \in 1 .. Len(ls)
                        /\ (i + 1) - 1 = i /\ (i - 1) + 1 = i
                        /\ i - 1 \in 0 .. N
  BY <1>1
<1> DEFINE K == {n \in 0 .. N : /\ con[n + 1] = con2[n]
                                /\ out[n + 1] = S \o out2[n]}
<1>6. 0 \in K
  <2>1. 1 \in 1 .. Len(ks) /\ 1 - 1 = 0
    BY <1>1
  <2>2. /\ con[1] = Selects(con[0], ks[1])
        /\ out[1] = out[0] \o Shows(con[0], ks[1])
    BY <1>2, <2>1 DEF Along
  <2>3. con[0] = c /\ out[0] = <<>> /\ con2[0] = d /\ out2[0] = <<>>
    BY <1>2, <1>4 DEF Along
  <2>4. con[1] = d /\ out[1] = <<>> \o S
    BY <1>1, <2>2, <2>3 DEF d, S
  <2>5. <<>> \o S = S /\ S \o <<>> = S
    BY <1>3, ConcatEmptySeq
  <2>6. 0 \in 0 .. N /\ 0 + 1 = 1
    BY <1>1
  <2>7. con[0 + 1] = con2[0] /\ out[0 + 1] = S \o out2[0]
    BY <2>3, <2>4, <2>5, <2>6
  <2> QED
    BY <2>6, <2>7
<1>7. ASSUME NEW n \in 0 .. N - 1, n \in K
      PROVE  n + 1 \in K
  <2>1. n + 1 \in 1 .. N /\ n \in 0 .. N /\ (n + 1) - 1 = n /\ n + 1 \in 0 .. N
    BY <1>1
  <2> DEFINE m == n + 1
  <2>2. /\ con[m + 1] = Selects(con[m], ks[m + 1])
        /\ out[m + 1] = out[m] \o Shows(con[m], ks[m + 1])
    BY <1>2, <1>5, <2>1 DEF Along
  <2>3. /\ con2[m] = Selects(con2[n], ls[m])
        /\ out2[m] = out2[n] \o Shows(con2[n], ls[m])
        /\ con2[n] \in Con /\ out2[n] \in Seq(Shown)
    BY <1>1, <1>4, <1>5, <2>1 DEF Along
  <2>4. con[m] = con2[n] /\ out[m] = S \o out2[n]
    BY <1>7
  <2>5. ls[m] = ks[m + 1] /\ Shows(con2[n], ls[m]) \in Seq(Shown)
    BY <1>1, <2>1, <2>3, ShowsType
  <2>6. (S \o out2[n]) \o Shows(con2[n], ls[m])
          = S \o (out2[n] \o Shows(con2[n], ls[m]))
    <3>1. \A r, s, t \in Seq(Shown) : (r \o s) \o t = r \o (s \o t)
      BY ConcatAssociative
    <3> QED
      BY <1>3, <2>3, <2>5, <3>1, Zenon
  <2>7. con[m + 1] = con2[m] /\ out[m + 1] = S \o out2[m]
    BY <2>2, <2>3, <2>4, <2>5, <2>6, Zenon
  <2> QED
    BY <2>1, <2>7
<1> HIDE DEF K
<1>8. \A n \in 0 .. N : n \in K
  BY <1>1, <1>6, <1>7, UpTo
<1>9. out[N + 1] = S \o out2[N]
  <2>1. N \in K
    BY <1>1, <1>8
  <2> QED
    BY <2>1 DEF K
<1> QED
  BY <1>2, <1>4, <1>9 DEF S, d, k, ls

-----------------------------------------------------------------------------
(* No console has anything in its queue.                                   *)
Empty == \A c \in Con : inbuf_count[c] = 0

(* x is what waits in the queue of p, and nothing else waits.              *)
Holds(p, x) ==
  /\ p \in Con /\ x = <<p, in_buf[p][p_inbuf_tail[p]]>>
  /\ inbuf_count[p] = 1 /\ p_inbuf_tail[p] \in Slot
  /\ \A c \in Con : c # p => inbuf_count[c] = 0

(* AllQueued is built queue by queue.                                      *)
LEMMA QueuesAlong ==
  ASSUME NEW S, \A c \in Con : Queued(c) \in Seq(S)
  PROVE  \E f \in [0 .. NR_CONSOLES -> Seq(S)] :
           /\ f[0] = <<>>
           /\ \A i \in 1 .. NR_CONSOLES : f[i] = f[i - 1] \o Queued(i - 1)
           /\ AllQueued = f[NR_CONSOLES]
<1> DEFINE N == NR_CONSOLES
           queued[c \in 0 .. N] ==
             IF c = 0 THEN <<>> ELSE queued[c - 1] \o Queued(c - 1)
           P(f) == f = [c \in 0 .. N |->
                          IF c = 0 THEN <<>> ELSE f[c - 1] \o Queued(c - 1)]
           app == [x \in (1 .. N) \X Seq(S) |-> x[2] \o Queued(x[1] - 1)]
<1>1. AllQueued = queued[N]
  BY DEF AllQueued
<1>2. queued = CHOOSE f : P(f)
  OBVIOUS
<1> HIDE DEF queued
<1>3. N \in Nat /\ \A i \in 1 .. N : i - 1 \in Con
  BY TtyAssumption DEF Con
<1>4. IsStep(app, N, Seq(S))
  <2>1. \A i \in 1 .. N : Queued(i - 1) \in Seq(S)
    BY <1>3
  <2>2. \A x \in (1 .. N) \X Seq(S) : app[x] \in Seq(S)
    BY <2>1
  <2> QED
    BY <2>2 DEF IsStep
<1>5. PICK f : Follows(f, N, Seq(S), <<>>, app)
  <2>1. <<>> \in Seq(S)
    OBVIOUS
  <2> HIDE DEF app
  <2> QED
    BY <1>3, <1>4, <2>1, Recursion
<1>6. /\ f \in [0 .. N -> Seq(S)] /\ f[0] = <<>>
      /\ \A i \in 1 .. N : f[i] = app[<<i, f[i - 1]>>]
  BY <1>5 DEF Follows
<1>7. \A i \in 1 .. N : f[i] = f[i - 1] \o Queued(i - 1)
  <2>1. \A i \in 1 .. N : f[i - 1] \in Seq(S)
    <3>1. \A i \in 1 .. N : i - 1 \in 0 .. N
      BY <1>3
    <3> QED
      BY <1>6, <3>1, Zenon
  <2>2. \A i \in 1 .. N, r \in Seq(S) : app[<<i, r>>] = r \o Queued(i - 1)
    <3>1. \A i \in 1 .. N, r \in Seq(S) : /\ <<i, r>> \in (1 .. N) \X Seq(S)
                                          /\ <<i, r>>[1] = i /\ <<i, r>>[2] = r
      OBVIOUS
    <3>2. \A x \in (1 .. N) \X Seq(S) : app[x] = x[2] \o Queued(x[1] - 1)
      BY Zenon
    <3> HIDE DEF app
    <3> QED
      BY <3>1, <3>2, Zenon
  <2> HIDE DEF app
  <2> QED
    BY <1>6, <2>1, <2>2, Zenon
<1> HIDE DEF app
<1>8. P(f)
  <2>1. \A i \in 0 .. N : i = 0 \/ i \in 1 .. N
    BY <1>3
  <2>2. \A i \in 1 .. N : i # 0
    OBVIOUS
  <2>3. \A i \in 0 .. N :
          f[i] = IF i = 0 THEN <<>> ELSE f[i - 1] \o Queued(i - 1)
    BY <1>6, <1>7, <2>1, <2>2, Zenon
  <2> QED
    BY <1>6, <2>3, Zenon
<1>9. P(queued)
  BY <1>2, <1>8
<1>10. /\ queued[0] = <<>>
       /\ \A i \in 1 .. N : queued[i] = queued[i - 1] \o Queued(i - 1)
  <2>1. 0 \in 0 .. N /\ \A i \in 1 .. N : i \in 0 .. N /\ i # 0
    BY <1>3
  <2>2. \A i \in 0 .. N :
          queued[i] = IF i = 0 THEN <<>> ELSE queued[i - 1] \o Queued(i - 1)
    BY <1>9, Zenon
  <2> QED
    BY <2>1, <2>2, Zenon
<1>11. \A n \in 0 .. N : f[n] = queued[n]
  <2>1. \A i \in 1 .. N : f[i - 1] = queued[i - 1] => f[i] = queued[i]
    BY <1>7, <1>10
  <2>2. f[0] = queued[0] /\ N \in Nat
    BY <1>3, <1>6, <1>10
  <2> QED
    BY <2>1, <2>2, Unique
<1>12. AllQueued = f[N]
  BY <1>1, <1>3, <1>11
<1> QED
  BY <1>6, <1>7, <1>12

(* Empty queues hold nothing.                                              *)
LEMMA QueuedNothing == Empty => AllQueued = <<>>
<1> SUFFICES ASSUME Empty PROVE AllQueued = <<>>
  OBVIOUS
<1> DEFINE N == NR_CONSOLES
<1>1. \A c \in Con : Queued(c) = <<>>
  BY DEF Queued, Empty
<1>2. \A c \in Con : Queued(c) \in Seq(Shown)
  <2>1. <<>> \in Seq(Shown)
    OBVIOUS
  <2> QED
    BY <1>1, <2>1, Zenon
<1>3. PICK f \in [0 .. N -> Seq(Shown)] :
        /\ f[0] = <<>>
        /\ \A i \in 1 .. N : f[i] = f[i - 1] \o Queued(i - 1)
        /\ AllQueued = f[N]
  BY <1>2, QueuesAlong
<1>4. N \in Nat /\ \A i \in 1 .. N : i - 1 \in Con
  BY TtyAssumption DEF Con
<1> DEFINE K == {n \in 0 .. N : f[n] = <<>>}
<1>5. 0 \in K
  BY <1>3, <1>4
<1>6. ASSUME NEW n \in 0 .. N - 1, n \in K PROVE n + 1 \in K
  <2>1. n + 1 \in 1 .. N /\ n + 1 \in 0 .. N /\ (n + 1) - 1 = n /\ n \in Con
    BY <1>4 DEF Con
  <2>2. f[n + 1] = <<>> \o <<>>
    BY <1>1, <1>3, <1>6, <2>1
  <2> QED
    BY <2>1, <2>2
<1> HIDE DEF K
<1>7. \A n \in 0 .. N : n \in K
  BY <1>4, <1>5, <1>6, UpTo
<1>8. N \in K
  BY <1>4, <1>7
<1> QED
  BY <1>3, <1>8 DEF K

(* One character in one queue is all that the queues hold.                 *)
LEMMA QueuedOne == \A p \in Con, x \in Shown : Holds(p, x) => AllQueued = <<x>>
<1> SUFFICES ASSUME NEW p \in Con, NEW x \in Shown, Holds(p, x)
             PROVE  AllQueued = <<x>>
  OBVIOUS
<1> DEFINE N == NR_CONSOLES
<1>1. \A c \in Con : c # p => Queued(c) = <<>>
  BY DEF Queued, Holds
<1>2. Queued(p) = <<x>>
  <2> DEFINE i == p_inbuf_tail[p]
  <2>1. i \in 0 .. TTY_IN_BYTES - 1 /\ TTY_IN_BYTES \in Nat
    BY TtyAssumption DEF Holds, Slot
  <2> HIDE DEF i
  <2>2. (i + 1 - 1) % TTY_IN_BYTES = i
    BY <2>1, SMTT(30)
  <2>3. Queued(p) = [n \in 1 .. 1 |->
                       <<p, in_buf[p][(i + n - 1) % TTY_IN_BYTES]>>]
    BY DEF Queued, Holds, i
  <2>4. x = <<p, in_buf[p][i]>>
    BY DEF Holds, i
  <2>5. \A n \in 1 .. 1 : <<p, in_buf[p][(i + n - 1) % TTY_IN_BYTES]>> = x
    BY <2>2, <2>4
  <2>6. Queued(p) = [n \in 1 .. 1 |-> x]
    BY <2>3, <2>5
  <2> QED
    BY <2>6
<1>3. \A c \in Con : Queued(c) \in Seq(Shown)
  <2>1. <<>> \in Seq(Shown) /\ <<x>> \in Seq(Shown)
    OBVIOUS
  <2> QED
    BY <1>1, <1>2, <2>1, Zenon
<1>4. PICK f \in [0 .. N -> Seq(Shown)] :
        /\ f[0] = <<>>
        /\ \A i \in 1 .. N : f[i] = f[i - 1] \o Queued(i - 1)
        /\ AllQueued = f[N]
  BY <1>3, QueuesAlong
<1>5. N \in Nat /\ p \in 0 .. N - 1
  BY TtyAssumption DEF Con
<1>10. <<>> \o <<x>> = <<x>> /\ <<x>> \o <<>> = <<x>> /\ <<>> \o <<>> = <<>>
  <2>1. <<x>> \in Seq(Shown) /\ <<>> \in Seq(Shown)
    OBVIOUS
  <2> QED
    BY <2>1, ConcatEmptySeq
<1> DEFINE K == {n \in 0 .. N : f[n] = IF p < n THEN <<x>> ELSE <<>>}
<1>6. 0 \in K
  BY <1>4, <1>5
<1>7. ASSUME NEW n \in 0 .. N - 1, n \in K PROVE n + 1 \in K
  <2>1. n + 1 \in 1 .. N /\ n + 1 \in 0 .. N /\ (n + 1) - 1 = n /\ n \in Con
    BY <1>5 DEF Con
  <2>2. f[n + 1] = f[n] \o Queued(n) /\ f[n] = IF p < n THEN <<x>> ELSE <<>>
    BY <1>4, <1>7, <2>1
  <2>3. CASE n = p
    <3>1. f[n] = <<>> /\ Queued(n) = <<x>> /\ p < n + 1
      <4>1. ~ (p < n) /\ p < n + 1
        BY <1>5, <2>3
      <4> QED
        BY <1>2, <2>2, <2>3, <4>1, Zenon
    <3> QED
      BY <1>10, <2>1, <2>2, <3>1, Zenon
  <2>4. CASE p < n
    <3>1. f[n] = <<x>> /\ Queued(n) = <<>> /\ p < n + 1
      <4>1. n # p /\ p < n + 1
        BY <1>5, <2>4
      <4> QED
        BY <1>1, <2>1, <2>2, <2>4, <4>1, Zenon
    <3> QED
      BY <1>10, <2>1, <2>2, <3>1, Zenon
  <2>5. CASE n < p
    <3>1. f[n] = <<>> /\ Queued(n) = <<>> /\ ~ (p < n + 1)
      <4>1. n # p /\ ~ (p < n) /\ ~ (p < n + 1)
        BY <1>5, <2>5
      <4> QED
        BY <1>1, <2>1, <2>2, <4>1, Zenon
    <3> QED
      BY <1>10, <2>1, <2>2, <3>1, Zenon
  <2> QED
    BY <1>5, <2>1, <2>3, <2>4, <2>5
<1> HIDE DEF K
<1>8. \A n \in 0 .. N : n \in K
  BY <1>5, <1>6, <1>7, UpTo
<1>9. N \in K
  BY <1>5, <1>8
<1> QED
  BY <1>4, <1>5, <1>9 DEF K

-----------------------------------------------------------------------------
(* What put_key() adds is what the next write shows: between them the      *)
(* pointers are one apart, else they are the same.                         *)
AtHead ==
  \A c \in Con : p_inbuf_head[c] = IF inbuf_count[c] = 0 THEN p_inbuf_tail[c]
                                   ELSE Advance(p_inbuf_tail[c])

(* Why nothing is lost, doubled or out of order: between the write and the *)
(* read no character waits, and the one that the read queues is the one    *)
(* that the write shows, before another key is read.                       *)
EchoInv ==
  /\ IInv
  /\ pc = "init_tty" => nr_current_console = 0
  /\ AtHead

(* The table in bss.                                                       *)
LEMMA InitEstablishesEchoInv == Init => EchoInv
<1> SUFFICES ASSUME Init PROVE EchoInv
  OBVIOUS
<1>1. AtHead
  BY DEF Init, AtHead
<1>2. nr_current_console = 0
  BY DEF Init
<1> QED
  BY <1>1, <1>2, InitEstablishesIInv DEF EchoInv

(* Between a write and the next read nothing waits.                        *)
LEMMA EmptyUnlessWriting == IInv /\ pc # "tty_do_write" => Empty
  BY DEF IInv, QueueShort, TypeOK, Empty

(* So the queues hold nothing then.                                        *)
LEMMA EmptyQueued == IInv /\ pc # "tty_do_write" => AllQueued = <<>>
  BY EmptyUnlessWriting, QueuedNothing

(* The queue that is not empty when the write comes is the only one.       *)
LEMMA HoldsUnlessEmpty ==
  ASSUME IInv, inbuf_count[p_tty] # 0
  PROVE  Holds(p_tty, <<p_tty, in_buf[p_tty][p_inbuf_tail[p_tty]]>>)
  BY DEF IInv, QueueShort, TypeOK, Holds

(* One character at most waits in all the queues.                          *)
LEMMA WaitingType ==
  ASSUME IInv
  PROVE  AllQueued \in Seq(Shown) /\ Len(AllQueued) <= 1
<1>1. CASE Empty
  <2>1. AllQueued = <<>>
    BY <1>1, QueuedNothing
  <2> QED
    BY <2>1
<1>2. CASE ~ Empty
  <2> DEFINE x == <<p_tty, in_buf[p_tty][p_inbuf_tail[p_tty]]>>
  <2>1. p_tty \in Con /\ x \in Shown
    BY <1>2 DEF IInv, TypeOK, QueueShort, Empty, Shown
  <2>2. inbuf_count[p_tty] # 0
    BY <1>2 DEF IInv, TypeOK, QueueShort, Empty
  <2>3. Holds(p_tty, x)
    BY <2>2, HoldsUnlessEmpty
  <2> HIDE DEF x
  <2>4. AllQueued = <<x>>
    BY <2>1, <2>3, QueuedOne
  <2> QED
    BY <2>1, <2>4
<1> QED
  BY <1>1, <1>2

(* PTL: what the lemmas say of a state they say of the next one.           *)
LEMMA QueuedNothingNext == Empty' => AllQueued' = <<>>
<1>1. Empty => AllQueued = <<>>
  BY QueuedNothing
<1>2. (Empty => AllQueued = <<>>)'
  BY <1>1, PTL
<1> QED
  BY <1>2

LEMMA QueuedOneNext ==
  \A p \in Con, x \in Shown : Holds(p, x)' => AllQueued' = <<x>>
<1> SUFFICES ASSUME NEW CONSTANT p \in Con, NEW CONSTANT x \in Shown
             PROVE  Holds(p, x)' => AllQueued' = <<x>>
  OBVIOUS
<1>1. Holds(p, x) => AllQueued = <<x>>
  BY QueuedOne
<1>2. (Holds(p, x) => AllQueued = <<x>>)'
  BY <1>1, PTL
<1> QED
  BY <1>2

-----------------------------------------------------------------------------
(* A key typed adds what it shows to the end of what is still to be shown, *)
(* even if it is read only after a switch of the console.                  *)
LEMMA TypeOffers ==
  ASSUME EchoInv, NEW k \in Keys, Type(k)
  PROVE  EchoInv' /\ (Q!Offer \/ UNCHANGED <<Pending, echo>>)
<1> DEFINE c == nr_current_console
           T == Typed(c, keys)
<1>1. /\ c \in Con /\ keys \in Seq(Keys)
      /\ Len(keys) \in Nat /\ Len(keys) < MaxKeys
  BY DEF EchoInv, IInv, TypeOK, Type
<1>2. /\ keys' = Append(keys, k) /\ nr_current_console' = c /\ echo' = echo
      /\ AllQueued' = AllQueued
  BY DEF Type, AllQueued, Queued, queues
<1>3. EchoInv'
  <2>1. UNCHANGED <<pc, queues, nr_current_console>>
    BY DEF Type
  <2> QED
    BY <2>1, TypeKeepsIInv DEF EchoInv, AtHead, queues
<1>4. PICK d \in Con : Typed(c, Append(keys, k)) = T \o Shows(d, k)
  BY <1>1, TypedAppend
<1>5. T \in Seq(Shown) /\ Len(T) <= Len(keys) /\ Len(T) \in Nat
  BY <1>1, TypedLength, LenProperties
<1>6. AllQueued \in Seq(Shown) /\ Len(AllQueued) <= 1 /\ Len(AllQueued) \in Nat
  BY WaitingType, LenProperties DEF EchoInv
<1>7. Pending = AllQueued \o T
  BY DEF Pending
<1>8. Pending' = AllQueued \o (T \o Shows(d, k))
  BY <1>2, <1>4 DEF Pending
<1> HIDE DEF T
<1>9. Pending \in Seq(Shown) /\ Len(Pending) < MaxKeys + 1
  <2>1. Len(Pending) = Len(AllQueued) + Len(T) /\ Pending \in Seq(Shown)
    BY <1>5, <1>6, <1>7, ConcatProperties
  <2> DEFINE a == Len(AllQueued)
             b == Len(T)
             n == Len(keys)
             r == Len(Pending)
  <2>2. /\ a \in Nat /\ b \in Nat /\ n \in Nat
        /\ a <= 1 /\ b <= n /\ n < MaxKeys /\ r = a + b
    BY <1>1, <1>5, <1>6, <2>1
  <2> HIDE DEF a, b, n, r
  <2>3. r < MaxKeys + 1
    BY <2>2, TtyAssumption
  <2> QED
    BY <2>1, <2>3 DEF r
<1>10. Pending' = Pending \o Shows(d, k)
  <2>1. \A r, s, t \in Seq(Shown) : (r \o s) \o t = r \o (s \o t)
    BY ConcatAssociative
  <2>2. Shows(d, k) \in Seq(Shown)
    BY ShowsType
  <2> QED
    BY <1>5, <1>6, <1>7, <1>8, <2>1, <2>2, Zenon
<1>11. CASE Shows(d, k) = <<>>
  <2>1. Pending' = Pending
    BY <1>9, <1>10, <1>11, ConcatEmptySeq
  <2> QED
    BY <1>2, <1>3, <2>1
<1>12. ASSUME NEW b \in Shown, Shows(d, k) = <<b>>
       PROVE  Q!Offer
  <2>1. Pending' = Append(Pending, b)
    <3>1. \A r \in Seq(Shown) : r \o <<b>> = Append(r, b)
      OBVIOUS
    <3> QED
      BY <1>9, <1>10, <1>12, <3>1, Zenon
  <2> QED
    BY <1>2, <1>9, <2>1 DEF Q!Offer, Shown
<1> QED
  BY <1>3, <1>11, <1>12, ShowsType

(* Keys typed before the table is set up stay where they are.              *)
LEMMA InitTtyKeepsPending ==
  ASSUME EchoInv, InitTty
  PROVE  EchoInv' /\ UNCHANGED <<Pending, echo>>
<1>1. pc = "init_tty" /\ nr_current_console' = nr_current_console
      /\ keys' = keys /\ echo' = echo
  BY DEF InitTty, EchoInv
<1>2. IInv' /\ pc' # "tty_do_write"
  BY InitTtyKeepsIInv DEF InitTty, EchoInv
<1>3. Empty' 
  <2>1. Empty
    BY <1>1, EmptyUnlessWriting DEF EchoInv
  <2> QED
    BY <2>1 DEF InitTty, Empty, EchoInv, IInv, TypeOK
<1>4. AllQueued = <<>> /\ AllQueued' = <<>>
  BY <1>1, <1>3, EmptyQueued, QueuedNothingNext DEF EchoInv
<1>5. EchoInv'
  <2>1. AtHead'
    BY <1>1 DEF InitTty, EchoInv, IInv, TypeOK, AtHead
  <2> QED
    BY <1>1, <1>2, <2>1 DEF EchoInv
<1> QED
  BY <1>1, <1>4, <1>5 DEF Pending

(* put_key() puts the character where tty_do_write() looks for it.         *)
LEMMA PutKeyQueues ==
  ASSUME EchoInv, pc = "tty_do_read", NEW CONSTANT p, p = p_tty,
         NEW CONSTANT ch \in Output, PutKey(p, ch)
  PROVE  AtHead' /\ AllQueued' = << <<p, ch>> >>
<1>1. /\ Empty /\ p \in Con
      /\ p_inbuf_head \in [Con -> Slot] /\ p_inbuf_tail \in [Con -> Slot]
      /\ inbuf_count \in [Con -> 0 .. TTY_IN_BYTES]
      /\ in_buf \in [Con -> [Slot -> Output]]
  BY EmptyUnlessWriting DEF EchoInv, IInv, TypeOK
<1>2. /\ in_buf' = [in_buf EXCEPT ![p] =
                       [in_buf[p] EXCEPT ![p_inbuf_head[p]] = ch]]
      /\ p_inbuf_head' = [p_inbuf_head EXCEPT ![p] = Advance(p_inbuf_head[p])]
      /\ p_inbuf_tail' = p_inbuf_tail
      /\ inbuf_count' = [inbuf_count EXCEPT ![p] = 1]
  BY <1>1, TtyAssumption DEF PutKey, Empty
<1>3. \A c \in Con : p_inbuf_head[c] = p_inbuf_tail[c]
  BY <1>1 DEF EchoInv, AtHead, Empty
<1>4. AtHead'
  <2>1. \A c \in Con : inbuf_count'[c] = IF c = p THEN 1 ELSE 0
    BY <1>1, <1>2 DEF Empty
  <2>2. \A c \in Con :
          p_inbuf_head'[c] = IF c = p THEN Advance(p_inbuf_tail[c])
                             ELSE p_inbuf_tail[c]
    BY <1>1, <1>2, <1>3
  <2> QED
    BY <1>2, <2>1, <2>2 DEF AtHead
<1>5. Holds(p, <<p, ch>>)'
  <2>1. in_buf'[p][p_inbuf_tail'[p]] = ch
    BY <1>1, <1>2, <1>3
  <2>2. \A c \in Con : inbuf_count'[c] = IF c = p THEN 1 ELSE 0
    BY <1>1, <1>2 DEF Empty
  <2>3. p_inbuf_tail'[p] \in Slot
    BY <1>1, <1>2
  <2> QED
    BY <1>1, <2>1, <2>2, <2>3 DEF Holds
<1>6. <<p, ch>> \in Shown
  BY <1>1 DEF Shown
<1> QED
  BY <1>1, <1>4, <1>5, <1>6, QueuedOneNext

(* in_process() queues what the key shows and selects what it selects.     *)
LEMMA ReadQueues ==
  ASSUME EchoInv, pc = "tty_do_read", NEW CONSTANT p, p = p_tty,
         p = nr_current_console,
         NEW CONSTANT k \in Keys, InProcess(p, k)
  PROVE  /\ AtHead' /\ AllQueued' = Shows(p, k)
         /\ nr_current_console' = Selects(p, k)
<1>1. p \in Con
  BY DEF EchoInv, IInv, TypeOK
<1>2. ASSUME NEW CONSTANT ch \in Output, PutKey(p, ch), k.raw # "F",
             Shows(p, k) = << <<p, ch>> >>
      PROVE  /\ AtHead' /\ AllQueued' = Shows(p, k)
             /\ nr_current_console' = Selects(p, k)
  <2>1. nr_current_console' = p
    BY <1>2 DEF PutKey
  <2> QED
    BY <1>2, <2>1, PutKeyQueues DEF Selects
<1>3. ASSUME UNCHANGED queues, Shows(p, k) = <<>>,
             nr_current_console' = Selects(p, k)
      PROVE  /\ AtHead' /\ AllQueued' = Shows(p, k)
             /\ nr_current_console' = Selects(p, k)
  <2>1. Empty
    BY EmptyUnlessWriting DEF EchoInv
  <2>2. Empty'
    BY <1>3, <2>1 DEF Empty, queues
  <2>3. AtHead'
    BY <1>3 DEF AtHead, queues, EchoInv
  <2> QED
    BY <1>3, <2>2, <2>3, QueuedNothingNext
<1>4. CASE k.raw \in Char /\ PutKey(p, k.raw)
  <2>1. k.raw \in Output /\ k.raw # "F" /\ Shows(p, k) = << <<p, k.raw>> >>
    BY <1>4, TtyAssumption DEF Output, Shows
  <2> QED
    BY <1>2, <1>4, <2>1
<1>5. CASE k.raw = "ENTER" /\ PutKey(p, "newline")
  <2>1. /\ "newline" \in Output /\ k.raw # "F"
        /\ Shows(p, k) = << <<p, "newline">> >>
    BY <1>5, TtyAssumption DEF Output, Shows
  <2> QED
    BY <1>2, <1>5, <2>1
<1>6. CASE k.raw = "BACKSPACE" /\ PutKey(p, "backspace")
  <2>1. /\ "backspace" \in Output /\ k.raw # "F"
        /\ Shows(p, k) = << <<p, "backspace">> >>
    BY <1>6, TtyAssumption DEF Output, Shows
  <2> QED
    BY <1>2, <1>6, <2>1
<1>7. CASE /\ k.raw = "F"
           /\ nr_current_console' = IF k.flags # {} /\ k.nr \in Con THEN k.nr
                                    ELSE nr_current_console
           /\ UNCHANGED queues
  <2>1. Shows(p, k) = <<>> /\ nr_current_console' = Selects(p, k)
    BY <1>7, TtyAssumption DEF Shows, Selects
  <2> QED
    BY <1>3, <1>7, <2>1
<1>8. CASE /\ k.raw \in {"UP", "DOWN", "other"}
           /\ UNCHANGED <<queues, nr_current_console>>
  <2>1. Shows(p, k) = <<>> /\ nr_current_console' = Selects(p, k)
    BY <1>8, TtyAssumption DEF Shows, Selects
  <2> QED
    BY <1>3, <1>8, <2>1
<1> QED
  BY <1>4, <1>5, <1>6, <1>7, <1>8 DEF InProcess

(* The read moves a character from the keys to a queue: what is still to   *)
(* be shown does not change.                                               *)
LEMMA ReadKeepsPending ==
  ASSUME EchoInv, TtyDoRead
  PROVE  EchoInv' /\ UNCHANGED <<Pending, echo>>
<1> DEFINE c == nr_current_console
           k == Head(keys)
<1>1. pc = "tty_do_read" /\ pc' = "tty_do_write" /\ echo' = echo /\ c \in Con
      /\ keys \in Seq(Keys)
  BY DEF TtyDoRead, EchoInv, IInv, TypeOK
<1>2. IInv'
  BY TtyDoReadKeepsIInv DEF EchoInv
<1>3. CASE UNCHANGED <<keys, queues, nr_current_console>>
  <2>1. UNCHANGED Pending
    BY <1>3 DEF Pending, AllQueued, Queued, queues
  <2>2. AtHead'
    BY <1>3 DEF EchoInv, AtHead, queues
  <2> QED
    BY <1>1, <1>2, <2>1, <2>2 DEF EchoInv
<1>4. CASE p_tty = c /\ keys # <<>> /\ InProcess(c, k) /\ keys' = Tail(keys)
  <2>1. k \in Keys
    BY <1>1, <1>4, HeadTailProperties
  <2>2. /\ AtHead' /\ AllQueued' = Shows(c, k)
        /\ nr_current_console' = Selects(c, k)
    BY <1>1, <1>4, <2>1, ReadQueues
  <2>3. AllQueued = <<>>
    BY <1>1, EmptyQueued DEF EchoInv
  <2>4. Typed(c, keys) = Shows(c, k) \o Typed(Selects(c, k), Tail(keys))
    BY <1>1, <1>4, TypedHead
  <2>5. Typed(c, keys) \in Seq(Shown)
    BY <1>1, TypedLength, LenProperties
  <2>6. Pending = Typed(c, keys)
    <3>1. Pending = <<>> \o Typed(c, keys)
      BY <2>3 DEF Pending
    <3> QED
      BY <2>5, <3>1, ConcatEmptySeq
  <2>7. Pending' = Shows(c, k) \o Typed(Selects(c, k), Tail(keys))
    BY <1>4, <2>2 DEF Pending
  <2> QED
    BY <1>1, <1>2, <2>2, <2>4, <2>6, <2>7 DEF EchoInv
<1> QED
  BY <1>3, <1>4 DEF TtyDoRead

(* The write shows the first of what is still to be shown.                 *)
LEMMA WriteTakes ==
  ASSUME EchoInv, TtyDoWrite
  PROVE  EchoInv' /\ (Q!Take \/ UNCHANGED <<Pending, echo>>)
<1> DEFINE T == Typed(nr_current_console, keys)
           x == <<p_tty, in_buf[p_tty][p_inbuf_tail[p_tty]]>>
<1>1. /\ keys' = keys /\ nr_current_console' = nr_current_console
      /\ p_tty \in Con /\ pc' = "tty_do_read" /\ pc = "tty_do_write"
  BY DEF TtyDoWrite, EchoInv, IInv, TypeOK
<1>2. T \in Seq(Shown)
  <2>1. nr_current_console \in Con /\ Len(keys) \in Nat
    BY LenProperties DEF EchoInv, IInv, TypeOK
  <2> QED
    BY <2>1, TypedLength
<1>3. Pending = AllQueued \o T /\ Pending' = AllQueued' \o T
  BY <1>1 DEF Pending
<1>4. CASE inbuf_count[p_tty] # 0
  <2>1. /\ echo' = x
        /\ p_inbuf_tail' = [p_inbuf_tail EXCEPT
                              ![p_tty] = Advance(p_inbuf_tail[p_tty])]
        /\ inbuf_count' = [inbuf_count EXCEPT
                             ![p_tty] = inbuf_count[p_tty] - 1]
        /\ in_buf' = in_buf /\ p_inbuf_head' = p_inbuf_head
    BY <1>4 DEF TtyDoWrite, HasOutput
  <2>2. Holds(p_tty, x)
    BY <1>4, HoldsUnlessEmpty DEF EchoInv
  <2>3. x \in Shown
    BY <1>1, <1>4 DEF EchoInv, IInv, TypeOK, Shown
  <2>4. AllQueued = <<x>>
    <3> HIDE DEF x
    <3> QED
      BY <1>1, <2>2, <2>3, QueuedOne
  <2>5. \A c \in Con : inbuf_count[c] = IF c = p_tty THEN 1 ELSE 0
    BY <2>2 DEF Holds
  <2>6. /\ inbuf_count \in [Con -> 0 .. TTY_IN_BYTES]
        /\ p_inbuf_tail \in [Con -> Slot]
    BY <1>1 DEF EchoInv, IInv, TypeOK
  <2>7. Empty'
    BY <1>1, <2>1, <2>5, <2>6 DEF Empty
  <2>8. AtHead'
    <3>1. \A c \in Con :
            p_inbuf_head[c] = IF c = p_tty THEN Advance(p_inbuf_tail[c])
                              ELSE p_inbuf_tail[c]
      BY <2>5 DEF EchoInv, AtHead
    <3>2. \A c \in Con : p_inbuf_tail'[c] = p_inbuf_head'[c]
      BY <1>1, <2>1, <2>6, <3>1
    <3> QED
      BY <2>7, <3>2 DEF Empty, AtHead
  <2>9. AllQueued' = <<>>
    BY <2>7, QueuedNothingNext
  <2> HIDE DEF x, T
  <2>10. Pending = <<x>> \o T /\ Pending' = T
    <3>1. <<>> \o T = T
      BY <1>2, ConcatEmptySeq
    <3> QED
      BY <1>3, <2>4, <2>9, <3>1
  <2>11. <<x>> \o T # <<>> /\ Head(<<x>> \o T) = x /\ Tail(<<x>> \o T) = T
    BY <1>2, <2>3
  <2>12. Q!Take
    BY <2>1, <2>10, <2>11 DEF Q!Take
  <2>13. EchoInv'
    BY <1>1, <2>8, TtyDoWriteKeepsIInv DEF EchoInv
  <2> QED
    BY <2>12, <2>13
<1>5. CASE inbuf_count[p_tty] = 0
  <2>1. UNCHANGED <<queues, echo>>
    BY <1>5 DEF TtyDoWrite, HasOutput
  <2>2. UNCHANGED <<Pending, echo>>
    BY <1>1, <2>1 DEF Pending, AllQueued, Queued, queues
  <2>3. AtHead'
    BY <2>1 DEF EchoInv, AtHead, queues
  <2>4. EchoInv'
    BY <1>1, <2>3, TtyDoWriteKeepsIInv DEF EchoInv
  <2> QED
    BY <2>2, <2>4
<1> QED
  BY <1>4, <1>5

(* Every step is one of the queue, or none.                                *)
LEMMA NextKeepsEchoInv ==
  EchoInv /\ [Next]_vars => EchoInv' /\ [Q!Next]_<<Pending, echo>>
<1> SUFFICES ASSUME EchoInv, [Next]_vars
             PROVE  EchoInv' /\ [Q!Next]_<<Pending, echo>>
  OBVIOUS
<1>1. ASSUME NEW k \in Keys, Type(k)
      PROVE  EchoInv' /\ [Q!Next]_<<Pending, echo>>
  BY <1>1, TypeOffers DEF Q!Next
<1>2. CASE InitTty
  BY <1>2, InitTtyKeepsPending
<1>3. CASE TtyDoRead
  BY <1>3, ReadKeepsPending
<1>4. CASE TtyDoWrite
  BY <1>4, WriteTakes DEF Q!Next
<1>5. CASE UNCHANGED vars
  <2>1. UNCHANGED <<Pending, echo>>
    BY <1>5 DEF Pending, AllQueued, Queued, vars, queues
  <2>2. IInv'
    BY <1>5, NextKeepsIInv DEF EchoInv
  <2> QED
    BY <1>5, <2>1, <2>2 DEF EchoInv, AtHead, vars, queues
<1> QED
  BY <1>1, <1>2, <1>3, <1>4, <1>5 DEF Next, TaskTty

(* What is typed is shown, once and in order, on the console that was      *)
(* selected when it was typed: for any number of consoles, any size of     *)
(* their queues and of the keyboard's buffer.                              *)
THEOREM EchoCorrect == Spec => EchoedAsTyped
<1>1. Init => Q!Init
  <2> SUFFICES ASSUME Init PROVE Q!Init
    OBVIOUS
  <2>1. IInv /\ pc # "tty_do_write"
    BY InitEstablishesIInv DEF Init
  <2>2. AllQueued = <<>> /\ echo \in Con \X Output
    BY <2>1, EmptyQueued DEF IInv, TypeOK
  <2>3. Typed(nr_current_console, keys) = <<>>
    <3>1. keys = <<>> /\ 0 \in Con /\ nr_current_console = 0
      BY TtyAssumption DEF Init, Con
    <3> QED
      BY <3>1, TypedNothing
  <2>4. Pending = <<>>
    BY <2>2, <2>3 DEF Pending
  <2> QED
    BY <2>2, <2>4 DEF Q!Init
<1> QED
  BY <1>1, InitEstablishesEchoInv, NextKeepsEchoInv, PTL
     DEF Spec, EchoedAsTyped, Q!Spec

-----------------------------------------------------------------------------
(* The keyboard is where set_leds() left it, or about to take over the one *)
(* byte that is under way to it.                                           *)
TakenOver(mode) == input = Nothing /\ kbd.mode = mode

UnderWay(b, mode) == input = b /\ kbd.mode = mode

(* kb_wait() alone keeps the pairs together: it returns when the byte      *)
(* before has been taken over.                                             *)
PairInv ==
  /\ kbd = [sent |-> kbd.sent, mode |-> kbd.mode, lights |-> kbd.lights]
  /\ leds = lock /\ lock \in Lock
  /\ leds_pc \in {"init_keyboard", "wait_command", "out_command", "ack_command",
             "wait_argument", "out_argument", "ack_argument", "idle"}
  /\ leds_pc = "init_keyboard" => TakenOver("command")
  /\ leds_pc = "wait_command" =>
       \/ TakenOver("command")
       \/ \E mask \in Lock : UnderWay(mask, "argument")
  /\ leds_pc = "out_command" => TakenOver("command")
  /\ leds_pc \in {"ack_command", "wait_argument"} =>
       UnderWay(LED_CODE, "command") \/ TakenOver("argument")
  /\ leds_pc = "out_argument" => TakenOver("argument")
  /\ leds_pc \in {"ack_argument", "idle"} =>
       \/ UnderWay(lock, "argument")
       \/ TakenOver("command") /\ kbd.lights = lock

-----------------------------------------------------------------------------
(* A step of set_leds() and its callers.                                   *)
LEMMA SetLedsKeepsPairs ==
  ASSUME PairInv,
         InitKeyboard \/ EnableIrq \/ LockKey \/ SetLeds \/ HandlerReads
  PROVE  PairInv'
<1> USE BytesAssumption DEF PairInv, TakenOver, UnderWay, Lock, cpu, i8042
<1>1. CASE InitKeyboard
  BY <1>1 DEF InitKeyboard
<1>2. CASE EnableIrq
  BY <1>2 DEF EnableIrq
<1>3. CASE LockKey
  <2>1. /\ leds_pc' = "wait_command" /\ lock' \in Lock /\ leds' = lock'
        /\ UNCHANGED <<input, kbd>>
    BY <1>3 DEF LockKey
  <2>2. \/ TakenOver("command")
        \/ \E mask \in Lock : UnderWay(mask, "argument")
    BY <1>3 DEF LockKey
  <2> QED
    BY <2>1, <2>2
<1>4. CASE KbWait
  BY <1>4 DEF KbWait
<1>5. CASE OutByte
  BY <1>5 DEF OutByte
<1>6. CASE KbAck
  BY <1>6 DEF KbAck
<1>7. CASE HandlerReads
  BY <1>7 DEF HandlerReads
<1> QED
  BY <1>1, <1>2, <1>3, <1>4, <1>5, <1>6, <1>7 DEF SetLeds

(* A step of the keyboard.                                                 *)
LEMMA KeyboardKeepsPairs ==
  ASSUME PairInv, KbdReceive \/ KbdSend \/ \E s \in Scan : KbdKey(s)
  PROVE  PairInv'
<1> USE BytesAssumption DEF PairInv, TakenOver, UnderWay, Lock, cpu, i8042
<1>1. CASE KbdReceive
  <2>1. /\ input # Nothing /\ input' = Nothing
        /\ UNCHANGED <<lock, leds_pc, leds>>
        /\ kbd' = [sent |-> kbd'.sent, mode |-> kbd'.mode,
                   lights |-> kbd'.lights]
        /\ kbd'.mode = IF kbd.mode = "command" /\ input = LED_CODE
                       THEN "argument" ELSE "command"
        /\ kbd'.lights = IF kbd.mode = "argument" /\ input \in Lock
                         THEN input ELSE kbd.lights
    BY <1>1 DEF KbdReceive
  <2> QED
    BY <2>1
<1>2. CASE KbdSend \/ \E s \in Scan : KbdKey(s)
  <2>1. UNCHANGED <<lock, leds_pc, leds, input>>
    BY <1>2 DEF KbdSend, KbdKey
  <2>2. \E q : kbd' = [kbd EXCEPT !.sent = q]
    BY <1>2 DEF KbdSend, KbdKey
  <2>3. /\ kbd' = [sent |-> kbd'.sent, mode |-> kbd'.mode,
                   lights |-> kbd'.lights]
        /\ kbd'.mode = kbd.mode /\ kbd'.lights = kbd.lights
    BY <2>2
  <2> QED
    BY <2>1, <2>3
<1> QED
  BY <1>1, <1>2

(* The LEDs follow the lock keys, whatever the keyboard sends meanwhile    *)
(* and whoever reads it.                                                   *)
THEOREM LedsCorrect == LedsSpec => []LedsShowLocks
<1>1. LedsInit => PairInv
  BY DEF LedsInit, PairInv, TakenOver, Lock
<1>2. PairInv /\ [LedsNext]_ledsvars => PairInv'
  <2> SUFFICES ASSUME PairInv, [LedsNext]_ledsvars PROVE PairInv'
    OBVIOUS
  <2>1. CASE UNCHANGED ledsvars
    BY <2>1 DEF PairInv, TakenOver, UnderWay, ledsvars, cpu, i8042
  <2> QED
    BY <2>1, SetLedsKeepsPairs, KeyboardKeepsPairs DEF LedsNext
<1>3. PairInv => LedsShowLocks
  BY BytesAssumption DEF PairInv, TakenOver, UnderWay, LedsShowLocks
<1> QED
  BY <1>1, <1>2, <1>3, PTL DEF LedsSpec

-----------------------------------------------------------------------------
(* From disable_int() to enable_int().                                     *)
Masked == {"read", "tail", "wrap", "load", "store", "enable_int"}

(* Why the invariant holds: the handler runs only where the task is not in *)
(* the middle of moving tail and count, since it is installed after the    *)
(* ring and interrupts are off between the read and the end of count--.    *)
Exclusion ==
  /\ ring_pc \in {"init_ring", "enable_irq"} => ~installed
  /\ eflags_if <=> ring_pc \notin Masked
  /\ ring_pc \in {"init_ring", "enable_irq"} => count = 0
  /\ ring_pc = "store" => load = count

RingIInv == RingTypeOK /\ RingInv /\ Exclusion

-----------------------------------------------------------------------------
LEMMA RingInitEstablishesIInv == RingInit => RingIInv
<1> SUFFICES ASSUME RingInit
             PROVE  RingIInv
  OBVIOUS
<1>1. PICK b \in Byte : buf = [i \in RingSlot |-> b] /\ scan_code = b
  BY DEF RingInit
<1>2. RingTypeOK
  <2>1. buf \in [RingSlot -> Byte] /\ scan_code \in Byte
    BY <1>1
  <2>2. /\ ring_pc = "init_ring" /\ count = 0 /\ kb_data = NoByte /\ load = 0
        /\ installed = FALSE /\ eflags_if = TRUE
    BY DEF RingInit
  <2>3. 0 \in 0 .. KB_IN_BYTES
    BY RingAssumption
  <2> QED
    BY <2>1, <2>2, <2>3 DEF RingTypeOK
<1>3. RingInv
  <2>1. ring_pc = "init_ring"
    BY DEF RingInit
  <2> QED
    BY <2>1 DEF RingInv
<1>4. Exclusion
  BY DEF RingInit, Exclusion, Masked
<1> QED
  BY <1>2, <1>3, <1>4 DEF RingIInv

(* The handler advances head and count together.                           *)
LEMMA HandlerKeepsIInv == RingIInv /\ KeyboardHandler => RingIInv'
<1> SUFFICES ASSUME RingIInv, KeyboardHandler
             PROVE  RingIInv'
  OBVIOUS
<1>1. /\ ring_pc \in {"ready", "disable_int"}
      /\ ring_pc' = ring_pc /\ tail' = tail
      /\ head \in RingSlot /\ tail \in RingSlot
      /\ kb_data \in Byte
  BY DEF RingIInv, RingTypeOK, Exclusion, Masked, KeyboardHandler, ring
<1>2. CASE count < KB_IN_BYTES
  <2>1. RingTypeOK'
    BY <1>1, <1>2, RingAssumption
    DEF RingIInv, RingTypeOK, KeyboardHandler, RingSlot
  <2>2. head' = Wrap(tail + count + 1) /\ count' = count + 1
    BY <1>1, <1>2, RingAssumption
    DEF RingIInv, RingInv, RingTypeOK, KeyboardHandler, Wrap, First, Size,
        Taking, RingSlot
  <2>3. RingInv'
    BY <1>1, <1>2, <2>1, <2>2, RingAssumption
    DEF RingIInv, RingInv, RingTypeOK, Wrap, First, Size, Taking, RingSlot
  <2>4. Exclusion'
    BY <1>1 DEF RingIInv, Exclusion, KeyboardHandler, Masked
  <2> QED
    BY <2>1, <2>3, <2>4 DEF RingIInv
<1>3. CASE ~ (count < KB_IN_BYTES)
  BY <1>1, <1>3 DEF RingIInv, RingTypeOK, RingInv, Exclusion,
                    KeyboardHandler, ring, Wrap, First, Size, Taking
<1> QED
  BY <1>2, <1>3

(* What AdvanceTail and WrapTail do to the pointer is Wrap(tail + 1).       *)
LEMMA WrapAtEnd ==
  ASSUME NEW t \in 0 .. KB_IN_BYTES
  PROVE  /\ Wrap(t) = IF t = KB_IN_BYTES THEN 0 ELSE t
         /\ Wrap(t) \in RingSlot
  BY RingAssumption DEF Wrap, RingSlot

(* The task moves tail and count while nobody else can.                    *)
LEMMA TaskKeepsIInv == RingIInv /\ GetByte => RingIInv'
<1> SUFFICES ASSUME RingIInv, GetByte
             PROVE  RingIInv'
  OBVIOUS
<1> USE RingAssumption DEF RingIInv, RingTypeOK, RingInv, Exclusion, Masked,
                           Step, RingSlot, Wrap, First, Size, Taking, ring
<1>1. CASE Wait
  BY <1>1 DEF GetByte, Wait
<1>2. CASE DisableInt
  BY <1>2 DEF GetByte, DisableInt
<1>3. CASE Read
  BY <1>3 DEF GetByte, Read
<1>4. CASE AdvanceTail
  BY <1>4 DEF GetByte, AdvanceTail
<1>5. CASE WrapTail
  <2>1. /\ ring_pc = "wrap" /\ ring_pc' = "load"
        /\ count' = count /\ head' = head
        /\ head = Wrap(Wrap(tail) + (count - 1))
    BY <1>5 DEF WrapTail
  <2>2. tail \in 0 .. KB_IN_BYTES
    BY <2>1
  <2>3. tail' = IF tail = KB_IN_BYTES THEN 0 ELSE tail
    BY <1>5 DEF WrapTail
  <2>4. tail' = Wrap(tail) /\ tail' \in RingSlot
    BY <2>2, <2>3, WrapAtEnd
  <2>5. RingInv'
    BY <2>1, <2>4
  <2>6. RingTypeOK'
    BY <1>5, <2>1, <2>4 DEF GetByte, WrapTail
  <2>7. Exclusion'
    BY <1>5, <2>1 DEF GetByte, WrapTail
  <2> QED
    BY <2>5, <2>6, <2>7
<1>6. CASE LoadCount
  BY <1>6 DEF GetByte, LoadCount
<1>7. CASE StoreCount
  BY <1>7 DEF GetByte, StoreCount
<1>8. CASE EnableInt
  BY <1>8 DEF GetByte, EnableInt
<1> QED
  BY <1>1, <1>2, <1>3, <1>4, <1>5, <1>6, <1>7, <1>8 DEF GetByte

LEMMA RingNextKeepsIInv == RingIInv /\ [RingNext]_ringvars => RingIInv'
<1> SUFFICES ASSUME RingIInv, [RingNext]_ringvars
             PROVE  RingIInv'
  OBVIOUS
<1> USE DEF RingIInv, RingTypeOK, RingInv, Exclusion, Masked, RingSlot,
            Wrap, First, Size, Taking, ring
<1>1. CASE InitRing
  BY <1>1, RingAssumption DEF InitRing
<1>2. CASE InstallHandler
  BY <1>2 DEF InstallHandler
<1>3. ASSUME NEW b \in Byte, KeyStroke(b)
      PROVE  RingIInv'
  BY <1>3 DEF KeyStroke
<1>4. CASE UNCHANGED ringvars
  BY <1>4 DEF ringvars
<1> QED
  BY <1>1, <1>2, <1>3, <1>4, HandlerKeepsIInv, TaskKeepsIInv DEF RingNext

(* Types and ranges: no pointer that is dereferenced is outside the ring.  *)
THEOREM RingTypeCorrect == RingSpec => []RingTypeOK
<1>1. RingIInv => RingTypeOK
  BY DEF RingIInv
<1> QED
  BY <1>1, RingInitEstablishesIInv, RingNextKeepsIInv, PTL DEF RingSpec

(* Head, tail and count agree, and the task takes from a ring that is not  *)
(* empty.                                                                  *)
THEOREM RingCorrect == RingSpec => []RingInv
<1>1. RingIInv => RingInv
  BY DEF RingIInv
<1> QED
  BY <1>1, RingInitEstablishesIInv, RingNextKeepsIInv, PTL DEF RingSpec

-----------------------------------------------------------------------------
(* Slots read off a ring are a sequence.                                   *)
RingSeq(b, f, n) == [k \in 1 .. n |-> b[Wrap(f + k - 1)]]

LEMMA RingSeqProperties ==
  ASSUME NEW b \in [RingSlot -> Byte], NEW f \in 0 .. KB_IN_BYTES,
         NEW n \in 0 .. KB_IN_BYTES
  PROVE  /\ RingSeq(b, f, n) \in Seq(Byte)
         /\ Len(RingSeq(b, f, n)) = n
         /\ \A k \in 1 .. n : /\ Wrap(f + k - 1) \in RingSlot
                              /\ RingSeq(b, f, n)[k] = b[Wrap(f + k - 1)]
<1>1. \A k \in 1 .. n : Wrap(f + k - 1) \in RingSlot
  BY RingAssumption DEF Wrap, RingSlot
<1>2. \A k \in 1 .. n : b[Wrap(f + k - 1)] \in Byte
  BY <1>1
<1> QED
  BY <1>1, <1>2 DEF RingSeq

(* One byte more at the end of what is in the ring.                        *)
LEMMA RingSeqAppend ==
  ASSUME NEW b \in [RingSlot -> Byte], NEW f \in RingSlot,
         NEW n \in 0 .. KB_IN_BYTES - 1, NEW x \in Byte
  PROVE  RingSeq([b EXCEPT ![Wrap(f + n)] = x], f, n + 1)
           = Append(RingSeq(b, f, n), x)
<1> DEFINE c == [b EXCEPT ![Wrap(f + n)] = x]
           old == RingSeq(b, f, n)
           new == RingSeq(c, f, n + 1)
           app == Append(old, x)
<1>1. /\ f \in 0 .. KB_IN_BYTES /\ n \in 0 .. KB_IN_BYTES
      /\ n + 1 \in 0 .. KB_IN_BYTES /\ n \in Nat
      /\ Wrap(f + n) \in RingSlot
  BY RingAssumption DEF RingSlot, Wrap
<1>2. /\ c \in [RingSlot -> Byte]
      /\ \A s \in RingSlot : c[s] = IF s = Wrap(f + n) THEN x ELSE b[s]
  OBVIOUS
<1> HIDE DEF c
<1>3. /\ old \in Seq(Byte) /\ Len(old) = n
      /\ \A k \in 1 .. n : old[k] = b[Wrap(f + k - 1)]
  BY <1>1, RingSeqProperties
<1>4. /\ new \in Seq(Byte) /\ Len(new) = n + 1
      /\ \A k \in 1 .. n + 1 : new[k] = c[Wrap(f + k - 1)]
  BY <1>1, <1>2, RingSeqProperties
<1> HIDE DEF old, new
<1>5. /\ app \in Seq(Byte) /\ Len(app) = n + 1
      /\ \A k \in 1 .. n : app[k] = old[k]
      /\ app[n + 1] = x
  BY <1>1, <1>3
<1> HIDE DEF app
<1>6. ASSUME NEW k \in 1 .. n
      PROVE  new[k] = app[k]
  <2>1. Wrap(f + k - 1) # Wrap(f + n) /\ Wrap(f + k - 1) \in RingSlot
    BY <1>1, RingAssumption DEF Wrap, RingSlot
  <2>2. c[Wrap(f + k - 1)] = b[Wrap(f + k - 1)]
    BY <2>1, <1>2
  <2>3. k \in 1 .. n + 1
    BY <1>1
  <2> QED
    BY <2>2, <2>3, <1>3, <1>4, <1>5
<1>7. new[n + 1] = x
  <2>1. f + (n + 1) - 1 = f + n /\ n + 1 \in 1 .. n + 1
    BY <1>1 DEF RingSlot
  <2> QED
    BY <2>1, <1>1, <1>2, <1>4
<1>8. ASSUME NEW k \in 1 .. n + 1
      PROVE  new[k] = app[k]
  <2>1. k \in 1 .. n \/ k = n + 1
    BY <1>1
  <2> QED
    BY <2>1, <1>5, <1>6, <1>7
<1>9. new = app
  BY <1>4, <1>5, <1>8, SeqEqual
<1> QED
  BY <1>9 DEF new, old, c, app

(* One byte less at the front.                                             *)
LEMMA RingSeqTail ==
  ASSUME NEW b \in [RingSlot -> Byte], NEW f \in RingSlot,
         NEW n \in 1 .. KB_IN_BYTES
  PROVE  /\ RingSeq(b, f, n) # <<>>
         /\ Head(RingSeq(b, f, n)) = b[f]
         /\ Tail(RingSeq(b, f, n)) = RingSeq(b, f + 1, n - 1)
<1> DEFINE old == RingSeq(b, f, n)
           new == RingSeq(b, f + 1, n - 1)
<1>1. /\ f \in 0 .. KB_IN_BYTES /\ n \in 0 .. KB_IN_BYTES
      /\ f + 1 \in 0 .. KB_IN_BYTES /\ n - 1 \in 0 .. KB_IN_BYTES
      /\ Wrap(f + 1 - 1) = f /\ 1 \in 1 .. n
  BY RingAssumption DEF RingSlot, Wrap
<1>2. old \in Seq(Byte) /\ Len(old) = n
      /\ \A k \in 1 .. n : old[k] = b[Wrap(f + k - 1)]
  BY <1>1, RingSeqProperties
<1>3. new \in Seq(Byte) /\ Len(new) = n - 1
      /\ \A k \in 1 .. n - 1 : new[k] = b[Wrap(f + 1 + k - 1)]
  BY <1>1, RingSeqProperties
<1> HIDE DEF old, new
<1>4. old # <<>>
  BY <1>1, <1>2
<1>5. Head(old) = b[f]
  BY <1>1, <1>2, <1>4
<1>6. Tail(old) \in Seq(Byte) /\ Len(Tail(old)) = n - 1
      /\ \A k \in 1 .. n - 1 : Tail(old)[k] = old[k + 1]
  BY <1>2, <1>4, HeadTailProperties
<1>7. ASSUME NEW k \in 1 .. n - 1
      PROVE  Tail(old)[k] = new[k]
  <2>1. k + 1 \in 1 .. n /\ f + (k + 1) - 1 = f + 1 + k - 1
    BY <1>1
  <2> QED
    BY <2>1, <1>2, <1>3, <1>6
<1>8. Tail(old) = new
  BY <1>3, <1>6, <1>7, SeqEqual
<1> QED
  BY <1>4, <1>5, <1>8 DEF old, new

(* A pointer one past the ring stands for its first slot.                  *)
LEMMA RingSeqWrap ==
  ASSUME NEW b \in [RingSlot -> Byte], NEW f \in 0 .. KB_IN_BYTES,
         NEW n \in 0 .. KB_IN_BYTES - 1
  PROVE  RingSeq(b, Wrap(f), n) = RingSeq(b, f, n)
<1>1. ASSUME NEW k \in 1 .. n
      PROVE  Wrap(Wrap(f) + k - 1) = Wrap(f + k - 1)
  BY RingAssumption DEF Wrap
<1> QED
  BY <1>1 DEF RingSeq

-----------------------------------------------------------------------------
LEMMA ContentsIsRingSeq ==
  /\ Contents = RingSeq(buf, First, Size)
  /\ Contents' = RingSeq(buf', First', Size')
  BY DEF Contents, RingSeq

LEMMA InitMapsToQueue == RingInit => Fifo!Init
<1> SUFFICES ASSUME RingInit
             PROVE  Fifo!Init
  OBVIOUS
<1>1. Size = 0
  BY DEF RingInit, Size, Taking
<1>2. Contents = <<>>
  BY <1>1 DEF Contents
<1>3. scan_code \in Byte
  BY DEF RingInit
<1> QED
  BY <1>2, <1>3 DEF Fifo!Init

(* The handler offers the byte of the 8042 to the queue.                   *)
LEMMA HandlerOffers ==
  ASSUME RingIInv, RingIInv', KeyboardHandler
  PROVE  [Fifo!Next]_<<Contents, scan_code>>
<1>1. /\ ring_pc \in {"ready", "disable_int"}
      /\ ring_pc' = ring_pc /\ tail' = tail
      /\ head \in RingSlot /\ tail \in RingSlot /\ buf \in [RingSlot -> Byte]
      /\ kb_data \in Byte /\ scan_code' = scan_code
      /\ count \in 0 .. KB_IN_BYTES
  BY DEF RingIInv, RingTypeOK, Exclusion, Masked, KeyboardHandler, ring
<1>2. First = tail /\ First' = tail /\ Size = count /\ Size' = count'
  BY <1>1 DEF First, Size, Taking
<1>3. CASE count < KB_IN_BYTES
  <2>1. count' = count + 1 /\ buf' = [buf EXCEPT ![head] = kb_data]
    BY <1>3 DEF KeyboardHandler
  <2>2. head = Wrap(tail + count)
    BY <1>1, <1>2, RingAssumption DEF RingIInv, RingInv, Wrap, RingSlot
  <2>3. count \in 0 .. KB_IN_BYTES - 1
    BY <1>1, <1>3, RingAssumption
  <2>4. RingSeq(buf', tail, count + 1)
          = Append(RingSeq(buf, tail, count), kb_data)
    BY <1>1, <2>1, <2>2, <2>3, RingSeqAppend
  <2>5. Contents' = Append(Contents, kb_data)
    BY <1>2, <2>1, <2>4, ContentsIsRingSeq
  <2>6. Len(Contents) < KB_IN_BYTES
    <3>1. tail \in 0 .. KB_IN_BYTES
      BY <1>1, RingAssumption DEF RingSlot
    <3> QED
      BY <3>1, <1>1, <1>2, <1>3, RingSeqProperties, ContentsIsRingSeq
  <2> QED
    BY <1>1, <2>5, <2>6 DEF Fifo!Next, Fifo!Offer
<1>4. CASE ~ (count < KB_IN_BYTES)
  <2>1. buf' = buf /\ count' = count
    BY <1>4 DEF KeyboardHandler, ring
  <2> QED
    BY <1>1, <1>2, <2>1, ContentsIsRingSeq
<1> QED
  BY <1>3, <1>4

(* The read of the slot takes the byte; the rest of get_byte_from_kbuf()   *)
(* only follows suit.                                                      *)
LEMMA ReadTakes ==
  ASSUME RingIInv, GetByte
  PROVE  [Fifo!Next]_<<Contents, scan_code>>
<1>0. /\ buf \in [RingSlot -> Byte] /\ count \in 0 .. KB_IN_BYTES
      /\ KB_IN_BYTES \in Nat \ {0}
  BY RingAssumption DEF RingIInv, RingTypeOK
<1>1. CASE Read
  <2>1. /\ ring_pc = "read" /\ ring_pc' = "tail" /\ tail' = tail /\ buf' = buf
        /\ count' = count /\ scan_code' = buf[tail] /\ tail \in RingSlot
        /\ count > 0
    BY <1>1 DEF Read, Step, ring, RingIInv, RingTypeOK, RingInv
  <2>2. First = tail /\ First' = tail + 1 /\ Size = count /\ Size' = count - 1
    BY <2>1 DEF First, Size, Taking
  <2>3. count \in 1 .. KB_IN_BYTES
    BY <1>0, <2>1
  <2>4. /\ Contents # <<>> /\ Head(Contents) = scan_code'
        /\ Tail(Contents) = Contents'
    BY <1>0, <2>1, <2>2, <2>3, RingSeqTail, ContentsIsRingSeq
  <2> QED
    BY <2>4 DEF Fifo!Next, Fifo!Take
<1>2. CASE WrapTail
  <2>1. /\ ring_pc = "wrap" /\ ring_pc' = "load"
        /\ buf' = buf /\ count' = count
        /\ scan_code' = scan_code /\ count > 0 /\ tail \in 0 .. KB_IN_BYTES
        /\ tail' = IF tail = KB_IN_BYTES THEN 0 ELSE tail
    BY <1>2, <1>0 DEF WrapTail, Step, RingIInv, RingTypeOK, RingInv, RingSlot
  <2>2. tail' = Wrap(tail)
    BY <2>1, WrapAtEnd
  <2>3. /\ First = tail /\ First' = Wrap(tail)
        /\ Size = count - 1 /\ Size' = count - 1
    BY <2>1, <2>2 DEF First, Size, Taking
  <2>4. count - 1 \in 0 .. KB_IN_BYTES - 1
    BY <1>0, <2>1
  <2> QED
    BY <1>0, <2>1, <2>3, <2>4, RingSeqWrap, ContentsIsRingSeq
<1>3. CASE StoreCount
  <2>1. /\ ring_pc = "store" /\ ring_pc' = "enable_int"
        /\ buf' = buf /\ tail' = tail
        /\ scan_code' = scan_code /\ count' = count - 1
    BY <1>3 DEF StoreCount, Step, RingIInv, Exclusion
  <2>2. First' = First /\ Size' = Size
    BY <2>1 DEF First, Size, Taking
  <2> QED
    BY <2>1, <2>2, ContentsIsRingSeq
<1>4. CASE AdvanceTail
  <2>1. /\ ring_pc = "tail" /\ ring_pc' = "wrap"
        /\ buf' = buf /\ tail' = tail + 1
        /\ scan_code' = scan_code /\ count' = count
    BY <1>4 DEF AdvanceTail, Step
  <2>2. First' = First /\ Size' = Size
    BY <2>1 DEF First, Size, Taking
  <2> QED
    BY <2>1, <2>2, ContentsIsRingSeq
<1>5. CASE Wait \/ DisableInt \/ LoadCount \/ EnableInt
  <2>1. buf' = buf /\ tail' = tail /\ count' = count /\ scan_code' = scan_code
    BY <1>5 DEF Wait, DisableInt, LoadCount, EnableInt, ring
  <2>2. /\ Taking <=> Taking'
        /\ ring_pc # "tail" /\ ring_pc' # "tail"
    BY <1>5 DEF Wait, DisableInt, LoadCount, EnableInt, Step, Taking
  <2>3. First' = First /\ Size' = Size
    BY <2>1, <2>2 DEF First, Size, Taking
  <2> QED
    BY <2>1, <2>3, ContentsIsRingSeq
<1> QED
  BY <1>1, <1>2, <1>3, <1>4, <1>5 DEF GetByte

LEMMA NextMapsToQueue ==
  ASSUME RingIInv, RingIInv', [RingNext]_ringvars
  PROVE  [Fifo!Next]_<<Contents, scan_code>>
<1>1. CASE InitRing
  <2>1. Size = 0 /\ Size' = 0 /\ scan_code' = scan_code
    BY <1>1 DEF InitRing, Size, Taking, RingIInv, Exclusion
  <2> QED
    BY <2>1 DEF Contents
<1>2. CASE \/ InstallHandler \/ UNCHANGED ringvars
           \/ \E b \in Byte : KeyStroke(b)
  <2>1. /\ buf' = buf /\ tail' = tail /\ count' = count
        /\ scan_code' = scan_code
        /\ \/ ring_pc' = ring_pc
           \/ ring_pc = "enable_irq" /\ ring_pc' = "ready"
    BY <1>2 DEF InstallHandler, KeyStroke, ringvars, ring
  <2>2. First' = First /\ Size' = Size
    BY <2>1 DEF First, Size, Taking
  <2> QED
    BY <2>1, <2>2, ContentsIsRingSeq
<1> QED
  BY <1>1, <1>2, HandlerOffers, ReadTakes DEF RingNext

(* The ring, with interrupts coming in between any two memory accesses of  *)
(* the task, is a queue that only loses what it has no room for.           *)
THEOREM ImplementsQueue == RingSpec => ImplementsByteQueue
<1>1. RingIInv /\ RingIInv' /\ [RingNext]_ringvars
        => [Fifo!Next]_<<Contents, scan_code>>
  BY NextMapsToQueue
<1> QED
  BY <1>1, InitMapsToQueue, RingInitEstablishesIInv, RingNextKeepsIInv, PTL
  DEF RingSpec, ImplementsByteQueue, Fifo!Spec
=============================================================================
