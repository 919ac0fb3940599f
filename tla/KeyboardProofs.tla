--------------------------- MODULE KeyboardProofs ---------------------------
(***************************************************************************)
(* Proofs about Keyboard.tla, for any size of the ring, any of the keys,   *)
(* and bytes that come as fast as they like.                               *)
(*                                                                         *)
(* The bytes in the ring and on their way are a path for the decoder: each *)
(* takes it from one state to the next, and each key that it gives on the  *)
(* way is the next of those that were typed.  Keys that are pressed make   *)
(* the path longer at its end (PressPath, ReleasePath), get_byte_from_kbuf *)
(* takes a step of it (PathRead), and an answer of the keyboard may come   *)
(* and go, wherever it is (PathAck, PathRemove).                           *)
(***************************************************************************)
EXTENDS Keyboard, SequenceTheorems, TLAPS

Byte == 0 .. 255

(* What in_process() can be given.                                         *)
Name == Keys \union {"A", "!", "7", ".", "DELETE", "/"}

Pressed == [raw : Name, flags : SUBSET (Modifier \union {"PAD"})]

(* A state of the decoder: the bytes it has taken of a sequence, the       *)
(* modifiers and locks it knows, and the keys it has given since.          *)
State == [pre : Seq(Byte), down : SUBSET Modifier, locks : SUBSET Lock, n : Nat]

(* s has all its bytes and decodes them, against the keys it should give.  *)
Fits(s, keys) ==
  HasKey(s.pre) =>
    s.n + 1 \in DOMAIN keys /\ keys[s.n + 1] = Passed(s.pre, s.down, s.locks)

Decoded(s) ==
  [pre |-> <<>>, down |-> DownAfter(s.pre, s.down, s.locks),
   locks |-> LocksAfter(s.pre, s.down, s.locks),
   n |-> IF HasKey(s.pre) THEN s.n + 1 ELSE s.n]

(* It goes on waiting, or decodes what it has.                             *)
Settles(s, t, keys) ==
  IF Wants(s.pre) THEN t = s ELSE Fits(s, keys) /\ t = Decoded(s)

Reads(s, b, t, keys) == Settles([s EXCEPT !.pre = Append(s.pre, b)], t, keys)

(* The bytes q take it from s to t, giving keys.  An answer of the         *)
(* keyboard is never in the middle of a sequence.                          *)
Path(s, q, t, keys) ==
  \E run \in [0 .. Len(q) -> State] :
    /\ run[0] = s /\ run[Len(q)] = t
    /\ \A i \in 1 .. Len(q) :
         /\ Reads(run[i - 1], q[i], run[i], keys)
         /\ q[i] = KB_ACK => run[i - 1].pre = <<>>
    /\ \A i, j \in 0 .. Len(q) : i <= j => run[i].n <= run[j].n

(* The sequences keyboard_read() waits in the middle of, and no others.    *)
LEMMA WantsCases ==
  /\ Wants(<<>>)
  /\ Wants(<<224>>)
  /\ Wants(<<224, 42>>)
  /\ Wants(<<224, 42, 224>>)
  /\ Wants(<<224, 183>>)
  /\ Wants(<<224, 183, 224>>)
BY DEF Wants

LEMMA WantsPause ==
  /\ Wants(<<225>>)
  /\ Wants(<<225, 29>>)
  /\ Wants(<<225, 29, 69>>)
  /\ Wants(<<225, 29, 69, 225>>)
  /\ Wants(<<225, 29, 69, 225, 157>>)
  /\ ~Wants(<<225, 29, 69, 225, 157, 197>>)
BY DEF Wants, IsStrictPrefix, IsPrefix, pausebrk_scode

LEMMA WantsOne ==
  ASSUME NEW b \in Byte, b # 224, b # 225
  PROVE  ~Wants(<<b>>)
BY DEF Wants, IsStrictPrefix, IsPrefix, pausebrk_scode

LEMMA WantsTwo ==
  ASSUME NEW b \in Byte, b # 42, b # 183
  PROVE  ~Wants(<<224, b>>)
BY DEF Wants, IsStrictPrefix, IsPrefix, pausebrk_scode

(* Append, on tuples that are written out.                                 *)
LEMMA AppendIs ==
  ASSUME NEW s \in Seq(Byte), NEW x \in Byte, NEW t \in Seq(Byte),
         Len(t) = Len(s) + 1, t[Len(s) + 1] = x,
         \A i \in 1 .. Len(s) : t[i] = s[i]
  PROVE  Append(s, x) = t
<1>1. /\ Append(s, x) \in Seq(Byte) /\ Len(Append(s, x)) = Len(s) + 1
      /\ \A i \in 1 .. Len(s) : Append(s, x)[i] = s[i]
      /\ Append(s, x)[Len(s) + 1] = x
  BY AppendProperties
<1>2. \A i \in 1 .. Len(s) + 1 : Append(s, x)[i] = t[i]
  BY <1>1
<1> QED
  BY <1>1, <1>2, SeqEqual

LEMMA AppendTuples ==
  /\ \A a \in Byte : Append(<<>>, a) = <<a>>
  /\ \A a, b \in Byte : Append(<<a>>, b) = <<a, b>>
  /\ Append(<<224, 42>>, 224) = <<224, 42, 224>>
  /\ Append(<<224, 42, 224>>, 55) = <<224, 42, 224, 55>>
  /\ Append(<<224, 183>>, 224) = <<224, 183, 224>>
  /\ Append(<<224, 183, 224>>, 170) = <<224, 183, 224, 170>>
  /\ Append(<<225>>, 29) = <<225, 29>>
  /\ Append(<<225, 29>>, 69) = <<225, 29, 69>>
  /\ Append(<<225, 29, 69>>, 225) = <<225, 29, 69, 225>>
  /\ Append(<<225, 29, 69, 225>>, 157) = <<225, 29, 69, 225, 157>>
  /\ Append(<<225, 29, 69, 225, 157>>, 197) = <<225, 29, 69, 225, 157, 197>>
<1>1. \A a \in Byte : Append(<<>>, a) = <<a>>
  <2> TAKE a \in Byte
  <2> DEFINE s == <<>>
             t == <<a>>
  <2>1. s \in Seq(Byte) /\ t \in Seq(Byte) /\ a \in Byte
    BY DEF Byte
  <2>2. Len(t) = Len(s) + 1 /\ t[Len(s) + 1] = a /\ \A i \in 1 .. Len(s) : t[i] = s[i]
    OBVIOUS
  <2> HIDE DEF s, t
  <2>3. Append(s, a) = t
    BY <2>1, <2>2, AppendIs
  <2> QED
    BY <2>3 DEF s, t
<1>2. \A a, b \in Byte : Append(<<a>>, b) = <<a, b>>
  <2> TAKE a, b \in Byte
  <2> DEFINE s == <<a>>
             t == <<a, b>>
  <2>1. s \in Seq(Byte) /\ t \in Seq(Byte) /\ b \in Byte
    BY DEF Byte
  <2>2. Len(t) = Len(s) + 1 /\ t[Len(s) + 1] = b /\ \A i \in 1 .. Len(s) : t[i] = s[i]
    OBVIOUS
  <2> HIDE DEF s, t
  <2>3. Append(s, b) = t
    BY <2>1, <2>2, AppendIs
  <2> QED
    BY <2>3 DEF s, t
<1>3. Append(<<224, 42>>, 224) = <<224, 42, 224>>
  <2> DEFINE s == <<224, 42>>
             t == <<224, 42, 224>>
  <2>1. s \in Seq(Byte) /\ t \in Seq(Byte) /\ 224 \in Byte
    BY DEF Byte
  <2>2. Len(t) = Len(s) + 1 /\ t[Len(s) + 1] = 224 /\ \A i \in 1 .. Len(s) : t[i] = s[i]
    OBVIOUS
  <2> HIDE DEF s, t
  <2>3. Append(s, 224) = t
    BY <2>1, <2>2, AppendIs
  <2> QED
    BY <2>3 DEF s, t
<1>4. Append(<<224, 42, 224>>, 55) = <<224, 42, 224, 55>>
  <2> DEFINE s == <<224, 42, 224>>
             t == <<224, 42, 224, 55>>
  <2>1. s \in Seq(Byte) /\ t \in Seq(Byte) /\ 55 \in Byte
    BY DEF Byte
  <2>2. Len(t) = Len(s) + 1 /\ t[Len(s) + 1] = 55 /\ \A i \in 1 .. Len(s) : t[i] = s[i]
    OBVIOUS
  <2> HIDE DEF s, t
  <2>3. Append(s, 55) = t
    BY <2>1, <2>2, AppendIs
  <2> QED
    BY <2>3 DEF s, t
<1>5. Append(<<224, 183>>, 224) = <<224, 183, 224>>
  <2> DEFINE s == <<224, 183>>
             t == <<224, 183, 224>>
  <2>1. s \in Seq(Byte) /\ t \in Seq(Byte) /\ 224 \in Byte
    BY DEF Byte
  <2>2. Len(t) = Len(s) + 1 /\ t[Len(s) + 1] = 224 /\ \A i \in 1 .. Len(s) : t[i] = s[i]
    OBVIOUS
  <2> HIDE DEF s, t
  <2>3. Append(s, 224) = t
    BY <2>1, <2>2, AppendIs
  <2> QED
    BY <2>3 DEF s, t
<1>6. Append(<<224, 183, 224>>, 170) = <<224, 183, 224, 170>>
  <2> DEFINE s == <<224, 183, 224>>
             t == <<224, 183, 224, 170>>
  <2>1. s \in Seq(Byte) /\ t \in Seq(Byte) /\ 170 \in Byte
    BY DEF Byte
  <2>2. Len(t) = Len(s) + 1 /\ t[Len(s) + 1] = 170 /\ \A i \in 1 .. Len(s) : t[i] = s[i]
    OBVIOUS
  <2> HIDE DEF s, t
  <2>3. Append(s, 170) = t
    BY <2>1, <2>2, AppendIs
  <2> QED
    BY <2>3 DEF s, t
<1>7. Append(<<225>>, 29) = <<225, 29>>
  <2> DEFINE s == <<225>>
             t == <<225, 29>>
  <2>1. s \in Seq(Byte) /\ t \in Seq(Byte) /\ 29 \in Byte
    BY DEF Byte
  <2>2. Len(t) = Len(s) + 1 /\ t[Len(s) + 1] = 29 /\ \A i \in 1 .. Len(s) : t[i] = s[i]
    OBVIOUS
  <2> HIDE DEF s, t
  <2>3. Append(s, 29) = t
    BY <2>1, <2>2, AppendIs
  <2> QED
    BY <2>3 DEF s, t
<1>8. Append(<<225, 29>>, 69) = <<225, 29, 69>>
  <2> DEFINE s == <<225, 29>>
             t == <<225, 29, 69>>
  <2>1. s \in Seq(Byte) /\ t \in Seq(Byte) /\ 69 \in Byte
    BY DEF Byte
  <2>2. Len(t) = Len(s) + 1 /\ t[Len(s) + 1] = 69 /\ \A i \in 1 .. Len(s) : t[i] = s[i]
    OBVIOUS
  <2> HIDE DEF s, t
  <2>3. Append(s, 69) = t
    BY <2>1, <2>2, AppendIs
  <2> QED
    BY <2>3 DEF s, t
<1>9. Append(<<225, 29, 69>>, 225) = <<225, 29, 69, 225>>
  <2> DEFINE s == <<225, 29, 69>>
             t == <<225, 29, 69, 225>>
  <2>1. s \in Seq(Byte) /\ t \in Seq(Byte) /\ 225 \in Byte
    BY DEF Byte
  <2>2. Len(t) = Len(s) + 1 /\ t[Len(s) + 1] = 225 /\ \A i \in 1 .. Len(s) : t[i] = s[i]
    OBVIOUS
  <2> HIDE DEF s, t
  <2>3. Append(s, 225) = t
    BY <2>1, <2>2, AppendIs
  <2> QED
    BY <2>3 DEF s, t
<1>10. Append(<<225, 29, 69, 225>>, 157) = <<225, 29, 69, 225, 157>>
  <2> DEFINE s == <<225, 29, 69, 225>>
             t == <<225, 29, 69, 225, 157>>
  <2>1. s \in Seq(Byte) /\ t \in Seq(Byte) /\ 157 \in Byte
    BY DEF Byte
  <2>2. Len(t) = Len(s) + 1 /\ t[Len(s) + 1] = 157 /\ \A i \in 1 .. Len(s) : t[i] = s[i]
    OBVIOUS
  <2> HIDE DEF s, t
  <2>3. Append(s, 157) = t
    BY <2>1, <2>2, AppendIs
  <2> QED
    BY <2>3 DEF s, t
<1>11. Append(<<225, 29, 69, 225, 157>>, 197) = <<225, 29, 69, 225, 157, 197>>
  <2> DEFINE s == <<225, 29, 69, 225, 157>>
             t == <<225, 29, 69, 225, 157, 197>>
  <2>1. s \in Seq(Byte) /\ t \in Seq(Byte) /\ 197 \in Byte
    BY DEF Byte
  <2>2. Len(t) = Len(s) + 1 /\ t[Len(s) + 1] = 197 /\ \A i \in 1 .. Len(s) : t[i] = s[i]
    OBVIOUS
  <2> HIDE DEF s, t
  <2>3. Append(s, 197) = t
    BY <2>1, <2>2, AppendIs
  <2> QED
    BY <2>3 DEF s, t
<1> QED
  BY <1>1, <1>2, <1>3, <1>4, <1>5, <1>6, <1>7, <1>8, <1>9, <1>10, <1>11

-----------------------------------------------------------------------------
(* Without bytes the decoder stays where it is.                            *)
LEMMA PathNone ==
  ASSUME NEW s \in State, NEW keys
  PROVE  Path(s, <<>>, s, keys)
<1> DEFINE run == [i \in 0 .. 0 |-> s]
<1>1. s.n \in Nat
  BY DEF State
<1>2. run \in [0 .. Len(<<>>) -> State] /\ run[0] = s
  OBVIOUS
<1>3. \A i, j \in 0 .. Len(<<>>) : i <= j => run[i].n <= run[j].n
  BY <1>1
<1> QED
  <2>1. \A i \in 1 .. Len(<<>>) : FALSE
    OBVIOUS
  <2>2. run[Len(<<>>)] = s
    BY <1>2
  <2> QED
    BY <1>2, <1>3, <2>1, <2>2 DEF Path

LEMMA PathSame ==
  ASSUME NEW s, NEW t, NEW keys, Path(s, <<>>, t, keys)
  PROVE  s = t
BY DEF Path

(* get_byte_from_kbuf() takes the first step of a path.                    *)
LEMMA PathRead ==
  ASSUME NEW s, NEW t, NEW keys, NEW q \in Seq(Byte), q # <<>>, Path(s, q, t, keys)
  PROVE  \E u \in State :
           /\ Reads(s, Head(q), u, keys) /\ s.n <= u.n
           /\ Path(u, Tail(q), t, keys)
<1>1. PICK run \in [0 .. Len(q) -> State] :
        /\ run[0] = s /\ run[Len(q)] = t
        /\ \A i \in 1 .. Len(q) :
             /\ Reads(run[i - 1], q[i], run[i], keys)
             /\ q[i] = KB_ACK => run[i - 1].pre = <<>>
        /\ \A i, j \in 0 .. Len(q) : i <= j => run[i].n <= run[j].n
  BY DEF Path
<1>2. /\ Len(q) \in Nat \ {0} /\ Head(q) = q[1]
      /\ Len(Tail(q)) = Len(q) - 1
      /\ \A i \in 1 .. Len(q) - 1 : Tail(q)[i] = q[i + 1]
  OBVIOUS
<1> DEFINE L == Len(q)
           rest == [i \in 0 .. L - 1 |-> run[i + 1]]
<1> HIDE DEF L
<1>3. run[1] \in State /\ Reads(s, Head(q), run[1], keys) /\ s.n <= run[1].n
  <2>1. 0 \in 0 .. L /\ 1 \in 0 .. L /\ 1 \in 1 .. L
    BY <1>2 DEF L
  <2> QED
    BY <1>1, <1>2, <2>1 DEF L
<1>4. rest \in [0 .. Len(Tail(q)) -> State] /\ rest[0] = run[1] /\ rest[Len(Tail(q))] = t
  BY <1>1, <1>2 DEF L
<1>5. ASSUME NEW i \in 1 .. L - 1
      PROVE  /\ Reads(rest[i - 1], Tail(q)[i], rest[i], keys)
             /\ Tail(q)[i] = KB_ACK => rest[i - 1].pre = <<>>
  <2>1. rest[i - 1] = run[i] /\ rest[i] = run[i + 1] /\ Tail(q)[i] = q[i + 1]
    BY <1>2 DEF L
  <2>2. i + 1 \in 1 .. L /\ (i + 1) - 1 = i
    BY <1>2 DEF L
  <2> QED
    BY <1>1, <2>1, <2>2 DEF L
<1>6. \A i, j \in 0 .. L - 1 : i <= j => rest[i].n <= rest[j].n
  BY <1>1, <1>2 DEF L
<1>7. Path(run[1], Tail(q), t, keys)
  BY <1>2, <1>4, <1>5, <1>6 DEF Path, L
<1> QED
  BY <1>3, <1>7

(* A path is made longer at its end.                                       *)
LEMMA PathAppend ==
  ASSUME NEW s, NEW t \in State, NEW u \in State, NEW keys,
         NEW q \in Seq(Byte), NEW b \in Byte,
         Path(s, q, t, keys), Reads(t, b, u, keys), t.n <= u.n,
         b = KB_ACK => t.pre = <<>>
  PROVE  Path(s, Append(q, b), u, keys)
<1>1. PICK run \in [0 .. Len(q) -> State] :
        /\ run[0] = s /\ run[Len(q)] = t
        /\ \A i \in 1 .. Len(q) :
             /\ Reads(run[i - 1], q[i], run[i], keys)
             /\ q[i] = KB_ACK => run[i - 1].pre = <<>>
        /\ \A i, j \in 0 .. Len(q) : i <= j => run[i].n <= run[j].n
  BY DEF Path
<1>2. /\ Len(q) \in Nat
      /\ Len(Append(q, b)) = Len(q) + 1 /\ Append(q, b)[Len(q) + 1] = b
      /\ \A i \in 1 .. Len(q) : Append(q, b)[i] = q[i]
  BY AppendProperties
<1> DEFINE L == Len(q)
           more == [i \in 0 .. L + 1 |-> IF i = L + 1 THEN u ELSE run[i]]
<1> HIDE DEF L
<1>3. more \in [0 .. Len(Append(q, b)) -> State] /\ more[0] = s /\ more[L + 1] = u
  BY <1>1, <1>2 DEF L
<1>4. ASSUME NEW i \in 1 .. L + 1
      PROVE  /\ Reads(more[i - 1], Append(q, b)[i], more[i], keys)
             /\ Append(q, b)[i] = KB_ACK => more[i - 1].pre = <<>>
  <2>1. CASE i = L + 1
    <3>1. more[i - 1] = t /\ more[i] = u /\ Append(q, b)[i] = b
      BY <1>1, <1>2, <2>1 DEF L
    <3> QED
      BY <3>1
  <2>2. CASE i # L + 1
    <3>1. /\ more[i - 1] = run[i - 1] /\ more[i] = run[i]
          /\ Append(q, b)[i] = q[i] /\ i \in 1 .. L
      BY <1>2, <2>2 DEF L
    <3> QED
      BY <1>1, <3>1 DEF L
  <2> QED
    BY <2>1, <2>2
<1>5. ASSUME NEW i \in 0 .. L + 1, NEW j \in 0 .. L + 1, i <= j
      PROVE  more[i].n <= more[j].n
  <2>1. \A k \in 0 .. L : run[k].n \in Nat /\ run[k].n <= t.n
    <3> TAKE k \in 0 .. L
    <3>1. run[k] \in State /\ L \in 0 .. L /\ k <= L
      BY <1>2 DEF L
    <3>2. run[k].n <= run[L].n
      BY <1>1, <3>1 DEF L
    <3> QED
      BY <1>1, <3>1, <3>2 DEF L, State
  <2>2. t.n \in Nat /\ u.n \in Nat
    BY DEF State
  <2>3. CASE j = L + 1 /\ i # L + 1
    <3>1. more[j] = u /\ more[i] = run[i] /\ i \in 0 .. L
      BY <1>2, <2>3 DEF L
    <3> QED
      BY <2>1, <2>2, <3>1
  <2>4. CASE i = L + 1
    <3>1. j = L + 1
      BY <1>2, <1>5, <2>4 DEF L
    <3>2. more[i] = u /\ more[j] = u
      BY <2>4, <3>1
    <3> QED
      BY <2>2, <3>2
  <2>5. CASE j # L + 1
    <3>1. more[j] = run[j] /\ more[i] = run[i] /\ i \in 0 .. L /\ j \in 0 .. L
      BY <1>2, <1>5, <2>5 DEF L
    <3> QED
      BY <1>1, <1>5, <3>1 DEF L
  <2> QED
    BY <2>3, <2>4, <2>5
<1> QED
  BY <1>2, <1>3, <1>4, <1>5 DEF Path, L

(* What RemoveAt of the community modules returns.                         *)
LEMMA RemoveAtProperties ==
  ASSUME NEW S, NEW q \in Seq(S), NEW k \in 1 .. Len(q)
  PROVE  /\ RemoveAt(q, k) \in Seq(S)
         /\ Len(RemoveAt(q, k)) = Len(q) - 1
         /\ \A i \in 1 .. Len(q) - 1 :
              RemoveAt(q, k)[i] = IF i < k THEN q[i] ELSE q[i + 1]
<1> DEFINE a == SubSeq(q, 1, k - 1)
           b == SubSeq(q, k + 1, Len(q))
<1>1. /\ a \in Seq(S) /\ Len(a) = k - 1
      /\ \A i \in 1 .. k - 1 : a[i] = q[i]
  BY SubSeqProperties
<1>2. /\ b \in Seq(S) /\ Len(b) = Len(q) - k
      /\ \A i \in 1 .. Len(q) - k : b[i] = q[k + i]
  BY SubSeqProperties
<1> HIDE DEF a, b
<1>3. RemoveAt(q, k) = a \o b
  BY DEF RemoveAt, a, b
<1>4. /\ a \o b \in Seq(S) /\ Len(a \o b) = Len(q) - 1
      /\ \A i \in 1 .. Len(q) - 1 :
           (a \o b)[i] = IF i <= k - 1 THEN a[i] ELSE b[i - (k - 1)]
  BY <1>1, <1>2, ConcatProperties
<1>5. ASSUME NEW i \in 1 .. Len(q) - 1
      PROVE  (a \o b)[i] = IF i < k THEN q[i] ELSE q[i + 1]
  <2>1. CASE i < k
    BY <1>1, <1>4, <2>1
  <2>2. CASE ~(i < k)
    <3>1. i - (k - 1) \in 1 .. Len(q) - k /\ k + (i - (k - 1)) = i + 1
      BY <2>2
    <3> QED
      BY <1>2, <1>4, <2>2, <3>1
  <2> QED
    BY <2>1, <2>2
<1> QED
  BY <1>3, <1>4, <1>5

(* An answer of the keyboard between two keys decodes to nothing.          *)
LEMMA AckReads ==
  ASSUME NEW s \in State, NEW u, NEW keys, s.pre = <<>>, Reads(s, KB_ACK, u, keys)
  PROVE  u = s
<1> DEFINE r == [s EXCEPT !.pre = <<KB_ACK>>]
<1>1. Append(s.pre, KB_ACK) = <<KB_ACK>>
  <2>1. KB_ACK \in Byte
    BY DEF KB_ACK, Byte
  <2> QED
    BY <2>1, AppendTuples
<1>2. ~Wants(<<KB_ACK>>)
  BY WantsOne DEF KB_ACK, Byte
<1>3. ~Special(<<KB_ACK>>)
  BY DEF Special, pausebrk_scode, KB_ACK
<1>4. /\ scan_code(<<KB_ACK>>) = 250 /\ ~code_with_E0(<<KB_ACK>>)
      /\ keyrow(<<KB_ACK>>) = <<"NUL", "NUL", "NUL">>
  BY DEF scan_code, code_with_E0, keyrow, keymap, KB_ACK
<1>5. ~make(<<KB_ACK>>)
  BY <1>4 DEF make
<1>6. KeyOf(<<KB_ACK>>, s.down, s.locks) = "NUL"
  BY <1>4 DEF KeyOf, column
<1>7. DownAfter(<<KB_ACK>>, s.down, s.locks) = s.down
  BY <1>6 DEF DownAfter, Modifier, Shift
<1>8. LocksAfter(<<KB_ACK>>, s.down, s.locks) = s.locks /\ ~HasKey(<<KB_ACK>>)
  BY <1>5 DEF LocksAfter, IsLock, HasKey
<1>9. r.pre = <<KB_ACK>> /\ r.down = s.down /\ r.locks = s.locks /\ r.n = s.n
  BY DEF State
<1>10. u = Decoded(r)
  BY <1>1, <1>2, <1>9 DEF Reads, Settles
<1>11. u = [pre |-> <<>>, down |-> s.down, locks |-> s.locks, n |-> s.n]
  BY <1>7, <1>8, <1>9, <1>10 DEF Decoded
<1> QED
  BY <1>11 DEF State

(* An answer of the keyboard can be taken out of a path wherever it is.    *)
LEMMA PathRemove ==
  ASSUME NEW s, NEW t, NEW keys, NEW q \in Seq(Byte), NEW k \in 1 .. Len(q),
         q[k] = KB_ACK, Path(s, q, t, keys)
  PROVE  Path(s, RemoveAt(q, k), t, keys)
<1>1. PICK run \in [0 .. Len(q) -> State] :
        /\ run[0] = s /\ run[Len(q)] = t
        /\ \A i \in 1 .. Len(q) :
             /\ Reads(run[i - 1], q[i], run[i], keys)
             /\ q[i] = KB_ACK => run[i - 1].pre = <<>>
        /\ \A i, j \in 0 .. Len(q) : i <= j => run[i].n <= run[j].n
  BY DEF Path
<1> DEFINE L == Len(q)
           p == RemoveAt(q, k)
           less == [i \in 0 .. L - 1 |-> IF i < k THEN run[i] ELSE run[i + 1]]
<1>2. L \in Nat /\ k \in 1 .. L
  OBVIOUS
<1>3. Len(p) = L - 1 /\ \A i \in 1 .. L - 1 : p[i] = IF i < k THEN q[i] ELSE q[i + 1]
  BY RemoveAtProperties
<1>4. run[k] = run[k - 1]
  <2>1. run[k - 1] \in State
    BY <1>1, <1>2
  <2> QED
    BY <1>1, <2>1, AckReads
<1> HIDE DEF L, p
<1>5. less \in [0 .. Len(p) -> State] /\ less[0] = s /\ less[L - 1] = t
  <2>1. less[0] = s
    BY <1>1, <1>2
  <2>2. less[L - 1] = t
    <3>1. CASE k = L
      BY <1>1, <1>2, <1>4, <3>1 DEF L
    <3>2. CASE k # L
      BY <1>1, <1>2, <3>2 DEF L
    <3> QED
      BY <3>1, <3>2
  <2>3. less \in [0 .. L - 1 -> State]
    BY <1>1, <1>2 DEF L
  <2> QED
    BY <1>3, <2>1, <2>2, <2>3
<1>6. ASSUME NEW i \in 1 .. L - 1
      PROVE  /\ Reads(less[i - 1], p[i], less[i], keys)
             /\ p[i] = KB_ACK => less[i - 1].pre = <<>>
  <2>1. CASE i < k
    <3>1. less[i - 1] = run[i - 1] /\ less[i] = run[i] /\ p[i] = q[i] /\ i \in 1 .. L
      BY <1>2, <1>3, <2>1
    <3> QED
      BY <1>1, <3>1 DEF L
  <2>2. CASE i >= k
    <3>1. less[i] = run[i + 1] /\ p[i] = q[i + 1] /\ i + 1 \in 1 .. L
      BY <1>2, <1>3, <2>2
    <3>2. less[i - 1] = run[(i + 1) - 1]
      BY <1>2, <1>4, <2>2
    <3> QED
      BY <1>1, <3>1, <3>2 DEF L
  <2> QED
    BY <1>2, <2>1, <2>2
<1>7. ASSUME NEW i \in 0 .. L - 1, NEW j \in 0 .. L - 1, i <= j
      PROVE  less[i].n <= less[j].n
  <2> DEFINE at(m) == IF m < k THEN m ELSE m + 1
  <2>1. at(i) \in 0 .. L /\ at(j) \in 0 .. L /\ at(i) <= at(j)
    BY <1>2, <1>7
  <2>2. less[i] = run[at(i)] /\ less[j] = run[at(j)]
    OBVIOUS
  <2> HIDE DEF at
  <2> QED
    BY <1>1, <2>1, <2>2 DEF L
<1> QED
  BY <1>3, <1>5, <1>6, <1>7 DEF Path, p

(* What comes to the end of the keys to be given changes nothing.          *)
LEMMA PathMore ==
  ASSUME NEW s, NEW t, NEW keys \in Seq(Pressed), NEW k \in Pressed,
         NEW q \in Seq(Byte), Path(s, q, t, keys)
  PROVE  Path(s, q, t, Append(keys, k))
<1>1. PICK run \in [0 .. Len(q) -> State] :
        /\ run[0] = s /\ run[Len(q)] = t
        /\ \A i \in 1 .. Len(q) :
             /\ Reads(run[i - 1], q[i], run[i], keys)
             /\ q[i] = KB_ACK => run[i - 1].pre = <<>>
        /\ \A i, j \in 0 .. Len(q) : i <= j => run[i].n <= run[j].n
  BY DEF Path
<1>2. \A i \in DOMAIN keys : i \in DOMAIN Append(keys, k) /\ Append(keys, k)[i] = keys[i]
  BY AppendProperties
<1>3. ASSUME NEW r, NEW u, Settles(r, u, keys)
      PROVE  Settles(r, u, Append(keys, k))
  <2>1. Fits(r, keys) => Fits(r, Append(keys, k))
    BY <1>2 DEF Fits
  <2> QED
    BY <1>3, <2>1 DEF Settles
<1>4. \A i \in 1 .. Len(q) : Reads(run[i - 1], q[i], run[i], Append(keys, k))
  BY <1>1, <1>3 DEF Reads
<1> QED
  BY <1>1, <1>4 DEF Path

(* in_process() has been given the first key.                              *)
Given(s) == [s EXCEPT !.n = s.n - 1]

(* The path that is left when the first key has been given.                *)
LEMMA PathGiven ==
  ASSUME NEW s \in State, NEW t, NEW keys \in Seq(Pressed), keys # <<>>,
         NEW q \in Seq(Byte), Path(s, q, t, keys), s.n >= 1
  PROVE  Path(Given(s), q, Given(t), Tail(keys))
<1>1. PICK run \in [0 .. Len(q) -> State] :
        /\ run[0] = s /\ run[Len(q)] = t
        /\ \A i \in 1 .. Len(q) :
             /\ Reads(run[i - 1], q[i], run[i], keys)
             /\ q[i] = KB_ACK => run[i - 1].pre = <<>>
        /\ \A i, j \in 0 .. Len(q) : i <= j => run[i].n <= run[j].n
  BY DEF Path
<1>2. \A i \in 0 .. Len(q) : run[i] \in State /\ run[i].n \in Nat /\ run[i].n >= 1
  <2> TAKE i \in 0 .. Len(q)
  <2>1. Len(q) \in Nat /\ 0 \in 0 .. Len(q) /\ 0 <= i
    OBVIOUS
  <2>2. run[0].n <= run[i].n
    BY <1>1, <2>1
  <2>3. s.n \in Nat /\ run[i].n \in Nat
    BY DEF State
  <2> QED
    BY <1>1, <2>2, <2>3
<1> DEFINE given == [i \in 0 .. Len(q) |-> Given(run[i])]
<1>3. given \in [0 .. Len(q) -> State] /\ given[0] = Given(s) /\ given[Len(q)] = Given(t)
  <2>1. \A i \in 0 .. Len(q) : Given(run[i]) \in State
    <3>1. \A r \in State : r.n \in Nat /\ r.n >= 1 => Given(r) \in State
      <4> TAKE r \in State
      <4> HAVE r.n \in Nat /\ r.n >= 1
      <4>1. r.n - 1 \in Nat
        OBVIOUS
      <4> QED
        BY <4>1 DEF Given, State
    <3> QED
      BY <1>2, <3>1
  <2> QED
    BY <1>1, <2>1
<1>4. /\ Len(keys) \in Nat /\ DOMAIN keys = 1 .. Len(keys)
      /\ DOMAIN Tail(keys) = 1 .. Len(keys) - 1
      /\ \A i \in 1 .. Len(keys) - 1 : Tail(keys)[i] = keys[i + 1]
  OBVIOUS
<1>5. ASSUME NEW a \in State, NEW b \in State, NEW x \in Byte,
             a.n >= 1, Reads(a, x, b, keys)
      PROVE  Reads(Given(a), x, Given(b), Tail(keys))
  <2> DEFINE r == [a EXCEPT !.pre = Append(a.pre, x)]
             g == [Given(a) EXCEPT !.pre = Append(Given(a).pre, x)]
  <2>1. /\ g.pre = r.pre /\ g.down = r.down /\ g.locks = r.locks
        /\ g.n = r.n - 1 /\ r.n = a.n /\ a.n \in Nat
    BY DEF Given, State
  <2>2. g = Given(r)
    BY DEF Given, State
  <2>3. Fits(r, keys) => Fits(g, Tail(keys))
    <3> SUFFICES ASSUME Fits(r, keys), HasKey(g.pre)
                 PROVE  /\ g.n + 1 \in DOMAIN Tail(keys)
                        /\ Tail(keys)[g.n + 1] = Passed(g.pre, g.down, g.locks)
      BY DEF Fits
    <3>1. /\ r.n + 1 \in DOMAIN keys
          /\ keys[r.n + 1] = Passed(g.pre, g.down, g.locks)
      BY <2>1 DEF Fits
    <3>2. g.n + 1 = a.n /\ a.n \in 1 .. Len(keys) - 1
      BY <1>4, <1>5, <2>1, <3>1
    <3>3. Tail(keys)[a.n] = keys[a.n + 1]
      BY <1>4, <3>2
    <3> QED
      BY <1>4, <2>1, <3>1, <3>2, <3>3
  <2>4. Decoded(g) = Given(Decoded(r))
    <3>1. CASE HasKey(r.pre)
      BY SMTT(30), <2>1, <3>1 DEF Decoded, Given
    <3>2. CASE ~HasKey(r.pre)
      BY <2>1, <3>2 DEF Decoded, Given
    <3> QED
      BY <3>1, <3>2
  <2> HIDE DEF r, g
  <2>5. Settles(r, b, keys) => Settles(g, Given(b), Tail(keys))
    BY <2>1, <2>2, <2>3, <2>4 DEF Settles
  <2> QED
    BY <1>5, <2>5 DEF Reads, r, g
<1>6. ASSUME NEW i \in 1 .. Len(q)
      PROVE  /\ Reads(given[i - 1], q[i], given[i], Tail(keys))
             /\ q[i] = KB_ACK => given[i - 1].pre = <<>>
  <2>1. i - 1 \in 0 .. Len(q) /\ i \in 0 .. Len(q) /\ q[i] \in Byte
    OBVIOUS
  <2>2. given[i - 1] = Given(run[i - 1]) /\ given[i] = Given(run[i])
    BY <2>1
  <2>3. Given(run[i - 1]).pre = run[i - 1].pre
    BY <1>2, <2>1 DEF Given, State
  <2>4. Reads(Given(run[i - 1]), q[i], Given(run[i]), Tail(keys))
    BY <1>1, <1>2, <1>5, <2>1
  <2> QED
    BY <1>1, <2>2, <2>3, <2>4
<1>7. \A i, j \in 0 .. Len(q) : i <= j => given[i].n <= given[j].n
  <2>1. \A i \in 0 .. Len(q) : given[i].n = run[i].n - 1
    BY <1>2 DEF Given, State
  <2> QED
    BY SMTT(30), <1>1, <1>2, <2>1
<1> QED
  BY <1>3, <1>6, <1>7 DEF Path

-----------------------------------------------------------------------------
(* Decoding a key, byte by byte.                                           *)
With(s, g) == [s EXCEPT !.pre = g]

(* A decoded sequence leaves a state, and gives no key back.               *)
LEMMA DecodedType ==
  ASSUME NEW s \in State
  PROVE  Decoded(s) \in State /\ s.n <= Decoded(s).n
<1>1. /\ s.down \in SUBSET Modifier /\ s.locks \in SUBSET Lock /\ s.n \in Nat
  BY DEF State
<1>2. DownAfter(s.pre, s.down, s.locks) \in SUBSET Modifier
  BY <1>1 DEF DownAfter
<1>3. LocksAfter(s.pre, s.down, s.locks) \in SUBSET Lock
  BY <1>1 DEF LocksAfter, IsLock, Toggled
<1>4. <<>> \in Seq(Byte)
  OBVIOUS
<1> QED
  BY <1>1, <1>2, <1>3, <1>4 DEF Decoded, State

LEMMA WithType ==
  ASSUME NEW t \in State, NEW g \in Seq(Byte)
  PROVE  /\ With(t, g) \in State /\ With(t, g).pre = g /\ With(t, g).n = t.n
         /\ t.n \in Nat
         /\ \A h : With(With(t, g), h) = With(t, h)
BY DEF With, State

(* A byte at the end of the line.                                          *)
LEMMA ConcatAppend ==
  ASSUME NEW q \in Seq(Byte), NEW r \in Seq(Byte), NEW b \in Byte
  PROVE  q \o Append(r, b) = Append(q \o r, b)
<1>1. <<b>> \in Seq(Byte) /\ q \o r \in Seq(Byte)
  BY ConcatProperties
<1>2. Append(r, b) = r \o <<b>> /\ Append(q \o r, b) = (q \o r) \o <<b>>
  BY <1>1, AppendIsConcat
<1> QED
  BY <1>1, <1>2, ConcatAssociative

(* One more byte of a key, and keyboard_read() waits for another.          *)
LEMMA PathWait ==
  ASSUME NEW s, NEW t \in State, NEW keys, NEW q \in Seq(Byte),
         NEW r \in Seq(Byte), NEW b \in Byte, NEW g \in Seq(Byte),
         Append(r, b) = g, Wants(g), b # KB_ACK, Path(s, q \o r, With(t, r), keys)
  PROVE  Path(s, q \o g, With(t, g), keys)
<1>1. /\ With(t, g) \in State /\ With(t, g).n = t.n /\ t.n \in Nat
      /\ With(t, r) \in State /\ With(t, r).n = t.n /\ With(t, r).pre = r
      /\ With(t, g) = With(With(t, r), g) /\ With(t, g).pre = g
  BY WithType
<1>2. Reads(With(t, r), b, With(t, g), keys)
  <2>1. [With(t, r) EXCEPT !.pre = Append(With(t, r).pre, b)] = With(t, g)
    BY <1>1 DEF With
  <2> QED
    BY <1>1, <2>1 DEF Reads, Settles
<1>3. q \o g = Append(q \o r, b) /\ q \o r \in Seq(Byte)
  BY ConcatAppend, ConcatProperties
<1>4. b = KB_ACK => With(t, r).pre = <<>>
  OBVIOUS
<1>5. With(t, r).n <= With(t, g).n
  BY <1>1
<1>6. Path(s, Append(q \o r, b), With(t, g), keys)
  BY <1>1, <1>2, <1>3, <1>4, <1>5, PathAppend
<1> QED
  BY <1>3, <1>6

(* One more byte, and it has them all.                                     *)
LEMMA PathDecode ==
  ASSUME NEW s, NEW t \in State, NEW keys, NEW q \in Seq(Byte),
         NEW r \in Seq(Byte), NEW b \in Byte, NEW g \in Seq(Byte),
         Append(r, b) = g, ~Wants(g), b # KB_ACK, Path(s, q \o r, With(t, r), keys),
         Fits(With(t, g), keys)
  PROVE  Path(s, q \o g, Decoded(With(t, g)), keys)
<1>1. /\ With(t, g) \in State /\ With(t, g).n = t.n /\ t.n \in Nat
      /\ With(t, r) \in State /\ With(t, r).n = t.n /\ With(t, r).pre = r
      /\ With(t, g) = With(With(t, r), g) /\ With(t, g).pre = g
  BY WithType
<1>2. Reads(With(t, r), b, Decoded(With(t, g)), keys)
  <2>1. [With(t, r) EXCEPT !.pre = Append(With(t, r).pre, b)] = With(t, g)
    BY <1>1 DEF With
  <2> QED
    BY <1>1, <2>1 DEF Reads, Settles
<1>3. q \o g = Append(q \o r, b) /\ q \o r \in Seq(Byte)
  BY ConcatAppend, ConcatProperties
<1>4. Decoded(With(t, g)) \in State /\ t.n <= Decoded(With(t, g)).n
  BY <1>1, DecodedType
<1> QED
  BY <1>1, <1>2, <1>3, <1>4, PathAppend

(* The first byte of a sequence of several.                                *)
LEMMA PathStart ==
  ASSUME NEW s, NEW t \in State, NEW keys, NEW q \in Seq(Byte),
         t.pre = <<>>, Path(s, q, t, keys)
  PROVE  Path(s, q \o <<>>, With(t, <<>>), keys)
<1>1. With(t, <<>>) = t
  BY DEF With, State
<1>2. q \o <<>> = q
  BY ConcatEmptySeq
<1> QED
  BY <1>1, <1>2

-----------------------------------------------------------------------------
LEMMA WantsSpecial ==
  ~Wants(<<224, 42, 224, 55>>) /\ ~Wants(<<224, 183, 224, 170>>)
BY DEF Wants, IsStrictPrefix, IsPrefix, pausebrk_scode

(* PrintScreen and Pause leave the decoder as it was.                      *)
LEMMA SpecialDecodes ==
  ASSUME NEW t \in State, t.pre = <<>>, NEW g \in Seq(Byte), Special(g), NEW keys
  PROVE  Decoded(With(t, g)) = t /\ Fits(With(t, g), keys)
<1>1. DownAfter(g, t.down, t.locks) = t.down
  BY DEF DownAfter
<1>2. LocksAfter(g, t.down, t.locks) = t.locks /\ ~HasKey(g)
  BY DEF LocksAfter, IsLock, HasKey
<1>3. /\ With(t, g).pre = g /\ With(t, g).down = t.down
      /\ With(t, g).locks = t.locks /\ With(t, g).n = t.n
  BY DEF With, State
<1>4. Decoded(With(t, g)) = [pre |-> <<>>, down |-> t.down, locks |-> t.locks, n |-> t.n]
  BY <1>1, <1>2, <1>3 DEF Decoded
<1> QED
  BY <1>2, <1>3, <1>4 DEF Fits, State

(* The keys, by the number of their bytes.                                 *)
LEMMA PathOne ==
  ASSUME NEW s, NEW t \in State, NEW keys, NEW q \in Seq(Byte), NEW b \in Byte,
         t.pre = <<>>, Path(s, q, t, keys), b \notin {224, 225, 250},
         Fits(With(t, <<b>>), keys)
  PROVE  Path(s, q \o <<b>>, Decoded(With(t, <<b>>)), keys)
<1> DEFINE none == <<>>
           one == <<b>>
<1>1. /\ none \in Seq(Byte) /\ one \in Seq(Byte) /\ b # KB_ACK
      /\ Append(none, b) = one /\ ~Wants(one)
  BY AppendTuples, WantsOne DEF KB_ACK
<1>2. Path(s, q \o none, With(t, none), keys) /\ Fits(With(t, one), keys)
  BY PathStart
<1> HIDE DEF none, one
<1>3. Path(s, q \o one, Decoded(With(t, one)), keys)
  BY <1>1, <1>2, PathDecode
<1> QED
  BY <1>3 DEF one

LEMMA PathE0 ==
  ASSUME NEW s, NEW t \in State, NEW keys, NEW q \in Seq(Byte),
         t.pre = <<>>, Path(s, q, t, keys)
  PROVE  Path(s, q \o <<224>>, With(t, <<224>>), keys)
<1> DEFINE none == <<>>
           one == <<224>>
<1>1. 224 \in Byte /\ 224 # KB_ACK
  BY DEF Byte, KB_ACK
<1>2. /\ none \in Seq(Byte) /\ one \in Seq(Byte)
      /\ Append(none, 224) = one /\ Wants(one)
  BY <1>1, AppendTuples, WantsCases
<1>3. Path(s, q \o none, With(t, none), keys)
  BY PathStart
<1> HIDE DEF none, one
<1>4. Path(s, q \o one, With(t, one), keys)
  BY <1>1, <1>2, <1>3, PathWait
<1> QED
  BY <1>4 DEF one

(* The make or break of a key of two bytes, at the end of a path.          *)
LEMMA PathTwo ==
  ASSUME NEW s, NEW t \in State, NEW keys, NEW q \in Seq(Byte), NEW b \in Byte,
         t.pre = <<>>, Path(s, q, t, keys), b \notin {42, 183, 250},
         Fits(With(t, <<224, b>>), keys)
  PROVE  Path(s, q \o <<224, b>>, Decoded(With(t, <<224, b>>)), keys)
<1> DEFINE one == <<224>>
           two == <<224, b>>
<1>1. 224 \in Byte /\ b # KB_ACK
  BY DEF Byte, KB_ACK
<1>2. /\ one \in Seq(Byte) /\ two \in Seq(Byte)
      /\ Append(one, b) = two /\ ~Wants(two)
  BY <1>1, AppendTuples, WantsTwo
<1>3. Path(s, q \o one, With(t, one), keys) /\ Fits(With(t, two), keys)
  BY PathE0
<1> HIDE DEF one, two
<1>4. Path(s, q \o two, Decoded(With(t, two)), keys)
  BY <1>1, <1>2, <1>3, PathDecode
<1> QED
  BY <1>4 DEF two

(* PrintScreen: the second byte tells make from break.                     *)
LEMMA PathPrintScreen ==
  ASSUME NEW s, NEW t \in State, NEW keys, NEW q \in Seq(Byte),
         t.pre = <<>>, Path(s, q, t, keys)
  PROVE  /\ Path(s, q \o <<224, 42, 224, 55>>, t, keys)
         /\ Path(s, q \o <<224, 183, 224, 170>>, t, keys)
<1>0. {42, 55, 170, 183, 224} \subseteq Byte /\ KB_ACK \notin {42, 55, 170, 183, 224}
  BY DEF Byte, KB_ACK
<1> DEFINE one == <<224>>
<1>1. one \in Seq(Byte)
  BY <1>0
<1>2. Path(s, q \o one, With(t, one), keys)
  BY PathE0
<1>3. Path(s, q \o <<224, 42, 224, 55>>, t, keys)
  <2> DEFINE two == <<224, 42>>
             three == <<224, 42, 224>>
             four == <<224, 42, 224, 55>>
  <2>1. /\ two \in Seq(Byte) /\ three \in Seq(Byte) /\ four \in Seq(Byte)
        /\ Wants(two) /\ Wants(three) /\ Special(four)
    BY <1>0, WantsCases DEF Special
  <2>2. Append(one, 42) = two /\ Append(two, 224) = three /\ Append(three, 55) = four
    BY <1>0, AppendTuples
  <2>3. ~Wants(four)
    BY WantsSpecial
  <2>4. Decoded(With(t, four)) = t /\ Fits(With(t, four), keys)
    BY <2>1, SpecialDecodes
  <2> HIDE DEF one, two, three, four
  <2>5. Path(s, q \o two, With(t, two), keys)
    BY <1>0, <1>1, <1>2, <2>1, <2>2, PathWait
  <2>6. Path(s, q \o three, With(t, three), keys)
    BY <1>0, <2>1, <2>2, <2>5, PathWait
  <2>7. Path(s, q \o four, t, keys)
    BY SMTT(30), <1>0, <2>1, <2>2, <2>3, <2>4, <2>6, PathDecode
  <2> QED
    BY <2>7 DEF four
<1>4. Path(s, q \o <<224, 183, 224, 170>>, t, keys)
  <2> DEFINE two == <<224, 183>>
             three == <<224, 183, 224>>
             four == <<224, 183, 224, 170>>
  <2>1. /\ two \in Seq(Byte) /\ three \in Seq(Byte) /\ four \in Seq(Byte)
        /\ Wants(two) /\ Wants(three) /\ Special(four)
    BY <1>0, WantsCases DEF Special
  <2>2. Append(one, 183) = two /\ Append(two, 224) = three /\ Append(three, 170) = four
    BY <1>0, AppendTuples
  <2>3. ~Wants(four)
    BY WantsSpecial
  <2>4. Decoded(With(t, four)) = t /\ Fits(With(t, four), keys)
    BY ZenonT(60), <2>1, SpecialDecodes
  <2> HIDE DEF one, two, three, four
  <2>5. Path(s, q \o two, With(t, two), keys)
    BY <1>0, <1>1, <1>2, <2>1, <2>2, PathWait
  <2>6. Path(s, q \o three, With(t, three), keys)
    BY <1>0, <2>1, <2>2, <2>5, PathWait
  <2>7. Path(s, q \o four, t, keys)
    BY SMTT(30), <1>0, <2>1, <2>2, <2>3, <2>4, <2>6, PathDecode
  <2> QED
    BY <2>7 DEF four
<1> QED
  BY <1>3, <1>4

LEMMA PathPause ==
  ASSUME NEW s, NEW t \in State, NEW keys, NEW q \in Seq(Byte),
         t.pre = <<>>, Path(s, q, t, keys)
  PROVE  Path(s, q \o <<225, 29, 69, 225, 157, 197>>, t, keys)
<1> DEFINE g0 == <<>>
           g1 == <<225>>
           g2 == <<225, 29>>
           g3 == <<225, 29, 69>>
           g4 == <<225, 29, 69, 225>>
           g5 == <<225, 29, 69, 225, 157>>
           g6 == <<225, 29, 69, 225, 157, 197>>
<1>1. {29, 69, 157, 197, 225} \subseteq Byte /\ KB_ACK \notin {29, 69, 157, 197, 225}
  BY DEF Byte, KB_ACK
<1>2. /\ g0 \in Seq(Byte) /\ g1 \in Seq(Byte) /\ g2 \in Seq(Byte) /\ g3 \in Seq(Byte)
      /\ g4 \in Seq(Byte) /\ g5 \in Seq(Byte) /\ g6 \in Seq(Byte)
  BY <1>1
<1>3. Wants(g1) /\ Wants(g2) /\ Wants(g3) /\ Wants(g4) /\ Wants(g5) /\ ~Wants(g6)
  BY WantsPause
<1>4. /\ Append(g0, 225) = g1 /\ Append(g1, 29) = g2 /\ Append(g2, 69) = g3
      /\ Append(g3, 225) = g4 /\ Append(g4, 157) = g5 /\ Append(g5, 197) = g6
  BY <1>1, AppendTuples
<1>5. Decoded(With(t, g6)) = t /\ Fits(With(t, g6), keys)
  <2>1. Special(g6)
    BY DEF Special, pausebrk_scode
  <2> QED
    BY ZenonT(60), <1>2, <2>1, SpecialDecodes
<1>6. Path(s, q \o g0, With(t, g0), keys)
  BY PathStart
<1> HIDE DEF g0, g1, g2, g3, g4, g5, g6
<1>7. Path(s, q \o g1, With(t, g1), keys)
  <2>1. 225 \in Byte /\ 225 # KB_ACK /\ g0 \in Seq(Byte) /\ g1 \in Seq(Byte)
    BY <1>1, <1>2
  <2>2. Append(g0, 225) = g1 /\ Wants(g1)
    BY <1>3, <1>4
  <2> QED
    BY <1>6, <2>1, <2>2, PathWait
<1>8. Path(s, q \o g2, With(t, g2), keys)
  <2>1. 29 \in Byte /\ 29 # KB_ACK /\ g1 \in Seq(Byte) /\ g2 \in Seq(Byte)
    BY <1>1, <1>2
  <2>2. Append(g1, 29) = g2 /\ Wants(g2)
    BY <1>3, <1>4
  <2> QED
    BY <1>7, <2>1, <2>2, PathWait
<1>9. Path(s, q \o g3, With(t, g3), keys)
  <2>1. 69 \in Byte /\ 69 # KB_ACK /\ g2 \in Seq(Byte) /\ g3 \in Seq(Byte)
    BY <1>1, <1>2
  <2>2. Append(g2, 69) = g3 /\ Wants(g3)
    BY <1>3, <1>4
  <2> QED
    BY <1>8, <2>1, <2>2, PathWait
<1>10. Path(s, q \o g4, With(t, g4), keys)
  <2>1. 225 \in Byte /\ 225 # KB_ACK /\ g3 \in Seq(Byte) /\ g4 \in Seq(Byte)
    BY <1>1, <1>2
  <2>2. Append(g3, 225) = g4 /\ Wants(g4)
    BY <1>3, <1>4
  <2> QED
    BY <1>9, <2>1, <2>2, PathWait
<1>11. Path(s, q \o g5, With(t, g5), keys)
  <2>1. 157 \in Byte /\ 157 # KB_ACK /\ g4 \in Seq(Byte) /\ g5 \in Seq(Byte)
    BY <1>1, <1>2
  <2>2. Append(g4, 157) = g5 /\ Wants(g5)
    BY <1>3, <1>4
  <2> QED
    BY <1>10, <2>1, <2>2, PathWait
<1>12. Path(s, q \o g6, t, keys)
  <2>1. 197 \in Byte /\ 197 # KB_ACK /\ g5 \in Seq(Byte) /\ g6 \in Seq(Byte)
    BY <1>1, <1>2
  <2>2. Append(g5, 197) = g6 /\ ~Wants(g6)
    BY <1>3, <1>4
  <2> QED
    BY <1>5, <1>11, <2>1, <2>2, PathDecode
<1> QED
  BY <1>12 DEF g6

-----------------------------------------------------------------------------
(* What the decoder makes of the bytes g, whatever is down and on: a press *)
(* of k, or its release.                                                   *)
MakesKey(k, g) ==
  \A d \in SUBSET Modifier, l \in SUBSET Lock :
    /\ HasKey(g)
    /\ DownAfter(g, d, l) = IF k \in Modifier THEN d \union {k} ELSE d
    /\ LocksAfter(g, d, l) = IF k \in Lock THEN Toggled(l, k) ELSE l
    /\ Passed(g, d, l) = Meaning(k, DownAfter(g, d, l), LocksAfter(g, d, l))

BreaksKey(k, g) ==
  \A d \in SUBSET Modifier, l \in SUBSET Lock :
    /\ ~HasKey(g)
    /\ DownAfter(g, d, l) = d \ {k}
    /\ LocksAfter(g, d, l) = l

(* The row of a scan code, and its column.                                 *)
LEMMA OneByteRow ==
  ASSUME NEW b \in Byte, b # 224
  PROVE  /\ ~Special(<<b>>) /\ ~code_with_E0(<<b>>)
         /\ make(<<b>>) <=> b < 128
         /\ keyrow(<<b>>) = keymap(b % 128)
BY DEF Special, pausebrk_scode, code_with_E0, scan_code, make, keyrow, Byte

LEMMA TwoByteRow ==
  ASSUME NEW b \in Byte
  PROVE  /\ ~Special(<<224, b>>) /\ code_with_E0(<<224, b>>)
         /\ make(<<224, b>>) <=> b < 128
         /\ keyrow(<<224, b>>) = keymap(b % 128)
BY DEF Special, pausebrk_scode, code_with_E0, scan_code, make, keyrow, Byte

(* A key that is known by one name, whatever is down and on.               *)
LEMMA PlainKey ==
  ASSUME NEW k \in {"ENTER", "F1", "HOME"} \union Modifier \union Lock, NEW g,
         ~Special(g), make(g),
         \A d \in SUBSET Modifier, l \in SUBSET Lock : KeyOf(g, d, l) = k
  PROVE  MakesKey(k, g)
<1> SUFFICES ASSUME NEW d \in SUBSET Modifier, NEW l \in SUBSET Lock
             PROVE  /\ HasKey(g)
                    /\ DownAfter(g, d, l) = IF k \in Modifier THEN d \union {k} ELSE d
                    /\ LocksAfter(g, d, l) = IF k \in Lock THEN Toggled(l, k) ELSE l
                    /\ Passed(g, d, l)
                         = Meaning(k, DownAfter(g, d, l), LocksAfter(g, d, l))
  BY DEF MakesKey
<1>1. KeyOf(g, d, l) = k
  OBVIOUS
<1>2. HasKey(g)
  BY DEF HasKey
<1>3. DownAfter(g, d, l) = IF k \in Modifier THEN d \union {k} ELSE d
  BY <1>1 DEF DownAfter
<1>4. LocksAfter(g, d, l) = IF k \in Lock THEN Toggled(l, k) ELSE l
  BY <1>1 DEF LocksAfter, IsLock
<1> DEFINE dn == DownAfter(g, d, l)
           ln == LocksAfter(g, d, l)
<1>5. dn \in SUBSET Modifier
  BY <1>3
<1> HIDE DEF dn, ln
<1>6. Passed(g, d, l) = [raw |-> k, flags |-> dn]
  <2>1. k \notin PadKeys /\ PadKey(k, ln) = k
    BY DEF PadKeys, PadKey, Modifier, Shift, Lock
  <2> QED
    BY <1>1, <2>1 DEF Passed, dn, ln
<1>7. Meaning(k, dn, ln) = [raw |-> k, flags |-> dn]
  <2>1. k \notin {"a", "1", "KP_7", "KP_.", "KP_/", "KP_EN"}
    BY DEF Modifier, Shift, Lock
  <2> QED
    BY <1>5, <2>1 DEF Meaning
<1> QED
  BY <1>2, <1>3, <1>4, <1>6, <1>7 DEF dn, ln

(* The break of a key that is no modifier changes nothing.                 *)
LEMMA BreakKey ==
  ASSUME NEW k, NEW g, ~Special(g), ~make(g),
         \A d \in SUBSET Modifier, l \in SUBSET Lock :
           KeyOf(g, d, l) = k \/ (k \notin Modifier /\ KeyOf(g, d, l) \notin Modifier)
  PROVE  BreaksKey(k, g)
<1> SUFFICES ASSUME NEW d \in SUBSET Modifier, NEW l \in SUBSET Lock
             PROVE  /\ ~HasKey(g)
                    /\ DownAfter(g, d, l) = d \ {k}
                    /\ LocksAfter(g, d, l) = l
  BY DEF BreaksKey
<1>1. DownAfter(g, d, l) = d \ {k}
  BY DEF DownAfter
<1> QED
  BY <1>1 DEF HasKey, LocksAfter, IsLock

(* A key with a row whose first two columns are the same.                  *)
LEMMA OneByteKey ==
  ASSUME NEW k \in {"ENTER", "F1"} \union Modifier \union Lock,
         NEW c \in 1 .. 95, NEW x, keymap(c) = <<k, k, x>>
  PROVE  MakesKey(k, <<c>>) /\ BreaksKey(k, <<c + 128>>)
<1>1. c \in Byte /\ c + 128 \in Byte /\ c # 224 /\ c + 128 # 224
  BY DEF Byte
<1>2. c % 128 = c /\ (c + 128) % 128 = c
  OBVIOUS
<1>3. /\ ~Special(<<c>>) /\ ~code_with_E0(<<c>>) /\ make(<<c>>)
      /\ keyrow(<<c>>) = <<k, k, x>>
  BY <1>1, <1>2, OneByteRow
<1>4. /\ ~Special(<<c + 128>>) /\ ~code_with_E0(<<c + 128>>) /\ ~make(<<c + 128>>)
      /\ keyrow(<<c + 128>>) = <<k, k, x>>
  BY <1>1, <1>2, OneByteRow
<1>5. \A d, l : KeyOf(<<c>>, d, l) = k /\ KeyOf(<<c + 128>>, d, l) = k
  BY <1>3, <1>4 DEF KeyOf, column
<1> QED
  BY <1>3, <1>4, <1>5, PlainKey, BreakKey

(* A key with an E0.                                                       *)
LEMMA TwoByteKey ==
  ASSUME NEW k \in {"HOME"} \union Modifier, NEW c \in 1 .. 95,
         NEW x, NEW y, keymap(c) = <<x, y, k>>
  PROVE  MakesKey(k, <<224, c>>) /\ BreaksKey(k, <<224, c + 128>>)
<1>1. c \in Byte /\ c + 128 \in Byte
  BY DEF Byte
<1>2. c % 128 = c /\ (c + 128) % 128 = c
  OBVIOUS
<1>3. /\ ~Special(<<224, c>>) /\ code_with_E0(<<224, c>>) /\ make(<<224, c>>)
      /\ keyrow(<<224, c>>) = <<x, y, k>>
  BY <1>1, <1>2, TwoByteRow
<1>4. /\ ~Special(<<224, c + 128>>) /\ code_with_E0(<<224, c + 128>>)
      /\ ~make(<<224, c + 128>>) /\ keyrow(<<224, c + 128>>) = <<x, y, k>>
  BY <1>1, <1>2, TwoByteRow
<1>5. \A d, l : KeyOf(<<224, c>>, d, l) = k /\ KeyOf(<<224, c + 128>>, d, l) = k
  BY <1>3, <1>4 DEF KeyOf, column
<1> QED
  BY <1>3, <1>4, <1>5, PlainKey, BreakKey

(* What in_process() is given of the name k.                               *)
Named(k, d, l) ==
  [raw |-> PadKey(k, l), flags |-> d \union (IF k \in PadKeys THEN {"PAD"} ELSE {})]

(* A key whose name depends on what is down or on.                         *)
LEMMA NamedKey ==
  ASSUME NEW k, k \notin Modifier, k \notin Lock, NEW g, NEW h,
         ~Special(g), ~Special(h), make(g), ~make(h),
         \A d \in SUBSET Modifier, l \in SUBSET Lock :
           /\ KeyOf(g, d, l) \notin Modifier \union Lock
           /\ KeyOf(h, d, l) \notin Modifier \union Lock
           /\ Named(KeyOf(g, d, l), d, l) = Meaning(k, d, l)
  PROVE  MakesKey(k, g) /\ BreaksKey(k, h)
<1>1. ASSUME NEW d \in SUBSET Modifier, NEW l \in SUBSET Lock
      PROVE  /\ HasKey(g)
             /\ DownAfter(g, d, l) = d
             /\ LocksAfter(g, d, l) = l
             /\ Passed(g, d, l) = Meaning(k, d, l)
  <2>1. HasKey(g) /\ DownAfter(g, d, l) = d /\ LocksAfter(g, d, l) = l
    BY DEF HasKey, DownAfter, LocksAfter, IsLock
  <2> QED
    BY <2>1 DEF Passed, Named
<1> QED
  BY <1>1, BreakKey DEF MakesKey

LEMMA LetterKey == MakesKey("a", <<30>>) /\ BreaksKey("a", <<158>>)
<1>1. 30 \in Byte /\ 158 \in Byte /\ 30 # 224 /\ 158 # 224
  BY DEF Byte
<1>2. 30 % 128 = 30 /\ 158 % 128 = 30 /\ keymap(30) = <<"a", "A", "NUL">>
  BY DEF keymap
<1> DEFINE g == <<30>>
           h == <<158>>
<1>3. ~Special(g) /\ ~code_with_E0(g) /\ make(g) /\ keyrow(g) = <<"a", "A", "NUL">>
  BY <1>1, <1>2, OneByteRow
<1>4. ~Special(h) /\ ~code_with_E0(h) /\ ~make(h) /\ keyrow(h) = <<"a", "A", "NUL">>
  BY <1>1, <1>2, OneByteRow
<1> HIDE DEF g, h
<1>5. ASSUME NEW d \in SUBSET Modifier, NEW l \in SUBSET Lock
      PROVE  /\ KeyOf(g, d, l) \notin Modifier \union Lock
             /\ KeyOf(h, d, l) \notin Modifier \union Lock
             /\ Named(KeyOf(g, d, l), d, l) = Meaning("a", d, l)
  <2>1. /\ KeyOf(g, d, l) \notin Modifier \union Lock
        /\ KeyOf(h, d, l) \notin Modifier \union Lock
    <3>1. KeyOf(g, d, l) \in {"a", "A"} /\ KeyOf(h, d, l) \in {"a", "A"}
      BY <1>3, <1>4 DEF KeyOf, column
    <3> QED
      BY <3>1 DEF Modifier, Shift, Lock
  <2>2. d \intersect Modifier = d
    OBVIOUS
  <2>3. Named(KeyOf(g, d, l), d, l).raw = Meaning("a", d, l).raw
    BY <1>3 DEF Named, KeyOf, column, PadKey, Meaning, Letters
  <2>4. Named(KeyOf(g, d, l), d, l).flags = Meaning("a", d, l).flags
    BY <1>3, <2>2 DEF Named, KeyOf, column, PadKeys, Meaning, Letters
  <2> QED
    BY <2>1, <2>3, <2>4 DEF Named, Meaning
<1>6. "a" \notin Modifier /\ "a" \notin Lock
  BY DEF Modifier, Shift, Lock
<1>7. MakesKey("a", g) /\ BreaksKey("a", h)
  BY <1>3, <1>4, <1>5, <1>6, NamedKey
<1> QED
  BY <1>7 DEF g, h

LEMMA DigitKey == MakesKey("1", <<2>>) /\ BreaksKey("1", <<130>>)
<1>1. 2 \in Byte /\ 130 \in Byte /\ 2 # 224 /\ 130 # 224
  BY DEF Byte
<1>2. 2 % 128 = 2 /\ 130 % 128 = 2 /\ keymap(2) = <<"1", "!", "NUL">>
  BY DEF keymap
<1> DEFINE g == <<2>>
           h == <<130>>
<1>3. ~Special(g) /\ ~code_with_E0(g) /\ make(g) /\ keyrow(g) = <<"1", "!", "NUL">>
  BY <1>1, <1>2, OneByteRow
<1>4. ~Special(h) /\ ~code_with_E0(h) /\ ~make(h) /\ keyrow(h) = <<"1", "!", "NUL">>
  BY <1>1, <1>2, OneByteRow
<1> HIDE DEF g, h
<1>5. ASSUME NEW d \in SUBSET Modifier, NEW l \in SUBSET Lock
      PROVE  /\ KeyOf(g, d, l) \notin Modifier \union Lock
             /\ KeyOf(h, d, l) \notin Modifier \union Lock
             /\ Named(KeyOf(g, d, l), d, l) = Meaning("1", d, l)
  <2>1. /\ KeyOf(g, d, l) \notin Modifier \union Lock
        /\ KeyOf(h, d, l) \notin Modifier \union Lock
    <3>1. KeyOf(g, d, l) \in {"1", "!"} /\ KeyOf(h, d, l) \in {"1", "!"}
      BY <1>3, <1>4 DEF KeyOf, column
    <3> QED
      BY <3>1 DEF Modifier, Shift, Lock
  <2>2. d \intersect Modifier = d
    OBVIOUS
  <2>3. Named(KeyOf(g, d, l), d, l).raw = Meaning("1", d, l).raw
    BY <1>3 DEF Named, KeyOf, column, PadKey, Meaning, Letters
  <2>4. Named(KeyOf(g, d, l), d, l).flags = Meaning("1", d, l).flags
    BY <1>3, <2>2 DEF Named, KeyOf, column, PadKeys, Meaning, Letters
  <2> QED
    BY <2>1, <2>3, <2>4 DEF Named, Meaning
<1>6. "1" \notin Modifier /\ "1" \notin Lock
  BY DEF Modifier, Shift, Lock
<1>7. MakesKey("1", g) /\ BreaksKey("1", h)
  BY <1>3, <1>4, <1>5, <1>6, NamedKey
<1> QED
  BY <1>7 DEF g, h

LEMMA PadSevenKey == MakesKey("KP_7", <<71>>) /\ BreaksKey("KP_7", <<199>>)
<1>1. 71 \in Byte /\ 199 \in Byte /\ 71 # 224 /\ 199 # 224
  BY DEF Byte
<1>2. 71 % 128 = 71 /\ 199 % 128 = 71 /\ keymap(71) = <<"PAD_HOME", "7", "HOME">>
  BY DEF keymap
<1> DEFINE g == <<71>>
           h == <<199>>
<1>3. ~Special(g) /\ ~code_with_E0(g) /\ make(g) /\ keyrow(g) = <<"PAD_HOME", "7", "HOME">>
  BY <1>1, <1>2, OneByteRow
<1>4. ~Special(h) /\ ~code_with_E0(h) /\ ~make(h) /\ keyrow(h) = <<"PAD_HOME", "7", "HOME">>
  BY <1>1, <1>2, OneByteRow
<1> HIDE DEF g, h
<1>5. ASSUME NEW d \in SUBSET Modifier, NEW l \in SUBSET Lock
      PROVE  /\ KeyOf(g, d, l) \notin Modifier \union Lock
             /\ KeyOf(h, d, l) \notin Modifier \union Lock
             /\ Named(KeyOf(g, d, l), d, l) = Meaning("KP_7", d, l)
  <2>1. /\ KeyOf(g, d, l) \notin Modifier \union Lock
        /\ KeyOf(h, d, l) \notin Modifier \union Lock
    <3>1. KeyOf(g, d, l) \in {"PAD_HOME", "7"} /\ KeyOf(h, d, l) \in {"PAD_HOME", "7"}
      BY <1>3, <1>4 DEF KeyOf, column
    <3> QED
      BY <3>1 DEF Modifier, Shift, Lock
  <2>2. d \intersect Modifier = d
    OBVIOUS
  <2>3. Named(KeyOf(g, d, l), d, l).raw = Meaning("KP_7", d, l).raw
    BY <1>3 DEF Named, KeyOf, column, PadKey, Meaning, Letters
  <2>4. Named(KeyOf(g, d, l), d, l).flags = Meaning("KP_7", d, l).flags
    BY <1>3, <2>2 DEF Named, KeyOf, column, PadKeys, Meaning, Letters
  <2> QED
    BY <2>1, <2>3, <2>4 DEF Named, Meaning
<1>6. "KP_7" \notin Modifier /\ "KP_7" \notin Lock
  BY DEF Modifier, Shift, Lock
<1>7. MakesKey("KP_7", g) /\ BreaksKey("KP_7", h)
  BY <1>3, <1>4, <1>5, <1>6, NamedKey
<1> QED
  BY <1>7 DEF g, h

LEMMA PadDotKey == MakesKey("KP_.", <<83>>) /\ BreaksKey("KP_.", <<211>>)
<1>1. 83 \in Byte /\ 211 \in Byte /\ 83 # 224 /\ 211 # 224
  BY DEF Byte
<1>2. 83 % 128 = 83 /\ 211 % 128 = 83 /\ keymap(83) = <<"PAD_DOT", ".", "DELETE">>
  BY DEF keymap
<1> DEFINE g == <<83>>
           h == <<211>>
<1>3. ~Special(g) /\ ~code_with_E0(g) /\ make(g) /\ keyrow(g) = <<"PAD_DOT", ".", "DELETE">>
  BY <1>1, <1>2, OneByteRow
<1>4. ~Special(h) /\ ~code_with_E0(h) /\ ~make(h) /\ keyrow(h) = <<"PAD_DOT", ".", "DELETE">>
  BY <1>1, <1>2, OneByteRow
<1> HIDE DEF g, h
<1>5. ASSUME NEW d \in SUBSET Modifier, NEW l \in SUBSET Lock
      PROVE  /\ KeyOf(g, d, l) \notin Modifier \union Lock
             /\ KeyOf(h, d, l) \notin Modifier \union Lock
             /\ Named(KeyOf(g, d, l), d, l) = Meaning("KP_.", d, l)
  <2>1. /\ KeyOf(g, d, l) \notin Modifier \union Lock
        /\ KeyOf(h, d, l) \notin Modifier \union Lock
    <3>1. KeyOf(g, d, l) \in {"PAD_DOT", "."} /\ KeyOf(h, d, l) \in {"PAD_DOT", "."}
      BY <1>3, <1>4 DEF KeyOf, column
    <3> QED
      BY <3>1 DEF Modifier, Shift, Lock
  <2>2. d \intersect Modifier = d
    OBVIOUS
  <2>3. Named(KeyOf(g, d, l), d, l).raw = Meaning("KP_.", d, l).raw
    BY <1>3 DEF Named, KeyOf, column, PadKey, Meaning, Letters
  <2>4. Named(KeyOf(g, d, l), d, l).flags = Meaning("KP_.", d, l).flags
    BY <1>3, <2>2 DEF Named, KeyOf, column, PadKeys, Meaning, Letters
  <2> QED
    BY <2>1, <2>3, <2>4 DEF Named, Meaning
<1>6. "KP_." \notin Modifier /\ "KP_." \notin Lock
  BY DEF Modifier, Shift, Lock
<1>7. MakesKey("KP_.", g) /\ BreaksKey("KP_.", h)
  BY <1>3, <1>4, <1>5, <1>6, NamedKey
<1> QED
  BY <1>7 DEF g, h

LEMMA PadSlashKey == MakesKey("KP_/", <<224, 53>>) /\ BreaksKey("KP_/", <<224, 181>>)
<1>1. 53 \in Byte /\ 181 \in Byte
  BY DEF Byte
<1>2. 53 % 128 = 53 /\ 181 % 128 = 53 /\ keymap(53) = <<"/", "?", "PAD_SLASH">>
  BY DEF keymap
<1> DEFINE g == <<224, 53>>
           h == <<224, 181>>
<1>3. ~Special(g) /\ code_with_E0(g) /\ make(g) /\ keyrow(g) = <<"/", "?", "PAD_SLASH">>
  BY <1>1, <1>2, TwoByteRow
<1>4. ~Special(h) /\ code_with_E0(h) /\ ~make(h) /\ keyrow(h) = <<"/", "?", "PAD_SLASH">>
  BY <1>1, <1>2, TwoByteRow
<1> HIDE DEF g, h
<1>5. ASSUME NEW d \in SUBSET Modifier, NEW l \in SUBSET Lock
      PROVE  /\ KeyOf(g, d, l) \notin Modifier \union Lock
             /\ KeyOf(h, d, l) \notin Modifier \union Lock
             /\ Named(KeyOf(g, d, l), d, l) = Meaning("KP_/", d, l)
  <2>1. /\ KeyOf(g, d, l) \notin Modifier \union Lock
        /\ KeyOf(h, d, l) \notin Modifier \union Lock
    <3>1. KeyOf(g, d, l) \in {"PAD_SLASH"} /\ KeyOf(h, d, l) \in {"PAD_SLASH"}
      BY <1>3, <1>4 DEF KeyOf, column
    <3> QED
      BY <3>1 DEF Modifier, Shift, Lock
  <2>2. d \intersect Modifier = d
    OBVIOUS
  <2>3. Named(KeyOf(g, d, l), d, l).raw = Meaning("KP_/", d, l).raw
    BY <1>3 DEF Named, KeyOf, column, PadKey, Meaning, Letters
  <2>4. Named(KeyOf(g, d, l), d, l).flags = Meaning("KP_/", d, l).flags
    BY <1>3, <2>2 DEF Named, KeyOf, column, PadKeys, Meaning, Letters
  <2> QED
    BY <2>1, <2>3, <2>4 DEF Named, Meaning
<1>6. "KP_/" \notin Modifier /\ "KP_/" \notin Lock
  BY DEF Modifier, Shift, Lock
<1>7. MakesKey("KP_/", g) /\ BreaksKey("KP_/", h)
  BY <1>3, <1>4, <1>5, <1>6, NamedKey
<1> QED
  BY <1>7 DEF g, h

LEMMA PadEnterKey == MakesKey("KP_EN", <<224, 28>>) /\ BreaksKey("KP_EN", <<224, 156>>)
<1>1. 28 \in Byte /\ 156 \in Byte
  BY DEF Byte
<1>2. 28 % 128 = 28 /\ 156 % 128 = 28 /\ keymap(28) = <<"ENTER", "ENTER", "PAD_ENTER">>
  BY DEF keymap
<1> DEFINE g == <<224, 28>>
           h == <<224, 156>>
<1>3. ~Special(g) /\ code_with_E0(g) /\ make(g) /\ keyrow(g) = <<"ENTER", "ENTER", "PAD_ENTER">>
  BY <1>1, <1>2, TwoByteRow
<1>4. ~Special(h) /\ code_with_E0(h) /\ ~make(h) /\ keyrow(h) = <<"ENTER", "ENTER", "PAD_ENTER">>
  BY <1>1, <1>2, TwoByteRow
<1> HIDE DEF g, h
<1>5. ASSUME NEW d \in SUBSET Modifier, NEW l \in SUBSET Lock
      PROVE  /\ KeyOf(g, d, l) \notin Modifier \union Lock
             /\ KeyOf(h, d, l) \notin Modifier \union Lock
             /\ Named(KeyOf(g, d, l), d, l) = Meaning("KP_EN", d, l)
  <2>1. /\ KeyOf(g, d, l) \notin Modifier \union Lock
        /\ KeyOf(h, d, l) \notin Modifier \union Lock
    <3>1. KeyOf(g, d, l) \in {"PAD_ENTER"} /\ KeyOf(h, d, l) \in {"PAD_ENTER"}
      BY <1>3, <1>4 DEF KeyOf, column
    <3> QED
      BY <3>1 DEF Modifier, Shift, Lock
  <2>2. d \intersect Modifier = d
    OBVIOUS
  <2>3. Named(KeyOf(g, d, l), d, l).raw = Meaning("KP_EN", d, l).raw
    BY <1>3 DEF Named, KeyOf, column, PadKey, Meaning, Letters
  <2>4. Named(KeyOf(g, d, l), d, l).flags = Meaning("KP_EN", d, l).flags
    BY <1>3, <2>2 DEF Named, KeyOf, column, PadKeys, Meaning, Letters
  <2> QED
    BY <2>1, <2>3, <2>4 DEF Named, Meaning
<1>6. "KP_EN" \notin Modifier /\ "KP_EN" \notin Lock
  BY DEF Modifier, Shift, Lock
<1>7. MakesKey("KP_EN", g) /\ BreaksKey("KP_EN", h)
  BY <1>3, <1>4, <1>5, <1>6, NamedKey
<1> QED
  BY <1>7 DEF g, h

-----------------------------------------------------------------------------
(* The keys, their bytes and what the decoder makes of them.               *)
OneByte(k, c) ==
  /\ Make(k) = <<c>> /\ MakesKey(k, <<c>>)
  /\ Break(k) = <<c + 128>> /\ BreaksKey(k, <<c + 128>>)

TwoBytes(k, c) ==
  /\ Make(k) = <<224, c>> /\ MakesKey(k, <<224, c>>)
  /\ Break(k) = <<224, c + 128>> /\ BreaksKey(k, <<224, c + 128>>)

LEMMA BreakBytes ==
  ASSUME NEW k, k # "PAUSE", k # "PRTSCRN", NEW c \in 1 .. 95
  PROVE  /\ Make(k) = <<c>> => Break(k) = <<c + 128>>
         /\ Make(k) = <<224, c>> => Break(k) = <<224, c + 128>>
<1>1. CASE Make(k) = <<c>>
  <2>1. Break(k) = [i \in 1 .. 1 |-> c + 128]
    BY <1>1 DEF Break
  <2> QED
    BY <1>1, <2>1
<1>2. CASE Make(k) = <<224, c>>
  <2>1. Break(k) = [i \in 1 .. 2 |-> IF i = 1 THEN 224 ELSE c + 128]
    BY <1>2 DEF Break
  <2> QED
    BY <1>2, <2>1
<1> QED
  BY <1>1, <1>2

(* Every key but two has one byte or two, which say what it means.         *)
LEMMA KeyBytes ==
  ASSUME NEW k \in Keys, k # "PAUSE", k # "PRTSCRN"
  PROVE  \/ \E c \in 1 .. 95 : OneByte(k, c)
         \/ \E c \in 1 .. 95 : c # 42 /\ c # 55 /\ TwoBytes(k, c)
<1>1. CASE k = "a"
  <2> DEFINE c == 30
  <2>1. Make(k) = <<c>> /\ c \in 1 .. 95
    BY <1>1 DEF Make
  <2>2. MakesKey(k, <<c>>) /\ BreaksKey(k, <<c + 128>>)
    <3>1. c = 30 /\ c + 128 = 158
      OBVIOUS
    <3> HIDE DEF c
    <3> QED
      BY <1>1, <3>1, LetterKey
  <2> HIDE DEF c
  <2> QED
    BY <2>1, <2>2, BreakBytes DEF OneByte
<1>2. CASE k = "1"
  <2> DEFINE c == 2
  <2>1. Make(k) = <<c>> /\ c \in 1 .. 95
    BY <1>2 DEF Make
  <2>2. MakesKey(k, <<c>>) /\ BreaksKey(k, <<c + 128>>)
    <3>1. c = 2 /\ c + 128 = 130
      OBVIOUS
    <3> HIDE DEF c
    <3> QED
      BY <1>2, <3>1, DigitKey
  <2> HIDE DEF c
  <2> QED
    BY <2>1, <2>2, BreakBytes DEF OneByte
<1>3. CASE k = "ENTER"
  <2> DEFINE c == 28
  <2>1. Make(k) = <<c>> /\ c \in 1 .. 95
    BY <1>3 DEF Make
  <2>2. \E x : keymap(c) = <<k, k, x>>
    BY <1>3 DEF keymap
  <2>3. k \in {"ENTER", "F1"} \union Modifier \union Lock
    BY <1>3 DEF Modifier, Shift, Lock
  <2> HIDE DEF c
  <2>4. MakesKey(k, <<c>>) /\ BreaksKey(k, <<c + 128>>)
    BY <2>1, <2>2, <2>3, OneByteKey
  <2> QED
    BY <2>1, <2>4, BreakBytes DEF OneByte
<1>4. CASE k = "F1"
  <2> DEFINE c == 59
  <2>1. Make(k) = <<c>> /\ c \in 1 .. 95
    BY <1>4 DEF Make
  <2>2. \E x : keymap(c) = <<k, k, x>>
    BY <1>4 DEF keymap
  <2>3. k \in {"ENTER", "F1"} \union Modifier \union Lock
    BY <1>4 DEF Modifier, Shift, Lock
  <2> HIDE DEF c
  <2>4. MakesKey(k, <<c>>) /\ BreaksKey(k, <<c + 128>>)
    BY <2>1, <2>2, <2>3, OneByteKey
  <2> QED
    BY <2>1, <2>4, BreakBytes DEF OneByte
<1>5. CASE k = "SHIFT_L"
  <2> DEFINE c == 42
  <2>1. Make(k) = <<c>> /\ c \in 1 .. 95
    BY <1>5 DEF Make
  <2>2. \E x : keymap(c) = <<k, k, x>>
    BY <1>5 DEF keymap
  <2>3. k \in {"ENTER", "F1"} \union Modifier \union Lock
    BY <1>5 DEF Modifier, Shift, Lock
  <2> HIDE DEF c
  <2>4. MakesKey(k, <<c>>) /\ BreaksKey(k, <<c + 128>>)
    BY <2>1, <2>2, <2>3, OneByteKey
  <2> QED
    BY <2>1, <2>4, BreakBytes DEF OneByte
<1>6. CASE k = "SHIFT_R"
  <2> DEFINE c == 54
  <2>1. Make(k) = <<c>> /\ c \in 1 .. 95
    BY <1>6 DEF Make
  <2>2. \E x : keymap(c) = <<k, k, x>>
    BY <1>6 DEF keymap
  <2>3. k \in {"ENTER", "F1"} \union Modifier \union Lock
    BY <1>6 DEF Modifier, Shift, Lock
  <2> HIDE DEF c
  <2>4. MakesKey(k, <<c>>) /\ BreaksKey(k, <<c + 128>>)
    BY <2>1, <2>2, <2>3, OneByteKey
  <2> QED
    BY <2>1, <2>4, BreakBytes DEF OneByte
<1>7. CASE k = "CTRL_L"
  <2> DEFINE c == 29
  <2>1. Make(k) = <<c>> /\ c \in 1 .. 95
    BY <1>7 DEF Make
  <2>2. \E x : keymap(c) = <<k, k, x>>
    BY <1>7 DEF keymap
  <2>3. k \in {"ENTER", "F1"} \union Modifier \union Lock
    BY <1>7 DEF Modifier, Shift, Lock
  <2> HIDE DEF c
  <2>4. MakesKey(k, <<c>>) /\ BreaksKey(k, <<c + 128>>)
    BY <2>1, <2>2, <2>3, OneByteKey
  <2> QED
    BY <2>1, <2>4, BreakBytes DEF OneByte
<1>8. CASE k = "ALT_L"
  <2> DEFINE c == 56
  <2>1. Make(k) = <<c>> /\ c \in 1 .. 95
    BY <1>8 DEF Make
  <2>2. \E x : keymap(c) = <<k, k, x>>
    BY <1>8 DEF keymap
  <2>3. k \in {"ENTER", "F1"} \union Modifier \union Lock
    BY <1>8 DEF Modifier, Shift, Lock
  <2> HIDE DEF c
  <2>4. MakesKey(k, <<c>>) /\ BreaksKey(k, <<c + 128>>)
    BY <2>1, <2>2, <2>3, OneByteKey
  <2> QED
    BY <2>1, <2>4, BreakBytes DEF OneByte
<1>9. CASE k = "CAPS_LOCK"
  <2> DEFINE c == 58
  <2>1. Make(k) = <<c>> /\ c \in 1 .. 95
    BY <1>9 DEF Make
  <2>2. \E x : keymap(c) = <<k, k, x>>
    BY <1>9 DEF keymap
  <2>3. k \in {"ENTER", "F1"} \union Modifier \union Lock
    BY <1>9 DEF Modifier, Shift, Lock
  <2> HIDE DEF c
  <2>4. MakesKey(k, <<c>>) /\ BreaksKey(k, <<c + 128>>)
    BY <2>1, <2>2, <2>3, OneByteKey
  <2> QED
    BY <2>1, <2>4, BreakBytes DEF OneByte
<1>10. CASE k = "NUM_LOCK"
  <2> DEFINE c == 69
  <2>1. Make(k) = <<c>> /\ c \in 1 .. 95
    BY <1>10 DEF Make
  <2>2. \E x : keymap(c) = <<k, k, x>>
    BY <1>10 DEF keymap
  <2>3. k \in {"ENTER", "F1"} \union Modifier \union Lock
    BY <1>10 DEF Modifier, Shift, Lock
  <2> HIDE DEF c
  <2>4. MakesKey(k, <<c>>) /\ BreaksKey(k, <<c + 128>>)
    BY <2>1, <2>2, <2>3, OneByteKey
  <2> QED
    BY <2>1, <2>4, BreakBytes DEF OneByte
<1>11. CASE k = "SCROLL_LOCK"
  <2> DEFINE c == 70
  <2>1. Make(k) = <<c>> /\ c \in 1 .. 95
    BY <1>11 DEF Make
  <2>2. \E x : keymap(c) = <<k, k, x>>
    BY <1>11 DEF keymap
  <2>3. k \in {"ENTER", "F1"} \union Modifier \union Lock
    BY <1>11 DEF Modifier, Shift, Lock
  <2> HIDE DEF c
  <2>4. MakesKey(k, <<c>>) /\ BreaksKey(k, <<c + 128>>)
    BY <2>1, <2>2, <2>3, OneByteKey
  <2> QED
    BY <2>1, <2>4, BreakBytes DEF OneByte
<1>12. CASE k = "KP_7"
  <2> DEFINE c == 71
  <2>1. Make(k) = <<c>> /\ c \in 1 .. 95
    BY <1>12 DEF Make
  <2>2. MakesKey(k, <<c>>) /\ BreaksKey(k, <<c + 128>>)
    <3>1. c = 71 /\ c + 128 = 199
      OBVIOUS
    <3> HIDE DEF c
    <3> QED
      BY <1>12, <3>1, PadSevenKey
  <2> HIDE DEF c
  <2> QED
    BY <2>1, <2>2, BreakBytes DEF OneByte
<1>13. CASE k = "KP_."
  <2> DEFINE c == 83
  <2>1. Make(k) = <<c>> /\ c \in 1 .. 95
    BY <1>13 DEF Make
  <2>2. MakesKey(k, <<c>>) /\ BreaksKey(k, <<c + 128>>)
    <3>1. c = 83 /\ c + 128 = 211
      OBVIOUS
    <3> HIDE DEF c
    <3> QED
      BY <1>13, <3>1, PadDotKey
  <2> HIDE DEF c
  <2> QED
    BY <2>1, <2>2, BreakBytes DEF OneByte
<1>14. CASE k = "CTRL_R"
  <2> DEFINE c == 29
  <2>1. Make(k) = <<224, c>> /\ c \in 1 .. 95 /\ c # 42 /\ c # 55
    BY <1>14 DEF Make
  <2>2. \E x, y : keymap(c) = <<x, y, k>>
    BY <1>14 DEF keymap
  <2>3. k \in {"HOME"} \union Modifier
    BY <1>14 DEF Modifier, Shift, Lock
  <2> HIDE DEF c
  <2>4. MakesKey(k, <<224, c>>) /\ BreaksKey(k, <<224, c + 128>>)
    BY <2>1, <2>2, <2>3, TwoByteKey
  <2> QED
    BY <2>1, <2>4, BreakBytes DEF TwoBytes
<1>15. CASE k = "ALT_R"
  <2> DEFINE c == 56
  <2>1. Make(k) = <<224, c>> /\ c \in 1 .. 95 /\ c # 42 /\ c # 55
    BY <1>15 DEF Make
  <2>2. \E x, y : keymap(c) = <<x, y, k>>
    BY <1>15 DEF keymap
  <2>3. k \in {"HOME"} \union Modifier
    BY <1>15 DEF Modifier, Shift, Lock
  <2> HIDE DEF c
  <2>4. MakesKey(k, <<224, c>>) /\ BreaksKey(k, <<224, c + 128>>)
    BY <2>1, <2>2, <2>3, TwoByteKey
  <2> QED
    BY <2>1, <2>4, BreakBytes DEF TwoBytes
<1>16. CASE k = "HOME"
  <2> DEFINE c == 71
  <2>1. Make(k) = <<224, c>> /\ c \in 1 .. 95 /\ c # 42 /\ c # 55
    BY <1>16 DEF Make
  <2>2. \E x, y : keymap(c) = <<x, y, k>>
    BY <1>16 DEF keymap
  <2>3. k \in {"HOME"} \union Modifier
    BY <1>16 DEF Modifier, Shift, Lock
  <2> HIDE DEF c
  <2>4. MakesKey(k, <<224, c>>) /\ BreaksKey(k, <<224, c + 128>>)
    BY <2>1, <2>2, <2>3, TwoByteKey
  <2> QED
    BY <2>1, <2>4, BreakBytes DEF TwoBytes
<1>17. CASE k = "KP_/"
  <2> DEFINE c == 53
  <2>1. Make(k) = <<224, c>> /\ c \in 1 .. 95 /\ c # 42 /\ c # 55
    BY <1>17 DEF Make
  <2>2. MakesKey(k, <<224, c>>) /\ BreaksKey(k, <<224, c + 128>>)
    <3>1. c = 53 /\ c + 128 = 181
      OBVIOUS
    <3> HIDE DEF c
    <3> QED
      BY <1>17, <3>1, PadSlashKey
  <2> HIDE DEF c
  <2> QED
    BY <2>1, <2>2, BreakBytes DEF TwoBytes
<1>18. CASE k = "KP_EN"
  <2> DEFINE c == 28
  <2>1. Make(k) = <<224, c>> /\ c \in 1 .. 95 /\ c # 42 /\ c # 55
    BY <1>18 DEF Make
  <2>2. MakesKey(k, <<224, c>>) /\ BreaksKey(k, <<224, c + 128>>)
    <3>1. c = 28 /\ c + 128 = 156
      OBVIOUS
    <3> HIDE DEF c
    <3> QED
      BY <1>18, <3>1, PadEnterKey
  <2> HIDE DEF c
  <2> QED
    BY <2>1, <2>2, BreakBytes DEF TwoBytes
<1> QED
  BY <1>1, <1>2, <1>3, <1>4, <1>5, <1>6, <1>7, <1>8, <1>9,
     <1>10, <1>11, <1>12, <1>13, <1>14, <1>15, <1>16, <1>17, <1>18 DEF Keys

-----------------------------------------------------------------------------
(* A key at the end of what is on its way.                                 *)
AfterPress(t, k) ==
  [pre |-> <<>>,
   down |-> IF k \in Modifier THEN t.down \union {k} ELSE t.down,
   locks |-> IF k \in Lock THEN Toggled(t.locks, k) ELSE t.locks,
   n |-> IF k \in {"PAUSE", "PRTSCRN"} THEN t.n ELSE t.n + 1]

AfterRelease(t, k) ==
  [pre |-> <<>>, down |-> t.down \ {k}, locks |-> t.locks, n |-> t.n]

LEMMA SpecialBytes ==
  /\ Make("PAUSE") = <<225, 29, 69, 225, 157, 197>> /\ Break("PAUSE") = <<>>
  /\ Make("PRTSCRN") = <<224, 42, 224, 55>> /\ Break("PRTSCRN") = <<224, 183, 224, 170>>
BY DEF Make, Break

(* What the keyboard sends are bytes.                                      *)
LEMMA BytesType ==
  ASSUME NEW k \in Keys
  PROVE  Make(k) \in Seq(Byte) /\ Break(k) \in Seq(Byte)
<1>1. CASE k = "PAUSE"
  <2>1. <<225, 29, 69, 225, 157, 197>> \in Seq(Byte) /\ <<>> \in Seq(Byte)
    BY DEF Byte
  <2> QED
    BY <1>1, <2>1, SpecialBytes
<1>2. CASE k = "PRTSCRN"
  <2>1. <<224, 42, 224, 55>> \in Seq(Byte) /\ <<224, 183, 224, 170>> \in Seq(Byte)
    BY DEF Byte
  <2> QED
    BY <1>2, <2>1, SpecialBytes
<1>3. CASE k # "PAUSE" /\ k # "PRTSCRN"
  <2>1. PICK c \in 1 .. 95 : OneByte(k, c) \/ TwoBytes(k, c)
    BY <1>3, KeyBytes
  <2> DEFINE b == c + 128
  <2>2. c \in Byte /\ b \in Byte /\ 224 \in Byte
    BY DEF Byte
  <2>3. \/ Make(k) = <<c>> /\ Break(k) = <<b>>
        \/ Make(k) = <<224, c>> /\ Break(k) = <<224, b>>
    BY <2>1 DEF OneByte, TwoBytes
  <2> HIDE DEF b
  <2>4. /\ <<c>> \in Seq(Byte) /\ <<b>> \in Seq(Byte)
        /\ <<224, c>> \in Seq(Byte) /\ <<224, b>> \in Seq(Byte)
    BY <2>2
  <2> QED
    BY <2>3, <2>4
<1> QED
  BY <1>1, <1>2, <1>3

(* The make of a key, decoded: the key as the user means it.               *)
LEMMA MadeState ==
  ASSUME NEW t \in State, NEW k, k \notin {"PAUSE", "PRTSCRN"}, NEW keys,
         NEW g \in Seq(Byte), MakesKey(k, g),
         t.n + 1 \in DOMAIN keys,
         keys[t.n + 1] = Meaning(k, AfterPress(t, k).down, AfterPress(t, k).locks)
  PROVE  Decoded(With(t, g)) = AfterPress(t, k) /\ Fits(With(t, g), keys)
<1>1. /\ With(t, g).pre = g /\ With(t, g).down = t.down
      /\ With(t, g).locks = t.locks /\ With(t, g).n = t.n
      /\ t.down \in SUBSET Modifier /\ t.locks \in SUBSET Lock
  BY DEF With, State
<1>2. /\ HasKey(g)
      /\ DownAfter(g, t.down, t.locks) = AfterPress(t, k).down
      /\ LocksAfter(g, t.down, t.locks) = AfterPress(t, k).locks
      /\ Passed(g, t.down, t.locks)
           = Meaning(k, DownAfter(g, t.down, t.locks), LocksAfter(g, t.down, t.locks))
  BY <1>1 DEF MakesKey, AfterPress
<1>3. Fits(With(t, g), keys)
  BY <1>1, <1>2 DEF Fits
<1>4. Decoded(With(t, g))
        = [pre |-> <<>>, down |-> AfterPress(t, k).down,
           locks |-> AfterPress(t, k).locks, n |-> t.n + 1]
  BY <1>1, <1>2 DEF Decoded
<1> QED
  BY <1>3, <1>4 DEF AfterPress

(* The break of a key, decoded: no key, and the modifier is up.            *)
LEMMA BrokenState ==
  ASSUME NEW t \in State, NEW k, NEW keys, NEW g \in Seq(Byte), BreaksKey(k, g)
  PROVE  Decoded(With(t, g)) = AfterRelease(t, k) /\ Fits(With(t, g), keys)
<1>1. /\ With(t, g).pre = g /\ With(t, g).down = t.down
      /\ With(t, g).locks = t.locks /\ With(t, g).n = t.n
      /\ t.down \in SUBSET Modifier /\ t.locks \in SUBSET Lock
  BY DEF With, State
<1>2. /\ ~HasKey(g) /\ DownAfter(g, t.down, t.locks) = t.down \ {k}
      /\ LocksAfter(g, t.down, t.locks) = t.locks
  BY <1>1 DEF BreaksKey
<1> QED
  BY <1>1, <1>2 DEF Fits, Decoded, AfterRelease

(* A key is pressed: its bytes take the decoder to what the user means.    *)
LEMMA PressPath ==
  ASSUME NEW k \in Keys, NEW s, NEW t \in State, NEW keys, NEW q \in Seq(Byte),
         t.pre = <<>>, Path(s, q, t, keys),
         k \notin {"PAUSE", "PRTSCRN"} =>
           /\ t.n + 1 \in DOMAIN keys
           /\ keys[t.n + 1] = Meaning(k, AfterPress(t, k).down, AfterPress(t, k).locks)
  PROVE  Path(s, q \o Make(k), AfterPress(t, k), keys)
<1>1. CASE k \in {"PAUSE", "PRTSCRN"}
  <2>1. AfterPress(t, k) = t
    <3>1. k \notin Modifier /\ k \notin Lock
      BY <1>1 DEF Modifier, Shift, Lock
    <3> QED
      BY <1>1, <3>1 DEF AfterPress, State
  <2>2. CASE k = "PAUSE"
    <3>1. Path(s, q \o <<225, 29, 69, 225, 157, 197>>, t, keys)
      BY PathPause
    <3> QED
      BY <2>1, <2>2, <3>1, SpecialBytes
  <2>3. CASE k = "PRTSCRN"
    <3>1. Path(s, q \o <<224, 42, 224, 55>>, t, keys)
      BY PathPrintScreen
    <3> QED
      BY <2>1, <2>3, <3>1, SpecialBytes
  <2> QED
    BY <1>1, <2>2, <2>3
<1>2. CASE k \notin {"PAUSE", "PRTSCRN"}
  <2>1. CASE \E c \in 1 .. 95 : OneByte(k, c)
    <3>1. PICK c \in 1 .. 95 : OneByte(k, c)
      BY <2>1
    <3>2. /\ c \in Byte /\ c \notin {224, 225, 250} /\ <<c>> \in Seq(Byte)
          /\ Make(k) = <<c>> /\ MakesKey(k, <<c>>)
      BY <3>1 DEF Byte, OneByte
    <3>3. Decoded(With(t, <<c>>)) = AfterPress(t, k) /\ Fits(With(t, <<c>>), keys)
      BY <1>2, <3>2, MadeState
    <3> QED
      BY <3>2, <3>3, PathOne
  <2>2. CASE \E c \in 1 .. 95 : c # 42 /\ c # 55 /\ TwoBytes(k, c)
    <3>1. PICK c \in 1 .. 95 : c # 42 /\ c # 55 /\ TwoBytes(k, c)
      BY <2>2
    <3>2. /\ c \in Byte /\ c \notin {42, 183, 250} /\ <<224, c>> \in Seq(Byte)
          /\ Make(k) = <<224, c>> /\ MakesKey(k, <<224, c>>)
      BY <3>1 DEF Byte, TwoBytes
    <3>3. Decoded(With(t, <<224, c>>)) = AfterPress(t, k) /\ Fits(With(t, <<224, c>>), keys)
      BY <1>2, <3>2, MadeState
    <3> QED
      BY <3>2, <3>3, PathTwo
  <2> QED
    BY <1>2, <2>1, <2>2, KeyBytes
<1> QED
  BY <1>1, <1>2

(* A key is released: its bytes take the decoder there as well.            *)
LEMMA ReleasePath ==
  ASSUME NEW k \in Keys, NEW s, NEW t \in State, NEW keys, NEW q \in Seq(Byte),
         t.pre = <<>>, Path(s, q, t, keys)
  PROVE  Path(s, q \o Break(k), AfterRelease(t, k), keys)
<1>1. CASE k \in {"PAUSE", "PRTSCRN"}
  <2>1. AfterRelease(t, k) = t
    <3>1. k \notin Modifier
      BY <1>1 DEF Modifier, Shift
    <3> QED
      BY <1>1, <3>1 DEF AfterRelease, State
  <2>2. q \o <<>> = q
    BY ConcatEmptySeq
  <2>3. CASE k = "PAUSE"
    BY <2>1, <2>2, <2>3, SpecialBytes
  <2>4. CASE k = "PRTSCRN"
    <3>1. Path(s, q \o <<224, 183, 224, 170>>, t, keys)
      BY PathPrintScreen
    <3> QED
      BY <2>1, <2>4, <3>1, SpecialBytes
  <2> QED
    BY <1>1, <2>3, <2>4
<1>2. CASE k \notin {"PAUSE", "PRTSCRN"}
  <2>1. CASE \E c \in 1 .. 95 : OneByte(k, c)
    <3>1. PICK c \in 1 .. 95 : OneByte(k, c)
      BY <2>1
    <3> DEFINE b == c + 128
    <3>2. /\ b \in Byte /\ b \notin {224, 225, 250} /\ <<b>> \in Seq(Byte)
          /\ Break(k) = <<b>> /\ BreaksKey(k, <<b>>)
      <4>1. b \in Byte /\ b \notin {224, 225, 250}
        BY DEF Byte
      <4>2. Break(k) = <<b>> /\ BreaksKey(k, <<b>>)
        BY <3>1 DEF OneByte
      <4> HIDE DEF b
      <4> QED
        BY <4>1, <4>2
    <3> HIDE DEF b
    <3>3. Decoded(With(t, <<b>>)) = AfterRelease(t, k) /\ Fits(With(t, <<b>>), keys)
      BY <3>2, BrokenState
    <3> QED
      BY <3>2, <3>3, PathOne
  <2>2. CASE \E c \in 1 .. 95 : c # 42 /\ c # 55 /\ TwoBytes(k, c)
    <3>1. PICK c \in 1 .. 95 : c # 42 /\ c # 55 /\ TwoBytes(k, c)
      BY <2>2
    <3> DEFINE b == c + 128
    <3>2. /\ b \in Byte /\ b \notin {42, 183, 250} /\ <<224, b>> \in Seq(Byte)
          /\ Break(k) = <<224, b>> /\ BreaksKey(k, <<224, b>>)
      BY <3>1 DEF Byte, TwoBytes
    <3> HIDE DEF b
    <3>3. Decoded(With(t, <<224, b>>)) = AfterRelease(t, k) /\ Fits(With(t, <<224, b>>), keys)
      BY <3>2, BrokenState
    <3> QED
      BY <3>2, <3>3, PathTwo
  <2> QED
    BY <1>2, <2>1, <2>2, KeyBytes
<1> QED
  BY <1>1, <1>2

(* An answer of the keyboard at the end.                                   *)
LEMMA PathAck ==
  ASSUME NEW s, NEW t \in State, NEW keys, NEW q \in Seq(Byte),
         t.pre = <<>>, Path(s, q, t, keys)
  PROVE  Path(s, Append(q, KB_ACK), t, keys)
<1> DEFINE g == <<KB_ACK>>
<1>1. KB_ACK \in Byte /\ g \in Seq(Byte)
  BY DEF KB_ACK, Byte
<1>2. Append(t.pre, KB_ACK) = g
  BY <1>1, AppendTuples
<1>3. ~Wants(g)
  BY <1>1, WantsOne DEF KB_ACK
<1> HIDE DEF g
<1>4. [t EXCEPT !.pre = Append(t.pre, KB_ACK)] = With(t, g)
  BY <1>2 DEF With
<1>5. With(t, g).pre = g /\ With(t, g) \in State
  BY <1>1, WithType
<1> DEFINE u == Decoded(With(t, g))
<1>6. Fits(With(t, g), keys)
  <2>1. ~HasKey(g)
    BY OneByteRow, <1>1 DEF HasKey, KB_ACK, g
  <2> QED
    BY <1>5, <2>1 DEF Fits
<1>7. Reads(t, KB_ACK, u, keys)
  BY <1>3, <1>4, <1>5, <1>6 DEF Reads, Settles
<1>8. u = t
  BY <1>7, AckReads
<1>9. t.n <= t.n
  BY DEF State
<1> HIDE DEF u
<1> QED
  BY <1>1, <1>7, <1>8, <1>9, PathAppend

(* What is removed on the line is removed from ring and line together.     *)
LEMMA ConcatRemove ==
  ASSUME NEW r \in Seq(Byte), NEW q \in Seq(Byte), NEW i \in 1 .. Len(q)
  PROVE  r \o RemoveAt(q, i) = RemoveAt(r \o q, Len(r) + i)
<1> DEFINE L == Len(r)
           M == Len(q)
           p == r \o q
           a == RemoveAt(q, i)
           b == RemoveAt(p, L + i)
           c == r \o a
<1>1. L \in Nat /\ M \in Nat /\ i \in 1 .. M
  OBVIOUS
<1>2. /\ p \in Seq(Byte) /\ Len(p) = L + M
      /\ \A j \in 1 .. L + M : p[j] = IF j <= L THEN r[j] ELSE q[j - L]
  BY ConcatProperties
<1>3. /\ a \in Seq(Byte) /\ Len(a) = M - 1
      /\ \A j \in 1 .. M - 1 : a[j] = IF j < i THEN q[j] ELSE q[j + 1]
  BY RemoveAtProperties
<1> HIDE DEF p, a
<1>4. /\ c \in Seq(Byte) /\ Len(c) = L + Len(a)
      /\ \A j \in 1 .. L + Len(a) : c[j] = IF j <= L THEN r[j] ELSE a[j - L]
  BY <1>3, ConcatProperties
<1> HIDE DEF L, M, c
<1>5. L + i \in 1 .. Len(p) /\ Len(p) - 1 = L + M - 1 /\ L + Len(a) = L + M - 1
  BY <1>1, <1>2, <1>3
<1>6. /\ b \in Seq(Byte) /\ Len(b) = L + M - 1
      /\ \A j \in 1 .. L + M - 1 : b[j] = IF j < L + i THEN p[j] ELSE p[j + 1]
  BY <1>2, <1>5, RemoveAtProperties
<1> HIDE DEF b
<1>7. ASSUME NEW j \in 1 .. L + M - 1
      PROVE  c[j] = b[j]
  <2>1. CASE j <= L
    <3>1. j < L + i /\ j \in 1 .. L + M
      BY <1>1, <2>1
    <3> QED
      BY <1>2, <1>4, <1>5, <1>6, <2>1, <3>1
  <2>2. CASE j > L /\ j < L + i
    <3>1. j - L \in 1 .. M - 1 /\ j - L < i /\ j \in 1 .. L + M
      BY <1>1, <2>2
    <3>2. c[j] = q[j - L]
      BY SMTT(30), <1>1, <1>3, <1>4, <1>5, <2>2, <3>1
    <3>3. b[j] = q[j - L]
      BY <1>1, <1>2, <1>6, <2>2, <3>1
    <3> QED
      BY <3>2, <3>3
  <2>3. CASE j >= L + i
    <3>1. /\ j - L \in 1 .. M - 1 /\ ~(j - L < i) /\ j + 1 \in 1 .. L + M
          /\ (j + 1) - L = (j - L) + 1 /\ ~(j <= L) /\ ~(j + 1 <= L) /\ ~(j < L + i)
      BY <1>1, <2>3
    <3>2. c[j] = q[(j - L) + 1]
      <4>1. c[j] = a[j - L]
        BY <1>4, <1>5, <3>1
      <4> QED
        BY <1>3, <3>1, <4>1
    <3>3. b[j] = q[(j + 1) - L]
      <4>1. b[j] = p[j + 1]
        BY <1>6, <3>1
      <4> QED
        BY <1>2, <3>1, <4>1
    <3> QED
      BY <3>1, <3>2, <3>3
  <2>4. j <= L \/ (j > L /\ j < L + i) \/ j >= L + i
    BY <1>1
  <2> QED
    BY <2>1, <2>2, <2>3, <2>4
<1>8. c = b
  BY <1>4, <1>5, <1>6, <1>7, SeqEqual
<1> QED
  BY <1>8 DEF a, b, c, p, L

(* One read of kb_ack() that takes no scan code.                           *)
LEMMA KbAckPath ==
  ASSUME NEW s, NEW t \in State, NEW keys, NEW r \in Seq(Byte), NEW q \in Seq(Byte),
         t.pre = <<>>, Path(s, r \o q, t, keys),
         NEW a \in KbAck(Append(q, KB_ACK)), ~a.code
  PROVE  a.rest \in Seq(Byte) /\ Path(s, r \o a.rest, t, keys)
<1> DEFINE p == Append(q, KB_ACK)
<1>1. KB_ACK \in Byte /\ p \in Seq(Byte) /\ r \o q \in Seq(Byte)
  BY ConcatProperties DEF KB_ACK, Byte
<1>2. r \o p = Append(r \o q, KB_ACK)
  BY <1>1, ConcatAppend
<1>3. Path(s, r \o p, t, keys)
  BY <1>1, <1>2, PathAck
<1> HIDE DEF p
<1>4. CASE a = [rest |-> p, code |-> FALSE]
  BY <1>1, <1>3, <1>4
<1>5. CASE \E i \in DOMAIN p : a = [rest |-> RemoveAt(p, i), code |-> p[i] # KB_ACK]
  <2>1. PICK i \in DOMAIN p : a = [rest |-> RemoveAt(p, i), code |-> p[i] # KB_ACK]
    BY <1>5
  <2>2. i \in 1 .. Len(p) /\ p[i] = KB_ACK /\ a.rest = RemoveAt(p, i)
    <3>1. a.code = (p[i] # KB_ACK) /\ a.rest = RemoveAt(p, i)
      BY <2>1
    <3>2. p[i] = KB_ACK
      BY <3>1
    <3> QED
      BY <1>1, <3>1, <3>2
  <2>3. /\ r \o p \in Seq(Byte) /\ Len(r) + i \in 1 .. Len(r \o p)
        /\ (r \o p)[Len(r) + i] = KB_ACK
    <3>1. /\ r \o p \in Seq(Byte) /\ Len(r \o p) = Len(r) + Len(p)
          /\ \A j \in 1 .. Len(r) + Len(p) :
               (r \o p)[j] = IF j <= Len(r) THEN r[j] ELSE p[j - Len(r)]
      BY <1>1, ConcatProperties
    <3>2. /\ Len(r) \in Nat /\ Len(p) \in Nat /\ Len(r) + i \in 1 .. Len(r) + Len(p)
          /\ ~(Len(r) + i <= Len(r)) /\ (Len(r) + i) - Len(r) = i
      BY <1>1, <2>2
    <3> QED
      BY <2>2, <3>1, <3>2
  <2>4. Path(s, RemoveAt(r \o p, Len(r) + i), t, keys)
    BY <1>3, <2>3, PathRemove
  <2>5. r \o RemoveAt(p, i) = RemoveAt(r \o p, Len(r) + i)
    BY <1>1, <2>2, ConcatRemove
  <2>6. RemoveAt(p, i) \in Seq(Byte)
    BY <1>1, <2>2, RemoveAtProperties
  <2> QED
    BY <2>2, <2>4, <2>5, <2>6
<1> QED
  BY <1>4, <1>5 DEF KbAck, p

-----------------------------------------------------------------------------
(* Where the decoder is, and where the bytes on their way must take it: to *)
(* the modifiers that are down and the locks that are on, with all of      *)
(* typed given to in_process().                                            *)
Taken == [pre |-> got, down |-> down, locks |-> locks,
          n |-> IF key = NoKey THEN 0 ELSE 1]

Goal == [pre |-> <<>>, down |-> held \intersect Modifier, locks |-> wanted,
         n |-> Len(typed)]

Types ==
  /\ sending \in Seq(Byte)
  /\ ring \in Seq(Byte)
  /\ typed \in Seq(Pressed)
  /\ Taken \in State
  /\ Goal \in State

KeyGiven == key # NoKey => got = <<>> /\ typed # <<>> /\ key = Head(typed)

OnTheWay ==
  \E s \in State : Settles(Taken, s, typed) /\ Path(s, ring \o sending, Goal, typed)

IInv == lost \in BOOLEAN /\ (~lost => Types /\ KeyGiven /\ OnTheWay)

LEMMA SettlesMore ==
  ASSUME NEW s, NEW t, NEW keys \in Seq(Pressed), NEW k \in Pressed, Settles(s, t, keys)
  PROVE  Settles(s, t, Append(keys, k))
<1>1. \A i \in DOMAIN keys : i \in DOMAIN Append(keys, k) /\ Append(keys, k)[i] = keys[i]
  BY AppendProperties
<1>2. Fits(s, keys) => Fits(s, Append(keys, k))
  BY <1>1 DEF Fits
<1> QED
  BY <1>2 DEF Settles

(* What is typed is a key for in_process(), and of the keys that are down  *)
(* only the modifiers matter for it.                                       *)
LEMMA MeaningType ==
  ASSUME NEW k \in Keys, NEW hs, NEW ls
  PROVE  /\ Meaning(k, hs, ls) \in Pressed
         /\ Meaning(k, hs, ls) = Meaning(k, hs \intersect Modifier, ls)
<1>1. hs \intersect Shift = (hs \intersect Modifier) \intersect Shift
  BY DEF Modifier
<1>2. hs \intersect Modifier = (hs \intersect Modifier) \intersect Modifier
  OBVIOUS
<1>3. Meaning(k, hs, ls) = Meaning(k, hs \intersect Modifier, ls)
  BY <1>1, <1>2 DEF Meaning
<1>4. Meaning(k, hs, ls).raw \in Name
  <2>1. {k, "a", "A", "1", "!", "7", "HOME", ".", "DELETE", "/", "ENTER"} \subseteq Name
    BY DEF Name, Keys
  <2>2. CASE k \in {"a", "1", "KP_7", "KP_.", "KP_/", "KP_EN"}
    <3>1. Meaning("a", hs, ls).raw \in {"a", "A"}
      BY DEF Meaning
    <3>2. Meaning("1", hs, ls).raw \in {"1", "!"}
      BY DEF Meaning
    <3>3. Meaning("KP_7", hs, ls).raw \in {"7", "HOME"}
      BY DEF Meaning
    <3>4. Meaning("KP_.", hs, ls).raw \in {".", "DELETE"}
      BY DEF Meaning
    <3>5. Meaning("KP_/", hs, ls).raw = "/" /\ Meaning("KP_EN", hs, ls).raw = "ENTER"
      BY DEF Meaning
    <3> QED
      BY <2>1, <2>2, <3>1, <3>2, <3>3, <3>4, <3>5
  <2>3. CASE k \notin {"a", "1", "KP_7", "KP_.", "KP_/", "KP_EN"}
    <3>1. Meaning(k, hs, ls).raw = k
      BY <2>3 DEF Meaning
    <3> QED
      BY <2>1, <3>1
  <2> QED
    BY <2>2, <2>3
<1>5. Meaning(k, hs, ls).flags \in SUBSET (Modifier \union {"PAD"})
  BY DEF Meaning
<1>6. Meaning(k, hs, ls) = [raw |-> Meaning(k, hs, ls).raw, flags |-> Meaning(k, hs, ls).flags]
  BY DEF Meaning
<1> QED
  BY <1>3, <1>4, <1>5, <1>6 DEF Pressed

(* The answers to init_keyboard() may be on their way.                     *)
LEMMA InitEstablishesIInv == Init => IInv
<1> SUFFICES ASSUME Init
             PROVE  IInv
  OBVIOUS
<1> DEFINE a == <<KB_ACK>>
           b == <<KB_ACK, KB_ACK>>
<1>1. KB_ACK \in Byte
  BY DEF KB_ACK, Byte
<1>2. /\ <<>> \in Seq(Byte) /\ a \in Seq(Byte) /\ b \in Seq(Byte)
      /\ Append(<<>>, KB_ACK) = a /\ Append(a, KB_ACK) = b
  BY <1>1, AppendTuples
<1> HIDE DEF a, b
<1>3. sending \in {<<>>, a, b} /\ ring = <<>> /\ typed = <<>> /\ ~lost /\ lost \in BOOLEAN
  BY DEF Init, a, b
<1>4. Taken = [pre |-> <<>>, down |-> {}, locks |-> {"NUM_LOCK"}, n |-> 0]
  BY DEF Init, Taken
<1>5. Goal = [pre |-> <<>>, down |-> {}, locks |-> {"NUM_LOCK"}, n |-> 0]
  BY DEF Init, Goal
<1>6. Taken \in State /\ Goal \in State /\ Taken = Goal /\ Taken.pre = <<>>
  BY <1>2, <1>4, <1>5 DEF State, Lock
<1>7. Types
  <2>1. <<>> \in Seq(Pressed)
    OBVIOUS
  <2>2. sending \in Seq(Byte) /\ ring \in Seq(Byte)
    BY <1>2, <1>3
  <2> QED
    BY <1>3, <1>6, <2>1, <2>2 DEF Types
<1>8. KeyGiven
  BY DEF KeyGiven, Init
<1>9. /\ Path(Taken, <<>>, Goal, typed)
      /\ Path(Taken, a, Goal, typed)
      /\ Path(Taken, b, Goal, typed)
  <2>1. Path(Taken, <<>>, Taken, typed)
    BY <1>6, PathNone
  <2>2. Path(Taken, a, Taken, typed)
    BY <1>2, <1>6, <2>1, PathAck
  <2>3. Path(Taken, b, Taken, typed)
    BY <1>2, <1>6, <2>2, PathAck
  <2> QED
    BY <1>6, <2>1, <2>2, <2>3
<1>10. ring \o sending = sending
  BY <1>2, <1>3, ConcatEmptySeq
<1>11. Settles(Taken, Taken, typed)
  BY <1>6, WantsCases DEF Settles
<1>12. OnTheWay
  BY <1>3, <1>6, <1>9, <1>10, <1>11 DEF OnTheWay
<1> QED
  BY <1>3, <1>7, <1>8, <1>12 DEF IInv

(* The user presses a key: the path and the keys to be given get longer.   *)
LEMMA PressKeepsIInv ==
  ASSUME IInv, NEW k \in Key, Press(k)
  PROVE  IInv'
<1>1. lost' = lost /\ lost' \in BOOLEAN /\ k \in Keys
  BY KeyAssumption DEF IInv, Press
<1> SUFFICES ASSUME ~lost
             PROVE  (Types /\ KeyGiven /\ OnTheWay)'
  BY <1>1 DEF IInv
<1> DEFINE special == k \in {"PAUSE", "PRTSCRN"}
           m == Meaning(k, held', wanted')
<1>2. /\ Types /\ KeyGiven /\ OnTheWay
      /\ sending \in Seq(Byte) /\ ring \in Seq(Byte) /\ typed \in Seq(Pressed)
      /\ Taken \in State /\ Goal \in State
  BY DEF IInv, Types
<1>3. /\ sending' = sending \o Make(k)
      /\ held' = held \union {k}
      /\ wanted' = IF k \in Lock THEN Toggled(wanted, k) ELSE wanted
      /\ typed' = IF special THEN typed ELSE Append(typed, m)
      /\ ring' = ring /\ got' = got /\ down' = down /\ locks' = locks /\ key' = key
  BY DEF Press, Send, decoder
<1>4. /\ m \in Pressed
      /\ m = Meaning(k, held' \intersect Modifier, wanted')
  BY <1>1, MeaningType
<1> HIDE DEF m
<1>5. /\ Make(k) \in Seq(Byte)
      /\ sending' \in Seq(Byte)
      /\ ring' \o sending' = (ring \o sending) \o Make(k)
      /\ ring \o sending \in Seq(Byte)
  <2>1. Make(k) \in Seq(Byte)
    BY <1>1, BytesType
  <2>2. ring \o (sending \o Make(k)) = (ring \o sending) \o Make(k)
    BY <1>2, <2>1, ConcatAssociative
  <2> QED
    BY <1>2, <1>3, <2>1, <2>2, ConcatProperties
<1>6. /\ typed' \in Seq(Pressed)
      /\ Len(typed') = IF special THEN Len(typed) ELSE Len(typed) + 1
      /\ ~special => Len(typed) + 1 \in DOMAIN typed' /\ typed'[Len(typed) + 1] = m
  BY <1>2, <1>3, <1>4, AppendProperties
<1>7. Taken' = Taken
  BY <1>3 DEF Taken
<1>8. Goal' = AfterPress(Goal, k)
  <2>1. held' \intersect Modifier
          = IF k \in Modifier THEN (held \intersect Modifier) \union {k}
                              ELSE held \intersect Modifier
    BY <1>3
  <2>2. /\ Goal.down = held \intersect Modifier /\ Goal.locks = wanted
        /\ Goal.n = Len(typed)
    BY DEF Goal
  <2> QED
    BY <1>3, <1>6, <2>1, <2>2 DEF Goal, AfterPress
<1>9. Goal' \in State
  <2>1. /\ held' \intersect Modifier \in SUBSET Modifier
        /\ <<>> \in Seq(Byte) /\ Len(typed') \in Nat
    BY <1>6
  <2>2. wanted \in SUBSET Lock
    BY <1>2 DEF Goal, State
  <2>3. wanted' \in SUBSET Lock
    BY <1>3, <2>2 DEF Toggled
  <2> QED
    BY <2>1, <2>3 DEF Goal, State
<1>10. Types'
  BY <1>2, <1>3, <1>5, <1>6, <1>7, <1>9 DEF Types
<1>11. KeyGiven'
  <2>1. typed # <<>> => typed' # <<>> /\ Head(typed') = Head(typed)
    BY <1>2, <1>3, <1>4, AppendProperties
  <2> QED
    BY <1>2, <1>3, <2>1 DEF KeyGiven
<1>12. PICK s \in State : Settles(Taken, s, typed) /\ Path(s, ring \o sending, Goal, typed)
  BY <1>2 DEF OnTheWay
<1>13. Settles(Taken, s, typed') /\ Path(s, ring \o sending, Goal, typed')
  BY <1>2, <1>3, <1>4, <1>5, <1>12, SettlesMore, PathMore
<1>14. Path(s, (ring \o sending) \o Make(k), AfterPress(Goal, k), typed')
  <2>1. Goal.pre = <<>> /\ Goal.n = Len(typed)
    BY DEF Goal
  <2>2. m = Meaning(k, AfterPress(Goal, k).down, AfterPress(Goal, k).locks)
    <3>1. (Goal').down = held' \intersect Modifier /\ (Goal').locks = wanted'
      BY DEF Goal
    <3> QED
      BY <1>4, <1>8, <3>1
  <2>3. ~special => /\ Goal.n + 1 \in DOMAIN typed'
                    /\ typed'[Goal.n + 1] = Meaning(k, AfterPress(Goal, k).down, AfterPress(Goal, k).locks)
    BY <1>6, <2>1, <2>2
  <2> QED
    BY <1>1, <1>2, <1>5, <1>13, <2>1, <2>3, PressPath
<1>15. OnTheWay'
  BY <1>5, <1>7, <1>8, <1>13, <1>14 DEF OnTheWay
<1> QED
  BY <1>10, <1>11, <1>15

LEMMA ReleaseKeepsIInv ==
  ASSUME IInv, NEW k \in Key, Release(k)
  PROVE  IInv'
<1>1. lost' = lost /\ lost' \in BOOLEAN /\ k \in Keys
  BY KeyAssumption DEF IInv, Release
<1> SUFFICES ASSUME ~lost
             PROVE  (Types /\ KeyGiven /\ OnTheWay)'
  BY <1>1 DEF IInv
<1>2. /\ Types /\ KeyGiven /\ OnTheWay
      /\ sending \in Seq(Byte) /\ ring \in Seq(Byte) /\ typed \in Seq(Pressed)
      /\ Taken \in State /\ Goal \in State
  BY DEF IInv, Types
<1>3. /\ sending' = sending \o Break(k)
      /\ held' = held \ {k} /\ wanted' = wanted /\ typed' = typed
      /\ ring' = ring /\ got' = got /\ down' = down /\ locks' = locks /\ key' = key
  BY DEF Release, Send, decoder
<1>5. /\ Break(k) \in Seq(Byte)
      /\ sending' \in Seq(Byte)
      /\ ring' \o sending' = (ring \o sending) \o Break(k)
      /\ ring \o sending \in Seq(Byte)
  <2>1. Break(k) \in Seq(Byte)
    BY <1>1, BytesType
  <2>2. ring \o (sending \o Break(k)) = (ring \o sending) \o Break(k)
    BY <1>2, <2>1, ConcatAssociative
  <2> QED
    BY <1>2, <1>3, <2>1, <2>2, ConcatProperties
<1>7. Taken' = Taken
  BY <1>3 DEF Taken
<1>8. Goal' = AfterRelease(Goal, k)
  <2>1. held' \intersect Modifier = (held \intersect Modifier) \ {k}
    BY <1>3
  <2> QED
    BY <1>3, <2>1 DEF Goal, AfterRelease
<1>9. Goal' \in State
  BY <1>2, <1>8 DEF AfterRelease, State
<1>10. Types' /\ KeyGiven'
  BY <1>2, <1>3, <1>5, <1>7, <1>9 DEF Types, KeyGiven
<1>12. PICK s \in State : Settles(Taken, s, typed) /\ Path(s, ring \o sending, Goal, typed)
  BY <1>2 DEF OnTheWay
<1>14. Path(s, (ring \o sending) \o Break(k), AfterRelease(Goal, k), typed)
  <2>1. Goal.pre = <<>>
    BY DEF Goal
  <2> QED
    BY <1>1, <1>2, <1>5, <1>12, <2>1, ReleasePath
<1>15. OnTheWay'
  BY <1>3, <1>5, <1>7, <1>8, <1>12, <1>14 DEF OnTheWay
<1> QED
  BY <1>10, <1>15

(* A byte goes from the line into the ring, and out of the ring.           *)
LEMMA ConcatMove ==
  ASSUME NEW r \in Seq(Byte), NEW q \in Seq(Byte), q # <<>>
  PROVE  /\ Head(q) \in Byte /\ Tail(q) \in Seq(Byte)
         /\ Append(r, Head(q)) \in Seq(Byte)
         /\ Append(r, Head(q)) \o Tail(q) = r \o q
<1> DEFINE h == Head(q)
           u == Tail(q)
           L == Len(r)
           M == Len(q)
           a == Append(r, h)
           c == a \o u
           p == r \o q
<1>1. /\ h \in Byte /\ h = q[1] /\ u \in Seq(Byte) /\ M \in Nat /\ M >= 1 /\ L \in Nat
      /\ Len(u) = M - 1 /\ \A i \in 1 .. M - 1 : u[i] = q[i + 1]
  BY HeadTailProperties
<1> HIDE DEF h, u
<1>2. /\ a \in Seq(Byte) /\ Len(a) = L + 1
      /\ \A i \in 1 .. L : a[i] = r[i]
      /\ a[L + 1] = h
  BY <1>1, AppendProperties
<1> HIDE DEF a
<1>3. /\ c \in Seq(Byte) /\ Len(c) = Len(a) + Len(u)
      /\ \A i \in 1 .. Len(a) + Len(u) : c[i] = IF i <= Len(a) THEN a[i] ELSE u[i - Len(a)]
  BY <1>1, <1>2, ConcatProperties
<1>4. /\ p \in Seq(Byte) /\ Len(p) = L + M
      /\ \A i \in 1 .. L + M : p[i] = IF i <= L THEN r[i] ELSE q[i - L]
  BY ConcatProperties
<1> HIDE DEF L, M, c, p
<1>5. Len(a) + Len(u) = L + M
  BY <1>1, <1>2
<1>6. ASSUME NEW i \in 1 .. L + M
      PROVE  c[i] = p[i]
  <2>1. CASE i <= L
    BY <1>1, <1>2, <1>3, <1>4, <1>5, <2>1
  <2>2. CASE i = L + 1
    <3>1. i - L = 1 /\ ~(i <= L) /\ i <= Len(a)
      BY <1>1, <1>2, <2>2
    <3> QED
      BY <1>1, <1>2, <1>3, <1>4, <1>5, <2>2, <3>1
  <2>3. CASE i > L + 1
    <3>1. /\ i - (L + 1) \in 1 .. M - 1 /\ (i - (L + 1)) + 1 = i - L
          /\ ~(i <= L) /\ ~(i <= L + 1)
      BY <1>1, <2>3
    <3> QED
      BY <1>1, <1>2, <1>3, <1>4, <1>5, <3>1
  <2> QED
    BY <1>1, <2>1, <2>2, <2>3
<1>7. c = p
  BY <1>3, <1>4, <1>5, <1>6, SeqEqual
<1> QED
  BY <1>1, <1>2, <1>7 DEF c, p, h, u, a

LEMMA ConcatTake ==
  ASSUME NEW r \in Seq(Byte), NEW q \in Seq(Byte), r # <<>>
  PROVE  /\ r \o q \in Seq(Byte) /\ r \o q # <<>>
         /\ Head(r \o q) = Head(r)
         /\ Tail(r \o q) = Tail(r) \o q
<1> DEFINE L == Len(r)
           M == Len(q)
           p == r \o q
           u == Tail(r)
           c == u \o q
           v == Tail(p)
<1>1. /\ p \in Seq(Byte) /\ Len(p) = L + M /\ L \in Nat /\ M \in Nat /\ L >= 1
      /\ \A i \in 1 .. L + M : p[i] = IF i <= L THEN r[i] ELSE q[i - L]
  BY ConcatProperties
<1>2. u \in Seq(Byte) /\ Len(u) = L - 1 /\ \A i \in 1 .. L - 1 : u[i] = r[i + 1]
  BY HeadTailProperties
<1> HIDE DEF p, u
<1>3. p # <<>> /\ Head(p) = p[1] /\ p[1] = r[1] /\ Head(r) = r[1]
  BY <1>1
<1>4. v \in Seq(Byte) /\ Len(v) = L + M - 1 /\ \A i \in 1 .. L + M - 1 : v[i] = p[i + 1]
  BY <1>1, <1>3, HeadTailProperties
<1>5. /\ c \in Seq(Byte) /\ Len(c) = Len(u) + M
      /\ \A i \in 1 .. Len(u) + M : c[i] = IF i <= Len(u) THEN u[i] ELSE q[i - Len(u)]
  BY <1>2, ConcatProperties
<1> HIDE DEF L, M, c, v
<1>6. Len(u) + M = L + M - 1 /\ Len(u) = L - 1
  BY <1>1, <1>2
<1>7. ASSUME NEW i \in 1 .. L + M - 1
      PROVE  v[i] = c[i]
  <2>1. CASE i <= L - 1
    <3>1. i + 1 \in 1 .. L + M /\ i + 1 <= L /\ i \in 1 .. L - 1
      BY <1>1, <2>1
    <3> QED
      BY <1>1, <1>2, <1>4, <1>5, <1>6, <2>1, <3>1
  <2>2. CASE i > L - 1
    <3>1. /\ i + 1 \in 1 .. L + M /\ ~(i + 1 <= L) /\ ~(i <= L - 1)
          /\ (i + 1) - L = i - (L - 1)
      BY <1>1, <2>2
    <3>2. v[i] = q[(i + 1) - L]
      <4>1. v[i] = p[i + 1]
        BY <1>4
      <4> QED
        BY <1>1, <3>1, <4>1
    <3>3. c[i] = q[i - (L - 1)]
      BY <1>5, <1>6, <3>1
    <3> QED
      BY <3>1, <3>2, <3>3
  <2> QED
    BY <1>1, <2>1, <2>2
<1>8. v = c
  BY <1>4, <1>5, <1>6, <1>7, SeqEqual
<1> QED
  BY <1>1, <1>3, <1>8 DEF p, c, u, v

(* The first element is removed.                                           *)
LEMMA TailRemoves ==
  ASSUME NEW q \in Seq(Byte), q # <<>>
  PROVE  Tail(q) = RemoveAt(q, 1)
<1>1. /\ Tail(q) \in Seq(Byte) /\ Len(q) >= 1 /\ Len(q) \in Nat /\ 1 \in 1 .. Len(q)
      /\ Len(Tail(q)) = Len(q) - 1 /\ \A i \in 1 .. Len(q) - 1 : Tail(q)[i] = q[i + 1]
  BY HeadTailProperties
<1>2. /\ RemoveAt(q, 1) \in Seq(Byte)
      /\ Len(RemoveAt(q, 1)) = Len(q) - 1
      /\ \A i \in 1 .. Len(q) - 1 : RemoveAt(q, 1)[i] = IF i < 1 THEN q[i] ELSE q[i + 1]
  BY <1>1, RemoveAtProperties
<1>3. \A i \in 1 .. Len(q) - 1 : Tail(q)[i] = RemoveAt(q, 1)[i]
  BY <1>1, <1>2
<1> QED
  BY <1>1, <1>2, <1>3, SeqEqual

(* A byte moves into the ring, or is an answer that meets a full one.      *)
LEMMA KeyboardHandlerKeepsIInv ==
  ASSUME IInv, KeyboardHandler
  PROVE  IInv'
<1>1. lost' \in BOOLEAN /\ (lost => lost')
  BY DEF IInv, KeyboardHandler, Lose
<1> SUFFICES ASSUME ~lost'
             PROVE  (Types /\ KeyGiven /\ OnTheWay)'
  BY <1>1 DEF IInv
<1>2. /\ Types /\ KeyGiven /\ OnTheWay
      /\ sending \in Seq(Byte) /\ ring \in Seq(Byte) /\ typed \in Seq(Pressed)
      /\ Taken \in State /\ Goal \in State
  BY <1>1 DEF IInv, Types
<1>3. /\ sending # <<>> /\ sending' = Tail(sending)
      /\ held' = held /\ wanted' = wanted /\ typed' = typed
      /\ got' = got /\ down' = down /\ locks' = locks /\ key' = key
      /\ \/ ring' = Append(ring, Head(sending))
         \/ ring' = ring /\ Head(sending) = KB_ACK
  BY DEF KeyboardHandler, Lose, decoder
<1>4. Taken' = Taken /\ Goal' = Goal
  BY <1>3 DEF Taken, Goal
<1>5. /\ Head(sending) \in Byte /\ Tail(sending) \in Seq(Byte)
      /\ Append(ring, Head(sending)) \in Seq(Byte)
      /\ Append(ring, Head(sending)) \o Tail(sending) = ring \o sending
  BY <1>2, <1>3, ConcatMove
<1>6. Types' /\ KeyGiven'
  BY <1>2, <1>3, <1>4, <1>5 DEF Types, KeyGiven
<1>7. PICK s \in State : Settles(Taken, s, typed) /\ Path(s, ring \o sending, Goal, typed)
  BY <1>2 DEF OnTheWay
<1>8. Path(s, ring' \o sending', Goal, typed)
  <2>1. CASE ring' = Append(ring, Head(sending))
    BY <1>3, <1>5, <1>7, <2>1
  <2>2. CASE ring' = ring /\ Head(sending) = KB_ACK
    <3> DEFINE L == Len(ring)
               p == ring \o sending
    <3>1. Tail(sending) = RemoveAt(sending, 1) /\ 1 \in 1 .. Len(sending) /\ sending[1] = KB_ACK
      BY <1>2, <1>3, <2>2, TailRemoves
    <3>2. ring \o Tail(sending) = RemoveAt(p, L + 1)
      BY <1>2, <3>1, ConcatRemove
    <3>3. /\ p \in Seq(Byte) /\ Len(p) = L + Len(sending) /\ L \in Nat
          /\ \A j \in 1 .. L + Len(sending) :
               p[j] = IF j <= L THEN ring[j] ELSE sending[j - L]
      BY <1>2, ConcatProperties
    <3> HIDE DEF L, p
    <3>4. L + 1 \in 1 .. Len(p) /\ p[L + 1] = KB_ACK
      <4>1. L + 1 \in 1 .. L + Len(sending) /\ ~(L + 1 <= L) /\ (L + 1) - L = 1
        BY <1>2, <3>1, <3>3
      <4> QED
        BY <3>1, <3>3, <4>1
    <3>5. Path(s, RemoveAt(p, L + 1), Goal, typed)
      BY <1>7, <3>3, <3>4, PathRemove DEF p
    <3> QED
      BY <1>3, <2>2, <3>2, <3>5
  <2> QED
    BY <1>3, <2>1, <2>2
<1>9. OnTheWay'
  BY <1>3, <1>4, <1>7, <1>8 DEF OnTheWay
<1> QED
  BY <1>6, <1>9

(* The decoder takes a step of the path.                                   *)
LEMMA GetByteKeepsIInv ==
  ASSUME IInv, GetByte
  PROVE  IInv'
<1>1. lost' = lost /\ lost' \in BOOLEAN
  BY DEF IInv, GetByte
<1> SUFFICES ASSUME ~lost
             PROVE  (Types /\ KeyGiven /\ OnTheWay)'
  BY <1>1 DEF IInv
<1>2. /\ Types /\ KeyGiven /\ OnTheWay
      /\ sending \in Seq(Byte) /\ ring \in Seq(Byte) /\ typed \in Seq(Pressed)
      /\ Taken \in State /\ Goal \in State
  BY DEF IInv, Types
<1>3. /\ ring # <<>> /\ ring' = Tail(ring) /\ sending' = sending
      /\ held' = held /\ wanted' = wanted /\ typed' = typed
      /\ got' = Append(got, Head(ring)) /\ down' = down /\ locks' = locks
      /\ key = NoKey /\ key' = NoKey /\ Wants(got)
  BY DEF GetByte, user
<1>4. Goal' = Goal
  BY <1>3 DEF Goal
<1> DEFINE b == Head(ring)
           q == ring \o sending
<1>5. b \in Byte /\ Tail(ring) \in Seq(Byte)
  BY <1>2, <1>3, HeadTailProperties
<1>6. /\ q \in Seq(Byte) /\ q # <<>> /\ Head(q) = b
      /\ Tail(q) = Tail(ring) \o sending
  BY <1>2, <1>3, ConcatTake
<1>7. Taken' = [Taken EXCEPT !.pre = Append(Taken.pre, b)]
  <2> DEFINE g == Append(got, b)
  <2>1. Taken = [pre |-> got, down |-> down, locks |-> locks, n |-> 0]
    BY <1>3 DEF Taken
  <2>2. Taken' = [pre |-> g, down |-> down, locks |-> locks, n |-> 0]
    BY <1>3 DEF Taken
  <2>3. Taken.pre = got /\ g = Append(Taken.pre, b)
    BY <2>1
  <2> HIDE DEF g
  <2>4. Taken' = [Taken EXCEPT !.pre = g]
    BY <2>1, <2>2
  <2> QED
    BY <2>3, <2>4
<1> HIDE DEF b, q
<1>8. Taken' \in State
  <2>1. Taken.pre \in Seq(Byte)
    BY <1>2 DEF State
  <2>2. Append(Taken.pre, b) \in Seq(Byte)
    BY <1>5, <2>1, AppendProperties
  <2> QED
    BY <1>2, <1>7, <2>2 DEF State
<1>9. Types'
  BY <1>2, <1>3, <1>4, <1>5, <1>8 DEF Types
<1>10. KeyGiven'
  BY <1>3 DEF KeyGiven
<1>11. Path(Taken, q, Goal, typed)
  <2>1. Taken.pre = got
    BY DEF Taken
  <2> QED
    BY <1>2, <1>3, <2>1 DEF OnTheWay, Settles, q
<1>12. PICK u \in State : Reads(Taken, Head(q), u, typed) /\ Path(u, Tail(q), Goal, typed)
  BY <1>6, <1>11, PathRead
<1>13. Settles(Taken', u, typed)
  BY <1>6, <1>7, <1>12 DEF Reads
<1>14. OnTheWay'
  BY <1>3, <1>4, <1>6, <1>12, <1>13 DEF OnTheWay
<1> QED
  BY <1>9, <1>10, <1>14

(* A key is given to in_process().                                         *)
LEMMA InProcessKeepsIInv ==
  ASSUME IInv, InProcess
  PROVE  IInv'
<1>1. lost' = lost /\ lost' \in BOOLEAN
  BY DEF IInv, InProcess, line
<1> SUFFICES ASSUME ~lost
             PROVE  (Types /\ KeyGiven /\ OnTheWay)'
  BY <1>1 DEF IInv
<1>2. /\ Types /\ KeyGiven /\ OnTheWay
      /\ sending \in Seq(Byte) /\ ring \in Seq(Byte) /\ typed \in Seq(Pressed)
      /\ Taken \in State /\ Goal \in State
  BY DEF IInv, Types
<1>3. /\ ring' = ring /\ sending' = sending /\ held' = held /\ wanted' = wanted
      /\ got' = got /\ down' = down /\ locks' = locks
      /\ key # NoKey /\ key' = NoKey /\ got = <<>> /\ typed # <<>> /\ typed' = Tail(typed)
  BY <1>2 DEF InProcess, line, KeyGiven
<1>4. /\ Tail(typed) \in Seq(Pressed) /\ Len(Tail(typed)) = Len(typed) - 1
      /\ Len(typed) \in Nat /\ Len(typed) >= 1
  BY <1>2, <1>3, HeadTailProperties
<1>5. Taken' = Given(Taken) /\ Taken.n = 1 /\ Taken.pre = <<>>
  <2>1. Taken = [pre |-> got, down |-> down, locks |-> locks, n |-> 1]
    BY <1>3 DEF Taken
  <2>2. Taken' = [pre |-> got, down |-> down, locks |-> locks, n |-> 0]
    BY <1>3 DEF Taken
  <2> QED
    BY <1>3, <2>1, <2>2 DEF Given
<1>6. Goal' = Given(Goal) /\ Goal.n = Len(typed)
  <2> DEFINE d == held \intersect Modifier
             l == Len(typed)
  <2>1. Goal = [pre |-> <<>>, down |-> d, locks |-> wanted, n |-> l]
    BY DEF Goal
  <2>2. Goal' = [pre |-> <<>>, down |-> d, locks |-> wanted, n |-> l - 1]
    BY <1>3, <1>4 DEF Goal
  <2> HIDE DEF d
  <2> QED
    BY <2>1, <2>2 DEF Given
<1>7. Taken' \in State /\ Goal' \in State
  <2>1. Taken.n - 1 \in Nat /\ Goal.n - 1 \in Nat
    BY <1>4, <1>5, <1>6
  <2>2. Given(Taken) \in State /\ Given(Goal) \in State
    BY <1>2, <2>1 DEF Given, State
  <2> QED
    BY <1>5, <1>6, <2>2
<1>8. Types' /\ KeyGiven'
  BY <1>2, <1>3, <1>4, <1>7 DEF Types, KeyGiven
<1>9. Path(Taken, ring \o sending, Goal, typed)
  BY <1>2, <1>5, WantsCases DEF OnTheWay, Settles
<1>10. Path(Given(Taken), ring \o sending, Given(Goal), Tail(typed))
  <2>1. ring \o sending \in Seq(Byte) /\ Taken.n >= 1
    BY <1>2, <1>5, ConcatProperties
  <2> QED
    BY <1>2, <1>3, <1>9, <2>1, PathGiven
<1>11. Settles(Taken', Taken', typed')
  <2>1. (Taken').pre = <<>>
    BY <1>5 DEF Given
  <2> QED
    BY <2>1, WantsCases DEF Settles
<1>12. OnTheWay'
  BY <1>3, <1>5, <1>6, <1>7, <1>10, <1>11 DEF OnTheWay
<1> QED
  BY <1>8, <1>12

(* The key that is due is the one that is decoded.                         *)
LEMMA PassedIsKey ==
  ASSUME NEW s \in State, NEW keys \in Seq(Pressed), Fits(s, keys), HasKey(s.pre), s.n = 0
  PROVE  /\ keys # <<>> /\ Head(keys) = Passed(s.pre, s.down, s.locks)
         /\ Passed(s.pre, s.down, s.locks) # NoKey
<1>1. 1 \in DOMAIN keys /\ keys[1] = Passed(s.pre, s.down, s.locks)
  BY DEF Fits
<1>2. keys # <<>> /\ Head(keys) = keys[1] /\ keys[1] \in Pressed
  BY <1>1
<1>3. NoKey \notin Pressed
  <2>1. "none" \notin Name
    BY DEF Name, Keys
  <2> QED
    BY <2>1 DEF Pressed, NoKey
<1> QED
  BY <1>1, <1>2, <1>3

(* A sequence is decoded; set_leds() may take answers off the path.        *)
LEMMA DecodeKeepsIInv ==
  ASSUME IInv, Decode
  PROVE  IInv'
<1>1. lost' \in BOOLEAN /\ (lost => lost')
  BY DEF IInv, Decode, SetLeds, Lose
<1> SUFFICES ASSUME ~lost'
             PROVE  (Types /\ KeyGiven /\ OnTheWay)'
  BY <1>1 DEF IInv
<1>2. /\ Types /\ KeyGiven /\ OnTheWay
      /\ sending \in Seq(Byte) /\ ring \in Seq(Byte) /\ typed \in Seq(Pressed)
      /\ Taken \in State /\ Goal \in State
  BY <1>1 DEF IInv, Types
<1>3. /\ key = NoKey /\ ~Wants(got) /\ got' = <<>>
      /\ down' = DownAfter(got, down, locks) /\ locks' = LocksAfter(got, down, locks)
      /\ key' = IF HasKey(got) THEN Passed(got, down, locks) ELSE NoKey
      /\ held' = held /\ ring' = ring
      /\ wanted' = wanted /\ typed' = typed
  BY DEF Decode, SetLeds, Lose
<1>4. /\ Taken.pre = got /\ Taken.down = down /\ Taken.locks = locks /\ Taken.n = 0
      /\ Goal' = Goal /\ Goal.pre = <<>>
  BY <1>3 DEF Taken, Goal
<1>5. /\ Fits(Taken, typed)
      /\ Path(Decoded(Taken), ring \o sending, Goal, typed)
  BY <1>2, <1>3, <1>4 DEF OnTheWay, Settles
<1>6. HasKey(got) => typed # <<>> /\ Head(typed) = key' /\ key' # NoKey
  BY <1>2, <1>3, <1>4, <1>5, PassedIsKey
<1>7. Taken' = Decoded(Taken)
  <2>1. Taken' = [pre |-> <<>>, down |-> down', locks |-> locks',
                  n |-> IF HasKey(got) THEN 1 ELSE 0]
    BY <1>3, <1>6 DEF Taken
  <2>2. Decoded(Taken) = [pre |-> <<>>, down |-> DownAfter(got, down, locks),
                          locks |-> LocksAfter(got, down, locks),
                          n |-> IF HasKey(got) THEN 1 ELSE 0]
    BY <1>4 DEF Decoded
  <2> QED
    BY <1>3, <2>1, <2>2
<1>8. Taken' \in State
  BY <1>2, <1>7, DecodedType
<1>9. KeyGiven'
  BY <1>3, <1>6 DEF KeyGiven
<1>10. sending' \in Seq(Byte) /\ Path(Decoded(Taken), ring \o sending', Goal, typed)
  <2>1. CASE ~IsLock(got, down, locks)
    BY <1>2, <1>5, <2>1 DEF Decode
  <2>2. CASE IsLock(got, down, locks)
    <3>1. PICK command \in KbAck(Append(sending, KB_ACK)) :
            \E argument \in KbAck(Append(command.rest, KB_ACK)) :
              /\ sending' = argument.rest
              /\ Lose(command.code \/ argument.code)
      BY <2>2 DEF Decode, SetLeds
    <3>2. PICK argument \in KbAck(Append(command.rest, KB_ACK)) :
            /\ sending' = argument.rest
            /\ Lose(command.code \/ argument.code)
      BY <3>1
    <3>3. ~command.code /\ ~argument.code
      BY <3>2 DEF Lose
    <3>4. /\ command.rest \in Seq(Byte)
          /\ Path(Decoded(Taken), ring \o command.rest, Goal, typed)
      BY <1>2, <1>4, <1>5, <3>3, KbAckPath
    <3>5. /\ argument.rest \in Seq(Byte)
          /\ Path(Decoded(Taken), ring \o argument.rest, Goal, typed)
      BY <1>2, <1>4, <3>3, <3>4, KbAckPath
    <3> QED
      BY <3>2, <3>5
  <2> QED
    BY <2>1, <2>2
<1>11. Types'
  BY <1>2, <1>3, <1>4, <1>8, <1>10 DEF Types
<1>12. Settles(Taken', Taken', typed)
  <2>1. (Taken').pre = <<>>
    BY <1>7 DEF Decoded
  <2> QED
    BY <2>1, WantsCases DEF Settles
<1>13. OnTheWay'
  BY <1>3, <1>4, <1>7, <1>8, <1>10, <1>12 DEF OnTheWay
<1> QED
  BY <1>9, <1>11, <1>13

LEMMA NextKeepsIInv == IInv /\ [Next]_vars => IInv'
<1> SUFFICES ASSUME IInv, [Next]_vars
             PROVE  IInv'
  OBVIOUS
<1>1. ASSUME NEW k \in Key, Press(k)
      PROVE  IInv'
  BY <1>1, PressKeepsIInv
<1>2. ASSUME NEW k \in Key, Release(k)
      PROVE  IInv'
  BY <1>2, ReleaseKeepsIInv
<1>3. CASE KeyboardHandler
  BY <1>3, KeyboardHandlerKeepsIInv
<1>4. CASE KeyboardRead
  BY <1>4, GetByteKeepsIInv, DecodeKeepsIInv, InProcessKeepsIInv DEF KeyboardRead
<1>5. CASE UNCHANGED vars
  <2>1. /\ sending' = sending /\ ring' = ring /\ lost' = lost /\ held' = held
        /\ wanted' = wanted /\ typed' = typed /\ got' = got /\ down' = down
        /\ locks' = locks /\ key' = key
    BY <1>5 DEF vars, user, line, decoder
  <2>2. Taken' = Taken /\ Goal' = Goal
    BY <2>1 DEF Taken, Goal
  <2> QED
    BY <2>1, <2>2 DEF IInv, Types, KeyGiven, OnTheWay
<1> QED
  BY <1>1, <1>2, <1>3, <1>4, <1>5 DEF Next

-----------------------------------------------------------------------------
(* The inductive invariant, for any size of the ring and any keys: as long *)
(* as no byte is lost, keyboard_read(), run on over the bytes in the ring  *)
(* and on their way, ends where the user is.                               *)
THEOREM DecoderFollows == Spec => []IInv
BY InitEstablishesIInv, NextKeepsIInv, PTL DEF Spec

(* in_process() is given what was typed, as long as no byte is lost: the   *)
(* keys in their order, with the modifiers and locks of the moment each    *)
(* was pressed, however late keyboard_read() gets to it.                   *)
THEOREM KeysCorrect == Spec => []KeysAsTyped
<1>1. IInv => KeysAsTyped
  BY DEF IInv, KeyGiven, KeysAsTyped
<1> QED
  BY <1>1, DecoderFollows, PTL

(* When all bytes have been read, all keys have been given to in_process() *)
(* and shift_l to alt_r and the locks are as the user has left them: no    *)
(* break code of a modifier gets lost between the sequences.               *)
THEOREM NothingPendingCorrect == Spec => []NothingPending
<1>1. IInv => NothingPending
  <2> SUFFICES ASSUME IInv, ~lost, sending = <<>>, ring = <<>>, got = <<>>, key = NoKey
               PROVE  typed = <<>> /\ down = held \intersect Modifier /\ locks = wanted
    BY DEF NothingPending
  <2>1. Types /\ OnTheWay
    BY DEF IInv
  <2>2. PICK s \in State : Settles(Taken, s, typed) /\ Path(s, ring \o sending, Goal, typed)
    BY <2>1 DEF OnTheWay
  <2>3. s = Taken
    BY <2>2, WantsCases DEF Settles, Taken
  <2>4. ring \o sending = <<>>
    BY <2>1, ConcatEmptySeq DEF Types
  <2>5. Taken = Goal
    BY <2>2, <2>3, <2>4, PathSame
  <2>6. 0 = Len(typed) /\ down = held \intersect Modifier /\ locks = wanted
    <3>1. Taken.n = 0 /\ Taken.down = down /\ Taken.locks = locks
      BY DEF Taken
    <3>2. /\ Goal.n = Len(typed) /\ Goal.down = held \intersect Modifier
          /\ Goal.locks = wanted
      BY DEF Goal
    <3> QED
      BY <2>5, <3>1, <3>2
  <2> QED
    BY <2>1, <2>6, EmptySeq DEF Types
<1> QED
  BY <1>1, DecoderFollows, PTL

(* keyboard_read() never waits in the middle of a sequence for a byte that *)
(* no key will send: the rest is in the ring or on its way.                *)
THEOREM WaitEndsCorrect == Spec => []WaitEnds
<1>1. IInv => WaitEnds
  <2> SUFFICES ASSUME IInv, ~lost, got # <<>>, Wants(got), ring \o sending = <<>>
               PROVE  FALSE
    BY DEF WaitEnds
  <2>1. OnTheWay
    BY DEF IInv
  <2>2. PICK s \in State : Settles(Taken, s, typed) /\ Path(s, ring \o sending, Goal, typed)
    BY <2>1 DEF OnTheWay
  <2>3. s = Taken
    BY <2>2 DEF Settles, Taken
  <2>4. Taken = Goal
    BY <2>2, <2>3, PathSame
  <2>5. Taken.pre = got /\ Goal.pre = <<>>
    BY DEF Taken, Goal
  <2> QED
    BY <2>4, <2>5
<1> QED
  BY <1>1, DecoderFollows, PTL
=============================================================================
