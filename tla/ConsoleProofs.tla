----------------------------- MODULE ConsoleProofs -----------------------------
(* The console: what comes in from keyboard and mouse, and what the shell shows.  *)
(*                                                                                *)
(* Mouse packets stay aligned and no scan code is lost unnoticed, for buffers of  *)
(* any size, any number of readers and any numbering of the bytes.  The pointer   *)
(* leaves no trace on the screen, protected text is kept, and the edit line is    *)
(* shown as it would be executed, for screens, lines and histories of any size.   *)
EXTENDS Ps2, Shell, SequenceTheorems, WellFoundedInduction, TLAPS

--------------------------------------------------------------------------------
(* Numbers. *)

\* Induction over the natural numbers, for a set.
LEMMA Induction ==
  ASSUME NEW S, 0 \in S, \A n \in Nat : n \in S => n + 1 \in S
  PROVE  \A n \in Nat : n \in S
<1> DEFINE T == {n \in Nat : n \notin S}
<1> SUFFICES ASSUME T # {} PROVE FALSE
  OBVIOUS
<1>1. PICK m \in T : \A k \in T : ~ (<<k, m>> \in OpToRel(<, Nat))
  BY WFMin, NatLessThanWellFounded, Zenon
<1>2. \A k \in T : ~ (k < m)
  BY <1>1, Zenon DEF OpToRel
<1>3. m \in Nat \ {0} /\ m - 1 \in Nat /\ m - 1 < m /\ (m - 1) + 1 = m
  OBVIOUS
<1>4. m - 1 \in S
  BY <1>2, <1>3
<1> QED
  BY <1>3, <1>4

\* Remainders.
LEMMA Remainder ==
  ASSUME NEW k \in Nat \ {0}, NEW q \in Int, NEW r \in 0 .. k - 1
  PROVE  (q * k + r) % k = r
OBVIOUS

LEMMA Quotient ==
  ASSUME NEW k \in Nat \ {0}, NEW a \in Int
  PROVE  \E q \in Int : a = q * k + (a % k) /\ a % k \in 0 .. k - 1
<1>1. a \div k \in Int /\ a % k \in 0 .. k - 1
  OBVIOUS
<1>2. a = (a \div k) * k + (a % k)
  OBVIOUS
<1> QED
  BY <1>1, <1>2

LEMMA Congruent ==
  ASSUME NEW k \in Nat \ {0}, NEW a \in Int, NEW q \in Int
  PROVE  (a + q * k) % k = a % k
<1>1. PICK p \in Int : a = p * k + (a % k) /\ a % k \in 0 .. k - 1
  BY Quotient
<1> DEFINE r == a % k
<1>2. r \in 0 .. k - 1 /\ a = p * k + r
  BY <1>1
<1> HIDE DEF r
<1>3. a + q * k = (p + q) * k + r /\ p + q \in Int
  BY <1>2
<1>4. ((p + q) * k + r) % k = r
  BY <1>2, <1>3, Remainder
<1> QED
  BY <1>3, <1>4 DEF r

\* A remainder within a sum.
LEMMA ModSum ==
  ASSUME NEW k \in Nat \ {0}, NEW a \in Int, NEW b \in Int
  PROVE  ((a % k) + b) % k = (a + b) % k
<1>1. PICK q \in Int : a = q * k + (a % k) /\ a % k \in 0 .. k - 1
  BY Quotient
<1> DEFINE c == (a % k) + b
<1>2. c \in Int /\ a + b = c + q * k
  <2> DEFINE r == a % k
  <2>1. a = q * k + r /\ r \in Int
    BY <1>1
  <2> HIDE DEF r
  <2>2. r + b \in Int /\ a + b = (r + b) + q * k
    BY <2>1
  <2> QED
    BY <2>2 DEF r
<1> HIDE DEF c
<1>3. (a + b) % k = c % k
  BY <1>2, Congruent
<1> QED
  BY <1>3 DEF c

\* The same for packets of three, of which the numbering holds a whole number.
LEMMA ModThree ==
  ASSUME NEW k \in Nat \ {0}, k % 3 = 0, NEW a \in Int, NEW b \in Int
  PROVE  ((a % k) + b) % 3 = (a + b) % 3
<1>1. PICK q \in Int : a = q * k + (a % k) /\ a % k \in 0 .. k - 1
  BY Quotient
<1>2. PICK j \in Int : k = j * 3
  OBVIOUS
<1> DEFINE c == (a % k) + b
<1>3. c \in Int /\ a + b = c + q * k
  <2> DEFINE r == a % k
  <2>1. a = q * k + r /\ r \in Int
    BY <1>1
  <2> HIDE DEF r
  <2>2. r + b \in Int /\ a + b = (r + b) + q * k
    BY <2>1
  <2> QED
    BY <2>2 DEF r
<1> HIDE DEF c
<1>4. q * k = (q * j) * 3 /\ q * j \in Int
  BY <1>2
<1>5. (a + b) % 3 = c % 3
  <2> DEFINE m == q * j
  <2>1. m \in Int /\ a + b = c + m * 3
    BY <1>3, <1>4
  <2> HIDE DEF m
  <2>2. (c + m * 3) % 3 = c % 3
    BY <1>3, <2>1, Congruent
  <2> QED
    BY <2>1, <2>2
<1> QED
  BY <1>5 DEF c

--------------------------------------------------------------------------------
(* The bytes of one device. *)

LEMMA AmongDef ==
  ASSUME NEW B, NEW q \in Seq(B), NEW src
  PROVE  Among(q, src) =
           [n \in 0 .. Len(q) |->
              IF n = 0 THEN <<>>
              ELSE IF q[n].src = src THEN Append(Among(q, src)[n - 1], q[n])
              ELSE Among(q, src)[n - 1]]
<1> DEFINE Step(g, n) == IF n = 0 THEN <<>>
                         ELSE IF q[n].src = src THEN Append(g[n - 1], q[n]) ELSE g[n - 1]
<1> DEFINE Good(n, g) == g = [i \in 0 .. n |-> Step(g, i)]
<1> DEFINE S == {n \in Nat : \E g : Good(n, g)}
<1>1. 0 \in S
  <2>1. Good(0, [i \in 0 .. 0 |-> <<>>])
    OBVIOUS
  <2> QED
    BY <2>1
<1>2. ASSUME NEW n \in Nat, n \in S
      PROVE  n + 1 \in S
  <2>1. PICK g : Good(n, g)
    BY <1>2
  <2> DEFINE h == [i \in 0 .. n + 1 |-> IF i = n + 1 THEN Step(g, i) ELSE g[i]]
  <2>2. \A i \in 0 .. n : h[i] = g[i]
    OBVIOUS
  <2>3. \A i \in 0 .. n + 1 : Step(h, i) = Step(g, i)
    <3>1. \A i \in 0 .. n + 1 : i # 0 => i - 1 \in 0 .. n
      OBVIOUS
    <3> HIDE DEF h
    <3> QED
      BY <2>2, <3>1
  <2>4. \A i \in 0 .. n : g[i] = Step(g, i)
    BY <2>1
  <2>5. \A i \in 0 .. n + 1 : h[i] = Step(h, i)
    BY <2>3, <2>4
  <2>6. h = [i \in 0 .. n + 1 |-> h[i]]
    OBVIOUS
  <2> HIDE DEF h, Step
  <2>7. Good(n + 1, h)
    BY <2>5, <2>6
  <2> QED
    BY <2>7
<1>3. Len(q) \in S
  <2> HIDE DEF S
  <2>1. \A n \in Nat : n \in S
    BY <1>1, <1>2, Induction
  <2> QED
    BY <2>1
<1>4. \E g : Good(Len(q), g)
  BY <1>3
<1>5. Good(Len(q), Among(q, src))
  BY <1>4, Zenon DEF Among
<1> QED
  BY <1>5

Bytes(q, src) == Among(q, src)[Len(q)]

\* By the elements.
LEMMA AmongAt ==
  ASSUME NEW B, NEW q \in Seq(B), NEW src
  PROVE  /\ Among(q, src)[0] = <<>>
         /\ \A n \in 1 .. Len(q) :
              Among(q, src)[n] = IF q[n].src = src THEN Append(Among(q, src)[n - 1], q[n])
                                 ELSE Among(q, src)[n - 1]
<1> DEFINE f == Among(q, src)
<1>1. f = [n \in 0 .. Len(q) |-> IF n = 0 THEN <<>>
                                 ELSE IF q[n].src = src THEN Append(f[n - 1], q[n]) ELSE f[n - 1]]
  BY AmongDef
<1> HIDE DEF f
<1>2. Len(q) \in Nat
  OBVIOUS
<1>3. 0 \in 0 .. Len(q) /\ \A n \in 1 .. Len(q) : n \in 0 .. Len(q) /\ n # 0
  BY <1>2
<1>4. /\ f[0] = <<>>
      /\ \A n \in 1 .. Len(q) : f[n] = IF q[n].src = src THEN Append(f[n - 1], q[n]) ELSE f[n - 1]
  BY <1>1, <1>3
<1> QED
  BY <1>4 DEF f

LEMMA AmongType ==
  ASSUME NEW B, NEW q \in Seq(B), NEW src
  PROVE  \A n \in 0 .. Len(q) :
           /\ Among(q, src)[n] \in Seq({b \in B : b.src = src})
           /\ Len(Among(q, src)[n]) <= n
<1> DEFINE f == Among(q, src)
<1> DEFINE C == {b \in B : b.src = src}
<1> DEFINE S == {n \in Nat : n <= Len(q) => f[n] \in Seq(C) /\ Len(f[n]) <= n}
<1>1. /\ f[0] = <<>>
      /\ \A n \in 1 .. Len(q) : f[n] = IF q[n].src = src THEN Append(f[n - 1], q[n]) ELSE f[n - 1]
  BY AmongAt
<1> HIDE DEF f
<1>2. 0 \in S
  <2>1. <<>> \in Seq(C) /\ Len(<<>>) <= 0
    OBVIOUS
  <2> QED
    BY <1>1, <2>1
<1>3. ASSUME NEW n \in Nat, n \in S PROVE n + 1 \in S
  <2> SUFFICES ASSUME n + 1 <= Len(q) PROVE f[n + 1] \in Seq(C) /\ Len(f[n + 1]) <= n + 1
    OBVIOUS
  <2>1. n + 1 \in 1 .. Len(q) /\ q[n + 1] \in B /\ (n + 1) - 1 = n
    OBVIOUS
  <2>2. f[n] \in Seq(C) /\ Len(f[n]) <= n
    BY <1>3, <2>1
  <2>3. CASE q[n + 1].src = src
    <3>1. f[n + 1] = Append(f[n], q[n + 1]) /\ q[n + 1] \in C
      BY <1>1, <2>1, <2>3
    <3> HIDE DEF C
    <3> QED
      BY <2>2, <3>1
  <2>4. CASE q[n + 1].src # src
    <3>1. f[n + 1] = f[n]
      BY <1>1, <2>1, <2>4
    <3> QED
      BY <2>2, <3>1
  <2> QED
    BY <2>3, <2>4
<1>4. \A n \in Nat : n \in S
  <2> HIDE DEF S
  <2> QED
    BY <1>2, <1>3, Induction
<1>5. \A n \in 0 .. Len(q) : n \in S /\ n <= Len(q)
  BY <1>4
<1> QED
  BY <1>5 DEF f

\* A byte arrives.
LEMMA BytesAppend ==
  ASSUME NEW B, NEW q \in Seq(B), NEW b \in B, NEW src
  PROVE  Bytes(Append(q, b), src) =
           IF b.src = src THEN Append(Bytes(q, src), b) ELSE Bytes(q, src)
<1> DEFINE r == Append(q, b)
<1> DEFINE f == Among(q, src)
<1> DEFINE g == Among(r, src)
<1>1. r \in Seq(B) /\ Len(r) = Len(q) + 1 /\ r[Len(q) + 1] = b
      /\ \A i \in 1 .. Len(q) : r[i] = q[i]
  OBVIOUS
<1> HIDE DEF r
<1>2. /\ f[0] = <<>>
      /\ \A n \in 1 .. Len(q) : f[n] = IF q[n].src = src THEN Append(f[n - 1], q[n]) ELSE f[n - 1]
  BY AmongAt
<1>3. /\ g[0] = <<>>
      /\ \A n \in 1 .. Len(r) : g[n] = IF r[n].src = src THEN Append(g[n - 1], r[n]) ELSE g[n - 1]
  BY <1>1, AmongAt
<1> HIDE DEF f, g, r
<1> DEFINE S == {n \in Nat : n <= Len(q) => g[n] = f[n]}
<1>4. \A n \in Nat : n \in S
  <2>1. 0 \in S
    BY <1>2, <1>3
  <2>2. ASSUME NEW n \in Nat, n \in S PROVE n + 1 \in S
    <3> SUFFICES ASSUME n + 1 <= Len(q) PROVE g[n + 1] = f[n + 1]
      OBVIOUS
    <3>1. n + 1 \in 1 .. Len(q) /\ n + 1 \in 1 .. Len(r) /\ (n + 1) - 1 = n /\ g[n] = f[n]
      BY <1>1, <2>2
    <3> QED
      BY <1>1, <1>2, <1>3, <3>1
  <2> HIDE DEF S
  <2> QED
    BY <2>1, <2>2, Induction
<1>5. g[Len(q)] = f[Len(q)]
  BY <1>4
<1>6. Len(q) + 1 \in 1 .. Len(r) /\ (Len(q) + 1) - 1 = Len(q)
  BY <1>1
<1>7. g[Len(r)] = IF b.src = src THEN Append(f[Len(q)], b) ELSE f[Len(q)]
  BY <1>1, <1>3, <1>5, <1>6
<1> QED
  BY <1>7 DEF f, g, r, Bytes

\* A byte is read.
LEMMA BytesTail ==
  ASSUME NEW B, NEW q \in Seq(B), q # <<>>, NEW src
  PROVE  IF q[1].src = src
         THEN Bytes(q, src) = <<q[1]>> \o Bytes(Tail(q), src)
         ELSE Bytes(Tail(q), src) = Bytes(q, src)
<1> DEFINE r == Tail(q)
<1> DEFINE f == Among(q, src)
<1> DEFINE g == Among(r, src)
<1> DEFINE C == {b \in B : b.src = src}
<1> DEFINE head == IF q[1].src = src THEN <<q[1]>> ELSE <<>>
<1>1. /\ r \in Seq(B) /\ Len(q) \in Nat \ {0} /\ Len(r) = Len(q) - 1
      /\ \A i \in 1 .. Len(r) : r[i] = q[i + 1]
  OBVIOUS
<1> HIDE DEF r
<1>2. /\ f[0] = <<>>
      /\ \A n \in 1 .. Len(q) : f[n] = IF q[n].src = src THEN Append(f[n - 1], q[n]) ELSE f[n - 1]
  BY AmongAt
<1>3. /\ g[0] = <<>>
      /\ \A n \in 1 .. Len(r) : g[n] = IF r[n].src = src THEN Append(g[n - 1], r[n]) ELSE g[n - 1]
  BY <1>1, AmongAt
<1>4. \A n \in 0 .. Len(r) : g[n] \in Seq(C)
  BY <1>1, AmongType
<1>5. head \in Seq(C)
  <2>1. q[1] \in B
    BY <1>1
  <2>2. CASE q[1].src = src
    BY <2>1, <2>2
  <2>3. CASE q[1].src # src
    BY <2>3
  <2> QED
    BY <2>2, <2>3
<1>5a. head = IF q[1].src = src THEN Append(<<>>, q[1]) ELSE <<>>
  OBVIOUS
<1> HIDE DEF f, g, head, C
<1> DEFINE S == {n \in Nat : n <= Len(r) => f[n + 1] = head \o g[n]}
<1>6. \A n \in Nat : n \in S
  <2>1. 0 \in S
    <3>1. f[1] = head
      <4>1. 1 \in 1 .. Len(q) /\ 1 - 1 = 0
        BY <1>1
      <4>2. f[1] = IF q[1].src = src THEN Append(f[1 - 1], q[1]) ELSE f[1 - 1]
        BY <1>2, <4>1
      <4> QED
        BY <1>2, <1>5a, <4>1, <4>2
    <3>2. head \o <<>> = head
      BY <1>5
    <3>3. f[0 + 1] = head \o g[0]
      BY <1>3, <3>1, <3>2
    <3> QED
      BY <3>3
  <2>2. ASSUME NEW n \in Nat, n \in S PROVE n + 1 \in S
    <3>0. SUFFICES ASSUME n + 1 <= Len(r) PROVE f[(n + 1) + 1] = head \o g[n + 1]
      OBVIOUS
    <3>1. /\ n + 2 \in 1 .. Len(q) /\ (n + 2) - 1 = n + 1 /\ n + 1 \in 1 .. Len(r)
          /\ (n + 1) - 1 = n /\ n \in 0 .. Len(r) /\ (n + 1) + 1 = n + 2
      BY <1>1, <3>0
    <3>2a. n <= Len(r)
      BY <1>1, <3>0
    <3>2b. f[n + 1] = head \o g[n]
      BY <2>2, <3>2a
    <3>2. f[n + 1] = head \o g[n] /\ r[n + 1] = q[n + 2] /\ q[n + 2] \in B
      BY <1>1, <3>1, <3>2b
    <3>3. f[n + 2] = IF q[n + 2].src = src THEN Append(f[n + 1], q[n + 2]) ELSE f[n + 1]
      BY <1>2, <3>1
    <3>4. g[n + 1] = IF q[n + 2].src = src THEN Append(g[n], q[n + 2]) ELSE g[n]
      BY <1>3, <3>1, <3>2
    <3>5. CASE q[n + 2].src = src
      <4>1. q[n + 2] \in C /\ g[n] \in Seq(C)
        BY <1>4, <3>1, <3>2, <3>5 DEF C
      <4> DEFINE x == q[n + 2]
      <4> HIDE DEF x
      <4>2. Append(head \o g[n], x) = head \o Append(g[n], x)
        <5>1. x \in C
          BY <4>1 DEF x
        <5> DEFINE t == g[n]
        <5>2. t \in Seq(C)
          BY <4>1
        <5> HIDE DEF t
        <5>3. Append(head \o t, x) = head \o Append(t, x)
          BY <1>5, <5>1, <5>2
        <5> QED
          BY <5>3 DEF t
      <4> QED
        BY <3>1, <3>2, <3>3, <3>4, <3>5, <4>2 DEF x
    <3>6. CASE q[n + 2].src # src
      BY <3>1, <3>2, <3>3, <3>4, <3>6
    <3> QED
      BY <3>5, <3>6
  <2> HIDE DEF S
  <2> QED
    BY <2>1, <2>2, Induction
<1>7. f[Len(q)] = head \o g[Len(r)]
  <2>1. Len(r) \in Nat /\ Len(r) + 1 = Len(q)
    BY <1>1
  <2>2. Len(r) \in S
    BY <1>6, <2>1
  <2> QED
    BY <2>1, <2>2
<1>8. <<>> \o g[Len(r)] = g[Len(r)]
  <2>1. g[Len(r)] \in Seq(C)
    BY <1>1, <1>4
  <2> QED
    BY <2>1
<1>9. CASE q[1].src = src
  BY <1>7, <1>9 DEF head, f, g, r, Bytes
<1>10. CASE q[1].src # src
  BY <1>7, <1>8, <1>10 DEF head, f, g, r, Bytes
<1> QED
  BY <1>9, <1>10

--------------------------------------------------------------------------------
(* The inductive invariants. *)

Numbers == 0 .. SERIALS - 1
KeyBytes == [src : {"key"}, n : Numbers, code : {"letter", "caps", "shift", "unshift"},
             upper : BOOLEAN]
MouseBytes == [src : {"mouse"}, n : Numbers, ack : BOOLEAN]
AnyByte == KeyBytes \cup MouseBytes
DevType == [shift : SUBSET Shifts, caps : BOOLEAN, key : Numbers, mouse : Numbers, acks : Nat]

Types ==
  /\ TypeOK
  /\ fifo \in Seq(AnyByte) /\ ps2_buffer \in Seq(KeyBytes) /\ ps2_pkt \in Seq(MouseBytes)
  /\ shift_pressed \in BOOLEAN /\ caps_lock \in BOOLEAN
  /\ wrong \in BOOLEAN /\ lost \in BOOLEAN
  /\ dev \in DevType

\* A packet p, the bytes r that follow it and the number of the next byte agree.
Aligned(p, r, next) ==
  /\ \A i \in DOMAIN (p \o r) : ~ (p \o r)[i].ack
  /\ UpTo(p \o r, next)
  /\ p # <<>> => p[1].n % 3 = 0
  /\ (next - Len(r)) % 3 = Len(p)

\* In ps2_init at most one answer is awaited or on its way, and the bytes of
\* packets come behind the last one.
Ack == MouseByte(0, TRUE)
Awaited(r) ==
  \/ boot = 0 /\ dev.acks = 0 /\ From("mouse") = <<>> /\ r = <<>>
  \/ boot \in 1 .. COMMANDS /\ dev.acks = 1 /\ From("mouse") = <<>> /\ r = <<>>
  \/ boot \in 1 .. COMMANDS /\ dev.acks = 0 /\ From("mouse") = <<Ack>> \o r
\* r: the bytes of packets that the driver has not read yet.
Unread(r) ==
  /\ Aligned(ps2_pkt, r, dev.mouse)
  /\ IF Booted THEN dev.acks = 0 /\ From("mouse") = r
     ELSE /\ ps2_pkt = <<>> /\ Awaited(r)
          /\ boot < COMMANDS => r = <<>> /\ dev.mouse = 0
          /\ r = <<>> => dev.mouse = 0
Answers == \E r \in Seq(MouseBytes) : Unread(r)

MouseInv == Types /\ (~ gave_up => Answers)

\* The scan codes on their way, and a history of the state of the decoder (Shift, Caps Lock) before
\* and behind each of them: behind the last it is that of the keyboard.
Pending == ps2_buffer \o From("key")
Traced(s, sh, cp) ==
  \A i \in 1 .. Len(s) :
    /\ sh[i] = IF s[i].code = "shift" THEN TRUE
               ELSE IF s[i].code = "unshift" THEN FALSE ELSE sh[i - 1]
    /\ cp[i] = (cp[i - 1] # (s[i].code = "caps"))
    /\ s[i].code = "letter" => s[i].upper = (sh[i - 1] # cp[i - 1])
Explained(s, shift0, caps0, shift1, caps1) ==
  \E sh, cp \in [0 .. Len(s) -> BOOLEAN] :
    /\ Traced(s, sh, cp)
    /\ sh[0] = shift0 /\ cp[0] = caps0 /\ sh[Len(s)] = shift1 /\ cp[Len(s)] = caps1
Translated ==
  /\ UpTo(Pending, dev.key)
  /\ taken = (dev.key - Len(Pending)) % SERIALS
  /\ ~ wrong
  /\ Explained(Pending, shift_pressed, caps_lock, dev.shift # {}, dev.caps)

KeyInv == Types /\ (~ lost => Translated)

--------------------------------------------------------------------------------
(* Types. *)

LEMMA SuccType ==
  ASSUME NEW n \in Numbers
  PROVE  Succ(n) \in Numbers
BY Ps2Assumption DEF Succ, Numbers

LEMMA MouseByteType ==
  ASSUME NEW n \in Numbers, NEW a \in BOOLEAN
  PROVE  MouseByte(n, a) \in MouseBytes /\ MouseByte(n, a).src = "mouse"
BY DEF MouseByte, MouseBytes

LEMMA ScanType ==
  ASSUME Types, NEW code \in {"letter", "caps", "shift", "unshift"}
  PROVE  Scan(code) \in KeyBytes /\ Scan(code).src = "key" /\ Scan(code) \in AnyByte
<1>1. dev.key \in Numbers
  BY DEF Types, DevType
<1>2. (code = "letter" /\ (dev.shift # {}) # dev.caps) \in BOOLEAN
  OBVIOUS
<1>3. Scan(code) \in KeyBytes /\ Scan(code).src = "key"
  BY <1>1, <1>2 DEF Scan, KeyBytes
<1> QED
  BY <1>3 DEF AnyByte

\* A read takes the first byte.
LEMMA ReadType ==
  ASSUME Types, fifo # <<>>
  PROVE  /\ Tail(fifo) \in Seq(AnyByte) /\ Len(Tail(fifo)) <= FIFO
         /\ AUX(fifo) => fifo[1] \in MouseBytes
         /\ ~ AUX(fifo) => fifo[1] \in KeyBytes
<1>1. fifo \in Seq(AnyByte) /\ Len(fifo) <= FIFO /\ FIFO \in Nat
  BY Ps2Assumption DEF Types, TypeOK
<1>2. fifo[1] \in AnyByte /\ Tail(fifo) \in Seq(AnyByte) /\ Len(Tail(fifo)) = Len(fifo) - 1
  BY <1>1
<1>3. Len(Tail(fifo)) <= FIFO
  BY <1>1, <1>2
<1> QED
  BY <1>2, <1>3 DEF AUX, AnyByte, KeyBytes, MouseBytes

LEMMA FeedType ==
  ASSUME Types, NEW b \in MouseBytes, mouse_feed_byte(b)
  PROVE  ps2_pkt' \in Seq(MouseBytes) /\ Len(ps2_pkt') <= 2
<1>1. ps2_pkt \in Seq(MouseBytes) /\ Len(ps2_pkt) \in Nat /\ Len(ps2_pkt) <= 2
  BY DEF Types, TypeOK
<1>2. CASE Len(ps2_pkt) = 2
  BY <1>2 DEF mouse_feed_byte
<1>3. CASE Len(ps2_pkt) # 2
  <2>1. ps2_pkt' = Append(ps2_pkt, b)
    BY <1>3 DEF mouse_feed_byte
  <2>2. Append(ps2_pkt, b) \in Seq(MouseBytes) /\ Len(Append(ps2_pkt, b)) = Len(ps2_pkt) + 1
    BY <1>1
  <2>3. Len(ps2_pkt) + 1 <= 2
    BY <1>1, <1>3
  <2> QED
    BY <2>1, <2>2, <2>3
<1> QED
  BY <1>2, <1>3

LEMMA DecodeType ==
  ASSUME Types, NEW sc \in KeyBytes, ps2_scancode_to_ascii(sc)
  PROVE  /\ shift_pressed' \in BOOLEAN /\ caps_lock' \in BOOLEAN /\ wrong' \in BOOLEAN
         /\ taken' \in Numbers
<1>1. sc.n \in Numbers
  BY DEF KeyBytes
<1>2. Succ(sc.n) \in Numbers
  BY <1>1, SuccType
<1> QED
  BY <1>2 DEF ps2_scancode_to_ascii, Types

\* The parts of Types that an action can disturb.
LEMMA TypesParts ==
  ASSUME /\ fifo' \in Seq(AnyByte) /\ Len(fifo') <= FIFO /\ irq12' \in BOOLEAN
         /\ ps2_buffer' \in Seq(KeyBytes) /\ Len(ps2_buffer') < PS2_BUFFER_SIZE
         /\ ps2_pkt' \in Seq(MouseBytes) /\ Len(ps2_pkt') <= 2
         /\ pc' \in [Readers -> {"user", "ring", "halt", "woken", "drain", "poll"}]
         /\ boot' \in 0 .. COMMANDS + 1 /\ burst' \in 0 .. BURST
         /\ gave_up' \in BOOLEAN /\ taken' \in Numbers
         /\ shift_pressed' \in BOOLEAN /\ caps_lock' \in BOOLEAN
         /\ wrong' \in BOOLEAN /\ lost' \in BOOLEAN
         /\ dev' \in DevType
  PROVE  Types'
<1>1. dev'.shift \subseteq Shifts
  BY DEF DevType
<1>2. \A i \in DOMAIN ps2_buffer' : ps2_buffer'[i].src = "key"
  <2>1. \A i \in DOMAIN ps2_buffer' : ps2_buffer'[i] \in KeyBytes
    OBVIOUS
  <2> QED
    BY <2>1 DEF KeyBytes
<1>3. TypeOK'
  BY <1>1, <1>2 DEF TypeOK, Numbers
<1> QED
  BY <1>3 DEF Types

LEMMA TypesNow ==
  ASSUME Types
  PROVE  /\ fifo \in Seq(AnyByte) /\ Len(fifo) <= FIFO /\ irq12 \in BOOLEAN
         /\ ps2_buffer \in Seq(KeyBytes) /\ Len(ps2_buffer) < PS2_BUFFER_SIZE
         /\ ps2_pkt \in Seq(MouseBytes) /\ Len(ps2_pkt) <= 2
         /\ pc \in [Readers -> {"user", "ring", "halt", "woken", "drain", "poll"}]
         /\ boot \in 0 .. COMMANDS + 1 /\ burst \in 0 .. BURST
         /\ gave_up \in BOOLEAN /\ taken \in Numbers
         /\ shift_pressed \in BOOLEAN /\ caps_lock \in BOOLEAN
         /\ wrong \in BOOLEAN /\ lost \in BOOLEAN
         /\ dev \in DevType
BY DEF Types, TypeOK, Numbers

LEMMA AuxBoolean == \A q : AUX(q) \in BOOLEAN
BY DEF AUX

LEMMA PushType ==
  ASSUME Types, NEW b \in AnyByte, Push(b), dev' \in DevType
  PROVE  Types'
<1>1. Append(fifo, b) \in Seq(AnyByte) /\ Len(Append(fifo, b)) <= FIFO
  BY TypesNow, Ps2Assumption DEF Push
<1>2. burst' \in 0 .. BURST
  BY TypesNow, Ps2Assumption DEF Push
<1>3. irq12' \in BOOLEAN
  BY TypesNow DEF Push
<1> QED
  BY <1>1, <1>2, <1>3, TypesNow, TypesParts DEF Push, decoder, start_up

LEMMA TypesTyped ==
  ASSUME Types, Typed
  PROVE  Types'
<1>1. dev \in DevType /\ Succ(dev.key) \in Numbers
  BY TypesNow, SuccType DEF DevType
<1>2. CASE Letter
  <2>1. dev' \in DevType
    BY <1>1, <1>2 DEF Letter, DevType
  <2> QED
    BY <1>2, <2>1, PushType, ScanType DEF Letter, KeyPush
<1>3. CASE CapsLock
  <2>1. dev' \in DevType
    BY <1>1, <1>3 DEF CapsLock, DevType
  <2> QED
    BY <1>3, <2>1, PushType, ScanType DEF CapsLock, KeyPush
<1>4. ASSUME NEW s \in Shifts, ShiftDown(s) PROVE Types'
  <2>1. dev' \in DevType
    BY <1>1, <1>4 DEF ShiftDown, DevType
  <2> QED
    BY <1>4, <2>1, PushType, ScanType DEF ShiftDown, KeyPush
<1>5. ASSUME NEW s \in Shifts, ShiftUp(s) PROVE Types'
  <2>1. dev' \in DevType
    BY <1>1, <1>5 DEF ShiftUp, DevType
  <2> QED
    BY <1>5, <2>1, PushType, ScanType DEF ShiftUp, KeyPush
<1> QED
  BY <1>2, <1>3, <1>4, <1>5 DEF Typed

LEMMA TypesMouse ==
  ASSUME Types, MouseSends
  PROVE  Types'
<1>1. dev \in DevType /\ Succ(dev.mouse) \in Numbers /\ dev.mouse \in Numbers /\ 0 \in Numbers
  BY TypesNow, SuccType, Ps2Assumption DEF DevType, Numbers
<1>2. CASE MouseAck
  <2>1. dev' \in DevType
    BY <1>1, <1>2 DEF MouseAck, DevType
  <2>2. MouseByte(0, TRUE) \in AnyByte
    BY <1>1, MouseByteType DEF AnyByte
  <2> QED
    BY <1>2, <2>1, <2>2, PushType DEF MouseAck
<1>3. CASE MouseMoves
  <2>1. dev' \in DevType
    BY <1>1, <1>3 DEF MouseMoves, DevType
  <2>2. MouseByte(dev.mouse, FALSE) \in AnyByte
    BY <1>1, MouseByteType DEF AnyByte
  <2> QED
    BY <1>3, <2>1, <2>2, PushType DEF MouseMoves
<1> QED
  BY <1>2, <1>3 DEF MouseSends

LEMMA SendType ==
  ASSUME Types, Send, boot \in 0 .. COMMANDS
  PROVE  boot' \in 0 .. COMMANDS + 1 /\ dev' \in DevType
<1>1. dev \in DevType
  BY TypesNow
<1>2. boot' \in 0 .. COMMANDS + 1
  BY Ps2Assumption DEF Send
<1>3. dev' \in DevType
  BY <1>1 DEF Send, DevType
<1> QED
  BY <1>2, <1>3

LEMMA TypesBoot ==
  ASSUME Types, BootStep
  PROVE  Types'
<1>0. 0 \in 0 .. COMMANDS /\ 1 .. COMMANDS \subseteq 0 .. COMMANDS /\ 0 \in 0 .. BURST
  BY Ps2Assumption
<1>1. CASE ps2_send_command
  <2>1. boot' \in 0 .. COMMANDS + 1 /\ dev' \in DevType
    BY <1>0, <1>1, SendType DEF ps2_send_command
  <2> QED
    BY <1>1, <2>1, TypesNow, TypesParts DEF ps2_send_command, decoder
<1>2. CASE ps2_wait_ack
  <2>1. boot' \in 0 .. COMMANDS + 1 /\ dev' \in DevType
    BY <1>0, <1>2, SendType, TypesNow DEF ps2_wait_ack
  <2>2. fifo' \in Seq(AnyByte) /\ Len(fifo') <= FIFO /\ irq12' \in BOOLEAN
    BY <1>2, ReadType, TypesNow, AuxBoolean DEF ps2_wait_ack, Read, OBF
  <2>3. lost' \in BOOLEAN
    BY <1>2, TypesNow, AuxBoolean DEF ps2_wait_ack
  <2> QED
    BY <1>0, <1>2, <2>1, <2>2, <2>3, TypesNow, TypesParts DEF ps2_wait_ack, decoder
<1>3. CASE AckTimesOut
  <2>1. boot' \in 0 .. COMMANDS + 1 /\ dev' \in DevType
    BY <1>0, <1>3, SendType DEF AckTimesOut
  <2> QED
    BY <1>3, <2>1, TypesNow, TypesParts DEF AckTimesOut, decoder
<1> QED
  BY <1>1, <1>2, <1>3 DEF BootStep

\* The steps in which nothing but a program counter and the burst change.
PcOnly ==
  /\ UNCHANGED <<fifo, irq12, ps2_buffer, ps2_pkt, decoder, start_up, dev, lost>>
  /\ \E r \in Readers, to \in {"user", "ring", "halt", "woken", "drain", "poll"} : Goto(r, to)
  /\ burst' \in {0, burst}
\* A byte of the mouse is fed to the decoder of packets.
MouseFed ==
  /\ AUX(fifo) /\ mouse_feed_byte(fifo[1]) /\ fifo' = Tail(fifo) /\ irq12' \in BOOLEAN
  /\ UNCHANGED <<ps2_buffer, decoder, pc, start_up, dev, lost>> /\ burst' \in {0, burst}
  /\ Booted
\* A scan code goes from the controller to the ring.
KeyQueued ==
  /\ fifo # <<>> /\ ~ AUX(fifo) /\ Enqueue(fifo[1]) /\ fifo' = Tail(fifo) /\ irq12' \in BOOLEAN
  /\ UNCHANGED <<ps2_pkt, decoder, pc, start_up, dev>> /\ burst' \in {0, burst}
\* A scan code is translated, out of the ring or, if that is empty, out of the controller.
KeyTaken ==
  /\ \/ /\ ps2_buffer # <<>> /\ ps2_buffer' = Tail(ps2_buffer)
        /\ ps2_scancode_to_ascii(ps2_buffer[1])
        /\ UNCHANGED <<fifo, irq12>>
     \/ /\ ps2_buffer = <<>> /\ fifo # <<>> /\ ~ AUX(fifo)
        /\ ps2_scancode_to_ascii(fifo[1])
        /\ fifo' = Tail(fifo) /\ irq12' \in BOOLEAN /\ UNCHANGED ps2_buffer
  /\ UNCHANGED <<ps2_pkt, start_up, dev, lost>> /\ burst' \in {0, burst}
  /\ \/ UNCHANGED pc
     \/ \E r \in Readers, to \in {"user", "ring"} : Goto(r, to)
\* The interrupt is spurious.
Spurious ==
  /\ irq12' = FALSE /\ burst' \in {0, burst}
  /\ UNCHANGED <<fifo, ps2_buffer, ps2_pkt, decoder, pc, start_up, dev, lost>>

\* Every step of the readers and of the interrupt handler is one of these.
LEMMA Kinds ==
  ASSUME Types, ps2_mouse_irq_handler \/ \E r \in Readers : Work(r) \/ Calls(r) \/ Wake(r)
  PROVE  PcOnly \/ MouseFed \/ KeyQueued \/ KeyTaken \/ Spurious
<1> USE TypesNow, AuxBoolean
<1>1. CASE ps2_mouse_irq_handler
  <2>1. CASE AUX(fifo)
    <3>1. OBF(fifo)
      BY <2>1 DEF AUX, OBF
    <3>2. irq12' \in BOOLEAN
      BY <1>1, <2>1 DEF ps2_mouse_irq_handler, FromMouse
    <3> QED
      BY <1>1, <2>1, <3>1, <3>2
      DEF ps2_mouse_irq_handler, FromMouse, MouseFed, InterruptsOn
  <2>2. CASE ~ AUX(fifo)
    BY <1>1, <2>2 DEF ps2_mouse_irq_handler, FromMouse, Spurious
  <2> QED
    BY <2>1, <2>2
<1>2. ASSUME NEW r \in Readers, FromRing(r) PROVE KeyTaken
  <2>1. \E to \in {"user", "ring"} : Goto(r, to)
    BY <1>2 DEF FromRing
  <2> QED
    BY <1>2, <2>1 DEF FromRing, KeyTaken, hardware
<1>3. ASSUME NEW r \in Readers, Halt(r) PROVE PcOnly
  <2>1. \E to \in {"user", "ring", "halt", "woken", "drain", "poll"} : Goto(r, to)
    BY <1>3 DEF Halt
  <2> QED
    BY <1>3, <2>1 DEF Halt, PcOnly, hardware
<1>4. ASSUME NEW r \in Readers, Drain(r) PROVE MouseFed \/ KeyQueued \/ PcOnly
  <2>1. CASE AUX(fifo)
    <3>1. OBF(fifo)
      BY <2>1 DEF AUX, OBF
    <3>2. irq12' \in BOOLEAN
      BY <1>4, <2>1 DEF Drain, Read
    <3> QED
      BY <1>4, <2>1, <3>1, <3>2 DEF Drain, MouseFed, Read, Runs, hardware
  <2>2. CASE ~ AUX(fifo) /\ OBF(fifo)
    <3>1. irq12' \in BOOLEAN
      BY <1>4, <2>2 DEF Drain, Read
    <3> QED
      BY <1>4, <2>2, <3>1 DEF Drain, KeyQueued, Read, OBF, hardware
  <2>3. CASE ~ AUX(fifo) /\ ~ OBF(fifo)
    <3>1. \E to \in {"user", "ring", "halt", "woken", "drain", "poll"} : Goto(r, to)
      BY <1>4, <2>3 DEF Drain
    <3> QED
      BY <1>4, <2>3, <3>1 DEF Drain, PcOnly, hardware
  <2> QED
    BY <2>1, <2>2, <2>3
<1>5. ASSUME NEW r \in Readers, mouse_poll(r) PROVE MouseFed \/ PcOnly
  <2>1. CASE AUX(fifo)
    <3>1. irq12' \in BOOLEAN
      BY <1>5, <2>1 DEF mouse_poll, Read
    <3> QED
      BY <1>5, <2>1, <3>1 DEF mouse_poll, MouseFed, Read, Runs, hardware
  <2>2. CASE ~ AUX(fifo)
    <3>1. \E to \in {"user", "ring", "halt", "woken", "drain", "poll"} : Goto(r, to)
      BY <1>5, <2>2 DEF mouse_poll
    <3> QED
      BY <1>5, <2>2, <3>1 DEF mouse_poll, PcOnly, hardware
  <2> QED
    BY <2>1, <2>2
<1>6. ASSUME NEW r \in Readers, keyboard_get_char(r) \/ mouse_get_packet(r) \/ Wake(r) PROVE PcOnly
  <2>1. \E to \in {"user", "ring", "halt", "woken", "drain", "poll"} : Goto(r, to)
    BY <1>6 DEF keyboard_get_char, mouse_get_packet, Wake
  <2> QED
    BY <1>6, <2>1 DEF keyboard_get_char, mouse_get_packet, Wake, PcOnly
<1>7. ASSUME NEW r \in Readers, keyboard_get_char_nb(r) PROVE KeyTaken \/ MouseFed
  <2>1. CASE RingFirst
    BY <1>7, <2>1 DEF keyboard_get_char_nb, RingFirst, KeyTaken
  <2>2. CASE ~ RingFirst /\ AUX(fifo)
    <3>1. irq12' \in BOOLEAN
      BY <1>7, <2>2 DEF keyboard_get_char_nb, Read
    <3> QED
      BY <1>7, <2>2, <3>1 DEF keyboard_get_char_nb, MouseFed, Read, InterruptsOn
  <2>3. CASE ~ RingFirst /\ ~ AUX(fifo) /\ OBF(fifo)
    <3>1. irq12' \in BOOLEAN
      BY <1>7, <2>3 DEF keyboard_get_char_nb, Read
    <3> QED
      BY <1>7, <2>3, <3>1 DEF keyboard_get_char_nb, KeyTaken, Read, OBF, RingFirst
  <2> QED
    BY <1>7, <2>1, <2>2, <2>3 DEF keyboard_get_char_nb
<1> QED
  BY <1>1, <1>2, <1>3, <1>4, <1>5, <1>6, <1>7 DEF Work, Calls

LEMMA GotoType ==
  ASSUME Types, NEW r \in Readers, NEW to \in {"user", "ring", "halt", "woken", "drain", "poll"},
         Goto(r, to)
  PROVE  pc' \in [Readers -> {"user", "ring", "halt", "woken", "drain", "poll"}]
BY TypesNow DEF Goto

LEMMA TypesReader ==
  ASSUME Types, PcOnly \/ MouseFed \/ KeyQueued \/ KeyTaken \/ Spurious
  PROVE  Types'
<1>0. \A b : b \in {0, burst} => b \in 0 .. BURST
  BY TypesNow, Ps2Assumption
<1>1. CASE PcOnly
  <2>1. pc' \in [Readers -> {"user", "ring", "halt", "woken", "drain", "poll"}]
    BY <1>1, GotoType DEF PcOnly
  <2> QED
    BY <1>0, <1>1, <2>1, TypesNow, TypesParts DEF PcOnly, decoder, start_up
<1>2. CASE MouseFed
  <2>1. /\ fifo' \in Seq(AnyByte) /\ Len(fifo') <= FIFO
        /\ fifo[1] \in MouseBytes
    BY <1>2, ReadType DEF MouseFed, AUX
  <2>2. ps2_pkt' \in Seq(MouseBytes) /\ Len(ps2_pkt') <= 2
    BY <1>2, <2>1, FeedType DEF MouseFed
  <2> QED
    BY <1>0, <1>2, <2>1, <2>2, TypesNow, TypesParts DEF MouseFed, decoder, start_up
<1>3. CASE KeyQueued
  <2>1. /\ fifo' \in Seq(AnyByte) /\ Len(fifo') <= FIFO
        /\ fifo[1] \in KeyBytes
    BY <1>3, ReadType DEF KeyQueued
  <2>2. ps2_buffer' \in Seq(KeyBytes) /\ Len(ps2_buffer') < PS2_BUFFER_SIZE /\ lost' \in BOOLEAN
    <3>1. CASE Full
      BY <1>3, <3>1, TypesNow DEF KeyQueued, Enqueue
    <3>2. CASE ~ Full
      <4>1. ps2_buffer' = Append(ps2_buffer, fifo[1]) /\ lost' = lost
        BY <1>3, <3>2, TypesNow DEF KeyQueued, Enqueue
      <4>2. Len(ps2_buffer) + 1 < PS2_BUFFER_SIZE
        BY <3>2, TypesNow, Ps2Assumption DEF Full
      <4>3. Append(ps2_buffer, fifo[1]) \in Seq(KeyBytes)
            /\ Len(Append(ps2_buffer, fifo[1])) = Len(ps2_buffer) + 1
        BY <2>1, TypesNow
      <4> QED
        BY <4>1, <4>2, <4>3, TypesNow
    <3> QED
      BY <3>1, <3>2
  <2> QED
    BY <1>0, <1>3, <2>1, <2>2, TypesNow, TypesParts DEF KeyQueued, decoder, start_up
<1>4. CASE KeyTaken
  <2>1. pc' \in [Readers -> {"user", "ring", "halt", "woken", "drain", "poll"}]
    BY <1>4, TypesNow, GotoType DEF KeyTaken
  <2>2. CASE ps2_buffer # <<>>
    <3>1. ps2_buffer[1] \in KeyBytes /\ Tail(ps2_buffer) \in Seq(KeyBytes)
          /\ Len(Tail(ps2_buffer)) = Len(ps2_buffer) - 1
      BY <2>2, TypesNow
    <3>2. /\ ps2_buffer' = Tail(ps2_buffer) /\ ps2_scancode_to_ascii(ps2_buffer[1])
          /\ fifo' = fifo /\ irq12' = irq12
      BY <1>4, <2>2 DEF KeyTaken
    <3>3. Len(ps2_buffer') < PS2_BUFFER_SIZE
      BY <3>1, <3>2, TypesNow, Ps2Assumption
    <3>4. /\ shift_pressed' \in BOOLEAN /\ caps_lock' \in BOOLEAN /\ wrong' \in BOOLEAN
          /\ taken' \in Numbers
      BY <3>1, <3>2, DecodeType
    <3> QED
      BY <1>0, <1>4, <2>1, <3>1, <3>2, <3>3, <3>4, TypesNow, TypesParts DEF KeyTaken, start_up
  <2>3. CASE ps2_buffer = <<>>
    <3>2. /\ fifo # <<>> /\ ~ AUX(fifo)
          /\ ps2_scancode_to_ascii(fifo[1])
          /\ fifo' = Tail(fifo) /\ irq12' \in BOOLEAN /\ ps2_buffer' = ps2_buffer
      BY <1>4, <2>3 DEF KeyTaken
    <3>1. /\ fifo' \in Seq(AnyByte) /\ Len(fifo') <= FIFO
          /\ fifo[1] \in KeyBytes
      BY <3>2, ReadType
    <3>4. /\ shift_pressed' \in BOOLEAN /\ caps_lock' \in BOOLEAN /\ wrong' \in BOOLEAN
          /\ taken' \in Numbers
      BY <3>1, <3>2, DecodeType
    <3> QED
      BY <1>0, <1>4, <2>1, <3>1, <3>2, <3>4, TypesNow, TypesParts DEF KeyTaken, start_up
  <2> QED
    BY <2>2, <2>3
<1>5. CASE Spurious
  BY <1>0, <1>5, TypesNow, TypesParts DEF Spurious, decoder, start_up
<1> QED
  BY <1>1, <1>2, <1>3, <1>4, <1>5

LEMMA TypesStep ==
  ASSUME Types, [Next]_vars
  PROVE  Types'
<1>1. CASE UNCHANGED vars
  BY <1>1, TypesNow, TypesParts DEF vars, decoder, start_up, hardware
<1>2. CASE Typed
  BY <1>2, TypesTyped
<1>3. CASE MouseSends
  BY <1>3, TypesMouse
<1>4. CASE BootStep
  BY <1>4, TypesBoot
<1>5. CASE ps2_mouse_irq_handler \/ \E r \in Readers : Work(r) \/ Calls(r) \/ Wake(r)
  BY <1>5, Kinds, TypesReader
<1> QED
  BY <1>1, <1>2, <1>3, <1>4, <1>5 DEF Next

--------------------------------------------------------------------------------
(* Numbered sequences. *)

LEMMA UpToAppend ==
  ASSUME NEW B, NEW s \in Seq(B), NEW b \in B, NEW m \in Numbers, b.n = m, UpTo(s, m)
  PROVE  UpTo(Append(s, b), Succ(m))
<1> DEFINE t == Append(s, b)
<1>1. /\ Len(s) \in Nat /\ Len(t) = Len(s) + 1 /\ DOMAIN t = 1 .. Len(s) + 1 /\ DOMAIN s = 1 .. Len(s)
      /\ t[Len(s) + 1] = b /\ \A i \in 1 .. Len(s) : t[i] = s[i]
  OBVIOUS
<1> HIDE DEF t
<1>2. m \in Int /\ SERIALS \in Nat \ {0} /\ m % SERIALS = m
  BY Ps2Assumption DEF Numbers
<1>3. ASSUME NEW i \in 1 .. Len(s) + 1
      PROVE  (Succ(m) - 1 - (Len(t) - i)) % SERIALS = (m - 1 - (Len(s) - i)) % SERIALS
  <2> DEFINE c == i - Len(s) - 2
  <2>1. c \in Int /\ m + 1 \in Int
    BY <1>1, <1>2
  <2>2. (((m + 1) % SERIALS) + c) % SERIALS = ((m + 1) + c) % SERIALS
    BY <1>2, <2>1, ModSum
  <2>3. (m + 1) % SERIALS \in Int
    BY <1>2, <2>1
  <2>4. ((m + 1) % SERIALS) - 1 - (Len(t) - i) = ((m + 1) % SERIALS) + c
    BY <1>1, <2>1, <2>3
  <2>5. (m + 1) + c = m - 1 - (Len(s) - i)
    BY <1>1, <1>2
  <2> QED
    BY <2>2, <2>4, <2>5 DEF Succ
<1>4. ASSUME NEW i \in 1 .. Len(s) + 1
      PROVE  t[i].n = (m - 1 - (Len(s) - i)) % SERIALS
  <2>1. CASE i = Len(s) + 1
    <3>1. m - 1 - (Len(s) - i) = m
      BY <1>1, <1>2, <2>1
    <3> QED
      BY <1>1, <1>2, <2>1, <3>1
  <2>2. CASE i # Len(s) + 1
    <3>1. i \in 1 .. Len(s)
      BY <1>1, <2>2
    <3> QED
      BY <1>1, <3>1 DEF UpTo
  <2> QED
    BY <2>1, <2>2
<1> QED
  BY <1>1, <1>3, <1>4 DEF UpTo, t

LEMMA UpToSuffix ==
  ASSUME NEW B, NEW p \in Seq(B), NEW s \in Seq(B), NEW m, UpTo(p \o s, m)
  PROVE  UpTo(s, m)
<1> DEFINE t == p \o s
<1> SUFFICES ASSUME NEW i \in DOMAIN s PROVE s[i].n = (m - 1 - (Len(s) - i)) % SERIALS
  BY DEF UpTo
<1>1. /\ Len(p) \in Nat /\ Len(s) \in Nat /\ i \in 1 .. Len(s) /\ Len(t) = Len(p) + Len(s)
      /\ i + Len(p) \in DOMAIN t /\ t[i + Len(p)] = s[i]
  OBVIOUS
<1> HIDE DEF t
<1>2. t[i + Len(p)].n = (m - 1 - (Len(t) - (i + Len(p)))) % SERIALS
  BY <1>1 DEF UpTo, t
<1>3. Len(t) - (i + Len(p)) = Len(s) - i
  BY <1>1
<1> QED
  BY <1>1, <1>2, <1>3

LEMMA UpToHead ==
  ASSUME NEW B, NEW b \in B, NEW s \in Seq(B), NEW m \in Numbers, UpTo(<<b>> \o s, m)
  PROVE  b.n = (m - Len(s) - 1) % SERIALS
<1> DEFINE t == <<b>> \o s
<1>1. Len(s) \in Nat /\ Len(t) = Len(s) + 1 /\ 1 \in DOMAIN t /\ t[1] = b
  OBVIOUS
<1> HIDE DEF t
<1>2. t[1].n = (m - 1 - (Len(t) - 1)) % SERIALS
  BY <1>1 DEF UpTo, t
<1>3. m - 1 - (Len(t) - 1) = m - Len(s) - 1
  BY <1>1 DEF Numbers
<1> QED
  BY <1>1, <1>2, <1>3

--------------------------------------------------------------------------------
(* Packets. *)

LEMMA AlignedEmpty == Aligned(<<>>, <<>>, 0)
BY DEF Aligned, UpTo

\* The mouse sends a byte.
LEMMA AlignedAppend ==
  ASSUME NEW p \in Seq(MouseBytes), NEW r \in Seq(MouseBytes), NEW b \in MouseBytes,
         NEW m \in Numbers, b.n = m, ~ b.ack, Aligned(p, r, m)
  PROVE  Aligned(p, Append(r, b), Succ(m))
<1> DEFINE s == p \o r
<1> DEFINE t == Append(r, b)
<1>1. /\ s \in Seq(MouseBytes) /\ p \o t = Append(s, b) /\ t \in Seq(MouseBytes)
      /\ Len(t) = Len(r) + 1 /\ Len(r) \in Nat
  OBVIOUS
<1>2. UpTo(s, m) /\ (\A i \in DOMAIN s : ~ s[i].ack) /\ (p # <<>> => p[1].n % 3 = 0)
      /\ (m - Len(r)) % 3 = Len(p)
  BY DEF Aligned
<1> HIDE DEF s, t
<1>3. UpTo(p \o t, Succ(m))
  BY <1>1, <1>2, UpToAppend
<1>4. \A i \in DOMAIN (p \o t) : ~ (p \o t)[i].ack
  <2> DEFINE u == Append(s, b)
  <2>1. \A i \in DOMAIN u : u[i] = b \/ (i \in DOMAIN s /\ u[i] = s[i])
    BY <1>1
  <2> HIDE DEF u
  <2> QED
    BY <1>1, <1>2, <2>1 DEF u
<1>5. (Succ(m) - Len(t)) % 3 = Len(p)
  <2> DEFINE c == - (Len(r) + 1)
  <2>1. m + 1 \in Int /\ c \in Int /\ m \in Int
    BY <1>1 DEF Numbers
  <2>2. (((m + 1) % SERIALS) + c) % 3 = ((m + 1) + c) % 3
    BY <2>1, Ps2Assumption, ModThree
  <2>3. (m + 1) % SERIALS \in Int
    BY <2>1, Ps2Assumption
  <2>4. ((m + 1) % SERIALS) - Len(t) = ((m + 1) % SERIALS) + c /\ (m + 1) + c = m - Len(r)
    BY <1>1, <2>1, <2>3
  <2> QED
    BY <1>2, <2>2, <2>4 DEF Succ
<1> QED
  BY <1>2, <1>3, <1>4, <1>5 DEF Aligned, t

LEMMA LengthRange ==
  ASSUME NEW p \in Seq(MouseBytes), NEW n \in Nat, Len(p) <= n
  PROVE  Len(p) \in 0 .. n
<1>1. Len(p) \in Nat
  OBVIOUS
<1> QED
  BY <1>1

LEMMA ConcatAt ==
  ASSUME NEW B, NEW p \in Seq(B), NEW r \in Seq(B), NEW i \in 1 .. Len(r)
  PROVE  i + Len(p) \in DOMAIN (p \o r) /\ (p \o r)[i + Len(p)] = r[i]
OBVIOUS

\* The decoder is fed a byte.
LEMMA AlignedFeed ==
  ASSUME NEW p \in Seq(MouseBytes), NEW r \in Seq(MouseBytes), NEW b \in MouseBytes,
         NEW m \in Numbers, Len(p) <= 2, Aligned(p, <<b>> \o r, m)
  PROVE  Aligned(IF Len(p) = 2 THEN <<>> ELSE Append(p, b), r, m)
<1> DEFINE f == <<b>> \o r
<1>0. /\ f \in Seq(MouseBytes) /\ Len(f) = Len(r) + 1 /\ Len(r) \in Nat
      /\ \A i \in 1 .. Len(r) : f[i + 1] = r[i]
  OBVIOUS
<1>1. f \in Seq(MouseBytes) /\ Len(f) = Len(r) + 1 /\ Len(r) \in Nat /\ Len(p) \in 0 .. 2 /\ m \in Int
  <2>1. m \in Int
    BY DEF Numbers
  <2>2. Len(p) \in 0 .. 2
    BY LengthRange
  <2> QED
    BY <1>0, <2>1, <2>2
<1>2. UpTo(p \o f, m) /\ (\A i \in DOMAIN (p \o f) : ~ (p \o f)[i].ack) /\ (p # <<>> => p[1].n % 3 = 0)
      /\ (m - Len(f)) % 3 = Len(p)
  BY DEF Aligned
<1>3. UpTo(f, m)
  BY <1>1, <1>2, UpToSuffix
<1>4. b.n = (m - Len(r) - 1) % SERIALS
  BY <1>3, UpToHead
<1>5. b.n % 3 = Len(p)
  <2> DEFINE c == m - Len(r) - 1
  <2>1. c \in Int /\ c = m - Len(f)
    BY <1>1
  <2> HIDE DEF c
  <2>2. ((c % SERIALS) + 0) % 3 = (c + 0) % 3
    BY <2>1, Ps2Assumption, ModThree
  <2>3. (c % SERIALS) + 0 = c % SERIALS /\ c + 0 = c
    BY <2>1, Ps2Assumption
  <2>4. b.n = c % SERIALS
    BY <1>4 DEF c
  <2> QED
    BY <1>2, <2>1, <2>2, <2>3, <2>4
<1>6. CASE Len(p) = 2
  <2>1. UpTo(r, m)
    <3>1. <<b>> \in Seq(MouseBytes)
      OBVIOUS
    <3> QED
      BY <1>3, <3>1, UpToSuffix
  <2>2. \A i \in DOMAIN r : ~ r[i].ack
    <3> SUFFICES ASSUME NEW i \in DOMAIN r PROVE ~ r[i].ack
      OBVIOUS
    <3> HIDE DEF f
    <3>1. i \in 1 .. Len(r) /\ i + 1 \in 1 .. Len(f)
      BY <1>0
    <3>2. PICK j \in 1 .. Len(f) : j = i + 1
      BY <3>1
    <3>3. j + Len(p) \in DOMAIN (p \o f) /\ (p \o f)[j + Len(p)] = f[j]
      BY <1>0, ConcatAt
    <3> QED
      BY <1>0, <1>2, <3>1, <3>2, <3>3
  <2>3. (m - Len(r)) % 3 = 0
    <3> DEFINE c == m - Len(f)
    <3>1. c \in Int /\ c % 3 = 2 /\ m - Len(r) = c + 1
      BY <1>1, <1>2, <1>6
    <3> HIDE DEF c
    <3> QED
      BY <3>1
  <2>4. <<>> \o r = r
    OBVIOUS
  <2>5. Aligned(<<>>, r, m)
    BY <2>1, <2>2, <2>3, <2>4 DEF Aligned
  <2> QED
    BY <1>6, <2>5
<1>7. CASE Len(p) # 2
  <2> DEFINE u == Append(p, b)
  <2>1. u \o r = p \o f /\ Len(u) = Len(p) + 1 /\ u \in Seq(MouseBytes)
    OBVIOUS
  <2>2. u[1].n % 3 = 0
    <3>1. CASE Len(p) = 0
      <4>1. u[1] = b
        BY <3>1
      <4> QED
        BY <1>5, <3>1, <4>1
    <3>2. CASE Len(p) # 0
      <4>1. u[1] = p[1] /\ p # <<>>
        BY <3>2
      <4> QED
        BY <1>2, <4>1
    <3> QED
      BY <3>1, <3>2
  <2>3. (m - Len(r)) % 3 = Len(u)
    <3> DEFINE c == m - Len(f)
    <3>1. c \in Int /\ c % 3 = Len(p) /\ m - Len(r) = c + 1 /\ Len(p) \in 0 .. 1
      BY <1>1, <1>2, <1>7
    <3> HIDE DEF c
    <3>2. (c + 1) % 3 = Len(p) + 1
      BY <3>1
    <3> QED
      BY <2>1, <3>1, <3>2
  <2> HIDE DEF u
  <2>4. Aligned(u, r, m)
    BY <1>2, <2>1, <2>2, <2>3 DEF Aligned, f
  <2> QED
    BY <1>7, <2>4 DEF u
<1> QED
  BY <1>6, <1>7

--------------------------------------------------------------------------------
(* The mouse. *)

LEMMA FromBytes == \A src : From(src) = Bytes(fifo, src) /\ From(src)' = Bytes(fifo', src)
BY DEF From, Bytes

\* What the bytes of each device are after a step.
LEMMA FromPushed ==
  ASSUME Types, NEW b \in AnyByte, Push(b), NEW src
  PROVE  From(src)' = IF b.src = src THEN Append(From(src), b) ELSE From(src)
<1>1. fifo \in Seq(AnyByte) /\ fifo' = Append(fifo, b)
  BY TypesNow DEF Push
<1> QED
  BY <1>1, BytesAppend, FromBytes

LEMMA FromRead ==
  ASSUME Types, fifo # <<>>, fifo' = Tail(fifo), NEW src
  PROVE  IF fifo[1].src = src THEN From(src) = <<fifo[1]>> \o From(src)' ELSE From(src)' = From(src)
<1>1. fifo \in Seq(AnyByte)
  BY TypesNow
<1> QED
  BY <1>1, BytesTail, FromBytes

LEMMA BytesType ==
  ASSUME NEW q \in Seq(AnyByte)
  PROVE  Bytes(q, "mouse") \in Seq(MouseBytes) /\ Bytes(q, "key") \in Seq(KeyBytes)
<1>1. Len(q) \in 0 .. Len(q)
  OBVIOUS
<1>2. {b \in AnyByte : b.src = "mouse"} = MouseBytes /\ {b \in AnyByte : b.src = "key"} = KeyBytes
  BY DEF AnyByte, MouseBytes, KeyBytes
<1>3. /\ Bytes(q, "mouse") \in Seq({b \in AnyByte : b.src = "mouse"})
      /\ Bytes(q, "key") \in Seq({b \in AnyByte : b.src = "key"})
  BY <1>1, AmongType DEF Bytes
<1> QED
  BY <1>2, <1>3

LEMMA FromType ==
  ASSUME Types
  PROVE  From("mouse") \in Seq(MouseBytes) /\ From("key") \in Seq(KeyBytes)
BY TypesNow, BytesType, FromBytes

LEMMA FromTypeNext ==
  ASSUME Types'
  PROVE  From("mouse")' \in Seq(MouseBytes) /\ From("key")' \in Seq(KeyBytes)
<1>1. fifo' \in Seq(AnyByte)
  BY DEF Types
<1> QED
  BY <1>1, BytesType, FromBytes

\* Nothing that concerns the mouse changes.
LEMMA MouseIdle ==
  ASSUME Answers, ps2_pkt' = ps2_pkt, boot' = boot, From("mouse")' = From("mouse"),
         dev'.mouse = dev.mouse, dev'.acks = dev.acks
  PROVE  Answers'
<1>1. PICK r \in Seq(MouseBytes) : Unread(r)
  BY DEF Answers
<1>2. Booted' = Booted /\ Awaited(r)' = Awaited(r)
  BY DEF Booted, Awaited
<1>3. Aligned(ps2_pkt, r, dev.mouse)' = Aligned(ps2_pkt, r, dev.mouse)
  BY DEF Aligned, UpTo
<1>4. Unread(r)'
  BY <1>1, <1>2, <1>3 DEF Unread
<1> QED
  BY <1>4 DEF Answers

LEMMA SameTail ==
  ASSUME NEW B, NEW x \in B, NEW y \in B, NEW s \in Seq(B), NEW t \in Seq(B),
         <<x>> \o s = <<y>> \o t
  PROVE  x = y /\ s = t
<1>1. x = y
  <2>1. (<<x>> \o s)[1] = x /\ (<<y>> \o t)[1] = y
    OBVIOUS
  <2> QED
    BY <2>1
<1>2. Tail(<<x>> \o s) = s /\ Tail(<<y>> \o t) = t
  OBVIOUS
<1> QED
  BY <1>1, <1>2

LEMMA AuxHead ==
  ASSUME Types, fifo # <<>>
  PROVE  fifo[1].src = IF AUX(fifo) THEN "mouse" ELSE "key"
BY ReadType DEF KeyBytes, MouseBytes

LEMMA AckType == Ack \in MouseBytes /\ Ack \in AnyByte /\ Ack.src = "mouse"
<1>1. 0 \in Numbers
  BY Ps2Assumption DEF Numbers
<1> QED
  BY <1>1, MouseByteType DEF Ack, AnyByte

\* The mouse answers.
LEMMA AnswersAck ==
  ASSUME Types, Answers, MouseAck
  PROVE  Answers'
<1>1. PICK r \in Seq(MouseBytes) : Unread(r)
  BY DEF Answers
<1>3. From("mouse")' = Append(From("mouse"), Ack)
  BY AckType, FromPushed DEF MouseAck, Ack
<1>4. dev'.acks = dev.acks - 1 /\ dev'.mouse = dev.mouse /\ dev.acks > 0
  BY TypesNow DEF MouseAck, DevType
<1>5. ps2_pkt' = ps2_pkt /\ boot' = boot
  BY DEF MouseAck, Push, start_up
<1>6. ~ Booted /\ boot \in 1 .. COMMANDS /\ dev.acks = 1 /\ From("mouse") = <<>> /\ r = <<>>
  BY <1>1, <1>4 DEF Unread, Awaited
<1>7. From("mouse")' = <<Ack>> \o r /\ dev'.acks = 0
  <2>1. Append(<<>>, Ack) = <<Ack>> \o <<>>
    OBVIOUS
  <2>2. dev'.acks = 0
    BY <1>4, <1>6
  <2>3. From("mouse")' = <<Ack>> \o r
    BY <1>3, <1>6, <2>1, Zenon
  <2> QED
    BY <2>2, <2>3
<1>8. Awaited(r)' /\ ~ Booted'
  BY <1>5, <1>6, <1>7 DEF Awaited, Booted, Ack, MouseByte
<1>9. Aligned(ps2_pkt, r, dev.mouse)'
  BY <1>1, <1>4, <1>5 DEF Unread, Aligned, UpTo
<1>10. Unread(r)'
  BY <1>1, <1>4, <1>5, <1>6, <1>8, <1>9 DEF Unread
<1> QED
  BY <1>10 DEF Answers

\* The mouse moves.
LEMMA AnswersMoves ==
  ASSUME Types, Answers, MouseMoves
  PROVE  Answers'
<1>1. PICK r \in Seq(MouseBytes) : Unread(r)
  BY DEF Answers
<1> DEFINE b == MouseByte(dev.mouse, FALSE)
<1>2. dev.mouse \in Numbers /\ b \in MouseBytes /\ b.src = "mouse" /\ b.n = dev.mouse /\ ~ b.ack
      /\ b \in AnyByte
  BY TypesNow, MouseByteType DEF DevType, AnyByte, MouseByte
<1>3. From("mouse")' = Append(From("mouse"), b)
  BY <1>2, FromPushed DEF MouseMoves
<1>4. dev'.acks = dev.acks /\ dev'.mouse = Succ(dev.mouse) /\ dev.acks = 0
  BY TypesNow DEF MouseMoves, DevType
<1>5. ps2_pkt' = ps2_pkt /\ boot' = boot /\ boot >= COMMANDS
  BY DEF MouseMoves, Push, start_up
<1> HIDE DEF b
<1>6. PICK t \in Seq(MouseBytes) : t = Append(r, b) /\ t # <<>>
  <2>1. Append(r, b) \in Seq(MouseBytes) /\ Append(r, b) # <<>>
    BY <1>2
  <2> QED
    BY <2>1
<1>7. Aligned(ps2_pkt, t, dev.mouse)'
  <2>1. Aligned(ps2_pkt, t, Succ(dev.mouse))
    BY <1>1, <1>2, <1>6, AlignedAppend, TypesNow DEF Unread
  <2>2. Aligned(ps2_pkt', t, dev'.mouse)
    BY <1>4, <1>5, <2>1
  <2> QED
    BY <2>2 DEF Aligned, UpTo
<1>8. CASE Booted
  <2>1. From("mouse")' = t /\ Booted'
    BY <1>1, <1>3, <1>5, <1>6, <1>8 DEF Unread, Booted
  <2>2. Unread(t)'
    BY <1>4, <1>7, <2>1 DEF Unread
  <2> QED
    BY <2>2 DEF Answers
<1>9. CASE ~ Booted
  <2>1. From("mouse") = <<Ack>> \o r /\ boot \in 1 .. COMMANDS
    BY <1>1, <1>4, <1>5, <1>9, Ps2Assumption DEF Unread, Awaited
  <2>3. Append(<<Ack>> \o r, b) = <<Ack>> \o Append(r, b)
    BY <1>2, AckType
  <2>4. From("mouse")' = <<Ack>> \o t /\ ~ Booted'
    BY <1>3, <1>5, <1>6, <1>9, <2>1, <2>3 DEF Booted
  <2>5. Awaited(t)'
    <3>1. Ack' = Ack
      BY DEF Ack, MouseByte
    <3> QED
      BY <1>4, <1>5, <2>1, <2>4, <3>1 DEF Awaited
  <2>6. ~ (boot < COMMANDS)'
    BY <1>5, <2>1, Ps2Assumption
  <2>7. Unread(t)'
    BY <1>1, <1>5, <1>6, <1>7, <1>9, <2>4, <2>5, <2>6 DEF Unread
  <2> QED
    BY <2>7 DEF Answers
<1> QED
  BY <1>8, <1>9

\* The decoder of packets is fed.
LEMMA AnswersFed ==
  ASSUME Types, Answers, MouseFed
  PROVE  Answers'
<1>1. PICK r \in Seq(MouseBytes) : Unread(r)
  BY DEF Answers
<1>2. /\ Booted /\ Booted' /\ fifo # <<>> /\ fifo[1] \in MouseBytes /\ fifo' = Tail(fifo)
      /\ dev' = dev /\ mouse_feed_byte(fifo[1])
  BY ReadType DEF MouseFed, AUX, Booted, start_up
<1>3. From("mouse") = <<fifo[1]>> \o From("mouse")'
  BY <1>2, FromRead DEF MouseBytes
<1>4. PICK b \in MouseBytes : b = fifo[1]
  BY <1>2
<1>5. PICK t \in Seq(MouseBytes) : t = From("mouse")'
  BY TypesReader, FromTypeNext
<1>6. Aligned(ps2_pkt, <<b>> \o t, dev.mouse) /\ dev.acks = 0
  BY <1>1, <1>2, <1>3, <1>4, <1>5 DEF Unread
<1>7. dev.mouse \in Numbers /\ ps2_pkt \in Seq(MouseBytes) /\ Len(ps2_pkt) <= 2
  BY TypesNow DEF DevType
<1>8. Aligned(IF Len(ps2_pkt) = 2 THEN <<>> ELSE Append(ps2_pkt, b), t, dev.mouse)
  BY <1>6, <1>7, AlignedFeed
<1>9. Aligned(ps2_pkt', t, dev'.mouse)
  BY <1>2, <1>4, <1>8 DEF mouse_feed_byte
<1>10. Aligned(ps2_pkt, t, dev.mouse)'
  BY <1>9 DEF Aligned, UpTo
<1>11. Unread(t)'
  BY <1>2, <1>5, <1>6, <1>10 DEF Unread
<1> QED
  BY <1>11 DEF Answers

\* The start of the driver.
LEMMA AnswersBoot ==
  ASSUME Types, Answers, BootStep, ~ gave_up'
  PROVE  Answers'
<1>1. PICK r \in Seq(MouseBytes) : Unread(r)
  BY DEF Answers
<1>0. /\ COMMANDS \in Nat \ {0} /\ boot \in 0 .. COMMANDS + 1 /\ dev.acks \in Nat
      /\ From("mouse") \in Seq(MouseBytes)
  BY Ps2Assumption, TypesNow, FromType DEF DevType
<1>a. Ack' = Ack
  BY DEF Ack, MouseByte
<1>2. CASE ps2_send_command
  <2>1. boot = 0 /\ boot' = 1 /\ ~ Booted /\ ~ Booted'
    BY <1>0, <1>2 DEF ps2_send_command, Send, Booted
  <2>2. dev'.acks = dev.acks + 1 /\ dev'.mouse = dev.mouse
    BY <1>0, <1>2, TypesNow DEF ps2_send_command, Send, DevType
  <2>3. /\ dev.acks = 0 /\ From("mouse") = <<>> /\ r = <<>> /\ dev.mouse = 0 /\ ps2_pkt = <<>>
        /\ Aligned(ps2_pkt, r, dev.mouse)
    BY <1>0, <1>1, <2>1 DEF Unread, Awaited
  <2>4. From("mouse")' = From("mouse") /\ ps2_pkt' = ps2_pkt
    BY <1>2, FromBytes DEF ps2_send_command
  <2>5. Awaited(r)'
    BY <1>0, <2>1, <2>2, <2>3, <2>4 DEF Awaited
  <2>6. Aligned(ps2_pkt, r, dev.mouse)'
    BY <2>2, <2>3, <2>4 DEF Aligned, UpTo
  <2>7. Unread(r)'
    BY <2>1, <2>2, <2>3, <2>4, <2>5, <2>6 DEF Unread
  <2> QED
    BY <2>7 DEF Answers
<1>3. CASE ps2_wait_ack
  <2>1. boot \in 1 .. COMMANDS /\ fifo # <<>> /\ fifo' = Tail(fifo) /\ ps2_pkt' = ps2_pkt /\ ~ Booted
    BY <1>0, <1>3 DEF ps2_wait_ack, Read, OBF, Booted
  <2>2. CASE AUX(fifo)
    <3>1. From("mouse") = <<fifo[1]>> \o From("mouse")'
      BY <2>1, <2>2, FromRead, AuxHead
    <3>1a. From("mouse")' \in Seq(MouseBytes)
      BY TypesBoot, FromTypeNext
    <3>1b. fifo[1] \in MouseBytes
      BY <2>1, <2>2, ReadType
    <3>2. From("mouse") # <<>>
      BY <3>1, <3>1a, <3>1b
    <3>3. From("mouse") = <<Ack>> \o r /\ dev.acks = 0
      BY <1>1, <2>1, <3>2 DEF Unread, Awaited
    <3>4. fifo[1] = Ack /\ From("mouse")' = r
      <4> DEFINE t == From("mouse")'
      <4> DEFINE x == fifo[1]
      <4>1. <<x>> \o t = <<Ack>> \o r /\ t \in Seq(MouseBytes) /\ x \in MouseBytes
        BY <3>1, <3>1a, <3>1b, <3>3
      <4> HIDE DEF t, x
      <4>2. x = Ack /\ t = r
        BY <4>1, AckType, SameTail
      <4> QED
        BY <4>2 DEF t, x
    <3>5. Send
      BY <1>3, <2>2, <3>4 DEF ps2_wait_ack, Ack, MouseByte
    <3>6. boot' = boot + 1 /\ dev'.mouse = dev.mouse
          /\ dev'.acks = IF boot < COMMANDS THEN 1 ELSE 0
      BY <1>0, <3>3, <3>5, TypesNow DEF Send, DevType
    <3>7. Aligned(ps2_pkt, r, dev.mouse)'
      BY <1>1, <2>1, <3>6 DEF Unread, Aligned, UpTo
    <3>8. /\ ps2_pkt = <<>> /\ (boot < COMMANDS => r = <<>> /\ dev.mouse = 0)
          /\ (r = <<>> => dev.mouse = 0)
      BY <1>1, <2>1 DEF Unread
    <3>9. CASE boot < COMMANDS
      <4>1. boot' \in 1 .. COMMANDS /\ ~ Booted'
        BY <1>0, <2>1, <3>6, <3>9 DEF Booted
      <4>2. Awaited(r)'
        BY <3>4, <3>6, <3>8, <3>9, <4>1 DEF Awaited
      <4>3. Unread(r)'
        BY <2>1, <3>6, <3>7, <3>8, <3>9, <4>1, <4>2 DEF Unread
      <4> QED
        BY <4>3 DEF Answers
    <3>10. CASE ~ (boot < COMMANDS)
      <4>1. Booted'
        BY <1>0, <2>1, <3>6, <3>10 DEF Booted
      <4>2. Unread(r)'
        BY <3>4, <3>6, <3>7, <3>10, <4>1 DEF Unread
      <4> QED
        BY <4>2 DEF Answers
    <3> QED
      BY <3>9, <3>10
  <2>3. CASE ~ AUX(fifo)
    <3>1. From("mouse")' = From("mouse")
      BY <2>1, <2>3, FromRead, AuxHead
    <3>2. boot' = boot /\ dev' = dev
      BY <1>3, <2>3 DEF ps2_wait_ack
    <3> QED
      BY <2>1, <3>1, <3>2, MouseIdle
  <2> QED
    BY <2>2, <2>3
<1>4. CASE AckTimesOut
  BY <1>4 DEF AckTimesOut
<1> QED
  BY <1>2, <1>3, <1>4 DEF BootStep

\* A key is typed, or a scan code taken: nothing for the mouse.
LEMMA AnswersTyped ==
  ASSUME Types, Answers, Typed
  PROVE  Answers'
<1>1. PICK code \in {"letter", "caps", "shift", "unshift"} : KeyPush(code)
  BY DEF Typed, Letter, CapsLock, ShiftDown, ShiftUp
<1>2. Push(Scan(code)) /\ Scan(code) \in AnyByte /\ Scan(code).src = "key"
  BY <1>1, ScanType DEF KeyPush
<1>3. From("mouse")' = From("mouse")
  <2>1. From("mouse")' = IF Scan(code).src = "mouse" THEN Append(From("mouse"), Scan(code))
                         ELSE From("mouse")
    BY <1>2, FromPushed
  <2> QED
    BY <1>2, <2>1
<1>4. dev'.mouse = dev.mouse /\ dev'.acks = dev.acks
  BY TypesNow DEF Typed, Letter, CapsLock, ShiftDown, ShiftUp, DevType
<1>5. ps2_pkt' = ps2_pkt /\ boot' = boot
  BY <1>2 DEF Push, start_up
<1> QED
  BY <1>3, <1>4, <1>5, MouseIdle

LEMMA AnswersReader ==
  ASSUME Types, Answers, PcOnly \/ MouseFed \/ KeyQueued \/ KeyTaken \/ Spurious
  PROVE  Answers'
<1>1. CASE MouseFed
  BY <1>1, AnswersFed
<1>2. CASE fifo' = fifo /\ ~ MouseFed
  <2>1. From("mouse")' = From("mouse")
    BY <1>2, FromBytes
  <2>2. ps2_pkt' = ps2_pkt /\ boot' = boot /\ dev' = dev
    BY <1>2 DEF PcOnly, KeyQueued, KeyTaken, Spurious, start_up
  <2> QED
    BY <2>1, <2>2, MouseIdle
<1>3. CASE fifo' # fifo /\ ~ MouseFed
  <2>1. fifo # <<>> /\ ~ AUX(fifo) /\ fifo' = Tail(fifo)
    BY <1>3 DEF PcOnly, KeyQueued, KeyTaken, Spurious
  <2>2. From("mouse")' = From("mouse")
    BY <2>1, FromRead, AuxHead
  <2>3. ps2_pkt' = ps2_pkt /\ boot' = boot /\ dev' = dev
    BY <1>3 DEF PcOnly, KeyQueued, KeyTaken, Spurious, start_up
  <2> QED
    BY <2>2, <2>3, MouseIdle
<1> QED
  BY <1>1, <1>2, <1>3

LEMMA MouseStep ==
  ASSUME MouseInv, [Next]_vars
  PROVE  MouseInv'
<1>0. Types /\ Types'
  BY TypesStep DEF MouseInv
<1> SUFFICES ASSUME ~ gave_up' PROVE Answers'
  BY <1>0 DEF MouseInv
<1>1. ~ gave_up
  <2>1. CASE gave_up
    <3>1. gave_up' = gave_up
      <4>1. CASE Typed \/ MouseSends
        BY <4>1 DEF Typed, Letter, CapsLock, ShiftDown, ShiftUp, KeyPush, MouseSends, MouseAck,
                    MouseMoves, Push, start_up
      <4>2. CASE BootStep
        BY <2>1, <4>2 DEF BootStep, ps2_send_command, ps2_wait_ack, AckTimesOut
      <4>3. CASE ps2_mouse_irq_handler \/ \E r \in Readers : Work(r) \/ Calls(r) \/ Wake(r)
        BY <1>0, <4>3, Kinds DEF PcOnly, MouseFed, KeyQueued, KeyTaken, Spurious, start_up
      <4>4. CASE UNCHANGED vars
        BY <4>4 DEF vars, start_up
      <4> QED
        BY <4>1, <4>2, <4>3, <4>4 DEF Next
    <3> QED
      BY <2>1, <3>1
  <2> QED
    BY <2>1
<1>2. Answers
  BY <1>1 DEF MouseInv
<1>3. CASE UNCHANGED vars
  <2>1. fifo' = fifo /\ ps2_pkt' = ps2_pkt /\ boot' = boot /\ dev' = dev
    BY <1>3 DEF vars, start_up, hardware
  <2>2. From("mouse")' = From("mouse")
    BY <2>1, FromBytes
  <2> QED
    BY <1>2, <2>1, <2>2, MouseIdle
<1>4. CASE Typed
  BY <1>0, <1>2, <1>4, AnswersTyped
<1>5. CASE MouseSends
  BY <1>0, <1>2, <1>5, AnswersAck, AnswersMoves DEF MouseSends
<1>6. CASE BootStep
  BY <1>0, <1>2, <1>6, AnswersBoot
<1>7. CASE ps2_mouse_irq_handler \/ \E r \in Readers : Work(r) \/ Calls(r) \/ Wake(r)
  BY <1>0, <1>2, <1>7, Kinds, AnswersReader
<1> QED
  BY <1>3, <1>4, <1>5, <1>6, <1>7 DEF Next

\* At the start.
LEMMA BytesNone == \A src : Bytes(<<>>, src) = <<>>
<1> TAKE src
<1>1. PICK q \in Seq(AnyByte) : q = <<>> /\ Len(q) = 0
  <2>1. <<>> \in Seq(AnyByte) /\ Len(<<>>) = 0
    OBVIOUS
  <2> QED
    BY <2>1, Zenon
<1>2. Among(q, src)[0] = <<>>
  BY AmongAt
<1>3. Bytes(q, src) = <<>>
  BY <1>1, <1>2 DEF Bytes
<1> QED
  BY <1>1, <1>3

LEMMA TypesInit ==
  ASSUME Init
  PROVE  Types
<1>1. dev \in DevType
  BY Ps2Assumption DEF Init, DevType, Numbers
<1>2. /\ fifo \in Seq(AnyByte) /\ ps2_buffer \in Seq(KeyBytes) /\ ps2_pkt \in Seq(MouseBytes)
      /\ Len(fifo) = 0 /\ Len(ps2_buffer) = 0 /\ Len(ps2_pkt) = 0 /\ DOMAIN ps2_buffer = {}
  BY DEF Init
<1>3. /\ pc \in [Readers -> {"user", "ring", "halt", "woken", "drain", "poll"}]
      /\ dev.shift \subseteq Shifts
  BY DEF Init
<1>4. /\ boot \in 0 .. COMMANDS + 1 /\ burst \in 0 .. BURST /\ taken \in 0 .. SERIALS - 1
      /\ 0 <= FIFO /\ 0 < PS2_BUFFER_SIZE
  BY Ps2Assumption DEF Init
<1>5. irq12 \in BOOLEAN /\ gave_up \in BOOLEAN
  BY DEF Init
<1>6. TypeOK
  BY <1>2, <1>3, <1>4, <1>5 DEF TypeOK
<1> QED
  BY <1>1, <1>2, <1>6 DEF Init, Types

LEMMA MouseInit ==
  ASSUME Init
  PROVE  MouseInv
<1>1. From("mouse") = <<>>
  BY BytesNone, FromBytes DEF Init
<1>2. ~ Booted /\ boot = 0 /\ boot < COMMANDS
  BY Ps2Assumption DEF Init, Booted
<1>3. dev.acks = 0 /\ dev.mouse = 0 /\ ps2_pkt = <<>>
  BY DEF Init
<1>4. Awaited(<<>>)
  BY <1>1, <1>2, <1>3 DEF Awaited
<1>5. Unread(<<>>)
  BY <1>2, <1>3, <1>4, AlignedEmpty DEF Unread
<1>6. <<>> \in Seq(MouseBytes)
  OBVIOUS
<1>7. Answers
  BY <1>5, <1>6 DEF Answers
<1> QED
  BY <1>7, TypesInit DEF MouseInv

LEMMA MouseGoal ==
  ASSUME MouseInv
  PROVE  MouseAligned
<1>0. Types /\ TypeOK
  BY DEF MouseInv, Types
<1> SUFFICES ASSUME Booted, ~ gave_up
             PROVE  LET s == ps2_pkt \o From("mouse")
                    IN  /\ \A i \in DOMAIN s : s[i].src = "mouse" /\ ~ s[i].ack
                        /\ UpTo(s, dev.mouse)
                        /\ s # <<>> => s[1].n % 3 = 0 \/ ps2_pkt = <<>>
                        /\ (dev.mouse - Len(From("mouse"))) % 3 = Len(ps2_pkt)
  BY <1>0 DEF MouseAligned
<1>1. PICK r \in Seq(MouseBytes) : Unread(r)
  BY DEF MouseInv, Answers
<1>2. From("mouse") = r /\ Aligned(ps2_pkt, r, dev.mouse) /\ ps2_pkt \in Seq(MouseBytes)
  BY <1>0, <1>1, TypesNow DEF Unread
<1>3. \A i \in DOMAIN (ps2_pkt \o r) : (ps2_pkt \o r)[i].src = "mouse"
  <2> DEFINE s == ps2_pkt \o r
  <2>1. s \in Seq(MouseBytes)
    BY <1>2
  <2> HIDE DEF s
  <2>2. \A i \in DOMAIN s : s[i] \in MouseBytes
    BY <2>1
  <2> QED
    BY <2>2 DEF s, MouseBytes
<1>4. ps2_pkt # <<>> => (ps2_pkt \o r)[1].n % 3 = 0
  <2>1. ASSUME ps2_pkt # <<>> PROVE (ps2_pkt \o r)[1] = ps2_pkt[1]
    BY <1>2, <2>1
  <2> QED
    BY <1>2, <2>1 DEF Aligned
<1> QED
  BY <1>2, <1>3, <1>4 DEF Aligned

\* The packet decoder holds every byte of the mouse, in order and nothing else, in step
\* with the mouse's packets, for any number of readers and any buffers.
THEOREM MouseAlwaysAligned == Spec => []MouseAligned
<1>1. Init => MouseInv
  BY MouseInit
<1>2. MouseInv /\ [Next]_vars => MouseInv'
  BY MouseStep
<1>3. MouseInv => MouseAligned
  BY MouseGoal
<1> QED
  BY <1>1, <1>2, <1>3, PTL DEF Spec

--------------------------------------------------------------------------------
(* The keyboard. *)

LEMMA PendingType ==
  ASSUME Types
  PROVE  Pending \in Seq(KeyBytes) /\ Len(Pending) \in Nat
<1>1. ps2_buffer \in Seq(KeyBytes) /\ From("key") \in Seq(KeyBytes)
  BY TypesNow, FromType
<1> QED
  BY <1>1 DEF Pending

\* The scan codes on their way after a step.
LEMMA PendingTyped ==
  ASSUME Types, NEW b \in KeyBytes, Push(b), b.src = "key"
  PROVE  Pending' = Append(Pending, b)
<1>1. From("key")' = Append(From("key"), b) /\ ps2_buffer' = ps2_buffer
  BY FromPushed DEF Push, AnyByte
<1>2. ps2_buffer \in Seq(KeyBytes) /\ From("key") \in Seq(KeyBytes)
  BY TypesNow, FromType
<1> DEFINE f == From("key")
<1> HIDE DEF f
<1>3. ps2_buffer \o Append(f, b) = Append(ps2_buffer \o f, b)
  BY <1>2 DEF f
<1> QED
  BY <1>1, <1>3 DEF Pending, f

LEMMA PendingQueued ==
  ASSUME Types, KeyQueued, ~ Full
  PROVE  Pending' = Pending
<1>1. /\ ps2_buffer' = Append(ps2_buffer, fifo[1])
      /\ fifo # <<>> /\ fifo' = Tail(fifo) /\ ~ AUX(fifo)
  BY DEF KeyQueued, Enqueue
<1>2. From("key") = <<fifo[1]>> \o From("key")' /\ fifo[1] \in KeyBytes
  BY <1>1, FromRead, AuxHead, ReadType
<1>3. ps2_buffer \in Seq(KeyBytes) /\ From("key")' \in Seq(KeyBytes)
  BY TypesNow, TypesReader, FromTypeNext
<1> DEFINE f == From("key")'
<1> DEFINE x == fifo[1]
<1>3a. f \in Seq(KeyBytes) /\ x \in KeyBytes
  BY <1>2, <1>3
<1> HIDE DEF f, x
<1>4. Append(ps2_buffer, x) \o f = ps2_buffer \o (<<x>> \o f)
  BY <1>3, <1>3a
<1> QED
  BY <1>1, <1>2, <1>4 DEF Pending, f, x

LEMMA PendingTaken ==
  ASSUME Types, KeyTaken
  PROVE  \E x \in KeyBytes : Pending = <<x>> \o Pending' /\ ps2_scancode_to_ascii(x)
<1>0. ps2_buffer \in Seq(KeyBytes) /\ From("key") \in Seq(KeyBytes)
      /\ From("key")' \in Seq(KeyBytes)
  BY TypesNow, FromType, TypesReader, FromTypeNext
<1>1. CASE ps2_buffer # <<>>
  <2>1. /\ ps2_buffer' = Tail(ps2_buffer) /\ From("key")' = From("key")
        /\ ps2_scancode_to_ascii(ps2_buffer[1])
    BY <1>1, FromBytes DEF KeyTaken
  <2>2. ps2_buffer[1] \in KeyBytes /\ Tail(ps2_buffer) \in Seq(KeyBytes)
        /\ ps2_buffer = <<ps2_buffer[1]>> \o Tail(ps2_buffer)
    BY <1>0, <1>1
  <2> DEFINE f == From("key")
  <2> DEFINE x == ps2_buffer[1]
  <2> DEFINE t == Tail(ps2_buffer)
  <2> HIDE DEF f, x, t
  <2>3. (<<x>> \o t) \o f = <<x>> \o (t \o f)
    BY <1>0, <2>2 DEF f, x, t
  <2>4. Pending = <<x>> \o Pending'
    BY <2>1, <2>2, <2>3 DEF Pending, f, x, t
  <2> QED
    BY <2>1, <2>2, <2>4 DEF x
<1>2. CASE ps2_buffer = <<>>
  <2>1. /\ fifo # <<>> /\ ~ AUX(fifo) /\ fifo' = Tail(fifo) /\ ps2_buffer' = ps2_buffer
        /\ ps2_scancode_to_ascii(fifo[1])
    BY <1>2 DEF KeyTaken
  <2>2. From("key") = <<fifo[1]>> \o From("key")' /\ fifo[1] \in KeyBytes
    BY <2>1, FromRead, AuxHead, ReadType
  <2>3. Pending = From("key") /\ Pending' = From("key")'
    <3>1. \A s \in Seq(KeyBytes) : <<>> \o s = s
      OBVIOUS
    <3> QED
      BY <1>0, <1>2, <2>1, <3>1 DEF Pending
  <2> QED
    BY <2>1, <2>2, <2>3
<1> QED
  BY <1>1, <1>2

LEMMA KeyIdle ==
  ASSUME Translated, Pending' = Pending, UNCHANGED decoder,
         dev'.key = dev.key, dev'.shift = dev.shift, dev'.caps = dev.caps
  PROVE  Translated'
<1>1. UpTo(Pending, dev.key)' /\ (taken = (dev.key - Len(Pending)) % SERIALS)' /\ ~ wrong'
  BY DEF Translated, UpTo, decoder
<1>2. Explained(Pending', shift_pressed', caps_lock', dev'.shift # {}, dev'.caps)
  BY DEF Translated, decoder
<1>3. Explained(Pending, shift_pressed, caps_lock, dev.shift # {}, dev.caps)'
  BY <1>2 DEF Explained, Traced
<1> QED
  BY <1>1, <1>3 DEF Translated

\* What a scan code does to the state of a decoder.
ShiftBy(x, on) == IF x.code = "shift" THEN TRUE ELSE IF x.code = "unshift" THEN FALSE ELSE on
CapsBy(x, on) == on # (x.code = "caps")

\* One scan code more.
LEMMA ExplainedAppend ==
  ASSUME NEW s \in Seq(KeyBytes), NEW b \in KeyBytes,
         NEW sh0 \in BOOLEAN, NEW cp0 \in BOOLEAN, NEW sh1 \in BOOLEAN, NEW cp1 \in BOOLEAN,
         Explained(s, sh0, cp0, sh1, cp1),
         b.code = "letter" => b.upper = (sh1 # cp1)
  PROVE  Explained(Append(s, b), sh0, cp0, ShiftBy(b, sh1), CapsBy(b, cp1))
<1> DEFINE t == Append(s, b)
<1> DEFINE n == Len(s)
<1>1. /\ n \in Nat /\ t \in Seq(KeyBytes) /\ Len(t) = n + 1 /\ t[n + 1] = b
      /\ \A i \in 1 .. n : t[i] = s[i]
  OBVIOUS
<1>2. PICK sh \in [0 .. n -> BOOLEAN], cp \in [0 .. n -> BOOLEAN] :
        /\ Traced(s, sh, cp)
        /\ sh[0] = sh0 /\ cp[0] = cp0 /\ sh[n] = sh1 /\ cp[n] = cp1
  BY DEF Explained
<1> DEFINE sh2 == ShiftBy(b, sh1)
<1> DEFINE cp2 == CapsBy(b, cp1)
<1>3. sh2 \in BOOLEAN /\ cp2 \in BOOLEAN
  BY DEF ShiftBy, CapsBy
<1> DEFINE shs == [i \in 0 .. n + 1 |-> IF i = n + 1 THEN sh2 ELSE sh[i]]
<1> DEFINE cps == [i \in 0 .. n + 1 |-> IF i = n + 1 THEN cp2 ELSE cp[i]]
<1> HIDE DEF t, n, sh2, cp2
<1>4. shs \in [0 .. n + 1 -> BOOLEAN] /\ cps \in [0 .. n + 1 -> BOOLEAN]
  <2>1. \A i \in 0 .. n + 1 : i # n + 1 => i \in 0 .. n
    BY <1>1
  <2> QED
    BY <1>3, <2>1
<1>5. /\ shs[n + 1] = sh2 /\ cps[n + 1] = cp2
      /\ \A i \in 0 .. n : shs[i] = sh[i] /\ cps[i] = cp[i]
  BY <1>1
<1> HIDE DEF shs, cps
<1>6. Traced(t, shs, cps)
  <2> SUFFICES ASSUME NEW i \in 1 .. n + 1
               PROVE  /\ shs[i] = ShiftBy(t[i], shs[i - 1])
                      /\ cps[i] = CapsBy(t[i], cps[i - 1])
                      /\ t[i].code = "letter" => t[i].upper = (shs[i - 1] # cps[i - 1])
    BY <1>1 DEF Traced, ShiftBy, CapsBy
  <2>0. i - 1 \in 0 .. n
    BY <1>1
  <2>1. CASE i = n + 1
    <3>1. i - 1 = n /\ t[i] = b
      BY <1>1, <2>1
    <3>2. shs[i - 1] = sh1 /\ cps[i - 1] = cp1
      BY <1>2, <1>5, <2>0, <3>1
    <3> QED
      BY <1>5, <2>1, <3>1, <3>2 DEF sh2, cp2
  <2>2. CASE i # n + 1
    <3>1. i \in 1 .. n /\ i \in 0 .. n
      BY <1>1, <2>2
    <3>2. /\ sh[i] = ShiftBy(s[i], sh[i - 1]) /\ cp[i] = CapsBy(s[i], cp[i - 1])
          /\ s[i].code = "letter" => s[i].upper = (sh[i - 1] # cp[i - 1])
      BY <1>2, <3>1 DEF Traced, ShiftBy, CapsBy, n
    <3> QED
      BY <1>1, <1>5, <2>0, <3>1, <3>2
  <2> QED
    BY <2>1, <2>2
<1>7. shs[0] = sh0 /\ cps[0] = cp0
  <2>1. 0 \in 0 .. n
    BY <1>1
  <2> QED
    BY <1>2, <1>5, <2>1
<1>8. shs \in [0 .. Len(t) -> BOOLEAN] /\ cps \in [0 .. Len(t) -> BOOLEAN]
      /\ shs[Len(t)] = sh2 /\ cps[Len(t)] = cp2
  BY <1>1, <1>4, <1>5
<1>9. Explained(t, sh0, cp0, sh2, cp2)
  BY <1>6, <1>7, <1>8 DEF Explained
<1> QED
  BY <1>9 DEF t, sh2, cp2

\* One scan code less.
LEMMA ExplainedTail ==
  ASSUME NEW s \in Seq(KeyBytes), NEW x \in KeyBytes,
         NEW sh0 \in BOOLEAN, NEW cp0 \in BOOLEAN, NEW sh1 \in BOOLEAN, NEW cp1 \in BOOLEAN,
         Explained(<<x>> \o s, sh0, cp0, sh1, cp1)
  PROVE  /\ Explained(s, ShiftBy(x, sh0), CapsBy(x, cp0), sh1, cp1)
         /\ x.code = "letter" => x.upper = (sh0 # cp0)
<1> DEFINE t == <<x>> \o s
<1> DEFINE n == Len(s)
<1>1. /\ n \in Nat /\ t \in Seq(KeyBytes) /\ Len(t) = n + 1 /\ t[1] = x
      /\ \A i \in 1 .. n : t[i + 1] = s[i]
  OBVIOUS
<1>2. PICK sh \in [0 .. n + 1 -> BOOLEAN], cp \in [0 .. n + 1 -> BOOLEAN] :
        /\ Traced(t, sh, cp)
        /\ sh[0] = sh0 /\ cp[0] = cp0 /\ sh[n + 1] = sh1 /\ cp[n + 1] = cp1
  BY <1>1 DEF Explained
<1> HIDE DEF t, n
<1>3. \A i \in 1 .. n + 1 :
        /\ sh[i] = ShiftBy(t[i], sh[i - 1]) /\ cp[i] = CapsBy(t[i], cp[i - 1])
        /\ t[i].code = "letter" => t[i].upper = (sh[i - 1] # cp[i - 1])
  BY <1>1, <1>2 DEF Traced, ShiftBy, CapsBy
<1> DEFINE shs == [i \in 0 .. n |-> sh[i + 1]]
<1> DEFINE cps == [i \in 0 .. n |-> cp[i + 1]]
<1>4. \A i \in 0 .. n : i + 1 \in 0 .. n + 1
  BY <1>1
<1>5. shs \in [0 .. n -> BOOLEAN] /\ cps \in [0 .. n -> BOOLEAN]
  BY <1>4
<1>6. \A i \in 0 .. n : shs[i] = sh[i + 1] /\ cps[i] = cp[i + 1]
  OBVIOUS
<1> HIDE DEF shs, cps
<1>7. Traced(s, shs, cps)
  <2> SUFFICES ASSUME NEW i \in 1 .. n
               PROVE  /\ shs[i] = ShiftBy(s[i], shs[i - 1])
                      /\ cps[i] = CapsBy(s[i], cps[i - 1])
                      /\ s[i].code = "letter" => s[i].upper = (shs[i - 1] # cps[i - 1])
    BY DEF Traced, ShiftBy, CapsBy, n
  <2>1. i \in 0 .. n /\ i - 1 \in 0 .. n /\ (i - 1) + 1 = i /\ i + 1 \in 1 .. n + 1 /\ (i + 1) - 1 = i
    BY <1>1
  <2>2. shs[i] = sh[i + 1] /\ cps[i] = cp[i + 1] /\ shs[i - 1] = sh[i] /\ cps[i - 1] = cp[i]
        /\ t[i + 1] = s[i]
    BY <1>1, <1>6, <2>1
  <2>3. /\ sh[i + 1] = ShiftBy(t[i + 1], sh[i]) /\ cp[i + 1] = CapsBy(t[i + 1], cp[i])
        /\ t[i + 1].code = "letter" => t[i + 1].upper = (sh[i] # cp[i])
    BY <1>3, <2>1
  <2> QED
    BY <2>2, <2>3
<1>8. 1 \in 1 .. n + 1 /\ 0 \in 0 .. n /\ n \in 0 .. n /\ 1 - 1 = 0 /\ 0 + 1 = 1
  BY <1>1
<1>9. /\ sh[1] = ShiftBy(x, sh0) /\ cp[1] = CapsBy(x, cp0)
      /\ x.code = "letter" => x.upper = (sh0 # cp0)
  BY <1>1, <1>2, <1>3, <1>8
<1>10. shs[0] = ShiftBy(x, sh0) /\ cps[0] = CapsBy(x, cp0) /\ shs[n] = sh1 /\ cps[n] = cp1
  BY <1>2, <1>6, <1>8, <1>9
<1>11. Explained(s, ShiftBy(x, sh0), CapsBy(x, cp0), sh1, cp1)
  BY <1>5, <1>7, <1>10 DEF Explained, n
<1> QED
  BY <1>9, <1>11

\* The driver has one flag for both Shift keys: with two in use, letting go of
\* one while the other is held makes the flag wrong.
OneShift == \A a, b \in Shifts : a = b

\* A key is typed.
LEMMA TranslatedTyped ==
  ASSUME OneShift, Types, Translated, Typed
  PROVE  Translated'
<1>0. /\ dev \in DevType /\ dev.key \in Numbers /\ dev.caps \in BOOLEAN /\ dev.shift \subseteq Shifts
      /\ shift_pressed \in BOOLEAN /\ caps_lock \in BOOLEAN
  BY TypesNow DEF DevType
<1>1. PICK code \in {"letter", "caps", "shift", "unshift"} :
        /\ KeyPush(code) /\ dev'.key = Succ(dev.key)
        /\ dev'.caps = (dev.caps # (code = "caps"))
        /\ (dev'.shift # {}) = IF code = "shift" THEN TRUE
                               ELSE IF code = "unshift" THEN FALSE ELSE dev.shift # {}
  <2>1. CASE Letter
    <3>1. KeyPush("letter") /\ dev'.key = Succ(dev.key) /\ dev'.caps = dev.caps /\ dev'.shift = dev.shift
      BY <1>0, <2>1 DEF Letter, DevType
    <3>2. dev'.caps = (dev.caps # ("letter" = "caps"))
      BY <1>0, <3>1
    <3> QED
      BY <3>1, <3>2
  <2>2. CASE CapsLock
    <3>1. KeyPush("caps") /\ dev'.key = Succ(dev.key) /\ dev'.caps = ~ dev.caps /\ dev'.shift = dev.shift
      BY <1>0, <2>2 DEF CapsLock, DevType
    <3>2. dev'.caps = (dev.caps # ("caps" = "caps"))
      BY <1>0, <3>1
    <3> QED
      BY <3>1, <3>2
  <2>3. ASSUME NEW k \in Shifts, ShiftDown(k)
        PROVE  /\ KeyPush("shift") /\ dev'.key = Succ(dev.key)
               /\ dev'.caps = (dev.caps # ("shift" = "caps")) /\ dev'.shift # {}
    <3>1. /\ KeyPush("shift") /\ dev'.key = Succ(dev.key) /\ dev'.caps = dev.caps
          /\ dev'.shift = dev.shift \cup {k}
      BY <1>0, <2>3 DEF ShiftDown, DevType
    <3>2. dev'.caps = (dev.caps # ("shift" = "caps"))
      BY <1>0, <3>1
    <3> QED
      BY <3>1, <3>2
  <2>4. ASSUME NEW k \in Shifts, ShiftUp(k)
        PROVE  /\ KeyPush("unshift") /\ dev'.key = Succ(dev.key)
               /\ dev'.caps = (dev.caps # ("unshift" = "caps")) /\ dev'.shift = {}
    <3>1. /\ KeyPush("unshift") /\ dev'.key = Succ(dev.key) /\ dev'.caps = dev.caps
          /\ dev'.shift = dev.shift \ {k}
      BY <1>0, <2>4 DEF ShiftUp, DevType
    <3>2. dev'.caps = (dev.caps # ("unshift" = "caps"))
      BY <1>0, <3>1
    <3>3. dev'.shift = {}
      BY <1>0, <3>1 DEF OneShift
    <3> QED
      BY <3>1, <3>2, <3>3
  <2>5. CASE \E k \in Shifts : ShiftDown(k)
    BY <2>3, <2>5
  <2>6. CASE \E k \in Shifts : ShiftUp(k)
    BY <2>4, <2>6
  <2> QED
    BY <2>1, <2>2, <2>5, <2>6 DEF Typed
<1>2. PICK b \in KeyBytes : b = Scan(code) /\ b.src = "key" /\ b.n = dev.key /\ b.code = code
                            /\ (code = "letter" => b.upper = ((dev.shift # {}) # dev.caps))
  <2>1. Scan(code) \in KeyBytes /\ Scan(code).src = "key" /\ Scan(code).n = dev.key
        /\ Scan(code).code = code
    BY ScanType DEF Scan
  <2>2. code = "letter" => Scan(code).upper = ((dev.shift # {}) # dev.caps)
    BY <1>0 DEF Scan
  <2> QED
    BY <2>1, <2>2
<1>3. Push(b) /\ UNCHANGED decoder
  BY <1>1, <1>2 DEF KeyPush, Push
<1>4. PICK p \in Seq(KeyBytes) : p = Pending
  BY PendingType
<1>5. Pending' = Append(p, b)
  BY <1>2, <1>3, <1>4, PendingTyped
<1>6. UpTo(Append(p, b), Succ(dev.key))
  BY <1>0, <1>2, <1>4, UpToAppend DEF Translated
<1>7. (Succ(dev.key) - Len(Append(p, b))) % SERIALS = (dev.key - Len(p)) % SERIALS
  <2> DEFINE m == dev.key
  <2> DEFINE c == - (Len(p) + 1)
  <2>1. m + 1 \in Int /\ m \in Int
    BY <1>0 DEF Numbers
  <2>2. Len(p) \in Nat /\ c \in Int /\ Len(Append(p, b)) = Len(p) + 1
    OBVIOUS
  <2> HIDE DEF m
  <2>3. (((m + 1) % SERIALS) + c) % SERIALS = ((m + 1) + c) % SERIALS
    BY <2>1, <2>2, Ps2Assumption, ModSum
  <2>4. (m + 1) % SERIALS \in Int
    BY <2>1, Ps2Assumption
  <2>5. /\ ((m + 1) % SERIALS) - (Len(p) + 1) = ((m + 1) % SERIALS) + c
        /\ (m + 1) + c = m - Len(p)
    BY <2>1, <2>2, <2>4
  <2> QED
    BY <2>2, <2>3, <2>5 DEF Succ, m
<1>8. Explained(Append(p, b), shift_pressed, caps_lock, dev'.shift # {}, dev'.caps)
  <2>1. PICK sh1 \in BOOLEAN : sh1 = (dev.shift # {})
    OBVIOUS
  <2>2. Explained(p, shift_pressed, caps_lock, sh1, dev.caps)
    BY <1>4, <2>1 DEF Translated
  <2>3. b.code = "letter" => b.upper = (sh1 # dev.caps)
    BY <1>2, <2>1
  <2>4. Explained(Append(p, b), shift_pressed, caps_lock, ShiftBy(b, sh1), CapsBy(b, dev.caps))
    BY <1>0, <2>2, <2>3, ExplainedAppend
  <2>5. ShiftBy(b, sh1) = (dev'.shift # {}) /\ CapsBy(b, dev.caps) = dev'.caps
    BY <1>1, <1>2, <2>1 DEF ShiftBy, CapsBy
  <2> QED
    BY <2>4, <2>5
<1>9. UpTo(Pending, dev.key)' /\ (taken = (dev.key - Len(Pending)) % SERIALS)' /\ ~ wrong'
  <2>1. UpTo(Pending', dev'.key)
    BY <1>1, <1>5, <1>6
  <2>2. taken' = (dev'.key - Len(Pending')) % SERIALS
    BY <1>1, <1>3, <1>4, <1>5, <1>7 DEF Translated, decoder
  <2> QED
    BY <1>3, <2>1, <2>2 DEF UpTo, Translated, decoder
<1>10. Explained(Pending, shift_pressed, caps_lock, dev.shift # {}, dev.caps)'
  <2>1. Explained(Pending', shift_pressed', caps_lock', dev'.shift # {}, dev'.caps)
    BY <1>3, <1>5, <1>8 DEF decoder
  <2> QED
    BY <2>1 DEF Explained, Traced
<1> QED
  BY <1>9, <1>10 DEF Translated

\* A scan code is translated.
LEMMA TranslatedTaken ==
  ASSUME Types, Translated, KeyTaken
  PROVE  Translated'
<1>0. /\ dev' = dev /\ dev.key \in Numbers /\ dev.caps \in BOOLEAN
      /\ shift_pressed \in BOOLEAN /\ caps_lock \in BOOLEAN /\ wrong = FALSE
  BY TypesNow DEF DevType, KeyTaken, Translated
<1>1. PICK x \in KeyBytes : Pending = <<x>> \o Pending' /\ ps2_scancode_to_ascii(x)
  BY PendingTaken
<1>2. PICK p \in Seq(KeyBytes) : p = Pending'
  <2>1. Types'
    BY TypesReader
  <2>2. From("key")' \in Seq(KeyBytes) /\ ps2_buffer' \in Seq(KeyBytes)
    BY <2>1, FromTypeNext DEF Types
  <2> DEFINE f == From("key")'
  <2> DEFINE q == ps2_buffer'
  <2>3. f \in Seq(KeyBytes) /\ q \in Seq(KeyBytes)
    BY <2>2
  <2> HIDE DEF f, q
  <2>4. q \o f \in Seq(KeyBytes)
    BY <2>3
  <2> QED
    BY <2>4 DEF f, q, Pending
<1>3. Pending = <<x>> \o p
  BY <1>1, <1>2
<1>4. <<x>> \in Seq(KeyBytes) /\ UpTo(<<x>> \o p, dev.key)
  BY <1>3 DEF Translated
<1>5. UpTo(p, dev.key)
  BY <1>4, UpToSuffix
<1>6. x.n = (dev.key - Len(p) - 1) % SERIALS
  BY <1>0, <1>4, UpToHead
<1>7. Succ(x.n) = (dev.key - Len(p)) % SERIALS
  <2> DEFINE c == dev.key - Len(p) - 1
  <2>1. c \in Int /\ c + 1 = dev.key - Len(p)
    BY <1>0 DEF Numbers
  <2> HIDE DEF c
  <2>2. ((c % SERIALS) + 1) % SERIALS = (c + 1) % SERIALS
    <3>1. PICK d \in Int : d = 1
      OBVIOUS
    <3>2. ((c % SERIALS) + d) % SERIALS = (c + d) % SERIALS
      BY <2>1, Ps2Assumption, ModSum
    <3> QED
      BY <3>1, <3>2
  <2>3. x.n = c % SERIALS
    BY <1>6 DEF c
  <2> QED
    BY <2>1, <2>2, <2>3 DEF Succ
<1>8. PICK sh1 \in BOOLEAN : sh1 = (dev.shift # {})
  OBVIOUS
<1>9. Explained(<<x>> \o p, shift_pressed, caps_lock, sh1, dev.caps)
  BY <1>3, <1>8 DEF Translated
<1>10. /\ Explained(p, ShiftBy(x, shift_pressed), CapsBy(x, caps_lock), sh1, dev.caps)
       /\ x.code = "letter" => x.upper = (shift_pressed # caps_lock)
  BY <1>0, <1>9, ExplainedTail
<1>11. shift_pressed' = ShiftBy(x, shift_pressed) /\ caps_lock' = CapsBy(x, caps_lock)
  BY <1>1 DEF ps2_scancode_to_ascii, ShiftBy, CapsBy
<1>12. ~ wrong'
  BY <1>0, <1>1, <1>10 DEF ps2_scancode_to_ascii
<1>13. taken' = (dev'.key - Len(Pending')) % SERIALS
  BY <1>0, <1>1, <1>2, <1>7 DEF ps2_scancode_to_ascii
<1>14. Explained(Pending', shift_pressed', caps_lock', dev'.shift # {}, dev'.caps)
  BY <1>0, <1>2, <1>8, <1>10, <1>11
<1>15. Explained(Pending, shift_pressed, caps_lock, dev.shift # {}, dev.caps)'
  BY <1>14 DEF Explained, Traced
<1>16. UpTo(Pending', dev'.key)
  BY <1>0, <1>2, <1>5
<1>17. UpTo(Pending, dev.key)'
  BY <1>16 DEF UpTo
<1> QED
  BY <1>12, <1>13, <1>15, <1>17 DEF Translated

LEMMA TranslatedReader ==
  ASSUME Types, Translated, ~ lost', PcOnly \/ MouseFed \/ KeyQueued \/ KeyTaken \/ Spurious
  PROVE  Translated'
<1>1. CASE KeyTaken
  BY <1>1, TranslatedTaken
<1>2. CASE KeyQueued
  <2>1. ~ Full
    BY <1>2 DEF KeyQueued, Enqueue
  <2>2. Pending' = Pending /\ dev' = dev /\ UNCHANGED decoder
    BY <1>2, <2>1, PendingQueued DEF KeyQueued
  <2> QED
    BY <2>2, KeyIdle
<1>3. CASE PcOnly \/ Spurious
  <2>1. fifo' = fifo /\ ps2_buffer' = ps2_buffer /\ dev' = dev /\ UNCHANGED decoder
    BY <1>3 DEF PcOnly, Spurious
  <2>2. Pending' = Pending
    BY <2>1, FromBytes DEF Pending
  <2> QED
    BY <2>1, <2>2, KeyIdle
<1>4. CASE MouseFed
  <2>1. fifo # <<>> /\ fifo' = Tail(fifo) /\ ps2_buffer' = ps2_buffer /\ dev' = dev /\ UNCHANGED decoder
    BY <1>4 DEF MouseFed, AUX
  <2>2. From("key")' = From("key")
    BY <1>4, <2>1, FromRead, AuxHead DEF MouseFed
  <2>3. Pending' = Pending
    BY <2>1, <2>2 DEF Pending
  <2> QED
    BY <2>1, <2>3, KeyIdle
<1> QED
  BY <1>1, <1>2, <1>3, <1>4

LEMMA TranslatedMouse ==
  ASSUME Types, Translated, MouseSends
  PROVE  Translated'
<1>1. PICK b \in MouseBytes : Push(b)
  <2>1. 0 \in Numbers /\ dev.mouse \in Numbers
    BY TypesNow, Ps2Assumption DEF DevType, Numbers
  <2>2. MouseByte(0, TRUE) \in MouseBytes /\ MouseByte(dev.mouse, FALSE) \in MouseBytes
    BY <2>1, MouseByteType
  <2> QED
    BY <2>2 DEF MouseSends, MouseAck, MouseMoves
<1>2. b \in AnyByte /\ b.src = "mouse"
  BY DEF AnyByte, MouseBytes
<1>3. From("key")' = From("key")
  BY <1>1, <1>2, FromPushed
<1>4. dev'.key = dev.key /\ dev'.shift = dev.shift /\ dev'.caps = dev.caps
  BY TypesNow DEF MouseSends, MouseAck, MouseMoves, DevType
<1>5. Pending' = Pending /\ UNCHANGED decoder
  BY <1>1, <1>3 DEF Pending, Push
<1> QED
  BY <1>4, <1>5, KeyIdle

LEMMA TranslatedBoot ==
  ASSUME Types, Translated, ~ lost', BootStep
  PROVE  Translated'
<1>1. dev'.key = dev.key /\ dev'.shift = dev.shift /\ dev'.caps = dev.caps
      /\ ps2_buffer' = ps2_buffer /\ UNCHANGED decoder
  BY TypesNow DEF BootStep, ps2_send_command, ps2_wait_ack, AckTimesOut, Send, DevType
<1>2. CASE ps2_wait_ack
  <2>1. fifo # <<>> /\ fifo' = Tail(fifo) /\ AUX(fifo)
    BY <1>2 DEF ps2_wait_ack, Read, OBF
  <2>2. From("key")' = From("key")
    BY <2>1, FromRead, AuxHead
  <2>3. Pending' = Pending
    BY <1>1, <2>2 DEF Pending
  <2> QED
    BY <1>1, <2>3, KeyIdle
<1>3. CASE ~ ps2_wait_ack
  <2>1. fifo' = fifo
    BY <1>3 DEF BootStep, ps2_send_command, AckTimesOut
  <2>2. Pending' = Pending
    BY <1>1, <2>1, FromBytes DEF Pending
  <2> QED
    BY <1>1, <2>2, KeyIdle
<1> QED
  BY <1>2, <1>3

LEMMA KeyStep ==
  ASSUME OneShift, KeyInv, [Next]_vars
  PROVE  KeyInv'
<1>0. Types /\ Types'
  BY TypesStep DEF KeyInv
<1> SUFFICES ASSUME ~ lost' PROVE Translated'
  BY <1>0 DEF KeyInv
<1>1. ~ lost
  <2> SUFFICES ASSUME lost PROVE lost'
    OBVIOUS
  <2>1. CASE Typed \/ MouseSends
    BY <2>1 DEF Typed, Letter, CapsLock, ShiftDown, ShiftUp, KeyPush, MouseSends, MouseAck,
                MouseMoves, Push
  <2>2. CASE BootStep
    BY <2>2 DEF BootStep, ps2_send_command, ps2_wait_ack, AckTimesOut
  <2>3. CASE ps2_mouse_irq_handler \/ \E r \in Readers : Work(r) \/ Calls(r) \/ Wake(r)
    BY <1>0, <2>3, Kinds DEF PcOnly, MouseFed, KeyQueued, KeyTaken, Spurious, Enqueue
  <2>4. CASE UNCHANGED vars
    BY <2>4 DEF vars
  <2> QED
    BY <2>1, <2>2, <2>3, <2>4 DEF Next
<1>2. Translated
  BY <1>1 DEF KeyInv
<1>3. CASE UNCHANGED vars
  <2>1. fifo' = fifo /\ ps2_buffer' = ps2_buffer /\ dev' = dev /\ UNCHANGED decoder
    BY <1>3 DEF vars, hardware, decoder
  <2>2. Pending' = Pending
    BY <2>1, FromBytes DEF Pending
  <2> QED
    BY <1>2, <2>1, <2>2, KeyIdle
<1>4. CASE Typed
  BY <1>0, <1>2, <1>4, TranslatedTyped
<1>5. CASE MouseSends
  BY <1>0, <1>2, <1>5, TranslatedMouse
<1>6. CASE BootStep
  BY <1>0, <1>2, <1>6, TranslatedBoot
<1>7. CASE ps2_mouse_irq_handler \/ \E r \in Readers : Work(r) \/ Calls(r) \/ Wake(r)
  BY <1>0, <1>2, <1>7, Kinds, TranslatedReader
<1> QED
  BY <1>3, <1>4, <1>5, <1>6, <1>7 DEF Next

LEMMA KeyInit ==
  ASSUME Init
  PROVE  KeyInv
<1>1. From("key") = <<>> /\ ps2_buffer = <<>>
  BY BytesNone, FromBytes DEF Init
<1>2. Pending = <<>>
  <2>1. <<>> \o <<>> = <<>>
    OBVIOUS
  <2> QED
    BY <1>1, <2>1 DEF Pending
<1>3. Len(<<>>) = 0 /\ DOMAIN <<>> = {}
  OBVIOUS
<1>4. dev.key = 0 /\ dev.shift = {} /\ dev.caps = FALSE /\ taken = 0 /\ wrong = FALSE
      /\ shift_pressed = FALSE /\ caps_lock = FALSE
  BY DEF Init
<1>5. UpTo(Pending, dev.key)
  BY <1>2, <1>3 DEF UpTo
<1>6. taken = (dev.key - Len(Pending)) % SERIALS
  BY <1>2, <1>3, <1>4, Ps2Assumption
<1>7. Explained(Pending, FALSE, FALSE, FALSE, FALSE)
  <2> DEFINE f == [i \in 0 .. Len(Pending) |-> FALSE]
  <2>1. f \in [0 .. Len(Pending) -> BOOLEAN] /\ f[0] = FALSE /\ f[Len(Pending)] = FALSE
    BY <1>2, <1>3
  <2>2. Traced(Pending, f, f)
    BY <1>2, <1>3 DEF Traced
  <2> QED
    BY <2>1, <2>2 DEF Explained
<1>8. Translated
  BY <1>4, <1>5, <1>6, <1>7 DEF Translated
<1> QED
  BY <1>8, TypesInit DEF KeyInv

\* Unless a scan code was thrown away, the scan codes are translated all and in order,
\* and each letter in the case it was typed in, if one Shift key is in use.
THEOREM KeysAlwaysFaithful ==
  ASSUME OneShift
  PROVE  Spec => []KeysFaithful
<1>1. Init => KeyInv
  BY KeyInit
<1>2. KeyInv /\ [Next]_vars => KeyInv'
  BY KeyStep
<1>3. KeyInv => KeysFaithful
  BY DEF KeyInv, Translated, Pending, KeysFaithful
<1> QED
  BY <1>1, <1>2, <1>3, PTL DEF Spec
--------------------------------------------------------------------------------
(* Screens. *)

\* (The provers do not know that a string is in STRING.)
Chars == STRING \cup {Blank, Glyph, "\n"}

Screen ==
  [cells : [Cells -> Chars], cursor_row : Rows, cursor_col : Columns,
   protection_enabled : BOOLEAN, protected_row : Rows, protected_col : Columns,
   pointer_active : BOOLEAN, pointer_row : Rows, pointer_col : Columns, pointer_under : Chars]

\* Screens without a pointer, and what they have in common with each other when they
\* show the same.
Bare == {s \in Screen : s.pointer_active = FALSE}

Alike(s, p) ==
  /\ s.cells = p.cells /\ s.cursor_row = p.cursor_row /\ s.cursor_col = p.cursor_col
  /\ s.protection_enabled = p.protection_enabled
  /\ s.protected_row = p.protected_row /\ s.protected_col = p.protected_col

\* Numbers on a screen.
LEMMA Sizes ==
  /\ WIDTH \in Nat /\ HEIGHT \in Nat /\ TAB \in Nat /\ WIDTH > 0 /\ HEIGHT > 0 /\ TAB > 0
  /\ \A r \in Rows : r \in Int /\ 0 <= r /\ r < HEIGHT
  /\ \A r \in Int : 0 <= r /\ r < HEIGHT => r \in Rows
  /\ \A c \in Columns : c \in Int /\ 0 <= c /\ c < WIDTH
  /\ \A c \in Int : 0 <= c /\ c < WIDTH => c \in Columns
  /\ WIDTH * HEIGHT \in Nat
  /\ \A a : a \in Cells <=> a \in Int /\ 0 <= a /\ a < WIDTH * HEIGHT
BY ScreenAssumption DEF Rows, Columns, Cells

\* The pointer is taken away.
LEMMA Erased ==
  ASSUME NEW s \in Screen
  PROVE  /\ mouse_pointer_erase(s) \in Bare
         /\ LET e == mouse_pointer_erase(s)
            IN  /\ e.cursor_row = s.cursor_row /\ e.cursor_col = s.cursor_col
                /\ e.protection_enabled = s.protection_enabled
                /\ e.protected_row = s.protected_row /\ e.protected_col = s.protected_col
                /\ e.cells = IF s.pointer_active
                             THEN [s.cells EXCEPT ![At(s.pointer_row, s.pointer_col)] = s.pointer_under]
                             ELSE s.cells
         /\ s \in Bare => mouse_pointer_erase(s) = s
<1>1. CASE s.pointer_active = TRUE
  BY <1>1 DEF mouse_pointer_erase, Screen, Bare
<1>2. CASE s.pointer_active = FALSE
  BY <1>2 DEF mouse_pointer_erase, Screen, Bare
<1> QED
  BY <1>1, <1>2 DEF Screen

\* Drawing it changes nothing that is seen once it is taken away again.
LEMMA Drawn ==
  ASSUME NEW s \in Screen, NEW r \in Rows, NEW c \in Columns
  PROVE  /\ pointer_draw(s, r, c) \in Screen
         /\ Alike(mouse_pointer_erase(pointer_draw(s, r, c)), mouse_pointer_erase(s))
<1> DEFINE e == mouse_pointer_erase(s)
           a == At(r, c)
           d == [e EXCEPT !.pointer_row = r, !.pointer_col = c,
                          !.pointer_under = e.cells[At(r, c)],
                          !.cells[At(r, c)] = Glyph,
                          !.pointer_active = TRUE]
<1>1. CASE s.pointer_active /\ s.pointer_row = r /\ s.pointer_col = c
  BY <1>1 DEF pointer_draw, Alike
<1>2. CASE ~ (s.pointer_active /\ s.pointer_row = r /\ s.pointer_col = c)
  <2>1. pointer_draw(s, r, c) = d
    BY <1>2, Zenon DEF pointer_draw
  <2>2. e \in Bare /\ e \in Screen /\ e.cells \in [Cells -> Chars]
    BY Erased DEF Bare, Screen
  <2>3. a \in Cells
    BY Sizes DEF At
  <2> HIDE DEF e
  <2>4. /\ d \in Screen /\ d.pointer_active = TRUE /\ d.cursor_row = e.cursor_row /\ d.cursor_col = e.cursor_col
        /\ d.protection_enabled = e.protection_enabled
        /\ d.protected_row = e.protected_row /\ d.protected_col = e.protected_col
        /\ d.pointer_row = r /\ d.pointer_col = c /\ d.pointer_under = e.cells[a]
        /\ d.cells = [e.cells EXCEPT ![a] = Glyph]
    <3> DEFINE f == [e.cells EXCEPT ![a] = Glyph]
               x == e.cells[a]
    <3>1. f \in [Cells -> Chars] /\ x \in Chars
      <4>1. Glyph \in Chars
        BY DEF Glyph, Chars
      <4> HIDE DEF a
      <4> QED
        BY <2>2, <2>3, <4>1
    <3>2. d = [e EXCEPT !.pointer_row = r, !.pointer_col = c, !.pointer_under = x,
                        !.cells = f, !.pointer_active = TRUE]
      BY <2>2 DEF Screen
    <3> HIDE DEF d, f, x
    <3>3. d \in Screen
      BY <2>2, <3>1, <3>2 DEF Screen
    <3>4. /\ d.pointer_active = TRUE /\ d.cursor_row = e.cursor_row /\ d.cursor_col = e.cursor_col
          /\ d.protection_enabled = e.protection_enabled
          /\ d.protected_row = e.protected_row /\ d.protected_col = e.protected_col
      BY <2>2, <3>1, <3>2 DEF Screen
    <3>5. d.pointer_row = r /\ d.pointer_col = c /\ d.pointer_under = x /\ d.cells = f
      BY <2>2, <3>1, <3>2 DEF Screen
    <3> QED
      BY <3>3, <3>4, <3>5 DEF f, x
  <2> HIDE DEF d, a
  <2>5. mouse_pointer_erase(d).cells = [[e.cells EXCEPT ![a] = Glyph] EXCEPT ![a] = e.cells[a]]
    BY <2>4, Erased DEF a
  <2>6. mouse_pointer_erase(d).cells = e.cells
    BY <2>5, <2>2, <2>3
  <2>7. Alike(mouse_pointer_erase(d), e)
    BY <2>4, <2>6, Erased DEF Alike
  <2> QED
    BY <2>1, <2>4, <2>7 DEF e
<1> QED
  BY <1>1, <1>2

--------------------------------------------------------------------------------
(* What the operators of the screen change. *)

Shifted(f) == [i \in Cells |-> IF i + WIDTH \in Cells THEN f[i + WIDTH] ELSE Blank]

\* Everything but cells, cursor and boundary's row.
Same(s, t) ==
  /\ t.protection_enabled = s.protection_enabled /\ t.protected_col = s.protected_col
  /\ t.pointer_active = s.pointer_active /\ t.pointer_row = s.pointer_row
  /\ t.pointer_col = s.pointer_col /\ t.pointer_under = s.pointer_under

\* A new line: refused, a row down, or the screen a row up.
LEMMA NewlineFields ==
  ASSUME NEW s \in Screen
  PROVE  LET t == PutNewline(s)
         IN  /\ t \in Screen /\ Same(s, t)
             /\ IF is_position_protected(s, s.cursor_row + 1, 0)
                THEN t = s
                ELSE /\ t.cursor_col = 0
                     /\ IF s.cursor_row < HEIGHT - 1
                        THEN /\ t.cursor_row = s.cursor_row + 1 /\ t.cells = s.cells
                             /\ t.protected_row = s.protected_row
                        ELSE /\ t.cursor_row = HEIGHT - 1 /\ t.cells = Shifted(s.cells)
                             /\ t.protected_row = IF s.protected_row > 0 THEN s.protected_row - 1
                                                                         ELSE s.protected_row
<1> DEFINE m == [s EXCEPT !.cursor_row = s.cursor_row + 1, !.cursor_col = 0]
           t == PutNewline(s)
           pr == IF s.protected_row > 0 THEN s.protected_row - 1 ELSE s.protected_row
           sh == Shifted(s.cells)
<1>0. /\ s.cells \in [Cells -> Chars] /\ s.cursor_row \in Rows /\ s.protected_row \in Rows /\ 0 \in Columns
      /\ HEIGHT - 1 \in Rows /\ pr \in Rows
  BY Sizes DEF Screen
<1>1. CASE is_position_protected(s, s.cursor_row + 1, 0)
  BY <1>1 DEF PutNewline, Same
<1>2. CASE ~ is_position_protected(s, s.cursor_row + 1, 0) /\ s.cursor_row < HEIGHT - 1
  <2>1. t = Scroll(m)
    BY <1>2, Zenon DEF PutNewline
  <2>2. s.cursor_row + 1 \in Rows
    BY <1>2, <1>0, Sizes
  <2>3. m \in Screen /\ m.cursor_row = s.cursor_row + 1 /\ m.cursor_col = 0 /\ m.cells = s.cells
        /\ m.protected_row = s.protected_row /\ Same(s, m)
    BY <2>2, <1>0 DEF Screen, Same
  <2> HIDE DEF m, t
  <2>4. t = m
    BY <2>1, <2>3, <1>2, <1>0, Sizes DEF Scroll
  <2> QED
    BY <2>3, <2>4, <1>2 DEF t
<1>3. CASE ~ is_position_protected(s, s.cursor_row + 1, 0) /\ ~ s.cursor_row < HEIGHT - 1
  <2>1. t = Scroll(m)
    BY <1>3, Zenon DEF PutNewline
  <2>2. m.cursor_row = s.cursor_row + 1 /\ m.cells = s.cells /\ m.protected_row = s.protected_row
    BY <1>0 DEF Screen
  <2>3. ~ m.cursor_row < HEIGHT
    BY <2>2, <1>3, <1>0, Sizes
  <2>4. sh \in [Cells -> Chars]
    BY <1>0 DEF Shifted, Chars
  <2>5. t = [m EXCEPT !.cells = sh, !.protected_row = pr, !.cursor_row = HEIGHT - 1]
    <3> HIDE DEF m
    <3> QED
      BY <2>1, <2>2, <2>3, Zenon DEF Scroll, Shifted
  <2> HIDE DEF sh, pr, t
  <2>6. t \in Screen
    BY <2>5, <2>4, <1>0 DEF Screen
  <2>7. Same(s, t)
    BY <2>5, <2>4, <1>0 DEF Screen, Same
  <2>8. t.cursor_row = HEIGHT - 1 /\ t.cursor_col = 0 /\ t.cells = sh /\ t.protected_row = pr
    BY <2>5, <2>4, <1>0 DEF Screen
  <2> QED
    BY <2>6, <2>7, <2>8, <1>3 DEF sh, pr, t
<1> QED
  BY <1>1, <1>2, <1>3

\* A carriage return moves the cursor only.
LEMMA ReturnFields ==
  ASSUME NEW s \in Screen
  PROVE  LET t == PutReturn(s)
         IN  /\ t \in Screen /\ Same(s, t) /\ t.cells = s.cells /\ t.cursor_row = s.cursor_row
             /\ t.protected_row = s.protected_row
             /\ t.cursor_col = IF is_position_protected(s, s.cursor_row, 0) THEN s.cursor_col ELSE 0
<1>1. 0 \in Columns
  BY Sizes
<1>2. CASE is_position_protected(s, s.cursor_row, 0)
  BY <1>2 DEF PutReturn, Same
<1>3. CASE ~ is_position_protected(s, s.cursor_row, 0)
  BY <1>1, <1>3 DEF PutReturn, Same, Screen
<1> QED
  BY <1>2, <1>3

\* Where a backspace goes is on the screen.
LEMMA TargetOnScreen ==
  ASSUME NEW s \in Screen, ~ (s.cursor_col = 0 /\ s.cursor_row = 0)
  PROVE  \E r \in Rows, c \in Columns : BackspaceTarget(s) = <<r, c>>
<1>0. s.cursor_row \in Rows /\ s.cursor_col \in Columns
  BY DEF Screen
<1>1. CASE s.cursor_col > 0
  <2>1. s.cursor_col - 1 \in Columns
    BY <1>0, <1>1, Sizes
  <2> QED
    BY <1>0, <1>1, <2>1 DEF BackspaceTarget
<1>2. CASE ~ s.cursor_col > 0
  <2> DEFINE used == {c \in Columns : s.cells[At(s.cursor_row - 1, c)] # Blank}
             u == IF used = {} THEN 0 ELSE Max(used)
  <2>1. s.cursor_row - 1 \in Rows /\ 0 \in Columns
    BY <1>0, <1>2, Sizes
  <2>2. used # {} => Max(used) \in used
    <3> SUFFICES ASSUME used # {} PROVE \E x \in used : \A y \in used : x >= y
      BY DEF Max
    <3>1. \A x \in used : x \in Int /\ 0 <= x /\ x < WIDTH
      BY Sizes
    <3> HIDE DEF used
    <3>2. PICK x \in used : TRUE
      OBVIOUS
    <3> DEFINE G == {n \in Nat : \E y \in used : y >= WIDTH - n}
    <3>3. ~ 0 \in G
      BY <3>1, Sizes
    <3>4. WIDTH \in G
      BY <3>1, <3>2, Sizes
    <3>5. PICK n \in Nat : n \notin G /\ n + 1 \in G
      <4> SUFFICES ASSUME \A k \in Nat : k \notin G => k + 1 \notin G PROVE FALSE
        OBVIOUS
      <4> DEFINE Q == {k \in Nat : k \notin G}
      <4>1. 0 \in Q /\ \A k \in Nat : k \in Q => k + 1 \in Q
        BY <3>3
      <4> HIDE DEF Q
      <4>2. \A k \in Nat : k \in Q
        BY <4>1, Induction
      <4> QED
        BY <4>2, <3>4, Sizes DEF Q
    <3>6. PICK z \in used : z >= WIDTH - (n + 1)
      BY <3>5
    <3>7. \A y \in used : z >= y
      BY <3>1, <3>5, <3>6, Sizes
    <3> QED
      BY <3>7
  <2>3. u \in Columns
    BY <2>1, <2>2
  <2>4. BackspaceTarget(s) = <<s.cursor_row - 1, u>>
    BY <1>2, Zenon DEF BackspaceTarget
  <2> HIDE DEF u
  <2> QED
    BY <2>1, <2>3, <2>4
<1> QED
  BY <1>1, <1>2

\* A backspace is refused, or blanks the cell that it goes to.
LEMMA BackspaceFields ==
  ASSUME NEW s \in Screen
  PROVE  LET t == PutBackspace(s)
         IN  /\ t \in Screen /\ Same(s, t) /\ t.protected_row = s.protected_row
             /\ \/ t = s
                \/ \E r \in Rows, c \in Columns :
                     /\ ~ (s.cursor_col = 0 /\ s.cursor_row = 0) /\ BackspaceTarget(s) = <<r, c>>
                     /\ ~ is_position_protected(s, r, c)
                     /\ t.cursor_row = r /\ t.cursor_col = c /\ t.cells = [s.cells EXCEPT ![At(r, c)] = Blank]
<1> DEFINE t == PutBackspace(s)
<1>1. CASE s.cursor_col = 0 /\ s.cursor_row = 0
  BY <1>1 DEF PutBackspace, Same
<1>2. CASE ~ (s.cursor_col = 0 /\ s.cursor_row = 0)
  <2>1. PICK r \in Rows, c \in Columns : BackspaceTarget(s) = <<r, c>>
    BY <1>2, TargetOnScreen
  <2> DEFINE m == [s EXCEPT !.cursor_row = r, !.cursor_col = c, !.cells[At(r, c)] = Blank]
  <2>2. BackspaceTarget(s)[1] = r /\ BackspaceTarget(s)[2] = c
    BY <2>1
  <2>3. t = IF is_position_protected(s, r, c) THEN s ELSE m
    BY <1>2, <2>2, Zenon DEF PutBackspace
  <2>4. m \in Screen /\ Same(s, m) /\ m.protected_row = s.protected_row
        /\ m.cursor_row = r /\ m.cursor_col = c /\ m.cells = [s.cells EXCEPT ![At(r, c)] = Blank]
    <3> DEFINE f == [s.cells EXCEPT ![At(r, c)] = Blank]
    <3>1. f \in [Cells -> Chars]
      BY DEF Screen, Chars
    <3>2. m = [s EXCEPT !.cursor_row = r, !.cursor_col = c, !.cells = f]
      OBVIOUS
    <3> HIDE DEF m, f
    <3>3. m \in Screen
      BY <3>1, <3>2 DEF Screen
    <3>4. Same(s, m)
      BY <3>1, <3>2 DEF Screen, Same
    <3>5. m.cursor_row = r /\ m.cursor_col = c /\ m.cells = f /\ m.protected_row = s.protected_row
      BY <3>1, <3>2 DEF Screen
    <3> QED
      BY <3>3, <3>4, <3>5 DEF f
  <2> HIDE DEF m
  <2> QED
    BY <2>1, <2>3, <2>4, <1>2 DEF Same
<1> QED
  BY <1>1, <1>2

\* A character that is not a control character.
LEMMA PlainFields ==
  ASSUME NEW s \in Screen, NEW c \in Chars
  PROVE  LET t == PutPlain(s, c)
         IN  /\ t \in Screen /\ Same(s, t) /\ t.protected_row = s.protected_row
             /\ IF is_position_protected(s, s.cursor_row, s.cursor_col)
                THEN t = s
                ELSE /\ t.cells = [s.cells EXCEPT ![At(s.cursor_row, s.cursor_col)] = c]
                     /\ IF s.cursor_col < WIDTH - 1
                        THEN t.cursor_row = s.cursor_row /\ t.cursor_col = s.cursor_col + 1
                        ELSE IF s.cursor_row < HEIGHT - 1
                        THEN t.cursor_row = s.cursor_row + 1 /\ t.cursor_col = 0
                        ELSE t.cursor_row = s.cursor_row /\ t.cursor_col = s.cursor_col
<1> DEFINE f == [s.cells EXCEPT ![At(s.cursor_row, s.cursor_col)] = c]
           m == [s EXCEPT !.cells[At(s.cursor_row, s.cursor_col)] = c]
           t == PutPlain(s, c)
<1>0. s.cursor_row \in Rows /\ s.cursor_col \in Columns /\ f \in [Cells -> Chars]
  BY DEF Screen
<1>1. CASE is_position_protected(s, s.cursor_row, s.cursor_col)
  BY <1>1 DEF PutPlain, Same
<1>2. CASE ~ is_position_protected(s, s.cursor_row, s.cursor_col)
  <2>1. t = Advance(m)
    BY <1>2, Zenon DEF PutPlain
  <2>2. m = [s EXCEPT !.cells = f]
    OBVIOUS
  <2> HIDE DEF m, f, t
  <2>3. m \in Screen /\ Same(s, m) /\ m.cells = f /\ m.cursor_row = s.cursor_row
        /\ m.cursor_col = s.cursor_col /\ m.protected_row = s.protected_row
    BY <2>2, <1>0 DEF Screen, Same
  <2>4. CASE s.cursor_col < WIDTH - 1
    <3>1. s.cursor_col + 1 \in Columns
      BY <1>0, <2>4, Sizes
    <3>2. t = [m EXCEPT !.cursor_col = s.cursor_col + 1]
      BY <2>1, <2>3, <2>4 DEF Advance
    <3>3. t \in Screen /\ Same(m, t) /\ t.cells = m.cells /\ t.cursor_row = m.cursor_row
          /\ t.cursor_col = s.cursor_col + 1 /\ t.protected_row = m.protected_row
      BY <3>1, <3>2, <2>3 DEF Screen, Same
    <3> QED
      BY <3>3, <2>3, <2>4, <1>2 DEF Same, f, t
  <2>5. CASE ~ s.cursor_col < WIDTH - 1 /\ s.cursor_row < HEIGHT - 1
    <3>1. s.cursor_row + 1 \in Rows /\ 0 \in Columns
      BY <1>0, <2>5, Sizes
    <3>2. t = [m EXCEPT !.cursor_row = s.cursor_row + 1, !.cursor_col = 0]
      BY <2>1, <2>3, <2>5, Zenon DEF Advance
    <3>3. t \in Screen /\ Same(m, t) /\ t.cells = m.cells /\ t.cursor_row = s.cursor_row + 1
          /\ t.cursor_col = 0 /\ t.protected_row = m.protected_row
      BY <3>1, <3>2, <2>3 DEF Screen, Same
    <3> QED
      BY <3>3, <2>3, <2>5, <1>2 DEF Same, f, t
  <2>6. CASE ~ s.cursor_col < WIDTH - 1 /\ ~ s.cursor_row < HEIGHT - 1
    <3>1. t = m
      BY <2>1, <2>3, <2>6, Zenon DEF Advance
    <3> QED
      BY <3>1, <2>3, <2>6, <1>2 DEF f, t
  <2> QED
    BY <2>4, <2>5, <2>6
<1> QED
  BY <1>1, <1>2

\* The blanks of a tab one after the other.
LEMMA TabStepsExist ==
  ASSUME NEW s, NEW n \in Nat, n = TAB - (s.cursor_col % TAB)
  PROVE  /\ TabSteps(s)[0] = s
         /\ \A i \in 1 .. n : TabSteps(s)[i] = PutPlain(TabSteps(s)[i - 1], Blank)
<1> DEFINE Step(f, i) == IF i = 0 THEN s ELSE PutPlain(f[i - 1], Blank)
           Upto(k, f) == f = [i \in 0 .. k |-> Step(f, i)]
           N == {k \in Nat : \E f : Upto(k, f)}
<1>1. 0 \in N
  <2> DEFINE g == [i \in 0 .. 0 |-> s]
  <2>1. Upto(0, g)
    OBVIOUS
  <2> QED
    BY <2>1
<1>2. ASSUME NEW k \in Nat, k \in N PROVE k + 1 \in N
  <2>1. PICK f : Upto(k, f)
    BY <1>2
  <2> HIDE DEF Step
  <2> DEFINE g == [i \in 0 .. k + 1 |-> IF i <= k THEN f[i] ELSE Step(f, i)]
  <2>2. \A i \in 0 .. k : g[i] = f[i] /\ f[i] = Step(f, i)
    BY <2>1
  <2>3. g[k + 1] = Step(f, k + 1)
    OBVIOUS
  <2> HIDE DEF g
  <2>4. \A i \in 0 .. k + 1 : Step(g, i) = Step(f, i)
    <3>1. \A i \in 0 .. k + 1 : i # 0 => i - 1 \in 0 .. k
      OBVIOUS
    <3> QED
      BY <2>2, <3>1 DEF Step
  <2>5. \A i \in 0 .. k + 1 : g[i] = Step(g, i)
    BY <2>2, <2>3, <2>4
  <2>6. Upto(k + 1, g)
    BY <2>5 DEF g
  <2> QED
    BY <2>6
<1>3. \A k \in Nat : k \in N
  <2> HIDE DEF N
  <2> QED
    BY <1>1, <1>2, Induction
<1>4. PICK f : Upto(n, f)
  BY <1>3
<1>5. Upto(n, TabSteps(s))
  <2> DEFINE Body(g) == [i \in 0 .. TAB - (s.cursor_col % TAB) |-> IF i = 0 THEN s ELSE PutPlain(g[i - 1], Blank)]
  <2>1. TabSteps(s) = CHOOSE g : g = Body(g)
    BY Zenon DEF TabSteps
  <2>2. \A g : Body(g) = [i \in 0 .. n |-> Step(g, i)]
    BY Zenon
  <2> HIDE DEF Body, Step
  <2>3. f = Body(f)
    BY <1>4, <2>2
  <2>4. TabSteps(s) = Body(TabSteps(s))
    BY <2>1, <2>3, Zenon
  <2> QED
    BY <2>4, <2>2
<1>6. \A i \in 0 .. n : TabSteps(s)[i] = Step(TabSteps(s), i)
  <2> HIDE DEF Step
  <2> QED
    BY <1>5
<1> QED
  BY <1>6

\* The characters of a string one after the other.
LEMMA WriteStepsExist ==
  ASSUME NEW s, NEW str, Len(str) \in Nat
  PROVE  /\ WriteSteps(s, str)[0] = s
         /\ \A i \in 1 .. Len(str) : WriteSteps(s, str)[i] = putchar_core(WriteSteps(s, str)[i - 1], str[i])
<1> DEFINE Step(f, i) == IF i = 0 THEN s ELSE putchar_core(f[i - 1], str[i])
           Upto(k, f) == f = [i \in 0 .. k |-> Step(f, i)]
           N == {k \in Nat : \E f : Upto(k, f)}
<1>1. 0 \in N
  <2> DEFINE g == [i \in 0 .. 0 |-> s]
  <2>1. Upto(0, g)
    OBVIOUS
  <2> QED
    BY <2>1
<1>2. ASSUME NEW k \in Nat, k \in N PROVE k + 1 \in N
  <2>1. PICK f : Upto(k, f)
    BY <1>2
  <2> HIDE DEF Step
  <2> DEFINE g == [i \in 0 .. k + 1 |-> IF i <= k THEN f[i] ELSE Step(f, i)]
  <2>2. \A i \in 0 .. k : g[i] = f[i] /\ f[i] = Step(f, i)
    BY <2>1
  <2>3. g[k + 1] = Step(f, k + 1)
    OBVIOUS
  <2> HIDE DEF g
  <2>4. \A i \in 0 .. k + 1 : Step(g, i) = Step(f, i)
    <3>1. \A i \in 0 .. k + 1 : i # 0 => i - 1 \in 0 .. k
      OBVIOUS
    <3> QED
      BY <2>2, <3>1 DEF Step
  <2>5. \A i \in 0 .. k + 1 : g[i] = Step(g, i)
    BY <2>2, <2>3, <2>4
  <2>6. Upto(k + 1, g)
    BY <2>5 DEF g
  <2> QED
    BY <2>6
<1>3. \A k \in Nat : k \in N
  <2> HIDE DEF N
  <2> QED
    BY <1>1, <1>2, Induction
<1>4. PICK f : Upto(Len(str), f)
  BY <1>3
<1>5. Upto(Len(str), WriteSteps(s, str))
  <2> DEFINE Body(g) == [i \in 0 .. Len(str) |-> IF i = 0 THEN s ELSE putchar_core(g[i - 1], str[i])]
  <2>1. WriteSteps(s, str) = CHOOSE g : g = Body(g)
    BY Zenon DEF WriteSteps
  <2>2. \A g : Body(g) = [i \in 0 .. Len(str) |-> Step(g, i)]
    BY Zenon
  <2> HIDE DEF Body, Step
  <2>3. f = Body(f)
    BY <1>4, <2>2
  <2>4. WriteSteps(s, str) = Body(WriteSteps(s, str))
    BY <2>1, <2>3, Zenon
  <2> QED
    BY <2>4, <2>2
<1>6. \A i \in 0 .. Len(str) : WriteSteps(s, str)[i] = Step(WriteSteps(s, str), i)
  <2> HIDE DEF Step
  <2> QED
    BY <1>5
<1> QED
  BY <1>6

\* What every character keeps of two screens, a string keeps.
LEMMA WriteInduction ==
  ASSUME NEW s, NEW p, NEW str \in Seq(Chars), NEW R, <<s, p>> \in R,
         \A x, y : \A c \in Chars : <<x, y>> \in R => <<putchar_core(x, c), putchar_core(y, c)>> \in R
  PROVE  <<vga_write(s, str), vga_write(p, str)>> \in R
<1> DEFINE f == WriteSteps(s, str)
           g == WriteSteps(p, str)
           N == {n \in Nat : n <= Len(str) => <<f[n], g[n]>> \in R}
<1>1. Len(str) \in Nat /\ \A i \in 1 .. Len(str) : str[i] \in Chars
  OBVIOUS
<1>2. 0 \in N
  BY <1>1, WriteStepsExist
<1>3. ASSUME NEW n \in Nat, n \in N PROVE n + 1 \in N
  <2> SUFFICES ASSUME n + 1 <= Len(str) PROVE <<f[n + 1], g[n + 1]>> \in R
    OBVIOUS
  <2>1. n + 1 \in 1 .. Len(str) /\ (n + 1) - 1 = n /\ <<f[n], g[n]>> \in R
    BY <1>1, <1>3
  <2>2. f[n + 1] = putchar_core(f[n], str[n + 1]) /\ g[n + 1] = putchar_core(g[n], str[n + 1])
    BY <1>1, <2>1, WriteStepsExist
  <2> QED
    BY <1>1, <2>1, <2>2
<1> HIDE DEF N
<1>4. \A n \in Nat : n \in N
  BY <1>2, <1>3, Induction
<1> QED
  BY <1>1, <1>4 DEF N, vga_write

\* What every blank keeps of two screens with the cursor in one column, a tab keeps.
LEMMA TabInduction ==
  ASSUME NEW s, NEW p, NEW n \in Nat, n = TAB - (s.cursor_col % TAB), n = TAB - (p.cursor_col % TAB),
         NEW R, <<s, p>> \in R,
         \A x, y : <<x, y>> \in R => <<PutPlain(x, Blank), PutPlain(y, Blank)>> \in R
  PROVE  <<TabSteps(s)[n], TabSteps(p)[n]>> \in R
<1> DEFINE f == TabSteps(s)
           g == TabSteps(p)
           N == {k \in Nat : k <= n => <<f[k], g[k]>> \in R}
<1>2. 0 \in N
  BY TabStepsExist
<1>3. ASSUME NEW k \in Nat, k \in N PROVE k + 1 \in N
  <2> SUFFICES ASSUME k + 1 <= n PROVE <<f[k + 1], g[k + 1]>> \in R
    OBVIOUS
  <2>1. k + 1 \in 1 .. n /\ (k + 1) - 1 = k /\ <<f[k], g[k]>> \in R
    BY <1>3
  <2>2. f[k + 1] = PutPlain(f[k], Blank) /\ g[k + 1] = PutPlain(g[k], Blank)
    BY <2>1, TabStepsExist
  <2> QED
    BY <2>1, <2>2
<1> HIDE DEF N
<1>4. \A k \in Nat : k \in N
  BY <1>2, <1>3, Induction
<1> QED
  BY <1>4 DEF N

--------------------------------------------------------------------------------
(* The pointer leaves no trace: a screen follows another, which never had one. *)

Follows(s, p) == s \in Screen /\ p \in Bare /\ Alike(mouse_pointer_erase(s), p)

\* Screens that look alike protect the same cells.
LEMMA ProtectedAlike ==
  ASSUME NEW x, NEW y, Alike(x, y), NEW r, NEW c
  PROVE  is_position_protected(x, r, c) <=> is_position_protected(y, r, c)
BY DEF Alike, is_position_protected

\* Without a pointer, to look alike is to follow.
LEMMA BareFollows ==
  ASSUME NEW x \in Bare, NEW y \in Bare, Alike(x, y)
  PROVE  Follows(x, y)
BY Erased DEF Follows, Bare

\* Each kind of character does the same to screens that look alike.
LEMMA PlainAlike ==
  ASSUME NEW x \in Bare, NEW y \in Bare, Alike(x, y), NEW c \in Chars
  PROVE  PutPlain(x, c) \in Bare /\ PutPlain(y, c) \in Bare /\ Alike(PutPlain(x, c), PutPlain(y, c))
<1> DEFINE s == PutPlain(x, c)
           t == PutPlain(y, c)
<1>1. is_position_protected(x, x.cursor_row, x.cursor_col) <=> is_position_protected(y, y.cursor_row, y.cursor_col)
  BY ProtectedAlike DEF Alike
<1>2. x \in Screen /\ y \in Screen /\ x.pointer_active = FALSE /\ y.pointer_active = FALSE
  BY DEF Bare
<1>3. s \in Bare /\ t \in Bare
  BY <1>2, PlainFields DEF Same, Bare
<1>4. /\ s.protected_row = x.protected_row /\ s.protected_col = x.protected_col
      /\ s.protection_enabled = x.protection_enabled
      /\ t.protected_row = y.protected_row /\ t.protected_col = y.protected_col
      /\ t.protection_enabled = y.protection_enabled
  BY <1>2, PlainFields DEF Same
<1>5. CASE is_position_protected(x, x.cursor_row, x.cursor_col)
  <2>1. s = x /\ t = y
    BY <1>1, <1>2, <1>5, PlainFields
  <2> QED
    BY <2>1
<1>6. CASE ~ is_position_protected(x, x.cursor_row, x.cursor_col)
  <2>1. s.cells = [x.cells EXCEPT ![At(x.cursor_row, x.cursor_col)] = c]
        /\ t.cells = [y.cells EXCEPT ![At(y.cursor_row, y.cursor_col)] = c]
    BY <1>1, <1>2, <1>6, PlainFields
  <2>2. s.cursor_row = t.cursor_row /\ s.cursor_col = t.cursor_col
    <3> HIDE DEF s, t
    <3>1. /\ IF x.cursor_col < WIDTH - 1
             THEN s.cursor_row = x.cursor_row /\ s.cursor_col = x.cursor_col + 1
             ELSE IF x.cursor_row < HEIGHT - 1
             THEN s.cursor_row = x.cursor_row + 1 /\ s.cursor_col = 0
             ELSE s.cursor_row = x.cursor_row /\ s.cursor_col = x.cursor_col
          /\ IF y.cursor_col < WIDTH - 1
             THEN t.cursor_row = y.cursor_row /\ t.cursor_col = y.cursor_col + 1
             ELSE IF y.cursor_row < HEIGHT - 1
             THEN t.cursor_row = y.cursor_row + 1 /\ t.cursor_col = 0
             ELSE t.cursor_row = y.cursor_row /\ t.cursor_col = y.cursor_col
      BY <1>1, <1>2, <1>6, PlainFields DEF s, t
    <3> QED
      BY <3>1 DEF Alike
  <2> HIDE DEF s, t
  <2>3. Alike(s, t)
    BY <2>1, <2>2, <1>4 DEF Alike
  <2> QED
    BY <2>3, <1>3 DEF s, t
<1> QED
  BY <1>3, <1>5, <1>6

\* A new line keeps screens alike.
LEMMA NewlineAlike ==
  ASSUME NEW x \in Bare, NEW y \in Bare, Alike(x, y)
  PROVE  PutNewline(x) \in Bare /\ PutNewline(y) \in Bare /\ Alike(PutNewline(x), PutNewline(y))
<1> DEFINE s == PutNewline(x)
           t == PutNewline(y)
<1>1. is_position_protected(x, x.cursor_row + 1, 0) <=> is_position_protected(y, y.cursor_row + 1, 0)
  BY ProtectedAlike DEF Alike
<1>2. x \in Screen /\ y \in Screen /\ x.pointer_active = FALSE /\ y.pointer_active = FALSE
  BY DEF Bare
<1>3. s \in Bare /\ t \in Bare
  BY <1>2, NewlineFields DEF Same, Bare
<1>4. /\ s.protected_col = x.protected_col /\ s.protection_enabled = x.protection_enabled
      /\ t.protected_col = y.protected_col /\ t.protection_enabled = y.protection_enabled
  BY <1>2, NewlineFields DEF Same
<1>5. CASE is_position_protected(x, x.cursor_row + 1, 0)
  <2>1. s = x /\ t = y
    BY <1>1, <1>2, <1>5, NewlineFields
  <2> QED
    BY <2>1
<1>6. CASE ~ is_position_protected(x, x.cursor_row + 1, 0)
  <2>1. /\ s.cursor_col = 0
        /\ IF x.cursor_row < HEIGHT - 1
           THEN /\ s.cursor_row = x.cursor_row + 1 /\ s.cells = x.cells
                /\ s.protected_row = x.protected_row
           ELSE /\ s.cursor_row = HEIGHT - 1 /\ s.cells = Shifted(x.cells)
                /\ s.protected_row = IF x.protected_row > 0 THEN x.protected_row - 1
                                                            ELSE x.protected_row
    BY <1>2, <1>6, NewlineFields
  <2>2. /\ t.cursor_col = 0
        /\ IF y.cursor_row < HEIGHT - 1
           THEN /\ t.cursor_row = y.cursor_row + 1 /\ t.cells = y.cells
                /\ t.protected_row = y.protected_row
           ELSE /\ t.cursor_row = HEIGHT - 1 /\ t.cells = Shifted(y.cells)
                /\ t.protected_row = IF y.protected_row > 0 THEN y.protected_row - 1
                                                            ELSE y.protected_row
    BY <1>1, <1>2, <1>6, NewlineFields
  <2> HIDE DEF s, t
  <2>3. Alike(s, t)
    BY <2>1, <2>2, <1>4 DEF Alike
  <2> QED
    BY <2>3, <1>3 DEF s, t
<1> QED
  BY <1>3, <1>5, <1>6

\* A carriage return keeps screens alike.
LEMMA ReturnAlike ==
  ASSUME NEW x \in Bare, NEW y \in Bare, Alike(x, y)
  PROVE  PutReturn(x) \in Bare /\ PutReturn(y) \in Bare /\ Alike(PutReturn(x), PutReturn(y))
<1>1. is_position_protected(x, x.cursor_row, 0) <=> is_position_protected(y, y.cursor_row, 0)
  BY ProtectedAlike DEF Alike
<1>2. x \in Screen /\ y \in Screen /\ x.pointer_active = FALSE /\ y.pointer_active = FALSE
  BY DEF Bare
<1> QED
  BY <1>1, <1>2, ReturnFields DEF Same, Bare, Alike

\* A backspace looks at the cells of the row above, and keeps screens alike.
LEMMA BackspaceAlike ==
  ASSUME NEW x \in Bare, NEW y \in Bare, Alike(x, y)
  PROVE  PutBackspace(x) \in Bare /\ PutBackspace(y) \in Bare /\ Alike(PutBackspace(x), PutBackspace(y))
<1> DEFINE s == PutBackspace(x)
           t == PutBackspace(y)
<1>1. x \in Screen /\ y \in Screen /\ x.pointer_active = FALSE /\ y.pointer_active = FALSE
  BY DEF Bare
<1>2. s \in Bare /\ t \in Bare
  BY <1>1, BackspaceFields DEF Same, Bare
<1>3. CASE x.cursor_col = 0 /\ x.cursor_row = 0
  BY <1>1, <1>3, <1>2 DEF PutBackspace, Alike
<1>4. CASE ~ (x.cursor_col = 0 /\ x.cursor_row = 0)
  <2>1. BackspaceTarget(x) = BackspaceTarget(y)
    BY Zenon DEF BackspaceTarget, Alike
  <2>2. PICK r \in Rows, c \in Columns : BackspaceTarget(x) = <<r, c>>
    BY <1>1, <1>4, TargetOnScreen
  <2>3. BackspaceTarget(x)[1] = r /\ BackspaceTarget(x)[2] = c
    BY <2>2
  <2>4. is_position_protected(x, r, c) <=> is_position_protected(y, r, c)
    BY ProtectedAlike
  <2> DEFINE m(z) == [z EXCEPT !.cursor_row = r, !.cursor_col = c, !.cells[At(r, c)] = Blank]
  <2>5. s = IF is_position_protected(x, r, c) THEN x ELSE m(x)
    BY <1>4, <2>3, Zenon DEF PutBackspace
  <2>6. t = IF is_position_protected(y, r, c) THEN y ELSE m(y)
    BY <1>4, <2>1, <2>3, Zenon DEF PutBackspace, Alike
  <2>7. Alike(m(x), m(y))
    BY <1>1 DEF Alike, Screen
  <2> HIDE DEF m
  <2> QED
    BY <1>2, <2>4, <2>5, <2>6, <2>7
<1> QED
  BY <1>3, <1>4

\* A tab is a number of blanks.
LEMMA TabCount ==
  ASSUME NEW s \in Screen
  PROVE  TAB - (s.cursor_col % TAB) \in Nat
<1>1. s.cursor_col \in Int
  BY Sizes DEF Screen
<1>2. s.cursor_col % TAB \in 0 .. TAB - 1
  BY <1>1, Sizes
<1> QED
  BY <1>2, Sizes

\* Any character, on a screen with a pointer and on the one without.
LEMMA PutAlike ==
  ASSUME NEW x, NEW y, Follows(x, y), NEW c \in Chars
  PROVE  /\ putchar_core(x, c) \in Bare /\ putchar_core(y, c) \in Bare
         /\ Alike(putchar_core(x, c), putchar_core(y, c))
<1> DEFINE e == mouse_pointer_erase(x)
<1>1. e \in Bare /\ y \in Bare /\ Alike(e, y) /\ mouse_pointer_erase(y) = y /\ e \in Screen
  BY Erased DEF Follows, Bare
<1> HIDE DEF e
<1>2. CASE c = "\n"
  <2>1. putchar_core(x, c) = PutNewline(e) /\ putchar_core(y, c) = PutNewline(y)
    BY <1>1, <1>2 DEF putchar_core, e
  <2> QED
    BY <1>1, <2>1, NewlineAlike
<1>3. CASE c = "\r"
  <2>1. putchar_core(x, c) = PutReturn(e) /\ putchar_core(y, c) = PutReturn(y)
    BY <1>1, <1>3 DEF putchar_core, e
  <2> QED
    BY <1>1, <2>1, ReturnAlike
<1>4. CASE c = "bs"
  <2>1. putchar_core(x, c) = PutBackspace(e) /\ putchar_core(y, c) = PutBackspace(y)
    BY <1>1, <1>4 DEF putchar_core, e
  <2> QED
    BY <1>1, <2>1, BackspaceAlike
<1>5. CASE c = "\t"
  <2> DEFINE n == TAB - (e.cursor_col % TAB)
             R == {z \in Bare \X Bare : Alike(z[1], z[2])}
  <2>1. putchar_core(x, c) = TabSteps(e)[n] /\ putchar_core(y, c) = TabSteps(y)[TAB - (y.cursor_col % TAB)]
    BY <1>1, <1>5 DEF putchar_core, e
  <2>2. n = TAB - (y.cursor_col % TAB) /\ n \in Nat
    BY <1>1, TabCount DEF Alike
  <2>3. <<e, y>> \in R
    BY <1>1
  <2>4. ASSUME NEW u, NEW v, <<u, v>> \in R PROVE <<PutPlain(u, Blank), PutPlain(v, Blank)>> \in R
    <3>1. u \in Bare /\ v \in Bare /\ Alike(u, v) /\ Blank \in Chars
      BY <2>4 DEF Chars
    <3>2. PutPlain(u, Blank) \in Bare /\ PutPlain(v, Blank) \in Bare
          /\ Alike(PutPlain(u, Blank), PutPlain(v, Blank))
      BY <3>1, PlainAlike
    <3> QED
      BY <3>2
  <2> HIDE DEF R, n
  <2>5. <<TabSteps(e)[n], TabSteps(y)[n]>> \in R
    BY <2>2, <2>3, <2>4, TabInduction DEF n
  <2>6. TabSteps(e)[n] \in Bare /\ TabSteps(y)[n] \in Bare /\ Alike(TabSteps(e)[n], TabSteps(y)[n])
    BY <2>5 DEF R
  <2> QED
    BY <2>1, <2>2, <2>6
<1>6. CASE c \notin {"\n", "\r", "bs", "\t"}
  <2>1. putchar_core(x, c) = PutPlain(e, c) /\ putchar_core(y, c) = PutPlain(y, c)
    BY <1>1, <1>6 DEF putchar_core, e
  <2> QED
    BY <1>1, <2>1, PlainAlike
<1> QED
  BY <1>2, <1>3, <1>4, <1>5, <1>6

\* A string written to both.
LEMMA WriteFollows ==
  ASSUME NEW x, NEW y, Follows(x, y), NEW str \in Seq(Chars)
  PROVE  Follows(vga_write(x, str), vga_write(y, str))
<1> DEFINE R == {z \in Screen \X Bare : Follows(z[1], z[2])}
<1>1. <<x, y>> \in R
  BY DEF Follows
<1>2. ASSUME NEW u, NEW v, NEW c \in Chars, <<u, v>> \in R
      PROVE  <<putchar_core(u, c), putchar_core(v, c)>> \in R
  <2>1. Follows(u, v)
    BY <1>2
  <2>2. Follows(putchar_core(u, c), putchar_core(v, c))
    BY <2>1, PutAlike, BareFollows
  <2> QED
    BY <2>2 DEF Follows
<1> HIDE DEF R
<1>3. <<vga_write(x, str), vga_write(y, str)>> \in R
  BY <1>1, <1>2, WriteInduction
<1> QED
  BY <1>3 DEF R

\* The larger and the smaller of two numbers.
LEMMA OfTwo ==
  ASSUME NEW a \in Int, NEW b \in Int
  PROVE  /\ Max({a, b}) = IF a >= b THEN a ELSE b
         /\ Min({a, b}) = IF a <= b THEN a ELSE b
<1>1. \E x \in {a, b} : \A y \in {a, b} : x >= y
  OBVIOUS
<1>2. \E x \in {a, b} : \A y \in {a, b} : x =< y
  OBVIOUS
<1>3. Max({a, b}) \in {a, b} /\ \A y \in {a, b} : Max({a, b}) >= y
  BY <1>1, Zenon DEF Max
<1>4. Min({a, b}) \in {a, b} /\ \A y \in {a, b} : Min({a, b}) =< y
  BY <1>2, Zenon DEF Min
<1> QED
  BY <1>3, <1>4

\* The cursor goes to a place on the screen, or nowhere.
LEMMA SetCursorFields ==
  ASSUME NEW s \in Screen, NEW row \in Int, NEW col \in Int
  PROVE  \E r \in Rows, c \in Columns :
           /\ row \in Rows => r = row
           /\ col \in Columns => c = col
           /\ LET t == vga_set_cursor(s, row, col)
              IN  /\ t \in Screen /\ Same(s, t) /\ t.cells = s.cells /\ t.protected_row = s.protected_row
                  /\ IF is_position_protected(s, r, c) THEN t = s
                     ELSE t.cursor_row = r /\ t.cursor_col = c
<1> DEFINE r == Max({0, Min({row, HEIGHT - 1})})
           c == Max({0, Min({col, WIDTH - 1})})
           t == vga_set_cursor(s, row, col)
<1>1. r \in Rows /\ (row \in Rows => r = row)
  <2>1. HEIGHT - 1 \in Int /\ 0 \in Int
    BY Sizes
  <2>2. Min({row, HEIGHT - 1}) = IF row <= HEIGHT - 1 THEN row ELSE HEIGHT - 1
    BY <2>1, OfTwo
  <2> DEFINE m == Min({row, HEIGHT - 1})
  <2> HIDE DEF m
  <2>3. m \in Int
    BY <2>1, <2>2 DEF m
  <2>4. Max({0, m}) = IF 0 >= m THEN 0 ELSE m
    BY <2>1, <2>3, OfTwo
  <2> QED
    BY <2>2, <2>3, <2>4, Sizes DEF m
<1>2. c \in Columns /\ (col \in Columns => c = col)
  <2>1. WIDTH - 1 \in Int /\ 0 \in Int
    BY Sizes
  <2>2. Min({col, WIDTH - 1}) = IF col <= WIDTH - 1 THEN col ELSE WIDTH - 1
    BY <2>1, OfTwo
  <2> DEFINE m == Min({col, WIDTH - 1})
  <2> HIDE DEF m
  <2>3. m \in Int
    BY <2>1, <2>2 DEF m
  <2>4. Max({0, m}) = IF 0 >= m THEN 0 ELSE m
    BY <2>1, <2>3, OfTwo
  <2> QED
    BY <2>2, <2>3, <2>4, Sizes DEF m
<1>3. t = IF is_position_protected(s, r, c) THEN s ELSE [s EXCEPT !.cursor_row = r, !.cursor_col = c]
  BY Zenon DEF vga_set_cursor
<1> HIDE DEF r, c
<1>4. CASE is_position_protected(s, r, c)
  <2>1. t = s
    BY <1>3, <1>4
  <2> QED
    BY <1>1, <1>2, <1>4, <2>1 DEF Same
<1>5. CASE ~ is_position_protected(s, r, c)
  <2>1. t = [s EXCEPT !.cursor_row = r, !.cursor_col = c]
    BY <1>3, <1>5
  <2> HIDE DEF t
  <2>2. /\ t \in Screen /\ Same(s, t) /\ t.cells = s.cells /\ t.protected_row = s.protected_row
        /\ t.cursor_row = r /\ t.cursor_col = c
    BY <1>1, <1>2, <2>1 DEF Screen, Same
  <2> QED
    BY <1>1, <1>2, <1>5, <2>2 DEF t
<1> QED
  BY <1>4, <1>5

\* The boundary is set to the cursor.
LEMMA ProtectFields ==
  ASSUME NEW s \in Screen
  PROVE  LET t == vga_protect_before_cursor(s)
         IN  /\ t \in Screen /\ t.cells = s.cells /\ t.cursor_row = s.cursor_row /\ t.cursor_col = s.cursor_col
             /\ t.protection_enabled = TRUE
             /\ t.protected_row = s.cursor_row /\ t.protected_col = s.cursor_col
             /\ t.pointer_active = s.pointer_active /\ t.pointer_row = s.pointer_row
             /\ t.pointer_col = s.pointer_col /\ t.pointer_under = s.pointer_under
BY DEF vga_protect_before_cursor, Screen

\* A screen that is cleared has no pointer and no boundary.
LEMMA ClearFields ==
  ASSUME NEW s \in Screen
  PROVE  LET t == vga_clear(s)
             e == mouse_pointer_erase(s)
         IN  /\ t \in Bare /\ t.cells = [i \in Cells |-> Blank] /\ t.cursor_row = 0 /\ t.cursor_col = 0
             /\ t.protection_enabled = FALSE
             /\ t.protected_row = e.protected_row /\ t.protected_col = e.protected_col
<1> DEFINE t == vga_clear(s)
           e == mouse_pointer_erase(s)
           f == [i \in Cells |-> Blank]
<1>1. e \in Bare /\ e \in Screen /\ e.pointer_active = FALSE
  BY Erased DEF Bare
<1>2. f \in [Cells -> Chars] /\ 0 \in Rows /\ 0 \in Columns
  BY Sizes DEF Chars
<1>3. t = [e EXCEPT !.cells = f, !.cursor_row = 0, !.cursor_col = 0, !.protection_enabled = FALSE]
  BY Zenon DEF vga_clear
<1> HIDE DEF e, f, t
<1>4. t \in Screen /\ t.pointer_active = FALSE
  BY <1>1, <1>2, <1>3 DEF Screen
<1>5. t.cells = f /\ t.cursor_row = 0 /\ t.cursor_col = 0 /\ t.protection_enabled = FALSE
  BY <1>1, <1>2, <1>3 DEF Screen
<1>6. t.protected_row = e.protected_row /\ t.protected_col = e.protected_col
  BY <1>1, <1>2, <1>3 DEF Screen
<1> QED
  BY <1>4, <1>5, <1>6 DEF e, f, t, Bare

\* The calls of the shell.
Edits == {Put(x) : x \in Chars} \cup {SetCursor(p) : p \in Int \X Int}
ScreenCalls == Edits \cup {Write(x) : x \in Seq(Chars)} \cup {Clear, Protect, GetCursor}

\* What a system call can be.
LEMMA CallCases ==
  ASSUME NEW c \in ScreenCalls
  PROVE  \/ \E x \in Chars : c = Put(x)
         \/ \E x \in Seq(Chars) : c = Write(x)
         \/ \E r \in Int : \E k \in Int : c = SetCursor(<<r, k>>)
         \/ c = Clear \/ c = Protect \/ c = GetCursor
<1>1. ASSUME c \in {Put(x) : x \in Chars} PROVE \E x \in Chars : c = Put(x)
  BY <1>1, Zenon
<1>2. ASSUME c \in {Write(x) : x \in Seq(Chars)} PROVE \E x \in Seq(Chars) : c = Write(x)
  BY <1>2, Zenon
<1>3. ASSUME c \in {SetCursor(p) : p \in Int \X Int} PROVE \E r \in Int : \E k \in Int : c = SetCursor(<<r, k>>)
  <2>1. PICK p \in Int \X Int : c = SetCursor(p)
    BY <1>3, Zenon
  <2>2. p = <<p[1], p[2]>> /\ p[1] \in Int /\ p[2] \in Int
    OBVIOUS
  <2> QED
    BY <2>1, <2>2
<1> QED
  BY <1>1, <1>2, <1>3, Zenon DEF ScreenCalls, Edits

\* Calls by their fields.
LEMMA CallFields ==
  /\ \A x : Put(x).call = "putchar" /\ Put(x).c = x
  /\ \A x : Write(x).call = "write" /\ Write(x).str = x
  /\ \A r, k : LET c == SetCursor(<<r, k>>) IN c.call = "set_cursor" /\ c.row = r /\ c.col = k
  /\ Clear.call = "clear" /\ Protect.call = "protect" /\ GetCursor.call = "get_cursor"
BY DEF Put, Write, SetCursor, Clear, Protect, GetCursor

\* The editor makes system calls, and none of them asks for the cursor.
LEMMA EditsAreCalls ==
  Edits \subseteq ScreenCalls
  /\ \A q \in Seq(Edits) : q \in Seq(ScreenCalls) /\ \A i \in DOMAIN q : q[i].call # "get_cursor"
<1>1. Edits \subseteq ScreenCalls
  BY DEF ScreenCalls
<1>2. \A x \in Edits : x.call # "get_cursor"
  <2> SUFFICES ASSUME NEW x \in Edits PROVE x.call # "get_cursor"
    OBVIOUS
  <2>1. ASSUME x \in {Put(y) : y \in Chars} PROVE x.call # "get_cursor"
    <3>1. PICK y \in Chars : x = Put(y)
      BY <2>1, Zenon
    <3>2. x.call = "putchar"
      BY <3>1, CallFields
    <3> QED
      BY <3>2
  <2>2. ASSUME x \in {SetCursor(p) : p \in Int \X Int} PROVE x.call # "get_cursor"
    <3>1. PICK p \in Int \X Int : x = SetCursor(p)
      BY <2>2, Zenon
    <3>2. x.call = "set_cursor"
      BY <3>1 DEF SetCursor
    <3> QED
      BY <3>2
  <2> QED
    BY <2>1, <2>2, Zenon DEF Edits
<1> HIDE DEF Edits, ScreenCalls
<1>3. ASSUME NEW q \in Seq(Edits) PROVE q \in Seq(ScreenCalls) /\ \A i \in DOMAIN q : q[i].call # "get_cursor"
  <2>1. \A i \in DOMAIN q : q[i] \in Edits
    OBVIOUS
  <2>2. q \in Seq(ScreenCalls)
    BY <1>1
  <2> QED
    BY <1>2, <2>1, <2>2
<1> QED
  BY <1>1, <1>3

\* What each does.
LEMMA Dispatched ==
  ASSUME NEW s
  PROVE  /\ \A x : syscall_dispatcher(s, Put(x)) = putchar_core(s, x)
         /\ \A x : syscall_dispatcher(s, Write(x)) = vga_write(s, x)
         /\ \A r, k : syscall_dispatcher(s, SetCursor(<<r, k>>)) = vga_set_cursor(s, r, k)
         /\ syscall_dispatcher(s, Clear) = vga_clear(s)
         /\ syscall_dispatcher(s, Protect) = vga_protect_before_cursor(s)
         /\ syscall_dispatcher(s, GetCursor) = s
<1>1. ASSUME NEW x PROVE syscall_dispatcher(s, Put(x)) = putchar_core(s, x)
  <2>1. PICK c : c = Put(x)
    OBVIOUS
  <2>2. c.call = "putchar" /\ c.c = x
    BY <2>1, CallFields
  <2>3. syscall_dispatcher(s, c) = putchar_core(s, x)
    BY <2>2 DEF syscall_dispatcher
  <2> QED
    BY <2>1, <2>3
<1>2. ASSUME NEW x PROVE syscall_dispatcher(s, Write(x)) = vga_write(s, x)
  <2>1. PICK c : c = Write(x)
    OBVIOUS
  <2>2. c.call = "write" /\ c.str = x
    BY <2>1, CallFields
  <2>3. syscall_dispatcher(s, c) = vga_write(s, x)
    BY <2>2 DEF syscall_dispatcher
  <2> QED
    BY <2>1, <2>3
<1>3. ASSUME NEW r, NEW k PROVE syscall_dispatcher(s, SetCursor(<<r, k>>)) = vga_set_cursor(s, r, k)
  <2>1. PICK c : c = SetCursor(<<r, k>>)
    OBVIOUS
  <2>2. c.call = "set_cursor" /\ c.row = r /\ c.col = k
    BY <2>1, CallFields
  <2>3. syscall_dispatcher(s, c) = vga_set_cursor(s, r, k)
    BY <2>2 DEF syscall_dispatcher
  <2> QED
    BY <2>1, <2>3
<1>4. ASSUME NEW c, c = Clear PROVE syscall_dispatcher(s, c) = vga_clear(s)
  <2>1. c.call = "clear"
    BY <1>4, CallFields
  <2> QED
    BY <2>1 DEF syscall_dispatcher
<1>5. ASSUME NEW c, c = Protect PROVE syscall_dispatcher(s, c) = vga_protect_before_cursor(s)
  <2>1. c.call = "protect"
    BY <1>5, CallFields
  <2> QED
    BY <2>1 DEF syscall_dispatcher
<1>6. ASSUME NEW c, c = GetCursor PROVE syscall_dispatcher(s, c) = s
  <2>1. c.call = "get_cursor"
    BY <1>6, CallFields
  <2> QED
    BY <2>1 DEF syscall_dispatcher
<1> QED
  BY <1>1, <1>2, <1>3, <1>4, <1>5, <1>6

\* The one call with a place as its argument.
LEMMA CursorCall ==
  ASSUME NEW s, NEW r, NEW k
  PROVE  syscall_dispatcher(s, SetCursor(<<r, k>>)) = vga_set_cursor(s, r, k)
BY Dispatched

\* The text depends on cells and pointer alone.
LEMMA SameErased ==
  ASSUME NEW s \in Screen, NEW t \in Screen, t.cells = s.cells,
         t.pointer_active = s.pointer_active, t.pointer_row = s.pointer_row,
         t.pointer_col = s.pointer_col, t.pointer_under = s.pointer_under
  PROVE  mouse_pointer_erase(t).cells = mouse_pointer_erase(s).cells
<1>1. mouse_pointer_erase(s).cells = IF s.pointer_active
        THEN [s.cells EXCEPT ![At(s.pointer_row, s.pointer_col)] = s.pointer_under] ELSE s.cells
  BY Erased
<1>2. mouse_pointer_erase(t).cells = IF t.pointer_active
        THEN [t.cells EXCEPT ![At(t.pointer_row, t.pointer_col)] = t.pointer_under] ELSE t.cells
  BY Erased
<1> QED
  BY <1>1, <1>2

\* Each does the same to a screen with the pointer and to one without.
LEMMA CallFollows ==
  ASSUME NEW x, NEW y, Follows(x, y), NEW c \in ScreenCalls
  PROVE  Follows(syscall_dispatcher(x, c), syscall_dispatcher(y, c))
<1>0. x \in Screen /\ y \in Bare /\ y \in Screen /\ y.pointer_active = FALSE /\ Alike(mouse_pointer_erase(x), y)
  BY DEF Follows, Bare
<1>1. ASSUME NEW k \in Chars, c = Put(k) PROVE Follows(syscall_dispatcher(x, c), syscall_dispatcher(y, c))
  <2>1. syscall_dispatcher(x, c) = putchar_core(x, k) /\ syscall_dispatcher(y, c) = putchar_core(y, k)
    BY <1>1, Dispatched
  <2> QED
    BY <2>1, PutAlike, BareFollows
<1>2. ASSUME NEW k \in Seq(Chars), c = Write(k)
      PROVE  Follows(syscall_dispatcher(x, c), syscall_dispatcher(y, c))
  <2>1. syscall_dispatcher(x, c) = vga_write(x, k) /\ syscall_dispatcher(y, c) = vga_write(y, k)
    BY <1>2, Dispatched
  <2> QED
    BY <2>1, WriteFollows
<1>3. ASSUME NEW r \in Int, NEW k \in Int, c = SetCursor(<<r, k>>)
      PROVE  Follows(syscall_dispatcher(x, c), syscall_dispatcher(y, c))
  <2> DEFINE s == vga_set_cursor(x, r, k)
             t == vga_set_cursor(y, r, k)
             d == Max({0, Min({r, HEIGHT - 1})})
             b == Max({0, Min({k, WIDTH - 1})})
  <2>1. /\ s \in Screen /\ Same(x, s) /\ s.cells = x.cells /\ s.protected_row = x.protected_row
        /\ t \in Screen /\ Same(y, t) /\ t.cells = y.cells /\ t.protected_row = y.protected_row
    BY <1>0, SetCursorFields
  <2>2. s = IF is_position_protected(x, d, b) THEN x ELSE [x EXCEPT !.cursor_row = d, !.cursor_col = b]
    BY Zenon DEF vga_set_cursor
  <2>3. t = IF is_position_protected(y, d, b) THEN y ELSE [y EXCEPT !.cursor_row = d, !.cursor_col = b]
    BY Zenon DEF vga_set_cursor
  <2>4. is_position_protected(x, d, b) <=> is_position_protected(y, d, b)
    BY <1>0, Erased DEF Alike, is_position_protected
  <2>5. x.cursor_row = y.cursor_row /\ x.cursor_col = y.cursor_col
    BY <1>0, Erased DEF Alike
  <2>6. s.cursor_row = t.cursor_row /\ s.cursor_col = t.cursor_col
    <3> HIDE DEF s, t, d, b
    <3> QED
      BY <1>0, <2>2, <2>3, <2>4, <2>5 DEF Screen
  <2> HIDE DEF s, t
  <2>7. mouse_pointer_erase(s).cells = mouse_pointer_erase(x).cells
    BY <1>0, <2>1, SameErased DEF Same
  <2>8. Alike(mouse_pointer_erase(s), t)
    BY <1>0, <2>1, <2>6, <2>7, Erased DEF Alike, Same
  <2>9. t \in Bare
    BY <1>0, <2>1 DEF Bare, Same
  <2> QED
    BY <1>3, <2>1, <2>8, <2>9, Dispatched DEF s, t, Follows
<1>4. ASSUME c = Clear PROVE Follows(syscall_dispatcher(x, c), syscall_dispatcher(y, c))
  <2>1. Alike(vga_clear(x), vga_clear(y))
    BY <1>0, ClearFields, Erased DEF Alike
  <2>2. syscall_dispatcher(x, c) = vga_clear(x) /\ syscall_dispatcher(y, c) = vga_clear(y)
    BY <1>4, Dispatched
  <2>3. vga_clear(x) \in Bare /\ vga_clear(y) \in Bare
    BY <1>0, ClearFields
  <2> QED
    BY <2>1, <2>2, <2>3, BareFollows
<1>5. ASSUME c = Protect PROVE Follows(syscall_dispatcher(x, c), syscall_dispatcher(y, c))
  <2> DEFINE s == vga_protect_before_cursor(x)
             t == vga_protect_before_cursor(y)
  <2>1. /\ s \in Screen /\ s.cells = x.cells /\ s.cursor_row = x.cursor_row /\ s.cursor_col = x.cursor_col
        /\ s.protection_enabled = TRUE
        /\ s.protected_row = x.cursor_row /\ s.protected_col = x.cursor_col
        /\ s.pointer_active = x.pointer_active /\ s.pointer_row = x.pointer_row
        /\ s.pointer_col = x.pointer_col /\ s.pointer_under = x.pointer_under
    BY <1>0, ProtectFields
  <2>2. /\ t \in Bare /\ t.cells = y.cells /\ t.cursor_row = y.cursor_row /\ t.cursor_col = y.cursor_col
        /\ t.protection_enabled = TRUE
        /\ t.protected_row = y.cursor_row /\ t.protected_col = y.cursor_col
    BY <1>0, ProtectFields DEF Bare
  <2> HIDE DEF s, t
  <2>3. mouse_pointer_erase(s).cells = mouse_pointer_erase(x).cells
    BY <1>0, <2>1, SameErased
  <2>4. Alike(mouse_pointer_erase(s), t)
    <3> DEFINE e == mouse_pointer_erase(s)
               f == mouse_pointer_erase(x)
    <3>1. /\ e.cursor_row = s.cursor_row /\ e.cursor_col = s.cursor_col
          /\ e.protection_enabled = s.protection_enabled
          /\ e.protected_row = s.protected_row /\ e.protected_col = s.protected_col
      BY <2>1, Erased
    <3>2. f.cursor_row = x.cursor_row /\ f.cursor_col = x.cursor_col
      BY <1>0, Erased
    <3>3. f.cells = y.cells /\ f.cursor_row = y.cursor_row /\ f.cursor_col = y.cursor_col
      BY <1>0 DEF Alike
    <3> HIDE DEF e, f
    <3>4. Alike(e, t)
      BY <2>1, <2>2, <2>3, <3>1, <3>2, <3>3 DEF Alike, e, f
    <3> QED
      BY <3>4 DEF e
  <2> QED
    BY <1>5, <2>1, <2>2, <2>4, Dispatched DEF s, t, Follows
<1>6. ASSUME c = GetCursor PROVE Follows(syscall_dispatcher(x, c), syscall_dispatcher(y, c))
  BY <1>6, Dispatched
<1> QED
  BY <1>1, <1>2, <1>3, <1>4, <1>5, <1>6, CallCases, Zenon

--------------------------------------------------------------------------------
(* Places on the screen. *)

\* Rows in order are cells in order.
LEMMA Multiples ==
  ASSUME NEW a \in Int, NEW b \in Int, a <= b
  PROVE  a * WIDTH \in Int /\ b * WIDTH \in Int /\ a * WIDTH <= b * WIDTH
<1>1. b - a \in Nat /\ WIDTH \in Nat
  BY Sizes
<1>2. (b - a) * WIDTH >= 0
  BY <1>1
<1>3. (b - a) * WIDTH = b * WIDTH - a * WIDTH
  BY <1>1
<1> QED
  BY <1>1, <1>2, <1>3

\* Cells come in the order of rows and columns.
LEMMA CellOrder ==
  ASSUME NEW r \in Int, NEW c \in Columns, NEW p \in Int, NEW d \in Columns
  PROVE  /\ At(r, c) \in Int
         /\ At(r, c) < At(p, d) <=> r < p \/ (r = p /\ c < d)
         /\ At(r, c) = At(p, d) => r = p /\ c = d
<1>1. c \in Int /\ 0 <= c /\ c < WIDTH /\ d \in Int /\ 0 <= d /\ d < WIDTH /\ WIDTH \in Nat
  BY Sizes
<1>2. r * WIDTH \in Int /\ p * WIDTH \in Int
  BY <1>1
<1>3. CASE r < p
  <2>1. (r + 1) * WIDTH <= p * WIDTH
    BY <1>3, Multiples
  <2>2. (r + 1) * WIDTH = r * WIDTH + WIDTH
    BY <1>1
  <2> QED
    BY <1>1, <1>2, <1>3, <2>1, <2>2 DEF At
<1>4. CASE p < r
  <2>1. (p + 1) * WIDTH <= r * WIDTH
    BY <1>4, Multiples
  <2>2. (p + 1) * WIDTH = p * WIDTH + WIDTH
    BY <1>1
  <2> QED
    BY <1>1, <1>2, <1>4, <2>1, <2>2 DEF At
<1>5. CASE r = p
  BY <1>1, <1>2, <1>5 DEF At
<1> QED
  BY <1>3, <1>4, <1>5

\* A place is on the screen when its row is.
LEMMA CellRange ==
  ASSUME NEW r \in Int, NEW c \in Columns
  PROVE  At(r, c) \in Cells <=> r \in Rows
<1>1. 0 \in Columns /\ 0 * WIDTH = 0 /\ HEIGHT * WIDTH = WIDTH * HEIGHT /\ 0 \in Int /\ HEIGHT \in Int
      /\ c \in Int
      /\ WIDTH * HEIGHT \in Int
  BY Sizes
<1>2. At(0, 0) = 0 /\ At(HEIGHT, 0) = WIDTH * HEIGHT
  BY <1>1 DEF At
<1>3. At(r, c) < At(HEIGHT, 0) <=> r < HEIGHT \/ (r = HEIGHT /\ c < 0)
  BY <1>1, CellOrder
<1>4. At(r, c) < At(0, 0) <=> r < 0 \/ (r = 0 /\ c < 0)
  BY <1>1, CellOrder
<1>5. At(r, c) \in Int /\ ~ c < 0
  BY <1>1, CellOrder, Sizes
<1> QED
  BY <1>1, <1>2, <1>3, <1>4, <1>5, Sizes

\* To be protected is to be before the boundary.
LEMMA BoundaryOrder ==
  ASSUME NEW s \in Screen, NEW r \in Int, NEW c \in Columns
  PROVE  /\ Boundary(s) \in Nat
         /\ is_position_protected(s, r, c) <=> s.protection_enabled /\ At(r, c) < At(s.protected_row, s.protected_col)
         /\ r \in Rows => (is_position_protected(s, r, c) <=> At(r, c) < Boundary(s))
<1>1. s.protected_row \in Int /\ s.protected_row \in Rows /\ s.protected_col \in Columns
      /\ s.protection_enabled \in BOOLEAN
  BY Sizes DEF Screen
<1>2. At(r, c) < At(s.protected_row, s.protected_col)
        <=> r < s.protected_row \/ (r = s.protected_row /\ c < s.protected_col)
  BY <1>1, CellOrder
<1>3. At(s.protected_row, s.protected_col) \in Cells
  BY <1>1, CellRange
<1>4. r \in Rows => At(r, c) >= 0 /\ At(r, c) \in Int
  BY CellRange, Sizes
<1> QED
  BY <1>1, <1>2, <1>3, <1>4, Sizes DEF Boundary, is_position_protected

\* The place of a character of the line.
LEMMA LinePlaces ==
  ASSUME NEW e, e.start_row \in Int, e.start_col \in Columns, NEW pos \in Nat
  PROVE  \E r \in Int, c \in Columns :
           LinePlace(e, pos) = <<r, c>> /\ At(r, c) = At(e.start_row, e.start_col) + pos
<1> DEFINE a == e.start_col + pos
           q == a \div WIDTH
           c == a % WIDTH
           r == e.start_row + q
<1>1. a \in Nat /\ WIDTH \in Nat \ {0} /\ e.start_col \in Int /\ e.start_row * WIDTH \in Int
  BY Sizes
<1>2. q \in Int /\ c \in 0 .. WIDTH - 1
  <2> HIDE DEF a
  <2> QED
    BY <1>1
<1>3. a = q * WIDTH + c
  <2> HIDE DEF a
  <2> QED
    BY <1>1
<1>4. (e.start_row + q) * WIDTH = e.start_row * WIDTH + q * WIDTH /\ q * WIDTH \in Int
  <2> HIDE DEF q
  <2> QED
    BY <1>1, <1>2
<1>5. LinePlace(e, pos) = <<r, c>>
  BY DEF LinePlace
<1>6. At(r, c) = At(e.start_row, e.start_col) + pos
  <2>1. r * WIDTH = e.start_row * WIDTH + q * WIDTH
    BY <1>4
  <2> HIDE DEF q, c, r
  <2>2. r * WIDTH + c = e.start_row * WIDTH + a
    BY <1>1, <1>2, <1>3, <1>4, <2>1
  <2>3. e.start_row * WIDTH + a = (e.start_row * WIDTH + e.start_col) + pos
    BY <1>1
  <2> QED
    BY <2>2, <2>3 DEF At
<1>7. r \in Int /\ c \in Columns
  BY <1>2 DEF Columns
<1> QED
  BY <1>5, <1>6, <1>7

--------------------------------------------------------------------------------
(* Calls one after the other. *)

Reaches(s, q, t) ==
  \E tr : /\ tr[0] = s /\ tr[Len(q)] = t
          /\ \A i \in 1 .. Len(q) : tr[i] = syscall_dispatcher(tr[i - 1], q[i])

\* No calls lead nowhere.
LEMMA ReachNone ==
  ASSUME NEW s
  PROVE  Reaches(s, <<>>, s)
<1> DEFINE tr == [i \in 0 .. 0 |-> s]
<1>1. tr[0] = s /\ Len(<<>>) = 0
  OBVIOUS
<1> HIDE DEF tr
<1>2. tr[0] = s /\ tr[Len(<<>>)] = s /\ \A i \in 1 .. Len(<<>>) : tr[i] = syscall_dispatcher(tr[i - 1], <<>>[i])
  BY <1>1
<1> QED
  BY <1>2, Zenon DEF Reaches

\* One call.
LEMMA ReachOne ==
  ASSUME NEW s, NEW c
  PROVE  Reaches(s, <<c>>, syscall_dispatcher(s, c))
<1> DEFINE tr == [i \in 0 .. 1 |-> IF i = 0 THEN s ELSE syscall_dispatcher(s, c)]
<1>1. tr[0] = s /\ tr[1] = syscall_dispatcher(s, c) /\ Len(<<c>>) = 1 /\ <<c>>[1] = c
  OBVIOUS
<1> HIDE DEF tr
<1>2. \A i \in 1 .. Len(<<c>>) : tr[i] = syscall_dispatcher(tr[i - 1], <<c>>[i])
  <2> SUFFICES ASSUME NEW i \in 1 .. Len(<<c>>) PROVE tr[i] = syscall_dispatcher(tr[i - 1], <<c>>[i])
    OBVIOUS
  <2>1. i = 1 /\ i - 1 = 0
    BY <1>1
  <2> QED
    BY <1>1, <2>1
<1> QED
  BY <1>1, <1>2 DEF Reaches

\* Calls after calls.
LEMMA ReachThen ==
  ASSUME NEW q \in Seq(ScreenCalls), NEW r \in Seq(ScreenCalls), NEW s, NEW t, NEW u,
         Reaches(s, q, t), Reaches(t, r, u)
  PROVE  Reaches(s, q \o r, u)
<1>1. PICK f : f[0] = s /\ f[Len(q)] = t /\ \A i \in 1 .. Len(q) : f[i] = syscall_dispatcher(f[i - 1], q[i])
  BY DEF Reaches
<1>2. PICK g : g[0] = t /\ g[Len(r)] = u /\ \A i \in 1 .. Len(r) : g[i] = syscall_dispatcher(g[i - 1], r[i])
  BY DEF Reaches
<1> DEFINE m == Len(q)
           n == Len(r)
           h == [i \in 0 .. m + n |-> IF i <= m THEN f[i] ELSE g[i - m]]
<1>3. m \in Nat /\ n \in Nat /\ Len(q \o r) = m + n
  OBVIOUS
<1>4. \A i \in 1 .. m + n : (q \o r)[i] = IF i <= m THEN q[i] ELSE r[i - m]
  OBVIOUS
<1>5. h[0] = s /\ h[m] = t /\ (\A i \in 0 .. m : h[i] = f[i]) /\ \A i \in 0 .. n : h[m + i] = g[i]
  <2>1. \A i \in 0 .. m : h[i] = f[i]
    BY <1>3
  <2>2. ASSUME NEW i \in 0 .. n PROVE h[m + i] = g[i]
    <3>1. CASE i = 0
      BY <3>1, <1>1, <1>2, <1>3, <2>1
    <3>2. CASE i # 0
      <4>1. m + i \in 0 .. m + n /\ ~ (m + i <= m) /\ (m + i) - m = i
        BY <3>2, <1>3
      <4> QED
        BY <4>1
    <3> QED
      BY <3>1, <3>2
  <2> QED
    BY <1>1, <1>3, <2>1, <2>2
<1> HIDE DEF h
<1>6. ASSUME NEW i \in 1 .. m + n PROVE h[i] = syscall_dispatcher(h[i - 1], (q \o r)[i])
  <2>1. CASE i <= m
    <3>1. i \in 1 .. m /\ i \in 0 .. m /\ i - 1 \in 0 .. m
      BY <2>1, <1>3
    <3> QED
      BY <3>1, <1>1, <1>4, <1>5, <2>1
  <2>2. CASE ~ i <= m
    <3> DEFINE j == i - m
    <3>1. j \in 1 .. n /\ j \in 0 .. n /\ j - 1 \in 0 .. n /\ m + j = i /\ m + (j - 1) = i - 1
      BY <2>2, <1>3
    <3>2. (q \o r)[i] = r[j]
      BY <1>4, <2>2
    <3> HIDE DEF j
    <3>3. h[i] = g[j] /\ h[i - 1] = g[j - 1] /\ g[j] = syscall_dispatcher(g[j - 1], r[j])
      BY <3>1, <1>2, <1>5
    <3> QED
      BY <3>2, <3>3
  <2> QED
    BY <2>1, <2>2
<1>7. h[m + n] = u
  BY <1>2, <1>3, <1>5
<1>8. h[0] = s /\ h[Len(q \o r)] = u
      /\ \A i \in 1 .. Len(q \o r) : h[i] = syscall_dispatcher(h[i - 1], (q \o r)[i])
  BY <1>3, <1>5, <1>6, <1>7
<1> QED
  BY <1>8 DEF Reaches

\* The first of them is made.
LEMMA ReachHead ==
  ASSUME NEW q \in Seq(ScreenCalls), q # <<>>, NEW s, NEW t, Reaches(s, q, t)
  PROVE  Reaches(syscall_dispatcher(s, Head(q)), Tail(q), t)
<1>1. PICK f : f[0] = s /\ f[Len(q)] = t /\ \A i \in 1 .. Len(q) : f[i] = syscall_dispatcher(f[i - 1], q[i])
  BY DEF Reaches
<1> DEFINE n == Len(q) - 1
           g == [i \in 0 .. n |-> f[i + 1]]
<1>2. n \in Nat /\ n + 1 = Len(q) /\ Len(Tail(q)) = n /\ Head(q) = q[1]
      /\ \A i \in 1 .. n : Tail(q)[i] = q[i + 1]
  OBVIOUS
<1>3. \A i \in 0 .. n : g[i] = f[i + 1]
  OBVIOUS
<1> HIDE DEF n, g
<1>4. g[0] = syscall_dispatcher(s, Head(q))
  <2>1. 1 \in 1 .. Len(q) /\ 0 \in 0 .. n /\ 0 + 1 = 1 /\ 1 - 1 = 0
    BY <1>2
  <2>2. f[1] = syscall_dispatcher(f[1 - 1], q[1])
    BY <2>1, <1>1
  <2> QED
    BY <1>1, <1>2, <1>3, <2>1, <2>2
<1>5. g[n] = t
  BY <1>1, <1>2, <1>3
<1>6. ASSUME NEW i \in 1 .. n PROVE g[i] = syscall_dispatcher(g[i - 1], Tail(q)[i])
  <2>1. i \in 0 .. n /\ i - 1 \in 0 .. n /\ i + 1 \in 1 .. Len(q) /\ (i - 1) + 1 = i /\ (i + 1) - 1 = i
    BY <1>2
  <2>2. g[i] = f[i + 1] /\ g[i - 1] = f[i] /\ f[i + 1] = syscall_dispatcher(f[i], q[i + 1])
    BY <1>1, <1>3, <2>1
  <2> QED
    BY <1>2, <2>2
<1> QED
  BY <1>2, <1>4, <1>5, <1>6 DEF Reaches

--------------------------------------------------------------------------------
(* What the calls of the editor do to a screen whose boundary is the start of the line. *)

Edge(s, r, c) ==
  s \in Bare /\ s.protection_enabled = TRUE /\ s.protected_row = r /\ s.protected_col = c

Cursor(s) == At(s.cursor_row, s.cursor_col)

Plain == Chars \ {"\n", "\r", "bs", "\t"}

\* The cursor is in a cell.
LEMMA CursorOnScreen ==
  ASSUME NEW s \in Screen
  PROVE  /\ s.cursor_row \in Rows /\ s.cursor_row \in Int /\ s.cursor_col \in Columns
         /\ Cursor(s) \in Cells /\ Cursor(s) \in Int /\ 0 <= Cursor(s) /\ Cursor(s) < WIDTH * HEIGHT
<1>1. s.cursor_row \in Rows /\ s.cursor_row \in Int /\ s.cursor_col \in Columns
  BY Sizes DEF Screen
<1>2. Cursor(s) \in Cells
  BY <1>1, CellRange DEF Cursor
<1> QED
  BY <1>1, <1>2, Sizes

\* A character behind the boundary is written, and the cursor goes on by one.
LEMMA PutOne ==
  ASSUME NEW r \in Rows, NEW c \in Columns, NEW s, Edge(s, r, c), NEW x \in Plain,
         At(r, c) <= Cursor(s), Cursor(s) + 1 < WIDTH * HEIGHT
  PROVE  LET t == putchar_core(s, x)
         IN  /\ Edge(t, r, c) /\ Cursor(t) = Cursor(s) + 1
             /\ t.cells = [s.cells EXCEPT ![Cursor(s)] = x]
<1> DEFINE t == putchar_core(s, x)
<1>0. s \in Screen /\ s.pointer_active = FALSE /\ x \in Chars
  BY DEF Edge, Bare, Plain
<1>1. mouse_pointer_erase(s) = s
  BY Erased DEF Edge, Bare
<1>2. t = PutPlain(s, x)
  BY <1>1 DEF putchar_core, Plain
<1>3. s.cursor_row \in Rows /\ s.cursor_row \in Int /\ s.cursor_col \in Columns /\ Cursor(s) \in Int
      /\ r \in Int /\ At(r, c) \in Int
  BY <1>0, CursorOnScreen, Sizes, CellOrder
<1>4. ~ is_position_protected(s, s.cursor_row, s.cursor_col)
  BY <1>0, <1>3, BoundaryOrder DEF Edge, Cursor
<1>5. /\ t \in Screen /\ Same(s, t) /\ t.protected_row = s.protected_row
      /\ t.cells = [s.cells EXCEPT ![At(s.cursor_row, s.cursor_col)] = x]
      /\ IF s.cursor_col < WIDTH - 1
         THEN t.cursor_row = s.cursor_row /\ t.cursor_col = s.cursor_col + 1
         ELSE IF s.cursor_row < HEIGHT - 1
         THEN t.cursor_row = s.cursor_row + 1 /\ t.cursor_col = 0
         ELSE t.cursor_row = s.cursor_row /\ t.cursor_col = s.cursor_col
  BY <1>0, <1>2, <1>4, PlainFields
<1> HIDE DEF t
<1>6. Edge(t, r, c)
  BY <1>0, <1>5 DEF Edge, Bare, Same
<1>7. Cursor(t) = Cursor(s) + 1
  <2>0. /\ s.cursor_row * WIDTH \in Int /\ s.cursor_col \in Int /\ 0 <= s.cursor_col
        /\ s.cursor_col < WIDTH /\ WIDTH \in Int
        /\ HEIGHT \in Int /\ s.cursor_row < HEIGHT /\ WIDTH * HEIGHT \in Int
    BY <1>3, Sizes
  <2>1. CASE s.cursor_col < WIDTH - 1
    <3>1. t.cursor_row = s.cursor_row /\ t.cursor_col = s.cursor_col + 1
      BY <1>5, <2>1
    <3> QED
      BY <3>1, <2>0 DEF Cursor, At
  <2>2. CASE ~ s.cursor_col < WIDTH - 1 /\ s.cursor_row < HEIGHT - 1
    <3>1. t.cursor_row = s.cursor_row + 1 /\ t.cursor_col = 0
      BY <1>5, <2>2
    <3>2. (s.cursor_row + 1) * WIDTH = s.cursor_row * WIDTH + WIDTH
      <4>1. \A k \in Int : (k + 1) * WIDTH = k * WIDTH + WIDTH
        BY <2>0
      <4> QED
        BY <1>3, <4>1
    <3>3. s.cursor_col = WIDTH - 1
      BY <2>0, <2>2
    <3> QED
      BY <3>1, <3>2, <3>3, <2>0 DEF Cursor, At
  <2>3. CASE ~ s.cursor_col < WIDTH - 1 /\ ~ s.cursor_row < HEIGHT - 1
    <3>1. s.cursor_row = HEIGHT - 1 /\ s.cursor_col = WIDTH - 1
      BY <1>3, <2>0, <2>3
    <3>2. (HEIGHT - 1) * WIDTH = WIDTH * HEIGHT - WIDTH
      BY <2>0
    <3>3. Cursor(s) = WIDTH * HEIGHT - 1
      BY <3>1, <3>2, <2>0 DEF Cursor, At
    <3> QED
      BY <3>3, <2>0
  <2> QED
    BY <2>1, <2>2, <2>3
<1> QED
  BY <1>5, <1>6, <1>7 DEF t, Cursor

\* The cursor is moved to a place behind the boundary.
LEMMA MoveTo ==
  ASSUME NEW r \in Rows, NEW c \in Columns, NEW s, Edge(s, r, c), NEW row \in Rows, NEW col \in Columns,
         At(r, c) <= At(row, col)
  PROVE  LET t == vga_set_cursor(s, row, col)
         IN  Edge(t, r, c) /\ Cursor(t) = At(row, col) /\ t.cells = s.cells
<1> DEFINE t == vga_set_cursor(s, row, col)
<1>0. s \in Screen /\ s.pointer_active = FALSE /\ row \in Int /\ col \in Int /\ r \in Int
  BY Sizes DEF Edge, Bare
<1>1. At(r, c) \in Int /\ At(row, col) \in Int
  BY <1>0, CellOrder
<1>2. ~ is_position_protected(s, row, col)
  BY <1>0, <1>1, BoundaryOrder DEF Edge
<1>3. /\ t \in Screen /\ Same(s, t) /\ t.cells = s.cells /\ t.protected_row = s.protected_row
      /\ t.cursor_row = row /\ t.cursor_col = col
  BY <1>0, <1>2, SetCursorFields
<1> QED
  BY <1>0, <1>3 DEF Edge, Bare, Same, Cursor

\* Several characters.
Printed(s, b, t, r, c) ==
  /\ Reaches(s, [i \in 1 .. Len(b) |-> Put(b[i])], t)
  /\ Edge(t, r, c) /\ Cursor(t) = Cursor(s) + Len(b)
  /\ \A x \in Cells :
       t.cells[x] = IF Cursor(s) <= x /\ x < Cursor(s) + Len(b) THEN b[x - Cursor(s) + 1]
                                                              ELSE s.cells[x]

\* A string behind the boundary, for which there is room, is written as it is.
LEMMA PutMany ==
  ASSUME NEW r \in Rows, NEW c \in Columns, NEW s, Edge(s, r, c), NEW b \in Seq(Plain),
         At(r, c) <= Cursor(s), Cursor(s) + Len(b) < WIDTH * HEIGHT
  PROVE  \E t : Printed(s, b, t, r, c)
<1> DEFINE q(n) == [i \in 1 .. n |-> Put(b[i])]
           a == Cursor(s)
           Done(n, t) == /\ Reaches(s, q(n), t) /\ Edge(t, r, c) /\ Cursor(t) = a + n
                         /\ \A x \in Cells :
                              t.cells[x] = IF a <= x /\ x < a + n THEN b[x - a + 1] ELSE s.cells[x]
           N == {n \in Nat : n <= Len(b) => \E t : Done(n, t)}
<1>0. /\ s \in Screen /\ a \in Int /\ 0 <= a /\ At(r, c) \in Int /\ WIDTH * HEIGHT \in Int
      /\ Len(b) \in Nat /\ \A i \in 1 .. Len(b) : b[i] \in Plain /\ b[i] \in Chars
  <2>1. s \in Screen /\ r \in Int
    BY Sizes DEF Edge, Bare
  <2> QED
    BY <2>1, CursorOnScreen, CellOrder, Sizes DEF Plain
<1>1. 0 \in N
  <2>1. q(0) = <<>>
    OBVIOUS
  <2>2. Reaches(s, q(0), s)
    BY <2>1, ReachNone
  <2>3. \A x \in Cells : s.cells[x] = IF a <= x /\ x < a + 0 THEN b[x - a + 1] ELSE s.cells[x]
    BY <1>0, Sizes
  <2>4. Cursor(s) = a + 0
    BY <1>0
  <2> HIDE DEF q, a
  <2>5. Done(0, s)
    BY <2>2, <2>3, <2>4
  <2> QED
    BY <2>5
<1>2. ASSUME NEW n \in Nat, n \in N PROVE n + 1 \in N
  <2> SUFFICES ASSUME n + 1 <= Len(b) PROVE \E t : Done(n + 1, t)
    <3> HIDE DEF Done
    <3> QED
      OBVIOUS
  <2>1. PICK t : Done(n, t)
    <3> HIDE DEF Done
    <3> QED
      BY <1>0, <1>2
  <2> DEFINE x == b[n + 1]
             u == putchar_core(t, x)
  <2>2. x \in Plain /\ x \in Chars
    BY <1>0
  <2>3. Edge(t, r, c) /\ At(r, c) <= Cursor(t) /\ Cursor(t) + 1 < WIDTH * HEIGHT /\ Cursor(t) = a + n
    BY <1>0, <2>1
  <2>4. Edge(u, r, c) /\ Cursor(u) = a + (n + 1) /\ u.cells = [t.cells EXCEPT ![a + n] = x]
    <3> HIDE DEF x, a
    <3>1. Edge(u, r, c) /\ Cursor(u) = Cursor(t) + 1 /\ u.cells = [t.cells EXCEPT ![Cursor(t)] = x]
      BY <2>2, <2>3, PutOne
    <3> QED
      BY <3>1, <2>3, <1>0
  <2>5. q(n) \in Seq(ScreenCalls) /\ <<Put(x)>> \in Seq(ScreenCalls) /\ q(n + 1) = q(n) \o <<Put(x)>>
    <3>1. \A i \in 1 .. n + 1 : Put(b[i]) \in ScreenCalls
      BY <1>0 DEF ScreenCalls, Edits
    <3>2. q(n) \in Seq(ScreenCalls) /\ Len(q(n)) = n /\ q(n + 1) \in Seq(ScreenCalls)
          /\ Len(q(n + 1)) = n + 1 /\ <<Put(x)>> \in Seq(ScreenCalls)
      BY <3>1
    <3> DEFINE w == q(n) \o <<Put(x)>>
    <3>3. w \in Seq(ScreenCalls) /\ Len(w) = n + 1
      BY <3>2
    <3>4. \A i \in 1 .. n + 1 : w[i] = q(n + 1)[i]
      BY <3>2
    <3> QED
      BY <3>2, <3>3, <3>4, SeqEqual
  <2>6. Reaches(s, q(n + 1), u)
    <3>1. Reaches(t, <<Put(x)>>, u)
      <4>1. u = syscall_dispatcher(t, Put(x))
        BY Dispatched
      <4> QED
        BY <4>1, ReachOne
    <3> HIDE DEF q, u, x
    <3> QED
      BY <2>1, <2>5, <3>1, ReachThen
  <2>7. ASSUME NEW y \in Cells PROVE u.cells[y] = IF a <= y /\ y < a + (n + 1) THEN b[y - a + 1] ELSE s.cells[y]
    <3>1. t.cells \in [Cells -> Chars] /\ y \in Int
      BY <2>3, Sizes DEF Edge, Bare, Screen
    <3>2. u.cells[y] = IF y = a + n THEN x ELSE t.cells[y]
      BY <2>4, <3>1
    <3>3. t.cells[y] = IF a <= y /\ y < a + n THEN b[y - a + 1] ELSE s.cells[y]
      BY <2>1
    <3>4. y = a + n => b[y - a + 1] = x
      BY <1>0, <3>1
    <3> HIDE DEF u, x, a
    <3>5. a \in Int /\ n \in Nat /\ y \in Int
      BY <1>0, <3>1
    <3>6. CASE y = a + n
      <4>1. a <= y /\ y < a + (n + 1)
        BY <3>5, <3>6
      <4> QED
        BY <3>2, <3>4, <3>6, <4>1
    <3>7. CASE y # a + n
      <4>1. y < a + (n + 1) <=> y < a + n
        BY <3>5, <3>7
      <4> QED
        BY <3>2, <3>3, <3>7, <4>1
    <3> QED
      BY <3>6, <3>7
  <2>8. Done(n + 1, u)
    BY <2>4, <2>6, <2>7
  <2> HIDE DEF Done
  <2> QED
    BY <2>8
<1>3. \A n \in Nat : n \in N
  <2> HIDE DEF N
  <2> QED
    BY <1>1, <1>2, Induction
<1>4. PICK t : Done(Len(b), t)
  <2> HIDE DEF Done
  <2> QED
    BY <1>0, <1>3
<1> QED
  BY <1>4 DEF Printed

\* A row is made at the bottom: the cursor may be refused there, but then it is in the
\* last row already.
LEMMA RoomOne ==
  ASSUME NEW r \in Rows, NEW c \in Columns, NEW s, Edge(s, r, c), r > 0, At(r, c) <= Cursor(s)
  PROVE  \E t : /\ Reaches(s, <<SetCursor(<<HEIGHT - 1, 0>>), Put("\n")>>, t)
                /\ Edge(t, r - 1, c) /\ At(r - 1, c) <= Cursor(t) /\ t.cells = Shifted(s.cells)
<1> DEFINE u == vga_set_cursor(s, HEIGHT - 1, 0)
           t == putchar_core(u, "\n")
<1>0. /\ s \in Screen /\ s.pointer_active = FALSE /\ HEIGHT - 1 \in Rows /\ 0 \in Columns
      /\ HEIGHT - 1 \in Int /\ 0 \in Int
      /\ r \in Int /\ r < HEIGHT /\ r - 1 \in Int /\ HEIGHT \in Int
  BY Sizes DEF Edge, Bare
<1>1. At(r, c) \in Int /\ At(HEIGHT - 1, 0) \in Int /\ Cursor(s) \in Int /\ s.cursor_row \in Int
      /\ s.cursor_col \in Columns /\ s.cursor_row < HEIGHT
  BY <1>0, CellOrder, CursorOnScreen, Sizes
<1>2. Edge(u, r, c) /\ u.cursor_row = HEIGHT - 1 /\ u.cells = s.cells
  <2>1. PICK d \in Rows, b \in Columns :
           /\ d = HEIGHT - 1 /\ b = 0
           /\ u \in Screen /\ Same(s, u) /\ u.cells = s.cells /\ u.protected_row = s.protected_row
           /\ IF is_position_protected(s, d, b) THEN u = s ELSE u.cursor_row = d /\ u.cursor_col = b
    BY <1>0, SetCursorFields
  <2>2. Edge(u, r, c)
    BY <2>1 DEF Edge, Bare, Same
  <2>3. CASE is_position_protected(s, HEIGHT - 1, 0)
    <3>1. At(HEIGHT - 1, 0) < At(r, c)
      BY <1>0, <2>3, BoundaryOrder DEF Edge
    <3>2. HEIGHT - 1 < r \/ (HEIGHT - 1 = r /\ 0 < c)
      BY <1>0, <3>1, CellOrder
    <3>3. r = HEIGHT - 1
      BY <1>0, <3>2
    <3>4. ~ At(s.cursor_row, s.cursor_col) < At(r, c)
      BY <1>1 DEF Cursor
    <3>5. ~ s.cursor_row < r
      BY <3>4, <1>0, <1>1, CellOrder
    <3> QED
      BY <2>1, <2>2, <2>3, <3>3, <3>5, <1>0, <1>1
  <2>4. CASE ~ is_position_protected(s, HEIGHT - 1, 0)
    BY <2>1, <2>2, <2>4
  <2> QED
    BY <2>3, <2>4
<1> HIDE DEF u
<1>3. u \in Screen /\ u.pointer_active = FALSE /\ mouse_pointer_erase(u) = u
  BY <1>2, Erased DEF Edge, Bare
<1>4. t = PutNewline(u)
  BY <1>3 DEF putchar_core
<1>5. ~ is_position_protected(u, u.cursor_row + 1, 0)
  BY <1>0, <1>2 DEF is_position_protected, Edge
<1>6. /\ t \in Screen /\ Same(u, t) /\ t.cursor_row = HEIGHT - 1 /\ t.cursor_col = 0
      /\ t.cells = Shifted(u.cells)
      /\ t.protected_row = r - 1
  <2>1. ~ u.cursor_row < HEIGHT - 1
    BY <1>0, <1>2
  <2>2. /\ t \in Screen /\ Same(u, t) /\ t.cursor_row = HEIGHT - 1 /\ t.cursor_col = 0
        /\ t.cells = Shifted(u.cells)
        /\ t.protected_row = IF u.protected_row > 0 THEN u.protected_row - 1 ELSE u.protected_row
    BY <1>3, <1>4, <1>5, <2>1, NewlineFields
  <2> QED
    BY <2>2, <1>0, <1>2 DEF Edge
<1>7. Edge(t, r - 1, c)
  BY <1>2, <1>6 DEF Edge, Bare, Same
<1>8. At(r - 1, c) <= Cursor(t)
  <2>1. At(r - 1, c) < At(HEIGHT - 1, 0)
    BY <1>0, CellOrder
  <2>2. At(r - 1, c) \in Int
    BY <1>0, CellOrder
  <2> QED
    BY <2>1, <2>2, <1>1, <1>6 DEF Cursor
<1>9. Reaches(s, <<SetCursor(<<HEIGHT - 1, 0>>), Put("\n")>>, t)
  <2> DEFINE x == SetCursor(<<HEIGHT - 1, 0>>)
             y == Put("\n")
  <2>1. x \in ScreenCalls /\ y \in ScreenCalls
    BY <1>0 DEF ScreenCalls, Edits, Chars
  <2>2. syscall_dispatcher(s, x) = u /\ syscall_dispatcher(u, y) = t
    BY Dispatched DEF u
  <2>3. Reaches(s, <<x>>, u) /\ Reaches(u, <<y>>, t)
    BY <2>2, ReachOne
  <2> HIDE DEF x, y, t
  <2>4. <<x>> \o <<y>> = <<x, y>> /\ <<x>> \in Seq(ScreenCalls) /\ <<y>> \in Seq(ScreenCalls)
    <3>1. <<x>> \in Seq(ScreenCalls) /\ <<y>> \in Seq(ScreenCalls) /\ <<x, y>> \in Seq(ScreenCalls)
          /\ Len(<<x>>) = 1 /\ Len(<<y>>) = 1 /\ Len(<<x, y>>) = 2
      BY <2>1
    <3>2. <<x>> \o <<y>> \in Seq(ScreenCalls) /\ Len(<<x>> \o <<y>>) = 2
      BY <3>1
    <3>3. \A i \in 1 .. 2 : (<<x>> \o <<y>>)[i] = <<x, y>>[i]
      BY <3>1
    <3> QED
      BY <3>1, <3>2, <3>3, SeqEqual
  <2>5. Reaches(s, <<x>> \o <<y>>, t)
    BY <2>3, <2>4, ReachThen
  <2> QED
    BY <2>4, <2>5 DEF x, y
<1> QED
  BY <1>2, <1>6, <1>7, <1>8, <1>9

\* The calls that make room, by their number.
LEMMA EnsureCalls ==
  ASSUME NEW n \in Nat
  PROVE  /\ ensure_edit_space(n) \in Seq(Edits)
         /\ ensure_edit_space(0) = <<>>
         /\ ensure_edit_space(n + 1) = ensure_edit_space(n) \o <<SetCursor(<<HEIGHT - 1, 0>>), Put("\n")>>
<1> DEFINE x == SetCursor(<<HEIGHT - 1, 0>>)
           y == Put("\n")
           q(k) == [i \in 1 .. 2 * k |-> IF i % 2 = 1 THEN x ELSE y]
<1>1. x \in Edits /\ y \in Edits
  <2>1. <<HEIGHT - 1, 0>> \in Int \X Int /\ "\n" \in Chars
    BY Sizes DEF Chars
  <2> QED
    BY <2>1, Zenon DEF Edits
<1>2. \A k \in Nat : ensure_edit_space(k) = q(k)
  BY DEF ensure_edit_space
<1> HIDE DEF x, y
<1>3. q(n) \in Seq(Edits) /\ Len(q(n)) = 2 * n /\ q(n + 1) \in Seq(Edits) /\ Len(q(n + 1)) = 2 * n + 2
  <2>1. 2 * n \in Nat /\ 2 * (n + 1) \in Nat /\ 2 * (n + 1) = 2 * n + 2
    OBVIOUS
  <2> QED
    BY <1>1, <2>1
<1>4. q(0) = <<>>
  OBVIOUS
<1> DEFINE w == q(n) \o <<x, y>>
<1>5. w \in Seq(Edits) /\ Len(w) = 2 * n + 2
  BY <1>1, <1>3
<1>6. ASSUME NEW i \in 1 .. 2 * n + 2 PROVE w[i] = q(n + 1)[i]
  <2>1. q(n + 1)[i] = IF i % 2 = 1 THEN x ELSE y
    OBVIOUS
  <2>2. CASE i <= 2 * n
    BY <1>3, <2>1, <2>2
  <2>3. CASE i = 2 * n + 1
    <3>1. i % 2 = 1
      BY <2>3
    <3>2. w[i] = x
      BY <1>3, <2>3
    <3> QED
      BY <2>1, <3>1, <3>2
  <2>4. CASE i = 2 * n + 2
    <3>1. i % 2 = 0
      BY <2>4
    <3>2. w[i] = y
      BY <1>3, <2>4
    <3> QED
      BY <2>1, <3>1, <3>2
  <2>5. i \in Int /\ (i <= 2 * n \/ i = 2 * n + 1 \/ i = 2 * n + 2)
    OBVIOUS
  <2> HIDE DEF q, w
  <2> QED
    BY <2>2, <2>3, <2>4, <2>5
<1>7. w = q(n + 1)
  BY <1>3, <1>5, <1>6, SeqEqual
<1> HIDE DEF q
<1>8. n + 1 \in Nat /\ 0 \in Nat
  OBVIOUS
<1> QED
  BY <1>2, <1>3, <1>4, <1>7, <1>8 DEF x, y

\* Several rows.
LEMMA RoomMany ==
  ASSUME NEW r \in Rows, NEW c \in Columns, NEW s, Edge(s, r, c), At(r, c) <= Cursor(s), NEW m \in 0 .. r
  PROVE  \E t : /\ Reaches(s, ensure_edit_space(m), t)
                /\ Edge(t, r - m, c) /\ At(r - m, c) <= Cursor(t)
                /\ \A x \in Cells : x + m * WIDTH \in Cells => t.cells[x] = s.cells[x + m * WIDTH]
<1> DEFINE Done(n, t) == /\ Reaches(s, ensure_edit_space(n), t)
                         /\ Edge(t, r - n, c) /\ At(r - n, c) <= Cursor(t)
                         /\ \A x \in Cells : x + n * WIDTH \in Cells => t.cells[x] = s.cells[x + n * WIDTH]
           N == {n \in Nat : n <= r => \E t : Done(n, t)}
<1>0. r \in Nat /\ r < HEIGHT /\ WIDTH \in Nat /\ HEIGHT \in Nat
  BY Sizes
<1>1. 0 \in N
  <2>1. Reaches(s, ensure_edit_space(0), s)
    BY EnsureCalls, ReachNone
  <2>2. r - 0 = r /\ \A x \in Cells : x + 0 * WIDTH = x
    BY <1>0, Sizes
  <2>3. Done(0, s)
    BY <2>1, <2>2
  <2> QED
    BY <2>3
<1>2. ASSUME NEW n \in Nat, n \in N PROVE n + 1 \in N
  <2> SUFFICES ASSUME n + 1 <= r PROVE \E t : Done(n + 1, t)
    OBVIOUS
  <2>1. PICK t : Done(n, t)
    <3> HIDE DEF Done
    <3> QED
      BY <1>0, <1>2
  <2>2. r - n \in Rows /\ r - n > 0 /\ (r - n) - 1 = r - (n + 1)
    BY <1>0, Sizes
  <2>3. PICK u : /\ Reaches(t, <<SetCursor(<<HEIGHT - 1, 0>>), Put("\n")>>, u)
                 /\ Edge(u, (r - n) - 1, c) /\ At((r - n) - 1, c) <= Cursor(u) /\ u.cells = Shifted(t.cells)
    BY <2>1, <2>2, RoomOne
  <2>4. Reaches(s, ensure_edit_space(n + 1), u)
    <3>1. <<SetCursor(<<HEIGHT - 1, 0>>), Put("\n")>> \in Seq(ScreenCalls)
      BY Sizes DEF ScreenCalls, Edits, Chars
    <3> QED
      <4>1. ensure_edit_space(n) \in Seq(ScreenCalls)
        BY EnsureCalls, EditsAreCalls
      <4> QED
        BY <2>1, <2>3, <3>1, <4>1, EnsureCalls, ReachThen
  <2>5. ASSUME NEW x \in Cells, x + (n + 1) * WIDTH \in Cells
        PROVE  u.cells[x] = s.cells[x + (n + 1) * WIDTH]
    <3>1. (n + 1) * WIDTH = n * WIDTH + WIDTH /\ n * WIDTH \in Nat
      BY <1>0
    <3>2. x \in Int /\ 0 <= x /\ x + (n + 1) * WIDTH < WIDTH * HEIGHT
      BY <2>5, Sizes
    <3>3. x + WIDTH \in Cells /\ (x + WIDTH) + n * WIDTH = x + (n + 1) * WIDTH
      BY <1>0, <3>1, <3>2, Sizes
    <3>4. u.cells[x] = t.cells[x + WIDTH]
      BY <2>3, <3>3 DEF Shifted
    <3>5. t.cells[x + WIDTH] = s.cells[(x + WIDTH) + n * WIDTH]
      BY <2>1, <2>5, <3>3
    <3> QED
      BY <3>3, <3>4, <3>5
  <2>6. Done(n + 1, u)
    BY <2>2, <2>3, <2>4, <2>5
  <2> HIDE DEF Done
  <2> QED
    BY <2>6
<1>3. \A n \in Nat : n \in N
  <2> HIDE DEF N
  <2> QED
    BY <1>1, <1>2, Induction
<1>4. m \in Nat /\ m <= r
  BY <1>0
<1>5. PICK t : Done(m, t)
  <2> HIDE DEF Done
  <2> QED
    BY <1>3, <1>4
<1> QED
  BY <1>5

--------------------------------------------------------------------------------
(* The line editor. *)

Editor ==
  [buf : Seq(Letters), pos : Nat, disp_len : Nat, start_row : Rows, start_col : Columns,
   prev_lbtn : BOOLEAN, press : Int \X Int, longest : Nat]

First(e) == At(e.start_row, e.start_col)

\* The line is on the screen for as long as it ever was, with room for the cursor behind it.
EditorOK(e) ==
  /\ e \in Editor
  /\ e.pos <= Len(e.buf) /\ e.disp_len = Len(e.buf) /\ Len(e.buf) <= e.longest /\ e.longest < SIZE
  /\ First(e) + e.longest < WIDTH * HEIGHT

\* What LineShown says of a screen without pointer, and that the line begins at the boundary.
Shown(t, e) ==
  /\ Edge(t, e.start_row, e.start_col)
  /\ Cursor(t) = First(e) + e.pos
  /\ \A i \in 1 .. Len(e.buf) : t.cells[First(e) + i - 1] = e.buf[i]
  /\ \A i \in Len(e.buf) + 1 .. e.longest : t.cells[First(e) + i - 1] = Blank

\* A number of cells as rows and a rest.
LEMMA WholeRows ==
  ASSUME NEW a \in Nat
  PROVE  /\ a \div WIDTH \in Nat /\ a % WIDTH \in Columns
         /\ a = (a \div WIDTH) * WIDTH + (a % WIDTH)
<1>1. WIDTH \in Nat \ {0}
  BY Sizes
<1>2. a \div WIDTH \in Nat /\ a % WIDTH \in 0 .. WIDTH - 1
  BY <1>1
<1>3. a = (a \div WIDTH) * WIDTH + (a % WIDTH)
  BY <1>1
<1> QED
  BY <1>2, <1>3 DEF Columns

\* More cells are not fewer rows.
LEMMA RowsMonotone ==
  ASSUME NEW a \in Nat, NEW b \in Nat, a <= b
  PROVE  a \div WIDTH <= b \div WIDTH
<1> DEFINE p == a \div WIDTH
           q == b \div WIDTH
           x == a % WIDTH
           y == b % WIDTH
<1>1. p \in Nat /\ q \in Nat /\ x \in Columns /\ y \in Columns /\ a = p * WIDTH + x /\ b = q * WIDTH + y
  BY WholeRows
<1> HIDE DEF p, q, x, y
<1>2. a = At(p, x) /\ b = At(q, y) /\ p \in Int /\ q \in Int
  BY <1>1 DEF At
<1>3. ~ At(q, y) < At(p, x)
  BY <1>2
<1>4. ~ q < p
  BY <1>1, <1>2, <1>3, CellOrder
<1> QED
  BY <1>1, <1>4 DEF p, q

\* The rows that are missing for a line can be had by scrolling it up.
LEMMA MissingRows ==
  ASSUME NEW e, e.start_row \in Rows, e.start_col \in Columns, NEW len \in Nat, len < SIZE
  PROVE  /\ Missing(e, len) \in 0 .. e.start_row
         /\ e.start_row - Missing(e, len) \in Rows
         /\ At(e.start_row - Missing(e, len), e.start_col) + len < WIDTH * HEIGHT
<1> DEFINE a == e.start_col + len
           q == a \div WIDTH
           c == a % WIDTH
           n == Missing(e, len)
           sr == e.start_row
<1>0. /\ sr \in Int /\ 0 <= sr /\ sr < HEIGHT /\ e.start_col \in Int /\ 0 <= e.start_col /\ e.start_col < WIDTH
      /\ WIDTH \in Nat /\ HEIGHT \in Nat /\ WIDTH > 0 /\ SIZE \in Nat
  BY Sizes, LineAssumption
<1>1. a \in Nat /\ WIDTH - 1 + SIZE - 1 \in Nat /\ a <= WIDTH - 1 + SIZE - 1
  BY <1>0
<1>2. q \in Nat /\ c \in Columns /\ a = q * WIDTH + c
  <2> HIDE DEF a
  <2> QED
    BY <1>1, WholeRows
<1>3. q < HEIGHT
  <2>1. q <= (WIDTH - 1 + SIZE - 1) \div WIDTH /\ (WIDTH - 1 + SIZE - 1) \div WIDTH \in Nat
    <3> HIDE DEF a
    <3> QED
      BY <1>1, RowsMonotone, WholeRows
  <2>2. (WIDTH - 1 + SIZE - 1) \div WIDTH < HEIGHT
    BY LineAssumption
  <2> DEFINE Q == (WIDTH - 1 + SIZE - 1) \div WIDTH
  <2> HIDE DEF Q, q
  <2>3. q <= Q /\ Q < HEIGHT /\ Q \in Nat
    BY <2>1, <2>2 DEF Q
  <2> QED
    BY <2>3, <1>2, <1>0
<1>4. n = Max({0, (sr + q) - (HEIGHT - 1)})
  <2>1. LinePlace(e, len) = <<sr + q, c>>
    BY Zenon DEF LinePlace
  <2>2. LinePlace(e, len)[1] = sr + q
    BY <2>1
  <2>3. n = Max({0, LinePlace(e, len)[1] - (HEIGHT - 1)})
    BY DEF Missing
  <2> HIDE DEF n, q, sr
  <2>4. LinePlace(e, len)[1] - (HEIGHT - 1) = (sr + q) - (HEIGHT - 1)
    BY <2>2, Zenon
  <2> QED
    BY <2>3, <2>4, Zenon
<1> HIDE DEF q, c, n
<1>5. n = IF 0 >= (sr + q) - (HEIGHT - 1) THEN 0 ELSE (sr + q) - (HEIGHT - 1)
  <2>1. (sr + q) - (HEIGHT - 1) \in Int /\ 0 \in Int
    BY <1>0, <1>2
  <2> QED
    BY <1>4, <2>1, OfTwo
<1>6. n \in Int /\ 0 <= n /\ n <= sr /\ sr - n + q < HEIGHT
  BY <1>0, <1>2, <1>3, <1>5
<1>7. sr - n + q \in Rows /\ sr - n \in Rows /\ sr - n \in Int
  BY <1>0, <1>2, <1>6, Sizes
<1>8. At(sr - n + q, c) < WIDTH * HEIGHT
  <2>1. At(sr - n + q, c) \in Cells
    BY <1>2, <1>6, <1>7, <1>0, CellRange
  <2> QED
    BY <2>1, Sizes
<1>9. At(sr - n + q, c) = At(sr - n, e.start_col) + len
  <2> DEFINE k == sr - n
  <2>1. k \in Int
    BY <1>7
  <2> HIDE DEF k
  <2>2. (k + q) * WIDTH = k * WIDTH + q * WIDTH
    BY <1>0, <1>2, <2>1
  <2>3. k * WIDTH \in Int /\ q * WIDTH \in Int /\ c \in Int
    BY <1>0, <1>2, <2>1, Sizes
  <2>4. (k + q) * WIDTH + c = (k * WIDTH + e.start_col) + len
    BY <1>0, <1>2, <2>2, <2>3
  <2> QED
    BY <2>4 DEF At, k
<1> QED
  BY <1>6, <1>7, <1>8, <1>9 DEF n

\* What Show leaves in the variables of the editor.
LEMMA ShowFields ==
  ASSUME EditorOK(ed), NEW buf \in Seq(Letters), NEW pos \in Nat, pos <= Len(buf),
         NEW len \in Nat, Len(buf) <= len, len < SIZE, Show(buf, pos, len)
  PROVE  LET n == Missing(ed, len)
         IN  \E e \in Editor :
               /\ e.buf = buf /\ e.pos = pos /\ e.disp_len = ed.disp_len /\ e.start_row = ed.start_row - n
               /\ e.start_col = ed.start_col
               /\ todo' = ensure_edit_space(n) \o line_redraw(e)
               /\ EditorOK(ed') /\ ed'.buf = buf /\ ed'.pos = pos /\ ed'.start_row = ed.start_row - n
               /\ ed'.start_col = ed.start_col
               /\ ed'.longest = IF ed.longest >= Len(buf) THEN ed.longest ELSE Len(buf)
<1> DEFINE n == Missing(ed, len)
           e == [ed EXCEPT !.buf = buf, !.pos = pos, !.start_row = ed.start_row - n]
           L == IF ed.longest >= Len(buf) THEN ed.longest ELSE Len(buf)
<1>0. /\ ed \in Editor /\ ed.start_row \in Rows /\ ed.start_col \in Columns /\ ed.longest \in Nat
      /\ Len(buf) \in Nat
      /\ ed.longest < SIZE /\ SIZE \in Nat /\ First(ed) + ed.longest < WIDTH * HEIGHT
  BY LineAssumption DEF EditorOK, Editor
<1>1. n \in 0 .. ed.start_row /\ ed.start_row - n \in Rows
      /\ At(ed.start_row - n, ed.start_col) + len < WIDTH * HEIGHT
  BY <1>0, MissingRows
<1>2. /\ todo' = ensure_edit_space(n) \o line_redraw(e)
      /\ ed' = [e EXCEPT !.disp_len = Len(buf), !.longest = Max({e.longest, Len(buf)})]
  BY Zenon DEF Show
<1> HIDE DEF n
<1>3. e \in Editor
  BY <1>0, <1>1 DEF Editor
<1>4. e.buf = buf /\ e.pos = pos /\ e.disp_len = ed.disp_len /\ e.start_row = ed.start_row - n
      /\ e.start_col = ed.start_col /\ e.longest = ed.longest
  BY <1>0, <1>1 DEF Editor
<1> HIDE DEF e
<1>5. Max({e.longest, Len(buf)}) = L /\ L \in Nat
  BY <1>0, <1>4, OfTwo
<1> DEFINE d == [e EXCEPT !.disp_len = Len(buf), !.longest = L]
<1>6. ed' = d
  BY <1>2, <1>5
<1> HIDE DEF L
<1>7. d \in Editor
  BY <1>0, <1>3, <1>5 DEF Editor
<1>8. d.buf = buf /\ d.pos = pos /\ d.disp_len = Len(buf) /\ d.start_row = ed.start_row - n
      /\ d.start_col = ed.start_col /\ d.longest = L
  BY <1>0, <1>3, <1>4, <1>5 DEF Editor
<1>9. First(d) + L < WIDTH * HEIGHT
  <2>1. First(d) = At(ed.start_row - n, ed.start_col)
    BY <1>8 DEF First
  <2>2. ed.start_row \in Int /\ n \in Int /\ ed.start_row - n \in Int
        /\ ed.start_row - n <= ed.start_row /\ WIDTH * HEIGHT \in Int
    BY <1>0, <1>1, Sizes
  <2>3. At(ed.start_row - n, ed.start_col) <= At(ed.start_row, ed.start_col)
        /\ At(ed.start_row - n, ed.start_col) \in Int
        /\ At(ed.start_row, ed.start_col) \in Int
    <3>1. (ed.start_row - n) * WIDTH \in Int /\ ed.start_row * WIDTH \in Int
          /\ (ed.start_row - n) * WIDTH <= ed.start_row * WIDTH
      BY <2>2, Multiples
    <3>2. ed.start_col \in Int
      BY <1>0, Sizes
    <3> QED
      BY <3>1, <3>2 DEF At
  <2> QED
    BY <2>1, <2>2, <2>3, <1>0, <1>1 DEF First, L
<1>10. EditorOK(d)
  BY <1>0, <1>7, <1>8, <1>9 DEF EditorOK, L
<1> HIDE DEF d
<1> QED
  BY <1>2, <1>3, <1>4, <1>6, <1>8, <1>10 DEF n, L

\* What can be typed is no control character.
LEMMA LettersPlain ==
  Letters \subseteq Plain /\ Letters \subseteq Chars /\ Blank \in Plain /\ Blank \in Chars
<1>1. Letters \subseteq STRING \ {"\n", "\r", "bs", "\t"}
  BY CharacterAssumption
<1>2. STRING \subseteq Chars /\ Blank \in Chars
  BY DEF Chars
<1>3. Blank \notin {"\n", "\r", "bs", "\t"}
  BY DEF Blank
<1> QED
  BY <1>1, <1>2, <1>3, Zenon DEF Plain

\* The calls of a redraw.
LEMMA RedrawCalls ==
  ASSUME NEW e \in Editor
  PROVE  \E b \in Seq(Plain), r \in Int, c \in Columns :
           /\ b = [i \in 1 .. Len(b) |-> Blank]
           /\ Len(b) = IF e.disp_len >= Len(e.buf) THEN e.disp_len - Len(e.buf) ELSE 0
           /\ e.buf \in Seq(Plain)
           /\ At(r, c) = First(e) + e.pos
           /\ LET S0 == <<SetCursor(<<e.start_row, e.start_col>>)>>
                  P  == [i \in 1 .. Len(e.buf) |-> Put(e.buf[i])]
                  B  == [i \in 1 .. Len(b) |-> Put(b[i])]
                  S1 == <<SetCursor(<<r, c>>)>>
              IN  /\ line_redraw(e) = ((S0 \o P) \o B) \o S1
                  /\ S0 \in Seq(Edits) /\ P \in Seq(Edits) /\ B \in Seq(Edits) /\ S1 \in Seq(Edits)
<1>0. /\ e.buf \in Seq(Letters) /\ e.pos \in Nat /\ e.disp_len \in Nat /\ e.start_row \in Rows
      /\ e.start_col \in Columns
      /\ e.start_row \in Int /\ e.start_col \in Int /\ Len(e.buf) \in Nat
  BY Sizes DEF Editor
<1> DEFINE m == IF e.disp_len >= Len(e.buf) THEN e.disp_len - Len(e.buf) ELSE 0
           b == [i \in 1 .. m |-> Blank]
<1>1. m \in Nat /\ Max({0, e.disp_len - Len(e.buf)}) = m
  <2>1. 0 \in Int /\ e.disp_len - Len(e.buf) \in Int
    BY <1>0
  <2>2. Max({0, e.disp_len - Len(e.buf)}) = IF 0 >= e.disp_len - Len(e.buf) THEN 0 ELSE e.disp_len - Len(e.buf)
    BY <2>1, OfTwo
  <2> DEFINE M == Max({0, e.disp_len - Len(e.buf)})
  <2> HIDE DEF M
  <2>3. M = IF 0 >= e.disp_len - Len(e.buf) THEN 0 ELSE e.disp_len - Len(e.buf)
    BY <2>2 DEF M
  <2>4. m \in Nat /\ M = m
    BY <1>0, <2>3
  <2> QED
    BY <2>4 DEF M
<1> HIDE DEF m
<1>2. b \in Seq(Plain) /\ Len(b) = m
  BY <1>1, LettersPlain
<1>3. PICK r \in Int, c \in Columns : LinePlace(e, e.pos) = <<r, c>> /\ At(r, c) = First(e) + e.pos
  BY <1>0, LinePlaces DEF First
<1>4. e.buf \in Seq(Plain) /\ \A i \in 1 .. Len(e.buf) : e.buf[i] \in Chars
  BY <1>0, LettersPlain
<1> DEFINE S0 == <<SetCursor(<<e.start_row, e.start_col>>)>>
           P  == [i \in 1 .. Len(e.buf) |-> Put(e.buf[i])]
           B  == [i \in 1 .. Len(b) |-> Put(b[i])]
           S1 == <<SetCursor(<<r, c>>)>>
<1>5. S0 \in Seq(Edits) /\ S1 \in Seq(Edits)
  <2>1. <<e.start_row, e.start_col>> \in Int \X Int /\ <<r, c>> \in Int \X Int
    BY <1>0, Sizes
  <2>2. SetCursor(<<e.start_row, e.start_col>>) \in Edits /\ SetCursor(<<r, c>>) \in Edits
    BY <2>1, Zenon DEF Edits
  <2> QED
    BY <2>2
<1>6. P \in Seq(Edits)
  <2>1. \A i \in 1 .. Len(e.buf) : Put(e.buf[i]) \in Edits
    BY <1>4, Zenon DEF Edits
  <2> QED
    BY <1>0, <2>1
<1>7. B \in Seq(Edits) /\ B = [i \in 1 .. m |-> Put(Blank)]
  <2>1. \A i \in 1 .. Len(b) : b[i] = Blank
    BY <1>2
  <2>2. Put(Blank) \in Edits
    BY LettersPlain, Zenon DEF Edits
  <2> HIDE DEF b
  <2> QED
    BY <1>1, <1>2, <2>1, <2>2
<1>8. line_redraw(e) = ((S0 \o P) \o B) \o S1
  <2>1. line_set_cursor(e) = S1
    BY <1>3 DEF line_set_cursor
  <2>2. line_redraw(e) = ((S0 \o P) \o [i \in 1 .. Max({0, e.disp_len - Len(e.buf)}) |-> Put(Blank)])
                            \o line_set_cursor(e)
    BY Zenon DEF line_redraw
  <2> HIDE DEF S0, P, B, S1
  <2> QED
    BY <1>1, <1>7, <2>1, <2>2, Zenon
<1>9. b = [i \in 1 .. Len(b) |-> Blank]
  BY <1>2
<1> HIDE DEF b
<1> QED
  BY <1>1, <1>2, <1>3, <1>4, <1>5, <1>6, <1>7, <1>8, <1>9 DEF m

\* After a change and the redraw the screen shows the new line.
LEMMA Redrawn ==
  ASSUME EditorOK(ed), NEW buf \in Seq(Letters), NEW pos \in Nat, pos <= Len(buf),
         NEW len \in Nat, Len(buf) <= len, len < SIZE, Show(buf, pos, len),
         NEW s, Shown(s, ed)
  PROVE  \E t : Reaches(s, todo', t) /\ Shown(t, ed')
<1> DEFINE n == Missing(ed, len)
           sr == ed.start_row
           sc == ed.start_col
           k == sr - n
           F0 == At(sr, sc)
           F == At(k, sc)
           D == ed.disp_len
           K == ed.longest
           l == Len(buf)
           L == IF K >= l THEN K ELSE l
           A == WIDTH * HEIGHT
           M == n * WIDTH
<1>1. PICK e \in Editor :
        /\ e.buf = buf /\ e.pos = pos /\ e.disp_len = ed.disp_len /\ e.start_row = ed.start_row - n
        /\ e.start_col = ed.start_col
        /\ todo' = ensure_edit_space(n) \o line_redraw(e)
        /\ EditorOK(ed') /\ ed'.buf = buf /\ ed'.pos = pos /\ ed'.start_row = ed.start_row - n
        /\ ed'.start_col = ed.start_col
        /\ ed'.longest = IF ed.longest >= Len(buf) THEN ed.longest ELSE Len(buf)
  BY ShowFields
<1>2. /\ sr \in Rows /\ sc \in Columns /\ K \in Nat /\ D \in Nat /\ D = Len(ed.buf) /\ D <= K /\ K < SIZE
      /\ F0 + K < A /\ ed.pos \in Nat /\ l \in Nat
  BY DEF EditorOK, Editor, First
<1>3. n \in 0 .. sr /\ k \in Rows
  BY <1>2, MissingRows
<1>4. F + L < A
  BY <1>1 DEF EditorOK, First
<1>5. F \in Nat /\ F0 \in Nat /\ M \in Nat /\ F + M = F0 /\ A \in Nat /\ n \in Nat /\ L \in Nat
  <2>1. sr \in Int /\ n \in Nat /\ WIDTH \in Nat /\ sc \in Int /\ WIDTH * HEIGHT \in Nat /\ sr - n \in Int
    BY <1>2, <1>3, Sizes
  <2>2. F \in Cells /\ F0 \in Cells
    BY <1>2, <1>3, <2>1, CellRange
  <2>3. (sr - n) * WIDTH = sr * WIDTH - n * WIDTH
    <3> HIDE DEF n, sr
    <3> QED
      BY <2>1
  <2>4. sr * WIDTH \in Int /\ n * WIDTH \in Nat
    BY <2>1
  <2>5. F + M = F0
    <3>1. F = (sr - n) * WIDTH + sc /\ F0 = sr * WIDTH + sc
      BY DEF At
    <3> DEFINE X == sr * WIDTH
               Y == (sr - n) * WIDTH
    <3>2. X \in Int /\ M \in Nat /\ Y = X - M /\ sc \in Int /\ F = Y + sc /\ F0 = X + sc
      BY <2>1, <2>3, <2>4, <3>1
    <3> HIDE DEF X, Y, M, F, F0, sc
    <3> QED
      BY <3>2
  <2> QED
    BY <1>2, <2>1, <2>2, <2>4, <2>5, Sizes
<1>6. /\ Edge(s, sr, sc) /\ Cursor(s) = F0 + ed.pos
      /\ \A i \in D + 1 .. K : s.cells[F0 + i - 1] = Blank
  BY <1>2 DEF Shown, First
<1>7. \A a : a \in Cells <=> a \in Int /\ 0 <= a /\ a < A
  BY Sizes
<1>8. /\ e.buf = buf /\ e.disp_len = D /\ e.start_row = k /\ e.start_col = sc /\ e.pos = pos /\ First(e) = F
      /\ todo' = ensure_edit_space(n) \o line_redraw(e)
      /\ ed'.start_row = k /\ ed'.start_col = sc /\ ed'.pos = pos /\ ed'.buf = buf /\ ed'.longest = L
      /\ First(ed') = F
  BY <1>1 DEF First
<1> HIDE DEF n, F, F0, D, K, L, sr, sc, k, A, M
<1>9. PICK t1 : /\ Reaches(s, ensure_edit_space(n), t1)
                /\ Edge(t1, k, sc) /\ F <= Cursor(t1)
                /\ \A x \in Cells : x + M \in Cells => t1.cells[x] = s.cells[x + M]
  <2>1. At(sr, sc) <= Cursor(s)
    BY <1>2, <1>5, <1>6 DEF F0
  <2> QED
    BY <1>2, <1>3, <1>6, <2>1, RoomMany DEF F, k, M
<1> DEFINE t2 == vga_set_cursor(t1, k, sc)
<1>10. Edge(t2, k, sc) /\ Cursor(t2) = F /\ t2.cells = t1.cells
       /\ syscall_dispatcher(t1, SetCursor(<<k, sc>>)) = t2
  <2>1. At(k, sc) <= At(k, sc)
    BY <1>5 DEF F
  <2>2. Edge(t2, k, sc) /\ Cursor(t2) = F /\ t2.cells = t1.cells
    BY <1>2, <1>3, <1>9, <2>1, MoveTo DEF F
  <2>3. syscall_dispatcher(t1, SetCursor(<<k, sc>>)) = t2
    BY CursorCall
  <2> QED
    BY <2>2, <2>3
<1> HIDE DEF t2
<1>11. PICK b \in Seq(Plain), r \in Int, c \in Columns :
           /\ b = [i \in 1 .. Len(b) |-> Blank]
           /\ Len(b) = IF e.disp_len >= Len(e.buf) THEN e.disp_len - Len(e.buf) ELSE 0
           /\ e.buf \in Seq(Plain)
           /\ At(r, c) = First(e) + e.pos
           /\ LET S0 == <<SetCursor(<<e.start_row, e.start_col>>)>>
                  P  == [i \in 1 .. Len(e.buf) |-> Put(e.buf[i])]
                  B  == [i \in 1 .. Len(b) |-> Put(b[i])]
                  S1 == <<SetCursor(<<r, c>>)>>
              IN  /\ line_redraw(e) = ((S0 \o P) \o B) \o S1
                  /\ S0 \in Seq(Edits) /\ P \in Seq(Edits) /\ B \in Seq(Edits) /\ S1 \in Seq(Edits)
  BY RedrawCalls
<1> DEFINE S0 == <<SetCursor(<<k, sc>>)>>
           P  == [i \in 1 .. Len(buf) |-> Put(buf[i])]
           B  == [i \in 1 .. Len(b) |-> Put(b[i])]
           S1 == <<SetCursor(<<r, c>>)>>
           m == Len(b)
<1>12. m \in Nat
       /\ m = (IF D >= l THEN D - l ELSE 0) /\ (\A i \in 1 .. m : b[i] = Blank) /\ buf \in Seq(Plain) /\ At(r, c) = F + pos
  <2>1. m \in Nat /\ \A i \in 1 .. m : b[i] = Blank
    BY <1>11
  <2>2. m = IF D >= l THEN D - l ELSE 0
    BY <1>8, <1>11
  <2>3. buf \in Seq(Plain) /\ At(r, c) = F + pos
    BY <1>8, <1>11
  <2> QED
    BY <2>1, <2>2, <2>3
<1>13. /\ todo' = ensure_edit_space(n) \o (((S0 \o P) \o B) \o S1)
       /\ S0 \in Seq(ScreenCalls) /\ P \in Seq(ScreenCalls) /\ B \in Seq(ScreenCalls) /\ S1 \in Seq(ScreenCalls)
  <2>1. line_redraw(e) = ((S0 \o P) \o B) \o S1 /\ S0 \in Seq(ScreenCalls) /\ P \in Seq(ScreenCalls)
        /\ B \in Seq(ScreenCalls) /\ S1 \in Seq(ScreenCalls)
    <3>1. line_redraw(e) = ((S0 \o P) \o B) \o S1 /\ S0 \in Seq(Edits) /\ P \in Seq(Edits)
          /\ B \in Seq(Edits) /\ S1 \in Seq(Edits)
      BY <1>8, <1>11
    <3> HIDE DEF S0, P, B, S1
    <3> QED
      BY <3>1, EditsAreCalls
  <2> HIDE DEF S0, P, B, S1
  <2> QED
    BY <1>8, <2>1
<1> HIDE DEF m, l
<1>14. /\ F + l < A /\ (F + l) + m < A /\ F + pos < A /\ pos <= l /\ l <= L
       /\ D \in Nat /\ K \in Nat /\ L \in Nat /\ F \in Nat /\ F0 \in Nat /\ l \in Nat /\ m \in Nat
       /\ A \in Nat /\ M \in Nat
       /\ L = (IF K >= l THEN K ELSE l) /\ m = (IF D >= l THEN D - l ELSE 0) /\ D <= K /\ F + M = F0 /\ F0 + K < A
       /\ F + L < A
  <2>1. pos <= l
    BY DEF l
  <2>2. L = (IF K >= l THEN K ELSE l)
    BY DEF L
  <2>3. m \in Nat /\ m = (IF D >= l THEN D - l ELSE 0)
    BY <1>12
  <2>4. /\ D \in Nat /\ K \in Nat /\ L \in Nat /\ F \in Nat /\ F0 \in Nat /\ l \in Nat /\ A \in Nat /\ M \in Nat
        /\ D <= K /\ F + M = F0 /\ F0 + K < A /\ F + L < A
    BY <1>2, <1>4, <1>5
  <2>5. l <= L /\ F + l < A /\ F + pos < A
    BY <2>1, <2>2, <2>4
  <2>6. (F + l) + m < A
    <3>1. F <= F0 /\ F + K < A
      BY <2>4
    <3>2. CASE D >= l
      BY <2>3, <2>4, <3>1, <3>2
    <3>3. CASE ~ D >= l
      BY <2>3, <2>4, <2>5, <3>3
    <3> QED
      BY <3>2, <3>3
  <2> QED
    BY <2>1, <2>2, <2>3, <2>4, <2>5, <2>6
<1>15. PICK t3 : /\ Reaches(t2, P, t3) /\ Edge(t3, k, sc) /\ Cursor(t3) = F + l
                 /\ \A x \in Cells : t3.cells[x] = IF F <= x /\ x < F + l THEN buf[x - F + 1] ELSE t2.cells[x]
  <2>1. At(k, sc) <= Cursor(t2) /\ Cursor(t2) + Len(buf) < WIDTH * HEIGHT
    BY <1>10, <1>14 DEF F, l, A
  <2>2. PICK t3 : Printed(t2, buf, t3, k, sc)
    <3>1. k \in Rows /\ sc \in Columns /\ Edge(t2, k, sc) /\ buf \in Seq(Plain)
      BY <1>2, <1>3, <1>10, <1>12
    <3> QED
      BY ONLY <2>1, <3>1, PutMany
  <2> QED
    BY <1>10, <2>2 DEF l, Printed
<1>16. PICK t4 : /\ Reaches(t3, B, t4) /\ Edge(t4, k, sc)
                 /\ \A x \in Cells : t4.cells[x] = IF F + l <= x /\ x < (F + l) + m
                                                   THEN b[x - (F + l) + 1] ELSE t3.cells[x]
  <2>1. At(k, sc) <= Cursor(t3) /\ Cursor(t3) + Len(b) < WIDTH * HEIGHT
    BY <1>14, <1>15 DEF F, m, A
  <2>2. PICK t4 : Printed(t3, b, t4, k, sc)
    <3>1. k \in Rows /\ sc \in Columns /\ Edge(t3, k, sc) /\ b \in Seq(Plain)
      BY <1>2, <1>3, <1>15
    <3> QED
      BY ONLY <2>1, <3>1, PutMany
  <2> QED
    BY <1>15, <2>2 DEF m, Printed
<1> DEFINE t5 == vga_set_cursor(t4, r, c)
<1>17. Edge(t5, k, sc) /\ Cursor(t5) = F + pos /\ t5.cells = t4.cells
       /\ syscall_dispatcher(t4, SetCursor(<<r, c>>)) = t5
  <2>1. F + pos \in Cells
    BY <1>7, <1>14
  <2>2. r \in Rows
    BY <1>12, <2>1, CellRange
  <2>3. At(k, sc) <= At(r, c)
    BY <1>12, <1>14 DEF F
  <2>4. Edge(t5, k, sc) /\ Cursor(t5) = F + pos /\ t5.cells = t4.cells
    <3>1. k \in Rows /\ sc \in Columns /\ c \in Columns /\ Edge(t4, k, sc) /\ At(r, c) = F + pos
      BY <1>2, <1>3, <1>12, <1>16
    <3>2. Edge(t5, k, sc) /\ Cursor(t5) = At(r, c) /\ t5.cells = t4.cells
      BY ONLY <2>2, <2>3, <3>1, MoveTo
    <3> QED
      BY <3>1, <3>2, Zenon
  <2>5. syscall_dispatcher(t4, SetCursor(<<r, c>>)) = t5
    BY CursorCall
  <2> QED
    BY <2>4, <2>5
<1> HIDE DEF t5
<1>18. Reaches(s, todo', t5)
  <2>1. Reaches(t1, S0, t2) /\ Reaches(t4, S1, t5)
    BY <1>10, <1>17, ReachOne
  <2>2. S0 \in Seq(ScreenCalls) /\ P \in Seq(ScreenCalls) /\ B \in Seq(ScreenCalls) /\ S1 \in Seq(ScreenCalls)
        /\ Reaches(t2, P, t3) /\ Reaches(t3, B, t4)
    BY <1>13, <1>15, <1>16
  <2>3. ensure_edit_space(n) \in Seq(ScreenCalls)
    BY <1>5, EnsureCalls, EditsAreCalls
  <2> HIDE DEF S0, P, B, S1
  <2>4. Reaches(t1, S0 \o P, t3)
    BY <2>1, <2>2, ReachThen
  <2> DEFINE Q == S0 \o P
  <2>5. Q \in Seq(ScreenCalls)
    BY <2>2
  <2> HIDE DEF Q
  <2>6. Reaches(t1, Q \o B, t4)
    BY <2>2, <2>4, <2>5, ReachThen DEF Q
  <2> DEFINE R == Q \o B
  <2>7. R \in Seq(ScreenCalls)
    BY <2>2, <2>5
  <2> HIDE DEF R
  <2>8. Reaches(t1, R \o S1, t5)
    BY <2>1, <2>2, <2>6, <2>7, ReachThen DEF R
  <2> DEFINE T == R \o S1
  <2>9. T \in Seq(ScreenCalls)
    BY <2>2, <2>7
  <2> HIDE DEF T
  <2>10. Reaches(s, ensure_edit_space(n) \o T, t5)
    BY <1>9, <2>3, <2>8, <2>9, ReachThen DEF T
  <2> QED
    BY <1>13, <2>10 DEF T, R, Q
<1>19. Shown(t5, ed')
  <2>1. ASSUME NEW i \in 1 .. l PROVE t5.cells[F + i - 1] = buf[i]
    <3> DEFINE x == F + i - 1
    <3>1. x \in Int /\ 0 <= x /\ x < A /\ F <= x /\ x < F + l /\ x - F + 1 = i /\ ~ F + l <= x
      BY <1>14
    <3> HIDE DEF x
    <3>2. x \in Cells
      BY <1>7, <3>1
    <3>3. t4.cells[x] = t3.cells[x]
      BY <1>16, <3>1, <3>2
    <3>4. t3.cells[x] = buf[i]
      BY <1>15, <3>1, <3>2
    <3> QED
      BY <1>17, <3>3, <3>4 DEF x
  <2>2. ASSUME NEW i \in l + 1 .. L PROVE t5.cells[F + i - 1] = Blank
    <3> DEFINE x == F + i - 1
    <3>1. i \in Nat /\ i > l /\ i <= L
      BY <1>14
    <3>2. x \in Int /\ 0 <= x /\ x < A /\ F + l <= x /\ ~ x < F + l
      BY <1>14, <3>1
    <3>3. x \in Cells
      BY <1>7, <3>2
    <3>4. CASE i <= D
      <4>1. x < (F + l) + m /\ x - (F + l) + 1 \in 1 .. m
        BY <1>14, <3>1, <3>4
      <4> HIDE DEF x
      <4>2. t4.cells[x] = b[x - (F + l) + 1]
        BY <1>16, <3>2, <3>3, <4>1
      <4> QED
        BY <1>12, <1>17, <4>1, <4>2 DEF x
    <3>5. CASE ~ i <= D
      <4>1. ~ (x < (F + l) + m) /\ i \in D + 1 .. K /\ x + M = F0 + i - 1
        BY <1>14, <3>1, <3>5
      <4>2. x + M \in Int /\ 0 <= x + M /\ x + M < A
        BY <1>14, <3>1, <3>2, <4>1
      <4> HIDE DEF x
      <4>3. x + M \in Cells
        BY <1>7, <4>2
      <4>4. t4.cells[x] = t3.cells[x]
        BY <1>16, <3>3, <4>1
      <4>5. t3.cells[x] = t2.cells[x]
        BY <1>15, <3>2, <3>3
      <4>6. t1.cells[x] = s.cells[x + M]
        BY <1>9, <3>3, <4>3
      <4>7. s.cells[F0 + i - 1] = Blank
        BY <1>6, <4>1
      <4> QED
        BY <1>10, <1>17, <4>1, <4>4, <4>5, <4>6, <4>7 DEF x
    <3> QED
      BY <3>4, <3>5
  <2>3. Edge(t5, ed'.start_row, ed'.start_col) /\ Cursor(t5) = First(ed') + ed'.pos
    BY <1>8, <1>17
  <2>4. \A i \in 1 .. Len(ed'.buf) : t5.cells[First(ed') + i - 1] = ed'.buf[i]
    BY <1>8, <2>1 DEF l
  <2>5. \A i \in Len(ed'.buf) + 1 .. ed'.longest : t5.cells[First(ed') + i - 1] = Blank
    BY <1>8, <2>2 DEF l
  <2> QED
    BY <2>3, <2>4, <2>5 DEF Shown
<1> QED
  BY <1>18, <1>19

--------------------------------------------------------------------------------
(* The invariant of the shell. *)

Lines == {l \in Seq(Letters) : Len(l) < SIZE}

EditInv ==
  /\ Follows(scr, plain)
  /\ todo \in Seq(ScreenCalls)
  /\ EditorOK(ed)
  /\ history \in Seq(Lines) /\ Len(history) <= HIST_MAX /\ hist_pos \in 0 .. Len(history)
  /\ mouse \in [row : Rows, col : Columns, btn : BOOLEAN]
  /\ disturbed \in BOOLEAN

\* The prompt is on its way, or the calls under way lead to a screen that shows the line.
LineInv ==
  (at \in {"mouse", "key"} /\ ~ disturbed) =>
     \/ todo = <<Write(PROMPT), Protect, GetCursor>>
     \/ todo = <<Protect, GetCursor>>
     \/ todo = <<GetCursor>> /\ Edge(plain, plain.cursor_row, plain.cursor_col)
     \/ /\ \A i \in DOMAIN todo : todo[i].call # "get_cursor"
        /\ \E t : Reaches(plain, todo, t) /\ Shown(t, ed)

ShellInv == EditInv /\ LineInv

\* Without calls the screen stays.
LEMMA ReachesNothing ==
  ASSUME NEW s, NEW t, Reaches(s, <<>>, t)
  PROVE  t = s
<1>1. PICK tr : tr[0] = s /\ tr[Len(<<>>)] = t
  BY Zenon DEF Reaches
<1>2. Len(<<>>) = 0
  OBVIOUS
<1> QED
  BY <1>1, <1>2

\* With nothing left to do the screen shows the line.
LEMMA ShownNow ==
  ASSUME LineInv, at \in {"mouse", "key"}, ~ disturbed, todo = <<>>
  PROVE  Shown(plain, ed)
<1>1. <<Write(PROMPT), Protect, GetCursor>> # <<>> /\ <<Protect, GetCursor>> # <<>> /\ <<GetCursor>> # <<>>
  OBVIOUS
<1>2. PICK t : Reaches(plain, <<>>, t) /\ Shown(t, ed)
  BY <1>1, Zenon DEF LineInv
<1> QED
  BY <1>2, ReachesNothing

\* The two screens have the cursor at one place.
LEMMA SamePlaces ==
  ASSUME Follows(scr, plain)
  PROVE  /\ scr \in Screen /\ plain \in Screen /\ plain \in Bare
         /\ scr.cursor_row = plain.cursor_row /\ scr.cursor_col = plain.cursor_col
         /\ scr.protection_enabled = plain.protection_enabled
         /\ scr.protected_row = plain.protected_row /\ scr.protected_col = plain.protected_col
         /\ mouse_pointer_erase(scr).cells = plain.cells
BY Erased DEF Follows, Alike, Bare

\* A line that starts at the cursor.
LEMMA NewLineOK ==
  ASSUME NEW r \in Rows, NEW c \in Columns
  PROVE  LET e == [NewLine EXCEPT !.start_row = r, !.start_col = c]
         IN  /\ EditorOK(e) /\ e.start_row = r /\ e.start_col = c /\ e.buf = <<>> /\ e.pos = 0 /\ e.longest = 0
<1> DEFINE e == [NewLine EXCEPT !.start_row = r, !.start_col = c]
<1>1. NewLine \in Editor
  <2>1. 0 \in Rows /\ 0 \in Columns /\ <<>> \in Seq(Letters) /\ <<0, 0>> \in Int \X Int
    BY Sizes
  <2> QED
    BY <2>1 DEF NewLine, Editor
<1>2. e \in Editor
  BY <1>1 DEF Editor
<1>3. NewLine.buf = <<>> /\ NewLine.pos = 0 /\ NewLine.longest = 0 /\ NewLine.disp_len = 0
  BY DEF NewLine
<1>4. e.start_row = r /\ e.start_col = c /\ e.buf = <<>> /\ e.pos = 0 /\ e.longest = 0 /\ e.disp_len = 0
  BY <1>1, <1>3 DEF Editor
<1>5. First(e) + 0 < WIDTH * HEIGHT
  <2>1. First(e) \in Cells
    BY <1>4, CellRange, Sizes DEF First
  <2> QED
    BY <2>1, Sizes
<1>6. Len(<<>>) = 0 /\ SIZE \in Nat /\ SIZE > 0
  BY LineAssumption
<1> HIDE DEF e
<1>7. EditorOK(e)
  BY <1>2, <1>4, <1>5, <1>6 DEF EditorOK
<1> QED
  BY <1>4, <1>7 DEF e

\* The cursor alone is moved within the line.
LEMMA Moved ==
  ASSUME NEW d, NEW e, EditorOK(d), EditorOK(e), e.buf = d.buf, e.start_row = d.start_row,
         e.start_col = d.start_col,
         e.longest = d.longest, NEW s, Shown(s, d)
  PROVE  \E t : Reaches(s, line_set_cursor(e), t) /\ Shown(t, e)
<1>0. /\ e.start_row \in Rows /\ e.start_row \in Int /\ e.start_col \in Columns /\ e.pos \in Nat
      /\ Len(e.buf) \in Nat /\ e.longest \in Nat
      /\ e.pos <= e.longest /\ First(e) + e.longest < WIDTH * HEIGHT
  <2>1. e \in Editor /\ e.pos <= Len(e.buf) /\ Len(e.buf) <= e.longest /\ First(e) + e.longest < WIDTH * HEIGHT
    BY DEF EditorOK
  <2>2. e.start_row \in Rows /\ e.start_col \in Columns /\ e.pos \in Nat /\ Len(e.buf) \in Nat
        /\ e.longest \in Nat
    BY <2>1 DEF Editor
  <2> QED
    BY <2>1, <2>2, Sizes
<1>1. PICK r \in Int, c \in Columns : LinePlace(e, e.pos) = <<r, c>> /\ At(r, c) = First(e) + e.pos
  BY <1>0, LinePlaces DEF First
<1>2. First(e) \in Int /\ 0 <= First(e) /\ WIDTH * HEIGHT \in Int
  <2>1. First(e) \in Cells
    BY <1>0, CellRange DEF First
  <2> QED
    BY <2>1, Sizes
<1>3. r \in Rows
  <2> DEFINE A == At(r, c)
             F == First(e)
             W == WIDTH * HEIGHT
  <2>0. F \in Int /\ 0 <= F /\ W \in Int /\ A = F + e.pos /\ e.pos \in Nat /\ e.longest \in Nat
        /\ e.pos <= e.longest /\ F + e.longest < W
    BY <1>0, <1>1, <1>2
  <2> HIDE DEF A, F, W
  <2>3. A \in Int /\ 0 <= A /\ A < W
    BY <2>0
  <2>1. At(r, c) \in Cells
    BY <2>3, Sizes DEF A, W
  <2> QED
    BY <2>1, CellRange
<1>4. Edge(s, e.start_row, e.start_col) /\ First(d) = First(e)
  BY DEF Shown, First
<1>5. At(e.start_row, e.start_col) <= At(r, c)
  BY <1>0, <1>1, <1>2 DEF First
<1> DEFINE t == vga_set_cursor(s, r, c)
<1>6. Edge(t, e.start_row, e.start_col) /\ Cursor(t) = At(r, c) /\ t.cells = s.cells
  BY <1>0, <1>3, <1>4, <1>5, MoveTo
<1>7. line_set_cursor(e) = <<SetCursor(<<r, c>>)>>
  BY <1>1 DEF line_set_cursor
<1>8. syscall_dispatcher(s, SetCursor(<<r, c>>)) = t
  BY CursorCall
<1> HIDE DEF t
<1>9. Reaches(s, line_set_cursor(e), t)
  BY <1>7, <1>8, ReachOne
<1>10. Shown(t, e)
  BY <1>1, <1>4, <1>6 DEF Shown
<1> QED
  BY <1>9, <1>10

\* The call that moves the cursor is one of the editor's.
LEMMA CursorCalls ==
  ASSUME NEW e, EditorOK(e)
  PROVE  line_set_cursor(e) \in Seq(Edits)
<1>1. e.start_row \in Int /\ e.start_col \in Columns /\ e.pos \in Nat
  BY Sizes DEF EditorOK, Editor
<1>2. PICK r \in Int, c \in Columns : LinePlace(e, e.pos) = <<r, c>>
  BY <1>1, LinePlaces
<1>3. <<r, c>> \in Int \X Int
  BY Sizes
<1>4. SetCursor(LinePlace(e, e.pos)) \in Edits
  BY <1>2, <1>3, Zenon DEF Edits
<1> QED
  BY <1>4 DEF line_set_cursor

\* After a change of the line: types, and that no other calls are made than the editor's.
LEMMA ShowTypes ==
  ASSUME EditorOK(ed), NEW buf \in Seq(Letters), NEW pos \in Nat, pos <= Len(buf),
         NEW len \in Nat, Len(buf) <= len, len < SIZE, Show(buf, pos, len)
  PROVE  EditorOK(ed') /\ todo' \in Seq(Edits)
<1> DEFINE n == Missing(ed, len)
<1>1. PICK e \in Editor : todo' = ensure_edit_space(n) \o line_redraw(e) /\ EditorOK(ed')
  BY ShowFields
<1>2. n \in Nat
  <2>1. ed.start_row \in Rows /\ ed.start_col \in Columns
    BY DEF EditorOK, Editor
  <2>2. n \in 0 .. ed.start_row
    BY <2>1, MissingRows
  <2> QED
    BY <2>1, <2>2, Sizes
<1> HIDE DEF n
<1>3. ensure_edit_space(n) \in Seq(Edits)
  BY <1>2, EnsureCalls
<1>4. line_redraw(e) \in Seq(Edits)
  <2>1. PICK b \in Seq(Plain), r \in Int, c \in Columns :
           LET S0 == <<SetCursor(<<e.start_row, e.start_col>>)>>
               P  == [i \in 1 .. Len(e.buf) |-> Put(e.buf[i])]
               B  == [i \in 1 .. Len(b) |-> Put(b[i])]
               S1 == <<SetCursor(<<r, c>>)>>
           IN  /\ line_redraw(e) = ((S0 \o P) \o B) \o S1
               /\ S0 \in Seq(Edits) /\ P \in Seq(Edits) /\ B \in Seq(Edits) /\ S1 \in Seq(Edits)
    BY RedrawCalls, Zenon
  <2> DEFINE S0 == <<SetCursor(<<e.start_row, e.start_col>>)>>
             P  == [i \in 1 .. Len(e.buf) |-> Put(e.buf[i])]
             B  == [i \in 1 .. Len(b) |-> Put(b[i])]
             S1 == <<SetCursor(<<r, c>>)>>
  <2>2. /\ line_redraw(e) = ((S0 \o P) \o B) \o S1
        /\ S0 \in Seq(Edits) /\ P \in Seq(Edits) /\ B \in Seq(Edits) /\ S1 \in Seq(Edits)
    BY <2>1, Zenon
  <2> HIDE DEF S0, P, B, S1
  <2> QED
    BY <2>2
<1> QED
  BY <1>1, <1>3, <1>4

\* The line is changed: the calls that follow lead to a screen that shows it.
LEMMA ShowKeeps ==
  ASSUME EditInv, LineInv, at \in {"mouse", "key"}, todo = <<>>, UNCHANGED <<scr, plain, mouse, disturbed>>,
         history' \in Seq(Lines), Len(history') <= HIST_MAX, hist_pos' \in 0 .. Len(history'),
         NEW buf \in Seq(Letters), NEW pos \in Nat, pos <= Len(buf),
         NEW len \in Nat, Len(buf) <= len, len < SIZE, Show(buf, pos, len)
  PROVE  EditInv' /\ LineInv'
<1>1. EditorOK(ed') /\ todo' \in Seq(Edits)
  BY ShowTypes DEF EditInv
<1>2. todo' \in Seq(ScreenCalls) /\ \A i \in DOMAIN todo' : todo'[i].call # "get_cursor"
  BY <1>1, EditsAreCalls
<1>3. EditInv'
  BY <1>1, <1>2 DEF EditInv
<1>4. ASSUME ~ disturbed PROVE \E t : Reaches(plain', todo', t) /\ Shown(t, ed')
  <2>1. Shown(plain, ed)
    BY <1>4, ShownNow
  <2>2. PICK t : Reaches(plain, todo', t) /\ Shown(t, ed')
    BY <2>1, Redrawn DEF EditInv
  <2> QED
    BY <2>2
<1>5. LineInv'
  <2> SUFFICES ASSUME ~ disturbed'
               PROVE  /\ \A i \in DOMAIN todo' : todo'[i].call # "get_cursor"
                      /\ \E t : Reaches(plain', todo', t) /\ Shown(t, ed')
    BY Zenon DEF LineInv
  <2> QED
    BY <1>2, <1>4
<1> QED
  BY <1>3, <1>5

--------------------------------------------------------------------------------
(* The steps of the shell. *)

\* The editor is left alone, no call is under way and none is made.
LEMMA StillKeeps ==
  ASSUME EditInv, EditInv', LineInv, todo = <<>>, todo' = <<>>, UNCHANGED <<plain, disturbed>>,
         at \in {"mouse", "key"}, Shown(plain, ed) => Shown(plain, ed')
  PROVE  LineInv'
<1> SUFFICES ASSUME ~ disturbed'
             PROVE  /\ \A i \in DOMAIN todo' : todo'[i].call # "get_cursor"
                    /\ \E t : Reaches(plain', todo', t) /\ Shown(t, ed')
  BY Zenon DEF LineInv
<1>1. Shown(plain, ed)
  BY ShownNow
<1>2. Reaches(plain, <<>>, plain)
  BY ReachNone
<1>3. DOMAIN <<>> = {}
  OBVIOUS
<1>4. plain' = plain /\ Shown(plain, ed')
  BY <1>1
<1> QED
  BY <1>2, <1>3, <1>4

\* The cursor alone is moved, by a click or by an arrow key.
LEMMA MoveKeeps ==
  ASSUME EditInv, LineInv, at \in {"mouse", "key"}, todo = <<>>,
         UNCHANGED <<scr, plain, history, hist_pos, mouse, disturbed>>,
         EditorOK(ed'), ed'.buf = ed.buf, ed'.start_row = ed.start_row, ed'.start_col = ed.start_col,
         ed'.longest = ed.longest, todo' = line_set_cursor(ed')
  PROVE  ShellInv'
<1>1. todo' \in Seq(Edits)
  BY CursorCalls
<1>2. todo' \in Seq(ScreenCalls) /\ \A i \in DOMAIN todo' : todo'[i].call # "get_cursor"
  BY <1>1, EditsAreCalls
<1>3. EditInv'
  BY <1>2 DEF EditInv
<1>4. ASSUME ~ disturbed PROVE \E t : Reaches(plain', todo', t) /\ Shown(t, ed')
  <2>1. Shown(plain, ed)
    BY <1>4, ShownNow
  <2>2. EditorOK(ed)
    BY DEF EditInv
  <2>3. \E t : Reaches(plain, line_set_cursor(ed'), t) /\ Shown(t, ed')
    BY <2>1, <2>2, Moved
  <2>4. plain' = plain
    OBVIOUS
  <2> QED
    BY <2>3, <2>4
<1>5. LineInv'
  <2> SUFFICES ASSUME ~ disturbed'
               PROVE  /\ \A i \in DOMAIN todo' : todo'[i].call # "get_cursor"
                      /\ \E t : Reaches(plain', todo', t) /\ Shown(t, ed')
    BY Zenon DEF LineInv
  <2> QED
    BY <1>2, <1>4
<1> QED
  BY <1>3, <1>5 DEF ShellInv

\* What a shell that is not reading a line does needs no more than the types.
LEMMA OutsideKeeps ==
  ASSUME EditInv', ~ (at' \in {"mouse", "key"} /\ ~ disturbed')
  PROVE  ShellInv'
<1>1. LineInv'
  BY Zenon DEF LineInv
<1> QED
  BY <1>1 DEF ShellInv

\* The invariant holds when the shell starts.
LEMMA ShellStart ==
  ASSUME ShellInit
  PROVE  ShellInv
<1>1. vga_init \in Bare
  <2>1. 0 \in Rows /\ 0 \in Columns /\ [i \in Cells |-> Blank] \in [Cells -> Chars] /\ Blank \in Chars
    BY Sizes DEF Chars
  <2> QED
    BY <2>1 DEF vga_init, Bare, Screen
<1>2. PICK n \in Rows : scr = vga_write(vga_init, [i \in 1 .. n |-> "\n"])
  BY DEF ShellInit
<1>3. n \in Nat
  BY Sizes
<1> DEFINE q == [i \in 1 .. n |-> "\n"]
           R == {z \in Bare \X Bare : Alike(z[1], z[2])}
<1>4. q \in Seq(Chars)
  BY <1>3 DEF Chars
<1>5. <<vga_init, vga_init>> \in R
  BY <1>1 DEF Alike
<1>6. ASSUME NEW x, NEW y, NEW c \in Chars, <<x, y>> \in R
      PROVE  <<putchar_core(x, c), putchar_core(y, c)>> \in R
  <2>1. x \in Bare /\ y \in Bare /\ Alike(x, y)
    BY <1>6
  <2>2. Follows(x, y)
    BY <2>1, BareFollows
  <2> QED
    BY <2>2, PutAlike
<1> HIDE DEF R, q
<1>7. <<vga_write(vga_init, q), vga_write(vga_init, q)>> \in R
  BY ONLY <1>4, <1>5, <1>6, WriteInduction
<1>8. scr \in Bare
  BY <1>2, <1>7 DEF q, R
<1>9. Follows(scr, plain)
  BY <1>8, BareFollows DEF ShellInit, Alike
<1>10. EditorOK(ed)
  <2>1. 0 \in Rows /\ 0 \in Columns
    BY Sizes
  <2>2. [NewLine EXCEPT !.start_row = 0, !.start_col = 0] = NewLine
    <3>1. NewLine \in Editor
      <4>1. <<>> \in Seq(Letters) /\ <<0, 0>> \in Int \X Int
        OBVIOUS
      <4> QED
        BY <2>1, <4>1 DEF NewLine, Editor
    <3>2. NewLine.start_row = 0 /\ NewLine.start_col = 0
      BY DEF NewLine
    <3> QED
      BY <3>1, <3>2 DEF Editor
  <2> QED
    BY <2>1, <2>2, NewLineOK DEF ShellInit
<1>11. mouse \in [row : Rows, col : Columns, btn : BOOLEAN]
  BY Sizes DEF ShellInit
<1>12. history \in Seq(Lines) /\ Len(history) <= HIST_MAX /\ hist_pos \in 0 .. Len(history)
       /\ todo \in Seq(ScreenCalls) /\ disturbed \in BOOLEAN
  <2>1. history = <<>> /\ hist_pos = 0 /\ todo = <<>> /\ disturbed = FALSE
    BY DEF ShellInit
  <2>2. HIST_MAX \in Nat /\ Len(<<>>) = 0 /\ <<>> \in Seq(Lines) /\ <<>> \in Seq(ScreenCalls)
    BY LineAssumption
  <2>3. history \in Seq(Lines) /\ todo \in Seq(ScreenCalls)
    BY <2>1, <2>2, Zenon
  <2>4. Len(history) = 0
    BY <2>1, <2>2, Zenon
  <2>5. Len(history) <= HIST_MAX /\ hist_pos \in 0 .. Len(history)
    BY <2>1, <2>2, <2>4
  <2>6. disturbed \in BOOLEAN
    BY <2>1, Zenon
  <2> QED
    BY <2>3, <2>5, <2>6
<1>13. EditInv
  BY <1>9, <1>10, <1>11, <1>12 DEF EditInv
<1>14. LineInv
  BY DEF LineInv, ShellInit
<1> QED
  BY <1>13, <1>14 DEF ShellInv

\* A system call is made: what is left to do still leads to the line.
LEMMA CallKeeps ==
  ASSUME ShellInv, Call
  PROVE  ShellInv'
<1> DEFINE c == Head(todo)
           new == [NewLine EXCEPT !.start_row = scr.cursor_row, !.start_col = scr.cursor_col]
<1>0. EditInv /\ LineInv /\ Follows(scr, plain) /\ todo \in Seq(ScreenCalls) /\ todo # <<>>
  BY DEF ShellInv, EditInv, Call
<1>1. c \in ScreenCalls /\ Tail(todo) \in Seq(ScreenCalls)
  BY <1>0
<1>2. /\ scr' = syscall_dispatcher(scr, c) /\ plain' = syscall_dispatcher(plain, c) /\ todo' = Tail(todo)
      /\ ed' = (IF c.call = "get_cursor" THEN new ELSE ed)
      /\ at' = at /\ history' = history /\ hist_pos' = hist_pos /\ mouse' = mouse /\ disturbed' = disturbed
  BY DEF Call
<1>3. Follows(scr', plain')
  BY <1>0, <1>1, <1>2, CallFollows
<1>4. /\ EditorOK(new) /\ new.start_row = scr.cursor_row /\ new.start_col = scr.cursor_col
      /\ new.buf = <<>> /\ new.pos = 0 /\ new.longest = 0
      /\ scr.cursor_row = plain.cursor_row /\ scr.cursor_col = plain.cursor_col
      /\ plain \in Bare /\ plain \in Screen /\ plain.cursor_row \in Rows /\ plain.cursor_col \in Columns
  <2>1. /\ scr \in Screen /\ scr.cursor_row = plain.cursor_row /\ scr.cursor_col = plain.cursor_col
        /\ plain \in Bare /\ plain \in Screen
    BY <1>0, SamePlaces
  <2>2. scr.cursor_row \in Rows /\ scr.cursor_col \in Columns
    BY <2>1, CursorOnScreen
  <2> QED
    BY <2>1, <2>2, NewLineOK
<1> HIDE DEF new, c
<1>5. EditorOK(ed')
  BY <1>0, <1>2, <1>4 DEF EditInv
<1>6. EditInv'
  BY <1>0, <1>1, <1>2, <1>3, <1>5 DEF EditInv
<1>7. LineInv'
  <2> SUFFICES ASSUME at \in {"mouse", "key"}, ~ disturbed
               PROVE  \/ todo' = <<Protect, GetCursor>>
                      \/ todo' = <<GetCursor>> /\ Edge(plain', plain'.cursor_row, plain'.cursor_col)
                      \/ /\ \A i \in DOMAIN todo' : todo'[i].call # "get_cursor"
                         /\ \E t : Reaches(plain', todo', t) /\ Shown(t, ed')
    BY <1>2, Zenon DEF LineInv
  <2>1. CASE todo = <<Write(PROMPT), Protect, GetCursor>>
    BY <1>2, <2>1
  <2>2. CASE todo = <<Protect, GetCursor>>
    <3>1. c = Protect /\ todo' = <<GetCursor>>
      BY <1>2, <2>2 DEF c
    <3>2. plain' = vga_protect_before_cursor(plain)
      BY <1>2, <3>1, Dispatched
    <3>3. Edge(plain', plain'.cursor_row, plain'.cursor_col)
      BY <1>4, <3>2, ProtectFields DEF Edge, Bare
    <3> QED
      BY <3>1, <3>3
  <2>3. CASE todo = <<GetCursor>> /\ Edge(plain, plain.cursor_row, plain.cursor_col)
    <3>1. c = GetCursor /\ todo' = <<>>
      BY <1>2, <2>3 DEF c
    <3>2. plain' = plain /\ ed' = new
      BY <1>2, <3>1, Dispatched, CallFields
    <3>3. Cursor(plain) = First(new) + 0
      BY <1>4, CursorOnScreen DEF Cursor, First
    <3>4. Shown(plain, new)
      <4>1. Len(<<>>) = 0 /\ 1 .. 0 = {} /\ 0 + 1 .. 0 = {}
        OBVIOUS
      <4>2. Edge(plain, new.start_row, new.start_col)
        BY <1>4, <2>3
      <4> QED
        BY <1>4, <3>3, <4>1, <4>2 DEF Shown
    <3>5. Reaches(plain, <<>>, plain) /\ DOMAIN <<>> = {}
      BY ReachNone
    <3> QED
      BY <3>1, <3>2, <3>4, <3>5
  <2>4. CASE /\ \A i \in DOMAIN todo : todo[i].call # "get_cursor"
             /\ \E t : Reaches(plain, todo, t) /\ Shown(t, ed)
    <3>1. PICK t : Reaches(plain, todo, t) /\ Shown(t, ed)
      BY <2>4
    <3>2. 1 \in DOMAIN todo /\ c = todo[1]
          /\ \A i \in DOMAIN Tail(todo) : i + 1 \in DOMAIN todo /\ Tail(todo)[i] = todo[i + 1]
      BY <1>0 DEF c
    <3>3. ed' = ed /\ \A i \in DOMAIN todo' : todo'[i].call # "get_cursor"
      BY <1>2, <2>4, <3>2
    <3>4. Reaches(plain', todo', t)
      BY <1>0, <1>2, <3>1, ReachHead DEF c
    <3> QED
      BY <3>1, <3>3, <3>4
  <2> QED
    BY <1>0, <2>1, <2>2, <2>3, <2>4, Zenon DEF LineInv
<1> QED
  BY <1>6, <1>7 DEF ShellInv

\* The prompt is about to be written.
LEMMA PromptKeeps ==
  ASSUME ShellInv, Prompt
  PROVE  ShellInv'
<1>1. Write(PROMPT) \in ScreenCalls /\ Protect \in ScreenCalls /\ GetCursor \in ScreenCalls
  <2>1. PROMPT \in Seq(Chars)
    BY CharacterAssumption DEF Chars
  <2> QED
    BY <2>1, Zenon DEF ScreenCalls
<1>2. todo' = <<Write(PROMPT), Protect, GetCursor>> /\ disturbed' = FALSE
  BY DEF Prompt
<1>3. todo' \in Seq(ScreenCalls)
  <2>1. \A i \in 1 .. 3 : <<Write(PROMPT), Protect, GetCursor>>[i] \in ScreenCalls
    BY <1>1
  <2> QED
    BY <1>1, <1>2
<1>4. EditInv'
  BY <1>2, <1>3 DEF ShellInv, EditInv, Prompt
<1>5. LineInv'
  BY <1>2, Zenon DEF LineInv
<1> QED
  BY <1>4, <1>5 DEF ShellInv

\* Another turn without a key.
LEMMA NoKeyKeeps ==
  ASSUME ShellInv, NoKey
  PROVE  ShellInv'
<1>1. /\ EditInv /\ LineInv /\ todo = <<>> /\ todo' = <<>> /\ at \in {"mouse", "key"}
      /\ UNCHANGED <<scr, plain, todo, ed, history, hist_pos, mouse, disturbed>>
  BY DEF ShellInv, NoKey, Idle
<1>2. EditInv'
  BY <1>1 DEF EditInv
<1>3. LineInv'
  BY <1>1, <1>2, StillKeeps
<1> QED
  BY <1>2, <1>3 DEF ShellInv

\* A click in the line moves the cursor, one elsewhere does nothing.
LEMMA PollMouseKeeps ==
  ASSUME ShellInv, PollMouse
  PROVE  ShellInv'
<1> DEFINE pr == IF mouse.btn /\ ~ ed.prev_lbtn THEN <<mouse.row, mouse.col>> ELSE ed.press
           po == IF Clicked /\ InLine THEN ClickOffset ELSE ed.pos
           e == [ed EXCEPT !.prev_lbtn = mouse.btn, !.press = pr, !.pos = po]
<1>1. /\ EditInv /\ LineInv /\ todo = <<>> /\ at \in {"mouse", "key"} /\ EditorOK(ed)
      /\ UNCHANGED <<scr, plain, history, hist_pos, mouse, disturbed>>
  BY DEF ShellInv, EditInv, PollMouse, Idle
<1>2. ed' = e /\ todo' = IF Clicked /\ InLine THEN line_set_cursor(e) ELSE <<>>
  BY Zenon DEF PollMouse
<1>3. mouse.row \in Rows /\ mouse.col \in Columns /\ mouse.btn \in BOOLEAN /\ mouse.row \in Int
      /\ mouse.col \in Int
  BY <1>1, Sizes DEF EditInv
<1>4. /\ ed \in Editor /\ ed.pos \in Nat /\ ed.pos <= Len(ed.buf) /\ Len(ed.buf) \in Nat
      /\ ed.press \in Int \X Int
      /\ ed.start_row \in Int /\ ed.start_col \in Int
  BY <1>1, Sizes DEF EditorOK, Editor
<1>5. ClickOffset \in Nat /\ ClickOffset <= Len(ed.buf)
  <2> DEFINE v == (mouse.row - ed.start_row) * WIDTH + mouse.col - ed.start_col
             m == Min({Len(ed.buf), v})
  <2>1. v \in Int
    <3> DEFINE w == mouse.row - ed.start_row
    <3>1. w \in Int /\ WIDTH \in Int /\ mouse.col \in Int /\ ed.start_col \in Int
      BY <1>3, <1>4, Sizes
    <3> HIDE DEF w
    <3>2. w * WIDTH \in Int
      BY <3>1
    <3> QED
      BY <3>1, <3>2 DEF w
  <2>2. ClickOffset = Max({0, m})
    BY Zenon DEF ClickOffset
  <2> HIDE DEF v
  <2> DEFINE k == Len(ed.buf)
  <2>6. k \in Int
    BY <1>4
  <2> HIDE DEF k
  <2>3. m = IF Len(ed.buf) <= v THEN Len(ed.buf) ELSE v
    <3>1. Min({k, v}) = IF k <= v THEN k ELSE v
      BY <2>1, <2>6, OfTwo
    <3> QED
      BY <3>1, Zenon DEF k
  <2> HIDE DEF m
  <2>4. m \in Int /\ m <= Len(ed.buf)
    BY <1>4, <2>1, <2>3
  <2>5. Max({0, m}) = IF 0 >= m THEN 0 ELSE m
    BY <2>4, OfTwo
  <2> QED
    BY <1>4, <2>2, <2>4, <2>5
<1>6. po \in Nat /\ po <= Len(ed.buf) /\ pr \in Int \X Int
  BY <1>3, <1>4, <1>5
<1> HIDE DEF po, pr
<1>7. /\ e \in Editor /\ e.buf = ed.buf /\ e.pos = po /\ e.start_row = ed.start_row
      /\ e.start_col = ed.start_col
      /\ e.longest = ed.longest /\ e.disp_len = ed.disp_len
  BY <1>3, <1>4, <1>6 DEF Editor
<1> HIDE DEF e
<1>8. EditorOK(e)
  BY <1>1, <1>6, <1>7 DEF EditorOK, First
<1>9. CASE Clicked /\ InLine
  BY <1>1, <1>2, <1>7, <1>8, <1>9, MoveKeeps
<1>10. CASE ~ (Clicked /\ InLine)
  <2>1. todo' = <<>> /\ e.pos = ed.pos
    BY <1>2, <1>7, <1>10 DEF po
  <2>2. <<>> \in Seq(ScreenCalls)
    OBVIOUS
  <2>3. EditInv'
    BY <1>1, <1>2, <1>8, <2>1, <2>2 DEF EditInv
  <2>4. Shown(plain, ed) => Shown(plain, ed')
    BY <1>2, <1>7, <2>1 DEF Shown, First
  <2>5. LineInv'
    BY <1>1, <2>1, <2>3, <2>4, StillKeeps
  <2> QED
    BY <2>3, <2>5 DEF ShellInv
<1> QED
  BY <1>9, <1>10

\* What a key finds: no call under way and a sound editor.
LEMMA KeyFacts ==
  ASSUME ShellInv, Key
  PROVE  /\ EditInv /\ LineInv /\ todo = <<>> /\ at \in {"mouse", "key"} /\ EditorOK(ed)
         /\ UNCHANGED <<scr, plain, mouse, disturbed>>
         /\ history \in Seq(Lines) /\ Len(history) <= HIST_MAX /\ hist_pos \in 0 .. Len(history)
         /\ ed \in Editor /\ ed.buf \in Seq(Letters) /\ Len(ed.buf) \in Nat /\ ed.pos \in Nat
         /\ ed.pos <= Len(ed.buf) /\ Len(ed.buf) < SIZE
         /\ SIZE \in Nat
<1>1. EditInv /\ LineInv /\ todo = <<>> /\ at \in {"mouse", "key"} /\ EditorOK(ed)
      /\ UNCHANGED <<scr, plain, mouse, disturbed>>
  BY DEF ShellInv, EditInv, Key, Idle
<1>2. history \in Seq(Lines) /\ Len(history) <= HIST_MAX /\ hist_pos \in 0 .. Len(history)
  BY <1>1 DEF EditInv
<1>3. ed \in Editor /\ ed.buf \in Seq(Letters) /\ Len(ed.buf) \in Nat /\ ed.pos \in Nat
      /\ ed.pos <= Len(ed.buf) /\ ed.longest \in Nat /\ Len(ed.buf) <= ed.longest /\ ed.longest < SIZE
  BY <1>1 DEF EditorOK, Editor
<1> QED
  BY <1>1, <1>2, <1>3, LineAssumption

\* A character is put into a line.
LEMMA Inserted ==
  ASSUME NEW b \in Seq(Letters), NEW p \in 0 .. Len(b), NEW c \in Letters
  PROVE  InsertAt(b, p + 1, c) \in Seq(Letters) /\ Len(InsertAt(b, p + 1, c)) = Len(b) + 1
<1> DEFINE u == SubSeq(b, 1, (p + 1) - 1)
           v == SubSeq(b, p + 1, Len(b))
<1>1. u \in Seq(Letters) /\ Len(u) = p
  BY SubSeqProperties
<1>2. v \in Seq(Letters) /\ Len(v) = Len(b) - p
  BY SubSeqProperties
<1>3. InsertAt(b, p + 1, c) = (u \o <<c>>) \o v
  BY DEF InsertAt
<1>4. <<c>> \in Seq(Letters) /\ Len(<<c>>) = 1
  OBVIOUS
<1>5. Len(b) \in Nat /\ p \in Nat
  OBVIOUS
<1> HIDE DEF u, v
<1> DEFINE w == u \o <<c>>
<1>6. w \in Seq(Letters) /\ Len(w) = Len(u) + 1
  BY <1>1, <1>4, ConcatProperties
<1> HIDE DEF w
<1>7. w \o v \in Seq(Letters) /\ Len(w \o v) = Len(w) + Len(v)
  BY <1>2, <1>6, ConcatProperties
<1>8. InsertAt(b, p + 1, c) = w \o v
  BY <1>3 DEF w
<1>9. Len(w) + Len(v) = Len(b) + 1
  BY <1>1, <1>2, <1>5, <1>6
<1> QED
  BY <1>7, <1>8, <1>9, Zenon

\* A character is taken out of a line.
LEMMA Removed ==
  ASSUME NEW b \in Seq(Letters), NEW p \in 1 .. Len(b)
  PROVE  RemoveAt(b, p) \in Seq(Letters) /\ Len(RemoveAt(b, p)) = Len(b) - 1
<1> DEFINE u == SubSeq(b, 1, p - 1)
           v == SubSeq(b, p + 1, Len(b))
<1>1. u \in Seq(Letters) /\ Len(u) = p - 1
  BY SubSeqProperties
<1>2. v \in Seq(Letters) /\ Len(v) = Len(b) - p
  BY SubSeqProperties
<1>3. RemoveAt(b, p) = u \o v
  BY DEF RemoveAt
<1>4. Len(b) \in Nat /\ p \in Nat
  OBVIOUS
<1> HIDE DEF u, v
<1>5. u \o v \in Seq(Letters) /\ Len(u \o v) = Len(u) + Len(v)
  BY <1>1, <1>2, ConcatProperties
<1> QED
  BY <1>1, <1>2, <1>3, <1>4, <1>5

\* A character is typed.
LEMMA InsertKeeps ==
  ASSUME ShellInv, NEW c \in Letters, Insert(c)
  PROVE  ShellInv'
<1> DEFINE b == InsertAt(ed.buf, ed.pos + 1, c)
           p == ed.pos + 1
           n == Len(ed.buf) + 1
<1>1. Key /\ Len(ed.buf) < SIZE - 1 /\ Show(b, p, n) /\ UNCHANGED <<history, hist_pos>>
  BY DEF Insert
<1>2. /\ EditInv /\ LineInv /\ todo = <<>> /\ at \in {"mouse", "key"} /\ EditorOK(ed)
      /\ UNCHANGED <<scr, plain, mouse, disturbed>>
      /\ history \in Seq(Lines) /\ Len(history) <= HIST_MAX /\ hist_pos \in 0 .. Len(history)
      /\ ed.buf \in Seq(Letters) /\ Len(ed.buf) \in Nat /\ ed.pos \in Nat /\ ed.pos <= Len(ed.buf)
      /\ SIZE \in Nat
  BY <1>1, KeyFacts
<1>3. b \in Seq(Letters) /\ Len(b) = n
  <2>1. ed.pos \in 0 .. Len(ed.buf)
    BY <1>2
  <2> QED
    BY <1>2, <2>1, Inserted
<1>4. p \in Nat /\ n \in Nat /\ p <= n /\ n < SIZE
  BY <1>1, <1>2
<1> HIDE DEF b, p, n
<1>5. p <= Len(b) /\ Len(b) <= n
  BY <1>3, <1>4
<1>6. history' \in Seq(Lines) /\ Len(history') <= HIST_MAX /\ hist_pos' \in 0 .. Len(history')
  BY <1>1, <1>2
<1>7. EditInv' /\ LineInv'
  BY <1>1, <1>2, <1>3, <1>4, <1>5, <1>6, ShowKeeps
<1> QED
  BY <1>7 DEF ShellInv

\* A character is deleted.
LEMMA BackspaceKeeps ==
  ASSUME ShellInv, Backspace
  PROVE  ShellInv'
<1> DEFINE b == RemoveAt(ed.buf, ed.pos)
           p == ed.pos - 1
           n == Len(ed.buf) - 1
<1>1. Key /\ ed.pos > 0 /\ Show(b, p, n) /\ UNCHANGED <<history, hist_pos>>
  BY DEF Backspace
<1>2. /\ EditInv /\ LineInv /\ todo = <<>> /\ at \in {"mouse", "key"} /\ EditorOK(ed)
      /\ UNCHANGED <<scr, plain, mouse, disturbed>>
      /\ history \in Seq(Lines) /\ Len(history) <= HIST_MAX /\ hist_pos \in 0 .. Len(history)
      /\ ed.buf \in Seq(Letters) /\ Len(ed.buf) \in Nat /\ ed.pos \in Nat /\ ed.pos <= Len(ed.buf)
      /\ Len(ed.buf) < SIZE /\ SIZE \in Nat
  BY <1>1, KeyFacts
<1>3. b \in Seq(Letters) /\ Len(b) = n
  <2>1. ed.pos \in 1 .. Len(ed.buf)
    BY <1>1, <1>2
  <2> QED
    BY <1>2, <2>1, Removed
<1>4. p \in Nat /\ n \in Nat /\ p <= n /\ n < SIZE
  BY <1>1, <1>2
<1> HIDE DEF b, p, n
<1>5. p <= Len(b) /\ Len(b) <= n
  BY <1>3, <1>4
<1>6. history' \in Seq(Lines) /\ Len(history') <= HIST_MAX /\ hist_pos' \in 0 .. Len(history')
  BY <1>1, <1>2
<1>7. EditInv' /\ LineInv'
  BY <1>1, <1>2, <1>3, <1>4, <1>5, <1>6, ShowKeeps
<1> QED
  BY <1>7 DEF ShellInv

\* An arrow key.
LEMMA ArrowKeeps ==
  ASSUME ShellInv, Key, NEW p \in Nat, p <= Len(ed.buf), ed' = [ed EXCEPT !.pos = p],
         todo' = line_set_cursor(ed'),
         UNCHANGED <<history, hist_pos>>
  PROVE  ShellInv'
<1>1. /\ EditInv /\ LineInv /\ todo = <<>> /\ at \in {"mouse", "key"} /\ EditorOK(ed)
      /\ UNCHANGED <<scr, plain, mouse, disturbed>>
      /\ ed \in Editor
  BY KeyFacts
<1> DEFINE e == [ed EXCEPT !.pos = p]
<1>2. /\ e \in Editor /\ e.buf = ed.buf /\ e.pos = p /\ e.start_row = ed.start_row /\ e.start_col = ed.start_col
      /\ e.longest = ed.longest /\ e.disp_len = ed.disp_len
  BY <1>1 DEF Editor
<1> HIDE DEF e
<1>3. EditorOK(e)
  BY <1>1, <1>2 DEF EditorOK, First
<1>4. ed' = e
  BY DEF e
<1> QED
  BY <1>1, <1>2, <1>3, <1>4, MoveKeeps

\* The arrow to the left.
LEMMA LeftKeeps ==
  ASSUME ShellInv, Left
  PROVE  ShellInv'
<1>1. /\ Key /\ ed.pos > 0 /\ ed' = [ed EXCEPT !.pos = ed.pos - 1] /\ todo' = line_set_cursor(ed')
      /\ UNCHANGED <<history, hist_pos>>
  BY DEF Left
<1>2. ed.pos \in Nat /\ ed.pos <= Len(ed.buf) /\ Len(ed.buf) \in Nat
  BY <1>1, KeyFacts
<1>3. ed.pos - 1 \in Nat /\ ed.pos - 1 <= Len(ed.buf)
  BY <1>1, <1>2
<1> QED
  BY <1>1, <1>3, ArrowKeeps

\* The arrow to the right.
LEMMA RightKeeps ==
  ASSUME ShellInv, Right
  PROVE  ShellInv'
<1>1. /\ Key /\ ed.pos < Len(ed.buf) /\ ed' = [ed EXCEPT !.pos = ed.pos + 1] /\ todo' = line_set_cursor(ed')
      /\ UNCHANGED <<history, hist_pos>>
  BY DEF Right
<1>2. ed.pos \in Nat /\ ed.pos <= Len(ed.buf) /\ Len(ed.buf) \in Nat
  BY <1>1, KeyFacts
<1>3. ed.pos + 1 \in Nat /\ ed.pos + 1 <= Len(ed.buf)
  BY <1>1, <1>2
<1> QED
  BY <1>1, <1>3, ArrowKeeps

\* A line of the history.
LEMMA HistoryKeeps ==
  ASSUME ShellInv, Key, NEW i \in 1 .. Len(history), hist_apply(i), hist_pos' = i, UNCHANGED history
  PROVE  ShellInv'
<1> DEFINE l == history[Len(history) - i + 1]
<1>1. /\ EditInv /\ LineInv /\ todo = <<>> /\ at \in {"mouse", "key"} /\ EditorOK(ed)
      /\ UNCHANGED <<scr, plain, mouse, disturbed>>
      /\ history \in Seq(Lines) /\ Len(history) <= HIST_MAX /\ SIZE \in Nat
  BY KeyFacts
<1>2. Len(history) \in Nat /\ Len(history) - i + 1 \in 1 .. Len(history)
  BY <1>1
<1>3. l \in Lines
  BY <1>1, <1>2
<1>4. Show(l, Len(l), SIZE - 1)
  BY DEF hist_apply
<1> HIDE DEF l
<1>5. l \in Seq(Letters) /\ Len(l) \in Nat /\ Len(l) < SIZE
  BY <1>3 DEF Lines
<1>6. SIZE - 1 \in Nat /\ Len(l) <= SIZE - 1 /\ SIZE - 1 < SIZE /\ Len(l) <= Len(l)
  BY <1>1, <1>5
<1>7. history' \in Seq(Lines) /\ Len(history') <= HIST_MAX /\ hist_pos' \in 0 .. Len(history')
  BY <1>1, <1>2
<1>8. EditInv' /\ LineInv'
  BY ONLY <1>1, <1>4, <1>5, <1>6, <1>7, ShowKeeps
<1> QED
  BY <1>8 DEF ShellInv

\* An older line.
LEMMA UpKeeps ==
  ASSUME ShellInv, Up
  PROVE  ShellInv'
<1>1. Key /\ hist_pos < Len(history) /\ hist_pos' = hist_pos + 1 /\ hist_apply(hist_pos') /\ UNCHANGED history
  BY DEF Up
<1>2. history \in Seq(Lines) /\ hist_pos \in 0 .. Len(history)
  BY <1>1, KeyFacts
<1>3. hist_pos' \in 1 .. Len(history)
  BY <1>1, <1>2
<1> QED
  BY <1>1, <1>3, HistoryKeeps

\* A newer line, or none.
LEMMA DownKeeps ==
  ASSUME ShellInv, Down
  PROVE  ShellInv'
<1>1. /\ Key /\ hist_pos > 0 /\ hist_pos' = hist_pos - 1 /\ UNCHANGED history
      /\ IF hist_pos' = 0 THEN Show(<<>>, 0, 0) ELSE hist_apply(hist_pos')
  BY DEF Down
<1>2. /\ EditInv /\ LineInv /\ todo = <<>> /\ at \in {"mouse", "key"} /\ EditorOK(ed)
      /\ UNCHANGED <<scr, plain, mouse, disturbed>>
      /\ history \in Seq(Lines) /\ Len(history) <= HIST_MAX /\ hist_pos \in 0 .. Len(history)
      /\ SIZE \in Nat /\ SIZE > 0
  BY <1>1, KeyFacts, LineAssumption
<1>3. CASE hist_pos' = 0
  <2>1. Show(<<>>, 0, 0)
    BY <1>1, <1>3
  <2>2. <<>> \in Seq(Letters) /\ Len(<<>>) = 0
    OBVIOUS
  <2>3. history' \in Seq(Lines) /\ Len(history') <= HIST_MAX /\ hist_pos' \in 0 .. Len(history')
    BY <1>1, <1>2, <1>3
  <2>4. 0 \in Nat /\ 0 <= Len(<<>>) /\ Len(<<>>) <= 0 /\ 0 < SIZE
    BY <1>2, <2>2
  <2>5. EditInv' /\ LineInv'
    BY <1>2, <2>1, <2>2, <2>3, <2>4, ShowKeeps
  <2> QED
    BY <2>5 DEF ShellInv
<1>4. CASE hist_pos' # 0
  <2>1. hist_pos' \in 1 .. Len(history)
    BY <1>1, <1>2, <1>4
  <2> QED
    BY <1>1, <1>4, <2>1, HistoryKeeps
<1> QED
  BY <1>3, <1>4

\* The history holds lines, and no more than HIST_MAX of them.
LEMMA Added ==
  ASSUME history \in Seq(Lines), Len(history) <= HIST_MAX, NEW l \in Lines
  PROVE  hist_add(l) \in Seq(Lines) /\ Len(hist_add(l)) <= HIST_MAX
<1>0. HIST_MAX \in Nat /\ HIST_MAX > 0 /\ Len(history) \in Nat
  BY LineAssumption
<1>1. CASE l = <<>> \/ (history # <<>> /\ Last(history) = l)
  <2>1. hist_add(l) = history
    BY <1>1, Zenon DEF hist_add
  <2> QED
    BY <2>1
<1>2. CASE ~ (l = <<>> \/ (history # <<>> /\ Last(history) = l)) /\ Len(history) < HIST_MAX
  <2>1. hist_add(l) = Append(history, l)
    BY <1>2, Zenon DEF hist_add
  <2>2. Append(history, l) \in Seq(Lines) /\ Len(Append(history, l)) = Len(history) + 1
    BY AppendProperties
  <2> QED
    BY <1>0, <1>2, <2>1, <2>2
<1>3. CASE ~ (l = <<>> \/ (history # <<>> /\ Last(history) = l)) /\ ~ Len(history) < HIST_MAX
  <2>1. hist_add(l) = Append(Tail(history), l)
    BY <1>3, Zenon DEF hist_add
  <2>2. history # <<>>
    BY <1>0, <1>3
  <2>3. Tail(history) \in Seq(Lines) /\ Len(Tail(history)) = Len(history) - 1
    BY <2>2, HeadTailProperties
  <2>4. Append(Tail(history), l) \in Seq(Lines) /\ Len(Append(Tail(history), l)) = Len(Tail(history)) + 1
    BY <2>3, AppendProperties
  <2> QED
    BY <1>0, <1>3, <2>1, <2>3, <2>4
<1> QED
  BY <1>1, <1>2, <1>3

\* The line is given to execute.
LEMMA EnterKeeps ==
  ASSUME ShellInv, Enter
  PROVE  ShellInv'
<1>1. Key /\ todo' = <<Put("\n")>> /\ history' = hist_add(ed.buf) /\ hist_pos' = 0 /\ at' = "run" /\ ed' = ed
  BY DEF Enter
<1>2. /\ EditInv /\ UNCHANGED <<scr, plain, mouse, disturbed>>
      /\ history \in Seq(Lines) /\ Len(history) <= HIST_MAX /\ ed.buf \in Seq(Letters) /\ Len(ed.buf) < SIZE
  BY <1>1, KeyFacts
<1>3. ed.buf \in Lines
  BY <1>2 DEF Lines
<1>4. history' \in Seq(Lines) /\ Len(history') <= HIST_MAX
  BY <1>1, <1>2, <1>3, Added
<1>5. hist_pos' \in 0 .. Len(history')
  <2>1. Len(history') \in Nat
    BY <1>4
  <2> QED
    BY <1>1, <2>1
<1>6. todo' \in Seq(ScreenCalls)
  <2>1. Put("\n") \in ScreenCalls
    <3>1. "\n" \in Chars
      BY DEF Chars
    <3> QED
      BY <3>1, Zenon DEF ScreenCalls, Edits
  <2> QED
    BY <1>1, <2>1
<1>7. EditInv'
  BY <1>1, <1>2, <1>4, <1>5, <1>6 DEF EditInv
<1>8. ~ (at' \in {"mouse", "key"} /\ ~ disturbed')
  BY <1>1
<1> QED
  BY <1>7, <1>8, OutsideKeeps

\* A command writes.
LEMMA OutputKeeps ==
  ASSUME ShellInv, Output
  PROVE  ShellInv'
<1>1. EditInv /\ at = "run" /\ UNCHANGED <<scr, plain, at, ed, history, hist_pos, mouse, disturbed>>
  BY DEF ShellInv, Output, Idle
<1>2. (\E c \in OutChars : todo' = <<Put(c)>>) \/ todo' = <<Clear>>
  BY DEF Output
<1>3. todo' \in Seq(ScreenCalls)
  <2>1. ASSUME NEW c \in OutChars, todo' = <<Put(c)>> PROVE todo' \in Seq(ScreenCalls)
    <3>1. c \in Chars
      BY CharacterAssumption DEF Chars
    <3>2. Put(c) \in ScreenCalls
      BY <3>1, Zenon DEF ScreenCalls, Edits
    <3> QED
      BY <2>1, <3>2
  <2>2. CASE todo' = <<Clear>>
    <3>1. Clear \in ScreenCalls
      BY Zenon DEF ScreenCalls
    <3> QED
      BY <2>2, <3>1
  <2> QED
    BY <1>2, <2>1, <2>2, Zenon
<1>4. EditInv'
  BY <1>1, <1>3 DEF EditInv
<1>5. ~ (at' \in {"mouse", "key"} /\ ~ disturbed')
  BY <1>1
<1> QED
  BY <1>4, <1>5, OutsideKeeps

\* A command is done.
LEMMA CommandDoneKeeps ==
  ASSUME ShellInv, CommandDone
  PROVE  ShellInv'
<1>1. EditInv /\ at' = "prompt" /\ UNCHANGED <<scr, plain, todo, ed, history, hist_pos, mouse, disturbed>>
  BY DEF ShellInv, CommandDone
<1>2. EditInv'
  BY <1>1 DEF EditInv
<1>3. ~ (at' \in {"mouse", "key"} /\ ~ disturbed')
  BY <1>1
<1> QED
  BY <1>2, <1>3, OutsideKeeps

\* The pointer is drawn elsewhere.
LEMMA MouseReportKeeps ==
  ASSUME ShellInv, MouseReport
  PROVE  ShellInv'
<1>1. PICK p \in Spots, b \in BOOLEAN :
         /\ mouse' = [row |-> p[1], col |-> p[2], btn |-> b]
         /\ scr' = pointer_draw(scr, p[1], p[2])
  BY DEF MouseReport
<1>2. EditInv /\ LineInv /\ UNCHANGED <<plain, at, todo, ed, history, hist_pos, disturbed>>
  BY DEF ShellInv, MouseReport
<1>3. p[1] \in Rows /\ p[2] \in Columns
  BY CharacterAssumption
<1>4. Follows(scr, plain)
  BY <1>2 DEF EditInv
<1>5. Follows(scr', plain)
  <2>1. scr \in Screen /\ plain \in Bare /\ Alike(mouse_pointer_erase(scr), plain)
    BY <1>4 DEF Follows
  <2>2. scr' \in Screen /\ Alike(mouse_pointer_erase(scr'), mouse_pointer_erase(scr))
    BY <1>1, <1>3, <2>1, Drawn
  <2>3. Alike(mouse_pointer_erase(scr'), plain)
    BY <2>1, <2>2 DEF Alike
  <2> QED
    BY <2>1, <2>2, <2>3 DEF Follows
<1>6. mouse' \in [row : Rows, col : Columns, btn : BOOLEAN]
  BY <1>1, <1>3
<1>7. EditInv'
  BY <1>2, <1>5, <1>6 DEF EditInv
<1>8. LineInv'
  BY <1>2, Zenon DEF LineInv
<1> QED
  BY <1>7, <1>8 DEF ShellInv

\* The kernel writes.
LEMMA KernelMessageKeeps ==
  ASSUME ShellInv, KernelMessage
  PROVE  ShellInv'
<1>1. /\ EditInv /\ scr' = vga_write(scr, MESSAGE) /\ plain' = vga_write(plain, MESSAGE) /\ disturbed' = TRUE
      /\ UNCHANGED <<at, todo, ed, history, hist_pos, mouse>>
  BY DEF ShellInv, KernelMessage
<1>2. MESSAGE \in Seq(Chars)
  BY CharacterAssumption DEF Chars
<1>3. Follows(scr', plain')
  BY <1>1, <1>2, WriteFollows DEF EditInv
<1>4. EditInv'
  BY <1>1, <1>3 DEF EditInv
<1>5. ~ (at' \in {"mouse", "key"} /\ ~ disturbed')
  BY <1>1
<1> QED
  BY <1>4, <1>5, OutsideKeeps

\* Every step keeps the invariant.
LEMMA ShellStep ==
  ASSUME ShellInv, [ShellNext]_shell_vars
  PROVE  ShellInv'
<1>1. CASE UNCHANGED shell_vars
  BY <1>1 DEF shell_vars, ShellInv, EditInv, LineInv
<1>2. ASSUME NEW c \in Letters, Insert(c) PROVE ShellInv'
  BY <1>2, InsertKeeps
<1> QED
  BY <1>1, <1>2, CallKeeps, PromptKeeps, PollMouseKeeps, NoKeyKeeps, BackspaceKeeps, LeftKeeps, RightKeeps,
     UpKeeps, DownKeeps, EnterKeeps, OutputKeeps, CommandDoneKeeps, MouseReportKeeps, KernelMessageKeeps, Zenon
  DEF ShellNext

\* Every reachable state: the screen is the one without a pointer but for the pointer, and
\* the calls that the shell is about to make lead to a screen that shows the line.
THEOREM ShellInvariance == ShellSpec => []ShellInv
<1>1. ShellInit => ShellInv
  BY ShellStart
<1>2. ShellInv /\ [ShellNext]_shell_vars => ShellInv'
  BY ShellStep
<1> QED
  BY <1>1, <1>2, PTL DEF ShellSpec

\* vga_write, vga_putchar, vga_clear and mouse_pointer_draw: wherever the pointer is when
\* text is written, scrolled or cleared, the text below it is the text without a pointer.
THEOREM PointerNeverLeavesTrace == ShellSpec => []PointerLeavesNoTrace
<1>1. ASSUME ShellInv PROVE PointerLeavesNoTrace
  <2>1. Follows(scr, plain)
    BY <1>1 DEF ShellInv, EditInv
  <2> QED
    BY <2>1, SamePlaces DEF PointerLeavesNoTrace, Text, Boundary
<1> QED
  BY <1>1, ShellInvariance, PTL

\* readline and line_redraw: whenever the shell waits for a key and nothing else has written,
\* the screen shows the line, blanks behind it and the cursor at the place of the next key.
THEOREM LineAlwaysShown == ShellSpec => []LineShown
<1>1. ASSUME ShellInv PROVE LineShown
  <2>0. EditInv /\ LineInv /\ Follows(scr, plain) /\ EditorOK(ed) /\ Len(history) <= HIST_MAX
        /\ hist_pos \in 0 .. Len(history)
    BY <1>1 DEF ShellInv, EditInv
  <2>1. /\ scr \in Screen /\ plain \in Screen
        /\ scr.cursor_row = plain.cursor_row /\ scr.cursor_col = plain.cursor_col
        /\ Text(scr) = plain.cells
    BY <2>0, SamePlaces DEF Text
  <2>2. PlacesOK
    <3>1. /\ scr.cursor_row \in Rows /\ scr.cursor_col \in Columns
          /\ scr.protected_row \in Rows /\ scr.protected_col \in Columns
      BY <2>1 DEF Screen
    <3>2. /\ ed.pos \in Nat /\ ed.pos <= Len(ed.buf) /\ Len(ed.buf) \in Nat /\ Len(ed.buf) <= ed.longest
          /\ ed.longest < SIZE /\ ed.longest \in Nat /\ ed.start_row \in Rows
      BY <2>0 DEF EditorOK, Editor
    <3>3. ed.pos \in 0 .. Len(ed.buf) /\ Len(ed.buf) < SIZE
      BY <3>2, LineAssumption
    <3> QED
      BY <2>0, <3>1, <3>2, <3>3 DEF PlacesOK
  <2>3. ASSUME at \in {"mouse", "key"}, todo = <<>>, ~ disturbed PROVE Shown(plain, ed)
    BY <2>0, <2>3, ShownNow
  <2> QED
    BY <2>1, <2>2, <2>3, Zenon DEF LineShown, Shown, First, Cursor
<1> QED
  BY <1>1, ShellInvariance, PTL

--------------------------------------------------------------------------------
(* Protected text. *)

Guarded(s) == s \in Screen /\ s.protection_enabled = TRUE

Edged(s) == At(s.protected_row, s.protected_col)

\* From s to t the protected text has gone up by k rows, with its boundary.
Kept(s, t, k) ==
  /\ t.protected_row = IF s.protected_row >= k THEN s.protected_row - k ELSE 0
  /\ t.protected_col = s.protected_col
  /\ \A i \in Nat : i < Edged(t) /\ i + k * WIDTH < Edged(s) => Text(t)[i] = Text(s)[i + k * WIDTH]

Preserved(s, t) == Guarded(t) /\ \E k \in Nat : Kept(s, t, k)

\* A screen with a boundary.
LEMMA GuardedFields ==
  ASSUME NEW s, Guarded(s)
  PROVE  /\ s \in Screen /\ s.protected_row \in Rows /\ s.protected_col \in Columns
         /\ s.protected_row \in Nat /\ s.protected_col \in Nat /\ s.protected_col < WIDTH
         /\ Edged(s) = s.protected_row * WIDTH + s.protected_col
         /\ Edged(s) \in Nat /\ Edged(s) < WIDTH * HEIGHT /\ Boundary(s) = Edged(s)
<1>1. s \in Screen /\ s.protected_row \in Rows /\ s.protected_col \in Columns
  BY DEF Guarded, Screen
<1>2. s.protected_row \in Nat /\ s.protected_col \in Nat /\ s.protected_col < WIDTH
  BY <1>1, Sizes
<1>3. Edged(s) \in Cells
  BY <1>1, <1>2, CellRange DEF Edged
<1>4. Edged(s) \in Nat /\ Edged(s) < WIDTH * HEIGHT
  BY <1>3, Sizes
<1> QED
  BY <1>1, <1>2, <1>4 DEF Edged, At, Boundary, Guarded

\* The same text and the same boundary.
LEMMA KeptSame ==
  ASSUME NEW s, NEW t, Guarded(s), t.protected_row = s.protected_row, t.protected_col = s.protected_col,
         \A i \in Nat : i < Edged(s) => Text(t)[i] = Text(s)[i]
  PROVE  Kept(s, t, 0)
<1>1. s.protected_row \in Nat /\ 0 * WIDTH = 0
  BY GuardedFields, Sizes
<1>2. s.protected_row >= 0 /\ s.protected_row - 0 = s.protected_row /\ \A i \in Nat : i + 0 * WIDTH = i
  BY <1>1
<1>3. Edged(t) = Edged(s)
  BY DEF Edged
<1> QED
  BY <1>2, <1>3 DEF Kept

\* One change after another moves the text by the sum of the rows.
LEMMA KeptThen ==
  ASSUME NEW s, NEW t, NEW u, NEW k \in Nat, NEW l \in Nat, Guarded(s), Guarded(t), Guarded(u),
         Kept(s, t, k), Kept(t, u, l)
  PROVE  Kept(s, u, k + l)
<1> DEFINE p == s.protected_row
           q == t.protected_row
           c == s.protected_col
           A == Edged(s)
           B == Edged(t)
           C == Edged(u)
           K == k * WIDTH
           L == l * WIDTH
           P == p * WIDTH
           Q == q * WIDTH
<1>1. /\ p \in Nat /\ q \in Nat /\ c \in Nat /\ c < WIDTH /\ A = P + c /\ A \in Nat /\ B \in Nat /\ C \in Nat
      /\ B = Q + t.protected_col
  BY GuardedFields
<1>2. t.protected_col = c /\ q = (IF p >= k THEN p - k ELSE 0)
  BY DEF Kept
<1>3. K \in Nat /\ L \in Nat /\ P \in Nat /\ Q \in Nat /\ (k + l) * WIDTH = K + L
  BY <1>1, Sizes
<1>4. ASSUME NEW i \in Nat, i + (k + l) * WIDTH < A PROVE i + L < B
  <2>1. i + (K + L) < A
    BY <1>3, <1>4
  <2>2. CASE p >= k
    <3>1. Q = P - K
      BY <1>2, <1>1, <2>2, Sizes
    <3> HIDE DEF K, L, P, Q, A, B
    <3> QED
      BY <1>1, <1>2, <1>3, <2>1, <3>1
  <2>3. CASE ~ p >= k
    <3>1. p + 1 \in Int /\ p + 1 <= k
      BY <1>1, <2>3
    <3>2. (p + 1) * WIDTH <= K
      BY <3>1, Multiples
    <3>3. (p + 1) * WIDTH = P + WIDTH
      BY <1>1, Sizes
    <3> HIDE DEF K, L, P, Q, A, B
    <3> QED
      BY <1>1, <1>3, <2>1, <3>2, <3>3, Sizes
  <2> QED
    BY <2>2, <2>3
<1>5. ASSUME NEW i \in Nat, i < C, i + (k + l) * WIDTH < A PROVE Text(u)[i] = Text(s)[i + (k + l) * WIDTH]
  <2>1. i + L < B
    BY <1>4, <1>5
  <2>2. Text(u)[i] = Text(t)[i + L]
    BY <1>5, <2>1 DEF Kept
  <2>3. i + L \in Nat /\ (i + L) + K = i + (k + l) * WIDTH
    BY <1>3
  <2>4. Text(t)[i + L] = Text(s)[(i + L) + K]
    BY <1>5, <2>1, <2>3 DEF Kept
  <2> QED
    BY <2>2, <2>3, <2>4
<1>6. u.protected_col = c
  BY <1>2 DEF Kept
<1>7. u.protected_row = IF p >= k + l THEN p - (k + l) ELSE 0
  <2>1. u.protected_row = IF q >= l THEN q - l ELSE 0
    BY DEF Kept
  <2> HIDE DEF p, q
  <2> QED
    BY <1>1, <1>2, <2>1
<1> QED
  BY <1>5, <1>6, <1>7 DEF Kept

\* What is preserved twice is preserved.
LEMMA PreservedThen ==
  ASSUME NEW s, NEW t, NEW u, Guarded(s), Preserved(s, t), Preserved(t, u)
  PROVE  Preserved(s, u)
<1>1. PICK k \in Nat : Kept(s, t, k)
  BY DEF Preserved
<1>2. PICK l \in Nat : Kept(t, u, l)
  BY DEF Preserved
<1>3. Guarded(t) /\ Guarded(u)
  BY DEF Preserved
<1>4. Kept(s, u, k + l) /\ k + l \in Nat
  BY <1>1, <1>2, <1>3, KeptThen
<1> QED
  BY <1>3, <1>4 DEF Preserved

\* Nothing but the cursor and the pointer.
LEMMA PreservedSame ==
  ASSUME NEW s, NEW t, Guarded(s), Guarded(t), t.protected_row = s.protected_row,
         t.protected_col = s.protected_col,
         Text(t) = Text(s)
  PROVE  Preserved(s, t)
<1>1. Kept(s, t, 0)
  BY KeptSame
<1> QED
  BY <1>1 DEF Preserved

\* A character that is written is written behind the boundary.
LEMMA PreservedWrite ==
  ASSUME NEW s, NEW t, Guarded(s), s \in Bare, t \in Bare, Same(s, t), t.protected_row = s.protected_row,
         NEW r \in Rows, NEW c \in Columns, ~ is_position_protected(s, r, c), NEW x,
         t.cells = [s.cells EXCEPT ![At(r, c)] = x]
  PROVE  Preserved(s, t)
<1>1. Text(s) = s.cells /\ Text(t) = t.cells
  BY Erased DEF Text, Bare
<1>2. s \in Screen /\ s.cells \in [Cells -> Chars] /\ Edged(s) \in Nat /\ Edged(s) < WIDTH * HEIGHT
      /\ Boundary(s) = Edged(s)
  BY GuardedFields DEF Screen
<1>3. ~ At(r, c) < Edged(s) /\ At(r, c) \in Int
  BY <1>2, BoundaryOrder, CellOrder, Sizes
<1>4. ASSUME NEW i \in Nat, i < Edged(s) PROVE Text(t)[i] = Text(s)[i]
  <2>1. i \in Cells
    BY <1>2, <1>4, Sizes
  <2>2. i # At(r, c)
    BY <1>3, <1>4
  <2> QED
    BY <1>1, <1>2, <2>1, <2>2
<1>5. Kept(s, t, 0)
  BY <1>4, KeptSame DEF Same
<1>6. Guarded(t)
  BY DEF Guarded, Same, Bare
<1> QED
  BY <1>5, <1>6 DEF Preserved

\* A row up.
LEMMA PreservedScroll ==
  ASSUME NEW s, NEW t, Guarded(s), s \in Bare, t \in Bare, Same(s, t), t.cells = Shifted(s.cells),
         t.protected_row = IF s.protected_row > 0 THEN s.protected_row - 1 ELSE s.protected_row
  PROVE  Preserved(s, t)
<1>1. Text(s) = s.cells /\ Text(t) = t.cells
  BY Erased DEF Text, Bare
<1>2. s \in Screen /\ Edged(s) \in Nat /\ Edged(s) < WIDTH * HEIGHT /\ s.protected_row \in Nat
  BY GuardedFields
<1>3. ASSUME NEW i \in Nat, i + 1 * WIDTH < Edged(s) PROVE Text(t)[i] = Text(s)[i + 1 * WIDTH]
  <2>1. 1 * WIDTH = WIDTH /\ i \in Cells /\ i + WIDTH \in Cells
    BY <1>2, <1>3, Sizes
  <2>2. Shifted(s.cells)[i] = s.cells[i + WIDTH]
    BY <2>1 DEF Shifted
  <2> QED
    BY <1>1, <2>1, <2>2
<1>4. t.protected_row = IF s.protected_row >= 1 THEN s.protected_row - 1 ELSE 0
  BY <1>2
<1>5. Kept(s, t, 1)
  BY <1>3, <1>4 DEF Kept, Same
<1>6. Guarded(t)
  BY DEF Guarded, Same, Bare
<1> QED
  BY <1>5, <1>6 DEF Preserved

\* A plain character is written only behind the boundary.
LEMMA PlainPreserves ==
  ASSUME NEW s, Guarded(s), s \in Bare, NEW c \in Chars
  PROVE  PutPlain(s, c) \in Bare /\ Preserved(s, PutPlain(s, c))
<1> DEFINE t == PutPlain(s, c)
<1>1. s \in Screen /\ s.cursor_row \in Rows /\ s.cursor_col \in Columns
  BY DEF Guarded, Screen
<1>2. t \in Screen /\ Same(s, t) /\ t.protected_row = s.protected_row
  BY <1>1, PlainFields
<1>3. t \in Bare
  BY <1>2 DEF Bare, Same
<1>4. CASE is_position_protected(s, s.cursor_row, s.cursor_col)
  <2>1. t = s
    BY <1>1, <1>4, PlainFields
  <2> QED
    BY <1>3, <2>1, PreservedSame
<1>5. CASE ~ is_position_protected(s, s.cursor_row, s.cursor_col)
  <2>1. t.cells = [s.cells EXCEPT ![At(s.cursor_row, s.cursor_col)] = c]
    BY <1>1, <1>5, PlainFields
  <2> HIDE DEF t
  <2>2. Preserved(s, t)
    BY <1>1, <1>2, <1>3, <1>5, <2>1, PreservedWrite
  <2> QED
    BY <1>3, <2>2 DEF t
<1> QED
  BY <1>4, <1>5

\* A new line at the bottom takes text and boundary up.
LEMMA NewlinePreserves ==
  ASSUME NEW s, Guarded(s), s \in Bare
  PROVE  Preserved(s, PutNewline(s))
<1> DEFINE t == PutNewline(s)
<1>1. s \in Screen
  BY DEF Guarded
<1>2. /\ t \in Screen /\ Same(s, t)
      /\ IF is_position_protected(s, s.cursor_row + 1, 0)
         THEN t = s
         ELSE /\ t.cursor_col = 0
              /\ IF s.cursor_row < HEIGHT - 1
                 THEN /\ t.cursor_row = s.cursor_row + 1 /\ t.cells = s.cells
                      /\ t.protected_row = s.protected_row
                 ELSE /\ t.cursor_row = HEIGHT - 1 /\ t.cells = Shifted(s.cells)
                      /\ t.protected_row = IF s.protected_row > 0 THEN s.protected_row - 1
                                                                  ELSE s.protected_row
  BY <1>1, NewlineFields
<1> HIDE DEF t
<1>3. t \in Bare /\ Guarded(t) /\ t.protected_col = s.protected_col
  BY <1>2 DEF Bare, Same, Guarded
<1>4. Text(s) = s.cells /\ Text(t) = t.cells
  BY <1>3, Erased DEF Text, Bare
<1>5. CASE t.cells = s.cells /\ t.protected_row = s.protected_row
  BY <1>3, <1>4, <1>5, PreservedSame DEF t
<1>6. CASE /\ t.cells = Shifted(s.cells)
           /\ t.protected_row = IF s.protected_row > 0 THEN s.protected_row - 1 ELSE s.protected_row
  BY <1>2, <1>3, <1>6, PreservedScroll DEF t
<1> QED
  BY <1>2, <1>5, <1>6

\* A carriage return writes nothing.
LEMMA ReturnPreserves ==
  ASSUME NEW s, Guarded(s), s \in Bare
  PROVE  Preserved(s, PutReturn(s))
<1> DEFINE t == PutReturn(s)
<1>1. t \in Screen /\ Same(s, t) /\ t.cells = s.cells /\ t.protected_row = s.protected_row
  BY ReturnFields DEF Guarded
<1> HIDE DEF t
<1>2. t \in Bare /\ Guarded(t) /\ t.protected_col = s.protected_col
  BY <1>1 DEF Bare, Same, Guarded
<1>3. Text(s) = s.cells /\ Text(t) = t.cells
  BY <1>2, Erased DEF Text, Bare
<1> QED
  BY <1>1, <1>2, <1>3, PreservedSame DEF t

\* A backspace blanks only a cell behind the boundary.
LEMMA BackspacePreserves ==
  ASSUME NEW s, Guarded(s), s \in Bare
  PROVE  Preserved(s, PutBackspace(s))
<1> DEFINE t == PutBackspace(s)
<1>0. s \in Screen
  BY DEF Guarded
<1>1. t \in Screen /\ Same(s, t) /\ t.protected_row = s.protected_row
  BY <1>0, BackspaceFields
<1>2. \/ t = s
      \/ \E r \in Rows, c \in Columns :
           ~ is_position_protected(s, r, c) /\ t.cells = [s.cells EXCEPT ![At(r, c)] = Blank]
  BY <1>0, BackspaceFields
<1> HIDE DEF t
<1>3. t \in Bare
  BY <1>1 DEF Bare, Same
<1>4. CASE t = s
  BY <1>4, PreservedSame DEF t
<1>5. ASSUME NEW r \in Rows, NEW c \in Columns, ~ is_position_protected(s, r, c),
             t.cells = [s.cells EXCEPT ![At(r, c)] = Blank]
      PROVE  Preserved(s, t)
  BY <1>1, <1>3, <1>5, PreservedWrite
<1> QED
  BY <1>2, <1>4, <1>5 DEF t

\* The blanks of a tab are written only behind the boundary.
LEMMA TabPreserves ==
  ASSUME NEW s, Guarded(s), s \in Bare
  PROVE  Preserved(s, TabSteps(s)[TAB - (s.cursor_col % TAB)])
<1> DEFINE n == TAB - (s.cursor_col % TAB)
           R == {z \in Bare \X Bare : Preserved(s, z[1])}
<1>1. n \in Nat
  BY TabCount DEF Guarded
<1>2. <<s, s>> \in R
  BY PreservedSame
<1>3. ASSUME NEW x, NEW y, <<x, y>> \in R PROVE <<PutPlain(x, Blank), PutPlain(y, Blank)>> \in R
  <2>1. x \in Bare /\ y \in Bare /\ Preserved(s, x)
    BY <1>3
  <2>2. Blank \in Chars /\ Guarded(x)
    BY <2>1 DEF Chars, Preserved
  <2>3. PutPlain(x, Blank) \in Bare /\ Preserved(x, PutPlain(x, Blank))
    BY <2>1, <2>2, PlainPreserves
  <2>4. Preserved(s, PutPlain(x, Blank))
    BY <2>1, <2>3, PreservedThen
  <2>5. PutPlain(y, Blank) \in Bare
    <3>1. y \in Screen
      BY <2>1 DEF Bare
    <3> QED
      BY <2>1, <2>2, <3>1, PlainFields DEF Bare, Same
  <2> QED
    BY <2>3, <2>4, <2>5
<1>4. <<TabSteps(s)[n], TabSteps(s)[n]>> \in R
  <2> HIDE DEF R
  <2> QED
    BY <1>1, <1>2, <1>3, TabInduction
<1> QED
  BY <1>4

\* The pointer is taken away.
LEMMA ErasePreserves ==
  ASSUME NEW s, Guarded(s)
  PROVE  /\ mouse_pointer_erase(s) \in Bare /\ Guarded(mouse_pointer_erase(s))
         /\ Preserved(s, mouse_pointer_erase(s))
<1> DEFINE e == mouse_pointer_erase(s)
<1>1. e \in Bare /\ e \in Screen /\ e.protection_enabled = s.protection_enabled
      /\ e.protected_row = s.protected_row /\ e.protected_col = s.protected_col /\ mouse_pointer_erase(e) = e
  <2>1. s \in Screen
    BY DEF Guarded
  <2>2. e \in Bare /\ e.protection_enabled = s.protection_enabled
        /\ e.protected_row = s.protected_row /\ e.protected_col = s.protected_col
    BY <2>1, Erased
  <2> HIDE DEF e
  <2> QED
    BY <2>2, Erased DEF Bare
<1>2. Guarded(e)
  BY <1>1 DEF Guarded
<1>3. Text(e) = Text(s)
  BY <1>1 DEF Text
<1> QED
  BY <1>1, <1>2, <1>3, PreservedSame

\* putchar_core: whatever the character.
LEMMA PutPreserves ==
  ASSUME NEW s, Guarded(s), NEW c \in Chars
  PROVE  Preserved(s, putchar_core(s, c))
<1> DEFINE e == mouse_pointer_erase(s)
<1>1. e \in Bare /\ Guarded(e) /\ Preserved(s, e)
  BY ErasePreserves
<1> SUFFICES Preserved(e, putchar_core(s, c))
  BY <1>1, PreservedThen
<1>2. CASE c = "\n"
  <2>1. putchar_core(s, c) = PutNewline(e)
    BY <1>2 DEF putchar_core
  <2> HIDE DEF e
  <2> QED
    BY <1>1, <2>1, NewlinePreserves
<1>3. CASE c = "\r"
  <2>1. putchar_core(s, c) = PutReturn(e)
    BY <1>3 DEF putchar_core
  <2> HIDE DEF e
  <2> QED
    BY <1>1, <2>1, ReturnPreserves
<1>4. CASE c = "bs"
  <2>1. putchar_core(s, c) = PutBackspace(e)
    BY <1>4 DEF putchar_core
  <2> HIDE DEF e
  <2> QED
    BY <1>1, <2>1, BackspacePreserves
<1>5. CASE c = "\t"
  <2>1. putchar_core(s, c) = TabSteps(e)[TAB - (e.cursor_col % TAB)]
    BY <1>5 DEF putchar_core
  <2> HIDE DEF e
  <2> QED
    BY <1>1, <2>1, TabPreserves
<1>6. CASE c \notin {"\n", "\r", "bs", "\t"}
  <2>1. putchar_core(s, c) = PutPlain(e, c)
    BY <1>6 DEF putchar_core
  <2> HIDE DEF e
  <2> QED
    BY <1>1, <2>1, PlainPreserves
<1> QED
  BY <1>2, <1>3, <1>4, <1>5, <1>6

\* A string, however often it scrolls.
LEMMA WritePreserves ==
  ASSUME NEW s, Guarded(s), NEW str \in Seq(Chars)
  PROVE  Preserved(s, vga_write(s, str))
<1> DEFINE R == {z \in Screen \X Screen : Preserved(s, z[1]) /\ z[1] = z[2]}
<1>1. s \in Screen /\ Preserved(s, s)
  BY PreservedSame DEF Guarded
<1>2. <<s, s>> \in R
  BY <1>1
<1>3. ASSUME NEW x, NEW y, NEW c \in Chars, <<x, y>> \in R
      PROVE  <<putchar_core(x, c), putchar_core(y, c)>> \in R
  <2>1. y = x /\ Preserved(s, x)
    BY <1>3
  <2>2. Guarded(x)
    BY <2>1 DEF Preserved
  <2>3. Preserved(x, putchar_core(x, c))
    BY <2>2, PutPreserves
  <2>4. Preserved(s, putchar_core(x, c))
    BY <2>1, <2>3, PreservedThen
  <2>5. putchar_core(x, c) \in Screen
    BY <2>3 DEF Preserved, Guarded
  <2> QED
    BY <2>1, <2>4, <2>5
<1>4. <<vga_write(s, str), vga_write(s, str)>> \in R
  <2> HIDE DEF R
  <2> QED
    BY ONLY <1>2, <1>3, str \in Seq(Chars), WriteInduction
<1> QED
  BY <1>4

\* What ProtectedTextKept says of a step.
MovedUp(s, t) ==
  \E k \in 0 .. HEIGHT :
     /\ t.protected_row = Max({0, s.protected_row - k})
     /\ t.protected_col = s.protected_col
     /\ \A i \in 0 .. Boundary(t) - 1 :
           i + k * WIDTH < Boundary(s) => Text(t)[i] = Text(s)[i + k * WIDTH]

\* No more rows than the screen has need be looked at.
LEMMA PreservedSays ==
  ASSUME NEW s, NEW t, Guarded(s), Preserved(s, t)
  PROVE  MovedUp(s, t)
<1> SUFFICES \E k \in 0 .. HEIGHT :
               /\ t.protected_row = Max({0, s.protected_row - k})
               /\ t.protected_col = s.protected_col
               /\ \A i \in 0 .. Boundary(t) - 1 :
                     i + k * WIDTH < Boundary(s) => Text(t)[i] = Text(s)[i + k * WIDTH]
  BY Zenon DEF MovedUp
<1>1. PICK k \in Nat : Kept(s, t, k)
  BY DEF Preserved
<1>2. /\ Guarded(t) /\ s.protected_row \in Nat /\ s.protected_row < HEIGHT /\ Edged(s) \in Nat
      /\ Edged(s) < WIDTH * HEIGHT
      /\ Boundary(s) = Edged(s) /\ Boundary(t) = Edged(t) /\ Edged(t) \in Nat
  BY GuardedFields, Sizes DEF Preserved
<1>3. /\ t.protected_row = IF s.protected_row >= k THEN s.protected_row - k ELSE 0
      /\ t.protected_col = s.protected_col
      /\ \A i \in Nat : i < Edged(t) /\ i + k * WIDTH < Edged(s) => Text(t)[i] = Text(s)[i + k * WIDTH]
  BY <1>1 DEF Kept
<1>4. ASSUME NEW j \in Nat
      PROVE  Max({0, s.protected_row - j}) = IF s.protected_row >= j THEN s.protected_row - j ELSE 0
  <2> DEFINE a == s.protected_row - j
  <2>1. a \in Int /\ 0 \in Int
    BY <1>2
  <2> HIDE DEF a
  <2>2. Max({0, a}) = IF 0 >= a THEN 0 ELSE a
    BY <2>1, OfTwo
  <2> QED
    BY <1>2, <2>1, <2>2 DEF a
<1>5. \A i \in 0 .. Boundary(t) - 1 : i \in Nat /\ i < Edged(t)
  BY <1>2
<1>6. CASE k <= HEIGHT
  <2>1. k \in 0 .. HEIGHT
    BY <1>6, Sizes
  <2>2. t.protected_row = Max({0, s.protected_row - k})
    BY <1>3, <1>4
  <2>3. \A i \in 0 .. Boundary(t) - 1 : i + k * WIDTH < Boundary(s) => Text(t)[i] = Text(s)[i + k * WIDTH]
    BY <1>2, <1>3, <1>5, Zenon
  <2> QED
    BY <1>3, <2>1, <2>2, <2>3, Zenon
<1>7. CASE ~ k <= HEIGHT
  <2>1. HEIGHT \in 0 .. HEIGHT /\ HEIGHT \in Nat /\ HEIGHT * WIDTH = WIDTH * HEIGHT /\ WIDTH * HEIGHT \in Nat
    BY Sizes
  <2>2. t.protected_row = 0
    BY <1>2, <1>3, <1>7, Sizes
  <2>3. Max({0, s.protected_row - HEIGHT}) = 0
    BY <1>2, <1>4, <2>1
  <2>4. \A i \in 0 .. Boundary(t) - 1 : ~ (i + HEIGHT * WIDTH < Boundary(s))
    <3> DEFINE W == WIDTH * HEIGHT
               B == Boundary(s)
    <3>1. W \in Nat /\ B \in Nat /\ B < W
      BY <1>2, <2>1
    <3> HIDE DEF W, B
    <3>2. \A i \in Nat : ~ (i + W < B)
      BY <3>1
    <3> QED
      BY <1>5, <2>1, <3>2 DEF W, B
  <2> QED
    BY <1>3, <2>1, <2>2, <2>3, <2>4, Zenon
<1> QED
  BY <1>6, <1>7

\* A call other than clear and protect.
LEMMA CallPreserves ==
  ASSUME NEW s, Guarded(s), NEW c \in ScreenCalls, c # Protect, syscall_dispatcher(s, c).protection_enabled
  PROVE  Preserved(s, syscall_dispatcher(s, c))
<1>0. s \in Screen /\ s.protection_enabled = TRUE
  BY DEF Guarded
<1>1. ASSUME NEW k \in Chars, c = Put(k) PROVE Preserved(s, syscall_dispatcher(s, c))
  <2>1. syscall_dispatcher(s, c) = putchar_core(s, k)
    BY <1>1, Dispatched
  <2>2. Preserved(s, putchar_core(s, k))
    BY <1>1, PutPreserves
  <2> QED
    BY <2>1, <2>2, Zenon
<1>2. ASSUME NEW k \in Seq(Chars), c = Write(k) PROVE Preserved(s, syscall_dispatcher(s, c))
  <2>1. syscall_dispatcher(s, c) = vga_write(s, k)
    BY <1>2, Dispatched
  <2>2. Preserved(s, vga_write(s, k))
    BY <1>2, WritePreserves
  <2> QED
    BY <2>1, <2>2, Zenon
<1>3. ASSUME NEW r \in Int, NEW k \in Int, c = SetCursor(<<r, k>>) PROVE Preserved(s, syscall_dispatcher(s, c))
  <2> DEFINE t == vga_set_cursor(s, r, k)
  <2>1. syscall_dispatcher(s, c) = t
    BY <1>3, CursorCall
  <2>2. t \in Screen /\ Same(s, t) /\ t.cells = s.cells /\ t.protected_row = s.protected_row
    BY <1>0, SetCursorFields
  <2> HIDE DEF t
  <2>3. Text(t) = Text(s)
    BY <1>0, <2>2, SameErased DEF Text, Same
  <2>4. Guarded(t) /\ t.protected_col = s.protected_col
    BY <1>0, <2>2 DEF Guarded, Same
  <2> QED
    BY <2>1, <2>2, <2>3, <2>4, PreservedSame
<1>4. CASE c = Clear
  <2>1. syscall_dispatcher(s, c) = vga_clear(s)
    BY <1>4, Dispatched
  <2>2. vga_clear(s).protection_enabled = FALSE
    BY <1>0, ClearFields
  <2> QED
    BY <2>1, <2>2
<1>5. CASE c = GetCursor
  <2>1. syscall_dispatcher(s, c) = s
    BY <1>5, Dispatched
  <2> QED
    BY <2>1, PreservedSame
<1> QED
  BY <1>1, <1>2, <1>3, <1>4, <1>5, CallCases, Zenon

\* The pointer may be drawn over protected text: what is below it is kept.
LEMMA DrawPreserves ==
  ASSUME NEW s, Guarded(s), NEW r \in Rows, NEW c \in Columns
  PROVE  Preserved(s, pointer_draw(s, r, c))
<1> DEFINE t == pointer_draw(s, r, c)
<1>1. s \in Screen /\ t \in Screen /\ Alike(mouse_pointer_erase(t), mouse_pointer_erase(s))
  BY Drawn DEF Guarded
<1> HIDE DEF t
<1>2. Text(t) = Text(s)
  BY <1>1 DEF Text, Alike
<1>3. t.protection_enabled = s.protection_enabled /\ t.protected_row = s.protected_row
      /\ t.protected_col = s.protected_col
  BY <1>1, Erased DEF Alike
<1>4. Guarded(t)
  BY <1>1, <1>3 DEF Guarded
<1> QED
  BY <1>2, <1>3, <1>4, PreservedSame DEF t

\* A step that changes the screen is a call, a report of the mouse or a message.
LEMMA StepPreserves ==
  ASSUME ShellInv, [ShellNext]_shell_vars, scr.protection_enabled, scr'.protection_enabled,
         ~ (todo # <<>> /\ Head(todo) = Protect /\ todo' = Tail(todo))
  PROVE  Guarded(scr) /\ Preserved(scr, scr')
<1>1. scr \in Screen /\ todo \in Seq(ScreenCalls)
  BY SamePlaces DEF ShellInv, EditInv
<1>2. Guarded(scr)
  BY <1>1 DEF Guarded, Screen
<1>3. CASE scr' = scr
  BY <1>2, <1>3, PreservedSame
<1>4. CASE Call
  <2>1. todo # <<>> /\ scr' = syscall_dispatcher(scr, Head(todo)) /\ todo' = Tail(todo)
    BY <1>4 DEF Call
  <2>2. Head(todo) \in ScreenCalls /\ Head(todo) # Protect
    BY <1>1, <2>1
  <2> QED
    BY <1>2, <2>1, <2>2, CallPreserves
<1>5. CASE MouseReport
  <2>1. PICK p \in Spots : scr' = pointer_draw(scr, p[1], p[2])
    BY <1>5 DEF MouseReport
  <2>2. p[1] \in Rows /\ p[2] \in Columns
    BY CharacterAssumption
  <2> QED
    BY <1>2, <2>1, <2>2, DrawPreserves
<1>6. CASE KernelMessage
  <2>1. scr' = vga_write(scr, MESSAGE)
    BY <1>6 DEF KernelMessage
  <2>2. MESSAGE \in Seq(Chars)
    BY CharacterAssumption DEF Chars
  <2> QED
    BY <1>2, <2>1, <2>2, WritePreserves
<1>7. ASSUME NEW c \in Letters, Insert(c) PROVE scr' = scr
  BY <1>7 DEF Insert, Key
<1>8. CASE Prompt \/ PollMouse \/ NoKey \/ Backspace \/ Left \/ Right
  <2>1. scr' = scr
    BY <1>8 DEF Prompt, PollMouse, NoKey, Backspace, Left, Right, Key
  <2> QED
    BY <1>3, <2>1
<1>9. CASE Up \/ Down \/ Enter \/ Output \/ CommandDone
  <2>1. scr' = scr
    BY <1>9 DEF Up, Down, Enter, Output, CommandDone, Key
  <2> QED
    BY <1>3, <2>1
<1>10. CASE UNCHANGED shell_vars
  BY <1>3, <1>10 DEF shell_vars
<1> QED
  BY <1>3, <1>4, <1>5, <1>6, <1>7, <1>8, <1>9, <1>10, Zenon DEF ShellNext

\* is_position_protected and vga_scroll: nothing that is written, at the cursor or by a
\* backspace, a tab or a message of the kernel, changes protected text; scrolling moves it
\* with its boundary.
THEOREM ProtectedTextAlwaysKept == ShellSpec => ProtectedTextKept
<1> DEFINE A == (scr.protection_enabled /\ scr'.protection_enabled
                   /\ ~ (todo # <<>> /\ Head(todo) = Protect /\ todo' = Tail(todo))) => MovedUp(scr, scr')
<1>1. ShellInv /\ [ShellNext]_shell_vars => [A]_shell_vars
  <2> SUFFICES ASSUME ShellInv, [ShellNext]_shell_vars, scr.protection_enabled, scr'.protection_enabled,
                      ~ (todo # <<>> /\ Head(todo) = Protect /\ todo' = Tail(todo))
               PROVE  MovedUp(scr, scr')
    BY Zenon
  <2>1. Guarded(scr) /\ Preserved(scr, scr')
    BY StepPreserves
  <2> QED
    BY <2>1, PreservedSays
<1> HIDE DEF A
<1>2. ShellSpec => [][A]_shell_vars
  BY <1>1, ShellInvariance, PTL DEF ShellSpec
<1> QED
  BY <1>2 DEF ProtectedTextKept, A, MovedUp
================================================================================
