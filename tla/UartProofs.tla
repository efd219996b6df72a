----------------------------- MODULE UartProofs -----------------------------
(* The UART driver never strands what waits to be sent, stays within its    *)
(* buffers and keeps the order of characters, for every buffer size, any    *)
(* number of threads and any sets of characters.                            *)
EXTENDS Uart, FiniteSetTheorems, TLAPS

-----------------------------------------------------------------------------
(* Indices that go round a buffer.                                          *)

\* Euclid's division, with the remainder in its range.
LEMMA Division ==
  ASSUME NEW n \in Nat \ {0}, NEW x \in Int
  PROVE  /\ x \div n \in Int /\ x % n \in 0 .. n - 1
         /\ x = n * (x \div n) + (x % n)
BY SMT

\* The remainder is the only one.
LEMMA Remainder ==
  ASSUME NEW n \in Nat \ {0}, NEW q \in Int, NEW r \in 0 .. n - 1
  PROVE  (n * q + r) % n = r
BY SMT

\* Whole rounds make no difference.
LEMMA Rounds ==
  ASSUME NEW n \in Nat \ {0}, NEW x \in Int, NEW y \in Int, NEW k \in Int,
         x = y + n * k
  PROVE  x % n = y % n
<1>1. /\ y = n * (y \div n) + (y % n)
      /\ y \div n \in Int /\ y % n \in 0 .. n - 1
  BY Division
<1>2. n * ((y \div n) + k) = n * (y \div n) + n * k
  BY <1>1
<1> DEFINE q == (y \div n) + k
           r == y % n
<1>3. x = n * q + r
  BY <1>1, <1>2
<1>4. q \in Int /\ r \in 0 .. n - 1
  BY <1>1
<1> HIDE DEF q, r
<1>5. (n * q + r) % n = r
  BY <1>4, Remainder
<1>6. x % n = r
  BY <1>3, <1>5
<1> QED
  BY <1>6 DEF r

\* An index may be reduced before it is advanced.
LEMMA Advance ==
  ASSUME NEW n \in Nat \ {0}, NEW x \in Int, NEW k \in Int
  PROVE  ((x % n) + k) % n = (x + k) % n
<1>1. /\ x \div n \in Int /\ x % n \in 0 .. n - 1
      /\ x = n * (x \div n) + (x % n)
  BY Division
<1>2. x + k = ((x % n) + k) + n * (x \div n)
  BY <1>1
<1>3. (x % n) + k \in Int /\ x + k \in Int
  BY <1>1
<1> QED
  BY <1>1, <1>2, <1>3, Rounds

\* Two indices less than a round apart differ.
LEMMA Apart ==
  ASSUME NEW n \in Nat \ {0}, NEW x \in Int, NEW y \in Int, x < y, y < x + n
  PROVE  x % n # y % n
<1> SUFFICES ASSUME x % n = y % n PROVE FALSE
  OBVIOUS
<1> DEFINE p == x \div n
           q == y \div n
<1>1. /\ x = n * p + (x % n) /\ y = n * q + (y % n)
      /\ p \in Int /\ q \in Int /\ x % n \in 0 .. n - 1
  BY Division
<1> HIDE DEF p, q
<1>2. n * p < n * q /\ n * q < n * p + n
  BY <1>1
<1>3. p < q
  BY <1>1, <1>2
<1>4. q < p + 1
  BY <1>1, <1>2
<1> QED
  BY <1>1, <1>3, <1>4

-----------------------------------------------------------------------------
(* The ring buffers.                                                        *)

Printed == Chars \cup Keys \cup {"LF", "BS", "SP"}

Rings(S) == [buf : [0 .. BUF_SIZE - 1 -> S \cup {None}],
             head : 0 .. BUF_SIZE - 1, tail : 0 .. BUF_SIZE - 1, len : Nat]

\* A ring whose waiting characters are in S.
Ring(r, S) ==
    /\ r \in Rings(S)
    /\ r.tail = (r.head + r.len) % BUF_SIZE
    /\ \A i \in 0 .. r.len - 1 : r.buf[(r.head + i) % BUF_SIZE] # None

\* Records of a type, updated by parts of the type.
LEMMA RingFields ==
  ASSUME NEW F, NEW T, NEW r \in [buf : F, head : T, tail : T, len : Nat],
         NEW x \in F, NEW y \in T, NEW z \in Nat
  PROVE  /\ [r EXCEPT !.buf = x, !.tail = y, !.len = z]
              \in [buf : F, head : T, tail : T, len : Nat]
         /\ [r EXCEPT !.head = y, !.len = z]
              \in [buf : F, head : T, tail : T, len : Nat]
BY Zenon

\* The same of rings.
LEMMA RingsFields ==
  ASSUME NEW S, NEW r \in Rings(S), NEW x \in [0 .. BUF_SIZE - 1 -> S \cup {None}],
         NEW y \in 0 .. BUF_SIZE - 1, NEW z \in Nat
  PROVE  /\ [r EXCEPT !.buf = x, !.tail = y, !.len = z] \in Rings(S)
         /\ [r EXCEPT !.head = y, !.len = z] \in Rings(S)
<1> DEFINE F == [0 .. BUF_SIZE - 1 -> S \cup {None}]
           T == 0 .. BUF_SIZE - 1
<1>1. Rings(S) = [buf : F, head : T, tail : T, len : Nat] /\ x \in F /\ y \in T
  BY DEF Rings
<1> HIDE DEF F, T
<1>2. r \in [buf : F, head : T, tail : T, len : Nat]
  BY <1>1
<1>3. /\ [r EXCEPT !.buf = x, !.tail = y, !.len = z]
            \in [buf : F, head : T, tail : T, len : Nat]
      /\ [r EXCEPT !.head = y, !.len = z] \in [buf : F, head : T, tail : T, len : Nat]
  BY Zenon, <1>1, <1>2, RingFields
<1> QED  BY Zenon, <1>1, <1>3

\* A sequence of one character more.
LEMMA OneMore ==
  ASSUME NEW S, NEW s \in Seq(S), NEW c \in S, NEW e \in Seq(S),
         Len(e) = Len(s) + 1, e[Len(s) + 1] = c,
         \A i \in 1 .. Len(s) : e[i] = s[i]
  PROVE  e = Append(s, c)
BY SMT

\* The empty ring.
LEMMA EmptyRing ==
  ASSUME NEW S
  PROVE  Ring(Empty, S) /\ Empty.len = 0 /\ Contents(Empty) = <<>>
<1>1. BUF_SIZE \in Nat \ {0}
  BY UartAssumption
<1>2. 0 % BUF_SIZE = 0
  BY <1>1
<1> QED
  BY <1>1, <1>2 DEF Ring, Rings, Empty, Contents

\* Push puts one more character in the ring, and if there is room behind
\* those that wait.
LEMMA PushRing ==
  ASSUME NEW S, None \notin S, NEW r, Ring(r, S), NEW c \in S
  PROVE  /\ Ring(Push(r, c), S) /\ Push(r, c).len = r.len + 1
         /\ r.len < BUF_SIZE => Contents(Push(r, c)) = Append(Contents(r), c)
<1> DEFINE p == Push(r, c)
           h == r.head
           n == r.len
           Slot(i) == (h + i) % BUF_SIZE
<1>1. BUF_SIZE \in Nat \ {0}
  BY UartAssumption
<1>2. /\ h \in 0 .. BUF_SIZE - 1 /\ n \in Nat
      /\ r.tail = Slot(n) /\ r.tail \in 0 .. BUF_SIZE - 1
      /\ r.buf \in [0 .. BUF_SIZE - 1 -> S \cup {None}]
      /\ \A i \in 0 .. n - 1 : r.buf[Slot(i)] # None
  BY DEF Ring, Rings
<1>3. /\ p.buf = [r.buf EXCEPT ![r.tail] = c] /\ p.head = h
      /\ p.tail = (r.tail + 1) % BUF_SIZE /\ p.len = n + 1
  BY DEF Ring, Rings, Push
<1>4. /\ r \in Rings(S)
      /\ p = [r EXCEPT !.buf = p.buf, !.tail = p.tail, !.len = p.len]
  BY <1>3 DEF Ring, Rings, Push
<1> HIDE DEF p, h, n
<1>5. ASSUME NEW i \in Int PROVE Slot(i) \in 0 .. BUF_SIZE - 1
  BY <1>1, <1>2, Division
<1>6. p.tail = Slot(n + 1) /\ p.tail \in 0 .. BUF_SIZE - 1
  <2>1. (((h + n) % BUF_SIZE) + 1) % BUF_SIZE = ((h + n) + 1) % BUF_SIZE
    <3>1. h + n \in Int
      BY <1>2
    <3> QED
      BY <1>1, <3>1, Advance
  <2>2. (h + n) + 1 = h + (n + 1)
    BY <1>2
  <2> QED
    BY <1>2, <1>3, <1>5, <2>1, <2>2
<1>7. ASSUME n < BUF_SIZE, NEW i \in 0 .. n - 1 PROVE Slot(i) # Slot(n)
  <2>1. h + i \in Int /\ h + n \in Int /\ h + i < h + n /\ h + n < h + i + BUF_SIZE
    BY <1>1, <1>2, <1>7
  <2> QED
    BY <1>1, <2>1, Apart
<1> HIDE DEF Slot
<1>8. ASSUME NEW i \in 0 .. n PROVE p.buf[Slot(i)] # None
  <2>1. CASE Slot(i) = r.tail
    BY <1>2, <1>3, <2>1
  <2>2. CASE Slot(i) # r.tail
    <3>1. i \in 0 .. n - 1 /\ i \in Int
      BY <1>2, <2>2
    <3>2. p.buf[Slot(i)] = r.buf[Slot(i)]
      BY <1>2, <1>3, <1>5, <2>2, <3>1
    <3> QED
      BY <1>2, <3>1, <3>2
  <2> QED
    BY <2>1, <2>2
<1>9. Ring(p, S)
  <2>1. p.buf \in [0 .. BUF_SIZE - 1 -> S \cup {None}]
    BY <1>2, <1>3
  <2>2. p \in Rings(S)
    <3>1. p.len \in Nat
      BY <1>2, <1>3
    <3>2. [r EXCEPT !.buf = p.buf, !.tail = p.tail, !.len = p.len] \in Rings(S)
      BY Zenon, <1>4, <1>6, <2>1, <3>1, RingsFields
    <3> QED
      BY Zenon, <1>4, <3>2
  <2>3. \A i \in 0 .. p.len - 1 : p.buf[Slot(i)] # None
    BY <1>2, <1>3, <1>8
  <2> QED
    BY <1>3, <1>6, <2>2, <2>3 DEF Ring, Rings, Slot
<1>10. ASSUME n < BUF_SIZE PROVE Contents(p) = Append(Contents(r), c)
  <2>1. ASSUME NEW s, s.head = h, s.len \in Nat
        PROVE  Contents(s) = [i \in 1 .. s.len |-> s.buf[Slot(i - 1)]]
    <3>1. \A i \in 1 .. s.len : h + i - 1 = h + (i - 1)
      BY <1>2, <2>1
    <3> QED
      BY <2>1, <3>1 DEF Contents, Slot
  <2>2. /\ Contents(p) = [i \in 1 .. n + 1 |-> p.buf[Slot(i - 1)]]
        /\ Contents(r) = [i \in 1 .. n |-> r.buf[Slot(i - 1)]]
    <3>1. p.head = h /\ p.len = n + 1 /\ n + 1 \in Nat /\ r.head = h /\ r.len = n
      BY <1>2, <1>3 DEF h, n
    <3> QED
      BY <1>2, <2>1, <3>1
  <2>3. \A i \in 1 .. n : p.buf[Slot(i - 1)] = r.buf[Slot(i - 1)]
    <3>1. \A i \in 1 .. n : i - 1 \in 0 .. n - 1 /\ i - 1 \in Int
      BY <1>2
    <3> QED
      BY ZenonT(40), <1>2, <1>3, <1>5, <1>7, <1>10, <3>1
  <2>4. p.buf[Slot((n + 1) - 1)] = c
    <3>1. (n + 1) - 1 = n
      BY <1>2
    <3>2. Slot((n + 1) - 1) = r.tail
      BY Zenon, <1>2, <3>1
    <3>3. [r.buf EXCEPT ![r.tail] = c][r.tail] = c
      BY Zenon, <1>2
    <3> QED
      BY Zenon, <1>3, <3>2, <3>3
  <2>5. Len(Contents(r)) = n /\ Contents(r) \in Seq(S \cup {None})
    <3>1. \A i \in 1 .. n : r.buf[Slot(i - 1)] \in S \cup {None}
      <4>1. \A i \in 1 .. n : i - 1 \in Int
        BY <1>2
      <4> QED
        BY <1>2, <1>5, <4>1
    <3> QED
      BY <1>2, <2>2, <3>1
  <2>6. /\ Len(Contents(p)) = n + 1
        /\ \A i \in 1 .. n : Contents(p)[i] = Contents(r)[i]
        /\ Contents(p)[n + 1] = c
    BY <1>2, <2>2, <2>3, <2>4
  <2>7. Contents(p) \in Seq(S \cup {None})
    <3>1. \A i \in 1 .. n + 1 : Contents(p)[i] \in S \cup {None}
      <4>1. \A i \in 1 .. n : Contents(r)[i] \in S \cup {None}
        BY <2>5
      <4> QED
        BY <1>2, <2>6, <4>1
    <3> QED
      BY <1>2, <2>2, <3>1
  <2> QED
    BY <2>5, <2>6, <2>7, OneMore
<1> QED
  BY <1>3, <1>9, <1>10 DEF p, n

\* Pop takes the first of the characters that wait out of the ring.
LEMMA PopRing ==
  ASSUME NEW S, NEW r, Ring(r, S), r.len > 0
  PROVE  /\ Ring(Pop(r), S) /\ Pop(r).len = r.len - 1
         /\ First(r) \in S /\ Contents(r) # <<>>
         /\ Contents(Pop(r)) = Tail(Contents(r))
         /\ Contents(r) = <<First(r)>> \o Contents(Pop(r))
<1> DEFINE p == Pop(r)
           h == r.head
           n == r.len
           Slot(i) == (h + i) % BUF_SIZE
<1>1. BUF_SIZE \in Nat \ {0}
  BY UartAssumption
<1>2. /\ h \in 0 .. BUF_SIZE - 1 /\ n \in Nat /\ n > 0
      /\ r.tail = Slot(n) /\ r.tail \in 0 .. BUF_SIZE - 1
      /\ r.buf \in [0 .. BUF_SIZE - 1 -> S \cup {None}]
      /\ \A i \in 0 .. n - 1 : r.buf[Slot(i)] # None
  BY DEF Ring, Rings
<1>3. /\ p.buf = r.buf /\ p.head = (h + 1) % BUF_SIZE
      /\ p.tail = r.tail /\ p.len = n - 1
  BY DEF Ring, Rings, Pop
<1>4. /\ r \in Rings(S)
      /\ p = [r EXCEPT !.head = p.head, !.len = p.len]
  BY <1>3 DEF Ring, Rings, Pop
<1>5. First(r) = r.buf[h]
  BY DEF First
<1> HIDE DEF p, h, n
<1>6. ASSUME NEW i \in Int PROVE Slot(i) \in 0 .. BUF_SIZE - 1
  BY <1>1, <1>2, Division
<1>7. ASSUME NEW i \in Int PROVE (p.head + i) % BUF_SIZE = Slot(i + 1)
  <2>1. h + 1 \in Int
    BY <1>2
  <2>2. (((h + 1) % BUF_SIZE) + i) % BUF_SIZE = ((h + 1) + i) % BUF_SIZE
    BY <1>1, <2>1, Advance
  <2>3. (h + 1) + i = h + (i + 1)
    BY <1>2
  <2> QED
    BY <1>3, <2>2, <2>3
<1>8. Slot(0) = h
  <2>1. h + 0 = h /\ h % BUF_SIZE = h
    BY <1>1, <1>2, SMT
  <2> QED
    BY <2>1
<1>9. p.head \in 0 .. BUF_SIZE - 1
  BY <1>3, <1>6
<1>10. Contents(r) = [i \in 1 .. n |-> r.buf[Slot(i - 1)]]
  <2>1. \A i \in 1 .. n : h + i - 1 = h + (i - 1)
    BY <1>2
  <2> QED
    BY <2>1 DEF Contents, h, n
<1>11. Contents(p) = [i \in 1 .. n - 1 |-> r.buf[Slot(i)]]
  <2>1. \A i \in 1 .. n - 1 : p.head + i - 1 = p.head + (i - 1) /\ (i - 1) + 1 = i
                              /\ i - 1 \in Int
    BY <1>2, <1>9
  <2>2. \A i \in 1 .. n - 1 : (p.head + i - 1) % BUF_SIZE = Slot(i)
    BY <1>7, <2>1
  <2> QED
    BY <1>3, <2>2 DEF Contents
<1> HIDE DEF Slot
<1>12. Ring(p, S)
  <2>1. p.tail = (p.head + p.len) % BUF_SIZE
    <3>1. n - 1 \in Int /\ (n - 1) + 1 = n
      BY <1>2
    <3> QED
      BY <1>2, <1>3, <1>7, <3>1
  <2>2. \A i \in 0 .. p.len - 1 : p.buf[(p.head + i) % BUF_SIZE] # None
    <3>1. \A i \in 0 .. p.len - 1 : i \in Int /\ i + 1 \in 0 .. n - 1
      BY <1>2, <1>3
    <3> QED
      BY <1>2, <1>3, <1>7, <3>1
  <2>3. p.len \in Nat
    BY <1>2, <1>3
  <2>4. p \in Rings(S)
    <3>1. r.buf \in [0 .. BUF_SIZE - 1 -> S \cup {None}]
      BY <1>2
    <3>2. [r EXCEPT !.head = p.head, !.len = p.len] \in Rings(S)
      BY Zenon, <1>4, <1>9, <2>3, <3>1, RingsFields
    <3> QED
      BY Zenon, <1>4, <3>2
  <2> QED
    BY <2>1, <2>2, <2>4 DEF Ring, Rings
<1>13. First(r) \in S
  <2>1. 0 \in 0 .. n - 1
    BY <1>2
  <2> QED
    BY <1>2, <1>5, <1>8, <2>1
<1> DEFINE C == Contents(r)
           D == Contents(p)
<1>14. \A i \in Int : r.buf[Slot(i)] \in S \cup {None}
  BY <1>2, <1>6
<1>15. C \in Seq(S \cup {None}) /\ Len(C) = n
  BY <1>2, <1>10, <1>14
<1>16. D \in Seq(S \cup {None}) /\ Len(D) = n - 1
  BY <1>2, <1>11, <1>14
<1>17. C[1] = First(r)
  <2>1. 1 \in 1 .. n /\ 1 - 1 = 0
    BY <1>2
  <2> QED
    BY <1>5, <1>8, <1>10, <2>1
<1>18. \A i \in 1 .. n - 1 : D[i] = C[i + 1]
  <2>1. \A i \in 1 .. n - 1 : (i + 1) - 1 = i /\ i + 1 \in 1 .. n
    BY <1>2
  <2> QED
    BY <1>10, <1>11, <2>1
<1> HIDE DEF C, D
<1>19. C # <<>>
  BY <1>2, <1>15
<1>20. D = Tail(C)
  BY <1>2, <1>15, <1>16, <1>18
<1>21. C = <<First(r)>> \o D
  BY <1>2, <1>13, <1>15, <1>16, <1>17, <1>18
<1> QED
  BY <1>3, <1>12, <1>13, <1>19, <1>20, <1>21 DEF C, D, p, n

-----------------------------------------------------------------------------
(* The invariant.                                                           *)

Devices ==
    [tx_on : BOOLEAN, in : Rings(Keys), out : Rings(Printed),
     ier : SUBSET {"tx", "rx", "ls"}, thr : Printed \cup {None}, thre : BOOLEAN,
     rbr : Seq(Keys), ls : BOOLEAN]

\* What an interrupted echo of DEL may still have to print.
Rests == {<<"SP", "BS">>, <<"BS">>}

Shapes ==
    /\ u \in Devices
    /\ irr \in BOOLEAN /\ lost \in BOOLEAN
    /\ reader \in [Threads -> [at : {"idle", "on", "wait", "take", "got", "off"},
                               ier : SUBSET {"tx", "rx", "ls"}]]
    /\ frames \in [Threads -> Seq(Rests)]

RingsFit == Ring(u.in, Keys) /\ Ring(u.out, Printed)

\* A character being sent has cleared the interrupt of the one before.
OneAtATime == u.thr # None => ~u.thre

\* A line that is high has been latched.
Latched == ~lost /\ Line(u) => irr

\* Only an IER written back by ugets takes the transmitter its interrupt.
Enabled == ~lost /\ u.tx_on => "tx" \in u.ier

\* Only the reader reads, and it has seen what it will take.
ReaderFits ==
    \A t \in Threads : /\ reader[t].at # "idle" => t \in Readers
                       /\ reader[t].at = "take" => u.in.len > 0

\* The echoes that are unfinished in f, by the depth of their frames, and
\* those of them that have two characters to print.
Left(f) == {p \in Threads \X Nat : p[2] \in 1 .. Len(f[p[1]])}
Twice(f) == {p \in Left(f) : f[p[1]][Len(f[p[1]]) + 1 - p[2]] = <<"SP", "BS">>}

\* Whether a key is received that the handler has not read; with a second one
\* behind it, an interrupt is lost.
Received == IF u.rbr = <<>> \/ lost THEN 0 ELSE 1

\* The bounds of the model bound the rings: whatever may be echoed before
\* the next key is counted.
Room ==
    /\ IsFiniteSet(Left(frames))
    /\ u.in.len + Received <= MaxLen
    /\ Cardinality(Left(frames)) + Received <= MaxFrames
    /\ u.out.len + Cardinality(Left(frames)) + Cardinality(Twice(frames)) + 3 * Received
         <= MaxLen + 2 * MaxFrames + 1

UInv ==
    /\ Shapes
    /\ RingsFit
    /\ OneAtATime
    /\ Latched
    /\ Enabled
    /\ NeverStranded
    /\ ReaderFits
    /\ Room

-----------------------------------------------------------------------------
(* The device and the stacks of interrupted echoes.                         *)

\* None is no character.
LEMMA Characters ==
    /\ None \notin Printed /\ None \notin Keys /\ None \notin Chars
    /\ Keys \subseteq Printed /\ Chars \subseteq Printed
    /\ {"LF", "BS", "SP"} \subseteq Printed
BY UartAssumption DEF Printed

\* A device with one register written is a device.
LEMMA DeviceFields ==
  ASSUME NEW v \in Devices
  PROVE  /\ \A x \in BOOLEAN : [v EXCEPT !.tx_on = x] \in Devices
         /\ \A x \in Rings(Keys) : [v EXCEPT !.in = x] \in Devices
         /\ \A x \in Rings(Printed) : [v EXCEPT !.out = x] \in Devices
         /\ \A x \in SUBSET {"tx", "rx", "ls"} : [v EXCEPT !.ier = x] \in Devices
         /\ \A x \in Printed \cup {None} : [v EXCEPT !.thr = x] \in Devices
         /\ \A x \in BOOLEAN : [v EXCEPT !.thre = x] \in Devices
         /\ \A x \in Seq(Keys) : [v EXCEPT !.rbr = x] \in Devices
         /\ \A x \in BOOLEAN : [v EXCEPT !.ls = x] \in Devices
BY Zenon DEF Devices

\* Writing IER changes that register, and may make the transmitter's
\* interrupt pending if nothing is being sent.
LEMMA SetIerFields ==
  ASSUME NEW v \in Devices, NEW s \in SUBSET {"tx", "rx", "ls"}
  PROVE  /\ SetIer(v, s) \in Devices
         /\ SetIer(v, s).tx_on = v.tx_on /\ SetIer(v, s).in = v.in
         /\ SetIer(v, s).out = v.out /\ SetIer(v, s).ier = s
         /\ SetIer(v, s).thr = v.thr /\ SetIer(v, s).rbr = v.rbr /\ SetIer(v, s).ls = v.ls
         /\ SetIer(v, s).thre
              = (v.thre \/ ("tx" \in s /\ "tx" \notin v.ier /\ v.thr = None))
<1> DEFINE e == v.thre \/ ("tx" \in s /\ "tx" \notin v.ier /\ v.thr = None)
           w == [v EXCEPT !.ier = s]
<1>1. v.thre \in BOOLEAN
  BY DEF Devices
<1>2. w \in Devices
  BY DeviceFields
<1>3. e \in BOOLEAN
  BY <1>1
<1>4. [w EXCEPT !.thre = e] \in Devices
  BY <1>2, <1>3, DeviceFields
<1>5. SetIer(v, s) = [w EXCEPT !.thre = e]
  BY DEF SetIer, Devices
<1>6. /\ w.tx_on = v.tx_on /\ w.in = v.in /\ w.out = v.out /\ w.ier = s
      /\ w.thr = v.thr /\ w.rbr = v.rbr /\ w.ls = v.ls
  BY DEF Devices
<1>7. /\ SetIer(v, s).tx_on = w.tx_on /\ SetIer(v, s).in = w.in
      /\ SetIer(v, s).out = w.out /\ SetIer(v, s).ier = w.ier
      /\ SetIer(v, s).thr = w.thr /\ SetIer(v, s).rbr = w.rbr /\ SetIer(v, s).ls = w.ls
      /\ SetIer(v, s).thre = e
  <2> HIDE DEF w, e
  <2> QED
    BY <1>2, <1>5 DEF Devices
<1> QED
  BY <1>4, <1>5, <1>6, <1>7

\* uputc queues the character while the transmitter runs, and otherwise
\* starts it.
LEMMA PutcFields ==
  ASSUME NEW v \in Devices, Ring(v.out, Printed), NEW c \in Printed
  PROVE  /\ Putc(v, c) \in Devices /\ Putc(v, c).in = v.in
         /\ Putc(v, c).rbr = v.rbr /\ Putc(v, c).ls = v.ls /\ Putc(v, c).tx_on
         /\ v.tx_on => /\ Putc(v, c).out = Push(v.out, c)
                       /\ Putc(v, c).ier = v.ier /\ Putc(v, c).thr = v.thr
                       /\ Putc(v, c).thre = v.thre
         /\ ~v.tx_on => /\ Putc(v, c).out = v.out
                        /\ Putc(v, c).ier = v.ier \cup {"tx"}
                        /\ Putc(v, c).thr = c /\ ~Putc(v, c).thre
<1>1. CASE v.tx_on
  <2>1. Putc(v, c) = [v EXCEPT !.out = Push(v.out, c)]
    BY <1>1 DEF Putc
  <2>2. Push(v.out, c) \in Rings(Printed)
    BY Characters, PushRing DEF Ring
  <2>3. Putc(v, c) \in Devices
    BY <2>1, <2>2, DeviceFields
  <2> QED
    BY <1>1, <2>1, <2>3 DEF Devices
<1>2. CASE ~v.tx_on
  <2> DEFINE a == [v EXCEPT !.tx_on = TRUE]
             b == SetIer(a, v.ier \cup {"tx"})
             d == [b EXCEPT !.thr = c]
  <2>1. /\ a \in Devices /\ a.in = v.in /\ a.rbr = v.rbr /\ a.ls = v.ls /\ a.tx_on
        /\ a.out = v.out
    BY DeviceFields DEF Devices
  <2>2. v.ier \cup {"tx"} \in SUBSET {"tx", "rx", "ls"}
    BY DEF Devices
  <2> HIDE DEF a
  <2>3. /\ b \in Devices /\ b.in = v.in /\ b.rbr = v.rbr /\ b.ls = v.ls /\ b.tx_on
        /\ b.out = v.out /\ b.ier = v.ier \cup {"tx"}
    BY <2>1, <2>2, SetIerFields
  <2> HIDE DEF b
  <2>4. /\ d \in Devices /\ d.in = v.in /\ d.rbr = v.rbr /\ d.ls = v.ls /\ d.tx_on
        /\ d.out = v.out /\ d.ier = v.ier \cup {"tx"} /\ d.thr = c
    BY <2>3, DeviceFields DEF Devices
  <2>5. Putc(v, c) = [d EXCEPT !.thre = FALSE]
    BY <1>2 DEF Putc, a, b, d
  <2> HIDE DEF d
  <2>6. Putc(v, c) \in Devices
    BY <2>4, <2>5, DeviceFields
  <2> QED
    BY <1>2, <2>4, <2>5, <2>6 DEF Devices
<1> QED
  BY <1>1, <1>2

\* The echoes that are left, counted by their frames.
LEMMA UnfinishedLeft ==
  ASSUME frames \in [Threads -> Seq(Rests)]
  PROVE  Unfinished = Left(frames)
<1>1. \A t \in Threads : DOMAIN frames[t] = 1 .. Len(frames[t]) /\ Len(frames[t]) \in Nat
  OBVIOUS
<1>2. ASSUME NEW p PROVE p \in Unfinished <=> p \in Left(frames)
  BY <1>1 DEF Unfinished, Left
<1> QED
  BY <1>2

\* The two remainders of an echo differ.
LEMMA RestsDiffer ==
    /\ <<"SP", "BS">> \in Seq(Printed) /\ <<"BS">> \in Seq(Printed)
    /\ Len(<<"SP", "BS">>) = 2 /\ Len(<<"BS">>) = 1
    /\ Head(<<"SP", "BS">>) = "SP" /\ Head(<<"BS">>) = "BS"
    /\ Tail(<<"SP", "BS">>) = <<"BS">> /\ Tail(<<"BS">>) = <<>>
    /\ <<"SP", "BS">> # <<"BS">>
BY Characters

\* The frames of one thread, among those that are left.
LEMMA LeftAt ==
  ASSUME NEW f, NEW s \in Threads, NEW n \in Nat, Len(f[s]) = n
  PROVE  /\ \A k \in Nat : <<s, k>> \in Left(f) <=> k \in 1 .. n
         /\ \A k \in Nat : <<s, k>> \in Twice(f)
                             <=> k \in 1 .. n /\ f[s][n + 1 - k] = <<"SP", "BS">>
BY DEF Left, Twice

\* Sets of frames with the same members.
LEMMA SameFrames ==
  ASSUME NEW A, NEW B, A \subseteq Threads \X Nat, B \subseteq Threads \X Nat,
         \A s \in Threads, k \in Nat : <<s, k>> \in B <=> <<s, k>> \in A
  PROVE  B = A
<1>1. ASSUME NEW p PROVE p \in B <=> p \in A
  <2>1. CASE p \in Threads \X Nat
    <3>1. PICK s \in Threads, k \in Nat : p = <<s, k>>
      BY <2>1
    <3> QED
      BY <3>1
  <2>2. CASE p \notin Threads \X Nat
    BY <2>2
  <2> QED
    BY <2>1, <2>2
<1> QED
  BY <1>1

Frame(t, k) == {<<t, k>>}

\* No thread but t has other frames in g than in f; and how the frames of t
\* in B differ from those in A.
Elsewhere(f, g, t) == \A s \in Threads : s # t => g[s] = f[s]
Gains(A, B, t, m) == \A k \in Nat : <<t, k>> \in B <=> <<t, k>> \in A \/ k = m
Loses(A, B, t, m) == \A k \in Nat : <<t, k>> \in B <=> <<t, k>> \in A /\ k # m
Keeps(A, B, t) == \A k \in Nat : <<t, k>> \in B <=> <<t, k>> \in A

\* What becomes of the frames of one thread is all that becomes of them.
LEMMA OneThread ==
  ASSUME NEW t \in Threads, NEW m \in Nat, NEW A, NEW B,
         A \subseteq Threads \X Nat, B \subseteq Threads \X Nat,
         \A s \in Threads, k \in Nat : s # t => (<<s, k>> \in B <=> <<s, k>> \in A)
  PROVE  /\ Gains(A, B, t, m) => B = A \cup Frame(t, m)
         /\ Loses(A, B, t, m) => B = A \ Frame(t, m)
         /\ Keeps(A, B, t) => B = A
<1>1. ASSUME Gains(A, B, t, m) PROVE B = A \cup Frame(t, m)
  <2>1. \A s \in Threads, k \in Nat : <<s, k>> \in B <=> <<s, k>> \in A \cup Frame(t, m)
    BY <1>1 DEF Frame, Gains
  <2>2. A \cup Frame(t, m) \subseteq Threads \X Nat
    BY DEF Frame
  <2> QED
    BY <2>1, <2>2, SameFrames
<1>2. ASSUME Loses(A, B, t, m) PROVE B = A \ Frame(t, m)
  <2>1. \A s \in Threads, k \in Nat : <<s, k>> \in B <=> <<s, k>> \in A \ Frame(t, m)
    BY <1>2 DEF Frame, Loses
  <2>2. A \ Frame(t, m) \subseteq Threads \X Nat
    OBVIOUS
  <2> QED
    BY <2>1, <2>2, SameFrames
<1>3. ASSUME Keeps(A, B, t) PROVE B = A
  <2>1. \A s \in Threads, k \in Nat : <<s, k>> \in B <=> <<s, k>> \in A
    BY <1>3 DEF Keeps
  <2> QED
    BY <2>1, SameFrames
<1> QED
  BY <1>1, <1>2, <1>3

\* What one thread does to what is left to echo.
LEMMA LeftOfThread ==
  ASSUME NEW f, NEW g, NEW t \in Threads, NEW m \in Nat, Elsewhere(f, g, t)
  PROVE  /\ Gains(Left(f), Left(g), t, m) => Left(g) = Left(f) \cup Frame(t, m)
         /\ Loses(Left(f), Left(g), t, m) => Left(g) = Left(f) \ Frame(t, m)
         /\ Keeps(Left(f), Left(g), t) => Left(g) = Left(f)
<1> DEFINE A == Left(f)
           B == Left(g)
<1>1. /\ A \subseteq Threads \X Nat /\ B \subseteq Threads \X Nat
      /\ \A s \in Threads, k \in Nat : s # t => (<<s, k>> \in B <=> <<s, k>> \in A)
  BY DEF Left, Elsewhere
<1> HIDE DEF A, B
<1>2. /\ Gains(A, B, t, m) => B = A \cup Frame(t, m)
      /\ Loses(A, B, t, m) => B = A \ Frame(t, m)
      /\ Keeps(A, B, t) => B = A
  BY <1>1, OneThread
<1> QED
  BY <1>2 DEF A, B

\* What one thread does to what is echoed twice.
LEMMA TwiceOfThread ==
  ASSUME NEW f, NEW g, NEW t \in Threads, NEW m \in Nat, Elsewhere(f, g, t)
  PROVE  /\ Gains(Twice(f), Twice(g), t, m) => Twice(g) = Twice(f) \cup Frame(t, m)
         /\ Loses(Twice(f), Twice(g), t, m) => Twice(g) = Twice(f) \ Frame(t, m)
         /\ Keeps(Twice(f), Twice(g), t) => Twice(g) = Twice(f)
<1> DEFINE A == Twice(f)
           B == Twice(g)
<1>1. /\ A \subseteq Threads \X Nat /\ B \subseteq Threads \X Nat
      /\ \A s \in Threads, k \in Nat : s # t => (<<s, k>> \in B <=> <<s, k>> \in A)
  BY DEF Twice, Left, Elsewhere
<1> HIDE DEF A, B
<1>2. /\ Gains(A, B, t, m) => B = A \cup Frame(t, m)
      /\ Loses(A, B, t, m) => B = A \ Frame(t, m)
      /\ Keeps(A, B, t) => B = A
  BY <1>1, OneThread
<1> QED
  BY <1>2 DEF A, B

\* One more echo is interrupted.
LEMMA Interrupted ==
  ASSUME NEW f \in [Threads -> Seq(Rests)], NEW t \in Threads,
         NEW g \in [Threads -> Seq(Rests)], g[t] = <<<<"SP", "BS">>>> \o f[t],
         Elsewhere(f, g, t), IsFiniteSet(Left(f))
  PROVE  /\ IsFiniteSet(Left(g))
         /\ Cardinality(Left(g)) = Cardinality(Left(f)) + 1
         /\ Cardinality(Twice(g)) = Cardinality(Twice(f)) + 1
<1>1. PICK n \in Nat : n = Len(f[t])
  OBVIOUS
<1>2. n + 1 \in Nat /\ f[t] \in Seq(Rests) /\ <<"SP", "BS">> \in Rests
  BY <1>1 DEF Rests
<1>3. /\ g[t] \in Seq(Rests) /\ Len(g[t]) = n + 1 /\ g[t][1] = <<"SP", "BS">>
      /\ \A i \in 1 .. n : g[t][i + 1] = f[t][i]
  BY <1>1, <1>2
<1>5. /\ \A k \in Nat : <<t, k>> \in Left(f) <=> k \in 1 .. n
      /\ \A k \in Nat : <<t, k>> \in Twice(f)
                          <=> k \in 1 .. n /\ f[t][n + 1 - k] = <<"SP", "BS">>
  BY <1>1, LeftAt
<1>7. Len(g[t]) = n + 1
  BY <1>3
<1>6. /\ \A k \in Nat : <<t, k>> \in Left(g) <=> k \in 1 .. n + 1
      /\ \A k \in Nat : <<t, k>> \in Twice(g)
                          <=> k \in 1 .. n + 1 /\ g[t][(n + 1) + 1 - k] = <<"SP", "BS">>
  BY <1>2, <1>7, LeftAt
<1>8. Left(g) = Left(f) \cup Frame(t, n + 1) /\ <<t, n + 1>> \notin Left(f)
  <2>1. ASSUME NEW k \in Nat
        PROVE  <<t, k>> \in Left(g) <=> <<t, k>> \in Left(f) \/ k = n + 1
    <3>1. k \in 1 .. n + 1 <=> k \in 1 .. n \/ k = n + 1
      BY <1>1
    <3> QED
      BY <1>5, <1>6, <3>1
  <2>2. Gains(Left(f), Left(g), t, n + 1)
    BY <2>1 DEF Gains
  <2>3. Left(g) = Left(f) \cup Frame(t, n + 1)
    BY <1>2, <2>2, LeftOfThread
  <2>4. n + 1 \notin 1 .. n
    BY <1>1
  <2> QED
    BY <1>2, <1>5, <2>3, <2>4 DEF Frame
<1>9. Twice(g) = Twice(f) \cup Frame(t, n + 1)
  <2>1. ASSUME NEW k \in Nat
        PROVE  <<t, k>> \in Twice(g) <=> <<t, k>> \in Twice(f) \/ k = n + 1
    <3>1. CASE k \in 1 .. n
      <4>1. n + 1 - k \in 1 .. n /\ (n + 1) + 1 - k = (n + 1 - k) + 1
        BY <3>1
      <4>2. g[t][(n + 1) + 1 - k] = f[t][n + 1 - k]
        BY <1>3, <4>1
      <4>3. k \in 1 .. n + 1 /\ k # n + 1
        BY <3>1
      <4> QED
        BY <1>5, <1>6, <3>1, <4>2, <4>3
    <3>2. CASE k = n + 1
      <4>1. (n + 1) + 1 - k = 1 /\ k \in 1 .. n + 1
        BY <3>2
      <4> QED
        BY <1>3, <1>6, <3>2, <4>1
    <3>3. CASE k \notin 1 .. n + 1
      <4>1. k \notin 1 .. n /\ k # n + 1
        BY <3>3
      <4> QED
        BY <1>5, <1>6, <3>3, <4>1
    <3> QED
      BY <3>1, <3>2, <3>3
  <2>2. Gains(Twice(f), Twice(g), t, n + 1)
    BY <2>1 DEF Gains
  <2> QED
    BY <1>2, <2>2, TwiceOfThread
<1>10. IsFiniteSet(Twice(f)) /\ <<t, n + 1>> \notin Twice(f)
  BY <1>8, FS_Subset DEF Twice
<1>11. IsFiniteSet(Left(g)) /\ Cardinality(Left(g)) = Cardinality(Left(f)) + 1
  BY <1>8, FS_AddElement DEF Frame
<1>12. Cardinality(Twice(g)) = Cardinality(Twice(f)) + 1
  BY <1>9, <1>10, FS_AddElement DEF Frame
<1> QED
  BY <1>11, <1>12

\* The innermost interrupted echo prints one of its two characters.
LEMMA HalfFinished ==
  ASSUME NEW f \in [Threads -> Seq(Rests)], NEW t \in Threads,
         f[t] # <<>>, Head(f[t]) = <<"SP", "BS">>,
         NEW g \in [Threads -> Seq(Rests)], g[t] = <<<<"BS">>>> \o Tail(f[t]),
         Elsewhere(f, g, t), IsFiniteSet(Left(f))
  PROVE  /\ Left(g) = Left(f)
         /\ Cardinality(Twice(g)) = Cardinality(Twice(f)) - 1
<1>1. PICK n \in Nat : n = Len(f[t])
  OBVIOUS
<1>2. n > 0 /\ f[t] \in Seq(Rests) /\ f[t][1] = <<"SP", "BS">> /\ <<"BS">> \in Rests
  BY <1>1 DEF Rests
<1>3. /\ g[t] \in Seq(Rests) /\ Len(g[t]) = n /\ g[t][1] = <<"BS">>
      /\ \A i \in 2 .. n : g[t][i] = f[t][i]
  BY <1>1, <1>2
<1>5. /\ \A k \in Nat : <<t, k>> \in Left(f) <=> k \in 1 .. n
      /\ \A k \in Nat : <<t, k>> \in Twice(f)
                          <=> k \in 1 .. n /\ f[t][n + 1 - k] = <<"SP", "BS">>
  BY <1>1, LeftAt
<1>6. /\ \A k \in Nat : <<t, k>> \in Left(g) <=> k \in 1 .. n
      /\ \A k \in Nat : <<t, k>> \in Twice(g)
                          <=> k \in 1 .. n /\ g[t][n + 1 - k] = <<"SP", "BS">>
  BY <1>1, <1>3, LeftAt
<1>8. Left(g) = Left(f)
  <2>1. Keeps(Left(f), Left(g), t)
    BY <1>5, <1>6 DEF Keeps
  <2> QED
    BY <1>1, <2>1, LeftOfThread
<1>9. <<t, n>> \in Twice(f)
  <2>1. n + 1 - n = 1 /\ n \in 1 .. n
    BY <1>2
  <2> QED
    BY <1>2, <1>5, <2>1
<1>10. Twice(g) = Twice(f) \ Frame(t, n)
  <2>1. ASSUME NEW k \in Nat
        PROVE  <<t, k>> \in Twice(g) <=> <<t, k>> \in Twice(f) /\ k # n
    <3>1. CASE k \in 1 .. n - 1
      <4>1. n + 1 - k \in 2 .. n /\ k \in 1 .. n /\ k # n
        BY <3>1
      <4>2. g[t][n + 1 - k] = f[t][n + 1 - k]
        BY <1>3, <4>1
      <4> QED
        BY <1>5, <1>6, <4>1, <4>2
    <3>2. CASE k = n
      <4>1. n + 1 - k = 1
        BY <3>2
      <4> QED
        BY <1>3, <1>6, <3>2, <4>1, RestsDiffer
    <3>3. CASE k \notin 1 .. n
      BY <1>5, <1>6, <3>3
    <3> QED
      BY <3>1, <3>2, <3>3
  <2>2. Loses(Twice(f), Twice(g), t, n)
    BY <2>1 DEF Loses
  <2> QED
    BY <1>1, <2>2, TwiceOfThread
<1>11. IsFiniteSet(Twice(f))
  BY FS_Subset DEF Twice
<1>12. Cardinality(Twice(g)) = Cardinality(Twice(f)) - 1
  BY <1>9, <1>10, <1>11, FS_RemoveElement DEF Frame
<1> QED
  BY <1>8, <1>12

\* The innermost interrupted echo prints its last character.
LEMMA Finished ==
  ASSUME NEW f \in [Threads -> Seq(Rests)], NEW t \in Threads,
         f[t] # <<>>, Head(f[t]) = <<"BS">>,
         NEW g \in [Threads -> Seq(Rests)], g[t] = Tail(f[t]),
         Elsewhere(f, g, t), IsFiniteSet(Left(f))
  PROVE  /\ IsFiniteSet(Left(g))
         /\ Cardinality(Left(g)) = Cardinality(Left(f)) - 1
         /\ Twice(g) = Twice(f)
<1>1. PICK n \in Nat : n = Len(f[t])
  OBVIOUS
<1>2. n - 1 \in Nat /\ f[t] \in Seq(Rests) /\ f[t][1] = <<"BS">>
  BY <1>1
<1>3. /\ g[t] \in Seq(Rests) /\ Len(g[t]) = n - 1
      /\ \A i \in 1 .. n - 1 : g[t][i] = f[t][i + 1]
  BY <1>1, <1>2
<1>5. /\ \A k \in Nat : <<t, k>> \in Left(f) <=> k \in 1 .. n
      /\ \A k \in Nat : <<t, k>> \in Twice(f)
                          <=> k \in 1 .. n /\ f[t][n + 1 - k] = <<"SP", "BS">>
  BY <1>1, LeftAt
<1>6. /\ \A k \in Nat : <<t, k>> \in Left(g) <=> k \in 1 .. n - 1
      /\ \A k \in Nat : <<t, k>> \in Twice(g)
                          <=> k \in 1 .. n - 1 /\ g[t][(n - 1) + 1 - k] = <<"SP", "BS">>
  BY <1>2, <1>3, LeftAt
<1>8. Left(g) = Left(f) \ Frame(t, n) /\ <<t, n>> \in Left(f)
  <2>1. ASSUME NEW k \in Nat
        PROVE  <<t, k>> \in Left(g) <=> <<t, k>> \in Left(f) /\ k # n
    <3>1. k \in 1 .. n - 1 <=> k \in 1 .. n /\ k # n
      BY <1>1, <1>2
    <3> QED
      BY <1>5, <1>6, <3>1
  <2>2. Loses(Left(f), Left(g), t, n)
    BY <2>1 DEF Loses
  <2>3. Left(g) = Left(f) \ Frame(t, n)
    BY <1>1, <2>2, LeftOfThread
  <2>4. n \in 1 .. n
    BY <1>1, <1>2
  <2> QED
    BY <1>1, <1>5, <2>3, <2>4
<1>9. Twice(g) = Twice(f)
  <2>1. ASSUME NEW k \in Nat PROVE <<t, k>> \in Twice(g) <=> <<t, k>> \in Twice(f)
    <3>1. CASE k \in 1 .. n - 1
      <4>1. /\ (n - 1) + 1 - k \in 1 .. n - 1 /\ n + 1 - k = ((n - 1) + 1 - k) + 1
            /\ k \in 1 .. n
        BY <3>1
      <4>2. g[t][(n - 1) + 1 - k] = f[t][n + 1 - k]
        BY <1>3, <4>1
      <4> QED
        BY <1>5, <1>6, <3>1, <4>1, <4>2
    <3>2. CASE k = n
      <4>1. n + 1 - k = 1 /\ k \notin 1 .. n - 1
        BY <3>2
      <4> QED
        BY <1>2, <1>5, <1>6, <4>1, RestsDiffer
    <3>3. CASE k \notin 1 .. n
      <4>1. k \notin 1 .. n - 1
        BY <3>3
      <4> QED
        BY <1>5, <1>6, <3>3, <4>1
    <3> QED
      BY <1>2, <3>1, <3>2, <3>3
  <2>2. Keeps(Twice(f), Twice(g), t)
    BY <2>1 DEF Keeps
  <2> QED
    BY <1>1, <2>2, TwiceOfThread
<1>10. IsFiniteSet(Left(g)) /\ Cardinality(Left(g)) = Cardinality(Left(f)) - 1
  BY <1>8, FS_RemoveElement DEF Frame
<1> QED
  BY <1>9, <1>10

-----------------------------------------------------------------------------
(* The steps.                                                               *)

\* uputc leaves a device in which something is sent, or the interrupt that
\* will fetch the next character is as pending as it was.
LEMMA PutcKeeps ==
  ASSUME NEW v \in Devices, Ring(v.out, Printed), NEW c \in Printed,
         v.thr # None => ~v.thre
  PROVE  /\ Putc(v, c) \in Devices /\ Ring(Putc(v, c).out, Printed)
         /\ Putc(v, c).in = v.in /\ Putc(v, c).rbr = v.rbr /\ Putc(v, c).tx_on
         /\ Putc(v, c).out.len <= v.out.len + 1
         /\ Putc(v, c).thr # None => ~Putc(v, c).thre
         /\ Line(Putc(v, c)) => Line(v)
         /\ (v.tx_on => "tx" \in v.ier) => "tx" \in Putc(v, c).ier
         /\ v.ier \subseteq Putc(v, c).ier
         /\ \/ Putc(v, c).thr # None
            \/ v.tx_on /\ v.thr = None /\ (TxPending(v) => TxPending(Putc(v, c)))
<1> DEFINE w == Putc(v, c)
<1>1. /\ w \in Devices /\ w.in = v.in /\ w.rbr = v.rbr /\ w.ls = v.ls /\ w.tx_on
      /\ v.tx_on => /\ w.out = Push(v.out, c) /\ w.ier = v.ier /\ w.thr = v.thr
                    /\ w.thre = v.thre
      /\ ~v.tx_on => /\ w.out = v.out /\ w.ier = v.ier \cup {"tx"}
                     /\ w.thr = c /\ ~w.thre
  BY PutcFields
<1>2. Ring(Push(v.out, c), Printed) /\ Push(v.out, c).len = v.out.len + 1
  BY Characters, PushRing
<1>3. v.out.len \in Nat /\ v.tx_on \in BOOLEAN
  BY DEF Devices, Ring, Rings
<1>4. c # None
  BY Characters
<1> HIDE DEF w
<1>5. CASE v.tx_on
  BY <1>1, <1>2, <1>3, <1>5 DEF w, Line, LsPending, RxPending, TxPending
<1>6. CASE ~v.tx_on
  BY <1>1, <1>2, <1>3, <1>4, <1>6 DEF w, Line, LsPending, RxPending, TxPending
<1> QED
  BY <1>3, <1>5, <1>6

\* What Room says, in numbers.
LEMMA RoomNumbers ==
  ASSUME Shapes, IsFiniteSet(Left(frames))
  PROVE  /\ Cardinality(Left(frames)) \in Nat /\ Cardinality(Twice(frames)) \in Nat
         /\ Cardinality(Twice(frames)) <= Cardinality(Left(frames))
         /\ Received \in {0, 1} /\ MaxLen \in Nat /\ MaxFrames \in Nat
         /\ u.in.len \in Nat /\ u.out.len \in Nat
<1>1. Twice(frames) \subseteq Left(frames)
  BY DEF Twice
<1>2. IsFiniteSet(Twice(frames)) /\ Cardinality(Twice(frames)) <= Cardinality(Left(frames))
  BY <1>1, FS_Subset
<1> QED
  BY <1>2, FS_CardinalityType, UartAssumption DEF Received, Shapes, Devices, Rings

\* The invariant holds at first.
LEMMA UartInit == Init => UInv
<1> SUFFICES ASSUME Init PROVE UInv
  OBVIOUS
<1>1. /\ Ring(Empty, Keys) /\ Ring(Empty, Printed) /\ Empty.len = 0
      /\ Empty \in Rings(Keys) /\ Empty \in Rings(Printed)
  BY EmptyRing DEF Ring
<1>2. Shapes
  <2>1. u \in Devices
    BY <1>1 DEF Init, Devices
  <2>2. reader \in [Threads -> [at : {"idle", "on", "wait", "take", "got", "off"},
                                ier : SUBSET {"tx", "rx", "ls"}]]
    BY DEF Init
  <2>3. frames \in [Threads -> Seq(Rests)]
    BY DEF Init
  <2> QED
    BY <2>1, <2>2, <2>3 DEF Init, Shapes
<1>3. /\ u.in = Empty /\ u.out = Empty /\ ~u.tx_on /\ u.thr = None /\ u.rbr = <<>>
      /\ irr = TRUE
  BY DEF Init
<1>4. RingsFit /\ OneAtATime /\ Latched /\ Enabled /\ NeverStranded
  BY <1>1, <1>3 DEF RingsFit, OneAtATime, Latched, Enabled, NeverStranded
<1>5. ReaderFits
  BY DEF Init, ReaderFits
<1>6. Room
  <2>1. Left(frames) = {} /\ Twice(frames) = {}
    BY DEF Init, Left, Twice
  <2>2. IsFiniteSet({}) /\ Cardinality({}) = 0
    BY FS_EmptySet
  <2>3. Received = 0 /\ u.in.len = 0 /\ u.out.len = 0
    BY <1>1, <1>3 DEF Received
  <2> QED
    BY <2>1, <2>2, <2>3, UartAssumption DEF Room
<1> QED
  BY <1>2, <1>4, <1>5, <1>6 DEF UInv

\* The device has sent a character.
LEMMA SentStep ==
  ASSUME UInv, ~lost, Sent PROVE UInv'
<1>1. /\ u' = [u EXCEPT !.thr = None, !.thre = TRUE] /\ u.thr # None
      /\ irr' = (irr \/ (Line(u') /\ ~Line(u)))
      /\ reader' = reader /\ frames' = frames /\ lost' = lost
  BY DEF Sent, Latch, Line, LsPending, RxPending, TxPending
<1>2. u \in Devices /\ irr \in BOOLEAN
  BY DEF UInv, Shapes
<1>3. u' \in Devices
  <2> DEFINE v == [u EXCEPT !.thr = None]
  <2>1. v \in Devices
    BY <1>2, DeviceFields
  <2> HIDE DEF v
  <2>2. [v EXCEPT !.thre = TRUE] \in Devices
    BY <2>1, DeviceFields
  <2> QED
    BY <1>1, <2>2 DEF v
<1>4. /\ u'.tx_on = u.tx_on /\ u'.in = u.in /\ u'.out = u.out /\ u'.ier = u.ier
      /\ u'.thr = None /\ u'.thre = TRUE /\ u'.rbr = u.rbr /\ u'.ls = u.ls
  BY <1>1, <1>2 DEF Devices
<1>5. u.tx_on /\ "tx" \in u.ier
  BY <1>1 DEF UInv, NeverStranded, Enabled
<1>6. TxPending(u') /\ Line(u') /\ irr' = TRUE
  BY <1>1, <1>2, <1>4, <1>5 DEF UInv, Latched, Line, TxPending
<1>7. Shapes'
  BY <1>1, <1>3, <1>6 DEF UInv, Shapes
<1>8. RingsFit' /\ ReaderFits' /\ OneAtATime'
  BY <1>1, <1>4 DEF UInv, RingsFit, ReaderFits, OneAtATime
<1>9. Latched' /\ Enabled' /\ NeverStranded'
  BY <1>4, <1>5, <1>6 DEF Latched, Enabled, NeverStranded, TxPending
<1>10. Room'
  BY <1>1, <1>4 DEF UInv, Room, Received
<1> QED
  BY <1>7, <1>8, <1>9, <1>10 DEF UInv

\* A key is typed.
LEMMA TypedStep ==
  ASSUME UInv, ~lost, NEW c \in Keys, Typed(c) PROVE UInv'
<1>1. /\ \/ u' = [u EXCEPT !.rbr = Append(u.rbr, c)] /\ Len(u.rbr) < FIFO_SIZE
         \/ u' = [u EXCEPT !.ls = TRUE] /\ ~(Len(u.rbr) < FIFO_SIZE)
      /\ u.in.len + Len(u.rbr) < MaxLen /\ u.out.len + Len(u.rbr) < MaxLen
      /\ Cardinality(Unfinished) < MaxFrames
      /\ irr' = (irr \/ (Line(u') /\ ~Line(u)))
      /\ reader' = reader /\ frames' = frames /\ lost' = lost
  BY DEF Typed, Latch, Line, LsPending, RxPending, TxPending
<1>2. u \in Devices /\ irr \in BOOLEAN /\ u.rbr \in Seq(Keys)
  BY DEF UInv, Shapes, Devices
<1>3. u' \in Devices
  <2>1. Append(u.rbr, c) \in Seq(Keys)
    BY <1>2
  <2> QED
    BY <1>1, <1>2, <2>1, DeviceFields
<1>4. /\ u'.tx_on = u.tx_on /\ u'.in = u.in /\ u'.out = u.out /\ u'.ier = u.ier
      /\ u'.thr = u.thr /\ u'.thre = u.thre
  BY <1>1, <1>2 DEF Devices
<1>5. Shapes'
  BY <1>1, <1>2, <1>3 DEF UInv, Shapes
<1>6. RingsFit' /\ ReaderFits' /\ OneAtATime' /\ Enabled'
  BY <1>1, <1>4 DEF UInv, RingsFit, ReaderFits, OneAtATime, Enabled
<1>7. Latched'
  BY <1>1, <1>2 DEF UInv, Latched
<1>8. NeverStranded'
  BY <1>1, <1>2, <1>4 DEF UInv, NeverStranded, TxPending
<1>9. Room'
  <2>1. Cardinality(Left(frames)) < MaxFrames
    BY <1>1, UnfinishedLeft DEF UInv, Shapes
  <2>2. Received' <= 1 /\ Received' \in Nat
    BY DEF Received
  <2>3. IsFiniteSet(Left(frames)) /\ Shapes
    BY DEF UInv, Room
  <2>4. u.in.len < MaxLen /\ u.out.len < MaxLen
    <3>1. Len(u.rbr) \in Nat
      BY <1>2
    <3> QED
      BY <1>1, <2>3, <3>1, RoomNumbers
  <2> DEFINE l == Cardinality(Left(frames))
             w == Cardinality(Twice(frames))
             r == Received'
  <2>5. /\ l \in Nat /\ w \in Nat /\ w <= l /\ l < MaxFrames /\ r \in Nat /\ r <= 1
        /\ u.in.len \in Nat /\ u.out.len \in Nat /\ MaxLen \in Nat /\ MaxFrames \in Nat
    BY <2>1, <2>2, <2>3, RoomNumbers
  <2> HIDE DEF l, w, r
  <2>6. /\ u.in.len + r <= MaxLen /\ l + r <= MaxFrames
        /\ u.out.len + l + w + 3 * r <= MaxLen + 2 * MaxFrames + 1
    BY <2>4, <2>5
  <2> QED
    BY <1>1, <1>4, <2>3, <2>6 DEF Room, l, w, r
<1> QED
  BY <1>5, <1>6, <1>7, <1>8, <1>9 DEF UInv

\* A thread prints.
LEMMA uputcStep ==
  ASSUME UInv, ~lost, NEW t \in Threads, NEW c \in Chars, uputc(t, c) PROVE UInv'
<1>1. /\ u' = Putc(u, c) /\ u.out.len < MaxLen
      /\ irr' \in {irr} \cup Pulse
      /\ reader' = reader /\ frames' = frames /\ lost' = lost
  BY DEF uputc
<1>2. /\ u \in Devices /\ irr \in BOOLEAN /\ Ring(u.in, Keys) /\ Ring(u.out, Printed)
      /\ u.thr # None => ~u.thre
  BY DEF UInv, Shapes, RingsFit, OneAtATime
<1>3. /\ u' \in Devices /\ Ring(u'.out, Printed)
      /\ u'.in = u.in /\ u'.rbr = u.rbr /\ u'.tx_on
      /\ u'.out.len <= u.out.len + 1
      /\ u'.thr # None => ~u'.thre
      /\ Line(u') => Line(u)
      /\ (u.tx_on => "tx" \in u.ier) => "tx" \in u'.ier
      /\ \/ u'.thr # None
         \/ u.tx_on /\ u.thr = None /\ (TxPending(u) => TxPending(u'))
  BY <1>1, <1>2, Characters, PutcKeeps
<1>4. irr' \in BOOLEAN /\ (irr => irr')
  BY <1>1, <1>2 DEF Pulse
<1>5. Shapes'
  BY <1>1, <1>3, <1>4 DEF UInv, Shapes
<1>6. RingsFit' /\ OneAtATime' /\ ReaderFits'
  BY <1>1, <1>2, <1>3 DEF UInv, RingsFit, OneAtATime, ReaderFits
<1>7. Latched' /\ Enabled' /\ NeverStranded'
  BY <1>1, <1>3, <1>4 DEF UInv, Latched, Enabled, NeverStranded, TxPending, Line
<1>8. Room'
  <2>1. IsFiniteSet(Left(frames)) /\ Shapes
    BY DEF UInv, Room
  <2>2. Received' = Received /\ u'.out.len \in Nat /\ u'.out.len <= MaxLen
    BY <1>1, <1>3, <2>1, RoomNumbers DEF Received, Devices, Rings
  <2> QED
    BY <1>1, <1>3, <2>1, <2>2, RoomNumbers DEF UInv, Room
<1> QED
  BY <1>5, <1>6, <1>7, <1>8 DEF UInv

\* An echo begins with a character and leaves one of Rests, if anything.
LEMMA EchoParts ==
  ASSUME NEW c \in Keys
  PROVE  /\ Head(Echo(c)) \in Printed
         /\ Len(Echo(c)) # 1 => Tail(Echo(c)) = <<"SP", "BS">>
<1>1. CASE c = "CR"
  BY <1>1, Characters DEF Echo
<1>2. CASE c = "DEL"
  BY <1>2, Characters DEF Echo
<1>3. CASE c # "CR" /\ c # "DEL"
  <2>1. Echo(c) = <<c>>
    BY <1>3 DEF Echo
  <2> QED
    BY <2>1, Characters
<1> QED
  BY <1>1, <1>2, <1>3

\* The handler does nothing about a line status.
LEMMA LineStatusStep ==
  ASSUME UInv, LineStatus, UNCHANGED reader PROVE UInv'
<1>1. /\ u' = u /\ irr' = FALSE /\ lost' = TRUE
      /\ reader' = reader /\ frames' = frames
  BY DEF LineStatus
<1>2. Shapes' /\ RingsFit' /\ OneAtATime' /\ ReaderFits'
  BY <1>1 DEF UInv, Shapes, RingsFit, OneAtATime, ReaderFits
<1>3. Latched' /\ Enabled' /\ NeverStranded'
  BY <1>1 DEF Latched, Enabled, NeverStranded
<1>4. Room'
  <2>1. Shapes /\ IsFiniteSet(Left(frames))
    BY DEF UInv, Room
  <2>2. Received' = 0
    BY <1>1 DEF Received
  <2> QED
    BY <1>1, <2>1, <2>2, RoomNumbers DEF UInv, Room
<1> QED
  BY <1>2, <1>3, <1>4 DEF UInv

\* The handler receives.
LEMMA ReceiveStep ==
  ASSUME UInv, ~lost, NEW t \in Threads, Receive(t), UNCHANGED reader PROVE UInv'
<1> PICK k : k = Head(u.rbr)
  OBVIOUS
<1> DEFINE v == [u EXCEPT !.rbr = Tail(u.rbr), !.in = Push(u.in, k)]
           c == Head(Echo(k))
<1>1. /\ u' = Putc(v, c) /\ RxPending(u)
      /\ frames' = [frames EXCEPT ![t] = IF Len(Echo(k)) = 1 THEN frames[t]
                                         ELSE <<Tail(Echo(k))>> \o frames[t]]
      /\ lost' = Line(u') /\ irr' \in {FALSE} \cup Pulse /\ reader' = reader
  BY DEF Receive, Line, LsPending, RxPending, TxPending
<1>2. /\ u \in Devices /\ Ring(u.in, Keys) /\ Ring(u.out, Printed)
      /\ u.thr # None => ~u.thre
      /\ u.rbr \in Seq(Keys) /\ u.rbr # <<>> /\ "rx" \in u.ier
      /\ frames \in [Threads -> Seq(Rests)]
  BY <1>1 DEF UInv, Shapes, RingsFit, OneAtATime, RxPending, Devices
<1>3. k \in Keys /\ Tail(u.rbr) \in Seq(Keys)
  BY <1>2
<1>4. Ring(Push(u.in, k), Keys) /\ Push(u.in, k).len = u.in.len + 1
  BY <1>2, <1>3, Characters, PushRing
<1>5. /\ v \in Devices /\ v.tx_on = u.tx_on /\ v.in = Push(u.in, k) /\ v.out = u.out
      /\ v.ier = u.ier /\ v.thr = u.thr /\ v.thre = u.thre /\ v.rbr = Tail(u.rbr)
  <2> DEFINE w == [u EXCEPT !.rbr = Tail(u.rbr)]
  <2>1. w \in Devices
    BY <1>2, <1>3, DeviceFields
  <2>2. v = [w EXCEPT !.in = Push(u.in, k)]
    BY <1>2 DEF Devices
  <2>3. Push(u.in, k) \in Rings(Keys)
    BY <1>4 DEF Ring
  <2>4. v \in Devices
    <3> HIDE DEF w, v
    <3> QED
      BY <2>1, <2>2, <2>3, DeviceFields
  <2> QED
    BY <1>2, <2>4 DEF Devices
<1>6. c \in Printed /\ (Len(Echo(k)) # 1 => Tail(Echo(k)) = <<"SP", "BS">>)
  BY <1>3, EchoParts
<1> HIDE DEF v, c
<1>7. /\ u' \in Devices /\ Ring(u'.out, Printed)
      /\ u'.in = v.in /\ u'.rbr = v.rbr /\ u'.tx_on
      /\ u'.out.len <= v.out.len + 1
      /\ u'.thr # None => ~u'.thre
      /\ (v.tx_on => "tx" \in v.ier) => "tx" \in u'.ier
      /\ v.ier \subseteq u'.ier
      /\ \/ u'.thr # None
         \/ v.tx_on /\ v.thr = None /\ (TxPending(v) => TxPending(u'))
  BY <1>1, <1>2, <1>5, <1>6, PutcKeeps
<1>8. irr' \in BOOLEAN /\ lost' \in BOOLEAN
  BY <1>1, <1>7 DEF Pulse, Line, LsPending, RxPending, TxPending, Devices
<1>9. /\ frames' \in [Threads -> Seq(Rests)] /\ IsFiniteSet(Left(frames'))
      /\ \/ frames' = frames
         \/ /\ Cardinality(Left(frames')) = Cardinality(Left(frames)) + 1
            /\ Cardinality(Twice(frames')) = Cardinality(Twice(frames)) + 1
  <2>1. IsFiniteSet(Left(frames))
    BY DEF UInv, Room
  <2>2. CASE Len(Echo(k)) = 1
    <3>1. frames' = frames
      BY <1>1, <1>2, <2>2
    <3> QED
      BY <1>2, <2>1, <3>1
  <2>3. CASE Len(Echo(k)) # 1
    <3>1. frames'[t] = <<<<"SP", "BS">>>> \o frames[t]
      BY <1>1, <1>2, <1>6, <2>3
    <3>2. Elsewhere(frames, frames', t)
      BY <1>1, <1>2 DEF Elsewhere
    <3>3. frames'[t] \in Seq(Rests)
      BY <1>2, <3>1 DEF Rests
    <3>4. frames' \in [Threads -> Seq(Rests)]
      BY <1>1, <1>2, <3>1, <3>3
    <3> QED
      BY <1>2, <2>1, <3>1, <3>2, <3>4, Interrupted
  <2> QED
    BY <2>2, <2>3
<1>10. Shapes'
  BY <1>1, <1>7, <1>8, <1>9 DEF UInv, Shapes
<1>11. RingsFit' /\ OneAtATime'
  BY <1>4, <1>5, <1>7 DEF RingsFit, OneAtATime
<1>12. ReaderFits'
  <2>1. u'.in.len = u.in.len + 1 /\ u.in.len \in Nat
    BY <1>2, <1>4, <1>5, <1>7 DEF Ring, Rings
  <2> QED
    BY <1>1, <2>1 DEF UInv, ReaderFits
<1>13. Latched' /\ Enabled'
  BY <1>1, <1>5, <1>7 DEF UInv, Latched, Enabled
<1>14. NeverStranded'
  <2>1. u.tx_on /\ u.thr = None => TxPending(u)
    BY DEF UInv, NeverStranded
  <2>2. TxPending(u) => TxPending(v)
    BY <1>5 DEF TxPending
  <2>3. TxPending(u') => lost'
    BY <1>1 DEF Line
  <2> QED
    BY <1>5, <1>7, <2>1, <2>2, <2>3 DEF NeverStranded
<1>15. Room'
  <2>1. Received = 1 /\ Received' = 0
    <3>1. u'.rbr # <<>> => lost'
      BY <1>1, <1>2, <1>5, <1>7 DEF Line, RxPending
    <3> QED
      BY <1>2, <3>1 DEF Received
  <2>2. /\ u'.in.len = u.in.len + 1 /\ u'.out.len <= u.out.len + 1
        /\ u'.out.len \in Nat
    BY <1>4, <1>5, <1>7 DEF Ring, Rings
  <2>3. Shapes /\ IsFiniteSet(Left(frames))
    BY DEF UInv, Room
  <2>4. /\ u.in.len + 1 <= MaxLen /\ Cardinality(Left(frames)) + 1 <= MaxFrames
        /\ u.out.len + Cardinality(Left(frames)) + Cardinality(Twice(frames)) + 3
             <= MaxLen + 2 * MaxFrames + 1
    BY <2>1 DEF UInv, Room
  <2> DEFINE l == Cardinality(Left(frames))
             w == Cardinality(Twice(frames))
             ll == Cardinality(Left(frames'))
             ww == Cardinality(Twice(frames'))
  <2>5. /\ l \in Nat /\ w \in Nat /\ u.in.len \in Nat
        /\ u.out.len \in Nat /\ MaxLen \in Nat /\ MaxFrames \in Nat
    BY <2>3, RoomNumbers
  <2>6. (ll = l /\ ww = w) \/ (ll = l + 1 /\ ww = w + 1)
    BY <1>9
  <2> HIDE DEF l, w, ll, ww
  <2>7. /\ ll + 0 <= MaxFrames /\ u'.in.len + 0 <= MaxLen
        /\ u'.out.len + ll + ww + 3 * 0 <= MaxLen + 2 * MaxFrames + 1
    BY <2>2, <2>4, <2>5, <2>6 DEF l, w
  <2> QED
    BY <1>9, <2>1, <2>7 DEF Room, ll, ww
<1> QED
  BY <1>10, <1>11, <1>12, <1>13, <1>14, <1>15 DEF UInv

\* The handler transmits.
LEMMA TransmitStep ==
  ASSUME UInv, ~lost, irr, Transmit, UNCHANGED reader PROVE UInv'
<1>1. /\ ~LsPending(u) /\ ~RxPending(u) /\ TxPending(u) /\ irr' = FALSE
      /\ reader' = reader /\ frames' = frames /\ lost' = lost
  BY DEF Transmit
<1>2. /\ u \in Devices /\ Ring(u.in, Keys) /\ Ring(u.out, Printed) /\ u.thre /\ u.thr = None
      /\ u.tx_on \in BOOLEAN /\ u.out.len \in Nat
  BY <1>1 DEF UInv, Shapes, RingsFit, OneAtATime, TxPending, Devices, Rings
<1>3. CASE Spent(u.out)
  <2>1. u' = [u EXCEPT !.thre = FALSE, !.tx_on = FALSE, !.ier = u.ier \ {"tx"}]
    BY <1>3 DEF Transmit
  <2>2. u' \in Devices
    <3> DEFINE v == [u EXCEPT !.thre = FALSE]
               w == [v EXCEPT !.tx_on = FALSE]
    <3>1. v \in Devices
      BY <1>2, DeviceFields
    <3>2. w \in Devices
      <4> HIDE DEF v
      <4> QED
        BY <3>1, DeviceFields
    <3>3. w.ier = u.ier /\ u.ier \ {"tx"} \in SUBSET {"tx", "rx", "ls"}
      BY <1>2 DEF Devices
    <3>4. u' = [w EXCEPT !.ier = u.ier \ {"tx"}]
      BY <1>2, <2>1 DEF Devices
    <3> HIDE DEF v, w
    <3> QED
      BY <3>2, <3>3, <3>4, DeviceFields
  <2>3. /\ ~u'.tx_on /\ u'.in = u.in /\ u'.out = u.out /\ u'.ier = u.ier \ {"tx"}
        /\ u'.thr = None /\ ~u'.thre /\ u'.rbr = u.rbr /\ u'.ls = u.ls
    BY <1>2, <2>1 DEF Devices
  <2>4. Shapes'
    BY <1>1, <2>2 DEF UInv, Shapes
  <2>5. RingsFit' /\ OneAtATime' /\ ReaderFits'
    BY <1>1, <2>3 DEF UInv, RingsFit, OneAtATime, ReaderFits
  <2>6. Latched' /\ Enabled'
    BY <1>1, <2>3 DEF Latched, Enabled, Line, LsPending, RxPending, TxPending
  <2>7. NeverStranded'
    BY <1>2, <1>3, <2>3 DEF NeverStranded, Spent
  <2>8. Room'
    BY <1>1, <2>3 DEF UInv, Room, Received
  <2> QED
    BY <2>4, <2>5, <2>6, <2>7, <2>8 DEF UInv
<1>4. CASE ~Spent(u.out)
  <2>1. u' = [u EXCEPT !.thre = FALSE, !.thr = First(u.out), !.out = Pop(u.out)]
    BY <1>4 DEF Transmit
  <2>2. u.out.len > 0
    BY <1>2, <1>4 DEF Spent
  <2>3. /\ Ring(Pop(u.out), Printed) /\ Pop(u.out).len = u.out.len - 1
        /\ First(u.out) \in Printed
    BY <1>2, <2>2, PopRing
  <2>4. u' \in Devices
    <3> DEFINE v == [u EXCEPT !.thre = FALSE]
               w == [v EXCEPT !.thr = First(u.out)]
    <3>1. v \in Devices
      BY <1>2, DeviceFields
    <3>2. w \in Devices
      <4> HIDE DEF v
      <4> QED
        BY <2>3, <3>1, DeviceFields
    <3>3. u' = [w EXCEPT !.out = Pop(u.out)]
      BY <1>2, <2>1 DEF Devices
    <3> HIDE DEF v, w
    <3> QED
      BY <2>3, <3>2, <3>3, DeviceFields DEF Ring
  <2>5. /\ u'.tx_on = u.tx_on /\ u'.in = u.in /\ u'.out = Pop(u.out) /\ u'.ier = u.ier
        /\ u'.thr = First(u.out) /\ ~u'.thre /\ u'.rbr = u.rbr /\ u'.ls = u.ls
    BY <1>2, <2>1 DEF Devices
  <2>6. First(u.out) # None
    BY <2>3, Characters
  <2>7. u.tx_on
    BY <1>2, <2>2 DEF UInv, NeverStranded
  <2>8. Shapes'
    BY <1>1, <2>4 DEF UInv, Shapes
  <2>9. RingsFit' /\ OneAtATime' /\ ReaderFits'
    BY <1>1, <1>2, <2>3, <2>5 DEF UInv, RingsFit, OneAtATime, ReaderFits
  <2>10. Latched' /\ Enabled' /\ NeverStranded'
    BY <1>1, <2>5, <2>6, <2>7
       DEF UInv, Latched, Enabled, NeverStranded, Line, LsPending, RxPending, TxPending
  <2>11. Room'
    <3>1. Shapes /\ IsFiniteSet(Left(frames))
      BY DEF UInv, Room
    <3>2. Received' = Received
      BY <1>1, <2>5 DEF Received
    <3> QED
      BY <1>1, <2>3, <2>5, <3>1, <3>2, RoomNumbers DEF UInv, Room
  <2> QED
    BY <2>8, <2>9, <2>10, <2>11 DEF UInv
<1> QED
  BY <1>3, <1>4

\* The handler finds nothing to do.
LEMMA SpuriousStep ==
  ASSUME UInv, ~lost, Spurious, UNCHANGED reader PROVE UInv'
<1>1. /\ ~Line(u) /\ irr' = FALSE /\ u' = u
      /\ reader' = reader /\ frames' = frames /\ lost' = lost
  BY DEF Spurious
<1>2. Shapes' /\ RingsFit' /\ OneAtATime' /\ ReaderFits' /\ Room' /\ Enabled'
  BY <1>1 DEF UInv, Shapes, RingsFit, OneAtATime, ReaderFits, Room, Received, Enabled
<1>3. Latched' /\ NeverStranded'
  BY <1>1 DEF UInv, Latched, NeverStranded, Line
<1> QED
  BY <1>2, <1>3 DEF UInv

\* The handler echoes the rest.
LEMMA EchoMoreStep ==
  ASSUME UInv, ~lost, NEW t \in Threads, EchoMore(t) PROVE UInv'
<1> DEFINE e == Head(frames[t])
<1>1. /\ frames[t] # <<>> /\ u' = Putc(u, Head(e))
      /\ frames' = [frames EXCEPT ![t] = IF Len(e) = 1 THEN Tail(frames[t])
                                         ELSE <<Tail(e)>> \o Tail(frames[t])]
      /\ irr' \in {irr} \cup Pulse /\ reader' = reader /\ lost' = lost
  BY DEF EchoMore
<1>2. /\ u \in Devices /\ irr \in BOOLEAN /\ Ring(u.in, Keys) /\ Ring(u.out, Printed)
      /\ u.thr # None => ~u.thre
      /\ frames \in [Threads -> Seq(Rests)] /\ IsFiniteSet(Left(frames))
  BY DEF UInv, Shapes, RingsFit, OneAtATime, Room
<1>3. e \in Rests
  BY <1>1, <1>2
<1> HIDE DEF e
<1>4. Head(e) \in Printed
  BY <1>3, Characters, RestsDiffer DEF Rests
<1>5. /\ u' \in Devices /\ Ring(u'.out, Printed)
      /\ u'.in = u.in /\ u'.rbr = u.rbr /\ u'.tx_on
      /\ u'.out.len <= u.out.len + 1
      /\ u'.thr # None => ~u'.thre
      /\ Line(u') => Line(u)
      /\ (u.tx_on => "tx" \in u.ier) => "tx" \in u'.ier
      /\ \/ u'.thr # None
         \/ u.tx_on /\ u.thr = None /\ (TxPending(u) => TxPending(u'))
  BY <1>1, <1>2, <1>4, PutcKeeps
<1>6. Elsewhere(frames, frames', t)
  BY <1>1, <1>2 DEF Elsewhere
<1>7. /\ frames' \in [Threads -> Seq(Rests)] /\ IsFiniteSet(Left(frames'))
      /\ \/ /\ Cardinality(Left(frames')) = Cardinality(Left(frames))
            /\ Cardinality(Twice(frames')) = Cardinality(Twice(frames)) - 1
         \/ /\ Cardinality(Left(frames')) = Cardinality(Left(frames)) - 1
            /\ Twice(frames') = Twice(frames)
  <2>1. Tail(frames[t]) \in Seq(Rests) /\ <<"BS">> \in Rests
    BY <1>1, <1>2 DEF Rests
  <2>2. CASE e = <<"SP", "BS">>
    <3>1. frames'[t] = <<<<"BS">>>> \o Tail(frames[t])
      <4>1. Len(e) # 1 /\ Tail(e) = <<"BS">>
        BY <2>2, RestsDiffer
      <4> QED
        BY <1>1, <1>2, <4>1
    <3>2. frames'[t] \in Seq(Rests)
      BY <2>1, <3>1
    <3>3. frames' \in [Threads -> Seq(Rests)]
      BY <1>1, <1>2, <3>1, <3>2
    <3>4. /\ Left(frames') = Left(frames)
          /\ Cardinality(Twice(frames')) = Cardinality(Twice(frames)) - 1
      BY <1>1, <1>2, <1>6, <2>2, <3>1, <3>3, HalfFinished DEF e
    <3> QED
      BY <1>2, <3>3, <3>4
  <2>3. CASE e = <<"BS">>
    <3>1. frames'[t] = Tail(frames[t])
      BY <1>1, <1>2, <2>3, RestsDiffer
    <3>2. frames' \in [Threads -> Seq(Rests)]
      BY <1>1, <1>2, <2>1, <3>1
    <3>3. /\ IsFiniteSet(Left(frames')) /\ Twice(frames') = Twice(frames)
          /\ Cardinality(Left(frames')) = Cardinality(Left(frames)) - 1
      <4>1. frames[t] # <<>> /\ Head(frames[t]) = <<"BS">>
        BY <1>1, <2>3 DEF e
      <4> QED
        BY <1>2, <1>6, <3>1, <3>2, <4>1, Finished
    <3> QED
      BY <3>2, <3>3
  <2> QED
    BY <1>3, <2>2, <2>3 DEF Rests
<1>8. irr' \in BOOLEAN /\ (irr => irr')
  BY <1>1, <1>2 DEF Pulse
<1>9. Shapes'
  BY <1>1, <1>5, <1>7, <1>8 DEF UInv, Shapes
<1>10. RingsFit' /\ OneAtATime' /\ ReaderFits'
  BY <1>1, <1>2, <1>5 DEF UInv, RingsFit, OneAtATime, ReaderFits
<1>11. Latched' /\ Enabled' /\ NeverStranded'
  BY <1>1, <1>5, <1>8 DEF UInv, Latched, Enabled, NeverStranded, TxPending, Line
<1>12. Room'
  <2>1. Received' = Received /\ u'.out.len \in Nat
    BY <1>1, <1>5 DEF Received, Devices, Rings
  <2>2. Shapes
    BY DEF UInv
  <2>3. /\ u.in.len + Received <= MaxLen
        /\ Cardinality(Left(frames)) + Received <= MaxFrames
        /\ u.out.len + Cardinality(Left(frames)) + Cardinality(Twice(frames)) + 3 * Received
             <= MaxLen + 2 * MaxFrames + 1
    BY DEF UInv, Room
  <2> DEFINE l == Cardinality(Left(frames))
             w == Cardinality(Twice(frames))
             ll == Cardinality(Left(frames'))
             ww == Cardinality(Twice(frames'))
  <2>4. /\ l \in Nat /\ w \in Nat /\ Received \in {0, 1}
        /\ u.out.len \in Nat /\ MaxLen \in Nat /\ MaxFrames \in Nat
    BY <1>2, <2>2, RoomNumbers
  <2>5. (ll = l /\ ww = w - 1) \/ (ll = l - 1 /\ ww = w)
    BY <1>7
  <2> HIDE DEF l, w, ll, ww
  <2>6. /\ ll + Received <= MaxFrames
        /\ u'.out.len + ll + ww + 3 * Received <= MaxLen + 2 * MaxFrames + 1
    BY <1>5, <2>1, <2>3, <2>4, <2>5 DEF l, w
  <2> QED
    BY <1>5, <1>7, <2>1, <2>3, <2>6 DEF Room, ll, ww
<1> QED
  BY <1>9, <1>10, <1>11, <1>12 DEF UInv

\* The reader moves on, and nothing else changes.
LEMMA ReaderMoves ==
  ASSUME UInv, NEW t \in Readers, NEW to \in {"idle", "on", "wait", "take", "got", "off"},
         NEW s \in SUBSET {"tx", "rx", "ls"},
         reader' = [reader EXCEPT ![t] = [at |-> to, ier |-> s]]
  PROVE  /\ reader' \in [Threads -> [at : {"idle", "on", "wait", "take", "got", "off"},
                                     ier : SUBSET {"tx", "rx", "ls"}]]
         /\ (to = "take" => u'.in.len > 0) => ReaderFits'
<1>1. /\ t \in Threads
      /\ reader \in [Threads -> [at : {"idle", "on", "wait", "take", "got", "off"},
                                 ier : SUBSET {"tx", "rx", "ls"}]]
  BY UartAssumption DEF UInv, Shapes
<1>2. \A r \in Threads : r # t => reader'[r] = reader[r] /\ (r \in Readers => FALSE)
  BY <1>1, UartAssumption
<1>3. reader'[t] = [at |-> to, ier |-> s]
  BY <1>1
<1> QED
  BY <1>1, <1>2, <1>3 DEF UInv, ReaderFits

\* IER is read: only the reader moves.
LEMMA ReadIerStep ==
  ASSUME UInv, NEW t \in Readers, NEW from, NEW to \in {"on", "off"}, ReadIer(t, from, to)
  PROVE  UInv'
<1>1. /\ reader' = [reader EXCEPT ![t] = [at |-> to, ier |-> u.ier]]
      /\ u' = u /\ irr' = irr /\ frames' = frames /\ lost' = lost
  BY DEF ReadIer
<1>2. u.ier \in SUBSET {"tx", "rx", "ls"}
  BY DEF UInv, Shapes, Devices
<1>3. to # "take"
  OBVIOUS
<1>4. /\ reader' \in [Threads -> [at : {"idle", "on", "wait", "take", "got", "off"},
                                  ier : SUBSET {"tx", "rx", "ls"}]]
      /\ ReaderFits'
  BY <1>1, <1>2, <1>3, ReaderMoves
<1>5. Shapes' /\ RingsFit' /\ OneAtATime' /\ Latched' /\ Enabled'
  BY <1>1, <1>4 DEF UInv, Shapes, RingsFit, OneAtATime, Latched, Enabled, Line, LsPending, RxPending,
                    TxPending
<1>6. NeverStranded' /\ Room'
  BY <1>1 DEF UInv, NeverStranded, TxPending, Room, Received
<1> QED
  BY <1>4, <1>5, <1>6 DEF UInv

\* IER is written back: if that does not disable the transmitter that runs,
\* whatever it enables is latched.
LEMMA WriteIerStep ==
  ASSUME UInv, ~lost, NEW t \in Readers, NEW from, NEW to \in {"wait", "idle"},
         NEW s \in SUBSET {"tx", "rx", "ls"}, WriteIer(t, from, to, s)
  PROVE  UInv'
<1>1. /\ reader' = [reader EXCEPT ![t] = [at |-> to, ier |-> {}]]
      /\ u' = SetIer(u, s) /\ lost' = (u.tx_on /\ "tx" \in u.ier \ s)
      /\ irr' = (irr \/ (Line(u') /\ ~Line(u))) /\ frames' = frames
  BY DEF WriteIer, Moves, Latch, Line, LsPending, RxPending, TxPending
<1>2. u \in Devices /\ irr \in BOOLEAN /\ u.tx_on \in BOOLEAN
  BY DEF UInv, Shapes, Devices
<1>3. /\ u' \in Devices /\ u'.tx_on = u.tx_on /\ u'.in = u.in /\ u'.out = u.out
      /\ u'.ier = s /\ u'.thr = u.thr /\ u'.rbr = u.rbr
      /\ u'.thre = (u.thre \/ ("tx" \in s /\ "tx" \notin u.ier /\ u.thr = None))
  BY <1>1, <1>2, SetIerFields
<1>4. /\ reader' \in [Threads -> [at : {"idle", "on", "wait", "take", "got", "off"},
                                  ier : SUBSET {"tx", "rx", "ls"}]]
      /\ ReaderFits'
  <2>1. to # "take" /\ {} \in SUBSET {"tx", "rx", "ls"}
    OBVIOUS
  <2> QED
    BY <1>1, <2>1, ReaderMoves
<1>5. Shapes'
  BY <1>1, <1>2, <1>3, <1>4 DEF UInv, Shapes
<1>6. RingsFit' /\ OneAtATime'
  BY <1>3 DEF UInv, RingsFit, OneAtATime
<1>7. Latched'
  BY <1>1, <1>2 DEF UInv, Latched
<1>8. Enabled'
  BY <1>1, <1>3 DEF UInv, Enabled
<1>9. NeverStranded'
  <2>1. ASSUME u.tx_on, ~lost', u.thr = None PROVE TxPending(u') /\ irr'
    <3>1. TxPending(u) /\ irr /\ "tx" \in s
      BY <1>1, <2>1 DEF UInv, NeverStranded, TxPending
    <3> QED
      BY <1>1, <1>3, <3>1 DEF TxPending
  <2> QED
    BY <1>3, <2>1 DEF UInv, NeverStranded
<1>10. Room'
  <2>1. Shapes /\ IsFiniteSet(Left(frames))
    BY DEF UInv, Room
  <2>2. Received' \in {0, Received}
    BY <1>3 DEF Received
  <2> QED
    BY <1>1, <1>3, <2>1, <2>2, RoomNumbers DEF UInv, Room
<1> QED
  BY <1>4, <1>5, <1>6, <1>7, <1>8, <1>9, <1>10 DEF UInv

\* A reader takes a character.
LEMMA ugetcStep ==
  ASSUME UInv, NEW t \in Readers, ugetc(t) PROVE UInv'
<1>1. /\ u \in Devices /\ Ring(u.in, Keys) /\ Ring(u.out, Printed) /\ u.in.len \in Nat
  BY DEF UInv, Shapes, RingsFit, Devices, Rings
<1>2. CASE /\ Moves(t, "wait", "take") /\ u.in.len > 0
           /\ UNCHANGED <<u, irr, frames, lost>>
  <2>1. /\ reader' = [reader EXCEPT ![t] = [at |-> "take", ier |-> {}]]
        /\ u' = u /\ irr' = irr /\ frames' = frames /\ lost' = lost /\ u.in.len > 0
    BY <1>2 DEF Moves
  <2>2. /\ reader' \in [Threads -> [at : {"idle", "on", "wait", "take", "got", "off"},
                                    ier : SUBSET {"tx", "rx", "ls"}]]
        /\ ReaderFits'
    <3>1. {} \in SUBSET {"tx", "rx", "ls"}
      OBVIOUS
    <3> QED
      BY <2>1, <3>1, ReaderMoves
  <2>3. Shapes' /\ RingsFit' /\ OneAtATime' /\ Latched' /\ Enabled'
    BY <2>1, <2>2 DEF UInv, Shapes, RingsFit, OneAtATime, Latched, Enabled, Line, LsPending, RxPending,
                      TxPending
  <2>4. NeverStranded' /\ Room'
    BY <2>1 DEF UInv, NeverStranded, TxPending, Room, Received
  <2> QED
    BY <2>2, <2>3, <2>4 DEF UInv
<1>3. CASE /\ Moves(t, "take", IF First(u.in) = "CR" THEN "got" ELSE "wait")
           /\ u' = [u EXCEPT !.in = Pop(u.in)]
           /\ UNCHANGED <<irr, frames, lost>>
  <2> DEFINE to == IF First(u.in) = "CR" THEN "got" ELSE "wait"
  <2>1. /\ reader[t].at = "take" /\ reader' = [reader EXCEPT ![t] = [at |-> to, ier |-> {}]]
        /\ u' = [u EXCEPT !.in = Pop(u.in)] /\ irr' = irr /\ frames' = frames /\ lost' = lost
    BY <1>3 DEF Moves
  <2>2. u.in.len > 0
    BY <2>1, UartAssumption DEF UInv, ReaderFits
  <2>3. Ring(Pop(u.in), Keys) /\ Pop(u.in).len = u.in.len - 1
    BY <1>1, <2>2, PopRing
  <2>4. /\ u' \in Devices /\ u'.tx_on = u.tx_on /\ u'.in = Pop(u.in) /\ u'.out = u.out
        /\ u'.ier = u.ier /\ u'.thr = u.thr /\ u'.thre = u.thre /\ u'.rbr = u.rbr
        /\ u'.ls = u.ls
    <3>1. Pop(u.in) \in Rings(Keys)
      BY <2>3 DEF Ring
    <3>2. u' \in Devices
      BY <1>1, <2>1, <3>1, DeviceFields
    <3> QED
      BY <1>1, <2>1, <3>2 DEF Devices
  <2>5. /\ reader' \in [Threads -> [at : {"idle", "on", "wait", "take", "got", "off"},
                                    ier : SUBSET {"tx", "rx", "ls"}]]
        /\ ReaderFits'
    <3>1. /\ to \in {"idle", "on", "wait", "take", "got", "off"} /\ to # "take"
          /\ {} \in SUBSET {"tx", "rx", "ls"}
      OBVIOUS
    <3> HIDE DEF to
    <3> QED
      BY <2>1, <3>1, ReaderMoves
  <2>6. Shapes'
    BY <2>1, <2>4, <2>5 DEF UInv, Shapes
  <2>7. RingsFit' /\ OneAtATime' /\ Latched' /\ Enabled' /\ NeverStranded'
    BY <1>1, <2>1, <2>3, <2>4 DEF UInv, RingsFit, OneAtATime, Latched, Enabled, Line,
                                  LsPending, RxPending, TxPending, NeverStranded
  <2>8. Room'
    <3>1. /\ Received' = Received /\ u'.in.len = u.in.len - 1 /\ u'.out = u.out
          /\ Received \in {0, 1} /\ MaxLen \in Nat
      BY <2>1, <2>3, <2>4, UartAssumption DEF Received
    <3> QED
      BY <1>1, <2>1, <3>1 DEF UInv, Room
  <2> QED
    BY <2>5, <2>6, <2>7, <2>8 DEF UInv
<1> QED
  BY <1>2, <1>3 DEF ugetc

\* A reader reads a line.
LEMMA ugetsStep ==
  ASSUME UInv, ~lost, NEW t \in Readers, ugets(t) PROVE UInv'
<1>1. reader[t].ier \in SUBSET {"tx", "rx", "ls"}
  BY UartAssumption DEF UInv, Shapes
<1>2. CASE ReadIer(t, "idle", "on")
  BY <1>2, ReadIerStep
<1>3. CASE WriteIer(t, "on", "wait", reader[t].ier \cup {"rx"})
  <2>1. reader[t].ier \cup {"rx"} \in SUBSET {"tx", "rx", "ls"}
    BY <1>1
  <2> QED
    BY <1>3, <2>1, WriteIerStep
<1>4. CASE ugetc(t)
  BY <1>4, ugetcStep
<1>5. CASE ReadIer(t, "got", "off")
  BY <1>5, ReadIerStep
<1>6. CASE WriteIer(t, "off", "idle", reader[t].ier \ {"rx"})
  <2>1. reader[t].ier \ {"rx"} \in SUBSET {"tx", "rx", "ls"}
    BY <1>1
  <2> QED
    BY <1>6, <2>1, WriteIerStep
<1> QED
  BY <1>2, <1>3, <1>4, <1>5, <1>6 DEF ugets

\* Every step keeps the invariant.
LEMMA UartNext ==
  ASSUME UInv, [Next]_vars PROVE UInv'
<1>1. CASE UNCHANGED vars
  <2>1. u' = u /\ irr' = irr /\ reader' = reader /\ frames' = frames /\ lost' = lost
    BY <1>1 DEF vars
  <2>2. Shapes' /\ RingsFit' /\ OneAtATime' /\ Latched' /\ Enabled'
    BY <2>1 DEF UInv, Shapes, RingsFit, OneAtATime, Latched, Enabled, Line, LsPending, RxPending,
                TxPending
  <2>3. NeverStranded' /\ ReaderFits' /\ Room'
    BY <2>1 DEF UInv, NeverStranded, TxPending, ReaderFits, Room, Received
  <2> QED
    BY <2>2, <2>3 DEF UInv
<1>2. CASE ~lost /\ Sent
  BY <1>2, SentStep
<1>3. ASSUME ~lost, NEW t \in Threads, uart_intr(t) PROVE UInv'
  <2>1. irr /\ UNCHANGED reader /\ (LineStatus \/ Receive(t) \/ Transmit \/ Spurious)
    BY <1>3 DEF uart_intr
  <2> QED
    BY <1>3, <2>1, LineStatusStep, ReceiveStep, TransmitStep, SpuriousStep
<1>4. ASSUME ~lost, NEW c \in Keys, Typed(c) PROVE UInv'
  BY <1>4, TypedStep
<1>5. ASSUME ~lost, NEW t \in Threads, EchoMore(t) PROVE UInv'
  BY <1>5, EchoMoreStep
<1>6. ASSUME ~lost, NEW t \in Threads, NEW c \in Chars, uputc(t, c) PROVE UInv'
  BY <1>6, uputcStep
<1>7. ASSUME ~lost, NEW t \in Readers, ugets(t) PROVE UInv'
  BY <1>7, ugetsStep
<1> QED
  BY <1>1, <1>2, <1>3, <1>4, <1>5, <1>6, <1>7 DEF Next, Run

\* The inductive invariant of the driver: the rings hold characters where
\* they should, what may still be echoed is bounded, and, until a step takes
\* the last edge from a pending source (those listed at NeverStranded), the
\* line is latched whenever it is high.
THEOREM UartInvariant == Spec => []UInv
<1> QED
  BY UartInit, UartNext, PTL DEF Spec

\* Type correctness: no index leaves its buffer and no length goes below
\* zero, ugetc taking only what is there.
THEOREM UartTypes == Spec => []TypeOK
<1>1. ASSUME UInv PROVE TypeOK
  <2>1. /\ u \in Devices /\ irr \in BOOLEAN /\ lost \in BOOLEAN
        /\ reader \in [Threads -> [at : {"idle", "on", "wait", "take", "got", "off"},
                                   ier : SUBSET {"tx", "rx", "ls"}]]
        /\ frames \in [Threads -> Seq(Rests)]
    BY <1>1 DEF UInv, Shapes
  <2>2. u.in.len <= MaxLen /\ u.out.len <= MaxLen + 2 * MaxFrames + 1
    <3>1. Shapes /\ IsFiniteSet(Left(frames))
      BY <1>1 DEF UInv, Room
    <3> QED
      BY <1>1, <3>1, RoomNumbers DEF UInv, Room
  <2>3. /\ u.in \in Rings(Keys) /\ u.out \in Rings(Printed)
        /\ u.in.len \in Nat /\ u.out.len \in Nat
    BY <2>1 DEF Devices, Rings
  <2>4. /\ u.in.len \in 0 .. MaxLen + 3 * (MaxFrames + 1)
        /\ u.out.len \in 0 .. MaxLen + 3 * (MaxFrames + 1)
    BY <2>2, <2>3, UartAssumption
  <2>5. ASSUME NEW S \in SUBSET Printed, NEW r \in Rings(S),
               r.len \in 0 .. MaxLen + 3 * (MaxFrames + 1)
        PROVE  r \in RingTypes
    <3>1. [0 .. BUF_SIZE - 1 -> S \cup {None}]
            \subseteq [0 .. BUF_SIZE - 1 -> Chars \cup Keys \cup {None, "LF", "BS", "SP"}]
      <4>1. S \cup {None} \subseteq Chars \cup Keys \cup {None, "LF", "BS", "SP"}
        BY DEF Printed
      <4> QED
        BY <4>1
    <3>2. /\ r.buf \in [0 .. BUF_SIZE - 1 -> S \cup {None}]
          /\ r.head \in 0 .. BUF_SIZE - 1 /\ r.tail \in 0 .. BUF_SIZE - 1
          /\ r = [buf |-> r.buf, head |-> r.head, tail |-> r.tail, len |-> r.len]
      BY Zenon DEF Rings
    <3> QED
      BY <2>5, <3>1, <3>2 DEF RingTypes
  <2>6. u.in \in RingTypes /\ u.out \in RingTypes
    BY <2>3, <2>4, <2>5, Characters
  <2>7. /\ u.tx_on \in BOOLEAN /\ u.thre \in BOOLEAN /\ u.ls \in BOOLEAN
        /\ u.ier \subseteq {"tx", "rx", "ls"}
        /\ u.thr \in Chars \cup Keys \cup {None, "LF", "BS", "SP"} /\ u.rbr \in Seq(Keys)
    BY <2>1 DEF Devices, Printed
  <2> QED
    BY <2>1, <2>6, <2>7 DEF TypeOK, Rests
<1> QED
  BY <1>1, UartInvariant, PTL

\* Until an interrupt is lost in one of the ways listed at NeverStranded, what
\* waits to be sent is never left without the interrupt that fetches it,
\* however printing threads, echoes, typed characters, overruns and the device
\* interleave.
THEOREM NothingStranded == Spec => []NeverStranded
<1>1. UInv => NeverStranded
  BY DEF UInv
<1> QED
  BY <1>1, UartInvariant, PTL

-----------------------------------------------------------------------------
(* The order of the characters.                                             *)

\* What has been printed and not been sent.
Queue(v) == (IF v.thr = None THEN <<>> ELSE <<v.thr>>) \o Contents(v.out)

\* The waiting characters are as many as the ring says.
LEMMA ContentsType ==
  ASSUME NEW S, NEW r, Ring(r, S)
  PROVE  /\ Contents(r) \in Seq(S \cup {None}) /\ Len(Contents(r)) = r.len
         /\ r.len = 0 => Contents(r) = <<>>
<1>1. BUF_SIZE \in Nat \ {0}
  BY UartAssumption
<1>2. /\ r.len \in Nat /\ r.head \in 0 .. BUF_SIZE - 1
      /\ r.buf \in [0 .. BUF_SIZE - 1 -> S \cup {None}]
  BY DEF Ring, Rings
<1>3. \A i \in 1 .. r.len : r.buf[(r.head + i - 1) % BUF_SIZE] \in S \cup {None}
  <2>1. \A i \in 1 .. r.len : (r.head + i - 1) % BUF_SIZE \in 0 .. BUF_SIZE - 1
    <3>1. \A i \in 1 .. r.len : r.head + i - 1 \in Int
      BY <1>2
    <3> QED
      BY <1>1, <3>1, Division
  <2> QED
    BY <1>2, <2>1
<1> QED
  BY SMTT(30), <1>2, <1>3 DEF Contents

\* What is on its way out, the register first.
LEMMA QueueType ==
  ASSUME NEW v \in Devices, Ring(v.out, Printed)
  PROVE  /\ Queue(v) \in Seq(Printed \cup {None})
         /\ v.thr = None => Queue(v) = Contents(v.out) /\ Len(Queue(v)) = v.out.len
         /\ v.thr # None => /\ Queue(v) = <<v.thr>> \o Contents(v.out)
                            /\ Len(Queue(v)) = 1 + v.out.len
<1>1. /\ Contents(v.out) \in Seq(Printed \cup {None}) /\ Len(Contents(v.out)) = v.out.len
      /\ v.thr \in Printed \cup {None}
  BY ContentsType DEF Devices
<1>2. CASE v.thr = None
  BY <1>1, <1>2 DEF Queue
<1>3. CASE v.thr # None
  BY <1>1, <1>3 DEF Queue
<1> QED
  BY <1>2, <1>3

\* uputc queues its character behind those that wait, if there is room.
LEMMA PutcQueue ==
  ASSUME NEW v \in Devices, Ring(v.out, Printed), NEW c \in Printed,
         v.tx_on \/ (v.thr = None /\ v.out.len = 0)
  PROVE  /\ Len(Queue(v)) < BUF_SIZE => Queue(Putc(v, c)) = Append(Queue(v), c)
         /\ Len(Queue(Putc(v, c))) = Len(Queue(v)) + 1
<1> DEFINE w == Putc(v, c)
<1>1. /\ w \in Devices
      /\ v.tx_on => w.out = Push(v.out, c) /\ w.thr = v.thr
      /\ ~v.tx_on => w.out = v.out /\ w.thr = c
  BY PutcFields
<1>2. /\ Ring(Push(v.out, c), Printed) /\ Push(v.out, c).len = v.out.len + 1
      /\ v.out.len < BUF_SIZE => Contents(Push(v.out, c)) = Append(Contents(v.out), c)
  BY Characters, PushRing
<1>3. /\ Contents(v.out) \in Seq(Printed \cup {None}) /\ Len(Contents(v.out)) = v.out.len
      /\ v.out.len = 0 => Contents(v.out) = <<>>
  BY ContentsType
<1>4. v.out.len \in Nat /\ v.tx_on \in BOOLEAN /\ c # None /\ BUF_SIZE \in Nat
  BY Characters, UartAssumption DEF Devices, Ring, Rings
<1> HIDE DEF w
<1>5. CASE v.tx_on
  <2>1. Ring(w.out, Printed)
    BY <1>1, <1>2, <1>5
  <2>2. CASE v.thr = None
    <3>1. Queue(w) = Contents(w.out) /\ Len(Queue(w)) = w.out.len
      BY <1>1, <1>5, <2>1, <2>2, QueueType
    <3>2. Queue(v) = Contents(v.out) /\ Len(Queue(v)) = v.out.len
      BY <2>2, QueueType
    <3> QED
      BY <1>1, <1>2, <1>4, <1>5, <3>1, <3>2 DEF w
  <2>3. CASE v.thr # None
    <3>1. /\ Queue(w) = <<v.thr>> \o Contents(w.out) /\ Len(Queue(w)) = 1 + w.out.len
      BY <1>1, <1>5, <2>1, <2>3, QueueType
    <3>2. /\ Queue(v) = <<v.thr>> \o Contents(v.out) /\ Len(Queue(v)) = 1 + v.out.len
      BY <2>3, QueueType
    <3>3. <<v.thr>> \o Append(Contents(v.out), c) = Append(<<v.thr>> \o Contents(v.out), c)
      <4>1. v.thr \in Printed \cup {None} /\ c \in Printed \cup {None}
        BY DEF Devices
      <4> QED
        BY <1>3, <4>1
    <3>4. Len(Queue(w)) = Len(Queue(v)) + 1
      BY <1>1, <1>2, <1>4, <1>5, <3>1, <3>2
    <3>5. ASSUME Len(Queue(v)) < BUF_SIZE PROVE Queue(w) = Append(Queue(v), c)
      <4>1. v.out.len < BUF_SIZE
        BY <1>4, <3>2, <3>5
      <4>2. Contents(w.out) = Append(Contents(v.out), c)
        BY <1>1, <1>2, <1>5, <4>1
      <4> QED
        BY <3>1, <3>2, <3>3, <4>2
    <3> QED
      BY <3>4, <3>5 DEF w
  <2> QED
    BY <2>2, <2>3
<1>6. CASE ~v.tx_on
  <2>1. Queue(v) = <<>> /\ Len(Queue(v)) = 0
    BY <1>3, <1>6, QueueType
  <2>2. w.out = v.out /\ w.thr = c /\ Contents(w.out) = <<>>
    BY <1>1, <1>3, <1>6
  <2>3. Queue(w) = <<c>>
    BY <1>4, <2>2 DEF Queue
  <2> QED
    BY <2>1, <2>3 DEF w
<1> QED
  BY <1>5, <1>6

\* How the two queues of a device change where the driver and the device
\* change it: nothing, a character at the end, or one less at the front.
Appends(q, p) == Len(q) < BUF_SIZE /\ \E c \in Printed : p = Append(q, c)
Spoils(q, p) == Len(q) >= BUF_SIZE /\ Len(p) = Len(q) + 1

\* uputc, in the terms of the abstract queue.
LEMMA PutcPuts ==
  ASSUME NEW v \in Devices, Ring(v.out, Printed), NEW c \in Printed,
         v.tx_on \/ (v.thr = None /\ v.out.len = 0)
  PROVE  Appends(Queue(v), Queue(Putc(v, c))) \/ Spoils(Queue(v), Queue(Putc(v, c)))
<1>1. Len(Queue(v)) \in Nat /\ BUF_SIZE \in Nat
  BY QueueType, UartAssumption
<1>2. /\ Len(Queue(v)) < BUF_SIZE => Queue(Putc(v, c)) = Append(Queue(v), c)
      /\ Len(Queue(Putc(v, c))) = Len(Queue(v)) + 1
  BY PutcQueue
<1> QED
  BY <1>1, <1>2 DEF Appends, Spoils

\* Every step of the driver and of the device is one of the queue of what is
\* printed, or leaves it alone.
LEMMA OutStep ==
  ASSUME UInv, UInv', [Next]_vars
  PROVE  \/ Appends(Queue(u), Queue(u')) \/ Spoils(Queue(u), Queue(u'))
         \/ Queue(u) # <<>> /\ Queue(u') = Tail(Queue(u))
         \/ Queue(u') = Queue(u)
<1>1. /\ u \in Devices /\ u' \in Devices /\ Ring(u.out, Printed) /\ Ring(u.in, Keys)
  BY DEF UInv, Shapes, RingsFit
<1>2. ASSUME u'.thr = u.thr, u'.out = u.out PROVE Queue(u') = Queue(u)
  BY <1>2 DEF Queue
<1>3. ~lost => u.tx_on \/ (u.thr = None /\ u.out.len = 0)
  BY DEF UInv, NeverStranded
<1>4. CASE UNCHANGED vars
  BY <1>4 DEF vars
<1>5. CASE ~lost /\ Sent
  <2>1. u.thr # None /\ u' = [u EXCEPT !.thr = None, !.thre = TRUE]
    BY <1>5 DEF Sent
  <2>2. u'.thr = None /\ u'.out = u.out
    BY <1>1, <2>1 DEF Devices
  <2>3. Queue(u) = <<u.thr>> \o Contents(u.out) /\ Len(Queue(u)) = 1 + u.out.len
    BY <1>1, <2>1, QueueType
  <2>4. Queue(u') = Contents(u.out)
    BY <1>1, <2>2, QueueType
  <2>5. u.thr \in Printed \cup {None} /\ Contents(u.out) \in Seq(Printed \cup {None})
    BY <1>1, ContentsType DEF Devices
  <2>6. Queue(u) # <<>> /\ Queue(u') = Tail(Queue(u))
    BY <2>3, <2>4, <2>5
  <2> QED
    BY <2>6
<1>6. ASSUME ~lost, NEW c \in Keys, Typed(c) PROVE Queue(u') = Queue(u)
  BY <1>1, <1>2, <1>6 DEF Typed, Devices
<1>7. ASSUME ~lost, NEW t \in Threads, Receive(t)
      PROVE  Appends(Queue(u), Queue(u')) \/ Spoils(Queue(u), Queue(u'))
  <2> PICK k : k = Head(u.rbr)
    OBVIOUS
  <2> DEFINE v == [u EXCEPT !.rbr = Tail(u.rbr), !.in = Push(u.in, k)]
             c == Head(Echo(k))
  <2>1. u' = Putc(v, c) /\ k \in Keys /\ Tail(u.rbr) \in Seq(Keys)
    <3>1. u.rbr \in Seq(Keys) /\ u.rbr # <<>>
      BY <1>1, <1>7 DEF Receive, RxPending, Devices
    <3> QED
      BY <1>7, <3>1 DEF Receive
  <2>2. /\ v \in Devices /\ v.out = u.out /\ v.thr = u.thr /\ v.tx_on = u.tx_on
    <3> DEFINE w == [u EXCEPT !.rbr = Tail(u.rbr)]
    <3>1. Push(u.in, k) \in Rings(Keys)
      BY <1>1, <2>1, Characters, PushRing DEF Ring
    <3>2. w \in Devices
      BY <1>1, <2>1, DeviceFields
    <3>3. v = [w EXCEPT !.in = Push(u.in, k)]
      BY <1>1 DEF Devices
    <3>4. v \in Devices
      <4> HIDE DEF v, w
      <4> QED
        BY <3>1, <3>2, <3>3, DeviceFields
    <3> QED
      BY <1>1, <3>4 DEF Devices
  <2>3. c \in Printed
    BY <2>1, EchoParts
  <2> HIDE DEF v, c
  <2>4. Queue(v) = Queue(u)
    BY <2>2 DEF Queue
  <2> QED
    BY <1>1, <1>3, <1>7, <2>1, <2>2, <2>3, <2>4, PutcPuts
<1>8. ASSUME ~lost, Transmit PROVE Queue(u') = Queue(u)
  <2>1. u.thr = None /\ u.out.len \in Nat
    BY <1>1, <1>8 DEF UInv, OneAtATime, Transmit, TxPending, Devices, Rings
  <2>2. CASE Spent(u.out)
    <3>1. u' = [u EXCEPT !.thre = FALSE, !.tx_on = FALSE, !.ier = u.ier \ {"tx"}]
      BY <1>8, <2>2 DEF Transmit
    <3> QED
      BY <1>1, <1>2, <3>1 DEF Devices
  <2>3. CASE ~Spent(u.out)
    <3>1. u' = [u EXCEPT !.thre = FALSE, !.thr = First(u.out), !.out = Pop(u.out)]
      BY <1>8, <2>3 DEF Transmit
    <3>2. u'.thr = First(u.out) /\ u'.out = Pop(u.out)
      BY <1>1, <3>1 DEF Devices
    <3>3. /\ First(u.out) \in Printed
          /\ Contents(u.out) = <<First(u.out)>> \o Contents(Pop(u.out))
      <4>1. u.out.len > 0
        BY <2>1, <2>3 DEF Spent
      <4> QED
        BY <1>1, <4>1, PopRing
    <3>4. Queue(u') = <<First(u.out)>> \o Contents(Pop(u.out))
      BY <3>2, <3>3, Characters DEF Queue
    <3>5. Queue(u) = Contents(u.out)
      BY <1>1, <2>1, QueueType
    <3> QED
      BY <3>3, <3>4, <3>5
  <2> QED
    BY <2>2, <2>3
<1>9. ASSUME ~lost, NEW t \in Threads, uart_intr(t)
      PROVE  \/ Appends(Queue(u), Queue(u')) \/ Spoils(Queue(u), Queue(u'))
             \/ Queue(u') = Queue(u)
  <2>1. LineStatus \/ Receive(t) \/ Transmit \/ Spurious
    BY <1>9 DEF uart_intr
  <2>2. CASE LineStatus \/ Spurious
    BY <2>2 DEF LineStatus, Spurious
  <2> QED
    BY <1>7, <1>8, <1>9, <2>1, <2>2
<1>10. ASSUME ~lost, NEW t \in Threads, EchoMore(t)
       PROVE  Appends(Queue(u), Queue(u')) \/ Spoils(Queue(u), Queue(u'))
  <2>1. PICK e \in Rests : u' = Putc(u, Head(e))
    <3>1. frames[t] \in Seq(Rests) /\ frames[t] # <<>>
      BY <1>10 DEF UInv, Shapes, EchoMore
    <3>2. Head(frames[t]) \in Rests
      BY <3>1
    <3> QED
      BY <1>10, <3>2 DEF EchoMore
  <2>2. Head(e) \in Printed
    BY <2>1, Characters, RestsDiffer DEF Rests
  <2> QED
    BY <1>1, <1>3, <1>10, <2>1, <2>2, PutcPuts
<1>11. ASSUME ~lost, NEW t \in Threads, NEW c \in Chars, uputc(t, c)
       PROVE  Appends(Queue(u), Queue(u')) \/ Spoils(Queue(u), Queue(u'))
  <2>1. u' = Putc(u, c) /\ c \in Printed
    BY <1>11, Characters DEF uputc
  <2> QED
    BY <1>1, <1>3, <1>11, <2>1, PutcPuts
<1>12. ASSUME ~lost, NEW t \in Readers, ugets(t) PROVE Queue(u') = Queue(u)
  <2>1. reader[t].ier \in SUBSET {"tx", "rx", "ls"}
    BY UartAssumption DEF UInv, Shapes
  <2>2. ASSUME NEW s \in SUBSET {"tx", "rx", "ls"}, u' = SetIer(u, s) PROVE Queue(u') = Queue(u)
    BY <1>1, <1>2, <2>2, SetIerFields
  <2>3. \/ u' = u
        \/ \E s \in SUBSET {"tx", "rx", "ls"} : u' = SetIer(u, s)
        \/ u' = [u EXCEPT !.in = Pop(u.in)]
    <3>1. reader[t].ier \cup {"rx"} \in SUBSET {"tx", "rx", "ls"}
      BY <2>1
    <3>2. reader[t].ier \ {"rx"} \in SUBSET {"tx", "rx", "ls"}
      BY <2>1
    <3> QED
      BY <1>12, <3>1, <3>2 DEF ugets, ReadIer, WriteIer, ugetc
  <2>4. CASE u' = [u EXCEPT !.in = Pop(u.in)]
    <3>1. u'.thr = u.thr /\ u'.out = u.out
      BY <1>1, <2>4 DEF Devices
    <3> QED
      BY <1>2, <3>1
  <2> QED
    BY <2>2, <2>3, <2>4
<1> QED
  BY <1>4, <1>5, <1>6, <1>9, <1>10, <1>11, <1>12 DEF Next, Run

\* The same for what is typed and not yet read.
LEMMA InStep ==
  ASSUME UInv, [Next]_vars
  PROVE  \/ Contents(u'.in) = Contents(u.in)
         \/ /\ Len(Contents(u.in)) < BUF_SIZE
            /\ \E c \in Keys : Contents(u'.in) = Append(Contents(u.in), c)
         \/ Len(Contents(u.in)) >= BUF_SIZE /\ Len(Contents(u'.in)) = Len(Contents(u.in)) + 1
         \/ Contents(u.in) # <<>> /\ Contents(u'.in) = Tail(Contents(u.in))
<1>1. /\ u \in Devices /\ Ring(u.out, Printed) /\ Ring(u.in, Keys)
      /\ u.in.len \in Nat /\ BUF_SIZE \in Nat
  BY UartAssumption DEF UInv, Shapes, RingsFit, Devices, Rings
<1>2. CASE UNCHANGED vars
  BY <1>2 DEF vars
<1>3. CASE ~lost /\ Sent
  BY <1>1, <1>3 DEF Sent, Devices
<1>4. ASSUME NEW c \in Keys, Typed(c) PROVE u'.in = u.in
  BY <1>1, <1>4 DEF Typed, Devices
<1>5. ASSUME NEW t \in Threads, Receive(t)
      PROVE  u'.in = Push(u.in, Head(u.rbr)) /\ Head(u.rbr) \in Keys
  <2> PICK k : k = Head(u.rbr)
    OBVIOUS
  <2> DEFINE v == [u EXCEPT !.rbr = Tail(u.rbr), !.in = Push(u.in, k)]
             c == Head(Echo(k))
  <2>1. u' = Putc(v, c) /\ k \in Keys /\ Tail(u.rbr) \in Seq(Keys)
    <3>1. u.rbr \in Seq(Keys) /\ u.rbr # <<>>
      BY <1>1, <1>5 DEF Receive, RxPending, Devices
    <3> QED
      BY <1>5, <3>1 DEF Receive
  <2>2. /\ v \in Devices /\ v.out = u.out /\ v.in = Push(u.in, k)
    <3> DEFINE w == [u EXCEPT !.rbr = Tail(u.rbr)]
    <3>1. Push(u.in, k) \in Rings(Keys)
      BY <1>1, <2>1, Characters, PushRing DEF Ring
    <3>2. w \in Devices
      BY <1>1, <2>1, DeviceFields
    <3>3. v = [w EXCEPT !.in = Push(u.in, k)]
      BY <1>1 DEF Devices
    <3>4. v \in Devices
      <4> HIDE DEF v, w
      <4> QED
        BY <3>1, <3>2, <3>3, DeviceFields
    <3> QED
      BY <1>1, <3>4 DEF Devices
  <2>3. c \in Printed
    BY <2>1, EchoParts
  <2> HIDE DEF v, c
  <2> QED
    BY <1>1, <2>1, <2>2, <2>3, PutcFields
<1>6. ASSUME NEW c \in Keys, u'.in = Push(u.in, c)
      PROVE  \/ /\ Len(Contents(u.in)) < BUF_SIZE
                /\ \E d \in Keys : Contents(u'.in) = Append(Contents(u.in), d)
             \/ /\ Len(Contents(u.in)) >= BUF_SIZE
                /\ Len(Contents(u'.in)) = Len(Contents(u.in)) + 1
  <2>1. /\ Ring(Push(u.in, c), Keys) /\ Push(u.in, c).len = u.in.len + 1
        /\ u.in.len < BUF_SIZE => Contents(Push(u.in, c)) = Append(Contents(u.in), c)
    BY <1>1, Characters, PushRing
  <2>2. Len(Contents(u.in)) = u.in.len /\ Len(Contents(u'.in)) = u.in.len + 1
    BY <1>1, <1>6, <2>1, ContentsType
  <2> QED
    BY <1>1, <1>6, <2>1, <2>2
<1>7. ASSUME LineStatus \/ Transmit \/ Spurious PROVE u'.in = u.in
  BY <1>1, <1>7 DEF LineStatus, Transmit, Spurious, Devices
<1>8. ASSUME NEW t \in Threads, EchoMore(t) PROVE u'.in = u.in
  <2>1. PICK e \in Rests : u' = Putc(u, Head(e))
    <3>1. frames[t] \in Seq(Rests) /\ frames[t] # <<>>
      BY <1>8 DEF UInv, Shapes, EchoMore
    <3>2. Head(frames[t]) \in Rests
      BY <3>1
    <3> QED
      BY <1>8, <3>2 DEF EchoMore
  <2>2. Head(e) \in Printed
    BY <2>1, Characters, RestsDiffer DEF Rests
  <2> QED
    BY <1>1, <2>1, <2>2, PutcFields
<1>9. ASSUME NEW t \in Threads, NEW c \in Chars, uputc(t, c) PROVE u'.in = u.in
  <2>1. u' = Putc(u, c) /\ c \in Printed
    BY <1>9, Characters DEF uputc
  <2> QED
    BY <1>1, <2>1, PutcFields
<1>10. ASSUME NEW t \in Readers, ugets(t)
       PROVE  u'.in = u.in \/ (u'.in = Pop(u.in) /\ u.in.len > 0)
  <2>1. reader[t].ier \in SUBSET {"tx", "rx", "ls"}
    BY UartAssumption DEF UInv, Shapes
  <2>2. ASSUME NEW s \in SUBSET {"tx", "rx", "ls"}, u' = SetIer(u, s) PROVE u'.in = u.in
    BY <1>1, <2>2, SetIerFields
  <2>3. \/ u' = u
        \/ \E s \in SUBSET {"tx", "rx", "ls"} : u' = SetIer(u, s)
        \/ u' = [u EXCEPT !.in = Pop(u.in)] /\ reader[t].at = "take"
    <3>1. reader[t].ier \cup {"rx"} \in SUBSET {"tx", "rx", "ls"}
      BY <2>1
    <3>2. reader[t].ier \ {"rx"} \in SUBSET {"tx", "rx", "ls"}
      BY <2>1
    <3> QED
      BY <1>10, <3>1, <3>2 DEF ugets, ReadIer, WriteIer, ugetc, Moves
  <2>4. CASE u' = [u EXCEPT !.in = Pop(u.in)] /\ reader[t].at = "take"
    <3>1. u'.in = Pop(u.in)
      BY <1>1, <2>4 DEF Devices
    <3>2. u.in.len > 0
      BY <2>4, UartAssumption DEF UInv, ReaderFits
    <3> QED
      BY <3>1, <3>2
  <2> QED
    BY <2>2, <2>3, <2>4
<1>11. ASSUME u'.in = Pop(u.in), u.in.len > 0
       PROVE  Contents(u.in) # <<>> /\ Contents(u'.in) = Tail(Contents(u.in))
  BY <1>1, <1>11, PopRing
<1> QED
  BY <1>2, <1>3, <1>4, <1>5, <1>6, <1>7, <1>8, <1>9, <1>10, <1>11
     DEF Next, Run, uart_intr

\* The driver implements its two queues: characters printed and echoed reach
\* the wire, and typed ones ugetc, in their order, each once, until a buffer
\* overruns; an overrun spoils what waits, but not its number.
THEOREM Order == Spec => KeepsOrder
<1>1. Init => Out!Init /\ In!Init
  <2> SUFFICES ASSUME Init PROVE Out!Init /\ In!Init
    OBVIOUS
  <2>1. u.thr = None /\ Contents(u.out) = <<>> /\ Contents(u.in) = <<>>
    BY EmptyRing DEF Init
  <2> QED
    BY <2>1 DEF Out!Init, In!Init
<1>2. UInv /\ UInv' /\ [Next]_vars => [Out!Next]_(Queue(u)) /\ [In!Next]_(Contents(u.in))
  <2> SUFFICES ASSUME UInv, UInv', [Next]_vars
               PROVE  [Out!Next]_(Queue(u)) /\ [In!Next]_(Contents(u.in))
    OBVIOUS
  <2>1. [Out!Next]_(Queue(u))
    BY OutStep
       DEF Out!Next, Out!Put, Out!Overrun, Out!Get, Queue, Printed, Appends, Spoils
  <2>2. [In!Next]_(Contents(u.in))
    BY InStep DEF In!Next, In!Put, In!Overrun, In!Get
  <2> QED
    BY <2>1, <2>2
<1> QED
  BY <1>1, <1>2, UartInvariant, PTL DEF Spec, KeepsOrder, Out!Spec, In!Spec, Queue
=============================================================================
