---------------------------- MODULE KmallocProofs ----------------------------
(* kmalloc and kfree for every number of threads, page frames, sizes and    *)
(* descriptors on a page: no object is in two places, no page is given back *)
(* while somebody uses it, and no two allocations overlap.                  *)
EXTENDS Kmalloc, SequenceTheorems, FiniteSetTheorems, FunctionTheorems,
        WellFoundedInduction, TLAPS

\* The threads on their way from kfree to the cache.
Freers == {t \in Threads : call[t].at \in {"size", "push"}}

\* An object a of size c is held, on its way, cached, or with the daemon.
Uses(a, c) ==
    \/ \E t \in Threads : <<a, c>> \in held[t]
    \/ \E t \in Freers : call[t].obj = a /\ call[t].c = c
    \/ a \in ToSet(cache[c])
    \/ daemon.at = "put" /\ daemon.obj = a /\ daemon.c = c

Used == {b \in Nat \X Classes : Uses(b[1], b[2])}

\* The objects in use on a page.
UsedOn(p) == {b[1] : b \in {e \in Used : PageOf(e[1]) = p}}

\* No object is in two places.
Apart ==
    /\ \A t, u \in Threads : \A b \in held[t], e \in held[u] : b[1] = e[1] => b = e /\ t = u
    /\ \A t, u \in Freers : call[t].obj = call[u].obj => t = u
    /\ \A c \in Classes : IsInjective(cache[c])
    /\ \A c, e \in Classes : \A a \in ToSet(cache[c]) : a \in ToSet(cache[e]) => c = e
    /\ \A t \in Threads : \A b \in held[t] :
         /\ \A u \in Freers : call[u].obj # b[1]
         /\ \A c \in Classes : b[1] \notin ToSet(cache[c])
         /\ daemon.at = "put" => daemon.obj # b[1]
    /\ \A u \in Freers :
         /\ \A c \in Classes : call[u].obj \notin ToSet(cache[c])
         /\ daemon.at = "put" => daemon.obj # call[u].obj
    /\ \A c \in Classes : daemon.at = "put" => daemon.obj \notin ToSet(cache[c])

\* A descriptor in a chain describes a page of objects of that chain's size,
\* the frame table leads back to it, and it counts the objects in use.
Described(d, c) ==
    /\ desc[d].page \in Frames /\ owner[desc[d].page] = d /\ desc[d].obj_size = c
    /\ desc[d].ref_cnt >= 1 /\ desc[d].ref_cnt = Cardinality(UsedOn(desc[d].page))
    /\ IsInjective(desc[d].free)
    /\ ToSet(desc[d].free) \subseteq ToSet(ObjectsOf(desc[d].page, c)) \ UsedOn(desc[d].page)

ChainsDescribe == \A c \in Classes : \A d \in ToSet(chain[c]) : Described(d, c)

\* An object in use lies on a page of objects of its size.
UsedDescribed ==
    \A b \in Used :
      /\ \E d \in ToSet(chain[b[2]]) : desc[d].page = PageOf(b[1])
      /\ b[1] \in ToSet(ObjectsOf(PageOf(b[1]), b[2]))

Tables == {d[1] : d \in Chained \cup ToSet(spare)}

\* Each descriptor is in one chain, once, or spare.
DescsApart ==
    /\ \A c \in Classes : IsInjective(chain[c])
    /\ \A c, e \in Classes : \A d \in ToSet(chain[c]) : d \in ToSet(chain[e]) => c = e
    /\ IsInjective(spare)
    /\ \A d \in Chained : d \notin ToSet(spare)

\* Each page frame is free, holds descriptors, all of them known, or objects.
FramesApart ==
    /\ \A f \in Frames : f \in free \/ f \in Tables \/ \E d \in Chained : desc[d].page = f
    /\ \A f \in free : f \notin Tables /\ \A d \in Chained : desc[d].page # f
    /\ \A d \in Chained : desc[d].page \notin Tables
    /\ \A f \in Tables, i \in 1 .. PerPage : <<f, i>> \in Chained \cup ToSet(spare)

Memory == ChainsDescribe /\ UsedDescribed /\ DescsApart /\ FramesApart

\* The inductive invariant.  Where an object is and where its page is are
\* independent of each other, but for the set of the objects in use.  Once a
\* stale descriptor was used only the types are left.
KInv ==
    /\ TypeOK
    /\ \A t \in Threads : call[t].at = "size" => call[t].d \in Descs
    /\ ~stale => /\ Apart /\ Memory
                 /\ daemon.at = "put" => daemon.d \in ToSet(chain[daemon.c])

-----------------------------------------------------------------------------
(* Numbers.                                                                 *)

\* A set of numbers that is not empty has a least element, and Least is it.
LEMMA LeastIn ==
    ASSUME NEW S \in SUBSET Nat, S # {}
    PROVE  Least(S) \in S /\ \A x \in S : Least(S) <= x
<1>1. PICK a \in S : \A b \in S : <<b, a>> \notin OpToRel(<, Nat)
  BY WFMin, NatLessThanWellFounded
<1>2. ASSUME NEW b \in S, b < a  PROVE FALSE
  <2>1. <<b, a>> \in Nat \X Nat /\ <<b, a>>[1] = b /\ <<b, a>>[2] = a
    OBVIOUS
  <2>2. <<b, a>> \in OpToRel(<, Nat)
    BY <1>2, <2>1 DEF OpToRel
  <2> QED  BY <1>1, <2>2
<1>3. \A b \in S : a <= b
  BY <1>2
<1> QED  BY <1>3 DEF Least

\* The page size and the number of descriptors that fill a page.
LEMMA PageSize ==
    /\ PAGE_SIZE \in Nat /\ PAGE_SIZE \in Int /\ 1 <= PAGE_SIZE
    /\ PerPage \in Nat /\ 1 <= PerPage
BY SMTT(60), KmallocAssumption

\* A count of the objects of a page fits in 16 bits.
LEMMA PageLimit == PAGE_SIZE <= 65535
BY SMTT(60), KmallocAssumption

\* Frames and sizes are numbers, and 0 is neither.
LEMMA FrameNat ==
    /\ Frames \subseteq Nat /\ 0 \notin Frames
    /\ \A c \in Classes : c \in 1 .. PAGE_SIZE /\ c \in Nat \ {0}
<1>1. Frames \subseteq Nat \ {0} /\ Classes \subseteq 1 .. PAGE_SIZE
  BY SMTT(60), KmallocAssumption
<1> QED  BY <1>1, PageSize

\* An address on a page is the page's first address and an offset.
LEMMA Addresses ==
    /\ \A p \in Nat, r \in 0 .. PAGE_SIZE - 1 :
         p * PAGE_SIZE + r \in Nat /\ PageOf(p * PAGE_SIZE + r) = p
    /\ \A a \in Nat : /\ PageOf(a) \in Nat
                      /\ a \in PageOf(a) * PAGE_SIZE .. PageOf(a) * PAGE_SIZE + PAGE_SIZE - 1
<1>1. PICK m \in Nat \ {0} : m = PAGE_SIZE
  BY PageSize
<1>2. \A p \in Nat, r \in 0 .. m - 1 : p * m + r \in Nat /\ (p * m + r) \div m = p
  BY SMTT(60)
<1>3. \A a \in Nat : a \div m \in Nat /\ a \in (a \div m) * m .. (a \div m) * m + m - 1
  BY SMTT(60)
<1> QED  BY <1>1, <1>2, <1>3 DEF PageOf

\* The objects of a page do not overlap and end with it.
LEMMA Offsets ==
    ASSUME NEW m \in Nat \ {0}, NEW c \in 1 .. m
    PROVE  /\ m \div c \in Nat /\ 1 <= m \div c
           /\ \A i \in 1 .. m \div c : (i - 1) * c \in Nat /\ (i - 1) * c + c <= m
           /\ \A i, j \in 1 .. m \div c : i < j => (i - 1) * c + c <= (j - 1) * c
<1>1. PICK n \in Int : n = m \div c
  OBVIOUS
<1>2. n * c <= m /\ m < n * c + c
  BY <1>1, SMTT(60)
<1>3. n >= 1
  BY <1>2, SMTT(60)
<1>4. \A i \in 1 .. n : (i - 1) * c \in Nat /\ (i - 1) * c + c <= n * c
  BY <1>3, SMTT(60)
<1>5. \A i, j \in 1 .. n : i < j => (i - 1) * c + c <= (j - 1) * c
  BY <1>3, SMTT(60)
<1> QED  BY <1>1, <1>2, <1>3, <1>4, <1>5

\* The objects of a page p of size c: numbers on that page, at least one, all
\* different, and no two of them overlap.
LEMMA Objects ==
    ASSUME NEW p \in Nat, NEW c \in Classes
    PROVE  /\ ObjectsOf(p, c) \in Seq(Nat) /\ ObjectsOf(p, c) # <<>>
           /\ IsInjective(ObjectsOf(p, c))
           /\ \A a \in ToSet(ObjectsOf(p, c)) :
                /\ a \in Nat /\ PageOf(a) = p
                /\ a + c - 1 <= p * PAGE_SIZE + PAGE_SIZE - 1
           /\ \A a, b \in ToSet(ObjectsOf(p, c)) : a # b => a + c <= b \/ b + c <= a
<1> DEFINE s == ObjectsOf(p, c)
           off(i) == (i - 1) * c
<1>1. PAGE_SIZE \in Nat \ {0} /\ c \in 1 .. PAGE_SIZE /\ c \in Nat \ {0}
  BY PageSize, FrameNat
<1>2. PICK n \in Nat : n = PAGE_SIZE \div c /\ 1 <= n
  BY <1>1, Offsets
<1>3. /\ \A i \in 1 .. n : off(i) \in Nat /\ off(i) + c <= PAGE_SIZE
      /\ \A i, j \in 1 .. n : i < j => off(i) + c <= off(j)
  BY <1>1, <1>2, Offsets
<1>4. s = [i \in 1 .. n |-> p * PAGE_SIZE + off(i)]
  BY <1>2 DEF ObjectsOf
<1> HIDE DEF s, off
<1>5. PICK b \in Nat : b = p * PAGE_SIZE
  BY <1>1
<1>6. DOMAIN s = 1 .. n /\ \A i \in 1 .. n : s[i] = b + off(i)
  BY <1>4, <1>5
<1>7. \A i \in 1 .. n : /\ s[i] \in Nat /\ PageOf(s[i]) = p
                        /\ s[i] + c - 1 <= b + PAGE_SIZE - 1
  <2>1. ASSUME NEW i \in 1 .. n
        PROVE  off(i) \in 0 .. PAGE_SIZE - 1
    BY <1>1, <1>3
  <2>2. ASSUME NEW i \in 1 .. n
        PROVE  s[i] \in Nat /\ PageOf(s[i]) = p
    <3>1. s[i] = p * PAGE_SIZE + off(i)
      BY <1>5, <1>6
    <3> QED  BY <2>1, <3>1, Addresses, Zenon
  <2>3. ASSUME NEW i \in 1 .. n
        PROVE  s[i] + c - 1 <= b + PAGE_SIZE - 1
    BY <1>1, <1>3, <1>6
  <2> QED  BY <2>2, <2>3
<1>8. s \in Seq(Nat) /\ Len(s) = n
  BY <1>4, <1>6, <1>7
<1>9. \A i, j \in 1 .. n : i # j => s[i] + c <= s[j] \/ s[j] + c <= s[i]
  <2>1. \A i, j \in 1 .. n : i < j => s[i] + c <= s[j]
    BY <1>1, <1>3, <1>6
  <2>2. \A i, j \in 1 .. n : i # j => i < j \/ j < i
    OBVIOUS
  <2> QED  BY <2>1, <2>2
<1>10. IsInjective(s)
  <2>1. \A i, j \in 1 .. n : s[i] = s[j] => i = j
    BY <1>1, <1>7, <1>9
  <2> QED  BY <1>6, <2>1 DEF IsInjective
<1>11. ToSet(s) = {s[i] : i \in 1 .. n}
  BY <1>6 DEF ToSet
<1>12. \A x, y \in ToSet(s) : x # y => x + c <= y \/ y + c <= x
  BY <1>9, <1>11
<1>13. s # <<>>
  BY <1>2, <1>8
<1> QED  BY <1>5, <1>7, <1>8, <1>10, <1>11, <1>12, <1>13 DEF s

\* Objects in use on a page are finitely many, fewer than fit in a count.
LEMMA PageBound ==
    ASSUME NEW p \in Nat, NEW A \in SUBSET Nat, \A a \in A : PageOf(a) = p
    PROVE  IsFiniteSet(A) /\ Cardinality(A) \in 0 .. PAGE_SIZE
<1>1. PICK b \in Nat, m \in Nat : b = p * PAGE_SIZE /\ m = PAGE_SIZE
  BY PageSize
<1>2. IsFiniteSet(b .. b + m - 1) /\ Cardinality(b .. b + m - 1) = m
  BY SMTT(30), <1>1, FS_Interval
<1>3. A \in SUBSET (b .. b + m - 1)
  BY <1>1, Addresses
<1>4. IsFiniteSet(A) /\ Cardinality(A) <= m
  BY <1>2, <1>3, FS_Subset
<1> QED  BY <1>1, <1>4, FS_CardinalityType

-----------------------------------------------------------------------------
(* Lists.                                                                   *)

\* The first element of a sequence and the rest of it.
LEMMA Uncons ==
    ASSUME NEW S, NEW s \in Seq(S), s # <<>>
    PROVE  /\ Head(s) = s[1] /\ Head(s) \in S /\ 1 \in DOMAIN s
           /\ Len(s) \in Nat /\ 1 <= Len(s)
           /\ Tail(s) \in Seq(S) /\ DOMAIN Tail(s) = 1 .. Len(s) - 1
           /\ \A i \in 1 .. Len(s) - 1 : Tail(s)[i] = s[i + 1] /\ i + 1 \in DOMAIN s
OBVIOUS

\* A sequence with one more element at its head.
LEMMA Prepend ==
    ASSUME NEW S, NEW s \in Seq(S), NEW a \in S
    PROVE  /\ <<a>> \o s \in Seq(S) /\ Len(<<a>> \o s) = Len(s) + 1
           /\ (<<a>> \o s)[1] = a
           /\ \A i \in 2 .. Len(s) + 1 : (<<a>> \o s)[i] = s[i - 1]
           /\ ToSet(<<a>> \o s) = ToSet(s) \cup {a}
<1> DEFINE r == <<a>> \o s
<1>1. PICK n \in Nat : n = Len(s)
  OBVIOUS
<1>2. /\ r \in Seq(S) /\ DOMAIN r = 1 .. n + 1 /\ DOMAIN s = 1 .. n /\ r[1] = a
      /\ \A i \in 2 .. n + 1 : r[i] = s[i - 1]
  BY <1>1
<1> HIDE DEF r
<1>3. \A i \in 1 .. n : r[i + 1] = s[i] /\ i + 1 \in 1 .. n + 1
  BY <1>2
<1>4. ToSet(r) \subseteq ToSet(s) \cup {a}
  <2>1. ASSUME NEW i \in 1 .. n + 1  PROVE r[i] \in ToSet(s) \cup {a}
    <3>1. CASE i = 1
      BY <1>2, <3>1
    <3>2. CASE i # 1
      <4>1. i - 1 \in 1 .. n /\ r[i] = s[i - 1]
        BY <1>2, <3>2
      <4> QED  BY <1>2, <4>1 DEF ToSet
    <3> QED  BY <3>1, <3>2
  <2> QED  BY <1>2, <2>1 DEF ToSet
<1>5. ToSet(s) \cup {a} \subseteq ToSet(r)
  <2>1. a \in ToSet(r)
    BY <1>2 DEF ToSet
  <2>2. \A i \in 1 .. n : s[i] \in ToSet(r)
    BY <1>2, <1>3 DEF ToSet
  <2> QED  BY <1>2, <2>1, <2>2 DEF ToSet
<1>6. ToSet(r) = ToSet(s) \cup {a}
  BY <1>4, <1>5
<1>7. Len(r) = Len(s) + 1
  BY <1>1, <1>2
<1>8. \A i \in 2 .. Len(s) + 1 : r[i] = s[i - 1]
  BY <1>1, <1>2
<1> QED  BY <1>2, <1>6, <1>7, <1>8 DEF r

\* The last element of a sequence and what is before it.
LEMMA Ends ==
    ASSUME NEW S, NEW s \in Seq(S), s # <<>>
    PROVE  /\ Last(s) = s[Len(s)] /\ Last(s) \in S /\ Len(s) \in DOMAIN s
           /\ Len(s) \in Nat /\ 1 <= Len(s)
           /\ Front(s) \in Seq(S) /\ DOMAIN Front(s) = 1 .. Len(s) - 1
           /\ \A i \in 1 .. Len(s) - 1 : Front(s)[i] = s[i] /\ i \in DOMAIN s
<1>1. PICK n \in Nat : n = Len(s) /\ 1 <= n /\ DOMAIN s = 1 .. n
  OBVIOUS
<1>2. \A k \in 1 .. n - 1 : s[k] \in S
  BY <1>1, ElementOfSeq
<1>3. PICK r : r = SubSeq(s, 1, n - 1)
  OBVIOUS
<1>4. /\ r \in Seq(S) /\ Len(r) = n - 1
      /\ \A k \in 1 .. n - 1 : r[k] = s[k]
  BY <1>1, <1>2, <1>3, SubSeqProperties
<1>5. DOMAIN r = 1 .. n - 1
  BY <1>1, <1>4
<1> QED  BY <1>1, <1>3, <1>4, <1>5, ElementOfSeq DEF Last, Front

\* What is left of a list without repetitions after its head is taken.
LEMMA TailApart ==
    ASSUME NEW S, NEW s \in Seq(S), s # <<>>, IsInjective(s)
    PROVE  /\ IsInjective(Tail(s)) /\ ToSet(Tail(s)) = ToSet(s) \ {Head(s)}
           /\ Head(s) \in ToSet(s)
<1>1. PICK n \in Nat : n = Len(s) /\ 1 <= n /\ DOMAIN s = 1 .. n
  BY Uncons
<1>2. PICK r \in Seq(S) : r = Tail(s)
  BY Uncons
<1>3. /\ Head(s) = s[1] /\ DOMAIN r = 1 .. n - 1
      /\ \A i \in 1 .. n - 1 : r[i] = s[i + 1]
  BY <1>1, <1>2, Uncons
<1>4. IsInjective(r)
  <2>1. \A i, j \in 1 .. n - 1 : s[i + 1] = s[j + 1] => i = j
    BY <1>1 DEF IsInjective
  <2> QED  BY <1>3, <2>1 DEF IsInjective
<1>5. s[1] \in ToSet(s) /\ s[1] \notin ToSet(r)
  <2>1. \A i \in 1 .. n - 1 : s[i + 1] # s[1]
    BY <1>1 DEF IsInjective
  <2> QED  BY <1>1, <1>3, <2>1 DEF ToSet
<1>6. \A x \in ToSet(r) : x \in ToSet(s)
  <2>1. \A i \in 1 .. n - 1 : s[i + 1] \in ToSet(s)
    BY <1>1 DEF ToSet
  <2> QED  BY <1>3, <2>1 DEF ToSet
<1>7. \A x \in ToSet(s) : x = s[1] \/ x \in ToSet(r)
  <2>1. ASSUME NEW i \in 1 .. n, i # 1  PROVE s[i] \in ToSet(r)
    <3>1. i - 1 \in 1 .. n - 1 /\ (i - 1) + 1 = i
      BY <2>1
    <3> QED  BY <1>3, <3>1 DEF ToSet
  <2> QED  BY <1>1, <2>1 DEF ToSet
<1>8. ToSet(r) = ToSet(s) \ {s[1]}
  BY <1>5, <1>6, <1>7
<1> QED  BY <1>2, <1>3, <1>4, <1>5, <1>8

\* A list without repetitions stays one when something new is put in front.
LEMMA PrependApart ==
    ASSUME NEW S, NEW s \in Seq(S), IsInjective(s), NEW a \in S, a \notin ToSet(s)
    PROVE  /\ <<a>> \o s \in Seq(S) /\ IsInjective(<<a>> \o s)
           /\ ToSet(<<a>> \o s) = ToSet(s) \cup {a}
<1> DEFINE r == <<a>> \o s
<1>1. PICK n \in Nat : n = Len(s) /\ DOMAIN s = 1 .. n
  OBVIOUS
<1>2. /\ r \in Seq(S) /\ DOMAIN r = 1 .. n + 1 /\ r[1] = a
      /\ \A i \in 2 .. n + 1 : r[i] = s[i - 1]
      /\ ToSet(r) = ToSet(s) \cup {a}
  <2>1. /\ r \in Seq(S) /\ Len(r) = Len(s) + 1
        /\ r[1] = a /\ \A i \in 2 .. Len(s) + 1 : r[i] = s[i - 1]
        /\ ToSet(r) = ToSet(s) \cup {a}
    BY Prepend
  <2> HIDE DEF r
  <2>2. DOMAIN r = 1 .. Len(r)
    BY <2>1
  <2> QED  BY <1>1, <2>1, <2>2
<1> HIDE DEF r
<1>3. \A i \in 1 .. n : s[i] # a
  BY <1>1 DEF ToSet
<1>4. \A i \in 2 .. n + 1 : i - 1 \in 1 .. n
  OBVIOUS
<1>5. \A i, j \in 2 .. n + 1 : s[i - 1] = s[j - 1] => i - 1 = j - 1
  BY <1>1, <1>4 DEF IsInjective
<1>6. ASSUME NEW i \in 1 .. n + 1, NEW j \in 1 .. n + 1, r[i] = r[j]  PROVE i = j
  <2>1. ASSUME NEW k \in 1 .. n + 1, k # 1
        PROVE  k \in 2 .. n + 1 /\ k - 1 \in 1 .. n /\ r[k] = s[k - 1] /\ r[k] # a
    <3>1. k \in 2 .. n + 1 /\ k - 1 \in 1 .. n
      BY <2>1
    <3>2. r[k] = s[k - 1]
      BY <1>2, <3>1
    <3>3. s[k - 1] # a
      BY <1>3, <3>1
    <3> QED  BY <3>1, <3>2, <3>3
  <2>2. CASE i # 1 /\ j # 1
    <3>1. s[i - 1] = s[j - 1] /\ i \in 2 .. n + 1 /\ j \in 2 .. n + 1
      BY <1>6, <2>1, <2>2
    <3>2. i - 1 = j - 1
      BY <1>5, <3>1
    <3> QED  BY <3>2
  <2> QED  BY <1>2, <1>6, <2>1, <2>2
<1>7. IsInjective(r)
  BY <1>2, <1>6 DEF IsInjective
<1> QED  BY <1>2, <1>7 DEF r

\* The new descriptor goes right after the head.
LEMMA SecondApart ==
    ASSUME NEW S, NEW s \in Seq(S), s # <<>>, IsInjective(s), NEW a \in S, a \notin ToSet(s)
    PROVE  /\ <<Head(s), a>> \o Tail(s) \in Seq(S) /\ IsInjective(<<Head(s), a>> \o Tail(s))
           /\ ToSet(<<Head(s), a>> \o Tail(s)) = ToSet(s) \cup {a}
<1>1. /\ IsInjective(Tail(s)) /\ ToSet(Tail(s)) = ToSet(s) \ {Head(s)}
      /\ Head(s) \in ToSet(s) /\ Head(s) \in S /\ Tail(s) \in Seq(S)
  BY TailApart, Uncons
<1>2. PICK u : u = <<a>> \o Tail(s)
  OBVIOUS
<1>3. a \notin ToSet(Tail(s))
  BY <1>1
<1>4. u \in Seq(S) /\ IsInjective(u) /\ ToSet(u) = ToSet(Tail(s)) \cup {a}
  BY ZenonT(40), <1>1, <1>2, <1>3, PrependApart
<1>5. <<Head(s), a>> \o Tail(s) = <<Head(s)>> \o u
  <2>1. <<Head(s), a>> = <<Head(s)>> \o <<a>>
    OBVIOUS
  <2>2. <<Head(s)>> \in Seq(S) /\ <<a>> \in Seq(S)
    BY <1>1
  <2> QED  BY <1>1, <1>2, <2>1, <2>2, ConcatAssociative
<1>6. Head(s) \notin ToSet(u)
  BY <1>1, <1>4
<1>7. /\ <<Head(s)>> \o u \in Seq(S) /\ IsInjective(<<Head(s)>> \o u)
      /\ ToSet(<<Head(s)>> \o u) = ToSet(u) \cup {Head(s)}
  BY <1>1, <1>4, <1>6, PrependApart
<1>8. ToSet(u) \cup {Head(s)} = ToSet(s) \cup {a}
  BY <1>1, <1>4
<1> QED  BY <1>5, <1>7, <1>8

\* Unlinked takes the descriptor after the i-th out of the circular list.
LEMMA UnlinkNext ==
    ASSUME NEW S, NEW s \in Seq(S), IsInjective(s), NEW i \in DOMAIN s, Len(s) # 1,
           NEW x, x = s[IF i = Len(s) THEN 1 ELSE i + 1]
    PROVE  /\ x \in ToSet(s) /\ x # s[i]
           /\ Unlinked(s, i) \in Seq(S) /\ IsInjective(Unlinked(s, i))
           /\ ToSet(Unlinked(s, i)) = ToSet(s) \ {x}
<1>1. PICK n \in Nat : n = Len(s) /\ DOMAIN s = 1 .. n /\ 2 <= n
  <2>1. PICK n \in Nat : n = Len(s) /\ DOMAIN s = 1 .. n
    OBVIOUS
  <2> QED  BY <2>1
<1>2. \A k \in 1 .. n : s[k] \in S
  BY <1>1, ElementOfSeq
<1>3. PICK y \in 1 .. n : x = s[y] /\ y # i /\ y = IF i = n THEN 1 ELSE i + 1
  BY <1>1
<1>4. x \in ToSet(s) /\ x # s[i]
  BY <1>1, <1>3 DEF ToSet, IsInjective
<1>5. PICK r : r = Unlinked(s, i)
  OBVIOUS
<1> DEFINE old(k) == IF i = n THEN IF k = 1 THEN n ELSE k
                     ELSE IF k <= i THEN k ELSE k + 1
<1>6. /\ r \in Seq(S) /\ DOMAIN r = 1 .. n - 1
      /\ \A k \in 1 .. n - 1 : r[k] = s[old(k)]
  <2>1. CASE i = n
    <3>1. PICK u : u = Front(s)
      OBVIOUS
    <3>2. u \in Seq(S) /\ DOMAIN u = 1 .. n - 1 /\ \A k \in 1 .. n - 1 : u[k] = s[k]
      BY <1>1, <3>1, Ends
    <3>3. Len(u) = n - 1 /\ u # <<>>
      BY <1>1, <3>2
    <3>4. PICK v : v = Tail(u)
      OBVIOUS
    <3>5. /\ v \in Seq(S) /\ DOMAIN v = 1 .. (n - 1) - 1
          /\ \A k \in 1 .. (n - 1) - 1 : v[k] = u[k + 1]
      BY <3>2, <3>3, <3>4, Uncons
    <3>6. r = <<s[n]>> \o v /\ Len(v) = n - 2
      BY <1>1, <1>5, <2>1, <3>1, <3>4, <3>5 DEF Unlinked
    <3>7. /\ r \in Seq(S) /\ Len(r) = (n - 2) + 1 /\ r[1] = s[n]
          /\ \A k \in 2 .. (n - 2) + 1 : r[k] = v[k - 1]
      BY <1>1, <1>2, <3>5, <3>6, Prepend
    <3>8. ASSUME NEW k \in 2 .. n - 1  PROVE r[k] = s[k]
      <4>1. k \in 2 .. (n - 2) + 1 /\ k - 1 \in 1 .. (n - 1) - 1 /\ (k - 1) + 1 = k
        BY <1>1
      <4>2. r[k] = v[k - 1]
        BY <3>7, <4>1
      <4>3. v[k - 1] = u[k]
        BY <3>5, <4>1
      <4> QED  BY <3>2, <4>2, <4>3
    <3>9. DOMAIN r = 1 .. n - 1
      BY <1>1, <3>7
    <3> QED  BY <1>1, <2>1, <3>7, <3>8, <3>9
  <2>2. CASE i # n
    <3>1. i + 1 \in 1 .. n
      BY <1>1, <2>2
    <3>2. PICK u, v : u = SubSeq(s, 1, (i + 1) - 1) /\ v = SubSeq(s, i + 2, n)
      OBVIOUS
    <3>3. u \in Seq(S) /\ Len(u) = i /\ \A k \in 1 .. i : u[k] = s[k]
      <4>1. \A k \in 1 .. i : s[k] \in S
        BY <1>1, <1>2, <3>1
      <4>2. (i + 1) - 1 = i /\ i \in Nat
        BY <1>1
      <4> QED  BY <3>1, <3>2, <4>1, <4>2, SubSeqProperties
    <3>4. v \in Seq(S) /\ Len(v) = n - i - 1 /\ \A k \in 1 .. n - i - 1 : v[k] = s[i + 1 + k]
      <4>1. \A k \in i + 2 .. n : s[k] \in S
        BY <1>1, <1>2
      <4>2. i + 2 \in Int /\ i + 2 \in 1 .. n + 1
        BY <1>1, <3>1
      <4>3. /\ v \in Seq(S)
            /\ Len(v) = IF i + 2 <= n THEN n - (i + 2) + 1 ELSE 0
            /\ \A k \in 1 .. n - (i + 2) + 1 : v[k] = s[(i + 2) + k - 1]
        BY <3>2, <4>1, <4>2, SubSeqProperties
      <4>4. /\ n - (i + 2) + 1 = n - i - 1
            /\ ~(i + 2 <= n) => n - i - 1 = 0
            /\ \A k \in 1 .. n - i - 1 : (i + 2) + k - 1 = i + 1 + k
        BY <1>1, <3>1
      <4> QED  BY <4>3, <4>4
    <3>5. r = u \o v
      <4>1. (i + 1) + 1 = i + 2
        BY <1>1
      <4> QED  BY <1>1, <1>5, <2>2, <3>2, <4>1 DEF Unlinked, RemoveAt
    <3>6. /\ u \o v \in Seq(S)
          /\ Len(u \o v) = Len(u) + Len(v)
          /\ \A k \in 1 .. Len(u) + Len(v) :
               (u \o v)[k] = IF k <= Len(u) THEN u[k] ELSE v[k - Len(u)]
      BY ZenonT(40), <3>3, <3>4, ConcatProperties
    <3>7. i + (n - i - 1) = n - 1
      BY <1>1
    <3>8. /\ r \in Seq(S) /\ Len(r) = n - 1
          /\ \A k \in 1 .. n - 1 : r[k] = IF k <= i THEN u[k] ELSE v[k - i]
      BY <3>3, <3>4, <3>5, <3>6, <3>7
    <3>9. ASSUME NEW k \in 1 .. n - 1  PROVE r[k] = s[old(k)]
      <4>1. k <= i => k \in 1 .. i
        BY <1>1
      <4>2. ~(k <= i) => k - i \in 1 .. n - i - 1 /\ i + 1 + (k - i) = k + 1
        BY <1>1
      <4> QED  BY <2>2, <3>3, <3>4, <3>8, <4>1, <4>2
    <3>10. DOMAIN r = 1 .. n - 1
      BY <1>1, <3>8
    <3> QED  BY <3>8, <3>9, <3>10
  <2> QED  BY <2>1, <2>2
<1>7. \A k \in 1 .. n - 1 : old(k) \in 1 .. n /\ old(k) # y
  BY <1>1, <1>3
<1>8. \A k, l \in 1 .. n - 1 : old(k) = old(l) => k = l
  BY <1>1
<1>9. \A z \in 1 .. n : z # y => \E k \in 1 .. n - 1 : old(k) = z
  <2>1. ASSUME NEW z \in 1 .. n, z # y  PROVE \E k \in 1 .. n - 1 : old(k) = z
    <3>1. CASE i = n /\ z = n
      <4>1. 1 \in 1 .. n - 1 /\ old(1) = z
        BY <1>1, <3>1
      <4> QED  BY <4>1
    <3>2. CASE i = n /\ z # n
      <4>1. z \in 1 .. n - 1 /\ old(z) = z
        BY <1>1, <1>3, <2>1, <3>2
      <4> QED  BY <4>1
    <3>3. CASE i # n /\ z <= i
      <4>1. z \in 1 .. n - 1 /\ old(z) = z
        BY <1>1, <3>3
      <4> QED  BY <4>1
    <3>4. CASE i # n /\ ~(z <= i)
      <4>1. z - 1 \in 1 .. n - 1 /\ old(z - 1) = z
        BY <1>1, <1>3, <2>1, <3>4
      <4> QED  BY <4>1
    <3> QED  BY <3>1, <3>2, <3>3, <3>4
  <2> QED  BY <2>1
<1> HIDE DEF old
<1>10. IsInjective(r)
  BY SMTT(30), <1>1, <1>6, <1>7, <1>8 DEF IsInjective
<1>11. ToSet(r) = ToSet(s) \ {x}
  <2>1. \A k \in 1 .. n - 1 : r[k] \in ToSet(s) /\ r[k] # x
    BY <1>1, <1>3, <1>6, <1>7 DEF ToSet, IsInjective
  <2>2. \A z \in 1 .. n : s[z] # x => s[z] \in ToSet(r)
    BY <1>3, <1>6, <1>9 DEF ToSet
  <2>3. ToSet(r) \subseteq ToSet(s) \ {x}
    BY <1>6, <2>1 DEF ToSet
  <2>4. ToSet(s) \ {x} \subseteq ToSet(r)
    BY <1>1, <2>2 DEF ToSet
  <2> QED  BY <2>3, <2>4
<1> QED  BY <1>4, <1>5, <1>6, <1>10, <1>11

\* The descriptors of a page, and no others.
LEMMA DescsOfPage ==
    ASSUME NEW g \in Frames
    PROVE  /\ DescsOf(g) \in Seq(Descs) /\ DescsOf(g) # <<>> /\ IsInjective(DescsOf(g))
           /\ ToSet(DescsOf(g)) = {<<g, i>> : i \in 1 .. PerPage}
<1>1. PICK n \in Nat : n = PerPage /\ 1 <= n
  BY PageSize
<1>2. PICK s : s = DescsOf(g)
  OBVIOUS
<1>3. s = [i \in 1 .. n |-> <<g, i>>]
  BY <1>1, <1>2 DEF DescsOf
<1>4. \A i \in 1 .. n : <<g, i>> \in Descs
  BY <1>1 DEF Descs
<1>5. s \in Seq(Descs) /\ Len(s) = n /\ DOMAIN s = 1 .. n
  BY <1>3, <1>4
<1>6. IsInjective(s)
  <2>1. \A i, j \in 1 .. n : <<g, i>> = <<g, j>> => i = j
    OBVIOUS
  <2> QED  BY <1>3, <2>1 DEF IsInjective
<1>7. ToSet(s) = {<<g, i>> : i \in 1 .. n}
  BY <1>3 DEF ToSet
<1> QED  BY <1>1, <1>2, <1>5, <1>6, <1>7

\* What is left of a list without repetitions after its last element is taken.
LEMMA FrontApart ==
    ASSUME NEW S, NEW s \in Seq(S), s # <<>>, IsInjective(s)
    PROVE  /\ IsInjective(Front(s)) /\ ToSet(Front(s)) = ToSet(s) \ {Last(s)}
           /\ Last(s) \in ToSet(s)
<1>1. PICK n \in Nat : n = Len(s) /\ 1 <= n /\ DOMAIN s = 1 .. n
  BY Ends
<1>2. PICK r \in Seq(S) : r = Front(s)
  BY Ends
<1>3. /\ Last(s) = s[n] /\ DOMAIN r = 1 .. n - 1
      /\ \A i \in 1 .. n - 1 : r[i] = s[i]
  BY <1>1, <1>2, Ends
<1>4. IsInjective(r)
  BY <1>1, <1>3 DEF IsInjective
<1>5. s[n] \in ToSet(s) /\ s[n] \notin ToSet(r)
  <2>1. \A i \in 1 .. n - 1 : s[i] # s[n]
    BY <1>1 DEF IsInjective
  <2> QED  BY <1>1, <1>3, <2>1 DEF ToSet
<1>6. \A x \in ToSet(r) : x \in ToSet(s)
  BY <1>1, <1>3 DEF ToSet
<1>7. \A x \in ToSet(s) : x = s[n] \/ x \in ToSet(r)
  <2>1. ASSUME NEW i \in 1 .. n, i # n  PROVE s[i] \in ToSet(r)
    <3>1. i \in 1 .. n - 1
      BY <2>1
    <3> QED  BY <1>3, <3>1 DEF ToSet
  <2> QED  BY <1>1, <2>1 DEF ToSet
<1>8. ToSet(r) = ToSet(s) \ {s[n]}
  BY <1>5, <1>6, <1>7
<1> QED  BY <1>2, <1>3, <1>4, <1>5, <1>8

\* The elements of a list.
LEMMA Elements ==
    ASSUME NEW S, NEW s \in Seq(S)
    PROVE  /\ \A x \in ToSet(s) : x \in S
           /\ \A i \in DOMAIN s : s[i] \in ToSet(s) /\ i \in Nat
           /\ s # <<>> => Head(s) \in ToSet(s)
<1>1. \A i \in DOMAIN s : s[i] \in S /\ i \in Nat
  BY ElementOfSeq
<1>2. s # <<>> => 1 \in DOMAIN s /\ Head(s) = s[1]
  BY Uncons
<1> QED  BY <1>1, <1>2 DEF ToSet

-----------------------------------------------------------------------------
(* The objects in use.                                                      *)

\* At first nobody has an object.
LEMMA InitUnused == Init => Used = {} /\ Apart
<1> SUFFICES ASSUME Init  PROVE Used = {} /\ Apart
  OBVIOUS
<1>1. \A c \in Classes : cache[c] = <<>> /\ ToSet(cache[c]) = {}
  BY DEF Init, ToSet
<1>2. Freers = {}
  BY DEF Init, Freers, Idle
<1>3. daemon.at # "put" /\ \A t \in Threads : held[t] = {}
  BY DEF Init
<1>4. \A c \in Classes : IsInjective(cache[c])
  BY <1>1 DEF IsInjective
<1>5. Used = {}
  BY <1>1, <1>2, <1>3 DEF Used, Uses
<1> QED  BY <1>1, <1>2, <1>3, <1>4, <1>5 DEF Apart

\* An object in use is known by its page.
LEMMA UsedMember ==
    ASSUME NEW a \in Nat, NEW c \in Classes, Uses(a, c)
    PROVE  <<a, c>> \in Used /\ a \in UsedOn(PageOf(a))
<1>1. <<a, c>> \in Used
  BY DEF Used
<1>2. <<a, c>>[1] = a
  OBVIOUS
<1> QED  BY <1>1, <1>2 DEF UsedOn

\* What is in use on a page are finitely many of its objects.
LEMMA UsedBound ==
    ASSUME NEW p \in Nat
    PROVE  /\ UsedOn(p) \in SUBSET Nat /\ IsFiniteSet(UsedOn(p))
           /\ Cardinality(UsedOn(p)) \in 0 .. PAGE_SIZE
           /\ \A a \in UsedOn(p) : PageOf(a) = p /\ \E c \in Classes : Uses(a, c)
<1>1. \A a \in UsedOn(p) : a \in Nat /\ PageOf(a) = p /\ \E c \in Classes : Uses(a, c)
  BY DEF UsedOn, Used
<1> QED  BY <1>1, PageBound

\* Nothing but the objects in use matters to the pages.
LEMMA SameMemory ==
    ASSUME Memory, Used' = Used, UNCHANGED <<chain, desc, spare, owner, free>>
    PROVE  Memory'
<1>1. \A p : UsedOn(p)' = UsedOn(p)
  BY DEF UsedOn, PageOf
<1>2. \A d, c : Described(d, c)' <=> Described(d, c)
  BY ZenonT(40), <1>1 DEF Described, ObjectsOf
<1>3. ChainsDescribe'
  BY <1>2 DEF ChainsDescribe, Memory
<1>4. UsedDescribed'
  BY DEF UsedDescribed, Memory, ObjectsOf, PageOf
<1>5. Tables' = Tables /\ Chained' = Chained
  BY DEF Tables, Chained
<1>6. DescsApart' /\ FramesApart'
  BY <1>5 DEF DescsApart, FramesApart, Memory
<1> QED  BY <1>3, <1>4, <1>6 DEF Memory

\* An object that nobody uses is handed out.
LEMMA Granted ==
    ASSUME TypeOK, Apart, NEW t \in Threads, NEW a \in Nat, NEW c \in Classes,
           call[t].at = "bucket", \A e \in Classes : ~Uses(a, e),
           held' = [held EXCEPT ![t] = @ \cup {<<a, c>>}],
           call' = [call EXCEPT ![t] = Idle], UNCHANGED <<cache, daemon>>
    PROVE  Apart' /\ Used' = Used \cup {<<a, c>>}
<1>1. \A u \in Threads : held'[u] = IF u = t THEN held[u] \cup {<<a, c>>} ELSE held[u]
  BY DEF TypeOK
<1>2. Freers' = Freers /\ \A u \in Freers : call'[u] = call[u] /\ u \in Threads
  BY DEF TypeOK, Freers, Idle
<1>3. /\ \A u \in Threads : \A b \in held[u] : b[1] # a /\ b \in Nat \X Classes
      /\ \A u \in Freers : call[u].obj # a
      /\ \A e \in Classes : a \notin ToSet(cache[e])
      /\ daemon.at = "put" => daemon.obj # a
  <2>1. ASSUME NEW u \in Threads, NEW b \in held[u]  PROVE b[1] # a /\ b \in Nat \X Classes
    <3>1. b \in Nat \X Classes
      BY DEF TypeOK
    <3>2. b = <<b[1], b[2]>> /\ b[2] \in Classes
      BY <3>1
    <3> QED  BY <3>1, <3>2 DEF Uses
  <2>2. ASSUME NEW u \in Freers  PROVE call[u].obj # a
    <3>1. call[u].c \in Classes
      BY DEF Freers, TypeOK
    <3> QED  BY <3>1 DEF Uses
  <2>3. daemon.c \in Classes
    BY DEF TypeOK
  <2> QED  BY <2>1, <2>2, <2>3 DEF Uses
<1>4. \A u \in Threads : \A b \in held'[u] :
        b \in held[u] \/ (u = t /\ b[1] = a /\ b[2] = c)
  BY <1>1
<1>5. Apart'
  <2>1. \A r, u \in Threads : \A b \in held'[r], e \in held'[u] : b[1] = e[1] => b = e /\ r = u
    BY <1>1, <1>3 DEF Apart
  <2>2. \A r, u \in Freers' : call'[r].obj = call'[u].obj => r = u
    BY <1>2 DEF Apart
  <2>3. \A u \in Threads : \A b \in held'[u] :
         /\ \A r \in Freers' : call'[r].obj # b[1]
         /\ \A e \in Classes : b[1] \notin ToSet(cache[e])
         /\ daemon.at = "put" => daemon.obj # b[1]
    BY <1>2, <1>3, <1>4 DEF Apart
  <2>4. \A u \in Freers' :
         /\ \A e \in Classes : call'[u].obj \notin ToSet(cache[e])
         /\ daemon.at = "put" => daemon.obj # call'[u].obj
    BY <1>2 DEF Apart
  <2> QED  BY <2>1, <2>2, <2>3, <2>4 DEF Apart
<1>6. \A x \in Nat, e \in Classes : Uses(x, e)' <=> Uses(x, e) \/ (x = a /\ e = c)
  <2>1. ASSUME NEW x \in Nat, NEW e \in Classes, Uses(x, e)'
        PROVE  Uses(x, e) \/ (x = a /\ e = c)
    <3>1. CASE \E u \in Threads : <<x, e>> \in held'[u]
      BY <1>1, <3>1 DEF Uses
    <3>2. CASE \E u \in Freers' : call'[u].obj = x /\ call'[u].c = e
      BY <1>2, <3>2 DEF Uses
    <3>3. CASE x \in ToSet(cache[e]) \/ (daemon.at = "put" /\ daemon.obj = x /\ daemon.c = e)
      BY <3>3 DEF Uses
    <3> QED  BY <2>1, <3>1, <3>2, <3>3 DEF Uses
  <2>2. ASSUME NEW x \in Nat, NEW e \in Classes, Uses(x, e)
        PROVE  Uses(x, e)'
    <3>1. CASE \E u \in Threads : <<x, e>> \in held[u]
      BY <1>1, <3>1 DEF Uses
    <3>2. CASE \E u \in Freers : call[u].obj = x /\ call[u].c = e
      BY <1>2, <3>2 DEF Uses
    <3>3. CASE x \in ToSet(cache[e]) \/ (daemon.at = "put" /\ daemon.obj = x /\ daemon.c = e)
      BY <3>3 DEF Uses
    <3> QED  BY <2>2, <3>1, <3>2, <3>3 DEF Uses
  <2>3. Uses(a, c)'
    <3>1. <<a, c>> \in held'[t]
      BY <1>1
    <3> QED  BY <3>1 DEF Uses
  <2> QED  BY <2>1, <2>2, <2>3
<1>7. Used' = Used \cup {<<a, c>>}
  BY <1>6 DEF Used
<1> QED  BY <1>5, <1>7

\* An object in use that is not what an action moves stays where it is.
LEMMA SameUsed ==
    ASSUME \A x \in Nat, e \in Classes : Uses(x, e)' <=> Uses(x, e)
    PROVE  Used' = Used
BY DEF Used

\* The head of a cache is handed out.
LEMMA CacheHit ==
    ASSUME TypeOK, Apart, NEW t \in Threads, NEW c \in Classes, NEW a \in Nat, NEW q \in Seq(Nat),
           a \in ToSet(cache[c]), IsInjective(q), ToSet(q) = ToSet(cache[c]) \ {a},
           held' = [held EXCEPT ![t] = @ \cup {<<a, c>>}],
           cache' = [cache EXCEPT ![c] = q], UNCHANGED <<call, daemon>>
    PROVE  Apart' /\ Used' = Used /\ cache' \in [Classes -> Seq(Nat)]
<1>3. /\ \A e \in Classes : ToSet(cache'[e]) = IF e = c THEN ToSet(cache[e]) \ {a}
                                                ELSE ToSet(cache[e])
      /\ \A e \in Classes : IsInjective(cache'[e])
      /\ cache' \in [Classes -> Seq(Nat)]
  BY DEF TypeOK, Apart
<1>4. \A u \in Threads : held'[u] = IF u = t THEN held[u] \cup {<<a, c>>} ELSE held[u]
  BY DEF TypeOK
<1>5. Freers' = Freers /\ daemon' = daemon /\ call' = call
  BY DEF Freers
<1>6. \A u \in Threads : \A b \in held'[u] :
        b \in held[u] \/ (u = t /\ b[1] = a /\ b[2] = c)
  BY <1>4
<1>7. /\ \A u \in Threads : \A b \in held[u] : b[1] # a
      /\ \A u \in Freers : call[u].obj # a
      /\ daemon.at = "put" => daemon.obj # a
      /\ \A e \in Classes : e # c => a \notin ToSet(cache[e])
  <2>1. \A u \in Threads : \A b \in held[u] : b[1] # a
    BY DEF Apart
  <2>2. \A u \in Freers : call[u].obj # a
    BY DEF Apart
  <2>3. daemon.at = "put" => daemon.obj # a
    BY DEF Apart
  <2>4. \A e \in Classes : e # c => a \notin ToSet(cache[e])
    BY DEF Apart
  <2> QED  BY <2>1, <2>2, <2>3, <2>4
<1>8. Apart'
  <2>1. \A r, u \in Threads : \A b \in held'[r], e \in held'[u] : b[1] = e[1] => b = e /\ r = u
    BY <1>4, <1>7 DEF Apart
  <2>2. \A r, u \in Freers' : call'[r].obj = call'[u].obj => r = u
    BY <1>5 DEF Apart
  <2>3. \A u \in Threads : \A b \in held'[u] :
         /\ \A r \in Freers' : call'[r].obj # b[1]
         /\ \A e \in Classes : b[1] \notin ToSet(cache'[e])
         /\ daemon'.at = "put" => daemon'.obj # b[1]
    BY <1>3, <1>5, <1>6, <1>7 DEF Apart
  <2>4. \A u \in Freers' :
         /\ \A e \in Classes : call'[u].obj \notin ToSet(cache'[e])
         /\ daemon'.at = "put" => daemon'.obj # call'[u].obj
    BY <1>3, <1>5 DEF Apart
  <2>5. \A i, e \in Classes : \A x \in ToSet(cache'[i]) : x \in ToSet(cache'[e]) => i = e
    BY <1>3 DEF Apart
  <2>6. \A e \in Classes : daemon'.at = "put" => daemon'.obj \notin ToSet(cache'[e])
    BY <1>3, <1>5 DEF Apart
  <2> QED  BY <1>3, <2>1, <2>2, <2>3, <2>4, <2>5, <2>6 DEF Apart
<1>9. ASSUME NEW x \in Nat, NEW e \in Classes, Uses(x, e)'
      PROVE  Uses(x, e)
  <2>1. CASE \E u \in Threads : <<x, e>> \in held'[u]
    <3>1. PICK u \in Threads : <<x, e>> \in held'[u]
      BY <2>1
    <3>2. <<x, e>> \in held[u] \/ (x = a /\ e = c)
      BY <1>4, <3>1
    <3> QED  BY <3>2 DEF Uses
  <2>2. CASE \E u \in Freers' : call'[u].obj = x /\ call'[u].c = e
    BY <1>5, <2>2 DEF Uses
  <2>3. CASE x \in ToSet(cache'[e])
    BY <1>3, <2>3 DEF Uses
  <2>4. CASE daemon.at = "put" /\ daemon.obj = x /\ daemon.c = e
    BY <2>4 DEF Uses
  <2> QED  BY <1>5, <1>9, <2>1, <2>2, <2>3, <2>4 DEF Uses
<1>10. ASSUME NEW x \in Nat, NEW e \in Classes, Uses(x, e)
       PROVE  Uses(x, e)'
  <2>1. CASE \E u \in Threads : <<x, e>> \in held[u]
    BY <1>4, <2>1 DEF Uses
  <2>2. CASE \E u \in Freers : call[u].obj = x /\ call[u].c = e
    BY <1>5, <2>2 DEF Uses
  <2>3. CASE x \in ToSet(cache[e])
    <3>1. x \in ToSet(cache'[e]) \/ (x = a /\ e = c)
      BY <1>3, <2>3
    <3>2. held'[t] = held[t] \cup {<<a, c>>}
      BY <1>4
    <3>3. <<a, c>> \in held'[t]
      BY <3>2, Zenon
    <3> QED  BY <3>1, <3>3 DEF Uses
  <2>4. CASE daemon.at = "put" /\ daemon.obj = x /\ daemon.c = e
    BY <1>5, <2>4 DEF Uses
  <2> QED  BY <1>10, <2>1, <2>2, <2>3, <2>4 DEF Uses
<1> QED  BY <1>3, <1>8, <1>9, <1>10, SameUsed

\* kfree has an object and the thread does not.
LEMMA Returned ==
    ASSUME TypeOK, Apart, NEW t \in Threads, NEW a \in Nat, NEW c \in Classes, NEW k,
           k.obj = a, k.c = c, k.at = "size", call[t].at = "idle", <<a, c>> \in held[t],
           held' = [held EXCEPT ![t] = @ \ {<<a, c>>}],
           call' = [call EXCEPT ![t] = k], UNCHANGED <<cache, daemon>>
    PROVE  Apart' /\ Used' = Used
<1>1. \A u \in Threads : held'[u] = IF u = t THEN held[u] \ {<<a, c>>} ELSE held[u]
  BY DEF TypeOK
<1>2. \A u \in Threads : call'[u] = IF u = t THEN k ELSE call[u]
  BY DEF TypeOK
<1>3. Freers' = Freers \cup {t} /\ t \notin Freers /\ Freers \subseteq Threads
  BY <1>2 DEF Freers
<1>4. \A u \in Threads : \A b \in held'[u] : b \in held[u] /\ b # <<a, c>>
  <2>1. ASSUME NEW u \in Threads, NEW b \in held'[u]  PROVE b \in held[u] /\ b # <<a, c>>
    <3>1. CASE u = t
      BY <1>1, <3>1
    <3>2. CASE u # t
      <4>1. b \in held[u] /\ (b[1] = <<a, c>>[1] => u = t)
        BY <1>1, <3>2 DEF Apart
      <4> QED  BY <3>2, <4>1
    <3> QED  BY <3>1, <3>2
  <2> QED  BY <2>1
<1>5. /\ \A u \in Threads : \A b \in held'[u] : b[1] # a
      /\ \A u \in Freers : call[u].obj # a
      /\ daemon.at = "put" => daemon.obj # a
      /\ \A e \in Classes : a \notin ToSet(cache[e])
  <2>1. \A u \in Threads : \A b \in held'[u] : b[1] # a
    <3>1. \A u \in Threads : \A b \in held[u] : b[1] = <<a, c>>[1] => b = <<a, c>>
      BY DEF Apart
    <3> QED  BY <1>4, <3>1
  <2>2. <<a, c>>[1] = a
    OBVIOUS
  <2>3. \A u \in Freers : call[u].obj # <<a, c>>[1]
    BY DEF Apart
  <2>4. daemon.at = "put" => daemon.obj # <<a, c>>[1]
    BY DEF Apart
  <2>5. \A e \in Classes : <<a, c>>[1] \notin ToSet(cache[e])
    BY DEF Apart
  <2> QED  BY <2>1, <2>2, <2>3, <2>4, <2>5
<1>6. Apart'
  <2>1. \A r, u \in Threads : \A b \in held'[r], e \in held'[u] : b[1] = e[1] => b = e /\ r = u
    BY <1>4 DEF Apart
  <2>2. \A r, u \in Freers' : call'[r].obj = call'[u].obj => r = u
    BY <1>2, <1>3, <1>5 DEF Apart
  <2>3. \A u \in Threads : \A b \in held'[u] :
         /\ \A r \in Freers' : call'[r].obj # b[1]
         /\ \A e \in Classes : b[1] \notin ToSet(cache[e])
         /\ daemon.at = "put" => daemon.obj # b[1]
    BY <1>2, <1>3, <1>4, <1>5 DEF Apart
  <2>4. \A u \in Freers' :
         /\ \A e \in Classes : call'[u].obj \notin ToSet(cache[e])
         /\ daemon.at = "put" => daemon.obj # call'[u].obj
    BY <1>2, <1>3, <1>5 DEF Apart
  <2> QED  BY ZenonT(40), <2>1, <2>2, <2>3, <2>4 DEF Apart
<1>7. ASSUME NEW x \in Nat, NEW e \in Classes, Uses(x, e)'
      PROVE  Uses(x, e)
  <2>1. CASE \E u \in Threads : <<x, e>> \in held'[u]
    BY <1>4, <2>1 DEF Uses
  <2>2. CASE \E u \in Freers' : call'[u].obj = x /\ call'[u].c = e
    <3>1. PICK u \in Freers' : call'[u].obj = x /\ call'[u].c = e
      BY <2>2
    <3>2. CASE u = t
      <4>1. x = a /\ e = c
        BY <1>2, <3>1, <3>2
      <4> QED  BY <4>1 DEF Uses
    <3>3. CASE u # t
      BY <1>2, <1>3, <3>1, <3>3 DEF Uses
    <3> QED  BY <3>2, <3>3
  <2>3. CASE x \in ToSet(cache[e]) \/ (daemon.at = "put" /\ daemon.obj = x /\ daemon.c = e)
    BY <2>3 DEF Uses
  <2> QED  BY <1>7, <2>1, <2>2, <2>3 DEF Uses
<1>8. ASSUME NEW x \in Nat, NEW e \in Classes, Uses(x, e)
      PROVE  Uses(x, e)'
  <2>1. CASE \E u \in Threads : <<x, e>> \in held[u]
    <3>1. PICK u \in Threads : <<x, e>> \in held[u]
      BY <2>1
    <3>2. CASE x = a /\ e = c
      <4>1. t \in Freers' /\ call'[t].obj = x /\ call'[t].c = e
        BY <1>2, <1>3, <3>2
      <4> QED  BY <4>1 DEF Uses
    <3>3. CASE ~(x = a /\ e = c)
      <4>1. <<x, e>> # <<a, c>>
        BY <3>3
      <4>2. <<x, e>> \in held'[u]
        BY <1>1, <3>1, <4>1
      <4> QED  BY <4>2 DEF Uses
    <3> QED  BY <3>2, <3>3
  <2>2. CASE \E u \in Freers : call[u].obj = x /\ call[u].c = e
    <3>1. PICK u \in Freers : call[u].obj = x /\ call[u].c = e
      BY <2>2
    <3>2. u \in Freers' /\ call'[u] = call[u]
      BY <1>2, <1>3
    <3> QED  BY <3>1, <3>2 DEF Uses
  <2>3. CASE x \in ToSet(cache[e]) \/ (daemon.at = "put" /\ daemon.obj = x /\ daemon.c = e)
    BY <2>3 DEF Uses
  <2> QED  BY <1>8, <2>1, <2>2, <2>3 DEF Uses
<1> QED  BY <1>6, <1>7, <1>8, SameUsed

\* kfree knows the size.
LEMMA Sized ==
    ASSUME TypeOK, Apart, NEW t \in Threads, NEW k, call[t].at = "size", k.at = "push",
           k.obj = call[t].obj, k.c = call[t].c,
           call' = [call EXCEPT ![t] = k], UNCHANGED <<held, cache, daemon>>
    PROVE  Apart' /\ Used' = Used
<1>1. \A u \in Threads : call'[u] = IF u = t THEN k ELSE call[u]
  BY DEF TypeOK
<1>2. Freers' = Freers /\ Freers \subseteq Threads
  BY <1>1 DEF Freers
<1>3. \A u \in Freers : call'[u].obj = call[u].obj /\ call'[u].c = call[u].c
  BY <1>1, <1>2
<1>4. Apart'
  BY <1>2, <1>3 DEF Apart
<1>5. ASSUME NEW x \in Nat, NEW e \in Classes
      PROVE  Uses(x, e)' <=> Uses(x, e)
  <2>1. (\E u \in Freers' : call'[u].obj = x /\ call'[u].c = e)
          <=> (\E u \in Freers : call[u].obj = x /\ call[u].c = e)
    BY <1>2, <1>3
  <2> QED  BY <2>1 DEF Uses
<1> QED  BY <1>4, <1>5, SameUsed

\* The object goes to the front of the cache.
LEMMA Pushed ==
    ASSUME TypeOK, Apart, NEW t \in Threads, NEW c \in Classes, NEW a \in Nat, NEW q \in Seq(Nat),
           call[t].at = "push", call[t].obj = a, call[t].c = c, NEW k, k.at = "idle",
           IsInjective(q), ToSet(q) = ToSet(cache[c]) \cup {a},
           cache' = [cache EXCEPT ![c] = q],
           call' = [call EXCEPT ![t] = k], UNCHANGED <<held, daemon>>
    PROVE  Apart' /\ Used' = Used
<1>1. \A u \in Threads : call'[u] = IF u = t THEN k ELSE call[u]
  BY DEF TypeOK
<1>2. Freers' = Freers \ {t} /\ t \in Freers /\ Freers \subseteq Threads
  BY <1>1 DEF Freers
<1>3. \A u \in Freers' : call'[u] = call[u]
  BY <1>1, <1>2
<1>4. /\ \A e \in Classes : ToSet(cache'[e]) = IF e = c THEN ToSet(cache[e]) \cup {a}
                                                ELSE ToSet(cache[e])
      /\ \A e \in Classes : IsInjective(cache'[e])
  BY DEF TypeOK, Apart
<1>5. /\ \A u \in Threads : \A b \in held[u] : b[1] # a
      /\ \A u \in Freers' : call[u].obj # a
      /\ daemon.at = "put" => daemon.obj # a
      /\ \A e \in Classes : a \notin ToSet(cache[e])
  BY <1>2 DEF Apart
<1>6. Apart'
  <2>1. \A r, u \in Freers' : call'[r].obj = call'[u].obj => r = u
    BY <1>2, <1>3 DEF Apart
  <2>2. \A u \in Threads : \A b \in held[u] :
         /\ \A r \in Freers' : call'[r].obj # b[1]
         /\ \A e \in Classes : b[1] \notin ToSet(cache'[e])
         /\ daemon.at = "put" => daemon.obj # b[1]
    BY <1>2, <1>3, <1>4, <1>5 DEF Apart
  <2>3. \A u \in Freers' :
         /\ \A e \in Classes : call'[u].obj \notin ToSet(cache'[e])
         /\ daemon.at = "put" => daemon.obj # call'[u].obj
    BY <1>2, <1>3, <1>4, <1>5 DEF Apart
  <2>4. \A i, e \in Classes : \A x \in ToSet(cache'[i]) : x \in ToSet(cache'[e]) => i = e
    BY <1>4, <1>5 DEF Apart
  <2>5. \A e \in Classes : daemon.at = "put" => daemon.obj \notin ToSet(cache'[e])
    BY <1>4, <1>5 DEF Apart
  <2> QED  BY ZenonT(40), <1>4, <2>1, <2>2, <2>3, <2>4, <2>5 DEF Apart
<1>7. ASSUME NEW x \in Nat, NEW e \in Classes, Uses(x, e)'
      PROVE  Uses(x, e)
  <2>1. CASE \E u \in Freers' : call'[u].obj = x /\ call'[u].c = e
    BY <1>2, <1>3, <2>1 DEF Uses
  <2>2. CASE x \in ToSet(cache'[e])
    <3>1. x \in ToSet(cache[e]) \/ (call[t].obj = x /\ call[t].c = e)
      BY <1>4, <2>2
    <3> QED  BY <1>2, <3>1 DEF Uses
  <2>3. CASE \/ \E u \in Threads : <<x, e>> \in held[u]
             \/ daemon.at = "put" /\ daemon.obj = x /\ daemon.c = e
    BY <2>3 DEF Uses
  <2> QED  BY <1>7, <2>1, <2>2, <2>3 DEF Uses
<1>8. ASSUME NEW x \in Nat, NEW e \in Classes, Uses(x, e)
      PROVE  Uses(x, e)'
  <2>1. CASE \E u \in Freers : call[u].obj = x /\ call[u].c = e
    <3>1. PICK u \in Freers : call[u].obj = x /\ call[u].c = e
      BY <2>1
    <3>2. CASE u = t
      <4>1. x \in ToSet(cache'[e])
        BY <1>4, <3>1, <3>2
      <4> QED  BY <4>1 DEF Uses
    <3>3. CASE u # t
      BY <1>2, <1>3, <3>1, <3>3 DEF Uses
    <3> QED  BY <3>2, <3>3
  <2>2. CASE x \in ToSet(cache[e])
    <3>1. x \in ToSet(cache'[e])
      BY <1>4, <2>2
    <3> QED  BY <3>1 DEF Uses
  <2>3. CASE \/ \E u \in Threads : <<x, e>> \in held[u]
             \/ daemon.at = "put" /\ daemon.obj = x /\ daemon.c = e
    BY <2>3 DEF Uses
  <2> QED  BY <1>8, <2>1, <2>2, <2>3 DEF Uses
<1> QED  BY <1>6, <1>7, <1>8, SameUsed

\* free_cache takes an object out of a cache.
LEMMA TakenBack ==
    ASSUME TypeOK, Apart, NEW c \in Classes, NEW a \in Nat, NEW q \in Seq(Nat),
           daemon.at # "put", a \in ToSet(cache[c]),
           IsInjective(q), ToSet(q) = ToSet(cache[c]) \ {a},
           cache' = [cache EXCEPT ![c] = q],
           daemon'.at = "put", daemon'.obj = a, daemon'.c = c, UNCHANGED <<held, call>>
    PROVE  Apart' /\ Used' = Used
<1>1. /\ \A e \in Classes : ToSet(cache'[e]) = IF e = c THEN ToSet(cache[e]) \ {a}
                                                ELSE ToSet(cache[e])
      /\ \A e \in Classes : IsInjective(cache'[e])
  BY DEF TypeOK, Apart
<1>2. Freers' = Freers /\ Freers \subseteq Threads
  BY DEF Freers
<1>3. /\ \A u \in Threads : \A b \in held[u] : b[1] # a
      /\ \A u \in Freers : call[u].obj # a
      /\ \A e \in Classes : a \notin ToSet(cache'[e])
  BY ZenonT(40), <1>1 DEF Apart
<1>4. Apart'
  <2>1. \A i, e \in Classes : \A x \in ToSet(cache'[i]) : x \in ToSet(cache'[e]) => i = e
    BY <1>1 DEF Apart
  <2>2. \A t \in Threads : \A b \in held[t] : \A e \in Classes : b[1] \notin ToSet(cache'[e])
    BY <1>1 DEF Apart
  <2>3. \A u \in Freers : \A e \in Classes : call[u].obj \notin ToSet(cache'[e])
    BY <1>1, <1>2 DEF Apart
  <2> QED  BY ZenonT(60), <1>1, <1>2, <1>3, <2>1, <2>2, <2>3 DEF Apart
<1>5. ASSUME NEW x \in Nat, NEW e \in Classes, Uses(x, e)'
      PROVE  Uses(x, e)
  <2>1. CASE x \in ToSet(cache'[e])
    BY <1>1, <2>1 DEF Uses
  <2>2. CASE x = a /\ e = c
    BY <2>2 DEF Uses
  <2>3. CASE \/ \E u \in Threads : <<x, e>> \in held[u]
             \/ \E u \in Freers : call[u].obj = x /\ call[u].c = e
    BY <2>3 DEF Uses
  <2> QED  BY <1>2, <1>5, <2>1, <2>2, <2>3 DEF Uses
<1>6. ASSUME NEW x \in Nat, NEW e \in Classes, Uses(x, e)
      PROVE  Uses(x, e)'
  <2>1. CASE x \in ToSet(cache[e])
    <3>1. x \in ToSet(cache'[e]) \/ (x = a /\ e = c)
      BY <1>1, <2>1
    <3> QED  BY <3>1 DEF Uses
  <2>2. CASE \/ \E u \in Threads : <<x, e>> \in held[u]
             \/ \E u \in Freers : call[u].obj = x /\ call[u].c = e
    BY <1>2, <2>2 DEF Uses
  <2> QED  BY <1>6, <2>1, <2>2 DEF Uses
<1> QED  BY <1>4, <1>5, <1>6, SameUsed

\* free_cache gives an object back to its page.
LEMMA PutAway ==
    ASSUME TypeOK, Apart, NEW c \in Classes, NEW a \in Nat,
           daemon.at = "put", daemon.obj = a, daemon.c = c, daemon'.at # "put",
           UNCHANGED <<held, call, cache>>
    PROVE  Apart' /\ Used' = Used \ {<<a, c>>} /\ Uses(a, c)
           /\ \A e \in Classes : Uses(a, e) => e = c
<1>1. Freers' = Freers /\ Freers \subseteq Threads
  BY DEF Freers
<1>2. Apart'
  BY <1>1 DEF Apart
<1>3. /\ \A u \in Threads : \A b \in held[u] : b[1] # a
      /\ \A u \in Freers : call[u].obj # a
      /\ \A e \in Classes : a \notin ToSet(cache[e])
  BY DEF Apart
<1>4. \A e \in Classes : ~Uses(a, e)'
  <2>1. \A u \in Threads, e \in Classes : <<a, e>> \notin held[u]
    <3>1. \A e : <<a, e>>[1] = a
      OBVIOUS
    <3> QED  BY <1>3, <3>1
  <2> QED  BY <1>1, <1>3, <2>1 DEF Uses
<1>5. ASSUME NEW x \in Nat, NEW e \in Classes, x # a \/ e # c
      PROVE  Uses(x, e)' <=> Uses(x, e)
  BY <1>1, <1>5 DEF Uses
<1>6. Uses(a, c)
  BY DEF Uses
<1>7. Used' = Used \ {<<a, c>>}
  <2>1. ASSUME NEW b \in Nat \X Classes
        PROVE  b \in Used' <=> b \in Used \ {<<a, c>>}
    <3>1. PICK x \in Nat, e \in Classes : b = <<x, e>> /\ b[1] = x /\ b[2] = e
      OBVIOUS
    <3>2. b \in Used <=> Uses(x, e)
      BY <3>1 DEF Used
    <3>3. b \in Used' <=> Uses(x, e)'
      BY <3>1 DEF Used
    <3>4. CASE x = a /\ e = c
      BY <1>4, <3>1, <3>3, <3>4
    <3>5. CASE x # a \/ e # c
      BY <1>5, <3>1, <3>2, <3>3, <3>5
    <3> QED  BY <3>4, <3>5
  <2>2. Used \subseteq Nat \X Classes /\ Used' \subseteq Nat \X Classes
    BY DEF Used
  <2> QED  BY <2>1, <2>2
<1>8. \A e \in Classes : Uses(a, e) => e = c
  BY <1>4, <1>5
<1> QED  BY <1>2, <1>6, <1>7, <1>8

\* free_cache goes on without an object.
LEMMA NoneTaken ==
    ASSUME Apart, daemon.at # "put", daemon'.at # "put", UNCHANGED <<held, call, cache>>
    PROVE  Apart' /\ Used' = Used
<1>1. Freers' = Freers
  BY DEF Freers
<1>2. \A x \in Nat, e \in Classes : Uses(x, e)' <=> Uses(x, e)
  BY <1>1 DEF Uses
<1> QED  BY <1>1, <1>2, SameUsed DEF Apart

\* The objects in use of a page after one more is handed out.
LEMMA UsedMore ==
    ASSUME NEW a \in Nat, NEW c \in Classes, Used' = Used \cup {<<a, c>>}
    PROVE  \A p : UsedOn(p)' = IF p = PageOf(a) THEN UsedOn(p) \cup {a} ELSE UsedOn(p)
<1>1. <<a, c>>[1] = a
  OBVIOUS
<1>2. ASSUME NEW p  PROVE UsedOn(p)' = {b[1] : b \in {e \in Used \cup {<<a, c>>} : PageOf(e[1]) = p}}
  BY DEF UsedOn, PageOf
<1>3. ASSUME NEW p
      PROVE  {b[1] : b \in {e \in Used \cup {<<a, c>>} : PageOf(e[1]) = p}}
               = IF p = PageOf(a) THEN UsedOn(p) \cup {a} ELSE UsedOn(p)
  <2>1. CASE p = PageOf(a)
    <3>1. {e \in Used \cup {<<a, c>>} : PageOf(e[1]) = p}
            = {e \in Used : PageOf(e[1]) = p} \cup {<<a, c>>}
      BY <1>1, <2>1
    <3> QED  BY <1>1, <2>1, <3>1 DEF UsedOn
  <2>2. CASE p # PageOf(a)
    <3>1. {e \in Used \cup {<<a, c>>} : PageOf(e[1]) = p} = {e \in Used : PageOf(e[1]) = p}
      BY <1>1, <2>2
    <3> QED  BY <2>2, <3>1 DEF UsedOn
  <2> QED  BY <2>1, <2>2
<1> QED  BY <1>2, <1>3

\* The objects in use of a page after one is given back.
LEMMA UsedFewer ==
    ASSUME NEW a \in Nat, NEW c \in Classes, Used' = Used \ {<<a, c>>},
           \A e \in Classes : Uses(a, e) => e = c
    PROVE  \A p : UsedOn(p)' = UsedOn(p) \ {a}
<1>1. \A b \in Used : b[1] = a => b = <<a, c>>
  BY DEF Used
<1>2. Used' = {b \in Used : b[1] # a}
  BY <1>1
<1> QED  BY <1>2 DEF UsedOn, PageOf

DescType == [page : Frames \cup {0}, free : Seq(Nat), ref_cnt : 0 .. PAGE_SIZE, obj_size : Classes]

\* The descriptors after the first free object of d is handed out.
Taken(ds, d) == [ds EXCEPT ![d].free = Tail(@), ![d].ref_cnt = @ + 1]

\* Only d changes, by one object on its list and one in its count.
LEMMA TakeDesc ==
    ASSUME NEW ds \in [Descs -> DescType], NEW d \in Descs, ds[d].free # <<>>,
           ds[d].ref_cnt + 1 <= PAGE_SIZE
    PROVE  /\ Taken(ds, d) \in [Descs -> DescType]
           /\ \A e \in Descs : e # d => Taken(ds, d)[e] = ds[e]
           /\ Taken(ds, d)[d].page = ds[d].page
           /\ Taken(ds, d)[d].obj_size = ds[d].obj_size
           /\ Taken(ds, d)[d].free = Tail(ds[d].free)
           /\ Taken(ds, d)[d].ref_cnt = ds[d].ref_cnt + 1
<1>1. PICK es : es = Taken(ds, d)
  OBVIOUS
<1>2. es = [ds EXCEPT ![d].free = Tail(@), ![d].ref_cnt = @ + 1]
  BY <1>1 DEF Taken
<1>3. PICK r \in DescType : r = ds[d]
  OBVIOUS
<1>4. PICK s \in Seq(Nat), n \in 0 .. PAGE_SIZE : s = Tail(r.free) /\ n = r.ref_cnt + 1
  <2>1. r.free \in Seq(Nat) /\ r.free # <<>> /\ r.ref_cnt \in 0 .. PAGE_SIZE
    BY <1>3 DEF DescType
  <2>2. Tail(r.free) \in Seq(Nat)
    BY <2>1, Uncons
  <2>3. r.ref_cnt + 1 \in 0 .. PAGE_SIZE
    <3>1. r.ref_cnt + 1 <= PAGE_SIZE
      BY <1>3
    <3>2. \A k, m \in Int : k \in 0 .. m /\ k + 1 <= m => k + 1 \in 0 .. m
      OBVIOUS
    <3>3. PAGE_SIZE \in Int
      BY PageSize
    <3>4. r.ref_cnt \in Int
      BY <2>1
    <3> QED  BY <2>1, <3>1, <3>2, <3>3, <3>4
  <2> QED  BY <2>2, <2>3
<1>5. es = [ds EXCEPT ![d] = [page |-> r.page, free |-> s, ref_cnt |-> n, obj_size |-> r.obj_size]]
  BY <1>3, <1>4, <1>2 DEF DescType
<1>6. [page |-> r.page, free |-> s, ref_cnt |-> n, obj_size |-> r.obj_size] \in DescType
  BY <1>3, <1>4 DEF DescType
<1>7. /\ es \in [Descs -> DescType] /\ \A e \in Descs : e # d => es[e] = ds[e]
      /\ es[d].page = ds[d].page /\ es[d].obj_size = ds[d].obj_size
      /\ es[d].free = Tail(ds[d].free) /\ es[d].ref_cnt = ds[d].ref_cnt + 1
  BY <1>3, <1>4, <1>5, <1>6
<1> QED  BY <1>7, <1>1

-----------------------------------------------------------------------------
(* The pages.                                                               *)

\* What the invariant says of a descriptor in a chain.
LEMMA InChain ==
    ASSUME TypeOK, Memory, NEW c \in Classes, NEW d \in ToSet(chain[c])
    PROVE  /\ d \in Descs /\ d \in Chained /\ desc[d] \in DescType
           /\ desc[d].page \in Frames /\ desc[d].page \in Nat
           /\ Described(d, c)
<1>1. d \in Descs /\ d \in Chained
  BY Elements DEF TypeOK, Chained
<1>2. Described(d, c)
  BY DEF Memory, ChainsDescribe
<1>3. desc[d] \in DescType
  BY <1>1 DEF TypeOK, DescType
<1> QED  BY <1>1, <1>2, <1>3, FrameNat DEF Described

\* No two descriptors in the chains describe the same page.
LEMMA PagesDiffer ==
    ASSUME TypeOK, Memory, NEW d \in Chained, NEW e \in Chained, desc[d].page = desc[e].page
    PROVE  d = e
BY DEF Memory, ChainsDescribe, Described, Chained

\* A free object is nobody's.
LEMMA FreeObject ==
    ASSUME TypeOK, Memory, NEW c \in Classes, NEW d \in ToSet(chain[c]), desc[d].free # <<>>,
           NEW a, a = Head(desc[d].free)
    PROVE  /\ a \in Nat /\ PageOf(a) = desc[d].page /\ a \in ToSet(ObjectsOf(desc[d].page, c))
           /\ a \notin UsedOn(desc[d].page) /\ \A e \in Classes : ~Uses(a, e)
<1>1. /\ Described(d, c) /\ desc[d].page \in Nat /\ desc[d].free \in Seq(Nat)
  BY InChain DEF DescType
<1>2. a \in ToSet(desc[d].free)
  BY <1>1, Elements
<1>3. a \in ToSet(ObjectsOf(desc[d].page, c)) \ UsedOn(desc[d].page)
  BY <1>1, <1>2 DEF Described
<1>4. a \in Nat /\ PageOf(a) = desc[d].page
  BY ZenonT(40), <1>1, <1>3, Objects
<1> QED  BY <1>3, <1>4, UsedMember

\* A free object of a described page is handed out.
LEMMA OneMore ==
    ASSUME TypeOK, Memory, NEW c \in Classes, NEW d \in ToSet(chain[c]), desc[d].free # <<>>,
           NEW a, a = Head(desc[d].free), Used' = Used \cup {<<a, c>>},
           desc' = Taken(desc, d),
           UNCHANGED <<chain, spare, owner, free>>
    PROVE  Memory' /\ desc' \in [Descs -> DescType]
<1>1. PICK p \in Nat : p = desc[d].page
  BY InChain
<1>2. /\ d \in Descs /\ d \in Chained /\ desc[d] \in DescType /\ p \in Frames /\ Described(d, c)
  BY <1>1, InChain
<1>3. /\ a \in Nat /\ PageOf(a) = p /\ a \in ToSet(ObjectsOf(p, c)) /\ a \notin UsedOn(p)
  BY <1>1, FreeObject
<1>4. \A q : UsedOn(q)' = IF q = p THEN UsedOn(p) \cup {a} ELSE UsedOn(q)
  BY <1>3, UsedMore
<1>5. /\ desc[d].ref_cnt = Cardinality(UsedOn(p))
      /\ Cardinality(UsedOn(p) \cup {a}) = desc[d].ref_cnt + 1
      /\ desc[d].ref_cnt + 1 <= PAGE_SIZE
  <2>1. desc[d].ref_cnt = Cardinality(UsedOn(p))
    BY <1>1, <1>2 DEF Described
  <2>2. Cardinality(UsedOn(p) \cup {a}) = Cardinality(UsedOn(p)) + 1
    BY <1>3, UsedBound, FS_AddElement
  <2>3. Cardinality(UsedOn(p) \cup {a}) \in 0 .. PAGE_SIZE
    <3>1. UsedOn(p) \cup {a} \in SUBSET Nat
      BY <1>3, UsedBound
    <3>2. \A x \in UsedOn(p) \cup {a} : PageOf(x) = p
      BY <1>3, UsedBound
    <3> QED  BY <3>1, <3>2, PageBound
  <2> QED  BY <2>1, <2>2, <2>3, PageSize
<1>6. /\ desc' \in [Descs -> DescType]
      /\ \A e \in Descs : e # d => desc'[e] = desc[e]
      /\ desc'[d].page = p /\ desc'[d].obj_size = desc[d].obj_size
      /\ desc'[d].free = Tail(desc[d].free) /\ desc'[d].ref_cnt = desc[d].ref_cnt + 1
  <2>1. desc \in [Descs -> DescType]
    BY DEF TypeOK, DescType
  <2>2. desc[d].ref_cnt + 1 <= PAGE_SIZE /\ desc[d].free # <<>> /\ d \in Descs
    BY <1>2, <1>5
  <2>3. /\ desc' \in [Descs -> DescType]
        /\ \A e \in Descs : e # d => desc'[e] = desc[e]
        /\ desc'[d].page = desc[d].page /\ desc'[d].obj_size = desc[d].obj_size
        /\ desc'[d].free = Tail(desc[d].free) /\ desc'[d].ref_cnt = desc[d].ref_cnt + 1
    BY <2>1, <2>2, TakeDesc
  <2> QED  BY <1>1, <2>3
<1>7. Chained \subseteq Descs /\ Chained' = Chained /\ Tables' = Tables
  BY InChain DEF Chained, Tables
<1>8. \A e \in Descs : desc'[e].page = desc[e].page
  BY <1>1, <1>6
<1>9. Described(d, c)'
  <2>1. desc[d].free \in Seq(Nat) /\ IsInjective(desc[d].free)
    BY <1>2 DEF DescType, Described
  <2>2. IsInjective(desc'[d].free) /\ ToSet(desc'[d].free) = ToSet(desc[d].free) \ {a}
    BY <1>6, <2>1, TailApart
  <2>3. ToSet(desc'[d].free) \subseteq ToSet(ObjectsOf(p, c)) \ UsedOn(p)'
    BY <1>1, <1>2, <1>4, <2>2 DEF Described
  <2>4. UsedOn(p)' = UsedOn(p) \cup {a} /\ desc'[d].ref_cnt = Cardinality(UsedOn(p)')
    BY <1>4, <1>5, <1>6
  <2>5. desc'[d].ref_cnt >= 1 /\ owner'[p] = d /\ desc'[d].obj_size = c
    BY <1>1, <1>2, <1>6 DEF Described, DescType
  <2>7. desc'[d].page = p /\ p \in Frames
    BY <1>2, <1>6
  <2>8. UsedOn(desc[d].page)' = UsedOn(p)'
    BY <2>7 DEF UsedOn
  <2>9. ObjectsOf(desc[d].page, c)' = ObjectsOf(p, c)
    BY <2>7 DEF ObjectsOf
  <2> QED  BY <2>2, <2>3, <2>4, <2>5, <2>7, <2>8, <2>9 DEF Described
<1>10. ASSUME NEW k \in Classes, NEW e \in ToSet(chain[k])  PROVE Described(e, k)'
  <2>1. CASE e = d
    BY <1>2, <1>9, <2>1 DEF Memory, DescsApart
  <2>2. CASE e # d
    <3>1. e \in Descs /\ e \in Chained /\ Described(e, k)
      BY InChain
    <3>2. desc[e].page # p
      BY <1>1, <1>2, <2>2, <3>1, PagesDiffer
    <3>3. desc'[e] = desc[e] /\ UsedOn(desc[e].page)' = UsedOn(desc[e].page)
      BY <1>4, <1>6, <2>2, <3>1, <3>2
    <3> QED  BY <3>1, <3>3 DEF Described, ObjectsOf
  <2> QED  BY <2>1, <2>2
<1>11. UsedDescribed'
  <2>1. ASSUME NEW b \in Used'
        PROVE  /\ \E e \in ToSet(chain[b[2]]) : desc'[e].page = PageOf(b[1])
               /\ b[1] \in ToSet(ObjectsOf(PageOf(b[1]), b[2]))
    <3>1. CASE b \in Used
      <4>1. b[2] \in Classes
        BY <3>1 DEF Used
      <4>2. \A e \in ToSet(chain[b[2]]) : e \in Descs
        BY <4>1, InChain
      <4> QED  BY <1>8, <3>1, <4>2 DEF Memory, UsedDescribed
    <3>2. CASE b = <<a, c>>
      <4>1. b[1] = a /\ b[2] = c
        BY <3>2
      <4> QED  BY <1>3, <1>6, <4>1
    <3> QED  BY <2>1, <3>1, <3>2
  <2> QED  BY <2>1 DEF UsedDescribed, ObjectsOf, PageOf
<1>12. DescsApart' /\ FramesApart'
  <2>1. \A e \in Chained : desc'[e].page = desc[e].page
    BY <1>7, <1>8
  <2>2. DescsApart'
    BY <1>7 DEF DescsApart, Memory
  <2>3. FramesApart'
    <3>1. \A f \in Frames : f \in free \/ f \in Tables \/ \E e \in Chained : desc'[e].page = f
      BY <2>1 DEF FramesApart, Memory
    <3>2. /\ \A f \in free : f \notin Tables /\ \A e \in Chained : desc'[e].page # f
          /\ \A e \in Chained : desc'[e].page \notin Tables
      BY <2>1 DEF FramesApart, Memory
    <3>3. \A f \in Tables, i \in 1 .. PerPage : <<f, i>> \in Chained \cup ToSet(spare)
      BY DEF FramesApart, Memory
    <3> QED  BY <1>7, <3>1, <3>2, <3>3 DEF FramesApart
  <2> QED  BY <2>2, <2>3
<1> QED  BY <1>6, <1>10, <1>11, <1>12 DEF Memory, ChainsDescribe

\* The list that TakeNew takes a descriptor from: the spare ones, or those of
\* a page frame g.
LEMMA SpareList ==
    ASSUME TypeOK, Memory, NEW g \in IF spare = <<>> THEN free ELSE {0},
           NEW list, list = IF spare = <<>> THEN DescsOf(g) ELSE spare
    PROVE  /\ list \in Seq(Descs) /\ list # <<>> /\ IsInjective(list)
           /\ \A e \in ToSet(list) : e \notin Chained
           /\ ToSet(spare) \subseteq ToSet(list)
           /\ \A e \in ToSet(list) : e[1] \in Tables \/ e[1] = g
           /\ g \in free => \A i \in 1 .. PerPage : <<g, i>> \in ToSet(list)
           /\ g \in free => \E e \in ToSet(list) : e[1] = g
<1>1. CASE spare = <<>>
  <2>1. g \in Frames /\ g \in free /\ list = DescsOf(g)
    BY <1>1 DEF TypeOK
  <2>2. /\ list \in Seq(Descs) /\ list # <<>> /\ IsInjective(list)
        /\ ToSet(list) = {<<g, i>> : i \in 1 .. PerPage}
    BY <2>1, DescsOfPage
  <2>3. \A e \in ToSet(list) : e[1] = g
    BY <2>2
  <2>4. g \notin Tables
    BY <2>1 DEF Memory, FramesApart
  <2>5. \A e \in ToSet(list) : e \notin Chained
    BY <2>3, <2>4 DEF Tables
  <2>6. ToSet(spare) = {}
    BY <1>1 DEF ToSet
  <2>7. 1 \in 1 .. PerPage /\ <<g, 1>>[1] = g
    BY PageSize
  <2>8. <<g, 1>> \in ToSet(list)
    BY <2>2, <2>7
  <2> QED  BY <2>2, <2>3, <2>5, <2>6, <2>7, <2>8
<1>2. CASE spare # <<>>
  <2>1. list = spare /\ g = 0 /\ g \notin free
    BY <1>2, FrameNat DEF TypeOK
  <2>2. list \in Seq(Descs) /\ list # <<>> /\ IsInjective(list)
    BY <1>2, <2>1 DEF TypeOK, Memory, DescsApart
  <2>3. \A e \in ToSet(list) : e \notin Chained
    BY <2>1 DEF Memory, DescsApart
  <2>4. \A e \in ToSet(list) : e[1] \in Tables
    BY <2>1 DEF Tables
  <2> QED  BY <2>1, <2>2, <2>3, <2>4
<1> QED  BY <1>1, <1>2

\* The chain gets one descriptor more, and keeps its head.
LEMMA NewChain ==
    ASSUME TypeOK, Memory, NEW c \in Classes, NEW new \in Descs, new \notin Chained,
           NEW q, q = IF chain[c] = <<>> THEN <<new>>
                      ELSE <<Head(chain[c]), new>> \o Tail(chain[c]),
           chain' = [chain EXCEPT ![c] = q]
    PROVE  /\ chain' \in [Classes -> Seq(Descs)]
           /\ \A k \in Classes :
                /\ IsInjective(chain'[k])
                /\ ToSet(chain'[k]) = IF k = c THEN ToSet(chain[c]) \cup {new} ELSE ToSet(chain[k])
           /\ Chained' = Chained \cup {new}
<1>1. /\ chain[c] \in Seq(Descs) /\ IsInjective(chain[c]) /\ new \notin ToSet(chain[c])
      /\ chain \in [Classes -> Seq(Descs)] /\ \A k \in Classes : IsInjective(chain[k])
  BY DEF TypeOK, Memory, DescsApart, Chained
<1>2. q \in Seq(Descs) /\ IsInjective(q) /\ ToSet(q) = ToSet(chain[c]) \cup {new}
  <2>1. CASE chain[c] = <<>>
    <3>1. q = <<new>> /\ ToSet(chain[c]) = {}
      BY <2>1 DEF ToSet
    <3>2. <<new>> \in Seq(Descs) /\ DOMAIN <<new>> = 1 .. 1 /\ <<new>>[1] = new
      OBVIOUS
    <3>3. ToSet(<<new>>) = {new}
      BY <3>2 DEF ToSet
    <3>4. IsInjective(<<new>>)
      BY <3>2 DEF IsInjective
    <3> QED  BY <3>1, <3>2, <3>3, <3>4
  <2>2. CASE chain[c] # <<>>
    BY <1>1, <2>2, SecondApart
  <2> QED  BY <2>1, <2>2
<1>3. \A k \in Classes : chain'[k] = IF k = c THEN q ELSE chain[k]
  BY <1>1
<1>4. chain' \in [Classes -> Seq(Descs)]
  BY <1>1, <1>2
<1>5. \A k \in Classes :
        /\ IsInjective(chain'[k])
        /\ ToSet(chain'[k]) = IF k = c THEN ToSet(chain[c]) \cup {new} ELSE ToSet(chain[k])
  BY <1>1, <1>2, <1>3
<1>6. Chained' = Chained \cup {new}
  <2>1. \A e : e \in Chained' <=> \E k \in Classes : e \in ToSet(chain'[k])
    BY DEF Chained
  <2>2. \A e : e \in Chained <=> \E k \in Classes : e \in ToSet(chain[k])
    BY DEF Chained
  <2>3. \A e : (\E k \in Classes : e \in ToSet(chain'[k])) => e \in Chained \cup {new}
    BY SMTT(30), <1>5, <2>2
  <2>4. \A e \in Chained \cup {new} : \E k \in Classes : e \in ToSet(chain'[k])
    BY <1>5, <2>2
  <2> QED  BY <2>1, <2>3, <2>4
<1> QED  BY <1>4, <1>5, <1>6

\* What TakeNew does to the descriptors: d describes the new page f, of which
\* one object is handed out, and the new descriptor what d described.
NewDescribed(c, f, d, new) ==
    /\ desc' \in [Descs -> DescType]
    /\ desc'[d].page = f /\ desc'[d].obj_size = c /\ desc'[d].ref_cnt = 1
    /\ desc'[d].free = Tail(ObjectsOf(f, c))
    /\ d # new => desc'[new] = desc[d]
    /\ \A e \in Descs : e # d /\ e # new => desc'[e] = desc[e]
    /\ owner'[f] = d
    /\ d # new => owner'[desc[d].page] = new
    /\ \A p \in Frames : p # f /\ (d # new => p # desc[d].page) => owner'[p] = owner[p]
    /\ \A k \in Classes :
         ToSet(chain'[k]) = IF k = c THEN ToSet(chain[c]) \cup {new} ELSE ToSet(chain[k])
    /\ Chained' = Chained \cup {new}

\* The chains, with a new page and one object of it handed out.
LEMMA NewPage ==
    ASSUME TypeOK, Memory, NEW c \in Classes, NEW f \in free,
           NEW new \in Descs, new \notin Chained,
           NEW d \in Descs, (d = new /\ chain[c] = <<>>) \/ d \in ToSet(chain[c]),
           NewDescribed(c, f, d, new),
           NEW a, a = Head(ObjectsOf(f, c)), Used' = Used \cup {<<a, c>>}
    PROVE  ChainsDescribe' /\ UsedDescribed'
<1>1. /\ f \in Frames /\ f \in Nat /\ f \notin Tables /\ \A e \in Chained : desc[e].page # f
  BY FrameNat DEF TypeOK, Memory, FramesApart
<1>2. /\ ObjectsOf(f, c) \in Seq(Nat) /\ ObjectsOf(f, c) # <<>> /\ IsInjective(ObjectsOf(f, c))
      /\ a \in ToSet(ObjectsOf(f, c)) /\ a \in Nat /\ PageOf(a) = f
  <2>1. /\ ObjectsOf(f, c) \in Seq(Nat) /\ ObjectsOf(f, c) # <<>> /\ IsInjective(ObjectsOf(f, c))
        /\ \A x \in ToSet(ObjectsOf(f, c)) : x \in Nat /\ PageOf(x) = f
    BY <1>1, Objects
  <2>2. a \in ToSet(ObjectsOf(f, c))
    BY <2>1, TailApart
  <2> QED  BY <2>1, <2>2
<1>3. \A b \in Used : PageOf(b[1]) # f
  <2>1. ASSUME NEW b \in Used  PROVE PageOf(b[1]) # f
    <3>1. PICK e \in ToSet(chain[b[2]]) : desc[e].page = PageOf(b[1])
      BY DEF Memory, UsedDescribed
    <3>2. e \in Chained
      BY InChain DEF Used
    <3> QED  BY <1>1, <3>1, <3>2
  <2> QED  BY <2>1
<1>4. UsedOn(f) = {}
  BY <1>3 DEF UsedOn
<1>5. \A p : UsedOn(p)' = IF p = f THEN {a} ELSE UsedOn(p)
  <2>1. \A p : UsedOn(p)' = IF p = PageOf(a) THEN UsedOn(p) \cup {a} ELSE UsedOn(p)
    BY <1>2, UsedMore
  <2> QED  BY <1>2, <1>4, <2>1
<1>6. Described(d, c)'
  <2>1. IsInjective(desc'[d].free) /\ ToSet(desc'[d].free) = ToSet(ObjectsOf(f, c)) \ {a}
    BY <1>2, TailApart DEF NewDescribed
  <2>2. UsedOn(desc[d].page)' = UsedOn(f)'
    BY DEF UsedOn, NewDescribed
  <2>3. ObjectsOf(desc[d].page, c)' = ObjectsOf(f, c)
    BY DEF ObjectsOf, NewDescribed
  <2>4. UsedOn(f)' = {a} /\ Cardinality(UsedOn(f)') = 1
    BY <1>5, FS_Singleton
  <2> QED  BY <1>1, <2>1, <2>2, <2>3, <2>4 DEF Described, NewDescribed
<1>7. ASSUME NEW k \in Classes, NEW e \in ToSet(chain[k]), e # d
      PROVE  Described(e, k)'
  <2>1. e \in Descs /\ e \in Chained /\ Described(e, k) /\ desc[e].page \in Frames
    BY InChain
  <2>2. e # new /\ desc'[e] = desc[e] /\ desc[e].page # f
    BY <1>1, <1>7, <2>1 DEF NewDescribed
  <2>3. d # new => desc[e].page # desc[d].page
    <3>1. d # new => d \in Chained
      BY InChain
    <3> QED  BY <1>7, <2>1, <3>1, PagesDiffer
  <2>4. owner'[desc[e].page] = e
    BY <2>1, <2>2, <2>3 DEF Described, NewDescribed
  <2>5. UsedOn(desc[e].page)' = UsedOn(desc[e].page)
    <3>1. PICK p : p = desc[e].page
      OBVIOUS
    <3>2. UsedOn(desc[e].page)' = UsedOn(p)'
      BY <2>2, <3>1 DEF UsedOn
    <3> QED  BY <1>5, <2>2, <3>1, <3>2
  <2>6. ObjectsOf(desc[e].page, k)' = ObjectsOf(desc[e].page, k)
    BY <2>2 DEF ObjectsOf
  <2> QED  BY <2>1, <2>2, <2>4, <2>5, <2>6 DEF Described
<1>8. ASSUME d # new  PROVE Described(new, c)'
  <2>1. d \in Chained /\ Described(d, c) /\ desc[d].page \in Frames
    BY <1>8, InChain
  <2>2. desc'[new] = desc[d] /\ desc[d].page # f /\ owner'[desc[d].page] = new
    BY <1>1, <1>8, <2>1 DEF NewDescribed
  <2>3. UsedOn(desc[new].page)' = UsedOn(desc[d].page)
    <3>1. PICK p : p = desc[d].page
      OBVIOUS
    <3>2. UsedOn(desc[new].page)' = UsedOn(p)'
      BY <2>2, <3>1 DEF UsedOn
    <3> QED  BY <1>5, <2>2, <3>1, <3>2
  <2>4. ObjectsOf(desc[new].page, c)' = ObjectsOf(desc[d].page, c)
    BY <2>2 DEF ObjectsOf
  <2> QED  BY <2>1, <2>2, <2>3, <2>4 DEF Described
<1>9. \A k \in Classes : \A e \in ToSet(chain[k]) : e = d => k = c
  BY InChain DEF Memory, DescsApart, Chained
<1>10. ChainsDescribe'
  <2>1. ASSUME NEW k \in Classes, NEW e \in ToSet(chain'[k])  PROVE Described(e, k)'
    <3>1. e \in ToSet(chain[k]) \/ (k = c /\ e = new)
      BY DEF NewDescribed
    <3>2. CASE e = d
      <4>1. k = c
        BY <1>9, <3>1, <3>2
      <4> QED  BY <1>6, <3>2, <4>1
    <3>3. CASE e # d /\ e \in ToSet(chain[k])
      BY <1>7, <3>3
    <3>4. CASE e # d /\ k = c /\ e = new
      BY <1>8, <3>4
    <3> QED  BY <3>1, <3>2, <3>3, <3>4
  <2> QED  BY <2>1 DEF ChainsDescribe
<1>11. UsedDescribed'
  <2>1. ASSUME NEW b \in Used'
        PROVE  /\ \E e \in ToSet(chain'[b[2]]) : desc'[e].page = PageOf(b[1])
               /\ b[1] \in ToSet(ObjectsOf(PageOf(b[1]), b[2]))
    <3>1. CASE b \in Used
      <4>1. PICK k \in Classes : k = b[2]
        BY <3>1 DEF Used
      <4>2. PICK e \in ToSet(chain[k]) : desc[e].page = PageOf(b[1])
        BY <3>1, <4>1 DEF Memory, UsedDescribed
      <4>3. e \in Descs /\ e \in Chained /\ e # new
        BY InChain
      <4>4. \E h \in ToSet(chain'[k]) : desc'[h].page = PageOf(b[1])
        <5>1. CASE e = d
          <6>1. k = c /\ new \in ToSet(chain'[k]) /\ desc'[new] = desc[e]
            BY <1>9, <4>3, <5>1 DEF NewDescribed
          <6> QED  BY <4>2, <6>1
        <5>2. CASE e # d
          <6>1. e \in ToSet(chain'[k]) /\ desc'[e] = desc[e]
            BY <4>3, <5>2 DEF NewDescribed
          <6> QED  BY <4>2, <6>1
        <5> QED  BY <5>1, <5>2
      <4>5. b[1] \in ToSet(ObjectsOf(PageOf(b[1]), b[2]))
        BY <3>1 DEF Memory, UsedDescribed
      <4> QED  BY <4>1, <4>4, <4>5
    <3>2. CASE b = <<a, c>>
      <4>1. b[1] = a /\ b[2] = c
        BY <3>2
      <4>2. d \in ToSet(chain'[c]) /\ desc'[d].page = f
        BY DEF NewDescribed
      <4> QED  BY <1>2, <4>1, <4>2
    <3> QED  BY <2>1, <3>1, <3>2
  <2> QED  BY <2>1 DEF UsedDescribed, ObjectsOf, PageOf
<1> QED  BY <1>10, <1>11

\* The frames, with a new page and a new descriptor.
LEMMA NewFrames ==
    ASSUME TypeOK, Memory, NEW c \in Classes, NEW f \in free,
           NEW g \in IF spare = <<>> THEN free ELSE {0}, f # g,
           NEW list, list = IF spare = <<>> THEN DescsOf(g) ELSE spare,
           NEW new, new = Head(list),
           NEW d \in Descs, (d = new /\ chain[c] = <<>>) \/ d \in ToSet(chain[c]),
           NewDescribed(c, f, d, new), \A k \in Classes : IsInjective(chain'[k]),
           spare' = Tail(list), free' = free \ {f, g}
    PROVE  DescsApart' /\ FramesApart'
<1>1. /\ list \in Seq(Descs) /\ list # <<>> /\ IsInjective(list)
      /\ \A e \in ToSet(list) : e \notin Chained
      /\ ToSet(spare) \subseteq ToSet(list)
      /\ \A e \in ToSet(list) : e[1] \in Tables \/ e[1] = g
      /\ g \in free => \A i \in 1 .. PerPage : <<g, i>> \in ToSet(list)
      /\ g \in free => \E e \in ToSet(list) : e[1] = g
      /\ spare # <<>> => g = 0
  BY SpareList
<1>2. /\ IsInjective(spare') /\ ToSet(spare') = ToSet(list) \ {new} /\ new \in ToSet(list)
      /\ new \in Descs
  BY <1>1, TailApart, Uncons
<1>3. /\ Chained' = Chained \cup {new} /\ new \notin Chained
      /\ Chained' \cup ToSet(spare') = Chained \cup ToSet(list)
  BY <1>1, <1>2 DEF NewDescribed
<1>4. DescsApart'
  <2>1. \A k, l \in Classes : \A e \in ToSet(chain[k]) : e # new /\ (e \in ToSet(chain[l]) => k = l)
    BY <1>3, InChain DEF Memory, DescsApart
  <2>2. \A k, l \in Classes : \A e \in ToSet(chain'[k]) : e \in ToSet(chain'[l]) => k = l
    BY SMTT(30), <2>1 DEF NewDescribed
  <2>3. \A e \in Chained' : e \notin ToSet(spare')
    BY <1>1, <1>2, <1>3
  <2> QED  BY <1>2, <2>2, <2>3 DEF DescsApart
<1>5. \A x : x \in Tables' <=> x \in Tables \/ (x = g /\ g \in free)
  <2>1. \A x : x \in Tables' <=> \E e \in Chained \cup ToSet(list) : e[1] = x
    BY <1>3 DEF Tables
  <2>2. \A x : x \in Tables <=> \E e \in Chained \cup ToSet(spare) : e[1] = x
    BY DEF Tables
  <2>3. ASSUME NEW e \in ToSet(list)  PROVE e[1] \in Tables \/ (e[1] = g /\ g \in free)
    <3>1. CASE spare = <<>>
      BY <1>1, <3>1
    <3>2. CASE spare # <<>>
      <4>1. list = spare
        BY <3>2
      <4> QED  BY <2>2, <4>1
    <3> QED  BY <3>1, <3>2
  <2> QED  BY <1>1, <2>1, <2>2, <2>3
<1>6. /\ f \notin Tables' /\ f \in Frames /\ \A e \in Chained : desc[e].page # f
      /\ \A e \in Chained : desc[e].page \in Frames /\ e \in Descs
  <2>1. \A e \in Chained : desc[e].page \in Frames /\ e \in Descs
    BY InChain DEF Chained
  <2> QED  BY <1>5, <2>1 DEF TypeOK, Memory, FramesApart
<1>7. \A e \in Chained' : desc'[e].page = f \/ \E h \in Chained : desc'[e].page = desc[h].page
  <2>1. ASSUME NEW e \in Chained'
        PROVE  desc'[e].page = f \/ \E h \in Chained : desc'[e].page = desc[h].page
    <3>1. CASE e = d
      BY <3>1 DEF NewDescribed
    <3>2. CASE e # d /\ e = new
      <4>1. d \in Chained
        BY <3>2, InChain
      <4>2. desc'[e] = desc[d]
        BY <3>2 DEF NewDescribed
      <4> QED  BY <4>1, <4>2
    <3>3. CASE e # d /\ e # new
      <4>1. e \in Chained /\ e \in Descs
        BY <1>3, <1>6, <3>3
      <4>2. desc'[e] = desc[e]
        BY <3>3, <4>1 DEF NewDescribed
      <4> QED  BY <4>1, <4>2
    <3> QED  BY <3>1, <3>2, <3>3
  <2> QED  BY <2>1
<1>8. \A h \in Chained : \E e \in Chained' : desc'[e].page = desc[h].page
  <2>1. ASSUME NEW h \in Chained
        PROVE  \E e \in Chained' : desc'[e].page = desc[h].page
    <3>1. CASE h = d
      <4>1. desc'[new] = desc[h] /\ new \in Chained'
        BY <1>3, <3>1 DEF NewDescribed
      <4> QED  BY <4>1
    <3>2. CASE h # d
      <4>1. desc'[h] = desc[h] /\ h \in Chained'
        BY <1>3, <1>6, <3>2 DEF NewDescribed
      <4> QED  BY <4>1
    <3> QED  BY <3>1, <3>2
  <2> QED  BY <2>1
<1>9. d \in Chained' /\ desc'[d].page = f
  BY <1>3, InChain DEF NewDescribed
<1>10. FramesApart'
  <2>1. ASSUME NEW x \in Frames
        PROVE  x \in free' \/ x \in Tables' \/ \E e \in Chained' : desc'[e].page = x
    <3>1. x \in free \/ x \in Tables \/ \E h \in Chained : desc[h].page = x
      BY DEF Memory, FramesApart
    <3>2. CASE x \in free
      <4>1. x \in free' \/ x = f \/ x = g
        BY <3>2
      <4> QED  BY <1>5, <1>9, <3>2, <4>1
    <3>3. CASE x \in Tables
      BY <1>5, <3>3
    <3>4. CASE \E h \in Chained : desc[h].page = x
      BY <1>8, <3>4
    <3> QED  BY <3>1, <3>2, <3>3, <3>4
  <2>2. ASSUME NEW x \in free'  PROVE x \notin Tables' /\ \A e \in Chained' : desc'[e].page # x
    <3>1. x \in free /\ x # f /\ x # g
      OBVIOUS
    <3>2. x \notin Tables /\ \A e \in Chained : desc[e].page # x
      BY <3>1 DEF Memory, FramesApart
    <3> QED  BY <1>5, <1>7, <3>1, <3>2
  <2>3. ASSUME NEW e \in Chained'  PROVE desc'[e].page \notin Tables'
    <3>1. CASE desc'[e].page = f
      BY <1>6, <3>1
    <3>2. CASE \E h \in Chained : desc'[e].page = desc[h].page
      <4>1. PICK h \in Chained : desc'[e].page = desc[h].page
        BY <3>2
      <4>2. desc[h].page \notin Tables /\ (g \in free => desc[h].page # g)
        BY DEF Memory, FramesApart
      <4> QED  BY <1>5, <4>1, <4>2
    <3> QED  BY <1>7, <3>1, <3>2
  <2>4. ASSUME NEW x \in Tables', NEW i \in 1 .. PerPage
        PROVE  <<x, i>> \in Chained' \cup ToSet(spare')
    <3>1. CASE x \in Tables
      <4>1. <<x, i>> \in Chained \cup ToSet(spare)
        BY <3>1 DEF Memory, FramesApart
      <4> QED  BY <1>1, <1>3, <4>1
    <3>2. CASE x = g /\ g \in free
      BY <1>1, <1>3, <3>2
    <3> QED  BY <1>5, <3>1, <3>2
  <2> QED  BY <2>1, <2>2, <2>3, <2>4 DEF FramesApart
<1> QED  BY <1>4, <1>10

\* The descriptor that goes when the last object of d's page is given back: d
\* if it is alone in its chain, otherwise one whose page moves to d.
PageReturned(c, d, gone) ==
    /\ d # gone => desc'[d] = desc[gone] /\ owner'[desc[gone].page] = d
    /\ \A e \in Descs : e # d => desc'[e] = desc[e]
    /\ \A p \in Frames : (d # gone => p # desc[gone].page) => owner'[p] = owner[p]
    /\ \A k \in Classes :
         /\ IsInjective(chain'[k])
         /\ ToSet(chain'[k]) = IF k = c THEN ToSet(chain[c]) \ {gone} ELSE ToSet(chain[k])
    /\ spare' = <<gone>> \o spare /\ free' = free \cup {desc[d].page}

\* The last object of a page is given back, and the page.
LEMMA PageBack ==
    ASSUME TypeOK, Memory, NEW c \in Classes, NEW d \in ToSet(chain[c]),
           NEW gone \in ToSet(chain[c]), PageReturned(c, d, gone), desc[d].ref_cnt = 1,
           NEW a \in Nat, PageOf(a) = desc[d].page, Uses(a, c),
           \A k \in Classes : Uses(a, k) => k = c, Used' = Used \ {<<a, c>>}
    PROVE  Memory'
<1>1. PICK p \in Nat : p = desc[d].page
  BY InChain
<1>2. /\ d \in Descs /\ d \in Chained /\ p \in Frames /\ Described(d, c)
      /\ gone \in Descs /\ gone \in Chained /\ Described(gone, c)
  BY <1>1, InChain
<1>3. UsedOn(p) = {a}
  <2>1. a \in UsedOn(p)
    BY <1>1, UsedMember
  <2>2. Cardinality(UsedOn(p)) = 1 /\ IsFiniteSet(UsedOn(p))
    BY <1>1, <1>2, UsedBound DEF Described
  <2> QED  BY <2>1, <2>2, FS_Singleton
<1>4. \A q : q # p => UsedOn(q)' = UsedOn(q)
  <2>1. \A q : UsedOn(q)' = UsedOn(q) \ {a}
    BY UsedFewer
  <2>2. \A q : q # p => a \notin UsedOn(q)
    BY <1>1 DEF UsedOn
  <2> QED  BY <2>1, <2>2
<1>5. \A b \in Used' : b \in Used /\ PageOf(b[1]) # p
  <2>1. ASSUME NEW b \in Used', PageOf(b[1]) = p  PROVE FALSE
    <3>1. PICK x \in Nat, k \in Classes : b = <<x, k>> /\ b[1] = x /\ Uses(x, k) /\ b \in Used
      BY DEF Used
    <3>2. x \in UsedOn(p)
      BY <2>1, <3>1, UsedMember
    <3>3. x = a /\ k = c
      BY <1>3, <3>1, <3>2
    <3> QED  BY <3>1, <3>3
  <2> QED  BY <2>1
<1>6. \A k \in Classes : \A e \in ToSet(chain[k]) :
        /\ e \in Descs /\ e \in Chained /\ Described(e, k) /\ desc[e].page \in Frames
        /\ e = d \/ e = gone => k = c
        /\ e # d => desc[e].page # p
        /\ e # gone => desc[e].page # desc[gone].page
  <2>1. ASSUME NEW k \in Classes, NEW e \in ToSet(chain[k])
        PROVE  /\ e \in Descs /\ e \in Chained /\ Described(e, k) /\ desc[e].page \in Frames
               /\ e = d \/ e = gone => k = c
               /\ e # d => desc[e].page # p
               /\ e # gone => desc[e].page # desc[gone].page
    <3>1. e \in Descs /\ e \in Chained /\ Described(e, k) /\ desc[e].page \in Frames
      BY InChain
    <3>2. e = d \/ e = gone => k = c
      BY DEF Memory, DescsApart
    <3> QED  BY <1>1, <1>2, <3>1, <3>2, PagesDiffer
  <2> QED  BY <2>1
<1>7. \A k \in Classes : \A e \in ToSet(chain'[k]) : e \in ToSet(chain[k]) /\ e # gone
  BY <1>6 DEF PageReturned
<1>8. ASSUME NEW k \in Classes, NEW e \in ToSet(chain'[k]), NEW h \in ToSet(chain[k]),
             desc'[e] = desc[h], h # d, owner'[desc[h].page] = e
      PROVE  Described(e, k)'
  <2>1. Described(h, k) /\ desc[h].page # p
    BY <1>6, <1>8
  <2>2. UsedOn(desc[e].page)' = UsedOn(desc[h].page)
    <3>1. PICK q : q = desc[h].page
      OBVIOUS
    <3>2. UsedOn(desc[e].page)' = UsedOn(q)'
      BY <1>8, <3>1 DEF UsedOn
    <3> QED  BY <1>4, <2>1, <3>1, <3>2
  <2>3. ObjectsOf(desc[e].page, k)' = ObjectsOf(desc[h].page, k)
    BY <1>8 DEF ObjectsOf
  <2> QED  BY <1>8, <2>1, <2>2, <2>3 DEF Described
<1>9. ASSUME NEW k \in Classes, NEW e \in ToSet(chain'[k])
      PROVE  \E h \in ToSet(chain[k]) : desc'[e] = desc[h] /\ h # d /\ owner'[desc[h].page] = e
  <2>1. e \in ToSet(chain[k]) /\ e # gone
    BY <1>7
  <2>2. CASE e = d
    <3>1. k = c
      BY <1>6, <2>1, <2>2
    <3>2. desc'[e] = desc[gone] /\ gone # d /\ owner'[desc[gone].page] = e
      BY <2>1, <2>2 DEF PageReturned
    <3> QED  BY <3>1, <3>2
  <2>3. CASE e # d
    <3>1. desc'[e] = desc[e] /\ owner[desc[e].page] = e /\ desc[e].page \in Frames
      BY <1>6, <2>1, <2>3 DEF PageReturned, Described
    <3>2. owner'[desc[e].page] = owner[desc[e].page]
      BY <1>6, <2>1, <3>1 DEF PageReturned
    <3> QED  BY <2>1, <2>3, <3>1, <3>2
  <2> QED  BY <2>2, <2>3
<1>10. ChainsDescribe'
  <2>1. ASSUME NEW k \in Classes, NEW e \in ToSet(chain'[k])  PROVE Described(e, k)'
    BY <1>8, <1>9
  <2> QED  BY <2>1 DEF ChainsDescribe
<1>11. ASSUME NEW k \in Classes, NEW h \in ToSet(chain[k]), h # d
       PROVE  \E e \in ToSet(chain'[k]) : desc'[e].page = desc[h].page
  <2>1. CASE h = gone
    <3>1. k = c /\ d \in ToSet(chain'[k]) /\ desc'[d] = desc[h]
      BY <1>6, <1>11, <2>1 DEF PageReturned
    <3> QED  BY <3>1
  <2>2. CASE h # gone
    <3>1. h \in ToSet(chain'[k]) /\ desc'[h] = desc[h]
      BY <1>6, <1>11, <2>2 DEF PageReturned
    <3> QED  BY <3>1
  <2> QED  BY <2>1, <2>2
<1>12. UsedDescribed'
  <2>1. ASSUME NEW b \in Used'
        PROVE  /\ \E e \in ToSet(chain'[b[2]]) : desc'[e].page = PageOf(b[1])
               /\ b[1] \in ToSet(ObjectsOf(PageOf(b[1]), b[2]))
    <3>1. b \in Used /\ PageOf(b[1]) # p /\ b[2] \in Classes
      BY <1>5 DEF Used
    <3>2. PICK h \in ToSet(chain[b[2]]) : desc[h].page = PageOf(b[1])
      BY <3>1 DEF Memory, UsedDescribed
    <3>3. h # d
      BY <1>1, <3>1, <3>2
    <3> QED  BY <1>11, <3>1, <3>2, <3>3 DEF Memory, UsedDescribed
  <2> QED  BY <2>1 DEF UsedDescribed, ObjectsOf, PageOf
<1>13. Chained' = Chained \ {gone}
  <2>1. \A e : e \in Chained' <=> \E k \in Classes : e \in ToSet(chain'[k])
    BY DEF Chained
  <2>2. \A e : e \in Chained <=> \E k \in Classes : e \in ToSet(chain[k])
    BY DEF Chained
  <2>3. \A e \in Chained : e # gone => \E k \in Classes : e \in ToSet(chain'[k])
    BY <2>2 DEF PageReturned
  <2> QED  BY <1>7, <2>1, <2>2, <2>3
<1>14. /\ IsInjective(spare') /\ ToSet(spare') = ToSet(spare) \cup {gone}
       /\ gone \notin ToSet(spare)
  <2>1. spare \in Seq(Descs) /\ IsInjective(spare) /\ gone \notin ToSet(spare)
    BY <1>2 DEF TypeOK, Memory, DescsApart
  <2> QED  BY <1>2, <2>1, PrependApart DEF PageReturned
<1>15. DescsApart'
  <2>1. \A k, l \in Classes : \A e \in ToSet(chain'[k]) : e \in ToSet(chain'[l]) => k = l
    BY <1>7 DEF Memory, DescsApart
  <2>2. \A e \in Chained' : e \notin ToSet(spare')
    BY <1>13, <1>14 DEF Memory, DescsApart
  <2> QED  BY <1>14, <2>1, <2>2 DEF DescsApart, PageReturned
<1>16. Chained' \cup ToSet(spare') = Chained \cup ToSet(spare)
  BY <1>2, <1>13, <1>14
<1>17. Tables' = Tables
  BY <1>16 DEF Tables
<1>18. FramesApart'
  <2>1. \A e \in Chained' : \E h \in Chained : desc'[e].page = desc[h].page /\ desc[h].page # p
    <3>1. \A e \in Chained' : \E k \in Classes : e \in ToSet(chain'[k])
      BY DEF Chained
    <3> QED  BY <1>6, <1>9, <3>1
  <2>2. \A h \in Chained : h # d => \E e \in Chained' : desc'[e].page = desc[h].page
    <3>1. \A h \in Chained : \E k \in Classes : h \in ToSet(chain[k])
      BY DEF Chained
    <3>2. \A k \in Classes : ToSet(chain'[k]) \subseteq Chained'
      BY DEF Chained
    <3> QED  BY <1>11, <3>1, <3>2
  <2>3. p \notin Tables /\ free' = free \cup {p}
    BY <1>1, <1>2 DEF Memory, FramesApart, PageReturned
  <2>4. \A x \in Frames : x \in free' \/ x \in Tables \/ \E e \in Chained' : desc'[e].page = x
    <3>1. ASSUME NEW x \in Frames, x \notin free'
          PROVE  x \in Tables \/ \E e \in Chained' : desc'[e].page = x
      <4>1. x \notin free /\ x # p
        BY <2>3, <3>1
      <4>2. x \in Tables \/ \E h \in Chained : desc[h].page = x
        BY <4>1 DEF Memory, FramesApart
      <4>3. ASSUME NEW h \in Chained, desc[h].page = x
            PROVE  \E e \in Chained' : desc'[e].page = x
        <5>1. h # d
          BY <1>1, <4>1, <4>3
        <5> QED  BY <2>2, <4>3, <5>1
      <4> QED  BY <4>2, <4>3
    <3> QED  BY <3>1
  <2>5. \A x \in free' : x \notin Tables /\ \A e \in Chained' : desc'[e].page # x
    BY <2>1, <2>3 DEF Memory, FramesApart
  <2>6. \A e \in Chained' : desc'[e].page \notin Tables
    BY <2>1 DEF Memory, FramesApart
  <2>7. \A x \in Tables, i \in 1 .. PerPage : <<x, i>> \in Chained' \cup ToSet(spare')
    BY <1>16 DEF Memory, FramesApart
  <2> QED  BY <1>17, <2>4, <2>5, <2>6, <2>7 DEF FramesApart
<1> QED  BY <1>10, <1>12, <1>15, <1>18 DEF Memory

\* The descriptors after an object of d's page is given back.
Given(ds, d) == [ds EXCEPT ![d].ref_cnt = (@ + 65535) % 65536]

\* Only d changes, in its count, and the count does not wrap.
LEMMA GiveDesc ==
    ASSUME NEW ds \in [Descs -> DescType], NEW d \in Descs, ds[d].ref_cnt >= 1
    PROVE  /\ Given(ds, d) \in [Descs -> DescType]
           /\ \A e \in Descs : e # d => Given(ds, d)[e] = ds[e]
           /\ Given(ds, d)[d].page = ds[d].page
           /\ Given(ds, d)[d].obj_size = ds[d].obj_size
           /\ Given(ds, d)[d].free = ds[d].free
           /\ Given(ds, d)[d].ref_cnt = ds[d].ref_cnt - 1
<1>1. PICK es : es = Given(ds, d)
  OBVIOUS
<1>2. es = [ds EXCEPT ![d].ref_cnt = (@ + 65535) % 65536]
  BY <1>1 DEF Given
<1>3. PICK r \in DescType : r = ds[d]
  OBVIOUS
<1>4. PICK n \in 0 .. PAGE_SIZE : n = (r.ref_cnt + 65535) % 65536 /\ n = r.ref_cnt - 1
  <2>1. r.ref_cnt \in 0 .. PAGE_SIZE
    BY DEF DescType
  <2>2. PICK k \in Int : k = r.ref_cnt /\ 1 <= k /\ k <= PAGE_SIZE
    BY <1>3, <2>1, PageSize
  <2>3. k <= 65535 /\ k - 1 \in 0 .. PAGE_SIZE
    BY <2>2, PageSize, PageLimit
  <2>4. (k + 65535) % 65536 = k - 1
    BY <2>2, <2>3
  <2> QED  BY <2>2, <2>3, <2>4
<1>5. es = [ds EXCEPT ![d] = [page |-> r.page, free |-> r.free, ref_cnt |-> n,
                              obj_size |-> r.obj_size]]
  <2>1. es = [ds EXCEPT ![d] = [r EXCEPT !.ref_cnt = n]]
    BY <1>2, <1>3, <1>4
  <2>2. [r EXCEPT !.ref_cnt = n]
          = [page |-> r.page, free |-> r.free, ref_cnt |-> n, obj_size |-> r.obj_size]
    BY SMTT(30), <1>3 DEF DescType
  <2> QED  BY <2>1, <2>2
<1>6. [page |-> r.page, free |-> r.free, ref_cnt |-> n, obj_size |-> r.obj_size] \in DescType
  BY <1>3, <1>4 DEF DescType
<1>7. /\ es \in [Descs -> DescType] /\ \A e \in Descs : e # d => es[e] = ds[e]
      /\ es[d].page = ds[d].page /\ es[d].obj_size = ds[d].obj_size
      /\ es[d].free = ds[d].free /\ es[d].ref_cnt = ds[d].ref_cnt - 1
  BY <1>3, <1>4, <1>5, <1>6
<1> QED  BY <1>1, <1>7

\* An object of a page is given back, not the last one.
LEMMA OneFewer ==
    ASSUME TypeOK, Memory, NEW c \in Classes, NEW d \in ToSet(chain[c]), desc[d].ref_cnt # 1,
           desc' = Given(desc, d), UNCHANGED <<chain, spare, owner, free>>,
           NEW a \in Nat, PageOf(a) = desc[d].page, Uses(a, c),
           \A k \in Classes : Uses(a, k) => k = c, Used' = Used \ {<<a, c>>}
    PROVE  Memory'
<1>1. PICK p \in Nat : p = desc[d].page
  BY InChain
<1>2. /\ d \in Descs /\ d \in Chained /\ desc[d] \in DescType /\ p \in Frames /\ Described(d, c)
  BY <1>1, InChain
<1>3. a \in UsedOn(p)
  BY <1>1, UsedMember
<1>4. /\ \A q : q # p => UsedOn(q)' = UsedOn(q)
      /\ UsedOn(p)' = UsedOn(p) \ {a}
  <2>1. \A q : UsedOn(q)' = UsedOn(q) \ {a}
    BY UsedFewer
  <2>2. \A q : q # p => a \notin UsedOn(q)
    BY <1>1 DEF UsedOn
  <2> QED  BY <2>1, <2>2
<1>5. /\ \A e \in Descs : e # d => desc'[e] = desc[e]
      /\ desc'[d].page = p /\ desc'[d].obj_size = desc[d].obj_size
      /\ desc'[d].free = desc[d].free /\ desc'[d].ref_cnt = desc[d].ref_cnt - 1
  <2>1. desc \in [Descs -> DescType] /\ desc[d].ref_cnt >= 1
    BY <1>2 DEF TypeOK, DescType, Described
  <2> QED  BY <1>1, <1>2, <2>1, GiveDesc
<1>6. desc'[d].ref_cnt >= 1 /\ desc'[d].ref_cnt = Cardinality(UsedOn(p)')
  <2>1. desc[d].ref_cnt \in Int /\ desc[d].ref_cnt >= 1
    BY <1>2, PageSize DEF DescType, Described
  <2>2. Cardinality(UsedOn(p) \ {a}) = Cardinality(UsedOn(p)) - 1
    BY <1>3, UsedBound, FS_RemoveElement
  <2>3. desc[d].ref_cnt = Cardinality(UsedOn(p))
    BY <1>1, <1>2 DEF Described
  <2> QED  BY <1>4, <1>5, <2>1, <2>2, <2>3
<1>7. Chained \subseteq Descs /\ Chained' = Chained /\ Tables' = Tables
  BY InChain DEF Chained, Tables
<1>8. \A e \in Descs : desc'[e].page = desc[e].page
  BY <1>1, <1>5
<1>9. Described(d, c)'
  <2>1. IsInjective(desc'[d].free)
    BY <1>2, <1>5 DEF Described
  <2>2. ToSet(desc'[d].free) \subseteq ToSet(ObjectsOf(p, c)) \ UsedOn(p)'
    BY <1>1, <1>2, <1>4, <1>5 DEF Described
  <2>3. owner'[p] = d /\ desc'[d].obj_size = c
    BY <1>1, <1>2, <1>5 DEF Described
  <2>4. UsedOn(desc[d].page)' = UsedOn(p)'
    BY <1>5 DEF UsedOn
  <2>5. ObjectsOf(desc[d].page, c)' = ObjectsOf(p, c)
    BY <1>5 DEF ObjectsOf
  <2> QED  BY <1>2, <1>5, <1>6, <2>1, <2>2, <2>3, <2>4, <2>5 DEF Described
<1>10. ASSUME NEW k \in Classes, NEW e \in ToSet(chain[k])  PROVE Described(e, k)'
  <2>1. CASE e = d
    BY <1>2, <1>9, <2>1 DEF Memory, DescsApart
  <2>2. CASE e # d
    <3>1. e \in Descs /\ e \in Chained /\ Described(e, k)
      BY InChain
    <3>2. desc[e].page # p
      BY <1>1, <1>2, <2>2, <3>1, PagesDiffer
    <3>3. desc'[e] = desc[e] /\ UsedOn(desc[e].page)' = UsedOn(desc[e].page)
      <4>1. PICK q : q = desc[e].page
        OBVIOUS
      <4>2. desc'[e] = desc[e]
        BY <1>5, <2>2, <3>1
      <4>3. UsedOn(desc[e].page)' = UsedOn(q)'
        BY <4>1, <4>2 DEF UsedOn
      <4> QED  BY <1>4, <3>2, <4>1, <4>2, <4>3
    <3> QED  BY <3>1, <3>3 DEF Described, ObjectsOf
  <2> QED  BY <2>1, <2>2
<1>11. UsedDescribed'
  <2>1. ASSUME NEW b \in Used'
        PROVE  /\ \E e \in ToSet(chain[b[2]]) : desc'[e].page = PageOf(b[1])
               /\ b[1] \in ToSet(ObjectsOf(PageOf(b[1]), b[2]))
    <3>1. b \in Used /\ b[2] \in Classes
      BY DEF Used
    <3>2. \A e \in ToSet(chain[b[2]]) : e \in Descs
      BY <3>1, InChain
    <3> QED  BY <1>8, <3>1, <3>2 DEF Memory, UsedDescribed
  <2> QED  BY <2>1 DEF UsedDescribed, ObjectsOf, PageOf
<1>12. DescsApart' /\ FramesApart'
  <2>1. \A e \in Chained : desc'[e].page = desc[e].page
    BY <1>7, <1>8
  <2>2. DescsApart'
    BY <1>7 DEF DescsApart, Memory
  <2>3. \A f \in Frames : f \in free \/ f \in Tables \/ \E e \in Chained : desc'[e].page = f
    BY <2>1 DEF FramesApart, Memory
  <2>4. /\ \A f \in free : f \notin Tables /\ \A e \in Chained : desc'[e].page # f
        /\ \A e \in Chained : desc'[e].page \notin Tables
    BY <2>1 DEF FramesApart, Memory
  <2>5. \A f \in Tables, i \in 1 .. PerPage : <<f, i>> \in Chained \cup ToSet(spare)
    BY DEF FramesApart, Memory
  <2> QED  BY <1>7, <2>2, <2>3, <2>4, <2>5 DEF FramesApart
<1> QED  BY <1>10, <1>11, <1>12 DEF Memory, ChainsDescribe

-----------------------------------------------------------------------------
(* The steps.                                                               *)

CallType == [at : {"idle", "bucket", "size", "push"}, obj : Nat, d : Descs \cup {NoDesc},
             c : Classes]
DaemonType == [at : {"next", "loop", "put"}, obj : Nat, d : Descs \cup {NoDesc}, c : Classes]

\* The sizes, as numbers.
LEMMA ClassesNat == Classes \subseteq Nat /\ Classes # {} /\ 0 \notin Classes /\ First \in Classes
<1>2. Classes # {}
  BY SMTT(60), KmallocAssumption
<1>1. Classes \in SUBSET Nat /\ Classes # {} /\ 0 \notin Classes
  BY <1>2, FrameNat
<1> QED  BY <1>1, LeastIn DEF First

\* Where a thread is that is neither in kmalloc nor in kfree.
LEMMA IdleType == Idle \in CallType /\ Idle.at = "idle" /\ Idle.obj = 0 /\ Idle.c = First
BY ClassesNat DEF Idle, CallType

\* A thread that asks for an object has nothing to give back.
LEMMA Asking ==
    ASSUME TypeOK, Apart, NEW t \in Threads, NEW k, call[t].at = "idle", k.at = "bucket",
           call' = [call EXCEPT ![t] = k], UNCHANGED <<held, cache, daemon>>
    PROVE  Apart' /\ Used' = Used
<1>1. \A u \in Threads : call'[u] = IF u = t THEN k ELSE call[u]
  BY DEF TypeOK
<1>2. Freers' = Freers /\ \A u \in Freers : call'[u] = call[u]
  BY <1>1 DEF Freers
<1>3. Apart'
  BY <1>2 DEF Apart
<1>4. ASSUME NEW x \in Nat, NEW e \in Classes
      PROVE  Uses(x, e)' <=> Uses(x, e)
  <2>1. (\E u \in Freers' : call'[u].obj = x /\ call'[u].c = e)
          <=> (\E u \in Freers : call[u].obj = x /\ call[u].c = e)
    BY <1>2
  <2> QED  BY <2>1 DEF Uses
<1> QED  BY <1>3, <1>4, SameUsed

\* Thread t gets an object that nobody holds.
HandsOut(t) == \E a \in Nat, c \in Classes :
    /\ \A u \in Threads, e \in Classes : <<a, e>> \notin held[u]
    /\ held' = [held EXCEPT ![t] = @ \cup {<<a, c>>}]

\* An object that nobody uses is not held.
LEMMA NobodyHolds ==
    ASSUME NEW a, \A e \in Classes : ~Uses(a, e)
    PROVE  \A u \in Threads, e \in Classes : <<a, e>> \notin held[u]
BY DEF Uses

\* A thread finds an object in the cache or goes on to the bucket.
LEMMA KmallocStep ==
    ASSUME KInv, ~stale, NEW t \in Threads, NEW len \in Lens, kmalloc(t, len)
    PROVE  KInv' /\ (HandsOut(t) \/ UNCHANGED held)
<1>1. PICK c : c = ClassFor(len) /\ c # 0
  BY DEF kmalloc
<1>2. c \in Classes
  <2>1. PICK fit \in SUBSET Nat : fit = {e \in Classes : e >= len}
    BY ClassesNat
  <2>2. fit # {} /\ c = Least(fit)
    BY <1>1, <2>1 DEF ClassFor
  <2> QED  BY <2>1, <2>2, LeastIn
<1>3. /\ TypeOK /\ Apart /\ Memory /\ call[t] = Idle
      /\ daemon.at = "put" => daemon.d \in ToSet(chain[daemon.c])
      /\ UNCHANGED <<chain, desc, spare, owner, free, daemon, stale>>
  BY DEF KInv, kmalloc
<1>4. CASE cache[c] # <<>>
  <2>1. PICK a, q : a = Head(cache[c]) /\ q = Tail(cache[c])
    OBVIOUS
  <2>2. /\ held' = [held EXCEPT ![t] = @ \cup {<<a, c>>}]
        /\ cache' = [cache EXCEPT ![c] = q] /\ call' = call
    BY <1>1, <1>4, <2>1 DEF kmalloc
  <2>3. /\ a \in Nat /\ a \in ToSet(cache[c]) /\ q \in Seq(Nat) /\ IsInjective(q)
        /\ ToSet(q) = ToSet(cache[c]) \ {a}
    <3>1. cache[c] \in Seq(Nat) /\ IsInjective(cache[c])
      BY <1>2, <1>3 DEF TypeOK, Apart
    <3> QED  BY <1>4, <2>1, <3>1, TailApart, Uncons
  <2>4. Apart' /\ Used' = Used /\ cache' \in [Classes -> Seq(Nat)]
    BY <1>2, <1>3, <2>2, <2>3, CacheHit
  <2>5. Memory'
    BY <1>3, <2>4, SameMemory
  <2>6. held' \in [Threads -> SUBSET (Nat \X Classes)]
    BY <1>2, <1>3, <2>2, <2>3 DEF TypeOK
  <2>7. TypeOK'
    BY <1>3, <2>2, <2>4, <2>6 DEF TypeOK
  <2>8. HandsOut(t)
    <3>1. \A u \in Threads, e \in Classes : <<a, e>> \notin held[u]
      <4>1. \A e : <<a, e>>[1] = a
        OBVIOUS
      <4> QED  BY <1>2, <1>3, <2>3, <4>1 DEF Apart
    <3> QED  BY <1>2, <2>2, <2>3, <3>1 DEF HandsOut
  <2> QED  BY <1>3, <2>2, <2>4, <2>5, <2>7, <2>8 DEF KInv
<1>5. CASE cache[c] = <<>>
  <2>1. PICK k : k = [Idle EXCEPT !.at = "bucket", !.c = c]
    OBVIOUS
  <2>2. call' = [call EXCEPT ![t] = k] /\ UNCHANGED <<held, cache>>
    BY <1>1, <1>5, <2>1 DEF kmalloc
  <2>3. k \in CallType /\ k.at = "bucket"
    BY <1>2, <2>1, ClassesNat DEF Idle, CallType
  <2>4. Apart' /\ Used' = Used
    BY <1>3, <2>2, <2>3, IdleType, Asking
  <2>5. Memory'
    BY <1>3, <2>4, SameMemory
  <2>6. call' \in [Threads -> CallType]
    BY <1>3, <2>2, <2>3 DEF TypeOK, CallType
  <2>7. TypeOK'
    BY <1>3, <2>2, <2>6 DEF TypeOK, CallType
  <2>8. \A u \in Threads : call'[u].at = "size" => call'[u].d \in Descs
    BY <1>3, <2>2, <2>3 DEF TypeOK, KInv
  <2> QED  BY <1>3, <2>2, <2>4, <2>5, <2>7, <2>8 DEF KInv
<1> QED  BY <1>4, <1>5

\* The frame table leads from an object in use to the descriptor of its page.
LEMMA OwnerOf ==
    ASSUME TypeOK, Memory, NEW a \in Nat, NEW c \in Classes, Uses(a, c)
    PROVE  /\ owner[PageOf(a)] \in ToSet(chain[c]) /\ owner[PageOf(a)] \in Descs
           /\ desc[owner[PageOf(a)]].page = PageOf(a) /\ PageOf(a) \in Frames
           /\ a \in ToSet(ObjectsOf(PageOf(a), c))
<1>1. /\ \E d \in ToSet(chain[c]) : desc[d].page = PageOf(a)
      /\ a \in ToSet(ObjectsOf(PageOf(a), c))
  <2>1. <<a, c>> \in Used /\ <<a, c>>[1] = a /\ <<a, c>>[2] = c
    BY UsedMember
  <2> QED  BY <2>1 DEF Memory, UsedDescribed
<1>2. PICK d \in ToSet(chain[c]) : desc[d].page = PageOf(a)
  BY <1>1
<1>3. owner[PageOf(a)] = d /\ d \in Descs /\ PageOf(a) \in Frames
  BY <1>2, InChain DEF Described
<1> QED  BY <1>1, <1>2, <1>3

\* A thread takes the first free object of a descriptor in the chain.
LEMMA TakeFreeStep ==
    ASSUME KInv, ~stale, NEW t \in Threads, TakeFree(t)
    PROVE  KInv' /\ HandsOut(t)
<1>1. PICK c \in Classes : c = call[t].c
  BY DEF KInv, TypeOK
<1>2. /\ TypeOK /\ Apart /\ Memory /\ call[t].at = "bucket"
      /\ daemon.at = "put" => daemon.d \in ToSet(chain[daemon.c])
      /\ UNCHANGED <<chain, spare, owner, free, cache, daemon, stale>>
  BY DEF KInv, TakeFree
<1>3. PICK i \in DOMAIN chain[c] : i = Least(Open(c)) /\ desc[chain[c][i]].free # <<>>
  <2>1. DOMAIN chain[c] \subseteq Nat
    <3>1. chain[c] \in Seq(Descs)
      BY <1>2 DEF TypeOK
    <3> QED  BY <3>1, Elements
  <2>2. Open(c) # {} /\ Open(c) \in SUBSET Nat
    BY <1>1, <2>1 DEF TakeFree, Open
  <2>3. Least(Open(c)) \in Open(c)
    BY <2>2, LeastIn
  <2> QED  BY <2>3 DEF Open
<1>4. PICK d \in ToSet(chain[c]) : d = chain[c][i] /\ desc[d].free # <<>>
  BY <1>2, <1>3, Elements DEF TypeOK
<1>5. PICK a : a = Head(desc[d].free)
  OBVIOUS
<1>6. /\ held' = [held EXCEPT ![t] = @ \cup {<<a, c>>}]
      /\ desc' = Taken(desc, d) /\ call' = [call EXCEPT ![t] = Idle]
  BY <1>1, <1>3, <1>4, <1>5 DEF TakeFree, Take, Taken
<1>7. a \in Nat /\ \A e \in Classes : ~Uses(a, e)
  BY <1>2, <1>4, <1>5, FreeObject
<1>8. Apart' /\ Used' = Used \cup {<<a, c>>}
  BY <1>2, <1>6, <1>7, Granted
<1>9. Memory' /\ desc' \in [Descs -> DescType]
  BY <1>2, <1>4, <1>5, <1>6, <1>8, OneMore
<1>10. held' \in [Threads -> SUBSET (Nat \X Classes)] /\ call' \in [Threads -> CallType]
  <2>1. <<a, c>> \in Nat \X Classes
    BY <1>7
  <2>2. held \in [Threads -> SUBSET (Nat \X Classes)]
    BY <1>2 DEF TypeOK
  <2>3. held' \in [Threads -> SUBSET (Nat \X Classes)]
    BY <1>6, <2>1, <2>2
  <2>4. call' \in [Threads -> CallType]
    BY <1>2, <1>6, IdleType DEF TypeOK, CallType
  <2> QED  BY <2>3, <2>4
<1>11. TypeOK'
  BY <1>2, <1>9, <1>10 DEF TypeOK, CallType, DescType
<1>12. \A u \in Threads : call'[u].at = "size" => call'[u].d \in Descs
  BY <1>2, <1>6, IdleType DEF TypeOK, KInv
<1>13. HandsOut(t)
  BY <1>6, <1>7, NobodyHolds DEF HandsOut
<1> QED  BY <1>2, <1>8, <1>9, <1>11, <1>12, <1>13 DEF KInv

\* kfree finds the bucket of an object; the object is on its way.
LEMMA KfreeStep ==
    ASSUME KInv, ~stale, NEW t \in Threads, kfree(t)
    PROVE  KInv'
<1>1. PICK b \in held[t] :
        /\ held' = [held EXCEPT ![t] = @ \ {b}]
        /\ call' = [call EXCEPT ![t] = [at |-> "size", obj |-> b[1],
                                        d |-> owner[PageOf(b[1])], c |-> b[2]]]
  BY DEF kfree
<1>2. /\ TypeOK /\ Apart /\ Memory /\ call[t] = Idle
      /\ daemon.at = "put" => daemon.d \in ToSet(chain[daemon.c])
      /\ UNCHANGED <<chain, desc, spare, owner, free, cache, daemon, stale>>
  BY DEF KInv, kfree
<1>3. PICK a \in Nat, c \in Classes : b = <<a, c>> /\ b[1] = a /\ b[2] = c
  <2>1. b \in Nat \X Classes
    BY <1>2 DEF TypeOK
  <2> QED  BY <2>1
<1>4. Uses(a, c)
  BY <1>3 DEF Uses
<1>5. PICK k : k = [at |-> "size", obj |-> a, d |-> owner[PageOf(a)], c |-> c]
  OBVIOUS
<1>6. k \in CallType /\ k.d \in Descs /\ k.at = "size" /\ k.obj = a /\ k.c = c
  <2>1. owner[PageOf(a)] \in Descs
    BY <1>2, <1>4, OwnerOf
  <2> QED  BY <1>5, <2>1 DEF CallType
<1>7. /\ held' = [held EXCEPT ![t] = @ \ {<<a, c>>}]
      /\ call' = [call EXCEPT ![t] = k]
  BY <1>1, <1>3, <1>5
<1>8. Apart' /\ Used' = Used
  <2>1. call[t].at = "idle" /\ <<a, c>> \in held[t]
    BY <1>2, <1>3, IdleType
  <2> QED  BY <1>2, <1>6, <1>7, <2>1, Returned
<1>9. Memory'
  BY <1>2, <1>8, SameMemory
<1>10. held' \in [Threads -> SUBSET (Nat \X Classes)] /\ call' \in [Threads -> CallType]
  BY <1>2, <1>6, <1>7 DEF TypeOK, CallType
<1>11. TypeOK'
  BY <1>2, <1>10 DEF TypeOK, CallType
<1>12. \A u \in Threads : call'[u].at = "size" => call'[u].d \in Descs
  BY <1>2, <1>6, <1>7 DEF TypeOK, KInv
<1> QED  BY <1>2, <1>8, <1>9, <1>11, <1>12 DEF KInv

\* kfree finds the cache of the object.
LEMMA ReadSizeStep ==
    ASSUME KInv, ~stale, NEW t \in Threads, ReadSize(t)
    PROVE  KInv'
<1>1. PICK size : size = desc[call[t].d].obj_size
  OBVIOUS
<1>2. PICK k : k = [call[t] EXCEPT !.at = "push", !.c = size, !.d = NoDesc]
  OBVIOUS
<1>3. /\ TypeOK /\ Apart /\ Memory /\ call[t].at = "size" /\ call[t].d \in Descs
      /\ daemon.at = "put" => daemon.d \in ToSet(chain[daemon.c])
      /\ call' = [call EXCEPT ![t] = k] /\ stale' = (size # call[t].c)
      /\ UNCHANGED <<chain, desc, spare, owner, free, cache, held, daemon>>
  BY <1>1, <1>2 DEF KInv, ReadSize
<1>4. call[t] \in CallType /\ size \in Classes
  BY <1>1, <1>3 DEF TypeOK, CallType
<1>5. k \in CallType /\ k.at = "push" /\ k.obj = call[t].obj /\ k.c = size
  BY <1>2, <1>4 DEF CallType
<1>6. call' \in [Threads -> CallType]
  BY <1>3, <1>5 DEF TypeOK, CallType
<1>7. TypeOK'
  BY <1>3, <1>6 DEF TypeOK, CallType
<1>8. \A u \in Threads : call'[u].at = "size" => call'[u].d \in Descs
  BY <1>3, <1>5 DEF TypeOK, KInv
<1>9. CASE stale'
  BY <1>7, <1>8, <1>9 DEF KInv
<1>10. CASE ~stale'
  <2>1. k.c = call[t].c
    BY <1>3, <1>5, <1>10
  <2>2. Apart' /\ Used' = Used
    BY <1>3, <1>5, <2>1, Sized
  <2>3. Memory'
    BY <1>3, <2>2, SameMemory
  <2> QED  BY <1>3, <1>7, <1>8, <2>2, <2>3 DEF KInv
<1> QED  BY <1>9, <1>10

\* kfree puts the object in the cache.
LEMMA PushStep ==
    ASSUME KInv, ~stale, NEW t \in Threads, Push(t)
    PROVE  KInv'
<1>1. PICK c, a : c = call[t].c /\ a = call[t].obj
  OBVIOUS
<1>2. PICK q : q = <<a>> \o cache[c]
  OBVIOUS
<1>3. /\ TypeOK /\ Apart /\ Memory /\ call[t].at = "push"
      /\ daemon.at = "put" => daemon.d \in ToSet(chain[daemon.c])
      /\ call' = [call EXCEPT ![t] = Idle] /\ cache' = [cache EXCEPT ![c] = q]
      /\ UNCHANGED <<chain, desc, spare, owner, free, held, daemon, stale>>
  BY <1>1, <1>2 DEF KInv, Push
<1>4. c \in Classes /\ a \in Nat
  BY <1>1, <1>3 DEF TypeOK
<1>5. q \in Seq(Nat) /\ IsInjective(q) /\ ToSet(q) = ToSet(cache[c]) \cup {a}
  <2>1. t \in Freers
    BY <1>3 DEF Freers
  <2>2. cache[c] \in Seq(Nat) /\ IsInjective(cache[c]) /\ a \notin ToSet(cache[c])
    BY <1>1, <1>3, <1>4, <2>1 DEF TypeOK, Apart
  <2> QED  BY <1>2, <1>4, <2>2, PrependApart
<1>6. Apart' /\ Used' = Used
  BY <1>1, <1>3, <1>4, <1>5, IdleType, Pushed
<1>7. Memory'
  BY <1>3, <1>6, SameMemory
<1>8. call' \in [Threads -> CallType] /\ cache' \in [Classes -> Seq(Nat)]
  BY <1>3, <1>4, <1>5, IdleType DEF TypeOK, CallType
<1>9. TypeOK'
  BY <1>3, <1>8 DEF TypeOK, CallType
<1>10. \A u \in Threads : call'[u].at = "size" => call'[u].d \in Descs
  BY <1>3, IdleType DEF TypeOK, KInv
<1> QED  BY <1>3, <1>6, <1>7, <1>9, <1>10 DEF KInv

\* free_cache takes the last object out of a cache.
LEMMA TakeLastStep ==
    ASSUME KInv, ~stale, TakeLast
    PROVE  KInv'
<1>1. PICK c \in Classes : c = daemon.c
  BY DEF KInv, TypeOK
<1>2. PICK s \in Seq(Nat) : s = cache[c]
  BY DEF KInv, TypeOK
<1>3. s # <<>>
  <2>1. Len(s) * c > 0
    <3>1. 0 \div 4 = 0
      OBVIOUS
    <3> QED  BY <1>1, <1>2, <3>1 DEF TakeLast, Over, CACHE_THRESHOLD
  <2>2. Len(s) # 0
    BY <1>1, <2>1, ClassesNat
  <2> QED  BY <2>2
<1>4. PICK a, q : a = Last(s) /\ q = Front(s)
  OBVIOUS
<1>5. PICK k : k = [at |-> "put", obj |-> a, d |-> owner[PageOf(a)], c |-> c]
  OBVIOUS
<1>6. /\ TypeOK /\ Apart /\ Memory /\ daemon.at # "put"
      /\ daemon' = k /\ cache' = [cache EXCEPT ![c] = q]
      /\ UNCHANGED <<chain, desc, spare, owner, free, held, call, stale>>
  BY <1>1, <1>2, <1>4, <1>5 DEF KInv, TakeLast
<1>7. /\ a \in Nat /\ a \in ToSet(cache[c]) /\ q \in Seq(Nat) /\ IsInjective(q)
      /\ ToSet(q) = ToSet(cache[c]) \ {a}
  <2>1. IsInjective(s)
    BY <1>2, <1>6 DEF Apart
  <2> QED  BY <1>2, <1>3, <1>4, <2>1, Ends, FrontApart
<1>8. Uses(a, c)
  BY <1>7 DEF Uses
<1>9. /\ k \in DaemonType /\ k.at = "put" /\ k.obj = a /\ k.c = c
      /\ k.d \in ToSet(chain[c])
  <2>1. owner[PageOf(a)] \in Descs /\ owner[PageOf(a)] \in ToSet(chain[c])
    BY <1>6, <1>7, <1>8, OwnerOf
  <2> QED  BY <1>5, <1>7, <2>1 DEF DaemonType
<1>10. Apart' /\ Used' = Used
  BY <1>6, <1>7, <1>9, TakenBack
<1>11. Memory'
  BY <1>6, <1>10, SameMemory
<1>12. cache' \in [Classes -> Seq(Nat)]
  BY <1>6, <1>7 DEF TypeOK
<1>13. TypeOK'
  BY <1>6, <1>9, <1>12 DEF TypeOK, DaemonType
<1> QED  BY <1>6, <1>9, <1>10, <1>11, <1>13 DEF KInv

\* free_cache goes on to the next cache.
LEMMA NextCacheStep ==
    ASSUME KInv, ~stale, NextCache
    PROVE  KInv'
<1>1. PICK rest \in SUBSET Nat : rest = {e \in Classes : e > daemon.c} /\ rest \subseteq Classes
  BY ClassesNat
<1>2. PICK n : n = IF rest = {} THEN First ELSE Least(rest)
  OBVIOUS
<1>3. n \in Classes
  BY <1>1, <1>2, ClassesNat, LeastIn
<1>4. PICK k : k = [at |-> "next", obj |-> 0, d |-> NoDesc, c |-> n]
  OBVIOUS
<1>5. /\ TypeOK /\ Apart /\ Memory /\ daemon.at # "put" /\ daemon' = k
      /\ UNCHANGED <<chain, desc, spare, owner, free, cache, held, call, stale>>
  BY <1>1, <1>2, <1>4 DEF KInv, NextCache
<1>6. k \in DaemonType /\ k.at = "next"
  BY <1>3, <1>4 DEF DaemonType
<1>7. Apart' /\ Used' = Used
  BY <1>5, <1>6, NoneTaken
<1>8. Memory'
  BY <1>5, <1>7, SameMemory
<1>9. TypeOK'
  BY <1>5, <1>6 DEF TypeOK, DaemonType
<1> QED  BY <1>5, <1>6, <1>7, <1>8, <1>9 DEF KInv

\* What TakeNew does, with a name for each of its parts.
LEMMA TakeNewParts ==
    ASSUME KInv, ~stale, NEW t \in Threads, TakeNew(t)
    PROVE  \E c \in Classes, f \in free, g \in IF spare = <<>> THEN free ELSE {0} :
           \E list, new, d, page, ds :
             /\ f # g /\ c = call[t].c
             /\ list = IF spare = <<>> THEN DescsOf(g) ELSE spare
             /\ new = Head(list)
             /\ d = IF chain[c] = <<>> THEN new ELSE Head(chain[c])
             /\ page = [page |-> f, free |-> ObjectsOf(f, c), ref_cnt |-> 0, obj_size |-> c]
             /\ ds = [desc EXCEPT ![new] = desc[d], ![d] = page]
             /\ free' = free \ {f, g} /\ spare' = Tail(list)
             /\ chain' = [chain EXCEPT ![c] = IF chain[c] = <<>> THEN <<new>>
                                              ELSE <<Head(chain[c]), new>> \o Tail(chain[c])]
             /\ owner' = Moved(IF d = new THEN owner ELSE Moved(owner, desc[d].page, new), f, d)
             /\ held' = [held EXCEPT ![t] = @ \cup {<<Head(ds[d].free), c>>}]
             /\ desc' = Taken(ds, d) /\ call' = [call EXCEPT ![t] = Idle]
<1>1. PICK c \in Classes : c = call[t].c
  BY DEF KInv, TypeOK
<1>2. chain \in [Classes -> Seq(Descs)]
  BY DEF KInv, TypeOK
<1>3. PICK f \in free, g \in IF spare = <<>> THEN free ELSE {0} :
        LET list == IF spare = <<>> THEN DescsOf(g) ELSE spare
            new == Head(list)
            d == IF chain[c] = <<>> THEN new ELSE Head(chain[c])
            page == [page |-> f, free |-> ObjectsOf(f, c), ref_cnt |-> 0, obj_size |-> c]
        IN /\ f # g
           /\ free' = free \ {f, g}
           /\ spare' = Tail(list)
           /\ chain' = [chain EXCEPT ![c] = IF @ = <<>> THEN <<new>>
                                            ELSE <<d, new>> \o Tail(@)]
           /\ owner' = Moved(IF d = new THEN owner ELSE Moved(owner, desc[d].page, new), f, d)
           /\ Take(t, [desc EXCEPT ![new] = desc[d], ![d] = page], d, c)
  BY ZenonT(40), <1>1 DEF TakeNew
<1>4. PICK list, new, d, page, ds :
        /\ list = IF spare = <<>> THEN DescsOf(g) ELSE spare
        /\ new = Head(list)
        /\ d = IF chain[c] = <<>> THEN new ELSE Head(chain[c])
        /\ page = [page |-> f, free |-> ObjectsOf(f, c), ref_cnt |-> 0, obj_size |-> c]
        /\ ds = [desc EXCEPT ![new] = desc[d], ![d] = page]
  OBVIOUS
<1>5. /\ f # g /\ free' = free \ {f, g} /\ spare' = Tail(list)
      /\ chain' = [chain EXCEPT ![c] = IF @ = <<>> THEN <<new>> ELSE <<d, new>> \o Tail(@)]
      /\ owner' = Moved(IF d = new THEN owner ELSE Moved(owner, desc[d].page, new), f, d)
      /\ Take(t, ds, d, c)
  BY <1>3, <1>4
<1>6. chain' = [chain EXCEPT ![c] = IF chain[c] = <<>> THEN <<new>>
                                    ELSE <<Head(chain[c]), new>> \o Tail(chain[c])]
  BY <1>4, <1>5
<1>7. /\ held' = [held EXCEPT ![t] = @ \cup {<<Head(ds[d].free), c>>}]
      /\ desc' = Taken(ds, d) /\ call' = [call EXCEPT ![t] = Idle]
  BY <1>5 DEF Take, Taken
<1> QED  BY ZenonT(40), <1>1, <1>4, <1>5, <1>6, <1>7

\* A thread takes the first object of a new page.
LEMMA TakeNewStep ==
    ASSUME KInv, ~stale, NEW t \in Threads, TakeNew(t)
    PROVE  KInv' /\ HandsOut(t)
<1>1. /\ TypeOK /\ Apart /\ Memory /\ call[t].at = "bucket"
      /\ daemon.at = "put" => daemon.d \in ToSet(chain[daemon.c])
      /\ UNCHANGED <<cache, daemon, stale>>
  BY DEF KInv, TakeNew
<1>2. PICK c \in Classes, f \in free, g \in IF spare = <<>> THEN free ELSE {0} :
           \E list, new, d, page, ds :
             /\ f # g /\ c = call[t].c
             /\ list = IF spare = <<>> THEN DescsOf(g) ELSE spare
             /\ new = Head(list)
             /\ d = IF chain[c] = <<>> THEN new ELSE Head(chain[c])
             /\ page = [page |-> f, free |-> ObjectsOf(f, c), ref_cnt |-> 0, obj_size |-> c]
             /\ ds = [desc EXCEPT ![new] = desc[d], ![d] = page]
             /\ free' = free \ {f, g} /\ spare' = Tail(list)
             /\ chain' = [chain EXCEPT ![c] = IF chain[c] = <<>> THEN <<new>>
                                              ELSE <<Head(chain[c]), new>> \o Tail(chain[c])]
             /\ owner' = Moved(IF d = new THEN owner ELSE Moved(owner, desc[d].page, new), f, d)
             /\ held' = [held EXCEPT ![t] = @ \cup {<<Head(ds[d].free), c>>}]
             /\ desc' = Taken(ds, d) /\ call' = [call EXCEPT ![t] = Idle]
  BY TakeNewParts
<1>3. PICK list, new, d, page, ds :
        /\ f # g /\ c = call[t].c
        /\ list = IF spare = <<>> THEN DescsOf(g) ELSE spare
        /\ new = Head(list)
        /\ d = IF chain[c] = <<>> THEN new ELSE Head(chain[c])
        /\ page = [page |-> f, free |-> ObjectsOf(f, c), ref_cnt |-> 0, obj_size |-> c]
        /\ ds = [desc EXCEPT ![new] = desc[d], ![d] = page]
        /\ free' = free \ {f, g} /\ spare' = Tail(list)
        /\ chain' = [chain EXCEPT ![c] = IF chain[c] = <<>> THEN <<new>>
                                         ELSE <<Head(chain[c]), new>> \o Tail(chain[c])]
        /\ owner' = Moved(IF d = new THEN owner ELSE Moved(owner, desc[d].page, new), f, d)
        /\ held' = [held EXCEPT ![t] = @ \cup {<<Head(ds[d].free), c>>}]
        /\ desc' = Taken(ds, d) /\ call' = [call EXCEPT ![t] = Idle]
  BY <1>2
<1>4. /\ list \in Seq(Descs) /\ list # <<>> /\ IsInjective(list)
      /\ \A e \in ToSet(list) : e \notin Chained
  BY <1>1, <1>3, SpareList
<1>5. new \in Descs /\ new \notin Chained
  BY <1>3, <1>4, Uncons, TailApart
<1>6. /\ chain' \in [Classes -> Seq(Descs)]
      /\ \A k \in Classes :
           /\ IsInjective(chain'[k])
           /\ ToSet(chain'[k]) = IF k = c THEN ToSet(chain[c]) \cup {new} ELSE ToSet(chain[k])
      /\ Chained' = Chained \cup {new}
  <2>1. PICK q : q = IF chain[c] = <<>> THEN <<new>>
                     ELSE <<Head(chain[c]), new>> \o Tail(chain[c])
    OBVIOUS
  <2>2. chain' = [chain EXCEPT ![c] = q]
    BY <1>3, <2>1
  <2> QED  BY <1>1, <1>5, <2>1, <2>2, NewChain
<1>7. d \in Descs /\ ((d = new /\ chain[c] = <<>>) \/ d \in ToSet(chain[c]))
  <2>1. CASE chain[c] = <<>>
    BY <1>3, <1>5, <2>1
  <2>2. CASE chain[c] # <<>>
    <3>1. d = Head(chain[c]) /\ chain[c] \in Seq(Descs)
      BY <1>1, <1>3, <2>2 DEF TypeOK
    <3> QED  BY <2>2, <3>1, Elements
  <2> QED  BY <2>1, <2>2
<1>8. /\ f \in Frames /\ f \in Nat /\ ObjectsOf(f, c) \in Seq(Nat) /\ ObjectsOf(f, c) # <<>>
      /\ \A e \in Chained : desc[e].page # f
      /\ d # new => d \in Chained /\ desc[d].page \in Frames
  <2>1. f \in Frames /\ f \in Nat
    BY <1>1, FrameNat DEF TypeOK
  <2>2. \A e \in Chained : desc[e].page # f
    BY <1>1 DEF Memory, FramesApart
  <2>3. d # new => d \in Chained /\ desc[d].page \in Frames
    BY <1>1, <1>7, InChain
  <2> QED  BY <2>1, <2>2, <2>3, Objects
<1>9. /\ page \in DescType /\ page.page = f /\ page.free = ObjectsOf(f, c)
      /\ page.ref_cnt = 0 /\ page.obj_size = c
  <2>1. 0 \in 0 .. PAGE_SIZE
    BY PageSize
  <2>2. page = [page |-> f, free |-> ObjectsOf(f, c), ref_cnt |-> 0, obj_size |-> c]
    BY <1>3
  <2> QED  BY <1>8, <2>1, <2>2 DEF DescType
<1>10. ds \in [Descs -> DescType]
  <2>1. desc \in [Descs -> DescType] /\ desc[d] \in DescType
    BY <1>1, <1>7 DEF TypeOK, DescType
  <2> QED  BY <1>3, <1>5, <1>7, <1>9, <2>1
<1>11. /\ ds[d] = page
       /\ d # new => ds[new] = desc[d]
       /\ \A e \in Descs : e # d /\ e # new => ds[e] = desc[e]
  <2>1. desc \in [Descs -> DescType]
    BY <1>1 DEF TypeOK, DescType
  <2> QED  BY <1>3, <1>5, <1>7, <2>1
<1>12. /\ desc' \in [Descs -> DescType]
       /\ \A e \in Descs : e # d => desc'[e] = ds[e]
       /\ desc'[d].page = f /\ desc'[d].obj_size = c /\ desc'[d].ref_cnt = 1
       /\ desc'[d].free = Tail(ObjectsOf(f, c))
  <2>1. /\ ds[d].page = f /\ ds[d].obj_size = c /\ ds[d].ref_cnt = 0
        /\ ds[d].free = ObjectsOf(f, c)
    BY <1>9, <1>11
  <2>2. ds[d].ref_cnt + 1 <= PAGE_SIZE /\ ds[d].free # <<>> /\ desc' = Taken(ds, d)
    <3>1. 0 + 1 <= PAGE_SIZE
      BY PageSize
    <3>2. ds[d].ref_cnt + 1 <= PAGE_SIZE
      BY <2>1, <3>1
    <3> QED  BY <1>3, <1>8, <2>1, <3>2
  <2>3. /\ Taken(ds, d) \in [Descs -> DescType]
        /\ \A e \in Descs : e # d => Taken(ds, d)[e] = ds[e]
        /\ Taken(ds, d)[d].page = ds[d].page
        /\ Taken(ds, d)[d].obj_size = ds[d].obj_size
        /\ Taken(ds, d)[d].free = Tail(ds[d].free)
        /\ Taken(ds, d)[d].ref_cnt = ds[d].ref_cnt + 1
    BY <1>7, <1>10, <2>2, TakeDesc
  <2> QED  BY <2>1, <2>2, <2>3
<1>13. /\ owner' \in [Frames -> Descs \cup {NoDesc}] /\ owner'[f] = d
       /\ d # new => owner'[desc[d].page] = new
       /\ \A p \in Frames : p # f /\ (d # new => p # desc[d].page) => owner'[p] = owner[p]
  <2>1. owner \in [Frames -> Descs \cup {NoDesc}]
    BY <1>1 DEF TypeOK
  <2>2. CASE d = new
    <3>1. owner' = [owner EXCEPT ![f] = d]
      BY <1>3, <2>2 DEF Moved
    <3> QED  BY <1>7, <1>8, <2>1, <2>2, <3>1
  <2>3. CASE d # new
    <3>1. owner' = [[owner EXCEPT ![desc[d].page] = new] EXCEPT ![f] = d]
      BY <1>3, <2>3 DEF Moved
    <3>2. PICK p \in Frames : p = desc[d].page /\ p # f
      BY <1>8, <2>3
    <3> QED  BY <1>5, <1>7, <1>8, <2>1, <2>3, <3>1, <3>2
  <2> QED  BY <2>2, <2>3
<1>14. NewDescribed(c, f, d, new)
  <2>1. d # new => desc'[new] = desc[d]
    BY <1>5, <1>11, <1>12
  <2>2. \A e \in Descs : e # d /\ e # new => desc'[e] = desc[e]
    BY <1>11, <1>12
  <2> QED  BY <1>6, <1>12, <1>13, <2>1, <2>2 DEF NewDescribed
<1>15. PICK a : a = Head(ObjectsOf(f, c))
  OBVIOUS
<1>16. a \in Nat /\ PageOf(a) = f /\ \A e \in Classes : ~Uses(a, e)
  <2>1. a \in Nat /\ PageOf(a) = f
    <3>1. a \in ToSet(ObjectsOf(f, c))
      BY <1>8, <1>15, Elements
    <3> QED  BY <1>8, <3>1, Objects
  <2>2. ASSUME NEW e \in Classes, Uses(a, e)  PROVE FALSE
    <3>1. PICK h \in Descs : h \in ToSet(chain[e]) /\ desc[h].page = f
      BY <1>1, <2>1, <2>2, OwnerOf
    <3>2. h \in Chained
      BY <1>1, <3>1, InChain
    <3> QED  BY <1>8, <3>1, <3>2
  <2> QED  BY <2>1, <2>2
<1>17. held' = [held EXCEPT ![t] = @ \cup {<<a, c>>}]
  <2>1. ds[d].free = ObjectsOf(f, c)
    BY <1>9, <1>11
  <2> QED  BY <1>3, <1>15, <2>1
<1>18. Apart' /\ Used' = Used \cup {<<a, c>>}
  BY <1>1, <1>3, <1>16, <1>17, Granted
<1>19. ChainsDescribe' /\ UsedDescribed'
  BY <1>1, <1>5, <1>7, <1>14, <1>15, <1>18, NewPage
<1>20. DescsApart' /\ FramesApart'
  BY <1>1, <1>3, <1>6, <1>7, <1>14, NewFrames
<1>21. held' \in [Threads -> SUBSET (Nat \X Classes)] /\ call' \in [Threads -> CallType]
  <2>1. <<a, c>> \in Nat \X Classes
    BY <1>16
  <2>2. held \in [Threads -> SUBSET (Nat \X Classes)]
    BY <1>1 DEF TypeOK
  <2>3. held' \in [Threads -> SUBSET (Nat \X Classes)]
    BY <1>17, <2>1, <2>2
  <2>4. call' \in [Threads -> CallType]
    BY <1>1, <1>3, IdleType DEF TypeOK, CallType
  <2> QED  BY <2>3, <2>4
<1>22. spare' \in Seq(Descs) /\ free' \subseteq Frames
  BY <1>1, <1>3, <1>4, Uncons DEF TypeOK
<1>23. TypeOK'
  BY <1>1, <1>6, <1>12, <1>13, <1>21, <1>22 DEF TypeOK, CallType, DescType
<1>24. \A u \in Threads : call'[u].at = "size" => call'[u].d \in Descs
  BY <1>1, <1>3, IdleType DEF TypeOK, KInv
<1>25. daemon'.at = "put" => daemon'.d \in ToSet(chain'[daemon'.c])
  <2>1. daemon.c \in Classes
    BY <1>1 DEF TypeOK
  <2> QED  BY <1>1, <1>6, <2>1
<1>26. HandsOut(t)
  BY <1>16, <1>17, NobodyHolds DEF HandsOut
<1> QED  BY <1>1, <1>18, <1>19, <1>20, <1>23, <1>24, <1>25, <1>26 DEF KInv, Memory

\* What leaves a chain when the page of d goes, and what is left of it.
LEMMA GoneApart ==
    ASSUME NEW s \in Seq(Descs), IsInjective(s), NEW d \in ToSet(s)
    PROVE  /\ Gone(s, d) \in ToSet(s) /\ (Gone(s, d) # d => Gone(s, d) = NextTo(s, PlaceOf(s, d)))
           /\ Left(s, d) \in Seq(Descs) /\ IsInjective(Left(s, d))
           /\ ToSet(Left(s, d)) = ToSet(s) \ {Gone(s, d)}
<1>1. PICK i, next, gone, q :
        /\ i = PlaceOf(s, d) /\ next = NextTo(s, i) /\ gone = Gone(s, d) /\ q = Left(s, d)
        /\ next = s[IF i = Len(s) THEN 1 ELSE i + 1]
        /\ gone = IF Len(s) = 1 THEN d ELSE next
        /\ q = IF gone = d THEN <<>> ELSE Unlinked(s, i)
  BY DEF NextTo, Gone, Left
<1>2. i \in DOMAIN s /\ s[i] = d
  BY <1>1 DEF PlaceOf, ToSet
<1>3. CASE Len(s) = 1
  <2>1. DOMAIN s = 1 .. 1
    BY <1>3
  <2>2. \A j \in DOMAIN s : s[j] = d
    <3>1. \A j \in DOMAIN s : j = i
      BY <1>2, <2>1
    <3> QED  BY <1>2, <3>1
  <2>3. ToSet(s) = {d} /\ q = <<>> /\ gone = d
    BY <1>2, <1>3, <1>1, <2>2 DEF ToSet
  <2>4. DOMAIN <<>> = {}
    OBVIOUS
  <2>5. IsInjective(<<>>) /\ ToSet(<<>>) = {}
    BY <2>4 DEF IsInjective, ToSet
  <2> QED  BY <1>1, <2>3, <2>5
<1>4. CASE Len(s) # 1
  <2>1. /\ next \in ToSet(s) /\ next # d
        /\ Unlinked(s, i) \in Seq(Descs) /\ IsInjective(Unlinked(s, i))
        /\ ToSet(Unlinked(s, i)) = ToSet(s) \ {next}
    BY <1>2, <1>4, <1>1, UnlinkNext
  <2> QED  BY <1>4, <1>1, <2>1
<1> QED  BY <1>3, <1>4

\* Put takes a page off its chain.
PutEmptied(c, d, gone, next, left) ==
    /\ free' = free \cup {desc[d].page} /\ spare' = <<gone>> \o spare
    /\ chain' = [chain EXCEPT ![c] = left]
    /\ desc' = [desc EXCEPT ![d] = IF gone = d THEN [@ EXCEPT !.ref_cnt = 0] ELSE desc[next]]
    /\ owner' = IF gone = d THEN owner ELSE Moved(owner, desc[next].page, d)

\* With the types, and with the chain as Put leaves it.
LEMMA PutPage ==
    ASSUME TypeOK, Memory, NEW c \in Classes, NEW d \in ToSet(chain[c]),
           PutEmptied(c, d, Gone(chain[c], d), NextTo(chain[c], PlaceOf(chain[c], d)),
                      Left(chain[c], d))
    PROVE  /\ Gone(chain[c], d) \in ToSet(chain[c]) /\ PageReturned(c, d, Gone(chain[c], d))
           /\ chain' \in [Classes -> Seq(Descs)] /\ spare' \in Seq(Descs)
           /\ desc' \in [Descs -> DescType] /\ owner' \in [Frames -> Descs \cup {NoDesc}]
           /\ free' \subseteq Frames
<1>1. PICK gone, next, q :
        /\ gone = Gone(chain[c], d) /\ next = NextTo(chain[c], PlaceOf(chain[c], d))
        /\ q = Left(chain[c], d) /\ PutEmptied(c, d, gone, next, q)
  OBVIOUS
<1>2. chain[c] \in Seq(Descs) /\ IsInjective(chain[c])
  BY DEF TypeOK, Memory, DescsApart
<1>3. /\ gone \in ToSet(chain[c]) /\ (gone # d => gone = next)
      /\ q \in Seq(Descs) /\ IsInjective(q) /\ ToSet(q) = ToSet(chain[c]) \ {gone}
  BY <1>1, <1>2, GoneApart
<1>4. /\ d \in Descs /\ gone \in Descs /\ desc[d] \in DescType /\ desc[gone] \in DescType
      /\ desc[d].page \in Frames /\ desc[gone].page \in Frames
  BY <1>3, InChain
<1>5. /\ chain' \in [Classes -> Seq(Descs)]
      /\ \A k \in Classes :
           /\ IsInjective(chain'[k])
           /\ ToSet(chain'[k]) = IF k = c THEN ToSet(chain[c]) \ {gone} ELSE ToSet(chain[k])
  <2>1. chain' = [chain EXCEPT ![c] = q]
    BY <1>1 DEF PutEmptied
  <2>2. chain \in [Classes -> Seq(Descs)] /\ \A k \in Classes : IsInjective(chain[k])
    BY DEF TypeOK, Memory, DescsApart
  <2>3. \A k \in Classes : chain'[k] = IF k = c THEN q ELSE chain[k]
    BY <2>1, <2>2
  <2>4. chain' \in [Classes -> Seq(Descs)]
    BY <1>3, <2>1, <2>2
  <2> QED  BY <1>3, <2>2, <2>3, <2>4
<1>6. /\ desc' \in [Descs -> DescType] /\ \A e \in Descs : e # d => desc'[e] = desc[e]
      /\ d # gone => desc'[d] = desc[gone]
  <2>1. PICK r : r = IF gone = d THEN [desc[d] EXCEPT !.ref_cnt = 0] ELSE desc[gone]
    OBVIOUS
  <2>2. desc' = [desc EXCEPT ![d] = r]
    BY <1>1, <1>3, <2>1 DEF PutEmptied
  <2>3. r \in DescType
    <3>1. 0 \in 0 .. PAGE_SIZE
      BY PageSize
    <3>2. [desc[d] EXCEPT !.ref_cnt = 0] \in DescType
      BY <1>4, <3>1 DEF DescType
    <3> QED  BY <1>4, <2>1, <3>2
  <2>4. desc \in [Descs -> DescType]
    BY DEF TypeOK, DescType
  <2> QED  BY <1>4, <2>1, <2>2, <2>3, <2>4
<1>7. /\ owner' \in [Frames -> Descs \cup {NoDesc}]
      /\ d # gone => owner'[desc[gone].page] = d
      /\ \A p \in Frames : (d # gone => p # desc[gone].page) => owner'[p] = owner[p]
  <2>1. owner \in [Frames -> Descs \cup {NoDesc}]
    BY DEF TypeOK
  <2>2. CASE gone = d
    BY <1>1, <2>1, <2>2 DEF PutEmptied
  <2>3. CASE gone # d
    <3>1. PICK p \in Frames : p = desc[gone].page
      BY <1>4
    <3>2. owner' = [owner EXCEPT ![p] = d]
      BY <1>1, <1>3, <2>3, <3>1 DEF Moved, PutEmptied
    <3> QED  BY <1>4, <2>1, <2>3, <3>1, <3>2
  <2> QED  BY <2>2, <2>3
<1>8. spare' \in Seq(Descs) /\ free' \subseteq Frames
  <2>1. spare \in Seq(Descs) /\ free \subseteq Frames
    BY DEF TypeOK
  <2>2. <<gone>> \o spare \in Seq(Descs)
    BY <1>4, <2>1, Prepend
  <2> QED  BY <1>1, <1>4, <2>1, <2>2 DEF PutEmptied
<1>9. PageReturned(c, d, gone)
  BY <1>1, <1>5, <1>6, <1>7 DEF PageReturned, PutEmptied
<1> QED  BY <1>1, <1>3, <1>5, <1>6, <1>7, <1>8, <1>9

\* free_cache counts the object off, and gives the page back if it was the last.
LEMMA PutStep ==
    ASSUME KInv, ~stale, Put
    PROVE  KInv'
<1>1. PICK c \in Classes, a \in Nat : c = daemon.c /\ a = daemon.obj
  BY DEF KInv, TypeOK
<1>2. PICK d : d = daemon.d
  OBVIOUS
<1>3. PICK gone : gone = Gone(chain[c], d)
  OBVIOUS
<1>5. PICK k : k = [daemon EXCEPT !.at = "loop", !.obj = 0, !.d = NoDesc]
  OBVIOUS
<1>6. /\ TypeOK /\ Apart /\ Memory /\ daemon.at = "put" /\ d \in ToSet(chain[c])
      /\ stale' = (desc[d].page # PageOf(a)) /\ daemon' = k
      /\ UNCHANGED <<cache, held, call>>
  BY <1>1, <1>2, <1>5 DEF KInv, Put
<1>7. IF Emptied(desc[d].ref_cnt)
      THEN PutEmptied(c, d, Gone(chain[c], d), NextTo(chain[c], PlaceOf(chain[c], d)),
                      Left(chain[c], d))
      ELSE desc' = Given(desc, d) /\ UNCHANGED <<chain, spare, owner, free>>
  <2>1. IF Emptied(desc[daemon.d].ref_cnt)
        THEN PutEmptied(daemon.c, daemon.d, Gone(chain[daemon.c], daemon.d),
                        NextTo(chain[daemon.c], PlaceOf(chain[daemon.c], daemon.d)),
                        Left(chain[daemon.c], daemon.d))
        ELSE desc' = Given(desc, daemon.d) /\ UNCHANGED <<chain, spare, owner, free>>
    BY DEF Put, Given, PutEmptied
  <2> QED  BY <1>1, <1>2, <2>1
<1>9. k \in DaemonType /\ k.at = "loop"
  BY <1>1, <1>5, <1>6 DEF TypeOK, DaemonType
<1>10. Apart' /\ Used' = Used \ {<<a, c>>} /\ Uses(a, c) /\ \A e \in Classes : Uses(a, e) => e = c
  BY <1>1, <1>6, <1>9, PutAway
<1>11. CASE desc[d].ref_cnt = 1
  <2>1. /\ gone \in ToSet(chain[c]) /\ PageReturned(c, d, gone)
        /\ chain' \in [Classes -> Seq(Descs)] /\ spare' \in Seq(Descs)
        /\ desc' \in [Descs -> DescType] /\ owner' \in [Frames -> Descs \cup {NoDesc}]
        /\ free' \subseteq Frames
    BY <1>3, <1>6, <1>7, <1>11, PutPage DEF Emptied
  <2>2. TypeOK'
    BY <1>6, <1>9, <2>1 DEF TypeOK, DescType, DaemonType
  <2>3. ~stale' => Memory'
    BY <1>6, <1>10, <1>11, <2>1, PageBack
  <2> QED  BY <1>6, <1>9, <1>10, <2>2, <2>3 DEF KInv
<1>12. CASE desc[d].ref_cnt # 1
  <2>1. desc' = Given(desc, d) /\ UNCHANGED <<chain, spare, owner, free>>
    BY <1>7, <1>12 DEF Emptied
  <2>2. desc' \in [Descs -> DescType]
    <3>1. desc \in [Descs -> DescType] /\ d \in Descs /\ desc[d].ref_cnt >= 1
      BY <1>6, InChain DEF TypeOK, DescType, Described
    <3> QED  BY <2>1, <3>1, GiveDesc
  <2>3. TypeOK'
    BY <1>6, <1>9, <2>1, <2>2 DEF TypeOK, DescType, DaemonType
  <2>4. ~stale' => Memory'
    BY <1>6, <1>10, <1>12, <2>1, OneFewer
  <2> QED  BY <1>6, <1>9, <1>10, <2>3, <2>4 DEF KInv
<1> QED  BY <1>11, <1>12

-----------------------------------------------------------------------------
(* The invariant.                                                           *)

\* At first all frames are free and there is no descriptor.
LEMMA InitialMemory == Init => TypeOK /\ Memory
<1> SUFFICES ASSUME Init  PROVE TypeOK /\ Memory
  OBVIOUS
<1>1. \A c \in Classes : chain[c] = <<>> /\ ToSet(chain[c]) = {}
  BY DEF Init, ToSet
<1>2. spare = <<>> /\ ToSet(spare) = {} /\ free = Frames
  BY DEF Init, ToSet
<1>3. Chained = {} /\ Tables = {} /\ Used = {}
  BY <1>1, <1>2, InitUnused DEF Chained, Tables
<1>4. IsInjective(spare) /\ \A c \in Classes : IsInjective(chain[c])
  BY <1>1, <1>2 DEF IsInjective
<1>5. Memory
  BY <1>1, <1>2, <1>3, <1>4
     DEF Memory, ChainsDescribe, UsedDescribed, DescsApart, FramesApart
<1>6. desc \in [Descs -> DescType]
  <2>1. 0 \in 0 .. PAGE_SIZE /\ First \in Classes /\ <<>> \in Seq(Nat)
    BY PageSize, ClassesNat
  <2> QED  BY <2>1 DEF Init, DescType
<1>7. call \in [Threads -> CallType] /\ daemon \in DaemonType
  BY IdleType, ClassesNat DEF Init, DaemonType
<1>8. /\ chain \in [Classes -> Seq(Descs)] /\ cache \in [Classes -> Seq(Nat)]
      /\ spare \in Seq(Descs) /\ owner \in [Frames -> Descs \cup {NoDesc}] /\ free \subseteq Frames
      /\ held \in [Threads -> SUBSET (Nat \X Classes)] /\ stale \in BOOLEAN
  <2>1. <<>> \in Seq(Descs) /\ <<>> \in Seq(Nat)
    OBVIOUS
  <2>2. chain \in [Classes -> Seq(Descs)] /\ cache \in [Classes -> Seq(Nat)]
    BY <2>1 DEF Init
  <2>3. owner \in [Frames -> Descs \cup {NoDesc}]
    BY DEF Init
  <2>4. held \in [Threads -> SUBSET (Nat \X Classes)]
    BY DEF Init
  <2> QED  BY <1>2, <2>1, <2>2, <2>3, <2>4 DEF Init
<1>9. TypeOK
  BY <1>6, <1>7, <1>8 DEF TypeOK, DescType, CallType, DaemonType
<1> QED  BY <1>5, <1>9

\* The invariant holds at first.
LEMMA KInvInitially == Init => KInv
<1> SUFFICES ASSUME Init  PROVE KInv
  OBVIOUS
<1>1. daemon.at # "put" /\ \A t \in Threads : call[t].at # "size"
  BY IdleType DEF Init
<1> QED  BY <1>1, InitUnused, InitialMemory DEF KInv

\* Every step keeps the invariant, one case per step of a thread or the daemon.
LEMMA KInvKept == KInv /\ [Next]_vars => KInv'
<1> SUFFICES ASSUME KInv, [Next]_vars  PROVE KInv'
  OBVIOUS
<1>1. CASE UNCHANGED vars
  <2>1. /\ UNCHANGED <<chain, desc, spare, owner, free>>
        /\ UNCHANGED <<cache, held, call, daemon, stale>>
    BY <1>1 DEF vars
  <2>2. TypeOK' /\ \A t \in Threads : call'[t].at = "size" => call'[t].d \in Descs
    BY <2>1 DEF KInv, TypeOK
  <2>3. Freers' = Freers
    BY <2>1 DEF Freers
  <2>4. Apart => Apart'
    BY <2>1, <2>3 DEF Apart
  <2>5. \A x \in Nat, e \in Classes : Uses(x, e)' <=> Uses(x, e)
    BY <2>1, <2>3 DEF Uses
  <2>6. Memory => Memory'
    BY <2>1, <2>5, SameUsed, SameMemory
  <2> QED  BY <2>1, <2>2, <2>4, <2>6 DEF KInv
<1>2. ASSUME ~ UNCHANGED vars  PROVE KInv'
  <2>1. ~stale /\ (free_cache \/ \E t \in Threads :
          \/ \E len \in Lens : kmalloc(t, len) \/ TooLong(len)
          \/ TakeFree(t) \/ TakeNew(t) \/ kfree(t) \/ ReadSize(t) \/ Push(t))
    BY <1>2 DEF Next
  <2>2. CASE TakeLast
    BY <2>1, <2>2, TakeLastStep
  <2>3. CASE NextCache
    BY <2>1, <2>3, NextCacheStep
  <2>4. CASE Put
    BY <2>1, <2>4, PutStep
  <2>5. ASSUME NEW t \in Threads, NEW len \in Lens, kmalloc(t, len)  PROVE KInv'
    BY <2>1, <2>5, KmallocStep
  <2>6. ASSUME NEW len \in Lens, TooLong(len)  PROVE KInv'
    BY <1>2, <2>6 DEF TooLong
  <2>7. ASSUME NEW t \in Threads, TakeFree(t)  PROVE KInv'
    BY <2>1, <2>7, TakeFreeStep
  <2>8. ASSUME NEW t \in Threads, TakeNew(t)  PROVE KInv'
    BY <2>1, <2>8, TakeNewStep
  <2>9. ASSUME NEW t \in Threads, kfree(t)  PROVE KInv'
    BY <2>1, <2>9, KfreeStep
  <2>10. ASSUME NEW t \in Threads, ReadSize(t)  PROVE KInv'
    BY <2>1, <2>10, ReadSizeStep
  <2>11. ASSUME NEW t \in Threads, Push(t)  PROVE KInv'
    BY <2>1, <2>11, PushStep
  <2> QED  BY <2>1, <2>2, <2>3, <2>4, <2>5, <2>6, <2>7, <2>8, <2>9, <2>10, <2>11 DEF free_cache
<1> QED  BY <1>1, <1>2

\* However many threads allocate and free and whatever pages free_cache gives
\* back and kmalloc gets: each object is in one place, a descriptor counts the
\* objects of its page, and each frame and each descriptor has one use.
THEOREM KmallocInvariant == Spec => []KInv
<1>1. Init => KInv
  BY KInvInitially
<1>2. KInv /\ [Next]_vars => KInv'
  BY KInvKept
<1> QED  BY <1>1, <1>2, PTL DEF Spec

\* No variable leaves its type: no count of a page's objects wraps around or
\* passes what the page can hold, and no list names what is no descriptor.
THEOREM KmallocTypes == Spec => []TypeOK
<1>1. KInv => TypeOK
  BY DEF KInv
<1> QED  BY <1>1, KmallocInvariant, PTL

-----------------------------------------------------------------------------
(* What this invariant means for those who use kmalloc: the properties that *)
(* TLC checks in Kmalloc.                                                   *)

-----------------------------------------------------------------------------
(* The places objects are in.                                               *)

\* InUse, place by place.
InPlace(u) ==
    \/ \E t \in Threads : \E b \in held[t] : u = <<b[1], b[2], <<"held", t>>>>
    \/ \E t \in Freers : u = <<call[t].obj, call[t].c, <<"kfree", t>>>>
    \/ \E c \in Classes : \E i \in DOMAIN cache[c] : u = <<cache[c][i], c, <<"cache", i>>>>
    \/ daemon.at = "put" /\ u = <<daemon.obj, daemon.c, <<"daemon", 0>>>>

\* The definition of InUse, by membership.
LEMMA Places == \A u : u \in InUse <=> InPlace(u)
<1> SUFFICES ASSUME NEW u  PROVE u \in InUse <=> InPlace(u)
  OBVIOUS
<1> DEFINE A == UNION {{<<b[1], b[2], <<"held", t>>>> : b \in held[t]} : t \in Threads}
           B == {<<call[t].obj, call[t].c, <<"kfree", t>>>> :
                  t \in {s \in Threads : call[s].at \in {"size", "push"}}}
           C == UNION {{<<cache[c][i], c, <<"cache", i>>>> : i \in DOMAIN cache[c]} :
                        c \in Classes}
           D == IF daemon.at = "put" THEN {<<daemon.obj, daemon.c, <<"daemon", 0>>>>} ELSE {}
<1>5. InUse = A \cup B \cup C \cup D
  BY DEF InUse
<1>6. u \in A <=> \E t \in Threads : \E b \in held[t] : u = <<b[1], b[2], <<"held", t>>>>
  OBVIOUS
<1>7. u \in B <=> \E t \in Freers : u = <<call[t].obj, call[t].c, <<"kfree", t>>>>
  BY DEF Freers
<1>8. u \in C
        <=> \E c \in Classes : \E i \in DOMAIN cache[c] : u = <<cache[c][i], c, <<"cache", i>>>>
  OBVIOUS
<1>9. u \in D <=> daemon.at = "put" /\ u = <<daemon.obj, daemon.c, <<"daemon", 0>>>>
  OBVIOUS
<1> HIDE DEF A, B, C, D
<1>10. u \in InUse <=> (u \in A \/ u \in B \/ u \in C \/ u \in D)
  BY <1>5
<1> QED  BY <1>6, <1>7, <1>8, <1>9, <1>10 DEF InPlace

\* A place is an object, its size and where it is.
LEMMA Parts == \A a, c, w : <<a, c, w>>[1] = a /\ <<a, c, w>>[2] = c /\ <<a, c, w>>[3] = w
OBVIOUS

\* An object that is in a place is in use, and conversely.
LEMMA PlacedUses ==
    ASSUME TypeOK, NEW u \in InUse
    PROVE  u[1] \in Nat /\ u[2] \in Classes /\ Uses(u[1], u[2])
<1>1. CASE \E t \in Threads : \E b \in held[t] : u = <<b[1], b[2], <<"held", t>>>>
  <2>1. PICK t \in Threads, b \in UNION {held[s] : s \in Threads} :
          b \in held[t] /\ u = <<b[1], b[2], <<"held", t>>>>
    BY <1>1
  <2>2. b \in Nat \X Classes /\ b = <<b[1], b[2]>>
    BY SMTT(30) DEF TypeOK
  <2> QED  BY <2>1, <2>2, Parts DEF Uses
<1>2. CASE \E t \in Freers : u = <<call[t].obj, call[t].c, <<"kfree", t>>>>
  <2>1. PICK t \in Freers : u = <<call[t].obj, call[t].c, <<"kfree", t>>>>
    BY <1>2
  <2>2. call[t].obj \in Nat /\ call[t].c \in Classes
    BY DEF TypeOK, Freers
  <2> QED  BY <2>1, <2>2, Parts DEF Uses
<1>3. CASE \E c \in Classes : \E i \in DOMAIN cache[c] : u = <<cache[c][i], c, <<"cache", i>>>>
  <2>1. PICK c \in Classes : \E i \in DOMAIN cache[c] : u = <<cache[c][i], c, <<"cache", i>>>>
    BY <1>3
  <2>2. PICK i \in DOMAIN cache[c] : u = <<cache[c][i], c, <<"cache", i>>>>
    BY <2>1
  <2>3. PICK q \in Seq(Nat) : q = cache[c]
    BY DEF TypeOK
  <2>4. q[i] \in ToSet(q) /\ q[i] \in Nat
    BY <2>2, <2>3, Elements
  <2> QED  BY <2>2, <2>3, <2>4, Parts DEF Uses
<1>4. CASE daemon.at = "put" /\ u = <<daemon.obj, daemon.c, <<"daemon", 0>>>>
  <2>1. daemon.obj \in Nat /\ daemon.c \in Classes
    BY DEF TypeOK
  <2> QED  BY <1>4, <2>1, Parts DEF Uses
<1> QED  BY <1>1, <1>2, <1>3, <1>4, Places DEF InPlace

\* ... an object in use is in some place.
LEMMA UsedPlaced ==
    ASSUME TypeOK, NEW a \in Nat, NEW c \in Classes, Uses(a, c)
    PROVE  \E u \in InUse : u[1] = a /\ u[2] = c
<1>1. CASE \E t \in Threads : <<a, c>> \in held[t]
  <2>1. PICK t \in Threads : <<a, c>> \in held[t]
    BY <1>1
  <2>2. <<a, c>>[1] = a /\ <<a, c>>[2] = c
    OBVIOUS
  <2>3. InPlace(<<a, c, <<"held", t>>>>)
    BY <2>1, <2>2 DEF InPlace
  <2> QED  BY <2>3, Places, Parts
<1>2. CASE \E t \in Freers : call[t].obj = a /\ call[t].c = c
  <2>1. PICK t \in Freers : call[t].obj = a /\ call[t].c = c
    BY <1>2
  <2>2. InPlace(<<a, c, <<"kfree", t>>>>)
    BY <2>1 DEF InPlace
  <2> QED  BY <2>2, Places, Parts
<1>3. CASE a \in ToSet(cache[c])
  <2>1. PICK i \in DOMAIN cache[c] : cache[c][i] = a
    BY <1>3 DEF ToSet
  <2>2. InPlace(<<a, c, <<"cache", i>>>>)
    BY <2>1 DEF InPlace
  <2> QED  BY <2>2, Places, Parts
<1>4. CASE daemon.at = "put" /\ daemon.obj = a /\ daemon.c = c
  <2>1. InPlace(<<a, c, <<"daemon", 0>>>>)
    BY <1>4 DEF InPlace
  <2> QED  BY <2>1, Places, Parts
<1> QED  BY <1>1, <1>2, <1>3, <1>4 DEF Uses

\* An object is in one place: by the place of u, then by that of v.
LEMMA OnePlace ==
    ASSUME TypeOK, Apart, NEW u \in InUse, NEW v \in InUse, u[1] = v[1]
    PROVE  u = v
<1> DEFINE Held(w) == \E t \in Threads : \E b \in held[t] : w = <<b[1], b[2], <<"held", t>>>>
           Going(w) == \E t \in Freers : w = <<call[t].obj, call[t].c, <<"kfree", t>>>>
           Kept(w) == \E c \in Classes : \E i \in DOMAIN cache[c] :
                        w = <<cache[c][i], c, <<"cache", i>>>>
           AtDaemon(w) == daemon.at = "put" /\ w = <<daemon.obj, daemon.c, <<"daemon", 0>>>>
<1>1. \A w \in InUse : Held(w) \/ Going(w) \/ Kept(w) \/ AtDaemon(w)
  BY Places DEF InPlace
<1>2. ASSUME NEW w \in InUse, NEW z \in InUse, w[1] = z[1], Held(w)
      PROVE  w = z
  <2>1. PICK t \in Threads, b \in UNION {held[s] : s \in Threads} :
          b \in held[t] /\ w = <<b[1], b[2], <<"held", t>>>> /\ w[1] = b[1]
    BY <1>2, Parts
  <2>2. CASE Held(z)
    <3>1. PICK s \in Threads, e \in UNION {held[r] : r \in Threads} :
            e \in held[s] /\ z = <<e[1], e[2], <<"held", s>>>> /\ z[1] = e[1]
      BY <2>2, Parts
    <3>2. b = e /\ t = s
      BY <1>2, <2>1, <3>1 DEF Apart
    <3> QED  BY <2>1, <3>1, <3>2
  <2>3. CASE Going(z)
    <3>1. PICK s \in Freers : z[1] = call[s].obj
      BY <2>3, Parts
    <3> QED  BY <1>2, <2>1, <3>1 DEF Apart
  <2>4. CASE Kept(z)
    <3>1. PICK c \in Classes : z[1] \in ToSet(cache[c])
      BY <2>4, Parts DEF ToSet
    <3> QED  BY <1>2, <2>1, <3>1 DEF Apart
  <2>5. CASE AtDaemon(z)
    <3>1. daemon.at = "put" /\ z[1] = daemon.obj
      BY <2>5, Parts
    <3> QED  BY <1>2, <2>1, <3>1 DEF Apart
  <2> QED  BY <1>1, <2>2, <2>3, <2>4, <2>5
<1>3. ASSUME NEW w \in InUse, NEW z \in InUse, w[1] = z[1], Going(w), ~Held(z)
      PROVE  w = z
  <2>1. PICK t \in Freers : w = <<call[t].obj, call[t].c, <<"kfree", t>>>> /\ w[1] = call[t].obj
    BY <1>3, Parts
  <2>2. CASE Going(z)
    <3>1. PICK s \in Freers : z = <<call[s].obj, call[s].c, <<"kfree", s>>>> /\ z[1] = call[s].obj
      BY <2>2, Parts
    <3>2. t = s
      BY <1>3, <2>1, <3>1 DEF Apart
    <3> QED  BY <2>1, <3>1, <3>2
  <2>3. CASE Kept(z)
    <3>1. PICK c \in Classes : z[1] \in ToSet(cache[c])
      BY <2>3, Parts DEF ToSet
    <3> QED  BY <1>3, <2>1, <3>1 DEF Apart
  <2>4. CASE AtDaemon(z)
    <3>1. daemon.at = "put" /\ z[1] = daemon.obj
      BY <2>4, Parts
    <3> QED  BY <1>3, <2>1, <3>1 DEF Apart
  <2> QED  BY <1>1, <1>3, <2>2, <2>3, <2>4
<1>4. ASSUME NEW w \in InUse, NEW z \in InUse, w[1] = z[1], Kept(w), ~Held(z), ~Going(z)
      PROVE  w = z
  <2>0. PICK c \in Classes : \E i \in DOMAIN cache[c] : w = <<cache[c][i], c, <<"cache", i>>>>
    BY <1>4
  <2>1. PICK i \in DOMAIN cache[c] : w = <<cache[c][i], c, <<"cache", i>>>> /\ w[1] = cache[c][i]
    BY <2>0, Parts
  <2>2. CASE Kept(z)
    <3>0. PICK e \in Classes : \E j \in DOMAIN cache[e] : z = <<cache[e][j], e, <<"cache", j>>>>
      BY <2>2
    <3>1. PICK j \in DOMAIN cache[e] : z = <<cache[e][j], e, <<"cache", j>>>> /\ z[1] = cache[e][j]
      BY <3>0, Parts
    <3>2. c = e
      <4>1. w[1] \in ToSet(cache[c]) /\ w[1] \in ToSet(cache[e])
        BY <1>4, <2>1, <3>1 DEF ToSet
      <4> QED  BY <4>1 DEF Apart
    <3>3. i = j
      BY <1>4, <2>1, <3>1, <3>2 DEF Apart, IsInjective
    <3> QED  BY <2>1, <3>1, <3>2, <3>3
  <2>3. CASE AtDaemon(z)
    <3>1. daemon.at = "put" /\ z[1] = daemon.obj /\ z[1] \in ToSet(cache[c])
      BY <1>4, <2>1, <2>3, Parts DEF ToSet
    <3> QED  BY <3>1 DEF Apart
  <2> QED  BY <1>1, <1>4, <2>2, <2>3
<1> QED  BY <1>1, <1>2, <1>3, <1>4

\* As many places as objects: the places on a page, each with its object.
LEMMA PlacesOn ==
    ASSUME TypeOK, Apart, NEW p \in Nat
    PROVE  /\ Cardinality({u \in InUse : PageOf(u[1]) = p}) = Cardinality(UsedOn(p))
           /\ {u[1] : u \in {v \in InUse : PageOf(v[1]) = p}} = UsedOn(p)
<1>1. PICK S : S = {u \in InUse : PageOf(u[1]) = p}
  OBVIOUS
<1>2. \A u \in S : u \in InUse /\ u[1] \in UsedOn(p)
  <2>1. \A u \in S : u \in InUse /\ PageOf(u[1]) = p
    BY <1>1
  <2>2. \A u \in InUse : u[1] \in Nat /\ u[2] \in Classes /\ Uses(u[1], u[2])
    BY PlacedUses
  <2> QED  BY <2>1, <2>2, UsedMember
<1>3. \A a \in UsedOn(p) : \E u \in S : u[1] = a
  <2> SUFFICES ASSUME NEW a \in UsedOn(p)  PROVE \E u \in S : u[1] = a
    OBVIOUS
  <2>1. PICK c \in Classes : Uses(a, c) /\ PageOf(a) = p /\ a \in Nat
    BY UsedBound
  <2>2. PICK u \in InUse : u[1] = a
    BY <2>1, UsedPlaced
  <2> QED  BY <1>1, <2>1, <2>2
<1>4. \A u, v \in S : u[1] = v[1] => u = v
  BY <1>2, OnePlace
<1>5. PICK f : f = [u \in S |-> u[1]]
  OBVIOUS
<1>6. f \in Bijection(S, UsedOn(p))
  <2>1. f \in [S -> UsedOn(p)]
    BY <1>2, <1>5
  <2>2. \A u, v \in S : f[u] = f[v] => u = v
    BY <1>4, <1>5
  <2>3. \A a \in UsedOn(p) : \E u \in S : f[u] = a
    BY <1>3, <1>5
  <2> QED  BY <2>1, <2>2, <2>3 DEF Bijection, Injection, Surjection, IsInjective
<1>7. Cardinality(S) = Cardinality(UsedOn(p))
  <2>1. ExistsBijection(UsedOn(p), S)
    BY <1>6, Fun_ExistsBijSymmetric DEF ExistsBijection
  <2>2. IsFiniteSet(UsedOn(p))
    BY UsedBound
  <2> QED  BY <2>1, <2>2, FS_Bijection
<1>8. {u[1] : u \in S} = UsedOn(p)
  BY <1>2, <1>3
<1> QED  BY <1>1, <1>7, <1>8

-----------------------------------------------------------------------------
(* The properties.                                                          *)

\* Objects are where the invariant says, and are as many.
LEMMA KInvObjects == KInv => ObjectsExact
<1> SUFFICES ASSUME KInv, ~stale  PROVE ObjectsExact
  BY DEF ObjectsExact
<1>1. TypeOK /\ Apart /\ Memory
  BY DEF KInv
<1>2. \A u, v \in InUse : u[1] = v[1] => u = v
  BY <1>1, OnePlace
<1>3. ASSUME NEW c \in Classes, NEW d \in ToSet(chain[c]),
             NEW S, S = {u \in InUse : PageOf(u[1]) = desc[d].page},
             NEW all, all = ToSet(ObjectsOf(desc[d].page, c))
      PROVE  /\ desc[d].ref_cnt = Cardinality(S)
             /\ \A u \in S : u[1] \in all /\ u[2] = c
             /\ ToSet(desc[d].free) \subseteq all \ {u[1] : u \in S}
             /\ IsInjective(desc[d].free)
  <2>1. PICK p \in Nat : p = desc[d].page
    BY <1>1, InChain
  <2>2. Described(d, c)
    BY <1>1, InChain
  <2>3. Cardinality(S) = Cardinality(UsedOn(p)) /\ {u[1] : u \in S} = UsedOn(p)
    BY <1>1, <1>3, <2>1, PlacesOn
  <2>4. ASSUME NEW u \in S  PROVE u[1] \in all /\ u[2] = c
    <3>1. /\ u[1] \in Nat /\ u[2] \in Classes /\ Uses(u[1], u[2])
          /\ PageOf(u[1]) = desc[d].page
      BY <1>1, <1>3, <2>4, PlacedUses
    <3>2. /\ owner[PageOf(u[1])] \in ToSet(chain[u[2]])
          /\ u[1] \in ToSet(ObjectsOf(PageOf(u[1]), u[2]))
      BY <1>1, <3>1, OwnerOf
    <3>3. owner[PageOf(u[1])] = d
      BY <2>2, <3>1 DEF Described
    <3>4. u[2] = c
      BY <1>1, <3>1, <3>2, <3>3 DEF Memory, DescsApart
    <3> QED  BY <1>3, <3>1, <3>2, <3>4
  <2> QED  BY <1>3, <2>1, <2>2, <2>3, <2>4 DEF Described
<1> QED  BY <1>2, <1>3 DEF ObjectsExact

\* Every object is in one place, and a descriptor's ref_cnt is the number of
\* its page's objects that are held, cached or on the way: free_cache, which
\* gives a page back when ref_cnt reaches 0, finds it empty, for all numbers of
\* threads, frames and sizes.
THEOREM ObjectsCounted == Spec => []ObjectsExact
BY KmallocInvariant, KInvObjects, PTL

\* The frame table is exact for what is in use.
LEMMA KInvOwners == KInv => OwnersExact
<1> SUFFICES ASSUME KInv, ~stale, NEW u \in InUse
             PROVE  /\ owner[PageOf(u[1])] \in ToSet(chain[u[2]])
                    /\ desc[owner[PageOf(u[1])]].page = PageOf(u[1])
  BY DEF OwnersExact
<1>1. TypeOK /\ Memory
  BY DEF KInv
<1>2. u[1] \in Nat /\ u[2] \in Classes /\ Uses(u[1], u[2])
  BY <1>1, PlacedUses
<1> QED  BY <1>1, <1>2, OwnerOf

\* However often free_cache and kmalloc move pages from descriptor to
\* descriptor, the frame table leads from an object in use to the descriptor of
\* its page, and this is in the chain of the object's size.
THEOREM OwnersKnown == Spec => []OwnersExact
BY KmallocInvariant, KInvOwners, PTL

\* The frames are split as the invariant says.
LEMMA KInvFrames == KInv => FramesExact
<1> SUFFICES ASSUME KInv, ~stale  PROVE FramesExact
  BY DEF FramesExact
<1>1. TypeOK /\ Memory /\ DescsApart /\ FramesApart
  BY DEF KInv, Memory
<1>2. PICK tables, pages : /\ tables = {d[1] : d \in Chained \cup ToSet(spare)}
                           /\ pages = {desc[d].page : d \in Chained}
  OBVIOUS
<1>3. /\ tables = Tables /\ \A f : f \in pages <=> \E d \in Chained : desc[d].page = f
  BY <1>2 DEF Tables
<1>4. \A d \in Chained \cup ToSet(spare) :
        /\ d \in Descs /\ d = <<d[1], d[2]>> /\ d[1] \in Frames /\ d[2] \in 1 .. PerPage
        /\ d[1] \in tables
  <2>1. spare \in Seq(Descs) /\ \A c \in Classes : chain[c] \in Seq(Descs)
    BY <1>1 DEF TypeOK
  <2>2. (\A d \in ToSet(spare) : d \in Descs) /\ \A d \in Chained : d \in Descs
    BY <2>1, Elements DEF Chained
  <2> QED  BY <1>2, <2>2 DEF Descs
<1>5. \A d \in Chained : desc[d].page \in Frames
  BY <1>1, InChain DEF Chained
<1>6. free \cup tables \cup pages = Frames
  <2>1. free \subseteq Frames
    BY <1>1 DEF TypeOK
  <2>2. tables \subseteq Frames
    BY <1>2, <1>4
  <2>3. pages \subseteq Frames
    BY <1>3, <1>5
  <2> QED  BY <1>1, <1>3, <2>1, <2>2, <2>3 DEF FramesApart
<1>7. free \cap tables = {} /\ free \cap pages = {} /\ tables \cap pages = {}
  BY <1>1, <1>3 DEF FramesApart
<1>8. \A d, e \in Chained : desc[d].page = desc[e].page => d = e
  BY <1>1, PagesDiffer
<1>9. tables \X (1 .. PerPage) = Chained \cup ToSet(spare)
  <2>1. \A f \in tables, i \in 1 .. PerPage : <<f, i>> \in Chained \cup ToSet(spare)
    BY <1>1, <1>3 DEF FramesApart
  <2>2. \A d \in Chained \cup ToSet(spare) : d \in tables \X (1 .. PerPage)
    BY <1>4
  <2> QED  BY <2>1, <2>2
<1>10. IsInjective(spare) /\ Chained \cap ToSet(spare) = {}
  BY <1>1 DEF DescsApart
<1>11. \A c \in Classes : /\ IsInjective(chain[c])
                          /\ \A e \in Classes \ {c} : ToSet(chain[c]) \cap ToSet(chain[e]) = {}
  BY <1>1 DEF DescsApart
<1> QED  BY <1>2, <1>6, <1>7, <1>8, <1>9, <1>10, <1>11 DEF FramesExact

\* Each page frame is free, or a page of descriptors, or the page of exactly
\* one descriptor in a chain, and each descriptor is in one chain or spare: no
\* page is given back or handed out twice, and none is lost.
THEOREM FramesAccounted == Spec => []FramesExact
BY KmallocInvariant, KInvFrames, PTL

-----------------------------------------------------------------------------
(* The refinement: a thread's objects are ranges of bytes nobody else has.  *)

Bytes == UNION {f * PAGE_SIZE .. f * PAGE_SIZE + PAGE_SIZE - 1 : f \in Frames}

\* An object lies within its page.
LEMMA OnPage ==
    ASSUME NEW p \in Nat, NEW c \in Classes, NEW a \in ToSet(ObjectsOf(p, c)),
           NEW m, m = PAGE_SIZE
    PROVE  p * m \in Nat /\ p * m <= a /\ a + c - 1 <= p * m + m - 1
<1>1. PICK k : k = p * m
  OBVIOUS
<1>2. a \in Nat /\ PageOf(a) = p /\ a + c - 1 <= p * PAGE_SIZE + PAGE_SIZE - 1
  BY Objects
<1>3. a \in p * PAGE_SIZE .. p * PAGE_SIZE + PAGE_SIZE - 1
  BY <1>2, Addresses
<1>4. a + c - 1 <= k + m - 1 /\ a \in k .. k + m - 1
  BY <1>1, <1>2, <1>3
<1>5. k \in Nat
  BY <1>1, PageSize
<1> QED  BY <1>1, <1>4, <1>5

\* Objects in use lie in the page frames, and two of them do not overlap: they
\* are on different pages or, the sizes being the same, at different offsets.
LEMMA NoOverlap ==
    ASSUME TypeOK, Memory, NEW a \in Nat, NEW c \in Classes, Uses(a, c)
    PROVE  /\ a .. a + c - 1 \subseteq Bytes
           /\ \A b \in Nat, e \in Classes :
                Uses(b, e) /\ a # b => (a .. a + c - 1) \cap (b .. b + e - 1) = {}
<1>1. PICK p \in Frames : p = PageOf(a)
  BY OwnerOf
<1>2. /\ p \in Nat /\ c \in Nat \ {0} /\ a \in ToSet(ObjectsOf(p, c))
      /\ owner[p] \in ToSet(chain[c])
  BY <1>1, FrameNat, OwnerOf
<1>3. PICK m \in Nat : m = PAGE_SIZE
  BY PageSize
<1>4. p * m \in Nat /\ p * m <= a /\ a + c - 1 <= p * m + m - 1
  BY <1>2, <1>3, OnPage
<1>5. a .. a + c - 1 \subseteq p * m .. p * m + m - 1
  BY <1>2, <1>3, <1>4
<1>6. a .. a + c - 1 \subseteq Bytes
  BY <1>3, <1>5 DEF Bytes
<1>7. ASSUME NEW b \in Nat, NEW e \in Classes, Uses(b, e), a # b
      PROVE  (a .. a + c - 1) \cap (b .. b + e - 1) = {}
  <2>1. PICK q \in Frames : q = PageOf(b)
    BY <1>7, OwnerOf
  <2>2. /\ q \in Nat /\ e \in Nat \ {0} /\ b \in ToSet(ObjectsOf(q, e))
        /\ owner[q] \in ToSet(chain[e])
    BY <1>7, <2>1, FrameNat, OwnerOf
  <2>3. CASE p = q
    <3>1. c = e
      BY <1>2, <2>2, <2>3 DEF Memory, DescsApart
    <3>2. a + c <= b \/ b + c <= a
      BY <1>2, <1>7, <2>2, <2>3, <3>1, Objects
    <3> QED  BY <1>2, <3>1, <3>2
  <2>4. CASE p # q
    <3>1. \A x \in a .. a + c - 1 : x \in Nat /\ PageOf(x) = p
      <4> SUFFICES ASSUME NEW x \in a .. a + c - 1  PROVE x \in Nat /\ PageOf(x) = p
        OBVIOUS
      <4>1. x - p * m \in 0 .. m - 1 /\ x = p * m + (x - p * m)
        BY <1>2, <1>3, <1>4
      <4> QED  BY <1>2, <1>3, <4>1, Addresses
    <3>2. q * m \in Nat /\ q * m <= b /\ b + e - 1 <= q * m + m - 1
      BY <1>3, <2>2, OnPage
    <3>3. \A x \in b .. b + e - 1 : x \in Nat /\ PageOf(x) = q
      <4> SUFFICES ASSUME NEW x \in b .. b + e - 1  PROVE x \in Nat /\ PageOf(x) = q
        OBVIOUS
      <4>1. x - q * m \in 0 .. m - 1 /\ x = q * m + (x - q * m)
        BY <1>3, <2>2, <3>2
      <4> QED  BY <1>3, <2>2, <4>1, Addresses
    <3> QED  BY <2>4, <3>1, <3>3
  <2> QED  BY <2>3, <2>4
<1> QED  BY <1>6, <1>7

\* What the threads hold is apart, in bytes.
HeldApart ==
    ~stale => \A t \in Threads : \A b \in held[t] :
      /\ b \in Nat \X Classes /\ b[1] .. b[1] + b[2] - 1 \subseteq Bytes
      /\ \A u \in Threads : \A e \in held[u] :
           b[1] # e[1] => (b[1] .. b[1] + b[2] - 1) \cap (e[1] .. e[1] + e[2] - 1) = {}

\* What is held is a part of what is in use.
LEMMA KInvHeld == KInv => HeldApart
<1> SUFFICES ASSUME KInv, ~stale, NEW t \in Threads, NEW b \in held[t]
             PROVE  /\ b \in Nat \X Classes /\ b[1] .. b[1] + b[2] - 1 \subseteq Bytes
                    /\ \A u \in Threads : \A e \in held[u] : b[1] # e[1] =>
                         (b[1] .. b[1] + b[2] - 1) \cap (e[1] .. e[1] + e[2] - 1) = {}
  BY DEF HeldApart
<1>1. TypeOK /\ Memory
  BY DEF KInv
<1>2. \A u \in Threads : \A e \in held[u] :
        e \in Nat \X Classes /\ e[1] \in Nat /\ e[2] \in Classes /\ Uses(e[1], e[2])
  <2> SUFFICES ASSUME NEW u \in Threads, NEW e \in held[u]
               PROVE  /\ e \in Nat \X Classes /\ e[1] \in Nat /\ e[2] \in Classes
                      /\ Uses(e[1], e[2])
    OBVIOUS
  <2>1. e \in Nat \X Classes /\ e = <<e[1], e[2]>>
    BY SMTT(30), <1>1 DEF TypeOK
  <2> QED  BY <2>1 DEF Uses
<1> QED  BY <1>1, <1>2, NoOverlap

\* An object handed out is granted.
LEMMA GrantStep ==
    ASSUME TypeOK, ~stale, ~stale', HeldApart', NEW t \in Threads, HandsOut(t)
    PROVE  Abstract!Next
<1>1. PICK a \in Nat, c \in Classes :
        /\ \A u \in Threads, e \in Classes : <<a, e>> \notin held[u]
        /\ held' = [held EXCEPT ![t] = @ \cup {<<a, c>>}]
  BY DEF HandsOut
<1>2. held \in [Threads -> SUBSET (Nat \X Classes)]
  BY DEF TypeOK
<1>3. <<a, c>> \in held'[t] /\ <<a, c>>[1] = a /\ <<a, c>>[2] = c
  BY <1>1, <1>2
<1>4. a .. a + c - 1 \subseteq Bytes
  BY <1>3 DEF HeldApart
<1>5. ASSUME NEW u \in Threads, NEW e \in held[u]
      PROVE  (a .. a + c - 1) \cap (e[1] .. e[1] + e[2] - 1) = {}
  <2>1. e \in held'[u] /\ e \in Nat \X Classes /\ e = <<e[1], e[2]>>
    BY <1>1, <1>2
  <2>2. a # e[1]
    BY <1>1, <2>1
  <2> QED  BY <1>3, <2>1, <2>2 DEF HeldApart
<1>6. Abstract!Grant(t, <<a, c>>)
  BY <1>1, <1>3, <1>4, <1>5 DEF Abstract!Grant, Abstract!RangeOf, Bytes
<1>7. a \in Bytes
  <2>1. c \in Nat \ {0}
    BY FrameNat
  <2> QED  BY <1>4, <2>1
<1> QED  BY <1>6, <1>7 DEF Abstract!Next, Bytes

\* An object given to kfree is given back.
LEMMA GiveBackStep ==
    ASSUME TypeOK, HeldApart, ~stale, NEW t \in Threads, kfree(t)
    PROVE  Abstract!Next
<1>1. PICK b \in held[t] : held' = [held EXCEPT ![t] = @ \ {b}]
  BY DEF kfree
<1>2. PICK a \in Nat, c \in Classes : b = <<a, c>> /\ b[1] = a /\ b[2] = c
  <2>1. b \in Nat \X Classes
    BY DEF TypeOK
  <2> QED  BY <2>1
<1>3. a \in Bytes
  <2>1. a .. a + c - 1 \subseteq Bytes
    BY <1>2 DEF HeldApart
  <2>2. c \in Nat \ {0}
    BY FrameNat
  <2> QED  BY <2>1, <2>2
<1>4. Abstract!GiveBack(t, <<a, c>>)
  BY <1>1, <1>2 DEF Abstract!GiveBack
<1> QED  BY <1>3, <1>4 DEF Abstract!Next, Bytes

\* Each step is a grant, or an object given back, or nobody's objects change.
LEMMA StepRefines == KInv /\ HeldApart /\ HeldApart' /\ [Next]_vars => [Abstract!Next]_held
<1> SUFFICES ASSUME KInv, HeldApart, HeldApart', [Next]_vars, ~ UNCHANGED held
             PROVE  Abstract!Next
  OBVIOUS
<1>1. TypeOK
  BY DEF KInv
<1>2. ~stale /\ (free_cache \/ \E t \in Threads :
        \/ \E len \in Lens : kmalloc(t, len) \/ TooLong(len)
        \/ TakeFree(t) \/ TakeNew(t) \/ kfree(t) \/ ReadSize(t) \/ Push(t))
  BY DEF Next, vars
<1>3. ~free_cache /\ \A len \in Lens : ~TooLong(len)
  BY DEF free_cache, TakeLast, NextCache, Put, TooLong, vars
<1>4. PICK t \in Threads :
        \/ \E len \in Lens : kmalloc(t, len)
        \/ TakeFree(t) \/ TakeNew(t) \/ kfree(t)
  BY <1>2, <1>3 DEF ReadSize, Push
<1>5. ASSUME NEW len \in Lens, kmalloc(t, len)  PROVE Abstract!Next
  <2>1. HandsOut(t) /\ ~stale'
    BY <1>2, <1>5, KmallocStep DEF kmalloc
  <2> QED  BY <1>1, <1>2, <2>1, GrantStep
<1>6. CASE TakeFree(t)
  <2>1. HandsOut(t) /\ ~stale'
    BY <1>2, <1>6, TakeFreeStep DEF TakeFree
  <2> QED  BY <1>1, <1>2, <2>1, GrantStep
<1>7. CASE TakeNew(t)
  <2>1. HandsOut(t) /\ ~stale'
    BY <1>2, <1>7, TakeNewStep DEF TakeNew
  <2> QED  BY <1>1, <1>2, <2>1, GrantStep
<1>8. CASE kfree(t)
  BY <1>1, <1>2, <1>8, GiveBackStep
<1> QED  BY <1>4, <1>5, <1>6, <1>7, <1>8

\* kmalloc implements Pages for bytes: what it hands out lies in the page frames
\* and overlaps nothing that another call handed out and kfree has not got back,
\* for all numbers of threads, frames and sizes.
THEOREM KmallocKeepsPromise == Spec => KeepsPromise
<1>1. Init => Abstract!Init
  BY DEF Init, Abstract!Init
<1>2. KInv /\ HeldApart /\ HeldApart' /\ [Next]_vars => [Abstract!Next]_held
  BY StepRefines
<1> QED  BY <1>1, <1>2, KmallocInvariant, KInvHeld, PTL DEF Spec, KeepsPromise, Abstract!Spec
=============================================================================
