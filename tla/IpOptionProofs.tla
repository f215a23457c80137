-------------------------- MODULE IpOptionProofs --------------------------
(***************************************************************************)
(* Proofs about IpOption for all packets with any options and payloads,    *)
(* all CPUs and sequence numbers and any number of retries.                *)
(***************************************************************************)
EXTENDS IpOption, Integers, SequenceTheorems, WellFoundedInduction, TLAPS

---------------------------------------------------------------------------
(* Induction, on sets of numbers.                                          *)

(* A set of numbers that is not empty has a least one.                     *)
LEMMA LeastNumber ==
  ASSUME NEW T, T \subseteq Nat, T # {}
  PROVE  \E x \in T : \A y \in T : x <= y
<1>1. PICK x \in T : \A y \in T : ~ (<<y, x>> \in OpToRel(<, Nat))
  BY WFMin, NatLessThanWellFounded, Zenon
<1>2. \A y \in T : ~ (y < x)
  BY <1>1 DEF OpToRel
<1> QED
  BY <1>2

(* A set of numbers that has 0 and, with each below n, the next, has all   *)
(* up to n: the passes of a loop.                                          *)
LEMMA UpTo ==
  ASSUME NEW n \in Nat, NEW T, 0 \in T, \A i \in 0..(n - 1) : i \in T => i + 1 \in T
  PROVE  0..n \subseteq T
<1> SUFFICES ASSUME (0..n) \ T # {} PROVE FALSE
  OBVIOUS
<1>0. (0..n) \ T \subseteq Nat
  OBVIOUS
<1>1. PICK x \in (0..n) \ T : \A y \in (0..n) \ T : x <= y
  BY <1>0, LeastNumber
<1>2. x - 1 \in 0..(n - 1) /\ x - 1 \in T
  BY <1>1
<1>3. (x - 1) + 1 \in T
  BY <1>2
<1> QED
  BY <1>1, <1>3

(* A loop over a sequence that computes a value from the last one and the  *)
(* next element has a sequence of values.                                  *)
HasRun(S, op, b, w) ==
  \E g \in [0..Len(w) -> S] :
    g[0] = b /\ \A i \in 1..Len(w) : g[i] = op[<<g[i - 1], w[i]>>]

(* Every such loop does.                                                   *)
LEMMA LoopRuns ==
  ASSUME NEW S, NEW op \in [S \X S -> S], NEW b \in S, NEW w \in Seq(S)
  PROVE  HasRun(S, op, b, w)
<1> DEFINE n == Len(w)
           IsRun(k, g) == g[0] = b /\ \A i \in 1..k : g[i] = op[<<g[i - 1], w[i]>>]
           T == {k \in 0..n : \E g \in [0..k -> S] : IsRun(k, g)}
<1>1. n \in Nat /\ \A i \in 1..n : w[i] \in S
  OBVIOUS
<1>2. 0 \in T
  <2>1. IsRun(0, [i \in 0..0 |-> b]) /\ [i \in 0..0 |-> b] \in [0..0 -> S]
    OBVIOUS
  <2>2. 0 \in 0..n
    BY <1>1
  <2> HIDE DEF IsRun
  <2> QED
    BY <2>1, <2>2
<1>3. ASSUME NEW k \in 0..(n - 1), k \in T
      PROVE  k + 1 \in T
  <2>1. PICK g \in [0..k -> S] : IsRun(k, g)
    BY <1>3
  <2> DEFINE x == op[<<g[k], w[k + 1]>>]
             f == [i \in 0..(k + 1) |-> IF i = k + 1 THEN x ELSE g[i]]
  <2>2. x \in S
    BY <1>1
  <2>3. f \in [0..(k + 1) -> S]
    BY <1>1, <2>2
  <2>4. f[0] = b /\ \A i \in 1..k : f[i] = op[<<f[i - 1], w[i]>>]
    BY <1>1, <2>1
  <2>5. f[k + 1] = x /\ f[k] = g[k]
    BY <1>1
  <2>6. IsRun(k + 1, f)
    <3> HIDE DEF f, x
    <3>1. \A i \in 1..(k + 1) : i \in 1..k \/ (i = k + 1 /\ i - 1 = k)
      BY <1>1
    <3> QED
      BY <2>4, <2>5, <3>1 DEF x
  <2>7. k + 1 \in 0..n
    BY <1>1
  <2> HIDE DEF IsRun, f, x
  <2> QED
    BY <2>3, <2>6, <2>7
<1>4. n \in T
  <2> HIDE DEF T
  <2>1. 0..n \subseteq T
    BY <1>1, <1>2, <1>3, UpTo
  <2> QED
    BY <1>1, <2>1
<1> HIDE DEF IsRun
<1>5. \E g \in [0..n -> S] : IsRun(n, g)
  BY <1>4
<1> QED
  BY <1>5 DEF IsRun, HasRun

---------------------------------------------------------------------------
(* The Internet checksum.                                                  *)

(* A word is a number up to 65535.                                         *)
LEMMA WordIs == \A x : x \in Word <=> x \in Nat /\ x <= 65535
<1>1. MaxWord \in Nat
  BY DEF MaxWord
<1>2. \A x : x \in Word <=> x \in Nat /\ x <= MaxWord
  BY <1>1 DEF Word
<1> QED
  BY <1>2 DEF MaxWord

(* A byte is a number up to 255.                                           *)
LEMMA ByteIs == \A x : x \in Byte <=> x \in Nat /\ x <= 255
<1>1. MaxByte \in Nat
  BY DEF MaxByte
<1>2. \A x : x \in Byte <=> x \in Nat /\ x <= MaxByte
  BY <1>1 DEF Byte
<1> QED
  BY <1>2 DEF MaxByte

(* The recursive definition of the sum of the words has a meaning: it is   *)
(* the running sum.                                                        *)
LEMMA SumsDef ==
  ASSUME NEW w \in Seq(Nat)
  PROVE  /\ Sums(w) \in [0..Len(w) -> Nat]
         /\ Sums(w)[0] = 0
         /\ \A i \in 1..Len(w) : Sums(w)[i] = Sums(w)[i - 1] + w[i]
<1> DEFINE n == Len(w)
           Def(f) == [i \in 0..n |-> IF i = 0 THEN 0 ELSE f[i - 1] + w[i]]
           op == [x \in Nat \X Nat |-> x[1] + x[2]]
<1>1. n \in Nat /\ \A i \in 1..n : w[i] \in Nat
  OBVIOUS
<1>2. op \in [Nat \X Nat -> Nat]
  OBVIOUS
<1>3. \A a, v \in Nat : op[<<a, v>>] = a + v
  OBVIOUS
<1> HIDE DEF op
<1>4. PICK g \in [0..n -> Nat] :
        g[0] = 0 /\ \A i \in 1..n : g[i] = op[<<g[i - 1], w[i]>>]
  <2>1. 0 \in Nat
    BY WordIs
  <2>2. HasRun(Nat, op, 0, w)
    BY <1>2, <2>1, LoopRuns, Zenon
  <2> QED
    BY <2>2 DEF HasRun
<1>5. g = Def(g)
  <2>1. \A i \in 0..n : g[i] = Def(g)[i]
    <3>1. g[0] = Def(g)[0]
      BY <1>1, <1>4
    <3>2. ASSUME NEW i \in 1..n
          PROVE  g[i] = Def(g)[i]
      <4>0. i - 1 \in 0..n /\ i # 0 /\ i \in 0..n
        BY <1>1
      <4>1. g[i - 1] \in Nat /\ w[i] \in Nat
        BY <1>1, <4>0
      <4>2. g[i] = g[i - 1] + w[i]
        BY <1>3, <1>4, <4>1
      <4> QED
        BY <4>0, <4>2
    <3>3. \A i \in 0..n : i = 0 \/ i \in 1..n
      BY <1>1
    <3> QED
      BY <3>1, <3>2, <3>3
  <2>2. g = [i \in 0..n |-> g[i]]
    OBVIOUS
  <2> QED
    BY <2>1, <2>2, Zenon
<1>6. Sums(w) = Def(Sums(w))
  BY <1>5, Zenon DEF Sums
<1>7. Sums(w)[0] = 0 /\ \A i \in 1..n : Sums(w)[i] = Sums(w)[i - 1] + w[i]
  BY <1>1, <1>6
<1> DEFINE U == {i \in 0..n : Sums(w)[i] \in Nat}
<1>8. 0 \in U
  BY <1>1, <1>7
<1>9. \A i \in 0..(n - 1) : i \in U => i + 1 \in U
  BY <1>1, <1>7
<1>10. 0..n \subseteq U
  <2> HIDE DEF U
  <2> QED
    BY <1>1, <1>8, <1>9, UpTo
<1>11. Sums(w) \in [0..n -> Nat]
  BY <1>6, <1>10
<1> QED
  BY <1>7, <1>11

(* One pass of the loop of checksum() keeps the sum in 16 bits.            *)
LEMMA AddCarryWord ==
  ASSUME NEW a \in Word, NEW v \in Word
  PROVE  AddCarry(a, v) \in Word
  BY WordIs DEF AddCarry

(* The carry that comes around takes 65535 away.                           *)
LEMMA CarryTakes ==
  ASSUME NEW a \in Word, NEW v \in Word, NEW q \in Nat
  PROVE  \/ (a + 65535 * q) + v = AddCarry(a, v) + 65535 * q
         \/ (a + 65535 * q) + v = AddCarry(a, v) + 65535 * (q + 1)
<1>1. a \in Nat /\ v \in Nat
  BY WordIs
<1> QED
  BY <1>1 DEF AddCarry

(* Words can be added.                                                     *)
LEMMA WordsAreNats ==
  ASSUME NEW w \in Seq(Word)
  PROVE  w \in Seq(Nat)
<1>1. Word \subseteq Nat
  BY WordIs
<1>2. w = [i \in 1..Len(w) |-> w[i]] /\ Len(w) \in Nat /\ \A i \in 1..Len(w) : w[i] \in Word
  OBVIOUS
<1> QED
  BY <1>1, <1>2

(* The recursive definition of the loop of checksum() has a meaning: it is *)
(* what AddCarry makes of the last sum, in every pass.                     *)
LEMMA ChecksumsDef ==
  ASSUME NEW w \in Seq(Word)
  PROVE  /\ Checksums(w) \in [0..Len(w) -> Word]
         /\ Checksums(w)[0] = 0
         /\ \A i \in 1..Len(w) : Checksums(w)[i] = AddCarry(Checksums(w)[i - 1], w[i])
<1> DEFINE n == Len(w)
           Def(f) == [i \in 0..n |-> IF i = 0 THEN 0 ELSE AddCarry(f[i - 1], w[i])]
           op == [x \in Word \X Word |-> AddCarry(x[1], x[2])]
<1>1. n \in Nat /\ (\A i \in 1..n : w[i] \in Word) /\ 0 \in Word
  BY WordIs
<1>2. op \in [Word \X Word -> Word]
  BY AddCarryWord
<1>3. \A a, v \in Word : op[<<a, v>>] = AddCarry(a, v)
  OBVIOUS
<1> HIDE DEF op
<1>4. PICK g \in [0..n -> Word] :
        g[0] = 0 /\ \A i \in 1..n : g[i] = op[<<g[i - 1], w[i]>>]
  <2>1. 0 \in Word
    BY WordIs
  <2>2. HasRun(Word, op, 0, w)
    BY <1>2, <2>1, LoopRuns, Zenon
  <2> QED
    BY <2>2 DEF HasRun
<1>5. g = Def(g)
  <2>1. \A i \in 0..n : g[i] = Def(g)[i]
    <3>1. g[0] = Def(g)[0]
      BY <1>1, <1>4
    <3>2. ASSUME NEW i \in 1..n
          PROVE  g[i] = Def(g)[i]
      <4>0. i - 1 \in 0..n /\ i # 0 /\ i \in 0..n
        BY <1>1
      <4>1. g[i - 1] \in Word /\ w[i] \in Word
        BY <1>1, <4>0
      <4>2. g[i] = AddCarry(g[i - 1], w[i])
        BY <1>3, <1>4, <4>1
      <4> QED
        BY <4>0, <4>2
    <3>3. \A i \in 0..n : i = 0 \/ i \in 1..n
      BY <1>1
    <3> QED
      BY <3>1, <3>2, <3>3
  <2>2. g = [i \in 0..n |-> g[i]]
    OBVIOUS
  <2> QED
    BY <2>1, <2>2, Zenon
<1>6. Checksums(w) = Def(Checksums(w))
  BY <1>5, Zenon DEF Checksums
<1>7. /\ Checksums(w)[0] = 0
      /\ \A i \in 1..n : Checksums(w)[i] = AddCarry(Checksums(w)[i - 1], w[i])
  BY <1>1, <1>6
<1> DEFINE U == {i \in 0..n : Checksums(w)[i] \in Word}
<1>8. 0 \in U
  BY <1>1, <1>7
<1>9. \A i \in 0..(n - 1) : i \in U => i + 1 \in U
  BY <1>1, <1>7, AddCarryWord
<1>10. 0..n \subseteq U
  <2> HIDE DEF U
  <2> QED
    BY <1>1, <1>8, <1>9, UpTo
<1>11. Checksums(w) \in [0..n -> Word]
  BY <1>6, <1>10
<1> QED
  BY <1>7, <1>11

(* checksum() is the sum of the words, less a multiple of 65535.           *)
LEMMA ChecksumCongruent ==
  ASSUME NEW w \in Seq(Word)
  PROVE  /\ checksum(w) \in Word /\ Sum(w) \in Nat
         /\ \E q \in Nat : Sum(w) = checksum(w) + 65535 * q
<1> DEFINE n == Len(w)
           c == Checksums(w)
           s == Sums(w)
           U == {i \in 0..n : \E q \in Nat : s[i] = c[i] + 65535 * q}
<1>1. n \in Nat /\ w \in Seq(Nat) /\ \A i \in 1..n : w[i] \in Word
  <2>1. w \in Seq(Nat)
    BY WordsAreNats
  <2> QED
    BY <2>1
<1>2. /\ s \in [0..n -> Nat] /\ s[0] = 0
      /\ \A i \in 1..n : s[i] = s[i - 1] + w[i]
  BY <1>1, SumsDef
<1>3. /\ c \in [0..n -> Word] /\ c[0] = 0
      /\ \A i \in 1..n : c[i] = AddCarry(c[i - 1], w[i])
  BY ChecksumsDef
<1> HIDE DEF c, s
<1>4. 0 \in U
  <2>1. s[0] = c[0] + 65535 * 0
    BY <1>2, <1>3
  <2> QED
    BY <1>1, <2>1
<1>5. ASSUME NEW i \in 0..(n - 1), i \in U
      PROVE  i + 1 \in U
  <2>1. PICK q \in Nat : s[i] = c[i] + 65535 * q
    BY <1>5
  <2>0. i + 1 \in 1..n /\ (i + 1) - 1 = i /\ i \in 0..n /\ i + 1 \in 0..n
    BY <1>1
  <2>2. c[i] \in Word /\ w[i + 1] \in Word
    BY <1>1, <1>3, <2>0
  <2>3. s[i + 1] = s[i] + w[i + 1] /\ c[i + 1] = AddCarry(c[i], w[i + 1])
    BY <1>2, <1>3, <2>0
  <2>4. s[i + 1] = c[i + 1] + 65535 * q \/ s[i + 1] = c[i + 1] + 65535 * (q + 1)
    BY <2>1, <2>2, <2>3, CarryTakes
  <2>5. \E r \in Nat : s[i + 1] = c[i + 1] + 65535 * r
    <3>1. PICK r \in {q, q + 1} : s[i + 1] = c[i + 1] + 65535 * r
      BY <2>4
    <3>2. r \in Nat
      OBVIOUS
    <3> QED
      BY <3>1, <3>2
  <2> QED
    BY <2>0, <2>5
<1>6. n \in U
  <2> HIDE DEF U
  <2>1. 0..n \subseteq U
    BY <1>1, <1>4, <1>5, UpTo
  <2> QED
    BY <1>1, <2>1
<1>7. checksum(w) = c[n] /\ Sum(w) = s[n]
  BY DEF checksum, Sum, c, s
<1> QED
  BY <1>1, <1>2, <1>3, <1>6, <1>7

(* The sum of the words is not less than the first of them ...             *)
LEMMA SumAtLeast ==
  ASSUME NEW w \in Seq(Nat), Len(w) > 0
  PROVE  Sum(w) >= w[1]
<1> DEFINE n == Len(w) - 1
           s == Sums(w)
           U == {i \in 0..n : s[i + 1] >= w[1]}
<1>1. n \in Nat /\ \A i \in 1..(n + 1) : w[i] \in Nat
  OBVIOUS
<1>2. /\ s \in [0..(n + 1) -> Nat] /\ s[0] = 0
      /\ \A i \in 1..(n + 1) : s[i] = s[i - 1] + w[i]
  BY SumsDef
<1> HIDE DEF s
<1>3. 0 \in U
  BY <1>1, <1>2
<1>4. ASSUME NEW i \in 0..(n - 1), i \in U
      PROVE  i + 1 \in U
  <2>1. i + 2 \in 1..(n + 1) /\ (i + 2) - 1 = i + 1 /\ i + 1 \in 0..(n + 1) /\ i + 1 \in 0..n
    BY <1>1
  <2>2. s[i + 2] = s[i + 1] + w[i + 2] /\ w[i + 2] \in Nat /\ s[i + 1] \in Nat
    BY <1>1, <1>2, <2>1
  <2>3. s[(i + 1) + 1] >= w[1]
    BY <1>1, <1>4, <2>2
  <2> QED
    BY <2>1, <2>3
<1>5. n \in U
  <2> HIDE DEF U
  <2>1. 0..n \subseteq U
    BY <1>1, <1>3, <1>4, UpTo
  <2> QED
    BY <1>1, <2>1
<1>6. s[n + 1] >= w[1] /\ n + 1 = Len(w)
  BY <1>5
<1> QED
  BY <1>6 DEF Sum, s

(* ... and a word put where 0 was adds itself.                             *)
LEMMA SumPut ==
  ASSUME NEW w \in Seq(Nat), NEW k \in 1..Len(w), w[k] = 0, NEW v \in Nat
  PROVE  Sum([w EXCEPT ![k] = v]) = Sum(w) + v
<1> DEFINE n == Len(w)
           x == [w EXCEPT ![k] = v]
           s == Sums(w)
           t == Sums(x)
           U == {i \in 0..n : t[i] = IF i < k THEN s[i] ELSE s[i] + v}
<1>1. n \in Nat /\ k \in 1..n /\ \A i \in 1..n : w[i] \in Nat
  OBVIOUS
<1>2. x \in Seq(Nat) /\ Len(x) = n /\ \A i \in 1..n : x[i] = IF i = k THEN v ELSE w[i]
  OBVIOUS
<1> HIDE DEF x
<1>3. /\ s \in [0..n -> Nat] /\ s[0] = 0
      /\ \A i \in 1..n : s[i] = s[i - 1] + w[i]
  BY SumsDef
<1>4. /\ t \in [0..n -> Nat] /\ t[0] = 0
      /\ \A i \in 1..n : t[i] = t[i - 1] + x[i]
  BY <1>2, SumsDef
<1> HIDE DEF s, t
<1>5. 0 \in U
  BY <1>1, <1>3, <1>4
<1>6. ASSUME NEW i \in 0..(n - 1), i \in U
      PROVE  i + 1 \in U
  <2>1. i + 1 \in 1..n /\ (i + 1) - 1 = i /\ i + 1 \in 0..n /\ i \in 0..n
    BY <1>1
  <2>2. s[i + 1] = s[i] + w[i + 1] /\ t[i + 1] = t[i] + x[i + 1]
    BY <1>3, <1>4, <2>1
  <2>3. s[i] \in Nat /\ w[i + 1] \in Nat /\ x[i + 1] = IF i + 1 = k THEN v ELSE w[i + 1]
    BY <1>1, <1>2, <1>3, <2>1
  <2>4. t[i] = IF i < k THEN s[i] ELSE s[i] + v
    BY <1>6
  <2>5. t[i + 1] = IF i + 1 < k THEN s[i + 1] ELSE s[i + 1] + v
    BY <1>1, <2>2, <2>3, <2>4
  <2> QED
    BY <2>1, <2>5
<1>7. n \in U
  <2> HIDE DEF U
  <2>1. 0..n \subseteq U
    BY <1>1, <1>5, <1>6, UpTo
  <2> QED
    BY <1>1, <2>1
<1>8. t[n] = s[n] + v
  BY <1>1, <1>7
<1> QED
  BY <1>2, <1>8 DEF Sum, s, t, x

(* checksum() and wrapsum() compute the Internet checksum: over a header   *)
(* of any length and content, with the field itself 0, what they return    *)
(* makes the words add up to 0 in one's complement arithmetic.             *)
THEOREM ChecksumIsGood ==
  ASSUME NEW w \in Seq(Word), NEW k \in 1..Len(w), w[k] = 0
  PROVE  /\ wrapsum(checksum(w)) \in Word
         /\ Good([w EXCEPT ![k] = wrapsum(checksum(w))])
<1> DEFINE c == wrapsum(checksum(w))
<1>1. PICK q \in Nat : Sum(w) = checksum(w) + 65535 * q
  BY ChecksumCongruent
<1>2. checksum(w) \in Word /\ Sum(w) \in Nat
  BY ChecksumCongruent
<1>3. checksum(w) \in Nat /\ checksum(w) <= 65535
  BY <1>2, WordIs
<1>4. c \in Nat /\ c <= 65535 /\ c + checksum(w) = 65535
  BY <1>3 DEF wrapsum
<1>5. c \in Word
  BY <1>4, WordIs
<1> HIDE DEF c
<1>6. Sum([w EXCEPT ![k] = c]) = Sum(w) + c
  BY <1>4, SumPut, WordsAreNats
<1>7. Sum(w) + c = 65535 * (q + 1)
  BY <1>1, <1>3, <1>4
<1>8. 65535 * (q + 1) > 0 /\ (65535 * (q + 1)) % 65535 = 0
  OBVIOUS
<1>9. Good([w EXCEPT ![k] = c])
  BY <1>6, <1>7, <1>8 DEF Good
<1> QED
  BY <1>5, <1>9 DEF c

---------------------------------------------------------------------------
(* The words of the option and of the header.                              *)

(* Bytes of a word.                                                        *)
LEMMA Bytes ==
  ASSUME NEW w \in Word
  PROVE  /\ High(w) \in Byte /\ Low(w) \in Byte
         /\ Swap(w) \in Word
         /\ High(Swap(w)) = Low(w) /\ Low(Swap(w)) = High(w)
         /\ High(w) * 256 + Low(w) = w
<1>1. w \in Nat /\ w <= 65535
  BY WordIs
<1>2. /\ High(w) \in Nat /\ High(w) <= 255 /\ Low(w) \in Nat /\ Low(w) <= 255
      /\ High(w) * 256 + Low(w) = w
  BY <1>1 DEF High, Low
<1>3. Swap(w) = Low(w) * 256 + High(w)
  BY DEF Swap
<1>4. \A h, l \in Nat : h <= 255 /\ l <= 255 =>
        (l * 256 + h) \div 256 = l /\ (l * 256 + h) % 256 = h /\ l * 256 + h <= 65535
  OBVIOUS
<1>5. High(Swap(w)) = Swap(w) \div 256 /\ Low(Swap(w)) = Swap(w) % 256
  BY DEF High, Low
<1> QED
  BY <1>2, <1>3, <1>4, <1>5, WordIs, ByteIs

(* ihl += 3 leaves version and type of service alone.                      *)
LEMMA FirstWord ==
  ASSUME NEW w \in Word, NEW n \in Nat, n <= 15
  PROVE  LET x == ((High(w) \div 16) * 16 + n) * 256 + Low(w)
         IN  x \in Word /\ High(x) % 16 = n
<1>1. w \in Nat /\ w <= 65535
  BY WordIs
<1>2. High(w) \in Nat /\ High(w) <= 255 /\ Low(w) \in Nat /\ Low(w) <= 255
  BY Bytes, ByteIs
<1>3. PICK v \in Nat : v = High(w) \div 16 /\ v <= 15
  BY <1>2
<1>4. \A h, l \in Nat : h <= 255 /\ l <= 255 =>
        (h * 256 + l) \div 256 = h /\ h * 256 + l <= 65535 /\ h * 256 + l \in Nat
  OBVIOUS
<1>5. v * 16 + n \in Nat /\ v * 16 + n <= 255 /\ (v * 16 + n) % 16 = n
  <2>1. v \in Nat /\ v <= 15 /\ n \in Nat /\ n <= 15
    BY <1>3
  <2>2. \A a, b \in Nat : a <= 15 /\ b <= 15 =>
          a * 16 + b \in Nat /\ a * 16 + b <= 255 /\ (a * 16 + b) % 16 = b
    OBVIOUS
  <2> QED
    BY <2>1, <2>2
<1>6. ((v * 16 + n) * 256 + Low(w)) \div 256 = v * 16 + n
  BY <1>2, <1>4, <1>5
<1>7. (v * 16 + n) * 256 + Low(w) \in Word
  BY <1>2, <1>4, <1>5, WordIs
<1> QED
  BY <1>3, <1>5, <1>6, <1>7 DEF High

(* The option is six words.                                                *)
LEMMA OptionWords ==
  ASSUME NEW c \in Byte, NEW q \in [1..4 -> Word]
  PROVE  /\ ipopt_pval(c, q) \in Seq(Word) /\ Len(ipopt_pval(c, q)) = 6
         /\ ipopt_pval(c, q)[1] = 56844 /\ ipopt_pval(c, q)[2] = c
         /\ \A i \in 1..4 : ipopt_pval(c, q)[i + 2] = Swap(q[i])
<1>1. \A i \in 1..4 : Swap(q[i]) \in Word
  BY Bytes
<1>2. Swap(q[1]) \in Word /\ Swap(q[2]) \in Word /\ Swap(q[3]) \in Word /\ Swap(q[4]) \in Word
  BY <1>1
<1>3. c \in Word /\ 222 * 256 + 12 = 56844 /\ 56844 \in Word
  BY WordIs, ByteIs
<1> QED
  BY <1>2, <1>3 DEF ipopt_pval

(* 0 is a word.                                                            *)
LEMMA ZeroWord == 0 \in Word
  BY WordIs

(* What a put, a concatenation and a part are, element by element.         *)
IsPut(x, s, k, v) ==
  Len(x) = Len(s) /\ x[k] = v /\ \A i \in 1..Len(s) : i # k => x[i] = s[i]

IsJoin(x, s, t) ==
  /\ Len(x) = Len(s) + Len(t)
  /\ \A i \in 1..Len(s) : x[i] = s[i]
  /\ \A i \in 1..Len(t) : x[Len(s) + i] = t[i]

IsPart(x, s, m, n) ==
  Len(x) = (n + 1) - m /\ \A i \in 1..((n + 1) - m) : x[i] = s[(m - 1) + i]

(* A sequence with one element put in place.                               *)
LEMMA Put ==
  ASSUME NEW S, NEW s \in Seq(S), NEW k \in 1..Len(s), NEW v \in S
  PROVE  [s EXCEPT ![k] = v] \in Seq(S) /\ IsPut([s EXCEPT ![k] = v], s, k, v)
  BY DEF IsPut

(* Two sequences, one behind the other.                                    *)
LEMMA Joined ==
  ASSUME NEW S, NEW s \in Seq(S), NEW t \in Seq(S)
  PROVE  s \o t \in Seq(S) /\ IsJoin(s \o t, s, t)
<1>1. s \o t \in Seq(S) /\ Len(s \o t) = Len(s) + Len(t)
  OBVIOUS
<1>2. \A i \in 1..(Len(s) + Len(t)) : (s \o t)[i] = IF i <= Len(s) THEN s[i] ELSE t[i - Len(s)]
  BY ConcatProperties
<1>3. \A i \in 1..Len(t) : (s \o t)[Len(s) + i] = t[i]
  <2> SUFFICES ASSUME NEW i \in 1..Len(t) PROVE (s \o t)[Len(s) + i] = t[i]
    OBVIOUS
  <2>1. /\ Len(s) + i \in 1..(Len(s) + Len(t)) /\ ~ (Len(s) + i <= Len(s))
        /\ (Len(s) + i) - Len(s) = i
    OBVIOUS
  <2> QED
    BY <1>2, <2>1
<1>4. \A i \in 1..Len(s) : i \in 1..(Len(s) + Len(t)) /\ i <= Len(s)
  OBVIOUS
<1> QED
  BY <1>1, <1>2, <1>3, <1>4 DEF IsJoin

(* A part of a sequence.                                                   *)
LEMMA Part ==
  ASSUME NEW S, NEW s \in Seq(S), NEW m \in Nat, NEW n \in Nat,
         1 <= m, m <= n + 1, n <= Len(s)
  PROVE  SubSeq(s, m, n) \in Seq(S) /\ IsPart(SubSeq(s, m, n), s, m, n)
<1>1. \A i \in m..n : i \in 1..Len(s)
  OBVIOUS
<1>2. \A i \in m..n : s[i] \in S
  BY <1>1
<1>3. /\ SubSeq(s, m, n) \in Seq(S)
      /\ Len(SubSeq(s, m, n)) = IF m <= n THEN n - m + 1 ELSE 0
      /\ \A i \in 1..(n - m + 1) : SubSeq(s, m, n)[i] = s[m + i - 1]
  BY <1>2, SubSeqProperties
<1>4. n - m + 1 = (n + 1) - m /\ \A i \in Int : m + i - 1 = (m - 1) + i
  OBVIOUS
<1> QED
  BY <1>3, <1>4 DEF IsPart

(* The same elements make the same sequence.                               *)
LEMMA SameSeq ==
  ASSUME NEW S, NEW s \in Seq(S), NEW t \in Seq(S), Len(s) = Len(t),
         \A i \in 1..Len(s) : s[i] = t[i]
  PROVE  s = t
  BY SeqEqual

(* A fixed header with its checksum, options, and what follows.            *)
Framed(f, o, r) == [f EXCEPT ![6] = wrapsum(checksum(f \o o))] \o o \o r

IsFrame(y, f, o, r) ==
  /\ Len(y) = 16 + Len(r) /\ y[1] = f[1] /\ y[2] = f[2]
  /\ \A m \in 1..6 : y[10 + m] = o[m]
  /\ \A i \in 1..Len(r) : y[16 + i] = r[i]
  /\ Good(SubSeq(y, 1, 16))

(* With the checksum in place, the words it was computed over are good, in *)
(* front of whatever follows.                                              *)
LEMMA Checked ==
  ASSUME NEW f \in Seq(Word), Len(f) = 10, f[6] = 0,
         NEW o \in Seq(Word), Len(o) = 6, NEW r \in Seq(Word)
  PROVE  Framed(f, o, r) \in Seq(Word) /\ IsFrame(Framed(f, o, r), f, o, r)
<1> DEFINE w == f \o o
           check == wrapsum(checksum(w))
           hdr == [f EXCEPT ![6] = check]
           x == hdr \o o
           z == [w EXCEPT ![6] = check]
           y == Framed(f, o, r)
           v == SubSeq(y, 1, 16)
<1>1. w \in Seq(Word) /\ IsJoin(w, f, o)
  BY Joined, Zenon
<1> HIDE DEF w
<1>2. Len(w) = 16 /\ 6 \in 1..Len(w) /\ 6 \in 1..Len(f) /\ w[6] = 0
  BY <1>1 DEF IsJoin
<1>3. check \in Word /\ Good(z)
  BY <1>1, <1>2, ChecksumIsGood
<1> HIDE DEF check
<1>4. z \in Seq(Word) /\ IsPut(z, w, 6, check)
  BY <1>1, <1>2, <1>3, Put, Zenon
<1>5. hdr \in Seq(Word) /\ IsPut(hdr, f, 6, check)
  BY <1>2, <1>3, Put, Zenon
<1> HIDE DEF z, hdr
<1>6. x \in Seq(Word) /\ IsJoin(x, hdr, o)
  BY <1>5, Joined, Zenon
<1>7. y = x \o r
  BY DEF Framed, x, hdr, check, w
<1> HIDE DEF x, y
<1>8. y \in Seq(Word) /\ IsJoin(y, x, r)
  BY <1>6, <1>7, Joined, Zenon
<1>9. Len(hdr) = 10 /\ Len(x) = 16 /\ Len(z) = 16 /\ Len(r) \in Nat /\ Len(y) = 16 + Len(r)
  BY <1>2, <1>4, <1>5, <1>6, <1>8 DEF IsPut, IsJoin
<1>10. \A i \in 1..Len(x) : x[i] = z[i]
  <2>1. \A i \in 1..10 : x[i] = z[i]
    <3>1. \A i \in 1..10 : x[i] = hdr[i] /\ w[i] = f[i]
      BY <1>1, <1>6, <1>9 DEF IsJoin
    <3>2. \A i \in 1..10 : hdr[i] = (IF i = 6 THEN check ELSE f[i]) /\ i \in 1..16
      BY <1>5, <1>9 DEF IsPut
    <3>3. \A i \in 1..16 : z[i] = IF i = 6 THEN check ELSE w[i]
      BY <1>2, <1>4 DEF IsPut
    <3> QED
      BY <3>1, <3>2, <3>3
  <2>2. \A i \in 1..6 : x[10 + i] = z[10 + i]
    <3>1. \A i \in 1..6 : x[10 + i] = o[i] /\ w[10 + i] = o[i]
      BY <1>1, <1>6, <1>9 DEF IsJoin
    <3>2. \A i \in 1..6 : 10 + i \in 1..Len(w) /\ 10 + i # 6
      BY <1>2
    <3>3. \A i \in 1..Len(w) : i # 6 => z[i] = w[i]
      BY <1>4 DEF IsPut
    <3> QED
      BY <3>1, <3>2, <3>3
  <2>3. \A i \in 1..16 : i \in 1..10 \/ (i - 10 \in 1..6 /\ i = 10 + (i - 10))
    OBVIOUS
  <2> QED
    BY <1>9, <2>1, <2>2, <2>3
<1>11. x = z
  <2>1. Len(x) = Len(z)
    BY <1>9
  <2> QED
    BY <1>4, <1>6, <1>10, <2>1, SameSeq, Zenon
<1>12. \A i \in 1..16 : y[i] = x[i]
  BY <1>8, <1>9 DEF IsJoin
<1>13. v \in Seq(Word) /\ IsPart(v, y, 1, 16)
  <2>1. 1 \in Nat /\ 16 \in Nat /\ 1 <= 1 /\ 1 <= 16 + 1 /\ 16 <= Len(y)
    BY <1>9
  <2> QED
    BY <1>8, <2>1, Part, Zenon
<1> HIDE DEF v
<1>14. v = x
  <2>1. Len(v) = 16
    BY <1>13 DEF IsPart
  <2>2. Len(v) = Len(x) /\ \A i \in 1..Len(v) : v[i] = x[i]
    <3> SUFFICES ASSUME NEW i \in 1..16 PROVE v[i] = x[i]
      BY <1>9, <2>1
    <3>1. i \in 1..((16 + 1) - 1) /\ (1 - 1) + i = i
      OBVIOUS
    <3>2. v[i] = y[(1 - 1) + i]
      BY <1>13, <3>1 DEF IsPart
    <3> QED
      BY <1>12, <3>1, <3>2
  <2> QED
    BY <1>6, <1>13, <2>2, SameSeq, Zenon
<1>15. y[1] = f[1] /\ y[2] = f[2]
  <2>1. y[1] = x[1] /\ y[2] = x[2]
    BY <1>12
  <2>2. x[1] = hdr[1] /\ x[2] = hdr[2]
    BY <1>6, <1>9 DEF IsJoin
  <2>3. hdr[1] = f[1] /\ hdr[2] = f[2]
    BY <1>5 DEF IsPut
  <2> QED
    BY <2>1, <2>2, <2>3
<1>16. \A m \in 1..6 : y[10 + m] = o[m]
  <2>1. \A m \in 1..6 : x[10 + m] = o[m] /\ 10 + m \in 1..16
    BY <1>6, <1>9 DEF IsJoin
  <2> QED
    BY <1>12, <2>1
<1>17. \A i \in 1..Len(r) : y[16 + i] = r[i]
  BY <1>8, <1>9 DEF IsJoin
<1> QED
  BY <1>3, <1>8, <1>9, <1>11, <1>14, <1>15, <1>16, <1>17 DEF IsFrame, y, v

(* What the rewriting of a header makes of a packet: the option comes in   *)
(* front of what followed the fixed header, ihl and tot_len count it, and  *)
(* the checksum is good for the first 32 bytes.                            *)
LEMMA Inserted ==
  ASSUME NEW p \in Seq(Word), Len(p) >= 10, NEW c \in Byte, seq \in [1..4 -> Word]
  PROVE  /\ Insert(p, c) \in Seq(Word) /\ Len(Insert(p, c)) = Len(p) + 6
         /\ Ihl(Insert(p, c)) = (Ihl(p) + 3) % 16
         /\ TotLen(Insert(p, c)) = (TotLen(p) + 12) % 65536
         /\ \A m \in 1..6 : Insert(p, c)[10 + m] = ipopt_pval(c, seq)[m]
         /\ \A i \in 11..Len(p) : Insert(p, c)[6 + i] = p[i]
         /\ Good(SubSeq(Insert(p, c), 1, 16))
<1> DEFINE first == ((High(p[1]) \div 16) * 16 + NewIhl(p)) * 256 + Low(p[1])
           front == SubSeq(p, 1, 10)
           one   == [front EXCEPT ![1] = first]
           two   == [one EXCEPT ![2] = NewTotLen(p)]
           fixed == [two EXCEPT ![6] = 0]
           opt   == ipopt_pval(c, seq)
           rest  == SubSeq(p, 11, Len(p))
           y     == Insert(p, c)
<1>1. Len(p) \in Nat /\ p[1] \in Word /\ p[2] \in Word
  OBVIOUS
<1>2. front \in Seq(Word) /\ Len(front) = 10 /\ front[1] = p[1]
  <2>1. 1 \in Nat /\ 10 \in Nat /\ 1 <= 1 /\ 1 <= 10 + 1 /\ 10 <= Len(p)
    BY <1>1
  <2>2. front \in Seq(Word) /\ IsPart(front, p, 1, 10)
    BY <2>1, Part, Zenon
  <2> HIDE DEF front
  <2> QED
    BY <2>2 DEF IsPart
<1>3. /\ rest \in Seq(Word) /\ Len(rest) = Len(p) - 10
      /\ \A i \in 1..(Len(p) - 10) : rest[i] = p[10 + i]
  <2>1. 11 \in Nat /\ 1 <= 11 /\ 11 <= Len(p) + 1 /\ Len(p) <= Len(p)
    BY <1>1
  <2>2. rest \in Seq(Word) /\ IsPart(rest, p, 11, Len(p))
    BY <1>1, <2>1, Part, Zenon
  <2>3. (Len(p) + 1) - 11 = Len(p) - 10 /\ 11 - 1 = 10
    BY <1>1
  <2> HIDE DEF rest
  <2> QED
    BY <2>2, <2>3 DEF IsPart
<1>4. NewIhl(p) \in Nat /\ NewIhl(p) <= 15
  <2>1. High(p[1]) \in Nat
    BY <1>1, Bytes, ByteIs
  <2> QED
    BY <2>1 DEF NewIhl, Ihl
<1>5. NewTotLen(p) \in Word
  <2>1. p[2] \in Nat
    BY <1>1, WordIs
  <2>2. NewTotLen(p) \in Nat /\ NewTotLen(p) <= 65535
    BY <2>1 DEF NewTotLen, TotLen
  <2> QED
    BY <2>2, WordIs
<1>6. first \in Word /\ High(first) % 16 = NewIhl(p)
  <2> HIDE DEF first
  <2> SUFFICES ASSUME NEW n, n = NewIhl(p) PROVE first \in Word /\ High(first) % 16 = n
    OBVIOUS
  <2>1. n \in Nat /\ n <= 15
    BY <1>4
  <2>2. first = ((High(p[1]) \div 16) * 16 + n) * 256 + Low(p[1])
    BY DEF first
  <2> QED
    BY <1>1, <2>1, <2>2, FirstWord, Zenon
<1>7. opt \in Seq(Word) /\ Len(opt) = 6
  BY OptionWords
<1>8. 0 \in Word
  BY ZeroWord
<1>9. y = Framed(fixed, opt, rest)
  <2>1. fixed = [SubSeq(p, 1, 10) EXCEPT
                   ![1] = ((High(p[1]) \div 16) * 16 + NewIhl(p)) * 256 + Low(@),
                   ![2] = NewTotLen(p), ![6] = 0]
    BY <1>2
  <2> HIDE DEF fixed, rest, opt
  <2> QED
    BY <2>1 DEF Insert, Framed, rest, opt
<1> HIDE DEF first, front, opt, rest, y
<1>10. one \in Seq(Word) /\ Len(one) = 10 /\ one[1] = first
  <2>1. 1 \in 1..Len(front)
    BY <1>2
  <2>2. one \in Seq(Word) /\ IsPut(one, front, 1, first)
    BY <1>2, <1>6, <2>1, Put, Zenon
  <2> HIDE DEF one
  <2> QED
    BY <1>2, <2>2 DEF IsPut
<1> HIDE DEF one
<1>11. two \in Seq(Word) /\ Len(two) = 10 /\ two[1] = first /\ two[2] = NewTotLen(p)
  <2>1. 2 \in 1..Len(one) /\ 1 \in 1..Len(one)
    BY <1>10
  <2>2. two \in Seq(Word) /\ IsPut(two, one, 2, NewTotLen(p))
    BY <1>5, <1>10, <2>1, Put, Zenon
  <2> HIDE DEF two
  <2> QED
    BY <1>10, <2>1, <2>2 DEF IsPut
<1> HIDE DEF two
<1>12. /\ fixed \in Seq(Word) /\ Len(fixed) = 10 /\ fixed[6] = 0
       /\ fixed[1] = first /\ fixed[2] = NewTotLen(p)
  <2>1. 2 \in 1..Len(two) /\ 1 \in 1..Len(two) /\ 6 \in 1..Len(two)
    BY <1>11
  <2>2. fixed \in Seq(Word) /\ IsPut(fixed, two, 6, 0)
    BY <1>8, <1>11, <2>1, Put, Zenon
  <2> HIDE DEF fixed
  <2> QED
    BY <1>11, <2>1, <2>2 DEF IsPut
<1> HIDE DEF fixed
<1>13. /\ y \in Seq(Word) /\ Len(y) = 16 + Len(rest)
       /\ y[1] = first /\ y[2] = NewTotLen(p)
       /\ \A m \in 1..6 : y[10 + m] = opt[m]
       /\ \A i \in 1..Len(rest) : y[16 + i] = rest[i]
       /\ Good(SubSeq(y, 1, 16))
  <2>1. y \in Seq(Word) /\ IsFrame(y, fixed, opt, rest)
    BY <1>3, <1>7, <1>9, <1>12, Checked, Zenon
  <2> QED
    BY <1>12, <2>1 DEF IsFrame
<1>14. Ihl(y) = (Ihl(p) + 3) % 16
  BY <1>6, <1>13 DEF Ihl, NewIhl
<1>15. TotLen(y) = (TotLen(p) + 12) % 65536
  BY <1>13 DEF TotLen, NewTotLen
<1>16. \A i \in 11..Len(p) : y[6 + i] = p[i]
  <2> SUFFICES ASSUME NEW i \in 11..Len(p) PROVE y[6 + i] = p[i]
    OBVIOUS
  <2>1. i - 10 \in 1..(Len(p) - 10) /\ 16 + (i - 10) = 6 + i /\ 10 + (i - 10) = i
    BY <1>1
  <2>2. y[16 + (i - 10)] = rest[i - 10] /\ rest[i - 10] = p[10 + (i - 10)]
    BY <1>3, <1>13, <2>1
  <2> QED
    BY <2>1, <2>2
<1>17. Len(y) = Len(p) + 6
  BY <1>1, <1>3, <1>13
<1> QED
  BY <1>13, <1>14, <1>15, <1>16, <1>17 DEF y, opt

---------------------------------------------------------------------------
(* The packets of the stack.                                               *)

(* The stack computes the same checksum by its definition.                 *)
LEMMA StackSum ==
  ASSUME NEW w \in Seq(Word), NEW k \in 1..Len(w), w[k] = 0, w[1] > 0
  PROVE  /\ (65535 - (Sum(w) % 65535)) % 65535 \in Word
         /\ Good([w EXCEPT ![k] = (65535 - (Sum(w) % 65535)) % 65535])
<1> DEFINE a == Sum(w)
           m == a % 65535
           q == a \div 65535
           c == (65535 - m) % 65535
<1>1. w \in Seq(Nat) /\ Len(w) > 0 /\ w[1] \in Nat
  <2>1. w \in Seq(Nat)
    BY WordsAreNats
  <2> QED
    BY <2>1
<1>2. a \in Nat
  BY ChecksumCongruent
<1>3. a >= w[1]
  BY <1>1, SumAtLeast
<1>4. a > 0
  BY <1>1, <1>2, <1>3
<1> HIDE DEF a
<1>5. m \in Nat /\ m < 65535 /\ q \in Nat /\ a = 65535 * q + m
  BY <1>2
<1> HIDE DEF m, q
<1>6. \/ m = 0 /\ c = 0
      \/ m > 0 /\ c = 65535 - m
  BY <1>5
<1> HIDE DEF c
<1>7. c \in Nat /\ c <= 65535
  BY <1>5, <1>6
<1>8. a + c = 65535 * q \/ a + c = 65535 * (q + 1)
  BY <1>5, <1>6
<1>9. (a + c) % 65535 = 0
  <2>1. \A r \in Nat : (65535 * r) % 65535 = 0
    OBVIOUS
  <2>2. q + 1 \in Nat
    BY <1>5
  <2> QED
    BY <1>5, <1>8, <2>1, <2>2
<1>10. Sum([w EXCEPT ![k] = c]) = a + c
  BY <1>1, <1>7, SumPut DEF a
<1>11. Good([w EXCEPT ![k] = c])
  BY <1>2, <1>4, <1>7, <1>9, <1>10 DEF Good
<1>12. c \in Word
  BY <1>7, WordIs
<1> QED
  BY <1>11, <1>12 DEF c, m, a

(* What the stack makes a packet of.                                       *)
StackWords(id, o, d) ==
  /\ id \in Word /\ o \in Seq(Word) /\ d \in Seq(Word)
  /\ Len(o) % 2 = 0 /\ Len(o) <= 20 /\ 2 * (10 + Len(o) + Len(d)) \in Word

(* What the stack hands over: the lengths in the header are right, and     *)
(* without options the header is good.                                     *)
IsStackPacket(p, o, d) ==
  /\ p \in Seq(Word) /\ Len(p) = 10 + Len(o) + Len(d)
  /\ Ihl(p) = 5 + Len(o) \div 2 /\ TotLen(p) = 2 * Len(p)
  /\ Len(o) = 0 => Good(SubSeq(p, 1, 10))

(* Every packet of Init is one.                                            *)
LEMMA StackMakes ==
  ASSUME NEW id, NEW o, NEW d, StackWords(id, o, d)
  PROVE  IsStackPacket(StackPacket(id, o, d), o, d)
<1> DEFINE n == 10 + Len(o) + Len(d)
           first == (64 + 5 + Len(o) \div 2) * 256
           hdr == <<first, 2 * n, id, 16384, 16385, 0, 2560, 3, 2560, 2>>
           c == (65535 - (Sum(hdr \o o) % 65535)) % 65535
           fixed == [hdr EXCEPT ![6] = c]
           x == fixed \o o
           p == StackPacket(id, o, d)
           v == SubSeq(p, 1, 10)
<1>1. /\ o \in Seq(Word) /\ d \in Seq(Word) /\ id \in Word /\ 2 * n \in Word
      /\ Len(o) % 2 = 0 /\ Len(o) <= 20
  BY DEF StackWords
<1>2. Len(o) \in Nat /\ Len(d) \in Nat /\ n \in Nat
  BY <1>1
<1>3. PICK k \in Nat : k = Len(o) \div 2 /\ k <= 10 /\ Len(o) = 2 * k
  BY <1>1, <1>2
<1>4. first = (69 + k) * 256 /\ first \in Nat /\ first > 0 /\ first <= 65535
  BY <1>3
<1> HIDE DEF n, first
<1>5. High(first) % 16 = 5 + k
  <2>1. \A h \in Nat : (h * 256) \div 256 = h
    OBVIOUS
  <2>2. 69 + k \in Nat /\ (69 + k) % 16 = 5 + k
    BY <1>3
  <2> QED
    BY <1>4, <2>1, <2>2 DEF High
<1>6. /\ first \in Word /\ 16384 \in Word /\ 16385 \in Word /\ 0 \in Word
      /\ 2560 \in Word /\ 3 \in Word /\ 2 \in Word
  BY <1>4, WordIs
<1>7. hdr \in Seq(Word) /\ Len(hdr) = 10 /\ hdr[1] = first /\ hdr[2] = 2 * n /\ hdr[6] = 0
  BY <1>1, <1>6
<1> HIDE DEF hdr
<1> DEFINE w == hdr \o o
<1>8. w \in Seq(Word) /\ IsJoin(w, hdr, o)
  BY <1>1, <1>7, Joined, Zenon
<1> HIDE DEF w
<1>9. 6 \in 1..Len(w) /\ w[6] = 0 /\ w[1] = first /\ w[1] > 0
  BY <1>2, <1>4, <1>7, <1>8 DEF IsJoin
<1>10. c = (65535 - (Sum(w) % 65535)) % 65535
  BY DEF w
<1> HIDE DEF c
<1>11. c \in Word /\ Good([w EXCEPT ![6] = c])
  BY <1>8, <1>9, <1>10, StackSum
<1>12. fixed \in Seq(Word) /\ IsPut(fixed, hdr, 6, c)
  <2>1. 6 \in 1..Len(hdr)
    BY <1>7
  <2> QED
    BY <1>7, <1>11, <2>1, Put, Zenon
<1>13. p = x \o d
  BY DEF StackPacket, x, fixed, c, hdr, n, first
<1> HIDE DEF fixed
<1>14. x \in Seq(Word) /\ IsJoin(x, fixed, o)
  BY <1>1, <1>12, Joined, Zenon
<1> HIDE DEF x, p
<1>15. p \in Seq(Word) /\ IsJoin(p, x, d)
  BY <1>1, <1>13, <1>14, Joined, Zenon
<1>16. Len(fixed) = 10 /\ Len(x) = 10 + Len(o) /\ Len(p) = 10 + Len(o) + Len(d)
  BY <1>2, <1>7, <1>12, <1>14, <1>15 DEF IsPut, IsJoin
<1>17. \A i \in 1..10 : p[i] = fixed[i]
  <2>1. \A i \in 1..10 : i \in 1..Len(x) /\ i \in 1..Len(fixed)
    BY <1>2, <1>16
  <2> QED
    BY <1>14, <1>15, <2>1 DEF IsJoin
<1>18. p[1] = first /\ p[2] = 2 * n
  <2>1. fixed[1] = hdr[1] /\ fixed[2] = hdr[2]
    BY <1>7, <1>12 DEF IsPut
  <2> QED
    BY <1>7, <1>17, <2>1
<1>19. Ihl(p) = 5 + Len(o) \div 2
  BY <1>3, <1>5, <1>18 DEF Ihl
<1>20. TotLen(p) = 2 * Len(p)
  BY <1>16, <1>18 DEF TotLen, n
<1>21. ASSUME Len(o) = 0 PROVE Good(SubSeq(p, 1, 10))
  <2>1. 1 \in Nat /\ 10 \in Nat /\ 1 <= 1 /\ 1 <= 10 + 1 /\ 10 <= Len(p)
    BY <1>2, <1>16
  <2>2. v \in Seq(Word) /\ IsPart(v, p, 1, 10)
    BY <1>15, <2>1, Part, Zenon
  <2> DEFINE z == [w EXCEPT ![6] = c]
  <2>3. z \in Seq(Word) /\ IsPut(z, w, 6, c)
    BY <1>8, <1>9, <1>11, Put, Zenon
  <2> HIDE DEF v, z
  <2>4. Len(w) = 10 /\ Len(v) = 10 /\ Len(z) = 10
    BY <1>7, <1>8, <1>21, <2>2, <2>3 DEF IsJoin, IsPart, IsPut
  <2>5. \A i \in 1..Len(v) : v[i] = z[i]
    <3> SUFFICES ASSUME NEW i \in 1..10 PROVE v[i] = z[i]
      BY <2>4
    <3>1. i \in 1..((10 + 1) - 1) /\ (1 - 1) + i = i /\ i \in 1..Len(hdr) /\ i \in 1..Len(w)
      BY <1>7, <2>4
    <3>2. v[i] = fixed[i]
      BY <1>17, <2>2, <3>1 DEF IsPart
    <3>3. w[i] = hdr[i]
      BY <1>8, <3>1 DEF IsJoin
    <3>4. fixed[i] = IF i = 6 THEN c ELSE hdr[i]
      BY <1>12, <3>1 DEF IsPut
    <3>5. z[i] = IF i = 6 THEN c ELSE w[i]
      BY <2>3, <3>1 DEF IsPut
    <3> QED
      BY <3>2, <3>3, <3>4, <3>5
  <2>6. v = z
    <3>1. Len(v) = Len(z)
      BY <2>4
    <3> QED
      BY <2>2, <2>3, <2>5, <3>1, SameSeq, Zenon
  <2> QED
    BY <1>11, <2>6 DEF v, z
<1>22. IsStackPacket(p, o, d)
  BY <1>15, <1>16, <1>19, <1>20, <1>21 DEF IsStackPacket
<1> QED
  BY <1>22 DEF p

---------------------------------------------------------------------------
(* The inductive invariant.                                                *)

(* How often the packet went through pval_xmit, and the words of one of    *)
(* the options.                                                            *)
Num == Len(inserted)
OptionWord(j, m) == ipopt_pval(inserted[j][1], inserted[j][2])[m]

(* An option by its CPU and its sequence number.                           *)
Option == Byte \X [1..4 -> Word]

StackSent ==
  /\ sent \in Seq(Word) /\ Ihl(sent) \in 5..15 /\ Len(sent) >= 2 * Ihl(sent)
  /\ Len(sent) <= 32767
  /\ Bare => Good(SubSeq(sent, 1, 10))

Types ==
  /\ phase \in {"stack", "xmit", "walk", "done"}
  /\ pkt \in Seq(Word) /\ seq \in [1..4 -> Word]
  /\ inserted \in Seq(Option) /\ printed \in Seq(Option)
  /\ cp \in Nat /\ length \in 0..40

(* The options stand behind the fixed header, newest first, and then comes *)
(* what the stack had there; ihl and tot_len count modulo their width.     *)
Lengths ==
  /\ Len(pkt) = Len(sent) + 6 * Num
  /\ Ihl(pkt) = (Ihl(sent) + 3 * Num) % 16
  /\ TotLen(pkt) = (2 * Len(pkt)) % 65536

OptionsInFront == \A j \in 1..Num, m \in 1..6 : pkt[4 + 6 * j + m] = OptionWord(j, m)

RestFollows == \A i \in 11..Len(sent) : pkt[6 * Num + i] = sent[i]

(* The last checksum was made over 16 words.                               *)
FirstWordsGood == IF Num = 0 THEN pkt = sent ELSE Good(SubSeq(pkt, 1, 16))

(* tcpdump has printed the first n of the options.                         *)
ReadBack(n) == Len(printed) >= n /\ \A j \in 1..n : printed[j] = inserted[j]

(* Where the walk is: at one of the options, having printed those in       *)
(* front, or among the options of the stack.                               *)
AtOption(n)  == cp = 20 + 12 * n /\ ReadBack(n) /\ Len(printed) = n
AtStackOption == cp > 20 + 12 * Num /\ ReadBack(Num) /\ ~Bare

Walk ==
  /\ phase # "stack" => Num > 0
  /\ phase \in {"stack", "xmit"} => printed = <<>>
  /\ phase = "walk" => cp >= 20 /\ cp + length = 4 * Ihl(pkt) /\ 4 * Ihl(pkt) <= TotLen(pkt)
  /\ phase = "walk" /\ Fits => AtStackOption \/ \E n \in 0..Num : AtOption(n)
  /\ phase = "done" /\ Fits =>
       IF LengthFits THEN ReadBack(Num) /\ (Bare => Len(printed) = Num) ELSE printed = <<>>

IInv ==
  /\ StackSent /\ Types /\ Lengths /\ OptionsInFront /\ RestFollows
  /\ FirstWordsGood /\ Walk

(* A packet of the stack is a start.                                       *)
LEMMA InitIInv == Init => IInv
<1> SUFFICES ASSUME Init PROVE IInv
  OBVIOUS
<1>1. PICK id, o, d : StackWords(id, o, d) /\ sent = StackPacket(id, o, d)
  <2>1. PICK q \in Packets : sent = StackPacket(q.id, q.opts, q.data)
    BY DEF Init
  <2>2. StackWords(q.id, q.opts, q.data)
    BY WordsAssumption DEF StackWords
  <2> QED
    BY <2>1, <2>2
<1>2. IsStackPacket(sent, o, d)
  BY <1>1, StackMakes
<1>3. /\ o \in Seq(Word) /\ d \in Seq(Word) /\ Len(o) % 2 = 0 /\ Len(o) <= 20
      /\ 2 * (10 + Len(o) + Len(d)) \in Word
  BY <1>1 DEF StackWords
<1>4. Len(o) \in Nat /\ Len(d) \in Nat
  BY <1>3
<1>5. PICK k \in Nat : k = Len(o) \div 2 /\ k <= 10 /\ Len(o) = 2 * k
  BY <1>3, <1>4
<1>6. StackSent
  <2>1. sent \in Seq(Word) /\ Len(sent) = 10 + Len(o) + Len(d) /\ Ihl(sent) = 5 + k
    BY <1>2, <1>5 DEF IsStackPacket
  <2>2. Ihl(sent) \in 5..15 /\ Len(sent) >= 2 * Ihl(sent)
    BY <1>4, <1>5, <2>1
  <2>4. Len(sent) <= 32767
    BY <1>3, <1>4, <2>1, WordIs
  <2>3. Bare => Len(o) = 0
    BY <1>5, <2>1 DEF Bare
  <2> QED
    BY <1>2, <2>1, <2>2, <2>3, <2>4 DEF StackSent, IsStackPacket
<1>7. /\ phase = "stack" /\ pkt = sent /\ seq \in FirstSeqs /\ cp = 0 /\ length = 0
      /\ printed = <<>> /\ inserted = <<>>
  BY DEF Init
<1>8. seq \in [1..4 -> Word]
  <2>1. seq \in Seq(Word) /\ Len(seq) = 4
    BY <1>7, WordsAssumption
  <2>2. seq \in [1..Len(seq) -> Word]
    BY <2>1, LenProperties
  <2> QED
    BY <2>1, <2>2
<1>9. Types
  BY <1>6, <1>7, <1>8 DEF Types, StackSent
<1>10. Num = 0
  BY <1>7 DEF Num
<1>11. Lengths
  <2>1. TotLen(sent) = 2 * Len(sent) /\ Len(sent) = 10 + Len(o) + Len(d)
    BY <1>2 DEF IsStackPacket
  <2>2. 2 * Len(sent) \in Nat /\ 2 * Len(sent) <= 65535
    BY <1>3, <2>1, WordIs
  <2>3. Ihl(sent) \in 5..15 /\ Len(sent) \in Nat
    BY <1>6 DEF StackSent
  <2> QED
    BY <1>7, <1>10, <2>1, <2>2, <2>3 DEF Lengths
<1>12. OptionsInFront /\ RestFollows /\ FirstWordsGood
  BY <1>7, <1>10 DEF OptionsInFront, RestFollows, FirstWordsGood
<1>13. Walk
  BY <1>7 DEF Walk
<1> QED
  BY <1>6, <1>9, <1>11, <1>12, <1>13 DEF IInv

(* The sequence number stays 64 bits wide.                                 *)
LEMMA NextSeqType ==
  ASSUME NEW s \in [1..4 -> Word]
  PROVE  NextSeq(s) \in [1..4 -> Word]
<1>1. ASSUME NEW i \in 1..4 PROVE (s[i] + 1) % 65536 \in Word /\ s[i] \in Word
  <2>1. s[i] \in Word
    OBVIOUS
  <2>2. s[i] \in Nat
    BY <2>1, WordIs
  <2>3. (s[i] + 1) % 65536 \in Nat /\ (s[i] + 1) % 65536 <= 65535
    BY <2>2
  <2> QED
    BY <2>1, <2>3, WordIs
<1> QED
  BY <1>1 DEF NextSeq

(* Counting modulo the width of a field, step by step.                     *)
LEMMA CountOn ==
  ASSUME NEW a \in Nat
  PROVE  /\ ((a % 16) + 3) % 16 = (a + 3) % 16
         /\ ((a % 65536) + 12) % 65536 = (a + 12) % 65536
  OBVIOUS

(* The numbers of a state.                                                 *)
LEMMA Numbers ==
  ASSUME StackSent, Types, Lengths
  PROVE  /\ Num \in Nat /\ Len(sent) \in Nat /\ Len(pkt) \in Nat /\ Len(pkt) >= 10
         /\ Ihl(sent) \in Nat /\ Ihl(sent) >= 5 /\ Ihl(sent) <= 15
         /\ Ihl(pkt) \in Nat /\ Ihl(pkt) <= 15 /\ 2 * Ihl(pkt) <= Len(pkt)
         /\ Fits => Ihl(pkt) = Ihl(sent) + 3 * Num
<1>1. Num \in Nat /\ Len(sent) \in Nat /\ Len(pkt) \in Nat
  BY DEF Types, StackSent, Num
<1>2. /\ Ihl(sent) \in Nat /\ Ihl(sent) >= 5 /\ Ihl(sent) <= 15 /\ Len(sent) >= 2 * Ihl(sent)
      /\ Len(pkt) = Len(sent) + 6 * Num /\ Ihl(pkt) = (Ihl(sent) + 3 * Num) % 16
  BY DEF StackSent, Lengths
<1>3. Fits <=> Ihl(sent) + 3 * Num <= 15
  BY DEF Fits, Num
<1>4. \A a \in Nat : a % 16 \in Nat /\ a % 16 <= 15 /\ a % 16 <= a /\ (a <= 15 => a % 16 = a)
  OBVIOUS
<1> DEFINE a == Ihl(sent) + 3 * Num
<1>5. a \in Nat /\ Ihl(pkt) = a % 16 /\ Len(pkt) >= 2 * a /\ a >= 5
  BY <1>1, <1>2
<1>6. Ihl(pkt) \in Nat /\ Ihl(pkt) <= 15 /\ Ihl(pkt) <= a /\ (a <= 15 => Ihl(pkt) = a)
  <2> HIDE DEF a
  <2> QED
    BY <1>4, <1>5
<1>7. 2 * Ihl(pkt) <= Len(pkt) /\ Len(pkt) >= 10
  <2> HIDE DEF a
  <2> QED
    BY <1>1, <1>5, <1>6
<1> QED
  BY <1>1, <1>2, <1>3, <1>6, <1>7

(* With options that ihl can count, tot_len counts the header exactly when *)
(* it counts the packet: what is left of a length that wrapped is shorter  *)
(* than the options.                                                       *)
LEMMA LengthTold ==
  ASSUME StackSent, Types, Lengths, Fits
  PROVE  4 * Ihl(pkt) <= TotLen(pkt) <=> LengthFits
<1>1. /\ Num \in Nat /\ Len(sent) \in Nat /\ Len(pkt) \in Nat /\ Ihl(sent) \in Nat
      /\ Ihl(pkt) \in Nat /\ Ihl(sent) >= 5 /\ Ihl(pkt) <= 15 /\ 2 * Ihl(pkt) <= Len(pkt)
      /\ Ihl(pkt) = Ihl(sent) + 3 * Num
  BY Numbers
<1>2. Len(pkt) = Len(sent) + 6 * Num /\ TotLen(pkt) = (2 * Len(pkt)) % 65536
  BY DEF Lengths
<1>3. 2 * Len(sent) <= 65535
  BY <1>1 DEF StackSent
<1>4. LengthFits <=> 2 * Len(pkt) <= 65535
  BY <1>1, WordIs DEF LengthFits
<1> DEFINE b == 2 * Len(pkt)
<1>5. b \in Nat /\ 4 * Ihl(pkt) <= b /\ b < 65536 + 4 * Ihl(pkt) /\ b < 65536 + 65536
  BY <1>1, <1>2, <1>3
<1>6. TotLen(pkt) = b % 65536 /\ (LengthFits <=> b <= 65535)
  BY <1>2, <1>4
<1> HIDE DEF b
<1>7. CASE b <= 65535
  <2>1. b % 65536 = b
    BY <1>5, <1>7
  <2> QED
    BY <1>5, <1>6, <1>7, <2>1
<1>8. CASE b > 65535
  <2>1. b % 65536 = b - 65536
    BY <1>5, <1>8
  <2> QED
    BY <1>1, <1>5, <1>6, <1>8, <2>1
<1> QED
  BY <1>5, <1>7, <1>8

(* pval_xmit puts another option in front of those that are there.         *)
LEMMA InsertKeeps ==
  ASSUME IInv, NEW c \in CpuIds, InsertOption(c)
  PROVE  IInv'
<1> DEFINE y == Insert(pkt, c)
           e == <<c, seq>>
<1>1. StackSent /\ Types /\ Lengths /\ OptionsInFront /\ RestFollows /\ Walk
  BY DEF IInv
<1>2. /\ phase = "stack" /\ pkt' = y /\ inserted' = <<e>> \o inserted
      /\ seq' = NextSeq(seq) /\ phase' = "xmit"
      /\ sent' = sent /\ cp' = cp /\ length' = length /\ printed' = printed
  BY DEF InsertOption
<1>3. /\ Num \in Nat /\ Len(sent) \in Nat /\ Len(pkt) \in Nat /\ Len(pkt) >= 10
      /\ Ihl(sent) \in Nat /\ Ihl(sent) >= 5 /\ Ihl(pkt) \in Nat
  BY <1>1, Numbers
<1>4. c \in Byte /\ pkt \in Seq(Word) /\ seq \in [1..4 -> Word]
  BY <1>1, WordsAssumption DEF Types
<1>5. /\ y \in Seq(Word) /\ Len(y) = Len(pkt) + 6
      /\ Ihl(y) = (Ihl(pkt) + 3) % 16 /\ TotLen(y) = (TotLen(pkt) + 12) % 65536
      /\ \A m \in 1..6 : y[10 + m] = ipopt_pval(c, seq)[m]
      /\ \A i \in 11..Len(pkt) : y[6 + i] = pkt[i]
      /\ Good(SubSeq(y, 1, 16))
  BY <1>3, <1>4, Inserted
<1> HIDE DEF y
<1>6. e \in Option
  BY <1>4 DEF Option
<1>7. /\ inserted' \in Seq(Option) /\ Num' = Num + 1 /\ inserted'[1] = e
      /\ \A j \in 1..Num : inserted'[j + 1] = inserted[j]
  <2>1. inserted \in Seq(Option)
    BY <1>1 DEF Types
  <2>2. <<e>> \in Seq(Option)
    BY <1>6
  <2>3. inserted' \in Seq(Option) /\ IsJoin(inserted', <<e>>, inserted)
    BY <1>2, <2>1, <2>2, Joined, Zenon
  <2>4. Len(<<e>>) = 1 /\ <<e>>[1] = e
    OBVIOUS
  <2>5. Len(inserted') = 1 + Num /\ inserted'[1] = e
    BY <2>3, <2>4 DEF IsJoin, Num
  <2>6. \A j \in 1..Num : inserted'[1 + j] = inserted[j]
    BY <2>3, <2>4 DEF IsJoin, Num
  <2> QED
    BY <1>3, <2>3, <2>5, <2>6 DEF Num
<1>8. StackSent'
  BY <1>1, <1>2 DEF StackSent, Bare, Ihl
<1>9. Types'
  BY <1>1, <1>2, <1>4, <1>5, <1>7, NextSeqType DEF Types
<1>10. Lengths'
  <2>1. Len(y) = Len(sent) + 6 * (Num + 1)
    BY <1>1, <1>3, <1>5 DEF Lengths
  <2>2. Ihl(y) = (Ihl(sent) + 3 * (Num + 1)) % 16
    <3> DEFINE a == Ihl(sent) + 3 * Num
    <3>1. a \in Nat /\ Ihl(sent) + 3 * (Num + 1) = a + 3
      BY <1>3
    <3>2. Ihl(pkt) = a % 16
      BY <1>1 DEF Lengths
    <3> HIDE DEF a
    <3>3. ((a % 16) + 3) % 16 = (a + 3) % 16
      BY <3>1, CountOn
    <3> QED
      BY <1>5, <3>1, <3>2, <3>3
  <2>3. TotLen(y) = (2 * Len(y)) % 65536
    <3> DEFINE b == 2 * Len(pkt)
    <3>1. b \in Nat /\ 2 * Len(y) = b + 12
      BY <1>3, <1>5
    <3>2. TotLen(pkt) = b % 65536
      BY <1>1 DEF Lengths
    <3> HIDE DEF b
    <3>3. ((b % 65536) + 12) % 65536 = (b + 12) % 65536
      BY <3>1, CountOn
    <3>4. TotLen(y) = ((b % 65536) + 12) % 65536
      BY <1>5, <3>2
    <3> QED
      BY <3>1, <3>3, <3>4
  <2> QED
    BY <1>2, <1>7, <2>1, <2>2, <2>3 DEF Lengths, Ihl, TotLen
<1>11. OptionsInFront'
  <2> SUFFICES ASSUME NEW j \in 1..(Num + 1), NEW m \in 1..6
               PROVE  y[4 + 6 * j + m] = ipopt_pval(inserted'[j][1], inserted'[j][2])[m]
    BY <1>2, <1>7 DEF OptionsInFront, OptionWord
  <2>1. CASE j = 1
    <3>1. 4 + 6 * j + m = 10 + m
      BY <2>1
    <3>2. inserted'[j][1] = c /\ inserted'[j][2] = seq
      BY <1>7, <2>1
    <3>3. y[10 + m] = ipopt_pval(c, seq)[m]
      BY <1>5
    <3> QED
      BY <3>1, <3>2, <3>3
  <2>2. CASE j # 1
    <3> DEFINE i == 4 + 6 * (j - 1) + m
    <3>1. j - 1 \in 1..Num /\ (j - 1) + 1 = j
      BY <1>3, <2>2
    <3>2. i \in 11..Len(pkt) /\ 6 + i = 4 + 6 * j + m
      <4>1. Len(pkt) = Len(sent) + 6 * Num /\ Len(sent) >= 2 * Ihl(sent)
        BY <1>1 DEF Lengths, StackSent
      <4>2. Len(pkt) >= 10 + 6 * Num
        BY <1>3, <4>1
      <4> QED
        BY <1>3, <3>1, <4>2
    <3>3. pkt[i] = ipopt_pval(inserted[j - 1][1], inserted[j - 1][2])[m]
      BY <1>1, <3>1 DEF OptionsInFront, OptionWord
    <3>4. inserted'[j] = inserted[j - 1]
      BY <1>7, <3>1
    <3> HIDE DEF i
    <3>5. y[6 + i] = pkt[i]
      BY <1>5, <3>2
    <3> QED
      BY <3>2, <3>3, <3>4, <3>5
  <2> QED
    BY <2>1, <2>2
<1>12. RestFollows'
  <2> SUFFICES ASSUME NEW i \in 11..Len(sent) PROVE y[6 * (Num + 1) + i] = sent[i]
    BY <1>2, <1>7 DEF RestFollows
  <2> DEFINE k == 6 * Num + i
  <2>1. k \in 11..Len(pkt) /\ 6 + k = 6 * (Num + 1) + i
    BY <1>1, <1>3 DEF Lengths
  <2>2. pkt[k] = sent[i]
    BY <1>1 DEF RestFollows
  <2> HIDE DEF k
  <2> QED
    BY <1>5, <2>1, <2>2
<1>13. FirstWordsGood'
  BY <1>2, <1>3, <1>5, <1>7 DEF FirstWordsGood
<1>14. Walk'
  BY <1>1, <1>2, <1>3, <1>7 DEF Walk
<1> QED
  BY <1>8, <1>9, <1>10, <1>11, <1>12, <1>13, <1>14 DEF IInv

(* The parts about the packet, where a step leaves it alone.               *)
LEMMA PacketKept ==
  ASSUME IInv, UNCHANGED <<pkt, sent, seq, inserted>>
  PROVE  /\ (StackSent /\ Lengths /\ OptionsInFront /\ RestFollows /\ FirstWordsGood)'
         /\ Num' = Num /\ (Fits' <=> Fits) /\ (Bare' <=> Bare) /\ Ihl(pkt)' = Ihl(pkt)
         /\ (LengthFits' <=> LengthFits) /\ TotLen(pkt)' = TotLen(pkt)
<1>1. pkt' = pkt /\ sent' = sent /\ seq' = seq /\ inserted' = inserted
  OBVIOUS
<1>2. Num' = Num /\ (Fits' <=> Fits) /\ (Bare' <=> Bare) /\ Ihl(pkt)' = Ihl(pkt)
      /\ (LengthFits' <=> LengthFits) /\ TotLen(pkt)' = TotLen(pkt)
  BY <1>1 DEF Num, Fits, Bare, Ihl, LengthFits, TotLen
<1>3. StackSent'
  BY <1>1 DEF IInv, StackSent, Bare, Ihl
<1>4. Lengths'
  BY <1>1 DEF IInv, Lengths, Num, Ihl, TotLen
<1>5. OptionsInFront'
  BY <1>1 DEF IInv, OptionsInFront, OptionWord, Num
<1>6. RestFollows'
  BY <1>1 DEF IInv, RestFollows, Num
<1>7. FirstWordsGood'
  BY <1>1 DEF IInv, FirstWordsGood, Num
<1> QED
  BY <1>2, <1>3, <1>4, <1>5, <1>6, <1>7

(* The failed clone.                                                       *)
LEMMA GiveBackKeeps ==
  ASSUME IInv, GiveBack
  PROVE  IInv'
<1>1. /\ phase = "xmit" /\ phase' = "stack" /\ UNCHANGED <<pkt, sent, seq, inserted>>
      /\ cp' = cp /\ length' = length /\ printed' = printed
  BY DEF GiveBack
<1>2. /\ (StackSent /\ Lengths /\ OptionsInFront /\ RestFollows /\ FirstWordsGood)'
      /\ Num' = Num
  BY <1>1, PacketKept
<1>3. Types'
  BY <1>1 DEF IInv, Types
<1>4. Walk'
  BY <1>1, <1>2 DEF IInv, Walk
<1> QED
  BY <1>2, <1>3, <1>4 DEF IInv

(* A packet that is transmitted has an option of its own.                  *)
LEMMA DeliverKeeps ==
  ASSUME IInv, Deliver
  PROVE  IInv'
<1>1. /\ phase = "xmit" /\ phase' = "walk" /\ UNCHANGED <<pkt, sent, seq, inserted>>
      /\ cp' = 20 /\ length' = 4 * Ihl(pkt) - 20 /\ Ihl(pkt) >= 5 /\ printed' = printed
      /\ 4 * Ihl(pkt) <= TotLen(pkt)
  BY Numbers DEF Deliver, SaneLengths, IInv, Lengths
<1>2. /\ (StackSent /\ Lengths /\ OptionsInFront /\ RestFollows /\ FirstWordsGood)'
      /\ Num' = Num /\ Ihl(pkt)' = Ihl(pkt) /\ TotLen(pkt)' = TotLen(pkt)
  BY <1>1, PacketKept
<1>3. Num \in Nat /\ Ihl(pkt) \in Nat /\ Ihl(pkt) <= 15
  BY Numbers DEF IInv
<1>4. length' \in 0..40 /\ cp' \in Nat /\ cp' + length' = 4 * Ihl(pkt)
  BY <1>1, <1>3
<1>5. Types'
  BY <1>1, <1>4 DEF IInv, Types
<1>6. printed' = <<>> /\ Num > 0
  BY <1>1 DEF IInv, Walk
<1>7. AtOption(0)'
  <2>1. cp' = 20 + 12 * 0 /\ Len(printed') = 0
    BY <1>1, <1>6
  <2> QED
    BY <2>1 DEF AtOption, ReadBack
<1>8. 0 \in 0..Num'
  BY <1>2, <1>3
<1>9. (\E n \in 0..Num : AtOption(n))'
  BY <1>7, <1>8
<1>10. Walk'
  BY <1>1, <1>2, <1>4, <1>6, <1>9 DEF Walk
<1> QED
  BY <1>2, <1>5, <1>10 DEF IInv

(* An ihl below 5 and a tot_len below the header have wrapped around.      *)
LEMMA DeliverBadKeeps ==
  ASSUME IInv, DeliverBad
  PROVE  IInv'
<1>1. /\ phase = "xmit" /\ phase' = "done" /\ UNCHANGED <<pkt, sent, seq, inserted>>
      /\ cp' = cp /\ length' = length /\ ~SaneLengths /\ printed' = printed
  BY DEF DeliverBad
<1>2. /\ (StackSent /\ Lengths /\ OptionsInFront /\ RestFollows /\ FirstWordsGood)'
      /\ Num' = Num /\ (Fits' <=> Fits) /\ (LengthFits' <=> LengthFits)
  BY <1>1, PacketKept
<1>3. Fits => ~LengthFits
  <2>1. /\ Num \in Nat /\ Ihl(pkt) \in Nat /\ Ihl(sent) \in Nat /\ Ihl(sent) >= 5
        /\ (Fits => Ihl(pkt) = Ihl(sent) + 3 * Num)
    BY Numbers DEF IInv
  <2>2. Fits => (4 * Ihl(pkt) <= TotLen(pkt) <=> LengthFits)
    BY LengthTold DEF IInv
  <2>3. TotLen(pkt) \in Nat
    <3>1. Len(pkt) \in Nat /\ TotLen(pkt) = (2 * Len(pkt)) % 65536
      BY Numbers DEF IInv, Lengths
    <3> QED
      BY <3>1
  <2> QED
    BY <1>1, <2>1, <2>2, <2>3 DEF SaneLengths
<1>4. Types'
  BY <1>1 DEF IInv, Types
<1>5. Num > 0 /\ printed' = <<>>
  BY <1>1 DEF IInv, Walk
<1>6. Walk'
  BY <1>1, <1>2, <1>3, <1>5 DEF Walk
<1> QED
  BY <1>2, <1>4, <1>6 DEF IInv

---------------------------------------------------------------------------
(* The walk of the options.                                                *)

(* What stands in the packet is read in bytes.                             *)
LEMMA ByteAtByte ==
  ASSUME NEW p \in Seq(Word), NEW i \in Nat, i < 2 * Len(p)
  PROVE  ByteAt(p, i) \in Byte
<1>1. i \div 2 + 1 \in 1..Len(p)
  <2>1. Len(p) \in Nat
    OBVIOUS
  <2>2. i \div 2 \in Nat /\ 2 * (i \div 2) <= i
    OBVIOUS
  <2> QED
    BY <2>1, <2>2
<1>2. p[i \div 2 + 1] \in Word
  BY <1>1
<1> QED
  BY <1>2, Bytes DEF ByteAt

(* The bytes of a word by their number.                                    *)
LEMMA BytesAt ==
  ASSUME NEW p \in Seq(Word), NEW k \in Nat
  PROVE  ByteAt(p, 2 * k) = High(p[k + 1]) /\ ByteAt(p, 2 * k + 1) = Low(p[k + 1])
<1>1. /\ (2 * k) % 2 = 0 /\ (2 * k) \div 2 = k
      /\ (2 * k + 1) % 2 = 1 /\ (2 * k + 1) \div 2 = k
  OBVIOUS
<1> QED
  BY <1>1 DEF ByteAt

(* ip_printpval reads an option as it was put in.                          *)
LEMMA ReadsOption ==
  ASSUME IInv, NEW n \in Nat, n < Num, cp = 20 + 12 * n
  PROVE  /\ option_code = 222 /\ option_len = 12
         /\ ip_printpval = Append(printed, inserted[n + 1])
<1> DEFINE e == inserted[n + 1]
           c == e[1]
           q == e[2]
           at(i) == ByteAt(pkt, cp + i)
           k == 10 + 6 * n
<1>1. Num \in Nat /\ pkt \in Seq(Word) /\ inserted \in Seq(Option)
  BY Numbers DEF IInv, Types
<1>2. n + 1 \in 1..Num /\ k \in Nat /\ cp = 2 * k
  BY <1>1
<1>3. e \in Option
  BY <1>1, <1>2 DEF Num
<1>4. c \in Byte /\ q \in [1..4 -> Word] /\ e = <<c, q>>
  BY <1>3 DEF Option
<1> HIDE DEF c, q, e
<1>5. /\ ipopt_pval(c, q)[1] = 56844 /\ ipopt_pval(c, q)[2] = c
      /\ \A i \in 1..4 : ipopt_pval(c, q)[i + 2] = Swap(q[i])
  BY <1>4, OptionWords
<1>6. \A m \in 1..6 : pkt[k + m] = ipopt_pval(c, q)[m]
  <2> SUFFICES ASSUME NEW m \in 1..6 PROVE pkt[k + m] = ipopt_pval(c, q)[m]
    OBVIOUS
  <2>1. pkt[4 + 6 * (n + 1) + m] = OptionWord(n + 1, m)
    BY <1>2 DEF IInv, OptionsInFront
  <2>2. 4 + 6 * (n + 1) + m = k + m
    OBVIOUS
  <2>3. OptionWord(n + 1, m) = ipopt_pval(c, q)[m]
    BY DEF OptionWord, c, q, e
  <2> QED
    BY <2>1, <2>2, <2>3
<1>7. pkt[k + 1] = 56844 /\ pkt[k + 2] = c
  BY <1>5, <1>6
<1>8. \A i \in 1..4 : pkt[k + i + 2] = Swap(q[i])
  <2> SUFFICES ASSUME NEW i \in 1..4 PROVE pkt[k + i + 2] = Swap(q[i])
    OBVIOUS
  <2>1. i + 2 \in 1..6 /\ k + (i + 2) = k + i + 2
    BY <1>2
  <2>2. pkt[k + (i + 2)] = ipopt_pval(c, q)[i + 2]
    BY <1>6, <2>1
  <2> QED
    BY <1>5, <2>1, <2>2
<1> HIDE DEF k
<1>9. option_code = 222 /\ ByteAt(pkt, cp + 1) = 12
  <2>1. ByteAt(pkt, 2 * k) = High(56844) /\ ByteAt(pkt, 2 * k + 1) = Low(56844)
    BY <1>1, <1>2, <1>7, BytesAt
  <2>2. High(56844) = 222 /\ Low(56844) = 12
    BY DEF High, Low
  <2> QED
    BY <1>2, <2>1, <2>2 DEF option_code
<1>10. option_len = 12
  BY <1>9 DEF option_len
<1>11. at(3) = c
  <2>1. k + 1 \in Nat /\ 2 * (k + 1) + 1 = cp + 3 /\ (k + 1) + 1 = k + 2
    BY <1>2
  <2>2. ByteAt(pkt, 2 * (k + 1) + 1) = Low(pkt[(k + 1) + 1])
    BY <1>1, <2>1, BytesAt
  <2>3. Low(c) = c
    <3>1. c \in Nat /\ c <= 255
      BY <1>4, ByteIs
    <3> QED
      BY <3>1 DEF Low
  <2> QED
    BY <1>7, <2>1, <2>2, <2>3
<1>12. \A i \in 1..4 : at(2 * i + 3) * 256 + at(2 * i + 2) = q[i]
  <2> SUFFICES ASSUME NEW i \in 1..4 PROVE at(2 * i + 3) * 256 + at(2 * i + 2) = q[i]
    OBVIOUS
  <2> DEFINE h == k + i + 1
  <2>1. /\ h \in Nat /\ 2 * h = cp + (2 * i + 2) /\ 2 * h + 1 = cp + (2 * i + 3)
        /\ h + 1 = k + i + 2
    BY <1>2
  <2> HIDE DEF h
  <2>2. ByteAt(pkt, 2 * h) = High(pkt[h + 1]) /\ ByteAt(pkt, 2 * h + 1) = Low(pkt[h + 1])
    BY <1>1, <2>1, BytesAt
  <2>3. pkt[h + 1] = Swap(q[i])
    BY <1>8, <2>1
  <2>4. q[i] \in Word
    BY <1>4
  <2>5. /\ High(Swap(q[i])) = Low(q[i]) /\ Low(Swap(q[i])) = High(q[i])
        /\ High(q[i]) * 256 + Low(q[i]) = q[i]
    BY <2>4, Bytes
  <2>6. at(2 * i + 3) = High(q[i]) /\ at(2 * i + 2) = Low(q[i])
    BY <2>1, <2>2, <2>3, <2>5
  <2> QED
    BY <2>5, <2>6
<1>13. <<at(3), [i \in 1..4 |-> at(2 * i + 3) * 256 + at(2 * i + 2)]>> = e
  <2>1. [i \in 1..4 |-> at(2 * i + 3) * 256 + at(2 * i + 2)] = q
    BY <1>4, <1>12
  <2> QED
    BY <1>4, <1>11, <2>1
<1>14. option_code = 222 /\ option_len >= 12
  BY <1>9, <1>10
<1>15. ip_printpval =
         Append(printed, <<at(3), [i \in 1..4 |-> at(2 * i + 3) * 256 + at(2 * i + 2)]>>)
  BY <1>14 DEF ip_printpval
<1> QED
  BY <1>9, <1>10, <1>13, <1>15 DEF e

(* What ip_printpval prints is in the header, and has its types.           *)
LEMMA PrintsOption ==
  ASSUME IInv, phase = "walk", GoodOption
  PROVE  /\ option_len \in Nat /\ option_len >= 1 /\ option_len <= length
         /\ ip_printpval = printed \/ \E e \in Option : ip_printpval = Append(printed, e)
<1> DEFINE at(i) == ByteAt(pkt, cp + i)
           e == <<at(3), [i \in 1..4 |-> at(2 * i + 3) * 256 + at(2 * i + 2)]>>
<1>1. pkt \in Seq(Word) /\ cp \in Nat /\ length \in Nat /\ length > 0 /\ option_len <= length
  BY DEF IInv, Types, GoodOption
<1>2. Len(pkt) \in Nat /\ cp + length <= 2 * Len(pkt)
  <2>1. Ihl(pkt) \in Nat /\ 2 * Ihl(pkt) <= Len(pkt) /\ Len(pkt) \in Nat
    BY Numbers DEF IInv
  <2>2. cp + length = 4 * Ihl(pkt)
    BY DEF IInv, Walk
  <2> QED
    BY <1>1, <2>1, <2>2
<1>3. option_len \in Nat /\ option_len >= 1
  <2>1. CASE option_code = 1
    BY <2>1 DEF option_len
  <2>2. CASE option_code # 1
    <3>1. cp + 1 < 2 * Len(pkt) /\ option_len >= 2 /\ option_code # 0
      <4>1. cp + 1 < snapend /\ option_len >= 2 /\ option_code # 0
        BY <2>2 DEF GoodOption
      <4>2. TotLen(pkt) \in Nat
        BY <1>2 DEF IInv, Lengths
      <4> QED
        BY <1>1, <1>2, <4>1, <4>2 DEF snapend
    <3>2. ByteAt(pkt, cp + 1) \in Byte
      BY <1>1, <3>1, ByteAtByte
    <3>3. option_len \in Byte
      BY <2>2, <3>1, <3>2 DEF option_len
    <3>4. option_len \in Nat
      BY <3>3, ByteIs
    <3> QED
      BY <3>1, <3>4
  <2> QED
    BY <2>1, <2>2
<1>4. CASE option_code = 222 /\ option_len >= 12
  <2>1. \A i \in 0..11 : cp + i \in Nat /\ cp + i < 2 * Len(pkt)
    BY <1>1, <1>2, <1>3, <1>4
  <2>2. \A i \in 0..11 : at(i) \in Byte
    BY <1>1, <2>1, ByteAtByte
  <2>3. \A i \in 1..4 : at(2 * i + 3) * 256 + at(2 * i + 2) \in Word
    <3> SUFFICES ASSUME NEW i \in 1..4
                 PROVE  at(2 * i + 3) * 256 + at(2 * i + 2) \in Word
      OBVIOUS
    <3>1. 2 * i + 3 \in 0..11 /\ 2 * i + 2 \in 0..11
      OBVIOUS
    <3>2. at(2 * i + 3) \in Byte /\ at(2 * i + 2) \in Byte
      BY <2>2, <3>1
    <3> HIDE DEF at
    <3>3. /\ at(2 * i + 3) \in Nat /\ at(2 * i + 3) <= 255
          /\ at(2 * i + 2) \in Nat /\ at(2 * i + 2) <= 255
      BY <3>2, ByteIs
    <3>4. at(2 * i + 3) * 256 + at(2 * i + 2) \in Nat
          /\ at(2 * i + 3) * 256 + at(2 * i + 2) <= 65535
      BY <3>3
    <3> QED
      BY <3>4, WordIs
  <2>4. at(3) \in Byte
    BY <2>2
  <2> HIDE DEF at
  <2>5. e \in Option
    BY <2>3, <2>4 DEF Option
  <2>6. ip_printpval = Append(printed, e)
    BY <1>4 DEF ip_printpval, at
  <2> HIDE DEF e
  <2> QED
    BY <1>1, <1>3, <2>5, <2>6
<1>5. CASE ~ (option_code = 222 /\ option_len >= 12)
  BY <1>1, <1>3, <1>5 DEF ip_printpval
<1> QED
  BY <1>4, <1>5

(* What was read back stays read back when more is printed.                *)
LEMMA ReadBackKept ==
  ASSUME IInv, NEW n \in Nat, ReadBack(n), inserted' = inserted,
         printed' = printed \/ \E e \in Option : printed' = Append(printed, e)
  PROVE  ReadBack(n)'
<1>1. printed \in Seq(Option) /\ Len(printed) \in Nat
  BY DEF IInv, Types
<1>2. Len(printed) >= n /\ \A j \in 1..n : printed[j] = inserted[j]
  BY DEF ReadBack
<1>3. CASE printed' = printed
  BY <1>2, <1>3 DEF ReadBack
<1>4. CASE \E e \in Option : printed' = Append(printed, e)
  <2>1. PICK e \in Option : printed' = Append(printed, e)
    BY <1>4
  <2>2. /\ Len(printed') = Len(printed) + 1
        /\ \A j \in 1..Len(printed) : printed'[j] = printed[j]
    BY <1>1, <2>1, AppendProperties
  <2>3. \A j \in 1..n : j \in 1..Len(printed)
    BY <1>1, <1>2
  <2>4. \A j \in 1..n : printed'[j] = inserted'[j]
    BY <1>2, <2>2, <2>3
  <2>5. Len(printed') >= n
    BY <1>1, <1>2, <2>2
  <2> QED
    BY <2>4, <2>5 DEF ReadBack
<1> QED
  BY <1>3, <1>4

(* An option that tcpdump takes moves the walk on.                         *)
LEMMA WalkOptionKeeps ==
  ASSUME IInv, WalkOption
  PROVE  IInv'
<1>1. /\ phase = "walk" /\ phase' = "walk" /\ UNCHANGED <<pkt, sent, seq, inserted>>
      /\ cp' = cp + option_len /\ length' = length - option_len
      /\ printed' = ip_printpval /\ GoodOption
  BY DEF WalkOption
<1>2. /\ (StackSent /\ Lengths /\ OptionsInFront /\ RestFollows /\ FirstWordsGood)'
      /\ Num' = Num /\ (Fits' <=> Fits) /\ (Bare' <=> Bare) /\ Ihl(pkt)' = Ihl(pkt)
      /\ TotLen(pkt)' = TotLen(pkt)
  BY <1>1, PacketKept
<1>3. /\ Num \in Nat /\ Ihl(pkt) \in Nat /\ Ihl(sent) \in Nat
      /\ (Fits => Ihl(pkt) = Ihl(sent) + 3 * Num)
  BY Numbers DEF IInv
<1>4. /\ option_len \in Nat /\ option_len >= 1 /\ option_len <= length
      /\ printed' = printed \/ \E e \in Option : printed' = Append(printed, e)
  BY <1>1, PrintsOption
<1>5. /\ cp \in Nat /\ length \in 0..40 /\ cp >= 20 /\ cp + length = 4 * Ihl(pkt)
      /\ printed \in Seq(Option) /\ inserted \in Seq(Option) /\ Num > 0
      /\ inserted' = inserted /\ 4 * Ihl(pkt) <= TotLen(pkt)
  BY <1>1 DEF IInv, Types, Walk
<1>6. /\ cp' \in Nat /\ length' \in 0..40 /\ cp' >= 20 /\ cp' + length' = 4 * Ihl(pkt)
      /\ cp' > cp
  <2>1. length \in Nat /\ length <= 40 /\ option_len \in Nat /\ option_len >= 1 /\ cp \in Nat
    BY <1>4, <1>5
  <2> QED
    BY <1>1, <1>3, <1>4, <1>5, <2>1
<1>7. printed' \in Seq(Option)
  BY <1>4, <1>5, AppendProperties
<1>8. Types'
  BY <1>1, <1>6, <1>7 DEF IInv, Types
<1>9. ASSUME Fits PROVE (AtStackOption \/ \E n \in 0..Num : AtOption(n))'
  <2>1. AtStackOption \/ \E n \in 0..Num : AtOption(n)
    BY <1>1, <1>9 DEF IInv, Walk
  <2>2. ASSUME ReadBack(Num), cp >= 20 + 12 * Num, ~Bare PROVE AtStackOption'
    <3>1. ReadBack(Num)'
      <4>1. \E n \in Nat : n = Num
        BY <1>3
      <4>2. PICK n \in Nat : n = Num
        BY <4>1
      <4>3. ReadBack(n)
        BY <2>2, <4>2
      <4>4. ReadBack(n)'
        BY <1>4, <1>5, <4>3, ReadBackKept
      <4>5. n' = n /\ n = Num'
        BY <1>2, <4>2
      <4> QED
        BY <4>4, <4>5 DEF ReadBack
    <3>2. cp' > 20 + 12 * Num'
      BY <1>2, <1>3, <1>5, <1>6, <2>2
    <3> QED
      BY <1>2, <2>2, <3>1, <3>2 DEF AtStackOption
  <2>3. CASE AtStackOption
    <3>1. cp >= 20 + 12 * Num
      BY <1>3, <1>5, <2>3 DEF AtStackOption
    <3> QED
      BY <2>2, <2>3, <3>1 DEF AtStackOption
  <2>4. ASSUME NEW n \in 0..Num, AtOption(n)
        PROVE  (AtStackOption \/ \E k \in 0..Num : AtOption(k))'
    <3>1. cp = 20 + 12 * n /\ ReadBack(n) /\ Len(printed) = n /\ n \in Nat
      BY <2>4 DEF AtOption
    <3>2. CASE n = Num
      <4>1. ~Bare
        <5>1. ASSUME Bare PROVE FALSE
          <6>1. Ihl(pkt) = 5 + 3 * Num
            BY <1>3, <1>9, <5>1 DEF Bare
          <6>2. length = 0
            BY <1>3, <1>5, <3>1, <3>2, <6>1
          <6> QED
            BY <1>1, <6>2 DEF GoodOption
        <5> QED
          BY <5>1
      <4> QED
        BY <1>3, <2>2, <3>1, <3>2, <4>1
    <3>3. CASE n # Num
      <4>1. n < Num /\ n + 1 \in 0..Num
        BY <1>3, <3>1, <3>3
      <4>2. option_len = 12 /\ printed' = Append(printed, inserted[n + 1])
        BY <1>1, <3>1, <4>1, ReadsOption
      <4>3. inserted[n + 1] \in Option
        BY <1>3, <1>5, <3>1, <4>1 DEF Num
      <4>4. /\ Len(printed') = n + 1 /\ printed'[n + 1] = inserted[n + 1]
        BY <1>5, <3>1, <4>2, <4>3, AppendProperties
      <4>5. ReadBack(n)'
        BY <1>4, <1>5, <3>1, ReadBackKept
      <4>6. \A j \in 1..n : printed'[j] = inserted'[j]
        BY <4>5 DEF ReadBack
      <4>7. \A j \in 1..(n + 1) : j \in 1..n \/ j = n + 1
        BY <3>1
      <4>8. \A j \in 1..(n + 1) : printed'[j] = inserted'[j]
        BY <1>5, <4>4, <4>6, <4>7
      <4>9. cp' = 20 + 12 * (n + 1)
        BY <1>1, <3>1, <4>2
      <4>10. AtOption(n + 1)'
        BY <3>1, <4>4, <4>8, <4>9 DEF AtOption, ReadBack
      <4>11. n + 1 \in 0..Num'
        BY <1>2, <4>1
      <4> QED
        BY <4>10, <4>11
    <3> QED
      BY <3>2, <3>3
  <2> QED
    BY <2>1, <2>3, <2>4
<1>10. Walk'
  BY <1>1, <1>2, <1>5, <1>6, <1>9 DEF Walk
<1> QED
  BY <1>2, <1>8, <1>10 DEF IInv

(* The walk does not end before it has read all of the options.            *)
LEMMA WalkEndKeeps ==
  ASSUME IInv, WalkEnd
  PROVE  IInv'
<1>1. /\ phase = "walk" /\ phase' = "done" /\ UNCHANGED <<pkt, sent, seq, inserted>>
      /\ cp' = cp /\ length' = length /\ printed' = printed /\ ~GoodOption
      /\ inserted' = inserted
  BY DEF WalkEnd
<1>2. /\ (StackSent /\ Lengths /\ OptionsInFront /\ RestFollows /\ FirstWordsGood)'
      /\ Num' = Num /\ (Fits' <=> Fits) /\ (Bare' <=> Bare) /\ (LengthFits' <=> LengthFits)
  BY <1>1, PacketKept
<1>3. /\ Num \in Nat /\ Ihl(pkt) \in Nat /\ Ihl(sent) \in Nat /\ Ihl(sent) >= 5
      /\ Len(pkt) \in Nat /\ 2 * Ihl(pkt) <= Len(pkt)
      /\ (Fits => Ihl(pkt) = Ihl(sent) + 3 * Num)
  BY Numbers DEF IInv
<1>4. /\ cp \in Nat /\ length \in Nat /\ cp + length = 4 * Ihl(pkt) /\ Num > 0
      /\ 4 * Ihl(pkt) <= TotLen(pkt) /\ TotLen(pkt) \in Nat
  <2>1. TotLen(pkt) \in Nat
    BY <1>3 DEF IInv, Lengths
  <2> QED
    BY <1>1, <2>1 DEF IInv, Types, Walk
<1>5. Types'
  BY <1>1 DEF IInv, Types
<1>6. ASSUME Fits PROVE ReadBack(Num) /\ (Bare => Len(printed) = Num)
  <2>1. AtStackOption \/ \E n \in 0..Num : AtOption(n)
    BY <1>1, <1>6 DEF IInv, Walk
  <2>2. CASE AtStackOption
    BY <2>2 DEF AtStackOption
  <2>3. ASSUME NEW n \in 0..Num, AtOption(n)
        PROVE  n = Num
    <3> SUFFICES ASSUME n # Num PROVE FALSE
      OBVIOUS
    <3>1. cp = 20 + 12 * n /\ n \in Nat /\ n < Num
      BY <1>3, <2>3 DEF AtOption
    <3>2. option_code = 222 /\ option_len = 12
      BY <3>1, ReadsOption
    <3>3. Ihl(pkt) = Ihl(sent) + 3 * Num
      BY <1>3, <1>6
    <3>4. length >= 12 /\ cp + 12 <= snapend
      <4>1. length >= 12 /\ cp + 12 <= 4 * Ihl(pkt)
        BY <1>3, <1>4, <3>1, <3>3
      <4> QED
        BY <1>3, <1>4, <4>1 DEF snapend
    <3>a. snapend \in Nat
      BY <1>3, <1>4 DEF snapend
    <3>5. GoodOption
      BY <1>4, <3>2, <3>4, <3>a DEF GoodOption
    <3> QED
      BY <1>1, <3>5
  <2>4. ASSUME NEW n \in 0..Num, AtOption(n)
        PROVE  ReadBack(Num) /\ Len(printed) = Num
    BY <2>3, <2>4 DEF AtOption
  <2> QED
    BY <2>1, <2>2, <2>4
<1>b. Fits => LengthFits
  BY <1>4, LengthTold DEF IInv
<1>7. ReadBack(Num) <=> ReadBack(Num)'
  BY <1>1, <1>2 DEF ReadBack
<1>8. Walk'
  BY <1>1, <1>2, <1>4, <1>6, <1>7, <1>b DEF Walk
<1> QED
  BY <1>2, <1>5, <1>8 DEF IInv

(* Every step keeps the invariant.                                         *)
LEMMA NextIInv == IInv /\ [Next]_vars => IInv'
<1> SUFFICES ASSUME IInv, [Next]_vars PROVE IInv'
  OBVIOUS
<1>1. ASSUME NEW c \in CpuIds, InsertOption(c) PROVE IInv'
  BY <1>1, InsertKeeps
<1>2. CASE GiveBack
  BY <1>2, GiveBackKeeps
<1>3. CASE Deliver
  BY <1>3, DeliverKeeps
<1>4. CASE DeliverBad
  BY <1>4, DeliverBadKeeps
<1>5. CASE WalkOption
  BY <1>5, WalkOptionKeeps
<1>6. CASE WalkEnd
  BY <1>6, WalkEndKeeps
<1>7. CASE UNCHANGED vars
  <2>1. /\ phase' = phase /\ UNCHANGED <<pkt, sent, seq, inserted>>
        /\ cp' = cp /\ length' = length /\ printed' = printed /\ inserted' = inserted
    BY <1>7 DEF vars
  <2>2. /\ (StackSent /\ Lengths /\ OptionsInFront /\ RestFollows /\ FirstWordsGood)'
        /\ Num' = Num /\ (Fits' <=> Fits) /\ (Bare' <=> Bare) /\ Ihl(pkt)' = Ihl(pkt)
        /\ (LengthFits' <=> LengthFits) /\ TotLen(pkt)' = TotLen(pkt)
    BY <2>1, PacketKept
  <2>3. Types'
    BY <2>1 DEF IInv, Types
  <2>4. \A n : (ReadBack(n)' <=> ReadBack(n)) /\ (AtOption(n)' <=> AtOption(n))
    BY <2>1 DEF ReadBack, AtOption
  <2>5. (ReadBack(Num)' <=> ReadBack(Num)) /\ (AtStackOption' <=> AtStackOption)
    BY <2>1, <2>2 DEF ReadBack, AtStackOption
  <2>6. Walk'
    BY <2>1, <2>2, <2>4, <2>5 DEF IInv, Walk
  <2> QED
    BY <2>2, <2>3, <2>6 DEF IInv
<1> QED
  BY <1>1, <1>2, <1>3, <1>4, <1>5, <1>6, <1>7 DEF Next

---------------------------------------------------------------------------
(* The theorems.                                                           *)

(* What the header says, the options and the walk hold together in every   *)
(* state: the strengthening that the properties follow from.               *)
THEOREM Inductive == Spec => []IInv
<1>1. Init => IInv
  BY InitIInv
<1>2. IInv /\ [Next]_vars => IInv'
  BY NextIInv
<1> QED
  BY <1>1, <1>2, PTL DEF Spec

(* TypeOK: no sum, length or sequence number of pval_xmit leaks a carry    *)
(* into the packet, and tcpdump prints bytes and words.                    *)
THEOREM TypeCorrect == Spec => []TypeOK
<1>1. IInv => TypeOK
  <2> SUFFICES ASSUME IInv PROVE TypeOK
    OBVIOUS
  <2>1. Types
    BY DEF IInv
  <2>2. \A i \in DOMAIN pkt : pkt[i] \in Word
    BY <2>1 DEF Types
  <2>3. Option \subseteq Byte \X Seq(Word)
    <3>1. \A q \in [1..4 -> Word] : q \in Seq(Word)
      <4>1. \A n \in Nat : \A q \in [1..n -> Word] : q \in Seq(Word)
        OBVIOUS
      <4>2. 4 \in Nat
        OBVIOUS
      <4> QED
        BY <4>1, <4>2, Zenon
    <3> QED
      BY <3>1 DEF Option
  <2>4. \A s \in Seq(Option) : s \in Seq(Byte \X Seq(Word))
    <3> SUFFICES ASSUME NEW s \in Seq(Option) PROVE s \in Seq(Byte \X Seq(Word))
      OBVIOUS
    <3>1. s \in [1..Len(s) -> Option] /\ Len(s) \in Nat
      BY LenProperties
    <3>2. s \in [1..Len(s) -> Byte \X Seq(Word)]
      BY <2>3, <3>1
    <3> DEFINE P == Byte \X Seq(Word)
    <3> HIDE DEF P
    <3>3. s \in [1..Len(s) -> P]
      BY <3>2 DEF P
    <3>4. s \in Seq(P)
      BY <3>1, <3>3
    <3> QED
      BY <3>4 DEF P
  <2>5. printed \in Seq(Byte \X Seq(Word)) /\ inserted \in Seq(Byte \X Seq(Word))
    BY <2>1, <2>4 DEF Types
  <2>6. /\ phase \in {"stack", "xmit", "walk", "done"} /\ cp \in Nat /\ length \in 0..40
        /\ \A i \in 1..4 : seq[i] \in Word
    BY <2>1 DEF Types
  <2> QED
    BY <2>2, <2>5, <2>6 DEF TypeOK
<1> QED
  BY <1>1, Inductive, PTL

(* StackBytesKept: whatever options a packet had, and however often it was *)
(* given back, pval_xmit keeps the stack's options and payload word for    *)
(* word behind a header of the length that ihl says.                       *)
THEOREM StackBytesStay == Spec => []StackBytesKept
<1>1. IInv => StackBytesKept
  <2> SUFFICES ASSUME IInv, Fits PROVE StackBytesKept
    BY DEF StackBytesKept
  <2> DEFINE own == 2 * Ihl(sent) - 10
             h == 2 * Ihl(pkt)
             hw == HeaderWords(pkt)
  <2>1. /\ Num \in Nat /\ Len(sent) \in Nat /\ Len(pkt) \in Nat /\ Ihl(sent) \in Nat
        /\ Ihl(sent) >= 5 /\ Ihl(sent) <= 15 /\ Ihl(pkt) \in Nat /\ h <= Len(pkt)
        /\ Ihl(pkt) = Ihl(sent) + 3 * Num
    BY Numbers DEF IInv
  <2>2. /\ Len(pkt) = Len(sent) + 6 * Num /\ Len(sent) >= 2 * Ihl(sent)
        /\ pkt \in Seq(Word) /\ sent \in Seq(Word)
    BY DEF IInv, Lengths, StackSent, Types
  <2>3. own \in Nat /\ h \in Nat /\ h - own = 6 * Num + 10 /\ 10 + own = 2 * Ihl(sent)
    BY <2>1
  <2>4. LengthFits => TotLen(pkt) = 2 * Len(pkt)
    <3> SUFFICES ASSUME LengthFits PROVE TotLen(pkt) = 2 * Len(pkt)
      OBVIOUS
    <3>1. 2 * Len(pkt) \in Nat /\ 2 * Len(pkt) <= 65535
      BY WordIs DEF LengthFits
    <3>2. TotLen(pkt) = (2 * Len(pkt)) % 65536
      BY DEF IInv, Lengths
    <3> QED
      BY <3>1, <3>2
  <2>5. hw \in Seq(Word) /\ Len(hw) = h /\ \A i \in 1..h : hw[i] = pkt[i]
    <3>1. 1 \in Nat /\ h \in Nat /\ 1 <= 1 /\ 1 <= h + 1 /\ h <= Len(pkt) /\ pkt \in Seq(Word)
      BY <2>1, <2>2, <2>3
    <3>2. SubSeq(pkt, 1, h) \in Seq(Word) /\ IsPart(SubSeq(pkt, 1, h), pkt, 1, h)
      BY <3>1, Part, Zenon
    <3>3. hw = SubSeq(pkt, 1, h)
      BY DEF HeaderWords
    <3> HIDE DEF hw, h
    <3>4. hw \in Seq(Word) /\ IsPart(hw, pkt, 1, h)
      BY <3>2, <3>3, Zenon
    <3>5. (h + 1) - 1 = h
      BY <2>3
    <3>6. \A i \in 1..h : (1 - 1) + i = i
      BY <2>3
    <3> QED
      BY <3>4, <3>5, <3>6 DEF IsPart
  <2> HIDE DEF hw, h, own
  <2>6. SubSeq(hw, h - own + 1, h) = SubSeq(sent, 11, 10 + own)
    <3> DEFINE a == SubSeq(hw, h - own + 1, h)
               b == SubSeq(sent, 11, 10 + own)
    <3>1. /\ h - own + 1 \in Nat /\ 1 <= h - own + 1 /\ h - own + 1 <= h + 1 /\ h <= Len(hw)
      BY <2>1, <2>3, <2>5
    <3>2. a \in Seq(Word) /\ IsPart(a, hw, h - own + 1, h)
      BY <2>3, <2>5, <3>1, Part, Zenon
    <3>3. 11 \in Nat /\ 10 + own \in Nat /\ 1 <= 11 /\ 11 <= (10 + own) + 1 /\ 10 + own <= Len(sent)
          /\ sent \in Seq(Word)
      BY <2>2, <2>3
    <3>4. b \in Seq(Word) /\ IsPart(b, sent, 11, 10 + own)
      BY <3>3, Part, Zenon
    <3> HIDE DEF a, b
    <3>5. (h + 1) - (h - own + 1) = own /\ ((10 + own) + 1) - 11 = own
      BY <2>3
    <3>6. Len(a) = own /\ Len(b) = own
      BY <3>2, <3>4, <3>5 DEF IsPart
    <3>7. ASSUME NEW i \in 1..own PROVE a[i] = b[i]
      <4>1. /\ ((h - own + 1) - 1) + i = 6 * Num + (10 + i) /\ (11 - 1) + i = 10 + i
            /\ 6 * Num + (10 + i) \in 1..h /\ 10 + i \in 11..Len(sent)
        BY <2>1, <2>2, <2>3
      <4>2. a[i] = hw[((h - own + 1) - 1) + i]
        BY <3>2, <3>5 DEF IsPart
      <4>3. b[i] = sent[(11 - 1) + i]
        BY <3>4, <3>5 DEF IsPart
      <4>4. pkt[6 * Num + (10 + i)] = sent[10 + i]
        BY <4>1 DEF IInv, RestFollows
      <4> QED
        BY <2>5, <4>1, <4>2, <4>3, <4>4
    <3>8. Len(a) = Len(b) /\ \A i \in 1..Len(a) : a[i] = b[i]
      BY <3>6, <3>7
    <3>9. a = b
      BY <3>2, <3>4, <3>8, SameSeq, Zenon
    <3> QED
      BY <3>9 DEF a, b
  <2>7. SubSeq(pkt, h + 1, Len(pkt)) = SubSeq(sent, 2 * Ihl(sent) + 1, Len(sent))
    <3> DEFINE k == 2 * Ihl(sent)
               a == SubSeq(pkt, h + 1, Len(pkt))
               b == SubSeq(sent, k + 1, Len(sent))
    <3>0. k \in Nat /\ h = k + 6 * Num /\ k >= 10 /\ k <= Len(sent)
      BY <2>1, <2>2 DEF h
    <3>1. h + 1 \in Nat /\ 1 <= h + 1 /\ h + 1 <= Len(pkt) + 1 /\ Len(pkt) <= Len(pkt)
          /\ Len(pkt) \in Nat /\ pkt \in Seq(Word)
      BY <2>1, <2>2, <2>3
    <3>2. a \in Seq(Word) /\ IsPart(a, pkt, h + 1, Len(pkt))
      BY <3>1, Part, Zenon
    <3>3. k + 1 \in Nat /\ 1 <= k + 1 /\ k + 1 <= Len(sent) + 1 /\ Len(sent) <= Len(sent)
          /\ Len(sent) \in Nat /\ sent \in Seq(Word)
      BY <2>1, <2>2
    <3>4. b \in Seq(Word) /\ IsPart(b, sent, k + 1, Len(sent))
      BY <3>3, Part, Zenon
    <3> HIDE DEF a, b, k
    <3>5. (Len(pkt) + 1) - (h + 1) = Len(sent) - k /\ (Len(sent) + 1) - (k + 1) = Len(sent) - k
      BY <2>1, <2>2, <3>0
    <3>6. Len(a) = Len(sent) - k /\ Len(b) = Len(sent) - k
      BY <3>2, <3>4, <3>5 DEF IsPart
    <3>7. ASSUME NEW i \in 1..(Len(sent) - k) PROVE a[i] = b[i]
      <4>1. /\ ((h + 1) - 1) + i = 6 * Num + (k + i) /\ ((k + 1) - 1) + i = k + i
            /\ k + i \in 11..Len(sent)
        BY <2>1, <3>0
      <4>2. a[i] = pkt[((h + 1) - 1) + i]
        BY <3>2, <3>5 DEF IsPart
      <4>3. b[i] = sent[((k + 1) - 1) + i]
        BY <3>4, <3>5 DEF IsPart
      <4>4. pkt[6 * Num + (k + i)] = sent[k + i]
        BY <4>1 DEF IInv, RestFollows
      <4> QED
        BY <4>1, <4>2, <4>3, <4>4
    <3>8. Len(a) = Len(b) /\ \A i \in 1..Len(a) : a[i] = b[i]
      BY <3>6, <3>7
    <3>9. a = b
      BY <3>2, <3>4, <3>8, SameSeq, Zenon
    <3> QED
      BY <3>9 DEF a, b, k
  <2> QED
    BY <2>4, <2>6, <2>7, Zenon DEF StackBytesKept, own, h, hw
<1> QED
  BY <1>1, Inductive, PTL

(* BareChecksumGood: the header of a packet that came without options has  *)
(* a good checksum before and after pval_xmit, whatever the words in it    *)
(* add up to.                                                              *)
THEOREM BareChecksumStaysGood == Spec => []BareChecksumGood
<1>1. IInv => BareChecksumGood
  <2> SUFFICES ASSUME IInv, Bare, Num <= 1 PROVE Good(HeaderWords(pkt))
    BY DEF BareChecksumGood, Num
  <2>1. Num \in Nat /\ Ihl(sent) = 5 /\ Ihl(pkt) = (5 + 3 * Num) % 16
    BY Numbers DEF IInv, Bare, Lengths
  <2>2. CASE Num = 0
    <3>1. 2 * Ihl(pkt) = 10 /\ pkt = sent
      BY <2>1, <2>2 DEF IInv, FirstWordsGood
    <3>2. Good(SubSeq(sent, 1, 10))
      BY DEF IInv, StackSent
    <3> QED
      BY <3>1, <3>2 DEF HeaderWords
  <2>3. CASE Num = 1
    <3>1. 2 * Ihl(pkt) = 16
      BY <2>1, <2>3
    <3>2. Good(SubSeq(pkt, 1, 16))
      BY <2>3 DEF IInv, FirstWordsGood
    <3> QED
      BY <3>1, <3>2 DEF HeaderWords
  <2> QED
    BY <2>1, <2>2, <2>3
<1> QED
  BY <1>1, Inductive, PTL

(* OptionReadBack: what pval_xmit wrote on one host in its byte order,     *)
(* ip_printpval prints again, for every sequence number and every packet   *)
(* whose ihl can count the options; the stack's options hide none of them. *)
(* It prints none of a packet that outgrew tot_len.                        *)
THEOREM OptionsReadBack == Spec => []OptionReadBack
<1>1. IInv => OptionReadBack
  <2> SUFFICES ASSUME IInv, Fits, phase = "done" PROVE OptionReadBack
    BY DEF OptionReadBack
  <2>0. IF LengthFits THEN ReadBack(Num) /\ (Bare => Len(printed) = Num) ELSE printed = <<>>
    BY DEF IInv, Walk
  <2> SUFFICES ASSUME LengthFits PROVE OptionReadBack
    BY <2>0 DEF OptionReadBack
  <2>1. ReadBack(Num) /\ (Bare => Len(printed) = Num)
    BY <2>0
  <2>2. Len(printed) >= Len(inserted) /\ \A j \in 1..Len(inserted) : printed[j] = inserted[j]
    BY <2>1 DEF ReadBack, Num
  <2>3. ASSUME Bare PROVE printed = inserted
    <3>1. Len(printed) = Len(inserted)
      BY <2>1, <2>3 DEF Num
    <3>2. printed \in Seq(Option) /\ inserted \in Seq(Option)
      BY DEF IInv, Types
    <3>3. \A j \in 1..Len(printed) : printed[j] = inserted[j]
      BY <2>2, <3>1
    <3> QED
      BY <3>1, <3>2, <3>3, SameSeq, Zenon
  <2> QED
    BY <2>2, <2>3 DEF OptionReadBack
<1> QED
  BY <1>1, Inductive, PTL
=============================================================================
