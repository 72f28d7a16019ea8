----------------------------- MODULE WireProofs -----------------------------
(***************************************************************************)
(* Proofs about Wire, for every number of packets and wherever TCP cuts    *)
(* the stream: that the tasks are the requests sent, until a read() comes  *)
(* back short; what fits the buffers; what head.number says; and, for      *)
(* every text, that a time which an int holds is read as what it says, and *)
(* an amount whose whole part a float holds is, but for the roundings.     *)
(*                                                                         *)
(* Ends of packets, sizes of structs, the requests read, and the numbers   *)
(* read are recursive functions; what is said of them for every argument   *)
(* is proved by taking the least number it would be false of.              *)
(***************************************************************************)
EXTENDS Wire, SequenceTheorems, WellFoundedInduction, TLAPS

(* Run() has a head when it wants a body, and no other time.               *)
HeadInv ==
  /\ at = "head" => head = NoHead
  /\ at = "body" => head.kind \in Requests

(* What is written is one of the replies run() makes.                      *)
RepliesMade(number) == UNION {RepliesTo(kind, number) : kind \in Requests}
ReplyInv ==
  reply # NoReply =>
    /\ reply.packet \in RepliesMade(reply.asked)
    /\ reply.kind = reply.packet.kind
    /\ reply.text \in Texts /\ reply.asked \in Numbers
    /\ reply.time = CharToInt(reply.text)
    /\ reply.least = CharToFloat(reply.text, -1)
    /\ reply.most = CharToFloat(reply.text, 1)

(* Where the i-th of the packets s ends: End(i), of any packets.           *)
EndIn(s, i) ==
  LET end[j \in 0 .. i] ==
        IF j = 0 THEN 0 ELSE end[j-1] + PacketSize(s[j])
  IN  end[i]

(* Until a read() comes back short, Run() stands behind the k-th packet,   *)
(* or between the head and the body of the one that follows.               *)
PlaceInv ==
  ~short =>
    \E k \in 0 .. Len(sent) :
      \/ at = "head" /\ taken = EndIn(sent, k)
      \/ /\ at = "body" /\ k < Len(sent) /\ head.kind = sent[k+1]
         /\ head.from = EndIn(sent, k)
         /\ taken = EndIn(sent, k) + HeadSize

IInv == TypeOK /\ HeadInv /\ ReplyInv /\ PlaceInv /\ InStepUntilShort

-----------------------------------------------------------------------------
(* A set of numbers that is not empty has a least one.  What follows is    *)
(* proved by it where one would use induction: of the numbers a claim is   *)
(* false of, take the least, and look at the number before it.             *)
LEMMA LeastNat ==
  ASSUME NEW T, T \subseteq Nat, T # {}
  PROVE  \E x \in T : \A y \in T : x <= y
<1>1. PICK R : R = {ss \in Nat \X Nat : ss[1] < ss[2]}
  OBVIOUS
<1>2. IsWellFoundedOn(R, Nat)
  BY <1>1, NatLessThanWellFounded DEF OpToRel
<1>3. PICK x \in T : \A y \in T : <<y, x>> \notin R
  BY <1>2, WFMin
<1>4. ASSUME NEW y \in T, y < x PROVE FALSE
  <2>1. <<y, x>> \in Nat \X Nat
    OBVIOUS
  <2>2. <<y, x>>[1] < <<y, x>>[2]
    BY <1>4
  <2>3. <<y, x>> \in R
    BY <1>1, <2>1, <2>2
  <2> QED
    BY <1>3, <2>3
<1> QED
  BY <1>4

(* F makes the i-th value of the one before, and h holds the values.       *)
Makes(F, n, V) == F \in [(1 .. n) \X V -> V]
MadeBy(h, F, n, V, b) ==
  /\ h[0] = b /\ \A i \in 0 .. n : h[i] \in V
  /\ \A i \in 1 .. n : h[i] = F[<<i, h[i-1]>>]

(* A recursive definition over 0 .. n defines a function.                  *)
LEMMA Recursion ==
  ASSUME NEW n \in Nat, NEW V, NEW b, b \in V, NEW F, Makes(F, n, V)
  PROVE  \E h : MadeBy(h, F, n, V, b)
<1> USE DEF Makes, MadeBy
<1> DEFINE Good(m, h) == MadeBy(h, F, m, V, b)
           T == {m \in 0 .. n : ~ \E h : Good(m, h)}
<1> SUFFICES ASSUME T # {} PROVE FALSE
  <2>1. n \in 0 .. n
    OBVIOUS
  <2> QED
    BY <2>1
<1>1. T \subseteq Nat
  OBVIOUS
<1>2. PICK m \in T : \A y \in T : m <= y
  <2> HIDE DEF T
  <2> QED
    BY <1>1, LeastNat
<1>3. m # 0
  <2> SUFFICES ASSUME m = 0 PROVE FALSE
    OBVIOUS
  <2>1. Good(0, [i \in 0 .. 0 |-> b])
    OBVIOUS
  <2> QED
    BY <2>1
<1>4. m - 1 \in 0 .. n /\ m - 1 \notin T /\ m \in 1 .. n
  <2>1. m \in 0 .. n
    BY <1>2
  <2>2. m - 1 \in 0 .. n /\ ~ m <= m - 1 /\ m \in 1 .. n
    BY <1>3, <2>1
  <2> HIDE DEF T
  <2> QED
    BY <1>2, <2>2
<1>5. PICK h : Good(m - 1, h)
  BY <1>4
<1>6. PICK g : g = [i \in 0 .. m |-> IF i = m THEN F[<<m, h[m-1]>>] ELSE h[i]]
  OBVIOUS
<1>7. h[m-1] \in V
  BY <1>4, <1>5
<1>8. F[<<m, h[m-1]>>] \in V
  BY <1>4, <1>7
<1>9. \A i \in 0 .. m : g[i] \in V
  <2>1. \A i \in 0 .. m : i # m => h[i] \in V
    BY <1>4, <1>5
  <2> QED
    BY <1>6, <1>8, <2>1
<1>10. g[0] = b
  BY <1>4, <1>5, <1>6
<1>11. ASSUME NEW i \in 1 .. m PROVE g[i] = F[<<i, g[i-1]>>]
  <2>1. g[i-1] = h[i-1]
    BY <1>4, <1>6
  <2>2. CASE i = m
    <3>1. g[m] = F[<<m, h[m-1]>>]
      BY <1>4, <1>6
    <3> QED
      BY <2>1, <2>2, <3>1
  <2>3. CASE i # m
    <3>1. i \in 1 .. m - 1
      BY <1>4, <2>3
    <3>2. h[i] = F[<<i, h[i-1]>>]
      BY <1>5, <3>1
    <3>3. g[i] = h[i]
      BY <1>4, <1>6, <2>3
    <3> QED
      BY <2>1, <3>2, <3>3
  <2> QED
    BY <2>2, <2>3
<1>12. Good(m, g)
  BY <1>9, <1>10, <1>11
<1> QED
  BY <1>2, <1>12

(* Functions that agree at a, and at each number after it if they do at    *)
(* the one before, agree up to b.                                          *)
KeepAgreeing(f, g, a, b) ==
  f[a] = g[a] /\ \A i \in a + 1 .. b : f[i-1] = g[i-1] => f[i] = g[i]

LEMMA Agreeing ==
  ASSUME NEW a \in Nat, NEW b \in Nat, NEW f, NEW g, KeepAgreeing(f, g, a, b)
  PROVE  \A i \in a .. b : f[i] = g[i]
<1> DEFINE T == {i \in a .. b : f[i] # g[i]}
<1> SUFFICES ASSUME T # {} PROVE FALSE
  OBVIOUS
<1>1. T \subseteq Nat
  OBVIOUS
<1>2. PICK m \in T : \A y \in T : m <= y
  <2> HIDE DEF T
  <2> QED
    BY <1>1, LeastNat
<1>3. m \in a .. b /\ m # a
  BY <1>2 DEF KeepAgreeing
<1>4. m - 1 \in a .. b /\ m \in a + 1 .. b /\ ~ m <= m - 1
  BY <1>3
<1>5. f[m-1] = g[m-1]
  BY <1>2, <1>4
<1> QED
  BY <1>2, <1>4, <1>5 DEF KeepAgreeing

(* A set that goes on, upward or downward, from one end of a .. b has all  *)
(* of it.                                                                  *)
LEMMA Upward ==
  ASSUME NEW a \in Nat, NEW b \in Nat, NEW S, a \in S,
         \A i \in a + 1 .. b : i - 1 \in S => i \in S
  PROVE  \A i \in a .. b : i \in S
<1> DEFINE T == {i \in a .. b : i \notin S}
<1> SUFFICES ASSUME T # {} PROVE FALSE
  OBVIOUS
<1>1. T \subseteq Nat
  OBVIOUS
<1>2. PICK m \in T : \A y \in T : m <= y
  <2> HIDE DEF T
  <2> QED
    BY <1>1, LeastNat
<1>3. m \in a .. b /\ m # a
  BY <1>2
<1>4. m - 1 \in a .. b /\ m \in a + 1 .. b /\ ~ m <= m - 1
  BY <1>3
<1>5. m - 1 \in S
  BY <1>2, <1>4
<1> QED
  BY <1>2, <1>4, <1>5

LEMMA Downward ==
  ASSUME NEW a \in Nat, NEW b \in Nat, NEW S, b \in S,
         \A i \in a .. b - 1 : i + 1 \in S => i \in S
  PROVE  \A i \in a .. b : i \in S
<1> SUFFICES ASSUME a <= b PROVE \A i \in a .. b : i \in S
  OBVIOUS
<1> DEFINE T == {k \in 0 .. b - a : b - k \in S}
<1>1. b - a \in Nat
  OBVIOUS
<1>2. 0 \in T
  BY <1>1
<1>3. ASSUME NEW k \in 0 + 1 .. b - a, k - 1 \in T PROVE k \in T
  <2>1. PICK i \in a .. b - 1 : i = b - k
    BY <1>1
  <2>2. i + 1 = b - (k - 1) /\ k \in 0 .. b - a
    BY <1>1, <2>1
  <2>3. i + 1 \in S
    BY <1>3, <2>2
  <2> QED
    BY <2>1, <2>2, <2>3
<1>4. \A k \in 0 .. b - a : k \in T
  <2> HIDE DEF T
  <2>1. 0 \in Nat
    OBVIOUS
  <2> QED
    BY <1>1, <1>2, <1>3, <2>1, Upward
<1>5. ASSUME NEW i \in a .. b PROVE i \in S
  <2>1. b - i \in 0 .. b - a /\ b - (b - i) = i
    OBVIOUS
  <2> QED
    BY <1>4, <2>1
<1> QED
  BY <1>5

(* There is only one such function: whatever follows the same rule as h    *)
(* holds the same values.                                                  *)
Follows(e, F, n, V, b) ==
  e[0] = b /\ \A i \in 1 .. n : e[i-1] \in V => e[i] = F[<<i, e[i-1]>>]

LEMMA OneFunction ==
  ASSUME NEW n \in Nat, NEW V, NEW b, NEW F, NEW h, NEW e,
         MadeBy(h, F, n, V, b), Follows(e, F, n, V, b)
  PROVE  \A i \in 0 .. n : e[i] = h[i]
<1>1. ASSUME NEW i \in 0 + 1 .. n, e[i-1] = h[i-1] PROVE e[i] = h[i]
  <2>1. i \in 1 .. n /\ i - 1 \in 0 .. n
    OBVIOUS
  <2> QED
    BY <1>1, <2>1 DEF MadeBy, Follows
<1>2. KeepAgreeing(e, h, 0, n)
  BY <1>1 DEF KeepAgreeing, MadeBy, Follows
<1> QED
  BY <1>2, Agreeing

-----------------------------------------------------------------------------
(* Texts.                                                                  *)

LEMMA Power10Is ==
  /\ Power10(0) = 1
  /\ \A n \in Nat : Power10(n) \in Nat
  /\ \A n \in Nat : Power10(n+1) = 10 * Power10(n)
<1> DEFINE Def(n, g) == [i \in 0 .. n |-> IF i = 0 THEN 1 ELSE 10 * g[i-1]]
<1>1. ASSUME NEW n \in Nat
      PROVE  \E e : /\ Power10(n) = e[n] /\ e[0] = 1
                    /\ \A i \in 0 .. n : e[i] \in Nat
                    /\ \A i \in 1 .. n : e[i] = 10 * e[i-1]
  <2>1. PICK F : F = [x \in (1 .. n) \X Nat |-> 10 * x[2]]
    OBVIOUS
  <2>2. \A i \in 1 .. n, k \in Nat : F[<<i, k>>] = 10 * k
    BY <2>1
  <2>3. Makes(F, n, Nat)
    BY <2>1 DEF Makes
  <2>4. PICK h : MadeBy(h, F, n, Nat, 1)
    BY <2>3, Recursion
  <2>5. ASSUME NEW i \in 1 .. n PROVE h[i] = 10 * h[i-1]
    <3>1. i - 1 \in 0 .. n
      OBVIOUS
    <3> QED
      BY <2>2, <2>4, <3>1 DEF MadeBy
  <2>6. \E g : g = Def(n, g)
    <3>1. PICK g : g = [i \in 0 .. n |-> h[i]]
      OBVIOUS
    <3>2. g = Def(n, g)
      BY <2>4, <2>5, <3>1 DEF MadeBy
    <3> QED
      BY <3>2
  <2>7. PICK e : e = CHOOSE g : g = Def(n, g)
    OBVIOUS
  <2>8. e = Def(n, e)
    <3> HIDE DEF Def
    <3> QED
      BY <2>6, <2>7
  <2>9. e[0] = 1 /\ \A i \in 1 .. n : e[i] = 10 * e[i-1]
    BY <2>8
  <2>10. Power10(n) = e[n]
    BY <2>7 DEF Power10
  <2>11. Follows(e, F, n, Nat, 1)
    BY <2>2, <2>9 DEF Follows
  <2>12. \A i \in 0 .. n : e[i] \in Nat
    <3>1. \A i \in 0 .. n : e[i] = h[i]
      <4> HIDE DEF Def
      <4> QED
        BY <2>4, <2>11, OneFunction
    <3> QED
      BY <2>4, <3>1 DEF MadeBy
  <2> QED
    BY <2>9, <2>10, <2>12
<1>2. Power10(0) = 1
  BY <1>1
<1>3. \A n \in Nat : Power10(n) \in Nat
  <2> SUFFICES ASSUME NEW n \in Nat PROVE Power10(n) \in Nat
    OBVIOUS
  <2>1. n \in 0 .. n
    OBVIOUS
  <2> QED
    BY <1>1, <2>1
<1>4. ASSUME NEW n \in Nat PROVE Power10(n+1) = 10 * Power10(n)
  <2>1. PICK e : /\ Power10(n) = e[n] /\ e[0] = 1
                 /\ \A i \in 0 .. n : e[i] \in Nat
                 /\ \A i \in 1 .. n : e[i] = 10 * e[i-1]
    BY <1>1
  <2>2. n + 1 \in Nat
    OBVIOUS
  <2>3. PICK f : /\ Power10(n+1) = f[n+1] /\ f[0] = 1
                 /\ \A i \in 0 .. n + 1 : f[i] \in Nat
                 /\ \A i \in 1 .. n + 1 : f[i] = 10 * f[i-1]
    BY <1>1, <2>2
  <2>4. KeepAgreeing(e, f, 0, n)
    BY <2>1, <2>3 DEF KeepAgreeing
  <2>5. \A i \in 0 .. n : e[i] = f[i]
    BY <2>4, Agreeing
  <2>6. n \in 0 .. n /\ n + 1 \in 1 .. n + 1 /\ (n + 1) - 1 = n
    OBVIOUS
  <2> QED
    BY <2>1, <2>3, <2>5, <2>6
<1> QED
  BY <1>2, <1>3, <1>4

LEMMA Times10 ==
  ASSUME NEW a \in Int, NEW w \in Int, NEW d \in Int
  PROVE  /\ (a * 10 + d) * w = a * (10 * w) + d * w
         /\ (10 * a) * w = 10 * (a * w)
         /\ a * (d + w) = a * d + a * w /\ a * (d - w) = a * d - a * w
         /\ a * w \in Int /\ a * w = w * a
         /\ d * (a * w) = a * (d * w)
         /\ (10 * a) \div 10 = a
OBVIOUS

(* Powers of ten: 10^(m+n).                                                *)
LEMMA Power10Sum ==
  ASSUME NEW m \in Nat, NEW n \in Nat
  PROVE  Power10(m + n) = Power10(m) * Power10(n)
<1> DEFINE T == {k \in Nat : Power10(k + n) # Power10(k) * Power10(n)}
<1> SUFFICES ASSUME T # {} PROVE FALSE
  OBVIOUS
<1>1. T \subseteq Nat
  OBVIOUS
<1>2. PICK k \in T : \A y \in T : k <= y
  <2> HIDE DEF T
  <2> QED
    BY <1>1, LeastNat
<1>3. k # 0
  <2>1. Power10(n) \in Nat /\ Power10(0) = 1
    BY Power10Is
  <2>2. 1 * Power10(n) = Power10(n) /\ 0 + n = n
    BY <2>1
  <2> QED
    BY <1>2, <2>1, <2>2
<1>4. PICK j \in Nat : k = j + 1
  <2>1. k - 1 \in Nat /\ k = (k - 1) + 1
    BY <1>2, <1>3
  <2> QED
    BY <2>1
<1>5. Power10(j + n) = Power10(j) * Power10(n)
  <2>1. ~ k <= j
    BY <1>4
  <2>2. j \notin T
    <3> HIDE DEF T
    <3> QED
      BY <1>2, <2>1
  <2> QED
    BY <2>2
<1>6. /\ Power10(k) = 10 * Power10(j) /\ Power10(k + n) = 10 * Power10(j + n)
      /\ Power10(j) \in Nat /\ Power10(n) \in Nat
  <2>1. k + n = (j + n) + 1 /\ j + n \in Nat
    BY <1>4
  <2> QED
    BY <1>4, <2>1, Power10Is
<1>7. (10 * Power10(j)) * Power10(n) = 10 * (Power10(j) * Power10(n))
  BY <1>6, Times10
<1> QED
  BY <1>2, <1>5, <1>6, <1>7

LEMMA DigitIs ==
  ASSUME NEW text \in Seq(Nat), NEW i \in 1 .. Len(text)
  PROVE  /\ text[i] - Zero \in Int
         /\ \A k \in Int : /\ k * 10 + text[i] - Zero \in Int
                          /\ k * 10 + text[i] - Zero
                               = k * 10 + (text[i] - Zero)
<1>1. PICK d \in Nat : d = text[i]
  <2>1. text[i] \in Nat
    BY ElementOfSeq
  <2> QED
    BY <2>1
<1>2. \A k \in Int : /\ k * 10 + d - 48 \in Int
                     /\ k * 10 + d - 48 = k * 10 + (d - 48)
  OBVIOUS
<1> QED
  BY <1>1, <1>2 DEF Zero

(* e[i] is the number the first i of n characters spell, in whole numbers  *)
(* of any size.                                                            *)
Spells(e, text, n) ==
  /\ e[0] = 0 /\ \A i \in 0 .. n : e[i] \in Int
  /\ \A i \in 1 .. n : e[i] = e[i-1] * 10 + (text[i] - Zero)

LEMMA SpelledIs ==
  ASSUME NEW text \in Seq(Nat), NEW n \in 0 .. Len(text)
  PROVE  \E e : Spells(e, text, n)
<1>1. n \in Nat /\ \A i \in 1 .. n : i \in 1 .. Len(text)
  OBVIOUS
<1>2. PICK F : F = [x \in (1 .. n) \X Int |-> x[2] * 10 + text[x[1]] - Zero]
  OBVIOUS
<1>3. ASSUME NEW i \in 1 .. n, NEW k \in Int
      PROVE  /\ F[<<i, k>>] = k * 10 + (text[i] - Zero)
             /\ F[<<i, k>>] \in Int
  <2>1. F[<<i, k>>] = k * 10 + text[i] - Zero
    BY <1>2
  <2>2. i \in 1 .. Len(text)
    BY <1>1
  <2> QED
    BY <2>1, <2>2, DigitIs
<1>4. Makes(F, n, Int)
  <2>1. \A x \in (1 .. n) \X Int : x[2] * 10 + text[x[1]] - Zero \in Int
    <3> SUFFICES ASSUME NEW i \in 1 .. n, NEW k \in Int
                 PROVE  k * 10 + text[i] - Zero \in Int
      OBVIOUS
    <3>1. i \in 1 .. Len(text)
      BY <1>1
    <3> QED
      BY <3>1, DigitIs
  <2> QED
    BY <1>2, <2>1 DEF Makes
<1>5. PICK h : MadeBy(h, F, n, Int, 0)
  <2>1. n \in Nat /\ 0 \in Int
    OBVIOUS
  <2> QED
    BY <1>4, <2>1, Recursion
<1>6. ASSUME NEW i \in 1 .. n
      PROVE  h[i] = h[i-1] * 10 + (text[i] - Zero)
  <2>1. i - 1 \in 0 .. n
    OBVIOUS
  <2>2. h[i-1] \in Int
    BY <1>5, <2>1 DEF MadeBy
  <2> QED
    BY <1>3, <1>5, <2>2 DEF MadeBy
<1> QED
  BY <1>5, <1>6 DEF MadeBy, Spells

(* Digits make it grow.                                                    *)
LEMMA SpelledGrows ==
  ASSUME NEW text \in Seq(Nat), NEW n \in 0 .. Len(text), NEW e,
         Spells(e, text, n), \A i \in 1 .. n : text[i] - Zero \in Nat
  PROVE  \A i \in 0 .. n : e[i] \in Nat /\ e[i] <= e[n]
<1>1. n \in Nat /\ e[0] = 0
  BY DEF Spells
<1>2. ASSUME NEW i \in 1 .. n, e[i-1] \in Nat
      PROVE  e[i] \in Nat /\ e[i-1] <= e[i]
  <2>1. PICK d \in Nat : d = text[i] - Zero
    OBVIOUS
  <2>2. PICK k \in Nat : k = e[i-1]
    BY <1>2
  <2>3. e[i] = k * 10 + d
    BY <2>1, <2>2 DEF Spells
  <2> QED
    BY <2>2, <2>3
<1>3. \A i \in 0 .. n : e[i] \in Nat
  <2> DEFINE S == {i \in 0 .. n : e[i] \in Nat}
  <2>1. 0 \in S
    BY <1>1
  <2>2. ASSUME NEW i \in 0 + 1 .. n, i - 1 \in S PROVE i \in S
    <3>1. i \in 1 .. n /\ i \in 0 .. n
      BY <1>1
    <3> QED
      BY <1>2, <2>2, <3>1
  <2>3. \A i \in 0 .. n : i \in S
    <3> HIDE DEF S
    <3> QED
      BY <1>1, <2>1, <2>2, Upward
  <2> QED
    BY <2>3
<1>4. \A i \in 0 .. n : e[i] <= e[n]
  <2> DEFINE S == {i \in 0 .. n : e[i] <= e[n]}
  <2>1. n \in S
    BY <1>1, <1>3
  <2>2. ASSUME NEW i \in 0 .. n - 1, i + 1 \in S PROVE i \in S
    <3>1. /\ i + 1 \in 1 .. n /\ i \in 0 .. n /\ (i + 1) - 1 = i
          /\ i + 1 \in 0 .. n /\ n \in 0 .. n
      BY <1>1
    <3>2. e[i] \in Nat /\ e[i+1] \in Nat /\ e[n] \in Nat
      BY <1>3, <3>1
    <3>3. e[(i + 1) - 1] <= e[i+1]
      BY <1>2, <3>1, <3>2
    <3>4. e[i+1] <= e[n]
      BY <2>2
    <3> QED
      BY <3>1, <3>2, <3>3, <3>4
  <2>3. \A i \in 0 .. n : i \in S
    <3> HIDE DEF S
    <3> QED
      BY <1>1, <2>1, <2>2, Downward
  <2> QED
    BY <2>3
<1> QED
  BY <1>3, <1>4

(* While a float holds every whole number on the way, pre is what the      *)
(* characters before the point spell.                                      *)
LEMMA PreIs ==
  ASSUME NEW text \in Seq(Nat), NEW side, NEW n, n = NodePos(text),
         n \in 0 .. Len(text), NEW e, Spells(e, text, n),
         \A i \in 1 .. n : e[i] + Zero <= Exact
  PROVE  Pre(text, side) = e[n]
<1> DEFINE Def(g) == [i \in 0 .. NodePos(text) |->
                        IF i = 0 THEN 0 ELSE Shifted(g[i-1], text[i], side)]
<1>1. ASSUME NEW i \in 1 .. n
      PROVE  Shifted(e[i-1], text[i], side) = e[i]
  <2>1. PICK c \in Nat : c = text[i]
    <3>1. i \in 1 .. Len(text)
      OBVIOUS
    <3> QED
      BY <3>1, ElementOfSeq
  <2>2. i - 1 \in 0 .. n /\ i \in 0 .. n
    OBVIOUS
  <2>3. PICK a \in Int, b \in Int : a = e[i-1] /\ b = e[i]
    BY <2>2 DEF Spells
  <2>4. b = a * 10 + (c - 48)
    BY <2>1, <2>3 DEF Spells, Zero
  <2>5. a * 10 + c = b + 48 /\ b + 48 - 48 + 0 = b
    BY <2>4
  <2>6. b + 48 <= Exact
    BY <2>3 DEF Zero
  <2> QED
    BY <2>1, <2>3, <2>5, <2>6 DEF Shifted, Zero
<1>2. \E g : g = Def(g)
  <2>1. PICK g : g = [i \in 0 .. n |-> e[i]]
    OBVIOUS
  <2>2. ASSUME NEW i \in 0 .. n
        PROVE  g[i] = IF i = 0 THEN 0 ELSE Shifted(g[i-1], text[i], side)
    <3>1. CASE i = 0
      BY <2>1, <3>1 DEF Spells
    <3>2. CASE i # 0
      <4>1. i \in 1 .. n /\ i - 1 \in 0 .. n
        BY <3>2
      <4>2. g[i-1] = e[i-1] /\ g[i] = e[i]
        BY <2>1, <4>1
      <4> QED
        BY <1>1, <3>2, <4>1, <4>2
    <3> QED
      BY <3>1, <3>2
  <2>3. g = [i \in 0 .. n |-> g[i]]
    BY <2>1
  <2>4. g = Def(g)
    BY <2>2, <2>3
  <2> QED
    BY <2>4
<1>3. PICK q : q = CHOOSE g : g = Def(g)
  OBVIOUS
<1>4. q = Def(q)
  <2> HIDE DEF Def
  <2> QED
    BY <1>2, <1>3
<1>5. /\ q[0] = 0
      /\ \A i \in 1 .. n : q[i] = Shifted(q[i-1], text[i], side)
  <2>1. 0 \in 0 .. n /\ \A i \in 1 .. n : i \in 0 .. n /\ i # 0
    OBVIOUS
  <2> QED
    BY <1>4, <2>1
<1>6. Pre(text, side) = q[n]
  BY <1>3 DEF Pre
<1>7. KeepAgreeing(q, e, 0, n)
  <2>1. ASSUME NEW i \in 0 + 1 .. n, q[i-1] = e[i-1] PROVE q[i] = e[i]
    <3>1. i \in 1 .. n
      OBVIOUS
    <3> QED
      BY <1>1, <1>5, <2>1, <3>1
  <2> QED
    BY <1>5, <2>1 DEF KeepAgreeing, Spells
<1> QED
  BY <1>6, <1>7, Agreeing

LEMMA HeldInInt == ASSUME NEW x \in Nat, x < Half PROVE InInt(x) = x
<1>1. PICK h \in Nat \ {0} : h = Half
  BY WidthAssumption DEF WidthAssumption
<1>2. x + h \in 0 .. 2 * h - 1
  BY <1>1
<1>3. \A m \in Nat \ {0} : \A y \in 0 .. m - 1 : y % m = y
  OBVIOUS
<1>4. (x + h) % (2 * h) = x + h
  BY <1>2, <1>3
<1> QED
  BY <1>1, <1>4 DEF InInt

(* While an int holds every number on the way, so is sum.                  *)
LEMMA IntIs ==
  ASSUME NEW text \in Seq(Nat), NEW e, Spells(e, text, Len(text)),
         \A i \in 1 .. Len(text) : e[i] \in Nat /\ e[i] < Half
  PROVE  CharToInt(text) = e[Len(text)]
<1> DEFINE Def(g) == [i \in 0 .. Len(text) |->
                        IF i = 0 THEN 0
                        ELSE InInt(g[i-1] * 10 + text[i] - Zero)]
<1>0. PICK n \in Nat : n = Len(text)
  OBVIOUS
<1>1. ASSUME NEW i \in 1 .. n
      PROVE  InInt(e[i-1] * 10 + text[i] - Zero) = e[i]
  <2>1. i - 1 \in 0 .. Len(text) /\ i \in 1 .. Len(text)
    BY <1>0
  <2>2. PICK a \in Int : a = e[i-1]
    BY <2>1 DEF Spells
  <2>3. a * 10 + text[i] - Zero = e[i]
    BY <2>1, <2>2, DigitIs DEF Spells
  <2> QED
    BY <2>1, <2>2, <2>3, HeldInInt
<1>2. \E g : g = Def(g)
  <2>1. PICK g : g = [i \in 0 .. n |-> e[i]]
    OBVIOUS
  <2>2. ASSUME NEW i \in 0 .. n
        PROVE  g[i] = IF i = 0 THEN 0
                      ELSE InInt(g[i-1] * 10 + text[i] - Zero)
    <3>1. CASE i = 0
      BY <2>1, <3>1 DEF Spells
    <3>2. CASE i # 0
      <4>1. i \in 1 .. n /\ i - 1 \in 0 .. n
        BY <3>2
      <4>2. g[i-1] = e[i-1] /\ g[i] = e[i]
        BY <2>1, <4>1
      <4> QED
        BY <1>1, <3>2, <4>1, <4>2
    <3> QED
      BY <3>1, <3>2
  <2>3. g = [i \in 0 .. n |-> g[i]]
    BY <2>1
  <2>4. g = Def(g)
    BY <1>0, <2>2, <2>3
  <2> QED
    BY <2>4
<1>3. PICK q : q = CHOOSE g : g = Def(g)
  OBVIOUS
<1>4. q = Def(q)
  <2> HIDE DEF Def
  <2> QED
    BY <1>2, <1>3
<1>5. /\ q[0] = 0
      /\ \A i \in 1 .. n : q[i] = InInt(q[i-1] * 10 + text[i] - Zero)
  <2>1. 0 \in 0 .. n /\ \A i \in 1 .. n : i \in 0 .. n /\ i # 0
    OBVIOUS
  <2> QED
    BY <1>0, <1>4, <2>1
<1>6. CharToInt(text) = q[n]
  BY <1>0, <1>3 DEF CharToInt
<1>7. KeepAgreeing(q, e, 0, n)
  <2>1. ASSUME NEW i \in 0 + 1 .. n, q[i-1] = e[i-1] PROVE q[i] = e[i]
    <3>1. i \in 1 .. n
      OBVIOUS
    <3> QED
      BY <1>1, <1>5, <2>1, <3>1
  <2> QED
    BY <1>5, <2>1 DEF KeepAgreeing, Spells
<1> QED
  BY <1>0, <1>6, <1>7, Agreeing

(* Where the point is, and what a place weighs.                            *)
LEMMA PointIs ==
  ASSUME NEW text \in Seq(Nat)
  PROVE  /\ PointAt(text) \in 1 .. Len(text) + 1
         /\ HasPoint(text) => /\ PointAt(text) \in 1 .. Len(text)
                              /\ NodePos(text) = PointAt(text) - 1
                              /\ text[PointAt(text)] = Point
         /\ ~HasPoint(text) => PointAt(text) = Len(text) + 1
<1>1. CASE ~HasPoint(text)
  BY <1>1 DEF PointAt
<1>2. CASE HasPoint(text)
  <2>1. PICK T : T = {i \in DOMAIN text : text[i] = Point}
    OBVIOUS
  <2>2. T # {} /\ T \subseteq 1 .. Len(text) /\ T \subseteq Nat
    BY <1>2, <2>1 DEF HasPoint
  <2>3. PICK m : m = Min(T)
    OBVIOUS
  <2>4. m \in T
    <3>1. \E x \in T : \A y \in T : x <= y
      BY <2>2, LeastNat
    <3> QED
      BY <2>3, <3>1 DEF Min
  <2>5. m \in 1 .. Len(text)
    BY <2>2, <2>4
  <2>6. NodePos(text) = m - 1
    BY <1>2, <2>1, <2>3 DEF NodePos
  <2>7. text[m] = Point
    BY <2>1, <2>4
  <2> QED
    BY <1>2, <2>5, <2>6, <2>7 DEF PointAt
<1> QED
  BY <1>1, <1>2

LEMMA NodePosIs == ASSUME NEW text \in Seq(Nat) PROVE NodePos(text) \in Int
<1>1. CASE HasPoint(text)
  <2>1. PICK p \in Nat : p = PointAt(text)
    BY PointIs
  <2> QED
    BY <1>1, <2>1, PointIs
<1>2. CASE ~HasPoint(text)
  BY <1>2 DEF NodePos
<1> QED
  BY <1>1, <1>2

LEMMA WeightIs ==
  ASSUME NEW text \in Seq(Nat), NEW i \in 1 .. Len(text)
  PROVE  Weight(text, i) \in Nat
<1>1. PICK n \in Nat, p \in Nat : n = Len(text) /\ p = PointAt(text)
  BY PointIs
<1>2. CASE i < p
  <2>1. n + p - 1 - i \in Nat
    BY <1>1, <1>2
  <2> QED
    BY <1>1, <1>2, <2>1, Power10Is DEF Weight
<1>3. CASE ~ i < p
  <2>1. n + p - i \in Nat
    BY <1>1
  <2> QED
    BY <1>1, <1>3, <2>1, Power10Is DEF Weight
<1> QED
  BY <1>2, <1>3

(* s[i] is the decimal value of the first i characters, where they stand.  *)
Sums(s, text) ==
  /\ s[0] = 0 /\ \A i \in 0 .. Len(text) : s[i] \in Int
  /\ \A i \in 1 .. Len(text) :
       s[i] = IF i = PointAt(text) THEN s[i-1]
              ELSE s[i-1] + (text[i] - Zero) * Weight(text, i)

LEMMA DecimalIs ==
  ASSUME NEW text \in Seq(Nat)
  PROVE  \E s : Sums(s, text) /\ Decimal(text) = s[Len(text)]
<1> DEFINE Next1(i, k) == IF i = PointAt(text) THEN k
                          ELSE k + (text[i] - Zero) * Weight(text, i)
           Def(g) == [i \in 0 .. Len(text) |->
                        IF i = 0 THEN 0
                        ELSE IF i = PointAt(text) THEN g[i-1]
                        ELSE g[i-1] + (text[i] - Zero) * Weight(text, i)]
<1>1. PICK n \in Nat : n = Len(text)
  OBVIOUS
<1>2. PICK F : F = [x \in (1 .. n) \X Int |-> Next1(x[1], x[2])]
  OBVIOUS
<1>3. ASSUME NEW i \in 1 .. n, NEW k \in Int
      PROVE  F[<<i, k>>] = Next1(i, k) /\ F[<<i, k>>] \in Int
  <2>1. PICK d \in Int : d = text[i] - Zero
    BY <1>1, DigitIs
  <2>2. PICK w \in Int : w = Weight(text, i)
    BY <1>1, WeightIs
  <2>3. d * w \in Int
    BY Times10
  <2>4. Next1(i, k) \in Int
    BY <2>1, <2>2, <2>3
  <2>5. F[<<i, k>>] = Next1(i, k)
    <3> HIDE DEF Next1
    <3> QED
      BY <1>2
  <2> QED
    BY <2>4, <2>5
<1>4. Makes(F, n, Int)
  <2> HIDE DEF Next1
  <2> QED
    BY <1>2, <1>3 DEF Makes
<1>5. PICK h : MadeBy(h, F, n, Int, 0)
  <2>1. n \in Nat /\ 0 \in Int
    OBVIOUS
  <2> HIDE DEF Def, Next1
  <2> QED
    BY <1>4, <2>1, Recursion
<1>6. ASSUME NEW i \in 1 .. n PROVE h[i] = Next1(i, h[i-1])
  <2>1. i - 1 \in 0 .. n
    OBVIOUS
  <2> HIDE DEF Next1
  <2> QED
    BY <1>3, <1>5, <2>1 DEF MadeBy
<1>7. \E g : g = Def(g)
  <2>1. PICK g : g = [i \in 0 .. n |-> h[i]]
    OBVIOUS
  <2>2. h[0] = 0
    BY <1>5 DEF MadeBy
  <2>3. g = Def(g)
    BY <1>1, <1>6, <2>1, <2>2
  <2> QED
    BY <2>3
<1>8. PICK e : e = CHOOSE g : g = Def(g)
  OBVIOUS
<1>9. e = Def(e)
  <2> HIDE DEF Def
  <2> QED
    BY <1>7, <1>8
<1>10. e[0] = 0 /\ \A i \in 1 .. n : e[i] = Next1(i, e[i-1])
  <2>1. e[0] = 0
    BY <1>1, <1>9
  <2>2. ASSUME NEW i \in 1 .. n PROVE e[i] = Next1(i, e[i-1])
    <3>1. i \in 0 .. Len(text) /\ i # 0
      BY <1>1
    <3> QED
      BY <1>9, <3>1
  <2> QED
    BY <2>1, <2>2
<1>11. Decimal(text) = e[n]
  BY <1>1, <1>8 DEF Decimal
<1>12. Follows(e, F, n, Int, 0)
  <2> HIDE DEF Def, Next1
  <2> QED
    BY <1>3, <1>10 DEF Follows
<1>13. \A i \in 0 .. n : e[i] \in Int
  <2>1. \A i \in 0 .. n : e[i] = h[i]
    <3> HIDE DEF Def, Next1
    <3> QED
      BY <1>5, <1>12, OneFunction
  <2> QED
    BY <1>5, <2>1 DEF MadeBy
<1>14. Sums(e, text)
  BY <1>1, <1>10, <1>13 DEF Sums
<1> QED
  BY <1>1, <1>11, <1>14

(* Each digit before the point shifts what was spelled.                    *)
LEMMA BeforePoint ==
  ASSUME NEW text \in Seq(Nat), NEW s, Sums(s, text),
         NEW n \in 0 .. Len(text), n < PointAt(text),
         NEW e, Spells(e, text, n)
  PROVE  s[n] = e[n] * Power10(Len(text) + PointAt(text) - 1 - n)
<1>1. /\ e[0] = 0
      /\ \A i \in 0 .. n : e[i] \in Int
      /\ \A i \in 1 .. n : e[i] = e[i-1] * 10 + (text[i] - Zero)
  BY DEF Spells
<1>2. PICK L \in Nat, P \in Nat : L = Len(text) /\ P = PointAt(text)
  BY PointIs
<1> DEFINE Up(i) == Power10(L + P - 1 - i)
           T == {i \in 0 .. n : s[i] # e[i] * Up(i)}
<1>3. \A i \in 0 .. n : Up(i) \in Int /\ e[i] \in Int /\ s[i] \in Int
  <2> SUFFICES ASSUME NEW i \in 0 .. n
               PROVE  Up(i) \in Int /\ e[i] \in Int /\ s[i] \in Int
    OBVIOUS
  <2>1. L + P - 1 - i \in Nat /\ i \in 0 .. Len(text)
    BY <1>2
  <2> QED
    BY <1>1, <2>1, Power10Is DEF Sums
<1>4. T = {}
  <2> SUFFICES ASSUME T # {} PROVE FALSE
    OBVIOUS
  <2>1. T \subseteq Nat
    OBVIOUS
  <2>2. PICK m \in T : \A y \in T : m <= y
    <3> HIDE DEF T
    <3> QED
      BY <2>1, LeastNat
  <2>3. m \in 0 .. n /\ s[m] # e[m] * Up(m)
    BY <2>2
  <2>4. /\ m \in Nat /\ m <= n /\ n \in Nat /\ n <= L /\ n < P
        /\ L \in Nat /\ P \in Nat
    BY <1>2, <2>3
  <2>5. m # 0
    <3>1. Up(0) \in Int /\ 0 * Up(0) = 0
      <4>1. 0 \in 0 .. n
        OBVIOUS
      <4>2. Up(0) \in Int
        BY <1>3, <4>1
      <4>3. ASSUME NEW x \in Int PROVE 0 * x = 0
        OBVIOUS
      <4> HIDE DEF Up
      <4> QED
        BY <4>2, <4>3
    <3>2. s[0] = 0 /\ e[0] = 0
      BY <1>1 DEF Sums
    <3> QED
      BY <2>3, <3>1, <3>2
  <2>6. PICK j \in 0 .. n : m = j + 1 /\ j \notin T
    <3>1. m - 1 \in 0 .. n /\ m = (m - 1) + 1 /\ ~ m <= m - 1
      BY <2>3, <2>5
    <3>2. m - 1 \notin T
      <4> HIDE DEF T
      <4> QED
        BY <2>2, <3>1
    <3> QED
      BY <3>1, <3>2
  <2>7. s[j] = e[j] * Up(j)
    BY <2>6
  <2>8. Up(j) = 10 * Up(m)
    <3>1. L + P - 1 - m \in Nat /\ L + P - 1 - j = (L + P - 1 - m) + 1
      <4> HIDE DEF T, Up
      <4> QED
        BY <2>4, <2>6
    <3> QED
      BY <3>1, Power10Is
  <2>9. /\ m \in 1 .. n /\ m \in 1 .. Len(text) /\ m # PointAt(text)
        /\ m < PointAt(text) /\ m - 1 = j
    <3> HIDE DEF T, Up
    <3> QED
      BY <1>2, <2>4, <2>5, <2>6
  <2>10. PICK d \in Int : d = text[m] - Zero
    BY <2>9, DigitIs
  <2>11. e[m] = e[j] * 10 + d
    BY <1>1, <2>9, <2>10
  <2>12. s[m] = s[j] + d * Up(m)
    <3>1. Weight(text, m) = Up(m)
      BY <1>2, <2>9 DEF Weight
    <3>2. s[m] = s[m-1] + (text[m] - Zero) * Weight(text, m)
      BY <2>9 DEF Sums
    <3> HIDE DEF Up
    <3> QED
      BY <2>9, <2>10, <3>1, <3>2
  <2>13. (e[j] * 10 + d) * Up(m) = e[j] * (10 * Up(m)) + d * Up(m)
    <3>1. e[j] \in Int /\ Up(m) \in Int
      BY <1>3, <2>3
    <3> HIDE DEF Up
    <3> QED
      BY <3>1, Times10
  <2> HIDE DEF Up
  <2> QED
    BY <2>3, <2>7, <2>8, <2>11, <2>12, <2>13
<1>5. s[n] = e[n] * Up(n)
  <2>1. n \in 0 .. n
    OBVIOUS
  <2> QED
    BY <1>4, <2>1
<1> QED
  BY <1>1, <1>2, <1>5

LEMMA ErrorIs ==
  /\ \A x \in Int : Error(x) \in Int
  /\ \A x \in Nat : Error(x) \in Nat /\ Error(x) >= 1
  /\ \A x, y \in Int : x <= y => Error(x) <= Error(y)
<1>1. PICK p \in Nat \ {0} : p = Precision
  BY FloatAssumption DEF FloatAssumption
<1>2. \A x \in Int : x \div p \in Int
  OBVIOUS
<1>3. \A x \in Nat : x \div p \in Nat
  OBVIOUS
<1>4. ASSUME NEW x \in Int, NEW y \in Int, x <= y
      PROVE  x \div p <= y \div p
  BY <1>4
<1> QED
  BY <1>1, <1>2, <1>3, <1>4 DEF Error

LEMMA TenthIs ==
  ASSUME NEW x \in Int, NEW side \in {-1, 1}
  PROVE  /\ Tenth(x, side) \in Int
         /\ \A z \in Int, b \in Nat :
              /\ x <= 10 * z + 2 * b => Tenth(x, side) <= z + b + 1 - (b \div 2)
              /\ x >= 10 * z - 2 * b => Tenth(x, side) >= z - b - 1 + (b \div 2)
<1>1. \A y \in Int : y \div 10 \in Int
  OBVIOUS
<1>2. ASSUME NEW y \in {x, x + 9}, NEW z \in Int, NEW b \in Nat
      PROVE  /\ x <= 10 * z + 2 * b => y \div 10 <= z + b + 1 - (b \div 2)
             /\ x >= 10 * z - 2 * b => y \div 10 >= z - b - 1 + (b \div 2)
  <2>1. y \in Int /\ x <= y /\ y <= x + 9
    OBVIOUS
  <2>2. PICK q \in Int : q = y \div 10 /\ 10 * q <= y /\ y <= 10 * q + 9
    BY <2>1
  <2>3. PICK h \in Int : h = b \div 2 /\ 2 * h <= b /\ b <= 2 * h + 1
    OBVIOUS
  <2> QED
    BY <2>1, <2>2, <2>3
<1>3. PICK y \in {x, x + 9} : Tenth(x, side) = y \div 10
  BY DEF Tenth
<1>4. y \in Int
  OBVIOUS
<1> QED
  BY <1>1, <1>2, <1>3, <1>4

(* What the loop behind the point computes, from the last character on.    *)
Turns(e, text, side, p, n) ==
  /\ Fraction(text, side) = e[p+1] /\ e[n+1] = 0
  /\ \A i \in p + 1 .. n + 1 : e[i] \in Int
  /\ \A i \in p + 1 .. n :
       e[i] = Tenth(e[i+1], side) + (text[i] - Zero) * Unit(text)
                + side * Error(10 * Unit(text))

LEMMA FractionIs ==
  ASSUME NEW text \in Seq(Nat), NEW side \in {-1, 1}, NEW p, NEW n,
         p = NodePos(text) + 1, n = Len(text), p \in 1 .. n
  PROVE  \E e : Turns(e, text, side, p, n)
<1> DEFINE Step(i, x) == Tenth(x, side) + (text[i] - Zero) * Unit(text)
                           + side * Error(10 * Unit(text))
           Def(g) == [i \in NodePos(text) + 2 .. Len(text) + 1 |->
                        IF i > Len(text) THEN 0
                        ELSE Tenth(g[i+1], side)
                               + (text[i] - Zero) * Unit(text)
                               + side * Error(10 * Unit(text))]
<1>1. n \in Nat /\ n - p \in Nat /\ p \in Nat
  OBVIOUS
<1>2. NodePos(text) + 2 = p + 1
  <2>1. p = NodePos(text) + 1 /\ NodePos(text) \in Int
    BY NodePosIs
  <2> QED
    BY <2>1
<1>3. ASSUME NEW i \in p + 1 .. n, NEW x \in Int PROVE Step(i, x) \in Int
  <2>1. i \in 1 .. Len(text)
    BY <1>1
  <2>2. PICK d \in Int : d = text[i] - Zero
    BY <2>1, DigitIs
  <2>3. PICK u \in Nat : u = Unit(text)
    BY Power10Is DEF Unit
  <2>4. PICK y \in Int : y = d * u
    BY Times10
  <2>5. Error(10 * u) \in Int
    BY ErrorIs
  <2>6. PICK z \in Int : z = side * Error(10 * u)
    BY <2>5
  <2>7. PICK t \in Int : t = Tenth(x, side)
    BY TenthIs
  <2>8. Step(i, x) = t + y + z
    BY <2>2, <2>3, <2>4, <2>6, <2>7
  <2> HIDE DEF Step
  <2> QED
    BY <2>8
<1>4. PICK F : F = [x \in (1 .. n - p) \X Int |-> Step(n + 1 - x[1], x[2])]
  OBVIOUS
<1>5. ASSUME NEW k \in 1 .. n - p, NEW x \in Int
      PROVE  F[<<k, x>>] = Step(n + 1 - k, x) /\ F[<<k, x>>] \in Int
  <2>1. n + 1 - k \in p + 1 .. n
    BY <1>1
  <2>2. F[<<k, x>>] = Step(n + 1 - k, x)
    <3> HIDE DEF Step
    <3> QED
      BY <1>4
  <2> HIDE DEF Step
  <2> QED
    BY <1>3, <2>1, <2>2
<1>6. Makes(F, n - p, Int)
  <2> HIDE DEF Step
  <2>1. \A x \in (1 .. n - p) \X Int : F[x] \in Int
    BY <1>5
  <2>2. F = [x \in (1 .. n - p) \X Int |-> F[x]]
    BY <1>4
  <2> QED
    BY <2>1, <2>2 DEF Makes
<1>7. PICK h : MadeBy(h, F, n - p, Int, 0)
  <2>1. 0 \in Int
    OBVIOUS
  <2> HIDE DEF Step, Def
  <2> QED
    BY <1>1, <1>6, <2>1, Recursion
<1>8. PICK g : g = [i \in p + 1 .. n + 1 |-> h[n + 1 - i]]
  OBVIOUS
<1>9. g[n+1] = 0
  <2>1. n + 1 \in p + 1 .. n + 1 /\ n + 1 - (n + 1) = 0
    BY <1>1
  <2> QED
    BY <1>7, <1>8, <2>1 DEF MadeBy
<1>10. ASSUME NEW i \in p + 1 .. n PROVE g[i] = Step(i, g[i+1])
  <2>1. PICK k \in 1 .. n - p : k = n + 1 - i
    <3>1. i \in Int /\ p + 1 <= i /\ i <= n
      BY <1>1
    <3>2. n + 1 - i \in 1 .. n - p
      BY <1>1, <3>1
    <3> QED
      BY <3>2
  <2>2. /\ i \in p + 1 .. n + 1 /\ i + 1 \in p + 1 .. n + 1
        /\ n + 1 - (i + 1) = k - 1 /\ n + 1 - k = i /\ k - 1 \in 0 .. n - p
    <3> HIDE DEF Step, Def
    <3>1. i \in Int /\ p + 1 <= i /\ i <= n
      BY <1>1
    <3>2. i \in p + 1 .. n + 1 /\ i + 1 \in p + 1 .. n + 1
      BY <1>1, <3>1
    <3>3. n + 1 - (i + 1) = k - 1 /\ n + 1 - k = i
      BY <1>1, <2>1, <3>1
    <3>4. k - 1 \in 0 .. n - p
      BY <1>1, <2>1, <3>1
    <3> QED
      BY <3>2, <3>3, <3>4
  <2>3. g[i] = h[k] /\ g[i+1] = h[k-1]
    BY <1>8, <2>1, <2>2
  <2>4. h[k-1] \in Int /\ h[k] = F[<<k, h[k-1]>>]
    BY <1>7, <2>2 DEF MadeBy
  <2>5. F[<<k, h[k-1]>>] = Step(n + 1 - k, h[k-1])
    <3> HIDE DEF Step
    <3> QED
      BY <1>5, <2>4
  <2> HIDE DEF Step
  <2> QED
    BY <2>2, <2>3, <2>4, <2>5
<1>11. \A i \in p + 1 .. n + 1 : g[i] \in Int
  <2>1. \A i \in p + 1 .. n + 1 : n + 1 - i \in 0 .. n - p
    BY <1>1
  <2> QED
    BY <1>7, <1>8, <2>1 DEF MadeBy
<1>12. g = Def(g)
  <2>1. ASSUME NEW i \in p + 1 .. n + 1
        PROVE  g[i] = IF i > n THEN 0 ELSE Step(i, g[i+1])
    <3>1. CASE i > n
      <4>1. i = n + 1
        BY <1>1, <3>1
      <4> QED
        BY <1>9, <3>1, <4>1
    <3>2. CASE ~ i > n
      <4>1. i \in p + 1 .. n
        BY <1>1, <3>2
      <4> HIDE DEF Step
      <4> QED
        BY <1>10, <3>2, <4>1
    <3> QED
      BY <3>1, <3>2
  <2>2. g = [i \in p + 1 .. n + 1 |-> g[i]]
    BY <1>8
  <2>3. Def(g) = [i \in p + 1 .. n + 1 |->
                    IF i > n THEN 0 ELSE Step(i, g[i+1])]
    BY <1>2
  <2> HIDE DEF Def, Step
  <2> QED
    BY <2>1, <2>2, <2>3
<1>13. PICK e : e = CHOOSE f : f = Def(f)
  OBVIOUS
<1>14. e = Def(e)
  <2> HIDE DEF Def
  <2> QED
    BY <1>12, <1>13
<1>15. \A i \in p + 1 .. n + 1 :
         e[i] = IF i > n THEN 0 ELSE Step(i, e[i+1])
  BY <1>2, <1>14
<1>16. Fraction(text, side) = e[p+1]
  BY <1>2, <1>13 DEF Fraction
<1>17. e[n+1] = 0
  <2>1. n + 1 \in p + 1 .. n + 1 /\ n + 1 > n
    BY <1>1
  <2> HIDE DEF Step
  <2> QED
    BY <1>15, <2>1
<1>18. \A i \in p + 1 .. n : e[i] = Step(i, e[i+1])
  <2>1. \A i \in p + 1 .. n : i \in p + 1 .. n + 1 /\ ~ i > n
    BY <1>1
  <2> HIDE DEF Step
  <2> QED
    BY <1>15, <2>1
<1>19. \A i \in p + 1 .. n + 1 : e[i] \in Int
  <2> DEFINE S == {i \in p + 1 .. n + 1 : e[i] \in Int}
  <2>1. n + 1 \in S
    BY <1>1, <1>17
  <2>2. ASSUME NEW i \in p + 1 .. (n + 1) - 1, i + 1 \in S PROVE i \in S
    <3>1. i \in p + 1 .. n /\ i \in p + 1 .. n + 1
      BY <1>1
    <3>2. e[i+1] \in Int
      BY <2>2
    <3>3. Step(i, e[i+1]) \in Int
      BY <1>3, <3>1, <3>2
    <3> HIDE DEF Step
    <3> QED
      BY <1>18, <3>1, <3>3
  <2>3. p + 1 \in Nat /\ n + 1 \in Nat
    BY <1>1
  <2>4. \A i \in p + 1 .. n + 1 : i \in S
    <3> HIDE DEF S
    <3> QED
      BY <2>1, <2>2, <2>3, Downward
  <2> QED
    BY <2>4
<1> QED
  BY <1>16, <1>17, <1>18, <1>19 DEF Turns

(* Two ends that are off by at most b.                                     *)
Within(x, y, b) == x <= y + b /\ y <= x + b

(* Each digit behind the point, from the last one, shifts what was read    *)
(* the other way, and takes nine tenths of what it was off by with it: the *)
(* roundings of all turns together stay within two of them.  Here r is the *)
(* text as it is read.                                                     *)
LEMMA BehindPoint ==
  ASSUME NEW text \in Seq(Nat), NEW r \in Seq(Nat), Len(r) = Len(text),
         HasPoint(r), PointAt(r) = NodePos(text) + 1,
         \A i \in PointAt(r) + 1 .. Len(text) : r[i] = text[i],
         NEW s, Sums(s, r), NEW side \in {-1, 1}
  PROVE  /\ Fraction(text, side) \in Int
         /\ Within(Fraction(text, side), 10 * (s[Len(text)] - s[PointAt(r)]),
                   2 * Error(10 * Unit(text)) + 2)
<1>1. PICK L \in Nat, P \in Nat : L = Len(text) /\ P = PointAt(r)
  BY PointIs
<1>2. P \in 1 .. L
  BY <1>1, PointIs
<1> DEFINE Rest(i) == s[L] - s[i-1]
           g == [i \in P + 1 .. L + 1 |-> Power10(i - P) * Rest(i)]
<1>0. PICK E \in Nat : E = Error(10 * Unit(text)) /\ E >= 1
  <2>1. PICK u \in Nat : u = Unit(text)
    BY Power10Is DEF Unit
  <2>2. 10 * u \in Nat
    OBVIOUS
  <2> QED
    BY <2>1, <2>2, ErrorIs
<1>3. ASSUME NEW i \in P + 1 .. L + 1
      PROVE  Rest(i) \in Int /\ Power10(i - P) \in Int
  <2>1. i - 1 \in 0 .. Len(r) /\ L \in 0 .. Len(r) /\ i - P \in Nat
    BY <1>1, <1>2
  <2>2. s[L] \in Int /\ s[i-1] \in Int
    BY <2>1 DEF Sums
  <2>3. Rest(i) \in Int
    BY <2>2
  <2>4. Power10(i - P) \in Nat
    BY <2>1, Power10Is
  <2> QED
    BY <2>3, <2>4
<1>4. g[L+1] = 0
  <2>1. L + 1 \in P + 1 .. L + 1 /\ (L + 1) - 1 = L /\ L \in 0 .. Len(text)
    BY <1>1, <1>2
  <2>2. s[L] \in Int
    BY <2>1 DEF Sums
  <2>3. Rest(L + 1) = 0
    BY <2>1, <2>2
  <2>4. g[L+1] = Power10(L + 1 - P) * Rest(L + 1)
    BY <2>1
  <2>5. Power10(L + 1 - P) \in Int
    <3>1. L + 1 - P \in Nat
      BY <1>2
    <3> QED
      BY <3>1, Power10Is
  <2>6. ASSUME NEW x \in Int PROVE x * 0 = 0
    OBVIOUS
  <2> HIDE DEF Rest, g
  <2> QED
    BY <2>3, <2>4, <2>5, <2>6
<1>5. ASSUME NEW i \in P + 1 .. L
      PROVE  \E z \in Int : /\ g[i+1] = 10 * z
                            /\ g[i] = z + (r[i] - Zero) * Unit(text)
  <2>1. /\ i \in P + 1 .. L + 1 /\ i + 1 \in P + 1 .. L + 1
        /\ i \in 1 .. Len(text) /\ i # PointAt(r) /\ ~ i < PointAt(r)
        /\ (i + 1) - 1 = i /\ i \in 0 .. Len(text) /\ i - 1 \in 0 .. Len(text)
        /\ L \in 0 .. Len(text)
    BY <1>1, <1>2
  <2>2. PICK d \in Int : d = r[i] - Zero
    BY <2>1, DigitIs
  <2>3. PICK p \in Int : p = Power10(i - P)
    BY <1>3, <2>1
  <2>4. PICK w \in Int : w = Weight(r, i)
    BY <2>1, WeightIs
  <2>5. Unit(text) = p * w
    <3>1. i - P \in Nat /\ L + P - i \in Nat /\ (i - P) + (L + P - i) = L
      <4>1. i \in Int /\ P + 1 <= i /\ i <= L /\ P \in Nat /\ L \in Nat
        BY <1>1
      <4> HIDE DEF g, Rest
      <4> QED
        BY <4>1
    <3>2. w = Power10(L + P - i)
      BY <1>1, <2>1, <2>4 DEF Weight
    <3>3. Power10((i - P) + (L + P - i)) = p * w
      BY <2>3, <3>1, <3>2, Power10Sum
    <3> QED
      BY <1>1, <3>1, <3>3 DEF Unit
  <2>6. Power10(i + 1 - P) = 10 * p
    <3>1. i - P \in Nat /\ i + 1 - P = (i - P) + 1
      <4>1. i \in Int /\ P + 1 <= i /\ P \in Nat
        OBVIOUS
      <4> HIDE DEF g, Rest
      <4> QED
        BY <4>1
    <3> QED
      BY <2>3, <3>1, Power10Is
  <2>7. PICK a \in Int, b \in Int, c \in Int : a = s[L] /\ b = s[i] /\ c = s[i-1]
    BY <2>1 DEF Sums
  <2>8. b = c + d * w
    BY <2>1, <2>2, <2>4, <2>7 DEF Sums
  <2>9. g[i+1] = (10 * p) * (a - b)
    BY <2>1, <2>6, <2>7
  <2>10. g[i] = p * (a - c)
    BY <2>1, <2>3, <2>7
  <2>11. p * (a - b) \in Int /\ g[i+1] = 10 * (p * (a - b))
    <3>1. a - b \in Int
      OBVIOUS
    <3>2. (10 * p) * (a - b) = 10 * (p * (a - b)) /\ p * (a - b) \in Int
      BY <3>1, Times10
    <3> HIDE DEF g
    <3> QED
      BY <2>9, <3>2
  <2>12. p * (a - c) = p * (a - b) + d * (p * w)
    <3>1. PICK x \in Int : x = a - b
      OBVIOUS
    <3>2. PICK y \in Int : y = d * w
      BY Times10
    <3>3. a - c = x + y
      BY <2>8, <3>1, <3>2
    <3>4. p * (x + y) = p * x + p * y
      BY Times10
    <3>5. d * (p * w) = p * y
      BY <3>2, Times10
    <3> QED
      BY <3>1, <3>3, <3>4, <3>5
  <2> HIDE DEF g
  <2> QED
    BY <2>2, <2>5, <2>10, <2>11, <2>12
<1>6. PICK e : Turns(e, text, side, P, L)
  <2>1. P = NodePos(text) + 1
    BY <1>1
  <2> HIDE DEF g, Rest
  <2> QED
    BY <1>1, <1>2, <2>1, FractionIs
<1>7. PICK b \in Nat : b = 2 * E + 2
  OBVIOUS
<1>8. ASSUME NEW i \in P + 1 .. L, Within(e[i+1], g[i+1], b)
      PROVE  Within(e[i], g[i], b)
  <2> HIDE DEF g, Rest
  <2>1. PICK z \in Int : /\ g[i+1] = 10 * z
                         /\ g[i] = z + (r[i] - Zero) * Unit(text)
    BY <1>5
  <2>2. /\ i + 1 \in P + 1 .. L + 1 /\ i \in 1 .. Len(text)
        /\ r[i] = text[i]
    BY <1>1, <1>2
  <2>3. PICK y \in Int : y = (r[i] - Zero) * Unit(text)
    <3>1. PICK d \in Int : d = r[i] - Zero
      BY <2>2, DigitIs
    <3>2. PICK u \in Int : u = Unit(text)
      BY Power10Is DEF Unit
    <3> QED
      BY <3>1, <3>2, Times10
  <2>4. PICK x \in Int : x = e[i+1]
    BY <1>6, <2>2 DEF Turns
  <2>5. PICK t \in Int : t = Tenth(x, side)
    BY TenthIs
  <2>6. PICK w \in Int : w = side * E /\ 0 - E <= w /\ w <= E
    OBVIOUS
  <2>7. /\ t <= z + (E + 1) + 1 - ((E + 1) \div 2)
        /\ t >= z - (E + 1) - 1 + ((E + 1) \div 2)
    <3>1. E + 1 \in Nat /\ x <= 10 * z + 2 * (E + 1)
          /\ x >= 10 * z - 2 * (E + 1)
      BY <1>7, <1>8, <2>1, <2>4 DEF Within
    <3> QED
      BY <2>5, <3>1, TenthIs
  <2>8. (E + 1) \div 2 \in Nat
    OBVIOUS
  <2>9. e[i] = t + y + w
    BY <1>0, <1>6, <2>2, <2>3, <2>4, <2>5, <2>6 DEF Turns
  <2>10. g[i] = z + y
    BY <2>1, <2>3
  <2>11. PICK h \in Nat : h = (E + 1) \div 2
    BY <2>8
  <2>12. /\ t + y + w <= z + y + (2 * E + 2)
         /\ z + y <= t + y + w + (2 * E + 2)
    BY <2>6, <2>7, <2>11
  <2> QED
    BY <1>7, <2>9, <2>10, <2>12 DEF Within
<1>9. \A i \in P + 1 .. L + 1 : Within(e[i], g[i], b)
  <2> HIDE DEF g, Rest
  <2> DEFINE S == {i \in P + 1 .. L + 1 : Within(e[i], g[i], b)}
  <2>1. L + 1 \in S
    BY <1>2, <1>4, <1>6, <1>7 DEF Within, Turns
  <2>2. ASSUME NEW i \in P + 1 .. (L + 1) - 1, i + 1 \in S PROVE i \in S
    <3>1. i \in P + 1 .. L /\ i \in P + 1 .. L + 1
      OBVIOUS
    <3> QED
      BY <1>8, <2>2, <3>1
  <2>3. P + 1 \in Nat /\ L + 1 \in Nat
    OBVIOUS
  <2>4. \A i \in P + 1 .. L + 1 : i \in S
    <3> HIDE DEF S
    <3> QED
      BY <2>1, <2>2, <2>3, Downward
  <2> QED
    BY <2>4
<1>10. P + 1 \in P + 1 .. L + 1
  BY <1>2
<1>11. g[P+1] = 10 * (s[L] - s[P])
  <2>1. g[P+1] = Power10(P + 1 - P) * Rest(P + 1)
    BY <1>10
  <2>2. P + 1 - P = 1 /\ (P + 1) - 1 = P /\ 0 + 1 = 1
    OBVIOUS
  <2>3. Power10(1) = 10
    <3>1. Power10(0 + 1) = 10 * 1
      BY Power10Is
    <3> QED
      BY <3>1
  <2> HIDE DEF g
  <2> QED
    BY <2>1, <2>2, <2>3
<1>12. e[P+1] \in Int /\ Fraction(text, side) = e[P+1]
  BY <1>6, <1>10 DEF Turns
<1> HIDE DEF g, Rest
<1>13. Within(e[P+1], 10 * (s[L] - s[P]), b)
  BY <1>9, <1>10, <1>11
<1> QED
  BY <1>0, <1>1, <1>7, <1>12, <1>13

LEMMA PowerIsPositive == \A n \in Nat : Power10(n) \in Nat /\ Power10(n) >= 1
<1> SUFFICES ASSUME NEW n \in Nat PROVE Power10(n) \in Nat /\ Power10(n) >= 1
  OBVIOUS
<1> DEFINE S == {i \in 0 .. n : Power10(i) >= 1}
<1>1. 0 \in S
  BY Power10Is
<1>2. ASSUME NEW i \in 0 + 1 .. n, i - 1 \in S PROVE i \in S
  <2>1. PICK j \in Nat : i = j + 1 /\ j \in S
    <3>1. i - 1 \in Nat /\ i = (i - 1) + 1
      OBVIOUS
    <3> QED
      BY <1>2, <3>1
  <2>2. Power10(i) = 10 * Power10(j) /\ Power10(j) \in Nat
    BY <2>1, Power10Is
  <2>3. Power10(j) >= 1 /\ i \in 0 .. n
    BY <2>1
  <2> QED
    BY <2>2, <2>3
<1>3. \A i \in 0 .. n : i \in S
  <2> HIDE DEF S
  <2> QED
    BY <1>1, <1>2, Upward
<1>4. n \in S
  BY <1>3
<1> QED
  BY <1>4, Power10Is

LEMMA Cancel ==
  ASSUME NEW a \in Int, NEW b \in Int, NEW u \in Nat, u >= 1
  PROVE  a * u < b * u => a < b
<1> SUFFICES ASSUME b <= a PROVE b * u <= a * u
  <2>1. a * u \in Int /\ b * u \in Int
    OBVIOUS
  <2> QED
    BY <2>1
<1>1. PICK k \in Nat : a = b + k
  <2>1. a - b \in Nat /\ a = b + (a - b)
    OBVIOUS
  <2> QED
    BY <2>1
<1>2. (b + k) * u = b * u + k * u
  OBVIOUS
<1>3. k * u \in Nat /\ b * u \in Int
  OBVIOUS
<1> QED
  BY <1>1, <1>2, <1>3

(* A time that an int holds is read as what it says.                       *)
LEMMA TimeIsReadRight ==
  ASSUME NEW text, IsNumber(text), ~HasPoint(text),
         Decimal(text) < Half * Unit(text)
  PROVE  CharToInt(text) * Unit(text) = Decimal(text)
<1>1. text \in Seq(Nat)
  BY DEF IsNumber
<1>2. \A i \in 1 .. Len(text) : text[i] - Zero \in Nat
  <2> SUFFICES ASSUME NEW i \in 1 .. Len(text) PROVE text[i] - Zero \in Nat
    OBVIOUS
  <2>1. i \in DOMAIN text
    BY <1>1
  <2>2. text[i] \in 48 .. 57
    BY <2>1 DEF IsNumber, HasPoint, Zero
  <2>3. ASSUME NEW c \in 48 .. 57 PROVE c - 48 \in Nat
    OBVIOUS
  <2> QED
    BY <2>2, <2>3 DEF Zero
<1>3. PICK L \in Nat : L = Len(text)
  BY <1>1
<1>4. PICK u \in Nat : u = Unit(text) /\ u = Power10(L) /\ u >= 1
  BY <1>3, PowerIsPositive DEF Unit
<1>5. PICK s : Sums(s, text) /\ Decimal(text) = s[L]
  BY <1>1, <1>3, DecimalIs
<1>6. L \in 0 .. L /\ L < PointAt(text) /\ L + PointAt(text) - 1 - L = L
  <2>1. PointAt(text) = L + 1
    BY <1>1, <1>3, PointIs
  <2> QED
    BY <2>1
<1>7. PICK e : Spells(e, text, L)
  BY <1>1, <1>3, <1>6, SpelledIs
<1>8. \A i \in 0 .. L : e[i] \in Nat /\ e[i] <= e[L]
  BY <1>1, <1>2, <1>3, <1>6, <1>7, SpelledGrows
<1>9. s[L] = e[L] * u
  BY <1>1, <1>3, <1>4, <1>5, <1>6, <1>7, BeforePoint
<1>10. PICK a \in Nat : a = e[L]
  BY <1>6, <1>8
<1>11. a < Half /\ Half \in Nat
  <2>1. Half \in Nat
    BY WidthAssumption DEF WidthAssumption
  <2>2. a * u < Half * u
    BY <1>4, <1>5, <1>9, <1>10
  <2> QED
    BY <1>4, <2>1, <2>2, Cancel
<1>12. \A i \in 1 .. Len(text) : e[i] \in Nat /\ e[i] < Half
  <2> SUFFICES ASSUME NEW i \in 1 .. Len(text)
               PROVE  e[i] \in Nat /\ e[i] < Half
    OBVIOUS
  <2>1. e[i] \in Nat /\ e[i] <= a
    BY <1>3, <1>8, <1>10
  <2> QED
    BY <1>11, <2>1
<1>13. CharToInt(text) = e[L]
  BY <1>1, <1>3, <1>7, <1>12, IntIs
<1> QED
  BY <1>4, <1>5, <1>9, <1>13

(* What char_to_float reads: the text, with a point in place of its first  *)
(* digit if it has none.                                                   *)
LEMMA WithPointIs ==
  ASSUME NEW text, IsNumber(text), NEW r, r = WithPoint(text)
  PROVE  /\ text \in Seq(Nat) /\ r \in Seq(Nat) /\ Len(r) = Len(text)
         /\ HasPoint(r) /\ PointAt(r) \in 1 .. Len(text)
         /\ NodePos(text) = PointAt(r) - 1
         /\ \A i \in 1 .. Len(text) :
              i # PointAt(r) => r[i] = text[i] /\ text[i] - Zero \in Nat
<1>1. text \in Seq(Nat) /\ text # <<>> /\ DOMAIN text = 1 .. Len(text)
  BY DEF IsNumber
<1>2. PICK L \in Nat : L = Len(text) /\ 1 \in 1 .. L
  <2>1. text \in Seq(Nat) /\ text # <<>>
    BY DEF IsNumber
  <2>2. Len(text) \in Nat \ {0}
    BY <2>1, EmptySeq
  <2>3. PICK k \in Nat \ {0} : k = Len(text)
    BY <2>2
  <2> QED
    BY <2>3
<1>3. \A i \in 1 .. L : text[i] # Point => text[i] - Zero \in Nat
  <2> SUFFICES ASSUME NEW i \in 1 .. L, text[i] # Point
               PROVE  text[i] - Zero \in Nat
    OBVIOUS
  <2>1. i \in DOMAIN text
    BY <1>1, <1>2
  <2>2. text[i] \in 48 .. 57
    BY <2>1 DEF IsNumber, Zero
  <2>3. ASSUME NEW c \in 48 .. 57 PROVE c - 48 \in Nat
    OBVIOUS
  <2> QED
    BY <2>2, <2>3 DEF Zero
<1>4. CASE HasPoint(text)
  <2>1. r = text
    BY <1>4 DEF WithPoint
  <2>2. /\ PointAt(text) \in 1 .. L /\ NodePos(text) = PointAt(text) - 1
        /\ text[PointAt(text)] = Point
    BY <1>1, <1>2, <1>4, PointIs
  <2>3. \A i \in 1 .. L : i # PointAt(text) => text[i] # Point
    BY <1>1, <1>2, <2>2 DEF IsNumber
  <2> QED
    BY <1>1, <1>2, <1>3, <1>4, <2>1, <2>2, <2>3
<1>5. CASE ~HasPoint(text)
  <2>1. r = [text EXCEPT ![1] = Point] /\ Point \in Nat
    BY <1>5 DEF WithPoint, Point
  <2>2. r \in Seq(Nat) /\ Len(r) = L
    BY <1>1, <1>2, <2>1
  <2>3. /\ r[1] = Point
        /\ \A i \in 1 .. L : i # 1 => r[i] = text[i]
    BY <1>1, <1>2, <2>1
  <2>4. HasPoint(r)
    BY <1>2, <2>2, <2>3 DEF HasPoint
  <2>5. PointAt(r) \in 1 .. L /\ r[PointAt(r)] = Point
    BY <2>2, <2>4, PointIs
  <2>6. \A i \in 1 .. L : text[i] # Point
    BY <1>1, <1>2, <1>5 DEF HasPoint
  <2>7. PointAt(r) = 1
    BY <2>3, <2>5, <2>6
  <2>8. NodePos(text) = 0
    BY <1>5 DEF NodePos
  <2> QED
    BY <1>1, <1>2, <1>3, <2>2, <2>3, <2>4, <2>6, <2>7, <2>8
<1> QED
  BY <1>4, <1>5

(* What two ends are off is never more than what the larger one is.        *)
LEMMA ErrorWithin ==
  ASSUME NEW x \in Int, NEW y \in Nat, x <= y, 0 - y <= x
  PROVE  /\ Error(x) \in Int /\ Error(y) \in Int
         /\ 0 - Error(y) <= Error(x) /\ Error(x) <= Error(y)
<1>1. PICK p \in Nat \ {0} : p = Precision
  BY FloatAssumption DEF FloatAssumption
<1>2. Error(x) \in Int /\ Error(y) \in Int /\ Error(x) <= Error(y)
  BY ErrorIs
<1>3. PICK q \in Int : q = y \div p /\ y < p * q + p
  OBVIOUS
<1>4. p * (0 - q - 1) = 0 - p * q - p /\ p * q \in Int
  OBVIOUS
<1>5. p * (0 - q - 1) <= x
  BY <1>3, <1>4
<1>6. (p * (0 - q - 1)) \div p = 0 - q - 1
  OBVIOUS
<1>7. 0 - q - 1 <= x \div p
  <2>1. PICK z \in Int : z = p * (0 - q - 1)
    OBVIOUS
  <2>2. ASSUME NEW c \in Int, NEW d \in Int, c <= d
        PROVE  c \div p <= d \div p
    BY <2>2
  <2> QED
    BY <1>5, <1>6, <2>1, <2>2
<1>8. x \div p \in Int
  OBVIOUS
<1> QED
  BY <1>1, <1>2, <1>3, <1>7, <1>8 DEF Error

(* An amount whose whole part a float holds is read as what it says, but   *)
(* for the roundings behind the point and that of the sum.                 *)
LEMMA AmountIsReadRight ==
  ASSUME NEW text, IsNumber(text), NEW side \in {-1, 1}, NEW value,
         value = Decimal(WithPoint(text)),
         value + Zero * Unit(text) <= Exact * Unit(text)
  PROVE  /\ CharToFloat(text, side) \in Int /\ value \in Int
         /\ Tolerance(text, value) \in Int
         /\ Within(CharToFloat(text, side), value, Tolerance(text, value))
<1>1. PICK r : r = WithPoint(text)
  OBVIOUS
<1>2. /\ text \in Seq(Nat) /\ r \in Seq(Nat) /\ Len(r) = Len(text)
      /\ HasPoint(r) /\ PointAt(r) \in 1 .. Len(text)
      /\ NodePos(text) = PointAt(r) - 1
      /\ \A i \in 1 .. Len(text) :
           i # PointAt(r) => r[i] = text[i] /\ text[i] - Zero \in Nat
  BY <1>1, WithPointIs
<1>3. PICK L \in Nat, P \in Nat :
        L = Len(text) /\ P = PointAt(r) /\ P \in 1 .. L
  BY <1>2
<1>4. PICK n \in Nat : n = NodePos(text) /\ n = P - 1 /\ n \in 0 .. L
  BY <1>2, <1>3
<1>5. PICK u \in Nat : u = Unit(text) /\ u = Power10(L) /\ u >= 1
  BY <1>3, PowerIsPositive DEF Unit
<1>6. PICK s : Sums(s, r) /\ value = s[L]
  BY <1>1, <1>2, <1>3, DecimalIs
<1>7. PICK e : Spells(e, text, n)
  BY <1>2, <1>3, <1>4, SpelledIs
<1>8. \A i \in 0 .. n : e[i] \in Nat /\ e[i] <= e[n]
  <2>1. \A i \in 1 .. n : i \in 1 .. Len(text) /\ i # PointAt(r)
    BY <1>3, <1>4
  <2>2. \A i \in 1 .. n : text[i] - Zero \in Nat
    BY <1>2, <2>1
  <2> QED
    BY <1>2, <1>3, <1>4, <1>7, <2>2, SpelledGrows
<1>9. PICK a \in Nat : a = e[n]
  <2>1. n \in 0 .. n
    OBVIOUS
  <2> QED
    BY <1>8, <2>1
<1>10. s[n] = a * u
  <2>1. Spells(e, r, n)
    <3>1. \A i \in 1 .. n : i \in 1 .. Len(text) /\ i # PointAt(r)
      BY <1>3, <1>4
    <3>2. \A i \in 1 .. n : r[i] = text[i]
      BY <1>2, <3>1
    <3> QED
      BY <1>7, <3>2 DEF Spells
  <2>2. n \in 0 .. Len(r) /\ n < PointAt(r)
    BY <1>2, <1>3, <1>4
  <2>3. s[n] = e[n] * Power10(Len(r) + PointAt(r) - 1 - n)
    BY <1>2, <1>6, <2>1, <2>2, BeforePoint
  <2>4. Len(r) + PointAt(r) - 1 - n = L
    <3>1. Len(r) = L /\ PointAt(r) = P
      BY <1>2, <1>3
    <3>2. ASSUME NEW k \in Nat, NEW m \in Nat
          PROVE  k + m - 1 - (m - 1) = k
      OBVIOUS
    <3>3. L + P - 1 - n = L
      BY <1>4, <3>2
    <3> QED
      BY <3>1, <3>3
  <2> QED
    BY <1>5, <1>9, <2>3, <2>4
<1>11. s[P] = a * u
  <2>1. s[P] = s[P-1] /\ P - 1 = n
    BY <1>2, <1>3, <1>4, <1>6 DEF Sums
  <2> QED
    BY <1>10, <2>1
<1>12. \A i \in 0 .. L : s[i] \in Int
  BY <1>2, <1>3, <1>6 DEF Sums
<1>13. s[P] <= s[L]
  <2> DEFINE S == {i \in P .. L : s[P] <= s[i]}
  <2>1. P \in S
    <3>1. s[P] \in Int /\ P \in P .. L
      BY <1>3, <1>12
    <3> QED
      BY <3>1
  <2>2. ASSUME NEW i \in P + 1 .. L, i - 1 \in S PROVE i \in S
    <3>1. /\ i \in 1 .. Len(text) /\ i # PointAt(r) /\ i \in 1 .. Len(r)
          /\ i \in P .. L /\ i \in 0 .. L /\ i - 1 \in 0 .. L /\ P \in 0 .. L
      BY <1>2, <1>3
    <3>2. PICK d \in Nat : d = r[i] - Zero
      BY <1>2, <3>1
    <3>3. PICK w \in Nat : w = Weight(r, i)
      BY <1>2, <3>1, WeightIs
    <3>4. PICK y \in Nat : y = d * w
      OBVIOUS
    <3>5. s[i] = s[i-1] + y
      BY <1>6, <3>1, <3>2, <3>3, <3>4 DEF Sums
    <3>6. PICK b \in Int, c \in Int : b = s[i-1] /\ c = s[P]
      BY <1>12, <3>1
    <3>7. c <= b
      BY <2>2, <3>6
    <3>8. c <= b + y
      BY <3>7
    <3> QED
      BY <3>1, <3>5, <3>6, <3>8
  <2>3. \A i \in P .. L : i \in S
    <3> HIDE DEF S
    <3> QED
      BY <2>1, <2>2, Upward
  <2>4. L \in P .. L
    BY <1>3
  <2> QED
    BY <2>3, <2>4
<1>14. PICK W \in Nat : W = a * u
  OBVIOUS
<1>15. value \in Int /\ W <= value
  <2>1. L \in 0 .. L
    OBVIOUS
  <2> QED
    BY <1>6, <1>11, <1>12, <1>13, <1>14, <2>1
<1>16. a + Zero <= Exact
  <2>1. PICK x \in Nat : x = Exact
    BY WidthAssumption DEF WidthAssumption
  <2>2. PICK y \in Int : y = x * u
    OBVIOUS
  <2>3. value + 48 * u <= y
    BY <1>5, <2>1, <2>2 DEF Zero
  <2>4. W + 48 * u < y + u
    BY <1>5, <1>15, <2>3
  <2>5. (a + 48) * u = W + 48 * u /\ (x + 1) * u = y + u
    BY <1>14, <2>2
  <2>6. (a + 48) * u < (x + 1) * u
    BY <2>4, <2>5
  <2>7. a + 48 < x + 1
    <3>1. a + 48 \in Int /\ x + 1 \in Int
      OBVIOUS
    <3> QED
      BY <1>5, <2>6, <3>1, Cancel
  <2> QED
    BY <2>1, <2>7 DEF Zero
<1>17. Pre(text, side) = a
  <2>1. \A i \in 1 .. n : e[i] + Zero <= Exact
    <3> SUFFICES ASSUME NEW i \in 1 .. n PROVE e[i] + Zero <= Exact
      OBVIOUS
    <3>1. PICK k \in Nat : k = e[i] /\ k <= a
      BY <1>8, <1>9
    <3>2. Exact \in Nat
      BY WidthAssumption DEF WidthAssumption
    <3> QED
      BY <1>16, <3>1, <3>2 DEF Zero
  <2> QED
    BY <1>2, <1>3, <1>4, <1>7, <1>9, <2>1, PreIs
<1>18. PICK E \in Nat : E = Error(10 * Unit(text)) /\ E >= 1
  <2>1. 10 * u \in Nat
    OBVIOUS
  <2> QED
    BY <1>5, <2>1, ErrorIs
<1>19. PICK f \in Int : /\ f = Fraction(text, side)
                       /\ Within(f, 10 * (value - W), 2 * E + 2)
  <2>1. PointAt(r) = NodePos(text) + 1
    BY <1>3, <1>4
  <2>2. \A i \in PointAt(r) + 1 .. Len(text) : r[i] = text[i]
    <3>1. \A i \in PointAt(r) + 1 .. Len(text) :
            i \in 1 .. Len(text) /\ i # PointAt(r)
      BY <1>3
    <3> QED
      BY <1>2, <3>1
  <2>3. /\ Fraction(text, side) \in Int
        /\ Within(Fraction(text, side), 10 * (s[Len(text)] - s[PointAt(r)]),
                  2 * Error(10 * Unit(text)) + 2)
    BY <1>2, <1>6, <2>1, <2>2, BehindPoint
  <2> QED
    BY <1>3, <1>6, <1>11, <1>14, <1>18, <2>3
<1>20. PICK t \in Int : /\ t = Tenth(f, side)
                       /\ Within(t, value - W, E + 1)
  <2>1. PICK z \in Int, b \in Nat : z = value - W /\ b = E + 1
    BY <1>15
  <2>2. f <= 10 * z + 2 * b /\ f >= 10 * z - 2 * b
    BY <1>19, <2>1 DEF Within
  <2>3. PICK t \in Int : /\ t = Tenth(f, side)
                        /\ t <= z + b + 1 - (b \div 2)
                        /\ t >= z - b - 1 + (b \div 2)
    BY <2>2, TenthIs
  <2>4. b \div 2 \in Nat /\ b \div 2 >= 1
    BY <1>18, <2>1
  <2>5. PICK h \in Nat : h = b \div 2 /\ h >= 1
    BY <2>4
  <2>6. t <= z + b /\ z <= t + b
    BY <2>3, <2>5
  <2> QED
    BY <2>1, <2>3, <2>6 DEF Within
<1>21. PICK o \in Nat : o = OffBehind(text) /\ o = E + 1
  BY <1>18 DEF OffBehind
<1>22. PICK x \in Int, y \in Nat :
         /\ x = W + t /\ y = value + o
         /\ x <= y /\ 0 - y <= x /\ Within(x, value, o)
  <2>1. value + o \in Nat /\ W + t \in Int
    BY <1>15
  <2>2. t <= (value - W) + o /\ value - W <= t + o
    BY <1>20, <1>21 DEF Within
  <2>3. W + t <= value + o /\ value <= (W + t) + o
    BY <1>15, <2>2
  <2>4. 0 - (value + o) <= W + t
    BY <1>15, <2>3
  <2> QED
    BY <2>1, <2>3, <2>4 DEF Within
<1>23. PICK v \in Int, w \in Int :
         v = Error(x) /\ w = Error(y) /\ 0 - w <= v /\ v <= w
  BY <1>22, ErrorWithin
<1>24. CharToFloat(text, side) = x + side * v
  BY <1>5, <1>14, <1>17, <1>19, <1>20, <1>22, <1>23 DEF CharToFloat
<1>25. Tolerance(text, value) = o + w
  BY <1>21, <1>22, <1>23 DEF Tolerance
<1>26. PICK q \in Int : q = side * v /\ 0 - w <= q /\ q <= w
  BY <1>23
<1>27. x + q <= value + (o + w) /\ value <= x + q + (o + w)
  BY <1>15, <1>22, <1>26 DEF Within
<1> QED
  BY <1>15, <1>24, <1>25, <1>26, <1>27 DEF Within

-----------------------------------------------------------------------------
(* Sizes.                                                                  *)

Field == [size : Nat, align : {1, 4}]

LEMMA RoundUpNat ==
  ASSUME NEW k \in Nat, NEW a \in {1, 4}
  PROVE  RoundUp(k, a) \in Nat
<1>1. CASE a = 1
  BY <1>1 DEF RoundUp
<1>2. CASE a = 4
  BY <1>2 DEF RoundUp
<1> QED
  BY <1>1, <1>2

(* Where the fields of a struct end, and what sizeof() makes of it.        *)
LEMMA SizeOfIs ==
  ASSUME NEW s \in Seq(Field)
  PROVE  \E e :
           /\ e[0] = 0
           /\ \A i \in 1 .. Len(s) :
                e[i] = RoundUp(e[i-1], s[i].align) + s[i].size
           /\ SizeOf(s) =
                RoundUp(e[Len(s)], Max({s[i].align : i \in DOMAIN s}))
<1>1. PICK n \in Nat : n = Len(s)
  OBVIOUS
<1>2. PICK F : F = [x \in (1 .. n) \X Nat |->
                      RoundUp(x[2], s[x[1]].align) + s[x[1]].size]
  OBVIOUS
<1>3. ASSUME NEW i \in 1 .. n, NEW k \in Nat
      PROVE  /\ F[<<i, k>>] = RoundUp(k, s[i].align) + s[i].size
             /\ F[<<i, k>>] \in Nat
  <2>1. s[i] \in Field
    BY <1>1
  <2>2. s[i].align \in {1, 4} /\ s[i].size \in Nat
    BY <2>1 DEF Field
  <2>3. RoundUp(k, s[i].align) \in Nat
    BY <2>2, RoundUpNat
  <2>4. F[<<i, k>>] = RoundUp(k, s[i].align) + s[i].size
    BY <1>2
  <2> QED
    BY <2>2, <2>3, <2>4
<1>4. Makes(F, n, Nat)
  BY <1>2, <1>3 DEF Makes
<1>5. PICK h : MadeBy(h, F, n, Nat, 0)
  BY <1>4, Recursion
<1> DEFINE Def(g) == [i \in 0 .. Len(s) |->
                        IF i = 0 THEN 0
                        ELSE RoundUp(g[i-1], s[i].align) + s[i].size]
<1>6. \A i \in 1 .. n : h[i] = RoundUp(h[i-1], s[i].align) + s[i].size
  <2> SUFFICES ASSUME NEW i \in 1 .. n
               PROVE  h[i] = RoundUp(h[i-1], s[i].align) + s[i].size
    OBVIOUS
  <2>1. i - 1 \in 0 .. n
    OBVIOUS
  <2>2. h[i-1] \in Nat
    BY <1>5, <2>1 DEF MadeBy
  <2> QED
    BY <1>3, <1>5, <2>2 DEF MadeBy
<1>7. \E g : g = Def(g)
  <2>1. PICK g : g = [i \in 0 .. n |-> h[i]]
    OBVIOUS
  <2>2. g = Def(g)
    BY <1>1, <1>5, <1>6, <2>1 DEF MadeBy
  <2> QED
    BY <2>2
<1>8. PICK e : e = CHOOSE g : g = Def(g)
  OBVIOUS
<1>9. e = Def(e)
  <2> HIDE DEF Def
  <2> QED
    BY <1>7, <1>8
<1>10. e[0] = 0
  BY <1>9
<1>11. \A i \in 1 .. Len(s) : e[i] = RoundUp(e[i-1], s[i].align) + s[i].size
  BY <1>9
<1>12. SizeOf(s) = RoundUp(e[Len(s)], Max({s[i].align : i \in DOMAIN s}))
  BY <1>8 DEF SizeOf
<1> QED
  BY <1>10, <1>11, <1>12

(* Where a field ends that comes behind k bytes.                          *)
Behind(k, f) == RoundUp(k, f.align) + f.size

LEMMA MaxIs ==
  Max({1}) = 1 /\ Max({4}) = 4 /\ Max({1, 4}) = 4
<1>1. ASSUME NEW S, NEW m \in S, S \subseteq Nat, \A y \in S : m >= y
      PROVE  Max(S) = m
  <2>1. PICK x : x = Max(S)
    OBVIOUS
  <2>2. x \in S /\ \A y \in S : x >= y
    BY <1>1, <2>1 DEF Max
  <2>3. x \in Nat /\ m \in Nat /\ x >= m /\ m >= x
    BY <1>1, <2>2
  <2> QED
    BY <2>1, <2>3
<1> QED
  BY <1>1

LEMMA SizeOf1 ==
  ASSUME NEW f1 \in Field
  PROVE  \E e : /\ e[0] = 0
               /\ e[1] = Behind(e[0], f1)
               /\ SizeOf(<<f1>>) =
                    RoundUp(e[1], Max({f1.align}))
<1>1. PICK s : s = <<f1>>
  OBVIOUS
<1>2. /\ s \in Seq(Field) /\ Len(s) = 1
      /\ s[1] = f1
  BY <1>1
<1>3. {s[i].align : i \in DOMAIN s} =
        {f1.align}
  BY <1>1
<1>4. PICK e :
         /\ e[0] = 0
         /\ \A i \in 1 .. Len(s) : e[i] = Behind(e[i-1], s[i])
         /\ SizeOf(s) = RoundUp(e[Len(s)], Max({s[i].align : i \in DOMAIN s}))
  BY <1>2, SizeOfIs DEF Behind
<1>5. /\ e[1] = Behind(e[0], s[1])
  BY <1>2, <1>4
<1> QED
  BY <1>1, <1>2, <1>3, <1>4, <1>5

LEMMA SizeOf2 ==
  ASSUME NEW f1 \in Field, NEW f2 \in Field
  PROVE  \E e : /\ e[0] = 0
               /\ e[1] = Behind(e[0], f1)
               /\ e[2] = Behind(e[1], f2)
               /\ SizeOf(<<f1, f2>>) =
                    RoundUp(e[2], Max({f1.align, f2.align}))
<1>1. PICK s : s = <<f1, f2>>
  OBVIOUS
<1>2. /\ s \in Seq(Field) /\ Len(s) = 2
      /\ s[1] = f1 /\ s[2] = f2
  BY <1>1
<1>3. {s[i].align : i \in DOMAIN s} =
        {f1.align, f2.align}
  BY <1>1
<1>4. PICK e :
         /\ e[0] = 0
         /\ \A i \in 1 .. Len(s) : e[i] = Behind(e[i-1], s[i])
         /\ SizeOf(s) = RoundUp(e[Len(s)], Max({s[i].align : i \in DOMAIN s}))
  BY <1>2, SizeOfIs DEF Behind
<1>5. /\ e[1] = Behind(e[0], s[1]) /\ e[2] = Behind(e[1], s[2])
  BY <1>2, <1>4
<1> QED
  BY <1>1, <1>2, <1>3, <1>4, <1>5

LEMMA SizeOf3 ==
  ASSUME NEW f1 \in Field, NEW f2 \in Field, NEW f3 \in Field
  PROVE  \E e : /\ e[0] = 0
               /\ e[1] = Behind(e[0], f1)
               /\ e[2] = Behind(e[1], f2)
               /\ e[3] = Behind(e[2], f3)
               /\ SizeOf(<<f1, f2, f3>>) =
                    RoundUp(e[3], Max({f1.align, f2.align, f3.align}))
<1>1. PICK s : s = <<f1, f2, f3>>
  OBVIOUS
<1>2. /\ s \in Seq(Field) /\ Len(s) = 3
      /\ s[1] = f1 /\ s[2] = f2 /\ s[3] = f3
  BY <1>1
<1>3. {s[i].align : i \in DOMAIN s} =
        {f1.align, f2.align, f3.align}
  BY <1>1
<1>4. PICK e :
         /\ e[0] = 0
         /\ \A i \in 1 .. Len(s) : e[i] = Behind(e[i-1], s[i])
         /\ SizeOf(s) = RoundUp(e[Len(s)], Max({s[i].align : i \in DOMAIN s}))
  BY <1>2, SizeOfIs DEF Behind
<1>5. /\ e[1] = Behind(e[0], s[1]) /\ e[2] = Behind(e[1], s[2])
      /\ e[3] = Behind(e[2], s[3])
  BY <1>2, <1>4
<1> QED
  BY <1>1, <1>2, <1>3, <1>4, <1>5

LEMMA FieldIs ==
  /\ Int4 \in Field /\ Int4.align = 4
  /\ \A n \in Nat : Chars(n) \in Field /\ Chars(n).align = 1
  /\ \A k \in Nat : Behind(k, Int4) = RoundUp(k, 4) + 4
  /\ \A k \in Nat, n \in Nat : Behind(k, Chars(n)) = k + n
  /\ \A k \in Nat : RoundUp(k, 1) = k
<1>1. \A k \in Nat : RoundUp(k, 1) = k
  BY DEF RoundUp
<1> QED
  BY <1>1 DEF Int4, Chars, Field, Behind

LEMMA RoundUpIs ==
  /\ RoundUp(0, 4) = 0 /\ RoundUp(4, 4) = 4 /\ RoundUp(8, 4) = 8
  /\ RoundUp(12, 4) = 12 /\ RoundUp(16, 4) = 16 /\ RoundUp(20, 4) = 20
  /\ RoundUp(24, 4) = 24 /\ RoundUp(32, 4) = 32 /\ RoundUp(33, 4) = 36
  /\ RoundUp(36, 4) = 36 /\ RoundUp(40, 4) = 40 /\ RoundUp(65, 4) = 68
BY DEF RoundUp

(* The sizes of the structs of public.h, field by field.                   *)
LEMMA SizesAre ==
  /\ SizeOf(<<Int4, Int4, Chars(25)>>) = 36
  /\ SizeOf(<<Chars(8), Chars(8), Int4, Chars(10), Chars(10)>>) = 40
  /\ SizeOf(<<Int4, Int4, Int4>>) = 12
  /\ SizeOf(<<Chars(14), Chars(10)>>) = 24
  /\ SizeOf(<<Chars(14)>>) = 14
  /\ SizeOf(<<Chars(14), Chars(7)>>) = 21
  /\ SizeOf(<<Chars(14), Chars(7), Chars(7)>>) = 28
  /\ SizeOf(<<Int4>>) = 4
  /\ SizeOf(<<Chars(10)>>) = 10
  /\ SizeOf(<<Int4, Int4>>) = 8
  /\ SizeOf(<<Int4, Int4, Int4, Int4, Int4, Int4>>) = 24
  /\ SizeOf(<<Int4, Chars(14), Chars(14), Int4,
              Int4, Int4, Chars(21)>>) = 68
<1>1. SizeOf(<<Int4, Int4, Chars(25)>>) = 36
  <2>1. PICK e :
           /\ e[0] = 0
           /\ e[1] = Behind(e[0], Int4)
           /\ e[2] = Behind(e[1], Int4)
           /\ e[3] = Behind(e[2], Chars(25))
           /\ SizeOf(<<Int4, Int4, Chars(25)>>) =
                RoundUp(e[3], Max({1, 4}))
    <3>1. {Int4.align, Int4.align, Chars(25).align}
            = {1, 4}
      BY FieldIs
    <3>2. Int4 \in Field /\ Chars(25) \in Field
      BY FieldIs
    <3> QED
      BY <3>1, <3>2, SizeOf3
  <2>2. /\ e[1] = 4
        /\ e[2] = 8
        /\ e[3] = 33
    BY <2>1, FieldIs, RoundUpIs
  <2> QED
    BY <2>1, <2>2, MaxIs, FieldIs, RoundUpIs
<1>2. SizeOf(<<Chars(8), Chars(8), Int4, Chars(10), Chars(10)>>) = 40
  <2>1. PICK s : s = <<Chars(8), Chars(8), Int4, Chars(10), Chars(10)>>
    OBVIOUS
  <2>2. s \in Seq(Field) /\ Len(s) = 5
    BY <2>1, FieldIs
  <2>3. /\ s[1] = Chars(8) /\ s[2] = Chars(8) /\ s[3] = Int4
        /\ s[4] = Chars(10) /\ s[5] = Chars(10)
    BY <2>1
  <2>4. {s[i].align : i \in DOMAIN s} = {1, 4}
    <3>1. DOMAIN s = {1, 2, 3, 4, 5}
      BY <2>2
    <3>2. /\ s[1].align = 1 /\ s[2].align = 1 /\ s[3].align = 4
          /\ s[4].align = 1 /\ s[5].align = 1
      BY <2>3, FieldIs
    <3> QED
      BY <3>1, <3>2
  <2>5. PICK e : /\ e[0] = 0
                 /\ \A i \in 1 .. Len(s) : e[i] = Behind(e[i-1], s[i])
                 /\ SizeOf(s) = RoundUp(e[Len(s)], Max({1, 4}))
    BY <2>2, <2>4, SizeOfIs DEF Behind
  <2>6. /\ e[1] = Behind(e[0], Chars(8))
        /\ e[2] = Behind(e[1], Chars(8))
        /\ e[3] = Behind(e[2], Int4)
        /\ e[4] = Behind(e[3], Chars(10))
        /\ e[5] = Behind(e[4], Chars(10))
        /\ e[0] = 0 /\ SizeOf(s) = RoundUp(e[5], Max({1, 4}))
    BY <2>2, <2>3, <2>5
  <2>7. /\ e[1] = 8
        /\ e[2] = 16
        /\ e[3] = 20
        /\ e[4] = 30
        /\ e[5] = 40
    BY <2>6, FieldIs, RoundUpIs
  <2> QED
    BY <2>1, <2>6, <2>7, MaxIs, FieldIs, RoundUpIs
<1>3. SizeOf(<<Int4, Int4, Int4>>) = 12
  <2>1. PICK e :
           /\ e[0] = 0
           /\ e[1] = Behind(e[0], Int4)
           /\ e[2] = Behind(e[1], Int4)
           /\ e[3] = Behind(e[2], Int4)
           /\ SizeOf(<<Int4, Int4, Int4>>) =
                RoundUp(e[3], Max({4}))
    <3>1. {Int4.align, Int4.align, Int4.align}
            = {4}
      BY FieldIs
    <3>2. Int4 \in Field
      BY FieldIs
    <3> QED
      BY <3>1, <3>2, SizeOf3
  <2>2. /\ e[1] = 4
        /\ e[2] = 8
        /\ e[3] = 12
    BY <2>1, FieldIs, RoundUpIs
  <2> QED
    BY <2>1, <2>2, MaxIs, FieldIs, RoundUpIs
<1>4. SizeOf(<<Chars(14), Chars(10)>>) = 24
  <2>1. PICK e :
           /\ e[0] = 0
           /\ e[1] = Behind(e[0], Chars(14))
           /\ e[2] = Behind(e[1], Chars(10))
           /\ SizeOf(<<Chars(14), Chars(10)>>) =
                RoundUp(e[2], Max({1}))
    <3>1. {Chars(14).align, Chars(10).align}
            = {1}
      BY FieldIs
    <3>2. Chars(14) \in Field /\ Chars(10) \in Field
      BY FieldIs
    <3> QED
      BY <3>1, <3>2, SizeOf2
  <2>2. /\ e[1] = 14
        /\ e[2] = 24
    BY <2>1, FieldIs, RoundUpIs
  <2> QED
    BY <2>1, <2>2, MaxIs, FieldIs, RoundUpIs
<1>5. SizeOf(<<Chars(14)>>) = 14
  <2>1. PICK e :
           /\ e[0] = 0
           /\ e[1] = Behind(e[0], Chars(14))
           /\ SizeOf(<<Chars(14)>>) =
                RoundUp(e[1], Max({1}))
    <3>1. {Chars(14).align}
            = {1}
      BY FieldIs
    <3>2. Chars(14) \in Field
      BY FieldIs
    <3> QED
      BY <3>1, <3>2, SizeOf1
  <2>2. e[1] = 14
    BY <2>1, FieldIs, RoundUpIs
  <2> QED
    BY <2>1, <2>2, MaxIs, FieldIs, RoundUpIs
<1>6. SizeOf(<<Chars(14), Chars(7)>>) = 21
  <2>1. PICK e :
           /\ e[0] = 0
           /\ e[1] = Behind(e[0], Chars(14))
           /\ e[2] = Behind(e[1], Chars(7))
           /\ SizeOf(<<Chars(14), Chars(7)>>) =
                RoundUp(e[2], Max({1}))
    <3>1. {Chars(14).align, Chars(7).align}
            = {1}
      BY FieldIs
    <3>2. Chars(7) \in Field /\ Chars(14) \in Field
      BY FieldIs
    <3> QED
      BY <3>1, <3>2, SizeOf2
  <2>2. /\ e[1] = 14
        /\ e[2] = 21
    BY <2>1, FieldIs, RoundUpIs
  <2> QED
    BY <2>1, <2>2, MaxIs, FieldIs, RoundUpIs
<1>7. SizeOf(<<Chars(14), Chars(7), Chars(7)>>) = 28
  <2>1. PICK e :
           /\ e[0] = 0
           /\ e[1] = Behind(e[0], Chars(14))
           /\ e[2] = Behind(e[1], Chars(7))
           /\ e[3] = Behind(e[2], Chars(7))
           /\ SizeOf(<<Chars(14), Chars(7), Chars(7)>>) =
                RoundUp(e[3], Max({1}))
    <3>1. {Chars(14).align, Chars(7).align, Chars(7).align}
            = {1}
      BY FieldIs
    <3>2. Chars(7) \in Field /\ Chars(14) \in Field
      BY FieldIs
    <3> QED
      BY <3>1, <3>2, SizeOf3
  <2>2. /\ e[1] = 14
        /\ e[2] = 21
        /\ e[3] = 28
    BY <2>1, FieldIs, RoundUpIs
  <2> QED
    BY <2>1, <2>2, MaxIs, FieldIs, RoundUpIs
<1>8. SizeOf(<<Int4>>) = 4
  <2>1. PICK e :
           /\ e[0] = 0
           /\ e[1] = Behind(e[0], Int4)
           /\ SizeOf(<<Int4>>) =
                RoundUp(e[1], Max({4}))
    <3>1. {Int4.align}
            = {4}
      BY FieldIs
    <3>2. Int4 \in Field
      BY FieldIs
    <3> QED
      BY <3>1, <3>2, SizeOf1
  <2>2. e[1] = 4
    BY <2>1, FieldIs, RoundUpIs
  <2> QED
    BY <2>1, <2>2, MaxIs, FieldIs, RoundUpIs
<1>9. SizeOf(<<Chars(10)>>) = 10
  <2>1. PICK e :
           /\ e[0] = 0
           /\ e[1] = Behind(e[0], Chars(10))
           /\ SizeOf(<<Chars(10)>>) =
                RoundUp(e[1], Max({1}))
    <3>1. {Chars(10).align}
            = {1}
      BY FieldIs
    <3>2. Chars(10) \in Field
      BY FieldIs
    <3> QED
      BY <3>1, <3>2, SizeOf1
  <2>2. e[1] = 10
    BY <2>1, FieldIs, RoundUpIs
  <2> QED
    BY <2>1, <2>2, MaxIs, FieldIs, RoundUpIs
<1>10. SizeOf(<<Int4, Int4>>) = 8
  <2>1. PICK e :
           /\ e[0] = 0
           /\ e[1] = Behind(e[0], Int4)
           /\ e[2] = Behind(e[1], Int4)
           /\ SizeOf(<<Int4, Int4>>) =
                RoundUp(e[2], Max({4}))
    <3>1. {Int4.align, Int4.align}
            = {4}
      BY FieldIs
    <3>2. Int4 \in Field
      BY FieldIs
    <3> QED
      BY <3>1, <3>2, SizeOf2
  <2>2. /\ e[1] = 4
        /\ e[2] = 8
    BY <2>1, FieldIs, RoundUpIs
  <2> QED
    BY <2>1, <2>2, MaxIs, FieldIs, RoundUpIs
<1>11. SizeOf(<<Int4, Int4, Int4, Int4, Int4, Int4>>) = 24
  <2>1. PICK s : s = <<Int4, Int4, Int4, Int4, Int4, Int4>>
    OBVIOUS
  <2>2. s \in Seq(Field) /\ Len(s) = 6
    BY <2>1, FieldIs
  <2>3. /\ s[1] = Int4 /\ s[2] = Int4 /\ s[3] = Int4
        /\ s[4] = Int4 /\ s[5] = Int4 /\ s[6] = Int4
    BY <2>1
  <2>4. {s[i].align : i \in DOMAIN s} = {4}
    <3>1. DOMAIN s = {1, 2, 3, 4, 5, 6}
      BY <2>2
    <3>2. /\ s[1].align = 4 /\ s[2].align = 4 /\ s[3].align = 4
          /\ s[4].align = 4 /\ s[5].align = 4 /\ s[6].align = 4
      BY <2>3, FieldIs
    <3> QED
      BY <3>1, <3>2
  <2>5. PICK e : /\ e[0] = 0
                 /\ \A i \in 1 .. Len(s) : e[i] = Behind(e[i-1], s[i])
                 /\ SizeOf(s) = RoundUp(e[Len(s)], Max({4}))
    BY <2>2, <2>4, SizeOfIs DEF Behind
  <2>6. /\ e[1] = Behind(e[0], Int4)
        /\ e[2] = Behind(e[1], Int4)
        /\ e[3] = Behind(e[2], Int4)
        /\ e[4] = Behind(e[3], Int4)
        /\ e[5] = Behind(e[4], Int4)
        /\ e[6] = Behind(e[5], Int4)
        /\ e[0] = 0 /\ SizeOf(s) = RoundUp(e[6], Max({4}))
    BY <2>2, <2>3, <2>5
  <2>7. /\ e[1] = 4
        /\ e[2] = 8
        /\ e[3] = 12
        /\ e[4] = 16
        /\ e[5] = 20
        /\ e[6] = 24
    BY <2>6, FieldIs, RoundUpIs
  <2> QED
    BY <2>1, <2>6, <2>7, MaxIs, FieldIs, RoundUpIs
<1>12. SizeOf(<<Int4, Chars(14), Chars(14), Int4,
               Int4, Int4, Chars(21)>>) = 68
  <2>1. PICK s : s = <<Int4, Chars(14), Chars(14), Int4, Int4, Int4, Chars(21)>>
    OBVIOUS
  <2>2. s \in Seq(Field) /\ Len(s) = 7
    BY <2>1, FieldIs
  <2>3. /\ s[1] = Int4 /\ s[2] = Chars(14) /\ s[3] = Chars(14)
        /\ s[4] = Int4 /\ s[5] = Int4 /\ s[6] = Int4
        /\ s[7] = Chars(21)
    BY <2>1
  <2>4. {s[i].align : i \in DOMAIN s} = {1, 4}
    <3>1. DOMAIN s = {1, 2, 3, 4, 5, 6, 7}
      BY <2>2
    <3>2. /\ s[1].align = 4 /\ s[2].align = 1 /\ s[3].align = 1
          /\ s[4].align = 4 /\ s[5].align = 4 /\ s[6].align = 4
          /\ s[7].align = 1
      BY <2>3, FieldIs
    <3> QED
      BY <3>1, <3>2
  <2>5. PICK e : /\ e[0] = 0
                 /\ \A i \in 1 .. Len(s) : e[i] = Behind(e[i-1], s[i])
                 /\ SizeOf(s) = RoundUp(e[Len(s)], Max({1, 4}))
    BY <2>2, <2>4, SizeOfIs DEF Behind
  <2>6. /\ e[1] = Behind(e[0], Int4)
        /\ e[2] = Behind(e[1], Chars(14))
        /\ e[3] = Behind(e[2], Chars(14))
        /\ e[4] = Behind(e[3], Int4)
        /\ e[5] = Behind(e[4], Int4)
        /\ e[6] = Behind(e[5], Int4)
        /\ e[7] = Behind(e[6], Chars(21))
        /\ e[0] = 0 /\ SizeOf(s) = RoundUp(e[7], Max({1, 4}))
    BY <2>2, <2>3, <2>5
  <2>7. /\ e[1] = 4
        /\ e[2] = 18
        /\ e[3] = 32
        /\ e[4] = 36
        /\ e[5] = 40
        /\ e[6] = 44
        /\ e[7] = 65
    BY <2>6, FieldIs, RoundUpIs
  <2> QED
    BY <2>1, <2>6, <2>7, MaxIs, FieldIs, RoundUpIs
<1> QED
  BY <1>1, <1>2, <1>3, <1>4, <1>5, <1>6, <1>7, <1>8, <1>9, <1>10, <1>11, <1>12

LEMMA KindsAre ==
  /\ Requests = {"login", "buycard", "cell", "balance", "bill", "list"}
  /\ DOMAIN Answers =
       {"login", "ask", "confirm", "cell", "balance", "bill", "list"}
BY DEF Requests, Bodies, Answers

(* Of a packet: the head, a body of up to 40 bytes, and both in m_buf.     *)
LEMMA PacketIs ==
  /\ HeadSize = 36
  /\ \A kind \in Requests : BodySize(kind) \in 3 .. 40
  /\ \A kind : kind \notin Requests => BodySize(kind) = 0
  /\ \A kind : /\ BodySize(kind) \in 0 .. 40
               /\ PacketSize(kind) \in Nat /\ PacketSize(kind) \in 36 .. 76
               /\ PacketSize(kind) = 36 + BodySize(kind)
<1>1. HeadSize = 36
  BY SizesAre DEF HeadSize
<1>2. /\ Bodies["login"] =
           <<Chars(8), Chars(8), Int4, Chars(10), Chars(10)>>
      /\ Bodies["buycard"] = <<Int4, Int4, Int4>>
      /\ Bodies["cell"] = <<Chars(14), Chars(10)>>
      /\ Bodies["balance"] = <<Chars(14)>>
      /\ Bodies["bill"] = <<Chars(14), Chars(7)>>
      /\ Bodies["list"] = <<Chars(14), Chars(7), Chars(7)>>
  BY DEF Bodies
<1>3. ASSUME NEW kind \in Requests PROVE BodySize(kind) \in 3 .. 40
  <2>1. BodySize(kind) = SizeOf(Bodies[kind])
    BY DEF BodySize
  <2>2. /\ SizeOf(Bodies["login"]) = 40
        /\ SizeOf(Bodies["buycard"]) = 12
        /\ SizeOf(Bodies["cell"]) = 24
    BY <1>2, SizesAre
  <2>3. /\ SizeOf(Bodies["balance"]) = 14
        /\ SizeOf(Bodies["bill"]) = 21
        /\ SizeOf(Bodies["list"]) = 28
    BY <1>2, SizesAre
  <2>4. SizeOf(Bodies[kind]) \in {40, 12, 24, 14, 21, 28}
    BY <2>2, <2>3, KindsAre
  <2> QED
    BY <2>1, <2>4
<1>4. \A kind : kind \notin Requests => BodySize(kind) = 0
  BY DEF BodySize
<1>5. ASSUME NEW kind
      PROVE  /\ BodySize(kind) \in 0 .. 40
             /\ PacketSize(kind) \in Nat /\ PacketSize(kind) \in 36 .. 76
             /\ PacketSize(kind) = 36 + BodySize(kind)
  BY <1>1, <1>3, <1>4 DEF PacketSize
<1> QED
  BY <1>1, <1>3, <1>4, <1>5

(* The structs behind the head of a reply.                                 *)
LEMMA AnswerIs ==
  /\ \A kind \in DOMAIN Answers : SizeOf(Answers[kind]) \in 4 .. 68
  /\ \A kind \in {"login", "ask", "cell", "balance", "bill"} :
       SizeOf(Answers[kind]) <= 24
  /\ SizeOf(Answers["confirm"]) = 10
  /\ SizeOf(Answers["list"]) = 68
<1>1. /\ Answers["login"] = <<Int4>>
      /\ Answers["ask"] = <<Int4>>
      /\ Answers["confirm"] = <<Chars(10)>>
      /\ Answers["cell"] = <<Int4>>
      /\ Answers["balance"] = <<Int4, Int4>>
      /\ Answers["bill"] = <<Int4, Int4, Int4, Int4, Int4, Int4>>
      /\ Answers["list"] =
           <<Int4, Chars(14), Chars(14), Int4, Int4, Int4, Chars(21)>>
  BY DEF Answers
<1>2. /\ SizeOf(Answers["login"]) = 4
      /\ SizeOf(Answers["ask"]) = 4
      /\ SizeOf(Answers["cell"]) = 4
      /\ SizeOf(Answers["confirm"]) = 10
  BY <1>1, SizesAre
<1>3. /\ SizeOf(Answers["balance"]) = 8
      /\ SizeOf(Answers["bill"]) = 24
      /\ SizeOf(Answers["list"]) = 68
  BY <1>1, SizesAre
<1> HIDE DEF Answers
<1> QED
  BY <1>2, <1>3, KindsAre

-----------------------------------------------------------------------------
(* Where packets end.                                                      *)
LEMMA EndIsEndIn ==
  ASSUME NEW i
  PROVE  End(i) = EndIn(sent, i)
BY DEF End, EndIn

LEMMA EndInIs ==
  ASSUME NEW s \in Seq(Kinds)
  PROVE  /\ EndIn(s, 0) = 0
         /\ \A i \in 0 .. Len(s) : EndIn(s, i) \in Nat
         /\ \A i \in 1 .. Len(s) :
              EndIn(s, i) = EndIn(s, i-1) + PacketSize(s[i])
<1>1. PICK n \in Nat : n = Len(s)
  OBVIOUS
<1>2. PICK F : F = [x \in (1 .. n) \X Nat |-> x[2] + PacketSize(s[x[1]])]
  OBVIOUS
<1>3. \A i \in 1 .. n, k \in Nat :
        /\ F[<<i, k>>] = k + PacketSize(s[i])
        /\ k + PacketSize(s[i]) \in Nat
  <2> SUFFICES ASSUME NEW i \in 1 .. n, NEW k \in Nat
               PROVE  /\ F[<<i, k>>] = k + PacketSize(s[i])
                      /\ k + PacketSize(s[i]) \in Nat
    OBVIOUS
  <2>1. PacketSize(s[i]) \in Nat
    BY PacketIs
  <2> QED
    BY <1>2, <2>1
<1>4. Makes(F, n, Nat)
  BY <1>2, <1>3 DEF Makes
<1>5. PICK h : MadeBy(h, F, n, Nat, 0)
  BY <1>4, Recursion
<1>6. \A i \in 1 .. n : h[i] = h[i-1] + PacketSize(s[i])
  <2> SUFFICES ASSUME NEW i \in 1 .. n
               PROVE  h[i] = h[i-1] + PacketSize(s[i])
    OBVIOUS
  <2>1. i - 1 \in 0 .. n
    OBVIOUS
  <2>2. h[i-1] \in Nat /\ h[i] = F[<<i, h[i-1]>>]
    BY <1>5, <2>1 DEF MadeBy
  <2> QED
    BY <1>3, <2>2
<1>7. ASSUME NEW i \in 0 .. n PROVE EndIn(s, i) = h[i]
  <2> DEFINE Def(g) == [j \in 0 .. i |->
                          IF j = 0 THEN 0 ELSE g[j-1] + PacketSize(s[j])]
  <2>1. PICK g : g = [j \in 0 .. i |-> h[j]]
    OBVIOUS
  <2>2. g = Def(g)
    BY <1>5, <1>6, <2>1 DEF MadeBy
  <2>3. PICK e : e = CHOOSE f : f = Def(f)
    OBVIOUS
  <2>4. e = Def(e)
    <3> HIDE DEF Def
    <3> QED
      BY <2>2, <2>3
  <2>5. EndIn(s, i) = e[i]
    BY <2>3 DEF EndIn
  <2>6. Follows(e, F, i, Nat, 0)
    BY <1>3, <2>4 DEF Follows
  <2>7. MadeBy(h, F, i, Nat, 0)
    BY <1>5 DEF MadeBy
  <2>8. e[i] = h[i]
    BY <2>6, <2>7, OneFunction
  <2> QED
    BY <2>5, <2>8
<1>8. EndIn(s, 0) = 0
  BY <1>5, <1>7 DEF MadeBy
<1>9. \A i \in 0 .. n : EndIn(s, i) \in Nat
  BY <1>5, <1>7 DEF MadeBy
<1>10. ASSUME NEW i \in 1 .. n
       PROVE  EndIn(s, i) = EndIn(s, i-1) + PacketSize(s[i])
  BY <1>6, <1>7
<1> QED
  BY <1>1, <1>8, <1>9, <1>10

(* A later packet ends later, by the bytes of the packets between.         *)
LEMMA EndsGrow ==
  ASSUME NEW s \in Seq(Kinds), NEW i \in 1 .. Len(s)
  PROVE  \A j \in i .. Len(s) :
           /\ EndIn(s, i-1) + PacketSize(s[i]) <= EndIn(s, j)
           /\ EndIn(s, i-1) < EndIn(s, j)
<1> DEFINE T == {j \in i .. Len(s) :
                   ~ EndIn(s, i-1) + PacketSize(s[i]) <= EndIn(s, j)}
<1>1. T \subseteq Nat
  OBVIOUS
<1>2. PacketSize(s[i]) \in 36 .. 76 /\ EndIn(s, i-1) \in Nat
  BY EndInIs, PacketIs
<1>3. T = {}
  <2> SUFFICES ASSUME T # {} PROVE FALSE
    OBVIOUS
  <2>1. PICK m \in T : \A y \in T : m <= y
    <3> HIDE DEF T
    <3> QED
      BY <1>1, LeastNat
  <2>2. m # i
    BY <1>2, <2>1, EndInIs
  <2>3. m - 1 \in i .. Len(s) /\ ~ m <= m - 1 /\ m \in 1 .. Len(s)
    BY <2>1, <2>2
  <2>4. EndIn(s, i-1) + PacketSize(s[i]) <= EndIn(s, m-1)
    BY <2>1, <2>3
  <2>5. /\ EndIn(s, m) = EndIn(s, m-1) + PacketSize(s[m])
        /\ EndIn(s, m-1) \in Nat
    <3>1. m - 1 \in 0 .. Len(s)
      BY <2>3
    <3> QED
      BY <2>3, <3>1, EndInIs
  <2>6. EndIn(s, i-1) + PacketSize(s[i]) <= EndIn(s, m)
    <3>1. ASSUME NEW a \in Nat, NEW b \in Nat, NEW c \in Nat,
                 NEW d \in Nat, a + b <= c
          PROVE  a + b <= c + d
      BY <3>1
    <3>2. PacketSize(s[i]) \in Nat /\ PacketSize(s[m]) \in Nat
      BY PacketIs
    <3> HIDE DEF T
    <3> QED
      BY <1>2, <2>4, <2>5, <3>1, <3>2
  <2> QED
    BY <2>1, <2>6
<1>4. ASSUME NEW j \in i .. Len(s)
      PROVE  /\ EndIn(s, i-1) + PacketSize(s[i]) <= EndIn(s, j)
             /\ EndIn(s, i-1) < EndIn(s, j)
  <2>1. EndIn(s, i-1) + PacketSize(s[i]) <= EndIn(s, j)
    BY <1>3
  <2>2. EndIn(s, j) \in Nat
    BY EndInIs
  <2>3. ASSUME NEW a \in Nat, NEW b \in Nat, NEW c \in 36 .. 76, a + c <= b
        PROVE  a < b
    BY <2>3
  <2> HIDE DEF T
  <2> QED
    BY <1>2, <2>1, <2>2, <2>3
<1> QED
  BY <1>4

LEMMA EndsIncrease ==
  ASSUME NEW s \in Seq(Kinds),
         NEW i \in 0 .. Len(s), NEW j \in 0 .. Len(s), i < j
  PROVE  EndIn(s, i) < EndIn(s, j)
<1>1. i + 1 \in 1 .. Len(s) /\ j \in i + 1 .. Len(s) /\ (i + 1) - 1 = i
  OBVIOUS
<1> QED
  BY <1>1, EndsGrow

(* A packet sent behind the others leaves their ends where they are.       *)
LEMMA EndsStay ==
  ASSUME NEW s \in Seq(Kinds), NEW kind \in Kinds
  PROVE  \A i \in 0 .. Len(s) : EndIn(Append(s, kind), i) = EndIn(s, i)
<1>1. PICK t : t = Append(s, kind) /\ t \in Seq(Kinds)
  <2>1. Append(s, kind) \in Seq(Kinds)
    OBVIOUS
  <2> QED
    BY <2>1
<1>2. Len(t) = Len(s) + 1 /\ \A i \in 1 .. Len(s) : t[i] = s[i]
  BY <1>1
<1>3. PICK f : f = [i \in 0 .. Len(s) |-> EndIn(s, i)]
  OBVIOUS
<1>4. PICK g : g = [i \in 0 .. Len(s) |-> EndIn(t, i)]
  OBVIOUS
<1>5. ASSUME NEW i \in 0 + 1 .. Len(s), f[i-1] = g[i-1] PROVE f[i] = g[i]
  <2>1. i - 1 \in 0 .. Len(s) /\ i \in 1 .. Len(s) /\ i \in 1 .. Len(t)
    BY <1>2
  <2>2. EndIn(s, i) = EndIn(s, i-1) + PacketSize(s[i])
    BY <2>1, EndInIs
  <2>3. EndIn(t, i) = EndIn(t, i-1) + PacketSize(t[i])
    BY <1>1, <2>1, EndInIs
  <2> QED
    BY <1>2, <1>3, <1>4, <1>5, <2>1, <2>2, <2>3
<1>6. KeepAgreeing(f, g, 0, Len(s))
  <2>1. f[0] = 0 /\ g[0] = 0
    BY <1>1, <1>3, <1>4, EndInIs
  <2> QED
    BY <1>5, <2>1 DEF KeepAgreeing
<1>7. \A i \in 0 .. Len(s) : f[i] = g[i]
  BY <1>6, Agreeing
<1> QED
  BY <1>1, <1>3, <1>4, <1>7

-----------------------------------------------------------------------------
(* The tasks.  RequestsRead of the packets s, when t bytes have been read. *)
Task == [from : Nat, kind : Requests]
TaskAt(s, i) == [from |-> EndIn(s, i-1), kind |-> s[i]]
ReadIn(s, t) ==
  LET read[i \in 0 .. Len(s)] ==
        IF i = 0 THEN <<>>
        ELSE IF s[i] \in Requests /\ EndIn(s, i) <= t
          THEN Append(read[i-1], [from |-> EndIn(s, i-1), kind |-> s[i]])
          ELSE read[i-1]
  IN  read[Len(s)]

LEMMA RequestsReadIs == RequestsRead = ReadIn(sent, taken)
BY DEF RequestsRead, ReadIn, End, EndIn

(* r holds what has been read of the first packets.                        *)
Reads(r, s, t) ==
  /\ r[0] = <<>> /\ r[Len(s)] = ReadIn(s, t)
  /\ \A i \in 1 .. Len(s) :
       r[i] = IF s[i] \in Requests /\ EndIn(s, i) <= t
                THEN Append(r[i-1], TaskAt(s, i)) ELSE r[i-1]

LEMMA ReadInIs ==
  ASSUME NEW s \in Seq(Kinds), NEW t \in Nat
  PROVE  \E r : Reads(r, s, t)
<1>1. PICK n \in Nat : n = Len(s)
  OBVIOUS
<1> DEFINE Step(i, q) == IF s[i] \in Requests /\ EndIn(s, i) <= t
                           THEN Append(q, TaskAt(s, i)) ELSE q
<1>2. PICK F : F = [x \in (1 .. n) \X Seq(Task) |-> Step(x[1], x[2])]
  OBVIOUS
<1>3. ASSUME NEW i \in 1 .. n, NEW q \in Seq(Task)
      PROVE  F[<<i, q>>] = Step(i, q) /\ Step(i, q) \in Seq(Task)
  <2>1. F[<<i, q>>] = Step(i, q)
    BY <1>2
  <2>2. CASE s[i] \in Requests
    <3>1. EndIn(s, i-1) \in Nat
      <4>1. i - 1 \in 0 .. Len(s)
        BY <1>1
      <4> QED
        BY <4>1, EndInIs
    <3>2. TaskAt(s, i) \in Task
      BY <2>2, <3>1 DEF TaskAt, Task
    <3> QED
      BY <2>1, <3>2
  <2> QED
    BY <2>1, <2>2
<1>4. Makes(F, n, Seq(Task))
  <2> HIDE DEF Step
  <2> QED
    BY <1>2, <1>3 DEF Makes
<1>5. <<>> \in Seq(Task)
  OBVIOUS
<1>6. PICK h : MadeBy(h, F, n, Seq(Task), <<>>)
  BY <1>4, <1>5, Recursion
<1>7. \A i \in 1 .. n : h[i] = Step(i, h[i-1])
  <2> SUFFICES ASSUME NEW i \in 1 .. n PROVE h[i] = Step(i, h[i-1])
    OBVIOUS
  <2>1. i - 1 \in 0 .. n
    OBVIOUS
  <2>2. h[i-1] \in Seq(Task) /\ h[i] = F[<<i, h[i-1]>>]
    BY <1>6, <2>1 DEF MadeBy
  <2> HIDE DEF Step
  <2> QED
    BY <1>3, <2>2
<1> DEFINE Def(g) == [i \in 0 .. Len(s) |->
                        IF i = 0 THEN <<>>
                        ELSE IF s[i] \in Requests /\ EndIn(s, i) <= t
                          THEN Append(g[i-1], [from |-> EndIn(s, i-1),
                                               kind |-> s[i]])
                          ELSE g[i-1]]
<1>8. \E g : g = Def(g)
  <2>1. PICK g : g = [i \in 0 .. n |-> h[i]]
    OBVIOUS
  <2>2. h[0] = <<>>
    BY <1>6 DEF MadeBy
  <2>3. \A i \in 1 .. n : i - 1 \in 0 .. n /\ i # 0
    BY <1>1
  <2>4. ASSUME NEW i \in 0 .. n
        PROVE  g[i] = IF i = 0 THEN <<>>
                      ELSE IF s[i] \in Requests /\ EndIn(s, i) <= t
                        THEN Append(g[i-1], [from |-> EndIn(s, i-1),
                                             kind |-> s[i]])
                        ELSE g[i-1]
    <3>1. CASE i = 0
      BY <2>1, <2>2, <3>1
    <3>2. CASE i # 0
      <4>1. i \in 1 .. n
        BY <3>2
      <4>2. g[i] = h[i] /\ g[i-1] = h[i-1]
        BY <2>1, <2>3, <4>1
      <4> QED
        BY <1>7, <3>2, <4>1, <4>2 DEF TaskAt
    <3> QED
      BY <3>1, <3>2
  <2>5. g = [i \in 0 .. n |-> g[i]]
    BY <2>1
  <2>6. g = Def(g)
    BY <1>1, <2>4, <2>5
  <2> QED
    BY <2>6
<1>9. PICK r : r = CHOOSE g : g = Def(g)
  OBVIOUS
<1>10. r = Def(r)
  <2> HIDE DEF Def
  <2> QED
    BY <1>8, <1>9
<1>11. ReadIn(s, t) = r[Len(s)]
  BY <1>9 DEF ReadIn
<1>12. r[0] = <<>>
  BY <1>10
<1>13. ASSUME NEW i \in 1 .. Len(s) PROVE r[i] = Step(i, r[i-1])
  <2>1. i \in 0 .. Len(s) /\ i # 0
    OBVIOUS
  <2>2. Def(r)[i] = Step(i, r[i-1])
    BY <2>1 DEF TaskAt
  <2> HIDE DEF Def, Step
  <2> QED
    BY <1>10, <2>2
<1> QED
  BY <1>11, <1>12, <1>13 DEF Reads

(* Reading on to no request's last byte makes no task.                     *)
LEMMA ReadsNoMore ==
  ASSUME NEW s \in Seq(Kinds), NEW t \in Nat, NEW u \in Nat,
         \A i \in 1 .. Len(s) : s[i] \in Requests =>
           (EndIn(s, i) <= t <=> EndIn(s, i) <= u)
  PROVE  ReadIn(s, u) = ReadIn(s, t)
<1>1. PICK q : Reads(q, s, t)
  BY ReadInIs
<1>2. PICK r : Reads(r, s, u)
  BY ReadInIs
<1>3. KeepAgreeing(q, r, 0, Len(s))
  BY <1>1, <1>2 DEF KeepAgreeing, Reads
<1>4. q[Len(s)] = r[Len(s)]
  BY <1>3, Agreeing
<1> QED
  BY <1>1, <1>2, <1>4 DEF Reads

(* Nor does a packet that is sent behind what has been read.               *)
LEMMA ReadsNoneSent ==
  ASSUME NEW s \in Seq(Kinds), NEW kind \in Kinds, NEW t \in Nat,
         t <= EndIn(s, Len(s))
  PROVE  ReadIn(Append(s, kind), t) = ReadIn(s, t)
<1>1. PICK z : z = Append(s, kind) /\ z \in Seq(Kinds)
  <2>1. Append(s, kind) \in Seq(Kinds)
    OBVIOUS
  <2> QED
    BY <2>1
<1>2. Len(z) = Len(s) + 1 /\ \A i \in 1 .. Len(s) : z[i] = s[i]
  BY <1>1
<1>3. PICK q : Reads(q, s, t)
  BY ReadInIs
<1>4. PICK r : Reads(r, z, t)
  BY <1>1, ReadInIs
<1>5. \A i \in 0 .. Len(s) : EndIn(z, i) = EndIn(s, i)
  BY <1>1, EndsStay
<1>6. ASSUME NEW i \in 0 + 1 .. Len(s), q[i-1] = r[i-1] PROVE q[i] = r[i]
  <2>1. i \in 1 .. Len(s) /\ i \in 1 .. Len(z) /\ i - 1 \in 0 .. Len(s)
    BY <1>2
  <2>2. z[i] = s[i] /\ EndIn(z, i) = EndIn(s, i) /\ TaskAt(z, i) = TaskAt(s, i)
    BY <1>2, <1>5, <2>1 DEF TaskAt
  <2> QED
    BY <1>3, <1>4, <1>6, <2>1, <2>2 DEF Reads
<1>7. KeepAgreeing(q, r, 0, Len(s))
  BY <1>3, <1>4, <1>6 DEF KeepAgreeing, Reads
<1>8. q[Len(s)] = r[Len(s)]
  BY <1>7, Agreeing
<1>9. ~ EndIn(z, Len(z)) <= t
  <2>1. /\ EndIn(z, Len(z)) = EndIn(s, Len(s)) + PacketSize(z[Len(z)])
        /\ EndIn(s, Len(s)) \in Nat
    <3>1. /\ Len(z) \in 1 .. Len(z) /\ Len(z) - 1 = Len(s)
          /\ Len(s) \in 0 .. Len(s)
      BY <1>2
    <3>2. EndIn(z, Len(z)) = EndIn(z, Len(z) - 1) + PacketSize(z[Len(z)])
      BY <1>1, <3>1, EndInIs
    <3>3. EndIn(s, Len(s)) \in Nat
      BY <3>1, EndInIs
    <3> QED
      BY <1>5, <3>1, <3>2, <3>3
  <2>2. PacketSize(z[Len(z)]) \in 36 .. 76
    BY PacketIs
  <2>3. ASSUME NEW a \in Nat, NEW b \in 36 .. 76, t <= a PROVE ~ a + b <= t
    BY <2>3
  <2> QED
    BY <2>1, <2>2, <2>3
<1>10. r[Len(z)] = r[Len(s)]
  <2>1. Len(z) \in 1 .. Len(z) /\ Len(z) - 1 = Len(s)
    BY <1>2
  <2> QED
    BY <1>4, <1>9, <2>1 DEF Reads
<1> QED
  BY <1>1, <1>3, <1>4, <1>8, <1>10 DEF Reads

(* Reading a request to its last byte makes one task.                      *)
LEMMA ReadsOneMore ==
  ASSUME NEW s \in Seq(Kinds), NEW t \in Nat, NEW k \in 1 .. Len(s),
         s[k] \in Requests, EndIn(s, k-1) <= t, t < EndIn(s, k)
  PROVE  ReadIn(s, EndIn(s, k)) = Append(ReadIn(s, t), TaskAt(s, k))
<1>1. PICK u \in Nat : u = EndIn(s, k)
  BY EndInIs
<1>2. PICK q : Reads(q, s, t)
  BY ReadInIs
<1>3. PICK r : Reads(r, s, u)
  BY ReadInIs
<1>4. ASSUME NEW i \in 1 .. Len(s), i < k
      PROVE  EndIn(s, i) <= t /\ EndIn(s, i) <= u
  <2>1. EndIn(s, i) <= EndIn(s, k-1)
    <3>1. CASE i = k - 1
      <4>1. EndIn(s, i) = EndIn(s, k-1)
        BY <3>1
      <4>2. EndIn(s, i) \in Nat
        BY EndInIs
      <4> QED
        BY <4>1, <4>2
    <3>2. CASE i # k - 1
      <4>1. i + 1 \in 1 .. Len(s) /\ k - 1 \in i + 1 .. Len(s)
        BY <1>4, <3>2
      <4>2. i = (i + 1) - 1
        OBVIOUS
      <4>3. EndIn(s, i) < EndIn(s, k-1)
        BY <4>1, <4>2, EndsGrow
      <4>4. EndIn(s, i) \in Nat /\ EndIn(s, k-1) \in Nat
        BY <4>1, EndInIs
      <4> QED
        BY <4>3, <4>4
    <3> QED
      BY <3>1, <3>2
  <2>2. EndIn(s, i) \in Nat /\ EndIn(s, k-1) \in Nat /\ EndIn(s, k) \in Nat
    BY EndInIs
  <2> QED
    BY <1>1, <2>1, <2>2
<1>5. ASSUME NEW i \in 1 .. Len(s), k < i
      PROVE  ~ EndIn(s, i) <= t /\ ~ EndIn(s, i) <= u
  <2>1. k + 1 \in 1 .. Len(s) /\ i \in k + 1 .. Len(s) /\ (k + 1) - 1 = k
    BY <1>5
  <2>2. EndIn(s, k) < EndIn(s, i)
    BY <2>1, EndsGrow
  <2>3. EndIn(s, i) \in Nat /\ EndIn(s, k) \in Nat
    BY EndInIs
  <2> QED
    BY <1>1, <2>2, <2>3
<1>6. q[k-1] = r[k-1]
  <2>1. \A i \in 0 + 1 .. k - 1 : q[i-1] = r[i-1] => q[i] = r[i]
    BY <1>2, <1>3, <1>4 DEF Reads
  <2>2. KeepAgreeing(q, r, 0, k - 1)
    BY <1>2, <1>3, <2>1 DEF KeepAgreeing, Reads
  <2> QED
    BY <2>2, Agreeing
<1>7. q[k] = q[k-1] /\ r[k] = Append(r[k-1], TaskAt(s, k))
  <2>1. EndIn(s, k) \in Nat /\ ~ EndIn(s, k) <= t /\ EndIn(s, k) <= u
    BY <1>1
  <2> QED
    BY <1>2, <1>3, <2>1 DEF Reads
<1>8. q[Len(s)] = q[k] /\ r[Len(s)] = r[k]
  <2>1. PICK c, d : /\ c = [i \in k .. Len(s) |-> q[k]]
                    /\ d = [i \in k .. Len(s) |-> r[k]]
    OBVIOUS
  <2>2. \A i \in k + 1 .. Len(s) : q[i] = q[i-1] /\ r[i] = r[i-1]
    BY <1>2, <1>3, <1>5 DEF Reads
  <2>3. KeepAgreeing(q, c, k, Len(s)) /\ KeepAgreeing(r, d, k, Len(s))
    BY <2>1, <2>2 DEF KeepAgreeing
  <2>4. q[Len(s)] = c[Len(s)] /\ r[Len(s)] = d[Len(s)]
    BY <2>3, Agreeing
  <2> QED
    BY <2>1, <2>4
<1> QED
  BY <1>1, <1>2, <1>3, <1>6, <1>7, <1>8 DEF Reads

(* Of a stream nothing has been read of there are no tasks.                *)
LEMMA ReadsNone ==
  ASSUME NEW s \in Seq(Kinds)
  PROVE  ReadIn(s, 0) = <<>>
<1>1. PICK r : Reads(r, s, 0)
  BY ReadInIs
<1>2. ASSUME NEW i \in 1 .. Len(s) PROVE ~ EndIn(s, i) <= 0
  <2>1. EndIn(s, i-1) < EndIn(s, i)
    BY EndsGrow
  <2>2. EndIn(s, i) \in Nat /\ EndIn(s, i-1) \in Nat
    BY EndInIs
  <2> QED
    BY <2>1, <2>2
<1>3. PICK c : c = [i \in 0 .. Len(s) |-> <<>>]
  OBVIOUS
<1>4. KeepAgreeing(r, c, 0, Len(s))
  BY <1>1, <1>2, <1>3 DEF KeepAgreeing, Reads
<1>5. r[Len(s)] = c[Len(s)]
  BY <1>4, Agreeing
<1> QED
  BY <1>1, <1>3, <1>5 DEF Reads

-----------------------------------------------------------------------------
(* What read() returns, and what replies are made of.                      *)
LEMMA GotIs ==
  ASSUME NEW size \in Nat, arrived \in Nat, taken \in Nat, arrived > taken
  PROVE  /\ Got(size) \in Nat /\ Got(size) <= size
         /\ Got(size) <= arrived - taken
<1>1. PICK a \in Nat : a = arrived - taken
  OBVIOUS
<1>2. PICK x : x = Min({size, a})
  OBVIOUS
<1>3. \E m \in {size, a} : \A y \in {size, a} : m <= y
  BY <1>1
<1>4. x \in {size, a} /\ \A y \in {size, a} : x <= y
  BY <1>2, <1>3 DEF Min
<1>5. Got(size) = x
  BY <1>1, <1>2 DEF Got
<1> QED
  BY <1>1, <1>4, <1>5

LEMMA RepliesAre ==
  ASSUME NEW number, NEW p \in RepliesMade(number)
  PROVE  /\ p.kind \in DOMAIN Answers /\ p.rows \in Nat
         /\ number = 1 \/ p.kind \in {"confirm", "bill", "list"} =>
              p.number = p.rows
         /\ p.length = HeadSize + p.rows * SizeOf(Answers[p.kind])
         /\ p.kind \in {"confirm", "list"} \/ p.rows = 1
<1>1. PICK kind \in Requests : p \in RepliesTo(kind, number)
  BY DEF RepliesMade
<1>2. CASE kind = "buycard"
  BY <1>1, <1>2, KindsAre, WireAssumption
     DEF RepliesTo, Reply, WireAssumption
<1>3. CASE kind = "list"
  BY <1>1, <1>3, KindsAre, WireAssumption
     DEF RepliesTo, ListReply, Reply, WireAssumption
<1>4. CASE kind = "bill"
  BY <1>1, <1>4, KindsAre DEF RepliesTo, Reply
<1>5. CASE kind \in {"login", "cell", "balance"}
  BY <1>1, <1>5, KindsAre DEF RepliesTo, Reply
<1> QED
  BY <1>1, <1>2, <1>3, <1>4, <1>5, KindsAre

LEMMA TasksStay ==
  ASSUME NEW a \in Nat, NEW b \in Nat, a <= b,
         NEW q \in Seq([from : 0 .. a, kind : Requests])
  PROVE  q \in Seq([from : 0 .. b, kind : Requests])
<1>1. PICK A : A = [from : 0 .. a, kind : Requests]
  OBVIOUS
<1>2. PICK B : B = [from : 0 .. b, kind : Requests]
  OBVIOUS
<1>3. A \subseteq B
  BY <1>1, <1>2
<1>4. q \in Seq(A)
  BY <1>1
<1>5. q \in Seq(B)
  BY <1>3, <1>4, SeqMonotonic
<1> QED
  BY <1>2, <1>5

(* Where the stream ends, before a step and after it.                      *)
LEMMA LastIs ==
  /\ End(Len(sent)) = EndIn(sent, Len(sent))
  /\ End(Len(sent))' = EndIn(sent', Len(sent'))
BY DEF End, EndIn

LEMMA RequestsReadNext == RequestsRead' = ReadIn(sent', taken')
BY DEF RequestsRead, ReadIn, End, EndIn

(* The types in numbers.                                                   *)
LEMMA NumbersAre ==
  ASSUME TypeOK
  PROVE  /\ sent \in Seq(Kinds) /\ Len(sent) \in Nat
         /\ EndIn(sent, Len(sent)) \in Nat
         /\ arrived \in Nat /\ arrived <= EndIn(sent, Len(sent))
         /\ taken \in Nat /\ taken <= arrived
<1>1. sent \in Seq(Kinds) /\ Len(sent) \in Nat
  BY DEF TypeOK
<1>2. EndIn(sent, Len(sent)) \in Nat
  BY <1>1, EndInIs
<1> QED
  BY <1>1, <1>2, LastIs DEF TypeOK

-----------------------------------------------------------------------------
(* Each action keeps the parts of IInv.                                    *)

LEMMA InitKeeps ==
  ASSUME Init
  PROVE  IInv
<1> USE DEF Init
<1>1. sent \in Seq(Kinds) /\ Len(sent) = 0
  OBVIOUS
<1>2. EndIn(sent, 0) = 0 /\ End(Len(sent)) = 0
  BY <1>1, EndInIs, LastIs
<1>3. TypeOK
  <2>1. tasks \in Seq([from : 0 .. arrived, kind : Requests])
    OBVIOUS
  <2>2. head \in [from : 0 .. arrived, kind : Requests \union {"none"}]
    BY DEF NoHead
  <2>3. reply.kind = "none"
    BY DEF NoReply
  <2>4. taken \in 0 .. arrived /\ arrived \in 0 .. End(Len(sent))
    BY <1>2
  <2> QED
    BY <1>1, <2>1, <2>2, <2>3, <2>4 DEF TypeOK
<1>4. HeadInv /\ ReplyInv
  BY DEF HeadInv, ReplyInv
<1>5. PlaceInv
  BY <1>1, <1>2 DEF PlaceInv
<1>6. InStepUntilShort
  BY <1>1, ReadsNone, RequestsReadIs DEF InStepUntilShort
<1> QED
  BY <1>3, <1>4, <1>5, <1>6 DEF IInv

LEMMA SendKeeps ==
  ASSUME IInv, NEW kind \in Kinds, Send(kind)
  PROVE  IInv'
<1>1. TypeOK /\ HeadInv /\ ReplyInv /\ PlaceInv /\ InStepUntilShort
  BY DEF IInv
<1>2. reply' = reply /\ at' = at /\ head' = head
  BY DEF Send
<1>3. HeadInv' /\ ReplyInv'
  <2>1. HeadInv'
    BY <1>1, <1>2 DEF HeadInv
  <2> QED
    BY <1>1, <1>2, <2>1 DEF ReplyInv
<1>4. CASE Quiet
  <2>1. /\ sent' = <<kind>> /\ tasks' = <<>>
        /\ arrived' = 0 /\ taken' = 0 /\ short' = FALSE /\ at = "head"
    BY <1>4 DEF Send, Quiet
  <2>2. sent' \in Seq(Kinds) /\ Len(sent') = 1
    BY <2>1
  <2>3. EndIn(sent', 0) = 0 /\ EndIn(sent', Len(sent')) \in Nat
    <3>1. Len(sent') \in 0 .. Len(sent')
      BY <2>2
    <3> QED
      BY <2>2, <3>1, EndInIs
  <2>4. head' = NoHead
    BY <1>1, <1>2, <2>1 DEF HeadInv
  <2>5. TypeOK'
    <3>1. tasks' \in Seq([from : 0 .. arrived', kind : Requests])
      BY <2>1
    <3>2. head' \in [from : 0 .. arrived', kind : Requests \union {"none"}]
      BY <2>1, <2>4 DEF NoHead
    <3>3. taken' \in 0 .. arrived' /\ arrived' \in 0 .. End(Len(sent))'
      BY <2>1, <2>3, LastIs
    <3> QED
      BY <1>1, <1>2, <2>1, <2>2, <3>1, <3>2, <3>3 DEF TypeOK
  <2>6. PlaceInv'
    BY <1>2, <2>1, <2>2, <2>3 DEF PlaceInv
  <2>7. InStepUntilShort'
    BY <2>1, <2>2, ReadsNone, RequestsReadNext DEF InStepUntilShort
  <2> QED
    BY <1>3, <2>5, <2>6, <2>7 DEF IInv
<1>5. CASE ~Quiet
  <2>1. /\ sent' = Append(sent, kind) /\ arrived' = arrived /\ taken' = taken
        /\ tasks' = tasks /\ short' = short
    BY <1>5 DEF Send
  <2>2. /\ sent \in Seq(Kinds) /\ Len(sent) \in Nat
        /\ EndIn(sent, Len(sent)) \in Nat
        /\ arrived \in Nat /\ arrived <= EndIn(sent, Len(sent))
        /\ taken \in Nat /\ taken <= arrived
    BY <1>1, NumbersAre
  <2>3. /\ sent' \in Seq(Kinds) /\ Len(sent') = Len(sent) + 1
        /\ \A i \in 1 .. Len(sent) : sent'[i] = sent[i]
    BY <2>1, <2>2
  <2>4. \A i \in 0 .. Len(sent) : EndIn(sent', i) = EndIn(sent, i)
    BY <2>1, <2>2, EndsStay
  <2>5. /\ EndIn(sent', Len(sent')) \in Nat
        /\ EndIn(sent, Len(sent)) < EndIn(sent', Len(sent'))
    <3>1. /\ Len(sent) \in 0 .. Len(sent') /\ Len(sent) \in 0 .. Len(sent)
          /\ Len(sent') \in 0 .. Len(sent') /\ Len(sent) < Len(sent')
      BY <2>2, <2>3
    <3>2. EndIn(sent', Len(sent)) < EndIn(sent', Len(sent'))
      BY <2>3, <3>1, EndsIncrease
    <3> QED
      BY <2>3, <2>4, <3>1, <3>2, EndInIs
  <2>6. TypeOK'
    <3>1. arrived' \in 0 .. End(Len(sent))'
      BY <2>1, <2>2, <2>5, LastIs
    <3> QED
      BY <1>1, <1>2, <2>1, <2>3, <3>1 DEF TypeOK
  <2>7. PlaceInv'
    <3> SUFFICES ASSUME ~short
                 PROVE  \E k \in 0 .. Len(sent') :
                          \/ at = "head" /\ taken = EndIn(sent', k)
                          \/ /\ at = "body" /\ k < Len(sent')
                             /\ head.kind = sent'[k+1]
                             /\ head.from = EndIn(sent', k)
                             /\ taken = EndIn(sent', k) + HeadSize
      BY <1>2, <2>1 DEF PlaceInv
    <3>1. PICK k \in 0 .. Len(sent) :
            \/ at = "head" /\ taken = EndIn(sent, k)
            \/ /\ at = "body" /\ k < Len(sent) /\ head.kind = sent[k+1]
               /\ head.from = EndIn(sent, k)
               /\ taken = EndIn(sent, k) + HeadSize
      BY <1>1 DEF PlaceInv
    <3>2. k \in 0 .. Len(sent') /\ EndIn(sent', k) = EndIn(sent, k)
      BY <2>3, <2>4
    <3>3. k < Len(sent) => k < Len(sent') /\ sent'[k+1] = sent[k+1]
      BY <2>2, <2>3
    <3> QED
      BY <3>1, <3>2, <3>3
  <2>8. InStepUntilShort'
    <3>1. taken <= EndIn(sent, Len(sent))
      BY <2>2
    <3>2. ReadIn(sent', taken') = ReadIn(sent, taken)
      BY <2>1, <2>2, <3>1, ReadsNoneSent
    <3> QED
      BY <1>1, <2>1, <3>2, RequestsReadIs, RequestsReadNext
         DEF InStepUntilShort
  <2> QED
    BY <1>3, <2>6, <2>7, <2>8 DEF IInv
<1> QED
  BY <1>4, <1>5

(* A byte arrives, a reply is made or written: Run() reads nothing.        *)
LEMMA NothingReadKeeps ==
  ASSUME TypeOK, PlaceInv, InStepUntilShort,
         sent' = sent, taken' = taken, at' = at, head' = head,
         short' = short, tasks' = tasks
  PROVE  PlaceInv' /\ InStepUntilShort'
<1>1. PlaceInv'
  BY DEF PlaceInv
<1>2. InStepUntilShort'
  BY RequestsReadIs, RequestsReadNext DEF InStepUntilShort
<1> QED
  BY <1>1, <1>2

LEMMA ArriveKeeps ==
  ASSUME IInv, Arrive
  PROVE  IInv'
<1>1. TypeOK /\ HeadInv /\ ReplyInv /\ PlaceInv /\ InStepUntilShort
  BY DEF IInv
<1>2. /\ arrived < End(Len(sent)) /\ arrived' = arrived + 1
      /\ sent' = sent /\ taken' = taken /\ at' = at /\ head' = head
      /\ short' = short /\ tasks' = tasks /\ reply' = reply
  BY DEF Arrive
<1>3. /\ EndIn(sent, Len(sent)) \in Nat
      /\ arrived \in Nat /\ taken \in Nat /\ taken <= arrived
  BY <1>1, NumbersAre
<1>4. TypeOK'
  <2>1. tasks' \in Seq([from : 0 .. arrived', kind : Requests])
    <3>1. arrived <= arrived' /\ arrived' \in Nat
      BY <1>2, <1>3
    <3>2. tasks \in Seq([from : 0 .. arrived, kind : Requests])
      BY <1>1 DEF TypeOK
    <3> QED
      BY <1>2, <1>3, <3>1, <3>2, TasksStay
  <2>2. head' \in [from : 0 .. arrived', kind : Requests \union {"none"}]
    BY <1>1, <1>2, <1>3 DEF TypeOK
  <2>3. taken' \in 0 .. arrived' /\ arrived' \in 0 .. End(Len(sent))'
    BY <1>2, <1>3, LastIs
  <2> QED
    BY <1>1, <1>2, <2>1, <2>2, <2>3 DEF TypeOK
<1>5. HeadInv' /\ ReplyInv'
  BY <1>1, <1>2 DEF HeadInv, ReplyInv
<1> QED
  BY <1>1, <1>2, <1>4, <1>5, NothingReadKeeps DEF IInv

LEMMA AnswerKeeps ==
  ASSUME IInv, Answer
  PROVE  IInv'
<1>1. TypeOK /\ HeadInv /\ ReplyInv /\ PlaceInv /\ InStepUntilShort
  BY DEF IInv
<1>2. /\ sent' = sent /\ arrived' = arrived /\ taken' = taken
      /\ at' = at /\ head' = head /\ short' = short /\ tasks' = tasks
      /\ tasks # <<>>
  BY DEF Answer
<1>0. PICK asked \in Numbers, text \in Texts :
         \E r \in RepliesTo(tasks[Len(tasks)].kind, asked) :
           reply' = [kind |-> r.kind, packet |-> r, asked |-> asked,
                     text |-> text, time |-> CharToInt(text),
                     least |-> CharToFloat(text, -1),
                     most |-> CharToFloat(text, 1)]
  BY DEF Answer
<1>3. PICK r \in RepliesTo(tasks[Len(tasks)].kind, asked) :
        reply' = [kind |-> r.kind, packet |-> r, asked |-> asked,
                  text |-> text, time |-> CharToInt(text),
                  least |-> CharToFloat(text, -1),
                  most |-> CharToFloat(text, 1)]
  BY <1>0
<1>4. tasks[Len(tasks)].kind \in Requests
  <2>1. tasks \in Seq([from : 0 .. arrived, kind : Requests])
    BY <1>1 DEF TypeOK
  <2>2. tasks[Len(tasks)] \in [from : 0 .. arrived, kind : Requests]
    <3>1. PICK S : S = [from : 0 .. arrived, kind : Requests]
      OBVIOUS
    <3>2. tasks \in Seq(S)
      BY <2>1, <3>1
    <3>3. Len(tasks) \in 1 .. Len(tasks)
      BY <1>2, <3>2, EmptySeq
    <3> QED
      BY <3>1, <3>2, <3>3, ElementOfSeq
  <2> QED
    BY <2>2
<1>5. r \in RepliesMade(asked) /\ r.kind \in DOMAIN Answers
  <2>1. r \in RepliesMade(asked)
    BY <1>3, <1>4 DEF RepliesMade
  <2> QED
    BY <2>1, RepliesAre
<1>6. /\ reply'.packet = r /\ reply'.kind = r.kind /\ reply'.text = text
      /\ reply'.asked = asked /\ reply'.time = CharToInt(text)
      /\ reply'.least = CharToFloat(text, -1)
      /\ reply'.most = CharToFloat(text, 1)
  BY <1>3
<1>7. ReplyInv'
  BY <1>3, <1>5, <1>6 DEF ReplyInv
<1>8. TypeOK'
  <2>1. End(Len(sent))' = End(Len(sent))
    BY <1>2, LastIs
  <2> QED
    BY <1>1, <1>2, <1>5, <1>6, <2>1 DEF TypeOK
<1>9. HeadInv'
  BY <1>1, <1>2 DEF HeadInv
<1> QED
  BY <1>1, <1>2, <1>7, <1>8, <1>9, NothingReadKeeps DEF IInv

LEMMA WriteReplyKeeps ==
  ASSUME IInv, WriteReply
  PROVE  IInv'
<1>1. TypeOK /\ HeadInv /\ ReplyInv /\ PlaceInv /\ InStepUntilShort
  BY DEF IInv
<1>2. /\ sent' = sent /\ arrived' = arrived /\ taken' = taken
      /\ at' = at /\ head' = head /\ short' = short /\ tasks' = tasks
      /\ reply' = NoReply
  BY DEF WriteReply
<1>3. TypeOK'
  <2>1. End(Len(sent))' = End(Len(sent))
    BY <1>2, LastIs
  <2>2. reply'.kind = "none"
    BY <1>2 DEF NoReply
  <2> QED
    BY <1>1, <1>2, <2>1, <2>2 DEF TypeOK
<1>4. HeadInv' /\ ReplyInv'
  BY <1>1, <1>2 DEF HeadInv, ReplyInv
<1> QED
  BY <1>1, <1>2, <1>3, <1>4, NothingReadKeeps DEF IInv

(* Behind the k-th packet, when there is something to read: the head has   *)
(* the type of the packet that follows, and no other packet begins here.   *)
LEMMA HeadKindIs ==
  ASSUME TypeOK, NEW k \in 0 .. Len(sent), taken = EndIn(sent, k),
         arrived > taken, NEW n \in Nat, n >= 4
  PROVE  /\ k + 1 \in 1 .. Len(sent)
         /\ HeadKinds(n) = {sent[k+1]}
<1>1. /\ sent \in Seq(Kinds) /\ Len(sent) \in Nat
      /\ EndIn(sent, Len(sent)) \in Nat
      /\ arrived \in Nat /\ arrived <= EndIn(sent, Len(sent))
      /\ taken \in Nat /\ taken <= arrived
  BY NumbersAre
<1>2. k # Len(sent)
  BY <1>1
<1>3. k + 1 \in 1 .. Len(sent) /\ (k + 1) - 1 = k
  BY <1>1, <1>2
<1>4. ASSUME NEW i \in DOMAIN sent
      PROVE  End(i-1) = taken <=> i = k + 1
  <2>1. i \in 1 .. Len(sent) /\ i - 1 \in 0 .. Len(sent)
    BY <1>1
  <2>2. End(i-1) = EndIn(sent, i-1)
    BY EndIsEndIn
  <2>3. EndIn(sent, i-1) \in Nat /\ EndIn(sent, k) \in Nat
    BY <1>1, <2>1, EndInIs
  <2>4. i - 1 < k => EndIn(sent, i-1) < EndIn(sent, k)
    BY <1>1, <2>1, EndsIncrease
  <2>5. k < i - 1 => EndIn(sent, k) < EndIn(sent, i-1)
    BY <1>1, <2>1, EndsIncrease
  <2>6. EndIn(sent, i-1) = EndIn(sent, k) => i - 1 = k
    BY <2>1, <2>3, <2>4, <2>5
  <2>7. i = k + 1 => i - 1 = k
    BY <2>1
  <2>8. i - 1 = k => i = k + 1
    BY <2>1
  <2> QED
    BY <2>2, <2>6, <2>7, <2>8
<1>5. k + 1 \in DOMAIN sent
  BY <1>1, <1>3
<1>6. PICK here : here = {i \in DOMAIN sent : End(i-1) = taken}
  OBVIOUS
<1>7. here = {k+1}
  BY <1>4, <1>5, <1>6
<1>8. n >= Int4.size
  BY DEF Int4
<1>9. HeadKinds(n) = {sent[i] : i \in here}
  <2>1. here # {}
    BY <1>7
  <2> QED
    BY <1>6, <1>8, <2>1 DEF HeadKinds
<1> QED
  BY <1>3, <1>7, <1>9

LEMMA ReadHeadKeeps ==
  ASSUME IInv, ReadHead
  PROVE  IInv'
<1>1. TypeOK /\ HeadInv /\ ReplyInv /\ PlaceInv /\ InStepUntilShort
  BY DEF IInv
<1>2. /\ at = "head" /\ arrived > taken
      /\ sent' = sent /\ arrived' = arrived /\ tasks' = tasks
      /\ reply' = reply
  BY DEF ReadHead
<1>3. PICK n : n = Got(HeadSize)
  OBVIOUS
<1>4. taken' = taken + n /\ short' = (short \/ n < HeadSize)
  BY <1>3 DEF ReadHead
<1>5. PICK kind \in HeadKinds(n) :
        IF kind \in Requests
          THEN /\ at' = "body"
               /\ head' = [from |-> IF short' THEN 0 ELSE taken, kind |-> kind]
          ELSE at' = at /\ head' = head
  BY <1>3 DEF ReadHead
<1>6. /\ sent \in Seq(Kinds) /\ Len(sent) \in Nat
      /\ EndIn(sent, Len(sent)) \in Nat
      /\ arrived \in Nat /\ arrived <= EndIn(sent, Len(sent))
      /\ taken \in Nat /\ taken <= arrived
  BY <1>1, NumbersAre
<1>7. n \in Nat /\ n <= 36 /\ n <= arrived - taken /\ HeadSize = 36
  <2>1. HeadSize \in Nat /\ HeadSize = 36
    BY PacketIs
  <2> QED
    BY <1>2, <1>3, <1>6, <2>1, GotIs
<1>8. TypeOK'
  <2>1. taken' \in 0 .. arrived' /\ arrived' \in 0 .. End(Len(sent))'
    BY <1>2, <1>4, <1>6, <1>7, LastIs
  <2>2. short' \in BOOLEAN
    BY <1>4
  <2>3. /\ at' \in {"head", "body"}
        /\ head' \in [from : 0 .. arrived', kind : Requests \union {"none"}]
    <3>1. CASE kind \in Requests
      <4>1. (IF short' THEN 0 ELSE taken) \in 0 .. arrived
        BY <1>6
      <4> QED
        BY <1>2, <1>5, <3>1, <4>1
    <3>2. CASE kind \notin Requests
      BY <1>1, <1>2, <1>5, <3>2 DEF TypeOK
    <3> QED
      BY <3>1, <3>2
  <2> QED
    BY <1>1, <1>2, <2>1, <2>2, <2>3 DEF TypeOK
<1>9. HeadInv'
  <2>1. CASE kind \in Requests
    BY <1>5, <2>1 DEF HeadInv
  <2>2. CASE kind \notin Requests
    BY <1>1, <1>2, <1>5, <2>2 DEF HeadInv
  <2> QED
    BY <2>1, <2>2
<1>10. ReplyInv'
  BY <1>1, <1>2 DEF ReplyInv
<1>11. ASSUME ~short'
       PROVE  PlaceInv' /\ InStepUntilShort'
  <2>1. ~short /\ n = 36
    <3>1. ~short /\ ~ n < HeadSize
      BY <1>4, <1>11
    <3> QED
      BY <1>7, <3>1
  <2>2. PICK k \in 0 .. Len(sent) : taken = EndIn(sent, k)
    BY <1>1, <1>2, <2>1 DEF PlaceInv
  <2>3. k + 1 \in 1 .. Len(sent) /\ kind = sent[k+1]
    <3>1. n >= 4
      BY <2>1
    <3>2. k + 1 \in 1 .. Len(sent) /\ HeadKinds(n) = {sent[k+1]}
      BY <1>1, <1>2, <1>7, <2>2, <3>1, HeadKindIs
    <3> QED
      BY <1>5, <3>2
  <2>4. taken' = taken + 36
    BY <1>4, <2>1
  <2>5. (k + 1) - 1 = k /\ k < Len(sent) /\ k + 1 \in 0 .. Len(sent)
    BY <1>6, <2>3
  <2>6. EndIn(sent, k+1) = EndIn(sent, k) + PacketSize(sent[k+1])
    BY <1>6, <2>3, <2>5, EndInIs
  <2>7. PlaceInv'
    <3>1. CASE kind \in Requests
      <4>1. /\ at' = "body" /\ head'.kind = sent[k+1]
            /\ head'.from = EndIn(sent, k)
        BY <1>5, <1>11, <2>2, <2>3, <3>1
      <4>2. taken' = EndIn(sent, k) + HeadSize
        BY <1>7, <2>2, <2>4
      <4> QED
        BY <1>2, <2>5, <4>1, <4>2 DEF PlaceInv
    <3>2. CASE kind \notin Requests
      <4>1. PacketSize(sent[k+1]) = 36
        BY <2>3, <3>2, PacketIs
      <4>2. at' = "head" /\ taken' = EndIn(sent, k+1)
        BY <1>2, <1>5, <2>2, <2>4, <2>6, <3>2, <4>1
      <4> QED
        BY <1>2, <2>5, <4>2 DEF PlaceInv
    <3> QED
      BY <3>1, <3>2
  <2>8. ASSUME NEW i \in 1 .. Len(sent), sent[i] \in Requests
        PROVE  EndIn(sent, i) <= taken <=> EndIn(sent, i) <= taken'
    <3>1. /\ EndIn(sent, i) \in Nat /\ EndIn(sent, i-1) \in Nat
          /\ EndIn(sent, i) = EndIn(sent, i-1) + PacketSize(sent[i])
      <4>1. i \in 0 .. Len(sent) /\ i - 1 \in 0 .. Len(sent)
        OBVIOUS
      <4> QED
        BY <1>6, <4>1, EndInIs
    <3>2. CASE i <= k
      <4>1. EndIn(sent, i) <= taken
        <5>1. i \in 0 .. Len(sent)
          OBVIOUS
        <5>2. i < k => EndIn(sent, i) < EndIn(sent, k)
          BY <1>6, <5>1, EndsIncrease
        <5>3. i = k => EndIn(sent, i) = EndIn(sent, k)
          OBVIOUS
        <5>4. i < k \/ i = k
          BY <3>2
        <5> QED
          BY <1>6, <2>2, <3>1, <5>2, <5>3, <5>4
      <4> QED
        BY <1>6, <2>4, <3>1, <4>1
    <3>3. CASE k < i
      <4>1. EndIn(sent, k) <= EndIn(sent, i-1)
        <5>1. i - 1 \in 0 .. Len(sent)
          OBVIOUS
        <5>2. k < i - 1 => EndIn(sent, k) < EndIn(sent, i-1)
          BY <1>6, <5>1, EndsIncrease
        <5>3. k = i - 1 => EndIn(sent, k) = EndIn(sent, i-1)
          OBVIOUS
        <5>4. k < i - 1 \/ k = i - 1
          BY <3>3
        <5> QED
          BY <1>6, <2>2, <3>1, <5>2, <5>3, <5>4
      <4>2. PacketSize(sent[i]) \in Nat /\ PacketSize(sent[i]) > 36
        <5>1. /\ PacketSize(sent[i]) \in Nat
              /\ PacketSize(sent[i]) = 36 + BodySize(sent[i])
          BY PacketIs
        <5>2. BodySize(sent[i]) \in 3 .. 40
          BY <2>8, PacketIs
        <5>3. ASSUME NEW b \in 3 .. 40 PROVE 36 + b > 36
          BY <5>3
        <5> QED
          BY <5>1, <5>2, <5>3
      <4>3. PICK a \in Nat, c \in Nat :
              a = EndIn(sent, i-1) /\ c = PacketSize(sent[i])
        BY <3>1, <4>2
      <4>4. EndIn(sent, i) = a + c /\ taken <= a /\ c > 36
        BY <2>2, <3>1, <4>1, <4>2, <4>3
      <4>5. ~ EndIn(sent, i) <= taken /\ ~ EndIn(sent, i) <= taken'
        BY <1>6, <2>4, <4>4
      <4> QED
        BY <4>5
    <3>4. i <= k \/ k < i
      OBVIOUS
    <3> QED
      BY <3>2, <3>3, <3>4
  <2>9. ReadIn(sent, taken') = ReadIn(sent, taken)
    <3>1. taken' \in Nat
      BY <1>6, <2>4
    <3> QED
      BY <1>6, <2>8, <3>1, ReadsNoMore
  <2>10. InStepUntilShort'
    BY <1>1, <1>2, <2>1, <2>9, RequestsReadIs, RequestsReadNext
       DEF InStepUntilShort
  <2> QED
    BY <2>7, <2>10
<1>12. PlaceInv' /\ InStepUntilShort'
  <2>1. CASE short'
    BY <2>1 DEF PlaceInv, InStepUntilShort
  <2> QED
    BY <1>11, <2>1
<1> QED
  BY <1>8, <1>9, <1>10, <1>12 DEF IInv

LEMMA ReadBodyKeeps ==
  ASSUME IInv, ReadBody
  PROVE  IInv'
<1>1. TypeOK /\ HeadInv /\ ReplyInv /\ PlaceInv /\ InStepUntilShort
  BY DEF IInv
<1>2. /\ at = "body" /\ arrived > taken /\ at' = "head"
      /\ head' = NoHead
      /\ sent' = sent /\ arrived' = arrived /\ reply' = reply
  BY DEF ReadBody
<1>3. PICK size : size = BodySize(head.kind)
  OBVIOUS
<1>4. PICK n : n = Got(size)
  OBVIOUS
<1>5. /\ taken' = taken + n /\ short' = (short \/ n < size)
      /\ tasks' = IF n > 2 /\ ~short' THEN Append(tasks, head) ELSE tasks
  BY <1>3, <1>4 DEF ReadBody
<1>6. /\ sent \in Seq(Kinds) /\ Len(sent) \in Nat
      /\ EndIn(sent, Len(sent)) \in Nat
      /\ arrived \in Nat /\ arrived <= EndIn(sent, Len(sent))
      /\ taken \in Nat /\ taken <= arrived
  BY <1>1, NumbersAre
<1>7. head.kind \in Requests /\ size \in 3 .. 40 /\ size \in Nat
  <2>1. head.kind \in Requests
    BY <1>1, <1>2 DEF HeadInv
  <2>2. size \in 3 .. 40
    BY <1>3, <2>1, PacketIs
  <2> QED
    BY <2>1, <2>2
<1>8. n \in Nat /\ n <= size /\ n <= arrived - taken
  BY <1>2, <1>4, <1>6, <1>7, GotIs
<1>9. TypeOK'
  <2>1. taken' \in 0 .. arrived' /\ arrived' \in 0 .. End(Len(sent))'
    BY <1>2, <1>5, <1>6, <1>8, LastIs
  <2>2. tasks' \in Seq([from : 0 .. arrived', kind : Requests])
    <3>1. PICK S : S = [from : 0 .. arrived, kind : Requests]
      OBVIOUS
    <3>2. tasks \in Seq(S)
      BY <1>1, <3>1 DEF TypeOK
    <3>3. head \in S
      BY <1>1, <1>7, <3>1 DEF TypeOK
    <3>4. tasks' \in Seq(S)
      BY <1>5, <3>2, <3>3
    <3> QED
      BY <1>2, <3>1, <3>4
  <2>3. head' \in [from : 0 .. arrived', kind : Requests \union {"none"}]
    BY <1>2, <1>6 DEF NoHead
  <2>4. short' \in BOOLEAN
    BY <1>5
  <2> QED
    BY <1>1, <1>2, <2>1, <2>2, <2>3, <2>4 DEF TypeOK
<1>10. HeadInv' /\ ReplyInv'
  BY <1>1, <1>2 DEF HeadInv, ReplyInv
<1>11. ASSUME ~short'
       PROVE  PlaceInv' /\ InStepUntilShort'
  <2>1. ~short /\ n = size /\ n > 2
    <3>1. ~short /\ ~ n < size
      BY <1>5, <1>11
    <3> QED
      BY <1>7, <1>8, <3>1
  <2>2. PICK k \in 0 .. Len(sent) :
          /\ k < Len(sent) /\ head.kind = sent[k+1]
          /\ head.from = EndIn(sent, k)
          /\ taken = EndIn(sent, k) + HeadSize
    BY <1>1, <1>2, <2>1 DEF PlaceInv
  <2>3. /\ k + 1 \in 1 .. Len(sent) /\ k + 1 \in 0 .. Len(sent)
        /\ (k + 1) - 1 = k
    BY <1>6, <2>2
  <2>4. /\ EndIn(sent, k+1) = EndIn(sent, k) + PacketSize(sent[k+1])
        /\ EndIn(sent, k) \in Nat
    BY <1>6, <2>3, EndInIs
  <2>5. PacketSize(sent[k+1]) = 36 + size /\ HeadSize = 36
    BY <1>3, <2>2, PacketIs
  <2>6. /\ taken' = EndIn(sent, k+1)
        /\ EndIn(sent, k) <= taken /\ taken < EndIn(sent, k+1)
    BY <1>5, <1>7, <2>1, <2>2, <2>4, <2>5
  <2>7. PlaceInv'
    BY <1>2, <2>3, <2>6 DEF PlaceInv
  <2>8. head = TaskAt(sent, k+1)
    <3>1. head \in [from : 0 .. arrived, kind : Requests \union {"none"}]
      BY <1>1 DEF TypeOK
    <3> QED
      BY <2>2, <2>3, <3>1 DEF TaskAt
  <2>9. ReadIn(sent, taken') = Append(ReadIn(sent, taken), head)
    <3>1. /\ sent[k+1] \in Requests
          /\ EndIn(sent, (k + 1) - 1) <= taken
      BY <1>7, <2>2, <2>3, <2>6
    <3>2. ReadIn(sent, EndIn(sent, k+1)) =
            Append(ReadIn(sent, taken), TaskAt(sent, k+1))
      BY <1>6, <2>3, <2>6, <3>1, ReadsOneMore
    <3> QED
      BY <2>6, <2>8, <3>2
  <2>10. tasks' = Append(tasks, head)
    BY <1>5, <1>11, <2>1
  <2>11. InStepUntilShort'
    BY <1>1, <1>2, <2>1, <2>9, <2>10, RequestsReadIs, RequestsReadNext
       DEF InStepUntilShort
  <2> QED
    BY <2>7, <2>11
<1>12. PlaceInv' /\ InStepUntilShort'
  <2>1. CASE short'
    BY <2>1 DEF PlaceInv, InStepUntilShort
  <2> QED
    BY <1>11, <2>1
<1> QED
  BY <1>9, <1>10, <1>12 DEF IInv


-----------------------------------------------------------------------------
(* The theorems.                                                           *)

LEMMA StepKeeps ==
  ASSUME IInv, [Next]_vars
  PROVE  IInv'
<1>1. ASSUME NEW kind \in Kinds, Send(kind) PROVE IInv'
  BY <1>1, SendKeeps
<1>2. CASE Arrive
  BY <1>2, ArriveKeeps
<1>3. CASE ReadHead
  BY <1>3, ReadHeadKeeps
<1>4. CASE ReadBody
  BY <1>4, ReadBodyKeeps
<1>5. CASE Answer
  BY <1>5, AnswerKeeps
<1>6. CASE WriteReply
  BY <1>6, WriteReplyKeeps
<1>7. CASE UNCHANGED vars
  <2>1. TypeOK /\ HeadInv /\ ReplyInv /\ PlaceInv /\ InStepUntilShort
    BY DEF IInv
  <2>2. /\ sent' = sent /\ arrived' = arrived /\ taken' = taken
        /\ at' = at /\ head' = head /\ short' = short /\ tasks' = tasks
        /\ reply' = reply
    BY <1>7 DEF vars
  <2>3. End(Len(sent))' = End(Len(sent))
    BY <2>2, LastIs
  <2>4. TypeOK' /\ HeadInv' /\ ReplyInv'
    BY <2>1, <2>2, <2>3 DEF TypeOK, HeadInv, ReplyInv
  <2> QED
    BY <2>1, <2>2, <2>4, NothingReadKeeps DEF IInv
<1> QED
  BY <1>1, <1>2, <1>3, <1>4, <1>5, <1>6, <1>7 DEF Next

LEMMA Invariance == Spec => []IInv
<1>1. Init => IInv
  BY InitKeeps
<1>2. IInv /\ [Next]_vars => IInv'
  BY StepKeeps
<1> QED
  BY <1>1, <1>2, PTL DEF Spec

(* What Run() holds of the stream has its type: it never counts more bytes *)
(* than arrived, and no task begins behind them.                           *)
THEOREM TypeCorrect == Spec => []TypeOK
<1>1. IInv => TypeOK
  BY DEF IInv
<1> QED
  BY <1>1, Invariance, PTL

(* For any packets, of any number, and wherever TCP cuts the stream: until *)
(* a read() comes back short, the tasks CEpollSecond::Run() makes are the  *)
(* requests the client sent, in order, each from its first byte.           *)
THEOREM InStepCorrect == Spec => []InStepUntilShort
<1>1. IInv => InStepUntilShort
  BY DEF IInv
<1> QED
  BY <1>1, Invariance, PTL

(* Every packet fits m_buf and a block of the request segment, and of the  *)
(* replies all but long purchases and histories fit buff and a block of    *)
(* the reply segment, whatever readshmtask::run() finds in the tables.     *)
THEOREM FitsCorrect == Spec => []EverythingFits
<1>1. ASSUME IInv PROVE EverythingFits
  <2>1. ASSUME NEW i \in DOMAIN tasks
        PROVE  /\ PacketSize(tasks[i].kind) <= MBuf
               /\ Int4.size + MBuf <= RequestBlock
    <3>1. PacketSize(tasks[i].kind) \in 36 .. 76
      BY PacketIs
    <3> QED
      BY <3>1 DEF MBuf, RequestBlock, Int4
  <2>2. ASSUME reply # NoReply
        PROVE  LET p == reply.packet IN
               \/ 2 * Int4.size + p.length <= ReplyBlock /\ p.length <= Buff
               \/ p.kind = "confirm" /\ p.rows > 98
               \/ p.kind = "list" /\ p.rows > 14
    <3>1. PICK p : p = reply.packet /\ p \in RepliesMade(reply.asked)
      BY <1>1, <2>2 DEF IInv, ReplyInv
    <3>2. /\ p.kind \in DOMAIN Answers /\ p.rows \in Nat
          /\ p.length = 36 + p.rows * SizeOf(Answers[p.kind])
          /\ p.kind \in {"confirm", "list"} \/ p.rows = 1
      BY <3>1, RepliesAre, PacketIs
    <3>3. \/ 8 + p.length <= 1030 /\ p.length <= 1024
          \/ p.kind = "confirm" /\ p.rows > 98
          \/ p.kind = "list" /\ p.rows > 14
      <4>1. CASE p.kind = "confirm"
        <5>1. p.length = 36 + p.rows * 10
          BY <3>2, <4>1, AnswerIs
        <5> QED
          BY <3>2, <4>1, <5>1
      <4>2. CASE p.kind = "list"
        <5>1. p.length = 36 + p.rows * 68
          BY <3>2, <4>2, AnswerIs
        <5> QED
          BY <3>2, <4>2, <5>1
      <4>3. CASE p.kind \notin {"confirm", "list"}
        <5>1. PICK size : size = SizeOf(Answers[p.kind]) /\ size \in 4 .. 68
          BY <3>2, AnswerIs
        <5>2. p.length = 36 + size
          BY <3>2, <4>3, <5>1
        <5> QED
          BY <5>1, <5>2
      <4> QED
        BY <4>1, <4>2, <4>3
    <3> QED
      BY <3>1, <3>3 DEF Int4, ReplyBlock, Buff
  <2> QED
    BY <2>1, <2>2 DEF EverythingFits
<1>2. IInv => EverythingFits
  BY <1>1
<1> QED
  BY <1>2, Invariance, PTL

(* head.number of every reply of run() says how many structs follow it;    *)
(* where the client's own number goes back, it does if that was 1, which   *)
(* is what the requests of public.h carry.                                 *)
THEOREM NumberCorrect == Spec => []NumberTellsWhatFollows
<1>1. ASSUME IInv, reply # NoReply,
             \/ reply.asked = 1
             \/ reply.packet.kind \in {"confirm", "bill", "list"}
      PROVE  reply.packet.length =
               HeadSize
                 + reply.packet.number * SizeOf(Answers[reply.packet.kind])
  <2>1. PICK p : p = reply.packet /\ p \in RepliesMade(reply.asked)
    BY <1>1 DEF IInv, ReplyInv
  <2>2. p.length = HeadSize + p.number * SizeOf(Answers[p.kind])
    BY <1>1, <2>1, RepliesAre
  <2> QED
    BY <2>1, <2>2
<1>2. IInv => NumberTellsWhatFollows
  BY <1>1 DEF NumberTellsWhatFollows
<1> QED
  BY <1>2, Invariance, PTL

(* For every text of digits with at most one point that a table holds: a   *)
(* time is read by char_to_int as what it says if an int holds it, and an  *)
(* amount by char_to_float, if a float holds its whole part, within what   *)
(* the roundings behind the point and that of the sum come to.             *)
THEOREM TextsCorrect == Spec => []TextsAreReadRight
<1>1. ASSUME IInv, reply # NoReply
      PROVE  reply.text \in Texts /\ IsNumber(reply.text)
  BY <1>1, WireAssumption DEF IInv, ReplyInv, WireAssumption
<1>2. ASSUME IInv, reply # NoReply, ~HasPoint(reply.text),
             Decimal(reply.text) < Half * Unit(reply.text)
      PROVE  reply.time * Unit(reply.text) = Decimal(reply.text)
  <2>1. reply.time = CharToInt(reply.text)
    BY <1>2 DEF IInv, ReplyInv
  <2> QED
    BY <1>1, <1>2, <2>1, TimeIsReadRight
<1>3. ASSUME IInv, reply # NoReply, NEW value,
             value = Decimal(WithPoint(reply.text)),
             value + Zero * Unit(reply.text) <= Exact * Unit(reply.text)
      PROVE  /\ value - Tolerance(reply.text, value) <= reply.least
             /\ reply.most <= value + Tolerance(reply.text, value)
  <2>1. PICK text : text = reply.text /\ IsNumber(text)
    BY <1>1, <1>3
  <2>2. /\ reply.least = CharToFloat(text, -1)
        /\ reply.most = CharToFloat(text, 1)
    BY <1>3, <2>1 DEF IInv, ReplyInv
  <2>3. ASSUME NEW side \in {-1, 1}
        PROVE  /\ CharToFloat(text, side) \in Int /\ value \in Int
               /\ Tolerance(text, value) \in Int
               /\ Within(CharToFloat(text, side), value,
                         Tolerance(text, value))
    BY <1>3, <2>1, AmountIsReadRight
  <2>4. PICK c \in Int, x \in Int, y \in Int, v \in Int :
          /\ c = Tolerance(text, value) /\ v = value
          /\ x = CharToFloat(text, -1) /\ y = CharToFloat(text, 1)
          /\ Within(x, v, c) /\ Within(y, v, c)
    BY <2>3
  <2>5. v - c <= x /\ y <= v + c
    BY <2>4 DEF Within
  <2> QED
    BY <2>1, <2>2, <2>4, <2>5
<1>4. IInv => TextsAreReadRight
  BY <1>2, <1>3 DEF TextsAreReadRight
<1> QED
  BY <1>4, Invariance, PTL
=============================================================================
