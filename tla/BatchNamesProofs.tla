-------------------------- MODULE BatchNamesProofs --------------------------
(***************************************************************************)
(* The output names of a plan, for every request and every settings.  A    *)
(* suffix can be read from its end, because the digits of a number hold no *)
(* underscore and different numbers have different digits: two jobs get    *)
(* the same name only if the prompt, the seed and the variation are the    *)
(* same.                                                                   *)
(*                                                                         *)
(* The digits are defined by recursion, and what is said of all of them is *)
(* shown by the least number of which it would not hold.                   *)
(***************************************************************************)
EXTENDS BatchExpansionProofs, SequenceTheorems

LEMMA Least ==
    ASSUME NEW T, T \subseteq Nat, T # {}
    PROVE  \E x \in T : \A y \in T : x <= y
<1> DEFINE R == OpToRel(<, Nat)
<1>1. IsWellFoundedOn(R, Nat)
  BY NatLessThanWellFounded, Zenon
<1>2. \A x, y \in Nat : y < x => <<y, x>> \in R
  BY Zenon DEF OpToRel
<1> HIDE DEF R
<1>3. PICK x \in T : \A y \in T : ~(<<y, x>> \in R)
  BY <1>1, WFMin, Zenon
<1>4. ASSUME NEW y \in T PROVE x <= y
  <2>1. x \in Nat /\ y \in Nat
    OBVIOUS
  <2>2. ~(y < x)
    BY <1>2, <1>3, <2>1, Zenon
  <2> QED BY <2>1, <2>2
<1> QED BY <1>4

-----------------------------------------------------------------------------
(* The digits of a number.                                                 *)

\* What Digits has at n, from a function that has the digits of n \div 10.
Written(f, n) ==
    IF n < 10 THEN <<Numeral[n + 1]>>
    ELSE Append(f[n \div 10], Numeral[(n % 10) + 1])

\* f has the digits of the numbers up to n.
WrittenUpTo(f, n) == f = [m \in 0..n |-> Written(f, m)]

LEMMA Tenth ==
    ASSUME NEW n \in Nat, n >= 10
    PROVE  n \div 10 \in 0..(n - 1) /\ n \div 10 >= 1 /\ n % 10 \in 0..9
           /\ n = 10 * (n \div 10) + (n % 10)
<1>1. PICK q \in Nat, r \in 0..9 : q = n \div 10 /\ r = n % 10
  BY Division
<1>2. r = n - q * 10
  BY <1>1, Remainder
<1> QED BY <1>1, <1>2

\* Two functions that have the digits up to some number have the same.
LEMMA WrittenAlike ==
    ASSUME NEW f, NEW g, NEW n \in Nat, NEW m \in Nat,
           WrittenUpTo(f, n), WrittenUpTo(g, m),
           NEW k \in Nat, k <= n, k <= m
    PROVE  f[k] = g[k]
<1> DEFINE T == {i \in Nat : i <= n /\ i <= m /\ f[i] # g[i]}
<1>1. ASSUME T # {} PROVE FALSE
  <2>1. PICK x \in T : \A y \in T : x <= y
    BY <1>1, Least
  <2>2. f[x] = Written(f, x) /\ g[x] = Written(g, x)
    <3>1. x \in 0..n /\ x \in 0..m
      OBVIOUS
    <3> QED BY <3>1 DEF WrittenUpTo
  <2>3. CASE x < 10
    BY <2>2, <2>3 DEF Written
  <2>4. CASE ~(x < 10)
    <3>1. x \div 10 \in 0..(x - 1)
      BY <2>4, Tenth
    <3>2. f[x \div 10] = g[x \div 10]
      <4>1. x \div 10 \notin T
        BY <2>1, <3>1
      <4> QED BY <3>1, <4>1
    <3> QED BY <2>2, <2>4, <3>2 DEF Written
  <2> QED BY <2>3, <2>4
<1> QED BY <1>1

LEMMA WrittenExists == \A n \in Nat : \E f : WrittenUpTo(f, n)
<1> DEFINE T == {n \in Nat : ~\E f : WrittenUpTo(f, n)}
<1>1. ASSUME T # {} PROVE FALSE
  <2>1. PICK x \in T : \A y \in T : x <= y
    BY <1>1, Least
  <2>2. PICK f : x = 0 \/ WrittenUpTo(f, x - 1)
    <3>1. CASE x = 0
      BY <3>1
    <3>2. CASE x # 0
      <4>1. x - 1 \in Nat /\ x - 1 \notin T
        BY <2>1, <3>2
      <4> QED BY <4>1
    <3> QED BY <3>1, <3>2
  <2> DEFINE g == [m \in 0..x |-> IF m = x THEN Written(f, x) ELSE f[m]]
  <2>3. ASSUME NEW m \in 0..x PROVE g[m] = Written(g, m)
    <3>1. g[m] = Written(f, m)
      BY <2>2 DEF WrittenUpTo
    <3>2. Written(f, m) = Written(g, m)
      <4>1. CASE m < 10
        BY <4>1 DEF Written
      <4>2. CASE ~(m < 10)
        <5>1. m \div 10 \in 0..(m - 1)
          BY <4>2, Tenth
        <5>2. g[m \div 10] = f[m \div 10]
          BY <5>1
        <5> QED BY <4>2, <5>2 DEF Written
      <4> QED BY <4>1, <4>2
    <3> QED BY <3>1, <3>2
  <2>4. WrittenUpTo(g, x)
    BY <2>3 DEF WrittenUpTo
  <2> HIDE DEF g
  <2> QED BY <2>4
<1> QED BY <1>1

\* The recursion has a solution, and Digits is one.
LEMMA DigitsDef == \A n \in Nat : Digits[n] = Written(Digits, n)
<1> DEFINE F(n) == CHOOSE f : WrittenUpTo(f, n)
           D == [n \in Nat |-> F(n)[n]]
<1>1. \A n \in Nat : WrittenUpTo(F(n), n)
  BY WrittenExists
<1> HIDE DEF F
<1>2. ASSUME NEW n \in Nat PROVE D[n] = Written(D, n)
  <2>1. F(n)[n] = Written(F(n), n)
    BY <1>1 DEF WrittenUpTo
  <2>2. CASE n < 10
    BY <2>1, <2>2 DEF Written
  <2>3. CASE ~(n < 10)
    <3>1. n \div 10 \in Nat /\ n \div 10 <= n
      BY <2>3, Tenth
    <3>2. F(n)[n \div 10] = F(n \div 10)[n \div 10]
      BY <1>1, <3>1, WrittenAlike
    <3> QED BY <2>1, <2>3, <3>1, <3>2 DEF Written
  <2> QED BY <2>2, <2>3
<1>3. D = [n \in Nat |-> Written(D, n)]
  BY <1>2
<1> HIDE DEF D
<1>4. \E f : f = [n \in Nat |-> Written(f, n)]
  BY <1>3
<1>5. Digits = [n \in Nat |-> Written(Digits, n)]
  BY <1>4, Zenon DEF Digits, Written
<1> HIDE DEF Digits
<1> QED BY <1>5
\* The characters of a number.
DigitChars == {Numeral[i] : i \in 1..10}

LEMMA NumeralFacts ==
    /\ "_" \notin DigitChars
    /\ \A i \in 0..9 : Numeral[i + 1] \in DigitChars
    /\ \A i, j \in 0..9 : Numeral[i + 1] = Numeral[j + 1] => i = j
    /\ \A i \in 1..9 : Numeral[i + 1] # "0"
    /\ "0" \in DigitChars
<1>1. /\ Numeral[1] = "0" /\ Numeral[2] = "1" /\ Numeral[3] = "2" /\ Numeral[4] = "3"
      /\ Numeral[5] = "4" /\ Numeral[6] = "5" /\ Numeral[7] = "6" /\ Numeral[8] = "7"
      /\ Numeral[9] = "8" /\ Numeral[10] = "9"
  BY DEF Numeral
<1>2. \A k \in 1..10 : \/ k = 1 \/ k = 2 \/ k = 3 \/ k = 4 \/ k = 5
                      \/ k = 6 \/ k = 7 \/ k = 8 \/ k = 9 \/ k = 10
  OBVIOUS
<1>3. \A k \in 1..10 : Numeral[k] # "_"
  <2> SUFFICES ASSUME NEW k \in 1..10 PROVE Numeral[k] # "_"
    OBVIOUS
  <2>1. Numeral[k] \in {"0", "1", "2", "3", "4", "5", "6", "7", "8", "9"}
    BY <1>1, <1>2, Zenon
  <2> QED BY <2>1
<1>4. \A k, l \in 1..10 : Numeral[k] = Numeral[l] => k = l
  <2> DEFINE f == [c \in {Numeral[k] : k \in 1..10} |->
        IF c = "0" THEN 1 ELSE IF c = "1" THEN 2 ELSE IF c = "2" THEN 3
        ELSE IF c = "3" THEN 4 ELSE IF c = "4" THEN 5 ELSE IF c = "5" THEN 6
        ELSE IF c = "6" THEN 7 ELSE IF c = "7" THEN 8 ELSE IF c = "8" THEN 9 ELSE 10]
  <2>0. /\ "0" \in DOMAIN f /\ "1" \in DOMAIN f /\ "2" \in DOMAIN f /\ "3" \in DOMAIN f
        /\ "4" \in DOMAIN f /\ "5" \in DOMAIN f /\ "6" \in DOMAIN f /\ "7" \in DOMAIN f
        /\ "8" \in DOMAIN f /\ "9" \in DOMAIN f
    BY <1>1
  <2>1. /\ f["0"] = 1 /\ f["1"] = 2 /\ f["2"] = 3 /\ f["3"] = 4 /\ f["4"] = 5
        /\ f["5"] = 6 /\ f["6"] = 7 /\ f["7"] = 8 /\ f["8"] = 9 /\ f["9"] = 10
    BY <2>0
  <2> HIDE DEF f
  <2>2. \A k \in 1..10 : f[Numeral[k]] = k
    BY <1>1, <1>2, <2>1
  <2> QED BY <2>2
<1>5. \A i \in 0..9 : i + 1 \in 1..10
  OBVIOUS
<1>6. \A i, j \in 0..9 : i + 1 = j + 1 => i = j
  OBVIOUS
<1>7. \A i \in 1..9 : i + 1 \in 1..10 /\ i + 1 # 1
  OBVIOUS
<1>8. 1 \in 1..10
  OBVIOUS
<1>9. \A i, j \in 0..9 : Numeral[i + 1] = Numeral[j + 1] => i = j
  BY <1>4, <1>5, <1>6
<1>10. \A i \in 1..9 : Numeral[i + 1] # "0"
  BY <1>1, <1>4, <1>7, <1>8
<1> QED BY <1>1, <1>3, <1>5, <1>8, <1>9, <1>10, Zenon DEF DigitChars

LEMMA DigitsSmall ==
    ASSUME NEW n \in Nat, n < 10
    PROVE  \E c \in DigitChars : c = Numeral[n + 1] /\ Digits[n] = <<c>>
<1>1. Digits[n] = <<Numeral[n + 1]>>
  BY DigitsDef, Zenon DEF Written
<1>2. n \in 0..9
  OBVIOUS
<1>3. Numeral[n + 1] \in DigitChars
  BY <1>2, NumeralFacts, Zenon
<1> QED BY <1>1, <1>3, Zenon

LEMMA DigitsLarge ==
    ASSUME NEW n \in Nat, n >= 10
    PROVE  \E q \in Nat, r \in 0..9, c \in DigitChars :
               /\ n = 10 * q + r /\ q >= 1 /\ q < n
               /\ c = Numeral[r + 1] /\ Digits[n] = Append(Digits[q], c)
<1>1. ~(n < 10)
  OBVIOUS
<1>2. Digits[n] = Append(Digits[n \div 10], Numeral[(n % 10) + 1])
  BY <1>1, DigitsDef, Zenon DEF Written
<1>3. PICK q \in Nat, r \in 0..9 :
        q = n \div 10 /\ r = n % 10 /\ n = 10 * q + r /\ q >= 1 /\ q < n
  BY Tenth
<1>4. Digits[n] = Append(Digits[q], Numeral[r + 1])
  BY <1>2, <1>3, Zenon
<1>5. Numeral[r + 1] \in DigitChars
  BY NumeralFacts, Zenon
<1> QED BY <1>3, <1>4, <1>5, Zenon

LEMMA DigitsType ==
    \A n \in Nat : Digits[n] \in Seq(DigitChars) /\ Len(Digits[n]) >= 1
<1> DEFINE Typed(n) == Digits[n] \in Seq(DigitChars) /\ Len(Digits[n]) >= 1
           T == {n \in Nat : ~Typed(n)}
<1>1. ASSUME T # {} PROVE FALSE
  <2>1. PICK x \in T : \A y \in T : x <= y
    BY <1>1, Least
  <2>2. CASE x < 10
    <3>1. PICK c \in DigitChars : Digits[x] = <<c>>
      BY <2>2, DigitsSmall
    <3>2. Typed(x)
      BY <3>1
    <3> QED BY <3>2
  <2>3. CASE ~(x < 10)
    <3>1. PICK q \in Nat, c \in DigitChars : q < x /\ Digits[x] = Append(Digits[q], c)
      BY <2>3, DigitsLarge
    <3>2. Typed(q)
      <4> HIDE DEF Typed
      <4> QED BY <2>1, <3>1
    <3>3. Typed(x)
      BY <3>1, <3>2
    <3> QED BY <3>3
  <2> QED BY <2>2, <2>3
<1> QED BY <1>1

\* An appended sequence has its parts.
LEMMA AppendParts ==
    ASSUME NEW S, NEW s \in Seq(S), NEW t \in Seq(S), NEW c \in S, NEW d \in S,
           Append(s, c) = Append(t, d)
    PROVE  s = t /\ c = d
<1>1. Len(Append(s, c)) = Len(s) + 1 /\ Len(Append(t, d)) = Len(t) + 1
  OBVIOUS
<1>2. Len(s) = Len(t)
  BY <1>1
<1>3. Append(s, c)[Len(s) + 1] = c /\ Append(t, d)[Len(t) + 1] = d
  OBVIOUS
<1>4. ASSUME NEW i \in 1..Len(s) PROVE s[i] = t[i]
  <2>1. Append(s, c)[i] = s[i] /\ Append(t, d)[i] = t[i]
    BY <1>2
  <2> QED BY <2>1
<1>5. s = t
  BY <1>2, <1>4, SeqEqual
<1> QED BY <1>2, <1>3, <1>5

\* Different numbers have different digits.
LEMMA DigitsInjective ==
    \A n, m \in Nat : Digits[n] = Digits[m] => n = m
<1> DEFINE T == {n \in Nat : \E m \in Nat : Digits[n] = Digits[m] /\ n # m}
<1>1. ASSUME T # {} PROVE FALSE
  <2>1. PICK x \in T : \A y \in T : x <= y
    BY <1>1, Least
  <2>2. PICK m \in Nat : Digits[x] = Digits[m] /\ x # m
    OBVIOUS
  <2>3. ASSUME NEW n \in Nat
        PROVE  (n < 10 => Len(Digits[n]) = 1) /\ (n >= 10 => Len(Digits[n]) >= 2)
    <3>1. CASE n < 10
      <4>1. PICK c \in DigitChars : Digits[n] = <<c>>
        BY <3>1, DigitsSmall
      <4> QED BY <3>1, <4>1
    <3>2. CASE n >= 10
      <4>1. PICK c \in DigitChars, q \in Nat : Digits[n] = Append(Digits[q], c)
        BY <3>2, DigitsLarge
      <4>2. Digits[q] \in Seq(DigitChars) /\ Len(Digits[q]) >= 1
        BY DigitsType
      <4> QED BY <3>2, <4>1, <4>2
    <3> QED BY <3>1, <3>2
  <2> HIDE DEF T
  <2>4. CASE x < 10
    <3>1. m < 10 /\ x \in Nat
      <4>1. x \in Nat
        BY <2>1 DEF T
      <4>2. Len(Digits[m]) = 1
        BY <2>2, <2>3, <2>4, <4>1
      <4>3. ~(m >= 10)
        <5>1. m >= 10 => Len(Digits[m]) >= 2
          BY <2>2, <2>3
        <5> QED BY <4>2, <5>1
      <4>4. m < 10
        BY <2>2, <4>3
      <4> QED BY <4>1, <4>4
    <3>2. PICK c \in DigitChars : c = Numeral[x + 1] /\ Digits[x] = <<c>>
      BY <2>4, <3>1, DigitsSmall
    <3>3. PICK d \in DigitChars : d = Numeral[m + 1] /\ Digits[m] = <<d>>
      BY <3>1, DigitsSmall
    <3>4. c = d
      <4>1. <<c>> = <<d>>
        BY <2>2, <3>2, <3>3, Zenon
      <4> QED BY <4>1
    <3>5. x \in 0..9 /\ m \in 0..9
      BY <2>4, <3>1
    <3> QED BY <2>2, <3>2, <3>3, <3>4, <3>5, NumeralFacts, Zenon
  <2>5. CASE ~(x < 10)
    <3>1. m >= 10 /\ x >= 10 /\ x \in Nat
      BY <2>1, <2>2, <2>3, <2>5 DEF T
    <3>2. PICK q \in Nat, r \in 0..9, c \in DigitChars :
            /\ x = 10 * q + r /\ q < x
            /\ c = Numeral[r + 1] /\ Digits[x] = Append(Digits[q], c)
      BY <3>1, DigitsLarge
    <3>3. PICK u \in Nat, s \in 0..9, d \in DigitChars :
            /\ m = 10 * u + s /\ u >= 1 /\ u < m
            /\ d = Numeral[s + 1] /\ Digits[m] = Append(Digits[u], d)
      <4>1. m \in Nat /\ m >= 10
        BY <2>2, <3>1
      <4> QED BY <4>1, DigitsLarge, Zenon
    <3>4. Digits[q] = Digits[u] /\ c = d
      <4>1. PICK a \in Seq(DigitChars), b \in Seq(DigitChars) :
              a = Digits[q] /\ b = Digits[u]
        BY DigitsType
      <4>2. Append(a, c) = Append(b, d)
        BY <2>2, <3>2, <3>3, <4>1, Zenon
      <4>3. a = b /\ c = d
        BY <4>2, AppendParts
      <4> QED BY <4>1, <4>3
    <3>5. q = u
      <4>1. q \notin T
        BY <2>1, <3>1, <3>2
      <4> QED BY <3>4, <4>1 DEF T
    <3>6. r = s
      BY <3>2, <3>3, <3>4, NumeralFacts, Zenon
    <3> QED BY <2>2, <3>2, <3>3, <3>5, <3>6
  <2> QED BY <2>4, <2>5
<1> QED BY <1>1

\* No number of two digits or more begins with a zero.
LEMMA NoLeadingZero ==
    \A n \in Nat : n >= 1 => Digits[n][1] # "0"
<1> DEFINE T == {n \in Nat : n >= 1 /\ Digits[n][1] = "0"}
<1>1. ASSUME T # {} PROVE FALSE
  <2>1. PICK x \in T : \A y \in T : x <= y
    BY <1>1, Least
  <2>2. CASE x < 10
    <3>1. PICK c \in DigitChars : c = Numeral[x + 1] /\ Digits[x] = <<c>>
      BY <2>2, DigitsSmall
    <3>2. x \in 1..9
      BY <2>2
    <3>3. c # "0"
      BY <3>1, <3>2, NumeralFacts, Zenon
    <3> QED BY <3>1, <3>3
  <2>3. CASE ~(x < 10)
    <3>1. PICK q \in Nat, c \in DigitChars :
            q >= 1 /\ q < x /\ Digits[x] = Append(Digits[q], c)
      BY <2>3, DigitsLarge
    <3>2. Digits[q] \in Seq(DigitChars) /\ Len(Digits[q]) >= 1
      BY DigitsType
    <3>3. Digits[x][1] = Digits[q][1]
      BY <3>1, <3>2
    <3>4. q \in T
      BY <3>1, <3>3
    <3> QED BY <2>1, <3>1, <3>4
  <2> QED BY <2>2, <2>3
<1> QED BY <1>1

LEMMA TwoDigitsFacts ==
    /\ \A n \in Nat : TwoDigits(n) \in Seq(DigitChars)
    /\ \A n, m \in Nat : TwoDigits(n) = TwoDigits(m) => n = m
<1>1. ASSUME NEW n \in Nat PROVE TwoDigits(n) \in Seq(DigitChars)
  <2>1. Digits[n] \in Seq(DigitChars)
    BY DigitsType
  <2>2. ASSUME n < 10 PROVE <<"0", Numeral[n + 1]>> \in Seq(DigitChars)
    <3>1. n \in 0..9
      BY <2>2
    <3>2. PICK c \in DigitChars : c = Numeral[n + 1]
      BY <3>1, NumeralFacts, Zenon
    <3>3. "0" \in DigitChars
      BY NumeralFacts
    <3>4. <<"0", c>> \in Seq(DigitChars)
      BY <3>3
    <3> QED BY <3>2, <3>4, Zenon
  <2> QED BY <2>1, <2>2, Zenon DEF TwoDigits
<1>2. ASSUME NEW n \in Nat, n < 10
      PROVE  \E c \in DigitChars : c = Numeral[n + 1] /\ TwoDigits(n) = <<"0", c>>
  <2>1. n \in 0..9
    BY <1>2
  <2>2. Numeral[n + 1] \in DigitChars
    BY <2>1, NumeralFacts, Zenon
  <2> QED BY <1>2, <2>2, Zenon DEF TwoDigits
<1>3. ASSUME NEW n \in Nat, NEW m \in Nat, TwoDigits(n) = TwoDigits(m),
             n < 10, m >= 10
      PROVE  FALSE
  <2>1. PICK c \in DigitChars : TwoDigits(n) = <<"0", c>>
    BY <1>2, <1>3
  <2>2. ~(m < 10) /\ m >= 1
    BY <1>3
  <2>3. TwoDigits(m) = Digits[m]
    BY <2>2, Zenon DEF TwoDigits
  <2>4. Digits[m][1] = "0"
    <3>1. Digits[m] = <<"0", c>>
      BY <1>3, <2>1, <2>3, Zenon
    <3> QED BY <3>1
  <2> QED BY <2>2, <2>4, NoLeadingZero
<1>4. ASSUME NEW n \in Nat, NEW m \in Nat, TwoDigits(n) = TwoDigits(m)
      PROVE  n = m
  <2>1. CASE n < 10 /\ m < 10
    <3>1. PICK c \in DigitChars : c = Numeral[n + 1] /\ TwoDigits(n) = <<"0", c>>
      BY <1>2, <2>1
    <3>2. PICK d \in DigitChars : d = Numeral[m + 1] /\ TwoDigits(m) = <<"0", d>>
      BY <1>2, <2>1
    <3>3. c = d
      <4>1. <<"0", c>> = <<"0", d>>
        BY <1>4, <3>1, <3>2, Zenon
      <4> QED BY <4>1
    <3>4. n \in 0..9 /\ m \in 0..9
      BY <2>1
    <3> QED BY <3>1, <3>2, <3>3, <3>4, NumeralFacts, Zenon
  <2>2. CASE n >= 10 /\ m >= 10
    <3>1. ~(n < 10) /\ ~(m < 10)
      BY <2>2
    <3> QED BY <1>4, <3>1, DigitsInjective, Zenon DEF TwoDigits
  <2>3. n < 10 \/ n >= 10
    OBVIOUS
  <2>4. m < 10 \/ m >= 10
    OBVIOUS
  <2> QED BY <1>3, <1>4, <2>1, <2>2, <2>3, <2>4, Zenon
<1> QED BY <1>1, <1>4

-----------------------------------------------------------------------------
(* A name is read from its end.                                            *)

\* A text of characters of C ends with a tag, a bar b and a letter c, and with
\* characters of D, none of which is the bar.
Tagged(t, b, c, d) == (t \o <<b, c>>) \o d

ReadsAs(s, t, b, c, d) ==
    /\ Len(s) = Len(t) + 2 + Len(d)
    /\ \A i \in 1..(Len(t) + 2 + Len(d)) :
        s[i] = IF i <= Len(t) THEN t[i]
               ELSE IF i = Len(t) + 1 THEN b
               ELSE IF i = Len(t) + 2 THEN c
               ELSE d[i - (Len(t) + 2)]

LEMMA TaggedFacts ==
    ASSUME NEW C, NEW D \in SUBSET C, NEW b \in C, NEW c \in C,
           NEW t \in Seq(C), NEW d \in Seq(D)
    PROVE  Tagged(t, b, c, d) \in Seq(C) /\ ReadsAs(Tagged(t, b, c, d), t, b, c, d)
<1> DEFINE tag == <<b, c>>
<1>1. tag \in Seq(C) /\ Len(tag) = 2 /\ tag[1] = b /\ tag[2] = c
  OBVIOUS
<1> HIDE DEF tag
<1>2. d \in Seq(C)
  OBVIOUS
<1>3. PICK u \in Seq(C) :
        /\ u = t \o tag /\ Len(u) = Len(t) + 2
        /\ \A i \in 1..(Len(t) + 2) :
            u[i] = IF i <= Len(t) THEN t[i] ELSE tag[i - Len(t)]
  <2>1. /\ t \o tag \in Seq(C)
        /\ Len(t \o tag) = Len(t) + Len(tag)
        /\ \A i \in 1..(Len(t) + Len(tag)) :
            (t \o tag)[i] = IF i <= Len(t) THEN t[i] ELSE tag[i - Len(t)]
    BY <1>1, ConcatProperties, Zenon
  <2> QED BY <1>1, <2>1, Zenon
<1>4. /\ u \o d \in Seq(C) /\ Len(u \o d) = Len(u) + Len(d)
      /\ \A i \in 1..(Len(u) + Len(d)) :
            (u \o d)[i] = IF i <= Len(u) THEN u[i] ELSE d[i - Len(u)]
  BY <1>2, <1>3, ConcatProperties, Zenon
<1>5. Tagged(t, b, c, d) = u \o d
  BY <1>3, Zenon DEF Tagged, tag
<1>6. ASSUME NEW i \in 1..(Len(t) + 2 + Len(d))
      PROVE  (u \o d)[i] = IF i <= Len(t) THEN t[i]
                           ELSE IF i = Len(t) + 1 THEN b
                           ELSE IF i = Len(t) + 2 THEN c
                           ELSE d[i - (Len(t) + 2)]
  <2>1. Len(t) \in Nat /\ Len(d) \in Nat
    OBVIOUS
  <2>2. (u \o d)[i] = IF i <= Len(t) + 2 THEN u[i] ELSE d[i - (Len(t) + 2)]
    BY <1>3, <1>4, <2>1
  <2>3. i <= Len(t) + 2 => u[i] = IF i <= Len(t) THEN t[i] ELSE tag[i - Len(t)]
    BY <1>3, <2>1
  <2>4. CASE i <= Len(t)
    BY <2>1, <2>2, <2>3, <2>4
  <2>5. CASE i = Len(t) + 1
    <3>1. i - Len(t) = 1 /\ ~(i <= Len(t)) /\ i <= Len(t) + 2
      BY <2>1, <2>5
    <3> QED BY <1>1, <2>2, <2>3, <2>5, <3>1
  <2>6. CASE i = Len(t) + 2
    <3>1. i - Len(t) = 2 /\ ~(i <= Len(t)) /\ i # Len(t) + 1
      BY <2>1, <2>6
    <3> QED BY <1>1, <2>2, <2>3, <2>6, <3>1
  <2>7. CASE i > Len(t) + 2
    BY <2>1, <2>2, <2>7
  <2>8. i <= Len(t) \/ i = Len(t) + 1 \/ i = Len(t) + 2 \/ i > Len(t) + 2
    BY <2>1
  <2> QED BY <2>4, <2>5, <2>6, <2>7, <2>8, Zenon
<1>7. Len(u \o d) = Len(t) + 2 + Len(d)
  BY <1>3, <1>4
<1> QED BY <1>4, <1>5, <1>6, <1>7, Zenon DEF ReadsAs

\* The last underscore is where the tag begins.
LEMMA NoLaterTag ==
    ASSUME NEW C, NEW D \in SUBSET C, NEW b \in C, b \notin D,
           NEW c \in C, c # b,
           NEW t \in Seq(C), NEW u \in Seq(C),
           NEW d \in Seq(D), NEW e \in Seq(D),
           NEW x, ReadsAs(x, t, b, c, d), ReadsAs(x, u, b, c, e)
    PROVE  ~(Len(t) < Len(u))
<1> SUFFICES ASSUME Len(t) < Len(u) PROVE FALSE
  OBVIOUS
<1> DEFINE k == Len(u) + 1
<1>1. Len(t) \in Nat /\ Len(u) \in Nat /\ Len(d) \in Nat /\ Len(e) \in Nat
  OBVIOUS
<1>2. Len(t) + 2 + Len(d) = Len(u) + 2 + Len(e)
  BY DEF ReadsAs
<1>3. k \in 1..(Len(u) + 2 + Len(e)) /\ x[k] = b
  <2>1. k \in 1..(Len(u) + 2 + Len(e)) /\ ~(k <= Len(u))
    BY <1>1
  <2> QED BY <2>1 DEF ReadsAs
<1>4. k \in 1..(Len(t) + 2 + Len(d)) /\ k > Len(t) + 1
  BY <1>1, <1>2
<1> HIDE DEF k
<1>5. CASE k = Len(t) + 2
  <2>1. x[k] = c
    BY <1>1, <1>4, <1>5 DEF ReadsAs
  <2> QED BY <1>3, <2>1
<1>6. CASE k > Len(t) + 2
  <2>1. k - (Len(t) + 2) \in 1..Len(d)
    BY <1>1, <1>4, <1>6
  <2>2. x[k] = d[k - (Len(t) + 2)]
    <3>1. ~(k <= Len(t)) /\ k # Len(t) + 1 /\ k # Len(t) + 2
      BY <1>1, <1>4, <1>6
    <3> QED BY <1>4, <3>1 DEF ReadsAs
  <2>3. d[k - (Len(t) + 2)] \in D
    BY <2>1
  <2> QED BY <1>3, <2>2, <2>3
<1> QED BY <1>1, <1>4, <1>5, <1>6

LEMMA TagsMatch ==
    ASSUME NEW C, NEW D \in SUBSET C, NEW b \in C, b \notin D,
           NEW c \in C, c # b,
           NEW t \in Seq(C), NEW u \in Seq(C),
           NEW d \in Seq(D), NEW e \in Seq(D),
           NEW x, ReadsAs(x, t, b, c, d), ReadsAs(x, u, b, c, e)
    PROVE  t = u /\ d = e
<1>1. Len(t) \in Nat /\ Len(u) \in Nat /\ Len(d) \in Nat /\ Len(e) \in Nat
  OBVIOUS
<1>2. Len(t) + 2 + Len(d) = Len(u) + 2 + Len(e)
  BY DEF ReadsAs
<1>3. ~(Len(t) < Len(u)) /\ ~(Len(u) < Len(t))
  BY NoLaterTag
<1>4. Len(t) = Len(u) /\ Len(d) = Len(e)
  BY <1>1, <1>2, <1>3
<1>5. ASSUME NEW i \in 1..Len(t) PROVE t[i] = u[i]
  <2>1. i \in 1..(Len(t) + 2 + Len(d)) /\ i <= Len(t) /\ i <= Len(u)
    BY <1>1, <1>4
  <2>2. x[i] = t[i]
    BY <2>1 DEF ReadsAs
  <2>3. x[i] = u[i]
    BY <1>4, <2>1 DEF ReadsAs
  <2> QED BY <2>2, <2>3
<1>6. ASSUME NEW i \in 1..Len(d) PROVE d[i] = e[i]
  <2> DEFINE k == i + (Len(t) + 2)
  <2>1. /\ k \in 1..(Len(t) + 2 + Len(d)) /\ k > Len(t) + 2
        /\ k - (Len(t) + 2) = i
    BY <1>1
  <2>2. x[k] = d[i]
    <3>1. ~(k <= Len(t)) /\ k # Len(t) + 1 /\ k # Len(t) + 2
      BY <1>1, <2>1
    <3> QED BY <2>1, <3>1 DEF ReadsAs
  <2>3. x[k] = e[i]
    <3>1. /\ k \in 1..(Len(u) + 2 + Len(e)) /\ k - (Len(u) + 2) = i
          /\ ~(k <= Len(u)) /\ k # Len(u) + 1 /\ k # Len(u) + 2
      BY <1>1, <1>4, <2>1
    <3> QED BY <3>1 DEF ReadsAs
  <2> QED BY <2>2, <2>3
<1>7. t = u
  BY <1>4, <1>5, SeqEqual
<1>8. d = e
  BY <1>4, <1>6, SeqEqual
<1> QED BY <1>7, <1>8

\* s is t followed by w.
Joined(C, t, w, s) == w \in Seq(C) /\ s \in Seq(C) /\ s = t \o w

LEMMA JoinMore ==
    ASSUME NEW C, NEW t \in Seq(C), NEW w, NEW s, NEW a \in Seq(C), Joined(C, t, w, s)
    PROVE  Joined(C, t, w \o a, s \o a)
BY ConcatAssociative DEF Joined

\* a is t and three tags, with the parts p, s and v after them.
Composed(a, t, b, x, p, y, s, z, v) ==
    a = Tagged(Tagged(Tagged(t, b, x, p), b, y, s), b, z, v)

\* Three tags in a row, each with the characters that follow it.
LEMMA ThreeTags ==
    ASSUME NEW C, NEW t \in Seq(C), NEW b \in C, NEW x \in C, NEW y \in C, NEW z \in C,
           NEW p \in Seq(C), NEW s \in Seq(C), NEW v \in Seq(C)
    PROVE  Composed(t \o (<<b, x>> \o p \o <<b, y>> \o s \o <<b, z>> \o v),
                    t, b, x, p, y, s, z, v)
<1> DEFINE X == <<b, x>>
           Y == <<b, y>>
           Z == <<b, z>>
<1>1. X \in Seq(C) /\ Y \in Seq(C) /\ Z \in Seq(C)
  OBVIOUS
<1>2. Joined(C, t, X \o p \o Y \o s \o Z \o v, t \o X \o p \o Y \o s \o Z \o v)
  <2> HIDE DEF X, Y, Z
  <2>1. Joined(C, t, X, t \o X)
    BY <1>1, ConcatProperties DEF Joined
  <2>2. Joined(C, t, X \o p, t \o X \o p)
    BY <2>1, JoinMore, Zenon
  <2>3. Joined(C, t, X \o p \o Y, t \o X \o p \o Y)
    BY <1>1, <2>2, JoinMore, Zenon
  <2>4. Joined(C, t, X \o p \o Y \o s, t \o X \o p \o Y \o s)
    BY <2>3, JoinMore, Zenon
  <2>5. Joined(C, t, X \o p \o Y \o s \o Z, t \o X \o p \o Y \o s \o Z)
    BY <1>1, <2>4, JoinMore, Zenon
  <2> QED BY <2>5, JoinMore, Zenon
<1> QED BY <1>2, Zenon DEF Composed, Tagged, Joined

\* s ends with a tag and what follows it.
Ends(C, D, b, c, s, t, d) ==
    /\ D \in SUBSET C /\ b \in C /\ b \notin D /\ c \in C /\ c # b
    /\ t \in Seq(C) /\ d \in Seq(D) /\ s \in Seq(C)
    /\ ReadsAs(s, t, b, c, d)

LEMMA TaggedEnds ==
    ASSUME NEW C, NEW D \in SUBSET C, NEW b \in C, b \notin D, NEW c \in C, c # b,
           NEW t \in Seq(C), NEW d \in Seq(D)
    PROVE  Ends(C, D, b, c, Tagged(t, b, c, d), t, d)
<1>1. Tagged(t, b, c, d) \in Seq(C) /\ ReadsAs(Tagged(t, b, c, d), t, b, c, d)
  BY TaggedFacts
<1> QED BY <1>1, Zenon DEF Ends

\* In one way only.
LEMMA OneEnding ==
    ASSUME NEW C, NEW D, NEW b, NEW c, NEW s, NEW t, NEW u, NEW d, NEW e,
           Ends(C, D, b, c, s, t, d), Ends(C, D, b, c, s, u, e)
    PROVE  t = u /\ d = e
BY TagsMatch DEF Ends

\* A bar that is in no part, and three letters that are not the bar.
ThreeLetters(C, D, b, x, y, z) ==
    /\ D \in SUBSET C /\ b \in C /\ b \notin D
    /\ x \in C /\ y \in C /\ z \in C /\ x # b /\ y # b /\ z # b

Parts(C, D, t, p, s, v) == t \in Seq(C) /\ p \in Seq(D) /\ s \in Seq(D) /\ v \in Seq(D)

\* From a text with three tags, all three are read back.
LEMMA TagsReadBack ==
    ASSUME NEW C, NEW D, NEW b, NEW x, NEW y, NEW z, ThreeLetters(C, D, b, x, y, z),
           NEW a, NEW t, NEW p, NEW s, NEW v, NEW u, NEW q, NEW r, NEW w,
           Parts(C, D, t, p, s, v), Parts(C, D, u, q, r, w),
           Composed(a, t, b, x, p, y, s, z, v), Composed(a, u, b, x, q, y, r, z, w)
    PROVE  p = q /\ s = r /\ v = w
<1> USE DEF ThreeLetters, Parts
<1> DEFINE t1 == Tagged(t, b, x, p)
           t2 == Tagged(t1, b, y, s)
           t3 == Tagged(t2, b, z, v)
           u1 == Tagged(u, b, x, q)
           u2 == Tagged(u1, b, y, r)
           u3 == Tagged(u2, b, z, w)
<1>0. t3 = u3
  BY Zenon DEF Composed
<1>1. Ends(C, D, b, x, t1, t, p) /\ Ends(C, D, b, x, u1, u, q)
  BY TaggedEnds, Zenon
<1>2. t1 \in Seq(C) /\ u1 \in Seq(C)
  BY <1>1, Zenon DEF Ends
<1> HIDE DEF t1, u1
<1>3. Ends(C, D, b, y, t2, t1, s) /\ Ends(C, D, b, y, u2, u1, r)
  BY <1>2, TaggedEnds, Zenon
<1>4. t2 \in Seq(C) /\ u2 \in Seq(C)
  BY <1>3, Zenon DEF Ends
<1> HIDE DEF t2, u2
<1>5. Ends(C, D, b, z, t3, t2, v) /\ Ends(C, D, b, z, u3, u2, w)
  BY <1>4, TaggedEnds, Zenon
<1> HIDE DEF t3, u3
<1>6. t2 = u2 /\ v = w
  BY <1>0, <1>5, OneEnding, Zenon
<1>7. t1 = u1 /\ s = r
  BY <1>3, <1>6, OneEnding, Zenon
<1>8. p = q
  BY <1>1, <1>7, OneEnding, Zenon
<1> QED BY <1>6, <1>7, <1>8

-----------------------------------------------------------------------------
\* The characters of a name.
Chars == STRING \cup DigitChars \cup {"_", "p", "s", "v", "t", "e", "x"}

LEMMA CharFacts ==
    /\ DigitChars \in SUBSET Chars /\ "_" \in Chars /\ "_" \notin DigitChars
    /\ "p" \in Chars /\ "s" \in Chars /\ "v" \in Chars
    /\ "t" \in Chars /\ "e" \in Chars /\ "x" \in Chars
    /\ "p" # "_" /\ "s" # "_" /\ "v" # "_"
<1>1. "_" \notin DigitChars
  BY NumeralFacts, Zenon
<1>2. "p" # "_" /\ "s" # "_" /\ "v" # "_"
  OBVIOUS
<1> QED BY <1>1, <1>2, Zenon DEF Chars

LEMMA WiderSeq ==
    ASSUME NEW C, NEW D \in SUBSET C, NEW d \in Seq(D)
    PROVE  d \in Seq(C)
OBVIOUS

\* The three tags of a suffix.
LEMMA SuffixTags ==
    ASSUME NEW t \in Seq(Chars), NEW b \in Chars, NEW x \in Chars, NEW y \in Chars,
           NEW z \in Chars, b = "_", x = "p", y = "s", z = "v",
           NEW p \in Nat, NEW s \in Nat, NEW v \in Nat
    PROVE  /\ TwoDigits(p) \in Seq(DigitChars) /\ Digits[s] \in Seq(DigitChars)
           /\ TwoDigits(v) \in Seq(DigitChars)
           /\ Composed(t \o Suffix(p, s, v), t, b, x, TwoDigits(p), y, Digits[s],
                       z, TwoDigits(v))
<1> DEFINE P == TwoDigits(p)
           S == Digits[s]
           V == TwoDigits(v)
<1>1. P \in Seq(DigitChars) /\ S \in Seq(DigitChars) /\ V \in Seq(DigitChars)
  BY TwoDigitsFacts, DigitsType, Zenon
<1>2. Suffix(p, s, v) = <<b, x>> \o P \o <<b, y>> \o S \o <<b, z>> \o V
  BY Zenon DEF Suffix
<1> HIDE DEF P, S, V
<1>3. P \in Seq(Chars) /\ S \in Seq(Chars) /\ V \in Seq(Chars)
  BY <1>1, CharFacts, WiderSeq, Zenon
<1>4. Composed(t \o (<<b, x>> \o P \o <<b, y>> \o S \o <<b, z>> \o V),
               t, b, x, P, y, S, z, V)
  BY <1>3, ThreeTags, Zenon
<1> QED BY <1>1, <1>2, <1>4, Zenon DEF P, S, V

\* A name that ends with its suffix.
EndsWith(name, suffix) == \E t \in Seq(Chars) : name = t \o suffix

\* A name ends with the suffix of one job only.
LEMMA SuffixesDiffer ==
    ASSUME NEW name, NEW p \in Nat, NEW s \in Nat, NEW v \in Nat,
           NEW q \in Nat, NEW r \in Nat, NEW w \in Nat,
           EndsWith(name, Suffix(p, s, v)), EndsWith(name, Suffix(q, r, w))
    PROVE  p = q /\ s = r /\ v = w
<1>0. PICK t \in Seq(Chars), u \in Seq(Chars) :
        t \o Suffix(p, s, v) = u \o Suffix(q, r, w)
  BY Zenon DEF EndsWith
<1>1. PICK b \in Chars, x \in Chars, y \in Chars, z \in Chars :
        b = "_" /\ x = "p" /\ y = "s" /\ z = "v"
  BY CharFacts, Zenon
<1>2. ThreeLetters(Chars, DigitChars, b, x, y, z)
  BY <1>1, CharFacts, Zenon DEF ThreeLetters
<1> DEFINE P == TwoDigits(p)
           Q == TwoDigits(q)
           S == Digits[s]
           R == Digits[r]
           V == TwoDigits(v)
           W == TwoDigits(w)
<1>3. /\ Parts(Chars, DigitChars, t, P, S, V) /\ Parts(Chars, DigitChars, u, Q, R, W)
      /\ Composed(t \o Suffix(p, s, v), t, b, x, P, y, S, z, V)
      /\ Composed(u \o Suffix(q, r, w), u, b, x, Q, y, R, z, W)
  BY <1>1, SuffixTags, Zenon DEF Parts
<1> HIDE DEF P, Q, S, R, V, W
<1>5. PICK a : /\ Composed(a, t, b, x, P, y, S, z, V)
               /\ Composed(a, u, b, x, Q, y, R, z, W)
  BY <1>0, <1>3, Zenon
<1>6. P = Q /\ S = R /\ V = W
  BY <1>2, <1>3, <1>5, TagsReadBack, Zenon
<1> QED BY <1>6, TwoDigitsFacts, DigitsInjective, Zenon DEF P, Q, S, R, V, W

-----------------------------------------------------------------------------
(* The names of the jobs of a plan.                                        *)

LEMMA MaxOfRange ==
    ASSUME NEW n \in Nat, NEW S \in SUBSET (1..n), S # {}
    PROVE  Max(S) \in S
<1> DEFINE T == {n - i : i \in S}
<1>1. \A i \in S : i \in Int /\ n - i \in Nat /\ n - i \in T
  OBVIOUS
<1>2. T \subseteq Nat /\ T # {}
  BY <1>1
<1>3. PICK x \in T : \A y \in T : x <= y
  BY <1>2, Least
<1>4. PICK i \in S : x = n - i
  BY <1>3
<1> HIDE DEF T
<1>5. \A j \in S : i >= j
  BY <1>1, <1>3, <1>4
<1>6. \E j \in S : \A l \in S : j >= l
  BY <1>5
<1> QED BY <1>6, Zenon DEF Max

LEMMA MinOfTwo ==
    ASSUME NEW a \in Int, NEW b \in Int
    PROVE  Min({a, b}) \in {a, b} /\ Min({a, b}) <= a /\ Min({a, b}) <= b
<1>1. \E x \in {a, b} : \A y \in {a, b} : x <= y
  OBVIOUS
<1>2. Min({a, b}) \in {a, b} /\ \A y \in {a, b} : Min({a, b}) <= y
  BY <1>1, Zenon DEF Min
<1> QED BY <1>2

\* What is left of a text is a start of it.
LEMMA StrippedFacts ==
    ASSUME NEW C, NEW s \in Seq(C)
    PROVE  Stripped(s) \in Seq(C) /\ Len(Stripped(s)) <= Len(s)
<1> DEFINE kept == {i \in 1..Len(s) : s[i] \notin {"_", "-", "."}}
           last == IF kept = {} THEN 0 ELSE Max(kept)
<1>0. Len(s) \in Nat
  OBVIOUS
<1>1. kept \in SUBSET (1..Len(s))
  BY Zenon
<1>2. Stripped(s) = SubSeq(s, 1, last)
  BY Zenon DEF Stripped
<1> HIDE DEF kept
<1>3. last \in 0..Len(s)
  <2>1. CASE kept = {}
    BY <1>0, <2>1
  <2>2. CASE kept # {}
    <3>1. Max(kept) \in kept
      BY <1>0, <1>1, <2>2, MaxOfRange
    <3>2. Max(kept) \in 1..Len(s)
      BY <1>1, <3>1, Zenon
    <3>3. last = Max(kept)
      BY <2>2, Zenon
    <3> QED BY <1>0, <3>2, <3>3
  <2> QED BY <2>1, <2>2
<1> HIDE DEF last
<1>4. SubSeq(s, 1, last) \in Seq(C) /\ Len(SubSeq(s, 1, last)) <= Len(s)
  BY <1>0, <1>3
<1> QED BY <1>2, <1>4

\* A text that is not empty.
Filled(C, s) == s \in Seq(C) /\ Len(s) >= 1

LEMMA FilledMore ==
    ASSUME NEW C, NEW s, NEW a \in Seq(C), Filled(C, s)
    PROVE  Filled(C, s \o a)
BY ConcatProperties DEF Filled

LEMMA SuffixType ==
    ASSUME NEW p \in Nat, NEW s \in Nat, NEW v \in Nat
    PROVE  Filled(Chars, Suffix(p, s, v))
<1>1. PICK b \in Chars, x \in Chars, y \in Chars, z \in Chars :
        b = "_" /\ x = "p" /\ y = "s" /\ z = "v"
  BY CharFacts, Zenon
<1> DEFINE P == TwoDigits(p)
           S == Digits[s]
           V == TwoDigits(v)
           X == <<b, x>>
           Y == <<b, y>>
           Z == <<b, z>>
<1>2. Suffix(p, s, v) = X \o P \o Y \o S \o Z \o V
  BY <1>1, Zenon DEF Suffix
<1>3. P \in Seq(DigitChars) /\ S \in Seq(DigitChars) /\ V \in Seq(DigitChars)
  BY TwoDigitsFacts, DigitsType, Zenon
<1> HIDE DEF P, S, V
<1>4. P \in Seq(Chars) /\ S \in Seq(Chars) /\ V \in Seq(Chars)
  BY <1>3, CharFacts, WiderSeq, Zenon
<1>5. Filled(Chars, X) /\ Y \in Seq(Chars) /\ Z \in Seq(Chars)
  BY DEF Filled
<1> HIDE DEF X, Y, Z
<1>6. Filled(Chars, X \o P \o Y)
  BY <1>4, <1>5, FilledMore, Zenon
<1>7. Filled(Chars, X \o P \o Y \o S \o Z)
  BY <1>4, <1>5, <1>6, FilledMore, Zenon
<1> QED BY <1>2, <1>4, <1>7, FilledMore, Zenon

LEMMA OutputNameFacts ==
    ASSUME NEW stem \in Seq(STRING), NEW suffix, Filled(Chars, suffix),
           NEW length \in Nat \ {0}
    PROVE  /\ Len(OutputName(stem, suffix, length)) \in 1..length
           /\ Len(suffix) <= length => EndsWith(OutputName(stem, suffix, length), suffix)
<1> DEFINE room    == length - Len(suffix)
           trimmed == Stripped(SubSeq(stem, 1, Min({room, Len(stem)})))
           name    == OutputName(stem, suffix, length)
<1>1. suffix \in Seq(Chars) /\ Len(suffix) \in Nat /\ Len(suffix) >= 1 /\ room \in Int
  BY DEF Filled
<1>2. <<>> \in Seq(Chars) /\ <<>> \o suffix = suffix
  BY <1>1, ConcatEmptySeq
<1>3. CASE room <= 0
  <2>1. name = SubSeq(suffix, Len(suffix) - length + 1, Len(suffix))
    BY <1>3, Zenon DEF OutputName, LastOf
  <2>2. Len(SubSeq(suffix, Len(suffix) - length + 1, Len(suffix))) = length
    BY <1>1, <1>3
  <2>3. ASSUME Len(suffix) <= length PROVE name = suffix
    <3>1. Len(suffix) - length + 1 = 1
      BY <1>1, <1>3, <2>3
    <3>2. SubSeq(suffix, 1, Len(suffix)) = suffix
      BY <1>1
    <3> QED BY <2>1, <3>1, <3>2
  <2>4. Len(name) \in 1..length
    BY <2>1, <2>2
  <2> QED BY <1>2, <2>3, <2>4, Zenon DEF EndsWith
<1>4. CASE room > 0 /\ trimmed # <<>>
  <2>1. name = trimmed \o suffix
    <3>1. ~(room <= 0)
      BY <1>1, <1>4
    <3> QED BY <1>4, <3>1, Zenon DEF OutputName
  <2> DEFINE m == Min({room, Len(stem)})
  <2>2. m \in Nat /\ m <= room /\ m <= Len(stem)
    <3>1. Len(stem) \in Nat
      OBVIOUS
    <3>2. room \in Nat
      BY <1>1, <1>4
    <3>3. \A a, c \in Nat : Min({a, c}) \in Nat /\ Min({a, c}) <= a /\ Min({a, c}) <= c
      BY MinOfTwo
    <3> QED BY <3>1, <3>2, <3>3, Zenon
  <2> HIDE DEF m
  <2>3. SubSeq(stem, 1, m) \in Seq(STRING) /\ Len(SubSeq(stem, 1, m)) = m
    BY <2>2
  <2>4. trimmed \in Seq(STRING) /\ Len(trimmed) <= m
    BY <2>2, <2>3, StrippedFacts DEF m
  <2> HIDE DEF trimmed
  <2>5. trimmed \in Seq(Chars)
    <3>1. STRING \in SUBSET Chars
      BY Zenon DEF Chars
    <3> QED BY <2>4, <3>1, WiderSeq, Zenon
  <2>6. Len(trimmed \o suffix) = Len(trimmed) + Len(suffix)
    BY <1>1, <2>5, ConcatProperties
  <2>7. Len(name) \in 1..length
    BY <1>1, <2>1, <2>2, <2>4, <2>6
  <2> QED BY <2>1, <2>5, <2>7, Zenon DEF EndsWith
<1>5. CASE room > 0 /\ room < 3 /\ trimmed = <<>>
  <2>1. name = suffix
    <3>1. ~(room <= 0)
      BY <1>1, <1>5
    <3> QED BY <1>5, <3>1, Zenon DEF OutputName
  <2>2. Len(suffix) \in 1..length
    BY <1>1, <1>5
  <2> QED BY <1>2, <2>1, <2>2, Zenon DEF EndsWith
<1>6. CASE room >= 3 /\ trimmed = <<>>
  <2>1. name = <<"t", "e", "x">> \o suffix
    <3>1. ~(room <= 0) /\ ~(room < 3)
      BY <1>1, <1>6
    <3> QED BY <1>6, <3>1, Zenon DEF OutputName
  <2>2. PICK tex \in Seq(Chars) : tex = <<"t", "e", "x">> /\ Len(tex) = 3
    <3>1. \A a, b, c \in Chars : <<a, b, c>> \in Seq(Chars) /\ Len(<<a, b, c>>) = 3
      OBVIOUS
    <3> QED BY <3>1, CharFacts, Zenon
  <2>3. Len(tex \o suffix) = 3 + Len(suffix)
    BY <1>1, <2>2, ConcatProperties
  <2>4. 3 + Len(suffix) \in 1..length
    BY <1>1, <1>6
  <2>5. name = tex \o suffix
    BY <2>1, <2>2, Zenon
  <2> QED BY <2>3, <2>4, <2>5, Zenon DEF EndsWith
<1> HIDE DEF trimmed
<1>7. \/ room <= 0
      \/ room > 0 /\ trimmed # <<>>
      \/ room > 0 /\ room < 3 /\ trimmed = <<>>
      \/ room >= 3 /\ trimmed = <<>>
  BY <1>1
<1> QED BY <1>3, <1>4, <1>5, <1>6, <1>7, Zenon

-----------------------------------------------------------------------------
\* m is the place of variation v of base seed c of prompt q.
Counted(n, k, d, m, q, c, v) ==
    /\ q \in Nat /\ c \in 0..(n - 1) /\ v \in 0..(k - 1)
    /\ q = m \div d /\ c = (m % d) \div k /\ v = m % k
    /\ m = q * d + c * k + v

\* The place of a job is known from the counters of the three loops.
LEMMA PlaceOfCounters ==
    ASSUME NEW n \in Nat \ {0}, NEW k \in Nat \ {0}, NEW d \in Nat \ {0}, d = n * k,
           NEW m \in Nat
    PROVE  \E q, c, v : Counted(n, k, d, m, q, c, v)
<1>1. PICK q \in Nat, r \in Nat : q = m \div d /\ r = m % d /\ m = q * d + r
  <2>1. m \div d \in Nat /\ m % d \in Nat
    BY Division
  <2>2. m % d = m - (m \div d) * d
    BY Remainder
  <2>3. \A q, r \in Nat : r = m - q * d => m = q * d + r
    <3>1. \A q \in Nat : q * d \in Nat
      OBVIOUS
    <3>2. \A a, r \in Nat : r = m - a => m = a + r
      OBVIOUS
    <3> QED BY <3>1, <3>2, Zenon
  <2> QED BY <2>1, <2>2, <2>3, Zenon
<1>2. PICK c \in Nat, v \in 0..(k - 1) : c = r \div k /\ r = c * k + v
  <2>1. r \div k \in Nat /\ r % k \in 0..(k - 1)
    BY Division
  <2>2. r % k = r - (r \div k) * k
    BY Remainder
  <2> QED BY <2>1, <2>2
<1>3. c \in 0..(n - 1)
  <2>1. (m % (n * k)) \div k \in 0..(n - 1)
    BY CountersOfItem
  <2> QED BY <1>1, <1>2, <2>1, Zenon
<1>4. m = q * d + c * k + v
  <2>1. PICK a \in Nat, b \in Nat : a = q * d /\ b = c * k
    OBVIOUS
  <2>2. m = a + r /\ r = b + v
    BY <1>1, <1>2, <2>1
  <2>3. m = a + b + v
    BY <2>2
  <2> QED BY <2>1, <2>3, Zenon
<1>5. m % k = v
  <2>1. PICK e \in Nat : e = q * n + c
    OBVIOUS
  <2>2. q * d = (q * n) * k
    OBVIOUS
  <2>3. m = e * k + v
    BY <1>4, <2>1, <2>2
  <2> QED BY <2>3, DivisionUnique
<1> QED BY <1>1, <1>2, <1>3, <1>4, <1>5, Zenon DEF Counted

\* A job of a plan, and the suffix of its name.
Job(x) == x.prompt \in Nat /\ x.seed \in Nat /\ x.variation \in Nat

SameJob(x, y) == x.prompt = y.prompt /\ x.seed = y.seed /\ x.variation = y.variation

SuffixOf(x) == Suffix(x.prompt, x.seed, x.variation)

LEMMA NameOfOneJob ==
    ASSUME NEW x, Job(x), NEW y, Job(y), NEW name,
           EndsWith(name, SuffixOf(x)), EndsWith(name, SuffixOf(y))
    PROVE  SameJob(x, y)
<1>1. PICK p \in Nat, s \in Nat, v \in Nat :
        p = x.prompt /\ s = x.seed /\ v = x.variation
  BY Zenon DEF Job
<1>2. PICK q \in Nat, r \in Nat, w \in Nat :
        q = y.prompt /\ r = y.seed /\ w = y.variation
  BY Zenon DEF Job
<1>3. EndsWith(name, Suffix(p, s, v)) /\ EndsWith(name, Suffix(q, r, w))
  BY <1>1, <1>2, Zenon DEF SuffixOf
<1>4. p = q /\ s = r /\ v = w
  BY <1>3, SuffixesDiffer
<1> QED BY <1>1, <1>2, <1>4, Zenon DEF SameJob

\* The names of the jobs of a plan.
Named(req, set, items) ==
    \A i \in 1..Len(items) :
        items[i].name = OutputName(req.name, SuffixOf(items[i]), set.maxLength)

LEMMA PlanIsNamed ==
    ASSUME NEW req \in RequestType, NEW set \in SettingsType,
           req.variations \in Nat \ {0}, NEW first \in Int, NEW n \in Nat \ {0},
           NEW bases, bases = Block(first, n), Plan(req, set, bases).error = "none"
    PROVE  Named(req, set, Plan(req, set, bases).items)
<1> DEFINE N == Len(req.prompts) * Len(bases) * req.variations
           items == Items(req, set, bases)
<1>1. Plan(req, set, bases).items = items
  BY DEF Plan, Rejected
<1>2. \A i \in 1..N : items[i] = Item(req, set, bases, i - 1)
  BY DEF Items
<1>3. ASSUME NEW i \in 1..N
      PROVE  items[i].name = OutputName(req.name, SuffixOf(items[i]), set.maxLength)
  <2> DEFINE item == Item(req, set, bases, i - 1)
  <2>1. item.name = OutputName(req.name, SuffixOf(item), set.maxLength)
    BY DEF Item, SuffixOf
  <2> HIDE DEF item, items
  <2> QED BY <1>2, <2>1, Zenon DEF item
<1>4. Len(items) = N
  <2>1. Len(req.prompts) \in Nat /\ Len(bases) = n
    BY DEF RequestType, Block
  <2>2. N \in Nat
    BY <2>1
  <2> HIDE DEF N
  <2>3. Len([i \in 1..N |-> Item(req, set, bases, i - 1)]) = N
    BY <2>2
  <2> QED BY <2>3, Zenon DEF Items, N
<1> QED BY <1>1, <1>3, <1>4, Zenon DEF Named

LEMMA JobsDiffer ==
    ASSUME NEW items, NEW first \in Nat, NEW n \in Nat \ {0}, NEW k \in Nat \ {0},
           NEW np \in Nat, Loops(items, first, n, k, np)
    PROVE  /\ \A i \in 1..Len(items) : Job(items[i])
           /\ \A i, j \in 1..Len(items) : SameJob(items[i], items[j]) => i = j
<1>1. PICK d \in Nat \ {0} : d = n * k
  BY ProductPositive
<1>2. Len(items) = np * d /\ np * d \in Nat
  BY <1>1 DEF Loops
<1> DEFINE Place(i, q, c, v) ==
                /\ items[i].prompt = q /\ items[i].variation = v
                /\ items[i].seed = (first + c) + v * n
                /\ i = q * d + c * k + v + 1
<1>3. ASSUME NEW i \in 1..Len(items)
      PROVE  \E q \in Nat, c \in 0..(n - 1), v \in 0..(k - 1) : Place(i, q, c, v)
  <2>1. PICK m \in Nat : m = i - 1
    BY <1>2
  <2> HIDE DEF Place
  <2>0. PICK q, c, v : Counted(n, k, d, m, q, c, v)
    BY <1>1, PlaceOfCounters
  <2>2. /\ q \in Nat /\ c \in 0..(n - 1) /\ v \in 0..(k - 1)
        /\ q = m \div d /\ c = (m % d) \div k /\ v = m % k
        /\ m = q * d + c * k + v
    BY <2>0, Zenon DEF Counted
  <2>3. /\ items[i].prompt = q /\ items[i].variation = v
        /\ items[i].seed = (first + c) + v * n
    BY <1>1, <2>1, <2>2 DEF Loops
  <2>4. i = q * d + c * k + v + 1
    BY <2>1, <2>2
  <2> QED BY <2>2, <2>3, <2>4, Zenon DEF Place
<1>4. ASSUME NEW i \in 1..Len(items) PROVE Job(items[i])
  <2>1. PICK q \in Nat, c \in 0..(n - 1), v \in 0..(k - 1) : Place(i, q, c, v)
    BY <1>3, Zenon
  <2>2. v * n \in Nat
    OBVIOUS
  <2>3. (first + c) + v * n \in Nat
    BY <2>2
  <2>4. q \in Nat /\ v \in Nat
    OBVIOUS
  <2> QED BY <2>1, <2>3, <2>4, Zenon DEF Job
<1>5. ASSUME NEW i \in 1..Len(items), NEW j \in 1..Len(items),
             SameJob(items[i], items[j])
      PROVE  i = j
  <2>1. PICK q \in Nat, c \in 0..(n - 1), v \in 0..(k - 1) : Place(i, q, c, v)
    BY <1>3, Zenon
  <2>2. PICK u \in Nat, e \in 0..(n - 1), w \in 0..(k - 1) : Place(j, u, e, w)
    BY <1>3, Zenon
  <2>3. u = q /\ w = v /\ (first + c) + v * n = (first + e) + v * n
    BY <1>5, <2>1, <2>2, Zenon DEF SameJob
  <2>4. c = e
    <3>1. v * n \in Nat
      OBVIOUS
    <3> QED BY <2>3, <3>1
  <2> QED BY <2>1, <2>2, <2>3, <2>4, Zenon
<1> QED BY <1>4, <1>5

\* What NamesAreSafe says of a plan.
Safe(set, items) ==
    LET names    == {items[i].name : i \in 1..Len(items)}
        suffixes == {Suffix(items[i].prompt, items[i].seed, items[i].variation) :
                        i \in 1..Len(items)}
    IN  /\ \A name \in names : Len(name) \in 1..set.maxLength
        /\ (\A suffix \in suffixes : Len(suffix) <= set.maxLength)
            => Cardinality(names) = Len(items)

\* As many values as indices, when no two are alike.
LEMMA AllDifferent ==
    ASSUME NEW n \in Nat, NEW f, \A i, j \in 1..n : f[i] = f[j] => i = j
    PROVE  Cardinality({f[i] : i \in 1..n}) = n
<1> DEFINE T == {f[i] : i \in 1..n}
           g == [i \in 1..n |-> f[i]]
<1>1. g \in Bijection(1..n, T)
  <2>1. g \in [1..n -> T] /\ \A i \in 1..n : g[i] = f[i]
    OBVIOUS
  <2>2. \A i, j \in 1..n : g[i] = g[j] => i = j
    BY <2>1
  <2>3. \A x \in T : \E i \in 1..n : g[i] = x
    BY <2>1
  <2> HIDE DEF g, T
  <2> QED BY <2>1, <2>2, <2>3 DEF Bijection, Injection, Surjection, IsInjective
<1>2. IsFiniteSet(1..n) /\ Cardinality(1..n) = n
  BY FS_Interval
<1>3. Cardinality(T) = Cardinality(1..n)
  <2>1. ExistsBijection(1..n, T)
    BY <1>1, Zenon DEF ExistsBijection
  <2> QED BY <1>2, <2>1, FS_Bijection, Zenon
<1> QED BY <1>2, <1>3

LEMMA LoopsAreSafe ==
    ASSUME NEW req \in RequestType, NEW set \in SettingsType,
           NEW items, NEW first \in Nat, NEW n \in Nat \ {0}, NEW k \in Nat \ {0},
           NEW np \in Nat, Loops(items, first, n, k, np), Named(req, set, items)
    PROVE  Safe(set, items)
<1> DEFINE N == Len(items)
           f == [i \in 1..N |-> items[i].name]
<1>1. /\ \A i \in 1..N : Job(items[i])
      /\ \A i, j \in 1..N : SameJob(items[i], items[j]) => i = j
  BY JobsDiffer
<1>2. req.name \in Seq(STRING) /\ set.maxLength \in Nat \ {0}
  BY DEF RequestType, SettingsType
<1>3. ASSUME NEW i \in 1..N
      PROVE  /\ Len(items[i].name) \in 1..set.maxLength
             /\ Len(SuffixOf(items[i])) <= set.maxLength => EndsWith(items[i].name, SuffixOf(items[i]))
  <2>1. Filled(Chars, SuffixOf(items[i]))
    BY <1>1, SuffixType, Zenon DEF Job, SuffixOf
  <2>2. items[i].name = OutputName(req.name, SuffixOf(items[i]), set.maxLength)
    BY Zenon DEF Named
  <2> QED BY <1>2, <2>1, <2>2, OutputNameFacts, Zenon
<1>4. ASSUME \A i \in 1..N : Len(SuffixOf(items[i])) <= set.maxLength
      PROVE  \A i, j \in 1..N : f[i] = f[j] => i = j
  <2> SUFFICES ASSUME NEW i \in 1..N, NEW j \in 1..N, items[i].name = items[j].name
               PROVE  i = j
    BY Zenon
  <2>1. EndsWith(items[i].name, SuffixOf(items[i])) /\ EndsWith(items[i].name, SuffixOf(items[j]))
    BY <1>3, <1>4, Zenon
  <2>2. SameJob(items[i], items[j])
    BY <1>1, <2>1, NameOfOneJob, Zenon
  <2> QED BY <1>1, <2>2, Zenon
<1>5. N \in Nat
  <2>1. n * k \in Nat /\ np * (n * k) \in Nat
    OBVIOUS
  <2> QED BY <2>1 DEF Loops
<1>6. {f[i] : i \in 1..N} = {items[i].name : i \in 1..N}
  OBVIOUS
<1>7. ASSUME \A i \in 1..N : Len(SuffixOf(items[i])) <= set.maxLength
      PROVE  Cardinality({items[i].name : i \in 1..N}) = N
  <2> HIDE DEF f
  <2>1. \A i, j \in 1..N : f[i] = f[j] => i = j
    BY <1>4, <1>7
  <2>2. Cardinality({f[i] : i \in 1..N}) = N
    <3> HIDE DEF N
    <3> QED BY <1>5, <2>1, AllDifferent
  <2> QED BY <1>6, <2>2
<1> QED BY <1>3, <1>7, Zenon DEF Safe, SuffixOf

LEMMA AnswerIsSafe ==
    ASSUME NEW req \in RequestType, NEW set \in SettingsType,
           NEW answer \in Answers(req, set), answer.error = "none"
    PROVE  Safe(set, answer.items)
<1>1. Accepted(req, set) /\ \E bases \in BaseSeeds(req, set) : answer = Plan(req, set, bases)
  BY DEF Answers, Rejected
<1>2. PICK bases \in BaseSeeds(req, set) : answer = Plan(req, set, bases)
  BY <1>1
<1>3. PICK k \in Nat \ {0}, np \in Nat :
        req.variations = k /\ Len(req.prompts) = np
  <2>1. Len(req.prompts) \in Nat
    BY DEF RequestType
  <2>2. req.variations \in Nat \ {0}
    BY <1>1 DEF Accepted, RequestType, SettingsType
  <2> QED BY <2>1, <2>2
<1>4. PICK first \in Nat, n \in Nat \ {0} : bases = Block(first, n)
  <2>1. PICK first \in Int, n \in Nat \ {0} :
          bases = Block(first, n) /\ first >= set.minSeed
    BY BasesAreBlocks
  <2>2. set.minSeed \in Nat
    BY DEF SettingsType
  <2>3. first \in Nat
    BY <2>1, <2>2
  <2> QED BY <2>1, <2>3
<1>5. Loops(answer.items, first, n, k, np)
  BY <1>2, <1>3, <1>4, PlanLoops
<1>6. Named(req, set, answer.items)
  BY <1>2, <1>3, <1>4, PlanIsNamed
<1> QED BY <1>5, <1>6, LoopsAreSafe, Zenon

\* A name never exceeds the length of the settings, and no two jobs of a batch
\* get the same name where the suffixes fit: whatever the stem, its stripping,
\* and the lengths of the numbers, build_output_name keeps a suffix from which
\* prompt, seed and variation can be read.
THEOREM NamesNeverCollide == Spec => []NamesAreSafe
<1> DEFINE Kept == plan.error = "none" => Safe(settings, plan.items)
           Inv  == Kept /\ request \in RequestType /\ settings \in SettingsType
<1>1. Init => Inv
  BY BatchExpansionAssumption DEF Init, Pending, Rejected
<1>2. Inv /\ [Next]_vars => Inv'
  <2> SUFFICES ASSUME Inv, [Next]_vars PROVE Inv'
    OBVIOUS
  <2>1. CASE UNCHANGED vars
    BY <2>1 DEF vars
  <2>2. CASE Expand
    <3>1. UNCHANGED <<request, settings>> /\ plan' \in Answers(request, settings)
      BY <2>2 DEF Expand
    <3>2. plan'.error = "none" => Safe(settings, plan'.items)
      BY <3>1, AnswerIsSafe
    <3> QED BY <3>1, <3>2
  <2> QED BY <2>1, <2>2 DEF Next
<1>3. Inv => NamesAreSafe
  BY Zenon DEF NamesAreSafe, Safe
<1> QED BY <1>1, <1>2, <1>3, PTL DEF Spec

=============================================================================
