----------------------- MODULE PasswordCrackerProofs -----------------------
(***************************************************************************)
(* Theorems about PasswordCracker, for any alphabet, length of password,   *)
(* number of threads and password file: every password is tried by one     *)
(* thread, written as what it is, and found.                               *)
(***************************************************************************)
EXTENDS PasswordCracker, Integers, FiniteSetTheorems, WellFoundedInduction, TLAPS

-----------------------------------------------------------------------------
(* Induction *)

\* A set of numbers that is not empty has a least one: the numbers are ordered
\* as the intervals 0..n are by inclusion.
LEMMA LeastNumber ==
  ASSUME NEW S \in SUBSET Nat, S # {}
  PROVE  \E m \in S : \A n \in S : m <= n
  <1> DEFINE R == StrictSubsetOrdering(Nat)
             F == FiniteSubsetsOf(Nat)
             I == {x \in F : \E n \in S : x = 0..n}
  <1>1. \A n \in S : 0..n \in I
    <2> TAKE n \in S
    <2>1. IsFiniteSet(0..n) /\ 0..n \subseteq Nat
      BY FS_Interval
    <2> QED
      BY <2>1 DEF FiniteSubsetsOf
  <1>2. PICK x \in I : \A y \in I : <<y, x>> \notin R
    <2>1. IsWellFoundedOn(R, F)
      BY FS_StrictSubsetOrderingWellFounded
    <2>2. I \subseteq F /\ I # {}
      BY <1>1
    <2> HIDE DEF I, R, F
    <2> QED
      BY <2>1, <2>2, WFMin
  <1>3. PICK m \in S : x = 0..m
    OBVIOUS
  <1>4. ASSUME NEW n \in S, n < m PROVE FALSE
    <2>1. 0..n \subseteq 0..m /\ 0..n # 0..m /\ 0..n \in SUBSET Nat /\ 0..m \in SUBSET Nat
      BY <1>4
    <2>2. <<0..n, 0..m>> \in R
      BY <2>1 DEF StrictSubsetOrdering
    <2> QED
      BY <1>1, <1>2, <1>3, <2>2
  <1> QED
    BY <1>4

\* Induction: a set that has 0 and the successor of whatever it has.
LEMMA InductiveSet ==
  ASSUME NEW S, 0 \in S, \A n \in Nat : n \in S => n + 1 \in S
  PROVE  \A n \in Nat : n \in S
  <1> DEFINE B == {n \in Nat : n \notin S}
  <1> SUFFICES ASSUME B # {} PROVE FALSE
    OBVIOUS
  <1>1. PICK m \in B : \A n \in B : m <= n
    <2>1. B \in SUBSET Nat
      OBVIOUS
    <2> HIDE DEF B
    <2> QED
      BY <2>1, LeastNumber
  <1>2. m # 0 /\ m \in Nat
    OBVIOUS
  <1>3. m - 1 \in Nat /\ m - 1 \notin B
    BY <1>1, <1>2
  <1>4. (m - 1) + 1 \in S
    BY <1>3
  <1> QED
    BY <1>2, <1>4

-----------------------------------------------------------------------------
(* Division *)

LEMMA Division ==
  ASSUME NEW x \in Nat, NEW a \in Nat \ {0}
  PROVE  x \div a \in Nat /\ x % a \in 0..(a - 1) /\ x = a * (x \div a) + (x % a)
OBVIOUS

\* A quotient and a remainder that fit are the quotient and the remainder.
LEMMA DivisionUnique ==
  ASSUME NEW a \in Nat \ {0}, NEW q \in Nat, NEW r \in 0..(a - 1)
  PROVE  (a * q + r) \div a = q /\ (a * q + r) % a = r
  <1>1. a * q \in Nat
    OBVIOUS
  <1>2. PICK x \in Nat : x = a * q + r
    BY <1>1
  <1>3. PICK p \in Nat, s \in 0..(a - 1) : p = x \div a /\ s = x % a /\ x = a * p + s
    BY Division
  <1>4. p <= q
    <2> SUFFICES ASSUME q < p PROVE FALSE
      OBVIOUS
    <2>1. PICK k \in Nat : p = q + 1 + k
      <3>1. p - q - 1 \in Nat /\ p = q + 1 + (p - q - 1)
        OBVIOUS
      <3> QED
        BY <3>1
    <2>2. a * p = a * q + a + a * k
      BY <2>1
    <2>3. a * k \in Nat /\ a * p \in Nat
      OBVIOUS
    <2> QED
      BY <1>1, <1>2, <1>3, <2>2, <2>3
  <1>5. q <= p
    <2> SUFFICES ASSUME p < q PROVE FALSE
      OBVIOUS
    <2>1. PICK k \in Nat : q = p + 1 + k
      <3>1. q - p - 1 \in Nat /\ q = p + 1 + (q - p - 1)
        OBVIOUS
      <3> QED
        BY <3>1
    <2>2. a * q = a * p + a + a * k
      BY <2>1
    <2>3. a * k \in Nat /\ a * p \in Nat
      OBVIOUS
    <2> QED
      BY <1>1, <1>2, <1>3, <2>2, <2>3
  <1>6. p = q
    BY <1>4, <1>5
  <1>7. s = r
    BY <1>1, <1>2, <1>3, <1>6
  <1> QED
    BY <1>2, <1>3, <1>6, <1>7

\* Division by a and then by b is division by their product.
LEMMA DivisionTwice ==
  ASSUME NEW x \in Nat, NEW a \in Nat \ {0}, NEW b \in Nat \ {0}
  PROVE  x \div (b * a) = (x \div a) \div b
  <1>1. PICK q \in Nat, r \in 0..(a - 1) : q = x \div a /\ x = a * q + r
    BY Division
  <1>2. PICK s \in Nat, w \in 0..(b - 1) : s = q \div b /\ q = b * s + w
    BY Division
  <1>3. PICK c \in Nat \ {0} : c = b * a
    OBVIOUS
  <1>4. x = c * s + (a * w + r)
    <2>1. a * q = a * (b * s) + a * w
      <3>1. PICK y \in Nat : y = b * s
        OBVIOUS
      <3> QED
        BY <1>2, <3>1
    <2>2. a * (b * s) = c * s
      BY <1>3
    <2>3. c * s \in Nat /\ a * w \in Nat
      OBVIOUS
    <2> QED
      BY <1>1, <2>1, <2>2, <2>3
  <1>5. a * w + r \in 0..(c - 1)
    <2>1. PICK k \in Nat : b = w + 1 + k
      <3>1. b - w - 1 \in Nat /\ b = w + 1 + (b - w - 1)
        OBVIOUS
      <3> QED
        BY <3>1
    <2>2. c = a * w + a + a * k
      BY <1>3, <2>1
    <2>3. a * w \in Nat /\ a * k \in Nat
      OBVIOUS
    <2> QED
      BY <2>2, <2>3
  <1>6. PICK z \in 0..(c - 1) : z = a * w + r
    BY <1>5
  <1>7. x \div c = s
    BY <1>4, <1>6, DivisionUnique
  <1> QED
    BY <1>1, <1>2, <1>3, <1>7

-----------------------------------------------------------------------------
(* Powers *)

\* A row of the first powers.
FirstPowers(n, f) ==
  /\ f \in [0..n -> Nat \ {0}]
  /\ f[0] = 1
  /\ \A k \in 0..n : k # 0 => f[k] = Letters * f[k - 1]

LEMMA FirstPowersExist ==
  \A n \in Nat : \E f : FirstPowers(n, f)
  <1> DEFINE S == {n \in Nat : \E f : FirstPowers(n, f)}
  <1>1. 0 \in S
    <2> DEFINE f == [k \in 0..0 |-> 1]
    <2>1. FirstPowers(0, f)
      BY DEF FirstPowers
    <2> QED
      BY <2>1
  <1>2. ASSUME NEW n \in Nat, n \in S PROVE n + 1 \in S
    <2>1. PICK f : FirstPowers(n, f)
      BY <1>2
    <2> DEFINE g == [k \in 0..(n + 1) |-> IF k = n + 1 THEN Letters * f[n] ELSE f[k]]
    <2>2. f[n] \in Nat \ {0}
      BY <2>1 DEF FirstPowers
    <2>3. Letters * f[n] \in Nat \ {0}
      BY <2>2, CrackerAssumption
    <2>4. g \in [0..(n + 1) -> Nat \ {0}]
      BY <2>1, <2>3 DEF FirstPowers
    <2>5. g[0] = 1
      BY <2>1 DEF FirstPowers
    <2>6. ASSUME NEW k \in 0..(n + 1), k # 0 PROVE g[k] = Letters * g[k - 1]
      <3>1. k - 1 \in 0..n /\ g[k - 1] = f[k - 1]
        BY <2>6
      <3>2. CASE k = n + 1
        BY <3>1, <3>2
      <3>3. CASE k # n + 1
        BY <2>1, <2>6, <3>1, <3>3 DEF FirstPowers
      <3> QED
        BY <3>2, <3>3
    <2>7. FirstPowers(n + 1, g)
      BY <2>4, <2>5, <2>6 DEF FirstPowers
    <2> QED
      BY <2>7
  <1>3. \A n \in Nat : n \in S
    <2> HIDE DEF S
    <2> QED
      BY <1>1, <1>2, InductiveSet
  <1> QED
    BY <1>3

LEMMA FirstPowersAgree ==
  ASSUME NEW n \in Nat, NEW f, FirstPowers(n, f), NEW m \in Nat, NEW g, FirstPowers(m, g)
  PROVE  \A k \in 0..n : k \in 0..m => f[k] = g[k]
  <1> DEFINE S == {k \in Nat : k \in 0..n /\ k \in 0..m => f[k] = g[k]}
  <1>1. 0 \in S
    BY DEF FirstPowers
  <1>2. ASSUME NEW k \in Nat, k \in S PROVE k + 1 \in S
    <2> SUFFICES ASSUME k + 1 \in 0..n, k + 1 \in 0..m PROVE f[k + 1] = g[k + 1]
      OBVIOUS
    <2>1. f[k] = g[k]
      BY <1>2
    <2>2. (k + 1) - 1 = k /\ k + 1 # 0
      OBVIOUS
    <2>3. f[k + 1] = Letters * f[k] /\ g[k + 1] = Letters * g[k]
      BY <2>2 DEF FirstPowers
    <2> QED
      BY <2>1, <2>3
  <1>3. \A k \in Nat : k \in S
    <2> HIDE DEF S
    <2> QED
      BY <1>1, <1>2, InductiveSet
  <1> QED
    BY <1>3

\* There is a function as Power is defined to be, hence Power is one.
LEMMA PowerDefined ==
  Power = [k \in Nat |-> IF k = 0 THEN 1 ELSE Letters * Power[k - 1]]
  <1> DEFINE row(n) == CHOOSE f : FirstPowers(n, f)
             P == [k \in Nat |-> row(k)[k]]
  <1>1. \A n \in Nat : FirstPowers(n, row(n))
    BY FirstPowersExist
  <1> HIDE DEF row
  <1>2. ASSUME NEW k \in Nat PROVE P[k] = IF k = 0 THEN 1 ELSE Letters * P[k - 1]
    <2>1. CASE k = 0
      BY <1>1, <2>1 DEF FirstPowers
    <2>2. CASE k # 0
      <3>1. k - 1 \in Nat /\ k - 1 \in 0..k /\ k - 1 \in 0..(k - 1)
        BY <2>2
      <3>2. FirstPowers(k, row(k)) /\ FirstPowers(k - 1, row(k - 1))
        BY <1>1, <3>1
      <3>3. row(k)[k - 1] = row(k - 1)[k - 1]
        BY <3>1, <3>2, FirstPowersAgree
      <3>4. row(k)[k] = Letters * row(k)[k - 1]
        BY <2>2, <3>2 DEF FirstPowers
      <3> QED
        BY <2>2, <3>1, <3>3, <3>4
    <2> QED
      BY <2>1, <2>2
  <1>3. P = [k \in Nat |-> IF k = 0 THEN 1 ELSE Letters * P[k - 1]]
    <2>1. P = [k \in Nat |-> P[k]]
      OBVIOUS
    <2> HIDE DEF P
    <2> QED
      BY <1>2, <2>1
  <1> HIDE DEF P
  <1> QED
    BY <1>3 DEF Power

LEMMA Powers ==
  /\ Power[0] = 1
  /\ \A k \in Nat : Power[k + 1] = Letters * Power[k]
  /\ \A k \in Nat : Power[k] \in Nat \ {0}
  <1>1. Power[0] = 1
    BY PowerDefined
  <1>2. ASSUME NEW k \in Nat PROVE Power[k + 1] = Letters * Power[k]
    <2>1. k + 1 \in Nat /\ k + 1 # 0 /\ (k + 1) - 1 = k
      OBVIOUS
    <2> QED
      BY <2>1, PowerDefined
  <1> DEFINE S == {k \in Nat : Power[k] \in Nat \ {0}}
  <1>3. 0 \in S
    BY <1>1
  <1>4. ASSUME NEW k \in Nat, k \in S PROVE k + 1 \in S
    BY <1>2, <1>4, CrackerAssumption
  <1>5. \A k \in Nat : k \in S
    <2> HIDE DEF S
    <2> QED
      BY <1>3, <1>4, InductiveSet
  <1> QED
    BY <1>1, <1>2, <1>5

-----------------------------------------------------------------------------
(* Numbers and their digits *)

\* A number with all its digits.
Number(n) == [k \in Index |-> Digit(n, k)]

LEMMA Places ==
  /\ \A k \in Index : Place(k) \in Nat \ {0}
  /\ Place(PasswordLength - 1) = 1
  /\ \A k \in Index : k + 1 \in Index => Place(k) = Letters * Place(k + 1)
  /\ TotalPasswords = Letters * Place(0)
  <1>1. ASSUME NEW k \in Index PROVE PasswordLength - 1 - k \in Nat
    BY CrackerAssumption DEF Index
  <1>2. PasswordLength - 1 - (PasswordLength - 1) = 0
    BY CrackerAssumption
  <1>3. ASSUME NEW k \in Index, k + 1 \in Index PROVE Place(k) = Letters * Place(k + 1)
    <2>1. PasswordLength - 1 - (k + 1) \in Nat
      BY <1>1, <1>3
    <2>2. PasswordLength - 1 - k = (PasswordLength - 1 - (k + 1)) + 1
      BY CrackerAssumption DEF Index
    <2> QED
      BY <2>1, <2>2, Powers DEF Place
  <1>4. TotalPasswords = Letters * Place(0)
    <2>1. PasswordLength - 1 - 0 \in Nat /\ PasswordLength = (PasswordLength - 1 - 0) + 1
      BY CrackerAssumption
    <2> QED
      BY <2>1, Powers DEF Place, TotalPasswords
  <1> QED
    BY <1>1, <1>2, <1>3, <1>4, Powers DEF Place

LEMMA DigitType ==
  \A n \in Nat, k \in Index : n \div Place(k) \in Nat /\ Digit(n, k) \in 0..(Letters - 1)
  <1> TAKE n \in Nat, k \in Index
  <1>1. n \div Place(k) \in Nat
    BY Places, Division
  <1>2. PICK q \in Nat : q = n \div Place(k)
    BY <1>1
  <1>3. q % Letters \in 0..(Letters - 1)
    BY CrackerAssumption, Division
  <1> QED
    BY <1>1, <1>2, <1>3 DEF Digit

LEMMA NumberType == \A n \in Nat : Number(n) \in Guesses
  BY DigitType DEF Number, Guesses

\* A number has zeros before its significant digits.
LEMMA LeadingZeros ==
  ASSUME NEW n \in Nat, NEW k \in Index, n < Place(k)
  PROVE  Digit(n, k) = 0
  <1>1. PICK p \in Nat \ {0} : p = Place(k)
    BY Places
  <1>2. n = p * 0 + n /\ n \in 0..(p - 1)
    BY <1>1
  <1>3. n \div p = 0
    <2>1. (p * 0 + n) \div p = 0
      BY <1>2, DivisionUnique
    <2> QED
      BY <1>2, <2>1
  <1>4. 0 % Letters = 0
    BY CrackerAssumption
  <1> QED
    BY <1>1, <1>3, <1>4 DEF Digit

\* The loop writes the digits that a number has over those of the number before,
\* which has no other.
LEMMA NextGuessIsNumber ==
  ASSUME NEW n \in Nat, NEW old,
         old = AllA \/ (n # 0 /\ old = Number(n - 1))
  PROVE  NextGuess(n, old) = Number(n)
  <1>1. ASSUME NEW k \in Index, k \notin Significant(n) PROVE old[k] = Digit(n, k)
    <2>1. n < Place(k)
      BY <1>1, Places DEF Significant
    <2>2. Digit(n, k) = 0
      BY <2>1, LeadingZeros
    <2>3. CASE old = AllA
      BY <2>2, <2>3 DEF AllA
    <2>4. CASE n # 0 /\ old = Number(n - 1)
      <3>1. n - 1 \in Nat /\ n - 1 < Place(k)
        BY <2>1, <2>4, Places
      <3>2. Digit(n - 1, k) = 0
        BY <3>1, LeadingZeros
      <3> QED
        BY <2>2, <2>4, <3>2 DEF Number
    <2> QED
      BY <2>3, <2>4
  <1> QED
    BY <1>1 DEF NextGuess, Number

\* Two numbers with the same digits have the same quotients, from the first
\* digit to the last.
LEMMA NumberInjective ==
  ASSUME NEW n \in 0..(TotalPasswords - 1), NEW m \in 0..(TotalPasswords - 1),
         Number(n) = Number(m)
  PROVE  n = m
  <1>1. PasswordLength \in Nat \ {0} /\ TotalPasswords \in Nat \ {0}
    BY CrackerAssumption, Powers DEF TotalPasswords
  <1>2. n \in Nat /\ m \in Nat
    BY <1>1
  <1>3. \A k \in Index : Digit(n, k) = Digit(m, k)
    BY DEF Number
  <1> DEFINE S == {k \in Nat : k \in Index => n \div Place(k) = m \div Place(k)}
  <1>4. 0 \in S
    <2>1. 0 \in Index
      BY <1>1 DEF Index
    <2>2. PICK p \in Nat \ {0} : p = Place(0)
      BY <2>1, Places
    <2>3. TotalPasswords = Letters * p
      BY <2>2, Places
    <2>4. ASSUME NEW x \in 0..(TotalPasswords - 1) PROVE Digit(x, 0) = x \div Place(0)
      <3>1. PICK q \in Nat, r \in 0..(p - 1) : q = x \div p /\ x = p * q + r
        <4>1. x \in Nat
          BY <1>1
        <4> QED
          BY <4>1, Division
      <3>2. q < Letters
        <4> SUFFICES ASSUME Letters <= q PROVE FALSE
          BY CrackerAssumption
        <4>1. PICK d \in Nat : q = Letters + d
          <5>1. q - Letters \in Nat /\ q = Letters + (q - Letters)
            BY CrackerAssumption
          <5> QED
            BY <5>1
        <4>2. p * q = Letters * p + p * d /\ p * d \in Nat
          BY <4>1, CrackerAssumption
        <4> QED
          BY <1>1, <2>3, <3>1, <4>2
      <3>3. q % Letters = q
        BY <3>2, CrackerAssumption
      <3> QED
        BY <2>2, <3>1, <3>3 DEF Digit
    <2> QED
      BY <1>3, <2>1, <2>4
  <1>5. ASSUME NEW k \in Nat, k \in S PROVE k + 1 \in S
    <2> SUFFICES ASSUME k + 1 \in Index PROVE n \div Place(k + 1) = m \div Place(k + 1)
      OBVIOUS
    <2>1. k \in Index
      BY <1>1 DEF Index
    <2>2. PICK p \in Nat \ {0} : p = Place(k + 1)
      BY Places
    <2>3. Place(k) = Letters * p
      BY <2>1, <2>2, Places
    <2>4. ASSUME NEW x \in Nat
          PROVE  x \div p = Letters * (x \div Place(k)) + Digit(x, k + 1)
      <3>1. PICK q \in Nat : q = x \div p
        BY Division
      <3>2. x \div Place(k) = q \div Letters
        <4>1. x \div (Letters * p) = (x \div p) \div Letters
          <5>1. Letters \in Nat \ {0} /\ p \in Nat \ {0} /\ x \in Nat
            BY CrackerAssumption
          <5> QED
            BY ONLY <5>1, DivisionTwice, Zenon
        <4> QED
          BY <2>3, <3>1, <4>1
      <3>3. q = Letters * (q \div Letters) + (q % Letters)
        BY CrackerAssumption, Division
      <3> QED
        BY <2>2, <3>1, <3>2, <3>3 DEF Digit
    <2>5. n \div Place(k) = m \div Place(k)
      BY <1>5, <2>1
    <2> QED
      BY <1>2, <1>3, <2>2, <2>4, <2>5
  <1>6. \A k \in Nat : k \in S
    <2> HIDE DEF S
    <2> QED
      BY <1>4, <1>5, InductiveSet
  <1>7. n \div 1 = m \div 1
    <2>1. PasswordLength - 1 \in Index
      BY <1>1 DEF Index
    <2> QED
      BY <1>6, <2>1, Places DEF Index
  <1> QED
    BY <1>2, <1>7

\* Every row of digits is a number's: a digit more at its end makes of m the
\* number m * Letters + digit.
LEMMA NumberOnto ==
  ASSUME NEW g \in Guesses
  PROVE  \E n \in 0..(TotalPasswords - 1) : g = Number(n)
  <1>1. PasswordLength \in Nat \ {0} /\ Letters \in Nat \ {0, 1}
    BY CrackerAssumption
  \* m is what the digits up to k are.
  <1> DEFINE Reads(m, k) ==
               /\ m < Power[k + 1]
               /\ \A j \in 0..k : (m \div Power[k - j]) % Letters = g[j]
             S == {k \in Nat : k \in Index => \E m \in Nat : Reads(m, k)}
  <1>2. 0 \in S
    <2>1. 0 \in Index
      BY <1>1 DEF Index
    <2>2. g[0] \in 0..(Letters - 1)
      BY <2>1 DEF Guesses
    <2>3. Power[0 + 1] = Letters /\ Power[0 - 0] = 1
      BY <1>1, Powers
    <2>4. (g[0] \div 1) % Letters = g[0]
      BY <1>1, <2>2
    <2>5. \A j \in 0..0 : (g[0] \div Power[0 - j]) % Letters = g[j]
      BY <2>3, <2>4
    <2>6. g[0] \in Nat /\ Reads(g[0], 0)
      BY <1>1, <2>2, <2>3, <2>5
    <2> QED
      BY <2>6
  <1>3. ASSUME NEW k \in Nat, k \in S PROVE k + 1 \in S
    <2> SUFFICES ASSUME k + 1 \in Index PROVE \E m \in Nat : Reads(m, k + 1)
      OBVIOUS
    <2>1. k \in Index
      BY <1>1 DEF Index
    <2>2. PICK m \in Nat : Reads(m, k)
      BY <1>3, <2>1
    <2>3. PICK d \in 0..(Letters - 1) : d = g[k + 1]
      BY DEF Guesses
    <2>4. PICK x \in Nat : x = Letters * m + d
      BY <1>1
    <2>5. x < Power[(k + 1) + 1]
      <3>1. PICK p \in Nat \ {0} : p = Power[k + 1]
        BY Powers
      <3>2. Power[(k + 1) + 1] = Letters * p
        BY <3>1, Powers
      <3>3. PICK e \in Nat : p = m + 1 + e
        <4>1. p - m - 1 \in Nat /\ p = m + 1 + (p - m - 1)
          BY <2>2, <3>1
        <4> QED
          BY <4>1
      <3>4. Letters * p = Letters * m + Letters + Letters * e
        BY <1>1, <3>3
      <3>5. Letters * e \in Nat /\ Letters * m \in Nat
        BY <1>1
      <3> QED
        BY <1>1, <2>3, <2>4, <3>2, <3>4, <3>5
    <2>6. x \div Letters = m /\ x % Letters = d
      BY <1>1, <2>4, DivisionUnique
    <2>7. ASSUME NEW j \in 0..(k + 1) PROVE (x \div Power[(k + 1) - j]) % Letters = g[j]
      <3>1. CASE j = k + 1
        <4>1. (k + 1) - j = 0 /\ x \div 1 = x
          BY <3>1
        <4> QED
          BY <2>3, <2>6, <3>1, <4>1, Powers
      <3>2. CASE j # k + 1
        <4>1. k - j \in Nat /\ j \in 0..k /\ (k + 1) - j = (k - j) + 1
          BY <3>2
        <4>2. PICK p \in Nat \ {0} : p = Power[k - j]
          BY <4>1, Powers
        <4>3. Power[(k + 1) - j] = p * Letters
          <5>1. Power[(k - j) + 1] = Letters * p
            BY <4>1, <4>2, Powers
          <5> QED
            BY <1>1, <4>1, <5>1
        <4>4. x \div (p * Letters) = (x \div Letters) \div p
          BY <1>1, DivisionTwice
        <4>5. (m \div p) % Letters = g[j]
          BY <2>2, <4>1, <4>2
        <4> QED
          BY <2>6, <4>3, <4>4, <4>5
      <3> QED
        BY <3>1, <3>2
    <2>8. Reads(x, k + 1)
      BY <2>5, <2>7
    <2> QED
      BY <2>8
  <1>4. PasswordLength - 1 \in S /\ PasswordLength - 1 \in Index
    <2>1. \A k \in Nat : k \in S
      <3> HIDE DEF S
      <3> QED
        BY <1>2, <1>3, InductiveSet
    <2>2. PasswordLength - 1 \in Nat /\ PasswordLength - 1 \in Index
      BY <1>1 DEF Index
    <2> HIDE DEF S
    <2> QED
      BY <2>1, <2>2
  <1>5. PICK m \in Nat : Reads(m, PasswordLength - 1)
    BY <1>4
  <1>6. m \in 0..(TotalPasswords - 1)
    <2>1. (PasswordLength - 1) + 1 = PasswordLength
      BY <1>1
    <2>2. TotalPasswords \in Nat \ {0}
      BY <1>1, Powers DEF TotalPasswords
    <2> QED
      BY <1>5, <2>1, <2>2 DEF TotalPasswords
  <1>7. \A j \in Index : Digit(m, j) = g[j]
    BY <1>5 DEF Digit, Place, Index
  <1>8. g = Number(m)
    BY <1>7 DEF Number, Guesses
  <1> QED
    BY <1>6, <1>8

-----------------------------------------------------------------------------
(* The ranges of the threads *)

\* A thread has as many passwords as any other.
LEMMA Shares ==
  \E c \in Nat \ {0} :
    /\ TotalPasswords = Threads * c
    /\ \A t \in T : Start(t) = t * c /\ End(t) = t * c + c
  <1>1. Threads \in Nat \ {0} /\ TotalPasswords \in Nat \ {0}
    BY CrackerAssumption, Powers DEF TotalPasswords
  <1>2. PICK c \in Nat : c = TotalPasswords \div Threads
    BY <1>1, Division
  <1>3. TotalPasswords = Threads * c
    <2>1. TotalPasswords = Threads * c + (TotalPasswords % Threads)
      BY <1>1, <1>2, Division
    <2>2. Threads * c \in Nat
      BY <1>1
    <2> QED
      BY <2>1, <2>2, CrackerAssumption
  <1>4. c # 0
    BY <1>1, <1>3
  <1>5. ASSUME NEW t \in T PROVE Start(t) = t * c
    <2>1. t \in Nat
      BY <1>1 DEF T
    <2>2. PICK s \in Nat : s = t * c
      BY <2>1
    <2>3. t * TotalPasswords = Threads * s + 0
      <3>1. t * (Threads * c) = Threads * (t * c)
        BY <1>1, <2>1
      <3> QED
        BY <1>1, <1>3, <2>2, <3>1
    <2>4. (Threads * s + 0) \div Threads = s
      BY <1>1, DivisionUnique
    <2> QED
      BY <2>2, <2>3, <2>4 DEF Start
  <1> QED
    BY <1>2, <1>3, <1>4, <1>5 DEF End

LEMMA RangeType ==
  \A t \in T : Start(t) \in Nat /\ End(t) \in Nat /\ Start(t) <= End(t) /\ End(t) <= TotalPasswords
  <1> TAKE t \in T
  <1>1. PICK c \in Nat \ {0} : /\ TotalPasswords = Threads * c
                               /\ Start(t) = t * c /\ End(t) = t * c + c
    BY Shares
  <1>2. Threads \in Nat \ {0} /\ t \in Nat
    BY CrackerAssumption DEF T
  <1>3. t * c \in Nat
    BY <1>2
  <1>4. PICK k \in Nat : Threads = t + 1 + k
    <2>1. Threads - t - 1 \in Nat /\ Threads = t + 1 + (Threads - t - 1)
      BY <1>2 DEF T
    <2> QED
      BY <2>1
  <1>5. Threads * c = t * c + c + k * c /\ k * c \in Nat
    BY <1>2, <1>4
  <1> QED
    BY <1>1, <1>3, <1>5

\* No number is two threads'.
LEMMA RangesApart ==
  ASSUME NEW s \in T, NEW t \in T, NEW n \in Nat,
         n \in Start(s)..(End(s) - 1), n \in Start(t)..(End(t) - 1)
  PROVE  s = t
  <1>1. PICK c \in Nat \ {0} : \A r \in T : Start(r) = r * c /\ End(r) = r * c + c
    BY Shares
  <1>2. ASSUME NEW r \in T, n \in Start(r)..(End(r) - 1) PROVE r = n \div c
    <2>1. r \in Nat
      BY CrackerAssumption DEF T
    <2>2. PICK b \in Nat : b = c * r
      BY <2>1
    <2>3. b = r * c
      BY <2>1, <2>2
    <2>4. n - b \in 0..(c - 1) /\ n = b + (n - b)
      BY <1>1, <1>2, <2>3
    <2>5. PICK d \in 0..(c - 1) : n = c * r + d
      BY <2>2, <2>4
    <2> QED
      BY <2>1, <2>5, DivisionUnique
  <1> QED
    BY <1>2

\* Every number is some thread's.
LEMMA RangesCover ==
  ASSUME NEW n \in 0..(TotalPasswords - 1)
  PROVE  \E t \in T : n \in Start(t)..(End(t) - 1)
  <1>1. PICK c \in Nat \ {0} : /\ TotalPasswords = Threads * c
                               /\ \A r \in T : Start(r) = r * c /\ End(r) = r * c + c
    BY Shares
  <1>2. Threads \in Nat \ {0}
    BY CrackerAssumption
  <1>3. Threads * c \in Nat
    BY <1>2
  <1>4. PICK q \in Nat, r \in 0..(c - 1) : n = c * q + r
    <2>1. n \in Nat
      BY <1>1, <1>3
    <2> QED
      BY <2>1, Division
  <1>5. q < Threads
    <2> SUFFICES ASSUME Threads <= q PROVE FALSE
      BY <1>2
    <2>1. PICK k \in Nat : q = Threads + k
      <3>1. q - Threads \in Nat /\ q = Threads + (q - Threads)
        BY <1>2
      <3> QED
        BY <3>1
    <2>2. c * q = Threads * c + k * c /\ k * c \in Nat
      BY <1>2, <2>1
    <2> QED
      BY <1>1, <1>3, <1>4, <2>2
  <1>6. q \in T
    BY <1>2, <1>5 DEF T
  <1>7. Start(q) = c * q /\ End(q) = c * q + c /\ c * q \in Nat
    BY <1>1, <1>6
  <1> QED
    BY <1>4, <1>6, <1>7

-----------------------------------------------------------------------------
(* The inductive invariant *)

TypeOK ==
  /\ main \in {"reading", "creating", "exited"}
  /\ created \in 0..Threads
  /\ \A u \in DOMAIN lines : u \in Users /\ lines[u] \in Guesses \cup {Malformed}
  /\ entries \in SUBSET [user : Users, password : Guesses]
  /\ pc \in [T -> {"none", "running", "exited"}]
  /\ next \in [T -> Nat]
  /\ guess \in [T -> Guesses]
  /\ cracked \in [T -> SUBSET Users]
  /\ BagToSet(printed) \in SUBSET (T \X Users \X Guesses)

\* A user has one line, which is read once.
OneEntry ==
  /\ \A e, f \in entries : e.user = f.user => e = f
  /\ \A e \in entries : e.user \notin DOMAIN lines

\* The threads are created in their order, when all lines have been read.
Stages ==
  /\ main = "reading" => created = 0
  /\ \A t \in T : pc[t] = "none" <=> created <= t
  /\ \A t \in T : pc[t] = "none" => next[t] = Start(t)
  /\ main = "exited" => created = 0 \/ \A t \in T : pc[t] = "exited"

\* guess is the number of the last turn.
Numbered ==
  \A t \in T :
    /\ next[t] \in Start(t)..End(t)
    /\ guess[t] = IF next[t] = Start(t) THEN AllA ELSE Number(next[t] - 1)

\* A thread prints passwords of the file, out of its own range.
OwnNumbers ==
  \A x \in BagToSet(printed) :
    /\ [user |-> x[2], password |-> x[3]] \in entries
    /\ \E n \in Start(x[1])..(End(x[1]) - 1) : x[3] = Number(n)

\* What has been tried has been cracked, and what has been cracked, printed.
\* Both survive a rollback: the array is not on the stack, and what is written
\* is written.
Tried ==
  \A t \in T : \A e \in entries : \A n \in Start(t)..(next[t] - 1) :
    e.password = Number(n) => e.user \in cracked[t]

CrackedPrinted ==
  \A t \in T : \A u \in cracked[t] : \E g \in Guesses : BagIn(<<t, u, g>>, printed)

\* What has been printed has been printed once, and whoever has printed it has
\* it in the flags: an attempt that comes across it again will not print it.
PrintedCracked ==
  \A x \in BagToSet(printed) : printed[x] = 1 /\ x[2] \in cracked[x[1]]

\* A thread stops when it has tried all its numbers, or has cracked everything.
Done == \A t \in T : pc[t] = "exited" => next[t] = End(t) \/ AllCracked(cracked[t])

IInv ==
  /\ TypeOK
  /\ OneEntry
  /\ Stages
  /\ Numbered
  /\ OwnNumbers
  /\ Tried
  /\ CrackedPrinted
  /\ PrintedCracked
  /\ Done

\* A bag with one copy of everything, and one more of what it does not have.
LEMMA AddedOnce ==
  ASSUME NEW B, NEW S, NEW C, C = B (+) SetToBag(S),
         \A x \in BagToSet(B) : B[x] = 1 /\ x \notin S
  PROVE  /\ BagToSet(C) = BagToSet(B) \cup S
         /\ \A x \in BagToSet(C) : C[x] = 1
  <1>1. SetToBag(S) = [x \in S |-> 1]
    BY DEF SetToBag
  <1>2. \A x \in DOMAIN B : B[x] = 1 /\ x \notin S
    BY DEF BagToSet, BagIn
  <1>3. C = [x \in DOMAIN B \cup S |-> (IF x \in DOMAIN B THEN B[x] ELSE 0)
                                      + (IF x \in S THEN SetToBag(S)[x] ELSE 0)]
    BY <1>1 DEF (+)
  <1>4. DOMAIN C = DOMAIN B \cup S /\ \A x \in DOMAIN C : C[x] = 1
    BY <1>1, <1>2, <1>3
  <1> QED
    BY <1>4 DEF BagToSet, BagIn

LEMMA AllAType == AllA \in Guesses
  BY CrackerAssumption DEF AllA, Guesses

LEMMA InitInvariant == Init => IInv
  <1> SUFFICES ASSUME Init PROVE IInv
    OBVIOUS
  <1>1. Threads \in Nat \ {0}
    BY CrackerAssumption
  <1>2. \A t \in T : Start(t) \in Nat /\ Start(t) \in Start(t)..End(t)
    BY RangeType
  <1>p. BagToSet(printed) = {}
    BY DEF Init, EmptyBag, SetToBag, BagToSet
  <1>3. TypeOK
    BY <1>1, <1>2, <1>p, AllAType DEF Init, TypeOK
  <1>4. Stages
    BY <1>1 DEF Init, Stages, T
  <1>5. Numbered
    BY <1>2 DEF Init, Numbered
  <1>6. OneEntry /\ Tried /\ CrackedPrinted /\ Done
    BY DEF Init, OneEntry, Tried, CrackedPrinted, Done
  <1>7. OwnNumbers /\ PrintedCracked
    BY <1>p DEF OwnNumbers, PrintedCracked
  <1> QED
    BY <1>3, <1>4, <1>5, <1>6, <1>7 DEF IInv

\* While main reads, no thread has begun.
LEMMA Reading ==
  ASSUME IInv, main = "reading", NEW t \in T
  PROVE  pc[t] = "none" /\ next[t] = Start(t) /\ Start(t)..(next[t] - 1) = {}
  <1>1. created <= t
    BY CrackerAssumption DEF IInv, Stages, T
  <1>2. pc[t] = "none" /\ next[t] = Start(t)
    BY <1>1 DEF IInv, Stages
  <1> QED
    BY <1>2, RangeType

LEMMA ReadInvariant ==
  ASSUME IInv, NEW u \in Users, ReadLine(u)
  PROVE  IInv'
  <1>u. UNCHANGED threadVars /\ main = "reading" /\ created' = created /\ created = 0
    BY DEF ReadLine, IInv, Stages
  <1> USE DEF threadVars
  <1>1. /\ entries \subseteq entries'
        /\ \A e \in entries' : e \notin entries => /\ e = [user |-> u, password |-> lines[u]]
                                                   /\ lines[u] \in Guesses
    BY DEF ReadLine, IInv, TypeOK
  <1>2. /\ DOMAIN lines' = DOMAIN lines \ {u} /\ u \in DOMAIN lines
        /\ \A v \in DOMAIN lines' : lines'[v] = lines[v]
    BY DEF ReadLine
  <1>3. TypeOK'
    <2>1. entries' \in SUBSET [user : Users, password : Guesses]
      BY <1>1 DEF IInv, TypeOK
    <2>2. main' \in {"reading", "exited"}
      BY DEF ReadLine
    <2>3. \A v \in DOMAIN lines' : v \in Users /\ lines'[v] \in Guesses \cup {Malformed}
      BY <1>2 DEF IInv, TypeOK
    <2> QED
      BY <1>u, <2>1, <2>2, <2>3 DEF IInv, TypeOK
  <1>4. OneEntry'
    <2>1. \A e \in entries : e.user # u
      BY <1>2 DEF IInv, OneEntry
    <2>2. \A e \in entries' : e \in entries \/ (e.user = u /\ e = [user |-> u, password |-> lines[u]])
      BY <1>1
    <2> QED
      BY <1>2, <2>1, <2>2 DEF IInv, OneEntry
  <1>5. Stages'
    BY <1>u DEF IInv, Stages
  <1>6. Numbered'
    BY <1>u DEF IInv, Numbered
  <1>7. OwnNumbers'
    BY <1>u, <1>1 DEF IInv, OwnNumbers
  <1>8. Tried'
    BY <1>u, Reading DEF Tried
  <1>9. CrackedPrinted' /\ PrintedCracked'
    BY <1>u DEF IInv, CrackedPrinted, PrintedCracked
  <1>10. Done'
    BY <1>u, Reading DEF Done
  <1> QED
    BY <1>3, <1>4, <1>5, <1>6, <1>7, <1>8, <1>9, <1>10 DEF IInv

\* main's steps after that change where it and the threads stand.
LEMMA MainInvariant ==
  ASSUME IInv, EndOfFile \/ CreateThread \/ JoinAll
  PROVE  IInv'
  <1>1. UNCHANGED <<lines, entries, next, guess, cracked, printed>>
    BY DEF EndOfFile, CreateThread, JoinAll, threadVars
  <1>2. Threads \in Nat \ {0} /\ created \in 0..Threads
    BY CrackerAssumption DEF IInv, TypeOK
  <1>3. TypeOK'
    BY <1>1, <1>2 DEF EndOfFile, CreateThread, JoinAll, threadVars, IInv, TypeOK
  <1>4. Stages'
    <2>1. CASE EndOfFile
      BY <2>1 DEF EndOfFile, IInv, Stages, threadVars
    <2>2. CASE CreateThread
      <3>1. created \in T
        BY <1>2, <2>2 DEF CreateThread, T
      <3>2. pc' = [pc EXCEPT ![created] = "running"] /\ created' = created + 1 /\ main' = "creating"
        BY <2>2 DEF CreateThread
      <3>3. \A t \in T : pc'[t] = "none" <=> created + 1 <= t
        BY <1>2, <3>1, <3>2 DEF IInv, Stages, TypeOK, T
      <3>4. \A t \in T : pc'[t] = "none" => next[t] = Start(t)
        BY <3>1, <3>2 DEF IInv, Stages, TypeOK
      <3> QED
        BY <1>1, <3>2, <3>3, <3>4 DEF Stages
    <2>3. CASE JoinAll
      BY <2>3 DEF JoinAll, IInv, Stages, threadVars
    <2> QED
      BY <2>1, <2>2, <2>3
  <1>5. Done'
    <2>1. \A t \in T : pc'[t] = "exited" => pc[t] = "exited"
      BY DEF EndOfFile, CreateThread, JoinAll, threadVars, IInv, TypeOK
    <2> QED
      BY <1>1, <2>1 DEF IInv, Done, AllCracked
  <1> QED
    BY <1>1, <1>3, <1>4, <1>5
       DEF IInv, OneEntry, Numbered, OwnNumbers, Tried, CrackedPrinted, PrintedCracked

LEMMA GuessInvariant ==
  ASSUME IInv, NEW t \in T, Guess(t)
  PROVE  IInv'
  <1> DEFINE n == next[t]
             g == Number(n)
             found == cracked[t] \cup Hits(t, g)
  <1>1. n \in Nat /\ n \in Start(t)..(End(t) - 1) /\ n + 1 \in Start(t)..End(t)
    BY RangeType DEF IInv, Numbered, TypeOK, Guess
  <1>2. NextGuess(n, guess[t]) = g
    <2>1. CASE n = Start(t)
      BY <1>1, <2>1, NextGuessIsNumber DEF IInv, Numbered
    <2>2. CASE n # Start(t)
      <3>1. guess[t] = Number(n - 1) /\ n # 0
        BY <1>1, <2>2, RangeType DEF IInv, Numbered
      <3> QED
        BY <1>1, <3>1, NextGuessIsNumber
    <2> QED
      BY <2>1, <2>2
  <1>3. g \in Guesses
    BY <1>1, NumberType
  <1> HIDE DEF g
  <1>4. /\ guess' = [guess EXCEPT ![t] = g]
        /\ cracked' = [cracked EXCEPT ![t] = found]
        /\ printed' = printed (+) SetToBag({<<t, u, g>> : u \in Hits(t, g)})
        /\ pc' = [pc EXCEPT ![t] = IF AllCracked(found) THEN "exited" ELSE @]
        /\ next' = [next EXCEPT ![t] = n + 1]
        /\ UNCHANGED <<lines, entries, created, main>>
        /\ pc[t] = "running"
    BY <1>2 DEF Guess
  <1>h. \A u \in Hits(t, g) : u \in Users /\ [user |-> u, password |-> g] \in entries
    BY DEF Hits, IInv, TypeOK
  <1>p. /\ BagToSet(printed') = BagToSet(printed) \cup {<<t, u, g>> : u \in Hits(t, g)}
        /\ \A x \in BagToSet(printed') : printed'[x] = 1
    <2>1. \A u \in Hits(t, g) : u \notin cracked[t]
      BY DEF Hits
    <2>2. \A x \in BagToSet(printed) : /\ printed[x] = 1
                                      /\ x \notin {<<t, u, g>> : u \in Hits(t, g)}
      BY <2>1 DEF IInv, PrintedCracked
    <2> QED
      BY <1>4, <2>2, AddedOnce
  <1>5. TypeOK'
    <2>1. found \in SUBSET Users
      BY <1>h DEF IInv, TypeOK
    <2> HIDE DEF found, n
    <2>2. cracked' \in [T -> SUBSET Users] /\ guess' \in [T -> Guesses] /\ next' \in [T -> Nat]
      BY <1>1, <1>3, <1>4, <2>1 DEF IInv, TypeOK
    <2>3. BagToSet(printed') \in SUBSET (T \X Users \X Guesses)
      <3>1. \A u \in Hits(t, g) : <<t, u, g>> \in T \X Users \X Guesses
        BY <1>3, <1>h
      <3>2. BagToSet(printed) \in SUBSET (T \X Users \X Guesses)
        BY DEF IInv, TypeOK
      <3> QED
        BY <1>p, <3>1, <3>2
    <2>4. pc' \in [T -> {"none", "running", "exited"}]
      BY <1>4 DEF IInv, TypeOK
    <2> QED
      BY <1>4, <2>2, <2>3, <2>4 DEF IInv, TypeOK
  <1>6. Stages'
    <2>1. \A s \in T : s # t => pc'[s] = pc[s] /\ next'[s] = next[s]
      BY <1>4 DEF IInv, TypeOK
    <2>2. pc'[t] \in {"running", "exited"}
      BY <1>4 DEF IInv, TypeOK
    <2>3. main # "exited"
      BY <1>1, <1>4, CrackerAssumption DEF IInv, Stages, T
    <2> QED
      BY <1>4, <2>1, <2>2, <2>3 DEF IInv, Stages
  <1>7. Numbered'
    <2>1. \A s \in T : s # t => guess'[s] = guess[s] /\ next'[s] = next[s]
      BY <1>4 DEF IInv, TypeOK
    <2>2. guess'[t] = g /\ next'[t] = n + 1
      BY <1>4 DEF IInv, TypeOK
    <2>3. n + 1 # Start(t) /\ (n + 1) - 1 = n
      BY <1>1, RangeType
    <2> HIDE DEF n
    <2> QED
      BY <1>1, <2>1, <2>2, <2>3 DEF IInv, Numbered, g
  <1>8. OwnNumbers'
    <2>1. \A u \in Hits(t, g) : /\ [user |-> <<t, u, g>>[2], password |-> <<t, u, g>>[3]] \in entries
                                /\ <<t, u, g>>[1] = t /\ <<t, u, g>>[3] = Number(n)
      BY <1>h DEF g
    <2> HIDE DEF n
    <2> QED
      BY <1>1, <1>4, <1>p, <2>1 DEF IInv, OwnNumbers
  <1>9. Tried'
    <2> SUFFICES ASSUME NEW s \in T, NEW e \in entries, NEW m \in Start(s)..(next'[s] - 1),
                        e.password = Number(m)
                 PROVE  e.user \in cracked'[s]
      BY <1>4 DEF Tried
    <2>1. CASE s # t
      BY <1>4, <2>1 DEF IInv, Tried, TypeOK
    <2>2. CASE s = t /\ m # n
      <3>1. m \in Start(t)..(n - 1)
        BY <1>1, <1>4, <2>2, RangeType DEF IInv, TypeOK
      <3>2. e.user \in cracked[t]
        BY <2>2, <3>1 DEF IInv, Tried
      <3> QED
        BY <1>4, <2>2, <3>2 DEF IInv, TypeOK
    <2>3. CASE s = t /\ m = n
      <3>1. e.user \in cracked[t] \/ e.user \in Hits(t, g)
        BY <2>3 DEF Hits, g
      <3> QED
        BY <1>4, <2>3, <3>1 DEF IInv, TypeOK
    <2> QED
      BY <2>1, <2>2, <2>3
  <1>10. CrackedPrinted'
    <2> SUFFICES ASSUME NEW s \in T, NEW u \in cracked'[s]
                 PROVE  \E h \in Guesses : BagIn(<<s, u, h>>, printed')
      BY DEF CrackedPrinted
    <2>1. CASE u \in cracked[s]
      BY <1>p, <2>1 DEF IInv, CrackedPrinted, BagIn
    <2>2. CASE u \notin cracked[s]
      <3>1. s = t /\ u \in Hits(t, g)
        BY <1>4, <2>2 DEF IInv, TypeOK
      <3> QED
        BY <1>3, <1>p, <3>1 DEF BagIn
    <2> QED
      BY <2>1, <2>2
  <1>11. PrintedCracked'
    <2> SUFFICES ASSUME NEW x \in BagToSet(printed') PROVE x[2] \in cracked'[x[1]]
      BY <1>p DEF PrintedCracked
    <2>1. CASE x \in BagToSet(printed)
      <3>1. x[2] \in cracked[x[1]] /\ x[1] \in T
        BY <2>1 DEF IInv, PrintedCracked, TypeOK
      <3> QED
        BY <1>4, <3>1 DEF IInv, TypeOK
    <2>2. CASE x \in {<<t, u, g>> : u \in Hits(t, g)}
      <3>1. x[1] = t /\ x[2] \in Hits(t, g)
        BY <2>2
      <3> QED
        BY <1>4, <3>1 DEF IInv, TypeOK
    <2> QED
      BY <1>p, <2>1, <2>2
  <1>12. Done'
    <2> HIDE DEF n, found
    <2> SUFFICES ASSUME NEW s \in T, pc'[s] = "exited"
                 PROVE  next'[s] = End(s) \/ AllCracked(cracked[s])'
      BY DEF Done
    <2>1. CASE s # t
      BY <1>4, <2>1 DEF IInv, Done, TypeOK, AllCracked
    <2>2. CASE s = t
      <3>1. AllCracked(found) /\ cracked'[t] = found
        BY <1>4, <2>2 DEF IInv, TypeOK
      <3> QED
        BY <1>4, <2>2, <3>1 DEF AllCracked
    <2> QED
      BY <2>1, <2>2
  <1>13. OneEntry'
    BY <1>4 DEF IInv, OneEntry
  <1> QED
    BY <1>5, <1>6, <1>7, <1>8, <1>9, <1>10, <1>11, <1>12, <1>13 DEF IInv

LEMMA ReturnInvariant ==
  ASSUME IInv, NEW t \in T, Return(t)
  PROVE  IInv'
  <1>1. /\ pc' = [pc EXCEPT ![t] = "exited"] /\ pc[t] = "running" /\ next[t] = End(t)
        /\ UNCHANGED <<lines, entries, created, main, next, guess, cracked, printed, rollbacks>>
    BY DEF Return
  <1>2. TypeOK'
    BY <1>1 DEF IInv, TypeOK
  <1>3. Stages'
    BY <1>1 DEF IInv, Stages, TypeOK
  <1>4. Done'
    <2>1. \A s \in T : pc'[s] = "exited" => s = t \/ pc[s] = "exited"
      BY <1>1 DEF IInv, TypeOK
    <2> QED
      BY <1>1, <2>1 DEF IInv, Done, AllCracked
  <1> QED
    BY <1>1, <1>2, <1>3, <1>4
       DEF IInv, OneEntry, Numbered, OwnNumbers, Tried, CrackedPrinted, PrintedCracked

LEMMA RollbackInvariant ==
  ASSUME IInv, NEW t \in T, Rollback(t)
  PROVE  IInv'
  <1>1. /\ pc[t] = "running"
        /\ next' = [next EXCEPT ![t] = Start(t)] /\ guess' = [guess EXCEPT ![t] = AllA]
        /\ UNCHANGED <<lines, entries, created, main, pc, cracked, printed>>
    BY DEF Rollback
  <1>2. Start(t) \in Nat /\ Start(t) \in Start(t)..End(t)
    BY RangeType
  <1>3. /\ next'[t] = Start(t) /\ guess'[t] = AllA
        /\ \A s \in T : s # t => next'[s] = next[s] /\ guess'[s] = guess[s]
    BY <1>1 DEF IInv, TypeOK
  <1>4. TypeOK'
    BY <1>1, <1>2, AllAType DEF IInv, TypeOK
  <1>5. Stages'
    BY <1>1, <1>3 DEF IInv, Stages
  <1>6. Numbered'
    BY <1>2, <1>3 DEF IInv, Numbered
  <1>7. Tried'
    <2>1. Start(t)..(next'[t] - 1) = {}
      BY <1>2, <1>3
    <2> QED
      BY <1>1, <1>3, <2>1 DEF IInv, Tried
  <1>8. Done'
    BY <1>1, <1>3 DEF IInv, Done, AllCracked
  <1> QED
    BY <1>1, <1>4, <1>5, <1>6, <1>7, <1>8
       DEF IInv, OneEntry, OwnNumbers, CrackedPrinted, PrintedCracked

LEMMA NextInvariant == IInv /\ [Next]_vars => IInv'
  <1> SUFFICES ASSUME IInv, [Next]_vars PROVE IInv'
    OBVIOUS
  <1>1. CASE UNCHANGED vars
    BY <1>1 DEF vars, IInv, TypeOK, OneEntry, Stages, Numbered, OwnNumbers, Tried,
                CrackedPrinted, PrintedCracked, Done, AllCracked
  <1> QED
    BY <1>1, ReadInvariant, MainInvariant, GuessInvariant, ReturnInvariant, RollbackInvariant
       DEF Next, Terminated

LEMMA InductiveInvariant == Spec => []IInv
  BY InitInvariant, NextInvariant, PTL DEF Spec

-----------------------------------------------------------------------------
(* The theorems *)

\* The digits of a guess that a number does not have are zeros, although the
\* loop (generate_all_possibilities, password_cracker.cc:108) never writes them.
THEOREM GuessesAreNumbers == Spec => []GuessIsNumber
  <1>1. IInv => GuessIsNumber
    <2> SUFFICES ASSUME IInv, NEW t \in T, next[t] > Start(t), NEW k \in Index
                 PROVE  guess[t][k] = Digit(next[t] - 1, k)
      BY DEF GuessIsNumber
    <2>1. next[t] # Start(t)
      BY RangeType DEF IInv, TypeOK
    <2>2. guess[t] = Number(next[t] - 1)
      BY <2>1 DEF IInv, Numbered
    <2> QED
      BY <2>2 DEF Number
  <1> QED
    BY <1>1, InductiveInvariant, PTL

\* No password is printed twice, neither by one thread in two attempts, which
\* finds it in its flags (password_cracker.cc:127, 132), nor by two threads: a
\* user has one password, it is one number, and the number one thread's.
THEOREM EachPrintedOnce == Spec => []PrintedOnce
  <1>1. ASSUME IInv, NEW x \in BagToSet(printed), NEW y \in BagToSet(printed), x[2] = y[2]
        PROVE  x = y
    <2>1. x \in T \X Users \X Guesses /\ y \in T \X Users \X Guesses
      BY <1>1 DEF IInv, TypeOK
    <2>2. x[3] = y[3]
      <3> DEFINE e == [user |-> x[2], password |-> x[3]]
                 f == [user |-> y[2], password |-> y[3]]
      <3>1. e \in entries /\ f \in entries /\ e.user = f.user
        BY <1>1 DEF IInv, OwnNumbers
      <3>2. e = f
        BY <1>1, <3>1 DEF IInv, OneEntry
      <3>3. e.password = f.password
        BY <3>2
      <3> QED
        BY <3>3
    <2>3. PICK n \in Start(x[1])..(End(x[1]) - 1) : x[3] = Number(n)
      BY <1>1 DEF IInv, OwnNumbers
    <2>4. PICK m \in Start(y[1])..(End(y[1]) - 1) : y[3] = Number(m)
      BY <1>1 DEF IInv, OwnNumbers
    <2>5. x[1] \in T /\ y[1] \in T
      BY <2>1
    <2>6. n \in Nat /\ n \in 0..(TotalPasswords - 1) /\ m \in 0..(TotalPasswords - 1)
      <3>1. TotalPasswords \in Nat
        BY CrackerAssumption, Powers DEF TotalPasswords
      <3> QED
        BY <2>3, <2>4, <2>5, <3>1, RangeType
    <2>7. n = m
      BY <2>2, <2>3, <2>4, <2>6, NumberInjective
    <2>8. x[1] = y[1]
      BY <2>3, <2>4, <2>5, <2>6, <2>7, RangesApart
    <2> QED
      BY <1>1, <2>1, <2>2, <2>8
  <1>2. IInv => PrintedOnce
    BY <1>1 DEF IInv, OwnNumbers, PrintedCracked, PrintedOnce
  <1> QED
    BY <1>2, InductiveInvariant, PTL

\* Every password is found: it is a number, the number is in the range of a
\* thread, and a thread that stops before the end of its range has found them
\* all, whatever the others do and however often sections roll back.
THEOREM AllFound == Spec => []EveryPasswordFound
  <1>1. ASSUME IInv, main = "exited", created = Threads, NEW e \in entries
        PROVE  \E t \in T : BagIn(<<t, e.user, e.password>>, printed)
    <2>1. e \in [user : Users, password : Guesses]
      BY <1>1 DEF IInv, TypeOK
    <2>2. PICK n \in 0..(TotalPasswords - 1) : e.password = Number(n)
      BY <2>1, NumberOnto
    <2>3. PICK t \in T : n \in Start(t)..(End(t) - 1)
      BY <2>2, RangesCover
    <2>4. pc[t] = "exited"
      BY <1>1, CrackerAssumption DEF IInv, Stages
    <2>5. e.user \in cracked[t]
      BY <1>1, <2>2, <2>3, <2>4 DEF IInv, Done, Tried, AllCracked
    <2>6. PICK g \in Guesses : BagIn(<<t, e.user, g>>, printed)
      BY <1>1, <2>5 DEF IInv, CrackedPrinted
    <2>7. g = e.password
      <3> DEFINE x == <<t, e.user, g>>
                 f == [user |-> x[2], password |-> x[3]]
      <3>1. f \in entries /\ f.user = e.user /\ f.password = g
        BY <1>1, <2>6 DEF IInv, OwnNumbers, BagIn
      <3>2. f = e
        BY <1>1, <3>1 DEF IInv, OneEntry
      <3> QED
        BY <3>1, <3>2
    <2> QED
      BY <2>6, <2>7
  <1>2. IInv => EveryPasswordFound
    BY <1>1 DEF EveryPasswordFound
  <1> QED
    BY <1>2, InductiveInvariant, PTL

=============================================================================
