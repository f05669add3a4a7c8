----------------------------- MODULE TextProofs -----------------------------
(***************************************************************************)
(* Proofs about the texts tgexport reads: a size (Arguments), for a word   *)
(* of any width and a text of any length, and a stored name (Naming), for  *)
(* any dialog, any id and any name.                                        *)
(*                                                                         *)
(* Both are read digit by digit, so the facts are inductions over a text.  *)
(* An induction is done on the set of the numbers for which the claim      *)
(* holds: that set is shown to be Nat.                                     *)
(***************************************************************************)
EXTENDS Arguments, Naming, SequenceTheorems, WellFoundedInduction, TLAPS

-----------------------------------------------------------------------------
(***************************************************************************)
(* Induction.                                                              *)
(***************************************************************************)
LEMMA LeastNatural ==
    ASSUME NEW T \in SUBSET Nat, T # {}
    PROVE  \E n \in T : \A m \in T : n <= m
<1> DEFINE R == OpToRel(<, Nat)
<1>1. \E n \in T : \A m \in T : ~ (<<m, n>> \in R)
  <2>1. IsWellFoundedOn(R, Nat)
    BY NatLessThanWellFounded
  <2> HIDE DEF R
  <2> QED
    BY <2>1, WFMin
<1>2. \A m, n \in Nat : m < n => <<m, n>> \in R
  BY DEF OpToRel
<1> HIDE DEF R
<1>3. PICK n \in T : \A m \in T : ~ (<<m, n>> \in R)
  BY <1>1
<1>4. ASSUME NEW m \in T
      PROVE  n <= m
  <2>1. m \in Nat /\ n \in Nat
    OBVIOUS
  <2>2. ~ (m < n)
    BY <1>2, <1>3, <2>1
  <2> QED
    BY <2>1, <2>2
<1> QED
  BY <1>4

LEMMA NatInductionOnSets ==
    ASSUME NEW S \in SUBSET Nat, 0 \in S, \A n \in S : n + 1 \in S
    PROVE  S = Nat
<1> SUFFICES ASSUME Nat \ S # {}
             PROVE  FALSE
  OBVIOUS
<1>1. PICK n \in Nat \ S : \A m \in Nat \ S : n <= m
  BY LeastNatural
<1>2. n # 0 /\ n - 1 \in Nat /\ n - 1 \in S
  BY <1>1
<1> QED
  BY <1>1, <1>2

-----------------------------------------------------------------------------
(***************************************************************************)
(* What digits add up to: Number and Value, which are one function.        *)
(***************************************************************************)
Adds(s, n, f) ==
    f \in [0 .. n -> Int] /\ f[0] = 0 /\ \A k \in 1 .. n : f[k] = 10 * f[k - 1] + s[k]

LEMMA SumsExist ==
    ASSUME NEW s \in Seq(Int)
    PROVE  \E f : Adds(s, Len(s), f)
<1> DEFINE S == {n \in Nat : n <= Len(s) => \E f : Adds(s, n, f)}
<1>0. Len(s) \in Nat /\ \A k \in 1 .. Len(s) : s[k] \in Int
  BY LenProperties, ElementOfSeq
<1>1. 0 \in S
  <2>1. Adds(s, 0, [k \in 0 .. 0 |-> 0])
    BY DEF Adds
  <2> QED
    BY <2>1
<1>2. ASSUME NEW n \in S
      PROVE  n + 1 \in S
  <2> SUFFICES ASSUME n + 1 <= Len(s)
               PROVE  \E f : Adds(s, n + 1, f)
    OBVIOUS
  <2>1. PICK f : Adds(s, n, f)
    BY <1>0
  <2> DEFINE g == [k \in 0 .. n + 1 |-> IF k <= n THEN f[k] ELSE 10 * f[n] + s[n + 1]]
  <2>2. f \in [0 .. n -> Int] /\ n \in Nat /\ s[n + 1] \in Int /\ f[n] \in Int
    BY <1>0, <2>1 DEF Adds
  <2>3. g \in [0 .. n + 1 -> Int] /\ g[0] = 0
    BY <2>1, <2>2 DEF Adds
  <2>4. ASSUME NEW k \in 1 .. n + 1
        PROVE  g[k] = 10 * g[k - 1] + s[k]
    <3>1. CASE k <= n
      BY <2>1, <2>2, <3>1 DEF Adds
    <3>2. CASE k = n + 1
      BY <2>2, <3>2
    <3> QED
      BY <2>2, <3>1, <3>2
  <2>5. Adds(s, n + 1, g)
    BY <2>3, <2>4 DEF Adds
  <2> QED
    BY <2>5
<1> HIDE DEF S
<1>3. S = Nat
  BY <1>1, <1>2, NatInductionOnSets DEF S
<1> QED
  BY <1>0, <1>3 DEF S

LEMMA SumsAreUnique ==
    ASSUME NEW s, NEW m \in Nat, NEW n \in Nat, NEW f, NEW g,
           Adds(s, m, f), Adds(s, n, g), m <= n
    PROVE  f[m] = g[m]
<1> DEFINE S == {k \in Nat : k <= m => f[k] = g[k]}
<1>1. 0 \in S
  BY DEF Adds
<1>2. ASSUME NEW k \in S
      PROVE  k + 1 \in S
  BY DEF Adds
<1> HIDE DEF S
<1>3. S = Nat
  BY <1>1, <1>2, NatInductionOnSets DEF S
<1> QED
  BY <1>3 DEF S

LEMMA NumberAdds ==
    ASSUME NEW s \in Seq(Int)
    PROVE  \E f : Adds(s, Len(s), f) /\ Number(s) = f[Len(s)] /\ Value(s) = f[Len(s)]
<1> DEFINE n == Len(s)
           eq(f) == f = [k \in 0 .. n |-> IF k = 0 THEN 0 ELSE 10 * f[k - 1] + s[k]]
           f == CHOOSE f : eq(f)
<1>0. n \in Nat /\ \A k \in 1 .. n : s[k] \in Int
  BY LenProperties, ElementOfSeq
<1>1. PICK g : Adds(s, n, g)
  BY SumsExist
<1>2. Number(s) = f[n] /\ Value(s) = f[n]
  BY DEF Number, Value
<1>3. eq(g)
  <2>1. g = [k \in 0 .. n |-> g[k]]
    BY <1>1 DEF Adds
  <2>2. \A k \in 0 .. n : g[k] = IF k = 0 THEN 0 ELSE 10 * g[k - 1] + s[k]
    BY <1>0, <1>1 DEF Adds
  <2> QED
    BY <2>1, <2>2
<1>4. eq(f)
  BY <1>3
<1> HIDE DEF f
<1>5. f[0] = 0 /\ \A k \in 1 .. n : f[k] = 10 * f[k - 1] + s[k]
  BY <1>0, <1>4
<1>6. f = [k \in 0 .. n |-> f[k]]
  BY <1>4
<1>7. \A k \in 0 .. n : f[k] = g[k]
  <2> DEFINE S == {k \in Nat : k <= n => f[k] = g[k]}
  <2>1. 0 \in S
    BY <1>1, <1>5 DEF Adds
  <2>2. ASSUME NEW k \in S
        PROVE  k + 1 \in S
    <3> SUFFICES ASSUME k + 1 <= n
                 PROVE  f[k + 1] = g[k + 1]
      OBVIOUS
    <3>1. k + 1 \in 1 .. n /\ f[k] = g[k] /\ (k + 1) - 1 = k
      BY <1>0
    <3> QED
      BY <3>1, <1>1, <1>5 DEF Adds
  <2> HIDE DEF S
  <2>3. S = Nat
    BY <2>1, <2>2, NatInductionOnSets DEF S
  <2> QED
    BY <2>3, <1>0 DEF S
<1>8. f = g
  BY <1>1, <1>6, <1>7 DEF Adds
<1> QED
  BY <1>1, <1>2, <1>8

LEMMA NumberType ==
    ASSUME NEW s \in Seq(Int)
    PROVE  Number(s) \in Int /\ Value(s) = Number(s)
<1>1. PICK f : Adds(s, Len(s), f) /\ Number(s) = f[Len(s)] /\ Value(s) = f[Len(s)]
  BY NumberAdds
<1> QED
  BY <1>1, LenProperties DEF Adds

LEMMA NumberOfNothing == Number(<<>>) = 0
<1>1. <<>> \in Seq(Int) /\ Len(<<>>) = 0
  OBVIOUS
<1> QED
  BY <1>1, NumberAdds DEF Adds

(* Another digit.                                                          *)
LEMMA NumberOfAppend ==
    ASSUME NEW s \in Seq(Int), NEW d \in Int
    PROVE  Number(Append(s, d)) = 10 * Number(s) + d
<1> DEFINE t == Append(s, d)
           n == Len(s)
<1>1. n \in Nat /\ t \in Seq(Int) /\ Len(t) = n + 1 /\ t[n + 1] = d
      /\ \A k \in 1 .. n : t[k] = s[k]
  BY AppendProperties, LenProperties
<1> HIDE DEF t, n
<1>2. PICK f : Adds(s, n, f) /\ Number(s) = f[n]
  BY NumberAdds DEF n
<1>3. PICK g : Adds(t, n + 1, g) /\ Number(t) = g[n + 1]
  BY <1>1, NumberAdds
<1>4. Adds(t, n, f)
  BY <1>1, <1>2 DEF Adds
<1>5. f[n] = g[n]
  BY <1>1, <1>3, <1>4, SumsAreUnique
<1>6. g[n + 1] = 10 * g[n] + d
  BY <1>1, <1>3 DEF Adds
<1> QED
  BY <1>2, <1>3, <1>5, <1>6 DEF t

(* A digit after others, or none.                                          *)
LEMMA LastDigit ==
    ASSUME NEW s \in Seq(0 .. 9), s # <<>>
    PROVE  \E r \in Seq(0 .. 9), d \in 0 .. 9 :
             /\ s = Append(r, d) /\ Len(r) = Len(s) - 1
             /\ r # <<>> => r[1] = s[1]
             /\ r = <<>> => d = s[1]
             /\ Number(s) = 10 * Number(r) + d /\ Number(r) \in Int
<1>1. PICK r \in Seq(0 .. 9), d \in 0 .. 9 : s = Append(r, d)
  BY SequenceEmptyOrAppend
<1>2. /\ Len(s) = Len(r) + 1 /\ Len(r) \in Nat /\ s[Len(r) + 1] = d
      /\ \A k \in 1 .. Len(r) : s[k] = r[k]
  BY <1>1, AppendProperties, LenProperties
<1>3. (r # <<>> => r[1] = s[1]) /\ (r = <<>> => d = s[1])
  BY <1>2
<1>4. r \in Seq(Int)
  BY SeqMonotonic, 0 .. 9 \subseteq Int
<1>5. Number(s) = 10 * Number(r) + d /\ Number(r) \in Int
  BY <1>1, <1>4, NumberOfAppend, NumberType
<1> QED
  BY <1>1, <1>2, <1>3, <1>5

(* No digits make less than 0, and the text of an id makes more.           *)
LEMMA NumberIsNatural ==
    ASSUME NEW s \in Seq(0 .. 9)
    PROVE  Number(s) \in Nat /\ (s # <<>> /\ s[1] # 0 => Number(s) > 0)
<1> DEFINE good(t) == Number(t) \in Nat /\ (t # <<>> /\ t[1] # 0 => Number(t) > 0)
           S == {n \in Nat : \A t \in Seq(0 .. 9) : Len(t) = n => good(t)}
<1>1. 0 \in S
  BY NumberOfNothing
<1>2. ASSUME NEW n \in S
      PROVE  n + 1 \in S
  <2> SUFFICES ASSUME NEW t \in Seq(0 .. 9), Len(t) = n + 1
               PROVE  good(t)
    OBVIOUS
  <2>1. PICK r \in Seq(0 .. 9), d \in 0 .. 9 :
          /\ t = Append(r, d) /\ Len(r) = Len(t) - 1
          /\ r # <<>> => r[1] = t[1]
          /\ r = <<>> => d = t[1]
          /\ Number(t) = 10 * Number(r) + d
    <3>1. t # <<>>
      OBVIOUS
    <3> QED
      BY <3>1, LastDigit
  <2>2. good(r)
    BY <2>1
  <2>3. CASE r = <<>>
    BY <2>1, <2>3, NumberOfNothing
  <2>4. CASE r # <<>>
    <3>1. Number(r) \in Nat /\ (t[1] # 0 => Number(r) > 0)
      BY <2>1, <2>2, <2>4
    <3>2. Number(t) = 10 * Number(r) + d /\ d \in Nat
      BY <2>1
    <3> QED
      BY <3>1, <3>2
  <2> QED
    BY <2>3, <2>4
<1> HIDE DEF S
<1>3. S = Nat
  BY <1>1, <1>2, NatInductionOnSets DEF S
<1>4. Len(s) \in S
  BY <1>3, LenProperties
<1> QED
  BY <1>4 DEF S

(* Texts of the same number end in the same digit.                         *)
LEMMA SameLastDigit ==
    ASSUME NEW p \in Seq(0 .. 9), NEW q \in Seq(0 .. 9), p # <<>>, q # <<>>,
           Number(p) = Number(q)
    PROVE  \E r, u \in Seq(0 .. 9), d \in 0 .. 9 :
             /\ p = Append(r, d) /\ Len(r) = Len(p) - 1 /\ (r # <<>> => r[1] = p[1])
             /\ q = Append(u, d) /\ (u # <<>> => u[1] = q[1])
             /\ Number(r) = Number(u)
<1>1. PICK r \in Seq(0 .. 9), d \in 0 .. 9 :
        /\ p = Append(r, d) /\ Len(r) = Len(p) - 1
        /\ r # <<>> => r[1] = p[1]
        /\ Number(p) = 10 * Number(r) + d /\ Number(r) \in Int
  BY LastDigit
<1>2. PICK u \in Seq(0 .. 9), e \in 0 .. 9 :
        /\ q = Append(u, e)
        /\ u # <<>> => u[1] = q[1]
        /\ Number(q) = 10 * Number(u) + e /\ Number(u) \in Int
  BY LastDigit
<1>3. 10 * Number(r) + d = 10 * Number(u) + e /\ Number(r) \in Int /\ Number(u) \in Int
  BY <1>1, <1>2
<1>4. Number(r) = Number(u) /\ d = e
  <2>1. 10 * (Number(r) - Number(u)) = e - d
    BY <1>3
  <2> DEFINE gap == Number(r) - Number(u)
  <2>2. gap \in Int /\ 10 * gap = e - d
    BY <1>3, <2>1
  <2> HIDE DEF gap
  <2>3. gap < 1 /\ gap > -1
    BY <2>2
  <2>4. Number(r) - Number(u) < 1 /\ Number(r) - Number(u) > -1
    BY <2>3 DEF gap
  <2>5. Number(r) = Number(u)
    BY <1>3, <2>4
  <2> QED
    BY <1>3, <2>5
<1> QED
  BY <1>1, <1>2, <1>4

(* One number has one text.                                                *)
LEMMA NumberIsInjective ==
    ASSUME NEW s \in Seq(0 .. 9), NEW t \in Seq(0 .. 9),
           s = <<>> \/ s[1] # 0, t = <<>> \/ t[1] # 0, Number(s) = Number(t)
    PROVE  s = t
<1> DEFINE plain(r) == r = <<>> \/ r[1] # 0
           same(p, q) == plain(p) /\ plain(q) /\ Number(p) = Number(q) => p = q
           S == {n \in Nat : \A p, q \in Seq(0 .. 9) : Len(p) = n => same(p, q)}
<1>1. 0 \in S
  <2> SUFFICES ASSUME NEW p \in Seq(0 .. 9), NEW q \in Seq(0 .. 9), Len(p) = 0,
                      plain(p), plain(q), Number(p) = Number(q)
               PROVE  p = q
    OBVIOUS
  <2>1. p = <<>> /\ Number(q) = 0
    BY NumberOfNothing
  <2> QED
    BY <2>1, NumberIsNatural
<1>2. ASSUME NEW n \in S
      PROVE  n + 1 \in S
  <2> SUFFICES ASSUME NEW p \in Seq(0 .. 9), NEW q \in Seq(0 .. 9), Len(p) = n + 1,
                      plain(p), plain(q), Number(p) = Number(q)
               PROVE  p = q
    OBVIOUS
  <2>0. n \in Nat /\ p # <<>>
    OBVIOUS
  <2>1. q # <<>>
    BY <2>0, NumberOfNothing, NumberIsNatural
  <2>2. PICK r \in Seq(0 .. 9), u \in Seq(0 .. 9), d \in 0 .. 9 :
          /\ p = Append(r, d) /\ Len(r) = Len(p) - 1 /\ (r # <<>> => r[1] = p[1])
          /\ q = Append(u, d) /\ (u # <<>> => u[1] = q[1])
          /\ Number(r) = Number(u)
    BY <2>0, <2>1, SameLastDigit
  <2>3. plain(r) /\ plain(u) /\ Len(r) = n
    BY <2>0, <2>1, <2>2
  <2>4. r = u
    BY <2>2, <2>3
  <2> QED
    BY <2>2, <2>4
<1> HIDE DEF S
<1>3. S = Nat
  BY <1>1, <1>2, NatInductionOnSets DEF S
<1>4. Len(s) \in S
  BY <1>3, LenProperties
<1> QED
  BY <1>4 DEF S

-----------------------------------------------------------------------------
(***************************************************************************)
(* Sizes: every test parseSize makes before it computes is the test of the *)
(* exact result, so nothing wraps.                                         *)
(***************************************************************************)
LEMMA Width == Word \in Nat /\ Kilo \in Nat \ {0}
BY ArgumentsAssumption

\* what fits the word is read back as it is
LEMMA WrapIsIdentity ==
    ASSUME NEW n \in Nat, n <= Word
    PROVE  Wrap(n) = n
<1> DEFINE range == 2 * (Word + 1)
           m == n + Word + 1
<1>1. range \in Nat \ {0} /\ m \in Nat /\ m < range
  BY Width
<1>2. m - (Word + 1) = n
  BY Width
<1> HIDE DEF range, m
<1>3. m % range = m
  BY <1>1
<1> QED
  BY <1>2, <1>3 DEF Wrap, range, m

\* dividing the bound is multiplying the number
LEMMA QuotientIsExact ==
    ASSUME NEW n \in Nat, NEW m \in Nat \ {0}
    PROVE  n <= Word \div m <=> n * m <= Word
<1> DEFINE q == Word \div m
<1>1. q \in Nat /\ q * m <= Word /\ Word < (q + 1) * m
  BY Width
<1> HIDE DEF q
<1>2. CASE n <= q
  <2>1. n * m <= q * m
    BY <1>1, <1>2
  <2> QED
    BY <1>1, <1>2, <2>1, Width DEF q
<1>3. CASE n > q
  <2>1. n * m >= (q + 1) * m
    BY <1>1, <1>3
  <2> QED
    BY <1>1, <1>3, <2>1, Width DEF q
<1> QED
  BY <1>1, <1>2, <1>3

LEMMA MultiplierIsPositive ==
    ASSUME NEW unit
    PROVE  Multiplier(unit) \in Nat \ {0}
<1> DEFINE k2 == Kilo * Kilo
           k3 == k2 * Kilo
           k4 == k3 * Kilo
<1>1. k2 \in Nat \ {0}
  BY Width
<1> HIDE DEF k2
<1>2. k3 \in Nat \ {0}
  BY Width, <1>1
<1> HIDE DEF k3
<1>3. k4 \in Nat \ {0}
  BY Width, <1>2
<1> QED
  BY Width, <1>1, <1>2, <1>3 DEF Multiplier, k2, k3

(* Another digit is taken exactly when the number it makes fits (sync.go,  *)
(* the loop of parseSize), and is then that number.                        *)
THEOREM DigitIsExact ==
    ASSUME NEW n \in Nat, NEW d \in 0 .. 9
    PROVE  /\ Fits(n, d) <=> 10 * n + d <= Word
           /\ Fits(n, d) => Wrap(10 * n + d) = 10 * n + d
<1>1. Fits(n, d) <=> 10 * n + d <= Word
  BY Width DEF Fits
<1> QED
  BY <1>1, WrapIsIdentity

(* A positive number of units is accepted exactly when their bytes fit,    *)
(* and as so many bytes: no product wraps to a smaller cap or to none.     *)
THEOREM UnitIsExact ==
    ASSUME NEW digits \in Seq(0 .. Other), digits # <<>>,
           NEW unit \in Units \ {"unknown"},
           NEW n \in Nat \ {0}, Digits(digits) = Accepted(n)
    PROVE  ParseSize(digits, unit) =
             IF n * Multiplier(unit) <= Word THEN Accepted(n * Multiplier(unit)) ELSE Refused
<1> DEFINE m == Multiplier(unit)
<1>1. m \in Nat \ {0} /\ n * m \in Nat
  BY MultiplierIsPositive
<1> HIDE DEF m
<1>2. n <= Word \div m <=> n * m <= Word
  BY <1>1, QuotientIsExact
<1>3. n * m <= Word => Wrap(n * m) = n * m
  BY <1>1, WrapIsIdentity
<1>4. Digits(digits).ok /\ Digits(digits).size = n
  BY DEF Accepted
<1>5. ParseSize(digits, unit) =
        IF n > Word \div m THEN Refused ELSE Accepted(Wrap(n * m))
  BY <1>4 DEF ParseSize, m
<1>6. Word \div m \in Int
  BY <1>1, Width
<1> QED
  BY <1>2, <1>3, <1>5, <1>6 DEF m

AllDigits(digits, k) == \A j \in 1 .. k : digits[j] # Other

(* The digits of a text are taken as the number they spell, or not at all. *)
LEMMA DigitsAreExact ==
    ASSUME NEW digits \in Seq(0 .. Other)
    PROVE  /\ Value(digits) \in Nat
           /\ Digits(digits) = IF AllDigits(digits, Len(digits)) /\ Value(digits) <= Word
                                 THEN Accepted(Value(digits)) ELSE Refused
<1> DEFINE n == Len(digits)
           next(r, d) == IF r.ok /\ d # Other /\ Fits(r.size, d)
                           THEN Accepted(Wrap(10 * r.size + d)) ELSE Refused
           eq(f) == f = [k \in 0 .. n |-> IF k = 0 THEN Accepted(0)
                                          ELSE next(f[k - 1], digits[k])]
           read == CHOOSE f : eq(f)
<1>1. n \in Nat /\ digits \in Seq(Int) /\ \A k \in 1 .. n : digits[k] \in 0 .. 10
  BY LenProperties, ElementOfSeq, SeqMonotonic, 0 .. Other \subseteq Int DEF Other
<1>2. PICK V : Adds(digits, n, V) /\ Value(digits) = V[n]
  BY <1>1, NumberAdds
<1>3. Digits(digits) = read[n]
  BY DEF Digits
<1> DEFINE exact == [k \in 0 .. n |-> IF AllDigits(digits, k) /\ V[k] <= Word
                                        THEN Accepted(V[k]) ELSE Refused]
<1> HIDE DEF n
<1>4. \A k \in 0 .. n : V[k] \in Nat
  <2> DEFINE S == {k \in Nat : k <= n => V[k] \in Nat}
  <2>1. 0 \in S
    BY <1>2 DEF Adds
  <2>2. ASSUME NEW k \in S
        PROVE  k + 1 \in S
    <3> SUFFICES ASSUME k + 1 <= n
                 PROVE  V[k + 1] \in Nat
      OBVIOUS
    <3>1. k \in Nat /\ V[k] \in Nat /\ V[k + 1] = 10 * V[k] + digits[k + 1]
          /\ digits[k + 1] \in Nat
      <4>1. k \in Nat /\ k + 1 \in 1 .. n /\ (k + 1) - 1 = k /\ V[k] \in Nat
        BY <1>1
      <4>2. digits[k + 1] \in 0 .. 10
        BY <1>1, <4>1
      <4>3. V[k + 1] = 10 * V[k] + digits[k + 1]
        BY <1>2, <4>1 DEF Adds
      <4> HIDE DEF S
      <4> QED
        BY <4>1, <4>2, <4>3
    <3> QED
      BY <3>1
  <2> HIDE DEF S
  <2>3. S = Nat
    BY <2>1, <2>2, NatInductionOnSets DEF S
  <2> QED
    BY <2>3, <1>1 DEF S
<1>5. exact[0] = Accepted(0)
  BY <1>1, <1>2, Width DEF Adds, AllDigits
<1>6. ASSUME NEW k \in 1 .. n
      PROVE  exact[k] = next(exact[k - 1], digits[k])
  <2> DEFINE v == V[k - 1]
             d == digits[k]
  <2>1. k - 1 \in 0 .. n /\ k \in 0 .. n /\ k \in Nat
    BY <1>1
  <2>2. v \in Nat /\ d \in 0 .. 10 /\ V[k] = 10 * v + d
    BY <1>1, <1>2, <1>4, <2>1 DEF Adds
  <2>3. exact[k - 1] = IF AllDigits(digits, k - 1) /\ v <= Word THEN Accepted(v) ELSE Refused
    BY <2>1
  <2>4. exact[k] = IF AllDigits(digits, k) /\ 10 * v + d <= Word THEN Accepted(10 * v + d)
                   ELSE Refused
    BY <2>1, <2>2
  <2>5. AllDigits(digits, k) <=> AllDigits(digits, k - 1) /\ d # Other
    BY <2>1 DEF AllDigits
  <2> HIDE DEF exact, v, d
  <2>6. CASE ~ (AllDigits(digits, k - 1) /\ v <= Word)
    <3>1. ~ (AllDigits(digits, k) /\ 10 * v + d <= Word)
      BY <2>2, <2>5, <2>6, Width
    <3>2. exact[k - 1] = Refused /\ exact[k] = Refused
      BY <2>3, <2>4, <2>6, <3>1
    <3>3. exact[k - 1].ok = FALSE
      BY <3>2 DEF Refused
    <3>4. next(exact[k - 1], digits[k]) = Refused
      BY <3>3
    <3> QED
      BY <3>2, <3>4
  <2>7. CASE AllDigits(digits, k - 1) /\ v <= Word /\ d = Other
    <3>1. exact[k] = Refused
      BY <2>4, <2>5, <2>7
    <3>2. next(exact[k - 1], digits[k]) = Refused
      BY <2>7 DEF d
    <3> QED
      BY <3>1, <3>2
  <2>8. CASE AllDigits(digits, k - 1) /\ v <= Word /\ d # Other
    <3>1. d \in 0 .. 9
      BY <2>2, <2>8 DEF Other
    <3>2. Fits(v, d) <=> 10 * v + d <= Word
      BY <2>2, <3>1, DigitIsExact
    <3>3. Fits(v, d) => Wrap(10 * v + d) = 10 * v + d
      BY <2>2, <3>1, DigitIsExact
    <3>4. exact[k - 1] = Accepted(v) /\ Accepted(v).ok /\ Accepted(v).size = v
      BY <2>3, <2>8 DEF Accepted
    <3>5. next(exact[k - 1], d) = IF Fits(v, d) THEN Accepted(Wrap(10 * v + d)) ELSE Refused
      BY <3>4, <2>8
    <3>6. exact[k] = IF Fits(v, d) THEN Accepted(10 * v + d) ELSE Refused
      BY <2>4, <2>5, <2>8, <3>2
    <3> QED
      BY <3>3, <3>5, <3>6 DEF d
  <2> QED
    BY <2>6, <2>7, <2>8 DEF d
<1>7. eq(exact)
  <2>1. exact = [k \in 0 .. n |-> exact[k]]
    OBVIOUS
  <2> HIDE DEF exact, next
  <2>2. ASSUME NEW k \in 0 .. n
        PROVE  exact[k] = IF k = 0 THEN Accepted(0) ELSE next(exact[k - 1], digits[k])
    <3>1. k = 0 \/ k \in 1 .. n
      BY <1>1
    <3> QED
      BY <1>5, <1>6, <3>1
  <2> QED
    BY <2>1, <2>2
<1>8. eq(read)
  BY <1>7
<1> HIDE DEF read, exact, next
<1>9. \A k \in 0 .. n : read[k] = exact[k]
  <2> DEFINE S == {k \in Nat : k <= n => read[k] = exact[k]}
  <2>1. 0 \in S
    BY <1>1, <1>5, <1>8
  <2>2. ASSUME NEW k \in S
        PROVE  k + 1 \in S
    <3> SUFFICES ASSUME k + 1 <= n
                 PROVE  read[k + 1] = exact[k + 1]
      OBVIOUS
    <3>1. k + 1 \in 1 .. n /\ (k + 1) - 1 = k /\ read[k] = exact[k] /\ k + 1 # 0
          /\ k + 1 \in 0 .. n
      BY <1>1
    <3>2. read[k + 1] = next(read[k], digits[k + 1])
      BY <1>8, <3>1
    <3>3. exact[k + 1] = next(exact[k], digits[k + 1])
      BY <1>6, <3>1
    <3> QED
      BY <3>1, <3>2, <3>3
  <2> HIDE DEF S
  <2>3. S = Nat
    BY <2>1, <2>2, NatInductionOnSets DEF S
  <2> QED
    BY <2>3, <1>1 DEF S
<1>10. Digits(digits) = exact[n] /\ n \in 0 .. n
  BY <1>1, <1>3, <1>9
<1> QED
  BY <1>2, <1>4, <1>10 DEF exact, n

(* parseSize of any text: the size that was written, or a refusal.         *)
LEMMA ParseIsExact ==
    ASSUME NEW digits \in Seq(0 .. Other), NEW unit \in Units
    PROVE  LET size == Value(digits) * Multiplier(unit)
               wellFormed == /\ digits # <<>> /\ unit # "unknown"
                             /\ \A k \in DOMAIN digits : digits[k] # Other
           IN  ParseSize(digits, unit) =
                 IF digits = <<>> /\ unit = "none" THEN Accepted(0)
                 ELSE IF wellFormed /\ 0 < size /\ size <= Word THEN Accepted(size)
                 ELSE Refused
<1> DEFINE v == Value(digits)
           m == Multiplier(unit)
           size == v * m
           plain == AllDigits(digits, Len(digits))
           n == Digits(digits)
<1>1. /\ v \in Nat
      /\ n = IF plain /\ v <= Word THEN Accepted(v) ELSE Refused
  BY DigitsAreExact
<1>2. plain <=> \A k \in DOMAIN digits : digits[k] # Other
  BY LenProperties DEF AllDigits
<1>3. m \in Nat \ {0}
  BY MultiplierIsPositive
<1>4. ParseSize(digits, unit) =
        IF digits = <<>> /\ unit = "none" THEN Accepted(0)
        ELSE IF \/ unit = "unknown" \/ digits = <<>> \/ ~n.ok
                \/ n.size <= 0 \/ n.size > Word \div m
          THEN Refused
          ELSE Accepted(Wrap(n.size * m))
  BY DEF ParseSize
<1> HIDE DEF v, m, plain, n
<1>5. v <= Word \div m <=> size <= Word
  BY <1>1, <1>3, QuotientIsExact
<1>6. size \in Nat /\ (size > 0 <=> v > 0) /\ v <= size
  BY <1>1, <1>3
<1>7. size <= Word => Wrap(size) = size
  BY <1>6, WrapIsIdentity
<1>8. Word \div m \in Int /\ Word \in Nat
  BY <1>3, Width
<1>9. CASE plain /\ v <= Word
  <2>1. n.ok /\ n.size = v
    BY <1>1, <1>9 DEF Accepted
  <2>2. n.size <= 0 <=> ~ (size > 0)
    BY <1>1, <1>6, <2>1
  <2>3. n.size > Word \div m <=> ~ (size <= Word)
    BY <1>1, <1>5, <1>6, <1>8, <2>1
  <2>4. ParseSize(digits, unit) =
          IF digits = <<>> /\ unit = "none" THEN Accepted(0)
          ELSE IF unit = "unknown" \/ digits = <<>> \/ ~ (size > 0) \/ ~ (size <= Word)
            THEN Refused
            ELSE Accepted(Wrap(size))
    BY <1>4, <2>1, <2>2, <2>3
  <2> QED
    BY <1>2, <1>7, <1>9, <2>4 DEF v, m
<1>10. CASE ~ (plain /\ v <= Word)
  <2>1. ~ n.ok
    BY <1>1, <1>10 DEF Refused
  <2>2. ParseSize(digits, unit) =
          IF digits = <<>> /\ unit = "none" THEN Accepted(0) ELSE Refused
    BY <1>4, <2>1
  <2>3. ~ plain \/ ~ (size <= Word)
    BY <1>1, <1>6, <1>8, <1>10
  <2> QED
    BY <1>2, <2>2, <2>3 DEF v, m
<1> QED
  BY <1>9, <1>10

(* parseSize means what was written, for texts of every length and a word  *)
(* of any width: each is that many bytes or is refused, none wraps into    *)
(* another size, none that fits is refused, and only no text is no cap.    *)
THEOREM SizesParse == ExactSizes
<1>1. ASSUME NEW digits \in Numerals
      PROVE  digits \in Seq(0 .. Other)
  <2>1. PICK n \in 0 .. MaxDigits : digits \in [1 .. n -> 0 .. Other]
    BY DEF Numerals
  <2>2. n \in Nat
    BY <2>1, ArgumentsAssumption
  <2> QED
    BY <2>1, <2>2, SeqDef
<1> QED
  BY <1>1, ParseIsExact DEF ExactSizes

(* NormalizeChat takes every link Telegram makes for the chat it is a link *)
(* to, and none that names a message for the chat the message is in.       *)
THEOREM ChatsParse == MeantChats
<1>1. ASSUME NEW link \in ChatLinks
      PROVE  NormalizeLink(link.path) = link.chat
  <2>1. NormalizeLink(<<"c", "id">>) = "id"
    BY DEF NormalizeLink, LinkChat, IsMessageLink, Resolved, Part, Markers, Numbers
  <2>2. NormalizeLink(<<"s", "name">>) = "name"
    BY DEF NormalizeLink, LinkChat, IsMessageLink, Resolved, Part, Markers, Numbers
  <2>3. NormalizeLink(<<"joinchat", "hash">>) = "hash"
    BY DEF NormalizeLink, LinkChat, IsMessageLink, Resolved, Part, Markers, Numbers
  <2>4. NormalizeLink(<<"name">>) = "name"
    BY DEF NormalizeLink, LinkChat, IsMessageLink, Resolved, Part, Markers, Numbers
  <2> QED
    BY <2>1, <2>2, <2>3, <2>4 DEF ChatLinks
<1>2. ASSUME NEW link \in ChatLinks, link.chat # "hash", NEW topic \in {<<>>, <<"id">>}
      PROVE  NormalizeLink(link.path \o topic \o <<"message">>) = "refused"
  <2>1. \A path : IsMessageLink(path) => NormalizeLink(path) = "refused"
    BY DEF NormalizeLink
  <2>2. IsMessageLink(<<"c", "id">> \o topic \o <<"message">>)
    BY DEF IsMessageLink, Part, Markers, Numbers
  <2>3. IsMessageLink(<<"s", "name">> \o topic \o <<"message">>)
    BY DEF IsMessageLink, Part, Markers, Numbers
  <2>4. IsMessageLink(<<"name">> \o topic \o <<"message">>)
    BY DEF IsMessageLink, Part, Markers, Numbers
  <2>5. link.path \in {<<"c", "id">>, <<"s", "name">>, <<"name">>}
    BY <1>2 DEF ChatLinks
  <2> QED
    BY <2>1, <2>2, <2>3, <2>4, <2>5
<1>3. /\ NormalizeDeepLink({"domain"}, "name") = "name"
      /\ \A key \in {"post", "message_id"} :
           NormalizeDeepLink({"domain", key}, "name") = "refused"
  BY DEF NormalizeDeepLink
<1>4. /\ NormalizeWord("-100id") = NormalizeLink(<<"c", "id">>)
      /\ NormalizeWord("@name") = NormalizeLink(<<"s", "name">>)
  BY DEF NormalizeWord, NormalizeLink, LinkChat, IsMessageLink, Resolved, Part, Markers, Numbers
<1> QED
  BY <1>1, <1>2, <1>3, <1>4 DEF MeantChats

-----------------------------------------------------------------------------
(***************************************************************************)
(* Names: the text of a number, and how much of a name it is.              *)
(***************************************************************************)
\* the texts Itoa builds on
Longer(f, k) == IF k < 10 THEN <<k>> ELSE Append(f[k \div 10], k % 10)
Texts(n, f) == f = [k \in 0 .. n |-> Longer(f, k)]

LEMMA TextsExist ==
    ASSUME NEW n \in Nat
    PROVE  \E f : Texts(n, f)
<1> DEFINE S == {m \in Nat : \E f : Texts(m, f)}
<1>1. 0 \in S
  <2> DEFINE g == [k \in 0 .. 0 |-> <<k>>]
  <2>1. \A k \in 0 .. 0 : <<k>> = Longer(g, k)
    BY DEF Longer
  <2>2. Texts(0, g)
    BY <2>1 DEF Texts
  <2> QED
    BY <2>2
<1>2. ASSUME NEW m \in S
      PROVE  m + 1 \in S
  <2>1. PICK f : Texts(m, f)
    OBVIOUS
  <2> DEFINE g == [k \in 0 .. m + 1 |-> Longer(f, k)]
  <2>2. m \in Nat /\ \A k \in 0 .. m : f[k] = Longer(f, k)
    BY <2>1 DEF Texts
  <2>3. \A k \in 0 .. m : g[k] = f[k]
    <3>1. \A k \in 0 .. m : k \in 0 .. m + 1
      BY <2>2
    <3> QED
      BY <2>2, <3>1
  <2>4. ASSUME NEW k \in 0 .. m + 1
        PROVE  Longer(f, k) = Longer(g, k)
    <3>1. CASE k < 10
      BY <3>1 DEF Longer
    <3>2. CASE k >= 10
      <4>1. k \div 10 \in 0 .. m
        BY <2>2, <3>2
      <4>2. g[k \div 10] = f[k \div 10]
        BY <2>3, <4>1
      <4> HIDE DEF g
      <4> QED
        BY <4>2 DEF Longer
    <3> QED
      BY <2>2, <3>1, <3>2
  <2>5. g = [k \in 0 .. m + 1 |-> Longer(g, k)]
    BY <2>4
  <2>6. Texts(m + 1, g)
    BY <2>5 DEF Texts
  <2> QED
    BY <2>2, <2>6
<1> HIDE DEF S
<1>3. S = Nat
  BY <1>1, <1>2, NatInductionOnSets DEF S
<1> QED
  BY <1>3 DEF S

\* t is the text of k
IsTextOf(t, k) ==
    /\ t \in Seq(0 .. 9) /\ t # <<>>
    /\ k # 0 => t[1] # 0
    /\ Number(t) = k

LEMMA OneDigit ==
    ASSUME NEW d \in 0 .. 9
    PROVE  IsTextOf(<<d>>, d)
<1> DEFINE none == <<>>
<1>1. Append(none, d) = <<d>> /\ none \in Seq(Int) /\ Number(none) = 0 /\ d \in Int
  BY NumberOfNothing
<1> HIDE DEF none
<1>2. Number(Append(none, d)) = 10 * Number(none) + d
  BY <1>1, NumberOfAppend
<1>3. Number(<<d>>) = d
  <2>1. 10 * Number(none) + d = d
    BY <1>1
  <2> QED
    BY <1>1, <1>2, <2>1
<1>4. <<d>> \in Seq(0 .. 9) /\ <<d>> # <<>> /\ <<d>>[1] = d
  OBVIOUS
<1> QED
  BY <1>3, <1>4 DEF IsTextOf

LEMMA OneMoreDigit ==
    ASSUME NEW t, NEW k \in Nat \ {0}, IsTextOf(t, k), NEW d \in 0 .. 9
    PROVE  IsTextOf(Append(t, d), 10 * k + d)
<1>1. t \in Seq(0 .. 9) /\ t # <<>> /\ t[1] # 0 /\ Number(t) = k
  BY DEF IsTextOf
<1>2. t \in Seq(Int)
  BY <1>1, SeqMonotonic, 0 .. 9 \subseteq Int
<1>3. Number(Append(t, d)) = 10 * k + d
  BY <1>1, <1>2, NumberOfAppend
<1>4. Append(t, d) \in Seq(0 .. 9) /\ Append(t, d) # <<>> /\ Append(t, d)[1] # 0
  BY <1>1
<1> QED
  BY <1>3, <1>4 DEF IsTextOf

LEMMA ItoaIsText ==
    ASSUME NEW n \in Nat
    PROVE  IsTextOf(Itoa(n), n)
<1> DEFINE text == CHOOSE f : Texts(n, f)
<1>1. Itoa(n) = text[n]
  BY DEF Itoa, Texts, Longer
<1>2. Texts(n, text)
  BY TextsExist
<1> HIDE DEF text
<1>3. \A k \in 0 .. n : text[k] = Longer(text, k)
  BY <1>2 DEF Texts
<1> DEFINE S == {m \in Nat : \A k \in 0 .. m : k <= n => IsTextOf(text[k], k)}
<1>4. 0 \in S
  <2>1. 0 \in 0 .. n /\ Longer(text, 0) = <<0>>
    BY DEF Longer
  <2> QED
    BY <1>3, <2>1, OneDigit
<1>5. ASSUME NEW m \in S
      PROVE  m + 1 \in S
  <2> SUFFICES ASSUME m + 1 <= n
               PROVE  IsTextOf(text[m + 1], m + 1)
    OBVIOUS
  <2> DEFINE k == m + 1
             q == k \div 10
             d == k % 10
  <2>1. k \in 0 .. n /\ k \in Nat /\ m \in Nat
    OBVIOUS
  <2>2. CASE k < 10
    <3>1. Longer(text, k) = <<k>> /\ k \in 0 .. 9
      BY <2>1, <2>2 DEF Longer
    <3> HIDE DEF k
    <3>2. IsTextOf(text[k], k)
      BY <1>3, <2>1, <3>1, OneDigit
    <3> QED
      BY <3>2 DEF k
  <2>3. CASE k >= 10
    <3>1. q \in 0 .. m /\ q # 0 /\ d \in 0 .. 9 /\ k = 10 * q + d /\ q <= n
      BY <2>1, <2>3
    <3>2. IsTextOf(text[q], q)
      BY <3>1
    <3>3. Longer(text, k) = Append(text[q], d)
      BY <2>1, <2>3 DEF Longer
    <3>4. q \in Nat \ {0}
      BY <3>1
    <3> HIDE DEF q, d, k, S
    <3>5. IsTextOf(Append(text[q], d), 10 * q + d)
      BY <3>1, <3>2, <3>4, OneMoreDigit
    <3>6. IsTextOf(text[k], k)
      BY <1>3, <2>1, <3>1, <3>3, <3>5
    <3> QED
      BY <3>6 DEF k
  <2> QED
    BY <2>1, <2>2, <2>3
<1> HIDE DEF S
<1>6. S = Nat
  BY <1>4, <1>5, NatInductionOnSets DEF S
<1>7. IsTextOf(text[n], n)
  BY <1>6 DEF S
<1> QED
  BY <1>1, <1>7

LEMMA DecimalIsText ==
    ASSUME NEW n \in Int
    PROVE  /\ Decimal(n) \in Seq(Nat)
           /\ n > 0 => Decimal(n) = Itoa(n)
<1>1. CASE n < 0
  <2>1. Itoa(-n) \in Seq(0 .. 9)
    BY <1>1, ItoaIsText DEF IsTextOf
  <2>2. Itoa(-n) \in Seq(Nat)
    BY <2>1, SeqMonotonic, 0 .. 9 \subseteq Nat
  <2>3. <<Minus>> \in Seq(Nat)
    BY DEF Minus
  <2> QED
    BY <1>1, <2>2, <2>3, ConcatProperties DEF Decimal
<1>2. CASE n >= 0
  <2>1. Itoa(n) \in Seq(0 .. 9)
    BY <1>2, ItoaIsText DEF IsTextOf
  <2>2. Itoa(n) \in Seq(Nat)
    BY <2>1, SeqMonotonic, 0 .. 9 \subseteq Nat
  <2> QED
    BY <1>2, <2>2 DEF Decimal
<1> QED
  BY <1>1, <1>2

LEMMA PrefixByCharacter ==
    ASSUME NEW s \in Seq(Nat), NEW t \in Seq(Nat)
    PROVE  IsPrefix(s, t) <=> Len(s) <= Len(t) /\ \A k \in 1 .. Len(s) : t[k] = s[k]
<1>1. Len(s) \in Nat /\ Len(t) \in Nat
  BY LenProperties
<1>2. SubSeq(s, 1, Len(s)) = s
  BY <1>1
<1>3. ASSUME Len(s) <= Len(t)
      PROVE  /\ SubSeq(t, 1, Len(s)) \in Seq(Nat) /\ Len(SubSeq(t, 1, Len(s))) = Len(s)
             /\ \A k \in 1 .. Len(s) : SubSeq(t, 1, Len(s))[k] = t[k]
  BY <1>1, <1>3
<1> DEFINE u == SubSeq(t, 1, Len(s))
<1>4. IsPrefix(s, t) <=> Len(s) <= Len(t) /\ s = u
  BY <1>2 DEF IsPrefix
<1> HIDE DEF u
<1>5. ASSUME Len(s) <= Len(t)
      PROVE  s = u <=> \A k \in 1 .. Len(s) : t[k] = s[k]
  <2>1. u \in Seq(Nat) /\ Len(u) = Len(s) /\ \A k \in 1 .. Len(s) : u[k] = t[k]
    BY <1>3, <1>5 DEF u
  <2>2. (\A k \in 1 .. Len(s) : t[k] = s[k]) => s = u
    BY <2>1, SeqEqual
  <2> QED
    BY <2>1, <2>2
<1> QED
  BY <1>4, <1>5

\* name begins with the prefix, t and a separator
Begins(prefix, t, name) ==
    LET p == Len(prefix) n == Len(t) IN
    /\ p + n + 1 <= Len(name)
    /\ \A k \in 1 .. p : name[k] = prefix[k]
    /\ \A k \in 1 .. n : name[p + k] = t[k]
    /\ name[p + n + 1] = Sep

LEMMA HeadIsPrefix ==
    ASSUME NEW prefix \in Seq(Nat), NEW t \in Seq(Nat), NEW name \in Seq(Nat)
    PROVE  IsPrefix(prefix \o t \o <<Sep>> \o <<>>, name) <=> Begins(prefix, t, name)
<1> DEFINE p == Len(prefix)
           n == Len(t)
           a == prefix \o t
           sep == <<Sep>>
           none == <<>>
           b == a \o sep
           head == b \o none
<1>1. p \in Nat /\ n \in Nat /\ Len(name) \in Nat
  BY LenProperties
<1>2. sep \in Seq(Nat) /\ Len(sep) = 1 /\ sep[1] = Sep /\ none \in Seq(Nat) /\ Len(none) = 0
  BY DEF Sep
<1> HIDE DEF sep, none
<1>3. /\ a \in Seq(Nat) /\ Len(a) = p + n
      /\ \A k \in 1 .. p + n : a[k] = IF k <= p THEN prefix[k] ELSE t[k - p]
  BY ConcatProperties
<1> HIDE DEF a, p, n
<1>4. /\ b \in Seq(Nat) /\ Len(b) = p + n + 1
      /\ \A k \in 1 .. p + n + 1 : b[k] = IF k <= p + n THEN a[k] ELSE sep[k - (p + n)]
  <2>1. /\ b \in Seq(Nat) /\ Len(b) = Len(a) + Len(sep)
        /\ \A k \in 1 .. Len(a) + Len(sep) :
             b[k] = IF k <= Len(a) THEN a[k] ELSE sep[k - Len(a)]
    BY <1>2, <1>3, ConcatProperties
  <2> HIDE DEF b
  <2> QED
    BY <1>2, <1>3, <2>1
<1> HIDE DEF b
<1>5. /\ head \in Seq(Nat) /\ Len(head) = p + n + 1
      /\ \A k \in 1 .. p + n + 1 : head[k] = b[k]
  <2>1. /\ head \in Seq(Nat) /\ Len(head) = Len(b) + Len(none)
        /\ \A k \in 1 .. Len(b) + Len(none) :
             head[k] = IF k <= Len(b) THEN b[k] ELSE none[k - Len(b)]
    BY <1>2, <1>4, ConcatProperties
  <2> QED
    BY <1>1, <1>2, <1>4, <2>1
<1> HIDE DEF head
<1>6. /\ \A k \in 1 .. p : head[k] = prefix[k]
      /\ \A k \in 1 .. n : head[p + k] = t[k]
      /\ head[p + n + 1] = Sep
  <2>1. ASSUME NEW k \in 1 .. p
        PROVE  head[k] = prefix[k]
    <3>1. k \in 1 .. p + n /\ k \in 1 .. p + n + 1 /\ k <= p
      BY <1>1
    <3> QED
      BY <1>3, <1>4, <1>5, <3>1
  <2>2. ASSUME NEW k \in 1 .. n
        PROVE  head[p + k] = t[k]
    <3>1. p + k \in 1 .. p + n /\ p + k \in 1 .. p + n + 1 /\ ~ (p + k <= p) /\ (p + k) - p = k
      BY <1>1
    <3> QED
      BY <1>3, <1>4, <1>5, <3>1
  <2>3. head[p + n + 1] = Sep
    <3>1. p + n + 1 \in 1 .. p + n + 1 /\ ~ (p + n + 1 <= p + n) /\ (p + n + 1) - (p + n) = 1
      BY <1>1
    <3> QED
      BY <1>2, <1>4, <1>5, <3>1
  <2> QED
    BY <2>1, <2>2, <2>3
<1>7. IsPrefix(head, name) <=>
        p + n + 1 <= Len(name) /\ \A k \in 1 .. p + n + 1 : name[k] = head[k]
  BY <1>5, PrefixByCharacter
<1>8. (\A k \in 1 .. p + n + 1 : name[k] = head[k]) <=>
        /\ \A k \in 1 .. p : name[k] = head[k]
        /\ \A k \in 1 .. n : name[p + k] = head[p + k]
        /\ name[p + n + 1] = head[p + n + 1]
  <2>1. ASSUME \A k \in 1 .. p + n + 1 : name[k] = head[k]
        PROVE  /\ \A k \in 1 .. p : name[k] = head[k]
               /\ \A k \in 1 .. n : name[p + k] = head[p + k]
               /\ name[p + n + 1] = head[p + n + 1]
    <3>1. /\ \A k \in 1 .. p : k \in 1 .. p + n + 1
          /\ \A k \in 1 .. n : p + k \in 1 .. p + n + 1
          /\ p + n + 1 \in 1 .. p + n + 1
      BY <1>1
    <3> QED
      BY <2>1, <3>1
  <2>2. ASSUME \A k \in 1 .. p : name[k] = head[k],
               \A k \in 1 .. n : name[p + k] = head[p + k],
               name[p + n + 1] = head[p + n + 1],
               NEW k \in 1 .. p + n + 1
        PROVE  name[k] = head[k]
    <3>1. CASE k <= p
      BY <1>1, <2>2, <3>1
    <3>2. CASE k > p /\ k <= p + n
      <4> DEFINE j == k - p
      <4>1. j \in 1 .. n /\ p + j = k
        BY <1>1, <3>2
      <4> HIDE DEF j
      <4>2. name[p + j] = head[p + j]
        BY <2>2, <4>1
      <4> QED
        BY <4>1, <4>2
    <3>3. CASE k = p + n + 1
      BY <2>2, <3>3
    <3>4. k <= p \/ (k > p /\ k <= p + n) \/ k = p + n + 1
      BY <1>1
    <3> QED
      BY <3>1, <3>2, <3>3, <3>4
  <2> QED
    BY <2>1, <2>2
<1>9. IsPrefix(head, name) <=> Begins(prefix, t, name)
  BY <1>6, <1>7, <1>8 DEF Begins, p, n
<1> QED
  BY <1>9 DEF head, b, a, sep, none

\* c ends the id a rest begins with
EndsId(rest, c) == c \in DOMAIN rest /\ rest[c] = Sep /\ \A j \in 1 .. c - 1 : rest[j] # Sep

First(seps) == CHOOSE k \in seps : \A j \in seps : k <= j

LEMMA FirstSeparator ==
    ASSUME NEW rest \in Seq(Nat),
           NEW seps, seps = {k \in DOMAIN rest : rest[k] = Sep}
    PROVE  /\ seps # {} => EndsId(rest, First(seps))
           /\ \A c : EndsId(rest, c) =>
                seps # {} /\ c = First(seps)
<1> DEFINE least(k) == k \in seps /\ \A j \in seps : k <= j
           first == First(seps)
<1>1. DOMAIN rest = 1 .. Len(rest) /\ Len(rest) \in Nat
  BY LenProperties
<1>2. seps \in SUBSET Nat
  BY <1>1
<1>3. seps # {} => least(first)
  <2>1. seps # {} => \E k \in seps : \A j \in seps : k <= j
    BY <1>2, LeastNatural
  <2> QED
    BY <2>1 DEF First
<1> HIDE DEF first
<1>4. ASSUME NEW k, least(k)
      PROVE  EndsId(rest, k)
  <2>1. k \in DOMAIN rest /\ rest[k] = Sep
    BY <1>4
  <2>2. ASSUME NEW j \in 1 .. k - 1
        PROVE  rest[j] # Sep
    <3>1. j \in DOMAIN rest /\ ~ (k <= j)
      BY <1>1, <2>1
    <3> QED
      BY <1>4, <3>1
  <2> QED
    BY <2>1, <2>2 DEF EndsId
<1>5. ASSUME NEW c, EndsId(rest, c)
      PROVE  seps # {} /\ c = first
  <2>1. c \in seps
    BY <1>5 DEF EndsId
  <2>2. least(first) /\ EndsId(rest, first)
    BY <1>3, <1>4, <2>1
  <2>3. first <= c /\ first \in Nat /\ c \in Nat /\ first >= 1
    BY <1>1, <1>2, <2>1, <2>2
  <2>4. ~ (first < c)
    <3>1. first < c => first \in 1 .. c - 1
      BY <2>3
    <3> QED
      BY <1>5, <2>2, <3>1 DEF EndsId
  <2> QED
    BY <2>1, <2>3, <2>4
<1> QED
  BY <1>3, <1>4, <1>5 DEF first

\* what is left of a name after its first p characters
LEMMA RestOfName ==
    ASSUME NEW name \in Seq(Nat), NEW p \in Nat, p <= Len(name)
    PROVE  LET rest == SubSeq(name, p + 1, Len(name))
           IN  /\ rest \in Seq(Nat) /\ Len(rest) = Len(name) - p
               /\ \A k \in 1 .. Len(rest) : rest[k] = name[p + k]
<1> DEFINE rest == SubSeq(name, p + 1, Len(name))
           n == Len(name)
<1>1. n \in Nat /\ \A k \in p + 1 .. n : name[k] \in Nat
  BY LenProperties, ElementOfSeq
<1>2. /\ SubSeq(name, p + 1, n) \in Seq(Nat)
      /\ Len(SubSeq(name, p + 1, n)) = IF p + 1 <= n THEN n - (p + 1) + 1 ELSE 0
      /\ \A k \in 1 .. n - (p + 1) + 1 : SubSeq(name, p + 1, n)[k] = name[p + 1 + k - 1]
  BY <1>1, SubSeqProperties
<1> HIDE DEF n
<1>3. rest \in Seq(Nat) /\ Len(rest) = n - p
  BY <1>1, <1>2 DEF n
<1>4. ASSUME NEW k \in 1 .. n - p
      PROVE  rest[k] = name[p + k]
  <2>1. k \in 1 .. n - (p + 1) + 1 /\ p + 1 + k - 1 = p + k
    BY <1>1
  <2> QED
    BY <1>2, <2>1 DEF n
<1> HIDE DEF rest
<1> QED
  BY <1>3, <1>4 DEF rest, n

\* the text before the separator that ends it
LEMMA IdOfRest ==
    ASSUME NEW rest \in Seq(Nat), NEW c, EndsId(rest, c)
    PROVE  LET id == SubSeq(rest, 1, c - 1)
           IN  /\ id \in Seq(Nat) /\ Len(id) = c - 1 /\ c \in 1 .. Len(rest)
               /\ \A k \in 1 .. c - 1 : id[k] = rest[k]
<1>1. c \in 1 .. Len(rest) /\ Len(rest) \in Nat
  BY LenProperties DEF EndsId
<1>2. c - 1 \in Nat /\ \A k \in 1 .. c - 1 : rest[k] \in Nat
  BY <1>1, ElementOfSeq
<1>3. /\ SubSeq(rest, 1, c - 1) \in Seq(Nat)
      /\ Len(SubSeq(rest, 1, c - 1)) = IF 1 <= c - 1 THEN c - 1 - 1 + 1 ELSE 0
      /\ \A k \in 1 .. c - 1 - 1 + 1 : SubSeq(rest, 1, c - 1)[k] = rest[1 + k - 1]
  BY <1>2, SubSeqProperties
<1> DEFINE id == SubSeq(rest, 1, c - 1)
<1> HIDE DEF id
<1>4. id \in Seq(Nat) /\ Len(id) = c - 1
  BY <1>1, <1>3 DEF id
<1>5. ASSUME NEW k \in 1 .. c - 1
      PROVE  id[k] = rest[k]
  <2>1. k \in 1 .. c - 1 - 1 + 1 /\ 1 + k - 1 = k
    BY <1>1
  <2> QED
    BY <1>3, <2>1 DEF id
<1> QED
  BY <1>1, <1>4, <1>5 DEF id

\* the head For gives a message
LEMMA HeadOfMessage ==
    ASSUME NEW dialog \in Int, NEW name \in Seq(Nat), NEW m \in Nat \ {0}
    PROVE  IsPrefix(For(dialog, m, <<>>), name)
             <=> Begins(Decimal(dialog) \o <<Sep>>, Itoa(m), name)
<1> DEFINE prefix == Decimal(dialog) \o <<Sep>>
<1>1. prefix \in Seq(Nat)
  <2>1. Decimal(dialog) \in Seq(Nat) /\ <<Sep>> \in Seq(Nat)
    BY DecimalIsText DEF Sep
  <2> QED
    BY <2>1, ConcatProperties
<1>2. Decimal(m) = Itoa(m) /\ Itoa(m) \in Seq(Nat)
  BY DecimalIsText
<1>3. For(dialog, m, <<>>) = prefix \o Itoa(m) \o <<Sep>> \o <<>>
  BY <1>2 DEF For
<1> HIDE DEF prefix
<1>4. IsPrefix(prefix \o Itoa(m) \o <<Sep>> \o <<>>, name) <=> Begins(prefix, Itoa(m), name)
  BY <1>1, <1>2, HeadIsPrefix
<1> QED
  BY <1>3, <1>4 DEF prefix

\* SplitStored, with the position that ends the id named
LEMMA SplitByPosition ==
    ASSUME NEW dialog \in Int, NEW name \in Seq(Nat)
    PROVE  LET prefix == Decimal(dialog) \o <<Sep>>
               rest == SubSeq(name, Len(prefix) + 1, Len(name))
           IN  \A m : m \in SplitStored(dialog, name) <=>
                 /\ IsPrefix(prefix, name)
                 /\ \E c : /\ EndsId(rest, c) /\ IdText(SubSeq(rest, 1, c - 1))
                           /\ m = Number(SubSeq(rest, 1, c - 1)) /\ m <= MaxId
<1> DEFINE prefix == Decimal(dialog) \o <<Sep>>
           rest == SubSeq(name, Len(prefix) + 1, Len(name))
           seps == {k \in DOMAIN rest : rest[k] = Sep}
           first == First(seps)
           id(c) == SubSeq(rest, 1, c - 1)
<1>1. prefix \in Seq(Nat)
  <2>1. Decimal(dialog) \in Seq(Nat) /\ <<Sep>> \in Seq(Nat)
    BY DecimalIsText DEF Sep
  <2> QED
    BY <2>1, ConcatProperties
<1>2. SplitStored(dialog, name) =
        IF IsPrefix(prefix, name) /\ seps # {} /\ IdText(id(first)) /\ Number(id(first)) <= MaxId
          THEN {Number(id(first))} ELSE {}
  BY DEF SplitStored, First
<1> HIDE DEF prefix
<1>3. ASSUME IsPrefix(prefix, name)
      PROVE  rest \in Seq(Nat)
  <2>1. Len(prefix) \in Nat /\ Len(prefix) <= Len(name)
    BY <1>1, <1>3, PrefixByCharacter, LenProperties
  <2> QED
    BY <2>1, RestOfName
<1> HIDE DEF rest
<1>4. ASSUME IsPrefix(prefix, name)
      PROVE  /\ seps # {} => EndsId(rest, first)
             /\ \A c : EndsId(rest, c) => seps # {} /\ c = first
  <2>1. rest \in Seq(Nat)
    BY <1>3, <1>4
  <2>2. seps = {k \in DOMAIN rest : rest[k] = Sep}
    OBVIOUS
  <2> HIDE DEF seps
  <2> QED
    BY <2>1, <2>2, FirstSeparator
<1> HIDE DEF first, seps
<1>5. ASSUME NEW m
      PROVE  m \in SplitStored(dialog, name) <=>
               /\ IsPrefix(prefix, name)
               /\ \E c : EndsId(rest, c) /\ IdText(id(c)) /\ m = Number(id(c)) /\ m <= MaxId
  <2>1. m \in SplitStored(dialog, name) <=>
          /\ IsPrefix(prefix, name) /\ seps # {} /\ IdText(id(first))
          /\ Number(id(first)) <= MaxId /\ m = Number(id(first))
    BY <1>2
  <2>2. ASSUME m \in SplitStored(dialog, name)
        PROVE  /\ IsPrefix(prefix, name)
               /\ \E c : EndsId(rest, c) /\ IdText(id(c)) /\ m = Number(id(c)) /\ m <= MaxId
    <3>1. /\ IsPrefix(prefix, name) /\ EndsId(rest, first) /\ IdText(id(first))
          /\ m = Number(id(first)) /\ m <= MaxId
      BY <1>4, <2>1, <2>2
    <3> HIDE DEF id
    <3> QED
      BY <3>1
  <2>3. ASSUME IsPrefix(prefix, name),
               \E c : EndsId(rest, c) /\ IdText(id(c)) /\ m = Number(id(c)) /\ m <= MaxId
        PROVE  m \in SplitStored(dialog, name)
    <3>1. PICK c : EndsId(rest, c) /\ IdText(id(c)) /\ m = Number(id(c)) /\ m <= MaxId
      BY <2>3
    <3>2. seps # {} /\ c = first
      BY <1>4, <2>3, <3>1
    <3> HIDE DEF id
    <3> QED
      BY <2>1, <2>3, <3>1, <3>2
  <2> QED
    BY <2>2, <2>3
<1> QED
  BY <1>5 DEF rest, prefix

(* A stored name is read back as the one message it can have been written  *)
(* for, or as none (naming/safe.go, For and SplitStored), for any dialog   *)
(* of either sign, any id up to the largest Atoi takes, and any name.      *)
LEMMA NameIsReadBack ==
    ASSUME NEW dialog \in Int, NEW name \in Seq(Nat), NEW m
    PROVE  m \in SplitStored(dialog, name) <=>
             m \in 1 .. MaxId /\ IsPrefix(For(dialog, m, <<>>), name)
<1> DEFINE prefix == Decimal(dialog) \o <<Sep>>
           p == Len(prefix)
           rest == SubSeq(name, p + 1, Len(name))
           id(c) == SubSeq(rest, 1, c - 1)
           splits(c) == EndsId(rest, c) /\ IdText(id(c)) /\ m = Number(id(c)) /\ m <= MaxId
<1>1. prefix \in Seq(Nat) /\ p \in Nat
  <2>1. Decimal(dialog) \in Seq(Nat) /\ <<Sep>> \in Seq(Nat)
    BY DecimalIsText DEF Sep
  <2> QED
    BY <2>1, ConcatProperties, LenProperties
<1>2. m \in SplitStored(dialog, name) <=> IsPrefix(prefix, name) /\ \E c : splits(c)
  BY SplitByPosition
<1>3. ASSUME m \in Nat \ {0}
      PROVE  IsPrefix(For(dialog, m, <<>>), name) <=> Begins(prefix, Itoa(m), name)
  BY <1>3, HeadOfMessage
<1> HIDE DEF prefix
<1>4. IsPrefix(prefix, name) <=> p <= Len(name) /\ \A k \in 1 .. p : name[k] = prefix[k]
  BY <1>1, PrefixByCharacter
<1> HIDE DEF p
<1>5. ASSUME p <= Len(name)
      PROVE  /\ rest \in Seq(Nat) /\ Len(rest) = Len(name) - p
             /\ \A k \in 1 .. Len(rest) : rest[k] = name[p + k]
  BY <1>1, <1>5, RestOfName
<1> HIDE DEF rest
<1>6. ASSUME IsPrefix(prefix, name), NEW c, splits(c)
      PROVE  m \in 1 .. MaxId /\ IsPrefix(For(dialog, m, <<>>), name)
  <2>1. /\ rest \in Seq(Nat) /\ Len(rest) = Len(name) - p /\ p <= Len(name)
        /\ \A k \in 1 .. Len(rest) : rest[k] = name[p + k]
    BY <1>4, <1>5, <1>6
  <2>2. /\ id(c) \in Seq(Nat) /\ Len(id(c)) = c - 1 /\ c \in 1 .. Len(rest)
        /\ \A k \in 1 .. c - 1 : id(c)[k] = rest[k]
    BY <1>6, <2>1, IdOfRest
  <2> DEFINE t == id(c)
  <2>3. IdText(t) /\ m = Number(t) /\ m <= MaxId /\ EndsId(rest, c)
    BY <1>6
  <2> HIDE DEF id, splits, t
  <2>4. t \in Seq(0 .. 9) /\ t # <<>> /\ t[1] # 0
    <3> DEFINE n == Len(t)
    <3>1. n \in Nat /\ t \in [1 .. n -> Nat] /\ DOMAIN t = 1 .. n
      BY <2>2, LenProperties DEF t
    <3> HIDE DEF n
    <3>2. t \in [1 .. n -> 0 .. 9]
      BY <2>3, <3>1 DEF IdText
    <3>3. t \in Seq(0 .. 9)
      BY <3>1, <3>2, SeqDef
    <3> QED
      BY <2>3, <3>3 DEF IdText
  <2>5. m \in Nat \ {0} /\ MaxId \in Nat
    BY <2>3, <2>4, NumberIsNatural, NamingAssumption
  <2>6. Itoa(m) = t
    <3>1. /\ Itoa(m) \in Seq(0 .. 9) /\ Itoa(m) # <<>> /\ Itoa(m)[1] # 0
          /\ Number(Itoa(m)) = m
      BY <2>5, ItoaIsText DEF IsTextOf
    <3> QED
      BY <2>3, <2>4, <3>1, NumberIsInjective
  <2>7. /\ t \in Seq(Nat) /\ Len(t) = c - 1 /\ c \in Nat
        /\ \A k \in 1 .. c - 1 : t[k] = rest[k]
    BY <2>1, <2>2, LenProperties DEF t
  <2>8. Begins(prefix, t, name)
    <3>1. p + Len(t) + 1 <= Len(name) /\ p + Len(t) + 1 = p + c /\ Len(name) \in Nat
      BY <1>1, <2>1, <2>2, <2>7, LenProperties
    <3>2. \A k \in 1 .. Len(t) : name[p + k] = t[k]
      <4> SUFFICES ASSUME NEW k \in 1 .. Len(t)
                   PROVE  name[p + k] = t[k]
        OBVIOUS
      <4>1. k \in 1 .. c - 1 /\ k \in 1 .. Len(rest)
        BY <1>1, <2>1, <2>2, <2>7, <3>1
      <4> QED
        BY <2>1, <2>7, <4>1
    <3>3. name[p + Len(t) + 1] = Sep
      BY <2>1, <2>2, <2>3, <3>1 DEF EndsId
    <3> QED
      BY <1>4, <1>6, <3>1, <3>2, <3>3 DEF Begins, p
  <2>9. IsPrefix(For(dialog, m, <<>>), name)
    BY <1>3, <2>5, <2>6, <2>8
  <2> QED
    BY <2>3, <2>5, <2>9
<1>7. ASSUME m \in 1 .. MaxId, IsPrefix(For(dialog, m, <<>>), name)
      PROVE  IsPrefix(prefix, name) /\ \E c : splits(c)
  <2> DEFINE t == Itoa(m)
             n == Len(t)
             c == n + 1
  <2>1. m \in Nat \ {0} /\ m <= MaxId
    BY <1>7, NamingAssumption
  <2>2. t \in Seq(0 .. 9) /\ t # <<>> /\ t[1] # 0 /\ Number(t) = m
    BY <2>1, ItoaIsText DEF IsTextOf
  <2>3. n \in Nat /\ DOMAIN t = 1 .. n /\ t \in Seq(Nat) /\ \A k \in 1 .. n : t[k] \in 0 .. 9
    BY <2>2, LenProperties, ElementOfSeq, SeqMonotonic, 0 .. 9 \subseteq Nat
  <2>4. Begins(prefix, t, name)
    BY <1>3, <1>7, <2>1
  <2> HIDE DEF t
  <2>5. /\ p + n + 1 <= Len(name) /\ Len(name) \in Nat
        /\ \A k \in 1 .. p : name[k] = prefix[k]
        /\ \A k \in 1 .. n : name[p + k] = t[k]
        /\ name[p + n + 1] = Sep
    BY <2>4, LenProperties DEF Begins, p
  <2> HIDE DEF n
  <2>6. IsPrefix(prefix, name) /\ p <= Len(name)
    BY <1>1, <1>4, <2>3, <2>5
  <2>7. /\ rest \in Seq(Nat) /\ Len(rest) = Len(name) - p /\ DOMAIN rest = 1 .. Len(rest)
        /\ \A k \in 1 .. Len(rest) : rest[k] = name[p + k]
    BY <1>5, <2>6, LenProperties
  <2>8. \A k \in 1 .. n : rest[k] = t[k]
    <3> SUFFICES ASSUME NEW k \in 1 .. n
                 PROVE  rest[k] = t[k]
      OBVIOUS
    <3>1. k \in 1 .. Len(rest)
      BY <1>1, <2>3, <2>5, <2>7
    <3> QED
      BY <2>5, <2>7, <3>1
  <2>9. EndsId(rest, c)
    <3>1. c \in 1 .. Len(rest) /\ p + c = p + n + 1 /\ c - 1 = n
      BY <1>1, <2>3, <2>5, <2>7
    <3>2. rest[c] = Sep
      BY <2>5, <2>7, <3>1
    <3>3. \A k \in 1 .. n : rest[k] # Sep
      <4>1. \A d \in 0 .. 9 : d # Sep
        BY DEF Sep
      <4> QED
        BY <2>3, <2>8, <4>1
    <3> HIDE DEF c
    <3> QED
      BY <2>7, <3>1, <3>2, <3>3 DEF EndsId
  <2>10. id(c) = t
    <3>1. c - 1 = n
      BY <2>3
    <3>2. /\ id(c) \in Seq(Nat) /\ Len(id(c)) = n /\ \A k \in 1 .. n : id(c)[k] = rest[k]
      BY <2>7, <2>9, <3>1, IdOfRest
    <3> HIDE DEF id, c
    <3>3. Len(t) = n
      BY DEF n
    <3>4. \A k \in 1 .. Len(id(c)) : id(c)[k] = t[k]
      BY <2>8, <3>2
    <3> QED
      BY <2>3, <3>2, <3>3, <3>4, SeqEqual
  <2>11. IdText(t)
    BY <2>2, <2>3 DEF IdText
  <2> HIDE DEF id, c
  <2>12. splits(c)
    BY <2>1, <2>2, <2>9, <2>10, <2>11
  <2> HIDE DEF splits
  <2> QED
    BY <2>6, <2>12
<1> HIDE DEF splits
<1> QED
  BY <1>2, <1>6, <1>7

(* The same, for the names and the dialogs of an instance.                 *)
THEOREM NamesParse == ReadBack
<1>1. ASSUME NEW name \in Names
      PROVE  name \in Seq(Nat)
  <2>1. PICK n \in 0 .. MaxName : name \in [1 .. n -> NameChars]
    BY DEF Names
  <2>2. n \in Nat /\ NameChars \subseteq Nat
    BY <2>1, NamingAssumption
  <2>3. name \in Seq(NameChars)
    BY <2>1, <2>2, SeqDef
  <2> QED
    BY <2>2, <2>3, SeqMonotonic
<1>2. ASSUME NEW dialog \in Dialogs, NEW name \in Names
      PROVE  SplitStored(dialog, name) =
               {m \in 1 .. MaxId : LET head == For(dialog, m, <<>>) IN IsPrefix(head, name)}
  <2>1. dialog \in Int /\ name \in Seq(Nat)
    BY <1>1, NamingAssumption
  <2>2. \A m : m \in SplitStored(dialog, name) <=>
                 m \in 1 .. MaxId /\ IsPrefix(For(dialog, m, <<>>), name)
    BY <2>1, NameIsReadBack
  <2> QED
    BY <2>2
<1> QED
  BY <1>2 DEF ReadBack

=============================================================================
