------------------------------ MODULE WordProofs ------------------------------
(***************************************************************************)
(* What the functions on limbs compute, for every size of limb, and how a  *)
(* number is put together from its limbs.                                  *)
(***************************************************************************)
EXTENDS Words, TLAPS

------------------------------------------------------------------------------
(* Quotients and remainders *)

\* The equation of a quotient and its remainder.
LEMMA QuotientAndRemainder ==
  \A x \in Int, n \in Nat \ {0} :
    x \div n \in Int /\ x % n \in 0..n-1 /\ x = n * (x \div n) + (x % n)
OBVIOUS

\* A quotient and a remainder are determined by their equation; reading and
\* writing limbs rests on it.
LEMMA QuotientUnique ==
  ASSUME NEW x \in Int, NEW n \in Nat \ {0}, NEW q \in Int, NEW s \in 0..n-1,
         x = n * q + s
  PROVE  x \div n = q /\ x % n = s
<1> DEFINE d == x \div n
           m == x % n
<1>1. x = n * d + m /\ m \in 0..n-1 /\ d \in Int
  OBVIOUS
<1> HIDE DEF d, m
<1>2. ~(d > q)
  <2> SUFFICES ASSUME d >= q + 1 PROVE FALSE
    BY <1>1
  <2>1. n * d >= n * (q+1)
    BY <1>1
  <2>2. n * (q+1) = n * q + n
    OBVIOUS
  <2> QED BY <1>1, <2>1, <2>2
<1>3. ~(d < q)
  <2> SUFFICES ASSUME q >= d + 1 PROVE FALSE
    BY <1>1
  <2>1. n * q >= n * (d+1)
    BY <1>1
  <2>2. n * (d+1) = n * d + n
    BY <1>1
  <2> QED BY <1>1, <2>1, <2>2
<1> QED BY <1>1, <1>2, <1>3 DEF d, m

\* Dividing by w and then by n is dividing by their product: limbs can be read
\* one after the other.
LEMMA QuotientOfQuotient ==
  ASSUME NEW x \in Int, NEW w \in Nat \ {0}, NEW n \in Nat \ {0}
  PROVE  /\ x \div (w * n) = (x \div w) \div n
         /\ x % (w * n) = (x % w) + ((x \div w) % n) * w
<1> DEFINE q == x \div w
           s == x % w
           d == q % n
           e == q \div n
<1>1. x = w * q + s /\ s \in 0..w-1 /\ q \in Int
  OBVIOUS
<1>2. q = n * e + d /\ d \in 0..n-1 /\ e \in Int
  BY <1>1
<1> HIDE DEF q, s, d, e
<1>3. w * q = (w * n) * e + w * d
  BY <1>1, <1>2
<1>4. x = (w * n) * e + (d * w + s)
  BY <1>1, <1>2, <1>3
<1>5. d * w <= (n-1) * w
  BY <1>2
<1>6. d * w + s \in 0 .. (w * n) - 1
  BY <1>1, <1>2, <1>5
<1>7. w * n \in Nat \ {0}
  OBVIOUS
<1>8. x \div (w * n) = e /\ x % (w * n) = d * w + s
  BY <1>4, <1>6, <1>7, <1>2, QuotientUnique
<1> QED BY <1>8, <1>1, <1>2 DEF q, s, d, e

------------------------------------------------------------------------------
(* Limbs *)

\* A number less than B away from a multiple of B.
LEMMA RemainderOK ==
  ASSUME NEW x \in Int, NEW q \in Int, x - B * q \in Word
  PROVE  x % B = x - B * q
<1> DEFINE s == x - B * q
<1>1. x = B * q + s /\ s \in 0..B-1 /\ B \in Nat \ {0}
  BY WordAssumption DEF Word
<1> HIDE DEF s
<1>2. x % B = s
  BY <1>1, QuotientUnique
<1> QED BY <1>2 DEF s

\* Addition wraps around, and the sum is then less than both summands.
LEMMA PlusOK ==
  ASSUME NEW l \in Word, NEW r \in Word
  PROVE  /\ Plus(l, r) \in Word
         /\ l > Plus(l, r) => Plus(l, r) = l + r - B
         /\ ~(l > Plus(l, r)) => Plus(l, r) = l + r
<1>1. CASE l + r < B
  <2>1. (l + r) % B = l + r - B * 0
    BY <1>1, WordAssumption, RemainderOK, l + r \in Int, l + r - B * 0 \in Word DEF Word
  <2> QED BY <1>1, <2>1, WordAssumption DEF Plus, Word
<1>2. CASE l + r >= B
  <2>1. (l + r) % B = l + r - B * 1
    BY <1>2, WordAssumption, RemainderOK, l + r \in Int, l + r - B * 1 \in Word DEF Word
  <2> QED BY <1>2, <2>1, WordAssumption DEF Plus, Word
<1> QED BY <1>1, <1>2, WordAssumption DEF Word

\* Subtraction, likewise.
LEMMA MinusOK ==
  ASSUME NEW l \in Word, NEW r \in Word
  PROVE  /\ Minus(l, r) \in Word
         /\ l < Minus(l, r) => Minus(l, r) = l - r + B
         /\ ~(l < Minus(l, r)) => Minus(l, r) = l - r
<1>1. CASE l >= r
  <2>1. (l - r) % B = l - r - B * 0
    BY <1>1, WordAssumption, RemainderOK, l - r \in Int, l - r - B * 0 \in Word DEF Word
  <2> QED BY <1>1, <2>1, WordAssumption DEF Minus, Word
<1>2. CASE l < r
  <2>1. (l - r) % B = l - r - B * (-1)
    BY <1>2, WordAssumption, RemainderOK, l - r \in Int, l - r - B * (-1) \in Word DEF Word
  <2> QED BY <1>2, <2>1, WordAssumption DEF Minus, Word
<1> QED BY <1>1, <1>2, WordAssumption DEF Word

\* extended_add of two limbs: sum and carry are the two digits of the sum.
LEMMA ExtendedAddOK ==
  ASSUME NEW l \in Word, NEW r \in Word
  PROVE  LET x == ExtendedAdd(l, r)
         IN  x.sum \in Word /\ x.carry \in Bit /\ x.sum + B * x.carry = l + r
<1>1. Plus(l, r) + B * IfBit(l > Plus(l, r)) = l + r
  BY PlusOK, WordAssumption DEF IfBit, Word
<1> QED BY <1>1, PlusOK DEF ExtendedAdd, Bit, IfBit

\* extended_add of two limbs and a carry: the carry out is at most one, and the
\* two comparisons find it.
LEMMA ExtendedAddCarryOK ==
  ASSUME NEW l \in Word, NEW r \in Word, NEW c \in Bit
  PROVE  LET x == ExtendedAddCarry(l, r, c)
         IN  x.sum \in Word /\ x.carry \in Bit /\ x.sum + B * x.carry = l + r + c
<1> DEFINE left  == Plus(l, c)
           right == Plus(r, left)
<1>1. c \in Word
  BY WordAssumption DEF Bit, Word
<1>2. left \in Word /\ (l > left => left = l + c - B) /\ (~(l > left) => left = l + c)
  BY <1>1, PlusOK
<1> HIDE DEF left
<1>3. right \in Word /\ (r > right => right = r + left - B) /\ (~(r > right) => right = r + left)
  BY <1>2, PlusOK
<1> HIDE DEF right
<1>4. l > left => c = 1 /\ left = 0
  BY <1>2, WordAssumption DEF Word, Bit
<1>5. ~(l > left /\ r > right)
  BY <1>2, <1>3, <1>4, WordAssumption DEF Word
<1>6. right + B * IfBit(l > left \/ r > right) = l + r + c
  BY <1>2, <1>3, <1>5, WordAssumption DEF Word, Bit, IfBit
<1>7. ExtendedAddCarry(l, r, c) = [sum |-> right, carry |-> IfBit(l > left \/ r > right)]
  BY DEF ExtendedAddCarry, left, right
<1> QED BY <1>3, <1>6, <1>7 DEF Bit, IfBit

\* subtract of two limbs and a borrow.
LEMMA SubtractBorrowOK ==
  ASSUME NEW l \in Word, NEW r \in Word, NEW b \in Bit
  PROVE  LET x == SubtractBorrow(l, r, b)
         IN  /\ x.difference \in Word /\ x.borrow \in Bit
             /\ x.difference - B * x.borrow = l - r - b
<1> DEFINE right == Plus(r, b)
           left  == Minus(l, right)
<1>1. b \in Word
  BY WordAssumption DEF Bit, Word
<1>2. right \in Word /\ (r > right => right = r + b - B) /\ (~(r > right) => right = r + b)
  BY <1>1, PlusOK
<1> HIDE DEF right
<1>3. left \in Word /\ (l < left => left = l - right + B) /\ (~(l < left) => left = l - right)
  BY <1>2, MinusOK
<1> HIDE DEF left
<1>4. r > right => b = 1 /\ right = 0
  BY <1>2, WordAssumption DEF Word, Bit
<1>5. ~(l < left /\ r > right)
  BY <1>2, <1>3, <1>4, WordAssumption DEF Word
<1>6. left - B * IfBit(l < left \/ r > right) = l - r - b
  BY <1>2, <1>3, <1>5, WordAssumption DEF Word, Bit, IfBit
<1>7. SubtractBorrow(l, r, b)
        = [difference |-> left, borrow |-> IfBit(l < left \/ r > right)]
  BY DEF SubtractBorrow, left, right
<1> QED BY <1>3, <1>6, <1>7 DEF Bit, IfBit

\* extended_multiply_add: a product of limbs and two more summands fit into two
\* limbs, so that no carry is lost.
LEMMA ExtendedMultiplyAddOK ==
  ASSUME NEW l \in Word, NEW r \in Word, NEW s \in Word, NEW o \in Word
  PROVE  LET x == ExtendedMultiplyAdd(l, r, s, o)
         IN  x.lower \in Word /\ x.upper \in Word /\ x.lower + B * x.upper = l * r + s + o
<1> DEFINE low  == (l * r) % B
           high == (l * r) \div B
           one  == ExtendedAdd(low, s)
           two  == ExtendedAdd(one.sum, o)
<1>1. l * r \in Int /\ l * r >= 0 /\ l * r <= (B-1) * (B-1)
  <2>1. l * r <= l * (B-1) /\ l * (B-1) <= (B-1) * (B-1)
    BY WordAssumption DEF Word
  <2>2. l * (B-1) \in Int /\ (B-1) * (B-1) \in Int /\ l * r \in Int /\ l * r >= 0
    BY WordAssumption DEF Word
  <2> QED BY <2>1, <2>2
<1>2. l * r = B * high + low /\ low \in Word /\ high \in Int
  BY <1>1, WordAssumption DEF Word
<1> HIDE DEF low, high
<1>3. one.sum \in Word /\ one.carry \in Bit /\ one.sum + B * one.carry = low + s
  BY <1>2, ExtendedAddOK
<1>4. two.sum \in Word /\ two.carry \in Bit /\ two.sum + B * two.carry = one.sum + o
  BY <1>3, ExtendedAddOK
<1> HIDE DEF one, two
<1> DEFINE top == high + one.carry + two.carry
<1>5. two.sum + B * top = l * r + s + o
  <2>1. B * top = B * high + B * one.carry + B * two.carry
    BY <1>2, <1>3, <1>4, WordAssumption DEF Bit
  <2>2. B * one.carry \in Int /\ B * two.carry \in Int /\ B * high \in Int
    BY <1>2, <1>3, <1>4, WordAssumption DEF Bit
  <2>3. /\ low \in Int /\ s \in Int /\ o \in Int /\ one.sum \in Int /\ two.sum \in Int
        /\ l * r \in Int
    BY <1>1, <1>2, <1>3, <1>4, WordAssumption DEF Word
  <2> DEFINE upper  == B * high
             first  == B * one.carry
             second == B * two.carry
             all    == B * top
             product == l * r
  <2>4. /\ upper \in Int /\ first \in Int /\ second \in Int /\ product \in Int
        /\ all = upper + first + second /\ product = upper + low
        /\ one.sum + first = low + s /\ two.sum + second = one.sum + o
    BY <1>2, <1>3, <1>4, <2>1, <2>2, <2>3
  <2> HIDE DEF upper, first, second, all, product
  <2>5. two.sum + all = product + s + o
    BY <2>3, <2>4
  <2> QED BY <2>5 DEF all, product
<1>6. B * top <= (B-1) * (B-1) + 2 * (B-1)
  BY <1>1, <1>2, <1>3, <1>4, <1>5, WordAssumption DEF Word, Bit
<1>7. (B-1) * (B-1) + 2 * (B-1) = B * B - 1
  BY WordAssumption
<1>8. top < B
  <2> SUFFICES ASSUME top >= B PROVE FALSE
    BY <1>2, <1>3, <1>4, WordAssumption DEF Bit
  <2>1. B * top >= B * B
    BY <1>2, <1>3, <1>4, WordAssumption DEF Bit
  <2> QED BY <1>2, <1>3, <1>4, <1>6, <1>7, <2>1, WordAssumption DEF Bit
<1>9. high >= 0
  <2> SUFFICES ASSUME high <= -1 PROVE FALSE
    BY <1>2
  <2>1. B * high <= -B
    BY <1>2, WordAssumption
  <2> QED BY <1>1, <1>2, <2>1, WordAssumption DEF Word
<1>10. Plus(Plus(high, one.carry), two.carry) = top /\ top \in Word
  <2>1. top \in Word /\ high + one.carry \in Word
    BY <1>2, <1>3, <1>4, <1>8, <1>9, WordAssumption DEF Bit, Word
  <2>2. \A x \in Word : x % B = x
    BY WordAssumption, QuotientUnique, \A x \in Word : x = B * 0 + x DEF Word
  <2> QED BY <2>1, <2>2 DEF Plus
<1>11. ExtendedMultiplyAdd(l, r, s, o)
         = [lower |-> two.sum, upper |-> Plus(Plus(high, one.carry), two.carry)]
  BY DEF ExtendedMultiplyAdd, ExtendedMultiply, Times, low, high, one, two
<1> QED BY <1>4, <1>5, <1>10, <1>11

------------------------------------------------------------------------------
(* Spans *)

\* The weights of limbs.
LEMMA PowerOK ==
  ASSUME NEW n \in 0..Limbs, NEW k \in 0..n
  PROVE  /\ B^k \in Nat \ {0}
         /\ n - k \in 0..Limbs
         /\ B^n = B^k * B^(n-k)
         /\ k < n => B^(k+1) = B^k * B
<1>1. k \in 0..Limbs /\ n - k \in 0..Limbs /\ k + (n-k) = n
  BY WordAssumption
<1>2. B^n = B^k * B^(n-k)
  BY <1>1, PowerAssumption
<1>3. ASSUME k < n PROVE B^(k+1) = B^k * B^1
  <2>1. 1 \in 0..Limbs /\ k + 1 <= Limbs
    BY <1>3, WordAssumption
  <2> QED BY <1>1, <2>1, PowerAssumption
<1> QED BY <1>1, <1>2, <1>3, PowerAssumption

\* Reading limb k: the lower k+1 limbs are the lower k and it.
LEMMA LimbOK ==
  ASSUME NEW x \in Int, NEW k \in 0..Limbs-1
  PROVE  /\ Limb(x, k) \in Word
         /\ FirstLimbs(x, k) \in 0 .. B^k - 1
         /\ FirstLimbs(x, k) \in Nat
         /\ FirstLimbs(x, k+1) = FirstLimbs(x, k) + Limb(x, k) * B^k
         /\ Subspan(x, k+1) = Subspan(x, k) \div B
         /\ Subspan(x, k) \in Int
<1> DEFINE w == B^k
           v == B^(k+1)
<1>1. w \in Nat \ {0} /\ v = w * B /\ B \in Nat \ {0}
  <2>1. k+1 \in 0..Limbs /\ k \in 0..k+1
    BY WordAssumption
  <2> QED BY <2>1, PowerOK, WordAssumption
<1> HIDE DEF w, v
<1>2. x \div v = (x \div w) \div B /\ x % v = (x % w) + ((x \div w) % B) * w
  BY <1>1, QuotientOfQuotient
<1>3. x \div w \in Int /\ x % w \in 0..w-1
  BY <1>1
<1>4. (x \div w) % B \in Word
  BY <1>1, <1>3 DEF Word
<1> QED BY <1>2, <1>3, <1>4 DEF Limb, FirstLimbs, Subspan, w, v

\* A limb is a word, and the limbs below it are a number.
LEMMA LimbType ==
  \A x \in Int, k \in 0..Limbs-1 : Limb(x, k) \in Word /\ FirstLimbs(x, k) \in Nat
BY LimbOK

\* Writing limb k: the limbs below it and those above it stay.
LEMMA StoreOK ==
  ASSUME NEW x \in Int, NEW k \in 0..Limbs-1, NEW word \in Word
  PROVE  LET y == Store(x, k, word)
         IN  /\ y \in Int
             /\ FirstLimbs(y, k+1) = FirstLimbs(x, k) + word * B^k
             /\ Subspan(y, k+1) = Subspan(x, k+1)
             /\ y = x + (word - Limb(x, k)) * B^k
<1> DEFINE w == B^k
           v == B^(k+1)
           l == Limb(x, k)
           y == Store(x, k, word)
           s == x % w
           t == x % v
           e == x \div v
<1>1. w \in Nat \ {0} /\ v = w * B /\ v \in Nat \ {0}
  <2>1. k+1 \in 0..Limbs /\ k \in 0..k+1 /\ k+1 \in 0..k+1
    BY WordAssumption
  <2> QED BY <2>1, PowerOK, WordAssumption
<1>2. l \in Word /\ s \in 0..w-1 /\ t = s + l * w
  BY LimbOK DEF FirstLimbs
<1> HIDE DEF w, v
<1>3. e \in Int /\ x = v * e + t
  <2>1. x \div v \in Int /\ x = v * (x \div v) + (x % v)
    BY <1>1, QuotientAndRemainder
  <2> QED BY <2>1 DEF e, t
<1>4. y = x + (word - l) * w
  BY DEF Store, w
<1> HIDE DEF l, y, e, s, t
<1>5. y = v * e + (s + word * w)
  BY <1>1, <1>2, <1>3, <1>4, WordAssumption DEF Word
<1>6. word * w <= (B-1) * w
  BY <1>1, WordAssumption DEF Word
<1>7. s + word * w \in 0..v-1
  BY <1>1, <1>2, <1>6, WordAssumption DEF Word
<1>8. y \in Int
  BY <1>1, <1>2, <1>4, WordAssumption DEF Word
<1>9. y \div v = e /\ y % v = s + word * w
  BY <1>1, <1>3, <1>5, <1>7, <1>8, QuotientUnique
<1> QED BY <1>4, <1>8, <1>9 DEF w, v, l, y, e, s, FirstLimbs, Subspan

\* A span of n limbs is a number below B^n.
LEMMA SpanOK ==
  ASSUME NEW x \in Int, NEW n \in 0..Limbs
  PROVE  /\ x \in 0 .. B^n - 1 <=> Subspan(x, n) = 0
         /\ x \in 0 .. B^n - 1 => FirstLimbs(x, n) = x
<1> DEFINE v == B^n
<1>1. v \in Nat \ {0}
  BY PowerOK, n \in 0..n
<1> HIDE DEF v
<1>2. x = v * (x \div v) + (x % v) /\ x % v \in 0..v-1
  BY <1>1
<1>3. ASSUME x \in 0..v-1 PROVE x \div v = 0 /\ x % v = x
  BY <1>1, <1>3, x = v * 0 + x, QuotientUnique
<1>4. ASSUME x \div v = 0 PROVE x \in 0..v-1
  BY <1>1, <1>2, <1>4
<1> QED BY <1>3, <1>4 DEF Subspan, FirstLimbs, v

\* Writing a limb of a span of n limbs does not leave the span.
LEMMA StoreInside ==
  ASSUME NEW n \in 0..Limbs, NEW x \in 0 .. B^n - 1, NEW k \in 0..n-1, NEW word \in Word
  PROVE  Store(x, k, word) \in 0 .. B^n - 1
<1> DEFINE y == Store(x, k, word)
           u == B^(k+1)
           r == B^(n-(k+1))
           v == B^n
<1>1. k+1 \in 0..n /\ k \in 0..Limbs-1 /\ n-(k+1) \in 0..n-(k+1) /\ n-(k+1) \in 0..Limbs
  BY WordAssumption
<1>2. v \in Nat \ {0}
  BY PowerOK, n \in 0..n
<1>3. u \in Nat \ {0} /\ r \in Nat \ {0} /\ v = u * r
  BY <1>1, PowerOK
<1>4. x \in Int
  BY <1>2
<1>5. y \in Int /\ y \div u = x \div u
  BY <1>1, <1>4, StoreOK DEF Subspan
<1> HIDE DEF y, u, r, v
<1>6. y \div v = x \div v
  <2>1. y \div v = (y \div u) \div r
    BY <1>3, <1>5, QuotientOfQuotient
  <2>2. x \div v = (x \div u) \div r
    BY <1>3, <1>4, QuotientOfQuotient
  <2> QED BY <1>5, <2>1, <2>2
<1> QED BY <1>4, <1>5, <1>6, SpanOK DEF Subspan, y, v

\* A number is its lowest limbs and the span of the others.
LEMMA SplitOK ==
  ASSUME NEW x \in Int, NEW n \in 0..Limbs
  PROVE  /\ FirstLimbs(x, n) \in Nat /\ FirstLimbs(x, n) < B^n
         /\ Subspan(x, n) \in Int
         /\ x = FirstLimbs(x, n) + Subspan(x, n) * B^n
<1> DEFINE v == B^n
<1>1. v \in Nat \ {0}
  BY PowerOK, n \in 0..n
<1> HIDE DEF v
<1>2. x \div v \in Int /\ x % v \in 0..v-1 /\ x = v * (x \div v) + (x % v)
  BY <1>1, QuotientAndRemainder
<1> DEFINE q == x \div v
           s == x % v
<1> HIDE DEF q, s
<1>3. q \in Int /\ s \in 0..v-1 /\ x = v * q + s
  BY <1>2 DEF q, s
<1>4. s \in Nat /\ s < v /\ x = s + q * v
  BY <1>1, <1>3
<1> QED BY <1>3, <1>4 DEF FirstLimbs, Subspan, q, s, v

\* No limbs are zero.
LEMMA NoLimbs ==
  ASSUME NEW x \in Int
  PROVE  FirstLimbs(x, 0) = 0
<1>1. x % 1 = 0
  BY x = 1 * x + 0, QuotientUnique
<1> QED BY <1>1, PowerAssumption DEF FirstLimbs

\* More limbs weigh more.
LEMMA PowerMonotone ==
  ASSUME NEW n \in 0..Limbs, NEW k \in 0..n
  PROVE  B^k <= B^n /\ B^k \in Nat /\ B^n \in Nat
<1> DEFINE u == B^k
           w == B^(n-k)
           v == B^n
<1>1. n-k \in 0..Limbs /\ k \in 0..Limbs
  BY WordAssumption
<1>2. u \in Nat /\ w \in Nat \ {0} /\ v \in Nat /\ v = u * w
  BY <1>1, PowerOK, PowerAssumption
<1> HIDE DEF u, w, v
<1>3. u * 1 <= u * w
  BY <1>2
<1>4. u <= v
  BY <1>2, <1>3
<1> QED BY <1>2, <1>4 DEF u, v

\* Writing a limb changes any number of limbs that it belongs to by the same.
LEMMA StoreWithin ==
  ASSUME NEW n \in 0..Limbs, NEW x \in Int, NEW k \in 0..n-1, NEW word \in Word
  PROVE  FirstLimbs(Store(x, k, word), n) = FirstLimbs(x, n) + (word - Limb(x, k)) * B^k
<1> DEFINE y == Store(x, k, word)
           d == (word - Limb(x, k)) * B^k
           u == B^(k+1)
           r == B^(n-(k+1))
           v == B^n
<1>1. k+1 \in 0..n /\ k \in 0..Limbs-1 /\ n-(k+1) \in 0..n-(k+1) /\ n-(k+1) \in 0..Limbs
  BY WordAssumption
<1>2. v \in Nat \ {0}
  BY PowerOK, n \in 0..n
<1>3. u \in Nat \ {0} /\ r \in Nat \ {0} /\ v = u * r
  BY <1>1, PowerOK
<1>4. y \in Int /\ y \div u = x \div u /\ y = x + d
  BY <1>1, StoreOK DEF Subspan
<1> HIDE DEF y, d, u, r, v
<1>5. y \div v = x \div v
  <2>1. y \div v = (y \div u) \div r
    BY <1>3, <1>4, QuotientOfQuotient
  <2>2. x \div v = (x \div u) \div r
    BY <1>3, QuotientOfQuotient
  <2> QED BY <1>4, <2>1, <2>2
<1> DEFINE q == x \div v
           f == x % v
           g == y % v
<1>6. q \in Int /\ f \in Int /\ x = v * q + f
  <2>1. x \div v \in Int /\ x % v \in 0..v-1 /\ x = v * (x \div v) + (x % v)
    BY <1>2, QuotientAndRemainder
  <2> QED BY <1>2, <2>1
<1>7. g \in Int /\ y = v * q + g
  <2>1. y % v \in 0..v-1 /\ y = v * (y \div v) + (y % v)
    BY <1>2, <1>4, QuotientAndRemainder
  <2>2. y \div v = q
    BY <1>5
  <2> HIDE DEF q, g
  <2>3. g \in 0..v-1 /\ y = v * q + g
    BY <2>1, <2>2 DEF g
  <2> QED BY <1>2, <2>3
<1> HIDE DEF q, f, g
<1>8. d \in Int
  <2>0. k \in 0..Limbs
    BY <1>1, WordAssumption
  <2>1. Limb(x, k) \in Word /\ B^k \in Nat
    BY <1>1, <2>0, LimbOK, PowerAssumption
  <2> DEFINE w == B^k
             l == Limb(x, k)
  <2>2. w \in Int /\ word - l \in Int
    BY <2>1, WordAssumption DEF Word
  <2> HIDE DEF w, l
  <2>3. (word - l) * w \in Int
    BY <2>2
  <2> QED BY <2>3 DEF d, w, l
<1>9. v * q \in Int
  BY <1>2, <1>6
<1>10. g = f + d
  BY <1>4, <1>6, <1>7, <1>8, <1>9
<1> QED BY <1>10 DEF g, f, d, y, v, FirstLimbs

\* multiply_add: the lowest limb of what extended_multiply_add gives.
LEMMA MultiplyAddOK ==
  ASSUME NEW l \in Word, NEW r \in Word, NEW s \in Word, NEW o \in Word
  PROVE  /\ MultiplyAdd(l, r, s, o) \in Word
         /\ \E h \in Int : MultiplyAdd(l, r, s, o) + B * h = l * r + s + o
<1>0. B \in Nat \ {0} /\ l \in Int /\ r \in Int /\ s \in Int /\ o \in Int
  BY WordAssumption DEF Word
<1> DEFINE p == l * r
           a == s + o
           x == p % B
           y == a % B
           z == x + y
<1>1. p \in Int /\ a \in Int
  BY <1>0
<1> HIDE DEF p, a
<1>2. PICK e \in Int : x \in 0..B-1 /\ p = B * e + x
  BY <1>0, <1>1, QuotientAndRemainder
<1>3. PICK f \in Int : y \in 0..B-1 /\ a = B * f + y
  BY <1>0, <1>1, QuotientAndRemainder
<1> HIDE DEF x, y
<1>4. z \in Int
  BY <1>0, <1>2, <1>3
<1> HIDE DEF z
<1>5. PICK g \in Int : z % B \in 0..B-1 /\ z = B * g + (z % B)
  BY <1>0, <1>4, QuotientAndRemainder
<1>6. MultiplyAdd(l, r, s, o) = z % B
  BY DEF MultiplyAdd, Plus, Times, x, y, z, p, a
<1> DEFINE m == z % B
<1>7. m \in 0..B-1 /\ z = B * g + m
  BY <1>5
<1> HIDE DEF m
<1>8. m + B * (e + f + g) = p + a
  <2>1. B * (e + f + g) = B * e + B * f + B * g
    BY <1>0
  <2>2. B * e \in Int /\ B * f \in Int /\ B * g \in Int
    BY <1>0
  <2>3. z = x + y
    BY DEF z
  <2> QED BY <1>0, <1>1, <1>2, <1>3, <1>7, <2>1, <2>2, <2>3
<1>9. p + a = l * r + s + o
  BY <1>0 DEF p, a
<1> QED BY <1>6, <1>7, <1>8, <1>9, e + f + g \in Int DEF m, Word

==============================================================================
